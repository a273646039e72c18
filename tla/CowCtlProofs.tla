---------------------------- MODULE CowCtlProofs ----------------------------
(***************************************************************************)
(* Proofs about CowCtl, for every set of inodes, every limit, every number *)
(* of operations and every clock.                                          *)
(***************************************************************************)
EXTENDS CowCtl, TLAPS, FiniteSetTheorems, WellFoundedInduction

(* The constants.                                                          *)
LEMMA CtlConstants ==
  /\ NsecPerSec \in Nat /\ NsecPerSec > 0
  /\ Epoch \in Nat /\ Epoch > 0 /\ MaxTime \in Nat /\ Epoch <= MaxTime
  /\ MaxVersions \in Nat /\ MaxVersions > 0 /\ IocMax \in Nat /\ IocMax > 0
  /\ None \notin Inode
BY CtlAssumption

-----------------------------------------------------------------------------
(* Lists.                                                                  *)

(* The least-number principle.                                             *)
LEMMA SmallestNumber ==
  ASSUME NEW P \in SUBSET Nat, P # {}
  PROVE  \E m \in P : \A x \in P : m <= x
<1> DEFINE R == {ss \in Nat \X Nat : ss[1] < ss[2]}
<1>1. IsWellFoundedOn(R, Nat)  BY NatLessThanWellFounded DEF OpToRel
<1> HIDE DEF R
<1>2. PICK m \in P : \A x \in P : ~(<<x, m>> \in R)  BY <1>1, WFMin
<1>3. ASSUME NEW x \in P PROVE m <= x
  <2>1. <<x, m>> \in Nat \X Nat  OBVIOUS
  <2>2. ~(x < m)  BY <1>2, <2>1 DEF R
  <2> QED  BY <2>2
<1> QED  BY <1>3

(* The oldest version of a list is one of it.                              *)
LEMMA TailListed ==
  ASSUME NEW S \in SUBSET Version, S # {}
  PROVE  ListTail(S) \in S
<1> DEFINE P == {v.pos : v \in S}
<1>1. P \in SUBSET Nat  BY DEF Version
<1>2. P # {}  OBVIOUS
<1>3. PICK m \in P : \A x \in P : m <= x  BY <1>1, <1>2, SmallestNumber
<1>4. PICK v \in S : v.pos = m  BY <1>3
<1>5. \A w \in S : v.pos <= w.pos  BY <1>3, <1>4
<1> QED  BY <1>5 DEF ListTail

(* So is the newest, their number being bounded.                           *)
LEMMA HeadListed ==
  ASSUME NEW S \in SUBSET Version, S # {}, NEW n \in Nat, \A v \in S : v.pos <= n
  PROVE  ListHead(S) \in S
<1> DEFINE P == {n - v.pos : v \in S}
<1>1. P \in SUBSET Nat  BY DEF Version
<1>2. P # {}  OBVIOUS
<1>3. PICK m \in P : \A x \in P : m <= x  BY <1>1, <1>2, SmallestNumber
<1>4. PICK v \in S : n - v.pos = m  BY <1>3
<1>5. ASSUME NEW w \in S PROVE w.pos <= v.pos
  <2>1. v.pos \in Nat /\ w.pos \in Nat  BY DEF Version
  <2>2. n - v.pos <= n - w.pos  BY <1>3, <1>4
  <2> QED  BY <2>1, <2>2
<1> QED  BY <1>5 DEF ListHead

(* The latest of some versions, by their stamps, is one of them.           *)
LEMMA LatestListed ==
  ASSUME NEW S \in SUBSET Version, S # {}
  PROVE  LatestDeleted(S) \in S
<1> DEFINE P == {MaxTime - v.ts : v \in S}
<1>0. \A v \in S : v.ts \in Nat /\ v.ts <= MaxTime  BY CtlConstants DEF Version, Stamp
<1>1. P \in SUBSET Nat  BY <1>0, CtlConstants
<1>2. P # {}  OBVIOUS
<1>3. PICK m \in P : \A x \in P : m <= x  BY <1>1, <1>2, SmallestNumber
<1>4. PICK v \in S : MaxTime - v.ts = m  BY <1>3
<1>5. ASSUME NEW w \in S PROVE w.ts <= v.ts
  <2>1. MaxTime - v.ts <= MaxTime - w.ts  BY <1>3, <1>4
  <2> QED  BY <1>0, <2>1, CtlConstants
<1> QED  BY <1>5 DEF LatestDeleted

(* A list that a version has come into.                                    *)
LEMMA InsertedEffect ==
  ASSUME NEW S \in SUBSET Version, IsFiniteSet(S), Cardinality(S) <= MaxVersions, NEW x \in Version
  PROVE  /\ Inserted(S, x) \in SUBSET Version /\ IsFiniteSet(Inserted(S, x))
         /\ Cardinality(Inserted(S, x)) <= MaxVersions
         /\ Inserted(S, x) \subseteq S \cup {x}
<1>1. PICK T \in SUBSET S : /\ Inserted(S, x) = T \cup {x}
                            /\ IsFiniteSet(T) /\ Cardinality(T) < MaxVersions
  <2>1. CASE Cardinality(S) >= MaxVersions
    <3>1. S # {}  BY <2>1, FS_EmptySet, CtlConstants
    <3>2. ListTail(S) \in S  BY <3>1, TailListed
    <3>3. /\ IsFiniteSet(S \ {ListTail(S)})
          /\ Cardinality(S \ {ListTail(S)}) = Cardinality(S) - 1
      BY <3>2, FS_RemoveElement
    <3>4. Cardinality(S \ {ListTail(S)}) < MaxVersions
      BY <2>1, <3>3, CtlConstants, FS_CardinalityType
    <3> QED  BY <2>1, <3>3, <3>4 DEF Inserted
  <2>2. CASE ~(Cardinality(S) >= MaxVersions)
    <3>1. Cardinality(S) < MaxVersions  BY <2>2, CtlConstants, FS_CardinalityType
    <3> QED  BY <2>2, <3>1 DEF Inserted
  <2> QED  BY <2>1, <2>2
<1>2. IsFiniteSet(T \cup {x}) /\ Cardinality(T \cup {x}) <= Cardinality(T) + 1
  BY <1>1, FS_AddElement, FS_CardinalityType
<1>3. Cardinality(T \cup {x}) <= MaxVersions
  BY <1>1, <1>2, CtlConstants, FS_AddElement, FS_CardinalityType
<1> QED  BY <1>1, <1>2, <1>3

(* No listing is longer than was asked for.                                *)
LEMMA ListingShort ==
  ASSUME NEW S \in SUBSET Version, IsFiniteSet(S), \A v, w \in S : v.pos = w.pos => v = w,
         NEW max \in Nat,
         NEW L, L = {v \in S : Cardinality({w \in S : w.pos > v.pos}) < max}
  PROVE  IsFiniteSet(L) /\ Cardinality(L) <= max
<1> DEFINE Ahead(v) == {w \in S : w.pos > v.pos}
           f == [v \in L |-> Cardinality(Ahead(v))]
<1>1. \A v \in S : IsFiniteSet(Ahead(v)) /\ Cardinality(Ahead(v)) \in Nat
  BY FS_Subset, FS_CardinalityType
<1>2. f \in [L -> 0..(max - 1)]  BY <1>1
<1>3. ASSUME NEW v \in S, NEW w \in S, v.pos < w.pos
      PROVE  Cardinality(Ahead(v)) # Cardinality(Ahead(w))
  <2>1. v.pos \in Nat /\ w.pos \in Nat /\ \A x \in S : x.pos \in Nat  BY DEF Version
  <2>2. Ahead(w) \in SUBSET Ahead(v)  BY <1>3, <2>1
  <2>3. w \in Ahead(v) /\ w \notin Ahead(w)  BY <1>3, <2>1
  <2> QED  BY <1>1, <2>2, <2>3, FS_Subset
<1>4. ASSUME NEW v \in L, NEW w \in L, f[v] = f[w] PROVE v = w
  <2>1. v \in S /\ w \in S /\ v.pos \in Nat /\ w.pos \in Nat  BY DEF Version
  <2>2. ~(v.pos < w.pos) /\ ~(w.pos < v.pos)  BY <1>3, <1>4, <2>1
  <2> QED  BY <2>1, <2>2
<1>5. f \in Injection(L, 0..(max - 1))  BY <1>2, <1>4 DEF Injection, IsInjective
<1>6. IsFiniteSet(0..(max - 1)) /\ Cardinality(0..(max - 1)) = max  BY FS_Interval
<1> HIDE DEF f
<1> QED  BY <1>5, <1>6, FS_Injection

-----------------------------------------------------------------------------
(* The invariant.                                                          *)

(* The versions there are, in a list or on their way to one.               *)
Saved(v) == v \in pending \/ v \in table[v.ino]

(* A list holds the versions of its inode, one behind the other; a pending *)
(* version is in none.                                                     *)
Lists ==
  /\ \A v \in pending : v.pos = 0
  /\ \A i \in Inode :
       /\ IsFiniteSet(table[i])
       /\ \A v \in table[i] : v.ino = i /\ v.pos \in 1..added
       /\ \A v, w \in table[i] : v.pos = w.pos => v = w

(* A version has a stamp that was given, and shares it with no other one   *)
(* if it was given once.                                                   *)
Stamps ==
  /\ \A v \in Version : Saved(v) => given[v.ts] # 0
  /\ \A v, w \in Version : Saved(v) /\ Saved(w) /\ v.ts = w.ts /\ given[v.ts] = 1 => v = w

(* What is on the screen is no more than the past: a stamp that was        *)
(* printed was given, and if once, it belongs to the version that was      *)
(* printed, if that is still there, and to no other.                       *)
Screen ==
  \A r \in shown : r.shadow # MetadataOnly =>
    /\ r.shadow \in Inode \X Stamp /\ given[r.shadow[2]] # 0
    /\ given[r.shadow[2]] = 1 =>
         \A v \in Version : Saved(v) /\ v.ts = r.shadow[2] => Path(v) = r.shadow

(* Inductive.                                                              *)
CtlInv == TypeOK /\ Lists /\ Stamps /\ Screen

(* What the state is made of.                                              *)
LEMMA CtlTypes ==
  ASSUME TypeOK
  PROVE  /\ name \in Inode \cup {None}
         /\ table \in [Inode -> SUBSET Version] /\ added \in Nat /\ pending \subseteq Version
         /\ given \in [Stamp -> 0..2] /\ shown \subseteq Row
         /\ \A v \in Version : v.ino \in Inode /\ v.ts \in Stamp /\ v.pos \in Nat
BY DEF TypeOK, Version

(* At first there are no versions.                                         *)
LEMMA CtlInit == Init => CtlInv /\ RowExact
<1> SUFFICES ASSUME Init PROVE CtlInv /\ RowExact  OBVIOUS
<1>1. TypeOK
  <2>1. Cardinality({}) = 0  BY FS_EmptySet
  <2> QED  BY <2>1, CtlConstants DEF Init, TypeOK
<1>2. \A v \in Version : ~Saved(v)  BY <1>1, CtlTypes DEF Init, Saved
<1>3. Lists  BY FS_EmptySet DEF Init, Lists
<1>4. Stamps /\ Screen  BY <1>2 DEF Init, Stamps, Screen
<1> QED  BY <1>1, <1>3, <1>4 DEF CtlInv, Init, RowExact

-----------------------------------------------------------------------------
(* The steps, by what they do.                                             *)

(* Nothing but what the path leads to.                                     *)
Moved ==
  name' \in Inode \cup {None} /\ UNCHANGED <<table, added, pending, given, shown>>

(* One of the versions C that satisfies the request for ts, or None if     *)
(* there is none.                                                          *)
Answer(f, C, ts) ==
  \/ f \in C /\ Matches(f, ts)
  \/ f = None /\ \A v \in C : ~Matches(v, ts)

(* The request a is answered with f.                                       *)
Replied(a, f) ==
  /\ Moved
  /\ Answer(f, IF name = None THEN Deleted(0) ELSE table[name], Timestamp(a))
  /\ last' = [arg |-> a, at |-> name, found |-> f]

(* The version v leaves pending; x, which is v with or without its data,   *)
(* has come into the list.                                                 *)
Joined(v, x) ==
  /\ x \in Version /\ x.ino = v.ino /\ x.ts = v.ts /\ x.pos = added + 1
  /\ pending' = pending \ {v}
  /\ table' = [table EXCEPT ![v.ino] = Inserted(@, x)] /\ added' = added + 1
  /\ name' \in Inode \cup {None} /\ UNCHANGED <<given, shown>>

(* The version v is given up.                                              *)
Dropped(v) ==
  /\ pending' = pending \ {v}
  /\ name' \in Inode \cup {None} /\ UNCHANGED <<table, added, given, shown>>

(* What a request may be.                                                  *)
LEMMA ArgumentsKnown ==
  ASSUME TypeOK, Screen, NEW a \in Arguments
  PROVE  /\ a \in Argument
         /\ a.text = "stamp" => \E r \in shown : /\ r.shadow # MetadataOnly
                                                 /\ a.row = r.shadow /\ a.digits = r.shadow[2]
<1>1. \A r \in shown : /\ r.date \in Nat
                       /\ r.shadow # MetadataOnly =>
                            r.shadow \in Inode \X Stamp /\ r.shadow[2] \in Nat
  BY CtlConstants DEF TypeOK, Screen, Row, Stamp
<1>2. CASE \E t \in {"", "latest", "word"} : a = [text |-> t, digits |-> 0, row |-> None]
  <2>1. PICK t \in {"", "latest", "word"} : a = [text |-> t, digits |-> 0, row |-> None]
    BY <1>2
  <2>2. t \in Texts /\ t # "stamp"  BY <2>1 DEF Texts
  <2>3. a \in Argument  BY <2>1, <2>2 DEF Argument
  <2>4. a.text = t  BY <2>1
  <2> QED  BY <2>2, <2>3, <2>4
<1>3. CASE \E r \in {s \in shown : s.shadow # MetadataOnly} :
             a = [text |-> "stamp", digits |-> r.shadow[2], row |-> r.shadow]
  <2>1. PICK r \in shown :
          /\ r.shadow # MetadataOnly
          /\ a = [text |-> "stamp", digits |-> r.shadow[2], row |-> r.shadow]
    BY <1>3
  <2>2. r.shadow \in Inode \X Stamp /\ r.shadow[2] \in Nat  BY <1>1, <2>1
  <2>3. a.text = "stamp" /\ a.digits = r.shadow[2] /\ a.row = r.shadow  BY <2>1
  <2>4. a \in Argument
    <3>1. PICK n, sh : n = r.shadow[2] /\ sh = r.shadow  OBVIOUS
    <3> QED  BY <2>1, <2>2, <3>1 DEF Argument, Texts
  <2> QED  BY <2>1, <2>3, <2>4
<1>4. CASE \E r \in shown : a = [text |-> "date", digits |-> r.date, row |-> None]
  BY <1>1, <1>4 DEF Argument, Texts
<1> QED  BY <1>2, <1>3, <1>4 DEF Arguments

(* What cowfs_version_find finds.                                          *)
LEMMA FindEffect ==
  ASSUME TypeOK, Lists, NEW i \in Inode, NEW ts
  PROVE  Answer(cowfs_version_find(i, ts), table[i], ts)
<1>1. table[i] \in SUBSET Version /\ added \in Nat /\ \A v \in table[i] : v.pos <= added
  BY CtlTypes DEF Lists
<1>2. PICK hits : hits = {v \in table[i] : Matches(v, ts)}  OBVIOUS
<1>3. cowfs_version_find(i, ts) = IF hits = {} THEN None ELSE ListHead(hits)
  BY <1>2 DEF cowfs_version_find
<1>4. CASE hits = {}  BY <1>2, <1>3, <1>4 DEF Answer
<1>5. CASE hits # {}
  <2>1. hits \in SUBSET Version /\ \A v \in hits : v.pos <= added  BY <1>1, <1>2
  <2>2. ListHead(hits) \in hits  BY <1>1, <1>5, <2>1, HeadListed
  <2> QED  BY <1>2, <1>3, <1>5, <2>2 DEF Answer
<1> QED  BY <1>4, <1>5

(* A deleted version is a version in a list.                               *)
LEMMA DeletedSaved ==
  ASSUME TypeOK, Lists, NEW ts, NEW v
  PROVE  v \in Deleted(ts) <=> /\ v \in Version /\ v \in table[v.ino]
                               /\ v.op = UNLINK /\ Matches(v, ts)
<1>1. table \in [Inode -> SUBSET Version] /\ \A w \in Version : w.ino \in Inode
  BY CtlTypes
<1>2. \A i \in Inode : \A w \in table[i] : w.ino = i  BY DEF Lists
<1> QED  BY <1>1, <1>2 DEF Deleted

(* What cowfs_version_find_deleted finds.                                  *)
LEMMA FindDeletedEffect ==
  ASSUME TypeOK, Lists, NEW ts,
         NEW f, f = IF Deleted(ts) = {} THEN None ELSE LatestDeleted(Deleted(ts))
  PROVE  Answer(f, Deleted(0), ts)
<1>1. \A v : v \in Deleted(ts) <=> v \in Deleted(0) /\ Matches(v, ts)
  BY DeletedSaved DEF Matches
<1>2. CASE Deleted(ts) = {}  BY <1>1, <1>2 DEF Answer
<1>3. CASE Deleted(ts) # {}
  <2>1. Deleted(ts) \in SUBSET Version  BY DeletedSaved
  <2>2. LatestDeleted(Deleted(ts)) \in Deleted(ts)  BY <1>3, <2>1, LatestListed
  <2> QED  BY <1>1, <1>3, <2>2 DEF Answer
<1> QED  BY <1>2, <1>3

(* The kinds of steps.                                                     *)
LEMMA CtlSteps ==
  ASSUME CtlInv, [Next]_vars
  PROVE  \/ UNCHANGED vars
         \/ Moved /\ last' = None
         \/ \E i \in Inode, ts \in Stamp, op \in Op, data \in BOOLEAN :
              cowfs_version_alloc(i, ts, op, data)
         \/ \E v \in pending, x \in Version : Joined(v, x) /\ last' = None
         \/ \E v \in pending : Dropped(v) /\ last' = None
         \/ \E cutoff \in Stamp : cowfs_version_gc(cutoff)
         \/ cmd_list \/ ListRefused
         \/ \E a \in Arguments, f \in Version \cup {None} : Replied(a, f)
<1>0. /\ TypeOK /\ Lists /\ pending \subseteq Version /\ added \in Nat
      /\ table \in [Inode -> SUBSET Version] /\ name \in Inode \cup {None}
      /\ \A v \in pending : v.ino \in Inode
  BY CtlTypes DEF CtlInv
<1>1. CASE Create \/ Unsaved  BY <1>1 DEF Create, Unsaved, Moved, tableVars
<1>2. ASSUME NEW v \in pending, Goes(v) PROVE name' \in Inode \cup {None}
  BY <1>0, <1>2 DEF Goes
<1>3. ASSUME NEW v \in pending, cowfs_version_add(v)
      PROVE  \E x \in Version : Joined(v, x) /\ last' = None
  <2>1. PICK x : x = [v EXCEPT !.pos = added + 1]  OBVIOUS
  <2>2. x \in Version /\ x.ino = v.ino /\ x.ts = v.ts /\ x.pos = added + 1
    BY <1>0, <2>1 DEF Version
  <2>3. name' \in Inode \cup {None}  BY <1>2, <1>3 DEF cowfs_version_add
  <2> QED  BY <1>3, <2>1, <2>2, <2>3 DEF cowfs_version_add, AddToTable, Joined
<1>4. ASSUME NEW v \in pending, CopyFails(v)
      PROVE  \/ \E x \in Version : Joined(v, x) /\ last' = None
             \/ Dropped(v) /\ last' = None
  <2>1. PICK u : u = [v EXCEPT !.data = FALSE]  OBVIOUS
  <2>2. u \in Version /\ u.ino = v.ino /\ u.ts = v.ts
    BY <1>0, <2>1, FALSE \in BOOLEAN DEF Version
  <2>3. PICK x : x = [u EXCEPT !.pos = added + 1]  OBVIOUS
  <2>4. x \in Version /\ x.ino = v.ino /\ x.ts = v.ts /\ x.pos = added + 1
    BY <1>0, <2>2, <2>3 DEF Version
  <2>5. name' \in Inode \cup {None}  BY <1>2, <1>4 DEF CopyFails
  <2>6. CASE AddToTable(u)
    <3>1. table' = [table EXCEPT ![v.ino] = Inserted(@, x)] /\ added' = added + 1
      BY <2>2, <2>3, <2>6 DEF AddToTable
    <3> QED  BY <1>4, <2>4, <2>5, <3>1 DEF CopyFails, Joined
  <2>7. CASE UNCHANGED tableVars  BY <1>4, <2>5, <2>7 DEF CopyFails, Dropped, tableVars
  <2> QED  BY <1>4, <2>1, <2>6, <2>7 DEF CopyFails
<1>5. ASSUME NEW a \in Arguments, cmd_rollback(a)
      PROVE  \E f \in Version \cup {None} : Replied(a, f)
  <2>1. PICK f : f = cowfs_version_find(name, Timestamp(a))  OBVIOUS
  <2>2. name # None /\ name \in Inode  BY <1>0, <1>5 DEF cmd_rollback
  <2>3. Answer(f, table[name], Timestamp(a))  BY <1>0, <2>1, <2>2, FindEffect
  <2>4. f \in Version \cup {None}  BY <1>0, <2>2, <2>3 DEF Answer
  <2>5. Moved /\ last' = [arg |-> a, at |-> name, found |-> f]
    BY <1>0, <1>5, <2>1 DEF cmd_rollback, Moved, tableVars
  <2> QED  BY <2>2, <2>3, <2>4, <2>5 DEF Replied
<1>6. ASSUME NEW a \in Arguments, rollback_deleted(a) \/ NothingDeleted(a)
      PROVE  \E f \in Version \cup {None} : Replied(a, f)
  <2>1. PICK D : D = Deleted(Timestamp(a))  OBVIOUS
  <2>2. PICK f : f = IF D = {} THEN None ELSE LatestDeleted(D)  OBVIOUS
  <2>3. Answer(f, Deleted(0), Timestamp(a))  BY <1>0, <2>1, <2>2, FindDeletedEffect
  <2>4. f \in Version \cup {None}  BY <1>0, <2>3, DeletedSaved DEF Answer
  <2>5. name = None  BY <1>6 DEF rollback_deleted, NothingDeleted
  <2>6. Moved  BY <1>0, <1>6 DEF rollback_deleted, NothingDeleted, Moved, tableVars
  <2>7. last' = [arg |-> a, at |-> name, found |-> f]
    BY <1>6, <2>1, <2>2, <2>5 DEF rollback_deleted, NothingDeleted
  <2> QED  BY <2>3, <2>4, <2>5, <2>6, <2>7 DEF Replied
<1> QED  BY <1>1, <1>3, <1>4, <1>5, <1>6 DEF Next

-----------------------------------------------------------------------------
(* What each kind of step preserves.                                       *)

(* A request and its answer.                                               *)
LastOK ==
  last \in {None} \cup [arg : Argument, at : Inode \cup {None}, found : Version \cup {None}]

(* The lists stay as they are.                                             *)
LEMMA MovedInv ==
  ASSUME CtlInv, Moved, LastOK'
  PROVE  CtlInv'
<1>1. TypeOK'  BY DEF CtlInv, TypeOK, LastOK, Moved
<1>2. Lists' /\ Stamps'  BY DEF CtlInv, Moved, Lists, Stamps, Saved
<1>3. Screen'  BY DEF CtlInv, Moved, Screen, Saved
<1> QED  BY <1>1, <1>2, <1>3 DEF CtlInv

(* A new version has a stamp that is given once more.                      *)
LEMMA AllocInv ==
  ASSUME CtlInv, NEW i \in Inode, NEW ts \in Stamp, NEW op \in Op, NEW data \in BOOLEAN,
         cowfs_version_alloc(i, ts, op, data)
  PROVE  CtlInv'
<1>0. TypeOK /\ Lists /\ Stamps /\ Screen /\ given \in [Stamp -> 0..2]  BY DEF CtlInv, TypeOK
<1>1. /\ last' = None /\ given' = [given EXCEPT ![ts] = IF given[ts] = 0 THEN 1 ELSE 2]
      /\ UNCHANGED <<name, table, added, shown>>
  BY DEF cowfs_version_alloc, tableVars
<1>2. PICK x : x = [ino |-> i, ts |-> ts, op |-> op, data |-> data, pos |-> 0]  OBVIOUS
<1>3. pending' = pending \cup {x}  BY <1>2 DEF cowfs_version_alloc
<1>4. x \in Version /\ x.ino = i /\ x.ts = ts /\ x.pos = 0
  BY <1>2 DEF Version
<1>5. given' \in [Stamp -> 0..2] /\ given'[ts] # 0 /\ (given'[ts] = 1 => given[ts] = 0)
  BY <1>0, <1>1
<1>6. \A n \in Stamp : n # ts => given'[n] = given[n]  BY <1>0, <1>1
<1>7. TypeOK'  BY <1>0, <1>1, <1>3, <1>4, <1>5 DEF TypeOK
<1>8. \A v \in Version : Saved(v)' <=> Saved(v) \/ v = x  BY <1>1, <1>3 DEF Saved
<1>9. Lists'  BY <1>0, <1>1, <1>3, <1>4 DEF Lists
<1>10. \A v \in Version : v.ts \in Stamp  BY DEF Version
<1>11. Stamps'
  <2>1. \A v \in Version : Saved(v)' => given'[v.ts] # 0
    BY <1>0, <1>4, <1>5, <1>6, <1>8, <1>10 DEF Stamps
  <2>2. ASSUME NEW v \in Version, NEW w \in Version, Saved(v)', Saved(w)', v.ts = w.ts,
               given'[v.ts] = 1
        PROVE  v = w
    <3>1. CASE v.ts = ts  BY <1>0, <1>5, <1>8, <2>2, <3>1 DEF Stamps
    <3>2. CASE v.ts # ts
      <4>1. given[v.ts] = 1 /\ Saved(v) /\ Saved(w)  BY <1>4, <1>6, <1>8, <1>10, <2>2, <3>2
      <4> QED  BY <1>0, <2>2, <4>1 DEF Stamps
    <3> QED  BY <3>1, <3>2
  <2> QED  BY <2>1, <2>2 DEF Stamps
<1>12. Screen'
  <2>1. ASSUME NEW r \in shown, r.shadow # MetadataOnly
        PROVE  /\ r.shadow \in Inode \X Stamp /\ given'[r.shadow[2]] # 0
               /\ given'[r.shadow[2]] = 1 =>
                    \A v \in Version : Saved(v)' /\ v.ts = r.shadow[2] => Path(v) = r.shadow
    <3>1. PICK n : n = r.shadow[2]  OBVIOUS
    <3>2. /\ r.shadow \in Inode \X Stamp /\ n \in Stamp /\ given[n] # 0
          /\ given[n] = 1 => \A v \in Version : Saved(v) /\ v.ts = n => Path(v) = r.shadow
      BY <1>0, <2>1, <3>1 DEF Screen
    <3>3. given'[n] # 0 /\ (given'[n] = 1 => n # ts /\ given[n] = 1)
      BY <1>5, <1>6, <3>2
    <3> QED  BY <1>4, <1>8, <3>1, <3>2, <3>3
  <2> QED  BY <1>1, <2>1 DEF Screen
<1> QED  BY <1>7, <1>9, <1>11, <1>12 DEF CtlInv

(* Versions are carried over or go.                                        *)
LEMMA CarriedOver ==
  ASSUME CtlInv, UNCHANGED <<given, shown>>,
         \A x \in Version : Saved(x)' => \E v \in Version :
            Saved(v) /\ v.ino = x.ino /\ v.ts = x.ts,
         \A x, y \in Version : Saved(x)' /\ Saved(y)' /\ x.ts = y.ts /\ given[x.ts] = 1 => x = y
  PROVE  Stamps' /\ Screen'
<1>0. Stamps /\ Screen  BY DEF CtlInv
<1>1. Stamps'
  <2>1. \A x \in Version : Saved(x)' => given[x.ts] # 0  BY <1>0 DEF Stamps
  <2> QED  BY <2>1 DEF Stamps
<1>2. Screen'
  <2>1. ASSUME NEW r \in shown, r.shadow # MetadataOnly, given[r.shadow[2]] = 1,
               NEW x \in Version, Saved(x)', x.ts = r.shadow[2]
        PROVE  Path(x) = r.shadow
    <3>1. PICK v \in Version : Saved(v) /\ v.ino = x.ino /\ v.ts = x.ts  BY <2>1
    <3>2. Path(v) = r.shadow  BY <1>0, <2>1, <3>1 DEF Screen
    <3> QED  BY <3>1, <3>2 DEF Path
  <2> QED  BY <1>0, <2>1 DEF Screen
<1> QED  BY <1>1, <1>2

(* A version comes into its list, which may lose the oldest one.           *)
LEMMA JoinedInv ==
  ASSUME CtlInv, NEW v \in pending, NEW x \in Version, Joined(v, x), last' = None
  PROVE  CtlInv'
<1>0. /\ TypeOK /\ Lists /\ Stamps /\ v \in Version /\ Saved(v) /\ v.ino \in Inode
      /\ table \in [Inode -> SUBSET Version] /\ pending \subseteq Version /\ added \in Nat
      /\ \A w \in Version : w.ino \in Inode /\ w.pos \in Nat
  BY CtlTypes DEF CtlInv, Saved
<1>1. /\ x.ino = v.ino /\ x.ts = v.ts /\ x.pos = added + 1
      /\ pending' = pending \ {v}
      /\ table' = [table EXCEPT ![v.ino] = Inserted(table[v.ino], x)] /\ added' = added + 1
      /\ name' \in Inode \cup {None} /\ UNCHANGED <<given, shown>>
  BY DEF Joined
<1>2. PICK S \in SUBSET Version : S = table[v.ino]  BY <1>0
<1>3. IsFiniteSet(S) /\ Cardinality(S) <= MaxVersions  BY <1>0, <1>2 DEF Lists, TypeOK
<1>4. PICK T \in SUBSET Version : T = Inserted(S, x)  BY <1>3, InsertedEffect
<1>5. IsFiniteSet(T) /\ Cardinality(T) <= MaxVersions /\ T \subseteq S \cup {x}
  BY <1>3, <1>4, InsertedEffect
<1>6. table'[v.ino] = T /\ \A i \in Inode \ {v.ino} : table'[i] = table[i]
  BY <1>0, <1>1, <1>2, <1>4
<1>7. TypeOK'
  <2>1. table' \in [Inode -> SUBSET Version]  BY <1>0, <1>1, <1>2, <1>4
  <2>2. \A i \in Inode : Cardinality(table'[i]) <= MaxVersions
    BY <1>0, <1>5, <1>6 DEF TypeOK
  <2> QED  BY <1>0, <1>1, <2>1, <2>2 DEF TypeOK
<1>8. Lists'
  <2>1. ASSUME NEW i \in Inode, i # v.ino
        PROVE  /\ IsFiniteSet(table'[i])
               /\ \A w \in table'[i] : w.ino = i /\ w.pos \in 1..added'
               /\ \A w, y \in table'[i] : w.pos = y.pos => w = y
    <3>1. \A w \in table[i] : w.pos \in Nat  BY <1>0
    <3> QED  BY <1>0, <1>1, <1>6, <2>1, <3>1 DEF Lists
  <2>2. \A w \in S : w.ino = v.ino /\ w.pos \in 1..added  BY <1>0, <1>2 DEF Lists
  <2>3. \A w, y \in S : w.pos = y.pos => w = y  BY <1>0, <1>2 DEF Lists
  <2>4. /\ \A w \in T : w.ino = v.ino /\ w.pos \in 1..added'
        /\ \A w, y \in T : w.pos = y.pos => w = y
    BY <1>0, <1>1, <1>5, <2>2, <2>3
  <2>5. \A w \in pending' : w.pos = 0  BY <1>0, <1>1 DEF Lists
  <2> QED  BY <1>5, <1>6, <2>1, <2>4, <2>5 DEF Lists
<1>9. ASSUME NEW y \in Version, Saved(y)' PROVE y = x \/ (Saved(y) /\ y # v)
  <2>1. CASE y \in pending'  BY <1>1, <2>1 DEF Saved
  <2>2. CASE y \in table'[y.ino]
    <3>1. y \in table[y.ino] \/ y = x  BY <1>0, <1>2, <1>5, <1>6, <2>2
    <3>2. v \notin table[v.ino]  BY <1>0 DEF Lists
    <3> QED  BY <3>1, <3>2 DEF Saved
  <2> QED  BY <1>9, <2>1, <2>2 DEF Saved
<1>10. \A y, z \in Version : Saved(y)' /\ Saved(z)' /\ y.ts = z.ts /\ given[y.ts] = 1 => y = z
  BY <1>0, <1>1, <1>9 DEF Stamps
<1>11. \A y \in Version : Saved(y)' => \E w \in Version :
         Saved(w) /\ w.ino = y.ino /\ w.ts = y.ts
  BY <1>0, <1>1, <1>9
<1>12. Stamps' /\ Screen'  BY <1>1, <1>10, <1>11, CarriedOver
<1> QED  BY <1>7, <1>8, <1>12 DEF CtlInv

(* A version that could not be copied is given up.                         *)
LEMMA DroppedInv ==
  ASSUME CtlInv, NEW v \in pending, Dropped(v), last' = None
  PROVE  CtlInv'
<1>0. TypeOK /\ Lists /\ Stamps  BY DEF CtlInv
<1>1. /\ pending' = pending \ {v} /\ name' \in Inode \cup {None}
      /\ UNCHANGED <<table, added, given, shown>>
  BY DEF Dropped
<1>2. TypeOK'  BY <1>0, <1>1 DEF TypeOK
<1>3. Lists'  BY <1>0, <1>1 DEF Lists
<1>4. \A y \in Version : Saved(y)' => Saved(y)  BY <1>1 DEF Saved
<1>5. \A y, z \in Version : Saved(y)' /\ Saved(z)' /\ y.ts = z.ts /\ given[y.ts] = 1 => y = z
  BY <1>0, <1>4 DEF Stamps
<1>6. Stamps' /\ Screen'  BY <1>1, <1>4, <1>5, CarriedOver
<1> QED  BY <1>2, <1>3, <1>6 DEF CtlInv

(* Versions are collected.                                                 *)
LEMMA CollectedInv ==
  ASSUME CtlInv, NEW cutoff \in Stamp, cowfs_version_gc(cutoff)
  PROVE  CtlInv'
<1>0. TypeOK /\ Lists /\ Stamps /\ table \in [Inode -> SUBSET Version]
  BY CtlTypes DEF CtlInv
<1>1. /\ table' = [i \in Inode |-> {v \in table[i] : v.ts >= cutoff}] /\ last' = None
      /\ UNCHANGED <<name, added, pending, given, shown>>
  BY DEF cowfs_version_gc
<1>2. ASSUME NEW i \in Inode
      PROVE  /\ table'[i] \in SUBSET table[i] /\ IsFiniteSet(table'[i])
             /\ Cardinality(table'[i]) <= MaxVersions
  <2>1. table'[i] \in SUBSET table[i]  BY <1>1
  <2>2. IsFiniteSet(table[i]) /\ Cardinality(table[i]) <= MaxVersions
    BY <1>0 DEF Lists, TypeOK
  <2>3. IsFiniteSet(table'[i]) /\ Cardinality(table'[i]) <= Cardinality(table[i])
    BY <2>1, <2>2, FS_Subset
  <2>4. Cardinality(table'[i]) \in Nat /\ Cardinality(table[i]) \in Nat
    BY <2>2, <2>3, FS_CardinalityType
  <2> QED  BY <2>1, <2>2, <2>3, <2>4, CtlConstants
<1>3. TypeOK'
  <2>1. table' \in [Inode -> SUBSET Version]  BY <1>0, <1>1, <1>2
  <2> QED  BY <1>0, <1>1, <1>2, <2>1 DEF TypeOK
<1>4. Lists'  BY <1>0, <1>1, <1>2 DEF Lists
<1>5. \A y \in Version : Saved(y)' => Saved(y)
  <2>1. \A y \in Version : y.ino \in Inode  BY DEF Version
  <2> QED  BY <1>1, <1>2, <2>1 DEF Saved
<1>6. \A y, z \in Version : Saved(y)' /\ Saved(z)' /\ y.ts = z.ts /\ given[y.ts] = 1 => y = z
  BY <1>0, <1>5 DEF Stamps
<1>7. Stamps' /\ Screen'  BY <1>1, <1>5, <1>6, CarriedOver
<1> QED  BY <1>3, <1>4, <1>7 DEF CtlInv

(* What is printed of a version.                                           *)
LEMMA PrintedRow ==
  ASSUME NEW v \in Version
  PROVE  /\ Printed(v) \in Row
         /\ Printed(v).shadow # MetadataOnly => Printed(v).shadow = Path(v)
<1>1. v.ino \in Inode /\ v.ts \in Stamp /\ v.op \in 1..4 /\ Path(v) \in Inode \X Stamp
  BY DEF Version, Op, Path
<1>2. v.op = 1 \/ v.op = 2 \/ v.op = 3 \/ v.op = 4  BY <1>1
<1>3. op_name(v.op) \in {"WRITE", "UNLINK", "RENAME", "SETATTR"}
  <2>1. 1 # 2 /\ 1 # 3 /\ 1 # 4 /\ 2 # 3 /\ 2 # 4 /\ 3 # 4  OBVIOUS
  <2> QED  BY <1>2, <2>1, Zenon DEF op_name
<1>4. PICK n, o : n = v.ts \div NsecPerSec /\ o = op_name(v.op)  OBVIOUS
<1>5. n \in Nat  BY <1>1, <1>4, CtlConstants DEF Stamp
<1>6. Printed(v) = [date |-> n, op |-> o, shadow |-> IF v.data THEN Path(v) ELSE MetadataOnly]
  BY <1>4 DEF Printed
<1> QED  BY <1>1, <1>3, <1>4, <1>5, <1>6 DEF Row

(* A listing is printed.                                                   *)
LEMMA ListedInv ==
  ASSUME CtlInv, cmd_list \/ ListRefused
  PROVE  CtlInv'
<1>0. TypeOK /\ Lists /\ Stamps /\ table \in [Inode -> SUBSET Version]
  BY CtlTypes DEF CtlInv
<1>1. UNCHANGED <<name, table, added, pending, given>> /\ last' = None
  BY DEF cmd_list, ListRefused, tableVars
<1>2. \A v \in Version : Saved(v)' <=> Saved(v)  BY <1>1 DEF Saved
<1>3. Lists' /\ Stamps'  BY <1>0, <1>1, <1>2 DEF Lists, Stamps
<1>4. /\ shown' \subseteq Row /\ Cardinality(shown') <= IocMax /\ Screen'
  <2>1. CASE ListRefused
    BY <2>1, FS_EmptySet, CtlConstants DEF ListRefused, Screen
  <2>2. CASE cmd_list
    <3>1. name \in Inode  BY <1>0, <2>2 DEF cmd_list, TypeOK
    <3>2. PICK S \in SUBSET Version : S = table[name]  BY <1>0, <3>1
    <3>3. IsFiniteSet(S) /\ \A v, w \in S : v.pos = w.pos => v = w  BY <1>0, <3>1, <3>2 DEF Lists
    <3>4. PICK L : L = {v \in S : Cardinality({w \in S : w.pos > v.pos}) < IocMax}  OBVIOUS
    <3>5. IsFiniteSet(L) /\ Cardinality(L) <= IocMax  BY <3>3, <3>4, CtlConstants, ListingShort
    <3>6. L \subseteq Version /\ \A v \in L : Saved(v)
      BY <1>0, <3>1, <3>2, <3>4 DEF Lists, Saved
    <3>7. shown' = {Printed(v) : v \in L}
      BY <2>2, <3>2, <3>4 DEF cmd_list, cowfs_version_list
    <3>8. Cardinality(shown') <= IocMax
      <4>1. PICK f : f = [v \in L |-> Printed(v)]  OBVIOUS
      <4>2. f \in Surjection(L, shown')  BY <3>7, <4>1 DEF Surjection
      <4>3. IsFiniteSet(shown') /\ Cardinality(shown') <= Cardinality(L)
        BY <3>5, <4>2, FS_Surjection
      <4> QED  BY <3>5, <4>3, CtlConstants, FS_CardinalityType
    <3>9. shown' \subseteq Row  BY <3>6, <3>7, PrintedRow
    <3>10. ASSUME NEW r \in shown', r.shadow # MetadataOnly
           PROVE  /\ r.shadow \in Inode \X Stamp /\ given[r.shadow[2]] # 0
                  /\ given[r.shadow[2]] = 1 =>
                       \A v \in Version : Saved(v) /\ v.ts = r.shadow[2] => Path(v) = r.shadow
      <4>1. PICK u \in L : r = Printed(u)  BY <3>7, <3>10
      <4>2. u \in Version /\ Saved(u) /\ u.ino \in Inode /\ u.ts \in Stamp
        BY <3>6, <4>1 DEF Version
      <4>3. r.shadow = <<u.ino, u.ts>>  BY <3>10, <4>1, <4>2, PrintedRow DEF Path
      <4>4. r.shadow[2] = u.ts /\ r.shadow \in Inode \X Stamp  BY <4>2, <4>3
      <4>5. /\ given[u.ts] # 0
            /\ given[u.ts] = 1 => \A v \in Version : Saved(v) /\ v.ts = u.ts => v = u
        BY <1>0, <4>2 DEF Stamps
      <4>6. Path(u) = r.shadow  BY <4>3 DEF Path
      <4> QED  BY <4>4, <4>5, <4>6
    <3>11. Screen'
      <4>1. \A r \in shown' : r.shadow # MetadataOnly =>
              /\ r.shadow \in Inode \X Stamp /\ given'[r.shadow[2]] # 0
              /\ given'[r.shadow[2]] = 1 =>
                   \A v \in Version : Saved(v)' /\ v.ts = r.shadow[2] => Path(v) = r.shadow
        BY <1>1, <1>2, <3>10
      <4> QED  BY <4>1 DEF Screen
    <3> QED  BY <3>8, <3>9, <3>11
  <2> QED  BY <2>1, <2>2
<1>5. TypeOK'  BY <1>0, <1>1, <1>4 DEF TypeOK
<1> QED  BY <1>3, <1>4, <1>5 DEF CtlInv

-----------------------------------------------------------------------------
(* What a request is answered.                                             *)

(* The time that is sent to the device.                                    *)
LEMMA TimestampSent ==
  ASSUME NEW a, a.text = "stamp"
  PROVE  Timestamp(a) = a.digits
<1>1. PICK t : t = a.text  OBVIOUS
<1>2. t \notin {"", "latest"}  BY <1>1
<1> QED  BY <1>1, <1>2 DEF Timestamp

(* A stamp on the screen that was given once is satisfied by the version   *)
(* that was printed, and by that one only.                                 *)
LEMMA RequestExact ==
  ASSUME CtlInv, NEW a \in Arguments, a.text = "stamp", given[a.digits] = 1,
         NEW v \in Version, v \in table[v.ino]
  PROVE  Matches(v, Timestamp(a)) <=> Path(v) = a.row
<1>0. TypeOK /\ Screen /\ Saved(v)  BY DEF CtlInv, Saved
<1>1. PICK r \in shown : r.shadow # MetadataOnly /\ a.row = r.shadow /\ a.digits = r.shadow[2]
  BY <1>0, ArgumentsKnown
<1>2. PICK n : n = r.shadow[2]  OBVIOUS
<1>3. /\ r.shadow \in Inode \X Stamp
      /\ v.ts = n => Path(v) = r.shadow
  BY <1>0, <1>1, <1>2 DEF Screen
<1>4. n # 0  BY <1>2, <1>3, CtlConstants DEF Stamp
<1>5. Timestamp(a) = n  BY <1>1, <1>2, TimestampSent
<1>6. Path(v) = r.shadow => v.ts = n  BY <1>2 DEF Path
<1> QED  BY <1>1, <1>3, <1>4, <1>5, <1>6 DEF Matches

(* The answer to such a request is that version, if it is there.           *)
LEMMA AnswerExact ==
  ASSUME CtlInv, NEW a \in Arguments, a.text = "stamp", given[a.digits] = 1,
         NEW C \in SUBSET Version, \A v \in C : v \in table[v.ino],
         NEW f, Answer(f, C, Timestamp(a))
  PROVE  /\ f # None => Path(f) = a.row
         /\ \A v \in C : Path(v) = a.row => f = v
<1>1. PICK ts : ts = Timestamp(a)  OBVIOUS
<1>2. \A v \in C : Matches(v, ts) <=> Path(v) = a.row  BY <1>1, RequestExact
<1>3. \/ f \in C /\ Matches(f, ts)
      \/ f = None /\ \A v \in C : ~Matches(v, ts)
  BY <1>1 DEF Answer
<1>4. ASSUME NEW v \in C, Path(v) = a.row PROVE f = v
  <2>1. f \in C /\ Path(f) = Path(v)  BY <1>2, <1>3, <1>4
  <2>2. f.ts = v.ts /\ Saved(f) /\ Saved(v)  BY <1>4, <2>1 DEF Path, Saved
  <2>3. given[v.ts] = 1
    <3>1. TypeOK /\ Screen  BY DEF CtlInv
    <3>2. PICK r \in shown : a.row = r.shadow /\ a.digits = r.shadow[2]
      BY <3>1, ArgumentsKnown
    <3>3. a.digits = v.ts  BY <1>4, <3>2 DEF Path
    <3> QED  BY <3>3
  <2> QED  BY <2>1, <2>2, <2>3 DEF CtlInv, Stamps
<1> QED  BY <1>2, <1>3, <1>4

(* A reply is of its type, and exact.                                      *)
LEMMA ReplyExact ==
  ASSUME CtlInv, NEW a \in Arguments, NEW f \in Version \cup {None}, Replied(a, f)
  PROVE  LastOK' /\ RowExact'
<1>0. /\ TypeOK /\ Lists /\ Screen /\ name \in Inode \cup {None}
      /\ table \in [Inode -> SUBSET Version]
  BY CtlTypes DEF CtlInv
<1>1. PICK C : C = IF name = None THEN Deleted(0) ELSE table[name]  OBVIOUS
<1>2. /\ Answer(f, C, Timestamp(a)) /\ table' = table /\ given' = given
      /\ last' = [arg |-> a, at |-> name, found |-> f]
  BY <1>1 DEF Replied, Moved
<1>3. a \in Argument  BY <1>0, ArgumentsKnown
<1>4. LastOK'  BY <1>0, <1>2, <1>3 DEF LastOK
<1>5. C \in SUBSET Version /\ \A v \in C : v \in table[v.ino]
  <2>1. CASE name = None  BY <1>0, <1>1, <2>1, DeletedSaved
  <2>2. CASE name # None  BY <1>0, <1>1, <2>2 DEF Lists
  <2> QED  BY <2>1, <2>2
<1>6. last'.arg = a /\ last'.at = name /\ last'.found = f  BY <1>2
<1>7. Candidates(last)' = C  BY <1>1, <1>2, <1>6 DEF Candidates, Deleted
<1>8. a.text = "stamp" /\ given[a.digits] = 1 =>
        /\ f # None => Path(f) = a.row
        /\ \A v \in C : Path(v) = a.row => f = v
  BY <1>2, <1>5, AnswerExact
<1>9. RowExact'  BY <1>2, <1>6, <1>7, <1>8 DEF RowExact
<1> QED  BY <1>4, <1>9

(* Every step keeps the invariant, and what it answers is exact.           *)
LEMMA CtlNext ==
  ASSUME CtlInv, [Next]_vars
  PROVE  CtlInv' /\ (UNCHANGED vars \/ RowExact')
<1>1. CASE UNCHANGED vars
  <2>1. Moved /\ LastOK'  BY <1>1 DEF CtlInv, TypeOK, LastOK, vars, Moved
  <2> QED  BY <1>1, <2>1, MovedInv
<1>2. last' = None => LastOK' /\ RowExact'  BY DEF LastOK, RowExact
<1>3. ASSUME Moved, last' = None PROVE CtlInv'  BY <1>2, <1>3, MovedInv
<1>4. ASSUME NEW i \in Inode, NEW ts \in Stamp, NEW op \in Op, NEW data \in BOOLEAN,
             cowfs_version_alloc(i, ts, op, data)
      PROVE  CtlInv' /\ last' = None
  BY <1>4, AllocInv DEF cowfs_version_alloc
<1>5. ASSUME NEW v \in pending, NEW x \in Version, Joined(v, x), last' = None PROVE CtlInv'
  BY <1>5, JoinedInv
<1>6. ASSUME NEW v \in pending, Dropped(v), last' = None PROVE CtlInv'
  BY <1>6, DroppedInv
<1>7. ASSUME NEW cutoff \in Stamp, cowfs_version_gc(cutoff) PROVE CtlInv' /\ last' = None
  BY <1>7, CollectedInv DEF cowfs_version_gc
<1>8. ASSUME cmd_list \/ ListRefused PROVE CtlInv' /\ last' = None
  BY <1>8, ListedInv DEF cmd_list, ListRefused
<1>9. ASSUME NEW a \in Arguments, NEW f \in Version \cup {None}, Replied(a, f)
      PROVE  CtlInv' /\ RowExact'
  <2>1. Moved  BY <1>9 DEF Replied
  <2> QED  BY <1>9, <2>1, ReplyExact, MovedInv
<1> QED  BY <1>1, <1>2, <1>3, <1>4, <1>5, <1>6, <1>7, <1>8, <1>9, CtlSteps

-----------------------------------------------------------------------------
(* Theorems.                                                               *)

(* The invariant holds.                                                    *)
LEMMA CtlInvariant == Spec => []CtlInv
BY CtlInit, CtlNext, PTL DEF Spec

(* The requests and their answers are of their types: no list is longer    *)
(* than COWFS_MAX_VERSIONS, and no listing than COWFS_IOC_MAX_VERSIONS     *)
(* (cowfs_version_add, cowfs_version_list).                                *)
THEOREM CtlTypeCorrect == Spec => []TypeOK
<1>1. CtlInv => TypeOK  BY DEF CtlInv
<1> QED  BY <1>1, CtlInvariant, PTL

(* A stamp that was copied from a listing, and that the clock has shown to *)
(* one operation only, finds the version of that row or nothing, whatever  *)
(* has happened since and however the clock was set (cmd_list,             *)
(* cmd_rollback, cowfs_version_find, cowfs_version_find_deleted).          *)
THEOREM RowCorrect == Spec => []RowExact
<1>1. ASSUME CtlInv, RowExact, [Next]_vars PROVE RowExact'
  <2>1. CASE UNCHANGED vars  BY <1>1, <2>1 DEF vars, RowExact, Candidates, Deleted
  <2> QED  BY <1>1, <2>1, CtlNext
<1> QED  BY <1>1, CtlInit, CtlInvariant, PTL DEF Spec

=============================================================================
