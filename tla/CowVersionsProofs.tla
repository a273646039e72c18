------------------------- MODULE CowVersionsProofs -------------------------
(***************************************************************************)
(* Proofs about CowVersions, for every set of inodes, threads and names,   *)
(* every limit and every combination of failures.                          *)
(***************************************************************************)
EXTENDS CowVersions, TLAPS, FiniteSetTheorems, WellFoundedInduction

(* list_add counts up: an entry of a list is older than the next one.      *)
PosBounded == \A i \in Inode : \A v \in table[i] : v.pos <= added

(* What the bookkeeping of cowfs_versions.c relies on: an eviction finds a *)
(* list that is not empty because version_count is exact, and the new      *)
(* entry is not in the list already because its position is a fresh one.   *)
Bookkeeping == TypeOK /\ CountExact /\ PosBounded

-----------------------------------------------------------------------------
(* The least-number principle.                                             *)
LEMMA LeastNatural ==
  ASSUME NEW P \in SUBSET Nat, P # {}
  PROVE  \E m \in P : \A x \in P : m <= x
<1> DEFINE R == {ss \in Nat \X Nat : ss[1] < ss[2]}
<1>1. IsWellFoundedOn(R, Nat)  BY NatLessThanWellFounded DEF OpToRel
<1> HIDE DEF R
<1>2. PICK m \in P : \A x \in P : ~(<<x, m>> \in R)  BY <1>1, WFMin
<1>3. ASSUME NEW x \in P PROVE m <= x
  <2>1. <<x, m>> \in Nat \X Nat  OBVIOUS
  <2>2. ~(x < m)  BY <1>2, <2>1 DEF R
  <2> QED  BY <2>2
<1> QED  BY <1>3

(* A list that has entries has a first one ...                             *)
LEMMA ListTailIn ==
  ASSUME NEW S \in SUBSET Version, S # {}
  PROVE  /\ ListTail(S) \in S
         /\ \A w \in S : ListTail(S).pos <= w.pos
<1> DEFINE P == {v.pos : v \in S}
<1>1. P \in SUBSET Nat  BY DEF Version
<1>2. P # {}  OBVIOUS
<1>3. PICK m \in P : \A x \in P : m <= x  BY <1>1, <1>2, LeastNatural
<1>4. PICK v \in S : v.pos = m  BY <1>3
<1>5. \A w \in S : v.pos <= w.pos  BY <1>3, <1>4
<1> QED  BY <1>5 DEF ListTail

(* ... and, its positions being bounded, a last one.                       *)
LEMMA ListHeadIn ==
  ASSUME NEW S \in SUBSET Version, S # {}, NEW n \in Nat, \A v \in S : v.pos <= n
  PROVE  ListHead(S) \in S
<1> DEFINE P == {n - v.pos : v \in S}
<1>1. P \in SUBSET Nat  BY DEF Version
<1>2. P # {}  OBVIOUS
<1>3. PICK m \in P : \A x \in P : m <= x  BY <1>1, <1>2, LeastNatural
<1>4. PICK v \in S : n - v.pos = m  BY <1>3
<1>5. ASSUME NEW w \in S PROVE w.pos <= v.pos
  <2>1. v.pos \in Nat /\ w.pos \in Nat  BY DEF Version
  <2>2. n - v.pos <= n - w.pos  BY <1>3, <1>4
  <2> QED  BY <2>1, <2>2
<1> QED  BY <1>5 DEF ListHead

(* Taking the expired entries out of a finite list lowers its length by    *)
(* their number.                                                           *)
LEMMA RemoveExpired ==
  ASSUME NEW S, IsFiniteSet(S), NEW T \in SUBSET S
  PROVE  /\ IsFiniteSet(S \ T)
         /\ Cardinality(S \ T) = Cardinality(S) - Cardinality(T)
         /\ Cardinality(S \ T) <= Cardinality(S)
<1>1. S \cap T = T  OBVIOUS
<1>2. S \ T \in SUBSET S  OBVIOUS
<1> QED  BY <1>1, <1>2, FS_Difference, FS_Subset

-----------------------------------------------------------------------------
(* An empty table is in order.                                             *)
LEMMA BookkeepingInit == Init => Bookkeeping
<1> SUFFICES ASSUME Init PROVE Bookkeeping  OBVIOUS
<1>1. TypeOK  BY SizeAssumption DEF Init, TypeOK, GcIdle, PC, InOperation
<1>2. CountExact  BY FS_EmptySet, SizeAssumption DEF Init, CountExact
<1>3. PosBounded  BY DEF Init, PosBounded
<1> QED  BY <1>1, <1>2, <1>3 DEF Bookkeeping

(* A fresh version and an entry made of one are versions.                  *)
LEMMA FreshVersion ==
  ASSUME TypeOK, NEW op \in Op, NEW i \in Inode, NEW n \in Name \cup {NoName}
  PROVE  cowfs_version_alloc(op, i, n) \in Version
BY DEF TypeOK, Version, cowfs_version_alloc

(* The entry that cowfs_version_add makes of a version.                    *)
LEMMA EntryVersion ==
  ASSUME TypeOK, NEW t \in Thread, ver[t] \in Version
  PROVE  NewEntry(t) \in Version /\ NewEntry(t).pos = added + 1
BY DEF TypeOK, Version, NewEntry

(* cowfs_version_alloc and its four callers.                               *)
LEMMA PrologueTypes ==
  ASSUME TypeOK, NEW t \in Thread, Prologue(t)
  PROVE  TypeOK'
<1>1. PICK op \in Op, i \in Inode, n \in Name \cup {NoName}, next \in {"open", "add"} :
        Alloc(t, op, i, n, next)
  BY DEF Prologue, cowfs_write, cowfs_unlink, cowfs_rename, cowfs_setattr, Op
<1>2. cowfs_version_alloc(op, i, n) \in Version  BY FreshVersion
<1>3. (ver \in [Thread -> Version \cup {NoVersion}])'
  BY <1>1, <1>2 DEF Alloc, TypeOK
<1>4. (pc \in [Thread -> PC])'  BY <1>1 DEF Alloc, TypeOK, PC
<1>5. \A u \in Thread : /\ pc'[u] \in InOperation => ver'[u] \in Version
                        /\ pc'[u] = "free" => victim'[u] \in Version
  BY <1>1, <1>2 DEF Alloc, TypeOK, InOperation
<1>6. now' \in Nat /\ allocs' \in Nat /\ live' \subseteq Nat
  BY <1>1, SizeAssumption DEF Alloc, TypeOK
<1> QED  BY <1>1, <1>3, <1>4, <1>5, <1>6 DEF Alloc, TypeOK, listVars, storeVars, gcVars

(* Setting has_data changes nothing else of a version.                     *)
LEMMA DataVersion ==
  ASSUME TypeOK, NEW t \in Thread, ver[t] \in Version
  PROVE  /\ [ver[t] EXCEPT !.data = TRUE] \in Version
         /\ [ver[t] EXCEPT !.data = TRUE].ts = ver[t].ts
         /\ [ver[t] EXCEPT !.data = TRUE].ino = ver[t].ino
BY DEF TypeOK, Version

(* A shadow file is named after an inode and a time.                       *)
LEMMA PathType ==
  ASSUME NEW v \in Version
  PROVE  Path(v) \in Inode \X Nat
BY DEF Version, Path

(* The steps of a copy change where a thread is, what it holds, and the    *)
(* shadow directory.                                                       *)
LEMMA CopyTypes ==
  ASSUME TypeOK, NEW t \in Thread,
         \/ CopyOpen(t) \/ CopyOpenFails(t) \/ CopyDone(t) \/ CopyShort(t)
         \/ CopyAborts(t)
  PROVE  TypeOK'
<1> USE DEF listVars, storeVars, gcVars
<1>1. ver[t] \in Version
  BY DEF TypeOK, InOperation, CopyOpen, CopyOpenFails, CopyDone, CopyShort, CopyAborts
<1>2. Path(ver[t]) \in Inode \X Nat  BY <1>1, PathType
<1>3. CASE CopyOpen(t)
  <2>1. (shadow \subseteq Inode \X Nat)' /\ (whole \subseteq shadow)'
    BY <1>2, <1>3 DEF CopyOpen, TypeOK
  <2>2. (pc \in [Thread -> PC])' /\ \A u \in Thread :
          /\ pc'[u] \in InOperation => ver'[u] \in Version
          /\ pc'[u] = "free" => victim'[u] \in Version
    BY <1>1, <1>3 DEF CopyOpen, TypeOK, PC, InOperation
  <2> QED  BY <1>3, <2>1, <2>2 DEF CopyOpen, TypeOK
<1>4. CASE CopyOpenFails(t) \/ CopyAborts(t)
  <2>1. CopyFailed(t)  BY <1>4 DEF CopyOpenFails, CopyAborts
  <2>2. (ver \in [Thread -> Version \cup {NoVersion}])' /\ live' \subseteq Nat
    BY <2>1 DEF CopyFailed, TypeOK
  <2>3. (pc \in [Thread -> PC])' /\ \A u \in Thread :
          /\ pc'[u] \in InOperation => ver'[u] \in Version
          /\ pc'[u] = "free" => victim'[u] \in Version
    BY <1>1, <1>4, <2>1
    DEF CopyFailed, CopyOpenFails, CopyAborts, TypeOK, PC, InOperation
  <2> QED  BY <1>4, <2>2, <2>3 DEF CopyOpenFails, CopyAborts, TypeOK
<1>5. CASE CopyDone(t) \/ CopyShort(t)
  <2>1. ver' = [ver EXCEPT ![t] = [ver[t] EXCEPT !.data = TRUE]]
    BY <1>5 DEF CopyDone, CopyShort, TypeOK
  <2>2. [ver[t] EXCEPT !.data = TRUE] \in Version  BY <1>1, DataVersion
  <2> DEFINE w == [ver[t] EXCEPT !.data = TRUE]
  <2> HIDE DEF w
  <2>3. ver' = [ver EXCEPT ![t] = w] /\ w \in Version  BY <2>1, <2>2 DEF w
  <2>4. (ver \in [Thread -> Version \cup {NoVersion}])'  BY <2>3 DEF TypeOK
  <2>5. (pc \in [Thread -> PC])' /\ \A u \in Thread :
          /\ pc'[u] \in InOperation => ver'[u] \in Version
          /\ pc'[u] = "free" => victim'[u] \in Version
    BY <1>5, <2>3 DEF CopyDone, CopyShort, TypeOK, PC, InOperation
  <2>6. CASE CopyDone(t)
    <3>1. (whole \subseteq shadow)'  BY <2>6 DEF CopyDone, TypeOK
    <3> QED  BY <2>4, <2>5, <2>6, <3>1 DEF CopyDone, TypeOK
  <2>7. CASE CopyShort(t)  BY <2>4, <2>5, <2>7 DEF CopyShort, TypeOK
  <2> QED  BY <1>5, <2>6, <2>7
<1> QED  BY <1>3, <1>4, <1>5

(* cowfs_version_add.  The list that is full is not empty, so that what is *)
(* evicted is a version.                                                   *)
LEMMA AddTypes ==
  ASSUME TypeOK, CountExact, NEW t \in Thread,
         AddBelowLimit(t) \/ AddEvicting(t) \/ AddNoMemory(t)
  PROVE  TypeOK'
<1> USE DEF listVars, storeVars, gcVars
<1> DEFINE i == ver[t].ino
<1>1. ver[t] \in Version
  BY DEF TypeOK, InOperation, AddBelowLimit, AddEvicting, AddNoMemory
<1>2. i \in Inode  BY <1>1 DEF Version
<1>3. NewEntry(t) \in Version  BY <1>1, EntryVersion
<1> HIDE DEF i
<1>4. table[i] \in SUBSET Version /\ count[i] \in Int  BY <1>2 DEF TypeOK
<1>5. CASE AddBelowLimit(t)
  <2>1. (table \in [Inode -> SUBSET Version])' /\ (count \in [Inode -> Int])'
    BY <1>2, <1>3, <1>4, <1>5 DEF AddBelowLimit, TypeOK, i
  <2>2. (infos \subseteq Inode)' /\ added' \in Nat
    BY <1>2, <1>5 DEF AddBelowLimit, TypeOK, i
  <2>3. (ver \in [Thread -> Version \cup {NoVersion}])' /\ (pc \in [Thread -> PC])'
    BY <1>5 DEF AddBelowLimit, TypeOK, PC
  <2>4. \A u \in Thread : /\ pc'[u] \in InOperation => ver'[u] \in Version
                          /\ pc'[u] = "free" => victim'[u] \in Version
    BY <1>5 DEF AddBelowLimit, TypeOK, InOperation
  <2> QED  BY <1>5, <2>1, <2>2, <2>3, <2>4 DEF AddBelowLimit, TypeOK
<1>6. CASE AddEvicting(t)
  <2>1. Oldest(i) \in Version
    <3>1. count[i] >= MaxVersions  BY <1>6 DEF AddEvicting, Full, i
    <3>2. IsFiniteSet(table[i]) /\ count[i] = Cardinality(table[i])
      BY <1>2 DEF CountExact
    <3>3. table[i] # {}  BY <3>1, <3>2, FS_EmptySet, SizeAssumption
    <3> QED  BY <1>4, <3>3, ListTailIn DEF Oldest
  <2>2. (table \in [Inode -> SUBSET Version])' /\ (count \in [Inode -> Int])'
    BY <1>2, <1>3, <1>4, <1>6 DEF AddEvicting, Evict, TypeOK, i
  <2>3. (infos \subseteq Inode)' /\ added' \in Nat
    BY <1>2, <1>6 DEF AddEvicting, TypeOK, i
  <2>4. (victim \in [Thread -> Version \cup {NoVersion}])' /\ (pc \in [Thread -> PC])'
    BY <1>6, <2>1 DEF AddEvicting, TypeOK, PC, i
  <2>5. \A u \in Thread : /\ pc'[u] \in InOperation => ver'[u] \in Version
                          /\ pc'[u] = "free" => victim'[u] \in Version
    BY <1>1, <1>6, <2>1 DEF AddEvicting, TypeOK, InOperation, i
  <2> QED  BY <1>6, <2>2, <2>3, <2>4, <2>5 DEF AddEvicting, TypeOK
<1>7. CASE AddNoMemory(t)
  <2>1. (ver \in [Thread -> Version \cup {NoVersion}])' /\ (pc \in [Thread -> PC])'
    BY <1>7 DEF AddNoMemory, TypeOK, PC
  <2>2. \A u \in Thread : /\ pc'[u] \in InOperation => ver'[u] \in Version
                          /\ pc'[u] = "free" => victim'[u] \in Version
    BY <1>7 DEF AddNoMemory, TypeOK, InOperation
  <2> QED  BY <1>7, <2>1, <2>2 DEF AddNoMemory, TypeOK
<1> QED  BY <1>5, <1>6, <1>7

(* version_count follows the list through an insertion, an eviction, ...   *)
LEMMA AddCounts ==
  ASSUME Bookkeeping, NEW t \in Thread,
         AddBelowLimit(t) \/ AddEvicting(t)
  PROVE  CountExact' /\ PosBounded'
<1> DEFINE i == ver[t].ino
<1>1. ver[t] \in Version /\ added \in Nat
  BY DEF Bookkeeping, TypeOK, InOperation, AddBelowLimit, AddEvicting
<1>2. i \in Inode  BY <1>1 DEF Version
<1>3. NewEntry(t) \in Version /\ NewEntry(t).pos = added + 1
  BY <1>1, EntryVersion DEF Bookkeeping
<1> HIDE DEF i
<1>4. table[i] \in SUBSET Version /\ table \in [Inode -> SUBSET Version]
  BY <1>2 DEF Bookkeeping, TypeOK
<1>5. /\ IsFiniteSet(table[i]) /\ Cardinality(table[i]) \in Nat
      /\ count[i] = Cardinality(table[i]) /\ count[i] <= MaxVersions
  BY <1>2, FS_CardinalityType DEF Bookkeeping, CountExact
<1>6. NewEntry(t) \notin table[i]
  BY <1>1, <1>2, <1>3 DEF Bookkeeping, PosBounded
<1>7. CASE AddBelowLimit(t)
  <2>1. table' = [table EXCEPT ![i] = table[i] \cup {NewEntry(t)}]
        /\ count' = [count EXCEPT ![i] = count[i] + 1] /\ added' = added + 1
        /\ ~(count[i] >= MaxVersions)
    BY <1>7 DEF AddBelowLimit, Full, i
  <2>2. IsFiniteSet(table[i] \cup {NewEntry(t)})
        /\ Cardinality(table[i] \cup {NewEntry(t)}) = count[i] + 1
    BY <1>5, <1>6, FS_AddElement
  <2>3. count[i] + 1 <= MaxVersions  BY <1>5, <2>1, SizeAssumption
  <2>4. CountExact'
    BY <1>2, <1>4, <2>1, <2>2, <2>3 DEF CountExact, Bookkeeping, TypeOK
  <2>5. PosBounded'
    BY <1>1, <1>2, <1>3, <1>4, <2>1 DEF PosBounded, Bookkeeping, Version
  <2> QED  BY <2>4, <2>5
<1>8. CASE AddEvicting(t)
  <2>1. table' = [table EXCEPT ![i] = Evict(i) \cup {NewEntry(t)}]
        /\ count' = [count EXCEPT ![i] = (count[i] - 1) + 1] /\ added' = added + 1
        /\ count[i] >= MaxVersions
    BY <1>8 DEF AddEvicting, Full, i
  <2>2. table[i] # {}  BY <1>5, <2>1, FS_EmptySet, SizeAssumption
  <2>3. Oldest(i) \in table[i]  BY <1>4, <2>2, ListTailIn DEF Oldest
  <2>4. IsFiniteSet(Evict(i)) /\ Cardinality(Evict(i)) = count[i] - 1
    BY <1>5, <2>3, FS_RemoveElement DEF Evict
  <2>5. NewEntry(t) \notin Evict(i)  BY <1>6 DEF Evict
  <2>6. IsFiniteSet(Evict(i) \cup {NewEntry(t)})
        /\ Cardinality(Evict(i) \cup {NewEntry(t)}) = (count[i] - 1) + 1
    BY <2>4, <2>5, FS_AddElement
  <2>7. CountExact'
    BY <1>2, <1>4, <1>5, <2>1, <2>6 DEF CountExact, Bookkeeping, TypeOK
  <2>8. PosBounded'
    BY <1>1, <1>2, <1>3, <1>4, <2>1 DEF PosBounded, Evict, Bookkeeping, Version
  <2> QED  BY <2>7, <2>8
<1> QED  BY <1>7, <1>8

(* ... a garbage collection ...                                            *)
LEMMA CollectCounts ==
  ASSUME Bookkeeping, GcCollect
  PROVE  TypeOK' /\ CountExact' /\ PosBounded'
<1> USE DEF Bookkeeping
<1>1. ASSUME NEW i \in Inode
      PROVE  /\ Expired(i) \in SUBSET table[i]
             /\ table[i] \in SUBSET Version
             /\ table'[i] = table[i] \ Expired(i)
             /\ count'[i] = count[i] - Cardinality(Expired(i))
  BY DEF TypeOK, GcCollect, Expired, CountAfterGc
<1>2. ASSUME NEW i \in Inode
      PROVE  /\ IsFiniteSet(table'[i]) /\ count'[i] \in Int
             /\ count'[i] = Cardinality(table'[i]) /\ count'[i] <= MaxVersions
  <2>1. IsFiniteSet(table[i]) /\ count[i] = Cardinality(table[i])
        /\ count[i] <= MaxVersions
    BY DEF CountExact
  <2>2. Cardinality(table[i]) \in Nat  BY <2>1, FS_CardinalityType
  <2>3. IsFiniteSet(table'[i]) /\ Cardinality(table'[i]) \in Nat
    BY <1>1, <2>1, RemoveExpired, FS_CardinalityType
  <2>4. Cardinality(table'[i]) = Cardinality(table[i]) - Cardinality(Expired(i))
        /\ Cardinality(table'[i]) <= Cardinality(table[i])
    BY <1>1, <2>1, RemoveExpired
  <2> QED  BY <1>1, <2>1, <2>2, <2>3, <2>4, SizeAssumption
<1>3. CountExact'  BY <1>2 DEF CountExact
<1>4. PosBounded'  BY <1>1 DEF PosBounded, GcCollect
<1>5. (table \in [Inode -> SUBSET Version])' /\ (gcq \subseteq Version)'
  BY <1>1 DEF GcCollect, TypeOK
<1>6. (count \in [Inode -> Int])'  BY <1>2 DEF GcCollect
<1>7. gcr' \in [idle : BOOLEAN, now : Nat, window : Nat]  BY DEF GcCollect, GcIdle
<1>8. TypeOK'  BY <1>5, <1>6, <1>7 DEF GcCollect, TypeOK, storeVars
<1> QED  BY <1>3, <1>4, <1>8

(* ... and the freeing of all versions.                                    *)
LEMMA DestroyCounts ==
  ASSUME Bookkeeping, cowfs_versions_destroy
  PROVE  TypeOK' /\ CountExact' /\ PosBounded'
<1> USE DEF Bookkeeping
<1>1. \A i \in Inode : table'[i] = {} /\ count'[i] = 0
  BY DEF cowfs_versions_destroy
<1>2. CountExact'  BY <1>1, FS_EmptySet, SizeAssumption DEF CountExact
<1>3. PosBounded'  BY <1>1 DEF PosBounded
<1>4. (table \in [Inode -> SUBSET Version])' /\ (count \in [Inode -> Int])'
  BY DEF cowfs_versions_destroy
<1>5. (live \subseteq Nat)' /\ (infos \subseteq Inode)'
      /\ phase' \in {"unloaded", "loaded", "mounted"}
  BY DEF cowfs_versions_destroy, TypeOK
<1>6. TypeOK'  BY <1>4, <1>5 DEF cowfs_versions_destroy, TypeOK, storeVars, gcVars
<1> QED  BY <1>2, <1>3, <1>6

(* Freeing a version removes its object and, at most, its shadow file.     *)
LEMMA FreeTypes ==
  ASSUME TypeOK, NEW v \in Version, cowfs_version_free(v)
  PROVE  live' \subseteq live /\ shadow' \subseteq Inode \X Nat /\ whole' \subseteq shadow'
BY DEF cowfs_version_free, RemoveShadow, storeVars, TypeOK

(* The pointers an ioctl takes are pointers to versions.                   *)
LEMMA LookupTypes ==
  ASSUME TypeOK, PosBounded, NEW t \in Thread, Lookup(t)
  PROVE  TypeOK'
<1>1. ASSUME NEW S \in SUBSET Version, Hold(t, S) PROVE TypeOK'
  <2>1. (held \in [Thread -> SUBSET Version])' /\ (pc \in [Thread -> PC])'
    BY <1>1 DEF Hold, TypeOK, PC
  <2>2. \A u \in Thread : /\ pc'[u] \in InOperation => ver'[u] \in Version
                          /\ pc'[u] = "free" => victim'[u] \in Version
    BY <1>1 DEF Hold, TypeOK, InOperation
  <2> QED  BY <1>1, <2>1, <2>2 DEF Hold, TypeOK, listVars, storeVars, gcVars
<1>2. ASSUME NEW i \in Inode, cowfs_version_list(t, i) PROVE TypeOK'
  <2>1. FirstOf(table[i], ListMax) \in SUBSET Version  BY DEF FirstOf, TypeOK
  <2> QED  BY <1>1, <1>2, <2>1 DEF cowfs_version_list
<1>3. ASSUME NEW i \in Inode, NEW ts, cowfs_version_find(t, i, ts) PROVE TypeOK'
  <2> DEFINE S == {v \in table[i] : ts = 0 \/ v.ts = ts}
  <2>1. S # {} /\ Hold(t, {ListHead(S)})  BY <1>3 DEF cowfs_version_find
  <2>2. S \in SUBSET Version /\ added \in Nat /\ \A v \in S : v.pos <= added
    BY DEF TypeOK, PosBounded
  <2>3. ListHead(S) \in S  BY <2>1, <2>2, ListHeadIn
  <2> QED  BY <1>1, <2>1, <2>2, <2>3
<1>4. ASSUME NEW n \in Name, NEW ts, cowfs_version_find_deleted(t, n, ts) PROVE TypeOK'
  <2>1. PICK v \in LatestDeleted(n, ts) : Hold(t, {v})
    BY <1>4 DEF cowfs_version_find_deleted
  <2>2. v \in Version  BY DEF LatestDeleted, Deleted, TypeOK
  <2> QED  BY <1>1, <2>1, <2>2
<1> QED  BY <1>2, <1>3, <1>4 DEF Lookup

(* cowfs_version_add after it has dropped the lock.                        *)
LEMMA FreeVictimTypes ==
  ASSUME TypeOK, NEW t \in Thread, FreeVictim(t)
  PROVE  TypeOK'
<1>1. victim[t] \in Version  BY DEF FreeVictim, TypeOK
<1>2. live' \subseteq live /\ shadow' \subseteq Inode \X Nat /\ whole' \subseteq shadow'
  BY <1>1, FreeTypes DEF FreeVictim
<1>3. (ver \in [Thread -> Version \cup {NoVersion}])'
      /\ (victim \in [Thread -> Version \cup {NoVersion}])' /\ (pc \in [Thread -> PC])'
  BY DEF FreeVictim, TypeOK, PC
<1>4. \A u \in Thread : /\ pc'[u] \in InOperation => ver'[u] \in Version
                        /\ pc'[u] = "free" => victim'[u] \in Version
  BY DEF FreeVictim, TypeOK, InOperation
<1> QED  BY <1>2, <1>3, <1>4 DEF FreeVictim, TypeOK, listVars, gcVars

(* The end of an ioctl.                                                    *)
LEMMA ReleaseTypes ==
  ASSUME TypeOK, NEW t \in Thread, Release(t)
  PROVE  TypeOK'
<1>1. (held \in [Thread -> SUBSET Version])' /\ (pc \in [Thread -> PC])'
  BY DEF Release, TypeOK, PC
<1>2. \A u \in Thread : /\ pc'[u] \in InOperation => ver'[u] \in Version
                        /\ pc'[u] = "free" => victim'[u] \in Version
  BY DEF Release, TypeOK, InOperation
<1> QED  BY <1>1, <1>2 DEF Release, TypeOK, listVars, storeVars, gcVars

(* The collector reads the clock and the window ...                        *)
LEMMA GcStartTypes == TypeOK /\ GcStart => TypeOK'
<1> SUFFICES ASSUME TypeOK, GcStart PROVE TypeOK'  OBVIOUS
<1>1. gcr' \in [idle : BOOLEAN, now : Nat, window : Nat]
  BY SizeAssumption DEF GcStart, TypeOK
<1> QED  BY <1>1 DEF GcStart, TypeOK, listVars, storeVars

(* ... and frees what it has collected.                                    *)
LEMMA GcFreeTypes == TypeOK /\ GcFree => TypeOK'
<1> SUFFICES ASSUME TypeOK, GcFree PROVE TypeOK'  OBVIOUS
<1>1. PICK v \in gcq : cowfs_version_free(v) /\ gcq' = gcq \ {v}  BY DEF GcFree
<1>2. v \in Version  BY DEF TypeOK
<1>3. live' \subseteq live /\ shadow' \subseteq Inode \X Nat /\ whole' \subseteq shadow'
  BY <1>1, <1>2, FreeTypes
<1> QED  BY <1>1, <1>3 DEF GcFree, TypeOK, listVars

(* Every step preserves the bookkeeping.                                   *)
LEMMA BookkeepingNext == Bookkeeping /\ [Next]_vars => Bookkeeping'
<1> SUFFICES ASSUME Bookkeeping, [Next]_vars PROVE Bookkeeping'  OBVIOUS
<1> USE DEF Bookkeeping
<1> DEFINE Kept == UNCHANGED <<table, count, added>>
<1>0. Kept => CountExact' /\ PosBounded'  BY DEF CountExact, PosBounded
<1>1. ASSUME NEW t \in Thread, Prologue(t) PROVE Bookkeeping'
  <2>1. Kept  BY <1>1 DEF Prologue, cowfs_write, cowfs_unlink, cowfs_rename,
                          cowfs_setattr, Alloc, listVars
  <2> QED  BY <1>0, <1>1, <2>1, PrologueTypes
<1>2. ASSUME NEW t \in Thread, Lookup(t) PROVE Bookkeeping'
  <2>1. Kept  BY <1>2 DEF Lookup, cowfs_version_list, cowfs_version_find,
                          cowfs_version_find_deleted, Hold, listVars
  <2> QED  BY <1>0, <1>2, <2>1, LookupTypes
<1>3. ASSUME NEW t \in Thread, Step(t) PROVE Bookkeeping'
  <2>1. CASE \/ CopyOpen(t) \/ CopyOpenFails(t) \/ CopyDone(t) \/ CopyShort(t)
             \/ CopyAborts(t)
    <3>1. Kept  BY <2>1 DEF CopyOpen, CopyOpenFails, CopyDone, CopyShort, CopyAborts, listVars
    <3> QED  BY <1>0, <2>1, <3>1, CopyTypes
  <2>2. CASE AddBelowLimit(t) \/ AddEvicting(t)  BY <2>2, AddTypes, AddCounts
  <2>3. CASE AddNoMemory(t)
    <3>1. Kept  BY <2>3 DEF AddNoMemory, listVars
    <3> QED  BY <1>0, <2>3, <3>1, AddTypes
  <2>4. CASE FreeVictim(t)
    <3>1. Kept  BY <2>4 DEF FreeVictim, listVars
    <3> QED  BY <1>0, <2>4, <3>1, FreeVictimTypes
  <2>5. CASE Release(t)
    <3>1. Kept  BY <2>5 DEF Release, listVars
    <3> QED  BY <1>0, <2>5, <3>1, ReleaseTypes
  <2> QED  BY <1>3, <2>1, <2>2, <2>3, <2>4, <2>5 DEF Step
<1>4. CASE GcStart
  <2>1. Kept  BY <1>4 DEF GcStart, listVars
  <2> QED  BY <1>0, <1>4, <2>1, GcStartTypes
<1>5. CASE GcCollect  BY <1>5, CollectCounts
<1>6. CASE GcFree
  <2>1. Kept  BY <1>6 DEF GcFree, listVars
  <2> QED  BY <1>0, <1>6, <2>1, GcFreeTypes
<1>7. CASE Environment
  <2>1. CASE cowfs_versions_destroy  BY <2>1, DestroyCounts
  <2>2. CASE Umount \/ Mount
    <3>1. phase' \in {"unloaded", "loaded", "mounted"}  BY <2>2 DEF Umount, Mount
    <3>2. TypeOK'
      BY <2>2, <3>1 DEF Umount, Mount, TypeOK, listVars, storeVars, gcVars
    <3>3. Kept  BY <2>2 DEF Umount, Mount, listVars
    <3> QED  BY <1>0, <3>2, <3>3
  <2>4. CASE Tick
    <3>1. now' \in Nat  BY <2>4 DEF Tick, TypeOK
    <3>2. TypeOK'  BY <2>4, <3>1 DEF Tick, TypeOK, listVars, storeVars, gcVars
    <3>3. Kept  BY <2>4 DEF Tick, listVars
    <3> QED  BY <1>0, <3>2, <3>3
  <2>5. CASE \E n \in Epoch..MaxTime : SetClock(n)
    <3>1. now' \in Nat  BY <2>5, SizeAssumption DEF SetClock
    <3>2. TypeOK'  BY <2>5, <3>1 DEF SetClock, TypeOK, listVars, storeVars, gcVars
    <3>3. Kept  BY <2>5 DEF SetClock, listVars
    <3> QED  BY <1>0, <3>2, <3>3
  <2>3. CASE cowfs_versions_init \/ \E w \in Windows : SetWindow(w)
    <3>1. TypeOK'
      BY <2>3 DEF cowfs_versions_init, SetWindow, TypeOK, listVars, storeVars, gcVars
    <3>2. Kept  BY <2>3 DEF cowfs_versions_init, SetWindow, listVars
    <3> QED  BY <1>0, <3>1, <3>2
  <2> QED  BY <1>7, <2>1, <2>2, <2>3, <2>4, <2>5 DEF Environment
<1>8. CASE UNCHANGED vars
  <2>1. TypeOK'  BY <1>8 DEF vars, TypeOK
  <2>2. Kept  BY <1>8 DEF vars
  <2> QED  BY <1>0, <2>1, <2>2
<1> QED  BY <1>1, <1>2, <1>3, <1>4, <1>5, <1>6, <1>7, <1>8 DEF Next

(* Every reachable state is well typed: in particular an operation never   *)
(* loses the version it is making, and an eviction never takes the last    *)
(* entry of an empty list.                                                 *)
THEOREM TypeCorrect == Spec => []TypeOK
<1>1. Bookkeeping => TypeOK  BY DEF Bookkeeping
<1> QED  BY <1>1, BookkeepingInit, BookkeepingNext, PTL DEF Spec

(* version_count is the length of the list and at most COWFS_MAX_VERSIONS, *)
(* whatever fails and however many operations run at once.                 *)
THEOREM CountCorrect == Spec => []CountExact
<1>1. Bookkeeping => CountExact  BY DEF Bookkeeping
<1> QED  BY <1>1, BookkeepingInit, BookkeepingNext, PTL DEF Spec

-----------------------------------------------------------------------------
(* What keeps a version in its list.                                       *)

(* The window never reaches back past the epoch of the clock, and the      *)
(* clock fits into its word.                                               *)
WindowFits ==
  /\ \A w \in Windows : w * NsecPerSec <= Epoch
  /\ Epoch <= MaxTime
  /\ MaxTime < Word

(* What the collector has read was the clock and a window.  A clock that   *)
(* nobody sets has not gone back since.                                    *)
ClockRead ==
  /\ Epoch <= now /\ now <= MaxTime
  /\ ~gcr.idle => /\ gcr.window \in Windows
                  /\ Epoch <= gcr.now /\ gcr.now <= MaxTime
                  /\ "settime" \notin Faults => gcr.now <= now

(* Inductive without any assumption.                                       *)
WindowInv == Bookkeeping /\ ClockRead

(* The clock and what was read of it stay within the bounds.               *)
LEMMA ClockReadNext ==
  ASSUME WindowInv, [Next]_vars
  PROVE  ClockRead'
<1> USE DEF WindowInv, ClockRead
<1>1. /\ now \in Nat /\ Epoch \in Nat /\ MaxTime \in Nat /\ ClockStep \in Nat
      /\ window \in Windows /\ gcr.now \in Nat
  BY SizeAssumption DEF Bookkeeping, TypeOK
<1>2. CASE GcStart
  <2>1. now' = now /\ gcr' = [idle |-> FALSE, now |-> now, window |-> window]
    BY <1>2 DEF GcStart
  <2> QED  BY <1>1, <2>1
<1>3. CASE GcCollect
  <2>1. now' = now /\ gcr'.idle  BY <1>3 DEF GcCollect, GcIdle
  <2> QED  BY <2>1
<1>4. ASSUME gcr' = gcr, now' = now PROVE ClockRead'  BY <1>4
<1>5. ASSUME NEW t \in Thread, Prologue(t) PROVE ClockRead'
  <2>1. gcr' = gcr /\ now' = now + ClockStep /\ now + ClockStep <= MaxTime
    BY <1>5 DEF Prologue, cowfs_write, cowfs_unlink, cowfs_rename, cowfs_setattr, Alloc,
                gcVars
  <2>2. Epoch <= now' /\ now' <= MaxTime /\ now <= now'  BY <1>1, <2>1
  <2> QED  BY <1>1, <2>1, <2>2
<1>6. ASSUME NEW t \in Thread, Lookup(t) PROVE ClockRead'
  <2>1. gcr' = gcr /\ now' = now
    BY <1>6 DEF Lookup, cowfs_version_list, cowfs_version_find,
                cowfs_version_find_deleted, Hold, gcVars
  <2> QED  BY <1>4, <2>1
<1>7. ASSUME NEW t \in Thread, Step(t) PROVE ClockRead'
  <2>1. gcr' = gcr /\ now' = now
    BY <1>7 DEF Step, CopyOpen, CopyOpenFails, CopyDone, CopyShort, CopyAborts,
                AddBelowLimit, AddEvicting, AddNoMemory, FreeVictim, Release, gcVars
  <2> QED  BY <1>4, <2>1
<1>8. CASE GcFree
  <2>1. gcr' = gcr /\ now' = now  BY <1>8 DEF GcFree
  <2> QED  BY <1>4, <2>1
<1>9. CASE Environment
  <2>1. CASE Tick
    <3>1. gcr' = gcr /\ now' = now + 1 /\ now < MaxTime  BY <2>1 DEF Tick, gcVars
    <3>2. Epoch <= now' /\ now' <= MaxTime /\ now <= now'  BY <1>1, <3>1
    <3> QED  BY <1>1, <3>1, <3>2
  <2>3. CASE \E n \in Epoch..MaxTime : SetClock(n)
    <3>1. PICK n \in Epoch..MaxTime : SetClock(n)  BY <2>3
    <3>2. gcr' = gcr /\ now' = n /\ "settime" \in Faults  BY <3>1 DEF SetClock, gcVars
    <3> QED  BY <1>1, <3>2
  <2>2. CASE ~Tick /\ ~\E n \in Epoch..MaxTime : SetClock(n)
    <3>1. gcr' = gcr /\ now' = now
      BY <1>9, <2>2 DEF Environment, Umount, Mount, cowfs_versions_destroy,
                        cowfs_versions_init, SetWindow, gcVars
    <3> QED  BY <1>4, <3>1
  <2> QED  BY <2>1, <2>2, <2>3
<1>10. CASE UNCHANGED vars
  <2>1. gcr' = gcr /\ now' = now  BY <1>10 DEF vars
  <2> QED  BY <1>4, <2>1
<1> QED  BY <1>2, <1>3, <1>5, <1>6, <1>7, <1>8, <1>9, <1>10 DEF Next

(* A difference that does not go below zero does not wrap.                 *)
LEMMA NoWrap ==
  ASSUME NEW W \in Nat \ {0}, NEW a \in Nat, NEW b \in Nat, a < W, b <= a
  PROVE  (a - (b % W)) % W = a - b
<1>1. b % W = b  OBVIOUS
<1>2. a - b \in Nat /\ a - b < W  OBVIOUS
<1>3. (a - b) % W = a - b  BY <1>2
<1> QED  BY <1>1, <1>3

(* So the cutoff is the moment the window began.                           *)
LEMMA CutoffExact ==
  ASSUME WindowInv, WindowFits, ~gcr.idle
  PROVE  Cutoff = gcr.now - gcr.window * NsecPerSec
<1>1. gcr.now \in Nat /\ gcr.window \in Nat /\ gcr.window \in Windows /\ now \in Nat
  BY SizeAssumption DEF WindowInv, ClockRead, Bookkeeping, TypeOK
<1> DEFINE b == gcr.window * NsecPerSec
<1>2. b \in Nat  BY <1>1, SizeAssumption
<1>3. b <= Epoch  BY <1>1 DEF WindowFits
<1> HIDE DEF b
<1>4. b <= gcr.now /\ gcr.now < Word
  BY <1>1, <1>2, <1>3, SizeAssumption DEF WindowFits, WindowInv, ClockRead
<1>5. (gcr.now - (b % Word)) % Word = gcr.now - b
  BY <1>1, <1>2, <1>4, SizeAssumption, NoWrap
<1> QED  BY <1>5 DEF Cutoff, b

(* The steps that change a list.                                           *)
LEMMA TableSteps ==
  ASSUME [Next]_vars, table' # table
  PROVE  \/ GcCollect
         \/ cowfs_versions_destroy
         \/ \E t \in Thread : AddBelowLimit(t) \/ AddEvicting(t)
BY DEF Next, vars, Prologue, cowfs_write, cowfs_unlink, cowfs_rename, cowfs_setattr,
   Alloc, Lookup, cowfs_version_list, cowfs_version_find, cowfs_version_find_deleted,
   Hold, Step, CopyOpen, CopyOpenFails, CopyDone, CopyShort, CopyAborts, AddNoMemory,
   FreeVictim, Release, GcStart, GcFree, Environment, Umount, Mount,
   cowfs_versions_init, SetWindow, Tick, SetClock, listVars

(* A step takes a version out of its list only for one of the reasons that *)
(* WindowKept allows.                                                      *)
LEMMA WindowKeptStep ==
  ASSUME WindowFits, WindowInv, [Next]_vars,
         NEW i \in Inode, NEW v \in table[i] \ table'[i]
  PROVE  \/ v.ts + gcr.window * NsecPerSec < gcr.now
         \/ /\ Cardinality(table[i]) = MaxVersions
            /\ table'[i] \ table[i] # {}
            /\ \A w \in table[i] : v.pos <= w.pos
         \/ phase' = "unloaded"
<1>0. table \in [Inode -> SUBSET Version] /\ v \in Version
  BY DEF WindowInv, Bookkeeping, TypeOK
<1>1. table' # table  OBVIOUS
<1>3. CASE GcCollect
  <2>1. ~gcr.idle /\ table'[i] = table[i] \ Expired(i)  BY <1>3 DEF GcCollect
  <2>2. v.ts < Cutoff  BY <2>1 DEF Expired
  <2>3. v.ts < gcr.now - gcr.window * NsecPerSec  BY <2>1, <2>2, CutoffExact
  <2>4. /\ v.ts \in Nat /\ gcr.now \in Nat /\ gcr.window * NsecPerSec \in Nat
    BY <1>0, SizeAssumption DEF Version, WindowInv, Bookkeeping, TypeOK
  <2> QED  BY <2>3, <2>4
<1>4. CASE cowfs_versions_destroy  BY <1>4 DEF cowfs_versions_destroy
<1>5. ASSUME NEW t \in Thread, AddBelowLimit(t) PROVE FALSE
  BY <1>0, <1>5 DEF AddBelowLimit
<1>6. ASSUME NEW t \in Thread, AddEvicting(t)
      PROVE  /\ Cardinality(table[i]) = MaxVersions
             /\ table'[i] \ table[i] # {}
             /\ \A w \in table[i] : v.pos <= w.pos
  <2>1. ver[t] \in Version /\ added \in Nat
    BY <1>6 DEF AddEvicting, WindowInv, Bookkeeping, TypeOK, InOperation
  <2>2. i = ver[t].ino  BY <1>0, <1>6 DEF AddEvicting
  <2>3. /\ table'[i] = Evict(i) \cup {NewEntry(t)} /\ count[i] >= MaxVersions
    BY <1>0, <1>6, <2>2 DEF AddEvicting, Full
  <2>4. v = Oldest(i)  BY <2>3 DEF Evict
  <2>5. \A w \in table[i] : v.pos <= w.pos
    BY <1>0, <2>4, ListTailIn DEF Oldest
  <2>6. /\ count[i] \in Int /\ count[i] = Cardinality(table[i]) /\ count[i] <= MaxVersions
    BY DEF WindowInv, Bookkeeping, CountExact, TypeOK
  <2>7. Cardinality(table[i]) = MaxVersions  BY <2>3, <2>6, SizeAssumption
  <2>8. NewEntry(t).pos = added + 1  BY <2>1, EntryVersion DEF WindowInv, Bookkeeping
  <2>9. NewEntry(t) \notin table[i]
    BY <2>1, <2>8 DEF WindowInv, Bookkeeping, PosBounded
  <2> QED  BY <2>3, <2>5, <2>7, <2>9
<1> QED  BY <1>1, <1>3, <1>4, <1>5, <1>6, TableSteps

(* When the window reaches back no further than the epoch of the clock, a  *)
(* version is collected only once it is older than the window, and evicted *)
(* only from a full list of which it is the oldest.                        *)
THEOREM WindowCorrect ==
  ASSUME WindowFits
  PROVE  Spec => WindowKept
<1>1. Init => WindowInv
  BY BookkeepingInit, SizeAssumption DEF Init, WindowInv, ClockRead, WindowFits, GcIdle
<1>2. WindowInv /\ [Next]_vars => WindowInv'
  BY BookkeepingNext, ClockReadNext DEF WindowInv
<1> DEFINE A == \A i \in Inode : \A v \in table[i] \ table'[i] :
                  \/ v.ts + gcr.window * NsecPerSec < gcr.now
                  \/ /\ Cardinality(table[i]) = MaxVersions
                     /\ table'[i] \ table[i] # {}
                     /\ \A w \in table[i] : v.pos <= w.pos
                  \/ phase' = "unloaded"
<1>3. WindowInv /\ [Next]_vars => [A]_vars  BY WindowKeptStep
<1> QED  BY <1>1, <1>2, <1>3, PTL DEF Spec, WindowKept
=============================================================================
