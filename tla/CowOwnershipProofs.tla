------------------------- MODULE CowOwnershipProofs -------------------------
(***************************************************************************)
(* Who owns a version, and what that says about the shadow files.          *)
(*                                                                         *)
(* Nothing in the code names the owner of a cow_version: it is whoever     *)
(* will free it.  The argument of this module is to name it.  A version    *)
(* is held by a list, by the thread that makes it, by the thread that has  *)
(* evicted it, or by the collector; every step moves versions between      *)
(* these holders and never leaves a copy behind.  From that follow, one    *)
(* upon the other, that no object is freed twice (OwnedOnce), that a file  *)
(* is lost only to an equal stamp (FileKept) and, as long as nobody sets   *)
(* the clock, that no step removes or truncates the file of a listed       *)
(* version (HasFile, Restorable) and that no file is left without an owner *)
(* (NoOrphan).                                                             *)
(***************************************************************************)
EXTENDS CowVersionsProofs

(* The threads that make a version, and those that have evicted one.       *)
Maker == {t \in Thread : pc[t] \in {"open", "copy", "add"}}

(* The threads that are to free the version they have evicted.             *)
Freer == {t \in Thread : pc[t] = "free"}

(* The list "freed" of the work item.                                      *)
Collector == <<"gc", "gc">>

(* Everyone who may own a version.                                         *)
Holder == ({"list"} \X Inode) \cup ({"maker", "freer"} \X Thread) \cup {Collector}

(* What each of them owns.                                                 *)
Holds(h) ==
  (UNION {table[i] : i \in {j \in Inode : h = <<"list", j>>}})
    \cup {ver[t] : t \in {u \in Maker : h = <<"maker", u>>}}
    \cup {victim[t] : t \in {u \in Freer : h = <<"freer", u>>}}
    \cup {v \in gcq : h = Collector}

(* The same, holder by holder.                                             *)
HoldsEach ==
  /\ \A i \in Inode : Holds(<<"list", i>>) = table[i]
  /\ \A t \in Maker : Holds(<<"maker", t>>) = {ver[t]}
  /\ \A t \in Thread \ Maker : Holds(<<"maker", t>>) = {}
  /\ \A t \in Freer : Holds(<<"freer", t>>) = {victim[t]}
  /\ \A t \in Thread \ Freer : Holds(<<"freer", t>>) = {}
  /\ Holds(Collector) = gcq

(* No object has two holders, and no holder has two versions of an object. *)
OneHolder ==
  \A h, g \in Holder : \A v \in Holds(h), w \in Holds(g) : v.id = w.id => h = g /\ v = w

(* What is held is allocated, and the next allocation is another object.   *)
Numbered == \A h \in Holder : \A v \in Holds(h) : v.id \in live /\ v.id <= allocs

(* Inductive without any assumption.                                       *)
OwnInv == Bookkeeping /\ OneHolder /\ Numbered

(* Stamps are in the past ...                                              *)
Stamped == \A h \in Holder : \A v \in Holds(h) : v.ts < now

(* ... and later objects have later ones.                                  *)
StampsFollow ==
  \A h, g \in Holder : \A v \in Holds(h), w \in Holds(g) : v.id < w.id => v.ts < w.ts

(* Inductive when the clock moves between two allocations.                 *)
StampInv == OwnInv /\ Stamped /\ StampsFollow

(* The files that a rollback can rely on.  With short writes that is no    *)
(* more than that they are there.                                          *)
Intact == IF "short" \in Faults THEN shadow ELSE whole

(* has_data is set after the copy: the file of a version is created while  *)
(* its thread copies it and is in order from then on.                      *)
Copied ==
  /\ \A t \in Thread : /\ pc[t] \in {"open", "copy"} => ver[t].data = FALSE
                       /\ pc[t] = "copy" => Path(ver[t]) \in shadow
                       /\ pc[t] = "add" /\ ver[t].data => Path(ver[t]) \in Intact
  /\ \A i \in Inode : \A v \in table[i] : v.data => Path(v) \in Intact

(* Inductive whatever fails.                                               *)
FileInv == StampInv /\ Copied

(* A holder that knows of the file of its version: it has data, or is the  *)
(* thread that is copying.                                                 *)
Backed(h, v) == v.data \/ \E t \in Thread : h = <<"maker", t>> /\ pc[t] = "copy"

(* Every file has a holder that knows of it.                               *)
Traced ==
  \A p \in shadow : \E h \in Holder : \E v \in Holds(h) : Path(v) = p /\ Backed(h, v)

(* Nobody unmounts, and a new collection starts from an empty list.        *)
Steady == phase = "mounted" /\ (~gcr.idle => gcq = {})

(* Inductive when nothing fails but a write that is cut short.             *)
TraceInv == Bookkeeping /\ Steady /\ Traced

-----------------------------------------------------------------------------
(* Holders and what they hold.                                             *)

(* Holds is what it is meant to be ...                                     *)
LEMMA HoldsSpelled == HoldsEach
BY DEF HoldsEach, Holds, Maker, Freer, Collector

(* ... after a step as well.                                               *)
LEMMA HoldsNext == HoldsEach'
BY HoldsSpelled, PTL

(* The four kinds of holders ...                                           *)
LEMMA EachHolder ==
  ASSUME NEW h \in Holder
  PROVE  \/ \E i \in Inode : h = <<"list", i>>
         \/ \E t \in Thread : h = <<"maker", t>> \/ h = <<"freer", t>>
         \/ h = Collector
BY DEF Holder

(* ... are all of them.                                                    *)
LEMMA AreHolders ==
  /\ \A i \in Inode : <<"list", i>> \in Holder
  /\ \A t \in Thread : <<"maker", t>> \in Holder /\ <<"freer", t>> \in Holder
  /\ Collector \in Holder
BY DEF Holder

(* What is held is a version.                                              *)
LEMMA HeldVersions ==
  ASSUME TypeOK, NEW h \in Holder, NEW v \in Holds(h)
  PROVE  v \in Version
<1>1. HoldsEach  BY HoldsSpelled
<1>2. ASSUME NEW i \in Inode, h = <<"list", i>> PROVE v \in Version
  BY <1>1, <1>2 DEF TypeOK, HoldsEach
<1>3. ASSUME NEW t \in Thread, h = <<"maker", t>> PROVE v \in Version
  BY <1>1, <1>3 DEF TypeOK, HoldsEach, Maker, InOperation
<1>4. ASSUME NEW t \in Thread, h = <<"freer", t>> PROVE v \in Version
  BY <1>1, <1>4 DEF TypeOK, HoldsEach, Freer
<1>5. CASE h = Collector  BY <1>1, <1>5 DEF TypeOK, HoldsEach
<1> QED  BY <1>2, <1>3, <1>4, <1>5, EachHolder

(* The versions that CowVersions calls owned are the ones that are held.   *)
LEMMA OwnedIsHeld == Owned = UNION {Holds(h) : h \in Holder}
<1>1. ASSUME NEW v \in Owned PROVE \E h \in Holder : v \in Holds(h)
  BY HoldsSpelled, AreHolders DEF HoldsEach, Owned, Listed, Making, Evicted, Maker, Freer
<1>2. ASSUME NEW h \in Holder, NEW v \in Holds(h) PROVE v \in Owned
  BY HoldsSpelled, EachHolder DEF HoldsEach, Owned, Listed, Making, Evicted, Maker, Freer
<1> QED  BY <1>1, <1>2

(* A step that gives nobody an object, or a stamp, that nobody had.        *)
Inherited ==
  \A h \in Holder : \A v \in Holds(h)' :
    \E g \in Holder : \E w \in Holds(g) : w.id = v.id /\ w.ts = v.ts

(* Taking versions away from their holders.                                *)
LEMMA FewerHeld ==
  ASSUME OneHolder, \A h \in Holder : Holds(h)' \subseteq Holds(h)
  PROVE  OneHolder' /\ Inherited
BY DEF OneHolder, Inherited

-----------------------------------------------------------------------------
(* What each step does to the holders.                                     *)

(* A thread that a step leaves alone, or that ends what it does, holds no  *)
(* more than before.                                                       *)
LEMMA ThreadHolds ==
  ASSUME NEW u \in Thread,
         \/ pc'[u] = pc[u] /\ ver'[u] = ver[u] /\ victim'[u] = victim[u]
         \/ pc'[u] \in {"idle", "use"}
  PROVE  /\ Holds(<<"maker", u>>)' \subseteq Holds(<<"maker", u>>)
         /\ Holds(<<"freer", u>>)' \subseteq Holds(<<"freer", u>>)
<1>1. HoldsEach /\ HoldsEach'  BY HoldsSpelled, HoldsNext
<1>2. CASE pc'[u] = pc[u] /\ ver'[u] = ver[u] /\ victim'[u] = victim[u]
  <2>1. (u \in Maker' <=> u \in Maker) /\ (u \in Freer' <=> u \in Freer)
    BY <1>2 DEF Maker, Freer
  <2> QED  BY <1>1, <1>2, <2>1 DEF HoldsEach
<1>3. CASE pc'[u] \in {"idle", "use"}
  <2>1. u \notin Maker' /\ u \notin Freer'  BY <1>3 DEF Maker, Freer
  <2> QED  BY <1>1, <2>1 DEF HoldsEach
<1> QED  BY <1>2, <1>3

(* A step that adds nothing to the lists and to what was collected, and    *)
(* that leaves every thread alone or ends what it does.                    *)
LEMMA QuietHolds ==
  ASSUME \A i \in Inode : table'[i] \subseteq table[i],
         gcq' \subseteq gcq,
         \A u \in Thread : \/ pc'[u] = pc[u] /\ ver'[u] = ver[u] /\ victim'[u] = victim[u]
                           \/ pc'[u] \in {"idle", "use"}
  PROVE  \A h \in Holder : Holds(h)' \subseteq Holds(h)
<1> SUFFICES ASSUME NEW h \in Holder PROVE Holds(h)' \subseteq Holds(h)  OBVIOUS
<1>1. HoldsEach /\ HoldsEach'  BY HoldsSpelled, HoldsNext
<1>2. ASSUME NEW i \in Inode, h = <<"list", i>> PROVE Holds(h)' \subseteq Holds(h)
  BY <1>1, <1>2 DEF HoldsEach
<1>3. ASSUME NEW t \in Thread, h = <<"maker", t>> \/ h = <<"freer", t>>
      PROVE  Holds(h)' \subseteq Holds(h)
  BY <1>3, ThreadHolds
<1>4. CASE h = Collector  BY <1>1, <1>4 DEF HoldsEach
<1> QED  BY <1>2, <1>3, <1>4, EachHolder

(* A copy changes nothing but has_data, if the thread does not drop the    *)
(* version.                                                                *)
LEMMA CopyHolds ==
  ASSUME OwnInv, NEW t \in Thread,
         \/ CopyOpen(t) \/ CopyOpenFails(t) \/ CopyDone(t) \/ CopyShort(t)
         \/ CopyAborts(t)
  PROVE  OneHolder' /\ Numbered' /\ Inherited
<1> DEFINE m == <<"maker", t>>
<1>1. /\ pc \in [Thread -> PC] /\ ver \in [Thread -> Version \cup {NoVersion}] /\ TypeOK
  BY DEF OwnInv, Bookkeeping, TypeOK
<1>2. /\ table' = table /\ victim' = victim /\ gcq' = gcq /\ allocs' = allocs
      /\ pc[t] \in {"open", "copy"}
      /\ \A u \in Thread \ {t} : pc'[u] = pc[u] /\ ver'[u] = ver[u]
  BY <1>1 DEF CopyOpen, CopyOpenFails, CopyDone, CopyShort, CopyAborts, CopyFailed,
              listVars, gcVars
<1>3. ver[t] \in Version /\ t \in Maker
  BY <1>1, <1>2 DEF TypeOK, InOperation, Maker
<1>4. pc'[t] \in {"copy", "add"} => /\ ver'[t].id = ver[t].id /\ ver'[t].ts = ver[t].ts
                                    /\ live' = live
  <2>1. CASE CopyOpen(t)  BY <1>1, <2>1 DEF CopyOpen
  <2>2. CASE CopyOpenFails(t) \/ CopyAborts(t)
    BY <1>1, <2>2 DEF CopyOpenFails, CopyAborts, CopyFailed
  <2>3. CASE CopyDone(t) \/ CopyShort(t)
    <3>1. ver'[t] = [ver[t] EXCEPT !.data = TRUE]  BY <1>1, <2>3 DEF CopyDone, CopyShort
    <3> QED  BY <1>3, <2>3, <3>1 DEF CopyDone, CopyShort, Version
  <2> QED  BY <2>1, <2>2, <2>3
<1>5. pc'[t] \in {"copy", "add", "idle"} /\ (live' = live \/ live' = live \ {ver[t].id})
  BY <1>1 DEF CopyOpen, CopyOpenFails, CopyDone, CopyShort, CopyAborts, CopyFailed
<1>6. HoldsEach /\ HoldsEach' /\ m \in Holder  BY HoldsSpelled, HoldsNext, AreHolders
<1>7. ver[t] \in Holds(m)  BY <1>3, <1>6 DEF HoldsEach
<1>8. ASSUME NEW v \in Holds(m)' PROVE v = ver'[t] /\ pc'[t] \in {"copy", "add"}
  BY <1>5, <1>6, <1>8 DEF HoldsEach, Maker
<1>9. ASSUME NEW h \in Holder, h # m PROVE Holds(h)' \subseteq Holds(h)
  <2>1. ASSUME NEW i \in Inode, h = <<"list", i>> PROVE Holds(h)' \subseteq Holds(h)
    BY <1>2, <1>6, <2>1 DEF HoldsEach
  <2>2. ASSUME NEW u \in Thread \ {t}, h = <<"maker", u>> \/ h = <<"freer", u>>
        PROVE  Holds(h)' \subseteq Holds(h)
    BY <1>2, <2>2, ThreadHolds
  <2>3. CASE h = <<"freer", t>>
    <3>1. t \notin Freer'  BY <1>5 DEF Freer
    <3> QED  BY <1>6, <2>3, <3>1 DEF HoldsEach
  <2>4. CASE h = Collector  BY <1>2, <1>6, <2>4 DEF HoldsEach
  <2> QED  BY <1>9, <2>1, <2>2, <2>3, <2>4, EachHolder
<1> HIDE DEF m
<1>10. OneHolder'
  BY <1>4, <1>6, <1>7, <1>8, <1>9 DEF OwnInv, OneHolder
<1>11. Numbered'
  <2> SUFFICES ASSUME NEW h \in Holder, NEW v \in Holds(h)' PROVE v.id \in live' /\ v.id <= allocs'
    BY DEF Numbered
  <2>1. CASE h = m  BY <1>2, <1>4, <1>6, <1>7, <1>8, <2>1 DEF OwnInv, Numbered
  <2>2. CASE h # m
    <3>1. v.id # ver[t].id  BY <1>6, <1>7, <1>9, <2>2 DEF OwnInv, OneHolder
    <3> QED  BY <1>2, <1>5, <1>9, <2>2, <3>1 DEF OwnInv, Numbered
  <2> QED  BY <2>1, <2>2
<1>12. Inherited  BY <1>4, <1>6, <1>7, <1>8, <1>9 DEF Inherited
<1> QED  BY <1>10, <1>11, <1>12

(* A new version has a number of its own, and the stamp of now.            *)
LEMMA PrologueHolds ==
  ASSUME OwnInv, NEW t \in Thread, Prologue(t)
  PROVE  /\ OneHolder' /\ Numbered'
         /\ now' = now + ClockStep
         /\ \A h \in Holder : \A v \in Holds(h)' :
              \/ v \in Holds(h)
              \/ v.id = allocs + 1 /\ v.ts = now
<1> DEFINE m == <<"maker", t>>
<1>1. PICK op \in Op, i \in Inode, n \in Name \cup {NoName}, next \in {"open", "add"} :
        Alloc(t, op, i, n, next)
  BY DEF Prologue, cowfs_write, cowfs_unlink, cowfs_rename, cowfs_setattr, Op
<1> DEFINE x == cowfs_version_alloc(op, i, n)
<1>2. x.id = allocs + 1 /\ x.ts = now  BY DEF cowfs_version_alloc
<1> HIDE DEF x
<1>3. /\ pc[t] = "idle" /\ pc' = [pc EXCEPT ![t] = next]
      /\ ver' = [ver EXCEPT ![t] = x] /\ now' = now + ClockStep
      /\ live' = live \cup {allocs + 1} /\ allocs' = allocs + 1
      /\ UNCHANGED <<table, victim, gcq>>
  BY <1>1 DEF Alloc, x, listVars, gcVars
<1>4. /\ pc \in [Thread -> PC] /\ ver \in [Thread -> Version \cup {NoVersion}]
      /\ allocs \in Nat /\ TypeOK
  BY DEF OwnInv, Bookkeeping, TypeOK
<1>5. /\ ver'[t] = x /\ t \in Maker' /\ t \notin Freer'
      /\ \A u \in Thread \ {t} : ver'[u] = ver[u] /\ pc'[u] = pc[u]
  BY <1>3, <1>4 DEF Maker, Freer
<1>6. HoldsEach /\ HoldsEach' /\ m \in Holder  BY HoldsSpelled, HoldsNext, AreHolders
<1>7. Holds(m)' = {x}  BY <1>5, <1>6 DEF HoldsEach
<1>8. ASSUME NEW h \in Holder, h # m PROVE Holds(h)' \subseteq Holds(h)
  <2>1. ASSUME NEW j \in Inode, h = <<"list", j>> PROVE Holds(h)' \subseteq Holds(h)
    BY <1>3, <1>6, <2>1 DEF HoldsEach
  <2>2. ASSUME NEW u \in Thread \ {t}, h = <<"maker", u>> \/ h = <<"freer", u>>
        PROVE  Holds(h)' \subseteq Holds(h)
    BY <1>3, <1>5, <2>2, ThreadHolds
  <2>3. CASE h = <<"freer", t>>  BY <1>5, <1>6, <2>3 DEF HoldsEach
  <2>4. CASE h = Collector  BY <1>3, <1>6, <2>4 DEF HoldsEach
  <2> QED  BY <1>8, <2>1, <2>2, <2>3, <2>4, EachHolder
<1> HIDE DEF m
<1>9. \A h \in Holder : \A v \in Holds(h) : v.id \in live /\ v.id \in Nat /\ v.id <= allocs
  BY <1>4, HeldVersions DEF OwnInv, Numbered, Version
<1>10. \A h \in Holder : \A v \in Holds(h) : v.id # allocs + 1  BY <1>4, <1>9
<1>11. OneHolder'
  BY <1>2, <1>7, <1>8, <1>10 DEF OwnInv, OneHolder
<1>12. Numbered'
  <2> SUFFICES ASSUME NEW h \in Holder, NEW v \in Holds(h)' PROVE v.id \in live' /\ v.id <= allocs'
    BY DEF Numbered
  <2>1. CASE h = m  BY <1>2, <1>3, <1>4, <1>7, <2>1
  <2>2. CASE h # m  BY <1>3, <1>4, <1>8, <1>9, <2>2
  <2> QED  BY <2>1, <2>2
<1> QED  BY <1>2, <1>3, <1>7, <1>8, <1>11, <1>12

(* cowfs_version_add moves the thread's version to its list and, when that *)
(* is full, the oldest entry of the list to the thread.                    *)
LEMMA AddHolds ==
  ASSUME OwnInv, NEW t \in Thread, AddBelowLimit(t) \/ AddEvicting(t)
  PROVE  OneHolder' /\ Numbered' /\ Inherited
<1> DEFINE e == NewEntry(t)
<1>1. /\ pc \in [Thread -> PC] /\ ver \in [Thread -> Version \cup {NoVersion}]
      /\ table \in [Inode -> SUBSET Version] /\ TypeOK
      /\ victim \in [Thread -> Version \cup {NoVersion}]
  BY DEF OwnInv, Bookkeeping, TypeOK
<1>2. pc[t] = "add" /\ ver[t] \in Version /\ t \in Maker
  BY DEF AddBelowLimit, AddEvicting, OwnInv, Bookkeeping, TypeOK, InOperation, Maker
<1>3. PICK i \in Inode : i = ver[t].ino  BY <1>2 DEF Version
<1> DEFINE m == <<"maker", t>>
           l == <<"list", i>>
           f == <<"freer", t>>
<1>4. e.id = ver[t].id /\ e.ts = ver[t].ts  BY <1>2 DEF NewEntry, Version
<1> HIDE DEF e
<1>5. /\ gcq' = gcq /\ live' = live /\ allocs' = allocs
      /\ pc'[t] \in {"idle", "free"}
      /\ \A u \in Thread \ {t} : pc'[u] = pc[u] /\ ver'[u] = ver[u] /\ victim'[u] = victim[u]
  BY <1>1 DEF AddBelowLimit, AddEvicting, gcVars
<1>6. HoldsEach /\ HoldsEach' /\ m \in Holder /\ l \in Holder /\ f \in Holder
  BY <1>3, HoldsSpelled, HoldsNext, AreHolders
<1>7. ver[t] \in Holds(m)  BY <1>2, <1>6 DEF HoldsEach
<1>8. Holds(m)' = {}
  <2>1. t \notin Maker'  BY <1>5 DEF Maker
  <2> QED  BY <1>6, <2>1 DEF HoldsEach
<1>9. m # l /\ f # l  OBVIOUS
<1>10. ASSUME NEW h \in Holder \ {m, l, f} PROVE Holds(h)' \subseteq Holds(h)
  <2>1. ASSUME NEW j \in Inode, h = <<"list", j>> PROVE Holds(h)' \subseteq Holds(h)
    <3>1. table'[j] = table[j]
      BY <1>1, <1>3, <1>10, <2>1 DEF AddBelowLimit, AddEvicting
    <3> QED  BY <1>6, <2>1, <3>1 DEF HoldsEach
  <2>2. ASSUME NEW u \in Thread \ {t}, h = <<"maker", u>> \/ h = <<"freer", u>>
        PROVE  Holds(h)' \subseteq Holds(h)
    BY <1>5, <2>2, ThreadHolds
  <2>3. CASE h = Collector  BY <1>5, <1>6, <2>3 DEF HoldsEach
  <2> QED  BY <2>1, <2>2, <2>3, EachHolder
<1>11. ASSUME NEW o, \/ Holds(l)' = Holds(l) \cup {e} /\ Holds(f)' = {}
                     \/ /\ o \in Holds(l)
                        /\ Holds(l)' = (Holds(l) \ {o}) \cup {e} /\ Holds(f)' = {o}
       PROVE  OneHolder' /\ Numbered' /\ Inherited
  <2> HIDE DEF m, l, f
  <2>1. OneHolder'
    BY <1>4, <1>6, <1>7, <1>8, <1>9, <1>10, <1>11 DEF OwnInv, OneHolder
  <2>2. Inherited
    BY <1>4, <1>6, <1>7, <1>8, <1>9, <1>10, <1>11 DEF Inherited
  <2>3. Numbered'
    BY <1>5, <2>2 DEF OwnInv, Numbered, Inherited
  <2> QED  BY <2>1, <2>2, <2>3
<1>12. CASE AddBelowLimit(t)
  <2>1. table'[i] = table[i] \cup {e} /\ pc'[t] = "idle"
    BY <1>1, <1>3, <1>12 DEF AddBelowLimit, e
  <2>2. t \notin Freer'  BY <2>1 DEF Freer
  <2>3. Holds(l)' = Holds(l) \cup {e} /\ Holds(f)' = {}
    BY <1>3, <1>6, <2>1, <2>2 DEF HoldsEach
  <2> QED  BY <1>11, <2>3
<1>13. CASE AddEvicting(t)
  <2>1. /\ table'[i] = Evict(i) \cup {e} /\ pc'[t] = "free" /\ victim'[t] = Oldest(i)
        /\ count[i] >= MaxVersions
    BY <1>1, <1>3, <1>13 DEF AddEvicting, Full, e
  <2>2. IsFiniteSet(table[i]) /\ count[i] = Cardinality(table[i])
    BY <1>3 DEF OwnInv, Bookkeeping, CountExact
  <2>3. table[i] # {}  BY <2>1, <2>2, FS_EmptySet, SizeAssumption
  <2>4. table[i] \in SUBSET Version  BY <1>1, <1>3
  <2>5. Oldest(i) \in table[i]  BY <2>3, <2>4, ListTailIn DEF Oldest
  <2>6. t \in Freer'  BY <2>1 DEF Freer
  <2>7. /\ Oldest(i) \in Holds(l) /\ Holds(f)' = {Oldest(i)}
        /\ Holds(l)' = (Holds(l) \ {Oldest(i)}) \cup {e}
    BY <1>3, <1>6, <2>1, <2>5, <2>6 DEF HoldsEach, Evict
  <2> QED  BY <1>11, <2>7
<1> QED  BY <1>12, <1>13

(* The collector moves versions from the lists to its own.                 *)
LEMMA CollectHolds ==
  ASSUME OwnInv, GcCollect
  PROVE  OneHolder' /\ Numbered' /\ Inherited
<1>1. \A i \in Inode : table'[i] = table[i] \ Expired(i) /\ Expired(i) \subseteq table[i]
  BY DEF GcCollect, Expired
<1>2. /\ UNCHANGED <<live, allocs, pc, ver, victim>>
      /\ gcq' = UNION {Expired(i) : i \in Inode}
  BY DEF GcCollect
<1>3. HoldsEach /\ HoldsEach'  BY HoldsSpelled, HoldsNext
<1>4. \A i \in Inode : <<"list", i>> \in Holder /\ <<"list", i>> # Collector
  BY AreHolders DEF Collector
<1>5. ASSUME NEW v \in Holds(Collector)'
      PROVE  \E i \in Inode : v \in Holds(<<"list", i>>) /\ v \notin Holds(<<"list", i>>)'
  BY <1>1, <1>2, <1>3 DEF HoldsEach
<1>6. ASSUME NEW h \in Holder, h # Collector PROVE Holds(h)' \subseteq Holds(h)
  <2>1. ASSUME NEW j \in Inode, h = <<"list", j>> PROVE Holds(h)' \subseteq Holds(h)
    BY <1>1, <1>3, <2>1 DEF HoldsEach
  <2>2. ASSUME NEW u \in Thread, h = <<"maker", u>> \/ h = <<"freer", u>>
        PROVE  Holds(h)' \subseteq Holds(h)
    BY <1>2, <2>2, ThreadHolds
  <2> QED  BY <1>6, <2>1, <2>2, EachHolder
<1>7. Inherited  BY <1>4, <1>5, <1>6 DEF Inherited
<1>8. Numbered'  BY <1>2, <1>7 DEF OwnInv, Numbered, Inherited
<1>9. OneHolder'
  <2> SUFFICES ASSUME NEW h \in Holder, NEW g \in Holder,
                      NEW v \in Holds(h)', NEW w \in Holds(g)', v.id = w.id
               PROVE  h = g /\ v = w
    BY DEF OneHolder
  <2> USE DEF OwnInv, OneHolder
  <2>1. CASE h # Collector /\ g # Collector  BY <1>6, <2>1
  <2>2. CASE h = Collector /\ g = Collector  BY <1>4, <1>5, <2>2
  <2>3. CASE h = Collector /\ g # Collector
    <3>1. PICK i \in Inode : v \in Holds(<<"list", i>>) /\ v \notin Holds(<<"list", i>>)'
      BY <1>5, <2>3
    <3>2. w \in Holds(g)  BY <1>6, <2>3
    <3> QED  BY <1>4, <3>1, <3>2
  <2>4. CASE h # Collector /\ g = Collector
    <3>1. PICK i \in Inode : w \in Holds(<<"list", i>>) /\ w \notin Holds(<<"list", i>>)'
      BY <1>5, <2>4
    <3>2. v \in Holds(h)  BY <1>6, <2>4
    <3> QED  BY <1>4, <3>1, <3>2
  <2> QED  BY <2>1, <2>2, <2>3, <2>4
<1> QED  BY <1>7, <1>8, <1>9

(* Freeing a version takes it from its holder, and nobody else holds it.   *)
LEMMA FreeHolds ==
  ASSUME OwnInv, NEW g \in Holder, NEW x \in Holds(g), x \notin Holds(g)',
         live' = live \ {x.id}, allocs' = allocs,
         \A h \in Holder : Holds(h)' \subseteq Holds(h)
  PROVE  OneHolder' /\ Numbered' /\ Inherited
<1>1. OneHolder' /\ Inherited  BY FewerHeld DEF OwnInv
<1>2. ASSUME NEW h \in Holder, NEW v \in Holds(h)' PROVE v.id # x.id
  BY DEF OwnInv, OneHolder
<1>3. Numbered'  BY <1>2 DEF OwnInv, Numbered
<1> QED  BY <1>1, <1>3

-----------------------------------------------------------------------------
(* One owner for every object.                                             *)

(* At first nobody holds anything.                                         *)
LEMMA NothingHeld == Init => \A h \in Holder : Holds(h) = {}
<1> SUFFICES ASSUME Init, NEW h \in Holder PROVE Holds(h) = {}  OBVIOUS
<1>1. Maker = {} /\ Freer = {}  BY DEF Init, Maker, Freer
<1> QED  BY <1>1 DEF Init, Holds

(* ... which is in order.                                                  *)
LEMMA OwnInit == Init => OwnInv
BY NothingHeld, BookkeepingInit DEF OwnInv, OneHolder, Numbered

(* The clock does not go back.                                             *)
Forward == "settime" \in Faults \/ now <= now'

(* Every step preserves it; and a step that does not make a version gives  *)
(* nobody a version that was not there, nor turns the clock back unless    *)
(* the clock may be set.                                                   *)
LEMMA OwnNext ==
  ASSUME OwnInv, [Next]_vars
  PROVE  /\ OwnInv'
         /\ \/ \E t \in Thread : Prologue(t)
            \/ Inherited /\ Forward
<1> DEFINE Goal == OneHolder' /\ Numbered' /\ Inherited /\ Forward
<1>0. /\ now \in Nat /\ pc \in [Thread -> PC] /\ ver \in [Thread -> Version \cup {NoVersion}]
      /\ victim \in [Thread -> Version \cup {NoVersion}]
  BY DEF OwnInv, Bookkeeping, TypeOK
<1>01. now' = now => Forward  BY <1>0 DEF Forward
<1>1. ASSUME UNCHANGED allocs, live' = live, Forward,
             \A h \in Holder : Holds(h)' \subseteq Holds(h)
      PROVE  Goal
  BY <1>1, FewerHeld DEF OwnInv, Numbered
<1>2. ASSUME UNCHANGED <<allocs, live>>, Forward,
             \A i \in Inode : table'[i] = table[i], gcq' = gcq,
             \A u \in Thread :
               \/ pc'[u] = pc[u] /\ ver'[u] = ver[u] /\ victim'[u] = victim[u]
               \/ pc'[u] \in {"idle", "use"}
      PROVE  Goal
  BY <1>1, <1>2, QuietHolds
<1>3. ASSUME NEW t \in Thread, Lookup(t) PROVE Goal
  <2>1. UNCHANGED <<allocs, live, now, table, victim, gcq, ver>>
        /\ pc' = [pc EXCEPT ![t] = "use"]
    BY <1>3 DEF Lookup, cowfs_version_list, cowfs_version_find,
                cowfs_version_find_deleted, Hold, listVars, gcVars
  <2> QED  BY <1>0, <1>01, <1>2, <2>1
<1>4. ASSUME NEW t \in Thread, Step(t) PROVE Goal
  <2>1. CASE \/ CopyOpen(t) \/ CopyOpenFails(t) \/ CopyDone(t) \/ CopyShort(t)
             \/ CopyAborts(t)
    <3>1. now' = now  BY <2>1 DEF CopyOpen, CopyOpenFails, CopyDone, CopyShort, CopyAborts
    <3> QED  BY <1>0, <1>01, <2>1, <3>1, CopyHolds
  <2>2. CASE AddBelowLimit(t) \/ AddEvicting(t)
    <3>1. now' = now  BY <2>2 DEF AddBelowLimit, AddEvicting
    <3> QED  BY <1>0, <1>01, <2>2, <3>1, AddHolds
  <2>3. CASE AddNoMemory(t) \/ Release(t)
    <3>1. UNCHANGED <<allocs, live, now, table, victim, gcq>>
          /\ pc' = [pc EXCEPT ![t] = "idle"]
          /\ \A u \in Thread \ {t} : ver'[u] = ver[u]
      BY <1>0, <1>01, <2>3 DEF AddNoMemory, Release, listVars, gcVars
    <3> QED  BY <1>0, <1>01, <1>2, <3>1
  <2>4. CASE FreeVictim(t)
    <3>1. /\ live' = live \ {victim[t].id} /\ UNCHANGED <<allocs, now, table, gcq>>
          /\ pc' = [pc EXCEPT ![t] = "idle"] /\ pc[t] = "free"
          /\ \A u \in Thread \ {t} : ver'[u] = ver[u] /\ victim'[u] = victim[u]
      BY <1>0, <1>01, <2>4 DEF FreeVictim, cowfs_version_free, listVars, gcVars
    <3>2. t \in Freer /\ t \notin Freer'  BY <1>0, <1>01, <3>1 DEF Freer
    <3>3. /\ <<"freer", t>> \in Holder /\ victim[t] \in Holds(<<"freer", t>>)
          /\ Holds(<<"freer", t>>)' = {}
      BY <3>2, HoldsSpelled, HoldsNext, AreHolders DEF HoldsEach
    <3>4. \A h \in Holder : Holds(h)' \subseteq Holds(h)
      <4>1. \A u \in Thread :
              \/ pc'[u] = pc[u] /\ ver'[u] = ver[u] /\ victim'[u] = victim[u]
              \/ pc'[u] \in {"idle", "use"}
        BY <1>0, <1>01, <3>1
      <4> QED  BY <3>1, <4>1, QuietHolds
    <3>5. PICK x : x = victim[t]  OBVIOUS
    <3> QED  BY <1>0, <1>01, <3>1, <3>3, <3>4, <3>5, FreeHolds
  <2> QED  BY <1>4, <2>1, <2>2, <2>3, <2>4 DEF Step
<1>5. ASSUME GcCollect PROVE Goal
  <2>1. now' = now  BY <1>5 DEF GcCollect
  <2> QED  BY <1>0, <1>01, <1>5, <2>1, CollectHolds
<1>6. ASSUME GcFree PROVE Goal
  <2>1. PICK v \in gcq : /\ live' = live \ {v.id} /\ gcq' = gcq \ {v}
                         /\ UNCHANGED <<allocs, now, table, pc, ver, victim>>
    BY <1>6 DEF GcFree, cowfs_version_free, listVars
  <2>2. /\ Collector \in Holder /\ v \in Holds(Collector) /\ v \notin Holds(Collector)'
    BY <2>1, HoldsSpelled, HoldsNext, AreHolders DEF HoldsEach
  <2>3. \A h \in Holder : Holds(h)' \subseteq Holds(h)  BY <2>1, QuietHolds
  <2> QED  BY <1>0, <1>01, <2>1, <2>2, <2>3, FreeHolds
<1>7. ASSUME GcStart \/ UNCHANGED vars PROVE Goal
  <2>1. UNCHANGED <<allocs, live, now, table, victim, gcq, ver, pc>>
    BY <1>7 DEF GcStart, vars, listVars
  <2> QED  BY <1>0, <1>01, <1>2, <2>1
<1>8. ASSUME Environment PROVE Goal
  <2>1. CASE cowfs_versions_destroy
    <3>1. /\ UNCHANGED <<now, victim, gcq, ver, pc>> /\ gcq = {}
          /\ \A i \in Inode : table'[i] = {}
          /\ \A u \in Thread : pc[u] = "idle"
      BY <2>1 DEF cowfs_versions_destroy, gcVars
    <3>2. Maker' = {} /\ Freer' = {}  BY <3>1 DEF Maker, Freer
    <3>3. \A h \in Holder : Holds(h)' = {}  BY <3>1, <3>2 DEF Holds
    <3> QED  BY <1>0, <1>01, <3>1, <3>3 DEF OneHolder, Numbered, Inherited
  <2>2. CASE Umount \/ Mount \/ cowfs_versions_init \/ \E w \in Windows : SetWindow(w)
    <3>1. UNCHANGED <<allocs, live, now, table, victim, gcq, ver, pc>>
      BY <2>2 DEF Umount, Mount, cowfs_versions_init, SetWindow, listVars, gcVars
    <3> QED  BY <1>0, <1>01, <1>2, <3>1
  <2>3. CASE Tick
    <3>1. UNCHANGED <<allocs, live, table, victim, gcq, ver, pc>> /\ now' = now + 1
      BY <2>3 DEF Tick, listVars, gcVars
    <3>2. Forward  BY <1>0, <3>1 DEF Forward
    <3> QED  BY <1>0, <1>2, <3>1, <3>2
  <2>4. CASE \E n \in Epoch..MaxTime : SetClock(n)
    <3>1. UNCHANGED <<allocs, live, table, victim, gcq, ver, pc>> /\ "settime" \in Faults
      BY <2>4 DEF SetClock, listVars, gcVars
    <3>2. Forward  BY <3>1 DEF Forward
    <3> QED  BY <1>0, <1>2, <3>1, <3>2
  <2> QED  BY <1>8, <2>1, <2>2, <2>3, <2>4 DEF Environment
<1>9. ASSUME NEW t \in Thread, Prologue(t) PROVE OneHolder' /\ Numbered'
  BY <1>9, PrologueHolds
<1>10. Bookkeeping'  BY BookkeepingNext DEF OwnInv
<1> QED  BY <1>3, <1>4, <1>5, <1>6, <1>7, <1>8, <1>9, <1>10 DEF Next, OwnInv

(* One holder for each object is what OwnedOnce says, place by place.      *)
LEMMA OneOwner == OwnInv => OwnedOnce
<1> SUFFICES ASSUME OwnInv PROVE OwnedOnce  OBVIOUS
<1>1. HoldsEach  BY HoldsSpelled
<1>2. \A v \in Owned : v.id \in live  BY OwnedIsHeld DEF OwnInv, Numbered
<1>3. \A v, w \in Owned : v.id = w.id => v = w
  BY OwnedIsHeld DEF OwnInv, OneHolder
<1>4. ASSUME NEW h \in Holder, NEW g \in Holder, h # g, NEW v \in Holds(h) PROVE v \notin Holds(g)
  BY <1>4 DEF OwnInv, OneHolder
<1>5. \A v \in Listed : \E i \in Inode : v \in Holds(<<"list", i>>)
  BY <1>1 DEF Listed, HoldsEach
<1>6. \A v \in Making : \E t \in Thread : v \in Holds(<<"maker", t>>)
  BY <1>1 DEF Making, HoldsEach, Maker
<1>7. \A v \in Evicted : \E t \in Thread : v \in Holds(<<"freer", t>>)
  BY <1>1 DEF Evicted, HoldsEach, Freer
<1>8. \A v \in gcq : v \in Holds(Collector)  BY <1>1 DEF HoldsEach
<1>9. /\ \A i \in Inode, t \in Thread : /\ <<"list", i>> # <<"maker", t>>
                                        /\ <<"list", i>> # <<"freer", t>>
      /\ \A i \in Inode : <<"list", i>> # Collector
      /\ \A t \in Thread : Collector # <<"maker", t>> /\ Collector # <<"freer", t>>
  BY DEF Collector
<1>10. \A v \in Listed : v \notin Making \cup Evicted \cup gcq
  BY <1>4, <1>5, <1>6, <1>7, <1>8, <1>9, AreHolders
<1>11. \A v \in gcq : v \notin Making \cup Evicted
  BY <1>4, <1>6, <1>7, <1>8, <1>9, AreHolders
<1>12. ASSUME NEW t \in Thread, NEW u \in Thread,
              pc[t] \in {"open", "copy", "add"}, pc[u] \in {"open", "copy", "add"},
              ver[t] = ver[u]
       PROVE  t = u
  <2>1. ver[t] \in Holds(<<"maker", t>>) /\ ver[u] \in Holds(<<"maker", u>>)
    BY <1>1, <1>12 DEF HoldsEach, Maker
  <2>2. <<"maker", t>> = <<"maker", u>>  BY <1>4, <1>12, <2>1, AreHolders
  <2> QED  BY <2>2
<1>13. ASSUME NEW t \in Thread, NEW u \in Thread,
              pc[t] = "free", pc[u] = "free", victim[t] = victim[u]
       PROVE  t = u
  <2>1. victim[t] \in Holds(<<"freer", t>>) /\ victim[u] \in Holds(<<"freer", u>>)
    BY <1>1, <1>13 DEF HoldsEach, Freer
  <2>2. <<"freer", t>> = <<"freer", u>>  BY <1>4, <1>13, <2>1, AreHolders
  <2> QED  BY <2>2
<1> QED  BY <1>2, <1>3, <1>10, <1>11, <1>12, <1>13 DEF OwnedOnce

(* Every object is freed at most once: what is in a list, in the hands of  *)
(* an operation, evicted or collected is allocated, and two of them are    *)
(* never the same object (cowfs_version_add, _gc, _free), whatever fails.  *)
THEOREM OwnerCorrect == Spec => []OwnedOnce
<1>1. OwnInv /\ [Next]_vars => OwnInv'  BY OwnNext
<1> QED  BY <1>1, OwnInit, OneOwner, PTL DEF Spec

-----------------------------------------------------------------------------
(* One path for every version.                                             *)

(* Nothing is stamped at first.                                            *)
LEMMA StampInit == Init => StampInv
BY NothingHeld, OwnInit DEF StampInv, Stamped, StampsFollow

(* A version is stamped with a time that is then over; everything else is  *)
(* inherited.                                                              *)
LEMMA StampNext ==
  ASSUME ClockStep > 0, "settime" \notin Faults, StampInv, [Next]_vars
  PROVE  StampInv'
<1>0. now \in Nat /\ now' \in Nat /\ allocs \in Nat /\ ClockStep \in Nat
  BY OwnNext, SizeAssumption DEF StampInv, OwnInv, Bookkeeping, TypeOK
<1>1. /\ \A h \in Holder : \A v \in Holds(h) :
           /\ v.id \in Nat /\ v.ts \in Nat /\ v.id <= allocs /\ v.ts < now
  BY HeldVersions DEF StampInv, Stamped, OwnInv, Numbered, Bookkeeping, Version
<1>2. CASE Inherited /\ Forward
  <2>1. Stamped'  BY <1>0, <1>1, <1>2 DEF Stamped, Inherited, Forward
  <2>2. StampsFollow'  BY <1>2 DEF StampInv, StampsFollow, Inherited
  <2> QED  BY <2>1, <2>2, OwnNext DEF StampInv
<1>3. CASE \E t \in Thread : Prologue(t)
  <2>1. /\ now' = now + ClockStep
        /\ \A h \in Holder : \A v \in Holds(h)' :
             \/ v \in Holds(h)
             \/ v.id = allocs + 1 /\ v.ts = now
    BY <1>3, PrologueHolds DEF StampInv
  <2>2. Stamped'  BY <1>0, <1>1, <2>1 DEF Stamped
  <2>3. StampsFollow'
    <3> SUFFICES ASSUME NEW h \in Holder, NEW g \in Holder,
                        NEW v \in Holds(h)', NEW w \in Holds(g)', v.id < w.id
                 PROVE  v.ts < w.ts
      BY DEF StampsFollow
    <3>1. CASE v \in Holds(h) /\ w \in Holds(g)  BY <3>1 DEF StampInv, StampsFollow
    <3>2. CASE v \in Holds(h) /\ w.id = allocs + 1 /\ w.ts = now  BY <1>0, <1>1, <3>2
    <3>3. CASE v.id = allocs + 1 /\ w \in Holds(g)  BY <1>0, <1>1, <3>3
    <3>4. CASE v.id = allocs + 1 /\ w.id = allocs + 1  BY <1>0, <3>4
    <3> QED  BY <2>1, <3>1, <3>2, <3>3, <3>4
  <2> QED  BY <2>2, <2>3, OwnNext DEF StampInv
<1> QED  BY <1>2, <1>3, OwnNext DEF StampInv

(* A file name names its version, and with it its holder.                  *)
LEMMA PathHeldOnce ==
  ASSUME StampInv, NEW h \in Holder, NEW g \in Holder,
         NEW v \in Holds(h), NEW w \in Holds(g), Path(v) = Path(w)
  PROVE  h = g /\ v = w
<1>1. v \in Version /\ w \in Version  BY HeldVersions DEF StampInv, OwnInv, Bookkeeping
<1>2. v.ts = w.ts  BY DEF Path
<1>3. ~(v.id < w.id) /\ ~(w.id < v.id)  BY <1>1, <1>2 DEF StampInv, StampsFollow, Version
<1>4. v.id = w.id  BY <1>1, <1>3 DEF Version
<1> QED  BY <1>4 DEF StampInv, OwnInv, OneHolder

(* Shadow files are removed by those who free a version they own.          *)
LEMMA Removals ==
  ASSUME OwnInv, [Next]_vars, NEW p \in shadow \ shadow'
  PROVE  \E w \in Evicted \cup gcq : Path(w) = p
<1>1. \/ GcFree
      \/ \E t \in Thread : FreeVictim(t)
  BY DEF Next, vars, Prologue, cowfs_write, cowfs_unlink, cowfs_rename, cowfs_setattr,
         Alloc, Lookup, cowfs_version_list, cowfs_version_find, cowfs_version_find_deleted,
         Hold, Step, CopyOpen, CopyOpenFails, CopyDone, CopyShort, CopyAborts, AddBelowLimit,
         AddEvicting, AddNoMemory, Release, GcStart, GcCollect, Environment, Umount, Mount,
         cowfs_versions_destroy, cowfs_versions_init, SetWindow, Tick, SetClock, storeVars
<1>2. CASE GcFree
  <2>1. PICK v \in gcq : cowfs_version_free(v)  BY <1>2 DEF GcFree
  <2>2. Path(v) = p  BY <2>1 DEF cowfs_version_free, RemoveShadow, storeVars
  <2> QED  BY <2>2
<1>3. ASSUME NEW t \in Thread, FreeVictim(t) PROVE \E w \in Evicted : Path(w) = p
  <2>1. victim[t] \in Evicted  BY <1>3 DEF FreeVictim, Evicted
  <2>2. Path(victim[t]) = p
    BY <1>3 DEF FreeVictim, cowfs_version_free, RemoveShadow, storeVars
  <2> QED  BY <2>1, <2>2
<1> QED  BY <1>1, <1>2, <1>3

(* Whatever fails and wherever the clock is set: a listed version loses    *)
(* its file only to one of the same stamp (cowfs_version_alloc, _free).    *)
THEOREM KeptCorrect == Spec => FileKept
<1> DEFINE A == \A v \in Listed \cap Listed' :
                  Path(v) \in shadow \ shadow' =>
                    \E w \in Evicted \cup gcq : w.id # v.id /\ Path(w) = Path(v)
<1>1. OwnInv /\ [Next]_vars => OwnInv'  BY OwnNext
<1>2. OwnInv /\ [Next]_vars => [A]_vars
  <2> SUFFICES ASSUME OwnInv, [Next]_vars, NEW v \in Listed, Path(v) \in shadow \ shadow'
               PROVE  \E w \in Evicted \cup gcq : w.id # v.id /\ Path(w) = Path(v)
    OBVIOUS
  <2>1. PICK w \in Evicted \cup gcq : Path(w) = Path(v)  BY Removals
  <2>2. OwnedOnce  BY OneOwner
  <2>3. w.id # v.id  BY <2>2 DEF OwnedOnce, Owned
  <2> QED  BY <2>1, <2>3
<1> QED  BY <1>1, <1>2, OwnInit, PTL DEF Spec, FileKept

-----------------------------------------------------------------------------
(* The files of listed versions.                                           *)

(* Copied says this of a thread and of a list.                             *)
CopiedBy(t) ==
  /\ pc[t] \in {"open", "copy"} => ver[t].data = FALSE
  /\ pc[t] = "copy" => Path(ver[t]) \in shadow
  /\ pc[t] = "add" /\ ver[t].data => Path(ver[t]) \in Intact

(* Copied after a step, thread by thread and list by list.                 *)
LEMMA CopiedPartsNext ==
  Copied' <=> /\ \A t \in Thread : CopiedBy(t)'
              /\ \A i \in Inode : \A v \in table'[i] : v.data => Path(v) \in Intact'
BY DEF Copied, CopiedBy, Path

(* A step that changes at most the file of x, which is neither that of     *)
(* this thread nor that of an entry of a list.                             *)
LEMMA OtherFiles ==
  ASSUME FileInv, NEW h \in Holder, NEW x \in Holds(h),
         \A p : p # Path(x) => /\ p \in shadow => p \in shadow'
                               /\ p \in whole => p \in whole'
  PROVE  /\ \A u \in Thread :
              pc'[u] = pc[u] /\ ver'[u] = ver[u] /\ h # <<"maker", u>> => CopiedBy(u)'
         /\ \A i \in Inode : \A v \in table[i] :
              h # <<"list", i>> /\ v.data => Path(v) \in Intact'
<1>1. \A p : p # Path(x) => (p \in Intact => p \in Intact')  BY DEF Intact
<1>2. HoldsEach  BY HoldsSpelled
<1>3. ASSUME NEW u \in Thread, pc'[u] = pc[u], ver'[u] = ver[u], h # <<"maker", u>>
      PROVE  CopiedBy(u)'
  <2>1. CASE u \in Maker
    <3>1. PICK w \in Holds(<<"maker", u>>) : w = ver[u]  BY <1>2, <2>1 DEF HoldsEach
    <3>2. <<"maker", u>> \in Holder  BY AreHolders
    <3>3. Path(w) # Path(x)  BY <1>3, <3>2, PathHeldOnce DEF FileInv
    <3> QED  BY <1>1, <1>3, <3>1, <3>3 DEF FileInv, Copied, CopiedBy, Path
  <2>2. CASE u \notin Maker  BY <1>3, <2>2 DEF CopiedBy, Maker
  <2> QED  BY <2>1, <2>2
<1>4. ASSUME NEW i \in Inode, NEW v \in table[i], h # <<"list", i>>, v.data
      PROVE  Path(v) \in Intact'
  <2>1. v \in Holds(<<"list", i>>)  BY <1>2 DEF HoldsEach
  <2>2. Path(v) # Path(x)  BY <1>4, <2>1, AreHolders, PathHeldOnce DEF FileInv
  <2> QED  BY <1>1, <1>4, <2>2 DEF FileInv, Copied
<1> QED  BY <1>3, <1>4

(* Most steps touch no file.                                               *)
LEMMA QuietFiles ==
  ASSUME FileInv, UNCHANGED <<shadow, whole>>,
         \A i \in Inode : table'[i] \subseteq table[i],
         \A u \in Thread : \/ pc'[u] = pc[u] /\ ver'[u] = ver[u]
                           \/ pc'[u] \in {"idle", "use"}
                           \/ pc'[u] \in {"open", "add"} /\ ver'[u].data = FALSE
  PROVE  Copied'
<1>1. Intact' = Intact  BY DEF Intact
<1>2. ASSUME NEW u \in Thread PROVE CopiedBy(u)'
  <2>1. CASE pc'[u] = pc[u] /\ ver'[u] = ver[u]
    BY <1>1, <2>1 DEF FileInv, Copied, CopiedBy, Path
  <2>2. CASE pc'[u] \in {"idle", "use"}  BY <2>2 DEF CopiedBy
  <2>3. CASE pc'[u] \in {"open", "add"} /\ ver'[u].data = FALSE  BY <2>3 DEF CopiedBy
  <2> QED  BY <2>1, <2>2, <2>3
<1> QED  BY <1>1, <1>2, CopiedPartsNext DEF FileInv, Copied

(* A copy truncates and completes its own file.                            *)
LEMMA CopyFiles ==
  ASSUME FileInv, NEW t \in Thread,
         \/ CopyOpen(t) \/ CopyOpenFails(t) \/ CopyDone(t) \/ CopyShort(t)
         \/ CopyAborts(t)
  PROVE  Copied'
<1>1. /\ pc \in [Thread -> PC] /\ ver \in [Thread -> Version \cup {NoVersion}]
      /\ whole \subseteq shadow /\ TypeOK
  BY DEF FileInv, StampInv, OwnInv, Bookkeeping, TypeOK
<1>2. /\ table' = table
      /\ pc[t] \in {"open", "copy"}
      /\ \A u \in Thread \ {t} : pc'[u] = pc[u] /\ ver'[u] = ver[u]
  BY <1>1 DEF CopyOpen, CopyOpenFails, CopyDone, CopyShort, CopyAborts, CopyFailed, listVars
<1>3. ver[t] \in Version /\ ver[t].data = FALSE /\ t \in Maker
  BY <1>1, <1>2 DEF TypeOK, InOperation, Maker, FileInv, Copied
<1>4. <<"maker", t>> \in Holder /\ ver[t] \in Holds(<<"maker", t>>)
  BY <1>3, HoldsSpelled, AreHolders DEF HoldsEach
<1>5. \A p : p # Path(ver[t]) => /\ p \in shadow => p \in shadow'
                                 /\ p \in whole => p \in whole'
  BY DEF CopyOpen, CopyOpenFails, CopyDone, CopyShort, CopyAborts, storeVars
<1>6. /\ \A u \in Thread \ {t} : CopiedBy(u)'
      /\ \A i \in Inode : \A v \in table[i] : v.data => Path(v) \in Intact'
  <2>1. PICK x : x = ver[t]  OBVIOUS
  <2>2. \A u \in Thread \ {t} : <<"maker", t>> # <<"maker", u>>  OBVIOUS
  <2> QED  BY <1>2, <1>4, <1>5, <2>1, <2>2, OtherFiles
<1>7. CopiedBy(t)'
  <2>1. CASE CopyOpen(t)  BY <1>1, <1>3, <2>1 DEF CopyOpen, CopiedBy, Path
  <2>2. CASE CopyOpenFails(t) \/ CopyAborts(t)
    BY <1>1, <1>3, <2>2 DEF CopyOpenFails, CopyAborts, CopyFailed, CopiedBy
  <2>3. CASE CopyDone(t) \/ CopyShort(t)
    <3>1. Path(ver[t]) \in shadow  BY <2>3 DEF CopyDone, CopyShort, FileInv, Copied
    <3>2. /\ ver'[t] = [ver[t] EXCEPT !.data = TRUE] /\ pc'[t] = "add"
      BY <1>1, <2>3 DEF CopyDone, CopyShort
    <3>3. Path(ver'[t]) = Path(ver[t])  BY <1>3, <3>2, DataVersion, <1>1 DEF Path
    <3>4. CASE CopyDone(t)
      <4>1. Path(ver[t]) \in whole' /\ shadow' = shadow  BY <3>1, <3>4 DEF CopyDone
      <4> QED  BY <1>1, <3>1, <3>2, <3>3, <4>1 DEF CopiedBy, Intact, Path
    <3>5. CASE CopyShort(t)
      BY <3>1, <3>2, <3>3, <3>5 DEF CopyShort, CopiedBy, Intact, Path, storeVars
    <3> QED  BY <2>3, <3>4, <3>5
  <2> QED  BY <2>1, <2>2, <2>3
<1> QED  BY <1>2, <1>6, <1>7, CopiedPartsNext

(* A version is added with its file in order.                              *)
LEMMA AddFiles ==
  ASSUME FileInv, NEW t \in Thread, AddBelowLimit(t) \/ AddEvicting(t)
  PROVE  Copied'
<1>1. /\ pc \in [Thread -> PC] /\ ver \in [Thread -> Version \cup {NoVersion}]
      /\ table \in [Inode -> SUBSET Version] /\ TypeOK
  BY DEF FileInv, StampInv, OwnInv, Bookkeeping, TypeOK
<1>2. pc[t] = "add" /\ ver[t] \in Version
  BY <1>1 DEF AddBelowLimit, AddEvicting, TypeOK, InOperation
<1>3. ver[t].ino \in Inode  BY <1>2 DEF Version
<1>4. NewEntry(t).data = ver[t].data /\ Path(NewEntry(t)) = Path(ver[t])
  BY <1>2 DEF NewEntry, Version, Path
<1>5. /\ shadow' = shadow /\ whole' = whole /\ pc'[t] \in {"idle", "free"}
      /\ \A u \in Thread \ {t} : pc'[u] = pc[u] /\ ver'[u] = ver[u]
  BY <1>1 DEF AddBelowLimit, AddEvicting, storeVars
<1>6. \A j \in Inode : \A v \in table'[j] : v = NewEntry(t) \/ v \in table[j]
  BY <1>1, <1>3 DEF AddBelowLimit, AddEvicting, Evict
<1>7. Intact' = Intact  BY <1>5 DEF Intact
<1>8. NewEntry(t).data => Path(NewEntry(t)) \in Intact
  BY <1>2, <1>4 DEF FileInv, Copied
<1>9. \A u \in Thread : CopiedBy(u)'
  BY <1>5, <1>7 DEF FileInv, Copied, CopiedBy, Path
<1>10. \A j \in Inode : \A v \in table'[j] : v.data => Path(v) \in Intact'
  BY <1>6, <1>7, <1>8 DEF FileInv, Copied
<1> QED  BY <1>9, <1>10, CopiedPartsNext

(* Freeing an evicted or a collected version removes no other file.        *)
LEMMA FreeFiles ==
  ASSUME FileInv, NEW h \in Holder, NEW x \in Holds(h), cowfs_version_free(x),
         \A i \in Inode : h # <<"list", i>>,
         \A u \in Thread : h # <<"maker", u>>,
         table' = table,
         \A u \in Thread : \/ pc'[u] = pc[u] /\ ver'[u] = ver[u]
                           \/ pc'[u] = "idle"
  PROVE  Copied'
<1>1. \A p : p # Path(x) => /\ p \in shadow => p \in shadow'
                            /\ p \in whole => p \in whole'
  BY DEF cowfs_version_free, RemoveShadow, storeVars
<1>2. ASSUME NEW u \in Thread PROVE CopiedBy(u)'
  <2>1. CASE pc'[u] = pc[u] /\ ver'[u] = ver[u]  BY <1>1, <2>1, OtherFiles
  <2>2. CASE pc'[u] = "idle"  BY <2>2 DEF CopiedBy
  <2> QED  BY <2>1, <2>2
<1>3. \A i \in Inode : \A v \in table'[i] : v.data => Path(v) \in Intact'
  BY <1>1, OtherFiles
<1> QED  BY <1>2, <1>3, CopiedPartsNext

(* No version, no file.                                                    *)
LEMMA FileInit == Init => FileInv
BY StampInit DEF Init, FileInv, Copied

(* Every step leaves the files of the versions it is not about alone, and  *)
(* the one it is about as that version needs it.                           *)
LEMMA FileNext ==
  ASSUME ClockStep > 0, "settime" \notin Faults, FileInv, [Next]_vars
  PROVE  FileInv'
<1> SUFFICES Copied'  BY StampNext DEF FileInv
<1>1. /\ pc \in [Thread -> PC] /\ ver \in [Thread -> Version \cup {NoVersion}]
  BY DEF FileInv, StampInv, OwnInv, Bookkeeping, TypeOK
<1>2. ASSUME NEW t \in Thread, Prologue(t) PROVE Copied'
  <2>1. PICK op \in Op, i \in Inode, n \in Name \cup {NoName}, next \in {"open", "add"} :
          Alloc(t, op, i, n, next)
    BY <1>2 DEF Prologue, cowfs_write, cowfs_unlink, cowfs_rename, cowfs_setattr, Op
  <2>2. cowfs_version_alloc(op, i, n).data = FALSE  BY DEF cowfs_version_alloc
  <2>3. /\ UNCHANGED <<shadow, whole, table>>
        /\ pc' = [pc EXCEPT ![t] = next]
        /\ ver' = [ver EXCEPT ![t] = cowfs_version_alloc(op, i, n)]
    BY <2>1 DEF Alloc, storeVars, listVars
  <2>4. /\ pc'[t] = next /\ ver'[t].data = FALSE
        /\ \A u \in Thread \ {t} : pc'[u] = pc[u] /\ ver'[u] = ver[u]
    BY <1>1, <2>2, <2>3
  <2> QED  BY <2>3, <2>4, QuietFiles
<1>3. ASSUME NEW t \in Thread, Lookup(t) PROVE Copied'
  <2>1. UNCHANGED <<table, shadow, whole, ver>> /\ pc' = [pc EXCEPT ![t] = "use"]
    BY <1>3 DEF Lookup, cowfs_version_list, cowfs_version_find,
                cowfs_version_find_deleted, Hold, listVars, storeVars
  <2> QED  BY <1>1, <2>1, QuietFiles
<1>4. ASSUME NEW t \in Thread, Step(t) PROVE Copied'
  <2>1. CASE \/ CopyOpen(t) \/ CopyOpenFails(t) \/ CopyDone(t) \/ CopyShort(t)
             \/ CopyAborts(t)
    BY <2>1, CopyFiles
  <2>2. CASE AddBelowLimit(t) \/ AddEvicting(t)  BY <2>2, AddFiles
  <2>3. CASE AddNoMemory(t) \/ Release(t)
    <3>1. UNCHANGED <<table, shadow, whole>> /\ pc' = [pc EXCEPT ![t] = "idle"]
          /\ \A u \in Thread \ {t} : ver'[u] = ver[u]
      BY <1>1, <2>3 DEF AddNoMemory, Release, listVars, storeVars
    <3> QED  BY <1>1, <3>1, QuietFiles
  <2>4. CASE FreeVictim(t)
    <3>1. /\ cowfs_version_free(victim[t]) /\ table' = table
          /\ pc' = [pc EXCEPT ![t] = "idle"] /\ t \in Freer
          /\ \A u \in Thread \ {t} : ver'[u] = ver[u]
      BY <1>1, <2>4 DEF FreeVictim, listVars, Freer
    <3>2. <<"freer", t>> \in Holder /\ victim[t] \in Holds(<<"freer", t>>)
      BY <3>1, HoldsSpelled, AreHolders DEF HoldsEach
    <3>3. /\ \A i \in Inode : <<"freer", t>> # <<"list", i>>
          /\ \A u \in Thread : <<"freer", t>> # <<"maker", u>>
      OBVIOUS
    <3>4. \A u \in Thread : (pc'[u] = pc[u] /\ ver'[u] = ver[u]) \/ pc'[u] = "idle"
      BY <1>1, <3>1
    <3>5. PICK x : x = victim[t]  OBVIOUS
    <3> QED  BY <3>1, <3>2, <3>3, <3>4, <3>5, FreeFiles
  <2> QED  BY <1>4, <2>1, <2>2, <2>3, <2>4 DEF Step
<1>5. CASE GcCollect
  <2>1. UNCHANGED <<shadow, whole, pc, ver>>
        /\ \A i \in Inode : table'[i] \subseteq table[i]
    BY <1>5 DEF GcCollect, storeVars
  <2> QED  BY <2>1, QuietFiles
<1>6. CASE GcFree
  <2>1. PICK v \in gcq : cowfs_version_free(v) /\ UNCHANGED <<table, pc, ver>>
    BY <1>6 DEF GcFree, listVars
  <2>2. Collector \in Holder /\ v \in Holds(Collector)
    BY HoldsSpelled, AreHolders DEF HoldsEach
  <2>3. /\ \A i \in Inode : Collector # <<"list", i>>
        /\ \A u \in Thread : Collector # <<"maker", u>>
    BY DEF Collector
  <2> QED  BY <2>1, <2>2, <2>3, FreeFiles
<1>7. CASE Environment \/ GcStart \/ UNCHANGED vars
  <2>1. UNCHANGED <<shadow, whole, pc, ver>>
    BY <1>7 DEF Environment, cowfs_versions_destroy, Umount, Mount, cowfs_versions_init,
                SetWindow, Tick, SetClock, GcStart, vars, storeVars
  <2>2. \A i \in Inode : table'[i] \subseteq table[i]
    BY <1>7 DEF Environment, cowfs_versions_destroy, Umount, Mount, cowfs_versions_init,
                SetWindow, Tick, SetClock, GcStart, vars, listVars
  <2> QED  BY <2>1, <2>2, QuietFiles
<1> QED  BY <1>2, <1>3, <1>4, <1>5, <1>6, <1>7 DEF Next

(* The file of a listed version that has data is there until the version   *)
(* has left its list (cowfs_version_free), whatever fails.                 *)
THEOREM FilesCorrect ==
  ASSUME ClockStep > 0, "settime" \notin Faults
  PROVE  Spec => []HasFile
<1>1. FileInv => HasFile
  BY DEF FileInv, StampInv, OwnInv, Bookkeeping, TypeOK, Copied, Intact, HasFile, Listed
<1>2. FileInv /\ [Next]_vars => FileInv'  BY FileNext
<1> QED  BY <1>1, <1>2, FileInit, PTL DEF Spec

(* ... and holds the whole content, unless a write was cut short: what a   *)
(* rollback relies on (cowfs_shadow_copy_file, cowfs_version_free).        *)
THEOREM RestoreCorrect ==
  ASSUME ClockStep > 0, Faults \cap {"short", "settime"} = {}
  PROVE  Spec => []Restorable
<1>1. FileInv => Restorable  BY DEF FileInv, Copied, Intact, Restorable, Listed
<1>2. FileInv /\ [Next]_vars => FileInv'  BY FileNext
<1> QED  BY <1>1, <1>2, FileInit, PTL DEF Spec

-----------------------------------------------------------------------------
(* No file without an owner.                                               *)

(* Only a thread that makes a version holds one, and only one that frees.  *)
LEMMA OnlyMakers ==
  ASSUME NEW u \in Thread, NEW h, NEW v \in Holds(h)
  PROVE  /\ h = <<"maker", u>> => u \in Maker
         /\ h = <<"freer", u>> => u \in Freer
<1>1. /\ u \notin Maker => Holds(<<"maker", u>>) = {}
      /\ u \notin Freer => Holds(<<"freer", u>>) = {}
  BY HoldsSpelled DEF HoldsEach
<1> QED  BY <1>1

(* A thread that a step leaves alone holds what it held.                   *)
LEMMA ThreadSame ==
  ASSUME NEW u \in Thread, pc'[u] = pc[u], ver'[u] = ver[u], victim'[u] = victim[u]
  PROVE  /\ Holds(<<"maker", u>>)' = Holds(<<"maker", u>>)
         /\ Holds(<<"freer", u>>)' = Holds(<<"freer", u>>)
<1>1. (u \in Maker' <=> u \in Maker) /\ (u \in Freer' <=> u \in Freer)
  BY DEF Maker, Freer
<1> QED  BY <1>1, HoldsSpelled, HoldsNext DEF HoldsEach

(* A file that is still there had an owner, who is or has found one now.   *)
LEMMA TraceKept ==
  ASSUME Traced, shadow' \subseteq shadow,
         \A h \in Holder : \A v \in Holds(h) : Backed(h, v) /\ Path(v) \in shadow'
           => \E g \in Holder : \E w \in Holds(g)' : Path(w) = Path(v) /\ Backed(g, w)'
  PROVE  Traced'
<1> SUFFICES ASSUME NEW p \in shadow'
             PROVE  \E h \in Holder : \E v \in Holds(h)' : Path(v) = p /\ Backed(h, v)'
  BY DEF Traced, Path
<1>1. PICK h \in Holder : \E v \in Holds(h) : Path(v) = p /\ Backed(h, v)  BY DEF Traced
<1>2. PICK v \in Holds(h) : Path(v) = p /\ Backed(h, v)  BY <1>1
<1> QED  BY <1>2

(* A version stays where it is, with a file that is complete or copied.    *)
LEMMA StaysBacked ==
  ASSUME NEW h \in Holder, NEW v \in Holds(h), v \in Holds(h)', Backed(h, v),
         \A t \in Thread : h = <<"maker", t>> => pc'[t] = pc[t]
  PROVE  \E g \in Holder : \E w \in Holds(g)' : Path(w) = Path(v) /\ Backed(g, w)'
<1>1. Backed(h, v)'  BY DEF Backed
<1> QED  BY <1>1

(* A new version has no file.                                              *)
LEMMA PrologueTraces ==
  ASSUME TraceInv, NEW t \in Thread, Prologue(t)
  PROVE  Traced'
<1>1. PICK op \in Op, i \in Inode, n \in Name \cup {NoName}, next \in {"open", "add"} :
        Alloc(t, op, i, n, next)
  BY DEF Prologue, cowfs_write, cowfs_unlink, cowfs_rename, cowfs_setattr, Op
<1>2. /\ pc \in [Thread -> PC] /\ ver \in [Thread -> Version \cup {NoVersion}]
  BY DEF TraceInv, Bookkeeping, TypeOK
<1>3. /\ pc[t] = "idle" /\ UNCHANGED <<table, victim, gcq, shadow>>
      /\ \A u \in Thread \ {t} : ver'[u] = ver[u] /\ pc'[u] = pc[u]
  BY <1>1, <1>2 DEF Alloc, listVars, gcVars, storeVars
<1>4. HoldsEach /\ HoldsEach'  BY HoldsSpelled, HoldsNext
<1>5. ASSUME NEW h \in Holder, NEW v \in Holds(h)
      PROVE  v \in Holds(h)' /\ \A u \in Thread : h = <<"maker", u>> => pc'[u] = pc[u]
  <2>1. Holds(<<"maker", t>>) = {} /\ Holds(<<"freer", t>>) = {}
    <3>1. t \notin Maker /\ t \notin Freer  BY <1>3 DEF Maker, Freer
    <3> QED  BY <1>4, <3>1 DEF HoldsEach
  <2>2. ASSUME NEW j \in Inode, h = <<"list", j>> PROVE v \in Holds(h)'
    BY <1>3, <1>4, <2>2 DEF HoldsEach
  <2>3. ASSUME NEW u \in Thread \ {t}, h = <<"maker", u>> \/ h = <<"freer", u>>
        PROVE  v \in Holds(h)'
    BY <1>3, <2>3, ThreadSame
  <2>4. ASSUME h = Collector PROVE v \in Holds(h)'
    <3>1. Holds(Collector) = Holds(Collector)'  BY <1>3, <1>4 DEF HoldsEach
    <3> QED  BY <2>4, <3>1
  <2>5. v \in Holds(h)'  BY <2>1, <2>2, <2>3, <2>4, EachHolder
  <2>6. ASSUME NEW u \in Thread, h = <<"maker", u>> PROVE pc'[u] = pc[u]
    BY <1>3, <2>1, <2>6
  <2> QED  BY <2>5, <2>6
<1> QED  BY <1>3, <1>5, StaysBacked, TraceKept DEF TraceInv

(* Steps that move no version and touch no file.                           *)
LEMMA QuietTraces ==
  ASSUME TraceInv, UNCHANGED <<shadow, table, gcq, ver, victim>>,
         \A u \in Thread : pc'[u] = pc[u] \/ {pc[u], pc'[u]} \subseteq {"idle", "use"}
  PROVE  Traced'
<1>1. HoldsEach /\ HoldsEach'  BY HoldsSpelled, HoldsNext
<1>2. Maker' = Maker /\ Freer' = Freer  BY DEF Maker, Freer
<1>3. ASSUME NEW h \in Holder, NEW v \in Holds(h)
      PROVE  v \in Holds(h)' /\ \A u \in Thread : h = <<"maker", u>> => pc'[u] = pc[u]
  <2>1. v \in Holds(h)'  BY <1>2 DEF Holds
  <2>2. ASSUME NEW u \in Thread, h = <<"maker", u>> PROVE pc'[u] = pc[u]
    <3>1. u \in Maker  BY <2>2, OnlyMakers
    <3> QED  BY <3>1 DEF Maker
  <2> QED  BY <2>1, <2>2
<1> QED  BY <1>3, StaysBacked, TraceKept DEF TraceInv

(* A copy creates one file, that of its own version.                       *)
LEMMA CopyTraces ==
  ASSUME TraceInv, NEW t \in Thread, CopyOpen(t) \/ CopyDone(t) \/ CopyShort(t)
  PROVE  Traced'
<1>1. /\ pc \in [Thread -> PC] /\ ver \in [Thread -> Version \cup {NoVersion}] /\ TypeOK
  BY DEF TraceInv, Bookkeeping, TypeOK
<1>2. /\ table' = table /\ victim' = victim /\ gcq' = gcq
      /\ pc[t] \in {"open", "copy"} /\ pc'[t] \in {"copy", "add"}
      /\ \A u \in Thread \ {t} : pc'[u] = pc[u] /\ ver'[u] = ver[u]
  BY <1>1 DEF CopyOpen, CopyDone, CopyShort, listVars, gcVars
<1>3. ver[t] \in Version /\ t \in Maker /\ t \in Maker' /\ t \notin Freer
  BY <1>1, <1>2 DEF TypeOK, InOperation, Maker, Freer
<1>4. HoldsEach /\ HoldsEach'  BY HoldsSpelled, HoldsNext
<1>5. PICK m \in Holder : m = <<"maker", t>>  BY AreHolders
<1>6. Holds(m) = {ver[t]} /\ Holds(m)' = {ver'[t]}  BY <1>3, <1>4, <1>5 DEF HoldsEach
<1>7. /\ Path(ver'[t]) = Path(ver[t])
      /\ pc'[t] = "copy" \/ ver'[t].data
      /\ shadow' \subseteq shadow \cup {Path(ver[t])}
  <2>1. CASE CopyOpen(t)  BY <1>1, <2>1 DEF CopyOpen, Path
  <2>2. CASE CopyDone(t) \/ CopyShort(t)
    <3>1. ver'[t] = [ver[t] EXCEPT !.data = TRUE] /\ shadow' = shadow
      BY <1>1, <2>2 DEF CopyDone, CopyShort, storeVars
    <3>2. ver'[t].data  BY <1>3, <3>1 DEF Version
    <3>3. Path(ver'[t]) = Path(ver[t])  BY <1>1, <1>3, <3>1, DataVersion DEF Path
    <3> QED  BY <3>1, <3>2, <3>3
  <2> QED  BY <2>1, <2>2
<1>8. PICK w : w = ver'[t]  OBVIOUS
<1>9. w \in Holds(m)' /\ Path(w) = Path(ver[t]) /\ Backed(m, w)'
  BY <1>5, <1>6, <1>7, <1>8 DEF Backed
<1>10. ASSUME NEW h \in Holder \ {m}, NEW v \in Holds(h)
       PROVE  v \in Holds(h)' /\ \A u \in Thread : h = <<"maker", u>> => pc'[u] = pc[u]
  <2>1. ASSUME NEW j \in Inode, h = <<"list", j>> PROVE v \in Holds(h)'
    BY <1>2, <1>4, <2>1 DEF HoldsEach
  <2>2. ASSUME NEW u \in Thread \ {t}, h = <<"maker", u>> \/ h = <<"freer", u>>
        PROVE  v \in Holds(h)'
    BY <1>2, <2>2, ThreadSame
  <2>3. h # <<"freer", t>>  BY <1>3, OnlyMakers
  <2>4. ASSUME h = Collector PROVE v \in Holds(h)'
    <3>1. Holds(Collector) = Holds(Collector)'  BY <1>2, <1>4 DEF HoldsEach
    <3> QED  BY <2>4, <3>1
  <2>5. v \in Holds(h)'  BY <1>5, <2>1, <2>2, <2>3, <2>4, EachHolder
  <2>6. ASSUME NEW u \in Thread, h = <<"maker", u>> PROVE pc'[u] = pc[u]
    BY <1>2, <1>5, <2>6
  <2> QED  BY <2>5, <2>6
<1>11. ASSUME NEW p \in shadow'
       PROVE  \E h \in Holder : \E v \in Holds(h)' : Path(v) = p /\ Backed(h, v)'
  <2>1. CASE p = Path(ver[t])  BY <1>9, <2>1
  <2>2. CASE p # Path(ver[t])
    <3>1. p \in shadow  BY <1>7, <2>2
    <3>2. PICK h \in Holder : \E v \in Holds(h) : Path(v) = p /\ Backed(h, v)
      BY <3>1 DEF TraceInv, Traced
    <3>3. PICK v \in Holds(h) : Path(v) = p /\ Backed(h, v)  BY <3>2
    <3>4. h # m  BY <1>6, <2>2, <3>3
    <3> QED  BY <1>10, <3>3, <3>4, StaysBacked
  <2> QED  BY <2>1, <2>2
<1> QED  BY <1>11 DEF Traced, Path

(* A version whose file is on its way keeps it when it is added, and the   *)
(* evicted one when it passes to the thread.                               *)
LEMMA AddTraces ==
  ASSUME TraceInv, NEW t \in Thread, AddBelowLimit(t) \/ AddEvicting(t)
  PROVE  Traced'
<1>1. /\ pc \in [Thread -> PC] /\ ver \in [Thread -> Version \cup {NoVersion}]
      /\ table \in [Inode -> SUBSET Version] /\ TypeOK
      /\ victim \in [Thread -> Version \cup {NoVersion}]
  BY DEF TraceInv, Bookkeeping, TypeOK
<1>2. pc[t] = "add" /\ ver[t] \in Version /\ t \in Maker /\ t \notin Freer
  BY <1>1 DEF AddBelowLimit, AddEvicting, TypeOK, InOperation, Maker, Freer
<1>3. PICK i \in Inode : i = ver[t].ino  BY <1>2 DEF Version
<1>4. PICK e : e = NewEntry(t)  OBVIOUS
<1>5. e.data = ver[t].data /\ Path(e) = Path(ver[t])
  BY <1>2, <1>4 DEF NewEntry, Version, Path
<1>6. /\ gcq' = gcq /\ shadow' = shadow /\ e \in table'[i]
      /\ \A j \in Inode \ {i} : table'[j] = table[j]
      /\ \A u \in Thread \ {t} : pc'[u] = pc[u] /\ ver'[u] = ver[u] /\ victim'[u] = victim[u]
  BY <1>1, <1>3, <1>4 DEF AddBelowLimit, AddEvicting, gcVars, storeVars
<1>7. ASSUME NEW v \in table[i], v \notin table'[i]
      PROVE  pc'[t] = "free" /\ victim'[t] = v
  BY <1>1, <1>3, <1>7 DEF AddBelowLimit, AddEvicting, Evict
<1>8. HoldsEach /\ HoldsEach'  BY HoldsSpelled, HoldsNext
<1>9. PICK m \in Holder, l \in Holder, f \in Holder :
        m = <<"maker", t>> /\ l = <<"list", i>> /\ f = <<"freer", t>>
  BY AreHolders
<1>10. Holds(l) = table[i] /\ Holds(l)' = table'[i] /\ Holds(m) = {ver[t]} /\ Holds(f) = {}
  BY <1>2, <1>8, <1>9 DEF HoldsEach
<1>11. ASSUME NEW h \in Holder \ {m, l, f}, NEW v \in Holds(h)
       PROVE  v \in Holds(h)' /\ \A u \in Thread : h = <<"maker", u>> => pc'[u] = pc[u]
  <2>1. ASSUME NEW j \in Inode, h = <<"list", j>> PROVE v \in Holds(h)'
    BY <1>6, <1>8, <1>9, <2>1 DEF HoldsEach
  <2>2. ASSUME NEW u \in Thread \ {t}, h = <<"maker", u>> \/ h = <<"freer", u>>
        PROVE  v \in Holds(h)'
    BY <1>6, <2>2, ThreadSame
  <2>3. ASSUME h = Collector PROVE v \in Holds(h)'
    <3>1. Holds(Collector) = Holds(Collector)'  BY <1>6, <1>8 DEF HoldsEach
    <3> QED  BY <2>3, <3>1
  <2>4. v \in Holds(h)'  BY <1>9, <2>1, <2>2, <2>3, EachHolder
  <2>5. ASSUME NEW u \in Thread, h = <<"maker", u>> PROVE pc'[u] = pc[u]
    BY <1>6, <1>9, <2>5
  <2> QED  BY <2>4, <2>5
<1>12. ASSUME NEW h \in Holder, NEW v \in Holds(h), Backed(h, v)
       PROVE  \E g \in Holder : \E w \in Holds(g)' : Path(w) = Path(v) /\ Backed(g, w)'
  <2>1. CASE h = m
    <3>1. v = ver[t]  BY <1>10, <2>1
    <3>2. e.data  BY <1>2, <1>5, <1>9, <1>12, <2>1, <3>1 DEF Backed
    <3>3. e \in Holds(l)' /\ Path(e) = Path(v) /\ Backed(l, e)'
      BY <1>5, <1>6, <1>10, <3>1, <3>2 DEF Backed
    <3> QED  BY <3>3
  <2>2. CASE h = l
    <3>1. v.data  BY <1>9, <1>12, <2>2 DEF Backed
    <3>2. CASE v \in table'[i]
      <4>1. v \in Holds(l)' /\ Backed(l, v)'  BY <1>10, <3>1, <3>2 DEF Backed
      <4> QED  BY <4>1
    <3>3. CASE v \notin table'[i]
      <4>1. v \in table[i]  BY <1>10, <2>2
      <4>2. pc'[t] = "free" /\ victim'[t] = v  BY <1>7, <3>3, <4>1
      <4>3. t \in Freer'  BY <4>2 DEF Freer
      <4>4. Holds(f)' = {v}  BY <1>8, <1>9, <4>2, <4>3 DEF HoldsEach
      <4>5. v \in Holds(f)' /\ Backed(f, v)'  BY <3>1, <4>4 DEF Backed
      <4> QED  BY <4>5
    <3> QED  BY <3>2, <3>3
  <2>3. CASE h \notin {m, l}
    <3>1. h # f  BY <1>10
    <3> QED  BY <1>11, <1>12, <2>3, <3>1, StaysBacked
  <2> QED  BY <2>1, <2>2, <2>3
<1> QED  BY <1>6, <1>12, TraceKept DEF TraceInv

(* Freeing a version removes its file and no owner but that version's.     *)
LEMMA FreeTraces ==
  ASSUME TraceInv, "remove" \notin Faults,
         NEW k \in Holder, NEW x \in Holds(k), \A u \in Thread : k # <<"maker", u>>,
         cowfs_version_free(x),
         \A h \in Holder : \A v \in Holds(h) : v \in Holds(h)' \/ (h = k /\ v = x),
         \A u \in Maker : pc'[u] = pc[u]
  PROVE  Traced'
<1>1. /\ x.data => Path(x) \notin shadow'
      /\ shadow' \subseteq shadow
  BY DEF cowfs_version_free, RemoveShadow, storeVars, TraceInv, Steady
<1>2. ASSUME NEW h \in Holder, NEW v \in Holds(h), Backed(h, v), Path(v) \in shadow'
      PROVE  \E g \in Holder : \E w \in Holds(g)' : Path(w) = Path(v) /\ Backed(g, w)'
  <2>1. ~(h = k /\ v = x)
    <3>1. SUFFICES ASSUME h = k, v = x PROVE FALSE  OBVIOUS
    <3>2. x.data  BY <1>2, <3>1 DEF Backed
    <3> QED  BY <1>1, <1>2, <3>1, <3>2
  <2>2. v \in Holds(h)'  BY <2>1
  <2>3. \A u \in Thread : h = <<"maker", u>> => pc'[u] = pc[u]  BY OnlyMakers
  <2> QED  BY <1>2, <2>2, <2>3, StaysBacked
<1> QED  BY <1>1, <1>2, TraceKept DEF TraceInv

(* What the collector takes from the lists it owns: it had nothing before. *)
LEMMA CollectTraces ==
  ASSUME TraceInv, GcCollect
  PROVE  Traced'
<1>1. /\ gcq = {} /\ UNCHANGED <<shadow, pc, ver, victim>>
      /\ gcq' = UNION {Expired(i) : i \in Inode}
      /\ table' = [i \in Inode |-> table[i] \ Expired(i)]
  BY DEF TraceInv, Steady, GcCollect, storeVars
<1>2. HoldsEach /\ HoldsEach'  BY HoldsSpelled, HoldsNext
<1>3. PICK c \in Holder : c = Collector  BY AreHolders
<1>4. Holds(c) = {} /\ Holds(c)' = gcq'  BY <1>1, <1>2, <1>3 DEF HoldsEach
<1>5. ASSUME NEW h \in Holder, NEW v \in Holds(h), Backed(h, v)
      PROVE  \E g \in Holder : \E w \in Holds(g)' : Path(w) = Path(v) /\ Backed(g, w)'
  <2>1. ASSUME NEW j \in Inode, h = <<"list", j>>
        PROVE  \E g \in Holder : \E w \in Holds(g)' : Path(w) = Path(v) /\ Backed(g, w)'
    <3>1. v.data  BY <1>5, <2>1 DEF Backed
    <3>2. v \in table[j] /\ Holds(h)' = table[j] \ Expired(j)
      BY <1>1, <1>2, <2>1 DEF HoldsEach
    <3>3. CASE v \in Expired(j)
      <4>1. v \in Holds(c)'  BY <1>1, <1>4, <3>3
      <4>2. Backed(c, v)'  BY <3>1 DEF Backed
      <4> QED  BY <4>1, <4>2
    <3>4. CASE v \notin Expired(j)
      <4>1. v \in Holds(h)'  BY <3>2, <3>4
      <4>2. Backed(h, v)'  BY <3>1 DEF Backed
      <4> QED  BY <4>1, <4>2
    <3> QED  BY <3>3, <3>4
  <2>2. ASSUME NEW u \in Thread, h = <<"maker", u>> \/ h = <<"freer", u>>
        PROVE  \E g \in Holder : \E w \in Holds(g)' : Path(w) = Path(v) /\ Backed(g, w)'
    <3>1. v \in Holds(h)'  BY <1>1, <2>2, ThreadSame
    <3> QED  BY <1>1, <1>5, <3>1, StaysBacked
  <2> QED  BY <1>3, <1>4, <2>1, <2>2, EachHolder
<1> QED  BY <1>1, <1>5, TraceKept DEF TraceInv

(* An empty directory has no orphan.                                       *)
LEMMA TraceInit == Init => TraceInv
BY BookkeepingInit DEF Init, TraceInv, Steady, Traced

(* Without failures but short writes every step keeps the owners.          *)
LEMMA TraceNext ==
  ASSUME Faults \subseteq {"short"}, TraceInv, [Next]_vars
  PROVE  TraceInv'
<1>1. /\ pc \in [Thread -> PC] /\ ver \in [Thread -> Version \cup {NoVersion}]
      /\ victim \in [Thread -> Version \cup {NoVersion}] /\ TypeOK
  BY DEF TraceInv, Bookkeeping, TypeOK
<1>2. /\ "remove" \notin Faults /\ "copy" \notin Faults
      /\ "nomem" \notin Faults /\ "umount" \notin Faults
  OBVIOUS
<1>3. Bookkeeping'  BY BookkeepingNext DEF TraceInv
<1>4. ASSUME NEW t \in Thread, Prologue(t) PROVE Traced' /\ Steady'
  <2>1. UNCHANGED <<phase, gcr, gcq>>
    BY <1>4 DEF Prologue, cowfs_write, cowfs_unlink, cowfs_rename, cowfs_setattr, Alloc, gcVars
  <2> QED  BY <1>4, <2>1, PrologueTraces DEF TraceInv, Steady
<1>5. ASSUME NEW t \in Thread, Lookup(t) PROVE Traced' /\ Steady'
  <2>1. /\ UNCHANGED <<table, shadow, ver, victim, phase, gcr, gcq>>
        /\ pc[t] = "idle" /\ pc' = [pc EXCEPT ![t] = "use"]
    BY <1>5 DEF Lookup, cowfs_version_list, cowfs_version_find,
                cowfs_version_find_deleted, Hold, listVars, storeVars, gcVars
  <2>2. \A u \in Thread : pc'[u] = pc[u] \/ {pc[u], pc'[u]} \subseteq {"idle", "use"}
    BY <1>1, <2>1
  <2> QED  BY <2>1, <2>2, QuietTraces DEF TraceInv, Steady
<1>6. ASSUME NEW t \in Thread, Step(t) PROVE Traced' /\ Steady'
  <2>1. UNCHANGED <<phase, gcr, gcq>>
    BY <1>6 DEF Step, CopyOpen, CopyOpenFails, CopyDone, CopyShort, CopyAborts, AddBelowLimit,
                AddEvicting, AddNoMemory, FreeVictim, Release, gcVars
  <2>2. Steady'  BY <2>1 DEF TraceInv, Steady
  <2>3. CASE CopyOpen(t) \/ CopyDone(t) \/ CopyShort(t)  BY <2>2, <2>3, CopyTraces
  <2>4. CASE AddBelowLimit(t) \/ AddEvicting(t)  BY <2>2, <2>4, AddTraces
  <2>5. CASE Release(t)
    <3>1. /\ UNCHANGED <<table, shadow, ver, victim>>
          /\ pc[t] = "use" /\ pc' = [pc EXCEPT ![t] = "idle"]
      BY <2>5 DEF Release, listVars, storeVars
    <3>2. \A u \in Thread : pc'[u] = pc[u] \/ {pc[u], pc'[u]} \subseteq {"idle", "use"}
      BY <1>1, <3>1
    <3> QED  BY <2>1, <2>2, <3>1, <3>2, QuietTraces
  <2>6. CASE FreeVictim(t)
    <3>1. /\ cowfs_version_free(victim[t]) /\ table' = table /\ pc[t] = "free"
          /\ \A u \in Thread \ {t} : pc'[u] = pc[u] /\ ver'[u] = ver[u] /\ victim'[u] = victim[u]
      BY <1>1, <2>6 DEF FreeVictim, listVars
    <3>2. t \in Freer /\ t \notin Maker  BY <3>1 DEF Freer, Maker
    <3>3. HoldsEach /\ HoldsEach'  BY HoldsSpelled, HoldsNext
    <3>4. PICK k \in Holder : k = <<"freer", t>>  BY AreHolders
    <3>5. PICK x : x = victim[t]  OBVIOUS
    <3>6. Holds(k) = {x}  BY <3>2, <3>3, <3>4, <3>5 DEF HoldsEach
    <3>7. ASSUME NEW h \in Holder, NEW v \in Holds(h) PROVE v \in Holds(h)' \/ (h = k /\ v = x)
      <4>1. ASSUME NEW j \in Inode, h = <<"list", j>> PROVE v \in Holds(h)'
        BY <3>1, <3>3, <4>1 DEF HoldsEach
      <4>2. ASSUME NEW u \in Thread \ {t}, h = <<"maker", u>> \/ h = <<"freer", u>>
            PROVE  v \in Holds(h)'
        BY <3>1, <4>2, ThreadSame
      <4>3. ASSUME h = Collector PROVE v \in Holds(h)'
        <5>1. Holds(Collector) = Holds(Collector)'  BY <2>1, <3>3 DEF HoldsEach
        <5> QED  BY <4>3, <5>1
      <4>4. h # <<"maker", t>>  BY <3>2, OnlyMakers
      <4> QED  BY <3>4, <3>6, <4>1, <4>2, <4>3, <4>4, EachHolder
    <3>8. \A u \in Maker : pc'[u] = pc[u]  BY <3>1, <3>2 DEF Maker
    <3>9. \A u \in Thread : k # <<"maker", u>>  BY <3>4
    <3> QED  BY <1>2, <2>2, <3>1, <3>5, <3>6, <3>7, <3>8, <3>9, FreeTraces
  <2> QED  BY <1>2, <1>6, <2>3, <2>4, <2>5, <2>6 DEF Step, CopyOpenFails, CopyAborts, AddNoMemory
<1>7. CASE GcCollect
  <2>1. Steady'  BY <1>7 DEF GcCollect, GcIdle, TraceInv, Steady
  <2> QED  BY <1>3, <1>7, <2>1, CollectTraces DEF TraceInv
<1>8. CASE GcFree
  <2>1. PICK x \in gcq : /\ cowfs_version_free(x) /\ gcq' = gcq \ {x}
                         /\ UNCHANGED <<table, pc, ver, victim, phase, gcr>>
    BY <1>8 DEF GcFree, listVars
  <2>2. HoldsEach /\ HoldsEach'  BY HoldsSpelled, HoldsNext
  <2>3. PICK k \in Holder : k = Collector  BY AreHolders
  <2>4. Holds(k) = gcq /\ Holds(k)' = gcq'  BY <2>2, <2>3 DEF HoldsEach
  <2>5. ASSUME NEW h \in Holder, NEW v \in Holds(h) PROVE v \in Holds(h)' \/ (h = k /\ v = x)
    <3>1. ASSUME NEW j \in Inode, h = <<"list", j>> PROVE v \in Holds(h)'
      BY <2>1, <2>2, <3>1 DEF HoldsEach
    <3>2. ASSUME NEW u \in Thread, h = <<"maker", u>> \/ h = <<"freer", u>>
          PROVE  v \in Holds(h)'
      BY <2>1, <3>2, ThreadSame
    <3> QED  BY <2>1, <2>3, <2>4, <3>1, <3>2, EachHolder
  <2>6. \A u \in Thread : k # <<"maker", u>>  BY <2>3 DEF Collector
  <2>7. Traced'  BY <1>2, <2>1, <2>4, <2>5, <2>6, FreeTraces DEF Maker
  <2>8. Steady'  BY <2>1 DEF TraceInv, Steady
  <2> QED  BY <1>3, <2>7, <2>8 DEF TraceInv
<1>9. CASE Environment \/ GcStart \/ UNCHANGED vars
  <2>1. UNCHANGED <<shadow, table, gcq, pc, ver, victim>> /\ phase' = "mounted"
    BY <1>2, <1>9 DEF Environment, cowfs_versions_destroy, Umount, Mount, cowfs_versions_init,
                      SetWindow, Tick, SetClock, GcStart, vars, storeVars, listVars, gcVars, TraceInv, Steady
  <2>2. Steady'
    BY <1>9, <2>1 DEF Environment, cowfs_versions_destroy, Umount, Mount, cowfs_versions_init,
                      SetWindow, Tick, SetClock, GcStart, vars, gcVars, TraceInv, Steady
  <2>3. Traced'  BY <2>1, QuietTraces
  <2> QED  BY <1>3, <2>2, <2>3 DEF TraceInv
<1> QED  BY <1>3, <1>4, <1>5, <1>6, <1>7, <1>8, <1>9 DEF Next, TraceInv

(* Every file in .cowfs_shadow belongs to a version that somebody will     *)
(* free (cowfs_version_free, cowfs_shadow_remove), if no copy, allocation  *)
(* or removal fails and nobody unmounts.                                   *)
THEOREM OrphanCorrect ==
  ASSUME Faults \subseteq {"short"}
  PROVE  Spec => []NoOrphan
<1>1. TraceInv => NoOrphan  BY OwnedIsHeld DEF TraceInv, Traced, NoOrphan
<1>2. TraceInv /\ [Next]_vars => TraceInv'  BY TraceNext
<1> QED  BY <1>1, <1>2, TraceInit, PTL DEF Spec
=============================================================================
