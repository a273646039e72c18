---------------------------- MODULE CowLogProofs ----------------------------
(***************************************************************************)
(* CowVersions implements SnapshotLog: the lists of versions, the files of *)
(* .cowfs_shadow and the collector together look like logs of snapshots    *)
(* that are entered complete and never change.                             *)
(***************************************************************************)
EXTENDS CowOwnershipProofs

(* A rename saves nothing; a write or an unlink whose copy has failed is   *)
(* not recorded.                                                           *)
Sensed ==
  \A t \in Thread : /\ pc[t] \in {"open", "copy"} => ver[t].op # "RENAME"
                    /\ pc[t] = "add" /\ ver[t].op \in {"WRITE", "UNLINK"} => ver[t].data
                    /\ pc[t] = "add" /\ ver[t].op = "RENAME" => ver[t].data = FALSE

(* No two entries of a list were added at the same moment.                 *)
PosDistinct == \A i \in Inode : \A v, w \in table[i] : v.pos = w.pos => v = w

(* What the refinement rests on.                                           *)
LogInv == FileInv /\ WindowInv /\ Sensed /\ PosDistinct

(* SavedCopy without the order of its cases.                               *)
LEMMA SavedCopyCases ==
  ASSUME NEW v
  PROVE  /\ ~v.data => SavedCopy(v) = "none"
         /\ v.data /\ Path(v) \in whole => SavedCopy(v) = "whole"
         /\ v.data /\ Path(v) \notin whole /\ Path(v) \in shadow => SavedCopy(v) = "part"
         /\ v.data /\ Path(v) \notin whole /\ Path(v) \notin shadow => SavedCopy(v) = "lost"
BY Zenon DEF SavedCopy

(* The same after a step.                                                  *)
LEMMA SavedCopyNext ==
  ASSUME NEW v
  PROVE  /\ ~v.data => SavedCopy(v)' = "none"
         /\ v.data /\ Path(v) \in whole' => SavedCopy(v)' = "whole"
         /\ v.data /\ Path(v) \notin whole' /\ Path(v) \in shadow' => SavedCopy(v)' = "part"
         /\ v.data /\ Path(v) \notin whole' /\ Path(v) \notin shadow' => SavedCopy(v)' = "lost"
BY Zenon DEF SavedCopy, Path

-----------------------------------------------------------------------------
(* The snapshots of listed versions do not change.                         *)

(* A snapshot depends on one file only.                                    *)
LEMMA SnapshotSame ==
  ASSUME NEW v, Path(v) \in shadow <=> Path(v) \in shadow', Path(v) \in whole <=> Path(v) \in whole'
  PROVE  SnapshotOf(v)' = SnapshotOf(v)
<1>1. SavedCopy(v)' = SavedCopy(v)  BY SavedCopyCases, SavedCopyNext
<1> QED  BY <1>1 DEF SnapshotOf

(* A step that changes one file, which is not that of an entry of a list.  *)
LEMMA OneFile ==
  ASSUME StampInv, NEW h \in Holder, NEW x \in Holds(h), \A i \in Inode : h # <<"list", i>>,
         \A p : p # Path(x) => /\ p \in shadow <=> p \in shadow'
                               /\ p \in whole <=> p \in whole'
  PROVE  \A i \in Inode : \A v \in table[i] : SnapshotOf(v)' = SnapshotOf(v)
<1> SUFFICES ASSUME NEW i \in Inode, NEW v \in table[i]
             PROVE  SnapshotOf(v)' = SnapshotOf(v)
  OBVIOUS
<1>1. v \in Holds(<<"list", i>>)  BY HoldsSpelled DEF HoldsEach
<1>2. Path(v) # Path(x)  BY <1>1, AreHolders, PathHeldOnce
<1> QED  BY <1>2, SnapshotSame

(* Whatever happens to the files, the snapshot of a listed version is the  *)
(* same.                                                                   *)
LEMMA SnapshotsKept ==
  ASSUME StampInv, [Next]_vars
  PROVE  \A i \in Inode : \A v \in table[i] : SnapshotOf(v)' = SnapshotOf(v)
<1> DEFINE Goal == \A i \in Inode : \A v \in table[i] : SnapshotOf(v)' = SnapshotOf(v)
<1>1. ASSUME UNCHANGED storeVars PROVE Goal  BY <1>1, SnapshotSame DEF storeVars
<1>2. ASSUME NEW t \in Thread, CopyOpen(t) \/ CopyDone(t) PROVE Goal
  <2>1. t \in Maker  BY <1>2 DEF CopyOpen, CopyDone, Maker
  <2>2. PICK x : x = ver[t]  OBVIOUS
  <2>3. \A p : p # Path(x) => (p \in shadow <=> p \in shadow') /\ (p \in whole <=> p \in whole')
    BY <1>2, <2>2 DEF CopyOpen, CopyDone
  <2>4. PICK h \in Holder : h = <<"maker", t>>  BY AreHolders
  <2>5. x \in Holds(h)  BY <2>1, <2>2, <2>4, HoldsSpelled DEF HoldsEach
  <2>6. \A i \in Inode : h # <<"list", i>>  BY <2>4
  <2> QED  BY <2>3, <2>5, <2>6, OneFile
<1>3. ASSUME NEW x, NEW h \in Holder, x \in Holds(h), \A i \in Inode : h # <<"list", i>>,
             cowfs_version_free(x)
      PROVE  Goal
  <2>1. \A p : p # Path(x) => (p \in shadow <=> p \in shadow') /\ (p \in whole <=> p \in whole')
    BY <1>3 DEF cowfs_version_free, RemoveShadow, storeVars
  <2> QED  BY <1>3, <2>1, OneFile
<1>4. ASSUME NEW t \in Thread, FreeVictim(t) PROVE Goal
  <2>1. t \in Freer  BY <1>4 DEF FreeVictim, Freer
  <2>2. PICK x : x = victim[t]  OBVIOUS
  <2>3. PICK h \in Holder : h = <<"freer", t>>  BY AreHolders
  <2>4. x \in Holds(h)  BY <2>1, <2>2, <2>3, HoldsSpelled DEF HoldsEach
  <2>5. \A i \in Inode : h # <<"list", i>>  BY <2>3
  <2>6. cowfs_version_free(x)  BY <1>4, <2>2 DEF FreeVictim
  <2> QED  BY <1>3, <2>4, <2>5, <2>6
<1>5. ASSUME GcFree PROVE Goal
  <2>1. PICK x \in gcq : cowfs_version_free(x)  BY <1>5 DEF GcFree
  <2>2. x \in Holds(Collector)  BY HoldsSpelled DEF HoldsEach
  <2>3. \A i \in Inode : Collector # <<"list", i>>  BY DEF Collector
  <2> QED  BY <1>3, <2>1, <2>2, <2>3, AreHolders
<1>6. ASSUME NEW t \in Thread,
             \/ CopyOpenFails(t) \/ CopyShort(t) \/ CopyAborts(t) \/ AddBelowLimit(t)
             \/ AddEvicting(t) \/ AddNoMemory(t) \/ Release(t)
      PROVE  UNCHANGED storeVars
  BY <1>6 DEF CopyOpenFails, CopyShort, CopyAborts, AddBelowLimit, AddEvicting, AddNoMemory,
              Release
<1>7. ASSUME NEW t \in Thread, Prologue(t) \/ Lookup(t) PROVE UNCHANGED storeVars
  BY <1>7 DEF Prologue, cowfs_write, cowfs_unlink, cowfs_rename, cowfs_setattr, Alloc,
              Lookup, cowfs_version_list, cowfs_version_find, cowfs_version_find_deleted, Hold
<1>8. ASSUME GcStart \/ GcCollect \/ Environment \/ UNCHANGED vars PROVE UNCHANGED storeVars
  BY <1>8 DEF GcStart, GcCollect, Environment, Umount, Mount, cowfs_versions_destroy,
              cowfs_versions_init, SetWindow, Tick, SetClock, vars, storeVars
<1> HIDE DEF Goal
<1>9. Goal  BY <1>1, <1>2, <1>4, <1>5, <1>6, <1>7, <1>8 DEF Next, Step
<1> QED  BY <1>9 DEF Goal

-----------------------------------------------------------------------------
(* The rest of the invariant.                                              *)

(* Where a thread is says what its version has.                            *)
LEMMA SensedNext ==
  ASSUME LogInv, [Next]_vars
  PROVE  Sensed'
<1>1. /\ pc \in [Thread -> PC] /\ ver \in [Thread -> Version \cup {NoVersion}]
      /\ \A t \in Thread : pc[t] \in InOperation => ver[t] \in Version
  BY DEF LogInv, WindowInv, Bookkeeping, TypeOK
<1>2. ASSUME \A u \in Thread : \/ pc'[u] = pc[u] /\ ver'[u] = ver[u]
                               \/ pc'[u] \in {"idle", "use", "free"}
      PROVE  Sensed'
  BY <1>2 DEF LogInv, Sensed
<1>3. ASSUME NEW t \in Thread, Prologue(t) PROVE Sensed'
  <2>1. PICK op \in Op, i \in Inode, n \in Name \cup {NoName}, next \in {"open", "add"} :
          /\ Alloc(t, op, i, n, next)
          /\ next = "open" => op # "RENAME"
          /\ next = "add" => op \notin {"WRITE", "UNLINK"}
    BY <1>3 DEF Prologue, cowfs_write, cowfs_unlink, cowfs_rename, cowfs_setattr, Op
  <2>2. /\ cowfs_version_alloc(op, i, n).data = FALSE
        /\ cowfs_version_alloc(op, i, n).op = op
    BY DEF cowfs_version_alloc
  <2>3. /\ ver'[t].data = FALSE /\ ver'[t].op = op /\ pc'[t] = next
        /\ \A u \in Thread \ {t} : pc'[u] = pc[u] /\ ver'[u] = ver[u]
    BY <1>1, <2>1, <2>2 DEF Alloc
  <2> QED  BY <2>1, <2>3 DEF LogInv, Sensed
<1>4. ASSUME NEW t \in Thread, Lookup(t) PROVE Sensed'
  <2>1. ver' = ver /\ pc' = [pc EXCEPT ![t] = "use"]
    BY <1>4 DEF Lookup, cowfs_version_list, cowfs_version_find,
                cowfs_version_find_deleted, Hold
  <2> QED  BY <1>1, <1>2, <2>1
<1>5. ASSUME NEW t \in Thread, Step(t) PROVE Sensed'
  <2>1. CASE \/ AddBelowLimit(t) \/ AddEvicting(t) \/ AddNoMemory(t) \/ FreeVictim(t)
             \/ Release(t)
    <3>1. /\ pc'[t] \in {"idle", "free"}
          /\ \A u \in Thread \ {t} : pc'[u] = pc[u] /\ ver'[u] = ver[u]
      BY <1>1, <2>1 DEF AddBelowLimit, AddEvicting, AddNoMemory, FreeVictim, Release
    <3> QED  BY <1>2, <3>1
  <2>2. CASE CopyOpen(t)
    <3>1. /\ pc[t] = "open" /\ pc'[t] = "copy" /\ ver' = ver
          /\ \A u \in Thread \ {t} : pc'[u] = pc[u]
      BY <1>1, <2>2 DEF CopyOpen
    <3> QED  BY <3>1 DEF LogInv, Sensed
  <2>3. CASE CopyOpenFails(t) \/ CopyAborts(t)
    <3>1. /\ pc[t] \in {"open", "copy"}
          /\ \/ pc'[t] = "add" /\ ver'[t] = ver[t] /\ ver[t].op = "SETATTR"
             \/ pc'[t] = "idle"
          /\ \A u \in Thread \ {t} : pc'[u] = pc[u] /\ ver'[u] = ver[u]
      BY <1>1, <2>3 DEF CopyOpenFails, CopyAborts, CopyFailed
    <3> QED  BY <3>1 DEF LogInv, Sensed
  <2>4. CASE CopyDone(t) \/ CopyShort(t)
    <3>1. /\ pc[t] = "copy" /\ pc'[t] = "add"
          /\ ver'[t] = [ver[t] EXCEPT !.data = TRUE]
          /\ \A u \in Thread \ {t} : pc'[u] = pc[u] /\ ver'[u] = ver[u]
      BY <1>1, <2>4 DEF CopyDone, CopyShort
    <3>2. ver[t] \in Version  BY <1>1, <3>1 DEF InOperation
    <3>3. ver'[t].data /\ ver'[t].op = ver[t].op  BY <3>1, <3>2 DEF Version
    <3> QED  BY <3>1, <3>3 DEF LogInv, Sensed
  <2> QED  BY <1>5, <2>1, <2>2, <2>3, <2>4 DEF Step
<1>6. CASE GcStart \/ GcCollect \/ GcFree \/ Environment \/ UNCHANGED vars
  <2>1. UNCHANGED <<pc, ver>>
    BY <1>6 DEF GcStart, GcCollect, GcFree, Environment, Umount, Mount,
                cowfs_versions_destroy, cowfs_versions_init, SetWindow, Tick, SetClock, vars
  <2> QED  BY <1>2, <2>1
<1> QED  BY <1>3, <1>4, <1>5, <1>6 DEF Next

(* list_add gives every entry a position of its own.                       *)
LEMMA PosDistinctNext ==
  ASSUME LogInv, [Next]_vars
  PROVE  PosDistinct'
<1>1. CASE table' = table  BY <1>1 DEF LogInv, PosDistinct
<1>2. CASE GcCollect  BY <1>2 DEF LogInv, PosDistinct, GcCollect
<1>3. CASE cowfs_versions_destroy  BY <1>3 DEF cowfs_versions_destroy, PosDistinct
<1>4. ASSUME NEW t \in Thread, AddBelowLimit(t) \/ AddEvicting(t) PROVE PosDistinct'
  <2>1. /\ TypeOK /\ table \in [Inode -> SUBSET Version] /\ added \in Nat
        /\ \A i \in Inode : \A v \in table[i] : v.pos <= added
    BY DEF LogInv, WindowInv, Bookkeeping, TypeOK, PosBounded
  <2>2. ver[t] \in Version
    BY <1>4, <2>1 DEF AddBelowLimit, AddEvicting, TypeOK, InOperation
  <2>3. PICK i \in Inode : i = ver[t].ino  BY <2>2 DEF Version
  <2>4. PICK e : e = NewEntry(t)  OBVIOUS
  <2>5. e.pos = added + 1  BY <2>1, <2>2, <2>4, EntryVersion
  <2>6. \A j \in Inode : \A v \in table'[j] : v \in table[j] \/ v = e
    BY <1>4, <2>1, <2>3, <2>4 DEF AddBelowLimit, AddEvicting, Evict
  <2>7. \A j \in Inode : \A v \in table[j] : v.pos \in Nat /\ v.pos # added + 1
    BY <2>1 DEF Version
  <2> QED  BY <2>5, <2>6, <2>7 DEF LogInv, PosDistinct
<1> QED  BY <1>1, <1>2, <1>3, <1>4, TableSteps

(* At first there is no log.                                               *)
LEMMA LogInit ==
  ASSUME WindowFits, Init
  PROVE  LogInv
<1>1. WindowInv
  BY BookkeepingInit, SizeAssumption DEF Init, WindowInv, ClockRead, WindowFits, GcIdle
<1>2. Sensed /\ PosDistinct  BY DEF Init, Sensed, PosDistinct
<1> QED  BY <1>1, <1>2, FileInit DEF LogInv

(* Every step preserves what the refinement rests on.                      *)
LEMMA LogNext ==
  ASSUME ClockStep > 0, "settime" \notin Faults, LogInv, [Next]_vars
  PROVE  LogInv'
<1>1. FileInv'  BY FileNext DEF LogInv
<1>2. WindowInv'  BY BookkeepingNext, ClockReadNext DEF LogInv, WindowInv
<1> QED  BY <1>1, <1>2, SensedNext, PosDistinctNext DEF LogInv

-----------------------------------------------------------------------------
(* What the log looks like after a step.                                   *)

(* A snapshot has the position, the stamp and the operation of its version. *)
LEMMA SnapshotFields ==
  ASSUME NEW v
  PROVE  /\ SnapshotOf(v).n = v.pos /\ SnapshotOf(v).ts = v.ts /\ SnapshotOf(v).op = v.op
         /\ SnapshotOf(v).copy = SavedCopy(v)
BY DEF SnapshotOf

(* A log is as long as its list.                                           *)
LEMMA LogLength ==
  ASSUME PosDistinct, NEW i \in Inode, IsFiniteSet(table[i])
  PROVE  Cardinality(TableLog[i]) = Cardinality(table[i])
<1> DEFINE f == [v \in table[i] |-> SnapshotOf(v)]
<1>1. TableLog[i] = {SnapshotOf(v) : v \in table[i]}  BY DEF TableLog
<1>2. \A v, w \in table[i] : SnapshotOf(v) = SnapshotOf(w) => v = w
  BY SnapshotFields DEF PosDistinct
<1>3. f \in Bijection(table[i], TableLog[i])
  BY <1>1, <1>2 DEF Bijection, Injection, Surjection, IsInjective
<1> HIDE DEF f
<1>4. ExistsBijection(table[i], TableLog[i])  BY <1>3 DEF ExistsBijection
<1> QED  BY <1>4, FS_Bijection

(* SnapshotLog counts as CowVersions does.                                 *)
LEMMA SameCount ==
  ASSUME NEW S
  PROVE  Log!Cardinality(S) = Cardinality(S)
BY DEF Log!Cardinality, Cardinality, Log!IsFiniteSet, IsFiniteSet

(* The log is made of the snapshots of the lists, before and after.        *)
LEMMA TableLogSpelled ==
  /\ TableLog = [i \in Inode |-> {SnapshotOf(v) : v \in table[i]}]
  /\ TableLog' = [i \in Inode |-> {SnapshotOf(v)' : v \in table'[i]}]
BY DEF TableLog

(* A version that stays listed keeps its snapshot.                         *)
LEMMA LogSame ==
  ASSUME StampInv, [Next]_vars, NEW i \in Inode, table'[i] \subseteq table[i]
  PROVE  TableLog'[i] = {SnapshotOf(v) : v \in table'[i]}
<1>1. \A v \in table'[i] : SnapshotOf(v)' = SnapshotOf(v)  BY SnapshotsKept
<1>2. {SnapshotOf(v)' : v \in table'[i]} = {SnapshotOf(v) : v \in table'[i]}  BY <1>1
<1> QED  BY <1>2, TableLogSpelled

(* Steps that change no list let time pass or change nothing.              *)
LEMMA OtherStep ==
  ASSUME LogInv, [Next]_vars, table' = table, "settime" \notin Faults
  PROVE  Log!Pass \/ UNCHANGED <<TableLog, now>>
<1>1. TableLog' = TableLog
  <2>1. \A i \in Inode : TableLog'[i] = TableLog[i]
    BY LogSame, TableLogSpelled DEF LogInv, FileInv
  <2> QED  BY <2>1, TableLogSpelled
<1>2. now \in Nat /\ now' \in Nat
  BY BookkeepingNext DEF LogInv, WindowInv, Bookkeeping, TypeOK
<1>3. now <= now'
  <2>1. ASSUME NEW t \in Thread, Prologue(t) PROVE now <= now'
    <3>1. now' = now + ClockStep  BY <2>1, PrologueHolds DEF LogInv, FileInv, StampInv
    <3> QED  BY <1>2, <3>1, SizeAssumption
  <2> QED  BY <2>1, OwnNext DEF LogInv, FileInv, StampInv, Forward
<1> QED  BY <1>1, <1>2, <1>3 DEF Log!Pass

(* Unloading empties the logs.                                             *)
LEMMA DestroyStep ==
  ASSUME cowfs_versions_destroy
  PROVE  Log!Unload
<1>1. table' = [i \in Inode |-> {}] /\ now' = now  BY DEF cowfs_versions_destroy
<1>2. TableLog' = [i \in Inode |-> {}]  BY <1>1, TableLogSpelled
<1> QED  BY <1>1, <1>2 DEF Log!Unload

(* No window is shorter than the shortest.                                 *)
LEMMA Shortest ==
  ASSUME NEW w \in Windows
  PROVE  /\ ShortestWindow \in Nat
         /\ ShortestWindow * NsecPerSec \in Nat
         /\ ShortestWindow * NsecPerSec <= w * NsecPerSec
<1>1. \E m \in Windows : \A x \in Windows : m <= x  BY LeastNatural, SizeAssumption
<1>2. /\ ShortestWindow \in Nat /\ w \in Nat /\ ShortestWindow <= w /\ NsecPerSec \in Nat
  BY <1>1, SizeAssumption DEF ShortestWindow
<1>3. ASSUME NEW a \in Nat, NEW b \in Nat, NEW c \in Nat, a <= b
      PROVE  a * c \in Nat /\ a * c <= b * c
  <2>1. PICK d \in Nat : b = a + d  BY <1>3
  <2>2. b * c = a * c + d * c  BY <2>1
  <2>3. a * c \in Nat /\ d * c \in Nat  OBVIOUS
  <2> QED  BY <2>2, <2>3
<1> QED  BY <1>2, <1>3

(* The collector drops what was older than some moment that is a window    *)
(* ago, from all the logs at once.                                         *)
LEMMA CollectStep ==
  ASSUME LogInv, WindowFits, [Next]_vars, GcCollect, "settime" \notin Faults
  PROVE  Log!Expire
<1>1. /\ ~gcr.idle /\ now' = now /\ \A i \in Inode : table'[i] = table[i] \ Expired(i)
  BY DEF GcCollect
<1>2. PICK c : c = Cutoff  OBVIOUS
<1>3. c = gcr.now - gcr.window * NsecPerSec  BY <1>1, <1>2, CutoffExact DEF LogInv
<1>4. /\ gcr.now \in Nat /\ gcr.window \in Windows /\ now \in Nat /\ gcr.now <= now
      /\ Epoch <= gcr.now /\ Epoch \in Nat
  BY <1>1, SizeAssumption DEF LogInv, WindowInv, ClockRead, Bookkeeping, TypeOK
<1>5. PICK b \in Nat : b = gcr.window * NsecPerSec
  <2>1. gcr.window \in Nat /\ NsecPerSec \in Nat  BY <1>4, SizeAssumption
  <2>2. gcr.window * NsecPerSec \in Nat  BY <2>1
  <2> QED  BY <2>2
<1>6. b <= Epoch  BY <1>4, <1>5 DEF WindowFits
<1>7. c \in 0..now  BY <1>3, <1>4, <1>5, <1>6
<1>8. PICK s \in Nat : s = ShortestWindow * NsecPerSec /\ s <= b  BY <1>4, <1>5, Shortest
<1>9. c + ShortestWindow * NsecPerSec <= now  BY <1>3, <1>4, <1>5, <1>8
<1>10. ASSUME NEW i \in Inode PROVE TableLog'[i] = {r \in TableLog[i] : r.ts >= c}
  <2>1. TableLog'[i] = {SnapshotOf(v) : v \in table'[i]}
    BY <1>1, LogSame DEF LogInv, FileInv
  <2>2. \A v \in table[i] : v.ts \in Nat /\ SnapshotOf(v).ts = v.ts
    BY SnapshotFields DEF LogInv, WindowInv, Bookkeeping, TypeOK, Version
  <2>3. \A v \in table[i] : v \in table'[i] <=> SnapshotOf(v).ts >= c
    BY <1>1, <1>2, <1>7, <2>2 DEF Expired
  <2>4. TableLog[i] = {SnapshotOf(v) : v \in table[i]}  BY TableLogSpelled
  <2> QED  BY <1>1, <2>1, <2>3, <2>4
<1>11. TableLog' = [i \in Inode |-> {r \in TableLog[i] : r.ts >= c}]
  BY <1>10, TableLogSpelled
<1> QED  BY <1>1, <1>7, <1>9, <1>11 DEF Log!Expire

(* The entry that is added is a complete snapshot of something worth it.   *)
LEMMA EntrySnapshot ==
  ASSUME LogInv, NEW t \in Thread, AddBelowLimit(t) \/ AddEvicting(t), NEW e, e = NewEntry(t)
  PROVE  /\ SnapshotOf(e)' \in Log!Snapshot
         /\ SnapshotOf(e)'.n = added + 1
         /\ SnapshotOf(e)'.ts <= now
         /\ Log!Sensible(SnapshotOf(e)')
<1>1. /\ TypeOK /\ pc[t] = "add" /\ UNCHANGED <<shadow, whole>> /\ now \in Nat
      /\ whole \subseteq shadow
  BY DEF AddBelowLimit, AddEvicting, storeVars, LogInv, WindowInv, Bookkeeping, TypeOK
<1>2. ver[t] \in Version /\ t \in Maker  BY <1>1 DEF TypeOK, InOperation, Maker
<1>3. /\ e \in Version /\ e.pos = added + 1  BY <1>1, <1>2, EntryVersion
<1>4. e.ts = ver[t].ts /\ e.op = ver[t].op /\ e.data = ver[t].data /\ Path(e) = Path(ver[t])
  BY <1>2 DEF NewEntry, Version, Path
<1>5. e.ts <= now
  <2>1. PICK x : x = ver[t]  OBVIOUS
  <2>2. x \in Holds(<<"maker", t>>)  BY <1>2, <2>1, HoldsSpelled DEF HoldsEach
  <2>3. x.ts < now  BY <2>2, AreHolders DEF LogInv, FileInv, StampInv, Stamped
  <2> QED  BY <1>1, <1>3, <1>4, <2>1, <2>3 DEF Version
<1>6. e.data => Path(e) \in Intact  BY <1>1, <1>4 DEF LogInv, FileInv, Copied
<1>7. PICK c : c = SavedCopy(e)'  OBVIOUS
<1>8. /\ ~e.data => c = "none"
      /\ e.data => c = "whole" \/ (c = "part" /\ "short" \in Faults)
  BY <1>1, <1>6, <1>7, SavedCopyNext DEF Intact
<1>9. SnapshotOf(e)' = [n |-> e.pos, ts |-> e.ts, op |-> e.op, copy |-> c]
  BY <1>7 DEF SnapshotOf
<1>10. /\ e.op \in {"WRITE", "UNLINK"} => e.data
       /\ e.op = "RENAME" => e.data = FALSE
  BY <1>1, <1>4 DEF LogInv, Sensed
<1>11. e.pos \in Nat /\ e.ts \in Nat /\ e.op \in {"WRITE", "UNLINK", "RENAME", "SETATTR"}
  BY <1>3 DEF Version, Op
<1>12. c \in {"none", "whole"} \cup {d \in {"part"} : "short" \in Faults}  BY <1>8
<1>13. SnapshotOf(e)' \in Log!Snapshot  BY <1>9, <1>11, <1>12 DEF Log!Snapshot
<1>14. Log!Sensible(SnapshotOf(e)')  BY <1>8, <1>9, <1>10 DEF Log!Sensible
<1> QED  BY <1>3, <1>5, <1>9, <1>13, <1>14

(* cowfs_version_add enters a snapshot, in the place of the first one if   *)
(* the list is full.                                                       *)
LEMMA AddStep ==
  ASSUME LogInv, [Next]_vars, NEW t \in Thread, AddBelowLimit(t) \/ AddEvicting(t)
  PROVE  Log!Take
<1>1. /\ TypeOK /\ table \in [Inode -> SUBSET Version] /\ now' = now /\ added \in Nat
      /\ \A j \in Inode : \A v \in table[j] : v.pos \in Nat /\ v.pos <= added
  BY DEF AddBelowLimit, AddEvicting, LogInv, WindowInv, Bookkeeping, TypeOK, PosBounded, Version
<1>2. ver[t] \in Version
  BY <1>1 DEF AddBelowLimit, AddEvicting, TypeOK, InOperation
<1>3. PICK i \in Inode : i = ver[t].ino  BY <1>2 DEF Version
<1>4. PICK e : e = NewEntry(t)  OBVIOUS
<1>5. PICK s : s = SnapshotOf(e)'  OBVIOUS
<1>6. s \in Log!Snapshot /\ s.n = added + 1 /\ s.ts <= now /\ Log!Sensible(s)
  BY <1>4, <1>5, EntrySnapshot
<1>7. \A j \in Inode : \A r \in TableLog[j] : \E v \in table[j] : r = SnapshotOf(v) /\ r.n = v.pos
  BY TableLogSpelled, SnapshotFields
<1>8. Log!Newest(i, s)  BY <1>1, <1>6, <1>7 DEF Log!Newest
<1>9. s \notin TableLog[i]  BY <1>1, <1>6, <1>7
<1>10. /\ IsFiniteSet(table[i]) /\ count[i] = Cardinality(table[i]) /\ count[i] \in Int
       /\ count[i] <= MaxVersions /\ Cardinality(TableLog[i]) = count[i]
  BY LogLength DEF LogInv, WindowInv, Bookkeeping, CountExact, TypeOK
<1>11. \A j \in Inode \ {i} : TableLog'[j] = TableLog[j]
  <2>1. \A j \in Inode \ {i} : table'[j] = table[j]
    BY <1>1, <1>3 DEF AddBelowLimit, AddEvicting
  <2> QED  BY <2>1, LogSame, TableLogSpelled DEF LogInv, FileInv
<1>12. \A v \in table[i] : SnapshotOf(v)' = SnapshotOf(v)
  BY SnapshotsKept DEF LogInv, FileInv
<1>13. ASSUME AddBelowLimit(t)
       PROVE  Log!Enter(i, s) /\ s \in TableLog'[i]
  <2>1. table'[i] = table[i] \cup {e} /\ ~(count[i] >= MaxVersions)
    BY <1>1, <1>3, <1>4, <1>13 DEF AddBelowLimit, Full
  <2>2. TableLog'[i] = TableLog[i] \cup {s}
    BY <1>5, <1>12, <2>1, TableLogSpelled
  <2>3. TableLog' = [TableLog EXCEPT ![i] = TableLog[i] \cup {s}]
    BY <1>11, <2>2, TableLogSpelled
  <2>4. Cardinality(TableLog[i]) < MaxVersions  BY <1>10, <2>1, SizeAssumption
  <2> QED  BY <2>2, <2>3, <2>4, SameCount DEF Log!Enter
<1>14. ASSUME AddEvicting(t)
       PROVE  Log!Replace(i, s) /\ s \in TableLog'[i]
  <2>1. table'[i] = Evict(i) \cup {e} /\ count[i] >= MaxVersions
    BY <1>1, <1>3, <1>4, <1>14 DEF AddEvicting, Full
  <2>2. Cardinality(TableLog[i]) = MaxVersions /\ Cardinality(table[i]) # 0
    BY <1>10, <2>1, SizeAssumption
  <2>3. table[i] # {} /\ table[i] \in SUBSET Version  BY <1>1, <2>2, FS_EmptySet
  <2>4. PICK o \in table[i] : o = Oldest(i) /\ \A w \in table[i] : o.pos <= w.pos
    BY <2>3, ListTailIn DEF Oldest
  <2>5. table'[i] = (table[i] \ {o}) \cup {e}  BY <2>1, <2>4 DEF Evict
  <2>6. PICK r : r = SnapshotOf(o)  OBVIOUS
  <2>7. \A v \in table[i] : SnapshotOf(v) = r <=> v = o
    BY <2>6, SnapshotFields DEF LogInv, PosDistinct
  <2>8. TableLog'[i] = (TableLog[i] \ {r}) \cup {s}
    BY <1>5, <1>12, <2>5, <2>7, TableLogSpelled
  <2>9. r \in TableLog[i] /\ \A q \in TableLog[i] : r.n <= q.n
    BY <1>7, <2>4, <2>6, SnapshotFields, TableLogSpelled
  <2>10. TableLog' = [TableLog EXCEPT ![i] = (TableLog[i] \ {r}) \cup {s}]
    BY <1>11, <2>8, TableLogSpelled
  <2> QED  BY <2>2, <2>8, <2>9, <2>10, SameCount DEF Log!Replace
<1>15. (Log!Enter(i, s) \/ Log!Replace(i, s)) /\ s \in TableLog'[i] \ TableLog[i]
  BY <1>9, <1>13, <1>14
<1> QED  BY <1>1, <1>6, <1>8, <1>15 DEF Log!Take

-----------------------------------------------------------------------------

(* Every step of the table is a step of the log or leaves it as it is.     *)
LEMMA LogStep ==
  ASSUME "settime" \notin Faults, WindowFits, LogInv, [Next]_vars
  PROVE  [Log!Next]_<<TableLog, now>>
<1>1. CASE table' = table  BY <1>1, OtherStep DEF Log!Next
<1>2. CASE GcCollect  BY <1>2, CollectStep DEF Log!Next
<1>3. CASE cowfs_versions_destroy  BY <1>3, DestroyStep DEF Log!Next
<1>4. ASSUME NEW t \in Thread, AddBelowLimit(t) \/ AddEvicting(t) PROVE Log!Next
  BY <1>4, AddStep DEF Log!Next
<1> QED  BY <1>1, <1>2, <1>3, <1>4, TableSteps

(* The version table implements a log of snapshots: concurrent copies,     *)
(* evictions and collections, files that are created before and removed    *)
(* after the list is changed, failures, unmounting and reloading cannot be *)
(* told from one step that enters, replaces or drops complete snapshots    *)
(* (cowfs_version_add, _gc, _destroy; cowfs_shadow_copy_file, _remove).    *)
(* The clock must move between two reads and never be set, and the window  *)
(* must not reach back past its epoch.                                     *)
THEOREM LogImplemented ==
  ASSUME ClockStep > 0, "settime" \notin Faults, WindowFits
  PROVE  Spec => ImplementsLog
<1>1. Init => LogInv  BY LogInit
<1>2. LogInv /\ [Next]_vars => LogInv'  BY LogNext
<1>3. Init => Log!Init
  <2> SUFFICES ASSUME Init PROVE Log!Init  OBVIOUS
  <2>1. now \in Nat /\ table = [i \in Inode |-> {}]  BY SizeAssumption DEF Init
  <2>2. TableLog = [i \in Inode |-> {}]  BY <2>1, TableLogSpelled
  <2> QED  BY <2>1, <2>2 DEF Log!Init
<1>4. LogInv /\ [Next]_vars => [Log!Next]_(Log!logVars)
  BY LogStep DEF Log!logVars
<1> QED  BY <1>1, <1>2, <1>3, <1>4, PTL DEF Spec, ImplementsLog, Log!Spec
=============================================================================
