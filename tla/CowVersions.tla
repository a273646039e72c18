---------------------------- MODULE CowVersions ----------------------------
(***************************************************************************)
(* The version table of cowfs (kernel/cowfs_versions.c) with the shadow    *)
(* files its versions own (kernel/cowfs_shadow.c), driven by               *)
(*   - threads in the copy-on-write prologue of an intercepted operation   *)
(*     (cowfs_write, cowfs_unlink, cowfs_rename, cowfs_setattr),           *)
(*   - threads in an ioctl, which hold pointers into the table,            *)
(*   - the garbage collector's work item, and                              *)
(*   - mounting, unmounting, loading and unloading.                        *)
(* A section of code under versions_lock is one step.  Everything that the *)
(* code does after it has dropped the lock is a later step.                *)
(*                                                                         *)
(* list_add() only ever inserts at the head, so an inode's list is a set   *)
(* of versions ordered by the moment they were added: the field pos.       *)
(***************************************************************************)
EXTENDS Integers, FiniteSets

CONSTANTS
  Inode,        \* lower inode numbers
  Thread,       \* kernel contexts that run operations and ioctls
  Name,         \* file names
  MaxVersions,  \* COWFS_MAX_VERSIONS
  ListMax,      \* min(max_count, COWFS_IOC_MAX_VERSIONS)
  Windows,      \* the values window_seconds is given
  NsecPerSec,   \* NSEC_PER_SEC
  Word,         \* 2^64
  Epoch,        \* the time at which the behaviour starts
  ClockStep,    \* by how much the clock moves between two reads of it
  Faults,       \* the failures of the lower file system that may happen
  MaxTime,      \* bound on the clock
  MaxOps,       \* bound on the number of versions allocated
  NoVersion     \* the NULL pointer

ASSUME SizeAssumption ==
  /\ MaxVersions \in Nat \ {0}
  /\ ListMax \in Nat
  /\ NsecPerSec \in Nat
  /\ Word \in Nat \ {0}
  /\ Windows \subseteq Nat
  /\ Epoch \in Nat
  /\ ClockStep \in Nat
  /\ MaxTime \in Nat
  /\ MaxOps \in Nat

(* A copy that fails or is cut short, no memory, a shadow file that cannot *)
(* be removed, an unmount, and a wall clock that is set.                   *)
FaultKinds == {"copy", "short", "nomem", "remove", "umount", "settime"}

ASSUME FaultAssumption == Faults \subseteq FaultKinds

Op == {"WRITE", "UNLINK", "RENAME", "SETATTR"}

NoName == ""

Version == [id : Nat, ino : Inode, ts : Nat, op : Op,
            name : Name \cup {NoName}, data : BOOLEAN, pos : Nat]

ASSUME NullAssumption == NoVersion \notin Version

(* The shadow file of a version, <ino>_<timestamp>.                        *)
Path_Seconds(v) == <<v.ino, v.ts \div 2>>
Path(v) == <<v.ino, v.ts>>

VARIABLES
  now,      \* ktime_get_real_ns()
  window,   \* cowfs_window_seconds
  phase,    \* of the module: unloaded, loaded or mounted
  infos,    \* the inodes that have a cow_inode_info
  table,    \* their lists
  count,    \* their version_count
  shadow,   \* the files in .cowfs_shadow
  whole,    \* those that hold everything the copied file held
  live,     \* the cow_version objects that are allocated
  added,    \* how many versions have been added to a list
  allocs,   \* how many versions have been allocated
  pc,       \* where each thread is
  ver,      \* the version a thread is making
  victim,   \* the version a thread has evicted and not yet freed
  held,     \* the versions an ioctl has pointers to
  gcr,      \* the clock and the window the collector has read
  gcq       \* the collector's list of versions to free

storeVars == <<shadow, whole>>
listVars  == <<infos, table, count, added>>
gcVars    == <<gcr, gcq>>
vars == <<now, window, phase, infos, table, count, shadow, whole, live, added,
          allocs, pc, ver, victim, held, gcr, gcq>>

-----------------------------------------------------------------------------

PC == {"idle", "open", "copy", "add", "free", "use"}
InOperation == {"open", "copy", "add", "free"}

TypeOK ==
  /\ now \in Nat
  /\ window \in Windows
  /\ phase \in {"unloaded", "loaded", "mounted"}
  /\ infos \subseteq Inode
  /\ table \in [Inode -> SUBSET Version]
  /\ count \in [Inode -> Int]
  /\ shadow \subseteq Inode \X Nat
  /\ whole \subseteq shadow
  /\ live \subseteq Nat
  /\ added \in Nat
  /\ allocs \in Nat
  /\ pc \in [Thread -> PC]
  /\ ver \in [Thread -> Version \cup {NoVersion}]
  /\ victim \in [Thread -> Version \cup {NoVersion}]
  /\ held \in [Thread -> SUBSET Version]
  /\ gcr \in [idle : BOOLEAN, now : Nat, window : Nat]
  /\ gcq \subseteq Version
  /\ \A t \in Thread : /\ pc[t] \in InOperation => ver[t] \in Version
                       /\ pc[t] = "free" => victim[t] \in Version

GcIdle == [idle |-> TRUE, now |-> 0, window |-> 0]

(* versions_init: an empty table.  The behaviour starts with the module    *)
(* loaded and an empty shadow directory under a fresh mount.               *)
Init ==
  /\ now = Epoch
  /\ window \in Windows
  /\ phase = "mounted"
  /\ infos = {}
  /\ table = [i \in Inode |-> {}]
  /\ count = [i \in Inode |-> 0]
  /\ shadow = {}
  /\ whole = {}
  /\ live = {}
  /\ added = 0
  /\ allocs = 0
  /\ pc = [t \in Thread |-> "idle"]
  /\ ver = [t \in Thread |-> NoVersion]
  /\ victim = [t \in Thread |-> NoVersion]
  /\ held = [t \in Thread |-> {}]
  /\ gcr = GcIdle
  /\ gcq = {}

-----------------------------------------------------------------------------
(* The order of a list: the head was added last.                           *)

ListHead(S) == CHOOSE v \in S : \A w \in S : w.pos <= v.pos
ListTail(S) == CHOOSE v \in S : \A w \in S : v.pos <= w.pos

(* list_for_each_entry until max_count pointers have been taken.           *)
FirstOf(S, n) == {v \in S : Cardinality({w \in S : w.pos > v.pos}) < n}

-----------------------------------------------------------------------------
(* The copy-on-write prologue of the intercepted operations.               *)

(* VFS holds the upper inode's lock around unlink, rename and setattr; a   *)
(* write takes no such lock.                                               *)
VfsLockFree(i) ==
  \A u \in Thread : pc[u] \in InOperation /\ ver[u].op # "WRITE" => ver[u].ino # i

(* cowfs_version_alloc stamps the version with the clock; its caller fills *)
(* in the rest.                                                            *)
cowfs_version_alloc(op, i, n) ==
  [id |-> allocs + 1, ino |-> i, ts |-> now, op |-> op, name |-> n,
   data |-> FALSE, pos |-> 0]

(* (When the allocation fails the operation goes ahead without a version   *)
(* and nothing modelled here changes.)                                     *)
Alloc(t, op, i, n, next) ==
  /\ phase = "mounted"
  /\ pc[t] = "idle"
  /\ allocs < MaxOps
  /\ now + ClockStep <= MaxTime
  /\ now' = now + ClockStep
  /\ allocs' = allocs + 1
  /\ live' = live \cup {allocs + 1}
  /\ ver' = [ver EXCEPT ![t] = cowfs_version_alloc(op, i, n)]
  /\ pc' = [pc EXCEPT ![t] = next]
  /\ UNCHANGED <<window, phase, listVars, storeVars, victim, held, gcVars>>

cowfs_write(t, i) == Alloc(t, "WRITE", i, NoName, "open")

cowfs_unlink(t, i, n) == VfsLockFree(i) /\ Alloc(t, "UNLINK", i, n, "open")

(* A rename saves no content.  Its orig_name is not read by this module.   *)
cowfs_rename(t, i) == VfsLockFree(i) /\ Alloc(t, "RENAME", i, NoName, "add")

(* Only a truncation (ATTR_SIZE) copies the content.                       *)
cowfs_setattr(t, i, size) ==
  VfsLockFree(i) /\ Alloc(t, "SETATTR", i, NoName, IF size THEN "open" ELSE "add")

(* The operation's copy has failed.  Write and unlink free their version,  *)
(* whose has_data is still false, so that no file is removed; setattr adds *)
(* it without data.                                                        *)
CopyFailed(t) ==
  \/ /\ ver[t].op = "SETATTR"
     /\ pc' = [pc EXCEPT ![t] = "add"]
     /\ UNCHANGED <<live, ver>>
  \/ /\ ver[t].op # "SETATTR"
     /\ live' = live \ {ver[t].id}
     /\ pc' = [pc EXCEPT ![t] = "idle"]
     /\ ver' = [ver EXCEPT ![t] = NoVersion]

(* cowfs_shadow_copy_file up to its loop: filp_open with O_CREAT | O_TRUNC. *)
CopyOpen_NoCreate(t) ==
  /\ pc[t] = "open"
  /\ pc' = [pc EXCEPT ![t] = "copy"]
  /\ UNCHANGED <<now, window, phase, listVars, storeVars, live, allocs, ver, victim,
                 held, gcVars>>

CopyOpen(t) ==
  /\ pc[t] = "open"
  /\ shadow' = shadow \cup {Path(ver[t])}
  /\ whole' = whole \ {Path(ver[t])}
  /\ pc' = [pc EXCEPT ![t] = "copy"]
  /\ UNCHANGED <<now, window, phase, listVars, live, allocs, ver, victim, held, gcVars>>

(* Credentials, source or destination cannot be had: no file is created.   *)
CopyOpenFails(t) ==
  /\ "copy" \in Faults
  /\ pc[t] = "open"
  /\ CopyFailed(t)
  /\ UNCHANGED <<now, window, phase, listVars, storeVars, allocs, victim, held, gcVars>>

(* The loop ends at the end of the source; has_data is set.  (The file is  *)
(* open: should its name have been removed meanwhile, the copy is lost.)   *)
CopyDone(t) ==
  /\ pc[t] = "copy"
  /\ whole' = whole \cup ({Path(ver[t])} \cap shadow)
  /\ ver' = [ver EXCEPT ![t].data = TRUE]
  /\ pc' = [pc EXCEPT ![t] = "add"]
  /\ UNCHANGED <<now, window, phase, listVars, shadow, live, allocs, victim, held, gcVars>>

(* kernel_write wrote fewer bytes of the last block than it was given: the *)
(* loop only tests for a negative result and reports success.              *)
CopyShort(t) ==
  /\ "short" \in Faults
  /\ pc[t] = "copy"
  /\ ver' = [ver EXCEPT ![t].data = TRUE]
  /\ pc' = [pc EXCEPT ![t] = "add"]
  /\ UNCHANGED <<now, window, phase, listVars, storeVars, live, allocs, victim, held, gcVars>>

(* No buffer, or a read or write error: what was copied stays behind.      *)
CopyAborts(t) ==
  /\ "copy" \in Faults
  /\ pc[t] = "copy"
  /\ CopyFailed(t)
  /\ UNCHANGED <<now, window, phase, listVars, storeVars, allocs, victim, held, gcVars>>

-----------------------------------------------------------------------------
(* cowfs_version_add and cowfs_version_free.                               *)

NewEntry(t) == [ver[t] EXCEPT !.pos = added + 1]

Full_OffByOne(i) == count[i] > MaxVersions
Full_TooEarly(i) == count[i] + 1 >= MaxVersions
Full(i) == count[i] >= MaxVersions

(* list_last_entry; of an empty list it would be a pointer to no version.  *)
Oldest_Newest(i) == ListHead(table[i])
Oldest(i) == IF table[i] = {} THEN NoVersion ELSE ListTail(table[i])

(* list_del of the oldest entry.                                           *)
Evict_Forgotten(i) == table[i]
Evict(i) == table[i] \ {Oldest(i)}

AddBelowLimit(t) ==
  LET i == ver[t].ino IN
  /\ pc[t] = "add"
  /\ ~Full(i)
  /\ infos' = infos \cup {i}
  /\ table' = [table EXCEPT ![i] = @ \cup {NewEntry(t)}]
  /\ count' = [count EXCEPT ![i] = @ + 1]
  /\ added' = added + 1
  /\ pc' = [pc EXCEPT ![t] = "idle"]
  /\ ver' = [ver EXCEPT ![t] = NoVersion]
  /\ UNCHANGED <<now, window, phase, storeVars, live, allocs, victim, held, gcVars>>

(* The last entry leaves the list under the lock and is freed after it.    *)
AddEvicting(t) ==
  LET i == ver[t].ino IN
  /\ pc[t] = "add"
  /\ Full(i)
  /\ infos' = infos \cup {i}
  /\ victim' = [victim EXCEPT ![t] = Oldest(i)]
  /\ table' = [table EXCEPT ![i] = Evict(i) \cup {NewEntry(t)}]
  /\ count' = [count EXCEPT ![i] = (@ - 1) + 1]
  /\ added' = added + 1
  /\ pc' = [pc EXCEPT ![t] = "free"]
  /\ UNCHANGED <<now, window, phase, storeVars, live, allocs, ver, held, gcVars>>

(* No memory for a new cow_inode_info.  No caller looks at the -ENOMEM, so *)
(* the version stays allocated and its shadow file stays where it is.      *)
AddNoMemory(t) ==
  /\ "nomem" \in Faults
  /\ pc[t] = "add"
  /\ ver[t].ino \notin infos
  /\ pc' = [pc EXCEPT ![t] = "idle"]
  /\ ver' = [ver EXCEPT ![t] = NoVersion]
  /\ UNCHANGED <<now, window, phase, listVars, storeVars, live, allocs, victim, held, gcVars>>

(* cowfs_shadow_remove does nothing when nothing is mounted, and only      *)
(* warns when the unlink fails.                                            *)
RemoveShadow_Never(v) == UNCHANGED storeVars
RemoveShadow(v) ==
  \/ /\ phase = "mounted"
     /\ shadow' = shadow \ {Path(v)}
     /\ whole' = whole \ {Path(v)}
  \/ /\ phase # "mounted" \/ "remove" \in Faults
     /\ UNCHANGED storeVars

cowfs_version_free(v) ==
  /\ live' = live \ {v.id}
  /\ \/ v.data /\ RemoveShadow(v)
     \/ ~v.data /\ UNCHANGED storeVars

FreeVictim(t) ==
  /\ pc[t] = "free"
  /\ cowfs_version_free(victim[t])
  /\ pc' = [pc EXCEPT ![t] = "idle"]
  /\ ver' = [ver EXCEPT ![t] = NoVersion]
  /\ victim' = [victim EXCEPT ![t] = NoVersion]
  /\ UNCHANGED <<now, window, phase, listVars, allocs, held, gcVars>>

-----------------------------------------------------------------------------
(* The lookups of the ioctls.  They return pointers without a reference,   *)
(* which the caller uses after the lock has been dropped.                  *)

Hold(t, S) ==
  /\ phase = "mounted"
  /\ pc[t] = "idle"
  /\ S # {}
  /\ held' = [held EXCEPT ![t] = S]
  /\ pc' = [pc EXCEPT ![t] = "use"]
  /\ UNCHANGED <<now, window, phase, listVars, storeVars, live, allocs, ver, victim, gcVars>>

cowfs_version_list(t, i) == Hold(t, FirstOf(table[i], ListMax))

(* The first entry that matches; a timestamp of 0 matches every entry.     *)
cowfs_version_find(t, i, ts) ==
  LET S == {v \in table[i] : ts = 0 \/ v.ts = ts} IN
  /\ S # {}
  /\ Hold(t, {ListHead(S)})

Deleted(n, ts) ==
  {v \in UNION {table[i] : i \in Inode} :
     v.op = "UNLINK" /\ v.name = n /\ (ts = 0 \/ v.ts = ts)}

(* The greatest timestamp wins; between equal ones, the bucket order.      *)
LatestDeleted(n, ts) ==
  {v \in Deleted(n, ts) : \A w \in Deleted(n, ts) : w.ts <= v.ts}

cowfs_version_find_deleted(t, n, ts) ==
  \E v \in LatestDeleted(n, ts) : Hold(t, {v})

(* The ioctl has finished with the versions it was given.                  *)
Release(t) ==
  /\ pc[t] = "use"
  /\ held' = [held EXCEPT ![t] = {}]
  /\ pc' = [pc EXCEPT ![t] = "idle"]
  /\ UNCHANGED <<now, window, phase, listVars, storeVars, live, allocs, ver, victim, gcVars>>

-----------------------------------------------------------------------------
(* The garbage collector.                                                  *)

(* cowfs_version_gc reads the clock and the parameter before it takes the  *)
(* lock; the work item never runs twice at a time.                         *)
GcStart ==
  /\ phase # "unloaded"
  /\ gcr.idle
  /\ gcq = {}
  /\ gcr' = [idle |-> FALSE, now |-> now, window |-> window]
  /\ UNCHANGED <<now, window, phase, listVars, storeVars, live, allocs, pc, ver,
                 victim, held, gcq>>

(* Unsigned arithmetic: the product and the difference wrap.               *)
Cutoff == (gcr.now - ((gcr.window * NsecPerSec) % Word)) % Word

Expired_Inclusive(i) == {v \in table[i] : v.ts <= Cutoff}
Expired(i) == {v \in table[i] : v.ts < Cutoff}

CountAfterGc_Forgotten(i) == count[i]
CountAfterGc(i) == count[i] - Cardinality(Expired(i))

(* Under the lock: expired versions move from their lists to freed.        *)
GcCollect ==
  /\ ~gcr.idle
  /\ gcr' = GcIdle
  /\ gcq' = UNION {Expired(i) : i \in Inode}
  /\ table' = [i \in Inode |-> table[i] \ Expired(i)]
  /\ count' = [i \in Inode |-> CountAfterGc(i)]
  /\ UNCHANGED <<now, window, phase, infos, storeVars, live, added, allocs, pc,
                 ver, victim, held>>

(* ... and after it: each of them is freed.                                *)
GcFree ==
  \E v \in gcq :
    /\ cowfs_version_free(v)
    /\ gcq' = gcq \ {v}
    /\ UNCHANGED <<now, window, phase, listVars, allocs, pc, ver, victim, held, gcr>>

-----------------------------------------------------------------------------
(* Mounting, unloading, the clock and the module parameter.                *)

NoOperation == \A t \in Thread : pc[t] \notin InOperation

(* put_super and cowfs_shadow_cleanup: the table and the files are kept.   *)
Umount ==
  /\ "umount" \in Faults
  /\ phase = "mounted"
  /\ NoOperation
  /\ phase' = "loaded"
  /\ UNCHANGED <<now, window, listVars, storeVars, live, allocs, pc, ver, victim, held, gcVars>>

Mount ==
  /\ phase = "loaded"
  /\ phase' = "mounted"
  /\ UNCHANGED <<now, window, listVars, storeVars, live, allocs, pc, ver, victim, held, gcVars>>

(* cowfs_exit: cancel_delayed_work_sync waits for the collector, gc_all    *)
(* frees every version and every cow_inode_info.  Nothing is mounted, so   *)
(* that cowfs_shadow_remove leaves every file where it is.                 *)
cowfs_versions_destroy ==
  /\ phase = "loaded"
  /\ gcr.idle
  /\ gcq = {}
  /\ \A t \in Thread : pc[t] = "idle"
  /\ phase' = "unloaded"
  /\ infos' = {}
  /\ table' = [i \in Inode |-> {}]
  /\ count' = [i \in Inode |-> 0]
  /\ live' = live \ {v.id : v \in UNION {table[i] : i \in Inode}}
  /\ UNCHANGED <<now, window, storeVars, added, allocs, pc, ver, victim, held, gcVars>>

cowfs_versions_init ==
  /\ phase = "unloaded"
  /\ phase' = "loaded"
  /\ window' \in Windows
  /\ UNCHANGED <<now, listVars, storeVars, live, allocs, pc, ver, victim, held, gcVars>>

(* Writing to /sys/module/cowfs/parameters/window_seconds.                 *)
SetWindow(w) ==
  /\ phase # "unloaded"
  /\ window' = w
  /\ UNCHANGED <<now, phase, listVars, storeVars, live, allocs, pc, ver, victim, held, gcVars>>

Tick ==
  /\ now < MaxTime
  /\ now' = now + 1
  /\ UNCHANGED <<window, phase, listVars, storeVars, live, allocs, pc, ver, victim, held, gcVars>>

(* ktime_get_real_ns is the wall clock, which may be set to another time,  *)
(* an earlier one included, but never to one before Epoch.                 *)
SetClock(n) ==
  /\ "settime" \in Faults
  /\ now' = n
  /\ UNCHANGED <<window, phase, listVars, storeVars, live, allocs, pc, ver, victim, held, gcVars>>

-----------------------------------------------------------------------------

Prologue(t) ==
  \/ \E i \in Inode : cowfs_write(t, i)
  \/ \E i \in Inode, n \in Name : cowfs_unlink(t, i, n)
  \/ \E i \in Inode : cowfs_rename(t, i)
  \/ \E i \in Inode, size \in BOOLEAN : cowfs_setattr(t, i, size)

Lookup(t) ==
  \/ \E i \in Inode : cowfs_version_list(t, i)
  \/ \E i \in Inode, ts \in {0} \cup Epoch..MaxTime : cowfs_version_find(t, i, ts)
  \/ \E n \in Name, ts \in {0} \cup Epoch..MaxTime : cowfs_version_find_deleted(t, n, ts)

Step(t) ==
  \/ CopyOpen(t)
  \/ CopyOpenFails(t)
  \/ CopyDone(t)
  \/ CopyShort(t)
  \/ CopyAborts(t)
  \/ AddBelowLimit(t)
  \/ AddEvicting(t)
  \/ AddNoMemory(t)
  \/ FreeVictim(t)
  \/ Release(t)

Environment ==
  \/ Umount
  \/ Mount
  \/ cowfs_versions_destroy
  \/ cowfs_versions_init
  \/ \E w \in Windows : SetWindow(w)
  \/ Tick
  \/ \E n \in Epoch..MaxTime : SetClock(n)

Next ==
  \/ \E t \in Thread : Prologue(t) \/ Lookup(t) \/ Step(t)
  \/ GcStart
  \/ GcCollect
  \/ GcFree
  \/ Environment

Spec == Init /\ [][Next]_vars

(* The work item re-arms itself after every run and the kernel schedules   *)
(* a thread that can run; nobody is obliged to start an operation.         *)
Fairness ==
  /\ WF_vars(GcStart)
  /\ WF_vars(GcCollect)
  /\ WF_vars(GcFree)
  /\ \A t \in Thread : WF_vars(Step(t))

FairSpec == Spec /\ Fairness

-----------------------------------------------------------------------------
(* Properties.                                                             *)

Listed == UNION {table[i] : i \in Inode}
Making == {ver[t] : t \in {u \in Thread : pc[u] \in {"open", "copy", "add"}}}
Evicted == {victim[t] : t \in {u \in Thread : pc[u] = "free"}}
Owned == Listed \cup Making \cup Evicted \cup gcq

(* cowfs_version_add and cowfs_version_gc keep version_count equal to the  *)
(* length of the list, and the list never grows past COWFS_MAX_VERSIONS.   *)
CountExact ==
  \A i \in Inode : /\ IsFiniteSet(table[i])
                   /\ count[i] = Cardinality(table[i])
                   /\ count[i] <= MaxVersions

(* Every object is freed at most once: what is in a list, in the hands of  *)
(* an operation, evicted or collected is allocated, and two of them are    *)
(* never the same object (cowfs_version_add, _gc, _free).                  *)
OwnedOnce ==
  /\ \A v \in Owned : v.id \in live
  /\ \A v, w \in Owned : v.id = w.id => v = w
  /\ \A v \in Listed : v \notin Making \cup Evicted \cup gcq
  /\ \A v \in gcq : v \notin Making \cup Evicted
  /\ \A t, u \in Thread :
       /\ pc[t] \in {"open", "copy", "add"} /\ pc[u] \in {"open", "copy", "add"}
            /\ ver[t] = ver[u] => t = u
       /\ pc[t] = "free" /\ pc[u] = "free" /\ victim[t] = victim[u] => t = u

(* What a rollback relies on: as long as a version that has data is in a   *)
(* list, its shadow file exists and holds the whole content, whatever the  *)
(* other operations, the evictions and the collector do meanwhile.         *)
Restorable == \A v \in Listed : v.data => Path(v) \in whole

(* ... and even if a copy was cut short, its file is still there: no       *)
(* eviction, collection or other copy removes it (cowfs_version_free).  It *)
(* takes a wall clock that is never set.                                   *)
HasFile == \A v \in Listed : v.data => Path(v) \in shadow

(* When the clock is set back, a listed version can lose its file to       *)
(* nothing but the eviction or the collection of another version of its    *)
(* inode that was given the same stamp (cowfs_version_alloc, _free).       *)
FileKept ==
  [][\A v \in Listed \cap Listed' :
       Path(v) \in shadow \ shadow' =>
         \E w \in Evicted \cup gcq : w.id # v.id /\ Path(w) = Path(v)]_vars

(* Every file in .cowfs_shadow belongs to a version that somebody will     *)
(* free (cowfs_version_free, cowfs_shadow_remove).                         *)
NoOrphan == \A p \in shadow : \E v \in Owned : Path(v) = p

(* An ioctl's pointers stay valid while it uses them, whatever is evicted  *)
(* or collected meanwhile (cowfs_version_list, _find, _find_deleted).      *)
HeldLive == \A t \in Thread : \A v \in held[t] : v.id \in live

(* A version leaves its list only because it was older than the window     *)
(* when the collector read the clock, or because its list was full and it  *)
(* was the first added of it, or because the module is unloaded            *)
(* (cowfs_version_add, _gc, _destroy).                                     *)
WindowKept ==
  [][\A i \in Inode : \A v \in table[i] \ table'[i] :
       \/ v.ts + gcr.window * NsecPerSec < gcr.now
       \/ /\ Cardinality(table[i]) = MaxVersions
          /\ table'[i] \ table[i] # {}
          /\ \A w \in table[i] : v.pos <= w.pos
       \/ phase' = "unloaded"]_vars

(* Once a version with data has outlived the window, its shadow file is    *)
(* eventually gone (gc_worker).                                            *)
ExpiredRemoved ==
  \A i \in Inode, s \in Epoch..MaxTime :
    (\E v \in table[i] : v.data /\ v.ts = s /\ v.ts + window * NsecPerSec < now)
      ~> <<i, s>> \notin shadow

-----------------------------------------------------------------------------
(* The table as a log of snapshots.                                        *)

(* What a rollback finds when it reads the shadow file of v.               *)
SavedCopy(v) ==
  CASE ~v.data                                -> "none"
    [] v.data /\ Path(v) \in whole            -> "whole"
    [] v.data /\ Path(v) \in shadow \ whole   -> "part"
    [] OTHER                                  -> "lost"

SnapshotOf(v) == [n |-> v.pos, ts |-> v.ts, op |-> v.op, copy |-> SavedCopy(v)]

ShortestWindow == CHOOSE w \in Windows : \A x \in Windows : w <= x

TableLog == [i \in Inode |-> {SnapshotOf(v) : v \in table[i]}]

Log == INSTANCE SnapshotLog WITH
  log    <- TableLog,
  clock  <- now,
  Limit  <- MaxVersions,
  Window <- ShortestWindow * NsecPerSec,
  Copy   <- {"none", "whole"} \cup {c \in {"part"} : "short" \in Faults}

(* Concurrent copies, evictions and collections, files that are created    *)
(* before and removed after the list is changed, failures, unmounting and  *)
(* reloading all together look like a log of complete snapshots that never *)
(* change (cowfs_version_add, _gc, _destroy; cowfs_shadow_copy_file and    *)
(* _remove).  Only a short write makes an incomplete one.                  *)
ImplementsLog == Log!Spec

=============================================================================
