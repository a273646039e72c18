# A TLA+ model of cowfs

cowfs is a stacking file system for the Linux kernel.  It is mounted over a
directory, intercepts write, unlink, rename and setattr, saves what they are
about to destroy, and rolls operations back on request.  This directory holds
TLA+ modules that model it, the TLC configurations that check them, and proofs
for TLAPS.  Definitions have the names of the functions they model;
`PROJECT.json` ("map") gives the lines.

    tlc -workers 2 -config versions_safe.cfg MCCowVersions
    tlapm CowNamespaceProofs.tla

## The system

| Part | State | Operations | Works with |
|---|---|---|---|
| Version table, `cowfs_versions.c` | a global hash table: per lower inode number a list of versions, newest first, and its length; `versions_lock` | alloc, add (evicts the oldest of 64), list, find, find_deleted, free, gc, gc_all | called by the intercepted operations, the ioctls and its own work item |
| Shadow store, `cowfs_shadow.c` | `.cowfs_shadow/<ino>_<timestamp>`, one global reference to that directory | copy, restore, remove, init at mount, cleanup at umount | copies for the operations, restores for the ioctl, removes for the table |
| Inode operations, `cowfs_inode.c` | upper inodes, keyed by lower inode number | lookup, create, unlink, rename, setattr, mkdir, rmdir, symlink, link | save a version, then call the lower file system |
| File operations, `cowfs_file.c` | per open file: the lower file, `snapshot_taken` | open, read, write, llseek, fsync, mmap, release | the first write of an open saves a version |
| Dentries and directories, `cowfs_dir.c` | per dentry: the lower dentry and mount | iterate, d_release | filled in by lookup |
| Control device, `cowfs_ctl.c` | none | LIST, ROLLBACK | uses pointers into the table; changes the lower tree and the upper dentry cache |
| Superblock, `cowfs_super.c` | lower mount and root | fill_super, put_super | shadow init and cleanup |
| Module, `cowfs_main.c` | `window_seconds`, `gc_interval` | init, exit | table, device |
| `cowctl` | none | list, rollback | the two ioctls |

What is hard here:

* **Concurrency.** Operations, ioctls and the collector share the table.  The
  lock is dropped before anything that sleeps: an evicted or collected version
  is freed, and a version that was looked up is used, without it.
* **Two orders.** A version is stamped before the copy and added after it.
* **Two trees.** Every change goes to the lower tree; the upper dentries and
  inodes have to follow, also when a rollback changes the lower tree directly.
* **Two lifetimes.** Versions are in memory and keyed by inode number; shadow
  files are on disk and outlive umount, unloading and the inode.
* **Two files.** Every open has an upper and a lower struct file, each with a
  position; a snapshot is due once per open, and a copy takes many steps.
* **Failure.** Copies, restores, removals and allocations fail one by one.

What makes each part correct: the table's counts, single ownership of every
object, pointers that stay valid while they are used, the time window; for the
store, that a listed version can be restored and that no file is left without
an owner; for the name spaces, that the caches agree with the lower tree; for
the rollback, that it restores what the operation changed; for the files, that
what is destroyed was saved, and that positions are where POSIX puts them; for
mounting, that every reference is put and nobody uses what is gone; for
`cowctl`, that what it shows can be given back to it.  `PROJECT.json`
("hazards") lists where each of them is at risk.

## Modules

* **CowVersions** - the table and its shadow files, with threads in the
  copy-on-write prologue of an operation, threads in an ioctl, the collector,
  mounting, loading and the clock.  A section under `versions_lock` is one step;
  a copy is `CopyOpen` followed by `CopyDone`, `CopyShort` or `CopyAborts`;
  freeing is a step after the section that unlinked the version.  `list_add`
  inserts at the head only, so a list is a set of versions ordered by the field
  `pos`.  `now` is the wall clock: it moves by `ClockStep` with every stamp, and
  with `"settime"` in `Faults` it is set, also back (`SetClock`).  `Word` is 2^64
  and the collector's arithmetic is modulo `Word`.
* **SnapshotLog** - the abstract specification of the table: per inode a bounded
  log of snapshots.  A snapshot enters at once and complete, never changes, and
  leaves by age, by overflow or by unloading.  CowVersions implements it
  (`ImplementsLog`); the mapping takes the listed versions, each with what a
  rollback would find in its shadow file, for the log.
* **CowVersionsProofs**, **CowOwnershipProofs** and **CowLogProofs**, each of
  which extends the one before - theorems about CowVersions: what a list
  counts, who owns a version, and that the table implements SnapshotLog.
* **CowNamespaceProofs**, **CowWriteProofs**, **CowPositionProofs**,
  **CowMountProofs**, **CowCtlProofs** - theorems about the module each is
  named after.
* **CowNamespace** - the lower tree, the upper dentry and inode caches, and the
  rollback.  An operation is one step here, which succeeds or fails at each of
  its calls: no version or no copy (`"nosave"`), no memory for an upper inode or
  a lower dentry (`"nomem"`), a lower file system that refuses (`"lowerfail"`),
  a restore that fails (`"norestore"`).  The content of a file is the operation
  that wrote it.  `undo` remembers the last operation that was saved: its
  version, the path by which it can be rolled back, the tree before it, and the
  names at which the code has lost what was there (`lost`); `report` says whether
  the last step rolled it back.  The two exist for the properties only.  An
  upper inode that outlives its lower one and meets another type of file under
  its number is not operated on.
* **CowWrite** - the content of one lower file, block by block: opens with
  `snapshot_taken`, write, truncation, the copy loop, the restore loop, mmap.
  The lower file is locked for one write, not for a copy, so every block is a
  step.  Both loops take a short `kernel_write` for success: the block is
  `Damaged`, and `cut` remembers that what follows is out of its place.  `base`
  is the content at some quiet moment, `excused` whether something may have
  destroyed it unsaved, `torn` the threads whose copy was disturbed; they exist
  for the properties only.
* **CowPosition** - the two positions of an open file under read, write and
  llseek, and a directory that is read with small buffers while names come and
  go.  `posix` is where the position ought to be, `adrift` whether a relative or
  failed lseek came after a read or a write; `kept` and `listed` are for the
  property.
* **CowMount** - loading, mounting, lookups and releases of dentries, unmounting
  and unloading, with references as counters and the collector's work item in
  between.  `cowfs_shadow_cleanup` is two steps, as `cowfs_shadow_remove` runs
  beside it.
* **CowCtl** - `cowctl`: what list prints, what rollback makes of its argument,
  and which version the ioctl finds, for one path.  Files come to it and go, by
  creation, unlink and rename; the files of the model are those that have the
  path's last component as a name, here or in another directory, and their
  numbers are given out again.  A version is stamped with whatever the clock
  shows, so that stamps repeat and go back; `given` counts how often each was
  given.  Lists are sets ordered by `pos`, as in CowVersions; `shown` is what the
  last listing has left on the screen, and `last` a rollback with its argument,
  the file that the path led to, and the version that was found.
* **MCCowVersions** and so on - symmetry sets for TLC.

How they compose: CowVersions and CowMount both have the collector, CowVersions
with the table and a shadow directory that is there or not, CowMount with the
reference to it and the table as a whole.  CowWrite refines the copy that is
`CopyOpen` and `CopyDone` in CowVersions and the restore that is one step in
CowNamespace.  CowCtl has the table of CowVersions without memory and threads;
what a version does once it was found is in CowNamespace.

The lower file system and the VFS are not part of the repository.  They are
modelled by what cowfs relies on and marked external in the map: directories
with entries, inode numbers that may or may not be given out again, a dentry
cache that the kernel may shrink at any time, the lock that the VFS holds on the
upper inode around unlink, rename and setattr and not around write.

Left out on purpose: buckets of the hash table (they only break ties in
`find_deleted`, which is a free choice), owners and times (the mode stands for
the attributes), `RENAME_EXCHANGE`, paths through symbolic links, trees deeper
than two levels.

## Runs

`Faults` and `Uses` say which failures and which uses a run has.  Bounds:
`MaxTime`, `MaxOps` for CowVersions, `MaxOps` (writes, truncations, mappings,
stores and rollbacks) for CowWrite, `MaxTime` (number of
operations) for CowNamespace, `MaxTime` (greatest stamp), `MaxAdded` and
`MaxPending` for CowCtl, `MaxMounts` and `MaxLookups` for CowMount, `MaxSize` and
`Slots` for CowPosition.  In CowNamespace rollbacks, lookups and reclaims are not
counted.

| Run | Shows |
|---|---|
| `versions_safe` | two inodes, lists of one, a window that changes, a clock that is set, also back: counts, ownership, the window, and a listed version loses its file only to another one with the same stamp |
| `versions_faults` | failing and short copies, failing allocations and removals, umount, reload, lists of two: counts, ownership, no listed version without its file, the window, and that the table implements SnapshotLog |
| `versions_live` | without failures every listed version can be restored, no file is without an owner, and the file of an expired version is removed eventually |
| `namespace_safe` | links, replaced targets, moves and every failure: cached names lead to the right file, names stay hidden in known cases only, upper modes follow, and the last operation is undone but for what the code is known to lose |
| `write_safe` | two opens, each used by one thread, with failures, short writes, mappings and rollbacks: the content before the first change is in a version, and an undisturbed copy or restore is exact up to the damage of a short write, a restore at every moment |
| `position_safe` | positions agree except after a relative or failed lseek; a listing has no gap, no repetition and no shadow directory |
| `mount_safe` | two mounts, three lookups, everything may fail: references to dentries are accounted for, the table is there for whoever can call into it, umount and rmmod end |
| `ctl_safe` | files that have one path in turn, three versions with any of two stamps: a stamp from a listing that was given once finds the version that was shown or none |

Two threads are enough for every pair of critical sections to interleave, and
the collector is a third party; three versions fill a list of two and evict.
Epoch 4, windows of 1 and 2 and a clock up to 7 make versions younger than, as
old as and older than the window. In CowNamespace the tree starts empty or with
a directory and a file, so that two operations reach a file in another
directory, a replaced file and a non-empty directory; the theorems hold for any
number of operations. A file of two blocks can be changed between the blocks of
a copy, and three operations are a copy, one that disturbs it and one that
follows. Four slots put the shadow directory before, between and behind two
names, for buffers of one and of two. Two mounts show what the first leaves to
the second. In CowCtl a list holds two versions and a listing shows one (64 and
32 in the code), so that rows move down, out of the listing and out of the list;
two stamps are enough for one that is given once and one that is given twice.

The other runs are expected to fail: each states what a comment, a test or the
repository's README says and shows a behaviour of the code that contradicts it
(`PROJECT.json`, "findings").

| Run | Statement | Behaviour |
|---|---|---|
| `versions_uaf` | the collector does not bring the kernel down | it frees a version that an ioctl is using |
| `write_shared` | the content before the first write is saved | a second thread with the same descriptor writes during the copy |
| `mount_gc` | the cached dentry can be used in any context | the collector uses it after umount has put the only reference |
| `ctl_seconds` | rollback takes a time in seconds | it finds nothing: stamps are in nanoseconds |

The constants delimit the passing runs, and widening one of them shows more of
the same kind:

* `"short"` in `Faults` refutes `Restorable`: a short write, as of a full disk,
  counts as success (`cowfs_shadow.c:144`), although README:306 of the repository
  says that the file is copied as a whole.
* `"umount"` in `Faults`: the collector goes on without a mount and frees
  versions whose files stay in `.cowfs_shadow` for good (README:391 says that it
  leaves no garbage); `NoOrphan` is refuted.
* `"settime"` in `Faults`, or `ClockStep = 0` (two processors read one clock
  value), gives two versions one path, against the comment at
  `cowfs_versions.c:57-59`, and refutes `HasFile`, `Restorable` and
  `ImplementsLog`.  What remains true is `FileKept`.
* `Windows = {6}` with `Epoch = 4` (a window longer than the time since 1970)
  makes the cutoff wrap and refutes `WindowKept`.
* `"reuse"` in `Uses` refutes `KindAgrees` and `ModeFollows`: unlink and rmdir
  leave the link count of the upper inode, which stays cached and is found for
  the new file of its number.

What the properties of the rollback and of the caches except is behaviour of the
code, and named in them:

* `UndoExact` leaves out the names in `undo.lost`: the file that a mv replaces,
  which is not saved; the places of a mv into another directory, since a version
  records a name and no directory (against README:360-362 of the repository); a
  file truncated although its copy failed; and a file made anew whose restore
  failed, which the ioctl ignores (`cowfs_ctl.c:89`).  It is about the rollback
  of the last operation: versions are keyed by inode number and outlive the
  inode, so that an older one may belong to a deleted file.  In CowNamespace
  every operation has a stamp of its own; what equal stamps do to the shadow
  files is in CowVersions, what they do to a lookup in CowCtl.
* `NegativeKept` leaves out symlink and link, a create or mkdir for whose upper
  inode there is no memory, and the UNLINK branch of the ioctl: they leave a
  negative dentry over a name that exists.
* `ModeFollows` leaves out the rollback of a setattr: the upper inode keeps the
  mode that was rolled back (`cowfs_ctl.c:286`), by which the VFS goes on checking
  permissions, until the inode is reclaimed.
* `BaseSaved` leaves out failed copies and short writes (which count as success,
  `cowfs_shadow.c:144`), stores to a mapping and rollbacks.
* `RowExact` is about stamps that were given to one operation only.  A word is a
  legal argument too: strtoull makes 0 of it, which means the latest version.  A
  version without data is listed as "(metadata only)" and its stamp not at all.

**Fairness.** `versions_live`: weak fairness of the collector, because
`gc_worker` re-arms itself after every run and a work queue runs what is queued,
and of the steps of a thread that is inside an operation or an ioctl, because
the kernel schedules a runnable thread.  Nobody has to start an operation, and
the clock need not move.  `mount_safe`: weak fairness of the steps of an umount
and of an rmmod that have begun, for the same reason, and of the end of a work
item that runs; `cancel_delayed_work_sync` waits for that end and keeps the item
from queueing itself again.  Nobody has to mount, unmount or unload.

**Deadlock** is checked for CowVersions (the collector can always run), CowMount
(a module can be loaded and unloaded) and CowPosition.  A behaviour of
CowNamespace, CowWrite or CowCtl may stop at the bound on operations, so their
configurations switch the check off.

## Proofs

Every invariant and action property of a passing run but `KindAgrees` and
`ModeFollows` is also a theorem, and so is the refinement, for every value of the
constants: any number of threads, inodes, names, opens, slots and operations, any
limit.  The bounds of the models (`MaxTime`, `MaxOps`, ...) are constants like
the others.  The named assumptions of the modules say that numbers are numbers
and that markers such as `None` or `Root` are none of the values they stand
beside; `PositionAssumption` also that no buffer is empty.  What a theorem needs
beyond that is in its ASSUME; the section on the runs says what happens without
those conditions, and the rest is explained here.

### CowVersions

| Theorem | States | If |
|---|---|---|
| `TypeCorrect`, `CountCorrect` | `TypeOK`, `CountExact` | |
| `WindowCorrect` | `WindowKept` | `WindowFits` |
| `OwnerCorrect` | `OwnedOnce` | |
| `KeptCorrect` | `FileKept` | |
| `FilesCorrect` | `HasFile` | `ClockStep > 0`, no `"settime"` |
| `RestoreCorrect` | `Restorable` | `ClockStep > 0`, no `"settime"`, no `"short"` |
| `OrphanCorrect` | `NoOrphan` | no failure but `"short"`, no `"settime"` |
| `LogImplemented` | `ImplementsLog` | `ClockStep > 0`, no `"settime"`, `WindowFits` |

* Types and counts need each other: an eviction yields a version because the
  list is not empty, which is so because `version_count` is its length and the
  limit is at least one; the count stays exact because the new entry is not in
  the list already, its position being greater than any (`PosBounded`).
  `Bookkeeping` is the conjunction of the three.
* `WindowFits`: the window reaches back no further than the start of the clock,
  and the clock fits its word.  `WindowInv` says what the collector has read;
  `NoWrap` turns its modular arithmetic into plain subtraction.
* Nothing in the code names the owner of a version; the proofs do.  `Holds(h)`
  is what a list, a thread that makes a version, a thread that has evicted one,
  and the collector own.  `OwnInv` says that no object has two holders and that
  what is held is allocated; `OwnedOnce` alone is not inductive, as it does not
  say that the next object is new.  `FileKept` follows from it alone: a file is
  removed for a version that was evicted or collected, which nobody lists.
* `StampInv` adds that stamps lie before `now` and follow the order of
  allocation, which gives distinct paths as long as the clock is not set;
  `FileInv` adds what a copy has done so far.  A copy that truncates its file, or
  a version that is freed, could otherwise hit the file of a listed one.
* `TraceInv` says that every file has a holder who knows of it; failures of
  allocation, copy and removal and umount are what it has to exclude.
* `LogInv`, for the refinement, is the conjunction of `FileInv` and `WindowInv`
  with what an operation has decided and with distinct positions.  Init implies
  the abstract Init, and every step is an abstract step or changes nothing that
  the mapping sees.

### CowNamespace

| Theorem | States | If |
|---|---|---|
| `NamespaceTypeCorrect`, `PositiveCorrect` | `TypeOK`, `PositiveTruthful` | |
| `NegativeCorrect` | `NegativeKept` | |
| `UndoCorrect` | `UndoExact` | |

The four hold for every `Uses`: reused numbers, links and every failure included.

* The operations are first described by what they do to the lower tree and to
  the caches (`Made`, `Edited`, `Renamed`, ...), and every step of `Next` is
  shown to be of one of these kinds; the invariants are proved for the kinds.
* `TruthInv` is the two conditions of the first row.  `NegativeCorrect` rests on
  the types alone: a step that is none of the exceptions and makes a name is a
  create or mkdir that succeeds, a rename, or a rollback that drops the dentry.
* `UndoInv` says that what is named exists (`Live`), that versions are told apart
  by their stamps (`Stamped`), and what stands between the tree and the tree
  before the last operation as long as nothing else was done (`Pending`), by the
  kind of that operation and outside `undo.lost`.  `UndoExact` speaks of the
  moment after the rollback only and is not inductive.  With links and reused
  numbers the version found at a path may be of another operation than the last:
  the rollback then forgets the last one, as its stamp tells.

### CowWrite

| Theorem | States | If |
|---|---|---|
| `WriteTypeCorrect`, `ExactCorrect` | `TypeOK`, `UndisturbedExact` | |
| `BaseCorrect` | `BaseSaved` | no `"share"` |

* `CopyInv`: a copy that nobody has disturbed holds what the file begins with,
  and what a restore has written is the whole file and what the version begins
  with, both but for damaged blocks behind a short write (`Faithful`).  The
  property is about the last step of a copy and every step of a restore.
* `BaseInv` adds that an operation uses an open descriptor of its own thread
  (`OwnFiles`) and, as long as the content of the quiet moment is unsaved, that
  nobody has got past its copy and that `snapshot_taken` is set only where a
  copy is under way (`Guarded`).  A shared descriptor breaks the last part,
  which is what `write_shared` shows.

### CowPosition, CowMount, CowCtl

| Theorem | States | If |
|---|---|---|
| `PositionTypeCorrect`, `PositionCorrect`, `ListingCorrect` | `TypeOK`, `PositionExact`, `ListingExact` | |
| `TableCorrect`, `RefsCorrect`, `MountTypeCorrect` | `TableThere`, `RefsAccounted`, `TypeOK` | |
| `CtlTypeCorrect`, `RowCorrect` | `TypeOK`, `RowExact` | |

* `PosInv`: the positions are together unless the file was read or written
  since the last lseek, where a relative lseek starts.  `ListInv`: no name is in
  two slots, and a name that was there all the time is in one and was listed
  once if the lower position is past it.
* `LoadInv`: at which stage of loading and unloading the file system, the
  device and the work item may be there; that the work item is neither queued
  nor running when the table goes is what `cancel_delayed_work_sync` provides.
  `RefsInv`: in which states of a mount there are dentries, lookups under way
  and a valid shadow directory; that no counter of a dentry falls below zero
  follows.
* `CtlInv`: the positions in a list are distinct (`Lists`); a version has a stamp
  that was given, and shares it with no other one if it was given once
  (`Stamps`); a stamp on the screen was given, and if once, no other version than
  the printed one has it (`Screen`).

TLC has checked the inductive invariants on instances of the runs before they
were proved.  Only model-checked are `KindAgrees` and `ModeFollows`, and
`ExpiredRemoved` and `StopEnds`, as liveness is out of this prover's reach.  The
four runs that are expected to fail have no theorem.

## Plan

Done: all the modules, and theorems for the safety properties and the refinement,
as above.  Possible next steps are theorems that join modules: that the table
of CowCtl is that of CowVersions without memory and threads, and that the copy
of CowWrite is `CopyOpen` and `CopyDone` of CowVersions.

## Not modelled

* A second mount at the same time, which the code does not support
  (`cowfs_shadow.c:50`), although nothing prevents it.
* What the lower file system does when create, mkdir, symlink, link and rename
  reach a directory that is not locked (`cowfs_inode.c:101`): that is up to it.
* The option string, path lengths and the memory of strings (`lowerdir` is not
  freed when it is not found, `cowfs_super.c:91`).
* fsync, getattr, get_link, statfs and show_options, which pass through or read.
* References to the lower mount are counted in CowMount, and no property is
  stated of them: every released dentry puts one that it never took
  (`cowfs_inode.c:73`, `cowfs_dir.c:79`), and no document speaks of it.
* `RENAME_EXCHANGE`, owners and times, paths through symbolic links.
* The test and build scripts.
