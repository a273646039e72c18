------------------------------ MODULE CowWrite ------------------------------
(***************************************************************************)
(* The content of one lower file: opens with their snapshot_taken flag     *)
(* (kernel/cowfs_file.c), truncation (cowfs_setattr), and the loops of     *)
(* kernel/cowfs_shadow.c that copy the file block by block to a version    *)
(* and back.  The lower file system locks the file for the time of one     *)
(* write or truncation, not for the time of a copy, so that every block    *)
(* that is read or written is a step.                                      *)
(*                                                                         *)
(* A block holds the number of the write that it comes from, or is damaged *)
(* by a copy that wrote less than it had read.  Versions are kept here;    *)
(* CowVersions evicts and collects them.                                   *)
(***************************************************************************)
EXTENDS Integers, Sequences, FiniteSets

CONSTANTS
  Thread,     \* kernel contexts
  Open,       \* the struct files of the upper file, all open for writing
  MaxBlocks,  \* bound on the length of the file
  MaxOps,     \* bound on the number of writes, truncations, mappings, stores, rollbacks
  Uses,       \* what users and the lower file system do, of UseKinds
  NoFile      \* the NULL of attr->ia_file

(* Threads that share a descriptor and use pwrite, which takes no lock;    *)
(* stores to a mapping; failures; writes of a copy that write a part of    *)
(* what they are given; rollbacks.                                         *)
UseKinds == {"share", "mmap", "fail", "short", "rollback"}

ASSUME WriteAssumption ==
  /\ MaxBlocks \in Nat \ {0}
  /\ MaxOps \in Nat
  /\ Uses \subseteq UseKinds
  /\ NoFile \notin Open

VARIABLES
  content,  \* the lower file
  ofile,    \* the open files: who opened it (or nobody), snapshot_taken
  mapped,   \* whether the lower file is mapped
  saved,    \* the contents of the versions that have data
  th,       \* where each thread is
  ops,      \* how many operations there were
  base,     \* the content at some moment when nobody was changing the file
  excused,  \* whether since then something may have destroyed it unsaved
  torn      \* those who copy while somebody else has changed the file

vars == <<content, ofile, mapped, saved, th, ops, base, excused, torn>>

-----------------------------------------------------------------------------

Blocks == UNION {[1..n -> 0..MaxOps + 2] : n \in 0..MaxBlocks}
Hole == 0
Damaged == MaxOps + 2

PC == {"idle", "flag", "copy", "write", "truncate", "restore"}
Nobody == "nobody"

(* arg is the block to be written, or the size; buf what has been copied;  *)
(* goal what is to be written or restored; cut whether a write was short.  *)
Idle == [pc |-> "idle", op |-> "none", file |-> NoFile, arg |-> 0,
         buf |-> <<>>, goal |-> <<>>, cut |-> FALSE]

TypeOK ==
  /\ content \in Blocks
  /\ ofile \in [Open -> [by : Thread \cup {Nobody}, snapshot_taken : BOOLEAN]]
  /\ mapped \in BOOLEAN
  /\ saved \subseteq Blocks
  /\ th \in [Thread -> [pc : PC, op : {"none", "WRITE", "SETATTR", "ROLLBACK"},
                        file : Open \cup {NoFile}, arg : 0..MaxBlocks, buf : Blocks, goal : Blocks,
                        cut : BOOLEAN]]
  /\ ops \in 0..MaxOps
  /\ base \in Blocks
  /\ excused \in BOOLEAN
  /\ torn \subseteq Thread
  /\ \A t \in Thread : /\ th[t].pc \in {"flag", "write"} => th[t].op = "WRITE" /\ th[t].file \in Open
                       /\ th[t].pc = "truncate" => th[t].op = "SETATTR"

Closed == [by |-> Nobody, snapshot_taken |-> FALSE]

(* A file of any length, not open.                                         *)
Init ==
  /\ content \in {[k \in 1..n |-> 1] : n \in 1..MaxBlocks}
  /\ ofile = [f \in Open |-> Closed]
  /\ mapped = FALSE
  /\ saved = {}
  /\ th = [t \in Thread |-> Idle]
  /\ ops = 0
  /\ base = content
  /\ excused = FALSE
  /\ torn = {}

-----------------------------------------------------------------------------
(* The lower file.                                                         *)

(* A write behind the end leaves a hole.                                   *)
WithBlock(c, k, b) ==
  [j \in 1..(IF k > Len(c) THEN k ELSE Len(c)) |->
     IF j = k THEN b ELSE IF j <= Len(c) THEN c[j] ELSE Hole]

WithSize(c, n) == [j \in 1..n |-> IF j <= Len(c) THEN c[j] ELSE Hole]

Busy == {u \in Thread : th[u].pc \in {"copy", "restore"}}

(* Thread t changes the file; who copies it meanwhile is disturbed.        *)
Change(t, c) ==
  /\ content' = c
  /\ torn' = torn \cup (Busy \ {t})

IsOpen(f) == ofile[f].by # Nobody
InUse(f) == \E t \in Thread : th[t].file = f

(* The descriptors a thread can use.                                       *)
Files(t) ==
  {f \in Open : IsOpen(f) /\ ("share" \notin Uses => ofile[f].by = t)}

Goes(t, r) == th' = [th EXCEPT ![t] = r]
Starts == ops < MaxOps /\ ops' = ops + 1

(* Data that is not in the file yet.                                       *)
NewData == ops + 2

-----------------------------------------------------------------------------
(* Opening and closing.                                                    *)

(* kzalloc clears snapshot_taken.  (When the allocation or dentry_open     *)
(* fails there is no file and nothing changes.)                            *)
OpenedFile(t) == [by |-> t, snapshot_taken |-> FALSE]

cowfs_open(t, f) ==
  /\ th[t].pc = "idle"
  /\ ~IsOpen(f)
  /\ ops < MaxOps
  /\ ofile' = [ofile EXCEPT ![f] = OpenedFile(t)]
  /\ UNCHANGED <<content, mapped, saved, th, ops, base, excused, torn>>

(* The last reference to the struct file is gone.                          *)
cowfs_release(f) ==
  /\ IsOpen(f)
  /\ ~InUse(f)
  /\ ofile' = [ofile EXCEPT ![f] = Closed]
  /\ UNCHANGED <<content, mapped, saved, th, ops, base, excused, torn>>

-----------------------------------------------------------------------------
(* cowfs_write: the flag is tested in one step and set in another.         *)

WriteTestsFlag(t, f, k) ==
  /\ th[t].pc = "idle"
  /\ f \in Files(t)
  /\ Starts
  /\ Goes(t, [Idle EXCEPT !.pc = IF ofile[f].snapshot_taken THEN "write" ELSE "flag",
                          !.op = "WRITE", !.file = f, !.arg = k, !.goal = <<NewData>>])
  /\ UNCHANGED <<content, ofile, mapped, saved, base, excused, torn>>

(* The flag is set before the version is allocated and before the copy is  *)
(* tried.                                                                  *)
SetTaken(f) == [ofile EXCEPT ![f].snapshot_taken = TRUE]

WriteSetsFlag(t) ==
  /\ th[t].pc = "flag"
  /\ ofile' = SetTaken(th[t].file)
  /\ Goes(t, [th[t] EXCEPT !.pc = "copy"])
  /\ UNCHANGED <<content, mapped, saved, ops, base, excused, torn>>

(* vfs_iter_write of the caller's data; it may fail and write nothing.     *)
LowerWrite(t) ==
  /\ th[t].pc = "write"
  /\ Change(t, WithBlock(content, th[t].arg, Head(th[t].goal)))
  /\ Goes(t, Idle)
  /\ UNCHANGED <<ofile, mapped, saved, ops, base, excused>>

LowerFails(t) ==
  /\ "fail" \in Uses
  /\ th[t].pc \in {"write", "truncate"}
  /\ Goes(t, Idle)
  /\ UNCHANGED <<content, ofile, mapped, saved, ops, base, excused, torn>>

-----------------------------------------------------------------------------
(* cowfs_setattr with ATTR_SIZE: ftruncate and O_TRUNC come with a struct  *)
(* file, truncate with a path only.  The VFS holds the upper inode's lock. *)

Truncating == \E u \in Thread : th[u].op = "SETATTR"

SetattrStarts(t, f, n) ==
  /\ th[t].pc = "idle"
  /\ f \in Files(t) \cup {NoFile}
  /\ ~Truncating
  /\ Starts
  /\ Goes(t, [Idle EXCEPT !.pc = "copy", !.op = "SETATTR", !.file = f, !.arg = n])
  /\ UNCHANGED <<content, ofile, mapped, saved, base, excused, torn>>

AfterCopy_Write(t) == "write"
AfterCopy(t) == IF th[t].op = "SETATTR" THEN "truncate" ELSE "write"

(* notify_change; after a truncation through a struct file its first write *)
(* takes no snapshot any more.                                             *)
LowerTruncate(t) ==
  /\ th[t].pc = "truncate"
  /\ Change(t, WithSize(content, th[t].arg))
  /\ ofile' = IF th[t].file = NoFile THEN ofile ELSE SetTaken(th[t].file)
  /\ Goes(t, Idle)
  /\ UNCHANGED <<mapped, saved, ops, base, excused>>

-----------------------------------------------------------------------------
(* cowfs_shadow_copy_file.  kernel_write may write a part of the block,    *)
(* which only a negative result tells from success: the block is damaged,  *)
(* and what is written after it is not in its place.                       *)

Written(t, b) == IF th[t].cut THEN Damaged ELSE b

CopyBlock(t) ==
  LET done == Len(th[t].buf) IN
  /\ th[t].pc = "copy"
  /\ done < Len(content)
  /\ Goes(t, [th[t] EXCEPT !.buf = Append(@, Written(t, content[done + 1]))])
  /\ UNCHANGED <<content, ofile, mapped, saved, ops, base, excused, torn>>

CopyShort(t) ==
  /\ "short" \in Uses
  /\ th[t].pc = "copy"
  /\ Len(th[t].buf) < Len(content)
  /\ excused' = TRUE
  /\ Goes(t, [th[t] EXCEPT !.buf = Append(@, Damaged), !.cut = TRUE])
  /\ UNCHANGED <<content, ofile, mapped, saved, ops, base, torn>>

(* kernel_read returns 0 at the end of the file.                           *)
AtEnd_OneShort(t) == Len(th[t].buf) + 1 >= Len(content)
AtEnd(t) == Len(th[t].buf) >= Len(content)

(* has_data is set and the version added.                                  *)
CopyEnds(t) ==
  /\ th[t].pc = "copy"
  /\ AtEnd(t)
  /\ saved' = saved \cup {th[t].buf}
  /\ Goes(t, [th[t] EXCEPT !.pc = AfterCopy(t), !.buf = <<>>, !.cut = FALSE])
  /\ torn' = torn \ {t}
  /\ UNCHANGED <<content, ofile, mapped, ops, base, excused>>

(* No version, no buffer, no file, or an error on the way: the operation   *)
(* goes on without the content, and snapshot_taken stays set.              *)
CopyFails(t) ==
  /\ "fail" \in Uses
  /\ th[t].pc = "copy"
  /\ excused' = TRUE
  /\ Goes(t, [th[t] EXCEPT !.pc = AfterCopy(t), !.buf = <<>>, !.cut = FALSE])
  /\ torn' = torn \ {t}
  /\ UNCHANGED <<content, ofile, mapped, saved, ops, base>>

-----------------------------------------------------------------------------
(* cowfs_shadow_restore_file, called by a rollback.  dentry_open does not  *)
(* act on O_TRUNC: the truncation is the vfs_truncate.                     *)

RestoreTarget_Kept(t) == content
RestoreTarget(t) == <<>>

RestoreStarts(t, v) ==
  /\ "rollback" \in Uses
  /\ th[t].pc = "idle"
  /\ Starts
  /\ content' = RestoreTarget(t)
  /\ torn' = torn \cup Busy
  /\ excused' = TRUE
  /\ Goes(t, [Idle EXCEPT !.pc = "restore", !.op = "ROLLBACK", !.goal = v])
  /\ UNCHANGED <<ofile, mapped, saved, base>>

RestoreBlock(t) ==
  LET k == Len(th[t].buf) + 1
      b == Written(t, th[t].goal[k])
  IN  /\ th[t].pc = "restore"
      /\ k <= Len(th[t].goal)
      /\ Change(t, WithBlock(content, k, b))
      /\ Goes(t, [th[t] EXCEPT !.buf = Append(@, b)])
      /\ UNCHANGED <<ofile, mapped, saved, ops, base, excused>>

RestoreShort(t) ==
  LET k == Len(th[t].buf) + 1
  IN  /\ "short" \in Uses
      /\ th[t].pc = "restore"
      /\ k <= Len(th[t].goal)
      /\ Change(t, WithBlock(content, k, Damaged))
      /\ Goes(t, [th[t] EXCEPT !.buf = Append(@, Damaged), !.cut = TRUE])
      /\ UNCHANGED <<ofile, mapped, saved, ops, base, excused>>

(* At the end of the shadow file, or, when something fails, before it.     *)
RestoreEnds(t) ==
  /\ th[t].pc = "restore"
  /\ Len(th[t].buf) = Len(th[t].goal) \/ "fail" \in Uses
  /\ Goes(t, Idle)
  /\ torn' = torn \ {t}
  /\ UNCHANGED <<content, ofile, mapped, saved, ops, base, excused>>

-----------------------------------------------------------------------------
(* cowfs_mmap maps the lower file: a store is seen by nobody, and the      *)
(* mapping outlives the open.                                              *)

cowfs_mmap(t) ==
  /\ "mmap" \in Uses
  /\ th[t].pc = "idle"
  /\ Files(t) # {}
  /\ Starts
  /\ mapped' = TRUE
  /\ UNCHANGED <<content, ofile, saved, th, base, excused, torn>>

Store(k) ==
  /\ mapped
  /\ k <= Len(content)
  /\ Starts
  /\ content' = WithBlock(content, k, NewData)
  /\ torn' = torn \cup Busy
  /\ excused' = TRUE
  /\ UNCHANGED <<ofile, mapped, saved, th, base>>

-----------------------------------------------------------------------------
(* An observer notes the content at a moment when no operation is under    *)
(* way and no open has taken its snapshot.                                 *)

Quiet ==
  /\ \A t \in Thread : th[t].pc = "idle"
  /\ \A f \in Open : ~ofile[f].snapshot_taken

Observe ==
  /\ Quiet
  /\ base' = content
  /\ excused' = FALSE
  /\ UNCHANGED <<content, ofile, mapped, saved, th, ops, torn>>

Next ==
  \/ \E t \in Thread :
       \/ \E f \in Open : cowfs_open(t, f)
       \/ \E f \in Open, k \in 1..MaxBlocks : WriteTestsFlag(t, f, k)
       \/ WriteSetsFlag(t)
       \/ LowerWrite(t)
       \/ LowerFails(t)
       \/ \E f \in Open \cup {NoFile}, n \in 0..MaxBlocks : SetattrStarts(t, f, n)
       \/ LowerTruncate(t)
       \/ CopyBlock(t)
       \/ CopyShort(t)
       \/ CopyEnds(t)
       \/ CopyFails(t)
       \/ \E v \in saved : RestoreStarts(t, v)
       \/ RestoreBlock(t)
       \/ RestoreShort(t)
       \/ RestoreEnds(t)
       \/ cowfs_mmap(t)
  \/ \E f \in Open : cowfs_release(f)
  \/ \E k \in 1..MaxBlocks : Store(k)
  \/ Observe

Spec == Init /\ [][Next]_vars

-----------------------------------------------------------------------------
(* Properties.                                                             *)

(* "The content of the file before the first write": whatever number of    *)
(* opens write and truncate at the same time, the content the file had     *)
(* when nobody was changing it is in some version before it is destroyed.  *)
(* The exceptions are a copy that failed, a copy with a short write, which *)
(* the code takes for success, a store to a mapping and a rollback         *)
(* (cowfs_write, cowfs_setattr, cowfs_shadow_copy_file).                   *)
BaseSaved == content # base => base \in saved \/ excused

(* Block for block the same, but for those after a short write.            *)
Same(c, d, cut) == \A k \in 1..Len(c) : c[k] = d[k] \/ (cut /\ c[k] = Damaged)

(* A copy that nobody disturbed has the file's length at its end and block *)
(* for block what is in the file; a restore, at every moment, also the one *)
(* at which it is interrupted, has written a beginning of the version and  *)
(* left nothing of what was there before.  A short write, which the code   *)
(* takes for success, damages blocks and never brings in others            *)
(* (cowfs_shadow_copy_file, cowfs_shadow_restore_file).                    *)
UndisturbedExact ==
  \A t \in Thread \ torn :
    /\ th[t].pc = "copy" /\ AtEnd(t) =>
         Len(th[t].buf) = Len(content) /\ Same(th[t].buf, content, th[t].cut)
    /\ th[t].pc = "restore" =>
         /\ Len(content) = Len(th[t].buf) /\ Len(content) <= Len(th[t].goal)
         /\ Same(content, th[t].goal, th[t].cut)

=============================================================================
