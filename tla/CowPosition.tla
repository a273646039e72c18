---------------------------- MODULE CowPosition ----------------------------
(***************************************************************************)
(* The positions of open files.  Every open of cowfs has two struct files, *)
(* the upper one that the VFS knows and the lower one behind it, and each  *)
(* has an f_pos.  read and write (kernel/cowfs_file.c) use the upper one,  *)
(* llseek and the reading of a directory (kernel/cowfs_dir.c) the lower    *)
(* one.  One file and one directory are open here; the lower directory is  *)
(* a row of slots, as names come and go while it is read.                  *)
(***************************************************************************)
EXTENDS Integers, FiniteSets, FiniteSetsExt

CONSTANTS
  MaxSize,  \* bound on the size of the file
  Slots,    \* number of slots of the directory
  Name,     \* names, COWFS_SHADOW_DIR among them
  Buffers,  \* how many entries the buffer of a getdents may hold
  NoName    \* an empty slot

Shadow == ".cowfs_shadow"

ASSUME PositionAssumption ==
  /\ MaxSize \in Nat
  /\ Slots \in Nat
  /\ Shadow \in Name
  /\ NoName \notin Name
  /\ Buffers \subseteq Nat \ {0}

VARIABLES
  size,     \* of the lower file
  pos,      \* its positions, upper and lower, and what POSIX says it is
  moved,    \* whether it was read or written since the last lseek
  adrift,   \* whether a relative or failed lseek came after one, and no other since
  slot,     \* the lower directory
  dir,      \* its open: the two positions, whether getdents has reported the end
  kept,     \* the names that have been there ever since the directory was opened
  listed    \* how often each name has been returned since then

fileVars == <<size, pos, moved, adrift>>
dirVars == <<slot, dir, kept, listed>>
vars == <<size, pos, moved, adrift, slot, dir, kept, listed>>

-----------------------------------------------------------------------------

Position == 0..MaxSize

TypeOK ==
  /\ size \in Position
  /\ pos \in [upper : Position, lower : Position, posix : Position]
  /\ moved \in BOOLEAN
  /\ adrift \in BOOLEAN
  /\ slot \in [1..Slots -> Name \cup {NoName}]
  /\ dir \in [open : BOOLEAN, upper : 0..Slots, lower : 0..Slots, end : BOOLEAN]
  /\ kept \subseteq Name
  /\ listed \in [Name -> Nat]

Opened == [upper |-> 0, lower |-> 0, posix |-> 0]
DirClosed == [open |-> FALSE, upper |-> 0, lower |-> 0, end |-> FALSE]

Present == {slot[s] : s \in 1..Slots} \ {NoName}

(* The shadow directory was made when cowfs was mounted, in any slot.      *)
Init ==
  /\ size \in Position
  /\ pos = Opened
  /\ moved = FALSE
  /\ adrift = FALSE
  /\ slot \in {r \in [1..Slots -> Name \cup {NoName}] :
                 /\ \E s \in 1..Slots : r[s] = Shadow
                 /\ \A s, q \in 1..Slots : r[s] = r[q] => s = q \/ r[s] = NoName}
  /\ dir = DirClosed
  /\ kept = {}
  /\ listed = [n \in Name |-> 0]

-----------------------------------------------------------------------------
(* The file.                                                               *)

Least(a, b) == IF a < b THEN a ELSE b

(* vfs_iter_read and vfs_iter_write are given the upper position and move  *)
(* it; the lower f_pos stays.                                              *)
Moves(n) == [pos EXCEPT !.upper = n, !.posix = n]

cowfs_read(n) ==
  /\ pos.upper < size
  /\ pos' = Moves(Least(pos.upper + n, size))
  /\ moved' = TRUE
  /\ UNCHANGED <<size, adrift, dirVars>>

cowfs_write(n) ==
  /\ pos.upper + n <= MaxSize
  /\ pos' = Moves(pos.upper + n)
  /\ size' = IF pos.upper + n > size THEN pos.upper + n ELSE size
  /\ moved' = TRUE
  /\ UNCHANGED <<adrift, dirVars>>

SeekTo(whence, off, from) ==
  CASE whence = "SET" -> off
    [] whence = "CUR" -> from + off
    [] whence = "END" -> size + off

(* A negative position is an error and changes nothing ...                 *)
Sought(whence, off, from) ==
  IF SeekTo(whence, off, from) < 0 THEN from ELSE SeekTo(whence, off, from)

(* ... in the lower file: the upper position becomes the lower one in any  *)
(* case.                                                                   *)
Seeked_LowerOnly(whence, off) ==
  [pos EXCEPT !.lower = Sought(whence, off, @), !.posix = Sought(whence, off, @)]
Seeked_Result(whence, off) ==
  [lower |-> Sought(whence, off, pos.lower),
   upper |-> SeekTo(whence, off, pos.lower),
   posix |-> Sought(whence, off, pos.posix)]
Seeked(whence, off) ==
  [lower |-> Sought(whence, off, pos.lower),
   upper |-> Sought(whence, off, pos.lower),
   posix |-> Sought(whence, off, pos.posix)]

Absolute(whence, off) == whence # "CUR" /\ SeekTo(whence, off, 0) >= 0

cowfs_llseek(whence, off) ==
  /\ Sought(whence, off, pos.lower) <= MaxSize
  /\ Sought(whence, off, pos.posix) <= MaxSize
  /\ pos' = Seeked(whence, off)
  /\ moved' = FALSE
  /\ adrift' = (~Absolute(whence, off) /\ (adrift \/ moved))
  /\ UNCHANGED <<size, dirVars>>

(* open: both positions are 0.                                             *)
cowfs_open ==
  /\ pos' = Opened
  /\ moved' = FALSE
  /\ adrift' = FALSE
  /\ UNCHANGED <<size, dirVars>>

-----------------------------------------------------------------------------
(* The directory.                                                          *)

cowfs_dir_open ==
  /\ ~dir.open
  /\ dir' = [DirClosed EXCEPT !.open = TRUE]
  /\ kept' = Present
  /\ listed' = [n \in Name |-> 0]
  /\ UNCHANGED <<fileVars, slot>>

cowfs_dir_release ==
  /\ dir.open
  /\ dir' = DirClosed
  /\ kept' = {}
  /\ listed' = [n \in Name |-> 0]
  /\ UNCHANGED <<fileVars, slot>>

(* cowfs_filldir compares the length and the characters.                   *)
Hidden(n) == n = Shadow

Ahead == {s \in dir.lower + 1..Slots : slot[s] # NoName}
Shown == {s \in Ahead : ~Hidden(slot[s])}

(* The entries at which cowfs_filldir returns false, because dir_emit does *)
(* when b entries are in the buffer.  For a hidden one it returns true.    *)
Refused_Hidden(b) ==
  {s \in Shown : Cardinality({r \in Shown : r < s}) >= b} \cup (Ahead \ Shown)
Refused(b) == {s \in Shown : Cardinality({r \in Shown : r < s}) >= b}

(* iterate_dir starts at the lower file's position, whatever was passed,   *)
(* and stops at the first entry that is refused.                           *)
Reach(b) == IF Refused(b) = {} THEN Slots ELSE Min(Refused(b)) - 1

(* getdents: no entry means the end.                                       *)
cowfs_iterate_shared(b) ==
  LET emitted == {slot[s] : s \in {r \in Shown : r <= Reach(b)}} IN
  /\ dir.open
  /\ dir' = [dir EXCEPT !.lower = Reach(b), !.upper = Reach(b), !.end = emitted = {}]
  /\ listed' = [n \in Name |-> listed[n] + IF n \in emitted THEN 1 ELSE 0]
  /\ UNCHANGED <<fileVars, slot, kept>>

(* generic_file_llseek knows the upper file only.                          *)
DirLlseek(n) ==
  /\ dir.open
  /\ dir' = [dir EXCEPT !.upper = n]
  /\ UNCHANGED <<fileVars, slot, kept, listed>>

(* Files are made and removed meanwhile; the shadow directory stays.       *)
LowerCreates(n, s) ==
  /\ slot[s] = NoName
  /\ n \notin Present
  /\ slot' = [slot EXCEPT ![s] = n]
  /\ UNCHANGED <<fileVars, dir, kept, listed>>

LowerRemoves(s) ==
  /\ slot[s] \notin {NoName, Shadow}
  /\ slot' = [slot EXCEPT ![s] = NoName]
  /\ kept' = kept \ {slot[s]}
  /\ UNCHANGED <<fileVars, dir, listed>>

Next ==
  \/ \E n \in 1..MaxSize : cowfs_read(n) \/ cowfs_write(n)
  \/ \E w \in {"SET", "CUR", "END"}, off \in -MaxSize..MaxSize : cowfs_llseek(w, off)
  \/ cowfs_open
  \/ cowfs_dir_open
  \/ cowfs_dir_release
  \/ \E b \in Buffers : cowfs_iterate_shared(b)
  \/ \E n \in 0..Slots : DirLlseek(n)
  \/ \E n \in Name, s \in 1..Slots : LowerCreates(n, s)
  \/ \E s \in 1..Slots : LowerRemoves(s)

Spec == Init /\ [][Next]_vars

-----------------------------------------------------------------------------
(* Properties.                                                             *)

(* Although the two struct files have positions of their own, the next     *)
(* read or write is where POSIX says it is, after any sequence of reads,   *)
(* writes and seeks.  The exception is a seek that is relative, or that    *)
(* fails, after a read or a write; the next seek from the start or the end *)
(* puts even that right (cowfs_read, cowfs_write, cowfs_llseek).           *)
PositionExact == ~adrift => pos.upper = pos.posix

(* Whatever buffers the directory is read with, wherever the shadow        *)
(* directory lies, and whatever is made and removed meanwhile: the shadow  *)
(* directory is never shown, a name that was there all the time is shown   *)
(* once at most, and when the reader is told that this is the end, none of *)
(* them is missing (cowfs_filldir, cowfs_iterate_shared).                  *)
ListingExact ==
  /\ listed[Shadow] = 0
  /\ \A n \in kept : listed[n] <= 1
  /\ dir.end => \A n \in kept \ {Shadow} : listed[n] = 1

=============================================================================
