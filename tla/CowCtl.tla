------------------------------- MODULE CowCtl -------------------------------
(***************************************************************************)
(* cowctl (userspace/cowctl.c) and the two requests it sends to the        *)
(* control device: what list prints of a file's versions, and which        *)
(* version rollback finds for what somebody copies from there and types    *)
(* some time later.  Meanwhile files are changed, come to the path and go, *)
(* versions are added, evicted and collected, and the clock is set.  There *)
(* is one path, and the files are those that have its last component as a  *)
(* name, here or in other directories.  What a rollback does to the trees  *)
(* is in CowNamespace.  As in CowVersions a list is the set of its         *)
(* versions, whose pos says how late each was added: it runs from the      *)
(* greatest pos down.                                                      *)
(***************************************************************************)
EXTENDS Integers, FiniteSets

CONSTANTS
  Inode,        \* lower inode numbers, which may be given out again
  None,         \* no file, no version, no report
  NsecPerSec,   \* nanoseconds in a second
  Epoch,        \* the least stamp
  MaxTime,      \* the greatest
  MaxAdded,     \* bound on the versions that are added
  MaxPending,   \* bound on the operations that save at the same time
  MaxVersions,  \* COWFS_MAX_VERSIONS
  IocMax        \* COWFS_IOC_MAX_VERSIONS

ASSUME CtlAssumption ==
  /\ {NsecPerSec, Epoch, MaxTime, MaxAdded, MaxPending} \subseteq Nat \ {0}
  /\ {MaxVersions, IocMax} \subseteq Nat \ {0}
  /\ Epoch <= MaxTime
  /\ None \notin Inode

VARIABLES
  name,     \* the inode that the path leads to, or None
  table,    \* per inode the list of its versions
  added,    \* how many versions have been added to a list
  pending,  \* versions that are stamped and not yet added
  given,    \* how often each stamp has been given, up to twice
  shown,    \* the rows that the last list has printed
  last      \* the rollback that the last step was, with what it found

tableVars == <<table, added>>
vars == <<name, table, added, pending, given, shown, last>>

-----------------------------------------------------------------------------

Op == 1..4  \* enum cow_op: WRITE, UNLINK, RENAME, SETATTR
WRITE == 1
UNLINK == 2
RENAME == 3
SETATTR == 4

Stamp == Epoch..MaxTime
Version == [ino : Inode, ts : Stamp, op : Op, data : BOOLEAN, pos : Nat]

op_name(op) ==
  CASE op = 1 -> "WRITE"
    [] op = 2 -> "UNLINK"
    [] op = 3 -> "RENAME"
    [] op = 4 -> "SETATTR"
    [] OTHER  -> "UNKNOWN"

Path(v) == <<v.ino, v.ts>>

MetadataOnly == <<>>  \* "(metadata only)"

Row == [date : Nat, op : {"WRITE", "UNLINK", "RENAME", "SETATTR"},
        shadow : (Inode \X Stamp) \cup {MetadataOnly}]

(* The text that was typed, the digits it begins with (0 if it begins with *)
(* none), and the row it was copied from.                                  *)
Texts == {"", "latest", "stamp", "date", "word"}
Argument == [text : Texts, digits : Nat, row : (Inode \X Stamp) \cup {None}]

TypeOK ==
  /\ name \in Inode \cup {None}
  /\ table \in [Inode -> SUBSET Version]
  /\ \A i \in Inode : Cardinality(table[i]) <= MaxVersions
  /\ added \in Nat
  /\ pending \subseteq Version
  /\ given \in [Stamp -> 0..2]
  /\ shown \subseteq Row
  /\ Cardinality(shown) <= IocMax
  /\ last \in {None} \cup [arg : Argument, at : Inode \cup {None}, found : Version \cup {None}]

(* A file that cowfs has found in the lower directory.                     *)
Init ==
  /\ name \in Inode
  /\ table = [i \in Inode |-> {}]
  /\ added = 0
  /\ pending = {}
  /\ given = [ts \in Stamp |-> 0]
  /\ shown = {}
  /\ last = None

-----------------------------------------------------------------------------
(* The operations on files, as far as the table sees them.                 *)

(* A file comes to the path: one that is made, perhaps with a number that  *)
(* was given out before, or gets another name.                             *)
Create ==
  /\ name = None
  /\ name' \in Inode
  /\ last' = None
  /\ UNCHANGED <<tableVars, pending, given, shown>>

(* The path loses its file in an operation for which there is no memory    *)
(* for a version.                                                          *)
Unsaved ==
  /\ name # None
  /\ name' = None
  /\ last' = None
  /\ UNCHANGED <<tableVars, pending, given, shown>>

(* An operation on a file, at the path or elsewhere, stamps its version    *)
(* with the time of day, which is set now and then.  Only writes overlap:  *)
(* the VFS locks the inode for the others.  (Two pending versions that     *)
(* agree in everything, their stamp included, are one here.)               *)
cowfs_version_alloc(ino, ts, op, data) ==
  /\ added + Cardinality(pending) < MaxAdded
  /\ Cardinality(pending) < MaxPending
  /\ op \in {WRITE, UNLINK} => data
  /\ op = RENAME => ~data
  /\ op # WRITE => \A v \in pending : v.ino = ino => v.op = WRITE
  /\ pending' = pending \cup {[ino |-> ino, ts |-> ts, op |-> op, data |-> data, pos |-> 0]}
  /\ given' = [given EXCEPT ![ts] = IF @ = 0 THEN 1 ELSE 2]
  /\ last' = None
  /\ UNCHANGED <<name, tableVars, shown>>

(* The first and the last version of a list.                               *)
ListHead(vs) == CHOOSE v \in vs : \A w \in vs : w.pos <= v.pos
ListTail(vs) == CHOOSE v \in vs : \A w \in vs : v.pos <= w.pos

(* The list after a version has come in at its head, and the oldest one    *)
(* has left a full list.                                                   *)
Inserted_NoEviction(vs, v) == vs \cup {v}
Inserted(vs, v) ==
  (IF Cardinality(vs) >= MaxVersions THEN vs \ {ListTail(vs)} ELSE vs) \cup {v}

AddToTable(v) ==
  /\ table' = [table EXCEPT ![v.ino] = Inserted(@, [v EXCEPT !.pos = added + 1])]
  /\ added' = added + 1

(* An unlink removes the path, or the same name in another directory; a    *)
(* rename takes the file away from the path, or brings it there in place   *)
(* of another; or the lower file system refuses.                           *)
Goes(v) ==
  \/ v.op \in {UNLINK, RENAME} /\ name = v.ino /\ name' = None
  \/ v.op = RENAME /\ name' = v.ino
  \/ UNCHANGED name

cowfs_version_add(v) ==
  /\ pending' = pending \ {v}
  /\ AddToTable(v)
  /\ Goes(v)
  /\ last' = None
  /\ UNCHANGED <<given, shown>>

(* The copy fails, the version is freed, and the operation goes on; a      *)
(* setattr goes on with a version without data.                            *)
CopyFails(v) ==
  /\ v.data
  /\ pending' = pending \ {v}
  /\ \/ v.op = SETATTR /\ AddToTable([v EXCEPT !.data = FALSE])
     \/ v.op # SETATTR /\ UNCHANGED tableVars
  /\ Goes(v)
  /\ last' = None
  /\ UNCHANGED <<given, shown>>

cowfs_version_gc(cutoff) ==
  /\ \E i \in Inode : \E v \in table[i] : v.ts < cutoff
  /\ table' = [i \in Inode |-> {v \in table[i] : v.ts >= cutoff}]
  /\ last' = None
  /\ UNCHANGED <<name, added, pending, given, shown>>

-----------------------------------------------------------------------------
(* cowctl list.                                                            *)

(* The first max versions of the list.                                     *)
cowfs_version_list(i, max) ==
  {v \in table[i] : Cardinality({w \in table[i] : w.pos > v.pos}) < max}

(* localtime of the seconds, the name of the operation and the path.       *)
Printed(v) ==
  [date   |-> v.ts \div NsecPerSec,
   op     |-> op_name(v.op),
   shadow |-> IF v.data THEN Path(v) ELSE MetadataOnly]

cmd_list ==
  /\ name # None
  /\ shown' = {Printed(v) : v \in cowfs_version_list(name, IocMax)}
  /\ last' = None
  /\ UNCHANGED <<name, tableVars, pending, given>>

(* LIST of a path that leads nowhere is -ENOENT, also if there are         *)
(* versions of a deleted file.                                             *)
ListRefused ==
  /\ name = None
  /\ shown' = {}
  /\ last' = None
  /\ UNCHANGED <<name, tableVars, pending, given>>

-----------------------------------------------------------------------------
(* cowctl rollback.                                                        *)

(* What somebody types: nothing, "latest", a number at the end of the      *)
(* SHADOW column, a time of the TIMESTAMP column in seconds, or a word.    *)
Arguments ==
  {[text |-> t, digits |-> 0, row |-> None] : t \in {"", "latest", "word"}}
    \cup {[text |-> "stamp", digits |-> r.shadow[2], row |-> r.shadow] :
            r \in {s \in shown : s.shadow # MetadataOnly}}
    \cup {[text |-> "date", digits |-> r.date, row |-> None] : r \in shown}

(* strtoull, unless the argument is missing or "latest".                   *)
Timestamp(a) == IF a.text \in {"", "latest"} THEN 0 ELSE a.digits

(* The first one of the list that satisfies the request.                   *)
Matches_NotOlder(v, ts) == v.ts >= ts
Matches(v, ts) == ts = 0 \/ v.ts = ts

cowfs_version_find(i, ts) ==
  LET hits == {v \in table[i] : Matches(v, ts)}
  IN  IF hits = {} THEN None ELSE ListHead(hits)

Deleted(ts) ==
  {v \in UNION {table[i] : i \in Inode} : v.op = UNLINK /\ Matches(v, ts)}

LatestDeleted(D) == CHOOSE v \in D : \A w \in D : w.ts <= v.ts

(* A rename that is taken back may take the file away from the path.       *)
cmd_rollback(a) ==
  /\ name # None
  /\ \E v \in {cowfs_version_find(name, Timestamp(a))} :
       /\ last' = [arg |-> a, at |-> name, found |-> v]
       /\ \/ UNCHANGED name
          \/ v # None /\ v.op = RENAME /\ ~v.data /\ name' = None
  /\ UNCHANGED <<tableVars, pending, given, shown>>

(* The path leads nowhere: a file is made anew from a deleted version of   *)
(* this name, if vfs_create does not fail.                                 *)
rollback_deleted(a) ==
  /\ name = None
  /\ Deleted(Timestamp(a)) # {}
  /\ last' = [arg |-> a, at |-> None, found |-> LatestDeleted(Deleted(Timestamp(a)))]
  /\ name' \in Inode \/ UNCHANGED name
  /\ UNCHANGED <<tableVars, pending, given, shown>>

NothingDeleted(a) ==
  /\ name = None
  /\ Deleted(Timestamp(a)) = {}
  /\ last' = [arg |-> a, at |-> None, found |-> None]
  /\ UNCHANGED <<name, tableVars, pending, given, shown>>

-----------------------------------------------------------------------------

Next ==
  \/ Create
  \/ Unsaved
  \/ \E i \in Inode, ts \in Stamp, op \in Op, data \in BOOLEAN :
       cowfs_version_alloc(i, ts, op, data)
  \/ \E v \in pending : cowfs_version_add(v) \/ CopyFails(v)
  \/ \E cutoff \in Stamp : cowfs_version_gc(cutoff)
  \/ cmd_list
  \/ ListRefused
  \/ \E a \in Arguments : cmd_rollback(a) \/ rollback_deleted(a) \/ NothingDeleted(a)

Spec == Init /\ [][Next]_vars

-----------------------------------------------------------------------------
(* Properties.                                                             *)

(* The versions that a rollback could have found.                          *)
Candidates(r) == IF r.at = None THEN Deleted(0) ELSE table[r.at]

(* What list has shown can be given to rollback: a stamp copied from the   *)
(* SHADOW column finds the version that was printed in that row as long as *)
(* it is among those of the file that the path leads to, and otherwise     *)
(* nothing, whatever was written, evicted, collected, deleted, moved or    *)
(* made anew since, provided that the clock has shown this stamp to one    *)
(* operation only (cmd_list, cmd_rollback, cowfs_version_find,             *)
(* cowfs_version_find_deleted).                                            *)
RowExact ==
  last # None /\ last.arg.text = "stamp" /\ given[last.arg.digits] = 1 =>
    /\ last.found # None => Path(last.found) = last.arg.row
    /\ \A v \in Candidates(last) : Path(v) = last.arg.row => last.found = v

(* A time in seconds finds a version of that time, as in README:219-223,   *)
(* where 1718107150 is given to rollback (cmd_rollback,                    *)
(* cowfs_version_find).                                                    *)
SecondsFound ==
  /\ last # None
  /\ last.arg.text = "date"
  /\ \E v \in Candidates(last) : v.ts \div NsecPerSec = last.arg.digits
  => last.found # None

=============================================================================
