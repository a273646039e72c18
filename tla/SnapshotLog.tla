---------------------------- MODULE SnapshotLog ----------------------------
(***************************************************************************)
(* What the version table promises to those who roll operations back: for  *)
(* every inode a log of snapshots, of bounded length.  A snapshot is        *)
(* entered at once and complete, it never changes, and it leaves only       *)
(* because it is older than the window, because it is the first of a full  *)
(* log and a new one is entered, or because the module is unloaded.        *)
(*                                                                         *)
(* There is one lock, no half-done copy, no file and no collector here:    *)
(* CowVersions implements this module (ImplementsLog).                     *)
(***************************************************************************)
EXTENDS Integers, FiniteSets

CONSTANTS
  Inode,    \* lower inode numbers
  Limit,    \* how many snapshots a log holds at most
  Window,   \* the least age at which a snapshot may be dropped
  Copy      \* what may be saved of a file's content

VARIABLES
  log,      \* the snapshots of each inode
  clock     \* the time

logVars == <<log, clock>>

(* The nth snapshot taken of any file, at time ts, before an operation.    *)
Snapshot == [n : Nat, ts : Nat, op : {"WRITE", "UNLINK", "RENAME", "SETATTR"}, copy : Copy]

(* A write or an unlink without a copy is not worth a snapshot, and a      *)
(* rename destroys no content.                                             *)
Sensible(s) ==
  /\ s.op \in {"WRITE", "UNLINK"} => s.copy # "none"
  /\ s.op = "RENAME" => s.copy = "none"

Init ==
  /\ log = [i \in Inode |-> {}]
  /\ clock \in Nat

Newest(i, s) == \A j \in Inode : \A r \in log[j] : r.n < s.n

Enter(i, s) ==
  /\ Cardinality(log[i]) < Limit
  /\ log' = [log EXCEPT ![i] = @ \cup {s}]

Replace(i, s) ==
  /\ Cardinality(log[i]) = Limit
  /\ \E r \in log[i] :
       /\ \A q \in log[i] : r.n <= q.n
       /\ log' = [log EXCEPT ![i] = (@ \ {r}) \cup {s}]

Take ==
  \E i \in Inode : \E s \in log'[i] \ log[i] :
    /\ s \in Snapshot
    /\ s.ts <= clock
    /\ Sensible(s)
    /\ Newest(i, s)
    /\ Enter(i, s) \/ Replace(i, s)
    /\ UNCHANGED clock

(* Everything older than some moment goes, in all the logs at once.        *)
Expire ==
  /\ \E cutoff \in 0..clock :
       /\ cutoff + Window <= clock
       /\ log' = [i \in Inode |-> {s \in log[i] : s.ts >= cutoff}]
  /\ UNCHANGED clock

Unload ==
  /\ log' = [i \in Inode |-> {}]
  /\ UNCHANGED clock

Pass == clock' \in Nat /\ clock' > clock /\ UNCHANGED log

Next == Take \/ Expire \/ Unload \/ Pass

Spec == Init /\ [][Next]_logVars
=============================================================================
