------------------------- MODULE CowPositionProofs -------------------------
(***************************************************************************)
(* Proofs about CowPosition, for every size of the file, every number of   *)
(* slots and names, and every size of the buffers.                         *)
(***************************************************************************)
EXTENDS CowPosition, TLAPS, FiniteSetTheorems, WellFoundedInduction

(* A file nobody has read or written since the last lseek has both its     *)
(* positions at the same place.  PositionExact is not inductive without    *)
(* that: a relative lseek starts at the lower position.                    *)
Together == ~moved => pos.upper = pos.lower

(* Inductive.                                                              *)
PosInv ==
  /\ size \in Position /\ pos \in [upper : Position, lower : Position, posix : Position]
  /\ moved \in BOOLEAN /\ adrift \in BOOLEAN
  /\ PositionExact /\ Together

(* No name is in two slots.                                                *)
OneSlot == \A s, q \in 1..Slots : slot[s] = slot[q] => s = q \/ slot[s] = NoName

(* A name that has been there since the directory was opened is in a slot, *)
(* and has been shown if that slot is behind the lower file's position.    *)
KeptShown ==
  \A n \in kept : \E s \in 1..Slots :
    /\ slot[s] = n
    /\ listed[n] = IF s <= dir.lower /\ n # Shadow THEN 1 ELSE 0

(* Inductive.                                                              *)
ListInv ==
  /\ slot \in [1..Slots -> Name \cup {NoName}]
  /\ dir \in [open : BOOLEAN, upper : 0..Slots, lower : 0..Slots, end : BOOLEAN]
  /\ kept \subseteq Name /\ listed \in [Name -> Nat]
  /\ OneSlot /\ KeptShown
  /\ listed[Shadow] = 0
  /\ dir.end => dir.lower = Slots

-----------------------------------------------------------------------------
(* The file.                                                               *)

(* Where an lseek goes.                                                    *)
LEMMA SeekToCases ==
  ASSUME NEW off, NEW from
  PROVE  /\ SeekTo("SET", off, from) = off
         /\ SeekTo("CUR", off, from) = from + off
         /\ SeekTo("END", off, from) = size + off
<1>1. "SET" # "CUR" /\ "SET" # "END" /\ "CUR" # "END"  OBVIOUS
<1>2. SeekTo("SET", off, from) = off  BY <1>1, Zenon DEF SeekTo
<1>3. SeekTo("CUR", off, from) = from + off  BY <1>1, Zenon DEF SeekTo
<1>4. SeekTo("END", off, from) = size + off  BY <1>1, Zenon DEF SeekTo
<1> QED  BY <1>2, <1>3, <1>4

(* It goes to a number, and where an absolute one goes does not depend on  *)
(* where the file was.                                                     *)
LEMMA SoughtPlace ==
  ASSUME PosInv, NEW w \in {"SET", "CUR", "END"}, NEW off \in -MaxSize..MaxSize,
         NEW from \in Position, NEW other \in Position
  PROVE  /\ Sought(w, off, from) \in Nat
         /\ Absolute(w, off) => Sought(w, off, from) = Sought(w, off, other)
<1>1. /\ size \in Nat /\ from \in Nat /\ other \in Nat /\ off \in Int /\ 0 \in Nat
  BY PositionAssumption DEF PosInv, Position
<1>2. SeekTo(w, off, from) \in Int  BY <1>1, SeekToCases
<1>3. Sought(w, off, from) \in Nat  BY <1>1, <1>2 DEF Sought
<1>4. ASSUME Absolute(w, off) PROVE Sought(w, off, from) = Sought(w, off, other)
  <2>1. w # "CUR" /\ SeekTo(w, off, 0) >= 0  BY <1>4 DEF Absolute
  <2>2. /\ SeekTo(w, off, from) = SeekTo(w, off, 0)
        /\ SeekTo(w, off, other) = SeekTo(w, off, 0)
        /\ SeekTo(w, off, 0) \in Int
    BY <1>1, <2>1, SeekToCases
  <2> QED  BY <2>1, <2>2 DEF Sought
<1> QED  BY <1>3, <1>4

(* A read or a write moves the upper position where POSIX moves its own.   *)
LEMMA MovesKeep ==
  ASSUME PosInv, NEW n \in Position, pos' = Moves(n), moved' = TRUE, adrift' = adrift,
         size' \in Position
  PROVE  PosInv'
<1>1. /\ pos' \in [upper : Position, lower : Position, posix : Position]
      /\ pos'.upper = n /\ pos'.posix = n
  BY DEF PosInv, Moves
<1> QED  BY <1>1 DEF PosInv, PositionExact, Together

(* Every step preserves PosInv.                                            *)
LEMMA PosNext == PosInv /\ [Next]_vars => PosInv'
<1> SUFFICES ASSUME PosInv, [Next]_vars PROVE PosInv'  OBVIOUS
<1>0. /\ size \in 0..MaxSize /\ pos.upper \in 0..MaxSize /\ pos.lower \in 0..MaxSize
      /\ pos.posix \in 0..MaxSize /\ MaxSize \in Nat
  BY PositionAssumption DEF PosInv, Position
<1>1. ASSUME NEW n \in 1..MaxSize, cowfs_read(n) PROVE PosInv'
  <2>1. Least(pos.upper + n, size) \in Position  BY <1>0 DEF Least, Position
  <2> QED  BY <1>0, <1>1, <2>1, MovesKeep DEF cowfs_read, Position
<1>2. ASSUME NEW n \in 1..MaxSize, cowfs_write(n) PROVE PosInv'
  <2>1. pos.upper + n \in Position /\ size' \in Position
    BY <1>0, <1>2 DEF cowfs_write, Position
  <2> QED  BY <1>2, <2>1, MovesKeep DEF cowfs_write
<1>3. ASSUME NEW w \in {"SET", "CUR", "END"}, NEW off \in -MaxSize..MaxSize, cowfs_llseek(w, off)
      PROVE  PosInv'
  <2>1. pos.lower \in Position /\ pos.posix \in Position  BY DEF PosInv
  <2>2. PICK l : l = Sought(w, off, pos.lower)  OBVIOUS
  <2>3. PICK p : p = Sought(w, off, pos.posix)  OBVIOUS
  <2>4. l \in Position /\ p \in Position
    <3>1. l \in Nat /\ p \in Nat  BY <2>1, <2>2, <2>3, SoughtPlace
    <3>2. l <= MaxSize /\ p <= MaxSize  BY <1>3, <2>2, <2>3 DEF cowfs_llseek
    <3> QED  BY <1>0, <3>1, <3>2 DEF Position
  <2>5. pos' = [lower |-> l, upper |-> l, posix |-> p]
    BY <1>3, <2>2, <2>3 DEF cowfs_llseek, Seeked
  <2>6. Absolute(w, off) => l = p  BY <2>1, <2>2, <2>3, SoughtPlace
  <2>7. ~adrift /\ ~moved => l = p  BY <2>2, <2>3 DEF PosInv, PositionExact, Together
  <2>8. size' = size /\ moved' = FALSE /\ adrift' = (~Absolute(w, off) /\ (adrift \/ moved))
    BY <1>3 DEF cowfs_llseek
  <2>9. adrift' \in BOOLEAN /\ (~adrift' => l = p)
    <3>1. CASE Absolute(w, off)  BY <2>6, <2>8, <3>1
    <3>2. CASE ~Absolute(w, off) /\ (adrift \/ moved)  BY <2>8, <3>2
    <3>3. CASE ~adrift /\ ~moved  BY <2>7, <2>8, <3>3
    <3> QED  BY <3>1, <3>2, <3>3
  <2> QED  BY <2>4, <2>5, <2>8, <2>9 DEF PosInv, PositionExact, Together
<1>4. CASE cowfs_open
  <2>1. 0 \in Position  BY PositionAssumption DEF Position
  <2> QED  BY <1>4, <2>1 DEF cowfs_open, Opened, PosInv, PositionExact, Together
<1>5. CASE UNCHANGED fileVars
  BY <1>5 DEF fileVars, PosInv, PositionExact, Together
<1> QED
  BY <1>1, <1>2, <1>3, <1>4, <1>5 DEF Next, vars, fileVars, cowfs_dir_open, cowfs_dir_release,
    cowfs_iterate_shared, DirLlseek, LowerCreates, LowerRemoves

(* Every open file begins with its positions together.                     *)
LEMMA PosInit == Init => PosInv
<1> SUFFICES ASSUME Init PROVE PosInv  OBVIOUS
<1>1. 0 \in Position  BY PositionAssumption DEF Position
<1>2. /\ size \in Position /\ moved = FALSE /\ adrift = FALSE
      /\ pos = [upper |-> 0, lower |-> 0, posix |-> 0]
  BY DEF Init, Opened
<1> QED  BY <1>1, <1>2 DEF PosInv, PositionExact, Together

(* After any sequence of reads, writes and seeks the next read or write is *)
(* where POSIX says it is, unless a relative or failed lseek followed a    *)
(* read or a write and no absolute one came since (cowfs_read,             *)
(* cowfs_write, cowfs_llseek).                                             *)
THEOREM PositionCorrect == Spec => []PositionExact
<1>1. PosInv => PositionExact  BY DEF PosInv
<1> QED  BY <1>1, PosInit, PosNext, PTL DEF Spec

-----------------------------------------------------------------------------
(* The directory.                                                          *)

(* The least-number principle, for Min.                                    *)
LEMMA MinOfNaturals ==
  ASSUME NEW P \in SUBSET Nat, P # {}
  PROVE  Min(P) \in P /\ \A x \in P : Min(P) <= x
<1> DEFINE R == {ss \in Nat \X Nat : ss[1] < ss[2]}
<1>1. IsWellFoundedOn(R, Nat)  BY NatLessThanWellFounded DEF OpToRel
<1> HIDE DEF R
<1>2. PICK m \in P : \A x \in P : ~(<<x, m>> \in R)  BY <1>1, WFMin
<1>3. ASSUME NEW x \in P PROVE m <= x
  <2>1. <<x, m>> \in Nat \X Nat  OBVIOUS
  <2>2. ~(x < m)  BY <1>2, <2>1 DEF R
  <2> QED  BY <2>2
<1> QED  BY <1>3 DEF Min

(* What the state of the directory is made of.                             *)
LEMMA ListParts ==
  ASSUME ListInv
  PROVE  /\ Slots \in Nat /\ Shadow \in Name /\ NoName \notin Name
         /\ dir.lower \in 0..Slots /\ dir.upper \in 0..Slots
         /\ \A s \in Ahead : s \in 1..Slots /\ s > dir.lower /\ slot[s] # NoName
         /\ \A s \in Shown : s \in Ahead /\ slot[s] \in Name /\ slot[s] # Shadow
         /\ \A s \in 1..Slots : s > dir.lower /\ slot[s] \notin {NoName, Shadow} => s \in Shown
<1>1. /\ Slots \in Nat /\ Shadow \in Name /\ NoName \notin Name
      /\ dir.lower \in 0..Slots /\ dir.upper \in 0..Slots
  BY PositionAssumption DEF ListInv
<1>2. \A s \in Ahead : s \in 1..Slots /\ s > dir.lower /\ slot[s] # NoName  BY <1>1 DEF Ahead
<1>3. \A s \in Shown : s \in Ahead /\ slot[s] \in Name /\ slot[s] # Shadow
  BY <1>2 DEF Shown, Hidden, ListInv
<1>4. \A s \in 1..Slots : s > dir.lower /\ slot[s] \notin {NoName, Shadow} => s \in Shown
  BY <1>1 DEF Shown, Ahead, Hidden
<1> QED  BY <1>1, <1>2, <1>3, <1>4

(* A getdents goes on, within the directory, and as long as there is       *)
(* something to show it shows something: the first entry that is refused   *)
(* comes after one that fills the buffer.                                  *)
LEMMA ReachGoesOn ==
  ASSUME ListInv, NEW b \in Buffers
  PROVE  /\ Reach(b) \in 0..Slots /\ Reach(b) >= dir.lower
         /\ Reach(b) # Slots => \E s \in Shown : s <= Reach(b)
<1>0. b \in Nat \ {0}  BY PositionAssumption
<1>1. CASE Refused(b) = {}  BY <1>1, ListParts DEF Reach
<1>2. CASE Refused(b) # {}
  <2>1. Refused(b) \in SUBSET Nat  BY ListParts DEF Refused
  <2>2. PICK m : m = Min(Refused(b))  OBVIOUS
  <2>3. m \in Refused(b)  BY <1>2, <2>1, <2>2, MinOfNaturals
  <2>4. m \in Shown /\ Cardinality({r \in Shown : r < m}) >= b  BY <2>3 DEF Refused
  <2>5. m \in 1..Slots /\ m > dir.lower  BY <2>4, ListParts
  <2>6. {r \in Shown : r < m} # {}  BY <1>0, <2>4, FS_EmptySet
  <2>7. PICK s \in Shown : s < m  BY <2>6
  <2>8. Reach(b) = m - 1  BY <1>2, <2>2 DEF Reach
  <2>9. s \in 1..Slots  BY ListParts
  <2> QED  BY <2>5, <2>7, <2>8, <2>9, ListParts
<1> QED  BY <1>1, <1>2

(* getdents.                                                               *)
LEMMA IterateKeeps ==
  ASSUME ListInv, NEW b \in Buffers, cowfs_iterate_shared(b)
  PROVE  ListInv'
<1> DEFINE emitted == {slot[s] : s \in {r \in Shown : r <= Reach(b)}}
<1>1. PICK e : e = emitted  OBVIOUS
<1>2. PICK l : l = Reach(b)  OBVIOUS
<1>3. /\ dir' = [dir EXCEPT !.lower = l, !.upper = l, !.end = e = {}]
      /\ listed' = [n \in Name |-> listed[n] + IF n \in e THEN 1 ELSE 0]
      /\ slot' = slot /\ kept' = kept
  BY <1>1, <1>2 DEF cowfs_iterate_shared
<1>4. l \in 0..Slots /\ l >= dir.lower /\ (l # Slots => \E s \in Shown : s <= l)
  BY <1>2, ReachGoesOn
<1>5. \A n : n \in e <=> \E s \in Shown : s <= l /\ slot[s] = n
  BY <1>1, <1>2
<1> HIDE DEF emitted
<1>6. dir' \in [open : BOOLEAN, upper : 0..Slots, lower : 0..Slots, end : BOOLEAN]
  BY <1>3, <1>4 DEF ListInv
<1>7. dir'.lower = l /\ dir'.end = (e = {})  BY <1>3 DEF ListInv
<1>8. dir'.end => dir'.lower = Slots
  <2>1. ASSUME l # Slots PROVE e # {}
    <3>1. PICK s \in Shown : s <= l  BY <1>4, <2>1
    <3>2. slot[s] \in e  BY <1>5, <3>1
    <3> QED  BY <3>2
  <2> QED  BY <1>7, <2>1
<1>9. listed \in [Name -> Nat]  BY DEF ListInv
<1>10. \A n \in Name : listed'[n] = listed[n] + IF n \in e THEN 1 ELSE 0  BY <1>3
<1>11. listed' \in [Name -> Nat]
  <2>1. \A n \in Name : (listed[n] + IF n \in e THEN 1 ELSE 0) \in Nat  BY <1>9
  <2> QED  BY <1>3, <2>1
<1>12. Shadow \notin e  BY <1>5, ListParts
<1>13. listed'[Shadow] = 0
  <2>1. Shadow \in Name /\ listed[Shadow] = 0  BY ListParts DEF ListInv
  <2>2. listed'[Shadow] = listed[Shadow] + 0  BY <1>10, <1>12, <2>1
  <2> QED  BY <2>1, <2>2
<1>14. ASSUME NEW n \in kept
       PROVE  \E s \in 1..Slots :
                 /\ slot[s] = n
                 /\ listed'[n] = IF s <= l /\ n # Shadow THEN 1 ELSE 0
  <2>1. PICK s \in 1..Slots :
          slot[s] = n /\ listed[n] = IF s <= dir.lower /\ n # Shadow THEN 1 ELSE 0
    BY DEF ListInv, KeptShown
  <2>2. n \in Name /\ n # NoName /\ s \in Nat /\ l \in Nat /\ dir.lower \in Nat
    BY <1>4, ListParts DEF ListInv
  <2>3. n \in e <=> s \in Shown /\ s <= l
    <3>1. ASSUME NEW q \in Shown, slot[q] = n PROVE q = s
      <4>1. q \in 1..Slots  BY <3>1, ListParts
      <4> QED  BY <2>1, <2>2, <3>1, <4>1 DEF ListInv, OneSlot
    <3> QED  BY <1>5, <2>1, <3>1
  <2>4. n # Shadow => (s \in Shown <=> s > dir.lower)  BY <2>1, <2>2, ListParts
  <2>5. CASE n = Shadow  BY <1>13, <2>1, <2>5
  <2>6. CASE n # Shadow /\ s <= dir.lower
    <3>1. n \notin e /\ s <= l  BY <1>4, <2>2, <2>3, <2>4, <2>6
    <3> QED  BY <1>10, <2>1, <2>2, <2>6, <3>1
  <2>7. CASE n # Shadow /\ s > dir.lower
    <3>1. n \in e <=> s <= l  BY <2>3, <2>4, <2>7
    <3> QED  BY <1>10, <2>1, <2>2, <2>7, <3>1
  <2> QED  BY <2>2, <2>5, <2>6, <2>7
<1>15. KeptShown'  BY <1>3, <1>7, <1>14 DEF KeptShown
<1>16. OneSlot'  BY <1>3 DEF OneSlot, ListInv
<1> QED  BY <1>3, <1>6, <1>8, <1>11, <1>13, <1>15, <1>16 DEF ListInv

(* Every step preserves ListInv.                                           *)
LEMMA ListNext == ListInv /\ [Next]_vars => ListInv'
<1> SUFFICES ASSUME ListInv, [Next]_vars PROVE ListInv'  OBVIOUS
<1>0. /\ Slots \in Nat /\ Shadow \in Name /\ NoName \notin Name /\ 0 \in 0..Slots
      /\ slot \in [1..Slots -> Name \cup {NoName}]
      /\ dir \in [open : BOOLEAN, upper : 0..Slots, lower : 0..Slots, end : BOOLEAN]
      /\ kept \subseteq Name /\ listed \in [Name -> Nat]
      /\ OneSlot /\ KeptShown /\ listed[Shadow] = 0 /\ (dir.end => dir.lower = Slots)
  BY PositionAssumption DEF ListInv
<1>1. CASE cowfs_dir_open
  <2>1. /\ dir' = [DirClosed EXCEPT !.open = TRUE] /\ kept' = Present
        /\ listed' = [n \in Name |-> 0] /\ slot' = slot
    BY <1>1 DEF cowfs_dir_open
  <2>2. dir' = [open |-> TRUE, upper |-> 0, lower |-> 0, end |-> FALSE]
    BY <2>1 DEF DirClosed
  <2>3. kept' \subseteq Name  BY <1>0, <2>1 DEF Present
  <2>4. KeptShown'
    <3>1. ASSUME NEW n \in Present
          PROVE  \E s \in 1..Slots : slot[s] = n /\ ~(s <= 0)
      BY <1>0 DEF Present
    <3>2. \A n \in Present : listed'[n] = 0  BY <2>1, <2>3
    <3> QED  BY <2>1, <2>2, <3>1, <3>2 DEF KeptShown
  <2>5. OneSlot'  BY <1>0, <2>1 DEF OneSlot
  <2>6. listed' \in [Name -> Nat] /\ listed'[Shadow] = 0  BY <1>0, <2>1
  <2>7. /\ dir' \in [open : BOOLEAN, upper : 0..Slots, lower : 0..Slots, end : BOOLEAN]
        /\ ~dir'.end
    BY <1>0, <2>2
  <2> QED  BY <1>0, <2>1, <2>3, <2>4, <2>5, <2>6, <2>7 DEF ListInv
<1>2. CASE cowfs_dir_release
  <2>1. /\ dir' = DirClosed /\ kept' = {} /\ listed' = [n \in Name |-> 0] /\ slot' = slot
    BY <1>2 DEF cowfs_dir_release
  <2>2. dir' = [open |-> FALSE, upper |-> 0, lower |-> 0, end |-> FALSE]
    BY <2>1 DEF DirClosed
  <2> QED  BY <1>0, <2>1, <2>2 DEF ListInv, OneSlot, KeptShown
<1>3. ASSUME NEW n \in 0..Slots, DirLlseek(n) PROVE ListInv'
  <2>1. dir' = [dir EXCEPT !.upper = n] /\ UNCHANGED <<slot, kept, listed>>
    BY <1>3 DEF DirLlseek
  <2>2. /\ dir' \in [open : BOOLEAN, upper : 0..Slots, lower : 0..Slots, end : BOOLEAN]
        /\ dir'.lower = dir.lower /\ dir'.end = dir.end
    BY <1>0, <2>1
  <2> QED  BY <1>0, <2>1, <2>2 DEF ListInv, OneSlot, KeptShown
<1>4. ASSUME NEW n \in Name, NEW s \in 1..Slots, LowerCreates(n, s) PROVE ListInv'
  <2>1. /\ slot[s] = NoName /\ n \notin Present /\ slot' = [slot EXCEPT ![s] = n]
        /\ UNCHANGED <<dir, kept, listed>>
    BY <1>4 DEF LowerCreates
  <2>2. \A q \in 1..Slots : slot[q] # n  BY <1>0, <2>1 DEF Present
  <2>3. OneSlot'  BY <1>0, <2>1, <2>2 DEF OneSlot
  <2>4. KeptShown'
    <3>1. ASSUME NEW m \in kept
          PROVE  \E q \in 1..Slots :
                   slot'[q] = m /\ listed[m] = IF q <= dir.lower /\ m # Shadow THEN 1 ELSE 0
      <4>1. PICK q \in 1..Slots :
              slot[q] = m /\ listed[m] = IF q <= dir.lower /\ m # Shadow THEN 1 ELSE 0
        BY <1>0 DEF KeptShown
      <4>2. q # s  BY <1>0, <2>1, <4>1
      <4> QED  BY <1>0, <2>1, <4>1, <4>2
    <3> QED  BY <2>1, <3>1 DEF KeptShown
  <2> QED  BY <1>0, <2>1, <2>3, <2>4 DEF ListInv
<1>5. ASSUME NEW s \in 1..Slots, LowerRemoves(s) PROVE ListInv'
  <2>1. /\ slot' = [slot EXCEPT ![s] = NoName] /\ kept' = kept \ {slot[s]}
        /\ UNCHANGED <<dir, listed>>
    BY <1>5 DEF LowerRemoves
  <2>2. OneSlot'  BY <1>0, <2>1 DEF OneSlot
  <2>3. KeptShown'
    <3>1. ASSUME NEW m \in kept \ {slot[s]}
          PROVE  \E q \in 1..Slots :
                   slot'[q] = m /\ listed[m] = IF q <= dir.lower /\ m # Shadow THEN 1 ELSE 0
      <4>1. PICK q \in 1..Slots :
              slot[q] = m /\ listed[m] = IF q <= dir.lower /\ m # Shadow THEN 1 ELSE 0
        BY <1>0 DEF KeptShown
      <4> QED  BY <1>0, <2>1, <4>1
    <3> QED  BY <2>1, <3>1 DEF KeptShown
  <2> QED  BY <1>0, <2>1, <2>2, <2>3 DEF ListInv
<1>6. ASSUME NEW b \in Buffers, cowfs_iterate_shared(b) PROVE ListInv'
  BY <1>6, IterateKeeps
<1>7. CASE UNCHANGED dirVars
  <2>1. UNCHANGED <<slot, dir, kept, listed>>  BY <1>7 DEF dirVars
  <2> QED  BY <1>0, <2>1 DEF ListInv, OneSlot, KeptShown
<1> QED
  BY <1>1, <1>2, <1>3, <1>4, <1>5, <1>6, <1>7 DEF Next, vars, dirVars, cowfs_read, cowfs_write,
    cowfs_llseek, cowfs_open

(* At first the directory is not open.                                     *)
LEMMA ListInit == Init => ListInv
<1> SUFFICES ASSUME Init PROVE ListInv  OBVIOUS
<1>0. Slots \in Nat /\ Shadow \in Name  BY PositionAssumption
<1>1. slot \in [1..Slots -> Name \cup {NoName}] /\ OneSlot  BY DEF Init, OneSlot
<1>2. /\ dir = [open |-> FALSE, upper |-> 0, lower |-> 0, end |-> FALSE]
      /\ kept = {} /\ listed = [n \in Name |-> 0]
  BY DEF Init, DirClosed
<1> QED  BY <1>0, <1>1, <1>2 DEF ListInv, KeptShown

(* Both halves have their types throughout: no position leaves the file or *)
(* the directory (cowfs_llseek, cowfs_iterate_shared).                     *)
THEOREM PositionTypeCorrect == Spec => []TypeOK
<1>1. PosInv /\ ListInv => TypeOK  BY DEF PosInv, ListInv, TypeOK
<1> QED  BY <1>1, PosInit, PosNext, ListInit, ListNext, PTL DEF Spec

(* With any buffers, wherever the shadow directory lies and whatever is    *)
(* made and removed meanwhile: the shadow directory is never shown, a name *)
(* that was there all the time is shown once at most, and none of them is  *)
(* missing when the end is reported (cowfs_filldir, cowfs_iterate_shared). *)
THEOREM ListingCorrect == Spec => []ListingExact
<1>1. ListInv => ListingExact
  <2> SUFFICES ASSUME ListInv PROVE ListingExact  OBVIOUS
  <2>1. ASSUME NEW n \in kept
        PROVE  listed[n] <= 1 /\ (dir.end /\ n # Shadow => listed[n] = 1)
    <3>1. PICK s \in 1..Slots :
            slot[s] = n /\ listed[n] = IF s <= dir.lower /\ n # Shadow THEN 1 ELSE 0
      BY DEF ListInv, KeptShown
    <3> QED  BY <3>1, ListParts DEF ListInv
  <2> QED  BY <2>1 DEF ListingExact, ListInv
<1> QED  BY <1>1, ListInit, ListNext, PTL DEF Spec

=============================================================================
