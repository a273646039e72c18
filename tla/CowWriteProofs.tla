--------------------------- MODULE CowWriteProofs ---------------------------
(***************************************************************************)
(* Proofs about CowWrite, for every number of threads and opens, every     *)
(* length of the file and every number of operations.                      *)
(***************************************************************************)
EXTENDS CowWrite, TLAPS, SequenceTheorems

(* What a block may hold.                                                  *)
Datum == 0..MaxOps + 2

(* What is kept with an open file.                                         *)
FileInfo == [by : Thread \cup {Nobody}, snapshot_taken : BOOLEAN]

(* What a thread is about.                                                 *)
Job == [pc : PC, op : {"none", "WRITE", "SETATTR", "ROLLBACK"}, file : Open \cup {NoFile},
        arg : 0..MaxBlocks, buf : Blocks, goal : Blocks, cut : BOOLEAN]

(* It has in hand what its next steps use.                                 *)
Shape(r) ==
  /\ r.pc \in {"flag", "write"} => r.op = "WRITE"
  /\ r.pc = "truncate" => r.op = "SETATTR"
  /\ r.pc = "copy" => r.op \in {"WRITE", "SETATTR"}
  /\ r.op = "WRITE" => r.file \in Open /\ r.arg \in 1..MaxBlocks /\ Len(r.goal) = 1
  /\ r.pc \notin {"copy", "restore"} => r.buf = <<>> /\ r.cut = FALSE

(* Inductive without any assumption.                                       *)
ShapeInv == TypeOK /\ \A t \in Thread : Shape(th[t])

(* A copy nobody disturbs has read what the file still begins with, but    *)
(* for damage; a restore nobody disturbs has written the whole file, and,  *)
(* but for damage, what the version begins with.                           *)
Faithful(t) ==
  /\ th[t].pc = "copy" =>
       /\ Len(th[t].buf) <= Len(content)
       /\ Same(th[t].buf, content, th[t].cut)
  /\ th[t].pc = "restore" =>
       /\ content = th[t].buf
       /\ Len(th[t].buf) <= Len(th[t].goal)
       /\ Same(th[t].buf, th[t].goal, th[t].cut)

(* Inductive without any assumption.                                       *)
CopyInv == ShapeInv /\ \A t \in Thread \ torn : Faithful(t)

(* The observed content is in no version, and nothing excuses that.        *)
Unsaved == base \notin saved /\ ~excused

(* An operation uses a descriptor that is open, and the opener's own.      *)
OwnFiles ==
  \A t \in Thread : th[t].file \in Open =>
    ofile[th[t].file].by = t /\ ofile[th[t].file].by # Nobody

(* As long as that is so the file is as it was observed, nobody is about   *)
(* to change it, copies of it are undisturbed, and a descriptor that needs *)
(* no snapshot any more is one whose opener is copying.                    *)
Guarded ==
  /\ content = base
  /\ \A t \in Thread : /\ th[t].pc \notin {"write", "truncate", "restore"}
                       /\ th[t].pc = "copy" => t \notin torn /\ ~th[t].cut
  /\ \A f \in Open : ofile[f].snapshot_taken =>
       \E t \in Thread : ofile[f].by = t /\ th[t].pc = "copy" /\ th[t].file = f

(* Inductive when no descriptor is shared.                                 *)
BaseInv == CopyInv /\ torn \subseteq Busy /\ OwnFiles /\ (Unsaved => Guarded)

-----------------------------------------------------------------------------
(* Contents of files.                                                      *)

(* A content is a sequence of at most MaxBlocks blocks.                    *)
LEMMA BlocksAreSeqs == Blocks = {c \in Seq(Datum) : Len(c) <= MaxBlocks}
<1>1. ASSUME NEW c \in Blocks PROVE c \in Seq(Datum) /\ Len(c) <= MaxBlocks
  <2>1. PICK n \in 0..MaxBlocks : c \in [1..n -> Datum]  BY DEF Blocks, Datum
  <2>2. n \in Nat  BY WriteAssumption
  <2>3. c \in Seq(Datum)  BY <2>1, <2>2, SeqDef
  <2>4. Len(c) = n  BY <2>1, <2>2, <2>3, LenProperties
  <2> QED  BY <2>1, <2>3, <2>4
<1>2. ASSUME NEW c \in Seq(Datum), Len(c) <= MaxBlocks PROVE c \in Blocks
  <2>1. Len(c) \in Nat /\ c \in [1..Len(c) -> Datum]  BY LenProperties
  <2>2. Len(c) \in 0..MaxBlocks  BY <1>2, <2>1, WriteAssumption
  <2> QED  BY <2>1, <2>2 DEF Blocks, Datum
<1> QED  BY <1>1, <1>2

(* A write of one block ...                                                *)
LEMMA WithBlockIn ==
  ASSUME NEW c \in Blocks, NEW k \in 1..MaxBlocks, NEW b \in Datum
  PROVE  /\ WithBlock(c, k, b) \in Blocks
         /\ Len(WithBlock(c, k, b)) = IF k > Len(c) THEN k ELSE Len(c)
         /\ \A j \in 1..Len(c) : j # k => WithBlock(c, k, b)[j] = c[j]
         /\ WithBlock(c, k, b)[k] = b
<1>1. c \in Seq(Datum) /\ Len(c) <= MaxBlocks /\ Len(c) \in Nat  BY BlocksAreSeqs
<1>2. PICK n \in 0..MaxBlocks : n = IF k > Len(c) THEN k ELSE Len(c)
  BY <1>1, WriteAssumption
<1>3. WithBlock(c, k, b) = [j \in 1..n |-> IF j = k THEN b ELSE IF j <= Len(c) THEN c[j] ELSE Hole]
  BY <1>2 DEF WithBlock
<1>4. \A j \in 1..n : (IF j = k THEN b ELSE IF j <= Len(c) THEN c[j] ELSE Hole) \in Datum
  BY <1>1, <1>2, WriteAssumption DEF Datum, Hole
<1>5. PICK w : w = WithBlock(c, k, b)  OBVIOUS
<1>6. w \in [1..n -> Datum] /\ n \in Nat  BY <1>3, <1>4, <1>5, WriteAssumption
<1>7. w \in Blocks  BY <1>6 DEF Blocks, Datum
<1>8. w \in Seq(Datum) /\ Len(w) = n  BY <1>6, <1>7, BlocksAreSeqs, LenProperties
<1>9. w[k] = b /\ \A j \in 1..Len(c) : j # k => w[j] = c[j]
  BY <1>1, <1>2, <1>3, <1>5
<1> QED  BY <1>2, <1>5, <1>7, <1>8, <1>9

(* ... a truncation ...                                                    *)
LEMMA WithSizeIn ==
  ASSUME NEW c \in Blocks, NEW n \in 0..MaxBlocks
  PROVE  WithSize(c, n) \in Blocks
<1>1. c \in Seq(Datum) /\ Len(c) \in Nat  BY BlocksAreSeqs
<1>2. n \in Nat  BY WriteAssumption
<1>3. \A j \in 1..n : (IF j <= Len(c) THEN c[j] ELSE Hole) \in Datum
  BY <1>1, <1>2, WriteAssumption DEF Datum, Hole
<1>4. WithSize(c, n) \in [1..n -> Datum]  BY <1>3 DEF WithSize
<1> QED  BY <1>4 DEF Blocks, Datum

(* ... and a block copied from a file.                                     *)
LEMMA AppendIn ==
  ASSUME NEW c \in Blocks, NEW b \in Datum, Len(c) < MaxBlocks
  PROVE  /\ Append(c, b) \in Blocks
         /\ Len(Append(c, b)) = Len(c) + 1
         /\ \A j \in 1..Len(c) : Append(c, b)[j] = c[j]
         /\ Append(c, b)[Len(c) + 1] = b
<1>1. c \in Seq(Datum) /\ Len(c) \in Nat  BY BlocksAreSeqs
<1>2. Append(c, b) \in Seq(Datum) /\ Len(Append(c, b)) = Len(c) + 1  BY <1>1
<1>3. Append(c, b) \in Blocks  BY <1>1, <1>2, BlocksAreSeqs, WriteAssumption
<1> QED  BY <1>1, <1>2, <1>3

(* What the operators above return, of a content and of a block of it.     *)
LEMMA BlockOf ==
  ASSUME NEW c \in Blocks, NEW k \in 1..Len(c)
  PROVE  c[k] \in Datum /\ k \in 1..MaxBlocks
<1>1. c \in Seq(Datum) /\ Len(c) <= MaxBlocks /\ Len(c) \in Nat  BY BlocksAreSeqs
<1> QED  BY <1>1, WriteAssumption

(* The empty file, and one block.                                          *)
LEMMA SmallFiles ==
  /\ <<>> \in Blocks /\ Len(<<>>) = 0
  /\ \A b \in Datum : <<b>> \in Blocks /\ Len(<<b>>) = 1 /\ Head(<<b>>) = b
<1>1. <<>> \in Seq(Datum) /\ Len(<<>>) = 0  OBVIOUS
<1>2. ASSUME NEW b \in Datum PROVE <<b>> \in Seq(Datum) /\ Len(<<b>>) = 1  OBVIOUS
<1> QED  BY <1>1, <1>2, BlocksAreSeqs, WriteAssumption

-----------------------------------------------------------------------------
(* Types and shapes.                                                       *)

(* The parts of ShapeInv that speak of threads, before and after a step.   *)
LEMMA ShapeParts ==
  ASSUME ShapeInv
  PROVE  /\ th \in [Thread -> Job] /\ content \in Blocks /\ saved \subseteq Blocks
         /\ base \in Blocks /\ ops \in 0..MaxOps /\ MaxOps \in Nat
         /\ MaxBlocks \in Nat \ {0} /\ torn \subseteq Thread
         /\ ofile \in [Open -> FileInfo]
         /\ \A t \in Thread : Shape(th[t])
BY WriteAssumption DEF ShapeInv, TypeOK, Job, FileInfo

(* Setting snapshot_taken changes nothing else of an open file.            *)
LEMMA SetTakenFile ==
  ASSUME NEW f \in Open, ofile \in [Open -> FileInfo]
  PROVE  /\ SetTaken(f) \in [Open -> FileInfo]
         /\ SetTaken(f)[f].snapshot_taken = TRUE /\ SetTaken(f)[f].by = ofile[f].by
         /\ \A g \in Open \ {f} : SetTaken(f)[g] = ofile[g]
<1>1. PICK r : r = [ofile[f] EXCEPT !.snapshot_taken = TRUE]  OBVIOUS
<1>2. r \in FileInfo /\ r.snapshot_taken = TRUE /\ r.by = ofile[f].by  BY <1>1 DEF FileInfo
<1>3. SetTaken(f) = [ofile EXCEPT ![f] = r]  BY <1>1 DEF SetTaken
<1> QED  BY <1>2, <1>3

(* One thread goes on to a job that has its shape.                         *)
LEMMA GoesShape ==
  ASSUME ShapeInv, NEW t \in Thread, NEW r \in Job, Shape(r), Goes(t, r)
  PROVE  /\ th' \in [Thread -> Job] /\ \A u \in Thread : Shape(th'[u])
         /\ th'[t] = r /\ \A u \in Thread \ {t} : th'[u] = th[u]
BY ShapeParts DEF Goes

(* The types of the rest.                                                  *)
LEMMA ShapeNext ==
  ASSUME th' \in [Thread -> Job], \A u \in Thread : Shape(th'[u]),
         content' \in Blocks,
         ofile' \in [Open -> FileInfo],
         mapped' \in BOOLEAN, saved' \subseteq Blocks, ops' \in 0..MaxOps,
         base' \in Blocks, excused' \in BOOLEAN,
         torn' \subseteq Thread
  PROVE  ShapeInv'
<1>1. \A t \in Thread :
        /\ th'[t].pc \in {"flag", "write"} => th'[t].op = "WRITE" /\ th'[t].file \in Open
        /\ th'[t].pc = "truncate" => th'[t].op = "SETATTR"
  BY DEF Shape
<1> QED  BY <1>1 DEF ShapeInv, TypeOK, Job, FileInfo

(* No job.                                                                 *)
LEMMA IdleJob ==
  /\ Idle \in Job /\ Shape(Idle)
  /\ Idle.pc = "idle" /\ Idle.file = NoFile /\ Idle.buf = <<>> /\ Idle.goal = <<>>
  /\ Idle.cut = FALSE
BY SmallFiles, WriteAssumption DEF Idle, Job, PC, Shape

(* At first nobody does anything.                                          *)
LEMMA ShapeInit == Init => ShapeInv
<1> SUFFICES ASSUME Init PROVE ShapeInv  OBVIOUS
<1>1. content \in Blocks
  <2>1. PICK n \in 1..MaxBlocks : content = [k \in 1..n |-> 1]  BY DEF Init
  <2>2. n \in 0..MaxBlocks /\ 1 \in 0..MaxOps + 2  BY WriteAssumption
  <2> QED  BY <2>1, <2>2 DEF Blocks
<1>2. \A t \in Thread : th[t] = Idle  BY DEF Init
<1>3. th \in [Thread -> Job]  BY <1>2, IdleJob DEF Init
<1>4. ofile \in [Open -> FileInfo]  BY DEF Init, Closed, FileInfo
<1>5. \A t \in Thread : Shape(th[t])  BY <1>2, IdleJob
<1>6. \A t \in Thread : th[t].pc = "idle"  BY <1>2 DEF Idle
<1>7. ops \in 0..MaxOps  BY WriteAssumption DEF Init
<1> QED  BY <1>1, <1>3, <1>4, <1>5, <1>6, <1>7 DEF Init, ShapeInv, TypeOK, Job, FileInfo

(* A truncation begins.                                                    *)
LEMMA SetattrJob ==
  ASSUME NEW f \in Open \cup {NoFile}, NEW n \in 0..MaxBlocks
  PROVE  LET r == [Idle EXCEPT !.pc = "copy", !.op = "SETATTR", !.file = f, !.arg = n]
         IN  r \in Job /\ Shape(r) /\ r.pc = "copy" /\ r.file = f /\ r.buf = <<>> /\ r.cut = FALSE
<1> DEFINE r == [Idle EXCEPT !.pc = "copy", !.op = "SETATTR", !.file = f, !.arg = n]
<1>1. r \in Job /\ Shape(r) /\ r.pc = "copy" /\ r.file = f /\ r.buf = <<>> /\ r.cut = FALSE
  BY IdleJob DEF Job, PC, Shape
<1> QED  BY <1>1

(* A rollback begins.                                                      *)
LEMMA RestoreJob ==
  ASSUME NEW v \in Blocks
  PROVE  LET r == [Idle EXCEPT !.pc = "restore", !.op = "ROLLBACK", !.goal = v]
         IN  /\ r \in Job /\ Shape(r) /\ r.pc = "restore" /\ r.file = NoFile
             /\ r.buf = <<>> /\ r.goal = v
<1> DEFINE r == [Idle EXCEPT !.pc = "restore", !.op = "ROLLBACK", !.goal = v]
<1>1. /\ r \in Job /\ Shape(r) /\ r.pc = "restore" /\ r.file = NoFile
      /\ r.buf = <<>> /\ r.goal = v
  BY IdleJob DEF Job, PC, Shape
<1> QED  BY <1>1

(* A job goes on.                                                          *)
LEMMA JobGoesOn ==
  ASSUME NEW r \in Job, Shape(r)
  PROVE  /\ r.pc = "flag" => LET s == [r EXCEPT !.pc = "copy"]
                             IN  /\ s \in Job /\ Shape(s) /\ s.pc = "copy"
                                 /\ s.buf = <<>> /\ s.file = r.file /\ s.cut = FALSE
         /\ r.pc = "copy" => LET s == [r EXCEPT !.pc = IF r.op = "SETATTR" THEN "truncate" ELSE "write",
                                                !.buf = <<>>, !.cut = FALSE]
                             IN  /\ s \in Job /\ Shape(s) /\ s.pc \in {"write", "truncate"}
                                 /\ s.file = r.file
<1>1. ASSUME r.pc = "flag"
      PROVE  LET s == [r EXCEPT !.pc = "copy"]
             IN  /\ s \in Job /\ Shape(s) /\ s.pc = "copy" /\ s.buf = <<>> /\ s.file = r.file
                 /\ s.cut = FALSE
  BY <1>1 DEF Job, PC, Shape
<1>2. ASSUME r.pc = "copy"
      PROVE  LET s == [r EXCEPT !.pc = IF r.op = "SETATTR" THEN "truncate" ELSE "write",
                                !.buf = <<>>, !.cut = FALSE]
             IN  s \in Job /\ Shape(s) /\ s.pc \in {"write", "truncate"} /\ s.file = r.file
  BY <1>2, SmallFiles DEF Job, PC, Shape
<1> QED  BY <1>1, <1>2

(* One block more is in hand.                                              *)
LEMMA JobBlock ==
  ASSUME NEW r \in Job, Shape(r), NEW b \in Blocks, r.pc \in {"copy", "restore"},
         NEW s, s = [r EXCEPT !.buf = b]
  PROVE  /\ s \in Job /\ Shape(s) /\ s.pc = r.pc /\ s.buf = b
         /\ s.goal = r.goal /\ s.file = r.file /\ s.cut = r.cut
BY DEF Job, PC, Shape

-----------------------------------------------------------------------------
(* What each step does, for the invariants that follow.                    *)

(* A step is about one thread.                                             *)
Others(t) == \A u \in Thread \ {t} : th'[u] = th[u]

(* cowfs_write starts.                                                     *)
LEMMA TestsFlagStep ==
  ASSUME ShapeInv, NEW t \in Thread, NEW f \in Open, NEW k \in 1..MaxBlocks,
         WriteTestsFlag(t, f, k)
  PROVE  /\ ShapeInv' /\ Others(t) /\ th'[t].file = f
         /\ th'[t].pc = IF ofile[f].snapshot_taken THEN "write" ELSE "flag"
<1>1. PICK p \in {"write", "flag"} : p = IF ofile[f].snapshot_taken THEN "write" ELSE "flag"
  OBVIOUS
<1>2. PICK g \in Blocks : g = <<NewData>> /\ Len(g) = 1
  <2>1. NewData \in Datum  BY ShapeParts DEF WriteTestsFlag, Starts, NewData, Datum
  <2> QED  BY <2>1, SmallFiles
<1>3. PICK r : r = [Idle EXCEPT !.pc = p, !.op = "WRITE", !.file = f, !.arg = k, !.goal = g]
  OBVIOUS
<1>4. r \in Job /\ Shape(r) /\ r.pc = p /\ r.file = f /\ Goes(t, r)
  <2>0. Len(g) = 1 /\ k \in 0..MaxBlocks  BY <1>2, WriteAssumption
  <2>1. r \in Job /\ Shape(r) /\ r.pc = p /\ r.file = f
    BY <1>3, <2>0, IdleJob DEF Job, PC, Shape
  <2>2. Goes(t, r)  BY <1>1, <1>2, <1>3 DEF WriteTestsFlag
  <2> QED  BY <2>1, <2>2
<1>5. ops' \in 0..MaxOps  BY ShapeParts DEF WriteTestsFlag, Starts
<1>6. ShapeInv'
  BY <1>4, <1>5, GoesShape, ShapeNext, ShapeParts DEF WriteTestsFlag, ShapeInv, TypeOK
<1> QED  BY <1>1, <1>4, <1>6, GoesShape DEF Others

(* It sets the flag.                                                       *)
LEMMA SetsFlagStep ==
  ASSUME ShapeInv, NEW t \in Thread, WriteSetsFlag(t)
  PROVE  /\ ShapeInv' /\ Others(t) /\ th'[t].file = th[t].file /\ th[t].file \in Open
         /\ th'[t].pc = "copy" /\ th'[t].buf = <<>> /\ th'[t].cut = FALSE
<1>1. PICK r : r = [th[t] EXCEPT !.pc = "copy"]  OBVIOUS
<1>2. th[t] \in Job /\ Shape(th[t]) /\ th[t].pc = "flag"  BY ShapeParts DEF WriteSetsFlag
<1>3. /\ r \in Job /\ Shape(r) /\ r.pc = "copy" /\ r.buf = <<>> /\ r.file = th[t].file
      /\ r.cut = FALSE
  BY <1>1, <1>2, JobGoesOn
<1>4. Goes(t, r)  BY <1>1 DEF WriteSetsFlag
<1>5. th[t].file \in Open  BY <1>2 DEF Shape
<1>6. ofile' \in [Open -> FileInfo]
  BY <1>5, ShapeParts, SetTakenFile DEF WriteSetsFlag
<1>7. ShapeInv'
  BY <1>3, <1>4, <1>6, GoesShape, ShapeNext, ShapeParts DEF WriteSetsFlag, ShapeInv, TypeOK
<1> QED  BY <1>3, <1>4, <1>5, <1>7, GoesShape DEF Others

(* An operation ends.                                                      *)
LEMMA EndsStep ==
  ASSUME ShapeInv, NEW t \in Thread,
         LowerWrite(t) \/ LowerFails(t) \/ LowerTruncate(t) \/ RestoreEnds(t)
  PROVE  ShapeInv' /\ Others(t) /\ th'[t] = Idle
<1>1. Goes(t, Idle)  BY DEF LowerWrite, LowerFails, LowerTruncate, RestoreEnds
<1>2. th[t] \in Job /\ Shape(th[t]) /\ content \in Blocks /\ torn \subseteq Thread
  BY ShapeParts
<1>3. content' \in Blocks /\ torn' \subseteq Thread
  <2>1. CASE LowerWrite(t)
    <3>1. /\ content' = WithBlock(content, th[t].arg, Head(th[t].goal))
          /\ torn' = torn \cup (Busy \ {t}) /\ th[t].pc = "write"
      BY <2>1 DEF LowerWrite, Change
    <3>2. th[t].arg \in 1..MaxBlocks /\ th[t].goal \in Blocks /\ Len(th[t].goal) = 1
      BY <1>2, <3>1 DEF Shape, Job
    <3>3. Head(th[t].goal) \in Datum
      <4>1. PICK g \in Blocks : g = th[t].goal  BY <3>2
      <4>2. g[1] \in Datum /\ g \in Seq(Datum) /\ Len(g) = 1
        BY <3>2, <4>1, BlocksAreSeqs, ElementOfSeq
      <4> QED  BY <4>1, <4>2
    <3> QED  BY <1>2, <3>1, <3>2, <3>3, WithBlockIn DEF Busy
  <2>2. CASE LowerTruncate(t)
    <3>1. content' = WithSize(content, th[t].arg) /\ torn' = torn \cup (Busy \ {t})
      BY <2>2 DEF LowerTruncate, Change
    <3>2. th[t].arg \in 0..MaxBlocks  BY <1>2 DEF Job
    <3> QED  BY <1>2, <3>1, <3>2, WithSizeIn DEF Busy
  <2>3. CASE LowerFails(t) \/ RestoreEnds(t)  BY <1>2, <2>3 DEF LowerFails, RestoreEnds
  <2> QED  BY <2>1, <2>2, <2>3
<1>4. ofile' \in [Open -> FileInfo]
  <2>1. ofile \in [Open -> FileInfo]  BY ShapeParts
  <2>2. CASE ofile' = ofile  BY <2>1, <2>2
  <2>3. CASE LowerTruncate(t) /\ th[t].file # NoFile
    <3>1. th[t].file \in Open  BY <1>2, <2>3 DEF Job
    <3> QED  BY <2>1, <2>3, <3>1, SetTakenFile DEF LowerTruncate
  <2> QED  BY <2>2, <2>3 DEF LowerWrite, LowerFails, LowerTruncate, RestoreEnds
<1>5. UNCHANGED <<mapped, saved, ops, base, excused>>
  BY DEF LowerWrite, LowerFails, LowerTruncate, RestoreEnds
<1>6. ShapeInv'
  BY <1>1, <1>3, <1>4, <1>5, IdleJob, GoesShape, ShapeNext, ShapeParts DEF ShapeInv, TypeOK
<1> QED  BY <1>1, <1>6, IdleJob, GoesShape DEF Others

(* cowfs_setattr starts.                                                   *)
LEMMA SetattrStep ==
  ASSUME ShapeInv, NEW t \in Thread, NEW f \in Open \cup {NoFile}, NEW n \in 0..MaxBlocks,
         SetattrStarts(t, f, n)
  PROVE  /\ ShapeInv' /\ Others(t) /\ th'[t].file = f /\ th'[t].pc = "copy"
         /\ th'[t].buf = <<>> /\ th'[t].cut = FALSE
<1>1. PICK r : r = [Idle EXCEPT !.pc = "copy", !.op = "SETATTR", !.file = f, !.arg = n]  OBVIOUS
<1>2. r \in Job /\ Shape(r) /\ r.pc = "copy" /\ r.file = f /\ r.buf = <<>> /\ r.cut = FALSE
  BY <1>1, SetattrJob
<1>3. Goes(t, r)  BY <1>1 DEF SetattrStarts
<1>4. ops' \in 0..MaxOps  BY ShapeParts DEF SetattrStarts, Starts
<1>5. ShapeInv'
  BY <1>2, <1>3, <1>4, GoesShape, ShapeNext, ShapeParts DEF SetattrStarts, ShapeInv, TypeOK
<1> QED  BY <1>2, <1>3, <1>5, GoesShape DEF Others

(* What is written is a block.                                             *)
LEMMA WrittenIn ==
  ASSUME NEW t \in Thread, NEW b \in Datum, th[t] \in Job
  PROVE  /\ Written(t, b) \in Datum /\ Damaged \in Datum
         /\ Written(t, b) = b \/ (th[t].cut /\ Written(t, b) = Damaged)
BY WriteAssumption DEF Written, Damaged, Datum, Job

(* A block is read, and written as d.                                      *)
LEMMA CopyBlockStep ==
  ASSUME ShapeInv, NEW t \in Thread, CopyBlock(t) \/ CopyShort(t), NEW k, k = Len(th[t].buf) + 1
  PROVE  /\ ShapeInv' /\ Others(t) /\ th'[t].file = th[t].file /\ th'[t].pc = "copy"
         /\ k \in 1..Len(content)
         /\ th[t].buf \in Blocks /\ Len(th[t].buf) \in Nat /\ Len(th[t].buf) < MaxBlocks
         /\ CopyBlock(t) => th'[t].cut = th[t].cut
         /\ CopyShort(t) => th'[t].cut = TRUE
         /\ \E d \in Datum : /\ th'[t].buf = Append(th[t].buf, d)
                             /\ d = content[k] \/ (th'[t].cut /\ d = Damaged)
<1>1. th[t] \in Job /\ Shape(th[t]) /\ content \in Blocks  BY ShapeParts
<1>2. th[t].pc = "copy" /\ Len(th[t].buf) < Len(content)  BY DEF CopyBlock, CopyShort
<1>3. th[t].buf \in Blocks  BY <1>1 DEF Job
<1>4. /\ Len(th[t].buf) \in Nat /\ Len(content) \in Nat /\ Len(content) <= MaxBlocks
  BY <1>1, <1>3, BlocksAreSeqs, LenProperties
<1>5. k \in 1..Len(content)  BY <1>2, <1>4
<1>6. PICK c \in Datum : c = content[k]  BY <1>1, <1>5, BlockOf
<1>7. Len(th[t].buf) < MaxBlocks  BY <1>2, <1>4, WriteAssumption
<1>8. ASSUME CopyBlock(t)
      PROVE  /\ ShapeInv' /\ Others(t) /\ th'[t].file = th[t].file /\ th'[t].pc = "copy"
             /\ th'[t].cut = th[t].cut
             /\ th'[t].buf = Append(th[t].buf, Written(t, c))
  <2>1. PICK d \in Datum : d = Written(t, c)  BY <1>1, <1>6, WrittenIn
  <2>2. PICK b : b = Append(th[t].buf, d)  OBVIOUS
  <2>3. b \in Blocks  BY <1>3, <1>7, <2>1, <2>2, AppendIn
  <2>4. PICK r : r = [th[t] EXCEPT !.buf = b]  OBVIOUS
  <2>5. /\ r \in Job /\ Shape(r) /\ r.pc = "copy" /\ r.buf = b /\ r.file = th[t].file
        /\ r.cut = th[t].cut
    BY <1>1, <1>2, <2>3, <2>4, JobBlock
  <2>6. Goes(t, r)  BY <1>1, <1>6, <1>8, <2>1, <2>2, <2>4 DEF CopyBlock, Job
  <2>7. ShapeInv'
    BY <1>8, <2>5, <2>6, GoesShape, ShapeNext, ShapeParts DEF CopyBlock, ShapeInv, TypeOK
  <2> QED  BY <2>1, <2>2, <2>5, <2>6, <2>7, GoesShape DEF Others
<1>9. ASSUME CopyShort(t)
      PROVE  /\ ShapeInv' /\ Others(t) /\ th'[t].file = th[t].file /\ th'[t].pc = "copy"
             /\ th'[t].cut = TRUE /\ th'[t].buf = Append(th[t].buf, Damaged)
  <2>1. PICK d \in Datum : d = Damaged  BY <1>1, <1>6, WrittenIn
  <2>2. PICK b : b = Append(th[t].buf, d)  OBVIOUS
  <2>3. b \in Blocks  BY <1>3, <1>7, <2>1, <2>2, AppendIn
  <2>4. PICK r : r = [th[t] EXCEPT !.buf = b, !.cut = TRUE]  OBVIOUS
  <2>5. /\ r \in Job /\ Shape(r) /\ r.pc = "copy" /\ r.buf = b /\ r.file = th[t].file
        /\ r.cut = TRUE
    BY <1>1, <1>2, <2>3, <2>4 DEF Job, PC, Shape
  <2>6. Goes(t, r)  BY <1>1, <1>9, <2>1, <2>2, <2>4 DEF CopyShort, Job
  <2>7. ShapeInv'
    BY <1>9, <2>5, <2>6, GoesShape, ShapeNext, ShapeParts DEF CopyShort, ShapeInv, TypeOK
  <2> QED  BY <2>1, <2>2, <2>5, <2>6, <2>7, GoesShape DEF Others
<1>10. /\ Written(t, c) \in Datum /\ Damaged \in Datum
       /\ Written(t, c) = c \/ (th[t].cut /\ Written(t, c) = Damaged)
  BY <1>1, WrittenIn
<1>11. CASE CopyBlock(t)
  <2>1. ~CopyShort(t) \/ th'[t].cut = TRUE  BY <1>9
  <2> QED  BY <1>3, <1>4, <1>5, <1>6, <1>7, <1>8, <1>10, <1>11, <2>1
<1>12. CASE CopyShort(t)
  <2>1. ~CopyBlock(t) \/ th'[t].cut = th[t].cut  BY <1>8
  <2> QED  BY <1>3, <1>4, <1>5, <1>7, <1>9, <1>10, <1>12, <2>1
<1> QED  BY <1>11, <1>12

(* A copy ends.                                                            *)
LEMMA CopyEndsStep ==
  ASSUME ShapeInv, NEW t \in Thread, CopyEnds(t) \/ CopyFails(t)
  PROVE  /\ ShapeInv' /\ Others(t) /\ th'[t].file = th[t].file
         /\ th'[t].pc \in {"write", "truncate"}
<1>1. th[t] \in Job /\ Shape(th[t])  BY ShapeParts
<1>2. th[t].pc = "copy"  BY DEF CopyEnds, CopyFails
<1>3. th[t].buf \in Blocks  BY <1>1 DEF Job
<1>4. PICK r : r = [th[t] EXCEPT !.pc = IF th[t].op = "SETATTR" THEN "truncate" ELSE "write",
                                 !.buf = <<>>, !.cut = FALSE]
  OBVIOUS
<1>5. r \in Job /\ Shape(r) /\ r.pc \in {"write", "truncate"} /\ r.file = th[t].file
  BY <1>1, <1>2, <1>4, JobGoesOn
<1>6. Goes(t, r)  BY <1>4 DEF CopyEnds, CopyFails, AfterCopy
<1>7. saved' \subseteq Blocks /\ excused' \in BOOLEAN /\ torn' \subseteq Thread
  BY <1>3 DEF CopyEnds, CopyFails, ShapeInv, TypeOK
<1>8. ShapeInv'
  BY <1>5, <1>6, <1>7, GoesShape, ShapeNext, ShapeParts DEF CopyEnds, CopyFails, ShapeInv, TypeOK
<1> QED  BY <1>5, <1>6, <1>8, GoesShape DEF Others

(* A rollback starts.                                                      *)
LEMMA RestoreStartsStep ==
  ASSUME ShapeInv, NEW t \in Thread, NEW v \in saved, RestoreStarts(t, v)
  PROVE  /\ ShapeInv' /\ Others(t) /\ th'[t].file = NoFile /\ th'[t].pc = "restore"
         /\ th'[t].buf = <<>> /\ th'[t].goal = v /\ v \in Blocks
<1>1. v \in Blocks  BY ShapeParts
<1>2. PICK r : r = [Idle EXCEPT !.pc = "restore", !.op = "ROLLBACK", !.goal = v]  OBVIOUS
<1>3. /\ r \in Job /\ Shape(r) /\ r.pc = "restore" /\ r.file = NoFile
      /\ r.buf = <<>> /\ r.goal = v
  BY <1>1, <1>2, RestoreJob
<1>4. Goes(t, r)  BY <1>2 DEF RestoreStarts
<1>5. ops' \in 0..MaxOps  BY ShapeParts DEF RestoreStarts, Starts
<1>6. content' \in Blocks  BY SmallFiles DEF RestoreStarts, RestoreTarget
<1>7. torn' \subseteq Thread /\ excused' \in BOOLEAN
  BY DEF RestoreStarts, ShapeInv, TypeOK, Busy
<1>8. ShapeInv'
  BY <1>3, <1>4, <1>5, <1>6, <1>7, GoesShape, ShapeNext, ShapeParts DEF RestoreStarts, ShapeInv, TypeOK
<1> QED  BY <1>1, <1>3, <1>4, <1>8, GoesShape DEF Others

(* A block is restored as d.                                               *)
LEMMA RestoreBlockStep ==
  ASSUME ShapeInv, NEW t \in Thread, RestoreBlock(t) \/ RestoreShort(t),
         NEW k, k = Len(th[t].buf) + 1
  PROVE  /\ ShapeInv' /\ Others(t) /\ th'[t].file = th[t].file /\ th'[t].pc = "restore"
         /\ k \in 1..Len(th[t].goal) /\ k \in 1..MaxBlocks
         /\ th[t].buf \in Blocks /\ Len(th[t].buf) \in Nat /\ Len(th[t].buf) < MaxBlocks
         /\ th'[t].goal = th[t].goal /\ (th[t].cut => th'[t].cut)
         /\ torn' = torn \cup (Busy \ {t})
         /\ \E d \in Datum : /\ th'[t].buf = Append(th[t].buf, d)
                             /\ content' = WithBlock(content, k, d)
                             /\ d = th[t].goal[k] \/ (th'[t].cut /\ d = Damaged)
<1>1. th[t] \in Job /\ Shape(th[t]) /\ content \in Blocks /\ torn \subseteq Thread
  BY ShapeParts
<1>2. /\ th[t].pc = "restore" /\ k <= Len(th[t].goal) /\ torn' = torn \cup (Busy \ {t})
      /\ UNCHANGED <<ofile, mapped, saved, ops, base, excused>>
  BY DEF RestoreBlock, RestoreShort, Change
<1>3. th[t].buf \in Blocks /\ th[t].goal \in Blocks  BY <1>1 DEF Job
<1>4. /\ Len(th[t].buf) \in Nat /\ Len(th[t].goal) \in Nat /\ Len(th[t].goal) <= MaxBlocks
  BY <1>3, BlocksAreSeqs, LenProperties
<1>5. k \in 1..Len(th[t].goal)  BY <1>2, <1>4
<1>6. k \in 1..MaxBlocks  BY <1>3, <1>5, BlockOf
<1>7. PICK g \in Datum : g = th[t].goal[k]  BY <1>3, <1>5, BlockOf
<1>8. Len(th[t].buf) < MaxBlocks  BY <1>4, <1>5, WriteAssumption
<1>9. \E d \in Datum, r \in Job :
        /\ Shape(r) /\ r.pc = "restore" /\ r.file = th[t].file /\ r.goal = th[t].goal
        /\ th[t].cut => r.cut
        /\ r.buf = Append(th[t].buf, d) /\ content' = WithBlock(content, k, d)
        /\ d = g \/ (r.cut /\ d = Damaged)
        /\ Goes(t, r)
  <2>1. CASE RestoreBlock(t)
    <3>1. PICK d \in Datum : d = Written(t, g)  BY <1>1, <1>7, WrittenIn
    <3>2. d = g \/ (th[t].cut /\ d = Damaged)  BY <1>1, <1>7, <3>1, WrittenIn
    <3>3. PICK b : b = Append(th[t].buf, d)  OBVIOUS
    <3>4. b \in Blocks  BY <1>3, <1>8, <3>1, <3>3, AppendIn
    <3>5. PICK r : r = [th[t] EXCEPT !.buf = b]  OBVIOUS
    <3>6. /\ r \in Job /\ Shape(r) /\ r.pc = "restore" /\ r.buf = b /\ r.file = th[t].file
          /\ r.goal = th[t].goal /\ r.cut = th[t].cut
      BY <1>1, <1>2, <3>4, <3>5, JobBlock
    <3>7. Goes(t, r) /\ content' = WithBlock(content, k, d)
      BY <1>1, <1>7, <2>1, <3>1, <3>3, <3>5 DEF RestoreBlock, Change, Job
    <3> QED  BY <3>1, <3>2, <3>3, <3>6, <3>7
  <2>2. CASE RestoreShort(t)
    <3>1. PICK d \in Datum : d = Damaged  BY <1>1, <1>7, WrittenIn
    <3>3. PICK b : b = Append(th[t].buf, d)  OBVIOUS
    <3>4. b \in Blocks  BY <1>3, <1>8, <3>1, <3>3, AppendIn
    <3>5. PICK r : r = [th[t] EXCEPT !.buf = b, !.cut = TRUE]  OBVIOUS
    <3>6. /\ r \in Job /\ Shape(r) /\ r.pc = "restore" /\ r.buf = b /\ r.file = th[t].file
          /\ r.goal = th[t].goal /\ r.cut = TRUE
      BY <1>1, <1>2, <3>4, <3>5 DEF Job, PC, Shape
    <3>7. Goes(t, r) /\ content' = WithBlock(content, k, d)
      BY <1>1, <2>2, <3>1, <3>3, <3>5 DEF RestoreShort, Change, Job
    <3> QED  BY <3>1, <3>3, <3>6, <3>7
  <2> QED  BY <2>1, <2>2
<1>10. PICK d \in Datum, r \in Job :
        /\ Shape(r) /\ r.pc = "restore" /\ r.file = th[t].file /\ r.goal = th[t].goal
        /\ th[t].cut => r.cut
        /\ r.buf = Append(th[t].buf, d) /\ content' = WithBlock(content, k, d)
        /\ d = g \/ (r.cut /\ d = Damaged)
        /\ Goes(t, r)
  BY <1>9
<1>11. content' \in Blocks /\ torn' \subseteq Thread
  BY <1>1, <1>2, <1>6, <1>10, WithBlockIn DEF Busy
<1>12. th' \in [Thread -> Job] /\ (\A u \in Thread : Shape(th'[u])) /\ th'[t] = r /\ Others(t)
  BY <1>10, GoesShape DEF Others
<1>13. ShapeInv'
  BY <1>2, <1>11, <1>12, ShapeNext, ShapeParts DEF ShapeInv, TypeOK
<1> QED
  BY <1>2, <1>3, <1>4, <1>5, <1>6, <1>7, <1>8, <1>10, <1>12, <1>13

(* The steps that leave every thread where it is.                          *)
LEMMA QuietStep ==
  ASSUME ShapeInv,
         \/ \E t \in Thread, f \in Open : cowfs_open(t, f)
         \/ \E t \in Thread : cowfs_mmap(t)
         \/ \E f \in Open : cowfs_release(f)
         \/ \E k \in 1..MaxBlocks : Store(k)
         \/ Observe
         \/ UNCHANGED vars
  PROVE  ShapeInv' /\ th' = th
<1>1. th' = th  BY DEF cowfs_open, cowfs_mmap, cowfs_release, Store, Observe, vars
<1>2. ofile' \in [Open -> FileInfo]
  <2>1. ofile \in [Open -> FileInfo]  BY ShapeParts
  <2>2. Closed \in FileInfo /\ \A t \in Thread : OpenedFile(t) \in FileInfo
    BY DEF Closed, OpenedFile, FileInfo
  <2>3. ASSUME NEW t \in Thread, NEW f \in Open, cowfs_open(t, f) PROVE ofile' \in [Open -> FileInfo]
    BY <2>1, <2>2, <2>3 DEF cowfs_open
  <2>4. ASSUME NEW f \in Open, cowfs_release(f) PROVE ofile' \in [Open -> FileInfo]
    BY <2>1, <2>2, <2>4 DEF cowfs_release
  <2>5. CASE ofile' = ofile  BY <2>1, <2>5
  <2> QED  BY <2>3, <2>4, <2>5 DEF cowfs_mmap, Store, Observe, vars
<1>3. content' \in Blocks /\ torn' \subseteq Thread /\ ops' \in 0..MaxOps
  <2>1. ASSUME NEW k \in 1..MaxBlocks, Store(k)
        PROVE  content' \in Blocks /\ torn' \subseteq Thread /\ ops' \in 0..MaxOps
    <3>1. NewData \in Datum /\ ops' \in 0..MaxOps
      BY <2>1, ShapeParts DEF Store, Starts, NewData, Datum
    <3>2. content' \in Blocks  BY <2>1, <3>1, ShapeParts, WithBlockIn DEF Store
    <3> QED  BY <2>1, <3>1, <3>2, ShapeParts DEF Store, Busy
  <2>2. ASSUME NEW t \in Thread, cowfs_mmap(t)
        PROVE  content' \in Blocks /\ torn' \subseteq Thread /\ ops' \in 0..MaxOps
    BY <2>2, ShapeParts DEF cowfs_mmap, Starts
  <2>3. CASE UNCHANGED <<content, torn, ops>>  BY <2>3, ShapeParts
  <2> QED  BY <2>1, <2>2, <2>3 DEF cowfs_open, cowfs_release, Observe, vars
<1>4. /\ mapped' \in BOOLEAN /\ saved' \subseteq Blocks /\ base' \in Blocks
      /\ excused' \in BOOLEAN
  BY DEF cowfs_open, cowfs_mmap, cowfs_release, Store, Observe, vars, ShapeInv, TypeOK
<1> QED  BY <1>1, <1>2, <1>3, <1>4, ShapeParts, ShapeNext

-----------------------------------------------------------------------------
(* An undisturbed copy is exact.                                           *)

(* Each step is the step of one thread or leaves the threads alone.        *)
LEMMA StepKinds ==
  ASSUME [Next]_vars
  PROVE  \/ \E t \in Thread :
              \/ \E f \in Open, k \in 1..MaxBlocks : WriteTestsFlag(t, f, k)
              \/ WriteSetsFlag(t)
              \/ LowerWrite(t) \/ LowerFails(t) \/ LowerTruncate(t) \/ RestoreEnds(t)
              \/ \E f \in Open \cup {NoFile}, n \in 0..MaxBlocks : SetattrStarts(t, f, n)
              \/ CopyBlock(t) \/ CopyShort(t)
              \/ CopyEnds(t) \/ CopyFails(t)
              \/ \E v \in saved : RestoreStarts(t, v)
              \/ RestoreBlock(t) \/ RestoreShort(t)
         \/ \/ \E t \in Thread, f \in Open : cowfs_open(t, f)
            \/ \E t \in Thread : cowfs_mmap(t)
            \/ \E f \in Open : cowfs_release(f)
            \/ \E k \in 1..MaxBlocks : Store(k)
            \/ Observe
            \/ UNCHANGED vars
BY DEF Next

(* A step of t: the copies of the others stay faithful, or are disturbed.  *)
LEMMA FaithfulNext ==
  ASSUME CopyInv, ShapeInv', NEW t \in Thread, Others(t),
         content' = content \/ Busy \ {t} \subseteq torn',
         torn \ {t} \subseteq torn',
         t \notin torn' => Faithful(t)'
  PROVE  CopyInv'
<1>1. ASSUME NEW u \in Thread \ torn', u # t PROVE Faithful(u)'
  <2>1. th'[u] = th[u] /\ u \notin torn  BY <1>1 DEF Others
  <2>2. Faithful(u)  BY <2>1 DEF CopyInv
  <2>3. CASE content' = content  BY <2>1, <2>2, <2>3 DEF Faithful
  <2>4. CASE Busy \ {t} \subseteq torn'
    <3>1. th[u].pc \notin {"copy", "restore"}  BY <1>1, <2>4 DEF Busy
    <3> QED  BY <2>1, <3>1 DEF Faithful
  <2> QED  BY <2>3, <2>4
<1>2. \A u \in Thread \ torn' : Faithful(u)'  BY <1>1
<1> QED  BY <1>2 DEF CopyInv

(* Nothing is copied yet.                                                  *)
LEMMA FaithfulAtFirst ==
  ASSUME NEW t \in Thread, ShapeInv', th'[t].buf = <<>>,
         th'[t].pc = "restore" => content' = <<>>
  PROVE  Faithful(t)'
<1>1. content' \in Blocks /\ th'[t].goal \in Blocks  BY DEF ShapeInv, TypeOK
<1>2. Len(content') \in Nat /\ Len(th'[t].goal) \in Nat  BY <1>1, BlocksAreSeqs, LenProperties
<1> QED  BY <1>2 DEF Faithful, Same

(* A thread that neither copies nor restores has nothing to be faithful to. *)
LEMMA FaithfulElse ==
  ASSUME NEW t \in Thread, th'[t].pc \notin {"copy", "restore"}
  PROVE  Faithful(t)'
BY DEF Faithful

(* One block more is like the file, or damaged.                            *)
LEMMA SameAppend ==
  ASSUME NEW b \in Blocks, NEW g \in Blocks, NEW k \in Nat, k = Len(b) + 1, k <= Len(g),
         NEW c \in BOOLEAN, NEW e \in BOOLEAN, c => e, Same(b, g, c),
         NEW d \in Datum, d = g[k] \/ (e /\ d = Damaged)
  PROVE  /\ Len(Append(b, d)) <= Len(g)
         /\ Same(Append(b, d), g, e)
<1>1. Len(b) \in Nat /\ Len(g) \in Nat /\ Len(g) <= MaxBlocks
  BY BlocksAreSeqs, LenProperties
<1>2. Len(b) < MaxBlocks  BY <1>1, WriteAssumption
<1>3. PICK a : a = Append(b, d)  OBVIOUS
<1>4. Len(a) = k /\ a[k] = d /\ \A j \in 1..Len(b) : a[j] = b[j]
  BY <1>2, <1>3, AppendIn
<1>5. ASSUME NEW j \in 1..Len(a) PROVE a[j] = g[j] \/ (e /\ a[j] = Damaged)
  <2>1. CASE j = k  BY <1>4, <2>1
  <2>2. CASE j # k
    <3>1. j \in 1..Len(b)  BY <1>1, <1>4, <2>2
    <3> QED  BY <1>4, <3>1 DEF Same
  <2> QED  BY <2>1, <2>2
<1> QED  BY <1>1, <1>3, <1>4, <1>5 DEF Same

(* One block more is copied.                                               *)
LEMMA FaithfulCopy ==
  ASSUME CopyInv, NEW t \in Thread \ torn, CopyBlock(t) \/ CopyShort(t)
  PROVE  Faithful(t)'
<1>1. PICK k : k = Len(th[t].buf) + 1  OBVIOUS
<1>2. /\ ShapeInv' /\ th'[t].pc = "copy" /\ k \in 1..Len(content)
      /\ th[t].buf \in Blocks /\ Len(th[t].buf) \in Nat
      /\ CopyBlock(t) => th'[t].cut = th[t].cut
      /\ CopyShort(t) => th'[t].cut = TRUE
      /\ \E d \in Datum : /\ th'[t].buf = Append(th[t].buf, d)
                          /\ d = content[k] \/ (th'[t].cut /\ d = Damaged)
  BY <1>1, CopyBlockStep DEF CopyInv
<1>3. PICK d \in Datum : /\ th'[t].buf = Append(th[t].buf, d)
                         /\ d = content[k] \/ (th'[t].cut /\ d = Damaged)
  BY <1>2
<1>4. content' = content /\ th[t].pc = "copy"  BY DEF CopyBlock, CopyShort
<1>5. Same(th[t].buf, content, th[t].cut)  BY <1>4 DEF CopyInv, Faithful
<1>6. th[t].cut \in BOOLEAN /\ th'[t].cut \in BOOLEAN /\ content \in Blocks
  BY <1>2 DEF CopyInv, ShapeInv, TypeOK
<1>7. th[t].cut => th'[t].cut  BY <1>2
<1>8. k \in Nat /\ k <= Len(content)  BY <1>1, <1>2
<1>9. Len(Append(th[t].buf, d)) <= Len(content) /\ Same(Append(th[t].buf, d), content, th'[t].cut)
  BY <1>1, <1>2, <1>3, <1>5, <1>6, <1>7, <1>8, SameAppend
<1> QED  BY <1>2, <1>3, <1>4, <1>9 DEF Faithful

(* One block more is restored.                                             *)
LEMMA FaithfulRestore ==
  ASSUME CopyInv, NEW t \in Thread \ torn, RestoreBlock(t) \/ RestoreShort(t)
  PROVE  Faithful(t)'
<1>1. PICK k : k = Len(th[t].buf) + 1  OBVIOUS
<1>2. PICK g : g = th[t].goal  OBVIOUS
<1>3. PICK b : b = th[t].buf  OBVIOUS
<1>4. /\ ShapeInv' /\ th'[t].pc = "restore" /\ k \in 1..Len(g) /\ k \in 1..MaxBlocks
      /\ b \in Blocks /\ Len(b) \in Nat /\ Len(b) < MaxBlocks
      /\ th'[t].goal = g /\ (th[t].cut => th'[t].cut)
      /\ \E d \in Datum : /\ th'[t].buf = Append(b, d)
                          /\ content' = WithBlock(content, k, d)
                          /\ d = g[k] \/ (th'[t].cut /\ d = Damaged)
  BY <1>1, <1>2, <1>3, RestoreBlockStep DEF CopyInv
<1>5. content = b /\ Same(b, g, th[t].cut)
  BY <1>2, <1>3 DEF CopyInv, Faithful, RestoreBlock, RestoreShort
<1>6. PICK d \in Datum : /\ th'[t].buf = Append(b, d)
                         /\ content' = WithBlock(b, k, d)
                         /\ d = g[k] \/ (th'[t].cut /\ d = Damaged)
  BY <1>4, <1>5
<1>7. PICK a : a = Append(b, d)  OBVIOUS
<1>8. /\ a \in Blocks /\ Len(a) = k /\ a[k] = d /\ \A j \in 1..Len(b) : a[j] = b[j]
  BY <1>1, <1>3, <1>4, <1>7, AppendIn
<1>9. PICK w : w = WithBlock(b, k, d)  OBVIOUS
<1>10. /\ w \in Blocks /\ Len(w) = k /\ w[k] = d /\ \A j \in 1..Len(b) : w[j] = b[j]
  <2>1. /\ w \in Blocks /\ Len(w) = (IF k > Len(b) THEN k ELSE Len(b)) /\ w[k] = d
        /\ \A j \in 1..Len(b) : j # k => w[j] = b[j]
    BY <1>4, <1>9, WithBlockIn
  <2> QED  BY <1>1, <1>3, <1>4, <2>1
<1>11. w = a
  <2>1. w \in Seq(Datum) /\ a \in Seq(Datum)  BY <1>8, <1>10, BlocksAreSeqs
  <2>2. \A j \in 1..Len(w) : w[j] = a[j]  BY <1>1, <1>3, <1>4, <1>8, <1>10
  <2> QED  BY <1>8, <1>10, <2>1, <2>2, SeqEqual
<1>12. th'[t].buf = a /\ content' = a /\ th'[t].goal = g  BY <1>4, <1>6, <1>7, <1>9, <1>11
<1>13. /\ th[t].cut \in BOOLEAN /\ th'[t].cut \in BOOLEAN /\ g \in Blocks
       /\ k \in Nat /\ k <= Len(g)
  BY <1>1, <1>2, <1>4 DEF CopyInv, ShapeInv, TypeOK
<1>14. k = Len(b) + 1  BY <1>1, <1>3
<1>15. Len(a) <= Len(g) /\ Same(a, g, th'[t].cut)
  BY <1>4, <1>5, <1>6, <1>7, <1>13, <1>14, SameAppend
<1> QED  BY <1>4, <1>12, <1>15 DEF Faithful

(* Every step preserves CopyInv.                                           *)
LEMMA CopyNext == CopyInv /\ [Next]_vars => CopyInv'
<1> SUFFICES ASSUME CopyInv, [Next]_vars PROVE CopyInv'  OBVIOUS
<1> USE DEF CopyInv
<1>1. ASSUME NEW t \in Thread, NEW f \in Open, NEW k \in 1..MaxBlocks, WriteTestsFlag(t, f, k)
      PROVE  CopyInv'
  <2>1. ShapeInv' /\ Others(t) /\ th'[t].pc \notin {"copy", "restore"}
    BY <1>1, TestsFlagStep
  <2>2. content' = content /\ torn' = torn  BY <1>1 DEF WriteTestsFlag
  <2> QED  BY <2>1, <2>2, FaithfulElse, FaithfulNext
<1>2. ASSUME NEW t \in Thread, WriteSetsFlag(t) PROVE CopyInv'
  <2>1. ShapeInv' /\ Others(t) /\ th'[t].pc = "copy" /\ th'[t].buf = <<>>
    BY <1>2, SetsFlagStep
  <2>2. content' = content /\ torn' = torn  BY <1>2 DEF WriteSetsFlag
  <2> QED  BY <2>1, <2>2, FaithfulAtFirst, FaithfulNext
<1>3. ASSUME NEW t \in Thread, LowerWrite(t) \/ LowerFails(t) \/ LowerTruncate(t) \/ RestoreEnds(t)
      PROVE  CopyInv'
  <2>1. ShapeInv' /\ Others(t) /\ th'[t].pc = "idle"  BY <1>3, EndsStep, IdleJob
  <2>2. /\ content' = content \/ Busy \ {t} \subseteq torn'
        /\ torn \ {t} \subseteq torn'
    BY <1>3 DEF LowerWrite, LowerFails, LowerTruncate, RestoreEnds, Change
  <2> QED  BY <2>1, <2>2, FaithfulElse, FaithfulNext
<1>4. ASSUME NEW t \in Thread, NEW f \in Open \cup {NoFile}, NEW n \in 0..MaxBlocks,
             SetattrStarts(t, f, n)
      PROVE  CopyInv'
  <2>1. ShapeInv' /\ Others(t) /\ th'[t].pc = "copy" /\ th'[t].buf = <<>>
    BY <1>4, SetattrStep
  <2>2. content' = content /\ torn' = torn  BY <1>4 DEF SetattrStarts
  <2> QED  BY <2>1, <2>2, FaithfulAtFirst, FaithfulNext
<1>5. ASSUME NEW t \in Thread, CopyBlock(t) \/ CopyShort(t) PROVE CopyInv'
  <2>1. ShapeInv' /\ Others(t)  BY <1>5, CopyBlockStep
  <2>2. content' = content /\ torn' = torn  BY <1>5 DEF CopyBlock, CopyShort
  <2>3. t \notin torn' => Faithful(t)'  BY <1>5, <2>2, FaithfulCopy
  <2> QED  BY <2>1, <2>2, <2>3, FaithfulNext
<1>6. ASSUME NEW t \in Thread, CopyEnds(t) \/ CopyFails(t) PROVE CopyInv'
  <2>1. ShapeInv' /\ Others(t) /\ th'[t].pc \notin {"copy", "restore"}
    BY <1>6, CopyEndsStep
  <2>2. content' = content /\ torn' = torn \ {t}  BY <1>6 DEF CopyEnds, CopyFails
  <2> QED  BY <2>1, <2>2, FaithfulElse, FaithfulNext
<1>7. ASSUME NEW t \in Thread, NEW v \in saved, RestoreStarts(t, v) PROVE CopyInv'
  <2>1. ShapeInv' /\ Others(t) /\ th'[t].pc = "restore" /\ th'[t].buf = <<>>
    BY <1>7, RestoreStartsStep
  <2>2. content' = <<>> /\ torn' = torn \cup Busy
    BY <1>7 DEF RestoreStarts, RestoreTarget
  <2>3. Busy \ {t} \subseteq torn' /\ torn \ {t} \subseteq torn'  BY <2>2
  <2> QED  BY <2>1, <2>2, <2>3, FaithfulAtFirst, FaithfulNext
<1>8. ASSUME NEW t \in Thread, RestoreBlock(t) \/ RestoreShort(t) PROVE CopyInv'
  <2>1. ShapeInv' /\ Others(t) /\ torn' = torn \cup (Busy \ {t})  BY <1>8, RestoreBlockStep
  <2>2. t \notin torn' => Faithful(t)'  BY <1>8, <2>1, FaithfulRestore
  <2> QED  BY <2>1, <2>2, FaithfulNext
<1>9. ASSUME \/ \E t \in Thread, f \in Open : cowfs_open(t, f)
             \/ \E t \in Thread : cowfs_mmap(t)
             \/ \E f \in Open : cowfs_release(f)
             \/ \E k \in 1..MaxBlocks : Store(k)
             \/ Observe
             \/ UNCHANGED vars
      PROVE  CopyInv'
  <2>1. ShapeInv' /\ th' = th  BY <1>9, QuietStep
  <2>2. /\ content' = content \/ Busy \subseteq torn'
        /\ torn \subseteq torn'
    BY <1>9 DEF cowfs_open, cowfs_mmap, cowfs_release, Store, Observe, vars
  <2>3. ASSUME NEW t \in Thread, t \notin torn' PROVE Faithful(t)'
    <3>1. Faithful(t)  BY <2>2, <2>3
    <3>2. CASE content' = content  BY <2>1, <3>1, <3>2 DEF Faithful
    <3>3. CASE Busy \subseteq torn'
      <4>1. th'[t].pc \notin {"copy", "restore"}  BY <2>1, <2>3, <3>3 DEF Busy
      <4> QED  BY <4>1, FaithfulElse
    <3> QED  BY <2>2, <3>2, <3>3
  <2> QED  BY <2>1, <2>3
<1> QED  BY <1>1, <1>2, <1>3, <1>4, <1>5, <1>6, <1>7, <1>8, <1>9, StepKinds

(* Nobody copies at first.                                                 *)
LEMMA CopyInit == Init => CopyInv
<1> SUFFICES ASSUME Init PROVE CopyInv  OBVIOUS
<1>1. \A t \in Thread : th[t].pc = "idle"  BY DEF Init, Idle
<1> QED  BY <1>1, ShapeInit DEF CopyInv, Faithful

(* CopyInv holds throughout.                                               *)
LEMMA CopyAlways == Spec => []CopyInv
BY CopyInit, CopyNext, PTL DEF Spec

(* A copy that nobody disturbs and that is at the end of the file has all  *)
(* of it, but for damage.                                                  *)
LEMMA CopyExact ==
  ASSUME CopyInv, NEW t \in Thread \ torn, th[t].pc = "copy", AtEnd(t)
  PROVE  /\ Len(th[t].buf) = Len(content) /\ Same(th[t].buf, content, th[t].cut)
         /\ ~th[t].cut => th[t].buf = content
<1>1. Faithful(t) /\ content \in Blocks /\ th[t].buf \in Blocks
  BY ShapeParts DEF CopyInv, Job
<1>2. /\ content \in Seq(Datum) /\ th[t].buf \in Seq(Datum)
      /\ Len(content) \in Nat /\ Len(th[t].buf) \in Nat
  BY <1>1, BlocksAreSeqs, LenProperties
<1>3. Len(th[t].buf) = Len(content)  BY <1>1, <1>2 DEF AtEnd, Faithful
<1>4. Same(th[t].buf, content, th[t].cut)  BY <1>1 DEF Faithful
<1>5. ASSUME ~th[t].cut PROVE th[t].buf = content
  <2>1. \A k \in 1..Len(th[t].buf) : th[t].buf[k] = content[k]  BY <1>4, <1>5 DEF Same
  <2> QED  BY <1>2, <1>3, <2>1, SeqEqual
<1> QED  BY <1>3, <1>4, <1>5

(* Every operation keeps its types: no copy or restore runs past the       *)
(* bound of the file, no write has lost its data, no truncation its size,  *)
(* whoever writes, truncates, stores and rolls back in between             *)
(* (kernel/cowfs_file.c, kernel/cowfs_shadow.c, cowfs_setattr).            *)
THEOREM WriteTypeCorrect == Spec => []TypeOK
<1>1. CopyInv => TypeOK  BY DEF CopyInv, ShapeInv
<1> QED  BY <1>1, CopyAlways, PTL

(* What cowfs_shadow_copy_file has written is as long as the file and      *)
(* block for block the file, and what cowfs_shadow_restore_file has        *)
(* written so far is a beginning of the version and all there is in the    *)
(* file, when nobody else changed the file meanwhile; but for the blocks   *)
(* that a short kernel_write damages.  This is so for every number of      *)
(* threads, whether they share descriptors, store to mappings or fail.     *)
THEOREM ExactCorrect == Spec => []UndisturbedExact
<1>1. ASSUME CopyInv, NEW t \in Thread \ torn
      PROVE  /\ th[t].pc = "copy" /\ AtEnd(t) =>
                  Len(th[t].buf) = Len(content) /\ Same(th[t].buf, content, th[t].cut)
             /\ th[t].pc = "restore" =>
                  /\ Len(content) = Len(th[t].buf) /\ Len(content) <= Len(th[t].goal)
                  /\ Same(content, th[t].goal, th[t].cut)
  <2>1. th[t].pc = "copy" /\ AtEnd(t) =>
          Len(th[t].buf) = Len(content) /\ Same(th[t].buf, content, th[t].cut)
    BY <1>1, CopyExact
  <2>2. Faithful(t)  BY <1>1 DEF CopyInv
  <2> QED  BY <2>1, <2>2 DEF Faithful
<1>2. CopyInv => UndisturbedExact  BY <1>1 DEF UndisturbedExact
<1> QED  BY <1>2, CopyAlways, PTL

-----------------------------------------------------------------------------
(* The content before the first write is saved.                            *)

(* A step that leaves the openers alone and gives thread t a descriptor of *)
(* its own.                                                                *)
LEMMA OwnThread ==
  ASSUME OwnFiles, NEW t \in Thread, Others(t),
         \A f \in Open : ofile'[f].by = ofile[f].by,
         th'[t].file \in Open =>
           ofile[th'[t].file].by = t /\ ofile[th'[t].file].by # Nobody
  PROVE  OwnFiles'
BY DEF OwnFiles, Others

(* Every step preserves OwnFiles.                                          *)
LEMMA OwnNext ==
  ASSUME "share" \notin Uses, ShapeInv, OwnFiles, [Next]_vars
  PROVE  OwnFiles'
<1>0. ofile \in [Open -> FileInfo] /\ th \in [Thread -> Job]  BY ShapeParts
<1>1. ASSUME NEW t \in Thread, NEW f \in Open, NEW k \in 1..MaxBlocks, WriteTestsFlag(t, f, k)
      PROVE  OwnFiles'
  <2>1. Others(t) /\ th'[t].file = f  BY <1>1, TestsFlagStep
  <2>2. ofile' = ofile /\ f \in Files(t)  BY <1>1 DEF WriteTestsFlag
  <2>3. ofile[f].by = t /\ ofile[f].by # Nobody  BY <2>2 DEF Files, IsOpen
  <2> QED  BY <2>1, <2>2, <2>3, OwnThread
<1>2. ASSUME NEW t \in Thread, WriteSetsFlag(t) PROVE OwnFiles'
  <2>1. Others(t) /\ th'[t].file = th[t].file /\ th[t].file \in Open  BY <1>2, SetsFlagStep
  <2>2. \A f \in Open : ofile'[f].by = ofile[f].by
    BY <1>0, <1>2, <2>1, SetTakenFile DEF WriteSetsFlag
  <2> QED  BY <2>1, <2>2, OwnThread DEF OwnFiles
<1>3. ASSUME NEW t \in Thread, LowerWrite(t) \/ LowerFails(t) \/ LowerTruncate(t) \/ RestoreEnds(t)
      PROVE  OwnFiles'
  <2>1. Others(t) /\ th'[t].file \notin Open
    BY <1>3, EndsStep, IdleJob, WriteAssumption
  <2>2. \A f \in Open : ofile'[f].by = ofile[f].by
    <3>1. CASE ofile' = ofile  BY <3>1
    <3>2. CASE LowerTruncate(t) /\ th[t].file # NoFile
      <4>1. th[t].file \in Open  BY <1>0, <3>2 DEF Job
      <4> QED  BY <1>0, <3>2, <4>1, SetTakenFile DEF LowerTruncate
    <3> QED  BY <1>3, <3>1, <3>2 DEF LowerWrite, LowerFails, LowerTruncate, RestoreEnds
  <2> QED  BY <2>1, <2>2, OwnThread
<1>4. ASSUME NEW t \in Thread, NEW f \in Open \cup {NoFile}, NEW n \in 0..MaxBlocks,
             SetattrStarts(t, f, n)
      PROVE  OwnFiles'
  <2>1. Others(t) /\ th'[t].file = f  BY <1>4, SetattrStep
  <2>2. ofile' = ofile /\ f \in Files(t) \cup {NoFile}  BY <1>4 DEF SetattrStarts
  <2>3. f \in Open => ofile[f].by = t /\ ofile[f].by # Nobody
    BY <2>2, WriteAssumption DEF Files, IsOpen
  <2> QED  BY <2>1, <2>2, <2>3, OwnThread
<1>5. ASSUME NEW t \in Thread, CopyBlock(t) \/ CopyShort(t) PROVE OwnFiles'
  <2>1. Others(t) /\ th'[t].file = th[t].file  BY <1>5, CopyBlockStep
  <2> QED  BY <1>5, <2>1, OwnThread DEF CopyBlock, CopyShort, OwnFiles
<1>6. ASSUME NEW t \in Thread, CopyEnds(t) \/ CopyFails(t) PROVE OwnFiles'
  <2>1. Others(t) /\ th'[t].file = th[t].file  BY <1>6, CopyEndsStep
  <2> QED  BY <1>6, <2>1, OwnThread DEF CopyEnds, CopyFails, OwnFiles
<1>7. ASSUME NEW t \in Thread, NEW v \in saved, RestoreStarts(t, v) PROVE OwnFiles'
  <2>1. Others(t) /\ th'[t].file \notin Open  BY <1>7, RestoreStartsStep, WriteAssumption
  <2> QED  BY <1>7, <2>1, OwnThread DEF RestoreStarts
<1>8. ASSUME NEW t \in Thread, RestoreBlock(t) \/ RestoreShort(t) PROVE OwnFiles'
  <2>1. Others(t) /\ th'[t].file = th[t].file  BY <1>8, RestoreBlockStep
  <2> QED  BY <1>8, <2>1, OwnThread DEF RestoreBlock, RestoreShort, OwnFiles
<1>9. ASSUME NEW t \in Thread, NEW f \in Open, cowfs_open(t, f) PROVE OwnFiles'
  <2>1. th' = th /\ ~IsOpen(f) /\ ofile' = [ofile EXCEPT ![f] = OpenedFile(t)]
    BY <1>9 DEF cowfs_open
  <2>2. \A u \in Thread : th[u].file # f  BY <2>1 DEF OwnFiles, IsOpen
  <2> QED  BY <1>0, <2>1, <2>2 DEF OwnFiles
<1>10. ASSUME NEW f \in Open, cowfs_release(f) PROVE OwnFiles'
  <2>1. th' = th /\ ~InUse(f) /\ ofile' = [ofile EXCEPT ![f] = Closed]
    BY <1>10 DEF cowfs_release
  <2> QED  BY <1>0, <2>1 DEF OwnFiles, InUse
<1>11. ASSUME \/ \E t \in Thread : cowfs_mmap(t)
              \/ \E k \in 1..MaxBlocks : Store(k)
              \/ Observe
              \/ UNCHANGED vars
       PROVE  OwnFiles'
  <2>1. th' = th /\ ofile' = ofile  BY <1>11 DEF cowfs_mmap, Store, Observe, vars
  <2> QED  BY <2>1 DEF OwnFiles
<1> QED
  BY <1>1, <1>2, <1>3, <1>4, <1>5, <1>6, <1>7, <1>8, <1>9, <1>10, <1>11, StepKinds

(* Only who copies or restores is disturbed.                               *)
LEMMA TornNext ==
  ASSUME ShapeInv, torn \subseteq Busy, [Next]_vars
  PROVE  torn' \subseteq Busy'
<1>1. ASSUME NEW t \in Thread, Others(t), torn' \subseteq torn \cup Busy,
             th'[t].pc \in {"copy", "restore"} \/ t \notin torn'
      PROVE  torn' \subseteq Busy'
  BY <1>1 DEF Others, Busy
<1>2. ASSUME NEW t \in Thread, NEW f \in Open, NEW k \in 1..MaxBlocks, WriteTestsFlag(t, f, k)
      PROVE  torn' \subseteq Busy'
  <2>1. torn' = torn /\ t \notin torn /\ Others(t)
    BY <1>2, TestsFlagStep DEF WriteTestsFlag, Busy
  <2> QED  BY <1>1, <2>1
<1>3. ASSUME NEW t \in Thread, WriteSetsFlag(t) PROVE torn' \subseteq Busy'
  <2>1. torn' = torn /\ th'[t].pc = "copy" /\ Others(t)
    BY <1>3, SetsFlagStep DEF WriteSetsFlag
  <2> QED  BY <1>1, <2>1
<1>4. ASSUME NEW t \in Thread, LowerWrite(t) \/ LowerFails(t) \/ LowerTruncate(t) \/ RestoreEnds(t)
      PROVE  torn' \subseteq Busy'
  <2>1. Others(t)  BY <1>4, EndsStep
  <2>2. torn' \subseteq torn \cup Busy /\ t \notin torn'
    BY <1>4 DEF LowerWrite, LowerFails, LowerTruncate, RestoreEnds, Change, Busy
  <2> QED  BY <1>1, <2>1, <2>2
<1>5. ASSUME NEW t \in Thread, NEW f \in Open \cup {NoFile}, NEW n \in 0..MaxBlocks,
             SetattrStarts(t, f, n)
      PROVE  torn' \subseteq Busy'
  <2>1. torn' = torn /\ th'[t].pc = "copy" /\ Others(t)
    BY <1>5, SetattrStep DEF SetattrStarts
  <2> QED  BY <1>1, <2>1
<1>6. ASSUME NEW t \in Thread, CopyBlock(t) \/ CopyShort(t) PROVE torn' \subseteq Busy'
  <2>1. torn' = torn /\ th'[t].pc = "copy" /\ Others(t)
    BY <1>6, CopyBlockStep DEF CopyBlock, CopyShort
  <2> QED  BY <1>1, <2>1
<1>7. ASSUME NEW t \in Thread, CopyEnds(t) \/ CopyFails(t) PROVE torn' \subseteq Busy'
  <2>1. torn' = torn \ {t} /\ Others(t)  BY <1>7, CopyEndsStep DEF CopyEnds, CopyFails
  <2> QED  BY <1>1, <2>1
<1>8. ASSUME NEW t \in Thread, NEW v \in saved, RestoreStarts(t, v) PROVE torn' \subseteq Busy'
  <2>1. torn' = torn \cup Busy /\ th'[t].pc = "restore" /\ Others(t)
    BY <1>8, RestoreStartsStep DEF RestoreStarts
  <2> QED  BY <1>1, <2>1
<1>9. ASSUME NEW t \in Thread, RestoreBlock(t) \/ RestoreShort(t) PROVE torn' \subseteq Busy'
  <2>1. torn' = torn \cup (Busy \ {t}) /\ th'[t].pc = "restore" /\ Others(t)
    BY <1>9, RestoreBlockStep
  <2> QED  BY <1>1, <2>1
<1>10. ASSUME \/ \E t \in Thread, f \in Open : cowfs_open(t, f)
              \/ \E t \in Thread : cowfs_mmap(t)
              \/ \E f \in Open : cowfs_release(f)
              \/ \E k \in 1..MaxBlocks : Store(k)
              \/ Observe
              \/ UNCHANGED vars
       PROVE  torn' \subseteq Busy'
  BY <1>10 DEF cowfs_open, cowfs_mmap, cowfs_release, Store, Observe, vars, Busy
<1> QED  BY <1>2, <1>3, <1>4, <1>5, <1>6, <1>7, <1>8, <1>9, <1>10, StepKinds

(* What the observer noted stays the same, and so does what is saved of it *)
(* and what excuses its loss, but for the observer's own step.             *)
LEMMA UnsavedBefore ==
  ASSUME [Next]_vars, ~Observe, Unsaved'
  PROVE  Unsaved /\ base' = base
<1>1. base' = base /\ saved \subseteq saved' /\ (excused' = TRUE \/ excused' = excused)
  BY DEF Next, vars, cowfs_open, WriteTestsFlag, WriteSetsFlag, LowerWrite, LowerFails,
    SetattrStarts, LowerTruncate, CopyBlock, CopyShort, CopyEnds, CopyFails, RestoreStarts,
    RestoreBlock, RestoreShort, RestoreEnds, cowfs_mmap, cowfs_release, Store
<1>2. CASE excused' = TRUE  BY <1>2 DEF Unsaved
<1>3. CASE excused' = excused  BY <1>1, <1>3 DEF Unsaved
<1> QED  BY <1>1, <1>2, <1>3

(* A step of t that leaves the file alone and does not take t to a place   *)
(* from which it changes it.                                               *)
LEMMA GuardedThread ==
  ASSUME Guarded, NEW t \in Thread, Others(t), content' = content, base' = base,
         torn' \subseteq torn,
         th'[t].pc \notin {"write", "truncate", "restore"},
         th'[t].pc = "copy" => t \notin torn' /\ ~th'[t].cut,
         \A f \in Open : ofile'[f].by = ofile[f].by,
         \A f \in Open : ofile'[f].snapshot_taken =>
           \/ ofile[f].snapshot_taken
           \/ ofile[f].by = t /\ th'[t].pc = "copy" /\ th'[t].file = f,
         th[t].pc = "copy" => th'[t].pc = "copy" /\ th'[t].file = th[t].file
  PROVE  Guarded'
<1>1. \A u \in Thread : /\ th'[u].pc \notin {"write", "truncate", "restore"}
                        /\ th'[u].pc = "copy" => u \notin torn' /\ ~th'[u].cut
  BY DEF Guarded, Others
<1>2. ASSUME NEW f \in Open, ofile'[f].snapshot_taken
      PROVE  \E u \in Thread : ofile'[f].by = u /\ th'[u].pc = "copy" /\ th'[u].file = f
  <2>1. CASE ofile[f].snapshot_taken
    <3>1. PICK u \in Thread : ofile[f].by = u /\ th[u].pc = "copy" /\ th[u].file = f
      BY <2>1 DEF Guarded
    <3> QED  BY <3>1 DEF Others
  <2>2. CASE ofile[f].by = t /\ th'[t].pc = "copy" /\ th'[t].file = f  BY <2>2
  <2> QED  BY <1>2, <2>1, <2>2
<1>3. content' = base'  BY DEF Guarded
<1> QED  BY <1>1, <1>2, <1>3 DEF Guarded

(* A step that leaves the file and the threads alone.                      *)
LEMMA GuardedQuiet ==
  ASSUME Guarded, th' = th, content' = content, base' = base, torn' = torn,
         \A f \in Open : ofile'[f].snapshot_taken => ofile'[f] = ofile[f]
  PROVE  Guarded'
BY DEF Guarded

(* Every step keeps the content guarded as long as it is unsaved.          *)
LEMMA GuardedNext ==
  ASSUME "share" \notin Uses, BaseInv, [Next]_vars, Unsaved'
  PROVE  Guarded'
<1>0. ShapeInv /\ CopyInv /\ OwnFiles /\ torn \subseteq Busy  BY DEF BaseInv, CopyInv
<1>1. CASE Observe
  BY <1>1 DEF Observe, Quiet, Guarded
<1> SUFFICES ASSUME ~Observe PROVE Guarded'  BY <1>1
<1>2. Unsaved /\ base' = base  BY UnsavedBefore
<1>3. Guarded /\ ofile \in [Open -> FileInfo]  BY <1>0, <1>2, ShapeParts DEF BaseInv
<1>4. \A t \in Thread : th[t].pc \notin {"write", "truncate", "restore"}  BY <1>3 DEF Guarded
<1>5. ASSUME NEW t \in Thread, NEW f \in Open, NEW k \in 1..MaxBlocks, WriteTestsFlag(t, f, k)
      PROVE  Guarded'
  <2>1. /\ Others(t)
        /\ th'[t].pc = IF ofile[f].snapshot_taken THEN "write" ELSE "flag"
    BY <1>0, <1>5, TestsFlagStep
  <2>2. /\ UNCHANGED <<content, ofile, torn>> /\ f \in Files(t) /\ th[t].pc = "idle"
    BY <1>5 DEF WriteTestsFlag
  <2>3. ofile[f].by = t  BY <2>2 DEF Files
  <2>4. ~ofile[f].snapshot_taken  BY <1>3, <2>2, <2>3 DEF Guarded
  <2>5. th'[t].pc = "flag"  BY <2>1, <2>4
  <2> QED  BY <1>2, <1>3, <2>1, <2>2, <2>5, GuardedThread
<1>6. ASSUME NEW t \in Thread, WriteSetsFlag(t) PROVE Guarded'
  <2>1. /\ Others(t) /\ th'[t].file = th[t].file /\ th[t].file \in Open /\ th'[t].pc = "copy"
        /\ ~th'[t].cut
    BY <1>0, <1>6, SetsFlagStep
  <2>2. /\ content' = content /\ torn' = torn /\ ofile' = SetTaken(th[t].file)
        /\ th[t].pc = "flag"
    BY <1>6 DEF WriteSetsFlag
  <2>3. ofile[th[t].file].by = t  BY <1>0, <2>1 DEF OwnFiles
  <2>4. /\ \A f \in Open : ofile'[f].by = ofile[f].by
        /\ \A f \in Open \ {th[t].file} : ofile'[f] = ofile[f]
    BY <1>3, <2>1, <2>2, SetTakenFile
  <2>5. \A f \in Open : ofile'[f].snapshot_taken =>
          \/ ofile[f].snapshot_taken
          \/ ofile[f].by = t /\ th'[t].pc = "copy" /\ th'[t].file = f
    BY <2>1, <2>3, <2>4
  <2>6. torn' \subseteq torn /\ t \notin torn'  BY <1>0, <2>2 DEF Busy
  <2> QED  BY <1>2, <1>3, <2>1, <2>2, <2>4, <2>5, <2>6, GuardedThread
<1>7. ASSUME NEW t \in Thread, LowerWrite(t) \/ LowerFails(t) \/ LowerTruncate(t) \/ RestoreEnds(t)
      PROVE  Guarded'
  BY <1>4, <1>7 DEF LowerWrite, LowerFails, LowerTruncate, RestoreEnds
<1>8. ASSUME NEW t \in Thread, NEW f \in Open \cup {NoFile}, NEW n \in 0..MaxBlocks,
             SetattrStarts(t, f, n)
      PROVE  Guarded'
  <2>1. Others(t) /\ th'[t].pc = "copy" /\ ~th'[t].cut  BY <1>0, <1>8, SetattrStep
  <2>2. UNCHANGED <<content, ofile, torn>> /\ th[t].pc = "idle"
    BY <1>8 DEF SetattrStarts
  <2>3. torn' \subseteq torn /\ t \notin torn'  BY <1>0, <2>2 DEF Busy
  <2> QED  BY <1>2, <1>3, <2>1, <2>2, <2>3, GuardedThread
<1>9. ASSUME NEW t \in Thread, CopyBlock(t) PROVE Guarded'
  <2>1. Others(t) /\ th'[t].pc = "copy" /\ th'[t].file = th[t].file /\ th'[t].cut = th[t].cut
    BY <1>0, <1>9, CopyBlockStep
  <2>2. UNCHANGED <<content, ofile, torn>> /\ th[t].pc = "copy"  BY <1>9 DEF CopyBlock
  <2>3. t \notin torn /\ ~th[t].cut  BY <1>3, <2>2 DEF Guarded
  <2> QED  BY <1>2, <1>3, <2>1, <2>2, <2>3, GuardedThread
<1>10. ASSUME NEW t \in Thread, CopyEnds(t) PROVE Guarded'
  <2>1. th[t].pc = "copy" /\ AtEnd(t) /\ saved' = saved \cup {th[t].buf}
    BY <1>10 DEF CopyEnds
  <2>2. t \notin torn /\ ~th[t].cut /\ content = base  BY <1>3, <2>1 DEF Guarded
  <2>3. th[t].buf = content  BY <1>0, <2>1, <2>2, CopyExact
  <2>4. base' \in saved'  BY <1>2, <2>1, <2>2, <2>3
  <2> QED  BY <2>4 DEF Unsaved
<1>11. ASSUME NEW t \in Thread,
              CopyShort(t) \/ CopyFails(t) \/ (\E v \in saved : RestoreStarts(t, v))
       PROVE  Guarded'
  BY <1>11 DEF CopyShort, CopyFails, RestoreStarts, Unsaved
<1>12. ASSUME NEW t \in Thread, RestoreBlock(t) \/ RestoreShort(t) PROVE Guarded'
  BY <1>4, <1>12 DEF RestoreBlock, RestoreShort
<1>13. ASSUME NEW t \in Thread, NEW f \in Open, cowfs_open(t, f) PROVE Guarded'
  <2>1. /\ UNCHANGED <<content, th, torn>>
        /\ ofile' = [ofile EXCEPT ![f] = OpenedFile(t)] /\ ~OpenedFile(t).snapshot_taken
    BY <1>13 DEF cowfs_open, OpenedFile
  <2>2. \A g \in Open : ofile'[g].snapshot_taken => ofile'[g] = ofile[g]  BY <1>3, <2>1
  <2> QED  BY <1>2, <1>3, <2>1, <2>2, GuardedQuiet
<1>14. ASSUME NEW f \in Open, cowfs_release(f) PROVE Guarded'
  <2>1. /\ UNCHANGED <<content, th, torn>>
        /\ ofile' = [ofile EXCEPT ![f] = Closed] /\ ~Closed.snapshot_taken
    BY <1>14 DEF cowfs_release, Closed
  <2>2. \A g \in Open : ofile'[g].snapshot_taken => ofile'[g] = ofile[g]  BY <1>3, <2>1
  <2> QED  BY <1>2, <1>3, <2>1, <2>2, GuardedQuiet
<1>15. ASSUME NEW k \in 1..MaxBlocks, Store(k) PROVE Guarded'
  BY <1>15 DEF Store, Unsaved
<1>16. ASSUME (\E t \in Thread : cowfs_mmap(t)) \/ UNCHANGED vars PROVE Guarded'
  <2>1. UNCHANGED <<content, th, torn, ofile>>  BY <1>16 DEF cowfs_mmap, vars
  <2> QED  BY <1>2, <1>3, <2>1, GuardedQuiet
<1> QED
  BY <1>5, <1>6, <1>7, <1>8, <1>9, <1>10, <1>11, <1>12, <1>13, <1>14, <1>15, <1>16, StepKinds

(* Whatever number of opens write and truncate at the same time, each with *)
(* its own descriptor, and whatever fails, is cut short, is stored to a    *)
(* mapping or is rolled back: the content the file had when nobody was     *)
(* changing it is in some version before it is destroyed, or a copy failed *)
(* or was cut short, a mapping was stored to or a rollback began since     *)
(* (cowfs_write, cowfs_setattr, cowfs_shadow_copy_file).                   *)
THEOREM BaseCorrect ==
  ASSUME "share" \notin Uses
  PROVE  Spec => []BaseSaved
<1>1. Init => BaseInv
  <2> SUFFICES ASSUME Init PROVE BaseInv  OBVIOUS
  <2>1. \A t \in Thread : th[t].file = NoFile /\ th[t].pc = "idle"
    BY DEF Init, Idle
  <2>2. \A f \in Open : ~ofile[f].snapshot_taken  BY DEF Init, Closed
  <2>3. content = base  BY DEF Init
  <2>4. torn = {}  BY DEF Init
  <2> QED  BY <2>1, <2>2, <2>3, <2>4, CopyInit, WriteAssumption DEF BaseInv, OwnFiles, Guarded
<1>2. BaseInv /\ [Next]_vars => BaseInv'
  <2> SUFFICES ASSUME BaseInv, [Next]_vars PROVE BaseInv'  OBVIOUS
  <2>1. CopyInv'  BY CopyNext DEF BaseInv
  <2>2. OwnFiles'  BY OwnNext DEF BaseInv, CopyInv
  <2>3. Unsaved' => Guarded'  BY GuardedNext
  <2>4. torn' \subseteq Busy'  BY TornNext DEF BaseInv, CopyInv
  <2> QED  BY <2>1, <2>2, <2>3, <2>4 DEF BaseInv
<1>3. BaseInv => BaseSaved  BY DEF BaseInv, Unsaved, Guarded, BaseSaved
<1> QED  BY <1>1, <1>2, <1>3, PTL DEF Spec

=============================================================================
