------------------------- MODULE CowNamespaceProofs -------------------------
(***************************************************************************)
(* Proofs about CowNamespace, for every set of inode numbers, names and    *)
(* permission bits, every number of operations and whatever users do and   *)
(* the lower file system refuses.                                          *)
(***************************************************************************)
EXTENDS CowNamespace, TLAPS

(* What the upper inode keeps of a lower one.                              *)
UpperNode == [kind : Kind, mode : Mode]

(* What a dentry may be.                                                   *)
Dentry == Inode \cup {"uncached", "negative"}

(* The operations that save versions.                                      *)
Op == {"WRITE", "UNLINK", "RENAME", "SETATTR"}

(* Steps by what they do to the lower file system and to the caches.       *)

(* An inode is made at p.                                                  *)
Made(p, i, k, d) ==
  /\ FreshNumber(i) /\ ent[p] = None
  /\ ent' = [ent EXCEPT ![p] = i] /\ used' = used \cup {i}
  /\ inode' \in [Inode -> Node]
  /\ inode'[i].kind = k /\ inode'[i].data = d
  /\ \A j \in Inode \ {i} : inode'[j] = inode[j]

(* Inode i may get another content or other permissions.                   *)
Edited(i) ==
  /\ used' = used /\ ent' = ent
  /\ inode' \in [Inode -> Node]
  /\ inode'[i].kind = inode[i].kind
  /\ \A j \in Inode \ {i} : inode'[j] = inode[j]

(* What vfs_rename has done, between p and q.                              *)
Renamed(p, q) ==
  /\ \/ ent[p] = ent[q] /\ ent' = ent
     \/ ent[p] # ent[q] /\ p # q /\ ent' = [ent EXCEPT ![q] = ent[p], ![p] = None]
  /\ inode' = Reap(ent', inode) /\ used' = used

(* Some dentries may go.                                                   *)
Thinned ==
  /\ dcache' \in [Place -> Dentry]
  /\ \A p \in Place : dcache'[p] \in {dcache[p], "uncached"}

-----------------------------------------------------------------------------
(* Types.                                                                  *)

(* What the state is made of.                                              *)
LEMMA NameTypes ==
  ASSUME TypeOK
  PROVE  /\ MaxTime \in Nat /\ time \in 0..MaxTime /\ used \subseteq Inode
         /\ inode \in [Inode -> Node] /\ ent \in [Place -> Inode \cup {None}]
         /\ icache \in [Inode -> UpperNode] /\ dcache \in [Place -> Dentry]
         /\ versions \subseteq Version /\ undo \in Undo /\ report \in Reports
         /\ None \notin Inode /\ "uncached" \notin Inode /\ "negative" \notin Inode
BY NamespaceAssumption DEF TypeOK, UpperNode, Dentry

(* Nothing there.                                                          *)
LEMMA FreeNode ==
  /\ 0 \in Content /\ FreeInode \in Node /\ FreeInode.kind = "free"
  /\ [kind |-> "free", mode |-> {}] \in UpperNode
BY NamespaceAssumption DEF Content, FreeInode, Node, UpperNode, Kind, Mode

(* No operation that could be undone.                                      *)
LEMMA NoUndoType == NoUndo \in Undo /\ NoUndo.ts = 0
BY NamespaceAssumption DEF NoUndo, Undo

(* The tree is one of lower inodes.                                        *)
LEMMA TreeType ==
  ASSUME TypeOK
  PROVE  Tree \in [Place -> Node]
BY NameTypes, FreeNode DEF Tree

(* An inode that is still named stays as it is, the others are freed.      *)
LEMMA ReapEffect ==
  ASSUME inode \in [Inode -> Node], NEW e
  PROVE  /\ Reap(e, inode) \in [Inode -> Node]
         /\ \A j \in Inode : j \in Linked(e) => Reap(e, inode)[j] = inode[j]
         /\ \A j \in Inode : j \notin Linked(e) => Reap(e, inode)[j] = FreeInode
BY FreeNode DEF Reap

(* Dropped dentries are gone, and perhaps the ones below them.             *)
LEMMA DropEffect ==
  ASSUME TypeOK, NEW S
  PROVE  /\ Drop(dcache, S) \in [Place -> Dentry]
         /\ \A p \in Place : Drop(dcache, S)[p] \in {dcache[p], "uncached"}
         /\ \A p \in Place : p \in S => Drop(dcache, S)[p] = "uncached"
BY NameTypes DEF Drop, Dentry

(* cowfs_get_inode changes the entry of its number only, if it is free.    *)
LEMMA GetInodeEffect ==
  ASSUME TypeOK, NEW i \in Inode, NEW low, low.kind \in Kind, low.mode \in Mode
  PROVE  /\ GetInode(i, low) \in [Inode -> UpperNode]
         /\ \A j \in Inode \ {i} : GetInode(i, low)[j] = icache[j]
         /\ Cached(i) => GetInode(i, low)[i] = icache[i]
         /\ ~Cached(i) => GetInode(i, low)[i].kind = low.kind
<1>1. [kind |-> low.kind, mode |-> low.mode] \in UpperNode  BY DEF UpperNode
<1> QED  BY <1>1, NameTypes DEF GetInode

(* vfs_create, vfs_mkdir, vfs_symlink.                                     *)
LEMMA MakeEffect ==
  ASSUME TypeOK, NEW p \in Place, NEW i \in Inode, NEW k \in Kind, NEW m \in Mode,
         NEW d \in Content, FreshNumber(i), ent[p] = None, LowerMake(p, i, k, m, d)
  PROVE  /\ Made(p, i, k, d)
         /\ ent' \in [Place -> Inode \cup {None}] /\ used' \subseteq Inode
<1>1. PICK r : r = [kind |-> k, mode |-> m \ Umask, data |-> d]  OBVIOUS
<1>2. r \in Node /\ r.kind = k /\ r.data = d  BY <1>1 DEF Node, Mode
<1>3. inode' = [inode EXCEPT ![i] = r] /\ ent' = [ent EXCEPT ![p] = i] /\ used' = used \cup {i}
  BY <1>1 DEF LowerMake
<1> QED  BY <1>2, <1>3, NameTypes DEF Made

(* vfs_unlink, vfs_rmdir.                                                  *)
LEMMA RemoveEffect ==
  ASSUME TypeOK, NEW p \in Place, LowerRemove(p)
  PROVE  /\ ent' = [ent EXCEPT ![p] = None] /\ inode' = Reap(ent', inode) /\ used' = used
         /\ ent' \in [Place -> Inode \cup {None}] /\ inode' \in [Inode -> Node]
<1>1. ent' = [ent EXCEPT ![p] = None] /\ inode' = Reap(ent', inode) /\ used' = used
  BY DEF LowerRemove
<1> QED  BY <1>1, NameTypes, ReapEffect

(* vfs_rename.                                                             *)
LEMMA RenameEffect ==
  ASSUME TypeOK, NEW p \in Place, NEW q \in Place, ent[p] # None, LowerRename(p, q)
  PROVE  /\ \/ ent[p] = ent[q] /\ ent' = ent
            \/ ent[p] # ent[q] /\ p # q /\ ent' = [ent EXCEPT ![q] = ent[p], ![p] = None]
         /\ inode' = Reap(ent', inode) /\ used' = used
         /\ ent' \in [Place -> Inode \cup {None}] /\ inode' \in [Inode -> Node]
<1>1. /\ ent' = IF ent[p] = ent[q] THEN ent ELSE [ent EXCEPT ![q] = ent[p], ![p] = None]
      /\ inode' = Reap(ent', inode) /\ used' = used
  BY DEF LowerRename
<1> QED  BY <1>1, NameTypes, ReapEffect

(* An upper dentry that can be operated on.                                *)
LEMMA PositiveParts ==
  ASSUME TypeOK, NEW p \in Place, NEW kinds, Positive(p, kinds)
  PROVE  /\ ent[p] \in Inode /\ dcache[p] \in Inode
         /\ inode[ent[p]] \in Node /\ inode[ent[p]].kind \in kinds
BY NameTypes DEF Positive

(* The version that an operation saves.                                    *)
LEMMA SavedVersion ==
  ASSUME TypeOK, NEW p \in Place, ent[p] \in Inode, time < MaxTime, NEW has \in BOOLEAN,
         NEW op \in Op
  PROVE  /\ Saved(op, p, has) \in Version
         /\ Saved(op, p, has).ts = time + 1 /\ Saved(op, p, has).ino = ent[p]
         /\ Saved(op, p, has).op = op /\ Saved(op, p, has).has_data = has
         /\ Saved(op, p, has).name = p[2]
         /\ has => Saved(op, p, has).data = inode[ent[p]].data
<1>1. time + 1 \in 1..MaxTime /\ p[2] \in Name  BY NameTypes DEF Place
<1>2. inode[ent[p]].data \in Content /\ inode[ent[p]].mode \in Mode  BY NameTypes DEF Node
<1> QED  BY <1>1, <1>2, FreeNode DEF Saved, Version, Op

(* An operation without a version.                                         *)
LEMMA UnsavedEffect ==
  ASSUME TypeOK, Unsaved
  PROVE  /\ time' = time + 1 /\ time' \in 0..MaxTime /\ versions' = versions
         /\ undo' = NoUndo /\ undo' \in Undo /\ report' = "none" /\ report' \in Reports
BY NameTypes, NoUndoType DEF Unsaved, Ticks, Reports

(* The names at which something is lost.                                   *)
LEMMA LostNames ==
  /\ \A p, gone : Uncopied(p, gone) \subseteq Place
  /\ \A p, q \in Place : Replaced(p, q) \subseteq Place
BY DEF Uncopied, Replaced, Place

(* An operation, with or without a version.                                *)
LEMMA OperationTypes ==
  ASSUME TypeOK, NEW p \in Place, ent[p] \in Inode, NEW has \in BOOLEAN, NEW op \in Op,
         NEW at \in Place, NEW lost \in SUBSET Place,
         Saves(Saved(op, p, has), at, lost) \/ Unsaved
  PROVE  /\ time' \in 0..MaxTime /\ versions' \subseteq Version
         /\ undo' \in Undo /\ report' \in Reports
<1>1. CASE Unsaved  BY <1>1, UnsavedEffect, NameTypes
<1>2. CASE Saves(Saved(op, p, has), at, lost)
  <2>1. PICK w : w = Saved(op, p, has)  OBVIOUS
  <2>2. time < MaxTime /\ time' = time + 1  BY <1>2 DEF Saves, Ticks
  <2>3. w \in Version  BY <2>1, <2>2, SavedVersion
  <2>4. /\ versions' = versions \cup {w} /\ report' = "none"
        /\ undo' = [ts |-> w.ts, place |-> at, tree |-> Tree, lost |-> lost]
    BY <1>2, <2>1 DEF Saves
  <2>5. w.ts \in 0..MaxTime  BY <2>3, NameTypes DEF Version
  <2>6. undo' \in Undo  BY <2>4, <2>5, TreeType DEF Undo
  <2> QED  BY <2>2, <2>3, <2>4, <2>6, NameTypes DEF Reports
<1> QED  BY <1>1, <1>2

(* An inode gets another content.                                          *)
LEMMA DataEffect ==
  ASSUME TypeOK, NEW i \in Inode, NEW d \in Content,
         inode' = [inode EXCEPT ![i].data = d], used' = used, ent' = ent
  PROVE  Edited(i) /\ inode'[i].data = d /\ inode'[i].mode = inode[i].mode
<1>1. PICK x \in Node : x = inode[i]  BY NameTypes
<1>2. PICK r : r = [x EXCEPT !.data = d]  OBVIOUS
<1>3. r \in Node /\ r.kind = x.kind /\ r.data = d /\ r.mode = x.mode  BY <1>2 DEF Node
<1>4. inode' = [inode EXCEPT ![i] = r]  BY <1>1, <1>2
<1> QED  BY <1>1, <1>3, <1>4, NameTypes DEF Edited

(* An inode gets other permissions.                                        *)
LEMMA ModeEffect ==
  ASSUME TypeOK, NEW i \in Inode, NEW m \in Mode,
         inode' = [inode EXCEPT ![i].mode = m], used' = used, ent' = ent
  PROVE  Edited(i) /\ inode'[i].data = inode[i].data /\ inode'[i].mode = m
<1>1. PICK x \in Node : x = inode[i]  BY NameTypes
<1>2. PICK r : r = [x EXCEPT !.mode = m]  OBVIOUS
<1>3. r \in Node /\ r.kind = x.kind /\ r.data = x.data /\ r.mode = m  BY <1>2 DEF Node
<1>4. inode' = [inode EXCEPT ![i] = r]  BY <1>1, <1>2
<1> QED  BY <1>1, <1>3, <1>4, NameTypes DEF Edited

(* An inode gets both.                                                     *)
LEMMA DataModeEffect ==
  ASSUME TypeOK, NEW i \in Inode, NEW d \in Content, NEW m \in Mode,
         inode' = [inode EXCEPT ![i].data = d, ![i].mode = m], used' = used, ent' = ent
  PROVE  Edited(i) /\ inode'[i].data = d
<1>1. PICK x \in Node : x = inode[i]  BY NameTypes
<1>2. PICK y : y = [x EXCEPT !.data = d]  OBVIOUS
<1>3. y \in Node /\ y.kind = x.kind /\ y.data = d  BY <1>2 DEF Node
<1>4. PICK r : r = [y EXCEPT !.mode = m]  OBVIOUS
<1>5. r \in Node /\ r.kind = x.kind /\ r.data = d  BY <1>3, <1>4 DEF Node
<1>6. PICK a : a = [inode EXCEPT ![i].data = d]  OBVIOUS
<1>7. a = [inode EXCEPT ![i] = y] /\ a \in [Inode -> Node] /\ a[i] = y
  BY <1>1, <1>2, <1>3, <1>6, NameTypes
<1>8. inode' = [a EXCEPT ![i].mode = m]  BY <1>6
<1>9. inode \in [Inode -> Node] /\ inode' = [inode EXCEPT ![i] = r]
  BY <1>4, <1>7, <1>8, NameTypes
<1>10. inode' \in [Inode -> Node] /\ inode'[i] = r /\ \A j \in Inode \ {i} : inode'[j] = inode[j]
  BY <1>5, <1>9
<1> QED  BY <1>1, <1>5, <1>10 DEF Edited

(* An inode stays as it is.                                                *)
LEMMA SameEffect ==
  ASSUME TypeOK, NEW i \in Inode, UNCHANGED <<used, inode, ent>>
  PROVE  Edited(i) /\ inode'[i] = inode[i]
BY NameTypes DEF Edited

(* A first write.                                                          *)
LEMMA WriteStep ==
  ASSUME TypeOK, NEW p \in Place, cowfs_write(p)
  PROVE  /\ Edited(ent[p]) /\ ent[p] \in Inode
         /\ UNCHANGED cacheVars /\ TypeOK'
<1>1. ent[p] \in Inode  BY PositiveParts DEF cowfs_write
<1>2. /\ time' \in 0..MaxTime /\ versions' \subseteq Version
      /\ undo' \in Undo /\ report' \in Reports
  <2>1. PICK has \in BOOLEAN : has = TRUE  OBVIOUS
  <2>2. Saves(Saved("WRITE", p, has), p, {}) \/ Unsaved  BY <2>1 DEF cowfs_write, NotSaved
  <2> QED  BY <1>1, <2>2, OperationTypes DEF Op
<1>3. UNCHANGED <<used, ent, icache, dcache>>  BY DEF cowfs_write, cacheVars
<1>4. Edited(ent[p])
  <2>1. time + 1 \in Content
    <3>1. time < MaxTime  BY DEF cowfs_write, Saves, NotSaved, Unsaved, Ticks
    <3> QED  BY <3>1, NameTypes DEF Content
  <2>2. inode' = [inode EXCEPT ![ent[p]].data = time + 1] \/ UNCHANGED inode  BY DEF cowfs_write
  <2> QED  BY <1>1, <1>3, <2>1, <2>2, DataEffect, SameEffect
<1>5. TypeOK'
  BY <1>1, <1>2, <1>3, <1>4, NameTypes DEF Edited, TypeOK, UpperNode, Dentry
<1> QED  BY <1>1, <1>3, <1>4, <1>5 DEF cacheVars

(* chmod, or a truncation.                                                 *)
LEMMA SetattrStep ==
  ASSUME TypeOK, NEW p \in Place, NEW m \in Mode, NEW size \in BOOLEAN, cowfs_setattr(p, m, size)
  PROVE  /\ Edited(ent[p]) /\ ent[p] \in Inode
         /\ \E has, gone \in BOOLEAN :
              /\ Saves(Saved("SETATTR", p, has), p, Uncopied(p, gone)) \/ Unsaved
              /\ has \/ gone \/ inode'[ent[p]].data = inode[ent[p]].data
         /\ dcache' = dcache /\ TypeOK'
<1>1. ent[p] \in Inode /\ dcache[p] \in Inode  BY PositiveParts DEF cowfs_setattr
<1>2. PICK copied \in BOOLEAN, done \in BOOLEAN :
        /\ \/ Saves(Saved("SETATTR", p, size /\ copied), p, Uncopied(p, size /\ done /\ ~copied))
           \/ Unsaved
        /\ \/ /\ done
              /\ inode' = IF size THEN [inode EXCEPT ![ent[p]].data = 0]
                                  ELSE [inode EXCEPT ![ent[p]].mode = m]
              /\ icache' = [icache EXCEPT ![dcache[p]].mode = inode'[ent[p]].mode]
           \/ ~done /\ UNCHANGED <<inode, icache>>
        /\ UNCHANGED <<used, ent, dcache>>
  BY DEF cowfs_setattr, SetattrData, AfterSetattr, NotSaved, Outcomes
<1>3. PICK has \in BOOLEAN, gone \in BOOLEAN :
        has = (size /\ copied) /\ gone = (size /\ done /\ ~copied)
  OBVIOUS
<1>4. Saves(Saved("SETATTR", p, has), p, Uncopied(p, gone)) \/ Unsaved  BY <1>2, <1>3
<1>5. /\ Edited(ent[p])
      /\ has \/ gone \/ inode'[ent[p]].data = inode[ent[p]].data
  <2>1. CASE done /\ size
    <3>1. Edited(ent[p])  BY <1>1, <1>2, <2>1, FreeNode, DataEffect
    <3> QED  BY <1>3, <2>1, <3>1
  <2>2. CASE done /\ ~size
    <3>1. Edited(ent[p]) /\ inode'[ent[p]].data = inode[ent[p]].data
      BY <1>1, <1>2, <2>2, ModeEffect
    <3> QED  BY <3>1
  <2>3. CASE ~done  BY <1>1, <1>2, <2>3, SameEffect
  <2> QED  BY <2>1, <2>2, <2>3
<1>6. icache' \in [Inode -> UpperNode]
  <2>1. CASE UNCHANGED icache  BY <2>1, NameTypes
  <2>2. CASE icache' = [icache EXCEPT ![dcache[p]].mode = inode'[ent[p]].mode]
    <3>1. PICK u : u = [icache[dcache[p]] EXCEPT !.mode = inode'[ent[p]].mode]  OBVIOUS
    <3>2. u \in UpperNode  BY <1>1, <1>5, <3>1, NameTypes DEF Edited, UpperNode, Node
    <3>3. icache' = [icache EXCEPT ![dcache[p]] = u]  BY <2>2, <3>1
    <3> QED  BY <1>1, <3>2, <3>3, NameTypes
  <2> QED  BY <1>2, <2>1, <2>2
<1>7. /\ time' \in 0..MaxTime /\ versions' \subseteq Version
      /\ undo' \in Undo /\ report' \in Reports
  BY <1>1, <1>4, LostNames, OperationTypes DEF Op
<1>8. TypeOK'
  BY <1>1, <1>2, <1>5, <1>6, <1>7, NameTypes DEF Edited, TypeOK, UpperNode, Dentry
<1> QED  BY <1>1, <1>2, <1>4, <1>5, <1>8

(* A name is made: create and mkdir.                                       *)
LEMMA MakesStep ==
  ASSUME TypeOK, NEW p \in Place, NEW k \in {"file", "dir"}, NEW m \in Mode,
         NEW seen \in BOOLEAN, Makes(p, k, m, seen)
  PROVE  /\ Unsaved /\ dcache[p] = "negative"
         /\ \E i \in Inode :
              /\ Made(p, i, k, 0)
              /\ \/ seen /\ dcache' = [dcache EXCEPT ![p] = i]
                 \/ ~seen /\ dcache' = dcache
         /\ TypeOK'
<1>1. Unsaved /\ dcache[p] = "negative" /\ ent[p] = None  BY DEF Makes, Negative
<1>2. PICK i \in Inode :
        /\ FreshNumber(i) /\ LowerMake(p, i, k, m, 0)
        /\ \/ /\ seen
              /\ icache' = GetInode(i, [kind |-> k, mode |-> m \ Umask])
              /\ dcache' = [dcache EXCEPT ![p] = i]
           \/ ~seen /\ UNCHANGED <<icache, dcache>>
  BY DEF Makes, cacheVars
<1>3. k \in Kind  BY DEF Kind
<1>4. /\ Made(p, i, k, 0) /\ ent' \in [Place -> Inode \cup {None}] /\ used' \subseteq Inode
  BY <1>1, <1>2, <1>3, FreeNode, MakeEffect
<1>5. icache' \in [Inode -> UpperNode]
  <2>1. PICK low : low = [kind |-> k, mode |-> m \ Umask]  OBVIOUS
  <2>2. low.kind \in Kind /\ low.mode \in Mode  BY <1>3, <2>1 DEF Mode
  <2>3. GetInode(i, low) \in [Inode -> UpperNode]  BY <2>2, GetInodeEffect
  <2> QED  BY <1>2, <2>1, <2>3, NameTypes
<1>6. dcache' \in [Place -> Dentry]  BY <1>2, NameTypes DEF Dentry
<1>7. TypeOK'
  BY <1>1, <1>4, <1>5, <1>6, UnsavedEffect, NameTypes DEF Made, TypeOK, UpperNode, Dentry
<1> QED  BY <1>1, <1>2, <1>4, <1>7

(* A symbolic link is made.                                                *)
LEMMA SymlinkStep ==
  ASSUME TypeOK, NEW p \in Place, cowfs_symlink(p)
  PROVE  /\ Unsaved /\ \E i \in Inode : Made(p, i, "link", 0)
         /\ dcache[p] = "negative" /\ UNCHANGED cacheVars /\ TypeOK'
<1>1. /\ Unsaved /\ dcache[p] = "negative" /\ ent[p] = None /\ UNCHANGED <<icache, dcache>>
  BY DEF cowfs_symlink, Negative, cacheVars
<1>2. PICK i \in Inode : FreshNumber(i) /\ LowerMake(p, i, "link", Bits, 0)
  BY DEF cowfs_symlink
<1>3. /\ Made(p, i, "link", 0)
      /\ ent' \in [Place -> Inode \cup {None}] /\ used' \subseteq Inode
  BY <1>1, <1>2, FreeNode, MakeEffect DEF Kind, Mode
<1>4. TypeOK'
  BY <1>1, <1>3, UnsavedEffect, NameTypes DEF Made, TypeOK, UpperNode, Dentry
<1> QED  BY <1>1, <1>3, <1>4 DEF cacheVars

(* A file gets another name.                                               *)
LEMMA LinkStep ==
  ASSUME TypeOK, NEW p \in Place, NEW q \in Place, cowfs_link(p, q)
  PROVE  /\ Unsaved /\ ent' = [ent EXCEPT ![q] = ent[p]] /\ ent[p] \in Inode /\ ent[q] = None
         /\ dcache[q] = "negative" /\ UNCHANGED <<used, inode>> /\ UNCHANGED cacheVars /\ TypeOK'
<1>1. /\ Unsaved /\ dcache[q] = "negative" /\ ent[q] = None
      /\ UNCHANGED <<used, inode, icache, dcache>>
      /\ ent' = [ent EXCEPT ![q] = ent[p]] /\ Positive(p, {"file"})
  BY DEF cowfs_link, Negative, cacheVars
<1>2. ent[p] \in Inode  BY <1>1, PositiveParts
<1>3. ent' \in [Place -> Inode \cup {None}]  BY <1>1, <1>2, NameTypes
<1>4. TypeOK'
  BY <1>1, <1>3, UnsavedEffect, NameTypes DEF TypeOK, UpperNode, Dentry
<1> QED  BY <1>1, <1>2, <1>4 DEF cacheVars

(* A name is removed, or not: rmdir and unlink.                            *)
LEMMA RemoveStep ==
  ASSUME TypeOK, NEW p \in Place, cowfs_rmdir(p) \/ cowfs_unlink(p)
  PROVE  /\ ent[p] \in Inode /\ icache' = icache
         /\ \/ /\ ent' = [ent EXCEPT ![p] = None] /\ inode' = Reap(ent', inode)
               /\ dcache' = Drop(dcache, {p})
            \/ UNCHANGED <<inode, ent, dcache>>
         /\ \/ Unsaved
            \/ inode[ent[p]].kind = "file" /\ Saves(Saved("UNLINK", p, TRUE), p, {})
         /\ TypeOK'
<1>1. /\ ent[p] \in Inode /\ icache' = icache
      /\ \/ LowerRemove(p) /\ dcache' = Drop(dcache, {p})
         \/ UNCHANGED <<used, inode, ent, dcache>>
  BY PositiveParts DEF cowfs_rmdir, cowfs_unlink, AfterUnlink, fsVars
<1>2. \/ Unsaved
      \/ inode[ent[p]].kind = "file" /\ Saves(Saved("UNLINK", p, TRUE), p, {})
  BY DEF cowfs_rmdir, cowfs_unlink, NotSaved
<1>3. /\ time' \in 0..MaxTime /\ versions' \subseteq Version
      /\ undo' \in Undo /\ report' \in Reports
  <2>1. PICK has \in BOOLEAN : has = TRUE  OBVIOUS
  <2>2. Saves(Saved("UNLINK", p, has), p, {}) \/ Unsaved  BY <1>2, <2>1
  <2> QED  BY <1>1, <2>2, OperationTypes DEF Op
<1>4. /\ \/ /\ ent' = [ent EXCEPT ![p] = None] /\ inode' = Reap(ent', inode)
            /\ dcache' = Drop(dcache, {p})
         \/ UNCHANGED <<inode, ent, dcache>>
      /\ ent' \in [Place -> Inode \cup {None}] /\ inode' \in [Inode -> Node] /\ used' = used
      /\ dcache' \in [Place -> Dentry]
  <2>1. CASE UNCHANGED <<used, inode, ent, dcache>>  BY <2>1, NameTypes
  <2>2. CASE LowerRemove(p) /\ dcache' = Drop(dcache, {p})
    <3>1. Drop(dcache, {p}) \in [Place -> Dentry]  BY DropEffect
    <3> QED  BY <2>2, <3>1, RemoveEffect
  <2> QED  BY <1>1, <2>1, <2>2
<1>5. TypeOK'
  BY <1>1, <1>3, <1>4, NameTypes DEF TypeOK, UpperNode, Dentry
<1> QED  BY <1>1, <1>2, <1>4, <1>5

(* cowfs_rename, with or without success.                                  *)
LEMMA RenameStep ==
  ASSUME TypeOK, NEW p \in Place, NEW q \in Place, cowfs_rename(p, q)
  PROVE  /\ ent[p] \in Inode /\ dcache[p] \in Inode /\ p # q /\ icache' = icache
         /\ \/ /\ Renamed(p, q)
               /\ dcache' = [dcache EXCEPT ![q] = dcache[p], ![p] = "uncached"]
               /\ Saves(Saved("RENAME", p, FALSE), q, Replaced(p, q)) \/ Unsaved
            \/ /\ UNCHANGED <<inode, ent, dcache>>
               /\ Saves(Saved("RENAME", p, FALSE), p, {}) \/ Unsaved
         /\ TypeOK'
<1>1. /\ ent[p] \in Inode /\ dcache[p] \in Inode /\ p # q /\ icache' = icache
      /\ \/ /\ LowerRename(p, q)
            /\ dcache' = [dcache EXCEPT ![q] = dcache[p], ![p] = "uncached"]
            /\ Saves(Saved("RENAME", p, FALSE), q, Replaced(p, q)) \/ Unsaved
         \/ /\ UNCHANGED <<used, inode, ent, dcache>>
            /\ Saves(Saved("RENAME", p, FALSE), p, {}) \/ Unsaved
  BY PositiveParts DEF cowfs_rename, fsVars, NotSaved
<1>2. /\ time' \in 0..MaxTime /\ versions' \subseteq Version
      /\ undo' \in Undo /\ report' \in Reports
  <2>1. PICK has \in BOOLEAN : has = FALSE  OBVIOUS
  <2>2. PICK at \in Place, lost \in SUBSET Place :
          Saves(Saved("RENAME", p, has), at, lost) \/ Unsaved
    BY <1>1, <2>1, LostNames
  <2> QED  BY <1>1, <2>2, OperationTypes DEF Op
<1>3. /\ \/ /\ Renamed(p, q)
            /\ dcache' = [dcache EXCEPT ![q] = dcache[p], ![p] = "uncached"]
            /\ Saves(Saved("RENAME", p, FALSE), q, Replaced(p, q)) \/ Unsaved
         \/ /\ UNCHANGED <<inode, ent, dcache>>
            /\ Saves(Saved("RENAME", p, FALSE), p, {}) \/ Unsaved
      /\ ent' \in [Place -> Inode \cup {None}] /\ inode' \in [Inode -> Node] /\ used' = used
  <2>1. CASE UNCHANGED <<used, inode, ent, dcache>>  BY <1>1, <2>1, NameTypes
  <2>2. CASE LowerRename(p, q)
    <3>1. ent[p] # None  BY <1>1, NameTypes
    <3>2. /\ Renamed(p, q) /\ ent' \in [Place -> Inode \cup {None}] /\ inode' \in [Inode -> Node]
          /\ used' = used
      BY <2>2, <3>1, RenameEffect DEF Renamed
    <3> QED  BY <1>1, <3>2
  <2> QED  BY <1>1, <2>1, <2>2
<1>4. dcache' \in [Place -> Dentry]  BY <1>1, <1>3, NameTypes DEF Dentry
<1>5. TypeOK'
  BY <1>1, <1>2, <1>3, <1>4, NameTypes DEF TypeOK, UpperNode, Dentry
<1> QED  BY <1>1, <1>3, <1>5


(* The ioctl returns.                                                      *)
LEMMA IoctlReturns ==
  ASSUME TypeOK, NEW v, NEW at, NEW lost \in SUBSET Place, Succeeds(v, at, lost) \/ Fails
  PROVE  undo' \in Undo /\ report' \in Reports
<1>1. report' \in Reports  BY DEF Succeeds, Fails, Reports
<1>2. undo \in Undo  BY NameTypes
<1>3. [undo EXCEPT !.lost = @ \cup lost] \in Undo  BY <1>2 DEF Undo
<1>4. undo' = [undo EXCEPT !.lost = @ \cup lost] \/ undo' = NoUndo  BY DEF Succeeds, Fails
<1> QED  BY <1>1, <1>3, <1>4, NoUndoType

(* A deleted file is made anew, with its content or without, or it is not. *)
LEMMA RecreateEffect ==
  ASSUME TypeOK, NEW v \in versions, NEW at \in Place, Recreate(v, at)
  PROVE  /\ \/ \E i \in Inode, d \in Content, lost \in SUBSET Place :
                 /\ Made(at, i, "file", d) /\ Succeeds(v, at, lost)
                 /\ d = v.data \/ at \in lost
            \/ Fails /\ UNCHANGED <<inode, ent>>
         /\ undo' \in Undo /\ report' \in Reports
         /\ ent' \in [Place -> Inode \cup {None}] /\ used' \subseteq Inode
         /\ inode' \in [Inode -> Node]
<1>1. v.data \in Content /\ v.mode \in Mode  BY NameTypes DEF Version
<1>2. CASE Fails /\ UNCHANGED <<used, inode, ent>>  BY <1>2, IoctlReturns, NameTypes
<1>3. ASSUME NEW i \in Inode, NEW restored \in BOOLEAN, ent[at] = None, FreshNumber(i),
             LowerMake(at, i, "file", v.mode, IF restored THEN v.data ELSE 0),
             Succeeds(v, at, {q \in {at} : ~restored})
      PROVE  /\ \E j \in Inode, d \in Content, lost \in SUBSET Place :
                  /\ Made(at, j, "file", d) /\ Succeeds(v, at, lost)
                  /\ d = v.data \/ at \in lost
             /\ undo' \in Undo /\ report' \in Reports
             /\ ent' \in [Place -> Inode \cup {None}] /\ used' \subseteq Inode
             /\ inode' \in [Inode -> Node]
  <2>1. PICK d \in Content : d = IF restored THEN v.data ELSE 0  BY <1>1, FreeNode
  <2>2. PICK lost \in SUBSET Place : lost = {q \in {at} : ~restored}  OBVIOUS
  <2>3. /\ Made(at, i, "file", d) /\ ent' \in [Place -> Inode \cup {None}]
        /\ used' \subseteq Inode
    BY <1>1, <1>3, <2>1, MakeEffect DEF Kind
  <2>4. Succeeds(v, at, lost) /\ (d = v.data \/ at \in lost)  BY <1>3, <2>1, <2>2
  <2>5. undo' \in Undo /\ report' \in Reports  BY <2>4, IoctlReturns
  <2> QED  BY <2>3, <2>4, <2>5 DEF Made
<1> QED  BY <1>2, <1>3 DEF Recreate, Outcomes, fsVars

(* The rollback of a deleted path.                                         *)
LEMMA DeletedStep ==
  ASSUME TypeOK, NEW p \in Place, NEW ts \in 0..MaxTime, rollback_deleted(p, ts)
  PROVE  /\ dcache' = Drop(dcache, {p}) /\ UNCHANGED <<time, icache, versions>>
         /\ \E v \in versions : v.op = "UNLINK" /\ Recreate(v, p)
         /\ TypeOK'
<1>1. dcache' = Drop(dcache, {p}) /\ UNCHANGED <<time, icache, versions>>
  BY DEF rollback_deleted, DropStale
<1>2. PICK v \in versions : v.op = "UNLINK" /\ Recreate(v, p)  BY DEF rollback_deleted, Deleted
<1>3. dcache' \in [Place -> Dentry]  BY <1>1, DropEffect
<1>4. TypeOK'
  BY <1>1, <1>2, <1>3, RecreateEffect, NameTypes DEF TypeOK, UpperNode, Dentry
<1> QED  BY <1>1, <1>2, <1>4

(* The version that a rollback at a path finds.                            *)
LEMMA FoundParts ==
  ASSUME TypeOK, NEW p \in Place, NEW ts, NEW ops, Rollback(p, ts, ops)
  PROVE  /\ ent[p] \in Inode /\ UNCHANGED <<time, versions>>
         /\ \A v \in Found(p, ts) : v \in versions /\ v.ino = ent[p] /\ v.op \in ops
BY PositiveParts DEF Rollback, Found

(* The rollback of an unlink at another name of the file.                  *)
LEMMA RollbackUnlinkStep ==
  ASSUME TypeOK, NEW p \in Place, NEW ts \in 0..MaxTime, RollbackUnlink(p, ts)
  PROVE  /\ UNCHANGED cacheVars /\ UNCHANGED <<time, versions>>
         /\ \E v \in versions, at \in Place :
              /\ v.op = "UNLINK"
              /\ \/ Recreate(v, at)
                 \/ Succeeds(v, at, {at}) /\ UNCHANGED <<inode, ent>>
         /\ TypeOK'
<1>1. /\ ent[p] \in Inode /\ UNCHANGED <<time, versions, icache, dcache>>
      /\ \A v \in Found(p, ts) : v \in versions /\ v.ino = ent[p] /\ v.op \in {"UNLINK"}
  BY FoundParts DEF RollbackUnlink, cacheVars
<1>2. PICK v \in Found(p, ts) :
        \/ Recreate(v, <<p[1], v.name>>)
        \/ /\ Succeeds(v, <<p[1], v.name>>, {<<p[1], v.name>>})
           /\ UNCHANGED <<used, inode, ent>>
  BY DEF RollbackUnlink, fsVars
<1>3. v \in versions /\ v.op = "UNLINK" /\ v.name \in Name  BY <1>1, NameTypes DEF Version
<1>4. PICK at \in Place : at = <<p[1], v.name>>  BY <1>3 DEF Place
<1>5. /\ undo' \in Undo /\ report' \in Reports
      /\ ent' \in [Place -> Inode \cup {None}] /\ used' \subseteq Inode
      /\ inode' \in [Inode -> Node]
  <2>1. CASE Recreate(v, at)  BY <1>3, <2>1, RecreateEffect
  <2>2. CASE Succeeds(v, at, {at}) /\ UNCHANGED <<used, inode, ent>>
    <3>1. PICK lost \in SUBSET Place : lost = {at}  OBVIOUS
    <3> QED  BY <2>2, <3>1, IoctlReturns, NameTypes
  <2> QED  BY <1>2, <1>4, <2>1, <2>2
<1>6. TypeOK'
  BY <1>1, <1>5, NameTypes DEF TypeOK, UpperNode, Dentry
<1>7. \/ Recreate(v, at)
      \/ Succeeds(v, at, {at}) /\ UNCHANGED <<inode, ent>>
  BY <1>2, <1>4
<1> QED  BY <1>1, <1>3, <1>6, <1>7 DEF cacheVars

(* The permissions after a rollback.                                       *)
LEMMA RestoredType ==
  ASSUME NEW v \in Version, NEW m \in Mode
  PROVE  RestoredModes(v, m) \subseteq Mode
BY DEF RestoredModes, Version

(* The rollback of a write or of a truncation.                             *)
LEMMA RollbackDataStep ==
  ASSUME TypeOK, NEW p \in Place, NEW ts \in 0..MaxTime, RollbackData(p, ts)
  PROVE  /\ ent[p] \in Inode /\ Edited(ent[p])
         /\ UNCHANGED cacheVars /\ UNCHANGED <<time, versions>>
         /\ \E v \in versions :
              /\ v.ino = ent[p] /\ v.has_data /\ v.op \in {"WRITE", "SETATTR"}
              /\ \/ inode'[ent[p]].data = v.data /\ Succeeds(v, p, {})
                 \/ Fails
         /\ TypeOK'
<1>1. /\ ent[p] \in Inode /\ UNCHANGED <<time, versions, used, ent, icache, dcache>>
      /\ \A v \in Found(p, ts) :
           v \in versions /\ v.ino = ent[p] /\ v.op \in {"WRITE", "SETATTR"}
  BY FoundParts DEF RollbackData, cacheVars
<1>2. PICK v \in Found(p, ts) :
        /\ v.has_data
        /\ \/ /\ \E m \in RestoredModes(v, inode[ent[p]].mode) :
                   inode' = [inode EXCEPT ![ent[p]].data = v.data, ![ent[p]].mode = m]
              /\ Succeeds(v, p, {})
           \/ /\ \E d \in {0, inode[ent[p]].data} :
                   inode' = [inode EXCEPT ![ent[p]].data = d]
              /\ Fails
  BY DEF RollbackData
<1>3. v \in versions /\ v.ino = ent[p] /\ v.has_data /\ v.op \in {"WRITE", "SETATTR"}
  BY <1>1, <1>2
<1>4. v \in Version /\ v.data \in Content /\ inode[ent[p]] \in Node
  BY <1>1, <1>3, NameTypes DEF Version
<1>5. /\ Edited(ent[p])
      /\ \/ inode'[ent[p]].data = v.data /\ Succeeds(v, p, {})
         \/ Fails
  <2>1. ASSUME NEW m \in RestoredModes(v, inode[ent[p]].mode), Succeeds(v, p, {}),
               inode' = [inode EXCEPT ![ent[p]].data = v.data, ![ent[p]].mode = m]
        PROVE  Edited(ent[p]) /\ inode'[ent[p]].data = v.data
    <3>1. m \in Mode  BY <1>4, RestoredType DEF Node
    <3> QED  BY <1>1, <1>4, <2>1, <3>1, DataModeEffect
  <2>2. ASSUME NEW d \in {0, inode[ent[p]].data}, inode' = [inode EXCEPT ![ent[p]].data = d]
        PROVE  Edited(ent[p])
    <3>1. d \in Content  BY <1>4, FreeNode DEF Node
    <3> QED  BY <1>1, <2>2, <3>1, DataEffect
  <2> QED  BY <1>2, <2>1, <2>2
<1>6. undo' \in Undo /\ report' \in Reports
  <2>1. PICK lost \in SUBSET Place : lost = {}  OBVIOUS
  <2> QED  BY <1>5, <2>1, IoctlReturns
<1>7. TypeOK'
  BY <1>1, <1>5, <1>6, NameTypes DEF Edited, TypeOK, UpperNode, Dentry
<1> QED  BY <1>1, <1>3, <1>5, <1>7 DEF cacheVars

(* The rollback of a chmod.                                                *)
LEMMA RollbackSetattrStep ==
  ASSUME TypeOK, NEW p \in Place, NEW ts \in 0..MaxTime, RollbackSetattr(p, ts)
  PROVE  /\ ent[p] \in Inode /\ Edited(ent[p])
         /\ UNCHANGED cacheVars /\ UNCHANGED <<time, versions>>
         /\ \E v \in versions :
              /\ v.ino = ent[p] /\ ~v.has_data /\ v.op = "SETATTR"
              /\ inode'[ent[p]].data = inode[ent[p]].data
              /\ Succeeds(v, p, {})
         /\ TypeOK'
<1>1. /\ ent[p] \in Inode /\ UNCHANGED <<time, versions, used, ent, icache, dcache>>
      /\ \A v \in Found(p, ts) : v \in versions /\ v.ino = ent[p] /\ v.op \in {"SETATTR"}
  BY FoundParts DEF RollbackSetattr, cacheVars
<1>2. PICK v \in Found(p, ts) :
        /\ ~v.has_data /\ Succeeds(v, p, {})
        /\ \E m \in RestoredModes(v, inode[ent[p]].mode) :
             inode' = [inode EXCEPT ![ent[p]].mode = m]
  BY DEF RollbackSetattr
<1>3. v \in versions /\ v.ino = ent[p] /\ v.op = "SETATTR"  BY <1>1
<1>4. v \in Version /\ inode[ent[p]] \in Node  BY <1>1, <1>3, NameTypes
<1>5. PICK m \in Mode : inode' = [inode EXCEPT ![ent[p]].mode = m]
  BY <1>2, <1>4, RestoredType DEF Node
<1>6. Edited(ent[p]) /\ inode'[ent[p]].data = inode[ent[p]].data
  BY <1>1, <1>5, ModeEffect
<1>7. undo' \in Undo /\ report' \in Reports
  <2>1. PICK lost \in SUBSET Place : lost = {}  OBVIOUS
  <2> QED  BY <1>2, <2>1, IoctlReturns
<1>8. TypeOK'
  BY <1>1, <1>6, <1>7, NameTypes DEF Edited, TypeOK, UpperNode, Dentry
<1> QED  BY <1>1, <1>2, <1>3, <1>6, <1>8 DEF cacheVars

(* The rollback of a rename.                                               *)
LEMMA RollbackRenameStep ==
  ASSUME TypeOK, NEW p \in Place, NEW ts \in 0..MaxTime, RollbackRename(p, ts)
  PROVE  /\ ent[p] \in Inode /\ UNCHANGED <<time, icache, versions>>
         /\ \/ \E v \in versions, q \in Place :
                 /\ v.op = "RENAME" /\ q = <<p[1], v.name>>
                 /\ Renamed(p, q) /\ dcache' = Drop(dcache, {p, q})
                 /\ Succeeds(v, p, {})
            \/ UNCHANGED <<inode, ent, dcache>> /\ Fails
         /\ TypeOK'
<1>1. /\ ent[p] \in Inode /\ UNCHANGED <<time, versions, icache>>
      /\ \A v \in Found(p, ts) : v \in versions /\ v.ino = ent[p] /\ v.op \in {"RENAME"}
  BY FoundParts DEF RollbackRename
<1>2. PICK v \in Found(p, ts) :
        \/ /\ LowerRename(p, <<p[1], v.name>>)
           /\ dcache' = Drop(dcache, {p, <<p[1], v.name>>})
           /\ Succeeds(v, p, {})
        \/ Fails /\ UNCHANGED <<used, inode, ent, dcache>>
  BY DEF RollbackRename, AfterRollback, fsVars
<1>3. v \in versions /\ v.op = "RENAME" /\ v.name \in Name  BY <1>1, NameTypes DEF Version
<1>4. PICK q \in Place : q = <<p[1], v.name>>  BY <1>3 DEF Place
<1>5. undo' \in Undo /\ report' \in Reports
  <2>1. PICK lost \in SUBSET Place : lost = {}  OBVIOUS
  <2> QED  BY <1>2, <2>1, IoctlReturns
<1>6. /\ \/ Renamed(p, q) /\ dcache' = Drop(dcache, {p, q}) /\ Succeeds(v, p, {})
         \/ UNCHANGED <<inode, ent, dcache>> /\ Fails
      /\ ent' \in [Place -> Inode \cup {None}] /\ inode' \in [Inode -> Node] /\ used' = used
      /\ dcache' \in [Place -> Dentry]
  <2>1. CASE LowerRename(p, q) /\ dcache' = Drop(dcache, {p, q}) /\ Succeeds(v, p, {})
    <3>1. ent[p] # None  BY <1>1, NameTypes
    <3>2. /\ Renamed(p, q) /\ ent' \in [Place -> Inode \cup {None}] /\ inode' \in [Inode -> Node]
          /\ used' = used
      BY <2>1, <3>1, RenameEffect DEF Renamed
    <3> QED  BY <2>1, <3>2, DropEffect
  <2>2. CASE UNCHANGED <<used, inode, ent, dcache>> /\ Fails  BY <2>2, NameTypes
  <2> QED  BY <1>2, <1>4, <2>1, <2>2
<1>7. TypeOK'
  BY <1>1, <1>5, <1>6, NameTypes DEF TypeOK, UpperNode, Dentry
<1> QED  BY <1>1, <1>3, <1>4, <1>6, <1>7

(* A lookup.                                                               *)
LEMMA LookupStep ==
  ASSUME TypeOK, NEW p \in Place, cowfs_lookup(p)
  PROVE  /\ UNCHANGED <<time, used, inode, ent, versions, undo>>
         /\ dcache' = [dcache EXCEPT ![p] = IF ent[p] = None THEN "negative" ELSE ent[p]]
         /\ icache' = IF ent[p] = None THEN icache ELSE GetInode(ent[p], inode[ent[p]])
         /\ TypeOK'
<1>1. /\ UNCHANGED <<time, used, inode, ent, versions, undo>> /\ report' = "none"
      /\ dcache' = [dcache EXCEPT ![p] = IF ent[p] = None THEN "negative" ELSE ent[p]]
      /\ icache' = IF ent[p] = None THEN icache ELSE GetInode(ent[p], inode[ent[p]])
  BY DEF cowfs_lookup, LookedUp, fsVars
<1>2. dcache' \in [Place -> Dentry]  BY <1>1, NameTypes DEF Dentry
<1>3. icache' \in [Inode -> UpperNode]
  <2>1. CASE ent[p] = None  BY <1>1, <2>1, NameTypes
  <2>2. CASE ent[p] \in Inode
    <3>1. inode[ent[p]].kind \in Kind /\ inode[ent[p]].mode \in Mode
      BY <2>2, NameTypes DEF Node
    <3> QED  BY <1>1, <2>2, <3>1, NameTypes, GetInodeEffect
  <2> QED  BY <2>1, <2>2, NameTypes
<1>4. undo' \in Undo /\ report' \in Reports  BY <1>1, NameTypes DEF Reports
<1>5. TypeOK'
  BY <1>1, <1>2, <1>3, <1>4, NameTypes DEF TypeOK, UpperNode, Dentry
<1> QED  BY <1>1, <1>5

(* The kernel reclaims something, or nothing happens.                      *)
LEMMA ReclaimStep ==
  ASSUME TypeOK, \/ \E p \in Place : ReclaimDentry(p)
                 \/ \E i \in Inode : ReclaimInode(i)
                 \/ UNCHANGED vars
  PROVE  /\ UNCHANGED <<time, used, inode, ent, versions, undo>>
         /\ Thinned
         /\ \A i \in Inode : \/ icache'[i] = icache[i]
                             \/ icache'[i].kind = "free" /\ \A p \in Place : dcache'[p] # i
         /\ TypeOK'
<1>1. ASSUME NEW p \in Place, ReclaimDentry(p)
      PROVE  /\ dcache' \in [Place -> Dentry] /\ icache' = icache
             /\ \A q \in Place : dcache'[q] \in {dcache[q], "uncached"}
  BY <1>1, NameTypes DEF ReclaimDentry, Dentry
<1>2. ASSUME NEW i \in Inode, ReclaimInode(i)
      PROVE  /\ dcache' = dcache /\ icache' \in [Inode -> UpperNode]
             /\ \A j \in Inode : \/ icache'[j] = icache[j]
                                 \/ icache'[j].kind = "free" /\ \A p \in Place : dcache'[p] # j
  <2>1. PICK u \in UpperNode : u = [kind |-> "free", mode |-> {}] /\ u.kind = "free"
    BY FreeNode
  <2>2. /\ dcache' = dcache /\ icache' = [icache EXCEPT ![i] = u]
        /\ \A p \in Place : dcache[p] # i
    BY <1>2, <2>1 DEF ReclaimInode
  <2> QED  BY <2>1, <2>2, NameTypes
<1>3. /\ UNCHANGED <<time, used, inode, ent, versions, undo>> /\ report' \in {report, "none"}
  BY DEF ReclaimDentry, ReclaimInode, vars, fsVars
<1>4. /\ Thinned /\ icache' \in [Inode -> UpperNode]
      /\ \A i \in Inode : \/ icache'[i] = icache[i]
                          \/ icache'[i].kind = "free" /\ \A p \in Place : dcache'[p] # i
  <2>1. CASE UNCHANGED vars  BY <2>1, NameTypes DEF vars, Thinned
  <2> QED  BY <1>1, <1>2, <2>1, NameTypes DEF Thinned
<1>5. undo' \in Undo /\ report' \in Reports  BY <1>3, NameTypes DEF Reports
<1>6. TypeOK'
  BY <1>3, <1>4, <1>5, NameTypes DEF Thinned, TypeOK, UpperNode, Dentry
<1> QED  BY <1>3, <1>4, <1>6

(* The steps there are.                                                    *)
LEMMA StepKinds ==
  ASSUME [Next]_vars
  PROVE  \/ \E p \in Place : cowfs_lookup(p)
         \/ \/ \E p \in Place : ReclaimDentry(p)
            \/ \E i \in Inode : ReclaimInode(i)
            \/ UNCHANGED vars
         \/ \E p \in Place, k \in {"file", "dir"}, m \in Mode, seen \in BOOLEAN :
              Makes(p, k, m, seen)
         \/ \E p \in Place : cowfs_symlink(p)
         \/ \E p, q \in Place : cowfs_link(p, q)
         \/ \E p \in Place : cowfs_rmdir(p) \/ cowfs_unlink(p)
         \/ \E p, q \in Place : cowfs_rename(p, q)
         \/ \E p \in Place : cowfs_write(p)
         \/ \E p \in Place, m \in Mode, size \in BOOLEAN : cowfs_setattr(p, m, size)
         \/ \E p \in Place, ts \in 0..MaxTime : rollback_deleted(p, ts)
         \/ \E p \in Place, ts \in 0..MaxTime : RollbackUnlink(p, ts)
         \/ \E p \in Place, ts \in 0..MaxTime : RollbackData(p, ts)
         \/ \E p \in Place, ts \in 0..MaxTime : RollbackSetattr(p, ts)
         \/ \E p \in Place, ts \in 0..MaxTime : RollbackRename(p, ts)
<1>1. ASSUME NEW p \in Place, Operation(p)
      PROVE  \/ \E k \in {"file", "dir"}, m \in Mode, seen \in BOOLEAN : Makes(p, k, m, seen)
             \/ cowfs_symlink(p)
             \/ \E q \in Place : cowfs_link(p, q)
             \/ cowfs_rmdir(p) \/ cowfs_unlink(p)
             \/ \E q \in Place : cowfs_rename(p, q)
             \/ cowfs_write(p)
             \/ \E m \in Mode, size \in BOOLEAN : cowfs_setattr(p, m, size)
  <2>1. {} \in Mode /\ TRUE \in BOOLEAN /\ FALSE \in BOOLEAN  BY DEF Mode
  <2>2. ASSUME NEW m \in Mode, cowfs_create(p, m) \/ cowfs_mkdir(p, m)
        PROVE  \E k \in {"file", "dir"}, r \in Mode, seen \in BOOLEAN : Makes(p, k, r, seen)
    BY <2>2 DEF cowfs_create, cowfs_mkdir, Outcomes
  <2> QED  BY <1>1, <2>1, <2>2 DEF Operation
<1> QED  BY <1>1 DEF Next, Ioctl

(* Inductive whatever users do.                                            *)
TruthInv == TypeOK /\ PositiveTruthful

(* A step that thins the dentries and leaves the entries of the others.    *)
LEMMA ThinnedTruth ==
  ASSUME TruthInv, TypeOK', \A q \in Place : dcache'[q] \in {dcache[q], "uncached"},
         \A q \in Place : dcache'[q] \in Inode => ent'[q] = ent[q]
  PROVE  TruthInv'
<1>1. ASSUME NEW q \in Place, dcache'[q] \in Inode PROVE ent'[q] = dcache'[q]
  <2>1. dcache'[q] = dcache[q]  BY <1>1, NameTypes DEF TruthInv
  <2>2. ent[q] = dcache[q]  BY <1>1, <2>1 DEF TruthInv, PositiveTruthful
  <2> QED  BY <1>1, <2>1, <2>2
<1> QED  BY <1>1 DEF TruthInv, PositiveTruthful

(* Every step preserves TruthInv.                                          *)
LEMMA TruthNext == TruthInv /\ [Next]_vars => TruthInv'
<1> SUFFICES ASSUME TruthInv, [Next]_vars PROVE TruthInv'  OBVIOUS
<1>0. /\ TypeOK /\ dcache \in [Place -> Dentry] /\ ent \in [Place -> Inode \cup {None}]
      /\ None \notin Inode /\ "negative" \notin Inode /\ "uncached" \notin Inode
      /\ \A p \in Place : dcache[p] \in Inode => ent[p] = dcache[p]
  BY NameTypes DEF TruthInv, PositiveTruthful
<1>1. ASSUME NEW p \in Place, cowfs_lookup(p) PROVE TruthInv'
  <2>1. /\ ent' = ent /\ TypeOK'
        /\ dcache' = [dcache EXCEPT ![p] = IF ent[p] = None THEN "negative" ELSE ent[p]]
    BY <1>0, <1>1, LookupStep
  <2> QED  BY <1>0, <2>1 DEF TruthInv, PositiveTruthful
<1>2. ASSUME \/ \E p \in Place : ReclaimDentry(p)
             \/ \E i \in Inode : ReclaimInode(i)
             \/ UNCHANGED vars
      PROVE  TruthInv'
  BY <1>0, <1>2, ReclaimStep, ThinnedTruth DEF Thinned
<1>3. ASSUME NEW p \in Place, NEW k \in {"file", "dir"}, NEW m \in Mode, NEW seen \in BOOLEAN,
             Makes(p, k, m, seen)
      PROVE  TruthInv'
  <2>1. PICK i \in Inode :
          /\ Made(p, i, k, 0) /\ TypeOK' /\ dcache[p] = "negative"
          /\ \/ seen /\ dcache' = [dcache EXCEPT ![p] = i]
             \/ ~seen /\ dcache' = dcache
    BY <1>0, <1>3, MakesStep
  <2>2. ent' = [ent EXCEPT ![p] = i]  BY <2>1 DEF Made
  <2> QED  BY <1>0, <2>1, <2>2 DEF TruthInv, PositiveTruthful
<1>4. ASSUME NEW p \in Place, cowfs_symlink(p) PROVE TruthInv'
  <2>1. PICK i \in Inode : ent' = [ent EXCEPT ![p] = i]  BY <1>0, <1>4, SymlinkStep DEF Made
  <2>2. dcache' = dcache /\ dcache[p] \notin Inode /\ TypeOK'
    BY <1>0, <1>4, SymlinkStep DEF cacheVars
  <2> QED  BY <1>0, <2>1, <2>2, ThinnedTruth
<1>5. ASSUME NEW p \in Place, NEW q \in Place, cowfs_link(p, q) PROVE TruthInv'
  <2>1. /\ ent' = [ent EXCEPT ![q] = ent[p]] /\ dcache' = dcache /\ dcache[q] \notin Inode
        /\ TypeOK'
    BY <1>0, <1>5, LinkStep DEF cacheVars
  <2> QED  BY <1>0, <2>1, ThinnedTruth
<1>6. ASSUME NEW p \in Place, cowfs_rmdir(p) \/ cowfs_unlink(p) PROVE TruthInv'
  <2>1. /\ TypeOK'
        /\ \/ ent' = [ent EXCEPT ![p] = None] /\ dcache' = Drop(dcache, {p})
           \/ UNCHANGED <<ent, dcache>>
    BY <1>0, <1>6, RemoveStep
  <2>2. CASE UNCHANGED <<ent, dcache>>  BY <1>0, <2>1, <2>2, ThinnedTruth
  <2>3. CASE ent' = [ent EXCEPT ![p] = None] /\ dcache' = Drop(dcache, {p})
    <3>1. /\ dcache'[p] = "uncached"
          /\ \A q \in Place : dcache'[q] \in {dcache[q], "uncached"}
      BY <1>0, <2>3, DropEffect
    <3> QED  BY <1>0, <2>1, <2>3, <3>1, ThinnedTruth
  <2> QED  BY <2>1, <2>2, <2>3
<1>7. ASSUME NEW p \in Place, NEW q \in Place, cowfs_rename(p, q) PROVE TruthInv'
  <2>1. /\ TypeOK' /\ p # q /\ dcache[p] \in Inode
        /\ \/ /\ Renamed(p, q)
              /\ dcache' = [dcache EXCEPT ![q] = dcache[p], ![p] = "uncached"]
           \/ UNCHANGED <<ent, dcache>>
    BY <1>0, <1>7, RenameStep
  <2>2. CASE UNCHANGED <<ent, dcache>>  BY <1>0, <2>1, <2>2, ThinnedTruth
  <2>3. CASE /\ Renamed(p, q)
             /\ dcache' = [dcache EXCEPT ![q] = dcache[p], ![p] = "uncached"]
    <3>1. dcache'[q] = dcache[p] /\ ent[p] = dcache[p] /\ dcache'[p] = "uncached"
      BY <1>0, <2>1, <2>3
    <3>2. ent'[q] = ent[p] /\ \A r \in Place \ {p, q} : ent'[r] = ent[r]
      BY <1>0, <2>1, <2>3 DEF Renamed
    <3>3. \A r \in Place \ {p, q} : dcache'[r] = dcache[r]  BY <1>0, <2>3
    <3> QED  BY <1>0, <2>1, <3>1, <3>2, <3>3 DEF TruthInv, PositiveTruthful
  <2> QED  BY <2>1, <2>2, <2>3
<1>8. ASSUME NEW p \in Place, cowfs_write(p) PROVE TruthInv'
  <2>1. ent' = ent /\ dcache' = dcache /\ TypeOK'
    BY <1>0, <1>8, WriteStep DEF Edited, cacheVars
  <2> QED  BY <2>1, ThinnedTruth
<1>9. ASSUME NEW p \in Place, NEW m \in Mode, NEW size \in BOOLEAN, cowfs_setattr(p, m, size)
      PROVE  TruthInv'
  <2>1. ent' = ent /\ dcache' = dcache /\ TypeOK'  BY <1>0, <1>9, SetattrStep DEF Edited
  <2> QED  BY <2>1, ThinnedTruth
<1>10. ASSUME NEW p \in Place, NEW ts \in 0..MaxTime, rollback_deleted(p, ts) PROVE TruthInv'
  <2>1. /\ dcache' = Drop(dcache, {p}) /\ TypeOK'
        /\ \A q \in Place \ {p} : ent'[q] = ent[q]
    <3>1. PICK v \in versions : Recreate(v, p)  BY <1>0, <1>10, DeletedStep
    <3>2. \A q \in Place \ {p} : ent'[q] = ent[q]  BY <1>0, <3>1, RecreateEffect DEF Made
    <3> QED  BY <1>0, <1>10, <3>2, DeletedStep
  <2>2. /\ dcache'[p] = "uncached" /\ \A q \in Place : dcache'[q] \in {dcache[q], "uncached"}
    BY <1>0, <2>1, DropEffect
  <2> QED  BY <1>0, <2>1, <2>2, ThinnedTruth
<1>11. ASSUME NEW p \in Place, NEW ts \in 0..MaxTime, RollbackUnlink(p, ts) PROVE TruthInv'
  <2>1. dcache' = dcache /\ TypeOK'  BY <1>0, <1>11, RollbackUnlinkStep DEF cacheVars
  <2>2. \A q \in Place : ent[q] # None => ent'[q] = ent[q]
    <3>1. PICK v \in versions, at \in Place : Recreate(v, at) \/ ent' = ent
      BY <1>0, <1>11, RollbackUnlinkStep
    <3> QED  BY <1>0, <3>1, RecreateEffect DEF Made
  <2> QED  BY <1>0, <2>1, <2>2, ThinnedTruth
<1>12. ASSUME NEW p \in Place, NEW ts \in 0..MaxTime, RollbackData(p, ts) PROVE TruthInv'
  <2>1. ent' = ent /\ dcache' = dcache /\ TypeOK'
    BY <1>0, <1>12, RollbackDataStep DEF Edited, cacheVars
  <2> QED  BY <2>1, ThinnedTruth
<1>13. ASSUME NEW p \in Place, NEW ts \in 0..MaxTime, RollbackSetattr(p, ts) PROVE TruthInv'
  <2>1. ent' = ent /\ dcache' = dcache /\ TypeOK'
    BY <1>0, <1>13, RollbackSetattrStep DEF Edited, cacheVars
  <2> QED  BY <2>1, ThinnedTruth
<1>14. ASSUME NEW p \in Place, NEW ts \in 0..MaxTime, RollbackRename(p, ts) PROVE TruthInv'
  <2>1. /\ TypeOK'
        /\ \/ \E q \in Place : Renamed(p, q) /\ dcache' = Drop(dcache, {p, q})
           \/ UNCHANGED <<ent, dcache>>
    BY <1>0, <1>14, RollbackRenameStep
  <2>2. CASE UNCHANGED <<ent, dcache>>  BY <1>0, <2>1, <2>2, ThinnedTruth
  <2>3. ASSUME NEW q \in Place, Renamed(p, q), dcache' = Drop(dcache, {p, q}) PROVE TruthInv'
    <3>1. /\ dcache'[p] = "uncached" /\ dcache'[q] = "uncached"
          /\ \A r \in Place : dcache'[r] \in {dcache[r], "uncached"}
      BY <1>0, <2>3, DropEffect
    <3>2. \A r \in Place \ {p, q} : ent'[r] = ent[r]  BY <1>0, <2>3 DEF Renamed
    <3> QED  BY <1>0, <2>1, <3>1, <3>2, ThinnedTruth
  <2> QED  BY <2>1, <2>2, <2>3
<1> QED
  BY <1>1, <1>2, <1>3, <1>4, <1>5, <1>6, <1>7, <1>8, <1>9, <1>10, <1>11, <1>12, <1>13, <1>14,
     StepKinds

(* The two ways to begin.                                                  *)
LEMMA InitTree ==
  ASSUME Init
  PROVE  \/ /\ used = {} /\ \A q \in Place : ent[q] = None
            /\ \A i \in Inode : inode[i] = FreeInode
            /\ ent \in [Place -> Inode \cup {None}] /\ inode \in [Inode -> Node]
         \/ \E d, f \in Inode, n \in Name, p \in Place :
              /\ d # f /\ p # <<Root, n>> /\ used = {d, f}
              /\ \A q \in Place : \/ q = p /\ ent[q] = f
                                  \/ q = <<Root, n>> /\ ent[q] = d
                                  \/ q \notin {p, <<Root, n>>} /\ ent[q] = None
              /\ \A i \in Inode : \/ i = d /\ inode[i] = [FreeInode EXCEPT !.kind = "dir"]
                                  \/ i = f /\ inode[i] = [FreeInode EXCEPT !.kind = "file"]
                                  \/ i \notin {d, f} /\ inode[i] = FreeInode
              /\ ent \in [Place -> Inode \cup {None}] /\ inode \in [Inode -> Node]
<1>1. CASE /\ used = {} /\ ent = [p \in Place |-> None]
           /\ inode = [i \in Inode |-> FreeInode]
  BY <1>1, FreeNode
<1>2. CASE \E d, f \in Inode, n \in Name, p \in Place :
             /\ d # f
             /\ p \in {Root, d} \X Name \ {<<Root, n>>}
             /\ used = {d, f}
             /\ ent = [q \in Place |-> CASE q = p         -> f
                                        [] q = <<Root, n>> -> d
                                        [] OTHER           -> None]
             /\ inode = [i \in Inode |-> CASE i = d   -> [FreeInode EXCEPT !.kind = "dir"]
                                            [] i = f   -> [FreeInode EXCEPT !.kind = "file"]
                                            [] OTHER -> FreeInode]
  <2>0. PICK d \in Inode, f \in Inode, n \in Name, p \in Place :
             /\ d # f
             /\ p \in {Root, d} \X Name \ {<<Root, n>>}
             /\ used = {d, f}
             /\ ent = [q \in Place |-> CASE q = p         -> f
                                        [] q = <<Root, n>> -> d
                                        [] OTHER           -> None]
             /\ inode = [i \in Inode |-> CASE i = d   -> [FreeInode EXCEPT !.kind = "dir"]
                                            [] i = f   -> [FreeInode EXCEPT !.kind = "file"]
                                            [] OTHER -> FreeInode]
    BY <1>2, Zenon
  <2>1. p # <<Root, n>>  BY <2>0
  <2>2. ASSUME NEW q \in Place
        PROVE  \/ q = p /\ ent[q] = f
               \/ q = <<Root, n>> /\ ent[q] = d
               \/ q \notin {p, <<Root, n>>} /\ ent[q] = None
    <3>1. ent[q] = CASE q = p         -> f
                     [] q = <<Root, n>> -> d
                     [] OTHER           -> None
      BY <2>0, Zenon
    <3>2. CASE q = p
      <4>1. q # <<Root, n>>  BY <2>1, <3>2
      <4> QED  BY <3>1, <3>2, <4>1, Zenon
    <3>3. CASE q = <<Root, n>>
      <4>1. q # p  BY <2>1, <3>3
      <4> QED  BY <3>1, <3>3, <4>1, Zenon
    <3>4. CASE q # p /\ q # <<Root, n>>  BY <3>1, <3>4, Zenon
    <3> QED  BY <3>2, <3>3, <3>4
  <2>3. ASSUME NEW i \in Inode
        PROVE  \/ i = d /\ inode[i] = [FreeInode EXCEPT !.kind = "dir"]
               \/ i = f /\ inode[i] = [FreeInode EXCEPT !.kind = "file"]
               \/ i \notin {d, f} /\ inode[i] = FreeInode
    <3>1. inode[i] = CASE i = d   -> [FreeInode EXCEPT !.kind = "dir"]
                       [] i = f   -> [FreeInode EXCEPT !.kind = "file"]
                       [] OTHER -> FreeInode
      BY <2>0, Zenon
    <3>2. CASE i = d
      <4>1. i # f  BY <2>0, <3>2
      <4> QED  BY <3>1, <3>2, <4>1, Zenon
    <3>3. CASE i = f
      <4>1. i # d  BY <2>0, <3>3
      <4> QED  BY <3>1, <3>3, <4>1, Zenon
    <3>4. CASE i # d /\ i # f  BY <3>1, <3>4, Zenon
    <3> QED  BY <3>2, <3>3, <3>4
  <2>4. ent \in [Place -> Inode \cup {None}]
    <3>1. \A q \in Place : ent[q] \in Inode \cup {None}  BY <2>0, <2>2
    <3>2. ent = [q \in Place |-> ent[q]]  BY <2>0, Zenon
    <3> QED  BY <3>1, <3>2, Zenon
  <2>5. inode \in [Inode -> Node]
    <3>1. /\ [FreeInode EXCEPT !.kind = "dir"] \in Node
          /\ [FreeInode EXCEPT !.kind = "file"] \in Node
      BY FreeNode DEF Node, Kind
    <3>2. \A i \in Inode : inode[i] \in Node  BY <2>3, <3>1, FreeNode
    <3>3. inode = [i \in Inode |-> inode[i]]  BY <2>0, Zenon
    <3> QED  BY <3>2, <3>3, Zenon
  <2> QED  BY <2>0, <2>1, <2>2, <2>3, <2>4, <2>5
<1> QED  BY <1>1, <1>2, Zenon DEF Init

(* At first nothing is cached.                                             *)
LEMMA TruthInit == Init => TruthInv
<1> SUFFICES ASSUME Init PROVE TruthInv  OBVIOUS
<1>1. ent \in [Place -> Inode \cup {None}] /\ inode \in [Inode -> Node] /\ used \subseteq Inode
  BY InitTree
<1>2. icache \in [Inode -> UpperNode]  BY FreeNode DEF Init
<1>3. /\ time = 0 /\ dcache = [p \in Place |-> "uncached"] /\ versions = {} /\ undo = NoUndo
      /\ report = "none"
  BY Zenon DEF Init
<1>4. 0 \in 0..MaxTime /\ "uncached" \notin Inode  BY NamespaceAssumption
<1>5. undo \in Undo /\ report \in Reports  BY <1>3, NoUndoType DEF Reports
<1> QED
  BY <1>1, <1>2, <1>3, <1>4, <1>5
    DEF TruthInv, TypeOK, PositiveTruthful, Node, UpperNode, Dentry

(* Every operation of kernel/cowfs_inode.c and every rollback keeps the    *)
(* types of the lower tree, the caches and the version table, whatever     *)
(* users do and whatever inode numbers the lower file system gives out.    *)
THEOREM NamespaceTypeCorrect == Spec => []TypeOK
<1>1. TruthInv => TypeOK  BY DEF TruthInv
<1> QED  BY <1>1, TruthInit, TruthNext, PTL DEF Spec

(* A name that the VFS has cached leads to the file that has this name in  *)
(* the lower file system, whatever users do and whatever is rolled back:   *)
(* unlink, rmdir, rename and the rollbacks drop or move every dentry whose *)
(* lower name they change.                                                 *)
THEOREM PositiveCorrect == Spec => []PositiveTruthful
<1>1. TruthInv => PositiveTruthful  BY DEF TruthInv
<1> QED  BY <1>1, TruthInit, TruthNext, PTL DEF Spec

(* Every step keeps the types.                                             *)
LEMMA TypeNext ==
  ASSUME TypeOK, [Next]_vars
  PROVE  TypeOK'
BY StepKinds, LookupStep, ReclaimStep, MakesStep, SymlinkStep, LinkStep, RemoveStep, RenameStep,
   WriteStep, SetattrStep, DeletedStep, RollbackUnlinkStep, RollbackDataStep,
   RollbackSetattrStep, RollbackRenameStep

(* A step leaves a new name under a negative dentry only where the code    *)
(* does so.                                                                *)
LEMMA NegativeNext ==
  ASSUME TypeOK, [Next]_vars, NEW r \in Place, StaysNegative(r)
  PROVE  LeavesNegative(r)
<1>0. /\ dcache[r] = "negative" /\ dcache'[r] = "negative" /\ ent[r] = None /\ ent'[r] # None
      /\ dcache \in [Place -> Dentry] /\ ent \in [Place -> Inode \cup {None}]
      /\ None \notin Inode /\ "negative" \notin Inode
  BY NameTypes DEF StaysNegative
<1>1. ASSUME ent' = ent PROVE FALSE  BY <1>0, <1>1
<1>2. ASSUME NEW p \in Place, NEW k \in {"file", "dir"}, NEW m \in Mode, NEW seen \in BOOLEAN,
             Makes(p, k, m, seen)
      PROVE  LeavesNegative(r)
  <2>1. PICK i \in Inode :
          /\ ent' = [ent EXCEPT ![p] = i]
          /\ ~seen \/ dcache' = [dcache EXCEPT ![p] = i]
    BY <1>2, MakesStep DEF Made
  <2>2. r = p  BY <1>0, <2>1
  <2>3. ~seen  BY <1>0, <2>1, <2>2
  <2>4. seen = FALSE  BY <2>3
  <2>5. Makes(r, k, m, FALSE)  BY <1>2, <2>2, <2>4
  <2> QED  BY <1>2, <2>5 DEF LeavesNegative
<1>3. ASSUME NEW p \in Place, cowfs_symlink(p) PROVE LeavesNegative(r)
  <2>1. PICK i \in Inode : ent' = [ent EXCEPT ![p] = i]  BY <1>3, SymlinkStep DEF Made
  <2>2. r = p  BY <1>0, <2>1
  <2> QED  BY <1>3, <2>2 DEF LeavesNegative
<1>4. ASSUME NEW p \in Place, NEW q \in Place, cowfs_link(p, q) PROVE LeavesNegative(r)
  <2>1. ent' = [ent EXCEPT ![q] = ent[p]]  BY <1>4, LinkStep
  <2>2. r = q  BY <1>0, <2>1
  <2> QED  BY <1>4, <2>2 DEF LeavesNegative
<1>5. ASSUME NEW p \in Place, cowfs_rmdir(p) \/ cowfs_unlink(p) PROVE FALSE
  <2>1. ent' = [ent EXCEPT ![p] = None] \/ ent' = ent  BY <1>5, RemoveStep
  <2> QED  BY <1>0, <2>1
<1>6. ASSUME NEW p \in Place, NEW q \in Place, cowfs_rename(p, q) PROVE FALSE
  <2>1. /\ p # q /\ dcache[p] \in Inode
        /\ \/ Renamed(p, q) /\ dcache' = [dcache EXCEPT ![q] = dcache[p], ![p] = "uncached"]
           \/ ent' = ent
    BY <1>6, RenameStep
  <2>2. \A x \in Place \ {q} : ent[x] = None => ent'[x] = None
    BY <1>0, <2>1 DEF Renamed
  <2>3. r = q  BY <1>0, <2>2
  <2> QED  BY <1>0, <2>1, <2>3
<1>7. ASSUME NEW p \in Place, NEW ts \in 0..MaxTime, rollback_deleted(p, ts) PROVE FALSE
  <2>1. PICK v \in versions : Recreate(v, p)  BY <1>7, DeletedStep
  <2>2. \A q \in Place \ {p} : ent'[q] = ent[q]  BY <1>0, <2>1, RecreateEffect DEF Made
  <2>3. r = p  BY <1>0, <2>2
  <2>4. dcache' = Drop(dcache, {p})  BY <1>7, DeletedStep
  <2>5. dcache'[p] = "uncached"  BY <2>4, DropEffect
  <2> QED  BY <1>0, <2>3, <2>5
<1>8. ASSUME NEW p \in Place, NEW ts \in 0..MaxTime, RollbackUnlink(p, ts)
      PROVE  LeavesNegative(r)
  BY <1>8 DEF LeavesNegative
<1>9. ASSUME NEW p \in Place, NEW ts \in 0..MaxTime, RollbackRename(p, ts) PROVE FALSE
  <2>1. ent' # ent  BY <1>1
  <2>2. PICK q \in Place : Renamed(p, q) /\ dcache' = Drop(dcache, {p, q})
    BY <1>9, <2>1, RollbackRenameStep
  <2>3. dcache'[p] = "uncached" /\ dcache'[q] = "uncached"  BY <2>2, DropEffect
  <2>4. \A x \in Place \ {p, q} : ent'[x] = ent[x]  BY <1>0, <2>2 DEF Renamed
  <2> QED  BY <1>0, <2>3, <2>4
<1>10. ASSUME \/ \E p \in Place : cowfs_lookup(p)
              \/ \/ \E p \in Place : ReclaimDentry(p)
                 \/ \E i \in Inode : ReclaimInode(i)
                 \/ UNCHANGED vars
              \/ \E p \in Place : cowfs_write(p)
              \/ \E p \in Place, m \in Mode, size \in BOOLEAN : cowfs_setattr(p, m, size)
              \/ \E p \in Place, ts \in 0..MaxTime : RollbackData(p, ts)
              \/ \E p \in Place, ts \in 0..MaxTime : RollbackSetattr(p, ts)
       PROVE  ent' = ent
  BY <1>10, LookupStep, ReclaimStep, WriteStep, SetattrStep, RollbackDataStep,
     RollbackSetattrStep DEF Edited
<1> QED
  BY <1>1, <1>2, <1>3, <1>4, <1>5, <1>6, <1>7, <1>8, <1>9, <1>10, StepKinds

(* A name that is made is not left under a dentry that says it is missing, *)
(* but by symlink and link, by a create or mkdir without memory for the    *)
(* upper inode, and by the rollback of an unlink through another path      *)
(* (cowfs_create, cowfs_mkdir, rollback_deleted, the rollback of a rename).*)
THEOREM NegativeCorrect == Spec => NegativeKept
<1>1. TypeOK /\ [Next]_vars => [\A p \in Place : StaysNegative(p) => LeavesNegative(p)]_vars
  BY NegativeNext
<1> QED  BY <1>1, NamespaceTypeCorrect, PTL DEF Spec, NegativeKept

-----------------------------------------------------------------------------
(* Rolling back the last operation.                                        *)

(* Of one type and with one content.                                       *)
Alike(x, y) == x.kind = y.kind /\ x.data = y.data

(* A name names an inode.                                                  *)
Live == \A p \in Place : ent[p] # None => inode[ent[p]].kind # "free"

(* Versions are told apart by their time stamps.                           *)
Stamped ==
  /\ \A v \in versions : v.ts <= time
  /\ \A v, w \in versions : v.ts = w.ts => v = w

(* What stands between the tree and the tree before the last operation: a  *)
(* content that v has saved, under every name of the file, a file that v   *)
(* has saved, or a name.                                                   *)
EditPending(v) ==
  \A r \in Place \ undo.lost :
    IF ent[r] = v.ino
    THEN /\ Tree[r].kind = undo.tree[r].kind
         /\ undo.tree[r].data = IF v.has_data THEN v.data ELSE Tree[r].data
    ELSE Alike(Tree[r], undo.tree[r])

(* After an unlink, that has removed the name p or has failed.             *)
UnlinkPending(v, p) ==
  /\ \A r \in Place \ ({p} \cup undo.lost) : Alike(Tree[r], undo.tree[r])
  /\ p \in undo.lost \/ (undo.tree[p].kind = "file" /\ undo.tree[p].data = v.data)

(* After a rename, whose rollback takes p to q: one that has done nothing, *)
(* or one that has moved a file from q to p.                               *)
RenamePending(p, q) ==
  \/ /\ ent[p] = ent[q]
     /\ \A r \in Place \ undo.lost : Alike(Tree[r], undo.tree[r])
  \/ /\ p # q
     /\ \A r \in Place \ ({p, q} \cup undo.lost) : Alike(Tree[r], undo.tree[r])
     /\ p \in undo.lost \/ Alike(FreeInode, undo.tree[p])
     /\ ent[p] # None =>
          \/ {p, q} \subseteq undo.lost
          \/ ent[q] = None /\ (q \in undo.lost \/ Alike(Tree[p], undo.tree[q]))

(* By the kind of the last operation, which can be rolled back at p.       *)
PendingAt(v, p) ==
  /\ v.op \in {"WRITE", "SETATTR"} => EditPending(v)
  /\ v.op = "UNLINK" => UnlinkPending(v, p)
  /\ v.op = "RENAME" => RenamePending(p, <<p[1], v.name>>)

(* As long as the last operation's version is there.                       *)
Pending == \A v \in versions : v.ts = undo.ts => PendingAt(v, undo.place)

(* Inductive.                                                              *)
UndoInv == TypeOK /\ Live /\ Stamped /\ Pending /\ UndoExact

(* Steps by what they do to the last operation.                            *)

(* A step that leaves the tree and the last operation as they are.         *)
Idle ==
  /\ UNCHANGED <<time, inode, ent, versions, undo>>
  /\ report' \in {"none", report}

(* A step after which there is no last operation that could be undone.     *)
Forgets ==
  /\ versions' = versions /\ time' \in {time, time + 1}
  /\ undo' = NoUndo /\ report' = "none"

(* The operation whose version is w was the last one.                      *)
Remembers(w, at, lost) ==
  /\ w.ts = time + 1 /\ time' = time + 1 /\ versions' = versions \cup {w}
  /\ undo' = [ts |-> w.ts, place |-> at, tree |-> Tree, lost |-> lost]
  /\ report' = "none"

(* The last operation is undone, at its path, by its version.              *)
Undoes(v, p, lost) ==
  /\ v \in versions /\ v.ts = undo.ts /\ p = undo.place
  /\ undo' = [undo EXCEPT !.lost = @ \cup lost]
  /\ UNCHANGED <<time, versions>> /\ report' = "undone"

(* The steps that save, and the tree after them.                           *)
EditSaved(p, w, lost) ==
  /\ Remembers(w, p, lost) /\ w.op \in {"WRITE", "SETATTR"}
  /\ ent[p] \in Inode /\ w.ino = ent[p] /\ Edited(ent[p])
  /\ IF w.has_data THEN w.data = inode[ent[p]].data
     ELSE \/ inode'[ent[p]].data = inode[ent[p]].data
          \/ \A r \in Place : ent[r] = ent[p] => r \in lost

(* A file loses its name, or keeps it.                                     *)
UnlinkSaved(p, w) ==
  /\ Remembers(w, p, {}) /\ w.op = "UNLINK" /\ ent[p] \in Inode
  /\ inode[ent[p]].kind = "file" /\ w.data = inode[ent[p]].data
  /\ \/ ent' = [ent EXCEPT ![p] = None] /\ inode' = Reap(ent', inode)
     \/ UNCHANGED <<inode, ent>>

(* A file moves from p to q.                                               *)
RenameSaved(p, q, w) ==
  /\ Remembers(w, q, Replaced(p, q)) /\ w.op = "RENAME" /\ w.name = p[2]
  /\ p # q /\ ent[p] \in Inode /\ Renamed(p, q)

(* A file stays at p.                                                      *)
RenameFailed(p, w) ==
  /\ Remembers(w, p, {}) /\ w.op = "RENAME" /\ w.name = p[2] /\ UNCHANGED <<inode, ent>>

(* The steps that undo.                                                    *)
UnlinkUndone(p, v, lost) ==
  /\ Undoes(v, p, lost) /\ v.op = "UNLINK"
  /\ \/ \E i \in Inode, d \in Content : Made(p, i, "file", d) /\ (d = v.data \/ p \in lost)
     \/ p \in lost /\ UNCHANGED <<inode, ent>>

(* The content that v has saved is back.                                   *)
EditUndone(p, v) ==
  /\ Undoes(v, p, {}) /\ v.op \in {"WRITE", "SETATTR"} /\ ent[p] \in Inode /\ v.ino = ent[p]
  /\ Edited(ent[p])
  /\ inode'[ent[p]].data = IF v.has_data THEN v.data ELSE inode[ent[p]].data

(* The file is moved back to its old name.                                 *)
RenameUndone(p, q, v) ==
  /\ Undoes(v, p, {}) /\ v.op = "RENAME" /\ ent[p] \in Inode /\ q = <<p[1], v.name>>
  /\ Renamed(p, q)

(* What the rollback by a version comes to.                                *)
LEMMA SucceedsKinds ==
  ASSUME NEW v \in versions, NEW p, NEW lost, Succeeds(v, p, lost), UNCHANGED <<time, versions>>
  PROVE  Undoes(v, p, lost) \/ Forgets
BY DEF Succeeds, Undoes, Forgets

(* A rollback that fails.                                                  *)
LEMMA FailsKind ==
  ASSUME Fails, UNCHANGED <<time, versions>>
  PROVE  Forgets
BY DEF Fails, Forgets

(* An operation without a version.                                         *)
LEMMA UnsavedKind ==
  ASSUME Unsaved
  PROVE  Forgets
BY DEF Unsaved, Ticks, Forgets

(* An operation that saves a version.                                      *)
LEMMA SavesKind ==
  ASSUME TypeOK, NEW p \in Place, ent[p] \in Inode, NEW has \in BOOLEAN, NEW at, NEW lost,
         NEW op \in Op, Saves(Saved(op, p, has), at, lost)
  PROVE  \E w \in Version :
           /\ Remembers(w, at, lost) /\ w.op = op /\ w.ino = ent[p] /\ w.name = p[2]
           /\ w.has_data = has
           /\ has => w.data = inode[ent[p]].data
<1>1. time < MaxTime /\ time' = time + 1  BY DEF Saves, Ticks
<1>2. PICK w : w = Saved(op, p, has)  OBVIOUS
<1>3. /\ w \in Version /\ w.ts = time + 1 /\ w.op = op /\ w.ino = ent[p] /\ w.name = p[2]
      /\ w.has_data = has
      /\ has => w.data = inode[ent[p]].data
  BY <1>1, <1>2, SavedVersion
<1>4. Remembers(w, at, lost)  BY <1>1, <1>2, <1>3 DEF Saves, Remembers
<1> QED  BY <1>3, <1>4

(* A write or a setattr is saved, or it is not.                            *)
LEMMA EditSteps ==
  ASSUME TypeOK, NEW p \in Place,
         cowfs_write(p) \/ \E m \in Mode, size \in BOOLEAN : cowfs_setattr(p, m, size)
  PROVE  Forgets \/ \E w \in Version, lost \in SUBSET Place : EditSaved(p, w, lost)
<1>1. CASE cowfs_write(p)
  <2>1. Edited(ent[p]) /\ ent[p] \in Inode  BY <1>1, WriteStep
  <2>2. PICK has \in BOOLEAN, lost \in SUBSET Place : has = TRUE /\ lost = {}  OBVIOUS
  <2>3. Saves(Saved("WRITE", p, has), p, lost) \/ Unsaved
    BY <1>1, <2>2 DEF cowfs_write, NotSaved
  <2>4. CASE Saves(Saved("WRITE", p, has), p, lost)
    <3>1. PICK w \in Version :
            /\ Remembers(w, p, lost) /\ w.op = "WRITE" /\ w.ino = ent[p] /\ w.has_data = has
            /\ has => w.data = inode[ent[p]].data
      BY <2>1, <2>4, SavesKind DEF Op
    <3> QED  BY <2>1, <2>2, <3>1 DEF EditSaved
  <2> QED  BY <2>3, <2>4, UnsavedKind
<1>2. ASSUME NEW m \in Mode, NEW size \in BOOLEAN, cowfs_setattr(p, m, size)
      PROVE  Forgets \/ \E w \in Version, lost \in SUBSET Place : EditSaved(p, w, lost)
  <2>1. /\ Edited(ent[p]) /\ ent[p] \in Inode
        /\ \E has, gone \in BOOLEAN :
             /\ Saves(Saved("SETATTR", p, has), p, Uncopied(p, gone)) \/ Unsaved
             /\ has \/ gone \/ inode'[ent[p]].data = inode[ent[p]].data
    BY <1>2, SetattrStep
  <2>2. PICK has \in BOOLEAN, gone \in BOOLEAN :
          /\ Saves(Saved("SETATTR", p, has), p, Uncopied(p, gone)) \/ Unsaved
          /\ has \/ gone \/ inode'[ent[p]].data = inode[ent[p]].data
    BY <2>1
  <2>3. PICK lost \in SUBSET Place : lost = Uncopied(p, gone)  BY LostNames
  <2>4. CASE Saves(Saved("SETATTR", p, has), p, lost)
    <3>1. PICK w \in Version :
            /\ Remembers(w, p, lost) /\ w.op = "SETATTR" /\ w.ino = ent[p] /\ w.has_data = has
            /\ has => w.data = inode[ent[p]].data
      BY <2>1, <2>4, SavesKind DEF Op
    <3>2. gone => \A r \in Place : ent[r] = ent[p] => r \in lost  BY <2>3 DEF Uncopied
    <3> QED  BY <2>1, <2>2, <3>1, <3>2 DEF EditSaved
  <2> QED  BY <2>2, <2>3, <2>4, UnsavedKind
<1> QED  BY <1>1, <1>2

(* An unlink is saved, or it is not.                                       *)
LEMMA RemoveSteps ==
  ASSUME TypeOK, NEW p \in Place, cowfs_rmdir(p) \/ cowfs_unlink(p)
  PROVE  Forgets \/ \E w \in Version : UnlinkSaved(p, w)
<1>1. /\ ent[p] \in Inode
      /\ \/ ent' = [ent EXCEPT ![p] = None] /\ inode' = Reap(ent', inode)
         \/ UNCHANGED <<inode, ent>>
  BY RemoveStep
<1>2. PICK has \in BOOLEAN : has = TRUE  OBVIOUS
<1>3. \/ Unsaved
      \/ inode[ent[p]].kind = "file" /\ Saves(Saved("UNLINK", p, has), p, {})
  BY <1>2, RemoveStep
<1>4. CASE inode[ent[p]].kind = "file" /\ Saves(Saved("UNLINK", p, has), p, {})
  <2>1. PICK w \in Version :
          /\ Remembers(w, p, {}) /\ w.op = "UNLINK"
          /\ has => w.data = inode[ent[p]].data
    BY <1>1, <1>4, SavesKind DEF Op
  <2> QED  BY <1>1, <1>2, <1>4, <2>1 DEF UnlinkSaved
<1> QED  BY <1>3, <1>4, UnsavedKind

(* A rename is saved, also when it fails, or it is not.                    *)
LEMMA RenameSteps ==
  ASSUME TypeOK, NEW p \in Place, NEW q \in Place, cowfs_rename(p, q)
  PROVE  Forgets \/ \E w \in Version : RenameSaved(p, q, w) \/ RenameFailed(p, w)
<1>1. PICK has \in BOOLEAN : has = FALSE  OBVIOUS
<1>2. /\ ent[p] \in Inode /\ p # q
      /\ \/ Renamed(p, q) /\ (Saves(Saved("RENAME", p, has), q, Replaced(p, q)) \/ Unsaved)
         \/ /\ UNCHANGED <<inode, ent>>
            /\ Saves(Saved("RENAME", p, has), p, {}) \/ Unsaved
  BY <1>1, RenameStep
<1>3. CASE Renamed(p, q) /\ Saves(Saved("RENAME", p, has), q, Replaced(p, q))
  <2>1. PICK w \in Version :
          Remembers(w, q, Replaced(p, q)) /\ w.op = "RENAME" /\ w.name = p[2]
    BY <1>2, <1>3, SavesKind DEF Op
  <2> QED  BY <1>2, <1>3, <2>1 DEF RenameSaved
<1>4. CASE UNCHANGED <<inode, ent>> /\ Saves(Saved("RENAME", p, has), p, {})
  <2>1. PICK w \in Version : Remembers(w, p, {}) /\ w.op = "RENAME" /\ w.name = p[2]
    BY <1>2, <1>4, SavesKind DEF Op
  <2> QED  BY <1>4, <2>1 DEF RenameFailed
<1> QED  BY <1>2, <1>3, <1>4, UnsavedKind

(* The name of a deleted file is made anew, or the rollback fails.         *)
LEMMA RecreateSteps ==
  ASSUME TypeOK, NEW p \in Place, NEW v \in versions, v.op = "UNLINK", Recreate(v, p),
         UNCHANGED <<time, versions>>
  PROVE  Forgets \/ \E lost \in SUBSET Place : UnlinkUndone(p, v, lost)
<1>1. \/ \E i \in Inode, d \in Content, lost \in SUBSET Place :
           /\ Made(p, i, "file", d) /\ Succeeds(v, p, lost)
           /\ d = v.data \/ p \in lost
      \/ Fails
  BY RecreateEffect
<1>2. ASSUME NEW i \in Inode, NEW d \in Content, NEW lost \in SUBSET Place,
             Made(p, i, "file", d), Succeeds(v, p, lost), d = v.data \/ p \in lost
      PROVE  Forgets \/ UnlinkUndone(p, v, lost)
  <2>1. Undoes(v, p, lost) \/ Forgets  BY <1>2, SucceedsKinds
  <2> QED  BY <1>2, <2>1 DEF UnlinkUndone
<1> QED  BY <1>1, <1>2, FailsKind

(* The rollbacks: one undoes the last operation, or there is none left.    *)
LEMMA UnlinkSteps ==
  ASSUME TypeOK, NEW p \in Place, NEW ts \in 0..MaxTime,
         rollback_deleted(p, ts) \/ RollbackUnlink(p, ts)
  PROVE  Forgets \/ \E q \in Place, v \in versions, lost \in SUBSET Place : UnlinkUndone(q, v, lost)
<1>1. UNCHANGED <<time, versions>>  BY DeletedStep, RollbackUnlinkStep
<1>2. PICK v \in versions, q \in Place :
        /\ v.op = "UNLINK"
        /\ \/ Recreate(v, q)
           \/ Succeeds(v, q, {q}) /\ UNCHANGED <<inode, ent>>
  BY DeletedStep, RollbackUnlinkStep
<1>3. CASE Succeeds(v, q, {q}) /\ UNCHANGED <<inode, ent>>
  <2>1. PICK lost \in SUBSET Place : lost = {q}  OBVIOUS
  <2>2. Undoes(v, q, lost) \/ Forgets  BY <1>1, <1>3, <2>1, SucceedsKinds
  <2> QED  BY <1>2, <1>3, <2>1, <2>2 DEF UnlinkUndone
<1> QED  BY <1>1, <1>2, <1>3, RecreateSteps

(* A write or a setattr is rolled back.                                    *)
LEMMA DataSteps ==
  ASSUME TypeOK, NEW p \in Place, NEW ts \in 0..MaxTime,
         RollbackData(p, ts) \/ RollbackSetattr(p, ts)
  PROVE  Forgets \/ \E v \in versions : EditUndone(p, v)
<1>1. UNCHANGED <<time, versions>>  BY RollbackDataStep, RollbackSetattrStep
<1>2. PICK v \in versions :
        /\ ent[p] \in Inode /\ Edited(ent[p]) /\ v.ino = ent[p] /\ v.op \in {"WRITE", "SETATTR"}
        /\ \/ /\ inode'[ent[p]].data = IF v.has_data THEN v.data ELSE inode[ent[p]].data
              /\ Succeeds(v, p, {})
           \/ Fails
  BY RollbackDataStep, RollbackSetattrStep
<1>3. CASE /\ inode'[ent[p]].data = IF v.has_data THEN v.data ELSE inode[ent[p]].data
           /\ Succeeds(v, p, {})
  <2>1. Undoes(v, p, {}) \/ Forgets  BY <1>1, <1>3, SucceedsKinds
  <2> QED  BY <1>2, <1>3, <2>1 DEF EditUndone
<1> QED  BY <1>1, <1>2, <1>3, FailsKind

(* A rename is rolled back.                                                *)
LEMMA BackSteps ==
  ASSUME TypeOK, NEW p \in Place, NEW ts \in 0..MaxTime, RollbackRename(p, ts)
  PROVE  Forgets \/ \E v \in versions, q \in Place : RenameUndone(p, q, v)
<1>1. UNCHANGED <<time, versions>> /\ ent[p] \in Inode  BY RollbackRenameStep
<1>2. CASE Fails  BY <1>1, <1>2, FailsKind
<1>3. ASSUME NEW v \in versions, NEW q \in Place, v.op = "RENAME", q = <<p[1], v.name>>,
             Renamed(p, q), Succeeds(v, p, {})
      PROVE  Forgets \/ RenameUndone(p, q, v)
  <2>1. Undoes(v, p, {}) \/ Forgets  BY <1>1, <1>3, SucceedsKinds
  <2> QED  BY <1>1, <1>3, <2>1 DEF RenameUndone
<1> QED  BY <1>2, <1>3, RollbackRenameStep

(* Every step, by what it does to the last operation.                      *)
LEMMA UndoSteps ==
  ASSUME TypeOK, [Next]_vars
  PROVE  \/ Idle \/ Forgets
         \/ \E p \in Place, w \in Version, lost \in SUBSET Place : EditSaved(p, w, lost)
         \/ \E p \in Place, w \in Version : UnlinkSaved(p, w)
         \/ \E p, q \in Place, w \in Version : RenameSaved(p, q, w)
         \/ \E p \in Place, w \in Version : RenameFailed(p, w)
         \/ \E p \in Place, v \in versions, lost \in SUBSET Place : UnlinkUndone(p, v, lost)
         \/ \E p \in Place, v \in versions : EditUndone(p, v)
         \/ \E p, q \in Place, v \in versions : RenameUndone(p, q, v)
<1>1. CASE \/ \E p \in Place : cowfs_lookup(p) \/ ReclaimDentry(p)
           \/ \E i \in Inode : ReclaimInode(i)
           \/ UNCHANGED vars
  BY <1>1 DEF cowfs_lookup, ReclaimDentry, ReclaimInode, Idle, fsVars, vars
<1>2. CASE \/ \E p \in Place, k \in {"file", "dir"}, m \in Mode, seen \in BOOLEAN :
                Makes(p, k, m, seen)
           \/ \E p \in Place : cowfs_symlink(p)
           \/ \E p, q \in Place : cowfs_link(p, q)
  <2>1. Unsaved  BY <1>2 DEF Makes, cowfs_symlink, cowfs_link
  <2> QED  BY <2>1, UnsavedKind
<1>3. CASE \E p \in Place : cowfs_rmdir(p) \/ cowfs_unlink(p)  BY <1>3, RemoveSteps
<1>4. CASE \E p, q \in Place : cowfs_rename(p, q)  BY <1>4, RenameSteps
<1>5. CASE \/ \E p \in Place : cowfs_write(p)
           \/ \E p \in Place, m \in Mode, size \in BOOLEAN : cowfs_setattr(p, m, size)
  BY <1>5, EditSteps
<1>6. CASE \E p \in Place, ts \in 0..MaxTime : rollback_deleted(p, ts) \/ RollbackUnlink(p, ts)
  BY <1>6, UnlinkSteps
<1>7. CASE \E p \in Place, ts \in 0..MaxTime : RollbackData(p, ts) \/ RollbackSetattr(p, ts)
  BY <1>7, DataSteps
<1>8. CASE \E p \in Place, ts \in 0..MaxTime : RollbackRename(p, ts)  BY <1>8, BackSteps
<1> QED  BY <1>1, <1>2, <1>3, <1>4, <1>5, <1>6, <1>7, <1>8, StepKinds

(* Time stamps stay unique.                                                *)
LEMMA StampedNext ==
  ASSUME TypeOK, Stamped, [Next]_vars
  PROVE  Stamped'
<1>1. time \in Nat /\ \A v \in versions : v.ts \in Nat  BY NameTypes DEF Version
<1>2. CASE versions' = versions /\ time' \in {time, time + 1}  BY <1>1, <1>2 DEF Stamped
<1>3. ASSUME NEW w \in Version, NEW at, NEW lost, Remembers(w, at, lost) PROVE Stamped'
  BY <1>1, <1>3 DEF Stamped, Remembers
<1>4. \/ versions' = versions /\ time' \in {time, time + 1}
      \/ \E w \in Version : \E at \in Place : \E lost : Remembers(w, at, lost)
  BY UndoSteps DEF Idle, Forgets, EditSaved, UnlinkSaved, RenameSaved, RenameFailed, Undoes,
                   UnlinkUndone, EditUndone, RenameUndone
<1> QED  BY <1>2, <1>3, <1>4

(* No version belongs to no operation.                                     *)
LEMMA NothingPending ==
  ASSUME TypeOK
  PROVE  \A v \in versions : v.ts # NoUndo.ts
BY NameTypes, NoUndoType DEF Version

(* The last operation's version is the new one.                            *)
LEMMA NewestPending ==
  ASSUME TypeOK, Stamped, NEW w, NEW at, NEW lost, Remembers(w, at, lost)
  PROVE  /\ \A v \in versions' : v.ts = undo'.ts => v = w
         /\ undo'.place = at /\ undo'.tree = Tree /\ undo'.lost = lost /\ report' = "none"
<1>1. time \in Nat /\ \A v \in versions : v.ts \in Nat  BY NameTypes DEF Version
<1>2. /\ undo'.ts = w.ts /\ undo'.place = at /\ undo'.tree = Tree /\ undo'.lost = lost
      /\ report' = "none"
  BY DEF Remembers
<1>3. \A v \in versions : v.ts # w.ts  BY <1>1 DEF Stamped, Remembers
<1> QED  BY <1>2, <1>3 DEF Remembers

(* The last operation is undone: what that leaves of it.                   *)
LEMMA UndoneParts ==
  ASSUME TypeOK, Stamped, Pending, NEW v, NEW p, NEW lost, Undoes(v, p, lost)
  PROVE  /\ PendingAt(v, p) /\ undo'.place = p /\ undo'.tree = undo.tree
         /\ undo'.lost = undo.lost \cup lost
         /\ \A w \in versions' : w.ts = undo'.ts => w = v
<1>1. undo \in Undo  BY NameTypes
<1>2. /\ undo'.place = p /\ undo'.tree = undo.tree /\ undo'.ts = v.ts
      /\ undo'.lost = undo.lost \cup lost
  BY <1>1 DEF Undoes, Undo
<1> QED  BY <1>2 DEF Undoes, Pending, Stamped

(* What the tree shows at a name.                                          *)
LEMMA TreeAt ==
  ASSUME NEW r \in Place
  PROVE  Tree[r] = IF ent[r] = None THEN FreeInode ELSE inode[ent[r]]
BY DEF Tree

(* A name that stays shows what it showed.                                 *)
LEMMA ReapedTree ==
  ASSUME TypeOK, inode' = Reap(ent', inode), NEW r \in Place, ent'[r] \in Inode \cup {None}
  PROVE  Tree'[r] = IF ent'[r] = None THEN FreeInode ELSE inode[ent'[r]]
<1>1. ent'[r] \in Linked(ent')  BY DEF Linked
<1>2. ent'[r] # None => inode'[ent'[r]] = inode[ent'[r]]  BY <1>1, ReapEffect, NameTypes
<1> QED  BY <1>2 DEF Tree

(* An edit shows at the names of the file.                                 *)
LEMMA EditedTree ==
  ASSUME TypeOK, NEW i \in Inode, Edited(i), NEW r \in Place
  PROVE  /\ ent'[r] = ent[r]
         /\ ent[r] # i => Tree'[r] = Tree[r]
         /\ ent[r] = i => /\ Tree'[r].kind = Tree[r].kind
                          /\ Tree[r].data = inode[i].data /\ Tree'[r].data = inode'[i].data
<1>1. ent[r] \in Inode \cup {None} /\ i # None  BY NameTypes
<1>2. /\ ent' = ent /\ inode'[i].kind = inode[i].kind
      /\ \A j \in Inode \ {i} : inode'[j] = inode[j]
  BY DEF Edited
<1> QED  BY <1>1, <1>2 DEF Tree

(* A new inode shows at its name only.                                     *)
LEMMA MadeTree ==
  ASSUME TypeOK, Live, NEW p \in Place, NEW i \in Inode, NEW k, NEW d, Made(p, i, k, d)
  PROVE  /\ \A r \in Place \ {p} : Tree'[r] = Tree[r]
         /\ Tree'[p].kind = k /\ Tree'[p].data = d
<1>1. ent \in [Place -> Inode \cup {None}] /\ None \notin Inode  BY NameTypes
<1>2. inode[i].kind = "free"  BY DEF Made, FreshNumber
<1>3. \A r \in Place : ent[r] # i  BY <1>1, <1>2 DEF Live
<1>4. /\ ent' = [ent EXCEPT ![p] = i] /\ inode'[i].kind = k /\ inode'[i].data = d
      /\ \A j \in Inode \ {i} : inode'[j] = inode[j]
  BY DEF Made
<1>5. ent'[p] = i /\ \A r \in Place \ {p} : ent'[r] = ent[r]  BY <1>1, <1>4
<1>6. \A r \in Place \ {p} : Tree'[r] = Tree[r]  BY <1>1, <1>3, <1>4, <1>5 DEF Tree
<1>7. Tree'[p] = inode'[i]  BY <1>1, <1>5 DEF Tree
<1> QED  BY <1>4, <1>6, <1>7

(* A name goes.                                                            *)
LEMMA RemovedTree ==
  ASSUME TypeOK, NEW p \in Place, ent' = [ent EXCEPT ![p] = None], inode' = Reap(ent', inode)
  PROVE  \A r \in Place \ {p} : Tree'[r] = Tree[r]
<1>1. ent \in [Place -> Inode \cup {None}]  BY NameTypes
<1>2. ASSUME NEW r \in Place \ {p} PROVE Tree'[r] = Tree[r]
  <2>1. ent'[r] = ent[r] /\ ent'[r] \in Inode \cup {None}  BY <1>1
  <2> QED  BY <2>1, ReapedTree, TreeAt
<1> QED  BY <1>2

(* A name moves, and what it shows moves with it, unless the file has both *)
(* names.                                                                  *)
LEMMA MovedTree ==
  ASSUME TypeOK, NEW p \in Place, NEW q \in Place, ent[p] \in Inode, Renamed(p, q)
  PROVE  \/ ent[p] = ent[q] /\ ent' = ent /\ \A r \in Place : Tree'[r] = Tree[r]
         \/ /\ ent[p] # ent[q] /\ p # q /\ ent'[p] = None /\ ent'[q] = ent[p]
            /\ \A r \in Place \ {p, q} : Tree'[r] = Tree[r]
            /\ Tree'[q] = Tree[p] /\ Tree'[p] = FreeInode
<1>1. ent \in [Place -> Inode \cup {None}] /\ None \notin Inode  BY NameTypes
<1>2. inode' = Reap(ent', inode)  BY DEF Renamed
<1>3. CASE ent[p] = ent[q] /\ ent' = ent
  <2>1. ASSUME NEW r \in Place PROVE Tree'[r] = Tree[r]
    <3>1. ent'[r] = ent[r] /\ ent'[r] \in Inode \cup {None}  BY <1>1, <1>3
    <3> QED  BY <1>2, <3>1, ReapedTree, TreeAt
  <2> QED  BY <1>3, <2>1
<1>4. CASE ent[p] # ent[q] /\ p # q /\ ent' = [ent EXCEPT ![q] = ent[p], ![p] = None]
  <2>1. /\ ent'[q] = ent[p] /\ ent'[p] = None
        /\ \A r \in Place \ {p, q} : ent'[r] = ent[r]
        /\ \A r \in Place : ent'[r] \in Inode \cup {None}
    BY <1>1, <1>4
  <2>2. \A r \in Place : Tree'[r] = IF ent'[r] = None THEN FreeInode ELSE inode[ent'[r]]
    BY <1>2, <2>1, ReapedTree
  <2> QED  BY <1>1, <1>4, <2>1, <2>2, TreeAt
<1> QED  BY <1>3, <1>4 DEF Renamed

(* Freeing what has no name leaves every name with its inode.              *)
LEMMA ReapedLive ==
  ASSUME TypeOK, Live, inode' = Reap(ent', inode),
         \A r \in Place : ent'[r] = None \/ \E x \in Place : ent'[r] = ent[x]
  PROVE  Live'
<1>1. ASSUME NEW r \in Place, ent'[r] # None PROVE inode'[ent'[r]].kind # "free"
  <2>1. PICK x \in Place : ent'[r] = ent[x]  BY <1>1
  <2>2. ent[x] \in Inode /\ inode[ent[x]].kind # "free"  BY <1>1, <2>1, NameTypes DEF Live
  <2>3. ent[x] \in Linked(ent')  BY <2>1 DEF Linked
  <2>4. inode'[ent[x]] = inode[ent[x]]  BY <2>2, <2>3, NameTypes, ReapEffect
  <2> QED  BY <2>1, <2>2, <2>4
<1> QED  BY <1>1 DEF Live

(* An inode that is made is not free.                                      *)
LEMMA MadeLive ==
  ASSUME TypeOK, Live, NEW p \in Place, NEW i \in Inode, NEW k \in {"file", "dir", "link"}, NEW d,
         Made(p, i, k, d)
  PROVE  Live'
<1>1. ent \in [Place -> Inode \cup {None}] /\ None \notin Inode  BY NameTypes
<1>2. inode[i].kind = "free"  BY DEF Made, FreshNumber
<1>3. \A r \in Place : ent[r] # i  BY <1>1, <1>2 DEF Live
<1>4. /\ ent' = [ent EXCEPT ![p] = i] /\ inode'[i].kind = k
      /\ \A j \in Inode \ {i} : inode'[j] = inode[j]
  BY DEF Made
<1> QED  BY <1>1, <1>3, <1>4 DEF Live

(* Every step keeps the names on inodes.                                   *)
LEMMA LiveNext ==
  ASSUME TypeOK, Live, [Next]_vars
  PROVE  Live'
<1>0. ent \in [Place -> Inode \cup {None}] /\ None \notin Inode  BY NameTypes
<1>1. CASE UNCHANGED <<inode, ent>>  BY <1>1 DEF Live
<1>2. ASSUME NEW i \in Inode, Edited(i) PROVE Live'  BY <1>0, <1>2 DEF Edited, Live
<1>3. ASSUME NEW p \in Place, NEW k \in {"file", "dir"}, NEW m \in Mode, NEW seen \in BOOLEAN,
             Makes(p, k, m, seen)
      PROVE  Live'
  <2>1. PICK i \in Inode : Made(p, i, k, 0)  BY <1>3, MakesStep
  <2> QED  BY <2>1, MadeLive
<1>4. ASSUME NEW p \in Place, cowfs_symlink(p) PROVE Live'
  <2>1. PICK i \in Inode, k \in {"file", "dir", "link"} : k = "link" /\ Made(p, i, k, 0)
    BY <1>4, SymlinkStep
  <2> QED  BY <2>1, MadeLive
<1>5. ASSUME NEW p \in Place, NEW q \in Place, cowfs_link(p, q) PROVE Live'
  <2>1. ent' = [ent EXCEPT ![q] = ent[p]] /\ inode' = inode  BY <1>5, LinkStep
  <2> QED  BY <1>0, <2>1 DEF Live
<1>6. ASSUME NEW p \in Place, cowfs_rmdir(p) \/ cowfs_unlink(p) PROVE Live'
  <2>1. \/ ent' = [ent EXCEPT ![p] = None] /\ inode' = Reap(ent', inode)
        \/ UNCHANGED <<inode, ent>>
    BY <1>6, RemoveStep
  <2>2. CASE ent' = [ent EXCEPT ![p] = None] /\ inode' = Reap(ent', inode)
    <3>1. \A r \in Place : ent'[r] = None \/ ent'[r] = ent[r]  BY <1>0, <2>2
    <3> QED  BY <2>2, <3>1, ReapedLive
  <2> QED  BY <1>1, <2>1, <2>2
<1>7. ASSUME NEW p \in Place, NEW q \in Place, Renamed(p, q) PROVE Live'
  <2>1. \A r \in Place : ent'[r] = None \/ \E x \in Place : ent'[r] = ent[x]
    BY <1>0, <1>7 DEF Renamed
  <2> QED  BY <1>7, <2>1, ReapedLive DEF Renamed
<1>8. ASSUME NEW v \in versions, NEW p \in Place, Recreate(v, p) PROVE Live'
  <2>1. \/ \E i \in Inode, d \in Content : Made(p, i, "file", d)
        \/ UNCHANGED <<inode, ent>>
    BY <1>8, RecreateEffect
  <2>2. ASSUME NEW i \in Inode, NEW d \in Content, Made(p, i, "file", d) PROVE Live'
    <3>1. PICK k \in {"file", "dir", "link"} : k = "file"  OBVIOUS
    <3> QED  BY <2>2, <3>1, MadeLive
  <2> QED  BY <1>1, <2>1, <2>2
<1>9. ASSUME NEW p \in Place, NEW ts \in 0..MaxTime,
             rollback_deleted(p, ts) \/ RollbackUnlink(p, ts)
      PROVE  Live'
  <2>1. PICK v \in versions, q \in Place : Recreate(v, q) \/ UNCHANGED <<inode, ent>>
    BY <1>9, DeletedStep, RollbackUnlinkStep
  <2> QED  BY <1>1, <1>8, <2>1
<1>10. ASSUME \/ \E p \in Place : cowfs_lookup(p)
              \/ \/ \E p \in Place : ReclaimDentry(p)
                 \/ \E i \in Inode : ReclaimInode(i)
                 \/ UNCHANGED vars
       PROVE  Live'
  BY <1>1, <1>10, LookupStep, ReclaimStep
<1>11. ASSUME \/ \E p \in Place : cowfs_write(p)
              \/ \E p \in Place, m \in Mode, size \in BOOLEAN : cowfs_setattr(p, m, size)
              \/ \E p \in Place, ts \in 0..MaxTime : RollbackData(p, ts)
              \/ \E p \in Place, ts \in 0..MaxTime : RollbackSetattr(p, ts)
       PROVE  Live'
  BY <1>2, <1>11, WriteStep, SetattrStep, RollbackDataStep, RollbackSetattrStep
<1>12. ASSUME \/ \E p, q \in Place : cowfs_rename(p, q)
              \/ \E p \in Place, ts \in 0..MaxTime : RollbackRename(p, ts)
       PROVE  Live'
  BY <1>1, <1>7, <1>12, RenameStep, RollbackRenameStep
<1> QED
  BY <1>3, <1>4, <1>5, <1>6, <1>9, <1>10, <1>11, <1>12, StepKinds

(* A step that saves an operation.                                         *)
LEMMA SavedPending ==
  ASSUME TypeOK, Stamped, NEW w, NEW at, NEW lost, Remembers(w, at, lost), PendingAt(w, at)'
  PROVE  Pending' /\ UndoExact'
<1>1. /\ \A v \in versions' : v.ts = undo'.ts => v = w
      /\ undo'.place = at /\ report' = "none"
  BY NewestPending
<1> QED  BY <1>1 DEF Pending, UndoExact

(* A step that undoes the last operation.                                  *)
LEMMA UndonePending ==
  ASSUME TypeOK, Stamped, Pending, NEW v, NEW p, NEW lost, Undoes(v, p, lost), PendingAt(v, p)',
         \A r \in Place \ undo'.lost : Alike(Tree'[r], undo.tree[r])
  PROVE  Pending' /\ UndoExact'
<1>1. /\ undo'.place = p /\ undo'.tree = undo.tree
      /\ \A w \in versions' : w.ts = undo'.ts => w = v
  BY UndoneParts
<1>2. Pending'  BY <1>1 DEF Pending
<1>3. UndoExact'  BY <1>1 DEF UndoExact, Alike
<1> QED  BY <1>2, <1>3

(* A write or a setattr is pending.                                        *)
LEMMA EditSavedNext ==
  ASSUME UndoInv, NEW p \in Place, NEW w \in Version, NEW lost \in SUBSET Place,
         EditSaved(p, w, lost)
  PROVE  Pending' /\ UndoExact'
<1>1. TypeOK /\ Stamped  BY DEF UndoInv
<1>2. /\ Remembers(w, p, lost) /\ w.op \in {"WRITE", "SETATTR"}
      /\ ent[p] \in Inode /\ w.ino = ent[p] /\ Edited(ent[p])
      /\ IF w.has_data THEN w.data = inode[ent[p]].data
         ELSE \/ inode'[ent[p]].data = inode[ent[p]].data
              \/ \A r \in Place : ent[r] = ent[p] => r \in lost
  BY DEF EditSaved
<1>3. undo'.tree = Tree /\ undo'.lost = lost  BY <1>1, <1>2, NewestPending
<1>4. ASSUME NEW r \in Place \ lost
      PROVE  IF ent'[r] = w.ino
             THEN /\ Tree'[r].kind = Tree[r].kind
                  /\ Tree[r].data = IF w.has_data THEN w.data ELSE Tree'[r].data
             ELSE Alike(Tree'[r], Tree[r])
  <2>1. /\ ent'[r] = ent[r]
        /\ ent[r] # ent[p] => Tree'[r] = Tree[r]
        /\ ent[r] = ent[p] => /\ Tree'[r].kind = Tree[r].kind
                              /\ Tree[r].data = inode[ent[p]].data
                              /\ Tree'[r].data = inode'[ent[p]].data
    BY <1>1, <1>2, EditedTree
  <2>2. CASE ent[r] # ent[p]  BY <1>2, <2>1, <2>2 DEF Alike
  <2>3. CASE ent[r] = ent[p] /\ w.has_data  BY <1>2, <2>1, <2>3
  <2>4. CASE ent[r] = ent[p] /\ ~w.has_data  BY <1>2, <1>4, <2>1, <2>4
  <2> QED  BY <2>2, <2>3, <2>4
<1>5. EditPending(w)'  BY <1>3, <1>4 DEF EditPending
<1>6. PendingAt(w, p)'  BY <1>2, <1>5 DEF PendingAt
<1> QED  BY <1>1, <1>2, <1>6, SavedPending

(* An unlink is pending.                                                   *)
LEMMA UnlinkSavedNext ==
  ASSUME UndoInv, NEW p \in Place, NEW w \in Version, UnlinkSaved(p, w)
  PROVE  Pending' /\ UndoExact'
<1>1. TypeOK /\ Stamped  BY DEF UndoInv
<1>2. /\ Remembers(w, p, {}) /\ w.op = "UNLINK" /\ ent[p] \in Inode
      /\ inode[ent[p]].kind = "file" /\ w.data = inode[ent[p]].data
      /\ \/ ent' = [ent EXCEPT ![p] = None] /\ inode' = Reap(ent', inode)
         \/ UNCHANGED <<inode, ent>>
  BY DEF UnlinkSaved
<1>3. undo'.tree = Tree  BY <1>1, <1>2, NewestPending
<1>4. Tree[p] = inode[ent[p]]  BY <1>1, <1>2, NameTypes, TreeAt
<1>5. \A r \in Place \ {p} : Tree'[r] = Tree[r]
  <2>1. CASE UNCHANGED <<inode, ent>>  BY <2>1 DEF Tree
  <2> QED  BY <1>1, <1>2, <2>1, RemovedTree
<1>6. UnlinkPending(w, p)'  BY <1>2, <1>3, <1>4, <1>5 DEF UnlinkPending, Alike
<1>7. PendingAt(w, p)'  BY <1>2, <1>6 DEF PendingAt
<1> QED  BY <1>1, <1>2, <1>7, SavedPending

(* A rename is pending.                                                    *)
LEMMA RenameSavedNext ==
  ASSUME UndoInv, NEW p \in Place, NEW q \in Place, NEW w \in Version, RenameSaved(p, q, w)
  PROVE  Pending' /\ UndoExact'
<1>1. TypeOK /\ Stamped  BY DEF UndoInv
<1>2. /\ Remembers(w, q, Replaced(p, q)) /\ w.op = "RENAME" /\ w.name = p[2]
      /\ p # q /\ ent[p] \in Inode /\ Renamed(p, q)
  BY DEF RenameSaved
<1>3. PICK b \in Place : b = <<q[1], p[2]>>  BY DEF Place
<1>4. PICK lost \in SUBSET Place : lost = Replaced(p, q)  BY LostNames
<1>5. undo'.tree = Tree /\ undo'.lost = lost  BY <1>1, <1>2, <1>4, NewestPending
<1>6. /\ p[1] # q[1] => {p, q, b} \subseteq lost
      /\ ent[q] \notin {None, ent[p]} => q \in lost
  BY <1>3, <1>4 DEF Replaced
<1>7. p[1] = q[1] => b = p  BY <1>3 DEF Place
<1>8. RenamePending(q, b)'
  <2>1. CASE ent[p] = ent[q] /\ ent' = ent /\ \A r \in Place : Tree'[r] = Tree[r]
    <3>1. \A r \in Place : Alike(Tree'[r], undo'.tree[r])  BY <1>5, <2>1 DEF Alike
    <3>2. CASE b \in {p, q}  BY <2>1, <3>1, <3>2 DEF RenamePending
    <3>3. CASE b \notin {p, q}
      <4>1. {q, b} \subseteq undo'.lost  BY <1>5, <1>6, <1>7, <3>3
      <4>2. q \in undo'.lost  BY <4>1
      <4> QED  BY <3>1, <3>3, <4>1, <4>2 DEF RenamePending
    <3> QED  BY <3>2, <3>3
  <2>2. CASE /\ ent[p] # ent[q] /\ p # q /\ ent'[p] = None /\ ent'[q] = ent[p]
             /\ \A r \in Place \ {p, q} : Tree'[r] = Tree[r]
             /\ Tree'[q] = Tree[p] /\ Tree'[p] = FreeInode
    <3>1. q \in lost \/ Tree[q] = FreeInode  BY <1>6, <2>2, TreeAt
    <3>2. CASE p[1] = q[1]
      <4>1. b = p  BY <1>7, <3>2
      <4>2. \A r \in Place \ {q, p} : Alike(Tree'[r], undo'.tree[r])
        BY <1>5, <2>2 DEF Alike
      <4>3. q \in undo'.lost \/ Alike(FreeInode, undo'.tree[q])
        BY <1>5, <3>1 DEF Alike
      <4>4. Alike(Tree'[q], undo'.tree[p])  BY <1>5, <2>2 DEF Alike
      <4> QED  BY <2>2, <4>1, <4>2, <4>3, <4>4 DEF RenamePending
    <3>3. CASE p[1] # q[1]
      <4>1. p \in undo'.lost /\ q \in undo'.lost /\ b \in undo'.lost  BY <1>5, <1>6, <3>3
      <4>2. \A r \in Place \ undo'.lost : Alike(Tree'[r], undo'.tree[r])
        BY <1>5, <2>2, <4>1 DEF Alike
      <4>3. CASE b = q  BY <4>2, <4>3 DEF RenamePending
      <4>4. CASE b # q  BY <4>1, <4>2, <4>4 DEF RenamePending
      <4> QED  BY <4>3, <4>4
    <3> QED  BY <3>2, <3>3
  <2> QED  BY <1>1, <1>2, <2>1, <2>2, MovedTree
<1>9. PendingAt(w, q)'  BY <1>2, <1>3, <1>8 DEF PendingAt
<1> QED  BY <1>1, <1>2, <1>9, SavedPending

(* A rename has failed and is pending.                                     *)
LEMMA RenameFailedNext ==
  ASSUME UndoInv, NEW p \in Place, NEW w \in Version, RenameFailed(p, w)
  PROVE  Pending' /\ UndoExact'
<1>1. TypeOK /\ Stamped  BY DEF UndoInv
<1>2. /\ Remembers(w, p, {}) /\ w.op = "RENAME" /\ w.name = p[2] /\ UNCHANGED <<inode, ent>>
  BY DEF RenameFailed
<1>3. undo'.tree = Tree  BY <1>1, <1>2, NewestPending
<1>4. \A r \in Place : Alike(Tree'[r], undo'.tree[r])  BY <1>2, <1>3 DEF Tree, Alike
<1>5. RenamePending(p, p)'  BY <1>4 DEF RenamePending
<1>6. p = <<p[1], w.name>>  BY <1>2 DEF Place
<1>7. PendingAt(w, p)'  BY <1>2, <1>5, <1>6 DEF PendingAt
<1> QED  BY <1>1, <1>2, <1>7, SavedPending

(* The rollback of an unlink brings everything back.                       *)
LEMMA UnlinkUndoneNext ==
  ASSUME UndoInv, NEW p \in Place, NEW v \in versions, NEW lost \in SUBSET Place,
         UnlinkUndone(p, v, lost)
  PROVE  Pending' /\ UndoExact'
<1>1. TypeOK /\ Live /\ Stamped /\ Pending  BY DEF UndoInv
<1>2. /\ Undoes(v, p, lost) /\ v.op = "UNLINK"
      /\ \/ \E i \in Inode, d \in Content : Made(p, i, "file", d) /\ (d = v.data \/ p \in lost)
         \/ p \in lost /\ UNCHANGED <<inode, ent>>
  BY DEF UnlinkUndone
<1>3. /\ UnlinkPending(v, p) /\ undo'.tree = undo.tree /\ undo'.lost = undo.lost \cup lost
  BY <1>1, <1>2, UndoneParts DEF PendingAt
<1>4. /\ \A r \in Place \ {p} : Tree'[r] = Tree[r]
      /\ p \in lost \/ (Tree'[p].kind = "file" /\ Tree'[p].data = v.data)
  <2>1. CASE p \in lost /\ UNCHANGED <<inode, ent>>  BY <2>1 DEF Tree
  <2> QED  BY <1>1, <1>2, <2>1, MadeTree
<1>5. \A r \in Place \ undo'.lost : Alike(Tree'[r], undo.tree[r])
  BY <1>3, <1>4 DEF UnlinkPending, Alike
<1>6. UnlinkPending(v, p)'  BY <1>3, <1>5 DEF UnlinkPending
<1>7. PendingAt(v, p)'  BY <1>2, <1>6 DEF PendingAt
<1> QED  BY <1>1, <1>2, <1>5, <1>7, UndonePending

(* The rollback of a write or a setattr does.                              *)
LEMMA EditUndoneNext ==
  ASSUME UndoInv, NEW p \in Place, NEW v \in versions, EditUndone(p, v)
  PROVE  Pending' /\ UndoExact'
<1>1. TypeOK /\ Stamped /\ Pending  BY DEF UndoInv
<1>2. /\ Undoes(v, p, {}) /\ v.op \in {"WRITE", "SETATTR"} /\ ent[p] \in Inode /\ v.ino = ent[p]
      /\ Edited(ent[p])
      /\ inode'[ent[p]].data = IF v.has_data THEN v.data ELSE inode[ent[p]].data
  BY DEF EditUndone
<1>3. EditPending(v) /\ undo'.tree = undo.tree /\ undo'.lost = undo.lost
  <2>1. PICK lost \in SUBSET Place : lost = {}  OBVIOUS
  <2>2. Undoes(v, p, lost)  BY <1>2, <2>1
  <2>3. PendingAt(v, p) /\ undo'.tree = undo.tree /\ undo'.lost = undo.lost \cup lost
    BY <1>1, <2>2, UndoneParts
  <2> QED  BY <1>2, <2>1, <2>3 DEF PendingAt
<1>4. ASSUME NEW r \in Place \ undo.lost
      PROVE  /\ Alike(Tree'[r], undo.tree[r])
             /\ ent'[r] = v.ino /\ v.has_data => Tree'[r].data = v.data
  <2>1. /\ ent'[r] = ent[r]
        /\ ent[r] # ent[p] => Tree'[r] = Tree[r]
        /\ ent[r] = ent[p] => /\ Tree'[r].kind = Tree[r].kind
                              /\ Tree[r].data = inode[ent[p]].data
                              /\ Tree'[r].data = inode'[ent[p]].data
    BY <1>1, <1>2, EditedTree
  <2>2. IF ent[r] = v.ino
        THEN /\ Tree[r].kind = undo.tree[r].kind
             /\ undo.tree[r].data = IF v.has_data THEN v.data ELSE Tree[r].data
        ELSE Alike(Tree[r], undo.tree[r])
    BY <1>3, <1>4 DEF EditPending
  <2>3. CASE ent[r] # ent[p]  BY <1>2, <2>1, <2>2, <2>3
  <2>4. CASE ent[r] = ent[p]  BY <1>2, <2>1, <2>2, <2>4 DEF Alike
  <2> QED  BY <2>3, <2>4
<1>5. EditPending(v)'  BY <1>3, <1>4 DEF EditPending, Alike
<1>6. PendingAt(v, p)'  BY <1>2, <1>5 DEF PendingAt
<1> QED  BY <1>1, <1>2, <1>3, <1>4, <1>6, UndonePending

(* The rollback of a rename does.                                          *)
LEMMA RenameUndoneNext ==
  ASSUME UndoInv, NEW p \in Place, NEW q \in Place, NEW v \in versions, RenameUndone(p, q, v)
  PROVE  Pending' /\ UndoExact'
<1>1. TypeOK /\ Stamped /\ Pending  BY DEF UndoInv
<1>2. /\ Undoes(v, p, {}) /\ v.op = "RENAME" /\ ent[p] \in Inode /\ q = <<p[1], v.name>>
      /\ Renamed(p, q)
  BY DEF RenameUndone
<1>3. RenamePending(p, q) /\ undo'.tree = undo.tree /\ undo'.lost = undo.lost
  <2>1. PICK lost \in SUBSET Place : lost = {}  OBVIOUS
  <2>2. Undoes(v, p, lost)  BY <1>2, <2>1
  <2>3. PendingAt(v, p) /\ undo'.tree = undo.tree /\ undo'.lost = undo.lost \cup lost
    BY <1>1, <2>2, UndoneParts
  <2> QED  BY <1>2, <2>1, <2>3 DEF PendingAt
<1>4. ent[p] # None  BY <1>1, <1>2, NameTypes
<1>5. (\A r \in Place \ undo.lost : Alike(Tree'[r], undo.tree[r])) /\ RenamePending(p, q)'
  <2>1. CASE ent[p] = ent[q] /\ ent' = ent /\ \A r \in Place : Tree'[r] = Tree[r]
    <3>1. \A r \in Place \ undo.lost : Alike(Tree'[r], undo.tree[r])
      BY <1>3, <1>4, <2>1 DEF RenamePending
    <3> QED  BY <1>3, <2>1, <3>1 DEF RenamePending
  <2>2. CASE /\ ent[p] # ent[q] /\ p # q /\ ent'[p] = None /\ ent'[q] = ent[p]
             /\ \A r \in Place \ {p, q} : Tree'[r] = Tree[r]
             /\ Tree'[q] = Tree[p] /\ Tree'[p] = FreeInode
    <3>1. /\ \A r \in Place \ ({p, q} \cup undo.lost) : Alike(Tree'[r], undo.tree[r])
          /\ p \in undo.lost \/ Alike(Tree'[p], undo.tree[p])
          /\ q \in undo.lost \/ Alike(Tree'[q], undo.tree[q])
      BY <1>3, <1>4, <2>2 DEF RenamePending
    <3>2. \A r \in Place \ undo.lost : Alike(Tree'[r], undo.tree[r])  BY <3>1
    <3>3. p \in undo.lost \/ Alike(FreeInode, undo.tree[p])  BY <2>2, <3>1
    <3>4. RenamePending(p, q)'  BY <1>3, <2>2, <3>2, <3>3 DEF RenamePending
    <3> QED  BY <3>2, <3>4
  <2> QED  BY <1>1, <1>2, <2>1, <2>2, MovedTree
<1>6. PendingAt(v, p)'  BY <1>2, <1>5 DEF PendingAt
<1> QED  BY <1>1, <1>2, <1>3, <1>5, <1>6, UndonePending

(* Every step preserves UndoInv.                                           *)
LEMMA UndoNext == UndoInv /\ [Next]_vars => UndoInv'
<1> SUFFICES ASSUME UndoInv, [Next]_vars PROVE UndoInv'  OBVIOUS
<1>1. TypeOK /\ Live /\ Stamped /\ Pending /\ UndoExact  BY DEF UndoInv
<1>2. TypeOK'  BY <1>1, TypeNext
<1>3. Live' /\ Stamped'  BY <1>1, LiveNext, StampedNext
<1>4. Pending' /\ UndoExact'
  <2>1. CASE Idle
    BY <1>1, <2>1
       DEF Idle, Pending, PendingAt, EditPending, UnlinkPending, RenamePending, UndoExact, Tree
  <2>2. CASE Forgets  BY <1>1, <2>2, NothingPending DEF Forgets, Pending, UndoExact
  <2> QED
    BY <1>1, <2>1, <2>2, UndoSteps, EditSavedNext, UnlinkSavedNext, RenameSavedNext,
       RenameFailedNext, UnlinkUndoneNext, EditUndoneNext, RenameUndoneNext
<1> QED  BY <1>2, <1>3, <1>4 DEF UndoInv

(* At first nothing has been done.                                         *)
LEMMA UndoInit == Init => UndoInv
<1> SUFFICES ASSUME Init PROVE UndoInv  OBVIOUS
<1>1. TypeOK  BY TruthInit DEF TruthInv
<1>2. versions = {} /\ report = "none"  BY Zenon DEF Init
<1>3. Live
  <2>1. CASE \A q \in Place : ent[q] = None  BY <2>1 DEF Live
  <2>2. ASSUME NEW d \in Inode, NEW f \in Inode, NEW n \in Name, NEW p \in Place,
               \A q \in Place : \/ q = p /\ ent[q] = f
                                \/ q = <<Root, n>> /\ ent[q] = d
                                \/ q \notin {p, <<Root, n>>} /\ ent[q] = None,
               \A i \in Inode : \/ i = d /\ inode[i] = [FreeInode EXCEPT !.kind = "dir"]
                                \/ i = f /\ inode[i] = [FreeInode EXCEPT !.kind = "file"]
                                \/ i \notin {d, f} /\ inode[i] = FreeInode
        PROVE  Live
    <3>1. /\ [FreeInode EXCEPT !.kind = "dir"].kind = "dir"
          /\ [FreeInode EXCEPT !.kind = "file"].kind = "file"
      BY DEF FreeInode
    <3>2. inode[d].kind # "free" /\ inode[f].kind # "free"  BY <2>2, <3>1
    <3> QED  BY <2>2, <3>2 DEF Live
  <2> QED  BY <2>1, <2>2, InitTree
<1> QED  BY <1>1, <1>2, <1>3 DEF UndoInv, Stamped, Pending, UndoExact

(* Rolling back the last operation at the path where it left the file      *)
(* brings back every name and every content that there was before it,      *)
(* whatever users do, whatever inode numbers the lower file system gives   *)
(* out and whatever it refuses, except at the names where the code has     *)
(* lost it (undo.lost; cowfs_ctl_ioctl, rollback_deleted).                 *)
THEOREM UndoCorrect == Spec => []UndoExact
<1>1. UndoInv => UndoExact  BY DEF UndoInv
<1> QED  BY <1>1, UndoInit, UndoNext, PTL DEF Spec

=============================================================================
