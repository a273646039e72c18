---------------------------- MODULE CowNamespace ----------------------------
(***************************************************************************)
(* The two name spaces of cowfs and the rollback of an operation           *)
(* (kernel/cowfs_inode.c, kernel/cowfs_ctl.c): the directories and inodes  *)
(* of the lower file system, and above them the dentries and inodes that   *)
(* the VFS caches for cowfs.  One operation is one step: what two threads  *)
(* do to the version table at once is the subject of CowVersions, where    *)
(* versions are also evicted and collected.                                *)
(*                                                                         *)
(* Names are pairs of a directory's inode and a file name.  A directory is *)
(* made in the root only, so that trees are two levels deep.               *)
(***************************************************************************)
EXTENDS Integers, FiniteSets

CONSTANTS
  Inode,    \* the inode numbers the lower file system gives out
  Root,     \* the root directory's number
  Name,     \* file names
  Bits,     \* permission bits
  Umask,    \* those the lower file system takes from a new file
  Uses,     \* what users and the lower file system do, of UseKinds
  MaxTime,  \* bound on the number of operations
  None      \* no inode

(* A file or a directory renamed onto another one; a move into another     *)
(* directory; ln and ln -s; a number given out again; a version that cannot *)
(* be allocated or copied; no memory for an upper inode or a lower dentry;  *)
(* a lower file system that refuses; a restore that fails.                 *)
UseKinds == {"replace", "replacedir", "cross", "link", "reuse",
             "nosave", "nomem", "lowerfail", "norestore"}

ASSUME NamespaceAssumption ==
  /\ Uses \subseteq UseKinds
  /\ Root \notin Inode
  /\ None \notin Inode \cup {Root}
  /\ {"uncached", "negative"} \cap Inode = {}
  /\ Umask \subseteq Bits
  /\ MaxTime \in Nat

Dir == Inode \cup {Root}
Place == Dir \X Name
Mode == SUBSET Bits
Kind == {"free", "file", "dir", "link"}

VARIABLES
  time,      \* the clock: one tick for each operation
  used,      \* the numbers given out so far
  inode,     \* the lower inodes: type, mode and content
  ent,       \* the entries of the lower directories
  icache,    \* the upper inodes in the inode cache: type and mode, or None
  dcache,    \* the upper dentries: uncached, negative, or their inode
  versions,  \* the version table
  undo,      \* the last operation that was saved: its version, where it can
             \* be rolled back, the tree as it was before, and the names at
             \* which it cannot be brought back
  report     \* whether the last step has rolled that operation back

fsVars == <<used, inode, ent>>
cacheVars == <<icache, dcache>>
vars == <<time, used, inode, ent, icache, dcache, versions, undo, report>>

-----------------------------------------------------------------------------

(* Content: the operation that has written it, or 0 for an empty file.     *)
Content == 0..MaxTime
Node == [kind : Kind, mode : Mode, data : Content]
FreeInode == [kind |-> "free", mode |-> {}, data |-> 0]
NoUndo == [ts |-> 0, place |-> <<Root, None>>, tree |-> <<>>, lost |-> {}]

Version == [ts : 1..MaxTime, ino : Inode, op : {"WRITE", "UNLINK", "RENAME", "SETATTR"},
            name : Name, has_data : BOOLEAN, data : Content, mode : Mode]

Undo == [ts : 0..MaxTime, place : Place \cup {<<Root, None>>},
         tree : [Place -> Node] \cup {<<>>}, lost : SUBSET Place]

Reports == {"none", "undone"}

TypeOK ==
  /\ time \in 0..MaxTime
  /\ used \subseteq Inode
  /\ inode \in [Inode -> Node]
  /\ ent \in [Place -> Inode \cup {None}]
  /\ icache \in [Inode -> [kind : Kind, mode : Mode]]
  /\ dcache \in [Place -> Inode \cup {"uncached", "negative"}]
  /\ versions \subseteq Version
  /\ undo \in Undo
  /\ report \in Reports

(* A fresh mount of an empty lower directory, or of one with a directory   *)
(* and a file in it.                                                       *)
Init ==
  /\ time = 0
  /\ \/ /\ used = {}
        /\ ent = [p \in Place |-> None]
        /\ inode = [i \in Inode |-> FreeInode]
     \/ \E d, f \in Inode, n \in Name, p \in Place :
          /\ d # f
          /\ p \in {Root, d} \X Name \ {<<Root, n>>}
          /\ used = {d, f}
          /\ ent = [q \in Place |-> CASE q = p         -> f
                                     [] q = <<Root, n>> -> d
                                     [] OTHER           -> None]
          /\ inode = [i \in Inode |-> CASE i = d   -> [FreeInode EXCEPT !.kind = "dir"]
                                         [] i = f   -> [FreeInode EXCEPT !.kind = "file"]
                                         [] OTHER -> FreeInode]
  /\ icache = [i \in Inode |-> [kind |-> "free", mode |-> {}]]
  /\ dcache = [p \in Place |-> "uncached"]
  /\ versions = {}
  /\ undo = NoUndo
  /\ report = "none"

-----------------------------------------------------------------------------
(* The lower file system.  It is not part of cowfs: what its operations do *)
(* is what cowfs relies on.                                                *)

(* A call succeeds, or fails for a reason that is among the uses.          *)
Outcomes(failure) == {TRUE} \cup {FALSE : u \in Uses \cap {failure}}

(* What a user sees of the lower tree.                                     *)
Tree == [p \in Place |-> IF ent[p] = None THEN FreeInode ELSE inode[ent[p]]]

Linked(e) == {e[p] : p \in Place}

(* An inode that no entry names is freed.                                  *)
Reap(e, ino) == [i \in Inode |-> IF i \in Linked(e) THEN ino[i] ELSE FreeInode]

Empty(d) == \A n \in Name : ent[<<d, n>>] = None

FreshNumber(i) ==
  /\ inode[i].kind = "free"
  /\ i \in used => "reuse" \in Uses

(* vfs_create, vfs_mkdir, vfs_symlink at a name that does not exist.       *)
LowerMake(p, i, k, m, d) ==
  /\ ent' = [ent EXCEPT ![p] = i]
  /\ inode' = [inode EXCEPT ![i] = [kind |-> k, mode |-> m \ Umask, data |-> d]]
  /\ used' = used \cup {i}

(* vfs_unlink, vfs_rmdir.                                                  *)
LowerRemove(p) ==
  LET e == [ent EXCEPT ![p] = None] IN
  /\ ent' = e
  /\ inode' = Reap(e, inode)
  /\ UNCHANGED used

(* vfs_rename fails when it would put a directory in place of something    *)
(* else or the other way round; between two names of one inode it does     *)
(* nothing.                                                                *)
LowerRenames(p, q) ==
  ent[q] \notin {None, ent[p]} =>
    /\ (inode[ent[p]].kind = "dir") <=> (inode[ent[q]].kind = "dir")
    /\ inode[ent[q]].kind = "dir" => Empty(ent[q])

LowerRename(p, q) ==
  LET e == IF ent[p] = ent[q] THEN ent
                              ELSE [ent EXCEPT ![q] = ent[p], ![p] = None] IN
  /\ ent' = e
  /\ inode' = Reap(e, inode)
  /\ UNCHANGED used

-----------------------------------------------------------------------------
(* The upper caches.                                                       *)

Cached(i) == icache[i].kind # "free"

(* cowfs_get_inode: iget_locked finds an inode of that number, which is    *)
(* returned as it is, or makes one that is filled in from the lower inode. *)
(* There may be no memory for one: see Makes.                              *)
GetInode_FilesOnly(i, low) ==
  IF Cached(i) THEN icache ELSE [icache EXCEPT ![i] = [kind |-> "file", mode |-> low.mode]]
GetInode(i, low) ==
  IF Cached(i) THEN icache ELSE [icache EXCEPT ![i] = [kind |-> low.kind, mode |-> low.mode]]

(* d_drop: a dropped directory takes the dentries below it along.          *)
Drop(dc, S) ==
  [p \in Place |-> IF p \in S \/ \E q \in S : dc[q] = p[1] THEN "uncached" ELSE dc[p]]

(* A path walk gets to a directory through positive dentries.              *)
Walkable(d) ==
  d # Root => icache[d].kind = "dir" /\ \E n \in Name : dcache[<<Root, n>>] = d

Negative(p) == dcache[p] = "negative" /\ Walkable(p[1])

(* The operations of an upper inode are those of the type it was made for. *)
Positive(p, kinds) ==
  /\ dcache[p] \in Inode
  /\ Walkable(p[1])
  /\ icache[dcache[p]].kind \in kinds
  /\ ent[p] # None
  /\ inode[ent[p]].kind = icache[dcache[p]].kind

(* lookup_one_len and d_add.  A lookup that runs out of memory leaves no   *)
(* dentry and changes nothing.                                             *)
LookedUp_NoCheck(p) == ent[p]
LookedUp(p) == IF ent[p] = None THEN "negative" ELSE ent[p]

cowfs_lookup(p) ==
  /\ dcache[p] = "uncached"
  /\ Walkable(p[1])
  /\ dcache' = [dcache EXCEPT ![p] = LookedUp(p)]
  /\ icache' = IF ent[p] = None THEN icache ELSE GetInode(ent[p], inode[ent[p]])
  /\ report' = "none"
  /\ UNCHANGED <<time, fsVars, versions, undo>>

(* The kernel reclaims an unused dentry (cowfs_d_release) or inode.        *)
ReclaimDentry(p) ==
  /\ dcache[p] # "uncached"
  /\ \A n \in Name : dcache[p] \in Inode => dcache[<<dcache[p], n>>] = "uncached"
  /\ dcache' = [dcache EXCEPT ![p] = "uncached"]
  /\ report' = "none"
  /\ UNCHANGED <<time, fsVars, icache, versions, undo>>

ReclaimInode(i) ==
  /\ Cached(i)
  /\ \A p \in Place : dcache[p] # i
  /\ icache' = [icache EXCEPT ![i] = [kind |-> "free", mode |-> {}]]
  /\ report' = "none"
  /\ UNCHANGED <<time, fsVars, dcache, versions, undo>>

-----------------------------------------------------------------------------
(* Operations that make names.                                             *)

Ticks == time < MaxTime /\ time' = time + 1

(* No version is added.                                                    *)
Unsaved ==
  /\ Ticks
  /\ undo' = NoUndo
  /\ report' = "none"
  /\ UNCHANGED versions

(* vfs_create or vfs_mkdir, and the dentry gets its inode.  When there is  *)
(* no memory for one the call returns an error, but the name exists by     *)
(* then, under a dentry that says it does not.                             *)
Makes(p, k, m, seen) ==
  /\ Unsaved
  /\ Negative(p)
  /\ ent[p] = None
  /\ \E i \in Inode :
       /\ FreshNumber(i)
       /\ LowerMake(p, i, k, m, 0)
       /\ \/ /\ seen
             /\ icache' = GetInode(i, [kind |-> k, mode |-> m \ Umask])
             /\ dcache' = [dcache EXCEPT ![p] = i]
          \/ /\ ~seen
             /\ ~Cached(i)
             /\ UNCHANGED cacheVars

(* When vfs_create or vfs_mkdir fails nothing changes: a negative dentry   *)
(* over a name that exists gets EEXIST.  The same goes for vfs_symlink,    *)
(* vfs_link and vfs_rmdir.                                                 *)
cowfs_create(p, m) == \E seen \in Outcomes("nomem") : Makes(p, "file", m, seen)

cowfs_mkdir(p, m) == p[1] = Root /\ \E seen \in Outcomes("nomem") : Makes(p, "dir", m, seen)

(* Neither symlink nor link instantiates the new dentry.                   *)
cowfs_symlink(p) ==
  /\ "link" \in Uses
  /\ Unsaved
  /\ Negative(p)
  /\ ent[p] = None
  /\ \E i \in Inode : FreshNumber(i) /\ LowerMake(p, i, "link", Bits, 0)
  /\ UNCHANGED cacheVars

cowfs_link(p, q) ==
  /\ "link" \in Uses
  /\ Unsaved
  /\ Positive(p, {"file"})
  /\ Negative(q)
  /\ ent[q] = None
  /\ ent' = [ent EXCEPT ![q] = ent[p]]
  /\ UNCHANGED <<used, inode, cacheVars>>

(* A directory is not versioned.                                           *)
cowfs_rmdir(p) ==
  /\ Unsaved
  /\ Positive(p, {"dir"})
  /\ Empty(ent[p])
  /\ LowerRemove(p)
  /\ dcache' = Drop(dcache, {p})
  /\ UNCHANGED icache

-----------------------------------------------------------------------------
(* Operations that save a version first.                                   *)

(* The version of an operation on p.  Only UNLINK and RENAME record a name. *)
Saved(op, p, has_data) ==
  [ts |-> time + 1, ino |-> ent[p], op |-> op, name |-> p[2],
   has_data |-> has_data,
   data |-> IF has_data THEN inode[ent[p]].data ELSE 0,
   mode |-> inode[ent[p]].mode]

(* at is the path by which the operation can be rolled back; at the names  *)
(* in lost, no rollback brings back what was there.                        *)
Saves(v, at, lost) ==
  /\ Ticks
  /\ versions' = versions \cup {v}
  /\ undo' = [ts |-> v.ts, place |-> at, tree |-> Tree, lost |-> lost]
  /\ report' = "none"

(* There is no memory for a version, or its file could not be copied: it   *)
(* is freed, and the operation goes on without one.                        *)
NotSaved == "nosave" \in Uses /\ Unsaved

(* An open, a first write and a close.                                     *)
cowfs_write(p) ==
  /\ Positive(p, {"file"})
  /\ Saves(Saved("WRITE", p, TRUE), p, {}) \/ NotSaved
  /\ \/ inode' = [inode EXCEPT ![ent[p]].data = time + 1]
     \/ "lowerfail" \in Uses /\ UNCHANGED inode
  /\ UNCHANGED <<used, ent, cacheVars>>

SetattrData_Forgotten(size) == FALSE
SetattrData(size) == size

(* The upper inode follows the lower one.                                  *)
AfterSetattr_Kept(p, mode) == icache
AfterSetattr(p, mode) == [icache EXCEPT ![dcache[p]].mode = mode]

(* The names of the file at p, whose content is gone when it is truncated  *)
(* and could not be copied.                                                *)
Uncopied(p, gone) == {q \in Place : gone /\ ent[q] = ent[p]}

(* chmod, or a truncation.  A truncation that could not be copied is       *)
(* recorded in a version without content.                                  *)
cowfs_setattr(p, m, size) ==
  \E copied \in Outcomes("nosave"), done \in Outcomes("lowerfail") :
    /\ Positive(p, IF size THEN {"file"} ELSE {"file", "dir"})
    /\ \/ Saves(Saved("SETATTR", p, SetattrData(size) /\ copied), p,
                Uncopied(p, size /\ done /\ ~copied))
       \/ NotSaved
    /\ \/ /\ done
          /\ inode' = IF size THEN [inode EXCEPT ![ent[p]].data = 0]
                              ELSE [inode EXCEPT ![ent[p]].mode = m]
          /\ icache' = AfterSetattr(p, inode'[ent[p]].mode)
       \/ /\ ~done
          /\ UNCHANGED <<inode, icache>>
    /\ UNCHANGED <<used, ent, dcache>>

(* A symbolic link cannot be opened for copying and goes without a version. *)
AfterUnlink_Kept(p) == dcache
AfterUnlink(p) == Drop(dcache, {p})

cowfs_unlink(p) ==
  /\ Positive(p, {"file", "link"})
  /\ \/ inode[ent[p]].kind = "file" /\ Saves(Saved("UNLINK", p, TRUE), p, {})
     \/ inode[ent[p]].kind = "link" /\ Unsaved
     \/ NotSaved
  /\ \/ LowerRemove(p) /\ dcache' = AfterUnlink(p)
     \/ "lowerfail" \in Uses /\ UNCHANGED <<fsVars, dcache>>
  /\ UNCHANGED icache

(* The names that the rollback of a rename leaves without what they had:   *)
(* there is no version of the file that is replaced, and the rollback      *)
(* knows the old name but not the old directory.                           *)
Replaced(p, q) ==
  {r \in {q} : ent[q] \notin {None, ent[p]}}
    \cup {r \in {p, q, <<q[1], p[2]>>} : p[1] # q[1]}

(* The VFS moves the upper dentry once cowfs_rename has succeeded; the one *)
(* it replaces is gone.                                                    *)
cowfs_rename(p, q) ==
  /\ Positive(p, {"file", "dir", "link"})
  /\ p # q
  /\ \/ Negative(q)
     \/ /\ dcache[q] # dcache[p]
        /\ \/ /\ "replace" \in Uses
              /\ Positive(p, {"file", "link"})
              /\ Positive(q, {"file", "link"})
           \/ /\ "replacedir" \in Uses
              /\ Positive(p, {"dir"})
              /\ Positive(q, {"dir"})
  /\ p[1] # q[1] => "cross" \in Uses /\ inode[ent[p]].kind # "dir"
  /\ \/ /\ LowerRenames(p, q)
        /\ Saves(Saved("RENAME", p, FALSE), q, Replaced(p, q)) \/ NotSaved
        /\ LowerRename(p, q)
        /\ dcache' = [dcache EXCEPT ![q] = dcache[p], ![p] = "uncached"]
     \/ /\ ~LowerRenames(p, q) \/ "lowerfail" \in Uses
        /\ Saves(Saved("RENAME", p, FALSE), p, {}) \/ NotSaved
        /\ UNCHANGED <<fsVars, dcache>>
  /\ UNCHANGED icache

-----------------------------------------------------------------------------
(* COWFS_IOC_ROLLBACK.                                                     *)

(* The ioctl returns: is it the last operation, at its path, that has been *)
(* rolled back?  It may say so without having brought back what was at the *)
(* names in lost.                                                          *)
Succeeds(v, at, lost) ==
  \/ /\ v.ts = undo.ts /\ at = undo.place
     /\ report' = "undone"
     /\ undo' = [undo EXCEPT !.lost = @ \cup lost]
  \/ /\ ~(v.ts = undo.ts /\ at = undo.place)
     /\ report' = "none"
     /\ undo' = NoUndo

Fails == report' = "none" /\ undo' = NoUndo

(* vfs_create of the name with the saved mode, then the content.  What the *)
(* restore returns is ignored, and it truncates the file before it copies. *)
Recreate(v, at) ==
  \/ /\ ent[at] = None
     /\ \E i \in Inode, restored \in Outcomes("norestore") :
          /\ FreshNumber(i)
          /\ LowerMake(at, i, "file", v.mode, IF restored THEN v.data ELSE 0)
          /\ Succeeds(v, at, {q \in {at} : ~restored})
  \/ /\ ent[at] # None \/ "lowerfail" \in Uses
     /\ Fails
     /\ UNCHANGED fsVars

(* rollback_deleted: the path does not exist, the newest UNLINK version of *)
(* its last component is taken, and the stale dentry is dropped.           *)
Deleted(n, ts) == {v \in versions : v.op = "UNLINK" /\ v.name = n /\ (ts = 0 \/ v.ts = ts)}

DropStale_Never(p) == dcache
DropStale(p) == Drop(dcache, {p})

rollback_deleted(p, ts) ==
  /\ Negative(p)
  /\ \E v \in Deleted(p[2], ts) :
       /\ \A w \in Deleted(p[2], ts) : w.ts <= v.ts
       /\ Recreate(v, p)
  /\ dcache' = DropStale(p)
  /\ UNCHANGED <<time, icache, versions>>

(* The version of the path's inode that cowfs_version_find returns.        *)
Found(p, ts) ==
  {v \in versions : /\ v.ino = ent[p]
                    /\ ts = 0 \/ v.ts = ts
                    /\ ts = 0 => \A w \in versions : w.ino = v.ino => w.ts <= v.ts}

Rollback(p, ts, ops) ==
  /\ Positive(p, {"file", "dir"})
  /\ Found(p, ts) # {}
  /\ \A v \in Found(p, ts) : v.op \in ops
  /\ UNCHANGED <<time, versions>>

(* The path's inode has an UNLINK version: the name it had is made anew    *)
(* beside the path.  The dentry of that name is left as it is.  When the   *)
(* name cannot be looked up the ioctl returns 0 all the same.              *)
RollbackUnlink(p, ts) ==
  /\ Rollback(p, ts, {"UNLINK"})
  /\ \E v \in Found(p, ts) :
       LET at == <<p[1], v.name>> IN
       \/ Recreate(v, at)
       \/ /\ "nomem" \in Uses
          /\ Succeeds(v, at, {at})
          /\ UNCHANGED fsVars
  /\ UNCHANGED cacheVars

(* What notify_change returns is ignored.                                  *)
RestoredModes(v, m) ==
  {r \in {v.mode} : v.op = "SETATTR"} \cup {r \in {m} : v.op # "SETATTR" \/ "lowerfail" \in Uses}

(* Content, and for a truncation the attributes too.  The upper inode is   *)
(* left as it is.                                                          *)
RollbackData(p, ts) ==
  /\ Rollback(p, ts, {"WRITE", "SETATTR"})
  /\ \E v \in Found(p, ts) :
       /\ v.has_data
       /\ \/ /\ \E m \in RestoredModes(v, inode[ent[p]].mode) :
                  inode' = [inode EXCEPT ![ent[p]].data = v.data, ![ent[p]].mode = m]
             /\ Succeeds(v, p, {})
          \/ /\ "norestore" \in Uses
             /\ \E d \in {0, inode[ent[p]].data} :
                  inode' = [inode EXCEPT ![ent[p]].data = d]
             /\ Fails
  /\ UNCHANGED <<used, ent, cacheVars>>

RollbackSetattr(p, ts) ==
  /\ Rollback(p, ts, {"SETATTR"})
  /\ \E v \in Found(p, ts) :
       /\ ~v.has_data
       /\ \E m \in RestoredModes(v, inode[ent[p]].mode) :
            inode' = [inode EXCEPT ![ent[p]].mode = m]
       /\ Succeeds(v, p, {})
  /\ UNCHANGED <<used, ent, cacheVars>>

(* The file gets its name back in the directory where it is now.           *)
AfterRollback_Kept(p, q) == dcache
AfterRollback(p, q) == Drop(dcache, {p, q})

RollbackRename(p, ts) ==
  /\ Rollback(p, ts, {"RENAME"})
  /\ \E v \in Found(p, ts) :
       LET q == <<p[1], v.name>> IN
       \/ /\ LowerRenames(p, q)
          /\ LowerRename(p, q)
          /\ dcache' = AfterRollback(p, q)
          /\ Succeeds(v, p, {})
       \/ /\ ~LowerRenames(p, q) \/ "lowerfail" \in Uses
          /\ Fails
          /\ UNCHANGED <<fsVars, dcache>>
  /\ UNCHANGED icache

-----------------------------------------------------------------------------

Operation(p) ==
  \/ \E m \in Mode : cowfs_create(p, m) \/ cowfs_mkdir(p, m) \/ cowfs_setattr(p, m, FALSE)
  \/ cowfs_setattr(p, {}, TRUE)
  \/ cowfs_symlink(p)
  \/ cowfs_rmdir(p)
  \/ cowfs_write(p)
  \/ cowfs_unlink(p)
  \/ \E q \in Place : cowfs_link(p, q) \/ cowfs_rename(p, q)

Ioctl(p, ts) ==
  \/ rollback_deleted(p, ts)
  \/ RollbackUnlink(p, ts)
  \/ RollbackData(p, ts)
  \/ RollbackSetattr(p, ts)
  \/ RollbackRename(p, ts)

Next ==
  \/ \E p \in Place : cowfs_lookup(p) \/ ReclaimDentry(p) \/ Operation(p)
  \/ \E p \in Place, ts \in 0..MaxTime : Ioctl(p, ts)
  \/ \E i \in Inode : ReclaimInode(i)

Spec == Init /\ [][Next]_vars

-----------------------------------------------------------------------------
(* Properties.                                                             *)

(* A name that the VFS has cached leads to the file that has this name in  *)
(* the lower file system: unlink, rmdir, rename and the rollbacks drop or  *)
(* move every dentry whose lower name they change.                         *)
PositiveTruthful == \A p \in Place : dcache[p] \in Inode => ent[p] = dcache[p]

(* A name that is made is not left under a dentry that says it is missing, *)
(* but for the cases in which the code does so: symlink and link, a create *)
(* or mkdir without memory for the upper inode, and the rollback of an     *)
(* unlink through another path (cowfs_create, cowfs_mkdir,                 *)
(* rollback_deleted, the rollback of a rename).                            *)
StaysNegative(p) ==
  dcache[p] = "negative" /\ dcache'[p] = "negative" /\ ent[p] = None /\ ent'[p] # None

LeavesNegative(p) ==
  \/ cowfs_symlink(p)
  \/ \E q \in Place : cowfs_link(q, p)
  \/ \E k \in {"file", "dir"}, m \in Mode : Makes(p, k, m, FALSE)
  \/ \E q \in Place, ts \in 0..MaxTime : RollbackUnlink(q, ts)

NegativeKept == [][\A p \in Place : StaysNegative(p) => LeavesNegative(p)]_vars

(* An upper inode has the operations of the lower inode's type             *)
(* (cowfs_get_inode).                                                      *)
KindAgrees ==
  \A p \in Place : dcache[p] \in Inode /\ ent[p] # None
                     => icache[dcache[p]].kind = inode[ent[p]].kind

(* Rolling back the last operation at the path where it left the file      *)
(* brings back every name and every content that there was before it,      *)
(* whatever was looked up, reclaimed or rolled back in between, except at  *)
(* the names where the code has lost it: those of a file truncated without *)
(* a copy, of a file replaced or moved to another directory by a rename,   *)
(* and one made anew whose content was not restored (cowfs_ctl_ioctl,      *)
(* rollback_deleted).                                                      *)
UndoExact ==
  report = "undone" =>
    \A p \in Place \ undo.lost : /\ Tree[p].kind = undo.tree[p].kind
                                 /\ Tree[p].data = undo.tree[p].data

(* The VFS checks permissions by the upper inode, which once it agrees     *)
(* with the lower one goes on doing so through every operation, failed or  *)
(* not (cowfs_get_inode, cowfs_setattr).  Only the rollback of a setattr   *)
(* changes the lower mode alone.                                           *)
Follows(i) ==
  Cached(i) /\ inode[i].kind # "free" => icache[i].mode = inode[i].mode

ModeFollows ==
  [][(\A i \in Inode : Follows(i) => Follows(i)')
       \/ \E p \in Place, ts \in 0..MaxTime :
            /\ RollbackSetattr(p, ts) \/ RollbackData(p, ts)
            /\ \A v \in Found(p, ts) : v.op = "SETATTR"]_vars
=============================================================================
