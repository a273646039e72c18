------------------------------ MODULE CowMount ------------------------------
(***************************************************************************)
(* Loading, mounting, unmounting and unloading (kernel/cowfs_main.c,       *)
(* kernel/cowfs_super.c), and what cowfs holds on to meanwhile: references *)
(* to the lower mount and to lower dentries (cowfs_lookup, cowfs_d_release,*)
(* cowfs_shadow_init, cowfs_shadow_cleanup), and the collector's work item.*)
(* There is one mount at a time, as the comment in cowfs_shadow.c says.    *)
(***************************************************************************)
EXTENDS Integers, FiniteSets

CONSTANTS
  Name,        \* names that are looked up
  MaxMounts,   \* bound on the number of mounts
  MaxLookups,  \* bound on the number of lookups
  Faults       \* what may fail, of FaultKinds

FaultKinds == {"init", "mount", "shadow", "lookup"}

ASSUME MountAssumption ==
  /\ MaxMounts \in Nat
  /\ MaxLookups \in Nat
  /\ Faults \subseteq FaultKinds
  /\ Name \cap {"mnt", "root", "shadow"} = {}

VARIABLES
  mod,      \* how far loading or unloading has got
  table,    \* whether the version table exists
  device,   \* whether /dev/cowfs_ctl is registered
  fs,       \* whether the file system is registered
  armed,    \* whether the work item is queued
  gc,       \* whether the collector runs, and uses the shadow directory
  sb,       \* how far mounting or unmounting has got
  refs,     \* the references cowfs has taken and not put
  infos,    \* the root dentries' cowfs_dentry_info that were never freed
  looking,  \* names whose lookup is under way
  dents,    \* names with an upper dentry
  valid,    \* cowfs_shadow_dirpath_valid
  mounts,   \* how many mounts were tried
  lookups   \* how many names were looked up

modVars == <<mod, table, device, fs>>
gcVars == <<armed, gc>>
sbVars == <<sb, refs, infos, looking, dents, valid, mounts, lookups>>
vars == <<mod, table, device, fs, armed, gc, sb, refs, infos, looking, dents, valid,
          mounts, lookups>>

-----------------------------------------------------------------------------

Lower == {"mnt", "root", "shadow"} \cup Name

TypeOK ==
  /\ mod \in {"unloaded", "table", "device", "live", "exit", "destroying"}
  /\ table \in BOOLEAN
  /\ device \in BOOLEAN
  /\ fs \in BOOLEAN
  /\ armed \in BOOLEAN
  /\ gc \in {"idle", "running", "using"}
  /\ sb \in {"none", "sbi", "root", "shadow", "mounted", "shrink", "cleanup", "put"}
  /\ refs \in [Lower -> Int]
  /\ \A x \in Lower \ {"mnt"} : refs[x] \in Nat
  /\ infos \in Nat
  /\ looking \subseteq Name
  /\ dents \subseteq Name
  /\ valid \in BOOLEAN
  /\ mounts \in 0..MaxMounts
  /\ lookups \in 0..MaxLookups

Init ==
  /\ mod = "unloaded"
  /\ table = FALSE
  /\ device = FALSE
  /\ fs = FALSE
  /\ armed = FALSE
  /\ gc = "idle"
  /\ sb = "none"
  /\ refs = [x \in Lower |-> 0]
  /\ infos = 0
  /\ looking = {}
  /\ dents = {}
  /\ valid = FALSE
  /\ mounts = 0
  /\ lookups = 0

-----------------------------------------------------------------------------
(* cowfs_init and cowfs_exit.                                              *)

(* cowfs_versions_init schedules the work.  (If it fails nothing is left.) *)
InitTable ==
  /\ mod = "unloaded"
  /\ mod' = "table"
  /\ table' = TRUE
  /\ armed' = TRUE
  /\ UNCHANGED <<device, fs, gc, sbVars>>

InitDevice ==
  /\ mod = "table"
  /\ mod' = "device"
  /\ device' = TRUE
  /\ UNCHANGED <<table, fs, gcVars, sbVars>>

InitRegister ==
  /\ mod = "device"
  /\ mod' = "live"
  /\ fs' = TRUE
  /\ UNCHANGED <<table, device, gcVars, sbVars>>

(* The device or the file system cannot be registered.                     *)
InitFails ==
  /\ "init" \in Faults
  /\ mod \in {"table", "device"}
  /\ mod' = "destroying"
  /\ device' = FALSE
  /\ armed' = FALSE
  /\ UNCHANGED <<table, fs, gc, sbVars>>

(* The module is in use as long as something is mounted.                   *)
cowfs_exit ==
  /\ mod = "live"
  /\ sb = "none"
  /\ mod' = "exit"
  /\ fs' = FALSE
  /\ UNCHANGED <<table, device, gcVars, sbVars>>

ExitDevice ==
  /\ mod = "exit"
  /\ mod' = "destroying"
  /\ device' = FALSE
  /\ armed' = FALSE
  /\ UNCHANGED <<table, fs, gc, sbVars>>

(* cancel_delayed_work_sync waits for a running work item and keeps it     *)
(* from queueing itself again.                                             *)
Cancelled_NoWait == TRUE
Cancelled == gc = "idle"

cowfs_versions_destroy ==
  /\ mod = "destroying"
  /\ Cancelled
  /\ mod' = "unloaded"
  /\ table' = FALSE
  /\ UNCHANGED <<device, fs, gcVars, sbVars>>

-----------------------------------------------------------------------------
(* The collector.                                                          *)

gc_worker ==
  /\ armed
  /\ armed' = FALSE
  /\ gc' = "running"
  /\ UNCHANGED <<modVars, sbVars>>

(* cowfs_shadow_remove: the flag is tested, then the dentry is used.       *)
GcUsesShadowDir ==
  /\ gc = "running"
  /\ valid
  /\ gc' = "using"
  /\ UNCHANGED <<modVars, armed, sbVars>>

Rearmed_Always == TRUE
Rearmed == mod # "destroying"

GcEnds ==
  /\ gc # "idle"
  /\ gc' = "idle"
  /\ armed' = Rearmed
  /\ UNCHANGED <<modVars, sbVars>>

-----------------------------------------------------------------------------
(* cowfs_fill_super.                                                       *)

Get(r, S) == [x \in Lower |-> IF x \in S THEN r[x] + 1 ELSE r[x]]
Put(r, S) == [x \in Lower |-> IF x \in S THEN r[x] - 1 ELSE r[x]]

(* The options are parsed and a cowfs_sb_info allocated.                   *)
FillStarts ==
  /\ fs
  /\ sb = "none"
  /\ mounts < MaxMounts
  /\ sb' = "sbi"
  /\ mounts' = mounts + 1
  /\ UNCHANGED <<modVars, gcVars, refs, infos, looking, dents, valid, lookups>>

(* kern_path, mntget and dget, and the path_put of what kern_path took.    *)
PathFound == Put(Get(Get(refs, {"mnt", "root"}), {"mnt", "root"}), {"mnt", "root"})

FillFindsLower ==
  /\ sb = "sbi"
  /\ sb' = "root"
  /\ refs' = PathFound
  /\ UNCHANGED <<modVars, gcVars, infos, looking, dents, valid, mounts, lookups>>

(* The root dentry with its info.                                          *)
FillMakesRoot ==
  /\ sb = "root"
  /\ sb' = "shadow"
  /\ refs' = Get(refs, {"mnt", "root"})
  /\ infos' = infos + 1
  /\ UNCHANGED <<modVars, gcVars, looking, dents, valid, mounts, lookups>>

(* err_mnt: mntput and dput.                                               *)
AfterError_NotPut == refs
AfterError_Always == Put(refs, {"mnt", "root"})
AfterError == IF sb = "root" THEN Put(refs, {"mnt", "root"}) ELSE refs

(* No lower directory, or no inode, dentry or info for the root.           *)
FillFails ==
  /\ "mount" \in Faults
  /\ sb \in {"sbi", "root"}
  /\ sb' = "none"
  /\ refs' = AfterError
  /\ UNCHANGED <<modVars, gcVars, infos, looking, dents, valid, mounts, lookups>>

(* The reference that lookup_one_len took is passed on to                  *)
(* cowfs_shadow_dirpath.                                                   *)
cowfs_shadow_init ==
  /\ sb = "shadow"
  /\ sb' = "mounted"
  /\ refs' = Get(refs, {"mnt", "shadow"})
  /\ valid' = TRUE
  /\ UNCHANGED <<modVars, gcVars, infos, looking, dents, mounts, lookups>>

(* It fails, its reference is put, and the mount goes on.                  *)
ShadowInitFails ==
  /\ "shadow" \in Faults
  /\ sb = "shadow"
  /\ sb' = "mounted"
  /\ UNCHANGED <<modVars, gcVars, refs, infos, looking, dents, valid, mounts, lookups>>

-----------------------------------------------------------------------------
(* Dentries.                                                               *)

cowfs_lookup(n) ==
  /\ sb = "mounted"
  /\ n \notin looking \cup dents
  /\ lookups < MaxLookups
  /\ lookups' = lookups + 1
  /\ looking' = looking \cup {n}
  /\ refs' = Get(refs, {n})
  /\ UNCHANGED <<modVars, gcVars, sb, infos, dents, valid, mounts>>

(* The info gets the lower dentry with its reference, and the lower mount  *)
(* without one.                                                            *)
LookupEnds(n) ==
  /\ n \in looking
  /\ looking' = looking \ {n}
  /\ dents' = dents \cup {n}
  /\ UNCHANGED <<modVars, gcVars, sb, refs, infos, valid, mounts, lookups>>

(* No info, or no inode.                                                   *)
LookupFails(n) ==
  /\ "lookup" \in Faults
  /\ n \in looking
  /\ looking' = looking \ {n}
  /\ refs' = Put(refs, {n})
  /\ UNCHANGED <<modVars, gcVars, sb, infos, dents, valid, mounts, lookups>>

cowfs_d_release(n) ==
  /\ n \in dents
  /\ dents' = dents \ {n}
  /\ refs' = Put(refs, {n, "mnt"})
  /\ UNCHANGED <<modVars, gcVars, sb, infos, looking, valid, mounts, lookups>>

-----------------------------------------------------------------------------
(* Unmounting.                                                             *)

(* The VFS unmounts what nobody uses.  It releases every dentry first.     *)
Umount ==
  /\ sb = "mounted"
  /\ looking = {}
  /\ sb' = "shrink"
  /\ UNCHANGED <<modVars, gcVars, refs, infos, looking, dents, valid, mounts, lookups>>

(* The root dentry has no d_release: its info stays.  Then put_super       *)
(* calls cowfs_shadow_cleanup, which puts the path before it clears the    *)
(* flag.                                                                   *)
CleanupPuts ==
  /\ sb = "shrink"
  /\ dents = {}
  /\ sb' = "cleanup"
  /\ refs' = IF valid THEN Put(refs, {"mnt", "shadow"}) ELSE refs
  /\ UNCHANGED <<modVars, gcVars, infos, looking, dents, valid, mounts, lookups>>

CleanupClears ==
  /\ sb = "cleanup"
  /\ sb' = "put"
  /\ valid' = FALSE
  /\ UNCHANGED <<modVars, gcVars, refs, infos, looking, dents, mounts, lookups>>

cowfs_put_super ==
  /\ sb = "put"
  /\ sb' = "none"
  /\ refs' = Put(refs, {"mnt", "root"})
  /\ UNCHANGED <<modVars, gcVars, infos, looking, dents, valid, mounts, lookups>>

-----------------------------------------------------------------------------

Loading == InitTable \/ InitDevice \/ InitRegister \/ InitFails
Stopping == ExitDevice \/ cowfs_versions_destroy
Collector == gc_worker \/ GcUsesShadowDir \/ GcEnds
FillSuper ==
  \/ FillFindsLower
  \/ FillMakesRoot
  \/ FillFails
  \/ cowfs_shadow_init
  \/ ShadowInitFails
Lookup == \E n \in Name : LookupEnds(n) \/ LookupFails(n)
Unmounting ==
  \/ CleanupPuts
  \/ CleanupClears
  \/ cowfs_put_super
  \/ sb = "shrink" /\ \E n \in Name : cowfs_d_release(n)

Next ==
  \/ Loading
  \/ cowfs_exit
  \/ Stopping
  \/ Collector
  \/ FillStarts
  \/ FillSuper
  \/ \E n \in Name : cowfs_lookup(n)
  \/ Lookup
  \/ \E n \in Name : sb = "mounted" /\ cowfs_d_release(n)
  \/ Umount
  \/ Unmounting

Spec == Init /\ [][Next]_vars

(* An umount and an rmmod that have begun go on, and a work item that was  *)
(* started ends.  Nobody has to mount, to unmount or to unload.            *)
FairSpec ==
  /\ Spec
  /\ WF_vars(Stopping)
  /\ WF_vars(GcEnds)
  /\ WF_vars(Unmounting)

-----------------------------------------------------------------------------
(* Properties.                                                             *)

Held(b) == IF b THEN 1 ELSE 0

(* Every reference to a lower dentry is accounted for on every path, the   *)
(* error paths included: the superblock's and the root dentry's, the       *)
(* shadow directory's, one for each upper dentry, none after a failed      *)
(* mount or lookup; and after umount nothing but one reference of every    *)
(* root dentry there was, which has no d_release (cowfs_fill_super,        *)
(* cowfs_put_super, cowfs_lookup, cowfs_d_release, cowfs_shadow_cleanup).  *)
RefsAccounted ==
  /\ refs["root"] = infos + Held(sb \notin {"none", "sbi"})
  /\ refs["shadow"] = Held(valid /\ sb # "cleanup")
  /\ \A n \in Name : refs[n] = Held(n \in looking \cup dents)
  /\ sb = "none" => ~valid /\ looking \cup dents = {}

(* Whoever can call into the version table finds it: as long as the file   *)
(* system or the device is registered, or the work item is queued or runs, *)
(* the table is there (cowfs_init with its error paths, cowfs_exit,        *)
(* cowfs_versions_destroy).                                                *)
TableThere == fs \/ device \/ armed \/ gc # "idle" => table

(* umount and rmmod come to an end, although the collector keeps           *)
(* re-arming itself (cowfs_put_super, cowfs_exit, cowfs_versions_destroy). *)
StopEnds ==
  /\ sb = "shrink" ~> sb = "none"
  /\ mod = "destroying" ~> mod = "unloaded"

(* "lookup_one_len() and vfs_unlink() relative to the cached dentry work   *)
(* in any context": while the collector uses the shadow directory, there   *)
(* is a reference to it (cowfs_shadow_remove, cowfs_shadow_cleanup).       *)
ShadowHeld == gc = "using" => refs["shadow"] > 0

=============================================================================
