--------------------------- MODULE CowMountProofs ---------------------------
(***************************************************************************)
(* Theorems about CowMount, for any number of names, mounts and lookups    *)
(* and any set of failures.                                                *)
(***************************************************************************)
EXTENDS CowMount, TLAPS

-----------------------------------------------------------------------------
(* The version table.                                                      *)

ModType ==
  /\ mod \in {"unloaded", "table", "device", "live", "exit", "destroying"}
  /\ table \in BOOLEAN
  /\ device \in BOOLEAN
  /\ fs \in BOOLEAN
  /\ armed \in BOOLEAN
  /\ gc \in {"idle", "running", "using"}

(* The table is there from the first step of loading to the last one of    *)
(* unloading; what calls into it comes later and goes earlier.             *)
LoadInv ==
  /\ ModType
  /\ table <=> mod # "unloaded"
  /\ fs => mod = "live"
  /\ device => mod \in {"device", "live", "exit"}
  /\ armed => mod \notin {"unloaded", "destroying"}
  /\ gc # "idle" => mod # "unloaded"

(* No step of mounting, lookup or unmounting touches any of this.          *)
MountStep ==
  \/ FillStarts
  \/ FillSuper
  \/ \E n \in Name : cowfs_lookup(n)
  \/ Lookup
  \/ \E n \in Name : sb = "mounted" /\ cowfs_d_release(n)
  \/ Umount
  \/ Unmounting

(* Steps of mounting leave the module, the table and the collector alone.  *)
LEMMA MountStepFrame == MountStep => UNCHANGED <<modVars, gcVars>>
  BY DEF MountStep, FillStarts, FillSuper, FillFindsLower, FillMakesRoot, FillFails,
         cowfs_shadow_init, ShadowInitFails, cowfs_lookup, Lookup, LookupEnds, LookupFails,
         cowfs_d_release, Umount, Unmounting, CleanupPuts, CleanupClears, cowfs_put_super,
         modVars, gcVars

(* Every step preserves LoadInv: cancel_delayed_work_sync keeps the work   *)
(* item from being queued or running when the table goes.                  *)
LEMMA LoadInvStep == LoadInv /\ [Next]_vars => LoadInv'
<1> SUFFICES ASSUME LoadInv, [Next]_vars PROVE LoadInv'
  OBVIOUS
<1> USE DEF LoadInv, ModType
<1>1. CASE Loading
  <2>1. CASE InitTable
    BY <2>1 DEF InitTable
  <2>2. CASE InitDevice
    BY <2>2 DEF InitDevice, gcVars
  <2>3. CASE InitRegister
    BY <2>3 DEF InitRegister, gcVars
  <2>4. CASE InitFails
    BY <2>4 DEF InitFails
  <2> QED
    BY <1>1, <2>1, <2>2, <2>3, <2>4 DEF Loading
<1>2. CASE cowfs_exit
  BY <1>2 DEF cowfs_exit, gcVars
<1>3. CASE Stopping
  <2>1. CASE ExitDevice
    BY <2>1 DEF ExitDevice
  <2>2. CASE cowfs_versions_destroy
    BY <2>2 DEF cowfs_versions_destroy, Cancelled, gcVars
  <2> QED
    BY <1>3, <2>1, <2>2 DEF Stopping
<1>4. CASE Collector
  <2>1. CASE gc_worker
    BY <2>1 DEF gc_worker, modVars
  <2>2. CASE GcUsesShadowDir
    BY <2>2 DEF GcUsesShadowDir, modVars
  <2>3. CASE GcEnds
    BY <2>3 DEF GcEnds, Rearmed, modVars
  <2> QED
    BY <1>4, <2>1, <2>2, <2>3 DEF Collector
<1>5. CASE MountStep
  BY <1>5, MountStepFrame DEF modVars, gcVars
<1>6. CASE UNCHANGED vars
  BY <1>6 DEF vars
<1> QED
  BY <1>1, <1>2, <1>3, <1>4, <1>5, <1>6 DEF Next, MountStep

(* Nothing is loaded at the start.                                         *)
LEMMA InitLoad == Init => LoadInv
  BY DEF Init, LoadInv, ModType

(* As long as the file system, the device or the work item can call into   *)
(* the version table, it is there, through every error path of cowfs_init  *)
(* and with the collector running into cowfs_exit.                         *)
THEOREM TableCorrect == Spec => []TableThere
<1>1. Init => LoadInv
  BY InitLoad
<1>2. LoadInv => TableThere
  BY DEF LoadInv, TableThere
<1> QED
  BY <1>1, <1>2, LoadInvStep, PTL DEF Spec

-----------------------------------------------------------------------------
(* The references.                                                         *)

(* Dentries exist only while something is mounted or being unmounted, and  *)
(* the shadow directory is valid from the end of a mount to the umount.    *)
MountInv ==
  /\ sb \in {"none", "sbi", "root", "shadow", "mounted", "shrink", "cleanup", "put"}
  /\ refs \in [Lower -> Int]
  /\ infos \in Nat
  /\ looking \subseteq Name
  /\ dents \subseteq Name
  /\ valid \in BOOLEAN
  /\ looking \cap dents = {}
  /\ looking # {} => sb = "mounted"
  /\ dents # {} => sb \in {"mounted", "shrink"}
  /\ valid => sb \in {"mounted", "shrink", "cleanup"}

(* Inductive.                                                              *)
RefsInv == MountInv /\ RefsAccounted

(* The names are apart from the mount, the root and the shadow directory.  *)
LEMMA Apart ==
  /\ "mnt" \notin Name /\ "root" \notin Name /\ "shadow" \notin Name
  /\ {"mnt", "root", "shadow"} \subseteq Lower /\ Name \subseteq Lower
  BY MountAssumption DEF Lower

(* Get and Put change the counters of S by one and no other.               *)
LEMMA GetPut ==
  ASSUME NEW r \in [Lower -> Int], NEW S \in SUBSET Lower
  PROVE  /\ Get(r, S) \in [Lower -> Int]
         /\ Put(r, S) \in [Lower -> Int]
         /\ \A x \in Lower : /\ Get(r, S)[x] = IF x \in S THEN r[x] + 1 ELSE r[x]
                             /\ Put(r, S)[x] = IF x \in S THEN r[x] - 1 ELSE r[x]
  BY DEF Get, Put

(* What kern_path took is put again: one reference to each remains.        *)
LEMMA PathFoundOnce ==
  ASSUME refs \in [Lower -> Int]
  PROVE  /\ PathFound \in [Lower -> Int]
         /\ \A x \in Lower : PathFound[x] = IF x \in {"mnt", "root"} THEN refs[x] + 1 ELSE refs[x]
<1> DEFINE S == {"mnt", "root"}
           g == Get(refs, S)
           h == Get(g, S)
<1>0. S \in SUBSET Lower
  BY Apart
<1>1. g \in [Lower -> Int] /\ \A x \in Lower : g[x] = IF x \in S THEN refs[x] + 1 ELSE refs[x]
  BY <1>0, GetPut
<1>2. h \in [Lower -> Int] /\ \A x \in Lower : h[x] = IF x \in S THEN g[x] + 1 ELSE g[x]
  BY <1>0, <1>1, GetPut
<1>3. PathFound = Put(h, S)
  BY DEF PathFound
<1>4. /\ PathFound \in [Lower -> Int]
      /\ \A x \in Lower : PathFound[x] = IF x \in S THEN h[x] - 1 ELSE h[x]
  BY <1>0, <1>2, <1>3, GetPut
<1> HIDE DEF g, h
<1>5. \A x \in Lower : refs[x] \in Int
  OBVIOUS
<1> QED
  BY <1>1, <1>2, <1>4, <1>5

(* Every step takes and puts what RefsAccounted says.                      *)
LEMMA RefsInvStep == RefsInv /\ [Next]_vars => RefsInv'
<1> SUFFICES ASSUME RefsInv, [Next]_vars PROVE RefsInv'
  OBVIOUS
<1> USE Apart DEF RefsInv, MountInv, RefsAccounted, Held
<1>0. \A x \in Lower : refs[x] \in Int
  OBVIOUS
<1>1. CASE Loading \/ cowfs_exit \/ Stopping \/ Collector \/ UNCHANGED vars
  <2>1. UNCHANGED sbVars
    BY <1>1 DEF Loading, InitTable, InitDevice, InitRegister, InitFails, cowfs_exit, Stopping,
                ExitDevice, cowfs_versions_destroy, Collector, gc_worker, GcUsesShadowDir,
                GcEnds, vars, sbVars
  <2> QED
    BY <2>1 DEF sbVars
<1>2. CASE FillStarts
  BY <1>2 DEF FillStarts
<1>3. CASE FillFindsLower
  BY <1>0, <1>3, PathFoundOnce DEF FillFindsLower
<1>4. CASE FillMakesRoot
  <2>1. {"mnt", "root"} \in SUBSET Lower
    OBVIOUS
  <2> QED
    BY <1>0, <1>4, <2>1, GetPut DEF FillMakesRoot
<1>5. CASE FillFails
  <2>1. {"mnt", "root"} \in SUBSET Lower
    OBVIOUS
  <2>2. CASE sb = "sbi"
    BY <1>5, <2>2 DEF FillFails, AfterError
  <2>3. CASE sb = "root"
    BY <1>0, <1>5, <2>1, <2>3, GetPut DEF FillFails, AfterError
  <2> QED
    BY <1>5, <2>2, <2>3 DEF FillFails
<1>6. CASE cowfs_shadow_init
  <2>1. {"mnt", "shadow"} \in SUBSET Lower
    OBVIOUS
  <2> QED
    BY <1>0, <1>6, <2>1, GetPut DEF cowfs_shadow_init
<1>7. CASE ShadowInitFails
  BY <1>7 DEF ShadowInitFails
<1>8. ASSUME NEW n \in Name, cowfs_lookup(n) PROVE RefsInv'
  <2>1. {n} \in SUBSET Lower
    OBVIOUS
  <2> QED
    BY <1>0, <1>8, <2>1, GetPut DEF cowfs_lookup
<1>9. ASSUME NEW n \in Name, LookupEnds(n) PROVE RefsInv'
  BY <1>9 DEF LookupEnds
<1>10. ASSUME NEW n \in Name, LookupFails(n) PROVE RefsInv'
  <2>1. {n} \in SUBSET Lower
    OBVIOUS
  <2> QED
    BY <1>0, <1>10, <2>1, GetPut DEF LookupFails
<1>11. ASSUME NEW n \in Name, cowfs_d_release(n) PROVE RefsInv'
  <2>1. {n, "mnt"} \in SUBSET Lower
    OBVIOUS
  <2> QED
    BY <1>0, <1>11, <2>1, GetPut DEF cowfs_d_release
<1>12. CASE Umount
  BY <1>12 DEF Umount
<1>13. CASE CleanupPuts
  <2>1. {"mnt", "shadow"} \in SUBSET Lower
    OBVIOUS
  <2> QED
    BY <1>0, <1>13, <2>1, GetPut DEF CleanupPuts
<1>14. CASE CleanupClears
  BY <1>14 DEF CleanupClears
<1>15. CASE cowfs_put_super
  <2>1. {"mnt", "root"} \in SUBSET Lower
    OBVIOUS
  <2> QED
    BY <1>0, <1>15, <2>1, GetPut DEF cowfs_put_super
<1> QED
  BY <1>1, <1>2, <1>3, <1>4, <1>5, <1>6, <1>7, <1>8, <1>9, <1>10, <1>11, <1>12, <1>13,
     <1>14, <1>15 DEF Next, FillSuper, Lookup, Unmounting

(* There are no references at the start.                                   *)
LEMMA InitRefs == Init => RefsInv
<1> SUFFICES ASSUME Init PROVE RefsInv
  OBVIOUS
<1>1. MountInv
  <2>1. refs \in [Lower -> Int] /\ infos \in Nat
    BY DEF Init
  <2>2. ~valid /\ valid \in BOOLEAN
    BY DEF Init
  <2>3. looking = {} /\ dents = {} /\ sb = "none"
    BY DEF Init
  <2> QED
    BY <2>1, <2>2, <2>3 DEF MountInv
<1>2. RefsAccounted
  <2>1. \A x \in Lower : refs[x] = 0
    BY DEF Init
  <2>2. ~valid /\ looking = {} /\ dents = {} /\ sb = "none" /\ infos = 0
    BY DEF Init
  <2> QED
    BY <2>1, <2>2, Apart DEF RefsAccounted, Held
<1> QED
  BY <1>1, <1>2 DEF RefsInv

(* Every reference to a lower dentry that cowfs holds is accounted for, on *)
(* every path of fill_super, lookup, d_release and put_super; what stays   *)
(* after umount is the one of the root dentry.                             *)
THEOREM RefsCorrect == Spec => []RefsAccounted
<1>1. Init => RefsInv
  BY InitRefs
<1>2. RefsInv => RefsAccounted
  BY DEF RefsInv
<1> QED
  BY <1>1, <1>2, RefsInvStep, PTL DEF Spec

(* Every reachable state is well typed; above all, no lower dentry is put  *)
(* more often than it was taken, and the bounds on mounts and lookups hold.*)
THEOREM MountTypeCorrect == Spec => []TypeOK
<1> DEFINE Bounds == mounts \in 0..MaxMounts /\ lookups \in 0..MaxLookups
<1>1. Init => Bounds
  BY MountAssumption DEF Init
<1>2. Bounds /\ [Next]_vars => Bounds'
  <2> SUFFICES ASSUME Bounds, [Next]_vars PROVE Bounds'
    OBVIOUS
  <2>1. CASE FillStarts
    BY <2>1, MountAssumption DEF FillStarts
  <2>2. ASSUME NEW n \in Name, cowfs_lookup(n) PROVE Bounds'
    BY <2>2, MountAssumption DEF cowfs_lookup
  <2>3. CASE UNCHANGED <<mounts, lookups>>
    BY <2>3
  <2>4. Next => \/ FillStarts
                \/ \E n \in Name : cowfs_lookup(n)
                \/ UNCHANGED <<mounts, lookups>>
    BY DEF Next, Loading, InitTable, InitDevice, InitRegister, InitFails, cowfs_exit, Stopping,
           ExitDevice, cowfs_versions_destroy, Collector, gc_worker, GcUsesShadowDir, GcEnds,
           FillSuper, FillFindsLower, FillMakesRoot, FillFails, cowfs_shadow_init,
           ShadowInitFails, Lookup, LookupEnds, LookupFails, cowfs_d_release, Umount,
           Unmounting, CleanupPuts, CleanupClears, cowfs_put_super, sbVars
  <2>5. UNCHANGED vars => UNCHANGED <<mounts, lookups>>
    BY DEF vars
  <2> QED
    BY <2>1, <2>2, <2>3, <2>4, <2>5
<1>3. LoadInv /\ RefsInv /\ Bounds => TypeOK
  <2> SUFFICES ASSUME LoadInv, RefsInv, Bounds PROVE TypeOK
    OBVIOUS
  <2>1. \A x \in Lower \ {"mnt"} : refs[x] \in Nat
    BY Apart DEF RefsInv, MountInv, RefsAccounted, Held, Lower
  <2> QED
    BY <2>1 DEF LoadInv, ModType, RefsInv, MountInv, TypeOK
<1>4. Init => LoadInv /\ RefsInv
  BY InitLoad, InitRefs
<1> QED
  BY <1>1, <1>2, <1>3, <1>4, LoadInvStep, RefsInvStep, PTL DEF Spec

=============================================================================
