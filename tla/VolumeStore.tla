----------------------------- MODULE VolumeStore -----------------------------
(***************************************************************************)
(* Volumes and the references containers have to them: VolumeStore         *)
(* (daemon/volume/service/store.go, restore.go) under VolumesService       *)
(* (service.go), registerMountPoints and lazyInitializeVolume              *)
(* (daemon/volumes.go), removeMountPoints and prepareMountPoints           *)
(* (mounts.go) and createContainerVolumesOS (create_unix.go).              *)
(*                                                                         *)
(* A process is a container, for the goroutine that creates, starts or     *)
(* removes it, or a client that creates, removes or prunes volumes.  A     *)
(* call of the store runs under the lock of the volume's name: it is one   *)
(* step unless it changes the driver first and its own records after; then *)
(* lock tells who is between the two.  The driver of a volume is told by   *)
(* its name, and a container mounts a volume at one place.  A driver may   *)
(* answer a lookup with an error: lookupVolume returns a net.Error, and    *)
(* takes any other for a volume that does not exist, whereupon the store   *)
(* purges what it knows of it.  A volume without a name is one the image   *)
(* declares.  Labels, options and the counts of drivers are left out, and  *)
(* so is whether a container is dead.                                      *)
(***************************************************************************)
EXTENDS FiniteSets, Integers

CONSTANTS Volumes, Containers, Clients,
          Mounts,      \* the volumes a container is created with
          From,        \* those it may have from another container (--volumes-from)
          Anonymous,   \* the volumes that were given no name
          MaxFaults,   \* bound on errors: of a driver, of the database, of relabelling,
                       \* of releasing a layer and of removing a directory
          MaxCrashes,  \* bound on restarts of the daemon
          None

ASSUME VolumesAssumption ==
    /\ Mounts \in [Containers -> SUBSET Volumes]
    /\ From \in [Containers -> SUBSET Volumes]
    /\ Anonymous \subseteq Volumes
    /\ Containers \cap Clients = {}
    /\ None \notin Volumes \cup Containers \cup Clients
    /\ MaxFaults \in Nat /\ MaxCrashes \in Nat

VARIABLES
    \* the store
    lock, names, refs,
    db,       \* volumes with metadata in the database
    driver,   \* volumes their driver has
    \* the containers
    state,    \* where a container is in its life
    mounted,  \* its mount points with a volume
    inited,   \* those of them whose field Volume is set
    \* the processes
    act,
    leaked,   \* history: references of creates that failed and were not cleaned up
    forgotten,\* history: references of mount points that a purge took away
    faults, crashes

storeVars == <<lock, names, refs, db, driver, forgotten>>
ctrVars   == <<state, mounted, inited>>
vars == <<storeVars, ctrVars, act, leaked, faults, crashes>>

Procs == Containers \cup Clients

Idle == [pc |-> "idle", vol |-> None, todo |-> {}, opt |-> "no"]

\* the API is served once restore has prepared the mount points
Up == \A c \in Containers : state[c] # "restored"

\* an error of a driver, of the database, of relabelling or of a removal
Fault == faults < MaxFaults /\ faults' = faults + 1

-----------------------------------------------------------------------------
\* mutant: the lock of the name is not taken
Acquire_Skipped(v, p) == lock' = lock

\* the process takes or leaves the lock of the name
Acquire(v, p) == lock' = [lock EXCEPT ![v] = p]
Unlock(v) == lock' = [lock EXCEPT ![v] = None]

\* who is given a reference: a container its own, a client none
WithRef(r, v, p) == IF p \in Containers THEN [r EXCEPT ![v] = @ \cup {p}] ELSE r

\* purge, with and without the metadata, whose removal may fail
PurgeCache(v) ==
    /\ names' = names \ {v} /\ refs' = [refs EXCEPT ![v] = {}]
    /\ forgotten' = forgotten \cup {<<c, v>> : c \in refs[v]}
Purge(v) == PurgeCache(v) /\ db' = db \ {v}

\* what a call leaves that returns with an error and changes nothing
KeepsRecords == UNCHANGED <<names, refs, db, forgotten>>

\* lookupVolume returns neither a volume nor an error: the driver does not have the
\* volume, or answers with an error that is no net.Error
LookupNil(v) == \/ v \notin driver /\ faults' = faults
                \/ v \in driver /\ Fault

\* Get of a volume its driver has; the driver is saved if the caller did not name it
GetFound(v, p) ==
    /\ v \in driver /\ names' = names \cup {v} /\ refs' = WithRef(refs, v, p)
    /\ UNCHANGED <<faults, forgotten>>

\* getVolume does not find it: errNoSuchVolume
GetMissing(v) == LookupNil(v) /\ Purge(v)

\* getVolume fails: a net.Error, or an error of the database
GetFails == Fault /\ KeepsRecords

\* Create of a volume the store knows and the driver has
CreateKnown(v, p) ==
    /\ v \in names \cap driver
    /\ refs' = WithRef(refs, v, p) /\ UNCHANGED <<lock, names, db, driver, forgotten>>

\* checkConflict finds nothing, nor does getVolume, which looks for a volume without a
\* driver's name; if the lookup returns nil, what the store knows is purged, unless
\* there are references: that is a conflict
NoConflict(v, nil) ==
    /\ \/ v \notin names /\ db' = db
       \/ nil /\ refs[v] = {} /\ db' = db \ {v}
    /\ names' = names \ {v} /\ UNCHANGED <<refs, forgotten>>

\* Create up to the answer of the driver; one it has already is recorded likewise
CreateInDriver(v, p) ==
    /\ \/ NoConflict(v, v \notin driver) /\ faults' = faults
       \/ NoConflict(v, TRUE) /\ Fault
    /\ driver' = driver \cup {v}
    /\ Acquire(v, p)

\* the driver does not create it
CreateFails(v) == NoConflict(v, TRUE) /\ Fault /\ UNCHANGED <<lock, driver>>

\* the rest of create and of Create: new references, setMeta, setNamed
RecordCreate(v, p) ==
    /\ db' = db \cup {v} /\ names' = names \cup {v}
    /\ refs' = WithRef([refs EXCEPT ![v] = {}], v, p)
    /\ Unlock(v) /\ forgotten' = forgotten

\* setMeta fails: the volume stays in the driver
RecordFails(v) ==
    /\ refs' = [refs EXCEPT ![v] = {}] /\ UNCHANGED <<db, names, forgotten>>
    /\ Unlock(v)

\* mutant: a volume in use is removed
RemoveInDriver_InUse(v, p) ==
    /\ v \in driver
    /\ driver' = driver \ {v}
    /\ Acquire(v, p) /\ KeepsRecords

\* Remove up to the answer of the driver: hasRef, getVolume, Remove of the driver
RemoveInDriver(v, p) ==
    /\ refs[v] = {} /\ v \in driver
    /\ driver' = driver \ {v}
    /\ Acquire(v, p) /\ KeepsRecords

\* Remove returns with an error: the volume is in use, is not found (and purged), or
\* a driver fails; with force (PurgeOnError) a failed Remove of the driver purges too,
\* as a failed lookup does
RemoveFails(v) ==
    /\ \/ refs[v] # {} /\ KeepsRecords /\ faults' = faults
       \/ refs[v] = {} /\ GetMissing(v)
       \/ refs[v] = {} /\ GetFails
    /\ UNCHANGED <<driver, lock>>

\* the purge at the end of Remove; an error of removeMeta is only logged
RemovePurge(v) ==
    /\ \/ Purge(v) /\ faults' = faults
       \/ PurgeCache(v) /\ db' = db /\ Fault
    /\ Unlock(v) /\ driver' = driver

\* Release
Release(v, c) ==
    /\ refs' = [refs EXCEPT ![v] = @ \ {c}]
    /\ forgotten' = forgotten \ {<<c, v>>}
    /\ UNCHANGED <<lock, names, db, driver>>

-----------------------------------------------------------------------------
\* create starts: the mount points it has from another container come first; those
\* with a Source are copied without Volume
CtrCreate(c, from) ==
    /\ Up /\ state[c] = "none"
    /\ from = {} \/ \E d \in Containers : state[d] = "created" /\ from \subseteq mounted[d]
    /\ state' = [state EXCEPT ![c] = "creating"]
    /\ mounted' = [mounted EXCEPT ![c] = from \ Anonymous]
    /\ act' = [act EXCEPT ![c] = [Idle EXCEPT !.pc = "from", !.todo = from \cap Anonymous]]
    /\ UNCHANGED <<storeVars, inited, leaked, faults, crashes>>

\* a mount point gets its Volume
SetVolume(c, v) ==
    /\ mounted' = [mounted EXCEPT ![c] = @ \cup {v}]
    /\ inited' = [inited EXCEPT ![c] = @ \cup {v}]
    /\ act' = [act EXCEPT ![c].pc = IF @ = "record" THEN "next" ELSE @,
                          ![c].vol = None, ![c].todo = @ \ {v}]
    /\ leaked' = leaked

\* registerMountPoints has returned, and createContainerVolumesOS is at work
Registered(c) == act[c].pc # "from" /\ act[c].todo \subseteq Anonymous

\* mutant: the references of a create that failed stay
CtrFails_Keeps(c, lost) ==
    /\ state' = [state EXCEPT ![c] = "gone"]
    /\ act' = [act EXCEPT ![c] = Idle]
    /\ leaked' = leaked \cup lost

\* an error ends the create: registerMountPoints releases what it made; after it,
\* that is left to cleanupContainer
CtrFails(c, lost) ==
    /\ IF Registered(c)
       THEN /\ state' = [state EXCEPT ![c] = "cleanup"]
            /\ act' = [act EXCEPT ![c] = [Idle EXCEPT !.pc = "cleanup"]]
       ELSE /\ state' = [state EXCEPT ![c] = "removing"]
            /\ act' = [act EXCEPT ![c] = [Idle EXCEPT !.pc = "release", !.todo = inited[c]]]
    /\ leaked' = leaked \cup lost

\* Get of a mount point of another container that has no Source
CtrFrom(c, v) ==
    /\ state[c] = "creating" /\ act[c].pc = "from"
    /\ v \in act[c].todo /\ lock[v] = None
    /\ \/ GetFound(v, c) /\ SetVolume(c, v) /\ UNCHANGED <<db, state>>
       \/ (GetMissing(v) \/ GetFails) /\ CtrFails(c, {}) /\ UNCHANGED <<mounted, inited>>
    /\ UNCHANGED <<lock, driver, crashes>>

\* the mount points the request asks for itself
CtrFromDone(c) ==
    /\ state[c] = "creating" /\ act[c].pc = "from" /\ act[c].todo = {}
    /\ act' = [act EXCEPT ![c].pc = "next", ![c].todo = Mounts[c] \ mounted[c]]
    /\ UNCHANGED <<storeVars, ctrVars, leaked, faults, crashes>>

\* the next mount point, the named ones first
NextMount(c, v) ==
    /\ state[c] = "creating" /\ act[c].pc = "next"
    /\ v \in act[c].todo /\ (v \in Anonymous => Registered(c))
    /\ lock[v] = None

\* volumes.Create of a mount point whose volume is known; a conflict if its driver
\* does not answer, or returns an error and the volume has references
CtrCreateKnown(c, v) ==
    /\ NextMount(c, v)
    /\ \/ CreateKnown(v, c) /\ SetVolume(c, v) /\ UNCHANGED <<state, faults>>
       \/ /\ v \in names /\ Fault /\ CtrFails(c, {})
          /\ UNCHANGED <<storeVars, mounted, inited>>
    /\ UNCHANGED crashes

\* volumes.Create of a new one; its driver may fail
CtrCreateNew(c, v) ==
    /\ NextMount(c, v)
    /\ \/ /\ CreateInDriver(v, c)
          /\ act' = [act EXCEPT ![c].pc = "record", ![c].vol = v]
          /\ UNCHANGED <<state, leaked>>
       \/ CreateFails(v) /\ CtrFails(c, {})
    /\ UNCHANGED <<mounted, inited, crashes>>

\* its end; relabelling an anonymous volume may fail before the mount point is made
CtrRecord(c) ==
    LET v == act[c].vol IN
    /\ act[c].pc = "record" /\ state[c] = "creating"
    /\ \/ RecordCreate(v, c) /\ SetVolume(c, v) /\ UNCHANGED <<state, faults>>
       \/ RecordFails(v) /\ Fault /\ CtrFails(c, {}) /\ UNCHANGED <<mounted, inited>>
       \/ /\ v \in Anonymous /\ Fault
          /\ RecordCreate(v, c) /\ CtrFails(c, {<<c, v>>}) /\ UNCHANGED <<mounted, inited>>
    /\ UNCHANGED <<driver, crashes>>

\* create fails after registerMountPoints, or registers the container
CtrCreateFails(c) ==
    /\ state[c] = "creating" /\ act[c].pc = "next" /\ Registered(c)
    /\ Fault /\ CtrFails(c, {})
    /\ UNCHANGED <<storeVars, mounted, inited, crashes>>

\* cleanupContainer of a failed create; an error of ReleaseLayer or EnsureRemoveAll ends
\* it before the references are released
CtrCleanup(c) ==
    /\ act[c].pc = "cleanup"
    /\ \/ /\ state' = [state EXCEPT ![c] = "removing"]
          /\ act' = [act EXCEPT ![c] = [Idle EXCEPT !.pc = "release", !.todo = inited[c], !.opt = "yes"]]
          /\ UNCHANGED <<leaked, faults>>
       \/ /\ Fault /\ act' = [act EXCEPT ![c] = Idle]
          /\ leaked' = leaked \cup {<<c, v>> : v \in inited[c]}
          /\ state' = [state EXCEPT ![c] = "failed"]
    /\ UNCHANGED <<storeVars, mounted, inited, crashes>>

CtrCreated(c) ==
    /\ state[c] = "creating" /\ act[c].pc = "next" /\ act[c].todo = {}
    /\ state' = [state EXCEPT ![c] = "created"]
    /\ act' = [act EXCEPT ![c] = Idle]
    /\ UNCHANGED <<storeVars, mounted, inited, leaked, faults, crashes>>

\* lazyInitializeVolume of a start (setupMounts) or of prepareMountPoints, which
\* gives up at the first error
LazyInit(c, v) ==
    /\ state[c] \in {"created", "restored"} /\ (Up \/ state[c] = "restored")
    /\ v \in mounted[c] \ inited[c] /\ lock[v] = None
    /\ \/ /\ GetFound(v, c) /\ db' = db
          /\ inited' = [inited EXCEPT ![c] = @ \cup {v}] /\ state' = state
       \/ /\ GetMissing(v) \/ GetFails
          /\ inited' = inited /\ state' = [state EXCEPT ![c] = "created"]
    /\ UNCHANGED <<lock, driver, mounted, act, leaked, crashes>>

\* LiveRestoreVolume, for a container that has lived on, looks the volume up again; an
\* error ends prepareMountPoints
LiveRestore(c, v) ==
    /\ state[c] = "restored" /\ v \in inited[c] /\ lock[v] = None
    /\ Fault /\ (Purge(v) \/ KeepsRecords)
    /\ state' = [state EXCEPT ![c] = "created"]
    /\ UNCHANGED <<lock, driver, mounted, inited, act, leaked, crashes>>

\* prepareMountPoints is done
Prepared(c) ==
    /\ state[c] = "restored" /\ mounted[c] = inited[c]
    /\ state' = [state EXCEPT ![c] = "created"]
    /\ UNCHANGED <<storeVars, mounted, inited, act, leaked, faults, crashes>>

\* removeMountPoints; opt: whether anonymous volumes are removed (rm -v)
CtrRemove(c, rm) ==
    /\ Up /\ state[c] = "created"
    /\ state' = [state EXCEPT ![c] = "removing"]
    /\ act' = [act EXCEPT ![c] = [Idle EXCEPT !.pc = "release", !.todo = inited[c], !.opt = rm]]
    /\ UNCHANGED <<storeVars, mounted, inited, leaked, faults, crashes>>

\* Release of one mount point
CtrRelease(c, v) ==
    /\ act[c].pc = "release" /\ v \in act[c].todo /\ lock[v] = None
    /\ Release(v, c)
    /\ inited' = [inited EXCEPT ![c] = @ \ {v}]
    /\ act' = IF act[c].opt = "yes" /\ v \in Anonymous
              THEN [act EXCEPT ![c].pc = "get", ![c].vol = v, ![c].todo = @ \ {v}]
              ELSE [act EXCEPT ![c].todo = @ \ {v}]
    /\ UNCHANGED <<state, mounted, leaked, faults, crashes>>

CtrGone(c) ==
    /\ act[c].pc = "release" /\ act[c].todo = {}
    /\ state' = [state EXCEPT ![c] = "gone"]
    /\ act' = [act EXCEPT ![c] = Idle]
    /\ UNCHANGED <<storeVars, mounted, inited, leaked, faults, crashes>>

-----------------------------------------------------------------------------
\* volume rm [-f]
ClientCall(p, v) ==
    /\ Up /\ act[p] = Idle
    /\ act' = [act EXCEPT ![p] = [Idle EXCEPT !.pc = "get", !.vol = v]]
    /\ UNCHANGED <<storeVars, ctrVars, leaked, faults, crashes>>

\* volume inspect, and Mount and Unmount, which look the volume up first
Lookup(v) ==
    /\ Up /\ lock[v] = None
    /\ \/ /\ v \in driver /\ names' = names \cup {v} /\ db' \in {db, db \cup {v}}
          /\ UNCHANGED <<refs, forgotten, faults>>
       \/ GetMissing(v)
    /\ UNCHANGED <<lock, driver, ctrVars, act, leaked, crashes>>

\* volume create; one the store knows already is returned without a change
ClientCreate(p, v) ==
    /\ Up /\ act[p] = Idle /\ v \notin Anonymous /\ lock[v] = None
    /\ \/ /\ CreateInDriver(v, p)
          /\ act' = [act EXCEPT ![p] = [Idle EXCEPT !.pc = "record", !.vol = v]]
       \/ CreateFails(v) /\ act' = act
    /\ UNCHANGED <<ctrVars, leaked, crashes>>

ClientRecord(p) ==
    /\ act[p].pc = "record"
    /\ \/ RecordCreate(act[p].vol, p) /\ faults' = faults
       \/ RecordFails(act[p].vol) /\ Fault
    /\ act' = [act EXCEPT ![p] = Idle]
    /\ UNCHANGED <<driver, ctrVars, leaked, crashes>>

\* Prune lists the volumes, or the anonymous ones, without references (Find) and
\* removes them one by one; only one prune runs
Prune(p) ==
    /\ Up /\ act[p] = Idle /\ \A q \in Clients : act[q].opt # "prune"
    /\ \E listed \in {driver, driver \cap Anonymous} :
         act' = [act EXCEPT ![p] = [Idle EXCEPT !.pc = "prune", !.opt = "prune",
                                      !.todo = {v \in listed : refs[v] = {}}]]
    /\ UNCHANGED <<storeVars, ctrVars, leaked, faults, crashes>>

PruneNext(p) ==
    /\ act[p].pc = "prune"
    /\ \/ \E v \in act[p].todo :
            act' = [act EXCEPT ![p].pc = "remove", ![p].vol = v, ![p].todo = @ \ {v}]
       \/ act[p].todo = {} /\ act' = [act EXCEPT ![p] = Idle]
    /\ UNCHANGED <<storeVars, ctrVars, leaked, faults, crashes>>

\* where a process goes on after a removal
Removed(p) == act' = IF p \in Containers THEN [act EXCEPT ![p].pc = "release", ![p].vol = None]
                     ELSE IF act[p].opt = "prune" THEN [act EXCEPT ![p].pc = "prune", ![p].vol = None]
                     ELSE [act EXCEPT ![p] = Idle]

\* VolumesService.Remove: Get, and then Remove of the volume it returned
RemoveGet(p) ==
    LET v == act[p].vol IN
    /\ act[p].pc = "get" /\ lock[v] = None
    /\ \/ /\ v \in driver /\ names' = names \cup {v} /\ db' = db \cup {v}
          /\ act' = [act EXCEPT ![p].pc = "remove"] /\ UNCHANGED <<refs, forgotten, faults>>
       \/ (GetMissing(v) \/ GetFails) /\ Removed(p)
    /\ UNCHANGED <<lock, driver, ctrVars, leaked, crashes>>

Remove(p) ==
    LET v == act[p].vol IN
    /\ act[p].pc = "remove" /\ lock[v] = None
    /\ \/ /\ RemoveInDriver(v, p) /\ faults' = faults
          /\ act' = [act EXCEPT ![p].pc = "purge"]
       \/ RemoveFails(v) /\ Removed(p)
    /\ UNCHANGED <<ctrVars, leaked, crashes>>

RemoveEnd(p) ==
    /\ act[p].pc = "purge"
    /\ RemovePurge(act[p].vol) /\ Removed(p)
    /\ UNCHANGED <<ctrVars, leaked, crashes>>

-----------------------------------------------------------------------------
\* the daemon dies and is started again: restore of the store looks up the volumes of
\* the database; it keeps the metadata of those whose driver does not answer and removes
\* that of those it does not find, or is given another error for.  No Volume is set.  The
\* clean-up of a failed create may have saved the container.
Crash ==
    /\ crashes < MaxCrashes /\ crashes' = crashes + 1
    /\ \E silent, lost \in SUBSET db :
         /\ silent \cup lost # {} => faults < MaxFaults
         /\ faults' = IF silent \cup lost = {} THEN faults ELSE faults + 1
         /\ names' = (db \cap driver) \ (silent \cup lost)
         /\ db' = ((db \cap driver) \ lost) \cup silent
    /\ refs' = [v \in Volumes |-> {}]
    /\ lock' = [v \in Volumes |-> None]
    /\ act' = [p \in Procs |-> Idle]
    /\ \E saved \in SUBSET {c \in Containers : state[c] \in {"cleanup", "failed"}} :
         state' = [c \in Containers |->
                     IF state[c] \in {"created", "restored"} \/ c \in saved THEN "restored"
                     ELSE IF state[c] = "none" THEN "none" ELSE "gone"]
    /\ inited' = [c \in Containers |-> {}]
    /\ leaked' = {} /\ forgotten' = {}
    /\ UNCHANGED <<driver, mounted>>

Init ==
    /\ lock = [v \in Volumes |-> None] /\ names = {} /\ refs = [v \in Volumes |-> {}]
    /\ db = {} /\ driver = {}
    /\ state = [c \in Containers |-> "none"]
    /\ mounted = [c \in Containers |-> {}] /\ inited = [c \in Containers |-> {}]
    /\ act = [p \in Procs |-> Idle]
    /\ leaked = {} /\ forgotten = {} /\ faults = 0 /\ crashes = 0

Next ==
    \/ \E c \in Containers :
         \/ \E from \in {{}, From[c]} : CtrCreate(c, from)
         \/ CtrFromDone(c) \/ CtrRecord(c) \/ CtrCreateFails(c) \/ CtrCleanup(c) \/ CtrCreated(c)
         \/ Prepared(c) \/ CtrGone(c)
         \/ \E rm \in {"yes", "no"} : CtrRemove(c, rm)
         \/ \E v \in Volumes : \/ CtrFrom(c, v) \/ CtrCreateKnown(c, v) \/ CtrCreateNew(c, v)
                               \/ LazyInit(c, v) \/ LiveRestore(c, v) \/ CtrRelease(c, v)
    \/ \E p \in Clients :
         \/ ClientRecord(p) \/ Prune(p) \/ PruneNext(p)
         \/ \E v \in Volumes : ClientCreate(p, v) \/ ClientCall(p, v)
    \/ \E p \in Procs : RemoveGet(p) \/ Remove(p) \/ RemoveEnd(p)
    \/ \E v \in Volumes : Lookup(v)
    \/ Crash

Spec == Init /\ [][Next]_vars

-----------------------------------------------------------------------------
Acts == [pc : {"idle", "from", "next", "record", "cleanup", "release", "get", "prune", "remove", "purge"},
         vol : Volumes \cup {None}, todo : SUBSET Volumes, opt : {"yes", "no", "prune"}]

TypeOK ==
    /\ lock \in [Volumes -> Procs \cup {None}]
    /\ names \subseteq Volumes /\ refs \in [Volumes -> SUBSET Containers]
    /\ db \subseteq Volumes /\ driver \subseteq Volumes
    /\ state \in [Containers -> {"none", "creating", "cleanup", "failed", "created", "restored",
                            "removing", "gone"}]
    /\ mounted \in [Containers -> SUBSET Volumes] /\ inited \in [Containers -> SUBSET Volumes]
    /\ act \in [Procs -> Acts]
    /\ leaked \subseteq Containers \X Volumes /\ forgotten \subseteq Containers \X Volumes
    /\ faults \in 0 .. MaxFaults /\ crashes \in 0 .. MaxCrashes

\* The volume of a mount point whose Volume is set is there: its reference is known
\* to the store and the driver has the volume, whatever clients remove or prune and
\* after any restart.  It holds for every error but one: a driver's answer to a lookup
\* with an error that is no net.Error makes getVolume purge the volume, references
\* included, and from then on nothing keeps it from being removed.  Nothing is claimed of
\* a mount point that is not initialised: it has no reference before the next start
\* ("This reference ID will protect this volume from removal", service.go).
VolumeInUse ==
    \A c \in Containers : \A v \in inited[c] :
        <<c, v>> \in forgotten \/ (c \in refs[v] /\ v \in names \cap driver)

\* A reference that is left is one of a container that exists, has the volume and
\* will release it: no volume is in use for ever.  The exceptions are creates that fail:
\* in relabelling (create_unix.go), or with a clean-up that ends in an error before
\* removeMountPoints (delete.go); the references stay until a restart.
RefsHaveOwner ==
    \A v \in Volumes : \A c \in refs[v] :
        \/ /\ v \in inited[c]
           /\ state[c] \in {"creating", "cleanup", "created", "restored", "removing"}
        \/ <<c, v>> \in leaked

\* where the process of a container is, and what it still has to release
CtrOk(c) ==
    /\ act[c].pc \in {"from", "next", "record"} => state[c] = "creating"
    /\ act[c].pc = "cleanup" <=> state[c] = "cleanup"
    /\ act[c].pc \in {"release", "get", "remove", "purge"} =>
          state[c] = "removing" /\ inited[c] \subseteq act[c].todo
    /\ state[c] = "removing" => act[c].pc \in {"release", "get", "remove", "purge"}

\* a process between the change of the driver and that of the records has the lock of
\* the volume's name, and nobody has a reference to the volume
LockOk(p) ==
    /\ act[p].pc \in {"record", "purge", "get", "remove"} => act[p].vol \in Volumes
    /\ act[p].pc \in {"record", "purge"} =>
          lock[act[p].vol] = p /\ refs[act[p].vol] = {}
    /\ act[p].pc = "record" => act[p].vol \in driver

\* a volume with references is known to the store
RefsKnown == \A v \in Volumes : refs[v] # {} => v \in names

\* The inductive invariant: VolumeInUse and RefsHaveOwner with what they rest on, that
\* a create and a removal of the same volume are never both between the driver and
\* the store's records (the lock of the name, store.go), and that the process of a
\* container that is being removed still has every reference left on its list.
VolumesInv ==
    /\ TypeOK /\ VolumeInUse /\ RefsHaveOwner /\ RefsKnown
    /\ \A c \in Containers : CtrOk(c)
    /\ \A p \in Procs : LockOk(p)

=============================================================================
