-------------------------- MODULE ContainerRegistry --------------------------
(***************************************************************************)
(* The containers the daemon knows, their names and what is on disk:       *)
(* create (daemon/create.go), ContainerRename (rename.go), containerRm and *)
(* cleanupContainer (delete.go), the part of a start and of an exit that   *)
(* is saved, a crash of the daemon between any two steps, and restore      *)
(* (daemon.go), which rebuilds the memory from the directories on disk,    *)
(* the layers and the tasks containerd still has.                          *)
(*                                                                         *)
(* A member of Actors is a goroutine: a request of a client, an autoRemove *)
(* or a removal of restore.  What is done under the lock of a container is *)
(* one step, but where memory, the names, the disk or containerd change    *)
(* one after the other.  running stands for Running && !Restarting; a      *)
(* restart by policy is a start.  Links are left out.                      *)
(***************************************************************************)
EXTENDS FiniteSets, Integers

CONSTANTS Ids, Names, Actors,
          AutoRemoved,    \* the containers with HostConfig.AutoRemove
          RestartPolicy,  \* the containers with a restart policy
          MaxCrashes,     \* bound on crashes of the daemon
          MaxFaults,      \* bound on errors of the disk, the layer store and containerd
          None, NoDir, EmptyDir

ASSUME RegistryAssumption ==
    /\ AutoRemoved \subseteq Ids /\ RestartPolicy \subseteq Ids \ AutoRemoved
    /\ MaxCrashes \in Nat /\ MaxFaults \in Nat
    /\ None \notin Ids \cup Names \cup Actors
    /\ NoDir # EmptyDir
    /\ {NoDir, EmptyDir} \cap [name : Names, dead : {"yes", "no"}, running : {"yes", "no"}] = {}

VARIABLES
    \* memory of the daemon
    containers,   \* daemon.containers
    names,        \* the names table of daemon.containersReplica
    Name,         \* Container.Name
    dead, running, RemovalInProgress, RWLayer,  \* containers with the flag, with a layer
    lock,         \* who holds the lock of a container between two steps
    reap,         \* containers whose exit handler still has to call autoRemove
    act,          \* the goroutines
    boot,         \* what restore has still to do with a container
    liveRestore,  \* cfg.LiveRestoreEnabled
    \* what outlives the daemon
    disk,         \* the directory of a container: its saved fields
    layers,       \* the read-write layers of the image service
    alive,        \* containers with a process in containerd
    event,        \* containers whose exit containerd still has to report
    \* bounds and history
    used,         \* ids that were generated
    orphans,      \* creates that failed once registered, that were not cleaned up or that
                  \* the daemon crashed in, and containers restore removes while
                  \* autoRemove does
    loose,        \* names that are on disk, or in the table, without their container
    lost,         \* containers GetLayerByID failed for, and those that were known and had
                  \* no configuration on disk when the daemon died
    crashes, faults

memVars  == <<containers, names, Name, dead, running, RemovalInProgress, RWLayer>>
diskVars == <<disk, layers, alive, event>>
histVars == <<used, orphans, loose, lost, crashes, liveRestore>>
vars == <<memVars, lock, reap, act, boot, diskVars, histVars, faults>>

YesNo(b) == IF b THEN "yes" ELSE "no"
Saves == [name : Names, dead : {"yes", "no"}, running : {"yes", "no"}]
Loaded(c) == disk[c] \in Saves

Idle == [pc |-> "idle", id |-> None, name |-> None, by |-> "rm", rw |-> "no"]
Goto(a, p) == act' = [act EXCEPT ![a].pc = p]
Busy(c) == \E a \in Actors : act[a].id = c

\* the API is served once restore has returned
Up == \A c \in Ids : boot[c] \in {"none", "done", "skipped"}

-----------------------------------------------------------------------------
\* an error of the disk, the layer store or containerd
Fault == faults < MaxFaults /\ faults' = faults + 1

\* config.v2.json is replaced: the fields after the step, and the name n
WrittenAs(c, n) == disk' = [disk EXCEPT ![c] = [name |-> n, dead |-> YesNo(c \in dead'),
                                                running |-> YesNo(c \in running')]]
Written(c) == WrittenAs(c, Name'[c])

\* CheckpointTo writes and returns nil
Saved(c) == disk[c] # NoDir /\ Written(c) /\ faults' = faults

\* CheckpointTo fails: the directory is gone, or the disk has an error
NotSaved(c) == /\ IF disk[c] = NoDir THEN faults' = faults ELSE Fault
               /\ disk' = disk

\* the deferred Close of toDisk fails, which nobody hears of: nil, and nothing is written
Unwritten(c) == disk[c] # NoDir /\ disk' = disk /\ Fault

\* WriteHostConfig fails: an error, but Close has put config.v2.json in its place
HalfSaved(c, n) == disk[c] # NoDir /\ WrittenAs(c, n) /\ Fault

\* where the error of CheckpointTo is only logged: it is written or not
TrySave(c) == Saved(c) \/ NotSaved(c)

\* ReserveName: idempotent, a conflict if another container has the name
Free(n, c) == names[n] \in {None, c}
ReserveName(t, n, c) == IF t[n] = None THEN [t EXCEPT ![n] = c] ELSE t
ReleaseName(t, n) == [t EXCEPT ![n] = None]
\* mutant: the names of the container stay reserved
DeleteNames_Kept(t, c) == t
\* ViewDB.Delete
DeleteNames(t, c) == [n \in Names |-> IF t[n] = c THEN None ELSE t[n]]

-----------------------------------------------------------------------------
\* create: generateIDAndName reserves the name, or fails with a conflict
Create(a, c, n) ==
    /\ Up /\ act[a] = Idle /\ c \notin used /\ names[n] = None
    /\ used' = used \cup {c}
    /\ names' = ReserveName(names, n, c)
    /\ Name' = [Name EXCEPT ![c] = n]
    /\ act' = [act EXCEPT ![a] = [Idle EXCEPT !.pc = "create", !.id = c, !.by = "create"]]
    /\ UNCHANGED <<containers, dead, running, RemovalInProgress, RWLayer, lock, reap, boot,
                   diskVars, orphans, loose, lost, crashes, liveRestore, faults>>

\* newContainer fails once the name is reserved: nothing is cleaned up
CreateFails(c, n) ==
    /\ Up /\ c \notin used /\ names[n] = None /\ Fault
    /\ used' = used \cup {c} /\ orphans' = orphans \cup {c}
    /\ names' = ReserveName(names, n, c)
    /\ Name' = [Name EXCEPT ![c] = n]
    /\ UNCHANGED <<containers, dead, running, RemovalInProgress, RWLayer, lock, reap, boot, act,
                   diskVars, loose, lost, crashes, liveRestore>>

\* CreateLayer
CreateLayer(a) ==
    LET c == act[a].id IN
    /\ act[a].pc = "create"
    /\ \/ /\ layers' = layers \cup {c} /\ RWLayer' = RWLayer \cup {c}
          /\ Goto(a, "mkdir") /\ faults' = faults
       \/ Fault /\ Goto(a, "cleanup") /\ UNCHANGED <<layers, RWLayer>>
    /\ UNCHANGED <<containers, names, Name, dead, running, RemovalInProgress, lock, reap, boot,
                   disk, alive, event, histVars>>

\* MkdirAndChown of the directory, then CheckpointDir and createContainerVolumesOS
CreateRoot(a) ==
    LET c == act[a].id IN
    /\ act[a].pc = "mkdir"
    /\ \/ /\ disk' = [disk EXCEPT ![c] = EmptyDir]
          /\ Goto(a, "register") /\ faults' = faults
       \/ /\ Fault /\ Goto(a, "cleanup")
          /\ disk' \in {disk, [disk EXCEPT ![c] = EmptyDir]}
    /\ UNCHANGED <<memVars, lock, reap, boot, layers, alive, event, histVars>>

\* register; an error leaves the container in daemon.containers and cleans it up
Register(a) ==
    LET c == act[a].id IN
    /\ act[a].pc = "register"
    /\ containers' = containers \cup {c}
    /\ UNCHANGED <<names, Name, dead, running, RemovalInProgress, RWLayer>>
    /\ \/ /\ Saved(c) \/ Unwritten(c)
          /\ act' = [act EXCEPT ![a] = Idle] /\ orphans' = orphans
       \/ /\ NotSaved(c) \/ HalfSaved(c, Name[c])
          /\ Goto(a, "cleanup") /\ orphans' = orphans \cup {c}
    /\ UNCHANGED <<lock, reap, boot, layers, alive, event, used, loose, lost, crashes, liveRestore>>

-----------------------------------------------------------------------------
\* GetContainer of rename
RenameGet(a, c, n) ==
    /\ Up /\ act[a] = Idle /\ c \in containers
    /\ act' = [act EXCEPT ![a] = [Idle EXCEPT !.pc = "rename", !.id = c, !.name = n]]
    /\ UNCHANGED <<memVars, lock, reap, boot, diskVars, histVars, faults>>

\* takes the lock, reserves the new name and sets it; act.name is oldName from here
RenameReserve(a) ==
    LET c == act[a].id  n == act[a].name IN
    /\ act[a].pc = "rename" /\ lock[c] = None
    /\ IF Name[c] = n \/ ~Free(n, c)
       THEN act' = [act EXCEPT ![a] = Idle] /\ UNCHANGED <<names, Name, lock>>
       ELSE /\ names' = ReserveName(names, n, c)
            /\ Name' = [Name EXCEPT ![c] = n]
            /\ lock' = [lock EXCEPT ![c] = a]
            /\ act' = [act EXCEPT ![a].pc = "save", ![a].name = Name[c]]
    /\ UNCHANGED <<containers, dead, running, RemovalInProgress, RWLayer, reap, boot,
                   diskVars, histVars, faults>>

\* the deferred function of a rename that succeeds
RenameDone(a, c) ==
    /\ names' = ReleaseName(names, act[a].name)
    /\ lock' = [lock EXCEPT ![c] = None]
    /\ act' = [act EXCEPT ![a] = Idle]
    /\ Name' = Name

\* mutant: the container keeps the new name
RenameUndo_KeepsName(a, c, ns) ==
    /\ Name' = Name
    /\ names' = ReleaseName(ReserveName(names, act[a].name, c), Name[c])
    /\ lock' = [lock EXCEPT ![c] = None]
    /\ act' = [act EXCEPT ![a] = Idle]
    /\ loose' = loose \cup ns

\* the deferred functions of a rename that fails; ns: the names it is lost with
RenameUndo(a, c, ns) ==
    LET old == act[a].name IN
    /\ Name' = [Name EXCEPT ![c] = old]
    /\ names' = ReleaseName(ReserveName(names, old, c), Name[c])
    /\ lock' = [lock EXCEPT ![c] = None]
    /\ act' = [act EXCEPT ![a] = Idle]
    /\ loose' = loose \cup ns \cup (IF c \in containers THEN {} ELSE {old, Name[c]})

\* the first CheckpointTo; a container that does not run is done.  The disk may keep
\* the old name, or have the new one although the rename fails
RenameSave(a) ==
    LET c == act[a].id IN
    /\ act[a].pc = "save"
    /\ UNCHANGED <<dead, running>>
    /\ \/ /\ \/ c \in running /\ Goto(a, "sandbox") /\ UNCHANGED <<names, Name, lock>>
             \/ c \notin running /\ RenameDone(a, c)
          /\ \/ Saved(c) /\ loose' = loose
             \/ Unwritten(c) /\ loose' = loose \cup {act[a].name}
       \/ RenameUndo(a, c, {}) /\ NotSaved(c)
       \/ RenameUndo(a, c, {Name[c]}) /\ HalfSaved(c, Name[c])
    /\ UNCHANGED <<containers, RemovalInProgress, RWLayer, reap, boot, layers, alive, event,
                   used, orphans, lost, crashes, liveRestore>>

\* mutant: the old name is not saved again
RenameSandbox_NotSaved(a) ==
    LET c == act[a].id IN
    /\ act[a].pc = "sandbox"
    /\ (RenameDone(a, c) /\ loose' = loose) \/ RenameUndo(a, c, {})
    /\ UNCHANGED <<containers, dead, running, RemovalInProgress, RWLayer, reap, boot,
                   diskVars, used, orphans, lost, crashes, liveRestore, faults>>

\* the sandbox and its endpoints are renamed; on an error the old name is saved again
RenameSandbox(a) ==
    LET c == act[a].id IN
    /\ act[a].pc = "sandbox"
    /\ UNCHANGED <<dead, running>>
    /\ \/ RenameDone(a, c) /\ UNCHANGED <<loose, disk, faults>>
       \/ RenameUndo(a, c, {}) /\ Saved(c)
       \/ RenameUndo(a, c, {Name[c]}) /\ NotSaved(c)
    /\ UNCHANGED <<containers, RemovalInProgress, RWLayer, reap, boot, layers, alive, event,
                   used, orphans, lost, crashes, liveRestore>>

-----------------------------------------------------------------------------
\* GetContainer of containerRm, for a client or for autoRemove
RmGet(a, c) ==
    /\ act[a] = Idle /\ c \in containers
    /\ \/ Up /\ reap' = reap
       \/ c \in reap /\ reap' = reap \ {c}
    /\ act' = [act EXCEPT ![a] = [Idle EXCEPT !.pc = "rm", !.id = c]]
    /\ UNCHANGED <<memVars, lock, boot, diskVars, histVars, faults>>

\* autoRemove finds the container removed already
ReapGone(c) ==
    /\ c \in reap \ containers
    /\ reap' = reap \ {c}
    /\ UNCHANGED <<memVars, lock, act, boot, diskVars, histVars, faults>>

\* containerRm or cleanupContainer returns; ResetRemovalInProgress is deferred
RmReturn(a, c) ==
    /\ act' = [act EXCEPT ![a] = Idle]
    /\ RemovalInProgress' = IF act[a].by = "claim" THEN RemovalInProgress \ {c}
                                                 ELSE RemovalInProgress
    /\ boot' = [boot EXCEPT ![c] = IF @ = "removing" THEN "done" ELSE @]

\* the error of a removal; that of a failed create is only logged
RmFails(a, c) ==
    /\ Fault /\ RmReturn(a, c)
    /\ orphans' = IF act[a].by = "create" THEN orphans \cup {c} ELSE orphans

\* SetRemovalInProgress, and the second look into daemon.containers
RmClaim(a) ==
    LET c == act[a].id IN
    /\ act[a].pc = "rm" /\ lock[c] = None
    /\ IF c \in RemovalInProgress \/ c \notin containers
       THEN RmReturn(a, c)
       ELSE /\ RemovalInProgress' = RemovalInProgress \cup {c}
            /\ act' = [act EXCEPT ![a].pc = "cleanup", ![a].by = "claim"]
            /\ boot' = boot
    /\ UNCHANGED <<containers, names, Name, dead, running, RWLayer, lock, reap,
                   diskVars, histVars, faults>>

\* cleanupContainer: a running container is refused without force, or killed
RmStop(a) ==
    LET c == act[a].id IN
    /\ act[a].pc = "cleanup"
    /\ \/ /\ c \notin running
          /\ Goto(a, "dead") /\ UNCHANGED <<RemovalInProgress, boot, alive, event>>
       \/ /\ c \in running /\ Up
          /\ RmReturn(a, c) /\ UNCHANGED <<alive, event>>
       \/ /\ c \in running
          /\ alive' = alive \ {c} /\ event' = event \cup {c}
          /\ UNCHANGED <<act, RemovalInProgress, boot>>
    /\ UNCHANGED <<containers, names, Name, dead, running, RWLayer, lock, reap,
                   disk, layers, histVars, faults>>

\* SetDead, RWLayer taken, CheckpointTo
RmDead(a) ==
    LET c == act[a].id IN
    /\ act[a].pc = "dead" /\ lock[c] = None
    /\ dead' = dead \cup {c}
    /\ RWLayer' = RWLayer \ {c}
    /\ act' = [act EXCEPT ![a].pc = "layer", ![a].rw = YesNo(c \in RWLayer)]
    /\ UNCHANGED <<Name, running>> /\ TrySave(c)
    /\ UNCHANGED <<containers, names, RemovalInProgress, lock, reap, boot,
                   layers, alive, event, histVars>>

\* mutant: the layer is not put back
RmLayer_Dropped(a) ==
    LET c == act[a].id IN
    /\ act[a].pc = "layer"
    /\ \/ /\ layers' = IF act[a].rw = "yes" THEN layers \ {c} ELSE layers
          /\ Goto(a, "root") /\ UNCHANGED <<RemovalInProgress, boot, faults, orphans>>
       \/ act[a].rw = "yes" /\ lock[c] = None /\ RmFails(a, c) /\ layers' = layers
    /\ UNCHANGED <<containers, names, Name, dead, running, RWLayer, lock, reap,
                   disk, alive, event, used, loose, lost, crashes, liveRestore>>

\* ReleaseLayer; on an error the layer is put back
RmLayer(a) ==
    LET c == act[a].id IN
    /\ act[a].pc = "layer"
    /\ \/ /\ layers' = IF act[a].rw = "yes" THEN layers \ {c} ELSE layers
          /\ Goto(a, "root")
          /\ UNCHANGED <<RWLayer, RemovalInProgress, boot, faults, orphans>>
       \/ /\ act[a].rw = "yes" /\ lock[c] = None
          /\ RWLayer' = RWLayer \cup {c}
          /\ RmFails(a, c) /\ layers' = layers
    /\ UNCHANGED <<containers, names, Name, dead, running, lock, reap,
                   disk, alive, event, used, loose, lost, crashes, liveRestore>>

\* EnsureRemoveAll; if it fails the configuration may be gone, the directory is not
RmRoot(a) ==
    LET c == act[a].id IN
    /\ act[a].pc = "root" /\ lock[c] = None
    /\ \/ /\ disk' = [disk EXCEPT ![c] = NoDir]
          /\ Goto(a, "forget") /\ UNCHANGED <<RemovalInProgress, boot, faults, orphans>>
       \/ /\ RmFails(a, c) /\ disk[c] # NoDir
          /\ disk' \in {disk, [disk EXCEPT ![c] = EmptyDir]}
    /\ UNCHANGED <<containers, names, Name, dead, running, RWLayer, lock, reap,
                   layers, alive, event, used, loose, lost, crashes, liveRestore>>

\* containers.Delete
RmForget(a) ==
    LET c == act[a].id IN
    /\ act[a].pc = "forget"
    /\ containers' = containers \ {c}
    /\ Goto(a, "names")
    /\ UNCHANGED <<names, Name, dead, running, RemovalInProgress, RWLayer, lock, reap, boot,
                   diskVars, histVars, faults>>

\* containersReplica.Delete, and the return
RmNames(a) ==
    LET c == act[a].id IN
    /\ act[a].pc = "names"
    /\ names' = DeleteNames(names, c)
    /\ RmReturn(a, c)
    /\ UNCHANGED <<containers, Name, dead, running, RWLayer, lock, reap,
                   diskVars, histVars, faults>>

-----------------------------------------------------------------------------
\* mutant: a dead container is not refused
NoStart_Dead(c) == c \in running \cup RemovalInProgress

\* containerStart refuses it, or has nothing to do
NoStart(c) == c \in running \cup RemovalInProgress \cup dead

\* containerStart up to the new task; a task that is left over is replaced
NewTask(a, c) ==
    /\ act[a] = Idle /\ lock[c] = None /\ ~NoStart(c)
    /\ alive' = alive \cup {c}
    /\ lock' = [lock EXCEPT ![c] = a]
    /\ act' = [act EXCEPT ![a] = [Idle EXCEPT !.pc = "started", !.id = c]]
    /\ UNCHANGED <<memVars, reap, disk, layers, event, histVars, faults>>

StartTask(a, c) == Up /\ c \in containers /\ NewTask(a, c) /\ boot' = boot

\* SetRunning and CheckpointTo
StartSave(a) ==
    LET c == act[a].id IN
    /\ act[a].pc = "started"
    /\ running' = running \cup {c}
    /\ lock' = [lock EXCEPT ![c] = None]
    /\ act' = [act EXCEPT ![a] = Idle]
    /\ UNCHANGED <<Name, dead>> /\ TrySave(c)
    /\ boot' = [boot EXCEPT ![c] = IF @ = "starting" THEN "done" ELSE @]
    /\ UNCHANGED <<containers, names, RemovalInProgress, RWLayer, reap,
                   layers, alive, event, histVars>>

\* the process ends; containerd reports it while it has somebody to report to
TaskExit(c) ==
    /\ c \in alive
    /\ alive' = alive \ {c} /\ event' = event \cup {c}
    /\ UNCHANGED <<memVars, lock, reap, act, boot, disk, layers, histVars, faults>>

\* handleContainerExit; an event for a container that is not known, that runs or
\* that is exited, dead or being removed is ignored.  A container that is not
\* running may be in state created, and then its exit is handled
HandleExit(c) ==
    /\ c \in event /\ lock[c] = None
    /\ event' = event \ {c}
    /\ \/ /\ c \in containers /\ c \notin alive
          /\ c \in running \/ c \notin dead \cup RemovalInProgress
          /\ running' = running \ {c}
          /\ reap' = IF c \in AutoRemoved THEN reap \cup {c} ELSE reap
          /\ UNCHANGED <<Name, dead>> /\ TrySave(c)
       \/ /\ c \notin containers \/ c \in alive \/ c \notin running
          /\ UNCHANGED <<running, Name, dead, reap, disk, faults>>
    /\ UNCHANGED <<containers, names, RemovalInProgress, RWLayer, lock, act, boot,
                   layers, alive, histVars>>

-----------------------------------------------------------------------------
\* the daemon dies, maybe within EnsureRemoveAll, and is started again: loadContainers
\* reads the directories and skips those without a configuration
Crash ==
    /\ crashes < MaxCrashes /\ crashes' = crashes + 1
    /\ containers' = {} /\ names' = [n \in Names |-> None]
    /\ dead' = {} /\ running' = {} /\ RemovalInProgress' = {} /\ RWLayer' = {}
    /\ lock' = [c \in Ids |-> None] /\ reap' = {}
    /\ act' = [a \in Actors |-> Idle]
    /\ \E cut \in SUBSET {c \in Ids : Loaded(c) /\ \E a \in Actors : act[a].id = c /\ act[a].pc = "root"} :
         disk' = [c \in Ids |-> IF c \in cut THEN EmptyDir ELSE disk[c]]
    /\ boot' = [c \in Ids |-> IF Loaded(c)' THEN "load" ELSE "none"]
    /\ event' = {} /\ liveRestore' \in {"on", "off"}
    /\ orphans' = orphans \cup {c \in Ids : \E a \in Actors : act[a].id = c /\ act[a].by = "create"}
    /\ lost' = {c \in lost : ~Loaded(c)'} \cup {c \in containers : disk'[c] = EmptyDir}
    /\ UNCHANGED <<Name, layers, alive, used, loose, faults>>

\* group.Wait(): no container is left in one of these stages of restore
Waited(stages) == \A c \in Ids : boot[c] \notin stages

\* the first loop of restore: an error of GetLayerByID is only logged
BootNoLayer(c) ==
    /\ boot[c] = "load" /\ c \in layers \ lost /\ Fault
    /\ lost' = lost \cup {c}
    /\ UNCHANGED <<memVars, lock, reap, act, boot, diskVars, used, orphans, loose, crashes, liveRestore>>

\* registerName and register; what CheckpointTo writes is what was read
BootRegister(c) ==
    LET n == disk[c].name IN
    /\ boot[c] = "load"
    /\ Name' = [Name EXCEPT ![c] = n]
    /\ dead' = IF disk[c].dead = "yes" THEN dead \cup {c} ELSE dead
    /\ running' = IF disk[c].running = "yes" THEN running \cup {c} ELSE running
    /\ RWLayer' = IF c \in layers \ lost THEN RWLayer \cup {c} ELSE RWLayer
    /\ IF Free(n, c)
       THEN /\ names' = ReserveName(names, n, c)
            /\ containers' = containers \cup {c}
            /\ \/ Saved(c) /\ boot' = [boot EXCEPT ![c] = "sync"]
               \/ NotSaved(c) /\ boot' = [boot EXCEPT ![c] = "skipped"]
       ELSE /\ boot' = [boot EXCEPT ![c] = "skipped"]
            /\ UNCHANGED <<names, containers, disk, faults>>
    /\ UNCHANGED <<RemovalInProgress, lock, reap, act, layers, alive, event, histVars>>

\* mutant: what was saved is believed
IsAlive_Saved(c) == liveRestore = "on" /\ c \in running

\* the task that RestoreTask found is left to run
IsAlive(c) == liveRestore = "on" /\ c \in alive

\* the lists of containers to restart and to remove
Listed(c, isAlive) ==
    \E b \in IF c \in RestartPolicy THEN {"restart", "done"}
              ELSE IF c \in AutoRemoved /\ ~isAlive THEN {"remove"} ELSE {"done"} :
        boot' = [boot EXCEPT ![c] = b]

\* the second loop: what containerd says of the task, and what to do next
BootSync(c) ==
    /\ boot[c] = "sync" /\ Waited({"load"}) /\ lock[c] = None
    /\ running' = IF IsAlive(c) THEN running ELSE running \ {c}
    /\ alive' = IF c \in running /\ ~IsAlive(c) THEN alive \ {c} ELSE alive
    /\ reap' = IF c \in running \cap alive \cap AutoRemoved /\ ~IsAlive(c)
               THEN reap \cup {c} ELSE reap
    /\ UNCHANGED <<Name, dead>> /\ TrySave(c)
    /\ Listed(c, IsAlive(c))
    /\ UNCHANGED <<containers, names, RemovalInProgress, RWLayer, lock, act, layers, event,
                   histVars>>

\* an error of containerd ends the work on a container
BootSyncError(c) ==
    /\ boot[c] = "sync" /\ Waited({"load"}) /\ Fault
    /\ boot' = [boot EXCEPT ![c] = "skipped"]
    /\ UNCHANGED <<memVars, lock, reap, act, diskVars, histVars>>

\* an error of Status is only logged: the container is set to stopped, its process lives
BootStatusError(c) ==
    /\ boot[c] = "sync" /\ Waited({"load"}) /\ lock[c] = None /\ c \in alive /\ Fault
    /\ running' = running \ {c}
    /\ UNCHANGED <<Name, dead>>
    /\ IF c \in running /\ disk[c] # NoDir THEN Written(c) ELSE disk' = disk
    /\ Listed(c, FALSE)
    /\ UNCHANGED <<containers, names, RemovalInProgress, RWLayer, lock, reap, act, layers, alive,
                   event, histVars>>

\* restartContainers
BootStart(a, c) ==
    /\ boot[c] = "restart" /\ Waited({"load", "sync"})
    /\ NewTask(a, c) /\ boot' = [boot EXCEPT ![c] = "starting"]

BootNoStart(c) ==
    /\ boot[c] = "restart" /\ Waited({"load", "sync"}) /\ NoStart(c)
    /\ boot' = [boot EXCEPT ![c] = "done"]
    /\ UNCHANGED <<memVars, lock, reap, act, diskVars, histVars, faults>>

\* removeContainers
BootRemove(a, c) ==
    /\ boot[c] = "remove" /\ Waited({"load", "sync", "restart", "starting"})
    /\ act[a] = Idle
    /\ IF c \in dead \/ c \in containers
       THEN /\ act' = [act EXCEPT ![a] = [Idle EXCEPT !.id = c,
                                            !.pc = IF c \in dead THEN "cleanup" ELSE "rm"]]
            /\ boot' = [boot EXCEPT ![c] = "removing"]
       ELSE boot' = [boot EXCEPT ![c] = "done"] /\ act' = act
    /\ orphans' = orphans \cup ({c} \cap dead \cap RemovalInProgress)
    /\ UNCHANGED <<memVars, lock, reap, diskVars, used, loose, lost, crashes, liveRestore, faults>>

-----------------------------------------------------------------------------
Init ==
    /\ containers = {} /\ names = [n \in Names |-> None]
    /\ Name \in [Ids -> {None}]
    /\ dead = {} /\ running = {} /\ RemovalInProgress = {} /\ RWLayer = {}
    /\ lock = [c \in Ids |-> None] /\ reap = {}
    /\ act = [a \in Actors |-> Idle] /\ boot = [c \in Ids |-> "none"]
    /\ liveRestore = "off"
    /\ disk = [c \in Ids |-> NoDir] /\ layers = {} /\ alive = {} /\ event = {}
    /\ used = {} /\ orphans = {} /\ loose = {} /\ lost = {} /\ crashes = 0 /\ faults = 0

Step(a) ==
    \/ CreateLayer(a) \/ CreateRoot(a) \/ Register(a)
    \/ RenameReserve(a) \/ RenameSave(a) \/ RenameSandbox(a)
    \/ RmClaim(a) \/ RmStop(a) \/ RmDead(a) \/ RmLayer(a) \/ RmRoot(a) \/ RmForget(a)
    \/ RmNames(a) \/ StartSave(a)

Next ==
    \/ \E a \in Actors : Step(a)
    \/ \E a \in Actors, c \in Ids :
         \/ \E n \in Names : Create(a, c, n) \/ RenameGet(a, c, n)
         \/ RmGet(a, c) \/ StartTask(a, c) \/ BootStart(a, c) \/ BootRemove(a, c)
    \/ \E c \in Ids : \/ ReapGone(c) \/ TaskExit(c) \/ HandleExit(c)
                      \/ \E n \in Names : CreateFails(c, n)
                      \/ BootNoLayer(c) \/ BootRegister(c) \/ BootSync(c) \/ BootSyncError(c)
                      \/ BootStatusError(c) \/ BootNoStart(c)
    \/ Crash

Spec == Init /\ [][Next]_vars

-----------------------------------------------------------------------------
\* A container the daemon knows has its name reserved, through every rename,
\* removal, failure and restart: nobody else is given it (names.go).  Excepted are
\* the names in loose: a rename loses track of them that fails after its container was
\* removed, or whose CheckpointTo leaves another name on disk than in memory.
OwnsItsName == \A c \in containers : Name[c] \in loose \/ names[Name[c]] = c

\* a create that is not over, or that failed in the life of this daemon
FailedCreate(c) == \/ boot[c] = "none" /\ c \in orphans
                   \/ \E a \in Actors : act[a].id = c /\ act[a].by = "create"

\* After a restart every container with a saved configuration is known again, those
\* included that the clean-up of a failed create saved: no two of them claim a name, so
\* that restore drops none ("failed to register container name").  Excepted is a name
\* that a rename left on disk and gave up: when it is given to another container before
\* the restart, one of the two is dropped.
NobodyLeftOut == \A c \in Ids : Loaded(c) /\ boot[c] # "load" =>
                    c \in containers \/ disk[c].name \in loose \/ FailedCreate(c)

\* A container that is saved as dead is never started again, whatever fails or
\* crashes, but for one a failed create left behind ("a restart of docker should not
\* make a dead container alive").
DeadOnDisk == \A c \in Ids \ orphans : Loaded(c) /\ disk[c].dead = "yes" =>
                 c \notin running /\ \A a \in Actors : act[a].pc = "started" => act[a].id # c

\* A container is reported as running only if its process lives or its exit is
\* on its way, also after the process ended while the daemon was down.
RunningHasProcess ==
    Up => \A c \in containers \cap running : c \in alive \cup event \/ boot[c] = "skipped"

\* What a container took is given back when it is gone: its layer, its directory
\* and its names.  Excepted are creates that failed (orphans) and containers that restore
\* gave up on; the layer of one that restore did not find the layer of, or that was not on
\* disk when the daemon died, and the empty directory of the latter (lost); and the names
\* in loose.
NothingLeftBehind ==
    \A c \in used \ (containers \cup orphans) : Up /\ ~Busy(c) =>
        /\ disk[c] = NoDir \/ boot[c] = "skipped" \/ (disk[c] = EmptyDir /\ c \in lost)
        /\ c \notin layers \/ boot[c] = "skipped" \/ c \in lost
        /\ \A n \in Names \ loose : names[n] # c

\* "If the remove succeeds, the container name is released" (delete.go)
NameReleased == \A c \in used \ containers : (\A a \in Actors : act[a] = Idle) =>
                  \A n \in Names : names[n] # c

Acts == [pc : {"idle", "create", "mkdir", "register", "rename", "save", "sandbox", "rm",
               "cleanup", "dead", "layer", "root", "forget", "names", "started"},
         id : Ids \cup {None}, name : Names \cup {None},
         by : {"rm", "create", "claim"}, rw : {"yes", "no"}]

TypeOK ==
    /\ containers \subseteq Ids /\ names \in [Names -> Ids \cup {None}]
    /\ Name \in [Ids -> Names \cup {None}]
    /\ dead \subseteq Ids /\ running \subseteq Ids
    /\ RemovalInProgress \subseteq Ids /\ RWLayer \subseteq Ids
    /\ lock \in [Ids -> Actors \cup {None}] /\ reap \subseteq Ids
    /\ act \in [Actors -> Acts]
    /\ boot \in [Ids -> {"none", "load", "sync", "restart", "starting", "remove",
                         "removing", "done", "skipped"}]
    /\ liveRestore \in {"on", "off"}
    /\ disk \in [Ids -> Saves \cup {NoDir, EmptyDir}]
    /\ layers \subseteq Ids /\ alive \subseteq Ids /\ event \subseteq Ids
    /\ used \subseteq Ids /\ orphans \subseteq Ids /\ loose \subseteq Names /\ lost \subseteq Ids
    /\ crashes \in 0 .. MaxCrashes /\ faults \in 0 .. MaxFaults

\* a goroutine that creates a container, or renames one
Creating(a) == act[a].pc \in {"create", "mkdir", "register"}
Renaming(a) == act[a].pc \in {"save", "sandbox"}

Reserved(n, c) == n \in loose \/ names[n] = c

\* what a goroutine rests on while it has a name to take or to give back
ActOk(a) ==
    LET c == act[a].id IN
    /\ IF act[a].pc = "idle" THEN c = None ELSE c \in used
    /\ Creating(a) => /\ c \notin containers /\ boot[c] = "none" /\ Reserved(Name[c], c)
                      /\ \A b \in Actors \ {a} : act[b].id # c
    /\ act[a].pc = "rename" \/ Renaming(a) =>
          act[a].name \in Names /\ (disk[c] # NoDir => c \in containers)
    /\ Renaming(a) => /\ lock[c] = a /\ act[a].name # Name[c]
                      /\ c \in containers => Reserved(act[a].name, c)
    /\ act[a].pc = "sandbox" => disk[c] # NoDir
    /\ act[a].pc = "started" => lock[c] = a
    /\ act[a].pc \in {"forget", "names"} => disk[c] = NoDir
    /\ act[a].pc = "names" => c \notin containers

\* a container that restore has still to read is nobody's business
IdOk(c) ==
    /\ c \in containers \/ boot[c] # "none" \/ disk[c] # NoDir => c \in used
    /\ c \in used => Name[c] \in Names
    /\ boot[c] = "load" => /\ Loaded(c) /\ c \notin containers
                           /\ \A a \in Actors : act[a].id # c

\* The inductive invariant behind OwnsItsName: a create is alone with its container
\* until it is registered, a rename has the container's lock and both names, and
\* whoever is about to drop the names of a container has removed its directory, so
\* that a rename that comes too late fails in CheckpointTo.
NamesInv ==
    /\ TypeOK /\ OwnsItsName
    /\ \A a \in Actors : ActOk(a)
    /\ \A c \in Ids : IdOk(c)

-----------------------------------------------------------------------------
\* goroutines of clients that create or rename, of a start, of a removal
Client(a) == Creating(a) \/ Renaming(a) \/ act[a].pc = "rename"
Starting(c) == \E a \in Actors : act[a].id = c /\ act[a].pc = "started"
Saving(a, c) == act[a].id = c /\ act[a].pc = "save"
Removing(a) == act[a].pc \in {"cleanup", "dead", "layer", "root", "forget", "names"}
InRm(a, c) == act[a].id = c /\ (act[a].pc = "rm" \/ Removing(a))

\* What is on disk of a container that is known has a name it owns: the one it has,
\* or the old one of a rename that is about to save.  What restore has still to read
\* is claimed by nobody, and no two directories have a name.
SavedOk(c) ==
    LET n == disk[c].name IN
    Loaded(c) /\ n \notin loose =>
        IF boot[c] = "load"
        THEN names[n] = None /\ \A d \in Ids \ {c} : boot[d] = "load" => disk[d].name # n
        ELSE /\ c \in containers \/ FailedCreate(c)
             /\ names[n] = c
             /\ \/ n = Name[c] /\ \A a \in Actors : ~Saving(a, c)
                \/ \E a \in Actors : Saving(a, c) /\ act[a].name = n

\* Who is at work on a container that is not known finds no directory, so that it
\* saves nothing, but for the clean-up of a create, which still has the name.
OnDisk(c) ==
    /\ \A a \in Actors : act[a].id = c =>
          /\ act[a].pc \in {"create", "mkdir"} => disk[c] = NoDir
          /\ c \in containers \/ disk[c] = NoDir \/ (act[a].by = "create" /\ Reserved(Name[c], c))
          /\ act[a].by = "create" => boot[c] = "none"
    /\ boot[c] \notin {"none", "load", "done", "skipped"} => c \in containers \/ disk[c] = NoDir
    /\ SavedOk(c)

\* A removal has claimed its container, alone, or cleans up after a create, or is one
\* that restore starts without a claim.
Claimed(c) ==
    \A a \in Actors : act[a].id = c =>
        /\ Creating(a) <=> act[a].by = "create" /\ ~Removing(a)
        /\ act[a].by = "claim" => Removing(a) /\ c \in RemovalInProgress
        /\ act[a].by = "claim" =>
              \A b \in Actors : act[b].id = c /\ act[b].by = "claim" => b = a

\* What keeps a start away from the look at running to SetDead: the claim, a create
\* nobody knows of, or that the container is dead already.
DeadOk(c) ==
    /\ c \in dead \/ boot[c] = "load" => c \notin running /\ ~Starting(c)
    /\ boot[c] = "load" => c \notin dead
    /\ Loaded(c) /\ disk[c].dead = "yes" =>
          disk[c].running = "no" /\ (boot[c] = "load" \/ c \in dead)
    /\ \A a \in Actors : act[a].id = c /\ Removing(a) =>
          /\ ~Starting(c)
          /\ act[a].pc # "cleanup" \/ act[a].by = "create" => c \notin running
          /\ act[a].by = "create" => c \notin containers /\ boot[c] = "none"
          /\ act[a].by = "rm" => c \in dead

\* A container that runs, or is about to, has a process or an exit to be handled.
ProcessOk(c) ==
    /\ c \in containers /\ c \in running => boot[c] \in {"sync", "skipped"} \/ c \in alive \cup event
    /\ \A a \in Actors : act[a].id = c =>
          /\ act[a].pc = "started" => c \in alive \cup event
          /\ Creating(a) => c \notin running
    /\ c \in running => c \in used

\* During restore a container is removed once more at most: its process, the exit
\* event, what autoRemove has still to do and the goroutine of autoRemove follow one
\* another, and once it is dead nothing of that is left but the goroutine.
OneRemoval(c) ==
    /\ c \in alive => c \notin event
    /\ c \in alive \cup event => c \notin reap /\ \A a \in Actors : ~InRm(a, c)
    /\ c \in reap => \A a \in Actors : ~InRm(a, c)
    /\ \A a, b \in Actors : InRm(a, c) /\ InRm(b, c) => a = b
    /\ c \in reap \/ (\E a \in Actors : InRm(a, c)) => c \notin running
    /\ c \in dead \ RemovalInProgress => c \notin reap /\ \A a \in Actors : ~InRm(a, c)
    /\ boot[c] = "load" => c \notin reap

\* A goroutine in cleanupContainer has the container to itself, and has released the
\* layer before it removes the directory.
Alone(a, c) ==
    /\ \A b \in Actors : act[b].id = c /\ Removing(b) => b = a
    /\ act[a].by = "rm" => /\ boot[c] = "removing" /\ c \notin reap
                           /\ \A b \in Actors : InRm(b, c) => b = a
    /\ act[a].pc \in {"layer", "root", "forget", "names"} => c \notin RWLayer
    /\ act[a].pc \in {"root", "forget", "names"} => c \notin layers \/ c \in lost

\* A layer is with the container or with the goroutine that releases it.
LayerOk(c) ==
    c \in layers \ lost =>
        /\ \/ c \in RWLayer \/ boot[c] = "load"
           \/ \E a \in Actors : act[a].id = c /\ act[a].pc = "layer" /\ act[a].rw = "yes"
        /\ \/ Loaded(c) \/ (disk[c] = EmptyDir /\ c \in containers)
           \/ \E a \in Actors : act[a].id = c /\ act[a].by = "create"

\* A directory, and a name, is of a container that is known or that a goroutine is
\* about to clean up; a directory may also be one that restore reads or has given up on,
\* or be without a configuration and of a container that was known.
TracedOk(c) ==
    /\ disk[c] # NoDir => \/ c \in containers
                          \/ Loaded(c) /\ boot[c] \in {"load", "skipped"}
                          \/ \E a \in Actors : act[a].id = c /\ act[a].by = "create"
                          \/ disk[c] = EmptyDir /\ c \in lost
    /\ \A n \in Names \ loose : names[n] = c =>
          \/ c \in containers
          \/ \E a \in Actors : /\ act[a].id = c
                               /\ \/ act[a].by = "create" \/ act[a].pc = "names"
                                  \/ Renaming(a) /\ n \in {Name[c], act[a].name}

LeftOk(c) ==
    /\ LayerOk(c) /\ TracedOk(c)
    /\ \A a \in Actors : act[a].id = c /\ Removing(a) => Alone(a, c)
    /\ boot[c] \in {"load", "sync", "remove"} => OneRemoval(c)

\* The inductive invariant: NobodyLeftOut follows from OnDisk, DeadOnDisk from
\* DeadOk, RunningHasProcess from ProcessOk and NothingLeftBehind from LeftOk.
RegistryInv ==
    /\ NamesInv
    /\ \A a \in Actors : Client(a) => Up
    /\ \A c \in Ids : OnDisk(c) /\ Claimed(c) /\ ProcessOk(c)
    /\ \A c \in Ids \ orphans : DeadOk(c) /\ LeftOk(c)

=============================================================================
