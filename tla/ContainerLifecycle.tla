------------------------- MODULE ContainerLifecycle -------------------------
(***************************************************************************)
(* The life of one container under concurrent API calls, containerd events *)
(* and the daemon's own goroutines (daemon/{start,stop,kill,restart,pause, *)
(* unpause,delete,monitor}.go with daemon/container).                      *)
(*                                                                         *)
(* The container lock is held for the whole of each locked section, so a   *)
(* locked section is one action.  What the code does between two locked    *)
(* sections (the IsRunning checks, the calls of State.Wait, the spawned    *)
(* goroutines) is where the interleavings are, so each of those is a step  *)
(* of its own.  Timeouts may fire at any moment.                           *)
(*                                                                         *)
(* Actors are the API clients, "events" (the goroutine that runs the       *)
(* per-container FIFO of containerd events), "reaper" (the goroutine that  *)
(* killWithSignal starts when the process is already gone).  The goroutine *)
(* that waits for the restart manager is the variable restarter.           *)
(***************************************************************************)
EXTENDS Sequences, ContainerState

CONSTANTS Clients,        \* concurrent API calls
          Ops,            \* the calls they make
          Policy,         \* HostConfig.RestartPolicy
          MaxRetry,       \* its MaximumRetryCount
          AutoRemove,     \* HostConfig.AutoRemove
          StopForever,    \* a negative stop timeout
          SignalMatches,  \* Config.StopSignal is unset, or is the signal sent
          Errors,         \* the calls that may fail, see AllErrors
          MaxRuns,        \* bound: processes started
          MaxFaults,      \* bound: exit events lost or duplicated
          MaxQueue        \* bound: queue length at which no client (un)pauses

Goroutines == {"events", "reaper"}
Actors == Clients \cup Goroutines

AllOps == {"start", "stop", "kill", "signal", "restart", "pause", "unpause",
           "rm", "rm -f", "shutdown"}

\* a start: before its task exists, after it, in setting up its network;
\* a signal to the task; a removal: of the layer, of the root directory
AllErrors == {"early", "created", "network", "signal", "layer", "filesystem"}

ASSUME ConstantsAssumption ==
    /\ Clients \cap Goroutines = {}
    /\ Ops \subseteq AllOps
    /\ Policy \in {"no", "always", "unless-stopped", "on-failure"}
    /\ AutoRemove \in BOOLEAN /\ StopForever \in BOOLEAN /\ SignalMatches \in BOOLEAN
    /\ Errors \subseteq AllErrors
    /\ MaxRetry \in Nat /\ MaxRuns \in Nat /\ MaxFaults \in Nat /\ MaxQueue \in Nat

\* verifyContainerSettings and UpdateContainer refuse the combination
ASSUME AutoRemoveAssumption == AutoRemove => Policy = "no"

VARIABLES
    st,                 \* the container's State
    manuallyStopped,    \* HasBeenManuallyStopped
    manuallyRestarted,  \* HasBeenManuallyRestarted
    rm,                 \* its RestartManager
    restarter,          \* the goroutine waiting for a restart
    task,               \* containerd's task of the container
    queue,              \* events of the container not yet processed
    shutdown,           \* the daemon is shutting down
    registered,         \* the container is in daemon.containers
    layer,              \* its read-write layer: held, taken by a removal, released
    act,                \* what each actor is doing
    wait,               \* the result channel of each actor's State.Wait
    faults,             \* exit events lost or duplicated so far
    misfired            \* history: an exit was handled of a process that lived,
                        \* or twice of the same process

ctrVars == <<st, manuallyStopped, manuallyRestarted, rm, restarter>>
envVars == <<task, queue, faults>>
rmVars  == <<registered, layer, shutdown>>
vars == <<st, manuallyStopped, manuallyRestarted, rm, restarter, task, queue,
          shutdown, registered, layer, act, wait, faults, misfired>>

-----------------------------------------------------------------------------
(* Data *)

Events == [type: {"start", "exit", "paused", "resumed"}, gen: Nat, code: AllCodes]
Event(type, gen, code) == [type |-> type, gen |-> gen, code |-> code]

Tasks == [status: {"none", "running", "paused", "stopped"}, gen: Nat,
          code: AllCodes, sig: {"none", "term", "kill"}, lost: BOOLEAN]
Alive == task.status \in {"running", "paused"}

RestartManagers == [canceled: BOOLEAN, active: BOOLEAN, restartCount: Nat]
NewRestartManager(count) == [canceled |-> FALSE, active |-> FALSE, restartCount |-> count]

Restarters == [pc: {"none", "waiting", "fired", "failed"}, canceled: BOOLEAN, code: AllCodes]

WaitPcs == {"stopWait", "stopWaitErr", "killWait", "finalWait", "lastWait", "reapWait",
            "shutdownWait"}
Pcs == WaitPcs \cup
       {"idle", "startLock", "restartMark", "clearRestarted",
        "stopEnter", "stopSignal", "killEnter", "killSignal", "killDirect", "reapExit",
        "rmEnter", "rmCheck", "rmDead", "rmLayer", "rmFs", "rmUnregister", "rmRemoved", "rmReset"}

\* inStop: inside containerStop; inRm: this actor set RemovalInProgress;
\* gen: the run it was asked to stop; ret: what its containerStop returned
ActorStates == [op: AllOps \cup {"none", "reap", "autorm"}, pc: Pcs, inStop: BOOLEAN,
                inRm: BOOLEAN, gen: Nat, ret: {"none", "stopped", "error"}]
Call(op, pc, inStop, gen) == [op |-> op, pc |-> pc, inStop |-> inStop, inRm |-> FALSE,
                              gen |-> gen, ret |-> "none"]
Idle == Call("none", "idle", FALSE, 0)
Returned(r, ret) == [Idle EXCEPT !.gen = r.gen, !.ret = ret]
At(r, pc) == [r EXCEPT !.pc = pc]

TypeOK ==
    /\ st \in State
    /\ manuallyStopped \in BOOLEAN /\ manuallyRestarted \in BOOLEAN
    /\ rm \in RestartManagers
    /\ restarter \in Restarters
    /\ task \in Tasks
    /\ queue \in Seq(Events)
    /\ shutdown \in BOOLEAN
    /\ registered \in BOOLEAN
    /\ layer \in {"held", "taken", "released"}
    /\ act \in [Actors -> ActorStates]
    /\ wait \in [Actors -> {"none", "waiting", "ok", "err"}]
    /\ faults \in Nat
    /\ misfired \in BOOLEAN

Init ==
    /\ st = NewState
    /\ manuallyStopped = FALSE /\ manuallyRestarted = FALSE
    /\ rm = NewRestartManager(0)
    /\ restarter = [pc |-> "none", canceled |-> FALSE, code |-> 0]
    /\ task = [status |-> "none", gen |-> 0, code |-> 0, sig |-> "none", lost |-> FALSE]
    /\ queue = <<>>
    /\ shutdown = FALSE
    /\ registered = TRUE
    /\ layer = "held"
    /\ act = [a \in Actors |-> Idle]
    /\ wait = [a \in Actors |-> "none"]
    /\ faults = 0
    /\ misfired = FALSE

Become(a, r) == act' = [act EXCEPT ![a] = r]
Goto(a, pc) == Become(a, At(act[a], pc))

\* notifyAndClear(&stopWaiters), with the error of the new state s
Notified(s) == [a \in Actors |-> IF wait[a] = "waiting" THEN WaitStatus(s) ELSE wait[a]]

-----------------------------------------------------------------------------
(* Where an actor goes when the function it is in returns *)

\* containerRm returns (after the deferred ResetRemovalInProgress)
AfterRm(r) ==
    IF r.op = "restart"
    THEN [At(r, "clearRestarted") EXCEPT !.inRm = FALSE]
    ELSE Idle

\* containerStop returns: to cleanupContainer, containerRestart, shutdownContainer
\* or ContainerStop
AfterStop(r, ok) ==
    IF r.inRm
    THEN [At(r, IF ok THEN "rmDead" ELSE "rmReset") EXCEPT !.inStop = FALSE]
    ELSE IF r.op = "restart"
    THEN [At(r, IF ok THEN "startLock" ELSE "clearRestarted") EXCEPT !.inStop = FALSE]
    ELSE IF r.op = "shutdown" /\ ok
    THEN [At(r, "shutdownWait") EXCEPT !.inStop = FALSE]
    ELSE Returned(r, IF ok THEN "stopped" ELSE "error")

\* mutant: a failed kill counts as a kill
AfterKill_IgnoresError(r, res) ==
    IF r.inStop THEN AfterStop(r, TRUE)
    ELSE Returned(r, "stopped")

\* kill returns nil, errNotRunning or another error:
\* to containerStop, cleanupContainer or ContainerKill
AfterKill(r, res) ==
    IF r.inStop
    THEN IF res = "nil" THEN AfterStop(r, TRUE) ELSE At(r, "lastWait")
    ELSE IF r.inRm
    THEN IF res = "error" THEN At(r, "rmReset")
         ELSE [At(r, "stopEnter") EXCEPT !.inStop = TRUE]
    ELSE IF res = "nil" THEN Returned(r, "stopped") ELSE Idle

\* the channel of State.Wait yields: ok iff the status carries no error
AfterWait(r, ok) ==
    CASE r.pc = "reapWait"  -> IF ok THEN Idle ELSE At(r, "reapExit")
      [] r.pc = "killWait"  -> IF ok THEN AfterKill(r, "nil") ELSE At(r, "killDirect")
      [] r.pc = "finalWait" -> AfterKill(r, IF ok THEN "nil" ELSE "error")
      [] r.pc = "lastWait"  -> AfterStop(r, ok)
      [] r.pc = "shutdownWait" -> Returned(r, "stopped")
      [] OTHER              -> IF ok THEN AfterStop(r, TRUE)
                               ELSE IF StopForever /\ ~r.inRm
                               THEN AfterStop(r, r.pc = "stopWait")
                               ELSE At(r, "killEnter")

-----------------------------------------------------------------------------
(* State.Wait with condition NotRunning *)

Wait(a) ==
    /\ act[a].pc \in WaitPcs
    /\ wait[a] = "none"
    /\ wait' = [wait EXCEPT ![a] = IF st.Running THEN "waiting" ELSE WaitStatus(st)]
    /\ UNCHANGED <<ctrVars, envVars, rmVars, act, misfired>>

\* mutant: no wait has a timeout
HasTimeout_Never(r) == FALSE

\* the waits of a stop, or of the reaper, have no timeout if the stop timeout
\* is negative; a removal stops with a timeout of its own
HasTimeout(r) ==
    /\ r.pc # "shutdownWait"
    /\ r.pc \in {"stopWait", "stopWaitErr", "reapWait"} => (~StopForever \/ r.inRm)

WaitReturn(a) ==
    /\ act[a].pc \in WaitPcs
    /\ \/ wait[a] \in {"ok", "err"}
          /\ Become(a, AfterWait(act[a], wait[a] = "ok"))
       \/ wait[a] = "waiting" /\ HasTimeout(act[a])
          /\ Become(a, AfterWait(act[a], FALSE))
    /\ wait' = [wait EXCEPT ![a] = "none"]
    /\ UNCHANGED <<ctrVars, envVars, rmVars, misfired>>

-----------------------------------------------------------------------------
(* containerStart *)

\* mutant: a dead container can be started
StartRefused_NotDead == st.RemovalInProgress

StartRefused == st.RemovalInProgress \/ st.Dead

\* ReplaceContainer force-deletes a task that is still there
ReplacedExit == IF Alive THEN <<Event("exit", task.gen, Killed)>> ELSE <<>>

\* a process is started in a new task
StartTask ==
    /\ task.gen < MaxRuns
    /\ task' = [status |-> "running", gen |-> task.gen + 1, code |-> 0, sig |-> "none", lost |-> FALSE]
    /\ queue' = (queue \o ReplacedExit) \o <<Event("start", task.gen + 1, 0)>>
    /\ st' = SetRunning(st, task.gen + 1)
    /\ manuallyRestarted' = FALSE

\* the task is created, then deleted by force because the start failed
CreateTaskAndFail(err) ==
    /\ err \in Errors \cap {"created", "network"}
    /\ task.gen < MaxRuns
    /\ task' = [status |-> "none", gen |-> task.gen + 1, code |-> Killed, sig |-> "none", lost |-> FALSE]
    /\ queue' = (queue \o ReplacedExit) \o <<Event("exit", task.gen + 1, Killed)>>
    /\ st' = SetStartError(st, IF err = "network" THEN "setup networking" ELSE "start")
    /\ UNCHANGED manuallyRestarted

FailEarly ==
    /\ "early" \in Errors
    /\ st' = SetStartError(st, "start")
    /\ UNCHANGED <<task, queue, manuallyRestarted>>

\* ResetRestartManager(true) and HasBeenManuallyStopped = false
ResetRestartManager ==
    /\ rm' = NewRestartManager(0)
    /\ restarter' = IF restarter.pc = "waiting"
                    THEN [restarter EXCEPT !.canceled = TRUE] ELSE restarter
    /\ manuallyStopped' = FALSE

KeepRestartManager == UNCHANGED <<rm, restarter, manuallyStopped>>

\* where a caller of containerStart goes on an error of containerStart
StartFailed(r) ==
    IF r.op = "restart" THEN At(r, "clearRestarted") ELSE Idle

\* after the deferred error path, which removes an AutoRemove container
StartCleanedUp(r) ==
    IF AutoRemove THEN At(r, "rmEnter") ELSE StartFailed(r)

\* the locked section of containerStart(resetRestartManager = true)
containerStart(a) ==
    /\ act[a].pc = "startLock"
    /\ \/ /\ st.Running
          /\ Become(a, Idle)
          /\ UNCHANGED <<ctrVars, task, queue>>
       \/ /\ ~st.Running /\ StartRefused
          /\ Become(a, StartFailed(act[a]))
          /\ UNCHANGED <<ctrVars, task, queue>>
       \/ /\ ~st.Running /\ ~StartRefused
          /\ StartTask /\ ResetRestartManager
          /\ Become(a, Idle)
       \/ /\ ~st.Running /\ ~StartRefused
          /\ \/ FailEarly /\ (ResetRestartManager \/ KeepRestartManager)
             \/ \E err \in Errors : CreateTaskAndFail(err) /\ ResetRestartManager
          /\ Become(a, StartCleanedUp(act[a]))
    /\ UNCHANGED <<faults, rmVars, wait, misfired>>

-----------------------------------------------------------------------------
(* killWithSignal, kill, containerStop *)

\* mutant: Cancel closes the channel and does not set canceled
ExitOnNext_NotCanceled ==
    /\ restarter' = IF restarter.pc = "waiting"
                    THEN [restarter EXCEPT !.canceled = TRUE] ELSE restarter
    /\ UNCHANGED rm

\* ExitOnNext: RestartManager().Cancel()
ExitOnNext ==
    /\ rm' = [rm EXCEPT !.canceled = TRUE]
    /\ restarter' = IF restarter.pc = "waiting"
                    THEN [restarter EXCEPT !.canceled = TRUE] ELSE restarter

\* the goroutine started when the signal finds no process; a second one started
\* while the first is busy is one that has not been scheduled
SpawnReaper(acts) ==
    IF act["reaper"].pc = "idle"
    THEN [acts EXCEPT !["reaper"] = Call("reap", "reapWait", FALSE, task.gen)]
    ELSE acts

\* GetRunningTask succeeds: a container that is restarting after its first start
\* failed is Running and has no task
GetRunningTask == st.Running /\ st.task

\* the locked section of killWithSignal; next and failed are the states of
\* the caller after a nil result and after an error
killWithSignal(a, sig, next, failed) ==
    \/ /\ ~GetRunningTask
       /\ Become(a, failed)
       /\ UNCHANGED <<ctrVars, task, queue>>
    \/ /\ GetRunningTask
       /\ IF sig = "kill" \/ SignalMatches THEN ExitOnNext ELSE UNCHANGED <<rm, restarter>>
       /\ manuallyStopped' = (manuallyStopped \/ ~shutdown)
       /\ \/ /\ st.Restarting
             /\ Become(a, next)
             /\ UNCHANGED <<task, queue>>
          \/ /\ ~st.Restarting /\ Alive
             /\ LET unpause == st.Paused /\ (sig = "kill" \/ SignalMatches)
                                /\ task.status = "paused"
                IN /\ task' = [task EXCEPT !.sig = IF @ = "kill" THEN @ ELSE sig,
                                           !.status = IF unpause THEN "running" ELSE @]
                   /\ queue' = IF unpause THEN Append(queue, Event("resumed", task.gen, 0))
                                          ELSE queue
             /\ Become(a, next)
          \/ /\ ~st.Restarting /\ ~Alive
             /\ act' = SpawnReaper([act EXCEPT ![a] = next])
             /\ UNCHANGED <<task, queue>>
          \/ /\ ~st.Restarting /\ "signal" \in Errors
             /\ Become(a, failed)
             /\ UNCHANGED <<task, queue>>
       /\ UNCHANGED <<st, manuallyRestarted>>

\* containerStop: the IsRunning check, then the stop signal
StopEnter(a) ==
    /\ act[a].pc = "stopEnter"
    /\ Become(a, IF st.Running THEN At(act[a], "stopSignal") ELSE AfterStop(act[a], TRUE))
    /\ UNCHANGED <<ctrVars, envVars, rmVars, wait, misfired>>

StopSignal(a) ==
    /\ act[a].pc = "stopSignal"
    /\ killWithSignal(a, "term", At(act[a], "stopWait"), At(act[a], "stopWaitErr"))
    /\ UNCHANGED <<faults, rmVars, wait, misfired>>

\* kill: the IsRunning check, SIGKILL through containerd, SIGKILL to the pid
KillEnter(a) ==
    /\ act[a].pc = "killEnter"
    /\ Become(a, IF st.Running THEN At(act[a], "killSignal")
                           ELSE AfterKill(act[a], "not running"))
    /\ UNCHANGED <<ctrVars, envVars, rmVars, wait, misfired>>

KillSignal(a) ==
    /\ act[a].pc = "killSignal"
    /\ IF act[a].op = "signal"
       THEN killWithSignal(a, "term", Idle, Idle)
       ELSE killWithSignal(a, "kill", At(act[a], "killWait"), At(act[a], "killWait"))
    /\ UNCHANGED <<faults, rmVars, wait, misfired>>

killProcessDirectly(a) ==
    /\ act[a].pc = "killDirect"
    /\ \/ /\ st.Pid = 0
          /\ Goto(a, "finalWait")
          /\ UNCHANGED task
       \/ /\ st.Pid # 0 /\ Alive /\ task.gen = st.Pid
          /\ task' = [task EXCEPT !.sig = "kill"]
          /\ Goto(a, "finalWait")
       \/ /\ st.Pid # 0 /\ ~(Alive /\ task.gen = st.Pid)
          /\ \E res \in {"nil", "error"} :     \* no such process, or a zombie
                Become(a, AfterKill(act[a], res))
          /\ UNCHANGED task
    /\ UNCHANGED <<ctrVars, queue, faults, rmVars, wait, misfired>>

-----------------------------------------------------------------------------
(* containerRm and cleanupContainer *)

\* mutant: a removal in progress is not noticed
RmEnter_NotExclusive(a) ==
    /\ act[a].pc = "rmEnter"
    /\ st' = SetRemovalInProgress(st)
    /\ Become(a, [At(act[a], "rmCheck") EXCEPT !.inRm = TRUE])
    /\ UNCHANGED <<manuallyStopped, manuallyRestarted, rm, restarter, envVars, rmVars, wait, misfired>>

\* SetRemovalInProgress; autoRemove looks the container up first
RmEnter(a) ==
    /\ act[a].pc = "rmEnter"
    /\ IF st.RemovalInProgress \/ (act[a].op \notin {"rm", "rm -f"} /\ ~registered)
       THEN /\ Become(a, AfterRm(act[a]))
            /\ UNCHANGED st
       ELSE /\ st' = SetRemovalInProgress(st)
            /\ Become(a, [At(act[a], "rmCheck") EXCEPT !.inRm = TRUE])
    /\ UNCHANGED <<manuallyStopped, manuallyRestarted, rm, restarter, envVars, rmVars, wait, misfired>>

RmCheck(a) ==
    /\ act[a].pc = "rmCheck"
    /\ Become(a, IF ~registered \/ (st.Running /\ act[a].op = "rm") THEN At(act[a], "rmReset")
                 ELSE IF st.Running THEN At(act[a], "killEnter")
                 ELSE [At(act[a], "stopEnter") EXCEPT !.inStop = TRUE])
    /\ UNCHANGED <<ctrVars, envVars, rmVars, wait, misfired>>

\* mutant: the container is not marked dead
RmDead_NotMarked(a) ==
    /\ act[a].pc = "rmDead"
    /\ layer' = IF layer = "held" THEN "taken" ELSE layer
    /\ Goto(a, "rmLayer")
    /\ UNCHANGED <<ctrVars, envVars, registered, shutdown, wait, misfired>>

\* mark the container dead and take its layer
RmDead(a) ==
    /\ act[a].pc = "rmDead"
    /\ st' = SetDead(st)
    /\ layer' = IF layer = "held" THEN "taken" ELSE layer
    /\ Goto(a, "rmLayer")
    /\ UNCHANGED <<manuallyStopped, manuallyRestarted, rm, restarter, envVars, registered, shutdown, wait, misfired>>

\* a removal error wakes every waiter
RemovalError(a) ==
    /\ st' = SetRemovalError(st)
    /\ wait' = Notified(SetRemovalError(st))
    /\ Goto(a, "rmReset")

\* ReleaseLayer, EnsureRemoveAll
RmLayer(a) ==
    /\ act[a].pc = "rmLayer"
    /\ \/ layer' = "released" /\ Goto(a, "rmFs") /\ UNCHANGED <<st, wait>>
       \/ layer = "taken" /\ "layer" \in Errors
          /\ layer' = "held" /\ RemovalError(a)
    /\ UNCHANGED <<manuallyStopped, manuallyRestarted, rm, restarter, envVars, registered, shutdown, misfired>>

RmFs(a) ==
    /\ act[a].pc = "rmFs"
    /\ \/ Goto(a, "rmUnregister") /\ UNCHANGED <<st, wait>>
       \/ "filesystem" \in Errors /\ RemovalError(a)
    /\ UNCHANGED <<manuallyStopped, manuallyRestarted, rm, restarter, envVars, rmVars, misfired>>

RmUnregister(a) ==
    /\ act[a].pc = "rmUnregister"
    /\ registered' = FALSE
    /\ Goto(a, "rmRemoved")
    /\ UNCHANGED <<ctrVars, envVars, layer, shutdown, wait, misfired>>

RmRemoved(a) ==
    /\ act[a].pc = "rmRemoved"
    /\ st' = SetRemoved(st)
    /\ wait' = Notified(SetRemoved(st))
    /\ Goto(a, "rmReset")
    /\ UNCHANGED <<manuallyStopped, manuallyRestarted, rm, restarter, envVars, rmVars, misfired>>

RmReset(a) ==
    /\ act[a].pc = "rmReset"
    /\ st' = ResetRemovalInProgress(st)
    /\ Become(a, AfterRm(act[a]))
    /\ UNCHANGED <<manuallyStopped, manuallyRestarted, rm, restarter, envVars, rmVars, wait, misfired>>

-----------------------------------------------------------------------------
(* handleContainerExit and ProcessEvent *)

NoEvent == Event("exit", 0, 0)

\* mutants: every event of a stopped task is ignored; its exit code is not compared
shouldIgnoreExitEvent_Stopped(e) ==
    /\ e # NoEvent
    /\ \/ StateString(st) \in {"removing", "exited", "dead", "restarting"}
       \/ StateString(st) = "running" /\ task.status \in {"running", "stopped"}
shouldIgnoreExitEvent_AnyCode(e) ==
    /\ e # NoEvent
    /\ \/ StateString(st) \in {"removing", "exited", "dead", "restarting"}
       \/ StateString(st) = "running" /\ task.status = "running"

\* shouldIgnoreExitEventWithLock
shouldIgnoreExitEvent(e) ==
    /\ e # NoEvent
    /\ \/ StateString(st) \in {"removing", "exited", "dead", "restarting"}
       \/ /\ StateString(st) = "running"
          /\ \/ task.status = "running"
             \/ task.status = "stopped" /\ task.code # e.code

\* RestartManager.ShouldRestart
ShouldRestart(code) ==
    /\ ~rm.canceled /\ ~rm.active
    /\ \/ Policy = "always"
       \/ Policy = "unless-stopped" /\ ~manuallyStopped /\ ~shutdown
       \/ /\ Policy = "on-failure" /\ code # 0
          /\ MaxRetry = 0 \/ rm.restartCount < MaxRetry

\* the rest of the locked section: the task is deleted (which fails while the
\* process lives), the restart manager asked, the state set, autoRemove called
ExitHandled(a, e) ==
    LET exitCode == IF e # NoEvent THEN e.code
                    ELSE IF task.status = "stopped" THEN task.code ELSE 0
        restart == ShouldRestart(exitCode)
        new == IF restart THEN SetRestarting(st, exitCode) ELSE SetStopped(st, exitCode)
    IN /\ task' = IF task.status = "stopped" THEN [task EXCEPT !.status = "none"] ELSE task
       /\ st' = new
       /\ wait' = Notified(new)
       /\ rm' = IF restart THEN [rm EXCEPT !.active = TRUE, !.restartCount = @ + 1] ELSE rm
       /\ restarter' = IF restart /\ restarter.pc = "none"
                       THEN [pc |-> "waiting", canceled |-> FALSE, code |-> exitCode]
                       ELSE restarter
       /\ Become(a, IF ~restart /\ AutoRemove /\ ~manuallyRestarted
                    THEN Call("autorm", "rmEnter", FALSE, 0) ELSE Idle)
       /\ misfired' = (misfired \/ Alive \/ st.Restarting \/ (e = NoEvent /\ task.status = "none"))

handleContainerExit(a, e) ==
    /\ IF st.ErrorMsg = "setup networking" \/ shouldIgnoreExitEvent(e)
       THEN /\ Become(a, Idle)
            /\ UNCHANGED <<st, rm, restarter, task, wait, misfired>>
       ELSE ExitHandled(a, e)
    /\ UNCHANGED <<manuallyStopped, manuallyRestarted, faults, rmVars>>

\* the queue runs one event at a time, and the next only when it has returned
NextEvent(type) ==
    /\ act["events"].pc = "idle"
    /\ queue # <<>> /\ Head(queue).type = type
    /\ queue' = Tail(queue)

\* GetContainer fails for a container that is gone
EventDropped ==
    /\ ~registered
    /\ \E type \in {"start", "exit", "paused", "resumed"} : NextEvent(type)
    /\ UNCHANGED <<ctrVars, task, faults, rmVars, act, wait, misfired>>

EventExit ==
    /\ registered /\ NextEvent("exit")
    /\ handleContainerExit("events", Head(queue))

\* "a start not generated by docker", if containerd still has the task
EventStart ==
    /\ registered /\ NextEvent("start")
    /\ IF ~st.Running /\ task.status # "none"
       THEN /\ st' = SetRunningExternal(st, task.gen)
            /\ manuallyStopped' = FALSE
       ELSE UNCHANGED <<st, manuallyStopped>>
    /\ UNCHANGED <<manuallyRestarted, rm, restarter, task, faults, rmVars, act, wait, misfired>>

EventPaused ==
    /\ registered /\ NextEvent("paused")
    /\ st' = SetPaused(st, TRUE)
    /\ UNCHANGED <<manuallyStopped, manuallyRestarted, rm, restarter, task, faults, rmVars, act, wait, misfired>>

\* mutant: the event is dropped
EventResumed_Dropped ==
    /\ registered /\ NextEvent("resumed")
    /\ UNCHANGED <<ctrVars, task, faults, rmVars, act, wait, misfired>>

EventResumed ==
    /\ registered /\ NextEvent("resumed")
    /\ st' = SetPaused(st, FALSE)
    /\ UNCHANGED <<manuallyStopped, manuallyRestarted, rm, restarter, task, faults, rmVars, act, wait, misfired>>

\* the goroutine of killWithSignal gives up waiting for the exit event
ReapExit ==
    /\ act["reaper"].pc = "reapExit"
    /\ handleContainerExit("reaper", NoEvent)
    /\ UNCHANGED queue

-----------------------------------------------------------------------------
(* the goroutine that waits for the restart manager *)

RestartTimer ==
    /\ restarter.pc = "waiting"
    /\ restarter' = [restarter EXCEPT !.pc = "fired"]
    /\ rm' = IF restarter.canceled THEN rm ELSE [rm EXCEPT !.active = FALSE]
    /\ UNCHANGED <<st, manuallyStopped, manuallyRestarted, envVars, rmVars, act, wait, misfired>>

\* mutant: the goroutine returns and leaves the state as it is
RestartCanceled_Returns ==
    /\ restarter.pc = "waiting" /\ restarter.canceled
    /\ restarter' = [restarter EXCEPT !.pc = "none"]
    /\ UNCHANGED <<st, manuallyStopped, manuallyRestarted, rm, envVars, rmVars, act, wait, misfired>>

RestartCanceled ==
    /\ restarter.pc = "waiting" /\ restarter.canceled
    /\ restarter' = [restarter EXCEPT !.pc = "failed"]
    /\ UNCHANGED <<st, manuallyStopped, manuallyRestarted, rm, envVars, rmVars, act, wait, misfired>>

\* containerStart(resetRestartManager = false)
RestarterStart ==
    /\ restarter.pc = "fired"
    /\ \/ /\ StartRefused
          /\ restarter' = [restarter EXCEPT !.pc = "failed"]
          /\ UNCHANGED <<st, manuallyRestarted, task, queue>>
       \/ /\ ~StartRefused /\ StartTask
          /\ restarter' = [restarter EXCEPT !.pc = "none"]
       \/ /\ ~StartRefused /\ (FailEarly \/ \E err \in Errors : CreateTaskAndFail(err))
          /\ restarter' = [restarter EXCEPT !.pc = "failed"]
    /\ UNCHANGED <<manuallyStopped, rm, faults, rmVars, act, wait, misfired>>

RestarterFailed ==
    /\ restarter.pc = "failed"
    /\ restarter' = [restarter EXCEPT !.pc = "none"]
    /\ st' = SetStopped(st, restarter.code)
    /\ wait' = Notified(SetStopped(st, restarter.code))
    /\ UNCHANGED <<manuallyStopped, manuallyRestarted, rm, envVars, rmVars, act, misfired>>

-----------------------------------------------------------------------------
(* API calls *)

Begin(c, op, pc) ==
    /\ c \in Clients /\ act[c].pc = "idle" /\ op \in Ops /\ registered
    /\ Become(c, Call(op, pc, FALSE, 0))

\* validateState
ContainerStart(c) ==
    /\ Begin(c, "start", "startLock")
    /\ ~st.Paused /\ ~st.Running /\ ~st.RemovalInProgress /\ ~st.Dead
    /\ UNCHANGED <<ctrVars, envVars, rmVars, wait, misfired>>

BeginStopping(c, op, pc, inStop) ==
    /\ c \in Clients /\ act[c].pc = "idle" /\ op \in Ops /\ registered
    /\ st.Running
    /\ Become(c, Call(op, pc, inStop, task.gen))
    /\ UNCHANGED <<ctrVars, envVars, rmVars, wait, misfired>>

ContainerStop(c) == BeginStopping(c, "stop", "stopEnter", TRUE)

ContainerKill(c) == \/ BeginStopping(c, "kill", "killSignal", FALSE)
                    \/ BeginStopping(c, "signal", "killSignal", FALSE)

\* of a container that is not running, a restart is a start without validateState
ContainerRestart(c) ==
    /\ c \in Clients /\ act[c].pc = "idle" /\ "restart" \in Ops /\ registered
    /\ Become(c, IF st.Running THEN Call("restart", "restartMark", FALSE, 0)
                               ELSE Call("start", "startLock", FALSE, 0))
    /\ UNCHANGED <<ctrVars, envVars, rmVars, wait, misfired>>

RestartMark(c) ==
    /\ act[c].pc = "restartMark"
    /\ manuallyRestarted' = TRUE
    /\ Become(c, [At(act[c], "stopEnter") EXCEPT !.inStop = TRUE])
    /\ UNCHANGED <<st, manuallyStopped, rm, restarter, envVars, rmVars, wait, misfired>>

ClearRestarted(c) ==
    /\ act[c].pc = "clearRestarted"
    /\ manuallyRestarted' = FALSE
    /\ Become(c, Idle)
    /\ UNCHANGED <<st, manuallyStopped, rm, restarter, envVars, rmVars, wait, misfired>>

ContainerPause(c) ==
    /\ c \in Clients /\ act[c].pc = "idle" /\ "pause" \in Ops /\ registered
    /\ st.Running /\ ~st.Paused /\ ~st.Restarting
    /\ task.status = "running" /\ Len(queue) < MaxQueue
    /\ task' = [task EXCEPT !.status = "paused"]
    /\ queue' = Append(queue, Event("paused", task.gen, 0))
    /\ st' = SetPaused(st, TRUE)
    /\ UNCHANGED <<manuallyStopped, manuallyRestarted, rm, restarter, faults, rmVars, act, wait, misfired>>

ContainerUnpause(c) ==
    /\ c \in Clients /\ act[c].pc = "idle" /\ "unpause" \in Ops /\ registered
    /\ st.Paused /\ st.Running
    /\ task.status = "paused" /\ Len(queue) < MaxQueue
    /\ task' = [task EXCEPT !.status = "running"]
    /\ queue' = Append(queue, Event("resumed", task.gen, 0))
    /\ st' = SetPaused(st, FALSE)
    /\ UNCHANGED <<manuallyStopped, manuallyRestarted, rm, restarter, faults, rmVars, act, wait, misfired>>

ContainerRm(c) ==
    /\ \/ Begin(c, "rm", "rmEnter")
       \/ Begin(c, "rm -f", "rmEnter")
    /\ UNCHANGED <<ctrVars, envVars, rmVars, wait, misfired>>

\* Shutdown calls shutdownContainer on every container that IsRunning
Shutdown(c) ==
    /\ c \in Clients /\ act[c].pc = "idle" /\ "shutdown" \in Ops /\ registered
    /\ ~shutdown /\ shutdown' = TRUE
    /\ Become(c, IF st.Running THEN Call("shutdown", "stopEnter", TRUE, task.gen) ELSE Idle)
    /\ UNCHANGED <<ctrVars, envVars, registered, layer, wait, misfired>>

-----------------------------------------------------------------------------
(* containerd: the process exits, and its exit event is delivered copies times *)

ProcessExit(code, copies) ==
    /\ \/ task.status = "running"
       \/ task.status = "paused" /\ task.sig = "kill"
    /\ task.sig # "kill" => code # Killed
    /\ task' = [task EXCEPT !.status = "stopped", !.code = code, !.sig = "none",
                            !.lost = (copies = 0)]
    /\ queue' = queue \o [i \in 1..copies |-> Event("exit", task.gen, code)]
    /\ faults' = IF copies = 1 THEN faults ELSE faults + 1
    /\ faults' <= MaxFaults
    /\ UNCHANGED <<ctrVars, rmVars, act, wait, misfired>>

-----------------------------------------------------------------------------
ClientBegins(c) ==
    \/ ContainerStart(c) \/ ContainerStop(c) \/ ContainerKill(c) \/ ContainerRestart(c)
    \/ ContainerPause(c) \/ ContainerUnpause(c) \/ ContainerRm(c)
    \/ Shutdown(c)

ActorStep(a) ==
    \/ containerStart(a) \/ Wait(a) \/ WaitReturn(a)
    \/ StopEnter(a) \/ StopSignal(a) \/ KillEnter(a) \/ KillSignal(a) \/ killProcessDirectly(a)
    \/ RmEnter(a) \/ RmCheck(a) \/ RmDead(a) \/ RmLayer(a) \/ RmFs(a)
    \/ RmUnregister(a) \/ RmRemoved(a) \/ RmReset(a)
    \/ RestartMark(a) \/ ClearRestarted(a)

EventStep == EventExit \/ EventStart \/ EventPaused \/ EventResumed \/ EventDropped

RestarterStep == RestartTimer \/ RestartCanceled \/ RestarterStart \/ RestarterFailed

Next ==
    \/ \E c \in Clients : ClientBegins(c)
    \/ \E a \in Actors : ActorStep(a)
    \/ EventStep \/ ReapExit \/ RestarterStep
    \/ \E code \in AllCodes \ {exitUnknown}, copies \in 0..2 : ProcessExit(code, copies)

Spec == Init /\ [][Next]_vars

\* a process that got one of these signals exits, and containerd reports it
SignalledExit(sigs) ==
    task.sig \in sigs /\ \E code \in AllCodes \ {exitUnknown} : ProcessExit(code, 1)

\* goroutines that can run do run, timers fire, and killed processes exit
Fairness ==
    /\ \A a \in Actors : WF_vars(ActorStep(a))
    /\ WF_vars(EventStep) /\ WF_vars(ReapExit) /\ WF_vars(RestarterStep)
    /\ WF_vars(SignalledExit({"kill"}))

FairSpec == Spec /\ Fairness

\* moreover no process ignores its stop signal
ObedientSpec == FairSpec /\ WF_vars(SignalledExit({"term", "kill"}))

-----------------------------------------------------------------------------
(* Properties *)

\* A live process belongs to a container that is Running, is not Restarting and
\* has recorded that process's pid: no interleaving of starts, exits and the
\* restart goroutine loses a process (SetStopped and SetRestarting are only
\* reached through handleContainerExit and the restart goroutine).  The one
\* exception is an exit that handleContainerExit attributes wrongly, see misfired.
RunningIfAlive ==
    ~misfired /\ Alive => st.Running /\ ~st.Restarting /\ st.Pid = task.gen

\* cleanupContainer marks a container Dead, and goes on to release its layer and
\* its root directory, only when its process is gone, whatever its containerStop
\* raced with and however it returned.
DeadHasNoProcess == ~misfired /\ st.Dead => ~Alive

\* A stop, a kill or a shutdown that reports success has ended the process that
\* ran when it was called, even if it was not the one whose signal did it.
StopKills ==
    \A c \in Clients :
        ~misfired /\ act[c].ret = "stopped" => ~(Alive /\ task.gen <= act[c].gen)

\* shouldIgnoreExitEventWithLock never ignores the event that matters: while a
\* container is Running and its process is gone, the exit event of that process
\* is still to be processed, unless containerd lost it.
ExitNotLost ==
    ~misfired /\ st.Running /\ ~st.Restarting /\ ~Alive /\ ~task.lost /\ registered =>
        \E i \in 1..Len(queue) : queue[i] = Event("exit", task.gen, task.code)

\* The exit code of a container that ran, and now has stopped or waits for its
\* restart, is the one of its last process.
CodeAgrees ==
    st.started /\ st.ErrorMsg = "" /\ ~st.removed /\ (~st.Running \/ st.Restarting)
        => st.ExitCode = task.code

\* Neither a duplicate event, nor one of an earlier run, nor a restart that is
\* given up makes a container report the exit code of another process.  One
\* thing does: shouldIgnoreExitEventWithLock compares the codes of a container
\* whose state is "running" only, so the exit event of an earlier run is taken
\* for the one of the current run if that run, which has ended, is shown as paused.
ExitCodeReported ==
    [][CodeAgrees /\ ~CodeAgrees' /\ ~misfired'
        => /\ queue # <<>> /\ queue' = Tail(queue) /\ st.Paused
           /\ Head(queue).type = "exit" /\ Head(queue).gen < task.gen]_vars

\* RemovalInProgress is a lock: at most one removal is past SetRemovalInProgress,
\* whoever started it (a client, autoRemove, the error path of containerStart);
\* the layer it took is given back or released, and released before the
\* container leaves the daemon's list.
RemovalExclusive ==
    /\ \A a, b \in Actors : act[a].inRm /\ act[b].inRm => a = b
    /\ st.RemovalInProgress <=> \E a \in Actors : act[a].inRm
    /\ layer = "taken" => \E a \in Actors : act[a].pc = "rmLayer"
    /\ ~registered => layer = "released" /\ st.Dead

\* "We don't want anybody to be restarting it" (cleanupContainer): a Dead
\* container stays dead and no start gives it another process.
DeadStaysDead == [][st.Dead => st'.Dead /\ task'.gen = task.gen]_vars

\* With no paused or resumed event left to process, the Paused flag is what
\* containerd says of the process.
FlagAgrees ==
    Alive /\ (\A i \in 1..Len(queue) : queue[i].type \notin {"paused", "resumed"})
        => (st.Paused <=> task.status = "paused")

\* The Paused flag, which both the API calls and the events set, ends up as what
\* containerd says of the process, whatever is stopped, restarted or lost between
\* a call and its event.  One thing breaks the agreement: ProcessEvent does not
\* compare an event with the current task, so an event of an earlier run, left
\* in the queue when the goroutine of killWithSignal handled that run's exit, is
\* applied to the run that followed.
PauseAgrees ==
    [][FlagAgrees /\ ~FlagAgrees' /\ ~misfired'
        => /\ queue # <<>> /\ queue' = Tail(queue)
           /\ Head(queue).type \in {"paused", "resumed"} /\ Head(queue).gen < task.gen]_vars

\* After a stop, a kill or a shutdown that reports success, and no newer run, no
\* restart is pending: ExitOnNext reached the restart manager before the exit did.
\* A stop with another signal than the container's StopSignal does not call it.
StopIsFinal ==
    \A c \in Clients :
        SignalMatches /\ ~misfired /\ st.ErrorMsg = ""
            /\ act[c].ret = "stopped" /\ act[c].gen = task.gen
            => restarter.pc = "none"

\* Every call and every reaper returns, even if containerd loses the exit event they
\* wait for: the timeouts of kill, killProcessDirectly and the reaper see to it.  A
\* shutdown does too unless the exit event is lost or an exit is attributed wrongly:
\* shutdownContainer's last wait has no timeout.
EveryCallReturns ==
    \A a \in Actors :
        act[a].pc # "idle" ~> \/ act[a].pc = "idle"
                              \/ act[a].op # "shutdown" /\ task.gen = MaxRuns
                              \/ act[a].op = "shutdown" /\ (task.lost \/ misfired)

\* An exit that containerd reports is eventually acted on.
ExitIsHandled ==
    st.Running /\ ~st.Restarting /\ ~Alive /\ ~task.lost /\ registered
        ~> (~st.Running \/ st.Restarting \/ Alive \/ ~registered)

\* Restarting is transient: the restart goroutine starts the container or
\* declares it stopped.
RestartingEnds == st.Restarting ~> (~st.Restarting \/ task.gen = MaxRuns)

-----------------------------------------------------------------------------
(* The inductive invariant behind the safety properties *)

\* the places a removal holds RemovalInProgress at: its own, and the kill and the
\* stop it calls
RmPcs == {"rmCheck", "rmDead", "rmLayer", "rmFs", "rmUnregister", "rmRemoved", "rmReset"}
InRmPcs == RmPcs \cup {"killEnter", "killSignal", "killWait", "killDirect", "finalWait",
                       "stopEnter", "stopSignal", "stopWait", "stopWaitErr", "lastWait"}

\* The restart goroutine exists only while the container is Restarting.
RestarterInv ==
    ~misfired /\ restarter.pc # "none" => st.Running /\ st.Restarting /\ ~Alive

\* A removal in progress is the property of one actor.
RemovalInv ==
    /\ \A a \in Actors : act[a].inRm => st.RemovalInProgress /\ act[a].pc \in InRmPcs
    /\ \A a \in Actors : act[a].pc \in RmPcs => act[a].inRm
    /\ \A a \in Actors : act[a].op = "signal" => act[a].pc = "killSignal" /\ ~act[a].inRm
    /\ \A a \in Actors : act[a].pc = "rmLayer" => st.Dead
    /\ \A a \in Actors : act[a].pc \in {"rmFs", "rmUnregister", "rmRemoved"}
                            => st.Dead /\ layer = "released"

\* An actor has a result channel only while it waits; once the channel has a
\* result, or a removal is past its stop, the process it was about is gone.
GoneInv ==
    /\ \A a \in Actors : wait[a] # "none" => act[a].pc \in WaitPcs
    /\ \A a \in Actors : act[a].gen <= task.gen
    /\ \A a \in Actors : ~misfired /\ wait[a] \in {"ok", "err"}
                            => ~(Alive /\ (act[a].inRm \/ task.gen <= act[a].gen))
    /\ \A a \in Actors : ~misfired /\ act[a].pc = "rmDead" => ~Alive

LifecycleInv ==
    /\ TypeOK
    /\ RunningIfAlive
    /\ RestarterInv
    /\ RemovalInv /\ RemovalExclusive
    /\ GoneInv /\ DeadHasNoProcess /\ StopKills

\* the last event in the queue about the process being paused
LastPause(i) ==
    /\ queue[i].type \in {"paused", "resumed"}
    /\ \A j \in i + 1..Len(queue) : queue[j].type \notin {"paused", "resumed"}

\* The queue: an event is of the current run or of an earlier one; an exit event of
\* the current run has its code, and the last paused or resumed event its status.
EventInv ==
    /\ task.status # "none" => 0 < task.gen
    /\ \A i \in 1..Len(queue) : 0 < queue[i].gen /\ queue[i].gen <= task.gen
    /\ \A i \in 1..Len(queue) : queue[i].type = "exit" /\ queue[i].gen = task.gen
                                    => ~Alive /\ queue[i].code = task.code
    /\ \A i \in 1..Len(queue) :
           Alive /\ queue[i].gen = task.gen /\ LastPause(i)
               => (queue[i].type = "paused" <=> task.status = "paused")

\* The container is Running, and not Restarting, as long as containerd has its task;
\* State.task is then set.
TaskInv ==
    ~misfired =>
        /\ st.Running /\ ~st.Restarting <=> task.status # "none"
        /\ st.Restarting => st.Pid = 0
        /\ st.Running /\ ~st.Restarting => st.ErrorMsg # "setup networking"
        /\ st.Running /\ ~st.Restarting => st.task
        /\ st.started \/ task.gen = 0 \/ st.ErrorMsg # "" \/ st.Dead
        /\ restarter.pc # "none" /\ st.ErrorMsg = "" /\ ~st.removed => restarter.code = st.ExitCode

\* no restart follows the exit of the current run, unless there has been no run yet, so
\* that GetRunningTask failed before ExitOnNext; and no restart is pending
NoRestart == GetRunningTask => rm.canceled
Final == ~st.Running \/ (rm.canceled /\ restarter.pc = "none")

\* where an actor has called ExitOnNext, or found the container not running or without
\* a task; and where a removal is past its stop
AskedPcs == {"stopWait", "stopWaitErr", "killWait", "killDirect", "finalWait", "lastWait",
             "shutdownWait"}
PastStopPcs == {"rmDead", "rmLayer", "rmFs", "rmUnregister", "rmRemoved"}

\* the run it was asked to stop is the current one, and no start has failed since;
\* a removal keeps every start out
OfThisRun(a) == act[a].gen = task.gen /\ st.ErrorMsg = ""
Asked(a) == act[a].pc \in AskedPcs /\ (act[a].inRm \/ OfThisRun(a))
Stopped(a) == \/ Asked(a) /\ wait[a] \in {"ok", "err"}
              \/ act[a].ret = "stopped" /\ OfThisRun(a)
              \/ act[a].pc \in PastStopPcs

\* A restart manager that an actor has canceled stays so until the next run, and
\* what the actor then waits for ends the pending restart.
StopInv ==
    SignalMatches /\ ~misfired =>
        \A a \in Actors : (Asked(a) => NoRestart) /\ (Stopped(a) => Final)

RunInv == EventInv /\ TaskInv /\ ExitNotLost /\ StopInv

-----------------------------------------------------------------------------
(* The life of a container implements StateSetters *)

Setters == INSTANCE StateSetters WITH
    Pids <- 1..MaxRuns,
    Codes <- AllCodes,
    Msgs <- {"start", "setup networking"}

\* Whatever the calls, events and goroutines do, the container's State only ever goes
\* through the methods of State, one a step, under the guards StateSetters gives them:
\* containerStart never revives a container that is being removed, and cleanupContainer
\* marks it dead, fails or succeeds only while the removal is its own.
ImplementsSetters == Setters!Spec

-----------------------------------------------------------------------------
(* What comments in the code say, and the code does not do *)

\* kill.go: waiting for the exit event before handling the exit of a process that
\* was not found "prevents race conditions in processing the container".
\* monitor.go: an exit event that arrives while the container runs "must be a
\* duplicate from a previous run, so ignore it".
\* Either way a live process is never recorded as stopped or as restarting.
AliveIsRunning == Alive => st.Running /\ ~st.Restarting

\* restart.go: the flag HasBeenManuallyRestarted "is only cleared once the
\* container is started again.  If the restart fails, make sure it doesn't linger".
RestartFlagDoesNotLinger ==
    ~misfired /\ manuallyRestarted => \E c \in Clients : act[c].op = "restart"

\* kill.go: for a restarting container "telling the monitor that it should exit
\* on its next event loop is enough": a stop need not signal it to come back.
StopReturns == \A c \in Clients : act[c].op = "stop" ~> act[c].op # "stop"
=============================================================================
