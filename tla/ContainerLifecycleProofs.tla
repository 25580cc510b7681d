---------------------- MODULE ContainerLifecycleProofs ----------------------
(***************************************************************************)
(* The theorems about ContainerLifecycle, for any set of clients, any      *)
(* restart policy, any errors and any bounds.  LifecycleInv is inductive   *)
(* by StepInv; RunInv is so relative to it.  A step is first classified by *)
(* what it does to the run of the container (RunStep); EventInv, TaskInv   *)
(* and ExitNotLost are shown to be kept by each class, StopInv by each     *)
(* action.                                                                 *)
(***************************************************************************)
EXTENDS LifecycleStepProofs

-----------------------------------------------------------------------------
(* What follows from LifecycleInv *)

\* The invariant that the others are parts of: start, stop, kill, restart, pause,
\* remove, exit events and the restart goroutine all keep it, in any interleaving.
THEOREM InvariantHolds == Spec => []LifecycleInv
  BY InitInv, StepInv, PTL DEF Spec

\* Every variable keeps its type: no locked section stores a value the State, the
\* restart manager or an actor cannot have.
THEOREM TypeCorrect == Spec => []TypeOK
<1>1. LifecycleInv => TypeOK
  BY Zenon DEF LifecycleInv
<1> QED
  BY <1>1, InvariantHolds, PTL

\* A live process belongs to a container that is Running, is not Restarting and
\* records its pid, unless handleContainerExit took the process for another.
THEOREM NoProcessIsLost == Spec => []RunningIfAlive
<1>1. LifecycleInv => RunningIfAlive
  BY Zenon DEF LifecycleInv
<1> QED
  BY <1>1, InvariantHolds, PTL

\* cleanupContainer never marks a container with a live process Dead.
THEOREM RemovalWaitsForProcess == Spec => []DeadHasNoProcess
<1>1. LifecycleInv => DeadHasNoProcess
  BY Zenon DEF LifecycleInv
<1> QED
  BY <1>1, InvariantHolds, PTL

\* A stop, a kill or a shutdown that reports success has ended the process it was
\* called for.
THEOREM SuccessfulStopKills == Spec => []StopKills
<1>1. LifecycleInv => StopKills
  BY Zenon DEF LifecycleInv
<1> QED
  BY <1>1, InvariantHolds, PTL

\* At most one actor is past SetRemovalInProgress, and the read-write layer is
\* never left behind by one that gave up.
THEOREM OneRemoval == Spec => []RemovalExclusive
<1>1. LifecycleInv => RemovalExclusive
  BY Zenon DEF LifecycleInv
<1> QED
  BY <1>1, InvariantHolds, PTL

\* A Dead container stays dead, and no start, not even one that passed
\* validateState before, gives it another process.
THEOREM DeadIsForever == Spec => DeadStaysDead
<1>1. ASSUME LifecycleInv, [Next]_vars, st.Dead
      PROVE  st'.Dead /\ task'.gen = task.gen
  <2> USE <1>1 DEF LifecycleInv
  <2>0. st \in State /\ task \in Tasks /\ task.gen \in Nat /\ restarter.code \in AllCodes
    BY Zenon DEF TypeOK, Tasks, Restarters
  <2>a. StartRefused
    BY Zenon DEF StartRefused
  <2>b. ASSUME st' = st, task' = task
        PROVE  st'.Dead /\ task'.gen = task.gen
    BY <2>b, Zenon
  <2>1. ASSUME NEW c \in Clients, ClientBegins(c)
        PROVE  st'.Dead /\ task'.gen = task.gen
    <3>1. CASE ContainerPause(c)
      BY <2>0, <3>1, SetPausedFacts, TaskStatus, Zenon DEF ContainerPause, SameRemoval
    <3>2. CASE ContainerUnpause(c)
      BY <2>0, <3>2, SetPausedFacts, TaskStatus, Zenon DEF ContainerUnpause, SameRemoval
    <3>3. CASE \/ ContainerStart(c) \/ ContainerStop(c) \/ ContainerKill(c) \/ ContainerRestart(c)
               \/ ContainerRm(c) \/ Shutdown(c)
      BY <2>b, <3>3, Zenon
         DEF ContainerStart, ContainerStop, ContainerKill, ContainerRestart, ContainerRm,
         Shutdown, Begin, BeginStopping, ctrVars, envVars
    <3> QED
      BY <2>1, <3>1, <3>2, <3>3, Zenon DEF ClientBegins
  <2>2. ASSUME NEW a \in Actors, ActorStep(a)
        PROVE  st'.Dead /\ task'.gen = task.gen
    <3>1. CASE containerStart(a)
      BY <2>a, <2>b, <3>1, Zenon DEF containerStart, ctrVars
    <3>2. CASE StopSignal(a) \/ KillSignal(a)
      <4>1. PICK sig, next, failed : /\ sig \in {"term", "kill"}
                                     /\ killWithSignal(a, sig, next, failed)
        BY <3>2 DEF StopSignal, KillSignal
      <4>2. st' = st
        BY <4>1, Zenon DEF killWithSignal, ctrVars
      <4>3. CASE UNCHANGED task
        BY <2>b, <4>2, <4>3, Zenon
      <4>4. ASSUME NEW unpause \in BOOLEAN,
                   task' = [task EXCEPT !.sig = IF @ = "kill" THEN @ ELSE sig,
                                        !.status = IF unpause THEN "running" ELSE @]
            PROVE  task'.gen = task.gen
        BY <2>0, <4>4, Zenon DEF Tasks
      <4> QED
        BY <4>1, <4>2, <4>3, <4>4, Zenon DEF killWithSignal
    <3>3. CASE killProcessDirectly(a)
      BY <2>0, <2>b, <3>3, TaskKill, Zenon DEF killProcessDirectly, ctrVars
    <3>4. CASE \/ RmEnter(a) \/ RmDead(a) \/ RmLayer(a) \/ RmFs(a) \/ RmRemoved(a) \/ RmReset(a)
      <4>1. /\ st' \in {st, SetRemovalInProgress(st), ResetRemovalInProgress(st), SetDead(st),
                        SetRemovalError(st), SetRemoved(st)}
            /\ task' = task
        BY <3>4, Zenon
           DEF RmEnter, RmDead, RmLayer, RmFs, RmRemoved, RmReset, RemovalError, envVars
      <4>2. /\ SetRemovalInProgress(st).Dead /\ ResetRemovalInProgress(st).Dead /\ SetDead(st).Dead
            /\ SetRemovalError(st).Dead /\ SetRemoved(st).Dead
        BY <2>0, RemovalFacts, Zenon DEF SameRemoval
      <4> QED
        BY <4>1, <4>2, Zenon
    <3>5. CASE \/ Wait(a) \/ WaitReturn(a) \/ StopEnter(a) \/ KillEnter(a) \/ RmCheck(a)
               \/ RmUnregister(a) \/ RestartMark(a) \/ ClearRestarted(a)
      BY <2>b, <3>5, Zenon
         DEF Wait, WaitReturn, StopEnter, KillEnter, RmCheck, RmUnregister, RestartMark,
         ClearRestarted, ctrVars, envVars
    <3> QED
      BY <2>2, <3>1, <3>2, <3>3, <3>4, <3>5, Zenon DEF ActorStep
  <2>3. ASSUME NEW a, NEW e \in Events, handleContainerExit(a, e)
        PROVE  st'.Dead /\ task'.gen = task.gen
    <3>1. CASE ExitHandled(a, e)
      <4> DEFINE exitCode == IF e # NoEvent THEN e.code
                             ELSE IF task.status = "stopped" THEN task.code ELSE 0
      <4>1. exitCode \in AllCodes
        BY <2>0, Constants, Zenon DEF Events, Tasks
      <4> HIDE DEF exitCode
      <4>2. /\ st' \in {SetRestarting(st, exitCode), SetStopped(st, exitCode)}
            /\ task' = task \/ task' = [task EXCEPT !.status = "none"]
        BY <3>1, Zenon DEF ExitHandled, exitCode
      <4>3. SetRestarting(st, exitCode).Dead /\ SetStopped(st, exitCode).Dead
        BY <2>0, <4>1, SetStoppedFacts, SMTT(30) DEF SameRemoval
      <4>4. [task EXCEPT !.status = "none"].gen = task.gen
        BY <2>0, TaskStatus, Zenon
      <4> QED
        BY <4>2, <4>3, <4>4, Zenon
    <3> QED
      BY <2>3, <2>b, <3>1, Zenon DEF handleContainerExit
  <2>4. CASE EventStep
    <3>1. CASE EventExit
      BY <2>3, <3>1, NextEventTypes, Zenon DEF EventExit
    <3>2. CASE EventStart \/ EventPaused \/ EventResumed \/ EventDropped
      <4>1. /\ st' \in {st, SetRunningExternal(st, task.gen), SetPaused(st, TRUE), SetPaused(st, FALSE)}
            /\ task' = task
        BY <3>2, Zenon DEF EventStart, EventPaused, EventResumed, EventDropped, ctrVars
      <4>2. /\ SetRunningExternal(st, task.gen).Dead /\ SetPaused(st, TRUE).Dead
            /\ SetPaused(st, FALSE).Dead
        BY <2>0, SetRunningFacts, SetPausedFacts, Zenon DEF SameRemoval
      <4> QED
        BY <4>1, <4>2, Zenon
    <3> QED
      BY <2>4, <3>1, <3>2, Zenon DEF EventStep
  <2>5. CASE ReapExit
    BY <2>3, <2>5, Constants, QueueOps, Zenon DEF ReapExit, NoEvent, TypeOK
  <2>6. CASE RestarterStep
    BY <2>0, <2>a, <2>6, SetStoppedFacts DEF RestarterStep, RestartTimer, RestartCanceled,
       RestarterStart, RestarterFailed, envVars, SameRemoval
  <2>7. ASSUME NEW code \in AllCodes, NEW copies \in 0..2, ProcessExit(code, copies)
        PROVE  st'.Dead /\ task'.gen = task.gen
    <3>1. task'.gen = task.gen
      BY <2>0, <2>7, Zenon DEF ProcessExit, Tasks
    <3> QED
      BY <2>7, <3>1, Zenon DEF ProcessExit, ctrVars
  <2>8. CASE UNCHANGED vars
    BY <2>b, <2>8, Zenon DEF vars
  <2> QED
    BY <2>1, <2>2, <2>4, <2>5, <2>6, <2>7, <2>8, Zenon DEF Next
<1>2. LifecycleInv /\ [Next]_vars => [st.Dead => st'.Dead /\ task'.gen = task.gen]_vars
  BY <1>1, Zenon
<1> QED
  BY <1>2, InvariantHolds, PTL DEF Spec, DeadStaysDead

-----------------------------------------------------------------------------
(* RunInv: what a step does to the run of the container *)

\* what RunInv looks at of the state, apart from a removal
SameRun(s, t) ==
    SameProcess(s, t) /\ t.Paused = s.Paused /\ t.ExitCode = s.ExitCode /\ t.started = s.started

\* the restart goroutine goes on, or there is none
RestarterGoesOn ==
    restarter'.code = restarter.code /\ (restarter.pc = "none" => restarter'.pc = "none")

\* the queue and the task are left alone; at most a removal goes on
Still ==
    /\ SameRun(st, st') /\ (st.Dead => st'.Dead)
    /\ \/ st'.ErrorMsg = st.ErrorMsg /\ st'.removed = st.removed
       \/ st'.removed /\ st'.Dead /\ st'.ErrorMsg \in {"", "removal"}
    /\ RestarterGoesOn /\ task' = task /\ queue' = queue /\ misfired' = misfired
    /\ registered' => registered

\* a live process gets a signal, and a stop resumes it
Signalled ==
    /\ Alive /\ st' = st /\ RestarterGoesOn /\ UNCHANGED <<misfired, registered>>
    /\ task' \in Tasks /\ task'.gen = task.gen
    /\ \/ task'.status = task.status /\ queue' = queue
       \/ task'.status = "running" /\ queue' = Append(queue, Event("resumed", task.gen, 0))

\* a client pauses or resumes it
PausedBy(type, flag, status) ==
    /\ st.Running /\ Alive /\ st' = SetPaused(st, flag) /\ UNCHANGED <<restarter, misfired, registered>>
    /\ task' = [task EXCEPT !.status = status]
    /\ queue' = Append(queue, Event(type, task.gen, 0))

\* a process is started
Started ==
    /\ StartTask /\ UNCHANGED <<misfired, registered>>
    /\ ~misfired => restarter'.pc = "none"

\* a start fails
StartFails ==
    /\ FailEarly \/ \E err \in Errors : CreateTaskAndFail(err)
    /\ RestarterGoesOn /\ UNCHANGED <<misfired, registered>>
    /\ ~misfired => ~st.Running \/ st.Restarting

\* an event leaves the queue
Popped == queue # <<>> /\ queue' = Tail(queue)

\* it is handled as an exit; or the exit of a process is handled without it
Handled(a, e) ==
    /\ \/ Popped /\ e = Head(queue) /\ e.type = "exit"
       \/ e = NoEvent /\ queue' = queue
    /\ st.ErrorMsg # "setup networking" /\ ~shouldIgnoreExitEvent(e) /\ ExitHandled(a, e)
    /\ registered' = registered

\* it changes nothing that RunInv looks at
Ignored ==
    /\ Popped /\ UNCHANGED <<task, restarter, misfired, registered>>
    /\ \/ misfired
       \/ /\ st' = st
          /\ \/ ~registered \/ Head(queue).type = "start"
             \/ /\ Head(queue).type = "exit"
                /\ st.ErrorMsg = "setup networking" \/ shouldIgnoreExitEvent(Head(queue))

\* it sets the Paused flag
FlagSet(type, flag) ==
    /\ Popped /\ Head(queue).type = type /\ st' = SetPaused(st, flag)
    /\ UNCHANGED <<task, restarter, misfired, registered>>

\* the process exits
Exited ==
    \E code \in AllCodes, copies \in 0..2 : ProcessExit(code, copies)

RunStep ==
    \/ Still \/ Signalled
    \/ PausedBy("paused", TRUE, "paused") \/ PausedBy("resumed", FALSE, "running")
    \/ Started \/ StartFails
    \/ \E a \in Actors, e \in Events : Handled(a, e)
    \/ Ignored \/ FlagSet("paused", TRUE) \/ FlagSet("resumed", FALSE)
    \/ Exited \/ RestarterFailed

\* The methods of State that concern a run.
LEMMA SetRunningRun ==
    ASSUME NEW s \in State, NEW pid, NEW t, t = SetRunning(s, pid)
    PROVE  /\ t.Running /\ ~t.Restarting /\ ~t.Paused
           /\ t.ErrorMsg = "" /\ t.started /\ t.task
  BY Zenon DEF SetRunning, State

LEMMA SetStoppedRun ==
    ASSUME NEW s \in State, NEW code, NEW t, t = SetStopped(s, code)
    PROVE  /\ ~t.Running /\ ~t.Restarting /\ t.Pid = 0 /\ t.ExitCode = code /\ t.Dead = s.Dead
           /\ t.ErrorMsg = s.ErrorMsg /\ t.started = s.started /\ t.removed = s.removed
  BY Zenon DEF SetStopped, State

LEMMA SetRestartingRun ==
    ASSUME NEW s \in State, NEW code, NEW t, t = SetRestarting(s, code)
    PROVE  /\ t.Running /\ t.Restarting /\ t.Pid = 0 /\ t.ExitCode = code /\ t.Dead = s.Dead
           /\ t.ErrorMsg = s.ErrorMsg /\ t.started = s.started /\ t.removed = s.removed
  BY Zenon DEF SetRestarting, State

LEMMA SetPausedRun ==
    ASSUME NEW s \in State, NEW flag, NEW t, t = SetPaused(s, flag)
    PROVE  /\ SameProcess(s, t) /\ t.Dead = s.Dead /\ t.Paused = flag /\ t.ExitCode = s.ExitCode
           /\ t.ErrorMsg = s.ErrorMsg /\ t.started = s.started /\ t.removed = s.removed
  BY Zenon DEF SetPaused, State, SameProcess

LEMMA SetStartErrorRun ==
    ASSUME NEW s \in State, NEW msg, NEW t, t = SetStartError(s, msg)
    PROVE  SameProcess(s, t) /\ t.ErrorMsg = msg /\ t.Paused = s.Paused
  BY Zenon DEF SetStartError, State, SameProcess

\* The methods of a removal leave the run alone.
LEMMA RemovalRunFields ==
    ASSUME NEW s \in State
    PROVE  /\ LET t == SetDead(s) IN
                SameRun(s, t) /\ t.ErrorMsg = s.ErrorMsg /\ t.removed = s.removed /\ t.Dead
           /\ LET t == SetRemovalInProgress(s) IN
                SameRun(s, t) /\ t.ErrorMsg = s.ErrorMsg /\ t.removed = s.removed /\ t.Dead = s.Dead
           /\ LET t == ResetRemovalInProgress(s) IN
                SameRun(s, t) /\ t.ErrorMsg = s.ErrorMsg /\ t.removed = s.removed /\ t.Dead = s.Dead
           /\ LET t == SetRemovalError(s) IN
                SameRun(s, t) /\ t.ErrorMsg = "removal" /\ t.removed /\ t.Dead = s.Dead
           /\ LET t == SetRemoved(s) IN
                SameRun(s, t) /\ t.ErrorMsg = "" /\ t.removed /\ t.Dead = s.Dead
  BY Zenon DEF SetDead, SetRemovalInProgress, ResetRemovalInProgress,
        SetRemovalError, SetRemoved, State, SameRun, SameProcess

LEMMA StillStep ==
    ASSUME TypeOK, st' = st, task' = task, queue' = queue, misfired' = misfired,
           registered' = registered, RestarterGoesOn
    PROVE  Still
  BY Zenon DEF Still, SameRun, SameProcess

\* ExitOnNext and ResetRestartManager only cancel the goroutine.
LEMMA RestarterKept ==
    ASSUME TypeOK, ExitOnNext \/ ResetRestartManager \/ restarter' = restarter
    PROVE  RestarterGoesOn /\ restarter'.pc = restarter.pc
<1>1. ASSUME NEW r \in Restarters, NEW pc \in {"none", "waiting", "fired", "failed"}
      PROVE  LET x == [r EXCEPT !.canceled = TRUE] IN x.pc = r.pc /\ x.code = r.code
  BY Zenon DEF Restarters
<1>2. restarter \in Restarters
  BY Zenon DEF TypeOK
<1>3. restarter' = restarter \/ restarter' = [restarter EXCEPT !.canceled = TRUE]
  BY Zenon DEF ExitOnNext, ResetRestartManager
<1> QED
  BY <1>1, <1>2, <1>3, Zenon DEF RestarterGoesOn

LEMMA RestarterMoved ==
    ASSUME TypeOK, NEW pc \in {"none", "fired", "failed"}, restarter.pc # "none",
           restarter' = [restarter EXCEPT !.pc = pc]
    PROVE  RestarterGoesOn /\ restarter'.pc = pc
  BY Zenon DEF RestarterGoesOn, TypeOK, Restarters

\* killWithSignal
LEMMA killWithSignalRuns ==
    ASSUME LifecycleInv, NEW a, NEW sig \in {"term", "kill"}, NEW next, NEW failed,
           killWithSignal(a, sig, next, failed), UNCHANGED <<misfired, registered>>
    PROVE  Still \/ Signalled
<1>0. TypeOK /\ task \in Tasks
  BY Zenon DEF LifecycleInv, TypeOK
<1>1. st' = st
  BY Zenon DEF killWithSignal, ctrVars
<1>2. RestarterGoesOn
  BY <1>0, RestarterKept, Zenon DEF killWithSignal, ctrVars
<1>3. CASE UNCHANGED <<task, queue>>
  BY <1>0, <1>1, <1>2, <1>3, StillStep, Zenon
<1>4. ASSUME Alive, NEW unpause \in BOOLEAN,
             task' = [task EXCEPT !.sig = IF @ = "kill" THEN @ ELSE sig,
                                  !.status = IF unpause THEN "running" ELSE @],
             queue' = IF unpause THEN Append(queue, Event("resumed", task.gen, 0)) ELSE queue
      PROVE  Signalled
  <2>1. task' \in Tasks /\ task'.gen = task.gen
        /\ task'.status = IF unpause THEN "running" ELSE task.status
    BY <1>0, <1>4, Zenon DEF Tasks
  <2> QED
    BY <1>1, <1>2, <1>4, <2>1, Zenon DEF Signalled
<1>5. CASE /\ Alive
           /\ LET unpause == st.Paused /\ (sig = "kill" \/ SignalMatches) /\ task.status = "paused"
              IN /\ task' = [task EXCEPT !.sig = IF @ = "kill" THEN @ ELSE sig,
                                         !.status = IF unpause THEN "running" ELSE @]
                 /\ queue' = IF unpause THEN Append(queue, Event("resumed", task.gen, 0))
                                        ELSE queue
  <2> DEFINE unpause == st.Paused /\ (sig = "kill" \/ SignalMatches) /\ task.status = "paused"
  <2>1. unpause \in BOOLEAN
    BY Zenon
  <2>2. /\ task' = [task EXCEPT !.sig = IF @ = "kill" THEN @ ELSE sig,
                                !.status = IF unpause THEN "running" ELSE @]
        /\ queue' = IF unpause THEN Append(queue, Event("resumed", task.gen, 0)) ELSE queue
    BY <1>5, Zenon
  <2> HIDE DEF unpause
  <2> QED
    BY <1>4, <1>5, <2>1, <2>2, Zenon
<1> QED
  BY <1>3, <1>5, Zenon DEF killWithSignal

\* The calls that begin.
LEMMA ClientRuns ==
    ASSUME LifecycleInv, NEW c \in Clients, ClientBegins(c)
    PROVE  RunStep
<1>0. TypeOK
  BY Zenon DEF LifecycleInv
<1>1. CASE ContainerPause(c)
  <2>1. Alive
    BY <1>1, Zenon DEF ContainerPause, Alive
  <2> QED
    BY <1>1, <2>1, Zenon DEF ContainerPause, PausedBy, RunStep, rmVars
<1>2. CASE ContainerUnpause(c)
  <2>1. Alive
    BY <1>2, Zenon DEF ContainerUnpause, Alive
  <2> QED
    BY <1>2, <2>1, Zenon DEF ContainerUnpause, PausedBy, RunStep, rmVars
<1>3. CASE \/ ContainerStart(c) \/ ContainerStop(c) \/ ContainerKill(c) \/ ContainerRestart(c)
           \/ ContainerRm(c) \/ Shutdown(c)
  <2>1. UNCHANGED <<st, restarter, task, queue, misfired, registered>>
    BY <1>3, Zenon DEF ContainerStart, ContainerStop, ContainerKill, ContainerRestart, ContainerRm,
       Shutdown, Begin, BeginStopping, ctrVars, envVars, rmVars
  <2> QED
    BY <1>0, <2>1, StillStep, RestarterKept, Zenon DEF RunStep
<1> QED
  BY <1>1, <1>2, <1>3, Zenon DEF ClientBegins

\* The steps of an actor.
LEMMA ActorRuns ==
    ASSUME LifecycleInv, NEW a \in Actors, ActorStep(a)
    PROVE  RunStep
<1>0. TypeOK /\ st \in State /\ task \in Tasks
  BY Zenon DEF LifecycleInv, TypeOK
<1>a. ASSUME UNCHANGED <<st, restarter, task, queue, misfired, registered>>
      PROVE  RunStep
  BY <1>0, <1>a, StillStep, RestarterKept, Zenon DEF RunStep
<1>1. CASE containerStart(a)
  <2>0. UNCHANGED <<misfired, registered>>
    BY <1>1, Zenon DEF containerStart, rmVars
  <2>1. CASE UNCHANGED <<ctrVars, task, queue>>
    BY <1>a, <2>0, <2>1, Zenon DEF ctrVars
  <2>2. ASSUME ~st.Running
        PROVE  ~misfired => restarter.pc = "none"
    BY <2>2, Zenon DEF LifecycleInv, RestarterInv
  <2>3. CASE ~st.Running /\ StartTask /\ ResetRestartManager
    BY <1>0, <2>0, <2>2, <2>3, RestarterKept, Zenon DEF Started, RunStep
  <2>4. CASE /\ ~st.Running
             /\ \/ FailEarly /\ (ResetRestartManager \/ KeepRestartManager)
                \/ \E err \in Errors : CreateTaskAndFail(err) /\ ResetRestartManager
    <3>1. RestarterGoesOn
      BY <1>0, <2>4, RestarterKept, Zenon DEF KeepRestartManager
    <3> QED
      BY <2>0, <2>4, <3>1, Zenon DEF StartFails, RunStep
  <2> QED
    BY <1>1, <2>1, <2>3, <2>4, Zenon DEF containerStart
<1>2. CASE StopSignal(a)
  BY <1>2, killWithSignalRuns, Zenon DEF StopSignal, rmVars, RunStep
<1>3. CASE KillSignal(a)
  <2>1. PICK sig, next, failed : sig \in {"term", "kill"} /\ killWithSignal(a, sig, next, failed)
    BY <1>3 DEF KillSignal
  <2> QED
    BY <1>3, <2>1, killWithSignalRuns, Zenon DEF KillSignal, rmVars, RunStep
<1>4. CASE killProcessDirectly(a)
  <2>1. CASE task' = task
    BY <1>4, <1>a, <2>1, Zenon DEF killProcessDirectly, ctrVars, rmVars
  <2>2. CASE Alive /\ task' = [task EXCEPT !.sig = "kill"]
    <3>1. task' \in Tasks /\ task'.gen = task.gen /\ task'.status = task.status
      BY <1>0, <2>2, TaskKill, Zenon
    <3>2. st' = st /\ restarter' = restarter /\ queue' = queue /\ UNCHANGED <<misfired, registered>>
      BY <1>4, Zenon DEF killProcessDirectly, ctrVars, rmVars
    <3> QED
      BY <1>0, <2>2, <3>1, <3>2, RestarterKept, Zenon DEF Signalled, RunStep
  <2> QED
    BY <1>4, <2>1, <2>2, Zenon DEF killProcessDirectly
<1>5. CASE \/ Wait(a) \/ WaitReturn(a) \/ StopEnter(a) \/ KillEnter(a) \/ RmCheck(a)
           \/ RestartMark(a) \/ ClearRestarted(a)
  BY <1>5, <1>a, Zenon
     DEF Wait, WaitReturn, StopEnter, KillEnter, RmCheck, RestartMark, ClearRestarted, ctrVars,
     envVars, rmVars
<1>6. CASE RmUnregister(a)
  <2>1. UNCHANGED <<st, restarter, task, queue, misfired>> /\ ~registered'
    BY <1>6, Zenon DEF RmUnregister, ctrVars, envVars
  <2> QED
    BY <1>0, <2>1, RestarterKept, Zenon DEF Still, SameRun, SameProcess, RunStep
<1>7. CASE RmEnter(a) \/ RmDead(a) \/ RmReset(a)
  <2>1. /\ UNCHANGED <<restarter, task, queue, misfired, registered>>
        /\ st' \in {st, SetRemovalInProgress(st), ResetRemovalInProgress(st), SetDead(st)}
    BY <1>7, Zenon DEF RmEnter, RmDead, RmReset, envVars, rmVars
  <2>2. /\ SameRun(st, st') /\ st'.ErrorMsg = st.ErrorMsg /\ st'.removed = st.removed
        /\ st.Dead => st'.Dead
    <3>1. CASE st' = st
      BY <3>1, Zenon DEF SameRun, SameProcess
    <3>2. CASE st' = SetRemovalInProgress(st)
      BY <1>0, <3>2, RemovalRunFields, Zenon
    <3>3. CASE st' = ResetRemovalInProgress(st)
      BY <1>0, <3>3, RemovalRunFields, Zenon
    <3>4. CASE st' = SetDead(st)
      BY <1>0, <3>4, RemovalRunFields, Zenon
    <3> QED
      BY <2>1, <3>1, <3>2, <3>3, <3>4, Zenon
  <2> QED
    BY <1>0, <2>1, <2>2, RestarterKept, Zenon DEF Still, RunStep
<1>8. CASE RmLayer(a) \/ RmFs(a) \/ RmRemoved(a)
  <2>1. /\ UNCHANGED <<restarter, task, queue, misfired, registered>>
        /\ st' \in {st, SetRemovalError(st), SetRemoved(st)}
    BY <1>8, Zenon DEF RmLayer, RmFs, RmRemoved, RemovalError, envVars, rmVars
  <2>2. st.Dead
    BY <1>8, Zenon DEF RmLayer, RmFs, RmRemoved, LifecycleInv, RemovalInv
  <2>3. CASE st' = st
    BY <1>a, <2>1, <2>3, Zenon
  <2>4. CASE st' \in {SetRemovalError(st), SetRemoved(st)}
    <3>1. /\ SameRun(st, st') /\ st'.ErrorMsg \in {"", "removal"} /\ st'.removed /\ st'.Dead
      <4>1. CASE st' = SetRemovalError(st)
        BY <1>0, <2>2, <4>1, RemovalRunFields, Zenon
      <4>2. CASE st' = SetRemoved(st)
        BY <1>0, <2>2, <4>2, RemovalRunFields, Zenon
      <4> QED
        BY <2>4, <4>1, <4>2, Zenon
    <3> QED
      BY <1>0, <2>1, <3>1, RestarterKept, Zenon DEF Still, RunStep
  <2> QED
    BY <2>1, <2>3, <2>4, Zenon
<1> QED
  BY <1>1, <1>2, <1>3, <1>4, <1>5, <1>6, <1>7, <1>8, Zenon DEF ActorStep

\* The events, the reaper and the restart goroutine.
LEMMA EventRuns ==
    ASSUME LifecycleInv, TaskInv, EventStep \/ ReapExit \/ RestarterStep
    PROVE  RunStep
<1>0. TypeOK /\ "events" \in Actors /\ "reaper" \in Actors /\ NoEvent \in Events
  BY Constants, QueueOps, Zenon DEF LifecycleInv, TypeOK, Actors, Goroutines, NoEvent
<1>1. CASE EventExit
  <2>1. Popped /\ Head(queue).type = "exit" /\ Head(queue) \in Events /\ registered' = registered
    BY <1>0, <1>1, NextEventTypes, Zenon DEF EventExit, NextEvent, Popped, handleContainerExit, rmVars
  <2>2. CASE st.ErrorMsg = "setup networking" \/ shouldIgnoreExitEvent(Head(queue))
    BY <1>1, <2>1, <2>2, Zenon DEF EventExit, handleContainerExit, Ignored, RunStep
  <2>3. CASE ~(st.ErrorMsg = "setup networking" \/ shouldIgnoreExitEvent(Head(queue)))
    <3>1. Handled("events", Head(queue))
      BY <1>1, <2>1, <2>3, Zenon DEF EventExit, handleContainerExit, Handled
    <3> QED
      BY <1>0, <2>1, <3>1, Zenon DEF RunStep
  <2> QED
    BY <2>2, <2>3, Zenon
<1>2. CASE ReapExit
  <2>1. UNCHANGED <<queue, registered>>
    BY <1>2, Zenon DEF ReapExit, handleContainerExit, rmVars
  <2>2. CASE st.ErrorMsg = "setup networking" \/ shouldIgnoreExitEvent(NoEvent)
    BY <1>0, <1>2, <2>1, <2>2, StillStep, RestarterKept, Zenon DEF ReapExit, handleContainerExit, RunStep
  <2>3. CASE ~(st.ErrorMsg = "setup networking" \/ shouldIgnoreExitEvent(NoEvent))
    <3>1. Handled("reaper", NoEvent)
      BY <1>2, <2>1, <2>3, Zenon DEF ReapExit, handleContainerExit, Handled
    <3> QED
      BY <1>0, <3>1, Zenon DEF RunStep
  <2> QED
    BY <2>2, <2>3, Zenon
<1>3. CASE EventStart
  <2>1. /\ Popped /\ UNCHANGED <<task, restarter, misfired, registered>> /\ Head(queue).type = "start"
    BY <1>3, Zenon DEF EventStart, NextEvent, Popped, rmVars
  <2>2. misfired \/ st' = st
    BY <1>3, Zenon DEF EventStart, TaskInv
  <2> QED
    BY <2>1, <2>2, Zenon DEF Ignored, RunStep
<1>4. CASE EventPaused
  BY <1>4, Zenon DEF EventPaused, NextEvent, Popped, rmVars, FlagSet, RunStep
<1>5. CASE EventResumed
  BY <1>5, Zenon DEF EventResumed, NextEvent, Popped, rmVars, FlagSet, RunStep
<1>6. CASE EventDropped
  BY <1>6, Zenon DEF EventDropped, NextEvent, Popped, rmVars, ctrVars, Ignored, RunStep
<1>7. CASE RestartTimer \/ RestartCanceled
  <2>1. PICK pc \in {"fired", "failed"} : restarter' = [restarter EXCEPT !.pc = pc]
    BY <1>7, Zenon DEF RestartTimer, RestartCanceled
  <2>2. RestarterGoesOn
    BY <1>0, <1>7, <2>1, RestarterMoved, Zenon DEF RestartTimer, RestartCanceled
  <2> QED
    BY <1>0, <1>7, <2>2, StillStep, Zenon DEF RestartTimer, RestartCanceled, envVars, rmVars, RunStep
<1>8. CASE RestarterStart
  <2>1. restarter.pc # "none" /\ UNCHANGED <<misfired, registered>>
    BY <1>8, Zenon DEF RestarterStart, rmVars
  <2>2. ~misfired => st.Running /\ st.Restarting
    BY <2>1, Zenon DEF LifecycleInv, RestarterInv
  <2>3. CASE /\ restarter' = [restarter EXCEPT !.pc = "failed"]
             /\ UNCHANGED <<st, manuallyRestarted, task, queue>>
    BY <1>0, <2>1, <2>3, RestarterMoved, StillStep, Zenon DEF RunStep
  <2>4. CASE StartTask /\ restarter' = [restarter EXCEPT !.pc = "none"]
    BY <1>0, <2>1, <2>4, RestarterMoved, Zenon DEF Started, RunStep
  <2>5. CASE /\ FailEarly \/ \E err \in Errors : CreateTaskAndFail(err)
             /\ restarter' = [restarter EXCEPT !.pc = "failed"]
    <3>1. RestarterGoesOn
      BY <1>0, <2>1, <2>5, RestarterMoved, Zenon
    <3> QED
      BY <2>1, <2>2, <2>5, <3>1, Zenon DEF StartFails, RunStep
  <2> QED
    BY <1>8, <2>3, <2>4, <2>5, Zenon DEF RestarterStart
<1>9. CASE RestarterFailed
  BY <1>9, Zenon DEF RunStep
<1> QED
  BY <1>1, <1>2, <1>3, <1>4, <1>5, <1>6, <1>7, <1>8, <1>9, Zenon DEF EventStep, RestarterStep

\* Every step is one of these.
LEMMA StepRuns ==
    ASSUME LifecycleInv, TaskInv, [Next]_vars
    PROVE  RunStep
<1>1. CASE UNCHANGED vars
  BY <1>1, StillStep, RestarterKept, Zenon DEF vars, LifecycleInv, RunStep
<1>2. CASE \E code \in AllCodes \ {exitUnknown}, copies \in 0..2 : ProcessExit(code, copies)
  BY <1>2, Zenon DEF Exited, RunStep
<1> QED
  BY <1>1, <1>2, ClientRuns, ActorRuns, EventRuns, Zenon DEF Next

-----------------------------------------------------------------------------
(* The queue *)

\* An event leaves the queue: the others move up.
LEMMA PoppedQueue ==
    ASSUME queue \in Seq(Events), Popped
    PROVE  /\ queue' \in Seq(Events) /\ Len(queue') = Len(queue) - 1
           /\ Len(queue) \in Nat /\ 1 \in 1..Len(queue) /\ Head(queue) = queue[1]
           /\ \A i \in 1..Len(queue') : i + 1 \in 1..Len(queue) /\ queue'[i] = queue[i + 1]
  BY DEF Popped

\* An event is put at its end.
LEMMA LongerQueue ==
    ASSUME NEW q \in Seq(Events), NEW e \in Events, NEW r, r = Append(q, e) \/ r = q \o <<e>>
    PROVE  /\ r \in Seq(Events) /\ Len(r) = Len(q) + 1 /\ Len(q) \in Nat
           /\ r[Len(q) + 1] = e /\ Len(q) + 1 \in 1..Len(r)
           /\ \A i \in 1..Len(q) : i \in 1..Len(r) /\ r[i] = q[i]
           /\ \A i \in 1..Len(r) : i \in 1..Len(q) \/ i = Len(q) + 1
<1> HIDE DEF Events
<1>1. CASE r = Append(q, e)
  BY <1>1
<1>2. CASE r = q \o <<e>>
  BY <1>2
<1> QED
  BY <1>1, <1>2

\* the two parts of EventInv about one event
OfRun(e) == 0 < e.gen /\ e.gen <= task.gen
ExitOfRun(e) == e.type = "exit" /\ e.gen = task.gen => ~Alive /\ e.code = task.code

\* and the one about the last event that has to do with pausing
PauseOfRun(i) ==
    Alive /\ queue[i].gen = task.gen /\ LastPause(i)
        => (queue[i].type = "paused" <=> task.status = "paused")

LEMMA EventInvParts ==
    EventInv <=> /\ task.status # "none" => 0 < task.gen
                 /\ \A i \in 1..Len(queue) :
                        OfRun(queue[i]) /\ ExitOfRun(queue[i]) /\ PauseOfRun(i)
  BY Zenon DEF EventInv, OfRun, ExitOfRun, PauseOfRun

\* A new task: the exit of the one it replaces, and an event of its own.
LEMMA NewTaskQueue ==
    ASSUME queue \in Seq(Events), NEW e \in Events, Event("exit", task.gen, Killed) \in Events,
           queue' = (queue \o ReplacedExit) \o <<e>>
    PROVE  \A i \in 1..Len(queue') : \/ i \in 1..Len(queue) /\ queue'[i] = queue[i]
                                     \/ Alive /\ queue'[i] = Event("exit", task.gen, Killed)
                                     \/ queue'[i] = e
<1> DEFINE x == Event("exit", task.gen, Killed)
<1> HIDE DEF Events, x
<1>1. CASE Alive
  <2>1. queue' = (queue \o <<x>>) \o <<e>>
    BY <1>1, Zenon DEF ReplacedExit, x
  <2>2. PICK q : q = queue \o <<x>>
    BY Zenon
  <2>3. x \in Events
    BY Zenon DEF x
  <2>4. /\ q \in Seq(Events) /\ q[Len(queue) + 1] = x
        /\ \A i \in 1..Len(queue) : q[i] = queue[i]
        /\ \A i \in 1..Len(q) : i \in 1..Len(queue) \/ i = Len(queue) + 1
    BY <2>2, <2>3, LongerQueue
  <2>5. /\ queue'[Len(q) + 1] = e
        /\ \A i \in 1..Len(q) : queue'[i] = q[i]
        /\ \A i \in 1..Len(queue') : i \in 1..Len(q) \/ i = Len(q) + 1
    BY <2>1, <2>2, <2>4, LongerQueue
  <2> QED
    BY <1>1, <2>4, <2>5, Zenon DEF x
<1>2. CASE ~Alive
  <2>1. queue' = queue \o <<e>>
    <3>1. queue \o <<>> = queue
      OBVIOUS
    <3> QED
      BY <1>2, <3>1, Zenon DEF ReplacedExit
  <2> QED
    BY <2>1, LongerQueue
<1> QED
  BY <1>1, <1>2, Zenon

LEMMA EventFields ==
    ASSUME NEW type, NEW gen, NEW code
    PROVE  LET e == Event(type, gen, code) IN e.type = type /\ e.gen = gen /\ e.code = code
  BY Zenon DEF Event

\* the task is the same for the events, though it may be deleted
TaskKept ==
    /\ task'.gen = task.gen /\ task'.code = task.code /\ (Alive' <=> Alive)
    /\ Alive => task'.status = task.status
    /\ task'.status # "none" => task.status # "none"

LEMMA SameTask == ASSUME task' = task PROVE TaskKept
  BY Zenon DEF TaskKept, Alive

\* A step that leaves the queue alone, or takes an event from it.
LEMMA SameKeepsEvents ==
    ASSUME EventInv, queue' = queue, TaskKept
    PROVE  EventInv'
<1>1. (task.status # "none" => 0 < task.gen)'
  BY Zenon DEF EventInv, TaskKept
<1> SUFFICES ASSUME NEW i \in 1..Len(queue')
             PROVE  OfRun(queue[i])' /\ ExitOfRun(queue[i])' /\ PauseOfRun(i)'
  BY <1>1, Zenon DEF EventInv, OfRun, ExitOfRun, PauseOfRun
<1>3. OfRun(queue[i]) /\ ExitOfRun(queue[i]) /\ PauseOfRun(i)
  BY EventInvParts, Zenon
<1> QED
  BY <1>3, Zenon DEF OfRun, ExitOfRun, PauseOfRun, LastPause, TaskKept

LEMMA PopKeepsEvents ==
    ASSUME TypeOK, EventInv, Popped, TaskKept
    PROVE  EventInv'
<1>1. /\ Len(queue') = Len(queue) - 1 /\ Len(queue) \in Nat
      /\ \A i \in 1..Len(queue') : i + 1 \in 1..Len(queue) /\ queue'[i] = queue[i + 1]
  BY PoppedQueue, Zenon DEF TypeOK
<1>2. (task.status # "none" => 0 < task.gen)'
  BY Zenon DEF EventInv, TaskKept
<1> SUFFICES ASSUME NEW i \in 1..Len(queue')
             PROVE  OfRun(queue[i])' /\ ExitOfRun(queue[i])' /\ PauseOfRun(i)'
  BY <1>2, Zenon DEF EventInv, OfRun, ExitOfRun, PauseOfRun
<1>3. OfRun(queue[i + 1]) /\ ExitOfRun(queue[i + 1]) /\ PauseOfRun(i + 1)
  BY <1>1, EventInvParts, Zenon
<1>4. OfRun(queue[i])' /\ ExitOfRun(queue[i])'
  BY <1>1, <1>3, Zenon DEF OfRun, ExitOfRun, TaskKept
<1>5. LastPause(i)' => LastPause(i + 1)
  <2> SUFFICES ASSUME LastPause(i)', NEW j \in i + 1 + 1..Len(queue)
               PROVE  queue[j].type \notin {"paused", "resumed"}
    BY <1>1, Zenon DEF LastPause
  <2>1. j - 1 \in i + 1..Len(queue') /\ j - 1 \in 1..Len(queue') /\ (j - 1) + 1 = j
    BY <1>1
  <2>2. queue'[j - 1].type \notin {"paused", "resumed"}
    BY <2>1, Zenon DEF LastPause
  <2> QED
    BY <1>1, <2>1, <2>2, Zenon
<1>6. PauseOfRun(i)'
  BY <1>1, <1>3, <1>5, Zenon DEF PauseOfRun, TaskKept
<1> QED
  BY <1>4, <1>6, Zenon

\* A live process is paused or resumed, and the event is queued.
LEMMA PauseKeepsEvents ==
    ASSUME TypeOK, EventInv, Alive, task'.gen = task.gen, NEW type, NEW status, task'.status = status,
           <<type, status>> \in {<<"paused", "paused">>, <<"resumed", "running">>},
           queue' = Append(queue, Event(type, task.gen, 0))
    PROVE  EventInv'
<1>0. queue \in Seq(Events) /\ task.gen \in Nat /\ 0 < task.gen
  BY Zenon DEF TypeOK, Tasks, EventInv, Alive
<1>a. type \in {"paused", "resumed"} /\ type \in {"start", "exit", "paused", "resumed"}
  OBVIOUS
<1>b. Event(type, task.gen, 0) \in Events
  BY <1>0, <1>a, Constants, QueueOps, Zenon
<1>1. PICK e \in Events : e = Event(type, task.gen, 0) /\ e.type = type /\ e.gen = task.gen
  BY <1>b, Zenon DEF Event
<1>2. /\ Len(queue') = Len(queue) + 1 /\ Len(queue) \in Nat /\ queue'[Len(queue) + 1] = e
      /\ \A i \in 1..Len(queue') : (i \in 1..Len(queue) /\ queue'[i] = queue[i]) \/ i = Len(queue) + 1
  BY <1>0, <1>1, LongerQueue
<1>3. (task.status # "none" => 0 < task.gen)'
  BY <1>0
<1> SUFFICES ASSUME NEW i \in 1..Len(queue')
             PROVE  OfRun(queue[i])' /\ ExitOfRun(queue[i])' /\ PauseOfRun(i)'
  BY <1>3, Zenon DEF EventInv, OfRun, ExitOfRun, PauseOfRun
<1>4. CASE i \in 1..Len(queue) /\ queue'[i] = queue[i]
  <2>1. OfRun(queue[i]) /\ ExitOfRun(queue[i])
    BY <1>4, EventInvParts, Zenon
  <2>2. OfRun(queue[i])' /\ ExitOfRun(queue[i])'
    BY <1>4, <2>1, Zenon DEF OfRun, ExitOfRun
  <2>3. ~LastPause(i)'
    <3>1. Len(queue) + 1 \in i + 1..Len(queue')
      BY <1>2, <1>4
    <3>2. queue'[Len(queue) + 1].type \in {"paused", "resumed"}
      BY <1>1, <1>2
    <3> QED
      BY <3>1, <3>2, Zenon DEF LastPause
  <2> QED
    BY <2>2, <2>3, Zenon DEF PauseOfRun
<1>5. CASE i = Len(queue) + 1
  <2>1. queue'[i] = e
    BY <1>2, <1>5, Zenon
  <2>2. OfRun(queue[i])'
    BY <1>0, <1>1, <2>1 DEF OfRun
  <2>3. ExitOfRun(queue[i])'
    BY <1>1, <2>1 DEF ExitOfRun
  <2>4. PauseOfRun(i)'
    BY <1>1, <2>1 DEF PauseOfRun
  <2> QED
    BY <2>2, <2>3, <2>4, Zenon
<1> QED
  BY <1>2, <1>4, <1>5, Zenon

\* A new task: the events that are queued are of earlier ones.
LEMMA NewTaskKeepsEvents ==
    ASSUME TypeOK, EventInv, task'.gen = task.gen + 1,
           NEW e \in Events, e.gen = task.gen + 1, e.type \in {"start", "exit"},
           e.type = "exit" => ~Alive' /\ e.code = task'.code,
           queue' = (queue \o ReplacedExit) \o <<e>>
    PROVE  EventInv'
<1>0. queue \in Seq(Events) /\ task.gen \in Nat
  BY Zenon DEF TypeOK, Tasks
<1>1. Event("exit", task.gen, Killed) \in Events
  BY <1>0, Constants, QueueOps, Zenon
<1>2. \A i \in 1..Len(queue') : \/ i \in 1..Len(queue) /\ queue'[i] = queue[i]
                                \/ Alive /\ queue'[i] = Event("exit", task.gen, Killed)
                                \/ queue'[i] = e
  BY <1>0, <1>1, NewTaskQueue, Zenon
<1>3. (task.status # "none" => 0 < task.gen)'
  BY <1>0
<1> SUFFICES ASSUME NEW i \in 1..Len(queue')
             PROVE  OfRun(queue[i])' /\ ExitOfRun(queue[i])' /\ PauseOfRun(i)'
  BY <1>3, Zenon DEF EventInv, OfRun, ExitOfRun, PauseOfRun
<1>4. ASSUME NEW x \in Events, queue'[i] = x, 0 < x.gen, x.gen <= task.gen
      PROVE  OfRun(queue[i])' /\ ExitOfRun(queue[i])' /\ PauseOfRun(i)'
  <2>1. x.gen \in Nat
    BY Zenon DEF Events
  <2>2. x.gen <= task'.gen /\ x.gen # task'.gen
    BY <1>0, <1>4, <2>1
  <2> QED
    BY <1>4, <2>2, Zenon DEF OfRun, ExitOfRun, PauseOfRun
<1>5. CASE i \in 1..Len(queue) /\ queue'[i] = queue[i]
  <2>1. queue[i] \in Events
    BY <1>0, <1>5
  <2>2. OfRun(queue[i])
    BY <1>5, EventInvParts, Zenon
  <2> QED
    BY <1>4, <1>5, <2>1, <2>2, Zenon DEF OfRun
<1>6. CASE Alive /\ queue'[i] = Event("exit", task.gen, Killed)
  <2>1. 0 < task.gen
    BY <1>6, Zenon DEF EventInv, Alive
  <2> QED
    BY <1>0, <1>1, <1>4, <1>6, <2>1, EventFields
<1>7. CASE queue'[i] = e
  <2>1. OfRun(queue[i])'
    BY <1>0, <1>7 DEF OfRun
  <2>2. ExitOfRun(queue[i])'
    BY <1>7, Zenon DEF ExitOfRun
  <2>3. PauseOfRun(i)'
    BY <1>7 DEF PauseOfRun, LastPause
  <2> QED
    BY <2>1, <2>2, <2>3, Zenon
<1> QED
  BY <1>2, <1>5, <1>6, <1>7, Zenon

\* The process exits: the copies of its exit event, each with its code.
LEMMA ExitedQueue ==
    ASSUME queue \in Seq(Events), NEW code \in AllCodes, NEW copies \in 0..2, ProcessExit(code, copies),
           Event("exit", task.gen, code) \in Events
    PROVE  /\ \A i \in 1..Len(queue') : \/ i \in 1..Len(queue) /\ queue'[i] = queue[i]
                                        \/ queue'[i] = Event("exit", task.gen, code)
           /\ copies # 0 => \E i \in 1..Len(queue') : queue'[i] = Event("exit", task.gen, code)
<1> DEFINE x == Event("exit", task.gen, code)
           t == [i \in 1..copies |-> x]
<1>1. queue' = queue \o t /\ x \in Events
  BY Zenon DEF ProcessExit
<1> HIDE DEF Events, x
<1>2. t \in Seq(Events) /\ Len(t) = copies /\ \A i \in 1..copies : t[i] = x
  BY <1>1
<1> HIDE DEF t
<1>3. /\ Len(queue') = Len(queue) + copies /\ Len(queue) \in Nat
      /\ \A i \in 1..Len(queue) : queue'[i] = queue[i]
      /\ \A i \in 1..copies : queue'[Len(queue) + i] = x
  BY <1>1, <1>2
<1>4. ASSUME NEW i \in 1..Len(queue')
      PROVE  i \in 1..Len(queue) \/ (i - Len(queue) \in 1..copies /\ Len(queue) + (i - Len(queue)) = i)
  BY <1>3
<1>5. copies # 0 => 1 \in 1..copies /\ Len(queue) + 1 \in 1..Len(queue')
  BY <1>3
<1> QED
  BY <1>3, <1>4, <1>5, Zenon DEF x

LEMMA ExitKeepsEvents ==
    ASSUME TypeOK, EventInv, NEW code \in AllCodes, NEW copies \in 0..2, ProcessExit(code, copies)
    PROVE  EventInv'
<1>0. queue \in Seq(Events) /\ task.gen \in Nat /\ task.gen <= task.gen
  BY DEF TypeOK, Tasks
<1>1. Event("exit", task.gen, code) \in Events
  BY <1>0, QueueOps, Zenon
<1>2. (copies = 0) \in BOOLEAN
  OBVIOUS
<1>3. task'.gen = task.gen /\ task'.code = code /\ ~Alive'
  <2>1. task'.gen = task.gen /\ task'.code = code /\ task'.status = "stopped"
    BY <1>2, Zenon DEF ProcessExit, TypeOK, Tasks
  <2> QED
    BY <2>1, Zenon DEF Alive
<1>4. Alive /\ 0 < task.gen
  BY Zenon DEF ProcessExit, Alive, EventInv
<1> SUFFICES ASSUME NEW i \in 1..Len(queue')
             PROVE  OfRun(queue[i])' /\ ExitOfRun(queue[i])' /\ PauseOfRun(i)'
  BY <1>3, <1>4, Zenon DEF EventInv, OfRun, ExitOfRun, PauseOfRun
<1>5. CASE i \in 1..Len(queue) /\ queue'[i] = queue[i]
  <2>1. OfRun(queue[i]) /\ ExitOfRun(queue[i])
    BY <1>5, EventInvParts, Zenon
  <2>2. OfRun(queue[i])' /\ ExitOfRun(queue[i])'
    BY <1>3, <1>4, <1>5, <2>1, Zenon DEF OfRun, ExitOfRun
  <2> QED
    BY <1>3, <2>2, Zenon DEF PauseOfRun
<1>6. CASE queue'[i] = Event("exit", task.gen, code)
  <2>1. queue'[i].gen = task.gen /\ queue'[i].code = code
    BY <1>6 DEF Event
  <2>2. OfRun(queue[i])' /\ ExitOfRun(queue[i])'
    BY <1>0, <1>3, <1>4, <2>1, Zenon DEF OfRun, ExitOfRun
  <2> QED
    BY <1>3, <2>2, Zenon DEF PauseOfRun
<1> QED
  BY <1>0, <1>1, <1>5, <1>6, ExitedQueue, Zenon

\* what handling an exit does to the task and the state
LEMMA HandledFacts ==
    ASSUME TypeOK, NEW a, NEW e \in Events, ExitHandled(a, e)
    PROVE  /\ TaskKept /\ (task.status # "none" /\ ~Alive => task'.status = "none")
           /\ (misfired => misfired')
           /\ ~misfired' => ~Alive /\ ~st.Restarting /\ ~(e = NoEvent /\ task.status = "none")
           /\ \E code \in AllCodes :
                /\ code = IF e # NoEvent THEN e.code ELSE IF task.status = "stopped" THEN task.code ELSE 0
                /\ \/ st' = SetRestarting(st, code) /\ ShouldRestart(code)
                      /\ restarter' = IF restarter.pc = "none"
                                      THEN [pc |-> "waiting", canceled |-> FALSE, code |-> code]
                                      ELSE restarter
                   \/ st' = SetStopped(st, code) /\ restarter' = restarter
<1> DEFINE code == IF e # NoEvent THEN e.code ELSE IF task.status = "stopped" THEN task.code ELSE 0
<1>0. task \in Tasks /\ task.status \in {"none", "running", "paused", "stopped"}
  BY Zenon DEF TypeOK, Tasks
<1>1. code \in AllCodes
  BY Constants, Zenon DEF Events, TypeOK, Tasks
<1>2. /\ \/ task.status = "stopped" /\ task' = [task EXCEPT !.status = "none"]
         \/ task.status # "stopped" /\ task' = task
      /\ misfired' = (misfired \/ Alive \/ st.Restarting \/ (e = NoEvent /\ task.status = "none"))
      /\ \/ st' = SetRestarting(st, code) /\ ShouldRestart(code)
            /\ restarter' = IF restarter.pc = "none"
                            THEN [pc |-> "waiting", canceled |-> FALSE, code |-> code]
                            ELSE restarter
         \/ st' = SetStopped(st, code) /\ restarter' = restarter
  BY Zenon DEF ExitHandled
<1> HIDE DEF code
<1>3. TaskKept /\ (task.status # "none" /\ ~Alive => task'.status = "none")
  <2>1. CASE task.status = "stopped"
    <3>1. task'.status = "none" /\ task'.gen = task.gen /\ task'.code = task.code
      BY <1>0, <1>2, <2>1, Zenon DEF Tasks
    <3> QED
      BY <2>1, <3>1, Zenon DEF TaskKept, Alive
  <2>2. CASE task.status # "stopped"
    BY <1>0, <1>2, <2>2, SameTask, Zenon DEF Alive
  <2> QED
    BY <2>1, <2>2, Zenon
<1>4. code = IF e # NoEvent THEN e.code ELSE IF task.status = "stopped" THEN task.code ELSE 0
  BY Zenon DEF code
<1> QED
  BY <1>1, <1>2, <1>3, <1>4, Zenon

\* EventInv is kept by every step.
LEMMA EventsKept ==
    ASSUME TypeOK, EventInv, RunStep
    PROVE  EventInv'
<1>0. queue \in Seq(Events) /\ task \in Tasks /\ task.gen \in Nat /\ task.gen + 1 \in Nat
  BY DEF TypeOK, Tasks
<1>1. CASE Still \/ RestarterFailed
  BY <1>1, SameTask, SameKeepsEvents, Zenon DEF Still, RestarterFailed, envVars
<1>2. CASE Signalled
  <2>1. CASE task'.status = "running" /\ queue' = Append(queue, Event("resumed", task.gen, 0))
    BY <1>2, <2>1, PauseKeepsEvents DEF Signalled
  <2>2. CASE task'.status = task.status /\ queue' = queue
    <3>1. Alive /\ Alive' /\ task'.gen = task.gen
      BY <1>2, <2>2, Zenon DEF Signalled, Alive
    <3> SUFFICES ASSUME NEW i \in 1..Len(queue')
                 PROVE  OfRun(queue[i])' /\ ExitOfRun(queue[i])' /\ PauseOfRun(i)'
      BY <2>2, <3>1, Zenon DEF EventInv, OfRun, ExitOfRun, PauseOfRun
    <3>2. OfRun(queue[i]) /\ ExitOfRun(queue[i]) /\ PauseOfRun(i)
      BY <2>2, EventInvParts, Zenon
    <3> QED
      BY <2>2, <3>1, <3>2, Zenon DEF OfRun, ExitOfRun, PauseOfRun, LastPause
  <2> QED
    BY <1>2, <2>1, <2>2, Zenon DEF Signalled
<1>3. ASSUME NEW type, NEW flag, NEW status, PausedBy(type, flag, status),
             <<type, status>> \in {<<"paused", "paused">>, <<"resumed", "running">>}
      PROVE  EventInv'
  <2>1. status \in {"none", "running", "paused", "stopped"}
    BY <1>3
  <2>2. task'.gen = task.gen /\ task'.status = status
    BY <1>0, <1>3, <2>1, TaskStatus, Zenon DEF PausedBy
  <2> QED
    BY <1>3, <2>2, PauseKeepsEvents, Zenon DEF PausedBy
<1>4. CASE Started
  <2>0. Event("start", task.gen + 1, 0) \in Events
    BY <1>0, Constants, QueueOps, Zenon
  <2>1. PICK e \in Events : e = Event("start", task.gen + 1, 0) /\ e.gen = task.gen + 1 /\ e.type = "start"
    BY <2>0, Zenon DEF Event
  <2>2. task'.gen = task.gen + 1 /\ queue' = (queue \o ReplacedExit) \o <<e>>
    BY <1>4, <2>1, Zenon DEF Started, StartTask
  <2> QED
    BY <2>1, <2>2, NewTaskKeepsEvents
<1>5. CASE StartFails
  <2>1. CASE FailEarly
    BY <2>1, SameTask, SameKeepsEvents, Zenon DEF FailEarly
  <2>2. ASSUME NEW err \in Errors, CreateTaskAndFail(err)
        PROVE  EventInv'
    <3>0. Event("exit", task.gen + 1, Killed) \in Events
      BY <1>0, Constants, QueueOps, Zenon
    <3>1. PICK e \in Events : /\ e = Event("exit", task.gen + 1, Killed) /\ e.gen = task.gen + 1
                              /\ e.type = "exit" /\ e.code = Killed
      BY <3>0, Zenon DEF Event
    <3>2. /\ task'.gen = task.gen + 1 /\ task'.code = Killed /\ task'.status = "none"
          /\ queue' = (queue \o ReplacedExit) \o <<e>>
      BY <2>2, <3>1, Zenon DEF CreateTaskAndFail
    <3>3. ~Alive'
      BY <3>2, Zenon DEF Alive
    <3> QED
      BY <3>1, <3>2, <3>3, NewTaskKeepsEvents
  <2> QED
    BY <1>5, <2>1, <2>2, Zenon DEF StartFails
<1>6. ASSUME NEW a, NEW e \in Events, Handled(a, e)
      PROVE  EventInv'
  <2>1. TaskKept
    BY <1>6, HandledFacts, Zenon DEF Handled
  <2> QED
    BY <1>6, <2>1, SameKeepsEvents, PopKeepsEvents, Zenon DEF Handled
<1>7. CASE Ignored \/ FlagSet("paused", TRUE) \/ FlagSet("resumed", FALSE)
  BY <1>7, SameTask, PopKeepsEvents, Zenon DEF Ignored, FlagSet
<1>8. CASE Exited
  BY <1>8, ExitKeepsEvents, Zenon DEF Exited
<1>9. CASE PausedBy("paused", TRUE, "paused")
  BY <1>3, <1>9
<1>10. CASE PausedBy("resumed", FALSE, "running")
  BY <1>3, <1>10
<1> QED
  BY <1>1, <1>2, <1>4, <1>5, <1>6, <1>7, <1>8, <1>9, <1>10, Zenon DEF RunStep

\* TaskInv is kept by every step.
LEMMA TaskKeptInv ==
    ASSUME LifecycleInv, TaskInv, RunStep
    PROVE  TaskInv'
<1>0. /\ TypeOK /\ st \in State /\ task \in Tasks /\ restarter \in Restarters
      /\ task.gen \in Nat /\ task.gen + 1 \in Nat /\ restarter.code \in AllCodes
  BY DEF LifecycleInv, TypeOK, Tasks, Restarters
<1>1. CASE Still
  BY <1>1, Zenon DEF Still, SameRun, SameProcess, RestarterGoesOn, TaskInv
<1>2. CASE Signalled
  BY <1>2, Zenon DEF Signalled, RestarterGoesOn, TaskInv, Alive
<1>3. ASSUME NEW type, NEW flag \in BOOLEAN, NEW status \in {"running", "paused"},
             PausedBy(type, flag, status)
      PROVE  TaskInv'
  <2>1. task'.gen = task.gen /\ task'.status = status
    BY <1>0, <1>3, TaskStatus, SMT DEF PausedBy
  <2>2. /\ SameProcess(st, st') /\ st'.Dead = st.Dead /\ st'.ErrorMsg = st.ErrorMsg
        /\ st'.started = st.started /\ st'.removed = st.removed /\ st'.ExitCode = st.ExitCode
    BY <1>0, <1>3, SetPausedRun DEF PausedBy
  <2>3. (task'.status # "none") <=> (task.status # "none")
    BY <1>3, <2>1, Zenon DEF PausedBy, Alive
  <2> QED
    BY <1>3, <2>1, <2>2, <2>3, Zenon DEF PausedBy, SameProcess, TaskInv
<1>4. CASE Started
  <2>1. st'.Running /\ ~st'.Restarting /\ st'.ErrorMsg = "" /\ st'.started /\ st'.task
    BY <1>0, <1>4, SetRunningRun, Zenon DEF Started, StartTask
  <2>2. task'.status = "running"
    BY <1>4, Zenon DEF Started, StartTask
  <2> QED
    BY <1>4, <2>1, <2>2, Zenon DEF Started, TaskInv
<1>5. CASE StartFails
  <2>1. PICK msg \in {"start", "setup networking"} : st' = SetStartError(st, msg)
    BY <1>5, Zenon DEF StartFails, FailEarly, CreateTaskAndFail
  <2>2. SameProcess(st, st') /\ st'.ErrorMsg # ""
    BY <1>0, <2>1, SetStartErrorRun, Zenon
  <2>3. task'.status = task.status \/ task'.status = "none"
    <3>1. CASE FailEarly
      BY <3>1, Zenon DEF FailEarly
    <3>2. ASSUME NEW err \in Errors, CreateTaskAndFail(err)
          PROVE  task'.status = "none"
      BY <3>2 DEF CreateTaskAndFail
    <3> QED
      BY <1>5, <3>1, <3>2, Zenon DEF StartFails
  <2> QED
    BY <1>5, <2>2, <2>3, Zenon DEF StartFails, SameProcess, TaskInv
<1>6. ASSUME NEW a, NEW e \in Events, Handled(a, e)
      PROVE  TaskInv'
  <2> SUFFICES ASSUME ~misfired' PROVE TaskInv'
    BY Zenon DEF TaskInv
  <2>1. /\ TaskKept /\ (task.status # "none" /\ ~Alive => task'.status = "none")
        /\ ~misfired /\ ~Alive /\ ~st.Restarting
    BY <1>0, <1>6, HandledFacts, Zenon DEF Handled
  <2>2. task'.status = "none" /\ task'.gen = task.gen /\ restarter.pc = "none"
    BY <2>1, Zenon DEF TaskKept, LifecycleInv, RestarterInv
  <2>3. PICK code \in AllCodes :
          \/ st' = SetRestarting(st, code)
             /\ restarter' = IF restarter.pc = "none"
                             THEN [pc |-> "waiting", canceled |-> FALSE, code |-> code]
                             ELSE restarter
          \/ st' = SetStopped(st, code) /\ restarter' = restarter
    BY <1>0, <1>6, HandledFacts, Zenon DEF Handled
  <2>4. /\ st'.Pid = 0 /\ st'.ErrorMsg = st.ErrorMsg /\ st'.started = st.started
        /\ st'.ExitCode = code /\ st'.Dead = st.Dead /\ (~st'.Running \/ st'.Restarting)
    BY <1>0, <2>3, SetRestartingRun, SetStoppedRun
  <2>5. restarter'.pc # "none" => restarter'.code = code
    <3>1. CASE restarter' = restarter
      BY <2>2, <3>1, Zenon
    <3>2. CASE restarter' = [pc |-> "waiting", canceled |-> FALSE, code |-> code]
      BY <3>2
    <3> QED
      BY <2>2, <2>3, <3>1, <3>2, Zenon
  <2> QED
    BY <2>1, <2>2, <2>4, <2>5, Zenon DEF TaskInv
<1>7. CASE Ignored
  BY <1>7, Zenon DEF Ignored, TaskInv
<1>8. ASSUME NEW type, NEW flag \in BOOLEAN, FlagSet(type, flag)
      PROVE  TaskInv'
  <2>1. /\ SameProcess(st, st') /\ st'.Dead = st.Dead /\ st'.ErrorMsg = st.ErrorMsg
        /\ st'.started = st.started /\ st'.removed = st.removed /\ st'.ExitCode = st.ExitCode
    BY <1>0, <1>8, SetPausedRun DEF FlagSet
  <2> QED
    BY <1>8, <2>1, Zenon DEF FlagSet, SameProcess, TaskInv
<1>9. ASSUME NEW code \in AllCodes, NEW copies \in 0..2, ProcessExit(code, copies)
      PROVE  TaskInv'
  <2>1. (copies = 0) \in BOOLEAN
    OBVIOUS
  <2>2. task'.status = "stopped" /\ task'.gen = task.gen /\ task.status # "none"
    BY <1>0, <1>9, <2>1, Zenon DEF ProcessExit, Tasks
  <2> QED
    BY <1>9, <2>2, Zenon DEF ProcessExit, ctrVars, TaskInv
<1>10. CASE RestarterFailed
  <2>1. /\ st' = SetStopped(st, restarter.code) /\ UNCHANGED <<task, misfired>>
        /\ restarter' = [restarter EXCEPT !.pc = "none"] /\ restarter.pc # "none"
    BY <1>10, Zenon DEF RestarterFailed, envVars
  <2>2. /\ st'.ErrorMsg = st.ErrorMsg /\ st'.started = st.started /\ ~st'.Running /\ ~st'.Restarting
        /\ st'.Dead = st.Dead
    BY <1>0, <2>1, SetStoppedRun
  <2>4. restarter'.pc = "none"
    BY <1>0, <2>1, RestarterAt, Zenon
  <2>5. ~misfired => st.Restarting
    BY <2>1, Zenon DEF LifecycleInv, RestarterInv
  <2> QED
    BY <2>1, <2>2, <2>4, <2>5, Zenon DEF TaskInv
<1> QED
  BY <1>1, <1>2, <1>3, <1>4, <1>5, <1>6, <1>7, <1>8, <1>9, <1>10, Zenon DEF RunStep, Exited

\* the exit event of the current run is queued
ExitQueued == \E i \in 1..Len(queue) : queue[i] = Event("exit", task.gen, task.code)

\* ExitNotLost is kept by every step.
LEMMA ExitNotLostKept ==
    ASSUME LifecycleInv, TaskInv, EventInv, ExitNotLost, RunStep, TaskInv'
    PROVE  ExitNotLost'
<1>0. /\ TypeOK /\ st \in State /\ task \in Tasks /\ restarter \in Restarters
      /\ queue \in Seq(Events) /\ task.gen \in Nat /\ task.gen + 1 \in Nat
  BY DEF LifecycleInv, TypeOK, Tasks, Restarters
<1>a. ExitNotLost <=> (~misfired /\ st.Running /\ ~st.Restarting /\ ~Alive /\ ~task.lost /\ registered
                         => ExitQueued)
  BY Zenon DEF ExitNotLost, ExitQueued
<1> SUFFICES ASSUME ~misfired', st'.Running, ~st'.Restarting, ~Alive', ~task'.lost, registered'
             PROVE  ExitQueued'
  BY Zenon DEF ExitNotLost, ExitQueued
<1>b. task'.status # "none"
  BY Zenon DEF TaskInv
<1>1. CASE Still
  <2>1. ExitQueued
    BY <1>a, <1>1, Zenon DEF Still, SameRun, SameProcess, Alive
  <2> QED
    BY <1>1, <2>1, Zenon DEF Still, ExitQueued
<1>2. CASE Signalled
  BY <1>2, Zenon DEF Signalled, Alive
<1>3. ASSUME NEW type, NEW flag, NEW status \in {"running", "paused"}, PausedBy(type, flag, status)
      PROVE  FALSE
  <2>1. task'.status = status
    BY <1>0, <1>3, TaskStatus, SMT DEF PausedBy
  <2> QED
    BY <2>1, Zenon DEF Alive
<1>4. CASE Started
  <2>1. task'.status = "running"
    BY <1>4, Zenon DEF Started, StartTask
  <2> QED
    BY <2>1, Zenon DEF Alive
<1>5. CASE StartFails
  <2>1. CASE FailEarly
    <3>1. st' = SetStartError(st, "start")
      BY <2>1, Zenon DEF FailEarly
    <3>2. SameProcess(st, st')
      BY <1>0, <3>1, SetStartErrorRun, Zenon
    <3> QED
      BY <1>5, <3>2, Zenon DEF StartFails, SameProcess
  <2>2. ASSUME NEW err \in Errors, CreateTaskAndFail(err)
        PROVE  FALSE
    BY <1>b, <2>2 DEF CreateTaskAndFail
  <2> QED
    BY <1>5, <2>1, <2>2, Zenon DEF StartFails
<1>6. ASSUME NEW a, NEW e \in Events, Handled(a, e)
      PROVE  FALSE
  <2>1. PICK code \in AllCodes : st' = SetRestarting(st, code) \/ st' = SetStopped(st, code)
    BY <1>0, <1>6, HandledFacts, Zenon DEF Handled
  <2>2. ~st'.Running \/ st'.Restarting
    BY <1>0, <2>1, SetRestartingRun, SetStoppedRun
  <2> QED
    BY <2>2, Zenon
<1>c. ASSUME Popped, task' = task, UNCHANGED <<misfired, registered>>, SameProcess(st, st'),
             Head(queue) # Event("exit", task.gen, task.code)
      PROVE  ExitQueued'
  <2>1. ExitQueued
    BY <1>a, <1>c, Zenon DEF SameProcess, Alive
  <2>2. PICK i \in 1..Len(queue) : queue[i] = Event("exit", task.gen, task.code)
    BY <2>1, Zenon DEF ExitQueued
  <2>3. /\ Len(queue') = Len(queue) - 1 /\ Len(queue) \in Nat /\ Head(queue) = queue[1]
        /\ \A j \in 1..Len(queue') : queue'[j] = queue[j + 1]
    BY <1>0, <1>c, PoppedQueue, Zenon
  <2>4. i # 1
    BY <1>c, <2>2, <2>3, Zenon
  <2>5. i - 1 \in 1..Len(queue') /\ (i - 1) + 1 = i
    BY <2>3, <2>4
  <2> QED
    BY <1>c, <2>2, <2>3, <2>5, Zenon DEF ExitQueued
<1>7. CASE Ignored
  <2>1. /\ Popped /\ task' = task /\ UNCHANGED <<misfired, registered>> /\ st' = st
        /\ \/ Head(queue).type = "start"
           \/ /\ Head(queue).type = "exit"
              /\ st.ErrorMsg = "setup networking" \/ shouldIgnoreExitEvent(Head(queue))
    BY <1>7, Zenon DEF Ignored
  <2>2. /\ st.Running /\ ~st.Restarting /\ st.ErrorMsg # "setup networking" /\ ~misfired
        /\ task.status = "stopped"
    BY <1>0, <1>b, <2>1, Zenon DEF TaskInv, Alive, Tasks
  <2>3. ASSUME Head(queue) = Event("exit", task.gen, task.code)
        PROVE  FALSE
    <3>1. Head(queue).type = "exit" /\ Head(queue).code = task.code
      BY <2>3 DEF Event
    <3>2. shouldIgnoreExitEvent(Head(queue))
      BY <2>1, <2>2, <3>1, Zenon
    <3>3. StateString(st) \in {"running", "paused"}
      BY <2>2 DEF StateString
    <3> QED
      BY <2>2, <3>1, <3>2, <3>3 DEF shouldIgnoreExitEvent
  <2> QED
    BY <1>c, <2>1, <2>3, Zenon DEF SameProcess
<1>8. ASSUME NEW type \in {"paused", "resumed"}, NEW flag, FlagSet(type, flag)
      PROVE  ExitQueued'
  <2>1. SameProcess(st, st')
    BY <1>0, <1>8, SetPausedRun DEF FlagSet
  <2>2. Head(queue) # Event("exit", task.gen, task.code)
    BY <1>8 DEF FlagSet, Event
  <2> QED
    BY <1>8, <1>c, <2>1, <2>2, Zenon DEF FlagSet
<1>9. ASSUME NEW code \in AllCodes, NEW copies \in 0..2, ProcessExit(code, copies)
      PROVE  ExitQueued'
  <2>1. (copies = 0) \in BOOLEAN
    OBVIOUS
  <2>2. task'.gen = task.gen /\ task'.code = code /\ task'.lost = (copies = 0)
    BY <1>0, <1>9, <2>1, Zenon DEF ProcessExit, Tasks
  <2>3. Event("exit", task.gen, code) \in Events
    BY <1>0, QueueOps, Zenon
  <2>4. copies # 0
    BY <2>2, Zenon
  <2>5. \E i \in 1..Len(queue') : queue'[i] = Event("exit", task.gen, code)
    BY <1>0, <1>9, <2>3, <2>4, ExitedQueue, Zenon
  <2> QED
    BY <2>2, <2>5, Zenon DEF ExitQueued
<1>10. CASE RestarterFailed
  <2>1. ~st'.Running
    BY <1>0, <1>10, SetStoppedRun DEF RestarterFailed
  <2> QED
    BY <2>1, Zenon
<1> QED
  BY <1>1, <1>2, <1>3, <1>4, <1>5, <1>6, <1>7, <1>8, <1>9, <1>10, Zenon DEF RunStep, Exited

-----------------------------------------------------------------------------
(* The exit code and the Paused flag *)

\* A step after which the exit code is not the one of the last process.
LEMMA CodeStep ==
    ASSUME LifecycleInv, TaskInv, EventInv, RunStep, CodeAgrees, ~CodeAgrees', ~misfired'
    PROVE  Popped /\ st.Paused /\ Head(queue).type = "exit" /\ Head(queue).gen < task.gen
<1>0. /\ TypeOK /\ st \in State /\ task \in Tasks /\ restarter \in Restarters
      /\ queue \in Seq(Events) /\ task.gen \in Nat
  BY DEF LifecycleInv, TypeOK, Tasks, Restarters
<1>a. /\ st'.started /\ st'.ErrorMsg = "" /\ ~st'.removed /\ (~st'.Running \/ st'.Restarting)
      /\ st'.ExitCode # task'.code
  BY Zenon DEF CodeAgrees
<1>b. ~misfired /\ Alive => st.Running /\ ~st.Restarting
  BY Zenon DEF LifecycleInv, RunningIfAlive
<1>1. CASE Still
  BY <1>1, <1>a, Zenon DEF Still, SameRun, SameProcess, CodeAgrees
<1>2. CASE Signalled
  BY <1>2, <1>a, <1>b, Zenon DEF Signalled
<1>3. ASSUME NEW type, NEW flag, NEW status, PausedBy(type, flag, status)
      PROVE  FALSE
  <2>1. SameProcess(st, st')
    BY <1>0, <1>3, SetPausedRun DEF PausedBy
  <2> QED
    BY <1>3, <1>a, <1>b, <2>1, Zenon DEF PausedBy, SameProcess
<1>4. CASE Started
  <2>1. st'.Running /\ ~st'.Restarting
    BY <1>0, <1>4, SetRunningRun, Zenon DEF Started, StartTask
  <2> QED
    BY <1>a, <2>1, Zenon
<1>5. CASE StartFails
  <2>1. PICK msg \in {"start", "setup networking"} : st' = SetStartError(st, msg)
    BY <1>5, Zenon DEF StartFails, FailEarly, CreateTaskAndFail
  <2>2. st'.ErrorMsg # ""
    BY <1>0, <2>1, SetStartErrorRun, Zenon
  <2> QED
    BY <1>a, <2>2, Zenon
<1>6. ASSUME NEW a, NEW e \in Events, Handled(a, e)
      PROVE  Popped /\ st.Paused /\ Head(queue).type = "exit" /\ Head(queue).gen < task.gen
  <2>1. /\ TaskKept /\ ~misfired /\ ~Alive /\ ~st.Restarting
        /\ ~(e = NoEvent /\ task.status = "none")
    BY <1>0, <1>6, HandledFacts, Zenon DEF Handled
  <2>2. PICK code \in AllCodes :
          /\ code = IF e # NoEvent THEN e.code ELSE IF task.status = "stopped" THEN task.code ELSE 0
          /\ st' = SetRestarting(st, code) \/ st' = SetStopped(st, code)
    BY <1>0, <1>6, HandledFacts, Zenon DEF Handled
  <2>3. st'.ExitCode = code /\ st'.started = st.started
    BY <1>0, <2>2, SetRestartingRun, SetStoppedRun
  <2>4. code # task.code
    BY <1>a, <2>1, <2>3, Zenon DEF TaskKept
  <2>5. task.status \in {"none", "stopped"}
    BY <1>0, <2>1, Zenon DEF Tasks, Alive
  <2>6. e # NoEvent /\ code = e.code
    BY <2>1, <2>2, <2>4, <2>5, Zenon
  <2>7. Popped /\ e = Head(queue) /\ e.type = "exit"
    BY <1>6, <2>6, Zenon DEF Handled
  <2>8. e.gen <= task.gen /\ e.gen # task.gen
    <3>1. 1 \in 1..Len(queue) /\ Head(queue) = queue[1]
      BY <1>0, <2>7, PoppedQueue, Zenon
    <3> QED
      BY <2>4, <2>6, <2>7, <3>1, Zenon DEF EventInv
  <2>9. e.gen < task.gen
    <3>1. e.gen \in Nat
      BY Zenon DEF Events
    <3> QED
      BY <1>0, <2>8, <3>1
  <2>10. /\ StateString(st) \notin {"removing", "exited", "dead", "restarting"}
         /\ StateString(st) = "running" => task.status # "stopped"
    BY <1>6, <2>4, <2>6, Zenon DEF Handled, shouldIgnoreExitEvent
  <2>11. st.Running
    BY <1>a, <2>3, <2>10 DEF StateString
  <2>12. task.status = "stopped"
    BY <2>1, <2>5, <2>11, Zenon DEF TaskInv
  <2>13. st.Paused
    BY <2>1, <2>10, <2>11, <2>12, Zenon DEF StateString
  <2> QED
    BY <2>7, <2>9, <2>13, Zenon
<1>7. CASE Ignored
  BY <1>7, <1>a, Zenon DEF Ignored, CodeAgrees
<1>8. ASSUME NEW type, NEW flag, FlagSet(type, flag)
      PROVE  FALSE
  <2>1. /\ SameProcess(st, st') /\ st'.ErrorMsg = st.ErrorMsg /\ st'.started = st.started
        /\ st'.removed = st.removed /\ st'.ExitCode = st.ExitCode
    BY <1>0, <1>8, SetPausedRun DEF FlagSet
  <2> QED
    BY <1>8, <1>a, <2>1, Zenon DEF FlagSet, SameProcess, CodeAgrees
<1>9. ASSUME NEW code \in AllCodes, NEW copies \in 0..2, ProcessExit(code, copies)
      PROVE  FALSE
  BY <1>9, <1>a, <1>b, Zenon DEF ProcessExit, ctrVars, Alive
<1>10. CASE RestarterFailed
  <2>1. /\ st' = SetStopped(st, restarter.code) /\ UNCHANGED <<task, misfired>> /\ restarter.pc # "none"
    BY <1>10, Zenon DEF RestarterFailed, envVars
  <2>2. /\ st'.ErrorMsg = st.ErrorMsg /\ st'.started = st.started /\ st'.removed = st.removed
        /\ st'.ExitCode = restarter.code
    BY <1>0, <2>1, SetStoppedRun
  <2>3. st.Restarting /\ restarter.code = st.ExitCode
    BY <1>a, <2>1, <2>2, Zenon DEF TaskInv, LifecycleInv, RestarterInv
  <2> QED
    BY <1>a, <2>1, <2>2, <2>3, Zenon DEF CodeAgrees
<1> QED
  BY <1>1, <1>2, <1>3, <1>4, <1>5, <1>6, <1>7, <1>8, <1>9, <1>10, Zenon DEF RunStep, Exited

\* A step after which the Paused flag is not what containerd says.
LEMMA FlagStep ==
    ASSUME LifecycleInv, TaskInv, EventInv, RunStep, FlagAgrees, ~FlagAgrees', ~misfired'
    PROVE  Popped /\ Head(queue).type \in {"paused", "resumed"} /\ Head(queue).gen < task.gen
<1>0. /\ TypeOK /\ st \in State /\ task \in Tasks /\ restarter \in Restarters
      /\ queue \in Seq(Events) /\ task.gen \in Nat
  BY DEF LifecycleInv, TypeOK, Tasks, Restarters
<1>a. /\ Alive' /\ (\A i \in 1..Len(queue') : queue'[i].type \notin {"paused", "resumed"})
      /\ ~(st'.Paused <=> task'.status = "paused")
  BY Zenon DEF FlagAgrees
<1>1. CASE Still
  BY <1>1, <1>a, Zenon DEF Still, SameRun, FlagAgrees, Alive
<1>b. ASSUME NEW type \in {"paused", "resumed"}, queue' = Append(queue, Event(type, task.gen, 0))
      PROVE  FALSE
  <2>1. Event(type, task.gen, 0) \in Events
    <3>1. type \in {"start", "exit", "paused", "resumed"}
      BY Zenon
    <3> QED
      BY <1>0, <3>1, Constants, QueueOps, Zenon
  <2>2. Len(queue) + 1 \in 1..Len(queue') /\ queue'[Len(queue) + 1] = Event(type, task.gen, 0)
    BY <1>0, <1>b, <2>1, LongerQueue
  <2>3. queue'[Len(queue) + 1].type = type
    BY <2>2 DEF Event
  <2> QED
    BY <1>a, <2>2, <2>3, Zenon
<1>2. CASE Signalled
  <2>1. queue' = queue /\ task'.status = task.status /\ st' = st
    BY <1>2, <1>b, Zenon DEF Signalled
  <2> QED
    BY <1>a, <2>1, Zenon DEF FlagAgrees, Alive
<1>3. ASSUME NEW type \in {"paused", "resumed"}, NEW flag, NEW status, PausedBy(type, flag, status)
      PROVE  FALSE
  BY <1>3, <1>b, Zenon DEF PausedBy
<1>4. CASE Started
  <2>1. ~st'.Paused
    BY <1>0, <1>4, SetRunningRun, Zenon DEF Started, StartTask
  <2>2. task'.status = "running"
    BY <1>4, Zenon DEF Started, StartTask
  <2> QED
    BY <1>a, <2>1, <2>2
<1>5. CASE StartFails
  <2>1. CASE FailEarly
    <3>1. st' = SetStartError(st, "start") /\ task' = task /\ queue' = queue
      BY <2>1, Zenon DEF FailEarly
    <3>2. st'.Paused = st.Paused
      BY <1>0, <3>1, SetStartErrorRun, Zenon
    <3> QED
      BY <1>a, <3>1, <3>2, Zenon DEF FlagAgrees, Alive
  <2>2. ASSUME NEW err \in Errors, CreateTaskAndFail(err)
        PROVE  FALSE
    <3>1. task'.status = "none"
      BY <2>2 DEF CreateTaskAndFail
    <3> QED
      BY <1>a, <3>1, Zenon DEF Alive
  <2> QED
    BY <1>5, <2>1, <2>2, Zenon DEF StartFails
<1>6. ASSUME NEW a, NEW e \in Events, Handled(a, e)
      PROVE  FALSE
  <2>1. TaskKept /\ ~Alive
    BY <1>0, <1>6, HandledFacts, Zenon DEF Handled
  <2> QED
    BY <1>a, <2>1, Zenon DEF TaskKept
<1>c. ASSUME Popped
      PROVE  /\ Head(queue) = queue[1] /\ 1 \in 1..Len(queue)
             /\ \A j \in 1 + 1..Len(queue) : queue[j].type \notin {"paused", "resumed"}
  <2>1. /\ Len(queue') = Len(queue) - 1 /\ Len(queue) \in Nat /\ Head(queue) = queue[1]
        /\ 1 \in 1..Len(queue) /\ \A j \in 1..Len(queue') : queue'[j] = queue[j + 1]
    BY <1>0, <1>c, PoppedQueue, Zenon
  <2> SUFFICES ASSUME NEW j \in 1 + 1..Len(queue)
               PROVE  queue[j].type \notin {"paused", "resumed"}
    BY <2>1, Zenon
  <2>2. j - 1 \in 1..Len(queue') /\ (j - 1) + 1 = j
    BY <2>1
  <2> QED
    BY <1>a, <2>1, <2>2, Zenon
<1>7. CASE Ignored
  <2>1. Popped /\ task' = task /\ ~misfired /\ st' = st
    BY <1>7, Zenon DEF Ignored
  <2>2. Alive
    BY <1>a, <2>1, Zenon DEF Alive
  <2>3. registered
    BY <2>1, <2>2, Zenon DEF LifecycleInv, RemovalExclusive, DeadHasNoProcess
  <2>4. Head(queue).type \notin {"paused", "resumed"}
    BY <1>7, <2>1, <2>3 DEF Ignored
  <2>5. \A i \in 1..Len(queue) : i = 1 \/ i \in 1 + 1..Len(queue)
    BY <1>0
  <2>6. \A i \in 1..Len(queue) : queue[i].type \notin {"paused", "resumed"}
    BY <1>c, <2>1, <2>4, <2>5, Zenon
  <2> QED
    BY <1>a, <2>1, <2>2, <2>6, Zenon DEF FlagAgrees
<1>8. ASSUME NEW type \in {"paused", "resumed"}, NEW flag \in BOOLEAN, FlagSet(type, flag),
             flag <=> type = "paused"
      PROVE  Popped /\ Head(queue).type \in {"paused", "resumed"} /\ Head(queue).gen < task.gen
  <2>1. Popped /\ Head(queue).type = type /\ task' = task
    BY <1>8, Zenon DEF FlagSet
  <2>2. st'.Paused = flag
    BY <1>0, <1>8, SetPausedRun DEF FlagSet
  <2>3. LastPause(1)
    BY <1>c, <2>1, Zenon DEF LastPause
  <2>4. Alive
    BY <1>a, <2>1, Zenon DEF Alive
  <2>5. queue[1].gen # task.gen /\ queue[1].gen <= task.gen
    BY <1>8, <1>a, <1>c, <2>1, <2>2, <2>3, <2>4, Zenon DEF EventInv
  <2>6. queue[1] \in Events
    BY <1>0, <1>c, <2>1
  <2>7. queue[1].gen \in Nat
    BY <2>6, Zenon DEF Events
  <2>8. queue[1].gen < task.gen
    BY <1>0, <2>5, <2>7
  <2> QED
    BY <1>c, <2>1, <2>8, Zenon
<1>9. ASSUME NEW code \in AllCodes, NEW copies \in 0..2, ProcessExit(code, copies)
      PROVE  FALSE
  <2>1. (copies = 0) \in BOOLEAN
    OBVIOUS
  <2>2. task'.status = "stopped"
    BY <1>0, <1>9, <2>1, Zenon DEF ProcessExit, Tasks
  <2> QED
    BY <1>a, <2>2, Zenon DEF Alive
<1>10. CASE RestarterFailed
  BY <1>10, <1>a, Zenon DEF RestarterFailed, envVars, LifecycleInv, RestarterInv, Alive
<1>11. CASE FlagSet("paused", TRUE)
  BY <1>8, <1>11
<1>12. CASE FlagSet("resumed", FALSE)
  BY <1>8, <1>12
<1> QED
  BY <1>1, <1>2, <1>3, <1>4, <1>5, <1>6, <1>7, <1>9, <1>10, <1>11, <1>12, Zenon DEF RunStep, Exited

-----------------------------------------------------------------------------
(* StopInv: what an actor has asked for stays so *)

\* the actor is about the run it was called for, or has nothing more to do
SameGen(r, x) == x.gen = r.gen \/ (x.pc = "idle" /\ x.ret = "none")

LEMMA AtGen ==
    ASSUME NEW r \in ActorStates, NEW pc \in Pcs, NEW b \in BOOLEAN
    PROVE  SameGen(r, At(r, pc)) /\ SameGen(r, [At(r, pc) EXCEPT !.inStop = b])
  BY Zenon DEF At, ActorStates, SameGen

LEMMA ReturnGen ==
    ASSUME NEW r \in ActorStates, NEW ret \in {"none", "stopped", "error"}
    PROVE  SameGen(r, Returned(r, ret)) /\ SameGen(r, Idle)
  BY ReturnedFields, IdleFields, ZenonT(60) DEF SameGen

LEMMA AfterStopGen ==
    ASSUME NEW r \in ActorStates, NEW ok \in BOOLEAN
    PROVE  SameGen(r, AfterStop(r, ok))
<1>1. {"rmDead", "rmReset", "startLock", "clearRestarted", "shutdownWait"} \subseteq Pcs
  BY Zenon DEF Pcs, WaitPcs
<1> QED
  BY <1>1, AtGen, ReturnGen, Zenon DEF AfterStop

LEMMA AfterKillGen ==
    ASSUME NEW r \in ActorStates, NEW res \in {"nil", "not running", "error"}
    PROVE  SameGen(r, AfterKill(r, res))
<1>1. {"lastWait", "rmReset", "stopEnter"} \subseteq Pcs
  BY Zenon DEF Pcs, WaitPcs
<1> QED
  BY <1>1, AtGen, ReturnGen, AfterStopGen, Zenon DEF AfterKill

LEMMA AfterWaitGen ==
    ASSUME NEW r \in ActorStates, r.pc \in WaitPcs, NEW ok \in BOOLEAN
    PROVE  SameGen(r, AfterWait(r, ok))
<1>0. {"reapExit", "killDirect", "killEnter"} \subseteq Pcs
  BY Zenon DEF Pcs
<1>1. CASE r.pc = "reapWait"
  BY <1>0, <1>1, AtGen, ReturnGen, Zenon DEF AfterWait
<1>2. CASE r.pc = "killWait"
  BY <1>0, <1>2, AtGen, AfterKillGen, Zenon DEF AfterWait
<1>3. CASE r.pc = "finalWait"
  BY <1>3, AfterKillGen, Zenon DEF AfterWait
<1>4. CASE r.pc = "lastWait"
  BY <1>4, AfterStopGen, Zenon DEF AfterWait
<1>5. CASE r.pc = "shutdownWait"
  BY <1>5, ReturnGen, Zenon DEF AfterWait
<1>6. CASE r.pc \in {"stopWait", "stopWaitErr"}
  <2>1. AfterWait(r, ok) = IF ok THEN AfterStop(r, TRUE)
                           ELSE IF StopForever /\ ~r.inRm THEN AfterStop(r, r.pc = "stopWait")
                           ELSE At(r, "killEnter")
    BY <1>6, Zenon DEF AfterWait
  <2> QED
    BY <1>0, <2>1, AtGen, AfterStopGen, Zenon
<1> QED
  BY <1>1, <1>2, <1>3, <1>4, <1>5, <1>6, Zenon DEF WaitPcs

\* Nothing restarts, so nothing that is asked for is violated.
LEMMA FinalStops ==
    ASSUME SignalMatches /\ ~misfired' => ~st'.Running \/ Final'
    PROVE  StopInv'
  BY Zenon DEF StopInv, Final, NoRestart, GetRunningTask

\* The current run is a new one, or its start has failed, and no removal is about.
LEMMA NewRunStops ==
    ASSUME LifecycleInv', ~st'.RemovalInProgress,
           st'.ErrorMsg # "" \/ \A a \in Actors : act'[a].gen # task'.gen
    PROVE  StopInv'
<1>1. \A a \in Actors : ~act'[a].inRm
  BY Zenon DEF LifecycleInv, RemovalInv
<1>2. \A a \in Actors : act'[a].pc \notin PastStopPcs
  BY <1>1, Zenon DEF LifecycleInv, RemovalInv, PastStopPcs, RmPcs
<1> QED
  BY <1>1, <1>2, Zenon DEF StopInv, Asked, Stopped, OfThisRun

\* the run, the restart manager's verdict and the pending restart stay as they are
Steady ==
    /\ ~misfired' => ~misfired
    /\ task'.gen = task.gen /\ (st'.ErrorMsg = "" => st.ErrorMsg = "")
    /\ SignalMatches /\ ~misfired => (NoRestart => NoRestart') /\ (Final => Final')

\* x claims nothing that r did not
Quiet(r, x) ==
    /\ x.pc \notin AskedPcs /\ x.pc \notin PastStopPcs
    /\ x.ret = "stopped" => r.ret = "stopped" /\ x.gen = r.gen

LEMMA SteadyStops ==
    ASSUME StopInv, Steady,
           \A a \in Actors : \/ act'[a] = act[a] /\ wait'[a] = wait[a]
                             \/ Quiet(act[a], act'[a])
                             \/ SignalMatches /\ ~misfired
                                   => (Asked(a)' => NoRestart') /\ (Stopped(a)' => Final')
    PROVE  StopInv'
<1> SUFFICES ASSUME SignalMatches, ~misfired', NEW a \in Actors
             PROVE  (Asked(a)' => NoRestart') /\ (Stopped(a)' => Final')
  BY Zenon DEF StopInv
<1>0. /\ ~misfired /\ (Asked(a) => NoRestart') /\ (Stopped(a) => Final')
      /\ task'.gen = task.gen /\ (st'.ErrorMsg = "" => st.ErrorMsg = "")
  BY Zenon DEF StopInv, Steady
<1>1. CASE act'[a] = act[a] /\ wait'[a] = wait[a]
  BY <1>0, <1>1, Zenon DEF Asked, Stopped, OfThisRun
<1>2. CASE Quiet(act[a], act'[a])
  BY <1>0, <1>2, Zenon DEF Quiet, Asked, Stopped, OfThisRun
<1> QED
  BY <1>0, <1>1, <1>2, Zenon

\* A step that leaves the run alone is steady.
LEMMA SteadyStep ==
    ASSUME SameProcess(st, st'), st'.ErrorMsg = "" => st.ErrorMsg = "", task'.gen = task.gen,
           misfired' = misfired, rm.canceled => rm'.canceled, restarter'.pc = restarter.pc
    PROVE  Steady
  BY Zenon DEF Steady, NoRestart, GetRunningTask, Final, SameProcess

LEMMA IdleQuiet ==
    ASSUME NEW r PROVE Quiet(r, Idle)
  BY IdleFields, Zenon DEF Quiet, AskedPcs, PastStopPcs

LEMMA CallQuiet ==
    ASSUME NEW r, NEW op, NEW inStop, NEW gen,
           NEW pc \in {"startLock", "restartMark", "stopEnter", "killSignal", "rmEnter", "reapWait"}
    PROVE  Quiet(r, Call(op, pc, inStop, gen))
<1>1. pc \in Pcs /\ pc \notin AskedPcs /\ pc \notin PastStopPcs
  BY Zenon DEF Pcs, WaitPcs, AskedPcs, PastStopPcs
<1>2. LET x == Call(op, pc, inStop, gen) IN x.pc = pc /\ x.ret = "none"
  BY DEF Call
<1> QED
  BY <1>1, <1>2 DEF Quiet

LEMMA AtQuiet ==
    ASSUME NEW r \in ActorStates, NEW inStop \in BOOLEAN, NEW inRm \in BOOLEAN,
           NEW pc \in {"startLock", "clearRestarted", "stopEnter", "stopSignal", "killEnter",
                       "killSignal", "rmEnter", "rmCheck", "rmReset"}
    PROVE  /\ Quiet(r, At(r, pc)) /\ Quiet(r, [At(r, pc) EXCEPT !.inStop = inStop])
           /\ Quiet(r, [At(r, pc) EXCEPT !.inRm = inRm])
<1>1. pc \in Pcs /\ pc \notin AskedPcs /\ pc \notin PastStopPcs
  BY Zenon DEF Pcs, AskedPcs, PastStopPcs
<1>2. \A x : x.pc = pc /\ x.ret = r.ret /\ x.gen = r.gen => Quiet(r, x)
  BY <1>1, Zenon DEF Quiet
<1>3. LET x == At(r, pc) IN
        x \in ActorStates /\ x.pc = pc /\ x.ret = r.ret /\ x.gen = r.gen
  BY <1>1, AtFields, Zenon
<1>4. LET x == [At(r, pc) EXCEPT !.inStop = inStop] IN x.pc = pc /\ x.ret = r.ret /\ x.gen = r.gen
  BY <1>3, Zenon DEF ActorStates
<1>5. LET x == [At(r, pc) EXCEPT !.inRm = inRm] IN x.pc = pc /\ x.ret = r.ret /\ x.gen = r.gen
  BY <1>3, Zenon DEF ActorStates
<1> QED
  BY <1>2, <1>3, <1>4, <1>5, Zenon

\* One actor moves.
LEMMA MoveStops ==
    ASSUME TypeOK, StopInv, Steady, NEW a \in Actors, NEW x, Become(a, x),
           \A b \in Actors \ {a} : wait'[b] = wait[b],
           \/ Quiet(act[a], x)
           \/ SignalMatches /\ ~misfired => (Asked(a)' => NoRestart') /\ (Stopped(a)' => Final')
    PROVE  StopInv'
<1>1. act'[a] = x /\ \A b \in Actors \ {a} : act'[b] = act[b]
  BY Zenon DEF TypeOK, Become
<1> QED
  BY <1>1, SteadyStops, Zenon

\* One actor moves and nothing else changes.
LEMMA OnlyMoves ==
    ASSUME LifecycleInv, StopInv, NEW a \in Actors, NEW x, Become(a, x), Quiet(act[a], x),
           UNCHANGED <<st, rm, restarter, task, misfired, wait>>
    PROVE  StopInv'
<1>1. Steady
  BY SteadyStep, Zenon DEF SameProcess
<1> QED
  BY <1>1, MoveStops, Zenon DEF LifecycleInv

\* No actor moves, and the run is left alone.
LEMMA NobodyMoves ==
    ASSUME StopInv, Steady, act' = act, wait' = wait
    PROVE  StopInv'
  BY SteadyStops, Zenon

\* The calls that begin.
LEMMA ClientStops ==
    ASSUME LifecycleInv, StopInv, NEW c \in Clients, ClientBegins(c)
    PROVE  StopInv'
<1>0. c \in Actors /\ st \in State /\ task \in Tasks
  BY Zenon DEF Actors, LifecycleInv, TypeOK
<1>1. CASE ContainerPause(c) \/ ContainerUnpause(c)
  <2>1. PICK flag, status :
          /\ st' = SetPaused(st, flag) /\ task' = [task EXCEPT !.status = status]
          /\ UNCHANGED <<rm, restarter, act, wait, misfired>>
    BY <1>1, Zenon DEF ContainerPause, ContainerUnpause
  <2>2. SameProcess(st, st') /\ st'.ErrorMsg = st.ErrorMsg
    BY <1>0, <2>1, SetPausedRun
  <2>3. task'.gen = task.gen
    BY <1>0, <2>1, Zenon DEF Tasks
  <2>4. Steady
    BY <2>1, <2>2, <2>3, SteadyStep, Zenon
  <2> QED
    BY <2>1, <2>4, NobodyMoves, Zenon
<1>2. CASE \/ ContainerStart(c) \/ ContainerStop(c) \/ ContainerKill(c) \/ ContainerRestart(c)
           \/ ContainerRm(c) \/ Shutdown(c)
  <2>1. UNCHANGED <<st, rm, restarter, task, misfired, wait>>
    BY <1>2, Zenon DEF ContainerStart, ContainerStop, ContainerKill, ContainerRestart, ContainerRm,
       Shutdown, Begin, BeginStopping, ctrVars, envVars
  <2>2. \E x : Become(c, x) /\ Quiet(act[c], x)
    BY <1>2, CallQuiet, IdleQuiet, Zenon
       DEF ContainerStart, ContainerStop, ContainerKill, ContainerRestart, ContainerRm,
       Shutdown, Begin, BeginStopping
  <2> QED
    BY <1>0, <2>1, <2>2, OnlyMoves, Zenon
<1> QED
  BY <1>1, <1>2, Zenon DEF ClientBegins

\* The start of a process, or a failed one, ends what was asked of the last run.
LEMMA StartStops ==
    ASSUME LifecycleInv, LifecycleInv', ~StartRefused,
           \/ StartTask /\ \A b \in Actors : act'[b].gen <= task.gen
           \/ FailEarly \/ \E err \in Errors : CreateTaskAndFail(err)
    PROVE  StopInv'
<1>0. st \in State /\ task.gen \in Nat /\ task.gen + 1 \in Nat /\ ~st.RemovalInProgress
  BY DEF LifecycleInv, TypeOK, Tasks, StartRefused
<1>1. CASE StartTask /\ \A b \in Actors : act'[b].gen <= task.gen
  <2>1. ~st'.RemovalInProgress
    BY <1>0, <1>1, StartTaskTypes, Zenon DEF LifecycleInv, SameRemoval
  <2>2. task'.gen = task.gen + 1
    BY <1>1 DEF StartTask
  <2>3. \A b \in Actors : act'[b].gen # task'.gen
    BY <1>0, <1>1, <2>2
  <2> QED
    BY <2>1, <2>3, NewRunStops, Zenon
<1>2. CASE FailEarly \/ \E err \in Errors : CreateTaskAndFail(err)
  <2>1. PICK msg \in {"start", "setup networking"} : st' = SetStartError(st, msg)
    BY <1>2, Zenon DEF FailEarly, CreateTaskAndFail
  <2>2. msg \in ErrorMsgs /\ msg # ""
    BY Constants, Zenon
  <2>3. ~st'.RemovalInProgress
    BY <1>0, <2>1, <2>2, SetStartErrorFacts, Zenon DEF SameRemoval
  <2>4. st'.ErrorMsg # ""
    BY <1>0, <2>1, <2>2, SetStartErrorRun, Zenon
  <2> QED
    BY <2>3, <2>4, NewRunStops, Zenon
<1> QED
  BY <1>1, <1>2, Zenon

LEMMA StartFailedQuiet ==
    ASSUME NEW r \in ActorStates
    PROVE  Quiet(r, StartFailed(r)) /\ Quiet(r, StartCleanedUp(r))
  BY AtQuiet, IdleQuiet, Zenon DEF StartFailed, StartCleanedUp

LEMMA containerStartStops ==
    ASSUME LifecycleInv, LifecycleInv', StopInv, NEW a \in Actors, containerStart(a)
    PROVE  StopInv'
<1>0. act[a] \in ActorStates /\ task.gen \in Nat
  BY Zenon DEF LifecycleInv, TypeOK, Tasks
<1>1. CASE UNCHANGED <<ctrVars, task, queue>>
  <2>1. UNCHANGED <<st, rm, restarter, task, misfired, wait>>
    BY <1>1, Zenon DEF containerStart, ctrVars
  <2>2. \E x : Become(a, x) /\ Quiet(act[a], x)
    BY <1>0, IdleQuiet, StartFailedQuiet, Zenon DEF containerStart
  <2> QED
    BY <2>1, <2>2, OnlyMoves, Zenon
<1>2. CASE ~StartRefused /\ StartTask /\ Become(a, Idle)
  <2>1. \A b \in Actors : act[b].gen <= task.gen
    BY Zenon DEF LifecycleInv, GoneInv
  <2>2. Idle.gen <= task.gen
    BY <1>0, IdleFields
  <2>3. act'[a] = Idle /\ \A b \in Actors \ {a} : act'[b] = act[b]
    BY <1>2, Zenon DEF Become, LifecycleInv, TypeOK
  <2>4. \A b \in Actors : act'[b].gen <= task.gen
    BY <2>1, <2>2, <2>3, Zenon
  <2> QED
    BY <1>2, <2>4, StartStops, Zenon
<1>3. CASE ~StartRefused /\ (FailEarly \/ \E err \in Errors : CreateTaskAndFail(err))
  BY <1>3, StartStops, Zenon
<1> QED
  BY <1>1, <1>2, <1>3, Zenon DEF containerStart

\* Where a signal leads to claims no more than that no restart follows.
LEMMA SignalClaims ==
    ASSUME LifecycleInv, StopInv, Steady, NEW a \in Actors,
           NEW x \in {Idle, At(act[a], "stopWait"), At(act[a], "stopWaitErr"), At(act[a], "killWait")},
           act'[a] = x, wait'[a] = "none", SignalMatches => NoRestart',
           task'.gen = task.gen, st' = st
    PROVE  SignalMatches /\ ~misfired => (Asked(a)' => NoRestart') /\ (Stopped(a)' => Final')
<1>0. act[a] \in ActorStates
  BY Zenon DEF LifecycleInv, TypeOK
<1>1. x.pc \notin PastStopPcs /\ (x.ret = "stopped" => act[a].ret = "stopped" /\ x.gen = act[a].gen)
  <2>1. CASE x = Idle
    BY <2>1, IdleFields, Zenon DEF PastStopPcs
  <2>2. ASSUME NEW pc \in {"stopWait", "stopWaitErr", "killWait"}, x = At(act[a], pc)
        PROVE  x.pc \notin PastStopPcs /\ x.ret = act[a].ret /\ x.gen = act[a].gen
    <3>1. pc \in Pcs /\ pc \notin PastStopPcs
      BY Zenon DEF Pcs, WaitPcs, PastStopPcs
    <3>2. LET y == At(act[a], pc) IN y.pc = pc /\ y.ret = act[a].ret /\ y.gen = act[a].gen
      BY <1>0, <3>1, AtFields, Zenon
    <3> QED
      BY <2>2, <3>1, <3>2, Zenon
  <2> QED
    BY <2>1, <2>2, Zenon
<1>2. Stopped(a)' => act[a].ret = "stopped" /\ OfThisRun(a)
  BY <1>1, Zenon DEF Stopped, OfThisRun
<1> QED
  BY <1>2, Zenon DEF StopInv, Stopped, Steady

\* A signal: from here on the actor counts on the restart manager.
LEMMA killWithSignalStops ==
    ASSUME LifecycleInv, StopInv, NEW a \in Actors, act[a].pc \in {"stopSignal", "killSignal"},
           NEW sig \in {"term", "kill"},
           NEW next \in {Idle, At(act[a], "stopWait"), At(act[a], "killWait")},
           NEW failed \in {Idle, At(act[a], "stopWaitErr"), At(act[a], "killWait")},
           killWithSignal(a, sig, next, failed), UNCHANGED <<wait, misfired, registered>>
    PROVE  StopInv'
<1>0. /\ TypeOK /\ st' = st /\ task \in Tasks /\ rm \in RestartManagers /\ act[a] \in ActorStates
      /\ act \in [Actors -> ActorStates]
  BY Zenon DEF killWithSignal, ctrVars, LifecycleInv, TypeOK
<1>1. CASE ~GetRunningTask
  <2>1. UNCHANGED <<st, rm, restarter, task>> /\ Become(a, failed)
    BY <1>1, Zenon DEF killWithSignal, ctrVars
  <2>2. Steady
    BY <2>1, SteadyStep, Zenon DEF SameProcess
  <2>3. wait'[a] = "none"
    BY Zenon DEF LifecycleInv, GoneInv, WaitPcs
  <2>4. act'[a] = failed
    BY <1>0, <2>1, Zenon DEF Become
  <2>5. NoRestart'
    BY <1>1, <2>1, Zenon DEF NoRestart, GetRunningTask
  <2>6. SignalMatches /\ ~misfired => (Asked(a)' => NoRestart') /\ (Stopped(a)' => Final')
    BY <1>0, <2>1, <2>2, <2>3, <2>4, <2>5, SignalClaims, Zenon
  <2> QED
    BY <1>0, <2>1, <2>2, <2>3, <2>6, MoveStops, Zenon
<1>2. CASE GetRunningTask
  <2>1. IF sig = "kill" \/ SignalMatches THEN ExitOnNext ELSE UNCHANGED <<rm, restarter>>
    BY <1>2, Zenon DEF killWithSignal
  <2>2. /\ restarter'.pc = restarter.pc /\ (rm.canceled => rm'.canceled)
        /\ SignalMatches => rm'.canceled
    <3>1. CASE ExitOnNext
      <4>1. [rm EXCEPT !.canceled = TRUE].canceled
        BY <1>0, Zenon DEF RestartManagers
      <4> QED
        BY <1>0, <3>1, <4>1, ExitOnNextTypes, Zenon DEF ExitOnNext
    <3>2. CASE UNCHANGED <<rm, restarter>> /\ ~SignalMatches
      BY <3>2, Zenon
    <3> QED
      BY <2>1, <3>1, <3>2, Zenon
  <2>3. task'.gen = task.gen
    <3>1. Still \/ Signalled
      BY killWithSignalRuns, Zenon
    <3> QED
      BY <3>1, Zenon DEF Still, Signalled
  <2>4. Steady
    BY <1>0, <2>2, <2>3, SteadyStep, Zenon DEF SameProcess
  <2>5. SignalMatches => NoRestart'
    BY <2>2, Zenon DEF NoRestart
  <2>6. wait'[a] = "none" /\ wait' = wait
    BY Zenon DEF LifecycleInv, GoneInv, WaitPcs
  <2>7. ASSUME NEW x \in {next, failed}, act'[a] = x
        PROVE  SignalMatches /\ ~misfired => (Asked(a)' => NoRestart') /\ (Stopped(a)' => Final')
    BY <1>0, <2>3, <2>4, <2>5, <2>6, <2>7, SignalClaims, Zenon
  <2>8. CASE \E x \in {next, failed} : Become(a, x)
    <3>1. PICK x \in {next, failed} : Become(a, x)
      BY <2>8, Zenon
    <3>2. act'[a] = x
      BY <1>0, <3>1, Zenon DEF Become
    <3> QED
      BY <1>0, <2>4, <2>6, <2>7, <3>1, <3>2, MoveStops, Zenon
  <2>9. CASE act' = SpawnReaper([act EXCEPT ![a] = next])
    <3>1. CASE act["reaper"].pc # "idle"
      <4>1. Become(a, next)
        BY <2>9, <3>1, Zenon DEF SpawnReaper, Become
      <4> QED
        BY <2>8, <4>1, Zenon
    <3>2. CASE act["reaper"].pc = "idle"
      <4>1. a # "reaper" /\ "reaper" \in Actors
        BY <3>2, Zenon DEF Actors, Goroutines
      <4>2. /\ act'["reaper"] = Call("reap", "reapWait", FALSE, task.gen)
            /\ act'[a] = next
            /\ \A b \in Actors \ {a, "reaper"} : act'[b] = act[b]
        BY <1>0, <2>9, <3>2, <4>1, Zenon DEF SpawnReaper
      <4>3. Quiet(act["reaper"], act'["reaper"])
        BY <4>2, CallQuiet, Zenon
      <4> QED
        BY <2>4, <2>6, <2>7, <4>2, <4>3, SteadyStops, Zenon
    <3> QED
      BY <3>1, <3>2, Zenon
  <2> QED
    BY <1>2, <2>8, <2>9, Zenon DEF killWithSignal
<1> QED
  BY <1>1, <1>2, <1>0, Zenon DEF LifecycleInv

LEMMA SignalStops ==
    ASSUME LifecycleInv, StopInv, NEW a \in Actors, StopSignal(a) \/ KillSignal(a)
    PROVE  StopInv'
<1>1. CASE StopSignal(a)
  BY <1>1, killWithSignalStops, Zenon DEF StopSignal, rmVars
<1>2. CASE KillSignal(a)
  BY <1>2, killWithSignalStops, Zenon DEF KillSignal, rmVars
<1> QED
  BY <1>1, <1>2, Zenon

\* State.Wait, and its result.
LEMMA WaitStops ==
    ASSUME LifecycleInv, StopInv, NEW a \in Actors, Wait(a)
    PROVE  StopInv'
<1>0. UNCHANGED <<st, rm, restarter, task, misfired, act>> /\ wait \in [Actors -> {"none", "waiting", "ok", "err"}]
  BY Zenon DEF Wait, ctrVars, envVars, LifecycleInv, TypeOK
<1>1. CASE ~st.Running
  BY <1>0, <1>1, FinalStops, Zenon
<1>2. CASE st.Running
  <2>1. wait'[a] = "waiting" /\ \A b \in Actors \ {a} : wait'[b] = wait[b]
    BY <1>0, <1>2, Zenon DEF Wait
  <2>2. Steady
    BY <1>0, SteadyStep, Zenon DEF SameProcess
  <2>3. SignalMatches /\ ~misfired => (Asked(a)' => NoRestart') /\ (Stopped(a)' => Final')
    <3>1. (Asked(a)' => Asked(a)) /\ (Stopped(a)' => Stopped(a))
      BY <1>0, <2>1, Zenon DEF Asked, Stopped, OfThisRun
    <3> QED
      BY <2>2, <3>1, Zenon DEF StopInv, Steady
  <2> QED
    BY <1>0, <2>1, <2>2, <2>3, SteadyStops, Zenon
<1> QED
  BY <1>1, <1>2, Zenon

\* Whatever an actor that has stopped the run goes on to is justified.
LEMMA FollowerStops ==
    ASSUME LifecycleInv, StopInv, NEW a \in Actors, NEW x, Become(a, x), Follows(act[a], x),
           SameGen(act[a], x), \A b \in Actors \ {a} : wait'[b] = wait[b], wait'[a] = "none",
           UNCHANGED <<st, rm, restarter, misfired>>, task'.gen = task.gen, act[a].pc \in AskedPcs,
           Claims(act[a], x) /\ Asked(a) /\ SignalMatches /\ ~misfired => Final
    PROVE  StopInv'
<1>1. Steady
  BY SteadyStep, Zenon DEF SameProcess
<1>2. act'[a] = x
  BY Zenon DEF LifecycleInv, TypeOK, Become
<1>3. SignalMatches /\ ~misfired => (Asked(a)' => NoRestart') /\ (Stopped(a)' => Final')
  <2> SUFFICES ASSUME SignalMatches, ~misfired
               PROVE  (Asked(a)' => NoRestart') /\ (Stopped(a)' => Final')
    BY Zenon
  <2>1. x.inRm = act[a].inRm /\ (x.pc \in PastStopPcs => x.pc = "rmDead" /\ x.inRm)
    BY Zenon DEF Follows, Fits, PastStopPcs, RmPcs
  <2>2. x.pc \in AskedPcs \/ x.ret = "stopped" => x.gen = act[a].gen
    BY Zenon DEF SameGen, AskedPcs
  <2>3. Asked(a)' => Asked(a)
    BY <1>2, <2>1, <2>2, Zenon DEF Asked, OfThisRun
  <2>4. Stopped(a)' => \/ Claims(act[a], x) /\ Asked(a)
                       \/ act[a].ret = "stopped" /\ OfThisRun(a)
    BY <1>2, <2>1, <2>2, Zenon DEF Stopped, Asked, Claims, OfThisRun
  <2> QED
    BY <1>1, <2>3, <2>4, Zenon DEF StopInv, Steady, Stopped
<1> QED
  BY <1>1, <1>3, MoveStops, Zenon DEF LifecycleInv

LEMMA WaitReturnStops ==
    ASSUME LifecycleInv, StopInv, NEW a \in Actors, WaitReturn(a)
    PROVE  StopInv'
<1>0. /\ UNCHANGED <<st, rm, restarter, task, misfired>> /\ act[a].pc \in WaitPcs
      /\ wait'[a] = "none" /\ \A b \in Actors \ {a} : wait'[b] = wait[b]
  BY Zenon DEF WaitReturn, ctrVars, envVars, LifecycleInv, TypeOK
<1>1. act[a] \in ActorStates /\ Fits(act[a]) /\ act[a].op # "signal"
  BY <1>0, ActorFits, Zenon DEF WaitPcs
<1>2. CASE act[a].pc = "reapWait"
  <2>1. \E x \in {Idle, At(act[a], "reapExit")} : Become(a, x)
    BY <1>2, Zenon DEF WaitReturn, AfterWait
  <2>2. Quiet(act[a], At(act[a], "reapExit"))
    <3>1. "reapExit" \in Pcs /\ "reapExit" \notin AskedPcs /\ "reapExit" \notin PastStopPcs
      BY Zenon DEF Pcs, AskedPcs, PastStopPcs
    <3> QED
      BY <1>1, <3>1, AtFields, Zenon DEF Quiet
  <2>3. PICK x : Become(a, x) /\ Quiet(act[a], x)
    BY <2>1, <2>2, IdleQuiet, Zenon
  <2>4. Steady
    BY <1>0, SteadyStep, Zenon DEF SameProcess
  <2> QED
    BY <1>0, <2>3, <2>4, MoveStops, Zenon DEF LifecycleInv
<1>3. CASE act[a].pc # "reapWait"
  <2>1. act[a].pc \in AskedPcs
    BY <1>0, <1>3, Zenon DEF WaitPcs, AskedPcs
  <2>2. CASE wait[a] \in {"ok", "err"} /\ Become(a, AfterWait(act[a], wait[a] = "ok"))
    <3>1. PICK ok \in BOOLEAN : Become(a, AfterWait(act[a], ok))
      BY <2>2, Zenon
    <3>2. Follows(act[a], AfterWait(act[a], ok)) /\ SameGen(act[a], AfterWait(act[a], ok))
      BY <1>0, <1>1, AfterWaitFollows, AfterWaitGen, Zenon
    <3>3. Asked(a) /\ SignalMatches /\ ~misfired => Final
      BY <2>2, Zenon DEF StopInv, Stopped
    <3> QED
      BY <1>0, <2>1, <3>1, <3>2, <3>3, FollowerStops, Zenon
  <2>3. CASE HasTimeout(act[a]) /\ Become(a, AfterWait(act[a], FALSE))
    <3>1. /\ Follows(act[a], AfterWait(act[a], FALSE)) /\ SameGen(act[a], AfterWait(act[a], FALSE))
          /\ ~Claims(act[a], AfterWait(act[a], FALSE))
      BY <1>0, <1>1, <2>3, AfterWaitFollows, AfterWaitGen, Zenon
    <3> QED
      BY <1>0, <2>1, <2>3, <3>1, FollowerStops, Zenon
  <2> QED
    BY <2>2, <2>3, Zenon DEF WaitReturn
<1> QED
  BY <1>2, <1>3, Zenon

\* SIGKILL to the pid: a process that is gone is not one that waits for a restart.
LEMMA killProcessDirectlyStops ==
    ASSUME LifecycleInv, TaskInv, StopInv, NEW a \in Actors, killProcessDirectly(a)
    PROVE  StopInv'
<1>0. /\ UNCHANGED <<st, rm, restarter, misfired, wait>> /\ act[a].pc = "killDirect"
      /\ act[a].pc \in AskedPcs /\ wait[a] = "none" /\ task \in Tasks
  BY Zenon DEF killProcessDirectly, ctrVars, LifecycleInv, TypeOK, GoneInv, WaitPcs, AskedPcs
<1>1. act[a] \in ActorStates /\ Fits(act[a]) /\ act[a].op # "signal"
  BY <1>0, ActorFits, Zenon
<1>2. task'.gen = task.gen
  <2>1. CASE task' = [task EXCEPT !.sig = "kill"]
    BY <1>0, <2>1, TaskKill, Zenon
  <2> QED
    BY <2>1, Zenon DEF killProcessDirectly
<1>3. CASE Goto(a, "finalWait")
  <2>1. "finalWait" \in Pcs /\ "finalWait" \in InRmPcs /\ "finalWait" \notin RmPcs
    BY Zenon DEF Pcs, WaitPcs, InRmPcs, RmPcs
  <2>2. /\ Follows(act[a], At(act[a], "finalWait")) /\ ~Claims(act[a], At(act[a], "finalWait"))
        /\ SameGen(act[a], At(act[a], "finalWait"))
    BY <1>1, <2>1, AtFollows, AtGen, Zenon DEF RmPcs
  <2>3. Become(a, At(act[a], "finalWait"))
    BY <1>3, Zenon DEF Goto
  <2> QED
    BY <1>0, <1>2, <2>2, <2>3, FollowerStops, Zenon
<1>4. CASE st.Pid # 0 /\ \E res \in {"nil", "error"} : Become(a, AfterKill(act[a], res))
  <2>1. PICK res \in {"nil", "error"} : Become(a, AfterKill(act[a], res))
    BY <1>4, Zenon
  <2>2. Follows(act[a], AfterKill(act[a], res)) /\ SameGen(act[a], AfterKill(act[a], res))
    BY <1>1, AfterKillFollows, AfterKillGen, Zenon
  <2>3. Asked(a) /\ SignalMatches /\ ~misfired => Final
    BY <1>4, Zenon DEF StopInv, NoRestart, GetRunningTask, Final, TaskInv, LifecycleInv, RestarterInv
  <2> QED
    BY <1>0, <1>2, <2>1, <2>2, <2>3, FollowerStops, Zenon
<1> QED
  BY <1>3, <1>4, Zenon DEF killProcessDirectly

\* The IsRunning checks of containerStop and kill.
LEMMA EnterStops ==
    ASSUME LifecycleInv, StopInv, NEW a \in Actors, StopEnter(a) \/ KillEnter(a)
    PROVE  StopInv'
<1>0. act[a] \in ActorStates /\ UNCHANGED <<st, rm, restarter, task, misfired, wait>>
  BY Zenon DEF LifecycleInv, TypeOK, StopEnter, KillEnter, ctrVars, envVars
<1>1. CASE ~st.Running
  BY <1>0, <1>1, FinalStops, Zenon
<1>2. CASE st.Running
  <2>1. \E x \in {At(act[a], "stopSignal"), At(act[a], "killSignal")} : Become(a, x)
    BY <1>2, Zenon DEF StopEnter, KillEnter
  <2>2. \E x : Become(a, x) /\ Quiet(act[a], x)
    BY <1>0, <2>1, AtQuiet, Zenon
  <2> QED
    BY <1>0, <2>2, OnlyMoves, Zenon
<1> QED
  BY <1>1, <1>2, Zenon

\* The steps around a removal, and those of a restart.
LEMMA RemovalStops ==
    ASSUME LifecycleInv, StopInv, NEW a \in Actors,
           \/ RmEnter(a) \/ RmCheck(a) \/ RmReset(a) \/ RestartMark(a) \/ ClearRestarted(a)
    PROVE  StopInv'
<1>0. act[a] \in ActorStates /\ st \in State
  BY Zenon DEF LifecycleInv, TypeOK
<1>1. /\ UNCHANGED <<rm, restarter, task, misfired, wait>>
      /\ st' \in {st, SetRemovalInProgress(st), ResetRemovalInProgress(st)}
  BY Zenon DEF RmEnter, RmCheck, RmReset, RestartMark, ClearRestarted, ctrVars, envVars
<1>2. SameProcess(st, st') /\ st'.ErrorMsg = st.ErrorMsg
  <2>1. CASE st' = st
    BY <2>1, Zenon DEF SameProcess
  <2>2. CASE st' = SetRemovalInProgress(st)
    BY <1>0, <2>2, RemovalRunFields, Zenon DEF SameRun
  <2>3. CASE st' = ResetRemovalInProgress(st)
    BY <1>0, <2>3, RemovalRunFields, Zenon DEF SameRun
  <2> QED
    BY <1>1, <2>1, <2>2, <2>3, Zenon
<1>3. Quiet(act[a], AfterRm(act[a]))
  BY <1>0, AtQuiet, IdleQuiet, Zenon DEF AfterRm
<1>4. PICK x : Become(a, x) /\ Quiet(act[a], x)
  <2>1. CASE RmEnter(a)
    BY <1>0, <1>3, <2>1, AtQuiet, Zenon DEF RmEnter
  <2>2. CASE RmCheck(a)
    BY <1>0, <2>2, AtQuiet, Zenon DEF RmCheck
  <2>3. CASE RmReset(a)
    BY <1>3, <2>3, Zenon DEF RmReset
  <2>4. CASE RestartMark(a)
    BY <1>0, <2>4, AtQuiet, Zenon DEF RestartMark
  <2>5. CASE ClearRestarted(a)
    BY <2>5, IdleQuiet, Zenon DEF ClearRestarted
  <2> QED
    BY <2>1, <2>2, <2>3, <2>4, <2>5, Zenon
<1>5. Steady
  BY <1>1, <1>2, SteadyStep, Zenon
<1> QED
  BY <1>1, <1>4, <1>5, MoveStops, Zenon DEF LifecycleInv

LEMMA PastStopStops ==
    ASSUME LifecycleInv, StopInv, NEW a \in Actors,
           \/ RmDead(a) \/ RmLayer(a) \/ RmFs(a) \/ RmUnregister(a) \/ RmRemoved(a)
    PROVE  StopInv'
<1>0. st \in State
  BY Zenon DEF LifecycleInv, TypeOK
<1>1. /\ act[a].pc \in PastStopPcs /\ UNCHANGED <<rm, restarter, misfired>>
      /\ st' \in {st, SetDead(st), SetRemovalError(st), SetRemoved(st)}
  BY Zenon DEF RmDead, RmLayer, RmFs, RmUnregister, RmRemoved, RemovalError, PastStopPcs, ctrVars
<1>2. st'.Running = st.Running
  <2>1. CASE st' = SetDead(st)
    BY <1>0, <2>1, RemovalRunFields, Zenon DEF SameRun, SameProcess
  <2>2. CASE st' = SetRemovalError(st)
    BY <1>0, <2>2, RemovalRunFields, Zenon DEF SameRun, SameProcess
  <2>3. CASE st' = SetRemoved(st)
    BY <1>0, <2>3, RemovalRunFields, Zenon DEF SameRun, SameProcess
  <2> QED
    BY <1>1, <2>1, <2>2, <2>3, Zenon
<1>3. SignalMatches /\ ~misfired => Final
  BY <1>1, Zenon DEF StopInv, Stopped
<1>4. SignalMatches /\ ~misfired' => Final'
  BY <1>1, <1>2, <1>3, Zenon DEF Final
<1> QED
  BY <1>4, FinalStops, Zenon

LEMMA ActorStops ==
    ASSUME LifecycleInv, LifecycleInv', TaskInv, StopInv, NEW a \in Actors, ActorStep(a)
    PROVE  StopInv'
  BY containerStartStops, WaitStops, WaitReturnStops, EnterStops, SignalStops,
     killProcessDirectlyStops, RemovalStops, PastStopStops, Zenon DEF ActorStep

\* An exit that is handled: no restart follows if it was asked for that none does.
LEMMA ExitStops ==
    ASSUME LifecycleInv, LifecycleInv', TaskInv, StopInv, NEW a \in Actors, NEW e \in Events,
           e = NoEvent \/ (0 < e.gen /\ e.gen <= task.gen), handleContainerExit(a, e)
    PROVE  StopInv'
<1>0. TypeOK /\ st \in State /\ task \in Tasks /\ task.gen \in Nat /\ e.gen \in Nat
  BY Zenon DEF LifecycleInv, TypeOK, Tasks, Events
<1>1. CASE UNCHANGED <<st, rm, restarter, task, wait, misfired>> /\ Become(a, Idle)
  BY <1>1, IdleQuiet, OnlyMoves, Zenon
<1>2. CASE ~shouldIgnoreExitEvent(e) /\ ExitHandled(a, e)
  <2>1. CASE \E code : st' = SetStopped(st, code)
    <3>1. ~st'.Running
      BY <1>0, <2>1, SetStoppedRun, Zenon
    <3> QED
      BY <3>1, FinalStops, Zenon
  <2>2. CASE ~rm.canceled /\ (\E code : st' = SetRestarting(st, code)) /\ Become(a, Idle)
    <3> SUFFICES ASSUME SignalMatches, ~misfired' PROVE StopInv'
      BY Zenon DEF StopInv
    <3>1. ~misfired /\ ~Alive /\ ~(e = NoEvent /\ task.status = "none")
      BY <1>2, Zenon DEF ExitHandled
    <3>2. task'.gen = task.gen
      BY <1>0, <1>2, HandledFacts, Zenon DEF TaskKept
    <3>3. st'.ErrorMsg = st.ErrorMsg
      <4>1. PICK code : st' = SetRestarting(st, code)
        BY <2>2, Zenon
      <4> QED
        BY <1>0, <4>1, SetRestartingRun
    <3>4. CASE st.Running
      <4>0. ~st.Restarting
        BY <1>2, Zenon DEF ExitHandled
      <4>1. ~NoRestart /\ ~Final
        BY <2>2, <3>1, <3>4, <4>0, Zenon DEF NoRestart, GetRunningTask, Final, TaskInv
      <4>2. Steady
        BY <3>1, <3>2, <3>3, <4>1, Zenon DEF Steady
      <4>3. act'[a] = Idle /\ \A b \in Actors \ {a} : act'[b] = act[b]
        BY <1>0, <2>2, Zenon DEF TypeOK, Become
      <4>4. \A b \in Actors : ~Asked(b) /\ ~Stopped(b)
        BY <3>1, <4>1, Zenon DEF StopInv
      <4>5. ASSUME NEW b \in Actors, act'[b] = act[b] PROVE ~Asked(b)' /\ ~Stopped(b)'
        BY <3>2, <3>3, <4>4, <4>5, Zenon DEF Asked, Stopped, OfThisRun
      <4>6. Quiet(act[a], act'[a])
        BY <4>3, IdleQuiet, Zenon
      <4> QED
        BY <4>2, <4>3, <4>5, <4>6, SteadyStops, Zenon
    <3>5. CASE ~st.Running
      <4>1. task.status = "none"
        BY <3>1, <3>5, Zenon DEF TaskInv
      <4>2. e # NoEvent /\ 0 < e.gen /\ e.gen <= task.gen
        BY <3>1, <4>1, Zenon
      <4>3. StateString(st) \notin {"removing", "exited", "dead", "restarting"}
        BY <1>2, <4>2, Zenon DEF shouldIgnoreExitEvent
      <4>4. ~st.RemovalInProgress /\ ~st.Dead /\ ~st.started
        BY <3>5, <4>3 DEF StateString
      <4>5. task.gen # 0
        BY <1>0, <4>2
      <4>6. st.ErrorMsg # ""
        BY <3>1, <4>4, <4>5, Zenon DEF TaskInv
      <4>7. ~st'.RemovalInProgress
        BY <1>0, <2>2, <4>4, Zenon DEF SetRestarting, State
      <4> QED
        BY <3>3, <4>6, <4>7, NewRunStops, Zenon
    <3> QED
      BY <3>4, <3>5, Zenon
  <2> QED
    BY <1>2, <2>1, <2>2, Zenon DEF ExitHandled, ShouldRestart
<1> QED
  BY <1>1, <1>2, Zenon DEF handleContainerExit

LEMMA EventStops ==
    ASSUME LifecycleInv, LifecycleInv', TaskInv, EventInv, StopInv, EventStep \/ ReapExit
    PROVE  StopInv'
<1>0. /\ TypeOK /\ "events" \in Actors /\ "reaper" \in Actors /\ NoEvent \in Events
      /\ st \in State /\ queue \in Seq(Events)
  BY Constants, QueueOps, Zenon DEF LifecycleInv, TypeOK, Actors, Goroutines, NoEvent
<1>1. CASE EventExit
  <2>1. Popped
    BY <1>1, Zenon DEF EventExit, NextEvent, Popped
  <2>2. Head(queue) = queue[1] /\ 1 \in 1..Len(queue) /\ Head(queue) \in Events
    BY <1>0, <2>1, PoppedQueue DEF Popped
  <2>3. 0 < Head(queue).gen /\ Head(queue).gen <= task.gen
    BY <2>2, Zenon DEF EventInv
  <2>4. handleContainerExit("events", Head(queue))
    BY <1>1, Zenon DEF EventExit
  <2> QED
    BY <1>0, <2>2, <2>3, <2>4, ExitStops, Zenon
<1>2. CASE ReapExit
  BY <1>0, <1>2, ExitStops, Zenon DEF ReapExit
<1>3. CASE EventStart /\ ~misfired
  <2>1. UNCHANGED <<st, rm, restarter, task, act, wait, misfired>>
    BY <1>3, Zenon DEF EventStart, TaskInv
  <2> QED
    BY <2>1, SteadyStep, NobodyMoves, Zenon DEF SameProcess
<1>4. CASE EventPaused \/ EventResumed
  <2>1. PICK flag : st' = SetPaused(st, flag)
    BY <1>4, Zenon DEF EventPaused, EventResumed
  <2>2. UNCHANGED <<rm, restarter, task, act, wait, misfired>>
    BY <1>4, Zenon DEF EventPaused, EventResumed
  <2>3. SameProcess(st, st') /\ st'.ErrorMsg = st.ErrorMsg
    BY <1>0, <2>1, SetPausedRun
  <2> QED
    BY <2>2, <2>3, SteadyStep, NobodyMoves, Zenon
<1>5. CASE EventDropped
  <2>1. UNCHANGED <<st, rm, restarter, task, act, wait, misfired>>
    BY <1>5, Zenon DEF EventDropped, ctrVars
  <2> QED
    BY <2>1, SteadyStep, NobodyMoves, Zenon DEF SameProcess
<1>6. CASE EventStart /\ misfired
  BY <1>6, Zenon DEF EventStart, StopInv
<1> QED
  BY <1>1, <1>2, <1>3, <1>4, <1>5, <1>6, Zenon DEF EventStep

LEMMA RestarterStops ==
    ASSUME LifecycleInv, LifecycleInv', StopInv, RestarterStep
    PROVE  StopInv'
<1>0. TypeOK /\ st \in State /\ rm \in RestartManagers
  BY Zenon DEF LifecycleInv, TypeOK
<1>1. CASE RestarterFailed
  <2>1. ~st'.Running
    BY <1>0, <1>1, SetStoppedRun, Zenon DEF RestarterFailed
  <2> QED
    BY <2>1, FinalStops, Zenon
<1>2. CASE RestarterStart /\ ~StartRefused
  <2>1. \A b \in Actors : act'[b].gen <= task.gen
    BY <1>2, Zenon DEF RestarterStart, LifecycleInv, GoneInv
  <2> QED
    BY <1>2, <2>1, StartStops, Zenon DEF RestarterStart
<1>3. CASE RestartTimer \/ RestartCanceled \/ (RestarterStart /\ StartRefused)
  <2>1. /\ UNCHANGED <<st, task, act, wait, misfired>> /\ restarter.pc # "none"
        /\ rm' = rm \/ rm' = [rm EXCEPT !.active = FALSE]
    BY <1>3, Zenon DEF RestartTimer, RestartCanceled, RestarterStart, envVars
  <2>2. rm'.canceled = rm.canceled
    BY <1>0, <2>1, Zenon DEF RestartManagers
  <2>3. ~misfired => ~Final
    BY <2>1, Zenon DEF LifecycleInv, RestarterInv, Final
  <2>4. Steady
    BY <2>1, <2>2, <2>3, Zenon DEF Steady, NoRestart, GetRunningTask
  <2> QED
    BY <2>1, <2>4, NobodyMoves, Zenon
<1> QED
  BY <1>1, <1>2, <1>3, Zenon DEF RestarterStep

LEMMA StopInvKept ==
    ASSUME LifecycleInv, LifecycleInv', TaskInv, EventInv, StopInv, [Next]_vars
    PROVE  StopInv'
<1>1. CASE UNCHANGED vars
  BY <1>1, SteadyStep, NobodyMoves, Zenon DEF vars, SameProcess
<1>2. ASSUME NEW code, NEW copies \in 0..2, ProcessExit(code, copies)
      PROVE  StopInv'
  <2>1. UNCHANGED <<st, rm, restarter, act, wait, misfired>>
    BY <1>2, Zenon DEF ProcessExit, ctrVars
  <2>2. task'.gen = task.gen
    BY <1>2, Zenon DEF ProcessExit, LifecycleInv, TypeOK, Tasks
  <2> QED
    BY <2>1, <2>2, SteadyStep, NobodyMoves, Zenon DEF SameProcess
<1> QED
  BY <1>1, <1>2, ClientStops, ActorStops, EventStops, RestarterStops, Zenon DEF Next

-----------------------------------------------------------------------------
(* The theorems about the run of a container *)

LEMMA InitRun == Init => RunInv
<1> SUFFICES ASSUME Init PROVE RunInv
  BY Zenon
<1>1. ~st.Running /\ ~st.Restarting /\ queue = <<>> /\ restarter.pc = "none"
  BY Zenon DEF Init, NewState
<1>2. task.status = "none" /\ task.gen = 0
  BY Zenon DEF Init
<1>3. 1..Len(queue) = {}
  BY <1>1
<1>4. EventInv
  BY <1>2, <1>3, Zenon DEF EventInv
<1>5. TaskInv
  BY <1>1, <1>2, Zenon DEF TaskInv
<1>6. ExitNotLost /\ StopInv
  BY <1>1, Zenon DEF ExitNotLost, StopInv, NoRestart, GetRunningTask, Final
<1> QED
  BY <1>4, <1>5, <1>6, Zenon DEF RunInv

LEMMA StepRun == LifecycleInv /\ LifecycleInv' /\ RunInv /\ [Next]_vars => RunInv'
<1> SUFFICES ASSUME LifecycleInv, LifecycleInv', RunInv, [Next]_vars PROVE RunInv'
  BY Zenon
<1>0. TypeOK /\ EventInv /\ TaskInv /\ ExitNotLost /\ StopInv
  BY Zenon DEF LifecycleInv, RunInv
<1>1. RunStep
  BY <1>0, StepRuns, Zenon
<1>2. EventInv' /\ TaskInv'
  BY <1>0, <1>1, EventsKept, TaskKeptInv, Zenon
<1>3. ExitNotLost'
  BY <1>0, <1>1, <1>2, ExitNotLostKept, Zenon
<1>4. StopInv'
  BY <1>0, StopInvKept, Zenon
<1> QED
  BY <1>2, <1>3, <1>4, Zenon DEF RunInv

\* The queue of events, the task, the state and the restart manager agree about the
\* current run, whatever ProcessEvent, handleContainerExit and the API calls do.
THEOREM RunInvariant == Spec => []RunInv
<1>1. Init => RunInv
  BY InitRun, Zenon
<1>2. LifecycleInv /\ LifecycleInv' /\ RunInv /\ [Next]_vars => RunInv'
  BY StepRun, Zenon
<1> QED
  BY <1>1, <1>2, InvariantHolds, PTL DEF Spec

\* shouldIgnoreExitEventWithLock ignores no exit that matters: the exit event of a
\* process that is gone stays in the queue as long as its container is Running.
THEOREM NoExitIsLost == Spec => []ExitNotLost
<1>1. RunInv => ExitNotLost
  BY Zenon DEF RunInv
<1> QED
  BY <1>1, RunInvariant, PTL

\* A stop, a kill or a shutdown that reports success leaves no restart pending:
\* ExitOnNext cancels the restart manager before handleContainerExit asks it.
THEOREM NothingRestartsAfterAStop == Spec => []StopIsFinal
<1>1. LifecycleInv /\ RunInv => StopIsFinal
  <2> SUFFICES ASSUME LifecycleInv, RunInv, NEW c \in Clients, SignalMatches, ~misfired,
                      st.ErrorMsg = "", act[c].ret = "stopped", act[c].gen = task.gen
               PROVE  restarter.pc = "none"
    BY Zenon DEF StopIsFinal
  <2>1. Stopped(c) /\ c \in Actors
    BY Zenon DEF Stopped, OfThisRun, Actors
  <2>2. Final
    BY <2>1, Zenon DEF RunInv, StopInv
  <2> QED
    BY <2>2, Zenon DEF Final, LifecycleInv, RestarterInv
<1> QED
  BY <1>1, InvariantHolds, RunInvariant, PTL

\* The exit code a container reports is the one of its last process, up to the exit
\* event of an earlier run that handleContainerExit takes for one of a run that has
\* ended while it was paused.
THEOREM ExitCodesAreReported == Spec => ExitCodeReported
<1>1. LifecycleInv /\ RunInv /\ [Next]_vars
        => [CodeAgrees /\ ~CodeAgrees' /\ ~misfired'
             => /\ queue # <<>> /\ queue' = Tail(queue) /\ st.Paused
                /\ Head(queue).type = "exit" /\ Head(queue).gen < task.gen]_vars
  <2> SUFFICES ASSUME LifecycleInv, RunInv, [Next]_vars, CodeAgrees, ~CodeAgrees', ~misfired'
               PROVE  /\ queue # <<>> /\ queue' = Tail(queue) /\ st.Paused
                      /\ Head(queue).type = "exit" /\ Head(queue).gen < task.gen
    BY Zenon
  <2>1. TaskInv /\ EventInv
    BY Zenon DEF RunInv
  <2>2. RunStep
    BY <2>1, StepRuns, Zenon
  <2> QED
    BY <2>1, <2>2, CodeStep, Zenon DEF Popped
<1> QED
  BY <1>1, InvariantHolds, RunInvariant, PTL DEF Spec, ExitCodeReported

\* The Paused flag stays what containerd says, up to an event of an earlier run that
\* ProcessEvent applies to the current one.
THEOREM PausedFlagAgrees == Spec => PauseAgrees
<1>1. LifecycleInv /\ RunInv /\ [Next]_vars
        => [FlagAgrees /\ ~FlagAgrees' /\ ~misfired'
             => /\ queue # <<>> /\ queue' = Tail(queue)
                /\ Head(queue).type \in {"paused", "resumed"} /\ Head(queue).gen < task.gen]_vars
  <2> SUFFICES ASSUME LifecycleInv, RunInv, [Next]_vars, FlagAgrees, ~FlagAgrees', ~misfired'
               PROVE  /\ queue # <<>> /\ queue' = Tail(queue)
                      /\ Head(queue).type \in {"paused", "resumed"} /\ Head(queue).gen < task.gen
    BY Zenon
  <2>1. TaskInv /\ EventInv
    BY Zenon DEF RunInv
  <2>2. RunStep
    BY <2>1, StepRuns, Zenon
  <2> QED
    BY <2>1, <2>2, FlagStep, Zenon DEF Popped
<1> QED
  BY <1>1, InvariantHolds, RunInvariant, PTL DEF Spec, PauseAgrees

-----------------------------------------------------------------------------
(* The state goes through the methods of State only *)

\* The methods StateSetters calls are those of ContainerState.
LEMMA SameMethods ==
    ASSUME NEW s, NEW x
    PROVE  /\ Setters!SetRunning(s, x) = SetRunning(s, x)
           /\ Setters!SetRunningExternal(s, x) = SetRunningExternal(s, x)
           /\ Setters!SetStopped(s, x) = SetStopped(s, x)
           /\ Setters!SetRestarting(s, x) = SetRestarting(s, x)
           /\ Setters!SetPaused(s, x) = SetPaused(s, x)
           /\ Setters!SetStartError(s, x) = SetStartError(s, x)
           /\ Setters!SetRemovalInProgress(s) = SetRemovalInProgress(s)
           /\ Setters!ResetRemovalInProgress(s) = ResetRemovalInProgress(s)
           /\ Setters!SetDead(s) = SetDead(s)
           /\ Setters!SetRemovalError(s) = SetRemovalError(s)
           /\ Setters!SetRemoved(s) = SetRemoved(s)
  BY Zenon DEF Setters!SetRunning, SetRunning, Setters!SetRunningExternal, SetRunningExternal,
               Setters!SetStopped, SetStopped, Setters!SetRestarting, SetRestarting,
               Setters!SetPaused, SetPaused, Setters!SetStartError, SetStartError,
               Setters!exitUnknown, exitUnknown, Setters!SetRemovalInProgress, SetRemovalInProgress,
               Setters!ResetRemovalInProgress, ResetRemovalInProgress, Setters!SetDead, SetDead,
               Setters!SetRemovalError, SetRemovalError, Setters!SetRemoved, SetRemoved

\* The runs are numbered up to the bound.
RunsBounded == task.gen <= MaxRuns

LEMMA RunsStayBounded ==
    ASSUME LifecycleInv, TaskInv, RunsBounded, [Next]_vars
    PROVE  RunsBounded'
<1>0. task \in Tasks /\ task.gen \in Nat /\ MaxRuns \in Nat
  BY ConstantsAssumption, Zenon DEF LifecycleInv, TypeOK, Tasks
<1>1. RunStep
  BY StepRuns, Zenon
<1>2. CASE task'.gen = task.gen
  BY <1>2, Zenon DEF RunsBounded
<1>3. CASE \E status : task' = [task EXCEPT !.status = status]
  BY <1>0, <1>2, <1>3, Zenon DEF Tasks
<1>4. CASE task' = task \/ task' = [task EXCEPT !.status = "none"]
  BY <1>2, <1>3, <1>4, Zenon
<1>5. CASE task.gen < MaxRuns /\ task'.gen = task.gen + 1
  BY <1>0, <1>5 DEF RunsBounded
<1>6. CASE Started \/ StartFails
  <2>1. CASE StartTask
    BY <1>5, <2>1, Zenon DEF StartTask
  <2>2. CASE FailEarly
    BY <1>4, <2>2, Zenon DEF FailEarly
  <2>3. ASSUME NEW err \in Errors, CreateTaskAndFail(err)
        PROVE  RunsBounded'
    BY <1>5, <2>3, Zenon DEF CreateTaskAndFail
  <2> QED
    BY <1>6, <2>1, <2>2, <2>3, Zenon DEF Started, StartFails
<1>7. CASE \E a \in Actors, e \in Events : Handled(a, e)
  BY <1>4, <1>7, Zenon DEF Handled, ExitHandled
<1>8. CASE Exited
  <2>1. PICK code \in AllCodes, copies \in 0..2 : ProcessExit(code, copies)
    BY <1>8, Zenon DEF Exited
  <2>2. task'.gen = task.gen
    BY <1>0, <2>1, Zenon DEF ProcessExit, Tasks
  <2> QED
    BY <1>2, <2>2, Zenon
<1>9. CASE RestarterFailed
  BY <1>4, <1>9, Zenon DEF RestarterFailed, envVars
<1> QED
  BY <1>1, <1>2, <1>3, <1>4, <1>6, <1>7, <1>8, <1>9, Zenon
     DEF RunStep, Still, Signalled, PausedBy, Ignored, FlagSet

\* A step of an actor, of the events or of a goroutine is one call of a method, which
\* its caller may make, or leaves the state alone.
LEMMA StepSets ==
    ASSUME LifecycleInv, EventInv, RunsBounded, [Next]_vars
    PROVE  [Setters!Next]_st
<1>0. /\ TypeOK /\ st \in State /\ task.gen \in Nat /\ restarter.code \in AllCodes
      /\ MaxRuns \in Nat
  BY ConstantsAssumption, Zenon DEF LifecycleInv, TypeOK, Tasks, Restarters
<1>a. CASE UNCHANGED st
  BY <1>a, Zenon
<1>b. CASE \E paused \in BOOLEAN : st' = SetPaused(st, paused)
  BY <1>b, SameMethods, Zenon DEF Setters!Next, Setters!Pauses
<1>c. ASSUME ~StartRefused, StartTask \/ FailEarly \/ \E err \in Errors : CreateTaskAndFail(err)
      PROVE  Setters!Next
  <2>1. Setters!Startable
    BY <1>c, Zenon DEF StartRefused, Setters!Startable
  <2>2. CASE StartTask
    <3>1. task.gen + 1 \in 1..MaxRuns
      BY <1>0, <2>2 DEF StartTask
    <3> QED
      BY <2>1, <2>2, <3>1, SameMethods, Zenon DEF StartTask, Setters!Next, Setters!Starts
  <2>3. CASE FailEarly \/ \E err \in Errors : CreateTaskAndFail(err)
    <3>1. \E msg \in {"start", "setup networking"} : st' = SetStartError(st, msg)
      BY <2>3, Zenon DEF FailEarly, CreateTaskAndFail
    <3> QED
      BY <2>1, <3>1, SameMethods, Zenon DEF Setters!Next, Setters!StartFails
  <2> QED
    BY <1>c, <2>2, <2>3, Zenon
<1>d. ASSUME NEW a, NEW e \in Events, handleContainerExit(a, e)
      PROVE  [Setters!Next]_st
  <2>1. CASE ExitHandled(a, e)
    <3> DEFINE exitCode == IF e # NoEvent THEN e.code
                           ELSE IF task.status = "stopped" THEN task.code ELSE 0
    <3>1. exitCode \in AllCodes
      BY <1>0, Constants, Zenon DEF Events, Tasks, TypeOK
    <3> HIDE DEF exitCode
    <3>2. st' \in {SetRestarting(st, exitCode), SetStopped(st, exitCode)}
      BY <2>1, Zenon DEF ExitHandled, exitCode
    <3> QED
      BY <3>1, <3>2, SameMethods, Zenon DEF Setters!Next, Setters!Stops, Setters!Restarts
  <2> QED
    BY <1>d, <2>1, Zenon DEF handleContainerExit
<1>1. ASSUME NEW c \in Clients, ClientBegins(c)
      PROVE  [Setters!Next]_st
  <2>1. CASE ContainerPause(c) \/ ContainerUnpause(c)
    BY <1>b, <2>1, Zenon DEF ContainerPause, ContainerUnpause
  <2>2. CASE ~(ContainerPause(c) \/ ContainerUnpause(c))
    BY <1>a, <1>1, <2>2, Zenon
       DEF ClientBegins, ContainerStart, ContainerStop, ContainerKill, ContainerRestart,
       ContainerRm, Shutdown, Begin, BeginStopping, ctrVars
  <2> QED
    BY <2>1, <2>2, Zenon
<1>2. ASSUME NEW a \in Actors, ActorStep(a)
      PROVE  [Setters!Next]_st
  <2>1. CASE containerStart(a)
    BY <1>a, <1>c, <2>1, Zenon DEF containerStart, ctrVars
  <2>2. CASE StopSignal(a) \/ KillSignal(a)
    BY <1>a, <2>2, Zenon DEF StopSignal, KillSignal, killWithSignal, ctrVars
  <2>3. CASE \/ Wait(a) \/ WaitReturn(a) \/ StopEnter(a) \/ KillEnter(a) \/ RmCheck(a)
             \/ RmUnregister(a) \/ RestartMark(a) \/ ClearRestarted(a) \/ killProcessDirectly(a)
    BY <1>a, <2>3, Zenon
       DEF Wait, WaitReturn, StopEnter, KillEnter, RmCheck, RmUnregister, RestartMark,
       ClearRestarted, killProcessDirectly, ctrVars
  <2>4. CASE RmEnter(a)
    BY <1>a, <2>4, SameMethods, Zenon DEF RmEnter, Setters!Next, Setters!RemovalBegins
  <2>5. CASE RmDead(a) \/ RmReset(a)
    <3>1. st.RemovalInProgress
      BY <2>5, Zenon DEF RmDead, RmReset, LifecycleInv, RemovalInv, RmPcs
    <3>2. st' \in {SetDead(st), ResetRemovalInProgress(st)}
      BY <2>5, Zenon DEF RmDead, RmReset
    <3> QED
      BY <3>1, <3>2, SameMethods, Zenon DEF Setters!Next, Setters!Dies, Setters!RemovalEnds
  <2>6. CASE RmLayer(a) \/ RmFs(a) \/ RmRemoved(a)
    <3>1. st.RemovalInProgress /\ st.Dead
      BY <2>6, Zenon DEF RmLayer, RmFs, RmRemoved, LifecycleInv, RemovalInv, RmPcs
    <3>2. st' \in {st, SetRemovalError(st), SetRemoved(st)}
      BY <2>6, Zenon DEF RmLayer, RmFs, RmRemoved, RemovalError
    <3> QED
      BY <1>a, <3>1, <3>2, SameMethods, Zenon DEF Setters!Next, Setters!RemovalFails, Setters!Removed
  <2> QED
    BY <1>2, <2>1, <2>2, <2>3, <2>4, <2>5, <2>6, Zenon DEF ActorStep
<1>3. CASE EventStep
  <2>1. CASE EventExit
    BY <1>0, <1>d, <2>1, NextEventTypes, Zenon DEF EventExit
  <2>2. CASE EventStart
    <3>1. CASE ~st.Running /\ task.status # "none" /\ st' = SetRunningExternal(st, task.gen)
      <4>1. task.gen \in 1..MaxRuns
        BY <1>0, <3>1 DEF EventInv, RunsBounded
      <4> QED
        BY <3>1, <4>1, SameMethods, Zenon DEF Setters!Next, Setters!StartsExternally
    <3> QED
      BY <1>a, <2>2, <3>1, Zenon DEF EventStart
  <2>3. CASE EventPaused \/ EventResumed
    BY <1>b, <2>3, Zenon DEF EventPaused, EventResumed
  <2>4. CASE EventDropped
    BY <1>a, <2>4, Zenon DEF EventDropped, ctrVars
  <2> QED
    BY <1>3, <2>1, <2>2, <2>3, <2>4, Zenon DEF EventStep
<1>4. CASE ReapExit
  <2>1. NoEvent \in Events
    BY <1>0, Constants, QueueOps, Zenon DEF NoEvent, TypeOK
  <2> QED
    BY <1>4, <1>d, <2>1, Zenon DEF ReapExit
<1>5. CASE RestarterStep
  <2>1. CASE RestarterFailed
    BY <1>0, <2>1, SameMethods, Zenon DEF RestarterFailed, Setters!Next, Setters!Stops
  <2>2. CASE RestarterStart
    BY <1>a, <1>c, <2>2, Zenon DEF RestarterStart
  <2> QED
    BY <1>5, <1>a, <2>1, <2>2, Zenon DEF RestarterStep, RestartTimer, RestartCanceled
<1>6. ASSUME NEW code \in AllCodes, NEW copies \in 0..2, ProcessExit(code, copies)
      PROVE  [Setters!Next]_st
  BY <1>6, <1>a, Zenon DEF ProcessExit, ctrVars
<1>7. CASE UNCHANGED vars
  BY <1>7, <1>a, Zenon DEF vars
<1> QED
  BY <1>1, <1>2, <1>3, <1>4, <1>5, <1>6, <1>7, Zenon DEF Next

\* The life of a container implements StateSetters: its State goes through the methods
\* of State only, one a step, each called in a state its callers may call it in.  So
\* what StateWatch shows of the watchers holds for the daemon's own calls.
THEOREM OnlyMethodsOfState == Spec => ImplementsSetters
<1>1. Init => Setters!Init
  BY Zenon DEF Init, Setters!Init, NewState, Setters!NewState
<1>2. Init => RunsBounded
  BY ConstantsAssumption DEF Init, RunsBounded
<1>3. RunInv => TaskInv /\ EventInv
  BY Zenon DEF RunInv
<1>4. LifecycleInv /\ RunInv /\ RunsBounded /\ [Next]_vars => RunsBounded'
  BY <1>3, RunsStayBounded, Zenon
<1>5. LifecycleInv /\ RunInv /\ RunsBounded /\ [Next]_vars => [Setters!Next]_st
  BY <1>3, StepSets, Zenon
<1> QED
  BY <1>1, <1>2, <1>4, <1>5, InvariantHolds, RunInvariant, PTL DEF Spec, ImplementsSetters, Setters!Spec
=============================================================================
