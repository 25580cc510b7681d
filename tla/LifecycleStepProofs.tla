------------------------ MODULE LifecycleStepProofs -------------------------
(***************************************************************************)
(* What the operators of ContainerLifecycle return and preserve, and one   *)
(* lemma per step: LifecycleInv is kept by the API calls that start, stop, *)
(* kill, restart and remove a container, by the events of containerd and   *)
(* by the restart goroutine (StepInv).                                     *)
(***************************************************************************)
EXTENDS ContainerLifecycle, TLAPS

-----------------------------------------------------------------------------
(* The methods of State *)

\* what the properties look at: the process, and the removal
SameProcess(s, t) == /\ t.Running = s.Running /\ t.Restarting = s.Restarting
                     /\ t.Pid = s.Pid /\ t.task = s.task
SameRemoval(s, t) == t.Dead = s.Dead /\ t.RemovalInProgress = s.RemovalInProgress

\* The values the methods store are of the type of their field.
LEMMA Constants ==
    /\ 0 \in AllCodes /\ exitUnknown \in AllCodes /\ Killed \in AllCodes
    /\ "" \in ErrorMsgs /\ "removal" \in ErrorMsgs /\ "start" \in ErrorMsgs
    /\ "setup networking" \in ErrorMsgs
  BY Zenon DEF AllCodes, ExitCodes, exitUnknown, Killed, ErrorMsgs

LEMMA NewStateType == NewState \in State
  BY Constants, Zenon DEF NewState, State

\* The methods that record a process.
LEMMA SetRunningFacts ==
    ASSUME NEW s \in State, NEW pid \in Nat
    PROVE  /\ LET t == SetRunning(s, pid) IN
                t \in State /\ t.Running /\ ~t.Restarting /\ t.Pid = pid /\ SameRemoval(s, t)
           /\ LET t == SetRunningExternal(s, pid) IN
                t \in State /\ t.Running /\ ~t.Restarting /\ t.Pid = pid /\ SameRemoval(s, t)
<1>1. LET t == SetRunning(s, pid) IN
        t \in State /\ t.Running /\ ~t.Restarting /\ t.Pid = pid /\ SameRemoval(s, t)
  BY Constants, Zenon DEF SetRunning, State, SameRemoval
<1>2. LET t == SetRunningExternal(s, pid) IN
        t \in State /\ t.Running /\ ~t.Restarting /\ t.Pid = pid /\ SameRemoval(s, t)
  BY <1>1, Zenon DEF SetRunningExternal, State, SameRemoval
<1> QED
  BY <1>1, <1>2, Zenon

\* The methods that record the end of one.
LEMMA SetStoppedFacts ==
    ASSUME NEW s \in State, NEW code \in AllCodes
    PROVE  /\ LET t == SetStopped(s, code) IN
                t \in State /\ ~t.Running /\ ~t.Restarting /\ SameRemoval(s, t)
           /\ LET t == SetRestarting(s, code) IN
                t \in State /\ t.Running /\ t.Restarting /\ SameRemoval(s, t)
  BY Zenon DEF SetStopped, SetRestarting, State, SameRemoval

LEMMA SetPausedFacts ==
    ASSUME NEW s \in State
    PROVE  /\ LET t == SetPaused(s, TRUE) IN t \in State /\ SameProcess(s, t) /\ SameRemoval(s, t)
           /\ LET t == SetPaused(s, FALSE) IN t \in State /\ SameProcess(s, t) /\ SameRemoval(s, t)
  BY Zenon DEF SetPaused, State, SameProcess, SameRemoval

LEMMA SetStartErrorFacts ==
    ASSUME NEW s \in State, NEW msg \in ErrorMsgs
    PROVE  LET t == SetStartError(s, msg) IN t \in State /\ SameProcess(s, t) /\ SameRemoval(s, t)
  BY Constants, Zenon DEF SetStartError, State, SameProcess, SameRemoval

\* The methods of a removal.
LEMMA RemovalFacts ==
    ASSUME NEW s \in State
    PROVE  /\ LET t == SetDead(s) IN
                t \in State /\ SameProcess(s, t) /\ t.Dead /\ t.RemovalInProgress = s.RemovalInProgress
           /\ LET t == SetRemovalInProgress(s) IN
                t \in State /\ SameProcess(s, t) /\ t.Dead = s.Dead /\ t.RemovalInProgress
           /\ LET t == ResetRemovalInProgress(s) IN
                t \in State /\ SameProcess(s, t) /\ t.Dead = s.Dead /\ ~t.RemovalInProgress
           /\ LET t == SetRemovalError(s) IN t \in State /\ SameProcess(s, t) /\ SameRemoval(s, t)
           /\ LET t == SetRemoved(s) IN t \in State /\ SameProcess(s, t) /\ SameRemoval(s, t)
  BY Constants, Zenon DEF SetDead, SetRemovalInProgress, ResetRemovalInProgress,
        SetRemovalError, SetRemoved, State, SameProcess, SameRemoval

-----------------------------------------------------------------------------
(* The states of an actor *)

\* Moving an actor changes its pc only.
LEMMA AtFields ==
    ASSUME NEW r \in ActorStates, NEW pc \in Pcs
    PROVE  LET x == At(r, pc) IN
             x \in ActorStates /\ x.pc = pc /\ x.op = r.op /\ x.inStop = r.inStop
             /\ x.inRm = r.inRm /\ x.gen = r.gen /\ x.ret = r.ret
  BY Zenon DEF At, ActorStates

\* The fields of a call that begins, and of one that has returned.
LEMMA CallFields ==
    ASSUME NEW op \in AllOps \cup {"none", "reap", "autorm"}, NEW pc \in Pcs,
           NEW inStop \in BOOLEAN, NEW gen \in Nat
    PROVE  LET x == Call(op, pc, inStop, gen) IN
             x \in ActorStates /\ x.op = op /\ x.pc = pc /\ x.inRm = FALSE
             /\ x.gen = gen /\ x.ret = "none"
  BY Zenon DEF Call, ActorStates

LEMMA IdleFields ==
    Idle \in ActorStates /\ Idle.op = "none" /\ Idle.pc = "idle" /\ Idle.inRm = FALSE
    /\ Idle.gen = 0 /\ Idle.ret = "none"
<1>1. "idle" \in Pcs /\ 0 \in Nat
  BY Zenon DEF Pcs
<1> QED
  BY <1>1, Zenon DEF Idle, Call, ActorStates

LEMMA ReturnedFields ==
    ASSUME NEW r \in ActorStates, NEW ret \in {"none", "stopped", "error"}
    PROVE  LET x == Returned(r, ret) IN
             x \in ActorStates /\ x.op = "none" /\ x.pc = "idle" /\ x.inRm = FALSE
             /\ x.gen = r.gen /\ x.ret = ret
  BY IdleFields, Zenon DEF Returned, ActorStates

-----------------------------------------------------------------------------
(* Where calls return to *)

\* the shape of an actor that RemovalInv asks for
Fits(r) ==
    /\ r.inRm => r.pc \in InRmPcs
    /\ r.pc \in RmPcs => r.inRm
    /\ r.op = "signal" => r.pc = "killSignal" /\ ~r.inRm

\* x may follow r in a step that is not one of the removal's own
Follows(r, x) ==
    /\ x \in ActorStates
    /\ Fits(x)
    /\ x.inRm = r.inRm
    /\ x.pc \notin {"rmLayer", "rmFs", "rmUnregister", "rmRemoved"}
    /\ x.gen <= r.gen
    /\ x.ret = "stopped" => x.gen = r.gen

\* x claims that the process r was about is gone
Claims(r, x) == x.pc = "rmDead" \/ (x.ret = "stopped" /\ r.ret # "stopped")

\* A call that has nothing more to do becomes idle.
LEMMA IdleFollows ==
    ASSUME NEW r \in ActorStates, ~r.inRm
    PROVE  Follows(r, Idle) /\ ~Claims(r, Idle)
  BY IdleFields DEF Follows, Claims, Fits, RmPcs, ActorStates

\* Moving on inside a kill or a stop, or inside a removal.
LEMMA AtFollows ==
    ASSUME NEW r \in ActorStates, Fits(r), r.op # "signal", NEW pc \in Pcs,
           pc \notin {"rmLayer", "rmFs", "rmUnregister", "rmRemoved"},
           pc \in RmPcs => r.inRm, r.inRm => pc \in InRmPcs,
           NEW b \in BOOLEAN
    PROVE  /\ Follows(r, At(r, pc))
           /\ Follows(r, [At(r, pc) EXCEPT !.inStop = b])
           /\ pc # "rmDead" => ~Claims(r, At(r, pc)) /\ ~Claims(r, [At(r, pc) EXCEPT !.inStop = b])
<1>1. r.gen \in Nat
  BY Zenon DEF ActorStates
<1>2. LET x == At(r, pc) IN
        x \in ActorStates /\ x.pc = pc /\ x.op = r.op /\ x.inRm = r.inRm /\ x.gen = r.gen
        /\ x.ret = r.ret
  BY AtFields, Zenon
<1>3. LET x == [At(r, pc) EXCEPT !.inStop = b] IN
        x \in ActorStates /\ x.pc = pc /\ x.op = r.op /\ x.inRm = r.inRm /\ x.gen = r.gen
        /\ x.ret = r.ret
  BY <1>2, Zenon DEF ActorStates
<1> QED
  BY <1>1, <1>2, <1>3 DEF Follows, Claims, Fits

\* A call returns to its client.
LEMMA ReturnedFollows ==
    ASSUME NEW r \in ActorStates, ~r.inRm, NEW ret \in {"none", "stopped", "error"}
    PROVE  /\ Follows(r, Returned(r, ret))
           /\ ret # "stopped" => ~Claims(r, Returned(r, ret))
<1>1. r.gen \in Nat /\ r.inRm \in BOOLEAN
  BY Zenon DEF ActorStates
<1> DEFINE x == Returned(r, ret)
<1>2. x \in ActorStates /\ x.op = "none" /\ x.pc = "idle" /\ x.inRm = FALSE
      /\ x.gen = r.gen /\ x.ret = ret
  BY ReturnedFields, Zenon
<1> HIDE DEF x
<1>3. x.inRm = r.inRm
  BY <1>1, <1>2, Zenon
<1>4. x.gen <= r.gen
  BY <1>1, <1>2
<1>5. Follows(r, x) /\ (ret # "stopped" => ~Claims(r, x))
  BY <1>2, <1>3, <1>4, Zenon DEF Follows, Claims, Fits, RmPcs
<1> QED
  BY <1>5, Zenon DEF x

\* containerStop returns to its caller: only a stop that succeeded claims anything.
LEMMA AfterStopFollows ==
    ASSUME NEW r \in ActorStates, Fits(r), r.op # "signal", NEW ok \in BOOLEAN
    PROVE  Follows(r, AfterStop(r, ok)) /\ (~ok => ~Claims(r, AfterStop(r, ok)))
<1>1. CASE r.inRm
  <2>1. /\ "rmDead" \in Pcs /\ "rmDead" \in InRmPcs
        /\ "rmReset" \in Pcs /\ "rmReset" \in InRmPcs
    BY Zenon DEF Pcs, RmPcs, InRmPcs
  <2>2. Follows(r, [At(r, "rmDead") EXCEPT !.inStop = FALSE])
    BY <1>1, <2>1, AtFollows, Zenon
  <2>3. /\ Follows(r, [At(r, "rmReset") EXCEPT !.inStop = FALSE])
        /\ ~Claims(r, [At(r, "rmReset") EXCEPT !.inStop = FALSE])
    BY <1>1, <2>1, AtFollows, Zenon
  <2> QED
    BY <1>1, <2>2, <2>3, Zenon DEF AfterStop
<1>2. CASE ~r.inRm /\ r.op = "restart"
  <2>1. /\ "startLock" \in Pcs /\ "startLock" \notin RmPcs
        /\ "clearRestarted" \in Pcs /\ "clearRestarted" \notin RmPcs
    BY Zenon DEF Pcs, RmPcs
  <2>2. Follows(r, [At(r, "startLock") EXCEPT !.inStop = FALSE])
    BY <1>2, <2>1, AtFollows, Zenon
  <2>3. /\ Follows(r, [At(r, "clearRestarted") EXCEPT !.inStop = FALSE])
        /\ ~Claims(r, [At(r, "clearRestarted") EXCEPT !.inStop = FALSE])
    BY <1>2, <2>1, AtFollows, Zenon
  <2> QED
    BY <1>2, <2>2, <2>3, Zenon DEF AfterStop
<1>3. CASE ~r.inRm /\ r.op = "shutdown" /\ ok
  <2>1. "shutdownWait" \in Pcs /\ "shutdownWait" \notin RmPcs
    BY Zenon DEF Pcs, WaitPcs, RmPcs
  <2>2. Follows(r, [At(r, "shutdownWait") EXCEPT !.inStop = FALSE])
    BY <1>3, <2>1, AtFollows, Zenon
  <2> QED
    BY <1>3, <2>2, Zenon DEF AfterStop
<1>4. CASE ~r.inRm /\ r.op # "restart" /\ ~(r.op = "shutdown" /\ ok)
  <2>1. /\ Follows(r, Returned(r, "stopped")) /\ Follows(r, Returned(r, "error"))
        /\ ~Claims(r, Returned(r, "error"))
    BY <1>4, ReturnedFollows, Zenon
  <2> QED
    BY <1>4, <2>1, Zenon DEF AfterStop
<1> QED
  BY <1>1, <1>2, <1>3, <1>4, Zenon

\* kill returns to its caller: only a kill that returned nil claims anything.
LEMMA AfterKillFollows ==
    ASSUME NEW r \in ActorStates, Fits(r), r.op # "signal", NEW res
    PROVE  Follows(r, AfterKill(r, res)) /\ (res # "nil" => ~Claims(r, AfterKill(r, res)))
<1>0. /\ "lastWait" \in Pcs /\ "lastWait" \in InRmPcs /\ "lastWait" \notin RmPcs
      /\ "stopEnter" \in Pcs /\ "stopEnter" \in InRmPcs
      /\ "rmReset" \in Pcs /\ "rmReset" \in InRmPcs
  BY Zenon DEF Pcs, WaitPcs, InRmPcs, RmPcs
<1>1. CASE r.inStop /\ res = "nil"
  BY <1>1, AfterStopFollows, Zenon DEF AfterKill
<1>2. CASE r.inStop /\ res # "nil"
  BY <1>0, <1>2, AtFollows, Zenon DEF AfterKill
<1>3. CASE ~r.inStop /\ r.inRm /\ res = "error"
  BY <1>0, <1>3, AtFollows, Zenon DEF AfterKill
<1>4. CASE ~r.inStop /\ r.inRm /\ res # "error"
  BY <1>0, <1>4, AtFollows, Zenon DEF AfterKill
<1>5. CASE ~r.inStop /\ ~r.inRm
  BY <1>5, ReturnedFollows, IdleFollows, Zenon DEF AfterKill
<1> QED
  BY <1>1, <1>2, <1>3, <1>4, <1>5, Zenon

\* State.Wait returns to its caller: a wait that timed out claims nothing.
LEMMA AfterWaitFollows ==
    ASSUME NEW r \in ActorStates, Fits(r), r.op # "signal", r.pc \in WaitPcs, NEW ok \in BOOLEAN
    PROVE  /\ Follows(r, AfterWait(r, ok))
           /\ ~ok /\ HasTimeout(r) => ~Claims(r, AfterWait(r, ok))
<1>0. /\ "reapExit" \in Pcs /\ "reapExit" \notin RmPcs
      /\ "killDirect" \in Pcs /\ "killDirect" \in InRmPcs /\ "killDirect" \notin RmPcs
      /\ "killEnter" \in Pcs /\ "killEnter" \in InRmPcs /\ "killEnter" \notin RmPcs
  BY Zenon DEF Pcs, InRmPcs, RmPcs
<1>1. CASE r.pc = "reapWait"
  <2>1. ~r.inRm
    BY <1>1, Zenon DEF Fits, InRmPcs, RmPcs
  <2> QED
    BY <1>0, <1>1, <2>1, IdleFollows, AtFollows, Zenon DEF AfterWait
<1>2. CASE r.pc = "killWait"
  BY <1>0, <1>2, AfterKillFollows, AtFollows, Zenon DEF AfterWait
<1>3. CASE r.pc = "finalWait"
  BY <1>3, AfterKillFollows, Zenon DEF AfterWait
<1>4. CASE r.pc = "lastWait"
  BY <1>4, AfterStopFollows, Zenon DEF AfterWait
<1>5. CASE r.pc = "shutdownWait"
  <2>1. ~r.inRm /\ ~HasTimeout(r)
    BY <1>5, Zenon DEF Fits, InRmPcs, RmPcs, HasTimeout
  <2> QED
    BY <1>5, <2>1, ReturnedFollows, Zenon DEF AfterWait
<1>6. CASE r.pc \in {"stopWait", "stopWaitErr"}
  <2>1. AfterWait(r, ok) = IF ok THEN AfterStop(r, TRUE)
                           ELSE IF StopForever /\ ~r.inRm THEN AfterStop(r, r.pc = "stopWait")
                           ELSE At(r, "killEnter")
    BY <1>6, Zenon DEF AfterWait
  <2>2. HasTimeout(r) => ~(StopForever /\ ~r.inRm)
    BY <1>6, Zenon DEF HasTimeout
  <2>3. Follows(r, AfterStop(r, TRUE)) /\ Follows(r, AfterStop(r, r.pc = "stopWait"))
    BY AfterStopFollows, Zenon
  <2>4. Follows(r, At(r, "killEnter")) /\ ~Claims(r, At(r, "killEnter"))
    BY <1>0, AtFollows, Zenon
  <2> QED
    BY <2>1, <2>2, <2>3, <2>4, Zenon
<1> QED
  BY <1>1, <1>2, <1>3, <1>4, <1>5, <1>6, Zenon DEF WaitPcs

-----------------------------------------------------------------------------
(* Tasks and events *)

\* Events appended to the queue.
LEMMA QueueOps ==
    ASSUME NEW q \in Seq(Events), NEW gen \in Nat, NEW code \in AllCodes,
           NEW type \in {"start", "exit", "paused", "resumed"}
    PROVE  /\ Event(type, gen, code) \in Events
           /\ Append(q, Event(type, gen, code)) \in Seq(Events)
           /\ q \o <<Event(type, gen, code)>> \in Seq(Events)
<1>1. Event(type, gen, code) \in Events
  BY Zenon DEF Event, Events
<1> HIDE DEF Event, Events
<1> QED
  BY <1>1

\* A task is paused, resumed or deleted; signalled.
LEMMA TaskStatus ==
    ASSUME NEW t \in Tasks, NEW status \in {"none", "running", "paused", "stopped"}
    PROVE  LET u == [t EXCEPT !.status = status] IN
             u \in Tasks /\ u.status = status /\ u.gen = t.gen
  BY Zenon DEF Tasks

LEMMA TaskSig ==
    ASSUME NEW t \in Tasks, NEW sig \in {"none", "term", "kill"},
           NEW status \in {"none", "running", "paused", "stopped"}
    PROVE  LET u == [t EXCEPT !.sig = sig, !.status = status] IN
             u \in Tasks /\ u.status = status /\ u.gen = t.gen
  BY Zenon DEF Tasks

LEMMA TaskKill ==
    ASSUME NEW t \in Tasks
    PROVE  LET u == [t EXCEPT !.sig = "kill"] IN
             u \in Tasks /\ u.status = t.status /\ u.gen = t.gen
  BY Zenon DEF Tasks

-----------------------------------------------------------------------------
(* Steps that are not the removal's own *)

\* actor b moves on to a state that claims nothing that is not so
Moved(b) ==
    /\ Fits(act'[b])
    /\ act'[b].inRm = act[b].inRm
    /\ act[b].pc # "rmLayer"
    /\ act'[b].pc \notin {"rmLayer", "rmFs", "rmUnregister", "rmRemoved"}
    /\ act'[b].gen <= task.gen
    /\ ~misfired /\ act'[b].pc = "rmDead" => ~Alive
    /\ b \in Clients /\ ~misfired /\ act'[b].ret = "stopped" => ~(Alive /\ task.gen <= act'[b].gen)

\* no process comes to life, or a new one does and no removal is about
ProcessStep ==
    /\ task'.gen >= task.gen
    /\ Alive' => \/ Alive /\ task'.gen = task.gen
                 \/ task'.gen > task.gen /\ ~st.RemovalInProgress /\ ~st.Dead

\* a result channel belongs to a wait, and gets its result when no process lives
WaitStep ==
    \A b \in Actors :
        /\ wait'[b] # "none" => act'[b].pc \in WaitPcs
        /\ ~misfired' /\ wait'[b] \in {"ok", "err"}
              => (wait[b] = wait'[b] /\ act'[b] = act[b]) \/ ~Alive'

\* Such a step keeps the invariant if it keeps the two parts about the process.
LEMMA QuietStep ==
    ASSUME LifecycleInv, TypeOK',
           \A b \in Actors : act'[b] = act[b] \/ Moved(b),
           st'.Dead = st.Dead, st'.RemovalInProgress = st.RemovalInProgress,
           layer' = layer, registered' = registered,
           misfired => misfired',
           ProcessStep, WaitStep, RunningIfAlive', RestarterInv'
    PROVE  LifecycleInv'
<1> USE DEF LifecycleInv
<1>0. task.gen \in Nat /\ task'.gen \in Nat
  BY Zenon DEF TypeOK, Tasks
<1>1. \A b \in Actors : act[b] \in ActorStates /\ act'[b] \in ActorStates
  BY Zenon DEF TypeOK
<1>2. \A b \in Actors : act[b].gen \in Nat /\ act'[b].gen \in Nat
  BY <1>1, Zenon DEF ActorStates
<1>3. \A b \in Actors : act'[b].inRm = act[b].inRm
  BY Zenon DEF Moved
<1>4. RemovalInv'
  <2> SUFFICES ASSUME NEW b \in Actors
               PROVE  /\ act'[b].inRm => st'.RemovalInProgress /\ act'[b].pc \in InRmPcs
                      /\ act'[b].op = "signal" => act'[b].pc = "killSignal" /\ ~act'[b].inRm
                      /\ act'[b].pc \in RmPcs => act'[b].inRm
                      /\ act'[b].pc = "rmLayer" => st'.Dead
                      /\ act'[b].pc \in {"rmFs", "rmUnregister", "rmRemoved"}
                              => st'.Dead /\ layer' = "released"
    BY Zenon DEF RemovalInv
  <2>1. CASE act'[b] = act[b]
    BY <2>1, Zenon DEF RemovalInv
  <2>2. CASE Moved(b)
    BY <2>2, Zenon DEF RemovalInv, Moved, Fits
  <2> QED
    BY <2>1, <2>2, Zenon
<1>5. RemovalExclusive'
  <2>1. layer' = "taken" => \E b \in Actors : act'[b].pc = "rmLayer"
    BY Zenon DEF RemovalExclusive, Moved
  <2> QED
    BY <1>3, <2>1, Zenon DEF RemovalExclusive
<1>6. GoneInv'
  <2> SUFFICES ASSUME NEW b \in Actors
               PROVE  /\ wait'[b] # "none" => act'[b].pc \in WaitPcs
                      /\ act'[b].gen <= task'.gen
                      /\ ~misfired' /\ wait'[b] \in {"ok", "err"}
                            => ~(Alive' /\ (act'[b].inRm \/ task'.gen <= act'[b].gen))
                      /\ ~misfired' /\ act'[b].pc = "rmDead" => ~Alive'
    BY Zenon DEF GoneInv
  <2>1. wait'[b] # "none" => act'[b].pc \in WaitPcs
    BY Zenon DEF WaitStep
  <2>2. act'[b].gen <= task.gen
    BY Zenon DEF Moved, GoneInv
  <2>3. act'[b].gen <= task'.gen
    BY <1>0, <1>2, <2>2 DEF ProcessStep
  <2>4. ASSUME ~misfired', wait'[b] \in {"ok", "err"}, Alive'
        PROVE  ~(act'[b].inRm \/ task'.gen <= act'[b].gen)
    <3>1. wait[b] = wait'[b] /\ act'[b] = act[b]
      BY <2>4, Zenon DEF WaitStep
    <3>2. CASE Alive /\ task'.gen = task.gen
      BY <2>4, <3>1, <3>2, Zenon DEF GoneInv
    <3>3. CASE task'.gen > task.gen /\ ~st.RemovalInProgress
      <4>1. ~act[b].inRm
        BY <3>3, Zenon DEF RemovalInv
      <4> QED
        BY <1>0, <1>2, <2>2, <3>1, <3>3, <4>1
    <3> QED
      BY <2>4, <3>2, <3>3, Zenon DEF ProcessStep
  <2>5. ASSUME ~misfired', act'[b].pc = "rmDead", Alive'
        PROVE  FALSE
    <3>1. ~misfired /\ act'[b].inRm
      BY <1>4, <2>5, Zenon DEF RemovalInv, RmPcs
    <3>2. st.RemovalInProgress
      BY <1>3, <3>1, Zenon DEF RemovalInv
    <3>3. Alive
      BY <2>5, <3>2, Zenon DEF ProcessStep
    <3> QED
      BY <2>5, <3>1, <3>3, Zenon DEF Moved, GoneInv
  <2> QED
    BY <2>1, <2>3, <2>4, <2>5, Zenon
<1>7. DeadHasNoProcess'
  BY Zenon DEF DeadHasNoProcess, ProcessStep
<1>8. StopKills'
  <2> SUFFICES ASSUME NEW b \in Clients, ~misfired', act'[b].ret = "stopped", Alive',
                      task'.gen <= act'[b].gen
               PROVE  FALSE
    BY Zenon DEF StopKills
  <2>0. b \in Actors /\ ~misfired
    BY Zenon DEF Actors
  <2>1. act'[b].gen <= task.gen
    BY <2>0, Zenon DEF Moved, GoneInv
  <2>2. Alive /\ task'.gen = task.gen
    BY <1>0, <1>2, <2>0, <2>1 DEF ProcessStep
  <2> QED
    BY <2>0, <2>2, Zenon DEF Moved, StopKills
<1> QED
  BY <1>4, <1>5, <1>6, <1>7, <1>8, Zenon

\* An actor that moves on as Follows allows, and claims only what is so.
LEMMA FollowsMoved ==
    ASSUME LifecycleInv, NEW a \in Actors, NEW x, Become(a, x), Follows(act[a], x),
           act[a].pc # "rmLayer",
           ~misfired /\ Claims(act[a], x) => ~(Alive /\ (act[a].inRm \/ task.gen <= act[a].gen))
    PROVE  \A b \in Actors : act'[b] = act[b] \/ Moved(b)
<1> USE DEF LifecycleInv
<1>1. act \in [Actors -> ActorStates] /\ act' = [act EXCEPT ![a] = x]
  BY Zenon DEF TypeOK, Become
<1>2. \A b \in Actors : b # a => act'[b] = act[b]
  BY <1>1, Zenon
<1>3. act'[a] = x /\ act[a] \in ActorStates
  BY <1>1, Zenon
<1>4. task.gen \in Nat /\ act[a].gen \in Nat /\ x.gen \in Nat /\ act[a].gen <= task.gen
  BY <1>3, Zenon DEF TypeOK, Tasks, ActorStates, GoneInv, Follows
<1>5. x.gen <= task.gen
  BY <1>4 DEF Follows
<1>6. ~misfired /\ x.pc = "rmDead" => ~Alive
  <2> SUFFICES ASSUME ~misfired, x.pc = "rmDead"
               PROVE  ~Alive
    BY Zenon
  <2>1. act[a].inRm
    BY Zenon DEF Follows, Fits, RmPcs
  <2> QED
    BY <2>1, Zenon DEF Claims
<1>7. a \in Clients /\ ~misfired /\ x.ret = "stopped" => ~(Alive /\ task.gen <= x.gen)
  <2> SUFFICES ASSUME a \in Clients, ~misfired, x.ret = "stopped"
               PROVE  ~(Alive /\ task.gen <= x.gen)
    BY Zenon
  <2>1. x.gen = act[a].gen
    BY Zenon DEF Follows
  <2>2. CASE act[a].ret = "stopped"
    BY <2>1, <2>2, Zenon DEF StopKills
  <2>3. CASE act[a].ret # "stopped"
    BY <2>1, <2>3, Zenon DEF Claims
  <2> QED
    BY <2>2, <2>3, Zenon
<1>8. Moved(a)
  BY <1>3, <1>5, <1>6, <1>7, Zenon DEF Moved, Follows
<1> QED
  BY <1>2, <1>8, Zenon

\* An actor that begins a call, or ends one that is not a removal.
LEMMA FreshMoved ==
    ASSUME LifecycleInv, NEW a \in Actors, NEW x \in ActorStates, Become(a, x),
           ~act[a].inRm, ~x.inRm, x.pc \notin RmPcs, x.ret # "stopped", x.gen <= task.gen,
           x.op = "signal" => x.pc = "killSignal"
    PROVE  \A b \in Actors : act'[b] = act[b] \/ Moved(b)
<1> USE DEF LifecycleInv
<1>1. act \in [Actors -> ActorStates] /\ act' = [act EXCEPT ![a] = x]
  BY Zenon DEF TypeOK, Become
<1>2. \A b \in Actors : b # a => act'[b] = act[b]
  BY <1>1, Zenon
<1>3. act'[a] = x /\ act[a].inRm = x.inRm
  BY <1>1, Zenon DEF ActorStates
<1>4. act[a].pc # "rmLayer"
  BY Zenon DEF RemovalInv, RmPcs
<1>5. Moved(a)
  BY <1>3, <1>4, Zenon DEF Moved, Fits, RmPcs
<1> QED
  BY <1>2, <1>5, Zenon

\* A step that changes nothing but where actors are, their calls and signals.
LEMMA MoveStep ==
    ASSUME LifecycleInv, TypeOK',
           \A b \in Actors : act'[b] = act[b] \/ Moved(b),
           st' = st, layer' = layer, registered' = registered, misfired' = misfired,
           task'.gen = task.gen, Alive' => Alive, restarter'.pc = restarter.pc,
           \A b \in Actors : wait'[b] = "none" \/ (wait'[b] = wait[b] /\ act'[b] = act[b])
    PROVE  LifecycleInv'
<1> USE DEF LifecycleInv
<1>1. ProcessStep
  BY DEF ProcessStep, TypeOK, Tasks
<1>2. WaitStep
  BY Zenon DEF WaitStep, GoneInv
<1>3. RunningIfAlive' /\ RestarterInv'
  BY SMTT(30) DEF RunningIfAlive, RestarterInv
<1> QED
  BY <1>1, <1>2, <1>3, QuietStep, Zenon

\* The same, with no change but to the actor a.
LEMMA CallStep ==
    ASSUME LifecycleInv, NEW a \in Actors, act' \in [Actors -> ActorStates],
           \A b \in Actors : act'[b] = act[b] \/ Moved(b),
           \A b \in Actors \ {a} : act'[b] = act[b],
           act[a].pc \notin WaitPcs,
           UNCHANGED <<st, restarter, task, queue, faults, registered, layer, wait, misfired>>,
           rm' \in RestartManagers, manuallyStopped' \in BOOLEAN, manuallyRestarted' \in BOOLEAN,
           shutdown' \in BOOLEAN
    PROVE  LifecycleInv'
<1> USE DEF LifecycleInv
<1>1. TypeOK'
  BY Zenon DEF TypeOK
<1>2. Alive' => Alive
  BY Zenon DEF Alive
<1>3. \A b \in Actors : wait'[b] = "none" \/ (wait'[b] = wait[b] /\ act'[b] = act[b])
  BY Zenon DEF GoneInv
<1> QED
  BY <1>1, <1>2, <1>3, MoveStep, Zenon

-----------------------------------------------------------------------------
(* API calls begin *)

\* The fields of a call of a client that begins.
LEMMA BeginStep ==
    ASSUME LifecycleInv, NEW c \in Clients, act[c].pc = "idle",
           NEW op \in AllOps, NEW pc \in Pcs, pc \notin RmPcs, op = "signal" => pc = "killSignal", NEW inStop \in BOOLEAN,
           NEW gen \in Nat, gen <= task.gen, Become(c, Call(op, pc, inStop, gen)),
           UNCHANGED <<ctrVars, envVars, registered, layer, wait, misfired>>,
           shutdown' \in BOOLEAN
    PROVE  LifecycleInv'
<1> USE DEF LifecycleInv
<1> DEFINE x == Call(op, pc, inStop, gen)
<1>0. op \in AllOps \cup {"none", "reap", "autorm"}
  BY Zenon
<1>1. x \in ActorStates /\ x.op = op /\ x.pc = pc /\ x.inRm = FALSE /\ x.gen = gen /\ x.ret = "none"
  BY <1>0, Zenon DEF x, Call, ActorStates
<1> HIDE DEF x
<1>2. c \in Actors /\ Become(c, x)
  BY Zenon DEF Actors, x
<1>3. ~act[c].inRm
  BY <1>2, Zenon DEF RemovalInv, InRmPcs, RmPcs
<1>4. \A b \in Actors : act'[b] = act[b] \/ Moved(b)
  BY <1>1, <1>2, <1>3, FreshMoved, Zenon
<1>5. act' \in [Actors -> ActorStates] /\ \A b \in Actors \ {c} : act'[b] = act[b]
  BY <1>1, <1>2 DEF TypeOK, Become
<1> QED
  BY <1>2, <1>4, <1>5, CallStep, Zenon DEF TypeOK, ctrVars, envVars, WaitPcs

\* The same for a call that has nothing to do.
LEMMA IdleStep ==
    ASSUME LifecycleInv, NEW a \in Actors, act[a].pc \notin WaitPcs, ~act[a].inRm,
           Become(a, Idle),
           UNCHANGED <<st, restarter, task, queue, faults, registered, layer, wait, misfired>>,
           rm' \in RestartManagers, manuallyStopped' \in BOOLEAN, manuallyRestarted' \in BOOLEAN,
           shutdown' \in BOOLEAN
    PROVE  LifecycleInv'
<1> USE DEF LifecycleInv
<1>1. task.gen \in Nat
  BY Zenon DEF TypeOK, Tasks
<1>2. Idle \in ActorStates /\ Idle.gen <= task.gen /\ ~Idle.inRm /\ Idle.pc \notin RmPcs
      /\ Idle.ret # "stopped" /\ Idle.op # "signal"
  BY <1>1, IdleFields DEF RmPcs
<1>3. \A b \in Actors : act'[b] = act[b] \/ Moved(b)
  BY <1>2, FreshMoved, Zenon
<1>4. act' \in [Actors -> ActorStates] /\ \A b \in Actors \ {a} : act'[b] = act[b]
  BY <1>2, Zenon DEF TypeOK, Become
<1> QED
  BY <1>3, <1>4, CallStep, Zenon

LEMMA ActorFits ==
    ASSUME LifecycleInv, NEW a \in Actors
    PROVE  act[a] \in ActorStates /\ Fits(act[a]) /\ (act[a].pc # "killSignal" => act[a].op # "signal")
  BY Zenon DEF LifecycleInv, TypeOK, RemovalInv, Fits

\* A step of one actor, as Follows allows, that changes nothing else.
LEMMA FollowsStep ==
    ASSUME LifecycleInv, NEW a \in Actors, NEW x, Become(a, x), Follows(act[a], x),
           act[a].pc \notin WaitPcs, act[a].pc # "rmLayer",
           ~misfired /\ Claims(act[a], x) => ~(Alive /\ (act[a].inRm \/ task.gen <= act[a].gen)),
           UNCHANGED <<st, restarter, task, queue, faults, registered, layer, wait, misfired>>,
           rm' \in RestartManagers, manuallyStopped' \in BOOLEAN, manuallyRestarted' \in BOOLEAN,
           shutdown' \in BOOLEAN
    PROVE  LifecycleInv'
<1>1. \A b \in Actors : act'[b] = act[b] \/ Moved(b)
  BY FollowsMoved, Zenon
<1>2. act' \in [Actors -> ActorStates] /\ \A b \in Actors \ {a} : act'[b] = act[b]
  BY Zenon DEF LifecycleInv, TypeOK, Become, Follows
<1> QED
  BY <1>1, <1>2, CallStep, Zenon

\* Waiters are woken, and only waiters.
LEMMA NotifiedFields ==
    ASSUME TypeOK, NEW s
    PROVE  /\ Notified(s) \in [Actors -> {"none", "waiting", "ok", "err"}]
           /\ \A b \in Actors : Notified(s)[b] = wait[b] \/ wait[b] = "waiting"
           /\ \A b \in Actors : wait[b] = "none" <=> Notified(s)[b] = "none"
  BY Zenon DEF Notified, WaitStatus, TypeOK

-----------------------------------------------------------------------------
(* API calls begin *)

LEMMA ClientBeginsKeepInv ==
    ASSUME LifecycleInv, NEW c \in Clients, ClientBegins(c)
    PROVE  LifecycleInv'
<1>0. /\ task.gen \in Nat /\ 0 <= task.gen /\ task.gen <= task.gen
      /\ rm \in RestartManagers /\ manuallyStopped \in BOOLEAN /\ manuallyRestarted \in BOOLEAN
      /\ shutdown \in BOOLEAN
  BY DEF LifecycleInv, TypeOK, Tasks
<1>a. /\ {"start", "stop", "kill", "signal", "restart", "rm", "rm -f", "shutdown"} \subseteq AllOps
      /\ {"startLock", "stopEnter", "killSignal", "restartMark", "rmEnter"} \subseteq Pcs
      /\ {"startLock", "stopEnter", "killSignal", "restartMark", "rmEnter"} \cap RmPcs = {}
  BY Zenon DEF AllOps, Pcs, RmPcs
<1>1. CASE ContainerStart(c)
  BY <1>0, <1>a, <1>1, BeginStep, Zenon DEF ContainerStart, Begin, rmVars
<1>2. CASE ContainerStop(c)
  BY <1>0, <1>a, <1>2, BeginStep, Zenon DEF ContainerStop, BeginStopping, rmVars
<1>3. CASE ContainerKill(c)
  BY <1>0, <1>a, <1>3, BeginStep, Zenon DEF ContainerKill, BeginStopping, rmVars
<1>4. CASE ContainerRestart(c)
  BY <1>0, <1>a, <1>4, BeginStep, Zenon DEF ContainerRestart, rmVars
<1>5. CASE ContainerRm(c)
  BY <1>0, <1>a, <1>5, BeginStep, Zenon DEF ContainerRm, Begin, rmVars
<1>6. CASE Shutdown(c)
  <2>1. c \in Actors /\ act[c].pc = "idle" /\ shutdown' \in BOOLEAN
    BY <1>6, Zenon DEF Shutdown, Actors
  <2>2. ~act[c].inRm /\ act[c].pc \notin WaitPcs
    BY <2>1, Zenon DEF LifecycleInv, RemovalInv, InRmPcs, RmPcs, WaitPcs
  <2>3. CASE st.Running
    BY <1>0, <1>a, <1>6, <2>1, <2>3, BeginStep, Zenon DEF Shutdown
  <2>4. CASE ~st.Running
    BY <1>0, <1>6, <2>1, <2>2, <2>4, IdleStep, Zenon DEF Shutdown, ctrVars, envVars
  <2> QED
    BY <2>3, <2>4, Zenon
<1>7. CASE ContainerPause(c)
  <2> USE DEF LifecycleInv
  <2>1. /\ task' = [task EXCEPT !.status = "paused"] /\ st' = SetPaused(st, TRUE)
        /\ queue' = Append(queue, Event("paused", task.gen, 0)) /\ task.status = "running"
        /\ UNCHANGED <<manuallyStopped, manuallyRestarted, rm, restarter, faults, rmVars, act,
                       wait, misfired>>
    BY <1>7, Zenon DEF ContainerPause
  <2>2. task' \in Tasks /\ task'.gen = task.gen /\ task'.status = "paused"
    BY <2>1, TaskStatus, Zenon DEF TypeOK
  <2>3. queue' \in Seq(Events)
    BY <1>0, <2>1, Constants, QueueOps, Zenon DEF TypeOK
  <2>4. st' \in State /\ SameProcess(st, st') /\ SameRemoval(st, st')
    BY <2>1, SetPausedFacts, Zenon DEF TypeOK
  <2>5. /\ st'.Running = st.Running /\ st'.Restarting = st.Restarting /\ st'.Pid = st.Pid
        /\ st'.Dead = st.Dead /\ st'.RemovalInProgress = st.RemovalInProgress
    BY <2>4, Zenon DEF SameProcess, SameRemoval
  <2>6. TypeOK'
    BY <2>1, <2>2, <2>3, <2>4, Zenon DEF TypeOK, rmVars
  <2>7. Alive /\ Alive'
    BY <2>1, <2>2, Zenon DEF Alive
  <2>8. ProcessStep /\ WaitStep
    BY <1>0, <2>1, <2>2, <2>7, Zenon DEF ProcessStep, WaitStep, GoneInv
  <2>9. RunningIfAlive' /\ RestarterInv'
    BY <2>1, <2>2, <2>5, <2>7, Zenon DEF RunningIfAlive, RestarterInv
  <2> QED
    BY <2>1, <2>5, <2>6, <2>8, <2>9, QuietStep, Zenon DEF rmVars
<1>8. CASE ContainerUnpause(c)
  <2> USE DEF LifecycleInv
  <2>1. /\ task' = [task EXCEPT !.status = "running"] /\ st' = SetPaused(st, FALSE)
        /\ queue' = Append(queue, Event("resumed", task.gen, 0)) /\ task.status = "paused"
        /\ UNCHANGED <<manuallyStopped, manuallyRestarted, rm, restarter, faults, rmVars, act,
                       wait, misfired>>
    BY <1>8, Zenon DEF ContainerUnpause
  <2>2. task' \in Tasks /\ task'.gen = task.gen /\ task'.status = "running"
    BY <2>1, TaskStatus, Zenon DEF TypeOK
  <2>3. queue' \in Seq(Events)
    BY <1>0, <2>1, Constants, QueueOps, Zenon DEF TypeOK
  <2>4. st' \in State /\ SameProcess(st, st') /\ SameRemoval(st, st')
    BY <2>1, SetPausedFacts, Zenon DEF TypeOK
  <2>5. /\ st'.Running = st.Running /\ st'.Restarting = st.Restarting /\ st'.Pid = st.Pid
        /\ st'.Dead = st.Dead /\ st'.RemovalInProgress = st.RemovalInProgress
    BY <2>4, Zenon DEF SameProcess, SameRemoval
  <2>6. TypeOK'
    BY <2>1, <2>2, <2>3, <2>4, Zenon DEF TypeOK, rmVars
  <2>7. Alive /\ Alive'
    BY <2>1, <2>2, Zenon DEF Alive
  <2>8. ProcessStep /\ WaitStep
    BY <1>0, <2>1, <2>2, <2>7, Zenon DEF ProcessStep, WaitStep, GoneInv
  <2>9. RunningIfAlive' /\ RestarterInv'
    BY <2>1, <2>2, <2>5, <2>7, Zenon DEF RunningIfAlive, RestarterInv
  <2> QED
    BY <2>1, <2>5, <2>6, <2>8, <2>9, QuietStep, Zenon DEF rmVars
<1> QED
  BY <1>1, <1>2, <1>3, <1>4, <1>5, <1>6, <1>7, <1>8, Zenon DEF ClientBegins

-----------------------------------------------------------------------------
(* Waits, stops and kills *)

LEMMA WaitKeepsInv ==
    ASSUME LifecycleInv, NEW a \in Actors, Wait(a)
    PROVE  LifecycleInv'
<1> USE DEF LifecycleInv
<1>1. /\ act[a].pc \in WaitPcs /\ act' = act
      /\ wait' = [wait EXCEPT ![a] = IF st.Running THEN "waiting" ELSE WaitStatus(st)]
      /\ UNCHANGED <<ctrVars, envVars, rmVars, misfired>>
  BY Zenon DEF Wait
<1>2. WaitStatus(st) \in {"ok", "err"}
  BY Zenon DEF WaitStatus
<1>3. TypeOK'
  BY <1>1, <1>2, Zenon DEF TypeOK, ctrVars, envVars, rmVars
<1>4. Alive' <=> Alive
  BY <1>1, Zenon DEF Alive, envVars
<1>5. ProcessStep
  BY <1>1, <1>4 DEF ProcessStep, envVars, TypeOK, Tasks
<1>6. WaitStep
  <2> SUFFICES ASSUME NEW b \in Actors
               PROVE  /\ wait'[b] # "none" => act'[b].pc \in WaitPcs
                      /\ ~misfired' /\ wait'[b] \in {"ok", "err"}
                            => (wait[b] = wait'[b] /\ act'[b] = act[b]) \/ ~Alive'
    BY Zenon DEF WaitStep
  <2>1. CASE b # a
    BY <1>1, <2>1, Zenon DEF TypeOK, GoneInv
  <2>2. CASE b = a
    BY <1>1, <1>4, <2>2, Zenon DEF TypeOK, RunningIfAlive
  <2> QED
    BY <2>1, <2>2, Zenon
<1>7. RunningIfAlive' /\ RestarterInv'
  BY <1>1, <1>4, Zenon DEF RunningIfAlive, RestarterInv, ctrVars, envVars
<1> QED
  BY <1>1, <1>3, <1>5, <1>6, <1>7, QuietStep, Zenon DEF ctrVars, rmVars

LEMMA WaitReturnKeepsInv ==
    ASSUME LifecycleInv, NEW a \in Actors, WaitReturn(a)
    PROVE  LifecycleInv'
<1> USE DEF LifecycleInv
<1>1. /\ act[a].pc \in WaitPcs
      /\ wait' = [wait EXCEPT ![a] = "none"]
      /\ UNCHANGED <<ctrVars, envVars, rmVars, misfired>>
  BY Zenon DEF WaitReturn
<1>2. act[a].pc # "rmLayer"
  BY <1>1, Zenon DEF WaitPcs
<1>0. act[a].pc # "killSignal"
  BY <1>1, Zenon DEF WaitPcs
<1>3. PICK ok \in BOOLEAN : /\ Become(a, AfterWait(act[a], ok))
                            /\ wait[a] \in {"ok", "err"} \/ (~ok /\ HasTimeout(act[a]))
  BY Zenon DEF WaitReturn
<1> DEFINE x == AfterWait(act[a], ok)
<1>4. /\ Follows(act[a], x)
      /\ ~ok /\ HasTimeout(act[a]) => ~Claims(act[a], x)
  BY <1>1, <1>0, ActorFits, AfterWaitFollows, Zenon
<1> HIDE DEF x
<1>5. ~misfired /\ Claims(act[a], x) => ~(Alive /\ (act[a].inRm \/ task.gen <= act[a].gen))
  BY <1>3, <1>4, Zenon DEF GoneInv
<1>6. \A b \in Actors : act'[b] = act[b] \/ Moved(b)
  BY <1>2, <1>3, <1>4, <1>5, FollowsMoved, Zenon DEF x
<1>7. TypeOK'
  BY <1>1, <1>3, <1>4, Zenon DEF TypeOK, ctrVars, envVars, rmVars, Become, Follows, x
<1>8. \A b \in Actors : wait'[b] = "none" \/ (wait'[b] = wait[b] /\ act'[b] = act[b])
  BY <1>1, <1>3, Zenon DEF TypeOK, Become
<1>9. Alive' => Alive
  BY <1>1, Zenon DEF Alive, envVars
<1> QED
  BY <1>1, <1>6, <1>7, <1>8, <1>9, MoveStep, Zenon DEF ctrVars, envVars, rmVars

LEMMA StopEnterKeepsInv ==
    ASSUME LifecycleInv, NEW a \in Actors, StopEnter(a)
    PROVE  LifecycleInv'
<1> USE DEF LifecycleInv
<1>1. /\ act[a].pc = "stopEnter"
      /\ UNCHANGED <<st, restarter, task, queue, faults, registered, layer, wait, misfired,
                     rm, manuallyStopped, manuallyRestarted, shutdown>>
  BY Zenon DEF StopEnter, ctrVars, envVars, rmVars
<1>2. act[a].pc \notin WaitPcs
  BY <1>1, Zenon DEF WaitPcs
<1>3. CASE st.Running
  <2>1. "stopSignal" \in Pcs /\ "stopSignal" \in InRmPcs /\ "stopSignal" \notin RmPcs
    BY Zenon DEF Pcs, InRmPcs, RmPcs
  <2>2. Follows(act[a], At(act[a], "stopSignal")) /\ ~Claims(act[a], At(act[a], "stopSignal"))
    BY <1>1, <2>1, ActorFits, AtFollows, Zenon
  <2> QED
    BY <1>1, <1>2, <1>3, <2>2, FollowsStep, Zenon DEF StopEnter, TypeOK
<1>4. CASE ~st.Running
  <2>1. Follows(act[a], AfterStop(act[a], TRUE))
    BY <1>1, ActorFits, AfterStopFollows, Zenon
  <2>2. ~misfired => ~Alive
    BY <1>4, Zenon DEF RunningIfAlive
  <2> QED
    BY <1>1, <1>2, <1>4, <2>1, <2>2, FollowsStep, Zenon DEF StopEnter, TypeOK
<1> QED
  BY <1>3, <1>4, Zenon

LEMMA KillEnterKeepsInv ==
    ASSUME LifecycleInv, NEW a \in Actors, KillEnter(a)
    PROVE  LifecycleInv'
<1> USE DEF LifecycleInv
<1>1. /\ act[a].pc = "killEnter"
      /\ UNCHANGED <<st, restarter, task, queue, faults, registered, layer, wait, misfired,
                     rm, manuallyStopped, manuallyRestarted, shutdown>>
  BY Zenon DEF KillEnter, ctrVars, envVars, rmVars
<1>2. act[a].pc \notin WaitPcs
  BY <1>1, Zenon DEF WaitPcs
<1>3. "killSignal" \in Pcs /\ "killSignal" \in InRmPcs /\ "killSignal" \notin RmPcs
  BY Zenon DEF Pcs, InRmPcs, RmPcs
<1>4. Follows(act[a], At(act[a], "killSignal")) /\ ~Claims(act[a], At(act[a], "killSignal"))
  BY <1>1, <1>3, ActorFits, AtFollows, Zenon
<1>5. /\ Follows(act[a], AfterKill(act[a], "not running"))
      /\ ~Claims(act[a], AfterKill(act[a], "not running"))
  BY <1>1, ActorFits, AfterKillFollows, Zenon
<1> QED
  BY <1>1, <1>2, <1>4, <1>5, FollowsStep, Zenon DEF KillEnter, TypeOK

LEMMA killProcessDirectlyKeepsInv ==
    ASSUME LifecycleInv, NEW a \in Actors, killProcessDirectly(a)
    PROVE  LifecycleInv'
<1> USE DEF LifecycleInv
<1>1. /\ act[a].pc = "killDirect"
      /\ UNCHANGED <<st, restarter, queue, faults, registered, layer, wait, misfired,
                     rm, manuallyStopped, manuallyRestarted, shutdown>>
  BY Zenon DEF killProcessDirectly, ctrVars, rmVars
<1>2. act[a].pc \notin WaitPcs
  BY <1>1, Zenon DEF WaitPcs
<1>3. "finalWait" \in Pcs /\ "finalWait" \in InRmPcs /\ "finalWait" \notin RmPcs
  BY Zenon DEF Pcs, WaitPcs, InRmPcs, RmPcs
<1>4. Follows(act[a], At(act[a], "finalWait")) /\ ~Claims(act[a], At(act[a], "finalWait"))
  BY <1>1, <1>3, ActorFits, AtFollows, Zenon
<1>5. CASE st.Pid = 0 /\ Goto(a, "finalWait") /\ UNCHANGED task
  BY <1>1, <1>2, <1>4, <1>5, FollowsStep, Zenon DEF Goto, TypeOK
<1>6. CASE Alive /\ task' = [task EXCEPT !.sig = "kill"] /\ Goto(a, "finalWait")
  <2>1. task' \in Tasks /\ task'.status = task.status /\ task'.gen = task.gen
    BY <1>6, TaskKill, Zenon DEF TypeOK
  <2>2. \A b \in Actors : act'[b] = act[b] \/ Moved(b)
    BY <1>1, <1>4, <1>6, FollowsMoved, Zenon DEF Goto
  <2>3. TypeOK'
    BY <1>1, <1>4, <1>6, <2>1, Zenon DEF TypeOK, Goto, Become, Follows
  <2>4. \A b \in Actors : wait'[b] = "none" \/ (wait'[b] = wait[b] /\ act'[b] = act[b])
    BY <1>1, <1>2, <1>6, Zenon DEF TypeOK, Goto, Become, GoneInv
  <2>5. Alive' => Alive
    BY <2>1, Zenon DEF Alive
  <2> QED
    BY <1>1, <2>1, <2>2, <2>3, <2>4, <2>5, MoveStep, Zenon
<1>7. CASE /\ st.Pid # 0 /\ ~(Alive /\ task.gen = st.Pid)
           /\ \E res \in {"nil", "error"} : Become(a, AfterKill(act[a], res))
           /\ UNCHANGED task
  <2>1. PICK res \in {"nil", "error"} : Become(a, AfterKill(act[a], res))
    BY <1>7, Zenon
  <2>2. Follows(act[a], AfterKill(act[a], res))
    BY <1>1, ActorFits, AfterKillFollows, Zenon
  <2>3. ~misfired => ~Alive
    BY <1>7, Zenon DEF RunningIfAlive
  <2> QED
    BY <1>1, <1>2, <1>7, <2>1, <2>2, <2>3, FollowsStep, Zenon DEF TypeOK
<1> QED
  BY <1>5, <1>6, <1>7, Zenon DEF killProcessDirectly

\* Cancel reaches the restart goroutine and leaves it where it is.
LEMMA RestarterCanceled ==
    ASSUME NEW r \in Restarters
    PROVE  LET x == [r EXCEPT !.canceled = TRUE] IN x \in Restarters /\ x.pc = r.pc
  BY Zenon DEF Restarters

LEMMA ExitOnNextTypes ==
    ASSUME TypeOK, ExitOnNext
    PROVE  rm' \in RestartManagers /\ restarter' \in Restarters /\ restarter'.pc = restarter.pc
<1>1. [rm EXCEPT !.canceled = TRUE] \in RestartManagers
  BY Zenon DEF TypeOK, RestartManagers
<1> QED
  BY <1>1, RestarterCanceled, Zenon DEF ExitOnNext, TypeOK

LEMMA SpawnReaperFields ==
    ASSUME LifecycleInv, NEW acts \in [Actors -> ActorStates], act["reaper"].pc = "idle"
    PROVE  LET x == SpawnReaper(acts)["reaper"] IN
             /\ SpawnReaper(acts) \in [Actors -> ActorStates]
             /\ \A b \in Actors \ {"reaper"} : SpawnReaper(acts)[b] = acts[b]
             /\ x.op = "reap" /\ x.pc = "reapWait" /\ x.inRm = FALSE /\ x.gen = task.gen /\ x.ret = "none"
<1> DEFINE y == Call("reap", "reapWait", FALSE, task.gen)
<1>1. "reaper" \in Actors /\ task.gen \in Nat
  BY Zenon DEF Actors, Goroutines, LifecycleInv, TypeOK, Tasks
<1>2. "reapWait" \in Pcs
  BY Zenon DEF Pcs, WaitPcs
<1>3. y \in ActorStates /\ y.op = "reap" /\ y.pc = "reapWait" /\ y.inRm = FALSE /\ y.gen = task.gen /\ y.ret = "none"
  BY <1>1, <1>2, Zenon DEF y, Call, ActorStates
<1> HIDE DEF y
<1>4. SpawnReaper(acts) = [acts EXCEPT !["reaper"] = y]
  BY Zenon DEF SpawnReaper, y
<1> QED
  BY <1>1, <1>3, <1>4, Zenon

LEMMA killWithSignalKeepsInv ==
    ASSUME LifecycleInv, NEW a \in Actors, act[a].pc \in {"stopSignal", "killSignal"},
           NEW sig \in {"term", "kill"}, NEW next, NEW failed,
           Follows(act[a], next), ~Claims(act[a], next),
           Follows(act[a], failed), ~Claims(act[a], failed),
           killWithSignal(a, sig, next, failed),
           UNCHANGED <<faults, rmVars, wait, misfired>>
    PROVE  LifecycleInv'
<1> USE DEF LifecycleInv
<1>0. UNCHANGED <<faults, registered, layer, shutdown, wait, misfired>>
  BY Zenon DEF rmVars
<1>1. act[a].pc \notin WaitPcs /\ act[a].pc # "rmLayer" /\ act[a].pc # "idle"
  BY Zenon DEF WaitPcs
<1>2. wait[a] = "none"
  BY <1>1, Zenon DEF GoneInv
<1>3. CASE ~GetRunningTask /\ Become(a, failed) /\ UNCHANGED <<ctrVars, task, queue>>
  BY <1>0, <1>1, <1>3, FollowsStep, Zenon DEF ctrVars, TypeOK
<1>4. CASE GetRunningTask
  <2>1. st' = st /\ manuallyRestarted' = manuallyRestarted /\ manuallyStopped' \in BOOLEAN
    BY <1>4, Zenon DEF killWithSignal
  <2>2. rm' \in RestartManagers /\ restarter' \in Restarters /\ restarter'.pc = restarter.pc
    BY <1>4, ExitOnNextTypes, Zenon DEF killWithSignal, TypeOK
  <2>3. ASSUME NEW x, Become(a, x), Follows(act[a], x), ~Claims(act[a], x),
               task' \in Tasks, task'.gen = task.gen, Alive' => Alive, queue' \in Seq(Events)
        PROVE  LifecycleInv'
    <3>1. \A b \in Actors : act'[b] = act[b] \/ Moved(b)
      BY <1>1, <2>3, FollowsMoved, Zenon
    <3>2. act' \in [Actors -> ActorStates]
      BY <2>3, Zenon DEF TypeOK, Become, Follows
    <3>3. TypeOK'
      BY <1>0, <2>1, <2>2, <2>3, <3>2, Zenon DEF TypeOK
    <3>4. \A b \in Actors : wait'[b] = "none" \/ (wait'[b] = wait[b] /\ act'[b] = act[b])
      BY <1>0, <1>2, <2>3, Zenon DEF TypeOK, Become
    <3> QED
      BY <1>0, <2>1, <2>2, <2>3, <3>1, <3>3, <3>4, MoveStep, SMTT(30)
  <2>4. CASE Become(a, next) /\ UNCHANGED <<task, queue>>
    BY <2>3, <2>4, Zenon DEF TypeOK, Alive
  <2>5. CASE Become(a, failed) /\ UNCHANGED <<task, queue>>
    BY <2>3, <2>5, Zenon DEF TypeOK, Alive
  <2>6. ASSUME NEW unpause \in BOOLEAN, Alive,
               task' = [task EXCEPT !.sig = IF @ = "kill" THEN @ ELSE sig,
                                    !.status = IF unpause THEN "running" ELSE @],
               queue' = IF unpause THEN Append(queue, Event("resumed", task.gen, 0)) ELSE queue,
               Become(a, next)
        PROVE  LifecycleInv'
    <3>1. task.gen \in Nat
      BY Zenon DEF TypeOK, Tasks
    <3>2. task' \in Tasks /\ task'.gen = task.gen
      BY <2>6, Zenon DEF TypeOK, Tasks
    <3>3. queue' \in Seq(Events)
      BY <2>6, <3>1, Constants, QueueOps, Zenon DEF TypeOK
    <3> QED
      BY <2>3, <2>6, <3>2, <3>3, Zenon
  <2>7. CASE act' = SpawnReaper([act EXCEPT ![a] = next]) /\ UNCHANGED <<task, queue>>
    <3>1. CASE act["reaper"].pc # "idle"
      BY <2>3, <2>7, <3>1, Zenon DEF TypeOK, Alive, SpawnReaper, Become
    <3>2. CASE act["reaper"].pc = "idle"
      <4> DEFINE acts == [act EXCEPT ![a] = next]
      <4>1. acts \in [Actors -> ActorStates] /\ acts[a] = next
            /\ \A b \in Actors \ {a} : acts[b] = act[b]
        BY Zenon DEF TypeOK, Follows
      <4> HIDE DEF acts
      <4>2. /\ act' \in [Actors -> ActorStates]
            /\ \A b \in Actors \ {"reaper"} : act'[b] = acts[b]
            /\ act'["reaper"].op = "reap" /\ act'["reaper"].pc = "reapWait" /\ act'["reaper"].inRm = FALSE
            /\ act'["reaper"].gen = task.gen /\ act'["reaper"].ret = "none"
        BY <2>7, <3>2, <4>1, SpawnReaperFields, Zenon DEF acts
      <4>3. a # "reaper" /\ "reaper" \in Actors /\ task.gen \in Nat
        BY <1>1, <3>2, Zenon DEF Actors, Goroutines, TypeOK, Tasks
      <4>4. TypeOK'
        BY <1>0, <2>1, <2>2, <2>7, <4>2, Zenon DEF TypeOK
      <4>5. act["reaper"].inRm = FALSE
        BY <3>2, <4>3, SMTT(30) DEF RemovalInv, InRmPcs, RmPcs, TypeOK, ActorStates
      <4>6. Moved("reaper")
        <5>1. Fits(act'["reaper"]) /\ act'["reaper"].inRm = act["reaper"].inRm
          BY <4>2, <4>5, Zenon DEF Fits, RmPcs
        <5>2. act'["reaper"].gen <= task.gen
          BY <4>2, <4>3
        <5> QED
          BY <3>2, <4>2, <5>1, <5>2, Zenon DEF Moved
      <4>7. act[a].gen \in Nat /\ next.gen <= act[a].gen /\ act[a].gen <= task.gen /\ next.gen \in Nat
        BY <4>1, SMTT(30) DEF Follows, GoneInv, TypeOK, ActorStates
      <4>8. a \in Clients /\ ~misfired /\ next.ret = "stopped" => ~(Alive /\ task.gen <= next.gen)
        BY Zenon DEF Follows, Claims, StopKills
      <4>9. act'[a] = next
        BY <4>1, <4>2, <4>3, Zenon
      <4>10. Moved(a)
        BY <1>1, <4>3, <4>7, <4>8, <4>9, SMTT(30) DEF Moved, Follows, Claims
      <4>11. \A b \in Actors : act'[b] = act[b] \/ Moved(b)
        BY <4>1, <4>2, <4>6, <4>10, Zenon
      <4>12. \A b \in Actors : wait'[b] = "none" \/ (wait'[b] = wait[b] /\ act'[b] = act[b])
        <5>1. wait["reaper"] = "none"
          BY <3>2, <4>3, Zenon DEF GoneInv, WaitPcs
        <5> QED
          BY <1>0, <1>2, <4>1, <4>2, <5>1, Zenon
      <4> QED
        BY <1>0, <2>1, <2>2, <2>7, <4>4, <4>11, <4>12, MoveStep, Zenon DEF Alive
    <3> QED
      BY <3>1, <3>2, Zenon
  <2> QED
    BY <1>4, <2>4, <2>5, <2>6, <2>7, Zenon DEF killWithSignal
<1> QED
  BY <1>3, <1>4, Zenon DEF killWithSignal

LEMMA StopSignalKeepsInv ==
    ASSUME LifecycleInv, NEW a \in Actors, StopSignal(a)
    PROVE  LifecycleInv'
<1>0. act[a].pc = "stopSignal"
  BY Zenon DEF StopSignal
<1>1. /\ {"stopWait", "stopWaitErr"} \subseteq Pcs /\ {"stopWait", "stopWaitErr"} \subseteq InRmPcs
      /\ "stopWait" \notin RmPcs /\ "stopWaitErr" \notin RmPcs
  BY Zenon DEF Pcs, WaitPcs, InRmPcs, RmPcs
<1>2. /\ Follows(act[a], At(act[a], "stopWait")) /\ ~Claims(act[a], At(act[a], "stopWait"))
      /\ Follows(act[a], At(act[a], "stopWaitErr")) /\ ~Claims(act[a], At(act[a], "stopWaitErr"))
  BY <1>0, <1>1, ActorFits, AtFollows, Zenon
<1> QED
  BY <1>2, killWithSignalKeepsInv, Zenon DEF StopSignal

LEMMA KillSignalKeepsInv ==
    ASSUME LifecycleInv, NEW a \in Actors, KillSignal(a)
    PROVE  LifecycleInv'
<1>1. "killWait" \in Pcs /\ "killWait" \in InRmPcs /\ "killWait" \notin RmPcs
  BY Zenon DEF Pcs, WaitPcs, InRmPcs, RmPcs
<1>2. act[a].op # "signal" =>
        Follows(act[a], At(act[a], "killWait")) /\ ~Claims(act[a], At(act[a], "killWait"))
  BY <1>1, ActorFits, AtFollows, Zenon
<1>3. act[a].op = "signal" => Follows(act[a], Idle) /\ ~Claims(act[a], Idle)
  BY ActorFits, IdleFollows, Zenon DEF Fits
<1> QED
  BY <1>2, <1>3, killWithSignalKeepsInv, Zenon DEF KillSignal

-----------------------------------------------------------------------------
(* containerStart *)

\* The types of what a start changes.
LEMMA StartTaskTypes ==
    ASSUME TypeOK, StartTask
    PROVE  /\ task' \in Tasks /\ task'.gen = task.gen + 1 /\ queue' \in Seq(Events)
           /\ manuallyRestarted' \in BOOLEAN
           /\ st' \in State /\ st'.Running /\ ~st'.Restarting /\ st'.Pid = task'.gen
           /\ SameRemoval(st, st')
<1>1. task.gen \in Nat /\ task.gen + 1 \in Nat
  BY DEF TypeOK, Tasks
<1>2. task' \in Tasks /\ task'.gen = task.gen + 1
  BY <1>1, Constants, Zenon DEF StartTask, Tasks
<1>3. Event("exit", task.gen, Killed) \in Events /\ Event("start", task.gen + 1, 0) \in Events
  BY <1>1, Constants, QueueOps, Zenon DEF TypeOK
<1>4. ReplacedExit \in Seq(Events)
  BY <1>3 DEF ReplacedExit
<1>5. queue' \in Seq(Events)
  BY <1>3, <1>4 DEF StartTask, TypeOK
<1> QED
  BY <1>1, <1>2, <1>5, SetRunningFacts, Zenon DEF StartTask, TypeOK

LEMMA FailedStartTypes ==
    ASSUME TypeOK, FailEarly \/ \E err \in Errors : CreateTaskAndFail(err)
    PROVE  /\ task' \in Tasks /\ task'.gen >= task.gen /\ queue' \in Seq(Events)
           /\ Alive' => Alive /\ task'.gen = task.gen
           /\ manuallyRestarted' \in BOOLEAN
           /\ st' \in State /\ SameProcess(st, st') /\ SameRemoval(st, st')
<1>1. task.gen \in Nat /\ task.gen + 1 \in Nat
  BY DEF TypeOK, Tasks
<1>0. st \in State /\ task \in Tasks /\ queue \in Seq(Events) /\ manuallyRestarted \in BOOLEAN
  BY Zenon DEF TypeOK
<1>2. CASE FailEarly
  <2>1. task' = task /\ queue' = queue /\ manuallyRestarted' = manuallyRestarted
        /\ st' = SetStartError(st, "start")
    BY <1>2, Zenon DEF FailEarly
  <2>2. Alive' => Alive
    BY <2>1, Zenon DEF Alive
  <2>3. st' \in State /\ SameProcess(st, st') /\ SameRemoval(st, st')
    BY <1>0, <2>1, Constants, SetStartErrorFacts, Zenon
  <2> QED
    BY <1>0, <1>1, <2>1, <2>2, <2>3
<1>3. ASSUME NEW err \in Errors, CreateTaskAndFail(err)
      PROVE  /\ task' \in Tasks /\ task'.gen >= task.gen /\ queue' \in Seq(Events)
             /\ Alive' => Alive /\ task'.gen = task.gen
             /\ manuallyRestarted' \in BOOLEAN
             /\ st' \in State /\ SameProcess(st, st') /\ SameRemoval(st, st')
  <2>1. task' \in Tasks /\ task'.gen = task.gen + 1 /\ task'.status = "none"
    BY <1>1, <1>3, Constants, Zenon DEF CreateTaskAndFail, Tasks
  <2>2. Event("exit", task.gen, Killed) \in Events /\ Event("exit", task.gen + 1, Killed) \in Events
    BY <1>1, Constants, QueueOps, Zenon DEF TypeOK
  <2>3. ReplacedExit \in Seq(Events)
    BY <2>2 DEF ReplacedExit
  <2>7. queue' = (queue \o ReplacedExit) \o <<Event("exit", task.gen + 1, Killed)>>
        /\ manuallyRestarted' = manuallyRestarted
    BY <1>3, Zenon DEF CreateTaskAndFail
  <2>4. queue' \in Seq(Events)
    BY <1>0, <2>2, <2>3, <2>7
  <2>5. ~Alive'
    BY <2>1, Zenon DEF Alive
  <2>6. st' \in State /\ SameProcess(st, st') /\ SameRemoval(st, st')
    BY <1>3, Constants, SetStartErrorFacts, Zenon DEF CreateTaskAndFail, TypeOK
  <2> QED
    BY <1>0, <1>1, <2>1, <2>4, <2>5, <2>6, <2>7
<1> QED
  BY <1>2, <1>3, Zenon

\* A process is started: there is no removal, and no restart is left to happen.
LEMMA StartTaskStep ==
    ASSUME LifecycleInv, StartTask, ~StartRefused,
           act' \in [Actors -> ActorStates], rm' \in RestartManagers, restarter' \in Restarters,
           manuallyStopped' \in BOOLEAN,
           \A b \in Actors : act'[b] = act[b] \/ Moved(b),
           \A b \in Actors : wait[b] = "none" \/ act'[b] = act[b],
           UNCHANGED <<faults, registered, layer, shutdown, wait, misfired>>,
           ~misfired => restarter'.pc = "none"
    PROVE  LifecycleInv'
<1> USE DEF LifecycleInv
<1>1. /\ task' \in Tasks /\ task'.gen = task.gen + 1 /\ queue' \in Seq(Events)
      /\ manuallyRestarted' \in BOOLEAN
      /\ st' \in State /\ st'.Running /\ ~st'.Restarting /\ st'.Pid = task'.gen
      /\ SameRemoval(st, st')
  BY StartTaskTypes, Zenon
<1>2. TypeOK'
  BY <1>1, Zenon DEF TypeOK
<1>3. task.gen \in Nat
  BY SMTT(30) DEF TypeOK, Tasks
<1>4. ProcessStep
  BY <1>1, <1>3 DEF ProcessStep, StartRefused
<1>5. WaitStep
  BY Zenon DEF WaitStep, GoneInv
<1>6. RunningIfAlive' /\ RestarterInv'
  BY <1>1, SMTT(30) DEF RunningIfAlive, RestarterInv
<1>7. /\ st'.Dead = st.Dead /\ st'.RemovalInProgress = st.RemovalInProgress
      /\ layer' = layer /\ registered' = registered /\ (misfired => misfired')
  BY <1>1, Zenon DEF SameRemoval
<1> HIDE DEF LifecycleInv
<1> QED
  BY <1>2, <1>4, <1>5, <1>6, <1>7, QuietStep, Zenon

\* A start fails.
LEMMA FailedStartStep ==
    ASSUME LifecycleInv, FailEarly \/ \E err \in Errors : CreateTaskAndFail(err),
           act' \in [Actors -> ActorStates], rm' \in RestartManagers, restarter' \in Restarters,
           manuallyStopped' \in BOOLEAN,
           \A b \in Actors : act'[b] = act[b] \/ Moved(b),
           \A b \in Actors : wait[b] = "none" \/ act'[b] = act[b],
           UNCHANGED <<faults, registered, layer, shutdown, wait, misfired>>,
           restarter'.pc # "none" => restarter.pc # "none"
    PROVE  LifecycleInv'
<1> USE DEF LifecycleInv
<1>1. /\ task' \in Tasks /\ task'.gen >= task.gen /\ queue' \in Seq(Events)
      /\ Alive' => Alive /\ task'.gen = task.gen
      /\ manuallyRestarted' \in BOOLEAN
      /\ st' \in State /\ SameProcess(st, st') /\ SameRemoval(st, st')
  BY FailedStartTypes, Zenon
<1>2. TypeOK'
  BY <1>1, Zenon DEF TypeOK
<1>3. ProcessStep
  BY <1>1, Zenon DEF ProcessStep
<1>4. WaitStep
  BY Zenon DEF WaitStep, GoneInv
<1>5. RunningIfAlive' /\ RestarterInv'
  BY <1>1, Zenon DEF RunningIfAlive, RestarterInv, SameProcess
<1>6. /\ st'.Dead = st.Dead /\ st'.RemovalInProgress = st.RemovalInProgress
      /\ layer' = layer /\ registered' = registered /\ (misfired => misfired')
  BY <1>1, Zenon DEF SameRemoval
<1> HIDE DEF LifecycleInv
<1> QED
  BY <1>2, <1>3, <1>4, <1>5, <1>6, QuietStep, Zenon

LEMMA ResetTypes ==
    ASSUME TypeOK, ResetRestartManager \/ KeepRestartManager
    PROVE  /\ rm' \in RestartManagers /\ restarter' \in Restarters /\ manuallyStopped' \in BOOLEAN
           /\ restarter'.pc = restarter.pc
<1>1. NewRestartManager(0) \in RestartManagers
  BY SMTT(30) DEF NewRestartManager, RestartManagers
<1> QED
  BY <1>1, RestarterCanceled, Zenon DEF ResetRestartManager, KeepRestartManager, TypeOK

LEMMA containerStartKeepsInv ==
    ASSUME LifecycleInv, NEW a \in Actors, containerStart(a)
    PROVE  LifecycleInv'
<1> USE DEF LifecycleInv
<1>1. act[a].pc = "startLock" /\ UNCHANGED <<faults, registered, layer, shutdown, wait, misfired>>
  BY Zenon DEF containerStart, rmVars
<1>2. act[a].pc \notin WaitPcs /\ act[a].pc # "rmLayer" /\ ~act[a].inRm
  BY <1>1, Zenon DEF WaitPcs, RemovalInv, InRmPcs, RmPcs
<1>3. wait[a] = "none"
  BY <1>2, Zenon DEF GoneInv
<1>4. /\ "clearRestarted" \in Pcs /\ "clearRestarted" \notin RmPcs
      /\ "rmEnter" \in Pcs /\ "rmEnter" \notin RmPcs
  BY Zenon DEF Pcs, RmPcs
<1>5. Follows(act[a], Idle) /\ ~Claims(act[a], Idle)
  BY <1>2, ActorFits, IdleFollows, Zenon
<1>6. Follows(act[a], StartFailed(act[a])) /\ ~Claims(act[a], StartFailed(act[a]))
  BY <1>1, <1>2, <1>4, <1>5, ActorFits, AtFollows, Zenon DEF StartFailed
<1>7. Follows(act[a], StartCleanedUp(act[a])) /\ ~Claims(act[a], StartCleanedUp(act[a]))
  BY <1>1, <1>2, <1>4, <1>6, ActorFits, AtFollows, Zenon DEF StartCleanedUp
<1>8. ASSUME NEW x, Become(a, x), Follows(act[a], x), ~Claims(act[a], x)
      PROVE  /\ act' \in [Actors -> ActorStates]
             /\ \A b \in Actors : act'[b] = act[b] \/ Moved(b)
             /\ \A b \in Actors : wait[b] = "none" \/ act'[b] = act[b]
  <2>1. \A b \in Actors : act'[b] = act[b] \/ Moved(b)
    BY <1>2, <1>8, FollowsMoved, SMTT(30)
  <2> QED
    BY <1>3, <1>8, <2>1, SMTT(30) DEF TypeOK, Become, Follows
<1>9. CASE Become(a, Idle) /\ UNCHANGED <<ctrVars, task, queue>>
  BY <1>1, <1>2, <1>5, <1>9, FollowsStep, SMTT(30) DEF ctrVars, TypeOK
<1>10. CASE Become(a, StartFailed(act[a])) /\ UNCHANGED <<ctrVars, task, queue>>
  BY <1>1, <1>2, <1>6, <1>10, FollowsStep, SMTT(30) DEF ctrVars, TypeOK
<1>11. CASE /\ ~st.Running /\ ~StartRefused
            /\ StartTask /\ ResetRestartManager
            /\ Become(a, Idle)
  <2>1. ~misfired => restarter.pc = "none"
    BY <1>11, Zenon DEF RestarterInv
  <2>2. /\ rm' \in RestartManagers /\ restarter' \in Restarters /\ manuallyStopped' \in BOOLEAN
        /\ restarter'.pc = restarter.pc
    BY <1>11, ResetTypes, SMTT(30)
  <2>3. /\ act' \in [Actors -> ActorStates]
        /\ \A b \in Actors : act'[b] = act[b] \/ Moved(b)
        /\ \A b \in Actors : wait[b] = "none" \/ act'[b] = act[b]
    BY <1>5, <1>8, <1>11, Zenon
  <2>4. ~misfired => restarter'.pc = "none"
    BY <2>1, <2>2, Zenon
  <2> HIDE DEF LifecycleInv
  <2> QED
    BY <1>1, <1>11, <2>2, <2>3, <2>4, StartTaskStep, Zenon
<1>12. CASE /\ \/ FailEarly /\ (ResetRestartManager \/ KeepRestartManager)
               \/ \E err \in Errors : CreateTaskAndFail(err) /\ ResetRestartManager
            /\ Become(a, StartCleanedUp(act[a]))
  <2>1. FailEarly \/ \E err \in Errors : CreateTaskAndFail(err)
    BY <1>12, Zenon
  <2>2. ResetRestartManager \/ KeepRestartManager
    BY <1>12, Zenon
  <2>3. /\ rm' \in RestartManagers /\ restarter' \in Restarters /\ manuallyStopped' \in BOOLEAN
        /\ restarter'.pc = restarter.pc
    BY <2>2, ResetTypes, SMTT(30)
  <2>4. /\ act' \in [Actors -> ActorStates]
        /\ \A b \in Actors : act'[b] = act[b] \/ Moved(b)
        /\ \A b \in Actors : wait[b] = "none" \/ act'[b] = act[b]
    BY <1>7, <1>8, <1>12, Zenon
  <2>5. restarter'.pc # "none" => restarter.pc # "none"
    BY <2>3, Zenon
  <2> HIDE DEF LifecycleInv
  <2> QED
    BY <1>1, <2>1, <2>3, <2>4, <2>5, FailedStartStep, Zenon
<1> QED
  BY <1>9, <1>10, <1>11, <1>12, Zenon DEF containerStart

-----------------------------------------------------------------------------
(* containerRestart and containerRm *)

LEMMA RestartMarkKeepsInv ==
    ASSUME LifecycleInv, NEW a \in Actors, RestartMark(a)
    PROVE  LifecycleInv'
<1>1. act[a].pc = "restartMark" /\ "restartMark" \notin WaitPcs
  BY Zenon DEF RestartMark, WaitPcs
<1>2. "stopEnter" \in Pcs /\ "stopEnter" \in InRmPcs /\ "stopEnter" \notin RmPcs
  BY Zenon DEF Pcs, InRmPcs, RmPcs
<1>3. LET x == [At(act[a], "stopEnter") EXCEPT !.inStop = TRUE] IN
        Follows(act[a], x) /\ ~Claims(act[a], x)
  BY <1>1, <1>2, ActorFits, AtFollows, Zenon
<1> QED
  BY <1>1, <1>3, FollowsStep, Zenon DEF RestartMark, envVars, rmVars, LifecycleInv, TypeOK

LEMMA ClearRestartedKeepsInv ==
    ASSUME LifecycleInv, NEW a \in Actors, ClearRestarted(a)
    PROVE  LifecycleInv'
<1>1. act[a].pc = "clearRestarted" /\ "clearRestarted" \notin WaitPcs
  BY Zenon DEF ClearRestarted, WaitPcs
<1>2. ~act[a].inRm
  BY <1>1, Zenon DEF LifecycleInv, RemovalInv, InRmPcs, RmPcs
<1> QED
  BY <1>1, <1>2, IdleStep, Zenon DEF ClearRestarted, envVars, rmVars, LifecycleInv, TypeOK

LEMMA RmCheckKeepsInv ==
    ASSUME LifecycleInv, NEW a \in Actors, RmCheck(a)
    PROVE  LifecycleInv'
<1>1. act[a].pc = "rmCheck" /\ "rmCheck" \notin WaitPcs
  BY Zenon DEF RmCheck, WaitPcs
<1>2. act[a].inRm
  BY <1>1, Zenon DEF LifecycleInv, RemovalInv, RmPcs
<1>3. /\ {"rmReset", "killEnter", "stopEnter"} \subseteq Pcs
      /\ {"rmReset", "killEnter", "stopEnter"} \subseteq InRmPcs
  BY Zenon DEF Pcs, InRmPcs, RmPcs
<1>4. /\ Follows(act[a], At(act[a], "rmReset")) /\ ~Claims(act[a], At(act[a], "rmReset"))
      /\ Follows(act[a], At(act[a], "killEnter")) /\ ~Claims(act[a], At(act[a], "killEnter"))
  BY <1>1, <1>2, <1>3, ActorFits, AtFollows, Zenon
<1>5. LET x == [At(act[a], "stopEnter") EXCEPT !.inStop = TRUE] IN
        Follows(act[a], x) /\ ~Claims(act[a], x)
  BY <1>1, <1>2, <1>3, ActorFits, AtFollows, Zenon
<1> QED
  BY <1>1, <1>4, <1>5, FollowsStep, Zenon
     DEF RmCheck, ctrVars, envVars, rmVars, LifecycleInv, TypeOK

\* containerRm returns to its caller, and holds RemovalInProgress no more.
LEMMA AfterRmFields ==
    ASSUME NEW r \in ActorStates, Fits(r), r.op # "signal"
    PROVE  LET x == AfterRm(r) IN
             /\ x \in ActorStates /\ x.inRm = FALSE /\ x.pc \in {"clearRestarted", "idle"}
             /\ x.op # "signal" /\ x.gen <= r.gen
             /\ x.ret = "stopped" => x.gen = r.gen /\ r.ret = "stopped"
<1>1. r.gen \in Nat
  BY Zenon DEF ActorStates
<1>2. "clearRestarted" \in Pcs
  BY Zenon DEF Pcs
<1>3. CASE r.op = "restart"
  <2> DEFINE y == At(r, "clearRestarted")
  <2>1. y \in ActorStates /\ y.pc = "clearRestarted" /\ y.op = r.op /\ y.gen = r.gen /\ y.ret = r.ret
    BY <1>2, AtFields, Zenon
  <2> HIDE DEF y
  <2>2. LET x == [y EXCEPT !.inRm = FALSE] IN
          x \in ActorStates /\ x.inRm = FALSE /\ x.pc = y.pc /\ x.op = y.op /\ x.gen = y.gen
          /\ x.ret = y.ret
    BY <2>1, Zenon DEF ActorStates
  <2>3. AfterRm(r) = [y EXCEPT !.inRm = FALSE]
    BY <1>3, Zenon DEF AfterRm, y
  <2> QED
    BY <1>1, <2>1, <2>2, <2>3
<1>4. CASE r.op # "restart"
  BY <1>1, <1>4, IdleFields DEF AfterRm
<1> QED
  BY <1>3, <1>4, Zenon

\* A step of the removal that holds RemovalInProgress.
LEMMA RemovalStep ==
    ASSUME LifecycleInv, NEW a \in Actors, act[a].pc \in RmPcs,
           NEW pc \in RmPcs \ {"rmDead"}, Goto(a, pc),
           st' \in State, SameProcess(st, st'), st'.RemovalInProgress = st.RemovalInProgress,
           st.Dead => st'.Dead, st'.Dead => st.Dead \/ act[a].pc = "rmDead",
           layer' \in {"held", "taken", "released"}, registered' \in BOOLEAN,
           UNCHANGED <<manuallyStopped, manuallyRestarted, rm, restarter, envVars, shutdown, misfired>>,
           wait' \in [Actors -> {"none", "waiting", "ok", "err"}],
           \A b \in Actors : wait'[b] = wait[b] \/ (wait[b] = "waiting" /\ st'.Dead),
           pc = "rmLayer" => st'.Dead,
           pc \in {"rmFs", "rmUnregister", "rmRemoved"} => st'.Dead /\ layer' = "released",
           layer' = "taken" => pc = "rmLayer",
           ~registered' => layer' = "released" /\ st'.Dead,
           \A b \in Actors : wait[b] = "none" => wait'[b] = "none"
    PROVE  LifecycleInv'
<1> USE DEF LifecycleInv
<1>1. pc \in Pcs
  BY Zenon DEF RmPcs, Pcs
<1> DEFINE x == At(act[a], pc)
<1>2. /\ x \in ActorStates /\ x.pc = pc /\ x.op = act[a].op /\ x.inRm = act[a].inRm
      /\ x.gen = act[a].gen /\ x.ret = act[a].ret
  BY <1>1, AtFields DEF TypeOK
<1> HIDE DEF x
<1>3. /\ act' \in [Actors -> ActorStates] /\ act'[a] = x
      /\ \A b \in Actors : b # a => act'[b] = act[b]
  BY <1>2, Zenon DEF TypeOK, Goto, Become, x
<1>4. /\ \A b \in Actors : act'[b].inRm = act[b].inRm /\ act'[b].gen = act[b].gen
                           /\ act'[b].ret = act[b].ret /\ act'[b].op = act[b].op
      /\ \A b \in Actors : b # a => act'[b].pc = act[b].pc
      /\ act'[a].pc = pc
  BY <1>2, <1>3, Zenon
<1>5. act[a].inRm /\ \A b \in Actors : b # a => ~act[b].inRm /\ act[b].pc \notin RmPcs
  BY Zenon DEF RemovalInv, RemovalExclusive
<1>6. task' = task /\ queue' = queue /\ faults' = faults /\ misfired' = misfired
  BY Zenon DEF envVars
<1>7. Alive' <=> Alive
  BY <1>6, Zenon DEF Alive
<1>8. TypeOK'
  BY <1>3, <1>6, Zenon DEF TypeOK
<1>9. ~misfired /\ st'.Dead => ~Alive
  BY Zenon DEF DeadHasNoProcess, GoneInv
<1>10. DeadHasNoProcess'
  BY <1>6, <1>7, <1>9 DEF DeadHasNoProcess
<1>11. RunningIfAlive' /\ RestarterInv'
  BY <1>6, <1>7 DEF RunningIfAlive, RestarterInv, SameProcess
<1>12. RemovalInv'
  BY <1>4, <1>5 DEF RemovalInv, InRmPcs, RmPcs
<1>13. RemovalExclusive'
  BY <1>4, <1>5, Zenon DEF RemovalExclusive
<1>14. StopKills'
  <2>1. \A c \in Clients : c \in Actors
    BY Zenon DEF Actors
  <2> QED
    BY <1>4, <1>6, <1>7, <2>1 DEF StopKills
<1>15. GoneInv'
  <2> SUFFICES ASSUME NEW b \in Actors
               PROVE  /\ wait'[b] # "none" => act'[b].pc \in WaitPcs
                      /\ act'[b].gen <= task'.gen
                      /\ ~misfired' /\ wait'[b] \in {"ok", "err"}
                            => ~(Alive' /\ (act'[b].inRm \/ task'.gen <= act'[b].gen))
                      /\ ~misfired' /\ act'[b].pc = "rmDead" => ~Alive'
    BY Zenon DEF GoneInv
  <2>1. wait'[b] # "none" => act'[b].pc \in WaitPcs
    <3>1. act[a].pc \notin WaitPcs
      BY Zenon DEF RmPcs, WaitPcs
    <3> QED
      BY <1>4, <3>1, Zenon DEF GoneInv
  <2>2. act'[b].gen <= task'.gen
    BY <1>4, <1>6, Zenon DEF GoneInv
  <2>3. ~misfired' /\ wait'[b] \in {"ok", "err"}
           => ~(Alive' /\ (act'[b].inRm \/ task'.gen <= act'[b].gen))
    BY <1>4, <1>6, <1>7, <1>9, SMTT(40) DEF GoneInv
  <2>4. ~misfired' /\ act'[b].pc = "rmDead" => ~Alive'
    BY <1>4, <1>6, <1>7 DEF GoneInv
  <2> QED
    BY <2>1, <2>2, <2>3, <2>4, Zenon
<1> QED
  BY <1>8, <1>10, <1>11, <1>12, <1>13, <1>14, <1>15, Zenon

LEMMA RemovalErrorKeepsInv ==
    ASSUME LifecycleInv, NEW a \in Actors, act[a].pc \in {"rmLayer", "rmFs"},
           RemovalError(a),
           layer' \in {"held", "released"}, registered' = registered,
           ~registered => layer' = "released",
           UNCHANGED <<manuallyStopped, manuallyRestarted, rm, restarter, envVars, shutdown, misfired>>
    PROVE  LifecycleInv'
<1> USE DEF LifecycleInv
<1>1. st.Dead /\ act[a].pc \in RmPcs
  BY Zenon DEF RemovalInv, RmPcs
<1>2. /\ st' = SetRemovalError(st) /\ wait' = Notified(SetRemovalError(st)) /\ Goto(a, "rmReset")
  BY Zenon DEF RemovalError
<1>3. st' \in State /\ SameProcess(st, st') /\ SameRemoval(st, st')
  BY <1>2, RemovalFacts, Zenon DEF TypeOK
<1>4. "rmReset" \in RmPcs \ {"rmDead"}
  BY Zenon DEF RmPcs
<1> QED
  BY <1>1, <1>2, <1>3, <1>4, NotifiedFields, RemovalStep, SMTT(40) DEF SameRemoval, RemovalExclusive, TypeOK

LEMMA RmDeadKeepsInv ==
    ASSUME LifecycleInv, NEW a \in Actors, RmDead(a)
    PROVE  LifecycleInv'
<1> USE DEF LifecycleInv
<1>1. /\ act[a].pc = "rmDead" /\ st' = SetDead(st) /\ layer' = IF layer = "held" THEN "taken" ELSE layer
      /\ Goto(a, "rmLayer")
      /\ UNCHANGED <<manuallyStopped, manuallyRestarted, rm, restarter, envVars, registered, shutdown,
                     wait, misfired>>
  BY Zenon DEF RmDead
<1>2. act[a].pc \in RmPcs /\ "rmLayer" \in RmPcs \ {"rmDead"}
  BY <1>1, Zenon DEF RmPcs
<1>3. st' \in State /\ SameProcess(st, st') /\ st'.Dead /\ st'.RemovalInProgress = st.RemovalInProgress
  BY <1>1, RemovalFacts, Zenon DEF TypeOK
<1> QED
  BY <1>1, <1>2, <1>3, RemovalStep, Zenon DEF RemovalExclusive, TypeOK

LEMMA RmLayerKeepsInv ==
    ASSUME LifecycleInv, NEW a \in Actors, RmLayer(a)
    PROVE  LifecycleInv'
<1> USE DEF LifecycleInv
<1>1. /\ act[a].pc = "rmLayer"
      /\ UNCHANGED <<manuallyStopped, manuallyRestarted, rm, restarter, envVars, registered, shutdown,
                     misfired>>
  BY Zenon DEF RmLayer
<1>2. act[a].pc \in RmPcs /\ "rmFs" \in RmPcs \ {"rmDead"}
  BY <1>1, Zenon DEF RmPcs
<1>3. CASE layer' = "released" /\ Goto(a, "rmFs") /\ UNCHANGED <<st, wait>>
  BY <1>1, <1>2, <1>3, RemovalStep, Zenon DEF RemovalExclusive, RemovalInv, TypeOK, SameProcess
<1>4. CASE layer = "taken" /\ layer' = "held" /\ RemovalError(a)
  BY <1>1, <1>4, RemovalErrorKeepsInv, Zenon DEF RemovalExclusive, TypeOK
<1> QED
  BY <1>3, <1>4, Zenon DEF RmLayer

LEMMA RmFsKeepsInv ==
    ASSUME LifecycleInv, NEW a \in Actors, RmFs(a)
    PROVE  LifecycleInv'
<1> USE DEF LifecycleInv
<1>1. /\ act[a].pc = "rmFs"
      /\ UNCHANGED <<manuallyStopped, manuallyRestarted, rm, restarter, envVars, registered, layer,
                     shutdown, misfired>>
  BY Zenon DEF RmFs, rmVars
<1>2. act[a].pc \in RmPcs /\ "rmUnregister" \in RmPcs \ {"rmDead"} /\ st.Dead /\ layer = "released"
  BY <1>1, Zenon DEF RmPcs, RemovalInv
<1>3. CASE Goto(a, "rmUnregister") /\ UNCHANGED <<st, wait>>
  BY <1>1, <1>2, <1>3, RemovalStep, Zenon DEF TypeOK, SameProcess
<1>4. CASE RemovalError(a)
  BY <1>1, <1>2, <1>4, RemovalErrorKeepsInv, Zenon DEF TypeOK
<1> QED
  BY <1>3, <1>4, Zenon DEF RmFs

LEMMA RmUnregisterKeepsInv ==
    ASSUME LifecycleInv, NEW a \in Actors, RmUnregister(a)
    PROVE  LifecycleInv'
<1> USE DEF LifecycleInv
<1>1. /\ act[a].pc = "rmUnregister" /\ registered' = FALSE /\ Goto(a, "rmRemoved")
      /\ UNCHANGED <<st, manuallyStopped, manuallyRestarted, rm, restarter, envVars, layer,
                     shutdown, wait, misfired>>
  BY Zenon DEF RmUnregister, ctrVars
<1>2. act[a].pc \in RmPcs /\ "rmRemoved" \in RmPcs \ {"rmDead"} /\ st.Dead /\ layer = "released"
  BY <1>1, Zenon DEF RmPcs, RemovalInv
<1> QED
  BY <1>1, <1>2, RemovalStep, Zenon DEF TypeOK, SameProcess

LEMMA RmRemovedKeepsInv ==
    ASSUME LifecycleInv, NEW a \in Actors, RmRemoved(a)
    PROVE  LifecycleInv'
<1> USE DEF LifecycleInv
<1>1. /\ act[a].pc = "rmRemoved" /\ st' = SetRemoved(st) /\ wait' = Notified(SetRemoved(st))
      /\ Goto(a, "rmReset")
      /\ UNCHANGED <<manuallyStopped, manuallyRestarted, rm, restarter, envVars, registered, layer,
                     shutdown, misfired>>
  BY Zenon DEF RmRemoved, rmVars
<1>2. act[a].pc \in RmPcs /\ "rmReset" \in RmPcs \ {"rmDead"} /\ st.Dead /\ layer = "released"
  BY <1>1, Zenon DEF RmPcs, RemovalInv
<1>3. st' \in State /\ SameProcess(st, st') /\ SameRemoval(st, st')
  BY <1>1, RemovalFacts, Zenon DEF TypeOK
<1> QED
  BY <1>1, <1>2, <1>3, NotifiedFields, RemovalStep, Zenon DEF TypeOK, SameRemoval

\* RemovalInProgress is set by the actor that takes it and reset by the one that has it.
LEMMA HolderStep ==
    ASSUME LifecycleInv, NEW a \in Actors, NEW x \in ActorStates, Become(a, x), Fits(x),
           act[a].pc \notin WaitPcs, act[a].pc # "rmLayer",
           \A b \in Actors : b # a => ~act[b].inRm,
           st' \in State, SameProcess(st, st'), st'.Dead = st.Dead,
           st'.RemovalInProgress <=> x.inRm,
           x.pc \notin {"rmDead", "rmLayer", "rmFs", "rmUnregister", "rmRemoved"},
           x.gen <= act[a].gen,
           x.ret = "stopped" => act[a].ret = "stopped" /\ x.gen = act[a].gen,
           UNCHANGED <<manuallyStopped, manuallyRestarted, rm, restarter, task, queue, faults,
                       registered, layer, shutdown, wait, misfired>>
    PROVE  LifecycleInv'
<1> USE DEF LifecycleInv
<1>1. /\ act' \in [Actors -> ActorStates] /\ act'[a] = x
      /\ \A b \in Actors : b # a => act'[b] = act[b]
  BY Zenon DEF TypeOK, Become
<1>2. Alive' <=> Alive
  BY Zenon DEF Alive
<1>3. TypeOK'
  BY <1>1, Zenon DEF TypeOK
<1>4. DeadHasNoProcess' /\ RunningIfAlive' /\ RestarterInv'
  BY <1>2, Zenon DEF DeadHasNoProcess, RunningIfAlive, RestarterInv, SameProcess
<1>5. RemovalInv'
  <2> SUFFICES ASSUME NEW b \in Actors
               PROVE  /\ act'[b].inRm => st'.RemovalInProgress /\ act'[b].pc \in InRmPcs
                      /\ act'[b].pc \in RmPcs => act'[b].inRm
                      /\ act'[b].op = "signal" => act'[b].pc = "killSignal" /\ ~act'[b].inRm
                      /\ act'[b].pc = "rmLayer" => st'.Dead
                      /\ act'[b].pc \in {"rmFs", "rmUnregister", "rmRemoved"}
                              => st'.Dead /\ layer' = "released"
    BY Zenon DEF RemovalInv
  <2>1. CASE b = a
    BY <1>1, <2>1, Zenon DEF Fits
  <2>2. CASE b # a
    BY <1>1, <2>2, Zenon DEF RemovalInv
  <2> QED
    BY <2>1, <2>2, Zenon
<1>6. RemovalExclusive'
  BY <1>1, Zenon DEF RemovalExclusive
<1>7. GoneInv'
  <2> SUFFICES ASSUME NEW b \in Actors
               PROVE  /\ wait'[b] # "none" => act'[b].pc \in WaitPcs
                      /\ act'[b].gen <= task'.gen
                      /\ ~misfired' /\ wait'[b] \in {"ok", "err"}
                            => ~(Alive' /\ (act'[b].inRm \/ task'.gen <= act'[b].gen))
                      /\ ~misfired' /\ act'[b].pc = "rmDead" => ~Alive'
    BY Zenon DEF GoneInv
  <2>1. CASE b = a
    <3>1. wait[a] = "none"
      BY Zenon DEF GoneInv
    <3>2. x.gen \in Nat /\ act[a].gen \in Nat /\ task.gen \in Nat /\ act[a].gen <= task.gen
      BY Zenon DEF TypeOK, Tasks, ActorStates, GoneInv
    <3>3. x.gen <= task.gen
      BY <3>2, SMTT(30)
    <3> QED
      BY <1>1, <2>1, <3>1, <3>3, Zenon
  <2>2. CASE b # a
    BY <1>1, <1>2, <2>2, Zenon DEF GoneInv
  <2> QED
    BY <2>1, <2>2, Zenon
<1>8. StopKills'
  <2> SUFFICES ASSUME NEW c \in Clients, ~misfired', act'[c].ret = "stopped"
               PROVE  ~(Alive' /\ task'.gen <= act'[c].gen)
    BY SMTT(30) DEF StopKills
  <2>1. c \in Actors
    BY SMTT(30) DEF Actors
  <2>2. CASE c = a
    BY <1>1, <1>2, <2>2, Zenon DEF StopKills
  <2>3. CASE c # a
    BY <1>1, <1>2, <2>1, <2>3, Zenon DEF StopKills
  <2> QED
    BY <2>2, <2>3, Zenon
<1> QED
  BY <1>3, <1>4, <1>5, <1>6, <1>7, <1>8, Zenon

LEMMA RmEnterKeepsInv ==
    ASSUME LifecycleInv, NEW a \in Actors, RmEnter(a)
    PROVE  LifecycleInv'
<1> USE DEF LifecycleInv
<1>1. /\ act[a].pc = "rmEnter"
      /\ UNCHANGED <<manuallyStopped, manuallyRestarted, rm, restarter, task, queue, faults,
                     registered, layer, shutdown, wait, misfired>>
  BY Zenon DEF RmEnter, envVars, rmVars
<1>2. /\ act[a].pc \notin WaitPcs /\ act[a].pc # "rmLayer" /\ act[a].pc # "killSignal"
      /\ ~act[a].inRm
  BY <1>1, Zenon DEF WaitPcs, RemovalInv, InRmPcs, RmPcs
<1>3. CASE Become(a, AfterRm(act[a])) /\ UNCHANGED st
  <2> DEFINE x == AfterRm(act[a])
  <2>1. /\ x \in ActorStates /\ x.inRm = FALSE /\ x.pc \in {"clearRestarted", "idle"}
        /\ x.op # "signal" /\ x.gen <= act[a].gen
        /\ x.ret = "stopped" => x.gen = act[a].gen /\ act[a].ret = "stopped"
    BY <1>2, ActorFits, AfterRmFields, Zenon
  <2> HIDE DEF x
  <2>2. act[a].inRm = FALSE
    BY <1>2, Zenon DEF TypeOK, ActorStates
  <2>3. Follows(act[a], x) /\ ~Claims(act[a], x)
    BY <2>1, <2>2, ZenonT(30) DEF Follows, Claims, Fits, RmPcs
  <2> QED
    BY <1>1, <1>2, <1>3, <2>3, FollowsStep, Zenon DEF x, TypeOK
<1>4. CASE /\ ~st.RemovalInProgress /\ st' = SetRemovalInProgress(st)
           /\ Become(a, [At(act[a], "rmCheck") EXCEPT !.inRm = TRUE])
  <2>1. "rmCheck" \in Pcs /\ "rmCheck" \in InRmPcs
    BY Zenon DEF Pcs, InRmPcs, RmPcs
  <2> DEFINE y == At(act[a], "rmCheck")
             x == [y EXCEPT !.inRm = TRUE]
  <2>2. /\ y \in ActorStates /\ y.pc = "rmCheck" /\ y.op = act[a].op /\ y.gen = act[a].gen
        /\ y.ret = act[a].ret
    BY <2>1, AtFields, Zenon DEF TypeOK
  <2> HIDE DEF y
  <2>3. /\ x \in ActorStates /\ x.pc = y.pc /\ x.op = y.op /\ x.gen = y.gen /\ x.ret = y.ret
        /\ x.inRm
    BY <2>2, Zenon DEF ActorStates
  <2> HIDE DEF x
  <2>4. act[a].op # "signal" /\ act[a].gen \in Nat
    BY <1>2, ActorFits, Zenon DEF ActorStates
  <2>5. Fits(x)
    BY <2>1, <2>2, <2>3, <2>4, Zenon DEF Fits
  <2>6. \A b \in Actors : b # a => ~act[b].inRm
    BY <1>4, Zenon DEF RemovalInv
  <2>7. st' \in State /\ SameProcess(st, st') /\ st'.Dead = st.Dead /\ st'.RemovalInProgress
    BY <1>4, RemovalFacts, Zenon DEF TypeOK
  <2>8. Become(a, x)
    BY <1>4, Zenon DEF x, y
  <2>9. /\ st'.RemovalInProgress <=> x.inRm
        /\ x.pc \notin {"rmDead", "rmLayer", "rmFs", "rmUnregister", "rmRemoved"}
        /\ x.gen <= act[a].gen
        /\ x.ret = "stopped" => act[a].ret = "stopped" /\ x.gen = act[a].gen
    BY <2>2, <2>3, <2>4, <2>7, SMTT(30)
  <2> HIDE DEF LifecycleInv
  <2> QED
    BY <1>1, <1>2, <2>3, <2>5, <2>6, <2>7, <2>8, <2>9, HolderStep, Zenon
<1> QED
  BY <1>3, <1>4, Zenon DEF RmEnter

LEMMA RmResetKeepsInv ==
    ASSUME LifecycleInv, NEW a \in Actors, RmReset(a)
    PROVE  LifecycleInv'
<1> USE DEF LifecycleInv
<1>1. /\ act[a].pc = "rmReset" /\ st' = ResetRemovalInProgress(st) /\ Become(a, AfterRm(act[a]))
      /\ UNCHANGED <<manuallyStopped, manuallyRestarted, rm, restarter, task, queue, faults,
                     registered, layer, shutdown, wait, misfired>>
  BY Zenon DEF RmReset, envVars, rmVars
<1>2. /\ act[a].pc \notin WaitPcs /\ act[a].pc # "rmLayer" /\ act[a].pc # "killSignal"
      /\ act[a].inRm
  BY <1>1, Zenon DEF WaitPcs, RemovalInv, RmPcs
<1> DEFINE x == AfterRm(act[a])
<1>3. /\ x \in ActorStates /\ x.inRm = FALSE /\ x.pc \in {"clearRestarted", "idle"}
      /\ x.op # "signal" /\ x.gen <= act[a].gen
      /\ x.ret = "stopped" => x.gen = act[a].gen /\ act[a].ret = "stopped"
  BY <1>2, ActorFits, AfterRmFields, Zenon
<1> HIDE DEF x
<1>4. Fits(x)
  BY <1>3, Zenon DEF Fits, RmPcs
<1>5. \A b \in Actors : b # a => ~act[b].inRm
  BY <1>2, Zenon DEF RemovalExclusive
<1>6. st' \in State /\ SameProcess(st, st') /\ st'.Dead = st.Dead /\ ~st'.RemovalInProgress
  BY <1>1, RemovalFacts, Zenon DEF TypeOK
<1>7. Become(a, x)
  BY <1>1, Zenon DEF x
<1>8. (st'.RemovalInProgress <=> x.inRm) /\ x.pc \notin {"rmDead", "rmLayer", "rmFs", "rmUnregister", "rmRemoved"}
  BY <1>3, <1>6, Zenon
<1> HIDE DEF LifecycleInv
<1> QED
  BY <1>1, <1>2, <1>3, <1>4, <1>5, <1>6, <1>7, <1>8, HolderStep, Zenon

-----------------------------------------------------------------------------
(* handleContainerExit and the events *)

LEMMA ExitHandledKeepsInv ==
    ASSUME LifecycleInv, NEW a \in Actors, act[a].pc \in {"idle", "reapExit"},
           NEW e \in Events, ExitHandled(a, e), queue' \in Seq(Events),
           UNCHANGED <<manuallyStopped, manuallyRestarted, faults, registered, layer, shutdown>>
    PROVE  LifecycleInv'
<1> USE DEF LifecycleInv
<1> DEFINE exitCode == IF e # NoEvent THEN e.code
                       ELSE IF task.status = "stopped" THEN task.code ELSE 0
           restart == ShouldRestart(exitCode)
           new == IF restart THEN SetRestarting(st, exitCode) ELSE SetStopped(st, exitCode)
           x == IF ~restart /\ AutoRemove /\ ~manuallyRestarted
                THEN Call("autorm", "rmEnter", FALSE, 0) ELSE Idle
<1>1. exitCode \in AllCodes
  BY Constants, Zenon DEF Events, TypeOK, Tasks
<1>2. /\ task' = IF task.status = "stopped" THEN [task EXCEPT !.status = "none"] ELSE task
      /\ st' = new /\ wait' = Notified(new)
      /\ rm' = IF restart THEN [rm EXCEPT !.active = TRUE, !.restartCount = @ + 1] ELSE rm
      /\ restarter' = IF restart /\ restarter.pc = "none"
                      THEN [pc |-> "waiting", canceled |-> FALSE, code |-> exitCode]
                      ELSE restarter
      /\ Become(a, x)
      /\ misfired' = (misfired \/ Alive \/ st.Restarting \/ (e = NoEvent /\ task.status = "none"))
  BY Zenon DEF ExitHandled
<1> HIDE DEF exitCode
<1>3. /\ st' \in State /\ SameRemoval(st, st') /\ (restart => st'.Running /\ st'.Restarting)
  BY <1>1, <1>2, SetStoppedFacts, Zenon DEF TypeOK
<1>4. task.gen \in Nat /\ rm.restartCount \in Nat
  BY Zenon DEF TypeOK, Tasks, RestartManagers
<1>5. task' \in Tasks /\ task'.gen = task.gen /\ (Alive' <=> Alive)
  <2>1. CASE task.status = "stopped"
    <3>1. task' = [task EXCEPT !.status = "none"]
      BY <1>2, <2>1, Zenon
    <3>2. task' \in Tasks /\ task'.gen = task.gen /\ task'.status = "none"
      BY <3>1, TaskStatus, Zenon DEF TypeOK
    <3> QED
      BY <2>1, <3>2, Zenon DEF Alive
  <2>2. CASE task.status # "stopped"
    BY <1>2, <2>2, Zenon DEF TypeOK, Alive
  <2> QED
    BY <2>1, <2>2, Zenon
<1>6. rm' \in RestartManagers
  <2>1. rm.restartCount + 1 \in Nat
    BY <1>4
  <2>2. [rm EXCEPT !.active = TRUE, !.restartCount = @ + 1] \in RestartManagers
    BY <2>1, Zenon DEF TypeOK, RestartManagers
  <2> QED
    BY <1>2, <2>2, Zenon DEF TypeOK
<1>7. restarter' \in Restarters
  <2>1. [pc |-> "waiting", canceled |-> FALSE, code |-> exitCode] \in Restarters
    BY <1>1, Zenon DEF Restarters
  <2> QED
    BY <1>2, <2>1, Zenon DEF TypeOK
<1>8. "rmEnter" \in Pcs /\ 0 \in Nat /\ "rmEnter" \notin RmPcs /\ "idle" \notin RmPcs
  BY Zenon DEF Pcs, RmPcs
<1>9. LET y == Call("autorm", "rmEnter", FALSE, 0) IN
        y \in ActorStates /\ y.op = "autorm" /\ y.pc = "rmEnter" /\ y.inRm = FALSE /\ y.gen = 0
        /\ y.ret = "none"
  BY <1>8, Zenon DEF Call, ActorStates
<1>10. /\ x \in ActorStates /\ ~x.inRm /\ x.pc \notin RmPcs /\ x.ret # "stopped" /\ x.gen = 0
       /\ x.op # "signal"
  BY <1>8, <1>9, IdleFields, Zenon
<1> HIDE DEF x
<1>11. ~act[a].inRm /\ act[a].pc \notin WaitPcs
  BY Zenon DEF RemovalInv, InRmPcs, RmPcs, WaitPcs
<1>12. \A b \in Actors : act'[b] = act[b] \/ Moved(b)
  BY <1>2, <1>4, <1>10, <1>11, FreshMoved
<1>13. /\ act' \in [Actors -> ActorStates]
       /\ \A b \in Actors : b # a => act'[b] = act[b]
  BY <1>2, <1>10, Zenon DEF TypeOK, Become
<1>14. /\ wait' \in [Actors -> {"none", "waiting", "ok", "err"}]
       /\ \A b \in Actors : wait[b] = "none" <=> wait'[b] = "none"
  BY <1>2, NotifiedFields, Zenon
<1>15. misfired' \in BOOLEAN /\ (misfired => misfired') /\ (~misfired' => ~Alive /\ ~st.Restarting)
  BY <1>2, Zenon
<1>16. TypeOK'
  BY <1>3, <1>5, <1>6, <1>7, <1>13, <1>14, <1>15, Zenon DEF TypeOK
<1>17. ProcessStep
  BY <1>4, <1>5 DEF ProcessStep
<1>18. WaitStep
  <2>1. wait[a] = "none"
    BY <1>11, Zenon DEF GoneInv
  <2> QED
    BY <1>5, <1>13, <1>14, <1>15, <2>1, Zenon DEF WaitStep, GoneInv
<1>19. RunningIfAlive'
  BY <1>5, <1>15, Zenon DEF RunningIfAlive
<1>20. RestarterInv'
  <2> SUFFICES ASSUME ~misfired', restarter'.pc # "none"
               PROVE  st'.Running /\ st'.Restarting /\ ~Alive'
    BY Zenon DEF RestarterInv
  <2>1. restarter.pc = "none"
    BY <1>15, Zenon DEF RestarterInv
  <2>2. restart
    BY <1>2, <2>1, Zenon
  <2> QED
    BY <1>3, <1>5, <1>15, <2>2, Zenon
<1> QED
  BY <1>3, <1>12, <1>15, <1>16, <1>17, <1>18, <1>19, <1>20, QuietStep, Zenon DEF SameRemoval

LEMMA handleContainerExitKeepsInv ==
    ASSUME LifecycleInv, NEW a \in Actors, act[a].pc \in {"idle", "reapExit"},
           NEW e \in Events, handleContainerExit(a, e), queue' \in Seq(Events)
    PROVE  LifecycleInv'
<1> USE DEF LifecycleInv
<1>1. UNCHANGED <<manuallyStopped, manuallyRestarted, faults, registered, layer, shutdown>>
  BY Zenon DEF handleContainerExit, rmVars
<1>2. CASE ExitHandled(a, e)
  BY <1>1, <1>2, ExitHandledKeepsInv, Zenon
<1>3. CASE Become(a, Idle) /\ UNCHANGED <<st, rm, restarter, task, wait, misfired>>
  <2>1. ~act[a].inRm /\ act[a].pc \notin WaitPcs
    BY Zenon DEF RemovalInv, InRmPcs, RmPcs, WaitPcs
  <2>2. task.gen \in Nat
    BY Zenon DEF TypeOK, Tasks
  <2>3. Idle \in ActorStates /\ Idle.gen <= task.gen /\ ~Idle.inRm /\ Idle.pc \notin RmPcs
        /\ Idle.ret # "stopped" /\ Idle.op # "signal"
    BY <2>2, IdleFields DEF RmPcs
  <2>4. \A b \in Actors : act'[b] = act[b] \/ Moved(b)
    BY <1>3, <2>1, <2>3, FreshMoved, Zenon
  <2>5. TypeOK'
    BY <1>1, <1>3, <2>3, Zenon DEF TypeOK, Become
  <2>6. \A b \in Actors : wait'[b] = "none" \/ (wait'[b] = wait[b] /\ act'[b] = act[b])
    BY <1>3, <2>1, Zenon DEF TypeOK, Become, GoneInv
  <2> QED
    BY <1>1, <1>3, <2>4, <2>5, <2>6, MoveStep, Zenon DEF Alive
<1> QED
  BY <1>2, <1>3, Zenon DEF handleContainerExit

LEMMA NextEventTypes ==
    ASSUME TypeOK, NEW type, NextEvent(type)
    PROVE  queue' \in Seq(Events) /\ Head(queue) \in Events
<1> QED
  BY DEF TypeOK, NextEvent

\* An event, or the restart goroutine, changes the state and no actor.
LEMMA StateStep ==
    ASSUME LifecycleInv, TypeOK', SameRemoval(st, st'), act' = act,
           layer' = layer, registered' = registered, misfired' = misfired, ProcessStep,
           wait' = wait \/ (~misfired => ~Alive'),
           \A b \in Actors : wait[b] = "none" => wait'[b] = "none",
           RunningIfAlive', RestarterInv'
    PROVE  LifecycleInv'
<1>1. WaitStep
  BY Zenon DEF WaitStep, LifecycleInv, GoneInv
<1> QED
  BY <1>1, QuietStep, Zenon DEF SameRemoval

LEMMA EventStepKeepsInv ==
    ASSUME LifecycleInv, EventStep
    PROVE  LifecycleInv'
<1> USE DEF LifecycleInv
<1>0. "events" \in Actors /\ task.gen \in Nat
  BY Zenon DEF Actors, Goroutines, TypeOK, Tasks
<1>1. CASE EventExit
  <2>1. queue' \in Seq(Events) /\ Head(queue) \in Events /\ act["events"].pc = "idle"
    BY <1>1, NextEventTypes, Zenon DEF EventExit, NextEvent
  <2> QED
    BY <1>0, <1>1, <2>1, handleContainerExitKeepsInv, Zenon DEF EventExit
<1>2. CASE EventStart
  <2>1. queue' \in Seq(Events)
    BY <1>2, NextEventTypes, Zenon DEF EventStart
  <2>2. UNCHANGED <<manuallyRestarted, rm, restarter, task, faults, registered, layer, shutdown,
                    act, wait, misfired>>
    BY <1>2, Zenon DEF EventStart, rmVars
  <2>3. Alive' <=> Alive
    BY <2>2, Zenon DEF Alive
  <2>4. ProcessStep
    BY <1>0, <2>2, <2>3 DEF ProcessStep
  <2>5. CASE ~st.Running /\ st' = SetRunningExternal(st, task.gen) /\ manuallyStopped' = FALSE
    <3>1. st' \in State /\ st'.Running /\ ~st'.Restarting /\ st'.Pid = task.gen /\ SameRemoval(st, st')
      BY <1>0, <2>5, SetRunningFacts, Zenon DEF TypeOK
    <3>2. TypeOK'
      BY <2>1, <2>2, <2>5, <3>1, Zenon DEF TypeOK
    <3>3. RunningIfAlive'
      BY <2>2, <3>1, Zenon DEF RunningIfAlive
    <3>4. RestarterInv'
      BY <2>2, <2>5, Zenon DEF RestarterInv
    <3> QED
      BY <2>2, <2>4, <3>1, <3>2, <3>3, <3>4, StateStep, Zenon
  <2>6. CASE UNCHANGED <<st, manuallyStopped>>
    <3>1. TypeOK'
      BY <2>1, <2>2, <2>6, Zenon DEF TypeOK
    <3>2. RunningIfAlive' /\ RestarterInv' /\ SameRemoval(st, st')
      BY <2>2, <2>3, <2>6, Zenon DEF RunningIfAlive, RestarterInv, SameRemoval
    <3> QED
      BY <2>2, <2>4, <3>1, <3>2, StateStep, Zenon
  <2> QED
    BY <1>2, <2>5, <2>6, Zenon DEF EventStart
<1>3. ASSUME UNCHANGED <<manuallyStopped, manuallyRestarted, rm, restarter, task, faults, rmVars, act,
                         wait, misfired>>,
             queue' \in Seq(Events),
             st' \in State, SameProcess(st, st'), SameRemoval(st, st')
      PROVE  LifecycleInv'
  <2>1. Alive' <=> Alive
    BY <1>3, Zenon DEF Alive
  <2>2. ProcessStep
    BY <1>0, <1>3, <2>1 DEF ProcessStep
  <2>3. TypeOK'
    BY <1>3, Zenon DEF TypeOK, rmVars
  <2>4. RunningIfAlive' /\ RestarterInv'
    BY <1>3, <2>1, Zenon DEF RunningIfAlive, RestarterInv, SameProcess
  <2> QED
    BY <1>3, <2>2, <2>3, <2>4, StateStep, Zenon DEF rmVars
<1>4. CASE EventPaused
  BY <1>3, <1>4, NextEventTypes, SetPausedFacts, Zenon DEF EventPaused, TypeOK
<1>5. CASE EventResumed
  BY <1>3, <1>5, NextEventTypes, SetPausedFacts, Zenon DEF EventResumed, TypeOK
<1>6. CASE EventDropped
  <2>1. queue' \in Seq(Events)
    BY <1>6, NextEventTypes, Zenon DEF EventDropped
  <2> QED
    BY <1>3, <1>6, <2>1, Zenon DEF EventDropped, ctrVars, TypeOK, SameProcess, SameRemoval
<1> QED
  BY <1>1, <1>2, <1>4, <1>5, <1>6, Zenon DEF EventStep

LEMMA ReapExitKeepsInv ==
    ASSUME LifecycleInv, ReapExit
    PROVE  LifecycleInv'
<1>1. "reaper" \in Actors /\ queue' \in Seq(Events)
  BY Zenon DEF Actors, Goroutines, ReapExit, LifecycleInv, TypeOK
<1>2. NoEvent \in Events
  BY Constants, QueueOps, Zenon DEF NoEvent, LifecycleInv, TypeOK
<1> QED
  BY <1>1, <1>2, handleContainerExitKeepsInv, Zenon DEF ReapExit

LEMMA ProcessExitKeepsInv ==
    ASSUME LifecycleInv, NEW code \in AllCodes \ {exitUnknown}, NEW copies \in 0..2,
           ProcessExit(code, copies)
    PROVE  LifecycleInv'
<1> USE DEF LifecycleInv
<1>1. /\ task' = [task EXCEPT !.status = "stopped", !.code = code, !.sig = "none",
                              !.lost = (copies = 0)]
      /\ queue' = queue \o [i \in 1..copies |-> Event("exit", task.gen, code)]
      /\ faults' = IF copies = 1 THEN faults ELSE faults + 1
      /\ UNCHANGED <<ctrVars, rmVars, act, wait, misfired>>
  BY Zenon DEF ProcessExit
<1>2. (copies = 0) \in BOOLEAN /\ task.gen \in Nat
  BY Zenon DEF TypeOK, Tasks
<1>3. task' \in Tasks /\ task'.gen = task.gen /\ task'.status = "stopped"
  BY <1>1, <1>2, Zenon DEF TypeOK, Tasks
<1>4. ~Alive'
  BY <1>3, Zenon DEF Alive
<1>5. Event("exit", task.gen, code) \in Events
  BY <1>2, QueueOps, Zenon DEF TypeOK
<1>6. [i \in 1..copies |-> Event("exit", task.gen, code)] \in Seq(Events)
  BY <1>5
<1>7. queue' \in Seq(Events) /\ faults' \in Nat
  <2>1. queue \in Seq(Events) /\ faults \in Nat
    BY Zenon DEF TypeOK
  <2> HIDE DEF Events
  <2>2. queue \o [i \in 1..copies |-> Event("exit", task.gen, code)] \in Seq(Events)
    BY <1>6, <2>1
  <2> QED
    BY <1>1, <2>1, <2>2, SMTT(30)
<1>8. TypeOK'
  BY <1>1, <1>3, <1>7, Zenon DEF TypeOK, ctrVars, rmVars
<1>9. ProcessStep
  BY <1>2, <1>3, <1>4 DEF ProcessStep
<1>10. RunningIfAlive' /\ RestarterInv' /\ SameRemoval(st, st')
  BY <1>1, <1>4, Zenon DEF RunningIfAlive, RestarterInv, SameRemoval, ctrVars
<1> QED
  BY <1>1, <1>8, <1>9, <1>10, StateStep, Zenon DEF rmVars

-----------------------------------------------------------------------------
(* the restart goroutine *)

\* Where the restart goroutine goes.
LEMMA RestarterAt ==
    ASSUME NEW r \in Restarters, NEW pc \in {"none", "waiting", "fired", "failed"}
    PROVE  LET x == [r EXCEPT !.pc = pc] IN x \in Restarters /\ x.pc = pc
  BY Zenon DEF Restarters

LEMMA RestarterStepKeepsInv ==
    ASSUME LifecycleInv, RestarterStep
    PROVE  LifecycleInv'
<1> USE DEF LifecycleInv
<1>0. task.gen \in Nat /\ restarter.code \in AllCodes
  BY Zenon DEF TypeOK, Tasks, Restarters
<1>1. ASSUME UNCHANGED <<st, manuallyStopped, manuallyRestarted, envVars, rmVars, act, wait, misfired>>,
             rm' \in RestartManagers, restarter' \in Restarters, restarter.pc # "none"
      PROVE  LifecycleInv'
  <2>1. task' = task /\ queue' = queue /\ faults' = faults
    BY <1>1, Zenon DEF envVars
  <2>2. Alive' <=> Alive
    BY <2>1, Zenon DEF Alive
  <2>3. ProcessStep
    BY <1>0, <2>1, <2>2 DEF ProcessStep
  <2>4. TypeOK'
    BY <1>1, <2>1, Zenon DEF TypeOK, rmVars
  <2>5. RunningIfAlive' /\ RestarterInv' /\ SameRemoval(st, st')
    BY <1>1, <2>1, <2>2, Zenon DEF RunningIfAlive, RestarterInv, SameRemoval
  <2> QED
    BY <1>1, <2>3, <2>4, <2>5, StateStep, Zenon DEF rmVars
<1>2. CASE RestartTimer
  <2>1. [rm EXCEPT !.active = FALSE] \in RestartManagers
    BY Zenon DEF TypeOK, RestartManagers
  <2>2. rm' \in RestartManagers /\ restarter' \in Restarters
    BY <1>2, <2>1, RestarterAt, Zenon DEF RestartTimer, TypeOK
  <2> QED
    BY <1>1, <1>2, <2>2, Zenon DEF RestartTimer
<1>3. CASE RestartCanceled
  <2>1. rm' \in RestartManagers /\ restarter' \in Restarters
    BY <1>3, RestarterAt, Zenon DEF RestartCanceled, TypeOK
  <2> QED
    BY <1>1, <1>3, <2>1, Zenon DEF RestartCanceled
<1>4. CASE RestarterStart
  <2>1. /\ restarter.pc = "fired"
        /\ UNCHANGED <<manuallyStopped, rm, faults, rmVars, act, wait, misfired>>
    BY <1>4, Zenon DEF RestarterStart
  <2>2. \A b \in Actors : act'[b] = act[b]
    BY <2>1, Zenon
  <2>3. CASE /\ restarter' = [restarter EXCEPT !.pc = "failed"]
             /\ UNCHANGED <<st, manuallyRestarted, task, queue>>
    <3>1. restarter' \in Restarters
      BY <2>3, RestarterAt, Zenon DEF TypeOK
    <3> QED
      BY <1>1, <2>1, <2>3, <3>1 DEF envVars, TypeOK
  <2>4. CASE ~StartRefused /\ StartTask /\ restarter' = [restarter EXCEPT !.pc = "none"]
    <3>1. restarter' \in Restarters /\ restarter'.pc = "none"
      BY <2>4, RestarterAt, Zenon DEF TypeOK
    <3> QED
      BY <2>1, <2>2, <2>4, <3>1, StartTaskStep DEF TypeOK, rmVars
  <2>5. CASE /\ FailEarly \/ \E err \in Errors : CreateTaskAndFail(err)
             /\ restarter' = [restarter EXCEPT !.pc = "failed"]
    <3>1. restarter' \in Restarters
      BY <2>5, RestarterAt, Zenon DEF TypeOK
    <3> QED
      BY <2>1, <2>2, <2>5, <3>1, FailedStartStep DEF TypeOK, rmVars
  <2> QED
    BY <1>4, <2>3, <2>4, <2>5, Zenon DEF RestarterStart
<1>5. CASE RestarterFailed
  <2>1. /\ restarter.pc = "failed" /\ restarter' = [restarter EXCEPT !.pc = "none"]
        /\ st' = SetStopped(st, restarter.code)
        /\ wait' = Notified(SetStopped(st, restarter.code))
        /\ UNCHANGED <<manuallyStopped, manuallyRestarted, rm, envVars, rmVars, act, misfired>>
    BY <1>5, Zenon DEF RestarterFailed
  <2>2. restarter' \in Restarters /\ restarter'.pc = "none"
    BY <2>1, RestarterAt, Zenon DEF TypeOK
  <2>3. st' \in State /\ SameRemoval(st, st')
    BY <1>0, <2>1, SetStoppedFacts, Zenon DEF TypeOK
  <2>4. /\ wait' \in [Actors -> {"none", "waiting", "ok", "err"}]
        /\ \A b \in Actors : wait[b] = "none" => wait'[b] = "none"
    BY <2>1, NotifiedFields, Zenon
  <2>5. Alive' <=> Alive
    BY <2>1, Zenon DEF Alive, envVars
  <2>6. ~misfired => ~Alive'
    BY <2>1, <2>5, Zenon DEF RestarterInv
  <2>7. TypeOK'
    BY <2>1, <2>2, <2>3, <2>4 DEF TypeOK, envVars, rmVars
  <2>8. ProcessStep
    BY <1>0, <2>1, <2>5 DEF ProcessStep, envVars
  <2>9. RunningIfAlive' /\ RestarterInv'
    BY <2>1, <2>2, <2>6, Zenon DEF RunningIfAlive, RestarterInv
  <2> QED
    BY <2>1, <2>3, <2>4, <2>6, <2>7, <2>8, <2>9, StateStep, Zenon DEF rmVars
<1> QED
  BY <1>2, <1>3, <1>4, <1>5, Zenon DEF RestarterStep

-----------------------------------------------------------------------------
(* Theorems *)

\* Initially the invariant holds.
LEMMA InitInv == Init => LifecycleInv
<1> SUFFICES ASSUME Init PROVE LifecycleInv
  BY Zenon
<1>1. st = NewState /\ st \in State
  BY NewStateType, Zenon DEF Init
<1>2. rm \in RestartManagers
  BY Zenon DEF Init, NewRestartManager, RestartManagers
<1>3. restarter \in Restarters /\ restarter.pc = "none"
  BY Constants, Zenon DEF Init, Restarters
<1>4. task \in Tasks /\ task.status = "none" /\ task.gen = 0
  BY Constants, Zenon DEF Init, Tasks
<1>5. /\ act \in [Actors -> ActorStates]
      /\ \A a \in Actors : act[a] = Idle /\ wait[a] = "none"
  BY IdleFields, Zenon DEF Init
<1>6. TypeOK
  <2>1. queue \in Seq(Events) /\ faults \in Nat /\ layer \in {"held", "taken", "released"}
    BY DEF Init
  <2>2. wait \in [Actors -> {"none", "waiting", "ok", "err"}]
    BY Zenon DEF Init
  <2>3. /\ manuallyStopped \in BOOLEAN /\ manuallyRestarted \in BOOLEAN /\ shutdown \in BOOLEAN
        /\ registered \in BOOLEAN /\ misfired \in BOOLEAN
    BY Zenon DEF Init
  <2> QED
    BY <1>1, <1>2, <1>3, <1>4, <1>5, <2>1, <2>2, <2>3, Zenon DEF TypeOK
<1>7. ~Alive
  BY <1>4, Zenon DEF Alive
<1>8. ~st.RemovalInProgress /\ ~st.Dead
  BY <1>1, Zenon DEF NewState
<1>9. RunningIfAlive /\ RestarterInv /\ DeadHasNoProcess
  BY <1>3, <1>7, Zenon DEF RunningIfAlive, RestarterInv, DeadHasNoProcess
<1>10. RemovalInv
  BY <1>5, IdleFields, Zenon DEF RemovalInv, RmPcs
<1>11. RemovalExclusive
  BY <1>5, <1>8, IdleFields, Zenon DEF RemovalExclusive, Init
<1>12. GoneInv
  BY <1>4, <1>5, IdleFields DEF GoneInv
<1>13. StopKills
  BY <1>7, Zenon DEF StopKills
<1> QED
  BY <1>6, <1>9, <1>10, <1>11, <1>12, <1>13, Zenon DEF LifecycleInv

LEMMA ActorStepKeepsInv ==
    ASSUME LifecycleInv, NEW a \in Actors, ActorStep(a)
    PROVE  LifecycleInv'
  BY containerStartKeepsInv, WaitKeepsInv, WaitReturnKeepsInv, StopEnterKeepsInv,
     StopSignalKeepsInv, KillEnterKeepsInv, KillSignalKeepsInv, killProcessDirectlyKeepsInv,
     RmEnterKeepsInv, RmCheckKeepsInv, RmDeadKeepsInv, RmLayerKeepsInv, RmFsKeepsInv,
     RmUnregisterKeepsInv, RmRemovedKeepsInv, RmResetKeepsInv, RestartMarkKeepsInv,
     ClearRestartedKeepsInv DEF ActorStep

\* Every step keeps the invariant.
LEMMA StepInv == LifecycleInv /\ [Next]_vars => LifecycleInv'
<1> SUFFICES ASSUME LifecycleInv, [Next]_vars PROVE LifecycleInv'
  BY Zenon
<1>1. CASE \E c \in Clients : ClientBegins(c)
  BY <1>1, ClientBeginsKeepInv, Zenon
<1>2. CASE \E a \in Actors : ActorStep(a)
  BY <1>2, ActorStepKeepsInv, Zenon
<1>3. CASE EventStep
  BY <1>3, EventStepKeepsInv, Zenon
<1>4. CASE ReapExit
  BY <1>4, ReapExitKeepsInv, Zenon
<1>5. CASE RestarterStep
  BY <1>5, RestarterStepKeepsInv, Zenon
<1>6. CASE \E code \in AllCodes \ {exitUnknown}, copies \in 0..2 : ProcessExit(code, copies)
  BY <1>6, ProcessExitKeepsInv, Zenon
<1>7. CASE UNCHANGED vars
  BY <1>7, ZenonT(30) DEF vars, LifecycleInv, TypeOK, RunningIfAlive, RestarterInv, RemovalInv,
     RemovalExclusive, GoneInv, DeadHasNoProcess, StopKills, Alive
<1> QED
  BY <1>1, <1>2, <1>3, <1>4, <1>5, <1>6, <1>7, Zenon DEF Next

=============================================================================
