---------------------------- MODULE HealthMonitor ----------------------------
(***************************************************************************)
(* The health checks of one container that has a healthcheck: the monitor  *)
(* goroutines and their probes, handleProbeResult, and the handlers that   *)
(* open and close the monitor's channel (daemon/health.go, monitor.go,     *)
(* pause.go, unpause.go, start.go, daemon/container/health.go).            *)
(*                                                                         *)
(* Every handler runs under the container's lock and is one action; a      *)
(* monitor takes that lock only to handle a result, so between its steps   *)
(* the container may stop, restart, pause and resume.  What can happen to  *)
(* the container's State is what StateSetters allows.  Monitors are        *)
(* numbered like the channels they are given.  Time is left out: a timer   *)
(* may fire whenever it is armed, a probe may take any time, and a failure *)
(* of a starting container may be within its start period or not.          *)
(***************************************************************************)
EXTENDS Sequences, ContainerState

CONSTANTS Retries,        \* Healthcheck.Retries, or its default
          maxLogEntries,
          Codes,          \* see StateSetters
          MaxRuns,        \* bound: starts of the container
          MaxMonitors,    \* bound: channels opened
          MaxStreak,      \* bound: failures after which no probe is begun
          MaxRestarters   \* bound: goroutines that wait to restart the container

ASSUME HealthAssumption ==
    /\ Retries \in Nat \ {0} /\ maxLogEntries \in Nat \ {0}
    /\ Codes \subseteq AllCodes
    /\ MaxRuns \in Nat /\ MaxMonitors \in Nat
    /\ MaxStreak \in Nat /\ MaxRestarters \in Nat

VARIABLES st,             \* the container's State
          run,            \* the number of its latest run
          restarters,     \* goroutines of handleContainerExit that wait to restart it
          Status,         \* State.Health: "none" while it is nil
          FailingStreak,
          Log,            \* of each result, its run and whether the probe succeeded
          stop,           \* Health.stop: the channel that is open, 0 for nil
          opened,         \* how many channels have been made
          closed,         \* the channels that have been closed
          mon,            \* the monitor of each channel, with its probe
          gaveUp          \* history: a restart was given up since the last start or exit

ctrVars    == <<st, run, restarters, gaveUp>>
resultVars == <<Status, FailingStreak, Log>>
chanVars   == <<stop, opened, closed>>
vars == <<ctrVars, resultVars, chanVars, mon>>

Monitors == 1..MaxMonitors
Results  == [run: Nat, ok: BOOLEAN]

\* a monitor: where it is, the run its probe was begun in, what came of the probe
Pcs == {"none", "idle", "probing", "handling", "draining", "gone"}
MonitorStates == [pc: Pcs, run: Nat, res: {"none", "ok", "fail"}]
NoMonitor   == [pc |-> "none", run |-> 0, res |-> "none"]
IdleMonitor == [pc |-> "idle", run |-> 0, res |-> "none"]
GoneMonitor == [pc |-> "gone", run |-> 0, res |-> "none"]

TypeOK ==
    /\ st \in State /\ run \in Nat /\ restarters \in Nat /\ gaveUp \in BOOLEAN
    /\ Status \in {"none", "starting", "healthy", "unhealthy"}
    /\ FailingStreak \in Nat /\ Log \in Seq(Results)
    /\ stop \in Nat /\ opened \in 0..MaxMonitors /\ closed \subseteq Monitors
    /\ mon \in [Monitors -> MonitorStates]

Init ==
    /\ st = NewState /\ run = 0 /\ restarters = 0 /\ gaveUp = FALSE
    /\ Status = "none" /\ FailingStreak = 0 /\ Log = <<>>
    /\ stop = 0 /\ opened = 0 /\ closed = {}
    /\ mon = [m \in Monitors |-> NoMonitor]

-----------------------------------------------------------------------------
(* The monitor's channel *)

CloseMonitorChannel ==
    /\ stop' = 0
    /\ closed' = closed \cup ({stop} \ {0})
    /\ Status' = IF stop # 0 THEN "unhealthy" ELSE Status
    /\ UNCHANGED <<opened, mon>>

\* a new channel, and the goroutine that is given it
OpenMonitor ==
    /\ opened < MaxMonitors
    /\ opened' = opened + 1
    /\ stop' = opened + 1
    /\ mon' = [mon EXCEPT ![opened + 1] = IdleMonitor]

\* it asks for Running and Paused only: a container that restarts counts as running
updateHealthMonitor ==
    /\ IF Status = "none" THEN UNCHANGED <<Status, chanVars, mon>>
       ELSE IF st'.Running /\ ~st'.Paused
       THEN IF stop = 0 THEN OpenMonitor /\ UNCHANGED <<Status, closed>>
                        ELSE UNCHANGED <<Status, chanVars, mon>>
       ELSE CloseMonitorChannel
    /\ UNCHANGED <<FailingStreak, Log>>

\* mutant: the monitor of the run before stays open, and a new one is opened besides
initHealthMonitor_KeepsOld ==
    /\ OpenMonitor /\ UNCHANGED closed
    /\ Status' = "starting" /\ FailingStreak' = 0
    /\ UNCHANGED Log

\* after SetRunning: stopHealthchecks, the reset, and the updateHealthMonitor that
\* finds the container running, not paused, and no channel
initHealthMonitor ==
    /\ closed' = closed \cup ({stop} \ {0})
    /\ OpenMonitor
    /\ Status' = "starting" /\ FailingStreak' = 0
    /\ UNCHANGED Log

stopHealthchecks == CloseMonitorChannel /\ UNCHANGED <<FailingStreak, Log>>

-----------------------------------------------------------------------------
(* What happens to the container.  A start that fails and the removal are    *)
(* left out: they neither touch the health checks nor set Running or Paused. *)

Setters == INSTANCE StateSetters WITH Pids <- 1..MaxRuns, Msgs <- {}

NewRun == run' = run + 1 /\ st'.Pid = run'

\* containerStart, by an API call or by a goroutine that has waited to restart it
Starts ==
    /\ \/ ~st.Running /\ UNCHANGED restarters
       \/ restarters > 0 /\ restarters' = restarters - 1
    /\ Setters!Starts /\ NewRun
    /\ initHealthMonitor
    /\ gaveUp' = FALSE

StartsExternally ==
    /\ Setters!StartsExternally /\ NewRun
    /\ initHealthMonitor
    /\ gaveUp' = FALSE /\ UNCHANGED restarters

\* mutant: the health checks go on
Exits_StillProbed ==
    /\ \/ Setters!Stops /\ UNCHANGED restarters
       \/ /\ restarters < MaxRestarters
          /\ Setters!Restarts /\ restarters' = restarters + 1
    /\ gaveUp' = FALSE /\ UNCHANGED <<run, resultVars, chanVars, mon>>

\* handleContainerExit, which stops the health checks whether or not the container is
\* to be restarted.  When it is called, and which exits it ignores, is ContainerLifecycle's.
Exits ==
    /\ stopHealthchecks
    /\ \/ Setters!Stops /\ UNCHANGED restarters
       \/ /\ restarters < MaxRestarters
          /\ Setters!Restarts /\ restarters' = restarters + 1
    /\ gaveUp' = FALSE /\ UNCHANGED run

\* the restart was canceled or failed: the state is set, the health checks are left alone
RestarterFailed ==
    /\ restarters > 0 /\ restarters' = restarters - 1
    /\ Setters!Stops
    /\ gaveUp' = TRUE /\ UNCHANGED <<run, resultVars, chanVars, mon>>

\* containerPause, containerUnpause, EventPaused and EventResumed all check that the flag changes
Pauses ==
    /\ Setters!Pauses /\ st'.Paused # st.Paused
    /\ updateHealthMonitor
    /\ UNCHANGED <<run, restarters, gaveUp>>

\* EventOOM, which may come when the exit has been handled already
EventOOM == UNCHANGED ctrVars /\ updateHealthMonitor

-----------------------------------------------------------------------------
(* The monitor of channel m *)

\* the select of an idle monitor: its channel ...
StopIdle(m) ==
    /\ mon[m].pc = "idle" /\ m \in closed
    /\ mon' = [mon EXCEPT ![m] = GoneMonitor]
    /\ UNCHANGED <<ctrVars, resultVars, chanVars>>

\* ... or its timer, and possibly this one when both are ready
TimerFires(m) ==
    /\ mon[m].pc = "idle" /\ FailingStreak < MaxStreak
    /\ mon' = [mon EXCEPT ![m] = [pc |-> "probing", run |-> run, res |-> "none"]]
    /\ UNCHANGED <<ctrVars, resultVars, chanVars>>

\* mutant: a monitor that is stopped does not cancel its probe
ProbeEnds_NotCanceled(m) ==
    /\ mon[m].pc = "probing" /\ mon[m].res = "none"
    /\ \E r \in {"ok", "fail"} : mon' = [mon EXCEPT ![m].res = r]
    /\ UNCHANGED <<ctrVars, resultVars, chanVars>>

\* the probe succeeds, or it fails, times out or is canceled; it always ends
ProbeEnds(m) ==
    /\ mon[m].pc \in {"probing", "draining"} /\ mon[m].res = "none"
    /\ \E r \in {"ok", "fail"} : mon' = [mon EXCEPT ![m].res = r]
    /\ UNCHANGED <<ctrVars, resultVars, chanVars>>

\* the select of a probing monitor: it cancels the probe and waits for it ...
StopProbing(m) ==
    /\ mon[m].pc = "probing" /\ m \in closed
    /\ mon' = [mon EXCEPT ![m].pc = "draining"]
    /\ UNCHANGED <<ctrVars, resultVars, chanVars>>

Drained(m) ==
    /\ mon[m].pc = "draining" /\ mon[m].res # "none"
    /\ mon' = [mon EXCEPT ![m] = GoneMonitor]
    /\ UNCHANGED <<ctrVars, resultVars, chanVars>>

\* ... or takes the result, for which it then needs the container's lock
TakeResult(m) ==
    /\ mon[m].pc = "probing" /\ mon[m].res # "none"
    /\ mon' = [mon EXCEPT ![m].pc = "handling"]
    /\ UNCHANGED <<ctrVars, resultVars, chanVars>>

Logged(r) ==
    IF Len(Log) >= maxLogEntries
    THEN Append(SubSeq(Log, Len(Log) + 2 - maxLogEntries, Len(Log)), r)
    ELSE Append(Log, r)

\* mutant: one failure more is needed
Failed_OffByOne ==
    /\ FailingStreak' = FailingStreak + 1
    /\ Status' = IF FailingStreak >= Retries THEN "unhealthy" ELSE Status

\* a failure that counts
Failed ==
    /\ FailingStreak' = FailingStreak + 1
    /\ Status' = IF FailingStreak + 1 >= Retries THEN "unhealthy" ELSE Status

Succeeded == FailingStreak' = 0 /\ Status' = "healthy"

\* within the start period
FailedEarly == Status = "starting" /\ UNCHANGED <<Status, FailingStreak>>

\* mutant: the result counts although the monitor has been stopped meanwhile
handleProbeResult_Late(m) ==
    /\ mon[m].pc = "handling"
    /\ mon' = [mon EXCEPT ![m] = IdleMonitor]
    /\ Log' = Logged([run |-> mon[m].run, ok |-> mon[m].res = "ok"])
    /\ \/ mon[m].res = "ok" /\ Succeeded
       \/ mon[m].res = "fail" /\ (FailedEarly \/ Failed)
    /\ UNCHANGED <<ctrVars, chanVars>>

handleProbeResult(m) ==
    /\ mon[m].pc = "handling"
    /\ mon' = [mon EXCEPT ![m] = IdleMonitor]
    /\ \/ m \in closed /\ UNCHANGED resultVars
       \/ /\ m \notin closed
          /\ Log' = Logged([run |-> mon[m].run, ok |-> mon[m].res = "ok"])
          /\ \/ mon[m].res = "ok" /\ Succeeded
             \/ mon[m].res = "fail" /\ (FailedEarly \/ Failed)
    /\ UNCHANGED <<ctrVars, chanVars>>

-----------------------------------------------------------------------------

ContainerStep ==
    Starts \/ StartsExternally \/ Exits \/ RestarterFailed \/ Pauses \/ EventOOM

MonitorStep(m) ==
    \/ StopIdle(m) \/ TimerFires(m) \/ ProbeEnds(m) \/ StopProbing(m)
    \/ Drained(m) \/ TakeResult(m) \/ handleProbeResult(m)

Next == ContainerStep \/ \E m \in Monitors : MonitorStep(m)

Spec == Init /\ [][Next]_vars

\* A goroutine goes on when it can and a probe ends: it has a timeout.  A select that
\* finds its channel closed again and again takes that case in the end, for Go chooses
\* at random among the cases that are ready.
FairSpec ==
    /\ Spec
    /\ \A m \in Monitors :
          /\ WF_vars(ProbeEnds(m)) /\ WF_vars(StopProbing(m) \/ TakeResult(m))
          /\ WF_vars(Drained(m)) /\ WF_vars(handleProbeResult(m))
          /\ SF_vars(StopIdle(m))

-----------------------------------------------------------------------------
(* Properties *)

\* the open channel is the one made last, all others are closed
ChannelInv == stop \in {0, opened} /\ closed = (1..opened) \ {stop}

\* a monitor that has left its loop was told to, and the probe of the one that was not
\* stopped belongs to the container's latest run
MonitorInv(m) ==
    /\ mon[m].pc = "none" <=> m > opened
    /\ mon[m].pc \in {"draining", "gone"} => m \in closed
    /\ mon[m].pc = "handling" => mon[m].res # "none"
    /\ m = stop /\ mon[m].pc \in {"probing", "handling"} => mon[m].run = run

\* Health says "starting" or "healthy" only while a monitor is open
StatusInv ==
    /\ Status = "none" <=> opened = 0
    /\ Status \in {"starting", "healthy"} => stop # 0 /\ FailingStreak < Retries
    /\ Len(Log) <= maxLogEntries

\* The invariant the others follow from: what the channel and the status that the handlers
\* keep say of the monitors that CloseMonitorChannel has stopped without waiting for them.
HealthInv == TypeOK /\ ChannelInv /\ (\A m \in Monitors : MonitorInv(m)) /\ StatusInv

\* updateHealthMonitor is to "ensure the health-check monitor is running or not,
\* depending on the current state of the container": whatever order starts, exits,
\* pauses and late events come in, a container that runs, is not paused and is not
\* between two runs has a monitor, and a paused one has none.  One that is stopped has
\* none either, with one exception: a late event had opened one while the container
\* waited to be restarted, and the restart was given up.
MonitorMatchesState ==
    /\ st.Running /\ ~st.Paused /\ ~st.Restarting => stop # 0
    /\ stop # 0 => ~st.Paused /\ (st.Running \/ gaveUp)

\* "healthy" is earned: the log's latest entries are a success of this run and, after
\* it, the failures that FailingStreak counts, fewer than Retries, unless the log is too
\* short to hold them.  Nothing a run, a pause or a stopped monitor left behind counts.
HealthyIsEarned ==
    Status = "healthy" =>
        /\ FailingStreak < Retries
        /\ \A i \in 1..Len(Log) :
              i >= Len(Log) - FailingStreak =>
                  Log[i] = [run |-> run, ok |-> i = Len(Log) - FailingStreak]

\* A probe's result changes the container's health only if its monitor has not been
\* stopped and it was begun in the run that is current when it is handled.
ResultsAreCurrent ==
    [][Log' # Log \/ FailingStreak' > FailingStreak \/ (Status' = "healthy" /\ Status # "healthy") =>
          /\ stop # 0 /\ mon[stop].pc = "handling" /\ mon[stop].run = run
          /\ mon'[stop].pc = "idle"]_vars

\* A monitor that was told to stop returns: neither a probe nor a result keeps it.
StoppedMonitorsEnd == \A m \in Monitors : m \in closed ~> mon[m].pc = "gone"
=============================================================================
