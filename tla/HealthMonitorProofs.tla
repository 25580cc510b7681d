------------------------- MODULE HealthMonitorProofs -------------------------
(***************************************************************************)
(* Proofs about HealthMonitor, for any number of retries, any length of    *)
(* the log and any number of runs and monitors.  What the container's      *)
(* handlers do to the health checks is one of four things: nothing, a      *)
(* monitor is closed, one is opened, or all is set up again for a new run. *)
(***************************************************************************)
EXTENDS HealthMonitor, TLAPS

-----------------------------------------------------------------------------
(* The state *)

\* A start leaves the container running and not paused, and records its process.
LEMMA StartFacts ==
    ASSUME st \in State, Setters!Starts \/ Setters!StartsExternally
    PROVE  st' \in State /\ st'.Running /\ ~st'.Paused /\ ~st'.Restarting
<1>1. 0 \in AllCodes /\ "" \in ErrorMsgs /\ TRUE \in BOOLEAN /\ FALSE \in BOOLEAN
  BY Zenon DEF AllCodes, ExitCodes, ErrorMsgs
<1>2. PICK pid \in 1..MaxRuns : st' = Setters!SetRunning(st, pid) \/ st' = Setters!SetRunningExternal(st, pid)
  BY Zenon DEF Setters!Starts, Setters!StartsExternally
<1>3. pid \in Nat
  BY <1>2, HealthAssumption, SMT
<1>4. /\ Setters!SetRunning(st, pid) \in State
      /\ Setters!SetRunning(st, pid).Running /\ ~Setters!SetRunning(st, pid).Paused
      /\ ~Setters!SetRunning(st, pid).Restarting
  BY <1>1, <1>3, Zenon DEF Setters!SetRunning, State
<1>5. /\ Setters!SetRunningExternal(st, pid) \in State
      /\ Setters!SetRunningExternal(st, pid).Running /\ ~Setters!SetRunningExternal(st, pid).Paused
      /\ ~Setters!SetRunningExternal(st, pid).Restarting
  BY <1>4, Zenon DEF Setters!SetRunningExternal, State
<1> QED
  BY <1>2, <1>4, <1>5, Zenon

\* A stop clears all three flags.
LEMMA StopFacts ==
    ASSUME st \in State, Setters!Stops
    PROVE  st' \in State /\ ~st'.Running /\ ~st'.Paused /\ ~st'.Restarting
<1>1. 0 \in Nat /\ FALSE \in BOOLEAN
  OBVIOUS
<1>2. PICK code \in Codes : st' = Setters!SetStopped(st, code)
  BY Zenon DEF Setters!Stops
<1>3. code \in AllCodes
  BY <1>2, HealthAssumption, Zenon
<1> QED
  BY <1>1, <1>2, <1>3, Zenon DEF Setters!SetStopped, State

\* A container that waits to be restarted counts as running.
LEMMA RestartFacts ==
    ASSUME st \in State, Setters!Restarts
    PROVE  st' \in State /\ st'.Running /\ ~st'.Paused /\ st'.Restarting
<1>1. 0 \in Nat /\ FALSE \in BOOLEAN /\ TRUE \in BOOLEAN
  OBVIOUS
<1>2. PICK code \in Codes : st' = Setters!SetRestarting(st, code)
  BY Zenon DEF Setters!Restarts
<1>3. code \in AllCodes
  BY <1>2, HealthAssumption, Zenon
<1> QED
  BY <1>1, <1>2, <1>3, Zenon DEF Setters!SetRestarting, State

\* A pause, or its end, leaves the other flags alone.
LEMMA PauseFacts ==
    ASSUME st \in State, Setters!Pauses
    PROVE  st' \in State /\ st'.Running = st.Running /\ st'.Restarting = st.Restarting
<1>1. PICK paused \in BOOLEAN : st' = Setters!SetPaused(st, paused)
  BY Zenon DEF Setters!Pauses
<1> QED
  BY <1>1, Zenon DEF Setters!SetPaused, State

-----------------------------------------------------------------------------
(* The invariant *)

LEMMA InitInv == Init => HealthInv
<1> SUFFICES ASSUME Init PROVE HealthInv
  OBVIOUS
<1>1. NewState \in State
  BY SMT DEF NewState, State, AllCodes, ExitCodes, ErrorMsgs
<1>2. NoMonitor \in MonitorStates
  BY SMT DEF NoMonitor, MonitorStates, Pcs
<1>3. mon \in [Monitors -> MonitorStates]
  BY <1>2, Zenon DEF Init
<1>4. TypeOK
  <2>1. <<>> \in Seq(Results) /\ 0 \in 0..MaxMonitors /\ 0 \in Nat
    BY HealthAssumption, SMT
  <2> QED
    BY <1>1, <1>3, <2>1, Zenon DEF Init, TypeOK
<1>5. ChannelInv /\ StatusInv
  BY HealthAssumption, SMT DEF Init, ChannelInv, StatusInv
<1>6. ASSUME NEW m \in Monitors PROVE MonitorInv(m)
  BY SMT DEF Init, MonitorInv, NoMonitor, Monitors
<1> QED
  BY <1>4, <1>5, <1>6, Zenon DEF HealthInv

\* what a handler may do to the variables that are the container's own
ContainerTypes == st' \in State /\ restarters' \in Nat /\ gaveUp' \in BOOLEAN

\* The monitor of the open channel is told to stop.
LEMMA CloseInv ==
    ASSUME HealthInv, CloseMonitorChannel, ContainerTypes, UNCHANGED <<run, FailingStreak, Log>>
    PROVE  HealthInv'
<1>1. TypeOK /\ ChannelInv /\ StatusInv
  BY Zenon DEF HealthInv
<1>2. closed' = 1..opened /\ stop' = 0 /\ opened' = opened /\ mon' = mon
  BY <1>1, SMT DEF ChannelInv, CloseMonitorChannel, TypeOK
<1>3. TypeOK'
  <2>1. closed' \subseteq Monitors
    BY <1>1, <1>2, HealthAssumption, SMT DEF TypeOK, Monitors
  <2>2. Status' \in {"none", "starting", "healthy", "unhealthy"}
    BY <1>1, SMT DEF TypeOK, CloseMonitorChannel
  <2> QED
    BY <1>1, <1>2, <2>1, <2>2, SMT DEF TypeOK, ContainerTypes
<1>4. ChannelInv'
  BY <1>1, <1>2, SMT DEF ChannelInv, TypeOK
<1>5. StatusInv'
  BY <1>1, <1>2, SMT DEF StatusInv, ChannelInv, CloseMonitorChannel, TypeOK
<1>6. ASSUME NEW m \in Monitors PROVE MonitorInv(m)'
  <2>1. MonitorInv(m)
    BY <1>6, Zenon DEF HealthInv
  <2> QED
    BY <1>1, <1>2, <2>1, SMT DEF MonitorInv, ChannelInv, Monitors, TypeOK
<1> QED
  BY <1>3, <1>4, <1>5, <1>6, Zenon DEF HealthInv

\* A monitor is opened, where there is none or where the one there was has been closed.
LEMMA OpenInv ==
    ASSUME HealthInv, OpenMonitor, ContainerTypes, run' \in Nat,
           closed' = closed \cup ({stop} \ {0}),
           Status' \in {"starting", "healthy", "unhealthy"}, FailingStreak' \in Nat,
           Status' # "unhealthy" => FailingStreak' < Retries, UNCHANGED Log
    PROVE  HealthInv'
<1>1. TypeOK /\ ChannelInv /\ StatusInv
  BY Zenon DEF HealthInv
<1>2. opened \in 0..MaxMonitors /\ opened < MaxMonitors /\ opened + 1 \in Monitors
  BY <1>1, HealthAssumption, SMT DEF TypeOK, OpenMonitor, Monitors
<1>3. closed' = 1..opened /\ stop' = opened + 1 /\ opened' = opened + 1
  BY <1>1, SMT DEF ChannelInv, OpenMonitor, TypeOK
<1>4. /\ mon' \in [Monitors -> MonitorStates]
      /\ mon'[opened + 1] = IdleMonitor
      /\ \A m \in Monitors : m # opened + 1 => mon'[m] = mon[m]
  <2>1. IdleMonitor \in MonitorStates
    BY SMT DEF IdleMonitor, MonitorStates, Pcs
  <2> QED
    BY <1>1, <1>2, <2>1, Zenon DEF TypeOK, OpenMonitor
<1>5. TypeOK'
  <2>1. closed' \subseteq Monitors /\ opened' \in 0..MaxMonitors /\ stop' \in Nat
    BY <1>2, <1>3, HealthAssumption, SMT DEF Monitors
  <2> QED
    BY <1>1, <1>4, <2>1, SMT DEF TypeOK, ContainerTypes
<1>6. ChannelInv'
  BY <1>2, <1>3, SMT DEF ChannelInv
<1>7. StatusInv'
  BY <1>1, <1>2, <1>3, SMT DEF StatusInv, TypeOK
<1>8. ASSUME NEW m \in Monitors PROVE MonitorInv(m)'
  <2>1. CASE m = opened + 1
    BY <1>3, <1>4, <2>1, SMT DEF MonitorInv, IdleMonitor, Monitors
  <2>2. CASE m # opened + 1
    <3>1. MonitorInv(m) /\ mon'[m] = mon[m]
      BY <1>4, <2>2, Zenon DEF HealthInv
    <3>2. closed \subseteq closed'
      BY Zenon
    <3> QED
      BY <1>2, <1>3, <2>2, <3>1, <3>2, SMT DEF MonitorInv, Monitors
  <2> QED
    BY <2>1, <2>2, Zenon
<1> QED
  BY <1>5, <1>6, <1>7, <1>8, Zenon DEF HealthInv

\* the four things a handler does to the health checks
Untouched == UNCHANGED <<run, resultVars, chanVars, mon>>
Closes    == CloseMonitorChannel /\ UNCHANGED <<run, FailingStreak, Log>>
Opens     == /\ stop = 0 /\ Status # "none" /\ st'.Running /\ ~st'.Paused
             /\ OpenMonitor /\ UNCHANGED <<run, Status, closed, FailingStreak, Log>>
SetsUp    == initHealthMonitor /\ run' = run + 1

\* updateHealthMonitor does nothing only if there is nothing to do: no healthcheck has
\* been set up, or the monitor that is wanted is there.
LEMMA UpdateFacts ==
    ASSUME updateHealthMonitor, UNCHANGED run
    PROVE  \/ Untouched /\ (Status = "none" \/ (st'.Running /\ ~st'.Paused /\ stop # 0))
           \/ Status # "none" /\ ~(st'.Running /\ ~st'.Paused) /\ Closes
           \/ Opens
<1>1. CASE Status = "none"
  BY <1>1, Zenon DEF updateHealthMonitor, Untouched, resultVars
<1>2. CASE Status # "none" /\ st'.Running /\ ~st'.Paused /\ stop = 0
  BY <1>2, Zenon DEF updateHealthMonitor, Opens
<1>3. CASE Status # "none" /\ st'.Running /\ ~st'.Paused /\ stop # 0
  BY <1>3, Zenon DEF updateHealthMonitor, Untouched, resultVars
<1>4. CASE Status # "none" /\ ~(st'.Running /\ ~st'.Paused)
  BY <1>4, Zenon DEF updateHealthMonitor, Closes
<1> QED
  BY <1>1, <1>2, <1>3, <1>4, Zenon

\* Every handler keeps the types of what is the container's own, and does one of the four.
LEMMA ContainerFacts ==
    ASSUME TypeOK, ContainerStep
    PROVE  ContainerTypes /\ (Untouched \/ Closes \/ Opens \/ SetsUp)
<1>1. st \in State /\ restarters \in Nat /\ gaveUp \in BOOLEAN
  BY Zenon DEF TypeOK
<1>2. CASE Starts
  <2>1. restarters' \in Nat
    BY <1>1, <1>2, SMT DEF Starts
  <2> QED
    BY <1>1, <1>2, <2>1, StartFacts, Zenon DEF Starts, NewRun, ContainerTypes, SetsUp
<1>3. CASE StartsExternally
  BY <1>1, <1>3, StartFacts, Zenon DEF StartsExternally, NewRun, ContainerTypes, SetsUp
<1>4. CASE Exits
  <2>1. restarters' \in Nat
    BY <1>1, <1>4, SMT DEF Exits
  <2> QED
    BY <1>1, <1>4, <2>1, StopFacts, RestartFacts, Zenon
       DEF Exits, stopHealthchecks, ContainerTypes, Closes
<1>5. CASE RestarterFailed
  <2>1. restarters' \in Nat
    BY <1>1, <1>5, SMT DEF RestarterFailed
  <2> QED
    BY <1>1, <1>5, <2>1, StopFacts, Zenon DEF RestarterFailed, ContainerTypes, Untouched
<1>6. CASE Pauses
  BY <1>1, <1>6, PauseFacts, UpdateFacts, Zenon DEF Pauses, ContainerTypes
<1>7. CASE EventOOM
  BY <1>1, <1>7, UpdateFacts, Zenon DEF EventOOM, ctrVars, ContainerTypes
<1> QED
  BY <1>2, <1>3, <1>4, <1>5, <1>6, <1>7, Zenon DEF ContainerStep

LEMMA ContainerInv ==
    ASSUME HealthInv, ContainerStep
    PROVE  HealthInv'
<1>1. TypeOK /\ ChannelInv /\ StatusInv
  BY Zenon DEF HealthInv
<1>2. ContainerTypes /\ (Untouched \/ Closes \/ Opens \/ SetsUp)
  BY <1>1, ContainerFacts, Zenon
<1>3. CASE Untouched
  <2>1. TypeOK'
    BY <1>1, <1>2, <1>3, Zenon DEF TypeOK, ContainerTypes, Untouched, resultVars, chanVars
  <2>2. ChannelInv' /\ StatusInv'
    BY <1>1, <1>3, Zenon DEF ChannelInv, StatusInv, Untouched, resultVars, chanVars
  <2>3. ASSUME NEW m \in Monitors PROVE MonitorInv(m)'
    <3>1. MonitorInv(m)
      BY Zenon DEF HealthInv
    <3> QED
      BY <1>3, <3>1, Zenon DEF MonitorInv, Untouched, resultVars, chanVars
  <2> QED
    BY <2>1, <2>2, <2>3, Zenon DEF HealthInv
<1>4. CASE Closes
  BY <1>2, <1>4, CloseInv, Zenon DEF Closes
<1>5. CASE Opens
  <2>1. closed' = closed \cup ({stop} \ {0})
    BY <1>5, Zenon DEF Opens
  <2>2. /\ Status' \in {"starting", "healthy", "unhealthy"} /\ FailingStreak' \in Nat
        /\ Status' # "unhealthy" => FailingStreak' < Retries
    BY <1>1, <1>5, Zenon DEF Opens, TypeOK, StatusInv
  <2>3. run' \in Nat /\ UNCHANGED Log /\ OpenMonitor
    BY <1>1, <1>5, Zenon DEF Opens, TypeOK
  <2> QED
    BY <1>2, <2>1, <2>2, <2>3, OpenInv, Zenon
<1>6. CASE SetsUp
  <2>1. run' \in Nat /\ 0 \in Nat /\ 0 < Retries
    BY <1>1, <1>6, HealthAssumption, SMT DEF SetsUp, TypeOK
  <2>2. /\ OpenMonitor /\ closed' = closed \cup ({stop} \ {0})
        /\ Status' = "starting" /\ FailingStreak' = 0 /\ UNCHANGED Log
    BY <1>6, Zenon DEF SetsUp, initHealthMonitor
  <2> QED
    BY <1>2, <2>1, <2>2, OpenInv, Zenon
<1> QED
  BY <1>2, <1>3, <1>4, <1>5, <1>6, Zenon

\* A step of monitor m that handles no result changes m only.
LEMMA MonitorOnly ==
    ASSUME HealthInv, NEW m \in Monitors, UNCHANGED <<ctrVars, resultVars, chanVars>>,
           NEW x \in MonitorStates, mon' = [mon EXCEPT ![m] = x],
           x.pc # "none" <=> mon[m].pc # "none",
           x.pc \in {"draining", "gone"} => m \in closed,
           x.pc = "handling" => x.res # "none",
           m = stop /\ x.pc \in {"probing", "handling"} => x.run = run
    PROVE  HealthInv'
<1>1. TypeOK /\ ChannelInv /\ StatusInv
  BY Zenon DEF HealthInv
<1>2. /\ mon' \in [Monitors -> MonitorStates] /\ mon'[m] = x
      /\ \A n \in Monitors : n # m => mon'[n] = mon[n]
  BY <1>1, Zenon DEF TypeOK
<1>3. TypeOK'
  BY <1>1, <1>2, Zenon DEF TypeOK, ctrVars, resultVars, chanVars
<1>4. ChannelInv' /\ StatusInv'
  BY <1>1, Zenon DEF ChannelInv, StatusInv, resultVars, chanVars
<1>5. ASSUME NEW n \in Monitors PROVE MonitorInv(n)'
  <2>1. MonitorInv(n) /\ MonitorInv(m)
    BY Zenon DEF HealthInv
  <2>2. CASE n = m
    BY <1>2, <2>1, <2>2, Zenon DEF MonitorInv, ctrVars, chanVars
  <2>3. CASE n # m
    BY <1>2, <2>1, <2>3, Zenon DEF MonitorInv, ctrVars, chanVars
  <2> QED
    BY <2>2, <2>3, Zenon
<1> QED
  BY <1>3, <1>4, <1>5, Zenon DEF HealthInv

\* The log keeps its latest entries, moved to the front by one when it was full.
LEMMA LoggedFacts ==
    ASSUME Log \in Seq(Results), Len(Log) <= maxLogEntries, NEW r \in Results
    PROVE  /\ Logged(r) \in Seq(Results)
           /\ Len(Logged(r)) \in 1..maxLogEntries
           /\ Logged(r)[Len(Logged(r))] = r
           /\ \A i \in 1..(Len(Logged(r)) - 1) :
                 /\ i + Len(Log) + 1 - Len(Logged(r)) \in 1..Len(Log)
                 /\ Logged(r)[i] = Log[i + Len(Log) + 1 - Len(Logged(r))]
<1>1. CASE Len(Log) >= maxLogEntries
  <2> DEFINE kept == SubSeq(Log, Len(Log) + 2 - maxLogEntries, Len(Log))
  <2>1. Len(Log) = maxLogEntries /\ maxLogEntries \in Nat \ {0}
    BY <1>1, HealthAssumption, SMT
  <2>2. /\ kept \in Seq(Results) /\ Len(kept) = Len(Log) - 1
        /\ \A i \in 1..Len(kept) : kept[i] = Log[i + 1]
    BY <2>1, SMT
  <2>3. Logged(r) = Append(kept, r)
    BY <1>1, Zenon DEF Logged
  <2> HIDE DEF kept
  <2>4. /\ Logged(r) \in Seq(Results) /\ Len(Logged(r)) = Len(kept) + 1
        /\ Logged(r)[Len(kept) + 1] = r
        /\ \A i \in 1..Len(kept) : Logged(r)[i] = kept[i]
    BY <2>2, <2>3, SMT
  <2> QED
    BY <2>1, <2>2, <2>4, SMT
<1>2. CASE ~(Len(Log) >= maxLogEntries)
  <2>1. Logged(r) = Append(Log, r)
    BY <1>2, Zenon DEF Logged
  <2> QED
    BY <1>2, <2>1, HealthAssumption, SMT
<1> QED
  BY <1>1, <1>2, Zenon

\* handleProbeResult counts the result of the monitor that is open, for the latest run.
LEMMA CountedFacts ==
    ASSUME HealthInv, NEW m \in Monitors, handleProbeResult(m), m \notin closed
    PROVE  /\ m = stop /\ stop # 0 /\ mon[m].run = run
           /\ mon[m].res \in {"ok", "fail"} /\ Status # "none"
<1>1. TypeOK /\ ChannelInv /\ StatusInv /\ MonitorInv(m)
  BY Zenon DEF HealthInv
<1>2. mon[m] \in MonitorStates /\ m \in 1..MaxMonitors /\ opened \in 0..MaxMonitors
  BY <1>1, Zenon DEF TypeOK, Monitors
<1>3. mon[m].pc = "handling"
  BY Zenon DEF handleProbeResult
<1>4. m = stop /\ m # 0 /\ opened # 0
  BY <1>1, <1>2, <1>3, HealthAssumption, SMT DEF MonitorInv, ChannelInv
<1> QED
  BY <1>1, <1>2, <1>3, <1>4, Zenon DEF MonitorInv, StatusInv, MonitorStates

LEMMA ResultInv ==
    ASSUME HealthInv, NEW m \in Monitors, handleProbeResult(m)
    PROVE  HealthInv'
<1>1. TypeOK /\ ChannelInv /\ StatusInv /\ MonitorInv(m)
  BY Zenon DEF HealthInv
<1>2. /\ mon[m].pc = "handling" /\ mon' = [mon EXCEPT ![m] = IdleMonitor]
      /\ UNCHANGED <<ctrVars, chanVars>>
  BY Zenon DEF handleProbeResult
<1>3. IdleMonitor \in MonitorStates
  BY SMT DEF IdleMonitor, MonitorStates, Pcs
<1>4. CASE m \in closed
  <2>1. UNCHANGED <<ctrVars, resultVars, chanVars>>
    BY <1>4, Zenon DEF handleProbeResult
  <2> QED
    BY <1>2, <1>3, <2>1, MonitorOnly, Zenon DEF IdleMonitor
<1>5. CASE m \notin closed
  <2>1. /\ m = stop /\ stop # 0 /\ mon[m].run = run
        /\ mon[m].res \in {"ok", "fail"} /\ Status # "none"
    BY <1>5, CountedFacts, Zenon
  <2> DEFINE r == [run |-> mon[m].run, ok |-> mon[m].res = "ok"]
  <2>2. /\ Log' = Logged(r)
        /\ Succeeded \/ FailedEarly \/ Failed
    BY <1>5, Zenon DEF handleProbeResult
  <2>3. r \in Results
    BY <1>1, <2>1, Zenon DEF TypeOK, Results
  <2>4. Log' \in Seq(Results) /\ Len(Log') <= maxLogEntries
    <3>1. Log \in Seq(Results) /\ Len(Log) <= maxLogEntries
      BY <1>1, Zenon DEF TypeOK, StatusInv
    <3>2. Logged(r) \in Seq(Results) /\ Len(Logged(r)) \in 1..maxLogEntries
      BY <2>3, <3>1, LoggedFacts, Zenon
    <3> QED
      BY <2>2, <3>2, HealthAssumption, SMT
  <2>5. /\ Status' \in {"starting", "healthy", "unhealthy"} /\ FailingStreak' \in Nat
        /\ Status' # "unhealthy" => FailingStreak' < Retries
    <3>1. /\ Status \in {"starting", "healthy", "unhealthy"} /\ FailingStreak \in Nat
          /\ Status # "unhealthy" => FailingStreak < Retries
      BY <1>1, <2>1, Zenon DEF TypeOK, StatusInv
    <3> QED
      BY <2>2, <3>1, HealthAssumption, SMT DEF Succeeded, FailedEarly, Failed
  <2>6. mon' \in [Monitors -> MonitorStates]
    BY <1>1, <1>2, <1>3, Zenon DEF TypeOK
  <2>7. TypeOK'
    BY <1>1, <1>2, <2>4, <2>5, <2>6, Zenon DEF TypeOK, ctrVars, chanVars
  <2>8. ChannelInv' /\ StatusInv'
    BY <1>1, <1>2, <2>1, <2>4, <2>5, Zenon DEF ChannelInv, StatusInv, chanVars
  <2>9. ASSUME NEW n \in Monitors PROVE MonitorInv(n)'
    <3>1. MonitorInv(n)
      BY Zenon DEF HealthInv
    <3>2. mon'[n] = IF n = m THEN IdleMonitor ELSE mon[n]
      BY <1>1, <1>2, Zenon DEF TypeOK
    <3>3. CASE n = m
      <4>1. mon'[n].pc = "idle"
        BY <3>2, <3>3, SMT DEF IdleMonitor
      <4>2. ~(n > opened)
        BY <1>2, <3>1, <3>3, Zenon DEF MonitorInv
      <4> QED
        BY <1>2, <4>1, <4>2, Zenon DEF MonitorInv, chanVars
    <3>4. CASE n # m
      BY <1>2, <3>1, <3>2, <3>4, Zenon DEF MonitorInv, ctrVars, chanVars
    <3> QED
      BY <3>3, <3>4, Zenon
  <2> QED
    BY <2>7, <2>8, <2>9, Zenon DEF HealthInv
<1> QED
  BY <1>4, <1>5, Zenon

LEMMA MonitorStepInv ==
    ASSUME HealthInv, NEW m \in Monitors, MonitorStep(m)
    PROVE  HealthInv'
<1>1. TypeOK /\ MonitorInv(m) /\ mon[m] \in MonitorStates /\ run \in Nat
  BY Zenon DEF HealthInv, TypeOK
<1>2. GoneMonitor \in MonitorStates /\ GoneMonitor.pc = "gone"
  BY SMT DEF GoneMonitor, MonitorStates, Pcs
<1>3. CASE StopIdle(m)
  BY <1>2, <1>3, MonitorOnly, Zenon DEF StopIdle
<1>4. CASE TimerFires(m)
  <2> DEFINE x == [pc |-> "probing", run |-> run, res |-> "none"]
  <2>1. x \in MonitorStates /\ x.pc = "probing" /\ x.run = run
    BY <1>1, SMT DEF MonitorStates, Pcs
  <2>2. /\ UNCHANGED <<ctrVars, resultVars, chanVars>> /\ mon' = [mon EXCEPT ![m] = x]
        /\ mon[m].pc = "idle"
    BY <1>4, Zenon DEF TimerFires
  <2> HIDE DEF x
  <2> QED
    BY <2>1, <2>2, MonitorOnly, Zenon
<1>5. CASE ProbeEnds(m)
  <2>1. PICK r \in {"ok", "fail"} : mon' = [mon EXCEPT ![m].res = r]
    BY <1>5, Zenon DEF ProbeEnds
  <2> DEFINE x == [mon[m] EXCEPT !.res = r]
  <2>2. x \in MonitorStates /\ x.pc = mon[m].pc /\ x.run = mon[m].run
    BY <1>1, <2>1, SMT DEF MonitorStates
  <2>3. /\ UNCHANGED <<ctrVars, resultVars, chanVars>> /\ mon' = [mon EXCEPT ![m] = x]
        /\ mon[m].pc \in {"probing", "draining"}
    BY <1>5, <2>1, Zenon DEF ProbeEnds
  <2> HIDE DEF x
  <2> QED
    BY <1>1, <2>2, <2>3, MonitorOnly, Zenon DEF MonitorInv
<1>6. CASE StopProbing(m) \/ TakeResult(m)
  <2>1. PICK pc \in {"draining", "handling"} :
           /\ mon' = [mon EXCEPT ![m].pc = pc]
           /\ pc = "draining" => m \in closed
           /\ pc = "handling" => mon[m].res # "none"
    BY <1>6, Zenon DEF StopProbing, TakeResult
  <2> DEFINE x == [mon[m] EXCEPT !.pc = pc]
  <2>2. x \in MonitorStates /\ x.pc = pc /\ x.run = mon[m].run /\ x.res = mon[m].res
    BY <1>1, <2>1, SMT DEF MonitorStates, Pcs
  <2>3. /\ UNCHANGED <<ctrVars, resultVars, chanVars>> /\ mon' = [mon EXCEPT ![m] = x]
        /\ mon[m].pc = "probing"
    BY <1>6, <2>1, Zenon DEF StopProbing, TakeResult
  <2> HIDE DEF x
  <2> QED
    BY <1>1, <2>1, <2>2, <2>3, MonitorOnly, Zenon DEF MonitorInv
<1>7. CASE Drained(m)
  BY <1>1, <1>2, <1>7, MonitorOnly, Zenon DEF Drained, MonitorInv
<1>8. CASE handleProbeResult(m)
  BY <1>8, ResultInv, Zenon
<1> QED
  BY <1>3, <1>4, <1>5, <1>6, <1>7, <1>8, Zenon DEF MonitorStep

LEMMA StutterInv ==
    ASSUME HealthInv, UNCHANGED vars
    PROVE  HealthInv'
<1>1. UNCHANGED <<st, run, restarters, gaveUp, Status, FailingStreak, Log, stop, opened, closed, mon>>
  BY Zenon DEF vars, ctrVars, resultVars, chanVars
<1>2. TypeOK' /\ ChannelInv' /\ StatusInv'
  BY <1>1, Zenon DEF HealthInv, TypeOK, ChannelInv, StatusInv
<1>3. ASSUME NEW m \in Monitors PROVE MonitorInv(m)'
  <2>1. MonitorInv(m)
    BY Zenon DEF HealthInv
  <2> QED
    BY <1>1, <2>1, Zenon DEF MonitorInv
<1> QED
  BY <1>2, <1>3, Zenon DEF HealthInv

LEMMA NextInv == HealthInv /\ [Next]_vars => HealthInv'
  BY ContainerInv, MonitorStepInv, StutterInv, Zenon DEF Next

\* HealthInv holds in every reachable state: CloseMonitorChannel and OpenMonitorChannel,
\* called in whatever order the container's handlers run, leave at most one monitor that
\* is not stopped, and its probe is of the latest run.
THEOREM HealthInvariant == Spec => []HealthInv
  BY InitInv, NextInv, PTL DEF Spec

-----------------------------------------------------------------------------
(* Which containers have a monitor *)

\* What makes MonitorMatchesState inductive: a container that was never started has no
\* Health and does not run, unless an exit was handled that says it will be restarted.
MatchInv == MonitorMatchesState /\ (st.Running /\ ~st.Restarting => Status # "none")

LEMMA ContainerMatch ==
    ASSUME HealthInv, MatchInv, ContainerStep
    PROVE  MatchInv'
<1>1. st \in State /\ opened \in 0..MaxMonitors /\ MaxMonitors \in Nat
  BY HealthAssumption, Zenon DEF HealthInv, TypeOK
<1>2. stop # 0 => Status # "none"
  BY <1>1, SMT DEF HealthInv, ChannelInv, StatusInv
<1>3. OpenMonitor => stop' # 0
  BY <1>1, SMT DEF OpenMonitor
<1>4. CASE Starts \/ StartsExternally
  <2>1. initHealthMonitor /\ st'.Running /\ ~st'.Paused
    BY <1>1, <1>4, StartFacts, Zenon DEF Starts, StartsExternally
  <2> QED
    BY <1>3, <2>1, Zenon DEF initHealthMonitor, MatchInv, MonitorMatchesState
<1>5. CASE Exits
  <2>1. stop' = 0 /\ (~st'.Running \/ st'.Restarting)
    BY <1>1, <1>5, StopFacts, RestartFacts, Zenon DEF Exits, stopHealthchecks, CloseMonitorChannel
  <2> QED
    BY <2>1, Zenon DEF MatchInv, MonitorMatchesState
<1>6. CASE RestarterFailed
  <2>1. ~st'.Running /\ ~st'.Paused /\ gaveUp'
    BY <1>1, <1>6, StopFacts, Zenon DEF RestarterFailed
  <2> QED
    BY <2>1, Zenon DEF MatchInv, MonitorMatchesState
<1>7. CASE Pauses \/ EventOOM
  <2>1. /\ st'.Running = st.Running /\ st'.Restarting = st.Restarting
        /\ updateHealthMonitor /\ UNCHANGED <<run, gaveUp>>
    BY <1>1, <1>7, PauseFacts, Zenon DEF Pauses, EventOOM, ctrVars
  <2>2. \/ Untouched /\ (Status = "none" \/ (st'.Running /\ ~st'.Paused /\ stop # 0))
        \/ Status # "none" /\ ~(st'.Running /\ ~st'.Paused) /\ Closes
        \/ Opens
    BY <2>1, UpdateFacts, Zenon
  <2>3. CASE Untouched /\ (Status = "none" \/ (st'.Running /\ ~st'.Paused /\ stop # 0))
    <3>1. stop' = stop /\ Status' = Status
      BY <2>3, Zenon DEF Untouched, resultVars, chanVars
    <3> QED
      BY <1>2, <2>1, <2>3, <3>1, Zenon DEF MatchInv, MonitorMatchesState
  <2>4. CASE Status # "none" /\ ~(st'.Running /\ ~st'.Paused) /\ Closes
    <3>1. stop' = 0 /\ Status' # "none"
      BY <2>4, Zenon DEF Closes, CloseMonitorChannel
    <3> QED
      BY <2>4, <3>1, Zenon DEF MatchInv, MonitorMatchesState
  <2>5. CASE Opens
    <3>1. stop' # 0 /\ Status' # "none" /\ st'.Running /\ ~st'.Paused
      BY <1>3, <2>5, Zenon DEF Opens
    <3> QED
      BY <3>1, Zenon DEF MatchInv, MonitorMatchesState
  <2> QED
    BY <2>2, <2>3, <2>4, <2>5, Zenon
<1> QED
  BY <1>4, <1>5, <1>6, <1>7, Zenon DEF ContainerStep

LEMMA NextMatch == HealthInv /\ MatchInv /\ [Next]_vars => MatchInv'
<1> SUFFICES ASSUME HealthInv, MatchInv, [Next]_vars PROVE MatchInv'
  OBVIOUS
<1>1. CASE ContainerStep
  BY <1>1, ContainerMatch, Zenon
<1>2. CASE UNCHANGED vars
  BY <1>2, Zenon DEF MatchInv, MonitorMatchesState, vars, ctrVars, resultVars, chanVars
<1>3. CASE \E m \in Monitors : MonitorStep(m)
  <2>1. PICK m \in Monitors : MonitorStep(m)
    BY <1>3, Zenon
  <2>2. UNCHANGED <<ctrVars, chanVars>>
    BY <2>1, Zenon DEF MonitorStep, StopIdle, TimerFires, ProbeEnds, StopProbing, Drained,
                       TakeResult, handleProbeResult
  <2>3. Status = "none" <=> Status' = "none"
    <3>1. opened' = opened /\ HealthInv'
      BY <2>1, <2>2, MonitorStepInv, Zenon DEF chanVars
    <3> QED
      BY <3>1, Zenon DEF HealthInv, StatusInv
  <2> QED
    BY <2>2, <2>3, Zenon DEF MatchInv, MonitorMatchesState, ctrVars, chanVars
<1> QED
  BY <1>1, <1>2, <1>3, Zenon DEF Next

\* A container that runs and is neither paused nor between two runs has a monitor that is
\* not stopped, a paused one has none, and neither has a stopped one unless a late event
\* opened a monitor while it waited for a restart that was then given up.
THEOREM RunningIsMonitored == Spec => []MonitorMatchesState
<1>1. Init => MatchInv
  <2>1. NewState.Running = FALSE
    BY Zenon DEF NewState
  <2> QED
    BY <2>1, Zenon DEF Init, MatchInv, MonitorMatchesState
<1>2. MatchInv => MonitorMatchesState
  BY Zenon DEF MatchInv
<1> QED
  BY <1>1, <1>2, NextMatch, HealthInvariant, PTL DEF Spec

-----------------------------------------------------------------------------
(* What a result does *)

\* Only the result of the open monitor reaches the log, the streak and the status.
THEOREM LateResultsAreIgnored == Spec => ResultsAreCurrent
<1> DEFINE Counted == Log' # Log \/ FailingStreak' > FailingStreak
                        \/ (Status' = "healthy" /\ Status # "healthy")
           Current == /\ stop # 0 /\ mon[stop].pc = "handling" /\ mon[stop].run = run
                      /\ mon'[stop].pc = "idle"
<1>1. ASSUME HealthInv, [Next]_vars PROVE [Counted => Current]_vars
  <2>1. CASE UNCHANGED vars
    BY <2>1, Zenon
  <2>2. CASE ContainerStep
    <3>1. FailingStreak \in Nat /\ (Untouched \/ Closes \/ Opens \/ SetsUp)
      BY <1>1, <2>2, ContainerFacts, Zenon DEF HealthInv, TypeOK
    <3>2. /\ Log' = Log /\ (Status' = "healthy" => Status = "healthy")
          /\ FailingStreak' \in {0, FailingStreak}
      BY <3>1, Zenon DEF Untouched, Closes, Opens, SetsUp, resultVars, CloseMonitorChannel,
                         initHealthMonitor
    <3>3. ~(FailingStreak' > FailingStreak)
      BY <3>1, <3>2, SMT
    <3> QED
      BY <3>2, <3>3, Zenon
  <2>3. CASE \E m \in Monitors : MonitorStep(m)
    <3>1. PICK m \in Monitors : MonitorStep(m)
      BY <2>3, Zenon
    <3>2. FailingStreak \in Nat
      BY <1>1, Zenon DEF HealthInv, TypeOK
    <3>3. CASE handleProbeResult(m) /\ m \notin closed
      <4>1. m = stop /\ stop # 0 /\ mon[m].run = run
        BY <1>1, <3>3, CountedFacts, Zenon
      <4>2. mon[m].pc = "handling" /\ mon' = [mon EXCEPT ![m] = IdleMonitor]
        BY <3>3, Zenon DEF handleProbeResult
      <4>3. mon'[m].pc = "idle"
        BY <1>1, <4>2, SMT DEF HealthInv, TypeOK, IdleMonitor
      <4> QED
        BY <4>1, <4>2, <4>3, Zenon
    <3>4. CASE ~(handleProbeResult(m) /\ m \notin closed)
      <4>1. UNCHANGED resultVars
        BY <3>1, <3>4, Zenon DEF MonitorStep, StopIdle, TimerFires, ProbeEnds, StopProbing, Drained,
                                 TakeResult, handleProbeResult
      <4>2. Log' = Log /\ FailingStreak' = FailingStreak /\ Status' = Status
        BY <4>1, Zenon DEF resultVars
      <4>3. ~(FailingStreak' > FailingStreak)
        BY <3>2, <4>2, SMT
      <4> QED
        BY <4>2, <4>3, Zenon
    <3> QED
      BY <3>3, <3>4, Zenon
  <2> QED
    BY <1>1, <2>1, <2>2, <2>3, Zenon DEF Next
<1> QED
  BY <1>1, HealthInvariant, PTL DEF Spec, ResultsAreCurrent

-----------------------------------------------------------------------------
(* Who is healthy *)

\* the entries of the log that FailingStreak speaks of
Earned ==
    \A i \in 1..Len(Log) :
        i >= Len(Log) - FailingStreak => Log[i] = [run |-> run, ok |-> i = Len(Log) - FailingStreak]

\* A success begins the account anew, a failure that leaves the status alone adds to it.
LEMMA CountedEarned ==
    ASSUME HealthInv, HealthyIsEarned, NEW m \in Monitors, handleProbeResult(m), m \notin closed,
           Status' = "healthy"
    PROVE  Earned'
<1>1. /\ mon[m].run = run /\ mon[m].res \in {"ok", "fail"} /\ run \in Nat /\ run' = run
      /\ Log \in Seq(Results) /\ FailingStreak \in Nat /\ Len(Log) <= maxLogEntries
  BY CountedFacts, Zenon DEF HealthInv, TypeOK, StatusInv, handleProbeResult, ctrVars
<1> DEFINE r == [run |-> run, ok |-> mon[m].res = "ok"]
<1>2. /\ Log' = Logged(r)
      /\ \/ mon[m].res = "ok" /\ Succeeded
         \/ mon[m].res = "fail" /\ (FailedEarly \/ Failed)
  BY <1>1, Zenon DEF handleProbeResult
<1>3. r \in Results
  BY <1>1, Zenon DEF Results
<1>4. r.ok <=> mon[m].res = "ok"
  OBVIOUS
<1> DEFINE n == Len(Log')
<1>5. /\ Log' \in Seq(Results) /\ n \in 1..maxLogEntries /\ Log'[n] = r
      /\ \A i \in 1..(n - 1) :
            i + Len(Log) + 1 - n \in 1..Len(Log) /\ Log'[i] = Log[i + Len(Log) + 1 - n]
  <2> HIDE DEF r
  <2> QED
    BY <1>1, <1>2, <1>3, LoggedFacts, Zenon
<1>6. n \in Nat
  BY <1>5, SMT
<1>7. CASE mon[m].res = "ok"
  <2>1. FailingStreak' = 0
    BY <1>2, <1>7, Zenon DEF Succeeded
  <2>2. r = [run |-> run, ok |-> TRUE]
    BY <1>7, Zenon
  <2>3. ASSUME NEW i \in 1..n, i >= n - FailingStreak'
        PROVE  Log'[i] = [run |-> run', ok |-> i = n - FailingStreak']
    <3>1. i = n /\ (i = n - FailingStreak') = TRUE
      BY <1>6, <2>1, <2>3, SMT
    <3> HIDE DEF n
    <3> QED
      BY <1>1, <1>5, <2>2, <3>1, Zenon
  <2> QED
    BY <2>3, Zenon DEF Earned
<1>8. CASE mon[m].res = "fail"
  <2>1. Status = "healthy" /\ FailingStreak' = FailingStreak + 1
    BY <1>2, <1>8, Zenon DEF FailedEarly, Failed
  <2>2. Earned
    BY <2>1, Zenon DEF HealthyIsEarned, Earned
  <2>3. r = [run |-> run, ok |-> FALSE]
    BY <1>8, Zenon
  <2>4. ASSUME NEW i \in 1..n, i >= n - FailingStreak'
        PROVE  Log'[i] = [run |-> run', ok |-> i = n - FailingStreak']
    <3>1. CASE i = n
      <4>1. (i = n - FailingStreak') = FALSE
        BY <1>1, <1>6, <2>1, <3>1, SMT
      <4> HIDE DEF n
      <4> QED
        BY <1>1, <1>5, <2>3, <3>1, <4>1, Zenon
    <3>2. CASE i # n
      <4> DEFINE j == i + Len(Log) + 1 - n
      <4>1. i \in 1..(n - 1)
        BY <1>6, <3>2, SMT
      <4>2. j \in 1..Len(Log) /\ Log'[i] = Log[j]
        BY <1>5, <4>1, Zenon
      <4>3. Len(Log) \in Nat
        BY <1>1, SMT
      <4>4. /\ j >= Len(Log) - FailingStreak
            /\ (j = Len(Log) - FailingStreak) = (i = n - FailingStreak')
        <5> HIDE DEF n
        <5> QED
          BY <1>1, <1>6, <2>1, <2>4, <4>1, <4>3, SMT
      <4> HIDE DEF j, n
      <4>5. Log[j] = [run |-> run, ok |-> j = Len(Log) - FailingStreak]
        BY <2>2, <4>2, <4>4, Zenon DEF Earned
      <4> QED
        BY <1>1, <4>2, <4>4, <4>5, Zenon
    <3> QED
      BY <3>1, <3>2, Zenon
  <2> QED
    BY <2>4, Zenon DEF Earned
<1> QED
  BY <1>1, <1>7, <1>8, Zenon

LEMMA NextEarned == HealthInv /\ HealthyIsEarned /\ [Next]_vars => HealthyIsEarned'
<1> SUFFICES ASSUME HealthInv, HealthyIsEarned, [Next]_vars, Status' = "healthy"
             PROVE  FailingStreak' < Retries /\ Earned'
  BY Zenon DEF HealthyIsEarned, Earned
<1>1. HealthInv'
  BY NextInv, Zenon
<1>2. FailingStreak' < Retries
  BY <1>1, Zenon DEF HealthInv, StatusInv
<1>3. ASSUME Status = "healthy", UNCHANGED <<run, Log, FailingStreak>> PROVE Earned'
  BY <1>3, Zenon DEF HealthyIsEarned, Earned
<1>4. CASE UNCHANGED vars
  BY <1>2, <1>3, <1>4, Zenon DEF vars, ctrVars, resultVars
<1>5. CASE ContainerStep
  <2>1. Untouched \/ Closes \/ Opens \/ SetsUp
    BY <1>5, ContainerFacts, Zenon DEF HealthInv
  <2>2. Status = "healthy" /\ UNCHANGED <<run, Log, FailingStreak>>
    BY <2>1, Zenon DEF Untouched, Closes, Opens, SetsUp, resultVars, CloseMonitorChannel,
                       initHealthMonitor
  <2> QED
    BY <1>2, <1>3, <2>2, Zenon
<1>6. CASE \E m \in Monitors : MonitorStep(m)
  <2>1. PICK m \in Monitors : MonitorStep(m)
    BY <1>6, Zenon
  <2>2. CASE handleProbeResult(m) /\ m \notin closed
    BY <1>2, <2>2, CountedEarned, Zenon
  <2>3. CASE ~(handleProbeResult(m) /\ m \notin closed)
    <3>1. UNCHANGED <<ctrVars, resultVars>>
      BY <2>1, <2>3, Zenon DEF MonitorStep, StopIdle, TimerFires, ProbeEnds, StopProbing, Drained,
                               TakeResult, handleProbeResult
    <3> QED
      BY <1>2, <1>3, <3>1, Zenon DEF ctrVars, resultVars
  <2> QED
    BY <2>2, <2>3, Zenon
<1> QED
  BY <1>2, <1>4, <1>5, <1>6, Zenon DEF Next

\* A container is reported healthy only on the strength of a success of its latest run,
\* with fewer than Retries failures since, whatever the log and the streak held before.
THEOREM HealthIsEarned == Spec => []HealthyIsEarned
<1>1. Init => HealthyIsEarned
  BY Zenon DEF Init, HealthyIsEarned
<1> QED
  BY <1>1, NextEarned, HealthInvariant, PTL DEF Spec
=============================================================================
