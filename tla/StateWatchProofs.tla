-------------------------- MODULE StateWatchProofs --------------------------
(***************************************************************************)
(* Proofs about StateWatch, for any set of watchers and any capacity of    *)
(* their queues.  A setter either records a change or leaves everything a  *)
(* watcher looks at alone (SetterFacts), so WatchInv is shown for          *)
(* recordStatus and for each step of a watcher.                            *)
(***************************************************************************)
EXTENDS StateWatch, TLAPS

-----------------------------------------------------------------------------
(* The setters *)

\* The snapshot of any state has one of the seven statuses.
LEMMA SnapshotType ==
    ASSUME NEW s
    PROVE  snapshot(s) \in Snapshots
  BY Zenon DEF snapshot, Snapshots, StateString, Statuses

\* Each method of State keeps the types of its fields.
LEMMA MethodTypes ==
    ASSUME NEW s \in State, NEW pid \in Nat, NEW code \in AllCodes, NEW msg \in ErrorMsgs,
           NEW paused \in BOOLEAN
    PROVE  /\ SetRunning(s, pid) \in State
           /\ SetRunningExternal(s, pid) \in State
           /\ SetStopped(s, code) \in State
           /\ SetRestarting(s, code) \in State
           /\ SetPaused(s, paused) \in State
           /\ SetStartError(s, msg) \in State
           /\ SetRemovalInProgress(s) \in State
           /\ ResetRemovalInProgress(s) \in State
           /\ SetDead(s) \in State
           /\ SetRemovalError(s) \in State
           /\ SetRemoved(s) \in State
<1>1. /\ 0 \in AllCodes /\ exitUnknown \in AllCodes /\ 0 \in Nat
      /\ "" \in ErrorMsgs /\ "removal" \in ErrorMsgs
  BY Zenon DEF AllCodes, ExitCodes, exitUnknown, ErrorMsgs
<1>2. SetRunning(s, pid) \in State
  BY <1>1, Zenon DEF SetRunning, State
<1>3. SetRunningExternal(s, pid) \in State
  BY <1>2, Zenon DEF SetRunningExternal, State
<1>4. SetStopped(s, code) \in State /\ SetRestarting(s, code) \in State
  BY <1>1, Zenon DEF SetStopped, SetRestarting, State
<1>5. SetPaused(s, paused) \in State
  BY Zenon DEF SetPaused, State
<1>6. SetStartError(s, msg) \in State
  BY <1>1, Zenon DEF SetStartError, State
<1>7. /\ SetRemovalInProgress(s) \in State /\ ResetRemovalInProgress(s) \in State
      /\ SetDead(s) \in State
  BY Zenon DEF SetRemovalInProgress, ResetRemovalInProgress, SetDead, State
<1>8. SetRemovalError(s) \in State /\ SetRemoved(s) \in State
  BY <1>1, Zenon DEF SetRemovalError, SetRemoved, State
<1> QED
  BY Zenon, <1>2, <1>3, <1>4, <1>5, <1>6, <1>7, <1>8

\* The methods StateSetters calls are those of ContainerState.
LEMMA SameMethods ==
    ASSUME NEW s, NEW x
    PROVE  /\ Setters!SetRunning(s, x) = SetRunning(s, x)
           /\ Setters!SetRunningExternal(s, x) = SetRunningExternal(s, x)
           /\ Setters!SetStopped(s, x) = SetStopped(s, x)
           /\ Setters!SetRestarting(s, x) = SetRestarting(s, x)
           /\ Setters!SetPaused(s, x) = SetPaused(s, x)
           /\ Setters!SetStartError(s, x) = SetStartError(s, x)
           /\ Setters!SetRemovalInProgress(s) = SetRemovalInProgress(s)
           /\ Setters!ResetRemovalInProgress(s) = ResetRemovalInProgress(s)
           /\ Setters!SetDead(s) = SetDead(s)
           /\ Setters!SetRemovalError(s) = SetRemovalError(s)
           /\ Setters!SetRemoved(s) = SetRemoved(s)
  BY Zenon DEF Setters!SetRunning, SetRunning, Setters!SetRunningExternal, SetRunningExternal,
               Setters!SetStopped, SetStopped, Setters!SetRestarting, SetRestarting,
               Setters!SetPaused, SetPaused, Setters!SetStartError, SetStartError,
               Setters!exitUnknown, exitUnknown, Setters!SetRemovalInProgress, SetRemovalInProgress,
               Setters!ResetRemovalInProgress, ResetRemovalInProgress, Setters!SetDead, SetDead,
               Setters!SetRemovalError, SetRemovalError, Setters!SetRemoved, SetRemoved

\* So the daemon's calls keep the state a State.
LEMMA SetterTypes ==
    ASSUME st \in State, Setters!Next
    PROVE  st' \in State
<1>1. /\ Pids \subseteq Nat /\ Codes \subseteq AllCodes /\ Msgs \subseteq ErrorMsgs
      /\ 0 \in Nat /\ 0 \in AllCodes /\ "" \in ErrorMsgs /\ TRUE \in BOOLEAN
  BY WatchAssumption, Zenon DEF AllCodes, ExitCodes, ErrorMsgs
<1>2. CASE Setters!Starts \/ Setters!StartsExternally
  <2>1. PICK pid \in Pids : st' = SetRunning(st, pid) \/ st' = SetRunningExternal(st, pid)
    BY <1>2, SameMethods, Zenon DEF Setters!Starts, Setters!StartsExternally
  <2> QED
    BY <1>1, <2>1, MethodTypes, Zenon
<1>3. CASE Setters!StartFails
  <2>1. PICK msg \in Msgs : st' = SetStartError(st, msg)
    BY <1>3, SameMethods, Zenon DEF Setters!StartFails
  <2> QED
    BY <1>1, <2>1, MethodTypes, Zenon
<1>4. CASE Setters!Stops \/ Setters!Restarts
  <2>1. PICK code \in Codes : st' = SetStopped(st, code) \/ st' = SetRestarting(st, code)
    BY <1>4, SameMethods, Zenon DEF Setters!Stops, Setters!Restarts
  <2> QED
    BY <1>1, <2>1, MethodTypes, Zenon
<1>5. CASE Setters!Pauses
  <2>1. PICK paused \in BOOLEAN : st' = SetPaused(st, paused)
    BY <1>5, SameMethods, Zenon DEF Setters!Pauses
  <2> QED
    BY <1>1, <2>1, MethodTypes, Zenon
<1>6. CASE Setters!RemovalBegins \/ Setters!RemovalEnds \/ Setters!Dies
  <2>1. st' \in {SetRemovalInProgress(st), ResetRemovalInProgress(st), SetDead(st)}
    BY <1>6, SameMethods, Zenon DEF Setters!RemovalBegins, Setters!RemovalEnds, Setters!Dies
  <2> QED
    BY <1>1, <2>1, MethodTypes, Zenon
<1>7. CASE Setters!RemovalFails \/ Setters!Removed
  <2>1. st' \in {SetRemovalError(st), SetRemoved(st)}
    BY <1>7, SameMethods, Zenon DEF Setters!RemovalFails, Setters!Removed
  <2> QED
    BY <1>1, <2>1, MethodTypes, Zenon
<1> QED
  BY <1>2, <1>3, <1>4, <1>5, <1>6, <1>7, Zenon DEF Setters!Next

\* SetError and SetExitCode, and the error of a failed removal, leave the status alone.
LEMMA ErrorsKeepStatus ==
    ASSUME NEW s \in State, NEW msg
    PROVE  /\ StateString(SetStartError(s, msg)) = StateString(s)
           /\ StateString(SetRemovalError(s)) = StateString(s)
  BY Zenon DEF SetStartError, SetRemovalError, StateString, State

\* A change leads from the status before the step to the one after it, unless it is
\* the removal, which need not change the status.
Leads(r) ==
    /\ r.Previous.Status = StateString(st)
    /\ r.Removed \/ (r.Current.Status = StateString(st') /\ r.Previous.Status # r.Current.Status)

\* What a step of the state does to the watchers: nothing, or one change is recorded.
Recorded == ~lastStatus.Removed /\ \E r \in StatusResults : recordStatus(r) /\ Leads(r)

Silent ==
    /\ UNCHANGED <<lastStatus, log, subVars>>
    /\ lastStatus.Removed \/ StateString(st') = StateString(st)

StateStep ==
    /\ st' \in State
    /\ Recorded \/ Silent
    /\ UNCHANGED <<pc, res, cancelled, next>>

LEMMA ChangeFacts ==
    ASSUME st' \in State, change
    PROVE  StateStep
<1>1. CASE lastStatus.Removed \/ snapshot(st').Status = snapshot(st).Status
  BY <1>1, Zenon DEF change, StateStep, Silent, snapshot
<1>2. CASE ~(lastStatus.Removed \/ snapshot(st').Status = snapshot(st).Status)
  <2> DEFINE r == [Current |-> snapshot(st'), Previous |-> snapshot(st), Removed |-> FALSE]
  <2>1. r \in StatusResults
    BY Zenon, SnapshotType DEF StatusResults
  <2>2. recordStatus(r) /\ Leads(r)
    BY <1>2, Zenon DEF change, Leads, snapshot
  <2> HIDE DEF r
  <2>3. Recorded
    BY <1>2, <2>1, <2>2, Zenon DEF Recorded
  <2> QED
    BY <2>3, Zenon DEF change, StateStep
<1> QED
  BY <1>1, <1>2, Zenon

\* Every setter is such a step.
LEMMA SetterFacts ==
    ASSUME st \in State, Setter
    PROVE  StateStep
<1>1. Setters!Next
  BY Zenon DEF Setter, Starts, StartsExternally, Stops, Restarts, Pauses, StartFails, RemovalBegins,
               Dies, RemovalFails, Removed, RemovalEnds, Setters!Next
<1>2. st' \in State
  BY <1>1, SetterTypes, Zenon
<1>3. CASE change
  BY <1>2, <1>3, ChangeFacts, Zenon
<1>4. CASE StartFails
  <2>1. PICK msg \in Msgs : st' = SetStartError(st, msg)
    BY <1>4, SameMethods, Zenon DEF StartFails, Setters!StartFails
  <2> QED
    BY <1>2, <1>4, <2>1, ErrorsKeepStatus, Zenon DEF StartFails, StateStep, Silent
<1>5. CASE RemovalFails
  <2>1. st' = SetRemovalError(st)
    BY <1>5, SameMethods, Zenon DEF RemovalFails, Setters!RemovalFails
  <2> QED
    BY <1>2, <1>5, <2>1, ErrorsKeepStatus, Zenon DEF RemovalFails, StateStep, Silent
<1>6. CASE Removed
  <2>1. CASE lastStatus.Removed
    BY <1>2, <1>6, <2>1, Zenon DEF Removed, StateStep, Silent
  <2>2. CASE ~lastStatus.Removed
    <3> DEFINE r == [Current |-> snapshot(st'), Previous |-> snapshot(st), Removed |-> TRUE]
    <3>1. r \in StatusResults
      BY Zenon, SnapshotType DEF StatusResults
    <3>2. recordStatus(r) /\ Leads(r)
      BY <1>6, <2>2, Zenon DEF Removed, Leads, snapshot
    <3> HIDE DEF r
    <3>3. Recorded
      BY <2>2, <3>1, <3>2, Zenon DEF Recorded
    <3> QED
      BY <1>2, <1>6, <3>3, Zenon DEF Removed, StateStep
  <2> QED
    BY <2>1, <2>2, Zenon
<1> QED
  BY <1>3, <1>4, <1>5, <1>6, Zenon
     DEF Setter, Starts, StartsExternally, Stops, Restarts, Pauses, RemovalBegins, Dies, RemovalEnds

-----------------------------------------------------------------------------
(* The invariant *)

LEMMA NoStatusType == NoStatus \in StatusResults /\ ~NoStatus.Removed
  BY Zenon DEF NoStatus, StatusResults

LEMMA InitInv == Init => WatchInv
<1> SUFFICES ASSUME Init PROVE WatchInv
  BY Zenon
<1>1. NewState \in State
  <2>1. 0 \in AllCodes /\ "" \in ErrorMsgs /\ 0 \in Nat
    BY Zenon DEF AllCodes, ExitCodes, ErrorMsgs
  <2> QED
    BY <2>1, Zenon DEF NewState, State
<1>2. TypeOK
  BY <1>1, NoStatusType DEF Init, TypeOK, Pcs
<1> QED
  BY <1>2, NoStatusType, WatchAssumption DEF Init, WatchInv, Active

\* What a change of the state does to one watcher.
LEMMA RecordWatching ==
    ASSUME WatchInv, ~lastStatus.Removed, NEW r \in StatusResults, recordStatus(r),
           UNCHANGED <<pc, res, cancelled, next>>, st' \in State
    PROVE  WatchInv'
<1> USE DEF WatchInv
<1> DEFINE behind == {w \in subs : Behind(w)}
<1>1. TypeOK'
  <2>1. pending' \in [Watchers -> Seq(StatusResults)]
    BY DEF TypeOK, recordStatus
  <2>2. ready' \in [Watchers -> BOOLEAN] /\ err' \in [Watchers -> BOOLEAN]
    BY Zenon DEF TypeOK, recordStatus
  <2>3. log' \in Seq(StatusResults)
    BY DEF TypeOK, recordStatus
  <2>4. lastStatus' \in StatusResults /\ subs' \subseteq Watchers
    BY Zenon DEF TypeOK, recordStatus
  <2> QED
    BY <2>1, <2>2, <2>3, <2>4, Zenon DEF TypeOK
<1>2. /\ Len(log') = Len(log) + 1 /\ log' # <<>> /\ log'[Len(log')] = r /\ lastStatus' = r
      /\ \A i \in 1..Len(log) : log'[i] = log[i] /\ ~log[i].Removed
  BY DEF TypeOK, recordStatus
<1>3. /\ log' # <<>> => lastStatus' = log'[Len(log')]
      /\ log' = <<>> => ~lastStatus'.Removed
  BY <1>2, Zenon
<1>4. \A i \in 1..Len(log') : log'[i].Removed => i = Len(log')
  BY <1>2 DEF TypeOK
<1>5. ASSUME NEW w \in Watchers
      PROVE  /\ Len(pending'[w]) <= maxPendingStatusChanges
             /\ pc'[w] \in Active => Watching(w)'
             /\ pc'[w] \notin Active => w \notin subs' /\ pending'[w] = <<>> /\ ~err'[w] /\ ~ready'[w]
  <2>0. ASSUME pc[w] \in Active, NEW i \in 1..Len(pending[w])
        PROVE  pending[w][i] = log'[next[w] + i - 1]
    <3>1. /\ Len(pending[w]) \in Nat /\ next[w] \in Nat \ {0} /\ Len(log) \in Nat
          /\ Len(pending[w]) + next[w] <= Len(log) + 1
          /\ pending[w][i] = log[next[w] + i - 1]
      BY <2>0 DEF Watching, TypeOK
    <3>2. next[w] + i - 1 \in 1..Len(log)
      BY <3>1
    <3> QED
      BY <1>2, <3>1, <3>2, Zenon
  <2>1. CASE w \notin subs
    <3>1. /\ pending'[w] = pending[w] /\ w \notin subs'
          /\ err'[w] = err[w] /\ ready'[w] = ready[w]
      BY <2>1, Zenon DEF TypeOK, recordStatus
    <3>2. ASSUME pc[w] \in Active PROVE Watching(w)'
      <4>1. err[w] /\ ~res[w].Removed
        BY <2>1, <3>2, Zenon DEF Watching, TypeOK
      <4> QED
        BY <1>2, <2>0, <2>1, <3>1, <3>2, <4>1 DEF Watching, TypeOK
    <3> QED
      BY <3>1, <3>2, Zenon
  <2>2. CASE w \in subs /\ Len(pending[w]) = maxPendingStatusChanges
    <3>1. /\ pending'[w] = pending[w] /\ w \notin subs'
          /\ err'[w] /\ ready'[w]
      BY <2>2, Zenon DEF TypeOK, recordStatus, Behind
    <3>2. pc[w] \in Active /\ Watching(w) /\ ~res[w].Removed
      BY <2>2, Zenon DEF Watching
    <3> QED
      BY <1>2, <2>0, <2>2, <3>1, <3>2 DEF Watching, TypeOK
  <2>3. CASE w \in subs /\ Len(pending[w]) # maxPendingStatusChanges
    <3>1. /\ pending'[w] = Append(pending[w], r) /\ w \in subs'
          /\ err'[w] = err[w] /\ ready'[w]
      BY <2>3, Zenon DEF TypeOK, recordStatus, Behind
    <3>2. pc[w] \in Active /\ Watching(w) /\ ~res[w].Removed
      BY <2>3, Zenon DEF Watching
    <3>3. /\ Len(pending'[w]) = Len(pending[w]) + 1
          /\ pending'[w][Len(pending[w]) + 1] = r
          /\ \A i \in 1..Len(pending[w]) : pending'[w][i] = pending[w][i]
      BY <3>1 DEF TypeOK
    <3>4. \A i \in 1..Len(pending'[w]) : pending'[w][i] = log'[next[w] + i - 1]
      <4>1. Len(pending[w]) \in Nat /\ next[w] \in Nat /\ Len(pending[w]) + next[w] = Len(log) + 1
        BY <2>3, <3>2 DEF Watching, TypeOK
      <4>2. log'[next[w] + (Len(pending[w]) + 1) - 1] = r
        BY <1>2, <4>1
      <4>3. ASSUME NEW i \in 1..Len(pending'[w]), i # Len(pending[w]) + 1
            PROVE  pending'[w][i] = log'[next[w] + i - 1]
        <5>1. i \in 1..Len(pending[w])
          BY <3>3, <4>1, <4>3
        <5> QED
          BY <2>0, <3>2, <3>3, <5>1, Zenon
      <4> QED
        BY <3>3, <4>2, <4>3, Zenon
    <3>5. Len(pending'[w]) <= maxPendingStatusChanges
      BY <2>3, <3>3, WatchAssumption DEF TypeOK
    <3> QED
      BY <1>2, <2>3, <3>1, <3>2, <3>3, <3>4, <3>5 DEF Watching, TypeOK
  <2> QED
    BY <2>1, <2>2, <2>3, Zenon
<1> QED
  BY <1>1, <1>3, <1>4, <1>5, Zenon

LEMMA SetterInv ==
    ASSUME WatchInv, Setter
    PROVE  WatchInv'
<1>1. StateStep
  BY SetterFacts, Zenon DEF WatchInv, TypeOK
<1>2. CASE Recorded
  BY <1>1, <1>2, RecordWatching, Zenon DEF Recorded, StateStep
<1>3. CASE Silent
  BY <1>1, <1>3 DEF StateStep, Silent, WatchInv, TypeOK, Watching, subVars
<1> QED
  BY <1>1, <1>2, <1>3, Zenon DEF StateStep

\* A step of one watcher leaves what the others have, and the changes, alone.
LEMMA WatcherOnly ==
    ASSUME WatchInv, NEW w \in Watchers, TypeOK',
           UNCHANGED <<lastStatus, log>>,
           Len(pending'[w]) <= maxPendingStatusChanges,
           pc'[w] \in Active => Watching(w)',
           pc'[w] \notin Active => w \notin subs' /\ pending'[w] = <<>> /\ ~err'[w] /\ ~ready'[w],
           \A v \in Watchers \ {w} :
              /\ v \in subs' <=> v \in subs
              /\ pending'[v] = pending[v] /\ ready'[v] = ready[v] /\ err'[v] = err[v]
              /\ pc'[v] = pc[v] /\ res'[v] = res[v] /\ next'[v] = next[v]
    PROVE  WatchInv'
<1>1. ASSUME NEW v \in Watchers \ {w}, pc[v] \in Active, Watching(v)
      PROVE  Watching(v)'
  BY <1>1 DEF Watching
<1> QED
  BY <1>1, Zenon DEF WatchInv

LEMMA LeaveInv ==
    ASSUME WatchInv, NEW w \in Watchers, NEW how \in Pcs \ Active, Leave(w, how),
           UNCHANGED <<stateVars, cancelled>>
    PROVE  WatchInv'
<1>1. TypeOK'
  BY NoStatusType DEF Leave, WatchInv, TypeOK, stateVars
<1>2. pc'[w] \notin Active /\ w \notin subs' /\ pending'[w] = <<>> /\ ~err'[w] /\ ~ready'[w]
  BY Zenon DEF Leave, WatchInv, TypeOK
<1>3. \A v \in Watchers \ {w} :
              /\ v \in subs' <=> v \in subs
              /\ pending'[v] = pending[v] /\ ready'[v] = ready[v] /\ err'[v] = err[v]
              /\ pc'[v] = pc[v] /\ res'[v] = res[v] /\ next'[v] = next[v]
  BY Zenon DEF Leave, WatchInv, TypeOK
<1>4. Len(pending'[w]) <= maxPendingStatusChanges
  BY <1>2, WatchAssumption
<1> QED
  BY <1>1, <1>2, <1>3, <1>4, WatcherOnly, Zenon DEF stateVars

LEMMA CurrentStatusFacts ==
    ASSUME TypeOK
    PROVE  currentStatus \in StatusResults /\ currentStatus.Removed = lastStatus.Removed
  BY SnapshotType, Zenon DEF currentStatus, TypeOK, StatusResults

LEMMA SubscribeInv ==
    ASSUME WatchInv, NEW w \in Watchers, Subscribe(w)
    PROVE  WatchInv'
<1> USE DEF Subscribe, WatchInv, stateVars
<1>1. TypeOK'
  BY CurrentStatusFacts DEF TypeOK, Pcs
<1>2. pc[w] \notin Active /\ pc'[w] = "yield" /\ pc'[w] \in Active
  BY Zenon DEF TypeOK, Active
<1>3. /\ pending'[w] = <<>> /\ ~err'[w] /\ next'[w] = Len(log) + 1
      /\ res'[w].Removed = lastStatus.Removed
      /\ w \in subs' <=> ~lastStatus.Removed
  BY <1>2, CurrentStatusFacts, Zenon DEF TypeOK
<1>4. Watching(w)'
  BY <1>2, <1>3 DEF Watching, TypeOK
<1>5. \A v \in Watchers \ {w} :
              /\ v \in subs' <=> v \in subs
              /\ pending'[v] = pending[v] /\ ready'[v] = ready[v] /\ err'[v] = err[v]
              /\ pc'[v] = pc[v] /\ res'[v] = res[v] /\ next'[v] = next[v]
  BY Zenon DEF TypeOK
<1>6. Len(pending'[w]) <= maxPendingStatusChanges
  BY Zenon
<1> HIDE DEF WatchInv
<1> QED
  BY <1>1, <1>2, <1>4, <1>5, <1>6, WatcherOnly, Zenon

LEMMA YieldInv ==
    ASSUME WatchInv, NEW w \in Watchers, YieldResult(w)
    PROVE  WatchInv'
<1>1. CASE Leave(w, "broken") \/ Leave(w, "ended")
  BY <1>1, LeaveInv, Zenon DEF YieldResult, Pcs, Active
<1>2. CASE ~res[w].Removed /\ pc' = [pc EXCEPT ![w] = "next"] /\ UNCHANGED <<subVars, res, next>>
  <2> USE DEF WatchInv, stateVars, subVars
  <2>1. TypeOK'
    BY <1>2, Zenon DEF TypeOK, Pcs, YieldResult
  <2>2. pc[w] \in Active /\ pc'[w] = "next" /\ pc'[w] \in Active
    BY <1>2, Zenon DEF TypeOK, Active, YieldResult
  <2>3. Watching(w)'
    BY <1>2, <2>2, Zenon DEF Watching, YieldResult
  <2>4. \A v \in Watchers \ {w} : pc'[v] = pc[v]
    BY <1>2, Zenon DEF TypeOK
  <2>5. Len(pending'[w]) <= maxPendingStatusChanges
    BY <1>2, Zenon
  <2>6. UNCHANGED <<lastStatus, log>>
    BY Zenon DEF YieldResult
  <2> HIDE DEF WatchInv
  <2> QED
    BY <1>2, <2>1, <2>2, <2>3, <2>4, <2>5, <2>6, WatcherOnly, Zenon
<1> QED
  BY <1>1, <1>2, Zenon DEF YieldResult

\* The first queued change is the one the watcher is to see next.
LEMMA DequeueFacts ==
    ASSUME WatchInv, NEW w \in Watchers, pc[w] = "next", Dequeue(w)
    PROVE  /\ next[w] \in 1..Len(log) /\ res'[w] = log[next[w]]
           /\ Len(pending[w]) \in Nat \ {0} /\ Len(pending'[w]) = Len(pending[w]) - 1
           /\ next'[w] = next[w] + 1
           /\ \A i \in 1..Len(pending'[w]) : pending'[w][i] = pending[w][i + 1]
           /\ pending' \in [Watchers -> Seq(StatusResults)] /\ res'[w] \in StatusResults
<1> USE DEF WatchInv, TypeOK, Dequeue
<1>1. pending[w] \in Seq(StatusResults) /\ pending[w] # <<>> /\ Watching(w)
  BY Zenon DEF Active
<1>2. Len(pending[w]) \in Nat \ {0} /\ 1 \in 1..Len(pending[w])
  BY <1>1
<1>3. res'[w] = pending[w][1] /\ pending[w][1] \in StatusResults
  BY <1>1, <1>2
<1>4. /\ pending'[w] = Tail(pending[w]) /\ pending' \in [Watchers -> Seq(StatusResults)]
      /\ Len(pending'[w]) = Len(pending[w]) - 1
      /\ \A i \in 1..Len(pending'[w]) : pending'[w][i] = pending[w][i + 1]
  BY <1>1, <1>2
<1>5. pending[w][1] = log[next[w] + 1 - 1]
  BY <1>1, <1>2, Zenon DEF Watching
<1>6. next[w] \in 1..Len(log) /\ next[w] + 1 - 1 = next[w]
  BY <1>1, <1>2 DEF Watching
<1> QED
  BY <1>2, <1>3, <1>4, <1>5, <1>6, Zenon

LEMMA DequeueInv ==
    ASSUME WatchInv, NEW w \in Watchers, pc[w] = "next", Dequeue(w),
           UNCHANGED <<stateVars, cancelled>>
    PROVE  WatchInv'
<1> USE DEF WatchInv, stateVars
<1>1. TypeOK'
  BY DequeueFacts DEF Dequeue, TypeOK, Pcs
<1>2. pc[w] \in Active /\ pc'[w] = "yield" /\ pc'[w] \in Active
  BY Zenon DEF TypeOK, Active, Dequeue
<1>3. \A i \in 1..Len(pending'[w]) : pending'[w][i] = log'[next'[w] + i - 1]
  <2>1. ASSUME NEW i \in 1..Len(pending'[w]) PROVE pending'[w][i] = log'[next'[w] + i - 1]
    <3>1. i + 1 \in 1..Len(pending[w]) /\ pending'[w][i] = pending[w][i + 1]
      BY DequeueFacts
    <3>2. pending[w][i + 1] = log[next[w] + (i + 1) - 1]
      BY <1>2, <3>1, Zenon DEF Watching
    <3>3. next[w] + (i + 1) - 1 = next'[w] + i - 1
      BY DequeueFacts DEF TypeOK
    <3> QED
      BY <3>1, <3>2, <3>3, Zenon
  <2> QED
    BY <2>1, Zenon
<1>4. res'[w].Removed => lastStatus'.Removed /\ next'[w] = Len(log') + 1
  BY DequeueFacts DEF TypeOK
<1>5. Watching(w)'
  <2>1. Watching(w) /\ next[w] \in Nat /\ Len(log) \in Nat
    BY <1>2 DEF TypeOK
  <2>2. Len(pending'[w]) + next'[w] = Len(pending[w]) + next[w]
    <3>1. /\ Len(pending[w]) \in Nat /\ Len(pending'[w]) = Len(pending[w]) - 1
          /\ next'[w] = next[w] + 1
      BY DequeueFacts, Zenon
    <3>2. \A m, n \in Nat : (m - 1) + (n + 1) = m + n
      OBVIOUS
    <3> QED
      BY <2>1, <3>1, <3>2, ZenonT(30)
  <2>3. err' = err /\ subs' = subs
    BY Zenon DEF Dequeue
  <2>4. w \in subs \/ err[w]
    BY <1>2, <2>1, Zenon DEF Watching
  <2> QED
    BY <1>2, <1>3, <1>4, <2>1, <2>2, <2>3, <2>4, Zenon DEF Watching
<1>6. \A v \in Watchers \ {w} :
              /\ v \in subs' <=> v \in subs
              /\ pending'[v] = pending[v] /\ ready'[v] = ready[v] /\ err'[v] = err[v]
              /\ pc'[v] = pc[v] /\ res'[v] = res[v] /\ next'[v] = next[v]
  BY Zenon DEF TypeOK, Dequeue
<1>7. Len(pending'[w]) <= maxPendingStatusChanges
  BY DequeueFacts, WatchAssumption DEF TypeOK
<1> HIDE DEF WatchInv
<1> QED
  BY <1>1, <1>2, <1>5, <1>6, <1>7, WatcherOnly, Zenon

LEMMA NextStatusInv ==
    ASSUME WatchInv, NEW w \in Watchers, nextStatus(w)
    PROVE  WatchInv'
<1>1. CASE Leave(w, "failed")
  BY <1>1, LeaveInv, Zenon DEF nextStatus, Pcs, Active
<1>2. CASE Dequeue(w)
  BY <1>2, DequeueInv, Zenon DEF nextStatus
<1>3. CASE /\ pending[w] = <<>> /\ ~err[w]
           /\ pc' = [pc EXCEPT ![w] = "wait"] /\ UNCHANGED <<subVars, res, next>>
  <2> USE DEF WatchInv, stateVars, subVars
  <2>1. TypeOK'
    BY <1>3, Zenon DEF TypeOK, Pcs, nextStatus
  <2>2. pc[w] = "next" /\ pc[w] \in Active /\ pc'[w] = "wait" /\ pc'[w] \in Active
    BY <1>3, Zenon DEF TypeOK, Active, nextStatus
  <2>3. Watching(w)'
    BY <1>3, <2>2, Zenon DEF Watching, nextStatus
  <2>4. \A v \in Watchers \ {w} : pc'[v] = pc[v]
    BY <1>3, Zenon DEF TypeOK
  <2>5. Len(pending'[w]) <= maxPendingStatusChanges
    BY <1>3, Zenon
  <2>6. UNCHANGED <<lastStatus, log>>
    BY Zenon DEF nextStatus
  <2> HIDE DEF WatchInv
  <2> QED
    BY <1>3, <2>1, <2>2, <2>3, <2>4, <2>5, <2>6, WatcherOnly, Zenon
<1> QED
  BY <1>1, <1>2, <1>3, Zenon DEF nextStatus

LEMMA SelectInv ==
    ASSUME WatchInv, NEW w \in Watchers, Select(w)
    PROVE  WatchInv'
<1>1. CASE Leave(w, "failed")
  BY <1>1, LeaveInv, Zenon DEF Select, Pcs, Active
<1>2. CASE /\ ready' = [ready EXCEPT ![w] = FALSE]
           /\ pc' = [pc EXCEPT ![w] = "next"]
           /\ UNCHANGED <<subs, pending, err, res, next>>
  <2> USE DEF WatchInv, stateVars
  <2>1. TypeOK'
    BY <1>2, Zenon DEF TypeOK, Pcs, Select
  <2>2. pc[w] = "wait" /\ pc[w] \in Active /\ pc'[w] = "next" /\ pc'[w] \in Active
    BY <1>2, Zenon DEF TypeOK, Active, Select
  <2>3. Watching(w)'
    BY <1>2, <2>2, Zenon DEF Watching, Select
  <2>4. \A v \in Watchers \ {w} : pc'[v] = pc[v] /\ ready'[v] = ready[v]
    BY <1>2, Zenon DEF TypeOK
  <2>5. Len(pending'[w]) <= maxPendingStatusChanges
    BY <1>2, Zenon
  <2>6. UNCHANGED <<lastStatus, log>>
    BY Zenon DEF Select
  <2> HIDE DEF WatchInv
  <2> QED
    BY Zenon, <1>2, <2>1, <2>2, <2>3, <2>4, <2>5, <2>6, WatcherOnly
<1> QED
  BY <1>1, <1>2, Zenon DEF Select

LEMMA NextInv == WatchInv /\ [Next]_vars => WatchInv'
<1> SUFFICES ASSUME WatchInv, [Next]_vars PROVE WatchInv'
  BY Zenon
<1>1. CASE Setter
  BY <1>1, SetterInv, Zenon
<1>2. CASE \E w \in Watchers : Subscribe(w)
  BY <1>2, SubscribeInv, Zenon
<1>3. CASE \E w \in Watchers : WatcherStep(w)
  BY <1>3, YieldInv, NextStatusInv, SelectInv, Zenon DEF WatcherStep
<1>4. CASE \E w \in Watchers : Cancel(w)
  BY <1>4 DEF Cancel, WatchInv, TypeOK, Watching, stateVars, subVars
<1>5. CASE UNCHANGED vars
  BY <1>5, Zenon DEF vars, WatchInv, TypeOK, Watching
<1> QED
  BY <1>1, <1>2, <1>3, <1>4, <1>5, Zenon DEF Next

\* WatchInv holds of every reachable state.
THEOREM WatchInvHolds == Spec => []WatchInv
  BY InitInv, NextInv, PTL DEF Spec

\* The variables keep their types.
THEOREM TypesHold == Spec => []TypeOK
  BY WatchInvHolds, PTL DEF WatchInv

\* The queue of a subscriber is the changes it has not seen, in order (recordStatus
\* against nextStatus), for any number of watchers and any capacity.
THEOREM QueuesAreSuffixes == Spec => []QueueIsSuffix
<1>1. WatchInv => QueueIsSuffix
  BY DEF WatchInv, QueueIsSuffix, Watching, TypeOK
<1> QED
  BY <1>1, WatchInvHolds, PTL

\* A queue stays within its capacity, and a watcher is dropped only with a change
\* still to be seen.
THEOREM DropsAreReported == Spec => []DroppedOnlyBehind
<1>1. WatchInv => DroppedOnlyBehind
  BY DEF WatchInv, DroppedOnlyBehind, Watching, TypeOK
<1> QED
  BY <1>1, WatchInvHolds, PTL

\* No watcher sleeps in the select of nextStatus with something to do.
THEOREM WakeupsAreKept == Spec => []NoLostWakeup
<1>1. WatchInv => NoLostWakeup
  BY Zenon DEF WatchInv, NoLostWakeup, Watching, Active
<1> QED
  BY <1>1, WatchInvHolds, PTL

-----------------------------------------------------------------------------
(* The chain of changes *)

\* Both chains, with the invariant of the queues, are kept by every step: the next
\* change starts where the last one ended, which is where a watcher that has seen
\* every change is.
ChainInv == WatchInv /\ ChangesChain /\ WatcherChain

LEMMA RecordedChain ==
    ASSUME ChainInv, ~lastStatus.Removed, NEW r \in StatusResults, recordStatus(r), Leads(r),
           UNCHANGED <<pc, res, cancelled, next>>
    PROVE  ChangesChain' /\ WatcherChain'
<1> USE DEF ChainInv
<1>1. /\ Len(log) \in Nat /\ Len(log') = Len(log) + 1 /\ log' # <<>>
      /\ log'[Len(log')] = r /\ lastStatus' = r
      /\ \A i \in 1..Len(log) : log'[i] = log[i] /\ ~log[i].Removed
  BY DEF WatchInv, TypeOK, recordStatus
<1>2. Len(log) > 0 => log[Len(log)].Current.Status = StateString(st)
  BY <1>1 DEF ChangesChain, WatchInv, TypeOK
<1>3. ASSUME NEW i \in 1..Len(log')
      PROVE  /\ i > 1 => log'[i].Previous.Status = log'[i - 1].Current.Status
             /\ log'[i].Removed \/ log'[i].Previous.Status # log'[i].Current.Status
             /\ log'[i].Removed => i = Len(log')
  <2>1. CASE i = Len(log')
    <3>1. i > 1 => log'[i - 1] = log[Len(log)] /\ Len(log) > 0
      BY <1>1, <2>1
    <3> QED
      BY <1>1, <1>2, <2>1, <3>1, Zenon DEF Leads
  <2>2. CASE i # Len(log')
    <3>1. i \in 1..Len(log) /\ (i > 1 => i - 1 \in 1..Len(log))
      BY <1>1, <2>2
    <3> QED
      BY <1>1, <3>1, Zenon DEF ChangesChain
  <2> QED
    BY <2>1, <2>2, Zenon
<1>4. ChangesChain'
  BY <1>1, <1>3, Zenon DEF ChangesChain, Leads
<1>5. ASSUME NEW w \in Watchers, pc'[w] \in Active
      PROVE  /\ next'[w] <= Len(log') => log'[next'[w]].Previous.Status = res'[w].Current.Status
             /\ next'[w] <= Len(log')
  <2>1. next[w] \in Nat \ {0} /\ Len(pending[w]) \in Nat /\ Watching(w)
    BY <1>5 DEF WatchInv, TypeOK
  <2>2. next[w] <= Len(log) + 1
    BY <1>1, <2>1 DEF Watching
  <2>3. CASE next[w] = Len(log) + 1
    <3>1. next[w] > Len(log)
      BY <1>1, <2>3
    <3>2. res[w].Current.Status = StateString(st)
      BY <1>5, <3>1, Zenon DEF WatcherChain
    <3> QED
      BY <1>1, <2>2, <2>3, <3>2 DEF Leads
  <2>4. CASE next[w] # Len(log) + 1
    <3>1. next[w] <= Len(log) /\ next[w] \in 1..Len(log) /\ next[w] <= Len(log')
      BY <1>1, <2>1, <2>2, <2>4
    <3> QED
      BY <1>1, <1>5, <3>1, Zenon DEF WatcherChain
  <2> QED
    BY <2>3, <2>4, Zenon
<1>6. WatcherChain'
  <2>1. \A m, n \in Nat : m <= n => ~(m > n)
    OBVIOUS
  <2>2. ASSUME NEW w \in Watchers PROVE next'[w] \in Nat /\ Len(log') \in Nat
    BY <1>1 DEF WatchInv, TypeOK
  <2> QED
    BY <1>5, <2>1, <2>2, Zenon DEF WatcherChain
<1> QED
  BY <1>4, <1>6, Zenon

\* A step of one watcher leaves the others where they are.
LEMMA OneWatcherChain ==
    ASSUME ChainInv, UNCHANGED stateVars, NEW w \in Watchers,
           \A v \in Watchers \ {w} : pc'[v] = pc[v] /\ res'[v] = res[v] /\ next'[v] = next[v],
           pc'[w] \in Active =>
              /\ next'[w] <= Len(log) => log[next'[w]].Previous.Status = res'[w].Current.Status
              /\ next'[w] > Len(log) /\ ~lastStatus.Removed =>
                    res'[w].Current.Status = StateString(st)
    PROVE  ChangesChain' /\ WatcherChain'
<1>1. ChangesChain'
  BY Zenon DEF ChainInv, ChangesChain, stateVars
<1>2. ASSUME NEW v \in Watchers, pc'[v] \in Active
      PROVE  /\ next'[v] <= Len(log') => log'[next'[v]].Previous.Status = res'[v].Current.Status
             /\ next'[v] > Len(log') /\ ~lastStatus'.Removed =>
                   res'[v].Current.Status = StateString(st')
  <2>1. CASE v = w
    BY <1>2, <2>1, Zenon DEF stateVars
  <2>2. CASE v # w
    BY <1>2, <2>2, Zenon DEF ChainInv, WatcherChain, stateVars
  <2> QED
    BY <2>1, <2>2, Zenon
<1> QED
  BY <1>1, <1>2, Zenon DEF WatcherChain

LEMMA LeaveChain ==
    ASSUME ChainInv, NEW w \in Watchers, NEW how \in Pcs \ Active, Leave(w, how),
           UNCHANGED stateVars
    PROVE  ChangesChain' /\ WatcherChain'
<1>1. /\ \A v \in Watchers \ {w} : pc'[v] = pc[v] /\ res'[v] = res[v] /\ next'[v] = next[v]
      /\ pc'[w] \notin Active
  BY Zenon DEF Leave, ChainInv, WatchInv, TypeOK
<1> QED
  BY <1>1, OneWatcherChain, Zenon

\* A watcher that moves within its iteration without taking a result.
LEMMA MoveChain ==
    ASSUME ChainInv, NEW w \in Watchers, NEW p \in Pcs, pc[w] \in Active,
           pc' = [pc EXCEPT ![w] = p], UNCHANGED <<stateVars, res, next>>
    PROVE  ChangesChain' /\ WatcherChain'
<1>1. \A v \in Watchers \ {w} : pc'[v] = pc[v] /\ res'[v] = res[v] /\ next'[v] = next[v]
  BY Zenon DEF ChainInv, WatchInv, TypeOK
<1> QED
  BY <1>1, OneWatcherChain, Zenon DEF ChainInv, WatcherChain

LEMMA DequeueChain ==
    ASSUME ChainInv, NEW w \in Watchers, pc[w] = "next", Dequeue(w), UNCHANGED stateVars
    PROVE  ChangesChain' /\ WatcherChain'
<1>1. \A v \in Watchers \ {w} : pc'[v] = pc[v] /\ res'[v] = res[v] /\ next'[v] = next[v]
  BY Zenon DEF Dequeue, ChainInv, WatchInv, TypeOK
<1>2. next[w] \in 1..Len(log) /\ res'[w] = log[next[w]] /\ next'[w] = next[w] + 1 /\ Len(log) \in Nat
  BY DequeueFacts DEF ChainInv, WatchInv, TypeOK
<1>3. next'[w] <= Len(log) => log[next'[w]].Previous.Status = res'[w].Current.Status
  <2> SUFFICES ASSUME next'[w] <= Len(log)
               PROVE  log[next'[w]].Previous.Status = res'[w].Current.Status
    BY Zenon
  <2>1. next'[w] \in 1..Len(log) /\ next'[w] > 1 /\ next'[w] - 1 = next[w]
    BY <1>2
  <2> QED
    BY <1>2, <2>1, ZenonT(60) DEF ChainInv, ChangesChain
<1>4. next'[w] > Len(log) /\ ~lastStatus.Removed => res'[w].Current.Status = StateString(st)
  <2> SUFFICES ASSUME next'[w] > Len(log), ~lastStatus.Removed
               PROVE  res'[w].Current.Status = StateString(st)
    BY Zenon
  <2>1. next[w] = Len(log) /\ log # <<>>
    BY <1>2 DEF ChainInv, WatchInv, TypeOK
  <2> QED
    BY <1>2, <2>1, ZenonT(60) DEF ChainInv, ChangesChain
<1> QED
  BY <1>1, <1>3, <1>4, OneWatcherChain, Zenon

LEMMA SubscribeChain ==
    ASSUME ChainInv, NEW w \in Watchers, Subscribe(w)
    PROVE  ChangesChain' /\ WatcherChain'
<1>1. \A v \in Watchers \ {w} : pc'[v] = pc[v] /\ res'[v] = res[v] /\ next'[v] = next[v]
  BY Zenon DEF Subscribe, ChainInv, WatchInv, TypeOK
<1>2. next'[w] = Len(log) + 1 /\ Len(log) \in Nat /\ res'[w] = currentStatus
  BY DEF Subscribe, ChainInv, WatchInv, TypeOK
<1>3. ~lastStatus.Removed => currentStatus.Current.Status = StateString(st)
  BY Zenon DEF currentStatus, snapshot, ChainInv, WatchInv, TypeOK, StatusResults
<1>4. ~(next'[w] <= Len(log))
  BY <1>2
<1> QED
  BY <1>1, <1>2, <1>3, <1>4, OneWatcherChain, Zenon DEF Subscribe

LEMMA ChainStep == ChainInv /\ [Next]_vars => ChangesChain' /\ WatcherChain'
<1> SUFFICES ASSUME ChainInv, [Next]_vars PROVE ChangesChain' /\ WatcherChain'
  BY Zenon
<1>1. CASE Setter
  <2>1. StateStep
    BY <1>1, SetterFacts, Zenon DEF ChainInv, WatchInv, TypeOK
  <2>2. CASE Recorded
    BY <2>1, <2>2, RecordedChain, Zenon DEF Recorded, StateStep
  <2>3. CASE Silent
    BY <2>1, <2>3, Zenon DEF Silent, StateStep, ChainInv, ChangesChain, WatcherChain
  <2> QED
    BY <2>1, <2>2, <2>3, Zenon DEF StateStep
<1>2. CASE \E w \in Watchers : Subscribe(w)
  BY <1>2, SubscribeChain, Zenon
<1>3. ASSUME NEW w \in Watchers, YieldResult(w) PROVE ChangesChain' /\ WatcherChain'
  <2>1. CASE Leave(w, "broken") \/ Leave(w, "ended")
    BY <1>3, <2>1, LeaveChain, Zenon DEF YieldResult, Pcs, Active
  <2>2. CASE pc' = [pc EXCEPT ![w] = "next"] /\ UNCHANGED <<res, next>>
    BY <1>3, <2>2, MoveChain, Zenon DEF YieldResult, Pcs, Active
  <2> QED
    BY <1>3, <2>1, <2>2, Zenon DEF YieldResult
<1>4. ASSUME NEW w \in Watchers, nextStatus(w) PROVE ChangesChain' /\ WatcherChain'
  <2>1. CASE Leave(w, "failed")
    BY <1>4, <2>1, LeaveChain, Zenon DEF nextStatus, Pcs, Active
  <2>2. CASE Dequeue(w)
    BY <1>4, <2>2, DequeueChain, Zenon DEF nextStatus
  <2>3. CASE pc' = [pc EXCEPT ![w] = "wait"] /\ UNCHANGED <<res, next>>
    BY <1>4, <2>3, MoveChain, Zenon DEF nextStatus, Pcs, Active
  <2> QED
    BY <1>4, <2>1, <2>2, <2>3, Zenon DEF nextStatus
<1>5. ASSUME NEW w \in Watchers, Select(w) PROVE ChangesChain' /\ WatcherChain'
  <2>1. CASE Leave(w, "failed")
    BY <1>5, <2>1, LeaveChain, Zenon DEF Select, Pcs, Active
  <2>2. CASE pc' = [pc EXCEPT ![w] = "next"] /\ UNCHANGED <<res, next>>
    BY <1>5, <2>2, MoveChain, Zenon DEF Select, Pcs, Active
  <2> QED
    BY <1>5, <2>1, <2>2, Zenon DEF Select
<1>6. CASE \E w \in Watchers : Cancel(w)
  BY <1>6, Zenon DEF Cancel, stateVars, ChainInv, ChangesChain, WatcherChain
<1>7. CASE UNCHANGED vars
  BY <1>7, Zenon DEF vars, ChainInv, ChangesChain, WatcherChain
<1> QED
  BY <1>1, <1>2, <1>3, <1>4, <1>5, <1>6, <1>7, Zenon DEF Next, WatcherStep

LEMMA ChainInvHolds == Spec => []ChainInv
<1>1. Init => ChangesChain /\ WatcherChain
  <2> SUFFICES ASSUME Init PROVE ChangesChain /\ WatcherChain
    BY Zenon
  <2>1. log = <<>> /\ 1..Len(log) = {}
    BY DEF Init
  <2>2. \A w \in Watchers : pc[w] \notin Active
    BY Zenon DEF Init, Active
  <2> QED
    BY <2>1, <2>2, Zenon DEF ChangesChain, WatcherChain
<1>2. ChainInv /\ [Next]_vars => ChainInv'
  BY ChainStep, NextInv, Zenon DEF ChainInv
<1>3. Init => ChainInv
  BY <1>1, InitInv, Zenon DEF ChainInv
<1> QED
  BY <1>2, <1>3, PTL DEF Spec

\* The status changes State.change and recordStatus leave behind form a chain that
\* ends in the present status: no setter changes the status behind their back.
THEOREM ChangesAreAChain == Spec => []ChangesChain
  BY ChainInvHolds, PTL DEF ChainInv

\* What StatusChanges has yielded leads to what it will yield next, and is the present
\* status when nothing is left to yield, however the subscription races the setters.
THEOREM WatchersFollowTheChain == Spec => []WatcherChain
  BY ChainInvHolds, PTL DEF ChainInv

-----------------------------------------------------------------------------
(* The promise of StatusChanges *)

mode == [w \in Watchers |-> IF pc[w] \in Active THEN "on" ELSE pc[w]]

LEMMA FinalFacts ==
    ASSUME WatchInv
    PROVE  Feed!Final <=> lastStatus.Removed
  BY Zenon DEF WatchInv, Feed!Final

\* the step of mode when one watcher moves
LEMMA ModeStep ==
    ASSUME TypeOK, NEW w \in Watchers, NEW p \in Pcs, pc' = [pc EXCEPT ![w] = p]
    PROVE  mode' = [mode EXCEPT ![w] = IF p \in Active THEN "on" ELSE p]
  BY Zenon DEF TypeOK, mode

LEMMA LeaveIsClose ==
    ASSUME WatchInv, NEW w \in Watchers, NEW how \in Pcs \ Active, pc[w] \in Active,
           Leave(w, how), UNCHANGED <<stateVars, cancelled>>
    PROVE  Feed!Close(w, how)
<1>1. mode' = [mode EXCEPT ![w] = how] /\ mode[w] = "on"
  BY ModeStep, Zenon DEF Leave, WatchInv, mode
<1> QED
  BY <1>1, Zenon DEF Feed!Close, Leave, stateVars, mode

LEMMA StepRefines == WatchInv /\ [Next]_vars => [Feed!FeedNext]_(Feed!feedVars)
<1> SUFFICES ASSUME WatchInv, [Next]_vars
             PROVE  Feed!FeedNext \/ UNCHANGED Feed!feedVars
  BY Zenon
<1>1. CASE Setter
  <2>1. StateStep
    BY <1>1, SetterFacts, Zenon DEF WatchInv, TypeOK
  <2>2. CASE Recorded
    BY <2>1, <2>2, FinalFacts, Zenon
       DEF StateStep, Recorded, recordStatus, Feed!FeedNext, Feed!Record
  <2>3. CASE Silent
    BY <2>1, <2>3, Zenon DEF StateStep, Silent, Feed!feedVars
  <2> QED
    BY <2>1, <2>2, <2>3, Zenon DEF StateStep
<1>2. ASSUME NEW w \in Watchers, Subscribe(w) PROVE Feed!FeedNext
  <2>1. mode' = [mode EXCEPT ![w] = "on"] /\ mode[w] = "off"
    BY <1>2, ModeStep, Zenon DEF Subscribe, WatchInv, Pcs, Active, mode
  <2>2. currentStatus \in StatusResults /\ currentStatus.Removed = Feed!Final
    <3>1. Feed!Final \in BOOLEAN /\ lastStatus.Removed \in BOOLEAN
      BY Zenon DEF WatchInv, TypeOK, StatusResults, Feed!Final
    <3> QED
      BY <3>1, CurrentStatusFacts, FinalFacts, Zenon DEF WatchInv
  <2>3. Feed!Open(w)
    BY <1>2, <2>1, <2>2, Zenon DEF Subscribe, Feed!Open, stateVars, mode
  <2> QED
    BY <2>3, Zenon DEF Feed!FeedNext
<1>3. ASSUME NEW w \in Watchers, YieldResult(w) PROVE Feed!FeedNext \/ UNCHANGED Feed!feedVars
  <2>1. CASE Leave(w, "broken")
    BY <1>3, <2>1, LeaveIsClose, Zenon DEF YieldResult, Feed!FeedNext, Feed!Break, Pcs, Active
  <2>2. CASE res[w].Removed /\ Leave(w, "ended")
    <3>1. Feed!Final /\ next[w] = Len(log) + 1
      BY <1>3, <2>2, FinalFacts, Zenon DEF YieldResult, WatchInv, Watching, Active
    <3>2. Feed!Close(w, "ended")
      BY <1>3, <2>2, LeaveIsClose, Zenon DEF YieldResult, Pcs, Active
    <3> QED
      BY <3>1, <3>2, Zenon DEF Feed!FeedNext, Feed!End
  <2>3. CASE pc' = [pc EXCEPT ![w] = "next"] /\ UNCHANGED <<subVars, res, next>>
    <3>1. mode' = mode
      BY <1>3, <2>3, Zenon DEF YieldResult, WatchInv, TypeOK, Active, mode
    <3> QED
      BY <1>3, <2>3, <3>1, Zenon DEF YieldResult, Feed!feedVars, stateVars, mode
  <2> QED
    BY <1>3, <2>1, <2>2, <2>3, Zenon DEF YieldResult
<1>4. ASSUME NEW w \in Watchers, nextStatus(w) PROVE Feed!FeedNext \/ UNCHANGED Feed!feedVars
  <2>1. CASE (w \in cancelled \/ err[w]) /\ Leave(w, "failed")
    <3>1. w \in cancelled \/ next[w] <= Len(log)
      BY <1>4, <2>1 DEF nextStatus, WatchInv, TypeOK, Watching, Active
    <3>2. Feed!Close(w, "failed")
      BY <1>4, <2>1, LeaveIsClose, Zenon DEF nextStatus, Pcs, Active
    <3> QED
      BY <3>1, <3>2, Zenon DEF Feed!FeedNext, Feed!Fail
  <2>2. CASE Dequeue(w)
    <3>1. mode' = mode /\ mode[w] = "on"
      BY <1>4, <2>2, Zenon DEF nextStatus, Dequeue, WatchInv, TypeOK, Active, mode
    <3>2. next[w] <= Len(log) /\ res'[w] = log[next[w]]
      BY <1>4, <2>2, DequeueFacts DEF nextStatus, WatchInv, TypeOK
    <3>3. res' = [res EXCEPT ![w] = log[next[w]]]
      BY <2>2, <3>2, Zenon DEF Dequeue, WatchInv, TypeOK
    <3>4. Feed!Yield(w)
      BY <1>4, <2>2, <3>1, <3>2, <3>3, Zenon DEF Feed!Yield, Dequeue, nextStatus, stateVars, mode
    <3> QED
      BY <3>4, Zenon DEF Feed!FeedNext
  <2>3. CASE pc' = [pc EXCEPT ![w] = "wait"] /\ UNCHANGED <<subVars, res, next>>
    <3>1. mode' = mode
      BY <1>4, <2>3, Zenon DEF nextStatus, WatchInv, TypeOK, Active, mode
    <3> QED
      BY <1>4, <2>3, <3>1, Zenon DEF nextStatus, Feed!feedVars, stateVars, mode
  <2> QED
    BY <1>4, <2>1, <2>2, <2>3, Zenon DEF nextStatus
<1>5. ASSUME NEW w \in Watchers, Select(w) PROVE Feed!FeedNext \/ UNCHANGED Feed!feedVars
  <2>1. CASE w \in cancelled /\ Leave(w, "failed")
    BY <1>5, <2>1, LeaveIsClose, Zenon DEF Select, Pcs, Active, Feed!FeedNext, Feed!Fail
  <2>2. CASE pc' = [pc EXCEPT ![w] = "next"] /\ UNCHANGED <<subs, pending, err, res, next>>
    <3>1. mode' = mode
      BY <1>5, <2>2, Zenon DEF Select, WatchInv, TypeOK, Active, mode
    <3> QED
      BY <1>5, <2>2, <3>1, Zenon DEF Select, Feed!feedVars, stateVars, mode
  <2> QED
    BY <1>5, <2>1, <2>2, Zenon DEF Select
<1>6. ASSUME NEW w \in Watchers, Cancel(w) PROVE Feed!FeedNext
  BY <1>6, Zenon DEF Cancel, stateVars, Feed!FeedNext, Feed!Cancel
<1>7. CASE UNCHANGED vars
  BY <1>7, Zenon DEF vars, Feed!feedVars
<1> QED
  BY <1>1, <1>2, <1>3, <1>4, <1>5, <1>6, <1>7, Zenon DEF Next, WatcherStep

\* The subscribers and their queues implement what the documentation of
\* StatusChanges promises: every step is a step of StatusFeed or leaves it alone.
THEOREM FeedIsImplemented == Spec => ImplementsFeed
<1>1. Init => Feed!FeedInit
  BY Zenon DEF Init, Feed!FeedInit, Active
<1> QED
  BY <1>1, StepRefines, WatchInvHolds, PTL DEF Spec, ImplementsFeed, Feed!FeedSpec
=============================================================================
