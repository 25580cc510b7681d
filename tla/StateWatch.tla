----------------------------- MODULE StateWatch -----------------------------
(***************************************************************************)
(* Watching the status of a container: State.change, State.recordStatus    *)
(* and State.StatusChanges (daemon/container/state_watch.go), read by the  *)
(* Wait and Watch calls of extensions_containerstate.go.                   *)
(*                                                                         *)
(* A setter of State runs under the state lock and is one action.  A       *)
(* watcher takes that lock only to subscribe, and statusMu for each look   *)
(* at its queue; between those it holds no lock, so each is a step.        *)
(* log and next are history variables: the status changes so far, and the  *)
(* number of the one a watcher is to see next.                             *)
(***************************************************************************)
EXTENDS Sequences, ContainerState

CONSTANTS Watchers,                 \* consumers of StatusChanges
          maxPendingStatusChanges,  \* how far one may fall behind
          Pids, Codes, Msgs,        \* see StateSetters
          MaxChanges                \* bound: status changes

ASSUME WatchAssumption ==
    /\ maxPendingStatusChanges \in Nat \ {0} /\ MaxChanges \in Nat
    /\ Pids \subseteq Nat /\ Codes \subseteq AllCodes /\ Msgs \subseteq ErrorMsgs

VARIABLES st,          \* the container's State
          lastStatus,  \* the last status change
          subs,        \* statusSubscribers
          pending,     \* the queue of each subscriber
          ready,       \* its channel ready, which holds one token
          err,         \* its error: it fell behind
          pc,          \* where each watcher is
          res,         \* the result it holds
          cancelled,   \* watchers whose context is done
          log, next    \* history

stateVars == <<st, lastStatus, log>>
subVars   == <<subs, pending, ready, err>>
vars == <<st, lastStatus, subs, pending, ready, err, pc, res, cancelled, log, next>>

Statuses == {"created", "running", "paused", "restarting", "removing", "exited", "dead"}
Snapshots == [Status: Statuses]
NoSnapshot == [Status |-> ""]
StatusResults == [Current: Snapshots \cup {NoSnapshot}, Previous: Snapshots \cup {NoSnapshot},
                  Removed: BOOLEAN]
NoStatus == [Current |-> NoSnapshot, Previous |-> NoSnapshot, Removed |-> FALSE]

Pcs == {"off", "yield", "next", "wait", "ended", "failed", "broken"}
Active == {"yield", "next", "wait"}   \* in the iteration

TypeOK ==
    /\ st \in State
    /\ lastStatus \in StatusResults
    /\ subs \subseteq Watchers
    /\ pending \in [Watchers -> Seq(StatusResults)]
    /\ ready \in [Watchers -> BOOLEAN]
    /\ err \in [Watchers -> BOOLEAN]
    /\ pc \in [Watchers -> Pcs]
    /\ res \in [Watchers -> StatusResults]
    /\ cancelled \subseteq Watchers
    /\ log \in Seq(StatusResults)
    /\ next \in [Watchers -> Nat \ {0}]

Init ==
    /\ st = NewState
    /\ lastStatus = NoStatus
    /\ subs = {}
    /\ pending = [w \in Watchers |-> <<>>]
    /\ ready = [w \in Watchers |-> FALSE]
    /\ err = [w \in Watchers |-> FALSE]
    /\ pc = [w \in Watchers |-> "off"]
    /\ res = [w \in Watchers |-> NoStatus]
    /\ cancelled = {}
    /\ log = <<>>
    /\ next = [w \in Watchers |-> 1]

-----------------------------------------------------------------------------
(* The state changes *)

\* of a snapshot only the status matters to who is told what
snapshot(s) == [Status |-> StateString(s)]

Behind(w) == Len(pending[w]) = maxPendingStatusChanges

\* mutant: the channel ready has no buffer, so who is not yet in the select is not woken
recordStatus_Unbuffered(r) ==
    LET behind == {w \in subs : Behind(w)}
    IN /\ lastStatus' = r
       /\ pending' = [w \in Watchers |-> IF w \in subs \ behind THEN Append(pending[w], r)
                                                                ELSE pending[w]]
       /\ err' = [w \in Watchers |-> err[w] \/ w \in behind]
       /\ \E selecting \in SUBSET {w \in subs : pc[w] = "wait"} :
             ready' = [w \in Watchers |-> ready[w] \/ w \in selecting]
       /\ subs' = subs \ behind
       /\ log' = Append(log, r)

recordStatus(r) ==
    LET behind == {w \in subs : Behind(w)}
    IN /\ lastStatus' = r
       /\ pending' = [w \in Watchers |-> IF w \in subs \ behind THEN Append(pending[w], r)
                                                                ELSE pending[w]]
       /\ err' = [w \in Watchers |-> err[w] \/ w \in behind]
       /\ ready' = [w \in Watchers |-> ready[w] \/ w \in subs]
       /\ subs' = subs \ behind
       /\ log' = Append(log, r)

\* mutant: a removed container goes on reporting
change_AfterRemoval ==
    /\ IF snapshot(st').Status = snapshot(st).Status
       THEN UNCHANGED <<lastStatus, subVars, log>>
       ELSE /\ Len(log) <= MaxChanges
            /\ recordStatus([Current |-> snapshot(st'), Previous |-> snapshot(st), Removed |-> FALSE])
    /\ UNCHANGED <<pc, res, cancelled, next>>

\* what change does around the setter it is given, which leads from st to st';
\* the bound on the changes is on the ones that are recorded
change ==
    /\ IF lastStatus.Removed \/ snapshot(st').Status = snapshot(st).Status
       THEN UNCHANGED <<lastStatus, subVars, log>>
       ELSE /\ Len(log) < MaxChanges
            /\ recordStatus([Current |-> snapshot(st'), Previous |-> snapshot(st), Removed |-> FALSE])
    /\ UNCHANGED <<pc, res, cancelled, next>>

Setters == INSTANCE StateSetters

Starts == Setters!Starts /\ change

StartsExternally == Setters!StartsExternally /\ change

Stops == Setters!Stops /\ change

Restarts == Setters!Restarts /\ change

Pauses == Setters!Pauses /\ change

\* not a status change: ErrorMsg and ExitCode are set without change()
StartFails ==
    /\ Setters!StartFails
    /\ UNCHANGED <<lastStatus, log, subVars, pc, res, cancelled, next>>

RemovalBegins == Setters!RemovalBegins /\ change

Dies == Setters!Dies /\ change

RemovalFails ==
    /\ Setters!RemovalFails
    /\ UNCHANGED <<lastStatus, log, subVars, pc, res, cancelled, next>>

Removed ==
    /\ Setters!Removed
    /\ IF lastStatus.Removed
       THEN UNCHANGED <<lastStatus, subVars, log>>
       ELSE recordStatus([Current |-> snapshot(st'), Previous |-> snapshot(st), Removed |-> TRUE])
    /\ UNCHANGED <<pc, res, cancelled, next>>

RemovalEnds == Setters!RemovalEnds /\ change

Setter == \/ Starts \/ StartsExternally \/ Stops \/ Restarts \/ Pauses \/ StartFails
          \/ RemovalBegins \/ Dies \/ RemovalFails \/ Removed \/ RemovalEnds

-----------------------------------------------------------------------------
(* A watcher *)

\* mutant: the last change instead of the state
currentStatus_Recorded == lastStatus

currentStatus ==
    IF lastStatus.Removed THEN lastStatus ELSE [lastStatus EXCEPT !.Current = snapshot(st)]

\* StatusChanges starts, under the state lock
Subscribe(w) ==
    /\ pc[w] = "off"
    /\ res' = [res EXCEPT ![w] = currentStatus]
    /\ subs' = IF lastStatus.Removed THEN subs ELSE subs \cup {w}
    /\ next' = [next EXCEPT ![w] = Len(log) + 1]
    /\ pc' = [pc EXCEPT ![w] = "yield"]
    /\ UNCHANGED <<stateVars, pending, ready, err, cancelled>>

\* the iteration is over: the deferred unsubscribe, and nothing refers to the
\* subscriber any more
Leave(w, how) ==
    /\ pc' = [pc EXCEPT ![w] = how]
    /\ subs' = subs \ {w}
    /\ pending' = [pending EXCEPT ![w] = <<>>]
    /\ ready' = [ready EXCEPT ![w] = FALSE]
    /\ err' = [err EXCEPT ![w] = FALSE]
    /\ res' = [res EXCEPT ![w] = NoStatus]
    /\ UNCHANGED next

\* mutant: the removal is a result like any other
YieldResult_GoesOn(w) ==
    /\ pc[w] = "yield"
    /\ \/ Leave(w, "broken")
       \/ pc' = [pc EXCEPT ![w] = "next"] /\ UNCHANGED <<subVars, res, next>>
    /\ UNCHANGED <<stateVars, cancelled>>

\* the result is yielded: the consumer breaks, or goes on unless it is the removal
YieldResult(w) ==
    /\ pc[w] = "yield"
    /\ \/ Leave(w, "broken")
       \/ res[w].Removed /\ Leave(w, "ended")
       \/ ~res[w].Removed /\ pc' = [pc EXCEPT ![w] = "next"] /\ UNCHANGED <<subVars, res, next>>
    /\ UNCHANGED <<stateVars, cancelled>>

\* the first queued result is taken
Dequeue(w) ==
    /\ pending[w] # <<>>
    /\ res' = [res EXCEPT ![w] = Head(pending[w])]
    /\ pending' = [pending EXCEPT ![w] = Tail(@)]
    /\ next' = [next EXCEPT ![w] = @ + 1]
    /\ pc' = [pc EXCEPT ![w] = "yield"]
    /\ UNCHANGED <<subs, ready, err>>

\* mutant: a subscriber that fell behind is not told
nextStatus_EndsQuietly(w) ==
    /\ pc[w] = "next"
    /\ \/ w \in cancelled /\ Leave(w, "failed")
       \/ w \notin cancelled /\ Dequeue(w)
       \/ w \notin cancelled /\ pending[w] = <<>> /\ err[w] /\ Leave(w, "ended")
       \/ /\ w \notin cancelled /\ pending[w] = <<>> /\ ~err[w]
          /\ pc' = [pc EXCEPT ![w] = "wait"]
          /\ UNCHANGED <<subVars, res, next>>
    /\ UNCHANGED <<stateVars, cancelled>>

\* nextStatus: one turn of its loop, up to the select
nextStatus(w) ==
    /\ pc[w] = "next"
    /\ \/ w \in cancelled /\ Leave(w, "failed")
       \/ w \notin cancelled /\ Dequeue(w)
       \/ w \notin cancelled /\ pending[w] = <<>> /\ err[w] /\ Leave(w, "failed")
       \/ /\ w \notin cancelled /\ pending[w] = <<>> /\ ~err[w]
          /\ pc' = [pc EXCEPT ![w] = "wait"]
          /\ UNCHANGED <<subVars, res, next>>
    /\ UNCHANGED <<stateVars, cancelled>>

\* its select: the context, or a token
Select(w) ==
    /\ pc[w] = "wait"
    /\ \/ w \in cancelled /\ Leave(w, "failed")
       \/ /\ ready[w]
          /\ ready' = [ready EXCEPT ![w] = FALSE]
          /\ pc' = [pc EXCEPT ![w] = "next"]
          /\ UNCHANGED <<subs, pending, err, res, next>>
    /\ UNCHANGED <<stateVars, cancelled>>

Cancel(w) ==
    /\ w \notin cancelled
    /\ cancelled' = cancelled \cup {w}
    /\ UNCHANGED <<stateVars, subVars, pc, res, next>>

WatcherStep(w) == YieldResult(w) \/ nextStatus(w) \/ Select(w)

Next ==
    \/ Setter
    \/ \E w \in Watchers : Subscribe(w) \/ WatcherStep(w) \/ Cancel(w)

Spec == Init /\ [][Next]_vars

\* a watcher that can run does
FairSpec == Spec /\ \A w \in Watchers : WF_vars(WatcherStep(w))

-----------------------------------------------------------------------------
(* Properties *)

\* The queue of a subscriber is exactly the changes it has not seen: none is
\* skipped, doubled or out of order, however its steps interleave with the setters;
\* a subscriber that was dropped has the changes up to the one it was dropped at.
QueueIsSuffix ==
    \A w \in Watchers :
        /\ w \in subs => Len(pending[w]) = Len(log) + 1 - next[w]
        /\ pc[w] \in Active =>
               /\ Len(pending[w]) <= Len(log) + 1 - next[w]
               /\ \A i \in 1..Len(pending[w]) : pending[w][i] = log[next[w] + i - 1]

\* A subscriber is dropped only when maxPendingStatusChanges changes wait for it, so
\* its queue never grows beyond them, and the error is reported only while a change
\* is still to be seen.
DroppedOnlyBehind ==
    \A w \in Watchers :
        /\ Len(pending[w]) <= maxPendingStatusChanges
        /\ err[w] => next[w] + Len(pending[w]) <= Len(log)

\* No wake-up is lost: a watcher that waits in the select without a token has
\* nothing to do, whatever was recorded between its look at the queue and the select.
NoLostWakeup ==
    \A w \in Watchers :
        pc[w] = "wait" /\ ~ready[w] => pending[w] = <<>> /\ ~err[w] /\ w \in subs

\* The changes form a chain: each starts from the status the one before it led to,
\* the last one ends in the present status, and every other one really changes it
\* (all setters go through change, and those that do not leave the status alone).
ChangesChain ==
    /\ \A i \in 1..Len(log) :
          /\ i > 1 => log[i].Previous.Status = log[i - 1].Current.Status
          /\ log[i].Removed \/ log[i].Previous.Status # log[i].Current.Status
          /\ log[i].Removed => i = Len(log)
    /\ ~lastStatus.Removed /\ log # <<>> => log[Len(log)].Current.Status = StateString(st)
    /\ log # <<>> => lastStatus = log[Len(log)]

\* What a watcher holds leads to what it will get next, from the very first result,
\* which is read from the state and not from the queue; and a watcher that has seen
\* every change holds the present status (until the removal, which ends the changes).
WatcherChain ==
    \A w \in Watchers :
        pc[w] \in Active =>
            /\ next[w] <= Len(log) => log[next[w]].Previous.Status = res[w].Current.Status
            /\ next[w] > Len(log) /\ ~lastStatus.Removed => res[w].Current.Status = StateString(st)

\* A watcher that waits when a change is recorded, or is dropped, moves on.
ChangeIsSeen ==
    \A w \in Watchers :
        (pc[w] = "wait" /\ next[w] <= Len(log)) ~> pc[w] # "wait"

\* A removal ends every iteration.
RemovalEndsWatch ==
    \A w \in Watchers :
        (pc[w] \in Active /\ lastStatus.Removed)
            ~> pc[w] \notin Active

\* The inductive invariant behind what is said of the queues.  It
\* adds who is subscribed: a watcher in its iteration is, unless it was dropped or
\* came after the removal; and that only the last change can be the removal.
Watching(w) ==
    /\ Len(pending[w]) + next[w] <= Len(log) + 1
    /\ \A i \in 1..Len(pending[w]) : pending[w][i] = log[next[w] + i - 1]
    /\ w \in subs => Len(pending[w]) + next[w] = Len(log) + 1 /\ ~err[w]
    /\ err[w] => Len(pending[w]) + next[w] <= Len(log)
    /\ w \notin subs /\ ~err[w] => res[w].Removed
    /\ res[w].Removed => pc[w] = "yield" /\ lastStatus.Removed /\ next[w] = Len(log) + 1
    /\ pc[w] = "wait" /\ ~ready[w] => pending[w] = <<>> /\ ~err[w]

WatchInv ==
    /\ TypeOK
    /\ \A w \in Watchers :
          /\ Len(pending[w]) <= maxPendingStatusChanges
          /\ pc[w] \in Active => Watching(w)
          /\ pc[w] \notin Active => w \notin subs /\ pending[w] = <<>> /\ ~err[w] /\ ~ready[w]
    /\ log # <<>> => lastStatus = log[Len(log)]
    /\ log = <<>> => ~lastStatus.Removed
    /\ \A i \in 1..Len(log) : log[i].Removed => i = Len(log)

-----------------------------------------------------------------------------
(* StatusChanges implements StatusFeed *)

Feed == INSTANCE StatusFeed WITH
    Results <- StatusResults,
    Nothing <- NoStatus,
    held <- res,
    mode <- [w \in Watchers |-> IF pc[w] \in Active THEN "on" ELSE pc[w]]

\* Every behaviour of the subscribers and their queues is one the promise allows.
ImplementsFeed == Feed!FeedSpec
=============================================================================
