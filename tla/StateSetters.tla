---------------------------- MODULE StateSetters ----------------------------
(***************************************************************************)
(* Which method of State the daemon may call in which state: all that the  *)
(* rest of the daemon promises to who only sees a container's State.       *)
(* Each action is one call, made under the container's lock; its guard is  *)
(* what the callers have checked under that lock, or know because they     *)
(* hold the container's removal.  StateWatch takes it as what happens to   *)
(* the state it reports, ContainerLifecycle implements it.                 *)
(***************************************************************************)
EXTENDS ContainerState

CONSTANTS Pids,   \* the processes that are started
          Codes,  \* the exit codes that are recorded
          Msgs    \* the errors of a failed start

VARIABLE st       \* the container's State

Init == st = NewState

\* containerStart refuses a container that is being removed or is dead.  Its call by
\* the restart goroutine does not ask whether the container runs already.
Startable == ~st.RemovalInProgress /\ ~st.Dead

Starts == Startable /\ \E pid \in Pids : st' = SetRunning(st, pid)

StartFails == Startable /\ \E msg \in Msgs : st' = SetStartError(st, msg)

\* started by something else than the daemon: no removal stands in its way
StartsExternally == ~st.Running /\ \E pid \in Pids : st' = SetRunningExternal(st, pid)

\* An exit may be handled of a container that has stopped already, and a pause
\* reported of one.
Stops == \E code \in Codes : st' = SetStopped(st, code)

Restarts == \E code \in Codes : st' = SetRestarting(st, code)

Pauses == \E paused \in BOOLEAN : st' = SetPaused(st, paused)

\* There is one removal at a time.  It marks the container dead, possibly before the
\* exit of its process has been handled, and only then fails or ends well.
RemovalBegins == ~st.RemovalInProgress /\ st' = SetRemovalInProgress(st)

Dies == st.RemovalInProgress /\ st' = SetDead(st)

RemovalFails == st.RemovalInProgress /\ st.Dead /\ st' = SetRemovalError(st)

Removed == st.RemovalInProgress /\ st.Dead /\ st' = SetRemoved(st)

RemovalEnds == st.RemovalInProgress /\ st' = ResetRemovalInProgress(st)

Next == \/ Pauses \/ Starts \/ StartFails \/ StartsExternally \/ Stops \/ Restarts
        \/ RemovalBegins \/ Dies \/ RemovalFails \/ Removed \/ RemovalEnds

Spec == Init /\ [][Next]_st
=============================================================================
