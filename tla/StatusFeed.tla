----------------------------- MODULE StatusFeed -----------------------------
(***************************************************************************)
(* What State.StatusChanges (daemon/container/state_watch.go) promises a   *)
(* watcher: every status change after the state it started from, in order  *)
(* and without a gap, until the removal of the container; it stops early   *)
(* only because the watcher breaks out or its context is done, or with a   *)
(* change still to be seen.                                                *)
(***************************************************************************)
EXTENDS Naturals, Sequences

CONSTANTS Watchers,   \* consumers of the iterator
          Results,    \* status changes, records with a field Removed
          Nothing     \* what a watcher holds outside its iteration

VARIABLES log,        \* the status changes so far
          next,       \* per watcher: the number of the change to be yielded next
          held,       \* per watcher: the result it was given last
          mode,       \* per watcher: how its iteration stands
          cancelled   \* watchers whose context is done

feedVars == <<log, next, held, mode, cancelled>>

Final == log # <<>> /\ log[Len(log)].Removed

FeedInit ==
    /\ log = <<>>
    /\ next = [w \in Watchers |-> 1]
    /\ held = [w \in Watchers |-> Nothing]
    /\ mode = [w \in Watchers |-> "off"]
    /\ cancelled = {}

Record ==
    /\ ~Final
    /\ \E r \in Results : log' = Append(log, r)
    /\ UNCHANGED <<next, held, mode, cancelled>>

\* the watcher is given the state as of now
Open(w) ==
    /\ mode[w] = "off"
    /\ mode' = [mode EXCEPT ![w] = "on"]
    /\ next' = [next EXCEPT ![w] = Len(log) + 1]
    /\ \E r \in Results : r.Removed = Final /\ held' = [held EXCEPT ![w] = r]
    /\ UNCHANGED <<log, cancelled>>

Yield(w) ==
    /\ mode[w] = "on" /\ next[w] <= Len(log)
    /\ next' = [next EXCEPT ![w] = @ + 1]
    /\ held' = [held EXCEPT ![w] = log[next[w]]]
    /\ UNCHANGED <<log, mode, cancelled>>

Close(w, how) ==
    /\ mode[w] = "on"
    /\ mode' = [mode EXCEPT ![w] = how]
    /\ held' = [held EXCEPT ![w] = Nothing]
    /\ UNCHANGED <<log, next, cancelled>>

\* the removal was yielded, or was known from the start
End(w) == Final /\ next[w] = Len(log) + 1 /\ Close(w, "ended")

Fail(w) == (w \in cancelled \/ next[w] <= Len(log)) /\ Close(w, "failed")

Break(w) == Close(w, "broken")

Cancel(w) ==
    /\ cancelled' = cancelled \cup {w}
    /\ UNCHANGED <<log, next, held, mode>>

FeedNext ==
    \/ Record
    \/ \E w \in Watchers : Open(w) \/ Yield(w) \/ End(w) \/ Fail(w) \/ Break(w) \/ Cancel(w)

FeedSpec == FeedInit /\ [][FeedNext]_feedVars
=============================================================================
