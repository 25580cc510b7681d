--------------------------- MODULE ContainerState ---------------------------
(***************************************************************************)
(* The State of one container (daemon/container/state.go) as a record, and *)
(* the methods that change it as operators on such a record.  A process is *)
(* named by the number of its run (its generation): Pid is that number, 0  *)
(* when no process is recorded.  ErrorMsg keeps only which kind of error   *)
(* it holds: handleContainerExit tells a networking error from the others. *)
(* StartedAt is kept as started (whether it is non-zero), the task         *)
(* reference as task (whether it is non-nil).                              *)
(***************************************************************************)
EXTENDS Naturals

\* exit codes: of a process, and exitUnknown of errors.go
ExitCodes == {0, 1}
Killed == 137
exitUnknown == 128
AllCodes == ExitCodes \cup {Killed, exitUnknown}

ErrorMsgs == {"", "start", "setup networking", "removal"}

State == [Running: BOOLEAN, Paused: BOOLEAN, Restarting: BOOLEAN,
          RemovalInProgress: BOOLEAN, Dead: BOOLEAN, removed: BOOLEAN,
          Pid: Nat, ExitCode: AllCodes, ErrorMsg: ErrorMsgs,
          started: BOOLEAN, task: BOOLEAN]

NewState == [Running |-> FALSE, Paused |-> FALSE, Restarting |-> FALSE,
             RemovalInProgress |-> FALSE, Dead |-> FALSE, removed |-> FALSE,
             Pid |-> 0, ExitCode |-> 0, ErrorMsg |-> "",
             started |-> FALSE, task |-> FALSE]

\* the one name the API reports for a combination of flags
StateString(s) ==
    IF s.Running
    THEN IF s.Paused THEN "paused" ELSE IF s.Restarting THEN "restarting" ELSE "running"
    ELSE IF s.RemovalInProgress THEN "removing"
    ELSE IF s.Dead THEN "dead"
    ELSE IF ~s.started THEN "created" ELSE "exited"

\* mutant: Restarting is not reset
SetRunning_KeepsRestarting(s, pid) ==
    [s EXCEPT !.ErrorMsg = "", !.Paused = FALSE, !.Running = TRUE, !.ExitCode = 0,
              !.task = TRUE, !.Pid = pid, !.started = TRUE]

SetRunning(s, pid) ==
    [s EXCEPT !.ErrorMsg = "", !.Paused = FALSE, !.Running = TRUE,
              !.Restarting = FALSE, !.ExitCode = 0, !.task = TRUE,
              !.Pid = pid, !.started = TRUE]

\* started by something else than the daemon: StartedAt is left alone
SetRunningExternal(s, pid) ==
    [SetRunning(s, pid) EXCEPT !.started = s.started]

SetStopped(s, code) ==
    [s EXCEPT !.Running = FALSE, !.Paused = FALSE, !.Restarting = FALSE,
              !.Pid = 0, !.ExitCode = code]

SetRestarting(s, code) ==
    [s EXCEPT !.Running = TRUE, !.Restarting = TRUE, !.Paused = FALSE,
              !.Pid = 0, !.ExitCode = code]

SetPaused(s, paused) == [s EXCEPT !.Paused = paused]

SetDead(s) == [s EXCEPT !.Dead = TRUE]

\* containerStart's deferred error path: SetError, and SetExitCode unless set
SetStartError(s, msg) ==
    [s EXCEPT !.ErrorMsg = msg,
              !.ExitCode = IF s.ExitCode = 0 THEN exitUnknown ELSE s.ExitCode]

SetRemovalInProgress(s) == [s EXCEPT !.RemovalInProgress = TRUE]

ResetRemovalInProgress(s) == [s EXCEPT !.RemovalInProgress = FALSE]

\* mutant: the container is usable again
SetRemovalError_Revives(s) == [s EXCEPT !.ErrorMsg = "removal", !.removed = TRUE, !.Dead = FALSE]

SetRemovalError(s) == [s EXCEPT !.ErrorMsg = "removal", !.removed = TRUE]

SetRemoved(s) == [s EXCEPT !.ErrorMsg = "", !.removed = TRUE]

\* the result a waiter receives: State.Err() is the recorded error message
WaitStatus(s) == IF s.ErrorMsg = "" THEN "ok" ELSE "err"
=============================================================================
