-------------------------- MODULE GuardedExecution --------------------------
(***************************************************************************)
(* One execution with its helper file guard (supervisor_execution.rs         *)
(* run_process): the guard serves the script from before the spawn until      *)
(* the output is joined, and run_process waits for its end before it reports. *)
(* Every behaviour is one of SupervisedExecution.                             *)
(***************************************************************************)
EXTENDS SupervisedExecution, FileGuard

guardedVars == <<vars, guardVars>>

GuardedTypeOK == TypeOK /\ GuardTypeOK

GuardedInit == Init /\ GuardInit

\* The handle is dropped: the task ends by itself, and nobody waits for it.
CancelUnguarded ==
    /\ CancelSpawned
    /\ stop' = TRUE
    /\ UNCHANGED <<guard, op, downloads, base, at, client, budgetVars, fileVars>>

\* FileGuardHandle::stop, after both streams were joined.
StopGuard ==
    /\ bridge = "joining"
    /\ ~OutputHeld
    /\ ~stop
    /\ stop' = TRUE
    /\ UNCHANGED <<vars, guard, op, downloads, base, at, client, budgetVars, fileVars>>

\* Its task has ended: the outcome is settled and reported.
Report ==
    /\ JoinOutput
    /\ stop
    /\ guard = "ended"
    /\ UNCHANGED guardVars

\* The process takes its tasks and blocking threads with it.
GuardDies ==
    /\ BridgeDies
    /\ guard' = "ended"
    /\ op' = NoOp
    /\ UNCHANGED <<stop, downloads, base, at, client, budgetVars, fileVars>>

BridgeAlone ==
    /\ \/ BeginWrite \/ WriteScript \/ WriteFails \/ SeeExit \/ Terminate
       \/ ReapSupervisor \/ KillSupervisor
    /\ UNCHANGED guardVars

GuardedNext ==
    \/ CancelUnguarded \/ StopGuard \/ Report \/ GuardDies \/ BridgeAlone
    \/ (SupervisorStep \/ RuntimeStep) /\ UNCHANGED guardVars
    \/ runtime = "running" /\ ClientAsks /\ UNCHANGED vars
    \/ GuardNext /\ UNCHANGED vars

GuardedSpec == GuardedInit /\ [][GuardedNext]_guardedVars

\* run_process, the supervisor, the guard's task and a closure that is not blocked
\* on a pipe each go on when they can; the deadline passes.
BridgeGoesOn ==
    \/ CancelUnguarded \/ StopGuard \/ Report
    \/ BridgeAlone

GuardedFairness ==
    /\ WF_guardedVars(BridgeGoesOn)
    /\ WF_guardedVars(SupervisorStep /\ UNCHANGED guardVars)
    /\ WF_guardedVars(TaskSteps /\ UNCHANGED vars)
    /\ WF_guardedVars(ClosureSteps /\ UNCHANGED vars)

GuardedFairSpec == GuardedSpec /\ GuardedFairness

-----------------------------------------------------------------------------
\* Once run_process has returned, so that the next execution may start, the guard
\* of this one changes no destination any more, also not from a closure whose
\* connection was dropped.
NoLateReplacement ==
    [][bridge = "returned" =>
           \A d \in Dirs : target'[d] = target[d] \/ target'[d] \notin Tokens]_guardedVars

\* When the guard has ended in order, no incoming file is left that was written
\* before, unless another program moved its directory away (run_file_guard).
NoStagingLeft ==
    [][guard = "closing" /\ guard' = "ended" /\ bridge # "gone" /\ bridge' # "gone" =>
           \A incoming \in staged' : at # base[incoming[1]].dir]_guardedVars

\* run_process returns, unless the Bridge goes away, the runtime stalls, the script
\* left something behind that holds the output pipe, or an upload or a commit waits
\* on a pipe that was put where it reads or writes (open_at_raw).
GuardedExecutionEnds ==
    (bridge = "waiting") ~>
        (bridge \in {"returned", "gone"} \/ stray = "writing" \/ runtime = "stalled"
            \/ op.step = "blocked")
=============================================================================
