------------------------ MODULE SupervisedExecution ------------------------
(***************************************************************************)
(* One execution seen from the operating system (supervisor_execution.rs    *)
(* run_process, process_control.rs, execution_runner.rs).                    *)
(*                                                                          *)
(* The Bridge starts its own binary as an execution supervisor, hands it    *)
(* the script through a control pipe and keeps the pipe open.  The          *)
(* supervisor starts the runtime in a process group of its own, hands the   *)
(* script on, and watches both the runtime and the pipe.  Supervisor,        *)
(* runtime and whatever the script starts share the output pipe the Bridge  *)
(* reads until nobody holds it any more.                                     *)
(*                                                                          *)
(* The two constants say what the runtime may do beyond the ordinary: leave  *)
(* a descendant outside its process group, or never read its script.         *)
(***************************************************************************)
EXTENDS Naturals

CONSTANTS DetachedDescendants,  \* the script may leave its process group
          StallingRuntime       \* the runtime may never read its standard input

ASSUME WorldAssumption ==
    /\ DetachedDescendants \in BOOLEAN
    /\ StallingRuntime \in BOOLEAN

VARIABLES
    bridge,         \* where run_process is, once the supervisor was spawned
    verdict,        \* how run_process will describe the end
    control,        \* the Bridge holds the write end of the control pipe
    delivered,      \* the whole script is in that pipe
    supervisor,     \* the execution supervisor process
    runtime,        \* the leader of the runtime's process group
    child,          \* an ordinary descendant, in that group
    stray           \* a descendant that left the group

vars == <<bridge, verdict, control, delivered, supervisor, runtime, child, stray>>

bridgeVars == <<bridge, verdict, control, delivered>>
groupVars == <<runtime, child, stray>>

RuntimeAlive == runtime \in {"starting", "stalled", "running"}
GroupAlive == RuntimeAlive \/ child # "none"

\* Some process still holds the write end of the output pipe.
OutputHeld ==
    \/ supervisor # "ended"
    \/ RuntimeAlive
    \/ child = "writing"
    \/ stray = "writing"

\* The type invariant: the phases of run_process and run_execution_supervisor and
\* the states of the processes they start.
TypeOK ==
    /\ bridge \in {"spawned", "writing", "waiting", "closing", "joining", "returned", "gone"}
    /\ verdict \in {"none", "exited", "stopped"}
    /\ control \in BOOLEAN
    /\ delivered \in BOOLEAN
    /\ supervisor \in {"reading", "feeding", "watching", "ended"}
    /\ runtime \in {"none", "starting", "stalled", "running", "ended"}
    /\ child \in {"none", "writing", "quiet"}
    /\ stray \in {"none", "writing", "quiet"}

Init ==
    /\ bridge = "spawned"
    /\ verdict = "none"
    /\ control = TRUE
    /\ delivered = FALSE
    /\ supervisor = "reading"
    /\ runtime = "none"
    /\ child = "none"
    /\ stray = "none"

-----------------------------------------------------------------------------
(* The Bridge.                                                               *)

\* Cancelled right after the spawn: terminate_child ends the supervisor, which
\* has no script yet, and run_process returns.
CancelSpawned ==
    /\ bridge = "spawned"
    /\ bridge' = "returned"
    /\ verdict' = "stopped"
    /\ control' = FALSE
    /\ supervisor' = "ended"
    /\ UNCHANGED <<delivered, groupVars>>

BeginWrite ==
    /\ bridge = "spawned"
    /\ bridge' = "writing"
    /\ UNCHANGED <<verdict, control, delivered, supervisor, groupVars>>

\* Length and script are in the pipe; the pipe stays open.
WriteScript ==
    /\ bridge = "writing"
    /\ supervisor = "reading"
    /\ delivered' = TRUE
    /\ bridge' = "waiting"
    /\ UNCHANGED <<verdict, control, supervisor, groupVars>>

\* The write fails: terminate_execution.
WriteFails ==
    /\ bridge = "writing"
    /\ bridge' = "closing"
    /\ verdict' = "stopped"
    /\ control' = FALSE
    /\ UNCHANGED <<delivered, supervisor, groupVars>>

\* Slip: an exit is taken for an outcome before the channels were looked at.
SeeExitAsOutcome ==
    /\ bridge = "waiting"
    /\ supervisor = "ended"
    /\ bridge' = "joining"
    /\ verdict' = "completed"
    /\ control' = FALSE
    /\ UNCHANGED <<delivered, supervisor, groupVars>>

\* try_wait sees the supervisor's exit.
SeeExit ==
    /\ bridge = "waiting"
    /\ supervisor = "ended"
    /\ bridge' = "joining"
    /\ verdict' = "exited"
    /\ control' = FALSE
    /\ UNCHANGED <<delivered, supervisor, groupVars>>

\* Slip: the deadline counts from the first output of the runtime.
TerminateLate ==
    /\ bridge = "waiting"
    /\ child # "none"
    /\ bridge' = "closing"
    /\ verdict' = "stopped"
    /\ control' = FALSE
    /\ UNCHANGED <<delivered, supervisor, groupVars>>

\* A cancellation, the deadline, or a reader that overflowed or failed:
\* terminate_supervised_child drops the control pipe and waits.
Terminate ==
    /\ bridge = "waiting"
    /\ bridge' = "closing"
    /\ verdict' = "stopped"
    /\ control' = FALSE
    /\ UNCHANGED <<delivered, supervisor, groupVars>>

\* The supervisor ends within the two seconds it is given.
ReapSupervisor ==
    /\ bridge = "closing"
    /\ supervisor = "ended"
    /\ bridge' = "joining"
    /\ UNCHANGED <<verdict, control, delivered, supervisor, groupVars>>

\* Slip: the supervisor is not given the time to end its runtime.
KillSupervisorAtOnce ==
    /\ bridge = "closing"
    /\ supervisor \in {"feeding", "watching"}
    /\ supervisor' = "ended"
    /\ bridge' = "joining"
    /\ UNCHANGED <<verdict, control, delivered, groupVars>>

\* It does not: terminate_child kills the supervisor's own process group.  A
\* supervisor that gets to its select! ends in time, so this needs a runtime
\* that keeps it writing.
KillSupervisor ==
    /\ bridge = "closing"
    /\ supervisor = "feeding"
    /\ runtime = "stalled"
    /\ supervisor' = "ended"
    /\ bridge' = "joining"
    /\ UNCHANGED <<verdict, control, delivered, groupVars>>

\* join_capture for both streams: the readers end at the end of the output.
JoinOutput ==
    /\ bridge = "joining"
    /\ ~OutputHeld
    /\ bridge' = "returned"
    /\ UNCHANGED <<verdict, control, delivered, supervisor, groupVars>>

\* The Bridge process is gone, and its end of the control pipe with it.
BridgeDies ==
    /\ bridge \in {"spawned", "writing", "waiting", "closing", "joining"}
    /\ bridge' = "gone"
    /\ control' = FALSE
    /\ UNCHANGED <<verdict, delivered, supervisor, groupVars>>

-----------------------------------------------------------------------------
(* run_execution_supervisor.                                                 *)

\* The pipe ends before the script is complete, or a limit is exceeded.
ReadFails ==
    /\ supervisor = "reading"
    /\ ~control \/ delivered
    /\ supervisor' = "ended"
    /\ UNCHANGED <<bridgeVars, groupVars>>

\* The script was read in full, whoever is still at the other end.
StartRuntime ==
    /\ supervisor = "reading"
    /\ delivered
    /\ supervisor' = "feeding"
    /\ runtime' = "starting"
    /\ UNCHANGED <<bridgeVars, child, stray>>

\* The runtime takes the script; the supervisor reaches its select!.
FeedRuntime ==
    /\ supervisor = "feeding"
    /\ runtime = "starting"
    /\ supervisor' = "watching"
    /\ runtime' = "running"
    /\ UNCHANGED <<bridgeVars, child, stray>>

\* The runtime ended before it took its script: the write fails.
FeedFails ==
    /\ supervisor = "feeding"
    /\ runtime = "ended"
    /\ supervisor' = "ended"
    /\ UNCHANGED <<bridgeVars, groupVars>>

\* Slip: the exit of the leader is taken for the exit of the group.
SeeRuntimeExitOnly ==
    /\ supervisor = "watching"
    /\ runtime = "ended"
    /\ supervisor' = "ended"
    /\ UNCHANGED <<bridgeVars, groupVars>>

\* The runtime has exited: what is left of its group is killed.
SeeRuntimeExit ==
    /\ supervisor = "watching"
    /\ runtime = "ended"
    /\ child' = "none"
    /\ supervisor' = "ended"
    /\ UNCHANGED <<bridgeVars, runtime, stray>>

\* Slip: the supervisor leaves without its runtime.
SeeControlEndAndLeave ==
    /\ supervisor = "watching"
    /\ ~control
    /\ supervisor' = "ended"
    /\ UNCHANGED <<bridgeVars, groupVars>>

\* Slip: the end of the pipe is not read as a message.
SeeControlMessage ==
    /\ supervisor = "watching"
    /\ ~control /\ ~delivered
    /\ runtime' = "ended"
    /\ child' = "none"
    /\ supervisor' = "ended"
    /\ UNCHANGED <<bridgeVars, stray>>

\* The control pipe has ended: terminate_child on the runtime's group.
SeeControlEnd ==
    /\ supervisor = "watching"
    /\ ~control
    /\ runtime' = "ended"
    /\ child' = "none"
    /\ supervisor' = "ended"
    /\ UNCHANGED <<bridgeVars, stray>>

-----------------------------------------------------------------------------
(* The runtime and what the script starts.                                   *)

RuntimeStalls ==
    /\ StallingRuntime
    /\ runtime = "starting"
    /\ runtime' = "stalled"
    /\ UNCHANGED <<bridgeVars, supervisor, child, stray>>

RuntimeExits ==
    /\ runtime \in {"starting", "running"}
    /\ runtime' = "ended"
    /\ UNCHANGED <<bridgeVars, supervisor, child, stray>>

ForkChild ==
    /\ runtime = "running"
    /\ child = "none"
    /\ child' = "writing"
    /\ UNCHANGED <<bridgeVars, supervisor, runtime, stray>>

ChildClosesOutput ==
    /\ child = "writing"
    /\ child' = "quiet"
    /\ UNCHANGED <<bridgeVars, supervisor, runtime, stray>>

ChildExits ==
    /\ child # "none"
    /\ child' = "none"
    /\ UNCHANGED <<bridgeVars, supervisor, runtime, stray>>

ForkStray ==
    /\ DetachedDescendants
    /\ runtime = "running"
    /\ stray = "none"
    /\ stray' = "writing"
    /\ UNCHANGED <<bridgeVars, supervisor, runtime, child>>

StrayClosesOutput ==
    /\ stray = "writing"
    /\ stray' = "quiet"
    /\ UNCHANGED <<bridgeVars, supervisor, runtime, child>>

StrayExits ==
    /\ stray # "none"
    /\ stray' = "none"
    /\ UNCHANGED <<bridgeVars, supervisor, runtime, child>>

-----------------------------------------------------------------------------
BridgeStep ==
    \/ CancelSpawned \/ BeginWrite \/ WriteScript \/ WriteFails \/ SeeExit \/ Terminate
    \/ ReapSupervisor \/ KillSupervisor \/ JoinOutput \/ BridgeDies

SupervisorStep ==
    ReadFails \/ StartRuntime \/ FeedRuntime \/ FeedFails \/ SeeRuntimeExit \/ SeeControlEnd

RuntimeStep ==
    \/ RuntimeStalls \/ RuntimeExits \/ ForkChild \/ ChildClosesOutput \/ ChildExits
    \/ ForkStray \/ StrayClosesOutput \/ StrayExits

Next == BridgeStep \/ SupervisorStep \/ RuntimeStep

Spec == Init /\ [][Next]_vars

\* The Bridge and the supervisor act when they can; the deadline passes; a runtime
\* that does not stall reads its script.  Nothing is assumed of the script.
Fairness ==
    /\ WF_vars(BeginWrite \/ CancelSpawned) /\ WF_vars(WriteScript \/ WriteFails)
    /\ WF_vars(Terminate) /\ WF_vars(SeeExit)
    /\ WF_vars(ReapSupervisor) /\ WF_vars(KillSupervisor) /\ WF_vars(JoinOutput)
    /\ WF_vars(ReadFails \/ StartRuntime) /\ WF_vars(FeedRuntime) /\ WF_vars(FeedFails)
    /\ WF_vars(SeeRuntimeExit) /\ WF_vars(SeeControlEnd)

FairSpec == Spec /\ Fairness

-----------------------------------------------------------------------------
(* The life of one script.  A failed write leaves the Bridge with no script on *)
(* its way; a supervisor killed from outside may leave a stalled one alive.   *)

ReportPhase ==
    [spawned |-> "open", writing |-> "open", waiting |-> "waiting", closing |-> "ending",
     joining |-> IF verdict = "exited" THEN "settling" ELSE "ending",
     returned |-> "over", gone |-> "gone"][bridge]

ScriptState ==
    IF delivered
    THEN [reading |-> "sent", feeding |-> "live", watching |-> "live",
          ended |-> IF GroupAlive THEN "live" ELSE "dead"][supervisor]
    ELSE "none"

Life == INSTANCE ScriptLife WITH phase <- ReportPhase, script <- ScriptState

\* run_process and the execution supervisor keep to the life of one script: it
\* leaves the Bridge once, runs at most once, and run_process reports its end only
\* when nothing of it is left.
ImplementsScriptLife == Life!Spec

-----------------------------------------------------------------------------
\* When run_process has returned, so that the PermitGuard is dropped and the next
\* script may start, nothing of this one's process group is left, nor can its
\* supervisor still start a runtime.
ManagedGroupEnded == bridge = "returned" => supervisor = "ended" /\ ~GroupAlive

\* "The independent process that owns one local runtime execution": no runtime
\* group outlives its supervisor, wherever the Bridge dies, except a runtime that
\* never took its script (its supervisor is killed from outside, in a group of
\* its own).
SupervisorOutlivesGroup ==
    supervisor = "ended" => ~GroupAlive \/ runtime = "stalled"

\* run_process returns, unless the Bridge goes away, the runtime stalls or the
\* script left something behind that holds the output pipe.
ExecutionEnds ==
    (bridge = "waiting") ~>
        (bridge \in {"returned", "gone"} \/ stray = "writing" \/ runtime = "stalled")

\* "EOF means the Bridge died": after the Bridge is gone the supervisor ends the
\* runtime's entire process group, for good.
OrphansEnd ==
    (bridge = "gone") ~> (runtime = "stalled" \/ [](supervisor = "ended" /\ ~GroupAlive))

\* "One execution is capped at 120 seconds" (docs/architecture.md): once its
\* supervisor runs, run_process returns unless the Bridge itself goes away.
ExecutionCapped == (bridge = "waiting") ~> (bridge \in {"returned", "gone"})
=============================================================================
