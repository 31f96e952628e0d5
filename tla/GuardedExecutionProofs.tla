----------------------- MODULE GuardedExecutionProofs -----------------------
(***************************************************************************)
(* First the execution supervisor in every world: whether or not the script  *)
(* leaves its group and whether or not the runtime reads it.  Then the        *)
(* helper file guard, for any number of tokens, files and interventions of    *)
(* other programs, and an execution with its guard, which is one of the       *)
(* execution supervisor's.                                                   *)
(***************************************************************************)
EXTENDS GuardedExecution, TLAPS

\* What the supervisor is doing fixes what can live in the runtime's group.
GroupFollowsSupervisor ==
    /\ supervisor = "reading" => runtime = "none"
    /\ supervisor = "feeding" => runtime \in {"starting", "stalled", "ended"}
    /\ supervisor = "watching" => runtime \in {"running", "ended"}
    /\ supervisor = "ended" => runtime \in {"none", "stalled", "ended"}
    /\ child # "none" => supervisor = "watching"

\* The supervisor waits for the script until the Bridge has written it; while the
\* Bridge waits for the script, it alone can have ended; and the Bridge joins the
\* output only after the supervisor's end.
JoinsAfterSupervisor ==
    /\ bridge \in {"spawned", "writing"} => supervisor = "reading" /\ control /\ ~delivered
    /\ bridge = "waiting" => delivered /\ (supervisor = "ended" => ~RuntimeAlive)
    /\ bridge = "closing" => verdict = "stopped"
    /\ bridge \in {"joining", "returned"} => supervisor = "ended"
    /\ bridge = "joining" /\ verdict = "exited" => delivered /\ ~RuntimeAlive
    /\ bridge = "returned" => ~RuntimeAlive

IInv == TypeOK /\ GroupFollowsSupervisor /\ JoinsAfterSupervisor

\* The inductive invariant holds when the supervisor has just been spawned.
LEMMA InitIInv == Init => IInv
BY DEF Init, IInv, TypeOK, GroupFollowsSupervisor, JoinsAfterSupervisor, RuntimeAlive

\* Every step of the Bridge, the supervisor and the runtime preserves it.
LEMMA StepIInv == IInv /\ [Next]_vars => IInv'
<1> SUFFICES ASSUME IInv, [Next]_vars PROVE IInv'
  OBVIOUS
<1> USE DEF IInv, TypeOK, GroupFollowsSupervisor, JoinsAfterSupervisor, RuntimeAlive
<1>1. CASE BridgeStep
  <2>1. CASE CancelSpawned
    BY <2>1 DEF CancelSpawned, groupVars
  <2>2. CASE BeginWrite \/ WriteScript \/ WriteFails
    <3>1. CASE BeginWrite
      BY <3>1 DEF BeginWrite, groupVars
    <3>2. CASE WriteScript
      BY <3>2 DEF WriteScript, groupVars
    <3>3. CASE WriteFails
      BY <3>3 DEF WriteFails, groupVars
    <3>4. QED
      BY <2>2, <3>1, <3>2, <3>3
  <2>3. CASE SeeExit \/ Terminate \/ ReapSupervisor
    BY <2>3 DEF SeeExit, Terminate, ReapSupervisor, groupVars
  <2>4. CASE KillSupervisor
    BY <2>4 DEF KillSupervisor, groupVars
  <2>5. CASE JoinOutput
    BY <2>5 DEF JoinOutput, OutputHeld, groupVars
  <2>6. CASE BridgeDies
    BY <2>6 DEF BridgeDies, groupVars
  <2>7. QED
    BY <1>1, <2>1, <2>2, <2>3, <2>4, <2>5, <2>6 DEF BridgeStep
<1>2. CASE SupervisorStep
  <2>1. CASE ReadFails \/ StartRuntime
    BY <2>1 DEF ReadFails, StartRuntime, bridgeVars, groupVars
  <2>2. CASE FeedRuntime \/ FeedFails
    BY <2>2 DEF FeedRuntime, FeedFails, bridgeVars, groupVars
  <2>3. CASE SeeRuntimeExit \/ SeeControlEnd
    BY <2>3 DEF SeeRuntimeExit, SeeControlEnd, bridgeVars
  <2>4. QED
    BY <1>2, <2>1, <2>2, <2>3 DEF SupervisorStep
<1>3. CASE RuntimeStep
  <2>1. CASE RuntimeStalls \/ RuntimeExits
    BY <2>1 DEF RuntimeStalls, RuntimeExits, bridgeVars
  <2>2. CASE ForkChild \/ ChildClosesOutput \/ ChildExits
    BY <2>2 DEF ForkChild, ChildClosesOutput, ChildExits, bridgeVars
  <2>3. CASE ForkStray \/ StrayClosesOutput \/ StrayExits
    BY <2>3 DEF ForkStray, StrayClosesOutput, StrayExits, bridgeVars
  <2>4. QED
    BY <1>3, <2>1, <2>2, <2>3 DEF RuntimeStep
<1>4. CASE UNCHANGED vars
  BY <1>4 DEF vars
<1>5. QED
  BY <1>1, <1>2, <1>3, <1>4 DEF Next

\* The inductive invariant is an invariant of the execution.
THEOREM Inductive == Spec => []IInv
BY InitIInv, StepIInv, PTL DEF Spec

\* Type correctness of the execution.
THEOREM TypeCorrect == Spec => []TypeOK
<1>1. IInv => TypeOK
  BY DEF IInv
<1>2. QED
  BY Inductive, <1>1, PTL

\* A returned run_process leaves nothing of its process group (terminate_execution,
\* join_capture): the reason the scheduler may admit the next script.
THEOREM NothingLeftBehind == Spec => []ManagedGroupEnded
<1>1. IInv => ManagedGroupEnded
  BY DEF IInv, TypeOK, GroupFollowsSupervisor, JoinsAfterSupervisor, ManagedGroupEnded,
     GroupAlive
<1>2. QED
  BY Inductive, <1>1, PTL

\* A runtime that took its script never outlives its supervisor, wherever the
\* Bridge dies (run_execution_supervisor).
THEOREM SupervisorIsLast == Spec => []SupervisorOutlivesGroup
<1>1. IInv => SupervisorOutlivesGroup
  BY DEF IInv, TypeOK, GroupFollowsSupervisor, SupervisorOutlivesGroup, GroupAlive, RuntimeAlive
<1>2. QED
  BY Inductive, <1>1, PTL

-----------------------------------------------------------------------------
(* The life of one script.                                                   *)

\* A step of run_process that changes where it is, and nothing of the script.
LEMMA BridgeLives == IInv /\ BridgeStep => [Life!Next]_Life!vars
<1> SUFFICES ASSUME IInv, BridgeStep PROVE [Life!Next]_Life!vars
  OBVIOUS
<1> USE DEF Life!Next, Life!vars, Life!Moves, Life!Ended, ReportPhase, ScriptState
<1>1. CASE CancelSpawned
  <2>1. Life!Conclude
    BY <1>1 DEF CancelSpawned, groupVars, IInv, JoinsAfterSupervisor, Life!Conclude
  <2>2. QED
    BY <2>1
<1>2. CASE BeginWrite
  BY <1>2 DEF BeginWrite, groupVars, GroupAlive, RuntimeAlive
<1>3. CASE WriteScript
  <2>1. Life!HandOver
    BY <1>3 DEF WriteScript, groupVars, IInv, JoinsAfterSupervisor, Life!HandOver
  <2>2. QED
    BY <2>1
<1>4. CASE WriteFails \/ Terminate
  <2>1. Life!Stop
    BY <1>4 DEF WriteFails, Terminate, groupVars, GroupAlive, RuntimeAlive, Life!Stop
  <2>2. QED
    BY <2>1
<1>5. CASE SeeExit
  <2>1. Life!SeeEnd
    BY <1>5 DEF SeeExit, groupVars, IInv, JoinsAfterSupervisor, GroupFollowsSupervisor,
       GroupAlive, RuntimeAlive, Life!SeeEnd
  <2>2. QED
    BY <2>1
<1>6. CASE ReapSupervisor \/ KillSupervisor
  BY <1>6 DEF ReapSupervisor, KillSupervisor, groupVars, IInv, JoinsAfterSupervisor, GroupAlive,
     RuntimeAlive
<1>7. CASE JoinOutput
  <2>1. Life!Conclude
    BY <1>7 DEF JoinOutput, OutputHeld, groupVars, IInv, TypeOK, JoinsAfterSupervisor,
       GroupFollowsSupervisor, GroupAlive, RuntimeAlive, Life!Conclude
  <2>2. QED
    BY <2>1
<1>8. CASE BridgeDies
  <2>1. Life!Vanish
    BY <1>8 DEF BridgeDies, groupVars, GroupAlive, RuntimeAlive, Life!Vanish
  <2>2. QED
    BY <2>1
<1>9. QED
  BY <1>1, <1>2, <1>3, <1>4, <1>5, <1>6, <1>7, <1>8 DEF BridgeStep

\* A step of the execution supervisor starts or ends the script, or neither.
LEMMA SupervisorLives == IInv /\ SupervisorStep => [Life!Next]_Life!vars
<1> SUFFICES ASSUME IInv, SupervisorStep PROVE [Life!Next]_Life!vars
  OBVIOUS
<1> USE DEF Life!Next, Life!vars, ReportPhase, ScriptState, GroupAlive, RuntimeAlive,
    bridgeVars, groupVars, IInv, TypeOK, GroupFollowsSupervisor
<1>1. UNCHANGED <<bridge, verdict, delivered>>
  BY DEF SupervisorStep, ReadFails, StartRuntime, FeedRuntime, FeedFails, SeeRuntimeExit,
     SeeControlEnd
<1>2. CASE ReadFails
  BY <1>2 DEF ReadFails, Life!EndScript
<1>3. CASE StartRuntime
  BY <1>3 DEF StartRuntime, Life!StartScript
<1>4. CASE FeedRuntime
  BY <1>4 DEF FeedRuntime
<1>5. CASE FeedFails \/ SeeRuntimeExit \/ SeeControlEnd
  <2>1. CASE delivered
    BY <1>1, <1>5, <2>1 DEF FeedFails, SeeRuntimeExit, SeeControlEnd, Life!EndScript
  <2>2. CASE ~delivered
    BY <1>1, <2>2
  <2>3. QED
    BY <2>1, <2>2
<1>6. QED
  BY <1>2, <1>3, <1>4, <1>5 DEF SupervisorStep

\* What the runtime and its descendants do is inside the script's life.
LEMMA RuntimeLives == IInv /\ RuntimeStep => UNCHANGED Life!vars
<1> SUFFICES ASSUME IInv, RuntimeStep PROVE UNCHANGED Life!vars
  OBVIOUS
<1>1. UNCHANGED <<bridge, verdict, delivered, supervisor>>
  BY DEF RuntimeStep, RuntimeStalls, RuntimeExits, ForkChild, ChildClosesOutput, ChildExits,
     ForkStray, StrayClosesOutput, StrayExits, bridgeVars
<1>2. supervisor = "ended" => UNCHANGED <<runtime, child>>
  BY DEF IInv, GroupFollowsSupervisor, RuntimeStep, RuntimeStalls, RuntimeExits, ForkChild,
     ChildClosesOutput, ChildExits, ForkStray, StrayClosesOutput, StrayExits
<1>3. UNCHANGED ReportPhase
  BY <1>1 DEF ReportPhase
<1>4. UNCHANGED ScriptState
  BY <1>1, <1>2 DEF IInv, TypeOK, ScriptState, GroupAlive, RuntimeAlive
<1>5. QED
  BY <1>3, <1>4 DEF Life!vars

\* The execution supervisor and run_process keep to the life of one script, in
\* every world (run_process, run_execution_supervisor).
THEOREM ExecutionIsOneLife == Spec => ImplementsScriptLife
<1>1. Init => Life!Init
  BY DEF Init, Life!Init, ReportPhase, ScriptState
<1>2. IInv /\ [Next]_vars => [Life!Next]_Life!vars
  <2> SUFFICES ASSUME IInv, [Next]_vars PROVE [Life!Next]_Life!vars
    OBVIOUS
  <2>1. CASE UNCHANGED vars
    BY <2>1 DEF vars, Life!vars, ReportPhase, ScriptState, GroupAlive, RuntimeAlive
  <2>2. QED
    BY <2>1, BridgeLives, SupervisorLives, RuntimeLives DEF Next
<1>3. QED
  BY <1>1, <1>2, Inductive, PTL DEF Spec, ImplementsScriptLife, Life!Spec

-----------------------------------------------------------------------------
(* The helper file guard, and an execution with its guard.                   *)

\* The closure that is under way, and what it has in hand.
OperationShape ==
    /\ op.kind = "none" \/ op.step = "none" => op = NoOp
    /\ op.kind \in {"prepare", "commit"} => op.token \in Tokens
    /\ op.step = "blocked" => op.kind \in {"upload", "commit"}
    /\ op.kind = "commit" /\ op.step = "blocked" => op.token \notin downloads
    /\ op.step \in {"read", "temp", "checked", "renamed"} =>
          /\ op.kind = "commit" /\ op.token \notin downloads
          /\ WithinLimits(op.size)
    /\ guard = "accepting" => op = NoOp
    /\ guard = "ended" /\ op.kind = "commit" => op.step = "queued" /\ op.token \notin downloads

\* The budget counts what was given, but for the commit that has just renamed.
BudgetExact ==
    /\ guard # "ended" \/ op # NoOp =>
          given = count + (IF op.step = "renamed" THEN 1 ELSE 0)
    /\ given <= MaxFiles /\ count <= MaxFiles
    /\ bytes <= MaxBytes

\* Between a commit's last look and its rename only other programs act.
LookedAt == op.step = "checked" => TargetUnchanged \/ raced

\* Nothing is asked of the guard outside the life of the runtime.
QuietOutside ==
    /\ runtime \in {"none", "starting", "stalled"} => op = NoOp
    /\ bridge = "returned" => guard = "ended" \/ op = NoOp

\* Every incoming file belongs to a prepared download, or to the commit under way,
\* or its directory was moved.
StagingKnown ==
    /\ op.kind = "prepare" => client[op.token] \in {"asked", "settled"} /\ op.token \notin downloads
    /\ op.kind = "prepare" => \A d \in Dirs : <<op.token, d>> \notin staged
    /\ \A t \in Tokens : client[t] \in {"idle", "asked"} => \A d \in Dirs : <<t, d>> \notin staged
    /\ \A t \in Tokens : client[t] \in {"writing", "written"} /\ guard # "ended" => t \in downloads
    /\ \A t \in Tokens : client[t] = "idle" => op.token # t /\ t \notin downloads
    /\ op.kind = "commit" => client[op.token] \in {"committing", "settled"}
    /\ op.kind = "commit" /\ op.step = "queued" /\ guard # "ended" => op.token \in downloads
    /\ \A t \in Tokens : <<t, "first">> \in staged => base[t].dir = "first"
    /\ \A t \in Tokens : base[t].dir = "second" \/ <<t, "second">> \in staged => at = "second"
    /\ guard # "ended" => \A incoming \in staged :
           \/ at # base[incoming[1]].dir
           \/ incoming[1] \in downloads
           \/ (op.kind = "commit" /\ op.token = incoming[1])

GuardInv == GuardTypeOK /\ OperationShape /\ BudgetExact /\ LookedAt /\ StagingKnown

GInv == GuardInv /\ TypeOK /\ IInv /\ QuietOutside

-----------------------------------------------------------------------------
\* A step of the execution with its guard is a step of the execution, or none.
LEMMA StepRefines == [GuardedNext]_guardedVars => [Next]_vars
<1> SUFFICES ASSUME [GuardedNext]_guardedVars PROVE [Next]_vars
  OBVIOUS
<1>1. CASE CancelUnguarded \/ Report \/ GuardDies \/ BridgeAlone
  BY <1>1 DEF CancelUnguarded, Report, GuardDies, BridgeAlone, Next, BridgeStep
<1>2. CASE (SupervisorStep \/ RuntimeStep) /\ UNCHANGED guardVars
  BY <1>2 DEF Next
<1>3. CASE UNCHANGED vars
  BY <1>3
<1>4. QED
  BY <1>1, <1>2, <1>3 DEF GuardedNext, StopGuard, guardedVars, vars

\* The guard's part of the inductive invariant holds when it has been started.
LEMMA GuardInitInv == GuardInit => GuardInv
<1> SUFFICES ASSUME GuardInit PROVE GuardInv
  OBVIOUS
<1>1. GuardTypeOK
  <2>1. target \in [Dirs -> Files] /\ base \in [Tokens -> [dir : Dirs, file : Files]]
    BY DEF GuardInit, Dirs, Files
  <2>2. op \in [kind : {"none", "upload", "prepare", "commit"}, token : Tokens \cup {"none"},
                step : {"none", "queued"} \cup Held, size : Nat]
    BY DEF GuardInit, NoOp
  <2>3. QED
    <3>1. client \in [Tokens -> {"idle", "asked", "writing", "written", "committing", "settled"}]
      BY DEF GuardInit
    <3>2. meddled \in 0..MaxMeddling
      BY LimitAssumption DEF GuardInit
    <3>3. QED
      BY <2>1, <2>2, <3>1, <3>2 DEF GuardInit, GuardTypeOK, Dirs
<1>2. OperationShape /\ BudgetExact /\ LookedAt
  BY LimitAssumption DEF GuardInit, OperationShape, BudgetExact, LookedAt, NoOp
<1>3. StagingKnown
  BY LimitAssumption DEF GuardInit, StagingKnown, NoOp, Dirs
<1>4. QED
  BY <1>1, <1>2, <1>3 DEF GuardInv

\* What the helper and the browser do.
LEMMA ClientKeeps == GuardInv /\ (ClientAsks \/ ClientElsewhere) => GuardInv'
<1> SUFFICES ASSUME GuardInv, ClientAsks \/ ClientElsewhere PROVE GuardInv'
  OBVIOUS
<1> USE LimitAssumption DEF GuardInv, GuardTypeOK, OperationShape, BudgetExact, LookedAt, StagingKnown,
    NoOp, Held, Dirs, Files, WithinLimits, TargetUnchanged, Home, budgetVars, fileVars, guardVars
<1>1. CASE AskUpload
  BY <1>1 DEF AskUpload, Connect, Operation
<1>2. ASSUME NEW t \in Tokens, AskPrepare(t) PROVE GuardInv'
  BY <1>2 DEF AskPrepare, Connect, Operation
<1>3. ASSUME NEW t \in Tokens, AskCommit(t) PROVE GuardInv'
  BY <1>3 DEF AskCommit, Connect, Operation
<1>4. ASSUME NEW t \in Tokens, FinishWriting(t) PROVE GuardInv'
  <2>1. GuardTypeOK'
    BY <1>4 DEF FinishWriting
  <2>2. OperationShape'
    BY <1>4 DEF FinishWriting
  <2>3. BudgetExact'
    BY <1>4 DEF FinishWriting
  <2>4. LookedAt'
    BY <1>4 DEF FinishWriting
  <2>5. StagingKnown'
    <3>1. /\ client[t] = "writing"
          /\ \A u \in Tokens : u # t => client'[u] = client[u]
          /\ client'[t] \in {"written", "settled"}
      BY <1>4 DEF FinishWriting
    <3>2. \A incoming \in staged' :
             incoming \in staged \/ (incoming[1] = t /\ incoming[2] = at /\ incoming = <<t, at>>)
      BY <1>4 DEF FinishWriting
    <3>3. UNCHANGED <<guard, op, downloads, base, at>>
      BY <1>4 DEF FinishWriting
    <3>4. op.kind = "prepare" => op.token # t
      BY <3>1
    <3>5. \A u \in Tokens, d \in Dirs : <<u, d>> \in staged' => <<u, d>> \in staged \/ (u = t /\ d = at)
      BY <3>2
    <3>6. guard' # "ended" => \A incoming \in staged' :
             \/ at' # base'[incoming[1]].dir
             \/ incoming[1] \in downloads'
             \/ (op'.kind = "commit" /\ op'.token = incoming[1])
      BY <3>1, <3>2, <3>3
    <3>7. \A u \in Tokens : base'[u].dir = "second" \/ <<u, "second">> \in staged' => at' = "second"
      BY <3>3, <3>5
    <3>8. \A u \in Tokens : <<u, "first">> \in staged' => base'[u].dir = "first"
      BY <3>3, <3>5
    <3>9. QED
      BY <3>1, <3>3, <3>4, <3>5, <3>6, <3>7, <3>8
  <2>6. QED
    BY <2>1, <2>2, <2>3, <2>4, <2>5
<1>5. ASSUME NEW t \in Tokens, FailWriting(t) PROVE GuardInv'
  <2>1. GuardTypeOK'
    BY <1>5 DEF FailWriting
  <2>2. OperationShape'
    BY <1>5 DEF FailWriting
  <2>3. BudgetExact'
    BY <1>5 DEF FailWriting
  <2>4. LookedAt'
    BY <1>5 DEF FailWriting
  <2>5. StagingKnown'
    <3>1. /\ client[t] = "writing"
          /\ \A u \in Tokens : u # t => client'[u] = client[u]
          /\ client'[t] \in {"written", "settled"}
      BY <1>5 DEF FailWriting
    <3>2. \A incoming \in staged' :
             incoming \in staged \/ (incoming[1] = t /\ incoming[2] = at /\ incoming = <<t, at>>)
      BY <1>5 DEF FailWriting
    <3>3. UNCHANGED <<guard, op, downloads, base, at>>
      BY <1>5 DEF FailWriting
    <3>4. op.kind = "prepare" => op.token # t
      BY <3>1
    <3>5. \A u \in Tokens, d \in Dirs : <<u, d>> \in staged' => <<u, d>> \in staged \/ (u = t /\ d = at)
      BY <3>2
    <3>6. guard' # "ended" => \A incoming \in staged' :
             \/ at' # base'[incoming[1]].dir
             \/ incoming[1] \in downloads'
             \/ (op'.kind = "commit" /\ op'.token = incoming[1])
      BY <3>1, <3>2, <3>3
    <3>7. \A u \in Tokens : base'[u].dir = "second" \/ <<u, "second">> \in staged' => at' = "second"
      BY <3>3, <3>5
    <3>8. \A u \in Tokens : <<u, "first">> \in staged' => base'[u].dir = "first"
      BY <3>3, <3>5
    <3>9. QED
      BY <3>1, <3>3, <3>4, <3>5, <3>6, <3>7, <3>8
  <2>6. QED
    BY <2>1, <2>2, <2>3, <2>4, <2>5
<1>6. ASSUME NEW t \in Tokens, GiveUp(t) PROVE GuardInv'
  BY <1>6 DEF GiveUp
<1> HIDE DEF GuardInv, GuardTypeOK, OperationShape, BudgetExact, LookedAt, StagingKnown,
    NoOp, Held, Dirs, Files, WithinLimits, TargetUnchanged, Home, budgetVars, fileVars, guardVars
<1>7. QED
  BY <1>1, <1>2, <1>3, <1>4, <1>5, <1>6 DEF ClientAsks, ClientElsewhere

\* What the closure on the blocking thread does.
LEMMA ClosureKeeps == GuardInv /\ (ClosureSteps \/ BlockOnPipe \/ LeavePipe) => GuardInv'
<1> SUFFICES ASSUME GuardInv, ClosureSteps \/ BlockOnPipe \/ LeavePipe PROVE GuardInv'
  OBVIOUS
<1> USE LimitAssumption DEF GuardInv, GuardTypeOK, OperationShape, BudgetExact, LookedAt, StagingKnown,
    NoOp, Held, Dirs, Files, WithinLimits, TargetUnchanged, Home, budgetVars, fileVars, guardVars
<1>1. ASSUME NEW size \in Sizes, Upload(size) PROVE GuardInv'
  BY <1>1 DEF Upload, Queued, Charge, AnswerUpload
<1>2. ASSUME NEW size \in Sizes, ReadIncoming(size) PROVE GuardInv'
  <2>1. GuardTypeOK'
    BY <1>2 DEF ReadIncoming, Queued
  <2>2. OperationShape'
    BY <1>2 DEF ReadIncoming, Queued
  <2>3. BudgetExact'
    BY <1>2 DEF ReadIncoming, Queued
  <2>4. LookedAt'
    BY <1>2 DEF ReadIncoming, Queued
  <2>5. StagingKnown'
    BY <1>2 DEF ReadIncoming, Queued
  <2>6. QED
    BY <2>1, <2>2, <2>3, <2>4, <2>5
<1>3. CASE RefuseUpload
  BY <1>3 DEF RefuseUpload, Queued, AnswerUpload
<1>4. CASE BlockOnPipe
  <2>1. CASE BlockOnUpload
    BY <2>1 DEF BlockOnUpload, Block, Queued
  <2>2. CASE BlockOnIncoming
    BY <2>2 DEF BlockOnIncoming, Block, Queued
  <2>3. CASE BlockOnTarget
    <3>1. given' \in Nat
      BY <2>3 DEF BlockOnTarget
    <3>2. QED
      BY <2>3, <3>1 DEF BlockOnTarget, Block
  <2>4. QED
    BY <1>4, <2>1, <2>2, <2>3 DEF BlockOnPipe
<1>5. CASE LeavePipe
  <2>1. CASE LeavePipeOfUpload
    BY <2>1 DEF LeavePipeOfUpload, Step, AnswerUpload
  <2>2. CASE LeavePipeOfCommit
    <3>1. staged' \subseteq staged
      BY <2>2 DEF LeavePipeOfCommit, StagingAfter, HomeIsThere
    <3>2. GuardTypeOK'
      BY <2>2, <3>1 DEF LeavePipeOfCommit, Step, Answer
    <3>3. OperationShape'
      BY <2>2 DEF LeavePipeOfCommit, Step, Answer
    <3>4. BudgetExact'
      BY <2>2 DEF LeavePipeOfCommit, Step, Answer
    <3>5. LookedAt'
      BY <2>2 DEF LeavePipeOfCommit, Step, Answer
    <3>6. StagingKnown'
      BY <2>2 DEF LeavePipeOfCommit, Step, Answer, StagingAfter, HomeIsThere
    <3>7. QED
      BY <3>2, <3>3, <3>4, <3>5, <3>6
  <2>3. QED
    BY <1>5, <2>1, <2>2 DEF LeavePipe
<1>6. CASE Prepare
  BY <1>6 DEF Prepare, Queued, Answer
<1>7. CASE RefusePrepare
  BY <1>7 DEF RefusePrepare, Queued, Answer
<1>8. CASE RefuseIncoming
  <2>1. GuardTypeOK'
    BY <1>8 DEF RefuseIncoming, Queued, Answer, StagingAfter, HomeIsThere
  <2>2. OperationShape'
    BY <1>8 DEF RefuseIncoming, Queued, Answer, StagingAfter, HomeIsThere
  <2>3. BudgetExact'
    BY <1>8 DEF RefuseIncoming, Queued, Answer, StagingAfter, HomeIsThere
  <2>4. LookedAt'
    BY <1>8 DEF RefuseIncoming, Queued, Answer, StagingAfter, HomeIsThere
  <2>5. StagingKnown'
    BY <1>8 DEF RefuseIncoming, Queued, Answer, StagingAfter, HomeIsThere
  <2>6. QED
    BY <2>1, <2>2, <2>3, <2>4, <2>5
<1>9. CASE RefuseToken
  <2>1. GuardTypeOK'
    BY <1>9 DEF RefuseToken, Queued, Answer
  <2>2. OperationShape'
    BY <1>9 DEF RefuseToken, Queued, Answer
  <2>3. BudgetExact'
    BY <1>9 DEF RefuseToken, Queued, Answer
  <2>4. LookedAt'
    BY <1>9 DEF RefuseToken, Queued, Answer
  <2>5. StagingKnown'
    BY <1>9 DEF RefuseToken, Queued, Answer
  <2>6. QED
    BY <2>1, <2>2, <2>3, <2>4, <2>5
<1>10. CASE WriteTemporary
  BY <1>10 DEF WriteTemporary, Step
<1>11. CASE LookAgain
  BY <1>11 DEF LookAgain, Step
<1>12. CASE Install
  BY <1>12 DEF Install, Step
<1>13. CASE Committed
  <2>0. staged' \subseteq staged
    BY <1>13 DEF Committed, StagingAfter, HomeIsThere
  <2>1. GuardTypeOK'
    <3>1. bytes' \in Nat /\ count' \in Nat /\ given' \in Nat
      BY <1>13 DEF Committed, Step, Charge
    <3>2. QED
      BY <1>13, <2>0, <3>1 DEF Committed, Answer
  <2>2. OperationShape'
    BY <1>13 DEF Committed, Step, Charge, Answer, StagingAfter, HomeIsThere
  <2>3. BudgetExact'
    BY <1>13 DEF Committed, Step, Charge, Answer, StagingAfter, HomeIsThere
  <2>4. LookedAt'
    BY <1>13 DEF Committed, Step, Charge, Answer, StagingAfter, HomeIsThere
  <2>5. StagingKnown'
    BY <1>13 DEF Committed, Step, Charge, Answer, StagingAfter, HomeIsThere
  <2>6. QED
    BY <2>1, <2>2, <2>3, <2>4, <2>5
<1>14. CASE CommitFails
  <2>0. staged' \subseteq staged
    BY <1>14 DEF CommitFails, StagingAfter, HomeIsThere
  <2>1. GuardTypeOK'
    <3>1. given' \in Nat
      BY <1>14 DEF CommitFails
    <3>2. QED
      BY <1>14, <2>0, <3>1 DEF CommitFails, Answer
  <2>2. OperationShape'
    BY <1>14 DEF CommitFails, Answer, StagingAfter, HomeIsThere
  <2>3. BudgetExact'
    BY <1>14 DEF CommitFails, Answer, StagingAfter, HomeIsThere
  <2>4. LookedAt'
    BY <1>14 DEF CommitFails, Answer, StagingAfter, HomeIsThere
  <2>5. StagingKnown'
    BY <1>14 DEF CommitFails, Answer, StagingAfter, HomeIsThere
  <2>6. QED
    BY <2>1, <2>2, <2>3, <2>4, <2>5
<1> HIDE DEF GuardInv, GuardTypeOK, OperationShape, BudgetExact, LookedAt, StagingKnown,
    NoOp, Held, Dirs, Files, WithinLimits, TargetUnchanged, Home, budgetVars, fileVars, guardVars
<1>15. QED
  BY <1>1, <1>2, <1>3, <1>4, <1>5, <1>6, <1>7, <1>8, <1>9, <1>10, <1>11, <1>12, <1>13, <1>14 DEF ClosureSteps

\* What the task and other programs do.
LEMMA TaskKeeps == GuardInv /\ (TaskSteps \/ OtherPrograms) => GuardInv'
<1> SUFFICES ASSUME GuardInv, TaskSteps \/ OtherPrograms PROVE GuardInv'
  OBVIOUS
<1> USE LimitAssumption DEF GuardInv, GuardTypeOK, OperationShape, BudgetExact, LookedAt, StagingKnown,
    NoOp, Held, Dirs, Files, WithinLimits, TargetUnchanged, Home, budgetVars, fileVars, guardVars
<1>1. CASE LeaveLoop
  BY <1>1 DEF LeaveLoop
<1>2. CASE CleanUp
  BY <1>2 DEF CleanUp, Locked, StagingAfter, HomeIsThere
<1>3. ASSUME NEW file \in Others \cup {"none"}, OtherProgramWrites(file) PROVE GuardInv'
  <2>1. GuardTypeOK'
    BY <1>3 DEF OtherProgramWrites, Meddle
  <2>2. OperationShape'
    BY <1>3 DEF OtherProgramWrites, Meddle
  <2>3. BudgetExact'
    BY <1>3 DEF OtherProgramWrites, Meddle
  <2>4. LookedAt'
    BY <1>3 DEF OtherProgramWrites, Meddle
  <2>5. StagingKnown'
    BY <1>3 DEF OtherProgramWrites, Meddle
  <2>6. QED
    BY <2>1, <2>2, <2>3, <2>4, <2>5
<1>4. CASE OtherProgramMovesDirectory
  BY <1>4 DEF OtherProgramMovesDirectory, Meddle
<1> HIDE DEF GuardInv, GuardTypeOK, OperationShape, BudgetExact, LookedAt, StagingKnown,
    NoOp, Held, Dirs, Files, WithinLimits, TargetUnchanged, Home, budgetVars, fileVars, guardVars
<1>5. QED
  BY <1>1, <1>2, <1>3, <1>4 DEF TaskSteps, OtherPrograms

\* What the end of run_process and the death of the Bridge do to the guard.
LEMMA BridgeKeeps ==
    GuardInv /\ (CancelUnguarded \/ StopGuard \/ GuardDies \/ UNCHANGED guardVars) => GuardInv'
<1> SUFFICES ASSUME GuardInv, CancelUnguarded \/ StopGuard \/ GuardDies \/ UNCHANGED guardVars
             PROVE GuardInv'
  OBVIOUS
<1> USE DEF GuardInv, GuardTypeOK, OperationShape, BudgetExact, LookedAt, StagingKnown, NoOp,
    WithinLimits, TargetUnchanged, Home, budgetVars, fileVars
<1>1. CASE CancelUnguarded \/ StopGuard
  <2>1. stop' = TRUE /\ UNCHANGED <<guard, op, downloads, base, at, client, budgetVars, fileVars>>
    BY <1>1 DEF CancelUnguarded, StopGuard
  <2>2. GuardTypeOK'
    BY <2>1
  <2>3. OperationShape' /\ BudgetExact' /\ LookedAt' /\ StagingKnown'
    BY <2>1
  <2>4. QED
    BY <2>2, <2>3
<1>2. CASE GuardDies
  BY <1>2, LimitAssumption DEF GuardDies
<1>3. CASE UNCHANGED guardVars
  BY <1>3 DEF guardVars
<1>4. QED
  BY <1>1, <1>2, <1>3

\* Every step keeps the guard's part of the inductive invariant.
LEMMA GuardStep == GuardInv /\ [GuardedNext]_guardedVars => GuardInv'
BY ClientKeeps, ClosureKeeps, TaskKeeps, BridgeKeeps
   DEF GuardedNext, GuardNext, Report, BridgeAlone, guardedVars

\* A closure exists only once the runtime runs, and after the report only if the
\* guard has ended: its requests come from the runtime, and a stopped guard ends first.
LEMMA QuietStep == GInv /\ [GuardedNext]_guardedVars => QuietOutside'
<1> SUFFICES ASSUME GInv, [GuardedNext]_guardedVars PROVE QuietOutside'
  OBVIOUS
<1> USE DEF GInv, QuietOutside
<1>1. CASE CancelUnguarded
  BY <1>1 DEF CancelUnguarded, CancelSpawned, IInv, JoinsAfterSupervisor, GroupFollowsSupervisor,
     groupVars
<1>2. CASE StopGuard
  BY <1>2 DEF StopGuard, vars
<1>3. CASE Report
  BY <1>3 DEF Report, JoinOutput, guardVars, groupVars
<1>4. CASE GuardDies
  BY <1>4 DEF GuardDies, BridgeDies, groupVars
<1>5. CASE BridgeAlone
  BY <1>5 DEF BridgeAlone, BeginWrite, WriteScript, WriteFails, SeeExit, Terminate, ReapSupervisor,
     KillSupervisor, guardVars, groupVars
<1>6. CASE SupervisorStep /\ UNCHANGED guardVars
  BY <1>6 DEF SupervisorStep, ReadFails, StartRuntime, FeedRuntime, FeedFails, SeeRuntimeExit,
     SeeControlEnd, bridgeVars, groupVars, guardVars, IInv, GroupFollowsSupervisor
<1>7. CASE RuntimeStep /\ UNCHANGED guardVars
  BY <1>7 DEF RuntimeStep, RuntimeStalls, RuntimeExits, ForkChild, ChildClosesOutput, ChildExits,
     ForkStray, StrayClosesOutput, StrayExits, bridgeVars, guardVars
<1>8. CASE runtime = "running" /\ ClientAsks /\ UNCHANGED vars
  BY <1>8 DEF vars, IInv, JoinsAfterSupervisor, RuntimeAlive
<1>9. CASE GuardNext /\ UNCHANGED vars
  <2>1. UNCHANGED <<bridge, runtime>>
    BY <1>9 DEF vars
  <2>2. op = NoOp => op' = NoOp
    <3> SUFFICES ASSUME op = NoOp PROVE op' = NoOp
      OBVIOUS
    <3>1. op.kind = "none" /\ op.step = "none"
      BY DEF NoOp
    <3>2. CASE ClosureSteps \/ BlockOnPipe \/ LeavePipe
      BY <3>1, <3>2 DEF ClosureSteps, Upload, ReadIncoming, RefuseUpload, BlockOnPipe, BlockOnUpload,
         BlockOnIncoming, BlockOnTarget, LeavePipe, LeavePipeOfUpload, LeavePipeOfCommit,
         Prepare, RefusePrepare, RefuseIncoming, RefuseToken, WriteTemporary, LookAgain, Install,
         Committed, CommitFails, Queued, Step
    <3>3. CASE TaskSteps \/ ClientElsewhere \/ OtherPrograms
      BY <3>3 DEF TaskSteps, LeaveLoop, CleanUp, ClientElsewhere, FinishWriting, FailWriting, GiveUp,
         OtherPrograms, OtherProgramWrites, OtherProgramMovesDirectory
    <3>4. QED
      BY <1>9, <3>2, <3>3 DEF GuardNext
  <2>3. guard = "ended" => guard' = "ended"
    <3>2. CASE ClosureSteps \/ BlockOnPipe \/ LeavePipe
      BY <3>2 DEF ClosureSteps, Upload, ReadIncoming, RefuseUpload, BlockOnPipe, BlockOnUpload,
         BlockOnIncoming, BlockOnTarget, LeavePipe, LeavePipeOfUpload, LeavePipeOfCommit,
         Prepare, RefusePrepare, RefuseIncoming, RefuseToken, WriteTemporary, LookAgain, Install,
         Committed, CommitFails, Answer, AnswerUpload
    <3>3. CASE TaskSteps \/ ClientElsewhere \/ OtherPrograms
      BY <3>3 DEF TaskSteps, LeaveLoop, CleanUp, ClientElsewhere, FinishWriting, FailWriting, GiveUp,
         OtherPrograms, OtherProgramWrites, OtherProgramMovesDirectory
    <3>4. QED
      BY <1>9, <3>2, <3>3 DEF GuardNext
  <2>4. QED
    BY <2>1, <2>2, <2>3
<1>10. CASE UNCHANGED guardedVars
  BY <1>10 DEF guardedVars, vars, guardVars
<1>11. QED
  BY <1>1, <1>2, <1>3, <1>4, <1>5, <1>6, <1>7, <1>8, <1>9, <1>10 DEF GuardedNext

-----------------------------------------------------------------------------
\* An execution with its guard is one of the execution supervisor's (run_process).
THEOREM ImplementsExecution == GuardedSpec => Spec
<1>1. GuardedInit => Init
  BY DEF GuardedInit
<1>2. QED
  BY <1>1, StepRefines, PTL DEF GuardedSpec, Spec

\* The guard adds nothing to the life of a script: run_process reports its end only
\* when nothing of it is left, with the guard stopped in between.
THEOREM GuardedExecutionIsOneLife == GuardedSpec => ImplementsScriptLife
BY ImplementsExecution, ExecutionIsOneLife

\* The inductive invariant of an execution with its guard.
THEOREM GuardedInductive == GuardedSpec => []GInv
<1>1. GuardedInit => GInv
  <2>1. GuardedInit => QuietOutside
    BY DEF GuardedInit, GuardInit, QuietOutside
  <2>2. QED
    BY <2>1, GuardInitInv, InitIInv DEF GuardedInit, GInv, IInv
<1>2. GInv /\ [GuardedNext]_guardedVars => GInv'
  <2>1. IInv /\ [GuardedNext]_guardedVars => IInv' /\ TypeOK'
    BY StepRefines, StepIInv DEF IInv
  <2>2. QED
    BY <2>1, GuardStep, QuietStep DEF GInv
<1>3. QED
  BY <1>1, <1>2, PTL DEF GuardedSpec

\* Type correctness of an execution with its guard.
THEOREM GuardedTypeCorrect == GuardedSpec => []GuardedTypeOK
<1>1. GInv => GuardedTypeOK
  BY DEF GInv, GuardInv, GuardedTypeOK
<1>2. QED
  BY GuardedInductive, <1>1, PTL

\* The report of an execution with its guard comes after the end of its process
\* group (terminate_execution, join_capture, FileGuardHandle::stop).
THEOREM GroupEndedAtReport == GuardedSpec => []ManagedGroupEnded
BY ImplementsExecution, NothingLeftBehind, PTL

\* The allowlist's limits hold over every sequence of uploads, prepared and committed
\* downloads of one request (check_request_budget under the guard's mutex).
THEOREM BudgetKept == GuardedSpec => []WithinBudget
<1>1. GInv => WithinBudget
  BY DEF GInv, GuardInv, BudgetExact, WithinBudget
<1>2. QED
  BY GuardedInductive, <1>1, PTL

\* Only rename_at puts a token's file at a destination.
LEMMA InstallsOnly ==
    ASSUME GuardInv, [GuardedNext]_guardedVars,
           NEW d \in Dirs, target'[d] # target[d], target'[d] \in Tokens
    PROVE  Install
<1>1. target' # target
  OBVIOUS
<1>2. CASE OtherPrograms
  <2>1. PICK file \in Others \cup {"none"} : OtherProgramWrites(file)
    BY <1>1, <1>2 DEF OtherPrograms, OtherProgramMovesDirectory
  <2>2. target'[d] = file
    BY <2>1 DEF OtherProgramWrites, GuardInv, GuardTypeOK
  <2>3. QED
    BY <2>2, LimitAssumption
<1>3. CASE ClientAsks \/ ClientElsewhere \/ TaskSteps
  BY <1>1, <1>3 DEF ClientAsks, AskUpload, AskPrepare, AskCommit, Connect, ClientElsewhere,
     FinishWriting, FailWriting, GiveUp, TaskSteps, LeaveLoop, CleanUp, fileVars
<1>4. CASE ClosureSteps \/ BlockOnPipe \/ LeavePipe
  BY <1>1, <1>4 DEF ClosureSteps, Upload, ReadIncoming, RefuseUpload, BlockOnPipe, BlockOnUpload,
         BlockOnIncoming, BlockOnTarget, LeavePipe, LeavePipeOfUpload, LeavePipeOfCommit,
     Prepare, RefusePrepare, RefuseIncoming, RefuseToken, WriteTemporary, LookAgain,
     Committed, CommitFails, fileVars
<1>5. CASE CancelUnguarded \/ StopGuard \/ GuardDies
  BY <1>1, <1>5 DEF CancelUnguarded, StopGuard, GuardDies, fileVars
<1>6. CASE UNCHANGED guardVars
  BY <1>1, <1>6 DEF guardVars, fileVars
<1>7. QED
  BY <1>2, <1>3, <1>4, <1>5, <1>6 DEF GuardedNext, GuardNext, Report, BridgeAlone, guardedVars

\* After the report of an execution its guard replaces nothing, not even from a
\* closure whose connection was dropped (run_file_guard takes the mutex at its end).
THEOREM NothingReplacedLate == GuardedSpec => NoLateReplacement
<1>1. GInv /\ [GuardedNext]_guardedVars =>
        [bridge = "returned" =>
           \A d \in Dirs : target'[d] = target[d] \/ target'[d] \notin Tokens]_guardedVars
  <2> SUFFICES ASSUME GInv, [GuardedNext]_guardedVars, bridge = "returned",
                      NEW d \in Dirs, target'[d] # target[d], target'[d] \in Tokens
               PROVE  FALSE
    OBVIOUS
  <2>1. op.kind = "commit" /\ op.step = "checked"
    BY InstallsOnly DEF Install, Step, GInv
  <2>2. op # NoOp
    BY <2>1 DEF NoOp
  <2>3. QED
    BY <2>1, <2>2 DEF GInv, QuietOutside, GuardInv, OperationShape
<1>2. QED
  BY GuardedInductive, <1>1, PTL DEF GuardedSpec, NoLateReplacement

\* A commit replaces what validate_output found, where it found it, or what another
\* program put there after the last look (validate_target_at).
THEOREM OnlyPreparedReplaced == GuardedSpec => OnlyKnownTargetReplaced
<1>1. GInv /\ [GuardedNext]_guardedVars =>
        [\A d \in Dirs : target'[d] # target[d] /\ target'[d] \in Tokens =>
           /\ base[target'[d]].dir = d
           /\ base[target'[d]].file = target[d] \/ raced]_guardVars
  <2> SUFFICES ASSUME GInv, [GuardedNext]_guardedVars,
                      NEW d \in Dirs, target'[d] # target[d], target'[d] \in Tokens
               PROVE  /\ base[target'[d]].dir = d
                      /\ base[target'[d]].file = target[d] \/ raced
    OBVIOUS
  <2>1. Install
    BY InstallsOnly DEF GInv
  <2>2. op.step = "checked" /\ d = Home /\ target'[d] = op.token
    BY <2>1 DEF Install, Step, GInv, GuardInv, GuardTypeOK
  <2>3. QED
    BY <2>2 DEF GInv, GuardInv, LookedAt, TargetUnchanged, Home
<1>2. QED
  BY GuardedInductive, <1>1, PTL DEF GuardedSpec, OnlyKnownTargetReplaced

\* The guard's orderly end leaves no incoming file, unless its directory was moved
\* (remove_staging of every commit, and of what run_file_guard finds prepared).
THEOREM StagingRemoved == GuardedSpec => NoStagingLeft
<1>1. GInv /\ [GuardedNext]_guardedVars =>
        [guard = "closing" /\ guard' = "ended" /\ bridge # "gone" /\ bridge' # "gone" =>
           \A incoming \in staged' : at # base[incoming[1]].dir]_guardedVars
  <2> SUFFICES ASSUME GInv, [GuardedNext]_guardedVars,
                      guard = "closing", guard' = "ended", bridge # "gone", bridge' # "gone",
                      NEW incoming \in staged', at = base[incoming[1]].dir
               PROVE  FALSE
    OBVIOUS
  <2>1. CleanUp
    <3>1. guard' # guard
      OBVIOUS
    <3>2. CASE CancelUnguarded \/ StopGuard \/ GuardDies \/ UNCHANGED guardVars
      BY <3>1, <3>2 DEF CancelUnguarded, StopGuard, GuardDies, BridgeDies, guardVars
    <3>3. CASE ClientAsks \/ ClientElsewhere \/ OtherPrograms
      BY <3>1, <3>3 DEF ClientAsks, AskUpload, AskPrepare, AskCommit, Connect, ClientElsewhere,
         FinishWriting, FailWriting, GiveUp, OtherPrograms, OtherProgramWrites,
         OtherProgramMovesDirectory
    <3>4. CASE ClosureSteps \/ BlockOnPipe \/ LeavePipe
      BY <3>1, <3>4 DEF ClosureSteps, Upload, ReadIncoming, RefuseUpload, BlockOnPipe, BlockOnUpload,
         BlockOnIncoming, BlockOnTarget, LeavePipe, LeavePipeOfUpload, LeavePipeOfCommit,
         Prepare, RefusePrepare, RefuseIncoming, RefuseToken, WriteTemporary, LookAgain,
         Install, Committed, CommitFails, Answer, AnswerUpload
    <3>5. CASE TaskSteps
      BY <3>5 DEF TaskSteps, LeaveLoop
    <3>6. QED
      BY <3>2, <3>3, <3>4, <3>5
         DEF GuardedNext, GuardNext, Report, BridgeAlone, guardedVars
  <2>2. incoming \in staged
        /\ ~(incoming[1] \in downloads /\ incoming[2] = base[incoming[1]].dir /\ at = incoming[2])
    BY <2>1 DEF CleanUp, StagingAfter, HomeIsThere
  <2>3. incoming = <<incoming[1], incoming[2]>> /\ incoming[1] \in Tokens /\ incoming[2] \in Dirs
    BY <2>2 DEF GInv, GuardInv, GuardTypeOK
  <2>4. incoming[1] \in downloads
    BY <2>1, <2>2, <2>3 DEF CleanUp, Locked, Held, GInv, GuardInv, GuardTypeOK, OperationShape,
       StagingKnown, NoOp
  <2>5. incoming[2] = at
    BY <2>2, <2>3 DEF Dirs, GInv, GuardInv, GuardTypeOK, StagingKnown
  <2>6. QED
    BY <2>2, <2>4, <2>5
<1>2. QED
  BY GuardedInductive, <1>1, PTL DEF GuardedSpec, NoStagingLeft
=============================================================================
