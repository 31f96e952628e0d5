# Agent Remote ego browser: a formal model

A remote agent sends scripts to a browser runtime on a person's own Mac. Between
them stand a Server and a Node (outside this repository), a *Bridge* process
that executes the scripts, and a *Device Client* with which the person grants,
pauses and withdraws the access. What can go wrong is mostly in the order of
things: a script that runs twice, a revocation that loses a race, a pause that
becomes a stop, a process that outlives the one that owns it, a rotation that
ends with the wrong key. This directory
models that order in TLA+, checks it with TLC and proves the central invariants
with TLAPS. Source paths below are relative to the repository root.

Contents: [inventory](#1-inventory), [modules](#2-modules),
[runs](#3-runs-and-what-they-show), [bounds](#4-bounds),
[fairness](#5-fairness), [proofs](#6-proofs), [divergences](#7-divergences),
[abstractions](#8-abstractions-and-limits), [plan](#9-plan).
`PROJECT.json` maps every definition to the lines it stands for.

## 1. Inventory

### Components

| Component | State | Operations | Where it is hard |
|---|---|---|---|
| Scope scheduler (`protocol/scheduler.rs`) | number of live guards, lock keys held, binding lock | `try_acquire`, drop of a guard | summaries must be undone exactly on every way out |
| Replay ledger (`local-bridge/state_store.rs`, `supervisor_control.rs`) | ledger file, its copy in memory, instance lock | load, reserve, persist | crash and power loss between rename, sync and grant; two processes |
| Bridge supervisor and relay session (`outbound.rs`, `relay_session.rs`, `supervisor_*.rs`) | lease, cancellation flag, request table, ledger, scheduler | connect, reconnect, execute, cancel, reap, revoke, shut down | five tasks share the state with no common lock |
| Execution supervisor (`execution_runner.rs`, `process_control.rs`) | control pipe, output pipes, process groups | spawn, feed, watch, terminate, reap | either end may die at any point; descendants |
| Device-peer observer (`device_peer.rs`) | heartbeat stream | heartbeat, admission closed, peer lost | an intentional close must not look like a loss |
| Task Space monitor (`task_space_monitor.rs`) | monitor process | taken over, stopped, unavailable | revoke, wait five seconds, request a pause that may be lost |
| Lease and renewal (`protocol/lease.rs`, observer in `relay_session.rs`) | expiry, grace deadline, absolute limit, revoked | admit, renew, fail, refuse | races with revocation and with the clock |
| Binding commands (`device-client/binding_commands.rs`, `credential_store.rs`) | hand-off file, admission record, credential | claim, pause, resume, stop, device-revoke, retire-local, purge-local | separate processes without a common lock, killed between files |
| Device service (`device_service.rs`) | listening socket, peers | accept, heartbeat | reads three files that commands are changing |
| Policy store (`device-client/lib.rs`, `policy_commands.rs`) | policy file and revision, learning consent | allowlist set, learning commands | compare-and-set on disk against the Server's revision |
| Identity, registration, rotation (`registration.rs`, `identity.rs`, `credential_store.rs`) | key slots, metadata, credential, pending registration, rotation record | ensure, device-rotate, retire-local | crashes between disk and Server; late answers; two locks |
| Local permits and socket (`supervisor_control.rs`, `local_socket.rs`) | permit table, sequence | issue, use, refuse, clear, reload | expiry against use; the lease is not looked at again |
| Helper file guard (`file_guard.rs`, `protocol/allowlist.rs`) | budget, prepared downloads, incoming and temporary files | upload, prepare, commit, stop | stop against commit; other programs change the destination |
| Native channel (`native_*.js`) | pending calls, handles | call, answer, finish | synchronous and asynchronous calls on one port |
| Protocol library (`types.rs`, `framing.rs`, `crypto.rs`, `canonical_json.rs`, `artifacts.rs`, `learning.rs`) | none | pure functions | boundaries |
| Remote wrapper (`remote-wrapper`) | one request | execute, write artifacts | partial output |
| Installer, release scripts | files, launch agents | install, roll back, uninstall | not a concurrent program |

### Interactions

* The relay delivers *execute* and *cancel* frames to the session task of the
  Bridge, in any order and any number of times. An execution is a task of its
  own that holds a scheduler guard, watches the process-wide cancellation flag
  and the request's own channel, and talks to a supervisor *process* over a
  control pipe.
* Four tasks may revoke: the lease observer, the device-peer observer, the Task
  Space monitor and the main task on a signal. Revoking sets the lease revoked,
  then the flag. A lost relay connection only sets the flag; the next connection
  clears it again.
* The person's commands change the hand-off file (which binding generation the
  Bridge is to serve) and the admission record (whether it may). The Device
  service reads both (and the credential) and sends `EGB1` (open), `EGB0` (closed on purpose) or end
  of file (cannot tell) to the Bridge. On `EGB0` the Bridge revokes and leaves
  the files alone; on loss it clears the hand-off and stops the binding.
* launchd restarts a Bridge that ended with an error.
* The runtime asks the file guard of its execution, a task of the Bridge, over a
  socket. The guard serves one connection at a time, but the file work of a
  request is a closure on a blocking thread, which goes on when its connection is
  dropped. `run_process` stops the guard before it reports.
* The lease observer asks the Server for an extension every renew interval and
  revokes when the grace period after a failure is over. A Bridge that serves a
  local socket has a lease that nobody extends, and hands out permits.
* `ensure`, `device-rotate` and policy updates each make one request to the
  Server between writes of key, credential and policy files. A request outlives
  the process that sent it. The first two exclude each other by one lock, policy
  updates exclude each other by another, and nothing orders the kinds.

### What makes each component correct

* Scheduler: live guards are pairwise compatible, and nobody is refused but for
  the limit, a conflicting guard, or one whose tab key is spelled alike.
* Ledger: no sequence number is used twice, whatever crashes.
* Bridge: no script starts twice; a cancellation in time is not answered as a
  completed run; a revoked lease executes nothing; sessions do not overlap.
* Execution supervisor: nothing of the managed group survives the execution or
  the Bridge, and the execution ends.
* Binding lifecycle: closing wins over outages and deaths of commands; a pause
  stays a pause; a close reaches the Bridge.
* Identity: the device always has the private key the Server knows it by; a
  finished rotation leaves the credential of the new key; a migration that was
  interrupted can be finished.
* File guard: the limits hold over all operations; only the file a download was
  prepared for is replaced; nothing is changed or left behind after the report.
* Lease: the Bridge itself stops scripts soon after the Server stops extending
  the lease; while it is extended, requests are admitted without a gap; a permit
  does not outlive the lease it was issued under.

## 2. Modules

```
ScopeLocks   <-- Scheduler                              SchedulerProofs
GrantLog     <-- SequenceLedger                         SequenceLedgerProofs
ScriptLife   <-- RequestOrder (one request of it)       RequestOrderProofs
RequestOrder <-- BridgeSupervisor                       BridgeSupervisorProofs
ScriptLife   <-- SupervisedExecution                    GuardedExecutionProofs
SupervisedExecution <-- GuardedExecution == SupervisedExecution + FileGuard
LeasedSession <-- BridgeSupervisor                      BridgeSupervisorProofs
LeasedSession <-- BindingLease (outbound)               BindingLeaseProofs
BindingLifecycle                                        BindingLifecycleProofs
DeviceIdentity                                          DeviceIdentityProofs
```

`A <-- B` reads "B implements A", a refinement that is proved; TLC checks it too, but
for the two of RequestOrder and BindingLease's.

Every `MC*` module gives constants their values. `MCTakeover` adds a history
variable.

**ScopeLocks** says what the scheduler promises: a set of holders with scopes
(the binding, a Task Space, or a tab of one), a grant only when the newcomer is
compatible with all of them. **Scheduler** is the code: it never looks at the
holders, only at a counter, a flag and a set of lock keys. The code spells the key
of a tab `tab:{space}:{tab}`, and `valid_scope` allows `:` in both names, so the
keys of two tabs may coincide although their Task Spaces differ. `Joined` is that
text, an arbitrary function but for `JoinedAssumption`: with one of the two names
the text gives the other.

**GrantLog** promises a log that grows by larger numbers. **SequenceLedger** is
the code with its file: `disk` is what a reader sees, `durable` what survives the
loss of power; between `RenameLedger` and `SyncDirectory` they differ. Processes
compete for the instance lock, may die at any point and may be refused.

**BridgeSupervisor** is the outbound process, with its restarts. `relay` is the
position of the main task in `run_outbound` and `run_relay_session`; `exec[s]`
the position of request `s` in `run_process`; `cancelled` and `requestCancelled`
are the two channels it watches; `lease`, `revoked`, `renewal` belong to the
lease observer, `peer` to the device-peer observer. A statement that may wait is
a state of its own, a stretch of code without an await in which no other task's
read matters is one step. The two halves of `resume_after_reconnect` are two
steps because a revocation fits between them. The hand-off and the ledger
survive the process; scripts do too, until their supervisor notices. `held[s]` is
what may keep that from happening. A runtime that does not read its script
(`RuntimeStalls`) keeps its supervisor in `write_all`, where it does not see the
control pipe; the Bridge kills the supervisor after two seconds, and the runtime,
in its own group, goes on. An output pipe or a file guard (`HoldUp`) keeps
`run_process` from its end after the script is dead, with no deadline
(`join_capture`, `FileGuardHandle::stop`), until it lets go (`LetGo`).

BridgeSupervisor takes four things from other modules, each by a
theorem. The ledger is one number, `highest`: a SequenceLedger grants increasing
numbers (`Refinement`), and so does the Bridge (`RequestsInOrder`). `Admit` lets one request execute at a time: any two
requests the Bridge accepts name the one Task Space of the binding or take its
lock, and a scheduler that is offered only such scopes has at most one guard
alive, whatever its limit (`OneSpaceServesOne`). And an execution whose
supervisor was told to end is `Reaped` when the script is dead and nothing holds it
up: both the script of
a BridgeSupervisor request and SupervisedExecution with its processes implement
**ScriptLife**, so that the coarse steps of the one are justified by the fine
steps of the other. The lease has no clock there: it and BindingLease implement
**LeasedSession**.

**ScriptLife** is one script as its caller sees it: not handed over, handed over,
live, dead, next to the phase of the caller, who may be gone at any moment and
reports only when the script is dead or was never handed over. **RequestOrder** is a
sequence of them: numbers are taken in increasing order, a number becomes a script
only while it is the newest, one script at a time. **LeasedSession** is
what lease, flag and session do to each other: standing (good, low, expired) that only an extension improves, a revocation
that lasts as long as the process, work that begins in good standing, and one step
that clears the flag, when nothing is at work. A request is let in at once
(BindingLease), or vetted first and let in after its number is reserved
(BridgeSupervisor).

**SupervisedExecution** looks at one execution from the operating system: the
Bridge, the supervisor process, the leader of the runtime's process group, a
descendant in the group, and a stray that left it. `DetachedDescendants` and
`StallingRuntime` choose the world: whether a stray may exist, whether the
runtime may never read its script.

**FileGuard** has the actions of the guard (`guard` is its task, `op` the closure
on the blocking thread, `downloads` the table of prepared downloads), of the
helper in the runtime (`client`, per download), and of other programs, which may
change the destination or move its directory away. A commit is six steps, because
other programs act between them: read the incoming file, look at the destination,
write the temporary file, look again, rename, sync and check. An upload is one:
its copy is private to the execution. Each of the opens waits if it meets a pipe
whose other end nobody opens: `BlockOnUpload`, `BlockOnIncoming`, and for the
destination, before the rename or after it, `BlockOnTarget`. **GuardedExecution** composes it with
SupervisedExecution: `StopGuard` after the output was joined, `Report` when the
guard's task has ended, `CancelUnguarded` for the early return that drops the
handle without waiting.

**BindingLease** is the lease against a clock of half seconds: the Bridge compares
leases in whole seconds but permits and timers in milliseconds, and the half
second is what tells them apart. `observer` is the activation and then the lease
observer with its armed timer `due`; `answer` is when the Server extended the
lease whose answer is under way, `renewed` and `taken` when the lease that is held
was extended and when the Bridge learned of it. Timers fire when they are due:
`Tick` waits for them. `mode` chooses the outbound Bridge or the local one with
its permits. BridgeSupervisor has the same lease without a clock (good, low or
expired); that an extension near the absolute limit may leave it low is seen here and
taken over there.

**BindingLifecycle** has the two files, the credential, the Server's view of
each grant, any number of command processes, the service and a Bridge. A grant
stands for a pair of binding ID and generation, which the code only compares for
equality. Commands are interleaved file by file; each may die or fail at its
request. A file is replaced by a rename or unlinked, and read by lstat, open and
fstat (`read_owner_file`): `read` is where the service is in that, per file, and
`Replace` tears a read that has seen the old file. A torn read is `Invalid`, for
which the service hangs up (`FindOther`), and an end of file is a loss to the
Bridge. A torn read of a command or of a starting Bridge ends that process, which
`CommandDies` and a Bridge that stays `waiting` stand for. The Bridge is reduced to what it does with files and grants; what its
executions do is BridgeSupervisor's.

**DeviceIdentity** has the files of the key store (installed key, pending key,
origin metadata, credential, pending registration, rotation record, policy), the
holder of the registration lock (`command`), the holder of the policy lock
(`update`), requests on their way (`net`) and the Server. `command.at` is the next
file or request of the command; what a command has read and keeps in memory is in
its record, so that it may be stale when it is used. `CommandEnds` and
`UpdateEnds` kill or fail either at any step. A key is a generation and which of
the generated keys it is; `enrolled` and `rotated` are the answers the Server has
given and repeats.

## 3. Runs and what they show

| Run | Module, cfg | Distinct states | Checks |
|---|---|---|---|
| scheduler | MCScheduler | 7,246 | `SummariesExact`, `AdmissionExact`, refinement of ScopeLocks |
| ledger | MCSequenceLedger | 6,175 | `GrantedIsDurable`, refinement of GrantLog |
| bridge | MCBridgeSupervisor | 2,881,383 | `StartedOnce`, `RevocationWins`, `NoWorkBetweenSessions`, `LostRevocationIsHarmless`, `ScriptsInOrder` |
| bridge_progress | MCBridgeSupervisor, MCBridgeProgress.cfg | 127,444 | `ScriptsEnd`, `Collected`, refinement of LeasedSession |
| supervised | MCGuardedExecution | 152,129 | `ManagedGroupEnded`, `SupervisorOutlivesGroup`, `OrphansEnd`, `GuardedExecutionEnds`, `WithinBudget`, `NoLateReplacement`, `NoStagingLeft`, `OnlyKnownTargetReplaced`, refinement of ScriptLife |
| lease | MCBindingLease | 3,140,807 | `RunningBounded`, `HealthyAdmits`, `PermitsWithinLease` |
| lifecycle | MCBindingLifecycle | 2,030,384 | `OutageKeepsClosed`, `ClosureIsNotLoss`, `PauseIsNotUpgraded` |
| lifecycle_progress | MCBindingLifecycle, MCLifecycleProgress.cfg | 1,193,874 | `OutageKeepsClosed`, `ClosureStopsBridge` |
| identity | MCDeviceIdentity | 2,493,859 | `KeyNotLost`, `CredentialOfKey`, `MigrationCanFinish` |
| execution_capped | MCSupervisedExecution, MCExecutionCapped.cfg | violation | `ExecutionCapped` |
| takeover | MCTakeover | violation | `TakeoverNeedsResume` |
| pending_identity | MCDeviceIdentity, MCPendingIdentity.cfg | violation | `PendingCanBeReplaced` |

Each module has one type invariant besides. For every property of a passing run
`PROJECT.json` names a *slip*: a plausible mistake in the code, written as an
operator just before the definition it would replace, with which TLC finds the
property violated.

What the properties say of the code:

* `SummariesExact`, `AdmissionExact`: the counters are functions of the live
  guards; `try_acquire` grants as if it had looked at the guards themselves, and
  refuses beyond that only a tab whose key is spelled like that of a live guard
  (`SpelledAlike`). One Task Space per binding makes that case rare, and it fails
  closed.
* `GrantedIsDurable`, `ImplementsGrantLog`: why the ledger is written before the
  frame is decrypted, and why the instance lock is taken before the ledger is
  loaded. (`AtMostOnce` and `MemoryMatchesDisk` follow, by proof.)
* `ScriptsInOrder`: whatever order frames come in and wherever the Bridge is
  restarted, scripts leave in the order of their numbers. `ImplementsRequestOrder`,
  which is proved, says more: no number is reserved twice, no second script begins
  before the first is over, no answer comes before its script is dead.
* `ImplementsScriptLife`: the same for one execution over three processes.
* `ImplementsLeasedSession`: no order of the five tasks lets a request in under a
  lease that was not good when it was vetted, or clears the flag of one at work.
* `StartedOnce`: a script starts at most once, over replays and restarts.
* `RevocationWins`: `run_process` looks at its channels again after the script
  has exited; whatever was cancelled until then is not answered as completed,
  although the flag may have been cleared for the next session meanwhile.
* `NoWorkBetweenSessions`: the justification for clearing that flag at all.
* `LostRevocationIsHarmless`: the race in `resume_after_reconnect` (section 7)
  has no execution as its consequence.
* `ScriptsEnd`, `Collected`: deadlines, cancellations or the closed control pipe
  end every script whose runtime reads it; the session waits for no execution for
  ever, unless its output or its file guard is held for ever. Both exceptions are
  in the formulas, by way of `held`.
* `ManagedGroupEnded`, `SupervisorOutlivesGroup`, `OrphansEnd`, `GuardedExecutionEnds`:
  before the scheduler slot is free again the group is dead; no group outlives
  its supervisor; a dead Bridge leaves nothing running. The runtime that stalls
  before it read its script is excepted by name in the formulas: its supervisor
  is blocked on the write and is killed from outside, and the runtime, in a
  group of its own, is then nobody's (`terminate_supervised_child`). So are, for
  `GuardedExecutionEnds`, an output pipe that a stray holds and an upload or a
  commit that waits on a pipe.
* `WithinBudget`: the files and bytes a request has moved, counted when they move
  and not when the budget is charged, stay within the limits although prepared
  downloads, commits and uploads draw on them in different places. A file that a
  commit put in place and then reported as failed (sync or check after the
  rename) is not counted.
* `NoLateReplacement`, `NoStagingLeft`: why `run_file_guard` takes the mutex once
  more at its end, and `run_process` waits for it before it reports. A closure
  whose connection was dropped either runs before the clean-up or finds its token
  gone.
* `OnlyKnownTargetReplaced`: whatever other programs do between preparation and
  rename, a commit replaces only the file `validate_output` saw, in the directory
  it saw; the gap between the last look and the rename is excepted (`raced`).
* `RunningBounded`: with answers late by as much as their timeouts, failures,
  retries in the grace period and reconnects, a script runs at most `RunLimit`
  after the Server last extended the lease; it is why the first failure sets the
  grace deadline and later ones keep it.
* `HealthyAdmits`: interval, request timeout and admission minimum fit into the
  lease, so that a Bridge whose renewals succeed never refuses for want of one.
* `PermitsWithinLease`: `execute` looks at `revoked` only; the permit's own
  lifetime, no longer than the admission minimum, is what ends it in time.
* `OutageKeepsClosed`: after a command closed admission, only a command that
  grants opens it.
* `ClosureIsNotLoss`, `PauseIsNotUpgraded`: between whatever files of whatever
  command the heartbeat is composed, an intentional close is not taken for a loss,
  and a pause stays one. A read whose own file is replaced under it is excepted by
  name (`torn`); section 7 says what it does.
* `ClosureStopsBridge`: closed files stop the Bridge, through `EGB0` or the end of
  file.
* `KeyNotLost`: whenever the Server knows the device by a key that is not
  installed, the pending key file holds it and the rotation record names the
  operation the Server has answered, and will answer again. This is why `device-rotate` writes
  both before the request and removes them last, in this order.
* `CredentialOfKey`: the rotation record is removed only when the credential of
  the new key is in place. A credential that a slow policy update saved over a
  newer one is exempt by name (`newest`): such an update takes no registration
  lock.
* `MigrationCanFinish`: when `ensure` dies between saving the credential of a
  migrated policy and committing that policy, the pending registration leads the
  rerun to the same answer. A rerun so late that the repeated answer has expired
  (`registration.rs:869-884`) needs `--re-enroll`; the model has no expiry.

## 4. Bounds

* scheduler: five requests, four Task Spaces, two tabs, limit 3: a request can be
  refused by a space lock, through another tab of its space, by the binding lock,
  and by the limit alone while its own space is free. The key of one tab of the
  first space is spelled like that of a tab of another.
* ledger: `MaxSequence = 6`, three processes. Two suffice for a race for the
  lock; the third races a restart.
* bridge: `MaxSequence = 2`, `MaxGeneration = 1`, `MaxParallel = 1`. One request
  runs while the other is refused, queued, replayed or executed after a restart, and
  the two numbers come in either order (`ScriptsInOrder`).
  A frame of generation 0 is one of another binding. Frames and crashes are not
  bounded. bridge_progress has one request and two generations instead: its
  properties are of one request, or of the session whatever the requests. BindingLease was checked against LeasedSession on the bounds
  of the lease run, outbound only, up to 12 seconds.
* supervised: the processes are finite without bounds; both world constants are
  TRUE, which includes the smaller worlds. The guard has one token, sizes 1 and 2,
  at most 2 files and 3 bytes, and another program acts once: enough for an upload
  to use up what a prepared download needs, by number or by size, and for the
  destination or its directory to change under a commit. With two tokens (two
  downloads to one destination) TLC finds no violation of the invariants and of
  `OnlyKnownTargetReplaced` either, in 1.2 to 2.9 million states depending on the
  sizes; that instance is too slow for the liveness properties.
* lease: the constants keep the proportions of the code. Its inequalities are
  tight there (10 + 20 + 10 + 20 = 60 seconds and 20 = 20), as they are here
  (1 + 2 + 1 + 2 = 6 and 2 = 2). The absolute limit is 4, 9 or 20 seconds, so that
  it ends the first lease early, cuts a renewed one short, or is out of reach;
  time ends after 15 seconds, two renewals and a grace period. Two permits.
  The bounds that are stated are the least: TLC finds `RunLimit` less half a
  second violated, and a start before `until` itself instead of up to its second.
* lifecycle: two grants, two commands at once, of which one is a resume and the
  other a claim, pause, stop, device-revoke or allowlist update, any number one after
  another; deaths, outages, service restarts and torn reads are not bounded.
  register, retire-local and purge-local are offered in lifecycle_progress, where
  one command of every kind runs at a time; they take steps that an allowlist update
  and device-revoke take too. The proofs cover any number of commands of every kind
  at once.
* identity: `MaxKey = 3` (one enrolment and two rotations, or one whose prepared
  key is found again), `MaxOp = 3` (idempotency keys, so that an enrolment, a
  renewal or policy update, and a rotation are in flight together),
  `MaxPolicy = 2` (one policy change or migration). Kills, failures, retirements,
  upgrades and repeated requests are not bounded.

The safety results that are proved do not depend on these bounds: section 6.

`CHECK_DEADLOCK FALSE` is set where the system may stop for good: nobody runs a
command, the Bridge has no hand-off to start from, the one execution is over, a
key without metadata makes every `ensure` refuse.

## 5. Fairness

Weak fairness, and only for what the code itself drives: a tokio task that can
proceed is polled, a timer that was armed fires, a process sees the end of a pipe
or the exit of a child it waits for.

* BridgeSupervisor: reaping, seeing the flag, the synchronous continuation of
  `prepare_remote_execution`, sending or failing to send, and each step of
  `run_process`; `DeadlinePasses` because `run_process` arms the deadline,
  `StopScript` because the supervisor process watches its control pipe once its
  runtime has read the script; `Reaped` and `SettleOutcome` are enabled only when
  nothing holds the output or the file guard. Nothing is assumed of the relay, the
  Server, the user or the script: `ScriptEnds` and `Disconnect` need not happen,
  and what stalls or holds (`held`) need not end.
* SupervisedExecution: the steps of Bridge and supervisor, including the grace
  period and the kill that follows it. Not: that the runtime reads, exits or
  closes its output, nor that a stray ever does.
* GuardedExecution: the steps of `run_process`, of the supervisor, of the guard's
  task, and of a closure, of an upload or a commit, that is not waiting on a pipe,
  each by itself. Not: that
  the helper asks, gives up or writes, nor that other programs do anything.
* BindingLifecycle: the service goes on with its heartbeat, one file after the other,
  and the Bridge reads what it is sent. Not: that a person runs a command, that a
  request succeeds, that the service comes back.

## 6. Proofs

All proved for every value of the constants, from the assumptions named in the
modules (`BridgeAssumption`, `LifecycleAssumption`, `WorldAssumption`, `LimitAssumption`,
`IdentityAssumption` and those of Scheduler and SequenceLedger), which only give the
constants their types; `JoinedAssumption` of Scheduler says what a text joined with
`:` still tells apart, and `TimingAssumption` of BindingLease orders the timing
constants, and the code's satisfy it.

* **SchedulerProofs**: `TypeCorrect`, `Exclusion`, `Summaries`, `Admission`, and
  `Refinement` of ScopeLocks. The heart is `KeysMeet`: two narrow scopes share a
  lock key exactly when they name one Task Space or are tabs that are spelled alike. `DropGuard` needs mutual
  exclusion to remove keys without taking another holder's, so exclusion is part
  of the inductive invariant rather than its consequence. `OneSpaceServesOne`:
  when every scope is of one Task Space, at most one guard is alive, for every limit.
* **SequenceLedgerProofs**: `TypeCorrect`, `Durability`, `MemoryCoherent`,
  `Refinement` of GrantLog, `NoReplay`. The invariant follows the number through
  memory, file and disk with one clause per phase of the process that holds the
  lock; the log stays increasing because the last grant is at most what is
  durable and a reservation exceeds what was loaded.
* **BridgeSupervisorProofs**: `Inductive`, and from it `TypeCorrect`,
  `NoSecondStart`, `RevocationIsFinal`, `SessionsAreSeparate`,
  `RevokedLeaseIsIdle`. `IInv` adds four parts to the types.
  `WorkInSession`: between sessions nothing executes; within one, everything that
  executes will be reaped. `RequestInHand`: the ledger is ahead of every request
  ever seen, and the request being admitted has not been seen. `RequestHistory`:
  how far a request is bounds what its script, outcome and cancellation can be; a
  request that was hit keeps seeing a cancellation until it takes another
  outcome. `RevokedIdle`: a revoked lease whose flag was cleared finds nothing at
  work and lets nothing in. They lean on each other: clearing the flag keeps
  `RequestHistory` only because `WorkInSession` says nothing executes then.
  `RequestsInOrder` is the refinement of RequestOrder: `PhaseOf` says what of `exec` a
  request's order can see, and `RequestInHand` and `RequestHistory` give its guards.
  `OneExecutionAtATime`, `AnswersWaitForScripts` and `ScriptsLeaveInOrder` (the
  property `ScriptsInOrder`) are then RequestOrder's theorems, instantiated. `SessionIsLeased` is the refinement of
  LeasedSession: `WorkInSession` is why the flag is cleared of nothing, `RevokedIdle`
  why a request that was vetted before a revocation does not begin after it
  (`RevocationStopsAdmission`).
* **RequestOrderProofs**: `ServesOneAtATime`, `AnswersFollowScripts`,
  `OneScriptPerProcess`, `ScriptsInOrder`, and `EachRequestIsOneLife`: seen from one
  request, RequestOrder is ScriptLife. Their hypothesis, `Numbered`, says that sequence
  numbers are positive naturals.
* **GuardedExecutionProofs** has the theorems of SupervisedExecution first: `Inductive`,
  `TypeCorrect`, `NothingLeftBehind`, `SupervisorIsLast`, and `ExecutionIsOneLife`, the
  refinement of ScriptLife. Its invariant says that the Bridge joins the output only when
  the supervisor process has ended, and takes an exit for one only after it handed the
  script over and its group is dead (`JoinsAfterSupervisor`). For the composition, `ImplementsExecution` first: a step of GuardedSpec is a
  step of SupervisedExecution or leaves its variables alone, so `ManagedGroupEnded`
  (`GroupEndedAtReport`) and ScriptLife (`GuardedExecutionIsOneLife`) are inherited.
  `GuardedInductive`, with `BudgetKept`, `NothingReplacedLate`, `OnlyPreparedReplaced`, `StagingRemoved`: its invariant says
  that an ended guard has an empty table and no closure past its first step, what a
  closure at each step has seen of the destination unless `raced`, and that what was
  given is at most what was charged plus the closure's own file.
* **BindingLeaseProofs**: `LeaseInductive`, with `RunningIsBounded`,
  `HealthyLeaseAdmits`, `PermitsEndWithLease`. The invariant bounds, for each state
  of the observer, how long ago the lease was extended: while it sleeps or asks in
  health, by when its timer is due; in the grace period, by the grace deadline and
  one more request. It needs no upper bound on time or on the number of renewals.
  `LeaseIsLeasedSession`: `Standing` reads the lease at the present time, `Phase` the
  session and the activation, and an outbound Bridge implements LeasedSession. The
  theorem is for `mode = "outbound"`, since a local Bridge has no session.
* **BindingLifecycleProofs**: `Inductive`, `TypeCorrect`, `ClosedStaysClosed`,
  `CloseIsNotLoss`, `PauseStaysPause`. `IInv` adds: commands name grants the
  Server made (`CommandsNameGrants`); while closed on purpose no granting command
  is under way (`QuietMeansClosed`); an undisturbed Bridge is linked to a running
  service with a readable credential, and hears an end of file only of a torn read
  (`LinkIsSound`); a completed pause is the last thing that happened to the files, and
  a Bridge that dials after it was admitted before and finds them so (`PauseIsLast`).
  `CloseIsNotLoss` and `PauseStaysPause` carry the exception of their properties.

* **DeviceIdentityProofs**: `Inductive`, `TypeCorrect`, `KeySafe`; then `CredentialMatches`
  and `MigrationResumable`. `IInv` says how
  far a rotation is: while a record exists, the installed key is its old or its
  new one, the pending key is still there until the new one is installed, and the
  Server has the old key exactly until it has answered (`RotationUnderWay`);
  without a record the Server has the installed key or none
  (`NoRotationUnderWay`). That needs every rotate request on its way to be the
  recorded one or answered already (`RequestsRecorded`), operation keys to be
  fresh (`HandedOut`, `PendingOps`), and what a process at each step has done
  (`EnsureSteps`, `RotateSteps`, `UpdateSteps`). `RotationOver` is the crux: a
  record without its pending key means that the Server has the installed key, so
  removing the record is safe for `RotateFinish` and `RotateClear` alike.

  `OrderInductive` strengthens it to `RInv` for `CredentialMatches`: from a revision
  on (`Since`), every answer is for the key the Server has now. While a recorded
  rotation is answered that revision is its answer's, otherwise it is the newest one
  saved; a record can therefore go only when a credential as new as its answer has
  been saved (`RotationSaved`), which is the order of `commit_identity_rotation`.
  `PolicyInductive` strengthens it to `MInv` for `MigrationResumable`: a credential
  of a policy that is not committed exists only behind the policy lock or after a
  death (`MigrationLocked`, `Migrating`), every request for its pending registration
  is then for the same policy, rotations and updates use committed policies only
  (`RotationsOfPolicy`, `UpdateOfPolicy`), and `ensure` clears the pending
  registration last (`EnsureHolds`).

Every invariant, action property and refinement that the runs check is proved. Only
model-checked: the liveness properties (fairness is outside the prover's reach), and
the three violations, which are single behaviours.

## 7. Divergences

* **execution_capped.** `join_capture` (`process_control.rs:59-74`) waits for the
  output pipes without a deadline. A descendant outside the process group that
  keeps one open holds the execution past the 120 seconds of
  `docs/architecture.md:108-109`. `GuardedExecutionEnds` is the version that holds. A
  pipe where the file guard opens a file (the file of an upload, the incoming file or
  the destination of a commit) has the same effect: the closure waits in
  `open_at_raw` (`allowlist_fs.rs:101`) with the guard's mutex, the guard cannot
  end, and `run_process` waits for it (`supervisor_execution.rs:489`).
* **takeover.** After a takeover the hand-off and the admission record stay. If
  the pause request is lost, the Bridge that launchd starts again is admitted and
  renews the grant, without the resume that `docs/security.md:119-123` requires.
* **pending_identity.** `ensure` requires a pending registration to name the
  installed key (`registration.rs:153, 399-415`) before it looks at `--re-enroll`,
  and `device-rotate` leaves that record alone. After a failed `ensure` and a
  successful rotation every later `ensure` ends in `Malformed`, also with
  `--re-enroll`, of which `docs/operations.md:90-91` says that it replaces a
  failed pending `ensure`.

Observations that no run stands for, each a behaviour of a model:

* A command that replaces a file the service is reading makes the heartbeat an end
  of file: `read_owner_file` (`device-client/lib.rs:780-813`) finds another inode, or
  a link count of 0, than at its lstat, which `local_peer_admission`
  (`device_service.rs:147, 152, 157`) answers as `Invalid`. The Bridge then clears the
  hand-off and stops the binding. So a pause, whose three writes of the two files
  each have that window once per heartbeat, may end as a stop, although
  `docs/architecture.md:163-164` says "local `pause` cannot be silently upgraded to a
  terminal remote `stop`". Without `~torn`, TLC finds `PauseIsNotUpgraded` violated,
  and without `torn`, `ClosureIsNotLoss`. A renewal of the credential has the same
  window, with no command at all.
* The scheduler refuses the tab `c` of the Task Space `a:b` while a guard holds the tab
  `b:c` of `a` (`scheduler.rs:135-146`), although nothing conflicts. It fails closed,
  and one binding has one Task Space.

* `resume_after_reconnect` releases the lease's mutex before it clears the flag
  (`supervisor_control.rs:107-108`), so a revocation in between is overwritten,
  although the comment in `outbound.rs:342-343` says that only a healthy lease may
  clear the cancellation. `LostRevocationIsHarmless`, checked and proved, says what
  is left of it: an idle session that refuses every request and ends with the
  first.
* With the constants of the code `RunLimit` is 15 + 20 + 10 + 10 + 1 + 10 = 66
  seconds: after an activation whose answer was late by its whole timeout, a script
  may run 6 seconds past the 60 of its lease before the grace period stops it. After
  a renewal, whose timeout is 10 seconds, it is 61. Likewise a script runs past the
  absolute limit until the next renewal is refused or fails.
* A local Bridge refuses permits 40 seconds after it started, as its lease is never
  renewed, and nothing stops a script it has started but its own deadline. A permit
  may start a script within the second in which the lease ends: permits count
  milliseconds, leases seconds.
* A helper that gives up after five seconds is told that its download failed while
  the commit goes on and replaces the destination (`helper_adapter.js:13`).
* A browser that writes a download after the guard has ended leaves an incoming file
  that nobody removes. An upload that fails after its directory was made leaves that
  directory, and every later upload of the request fails on it
  (`file_guard.rs:246-247`). A commit that names another path than its token's loses
  the token and leaves its incoming file; the adapter never sends one.

## 8. Abstractions and limits

* Frames are a sequence number and a generation; sealing, signatures and request
  bodies are "opens" or "does not". A request refused for its body or by the
  scheduler is `AnswerOnly`.
* `Revoke` is one step although the code sets the lease, clears permits and sets
  the flag one after another. A reader that sees the lease and not yet the flag
  refuses; one that sees neither behaves as before the revocation; one that was
  admitted before is stopped by the flag at its next look. So each interleaving
  within is one of `Revoke` as a whole, earlier or later.
* Time is nondeterministic in every module but BindingLease: a deadline may pass at
  any moment after it is armed, the lease is good, low or expired.
* In BindingLease the Server's clock is the Bridge's, clocks do not jump, the Mac
  does not sleep, and what is due happens before time goes on. Interval and grace
  period, which the Server may set with each answer, are the defaults. One script at
  a time; a relay connection takes no time; the end of `run_outbound` ends the
  observer at once, where the code waits for its request first (no session is left
  then). Ending a script takes no time either: the 2 seconds that
  `terminate_supervised_child` waits and the 100 ms of `terminate_child`
  (`process_control.rs:82, 110`) come on top of `RunLimit`. A permit that is issued while `reload` sets the flag is refused when it is
  used, so the check and the issue are one step.
* In FileGuard a file is its identity; an inode that is used again is not modelled,
  nor hard links, nor a write into an existing file. All downloads go to one
  destination. `unlink` succeeds. What browser and other programs do after the end
  of the guard is not followed.
* The peer-loss path before activation (`outbound.rs:130-146`) is part of
  BindingLifecycle; BridgeSupervisor starts with the peer connected.
* Peer loss clears the hand-off and requests the stop without waiting for
  executions to end, as the code does; no property claims an order there.
* BindingLifecycle takes an allowlist update to hold the policy lock; the revision
  that lock protects is DeviceIdentity's. DeviceIdentity in turn leaves out the
  active-binding hand-off, which rotation and policy updates also remove and whose
  presence may make `device-rotate` refuse: any command may refuse at any step.
* In DeviceIdentity, profiles, certificates, proofs of possession and the device
  ID are taken to agree, and the Server answers each idempotency key once and
  repeats the answer. `initial` and `re_enroll` are one enrollment mode, since the
  code only asks for `ensure`. Key and metadata that a rotation installs are one
  step: the metadata is there already and stays as it is. A downgrade of the
  release and `purge-local` of the identity are left out.
* Known of the model and not stated as properties: a rotation killed between key
  and credential, followed by `ensure --force-refresh`, has a credential newer than
  the rotation's answer, and `device-rotate` then ends in `RotationConflict`
  (`registration.rs:543`); `retire-local` during an accepted rotation removes the
  credential without which `device-rotate` does not begin, while the Server no
  longer takes the old key from `ensure`.
* Of the local RPC listener only permits and reload are modelled, in BindingLease;
  who may connect to it is not, nor is the directly started runtime of the
  logic-test profile.
* Server, Node, launchd, file system and runtime are environment, marked external
  in the map. The Server may lose a request, or answer and have the answer lost.

Not modelled, and why: the protocol library's encodings and cryptography (pure,
and covered by vectors); learning bundles and artifacts (one pass over one
archive, no state outlives a call); path canonicalisation and the comparison of a
response with the configuration (pure; the models take "allowed" and "usable" from
them); HTTP; the remote wrapper, installer and scripts (no shared state). The native
channel, learning consent and the revision a binding confirms are left in the plan.

## 9. Plan

Done, in this order: scheduler, ledger, Bridge, execution supervisor, lifecycle,
identity, file guard and its composition with the execution, lease and permits,
each with its proofs.

Next, by what can still go wrong:

1. Learning consent and the revision a binding confirms
   (`policy_commands.rs:26-151`, `credential_store.rs:182-332`), to prove that a
   committed policy is the one that was confirmed.
2. The native channel (`native_worker.js`, `native_coordinator.js`): answers taken
   out of order by a synchronous call.
3. Pure functions (path rules of the allowlist, framing limits) against a reference
   over bounded inputs.

Theorems left for the present modules: that BindingLifecycle's Bridge and
BridgeSupervisor implement one life of the process between hand-off and end; that a
local Bridge's permits implement a promise of one use, within the lease, each.
