-------------------------- MODULE BridgeSupervisor --------------------------
(***************************************************************************)
(* The outbound Bridge process (crates/local-bridge: outbound.rs,           *)
(* relay_session.rs, supervisor_*.rs, device_peer.rs,                       *)
(* task_space_monitor.rs), its restarts, and the scripts it runs.           *)
(*                                                                          *)
(* Five tasks share one BridgeSupervisor: the relay loop of the main task,  *)
(* the executions it spawned, the lease observer, the device-peer observer  *)
(* and the Task Space monitor.  What they share is a lease, a cancellation  *)
(* flag (a watch channel), the replay ledger, the scheduler and the table   *)
(* of requests that can be cancelled one by one.                            *)
(*                                                                          *)
(* A request is named by its sequence number.  The ledger is the grant log  *)
(* that SequenceLedger implements, here its last value.  Every request the  *)
(* Bridge accepts takes the binding lock or names the dedicated Task Space  *)
(* of the binding, so any two of them are incompatible (ScopeLocks) and the *)
(* scheduler serves one at a time.                                          *)
(***************************************************************************)
EXTENDS Naturals, FiniteSets

CONSTANTS MaxSequence,      \* bound: sequence numbers the broker may use
          MaxGeneration,    \* bound: binding generations ever claimed
          MaxParallel       \* BridgeConfig.max_parallel_requests

ASSUME BridgeAssumption ==
    /\ MaxSequence \in Nat
    /\ MaxGeneration \in Nat
    /\ MaxParallel \in 1..4

Sequence == 1..MaxSequence

\* What a frame may say of its generation; 0 stands for one of another binding.
FrameGeneration == 0..MaxGeneration

VARIABLES
    handoff,            \* generation in the owner-only active-binding file, 0 if none
    claimed,            \* the last generation a claim or resume produced
    generation,         \* LeaseState.generation of the running process
    relay,              \* where the main task is
    current,            \* the request the relay session is working on, or 0
    highest,            \* highest_remote_sequence, on disk as in memory
    cancelled,          \* the value of cancel_tx
    revoked,            \* LeaseState.revoked
    lease,              \* what LeaseState says of its time and health: good, low, expired
    renewal,            \* the lease observer task
    peer,               \* the device-peer observer task
    exec,               \* where each request is
    status,             \* what is answered: refused before it ran, stopped by a
                        \* cancellation, failed (deadline, output, process), completed
    pending,            \* JoinHandles of the relay session
    registered,         \* active_remote_requests
    requestCancelled,   \* requests whose own cancel_tx is true
    script,             \* the runtime process group of each request
    held,               \* what keeps an execution from ending: "no", "runtime" (it does
                        \* not read its script, so that its supervisor is blocked on
                        \* the write), "output" (a process outside the group holds an
                        \* output pipe, or the file guard is blocked on a pipe)
    starts,             \* history: how often each request's script was started
    hit                 \* history: requests cancelled before their outcome was settled

relayVars == <<relay, current, pending>>
leaseVars == <<generation, revoked, lease>>
taskVars == <<renewal, peer>>
execVars == <<exec, status, script, starts>>
requestVars == <<registered, requestCancelled>>
fileVars == <<handoff, claimed, highest>>
outsideVars == <<handoff, claimed, highest, held>>
cancelVars == <<cancelled, hit>>

vars == <<relayVars, leaseVars, taskVars, execVars, requestVars, outsideVars, cancelVars>>

-----------------------------------------------------------------------------
(* Vocabulary.                                                               *)

\* Phases of run_process, during which the request holds its PermitGuard.
Executing == {"admitted", "preparing", "spawned", "writing", "running", "exited",
              "collecting", "terminating"}

Guarded == {s \in Sequence : exec[s] \in Executing}

\* run_process has not looked at the cancellation channels for the last time.
Unsettled == {s \in Guarded : exec[s] # "collecting"}

\* States of the main task in which run_outbound polls its relay loop.
RelayLoop == {"dialing", "session", "reserving", "admitting", "sending", "reaping",
              "leaving", "redialing", "resuming"}

\* Those in which the relay future waits, so that select! may drop it.
Interruptible == RelayLoop \ {"reserving", "admitting", "resuming"}

Up == RelayLoop \cup {"activating", "pausing", "stopping"}

\* LeaseState::admit gives Allowed; Allowed or RenewalRequired.
AdmissionAllowed == ~revoked /\ lease = "good"
AdmissionMayReturn == ~revoked /\ lease # "expired"

\* One of the two channels run_process watches says that it must stop.
Cancelled(s) == cancelled \/ s \in requestCancelled

\* cancel_tx.send_replace(true).
Cancel ==
    /\ cancelled' = TRUE
    /\ hit' = hit \cup Unsettled

\* BridgeSupervisor::revoke: the lease, the permits, the flag.  The flag follows
\* the lease in a few statements; whoever reads the one and not yet the other
\* refuses, or is stopped by the flag at its next look, as if it had come later.
Revoke ==
    /\ revoked' = TRUE
    /\ Cancel

\* The relay future is dropped with its JoinHandles: executions that still run
\* are detached, not awaited, and finished ones are never answered.
DropRelay ==
    /\ current' = 0
    /\ pending' = {}
    /\ exec' = [s \in Sequence |-> IF exec[s] = "finished" THEN "lost" ELSE exec[s]]

-----------------------------------------------------------------------------
Init ==
    /\ handoff = 0
    /\ claimed = 0
    /\ generation = 0
    /\ relay = "down"
    /\ current = 0
    /\ highest = 0
    /\ cancelled = FALSE
    /\ revoked = FALSE
    /\ lease = "good"
    /\ renewal = "off"
    /\ peer = "off"
    /\ exec = [s \in Sequence |-> "none"]
    /\ status = [s \in Sequence |-> "none"]
    /\ pending = {}
    /\ registered = {}
    /\ requestCancelled = {}
    /\ script = [s \in Sequence |-> "none"]
    /\ held = [s \in Sequence |-> "no"]
    /\ starts = [s \in Sequence |-> 0]
    /\ hit = {}

-----------------------------------------------------------------------------
(* Process lifetime.                                                         *)

\* The Device Client saves the hand-off of a new generation (claim, resume).
ClaimGeneration ==
    /\ claimed < MaxGeneration
    /\ claimed' = claimed + 1
    /\ handoff' = claimed + 1
    /\ UNCHANGED <<relayVars, leaseVars, taskVars, execVars, requestVars, cancelVars, highest,
                   held>>

\* run_outbound up to the device-peer connection: read the hand-off, take the
\* instance lock, load the ledger, start with a fresh lease and a clear flag.
StartBridge ==
    /\ relay = "down"
    /\ handoff # 0
    /\ generation' = handoff
    /\ relay' = "activating"
    /\ cancelled' = FALSE
    /\ revoked' = FALSE
    /\ lease' = "good"
    /\ peer' = "watching"
    /\ UNCHANGED <<current, pending, renewal, execVars, requestVars, outsideVars, hit>>

\* The Server confirms the activation or renews it: update_lease, then the
\* monitor and the lease observer are spawned.
Activate ==
    /\ relay = "activating"
    /\ lease' \in {"good", "low"}
    /\ renewal' = "on"
    /\ relay' = "dialing"
    /\ UNCHANGED <<current, pending, generation, revoked, peer, execVars, requestVars,
                   outsideVars, cancelVars>>

\* The Server refuses the activation, or a shutdown signal arrives first.
ActivationFails ==
    /\ relay = "activating"
    /\ relay' = "stopping"
    /\ Cancel
    /\ UNCHANGED <<current, pending, leaseVars, taskVars, execVars, requestVars, outsideVars>>

\* The process is gone: what it held in memory is lost, requests without an
\* answer stay without one, the control pipes of its scripts are closed, and
\* nobody waits for their output.
ProcessGone ==
    /\ relay' = "down"
    /\ current' = 0
    /\ pending' = {}
    /\ registered' = {}
    /\ requestCancelled' = {}
    /\ cancelled' = FALSE
    /\ revoked' = FALSE
    /\ lease' = "good"
    /\ generation' = 0
    /\ renewal' = "off"
    /\ peer' = "off"
    /\ exec' = [s \in Sequence |->
                   IF exec[s] \in Executing \cup {"finished"} THEN "lost" ELSE exec[s]]
    /\ held' = [s \in Sequence |-> IF held[s] = "output" THEN "no" ELSE held[s]]
    /\ UNCHANGED <<status, script, starts, fileVars, hit>>

\* A crash at any point.
Crash == relay \in Up /\ ProcessGone

\* The teardown at the end of run_outbound: the observers are stopped or
\* aborted (which cannot fall between the revocation and the deletion of the
\* hand-off, one stretch of code without an await), then the process exits.
ExitProcess == relay = "stopping" /\ peer # "clearing" /\ ProcessGone

\* A shutdown signal reaches run_outbound.
Shutdown ==
    /\ relay \in Interruptible
    /\ relay' = "stopping"
    /\ DropRelay
    /\ Cancel
    /\ UNCHANGED <<leaseVars, taskVars, status, script, starts, requestVars, outsideVars>>

-----------------------------------------------------------------------------
(* Relay loop of the main task.                                              *)

\* The first connection: the flag has not been touched since the start.
Connect ==
    /\ relay = "dialing"
    /\ relay' = "session"
    /\ UNCHANGED <<current, pending, leaseVars, taskVars, execVars, requestVars, outsideVars,
                   cancelVars>>

\* Policy drift, a refused ticket or a malformed one ends the loop.
ConnectFails ==
    /\ relay \in {"dialing", "redialing"}
    /\ relay' = "stopping"
    /\ UNCHANGED <<current, pending, leaseVars, taskVars, execVars, requestVars, outsideVars,
                   cancelVars>>

\* resume_after_reconnect, first half: the lease is looked at under its mutex.
ResumeCheck ==
    /\ relay = "redialing"
    /\ relay' = IF AdmissionMayReturn THEN "resuming" ELSE "stopping"
    /\ UNCHANGED <<current, pending, leaseVars, taskVars, execVars, requestVars, outsideVars,
                   cancelVars>>

\* ... second half: the mutex is released and the flag cleared.
ResumeClear ==
    /\ relay = "resuming"
    /\ cancelled' = FALSE
    /\ relay' = "session"
    /\ UNCHANGED <<current, pending, leaseVars, taskVars, execVars, requestVars, outsideVars, hit>>

\* The session sees the flag: it stops reading and reaps.
SessionSeesCancel ==
    /\ relay = "session"
    /\ cancelled
    /\ relay' = "reaping"
    /\ Cancel
    /\ UNCHANGED <<current, pending, leaseVars, taskVars, execVars, requestVars, outsideVars>>

\* The socket is closed or lost: cancel_and_reap, then a new connection.
Disconnect ==
    /\ relay = "session"
    /\ relay' = "reaping"
    /\ Cancel
    /\ UNCHANGED <<current, pending, leaseVars, taskVars, execVars, requestVars, outsideVars>>

\* A frame the session does not accept: cancel_and_reap, then the process ends.
BadFrame ==
    /\ relay = "session"
    /\ relay' = "leaving"
    /\ Cancel
    /\ UNCHANGED <<current, pending, leaseVars, taskVars, execVars, requestVars, outsideVars>>

\* Slip: the session is left without waiting for its tasks.
ReapWithoutWaiting ==
    /\ relay \in {"reaping", "leaving"}
    /\ relay' = IF relay = "reaping" THEN "redialing" ELSE "stopping"
    /\ pending' = {}
    /\ registered' = {}
    /\ requestCancelled' = {}
    /\ exec' = [s \in Sequence |-> IF exec[s] = "finished" THEN "lost" ELSE exec[s]]
    /\ UNCHANGED <<current, leaseVars, taskVars, status, script, starts, outsideVars, cancelVars>>

\* cancel_and_reap: every task of the session has ended before the table of
\* cancellable requests is cleared and the session is left.
Reap ==
    /\ relay \in {"reaping", "leaving"}
    /\ \A s \in pending : exec[s] = "finished"
    /\ relay' = IF relay = "reaping" THEN "redialing" ELSE "stopping"
    /\ pending' = {}
    /\ registered' = {}
    /\ requestCancelled' = {}
    /\ exec' = [s \in Sequence |-> IF exec[s] = "finished" THEN "lost" ELSE exec[s]]
    /\ UNCHANGED <<current, leaseVars, taskVars, status, script, starts, outsideVars, cancelVars>>

-----------------------------------------------------------------------------
(* prepare_remote_execution, in the order it checks and commits.             *)

\* Slip: the lease is not looked at, the flag being thought enough.
ReceiveExecuteOnFlag(s, g) ==
    /\ relay = "session"
    /\ ~cancelled
    /\ Cardinality(pending) <= MaxParallel
    /\ g = generation
    /\ relay' = "reserving"
    /\ current' = s
    /\ UNCHANGED <<pending, leaseVars, taskVars, execVars, requestVars, outsideVars, cancelVars>>

\* The window, the flag, the generation and the lease, for the frame of request
\* s sealed for generation g.  The relay delivers any frame at any time.
ReceiveExecute(s, g) ==
    /\ relay = "session"
    /\ ~cancelled
    /\ Cardinality(pending) <= MaxParallel
    /\ g = generation
    /\ AdmissionAllowed
    /\ relay' = "reserving"
    /\ current' = s
    /\ UNCHANGED <<pending, leaseVars, taskVars, execVars, requestVars, outsideVars, cancelVars>>

\* One of those checks fails; the error ends the session and the process.
RefuseExecute(g) ==
    /\ relay = "session"
    /\ \/ cancelled
       \/ Cardinality(pending) > MaxParallel
       \/ g # generation
       \/ ~AdmissionAllowed
    /\ relay' = "leaving"
    /\ Cancel
    /\ UNCHANGED <<current, pending, leaseVars, taskVars, execVars, requestVars, outsideVars>>

\* Slip: only the number before is refused, not the older ones.
ReserveSequenceOther ==
    /\ relay = "reserving"
    /\ current # highest
    /\ highest' = current
    /\ relay' = "admitting"
    /\ UNCHANGED <<current, pending, leaseVars, taskVars, execVars, requestVars, handoff, claimed,
                   held, cancelVars>>

\* Slip: the last sequence number passes again.
ReserveSequenceAgain ==
    /\ relay = "reserving"
    /\ current >= highest
    /\ highest' = current
    /\ relay' = "admitting"
    /\ UNCHANGED <<current, pending, leaseVars, taskVars, execVars, requestVars, handoff, claimed,
                   held, cancelVars>>

\* Slip: the next expected number is stored instead of the last used one.
ReserveSequencePlusOne ==
    /\ relay = "reserving"
    /\ current >= highest
    /\ highest' = current + 1
    /\ relay' = "admitting"
    /\ UNCHANGED <<current, pending, leaseVars, taskVars, execVars, requestVars, handoff, claimed,
                   held, cancelVars>>

\* reserve_remote_sequence: the ledger moves before anything is decrypted.
ReserveSequence ==
    /\ relay = "reserving"
    /\ current > highest
    /\ highest' = current
    /\ relay' = "admitting"
    /\ UNCHANGED <<current, pending, leaseVars, taskVars, execVars, requestVars, handoff, claimed,
                   held, cancelVars>>

\* A replayed sequence, or a ledger that cannot be written: session and process end.
ReserveFails ==
    /\ relay = "reserving"
    /\ relay' = "leaving"
    /\ current' = 0
    /\ Cancel
    /\ UNCHANGED <<pending, leaseVars, taskVars, execVars, requestVars, outsideVars>>

\* The payload does not open: session and process end, the sequence stays used.
DecryptFails ==
    /\ relay = "admitting"
    /\ relay' = "leaving"
    /\ current' = 0
    /\ Cancel
    /\ UNCHANGED <<pending, leaseVars, taskVars, execVars, requestVars, outsideVars>>

\* The request is answered without running: its body is not acceptable, or
\* another request holds the scheduler (ProtocolError, ConcurrencyConflict).
AnswerOnly ==
    /\ relay = "admitting"
    /\ exec' = [exec EXCEPT ![current] = "finished"]
    /\ status' = [status EXCEPT ![current] = "refused"]
    /\ pending' = pending \cup {current}
    /\ relay' = "session"
    /\ current' = 0
    /\ UNCHANGED <<leaseVars, taskVars, script, starts, requestVars, outsideVars, cancelVars>>

\* try_acquire gives the guard, the flag is looked at again, the request is
\* registered for cancellation and its task is spawned.
Admit ==
    /\ relay = "admitting"
    /\ Guarded = {}
    /\ IF cancelled
       THEN /\ exec' = [exec EXCEPT ![current] = "finished"]
            /\ status' = [status EXCEPT ![current] = "stopped"]
            /\ UNCHANGED registered
       ELSE /\ exec' = [exec EXCEPT ![current] = "admitted"]
            /\ registered' = registered \cup {current}
            /\ UNCHANGED status
    /\ pending' = pending \cup {current}
    /\ relay' = "session"
    /\ current' = 0
    /\ UNCHANGED <<leaseVars, taskVars, script, starts, requestCancelled, outsideVars, cancelVars>>

-----------------------------------------------------------------------------
(* Cancellation of one request, and answers.                                 *)

\* cancel_remote_request.  A request that is not registered any more is left
\* alone; a frame of another generation, or a revoked lease, ends the session.
DeliverCancel(s, g) ==
    /\ relay = "session"
    /\ g = generation
    /\ ~revoked
    /\ s \in registered
    /\ requestCancelled' = requestCancelled \cup {s}
    /\ hit' = hit \cup ({s} \cap Unsettled)
    /\ UNCHANGED <<relayVars, leaseVars, taskVars, execVars, registered, outsideVars, cancelled>>

RefuseCancel(g) ==
    /\ relay = "session"
    /\ g # generation \/ revoked
    /\ relay' = "leaving"
    /\ Cancel
    /\ UNCHANGED <<current, pending, leaseVars, taskVars, execVars, requestVars, outsideVars>>

\* A task of the session has ended.  Its result is dropped if the flag is set.
TakeResult(s) ==
    /\ relay = "session"
    /\ s \in pending
    /\ exec[s] = "finished"
    /\ pending' = pending \ {s}
    /\ IF cancelled
       THEN /\ relay' = "reaping"
            /\ exec' = [exec EXCEPT ![s] = "lost"]
            /\ UNCHANGED current
            /\ Cancel
       ELSE /\ relay' = "sending"
            /\ current' = s
            /\ UNCHANGED <<exec, cancelVars>>
    /\ UNCHANGED <<leaseVars, taskVars, status, script, starts, requestVars, outsideVars>>

\* The response is written, then finish_remote_request forgets the request.
SendResult ==
    /\ relay = "sending"
    /\ exec' = [exec EXCEPT ![current] = "sent"]
    /\ registered' = registered \ {current}
    /\ requestCancelled' = requestCancelled \ {current}
    /\ relay' = "session"
    /\ current' = 0
    /\ UNCHANGED <<pending, leaseVars, taskVars, status, script, starts, outsideVars, cancelVars>>

SendFails ==
    /\ relay = "sending"
    /\ exec' = [exec EXCEPT ![current] = "lost"]
    /\ relay' = "leaving"
    /\ current' = 0
    /\ Cancel
    /\ UNCHANGED <<pending, leaseVars, taskVars, status, script, starts, requestVars, outsideVars>>

-----------------------------------------------------------------------------
(* run_process, and the execution supervisor it starts.                      *)

\* The response is sealed and the PermitGuard dropped; a detached task has
\* nobody to hand the response to.
Conclude(s, result) ==
    /\ exec' = [exec EXCEPT ![s] = IF s \in pending THEN "finished" ELSE "lost"]
    /\ status' = [status EXCEPT ![s] = result]

Proceed(s, phase) ==
    /\ exec' = [exec EXCEPT ![s] = phase]
    /\ UNCHANGED status

\* terminate_execution: the control pipe is closed with the outcome decided.
Terminate(s, result) ==
    /\ exec' = [exec EXCEPT ![s] = "terminating"]
    /\ status' = [status EXCEPT ![s] = result]

processUnchanged == <<relayVars, leaseVars, taskVars, requestVars, outsideVars, cancelVars>>

\* Cancelled before the task was first polled.
Begin(s) ==
    /\ exec[s] = "admitted"
    /\ IF Cancelled(s) THEN Conclude(s, "stopped")
       ELSE Proceed(s, "preparing")
    /\ UNCHANGED <<processUnchanged, script, starts>>

\* The request directory, the file guard or the supervisor cannot be made.
PrepareFails(s) ==
    /\ exec[s] = "preparing"
    /\ Conclude(s, "failed")
    /\ UNCHANGED <<processUnchanged, script, starts>>

Spawn(s) ==
    /\ exec[s] = "preparing"
    /\ Proceed(s, "spawned")
    /\ UNCHANGED <<processUnchanged, script, starts>>

\* The channels are looked at once more before the script leaves the Bridge.
CheckSpawned(s) ==
    /\ exec[s] = "spawned"
    /\ IF Cancelled(s) THEN Terminate(s, "stopped")
       ELSE Proceed(s, "writing")
    /\ UNCHANGED <<processUnchanged, script, starts>>

WriteScript(s) ==
    /\ exec[s] = "writing"
    /\ Proceed(s, "running")
    /\ script' = [script EXCEPT ![s] = "sent"]
    /\ UNCHANGED <<processUnchanged, starts>>

WriteFails(s) ==
    /\ exec[s] = "writing"
    /\ Terminate(s, "failed")
    /\ UNCHANGED <<processUnchanged, script, starts>>

\* The supervisor process has read the script and starts the runtime, whether
\* or not the Bridge is still there.
StartScript(s) ==
    /\ script[s] = "sent"
    /\ script' = [script EXCEPT ![s] = "live"]
    /\ starts' = [starts EXCEPT ![s] = @ + 1]
    /\ UNCHANGED <<processUnchanged, exec, status>>

\* The runtime ends, or could not be started.
ScriptEnds(s) ==
    /\ script[s] \in {"sent", "live"}
    /\ script' = [script EXCEPT ![s] = "dead"]
    /\ held' = [held EXCEPT ![s] = IF @ = "runtime" THEN "no" ELSE @]
    /\ UNCHANGED <<relayVars, leaseVars, taskVars, requestVars, fileVars, cancelVars, exec,
                   status, starts>>

\* The runtime does not read its script: run_execution_supervisor stays in write_all
\* and does not get to watch its control pipe.  When the Bridge kills it after two
\* seconds, the runtime, in a group of its own, lives on.
RuntimeStalls(s) ==
    /\ script[s] = "live"
    /\ held[s] = "no"
    /\ held' = [held EXCEPT ![s] = "runtime"]
    /\ UNCHANGED <<relayVars, leaseVars, taskVars, execVars, requestVars, fileVars, cancelVars>>

\* join_capture or FileGuard::stop cannot return: a descendant left the group with
\* an output pipe, or a request of the helper waits for the other end of a pipe.
HoldUp(s) ==
    /\ exec[s] \in {"running", "terminating", "exited"}
    /\ script[s] \in {"live", "dead"}
    /\ held[s] = "no"
    /\ held' = [held EXCEPT ![s] = "output"]
    /\ UNCHANGED <<relayVars, leaseVars, taskVars, execVars, requestVars, fileVars, cancelVars>>

\* The descendant ends, or the other end of the pipe is opened.
LetGo(s) ==
    /\ held[s] = "output"
    /\ held' = [held EXCEPT ![s] = "no"]
    /\ UNCHANGED <<relayVars, leaseVars, taskVars, execVars, requestVars, fileVars, cancelVars>>

\* Slip: the control pipe is watched only for an orderly termination.
StopScriptOfPeer(s) ==
    /\ exec[s] = "terminating"
    /\ held[s] # "runtime"
    /\ ScriptEnds(s)

\* The supervisor process, unless it is blocked on its runtime, sees its control
\* pipe closed and ends the runtime.
StopScript(s) ==
    /\ exec[s] \in {"terminating", "lost"}
    /\ held[s] # "runtime"
    /\ ScriptEnds(s)

ObserveExit(s) ==
    /\ exec[s] = "running"
    /\ script[s] = "dead"
    /\ Proceed(s, "exited")
    /\ UNCHANGED <<processUnchanged, script, starts>>

\* The wait loop is woken by one of the two cancellation channels ...
ObserveCancel(s) ==
    /\ exec[s] = "running"
    /\ Cancelled(s)
    /\ Terminate(s, "stopped")
    /\ UNCHANGED <<processUnchanged, script, starts>>

\* Slip: the deadline is not armed while the runtime is up.
DeadlinePassesBeforeStart(s) ==
    /\ exec[s] = "running"
    /\ script[s] # "live"
    /\ Terminate(s, "failed")
    /\ UNCHANGED <<processUnchanged, script, starts>>

\* ... by the deadline ...
DeadlinePasses(s) ==
    /\ exec[s] = "running"
    /\ Terminate(s, "failed")
    /\ UNCHANGED <<processUnchanged, script, starts>>

\* ... or by a reader whose stream failed or overflowed.
OutputFails(s) ==
    /\ exec[s] = "running"
    /\ Terminate(s, "failed")
    /\ UNCHANGED <<processUnchanged, script, starts>>

\* The supervisor process is reaped, the output joined and the file guard stopped.
\* A stalled runtime holds the output pipes, so it does not count as reaped.
Reaped(s) ==
    /\ exec[s] = "terminating"
    /\ script[s] \in {"none", "dead"}
    /\ held[s] # "output"
    /\ Conclude(s, status[s])
    /\ UNCHANGED <<processUnchanged, script, starts>>

\* Slip: an orderly exit is taken at its word.
SettleOutcomeOptimistic(s) ==
    /\ exec[s] = "exited"
    /\ held[s] # "output"
    /\ Proceed(s, "collecting") \/ Conclude(s, "failed")
    /\ UNCHANGED <<processUnchanged, script, starts>>

\* After a natural exit the output is joined and the file guard stopped.  Then both
\* channels are looked at again, so that a cancellation wins, and only then does the
\* outcome of the script count.
SettleOutcome(s) ==
    /\ exec[s] = "exited"
    /\ held[s] # "output"
    /\ IF Cancelled(s) THEN Conclude(s, "stopped")
       ELSE Proceed(s, "collecting") \/ Conclude(s, "failed")
    /\ UNCHANGED <<processUnchanged, script, starts>>

\* The artifacts are collected; Completed, ScriptError or ArtifactError.
Collect(s) ==
    /\ exec[s] = "collecting"
    /\ Conclude(s, "completed")
    /\ UNCHANGED <<processUnchanged, script, starts>>

-----------------------------------------------------------------------------
(* The lease observer.                                                       *)

\* Time passes: less than the admission minimum is left, then nothing.
LeaseAges ==
    /\ relay \in Up
    /\ lease # "expired"
    /\ lease' = IF lease = "good" THEN "low" ELSE "expired"
    /\ UNCHANGED <<relayVars, generation, revoked, taskVars, execVars, requestVars, outsideVars,
                   cancelVars>>

\* update_lease: it leaves LeaseState.revoked as it is.  Near the absolute limit
\* the new lease has less than the admission minimum left.
RenewalSucceeds ==
    /\ renewal = "on"
    /\ lease' \in {"good", "low"}
    /\ UNCHANGED <<relayVars, generation, revoked, taskVars, execVars, requestVars, outsideVars,
                   cancelVars>>

\* mark_renewal_failed: the first failure starts the grace period, a later one
\* may find it over or the absolute limit reached (or change nothing); a revoked
\* lease ends the observer.
RenewalFails ==
    /\ renewal = "on"
    /\ \/ /\ revoked
          /\ renewal' = "done"
          /\ UNCHANGED <<revoked, lease, cancelVars>>
       \/ /\ ~revoked /\ lease = "good"
          /\ lease' = "low"
          /\ UNCHANGED <<revoked, renewal, cancelVars>>
       \/ /\ ~revoked /\ lease # "good"
          /\ Revoke
          /\ renewal' = "done"
          /\ UNCHANGED lease
    /\ UNCHANGED <<relayVars, generation, peer, execVars, requestVars, outsideVars>>

\* The policy on disk changed, or the Server refuses the renewal for good.
RenewalRefused ==
    /\ renewal = "on"
    /\ Revoke
    /\ renewal' = "done"
    /\ UNCHANGED <<relayVars, generation, lease, peer, execVars, requestVars, outsideVars>>

-----------------------------------------------------------------------------
(* The device-peer observer.                                                 *)

\* The heartbeat stream of the Device Client service breaks or falls silent.
PeerLost ==
    /\ peer = "watching"
    /\ Revoke
    /\ peer' = "clearing"
    /\ UNCHANGED <<relayVars, generation, lease, renewal, execVars, requestVars, outsideVars>>

\* clear_active_binding removes whatever hand-off is there; a failure is only
\* logged.
ClearHandoff ==
    /\ peer = "clearing"
    /\ handoff' \in {0, handoff}
    /\ peer' = "stopping"
    /\ UNCHANGED <<relayVars, leaseVars, renewal, execVars, requestVars, claimed, highest,
                   held, cancelVars>>

\* The Server answered the stop, or did not within DEVICE_PEER_STOP_TIMEOUT.
StopReturns ==
    /\ peer = "stopping"
    /\ peer' = "ended"
    /\ UNCHANGED <<relayVars, leaseVars, renewal, execVars, requestVars, outsideVars, cancelVars>>

\* The service reports that local admission was closed.
AdmissionClosed ==
    /\ peer = "watching"
    /\ Revoke
    /\ peer' = "ended"
    /\ UNCHANGED <<relayVars, generation, lease, renewal, execVars, requestVars, outsideVars>>

\* The main task sees that the observer has ended.
PeerTaskEnded ==
    /\ peer = "ended"
    /\ relay \in Interruptible \cup {"activating"}
    /\ relay' = "stopping"
    /\ DropRelay
    /\ UNCHANGED <<leaseVars, taskVars, status, script, starts, requestVars, outsideVars, cancelVars>>

-----------------------------------------------------------------------------
(* The Task Space monitor.                                                   *)

\* The user took the Task Space over, or the monitor is gone.
MonitorFires ==
    /\ relay \in Interruptible
    /\ relay' = "pausing"
    /\ Revoke
    /\ DropRelay
    /\ UNCHANGED <<generation, lease, taskVars, status, script, starts, requestVars, outsideVars>>

\* The binding is paused once nothing runs any more, or after
\* TASK_SPACE_EXECUTION_SHUTDOWN_TIMEOUT.
PauseBinding ==
    /\ relay = "pausing"
    /\ relay' = "stopping"
    /\ UNCHANGED <<current, pending, leaseVars, taskVars, execVars, requestVars, outsideVars,
                   cancelVars>>

-----------------------------------------------------------------------------
ProcessStep ==
    \/ ClaimGeneration \/ StartBridge \/ Activate \/ ActivationFails
    \/ Crash \/ ExitProcess \/ Shutdown

RelayStep ==
    \/ Connect \/ ConnectFails \/ ResumeCheck \/ ResumeClear
    \/ SessionSeesCancel \/ Disconnect \/ BadFrame \/ Reap
    \/ \E s \in Sequence, g \in FrameGeneration : ReceiveExecute(s, g) \/ DeliverCancel(s, g)
    \/ \E g \in FrameGeneration : RefuseExecute(g) \/ RefuseCancel(g)
    \/ ReserveSequence \/ ReserveFails \/ DecryptFails \/ AnswerOnly \/ Admit
    \/ \E s \in Sequence : TakeResult(s)
    \/ SendResult \/ SendFails

ExecutionStep(s) ==
    \/ Begin(s) \/ PrepareFails(s) \/ Spawn(s) \/ CheckSpawned(s)
    \/ WriteScript(s) \/ WriteFails(s) \/ StartScript(s) \/ ScriptEnds(s)
    \/ RuntimeStalls(s) \/ HoldUp(s) \/ LetGo(s)
    \/ ObserveExit(s) \/ ObserveCancel(s) \/ DeadlinePasses(s) \/ OutputFails(s)
    \/ Reaped(s) \/ SettleOutcome(s) \/ Collect(s)

ObserverStep ==
    \/ LeaseAges \/ RenewalSucceeds \/ RenewalFails \/ RenewalRefused
    \/ PeerLost \/ ClearHandoff \/ StopReturns \/ AdmissionClosed \/ PeerTaskEnded
    \/ MonitorFires \/ PauseBinding

Next ==
    \/ ProcessStep
    \/ RelayStep
    \/ \E s \in Sequence : ExecutionStep(s)
    \/ ObserverStep

Spec == Init /\ [][Next]_vars

\* What the code itself guarantees to happen: its tasks are polled, timers fire,
\* a supervisor that has handed its script on sees its control pipe closed.  Nothing
\* is assumed of the relay, the Server, the user or the scripts; in particular not
\* that a stalled runtime ends, nor that what holds an execution up lets go.
Fairness ==
    /\ WF_vars(Reap) /\ WF_vars(SessionSeesCancel)
    /\ WF_vars(SendResult \/ SendFails)
    /\ WF_vars(ReserveSequence \/ ReserveFails)
    /\ WF_vars(Admit \/ AnswerOnly \/ DecryptFails)
    /\ \A s \in Sequence :
         /\ WF_vars(TakeResult(s))
         /\ WF_vars(Begin(s)) /\ WF_vars(Spawn(s) \/ PrepareFails(s)) /\ WF_vars(CheckSpawned(s))
         /\ WF_vars(WriteScript(s) \/ WriteFails(s))
         /\ WF_vars(ObserveExit(s)) /\ WF_vars(ObserveCancel(s)) /\ WF_vars(DeadlinePasses(s))
         /\ WF_vars(Reaped(s)) /\ WF_vars(SettleOutcome(s)) /\ WF_vars(Collect(s))
         /\ WF_vars(StopScript(s))

FairSpec == Spec /\ Fairness

-----------------------------------------------------------------------------
(* The order of requests: what of all this a request can see.                *)

PhaseOf ==
    [none |-> "before", admitted |-> "held", preparing |-> "held", spawned |-> "held",
     writing |-> "held", running |-> "waiting", terminating |-> "ending",
     exited |-> "settling", collecting |-> "settling",
     finished |-> "finished", sent |-> "answered", lost |-> "gone"]

Phases == [s \in Sequence |-> PhaseOf[exec[s]]]

Order == INSTANCE RequestOrder
    WITH last <- highest, open <- relay = "admitting", phase <- Phases

\* Whatever the relay, the observers and the restarts do, requests are taken up one
\* at a time and in the order of their numbers, and each script lives one life.
ImplementsRequestOrder == Order!Spec

-----------------------------------------------------------------------------
(* The lease and its session: what of all this a lease can see.              *)

SessionPhase ==
    IF relay = "down" THEN "off"
    ELSE IF relay \in {"activating", "dialing", "resuming"} THEN relay
    ELSE IF relay \in {"session", "sending"} THEN "up"
    ELSE IF relay \in {"reserving", "admitting"} THEN "vetting"
    ELSE IF relay \in {"reaping", "leaving"} THEN "ending"
    ELSE IF relay = "redialing" THEN "down"
    ELSE "closed"

Leased == INSTANCE LeasedSession
    WITH standing <- lease, flag <- cancelled, session <- SessionPhase, work <- Guarded # {}

\* Whatever the tasks do, requests begin under a lease in good standing only, and a
\* reconnect clears the flag only when nothing is at work.
ImplementsLeasedSession == Leased!Spec

-----------------------------------------------------------------------------
(* Properties.                                                               *)

\* The type invariant: every variable of the process and of its history has
\* one of the values the code can give it (BridgeSupervisor, lib.rs).
TypeOK ==
    /\ handoff \in 0..MaxGeneration
    /\ claimed \in 0..MaxGeneration
    /\ generation \in 0..MaxGeneration
    /\ relay \in Up \cup {"down"}
    /\ current \in Sequence \cup {0}
    /\ highest \in 0..MaxSequence
    /\ cancelled \in BOOLEAN
    /\ revoked \in BOOLEAN
    /\ lease \in {"good", "low", "expired"}
    /\ renewal \in {"off", "on", "done"}
    /\ peer \in {"off", "watching", "clearing", "stopping", "ended"}
    /\ exec \in [Sequence -> Executing \cup {"none", "finished", "sent", "lost"}]
    /\ status \in [Sequence -> {"none", "refused", "stopped", "failed", "completed"}]
    /\ pending \subseteq Sequence
    /\ registered \subseteq Sequence
    /\ requestCancelled \subseteq Sequence
    /\ script \in [Sequence -> {"none", "sent", "live", "dead"}]
    /\ held \in [Sequence -> {"no", "runtime", "output"}]
    /\ starts \in [Sequence -> Nat]
    /\ hit \subseteq Sequence

\* The script of a request is started at most once, however often the relay
\* delivers its frame and wherever the Bridge crashes and restarts between
\* reserve_remote_sequence and the answer.
StartedOnce == \A s \in Sequence : starts[s] <= 1

\* "Revocation wins over an otherwise successful exit" (run_process): a request
\* that was cancelled, by its own cancel frame, by a lost relay or by any of the
\* four tasks that revoke, before its outcome was settled, is never reported as
\* the completed run of its script; clearing the flag for the next session does
\* not undo that.
RevocationWins == \A s \in hit : status[s] # "completed"

\* resume_after_reconnect clears the flag of the whole generation.  It may: when
\* a connection is being made, every execution of the session before has ended
\* and no request can be cancelled any more (cancel_and_reap).
NoWorkBetweenSessions ==
    relay \in {"dialing", "redialing", "resuming"} => Guarded = {} /\ registered = {}

\* A revocation can be overtaken by the reconnect that clears the flag.  Then
\* nothing runs, and the revoked lease keeps anything from being admitted, until
\* the session ends (prepare_remote_execution checks flag, lease, then flag).
LostRevocationIsHarmless == revoked /\ ~cancelled => Guarded = {}

\* Scripts leave the Bridge in the order of their numbers, each once: the relay may
\* deliver frames in any order, and the Bridge may be restarted between any two
\* (reserve_remote_sequence).
ScriptsInOrder ==
    [][\A s, t \in Sequence :
          script[s] = "none" /\ script'[s] # "none" /\ script[t] # "none" => t < s]_vars

\* A script that left the Bridge ends: its deadline passes, it is cancelled, or the
\* Bridge is gone and the execution supervisor sees its control pipe closed.  Not if
\* its runtime does not read it: then its supervisor does not see the pipe, and is
\* killed in its stead (terminate_supervised_child).
ScriptsEnd ==
    \A s \in Sequence :
        (script[s] \in {"sent", "live"}) ~> (script[s] = "dead" \/ held[s] = "runtime")

\* The session collects every execution it spawned, unless it is dropped, so that
\* cancel_and_reap returns -- provided that what holds an execution up lets go of it
\* at last: run_process joins the output and stops the file guard with no deadline.
Collected ==
    \A s \in Sequence :
        []<>(held[s] # "no") \/ ((s \in pending) ~> (s \notin pending))
=============================================================================
