----------------------- MODULE BridgeSupervisorProofs -----------------------
(***************************************************************************)
(* Safety of the Bridge process for any number of requests and generations: *)
(* the inductive invariant of BridgeSupervisor and what follows from it, the  *)
(* refinement of RequestOrder, and what that order says of the Bridge.       *)
(***************************************************************************)
EXTENDS BridgeSupervisor, TLAPS

\* Between sessions nothing is at work; within one, every execution that holds
\* the scheduler is among the tasks the session will reap.
WorkInSession ==
    /\ relay \in {"down", "activating", "dialing", "redialing", "resuming"} =>
          Guarded = {} /\ registered = {}
    /\ relay \in {"session", "reserving", "admitting", "sending", "reaping", "leaving"} =>
          Guarded \subseteq pending

\* The request in hand, and the ledger: nothing beyond the last used sequence
\* number has ever been seen, nor has the number just reserved.
RequestInHand ==
    /\ relay \in {"reserving", "admitting", "sending"} => current \in Sequence
    /\ relay = "sending" => exec[current] = "finished"
    /\ relay = "admitting" => current = highest /\ exec[current] = "none"
    /\ \A s \in Sequence : s > highest => exec[s] = "none"

\* How far a request has come bounds what its script, its outcome and its
\* cancellation can be.
NotYetWritten == {"none", "admitted", "preparing", "spawned", "writing"}

RequestHistory ==
    \A s \in Sequence :
        /\ exec[s] = "none" => status[s] = "none" /\ s \notin hit
        /\ exec[s] \in NotYetWritten => script[s] = "none"
        /\ exec[s] \in {"exited", "collecting"} => script[s] = "dead"
        /\ script[s] \in {"none", "sent"} => starts[s] = 0
        /\ starts[s] <= 1
        /\ exec[s] \in Executing => status[s] # "completed"
        /\ s \in hit =>
              /\ exec[s] # "collecting"
              /\ status[s] # "completed"
              /\ exec[s] \in Executing \ {"terminating"} => Cancelled(s)

\* A revoked lease whose flag was cleared finds nothing at work and lets nothing in.
RevokedIdle ==
    revoked /\ ~cancelled => Guarded = {} /\ relay \notin {"reserving", "admitting"}

IInv == TypeOK /\ WorkInSession /\ RequestInHand /\ RequestHistory /\ RevokedIdle

\* The end of the process resets what it held and keeps the files and the scripts.
LEMMA ProcessGoneTypes == TypeOK /\ ProcessGone => TypeOK'
<1> SUFFICES ASSUME TypeOK, ProcessGone PROVE TypeOK'
  OBVIOUS
<1>1. exec' \in [Sequence -> Executing \cup {"none", "finished", "sent", "lost"}]
  BY DEF TypeOK, ProcessGone
<1>0. held' \in [Sequence -> {"no", "runtime", "output"}]
  BY DEF TypeOK, ProcessGone
<1>2. /\ relay' = "down" /\ current' = 0 /\ pending' = {} /\ registered' = {}
      /\ requestCancelled' = {} /\ cancelled' = FALSE /\ revoked' = FALSE
      /\ lease' = "good" /\ generation' = 0 /\ renewal' = "off" /\ peer' = "off"
      /\ UNCHANGED <<status, script, starts, handoff, claimed, highest, hit>>
  BY DEF ProcessGone, fileVars, outsideVars
<1>3. /\ handoff' \in 0..MaxGeneration /\ claimed' \in 0..MaxGeneration
      /\ generation' \in 0..MaxGeneration /\ highest' \in 0..MaxSequence
  BY <1>2, BridgeAssumption DEF TypeOK
<1>4. /\ relay' \in Up \cup {"down"} /\ lease' \in {"good", "low", "expired"}
      /\ renewal' \in {"off", "on", "done"}
      /\ peer' \in {"off", "watching", "clearing", "stopping", "ended"}
  BY <1>2
<1>5. /\ current' \in Sequence \cup {0} /\ cancelled' \in BOOLEAN /\ revoked' \in BOOLEAN
      /\ pending' \subseteq Sequence /\ registered' \subseteq Sequence
      /\ requestCancelled' \subseteq Sequence /\ hit' \subseteq Sequence
  BY <1>2 DEF TypeOK
<1>6. QED
  BY <1>0, <1>1, <1>2, <1>3, <1>4, <1>5 DEF TypeOK

\* What a cancellation hits are requests.
LEMMA UnsettledIsSequence == Unsettled \subseteq Sequence
BY DEF Unsettled, Guarded

\* Every step preserves the types; AnswerOnly and Admit need the request in hand.
LEMMA TypeStep == TypeOK /\ RequestInHand /\ [Next]_vars => TypeOK'
<1> SUFFICES ASSUME TypeOK /\ RequestInHand, [Next]_vars PROVE TypeOK'
  OBVIOUS
<1> USE DEF TypeOK, Executing, RelayLoop, Up
<1>1. CASE ProcessStep
  <2>1. CASE ClaimGeneration \/ Activate
    BY <2>1, BridgeAssumption DEF ClaimGeneration, cancelVars, execVars, leaseVars, relayVars,
       requestVars, taskVars, Activate, outsideVars
  <2>2. CASE StartBridge
    BY <2>2, BridgeAssumption DEF StartBridge, execVars, outsideVars, requestVars
  <2>3. CASE ActivationFails
    BY <2>3, UnsettledIsSequence DEF ActivationFails, Cancel, execVars, outsideVars, leaseVars,
       requestVars, taskVars
  <2>4. CASE Crash \/ ExitProcess
    BY <2>4, ProcessGoneTypes DEF Crash, ExitProcess
  <2>5. CASE Shutdown
    BY <2>5, UnsettledIsSequence DEF Shutdown, Cancel, DropRelay, outsideVars, leaseVars,
       requestVars, taskVars
  <2>6. QED BY <1>1, <2>1, <2>2, <2>3, <2>4, <2>5 DEF ProcessStep
<1>2. CASE RelayStep
  <2>1. CASE Connect \/ ConnectFails \/ ResumeCheck
    BY <2>1 DEF Connect, cancelVars, execVars, outsideVars, leaseVars, requestVars, taskVars,
       ConnectFails, ResumeCheck
  <2>2. CASE ResumeClear
    BY <2>2 DEF ResumeClear, execVars, outsideVars, leaseVars, requestVars, taskVars
  <2>3. CASE SessionSeesCancel \/ Disconnect \/ BadFrame
    BY <2>3, UnsettledIsSequence DEF SessionSeesCancel, Cancel, execVars, outsideVars, leaseVars,
       requestVars, taskVars, Disconnect, BadFrame
  <2>4. CASE Reap
    BY <2>4 DEF Reap, cancelVars, outsideVars, leaseVars, taskVars
  <2>5. ASSUME NEW s \in Sequence, NEW g \in FrameGeneration, ReceiveExecute(s, g) PROVE TypeOK'
    BY <2>5 DEF ReceiveExecute, cancelVars, execVars, outsideVars, leaseVars, requestVars,
       taskVars
  <2>6. ASSUME NEW s \in Sequence, NEW g \in FrameGeneration, DeliverCancel(s, g) PROVE TypeOK'
    BY <2>6, UnsettledIsSequence DEF DeliverCancel, execVars, outsideVars, leaseVars, relayVars,
       taskVars
  <2>7. ASSUME NEW g \in FrameGeneration, RefuseExecute(g) \/ RefuseCancel(g) PROVE TypeOK'
    BY <2>7, UnsettledIsSequence DEF RefuseExecute, Cancel, execVars, outsideVars, leaseVars,
       requestVars, taskVars, RefuseCancel
  <2>8. CASE ReserveSequence
    BY <2>8, BridgeAssumption DEF ReserveSequence, cancelVars, execVars, leaseVars, requestVars,
       taskVars, Sequence
  <2>9. CASE ReserveFails \/ DecryptFails
    BY <2>9, UnsettledIsSequence DEF ReserveFails, Cancel, execVars, outsideVars, leaseVars,
       requestVars, taskVars, DecryptFails
  <2>10. CASE AnswerOnly
    BY <2>10 DEF AnswerOnly, cancelVars, outsideVars, leaseVars, requestVars, taskVars,
       RequestInHand
  <2>11. CASE Admit
    BY <2>11 DEF Admit, cancelVars, outsideVars, leaseVars, taskVars, RequestInHand
  <2>12. ASSUME NEW s \in Sequence, TakeResult(s) PROVE TypeOK'
    BY <2>12, UnsettledIsSequence DEF TakeResult, Cancel, cancelVars, outsideVars, leaseVars,
       requestVars, taskVars
  <2>13. CASE SendResult
    BY <2>13 DEF SendResult, cancelVars, outsideVars, leaseVars, taskVars
  <2>14. CASE SendFails
    BY <2>14, UnsettledIsSequence DEF SendFails, Cancel, outsideVars, leaseVars, requestVars,
       taskVars
  <2>15. QED BY <1>2, <2>1, <2>2, <2>3, <2>4, <2>5, <2>6, <2>7, <2>8, <2>9, <2>10, <2>11, <2>12,
     <2>13, <2>14 DEF RelayStep
<1>3. ASSUME NEW s \in Sequence, ExecutionStep(s) PROVE TypeOK'
  <2>1. CASE Begin(s) \/ PrepareFails(s)
    BY <2>1 DEF Begin, Conclude, Proceed, cancelVars, outsideVars, leaseVars, processUnchanged,
       relayVars, requestVars, taskVars, PrepareFails
  <2>2. CASE Spawn(s) \/ CheckSpawned(s)
    BY <2>2 DEF Spawn, Proceed, cancelVars, outsideVars, leaseVars, processUnchanged, relayVars,
       requestVars, taskVars, CheckSpawned, Terminate
  <2>3. CASE WriteScript(s) \/ WriteFails(s)
    BY <2>3 DEF WriteScript, Proceed, cancelVars, outsideVars, leaseVars, processUnchanged,
       relayVars, requestVars, taskVars, WriteFails, Terminate
  <2>4. CASE StartScript(s)
    BY <2>4 DEF StartScript, cancelVars, outsideVars, leaseVars, processUnchanged, relayVars,
       requestVars, taskVars
  <2>5. CASE ObserveExit(s) \/ ObserveCancel(s)
    BY <2>5 DEF ObserveExit, Proceed, cancelVars, outsideVars, leaseVars, processUnchanged,
       relayVars, requestVars, taskVars, ObserveCancel, Terminate
  <2>6. CASE DeadlinePasses(s) \/ OutputFails(s)
    BY <2>6 DEF DeadlinePasses, Terminate, cancelVars, outsideVars, leaseVars, processUnchanged,
       relayVars, requestVars, taskVars, OutputFails
  <2>7. CASE Reaped(s)
    BY <2>7 DEF Reaped, Conclude, cancelVars, outsideVars, leaseVars, processUnchanged, relayVars,
       requestVars, taskVars
  <2>8. CASE SettleOutcome(s) \/ Collect(s)
    BY <2>8 DEF SettleOutcome, Conclude, Proceed, cancelVars, outsideVars, leaseVars,
       processUnchanged, relayVars, requestVars, taskVars, Collect
  <2>9. CASE ScriptEnds(s) \/ RuntimeStalls(s) \/ HoldUp(s) \/ LetGo(s)
    BY <2>9 DEF ScriptEnds, RuntimeStalls, HoldUp, LetGo, execVars, fileVars, cancelVars,
       leaseVars, relayVars, requestVars, taskVars
  <2>10. QED BY <1>3, <2>1, <2>2, <2>3, <2>4, <2>5, <2>6, <2>7, <2>8, <2>9 DEF ExecutionStep
<1>4. CASE ObserverStep
  <2>1. CASE LeaseAges
    BY <2>1 DEF LeaseAges, cancelVars, execVars, outsideVars, relayVars, requestVars, taskVars
  <2>2. CASE RenewalSucceeds
    BY <2>2 DEF RenewalSucceeds, cancelVars, execVars, outsideVars, relayVars, requestVars,
       taskVars
  <2>3. CASE RenewalFails
    <3>1. UNCHANGED <<relayVars, generation, peer, execVars, requestVars, outsideVars>>
      BY <2>3 DEF RenewalFails
    <3>2. /\ cancelled' \in BOOLEAN
          /\ revoked' \in BOOLEAN
          /\ lease' \in {"good", "low", "expired"}
          /\ renewal' \in {"off", "on", "done"}
      BY <2>3 DEF RenewalFails, Cancel, Revoke, cancelVars
    <3>3. hit' = hit \/ hit' = hit \cup Unsettled
      BY <2>3 DEF RenewalFails, Cancel, Revoke, cancelVars
    <3>4. QED BY <3>1, <3>2, <3>3, UnsettledIsSequence DEF execVars, outsideVars, relayVars,
                 requestVars
  <2>4. CASE RenewalRefused \/ PeerLost \/ AdmissionClosed
    <3>1. /\ revoked' = TRUE
          /\ cancelled' = TRUE
          /\ hit' = hit \cup Unsettled
      BY <2>4 DEF RenewalRefused, PeerLost, AdmissionClosed, Revoke, Cancel
    <3>2. CASE RenewalRefused
      BY <3>1, <3>2, UnsettledIsSequence DEF RenewalRefused, execVars, outsideVars, relayVars,
         requestVars
    <3>3. CASE PeerLost
      BY <3>1, <3>3, UnsettledIsSequence DEF PeerLost, execVars, outsideVars, relayVars,
         requestVars
    <3>4. CASE AdmissionClosed
      BY <3>1, <3>4, UnsettledIsSequence DEF AdmissionClosed, execVars, outsideVars, relayVars,
         requestVars
    <3>5. QED BY <2>4, <3>2, <3>3, <3>4
  <2>5. CASE ClearHandoff \/ StopReturns
    BY <2>5, BridgeAssumption DEF ClearHandoff, cancelVars, execVars, leaseVars, relayVars,
       requestVars, StopReturns, outsideVars
  <2>6. CASE PeerTaskEnded
    BY <2>6 DEF PeerTaskEnded, DropRelay, cancelVars, outsideVars, leaseVars, requestVars,
       taskVars
  <2>7. CASE MonitorFires \/ PauseBinding
    BY <2>7, UnsettledIsSequence DEF MonitorFires, Cancel, DropRelay, Revoke, outsideVars,
       requestVars, taskVars, PauseBinding, cancelVars, execVars, leaseVars
  <2>8. QED BY <1>4, <2>1, <2>2, <2>3, <2>4, <2>5, <2>6, <2>7 DEF ObserverStep
<1>5. CASE UNCHANGED vars
  BY <1>5 DEF vars, relayVars, leaseVars, taskVars, execVars, requestVars, outsideVars, cancelVars
<1>6. QED BY <1>1, <1>2, <1>3, <1>4, <1>5 DEF Next

\* Every step keeps work inside its session: Admit adds to both sides, Reap waits,
\* and a main task that drops its relay future goes where no session is claimed.
LEMMA SessionStep == TypeOK /\ RequestInHand /\ WorkInSession /\ [Next]_vars => WorkInSession'
<1> SUFFICES ASSUME TypeOK /\ RequestInHand /\ WorkInSession, [Next]_vars PROVE WorkInSession'
  OBVIOUS
<1> USE DEF TypeOK, RequestInHand, WorkInSession, Guarded, Executing, RelayLoop, Up,
   Interruptible
<1>1. CASE ProcessStep
  <2>1. CASE ClaimGeneration \/ Activate
    BY <2>1 DEF ClaimGeneration, cancelVars, execVars, leaseVars, relayVars, requestVars,
       taskVars, Activate, outsideVars
  <2>2. CASE StartBridge
    BY <2>2 DEF StartBridge, execVars, outsideVars, requestVars
  <2>3. CASE ActivationFails
    BY <2>3 DEF ActivationFails, Cancel, Unsettled, execVars, outsideVars, leaseVars, requestVars,
       taskVars
  <2>4. CASE Crash \/ ExitProcess
    BY <2>4 DEF Crash, ProcessGone, fileVars, outsideVars, ExitProcess
  <2>5. CASE Shutdown
    BY <2>5 DEF Shutdown, Cancel, DropRelay, Unsettled, outsideVars, leaseVars, requestVars,
       taskVars
  <2>6. QED BY <1>1, <2>1, <2>2, <2>3, <2>4, <2>5 DEF ProcessStep
<1>2. CASE RelayStep
  <2>1. CASE Connect \/ ConnectFails \/ ResumeCheck
    BY <2>1 DEF Connect, cancelVars, execVars, outsideVars, leaseVars, requestVars, taskVars,
       ConnectFails, ResumeCheck, AdmissionMayReturn
  <2>2. CASE ResumeClear
    BY <2>2 DEF ResumeClear, execVars, outsideVars, leaseVars, requestVars, taskVars
  <2>3. CASE SessionSeesCancel \/ Disconnect \/ BadFrame
    BY <2>3 DEF SessionSeesCancel, Cancel, Unsettled, execVars, outsideVars, leaseVars,
       requestVars, taskVars, Disconnect, BadFrame
  <2>4. CASE Reap
    BY <2>4 DEF Reap, cancelVars, outsideVars, leaseVars, taskVars
  <2>5. ASSUME NEW s \in Sequence, NEW g \in FrameGeneration, ReceiveExecute(s, g) PROVE WorkInSession'
    BY <2>5 DEF ReceiveExecute, AdmissionAllowed, cancelVars, execVars, outsideVars, leaseVars,
       requestVars, taskVars
  <2>6. ASSUME NEW s \in Sequence, NEW g \in FrameGeneration, DeliverCancel(s, g) PROVE WorkInSession'
    BY <2>6 DEF DeliverCancel, Unsettled, execVars, outsideVars, leaseVars, relayVars, taskVars
  <2>7. ASSUME NEW g \in FrameGeneration, RefuseExecute(g) \/ RefuseCancel(g) PROVE WorkInSession'
    BY <2>7 DEF RefuseExecute, AdmissionAllowed, Cancel, Unsettled, execVars, outsideVars,
       leaseVars, requestVars, taskVars, RefuseCancel
  <2>8. CASE ReserveSequence
    BY <2>8 DEF ReserveSequence, cancelVars, execVars, leaseVars, requestVars, taskVars
  <2>9. CASE ReserveFails \/ DecryptFails
    BY <2>9 DEF ReserveFails, Cancel, Unsettled, execVars, outsideVars, leaseVars, requestVars,
       taskVars, DecryptFails
  <2>10. CASE AnswerOnly
    BY <2>10 DEF AnswerOnly, cancelVars, outsideVars, leaseVars, requestVars, taskVars
  <2>11. CASE Admit
    BY <2>11 DEF Admit, cancelVars, outsideVars, leaseVars, taskVars
  <2>12. ASSUME NEW s \in Sequence, TakeResult(s) PROVE WorkInSession'
    BY <2>12 DEF TakeResult, Cancel, Unsettled, cancelVars, outsideVars, leaseVars, requestVars,
       taskVars
  <2>13. CASE SendResult
    BY <2>13 DEF SendResult, cancelVars, outsideVars, leaseVars, taskVars
  <2>14. CASE SendFails
    BY <2>14 DEF SendFails, Cancel, Unsettled, outsideVars, leaseVars, requestVars, taskVars
  <2>15. QED BY <1>2, <2>1, <2>2, <2>3, <2>4, <2>5, <2>6, <2>7, <2>8, <2>9, <2>10, <2>11, <2>12,
     <2>13, <2>14 DEF RelayStep
<1>3. ASSUME NEW s \in Sequence, ExecutionStep(s) PROVE WorkInSession'
  <2>1. CASE Begin(s) \/ PrepareFails(s)
    BY <2>1 DEF Begin, Cancelled, Conclude, Proceed, cancelVars, outsideVars, leaseVars,
       processUnchanged, relayVars, requestVars, taskVars, PrepareFails
  <2>2. CASE Spawn(s) \/ CheckSpawned(s)
    BY <2>2 DEF Spawn, Proceed, cancelVars, outsideVars, leaseVars, processUnchanged, relayVars,
       requestVars, taskVars, CheckSpawned, Cancelled, Terminate
  <2>3. CASE WriteScript(s) \/ WriteFails(s)
    BY <2>3 DEF WriteScript, Proceed, cancelVars, outsideVars, leaseVars, processUnchanged,
       relayVars, requestVars, taskVars, WriteFails, Terminate
  <2>4. CASE StartScript(s)
    BY <2>4 DEF StartScript, cancelVars, outsideVars, leaseVars, processUnchanged, relayVars,
       requestVars, taskVars
  <2>5. CASE ObserveExit(s) \/ ObserveCancel(s)
    BY <2>5 DEF ObserveExit, Proceed, cancelVars, outsideVars, leaseVars, processUnchanged,
       relayVars, requestVars, taskVars, ObserveCancel, Cancelled, Terminate
  <2>6. CASE DeadlinePasses(s) \/ OutputFails(s)
    BY <2>6 DEF DeadlinePasses, Terminate, cancelVars, outsideVars, leaseVars, processUnchanged,
       relayVars, requestVars, taskVars, OutputFails
  <2>7. CASE Reaped(s)
    BY <2>7 DEF Reaped, Conclude, cancelVars, outsideVars, leaseVars, processUnchanged, relayVars,
       requestVars, taskVars
  <2>8. CASE SettleOutcome(s) \/ Collect(s)
    BY <2>8 DEF SettleOutcome, Cancelled, Conclude, Proceed, cancelVars, outsideVars, leaseVars,
       processUnchanged, relayVars, requestVars, taskVars, Collect
  <2>9. CASE ScriptEnds(s) \/ RuntimeStalls(s) \/ HoldUp(s) \/ LetGo(s)
    BY <2>9 DEF ScriptEnds, RuntimeStalls, HoldUp, LetGo, execVars, fileVars, cancelVars,
       leaseVars, relayVars, requestVars, taskVars
  <2>10. QED BY <1>3, <2>1, <2>2, <2>3, <2>4, <2>5, <2>6, <2>7, <2>8, <2>9 DEF ExecutionStep
<1>4. CASE ObserverStep
  <2>1. CASE LeaseAges \/ RenewalSucceeds \/ RenewalFails
    BY <2>1 DEF LeaseAges, cancelVars, execVars, outsideVars, relayVars, requestVars, taskVars,
       RenewalSucceeds, RenewalFails, Cancel, Revoke, Unsettled
  <2>2. CASE RenewalRefused \/ PeerLost \/ AdmissionClosed
    BY <2>2 DEF RenewalRefused, Cancel, Revoke, Unsettled, execVars, outsideVars, relayVars,
       requestVars, PeerLost, AdmissionClosed
  <2>3. CASE ClearHandoff \/ StopReturns
    BY <2>3 DEF ClearHandoff, cancelVars, execVars, leaseVars, relayVars, requestVars,
       StopReturns, outsideVars
  <2>4. CASE PeerTaskEnded
    BY <2>4 DEF PeerTaskEnded, DropRelay, cancelVars, outsideVars, leaseVars, requestVars,
       taskVars
  <2>5. CASE MonitorFires \/ PauseBinding
    BY <2>5 DEF MonitorFires, Cancel, DropRelay, Revoke, Unsettled, outsideVars, requestVars,
       taskVars, PauseBinding, cancelVars, execVars, leaseVars
  <2>6. QED BY <1>4, <2>1, <2>2, <2>3, <2>4, <2>5 DEF ObserverStep
<1>5. CASE UNCHANGED vars
  BY <1>5 DEF vars, relayVars, leaseVars, taskVars, execVars, requestVars, outsideVars, cancelVars
<1>6. QED BY <1>1, <1>2, <1>3, <1>4, <1>5 DEF Next

\* Every step keeps the ledger ahead of every request seen.
LEMMA HandStep == TypeOK /\ WorkInSession /\ RequestInHand /\ [Next]_vars => RequestInHand'
<1> SUFFICES ASSUME TypeOK /\ WorkInSession /\ RequestInHand, [Next]_vars PROVE RequestInHand'
  OBVIOUS
<1> USE DEF TypeOK, RequestInHand, WorkInSession, Guarded, Executing, RelayLoop, Up,
   Interruptible
<1>1. CASE ProcessStep
  <2>1. CASE ClaimGeneration \/ Activate
    BY <2>1 DEF ClaimGeneration, cancelVars, execVars, leaseVars, relayVars, requestVars,
       taskVars, Activate, outsideVars
  <2>2. CASE StartBridge
    BY <2>2 DEF StartBridge, execVars, outsideVars, requestVars
  <2>3. CASE ActivationFails
    BY <2>3 DEF ActivationFails, Cancel, Unsettled, execVars, outsideVars, leaseVars, requestVars,
       taskVars
  <2>4. CASE Crash
    BY <2>4 DEF Crash, ProcessGone, fileVars, outsideVars
  <2>5. CASE ExitProcess
    BY <2>5 DEF ExitProcess, ProcessGone, fileVars, outsideVars
  <2>6. CASE Shutdown
    BY <2>6 DEF Shutdown, Cancel, DropRelay, Unsettled, outsideVars, leaseVars, requestVars,
       taskVars
  <2>7. QED BY <1>1, <2>1, <2>2, <2>3, <2>4, <2>5, <2>6 DEF ProcessStep
<1>2. CASE RelayStep
  <2>1. CASE Connect \/ ConnectFails \/ ResumeCheck
    BY <2>1 DEF Connect, cancelVars, execVars, outsideVars, leaseVars, requestVars, taskVars,
       ConnectFails, ResumeCheck, AdmissionMayReturn
  <2>2. CASE ResumeClear
    BY <2>2 DEF ResumeClear, execVars, outsideVars, leaseVars, requestVars, taskVars
  <2>3. CASE SessionSeesCancel \/ Disconnect \/ BadFrame
    BY <2>3 DEF SessionSeesCancel, Cancel, Unsettled, execVars, outsideVars, leaseVars,
       requestVars, taskVars, Disconnect, BadFrame
  <2>4. CASE Reap
    BY <2>4 DEF Reap, cancelVars, outsideVars, leaseVars, taskVars
  <2>5. ASSUME NEW s \in Sequence, NEW g \in FrameGeneration, ReceiveExecute(s, g) PROVE RequestInHand'
    BY <2>5 DEF ReceiveExecute, AdmissionAllowed, cancelVars, execVars, outsideVars, leaseVars,
       requestVars, taskVars
  <2>6. ASSUME NEW s \in Sequence, NEW g \in FrameGeneration, DeliverCancel(s, g) PROVE RequestInHand'
    BY <2>6 DEF DeliverCancel, Unsettled, execVars, outsideVars, leaseVars, relayVars, taskVars
  <2>7. ASSUME NEW g \in FrameGeneration, RefuseExecute(g) \/ RefuseCancel(g) PROVE RequestInHand'
    BY <2>7 DEF RefuseExecute, AdmissionAllowed, Cancel, Unsettled, execVars, outsideVars,
       leaseVars, requestVars, taskVars, RefuseCancel
  <2>8. CASE ReserveSequence
    BY <2>8, BridgeAssumption DEF ReserveSequence, cancelVars, execVars, leaseVars, requestVars,
       taskVars, Sequence
  <2>9. CASE ReserveFails \/ DecryptFails
    BY <2>9 DEF ReserveFails, Cancel, Unsettled, execVars, outsideVars, leaseVars, requestVars,
       taskVars, DecryptFails
  <2>10. CASE AnswerOnly
    BY <2>10, BridgeAssumption DEF AnswerOnly, cancelVars, outsideVars, leaseVars, requestVars,
       taskVars, Sequence
  <2>11. CASE Admit
    BY <2>11, BridgeAssumption DEF Admit, cancelVars, outsideVars, leaseVars, taskVars, Sequence
  <2>12. ASSUME NEW s \in Sequence, TakeResult(s) PROVE RequestInHand'
    BY <2>12 DEF TakeResult, Cancel, Unsettled, cancelVars, outsideVars, leaseVars, requestVars,
       taskVars
  <2>13. CASE SendResult
    BY <2>13 DEF SendResult, cancelVars, outsideVars, leaseVars, taskVars
  <2>14. CASE SendFails
    BY <2>14 DEF SendFails, Cancel, Unsettled, outsideVars, leaseVars, requestVars, taskVars
  <2>15. QED BY <1>2, <2>1, <2>2, <2>3, <2>4, <2>5, <2>6, <2>7, <2>8, <2>9, <2>10, <2>11, <2>12,
     <2>13, <2>14 DEF RelayStep
<1>3. ASSUME NEW s \in Sequence, ExecutionStep(s) PROVE RequestInHand'
  <2>1. CASE Begin(s) \/ PrepareFails(s)
    BY <2>1 DEF Begin, Cancelled, Conclude, Proceed, cancelVars, outsideVars, leaseVars,
       processUnchanged, relayVars, requestVars, taskVars, PrepareFails
  <2>2. CASE Spawn(s) \/ CheckSpawned(s)
    BY <2>2 DEF Spawn, Proceed, cancelVars, outsideVars, leaseVars, processUnchanged, relayVars,
       requestVars, taskVars, CheckSpawned, Cancelled, Terminate
  <2>3. CASE WriteScript(s) \/ WriteFails(s)
    BY <2>3 DEF WriteScript, Proceed, cancelVars, outsideVars, leaseVars, processUnchanged,
       relayVars, requestVars, taskVars, WriteFails, Terminate
  <2>4. CASE StartScript(s)
    BY <2>4 DEF StartScript, cancelVars, outsideVars, leaseVars, processUnchanged, relayVars,
       requestVars, taskVars
  <2>5. CASE ObserveExit(s) \/ ObserveCancel(s)
    BY <2>5 DEF ObserveExit, Proceed, cancelVars, outsideVars, leaseVars, processUnchanged,
       relayVars, requestVars, taskVars, ObserveCancel, Cancelled, Terminate
  <2>6. CASE DeadlinePasses(s) \/ OutputFails(s)
    BY <2>6 DEF DeadlinePasses, Terminate, cancelVars, outsideVars, leaseVars, processUnchanged,
       relayVars, requestVars, taskVars, OutputFails
  <2>7. CASE Reaped(s)
    BY <2>7 DEF Reaped, Conclude, cancelVars, outsideVars, leaseVars, processUnchanged, relayVars,
       requestVars, taskVars
  <2>8. CASE SettleOutcome(s) \/ Collect(s)
    BY <2>8 DEF SettleOutcome, Cancelled, Conclude, Proceed, cancelVars, outsideVars, leaseVars,
       processUnchanged, relayVars, requestVars, taskVars, Collect
  <2>9. CASE ScriptEnds(s) \/ RuntimeStalls(s) \/ HoldUp(s) \/ LetGo(s)
    BY <2>9 DEF ScriptEnds, RuntimeStalls, HoldUp, LetGo, execVars, fileVars, cancelVars,
       leaseVars, relayVars, requestVars, taskVars
  <2>10. QED BY <1>3, <2>1, <2>2, <2>3, <2>4, <2>5, <2>6, <2>7, <2>8, <2>9 DEF ExecutionStep
<1>4. CASE ObserverStep
  <2>1. CASE LeaseAges \/ RenewalSucceeds \/ RenewalFails
    BY <2>1 DEF LeaseAges, cancelVars, execVars, outsideVars, relayVars, requestVars, taskVars,
       RenewalSucceeds, RenewalFails, Cancel, Revoke, Unsettled
  <2>2. CASE RenewalRefused \/ PeerLost \/ AdmissionClosed
    BY <2>2 DEF RenewalRefused, Cancel, Revoke, Unsettled, execVars, outsideVars, relayVars,
       requestVars, PeerLost, AdmissionClosed
  <2>3. CASE ClearHandoff \/ StopReturns
    BY <2>3 DEF ClearHandoff, cancelVars, execVars, leaseVars, relayVars, requestVars,
       StopReturns, outsideVars
  <2>4. CASE PeerTaskEnded
    BY <2>4 DEF PeerTaskEnded, DropRelay, cancelVars, outsideVars, leaseVars, requestVars,
       taskVars
  <2>5. CASE MonitorFires \/ PauseBinding
    BY <2>5 DEF MonitorFires, Cancel, DropRelay, Revoke, Unsettled, outsideVars, requestVars,
       taskVars, PauseBinding, cancelVars, execVars, leaseVars
  <2>6. QED BY <1>4, <2>1, <2>2, <2>3, <2>4, <2>5 DEF ObserverStep
<1>5. CASE UNCHANGED vars
  BY <1>5 DEF vars, relayVars, leaseVars, taskVars, execVars, requestVars, outsideVars, cancelVars
<1>6. QED BY <1>1, <1>2, <1>3, <1>4, <1>5 DEF Next

\* Every step keeps a request that was cancelled in time on its way to another
\* outcome; the flag is cleared only where SessionStep shows nothing at work.
LEMMA HistoryStep ==
    TypeOK /\ WorkInSession /\ RequestInHand /\ RequestHistory /\ [Next]_vars => RequestHistory'
<1> SUFFICES ASSUME TypeOK /\ WorkInSession /\ RequestInHand /\ RequestHistory, [Next]_vars PROVE RequestHistory'
  OBVIOUS
<1> USE DEF TypeOK, RequestInHand, WorkInSession, RequestHistory, NotYetWritten, Guarded,
   Executing, RelayLoop, Up, Interruptible, Cancelled, Unsettled
<1>1. CASE ProcessStep
  <2>1. CASE ClaimGeneration \/ Activate
    BY <2>1 DEF ClaimGeneration, cancelVars, execVars, leaseVars, relayVars, requestVars,
       taskVars, Activate, outsideVars
  <2>2. CASE StartBridge
    BY <2>2 DEF StartBridge, execVars, outsideVars, requestVars
  <2>3. CASE ActivationFails
    BY <2>3 DEF ActivationFails, Cancel, execVars, outsideVars, leaseVars, requestVars, taskVars
  <2>4. CASE Crash
    BY <2>4 DEF Crash, ProcessGone, fileVars, outsideVars
  <2>5. CASE ExitProcess
    BY <2>5 DEF ExitProcess, ProcessGone, fileVars, outsideVars
  <2>6. CASE Shutdown
    BY <2>6 DEF Shutdown, Cancel, DropRelay, outsideVars, leaseVars, requestVars, taskVars
  <2>7. QED BY <1>1, <2>1, <2>2, <2>3, <2>4, <2>5, <2>6 DEF ProcessStep
<1>2. CASE RelayStep
  <2>1. CASE Connect \/ ConnectFails \/ ResumeCheck
    BY <2>1 DEF Connect, cancelVars, execVars, outsideVars, leaseVars, requestVars, taskVars,
       ConnectFails, ResumeCheck, AdmissionMayReturn
  <2>2. CASE ResumeClear
    BY <2>2 DEF ResumeClear, execVars, outsideVars, leaseVars, requestVars, taskVars
  <2>3. CASE SessionSeesCancel \/ Disconnect \/ BadFrame
    BY <2>3 DEF SessionSeesCancel, Cancel, execVars, outsideVars, leaseVars, requestVars,
       taskVars, Disconnect, BadFrame
  <2>4. CASE Reap
    BY <2>4 DEF Reap, cancelVars, outsideVars, leaseVars, taskVars
  <2>5. ASSUME NEW s \in Sequence, NEW g \in FrameGeneration, ReceiveExecute(s, g) PROVE RequestHistory'
    BY <2>5 DEF ReceiveExecute, AdmissionAllowed, cancelVars, execVars, outsideVars, leaseVars,
       requestVars, taskVars
  <2>6. ASSUME NEW s \in Sequence, NEW g \in FrameGeneration, DeliverCancel(s, g) PROVE RequestHistory'
    BY <2>6 DEF DeliverCancel, execVars, outsideVars, leaseVars, relayVars, taskVars
  <2>7. ASSUME NEW g \in FrameGeneration, RefuseExecute(g) \/ RefuseCancel(g) PROVE RequestHistory'
    BY <2>7 DEF RefuseExecute, AdmissionAllowed, Cancel, execVars, outsideVars, leaseVars,
       requestVars, taskVars, RefuseCancel
  <2>8. CASE ReserveSequence
    BY <2>8 DEF ReserveSequence, cancelVars, execVars, leaseVars, requestVars, taskVars
  <2>9. CASE ReserveFails \/ DecryptFails
    BY <2>9 DEF ReserveFails, Cancel, execVars, outsideVars, leaseVars, requestVars, taskVars,
       DecryptFails
  <2>10. CASE AnswerOnly
    BY <2>10 DEF AnswerOnly, cancelVars, outsideVars, leaseVars, requestVars, taskVars
  <2>11. CASE Admit
    BY <2>11 DEF Admit, cancelVars, outsideVars, leaseVars, taskVars
  <2>12. ASSUME NEW s \in Sequence, TakeResult(s) PROVE RequestHistory'
    BY <2>12 DEF TakeResult, Cancel, cancelVars, outsideVars, leaseVars, requestVars, taskVars
  <2>13. CASE SendResult
    BY <2>13 DEF SendResult, cancelVars, outsideVars, leaseVars, taskVars
  <2>14. CASE SendFails
    BY <2>14 DEF SendFails, Cancel, outsideVars, leaseVars, requestVars, taskVars
  <2>15. QED BY <1>2, <2>1, <2>2, <2>3, <2>4, <2>5, <2>6, <2>7, <2>8, <2>9, <2>10, <2>11, <2>12,
     <2>13, <2>14 DEF RelayStep
<1>3. ASSUME NEW s \in Sequence, ExecutionStep(s) PROVE RequestHistory'
  <2>1. CASE Begin(s) \/ PrepareFails(s)
    BY <2>1 DEF Begin, Conclude, Proceed, cancelVars, outsideVars, leaseVars, processUnchanged,
       relayVars, requestVars, taskVars, PrepareFails
  <2>2. CASE Spawn(s) \/ CheckSpawned(s)
    BY <2>2 DEF Spawn, Proceed, cancelVars, outsideVars, leaseVars, processUnchanged, relayVars,
       requestVars, taskVars, CheckSpawned, Terminate
  <2>3. CASE WriteScript(s) \/ WriteFails(s)
    BY <2>3 DEF WriteScript, Proceed, cancelVars, outsideVars, leaseVars, processUnchanged,
       relayVars, requestVars, taskVars, WriteFails, Terminate
  <2>4. CASE StartScript(s)
    BY <2>4 DEF StartScript, cancelVars, outsideVars, leaseVars, processUnchanged, relayVars,
       requestVars, taskVars
  <2>5. CASE ObserveExit(s) \/ ObserveCancel(s)
    BY <2>5 DEF ObserveExit, Proceed, cancelVars, outsideVars, leaseVars, processUnchanged,
       relayVars, requestVars, taskVars, ObserveCancel, Terminate
  <2>6. CASE DeadlinePasses(s) \/ OutputFails(s)
    BY <2>6 DEF DeadlinePasses, Terminate, cancelVars, outsideVars, leaseVars, processUnchanged,
       relayVars, requestVars, taskVars, OutputFails
  <2>7. CASE Reaped(s)
    BY <2>7 DEF Reaped, Conclude, cancelVars, outsideVars, leaseVars, processUnchanged, relayVars,
       requestVars, taskVars
  <2>8. CASE SettleOutcome(s) \/ Collect(s)
    BY <2>8 DEF SettleOutcome, Conclude, Proceed, cancelVars, outsideVars, leaseVars,
       processUnchanged, relayVars, requestVars, taskVars, Collect
  <2>9. CASE ScriptEnds(s) \/ RuntimeStalls(s) \/ HoldUp(s) \/ LetGo(s)
    BY <2>9 DEF ScriptEnds, RuntimeStalls, HoldUp, LetGo, execVars, fileVars, cancelVars,
       leaseVars, relayVars, requestVars, taskVars
  <2>10. QED BY <1>3, <2>1, <2>2, <2>3, <2>4, <2>5, <2>6, <2>7, <2>8, <2>9 DEF ExecutionStep
<1>4. CASE ObserverStep
  <2>1. CASE LeaseAges \/ RenewalSucceeds \/ RenewalFails
    BY <2>1 DEF LeaseAges, cancelVars, execVars, outsideVars, relayVars, requestVars, taskVars,
       RenewalSucceeds, RenewalFails, Cancel, Revoke
  <2>2. CASE RenewalRefused \/ PeerLost \/ AdmissionClosed
    BY <2>2 DEF RenewalRefused, Cancel, Revoke, execVars, outsideVars, relayVars, requestVars,
       PeerLost, AdmissionClosed
  <2>3. CASE ClearHandoff \/ StopReturns
    BY <2>3 DEF ClearHandoff, cancelVars, execVars, leaseVars, relayVars, requestVars,
       StopReturns, outsideVars
  <2>4. CASE PeerTaskEnded
    BY <2>4 DEF PeerTaskEnded, DropRelay, cancelVars, outsideVars, leaseVars, requestVars,
       taskVars
  <2>5. CASE MonitorFires \/ PauseBinding
    BY <2>5 DEF MonitorFires, Cancel, DropRelay, Revoke, outsideVars, requestVars, taskVars,
       PauseBinding, cancelVars, execVars, leaseVars
  <2>6. QED BY <1>4, <2>1, <2>2, <2>3, <2>4, <2>5 DEF ObserverStep
<1>5. CASE UNCHANGED vars
  BY <1>5 DEF vars, relayVars, leaseVars, taskVars, execVars, requestVars, outsideVars, cancelVars
<1>6. QED BY <1>1, <1>2, <1>3, <1>4, <1>5 DEF Next

\* Every step keeps a revoked lease idle when its flag was cleared: only Admit adds
\* work, and it follows a check of the lease and precedes no clearing of the flag.
LEMMA RevokedStep ==
    TypeOK /\ WorkInSession /\ RequestInHand /\ RevokedIdle /\ [Next]_vars => RevokedIdle'
<1> SUFFICES ASSUME TypeOK /\ WorkInSession /\ RequestInHand /\ RevokedIdle, [Next]_vars PROVE RevokedIdle'
  OBVIOUS
<1> USE DEF TypeOK, WorkInSession, RevokedIdle, RequestInHand, Guarded, Executing, RelayLoop,
   Up, Interruptible
<1>1. CASE ProcessStep
  <2>1. CASE ClaimGeneration \/ Activate
    BY <2>1 DEF ClaimGeneration, cancelVars, execVars, leaseVars, relayVars, requestVars,
       taskVars, Activate, outsideVars
  <2>2. CASE StartBridge
    BY <2>2 DEF StartBridge, execVars, outsideVars, requestVars
  <2>3. CASE ActivationFails
    BY <2>3 DEF ActivationFails, Cancel, Unsettled, execVars, outsideVars, leaseVars, requestVars,
       taskVars
  <2>4. CASE Crash \/ ExitProcess
    BY <2>4 DEF Crash, ProcessGone, fileVars, outsideVars, ExitProcess
  <2>5. CASE Shutdown
    BY <2>5 DEF Shutdown, Cancel, DropRelay, Unsettled, outsideVars, leaseVars, requestVars,
       taskVars
  <2>6. QED BY <1>1, <2>1, <2>2, <2>3, <2>4, <2>5 DEF ProcessStep
<1>2. CASE RelayStep
  <2>1. CASE Connect \/ ConnectFails \/ ResumeCheck
    BY <2>1 DEF Connect, cancelVars, execVars, outsideVars, leaseVars, requestVars, taskVars,
       ConnectFails, ResumeCheck, AdmissionMayReturn
  <2>2. CASE ResumeClear
    BY <2>2 DEF ResumeClear, execVars, outsideVars, leaseVars, requestVars, taskVars
  <2>3. CASE SessionSeesCancel \/ Disconnect \/ BadFrame
    BY <2>3 DEF SessionSeesCancel, Cancel, Unsettled, execVars, outsideVars, leaseVars,
       requestVars, taskVars, Disconnect, BadFrame
  <2>4. CASE Reap
    BY <2>4 DEF Reap, cancelVars, outsideVars, leaseVars, taskVars
  <2>5. ASSUME NEW s \in Sequence, NEW g \in FrameGeneration, ReceiveExecute(s, g) PROVE RevokedIdle'
    BY <2>5 DEF ReceiveExecute, AdmissionAllowed, cancelVars, execVars, outsideVars, leaseVars,
       requestVars, taskVars
  <2>6. ASSUME NEW s \in Sequence, NEW g \in FrameGeneration, DeliverCancel(s, g) PROVE RevokedIdle'
    BY <2>6 DEF DeliverCancel, Unsettled, execVars, outsideVars, leaseVars, relayVars, taskVars
  <2>7. ASSUME NEW g \in FrameGeneration, RefuseExecute(g) \/ RefuseCancel(g) PROVE RevokedIdle'
    BY <2>7 DEF RefuseExecute, AdmissionAllowed, Cancel, Unsettled, execVars, outsideVars,
       leaseVars, requestVars, taskVars, RefuseCancel
  <2>8. CASE ReserveSequence
    BY <2>8 DEF ReserveSequence, cancelVars, execVars, leaseVars, requestVars, taskVars
  <2>9. CASE ReserveFails \/ DecryptFails
    BY <2>9 DEF ReserveFails, Cancel, Unsettled, execVars, outsideVars, leaseVars, requestVars,
       taskVars, DecryptFails
  <2>10. CASE AnswerOnly
    BY <2>10 DEF AnswerOnly, cancelVars, outsideVars, leaseVars, requestVars, taskVars
  <2>11. CASE Admit
    BY <2>11 DEF Admit, cancelVars, outsideVars, leaseVars, taskVars
  <2>12. ASSUME NEW s \in Sequence, TakeResult(s) PROVE RevokedIdle'
    BY <2>12 DEF TakeResult, Cancel, Unsettled, cancelVars, outsideVars, leaseVars, requestVars,
       taskVars
  <2>13. CASE SendResult
    BY <2>13 DEF SendResult, cancelVars, outsideVars, leaseVars, taskVars
  <2>14. CASE SendFails
    BY <2>14 DEF SendFails, Cancel, Unsettled, outsideVars, leaseVars, requestVars, taskVars
  <2>15. QED BY <1>2, <2>1, <2>2, <2>3, <2>4, <2>5, <2>6, <2>7, <2>8, <2>9, <2>10, <2>11, <2>12,
     <2>13, <2>14 DEF RelayStep
<1>3. ASSUME NEW s \in Sequence, ExecutionStep(s) PROVE RevokedIdle'
  <2>1. CASE Begin(s) \/ PrepareFails(s)
    BY <2>1 DEF Begin, Cancelled, Conclude, Proceed, cancelVars, outsideVars, leaseVars,
       processUnchanged, relayVars, requestVars, taskVars, PrepareFails
  <2>2. CASE Spawn(s) \/ CheckSpawned(s)
    BY <2>2 DEF Spawn, Proceed, cancelVars, outsideVars, leaseVars, processUnchanged, relayVars,
       requestVars, taskVars, CheckSpawned, Cancelled, Terminate
  <2>3. CASE WriteScript(s) \/ WriteFails(s)
    BY <2>3 DEF WriteScript, Proceed, cancelVars, outsideVars, leaseVars, processUnchanged,
       relayVars, requestVars, taskVars, WriteFails, Terminate
  <2>4. CASE StartScript(s)
    BY <2>4 DEF StartScript, cancelVars, outsideVars, leaseVars, processUnchanged, relayVars,
       requestVars, taskVars
  <2>5. CASE ObserveExit(s) \/ ObserveCancel(s)
    BY <2>5 DEF ObserveExit, Proceed, cancelVars, outsideVars, leaseVars, processUnchanged,
       relayVars, requestVars, taskVars, ObserveCancel, Cancelled, Terminate
  <2>6. CASE DeadlinePasses(s) \/ OutputFails(s)
    BY <2>6 DEF DeadlinePasses, Terminate, cancelVars, outsideVars, leaseVars, processUnchanged,
       relayVars, requestVars, taskVars, OutputFails
  <2>7. CASE Reaped(s)
    BY <2>7 DEF Reaped, Conclude, cancelVars, outsideVars, leaseVars, processUnchanged, relayVars,
       requestVars, taskVars
  <2>8. CASE SettleOutcome(s) \/ Collect(s)
    BY <2>8 DEF SettleOutcome, Cancelled, Conclude, Proceed, cancelVars, outsideVars, leaseVars,
       processUnchanged, relayVars, requestVars, taskVars, Collect
  <2>9. CASE ScriptEnds(s) \/ RuntimeStalls(s) \/ HoldUp(s) \/ LetGo(s)
    BY <2>9 DEF ScriptEnds, RuntimeStalls, HoldUp, LetGo, execVars, fileVars, cancelVars,
       leaseVars, relayVars, requestVars, taskVars
  <2>10. QED BY <1>3, <2>1, <2>2, <2>3, <2>4, <2>5, <2>6, <2>7, <2>8, <2>9 DEF ExecutionStep
<1>4. CASE ObserverStep
  <2>1. CASE LeaseAges \/ RenewalSucceeds \/ RenewalFails
    BY <2>1 DEF LeaseAges, cancelVars, execVars, outsideVars, relayVars, requestVars, taskVars,
       RenewalSucceeds, RenewalFails, Cancel, Revoke, Unsettled
  <2>2. CASE RenewalRefused \/ PeerLost \/ AdmissionClosed
    BY <2>2 DEF RenewalRefused, Cancel, Revoke, Unsettled, execVars, outsideVars, relayVars,
       requestVars, PeerLost, AdmissionClosed
  <2>3. CASE ClearHandoff \/ StopReturns
    BY <2>3 DEF ClearHandoff, cancelVars, execVars, leaseVars, relayVars, requestVars,
       StopReturns, outsideVars
  <2>4. CASE PeerTaskEnded
    BY <2>4 DEF PeerTaskEnded, DropRelay, cancelVars, outsideVars, leaseVars, requestVars,
       taskVars
  <2>5. CASE MonitorFires \/ PauseBinding
    BY <2>5 DEF MonitorFires, Cancel, DropRelay, Revoke, Unsettled, outsideVars, requestVars,
       taskVars, PauseBinding, cancelVars, execVars, leaseVars
  <2>6. QED BY <1>4, <2>1, <2>2, <2>3, <2>4, <2>5 DEF ObserverStep
<1>5. CASE UNCHANGED vars
  BY <1>5 DEF vars, relayVars, leaseVars, taskVars, execVars, requestVars, outsideVars, cancelVars
<1>6. QED BY <1>1, <1>2, <1>3, <1>4, <1>5 DEF Next

\* The initial state satisfies the inductive invariant.
LEMMA InitIInv == Init => IInv
<1> SUFFICES ASSUME Init PROVE IInv
  OBVIOUS
<1> USE DEF Init
<1>1. TypeOK
  <2>1. 0 \in 0..MaxGeneration /\ 0 \in 0..MaxSequence
    BY BridgeAssumption
  <2>2. /\ exec \in [Sequence -> Executing \cup {"none", "finished", "sent", "lost"}]
        /\ status \in [Sequence -> {"none", "refused", "stopped", "failed", "completed"}]
        /\ script \in [Sequence -> {"none", "sent", "live", "dead"}]
        /\ starts \in [Sequence -> Nat]
        /\ held \in [Sequence -> {"no", "runtime", "output"}]
    OBVIOUS
  <2>3. QED
    BY <2>1, <2>2 DEF TypeOK
<1>2. WorkInSession
  BY DEF WorkInSession, Guarded, Executing
<1>3. RequestInHand
  BY DEF RequestInHand
<1>4. RequestHistory
  BY DEF RequestHistory, NotYetWritten, Executing
<1>5. RevokedIdle
  BY DEF RevokedIdle
<1>6. QED
  BY <1>1, <1>2, <1>3, <1>4, <1>5 DEF IInv

\* The inductive invariant is an invariant of the Bridge, its crashes and restarts.
THEOREM Inductive == Spec => []IInv
<1>1. IInv /\ [Next]_vars => IInv'
  BY TypeStep, SessionStep, HandStep, HistoryStep, RevokedStep DEF IInv
<1>2. QED
  BY InitIInv, <1>1, PTL DEF Spec

\* Type correctness of the Bridge process, for every number of requests.
THEOREM TypeCorrect == Spec => []TypeOK
<1>1. IInv => TypeOK
  BY DEF IInv
<1>2. QED
  BY Inductive, <1>1, PTL

\* No crash, restart or replayed frame makes a script start twice: the ledger of
\* reserve_remote_sequence is ahead of every request that was ever let in.
THEOREM NoSecondStart == Spec => []StartedOnce
<1>1. IInv => StartedOnce
  BY DEF IInv, RequestHistory, StartedOnce
<1>2. QED
  BY Inductive, <1>1, PTL

\* A request cancelled before its outcome was settled is never reported complete
\* (the second look of run_process at its channels).
THEOREM RevocationIsFinal == Spec => []RevocationWins
<1>1. IInv => RevocationWins
  BY DEF IInv, TypeOK, RequestHistory, RevocationWins
<1>2. QED
  BY Inductive, <1>1, PTL

\* cancel_and_reap leaves nothing for resume_after_reconnect to un-cancel.
THEOREM SessionsAreSeparate == Spec => []NoWorkBetweenSessions
<1>1. IInv => NoWorkBetweenSessions
  BY DEF IInv, WorkInSession, NoWorkBetweenSessions
<1>2. QED
  BY Inductive, <1>1, PTL

\* A revocation overtaken by a reconnect admits nothing (prepare_remote_execution).
THEOREM RevokedLeaseIsIdle == Spec => []LostRevocationIsHarmless
<1>1. IInv => LostRevocationIsHarmless
  BY DEF IInv, RevokedIdle, LostRevocationIsHarmless
<1>2. QED
  BY Inductive, <1>1, PTL

-----------------------------------------------------------------------------
(* The order of requests.                                                    *)

\* What a step that leaves requests, scripts and ledger alone means to a request.
LEMMA OrderUnchanged ==
    ASSUME UNCHANGED <<highest, exec, script>>, (relay = "admitting") = (relay' = "admitting")
    PROVE  UNCHANGED Order!vars
BY DEF Order!vars, Phases

\* One request moves from one phase to another.
LEMMA OrderMoves ==
    ASSUME TypeOK, NEW s \in Sequence, NEW e, exec' = [exec EXCEPT ![s] = e]
    PROVE  Phases' = [Phases EXCEPT ![s] = PhaseOf[e]]
BY DEF TypeOK, Phases

\* The requests of the scheduler are those at work.
LEMMA WorkingIsGuarded == TypeOK => Order!Working = Guarded
BY DEF TypeOK, Order!Working, Order!AtWork, Guarded, Executing, Phases, PhaseOf

\* A session that is left, or its relay future dropped, loses finished outcomes.
LEMMA OutcomesDropped ==
    ASSUME TypeOK, UNCHANGED <<highest, script>>, relay # "admitting", relay' # "admitting",
           NEW D \in SUBSET {s \in Sequence : exec[s] = "finished"},
           exec' = [s \in Sequence |-> IF s \in D THEN "lost" ELSE exec[s]]
    PROVE  Order!Drop
<1>1. D \in SUBSET {s \in Sequence : Phases[s] = "finished"}
  BY DEF Phases, PhaseOf
<1>2. Phases' = [s \in Sequence |-> IF s \in D THEN "gone" ELSE Phases[s]]
  BY DEF Phases, PhaseOf
<1>3. QED
  BY <1>1, <1>2 DEF Order!Drop

\* A step of the process or of an observer drops outcomes, or everything, or nothing.
LEMMA ProcessOrdered == TypeOK /\ (ProcessStep \/ ObserverStep) => [Order!Next]_Order!vars
<1> SUFFICES ASSUME TypeOK, ProcessStep \/ ObserverStep PROVE [Order!Next]_Order!vars
  OBVIOUS
<1>1. CASE Crash \/ ExitProcess
  <2>1. ProcessGone
    BY <1>1 DEF Crash, ExitProcess
  <2>2. Phases' = [s \in Sequence |->
                     IF Phases[s] \in Order!AtWork \cup {"finished"} THEN "gone" ELSE Phases[s]]
    BY <2>1 DEF ProcessGone, TypeOK, Executing, Phases, PhaseOf, Order!AtWork
  <2>3. Order!ProcessGone
    BY <2>1, <2>2 DEF ProcessGone, fileVars, outsideVars, Order!ProcessGone
  <2>4. QED
    BY <2>3 DEF Order!Next
<1>2. CASE Shutdown \/ PeerTaskEnded \/ MonitorFires
  <2>1. /\ DropRelay /\ relay \in Interruptible \cup {"activating"}
        /\ relay' \in {"stopping", "pausing"}
        /\ UNCHANGED <<highest, script>>
    BY <1>2 DEF Shutdown, PeerTaskEnded, MonitorFires, outsideVars
  <2>2. exec' = [s \in Sequence |->
                   IF s \in {t \in Sequence : exec[t] = "finished"} THEN "lost" ELSE exec[s]]
    BY <2>1 DEF DropRelay
  <2>3. Order!Drop
    BY <2>1, <2>2, OutcomesDropped DEF Interruptible
  <2>4. QED
    BY <2>3 DEF Order!Next
<1>3. CASE ClaimGeneration \/ StartBridge \/ Activate \/ ActivationFails
  BY <1>3, OrderUnchanged DEF ClaimGeneration, StartBridge, Activate, ActivationFails, Cancel,
     relayVars, execVars, outsideVars
<1>4. CASE LeaseAges \/ RenewalSucceeds \/ RenewalFails \/ RenewalRefused
  BY <1>4, OrderUnchanged DEF LeaseAges, RenewalSucceeds, RenewalFails, RenewalRefused,
     relayVars, execVars, outsideVars
<1>5. CASE PeerLost \/ ClearHandoff \/ StopReturns \/ AdmissionClosed \/ PauseBinding
  BY <1>5, OrderUnchanged DEF PeerLost, ClearHandoff, StopReturns, AdmissionClosed, PauseBinding,
     relayVars, execVars, outsideVars
<1>6. QED
  BY <1>1, <1>2, <1>3, <1>4, <1>5 DEF ProcessStep, ObserverStep

\* A step of the session takes the next request up or refuses it, answers one, or
\* drops outcomes.
LEMMA SessionOrdered == TypeOK /\ RequestInHand /\ RelayStep => [Order!Next]_Order!vars
<1> SUFFICES ASSUME TypeOK, RequestInHand, RelayStep PROVE [Order!Next]_Order!vars
  OBVIOUS
<1>1. CASE Connect \/ ConnectFails \/ ResumeCheck \/ ResumeClear
  BY <1>1, OrderUnchanged DEF Connect, ConnectFails, ResumeCheck, ResumeClear, execVars,
     outsideVars
<1>2. CASE SessionSeesCancel \/ Disconnect \/ BadFrame \/ ReserveFails
  BY <1>2, OrderUnchanged DEF SessionSeesCancel, Disconnect, BadFrame, ReserveFails, execVars,
     outsideVars
<1>3. CASE Reap
  <2>1. exec' = [s \in Sequence |->
                   IF s \in {t \in Sequence : exec[t] = "finished"} THEN "lost" ELSE exec[s]]
    BY <1>3 DEF Reap
  <2>2. relay # "admitting" /\ relay' # "admitting" /\ UNCHANGED <<highest, script>>
    BY <1>3 DEF Reap, outsideVars
  <2>3. Order!Drop
    BY <2>1, <2>2, OutcomesDropped
  <2>4. QED
    BY <2>3 DEF Order!Next
<1>4. ASSUME NEW s \in Sequence, NEW g \in FrameGeneration, ReceiveExecute(s, g) \/ DeliverCancel(s, g)
      PROVE  [Order!Next]_Order!vars
  BY <1>4, OrderUnchanged DEF ReceiveExecute, DeliverCancel, relayVars, execVars, outsideVars
<1>5. ASSUME NEW g \in FrameGeneration, RefuseExecute(g) \/ RefuseCancel(g)
      PROVE  [Order!Next]_Order!vars
  BY <1>5, OrderUnchanged DEF RefuseExecute, RefuseCancel, execVars, outsideVars
<1>6. CASE ReserveSequence
  <2>1. current \in Sequence
    BY <1>6 DEF ReserveSequence, RequestInHand
  <2>2. Order!Reserve(current)
    BY <1>6 DEF ReserveSequence, execVars, Order!Reserve, Phases
  <2>3. QED
    BY <2>1, <2>2 DEF Order!Next, Order!RequestStep
<1>7. CASE DecryptFails
  <2>1. Order!Decline
    BY <1>7 DEF DecryptFails, execVars, outsideVars, Order!Decline, Phases
  <2>2. QED
    BY <2>1 DEF Order!Next
<1>8. CASE AnswerOnly \/ Admit
  <2>1. /\ highest \in Sequence /\ exec[highest] = "none" /\ current = highest
        /\ relay = "admitting" /\ relay' # "admitting" /\ UNCHANGED <<highest, script>>
    BY <1>8 DEF AnswerOnly, Admit, RequestInHand, outsideVars
  <2>2. Phases[highest] = "before"
    BY <2>1 DEF Phases, PhaseOf
  <2>3. CASE exec' = [exec EXCEPT ![current] = "finished"]
    <3>1. Phases' = [Phases EXCEPT ![highest] = "finished"]
      <4>1. Phases' = [Phases EXCEPT ![highest] = PhaseOf["finished"]]
        BY <2>1, <2>3, OrderMoves
      <4>2. QED
        BY <4>1 DEF PhaseOf
    <3>2. Order!Refuse
      BY <2>1, <2>2, <3>1 DEF Order!Refuse, Order!Open
    <3>3. QED
      BY <3>2 DEF Order!Next
  <2>4. CASE Guarded = {} /\ exec' = [exec EXCEPT ![current] = "admitted"]
    <3>1. Phases' = [Phases EXCEPT ![highest] = "held"]
      <4>1. Phases' = [Phases EXCEPT ![highest] = PhaseOf["admitted"]]
        BY <2>1, <2>4, OrderMoves
      <4>2. QED
        BY <4>1 DEF PhaseOf
    <3>2. Order!TakeUp
      BY <2>1, <2>2, <2>4, <3>1, WorkingIsGuarded DEF Order!TakeUp, Order!Open
    <3>3. QED
      BY <3>2 DEF Order!Next
  <2>5. QED
    BY <1>8, <2>3, <2>4 DEF AnswerOnly, Admit
<1>9. ASSUME NEW s \in Sequence, TakeResult(s) PROVE [Order!Next]_Order!vars
  <2>1. relay # "admitting" /\ relay' # "admitting" /\ UNCHANGED <<highest, script>>
    BY <1>9 DEF TakeResult, outsideVars
  <2>2. CASE cancelled
    <3>1. {s} \in SUBSET {t \in Sequence : exec[t] = "finished"}
      BY <1>9 DEF TakeResult
    <3>2. exec' = [t \in Sequence |-> IF t \in {s} THEN "lost" ELSE exec[t]]
      BY <1>9, <2>2 DEF TakeResult, TypeOK
    <3>3. Order!Drop
      BY <2>1, <3>1, <3>2, OutcomesDropped
    <3>4. QED
      BY <3>3 DEF Order!Next
  <2>3. CASE ~cancelled
    BY <1>9, <2>1, <2>3, OrderUnchanged DEF TakeResult
  <2>4. QED
    BY <2>2, <2>3
<1>10. CASE SendResult
  <2>1. /\ current \in Sequence /\ exec[current] = "finished"
        /\ exec' = [exec EXCEPT ![current] = "sent"]
        /\ relay # "admitting" /\ relay' # "admitting" /\ UNCHANGED <<highest, script>>
    BY <1>10 DEF SendResult, RequestInHand, outsideVars
  <2>2. Phases[current] = "finished" /\ Phases' = [Phases EXCEPT ![current] = "answered"]
    <3>1. Phases' = [Phases EXCEPT ![current] = PhaseOf["sent"]]
      BY <2>1, OrderMoves
    <3>2. Phases[current] = PhaseOf["finished"]
      BY <2>1 DEF Phases
    <3>3. QED
      BY <3>1, <3>2 DEF PhaseOf
  <2>3. Order!Answer(current)
    BY <2>1, <2>2 DEF Order!Answer, Order!Move
  <2>4. QED
    BY <2>1, <2>3 DEF Order!Next, Order!RequestStep
<1>11. CASE SendFails
  <2>1. /\ current \in Sequence /\ exec[current] = "finished"
        /\ exec' = [exec EXCEPT ![current] = "lost"]
        /\ relay # "admitting" /\ relay' # "admitting" /\ UNCHANGED <<highest, script>>
    BY <1>11 DEF SendFails, RequestInHand, outsideVars
  <2>2. exec' = [t \in Sequence |-> IF t \in {current} THEN "lost" ELSE exec[t]]
    BY <2>1 DEF TypeOK
  <2>3. Order!Drop
    BY <2>1, <2>2, OutcomesDropped
  <2>4. QED
    BY <2>3 DEF Order!Next
<1>12. QED
  BY <1>1, <1>2, <1>3, <1>4, <1>5, <1>6, <1>7, <1>8, <1>9, <1>10, <1>11 DEF RelayStep

\* A request moves, and only it.
LEMMA RequestMoves ==
    ASSUME TypeOK, NEW s \in Sequence, NEW e, NEW from, Phases[s] \in from,
           exec' = [exec EXCEPT ![s] = e], UNCHANGED <<relay, highest>>
    PROVE  Order!Move(s, from, PhaseOf[e])
BY OrderMoves DEF Order!Move

\* A request goes on inside its phase.
LEMMA RequestStays ==
    ASSUME TypeOK, NEW s \in Sequence, NEW e, PhaseOf[e] = PhaseOf[exec[s]],
           exec' = [exec EXCEPT ![s] = e], UNCHANGED <<relay, highest, script>>
    PROVE  UNCHANGED Order!vars
<1>1. Phases' = [Phases EXCEPT ![s] = Phases[s]]
  BY OrderMoves DEF Phases
<1>2. Phases' = Phases
  BY <1>1 DEF Phases
<1>3. QED
  BY <1>2 DEF Order!vars

\* run_process drops its guard with an outcome, when nothing of its script is left.
LEMMA RequestConcludes ==
    ASSUME TypeOK, NEW s \in Sequence, NEW result, Conclude(s, result),
           exec[s] \in {"admitted", "preparing", "terminating", "exited", "collecting"},
           script[s] \in {"none", "dead"}, UNCHANGED <<relay, highest, script>>
    PROVE  Order!Conclude(s)
<1>1. Phases[s] \in {"held", "ending", "settling"}
  BY DEF Phases, PhaseOf
<1>2. PICK e \in {"finished", "lost"} : exec' = [exec EXCEPT ![s] = e]
  BY DEF Conclude
<1>3. Order!Move(s, {"held", "ending", "settling"}, PhaseOf[e])
  BY <1>1, <1>2, RequestMoves
<1>4. PhaseOf[e] \in {"finished", "gone"}
  BY DEF PhaseOf
<1>5. QED
  BY <1>3, <1>4 DEF Order!Conclude, Order!Ended

\* run_process closes the control pipe with the outcome decided.
LEMMA RequestStops ==
    ASSUME TypeOK, NEW s \in Sequence, NEW result, Terminate(s, result),
           exec[s] \in {"spawned", "writing", "running"}, UNCHANGED <<relay, highest, script>>
    PROVE  Order!Stop(s)
<1>1. Phases[s] \in {"held", "waiting"}
  BY DEF Phases, PhaseOf
<1>2. Order!Move(s, {"held", "waiting"}, PhaseOf["terminating"])
  BY <1>1, RequestMoves DEF Terminate
<1>3. QED
  BY <1>2 DEF PhaseOf, Order!Stop

\* A step of run_process or of the supervisor it started is one in the life of the
\* script, or none.
LEMMA ExecutionOrdered ==
    ASSUME TypeOK, RequestHistory, NEW s \in Sequence, ExecutionStep(s)
    PROVE  [Order!Next]_Order!vars
<1>0. UNCHANGED <<relay, highest>>
  BY DEF ExecutionStep, Begin, PrepareFails, Spawn, CheckSpawned, WriteScript, WriteFails,
     StartScript, ScriptEnds, RuntimeStalls, HoldUp, LetGo, ObserveExit, ObserveCancel,
     DeadlinePasses, OutputFails, Reaped, SettleOutcome, Collect, processUnchanged, relayVars,
     fileVars, outsideVars
<1>1. SUFFICES ASSUME ~UNCHANGED Order!vars PROVE Order!RequestStep(s)
  BY DEF Order!Next
<1>2. CASE Begin(s) \/ PrepareFails(s)
  <2>1. exec[s] \in {"admitted", "preparing"} /\ script[s] = "none" /\ UNCHANGED script
    BY <1>2 DEF Begin, PrepareFails, RequestHistory, NotYetWritten
  <2>2. CASE exec[s] = "admitted" /\ Proceed(s, "preparing")
    <3>1. PhaseOf["preparing"] = PhaseOf[exec[s]]
      BY <2>2 DEF PhaseOf
    <3>2. QED
      BY <1>0, <1>1, <2>1, <2>2, <3>1, RequestStays DEF Proceed
  <2>3. CASE Conclude(s, "stopped") \/ Conclude(s, "failed")
    BY <1>0, <2>1, <2>3, RequestConcludes DEF Order!RequestStep
  <2>4. QED
    BY <1>2, <2>2, <2>3 DEF Begin, PrepareFails
<1>3. CASE Spawn(s)
  <2>1. PhaseOf["spawned"] = PhaseOf[exec[s]]
    BY <1>3 DEF Spawn, PhaseOf
  <2>2. QED
    BY <1>0, <1>1, <1>3, <2>1, RequestStays DEF Spawn, Proceed
<1>4. CASE CheckSpawned(s)
  <2>1. exec[s] = "spawned" /\ UNCHANGED script
    BY <1>4 DEF CheckSpawned
  <2>2. CASE Proceed(s, "writing")
    <3>1. PhaseOf["writing"] = PhaseOf[exec[s]]
      BY <2>1 DEF PhaseOf
    <3>2. QED
      BY <1>0, <1>1, <2>1, <2>2, <3>1, RequestStays DEF Proceed
  <2>3. CASE Terminate(s, "stopped")
    BY <1>0, <2>1, <2>3, RequestStops DEF Order!RequestStep
  <2>4. QED
    BY <1>4, <2>2, <2>3 DEF CheckSpawned
<1>5. CASE WriteScript(s)
  <2>1. Phases[s] \in {"held"}
    BY <1>5 DEF WriteScript, Phases, PhaseOf
  <2>2. Order!Move(s, {"held"}, PhaseOf["running"])
    BY <1>0, <1>5, <2>1, RequestMoves DEF WriteScript, Proceed
  <2>3. Order!HandOver(s)
    BY <1>5, <2>2 DEF WriteScript, PhaseOf, Order!HandOver
  <2>4. QED
    BY <2>3 DEF Order!RequestStep
<1>6. CASE WriteFails(s) \/ ObserveCancel(s) \/ DeadlinePasses(s) \/ OutputFails(s)
  <2>1. exec[s] \in {"writing", "running"} /\ UNCHANGED script
        /\ (Terminate(s, "failed") \/ Terminate(s, "stopped"))
    BY <1>6 DEF WriteFails, ObserveCancel, DeadlinePasses, OutputFails
  <2>2. QED
    BY <1>0, <2>1, RequestStops DEF Order!RequestStep
<1>7. CASE StartScript(s) \/ ScriptEnds(s)
  <2>1. UNCHANGED exec
    BY <1>7 DEF StartScript, ScriptEnds
  <2>2. UNCHANGED <<Phases, highest, relay>>
    BY <1>0, <2>1 DEF Phases
  <2>3. Order!StartScript(s) \/ Order!EndScript(s)
    BY <1>7, <2>2 DEF StartScript, ScriptEnds, Order!StartScript, Order!EndScript,
       Order!ScriptChanges
  <2>4. QED
    BY <2>3 DEF Order!RequestStep
<1>8. CASE ObserveExit(s)
  <2>1. Phases[s] \in {"waiting"}
    BY <1>8 DEF ObserveExit, Phases, PhaseOf
  <2>2. Order!Move(s, {"waiting"}, PhaseOf["exited"])
    BY <1>0, <1>8, <2>1, RequestMoves DEF ObserveExit, Proceed
  <2>3. Order!SeeEnd(s)
    BY <1>8, <2>2 DEF ObserveExit, PhaseOf, Order!SeeEnd
  <2>4. QED
    BY <2>3 DEF Order!RequestStep
<1>9. CASE Reaped(s)
  <2>1. Order!Conclude(s)
    BY <1>0, <1>9, RequestConcludes DEF Reaped
  <2>2. QED
    BY <2>1 DEF Order!RequestStep
<1>10. CASE SettleOutcome(s) \/ Collect(s)
  <2>1. exec[s] \in {"exited", "collecting"} /\ script[s] = "dead" /\ UNCHANGED script
    BY <1>10 DEF SettleOutcome, Collect, RequestHistory
  <2>2. CASE exec[s] = "exited" /\ Proceed(s, "collecting")
    <3>1. PhaseOf["collecting"] = PhaseOf[exec[s]]
      BY <2>2 DEF PhaseOf
    <3>2. QED
      BY <1>0, <1>1, <2>1, <2>2, <3>1, RequestStays DEF Proceed
  <2>3. CASE Conclude(s, "stopped") \/ Conclude(s, "failed") \/ Conclude(s, "completed")
    BY <1>0, <2>1, <2>3, RequestConcludes DEF Order!RequestStep
  <2>4. QED
    BY <1>10, <2>2, <2>3 DEF SettleOutcome, Collect
<1>11. CASE RuntimeStalls(s) \/ HoldUp(s) \/ LetGo(s)
  BY <1>1, <1>11, OrderUnchanged DEF RuntimeStalls, HoldUp, LetGo, relayVars, execVars, fileVars
<1>12. QED
  BY <1>2, <1>3, <1>4, <1>5, <1>6, <1>7, <1>8, <1>9, <1>10, <1>11 DEF ExecutionStep

\* The Bridge process with its five tasks, its crashes and its restarts implements
\* the order of requests.
THEOREM RequestsInOrder == Spec => ImplementsRequestOrder
<1>1. Init => Order!Init
  <2> SUFFICES ASSUME Init PROVE Order!Init
    OBVIOUS
  <2>1. Phases = [s \in Sequence |-> "before"]
    BY DEF Init, Phases, PhaseOf
  <2>2. QED
    BY <2>1 DEF Init, Order!Init
<1>2. IInv /\ [Next]_vars => [Order!Next]_Order!vars
  <2> SUFFICES ASSUME IInv, [Next]_vars PROVE [Order!Next]_Order!vars
    OBVIOUS
  <2>1. CASE UNCHANGED vars
    BY <2>1, OrderUnchanged DEF vars, relayVars, execVars, outsideVars
  <2>2. QED
    BY <2>1, ProcessOrdered, SessionOrdered, ExecutionOrdered DEF IInv, Next
<1>3. QED
  BY <1>1, <1>2, Inductive, PTL DEF Spec, ImplementsRequestOrder, Order!Spec

-----------------------------------------------------------------------------
(* What the order of requests says of the Bridge.                            *)

Served == INSTANCE RequestOrderProofs
    WITH last <- highest, open <- relay = "admitting", phase <- Phases

LEMMA SequenceIsNumbered == Served!Numbered
BY BridgeAssumption DEF Served!Numbered, Sequence

\* The order that the Bridge implements is the one whose theorems are cited.
LEMMA RequestsServed == Spec => Served!Spec
<1>1. Order!Init => Served!Init
  BY DEF Order!Init, Served!Init
<1>2. [Order!Next]_Order!vars => [Served!Next]_Served!vars
  BY DEF Order!Next, Order!RequestStep, Order!Decline, Order!Refuse, Order!TakeUp, Order!Open,
       Order!Working, Order!AtWork, Order!Reserve, Order!HandOver, Order!Stop,
       Order!SeeEnd, Order!Conclude, Order!StartScript, Order!EndScript,
       Order!ScriptChanges, Order!Move, Order!Ended, Order!Answer, Order!Drop,
       Order!ProcessGone, Order!vars, Served!Next, Served!RequestStep, Served!Decline,
       Served!Refuse, Served!TakeUp, Served!Open, Served!Working, Served!AtWork,
       Served!Reserve, Served!HandOver, Served!Stop, Served!SeeEnd, Served!Conclude,
       Served!StartScript, Served!EndScript, Served!ScriptChanges, Served!Move,
       Served!Ended, Served!Answer, Served!Drop, Served!ProcessGone, Served!vars
<1>3. QED
  BY <1>1, <1>2, RequestsInOrder, PTL DEF Served!Spec, ImplementsRequestOrder, Order!Spec

\* One request at a time holds the scheduler, from its admission to its outcome.
OneExecution == \A s, t \in Guarded : s = t

\* No two requests are ever executed at once, although Admit looks at the scheduler
\* alone (prepare_remote_execution, try_acquire).
THEOREM OneExecutionAtATime == Spec => []OneExecution
<1>1. Spec => []Served!OneAtATime
  BY RequestsServed, SequenceIsNumbered, Served!ServesOneAtATime
<1>2. TypeOK /\ Served!OneAtATime => OneExecution
  BY WorkingIsGuarded DEF Served!OneAtATime, Served!Working, Served!AtWork, Order!Working,
     Order!AtWork, OneExecution
<1>3. QED
  BY <1>1, <1>2, TypeCorrect, PTL

\* An outcome reported, or about to be, leaves nothing of its script.
AnsweredAfterScript ==
    \A s \in Sequence : exec[s] \in {"finished", "sent"} => script[s] \in {"none", "dead"}

\* The Node learns the outcome of a request only when its script has ended, whatever
\* ended it (run_process, terminate_execution).
THEOREM AnswersWaitForScripts == Spec => []AnsweredAfterScript
<1>1. Spec => []Served!AnsweredAfterScript
  BY RequestsServed, SequenceIsNumbered, Served!AnswersFollowScripts
<1>2. Served!AnsweredAfterScript => AnsweredAfterScript
  BY DEF Served!AnsweredAfterScript, Served!Ended, AnsweredAfterScript, Phases, PhaseOf
<1>3. QED
  BY <1>1, <1>2, PTL

\* Over every restart of the Bridge, a script never follows one with a larger number
\* out of the control pipe (reserve_remote_sequence, run_process).
THEOREM ScriptsLeaveInOrder == Spec => ScriptsInOrder
<1> DEFINE Later == \A s, t \in Sequence :
               script[s] = "none" /\ script'[s] # "none" /\ script[t] # "none" => t < s
<1>1. Spec => [][Later]_Served!vars
  BY RequestsServed, SequenceIsNumbered, Served!ScriptsInOrder DEF Served!InOrder
<1>2. [Later]_Served!vars => [Later]_vars
  BY DEF Served!vars
<1>3. QED
  BY <1>1, <1>2, PTL DEF ScriptsInOrder

\* A request is admitted only under a lease that was not revoked and a clear flag.
AdmittedUnrevoked ==
    [][\A s \in Sequence :
          exec[s] = "none" /\ exec'[s] = "admitted" => ~revoked /\ ~cancelled]_vars

\* No revocation, also not one that a reconnect overtakes, is followed by an
\* admission: the lease was looked at before, the flag is looked at last, and no
\* reconnect clears it in between (prepare_remote_execution, resume_after_reconnect).
THEOREM RevocationStopsAdmission == Spec => AdmittedUnrevoked
<1> DEFINE Unrevoked == \A s \in Sequence :
               exec[s] = "none" /\ exec'[s] = "admitted" => ~revoked /\ ~cancelled
<1>1. IInv /\ [Next]_vars => [Unrevoked]_vars
  <2> SUFFICES ASSUME IInv, [Next]_vars, NEW s \in Sequence,
                      exec[s] = "none", exec'[s] = "admitted"
               PROVE  ~revoked /\ ~cancelled
    OBVIOUS
  <2>1. exec' # exec
    OBVIOUS
  <2>2. CASE RelayStep
    <3>1. CASE Admit
      <4>1. ~cancelled /\ relay = "admitting"
        BY <3>1 DEF Admit, IInv, TypeOK
      <4>2. QED
        BY <4>1 DEF IInv, RevokedIdle
    <3>2. CASE AnswerOnly \/ SendResult \/ SendFails \/ Reap
      BY <3>2 DEF AnswerOnly, SendResult, SendFails, Reap, IInv, TypeOK
    <3>3. ASSUME NEW t \in Sequence, TakeResult(t) PROVE FALSE
      BY <2>1, <3>3 DEF TakeResult, IInv, TypeOK
    <3>4. QED
      BY <2>1, <2>2, <3>1, <3>2, <3>3 DEF RelayStep, Connect, ConnectFails, ResumeCheck,
         ResumeClear, SessionSeesCancel, Disconnect, BadFrame, ReceiveExecute, DeliverCancel,
         RefuseExecute, RefuseCancel, ReserveSequence, ReserveFails, DecryptFails, execVars
  <2>3. ASSUME NEW t \in Sequence, ExecutionStep(t) PROVE FALSE
    BY <2>1, <2>3 DEF ExecutionStep, Begin, PrepareFails, Spawn, CheckSpawned, WriteScript,
       WriteFails, StartScript, ScriptEnds, RuntimeStalls, HoldUp, LetGo, ObserveExit,
       ObserveCancel, DeadlinePasses, OutputFails, Reaped, SettleOutcome, Collect, Conclude,
       Proceed, Terminate, execVars, IInv, TypeOK
  <2>4. CASE ProcessStep
    BY <2>1, <2>4 DEF ProcessStep, ClaimGeneration, StartBridge, Activate, ActivationFails, Crash,
       ExitProcess, ProcessGone, Shutdown, DropRelay, execVars
  <2>5. CASE ObserverStep
    BY <2>1, <2>5 DEF ObserverStep, LeaseAges, RenewalSucceeds, RenewalFails, RenewalRefused,
       PeerLost, ClearHandoff, StopReturns, AdmissionClosed, PeerTaskEnded, MonitorFires,
       PauseBinding, DropRelay, execVars
  <2>6. CASE UNCHANGED vars
    BY <2>1, <2>6 DEF vars, execVars
  <2>7. QED
    BY <2>2, <2>3, <2>4, <2>5, <2>6 DEF Next
<1>2. QED
  BY <1>1, Inductive, PTL DEF Spec, AdmittedUnrevoked

-----------------------------------------------------------------------------
(* The lease and its session: refinement of LeasedSession.                   *)

\* Outcomes nobody will send are no work.
LEMMA WorkKept ==
    ASSUME TypeOK,
           exec' = [s \in Sequence |-> IF exec[s] = "finished" THEN "lost" ELSE exec[s]]
    PROVE  Guarded' = Guarded
BY DEF TypeOK, Guarded, Executing

\* A request out of the scheduler's hands stays out, whatever is done with its answer.
LEMMA AnswerIsNoWork ==
    ASSUME TypeOK, NEW s \in Sequence, exec[s] \notin Executing, NEW to, to \notin Executing,
           exec' = [exec EXCEPT ![s] = to]
    PROVE  Guarded' = Guarded
BY DEF TypeOK, Guarded

\* Any of the tasks that revoke sets the lease and the flag, and no more.
LEMMA RevokeIsRevoked ==
    ASSUME Revoke, lease' = lease, SessionPhase' = SessionPhase, Guarded' = Guarded
    PROVE  Leased!Revoked
BY DEF Revoke, Cancel, Leased!Revoked, Leased!NotBetter

\* The steps of the process and of the observers.
LEMMA ProcessLeased == IInv /\ (ProcessStep \/ ObserverStep) => [Leased!Next]_Leased!vars
<1> SUFFICES ASSUME IInv, ProcessStep \/ ObserverStep PROVE [Leased!Next]_Leased!vars
  OBVIOUS
<1> USE DEF Leased!Next
<1>0. TypeOK
  BY DEF IInv
<1>1. CASE ClaimGeneration \/ ClearHandoff \/ StopReturns \/ PauseBinding
  BY <1>1 DEF ClaimGeneration, ClearHandoff, StopReturns, PauseBinding, relayVars, leaseVars,
     execVars, cancelVars, SessionPhase, Guarded, Leased!vars
<1>2. CASE StartBridge
  <2>1. Guarded' = {}
    BY <1>2 DEF StartBridge, execVars, Guarded, IInv, WorkInSession
  <2>2. Leased!Starts
    BY <1>2, <2>1 DEF StartBridge, SessionPhase, Leased!Starts, Leased!Fresh
  <2>3. QED
    BY <2>2
<1>3. CASE Activate
  <2>1. Leased!Activated
    BY <1>3 DEF Activate, execVars, cancelVars, SessionPhase, Guarded, Leased!Activated,
       Leased!Extended
  <2>2. QED
    BY <2>1
<1>4. CASE ActivationFails
  <2>1. Leased!Closes
    BY <1>4 DEF ActivationFails, Cancel, leaseVars, execVars, SessionPhase, Guarded, Leased!Closes
  <2>2. QED
    BY <2>1
<1>5. CASE Crash \/ ExitProcess
  <2>1. ProcessGone
    BY <1>5 DEF Crash, ExitProcess
  <2>2. Guarded' = {}
    BY <1>0, <2>1 DEF ProcessGone, Guarded, Executing, TypeOK
  <2>3. Leased!Gone
    BY <2>1, <2>2 DEF ProcessGone, SessionPhase, Leased!Gone, Leased!Fresh
  <2>4. QED
    BY <2>3
<1>6. CASE Shutdown \/ PeerTaskEnded \/ MonitorFires
  <2>1. /\ DropRelay /\ relay \in Interruptible \cup {"activating"}
        /\ relay' \in {"stopping", "pausing"} /\ lease' = lease
        /\ \/ Cancel /\ UNCHANGED revoked
           \/ UNCHANGED <<cancelled, revoked>>
           \/ Revoke
    BY <1>6 DEF Shutdown, PeerTaskEnded, MonitorFires, leaseVars, cancelVars
  <2>2. Guarded' = Guarded
    BY <1>0, <2>1, WorkKept DEF DropRelay
  <2>3. SessionPhase # "off" /\ SessionPhase' = "closed"
    BY <2>1 DEF SessionPhase, Interruptible, RelayLoop
  <2>4. Leased!Closes
    BY <2>1, <2>2, <2>3 DEF Cancel, Revoke, Leased!Closes
  <2>5. QED
    BY <2>4
<1>7. CASE LeaseAges \/ RenewalSucceeds \/ RenewalFails
  <2>1. SessionPhase' = SessionPhase /\ Guarded' = Guarded
    BY <1>7 DEF LeaseAges, RenewalSucceeds, RenewalFails, relayVars, execVars, SessionPhase,
       Guarded
  <2>2. CASE LeaseAges
    <3>1. Leased!Worsens
      BY <1>0, <2>1, <2>2 DEF LeaseAges, cancelVars, TypeOK, Leased!Worsens, Leased!NotBetter
    <3>2. QED
      BY <3>1
  <2>3. CASE RenewalSucceeds
    <3>1. Leased!Renewed
      BY <2>1, <2>3 DEF RenewalSucceeds, cancelVars, Leased!Renewed, Leased!Extended
    <3>2. QED
      BY <3>1
  <2>4. CASE RenewalFails
    <3>1. CASE UNCHANGED <<revoked, lease, cancelVars>>
      BY <2>1, <3>1 DEF cancelVars, Leased!vars
    <3>2. CASE lease = "good" /\ lease' = "low" /\ UNCHANGED <<revoked, cancelVars>>
      BY <2>1, <3>2 DEF cancelVars, Leased!Worsens, Leased!NotBetter
    <3>3. CASE Revoke /\ UNCHANGED lease
      BY <2>1, <3>3, RevokeIsRevoked
    <3>4. QED
      BY <2>4, <3>1, <3>2, <3>3 DEF RenewalFails
  <2>5. QED
    BY <1>7, <2>2, <2>3, <2>4
<1>8. CASE RenewalRefused \/ PeerLost \/ AdmissionClosed
  <2>1. Revoke /\ lease' = lease /\ SessionPhase' = SessionPhase /\ Guarded' = Guarded
    BY <1>8 DEF RenewalRefused, PeerLost, AdmissionClosed, relayVars, execVars, SessionPhase,
       Guarded
  <2>2. QED
    BY <2>1, RevokeIsRevoked
<1>9. QED
  BY <1>1, <1>2, <1>3, <1>4, <1>5, <1>6, <1>7, <1>8 DEF ProcessStep, ObserverStep

\* The steps of the main task: the flag is cleared when nothing is at work, and a
\* request is let in by a lease in good standing.
LEMMA RelayLeased == IInv /\ RelayStep => [Leased!Next]_Leased!vars
<1> SUFFICES ASSUME IInv, RelayStep PROVE [Leased!Next]_Leased!vars
  OBVIOUS
<1> USE DEF Leased!Next, Leased!Moves
<1>0. TypeOK
  BY DEF IInv
<1>1. CASE Connect
  <2>1. Leased!Connects
    BY <1>1 DEF Connect, leaseVars, execVars, cancelVars, SessionPhase, Guarded, Leased!Connects
  <2>2. QED
    BY <2>1
<1>2. CASE ConnectFails
  <2>1. Leased!Closes
    BY <1>2 DEF ConnectFails, leaseVars, execVars, cancelVars, SessionPhase, Guarded,
       Leased!Closes
  <2>2. QED
    BY <2>1
<1>3. CASE ResumeCheck
  <2>1. CASE AdmissionMayReturn
    <3>1. Leased!MayResume
      BY <1>3, <2>1 DEF ResumeCheck, AdmissionMayReturn, leaseVars, execVars, cancelVars,
         SessionPhase, Guarded, Leased!MayResume
    <3>2. QED
      BY <3>1
  <2>2. CASE ~AdmissionMayReturn
    <3>1. Leased!Closes
      BY <1>3, <2>2 DEF ResumeCheck, leaseVars, execVars, cancelVars, SessionPhase, Guarded,
         Leased!Closes
    <3>2. QED
      BY <3>1
  <2>3. QED
    BY <2>1, <2>2
<1>4. CASE ResumeClear
  <2>1. Guarded = {}
    BY <1>4 DEF ResumeClear, IInv, WorkInSession
  <2>2. Leased!Resumes
    BY <1>4, <2>1 DEF ResumeClear, leaseVars, execVars, SessionPhase, Guarded, Leased!Resumes
  <2>3. QED
    BY <2>2
<1>5. CASE SessionSeesCancel \/ Disconnect \/ BadFrame
  <2>1. Leased!Ends
    BY <1>5 DEF SessionSeesCancel, Disconnect, BadFrame, Cancel, leaseVars, execVars,
       SessionPhase, Guarded, Leased!Ends
  <2>2. QED
    BY <2>1
<1>6. CASE Reap
  <2>1. Guarded = {}
    BY <1>6 DEF Reap, IInv, WorkInSession, Guarded, Executing
  <2>2. Guarded' = Guarded
    BY <1>0, <1>6, WorkKept DEF Reap
  <2>3. Leased!Reaped
    BY <1>6, <2>1, <2>2 DEF Reap, leaseVars, cancelVars, SessionPhase, Leased!Reaped
  <2>4. QED
    BY <2>3
<1>7. ASSUME NEW s \in Sequence, NEW g \in FrameGeneration, ReceiveExecute(s, g)
      PROVE  [Leased!Next]_Leased!vars
  <2>1. Leased!Vets
    BY <1>7 DEF ReceiveExecute, AdmissionAllowed, leaseVars, execVars, cancelVars, SessionPhase,
       Guarded, Leased!Vets, Leased!Admissible
  <2>2. QED
    BY <2>1
<1>8. ASSUME NEW s \in Sequence, NEW g \in FrameGeneration, DeliverCancel(s, g)
      PROVE  [Leased!Next]_Leased!vars
  BY <1>8 DEF DeliverCancel, relayVars, leaseVars, execVars, SessionPhase, Guarded, Leased!vars
<1>9. ASSUME NEW g \in FrameGeneration, RefuseExecute(g) \/ RefuseCancel(g)
      PROVE  [Leased!Next]_Leased!vars
  <2>1. Leased!Ends
    BY <1>9 DEF RefuseExecute, RefuseCancel, Cancel, leaseVars, execVars, SessionPhase, Guarded,
       Leased!Ends
  <2>2. QED
    BY <2>1
<1>10. CASE ReserveSequence
  BY <1>10 DEF ReserveSequence, leaseVars, execVars, cancelVars, SessionPhase, Guarded,
     Leased!vars
<1>11. CASE ReserveFails \/ DecryptFails
  <2>1. Leased!Ends
    BY <1>11 DEF ReserveFails, DecryptFails, Cancel, leaseVars, execVars, SessionPhase, Guarded,
       Leased!Ends
  <2>2. QED
    BY <2>1
<1>12. CASE AnswerOnly \/ (Admit /\ cancelled)
  <2>1. /\ relay = "admitting" /\ relay' = "session"
        /\ exec' = [exec EXCEPT ![current] = "finished"]
        /\ UNCHANGED <<lease, revoked, cancelled>>
    BY <1>12 DEF AnswerOnly, Admit, leaseVars, cancelVars
  <2>2. current \in Sequence /\ exec[current] \notin Executing
    BY <2>1 DEF IInv, RequestInHand, Executing
  <2>3. Guarded' = Guarded
    BY <1>0, <2>1, <2>2, AnswerIsNoWork DEF Executing
  <2>4. Leased!Declines
    BY <2>1, <2>3 DEF SessionPhase, Leased!Declines
  <2>5. QED
    BY <2>4
<1>13. CASE Admit /\ ~cancelled
  <2>1. /\ relay = "admitting" /\ relay' = "session" /\ Guarded = {}
        /\ exec' = [exec EXCEPT ![current] = "admitted"]
        /\ UNCHANGED <<lease, revoked, cancelled>>
    BY <1>13 DEF Admit, leaseVars, cancelVars
  <2>2. ~revoked
    BY <1>13, <2>1 DEF IInv, RevokedIdle
  <2>3. current \in Guarded'
    BY <1>0, <2>1 DEF IInv, RequestInHand, TypeOK, Guarded, Executing
  <2>4. Leased!VettedBegins
    BY <1>13, <2>1, <2>2, <2>3 DEF SessionPhase, Leased!VettedBegins
  <2>5. QED
    BY <2>4
<1>14. ASSUME NEW s \in Sequence, TakeResult(s) PROVE [Leased!Next]_Leased!vars
  <2>1. CASE cancelled
    <3>1. Guarded' = Guarded
      BY <1>0, <1>14, <2>1, AnswerIsNoWork DEF TakeResult, Executing
    <3>2. Leased!Ends
      BY <1>14, <2>1, <3>1 DEF TakeResult, Cancel, leaseVars, SessionPhase, Leased!Ends
    <3>3. QED
      BY <3>2
  <2>2. CASE ~cancelled
    BY <1>14, <2>2 DEF TakeResult, leaseVars, cancelVars, SessionPhase, Guarded, Leased!vars
  <2>3. QED
    BY <2>1, <2>2
<1>15. CASE SendResult \/ SendFails
  <2>1. current \in Sequence /\ exec[current] \notin Executing
    BY <1>15 DEF SendResult, SendFails, IInv, RequestInHand, Executing
  <2>2. Guarded' = Guarded
    BY <1>0, <1>15, <2>1, AnswerIsNoWork DEF SendResult, SendFails, Executing
  <2>3. CASE SendResult
    BY <2>2, <2>3 DEF SendResult, leaseVars, cancelVars, SessionPhase, Leased!vars
  <2>4. CASE SendFails
    <3>1. Leased!Ends
      BY <2>2, <2>4 DEF SendFails, Cancel, leaseVars, SessionPhase, Leased!Ends
    <3>2. QED
      BY <3>1
  <2>5. QED
    BY <1>15, <2>3, <2>4
<1>16. QED
  BY <1>1, <1>2, <1>3, <1>4, <1>5, <1>6, <1>7, <1>8, <1>9, <1>10, <1>11, <1>12, <1>13, <1>14,
     <1>15 DEF RelayStep

\* The steps of an execution take nothing new to work and may be its last.
LEMMA ExecutionLeased ==
    ASSUME IInv, NEW s \in Sequence, ExecutionStep(s)
    PROVE  [Leased!Next]_Leased!vars
<1> USE DEF Leased!Next
<1>1. UNCHANGED <<lease, revoked, cancelled, relay>>
  BY DEF ExecutionStep, Begin, PrepareFails, Spawn, CheckSpawned, WriteScript, WriteFails,
     StartScript, ScriptEnds, RuntimeStalls, HoldUp, LetGo, ObserveExit, ObserveCancel,
     DeadlinePasses, OutputFails, Reaped, SettleOutcome, Collect, processUnchanged, relayVars,
     leaseVars, cancelVars
<1>2. exec' = exec \/ (s \in Guarded /\ \E to : exec' = [exec EXCEPT ![s] = to])
  BY DEF ExecutionStep, Begin, PrepareFails, Spawn, CheckSpawned, WriteScript, WriteFails,
     StartScript, ScriptEnds, RuntimeStalls, HoldUp, LetGo, ObserveExit, ObserveCancel,
     DeadlinePasses, OutputFails, Reaped, SettleOutcome, Collect, Conclude, Proceed, Terminate,
     execVars, Guarded, Executing
<1>3. Guarded' = Guarded \/ Guarded' \subseteq Guarded
  BY <1>2 DEF IInv, TypeOK, Guarded
<1>4. SessionPhase' = SessionPhase
  BY <1>1 DEF SessionPhase
<1>5. CASE Guarded' = {}
  <2>1. Leased!Finishes
    BY <1>1, <1>4, <1>5 DEF Leased!Finishes
  <2>2. QED
    BY <2>1
<1>6. CASE Guarded' # {}
  <2>1. Guarded # {}
    BY <1>3, <1>6
  <2>2. QED
    BY <1>1, <1>4, <1>6, <2>1 DEF Leased!vars
<1>7. QED
  BY <1>5, <1>6

\* The session of the Bridge and its lease implement LeasedSession, which BindingLease
\* implements by the clock: a request begins under a lease in good standing, no
\* revocation is undone while the process lasts, and the flag is cleared only when
\* nothing is at work (prepare_remote_execution, revoke, resume_after_reconnect).
THEOREM SessionIsLeased == Spec => ImplementsLeasedSession
<1>1. Init => Leased!Init
  BY DEF Init, SessionPhase, Guarded, Executing, Leased!Init
<1>2. IInv /\ [Next]_vars => [Leased!Next]_Leased!vars
  <2> SUFFICES ASSUME IInv, [Next]_vars PROVE [Leased!Next]_Leased!vars
    OBVIOUS
  <2>1. CASE UNCHANGED vars
    BY <2>1 DEF vars, relayVars, leaseVars, execVars, cancelVars, SessionPhase, Guarded,
       Leased!vars
  <2>2. QED
    BY <2>1, ProcessLeased, RelayLeased, ExecutionLeased DEF Next
<1>3. QED
  BY <1>1, <1>2, Inductive, PTL DEF Spec, ImplementsLeasedSession, Leased!Spec
=============================================================================
