-------------------------- MODULE BindingLifecycle --------------------------
(***************************************************************************)
(* How a person grants, suspends and withdraws a browser binding, and how   *)
(* the Bridge finds out.  The Device Client commands (binding_commands.rs,  *)
(* policy_commands.rs, CredentialStore) change two owner-only files, the    *)
(* active-binding hand-off and the local admission record, around a request *)
(* to the Server.  The Device service (device_service.rs) reads the files   *)
(* and sends the Bridge a heartbeat: EGB1 while they admit, EGB0 when they  *)
(* do not, end of file when it cannot tell.  The Bridge (outbound.rs,       *)
(* device_peer.rs, task_space_monitor.rs) starts from the same files.       *)
(*                                                                          *)
(* A file is written by renaming a new one over it and read by              *)
(* read_owner_file: lstat, open, fstat and a comparison of the two.  A read *)
(* whose file is replaced or removed in between fails, and the service,     *)
(* which takes only a file missing at its lstat for "closed", hangs up.     *)
(*                                                                          *)
(* Commands are processes of their own: two of them interleave at every     *)
(* file operation and any of them may die between two.  A grant is a pair   *)
(* of binding ID and generation; the code only ever compares whole pairs    *)
(* for equality, so a grant is a number that stands for one pair.           *)
(***************************************************************************)
EXTENDS Naturals

CONSTANTS Command,      \* Device Client command processes
          Offered,      \* the kinds of command each of them may run
          MaxGrant      \* bound: grants the Server makes

Grant == 1..MaxGrant

VARIABLES
    credential,     \* the stored credential: valid, expired (or unreadable), missing
    handoff,        \* the grant in the active-binding file, 0 if there is no file
    gate,           \* the grant whose admission record is "open", 0 if none is
    server,         \* what the Server says of each grant
    command,        \* command processes: kind, next step, grant
    service,        \* the Device service process
    read,           \* how far the service is with the files of the next heartbeat
    peer,           \* the Bridge's end of the service socket
    bridge,         \* the Bridge process: what it does, for which grant
    quiet,          \* history: admission was closed while nobody was granting it
    disturbed,      \* history: the service went, stalled or could not use its
                    \* credential since the Bridge last dialled it
    torn,           \* history: a file was replaced under the service's read of it,
                    \* and the heartbeat was an end of file, since then
    kept            \* history: a grant a pause command has completed for, 0 when a
                    \* command, the Server or a disturbance has come after it

fileVars == <<credential, handoff, gate>>
bridgeVars == <<bridge, peer>>
serviceVars == <<service, read>>
history == <<quiet, disturbed, torn, kept>>
vars == <<fileVars, server, command, serviceVars, bridgeVars, history>>

\* claim, resume and allowlist set --binding; pause, stop or revoke,
\* device-revoke (forget), retire-local, purge-local; register is a policy
\* update by registering again, without a binding.
Granting == {"claim", "resume", "allowlist"}
Reducing == {"pause", "stop", "forget", "retire", "purge"}
PolicyUpdate == {"allowlist", "register"}
Kind == Granting \cup Reducing \cup {"register"}
ASSUME LifecycleAssumption ==
    /\ MaxGrant \in Nat
    /\ Offered \in [Command -> SUBSET Kind]

Bound == {"resume", "allowlist", "pause", "stop"}  \* name a grant

Idle == [kind |-> "none", at |-> "idle", grant |-> 0, kept |-> FALSE]
Waiting == [at |-> "waiting", grant |-> 0]

\* A heartbeat reads the credential, the hand-off and the admission record, one
\* after the other: "handoff" is between the lstat and the fstat of the
\* hand-off, "handoff next" before the lstat.
Nothing == [at |-> "credential next", torn |-> FALSE, grant |-> 0]

Live(g) == server[g] \in {"pending", "active"}
Held(g) == Live(g) \/ server[g] = "paused"
Ungranted == {g \in Grant : server[g] = "unused"}
NextGrant == CHOOSE g \in Ungranted : TRUE

\* CredentialStore::local_admission_is_open, for the hand-off already read.
AdmissionIsOpen(g) == gate = g

At(c, kinds, step) == command[c].kind \in kinds /\ command[c].at = step
Continue(c, step) == command' = [command EXCEPT ![c].at = step]
Finish(c) == command' = [command EXCEPT ![c] = Idle]

\* atomic_owner_write renames a new file over the old one, a removal unlinks
\* it: a read that has seen the old one does not find the same file any more.
Replace(file) ==
    /\ read' = [read EXCEPT !.torn = @ \/ read.at = file]
    /\ UNCHANGED service

-----------------------------------------------------------------------------
(* Commands.                                                                *)

\* What each command requires before its first change: a live credential
\* (claim, lifecycle, allowlist), a hand-off to take the label from (resume),
\* no hand-off of another grant (allowlist), the policy lock (policy updates).
\* device-revoke closes admission before it looks at anything.
Runnable(kind, g) ==
    /\ kind \in Bound \cup {"claim"} => credential = "valid"
    /\ kind = "register" => credential # "missing"
    /\ kind = "resume" => handoff # 0
    /\ kind = "allowlist" => handoff \in {0, g}
    /\ kind \in PolicyUpdate => \A c \in Command : command[c].kind \notin PolicyUpdate

Named(kind) == IF kind \in Bound THEN {g \in Grant : server[g] # "unused"} ELSE {0}

StartCommand(c) ==
    /\ command[c] = Idle
    /\ \E kind \in Offered[c] : \E g \in Named(kind) :
        /\ Runnable(kind, g)
        /\ command' = [command EXCEPT ![c] =
                [kind |-> kind,
                 at |-> IF kind \in Reducing THEN "close" ELSE "request",
                 grant |-> g,
                 kept |-> kind = "allowlist" /\ handoff = g]]
        /\ quiet' = (quiet /\ kind \notin Granting)
    /\ kept' = 0
    /\ UNCHANGED <<fileVars, server, serviceVars, bridgeVars, disturbed, torn>>

AfterClose(kind) ==
    CASE kind = "retire" -> "removeCredential"
      [] kind = "purge" -> "purge"
      [] OTHER -> "request"

\* Slip: stop relies on clearing the hand-off after the Server answered.
CloseAdmissionUnlessStopping(c) ==
    /\ At(c, Reducing, "close")
    /\ gate' = IF command[c].kind = "stop" THEN gate ELSE 0
    /\ quiet' = \A d \in Command : command[d].kind \notin Granting
    /\ IF command[c].kind = "forget" /\ credential # "valid"
       THEN Finish(c)
       ELSE Continue(c, AfterClose(command[c].kind))
    /\ Replace("gate")
    /\ UNCHANGED <<credential, handoff, server, bridgeVars, disturbed, torn, kept>>

\* Every command that reduces privilege closes admission before its request,
\* "so an outage cannot preserve execution".
CloseAdmission(c) ==
    /\ At(c, Reducing, "close")
    /\ gate' = 0
    /\ quiet' = \A d \in Command : command[d].kind \notin Granting
    /\ IF command[c].kind = "forget" /\ credential # "valid"
       THEN Finish(c)
       ELSE Continue(c, AfterClose(command[c].kind))
    /\ Replace("gate")
    /\ UNCHANGED <<credential, handoff, server, bridgeVars, disturbed, torn, kept>>

\* What the Server does with a request it accepts.
Grants(state) == [server EXCEPT ![NextGrant] = state]
Regrants(g, state) == [server EXCEPT ![g] = "ended", ![NextGrant] = state]
Downgrades(affected, state) ==
    [h \in Grant |-> IF h \in affected THEN state ELSE server[h]]

Accepts(kind, g) ==
    \/ /\ kind = "claim" /\ Ungranted # {}
       /\ server' = Grants("pending")
    \/ /\ kind = "resume" /\ Ungranted # {} /\ server[g] = "paused"
       /\ server' = Regrants(g, "pending")
    \/ /\ kind = "allowlist" /\ Ungranted # {} /\ Held(g)
       /\ server' = Regrants(g, "paused")
    \/ /\ kind = "pause" /\ Live(g)
       /\ server' = [server EXCEPT ![g] = "paused"]
    \/ /\ kind = "stop" /\ Held(g)
       /\ server' = [server EXCEPT ![g] = "ended"]
    \/ /\ kind = "register"
       /\ server' = Downgrades({h \in Grant : Live(h)}, "paused")
    \/ /\ kind = "forget"
       /\ server' = Downgrades({h \in Grant : Held(h)}, "ended")

AfterAnswer(kind) ==
    CASE kind \in {"claim", "resume"} -> "save"
      [] kind = "pause" -> "load"
      [] kind = "forget" -> "purge"
      [] OTHER -> "clear"

\* Slip: the client counts the generation on instead of taking the answer's.
RequestCountingOn(c) ==
    LET kind == command[c].kind IN
    /\ command[c].at = "request"
    /\ Accepts(kind, command[c].grant)
    /\ command' = [command EXCEPT
            ![c].at = AfterAnswer(kind),
            ![c].grant = IF kind \in Granting THEN NextGrant + 1 ELSE @]
    /\ UNCHANGED <<fileVars, serviceVars, bridgeVars, history>>

Request(c) ==
    LET kind == command[c].kind IN
    /\ command[c].at = "request"
    /\ Accepts(kind, command[c].grant)
    /\ command' = [command EXCEPT
            ![c].at = AfterAnswer(kind),
            ![c].grant = IF kind \in Granting THEN NextGrant ELSE @]
    /\ UNCHANGED <<fileVars, serviceVars, bridgeVars, history>>

\* The request is refused or lost, or its answer is: the command ends there.
RequestFails(c) ==
    /\ command[c].at = "request"
    /\ server' = server \/ Accepts(command[c].kind, command[c].grant)
    /\ Finish(c)
    /\ UNCHANGED <<fileVars, serviceVars, bridgeVars, history>>

\* persist_active_binding: the hand-off first, admission when it is durable;
\* both are taken back when admission cannot be opened.
SaveHandoff(c) ==
    /\ At(c, Granting, "save")
    /\ handoff' = command[c].grant
    /\ Continue(c, "open")
    /\ Replace("handoff")
    /\ UNCHANGED <<credential, gate, server, bridgeVars, history>>

OpenAdmission(c) ==
    /\ At(c, Granting, "open")
    /\ IF credential # "missing"
       THEN gate' = command[c].grant /\ Finish(c) /\ Replace("gate")
       ELSE gate' = gate /\ Continue(c, "undo") /\ UNCHANGED serviceVars
    /\ UNCHANGED <<credential, handoff, server, bridgeVars, history>>

OpenFails(c) ==
    /\ At(c, Granting, "open")
    /\ Continue(c, "undo")
    /\ UNCHANGED <<fileVars, server, serviceVars, bridgeVars, history>>

UndoHandoff(c) ==
    /\ At(c, Granting, "undo")
    /\ handoff' = 0
    /\ Continue(c, "undoGate")
    /\ Replace("handoff")
    /\ UNCHANGED <<credential, gate, server, bridgeVars, history>>

UndoAdmission(c) ==
    /\ At(c, Granting, "undoGate")
    /\ gate' = 0
    /\ Finish(c)
    /\ Replace("gate")
    /\ UNCHANGED <<credential, handoff, server, bridgeVars, history>>

\* persist_paused_binding keeps the label of the hand-off it finds, writes the
\* grant the Server paused and closes admission once more.
LoadPaused(c) ==
    /\ At(c, {"pause"}, "load")
    /\ IF handoff = 0 THEN Finish(c) ELSE Continue(c, "save")
    /\ UNCHANGED <<fileVars, server, serviceVars, bridgeVars, history>>

SavePaused(c) ==
    /\ At(c, {"pause"}, "save")
    /\ handoff' = command[c].grant
    /\ Continue(c, "closeAgain")
    /\ Replace("handoff")
    /\ UNCHANGED <<credential, gate, server, bridgeVars, history>>

ClosePaused(c) ==
    /\ At(c, {"pause"}, "closeAgain")
    /\ gate' = 0
    /\ Finish(c)
    /\ kept' = IF /\ ~disturbed /\ handoff = command[c].grant
                  /\ server[command[c].grant] = "paused"
                  /\ \A d \in Command \ {c} : command[d] = Idle
               THEN command[c].grant ELSE 0
    /\ Replace("gate")
    /\ UNCHANGED <<credential, handoff, server, bridgeVars, quiet, disturbed, torn>>

\* stop and revoke clear the hand-off; a policy update clears it before it
\* commits the policy.  allowlist set --binding then persists the binding
\* again, with the generation the Server answered; a registration saves the
\* new credential.
ClearHandoff(c) ==
    /\ At(c, {"stop", "allowlist", "register"}, "clear")
    /\ handoff' = 0
    /\ CASE command[c].kind = "register" -> Continue(c, "saveCredential")
         [] command[c].kept -> Continue(c, "save")
         [] OTHER -> Finish(c)
    /\ Replace("handoff")
    /\ UNCHANGED <<credential, gate, server, bridgeVars, history>>

SaveCredential(c) ==
    /\ At(c, {"register"}, "saveCredential")
    /\ credential' = "valid"
    /\ Finish(c)
    /\ Replace("credential")
    /\ UNCHANGED <<handoff, gate, server, bridgeVars, history>>

\* CredentialStore::clear and retire_runtime_state remove files one by one.
Purge(c) ==
    /\ At(c, {"forget", "purge"}, "purge")
    /\ gate' = 0
    /\ Continue(c, "removeCredential")
    /\ Replace("gate")
    /\ UNCHANGED <<credential, handoff, server, bridgeVars, history>>

RemoveCredential(c) ==
    /\ At(c, {"forget", "purge", "retire"}, "removeCredential")
    /\ credential' = "missing"
    /\ Continue(c, "removeHandoff")
    /\ Replace("credential")
    /\ UNCHANGED <<handoff, gate, server, bridgeVars, history>>

RemoveHandoff(c) ==
    /\ At(c, {"forget", "purge", "retire"}, "removeHandoff")
    /\ handoff' = 0
    /\ IF command[c].kind = "retire" THEN Finish(c) ELSE Continue(c, "removeRecord")
    /\ Replace("handoff")
    /\ UNCHANGED <<credential, gate, server, bridgeVars, history>>

RemoveRecord(c) ==
    /\ At(c, {"forget", "purge"}, "removeRecord")
    /\ gate' = 0
    /\ Finish(c)
    /\ Replace("gate")
    /\ UNCHANGED <<credential, handoff, server, bridgeVars, history>>

\* A command may be killed, or fail on a file it reads or writes, between any
\* two steps.
CommandDies(c) ==
    /\ command[c] # Idle
    /\ Finish(c)
    /\ UNCHANGED <<fileVars, server, serviceVars, bridgeVars, history>>

\* ensure, a renewal or a rotation writes a new credential; they leave hand-off
\* and admission alone.
Ensure ==
    /\ credential' = "valid"
    /\ Replace("credential")
    /\ UNCHANGED <<handoff, gate, server, command, bridgeVars, history>>

-----------------------------------------------------------------------------
(* The Device service: one heartbeat at a time, from files it reads one     *)
(* after the other.                                                         *)

Disturb == disturbed' = TRUE /\ kept' = 0

Composing(step) == service = "up" /\ peer = "silent" /\ read.at = step
Send(frame) == peer' = frame /\ read' = Nothing
ReadOn(step) == read' = [read EXCEPT !.at = step] /\ peer' = peer
KeepFiles == UNCHANGED <<fileVars, server, command, service, bridge, quiet, disturbed, kept>>

\* The lstat: a missing file is known at once.
LookAtCredential ==
    /\ Composing("credential next")
    /\ IF credential = "missing" THEN Send("EGB0") ELSE ReadOn("credential")
    /\ KeepFiles /\ UNCHANGED torn

\* Slip: no hand-off is reported as a failure to read it.
LookAtHandoffOrFail ==
    /\ Composing("handoff next")
    /\ IF handoff = 0 THEN Send("eof") ELSE ReadOn("handoff")
    /\ KeepFiles /\ UNCHANGED torn

LookAtHandoff ==
    /\ Composing("handoff next")
    /\ IF handoff = 0 THEN Send("EGB0") ELSE ReadOn("handoff")
    /\ KeepFiles /\ UNCHANGED torn

\* A gate that is not open is a closed record or none.
LookAtRecord ==
    /\ Composing("gate next")
    /\ ReadOn("gate") \/ (gate = 0 /\ Send("EGB0"))
    /\ KeepFiles /\ UNCHANGED torn

\* The rest of the read fails if the file is not the one looked at: Invalid,
\* for which the service sends nothing and hangs up.
FindOther ==
    /\ \E file \in {"credential", "handoff", "gate"} : Composing(file)
    /\ read.torn
    /\ Send("eof") /\ torn' = TRUE
    /\ KeepFiles

ReadCredential ==
    /\ Composing("credential") /\ ~read.torn
    /\ IF credential = "valid" THEN ReadOn("handoff next") ELSE Send("eof")
    /\ KeepFiles /\ UNCHANGED torn

ReadHandoff ==
    /\ Composing("handoff") /\ ~read.torn
    /\ read' = [read EXCEPT !.at = "gate next", !.grant = handoff]
    /\ peer' = peer
    /\ KeepFiles /\ UNCHANGED torn

\* Slip: the hand-off alone admits.
BeatOnHandoff ==
    /\ Composing("gate") /\ ~read.torn
    /\ Send("EGB1")
    /\ KeepFiles /\ UNCHANGED torn

Beat ==
    /\ Composing("gate") /\ ~read.torn
    /\ Send(IF AdmissionIsOpen(read.grant) THEN "EGB1" ELSE "EGB0")
    /\ KeepFiles /\ UNCHANGED torn

Heartbeat ==
    \/ LookAtCredential \/ ReadCredential
    \/ LookAtHandoff \/ ReadHandoff
    \/ LookAtRecord \/ Beat
    \/ FindOther

ServiceGoes ==
    /\ service = "up"
    /\ service' = "down" /\ read' = Nothing
    /\ peer' = IF peer = "none" THEN "none" ELSE "eof"
    /\ Disturb
    /\ UNCHANGED <<fileVars, server, command, bridge, quiet, torn>>

ServiceComes ==
    /\ service = "down"
    /\ service' = "up"
    /\ UNCHANGED <<fileVars, server, command, read, bridgeVars, history>>

CredentialExpires ==
    /\ credential = "valid"
    /\ credential' = "expired"
    /\ Disturb
    /\ UNCHANGED <<handoff, gate, server, command, serviceVars, bridgeVars, quiet, torn>>

\* The Server ends a binding by itself: its session ended or its lease ran out.
ServerEnds(g) ==
    /\ Held(g)
    /\ server' = [server EXCEPT ![g] = "ended"]
    /\ kept' = 0
    /\ UNCHANGED <<fileVars, command, serviceVars, bridgeVars, quiet, disturbed, torn>>

-----------------------------------------------------------------------------
(* The Bridge.                                                              *)

To(step) == bridge' = [bridge EXCEPT !.at = step]

\* The wait loop of run_outbound reads the hand-off, then the admission record.
FindHandoff ==
    /\ bridge.at = "waiting" /\ credential = "valid" /\ handoff # 0
    /\ bridge' = [at |-> "found", grant |-> handoff]
    /\ UNCHANGED <<fileVars, server, command, serviceVars, peer, history>>

CheckAdmission ==
    /\ bridge.at = "found"
    /\ IF AdmissionIsOpen(bridge.grant) THEN To("admitted") ELSE bridge' = Waiting
    /\ UNCHANGED <<fileVars, server, command, serviceVars, peer, history>>

Connect ==
    /\ bridge.at = "admitted"
    /\ IF service = "up"
       THEN To("dialing") /\ peer' = "silent"
       ELSE To("lost") /\ peer' = peer
    /\ disturbed' = (service = "down" \/ credential = "expired")
    /\ torn' = FALSE
    /\ kept' = IF disturbed' THEN 0 ELSE kept
    /\ UNCHANGED <<fileVars, server, command, serviceVars, quiet>>

\* The observer reads frames until EGB0, a loss or the end of the process; it
\* goes on after the supervisor was revoked for another reason.  The first
\* frame is required before anything else.
Hangup == peer' = "none" /\ read' = Nothing
Linked == {"dialing", "activating", "executing", "pausing", "refused"}
Listening == bridge.at \in Linked

HeartbeatAlive ==
    /\ Listening /\ peer = "EGB1"
    /\ peer' = "silent"
    /\ IF bridge.at = "dialing" THEN To("activating") ELSE UNCHANGED bridge
    /\ UNCHANGED <<fileVars, server, command, serviceVars, history>>

\* Slip: EGB0 is handled like a lost peer.
HeartbeatClosedAsLoss ==
    /\ Listening /\ peer = "EGB0"
    /\ To("lost") /\ Hangup
    /\ UNCHANGED <<fileVars, server, command, service, history>>

HeartbeatClosed ==
    /\ Listening /\ peer = "EGB0"
    /\ peer' = "none"
    /\ IF bridge.at = "pausing" THEN UNCHANGED bridge ELSE To("refused")
    /\ UNCHANGED <<fileVars, server, command, serviceVars, history>>

HeartbeatLost ==
    /\ Listening /\ peer = "eof"
    /\ To("lost") /\ Hangup
    /\ UNCHANGED <<fileVars, server, command, service, history>>

\* Five seconds without a frame, although the service beats every two.
HeartbeatLate ==
    /\ Listening /\ peer = "silent"
    /\ To("lost") /\ Hangup
    /\ Disturb
    /\ UNCHANGED <<fileVars, server, command, service, quiet, torn>>

\* startup_activation asks the Server for the status of the grant: a pending
\* one is activated, an active one renewed, any other ends the Bridge.
Activate ==
    LET g == bridge.grant IN
    /\ bridge.at = "activating"
    /\ Live(g)
    /\ server' = [server EXCEPT ![g] = "active"]
    /\ To("executing")
    /\ UNCHANGED <<fileVars, command, serviceVars, peer, history>>

ActivationFails ==
    /\ bridge.at = "activating"
    /\ \/ server' = server
       \/ Live(bridge.grant) /\ server' = [server EXCEPT ![bridge.grant] = "active"]
    /\ To("refused")
    /\ UNCHANGED <<fileVars, command, serviceVars, peer, history>>

\* The lease observer: the Server renews an active grant only.
RenewalRefused ==
    /\ bridge.at = "executing" /\ server[bridge.grant] # "active"
    /\ To("refused")
    /\ UNCHANGED <<fileVars, server, command, serviceVars, peer, history>>

\* The monitor sees the Task Space in the user's hands: the supervisor is
\* revoked, then the Server is asked to pause the grant.
TakeOver ==
    /\ bridge.at = "executing"
    /\ To("pausing")
    /\ UNCHANGED <<fileVars, server, command, serviceVars, peer, history>>

PauseBinding ==
    /\ bridge.at = "pausing"
    /\ \/ Live(bridge.grant) /\ server' = [server EXCEPT ![bridge.grant] = "paused"]
       \/ server' = server
    /\ To("refused")
    /\ UNCHANGED <<fileVars, command, serviceVars, peer, history>>

\* fail_closed_device_peer_loss: clear whatever hand-off is there, then stop.
ClearLost ==
    /\ bridge.at = "lost"
    /\ handoff' \in {0, handoff}
    /\ To("stopping")
    /\ UNCHANGED <<credential, gate, server, command, serviceVars, peer, history>>

StopBinding ==
    /\ bridge.at = "stopping"
    /\ \/ Held(bridge.grant) /\ server' = [server EXCEPT ![bridge.grant] = "ended"]
       \/ server' = server
    /\ To("refused")
    /\ UNCHANGED <<fileVars, command, serviceVars, peer, history>>

\* The process ends at any point (a bad frame, a lost lease, a signal) and
\* launchd starts it again.
BridgeRestarts ==
    /\ bridge.at # "waiting"
    /\ bridge' = Waiting /\ Hangup
    /\ UNCHANGED <<fileVars, server, command, service, history>>

-----------------------------------------------------------------------------
Init ==
    /\ credential \in {"valid", "missing"} /\ handoff = 0 /\ gate = 0
    /\ server = [g \in Grant |-> "unused"]
    /\ command = [c \in Command |-> Idle]
    /\ service \in {"up", "down"} /\ read = Nothing
    /\ peer = "none" /\ bridge = Waiting
    /\ quiet = TRUE /\ disturbed = FALSE /\ torn = FALSE /\ kept = 0

CommandStep(c) ==
    \/ StartCommand(c) \/ CloseAdmission(c) \/ Request(c) \/ RequestFails(c)
    \/ SaveHandoff(c) \/ OpenAdmission(c) \/ OpenFails(c)
    \/ UndoHandoff(c) \/ UndoAdmission(c)
    \/ LoadPaused(c) \/ SavePaused(c) \/ ClosePaused(c)
    \/ ClearHandoff(c) \/ SaveCredential(c)
    \/ Purge(c) \/ RemoveCredential(c) \/ RemoveHandoff(c) \/ RemoveRecord(c)
    \/ CommandDies(c)

ServiceStep == Heartbeat \/ ServiceGoes \/ ServiceComes

BridgeStep ==
    \/ FindHandoff \/ CheckAdmission \/ Connect
    \/ HeartbeatAlive \/ HeartbeatClosed \/ HeartbeatLost \/ HeartbeatLate
    \/ Activate \/ ActivationFails \/ RenewalRefused
    \/ TakeOver \/ PauseBinding \/ ClearLost \/ StopBinding \/ BridgeRestarts

Next ==
    \/ \E c \in Command : CommandStep(c)
    \/ ServiceStep
    \/ BridgeStep
    \/ Ensure \/ CredentialExpires
    \/ \E g \in Grant : ServerEnds(g)

Spec == Init /\ [][Next]_vars

\* The service goes on with its heartbeat while it is up, and the Bridge reads
\* what it is sent.  Nothing makes a person run a command.
Fairness ==
    /\ WF_vars(Heartbeat)
    /\ WF_vars(HeartbeatAlive \/ HeartbeatClosed \/ HeartbeatLost)

FairSpec == Spec /\ Fairness

-----------------------------------------------------------------------------
(* Properties.                                                              *)

Step == {"idle", "close", "request", "save", "open", "undo", "undoGate", "load",
         "closeAgain", "clear", "saveCredential", "purge", "removeCredential",
         "removeHandoff", "removeRecord"}

ReadStep == {"credential next", "credential", "handoff next", "handoff",
             "gate next", "gate"}

\* Type invariant: the files name no grant or one the Server made, and so do
\* the Bridge and the heartbeat the service is composing.
TypeOK ==
    /\ credential \in {"valid", "expired", "missing"}
    /\ handoff \in 0..MaxGrant /\ gate \in 0..MaxGrant
    /\ read \in [at : ReadStep, torn : BOOLEAN, grant : 0..MaxGrant]
    /\ server \in [Grant -> {"unused", "pending", "active", "paused", "ended"}]
    /\ command \in [Command -> [kind : Kind \cup {"none"}, at : Step,
                               grant : 0..MaxGrant, kept : BOOLEAN]]
    /\ service \in {"up", "down"}
    /\ peer \in {"none", "silent", "EGB1", "EGB0", "eof"}
    /\ bridge \in [at : {"waiting", "found", "admitted", "dialing", "activating", "executing",
                         "pausing", "refused", "lost", "stopping"},
                   grant : 0..MaxGrant]
    /\ quiet \in BOOLEAN /\ disturbed \in BOOLEAN /\ torn \in BOOLEAN
    /\ kept \in 0..MaxGrant
    /\ \A g \in {handoff, gate, read.grant, bridge.grant, kept} \ {0} : server[g] # "unused"

\* Once a pause, stop, revoke, device-revoke, retire-local or purge-local has
\* closed admission while no claim, resume or allowlist update was under way,
\* admission stays closed until a person starts one: not a lost request, not
\* the death of a command between two files, not the Bridge, the service or a
\* restart of either opens it (binding_commands.rs: "an outage cannot preserve
\* execution").
OutageKeepsClosed == quiet => gate = 0

\* The Bridge takes the peer-loss path, which clears the hand-off and stops
\* the binding for good, only if since it dialled the service really went,
\* stalled or could not use its credential, or a file was replaced between the
\* lstat and the fstat of the service's read of it.  An intentional close that
\* the service meets between two files, at whatever step of whatever command,
\* is not taken for a loss.
ClosureIsNotLoss == bridge.at \in {"lost", "stopping"} => disturbed \/ torn

\* A completed pause leaves the paused hand-off for a later resume and the
\* binding paused, however the Bridge hears of it (architecture.md: "a local
\* pause cannot be silently upgraded to a terminal remote stop"), unless the
\* Bridge lost the service or a read of the service was torn.
PauseIsNotUpgraded ==
    kept # 0 /\ ~torn => handoff = kept /\ server[kept] = "paused"

\* If admission stays closed, the Bridge stops executing for good: the
\* heartbeat tells it, or its loss does.
ClosureStopsBridge == <>[](gate = 0) => <>[](bridge.at # "executing")
=============================================================================
