----------------------- MODULE BindingLifecycleProofs -----------------------
(***************************************************************************)
(* What a person decided about a binding stays decided, for any number of   *)
(* concurrent commands of any kind and any number of grants.                *)
(***************************************************************************)
EXTENDS BindingLifecycle, TLAPS

Made(g) == g \in 0..MaxGrant /\ (g # 0 => server[g] # "unused")

\* The Server does not take back a grant it made.
GrantsKept ==
    /\ server' \in [Grant -> {"unused", "pending", "active", "paused", "ended"}]
    /\ \A h \in Grant : server[h] # "unused" => server'[h] # "unused"

\* Three parts of the type invariant, for the steps that touch each.
CommandTypes ==
    command \in [Command -> [kind : Kind \cup {"none"}, at : Step,
                            grant : 0..MaxGrant, kept : BOOLEAN]]

FileTypes ==
    /\ credential \in {"valid", "expired", "missing"}
    /\ Made(handoff) /\ Made(gate) /\ Made(read.grant) /\ Made(kept)
    /\ read \in [at : ReadStep, torn : BOOLEAN, grant : 0..MaxGrant]

ProcessTypes ==
    /\ service \in {"up", "down"}
    /\ quiet \in BOOLEAN /\ disturbed \in BOOLEAN /\ torn \in BOOLEAN
    /\ peer \in {"none", "silent", "EGB1", "EGB0", "eof"}
    /\ bridge \in [at : {"waiting", "found", "admitted", "dialing", "activating", "executing",
                         "pausing", "refused", "lost", "stopping"},
                   grant : 0..MaxGrant]
    /\ Made(bridge.grant)

\* A command works on a grant the Server has made.
CommandsNameGrants ==
    \A c \in Command : command[c].grant # 0 => server[command[c].grant] # "unused"

\* While admission is known to be closed no command is under way to open it.
QuietMeansClosed ==
    quiet => gate = 0 /\ \A c \in Command : command[c].kind \notin Granting

\* An undisturbed Bridge is linked to a service that can read its files, and
\* hears the end of file only from a torn read.
LinkIsSound ==
    /\ peer # "none" => Listening
    /\ bridge.at \in Linked \cup {"lost", "stopping"} /\ ~disturbed =>
           service = "up" /\ credential # "expired"
    /\ Listening /\ ~disturbed /\ ~torn => peer # "eof"
    /\ read.at = "credential" /\ ~read.torn => credential # "missing"

\* A completed pause is the last thing that happened to the files: a Bridge
\* admitted before it finds them so, and none is admitted after it.
PauseIsLast ==
    /\ kept # 0 => /\ ~disturbed /\ gate = 0
                   /\ \A c \in Command : command[c] = Idle
                   /\ bridge.at = "admitted" => handoff = kept /\ server[kept] = "paused"
    /\ bridge.at = "found" => bridge.grant # 0

IInv ==
    /\ TypeOK /\ CommandsNameGrants /\ QuietMeansClosed
    /\ LinkIsSound /\ ClosureIsNotLoss
    /\ PauseIsLast /\ PauseIsNotUpgraded

USE LifecycleAssumption DEF LifecycleAssumption, Grant, GrantsKept

\* The service starts with the lstat of the credential.
LEMMA NothingRead ==
    /\ Nothing \in [at : ReadStep, torn : BOOLEAN, grant : 0..MaxGrant]
    /\ Nothing.grant = 0 /\ Nothing.at # "credential"
<1>1. "credential next" \in ReadStep /\ 0 \in 0..MaxGrant
  BY DEF ReadStep
<1>2. QED
  BY <1>1 DEF Nothing

\* Nothing has happened yet.
LEMMA InitIInv == Init => IInv
<1> SUFFICES ASSUME Init PROVE IInv
  OBVIOUS
<1> USE DEF Init
<1>1. Idle \in [kind : Kind \cup {"none"}, at : Step, grant : 0..MaxGrant, kept : BOOLEAN]
  BY DEF Idle, Step, Kind
<1>2. TypeOK
  <2>1. command \in [Command -> [kind : Kind \cup {"none"}, at : Step,
                                grant : 0..MaxGrant, kept : BOOLEAN]]
    BY <1>1
  <2>2. server \in [Grant -> {"unused", "pending", "active", "paused", "ended"}]
    OBVIOUS
  <2>3. bridge \in [at : {"waiting", "found", "admitted", "dialing", "activating", "executing",
                         "pausing", "refused", "lost", "stopping"},
                   grant : 0..MaxGrant]
    BY DEF Waiting
  <2>4. \A g \in {handoff, gate, read.grant, bridge.grant, kept} \ {0} : server[g] # "unused"
    BY DEF Waiting, Nothing
  <2>5. quiet \in BOOLEAN /\ disturbed \in BOOLEAN /\ torn \in BOOLEAN
    OBVIOUS
  <2>6. /\ handoff \in 0..MaxGrant /\ gate \in 0..MaxGrant
        /\ kept \in 0..MaxGrant
    OBVIOUS
  <2>7. /\ credential \in {"valid", "expired", "missing"} /\ service \in {"up", "down"}
        /\ peer \in {"none", "silent", "EGB1", "EGB0", "eof"}
    OBVIOUS
  <2>8. read \in [at : ReadStep, torn : BOOLEAN, grant : 0..MaxGrant]
    BY NothingRead DEF Init
  <2>9. QED
    BY <2>1, <2>2, <2>3, <2>4, <2>5, <2>6, <2>7, <2>8 DEF TypeOK
<1>3. CommandsNameGrants /\ QuietMeansClosed /\ PauseIsLast
  BY DEF CommandsNameGrants, QuietMeansClosed, PauseIsLast, Idle, Granting, Waiting
<1>4. LinkIsSound /\ ClosureIsNotLoss /\ PauseIsNotUpgraded
  BY DEF LinkIsSound, ClosureIsNotLoss, PauseIsNotUpgraded, Listening, Linked, Waiting, Nothing
<1>5. QED
  BY <1>2, <1>3, <1>4 DEF IInv

\* The Server never takes back that it made a grant, and makes new ones only
\* from the unused.
LEMMA ServerKeepsGrants ==
    ASSUME TypeOK, NEW kind, NEW g \in 0..MaxGrant, Accepts(kind, g)
    PROVE  /\ GrantsKept
           /\ kind \in Granting => NextGrant \in Grant /\ server'[NextGrant] # "unused"
<1>1. Ungranted # {} => NextGrant \in Grant
  BY DEF NextGrant, Ungranted
<1> QED
  BY <1>1 DEF TypeOK, Accepts, Grants, Regrants, Downgrades, Live, Held, Granting

\* A command that goes on or ends keeps its kind and its grant or has none.
LEMMA CommandGoesOn ==
    ASSUME TypeOK, NEW c \in Command, NEW step, Continue(c, step) \/ Finish(c)
    PROVE  \A d \in Command : /\ command'[d].kind \in {command[d].kind, "none"}
                              /\ command'[d].grant \in {command[d].grant, 0}
                              /\ d # c => command'[d] = command[d]
BY DEF TypeOK, Continue, Finish, Idle

\* One step of a heartbeat goes on with a file or ends in a frame.
LEMMA HeartbeatShape ==
    ASSUME TypeOK, Heartbeat
    PROVE  /\ service = "up" /\ peer = "silent"
           /\ UNCHANGED <<credential, handoff, gate, server, command, service, bridge,
                          quiet, disturbed, kept>>
           /\ torn' \in BOOLEAN /\ (torn => torn')
           /\ \/ /\ read' = Nothing
                 /\ peer' \in {"EGB1", "EGB0", "eof"}
                 /\ peer' = "eof" => torn' \/ credential = "expired" \/
                        (read.at = "credential" /\ ~read.torn /\ credential = "missing")
              \/ /\ peer' = peer
                 /\ read'.at = "credential" => credential # "missing"
                 /\ \E s \in ReadStep : \E g \in {read.grant, handoff} :
                        read' = [read EXCEPT !.at = s, !.grant = g]
<1> USE DEF TypeOK, Composing, KeepFiles, fileVars, Send
<1>1. \A s : ReadOn(s) => /\ read' = [read EXCEPT !.at = s, !.grant = read.grant]
                          /\ read'.at = s /\ peer' = peer
  BY DEF ReadOn
<1>2. CASE LookAtCredential
  BY <1>1, <1>2 DEF LookAtCredential, ReadStep
<1>3. CASE ReadCredential
  BY <1>1, <1>3 DEF ReadCredential, ReadStep
<1>4. CASE LookAtHandoff
  <2>1. /\ service = "up" /\ peer = "silent"
        /\ UNCHANGED <<credential, handoff, gate, server, command, service, bridge,
                       quiet, disturbed, kept, torn>>
        /\ ReadOn("handoff") \/ Send("EGB0")
    BY <1>4 DEF LookAtHandoff
  <2>2. "handoff" \in ReadStep
    BY DEF ReadStep
  <2>3. CASE ReadOn("handoff")
    <3>1. \E s \in ReadStep : \E g \in {read.grant, handoff} :
              read' = [read EXCEPT !.at = s, !.grant = g]
      BY <1>1, <2>2, <2>3
    <3>2. read'.at = "handoff" /\ peer' = peer
      BY <1>1, <2>3
    <3>3. QED
      BY <2>1, <3>1, <3>2
  <2>4. CASE Send("EGB0")
    BY <2>1, <2>4
  <2>5. QED
    BY <2>1, <2>3, <2>4
<1>5. CASE ReadHandoff
  BY <1>5 DEF ReadHandoff, ReadStep
<1>6. CASE LookAtRecord
  <2>1. /\ service = "up" /\ peer = "silent"
        /\ UNCHANGED <<credential, handoff, gate, server, command, service, bridge,
                       quiet, disturbed, kept, torn>>
        /\ ReadOn("gate") \/ Send("EGB0")
    BY <1>6 DEF LookAtRecord
  <2>2. "gate" \in ReadStep
    BY DEF ReadStep
  <2>3. CASE ReadOn("gate")
    <3>1. \E s \in ReadStep : \E g \in {read.grant, handoff} :
              read' = [read EXCEPT !.at = s, !.grant = g]
      BY <1>1, <2>2, <2>3
    <3>2. read'.at = "gate" /\ peer' = peer
      BY <1>1, <2>3
    <3>3. QED
      BY <2>1, <3>1, <3>2
  <2>4. CASE Send("EGB0")
    BY <2>1, <2>4
  <2>5. QED
    BY <2>1, <2>3, <2>4
<1>7. CASE Beat
  BY <1>7 DEF Beat
<1>8. CASE FindOther
  BY <1>8 DEF FindOther
<1>9. QED
  BY <1>2, <1>3, <1>4, <1>5, <1>6, <1>7, <1>8 DEF Heartbeat

\* Nobody opens admission while it is known to be closed.
LEMMA QuietStep ==
    ASSUME IInv, [Next]_vars PROVE QuietMeansClosed'
<1> USE DEF IInv, QuietMeansClosed, Granting, Reducing, Idle
<1>1. CASE \E c \in Command : CommandStep(c)
  <2> SUFFICES ASSUME NEW c \in Command, CommandStep(c) PROVE QuietMeansClosed'
    BY <1>1
  <2>1. CASE StartCommand(c)
    BY <2>1 DEF StartCommand, fileVars, TypeOK
  <2>2. CASE CloseAdmission(c)
    <3>1. \A d \in Command : command'[d].kind \in {command[d].kind, "none"}
      BY <2>2, CommandGoesOn DEF CloseAdmission, TypeOK
    <3>2. QED
      BY <2>2, <3>1 DEF CloseAdmission
  <2>3. CASE Request(c)
    <3>1. \A d \in Command : command'[d].kind = command[d].kind
      BY <2>3 DEF Request, TypeOK
    <3>2. QED
      BY <2>3, <3>1 DEF Request, fileVars, history
  <2>4. CASE RequestFails(c)
    BY <2>4 DEF RequestFails, At, Replace, Continue, Finish, fileVars, serviceVars, bridgeVars, history
  <2>5. CASE SaveHandoff(c)
    BY <2>5 DEF SaveHandoff, At, Replace, Continue, Finish, fileVars, serviceVars, bridgeVars, history
  <2>6. CASE OpenAdmission(c)
    BY <2>6 DEF OpenAdmission, At, Replace, Continue, Finish, fileVars, serviceVars, bridgeVars, history
  <2>7. CASE OpenFails(c)
    BY <2>7 DEF OpenFails, At, Replace, Continue, Finish, fileVars, serviceVars, bridgeVars, history
  <2>8. CASE UndoHandoff(c)
    BY <2>8 DEF UndoHandoff, At, Replace, Continue, Finish, fileVars, serviceVars, bridgeVars, history
  <2>9. CASE UndoAdmission(c)
    BY <2>9 DEF UndoAdmission, At, Replace, Continue, Finish, fileVars, serviceVars, bridgeVars, history
  <2>10. CASE LoadPaused(c)
    <3>1. \A d \in Command : command'[d].kind \in {command[d].kind, "none"}
      BY <2>10, CommandGoesOn DEF LoadPaused, TypeOK
    <3>2. QED
      BY <2>10, <3>1 DEF LoadPaused, fileVars, history
  <2>11. CASE SavePaused(c)
    BY <2>11 DEF SavePaused, At, Replace, Continue, Finish, fileVars, serviceVars, bridgeVars, history
  <2>12. CASE ClosePaused(c)
    BY <2>12 DEF ClosePaused, At, Replace, Continue, Finish, fileVars, serviceVars, bridgeVars, history
  <2>13. CASE ClearHandoff(c)
    <3>1. \A d \in Command : command'[d].kind \in {command[d].kind, "none"}
      BY <2>13, CommandGoesOn DEF ClearHandoff, TypeOK
    <3>2. QED
      BY <2>13, <3>1 DEF ClearHandoff, fileVars, history
  <2>14. CASE SaveCredential(c)
    BY <2>14 DEF SaveCredential, At, Replace, Continue, Finish, fileVars, serviceVars, bridgeVars,
       history
  <2>15. CASE Purge(c)
    BY <2>15 DEF Purge, At, Replace, Continue, Finish, fileVars, serviceVars, bridgeVars, history
  <2>16. CASE RemoveCredential(c)
    BY <2>16 DEF RemoveCredential, At, Replace, Continue, Finish, fileVars, serviceVars, bridgeVars,
       history
  <2>17. CASE RemoveHandoff(c)
    <3>1. \A d \in Command : command'[d].kind \in {command[d].kind, "none"}
      BY <2>17, CommandGoesOn DEF RemoveHandoff, TypeOK
    <3>2. QED
      BY <2>17, <3>1 DEF RemoveHandoff, fileVars, history
  <2>18. CASE RemoveRecord(c)
    BY <2>18 DEF RemoveRecord, At, Replace, Continue, Finish, fileVars, serviceVars, bridgeVars, history
  <2>19. CASE CommandDies(c)
    BY <2>19 DEF CommandDies, At, Replace, Continue, Finish, fileVars, serviceVars, bridgeVars, history
  <2>20. QED
    BY <2>1, <2>2, <2>3, <2>4, <2>5, <2>6, <2>7, <2>8, <2>9, <2>10, <2>11, <2>12, <2>13,
       <2>14, <2>15, <2>16, <2>17, <2>18, <2>19 DEF CommandStep
<1>2. CASE Heartbeat
  BY <1>2, HeartbeatShape
<1>4. CASE ServiceGoes
  BY <1>4 DEF ServiceGoes, To, Send, Disturb, fileVars, serviceVars, bridgeVars, history
<1>5. CASE ServiceComes
  BY <1>5 DEF ServiceComes, To, Send, fileVars, serviceVars, bridgeVars, history
<1>6. CASE FindHandoff
  BY <1>6 DEF FindHandoff, To, Send, fileVars, serviceVars, bridgeVars, history
<1>7. CASE CheckAdmission
  BY <1>7 DEF CheckAdmission, To, Send, Waiting, fileVars, serviceVars, bridgeVars, history
<1>8. CASE Connect
  BY <1>8 DEF Connect, To, Send, fileVars, serviceVars, bridgeVars, history
<1>9. CASE HeartbeatAlive
  BY <1>9 DEF HeartbeatAlive, To, Send, fileVars, serviceVars, bridgeVars, history
<1>10. CASE HeartbeatClosed
  BY <1>10 DEF HeartbeatClosed, To, Send, fileVars, serviceVars, bridgeVars, history
<1>11. CASE HeartbeatLost
  BY <1>11 DEF HeartbeatLost, To, Send, Hangup, fileVars, serviceVars, bridgeVars, history
<1>12. CASE HeartbeatLate
  BY <1>12 DEF HeartbeatLate, To, Send, Hangup, Disturb, fileVars, serviceVars, bridgeVars,
     history
<1>13. CASE Activate
  BY <1>13 DEF Activate, To, Send, fileVars, serviceVars, bridgeVars, history
<1>14. CASE ActivationFails
  BY <1>14 DEF ActivationFails, To, Send, fileVars, serviceVars, bridgeVars, history
<1>15. CASE RenewalRefused
  BY <1>15 DEF RenewalRefused, To, Send, fileVars, serviceVars, bridgeVars, history
<1>16. CASE TakeOver
  BY <1>16 DEF TakeOver, To, Send, fileVars, serviceVars, bridgeVars, history
<1>17. CASE PauseBinding
  BY <1>17 DEF PauseBinding, To, Send, fileVars, serviceVars, bridgeVars, history
<1>18. CASE ClearLost
  BY <1>18 DEF ClearLost, To, Send, fileVars, serviceVars, bridgeVars, history
<1>19. CASE StopBinding
  BY <1>19 DEF StopBinding, To, Send, fileVars, serviceVars, bridgeVars, history
<1>20. CASE BridgeRestarts
  BY <1>20 DEF BridgeRestarts, To, Send, Hangup, Waiting, fileVars, serviceVars, bridgeVars,
     history
<1>21. CASE Ensure
  BY <1>21 DEF Ensure, Replace, To, Send, fileVars, serviceVars, bridgeVars, history
<1>22. CASE CredentialExpires
  BY <1>22 DEF CredentialExpires, To, Send, Disturb, fileVars, serviceVars, bridgeVars, history
<1>23. CASE \E g \in Grant : ServerEnds(g)
  BY <1>23 DEF ServerEnds, fileVars, serviceVars, bridgeVars, history
<1>24. CASE UNCHANGED vars
  BY <1>24 DEF vars, fileVars, serviceVars, bridgeVars, history
<1>25. QED
  BY <1>1, <1>2, <1>4, <1>5, <1>6, <1>7, <1>8, <1>9, <1>10, <1>11, <1>12, <1>13,
     <1>14, <1>15, <1>16, <1>17, <1>18, <1>19, <1>20, <1>21, <1>22, <1>23, <1>24 DEF Next,
     ServiceStep, BridgeStep

\* An undisturbed Bridge never reads a loss.
LEMMA LinkStep ==
    ASSUME IInv, [Next]_vars PROVE (LinkIsSound /\ ClosureIsNotLoss)'
<1> USE DEF IInv, LinkIsSound, ClosureIsNotLoss, Listening, Linked, TypeOK
<1>1. CASE \E c \in Command : CommandStep(c)
  <2> SUFFICES ASSUME NEW c \in Command, CommandStep(c) PROVE (LinkIsSound /\ ClosureIsNotLoss)'
    BY <1>1
  <2>1. CASE StartCommand(c)
    BY <2>1 DEF StartCommand, At, Replace, Continue, Finish, fileVars, serviceVars, bridgeVars, history
  <2>2. CASE CloseAdmission(c)
    BY <2>2 DEF CloseAdmission, At, Replace, Continue, Finish, fileVars, serviceVars, bridgeVars, history
  <2>3. CASE Request(c)
    BY <2>3 DEF Request, At, Replace, Continue, Finish, fileVars, serviceVars, bridgeVars, history
  <2>4. CASE RequestFails(c)
    BY <2>4 DEF RequestFails, At, Replace, Continue, Finish, fileVars, serviceVars, bridgeVars, history
  <2>5. CASE SaveHandoff(c)
    BY <2>5 DEF SaveHandoff, At, Replace, Continue, Finish, fileVars, serviceVars, bridgeVars, history
  <2>6. CASE OpenAdmission(c)
    BY <2>6 DEF OpenAdmission, At, Replace, Continue, Finish, fileVars, serviceVars, bridgeVars, history
  <2>7. CASE OpenFails(c)
    BY <2>7 DEF OpenFails, At, Replace, Continue, Finish, fileVars, serviceVars, bridgeVars, history
  <2>8. CASE UndoHandoff(c)
    BY <2>8 DEF UndoHandoff, At, Replace, Continue, Finish, fileVars, serviceVars, bridgeVars, history
  <2>9. CASE UndoAdmission(c)
    BY <2>9 DEF UndoAdmission, At, Replace, Continue, Finish, fileVars, serviceVars, bridgeVars, history
  <2>10. CASE LoadPaused(c)
    BY <2>10 DEF LoadPaused, At, Replace, Continue, Finish, fileVars, serviceVars, bridgeVars, history
  <2>11. CASE SavePaused(c)
    BY <2>11 DEF SavePaused, At, Replace, Continue, Finish, fileVars, serviceVars, bridgeVars, history
  <2>12. CASE ClosePaused(c)
    BY <2>12 DEF ClosePaused, At, Replace, Continue, Finish, fileVars, serviceVars, bridgeVars, history
  <2>13. CASE ClearHandoff(c)
    BY <2>13 DEF ClearHandoff, At, Replace, Continue, Finish, fileVars, serviceVars, bridgeVars, history
  <2>14. CASE SaveCredential(c)
    BY <2>14 DEF SaveCredential, At, Replace, Continue, Finish, fileVars, serviceVars, bridgeVars,
       history
  <2>15. CASE Purge(c)
    BY <2>15 DEF Purge, At, Replace, Continue, Finish, fileVars, serviceVars, bridgeVars, history
  <2>16. CASE RemoveCredential(c)
    BY <2>16 DEF RemoveCredential, At, Replace, Continue, Finish, fileVars, serviceVars, bridgeVars,
       history
  <2>17. CASE RemoveHandoff(c)
    BY <2>17 DEF RemoveHandoff, At, Replace, Continue, Finish, fileVars, serviceVars, bridgeVars, history
  <2>18. CASE RemoveRecord(c)
    BY <2>18 DEF RemoveRecord, At, Replace, Continue, Finish, fileVars, serviceVars, bridgeVars, history
  <2>19. CASE CommandDies(c)
    BY <2>19 DEF CommandDies, At, Replace, Continue, Finish, fileVars, serviceVars, bridgeVars, history
  <2>20. QED
    BY <2>1, <2>2, <2>3, <2>4, <2>5, <2>6, <2>7, <2>8, <2>9, <2>10, <2>11, <2>12, <2>13,
       <2>14, <2>15, <2>16, <2>17, <2>18, <2>19 DEF CommandStep
<1>2. CASE Heartbeat
  <2>1. read'.at = "credential" => credential # "missing" /\ peer' = peer
    BY <1>2, HeartbeatShape, NothingRead
  <2>2. QED
    BY <1>2, <2>1, HeartbeatShape
<1>4. CASE ServiceGoes
  BY <1>4 DEF Nothing, ServiceGoes, To, Send, Disturb, fileVars, serviceVars, bridgeVars, history
<1>5. CASE ServiceComes
  BY <1>5 DEF ServiceComes, To, Send, fileVars, serviceVars, bridgeVars, history
<1>6. CASE FindHandoff
  BY <1>6 DEF FindHandoff, To, Send, fileVars, serviceVars, bridgeVars, history
<1>7. CASE CheckAdmission
  BY <1>7 DEF CheckAdmission, To, Send, Waiting, fileVars, serviceVars, bridgeVars, history
<1>8. CASE Connect
  BY <1>8 DEF Connect, To, Send, fileVars, serviceVars, bridgeVars, history
<1>9. CASE HeartbeatAlive
  BY <1>9 DEF HeartbeatAlive, To, Send, fileVars, serviceVars, bridgeVars, history
<1>10. CASE HeartbeatClosed
  BY <1>10 DEF HeartbeatClosed, To, Send, fileVars, serviceVars, bridgeVars, history
<1>11. CASE HeartbeatLost
  BY <1>11 DEF Nothing, HeartbeatLost, To, Send, Hangup, fileVars, serviceVars, bridgeVars, history
<1>12. CASE HeartbeatLate
  BY <1>12 DEF Nothing, HeartbeatLate, To, Send, Hangup, Disturb, fileVars, serviceVars, bridgeVars,
     history
<1>13. CASE Activate
  BY <1>13 DEF Activate, To, Send, fileVars, serviceVars, bridgeVars, history
<1>14. CASE ActivationFails
  BY <1>14 DEF ActivationFails, To, Send, fileVars, serviceVars, bridgeVars, history
<1>15. CASE RenewalRefused
  BY <1>15 DEF RenewalRefused, To, Send, fileVars, serviceVars, bridgeVars, history
<1>16. CASE TakeOver
  BY <1>16 DEF TakeOver, To, Send, fileVars, serviceVars, bridgeVars, history
<1>17. CASE PauseBinding
  BY <1>17 DEF PauseBinding, To, Send, fileVars, serviceVars, bridgeVars, history
<1>18. CASE ClearLost
  BY <1>18 DEF ClearLost, To, Send, fileVars, serviceVars, bridgeVars, history
<1>19. CASE StopBinding
  <2>1. /\ UNCHANGED <<credential, service, read, peer, disturbed, torn>>
        /\ bridge.at = "stopping" /\ bridge'.at = "refused"
    BY <1>19 DEF StopBinding, To, fileVars, serviceVars, history
  <2>2. peer = "none"
    BY <2>1
  <2>3. ~disturbed => service = "up" /\ credential # "expired"
    BY <2>1
  <2>4. QED
    BY <2>1, <2>2, <2>3
<1>20. CASE BridgeRestarts
  BY <1>20 DEF Nothing, BridgeRestarts, To, Send, Hangup, Waiting, fileVars, serviceVars, bridgeVars,
     history
<1>21. CASE Ensure
  BY <1>21 DEF Ensure, Replace, To, Send, fileVars, serviceVars, bridgeVars, history
<1>22. CASE CredentialExpires
  BY <1>22 DEF CredentialExpires, To, Send, Disturb, fileVars, serviceVars, bridgeVars, history
<1>23. CASE \E g \in Grant : ServerEnds(g)
  BY <1>23 DEF ServerEnds, fileVars, serviceVars, bridgeVars, history
<1>24. CASE UNCHANGED vars
  BY <1>24 DEF vars, fileVars, serviceVars, bridgeVars, history
<1>25. QED
  BY <1>1, <1>2, <1>4, <1>5, <1>6, <1>7, <1>8, <1>9, <1>10, <1>11, <1>12, <1>13,
     <1>14, <1>15, <1>16, <1>17, <1>18, <1>19, <1>20, <1>21, <1>22, <1>23, <1>24 DEF Next,
     ServiceStep, BridgeStep

\* The Server never forgets: a status that is set is not unset.
LEMMA StatusIsSet ==
    ASSUME TypeOK, NEW g \in 0..MaxGrant, NEW s \in {"pending", "active", "paused", "ended"},
           server' = [server EXCEPT ![g] = s]
    PROVE  GrantsKept
BY DEF TypeOK

\* No step of anyone takes a grant back.
LEMMA GrantsStay ==
    ASSUME IInv, [Next]_vars PROVE GrantsKept
<1>1. CASE \E c \in Command : CommandStep(c)
  <2> SUFFICES ASSUME NEW c \in Command, CommandStep(c) PROVE GrantsKept
    BY <1>1
  <2>1. CASE StartCommand(c) \/ CloseAdmission(c) \/ SaveHandoff(c) \/ OpenAdmission(c) \/ OpenFails(c) \/
         UndoHandoff(c) \/ UndoAdmission(c) \/ LoadPaused(c) \/ SavePaused(c) \/
         ClosePaused(c) \/ ClearHandoff(c) \/ SaveCredential(c) \/ Purge(c) \/
         RemoveCredential(c) \/ RemoveHandoff(c) \/ RemoveRecord(c) \/ CommandDies(c)
    <3>1. server' = server
      BY <2>1
         DEF StartCommand, CloseAdmission, SaveHandoff, OpenAdmission, OpenFails,
             UndoHandoff, UndoAdmission, LoadPaused, SavePaused, ClosePaused, ClearHandoff,
             SaveCredential, Purge, RemoveCredential, RemoveHandoff, RemoveRecord,
             CommandDies
    <3>2. QED
      BY <3>1 DEF IInv, TypeOK
  <2>2. CASE Request(c) \/ RequestFails(c)
    <3>1. server' = server \/ Accepts(command[c].kind, command[c].grant)
      BY <2>2 DEF Request, RequestFails
    <3>2. command[c].grant \in 0..MaxGrant
      BY DEF IInv, TypeOK
    <3>3. QED
      BY <3>1, <3>2, ServerKeepsGrants DEF IInv, TypeOK
  <2>3. QED
    BY <2>1, <2>2 DEF CommandStep
<1>2. CASE Heartbeat \/ ServiceGoes \/ ServiceComes \/ FindHandoff \/ CheckAdmission \/ Connect \/
         HeartbeatAlive \/ HeartbeatClosed \/ HeartbeatLost \/ HeartbeatLate \/ RenewalRefused \/
         TakeOver \/ ClearLost \/ BridgeRestarts \/ Ensure \/ CredentialExpires
  <2>1. server' = server
    BY <1>2, HeartbeatShape
       DEF IInv, ServiceGoes, ServiceComes, FindHandoff, CheckAdmission,
           Connect, HeartbeatAlive, HeartbeatClosed, HeartbeatLost, HeartbeatLate,
           RenewalRefused, TakeOver, ClearLost, BridgeRestarts, Ensure, CredentialExpires
  <2>2. QED
    BY <2>1 DEF IInv, TypeOK
<1>3. CASE Activate \/ ActivationFails \/ PauseBinding \/ StopBinding
  <2>1. \/ server' = server
        \/ \E s \in {"active", "paused", "ended"} : server' = [server EXCEPT ![bridge.grant] = s]
    BY <1>3 DEF Activate, ActivationFails, PauseBinding, StopBinding
  <2>2. bridge.grant \in 0..MaxGrant
    BY DEF IInv, TypeOK
  <2>3. QED
    BY <2>1, <2>2, StatusIsSet DEF IInv, TypeOK
<1>4. CASE \E g \in Grant : ServerEnds(g)
  <2> PICK g \in Grant : ServerEnds(g)
    BY <1>4
  <2>1. server' = [server EXCEPT ![g] = "ended"]
    BY DEF ServerEnds
  <2>2. g \in 0..MaxGrant
    OBVIOUS
  <2>3. QED
    BY <2>1, <2>2, StatusIsSet DEF IInv
<1>5. CASE UNCHANGED vars
  BY <1>5 DEF IInv, TypeOK, vars, fileVars, serviceVars, bridgeVars, history
<1>6. QED
  BY <1>1, <1>2, <1>3, <1>4, <1>5 DEF Next, ServiceStep, BridgeStep

\* Nothing but a command, the Server or a disturbance undoes a completed pause.
LEMMA PauseStep ==
    ASSUME IInv, [Next]_vars PROVE (PauseIsLast /\ PauseIsNotUpgraded)'
<1> USE DEF IInv
<1>1. CASE \E c \in Command : CommandStep(c)
  <2> SUFFICES ASSUME NEW c \in Command, CommandStep(c) PROVE (PauseIsLast /\ PauseIsNotUpgraded)'
    BY <1>1
  <2>1. CASE StartCommand(c)
    BY <2>1 DEF StartCommand, PauseIsLast, PauseIsNotUpgraded, bridgeVars
  <2>2. CASE ClosePaused(c)
    <3>1. kept' # 0 => /\ ~disturbed /\ handoff = kept' /\ server[kept'] = "paused"
                       /\ \A d \in Command \ {c} : command[d] = Idle
      BY <2>2 DEF ClosePaused
    <3>2. command'[c] = Idle /\ \A d \in Command \ {c} : command'[d] = command[d]
      BY <2>2 DEF ClosePaused, Finish, TypeOK
    <3>3. gate' = 0 /\ UNCHANGED <<handoff, server, disturbed, bridge>>
      BY <2>2 DEF ClosePaused, bridgeVars
    <3>4. QED
      BY <3>1, <3>2, <3>3 DEF PauseIsLast, PauseIsNotUpgraded
  <2>3. CASE CloseAdmission(c) \/ Request(c) \/ RequestFails(c) \/ SaveHandoff(c) \/ OpenAdmission(c) \/
         OpenFails(c) \/ UndoHandoff(c) \/ UndoAdmission(c) \/ LoadPaused(c) \/ SavePaused(c) \/
         ClearHandoff(c) \/ SaveCredential(c) \/ Purge(c) \/ RemoveCredential(c) \/
         RemoveHandoff(c) \/ RemoveRecord(c) \/ CommandDies(c)
    <3>1. CommandDies(c) \/ command[c].at # "idle"
      BY <2>3
         DEF CloseAdmission, Request, RequestFails, SaveHandoff, OpenAdmission, OpenFails,
             UndoHandoff, UndoAdmission, LoadPaused, SavePaused, ClearHandoff,
             SaveCredential, Purge, RemoveCredential, RemoveHandoff, RemoveRecord, At
    <3>2. command[c] # Idle
      BY <3>1 DEF CommandDies, Idle
    <3>3. kept' = kept /\ bridge' = bridge
      BY <2>3
         DEF CloseAdmission, Request, RequestFails, SaveHandoff, OpenAdmission, OpenFails,
             UndoHandoff, UndoAdmission, LoadPaused, SavePaused, ClearHandoff,
             SaveCredential, Purge, RemoveCredential, RemoveHandoff, RemoveRecord,
             CommandDies, history, bridgeVars
    <3>4. QED
      BY <3>2, <3>3 DEF PauseIsLast, PauseIsNotUpgraded
  <2>4. QED
    BY <2>1, <2>2, <2>3 DEF CommandStep
<1>2. CASE ServiceGoes \/ HeartbeatLate \/ CredentialExpires
  <2>1. kept' = 0 /\ bridge'.at = "found" => bridge'.grant # 0
    BY <1>2 DEF ServiceGoes, HeartbeatLate, CredentialExpires, Disturb, To, bridgeVars,
                PauseIsLast, TypeOK
  <2>2. QED
    BY <1>2, <2>1 DEF PauseIsLast, PauseIsNotUpgraded, ServiceGoes, HeartbeatLate,
                CredentialExpires, Disturb
<1>3. CASE FindHandoff \/ CheckAdmission
  <2>1. UNCHANGED <<handoff, gate, server, kept, command, disturbed, torn>>
    BY <1>3 DEF FindHandoff, CheckAdmission, fileVars, history
  <2>2. /\ bridge'.at = "found" => bridge'.grant # 0
        /\ bridge'.at = "admitted" => gate # 0
    BY <1>3 DEF FindHandoff, CheckAdmission, AdmissionIsOpen, To, Waiting, PauseIsLast, TypeOK
  <2>3. QED
    BY <2>1, <2>2 DEF PauseIsLast, PauseIsNotUpgraded
<1>4. CASE Connect
  <2>1. /\ UNCHANGED <<handoff, gate, server, command>>
        /\ kept' = IF disturbed' THEN 0 ELSE kept
        /\ bridge.at = "admitted" /\ bridge'.at \in {"dialing", "lost"}
    BY <1>4 DEF Connect, fileVars, To, TypeOK
  <2>2. QED
    BY <2>1 DEF PauseIsLast, PauseIsNotUpgraded
<1>41. CASE ClearLost \/ StopBinding
  <2>1. /\ UNCHANGED <<gate, kept, command, disturbed, torn>>
        /\ bridge'.at \in {"stopping", "refused"}
        /\ kept # 0 => torn
    BY <1>41 DEF ClearLost, StopBinding, ClosureIsNotLoss, PauseIsLast, fileVars, history, To,
                 TypeOK
  <2>2. QED
    BY <2>1 DEF PauseIsLast, PauseIsNotUpgraded
<1>5. CASE Activate \/ ActivationFails \/ PauseBinding
  <2>1. /\ UNCHANGED <<handoff, gate, kept, command, disturbed, torn>>
        /\ bridge'.at \in {"executing", "refused"}
    BY <1>5 DEF Activate, ActivationFails, PauseBinding, fileVars, history, To, TypeOK
  <2>2. \/ server' = server
        \/ /\ server[bridge.grant] # "paused"
           /\ \E s \in {"active", "paused"} : server' = [server EXCEPT ![bridge.grant] = s]
    BY <1>5 DEF Activate, ActivationFails, PauseBinding, Live
  <2>3. kept # 0 /\ ~torn => server'[kept] = "paused"
    <3>1. kept \in 0..MaxGrant /\ server \in [Grant -> {"unused", "pending", "active", "paused", "ended"}]
      BY DEF TypeOK
    <3>2. QED
      BY <2>2, <3>1 DEF PauseIsNotUpgraded
  <2>4. QED
    BY <2>1, <2>3 DEF PauseIsLast, PauseIsNotUpgraded
<1>6. CASE ServiceComes \/ HeartbeatAlive \/ HeartbeatClosed \/ HeartbeatLost \/
         RenewalRefused \/ TakeOver \/ BridgeRestarts \/ Ensure
  <2>1. UNCHANGED <<handoff, gate, server, kept, command, disturbed, torn>>
    BY <1>6
       DEF ServiceComes, HeartbeatAlive, HeartbeatClosed, HeartbeatLost, RenewalRefused,
           TakeOver, BridgeRestarts, Ensure, fileVars, history
  <2>2. bridge' = bridge \/ bridge'.at \notin {"found", "admitted"}
    BY <1>6
       DEF ServiceComes, HeartbeatAlive, HeartbeatClosed, HeartbeatLost, RenewalRefused,
           TakeOver, BridgeRestarts, Ensure, bridgeVars, To, Waiting, TypeOK
  <2>3. QED
    BY <2>1, <2>2 DEF PauseIsLast, PauseIsNotUpgraded
<1>61. CASE Heartbeat
  <2>1. UNCHANGED <<handoff, gate, server, kept, command, disturbed, bridge>> /\ (torn => torn')
    BY <1>61, HeartbeatShape
  <2>2. QED
    BY <2>1 DEF PauseIsLast, PauseIsNotUpgraded
<1>7. CASE \E g \in Grant : ServerEnds(g)
  BY <1>7 DEF ServerEnds, PauseIsLast, PauseIsNotUpgraded, fileVars, bridgeVars
<1>8. CASE UNCHANGED vars
  BY <1>8 DEF PauseIsLast, PauseIsNotUpgraded, vars, fileVars, serviceVars, bridgeVars, history
<1>9. QED
  BY <1>1, <1>2, <1>3, <1>4, <1>41, <1>5, <1>6, <1>61, <1>7, <1>8 DEF Next, ServiceStep, BridgeStep

\* A command learns of a grant from the user, who names one that was made, or from the answer.
LEMMA NamesStep ==
    ASSUME IInv, [Next]_vars PROVE CommandsNameGrants'
<1> USE DEF IInv
<1>1. CASE \E c \in Command : CommandStep(c)
  <2> SUFFICES ASSUME NEW c \in Command, CommandStep(c) PROVE CommandsNameGrants'
    BY <1>1
  <2>1. CASE StartCommand(c)
    <3>. DEFINE Started(kind, g) ==
                [kind |-> kind, at |-> IF kind \in Reducing THEN "close" ELSE "request",
                 grant |-> g, kept |-> kind = "allowlist" /\ handoff = g]
    <3>1. PICK kind \in Offered[c] : \E g \in Named(kind) :
              command' = [command EXCEPT ![c] = Started(kind, g)]
      BY <2>1 DEF StartCommand
    <3>. PICK g \in Named(kind) : command' = [command EXCEPT ![c] = Started(kind, g)]
      BY <3>1
    <3>2. g # 0 => server[g] # "unused"
      BY DEF Named
    <3>3. server' = server
      BY <2>1 DEF StartCommand
    <3>4. command'[c].grant = g /\ \A d \in Command \ {c} : command'[d] = command[d]
      BY DEF TypeOK
    <3>5. QED
      BY <3>2, <3>3, <3>4 DEF CommandsNameGrants
  <2>2. CASE Request(c)
    <3>1. /\ command'[c].grant = IF command[c].kind \in Granting THEN NextGrant ELSE command[c].grant
          /\ \A d \in Command \ {c} : command'[d] = command[d]
      BY <2>2 DEF Request, TypeOK
    <3>2. command[c].kind \in Granting => NextGrant \in Grant /\ server'[NextGrant] # "unused"
      BY <2>2, ServerKeepsGrants DEF Request, TypeOK
    <3>3. \A d \in Command : command[d].grant # 0 => server'[command[d].grant] # "unused"
      BY GrantsStay DEF CommandsNameGrants, TypeOK
    <3>4. QED
      BY <3>1, <3>2, <3>3 DEF CommandsNameGrants
  <2>3. CASE RequestFails(c) \/ CloseAdmission(c) \/ SaveHandoff(c) \/ OpenAdmission(c) \/ OpenFails(c) \/
         UndoHandoff(c) \/ UndoAdmission(c) \/ LoadPaused(c) \/ SavePaused(c) \/
         ClosePaused(c) \/ ClearHandoff(c) \/ SaveCredential(c) \/ Purge(c) \/
         RemoveCredential(c) \/ RemoveHandoff(c) \/ RemoveRecord(c) \/ CommandDies(c)
    <3>1. \E step : Continue(c, step) \/ Finish(c)
      BY <2>3
         DEF RequestFails, CloseAdmission, SaveHandoff, OpenAdmission, OpenFails,
             UndoHandoff, UndoAdmission, LoadPaused, SavePaused, ClosePaused, ClearHandoff,
             SaveCredential, Purge, RemoveCredential, RemoveHandoff, RemoveRecord,
             CommandDies
    <3>2. \A d \in Command : command'[d].grant \in {command[d].grant, 0}
      BY <3>1, CommandGoesOn
    <3>3. \A d \in Command : command[d].grant # 0 => server'[command[d].grant] # "unused"
      BY GrantsStay DEF CommandsNameGrants, TypeOK
    <3>4. QED
      BY <3>2, <3>3 DEF CommandsNameGrants
  <2>4. QED
    BY <2>1, <2>2, <2>3 DEF CommandStep
<1>2. CASE Heartbeat \/ ServiceGoes \/ ServiceComes \/ FindHandoff \/ CheckAdmission \/ Connect \/
         HeartbeatAlive \/ HeartbeatClosed \/ HeartbeatLost \/ HeartbeatLate \/ Activate \/
         ActivationFails \/ RenewalRefused \/ TakeOver \/ PauseBinding \/ ClearLost \/
         StopBinding \/ BridgeRestarts \/ Ensure \/ CredentialExpires
  <2>1. command' = command
    BY <1>2, HeartbeatShape
       DEF ServiceGoes, ServiceComes, FindHandoff, CheckAdmission,
           Connect, HeartbeatAlive, HeartbeatClosed, HeartbeatLost, HeartbeatLate,
           Activate, ActivationFails, RenewalRefused, TakeOver, PauseBinding, ClearLost,
           StopBinding, BridgeRestarts, Ensure, CredentialExpires
  <2>2. QED
    BY <2>1, GrantsStay DEF TypeOK, CommandsNameGrants
<1>3. CASE \E g \in Grant : ServerEnds(g)
  <2>1. command' = command
    BY <1>3 DEF ServerEnds
  <2>2. QED
    BY <2>1, GrantsStay DEF TypeOK, CommandsNameGrants
<1>4. CASE UNCHANGED vars
  BY <1>4 DEF CommandsNameGrants, vars, fileVars, serviceVars, bridgeVars, history
<1>5. QED
  BY <1>1, <1>2, <1>3, <1>4 DEF Next, ServiceStep, BridgeStep

\* The step a command goes on to is one of its steps.
LEMMA NextSteps == \A kind : AfterClose(kind) \in Step /\ AfterAnswer(kind) \in Step
BY DEF AfterClose, AfterAnswer, Step

\* Commands keep their types.
LEMMA CommandTypesStep ==
    ASSUME IInv, [Next]_vars PROVE CommandTypes'
<1> USE DEF IInv
<1>1. CASE \E c \in Command : CommandStep(c)
  <2> SUFFICES ASSUME NEW c \in Command, CommandStep(c) PROVE CommandTypes'
    BY <1>1
  <2>1. CASE StartCommand(c)
    <3>1. PICK kind \in Offered[c] : \E g \in Named(kind) : \E k \in BOOLEAN :
              command' = [command EXCEPT ![c] =
                  [kind |-> kind, at |-> IF kind \in Reducing THEN "close" ELSE "request",
                   grant |-> g, kept |-> k]]
      BY <2>1 DEF StartCommand
    <3>2. kind \in Kind /\ \A g \in Named(kind) : g \in 0..MaxGrant
      BY DEF Named
    <3>3. QED
      BY <3>1, <3>2 DEF TypeOK, CommandTypes, Step
  <2>2. CASE Request(c)
    <3>1. AfterAnswer(command[c].kind) \in Step
      BY NextSteps
    <3>2. command[c].kind \in Granting => NextGrant \in 0..MaxGrant
      BY <2>2, ServerKeepsGrants DEF Request, TypeOK
    <3>3. command[c] \in [kind : Kind \cup {"none"}, at : Step, grant : 0..MaxGrant, kept : BOOLEAN]
      BY DEF TypeOK
    <3>4. PICK s \in Step, g \in 0..MaxGrant :
              command' = [command EXCEPT ![c].at = s, ![c].grant = g]
      BY <2>2, <3>1, <3>2, <3>3 DEF Request
    <3>5. CommandTypes
      BY DEF TypeOK, CommandTypes
    <3>6. QED
      BY <3>4, <3>5 DEF CommandTypes
  <2>3. CASE CloseAdmission(c) \/ RequestFails(c) \/ SaveHandoff(c) \/ OpenAdmission(c) \/ OpenFails(c) \/
         UndoHandoff(c) \/ UndoAdmission(c) \/ LoadPaused(c) \/ SavePaused(c) \/
         ClosePaused(c) \/ ClearHandoff(c) \/ SaveCredential(c) \/ Purge(c) \/
         RemoveCredential(c) \/ RemoveHandoff(c) \/ RemoveRecord(c) \/ CommandDies(c)
    <3>1. AfterClose(command[c].kind) \in Step
      BY NextSteps
    <3>2. \E step \in Step : Continue(c, step) \/ Finish(c)
      BY <2>3, <3>1
         DEF CloseAdmission, RequestFails, SaveHandoff, OpenAdmission, OpenFails,
             UndoHandoff, UndoAdmission, LoadPaused, SavePaused, ClosePaused, ClearHandoff,
             SaveCredential, Purge, RemoveCredential, RemoveHandoff, RemoveRecord,
             CommandDies, Step
    <3>3. Idle \in [kind : Kind \cup {"none"}, at : Step, grant : 0..MaxGrant, kept : BOOLEAN]
      BY DEF Idle, Step
    <3>4. CommandTypes
      BY DEF TypeOK, CommandTypes
    <3>5. QED
      BY <3>2, <3>3, <3>4 DEF Continue, Finish, CommandTypes
  <2>4. QED
    BY <2>1, <2>2, <2>3 DEF CommandStep
<1>2. CASE Heartbeat \/ ServiceGoes \/ ServiceComes \/ FindHandoff \/ CheckAdmission \/ Connect \/
         HeartbeatAlive \/ HeartbeatClosed \/ HeartbeatLost \/ HeartbeatLate \/ Activate \/
         ActivationFails \/ RenewalRefused \/ TakeOver \/ PauseBinding \/ ClearLost \/
         StopBinding \/ BridgeRestarts \/ Ensure \/ CredentialExpires
  <2>1. command' = command
    BY <1>2, HeartbeatShape
       DEF ServiceGoes, ServiceComes, FindHandoff, CheckAdmission,
           Connect, HeartbeatAlive, HeartbeatClosed, HeartbeatLost, HeartbeatLate,
           Activate, ActivationFails, RenewalRefused, TakeOver, PauseBinding, ClearLost,
           StopBinding, BridgeRestarts, Ensure, CredentialExpires
  <2>2. QED
    BY <2>1 DEF TypeOK, CommandTypes
<1>3. CASE \E g \in Grant : ServerEnds(g)
  BY <1>3 DEF ServerEnds, CommandTypes, TypeOK
<1>4. CASE UNCHANGED vars
  BY <1>4 DEF CommandTypes, TypeOK, vars, fileVars, serviceVars, bridgeVars, history
<1>5. QED
  BY <1>1, <1>2, <1>3, <1>4 DEF Next, ServiceStep, BridgeStep

\* The files keep their types, and name only grants that were made.
LEMMA FileTypesStep ==
    ASSUME IInv, [Next]_vars PROVE FileTypes'
<1> USE DEF IInv
<1>1. CASE \E c \in Command : CommandStep(c)
  <2> SUFFICES ASSUME NEW c \in Command, CommandStep(c) PROVE FileTypes'
    BY <1>1
  <2>1. CASE StartCommand(c) \/ CloseAdmission(c) \/ Request(c) \/ RequestFails(c) \/ SaveHandoff(c) \/
         OpenAdmission(c) \/ OpenFails(c) \/ UndoHandoff(c) \/ UndoAdmission(c) \/
         LoadPaused(c) \/ SavePaused(c) \/ ClosePaused(c) \/ ClearHandoff(c) \/
         SaveCredential(c) \/ Purge(c) \/ RemoveCredential(c) \/ RemoveHandoff(c) \/
         RemoveRecord(c) \/ CommandDies(c)
    <3>1. /\ credential' \in {credential, "valid", "missing"}
          /\ handoff' \in {0, handoff, command[c].grant} /\ gate' \in {0, gate, command[c].grant}
          /\ kept' \in {0, kept, command[c].grant}
      BY <2>1
         DEF StartCommand, CloseAdmission, Request, RequestFails, SaveHandoff,
             OpenAdmission, OpenFails, UndoHandoff, UndoAdmission, LoadPaused, SavePaused,
             ClosePaused, ClearHandoff, SaveCredential, Purge, RemoveCredential,
             RemoveHandoff, RemoveRecord, CommandDies, fileVars, history
    <3>2. read' = read \/ \E b \in BOOLEAN : read' = [read EXCEPT !.torn = b]
      BY <2>1
         DEF StartCommand, CloseAdmission, Request, RequestFails, SaveHandoff,
             OpenAdmission, OpenFails, UndoHandoff, UndoAdmission, LoadPaused, SavePaused,
             ClosePaused, ClearHandoff, SaveCredential, Purge, RemoveCredential,
             RemoveHandoff, RemoveRecord, CommandDies, Replace, serviceVars, TypeOK
    <3>3. /\ read' \in [at : ReadStep, torn : BOOLEAN, grant : 0..MaxGrant]
          /\ read'.grant = read.grant
      BY <3>2 DEF TypeOK
    <3>4. QED
      BY <3>1, <3>3, GrantsStay DEF TypeOK, FileTypes, Made, CommandsNameGrants
  <2>2. QED
    BY <2>1 DEF CommandStep
<1>2. CASE Heartbeat \/ ServiceGoes \/ ServiceComes \/ FindHandoff \/ CheckAdmission \/ Connect \/
         HeartbeatAlive \/ HeartbeatClosed \/ HeartbeatLost \/ HeartbeatLate \/ Activate \/
         ActivationFails \/ RenewalRefused \/ TakeOver \/ PauseBinding \/ ClearLost \/
         StopBinding \/ BridgeRestarts \/ Ensure \/ CredentialExpires
  <2>1. /\ credential' \in {credential, "valid", "expired"}
        /\ handoff' \in {0, handoff} /\ gate' = gate
        /\ kept' \in {0, kept}
    BY <1>2, HeartbeatShape
       DEF ServiceGoes, ServiceComes, FindHandoff, CheckAdmission,
           Connect, HeartbeatAlive, HeartbeatClosed, HeartbeatLost, HeartbeatLate,
           Activate, ActivationFails, RenewalRefused, TakeOver, PauseBinding, ClearLost,
           StopBinding, BridgeRestarts, Ensure, CredentialExpires, Disturb,
           fileVars, history
  <2>2. \/ read' \in {read, Nothing} \/ \E b \in BOOLEAN : read' = [read EXCEPT !.torn = b]
        \/ \E s \in ReadStep : \E g \in {read.grant, handoff} :
              read' = [read EXCEPT !.at = s, !.grant = g]
    BY <1>2, HeartbeatShape
       DEF ServiceGoes, ServiceComes, FindHandoff, CheckAdmission,
           Connect, HeartbeatAlive, HeartbeatClosed, HeartbeatLost, HeartbeatLate,
           Activate, ActivationFails, RenewalRefused, TakeOver, PauseBinding, ClearLost,
           StopBinding, BridgeRestarts, Ensure, CredentialExpires, Hangup,
           Replace, serviceVars, TypeOK
  <2>3. /\ read' \in [at : ReadStep, torn : BOOLEAN, grant : 0..MaxGrant]
        /\ read'.grant \in {0, read.grant, handoff}
    <3>1. /\ read \in [at : ReadStep, torn : BOOLEAN, grant : 0..MaxGrant]
          /\ handoff \in 0..MaxGrant
      BY DEF TypeOK
    <3>2. QED
      BY <2>2, <3>1, NothingRead
  <2>4. QED
    BY <2>1, <2>3, GrantsStay DEF TypeOK, FileTypes, Made
<1>3. CASE \E g \in Grant : ServerEnds(g)
  <2>1. UNCHANGED <<credential, handoff, gate, read>> /\ kept' = 0
    BY <1>3 DEF ServerEnds, fileVars, serviceVars
  <2>2. QED
    BY <2>1, GrantsStay DEF TypeOK, FileTypes, Made
<1>4. CASE UNCHANGED vars
  BY <1>4 DEF FileTypes, Made, TypeOK, vars, fileVars, serviceVars, bridgeVars, history
<1>5. QED
  BY <1>1, <1>2, <1>3, <1>4 DEF Next, ServiceStep, BridgeStep

\* The service and the Bridge keep their types.
LEMMA ProcessTypesStep ==
    ASSUME IInv, [Next]_vars PROVE ProcessTypes'
<1> USE DEF IInv
<1>1. CASE \E c \in Command : CommandStep(c)
  <2> SUFFICES ASSUME NEW c \in Command, CommandStep(c) PROVE ProcessTypes'
    BY <1>1
  <2>1. CASE StartCommand(c) \/ CloseAdmission(c) \/ Request(c) \/ RequestFails(c) \/ SaveHandoff(c) \/
         OpenAdmission(c) \/ OpenFails(c) \/ UndoHandoff(c) \/ UndoAdmission(c) \/
         LoadPaused(c) \/ SavePaused(c) \/ ClosePaused(c) \/ ClearHandoff(c) \/
         SaveCredential(c) \/ Purge(c) \/ RemoveCredential(c) \/ RemoveHandoff(c) \/
         RemoveRecord(c) \/ CommandDies(c)
    <3>1. UNCHANGED <<service, disturbed, torn, peer, bridge>>
      BY <2>1
         DEF StartCommand, CloseAdmission, Request, RequestFails, SaveHandoff,
             OpenAdmission, OpenFails, UndoHandoff, UndoAdmission, LoadPaused, SavePaused,
             ClosePaused, ClearHandoff, SaveCredential, Purge, RemoveCredential,
             RemoveHandoff, RemoveRecord, CommandDies, Replace, serviceVars, bridgeVars, history
    <3>2. quiet' \in BOOLEAN
      BY <2>1
         DEF StartCommand, CloseAdmission, Request, RequestFails, SaveHandoff,
             OpenAdmission, OpenFails, UndoHandoff, UndoAdmission, LoadPaused, SavePaused,
             ClosePaused, ClearHandoff, SaveCredential, Purge, RemoveCredential,
             RemoveHandoff, RemoveRecord, CommandDies, history, TypeOK
    <3>3. QED
      BY <3>1, <3>2, GrantsStay DEF TypeOK, ProcessTypes, Made
  <2>2. QED
    BY <2>1 DEF CommandStep
<1>2. CASE Heartbeat \/ ServiceGoes \/ ServiceComes \/ FindHandoff \/ CheckAdmission \/ Connect \/
         HeartbeatAlive \/ HeartbeatClosed \/ HeartbeatLost \/ HeartbeatLate \/ Activate \/
         ActivationFails \/ RenewalRefused \/ TakeOver \/ PauseBinding \/ ClearLost \/
         StopBinding \/ BridgeRestarts \/ Ensure \/ CredentialExpires
  <2>1. /\ service' \in {"up", "down"}
        /\ peer' \in {peer, "none", "silent", "EGB1", "EGB0", "eof"}
        /\ quiet' = quiet
    BY <1>2, HeartbeatShape
       DEF ServiceGoes, ServiceComes, FindHandoff, CheckAdmission,
           Connect, HeartbeatAlive, HeartbeatClosed, HeartbeatLost, HeartbeatLate,
           Activate, ActivationFails, RenewalRefused, TakeOver, PauseBinding, ClearLost,
           StopBinding, BridgeRestarts, Ensure, CredentialExpires, Hangup, Disturb,
           Replace, serviceVars, bridgeVars, history, TypeOK
  <2>2. disturbed' \in BOOLEAN /\ torn' \in BOOLEAN
    BY <1>2, HeartbeatShape
       DEF ServiceGoes, ServiceComes, FindHandoff, CheckAdmission,
           Connect, HeartbeatAlive, HeartbeatClosed, HeartbeatLost, HeartbeatLate,
           Activate, ActivationFails, RenewalRefused, TakeOver, PauseBinding, ClearLost,
           StopBinding, BridgeRestarts, Ensure, CredentialExpires, Disturb, history,
           TypeOK
  <2>3. \/ bridge' \in {bridge, Waiting, [at |-> "found", grant |-> handoff]}
        \/ \E s \in {"admitted", "dialing", "activating", "executing",
                     "pausing", "refused", "lost", "stopping"} :
              bridge' = [bridge EXCEPT !.at = s]
    BY <1>2, HeartbeatShape
       DEF ServiceGoes, ServiceComes, FindHandoff, CheckAdmission,
           Connect, HeartbeatAlive, HeartbeatClosed, HeartbeatLost, HeartbeatLate,
           Activate, ActivationFails, RenewalRefused, TakeOver, PauseBinding, ClearLost,
           StopBinding, BridgeRestarts, Ensure, CredentialExpires, To, bridgeVars
  <2>4. /\ bridge' \in [at : {"waiting", "found", "admitted", "dialing", "activating", "executing",
                             "pausing", "refused", "lost", "stopping"},
                       grant : 0..MaxGrant]
        /\ bridge'.grant \in {bridge.grant, 0, handoff}
    BY <2>3 DEF TypeOK, Waiting
  <2>5. QED
    BY <2>1, <2>2, <2>4, GrantsStay DEF TypeOK, ProcessTypes, Made
<1>3. CASE \E g \in Grant : ServerEnds(g)
  <2>1. UNCHANGED <<service, quiet, disturbed, torn, peer, bridge>>
    BY <1>3 DEF ServerEnds, serviceVars, bridgeVars
  <2>2. QED
    BY <2>1, GrantsStay DEF TypeOK, ProcessTypes, Made
<1>4. CASE UNCHANGED vars
  BY <1>4 DEF ProcessTypes, Made, TypeOK, vars, fileVars, serviceVars, bridgeVars, history
<1>5. QED
  BY <1>1, <1>2, <1>3, <1>4 DEF Next, ServiceStep, BridgeStep

\* Every step preserves the inductive invariant.
LEMMA StepIInv == IInv /\ [Next]_vars => IInv'
<1> SUFFICES ASSUME IInv, [Next]_vars PROVE IInv'
  OBVIOUS
<1>1. TypeOK'
  BY GrantsStay, CommandTypesStep, FileTypesStep, ProcessTypesStep
     DEF TypeOK, CommandTypes, FileTypes, ProcessTypes, Made
<1>2. QED
  BY <1>1, NamesStep, QuietStep, LinkStep, PauseStep DEF IInv

\* The inductive invariant holds in every reachable state.
THEOREM Inductive == Spec => []IInv
BY InitIInv, StepIInv, PTL DEF Spec

\* The files, the Bridge and the service name only grants the Server has made,
\* for any number of commands and grants.
THEOREM TypeCorrect == Spec => []TypeOK
BY Inductive, PTL DEF IInv

\* No outage, crash or restart reopens an admission that a command closed, for
\* any number of concurrent commands.
THEOREM ClosedStaysClosed == Spec => []OutageKeepsClosed
<1>1. IInv => OutageKeepsClosed
  BY DEF IInv, QuietMeansClosed, OutageKeepsClosed
<1>2. QED
  BY Inductive, <1>1, PTL

\* An intentional close is not taken for the loss of the Device service, at
\* whatever step of whatever commands the service looks at the files, unless a
\* command replaces the very file the service is reading.
THEOREM CloseIsNotLoss == Spec => []ClosureIsNotLoss
BY Inductive, PTL DEF IInv

\* A completed pause stays a pause that can be resumed, unless a read of the
\* service was torn since the Bridge dialled.
THEOREM PauseStaysPause == Spec => []PauseIsNotUpgraded
BY Inductive, PTL DEF IInv
=============================================================================
