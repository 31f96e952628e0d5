------------------------ MODULE DeviceIdentityProofs ------------------------
(***************************************************************************)
(* The device never loses the key the Server knows it by, for any number of *)
(* keys, operations and policy revisions: at every moment the rotation      *)
(* record, the two key files and the Server agree on how far a rotation is  *)
(* (IInv).  On that rest the order of the Server's answers (RInv), by which  *)
(* a finished rotation leaves the credential of its key, and what commands   *)
(* know of the policy (MInv), by which a migration can be finished.          *)
(***************************************************************************)
EXTENDS DeviceIdentity, TLAPS

\* Operations and keys that have been handed out, and those that have not.
HandedOut ==
    /\ \A op \in Op : op > ops => rotated[op] = NoCredential
    /\ \A r \in net : r.op <= ops /\ r.key # NoKey
    /\ rotation.op <= ops

\* What may exist before the Server knows the device.
NewDevice ==
    /\ server.key # NoKey => key # NoKey
    /\ server.key = NoKey =>
        /\ rotation = NoRotation /\ nextKey = NoKey /\ credential = NoCredential
        /\ command.name # "rotate"
        /\ \A r \in net : r.endpoint = "ensure" /\ r.key = key
        /\ \A op \in Op : enrolled[op] = NoCredential

\* How far a rotation is, in the record, the key files and at the Server.
RotationUnderWay ==
    rotation # NoRotation =>
        /\ rotation.op # 0
        /\ rotation.to.generation = rotation.from.generation + 1
        /\ key \in {rotation.from, rotation.to}
        /\ nextKey \in {NoKey, rotation.to}
        /\ key = rotation.from => nextKey = rotation.to
        /\ IF rotated[rotation.op] = NoCredential
           THEN key = rotation.from /\ server.key = rotation.from
           ELSE server.key = rotation.to /\ rotated[rotation.op].key = rotation.to

NoRotationUnderWay ==
    rotation = NoRotation =>
        /\ nextKey # NoKey => nextKey.generation = key.generation + 1
        /\ server.key \in {NoKey, key}

\* A rotate request is answered, or it is the recorded rotation's.
RequestsRecorded ==
    \A r \in net : r.endpoint = "rotate" =>
        \/ rotated[r.op] # NoCredential
        \/ rotation # NoRotation /\ rotation.op = r.op /\ rotation.to = r.key

\* What the holder of the registration lock has done already.
EnsureSteps ==
    command.name = "ensure" =>
        /\ command.at = "generate" <=> key = NoKey
        /\ command.at \in {"inputs", "request", "answer"} => command.op # 0

RotateSteps ==
    command.name = "rotate" =>
        /\ command.at \in {"prepare", "record", "request", "answer", "credential",
                           "remove", "clear"}
        /\ command.at = "prepare" => nextKey = NoKey /\ rotation = NoRotation
        /\ command.at \notin {"prepare", "clear"} => nextKey # NoKey
        /\ command.at \notin {"prepare", "record"} =>
              rotation # NoRotation /\ command.op = rotation.op
        /\ command.at \in {"credential", "remove", "clear"} => key = rotation.to
        /\ command.at = "clear" => nextKey = NoKey

\* The operation a pending registration or a command goes by was handed out.
PendingOps ==
    /\ pending # NoPending => pending.op # 0
    /\ pending.op <= ops /\ command.op <= ops

\* A policy update has an operation key until its credential is saved, if it
\* has a credential to renew.
UpdateSteps == update.at \in {"answer", "credential"} => update.op # 0

IInv ==
    /\ TypeOK
    /\ HandedOut /\ NewDevice
    /\ RotationUnderWay /\ NoRotationUnderWay /\ RequestsRecorded
    /\ EnsureSteps /\ RotateSteps /\ PendingOps /\ UpdateSteps

-----------------------------------------------------------------------------
(* Types.                                                                   *)

\* The empty values have the types of what they stand for.
LEMMA EmptyTypes ==
    /\ NoKey \in Key /\ NoCredential \in Credential
    /\ NoPending \in Pendings /\ NoRotation \in Rotations
    /\ NoCommand \in Commands /\ NoUpdate \in Updates
<1>1. NoKey \in Key
  BY DEF NoKey, Key
<1>2. NoCredential \in Credential
  BY <1>1 DEF NoCredential, Credential
<1>3. NoPending \in Pendings /\ NoRotation \in Rotations
  BY <1>1, IdentityAssumption DEF NoPending, NoRotation, Pendings, Rotations
<1>4. NoCommand \in Commands
  BY IdentityAssumption DEF NoCommand, Commands, Step
<1>5. NoUpdate \in Updates
  BY IdentityAssumption DEF NoUpdate, Updates
<1>6. QED
  BY <1>1, <1>2, <1>3, <1>4, <1>5

\* The initial state is typed.
LEMMA InitTypes == Init => TypeOK
<1> SUFFICES ASSUME Init PROVE TypeOK
  OBVIOUS
<1>1. server \in [key : Key, revision : Nat]
  BY EmptyTypes DEF Init
<1>2. enrolled \in [Op -> Credential] /\ rotated \in [Op -> Credential]
  BY EmptyTypes DEF Init
<1>3. made \in 0..MaxKey /\ ops \in 0..MaxOp
  BY IdentityAssumption DEF Init
<1>4. QED
  BY <1>1, <1>2, <1>3, EmptyTypes DEF Init, TypeOK

\* A command that goes on is a command.
LEMMA ContinueTyped ==
    ASSUME NEW step \in Step, command \in Commands, Continue(step)
    PROVE  command' \in Commands
BY DEF Continue, Commands

\* Generated idempotency keys are operations.
LEMMA FreshOpTyped ==
    ASSUME ops \in 0..MaxOp, ops < MaxOp
    PROVE  FreshOp \in Op /\ FreshOp \in 0..MaxOp
BY IdentityAssumption DEF FreshOp, Op

\* A command that has an operation key finds an answer of the right type.
LEMMA AnswerTyped ==
    ASSUME enrolled \in [Op -> Credential], rotated \in [Op -> Credential],
           NEW op \in 0..MaxOp, op # 0
    PROVE  op \in Op /\ enrolled[op] \in Credential /\ rotated[op] \in Credential
BY IdentityAssumption DEF Op

\* ensure begins as a command.
LEMMA EnsureTyped ==
    ASSUME NEW c \in Commands, NEW step \in Step, NEW ordinary \in BOOLEAN,
           NEW again \in BOOLEAN, NEW resumed \in BOOLEAN, NEW previous \in Nat
    PROVE  [c EXCEPT !.name = "ensure", !.at = step, !.ordinary = ordinary,
                     !.again = again, !.resumed = resumed, !.previous = previous] \in Commands
BY DEF Commands

\* A command that has loaded its inputs is a command.
LEMMA InputsTyped ==
    ASSUME NEW c \in Commands, NEW step \in Step, NEW revision \in Nat,
           NEW migrates \in BOOLEAN, NEW resumed \in BOOLEAN
    PROVE  [c EXCEPT !.at = step, !.again = FALSE, !.policy = revision,
                     !.migrates = migrates, !.resumed = resumed] \in Commands
BY DEF Commands

\* An update that begins without a request is an update.
LEMMA UpdateTyped ==
    ASSUME NEW u \in Updates, NEW learning \in BOOLEAN, NEW revision \in Nat
    PROVE  [u EXCEPT !.at = "policy", !.learning = learning, !.policy = revision] \in Updates
BY DEF Updates

\* Inputs that were loaded are those of a policy, migrated or not.
LEMMA LoadTyped ==
    ASSUME TypeOK, NEW step \in Step, LoadInputs(step)
    PROVE  command' \in Commands
<1>1. PICK revision \in Nat, migrates \in BOOLEAN, resumed \in BOOLEAN :
          command' = [command EXCEPT !.at = step, !.again = FALSE, !.policy = revision,
                                     !.migrates = migrates, !.resumed = resumed]
  <2>1. (IF stale THEN policy + 1 ELSE policy) \in Nat
    BY DEF TypeOK
  <2>2. (IF stale THEN command.resumed ELSE FALSE) \in BOOLEAN
    BY DEF TypeOK, Commands
  <2>3. QED
    BY <2>1, <2>2, Zenon DEF LoadInputs, TypeOK
<1>2. QED
  BY <1>1, InputsTyped DEF TypeOK

\* What ensure begins with, whatever it is asked for.
LEMMA EnsureBegins ==
    ASSUME IInv, EnsureStart
    PROVE  /\ command' \in Commands
           /\ command'.name = "ensure" /\ command'.op = 0
           /\ command'.at = "generate" <=> key = NoKey
           /\ command'.at \in {"generate", "renew", "origin"}
<1> DEFINE renews(reEnroll, expired) == pending # NoPending /\ reEnroll /\ (expired \/ pending.ordinary)
           first(reEnroll, expired) ==
              IF key = NoKey THEN "generate"
              ELSE IF renews(reEnroll, expired) THEN "renew" ELSE "origin"
<1>0. PICK reEnroll \in BOOLEAN, force \in BOOLEAN, expired \in BOOLEAN :
          command' = [NoCommand EXCEPT !.name = "ensure", !.at = first(reEnroll, expired),
                        !.ordinary = ~(pending # NoPending) /\ ~reEnroll
                                       /\ (credential # NoCredential \/ origin),
                        !.again = reEnroll \/ (force /\ ~(pending # NoPending)),
                        !.resumed = (pending # NoPending),
                        !.previous = credential.revision]
  BY ZenonT(60) DEF EnsureStart
<1>1. PICK step \in {"generate", "renew", "origin"}, ordinary \in BOOLEAN,
           again \in BOOLEAN, resumed \in BOOLEAN :
          /\ command' = [NoCommand EXCEPT !.name = "ensure", !.at = step,
                           !.ordinary = ordinary, !.again = again, !.resumed = resumed,
                           !.previous = credential.revision]
          /\ step = "generate" <=> key = NoKey
  <2>1. /\ first(reEnroll, expired) \in {"generate", "renew", "origin"}
        /\ first(reEnroll, expired) = "generate" <=> key = NoKey
    BY SMT DEF renews
  <2>2. /\ (~(pending # NoPending) /\ ~reEnroll /\ (credential # NoCredential \/ origin)) \in BOOLEAN
        /\ (reEnroll \/ (force /\ ~(pending # NoPending))) \in BOOLEAN
        /\ (pending # NoPending) \in BOOLEAN
    OBVIOUS
  <2> HIDE DEF first
  <2>3. QED
    BY <1>0, <2>1, <2>2, Zenon
<1>2. command' \in Commands
  <2>1. credential.revision \in Nat
    BY DEF IInv, TypeOK, Credential
  <2>2. step \in Step
    BY DEF Step
  <2>3. QED
    BY <1>1, <2>1, <2>2, EmptyTypes, EnsureTyped
<1>3. QED
  BY <1>1, <1>2 DEF NoCommand

\* The steps of ensure keep the types.
LEMMA EnsureTypes == IInv /\ EnsureStep => TypeOK'
<1> SUFFICES ASSUME IInv, EnsureStep PROVE TypeOK'
  OBVIOUS
<1> USE EmptyTypes, IdentityAssumption DEF IInv, TypeOK
<1>1. CASE EnsureStart
  <2>1. command' \in Commands
    BY <1>1, EnsureBegins DEF IInv, TypeOK
  <2>2. QED
    BY <1>1, <2>1 DEF EnsureStart, keyFiles, policyVars, serverVars
<1>2. CASE EnsureGenerate
  <2>1. command' \in Commands
    BY <1>2, ContinueTyped DEF EnsureGenerate, Step
  <2>2. key' \in Key /\ made' \in 0..MaxKey
    BY <1>2 DEF EnsureGenerate, Key
  <2>3. QED
    BY <1>2, <2>1, <2>2 DEF EnsureGenerate, keyFiles, policyVars, serverVars
<1>3. CASE EnsureRenew
  <2>1. command' \in Commands
    BY <1>3, ContinueTyped DEF EnsureRenew, Step
  <2>2. pending' \in Pendings /\ ops' \in 0..MaxOp
    BY <1>3, FreshOpTyped DEF EnsureRenew, Pendings
  <2>3. QED
    BY <1>3, <2>1, <2>2 DEF EnsureRenew, keyFiles, policyVars, serverVars
<1>4. CASE EnsureOrigin
  <2>1. command' \in Commands
    BY <1>4, ContinueTyped DEF EnsureOrigin, Step
  <2>2. QED
    BY <1>4, <2>1 DEF EnsureOrigin, keyFiles, policyVars, serverVars
<1>5. CASE EnsureAlready
  <2>1. QED
    BY <1>5 DEF EnsureAlready, keyFiles, policyVars, serverVars
<1>6. CASE EnsureProbe
  <2>1. command' \in Commands
    BY <1>6, LoadTyped DEF EnsureProbe, Step
  <2>2. QED
    BY <1>6, <2>1 DEF EnsureProbe, LoadInputs, keyFiles, policyVars, serverVars
<1>7. CASE EnsureExpired
  <2>1. command' \in Commands
    BY <1>7 DEF EnsureExpired, Commands, Step
  <2>2. QED
    BY <1>7, <2>1 DEF EnsureExpired, keyFiles, policyVars, serverVars
<1>8. CASE EnsureResume
  <2>1. command' \in Commands
    BY <1>8 DEF EnsureResume, AfterPend, Commands, Pendings, Step
  <2>2. QED
    BY <1>8, <2>1 DEF EnsureResume, keyFiles, policyVars, serverVars
<1>9. CASE EnsurePend
  <2>1. FreshOp \in 0..MaxOp
    BY <1>9, FreshOpTyped DEF EnsurePend
  <2>2. command' \in Commands
    BY <1>9, <2>1 DEF EnsurePend, AfterPend, Commands, Step
  <2>3. pending' \in Pendings /\ ops' \in 0..MaxOp
    BY <1>9, <2>1 DEF EnsurePend, Pendings, Commands
  <2>4. QED
    BY <1>9, <2>2, <2>3 DEF EnsurePend, keyFiles, policyVars, serverVars
<1>10. CASE EnsureInputs
  <2>1. command' \in Commands
    BY <1>10, LoadTyped DEF EnsureInputs, Step
  <2>2. QED
    BY <1>10, <2>1 DEF EnsureInputs, LoadInputs, keyFiles, policyVars, serverVars
<1>11. CASE EnsureRequest
  <2>1. command' \in Commands
    BY <1>11, ContinueTyped DEF EnsureRequest, Step
  <2>2. command.op \in Op /\ command.policy \in Nat
    BY <1>11, AnswerTyped DEF EnsureRequest, At, EnsureSteps, Commands
  <2>3. net' \subseteq Requests
    BY <1>11, <2>2 DEF EnsureRequest, Requests
  <2>4. QED
    BY <1>11, <2>1, <2>3 DEF EnsureRequest, keyFiles, policyVars, serverVars
<1>12. CASE EnsureCredential
  <2>1. command' \in Commands
    BY <1>12, ContinueTyped DEF EnsureCredential, Step
  <2>2. enrolled[command.op] \in Credential
    BY <1>12, AnswerTyped DEF EnsureCredential, At, EnsureSteps, Commands
  <2>3. credential' \in Credential /\ newest' \in Nat
    BY <1>12, <2>2 DEF EnsureCredential, SaveCredential, Credential
  <2>4. QED
    BY <1>12, <2>1, <2>3 DEF EnsureCredential, keyFiles, policyVars, serverVars
<1>13. CASE EnsurePolicy
  <2>1. command' \in Commands /\ policy' \in Nat
    BY <1>13, ContinueTyped DEF EnsurePolicy, Step, Commands
  <2>2. QED
    BY <1>13, <2>1 DEF EnsurePolicy, keyFiles, policyVars, serverVars
<1>14. CASE EnsureClear
  <2>1. QED
    BY <1>14 DEF EnsureClear, keyFiles, policyVars, serverVars
<1>15. QED
  BY <1>1, <1>2, <1>3, <1>4, <1>5, <1>6, <1>7, <1>8, <1>9, <1>10, <1>11, <1>12, <1>13, <1>14 DEF EnsureStep

\* The steps of device-rotate keep the types.
LEMMA RotateTypes == IInv /\ RotateStep => TypeOK'
<1> SUFFICES ASSUME IInv, RotateStep PROVE TypeOK'
  OBVIOUS
<1> USE EmptyTypes, IdentityAssumption DEF IInv, TypeOK
<1>1. CASE RotateFinish
  <2>1. QED
    BY <1>1 DEF RotateFinish, keyFiles, policyVars, serverVars
<1>2. CASE RotateStart
  <2>1. command' \in Commands
    BY <1>2 DEF RotateStart, NoCommand, Commands, Step, Credential
  <2>2. QED
    BY <1>2, <2>1 DEF RotateStart, keyFiles, policyVars, serverVars
<1>3. CASE RotatePrepare
  <2>1. command' \in Commands
    BY <1>3, ContinueTyped DEF RotatePrepare, Step
  <2>2. nextKey' \in Key /\ made' \in 0..MaxKey
    BY <1>3 DEF RotatePrepare, Key
  <2>3. QED
    BY <1>3, <2>1, <2>2 DEF RotatePrepare, keyFiles, policyVars, serverVars
<1>4. CASE RotateResume
  <2>1. command' \in Commands
    BY <1>4 DEF RotateResume, Commands, Rotations, Step
  <2>2. QED
    BY <1>4, <2>1 DEF RotateResume, keyFiles, policyVars, serverVars
<1>5. CASE RotateRecord
  <2>1. FreshOp \in 0..MaxOp
    BY <1>5, FreshOpTyped DEF RotateRecord
  <2>2. command' \in Commands
    BY <1>5, <2>1 DEF RotateRecord, Commands, Step
  <2>3. rotation' \in Rotations /\ ops' \in 0..MaxOp
    BY <1>5, <2>1 DEF RotateRecord, Rotations, Commands
  <2>4. QED
    BY <1>5, <2>2, <2>3 DEF RotateRecord, keyFiles, policyVars, serverVars
<1>6. CASE RotateRequest
  <2>1. command' \in Commands
    BY <1>6 DEF RotateRequest, Commands, Step
  <2>2. command.op \in Op
    BY <1>6, AnswerTyped DEF RotateRequest, At, RotateSteps, RotationUnderWay, Commands
  <2>3. net' \subseteq Requests
    BY <1>6, <2>2 DEF RotateRequest, Requests
  <2>4. QED
    BY <1>6, <2>1, <2>3 DEF RotateRequest, keyFiles, policyVars, serverVars
<1>7. CASE RotateKey
  <2>1. command' \in Commands
    BY <1>7, ContinueTyped DEF RotateKey, Step
  <2>2. QED
    BY <1>7, <2>1 DEF RotateKey, keyFiles, policyVars, serverVars
<1>8. CASE RotateCredential
  <2>1. command' \in Commands
    BY <1>8, ContinueTyped DEF RotateCredential, Step
  <2>2. rotated[command.op] \in Credential
    BY <1>8, AnswerTyped DEF RotateCredential, At, RotateSteps, RotationUnderWay, Commands
  <2>3. credential' \in Credential /\ newest' \in Nat
    BY <1>8, <2>2 DEF RotateCredential, SaveCredential, Credential
  <2>4. QED
    BY <1>8, <2>1, <2>3 DEF RotateCredential, keyFiles, policyVars, serverVars
<1>9. CASE RotateRemoveKey
  <2>1. command' \in Commands
    BY <1>9, ContinueTyped DEF RotateRemoveKey, Step
  <2>2. QED
    BY <1>9, <2>1 DEF RotateRemoveKey, keyFiles, policyVars, serverVars
<1>10. CASE RotateClear
  <2>1. QED
    BY <1>10 DEF RotateClear, keyFiles, policyVars, serverVars
<1>11. QED
  BY <1>1, <1>2, <1>3, <1>4, <1>5, <1>6, <1>7, <1>8, <1>9, <1>10 DEF RotateStep

\* The steps of policy updates keep the types.
LEMMA UpdateTypes == IInv /\ UpdateStep => TypeOK'
<1> SUFFICES ASSUME IInv, UpdateStep PROVE TypeOK'
  OBVIOUS
<1> USE EmptyTypes, IdentityAssumption DEF IInv, TypeOK
<1>1. CASE UpdateStart
  <2>1. PICK learning \in BOOLEAN :
            IF credential = NoCredential
            THEN /\ update' = [NoUpdate EXCEPT !.at = "policy", !.learning = learning,
                                               !.policy = policy + 1]
                 /\ UNCHANGED <<net, ops>>
            ELSE /\ ops < MaxOp /\ ops' = FreshOp
                 /\ update' = [at |-> "answer", learning |-> learning, op |-> FreshOp,
                               previous |-> credential.revision, policy |-> policy + 1]
                 /\ net' = net \cup {[endpoint |-> "ensure", op |-> FreshOp, key |-> key,
                                      policy |-> policy + 1]}
    BY <1>1 DEF UpdateStart
  <2>2. update' \in Updates /\ ops' \in 0..MaxOp /\ net' \subseteq Requests
    <3>1. CASE credential = NoCredential
      <4>1. /\ update' = [NoUpdate EXCEPT !.at = "policy", !.learning = learning,
                                         !.policy = policy + 1]
            /\ net' = net /\ ops' = ops
        BY <2>1, <3>1
      <4>2. policy + 1 \in Nat
        OBVIOUS
      <4>3. update' \in Updates
        BY <4>1, <4>2, UpdateTyped, Zenon
      <4>4. QED
        BY <4>1, <4>3
    <3>2. CASE credential # NoCredential
      <4>1. FreshOp \in Op /\ FreshOp \in 0..MaxOp
        BY <2>1, <3>2, FreshOpTyped
      <4>2. credential.revision \in Nat
        BY DEF Credential
      <4>3. QED
        BY <2>1, <3>2, <4>1, <4>2 DEF Updates, Requests
    <3>3. QED
      BY <3>1, <3>2
  <2>3. QED
    BY <1>1, <2>2 DEF UpdateStart, keyFiles, policyVars, serverVars
<1>2. CASE UpdateAnswer
  <2>1. update' \in Updates
    BY <1>2 DEF UpdateAnswer, Updates
  <2>2. QED
    BY <1>2, <2>1 DEF UpdateAnswer, keyFiles, policyVars, serverVars
<1>3. CASE UpdatePolicy
  <2>1. update' \in Updates /\ policy' \in Nat
    BY <1>3 DEF UpdatePolicy, Updates
  <2>2. QED
    BY <1>3, <2>1 DEF UpdatePolicy, keyFiles, policyVars, serverVars
<1>4. CASE UpdateCredential
  <2>1. enrolled[update.op] \in Credential
    BY <1>4, AnswerTyped DEF UpdateCredential, UpdateSteps, Updates
  <2>2. credential' \in Credential /\ newest' \in Nat
    BY <1>4, <2>1 DEF UpdateCredential, SaveCredential, Credential
  <2>3. QED
    BY <1>4, <2>2 DEF UpdateCredential, keyFiles, policyVars, serverVars
<1>5. QED
  BY <1>1, <1>2, <1>3, <1>4 DEF UpdateStep

\* What the Server issues is a credential, and it answers under its own key.
LEMMA ServeTypes == ASSUME IInv, NEW r \in net, Serve(r) PROVE TypeOK'
<1> USE DEF IInv, TypeOK
<1> DEFINE issued == [revision |-> server.revision + 1, key |-> r.key, policy |-> r.policy]
<1>1. r.op \in Op /\ r.key \in Key /\ r.policy \in Nat
  BY DEF Requests
<1>2. issued \in Credential
  BY <1>1 DEF Credential
<1>3. server' \in [key : Key, revision : Nat]
  BY <1>1 DEF Serve, serverVars
<1>4. enrolled' \in [Op -> Credential] /\ rotated' \in [Op -> Credential]
  BY <1>1, <1>2 DEF Serve, serverVars
<1>5. QED
  BY <1>3, <1>4 DEF Serve, keyFiles, policyVars, serverVars

\* Every step keeps the types.
LEMMA StepTypes == IInv /\ [Next]_vars => TypeOK'
<1> SUFFICES ASSUME IInv, [Next]_vars PROVE TypeOK'
  OBVIOUS
<1>1. CASE EnsureStep \/ RotateStep \/ UpdateStep
  BY <1>1, EnsureTypes, RotateTypes, UpdateTypes
<1>2. CASE CommandEnds
  BY <1>2, EmptyTypes DEF CommandEnds, IInv, TypeOK, keyFiles, policyVars, serverVars
<1>3. CASE UpdateEnds
  BY <1>3, EmptyTypes DEF UpdateEnds, IInv, TypeOK, keyFiles, policyVars, serverVars
<1>4. CASE RetireLocal
  BY <1>4, EmptyTypes DEF RetireLocal, IInv, TypeOK, policyVars, serverVars
<1>5. CASE Upgrade
  BY <1>5 DEF Upgrade, IInv, TypeOK, keyFiles, serverVars
<1>6. CASE \E r \in net : Serve(r)
  BY <1>6, ServeTypes
<1>7. CASE UNCHANGED vars
  BY <1>7 DEF vars, IInv, TypeOK, keyFiles, policyVars, serverVars
<1>8. QED
  BY <1>1, <1>2, <1>3, <1>4, <1>5, <1>6, <1>7 DEF Next

-----------------------------------------------------------------------------
(* The parts of the invariant, step by step.                                *)

\* What the record, the key files, the requests and the Server agree on.
Agreement == HandedOut /\ RotationUnderWay /\ NoRotationUnderWay /\ RequestsRecorded

\* The key of a rotation is neither empty nor the one it replaces.
LEMMA NewKey ==
    ASSUME TypeOK, RotationUnderWay, rotation # NoRotation
    PROVE  rotation.to # NoKey /\ rotation.to # rotation.from
BY DEF TypeOK, RotationUnderWay, Rotations, Key, NoKey

\* A step that touches none of this keeps it, and an operation key more does it no harm.
LEMMA AgreementKept ==
    ASSUME IInv, UNCHANGED <<key, nextKey, rotation, rotated, server>>,
           \/ net' = net
           \/ \E r \in Requests : /\ net' = net \cup {r} /\ r.op <= ops' /\ r.key # NoKey
                                  /\ r.endpoint = "ensure",
           \/ ops' = ops
           \/ ops' = FreshOp
    PROVE  Agreement'
<1> USE DEF IInv, TypeOK
<1>1. ops' \in Nat /\ ops \in Nat /\ ops <= ops'
  BY IdentityAssumption DEF FreshOp
<1>2. \A op \in Op : op \in Nat
  BY IdentityAssumption DEF Op
<1>3. \A r \in net' : r.op <= ops' /\ r.key # NoKey
  BY <1>1, <1>2 DEF HandedOut, Requests
<1>4. HandedOut'
  BY <1>1, <1>2, <1>3 DEF HandedOut, Rotations
<1>5. RotationUnderWay' /\ NoRotationUnderWay'
  BY DEF RotationUnderWay, NoRotationUnderWay
<1>6. RequestsRecorded'
  BY DEF RequestsRecorded
<1>7. QED
  BY <1>4, <1>5, <1>6 DEF Agreement

\* A device without a key is unknown to the Server, and nothing is under way.
LEMMA NoKeyYet ==
    ASSUME IInv, key = NoKey
    PROVE  /\ server.key = NoKey /\ nextKey = NoKey /\ rotation = NoRotation
           /\ net = {} /\ credential = NoCredential /\ command.name # "rotate"
           /\ \A op \in Op : enrolled[op] = NoCredential
BY DEF IInv, NewDevice, HandedOut

\* ensure keeps it: it generates the first key, and requests in the name of the
\* installed one.
LEMMA EnsureAgrees == IInv /\ EnsureStep => Agreement'
<1> SUFFICES ASSUME IInv, EnsureStep PROVE Agreement'
  OBVIOUS
<1>1. CASE EnsureGenerate
  <2>1. key = NoKey
    BY <1>1 DEF EnsureGenerate, At, IInv, EnsureSteps
  <2>2. server' = server /\ nextKey' = nextKey /\ rotation' = rotation /\ net' = {}
          /\ rotated' = rotated /\ ops' = ops
    BY <1>1, <2>1, NoKeyYet DEF EnsureGenerate, serverVars
  <2>3. HandedOut'
    BY <2>2 DEF IInv, HandedOut
  <2>4. RotationUnderWay' /\ NoRotationUnderWay' /\ RequestsRecorded'
    BY <2>1, <2>2, NoKeyYet DEF RotationUnderWay, NoRotationUnderWay, RequestsRecorded
  <2>5. QED
    BY <2>3, <2>4 DEF Agreement
<1>2. CASE EnsureRequest
  <2>1. key # NoKey /\ command.op \in Op /\ command.op <= ops
    BY <1>2, AnswerTyped DEF EnsureRequest, At, IInv, TypeOK, Commands, EnsureSteps, PendingOps
  <2>2. [endpoint |-> "ensure", op |-> command.op, key |-> key,
         policy |-> command.policy] \in Requests
    BY <2>1 DEF IInv, TypeOK, Commands, Requests
  <2>3. UNCHANGED <<key, nextKey, rotation, rotated, server, ops>>
    BY <1>2 DEF EnsureRequest, keyFiles, serverVars
  <2>4. net' = net \cup {[endpoint |-> "ensure", op |-> command.op, key |-> key,
                         policy |-> command.policy]}
    BY <1>2 DEF EnsureRequest
  <2>5. QED
    BY <2>1, <2>2, <2>3, <2>4, AgreementKept
<1>3. CASE EnsureStep /\ ~EnsureGenerate /\ ~EnsureRequest
  <2>1. /\ UNCHANGED <<key, nextKey, rotation, rotated, server, net>>
        /\ ops' \in {ops, FreshOp}
    BY <1>3 DEF EnsureStep, EnsureStart, EnsureRenew, EnsureOrigin, EnsureAlready,
          EnsureProbe, EnsureExpired, EnsureResume, EnsurePend, EnsureInputs, LoadInputs,
          EnsureCredential, EnsurePolicy, EnsureClear, keyFiles, serverVars
  <2>2. QED
    BY <2>1, AgreementKept
<1>4. QED
  BY <1>1, <1>2, <1>3

\* A step that leaves the keys, the rotation and the Server alone may retire the
\* credential, send a request of the installed key and change what else it likes.
LEMMA NewDeviceKept ==
    ASSUME IInv, UNCHANGED <<key, nextKey, rotation, server, enrolled>>,
           credential' \in {credential, NoCredential} \/ server.key # NoKey,
           command'.name # "rotate" \/ server.key # NoKey,
           \A r \in net' : r \in net \/ (r.endpoint = "ensure" /\ r.key = key)
    PROVE  NewDevice'
BY DEF IInv, NewDevice

\* ensure keeps the invariant: only it generates a first key, and it asks for and
\* saves a credential only then.
LEMMA EnsureSafe == IInv /\ EnsureStep => IInv'
<1> SUFFICES ASSUME IInv, EnsureStep PROVE IInv'
  OBVIOUS
<1>1. TypeOK' /\ Agreement'
  BY EnsureTypes, EnsureAgrees
<1>2. NewDevice'
  <2>1. CASE EnsureGenerate
    <3>1. key = NoKey
      BY <2>1 DEF EnsureGenerate, At, IInv, EnsureSteps
    <3>2. key' # NoKey
      BY <2>1, IdentityAssumption DEF EnsureGenerate, NoKey
    <3>3. /\ server' = server /\ nextKey' = nextKey /\ rotation' = rotation /\ net' = {}
          /\ credential' = credential /\ enrolled' = enrolled
      BY <2>1, <3>1, NoKeyYet DEF EnsureGenerate, serverVars
    <3>4. command'.name # "rotate"
      BY <2>1 DEF EnsureGenerate, Continue, At, IInv, TypeOK, Commands
    <3>5. QED
      BY <3>1, <3>2, <3>3, <3>4, NoKeyYet DEF NewDevice
  <2>2. CASE EnsureCredential
    <3>1. enrolled[command.op] # NoCredential /\ command.op \in Op
      BY <2>2, AnswerTyped DEF EnsureCredential, Exact, At, IInv, TypeOK, Commands, EnsureSteps
    <3>2. server.key # NoKey
      BY <3>1 DEF IInv, NewDevice
    <3>3. QED
      BY <2>2, <3>2, NewDeviceKept DEF EnsureCredential, keyFiles, serverVars
  <2>3. CASE EnsureRequest
    <3>1. command'.name # "rotate"
      BY <2>3 DEF EnsureRequest, Continue, At, IInv, TypeOK, Commands
    <3>2. QED
      BY <2>3, <3>1, NewDeviceKept DEF EnsureRequest, keyFiles, serverVars
  <2>4. CASE EnsureStart
    BY <2>4, EnsureBegins, NewDeviceKept DEF EnsureStart, keyFiles, serverVars
  <2>5. CASE EnsureRenew \/ EnsureOrigin \/ EnsurePolicy
    <3>1. command'.name # "rotate"
      BY <2>5 DEF EnsureRenew, EnsureOrigin, EnsurePolicy, Continue, At, IInv, TypeOK, Commands
    <3>2. QED
      BY <2>5, <3>1, NewDeviceKept DEF EnsureRenew, EnsureOrigin, EnsurePolicy, keyFiles, serverVars
  <2>6. CASE EnsureAlready \/ EnsureClear
    <3>1. command'.name # "rotate"
      BY <2>6 DEF EnsureAlready, EnsureClear, NoCommand
    <3>2. QED
      BY <2>6, <3>1, NewDeviceKept DEF EnsureAlready, EnsureClear, keyFiles, serverVars
  <2>7. CASE EnsureProbe \/ EnsureInputs \/ EnsureExpired \/ EnsureResume \/ EnsurePend
    <3>1. command'.name # "rotate"
      BY <2>7 DEF EnsureProbe, EnsureInputs, LoadInputs, EnsureExpired, EnsureResume,
            EnsurePend, At, IInv, TypeOK, Commands
    <3>2. QED
      BY <2>7, <3>1, NewDeviceKept DEF EnsureProbe, EnsureInputs, LoadInputs,
            EnsureExpired, EnsureResume, EnsurePend, keyFiles, serverVars
  <2>8. QED
    BY <2>1, <2>2, <2>3, <2>4, <2>5, <2>6, <2>7 DEF EnsureStep
<1>3. EnsureSteps' /\ RotateSteps' /\ PendingOps' /\ UpdateSteps'
  <2> USE EmptyTypes, IdentityAssumption DEF IInv, TypeOK
  <2>1. CASE EnsureStart
    <3>1. UNCHANGED <<key, pending, ops, update>>
      BY <2>1 DEF EnsureStart, keyFiles
    <3>2. PendingOps' /\ UpdateSteps'
      BY <2>1, <3>1, EnsureBegins DEF PendingOps, UpdateSteps
    <3>3. QED
      BY <2>1, <3>1, <3>2, EnsureBegins DEF EnsureSteps, RotateSteps
  <2>2. CASE EnsureGenerate
    <3>1. key' # NoKey
      BY <2>2 DEF EnsureGenerate, NoKey
    <3>2. command' = [command EXCEPT !.at = "origin"] /\ pending' = pending /\ ops' = ops
            /\ update' = update
      BY <2>2 DEF EnsureGenerate, Continue
    <3>3. QED
      BY <2>2, <3>1, <3>2 DEF At, EnsureGenerate, Commands, EnsureSteps, RotateSteps, PendingOps,
            UpdateSteps
  <2>3. CASE EnsureRenew
    <3>1. FreshOp \in Nat /\ FreshOp # 0 /\ ops \in Nat /\ ops < FreshOp
      BY DEF FreshOp
    <3>2. pending'.op = FreshOp /\ pending'.op # 0 /\ ops' = FreshOp
      BY <2>3, <3>1 DEF EnsureRenew, Pendings
    <3>3. PendingOps'
      <4>1. command'.op = command.op /\ command.op \in Nat
        BY <2>3 DEF EnsureRenew, Continue, Commands
      <4>2. QED
        BY <3>1, <3>2, <4>1 DEF PendingOps
    <3>4. QED
      BY <2>3, <3>3 DEF EnsureRenew, Continue, At, keyFiles, Commands, EnsureSteps,
            RotateSteps, UpdateSteps
  <2>4. CASE EnsureOrigin
    BY <2>4, FreshOpTyped DEF EnsureOrigin, Continue, At, Commands, Pendings, keyFiles,
      EnsureSteps, RotateSteps, PendingOps, UpdateSteps
  <2>5. CASE EnsureAlready
    BY <2>5, FreshOpTyped DEF EnsureAlready, NoCommand, NoPending, At, Commands, Pendings, keyFiles,
      EnsureSteps, RotateSteps, PendingOps, UpdateSteps
  <2>6. CASE EnsureProbe
    BY <2>6, FreshOpTyped DEF EnsureProbe, LoadInputs, At, Commands, Pendings, keyFiles,
      EnsureSteps, RotateSteps, PendingOps, UpdateSteps
  <2>7. CASE EnsureExpired
    BY <2>7, FreshOpTyped DEF EnsureExpired, Continue, At, Commands, Pendings, keyFiles,
      EnsureSteps, RotateSteps, PendingOps, UpdateSteps
  <2>8. CASE EnsureResume
    <3>1. AfterPend \in {"inputs", "request"}
      BY DEF AfterPend
    <3>2. command' = [command EXCEPT !.at = AfterPend, !.op = pending.op] /\ pending.op # 0
      BY <2>8 DEF EnsureResume, PendingOps
    <3>3. QED
      BY <2>8, <3>1, <3>2 DEF EnsureResume, At, keyFiles, Commands, Pendings,
            EnsureSteps, RotateSteps, PendingOps, UpdateSteps
  <2>9. CASE EnsurePend
    <3>1. FreshOp \in Nat /\ FreshOp # 0 /\ ops \in Nat /\ ops < FreshOp
      BY DEF FreshOp
    <3>2. AfterPend \in {"inputs", "request"}
      BY DEF AfterPend
    <3>3. command' = [command EXCEPT !.at = AfterPend, !.op = FreshOp, !.ordinary = FALSE]
          /\ pending' = [op |-> FreshOp, key |-> key, ordinary |-> command.ordinary]
          /\ ops' = FreshOp
      BY <2>9 DEF EnsurePend
    <3>4. PendingOps'
      <4>1. command'.op = FreshOp /\ pending'.op = FreshOp
        BY <3>3 DEF Commands
      <4>2. QED
        BY <3>1, <3>3, <4>1 DEF PendingOps
    <3>5. QED
      BY <2>9, <3>1, <3>2, <3>3, <3>4 DEF EnsurePend, At, keyFiles, Commands,
            EnsureSteps, RotateSteps, UpdateSteps
  <2>10. CASE EnsureInputs
    BY <2>10, FreshOpTyped DEF EnsureInputs, LoadInputs, At, Commands, Pendings, keyFiles,
      EnsureSteps, RotateSteps, PendingOps, UpdateSteps
  <2>11. CASE EnsureRequest
    BY <2>11, FreshOpTyped DEF EnsureRequest, Continue, At, Commands, Pendings, keyFiles,
      EnsureSteps, RotateSteps, PendingOps, UpdateSteps
  <2>12. CASE EnsureCredential
    BY <2>12, FreshOpTyped DEF EnsureCredential, Continue, At, Commands, Pendings, keyFiles,
      EnsureSteps, RotateSteps, PendingOps, UpdateSteps
  <2>13. CASE EnsurePolicy
    BY <2>13, FreshOpTyped DEF EnsurePolicy, Continue, At, Commands, Pendings, keyFiles,
      EnsureSteps, RotateSteps, PendingOps, UpdateSteps
  <2>14. CASE EnsureClear
    BY <2>14, FreshOpTyped DEF EnsureClear, NoCommand, NoPending, At, Commands, Pendings, keyFiles,
      EnsureSteps, RotateSteps, PendingOps, UpdateSteps
  <2>15. QED
    BY <2>1, <2>2, <2>3, <2>4, <2>5, <2>6, <2>7, <2>8, <2>9, <2>10, <2>11, <2>12, <2>13, <2>14 DEF EnsureStep
<1>4. QED
  BY <1>1, <1>2, <1>3 DEF IInv, Agreement

\* What is known whenever device-rotate holds the lock.
LEMMA Rotating ==
    ASSUME IInv, command.name = "rotate"
    PROVE  server.key # NoKey /\ key # NoKey
BY DEF IInv, NewDevice

\* A rotation that is committed or cleared is one the Server has answered: the
\* record is removed when the installed key is the Server's.
LEMMA RotationOver ==
    ASSUME IInv, rotation # NoRotation, nextKey = NoKey
    PROVE  server.key = key /\ key = rotation.to
<1>1. rotation.to # NoKey /\ rotation.to # rotation.from
  BY NewKey DEF IInv
<1>2. key = rotation.to
  BY <1>1 DEF IInv, RotationUnderWay
<1>3. rotated[rotation.op] # NoCredential
  BY <1>1, <1>2 DEF IInv, RotationUnderWay
<1>4. QED
  BY <1>2, <1>3 DEF IInv, RotationUnderWay

\* A record that is removed without its pending key leaves both in agreement.
LEMMA RotationCleared ==
    ASSUME IInv, rotation # NoRotation, nextKey = NoKey, rotation' = NoRotation,
           UNCHANGED <<key, nextKey, rotated, server, net, ops, enrolled, credential>>,
           command'.name # "rotate" \/ server.key # NoKey
    PROVE  Agreement' /\ NewDevice'
<1>1. server.key = key /\ server.key # NoKey
  BY RotationOver DEF IInv, NewDevice
<1>2. \A r \in net : r.endpoint = "rotate" => rotated[r.op] # NoCredential
  <2>1. rotated[rotation.op] # NoCredential
    BY NewKey, RotationOver DEF IInv, RotationUnderWay
  <2>2. QED
    BY <2>1 DEF IInv, RequestsRecorded
<1>3. HandedOut'
  BY IdentityAssumption DEF IInv, TypeOK, HandedOut, NoRotation
<1>4. QED
  BY <1>1, <1>2, <1>3 DEF Agreement, RotationUnderWay, NoRotationUnderWay,
     RequestsRecorded, NewDevice, IInv

\* device-rotate keeps the invariant.
LEMMA RotateSafe == IInv /\ RotateStep => IInv'
<1> SUFFICES ASSUME IInv, RotateStep PROVE IInv'
  OBVIOUS
<1>0. TypeOK'
  BY RotateTypes
<1>1. CASE RotateFinish
  <2>1. rotation # NoRotation /\ nextKey = NoKey
    BY <1>1 DEF RotateFinish, Committed
  <2>2. Agreement' /\ NewDevice'
    BY <1>1, <2>1, RotationCleared DEF RotateFinish, keyFiles, serverVars, NoCommand
  <2>3. EnsureSteps' /\ RotateSteps' /\ PendingOps' /\ UpdateSteps'
    BY <1>1 DEF RotateFinish, NoCommand, keyFiles, IInv, EnsureSteps, RotateSteps,
       PendingOps, UpdateSteps
  <2>4. QED
    BY <1>0, <2>2, <2>3 DEF IInv, Agreement
<1>2. CASE RotateStart
  <2>1. server.key # NoKey
    BY <1>2 DEF RotateStart, IInv, NewDevice
  <2>2. Agreement' /\ NewDevice'
    BY <1>2, <2>1, AgreementKept, NewDeviceKept DEF RotateStart, keyFiles, serverVars
  <2>3. EnsureSteps' /\ RotateSteps' /\ PendingOps' /\ UpdateSteps'
    BY <1>2 DEF RotateStart, NoCommand, keyFiles, IInv, TypeOK, EnsureSteps, RotateSteps,
       PendingOps, UpdateSteps
  <2>4. QED
    BY <1>0, <2>2, <2>3 DEF IInv, Agreement
<1>3. CASE RotatePrepare
  <2>1. /\ rotation = NoRotation /\ nextKey' # NoKey
        /\ nextKey'.generation = key.generation + 1
        /\ UNCHANGED <<key, origin, credential, pending, rotation, server, enrolled, rotated,
                       net, ops, update>>
        /\ command' = [command EXCEPT !.at = "record"]
    BY <1>3 DEF RotatePrepare, Continue, At, IInv, TypeOK, Key, NoKey, RotateSteps, serverVars
  <2>2. Agreement'
    BY <2>1 DEF Agreement, IInv, HandedOut, RotationUnderWay, NoRotationUnderWay, RequestsRecorded
  <2>3. NewDevice'
    BY <1>3, <2>1, Rotating DEF RotatePrepare, At, NewDevice
  <2>4. EnsureSteps' /\ RotateSteps' /\ PendingOps' /\ UpdateSteps'
    BY <1>3, <2>1 DEF RotatePrepare, At, IInv, TypeOK, Commands, EnsureSteps, RotateSteps,
       PendingOps, UpdateSteps
  <2>5. QED
    BY <1>0, <2>2, <2>3, <2>4 DEF IInv, Agreement
<1>4. CASE RotateResume
  <2>1. /\ UNCHANGED <<key, nextKey, rotation, rotated, server, net, ops, enrolled,
                       credential, pending, update>>
        /\ command' = [command EXCEPT !.at = "request", !.op = rotation.op]
        /\ command.name = "rotate" /\ rotation # NoRotation
    BY <1>4 DEF RotateResume, At, keyFiles, serverVars
  <2>2. Agreement' /\ NewDevice'
    BY <2>1, Rotating, AgreementKept, NewDeviceKept
  <2>3. EnsureSteps' /\ RotateSteps' /\ PendingOps' /\ UpdateSteps'
    BY <1>4, <2>1 DEF RotateResume, At, IInv, TypeOK, Commands, Rotations, HandedOut,
       EnsureSteps, RotateSteps, PendingOps, UpdateSteps
  <2>4. QED
    BY <1>0, <2>2, <2>3 DEF IInv, Agreement
<1>5. CASE RotateRecord
  <2>1. /\ UNCHANGED <<key, nextKey, rotated, server, net, enrolled, credential, pending, update>>
        /\ rotation' = [op |-> FreshOp, from |-> key, to |-> nextKey,
                        previous |-> command.previous]
        /\ command' = [command EXCEPT !.at = "request", !.op = FreshOp]
        /\ ops' = FreshOp /\ rotation = NoRotation
        /\ command.name = "rotate" /\ command.at = "record"
    BY <1>5 DEF RotateRecord, At, keyFiles, serverVars
  <2>2. /\ FreshOp \in Op /\ FreshOp \in Nat /\ FreshOp # 0
        /\ ops \in Nat /\ ops < FreshOp /\ \A op \in Op : op \in Nat
    BY <1>5, FreshOpTyped, IdentityAssumption DEF RotateRecord, IInv, TypeOK, FreshOp, Op
  <2>3. rotated[FreshOp] = NoCredential
    BY <2>2 DEF IInv, HandedOut
  <2>4. server.key = key /\ server.key # NoKey /\ nextKey # NoKey
    BY <2>1, Rotating DEF IInv, NoRotationUnderWay, RotateSteps
  <2>5. rotation' # NoRotation /\ rotation'.op = FreshOp
          /\ rotation'.from = key /\ rotation'.to = nextKey
    BY <2>1, <2>2 DEF NoRotation
  <2>6. HandedOut'
    <3>1. \A r \in net : r.op \in Nat
      BY <2>2 DEF IInv, TypeOK, Requests
    <3>2. QED
      BY <2>1, <2>2, <2>5, <3>1 DEF IInv, HandedOut
  <2>7. RotationUnderWay' /\ NoRotationUnderWay' /\ RequestsRecorded'
    BY <1>5, <2>1, <2>2, <2>3, <2>4, <2>5 DEF RotateRecord, IInv, RotationUnderWay,
       NoRotationUnderWay, RequestsRecorded
  <2>8. NewDevice'
    BY <2>1, <2>4 DEF NewDevice
  <2>9. PendingOps'
    <3>1. command'.op = FreshOp /\ pending.op \in Nat
      BY <2>1, IdentityAssumption DEF IInv, TypeOK, Commands, Pendings
    <3>2. QED
      BY <2>1, <2>2, <3>1 DEF IInv, PendingOps
  <2>10. EnsureSteps' /\ RotateSteps' /\ UpdateSteps'
    BY <2>1, <2>4, <2>5 DEF IInv, TypeOK, Commands, EnsureSteps, RotateSteps, UpdateSteps
  <2>11. QED
    BY <1>0, <2>6, <2>7, <2>8, <2>9, <2>10 DEF IInv
<1>6. CASE RotateRequest
  <2>1. /\ UNCHANGED <<key, nextKey, rotation, rotated, server, ops, enrolled, credential,
                       pending, update>>
        /\ net' = net \cup {[endpoint |-> "rotate", op |-> command.op, key |-> nextKey,
                             policy |-> policy]}
        /\ command' = [command EXCEPT !.at = "answer", !.policy = policy]
        /\ command.name = "rotate" /\ command.at = "request"
    BY <1>6 DEF RotateRequest, At, keyFiles, serverVars
  <2>2. /\ rotation # NoRotation /\ command.op = rotation.op
        /\ nextKey # NoKey /\ nextKey = rotation.to
    BY <2>1 DEF IInv, RotateSteps, RotationUnderWay
  <2>3. HandedOut' /\ RequestsRecorded'
    BY <2>1, <2>2 DEF IInv, HandedOut, RequestsRecorded
  <2>4. RotationUnderWay' /\ NoRotationUnderWay' /\ NewDevice'
    BY <2>1, Rotating DEF IInv, RotationUnderWay, NoRotationUnderWay, NewDevice
  <2>5. EnsureSteps' /\ RotateSteps' /\ PendingOps' /\ UpdateSteps'
    BY <2>1 DEF IInv, TypeOK, Commands, EnsureSteps, RotateSteps, PendingOps, UpdateSteps
  <2>6. QED
    BY <1>0, <2>3, <2>4, <2>5 DEF IInv
<1>7. CASE RotateKey
  <2>1. /\ UNCHANGED <<nextKey, rotation, rotated, server, net, ops, enrolled, credential,
                       pending, update>>
        /\ key' = nextKey /\ command' = [command EXCEPT !.at = "credential"]
        /\ command.name = "rotate" /\ command.at = "answer"
        /\ rotated[command.op] # NoCredential
    BY <1>7 DEF RotateKey, Exact, Continue, At, serverVars
  <2>2. /\ rotation # NoRotation /\ command.op = rotation.op
        /\ nextKey # NoKey /\ nextKey = rotation.to
    BY <2>1 DEF IInv, RotateSteps, RotationUnderWay
  <2>3. Agreement'
    BY <2>1, <2>2 DEF Agreement, IInv, HandedOut, RotationUnderWay, NoRotationUnderWay,
       RequestsRecorded
  <2>4. NewDevice'
    BY <2>1, <2>2, Rotating DEF NewDevice
  <2>5. EnsureSteps' /\ RotateSteps' /\ PendingOps' /\ UpdateSteps'
    BY <2>1, <2>2 DEF IInv, TypeOK, Commands, EnsureSteps, RotateSteps, PendingOps, UpdateSteps
  <2>6. QED
    BY <1>0, <2>3, <2>4, <2>5 DEF IInv, Agreement
<1>8. CASE RotateCredential
  <2>1. /\ UNCHANGED <<key, nextKey, rotation, rotated, server, net, ops, enrolled,
                       pending, update>>
        /\ command' = [command EXCEPT !.at = "remove"]
        /\ command.name = "rotate" /\ command.at = "credential"
    BY <1>8 DEF RotateCredential, SaveCredential, Continue, At, keyFiles, serverVars
  <2>2. Agreement' /\ NewDevice'
    BY <2>1, Rotating, AgreementKept, NewDeviceKept
  <2>3. EnsureSteps' /\ RotateSteps' /\ PendingOps' /\ UpdateSteps'
    BY <2>1 DEF IInv, TypeOK, Commands, EnsureSteps, RotateSteps, PendingOps, UpdateSteps
  <2>4. QED
    BY <1>0, <2>2, <2>3 DEF IInv, Agreement
<1>9. CASE RotateRemoveKey
  <2>1. /\ UNCHANGED <<key, rotation, rotated, server, net, ops, enrolled, credential,
                       pending, update>>
        /\ nextKey' = NoKey /\ command' = [command EXCEPT !.at = "clear"]
        /\ command.name = "rotate" /\ command.at = "remove"
    BY <1>9 DEF RotateRemoveKey, Continue, At, serverVars
  <2>2. /\ rotation # NoRotation /\ key = rotation.to /\ rotation.to # rotation.from
    BY <2>1, NewKey DEF IInv, RotateSteps
  <2>3. Agreement'
    BY <2>1, <2>2 DEF Agreement, IInv, HandedOut, RotationUnderWay, NoRotationUnderWay,
       RequestsRecorded
  <2>4. NewDevice'
    BY <2>1, Rotating DEF NewDevice
  <2>5. EnsureSteps' /\ RotateSteps' /\ PendingOps' /\ UpdateSteps'
    BY <2>1, <2>2 DEF IInv, TypeOK, Commands, EnsureSteps, RotateSteps, PendingOps, UpdateSteps
  <2>6. QED
    BY <1>0, <2>3, <2>4, <2>5 DEF IInv, Agreement
<1>10. CASE RotateClear
  <2>1. rotation # NoRotation /\ nextKey = NoKey
    BY <1>10 DEF RotateClear, At, IInv, RotateSteps
  <2>2. Agreement' /\ NewDevice'
    BY <1>10, <2>1, RotationCleared DEF RotateClear, keyFiles, serverVars, NoCommand
  <2>3. EnsureSteps' /\ RotateSteps' /\ PendingOps' /\ UpdateSteps'
    BY <1>10 DEF RotateClear, NoCommand, keyFiles, IInv, TypeOK, EnsureSteps, RotateSteps,
       PendingOps, UpdateSteps
  <2>4. QED
    BY <1>0, <2>2, <2>3 DEF IInv, Agreement
<1>11. QED
  BY <1>1, <1>2, <1>3, <1>4, <1>5, <1>6, <1>7, <1>8, <1>9, <1>10 DEF RotateStep

\* Policy updates keep the invariant: they request and save only what belongs to a
\* device that the Server knows.
LEMMA UpdateSafe == IInv /\ UpdateStep => IInv'
<1> SUFFICES ASSUME IInv, UpdateStep PROVE IInv'
  OBVIOUS
<1>0. TypeOK'
  BY UpdateTypes
<1>1. CASE UpdateStart
  <2>1. UNCHANGED <<key, nextKey, rotation, rotated, server, enrolled, credential,
                    pending, command>>
    BY <1>1 DEF UpdateStart, keyFiles, serverVars
  <2>2. /\ net' = net /\ ops' = ops /\ update'.at = "policy"
        \/ /\ ops < MaxOp /\ ops' = FreshOp /\ update'.op = FreshOp /\ credential # NoCredential
           /\ net' = net \cup {[endpoint |-> "ensure", op |-> FreshOp, key |-> key,
                                policy |-> policy + 1]}
    <3>1. CASE credential = NoCredential
      BY <1>1, <3>1 DEF UpdateStart, NoUpdate
    <3>2. CASE credential # NoCredential
      BY <1>1, <3>2 DEF UpdateStart
    <3>3. QED
      BY <3>1, <3>2
  <2>3. FreshOp # 0 /\ ops \in Nat /\ FreshOp \in Nat /\ ops < FreshOp
    BY IdentityAssumption DEF IInv, TypeOK, FreshOp
  <2>4. Agreement' /\ NewDevice'
    <3>1. CASE net' = net /\ ops' = ops
      BY <2>1, <3>1, AgreementKept, NewDeviceKept DEF IInv, NewDevice
    <3>2. CASE net' # net \/ ops' # ops
      <4> DEFINE r == [endpoint |-> "ensure", op |-> FreshOp, key |-> key, policy |-> policy + 1]
      <4>1. ops' = FreshOp /\ net' = net \cup {r} /\ credential # NoCredential /\ FreshOp \in Op
        BY <2>2, <3>2, FreshOpTyped DEF IInv, TypeOK
      <4>2. server.key # NoKey /\ key # NoKey
        BY <4>1 DEF IInv, NewDevice
      <4>3. r \in Requests /\ r.op <= ops' /\ r.key # NoKey /\ r.endpoint = "ensure" /\ r.key = key
        BY <2>3, <4>1, <4>2 DEF IInv, TypeOK, Requests
      <4> HIDE DEF r
      <4>4. Agreement'
        BY <2>1, <4>1, <4>3, AgreementKept
      <4>5. NewDevice'
        BY <2>1, <4>1, <4>2, <4>3, NewDeviceKept
      <4>6. QED
        BY <4>4, <4>5
    <3>3. QED
      BY <3>1, <3>2
  <2>5. EnsureSteps' /\ RotateSteps' /\ UpdateSteps'
    BY <2>1, <2>2, <2>3 DEF IInv, EnsureSteps, RotateSteps, UpdateSteps
  <2>6. PendingOps'
    BY <2>1, <2>2, <2>3, IdentityAssumption DEF IInv, TypeOK, Pendings, Commands, PendingOps
  <2>7. QED
    BY <1>0, <2>4, <2>5, <2>6 DEF IInv, Agreement
<1>2. CASE UpdateAnswer \/ UpdatePolicy
  <2>1. UNCHANGED <<key, nextKey, rotation, rotated, server, net, ops, enrolled, credential,
                    pending, command>>
    BY <1>2 DEF UpdateAnswer, UpdatePolicy, keyFiles, serverVars
  <2>2. Agreement' /\ NewDevice'
    BY <2>1, AgreementKept, NewDeviceKept DEF IInv, NewDevice
  <2>3. UpdateSteps'
    BY <1>2 DEF UpdateAnswer, UpdatePolicy, NoUpdate, IInv, TypeOK, Updates, UpdateSteps
  <2>4. EnsureSteps' /\ RotateSteps' /\ PendingOps'
    BY <2>1 DEF IInv, EnsureSteps, RotateSteps, PendingOps
  <2>5. QED
    BY <1>0, <2>2, <2>3, <2>4 DEF IInv, Agreement
<1>3. CASE UpdateCredential
  <2>1. UNCHANGED <<key, nextKey, rotation, rotated, server, net, ops, enrolled,
                    pending, command>> /\ update' = NoUpdate
    BY <1>3 DEF UpdateCredential, keyFiles, serverVars
  <2>2. Agreement' /\ NewDevice'
    <3>1. update.op \in Op
      BY <1>3, AnswerTyped DEF UpdateCredential, IInv, TypeOK, Updates, UpdateSteps
    <3>2. credential' = NoCredential \/ server.key # NoKey
      BY <1>3, <3>1 DEF UpdateCredential, SaveCredential, IInv, NewDevice
    <3>3. command.name # "rotate" \/ server.key # NoKey
      BY DEF IInv, NewDevice
    <3>4. QED
      BY <2>1, <3>2, <3>3, AgreementKept, NewDeviceKept
  <2>3. EnsureSteps' /\ RotateSteps' /\ PendingOps' /\ UpdateSteps'
    BY <2>1 DEF NoUpdate, IInv, EnsureSteps, RotateSteps, PendingOps, UpdateSteps
  <2>4. QED
    BY <1>0, <2>2, <2>3 DEF IInv, Agreement
<1>4. QED
  BY <1>1, <1>2, <1>3 DEF UpdateStep

\* The Server's answer keeps the invariant: a rotate request it accepts is the
\* recorded rotation's, so it takes the key the device has prepared.
LEMMA ServeSafe == ASSUME IInv, NEW r \in net, Serve(r) PROVE IInv'
<1>0. TypeOK'
  BY ServeTypes
<1>1. /\ UNCHANGED <<key, nextKey, rotation, ops, credential, pending, command, update>>
      /\ net' \subseteq net
  BY DEF Serve, keyFiles
<1>2. r \in Requests /\ r.op \in Op /\ r.op <= ops /\ r.key # NoKey
  BY DEF IInv, TypeOK, HandedOut, Requests
<1>3. EnsureSteps' /\ RotateSteps' /\ PendingOps' /\ UpdateSteps'
  BY <1>1 DEF IInv, EnsureSteps, RotateSteps, PendingOps, UpdateSteps
<1>4. CASE ~Accepts(r)
  <2>1. UNCHANGED <<server, enrolled, rotated>>
    BY <1>4 DEF Serve, serverVars
  <2>2. QED
    BY <1>0, <1>1, <1>3, <2>1 DEF IInv, HandedOut, NewDevice, RotationUnderWay,
       NoRotationUnderWay, RequestsRecorded
<1>5. CASE Accepts(r) /\ r.endpoint = "ensure"
  <2>1. rotated' = rotated /\ server'.key = r.key /\ server.key \in {NoKey, r.key}
    BY <1>5 DEF Serve, Accepts
  <2>2. server'.key = server.key \/ (server.key = NoKey /\ server'.key = key)
    BY <2>1 DEF IInv, NewDevice
  <2>3. HandedOut' /\ RequestsRecorded'
    BY <1>1, <2>1 DEF IInv, HandedOut, RequestsRecorded
  <2>4. RotationUnderWay' /\ NoRotationUnderWay'
    BY <1>1, <2>1, <2>2 DEF IInv, NewDevice, RotationUnderWay, NoRotationUnderWay
  <2>5. NewDevice'
    BY <1>1, <1>2, <2>1, <2>2 DEF IInv, NewDevice
  <2>6. QED
    BY <1>0, <1>3, <2>3, <2>4, <2>5 DEF IInv
<1>6. CASE Accepts(r) /\ r.endpoint # "ensure"
  <2> DEFINE issued == [revision |-> server.revision + 1, key |-> r.key, policy |-> r.policy]
  <2>1. /\ r.endpoint = "rotate" /\ rotated[r.op] = NoCredential
        /\ server'.key = r.key /\ rotated' = [rotated EXCEPT ![r.op] = issued]
    BY <1>2, <1>6 DEF Serve, Accepts, Requests
  <2>2. issued # NoCredential /\ issued.key = r.key
    BY DEF IInv, TypeOK, NoCredential
  <2> HIDE DEF issued
  <2>3. /\ rotated'[r.op] = issued
        /\ \A op \in Op : op # r.op => rotated'[op] = rotated[op]
    BY <1>2, <2>1 DEF IInv, TypeOK
  <2>4. rotation # NoRotation /\ rotation.op = r.op /\ rotation.to = r.key
    BY <2>1 DEF IInv, RequestsRecorded
  <2>5. HandedOut' /\ RequestsRecorded'
    <3>1. \A op \in Op : op > ops => op # r.op
      BY <1>2, IdentityAssumption DEF IInv, TypeOK, Op
    <3>2. HandedOut'
      BY <1>1, <2>3, <3>1 DEF IInv, HandedOut
    <3>3. \A q \in net' : q \in net /\ q.op \in Op
      BY <1>1 DEF IInv, TypeOK, Requests
    <3>4. RequestsRecorded'
      BY <1>1, <2>2, <2>3, <3>3 DEF IInv, RequestsRecorded
    <3>5. QED
      BY <3>2, <3>4
  <2>6. RotationUnderWay' /\ NoRotationUnderWay'
    BY <1>1, <2>1, <2>2, <2>3, <2>4 DEF IInv, RotationUnderWay, NoRotationUnderWay
  <2>7. NewDevice'
    BY <1>1, <1>2, <2>1 DEF IInv, NewDevice
  <2>8. QED
    BY <1>0, <1>3, <2>5, <2>6, <2>7 DEF IInv
<1>7. QED
  BY <1>4, <1>5, <1>6

\* The initial state satisfies the invariant.
LEMMA InitSafe == Init => IInv
<1> SUFFICES ASSUME Init PROVE IInv
  OBVIOUS
<1>1. TypeOK
  BY InitTypes
<1>2. HandedOut /\ NewDevice /\ RotationUnderWay /\ NoRotationUnderWay /\ RequestsRecorded
  BY DEF Init, HandedOut, NewDevice, RotationUnderWay, NoRotationUnderWay,
     RequestsRecorded, NoRotation, NoCommand
<1>3. EnsureSteps /\ RotateSteps /\ PendingOps /\ UpdateSteps
  BY DEF Init, EnsureSteps, RotateSteps, PendingOps, UpdateSteps, NoCommand, NoUpdate, NoPending
<1>4. QED
  BY <1>1, <1>2, <1>3 DEF IInv

\* Every step keeps the invariant.
LEMMA NextSafe == IInv /\ [Next]_vars => IInv'
<1> SUFFICES ASSUME IInv, [Next]_vars PROVE IInv'
  OBVIOUS
<1>0. TypeOK'
  BY StepTypes
<1>1. CASE EnsureStep \/ RotateStep \/ UpdateStep
  BY <1>1, EnsureSafe, RotateSafe, UpdateSafe
<1>2. CASE \E r \in net : Serve(r)
  BY <1>2, ServeSafe
<1>3. CASE CommandEnds \/ UpdateEnds \/ RetireLocal \/ Upgrade \/ UNCHANGED vars
  <2>1. /\ UNCHANGED <<key, nextKey, rotation, rotated, server, net, ops, enrolled, pending>>
        /\ credential' \in {credential, NoCredential}
        /\ command' \in {command, NoCommand} /\ update' \in {update, NoUpdate}
    BY <1>3 DEF CommandEnds, UpdateEnds, RetireLocal, Upgrade, vars, keyFiles, serverVars
  <2>2. Agreement' /\ NewDevice'
    BY <2>1, AgreementKept, NewDeviceKept DEF IInv, NewDevice, NoCommand
  <2>3. EnsureSteps' /\ RotateSteps' /\ PendingOps' /\ UpdateSteps'
    BY <2>1 DEF IInv, TypeOK, EnsureSteps, RotateSteps, PendingOps, UpdateSteps,
       NoCommand, NoUpdate
  <2>4. QED
    BY <1>0, <2>2, <2>3 DEF IInv, Agreement
<1>4. QED
  BY <1>1, <1>2, <1>3 DEF Next

\* The record, the key files, the requests and the Server agree at every moment on
\* how far a rotation is, whatever commands are killed at whatever step.
THEOREM Inductive == Spec => []IInv
BY InitSafe, NextSafe, PTL DEF Spec

\* The files, the processes and the Server hold what they may.
THEOREM TypeCorrect == Spec => []TypeOK
<1>1. IInv => TypeOK
  BY DEF IInv
<1>2. QED
  BY <1>1, Inductive, PTL

\* The device never loses the private key the Server knows it by: device-rotate
\* saves the new key and the operation before the request, and keeps both until
\* the commit is complete.
THEOREM KeySafe == Spec => []KeyNotLost
<1>1. IInv => KeyNotLost
  <2> SUFFICES ASSUME IInv, server.key \notin {NoKey, key} PROVE
        nextKey = server.key /\ rotation.to = nextKey /\ rotation.from = key
          /\ rotated[rotation.op].key = server.key
    BY DEF KeyNotLost
  <2>1. rotation # NoRotation
    BY DEF IInv, NoRotationUnderWay
  <2>2. rotated[rotation.op] # NoCredential
    BY <2>1 DEF IInv, RotationUnderWay
  <2>3. QED
    BY <2>1, <2>2 DEF IInv, RotationUnderWay
<1>2. QED
  BY <1>1, Inductive, PTL

-----------------------------------------------------------------------------
(* The credential is that of the installed key: revisions order the answers. *)

\* What the Server has answered so far.
Answers == {enrolled[op] : op \in Op} \cup {rotated[op] : op \in Op}
Issued == Answers \ {NoCredential}

\* The rotation that is recorded has its answer.
RotationAnswered == rotation # NoRotation /\ rotated[rotation.op] # NoCredential

\* From this revision on every answer is for the key the Server has now.
Since == IF RotationAnswered THEN rotated[rotation.op].revision ELSE newest

\* Later answers have higher revisions, and only those before an answered rotation
\* are for an older key.
AnswersOrdered ==
    \A a \in Issued : /\ a.revision <= server.revision
                      /\ server.key # NoKey
                      /\ a.revision >= Since => a.key = server.key

\* The credential file holds an answer.
CredentialIssued == credential \in Issued \cup {NoCredential}

\* The pending key goes only when the credential of the new one was saved.
RotationSaved ==
    /\ rotation # NoRotation
    /\ nextKey = NoKey \/ At("rotate", "remove") \/ At("rotate", "clear")
    => newest >= rotated[rotation.op].revision

RInv == IInv /\ AnswersOrdered /\ CredentialIssued /\ RotationSaved

\* Revisions are numbers.
LEMMA RevisionTyped ==
    ASSUME RInv
    PROVE  /\ newest \in Nat /\ server.revision \in Nat /\ Since \in Nat
           /\ \A a \in Answers : a \in Credential /\ a.revision \in Nat
           /\ rotation # NoRotation => rotation.op \in Op
<1>1. newest \in Nat /\ server.revision \in Nat
  BY DEF RInv, IInv, TypeOK
<1>2. \A a \in Answers : a \in Credential /\ a.revision \in Nat
  BY DEF RInv, IInv, TypeOK, Answers, Credential
<1>3. rotation # NoRotation => rotation.op \in Op
  BY AnswerTyped DEF RInv, IInv, TypeOK, Rotations, RotationUnderWay
<1>4. Since \in Nat
  BY <1>1, <1>2, <1>3 DEF Since, RotationAnswered, Answers
<1>5. QED
  BY <1>1, <1>2, <1>3, <1>4

\* A step without an answer of the Server keeps the order, if it does not look
\* further back.
LEMMA OrderKept ==
    ASSUME RInv, UNCHANGED <<server, enrolled, rotated>>,
           Since' \in Nat, Since' >= Since,
           credential' \in Issued \cup {NoCredential}
    PROVE  AnswersOrdered' /\ CredentialIssued'
<1>1. Issued' = Issued
  BY DEF Issued, Answers
<1>2. \A a \in Issued : a.revision >= Since' => a.revision >= Since
  BY RevisionTyped DEF Issued
<1>3. AnswersOrdered'
  BY <1>1, <1>2 DEF RInv, AnswersOrdered
<1>4. QED
  BY <1>1, <1>3 DEF CredentialIssued

\* As long as the record stays, newer credentials only move it forward.
LEMMA SinceKept ==
    ASSUME RInv, UNCHANGED <<rotated, rotation>>, newest' \in Nat, newest' >= newest
    PROVE  Since' \in Nat /\ Since' >= Since
BY RevisionTyped DEF Since, RotationAnswered

\* The answer to an operation that was handed out may be saved.
LEMMA SavedKept ==
    ASSUME RInv, UNCHANGED <<server, enrolled, rotated, rotation>>,
           NEW a \in Issued, SaveCredential(a)
    PROVE  /\ AnswersOrdered' /\ CredentialIssued'
           /\ newest' \in Nat /\ newest' >= newest /\ newest' >= a.revision
<1>1. newest' \in Nat /\ newest' >= newest /\ newest' >= a.revision
  BY RevisionTyped DEF SaveCredential, Issued
<1>2. credential' \in Issued
  BY DEF SaveCredential
<1>3. QED
  BY <1>1, <1>2, SinceKept, OrderKept

\* A step that saves no credential and leaves the record alone.
LEMMA UnsavedKept ==
    ASSUME RInv, UNCHANGED <<server, enrolled, rotated, rotation, newest>>,
           credential' \in {credential, NoCredential},
           nextKey' = NoKey => nextKey = NoKey \/ At("rotate", "remove"),
           At("rotate", "remove")' \/ At("rotate", "clear")' =>
              At("rotate", "remove") \/ At("rotate", "clear")
    PROVE  AnswersOrdered' /\ CredentialIssued' /\ RotationSaved'
<1>1. Since' \in Nat /\ Since' >= Since
  BY RevisionTyped, SinceKept
<1>2. credential' \in Issued \cup {NoCredential}
  BY DEF RInv, CredentialIssued
<1>3. RotationSaved'
  BY DEF RInv, RotationSaved
<1>4. QED
  BY <1>1, <1>2, <1>3, OrderKept

\* ensure, under the registration lock, and updates save answers to their operation.
LEMMA EnsureOrders == RInv /\ EnsureStep => AnswersOrdered' /\ CredentialIssued' /\ RotationSaved'
<1> SUFFICES ASSUME RInv, EnsureStep PROVE AnswersOrdered' /\ CredentialIssued' /\ RotationSaved'
  OBVIOUS
<1>0. IInv
  BY DEF RInv
<1>1. CASE EnsureCredential
  <2>1. enrolled[command.op] # NoCredential /\ command.op \in Op
    BY <1>0, <1>1, AnswerTyped DEF EnsureCredential, Exact, At, IInv, TypeOK, Commands, EnsureSteps
  <2>2. enrolled[command.op] \in Issued
    BY <2>1 DEF Issued, Answers
  <2>3. UNCHANGED <<server, enrolled, rotated, rotation, nextKey>>
          /\ SaveCredential(enrolled[command.op])
    BY <1>1 DEF EnsureCredential, keyFiles, serverVars
  <2>4. AnswersOrdered' /\ CredentialIssued' /\ newest' \in Nat /\ newest' >= newest
    BY <2>2, <2>3, SavedKept
  <2>5. ~At("rotate", "remove")' /\ ~At("rotate", "clear")'
    BY <1>0, <1>1 DEF EnsureCredential, Continue, At, IInv, TypeOK, Commands
  <2>6. rotation # NoRotation => rotated[rotation.op].revision \in Nat
    BY RevisionTyped DEF Answers
  <2>7. QED
    BY <2>3, <2>4, <2>5, <2>6, RevisionTyped DEF RInv, RotationSaved
<1>2. CASE EnsureStep /\ ~EnsureCredential
  <2>1. UNCHANGED <<server, enrolled, rotated, rotation, newest, nextKey, credential>>
    BY <1>2 DEF EnsureStep, EnsureStart, EnsureGenerate, EnsureRenew, EnsureOrigin, EnsureAlready,
          EnsureProbe, EnsureExpired, EnsureResume, EnsurePend, EnsureInputs, LoadInputs,
          EnsureRequest, EnsurePolicy, EnsureClear, keyFiles, serverVars
  <2>2. command'.name # "rotate"
    <3>1. CASE EnsureStart
      BY <1>0, <3>1, EnsureBegins
    <3>2. CASE EnsureAlready \/ EnsureClear
      BY <3>2 DEF EnsureAlready, EnsureClear, NoCommand
    <3>3. CASE EnsureGenerate \/ EnsureRenew \/ EnsureOrigin \/ EnsureRequest \/ EnsurePolicy
      BY <1>0, <3>3 DEF EnsureGenerate, EnsureRenew, EnsureOrigin, EnsureRequest, EnsurePolicy,
         Continue, At, IInv, TypeOK, Commands
    <3>4. CASE EnsureProbe \/ EnsureExpired \/ EnsureResume \/ EnsurePend \/ EnsureInputs
      BY <1>0, <3>4 DEF EnsureProbe, EnsureExpired, EnsureResume, EnsurePend, EnsureInputs,
         LoadInputs, At, IInv, TypeOK, Commands
    <3>5. QED
      BY <1>2, <3>1, <3>2, <3>3, <3>4 DEF EnsureStep
  <2>3. QED
    BY <2>1, <2>2, UnsavedKept DEF At
<1>3. QED
  BY <1>1, <1>2

\* device-rotate removes its record when the credential of the new key was saved.
LEMMA RotateOrders == RInv /\ RotateStep => AnswersOrdered' /\ CredentialIssued' /\ RotationSaved'
<1> SUFFICES ASSUME RInv, RotateStep PROVE AnswersOrdered' /\ CredentialIssued' /\ RotationSaved'
  OBVIOUS
<1>0. IInv
  BY DEF RInv
<1>1. CASE RotateFinish \/ RotateClear
  <2>1. rotation # NoRotation /\ nextKey = NoKey
    BY <1>0, <1>1 DEF RotateFinish, Committed, RotateClear, At, IInv, RotateSteps
  <2>2. newest >= rotated[rotation.op].revision
    BY <2>1 DEF RInv, RotationSaved
  <2>3. /\ UNCHANGED <<server, enrolled, rotated, newest, credential>>
        /\ rotation' = NoRotation
    BY <1>1 DEF RotateFinish, RotateClear, serverVars
  <2>4. Since' = newest /\ newest \in Nat /\ newest >= Since
    BY <2>2, <2>3, RevisionTyped DEF Since, RotationAnswered
  <2>5. AnswersOrdered' /\ CredentialIssued'
    BY <2>3, <2>4, OrderKept DEF RInv, CredentialIssued
  <2>6. QED
    BY <2>3, <2>5 DEF RotationSaved
<1>2. CASE RotateRecord
  <2>1. /\ UNCHANGED <<server, enrolled, rotated, newest, credential, nextKey>>
        /\ rotation = NoRotation /\ rotation'.op = FreshOp
        /\ command.name = "rotate" /\ command.at = "record"
        /\ command' = [command EXCEPT !.at = "request", !.op = FreshOp]
    BY <1>2 DEF RotateRecord, At, keyFiles, serverVars
  <2>2. rotated[FreshOp] = NoCredential /\ nextKey # NoKey
    <3>1. FreshOp \in Op /\ FreshOp > ops
      BY <1>0, <1>2, FreshOpTyped, IdentityAssumption DEF RotateRecord, IInv, TypeOK, FreshOp
    <3>2. QED
      BY <1>0, <2>1, <3>1 DEF IInv, HandedOut, RotateSteps
  <2>3. Since' = newest /\ Since = newest /\ newest \in Nat
    BY <2>1, <2>2, RevisionTyped DEF Since, RotationAnswered
  <2>4. AnswersOrdered' /\ CredentialIssued'
    BY <2>1, <2>3, OrderKept DEF RInv, CredentialIssued
  <2>5. ~At("rotate", "remove")' /\ ~At("rotate", "clear")'
    BY <1>0, <2>1 DEF At, IInv, TypeOK, Commands
  <2>6. QED
    BY <2>1, <2>2, <2>4, <2>5 DEF RotationSaved
<1>3. CASE RotateCredential
  <2>1. /\ UNCHANGED <<server, enrolled, rotated, rotation, nextKey>>
        /\ SaveCredential(rotated[command.op])
        /\ command.name = "rotate" /\ command.at = "credential"
    BY <1>3 DEF RotateCredential, At, keyFiles, serverVars
  <2>2. rotation # NoRotation /\ command.op = rotation.op /\ key = rotation.to
    BY <1>0, <2>1 DEF IInv, RotateSteps
  <2>3. rotated[rotation.op] # NoCredential
    BY <1>0, <2>2, NewKey DEF IInv, RotationUnderWay
  <2>4. rotated[command.op] \in Issued
    BY <2>2, <2>3, RevisionTyped DEF Issued, Answers
  <2>5. AnswersOrdered' /\ CredentialIssued' /\ newest' >= rotated[command.op].revision
    BY <2>1, <2>4, SavedKept
  <2>6. QED
    BY <2>1, <2>2, <2>5 DEF RotationSaved
<1>4. CASE RotateStart \/ RotatePrepare \/ RotateResume \/ RotateRequest \/ RotateKey
  <2>1. UNCHANGED <<server, enrolled, rotated, rotation, newest, credential>>
    BY <1>4 DEF RotateStart, RotatePrepare, RotateResume, RotateRequest, RotateKey, keyFiles, serverVars
  <2>2. nextKey' = nextKey \/ nextKey' # NoKey
    <3>1. CASE RotatePrepare
      <4>1. key.generation + 1 # 0
        BY <1>0 DEF IInv, TypeOK, Key
      <4>2. nextKey'.generation = key.generation + 1
        BY <3>1 DEF RotatePrepare
      <4>3. QED
        BY <4>1, <4>2 DEF NoKey
    <3>2. CASE ~RotatePrepare
      BY <1>4, <3>2 DEF RotateStart, RotateResume, RotateRequest, RotateKey, keyFiles
    <3>3. QED
      BY <3>1, <3>2
  <2>3. ~At("rotate", "remove")' /\ ~At("rotate", "clear")'
    <3>1. command'.at \notin {"remove", "clear"}
      <4>1. CASE RotateStart
        BY <4>1 DEF RotateStart, NoCommand
      <4>2. CASE RotatePrepare \/ RotateKey
        BY <1>0, <4>2 DEF RotatePrepare, RotateKey, Continue, IInv, TypeOK, Commands
      <4>3. CASE RotateResume \/ RotateRequest
        BY <1>0, <4>3 DEF RotateResume, RotateRequest, IInv, TypeOK, Commands
      <4>4. QED
        BY <1>4, <4>1, <4>2, <4>3
    <3>2. QED
      BY <3>1 DEF At
  <2>4. QED
    BY <2>1, <2>2, <2>3, UnsavedKept
<1>5. CASE RotateRemoveKey
  BY <1>5, UnsavedKept DEF RotateRemoveKey, serverVars
<1>6. QED
  BY <1>1, <1>2, <1>3, <1>4, <1>5 DEF RotateStep

\* Policy updates save the answer to their own operation.
LEMMA UpdateOrders == RInv /\ UpdateStep => AnswersOrdered' /\ CredentialIssued' /\ RotationSaved'
<1> SUFFICES ASSUME RInv, UpdateStep PROVE AnswersOrdered' /\ CredentialIssued' /\ RotationSaved'
  OBVIOUS
<1>1. CASE UpdateCredential /\ enrolled[update.op] # NoCredential
  <2>1. update.op \in Op
    BY <1>1, AnswerTyped DEF UpdateCredential, RInv, IInv, TypeOK, Updates, UpdateSteps
  <2>2. enrolled[update.op] \in Issued
    BY <1>1, <2>1 DEF Issued, Answers
  <2>3. UNCHANGED <<server, enrolled, rotated, rotation, nextKey, command>>
          /\ SaveCredential(enrolled[update.op])
    BY <1>1 DEF UpdateCredential, keyFiles, serverVars
  <2>4. AnswersOrdered' /\ CredentialIssued' /\ newest' \in Nat /\ newest' >= newest
    BY <2>2, <2>3, SavedKept
  <2>5. rotation # NoRotation => rotated[rotation.op].revision \in Nat
    BY RevisionTyped DEF Answers
  <2>6. QED
    BY <2>3, <2>4, <2>5, RevisionTyped DEF RInv, RotationSaved, At
<1>2. CASE UpdateCredential /\ enrolled[update.op] = NoCredential
  <2>1. newest' = newest
    BY <1>2, RevisionTyped DEF UpdateCredential, SaveCredential, NoCredential
  <2>2. QED
    BY <1>2, <2>1, UnsavedKept DEF UpdateCredential, SaveCredential, keyFiles, serverVars, At
<1>3. CASE UpdateStart \/ UpdateAnswer \/ UpdatePolicy
  BY <1>3, UnsavedKept DEF UpdateStart, UpdateAnswer, UpdatePolicy, keyFiles, serverVars, At
<1>4. QED
  BY <1>1, <1>2, <1>3 DEF UpdateStep

\* Each answer of the Server has a revision above all before it.
LEMMA ServeOrders ==
    ASSUME RInv, NEW r \in net, Serve(r)
    PROVE  AnswersOrdered' /\ CredentialIssued' /\ RotationSaved'
<1> DEFINE issued == [revision |-> server.revision + 1, key |-> r.key, policy |-> r.policy]
<1>0. IInv /\ r \in Requests /\ r.op \in Op /\ r.key # NoKey
  BY DEF RInv, IInv, TypeOK, HandedOut, Requests
<1>1. UNCHANGED <<key, nextKey, rotation, credential, newest, command>>
  BY DEF Serve, keyFiles
<1>2. CASE ~Accepts(r)
  <2>1. UNCHANGED <<server, enrolled, rotated>>
    BY <1>2 DEF Serve, serverVars
  <2>2. QED
    BY <1>1, <2>1, UnsavedKept DEF At
<1>3. CASE Accepts(r)
  <2>1. issued # NoCredential /\ issued.key = r.key /\ issued.revision = server.revision + 1
    BY RevisionTyped DEF NoCredential
  <2>2. server'.key = r.key /\ server'.revision = server.revision + 1
    BY <1>3 DEF Serve
  <2> HIDE DEF issued
  <2>3. CASE r.endpoint = "ensure"
    <3>1. rotated' = rotated /\ enrolled' = [enrolled EXCEPT ![r.op] = issued]
            /\ enrolled[r.op] = NoCredential /\ server.key \in {NoKey, r.key}
      BY <1>3, <2>3 DEF Serve, Accepts, issued
    <3>2. Issued' = Issued \cup {issued}
      BY <1>0, <2>1, <3>1 DEF Issued, Answers, IInv, TypeOK
    <3>3. Since' = Since
      BY <1>1, <3>1 DEF Since, RotationAnswered
    <3>4. AnswersOrdered'
      BY <1>0, <2>1, <2>2, <3>1, <3>2, <3>3, RevisionTyped DEF RInv, AnswersOrdered, Issued
    <3>5. QED
      BY <1>1, <3>1, <3>2, <3>4 DEF RInv, CredentialIssued, RotationSaved, At
  <2>4. CASE r.endpoint # "ensure"
    <3>1. enrolled' = enrolled /\ rotated' = [rotated EXCEPT ![r.op] = issued]
            /\ rotated[r.op] = NoCredential /\ r.endpoint = "rotate"
      BY <1>0, <1>3, <2>4 DEF Serve, Accepts, issued, Requests
    <3>2. rotation # NoRotation /\ rotation.op = r.op /\ rotation.to = r.key
      BY <1>0, <3>1 DEF IInv, RequestsRecorded
    <3>3. Issued' = Issued \cup {issued}
      BY <1>0, <2>1, <3>1 DEF Issued, Answers, IInv, TypeOK
    <3>4. rotated'[r.op] = issued
      BY <1>0, <3>1 DEF IInv, TypeOK
    <3>5. Since' = server.revision + 1
      BY <1>1, <2>1, <3>2, <3>4 DEF Since, RotationAnswered
    <3>6. AnswersOrdered'
      BY <1>0, <2>1, <2>2, <3>3, <3>5, RevisionTyped DEF RInv, AnswersOrdered, Issued
    <3>7. key = rotation.from /\ nextKey # NoKey /\ key # rotation.to
      BY <1>0, <3>1, <3>2, NewKey DEF IInv, RotationUnderWay
    <3>8. RotationSaved'
      BY <1>0, <1>1, <3>7 DEF IInv, RotateSteps, RotationSaved, At
    <3>9. QED
      BY <1>1, <3>3, <3>6, <3>8 DEF RInv, CredentialIssued
  <2>5. QED
    BY <2>3, <2>4
<1>4. QED
  BY <1>2, <1>3

\* Nothing has been answered at first.
LEMMA InitOrders == Init => RInv
<1> SUFFICES ASSUME Init PROVE RInv
  OBVIOUS
<1>1. Answers \subseteq {NoCredential}
  BY DEF Init, Answers
<1>2. QED
  BY <1>1, InitSafe DEF Init, RInv, Issued, AnswersOrdered, CredentialIssued, RotationSaved

\* Every step keeps the order.
LEMMA NextOrders == RInv /\ [Next]_vars => RInv'
<1> SUFFICES ASSUME RInv, [Next]_vars PROVE RInv'
  OBVIOUS
<1>1. IInv'
  BY NextSafe DEF RInv
<1>2. CASE EnsureStep \/ RotateStep \/ UpdateStep
  BY <1>1, <1>2, EnsureOrders, RotateOrders, UpdateOrders DEF RInv
<1>3. CASE \E r \in net : Serve(r)
  BY <1>1, <1>3, ServeOrders DEF RInv
<1>4. CASE CommandEnds \/ UpdateEnds \/ RetireLocal \/ Upgrade \/ UNCHANGED vars
  <2>1. UNCHANGED <<server, enrolled, rotated, rotation, newest, nextKey>>
          /\ credential' \in {credential, NoCredential} /\ command' \in {command, NoCommand}
    BY <1>4 DEF CommandEnds, UpdateEnds, RetireLocal, Upgrade, vars, keyFiles, serverVars
  <2>2. QED
    BY <1>1, <2>1, UnsavedKept DEF RInv, At, NoCommand
<1>5. QED
  BY <1>2, <1>3, <1>4 DEF Next

\* The Server's answers and the files agree on the order of credentials.
THEOREM OrderInductive == Spec => []RInv
BY InitOrders, NextOrders, PTL DEF Spec

\* When no rotation is under way the newest credential is that of the installed key:
\* device-rotate removes its record when the new credential is in place, and until
\* then it resumes (commit_identity_rotation, finish_interrupted_identity_rotation).
THEOREM CredentialMatches == Spec => []CredentialOfKey
<1>1. RInv => CredentialOfKey
  <2> SUFFICES ASSUME RInv, rotation = NoRotation, credential # NoCredential,
                      credential.revision = newest
               PROVE  credential.key = key
    BY DEF CredentialOfKey
  <2>1. credential \in Issued /\ Since = newest /\ newest \in Nat
    BY RevisionTyped DEF RInv, CredentialIssued, Since, RotationAnswered
  <2>2. credential.key = server.key /\ server.key # NoKey
    BY <2>1 DEF RInv, AnswersOrdered
  <2>3. QED
    BY <2>2 DEF RInv, IInv, NoRotationUnderWay
<1>2. QED
  BY <1>1, OrderInductive, PTL

-----------------------------------------------------------------------------
(* A migration that was interrupted can be finished.                         *)

\* An operation the device has not generated yet has no answer, and an update's is
\* not that of the pending registration.
OpsApart ==
    /\ \A op \in Op : op > ops => enrolled[op] = NoCredential
    /\ update.op <= ops
    /\ update.op # 0 => update.op # pending.op

\* A rotation registers a policy that was committed when it was requested.
RotationsOfPolicy ==
    /\ \A r \in net : r.endpoint = "rotate" => r.policy <= policy
    /\ \A op \in Op : rotated[op].policy <= policy

\* The request and the answer of an update are for its policy, the next one until it
\* is committed.
UpdateOfPolicy ==
    /\ update.at \in {"answer", "policy"} => update.policy = policy + 1
    /\ update.at = "credential" => update.policy <= policy
    /\ update.op # 0 =>
        /\ \A r \in net : r.endpoint = "ensure" /\ r.op = update.op => r.policy = update.policy
        /\ enrolled[update.op] # NoCredential => enrolled[update.op].policy = update.policy

\* A migration keeps updates out and the old policy in place until it commits.
MigrationLocked ==
    command.migrates =>
        /\ command.name = "ensure" /\ update = NoUpdate
        /\ command.at # "clear" => stale /\ command.policy = policy + 1

Loaded == {"request", "answer", "policy", "clear"}
Resumed == Loaded \cup {"inputs"}

\* What an ensure in progress knows of its policy and its pending registration.
EnsureHolds ==
    command.name = "ensure" =>
        /\ pending # NoPending => pending.key = key
        /\ command.at = "renew" => pending # NoPending
        /\ command.at \in Resumed => pending # NoPending /\ pending.op = command.op
        /\ command.at \in Loaded => command.policy # 0
        /\ command.at = "policy" => command.migrates
        /\ ~command.migrates => command.policy <= policy
        /\ command.at = "clear" => credential.policy <= policy

\* No rotation commits over a migration.
RotateHolds == At("rotate", "answer") => credential.policy <= policy

\* An uncommitted migration leads every further ensure to the same policy.
Migrating ==
    credential.policy > policy =>
        /\ credential.policy = policy + 1
        /\ command.name = "ensure" /\ command.policy # 0 => command.migrates
        /\ \A r \in net : /\ r.endpoint = "ensure" /\ r.op = pending.op
                          /\ enrolled[pending.op] = NoCredential
                          => r.policy = policy + 1

\* What is known of policies, without what is known of the order of answers.
PolicyParts ==
    /\ policy # 0 /\ (pending # NoPending => pending.key # NoKey)
    /\ OpsApart /\ RotationsOfPolicy /\ UpdateOfPolicy /\ MigrationLocked
    /\ EnsureHolds /\ RotateHolds /\ Migrating /\ MigrationCanFinish

MInv == RInv /\ PolicyParts

\* What the types say of the values compared below.
LEMMA ValuesTyped ==
    ASSUME MInv
    PROVE  /\ policy \in Nat /\ credential.policy \in Nat /\ ops \in Nat
           /\ command \in Commands /\ command.policy \in Nat /\ command.op \in Nat
           /\ update \in Updates /\ update.policy \in Nat /\ update.op \in Nat
           /\ pending \in Pendings /\ pending.op \in Nat
           /\ \A op \in Op : /\ op \in Nat /\ op # 0
                             /\ enrolled[op] \in Credential /\ rotated[op] \in Credential
                             /\ enrolled[op].policy \in Nat /\ rotated[op].policy \in Nat
           /\ \A r \in net : r.op \in Op /\ r.op \in Nat /\ r.op <= ops /\ r.policy \in Nat
<1> USE IdentityAssumption DEF MInv, RInv, IInv, TypeOK
<1>1. policy \in Nat /\ credential.policy \in Nat /\ ops \in Nat
  BY DEF Credential
<1>2. command \in Commands /\ command.policy \in Nat /\ command.op \in Nat
  BY DEF Commands
<1>3. update \in Updates /\ update.policy \in Nat /\ update.op \in Nat
  BY DEF Updates
<1>4. pending \in Pendings /\ pending.op \in Nat
  BY DEF Pendings
<1>5. \A op \in Op : /\ op \in Nat /\ op # 0
                     /\ enrolled[op] \in Credential /\ rotated[op] \in Credential
                     /\ enrolled[op].policy \in Nat /\ rotated[op].policy \in Nat
  BY DEF Credential, Op
<1>6. \A r \in net : r.op \in Op /\ r.op \in Nat /\ r.op <= ops /\ r.policy \in Nat
  BY DEF HandedOut, Requests, Op
<1>7. QED
  BY <1>1, <1>2, <1>3, <1>4, <1>5, <1>6

\* ensure begins with a pending registration of the installed key, or with none.
LEMMA EnsureBeginsWith ==
    ASSUME MInv, EnsureStart
    PROVE  /\ command' \in Commands /\ command'.name = "ensure" /\ command'.op = 0
           /\ command'.policy = 0 /\ ~command'.migrates
           /\ command'.at \in {"generate", "renew", "origin"}
           /\ command'.at = "renew" => pending # NoPending
           /\ pending # NoPending => pending.key = key
<1>0. IInv
  BY DEF MInv, RInv
<1>1. pending # NoPending => pending.key = key
  BY DEF EnsureStart
<1>2. command'.policy = 0 /\ ~command'.migrates
  BY DEF EnsureStart, NoCommand
<1>3. command'.at = "renew" => pending # NoPending
  BY DEF EnsureStart, NoCommand
<1>4. QED
  BY <1>0, <1>1, <1>2, <1>3, EnsureBegins

\* The steps of ensure before its request.
LEMMA EnsurePrepares ==
    ASSUME MInv, \/ EnsureStart \/ EnsureGenerate \/ EnsureRenew \/ EnsureOrigin
                 \/ EnsureExpired \/ EnsureResume \/ EnsurePend
    PROVE  PolicyParts'
<1> USE ValuesTyped DEF MInv, PolicyParts
<1>0. IInv
  BY DEF RInv
<1>1. CASE EnsureStart
  <2>1. UNCHANGED <<key, credential, pending, policy, stale, update, net, enrolled, rotated, ops>>
    BY <1>1 DEF EnsureStart, keyFiles, policyVars, serverVars
  <2>2. OpsApart' /\ RotationsOfPolicy' /\ UpdateOfPolicy'
    BY <2>1 DEF OpsApart, RotationsOfPolicy, UpdateOfPolicy
  <2>3. MigrationLocked' /\ EnsureHolds' /\ RotateHolds'
    BY <1>1, <2>1, EnsureBeginsWith DEF MigrationLocked, EnsureHolds, RotateHolds, At, Loaded, Resumed
  <2>4. Migrating' /\ MigrationCanFinish'
    BY <1>1, <2>1, EnsureBeginsWith DEF Migrating, MigrationCanFinish
  <2>5. QED
    BY <2>1, <2>2, <2>3, <2>4 DEF PolicyParts
<1>2. CASE EnsureGenerate
  <2>1. /\ UNCHANGED <<credential, pending, policy, stale, update, net, enrolled, rotated, ops>>
        /\ command' = [command EXCEPT !.at = "origin"]
        /\ command.name = "ensure" /\ command.at = "generate"
    BY <1>2 DEF EnsureGenerate, At, Continue, policyVars, serverVars
  <2>2. key = NoKey
    BY <1>0, <2>1 DEF IInv, EnsureSteps
  <2>3. pending = NoPending /\ credential.policy = 0
    BY <1>0, <2>1, <2>2, NoKeyYet DEF EnsureHolds, NoCredential
  <2>4. OpsApart' /\ RotationsOfPolicy' /\ UpdateOfPolicy'
    BY <2>1 DEF OpsApart, RotationsOfPolicy, UpdateOfPolicy
  <2>5. MigrationLocked' /\ EnsureHolds' /\ RotateHolds'
    BY <2>1, <2>3 DEF Commands, MigrationLocked, EnsureHolds, RotateHolds, At, Loaded, Resumed
  <2>6. Migrating' /\ MigrationCanFinish'
    BY <2>1, <2>3 DEF Migrating, MigrationCanFinish
  <2>7. QED
    BY <2>1, <2>3, <2>4, <2>5, <2>6 DEF PolicyParts
<1>3. CASE EnsureRenew
  <2>1. /\ UNCHANGED <<key, credential, policy, stale, update, net, enrolled, rotated>>
        /\ command' = [command EXCEPT !.at = "origin"]
        /\ command.name = "ensure" /\ command.at = "renew"
        /\ pending' = [pending EXCEPT !.op = FreshOp, !.ordinary = FALSE]
        /\ ops' = FreshOp /\ ops < MaxOp
    BY <1>3 DEF EnsureRenew, At, Continue, keyFiles, policyVars, serverVars
  <2>2. /\ pending'.op = FreshOp /\ FreshOp \in Op /\ ops < FreshOp /\ pending'.key = pending.key
        /\ enrolled[FreshOp] = NoCredential
    <3>1. FreshOp \in Op /\ ops < FreshOp
      BY <1>0, <2>1, FreshOpTyped DEF IInv, TypeOK, FreshOp
    <3>2. QED
      BY <2>1, <3>1 DEF OpsApart, Pendings
  <2>3. pending # NoPending /\ pending.key = key /\ pending' # NoPending
    BY <2>1, <2>2 DEF EnsureHolds, NoPending
  <2>4. OpsApart' /\ RotationsOfPolicy' /\ UpdateOfPolicy'
    BY <2>1, <2>2 DEF OpsApart, RotationsOfPolicy, UpdateOfPolicy
  <2>5. MigrationLocked' /\ EnsureHolds' /\ RotateHolds'
    BY <2>1, <2>2, <2>3 DEF Commands, MigrationLocked, EnsureHolds, RotateHolds, At, Loaded, Resumed
  <2>6. Migrating'
    BY <2>1, <2>2, <2>3 DEF Commands, Migrating
  <2>7. MigrationCanFinish'
    BY <2>1, <2>2, <2>3 DEF MigrationCanFinish
  <2>8. QED
    BY <2>1, <2>2, <2>3, <2>4, <2>5, <2>6, <2>7 DEF PolicyParts
<1>4. CASE EnsureOrigin \/ EnsureExpired
  <2>1. /\ UNCHANGED <<key, credential, pending, policy, stale, update, net, enrolled, rotated, ops>>
        /\ command.name = "ensure" /\ command.at # "clear"
        /\ command'.name = "ensure" /\ command'.at \in {"check", "pend"}
        /\ UNCHANGED <<command.policy, command.migrates, command.op>>
    BY <1>4 DEF EnsureOrigin, EnsureExpired, At, Continue, Commands, keyFiles, policyVars, serverVars
  <2>2. OpsApart' /\ RotationsOfPolicy' /\ UpdateOfPolicy'
    BY <2>1 DEF OpsApart, RotationsOfPolicy, UpdateOfPolicy
  <2>3. MigrationLocked' /\ EnsureHolds' /\ RotateHolds'
    BY <2>1 DEF MigrationLocked, EnsureHolds, RotateHolds, At, Loaded, Resumed
  <2>4. Migrating' /\ MigrationCanFinish'
    BY <2>1 DEF Migrating, MigrationCanFinish
  <2>5. QED
    BY <2>1, <2>2, <2>3, <2>4 DEF PolicyParts
<1>5. CASE EnsureResume
  <2>1. /\ UNCHANGED <<key, credential, pending, policy, stale, update, net, enrolled, rotated, ops>>
        /\ command.name = "ensure" /\ command.at = "pend" /\ pending # NoPending
        /\ command' = [command EXCEPT !.at = AfterPend, !.op = pending.op]
    BY <1>5 DEF EnsureResume, At, keyFiles, policyVars, serverVars
  <2>2. /\ command'.name = "ensure" /\ command'.op = pending.op
        /\ command'.at = IF command.policy = 0 THEN "inputs" ELSE "request"
        /\ UNCHANGED <<command.policy, command.migrates>>
    BY <2>1 DEF Commands, AfterPend
  <2>3. OpsApart' /\ RotationsOfPolicy' /\ UpdateOfPolicy'
    BY <2>1 DEF OpsApart, RotationsOfPolicy, UpdateOfPolicy
  <2>4. MigrationLocked' /\ EnsureHolds' /\ RotateHolds'
    BY <2>1, <2>2 DEF MigrationLocked, EnsureHolds, RotateHolds, At, Loaded, Resumed
  <2>5. Migrating' /\ MigrationCanFinish'
    BY <2>1, <2>2 DEF Migrating, MigrationCanFinish
  <2>6. QED
    BY <2>1, <2>3, <2>4, <2>5 DEF PolicyParts
<1>6. CASE EnsurePend
  <2>1. /\ UNCHANGED <<key, credential, policy, stale, update, net, enrolled, rotated>>
        /\ command.name = "ensure" /\ command.at = "pend" /\ pending = NoPending
        /\ pending' = [op |-> FreshOp, key |-> key, ordinary |-> command.ordinary]
        /\ ops' = FreshOp /\ ops < MaxOp
        /\ command' = [command EXCEPT !.at = AfterPend, !.op = FreshOp, !.ordinary = FALSE]
    BY <1>6 DEF EnsurePend, At, keyFiles, policyVars, serverVars
  <2>2. /\ command'.name = "ensure" /\ command'.op = FreshOp
        /\ command'.at = IF command.policy = 0 THEN "inputs" ELSE "request"
        /\ UNCHANGED <<command.policy, command.migrates>>
    BY <2>1 DEF Commands, AfterPend
  <2>3. FreshOp \in Op /\ ops < FreshOp /\ key # NoKey
    BY <1>0, <2>1, FreshOpTyped DEF IInv, TypeOK, FreshOp, EnsureSteps
  <2>4. pending' # NoPending /\ pending'.op = FreshOp /\ pending'.key = key
    BY <2>1, <2>3 DEF NoPending
  <2>5. credential.policy <= policy
    BY <2>1 DEF MigrationCanFinish
  <2>6. OpsApart' /\ RotationsOfPolicy' /\ UpdateOfPolicy'
    BY <2>1, <2>3, <2>4 DEF OpsApart, RotationsOfPolicy, UpdateOfPolicy
  <2>7. MigrationLocked' /\ EnsureHolds' /\ RotateHolds'
    BY <2>1, <2>2, <2>3, <2>4 DEF MigrationLocked, EnsureHolds, RotateHolds, At, Loaded, Resumed
  <2>8. Migrating' /\ MigrationCanFinish'
    BY <2>1, <2>5 DEF Migrating, MigrationCanFinish
  <2>9. QED
    BY <2>1, <2>3, <2>4, <2>6, <2>7, <2>8 DEF PolicyParts
<1>7. QED
  BY <1>1, <1>2, <1>3, <1>4, <1>5, <1>6

\* The inputs are of the policy, or of the one it is migrated to under the lock.
LEMMA EnsureLoads ==
    ASSUME MInv, EnsureProbe \/ EnsureInputs
    PROVE  PolicyParts'
<1> USE ValuesTyped DEF MInv, PolicyParts
<1>1. /\ UNCHANGED <<key, credential, pending, policy, stale, update, net, enrolled, rotated, ops>>
      /\ command.name = "ensure" /\ command.at \in {"check", "inputs"}
      /\ stale => update = NoUpdate
  BY DEF EnsureProbe, EnsureInputs, LoadInputs, At, keyFiles, policyVars, serverVars
<1>2. /\ command'.name = "ensure" /\ command'.op = command.op
      /\ command'.at = IF command.at = "inputs" THEN "request" ELSE "pend"
      /\ command'.policy = IF stale THEN policy + 1 ELSE policy
      /\ command'.migrates = stale
  BY DEF EnsureProbe, EnsureInputs, LoadInputs, At, Commands
<1>3. OpsApart' /\ RotationsOfPolicy' /\ UpdateOfPolicy'
  BY <1>1 DEF OpsApart, RotationsOfPolicy, UpdateOfPolicy
<1>4. MigrationLocked' /\ RotateHolds'
  BY <1>1, <1>2 DEF MigrationLocked, RotateHolds, At
<1>5. EnsureHolds'
  BY <1>1, <1>2 DEF EnsureHolds, Loaded, Resumed
<1>6. Migrating' /\ MigrationCanFinish'
  BY <1>1, <1>2 DEF Migrating, MigrationCanFinish
<1>7. QED
  BY <1>1, <1>3, <1>4, <1>5, <1>6 DEF PolicyParts

\* The request, the credential, the migrated policy, and the end.
LEMMA EnsureCommits ==
    ASSUME MInv, EnsureRequest \/ EnsureCredential \/ EnsurePolicy \/ EnsureClear \/ EnsureAlready
    PROVE  PolicyParts'
<1> USE ValuesTyped DEF MInv, PolicyParts
<1>0. IInv
  BY DEF RInv
<1>1. CASE EnsureRequest
  <2> DEFINE r == [endpoint |-> "ensure", op |-> command.op, key |-> key, policy |-> command.policy]
  <2>1. /\ UNCHANGED <<key, credential, pending, policy, stale, update, enrolled, rotated, ops>>
        /\ command.name = "ensure" /\ command.at = "request"
        /\ net' = net \cup {r}
        /\ command' = [command EXCEPT !.at = "answer"]
    BY <1>1 DEF EnsureRequest, At, Continue, keyFiles, policyVars, serverVars
  <2>2. /\ pending # NoPending /\ pending.op = command.op /\ command.policy # 0
        /\ pending.key = key
    BY <2>1 DEF EnsureHolds, Loaded, Resumed
  <2>3. r.endpoint = "ensure" /\ r.op = pending.op /\ r.policy = command.policy
    BY <2>2
  <2> HIDE DEF r
  <2>4. OpsApart' /\ RotationsOfPolicy' /\ UpdateOfPolicy'
    BY <2>1, <2>3 DEF OpsApart, RotationsOfPolicy, UpdateOfPolicy
  <2>5. /\ command'.name = "ensure" /\ command'.at = "answer"
        /\ UNCHANGED <<command.op, command.policy, command.migrates>>
    BY <2>1 DEF Commands
  <2>6. MigrationLocked' /\ EnsureHolds' /\ RotateHolds'
    BY <2>1, <2>2, <2>5 DEF MigrationLocked, EnsureHolds, RotateHolds, At, Loaded, Resumed
  <2>7. credential.policy > policy => command.policy = policy + 1
    BY <2>1, <2>2 DEF Migrating, MigrationLocked
  <2>8. Migrating' /\ MigrationCanFinish'
    BY <2>1, <2>3, <2>5, <2>7 DEF Migrating, MigrationCanFinish
  <2>9. QED
    BY <2>1, <2>4, <2>6, <2>8 DEF PolicyParts
<1>2. CASE EnsureCredential
  <2>1. /\ UNCHANGED <<key, pending, policy, stale, update, net, enrolled, rotated, ops>>
        /\ command.name = "ensure" /\ command.at = "answer"
        /\ credential' = enrolled[command.op]
        /\ enrolled[command.op] # NoCredential /\ enrolled[command.op].policy = command.policy
        /\ command' = [command EXCEPT !.at = IF command.migrates THEN "policy" ELSE "clear"]
    BY <1>2 DEF EnsureCredential, SaveCredential, Exact, At, Continue, keyFiles, policyVars, serverVars
  <2>2. /\ pending # NoPending /\ pending.op = command.op /\ pending.key = key
        /\ command.policy # 0 /\ command.op \in Op
    BY <1>0, <2>1, AnswerTyped DEF EnsureHolds, Loaded, Resumed, IInv, EnsureSteps, TypeOK, Commands
  <2>3. /\ command'.name = "ensure"
        /\ command'.at = IF command.migrates THEN "policy" ELSE "clear"
        /\ UNCHANGED <<command.op, command.policy, command.migrates>>
    BY <2>1 DEF Commands
  <2>4. /\ credential'.policy = command.policy
        /\ IF command.migrates THEN stale /\ command.policy = policy + 1
           ELSE command.policy <= policy
    BY <2>1 DEF MigrationLocked, EnsureHolds
  <2>5. OpsApart' /\ RotationsOfPolicy' /\ UpdateOfPolicy'
    BY <2>1 DEF OpsApart, RotationsOfPolicy, UpdateOfPolicy
  <2>6. MigrationLocked' /\ EnsureHolds' /\ RotateHolds'
    BY <2>1, <2>2, <2>3, <2>4 DEF MigrationLocked, EnsureHolds, RotateHolds, At, Loaded, Resumed
  <2>7. Migrating'
    BY <2>1, <2>2, <2>3, <2>4 DEF Migrating
  <2>8. MigrationCanFinish'
    <3>1. enrolled[command.op].revision \in Nat
      BY <2>2 DEF Credential
    <3>2. QED
      BY <2>1, <2>2, <2>3, <2>4, <3>1 DEF MigrationCanFinish
  <2>9. QED
    BY <2>1, <2>5, <2>6, <2>7, <2>8 DEF PolicyParts
<1>3. CASE EnsurePolicy
  <2>1. /\ UNCHANGED <<key, credential, pending, update, net, enrolled, rotated, ops>>
        /\ command.name = "ensure" /\ command.at = "policy"
        /\ policy' = command.policy
        /\ command' = [command EXCEPT !.at = "clear"]
    BY <1>3 DEF EnsurePolicy, At, Continue, keyFiles, serverVars
  <2>2. /\ command.migrates /\ update = NoUpdate /\ command.policy = policy + 1
        /\ pending # NoPending /\ pending.op = command.op /\ pending.key = key
    BY <2>1 DEF MigrationLocked, EnsureHolds, Loaded, Resumed
  <2>3. /\ command'.name = "ensure" /\ command'.at = "clear"
        /\ UNCHANGED <<command.op, command.policy, command.migrates>>
    BY <2>1 DEF Commands
  <2>4. policy' = policy + 1 /\ credential.policy <= policy + 1
    BY <2>1, <2>2 DEF Migrating
  <2>5. OpsApart' /\ UpdateOfPolicy'
    BY <2>1, <2>2 DEF OpsApart, UpdateOfPolicy, NoUpdate
  <2>6. RotationsOfPolicy'
    BY <2>1, <2>4 DEF RotationsOfPolicy
  <2>7. MigrationLocked' /\ EnsureHolds' /\ RotateHolds'
    BY <2>1, <2>2, <2>3, <2>4 DEF MigrationLocked, EnsureHolds, RotateHolds, At, Loaded, Resumed
  <2>8. Migrating' /\ MigrationCanFinish'
    BY <2>1, <2>4 DEF Migrating, MigrationCanFinish
  <2>9. QED
    BY <2>1, <2>4, <2>5, <2>6, <2>7, <2>8 DEF PolicyParts
<1>4. CASE EnsureClear \/ EnsureAlready
  <2>1. /\ UNCHANGED <<key, credential, policy, stale, update, net, enrolled, rotated, ops>>
        /\ pending' = NoPending /\ command' = NoCommand
    BY <1>4 DEF EnsureClear, EnsureAlready, keyFiles, policyVars, serverVars
  <2>2. credential.policy <= policy
    BY <1>4 DEF EnsureClear, EnsureAlready, At, EnsureHolds, MigrationCanFinish
  <2>3. OpsApart' /\ RotationsOfPolicy' /\ UpdateOfPolicy'
    BY <2>1 DEF OpsApart, RotationsOfPolicy, UpdateOfPolicy, NoPending
  <2>4. MigrationLocked' /\ EnsureHolds' /\ RotateHolds' /\ Migrating' /\ MigrationCanFinish'
    BY <2>1, <2>2 DEF MigrationLocked, EnsureHolds, RotateHolds, At, NoCommand, Migrating,
       MigrationCanFinish
  <2>5. QED
    BY <2>1, <2>3, <2>4 DEF PolicyParts
<1>5. QED
  BY <1>1, <1>2, <1>3, <1>4

\* device-rotate asks and commits under a policy that is not being migrated.
LEMMA RotateMigrates == MInv /\ RotateStep => PolicyParts'
<1> SUFFICES ASSUME MInv, RotateStep PROVE PolicyParts'
  OBVIOUS
<1> USE ValuesTyped DEF MInv, PolicyParts
<1>0. IInv
  BY DEF RInv
<1>1. UNCHANGED <<pending, policy, stale, update, enrolled, rotated>>
  BY DEF RotateStep, RotateFinish, RotateStart, RotatePrepare, RotateResume, RotateRecord,
     RotateRequest, RotateKey, RotateCredential, RotateRemoveKey, RotateClear, keyFiles,
     policyVars, serverVars
<1>2. ops' \in Nat /\ ops' >= ops
  BY DEF RotateStep, RotateFinish, RotateStart, RotatePrepare, RotateResume, RotateRecord,
     RotateRequest, RotateKey, RotateCredential, RotateRemoveKey, RotateClear, FreshOp
<1>3. OpsApart'
  BY <1>1, <1>2 DEF OpsApart
<1>4. /\ command'.name \in {"none", "rotate"}
      /\ ~command'.migrates
      /\ At("rotate", "answer")' => RotateRequest
  <2>1. command.name = "rotate" => ~command.migrates
    BY DEF MigrationLocked
  <2>2. CASE RotateFinish \/ RotateClear
    BY <2>2 DEF RotateFinish, RotateClear, NoCommand, At
  <2>3. CASE RotateStart
    BY <2>3 DEF RotateStart, NoCommand, At
  <2>4. CASE RotatePrepare \/ RotateKey \/ RotateCredential \/ RotateRemoveKey
    BY <2>1, <2>4 DEF RotatePrepare, RotateKey, RotateCredential, RotateRemoveKey, Continue, At, Commands
  <2>5. CASE RotateResume \/ RotateRecord \/ RotateRequest
    BY <2>1, <2>5 DEF RotateResume, RotateRecord, RotateRequest, At, Commands
  <2>6. QED
    BY <2>2, <2>3, <2>4, <2>5 DEF RotateStep
<1>5. MigrationLocked' /\ EnsureHolds'
  BY <1>4 DEF MigrationLocked, EnsureHolds
<1>6. CASE RotateRequest
  <2> DEFINE r == [endpoint |-> "rotate", op |-> command.op, key |-> nextKey, policy |-> policy]
  <2>1. net' = net \cup {r} /\ credential' = credential /\ key' = key /\ ~stale
    BY <1>6 DEF RotateRequest, keyFiles
  <2>2. r.endpoint = "rotate" /\ r.policy = policy
    OBVIOUS
  <2> HIDE DEF r
  <2>3. credential.policy <= policy
    BY <2>1 DEF MigrationCanFinish
  <2>4. RotationsOfPolicy' /\ UpdateOfPolicy'
    BY <1>1, <2>1, <2>2 DEF RotationsOfPolicy, UpdateOfPolicy
  <2>5. RotateHolds' /\ Migrating' /\ MigrationCanFinish'
    BY <1>1, <2>1, <2>3 DEF RotateHolds, Migrating, MigrationCanFinish
  <2>6. QED
    BY <1>1, <1>3, <1>5, <2>4, <2>5 DEF PolicyParts
<1>7. CASE ~RotateRequest
  <2>1. net' = net
    BY <1>7 DEF RotateStep, RotateFinish, RotateStart, RotatePrepare, RotateResume, RotateRecord,
       RotateKey, RotateCredential, RotateRemoveKey, RotateClear
  <2>2. RotationsOfPolicy' /\ UpdateOfPolicy' /\ RotateHolds'
    BY <1>1, <1>4, <1>7, <2>1 DEF RotationsOfPolicy, UpdateOfPolicy, RotateHolds
  <2>3. /\ key' = key \/ credential.policy <= policy
        /\ credential' = credential \/ credential'.policy <= policy
    <3>1. CASE RotateKey
      BY <3>1 DEF RotateKey, RotateHolds, At
    <3>2. CASE RotateCredential
      <4>1. command.op \in Op
        BY <1>0, <3>2, AnswerTyped DEF RotateCredential, At, IInv, TypeOK, RotateSteps,
           RotationUnderWay, Commands
      <4>2. credential' = rotated[command.op] /\ key' = key
        BY <3>2 DEF RotateCredential, SaveCredential, keyFiles
      <4>3. QED
        BY <4>1, <4>2 DEF RotationsOfPolicy
    <3>3. CASE ~RotateKey /\ ~RotateCredential
      BY <1>7, <3>3 DEF RotateStep, RotateFinish, RotateStart, RotatePrepare, RotateResume,
         RotateRecord, RotateRemoveKey, RotateClear, keyFiles
    <3>4. QED
      BY <3>1, <3>2, <3>3
  <2>4. credential'.policy \in Nat
    BY <1>0, RotateTypes DEF TypeOK, Credential
  <2>5. Migrating' /\ MigrationCanFinish'
    BY <1>1, <1>4, <2>1, <2>3, <2>4 DEF Migrating, MigrationCanFinish
  <2>6. QED
    BY <1>1, <1>3, <1>5, <2>2, <2>5 DEF PolicyParts
<1>8. QED
  BY <1>6, <1>7

\* Updates commit the policy their answer was for, and save the credential after it.
LEMMA UpdateMigrates == MInv /\ UpdateStep => PolicyParts'
<1> SUFFICES ASSUME MInv, UpdateStep PROVE PolicyParts'
  OBVIOUS
<1> USE ValuesTyped DEF MInv, PolicyParts
<1>0. IInv
  BY DEF RInv
<1>1. UNCHANGED <<key, pending, enrolled, rotated, command>>
  BY DEF UpdateStep, UpdateStart, UpdateAnswer, UpdatePolicy, UpdateCredential, keyFiles, serverVars
<1>2. CASE UpdateStart
  <2> DEFINE r == [endpoint |-> "ensure", op |-> FreshOp, key |-> key, policy |-> policy + 1]
  <2>1. UNCHANGED <<credential, policy, stale>> /\ ~command.migrates
    BY <1>2 DEF UpdateStart, policyVars
  <2>2. \/ /\ net' = net /\ ops' = ops
           /\ update'.at = "policy" /\ update'.op = 0 /\ update'.policy = policy + 1
        \/ /\ net' = net \cup {r} /\ ops' = FreshOp /\ ops < MaxOp
           /\ update'.at = "answer" /\ update'.op = FreshOp /\ update'.policy = policy + 1
    <3>1. CASE credential = NoCredential
      BY <1>2, <3>1 DEF UpdateStart, NoUpdate
    <3>2. CASE credential # NoCredential
      BY <1>2, <3>2 DEF UpdateStart
    <3>3. QED
      BY <3>1, <3>2
  <2>3. r.endpoint = "ensure" /\ r.op = FreshOp /\ r.policy = policy + 1
    OBVIOUS
  <2>4. FreshOp \in Nat /\ ops < FreshOp /\ (ops < MaxOp => FreshOp \in Op)
    BY <1>0, FreshOpTyped DEF IInv, TypeOK, FreshOp
  <2> HIDE DEF r
  <2>5. pending.op <= ops /\ pending.op # FreshOp
    BY <1>0, <2>4 DEF IInv, PendingOps
  <2>6. OpsApart'
    BY <1>1, <2>2, <2>4, <2>5 DEF OpsApart
  <2>7. RotationsOfPolicy'
    BY <1>1, <2>1, <2>2, <2>3 DEF RotationsOfPolicy
  <2>8. UpdateOfPolicy'
    <3>1. \A q \in net : q.op # FreshOp
      BY <2>4
    <3>2. ops < MaxOp => enrolled[FreshOp] = NoCredential
      BY <2>4 DEF OpsApart
    <3>3. QED
      BY <1>1, <2>1, <2>2, <2>3, <3>1, <3>2 DEF UpdateOfPolicy
  <2>9. MigrationLocked' /\ EnsureHolds' /\ RotateHolds'
    BY <1>1, <2>1 DEF MigrationLocked, EnsureHolds, RotateHolds, At
  <2>10. Migrating' /\ MigrationCanFinish'
    BY <1>1, <2>1, <2>2, <2>3, <2>5 DEF Migrating, MigrationCanFinish
  <2>11. QED
    BY <1>1, <2>1, <2>6, <2>7, <2>8, <2>9, <2>10 DEF PolicyParts
<1>3. CASE UpdateAnswer
  <2>1. /\ UNCHANGED <<credential, policy, stale, net, ops>>
        /\ update.at = "answer" /\ update'.at = "policy"
        /\ UNCHANGED <<update.op, update.policy>> /\ update # NoUpdate
    BY <1>3 DEF UpdateAnswer, Updates, NoUpdate, policyVars
  <2>2. OpsApart' /\ RotationsOfPolicy' /\ UpdateOfPolicy'
    BY <1>1, <2>1 DEF OpsApart, RotationsOfPolicy, UpdateOfPolicy
  <2>3. MigrationLocked' /\ EnsureHolds' /\ RotateHolds' /\ Migrating' /\ MigrationCanFinish'
    BY <1>1, <2>1 DEF MigrationLocked, EnsureHolds, RotateHolds, At, Migrating, MigrationCanFinish
  <2>4. QED
    BY <1>1, <2>1, <2>2, <2>3 DEF PolicyParts
<1>4. CASE UpdatePolicy
  <2>1. /\ UNCHANGED <<credential, net, ops>>
        /\ update.at = "policy" /\ policy' = update.policy
        /\ update' = IF update.op = 0 THEN NoUpdate ELSE [update EXCEPT !.at = "credential"]
    BY <1>4 DEF UpdatePolicy
  <2>2. policy' = policy + 1 /\ update # NoUpdate
    BY <2>1 DEF UpdateOfPolicy, NoUpdate
  <2>3. ~command.migrates /\ credential.policy <= policy'
    BY <2>2 DEF MigrationLocked, Migrating
  <2>4. /\ update'.at \in {"idle", "credential"} /\ update'.op = update.op
        /\ update'.at = "credential" => update'.policy = update.policy
        /\ update'.op # 0 => update'.policy = update.policy
    <3>1. CASE update.op = 0
      BY <2>1, <3>1 DEF NoUpdate
    <3>2. CASE update.op # 0
      BY <2>1, <3>2 DEF Updates
    <3>3. QED
      BY <3>1, <3>2
  <2>5. OpsApart' /\ RotationsOfPolicy' /\ UpdateOfPolicy'
    BY <1>1, <2>1, <2>2, <2>4 DEF OpsApart, RotationsOfPolicy, UpdateOfPolicy
  <2>6. MigrationLocked' /\ EnsureHolds' /\ RotateHolds'
    BY <1>1, <2>1, <2>2, <2>3 DEF MigrationLocked, EnsureHolds, RotateHolds, At
  <2>7. Migrating' /\ MigrationCanFinish'
    BY <2>1, <2>2, <2>3 DEF Migrating, MigrationCanFinish
  <2>8. QED
    BY <1>1, <2>2, <2>5, <2>6, <2>7 DEF PolicyParts
<1>5. CASE UpdateCredential
  <2>1. /\ UNCHANGED <<policy, stale, net, ops>>
        /\ update.at = "credential" /\ update' = NoUpdate
        /\ credential' = enrolled[update.op]
    BY <1>5 DEF UpdateCredential, SaveCredential, policyVars
  <2>2. update.op \in Op
    BY <1>0, <2>1, AnswerTyped DEF IInv, TypeOK, Updates, UpdateSteps
  <2>3. credential'.policy \in Nat /\ credential'.policy <= policy
    BY <2>1, <2>2 DEF UpdateOfPolicy, NoCredential
  <2>4. OpsApart' /\ RotationsOfPolicy' /\ UpdateOfPolicy'
    BY <1>1, <2>1 DEF OpsApart, RotationsOfPolicy, UpdateOfPolicy, NoUpdate
  <2>5. MigrationLocked' /\ EnsureHolds' /\ RotateHolds'
    BY <1>1, <2>1, <2>3 DEF MigrationLocked, EnsureHolds, RotateHolds, At
  <2>6. Migrating' /\ MigrationCanFinish'
    BY <2>1, <2>3 DEF Migrating, MigrationCanFinish
  <2>7. QED
    BY <1>1, <2>1, <2>4, <2>5, <2>6 DEF PolicyParts
<1>6. QED
  BY <1>2, <1>3, <1>4, <1>5 DEF UpdateStep

\* An answer to the pending registration of a migration is for its policy, and newer
\* than every credential.
LEMMA ServeMigrates ==
    ASSUME MInv, NEW r \in net, Serve(r)
    PROVE  PolicyParts'
<1> DEFINE issued == [revision |-> server.revision + 1, key |-> r.key, policy |-> r.policy]
<1> USE ValuesTyped DEF MInv, PolicyParts
<1>1. UNCHANGED <<key, credential, pending, policy, stale, command, update, ops>> /\ net' \subseteq net
  BY DEF Serve, keyFiles, policyVars
<1>2. MigrationLocked' /\ EnsureHolds' /\ RotateHolds'
  BY <1>1 DEF MigrationLocked, EnsureHolds, RotateHolds, At
<1>3. issued.policy = r.policy /\ issued.revision = server.revision + 1
  OBVIOUS
<1> HIDE DEF issued
<1>4. CASE ~Accepts(r)
  <2>1. UNCHANGED <<enrolled, rotated>>
    BY <1>4 DEF Serve, serverVars
  <2>2. OpsApart' /\ RotationsOfPolicy' /\ UpdateOfPolicy'
    BY <1>1, <2>1 DEF OpsApart, RotationsOfPolicy, UpdateOfPolicy
  <2>3. Migrating' /\ MigrationCanFinish'
    BY <1>1, <2>1 DEF Migrating, MigrationCanFinish
  <2>4. QED
    BY <1>1, <1>2, <2>2, <2>3 DEF PolicyParts
<1>5. CASE Accepts(r) /\ r.endpoint = "ensure"
  <2>1. /\ rotated' = rotated /\ enrolled[r.op] = NoCredential
        /\ enrolled' = [enrolled EXCEPT ![r.op] = issued]
    BY <1>5 DEF Serve, Accepts, issued
  <2>2. enrolled'[r.op] = issued /\ \A op \in Op : op # r.op => enrolled'[op] = enrolled[op]
    BY <2>1 DEF RInv, IInv, TypeOK
  <2>3. OpsApart' /\ RotationsOfPolicy'
    BY <1>1, <2>1, <2>2 DEF OpsApart, RotationsOfPolicy
  <2>4. UpdateOfPolicy'
    <3>1. update.op # 0 => update.op \in Op
      BY AnswerTyped DEF RInv, IInv, TypeOK, Updates
    <3>2. QED
      BY <1>1, <1>3, <1>5, <2>2, <3>1 DEF UpdateOfPolicy
  <2>5. credential.policy > policy => credential.revision <= server.revision
    <3>1. credential.policy > policy => credential \in Issued
      BY DEF RInv, CredentialIssued, NoCredential
    <3>2. QED
      BY <3>1 DEF RInv, AnswersOrdered
  <2>6. Migrating' /\ MigrationCanFinish'
    <3>1. pending # NoPending => pending.op \in Op
      BY AnswerTyped DEF RInv, IInv, TypeOK, Pendings, PendingOps
    <3>2. CASE r.op = pending.op
      <4>1. credential.policy > policy => issued.policy = policy + 1
        BY <1>3, <1>5, <2>1, <3>2 DEF Migrating
      <4>2. credential.revision \in Nat /\ server.revision \in Nat
        BY DEF RInv, IInv, TypeOK, Credential
      <4>3. issued.revision \in Nat /\ issued # NoCredential
        BY <1>3, <4>2 DEF NoCredential
      <4>4. QED
        BY <1>1, <1>3, <2>2, <2>5, <3>2, <4>1, <4>2, <4>3 DEF Migrating, MigrationCanFinish
    <3>3. CASE r.op # pending.op
      BY <1>1, <2>2, <3>1, <3>3 DEF Migrating, MigrationCanFinish
    <3>4. QED
      BY <3>2, <3>3
  <2>7. QED
    BY <1>1, <1>2, <2>3, <2>4, <2>6 DEF PolicyParts
<1>6. CASE Accepts(r) /\ r.endpoint # "ensure"
  <2>1. /\ enrolled' = enrolled /\ rotated' = [rotated EXCEPT ![r.op] = issued]
        /\ r.endpoint = "rotate"
    BY <1>6 DEF Serve, issued, RInv, IInv, TypeOK, Requests
  <2>2. \A op \in Op : rotated'[op] = IF op = r.op THEN issued ELSE rotated[op]
    BY <2>1 DEF RInv, IInv, TypeOK
  <2>3. RotationsOfPolicy'
    BY <1>1, <1>3, <2>1, <2>2 DEF RotationsOfPolicy
  <2>4. OpsApart' /\ UpdateOfPolicy' /\ Migrating' /\ MigrationCanFinish'
    BY <1>1, <2>1 DEF OpsApart, UpdateOfPolicy, Migrating, MigrationCanFinish
  <2>5. QED
    BY <1>1, <1>2, <2>3, <2>4 DEF PolicyParts
<1>7. QED
  BY <1>4, <1>5, <1>6

\* Commands that end, retire-local and new releases leave a migration resumable.
LEMMA RestMigrates ==
    ASSUME MInv, CommandEnds \/ UpdateEnds \/ RetireLocal \/ Upgrade \/ UNCHANGED vars
    PROVE  PolicyParts'
<1> USE ValuesTyped DEF MInv, PolicyParts
<1>1. /\ UNCHANGED <<key, pending, policy, net, enrolled, rotated, ops>>
      /\ credential' \in {credential, NoCredential} /\ (stale => stale')
      /\ command' \in {command, NoCommand} /\ update' \in {update, NoUpdate}
  BY DEF CommandEnds, UpdateEnds, RetireLocal, Upgrade, vars, keyFiles, policyVars, serverVars
<1>2. /\ ~NoCommand.migrates /\ NoCommand.name = "none"
      /\ NoUpdate.at = "idle" /\ NoUpdate.op = 0 /\ NoCredential.policy = 0
  BY DEF NoCommand, NoUpdate, NoCredential
<1>3. OpsApart' /\ RotationsOfPolicy' /\ UpdateOfPolicy'
  BY <1>1, <1>2 DEF OpsApart, RotationsOfPolicy, UpdateOfPolicy
<1>4. MigrationLocked' /\ EnsureHolds' /\ RotateHolds'
  BY <1>1, <1>2 DEF MigrationLocked, EnsureHolds, RotateHolds, At
<1>5. Migrating' /\ MigrationCanFinish'
  BY <1>1, <1>2 DEF Migrating, MigrationCanFinish
<1>6. QED
  BY <1>1, <1>3, <1>4, <1>5 DEF PolicyParts

\* There is no policy but the first one at first.
LEMMA InitMigrates == Init => MInv
<1> SUFFICES ASSUME Init PROVE MInv
  OBVIOUS
<1>1. RInv
  BY InitOrders
<1>2. OpsApart /\ RotationsOfPolicy /\ UpdateOfPolicy
  BY IdentityAssumption DEF Init, OpsApart, RotationsOfPolicy, UpdateOfPolicy, NoUpdate, NoCredential
<1>3. MigrationLocked /\ EnsureHolds /\ RotateHolds
  BY DEF Init, MigrationLocked, EnsureHolds, RotateHolds, At, NoCommand
<1>4. Migrating /\ MigrationCanFinish
  BY DEF Init, Migrating, MigrationCanFinish, NoCredential
<1>5. QED
  BY <1>1, <1>2, <1>3, <1>4 DEF Init, MInv, PolicyParts

\* Every step keeps it.
LEMMA NextMigrates == MInv /\ [Next]_vars => MInv'
<1> SUFFICES ASSUME MInv, [Next]_vars PROVE MInv'
  OBVIOUS
<1>1. RInv'
  BY NextOrders DEF MInv
<1>2. PolicyParts'
  BY EnsurePrepares, EnsureLoads, EnsureCommits, RotateMigrates, UpdateMigrates, ServeMigrates,
     RestMigrates DEF Next, EnsureStep
<1>3. QED
  BY <1>1, <1>2 DEF MInv

\* What every command knows of the policy is true, whatever is killed meanwhile.
THEOREM PolicyInductive == Spec => []MInv
BY InitMigrates, NextMigrates, PTL DEF Spec

\* When ensure dies between saving the credential of a migrated policy and committing
\* that policy, the pending registration leads a rerun to the same answer: it is
\* cleared last, and the policy lock keeps updates out (ensure_registered).
THEOREM MigrationResumable == Spec => []MigrationCanFinish
<1>1. MInv => MigrationCanFinish
  BY DEF MInv, PolicyParts
<1>2. QED
  BY <1>1, PolicyInductive, PTL

=============================================================================
