--------------------------- MODULE DeviceIdentity ---------------------------
(***************************************************************************)
(* How a device gets its keys and its credential, and how it changes them   *)
(* (registration.rs, policy_commands.rs, credential_store.rs).  `ensure`    *)
(* enrols the device or renews its credential, `device-rotate` replaces its *)
(* keys, `learning set` and `allowlist set --token` register it again under *)
(* a new policy.  Each writes several owner-only files around one request   *)
(* to the Server, and may be killed between any two of them; a request goes *)
(* on without the process that sent it and an answer may never arrive.      *)
(*                                                                          *)
(* ensure and device-rotate exclude each other by the registration lock,    *)
(* policy updates exclude each other by the policy lock, and nothing orders *)
(* the one kind against the other.  One device ID at one Server: profiles,  *)
(* certificates and signatures are taken to agree.  The active-binding       *)
(* hand-off is BindingLifecycle's: rotation and policy updates also remove   *)
(* it, and its presence may make device-rotate refuse, which any command     *)
(* may do at any step.                                                       *)
(***************************************************************************)
EXTENDS Naturals

CONSTANTS MaxKey,       \* bound: keys the device generates
          MaxOp,        \* bound: idempotency keys its commands generate
          MaxPolicy     \* bound: revisions of the local policy

ASSUME IdentityAssumption == MaxKey \in Nat /\ MaxOp \in Nat /\ MaxPolicy \in Nat

\* A key pair: its generation, and which of the generated ones it is.
Key == [generation : Nat, serial : Nat]
NoKey == [generation |-> 0, serial |-> 0]

\* A credential, and the Server's answer that issues it: its revision, and the
\* key and the policy it was registered with.
Credential == [revision : Nat, key : Key, policy : Nat]
NoCredential == [revision |-> 0, key |-> NoKey, policy |-> 0]

Op == 1..MaxOp
Step == {"idle", "generate", "renew", "origin", "check", "pend", "inputs", "request",
         "answer", "credential", "policy", "clear", "prepare", "record", "remove"}
\* A pending registration is ordinary when its enrollment mode is "ensure", the
\* one --re-enroll replaces; "initial" and "re_enroll" make no difference here.
NoPending == [op |-> 0, key |-> NoKey, ordinary |-> FALSE]
NoRotation == [op |-> 0, from |-> NoKey, to |-> NoKey, previous |-> 0]

VARIABLES
    key, nextKey,   \* the device key file and the pending key file
    origin,         \* whether the identity metadata file exists
    credential,     \* the credential file
    pending,        \* the pending registration
    rotation,       \* the pending rotation
    policy,         \* revision of the local policy
    stale,          \* its learning bundle is one of an earlier release
    command,        \* the process that holds the registration lock
    update,         \* the policy update that holds the policy lock
    net,            \* requests on their way
    server,         \* the key the Server has for the device, and the revision
    enrolled,       \* what the Server answered to each ensure operation
    rotated,        \* ... and to each rotate operation
    made, ops,      \* how many keys and idempotency keys have been generated
    newest          \* history: the newest revision of a credential saved so far

keyFiles == <<key, nextKey, origin>>
policyVars == <<policy, stale>>
serverVars == <<server, enrolled, rotated>>
vars == <<keyFiles, credential, pending, rotation, policyVars, command,
          update, net, serverVars, made, ops, newest>>

NoCommand == [name |-> "none", at |-> "idle", ordinary |-> FALSE, again |-> FALSE,
              resumed |-> FALSE, previous |-> 0, op |-> 0, policy |-> 0,
              migrates |-> FALSE]
NoUpdate == [at |-> "idle", learning |-> FALSE, previous |-> 0, op |-> 0, policy |-> 0]

At(name, step) == command.name = name /\ command.at = step
Continue(step) == command' = [command EXCEPT !.at = step]
FreshOp == ops + 1

Init ==
    /\ key = NoKey /\ nextKey = NoKey /\ origin = FALSE
    /\ credential = NoCredential /\ pending = NoPending /\ rotation = NoRotation
    /\ policy = 1 /\ stale = FALSE
    /\ command = NoCommand /\ update = NoUpdate
    /\ net = {}
    /\ server = [key |-> NoKey, revision |-> 0]
    /\ enrolled = [op \in Op |-> NoCredential]
    /\ rotated = [op \in Op |-> NoCredential]
    /\ made = 0 /\ ops = 0
    /\ newest = 0

-----------------------------------------------------------------------------
(* ensure.                                                                  *)

\* A pending registration must be of the installed key, and an expired one
\* needs --re-enroll.  Without one, a credential or the metadata must vouch for
\* the key, and without those there must be no key yet.
EnsureStart ==
    /\ command = NoCommand
    /\ \E reEnroll, force, expired \in BOOLEAN :
        LET resumed == pending # NoPending
            renews == resumed /\ reEnroll /\ (expired \/ pending.ordinary)
            known == credential # NoCredential \/ origin
        IN
        /\ resumed => pending.key = key /\ (expired => reEnroll)
        /\ ~resumed => ~expired /\ (known <=> key # NoKey)
        /\ command' = [NoCommand EXCEPT
              !.name = "ensure",
              !.at = IF key = NoKey THEN "generate" ELSE IF renews THEN "renew" ELSE "origin",
              !.ordinary = ~resumed /\ ~reEnroll /\ known,
              !.again = reEnroll \/ (force /\ ~resumed),
              !.resumed = resumed,
              !.previous = credential.revision]
    /\ UNCHANGED <<keyFiles, credential, pending, rotation, policyVars,
                   update, net, serverVars, made, ops, newest>>

EnsureGenerate ==
    /\ At("ensure", "generate") /\ made < MaxKey
    /\ key' = [generation |-> 1, serial |-> made + 1]
    /\ made' = made + 1
    /\ Continue("origin")
    /\ UNCHANGED <<nextKey, origin, credential, pending, rotation, policyVars,
                   update, net, serverVars, ops, newest>>

\* Explicit recovery: the same identity under a new operation.
EnsureRenew ==
    /\ At("ensure", "renew") /\ ops < MaxOp
    /\ pending' = [pending EXCEPT !.op = FreshOp, !.ordinary = FALSE]
    /\ ops' = FreshOp
    /\ Continue("origin")
    /\ UNCHANGED <<keyFiles, credential, rotation, policyVars, update, net,
                   serverVars, made, newest>>

EnsureOrigin ==
    /\ At("ensure", "origin")
    /\ origin' = TRUE
    /\ Continue("check")
    /\ UNCHANGED <<key, nextKey, credential, pending, rotation, policyVars,
                   update, net, serverVars, made, ops, newest>>

\* A fresh credential under a current policy ends the command, unless another
\* one is asked for; whatever was pending is over.
EnsureAlready ==
    /\ At("ensure", "check") /\ command.previous # 0
    /\ ~stale /\ ~command.again
    /\ pending' = NoPending
    /\ command' = NoCommand
    /\ UNCHANGED <<keyFiles, credential, rotation, policyVars, update, net,
                   serverVars, made, ops, newest>>

\* local_registration_inputs: the policy to register.  A bundle of an earlier
\* release is migrated, under the policy lock for the rest of the command.
LoadInputs(next) ==
    /\ stale => update = NoUpdate /\ policy < MaxPolicy
    /\ command' = [command EXCEPT !.at = next, !.again = FALSE,
                                  !.policy = IF stale THEN policy + 1 ELSE policy,
                                  !.migrates = stale,
                                  !.resumed = IF stale THEN @ ELSE FALSE]
    /\ UNCHANGED <<keyFiles, credential, pending, rotation, policyVars,
                   update, net, serverVars, made, ops, newest>>

\* With a fresh credential the inputs come before the pending registration,
\* otherwise "recovery state" is saved "before any fallible probe".
EnsureProbe == At("ensure", "check") /\ command.previous # 0 /\ LoadInputs("pend")

EnsureExpired ==
    /\ At("ensure", "check")
    /\ command' = [command EXCEPT !.at = "pend", !.again = FALSE]
    /\ UNCHANGED <<keyFiles, credential, pending, rotation, policyVars,
                   update, net, serverVars, made, ops, newest>>

AfterPend == IF command.policy = 0 THEN "inputs" ELSE "request"

EnsureResume ==
    /\ At("ensure", "pend") /\ pending # NoPending
    /\ command' = [command EXCEPT !.at = AfterPend, !.op = pending.op]
    /\ UNCHANGED <<keyFiles, credential, pending, rotation, policyVars,
                   update, net, serverVars, made, ops, newest>>

EnsurePend ==
    /\ At("ensure", "pend") /\ pending = NoPending /\ ops < MaxOp
    /\ pending' = [op |-> FreshOp, key |-> key, ordinary |-> command.ordinary]
    /\ ops' = FreshOp
    /\ command' = [command EXCEPT !.at = AfterPend, !.op = FreshOp,
                                  !.ordinary = FALSE]
    /\ UNCHANGED <<keyFiles, credential, rotation, policyVars, update, net,
                   serverVars, made, newest>>

EnsureInputs == At("ensure", "inputs") /\ LoadInputs("request")

EnsureRequest ==
    /\ At("ensure", "request")
    /\ net' = net \cup {[endpoint |-> "ensure", op |-> command.op, key |-> key,
                         policy |-> command.policy]}
    /\ Continue("answer")
    /\ UNCHANGED <<keyFiles, credential, pending, rotation, policyVars,
                   update, serverVars, made, ops, newest>>

\* credential_from_registration_response_strict: exactly what was submitted.
Exact(answer, submittedKey, submittedPolicy) ==
    answer # NoCredential /\ answer.key = submittedKey /\ answer.policy = submittedPolicy

\* A migration that was interrupted may find its own credential on disk.
Advances(answer) ==
    IF command.resumed /\ command.migrates
    THEN answer.revision >= command.previous
    ELSE answer.revision > command.previous

SaveCredential(answer) ==
    /\ credential' = answer
    /\ newest' = IF answer.revision > newest THEN answer.revision ELSE newest

\* Slip: the pending registration is cleared with the credential.
EnsureCredentialClearing ==
    /\ At("ensure", "answer")
    /\ Exact(enrolled[command.op], key, command.policy)
    /\ Advances(enrolled[command.op])
    /\ SaveCredential(enrolled[command.op])
    /\ pending' = NoPending
    /\ Continue(IF command.migrates THEN "policy" ELSE "clear")
    /\ UNCHANGED <<keyFiles, rotation, policyVars, update, net, serverVars, made, ops>>

EnsureCredential ==
    /\ At("ensure", "answer")
    /\ Exact(enrolled[command.op], key, command.policy)
    /\ Advances(enrolled[command.op])
    /\ SaveCredential(enrolled[command.op])
    /\ Continue(IF command.migrates THEN "policy" ELSE "clear")
    /\ UNCHANGED <<keyFiles, pending, rotation, policyVars, update, net,
                   serverVars, made, ops>>

EnsurePolicy ==
    /\ At("ensure", "policy")
    /\ policy' = command.policy /\ stale' = FALSE
    /\ Continue("clear")
    /\ UNCHANGED <<keyFiles, credential, pending, rotation, update, net,
                   serverVars, made, ops, newest>>

EnsureClear ==
    /\ At("ensure", "clear")
    /\ pending' = NoPending
    /\ command' = NoCommand
    /\ UNCHANGED <<keyFiles, credential, rotation, policyVars, update, net,
                   serverVars, made, ops, newest>>

EnsureStep ==
    \/ EnsureStart \/ EnsureGenerate \/ EnsureRenew \/ EnsureOrigin \/ EnsureAlready
    \/ EnsureProbe \/ EnsureExpired \/ EnsureResume \/ EnsurePend \/ EnsureInputs
    \/ EnsureRequest \/ EnsureCredential \/ EnsurePolicy \/ EnsureClear

-----------------------------------------------------------------------------
(* device-rotate.                                                           *)

\* Slip: the pending key file is not looked at.
CommittedKey ==
    rotation # NoRotation /\ rotation.to = key /\ credential.revision > rotation.previous

\* finish_interrupted_identity_rotation: everything was committed except the
\* removal of the rotation record.
Committed ==
    /\ rotation # NoRotation /\ nextKey = NoKey
    /\ rotation.to = key
    /\ credential.revision > rotation.previous

RotateFinish ==
    /\ command = NoCommand /\ credential # NoCredential
    /\ Committed /\ origin
    /\ rotation' = NoRotation
    /\ UNCHANGED <<keyFiles, credential, pending, policyVars, command, update,
                   net, serverVars, made, ops, newest>>

\* Slip: an interrupted rotation begins again with a new key.
RotateStartAnew ==
    /\ command = NoCommand /\ credential # NoCredential /\ key # NoKey
    /\ ~Committed
    /\ command' = [NoCommand EXCEPT !.name = "rotate", !.at = "prepare",
                                    !.previous = credential.revision]
    /\ UNCHANGED <<keyFiles, credential, pending, rotation, policyVars,
                   update, net, serverVars, made, ops, newest>>

\* A rotation record without its prepared key cannot be recovered, and a new
\* rotation needs the active binding stopped.
RotateStart ==
    /\ command = NoCommand /\ credential # NoCredential /\ key # NoKey
    /\ ~Committed
    /\ nextKey = NoKey => rotation = NoRotation
    /\ command' = [NoCommand EXCEPT
          !.name = "rotate",
          !.at = IF nextKey = NoKey THEN "prepare" ELSE "record",
          !.previous = credential.revision]
    /\ UNCHANGED <<keyFiles, credential, pending, rotation, policyVars,
                   update, net, serverVars, made, ops, newest>>

RotatePrepare ==
    /\ At("rotate", "prepare") /\ made < MaxKey
    /\ nextKey' = [generation |-> key.generation + 1, serial |-> made + 1]
    /\ made' = made + 1
    /\ Continue("record")
    /\ UNCHANGED <<key, origin, credential, pending, rotation, policyVars,
                   update, net, serverVars, ops, newest>>

\* load_or_create_pending_rotation: the operation key outlives the request.
RotateResume ==
    /\ At("rotate", "record") /\ rotation # NoRotation
    /\ rotation.to = nextKey /\ key \in {rotation.from, rotation.to}
    /\ command.previous >= rotation.previous
    /\ command' = [command EXCEPT !.at = "request", !.op = rotation.op]
    /\ UNCHANGED <<keyFiles, credential, pending, rotation, policyVars,
                   update, net, serverVars, made, ops, newest>>

RotateRecord ==
    /\ At("rotate", "record") /\ rotation = NoRotation /\ ops < MaxOp
    /\ nextKey.generation = key.generation + 1
    /\ rotation' = [op |-> FreshOp, from |-> key, to |-> nextKey,
                    previous |-> command.previous]
    /\ ops' = FreshOp
    /\ command' = [command EXCEPT !.at = "request", !.op = FreshOp]
    /\ UNCHANGED <<keyFiles, credential, pending, policyVars, update, net,
                   serverVars, made, newest>>

RotateRequest ==
    /\ At("rotate", "request") /\ ~stale
    /\ net' = net \cup {[endpoint |-> "rotate", op |-> command.op, key |-> nextKey,
                         policy |-> policy]}
    /\ command' = [command EXCEPT !.at = "answer", !.policy = policy]
    /\ UNCHANGED <<keyFiles, credential, pending, rotation, policyVars,
                   update, serverVars, made, ops, newest>>

\* The answer must be newer than the credential the command began with, which
\* may be that very answer when the new key is installed already.
\* commit_identity_rotation then installs the key, saves the credential, and
\* removes the hand-off, the pending key and the record, in this order.
RotateKey ==
    /\ At("rotate", "answer")
    /\ Exact(rotated[command.op], nextKey, command.policy)
    /\ \/ rotated[command.op].revision > command.previous
       \/ key = nextKey /\ rotated[command.op].revision = command.previous
    /\ key' = nextKey
    /\ origin' = TRUE
    /\ Continue("credential")
    /\ UNCHANGED <<nextKey, credential, pending, rotation, policyVars, update,
                   net, serverVars, made, ops, newest>>

RotateCredential ==
    /\ At("rotate", "credential")
    /\ SaveCredential(rotated[command.op])
    /\ Continue("remove")
    /\ UNCHANGED <<keyFiles, pending, rotation, policyVars, update, net,
                   serverVars, made, ops>>

RotateRemoveKey ==
    /\ At("rotate", "remove")
    /\ nextKey' = NoKey
    /\ Continue("clear")
    /\ UNCHANGED <<key, origin, credential, pending, rotation, policyVars,
                   update, net, serverVars, made, ops, newest>>

RotateClear ==
    /\ At("rotate", "clear")
    /\ rotation' = NoRotation
    /\ command' = NoCommand
    /\ UNCHANGED <<keyFiles, credential, pending, policyVars, update, net,
                   serverVars, made, ops, newest>>

RotateStep ==
    \/ RotateFinish \/ RotateStart \/ RotatePrepare \/ RotateResume \/ RotateRecord
    \/ RotateRequest \/ RotateKey \/ RotateCredential \/ RotateRemoveKey \/ RotateClear

-----------------------------------------------------------------------------
(* learning set, and allowlist set without a binding.                       *)

\* Only an allowlist update verifies the bundle it leaves in place.  A device
\* without a credential has nothing to synchronize.  The operation key is in
\* memory only: a second attempt is a new operation.
UpdateStart ==
    /\ update = NoUpdate /\ ~command.migrates /\ policy < MaxPolicy
    /\ \E learning \in BOOLEAN :
        /\ ~learning => ~stale
        /\ IF credential = NoCredential
           THEN /\ update' = [NoUpdate EXCEPT !.at = "policy", !.learning = learning,
                                              !.policy = policy + 1]
                /\ UNCHANGED <<net, ops>>
           ELSE /\ ops < MaxOp /\ ops' = FreshOp
                /\ update' = [at |-> "answer", learning |-> learning, op |-> FreshOp,
                              previous |-> credential.revision, policy |-> policy + 1]
                /\ net' = net \cup {[endpoint |-> "ensure", op |-> FreshOp, key |-> key,
                                     policy |-> policy + 1]}
    /\ UNCHANGED <<keyFiles, credential, pending, rotation, policyVars,
                   command, serverVars, made, newest>>

\* synchronize_registered_policy returns: an answer to this very operation has
\* the key and the policy it named.
UpdateAnswer ==
    /\ update.at = "answer"
    /\ enrolled[update.op] # NoCredential
    /\ enrolled[update.op].revision > update.previous
    /\ update' = [update EXCEPT !.at = "policy"]
    /\ UNCHANGED <<keyFiles, credential, pending, rotation, policyVars, command, net,
                   serverVars, made, ops, newest>>

\* Slip: a local update waits for a credential too.
UpdatePolicyOnly ==
    /\ update.at = "policy"
    /\ policy' = update.policy
    /\ stale' = (stale /\ ~update.learning)
    /\ update' = [update EXCEPT !.at = IF update.op = 0 THEN "clear" ELSE "credential"]
    /\ UNCHANGED <<keyFiles, credential, pending, rotation, command, net,
                   serverVars, made, ops, newest>>

UpdatePolicy ==
    /\ update.at = "policy"
    /\ policy' = update.policy
    /\ stale' = (stale /\ ~update.learning)
    /\ update' = IF update.op = 0 THEN NoUpdate ELSE [update EXCEPT !.at = "credential"]
    /\ UNCHANGED <<keyFiles, credential, pending, rotation, command, net,
                   serverVars, made, ops, newest>>

UpdateCredential ==
    /\ update.at = "credential"
    /\ SaveCredential(enrolled[update.op])
    /\ update' = NoUpdate
    /\ UNCHANGED <<keyFiles, pending, rotation, policyVars, command, net,
                   serverVars, made, ops>>

UpdateStep == UpdateStart \/ UpdateAnswer \/ UpdatePolicy \/ UpdateCredential

-----------------------------------------------------------------------------
(* What surrounds the commands.                                             *)

\* A command refuses, fails or is killed; its locks go with the process.
CommandEnds ==
    /\ command # NoCommand
    /\ command' = NoCommand
    /\ UNCHANGED <<keyFiles, credential, pending, rotation, policyVars,
                   update, net, serverVars, made, ops, newest>>

UpdateEnds ==
    /\ update # NoUpdate
    /\ update' = NoUpdate
    /\ UNCHANGED <<keyFiles, credential, pending, rotation, policyVars,
                   command, net, serverVars, made, ops, newest>>

\* retire-local, which takes no lock: the metadata is kept for the key.
RetireLocal ==
    /\ credential # NoCredential
    /\ credential' = NoCredential
    /\ origin' = TRUE
    /\ UNCHANGED <<key, nextKey, pending, rotation, policyVars, command, update, net,
                   serverVars, made, ops, newest>>

\* A new release is installed: the bundle of the policy is an older one's.
Upgrade ==
    /\ ~stale
    /\ stale' = TRUE
    /\ UNCHANGED <<keyFiles, credential, pending, rotation, policy, command,
                   update, net, serverVars, made, ops, newest>>

\* The Server answers an operation once and repeats its answer.  It enrols a new
\* device or one whose key it has, and rotates to the next generation.
Accepts(r) ==
    IF r.endpoint = "ensure"
    THEN enrolled[r.op] = NoCredential /\ server.key \in {NoKey, r.key}
    ELSE rotated[r.op] = NoCredential /\ r.key.generation = server.key.generation + 1

Serve(r) ==
    LET issued == [revision |-> server.revision + 1, key |-> r.key, policy |-> r.policy]
    IN
    /\ net' = {q \in net : q.endpoint # r.endpoint \/ q.op # r.op}
    /\ IF Accepts(r)
       THEN /\ server' = [key |-> r.key, revision |-> issued.revision]
            /\ IF r.endpoint = "ensure"
               THEN enrolled' = [enrolled EXCEPT ![r.op] = issued] /\ UNCHANGED rotated
               ELSE rotated' = [rotated EXCEPT ![r.op] = issued] /\ UNCHANGED enrolled
       ELSE UNCHANGED serverVars
    /\ UNCHANGED <<keyFiles, credential, pending, rotation, policyVars,
                   command, update, made, ops, newest>>

Next ==
    \/ EnsureStep \/ RotateStep \/ UpdateStep
    \/ CommandEnds \/ UpdateEnds
    \/ RetireLocal \/ Upgrade
    \/ \E r \in net : Serve(r)

Spec == Init /\ [][Next]_vars

-----------------------------------------------------------------------------
(* Properties.                                                              *)

Pendings == [op : 0..MaxOp, key : Key, ordinary : BOOLEAN]
Rotations == [op : 0..MaxOp, from : Key, to : Key, previous : Nat]
Requests == [endpoint : {"ensure", "rotate"}, op : Op, key : Key, policy : Nat]
Commands == [name : {"none", "ensure", "rotate"}, at : Step, ordinary : BOOLEAN,
             again : BOOLEAN, resumed : BOOLEAN, previous : Nat, op : 0..MaxOp,
             policy : Nat, migrates : BOOLEAN]
Updates == [at : {"idle", "answer", "policy", "credential"}, learning : BOOLEAN,
            previous : Nat, op : 0..MaxOp, policy : Nat]

\* What the files, the processes and the Server may hold.
TypeOK ==
    /\ key \in Key /\ nextKey \in Key /\ origin \in BOOLEAN
    /\ credential \in Credential
    /\ pending \in Pendings /\ rotation \in Rotations
    /\ policy \in Nat /\ stale \in BOOLEAN
    /\ command \in Commands /\ update \in Updates /\ net \subseteq Requests
    /\ server \in [key : Key, revision : Nat]
    /\ enrolled \in [Op -> Credential] /\ rotated \in [Op -> Credential]
    /\ made \in 0..MaxKey /\ ops \in 0..MaxOp
    /\ newest \in Nat

\* The device never loses the private key the Server knows it by: it is the
\* installed one, or the pending one of a recorded rotation, whose operation the
\* Server has answered with that key.  (device-rotate persists key and operation
\* before the request, and keeps both until the commit is complete.)
KeyNotLost ==
    server.key \notin {NoKey, key} =>
        /\ nextKey = server.key
        /\ rotation.to = nextKey /\ rotation.from = key
        /\ rotated[rotation.op].key = server.key

\* When no rotation is under way the credential belongs to the installed key,
\* unless a slow command has saved its own after a newer one: no order of crashes
\* ends a rotation with the revoked credential in place.
CredentialOfKey ==
    rotation = NoRotation /\ credential # NoCredential /\ credential.revision = newest =>
        credential.key = key

\* A credential registered for a policy that is not committed yet has a pending
\* registration with which a rerun of ensure completes the migration.
MigrationCanFinish ==
    credential.policy > policy =>
        /\ stale /\ pending # NoPending /\ pending.key = key
        /\ LET answer == enrolled[pending.op]
           IN  answer # NoCredential =>
                 answer.policy = policy + 1 /\ answer.revision >= credential.revision

\* docs/operations.md: "An explicit --re-enroll also replaces a failed pending
\* ensure operation with a new idempotency key, preserving the device identity".
\* ensure begins only with a pending operation of the installed key: between
\* commands, with no rotation under way, a pending ensure is of that key.
PendingCanBeReplaced ==
    command = NoCommand /\ rotation = NoRotation /\ pending.ordinary =>
        pending.key = key

=============================================================================
