------------------------------ MODULE FileGuard ------------------------------
(***************************************************************************)
(* The helper file guard of one execution (file_guard.rs, allowlist.rs,      *)
(* allowlist_fs.rs, helper_adapter.js).                                      *)
(*                                                                          *)
(* The guard is a task of the Bridge that serves one connection at a time:   *)
(* it copies allowlisted files in (upload), prepares a place for a download   *)
(* next to its destination, and replaces the destination by what was put     *)
(* there (commit).  The file work of a request is a closure on a blocking    *)
(* thread that holds the guard's mutex to its end; stopping the guard drops  *)
(* the connection but not that closure.  Another program of the user may     *)
(* replace the destination, or the directory it is in, at any time.          *)
(*                                                                          *)
(* All downloads of the model go to one destination.  A file is its identity  *)
(* (device and inode): "none", "old" that was there at first, one that       *)
(* another program put there, or the token whose commit installed it.  The   *)
(* module has actions only; GuardedExecution says when they may happen.      *)
(***************************************************************************)
EXTENDS Naturals, FiniteSets

CONSTANTS Tokens,       \* the opaque ids prepared downloads get
          Others,       \* files other programs put at the destination
          Sizes,        \* sizes of files
          MaxFiles,     \* max_file_count
          MaxBytes,     \* max_total_bytes
          MaxMeddling   \* bound: how often other programs act

ASSUME LimitAssumption ==
    /\ MaxFiles \in Nat \ {0}
    /\ MaxBytes \in Nat /\ MaxMeddling \in Nat
    /\ Sizes \subseteq Nat
    /\ Tokens \cap Others = {}
    /\ {"none", "old"} \cap (Tokens \cup Others) = {}

Dirs == {"first", "second"}
Files == {"none", "old"} \cup Others \cup Tokens

VARIABLES
    guard,          \* the task: run_file_guard
    stop,           \* stop_tx says so, or is gone
    op,             \* the closure on the blocking thread
    downloads,      \* the tokens in state.downloads
    base,           \* what validate_output found: the directory and its file
    bytes,          \* budget.total_bytes
    count,          \* budget.file_count
    at,             \* the directory that is at the destination's path
    target,         \* the file at the destination, in each directory
    staged,         \* <<token, directory>>: incoming files that exist
    temps,          \* tokens whose temporary commit file exists
    client,         \* the download helper's progress, per token
    given,          \* files copied in or put at the destination, not counting
                    \* those whose commit failed afterwards
    meddled,        \* how often other programs have acted
    raced           \* the destination changed after the commit's last look at it

budgetVars == <<bytes, count, given>>
fileVars == <<target, staged, temps, meddled, raced>>
guardVars == <<guard, stop, op, downloads, base, at, client, budgetVars, fileVars>>

NoOp == [kind |-> "none", token |-> "none", step |-> "none", size |-> 0]
Operation(kind, t) == [kind |-> kind, token |-> t, step |-> "queued", size |-> 0]
Held == {"blocked", "read", "temp", "checked", "renamed"}

\* The closure holds the mutex; until then it is queued and anyone may be first.
Locked == op.step \in Held
Queued(kind) == op.kind = kind /\ op.step = "queued"
Step(kind, step) == op.kind = kind /\ op.step = step

GuardTypeOK ==
    /\ guard \in {"accepting", "answering", "closing", "ended"}
    /\ stop \in BOOLEAN
    /\ op \in [kind : {"none", "upload", "prepare", "commit"}, token : Tokens \cup {"none"},
               step : {"none", "queued"} \cup Held, size : Nat]
    /\ downloads \subseteq Tokens
    /\ base \in [Tokens -> [dir : Dirs, file : Files]]
    /\ bytes \in Nat /\ count \in Nat /\ given \in Nat
    /\ at \in Dirs
    /\ target \in [Dirs -> Files]
    /\ staged \subseteq Tokens \X Dirs
    /\ temps \subseteq Tokens
    /\ client \in [Tokens -> {"idle", "asked", "writing", "written", "committing", "settled"}]
    /\ meddled \in 0..MaxMeddling
    /\ raced \in BOOLEAN

GuardInit ==
    /\ guard = "accepting"
    /\ stop = FALSE
    /\ op = NoOp
    /\ downloads = {}
    /\ base = [t \in Tokens |-> [dir |-> "first", file |-> "none"]]
    /\ bytes = 0 /\ count = 0 /\ given = 0
    /\ at = "first"
    /\ target \in {found \in [Dirs -> {"none", "old"}] : found["second"] = "none"}
    /\ staged = {} /\ temps = {}
    /\ client = [t \in Tokens |-> "idle"]
    /\ meddled = 0
    /\ raced = FALSE

-----------------------------------------------------------------------------
(* The helper adapter in the runtime.                                        *)

Connect(kind, t) ==
    /\ guard = "accepting"
    /\ ~stop
    /\ op' = Operation(kind, t)
    /\ guard' = "answering"
    /\ UNCHANGED <<stop, downloads, base, at, budgetVars, fileVars>>

AskUpload == Connect("upload", "none") /\ UNCHANGED client

AskPrepare(t) ==
    /\ client[t] = "idle"
    /\ client' = [client EXCEPT ![t] = "asked"]
    /\ Connect("prepare", t)

AskCommit(t) ==
    /\ client[t] = "written"
    /\ client' = [client EXCEPT ![t] = "committing"]
    /\ Connect("commit", t)

\* The browser has written the download to the incoming path, wherever it leads.
\* It need not notice that the execution is over.
FinishWriting(t) ==
    /\ client[t] = "writing"
    /\ staged' = staged \cup {<<t, at>>}
    /\ client' = [client EXCEPT ![t] = "written"]
    /\ UNCHANGED <<guard, stop, op, downloads, base, at, budgetVars, target, temps, meddled, raced>>

\* The download fails half-way: the helper's promise is rejected and no commit is
\* asked for.
FailWriting(t) ==
    /\ client[t] = "writing"
    /\ staged' \in {staged, staged \cup {<<t, at>>}}
    /\ client' = [client EXCEPT ![t] = "settled"]
    /\ UNCHANGED <<guard, stop, op, downloads, base, at, budgetVars, target, temps, meddled, raced>>

\* Five seconds pass, or the connection breaks; the guard does not notice.
GiveUp(t) ==
    /\ client[t] \in {"asked", "committing"}
    /\ client' = [client EXCEPT ![t] = "settled"]
    /\ UNCHANGED <<guard, stop, op, downloads, base, at, budgetVars, fileVars>>

-----------------------------------------------------------------------------
(* The closures.                                                             *)

\* The closure returns.  If its connection is still there the helper hears of it
\* (unless it has given up) and the task accepts the next one.
Answer(t, waiting, verdict) ==
    /\ op' = NoOp
    /\ guard' = IF guard = "answering" THEN "accepting" ELSE guard
    /\ client' = IF guard = "answering" /\ client[t] = waiting
                 THEN [client EXCEPT ![t] = verdict] ELSE client

AnswerUpload ==
    /\ op' = NoOp
    /\ guard' = IF guard = "answering" THEN "accepting" ELSE guard
    /\ UNCHANGED client

\* Slip: the total is compared before the new file is added.
WithinLimitsBefore(size) == count < MaxFiles /\ bytes <= MaxBytes

\* check_request_budget and the total in open_input.
WithinLimits(size) == count < MaxFiles /\ bytes + size <= MaxBytes

Charge(size) ==
    /\ bytes' = bytes + size
    /\ count' = count + 1

\* stage_allowlisted_input: the copy goes to a directory of its own.
Upload(size) ==
    /\ Queued("upload")
    /\ WithinLimits(size)
    /\ Charge(size)
    /\ given' = given + 1
    /\ AnswerUpload
    /\ UNCHANGED <<stop, downloads, base, at, fileVars>>

\* The path is refused, or the copy fails (also because an earlier failure left the
\* directory of that number behind).
RefuseUpload ==
    /\ Queued("upload")
    /\ AnswerUpload
    /\ UNCHANGED <<stop, downloads, base, at, budgetVars, fileVars>>

\* prepare_allowlisted_output: the prepared downloads count as files already.
Prepare ==
    /\ Queued("prepare")
    /\ count + Cardinality(downloads) < MaxFiles
    /\ downloads' = downloads \cup {op.token}
    /\ base' = [base EXCEPT ![op.token] = [dir |-> at, file |-> target[at]]]
    /\ Answer(op.token, "asked", "writing")
    /\ UNCHANGED <<stop, at, budgetVars, fileVars>>

RefusePrepare ==
    /\ Queued("prepare")
    /\ Answer(op.token, "asked", "settled")
    /\ UNCHANGED <<stop, downloads, base, at, budgetVars, fileVars>>

\* open_parent walks from the root to the directory and compares its identity with
\* the one validate_output saw.
HomeIsThere(t) == at = base[t].dir

\* remove_staging: without that directory nothing is removed.
StagingAfter(tokens) == {incoming \in staged :
    ~(incoming[1] \in tokens /\ incoming[2] = at /\ HomeIsThere(incoming[1]))}

\* commit_allowlisted_output takes the token out of the table for good, and then
\* reads the incoming file.
ReadIncoming(size) ==
    /\ Queued("commit")
    /\ op.token \in downloads
    /\ <<op.token, at>> \in staged
    /\ WithinLimits(size)
    /\ downloads' = downloads \ {op.token}
    /\ op' = [op EXCEPT !.step = "read", !.size = size]
    /\ UNCHANGED <<guard, stop, base, at, client, budgetVars, fileVars>>

\* Nothing to read, or a limit is reached.
RefuseIncoming ==
    /\ Queued("commit")
    /\ op.token \in downloads
    /\ downloads' = downloads \ {op.token}
    /\ staged' = StagingAfter({op.token})
    /\ Answer(op.token, "committing", "settled")
    /\ UNCHANGED <<stop, base, at, budgetVars, target, temps, meddled, raced>>

\* The guard was cleaned up before the closure ran.
RefuseToken ==
    /\ Queued("commit")
    /\ op.token \notin downloads
    /\ Answer(op.token, "committing", "settled")
    /\ UNCHANGED <<stop, downloads, base, at, budgetVars, fileVars>>

Home == base[op.token].dir

\* validate_target_at: the destination is the file it was when it was prepared.
TargetUnchanged == target[Home] = base[op.token].file

\* open_parent, the first look at the target, and the temporary file.  From here on
\* replace_atomically works in the directory it has open.
WriteTemporary ==
    /\ Step("commit", "read")
    /\ HomeIsThere(op.token)
    /\ TargetUnchanged
    /\ temps' = temps \cup {op.token}
    /\ op' = [op EXCEPT !.step = "temp"]
    /\ UNCHANGED <<guard, stop, downloads, base, at, client, budgetVars, target, staged, meddled, raced>>

\* Slip: the target is not looked at again once the temporary file is written.
LookAgainNever ==
    /\ Step("commit", "temp")
    /\ op' = [op EXCEPT !.step = "checked"]
    /\ UNCHANGED <<guard, stop, downloads, base, at, client, budgetVars, fileVars>>

\* The second look, after the temporary file has reached the disk.
LookAgain ==
    /\ Step("commit", "temp")
    /\ TargetUnchanged
    /\ op' = [op EXCEPT !.step = "checked"]
    /\ UNCHANGED <<guard, stop, downloads, base, at, client, budgetVars, fileVars>>

\* rename_at.
Install ==
    /\ Step("commit", "checked")
    /\ target' = [target EXCEPT ![Home] = op.token]
    /\ temps' = temps \ {op.token}
    /\ given' = given + 1
    /\ op' = [op EXCEPT !.step = "renamed"]
    /\ UNCHANGED <<guard, stop, downloads, base, at, client, bytes, count, staged,
                   meddled, raced>>

\* The directory is on the disk and its file is the one just installed.
Committed ==
    /\ Step("commit", "renamed")
    /\ target[Home] = op.token
    /\ Charge(op.size)
    /\ raced' = FALSE
    /\ staged' = StagingAfter({op.token})
    /\ Answer(op.token, "committing", "settled")
    /\ UNCHANGED <<stop, downloads, base, at, given, target, temps, meddled>>

\* Slip: a failed commit leaves the incoming file to the end of the request.
CommitFailsEarly ==
    /\ op.kind = "commit"
    /\ op.step \in {"read", "temp", "checked", "renamed"}
    /\ given' = IF op.step = "renamed" THEN given - 1 ELSE given
    /\ temps' = temps \ {op.token}
    /\ raced' = FALSE
    /\ Answer(op.token, "committing", "settled")
    /\ UNCHANGED <<stop, downloads, base, at, bytes, count, target, staged, meddled>>

\* Any of those steps fails: unlink_at, remove_staging.  What was renamed stays.
CommitFails ==
    /\ op.kind = "commit"
    /\ op.step \in {"read", "temp", "checked", "renamed"}
    /\ given' = IF op.step = "renamed" THEN given - 1 ELSE given
    /\ temps' = temps \ {op.token}
    /\ raced' = FALSE
    /\ staged' = StagingAfter({op.token})
    /\ Answer(op.token, "committing", "settled")
    /\ UNCHANGED <<stop, downloads, base, at, bytes, count, target, meddled>>

-----------------------------------------------------------------------------
(* Pipes.  open_at_raw opens whatever the path names, and only then is it      *)
(* looked at: a pipe makes the closure wait for the other end, under the mutex. *)

Block == op' = [op EXCEPT !.step = "blocked"]

\* The path of an upload names a pipe.
BlockOnUpload ==
    /\ Queued("upload")
    /\ count < MaxFiles
    /\ Block
    /\ UNCHANGED <<guard, stop, downloads, base, at, client, budgetVars, fileVars>>

\* What is at the incoming path of a commit is a pipe.
BlockOnIncoming ==
    /\ Queued("commit")
    /\ op.token \in downloads
    /\ <<op.token, at>> \in staged
    /\ count < MaxFiles
    /\ downloads' = downloads \ {op.token}
    /\ Block
    /\ UNCHANGED <<guard, stop, base, at, client, budgetVars, fileVars>>

\* Another program put a pipe at the destination: either look at the target and the
\* one at what was installed open it to write.  After that the commit can but fail.
BlockOnTarget ==
    /\ op.kind = "commit"
    /\ \/ op.step = "read" /\ HomeIsThere(op.token)
       \/ op.step \in {"temp", "renamed"}
    /\ target[Home] \in Others
    /\ ~TargetUnchanged
    /\ given' = IF op.step = "renamed" THEN given - 1 ELSE given
    /\ Block
    /\ UNCHANGED <<guard, stop, downloads, base, at, client, bytes, count, fileVars>>

BlockOnPipe == BlockOnUpload \/ BlockOnIncoming \/ BlockOnTarget

\* The other end came: a pipe is no regular file.
LeavePipeOfUpload ==
    /\ Step("upload", "blocked")
    /\ AnswerUpload
    /\ UNCHANGED <<stop, downloads, base, at, budgetVars, fileVars>>

LeavePipeOfCommit ==
    /\ Step("commit", "blocked")
    /\ temps' = temps \ {op.token}
    /\ raced' = FALSE
    /\ staged' = StagingAfter({op.token})
    /\ Answer(op.token, "committing", "settled")
    /\ UNCHANGED <<stop, downloads, base, at, budgetVars, target, meddled>>

LeavePipe == LeavePipeOfUpload \/ LeavePipeOfCommit

-----------------------------------------------------------------------------
(* The end of the guard, and other programs.                                 *)

\* The task leaves its loop and drops the connection it was answering.
LeaveLoop ==
    /\ guard \in {"accepting", "answering"}
    /\ stop
    /\ guard' = "closing"
    /\ UNCHANGED <<stop, op, downloads, base, at, client, budgetVars, fileVars>>

\* Slip: the table is taken without waiting for a commit in progress.
CleanUpAtOnce ==
    /\ guard = "closing"
    /\ downloads' = {}
    /\ staged' = StagingAfter(downloads)
    /\ guard' = "ended"
    /\ UNCHANGED <<stop, op, base, at, client, budgetVars, target, temps, meddled, raced>>

\* What was prepared and never committed is removed, under the mutex.
CleanUp ==
    /\ guard = "closing"
    /\ ~Locked
    /\ downloads' = {}
    /\ staged' = StagingAfter(downloads)
    /\ guard' = "ended"
    /\ UNCHANGED <<stop, op, base, at, client, budgetVars, target, temps, meddled, raced>>

Meddle == meddled < MaxMeddling /\ meddled' = meddled + 1

\* Another program removes or replaces the destination.
OtherProgramWrites(file) ==
    /\ target[at] # file
    /\ Meddle
    /\ target' = [target EXCEPT ![at] = file]
    /\ raced' = (raced \/ op.step = "checked")
    /\ UNCHANGED <<guard, stop, op, downloads, base, at, client, budgetVars, staged, temps>>

\* Another program moves the destination's directory and puts one in its place.
OtherProgramMovesDirectory ==
    /\ at = "first"
    /\ Meddle
    /\ at' = "second"
    /\ UNCHANGED <<guard, stop, op, downloads, base, client, budgetVars, target, staged, temps, raced>>

ClientAsks == AskUpload \/ \E t \in Tokens : AskPrepare(t) \/ AskCommit(t)

ClientElsewhere == \E t \in Tokens : FinishWriting(t) \/ FailWriting(t) \/ GiveUp(t)

ClosureSteps ==
    \/ \E size \in Sizes : Upload(size) \/ ReadIncoming(size)
    \/ RefuseUpload \/ Prepare \/ RefusePrepare \/ RefuseIncoming \/ RefuseToken
    \/ WriteTemporary \/ LookAgain \/ Install \/ Committed \/ CommitFails

TaskSteps == LeaveLoop \/ CleanUp

OtherPrograms ==
    (\E file \in Others \cup {"none"} : OtherProgramWrites(file)) \/ OtherProgramMovesDirectory

\* What browser and other programs do after the guard's end is not followed.
GuardNext ==
    \/ ClosureSteps \/ BlockOnPipe \/ LeavePipe \/ TaskSteps
    \/ guard # "ended" /\ (ClientElsewhere \/ OtherPrograms)

-----------------------------------------------------------------------------
\* The request never moves more files or bytes than the allowlist allows
\* (check_request_budget), not counting a file that was put at its destination by
\* a commit that then reported a failure.
WithinBudget == given <= MaxFiles /\ bytes <= MaxBytes

\* A commit replaces only the file that was there when its download was prepared,
\* in the directory it was prepared in, unless another program changed it after
\* the last look (validate_target_at, rename_at).
OnlyKnownTargetReplaced ==
    [][\A d \in Dirs : target'[d] # target[d] /\ target'[d] \in Tokens =>
           /\ base[target'[d]].dir = d
           /\ base[target'[d]].file = target[d] \/ raced]_guardVars
=============================================================================
