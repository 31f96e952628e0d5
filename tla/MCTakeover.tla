----------------------------- MODULE MCTakeover -----------------------------
(* The lifecycle with one more history: the grants whose Task Space the user    *)
(* took over while a Bridge was executing for them, once that Bridge has asked  *)
(* the Server to pause them, whatever came of it.                               *)
EXTENDS BindingLifecycle, TLC

CONSTANT first

OneGrantOrResume == first :> {"claim", "resume"}

VARIABLE takenOver

TakeoverInit == Init /\ takenOver = {}

TakeoverNext ==
    /\ Next
    /\ takenOver' = IF bridge.at = "pausing" /\ bridge'.at = "refused"
                    THEN takenOver \cup {bridge.grant}
                    ELSE takenOver

TakeoverSpec == TakeoverInit /\ [][TakeoverNext]_<<vars, takenOver>>

\* After the user took a Task Space over, scripts run again only for a new
\* grant, which takes an explicit resume (docs/security.md:119-123).  The code
\* does not keep it: fail_closed_task_space_monitor leaves the hand-off and the
\* admission record as they are, so if the pause request is lost, the Bridge
\* that launchd restarts is admitted and renews the grant that is still active.
TakeoverNeedsResume == bridge.at = "executing" => bridge.grant \notin takenOver
=============================================================================
