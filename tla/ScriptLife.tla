----------------------------- MODULE ScriptLife -----------------------------
(***************************************************************************)
(* The life of one script, as run_process and the execution supervisor      *)
(* agree on it: the script leaves the Bridge once, runs at most once, and    *)
(* run_process reports its end only when nothing of it is left -- unless the  *)
(* Bridge goes away, which ends the report and not the script.                *)
(***************************************************************************)
VARIABLES phase,        \* of run_process: open, waiting, ending, settling, over, gone
          script        \* none, sent (in the control pipe), live, dead

vars == <<phase, script>>

Ended == {"none", "dead"}

Init == phase = "open" /\ script = "none"

-----------------------------------------------------------------------------
Moves(from, to) == phase \in from /\ phase' = to

\* The script leaves the Bridge.
HandOver == Moves({"open"}, "waiting") /\ script' = "sent"

\* Its supervisor is told to end: a failed write, a cancellation, the deadline.
Stop == Moves({"open", "waiting"}, "ending") /\ UNCHANGED script

SeeEnd == script = "dead" /\ Moves({"waiting"}, "settling") /\ UNCHANGED script

Conclude == script \in Ended /\ Moves({"open", "ending", "settling"}, "over") /\ UNCHANGED script

\* The Bridge is gone, or nobody waits for the outcome any more.
Vanish == phase' = "gone" /\ UNCHANGED script

StartScript == script = "sent" /\ script' = "live" /\ UNCHANGED phase

EndScript == script \in {"sent", "live"} /\ script' = "dead" /\ UNCHANGED phase

Next == HandOver \/ Stop \/ SeeEnd \/ Conclude \/ Vanish \/ StartScript \/ EndScript

Spec == Init /\ [][Next]_vars

-----------------------------------------------------------------------------
\* The end of a script is reported only when nothing of it is left (run_process).
OverWhenEnded == phase = "over" => script \in Ended
=============================================================================
