---------------------------- MODULE RequestOrder ----------------------------
(***************************************************************************)
(* What the Bridge promises of the requests it is sent, whatever its five   *)
(* tasks do to each other and however often it is restarted: requests are    *)
(* taken up one at a time and in the order of their sequence numbers, a       *)
(* script leaves the Bridge at most once, and a request is answered only       *)
(* after its script has ended.                                                 *)
(*                                                                          *)
(* The relay, the lease, the cancellation and the observers are not here:    *)
(* they decide which of these steps happens, never what a step may do.        *)
(***************************************************************************)
EXTENDS Naturals

CONSTANT Sequence       \* the sequence numbers a request may carry

VARIABLES last,         \* the largest number reserved
          open,         \* it may still be taken up or refused
          phase,        \* where each request is
          script        \* its script: none, sent (in the control pipe), live, dead

vars == <<last, open, phase, script>>

\* The request holds the scheduler, so that no other is taken up.
AtWork == {"held", "waiting", "ending", "settling"}

Working == {s \in Sequence : phase[s] \in AtWork}

Ended == {"none", "dead"}

Init ==
    /\ last = 0
    /\ open = FALSE
    /\ phase = [s \in Sequence |-> "before"]
    /\ script = [s \in Sequence |-> "none"]

-----------------------------------------------------------------------------
(* Taking a request up.                                                      *)

\* A number is used once it is reserved, whatever becomes of its request.
Reserve(s) ==
    /\ s > last
    /\ last' = s
    /\ open' = TRUE
    /\ UNCHANGED <<phase, script>>

Decline ==
    /\ open
    /\ open' = FALSE
    /\ UNCHANGED <<last, phase, script>>

Open(to) ==
    /\ open
    /\ open' = FALSE
    /\ phase[last] = "before"
    /\ phase' = [phase EXCEPT ![last] = to]
    /\ UNCHANGED <<last, script>>

\* Answered without running.
Refuse == Open("finished")

TakeUp == Working = {} /\ Open("held")

-----------------------------------------------------------------------------
(* Running its script.                                                       *)

Move(s, from, to) ==
    /\ phase[s] \in from
    /\ phase' = [phase EXCEPT ![s] = to]
    /\ UNCHANGED <<last, open>>

HandOver(s) ==
    /\ Move(s, {"held"}, "waiting")
    /\ script' = [script EXCEPT ![s] = "sent"]

\* Its supervisor is told to end.
Stop(s) == Move(s, {"held", "waiting"}, "ending") /\ UNCHANGED script

SeeEnd(s) == script[s] = "dead" /\ Move(s, {"waiting"}, "settling") /\ UNCHANGED script

\* The request leaves the scheduler, with an outcome for the session or, if the
\* session has been dropped, for nobody.
Conclude(s) ==
    /\ script[s] \in Ended
    /\ \E to \in {"finished", "gone"} : Move(s, {"held", "ending", "settling"}, to)
    /\ UNCHANGED script

ScriptChanges(s, from, to) ==
    /\ script[s] \in from
    /\ script' = [script EXCEPT ![s] = to]
    /\ UNCHANGED <<last, open, phase>>

StartScript(s) == ScriptChanges(s, {"sent"}, "live")
EndScript(s) == ScriptChanges(s, {"sent", "live"}, "dead")

-----------------------------------------------------------------------------
(* Answers.                                                                  *)

Answer(s) == Move(s, {"finished"}, "answered") /\ UNCHANGED script

\* Outcomes that nobody will send.
Drop ==
    /\ \E D \in SUBSET {s \in Sequence : phase[s] = "finished"} :
          phase' = [s \in Sequence |-> IF s \in D THEN "gone" ELSE phase[s]]
    /\ UNCHANGED <<last, open, script>>

\* The process is gone; scripts go on until their supervisors notice.
ProcessGone ==
    /\ open' = FALSE
    /\ phase' = [s \in Sequence |->
                    IF phase[s] \in AtWork \cup {"finished"} THEN "gone" ELSE phase[s]]
    /\ UNCHANGED <<last, script>>

RequestStep(s) ==
    \/ Reserve(s)
    \/ HandOver(s) \/ Stop(s) \/ SeeEnd(s) \/ Conclude(s)
    \/ StartScript(s) \/ EndScript(s) \/ Answer(s)

Next ==
    \/ Decline \/ Refuse \/ TakeUp
    \/ \E s \in Sequence : RequestStep(s)
    \/ Drop \/ ProcessGone

Spec == Init /\ [][Next]_vars

-----------------------------------------------------------------------------
\* The life of one script, which the execution supervisor implements on its side.
LifeOf ==
    [before |-> "open", held |-> "open", waiting |-> "waiting", ending |-> "ending",
     settling |-> "settling", finished |-> "over", answered |-> "over", gone |-> "gone"]

Life(s) == INSTANCE ScriptLife WITH phase <- LifeOf[phase[s]], script <- script[s]

\* One request at a time is at work: the scheduler serves no second one.
OneAtATime == \A s, t \in Working : s = t

\* Scripts leave the Bridge in the order of their numbers, each once, over every
\* restart.
InOrder ==
    [][\A s, t \in Sequence :
          script[s] = "none" /\ script'[s] # "none" /\ script[t] # "none" => t < s]_vars

\* A request is answered only when nothing of its script is left.
AnsweredAfterScript ==
    \A s \in Sequence : phase[s] \in {"finished", "answered"} => script[s] \in Ended

\* Two scripts are under way at once only if the process that sent one is gone.
OneScript ==
    \A s, t \in Sequence :
        /\ script[s] \in {"sent", "live"} /\ phase[s] # "gone"
        /\ script[t] \in {"sent", "live"} /\ phase[t] # "gone"
        => s = t
=============================================================================
