------------------------- MODULE RequestOrderProofs -------------------------
(***************************************************************************)
(* What follows from the order of requests, for any set of sequence numbers: *)
(* one at a time, scripts in order, answers after their scripts; and each      *)
(* request lives one script life.                                              *)
(***************************************************************************)
EXTENDS RequestOrder, TLAPS

\* Numbers are positive, so that 0 is none of them.
Numbered == Sequence \subseteq Nat \ {0}

TypeOK ==
    /\ last \in Sequence \cup {0}
    /\ open \in BOOLEAN
    /\ phase \in [Sequence -> AtWork \cup {"before", "finished", "answered", "gone"}]
    /\ script \in [Sequence -> {"none", "sent", "live", "dead"}]

\* Nothing beyond the last number has been taken up, nor that number itself while
\* it is open.
Fresh ==
    /\ open => last \in Sequence /\ phase[last] = "before"
    /\ \A s \in Sequence : s > last => phase[s] = "before"

\* How far a request has come bounds what its script can be.
ScriptFollows ==
    \A s \in Sequence :
        /\ phase[s] \in {"before", "held"} => script[s] = "none"
        /\ phase[s] = "settling" => script[s] = "dead"
        /\ phase[s] \in {"finished", "answered"} => script[s] \in Ended

\* The one at work has the largest number of all whose script has left the Bridge.
WorkIsLatest ==
    \A s \in Working, t \in Sequence : script[t] # "none" => t <= s

OrderInv == TypeOK /\ Fresh /\ ScriptFollows /\ OneAtATime /\ WorkIsLatest

-----------------------------------------------------------------------------
\* Initially no request has been seen.
LEMMA InitOrderInv == Init => OrderInv
  BY DEF Init, OrderInv, TypeOK, Fresh, ScriptFollows, OneAtATime, WorkIsLatest, Working, AtWork

\* Every step keeps the order: only TakeUp adds to the work, and the number it
\* takes is larger than all that were taken before.
LEMMA StepOrderInv ==
  ASSUME Numbered, OrderInv, [Next]_vars
  PROVE  OrderInv'
<1> USE DEF OrderInv, TypeOK, Fresh, ScriptFollows, OneAtATime, WorkIsLatest, Working, AtWork,
            Ended, Numbered
<1>1. ASSUME NEW s \in Sequence, Reserve(s)  PROVE OrderInv'
  BY <1>1 DEF Reserve
<1>2. ASSUME NEW s \in Sequence, HandOver(s)  PROVE OrderInv'
  BY <1>2 DEF HandOver, Move
<1>3. ASSUME NEW s \in Sequence, Stop(s) \/ SeeEnd(s)  PROVE OrderInv'
  BY <1>3 DEF Stop, SeeEnd, Move
<1>4. ASSUME NEW s \in Sequence, Conclude(s)  PROVE OrderInv'
  BY <1>4 DEF Conclude, Move
<1>5. ASSUME NEW s \in Sequence, StartScript(s) \/ EndScript(s)  PROVE OrderInv'
  BY <1>5 DEF StartScript, EndScript, ScriptChanges
<1>6. ASSUME NEW s \in Sequence, Answer(s)  PROVE OrderInv'
  BY <1>6 DEF Answer, Move
<1>7. CASE Decline
  BY <1>7 DEF Decline
<1>8. CASE Refuse \/ TakeUp
  <2>1. PICK to \in {"finished", "held"} : Open(to) /\ (to = "held" => Working = {})
    BY <1>8 DEF Refuse, TakeUp
  <2>2. /\ last \in Sequence /\ phase[last] = "before"
        /\ open' = FALSE /\ UNCHANGED <<last, script>>
        /\ phase' = [phase EXCEPT ![last] = to]
    BY <2>1 DEF Open
  <2>3. TypeOK'
    BY <2>2
  <2>9. \A s \in Sequence : phase'[s] = IF s = last THEN to ELSE phase[s]
    BY <2>2
  <2>10. \A s \in Sequence : s > last => s # last
    BY <2>2
  <2>11. Fresh'
    BY <2>2, <2>9, <2>10
  <2>12. ScriptFollows'
    BY <2>1, <2>2, <2>9
  <2>4. to = "finished" => OneAtATime' /\ WorkIsLatest'
    BY <2>2
  <2>5. to = "held" => \A s \in Working' : s = last
    BY <2>1, <2>2
  <2>6. ASSUME NEW t \in Sequence, script[t] # "none" PROVE t <= last
    <3>1. phase[t] # "before" /\ ~(t > last)
      BY <2>6
    <3>2. t \in Nat /\ last \in Nat
      BY <2>2
    <3>3. QED
      BY <3>1, <3>2
  <2>7. to = "held" => OneAtATime' /\ WorkIsLatest'
    BY <2>2, <2>5, <2>6
  <2>8. QED
    BY <2>3, <2>11, <2>12, <2>4, <2>7
<1>9. CASE Drop \/ ProcessGone
  <2>1. CASE Drop
    BY <2>1 DEF Drop
  <2>2. CASE ProcessGone
    BY <2>2 DEF ProcessGone
  <2>3. QED
    BY <1>9, <2>1, <2>2
<1>10. CASE UNCHANGED vars
  BY <1>10 DEF vars
<1>11. QED
  BY <1>1, <1>2, <1>3, <1>4, <1>5, <1>6, <1>7, <1>8, <1>9, <1>10 DEF Next, RequestStep

\* The order holds of every behaviour.
LEMMA OrderInductive == Numbered => (Spec => []OrderInv)
<1> SUFFICES ASSUME Numbered PROVE Spec => []OrderInv
  OBVIOUS
<1>1. OrderInv /\ [Next]_vars => OrderInv'
  BY StepOrderInv
<1>2. QED
  BY InitOrderInv, <1>1, PTL DEF Spec
-----------------------------------------------------------------------------
\* The scheduler serves one request at a time, over every restart.
THEOREM ServesOneAtATime == Numbered => (Spec => []OneAtATime)
<1>1. OrderInv => OneAtATime
  BY DEF OrderInv
<1>2. QED
  BY <1>1, OrderInductive, PTL

\* No answer overtakes the end of its script.
THEOREM AnswersFollowScripts == Numbered => (Spec => []AnsweredAfterScript)
<1>1. OrderInv => AnsweredAfterScript
  BY DEF OrderInv, ScriptFollows, AnsweredAfterScript
<1>2. QED
  BY <1>1, OrderInductive, PTL

\* Two scripts under way belong to two processes.
THEOREM OneScriptPerProcess == Numbered => (Spec => []OneScript)
<1>1. OrderInv => OneScript
  <2> SUFFICES ASSUME OrderInv, NEW s \in Sequence, NEW t \in Sequence,
                      script[s] \in {"sent", "live"}, phase[s] # "gone",
                      script[t] \in {"sent", "live"}, phase[t] # "gone"
               PROVE  s = t
    BY DEF OneScript
  <2>1. s \in Working /\ t \in Working
    BY DEF OrderInv, TypeOK, ScriptFollows, Working, AtWork, Ended
  <2>2. QED
    BY <2>1 DEF OrderInv, OneAtATime
<1>2. QED
  BY <1>1, OrderInductive, PTL

\* Scripts leave the Bridge by rising number: the ledger, the scheduler and the
\* single execution of each request make it one sequence over all processes.
THEOREM ScriptsInOrder == Numbered => (Spec => InOrder)
<1> SUFFICES ASSUME Numbered PROVE Spec => InOrder
  OBVIOUS
<1> DEFINE Leaves == \A s, t \in Sequence :
               script[s] = "none" /\ script'[s] # "none" /\ script[t] # "none" => t < s
<1>1. OrderInv /\ [Next]_vars => [Leaves]_vars
  <2> SUFFICES ASSUME OrderInv, [Next]_vars,
                      NEW s \in Sequence, NEW t \in Sequence,
                      script[s] = "none", script'[s] # "none", script[t] # "none"
               PROVE  t < s
    OBVIOUS
  <2>1. HandOver(s)
    <3>1. PICK q \in Sequence : HandOver(q) \/ StartScript(q) \/ EndScript(q)
      BY DEF Next, RequestStep, Reserve, Stop, SeeEnd, Conclude, Answer, Decline, Refuse, TakeUp,
         Open, Drop, ProcessGone, vars
    <3>2. script' = [script EXCEPT ![q] = script'[q]]
      BY <3>1 DEF HandOver, StartScript, EndScript, ScriptChanges, OrderInv, TypeOK
    <3>3. q = s
      BY <3>2 DEF OrderInv, TypeOK
    <3>4. QED
      BY <3>1, <3>3 DEF StartScript, EndScript, ScriptChanges
  <2>2. s \in Working
    BY <2>1 DEF HandOver, Move, Working, AtWork
  <2>3. t <= s /\ t # s
    BY <2>2 DEF OrderInv, WorkIsLatest
  <2>4. s \in Nat /\ t \in Nat
    BY DEF Numbered
  <2>5. QED
    BY <2>3, <2>4
<1>2. QED
  BY <1>1, OrderInductive, PTL DEF Spec, InOrder

\* Each request is one script life: what the Bridge assumes of the execution
\* supervisor is what SupervisedExecution shows of it.
THEOREM EachRequestIsOneLife ==
  ASSUME Numbered, NEW s \in Sequence
  PROVE  Spec => Life(s)!Spec
<1>1. Init => Life(s)!Init
  BY DEF Init, Life!Init, LifeOf
<1>2. OrderInv /\ [Next]_vars => [Life(s)!Next]_(Life(s)!vars)
  <2> SUFFICES ASSUME OrderInv, [Next]_vars PROVE Life(s)!Next \/ UNCHANGED Life(s)!vars
    OBVIOUS
  <2> USE DEF OrderInv, TypeOK, AtWork, LifeOf, Life!Next, Life!vars, Life!Moves
  <2>1. ASSUME NEW q \in Sequence, q # s, RequestStep(q)
        PROVE  UNCHANGED <<phase[s], script[s]>>
    BY <2>1 DEF RequestStep, Reserve, HandOver, Stop, SeeEnd, Conclude, StartScript, EndScript,
       Answer, Move, ScriptChanges
  <2>2. CASE RequestStep(s)
    <3>1. CASE Reserve(s) \/ HandOver(s)
      BY <3>1 DEF Reserve, HandOver, Move, Life!HandOver
    <3>2. CASE Stop(s) \/ SeeEnd(s)
      BY <3>2 DEF Stop, SeeEnd, Move, Life!Stop, Life!SeeEnd
    <3>3. CASE Conclude(s)
      BY <3>3 DEF Conclude, Move, Ended, Life!Ended, Life!Conclude, Life!Vanish
    <3>4. CASE StartScript(s) \/ EndScript(s)
      BY <3>4 DEF StartScript, EndScript, ScriptChanges, Life!StartScript, Life!EndScript
    <3>5. CASE Answer(s)
      BY <3>5 DEF Answer, Move
    <3>6. QED
      BY <2>2, <3>1, <3>2, <3>3, <3>4, <3>5 DEF RequestStep
  <2>3. CASE Decline \/ UNCHANGED vars
    BY <2>3 DEF Decline, vars
  <2>4. CASE Refuse \/ TakeUp
    BY <2>4 DEF Refuse, TakeUp, Open, Fresh, ScriptFollows, Life!Conclude, Life!Ended
  <2>5. CASE Drop
    BY <2>5 DEF Drop, Life!Vanish
  <2>6. CASE ProcessGone
    BY <2>6 DEF ProcessGone, Life!Vanish
  <2>7. QED
    BY <2>1, <2>2, <2>3, <2>4, <2>5, <2>6 DEF Next
<1>3. QED
  BY <1>1, <1>2, OrderInductive, PTL DEF Spec, Life!Spec
=============================================================================
