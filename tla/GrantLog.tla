------------------------------ MODULE GrantLog ------------------------------
(***************************************************************************)
(* What the sequence ledger promises: sequence numbers are granted for      *)
(* execution in strictly increasing order, hence each at most once, across  *)
(* every restart.                                                           *)
(***************************************************************************)
EXTENDS Naturals, Sequences

CONSTANT Sequence       \* the sequence numbers a request may carry

VARIABLE log            \* the sequence numbers granted so far, in order

Init == log = <<>>

Grant(s) ==
    /\ log # <<>> => s > log[Len(log)]
    /\ log' = Append(log, s)

Next == \E s \in Sequence : Grant(s)

Spec == Init /\ [][Next]_log

StrictlyIncreasing == \A i, j \in 1..Len(log) : i < j => log[i] < log[j]
=============================================================================
