----------------------------- MODULE MCScheduler -----------------------------
(* Five requests over four Task Spaces with two tabs each, at most three at  *)
(* a time: enough for a request to be refused by the limit alone, by a Task  *)
(* Space lock, by another tab of its Task Space and by the binding lock.     *)
(* Two tabs of different Task Spaces have one key: spaceA "a", tabY "b:c",   *)
(* spaceB "a:b", tabX "c".                                                   *)
EXTENDS Scheduler

CONSTANTS r1, r2, r3, r4, r5, spaceA, spaceB, spaceC, spaceD, tabX, tabY

MCRequest == {r1, r2, r3, r4, r5}
MCSpace == {spaceA, spaceB, spaceC, spaceD}
MCTab == {tabX, tabY}
MCMaximum == 3
MCJoined(space, tab) ==
    IF space = spaceB /\ tab = tabX THEN <<spaceA, tabY>> ELSE <<space, tab>>
=============================================================================
