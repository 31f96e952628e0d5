----------------------------- MODULE ScopeLocks -----------------------------
(***************************************************************************)
(* What the collaboration scheduler promises, without its book-keeping: a   *)
(* request either holds the scope it declared or holds nothing, and the     *)
(* scopes held at any time are pairwise compatible.                         *)
(*                                                                          *)
(* A scope is the normalized declaration of a request: the whole binding,   *)
(* one Task Space, or one tab of one Task Space.  The two last ones take    *)
(* the lock of their Task Space, so tabs of the same space exclude each     *)
(* other and equal tab names in different spaces do not.                    *)
(***************************************************************************)
EXTENDS Naturals, FiniteSets

CONSTANTS Request,      \* request identifiers
          Space,        \* Task Space names
          Tab,          \* tab names
          Maximum       \* BridgeConfig.max_parallel_requests

BindingScope == [mode |-> "binding"]

Scope ==
    {BindingScope}
        \cup [mode: {"task_space"}, space: Space]
        \cup [mode: {"task_space_tab"}, space: Space, tab: Tab]

NoScope == [mode |-> "none"]

\* Two scopes that may be held at the same time.
Compatible(a, b) ==
    /\ a.mode # "binding"
    /\ b.mode # "binding"
    /\ a.space # b.space

-----------------------------------------------------------------------------
VARIABLE held           \* the scope each request holds, or NoScope

Holders == {r \in Request : held[r] # NoScope}

Init == held = [r \in Request |-> NoScope]

\* Compatible with every holder; there is no queue.
Admissible(scope) ==
    /\ Cardinality(Holders) < Maximum
    /\ \A r \in Holders : Compatible(scope, held[r])

Acquire(r, scope) ==
    /\ held[r] = NoScope
    /\ Admissible(scope)
    /\ held' = [held EXCEPT ![r] = scope]

Release(r) ==
    /\ held[r] # NoScope
    /\ held' = [held EXCEPT ![r] = NoScope]

Next == \E r \in Request : Release(r) \/ \E scope \in Scope : Acquire(r, scope)

Spec == Init /\ [][Next]_held
=============================================================================
