--------------------------- MODULE SchedulerProofs ---------------------------
(***************************************************************************)
(* The scheduler's summaries are exact, its guards exclude each other and   *)
(* it implements ScopeLocks, for every set of requests, spaces and tabs.    *)
(***************************************************************************)
EXTENDS Scheduler, FiniteSetTheorems, TLAPS

\* No lock key has two holders, also none that two tabs are spelled alike in.
KeysApart ==
    \A r, s \in Holders : r # s => LockKeys(scopes[r]) \cap LockKeys(scopes[s]) = {}

\* The summaries are exact and the holders finite: together with the types this
\* is inductive, and mutual exclusion is part of it because a slot is only given
\* when the keys of the newcomer are free.
IInv ==
    /\ TypeOK
    /\ IsFiniteSet(Holders)
    /\ MutualExclusion
    /\ KeysApart
    /\ SummariesExact

-----------------------------------------------------------------------------
(* Scopes and keys.                                                          *)

\* A scope is the binding, a space, or a tab of a space; NoScope is none of them.
LEMMA ScopeShape ==
    ASSUME NEW scope \in Scope
    PROVE  /\ scope # NoScope
           /\ scope.mode \in Mode
           /\ scope.mode = "binding" => scope = BindingScope
           /\ scope.mode = "binding" => LockKeys(scope) = {<<"binding">>}
           /\ scope.mode = "task_space" => LockKeys(scope) = {<<"task-space", scope.space>>}
           /\ scope.mode = "task_space_tab" =>
                LockKeys(scope) = {<<"task-space", scope.space>>, <<"tab", Joined(scope.space, scope.tab)>>}
  BY DEF Scope, NoScope, BindingScope, Mode, LockKeys,
         Locks!Scope, Locks!NoScope, Locks!BindingScope

\* A scope with a tab names a Task Space and a tab.
LEMMA TabShape ==
    ASSUME NEW scope \in Scope, scope.mode = "task_space_tab"
    PROVE  scope.space \in Space /\ scope.tab \in Tab
  <1>1. scope \in [mode: {"task_space_tab"}, space: Space, tab: Tab]
    BY DEF Scope, Locks!Scope, Locks!BindingScope
  <1>2. QED
    BY <1>1

\* Normal forms are scopes.
LEMMA NormalizedIsScope ==
    ASSUME NEW mode \in Mode, NEW space \in Space \cup BadName, NEW tab \in Tab \cup BadName
    PROVE  Normalized(mode, space, tab) \in Scope
  BY DEF Normalized, Mode, BadName, Scope, BindingScope, Locks!Scope, Locks!BindingScope

\* Two narrow scopes meet in their keys exactly when they name one Task Space or
\* are tabs that are spelled alike.
LEMMA KeysMeet ==
    ASSUME NEW a \in Scope, NEW b \in Scope, a.mode # "binding", b.mode # "binding"
    PROVE  LockKeys(a) \cap LockKeys(b) = {}
             <=> Locks!Compatible(a, b) /\ ~SpelledAlike(a, b)
  <1>1. /\ <<"task-space", a.space>> \in LockKeys(a)
        /\ <<"task-space", b.space>> \in LockKeys(b)
    BY ScopeShape DEF Mode
  <1>2. CASE a.space = b.space
    BY <1>1, <1>2 DEF Locks!Compatible
  <1>3. CASE a.space # b.space
    <2>1. CASE a.mode = "task_space_tab" /\ b.mode = "task_space_tab"
      <3>1. /\ LockKeys(a) = {<<"task-space", a.space>>, <<"tab", Joined(a.space, a.tab)>>}
            /\ LockKeys(b) = {<<"task-space", b.space>>, <<"tab", Joined(b.space, b.tab)>>}
        BY <2>1, ScopeShape
      <3>2. LockKeys(a) \cap LockKeys(b) = {}
               <=> Joined(a.space, a.tab) # Joined(b.space, b.tab)
        <4>1. ASSUME NEW x, NEW y, NEW k, NEW l
              PROVE  {<<"task-space", x>>, <<"tab", k>>} \cap {<<"task-space", y>>, <<"tab", l>>} = {}
                       <=> x # y /\ k # l
          <5>1. /\ <<"task-space", x>> = <<"task-space", y>> <=> x = y
                /\ <<"tab", k>> = <<"tab", l>> <=> k = l
                /\ <<"task-space", x>> # <<"tab", l>>
                /\ <<"tab", k>> # <<"task-space", y>>
            OBVIOUS
          <5>2. QED
            BY <5>1
        <4>2. QED
          BY <1>3, <3>1, <4>1
      <3>3. /\ a.space \in Space /\ a.tab \in Tab
            /\ b.space \in Space /\ b.tab \in Tab
        BY <2>1, TabShape
      <3>4. a.tab = b.tab => Joined(a.space, a.tab) # Joined(b.space, b.tab)
        BY <1>3, <3>3, JoinedAssumption
      <3>5. SpelledAlike(a, b) <=> Joined(a.space, a.tab) = Joined(b.space, b.tab)
        BY <1>3, <2>1, <3>4 DEF SpelledAlike
      <3>6. QED
        BY <1>3, <3>2, <3>5 DEF Locks!Compatible
    <2>2. CASE ~(a.mode = "task_space_tab" /\ b.mode = "task_space_tab")
      <3>1. LockKeys(a) = {<<"task-space", a.space>>} \/ LockKeys(b) = {<<"task-space", b.space>>}
        BY <2>2, ScopeShape DEF Mode
      <3>2. \A k \in LockKeys(a) : k = <<"task-space", a.space>> \/ k[1] = "tab"
        BY ScopeShape DEF Mode
      <3>3. \A k \in LockKeys(b) : k = <<"task-space", b.space>> \/ k[1] = "tab"
        BY ScopeShape DEF Mode
      <3>4. LockKeys(a) \cap LockKeys(b) = {}
        BY <1>3, <3>1, <3>2, <3>3
      <3>5. QED
        BY <1>3, <2>2, <3>4 DEF Locks!Compatible, SpelledAlike
    <2>3. QED
      BY <2>1, <2>2
  <1>4. QED
    BY <1>2, <1>3

\* ScopeLocks counts holders with the same operator.
LEMMA SameCardinality == \A S : Locks!Cardinality(S) = Cardinality(S)
  BY DEF Locks!Cardinality, Cardinality

-----------------------------------------------------------------------------
(* The admission decision, given exact summaries.                            *)

\* Every holder is a request with a scope.
LEMMA HoldersTyped ==
    ASSUME TypeOK
    PROVE  \A r \in Holders : r \in Request /\ scopes[r] \in Scope
  BY DEF TypeOK, Holders

\* try_acquire admits a scope exactly when the abstract scheduler would and no
\* holder is spelled alike.
LEMMA VerdictExact ==
    ASSUME IInv, NEW scope \in Scope
    PROVE  Verdict(scope) = "admitted"
             <=> Locks!Admissible(scope) /\ \A r \in Holders : ~SpelledAlike(scope, scopes[r])
  <1> Locks!Holders = Holders /\ Locks!Cardinality(Holders) = Cardinality(Holders)
    BY SameCardinality DEF Locks!Holders, Holders, NoScope
  <1> /\ active \in Nat
      /\ active = Cardinality(Holders)
      /\ bindingHeld \in BOOLEAN
      /\ bindingHeld <=> \E r \in Holders : scopes[r].mode = "binding"
      /\ keys = UNION {LockKeys(scopes[r]) : r \in Holders}
      /\ Maximum \in Nat
    BY MaximumAssumption DEF IInv, TypeOK, SummariesExact
  <1> \A r \in Holders : scopes[r] \in Scope
    BY HoldersTyped DEF IInv
  <1>1. CASE scope.mode = "binding"
    <2>1. ASSUME active = 0
          PROVE  Holders = {}
      BY <2>1, FS_EmptySet DEF IInv
    <2>2. ASSUME NEW r \in Holders
          PROVE  ~Locks!Compatible(scope, scopes[r])
      BY <1>1 DEF Locks!Compatible
    <2>3. Holders = {} => active = 0 /\ ~bindingHeld
      BY FS_EmptySet
    <2>4. \A r \in Holders : ~SpelledAlike(scope, scopes[r])
      BY <1>1 DEF SpelledAlike
    <2>5. QED
      BY <1>1, <2>1, <2>2, <2>3, <2>4, MaximumAssumption DEF Verdict, Locks!Admissible
  <1>2. CASE scope.mode # "binding"
    <2>1. LockKeys(scope) \cap keys = {}
             <=> \A r \in Holders : LockKeys(scope) \cap LockKeys(scopes[r]) = {}
      OBVIOUS
    <2>2. ASSUME ~bindingHeld
          PROVE  \A r \in Holders : LockKeys(scope) \cap LockKeys(scopes[r]) = {}
                                       <=> /\ Locks!Compatible(scope, scopes[r])
                                           /\ ~SpelledAlike(scope, scopes[r])
      BY <1>2, <2>2, KeysMeet
    <2>3. ASSUME bindingHeld
          PROVE  \E r \in Holders : ~Locks!Compatible(scope, scopes[r])
      BY <2>3 DEF Locks!Compatible
    <2>4. QED
      BY <1>2, <2>1, <2>2, <2>3 DEF Verdict, Locks!Admissible
  <1>3. QED
    BY <1>1, <1>2

-----------------------------------------------------------------------------
(* Preservation.                                                             *)

\* An empty scheduler satisfies the invariant.
LEMMA InitIInv == Init => IInv
  <1> SUFFICES ASSUME Init PROVE IInv
    OBVIOUS
  <1>1. Holders = {}
    BY DEF Init, Holders
  <1>2. TypeOK
    <2>1. scopes \in [Request -> Scope \cup {NoScope}]
      BY DEF Init
    <2>2. active \in 0..Maximum
      BY MaximumAssumption DEF Init
    <2>3. bindingHeld \in BOOLEAN /\ keys \subseteq UNION {LockKeys(scope) : scope \in Scope}
      BY DEF Init
    <2>4. QED
      BY <2>1, <2>2, <2>3 DEF TypeOK
  <1>3. SummariesExact
    BY <1>1, FS_EmptySet DEF Init, SummariesExact
  <1>4. QED
    BY <1>1, <1>2, <1>3, FS_EmptySet DEF IInv, MutualExclusion, KeysApart

\* An admitted request is added to the summaries and excludes nobody.
LEMMA TryAcquirePreserves ==
    ASSUME IInv, NEW q \in Request, NEW scope \in Scope, TryAcquire(q, scope)
    PROVE  IInv'
  <1> DEFINE added == LockKeys(scope)
  <1>1. Locks!Admissible(scope)
    BY VerdictExact DEF TryAcquire
  <1>2. /\ scopes[q] = NoScope
        /\ scopes' = [scopes EXCEPT ![q] = scope]
        /\ scopes \in [Request -> Scope \cup {NoScope}]
        /\ scope # NoScope
    BY ScopeShape DEF TryAcquire, IInv, TypeOK
  <1>3. Holders' = Holders \cup {q} /\ q \notin Holders
    BY <1>2 DEF Holders
  <1>4. \A r \in Holders : scopes'[r] = scopes[r] /\ r # q
    BY <1>2, <1>3 DEF Holders
  <1>5. scopes'[q] = scope
    BY <1>2
  <1>6. Cardinality(Holders') = Cardinality(Holders) + 1 /\ IsFiniteSet(Holders')
    BY <1>3, FS_AddElement DEF IInv
  <1>7. SummariesExact'
    <2>1. active' = Cardinality(Holders')
      BY <1>6 DEF IInv, SummariesExact, TryAcquire
    <2>2. bindingHeld' <=> \E r \in Holders' : scopes'[r].mode = "binding"
      BY <1>3, <1>4, <1>5 DEF IInv, SummariesExact, TryAcquire
    <2>3. keys' = UNION {LockKeys(scopes'[r]) : r \in Holders'}
      <3>1. keys' = keys \cup added
        BY DEF TryAcquire
      <3>2. keys = UNION {LockKeys(scopes[r]) : r \in Holders}
        BY DEF IInv, SummariesExact
      <3>3. \A r \in Holders : LockKeys(scopes'[r]) = LockKeys(scopes[r])
        BY <1>4
      <3>4. LockKeys(scopes'[q]) = added
        BY <1>5
      <3>5. QED
        BY <3>1, <3>2, <3>3, <3>4, <1>3
    <2>4. QED
      BY <2>1, <2>2, <2>3 DEF SummariesExact
  <1>8. MutualExclusion'
    <2>1. \A r \in Holders : Locks!Compatible(scope, scopes[r])
      BY <1>1 DEF Locks!Admissible, Locks!Holders, Holders, NoScope
    <2>2. \A r \in Holders : Locks!Compatible(scopes[r], scope)
      BY <2>1 DEF Locks!Compatible
    <2>3. \A r, s \in Holders : r # s => Locks!Compatible(scopes[r], scopes[s])
      BY DEF IInv, MutualExclusion
    <2>4. \A r, s \in Holders' : r # s => Locks!Compatible(scopes'[r], scopes'[s])
      BY <1>3, <1>4, <1>5, <2>1, <2>2, <2>3
    <2>5. QED
      BY <2>4 DEF MutualExclusion, Locks!Compatible
  <1>9. TypeOK'
    <2>1. active < Maximum
      <3>1. Locks!Holders = Holders
        BY DEF Locks!Holders, Holders, NoScope
      <3>2. QED
        BY <1>1, <3>1, SameCardinality DEF Locks!Admissible, IInv, SummariesExact
    <2>2. active' \in 0..Maximum
      BY <2>1, MaximumAssumption DEF TryAcquire, IInv, TypeOK
    <2>3. bindingHeld' \in BOOLEAN
      BY DEF TryAcquire
    <2>4. keys' \subseteq UNION {LockKeys(sc) : sc \in Scope}
      BY DEF TryAcquire, IInv, TypeOK
    <2>5. scopes' \in [Request -> Scope \cup {NoScope}]
      BY <1>2
    <2>6. QED
      BY <2>2, <2>3, <2>4, <2>5 DEF TypeOK
  <1>10. KeysApart'
    <2>1. \A r \in Holders : scopes[r].mode # "binding"
      BY <1>1 DEF Locks!Admissible, Locks!Holders, Locks!Compatible, Holders, NoScope
    <2>2. Holders # {} => scope.mode # "binding"
      BY <1>1 DEF Locks!Admissible, Locks!Holders, Locks!Compatible, Holders, NoScope
    <2>3. \A r \in Holders : ~SpelledAlike(scope, scopes[r]) /\ Locks!Compatible(scope, scopes[r])
      BY <1>1, VerdictExact DEF TryAcquire, Locks!Admissible, Locks!Holders, Holders, NoScope
    <2>4. \A r \in Holders : LockKeys(scope) \cap LockKeys(scopes[r]) = {}
      BY <2>1, <2>2, <2>3, KeysMeet, HoldersTyped DEF IInv
    <2>5. \A r, s \in Holders : r # s => LockKeys(scopes[r]) \cap LockKeys(scopes[s]) = {}
      BY DEF IInv, KeysApart
    <2>6. \A r, s \in Holders' : r # s => LockKeys(scopes'[r]) \cap LockKeys(scopes'[s]) = {}
      BY <1>3, <1>4, <1>5, <2>4, <2>5
    <2>7. QED
      BY <2>6 DEF KeysApart, LockKeys
  <1>11. QED
    BY <1>6, <1>7, <1>8, <1>9, <1>10 DEF IInv

\* A dropped guard takes exactly its own share out of the summaries.
LEMMA DropGuardPreserves ==
    ASSUME IInv, NEW q \in Request, DropGuard(q)
    PROVE  IInv'
  <1>1. /\ scopes' = [scopes EXCEPT ![q] = NoScope]
        /\ scopes \in [Request -> Scope \cup {NoScope}]
        /\ q \in Holders
        /\ scopes[q] \in Scope
    BY HoldersTyped DEF DropGuard, IInv, TypeOK, Holders
  <1>2. Holders' = Holders \ {q}
    BY <1>1 DEF Holders
  <1>3. \A r \in Holders' : scopes'[r] = scopes[r] /\ scopes[r] \in Scope /\ r \in Holders /\ r # q
    BY <1>1, <1>2 DEF Holders
  <1>4. \A r \in Holders' : Locks!Compatible(scopes[q], scopes[r])
    BY <1>1, <1>3 DEF IInv, MutualExclusion
  <1>5. Cardinality(Holders') = Cardinality(Holders) - 1 /\ IsFiniteSet(Holders')
    BY <1>1, <1>2, FS_RemoveElement DEF IInv
  <1>6. SummariesExact'
    <2>1. active' = Cardinality(Holders')
      <3>1. active = Cardinality(Holders) /\ active \in Nat
        BY DEF IInv, SummariesExact, TypeOK
      <3>2. active # 0
        BY <1>1, <3>1, FS_EmptySet DEF IInv
      <3>3. QED
        BY <1>5, <3>1, <3>2 DEF DropGuard
    <2>2. bindingHeld' <=> \E r \in Holders' : scopes'[r].mode = "binding"
      <3>1. \A r \in Holders' : scopes[r].mode # "binding" /\ scopes[q].mode # "binding"
        BY <1>4 DEF Locks!Compatible
      <3>2. bindingHeld => \E r \in Holders : scopes[r].mode = "binding"
        BY DEF IInv, SummariesExact
      <3>3. bindingHeld' <=> bindingHeld /\ scopes[q].mode # "binding"
        BY DEF DropGuard
      <3>4. QED
        BY <1>2, <1>3, <3>1, <3>2, <3>3
    <2>3. keys' = UNION {LockKeys(scopes'[r]) : r \in Holders'}
      <3>1. \A r \in Holders' : LockKeys(scopes[q]) \cap LockKeys(scopes[r]) = {}
        BY <1>1, <1>3 DEF IInv, KeysApart
      <3>2. keys = UNION {LockKeys(scopes[r]) : r \in Holders}
        BY DEF IInv, SummariesExact
      <3>3. keys' = keys \ LockKeys(scopes[q])
        BY DEF DropGuard
      <3>4. \A r \in Holders' : LockKeys(scopes'[r]) = LockKeys(scopes[r])
        BY <1>3
      <3>5. QED
        BY <1>1, <1>2, <3>1, <3>2, <3>3, <3>4
    <2>4. QED
      BY <2>1, <2>2, <2>3 DEF SummariesExact
  <1>7. MutualExclusion'
    BY <1>3 DEF IInv, MutualExclusion, Locks!Compatible
  <1>8. TypeOK'
    BY <1>1, MaximumAssumption DEF IInv, TypeOK, DropGuard
  <1>9. KeysApart'
    BY <1>3 DEF IInv, KeysApart, LockKeys
  <1>10. QED
    BY <1>5, <1>6, <1>7, <1>8, <1>9 DEF IInv

\* A request refused, a guard created and a guard dropped preserve it.
LEMMA NextIInv == IInv /\ [Next]_vars => IInv'
  <1> SUFFICES ASSUME IInv, [Next]_vars PROVE IInv'
    OBVIOUS
  <1>1. ASSUME NEW q \in Request, DropGuard(q)
        PROVE  IInv'
    BY <1>1, DropGuardPreserves
  <1>2. ASSUME NEW q \in Request, NEW mode \in Mode, NEW space \in Space \cup BadName,
               NEW tab \in Tab \cup BadName, TryAcquire(q, Normalized(mode, space, tab))
        PROVE  IInv'
    BY <1>2, NormalizedIsScope, TryAcquirePreserves
  <1>3. CASE UNCHANGED vars
    BY <1>3 DEF vars, IInv, TypeOK, Holders, MutualExclusion, KeysApart, SummariesExact,
                Locks!Compatible
  <1>4. QED
    BY <1>1, <1>2, <1>3 DEF Next

-----------------------------------------------------------------------------
\* The invariant holds in every reachable state.
LEMMA Inductive == Spec => []IInv
  BY InitIInv, NextIInv, PTL DEF Spec

\* Every summary stays in its range and every guard holds a normalized scope.
THEOREM TypeCorrect == Spec => []TypeOK
  <1>1. IInv => TypeOK
    BY DEF IInv
  <1>2. QED
    BY <1>1, Inductive, PTL

\* Whatever the number of requests, two live guards are never in the same Task
\* Space and a binding guard is alone.
THEOREM Exclusion == Spec => []MutualExclusion
  <1>1. IInv => MutualExclusion
    BY DEF IInv
  <1>2. QED
    BY <1>1, Inductive, PTL

\* No lock and no slot leaks: the mutex-protected summaries equal what the live
\* guards hold.
THEOREM Summaries == Spec => []SummariesExact
  <1>1. IInv => SummariesExact
    BY DEF IInv
  <1>2. QED
    BY <1>1, Inductive, PTL

\* The decision taken from the summaries is the decision the holders justify, but
\* for a tab that is spelled like a holder of another Task Space.
THEOREM Admission == Spec => []AdmissionExact
  <1>1. IInv => AdmissionExact
    BY VerdictExact DEF AdmissionExact
  <1>2. QED
    BY <1>1, Inductive, PTL

\* The scheduler implements the abstract lock table.
THEOREM Refinement == Spec => ImplementsScopeLocks
  <1>1. Init => Locks!Init
    BY DEF Init, Locks!Init, NoScope
  <1>2. IInv /\ [Next]_vars => [Locks!Next]_scopes
    <2> SUFFICES ASSUME IInv, [Next]_vars PROVE [Locks!Next]_scopes
      OBVIOUS
    <2>1. ASSUME NEW q \in Request, DropGuard(q)
          PROVE  Locks!Next
      BY <2>1 DEF DropGuard, Locks!Next, Locks!Release, NoScope
    <2>2. ASSUME NEW q \in Request, NEW scope \in Scope, TryAcquire(q, scope)
          PROVE  Locks!Next
      BY <2>2, VerdictExact DEF TryAcquire, Locks!Next, Locks!Acquire, NoScope, Scope
    <2>3. CASE UNCHANGED vars
      BY <2>3 DEF vars
    <2>4. QED
      BY <2>1, <2>2, <2>3, NormalizedIsScope DEF Next
  <1>3. QED
    BY <1>1, <1>2, Inductive, PTL DEF Spec, ImplementsScopeLocks, Locks!Spec

-----------------------------------------------------------------------------
(* What the Bridge takes from the scheduler.  It serves the scripts of one   *)
(* binding, whose frames name the dedicated Task Space of the binding or      *)
(* take the binding lock (InnerExecuteRequest::validate).                    *)

\* At most one guard is alive, and a request is admitted exactly when none is.
ServesOne ==
    /\ \A r, s \in Holders : r = s
    /\ \A scope \in Scope : Verdict(scope) = "admitted" <=> Holders = {}

\* With one Task Space any two scopes exclude each other, so that the limit of
\* parallel requests never counts and try_acquire is a test of idleness: the guard
\* of BridgeSupervisor's Admit.
THEOREM OneSpaceServesOne ==
    ASSUME NEW home, Space = {home}
    PROVE  Spec => []ServesOne
  <1>1. \A a, b \in Scope : ~Locks!Compatible(a, b)
    BY DEF Scope, Locks!Scope, Locks!BindingScope, Locks!Compatible
  <1>2. IInv => ServesOne
    <2> SUFFICES ASSUME IInv PROVE ServesOne
      OBVIOUS
    <2>1. \A r \in Holders : scopes[r] \in Scope
      BY DEF IInv, TypeOK, Holders
    <2>2. \A r, s \in Holders : r = s
      BY <1>1, <2>1 DEF IInv, MutualExclusion
    <2>3. ASSUME NEW scope \in Scope
          PROVE  Verdict(scope) = "admitted" <=> Holders = {}
      <3>0. ASSUME NEW r \in Holders
            PROVE  ~SpelledAlike(scope, scopes[r])
        BY <2>1 DEF SpelledAlike, Scope, BindingScope, Locks!Scope, Locks!BindingScope
      <3>1. Verdict(scope) = "admitted" <=> Locks!Admissible(scope)
        BY <3>0, VerdictExact
      <3>2. Locks!Holders = Holders /\ Locks!Cardinality(Holders) = Cardinality(Holders)
        BY SameCardinality DEF Locks!Holders, Holders, NoScope
      <3>3. Locks!Admissible(scope) => Holders = {}
        BY <1>1, <2>1, <3>2 DEF Locks!Admissible
      <3>4. Holders = {} => Locks!Admissible(scope)
        BY <3>2, FS_EmptySet, MaximumAssumption DEF Locks!Admissible
      <3>5. QED
        BY <3>1, <3>3, <3>4
    <2>4. QED
      BY <2>2, <2>3 DEF ServesOne
  <1>3. QED
    BY <1>2, Inductive, PTL
=============================================================================
