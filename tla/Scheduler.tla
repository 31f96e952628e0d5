------------------------------ MODULE Scheduler ------------------------------
(***************************************************************************)
(* crates/protocol/src/scheduler.rs: the immediate-fail scheduler.          *)
(*                                                                          *)
(* The code never looks at the other holders when it admits a request.  It  *)
(* keeps three summaries under one mutex -- a count, a flag and a set of    *)
(* lock keys -- that every PermitGuard adds to when it is created and       *)
(* subtracts from when it is dropped.  What has to be shown is that the     *)
(* summaries always describe the guards that are alive.                     *)
(***************************************************************************)
EXTENDS Naturals, FiniteSets

CONSTANTS Request, Space, Tab, Maximum,
          Joined(_, _)  \* Joined(space, tab) is the text "{space}:{tab}"

VARIABLES active,       \* SchedulerInner.active
          bindingHeld,  \* SchedulerInner.binding_held
          keys,         \* SchedulerInner.keys
          scopes        \* the scope each live PermitGuard was created with

vars == <<active, bindingHeld, keys, scopes>>

\* The abstract scheduler: its variable is what the live guards declare.
Locks == INSTANCE ScopeLocks WITH held <- scopes

\* Scheduler::new refuses 0 and anything above 4.
ASSUME MaximumAssumption == Maximum \in 1..4

\* A name may contain ":" (valid_scope), so two pairs of names may be joined to
\* one text: "a" with "b:c", and "a:b" with "c".  Not if they have a part in common.
ASSUME JoinedAssumption ==
    \A s, t \in Space, x, y \in Tab :
        Joined(s, x) = Joined(t, y) /\ (s = t \/ x = y) => s = t /\ x = y

Scope == Locks!Scope
NoScope == Locks!NoScope
BindingScope == Locks!BindingScope

-----------------------------------------------------------------------------
(* RequestScope::normalized.  The raw declaration carries a mode and two     *)
(* optional names; "*" stands for any name with a wildcard, "" for a name   *)
(* that is missing, blank, too long or holds a control character.           *)

BadName == {"*", ""}

Normalized(mode, space, tab) ==
    IF \/ mode = "binding"
       \/ space \in BadName
       \/ mode = "task_space_tab" /\ tab \in BadName
    THEN BindingScope
    ELSE IF mode = "task_space"
         THEN [mode |-> mode, space |-> space]
         ELSE [mode |-> mode, space |-> space, tab |-> tab]

\* Slip: the key of a tab is its own name, without the Task Space.
LockKeysOfTabName(scope) ==
    CASE scope.mode = "binding"        -> {<<"binding">>}
      [] scope.mode = "task_space"     -> {<<"task-space", scope.space>>}
      [] scope.mode = "task_space_tab" -> {<<"task-space", scope.space>>, <<"tab", scope.tab>>}
      [] OTHER                         -> {}

\* lock_keys: a tab takes the lock of its Task Space first, then its own.  The first
\* element of a key is its prefix; no text with one prefix is one with another.
LockKeys(scope) ==
    CASE scope.mode = "binding"        -> {<<"binding">>}
      [] scope.mode = "task_space"     -> {<<"task-space", scope.space>>}
      [] scope.mode = "task_space_tab" -> {<<"task-space", scope.space>>,
                                           <<"tab", Joined(scope.space, scope.tab)>>}
      [] OTHER                         -> {}

-----------------------------------------------------------------------------
Init ==
    /\ active = 0
    /\ bindingHeld = FALSE
    /\ keys = {}
    /\ scopes = [r \in Request |-> NoScope]

\* Slip: the parallelism limit is one too high.
VerdictOneTooMany(scope) ==
    IF active > Maximum
    THEN "limit_reached"
    ELSE IF \/ scope.mode = "binding" /\ (active # 0 \/ bindingHeld)
            \/ scope.mode # "binding" /\ (bindingHeld \/ LockKeys(scope) \cap keys # {})
         THEN "conflict"
         ELSE "admitted"

\* The outcome try_acquire computes before it changes anything.
Verdict(scope) ==
    IF active >= Maximum
    THEN "limit_reached"
    ELSE IF \/ scope.mode = "binding" /\ (active # 0 \/ bindingHeld)
            \/ scope.mode # "binding" /\ (bindingHeld \/ LockKeys(scope) \cap keys # {})
         THEN "conflict"
         ELSE "admitted"

\* Scheduler::try_acquire, when it returns a guard.
TryAcquire(r, scope) ==
    /\ scopes[r] = NoScope
    /\ Verdict(scope) = "admitted"
    /\ keys' = keys \cup LockKeys(scope)
    /\ bindingHeld' = (bindingHeld \/ scope.mode = "binding")
    /\ active' = active + 1
    /\ scopes' = [scopes EXCEPT ![r] = scope]

\* Slip: the guard gives its locks back but not its slot.
DropGuardKeepingSlot(r) ==
    /\ scopes[r] # NoScope
    /\ keys' = keys \ LockKeys(scopes[r])
    /\ bindingHeld' = (bindingHeld /\ scopes[r].mode # "binding")
    /\ scopes' = [scopes EXCEPT ![r] = NoScope]
    /\ UNCHANGED active

\* Drop for PermitGuard; the count saturates at zero.
DropGuard(r) ==
    /\ scopes[r] # NoScope
    /\ keys' = keys \ LockKeys(scopes[r])
    /\ bindingHeld' = (bindingHeld /\ scopes[r].mode # "binding")
    /\ active' = IF active = 0 THEN 0 ELSE active - 1
    /\ scopes' = [scopes EXCEPT ![r] = NoScope]

\* A request comes with a raw declaration and is scheduled under its normal form.
Mode == {"binding", "task_space", "task_space_tab"}

Next ==
    \E r \in Request :
        \/ DropGuard(r)
        \/ \E mode \in Mode, space \in Space \cup BadName, tab \in Tab \cup BadName :
              TryAcquire(r, Normalized(mode, space, tab))

Spec == Init /\ [][Next]_vars

-----------------------------------------------------------------------------
Holders == {r \in Request : scopes[r] # NoScope}

\* Type invariant: the summaries of SchedulerInner and the scopes of the guards;
\* the parallelism limit is never exceeded.
TypeOK ==
    /\ active \in 0..Maximum
    /\ bindingHeld \in BOOLEAN
    /\ keys \subseteq UNION {LockKeys(scope) : scope \in Scope}
    /\ scopes \in [Request -> Scope \cup {NoScope}]

\* Guards alive at the same time are compatible: the binding lock is alone, and
\* no two requests are inside the same Task Space (test
\* scopes_conflict_immediately_and_release_after_drop).
MutualExclusion ==
    \A r, s \in Holders : r # s => Locks!Compatible(scopes[r], scopes[s])

\* The three summaries describe the live guards exactly, so nothing leaks when
\* a guard is dropped: neither a lock nor a slot of the parallelism limit.
SummariesExact ==
    /\ active = Cardinality(Holders)
    /\ bindingHeld <=> \E r \in Holders : scopes[r].mode = "binding"
    /\ keys = UNION {LockKeys(scopes[r]) : r \in Holders}

\* Tabs of different Task Spaces, with different names, that have one lock key.
SpelledAlike(a, b) ==
    /\ a.mode = "task_space_tab" /\ b.mode = "task_space_tab"
    /\ a.space # b.space /\ a.tab # b.tab
    /\ Joined(a.space, a.tab) = Joined(b.space, b.tab)

\* try_acquire decides from the summaries what the abstract scheduler decides
\* from the holders: it serves nobody it should refuse, and refuses nobody it
\* could serve but for one case, a tab whose key a tab of another Task Space holds.
\* In particular equal tab names of different Task Spaces do not conflict (test
\* same_tab_name_in_different_task_spaces_does_not_conflict).
AdmissionExact ==
    \A scope \in Scope :
        Verdict(scope) = "admitted" <=>
            /\ Locks!Admissible(scope)
            /\ \A r \in Holders : ~SpelledAlike(scope, scopes[r])

\* The scheduler implements the abstract one.
ImplementsScopeLocks == Locks!Spec
=============================================================================
