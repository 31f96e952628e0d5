---------------------------- MODULE LeasedSession ----------------------------
(***************************************************************************)
(* What the lease of a binding promises the session that works under it, and *)
(* the session the lease: BridgeSupervisor has the tasks and the requests     *)
(* of it and no clock, BindingLease the clock and the timers and one request. *)
(* Both do this, and nothing else, to lease, flag and session.                 *)
(***************************************************************************)
VARIABLES standing,     \* what admit says of time and health: good, low, expired
          revoked,      \* LeaseState.revoked: for the rest of the process
          flag,         \* the cancellation every execution watches
          session,      \* off, activating, dialing, up, vetting, ending, down,
                        \* resuming, closed
          work          \* a request holds the scheduler

vars == <<standing, revoked, flag, session, work>>

Init ==
    /\ standing = "good" /\ ~revoked /\ ~flag /\ ~work
    /\ session \in {"off", "activating"}

-----------------------------------------------------------------------------
(* The lease.                                                                *)

NotBetter ==
    \/ standing' = standing
    \/ standing = "good" /\ standing' = "low"
    \/ standing' = "expired"

\* Time passes, or a renewal fails.
Worsens == NotBetter /\ UNCHANGED <<revoked, flag, session, work>>

\* An extension does not undo a revocation.  Near the absolute limit it may leave
\* less than admission needs.
Extended == standing' \in {"good", "low"} /\ UNCHANGED <<revoked, flag, work>>

Renewed == Extended /\ UNCHANGED session

Activated == session = "activating" /\ Extended /\ session' = "dialing"

\* The lease first, the flag with it.
Revoked == NotBetter /\ revoked' = TRUE /\ flag' = TRUE /\ UNCHANGED <<session, work>>

-----------------------------------------------------------------------------
(* The session.                                                              *)

Moves(from, to) ==
    /\ session \in from
    /\ session' \in to
    /\ UNCHANGED <<standing, revoked, work>>

Connects == Moves({"dialing"}, {"up"}) /\ UNCHANGED flag

\* Whoever ends the session sets the flag for what is at work.
Ends == Moves({"up", "vetting"}, {"ending"}) /\ flag' = TRUE

\* The session waits for it, also if the process ends next.
Reaped == ~work /\ Moves({"ending"}, {"down", "closed"}) /\ UNCHANGED flag

MayResume == ~revoked /\ standing # "expired" /\ Moves({"down"}, {"resuming"}) /\ UNCHANGED flag

\* The only step that clears the flag while the process lasts: nothing is at work
\* that would miss it.
Resumes == ~work /\ Moves({"resuming"}, {"up"}) /\ flag' = FALSE

\* No session follows: the process ends, by itself or because it was told to.
Closes ==
    /\ session # "off" /\ session' = "closed"
    /\ revoked' \in {revoked, TRUE} /\ flag' \in {flag, TRUE}
    /\ revoked' # revoked => flag'
    /\ UNCHANGED <<standing, work>>

\* What a process keeps in memory begins and ends with it; scripts it leaves behind
\* are nobody's work.
Fresh == standing' = "good" /\ revoked' = FALSE /\ flag' = FALSE /\ work' = FALSE

Gone == Fresh /\ session' = "off"

Starts == Fresh /\ session = "off" /\ session' = "activating"

-----------------------------------------------------------------------------
(* Work.                                                                     *)

Admissible == standing = "good" /\ ~revoked /\ ~flag

\* A request is let in under a lease that is good, at once ...
Begins ==
    /\ Admissible
    /\ session = "up"
    /\ ~work /\ work' = TRUE
    /\ UNCHANGED <<standing, revoked, flag, session>>

\* ... or after its number was reserved and its payload opened, when the flag
\* is looked at once more and the lease is not.
Vets == Admissible /\ Moves({"up"}, {"vetting"}) /\ UNCHANGED flag

VettedBegins ==
    /\ session = "vetting" /\ session' = "up"
    /\ ~flag /\ ~revoked
    /\ ~work /\ work' = TRUE
    /\ UNCHANGED <<standing, revoked, flag>>

Declines == Moves({"vetting"}, {"up"}) /\ UNCHANGED flag

Finishes == work' = FALSE /\ UNCHANGED <<standing, revoked, flag, session>>

Next ==
    \/ Worsens \/ Renewed \/ Activated \/ Revoked
    \/ Connects \/ Ends \/ Reaped \/ MayResume \/ Resumes \/ Closes \/ Gone \/ Starts
    \/ Begins \/ Vets \/ VettedBegins \/ Declines \/ Finishes

Spec == Init /\ [][Next]_vars
=============================================================================
