---------------------------- MODULE BindingLease ----------------------------
(***************************************************************************)
(* The clock of a binding (lease.rs, supervisor_remote.rs, relay_session.rs    *)
(* run_lease_observer_loop, supervisor_control.rs, local_socket.rs).          *)
(*                                                                          *)
(* An outbound Bridge keeps a lease that the Server extends while the lease   *)
(* observer asks for it every renew interval; a failure opens one period of   *)
(* grace, in which it asks again and again.  A local Bridge is never renewed:  *)
(* it hands out permits, each good for one script and a short time.            *)
(*                                                                          *)
(* now counts half seconds: the Bridge compares leases in whole seconds        *)
(* (now_seconds), but permits and timers in milliseconds.  The Server's clock  *)
(* is the Bridge's, and timers that are due fire before time passes.           *)
(***************************************************************************)
EXTENDS Naturals

CONSTANTS LeaseSeconds,     \* DEFAULT_LEASE_SECONDS, 60
          RenewInterval,    \* LEASE_RENEW_INTERVAL_SECONDS, 20
          FailureGrace,     \* LEASE_RENEW_FAILURE_GRACE_SECONDS, 10
          MinRemaining,     \* LEASE_ADMISSION_MIN_REMAINING_SECONDS, 20
          AbsoluteTtl,      \* ABSOLUTE_BINDING_TTL_SECONDS, 28 800
          ExecuteMax,       \* MAX_EXECUTE_TIMEOUT_MS, 120 s
          StartTimeout,     \* CONTROL_API_TIMEOUT, 15 s
          RequestTimeout,   \* how long the observer awaits an answer, 10 s
          RetryDelay,       \* from a failure to the next request, 1 s
          PermitLifetime,   \* issue_permit, 20 s
          Limits,           \* the absolute limits the Server may have set
          MaxPermits,       \* bound: permits issued
          MaxTime           \* bound: half seconds

ASSUME TimingAssumption ==
    /\ LeaseSeconds \in Nat \ {0} /\ RenewInterval \in Nat \ {0} /\ FailureGrace \in Nat \ {0}
    /\ MinRemaining \in Nat \ {0} /\ AbsoluteTtl \in Nat \ {0} /\ ExecuteMax \in Nat \ {0}
    /\ StartTimeout \in Nat \ {0} /\ RequestTimeout \in Nat \ {0} /\ RetryDelay \in Nat \ {0}
    /\ PermitLifetime \in Nat \ {0}
    /\ Limits \subseteq Nat
    /\ MaxPermits \in Nat /\ MaxTime \in Nat
    /\ RequestTimeout <= StartTimeout
    /\ RequestTimeout + RenewInterval + RequestTimeout + MinRemaining <= LeaseSeconds
    /\ PermitLifetime <= MinRemaining

Ticks(seconds) == 2 * seconds
Second(time) == time \div 2

VARIABLES
    now,
    mode,           \* run_outbound or run_unix_socket
    limit,          \* the absolute limit as the Server knows it
    until,          \* lease_until
    absolute,       \* absolute_ttl_until
    health,
    grace,          \* grace_until; 0 is none
    revoked,
    cancelled,      \* cancel_tx
    observer,       \* the activation, then the lease observer
    due,            \* when its sleep or its request ends
    answer,         \* when the Server extended the lease, the answer being under way
    session,        \* the relay loop
    script,         \* one execution
    started,        \* when it was
    permits,        \* issued_permits
    next,           \* next_sequence
    expires,        \* expires_at_unix_ms of each permit
    renewed,        \* when the Server extended the lease that is held
    taken           \* when the Bridge learned of it

leaseVars == <<until, absolute, health, grace, revoked, renewed, taken>>
observerVars == <<observer, due, answer>>
scriptVars == <<script, started>>
permitVars == <<permits, next, expires>>
vars == <<now, mode, limit, leaseVars, cancelled, observerVars, session, scriptVars, permitVars>>

Armed == {"starting", "sleeping", "asking"}
Start == Ticks(1)

\* The type invariant: the shape of LeaseState and of the tasks around it; a grace
\* deadline is there exactly in the grace period, and no armed timer is overdue.
TypeOK ==
    /\ now \in Nat /\ limit \in Limits
    /\ mode \in {"outbound", "local"}
    /\ until \in Nat /\ absolute \in Nat /\ grace \in Nat
    /\ health \in {"healthy", "grace", "expired"}
    /\ (health = "grace") <=> (grace # 0)
    /\ revoked \in BOOLEAN /\ cancelled \in BOOLEAN
    /\ observer \in Armed \cup {"over", "none"}
    /\ due \in Nat /\ answer \in Nat
    /\ observer \in Armed => now <= due
    /\ session \in {"new", "up", "ending", "down", "resuming", "over", "none"}
    /\ script \in {"none", "admitted", "running"}
    /\ started \in Nat
    /\ permits \subseteq 1..MaxPermits
    /\ next \in 0..MaxPermits
    /\ expires \in [1..MaxPermits -> Nat]
    /\ renewed \in Nat /\ taken \in Nat

\* BridgeSupervisor::new makes a lease of its own; the outbound Bridge has asked
\* for the real one.
Init ==
    /\ now = Start
    /\ mode \in {"outbound", "local"}
    /\ limit \in Limits
    /\ until = Second(Start) + LeaseSeconds
    /\ absolute = Second(Start) + AbsoluteTtl
    /\ health = "healthy" /\ grace = 0 /\ revoked = FALSE
    /\ cancelled = FALSE
    /\ observer = IF mode = "outbound" THEN "starting" ELSE "none"
    /\ due = Start + Ticks(StartTimeout)
    /\ answer = 0
    /\ session = IF mode = "outbound" THEN "new" ELSE "none"
    /\ script = "none" /\ started = 0
    /\ permits = {} /\ next = 0 /\ expires = [p \in 1..MaxPermits |-> 0]
    /\ renewed = Start /\ taken = Start

-----------------------------------------------------------------------------
(* The lease.                                                                *)

\* Slip: admit forgets the minimum.
AdmitToTheEnd == ~revoked /\ health = "healthy" /\ Second(now) < until /\ Second(now) < absolute

\* LeaseState::admit allows a request.
Admits ==
    /\ ~revoked /\ health = "healthy"
    /\ Second(now) < until /\ Second(now) < absolute
    /\ Second(now) + MinRemaining <= until

\* Allowed or RenewalRequired.
Reconnects == ~revoked /\ Second(now) < until /\ Second(now) < absolute

Revoke ==
    /\ revoked' = TRUE
    /\ health' = "expired"
    /\ grace' = 0
    /\ permits' = {}
    /\ cancelled' = TRUE
    /\ UNCHANGED <<until, absolute, renewed, taken, next, expires>>

\* LeaseState::renew; the Server is taken to answer with it.
Granted == IF Second(answer) + LeaseSeconds < limit THEN Second(answer) + LeaseSeconds ELSE limit

\* parse_connected_response takes no lease that is over.
Usable == answer # 0 /\ Second(now) < Granted /\ Second(now) < limit

\* Slip: the grace deadline is left there.
UpdateLeaseKeepingGrace ==
    /\ until' = Granted
    /\ absolute' = limit
    /\ health' = "healthy"
    /\ renewed' = answer /\ taken' = now
    /\ UNCHANGED <<grace, revoked>>

\* update_lease: it leaves revoked as it is.
UpdateLease ==
    /\ until' = Granted
    /\ absolute' = limit
    /\ health' = "healthy"
    /\ grace' = 0
    /\ renewed' = answer /\ taken' = now
    /\ UNCHANGED revoked

Sleep(seconds) ==
    /\ observer' = "sleeping"
    /\ due' = now + Ticks(seconds)
    /\ answer' = 0

EndObserver == observer' = "over" /\ answer' = 0 /\ UNCHANGED due

\* Slip: every failure opens a new period of grace.
GraceDeadlineAnew == Second(now) + FailureGrace

\* The first failure sets the deadline.
GraceDeadline == IF health = "grace" THEN grace ELSE Second(now) + FailureGrace

\* mark_renewal_failed.  (It revokes the lease and sets the flag; an outbound Bridge
\* has no permits to clear.)
RenewalMarked ==
    \/ /\ revoked
       /\ EndObserver
       /\ UNCHANGED <<leaseVars, cancelled, permitVars>>
    \/ /\ ~revoked
       /\ Second(now) >= absolute \/ Second(now) >= GraceDeadline
       /\ Revoke
       /\ EndObserver
    \/ /\ ~revoked
       /\ Second(now) < absolute /\ Second(now) < GraceDeadline
       /\ health' = "grace"
       /\ grace' = GraceDeadline
       /\ Sleep(RetryDelay)
       /\ UNCHANGED <<until, absolute, revoked, renewed, taken, cancelled, permitVars>>

-----------------------------------------------------------------------------
(* Activation and the lease observer.                                        *)

\* The Server extends the lease while the request is there.
ServerRenews ==
    /\ observer \in {"starting", "asking"}
    /\ answer = 0
    /\ Second(now) < limit
    /\ answer' = now
    /\ UNCHANGED <<now, mode, limit, leaseVars, cancelled, observer, due, session, scriptVars,
                   permitVars>>

\* run_outbound: connected or renew_binding was answered.
Activate ==
    /\ observer = "starting"
    /\ Usable
    /\ UpdateLease
    /\ Sleep(RenewInterval)
    /\ UNCHANGED <<now, mode, limit, cancelled, session, scriptVars, permitVars>>

\* Anything else ends the process.
ActivationFails ==
    /\ observer = "starting"
    /\ EndObserver
    /\ cancelled' = TRUE
    /\ session' = "over"
    /\ UNCHANGED <<now, mode, limit, leaseVars, scriptVars, permitVars>>

\* Slip: the request ends with the client's own timeout only.
AskForLongerThanLease == observer' = "asking" /\ due' = now + Ticks(StartTimeout)

Ask == observer' = "asking" /\ due' = now + Ticks(RequestTimeout)

\* The interval is over and the policy is still the one the Bridge serves.
AskForRenewal ==
    /\ observer = "sleeping"
    /\ now = due
    /\ Ask
    /\ UNCHANGED <<now, mode, limit, leaseVars, cancelled, answer, session, scriptVars, permitVars>>

\* verify_policy_snapshot fails.
PolicyChanged ==
    /\ observer = "sleeping"
    /\ now = due
    /\ Revoke
    /\ EndObserver
    /\ UNCHANGED <<now, mode, limit, session, scriptVars>>

RenewalSucceeds ==
    /\ observer = "asking"
    /\ Usable
    /\ UpdateLease
    /\ Sleep(RenewInterval)
    /\ UNCHANGED <<now, mode, limit, cancelled, session, scriptVars, permitVars>>

\* No connection, an answer 5xx, one that cannot be used, or none in time.
RenewalFails ==
    /\ observer = "asking"
    /\ RenewalMarked
    /\ UNCHANGED <<now, mode, limit, session, scriptVars>>

\* Any other answer (is_retryable_control_error).
RenewalRefused ==
    /\ observer = "asking"
    /\ Revoke
    /\ EndObserver
    /\ UNCHANGED <<now, mode, limit, session, scriptVars>>

\* The device-peer observer or the Task Space monitor revokes.
RevokedElsewhere ==
    /\ mode = "outbound"
    /\ observer # "starting"
    /\ ~revoked
    /\ Revoke
    /\ UNCHANGED <<now, mode, limit, observerVars, session, scriptVars>>

-----------------------------------------------------------------------------
(* The relay loop.                                                           *)

SessionChanges(from, to) ==
    /\ session = from
    /\ session' = to
    /\ UNCHANGED <<now, mode, limit, leaseVars, observerVars, scriptVars, permitVars>>

\* The first session needs no resume.
ConnectFirst ==
    /\ observer # "starting"
    /\ SessionChanges("new", "up")
    /\ UNCHANGED cancelled

\* A lost connection, a bad frame, or the flag: cancel_and_reap.
SessionEnds == SessionChanges("up", "ending") /\ cancelled' = TRUE

SessionReaped == script = "none" /\ SessionChanges("ending", "down") /\ UNCHANGED cancelled

\* resume_after_reconnect looks at the lease under its mutex ...
ResumeCheck == Reconnects /\ SessionChanges("down", "resuming") /\ UNCHANGED cancelled

\* ... and clears the flag after it has let go of it.
ResumeClear == SessionChanges("resuming", "up") /\ cancelled' = FALSE

\* No ticket, another policy, or a lease that is over: run_outbound ends.
BridgeEnds ==
    /\ session \in {"new", "down"}
    /\ observer # "starting"
    /\ session' = "over"
    /\ EndObserver
    /\ UNCHANGED <<now, mode, limit, leaseVars, cancelled, scriptVars, permitVars>>

-----------------------------------------------------------------------------
(* Executions.                                                               *)

\* prepare_remote_execution.
PrepareRemote ==
    /\ session = "up"
    /\ script = "none"
    /\ ~cancelled
    /\ Admits
    /\ script' = "admitted"
    /\ UNCHANGED <<now, mode, limit, leaseVars, cancelled, observerVars, session, started, permitVars>>

\* issue_permit.
IssuePermit ==
    /\ mode = "local"
    /\ ~cancelled
    /\ Admits
    /\ next < MaxPermits
    /\ next' = next + 1
    /\ permits' = permits \cup {next + 1}
    /\ expires' = [expires EXCEPT ![next + 1] = now + Ticks(PermitLifetime)]
    /\ UNCHANGED <<now, mode, limit, leaseVars, cancelled, observerVars, session, scriptVars>>

Unused(p) ==
    /\ mode = "local"
    /\ ~cancelled /\ ~revoked
    /\ p \in permits
    /\ permits' = permits \ {p}
    /\ UNCHANGED <<now, mode, limit, leaseVars, cancelled, observerVars, session, started, next,
                   expires>>

\* execute takes the permit out of the table; nothing looks at the lease again.
ExecutePermit(p) ==
    /\ Unused(p)
    /\ now < expires[p]
    /\ script = "none"
    /\ script' = "admitted"

\* The permit is over, the request does not open or agree with it, or the
\* scheduler refuses: the permit is gone all the same.
RefusePermit(p) == Unused(p) /\ UNCHANGED script

\* The command "reload".
Reload ==
    /\ mode = "local"
    /\ ~cancelled
    /\ cancelled' = TRUE
    /\ UNCHANGED <<now, mode, limit, leaseVars, observerVars, session, scriptVars, permitVars>>

ScriptChanges(from, to) ==
    /\ script = from
    /\ script' = to
    /\ UNCHANGED <<now, mode, limit, leaseVars, cancelled, observerVars, session, permitVars>>

\* run_process looks at the flag before it spawns.
BeginScript == ~cancelled /\ ScriptChanges("admitted", "running") /\ started' = now

NotBegun == ScriptChanges("admitted", "none") /\ UNCHANGED started

\* It ends by itself, at the flag or at its deadline.
EndScript == ScriptChanges("running", "none") /\ UNCHANGED started

-----------------------------------------------------------------------------

\* A half second passes in which nothing that is due is left undone.
Tick ==
    /\ now < MaxTime
    /\ observer \in Armed => now < due
    /\ script # "admitted"
    /\ script = "running" => ~cancelled /\ now < started + Ticks(ExecuteMax)
    /\ now' = now + 1
    /\ UNCHANGED <<mode, limit, leaseVars, cancelled, observerVars, session, scriptVars, permitVars>>

ObserverNext ==
    \/ ServerRenews \/ Activate \/ ActivationFails
    \/ AskForRenewal \/ PolicyChanged
    \/ RenewalSucceeds \/ RenewalFails \/ RenewalRefused \/ RevokedElsewhere

SessionNext ==
    \/ ConnectFirst \/ SessionEnds \/ SessionReaped \/ ResumeCheck \/ ResumeClear \/ BridgeEnds

\* handle_connection: what the socket of a local Bridge is asked for.
LocalNext ==
    \/ IssuePermit \/ Reload
    \/ \E p \in 1..MaxPermits : ExecutePermit(p) \/ RefusePermit(p)

ScriptNext ==
    \/ PrepareRemote \/ LocalNext
    \/ BeginScript \/ NotBegun \/ EndScript

Next == ObserverNext \/ SessionNext \/ ScriptNext \/ Tick

Spec == Init /\ [][Next]_vars

-----------------------------------------------------------------------------
(* The lease without its clock.                                              *)

Standing ==
    IF Second(now) >= until \/ Second(now) >= absolute THEN "expired"
    ELSE IF health = "healthy" /\ Second(now) + MinRemaining <= until THEN "good"
    ELSE "low"

Phase ==
    IF session = "new" THEN IF observer = "starting" THEN "activating" ELSE "dialing"
    ELSE IF session = "over" THEN "closed"
    ELSE session

Leased == INSTANCE LeasedSession
    WITH standing <- Standing, flag <- cancelled, session <- Phase, work <- script # "none"

\* The lease of an outbound Bridge and its session keep what they promise each other:
\* work begins in good standing only, and a reconnect clears the flag of nothing.
ImplementsLeasedSession == Leased!Spec

-----------------------------------------------------------------------------
\* The longest a script can run on after the Server last extended the lease: the
\* answer may be as old as its timeout, the next request goes out an interval
\* later, fails at its timeout, and the last retry in the grace period may again
\* take its timeout.
RunLimit ==
    StartTimeout + RenewInterval + RequestTimeout + FailureGrace + RetryDelay + RequestTimeout

\* No script runs longer than RunLimit after the Server last extended the lease,
\* however answers are lost, late or refused and however often the relay
\* reconnects: the Bridge stops it by itself (run_lease_observer_loop,
\* mark_renewal_failed).
RunningBounded == mode = "outbound" /\ script = "running" => now < renewed + Ticks(RunLimit)

\* While renewals succeed, admission never lacks the minimum between two of them,
\* but for the absolute limit and an activation whose answer took longer than a
\* renewal's may (admit, run_lease_observer_loop).
HealthyAdmits ==
    observer \in {"sleeping", "asking"} /\ health = "healthy"
        /\ until < absolute /\ taken <= renewed + Ticks(RequestTimeout)
    => Second(now) + MinRemaining <= until

\* execute does not look at the lease, but a permit never lets a script start
\* after the second in which its lease ends (issue_permit, execute).
PermitsWithinLease == mode = "local" /\ script = "running" => Second(started) <= until
=============================================================================
