------------------------- MODULE BindingLeaseProofs -------------------------
(***************************************************************************)
(* The deadlines of a binding hold for every choice of intervals, timeouts   *)
(* and minima that satisfies TimingAssumption, and for ever.                 *)
(***************************************************************************)
EXTENDS BindingLease, TLAPS

\* A request's answer is no older than the request, which is no older than its
\* timeout; what the lease shows is older.
RequestClock ==
    /\ renewed <= taken /\ taken <= now
    /\ answer # 0 => observer \in {"starting", "asking"} /\ renewed <= answer /\ answer <= now
    /\ observer = "starting" => due <= renewed + Ticks(StartTimeout)
    /\ observer = "asking" => due <= now + Ticks(RequestTimeout)
    /\ observer = "asking" /\ answer # 0 => due <= answer + Ticks(RequestTimeout)

\* While the lease is healthy the timers follow its last extension ...
HealthyClock ==
    health = "healthy" =>
        /\ observer = "sleeping" =>
             /\ due <= renewed + Ticks(StartTimeout + RenewInterval)
             /\ due <= taken + Ticks(RenewInterval)
        /\ observer = "asking" =>
             /\ due <= renewed + Ticks(StartTimeout + RenewInterval + RequestTimeout)
             /\ due <= taken + Ticks(RenewInterval + RequestTimeout)

\* ... and in the grace period the one deadline that the first failure set.
GraceClock ==
    health = "grace" =>
        /\ Ticks(grace) <= renewed
             + Ticks(StartTimeout + RenewInterval + RequestTimeout + FailureGrace)
        /\ observer = "sleeping" => due < Ticks(grace) + Ticks(RetryDelay)
        /\ observer = "asking" => due < Ticks(grace) + Ticks(RetryDelay + RequestTimeout)

\* The Server grants a whole lease unless the absolute limit is nearer.
WholeLease ==
    observer \in {"sleeping", "asking"} =>
        until = absolute \/ until = Second(renewed) + LeaseSeconds

\* Who runs with whom: a script of the outbound Bridge belongs to a session and is
\* within its bound; a lease that is lost cancels it.
Tasks ==
    /\ mode = "local" => observer = "none" /\ session = "none" /\ ~revoked
    /\ mode = "outbound" => observer # "none" /\ session # "none" /\ permits = {}
    /\ health = "expired" => revoked
    /\ observer = "over" => revoked \/ session = "over"
    /\ observer = "starting" => session = "new"
    /\ mode = "outbound" /\ script # "none" =>
         /\ session \in {"up", "ending"}
         /\ revoked => cancelled
         /\ now < renewed + Ticks(RunLimit)

\* A permit ends with the last second of its lease, and a script starts before.
Permitted ==
    mode = "local" =>
        /\ \A p \in permits : expires[p] <= Ticks(until) + 1
        /\ script = "admitted" => now <= Ticks(until)
        /\ script = "running" => started <= Ticks(until)

IInv ==
    /\ TypeOK
    /\ RequestClock /\ HealthyClock /\ GraceClock /\ WholeLease
    /\ Tasks /\ Permitted

-----------------------------------------------------------------------------
(* Time.                                                                     *)

\* now_seconds drops the half second.
LEMMA SecondBounds ==
    ASSUME NEW t \in Nat
    PROVE  Second(t) \in Nat /\ 2 * Second(t) <= t /\ t <= 2 * Second(t) + 1
  BY DEF Second

\* A lease outlasts two timeouts, an interval and the minimum.
LEMMA LeaseIsLong ==
    ASSUME NEW a \in Nat, NEW b \in Nat,
           a <= b + RequestTimeout + RenewInterval + RequestTimeout
    PROVE  a + MinRemaining <= b + LeaseSeconds
  BY TimingAssumption

\* The Server grants a whole lease or what the absolute limit leaves.
LEMMA GrantedShape ==
    ASSUME answer \in Nat, limit \in Limits
    PROVE  /\ Granted \in Nat
           /\ Granted = limit \/ Granted = Second(answer) + LeaseSeconds
  <1>1. Second(answer) \in Nat
    BY SecondBounds
  <1>2. QED
    BY <1>1, TimingAssumption DEF Granted

\* A lease just learned of puts the clock right.
LEMMA UpdateKeepsClock ==
    ASSUME IInv, observer \in {"starting", "asking"}, Usable, UpdateLease, Sleep(RenewInterval),
           UNCHANGED <<now, mode, limit, cancelled, session, scriptVars, permitVars>>
    PROVE  IInv'
  <1> USE TimingAssumption DEF IInv, TypeOK, Armed, Ticks, permitVars, scriptVars
  <1>1. Granted \in Nat /\ (Granted = limit \/ Granted = Second(answer) + LeaseSeconds)
    BY GrantedShape
  <1>2. TypeOK'
    BY <1>1 DEF UpdateLease, Sleep
  <1>3. RequestClock' /\ HealthyClock' /\ GraceClock'
    BY DEF UpdateLease, Sleep, RequestClock, HealthyClock, GraceClock, Usable
  <1>4. WholeLease'
    BY <1>1 DEF UpdateLease, Sleep, WholeLease
  <1>5. Tasks' /\ Permitted'
    BY DEF UpdateLease, Sleep, Tasks, Permitted, RequestClock, Usable, RunLimit
  <1>6. QED
    BY <1>2, <1>3, <1>4, <1>5

\* Losing the lease cancels what runs and moves no clock.
LEMMA RevokeKeeps ==
    ASSUME IInv, mode = "outbound", Revoke, observer # "starting",
           UNCHANGED <<now, mode, limit, session, scriptVars>>,
           EndObserver \/ UNCHANGED observerVars
    PROVE  IInv'
  <1> USE TimingAssumption DEF IInv, TypeOK, Armed, scriptVars, observerVars, Revoke, EndObserver
  <1>1. TypeOK'
    OBVIOUS
  <1>2. RequestClock' /\ HealthyClock' /\ GraceClock' /\ WholeLease'
    BY DEF RequestClock, HealthyClock, GraceClock, WholeLease
  <1>3. Tasks' /\ Permitted'
    BY DEF Tasks, Permitted
  <1>4. QED
    BY <1>1, <1>2, <1>3

-----------------------------------------------------------------------------
(* The steps.                                                                *)

\* The inductive invariant holds when the Bridge starts.
LEMMA InitIInv == Init => IInv
  <1> SUFFICES ASSUME Init PROVE IInv
    OBVIOUS
  <1> USE TimingAssumption DEF Init, Start, Ticks, Armed
  <1>1. Start \in Nat /\ Second(Start) \in Nat
    BY SecondBounds
  <1>2. TypeOK
    <2>1. /\ now \in Nat /\ until \in Nat /\ absolute \in Nat /\ due \in Nat
          /\ renewed \in Nat /\ taken \in Nat /\ now <= due
      BY <1>1
    <2>2. permits \subseteq 1..MaxPermits /\ expires \in [1..MaxPermits -> Nat]
      OBVIOUS
    <2>3. next \in 0..MaxPermits
      OBVIOUS
    <2>4. QED
      BY <2>1, <2>2, <2>3 DEF TypeOK
  <1>3. RequestClock /\ HealthyClock /\ GraceClock /\ WholeLease /\ Tasks /\ Permitted
    BY DEF RequestClock, HealthyClock, GraceClock, WholeLease, Tasks, Permitted
  <1>4. QED
    BY <1>2, <1>3 DEF IInv

\* The activation and the lease observer.
LEMMA ObserverStep == ASSUME IInv, ObserverNext PROVE IInv'
  <1> USE TimingAssumption DEF IInv, TypeOK, Armed
  <1>1. CASE ServerRenews
    <2> USE <1>1 DEF ServerRenews, leaseVars, scriptVars, permitVars
    <2>1. TypeOK'
      OBVIOUS
    <2>2. RequestClock'
      BY DEF RequestClock, Ticks
    <2>3. HealthyClock' /\ GraceClock' /\ WholeLease'
      BY DEF HealthyClock, GraceClock, WholeLease
    <2>4. Tasks' /\ Permitted'
      BY DEF Tasks, Permitted
    <2>5. QED
      BY <2>1, <2>2, <2>3, <2>4
  <1>2. CASE Activate \/ RenewalSucceeds
    BY <1>2, UpdateKeepsClock DEF Activate, RenewalSucceeds
  <1>3. CASE ActivationFails
    <2> USE <1>3 DEF ActivationFails, EndObserver, leaseVars, scriptVars, permitVars
    <2>1. TypeOK'
      OBVIOUS
    <2>2. RequestClock' /\ HealthyClock' /\ GraceClock' /\ WholeLease'
      BY DEF RequestClock, HealthyClock, GraceClock, WholeLease
    <2>3. Tasks' /\ Permitted'
      BY DEF Tasks, Permitted
    <2>4. QED
      BY <2>1, <2>2, <2>3
  <1>4. CASE AskForRenewal
    <2> USE <1>4 DEF AskForRenewal, Ask, leaseVars, scriptVars, permitVars
    <2>1. TypeOK'
      BY DEF Ticks
    <2>2. RequestClock' /\ HealthyClock' /\ GraceClock' /\ WholeLease'
      BY DEF RequestClock, HealthyClock, GraceClock, WholeLease, Ticks
    <2>3. Tasks' /\ Permitted'
      BY DEF Tasks, Permitted
    <2>4. QED
      BY <2>1, <2>2, <2>3
  <1>5. CASE PolicyChanged \/ RenewalRefused
    <2>1. mode = "outbound"
      BY <1>5 DEF PolicyChanged, RenewalRefused, Tasks
    <2>2. QED
      BY <1>5, <2>1, RevokeKeeps DEF PolicyChanged, RenewalRefused
  <1>6. CASE RevokedElsewhere
    BY <1>6, RevokeKeeps DEF RevokedElsewhere
  <1>7. CASE RenewalFails
    <2>1. /\ observer = "asking" /\ mode = "outbound"
          /\ UNCHANGED <<now, mode, limit, session, scriptVars>>
      BY <1>7 DEF RenewalFails, Tasks
    <2>2. CASE revoked /\ EndObserver /\ UNCHANGED <<leaseVars, cancelled, permitVars>>
      <3> USE <2>1, <2>2 DEF EndObserver, leaseVars, scriptVars, permitVars
      <3>1. TypeOK'
        OBVIOUS
      <3>2. RequestClock' /\ HealthyClock' /\ GraceClock' /\ WholeLease'
        BY DEF RequestClock, HealthyClock, GraceClock, WholeLease
      <3>3. Tasks' /\ Permitted'
        BY DEF Tasks, Permitted
      <3>4. QED
        BY <3>1, <3>2, <3>3
    <2>3. CASE Revoke /\ EndObserver
      BY <2>1, <2>3, RevokeKeeps
    <2>4. CASE /\ ~revoked
               /\ Second(now) < absolute /\ Second(now) < GraceDeadline
               /\ health' = "grace" /\ grace' = GraceDeadline
               /\ Sleep(RetryDelay)
               /\ UNCHANGED <<until, absolute, revoked, renewed, taken, cancelled, permitVars>>
      <3> USE <2>1, <2>4 DEF Sleep, leaseVars, scriptVars, permitVars
      <3>1. Second(now) \in Nat /\ 2 * Second(now) <= now /\ now <= 2 * Second(now) + 1
        BY SecondBounds
      <3>2. /\ GraceDeadline \in Nat \ {0}
            /\ now < Ticks(GraceDeadline)
            /\ Ticks(GraceDeadline) <= renewed
                 + Ticks(StartTimeout + RenewInterval + RequestTimeout + FailureGrace)
        <4>1. CASE health = "grace"
          BY <3>1, <4>1 DEF GraceDeadline, GraceClock, Ticks
        <4>2. CASE health = "healthy"
          BY <3>1, <4>2 DEF GraceDeadline, HealthyClock, Ticks
        <4>3. QED
          BY <4>1, <4>2 DEF Tasks
      <3>3. TypeOK'
        BY <3>2 DEF Ticks
      <3>4. RequestClock' /\ HealthyClock' /\ WholeLease'
        BY DEF RequestClock, HealthyClock, WholeLease
      <3>5. GraceClock'
        BY <3>2 DEF GraceClock, Ticks
      <3>6. Tasks' /\ Permitted'
        BY DEF Tasks, Permitted
      <3>7. QED
        BY <3>3, <3>4, <3>5, <3>6
    <2>5. QED
      BY <1>7, <2>2, <2>3, <2>4 DEF RenewalFails, RenewalMarked
  <1>8. QED
    BY <1>1, <1>2, <1>3, <1>4, <1>5, <1>6, <1>7 DEF ObserverNext

\* The relay loop moves no clock.
LEMMA SessionStep == ASSUME IInv, SessionNext PROVE IInv'
  <1> USE DEF IInv, TypeOK, Armed, SessionChanges, leaseVars, observerVars, scriptVars, permitVars
  <1>1. CASE ConnectFirst \/ SessionEnds \/ SessionReaped \/ ResumeCheck \/ ResumeClear
    <2> USE <1>1 DEF ConnectFirst, SessionEnds, SessionReaped, ResumeCheck, ResumeClear
    <2>1. TypeOK'
      OBVIOUS
    <2>2. RequestClock' /\ HealthyClock' /\ GraceClock' /\ WholeLease'
      BY DEF RequestClock, HealthyClock, GraceClock, WholeLease
    <2>3. Tasks' /\ Permitted'
      BY DEF Tasks, Permitted
    <2>4. QED
      BY <2>1, <2>2, <2>3
  <1>2. CASE BridgeEnds
    <2> USE <1>2 DEF BridgeEnds, EndObserver
    <2>1. TypeOK'
      OBVIOUS
    <2>2. RequestClock' /\ HealthyClock' /\ GraceClock' /\ WholeLease'
      BY DEF RequestClock, HealthyClock, GraceClock, WholeLease
    <2>3. Tasks' /\ Permitted'
      BY DEF Tasks, Permitted
    <2>4. QED
      BY <2>1, <2>2, <2>3
  <1>3. QED
    BY <1>1, <1>2 DEF SessionNext

\* A lease that admits is watched by an observer whose timer is within the bound.
LEMMA WatchedLease ==
    ASSUME IInv, mode = "outbound", session = "up", ~revoked
    PROVE  observer \in {"sleeping", "asking"} /\ due < renewed + Ticks(RunLimit)
  <1> USE TimingAssumption DEF IInv, TypeOK, Armed, Tasks, Ticks, RunLimit
  <1>1. observer \in {"sleeping", "asking"} /\ health \in {"healthy", "grace"}
    OBVIOUS
  <1>2. CASE health = "healthy"
    BY <1>1, <1>2 DEF HealthyClock
  <1>3. CASE health = "grace"
    BY <1>1, <1>3 DEF GraceClock
  <1>4. QED
    BY <1>1, <1>2, <1>3

\* Permits and scripts.
LEMMA ScriptStep == ASSUME IInv, ScriptNext PROVE IInv'
  <1> USE TimingAssumption DEF IInv, TypeOK, Armed, leaseVars, observerVars, scriptVars, permitVars
  <1>1. CASE PrepareRemote
    <2> USE <1>1 DEF PrepareRemote, Admits
    <2>1. mode = "outbound" /\ now < renewed + Ticks(RunLimit)
      BY WatchedLease DEF Tasks, Ticks, RunLimit
    <2>2. TypeOK'
      OBVIOUS
    <2>3. RequestClock' /\ HealthyClock' /\ GraceClock' /\ WholeLease'
      BY DEF RequestClock, HealthyClock, GraceClock, WholeLease
    <2>4. Tasks' /\ Permitted'
      BY <2>1 DEF Tasks, Permitted
    <2>5. QED
      BY <2>2, <2>3, <2>4
  <1>2. CASE BeginScript \/ NotBegun \/ EndScript
    <2>1. /\ UNCHANGED <<now, mode, limit, leaseVars, cancelled, observerVars, session, permitVars>>
          /\ \/ script = "admitted" /\ script' = "running" /\ started' = now
             \/ script # "none" /\ script' = "none" /\ UNCHANGED started
      BY <1>2 DEF BeginScript, NotBegun, EndScript, ScriptChanges
    <2>2. TypeOK'
      BY <2>1
    <2>3. RequestClock' /\ HealthyClock' /\ GraceClock' /\ WholeLease'
      BY <2>1 DEF RequestClock, HealthyClock, GraceClock, WholeLease
    <2>4. Tasks' /\ Permitted'
      BY <2>1 DEF Tasks, Permitted, Ticks
    <2>5. QED
      BY <2>2, <2>3, <2>4
  <1>3. CASE IssuePermit
    <2> USE <1>3 DEF IssuePermit
    <2>1. now + Ticks(PermitLifetime) <= Ticks(until) + 1
      <3>1. Second(now) \in Nat /\ now <= 2 * Second(now) + 1
        BY SecondBounds
      <3>2. QED
        BY <3>1, TimingAssumption DEF Admits, Ticks
    <2>2. TypeOK'
      BY DEF Ticks
    <2>3. RequestClock' /\ HealthyClock' /\ GraceClock' /\ WholeLease'
      BY DEF RequestClock, HealthyClock, GraceClock, WholeLease
    <2>4. Tasks' /\ Permitted'
      BY <2>1 DEF Tasks, Permitted, Ticks
    <2>5. QED
      BY <2>2, <2>3, <2>4
  <1>4. CASE Reload
    <2> USE <1>4 DEF Reload
    <2>1. TypeOK'
      OBVIOUS
    <2>2. RequestClock' /\ HealthyClock' /\ GraceClock' /\ WholeLease'
      BY DEF RequestClock, HealthyClock, GraceClock, WholeLease
    <2>3. Tasks' /\ Permitted'
      BY DEF Tasks, Permitted
    <2>4. QED
      BY <2>1, <2>2, <2>3
  <1>5. ASSUME NEW p \in 1..MaxPermits, ExecutePermit(p) \/ RefusePermit(p)
        PROVE  IInv'
    <2> USE <1>5 DEF ExecutePermit, RefusePermit, Unused
    <2>1. TypeOK'
      OBVIOUS
    <2>2. RequestClock' /\ HealthyClock' /\ GraceClock' /\ WholeLease'
      BY DEF RequestClock, HealthyClock, GraceClock, WholeLease
    <2>3. ExecutePermit(p) => now <= Ticks(until)
      BY DEF Permitted, Ticks
    <2>4. Tasks'
      BY DEF Tasks
    <2>5. Permitted'
      <3>1. CASE ExecutePermit(p)
        BY <2>3, <3>1 DEF Permitted, Ticks
      <3>2. CASE RefusePermit(p)
        BY <3>2 DEF Permitted, Ticks
      <3>3. QED
        BY <3>1, <3>2
    <2>6. QED
      BY <2>1, <2>2, <2>4, <2>5
  <1>6. QED
    BY <1>1, <1>2, <1>3, <1>4, <1>5 DEF ScriptNext, LocalNext

\* Time passes up to the next timer only, and not under a script that is cancelled.
LEMMA TickStep == ASSUME IInv, Tick PROVE IInv'
  <1> USE DEF IInv, TypeOK, Armed, Tick, leaseVars, observerVars, scriptVars, permitVars
  <1>1. TypeOK'
    OBVIOUS
  <1>2. RequestClock' /\ HealthyClock' /\ GraceClock' /\ WholeLease'
    BY TimingAssumption DEF RequestClock, HealthyClock, GraceClock, WholeLease, Ticks
  <1>3. CASE mode = "outbound" /\ script = "running"
    <2>1. ~revoked
      BY <1>3 DEF Tasks
    <2>2. observer \in {"sleeping", "asking"} /\ now < due
      BY <1>3, <2>1 DEF Tasks
    <2>3. due < renewed + Ticks(RunLimit)
      BY <1>3, <2>1, <2>2, TimingAssumption DEF Tasks, HealthyClock, GraceClock, Ticks, RunLimit
    <2>4. Tasks' /\ Permitted'
      BY <1>3, <2>2, <2>3, TimingAssumption DEF Tasks, Permitted, Ticks, RunLimit
    <2>5. QED
      BY <1>1, <1>2, <2>4
  <1>4. CASE ~(mode = "outbound" /\ script = "running")
    <2>1. Tasks' /\ Permitted'
      BY <1>4 DEF Tasks, Permitted
    <2>2. QED
      BY <1>1, <1>2, <2>1
  <1>5. QED
    BY <1>3, <1>4

\* Every step preserves the inductive invariant.
LEMMA StepIInv == IInv /\ [Next]_vars => IInv'
  <1> SUFFICES ASSUME IInv, [Next]_vars PROVE IInv'
    OBVIOUS
  <1>1. CASE UNCHANGED vars
    BY <1>1 DEF vars, leaseVars, observerVars, scriptVars, permitVars, IInv, TypeOK, Armed,
                RequestClock, HealthyClock, GraceClock, WholeLease, Tasks, Permitted
  <1>2. QED
    BY <1>1, ObserverStep, SessionStep, ScriptStep, TickStep DEF Next

\* The inductive invariant always holds.
THEOREM LeaseInductive == Spec => []IInv
  BY InitIInv, StepIInv, PTL DEF Spec

\* Every state has the declared shape: a grace deadline exactly in the grace
\* period, and no timer overdue.
THEOREM LeaseTypeCorrect == Spec => []TypeOK
  <1>1. IInv => TypeOK
    BY DEF IInv
  <1>2. QED
    BY <1>1, LeaseInductive, PTL

\* A script ends within RunLimit of the Server's last extension of the lease, for
\* every choice of the intervals and timeouts.
THEOREM RunningIsBounded == Spec => []RunningBounded
  <1>1. IInv => RunningBounded
    BY DEF IInv, Tasks, RunningBounded
  <1>2. QED
    BY <1>1, LeaseInductive, PTL

\* Between two renewals that succeed there is always enough of the lease left to
\* admit a request.
THEOREM HealthyLeaseAdmits == Spec => []HealthyAdmits
  <1>1. IInv => HealthyAdmits
    <2> SUFFICES ASSUME IInv, observer \in {"sleeping", "asking"}, health = "healthy",
                        until < absolute, taken <= renewed + Ticks(RequestTimeout)
                 PROVE  Second(now) + MinRemaining <= until
      BY DEF HealthyAdmits
    <2> USE TimingAssumption DEF IInv, TypeOK, Armed
    <2>1. until = Second(renewed) + LeaseSeconds
      BY DEF WholeLease
    <2>2. now <= renewed + Ticks(RequestTimeout + RenewInterval + RequestTimeout)
      BY DEF HealthyClock, Ticks
    <2>3. /\ Second(now) \in Nat /\ 2 * Second(now) <= now
          /\ Second(renewed) \in Nat /\ renewed <= 2 * Second(renewed) + 1
      BY SecondBounds
    <2>4. Second(now) <= Second(renewed) + RequestTimeout + RenewInterval + RequestTimeout
      BY <2>2, <2>3 DEF Ticks
    <2>5. QED
      BY <2>1, <2>3, <2>4, LeaseIsLong
  <1>2. QED
    BY <1>1, LeaseInductive, PTL

\* No permit starts a script after the last second of the lease it was issued
\* under.
THEOREM PermitsEndWithLease == Spec => []PermitsWithinLease
  <1>1. IInv => PermitsWithinLease
    <2> SUFFICES ASSUME IInv, mode = "local", script = "running"
                 PROVE  Second(started) <= until
      BY DEF PermitsWithinLease
    <2>1. started \in Nat /\ until \in Nat /\ started <= Ticks(until)
      BY DEF IInv, TypeOK, Permitted
    <2>2. Second(started) \in Nat /\ 2 * Second(started) <= started
      BY <2>1, SecondBounds
    <2>3. QED
      BY <2>1, <2>2 DEF Ticks
  <1>2. QED
    BY <1>1, LeaseInductive, PTL

-----------------------------------------------------------------------------
(* The lease without its clock: refinement of LeasedSession.                 *)

Outbound == IInv /\ mode = "outbound"

\* What a lease shows depends on the time, its two deadlines and its health only.
LEMMA StandingKept ==
    ASSUME UNCHANGED <<now, until, absolute, health>>
    PROVE  Standing' = Standing
  BY DEF Standing

\* Neither time nor a failure improves it.
LEMMA StandingWorsens ==
    ASSUME TypeOK, now' \in {now, now + 1}, UNCHANGED <<until, absolute>>,
           health' = health \/ health' # "healthy"
    PROVE  Leased!NotBetter
  <1>1. now \in Nat /\ until \in Nat /\ absolute \in Nat
    BY DEF TypeOK
  <1>2. Second(now) \in Nat /\ Second(now') \in Nat /\ Second(now) <= Second(now')
    <2>1. /\ Second(now) \in Nat /\ 2 * Second(now) <= now
          /\ Second(now + 1) \in Nat /\ now + 1 <= 2 * Second(now + 1) + 1
      BY <1>1, SecondBounds
    <2>2. Second(now') = Second(now) \/ Second(now') = Second(now + 1)
      OBVIOUS
    <2>3. QED
      BY <1>1, <2>1, <2>2
  <1>3. QED
    BY <1>1, <1>2, TimingAssumption DEF Standing, Leased!NotBetter

\* A lease the Server has just extended is not over; near the absolute limit it may
\* have less than the minimum left.
LEMMA StandingExtended ==
    ASSUME TypeOK, Usable, UpdateLease, UNCHANGED now
    PROVE  Standing' \in {"good", "low"}
  <1>1. Second(now) \in Nat /\ Second(now) < Granted /\ Second(now) < limit
    BY SecondBounds DEF TypeOK, Usable
  <1>2. limit \in Nat /\ Granted \in Nat
    BY GrantedShape, TimingAssumption DEF TypeOK
  <1>3. until' = Granted /\ absolute' = limit /\ Second(now') = Second(now)
    BY DEF UpdateLease
  <1>4. QED
    BY <1>1, <1>2, <1>3 DEF Standing

\* Admission is LeaseState::admit; a reconnect asks for less.
LEMMA StandingExact ==
    ASSUME TypeOK
    PROVE  /\ Admits => Standing = "good" /\ ~revoked
           /\ Reconnects => Standing # "expired" /\ ~revoked
  <1>1. Second(now) \in Nat /\ until \in Nat /\ absolute \in Nat
    BY SecondBounds DEF TypeOK
  <1>2. QED
    BY <1>1 DEF Admits, Reconnects, Standing

\* A revocation is one, wherever it comes from.
LEMMA RevokeIsRevoked ==
    ASSUME Outbound, Revoke, observer # "starting", observer' # "starting",
           UNCHANGED <<now, session, script>>
    PROVE  Leased!Revoked
  <1>1. Leased!NotBetter
    BY StandingWorsens DEF Revoke, Outbound, IInv
  <1>2. Phase' = Phase
    BY DEF Phase
  <1>3. QED
    BY <1>1, <1>2 DEF Revoke, Leased!Revoked

\* An outbound Bridge starts with a lease of its own, in good standing.
LEMMA LeasedInit == Init /\ mode = "outbound" => Leased!Init
  <1> SUFFICES ASSUME Init, mode = "outbound" PROVE Leased!Init
    OBVIOUS
  <1>1. Second(now) = 1
    BY DEF Init, Start, Ticks, Second
  <1>2. until = 1 + LeaseSeconds /\ absolute = 1 + AbsoluteTtl
    BY DEF Init, Start, Ticks, Second
  <1>3. Standing = "good"
    BY <1>1, <1>2, TimingAssumption DEF Init, Standing
  <1>4. QED
    BY <1>3 DEF Init, Phase, Leased!Init

\* The steps of activation and lease observer.
LEMMA ObserverLeased == Outbound /\ ObserverNext => [Leased!Next]_Leased!vars
  <1> SUFFICES ASSUME Outbound, ObserverNext PROVE [Leased!Next]_Leased!vars
    OBVIOUS
  <1> USE DEF Leased!Next, Leased!vars
  <1>0. TypeOK /\ Tasks
    BY DEF Outbound, IInv
  <1>1. CASE ServerRenews
    BY <1>1, StandingKept DEF ServerRenews, leaseVars, scriptVars, Phase
  <1>2. CASE Activate
    <2>1. Standing' \in {"good", "low"}
      BY <1>0, <1>2, StandingExtended DEF Activate
    <2>2. Phase = "activating" /\ Phase' = "dialing"
      BY <1>0, <1>2 DEF Activate, Phase, Tasks, Sleep
    <2>3. Leased!Activated
      BY <1>2, <2>1, <2>2 DEF Activate, UpdateLease, scriptVars, Leased!Activated, Leased!Extended
    <2>4. QED
      BY <2>3
  <1>3. CASE ActivationFails
    <2>1. Phase = "activating" /\ Phase' = "closed"
      BY <1>0, <1>3 DEF ActivationFails, Phase, Tasks
    <2>2. Leased!Closes
      BY <1>3, <2>1, StandingKept DEF ActivationFails, leaseVars, scriptVars, Leased!Closes
    <2>3. QED
      BY <2>2
  <1>4. CASE AskForRenewal
    BY <1>4, StandingKept DEF AskForRenewal, Ask, leaseVars, scriptVars, Phase
  <1>5. CASE PolicyChanged \/ RenewalRefused \/ RevokedElsewhere
    <2>1. Leased!Revoked
      BY <1>5, RevokeIsRevoked
         DEF PolicyChanged, RenewalRefused, RevokedElsewhere, EndObserver, observerVars, scriptVars
    <2>2. QED
      BY <2>1
  <1>6. CASE RenewalSucceeds
    <2>1. Standing' \in {"good", "low"}
      BY <1>0, <1>6, StandingExtended DEF RenewalSucceeds
    <2>2. Phase' = Phase
      BY <1>6 DEF RenewalSucceeds, Phase, Sleep
    <2>3. Leased!Renewed
      BY <1>6, <2>1, <2>2
         DEF RenewalSucceeds, UpdateLease, scriptVars, Leased!Renewed, Leased!Extended
    <2>4. QED
      BY <2>3
  <1>7. CASE RenewalFails
    <2>1. CASE revoked
      BY <1>7, <2>1, StandingKept
         DEF RenewalFails, RenewalMarked, EndObserver, leaseVars, scriptVars, Phase
    <2>2. CASE ~revoked /\ Revoke /\ EndObserver
      <3>1. Leased!Revoked
        BY <1>7, <2>2, RevokeIsRevoked DEF RenewalFails, EndObserver, scriptVars
      <3>2. QED
        BY <3>1
    <2>3. CASE /\ ~revoked /\ health' = "grace" /\ Sleep(RetryDelay)
               /\ UNCHANGED <<until, absolute, revoked, cancelled>>
      <3>1. Leased!NotBetter
        BY <1>0, <1>7, <2>3, StandingWorsens DEF RenewalFails
      <3>2. Phase' = Phase
        BY <1>7, <2>3 DEF RenewalFails, Sleep, Phase
      <3>3. Leased!Worsens
        BY <1>7, <2>3, <3>1, <3>2 DEF RenewalFails, scriptVars, Leased!Worsens
      <3>4. QED
        BY <3>3
    <2>4. QED
      BY <1>7, <2>1, <2>2, <2>3 DEF RenewalFails, RenewalMarked
  <1>8. QED
    BY <1>1, <1>2, <1>3, <1>4, <1>5, <1>6, <1>7 DEF ObserverNext

\* The steps of the relay loop: by Tasks nothing is at work where the flag is cleared.
LEMMA SessionLeased == Outbound /\ SessionNext => [Leased!Next]_Leased!vars
  <1> SUFFICES ASSUME Outbound, SessionNext PROVE [Leased!Next]_Leased!vars
    OBVIOUS
  <1> USE DEF Leased!Next, Leased!Moves
  <1>0. TypeOK /\ Tasks
    BY DEF Outbound, IInv
  <1>1. ASSUME NEW from, NEW to, SessionChanges(from, to)
        PROVE  /\ UNCHANGED <<Standing, revoked>> /\ (script # "none")' = (script # "none")
               /\ session = from /\ session' = to /\ observer' = observer
    BY <1>1, StandingKept DEF SessionChanges, leaseVars, observerVars, scriptVars
  <1>2. CASE ConnectFirst
    <2>1. Leased!Connects
      BY <1>1, <1>2 DEF ConnectFirst, Phase, Leased!Connects
    <2>2. QED
      BY <2>1
  <1>3. CASE SessionEnds
    <2>1. Leased!Ends
      BY <1>1, <1>3 DEF SessionEnds, Phase, Leased!Ends
    <2>2. QED
      BY <2>1
  <1>4. CASE SessionReaped
    <2>1. Leased!Reaped
      BY <1>1, <1>4 DEF SessionReaped, Phase, Leased!Reaped
    <2>2. QED
      BY <2>1
  <1>5. CASE ResumeCheck
    <2>1. Leased!MayResume
      BY <1>0, <1>1, <1>5, StandingExact DEF ResumeCheck, Phase, Leased!MayResume
    <2>2. QED
      BY <2>1
  <1>6. CASE ResumeClear
    <2>1. script = "none"
      BY <1>0, <1>6 DEF ResumeClear, SessionChanges, Tasks, Outbound
    <2>2. Leased!Resumes
      BY <1>1, <1>6, <2>1 DEF ResumeClear, Phase, Leased!Resumes
    <2>3. QED
      BY <2>2
  <1>7. CASE BridgeEnds
    <2>1. Phase # "off" /\ Phase' = "closed"
      BY <1>7 DEF BridgeEnds, Phase
    <2>2. Leased!Closes
      BY <1>7, <2>1, StandingKept DEF BridgeEnds, leaseVars, scriptVars, Leased!Closes
    <2>3. QED
      BY <2>2
  <1>8. QED
    BY <1>2, <1>3, <1>4, <1>5, <1>6, <1>7 DEF SessionNext

\* The steps of an execution: it begins in good standing, with the flag clear.
LEMMA ScriptLeased == Outbound /\ ScriptNext => [Leased!Next]_Leased!vars
  <1> SUFFICES ASSUME Outbound, ScriptNext PROVE [Leased!Next]_Leased!vars
    OBVIOUS
  <1> USE DEF Leased!Next
  <1>0. TypeOK /\ Tasks
    BY DEF Outbound, IInv
  <1>1. CASE PrepareRemote
    <2>1. Standing = "good" /\ ~revoked /\ Standing' = Standing
      BY <1>0, <1>1, StandingExact, StandingKept DEF PrepareRemote, leaseVars
    <2>2. Phase = "up" /\ Phase' = "up"
      BY <1>1 DEF PrepareRemote, Phase
    <2>3. Leased!Begins
      BY <1>1, <2>1, <2>2 DEF PrepareRemote, leaseVars, Leased!Begins, Leased!Admissible
    <2>4. QED
      BY <2>3
  <1>2. CASE LocalNext
    BY <1>2 DEF LocalNext, IssuePermit, Reload, ExecutePermit, RefusePermit, Unused, Outbound
  <1>3. CASE BeginScript
    BY <1>3, StandingKept
       DEF BeginScript, ScriptChanges, leaseVars, observerVars, Phase, Leased!vars
  <1>4. CASE NotBegun \/ EndScript
    <2>1. Leased!Finishes
      BY <1>4, StandingKept
         DEF NotBegun, EndScript, ScriptChanges, leaseVars, observerVars, Phase, Leased!Finishes
    <2>2. QED
      BY <2>1
  <1>5. QED
    BY <1>1, <1>2, <1>3, <1>4 DEF ScriptNext

\* The lease of an outbound Bridge implements LeasedSession for every choice of
\* intervals: what the Bridge without a clock is taken to do (BridgeSupervisor), it
\* does by the clock (LeaseState, run_lease_observer_loop, resume_after_reconnect).
THEOREM LeaseIsLeasedSession == Spec => (mode = "outbound" => ImplementsLeasedSession)
  <1>1. Outbound /\ [Next]_vars => [Leased!Next]_Leased!vars
    <2> SUFFICES ASSUME Outbound, [Next]_vars PROVE [Leased!Next]_Leased!vars
      OBVIOUS
    <2>1. CASE Tick
      <3>1. Leased!NotBetter
        BY <2>1, StandingWorsens DEF Tick, leaseVars, Outbound, IInv
      <3>2. Leased!Worsens
        BY <2>1, <3>1 DEF Tick, leaseVars, observerVars, scriptVars, Phase, Leased!Worsens
      <3>3. QED
        BY <3>2 DEF Leased!Next
    <2>2. CASE UNCHANGED vars
      BY <2>2, StandingKept
         DEF vars, leaseVars, observerVars, scriptVars, Phase, Leased!vars
    <2>3. QED
      BY <2>1, <2>2, ObserverLeased, SessionLeased, ScriptLeased DEF Next
  <1>2. mode = "outbound" /\ [Next]_vars => (mode = "outbound")'
    BY DEF Next, vars, ObserverNext, SessionNext, ScriptNext, LocalNext, Tick, ServerRenews,
       Activate, ActivationFails, AskForRenewal, PolicyChanged, RenewalSucceeds, RenewalFails,
       RenewalRefused, RevokedElsewhere, ConnectFirst, SessionEnds, SessionReaped, ResumeCheck,
       ResumeClear, BridgeEnds, SessionChanges, PrepareRemote, IssuePermit, Reload, ExecutePermit,
       RefusePermit, Unused, BeginScript, NotBegun, EndScript, ScriptChanges
  <1>3. QED
    BY <1>1, <1>2, LeasedInit, LeaseInductive, PTL
       DEF Spec, Outbound, ImplementsLeasedSession, Leased!Spec
=============================================================================
