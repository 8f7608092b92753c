------------------------------ MODULE Autonomy ------------------------------
(***************************************************************************)
(* The autonomous control loop of the worker (internal/autonomy): a        *)
(* pressure forecast over a sliding window, and the one temporary, audited *)
(* and reversible change of the shaping multiplier it may make.            *)
(*                                                                         *)
(* Rates are percentages and times are counted in tick intervals.  The     *)
(* history holds the pressure of the last ticks, oldest first, one         *)
(* interval apart.  What the pool reports between two ticks is the record  *)
(* jobs = [completed, failed, latency].                                    *)
(***************************************************************************)
EXTENDS Integers, Sequences, FiniteSets

CONSTANTS
    Mode,                     \* "off", "shadow" or "auto"
    Window, MinObservations,
    Horizon,
    TriggerPressure, RecoverPressure,
    MinMultiplier,
    MaxActionTTL, ControlCooldown,
    MaxErrorRateIncrease, MaxLatencyIncreaseRatio,
    QueuePressures,           \* queue fill levels the pool may report
    Latencies,                \* processing times of a job
    MaxJobs                   \* bound on the jobs between two ticks

VARIABLES
    queuePressure,
    jobs,
    history,     \* pressures of the last ticks
    active,      \* {} or the action in force
    cooldown,    \* intervals left before a new action may start
    multiplier,  \* what CurrentMultiplier gives the shaping engine, in percent
    trail,       \* the last record of the audit file: {} or {[state, multiplier]}
    quiet        \* ticks since the last action ended, up to the cooldown

autonomyVars == <<queuePressure, jobs, history, active, cooldown, multiplier, trail, quiet>>

\* Config.Validate.  A cooldown of zero is accepted.
AutonomyAssumption ==
    /\ Mode \in {"off", "shadow", "auto"}
    /\ Window \in 3..256 /\ MinObservations \in 3..Window
    /\ TriggerPressure \in 1..100 /\ RecoverPressure \in 0..(TriggerPressure - 1)
    /\ MinMultiplier \in 1..100
    /\ MaxActionTTL \in Nat \ {0} /\ ControlCooldown \in Nat
    /\ MaxErrorRateIncrease \in 0..100 /\ MaxLatencyIncreaseRatio \in 0..1000

ASSUME AutonomyAssumption

NoJobs == [completed |-> 0, failed |-> 0, latency |-> 0]

AutonomyInit ==
    /\ queuePressure = 0 /\ jobs = NoJobs /\ history = <<>>
    /\ active = {} /\ cooldown = 0 /\ multiplier = 100 /\ trail = {}
    /\ quiet = ControlCooldown

QueueDepth(p) ==
    /\ queuePressure' = p /\ p # queuePressure
    /\ UNCHANGED <<jobs, history, active, cooldown, multiplier, trail, quiet>>

JobCompleted(latency, failed) ==
    /\ jobs.completed < MaxJobs
    /\ jobs' = [completed |-> jobs.completed + 1,
                failed |-> jobs.failed + IF failed THEN 1 ELSE 0,
                latency |-> jobs.latency + latency]
    /\ UNCHANGED <<queuePressure, history, active, cooldown, multiplier, trail, quiet>>

-----------------------------------------------------------------------------

SumOver(n, f(_)) == LET sum[k \in 0..n] == IF k = 0 THEN 0 ELSE sum[k - 1] + f(k) IN sum[n]

\* ForecastPressure reaches level: the least-squares line through the history,
\* extended from the last pressure by the horizon.  The comparison is multiplied
\* out; a level is at most 100, so the clamp of the forecast does not matter.
PredictedAtLeast(h, level) ==
    LET n == Len(h)
        x(k) == k - 1
        y(k) == h[k]
        xy(k) == x(k) * h[k]
        xx(k) == x(k) * x(k)
        denom == n * SumOver(n, xx) - SumOver(n, x) * SumOver(n, x)
        slope == n * SumOver(n, xy) - SumOver(n, x) * SumOver(n, y)
    IN IF n < 2 THEN n = 1 /\ h[1] >= level
       ELSE h[n] * denom + slope * Horizon >= level * denom

recommendedMultiplier(h) ==
    LET candidate == IF PredictedAtLeast(h, 95) THEN 50
                     ELSE IF PredictedAtLeast(h, 90) THEN 60 ELSE 75
    IN IF candidate < MinMultiplier THEN MinMultiplier ELSE candidate

ErrorRate == IF jobs.completed = 0 THEN 0 ELSE (100 * jobs.failed) \div jobs.completed

MeanLatency == IF jobs.completed = 0 THEN 0 ELSE jobs.latency \div jobs.completed

latencyRegression(baseline, current) ==
    /\ baseline > 0 /\ current > 0
    /\ 100 * current > baseline * (100 + MaxLatencyIncreaseRatio)

\* How an action ends at this tick, if it does.
Verdict(a) ==
    IF a.age >= MaxActionTTL THEN {"expired"}
    ELSE IF \/ queuePressure <= RecoverPressure
            \/ ErrorRate > a.errorRate + MaxErrorRateIncrease
            \/ latencyRegression(a.latency, MeanLatency) THEN {"rolled_back"}
    ELSE {}

\* The controller c without its action a, which ends.  The multiplier is back
\* whether or not the end of the action could be audited.
evaluateActiveLocked(c, a, recorded) ==
    [active |-> {}, cooldown |-> ControlCooldown, multiplier |-> 100, quiet |-> 0,
     trail |-> IF recorded THEN {[state |-> s, multiplier |-> a.multiplier] : s \in Verdict(a)}
               ELSE c.trail]

\* Mutation: the multiplier is applied before the audit is known to be written.
startActionUnaudited(c, h, recorded) ==
    LET state == IF Mode = "auto" THEN "applied" ELSE "shadow"
        m == recommendedMultiplier(h)
    IN [c EXCEPT !.active = {[state |-> state, age |-> 0, errorRate |-> ErrorRate,
                              multiplier |-> m, latency |-> MeanLatency]},
                 !.trail = IF recorded THEN {[state |-> state, multiplier |-> m]} ELSE @,
                 !.multiplier = IF state = "applied" THEN m ELSE @]

\* The controller c with a new action.  One that cannot be audited stays in
\* shadow.
startActionLocked(c, h, recorded) ==
    LET wanted == IF Mode = "auto" THEN "applied" ELSE "shadow"
        state == IF recorded THEN wanted ELSE "shadow"
        m == recommendedMultiplier(h)
    IN [active |-> {[state |-> state, age |-> 0, errorRate |-> ErrorRate,
                     multiplier |-> m, latency |-> MeanLatency]},
        cooldown |-> c.cooldown, quiet |-> c.quiet,
        trail |-> IF recorded THEN {[state |-> wanted, multiplier |-> m]} ELSE c.trail,
        multiplier |-> IF state = "applied" THEN m ELSE c.multiplier]

MayStart(c, h) ==
    /\ c.active = {} /\ Mode # "off" /\ c.cooldown = 0
    /\ Len(h) >= MinObservations /\ PredictedAtLeast(h, TriggerPressure)

\* The controller one interval later.
Aged ==
    [active |-> {[state |-> a.state, age |-> a.age + 1, errorRate |-> a.errorRate,
                  multiplier |-> a.multiplier, latency |-> a.latency] : a \in active},
     cooldown |-> IF cooldown > 0 THEN cooldown - 1 ELSE 0,
     quiet |-> IF quiet < ControlCooldown THEN quiet + 1 ELSE quiet,
     multiplier |-> multiplier, trail |-> trail]

\* One tick: observe, forecast, judge the action in force, and start a new one
\* if there is none, which with no cooldown may be at the tick that ended the
\* last.  The audit records of the end and of the start are written or not.
Tick(endRecorded, startRecorded) ==
    LET grown == Append(history, queuePressure)
        h == IF Len(grown) > Window THEN Tail(grown) ELSE grown
        ending == {a \in Aged.active : Verdict(a) # {}}
    IN /\ history' = h /\ jobs' = NoJobs
       /\ \E c \in IF ending = {} THEN {Aged}
                   ELSE {evaluateActiveLocked(Aged, a, endRecorded) : a \in ending} :
             LET next == IF MayStart(c, h) THEN startActionLocked(c, h, startRecorded) ELSE c
             IN /\ active' = next.active /\ cooldown' = next.cooldown
                /\ multiplier' = next.multiplier
                /\ trail' = next.trail /\ quiet' = next.quiet
       /\ UNCHANGED queuePressure

AutonomyNext ==
    \/ \E p \in QueuePressures : QueueDepth(p)
    \/ \E latency \in Latencies, failed \in BOOLEAN : JobCompleted(latency, failed)
    \/ \E endRecorded, startRecorded \in BOOLEAN : Tick(endRecorded, startRecorded)

-----------------------------------------------------------------------------

\* The multiplier differs from one only while an action of automatic mode is in
\* force that the audit file records as applied, and is never below the floor.
ReductionAudited ==
    multiplier # 100 =>
        /\ Mode = "auto" /\ multiplier >= MinMultiplier
        /\ \E a \in active : a.state = "applied" /\ a.multiplier = multiplier
        /\ trail = {[state |-> "applied", multiplier |-> multiplier]}

\* An action lasts less than its time to live, and at least the configured
\* cooldown, which may be zero, passes before the next one, however pressure,
\* errors, latency and audit failures alternate.
ReductionBounded ==
    /\ \A a \in active : a.age < MaxActionTTL
    /\ active # {} => quiet >= ControlCooldown

\* An automatic reduction is on record before it takes effect, is limited in
\* depth and time, and is followed by the configured cooldown.
ReductionGoverned ==
    /\ ReductionAudited
    /\ ReductionBounded
=============================================================================
