---------------------------- MODULE BudgetGuard ----------------------------
(* The hard provider budget guard (services/budgets.py) with the two kinds  *)
(* of commitment it admits: the reservation of a generation attempt and     *)
(* the experiment warm lease of a deployment.                               *)
(*                                                                          *)
(* Every operation locks the provider's single guard row first              *)
(* (_require_guard_locked), so each one is a single atomic action here.     *)
(* Amounts are small integers standing for micro-USD; an attempt state      *)
(* "UNKNOWN" stands for every nonterminal state after the provider POST,    *)
(* and "FAILED" for every terminal one: the guard tells them apart no       *)
(* further.                                                                 *)
EXTENDS Integers, FiniteSets, Functions

CONSTANTS
    Attempts,           \* generation attempts
    Deployments,        \* Salad deployment versions
    Segments,           \* dedupe keys of metered runtime segments
    Amounts,            \* amounts a segment or a reservation may cost
    Limits,             \* the <<daily, monthly>> limits settings may hold
    LeaseCost,          \* max_cost_microusd of a warm lease
    LeaseSpan,          \* hard duration of a warm lease, in ticks
    DayLength,          \* ticks in a UTC day
    MonthLength,        \* days in a month
    MaxTime             \* bound on the clock

ASSUME BudgetAssumption ==
    /\ IsFiniteSet(Attempts) /\ IsFiniteSet(Deployments) /\ IsFiniteSet(Segments)
    /\ Amounts \subseteq Nat \ {0}
    /\ Limits \subseteq (Nat \ {0}) \X (Nat \ {0})
    /\ \A l \in Limits : l[1] <= l[2]
    /\ {LeaseCost, LeaseSpan, DayLength, MonthLength} \subseteq Nat \ {0}
    /\ MaxTime \in Nat

VARIABLES
    now,        \* the UTC clock
    limit,      \* daily and monthly limits stored on the guard
    blocked,    \* blocked_reason of the guard; "none" is state OPEN
    attempt,    \* state, reservation and reservation_released_at
    spend,      \* metered entries by dedupe key
    desired,    \* desired_state of each deployment
    lease       \* latest warm lease of each deployment

vars == <<now, limit, blocked, attempt, spend, desired, lease>>

TerminalAttempt == {"FAILED"}
LiveLease == {"STARTING", "ENDING"}     \* STARTING stands for ACTIVE too
NoEntry == [amount |-> 0]

Entries == [amount : Amounts, deployment : Deployments, at : 0..MaxTime]

TypeOK ==
    /\ now \in 0..MaxTime
    /\ limit \in Limits
    /\ blocked \in {"none", "daily", "monthly"}
    /\ attempt \in [Attempts ->
          [state : {"CREATED", "SUBMITTING", "UNKNOWN", "FAILED"},
           cost : Amounts \cup {0}, released : BOOLEAN]]
    /\ spend \in [Segments -> Entries \cup {NoEntry}]
    /\ desired \in [Deployments -> {"PLANNED", "ACTIVE", "STOPPED"}]
    /\ lease \in [Deployments ->
          [state : {"NONE", "STARTING", "ENDING", "EXPIRED", "ENDED", "FAILED"},
           start : 0..MaxTime]]

Init ==
    /\ now = 0
    /\ limit \in Limits
    /\ blocked = "none"
    /\ attempt = [a \in Attempts |-> [state |-> "CREATED", cost |-> 0, released |-> FALSE]]
    /\ spend = [k \in Segments |-> NoEntry]
    /\ desired = [d \in Deployments |-> "PLANNED"]
    /\ lease = [d \in Deployments |-> [state |-> "NONE", start |-> 0]]

-----------------------------------------------------------------------------
(* The evaluation of the guard, over given values of the tables.            *)

Day(t) == t \div DayLength
Month(t) == Day(t) \div MonthLength

Recorded(spd) == {k \in Segments : spd[k] # NoEntry}

Costs(spd) == [k \in Segments |-> spd[k].amount]

DailySpend(spd, t) ==
    SumFunctionOnSet(Costs(spd), {k \in Recorded(spd) : Day(spd[k].at) = Day(t)})

MonthlySpend(spd, t) ==
    SumFunctionOnSet(Costs(spd), {k \in Recorded(spd) : Month(spd[k].at) = Month(t)})

Reservations(att) ==
    SumFunctionOnSet([a \in Attempts |-> att[a].cost], {a \in Attempts : ~att[a].released})

(* What the deployment of a lease has already been metered for since the    *)
(* lease began counts against its maximum cost.                             *)
Realized(lse, spd, d) ==
    SumFunctionOnSet(Costs(spd),
        {k \in Recorded(spd) : spd[k].deployment = d /\ spd[k].at >= lse[d].start})

Positive(x) == IF x > 0 THEN x ELSE 0

WarmLeases(lse, spd) ==
    SumFunctionOnSet([d \in Deployments |-> Positive(LeaseCost - Realized(lse, spd, d))],
        {d \in Deployments : lse[d].state \in LiveLease})

Commitments(att, lse, spd) == Reservations(att) + WarmLeases(lse, spd)

(* _limit_reason: the daily limit is compared first.                        *)
Reason(lim, spd, att, lse, extra) ==
    LET committed == Commitments(att, lse, spd) + extra
    IN  IF DailySpend(spd, now) + committed > lim[1] THEN "daily"
        ELSE IF MonthlySpend(spd, now) + committed > lim[2] THEN "monthly"
        ELSE "none"

(* Mutant: the kill switch records the verdict but stops no deployment.     *)
ApplyStopsNothing(lim, spd, att, lse) ==
    LET reason == Reason(lim, spd, att, lse, 0)
    IN  /\ blocked' = reason
        /\ limit' = lim /\ spend' = spd /\ attempt' = att
        /\ desired' = desired
        /\ lease' = [d \in Deployments |->
              IF reason # "none" /\ lse[d].state \in LiveLease
              THEN [lse[d] EXCEPT !.state = "FAILED"] ELSE lse[d]]

(* _apply_evaluation: store the verdict on the guard; when a limit is       *)
(* exceeded, stop every deployment and fail every live lease.               *)
Apply(lim, spd, att, lse) ==
    LET reason == Reason(lim, spd, att, lse, 0)
    IN  /\ blocked' = reason
        /\ limit' = lim
        /\ spend' = spd
        /\ attempt' = att
        /\ desired' = [d \in Deployments |->
              IF reason # "none" /\ desired[d] # "PLANNED" THEN "STOPPED" ELSE desired[d]]
        /\ lease' = [d \in Deployments |->
              IF reason # "none" /\ lse[d].state \in LiveLease
              THEN [lse[d] EXCEPT !.state = "FAILED"] ELSE lse[d]]

-----------------------------------------------------------------------------

(* Mutant: the new limits are stored in the wrong columns.                  *)
EnsureSwapped(lim) ==
    /\ Apply(<<lim[2], lim[1]>>, spend, attempt, lease)
    /\ UNCHANGED now

EnsureBudgetGuard(lim) ==
    /\ Apply(lim, spend, attempt, lease)
    /\ UNCHANGED now

Reevaluate ==
    /\ Apply(limit, spend, attempt, lease)
    /\ UNCHANGED now

(* preflight_attempt_budget stores the verdict that includes the proposed   *)
(* amount but never engages the kill switch.                                *)
Preflight(a, amount) ==
    /\ attempt[a].state = "CREATED"
    /\ blocked' = Reason(limit, spend, attempt, lease, amount)
    /\ UNCHANGED <<now, limit, attempt, spend, desired, lease>>

Reserve(a, amount) ==
    LET reason == Reason(limit, spend, attempt, lease, amount)
    IN  /\ attempt[a] = [state |-> "CREATED", cost |-> 0, released |-> FALSE]
        /\ blocked' = reason
        /\ attempt' = IF reason = "none"
              THEN [attempt EXCEPT ![a] =
                      [state |-> "SUBMITTING", cost |-> amount, released |-> FALSE]]
              ELSE attempt
        /\ UNCHANGED <<now, limit, spend, desired, lease>>

(* Mutant: the guards of _rearm_deferred_job_input are dropped.             *)
RearmUnguarded(a) ==
    /\ attempt[a].cost > 0
    /\ Apply(limit, spend,
             [attempt EXCEPT ![a] = [state |-> "CREATED", cost |-> 0, released |-> FALSE]], lease)
    /\ UNCHANGED now

(* _rearm_deferred_job_input: the attempt gives its reservation back and    *)
(* becomes reservable again.                                                *)
Rearm(a) ==
    /\ attempt[a].state = "SUBMITTING"
    /\ attempt[a].cost > 0 /\ ~attempt[a].released
    /\ Apply(limit, spend,
             [attempt EXCEPT ![a] = [state |-> "CREATED", cost |-> 0, released |-> FALSE]], lease)
    /\ UNCHANGED now

(* The POST was sent: no budget operation runs.                             *)
OutcomeAmbiguous(a) ==
    /\ attempt[a].state = "SUBMITTING"
    /\ attempt' = [attempt EXCEPT ![a].state = "UNKNOWN"]
    /\ UNCHANGED <<now, limit, blocked, spend, desired, lease>>

(* Mutant: the terminal transition forgets the reservation.                 *)
FinishWithoutRelease(a) ==
    /\ attempt[a].state \notin TerminalAttempt
    /\ attempt' = [attempt EXCEPT ![a].state = "FAILED"]
    /\ UNCHANGED <<now, limit, blocked, spend, desired, lease>>

(* The attempt ends; the same transaction releases its reservation.         *)
Finish(a) ==
    /\ attempt[a].state \notin TerminalAttempt
    /\ LET failed == [attempt EXCEPT ![a].state = "FAILED"]
       IN  IF attempt[a].cost > 0 /\ ~attempt[a].released
           THEN Apply(limit, spend, [failed EXCEPT ![a].released = TRUE], lease)
           ELSE attempt' = failed /\ UNCHANGED <<limit, blocked, spend, desired, lease>>
    /\ UNCHANGED now

(* A terminal attempt is observed again and its release replayed.           *)
ReplayRelease(a) ==
    /\ attempt[a].state \in TerminalAttempt
    /\ attempt[a].cost > 0
    /\ Apply(limit, spend, [attempt EXCEPT ![a].released = TRUE], lease)
    /\ UNCHANGED now

(* Mutant: usage is recorded without evaluating the guard again.            *)
RecordSpendOnly(k, entry) ==
    /\ entry.at <= now
    /\ desired[entry.deployment] # "PLANNED"
    /\ spend[k] \in {NoEntry, entry}
    /\ spend' = [spend EXCEPT ![k] = entry]
    /\ UNCHANGED <<now, limit, blocked, attempt, desired, lease>>

(* record_spend_entry by _meter_runtime_interval: usage of a segment that   *)
(* began at or before the clock. A stored key with the same data is         *)
(* replayed; with other data it is refused.                                 *)
RecordSpend(k, entry) ==
    /\ entry.at <= now
    /\ desired[entry.deployment] # "PLANNED"
    /\ spend[k] \in {NoEntry, entry}
    /\ Apply(limit, [spend EXCEPT ![k] = entry], attempt, lease)
    /\ UNCHANGED now

-----------------------------------------------------------------------------
(* Deployments and warm leases.                                             *)

(* A new deployment version becomes current: the previous one is stopped    *)
(* and the new one is wanted ACTIVE, whatever the guard says.               *)
ActivateDeployment(d) ==
    /\ desired[d] = "PLANNED"
    /\ desired' = [e \in Deployments |->
          IF e = d THEN "ACTIVE" ELSE IF desired[e] = "ACTIVE" THEN "STOPPED" ELSE desired[e]]
    /\ UNCHANGED <<now, limit, blocked, attempt, spend, lease>>

TimedOut(d) == lease[d].state = "STARTING" /\ now >= lease[d].start + LeaseSpan

(* Mutant: the lease is admitted when current commitments fit, its own cost *)
(* left out.                                                                *)
StartLeaseUnpriced(d) ==
    LET retired == IF TimedOut(d) THEN [lease EXCEPT ![d].state = "EXPIRED"] ELSE lease
    IN  /\ desired[d] = "ACTIVE"
        /\ retired[d].state \notin LiveLease
        /\ Reason(limit, spend, attempt, retired, 0) = "none"
        /\ blocked' = "none"
        /\ lease' = [retired EXCEPT ![d] = [state |-> "STARTING", start |-> now]]
        /\ UNCHANGED <<now, limit, attempt, spend, desired>>

(* start_experiment_warm_lease: evaluate, retire an unusable predecessor,   *)
(* evaluate again, and admit the whole lease or nothing. A refusal rolls    *)
(* the transaction back.                                                    *)
StartLease(d) ==
    LET retired == IF TimedOut(d) THEN [lease EXCEPT ![d].state = "EXPIRED"] ELSE lease
    IN  /\ desired[d] = "ACTIVE"
        /\ retired[d].state \notin LiveLease
        /\ Reason(limit, spend, attempt, lease, 0) = "none"
        /\ Reason(limit, spend, attempt, retired, LeaseCost) = "none"
        /\ blocked' = "none"
        /\ lease' = [retired EXCEPT ![d] = [state |-> "STARTING", start |-> now]]
        /\ UNCHANGED <<now, limit, attempt, spend, desired>>

ExpireLease(d) ==
    /\ TimedOut(d)
    /\ lease' = [lease EXCEPT ![d].state = "EXPIRED"]
    /\ UNCHANGED <<now, limit, blocked, attempt, spend, desired>>

EndLease(d) ==
    /\ lease[d].state = "STARTING"
    /\ lease' = [lease EXCEPT ![d].state = "ENDING"]
    /\ UNCHANGED <<now, limit, blocked, attempt, spend, desired>>

CompleteEnding(d) ==
    /\ lease[d].state = "ENDING"
    /\ lease' = [lease EXCEPT ![d].state = "ENDED"]
    /\ UNCHANGED <<now, limit, blocked, attempt, spend, desired>>

Tick ==
    /\ now < MaxTime
    /\ now' = now + 1
    /\ UNCHANGED <<limit, blocked, attempt, spend, desired, lease>>

-----------------------------------------------------------------------------
Next ==
    \/ \E lim \in Limits : EnsureBudgetGuard(lim)
    \/ Reevaluate
    \/ \E a \in Attempts : \E amount \in Amounts : Preflight(a, amount) \/ Reserve(a, amount)
    \/ \E a \in Attempts : Rearm(a) \/ OutcomeAmbiguous(a) \/ Finish(a) \/ ReplayRelease(a)
    \/ \E k \in Segments : \E entry \in Entries : RecordSpend(k, entry)
    \/ \E d \in Deployments :
          \/ ActivateDeployment(d) \/ StartLease(d) \/ ExpireLease(d)
          \/ EndLease(d) \/ CompleteEnding(d)
    \/ Tick

(* budget_once runs on every controller tick with the configured limits.    *)
Spec == Init /\ [][Next]_vars /\ WF_vars(EnsureBudgetGuard(limit))

-----------------------------------------------------------------------------
Over == Reason(limit, spend, attempt, lease, 0) # "none"

Committed == Commitments(attempt, lease, spend)

(* Commitments above a limit never coexist with an OPEN guard or a live     *)
(* warm lease: every operation that can raise them, or lower a limit,       *)
(* evaluates in its own transaction (budgets.py _apply_evaluation).         *)
OverLimitIsFenced ==
    Over => blocked # "none" /\ \A d \in Deployments : lease[d].state \notin LiveLease

(* An attempt whose provider outcome is open holds its reservation, and a   *)
(* finished attempt holds none: money is neither promised twice nor leaked. *)
ReservationFollowsOutcome ==
    \A a \in Attempts :
        /\ attempt[a].state \in {"SUBMITTING", "UNKNOWN"} =>
              attempt[a].cost > 0 /\ ~attempt[a].released
        /\ attempt[a].state \in TerminalAttempt /\ attempt[a].cost > 0 => attempt[a].released

(* A step that raises what is committed ends within both limits: nothing is *)
(* admitted on top of an exhausted budget, whatever was metered, rearmed or *)
(* expired since the last verdict (reserve_attempt_budget,                  *)
(* start_experiment_warm_lease).                                            *)
AdmissionFits ==
    [][Committed' > Committed =>
          /\ DailySpend(spend', now') + Committed' <= limit'[1]
          /\ MonthlySpend(spend', now') + Committed' <= limit'[2]]_vars

(* A released reservation stays released: no later observation, retry or    *)
(* replay of the same attempt can commit the money again.                   *)
ReleasedForGood ==
    [][\A a \in Attempts : attempt[a].released =>
          attempt'[a].released /\ attempt'[a].cost = attempt[a].cost]_vars

(* While the budget stays exhausted a deployment activated behind the       *)
(* guard's back is stopped by a later tick of budget_once.                  *)
ExhaustedBudgetStops ==
    \A d \in Deployments : (Over /\ desired[d] = "ACTIVE") ~> (desired[d] = "STOPPED" \/ ~Over)
=============================================================================
