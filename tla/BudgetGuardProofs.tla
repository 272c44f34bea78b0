-------------------------- MODULE BudgetGuardProofs --------------------------
(* Proofs about the provider budget guard, for every set of attempts,       *)
(* deployments, amounts and limits.                                         *)
EXTENDS BudgetGuard, SumTheorems

AttemptRecord ==
    [state : {"CREATED", "SUBMITTING", "UNKNOWN", "FAILED"},
     cost : Amounts \cup {0}, released : BOOLEAN]

(* The strengthening of ReservationFollowsOutcome: the attempts are         *)
(* well-formed, and an attempt that is still CREATED holds nothing and has  *)
(* released nothing, so a later Reserve starts from a clean record.         *)
ReservationInv ==
    /\ attempt \in [Attempts -> AttemptRecord]
    /\ ReservationFollowsOutcome
    /\ \A a \in Attempts : attempt[a].state = "CREATED" =>
          attempt[a].cost = 0 /\ ~attempt[a].released

(* The initial attempts satisfy the invariant.                              *)
LEMMA ReservationInit == Init => ReservationInv
  BY DEF Init, ReservationInv, ReservationFollowsOutcome, AttemptRecord, TerminalAttempt

(* Every operation of the guard preserves it.                               *)
LEMMA ReservationStep == ReservationInv /\ [Next]_vars => ReservationInv'
<1> SUFFICES ASSUME ReservationInv, [Next]_vars PROVE ReservationInv'
  OBVIOUS
<1> USE BudgetAssumption DEF ReservationInv, ReservationFollowsOutcome, AttemptRecord,
                             TerminalAttempt
<1>same. ASSUME attempt' = attempt PROVE ReservationInv'
  BY <1>same
<1>1. CASE UNCHANGED vars
  BY <1>1, <1>same DEF vars
<1>2. ASSUME NEW lim \in Limits, EnsureBudgetGuard(lim) PROVE ReservationInv'
  BY <1>2, <1>same DEF EnsureBudgetGuard, Apply
<1>3. CASE Reevaluate
  BY <1>3, <1>same DEF Reevaluate, Apply
<1>4. ASSUME NEW a \in Attempts, NEW amount \in Amounts, Preflight(a, amount)
      PROVE ReservationInv'
  BY <1>4, <1>same DEF Preflight
<1>5. ASSUME NEW a \in Attempts, NEW amount \in Amounts, Reserve(a, amount)
      PROVE ReservationInv'
  <2>1. CASE attempt' = attempt
    BY <2>1, <1>same
  <2>2. CASE attempt' = [attempt EXCEPT ![a] =
                            [state |-> "SUBMITTING", cost |-> amount, released |-> FALSE]]
    BY <2>2
  <2> QED BY <1>5, <2>1, <2>2 DEF Reserve
<1>6. ASSUME NEW a \in Attempts, Rearm(a) PROVE ReservationInv'
  <2>1. attempt' = [attempt EXCEPT ![a] = [state |-> "CREATED", cost |-> 0, released |-> FALSE]]
    BY <1>6 DEF Rearm, Apply
  <2> QED BY <2>1
<1>7. ASSUME NEW a \in Attempts, OutcomeAmbiguous(a) PROVE ReservationInv'
  BY <1>7 DEF OutcomeAmbiguous
<1>8. ASSUME NEW a \in Attempts, Finish(a) PROVE ReservationInv'
  <2>1. CASE attempt[a].cost > 0 /\ ~attempt[a].released
    <3>1. attempt' = [[attempt EXCEPT ![a].state = "FAILED"] EXCEPT ![a].released = TRUE]
      BY <1>8, <2>1 DEF Finish, Apply
    <3> QED BY <3>1, ZenonT(40)
  <2>2. CASE ~(attempt[a].cost > 0 /\ ~attempt[a].released)
    <3>1. attempt' = [attempt EXCEPT ![a].state = "FAILED"]
      BY <1>8, <2>2 DEF Finish
    <3> QED BY <2>2, <3>1
  <2> QED BY <2>1, <2>2
<1>9. ASSUME NEW a \in Attempts, ReplayRelease(a) PROVE ReservationInv'
  <2>1. attempt' = [attempt EXCEPT ![a].released = TRUE]
    BY <1>9 DEF ReplayRelease, Apply
  <2>2. attempt[a].state = "FAILED"
    BY <1>9 DEF ReplayRelease
  <2> QED BY <2>1, <2>2
<1>10. ASSUME NEW k \in Segments, NEW entry \in Entries, RecordSpend(k, entry)
       PROVE ReservationInv'
  BY <1>10, <1>same DEF RecordSpend, Apply
<1>11. ASSUME NEW d \in Deployments,
              \/ ActivateDeployment(d) \/ StartLease(d) \/ ExpireLease(d)
              \/ EndLease(d) \/ CompleteEnding(d)
       PROVE ReservationInv'
  BY <1>11, <1>same DEF ActivateDeployment, StartLease, ExpireLease, EndLease, CompleteEnding
<1>12. CASE Tick
  BY <1>12, <1>same DEF Tick
<1> QED
  BY <1>1, <1>2, <1>3, <1>4, <1>5, <1>6, <1>7, <1>8, <1>9, <1>10, <1>11, <1>12 DEF Next

(* For every instance: an attempt whose outcome is open holds its           *)
(* reservation and a finished one holds none (budgets.py reserve, rearm and *)
(* release).                                                                *)
THEOREM ReservationCorrect == Spec => []ReservationFollowsOutcome
<1>1. ReservationInv => ReservationFollowsOutcome
  BY DEF ReservationInv
<1> QED BY ReservationInit, ReservationStep, <1>1, PTL DEF Spec
-----------------------------------------------------------------------------
(* Types.                                                                   *)

Leases == [state : {"NONE", "STARTING", "ENDING", "EXPIRED", "ENDED", "FAILED"},
           start : 0..MaxTime]
Spends == [Segments -> Entries \cup {NoEntry}]

LEMMA TypeIs ==
    TypeOK <=> /\ now \in 0..MaxTime /\ limit \in Limits
               /\ blocked \in {"none", "daily", "monthly"}
               /\ attempt \in [Attempts -> AttemptRecord]
               /\ spend \in Spends
               /\ desired \in [Deployments -> {"PLANNED", "ACTIVE", "STOPPED"}]
               /\ lease \in [Deployments -> Leases]
  BY DEF TypeOK, AttemptRecord, Leases, Spends

LEMMA ReasonIn ==
    ASSUME NEW lim, NEW spd, NEW att, NEW lse, NEW extra
    PROVE  Reason(lim, spd, att, lse, extra) \in {"none", "daily", "monthly"}
  BY DEF Reason

LEMMA ApplyTypes ==
    ASSUME TypeOK, NEW lim \in Limits, NEW spd \in Spends,
           NEW att \in [Attempts -> AttemptRecord],
           NEW lse \in [Deployments -> Leases],
           Apply(lim, spd, att, lse), now' = now
    PROVE  TypeOK'
<1>1. blocked' \in {"none", "daily", "monthly"}
  BY ReasonIn DEF Apply
<1>2. desired' \in [Deployments -> {"PLANNED", "ACTIVE", "STOPPED"}]
  BY TypeIs DEF Apply
<1>3. lease' \in [Deployments -> Leases]
  <2>1. PICK r : r = Reason(lim, spd, att, lse, 0)
    OBVIOUS
  <2>2. lease' = [d \in Deployments |->
              IF r # "none" /\ lse[d].state \in LiveLease
              THEN [lse[d] EXCEPT !.state = "FAILED"] ELSE lse[d]]
    BY <2>1 DEF Apply
  <2>3. QED
    BY <2>2 DEF Leases
<1>4. QED
  BY <1>1, <1>2, <1>3, TypeIs DEF Apply, TypeOK, Leases, Spends, AttemptRecord

LEMMA TypeInit == Init => TypeOK
  BY BudgetAssumption DEF Init, TypeOK

LEMMA TypeStep == TypeOK /\ [Next]_vars => TypeOK'
<1> SUFFICES ASSUME TypeOK, [Next]_vars PROVE TypeOK'
  OBVIOUS
<1> USE BudgetAssumption
<1>t. /\ now \in 0..MaxTime /\ limit \in Limits
      /\ blocked \in {"none", "daily", "monthly"}
      /\ attempt \in [Attempts -> AttemptRecord] /\ spend \in Spends
      /\ desired \in [Deployments -> {"PLANNED", "ACTIVE", "STOPPED"}]
      /\ lease \in [Deployments -> Leases]
  BY TypeIs
<1>1. CASE UNCHANGED vars
  BY <1>1 DEF vars, TypeOK
<1>2. ASSUME NEW lim \in Limits, EnsureBudgetGuard(lim) PROVE TypeOK'
  BY <1>t, <1>2, ApplyTypes DEF EnsureBudgetGuard
<1>3. CASE Reevaluate
  BY <1>t, <1>3, ApplyTypes DEF Reevaluate
<1>4. ASSUME NEW a \in Attempts, NEW amount \in Amounts, Preflight(a, amount)
      PROVE TypeOK'
  <2>1. blocked' \in {"none", "daily", "monthly"}
    BY <1>4, ReasonIn DEF Preflight
  <2>2. QED
    BY <1>4, <2>1 DEF Preflight, TypeOK
<1>5. ASSUME NEW a \in Attempts, NEW amount \in Amounts, Reserve(a, amount)
      PROVE TypeOK'
  <2>1. blocked' \in {"none", "daily", "monthly"}
    BY <1>5, ReasonIn DEF Reserve
  <2>2. attempt' \in [Attempts -> AttemptRecord]
    <3>1. CASE attempt' = attempt
      BY <1>t, <3>1
    <3>2. CASE attempt' = [attempt EXCEPT ![a] =
                              [state |-> "SUBMITTING", cost |-> amount, released |-> FALSE]]
      BY <1>t, <3>2 DEF AttemptRecord
    <3>3. QED
      BY <1>5, <3>1, <3>2 DEF Reserve
  <2>3. QED
    BY <1>5, <2>1, <2>2 DEF Reserve, TypeOK, AttemptRecord
<1>6. ASSUME NEW a \in Attempts, Rearm(a) PROVE TypeOK'
  <2>1. PICK att : att = [attempt EXCEPT ![a] =
                            [state |-> "CREATED", cost |-> 0, released |-> FALSE]]
    OBVIOUS
  <2>2. att \in [Attempts -> AttemptRecord]
    BY <1>t, <2>1 DEF AttemptRecord
  <2>3. Apply(limit, spend, att, lease) /\ now' = now
    BY <1>6, <2>1 DEF Rearm
  <2>4. QED
    BY <1>t, <2>2, <2>3, ApplyTypes
<1>7. ASSUME NEW a \in Attempts, OutcomeAmbiguous(a) PROVE TypeOK'
  BY <1>7 DEF OutcomeAmbiguous, TypeOK
<1>8. ASSUME NEW a \in Attempts, Finish(a) PROVE TypeOK'
  <2>1. CASE attempt[a].cost > 0 /\ ~attempt[a].released
    <3>1. PICK att : att = [[attempt EXCEPT ![a].state = "FAILED"] EXCEPT ![a].released = TRUE]
      OBVIOUS
    <3>2. att \in [Attempts -> AttemptRecord]
      BY <1>t, <3>1, ZenonT(40) DEF AttemptRecord
    <3>3. Apply(limit, spend, att, lease) /\ now' = now
      BY <1>8, <2>1, <3>1 DEF Finish
    <3>4. QED
      BY <1>t, <3>2, <3>3, ApplyTypes
  <2>2. CASE ~(attempt[a].cost > 0 /\ ~attempt[a].released)
    BY <1>8, <2>2 DEF Finish, TypeOK
  <2>3. QED
    BY <2>1, <2>2
<1>9. ASSUME NEW a \in Attempts, ReplayRelease(a) PROVE TypeOK'
  <2>1. PICK att : att = [attempt EXCEPT ![a].released = TRUE]
    OBVIOUS
  <2>2. att \in [Attempts -> AttemptRecord]
    BY <1>t, <2>1 DEF AttemptRecord
  <2>3. Apply(limit, spend, att, lease) /\ now' = now
    BY <1>9, <2>1 DEF ReplayRelease
  <2>4. QED
    BY <1>t, <2>2, <2>3, ApplyTypes
<1>10. ASSUME NEW k \in Segments, NEW entry \in Entries, RecordSpend(k, entry)
       PROVE TypeOK'
  <2>1. PICK spd : spd = [spend EXCEPT ![k] = entry]
    OBVIOUS
  <2>2. spd \in Spends
    BY <1>t, <2>1 DEF Spends
  <2>3. Apply(limit, spd, attempt, lease) /\ now' = now
    BY <1>10, <2>1 DEF RecordSpend
  <2>4. QED
    BY <1>t, <2>2, <2>3, ApplyTypes
<1>11. ASSUME NEW d \in Deployments,
              \/ ActivateDeployment(d) \/ StartLease(d) \/ ExpireLease(d)
              \/ EndLease(d) \/ CompleteEnding(d)
       PROVE TypeOK'
  <2>1. CASE ActivateDeployment(d)
    BY <2>1 DEF ActivateDeployment, TypeOK
  <2>2. CASE StartLease(d)
    <3>1. \E retired \in [Deployments -> Leases] :
             lease' = [retired EXCEPT ![d] = [state |-> "STARTING", start |-> now]]
      <4>1. lease \in [Deployments -> Leases]
            /\ [lease EXCEPT ![d].state = "EXPIRED"] \in [Deployments -> Leases]
        BY <1>t DEF Leases
      <4>2. QED
        BY <2>2, <4>1 DEF StartLease
    <3>2. lease' \in [Deployments -> Leases]
      BY <1>t, <3>1 DEF Leases
    <3>3. QED
      BY <2>2, <3>2 DEF StartLease, TypeOK, Leases
  <2>3. CASE ExpireLease(d) \/ EndLease(d) \/ CompleteEnding(d)
    BY <2>3 DEF ExpireLease, EndLease, CompleteEnding, TypeOK
  <2>4. QED
    BY <1>11, <2>1, <2>2, <2>3
<1>12. CASE Tick
  BY <1>12 DEF Tick, TypeOK
<1> QED
  BY <1>1, <1>2, <1>3, <1>4, <1>5, <1>6, <1>7, <1>8, <1>9, <1>10, <1>11, <1>12 DEF Next

(* The guard, its attempts, its metered segments and its leases stay        *)
(* well-formed under every operation of services/budgets.py.                *)
THEOREM Typing == Spec => []TypeOK
<1> QED BY TypeInit, TypeStep, PTL DEF Spec

(* A reservation that was released stays released, and its amount is kept:  *)
(* reserve_attempt_budget wants a clean attempt, and _rearm_deferred_job_   *)
(* input one that still holds its reservation.                              *)
THEOREM ReleaseIsFinal == Spec => ReleasedForGood
<1> DEFINE Kept == \A a \in Attempts : attempt[a].released =>
                      attempt'[a].released /\ attempt'[a].cost = attempt[a].cost
<1>1. TypeOK /\ [Next]_vars => [Kept]_vars
  <2> SUFFICES ASSUME TypeOK, Next PROVE Kept
    BY DEF vars
  <2> USE DEF AttemptRecord
  <2>t. attempt \in [Attempts -> AttemptRecord]
    BY TypeIs
  <2>1. CASE attempt' = attempt
    BY <2>1
  <2>2. ASSUME NEW a \in Attempts, NEW amount \in Amounts,
               attempt[a] = [state |-> "CREATED", cost |-> 0, released |-> FALSE],
               attempt' = [attempt EXCEPT ![a] =
                  [state |-> "SUBMITTING", cost |-> amount, released |-> FALSE]]
        PROVE  Kept
    BY <2>t, <2>2
  <2>3. ASSUME NEW a \in Attempts, ~attempt[a].released,
               attempt' = [attempt EXCEPT ![a] =
                  [state |-> "CREATED", cost |-> 0, released |-> FALSE]]
        PROVE  Kept
    BY <2>t, <2>3
  <2>4. ASSUME NEW a \in Attempts, NEW s, attempt' = [attempt EXCEPT ![a].state = s]
        PROVE  Kept
    BY <2>t, <2>4
  <2>5. ASSUME NEW a \in Attempts, attempt' = [attempt EXCEPT ![a].released = TRUE]
        PROVE  Kept
    BY <2>t, <2>5
  <2>6. ASSUME NEW a \in Attempts, Finish(a) PROVE Kept
    <3>1. CASE attempt' = [attempt EXCEPT ![a].state = "FAILED"]
      BY <2>4, <3>1
    <3>2. CASE attempt' = [[attempt EXCEPT ![a].state = "FAILED"] EXCEPT ![a].released = TRUE]
      BY <2>t, <3>2
    <3>3. QED
      BY <2>6, <3>1, <3>2 DEF Finish, Apply
  <2>7. ASSUME NEW a \in Attempts, NEW amount \in Amounts,
               Preflight(a, amount) \/ Reserve(a, amount)
        PROVE  Kept
    BY <2>1, <2>2, <2>7 DEF Preflight, Reserve
  <2>8. ASSUME NEW a \in Attempts, Rearm(a) \/ OutcomeAmbiguous(a) \/ ReplayRelease(a)
        PROVE  Kept
    BY <2>3, <2>4, <2>5, <2>8 DEF Rearm, OutcomeAmbiguous, ReplayRelease, Apply
  <2>9. QED
    BY <2>1, <2>6, <2>7, <2>8
    DEF Next, EnsureBudgetGuard, Reevaluate, RecordSpend, Apply, ActivateDeployment,
        StartLease, ExpireLease, EndLease, CompleteEnding, Tick
<1>2. QED
  BY <1>1, Typing, PTL DEF Spec, ReleasedForGood

-----------------------------------------------------------------------------
(* The totals.                                                              *)

LEMMA CostsAre ==
    ASSUME NEW spd \in Spends, NEW S \in SUBSET Segments
    PROVE  /\ IsFiniteSet(S)
           /\ \A k \in S : Costs(spd)[k] \in Nat
           /\ SumFunctionOnSet(Costs(spd), S) \in Nat
<1>1. IsFiniteSet(S)
  BY BudgetAssumption, FS_Subset
<1>2. \A k \in S : Costs(spd)[k] \in Nat
  <2> SUFFICES ASSUME NEW k \in S PROVE Costs(spd)[k] \in Nat
    OBVIOUS
  <2>1. spd[k] \in Entries \cup {NoEntry} /\ Costs(spd)[k] = spd[k].amount
    BY DEF Costs, Spends
  <2>2. CASE spd[k] \in Entries
    BY <2>1, <2>2, BudgetAssumption DEF Entries
  <2>3. CASE spd[k] = NoEntry
    BY <2>1, <2>3 DEF NoEntry
  <2>4. QED
    BY <2>1, <2>2, <2>3
<1>3. QED
  BY <1>1, <1>2, SumInNat

LEMMA SpendsAre ==
    ASSUME NEW spd \in Spends
    PROVE  /\ \A t : DailySpend(spd, t) \in Nat /\ MonthlySpend(spd, t) \in Nat
           /\ \A lse, d : Realized(lse, spd, d) \in Nat
  BY CostsAre DEF DailySpend, MonthlySpend, Realized, Recorded

Weight(lse, spd) == [d \in Deployments |-> Positive(LeaseCost - Realized(lse, spd, d))]
Live(lse) == {d \in Deployments : lse[d].state \in LiveLease}

LEMMA WarmLeasesAre ==
    ASSUME NEW spd \in Spends, NEW lse
    PROVE  /\ WarmLeases(lse, spd) = SumFunctionOnSet(Weight(lse, spd), Live(lse))
           /\ WarmLeases(lse, spd) \in Nat
           /\ IsFiniteSet(Live(lse)) /\ Live(lse) \in SUBSET Deployments
           /\ \A d \in Deployments : Weight(lse, spd)[d] \in 0..LeaseCost
<1>1. WarmLeases(lse, spd) = SumFunctionOnSet(Weight(lse, spd), Live(lse))
  BY DEF WarmLeases, Weight, Live
<1>2. Live(lse) \in SUBSET Deployments
  BY DEF Live
<1>3. IsFiniteSet(Live(lse))
  BY <1>2, BudgetAssumption, FS_Subset
<1>4. \A d \in Deployments : Weight(lse, spd)[d] \in 0..LeaseCost
  <2>1. \A d \in Deployments : Realized(lse, spd, d) \in Nat
    BY SpendsAre
  <2>2. QED
    BY <2>1, BudgetAssumption DEF Weight, Positive
<1>5. SumFunctionOnSet(Weight(lse, spd), Live(lse)) \in Nat
  <2>1. \A d \in Live(lse) : Weight(lse, spd)[d] \in Nat
    BY <1>2, <1>4, BudgetAssumption
  <2>2. QED
    BY <1>3, <2>1, SumInNat
<1>6. QED
  BY <1>1, <1>2, <1>3, <1>4, <1>5

(* Ending or failing leases frees money.                                    *)
LEMMA FewerLeases ==
    ASSUME NEW spd \in Spends, NEW new, NEW old,
           \A d \in Live(new) : d \in Live(old) /\ new[d].start = old[d].start
    PROVE  WarmLeases(new, spd) <= WarmLeases(old, spd)
<1> DEFINE f == Weight(new, spd)  g == Weight(old, spd)
<1>1. \A d \in Live(new) : f[d] = g[d]
  <2> SUFFICES ASSUME NEW d \in Live(new) PROVE f[d] = g[d]
    OBVIOUS
  <2>1. d \in Deployments /\ Realized(new, spd, d) = Realized(old, spd, d)
    BY DEF Realized, Live
  <2>2. QED
    BY <2>1 DEF Weight
<1>2. Live(new) \in SUBSET Live(old)
  OBVIOUS
<1>3. \A d \in Live(old) : g[d] \in Nat
  BY WarmLeasesAre, BudgetAssumption
<1> HIDE DEF f, g
<1>4. SumFunctionOnSet(f, Live(new)) = SumFunctionOnSet(g, Live(new))
  BY <1>1, WarmLeasesAre, SumSame
<1>5. SumFunctionOnSet(g, Live(new)) <= SumFunctionOnSet(g, Live(old))
  BY <1>2, <1>3, WarmLeasesAre, SumOfFewer
<1>6. QED
  BY <1>4, <1>5, WarmLeasesAre DEF f, g

(* A new lease commits at most its whole cost.                              *)
LEMMA OneMoreLease ==
    ASSUME NEW spd \in Spends, NEW old \in [Deployments -> Leases], NEW d \in Deployments,
           d \notin Live(old), NEW r, NEW new, new = [old EXCEPT ![d] = r]
    PROVE  WarmLeases(new, spd) <= WarmLeases(old, spd) + LeaseCost
<1> DEFINE f == Weight(new, spd)  g == Weight(old, spd)
           L == Live(new)  M == Live(old)
<1>1. \A e \in L \ {d} : e \in M /\ f[e] = g[e]
  <2> SUFFICES ASSUME NEW e \in L \ {d} PROVE e \in M /\ f[e] = g[e]
    OBVIOUS
  <2>1. e \in Deployments /\ new[e] = old[e]
    BY DEF Live
  <2>2. Realized(new, spd, e) = Realized(old, spd, e)
    BY <2>1 DEF Realized
  <2>3. QED
    BY <2>1, <2>2 DEF Weight, Live
<1>2. /\ IsFiniteSet(L) /\ IsFiniteSet(M) /\ IsFiniteSet(L \ {d})
      /\ L \in SUBSET Deployments /\ M \in SUBSET Deployments
      /\ L \ {d} \in SUBSET M
  <2>1. IsFiniteSet(L) /\ IsFiniteSet(M)
        /\ L \in SUBSET Deployments /\ M \in SUBSET Deployments
    BY WarmLeasesAre
  <2>2. IsFiniteSet(L \ {d})
    BY <2>1, FS_Subset
  <2>3. QED
    BY <2>1, <2>2, <1>1
<1>3. \A e \in Deployments : f[e] \in 0..LeaseCost /\ g[e] \in 0..LeaseCost
  BY WarmLeasesAre
<1>4. LeaseCost \in Nat
  BY BudgetAssumption
<1>5. /\ WarmLeases(new, spd) = SumFunctionOnSet(f, L)
      /\ WarmLeases(old, spd) = SumFunctionOnSet(g, M)
      /\ WarmLeases(new, spd) \in Nat /\ WarmLeases(old, spd) \in Nat
  BY WarmLeasesAre
<1> HIDE DEF f, g, L, M
<1>6. SumFunctionOnSet(f, L \ {d}) = SumFunctionOnSet(g, L \ {d})
  BY <1>1, <1>2, SumSame
<1>7. SumFunctionOnSet(g, L \ {d}) <= SumFunctionOnSet(g, M)
  <2>1. \A e \in M : g[e] \in Nat
    BY <1>2, <1>3, <1>4
  <2>2. QED
    BY <1>2, <2>1, SumOfFewer
<1>8. CASE d \in L
  <2>1. \A e \in L : f[e] \in Nat
    BY <1>2, <1>3, <1>4
  <2>2. SumFunctionOnSet(f, L) = f[d] + SumFunctionOnSet(f, L \ {d})
    BY <1>2, <1>8, <2>1, SumWithout
  <2>3. SumFunctionOnSet(f, L \ {d}) \in Nat
    BY <1>2, <2>1, SumInNat
  <2>4. QED
    BY <1>3, <1>4, <1>5, <1>6, <1>7, <2>2, <2>3
<1>9. CASE d \notin L
  <2>1. L \ {d} = L
    BY <1>9
  <2>2. QED
    BY <1>4, <1>5, <1>6, <1>7, <2>1
<1>10. QED
  BY <1>8, <1>9

LEMMA CostsInNat ==
    ASSUME NEW att \in [Attempts -> AttemptRecord], NEW a \in Attempts
    PROVE  att[a].cost \in Nat
<1>1. Amounts \cup {0} \subseteq Nat
  BY BudgetAssumption
<1>2. QED
  BY <1>1 DEF AttemptRecord

Costing(att) == [a \in Attempts |-> att[a].cost]
Unreleased(att) == {a \in Attempts : ~att[a].released}

LEMMA ReservationsAre ==
    ASSUME NEW att \in [Attempts -> AttemptRecord]
    PROVE  /\ Reservations(att) = SumFunctionOnSet(Costing(att), Unreleased(att))
           /\ Reservations(att) \in Nat
           /\ IsFiniteSet(Unreleased(att)) /\ Unreleased(att) \in SUBSET Attempts
           /\ \A a \in Attempts : Costing(att)[a] \in Nat
<1>1. Reservations(att) = SumFunctionOnSet(Costing(att), Unreleased(att))
  BY DEF Reservations, Costing, Unreleased
<1>2. Unreleased(att) \in SUBSET Attempts
  BY DEF Unreleased
<1>3. IsFiniteSet(Unreleased(att))
  BY <1>2, BudgetAssumption, FS_Subset
<1>4. \A a \in Attempts : Costing(att)[a] \in Nat
  BY CostsInNat DEF Costing
<1>5. SumFunctionOnSet(Costing(att), Unreleased(att)) \in Nat
  BY <1>2, <1>3, <1>4, SumInNat
<1>6. QED
  BY <1>1, <1>2, <1>3, <1>4, <1>5

(* Releasing or returning reservations frees money.                         *)
LEMMA FewerReservations ==
    ASSUME NEW old \in [Attempts -> AttemptRecord], NEW new \in [Attempts -> AttemptRecord],
           \A a \in Attempts : ~new[a].released => ~old[a].released /\ new[a].cost <= old[a].cost
    PROVE  Reservations(new) <= Reservations(old)
<1> DEFINE U == Unreleased(new)  V == Unreleased(old)
           f == Costing(new)  g == Costing(old)
<1>1. U \in SUBSET V /\ \A a \in U : f[a] <= g[a]
  BY DEF Unreleased, Costing
<1>2. /\ IsFiniteSet(U) /\ IsFiniteSet(V)
      /\ \A a \in V : f[a] \in Nat /\ g[a] \in Nat
      /\ Reservations(new) = SumFunctionOnSet(f, U)
      /\ Reservations(old) = SumFunctionOnSet(g, V)
      /\ Reservations(new) \in Nat /\ Reservations(old) \in Nat
  BY ReservationsAre
<1> HIDE DEF U, V, f, g
<1>3. SumFunctionOnSet(f, U) <= SumFunctionOnSet(g, U)
  BY <1>1, <1>2, SumOfLess
<1>4. SumFunctionOnSet(g, U) <= SumFunctionOnSet(g, V)
  BY <1>1, <1>2, SumOfFewer
<1>5. SumFunctionOnSet(g, U) \in Nat
  BY <1>1, <1>2, SumInNat
<1>6. QED
  BY <1>2, <1>3, <1>4, <1>5

(* A reservation adds its amount.                                           *)
LEMMA OneMoreReservation ==
    ASSUME NEW old \in [Attempts -> AttemptRecord], NEW a \in Attempts,
           old[a].cost = 0, ~old[a].released, NEW amount \in Amounts, NEW new,
           new = [old EXCEPT ![a] =
              [state |-> "SUBMITTING", cost |-> amount, released |-> FALSE]]
    PROVE  Reservations(new) = Reservations(old) + amount
<1> DEFINE U == Unreleased(new)  V == Unreleased(old)
           f == Costing(new)  g == Costing(old)
<1>1. U = V /\ a \in V /\ f[a] = amount /\ g[a] = 0 /\ \A b \in V \ {a} : f[b] = g[b]
  BY DEF Unreleased, Costing, AttemptRecord
<1>2. amount \in Nat
  BY BudgetAssumption
<1>3. new \in [Attempts -> AttemptRecord]
  BY DEF AttemptRecord
<1>4. /\ IsFiniteSet(V) /\ \A b \in V : f[b] \in Nat /\ g[b] \in Nat
      /\ Reservations(new) = SumFunctionOnSet(f, U)
      /\ Reservations(old) = SumFunctionOnSet(g, V)
  BY <1>3, ReservationsAre
<1> HIDE DEF U, V, f, g
<1>5. /\ SumFunctionOnSet(f, V) = f[a] + SumFunctionOnSet(f, V \ {a})
      /\ SumFunctionOnSet(g, V) = g[a] + SumFunctionOnSet(g, V \ {a})
  BY <1>1, <1>4, SumWithout
<1>6. IsFiniteSet(V \ {a})
  BY <1>4, FS_Subset
<1>7. /\ SumFunctionOnSet(f, V \ {a}) = SumFunctionOnSet(g, V \ {a})
      /\ SumFunctionOnSet(f, V \ {a}) \in Nat
  BY <1>1, <1>4, <1>6, SumSame, SumInNat
<1>8. QED
  BY <1>1, <1>2, <1>4, <1>5, <1>7

-----------------------------------------------------------------------------
(* The verdict and the kill switch.                                         *)

Fits(lim, spd, committed, t) ==
    /\ DailySpend(spd, t) + committed <= lim[1]
    /\ MonthlySpend(spd, t) + committed <= lim[2]

LEMMA CommitmentsAre ==
    ASSUME NEW spd \in Spends, NEW att \in [Attempts -> AttemptRecord],
           NEW lse \in [Deployments -> Leases]
    PROVE  /\ Commitments(att, lse, spd) = Reservations(att) + WarmLeases(lse, spd)
           /\ Commitments(att, lse, spd) \in Nat
           /\ Reservations(att) \in Nat /\ WarmLeases(lse, spd) \in Nat
<1>1. Reservations(att) \in Nat /\ WarmLeases(lse, spd) \in Nat
  BY ReservationsAre, WarmLeasesAre
<1>2. QED
  BY <1>1 DEF Commitments

LEMMA ReasonFits ==
    ASSUME NEW lim \in Limits, NEW spd \in Spends,
           NEW att \in [Attempts -> AttemptRecord],
           NEW lse \in [Deployments -> Leases], NEW extra \in Nat
    PROVE  Reason(lim, spd, att, lse, extra) = "none"
              <=> Fits(lim, spd, Commitments(att, lse, spd) + extra, now)
<1> DEFINE c == Commitments(att, lse, spd)
           x == DailySpend(spd, now)  y == MonthlySpend(spd, now)
<1>1. c \in Nat /\ x \in Nat /\ y \in Nat
  BY CommitmentsAre, SpendsAre
<1>2. lim[1] \in Nat /\ lim[2] \in Nat
  BY BudgetAssumption
<1>3. Reason(lim, spd, att, lse, extra)
         = IF x + (c + extra) > lim[1] THEN "daily"
           ELSE IF y + (c + extra) > lim[2] THEN "monthly" ELSE "none"
  BY DEF Reason
<1>4. Fits(lim, spd, c + extra, now)
         <=> x + (c + extra) <= lim[1] /\ y + (c + extra) <= lim[2]
  BY DEF Fits
<1> HIDE DEF c, x, y
<1>5. QED
  BY <1>1, <1>2, <1>3, <1>4 DEF c

LEMMA OverIs == TypeOK => (Over <=> ~Fits(limit, spend, Committed, now))
<1> SUFFICES ASSUME TypeOK PROVE Over <=> ~Fits(limit, spend, Committed, now)
  OBVIOUS
<1>1. /\ limit \in Limits /\ spend \in Spends /\ lease \in [Deployments -> Leases]
      /\ attempt \in [Attempts -> AttemptRecord]
  BY TypeIs
<1>2. Over <=> ~Fits(limit, spend, Committed + 0, now)
  BY <1>1, ReasonFits DEF Over, Committed
<1>3. Committed + 0 = Committed
  BY <1>1, CommitmentsAre DEF Committed
<1>4. QED
  BY <1>2, <1>3

Fenced == blocked # "none" /\ Live(lease) = {}

(* Whatever is stored is stored with its verdict.                           *)
LEMMA ApplyFences ==
    ASSUME NEW lim \in Limits, NEW spd \in Spends,
           NEW att \in [Attempts -> AttemptRecord],
           NEW lse \in [Deployments -> Leases],
           Apply(lim, spd, att, lse), now' = now
    PROVE  Fits(limit', spend', Committed', now') \/ Fenced'
<1>1. PICK r : r = Reason(lim, spd, att, lse, 0)
  OBVIOUS
<1>2. /\ blocked' = r
      /\ lease' = [d \in Deployments |->
              IF r # "none" /\ lse[d].state \in LiveLease
              THEN [lse[d] EXCEPT !.state = "FAILED"] ELSE lse[d]]
  BY <1>1 DEF Apply
<1>3. CASE r = "none"
  <2>1. lease' = lse
    BY <1>2, <1>3
  <2>2. Committed' = Commitments(att, lse, spd)
    BY <2>1 DEF Committed, Apply
  <2>3. Fits(lim, spd, Commitments(att, lse, spd) + 0, now)
    BY <1>1, <1>3, ReasonFits
  <2>4. Commitments(att, lse, spd) + 0 = Commitments(att, lse, spd)
    BY CommitmentsAre
  <2>5. QED
    BY <2>2, <2>3, <2>4 DEF Apply
<1>4. CASE r # "none"
  <2>1. ASSUME NEW d \in Deployments PROVE lease'[d].state \notin LiveLease
    BY <1>2, <1>4 DEF Leases, LiveLease
  <2>2. QED
    BY <1>2, <1>4, <2>1 DEF Fenced, Live
<1>5. QED
  BY <1>3, <1>4

(* How a step may leave the commitments: within the limits, fenced, or no   *)
(* larger than they were.                                                   *)
Eases ==
    /\ spend' = spend /\ limit' = limit /\ now' >= now
    /\ Committed' <= Committed
    /\ Live(lease') \subseteq Live(lease)
    /\ Over /\ blocked # "none" => blocked' # "none"

Outcome ==
    \/ Fits(limit', spend', Committed', now')
    \/ Fenced' /\ Committed' <= Committed
    \/ Eases

LEMMA ApplyOutcome ==
    ASSUME TypeOK, NEW lim \in Limits, NEW spd \in Spends,
           NEW att \in [Attempts -> AttemptRecord],
           Reservations(att) <= Reservations(attempt),
           Apply(lim, spd, att, lease), now' = now
    PROVE  Outcome
<1>1. /\ lease \in [Deployments -> Leases] /\ spend \in Spends
      /\ attempt \in [Attempts -> AttemptRecord]
  BY TypeIs
<1>2. CASE Fits(limit', spend', Committed', now')
  BY <1>2 DEF Outcome
<1>3. CASE Fenced'
  <2>1. WarmLeases(lease', spd) = SumFunctionOnSet(Weight(lease', spd), {})
    BY <1>3, WarmLeasesAre DEF Fenced
  <2>2. WarmLeases(lease', spd) = 0
    BY <2>1, SumOfNone
  <2>3. Committed' = Reservations(att) + WarmLeases(lease', spd)
    BY DEF Committed, Commitments, Apply
  <2>4. Committed = Reservations(attempt) + WarmLeases(lease, spend)
    BY DEF Committed, Commitments
  <2>5. /\ Reservations(att) \in Nat /\ Reservations(attempt) \in Nat
        /\ WarmLeases(lease, spend) \in Nat
    BY <1>1, CommitmentsAre
  <2>6. Committed' <= Committed
    BY <2>2, <2>3, <2>4, <2>5
  <2>7. QED
    BY <1>3, <2>6 DEF Outcome
<1>4. QED
  BY <1>1, <1>2, <1>3, ApplyFences

(* A step that stores no verdict changes nothing that a verdict is about,   *)
(* or lowers it.                                                            *)
LEMMA LighterEases ==
    ASSUME TypeOK, TypeOK', spend' = spend, limit' = limit, now' >= now,
           Reservations(attempt') <= Reservations(attempt),
           \A d \in Live(lease') : d \in Live(lease) /\ lease'[d].start = lease[d].start,
           Over /\ blocked # "none" => blocked' # "none"
    PROVE  Outcome
<1>1. /\ lease \in [Deployments -> Leases] /\ spend \in Spends
      /\ attempt \in [Attempts -> AttemptRecord]
  BY TypeIs
<1>2. lease' \in [Deployments -> Leases] /\ attempt' \in [Attempts -> AttemptRecord]
  BY DEF TypeOK, Leases, AttemptRecord
<1>3. WarmLeases(lease', spend) <= WarmLeases(lease, spend)
  BY <1>1, FewerLeases
<1>4. Committed' = Reservations(attempt') + WarmLeases(lease', spend)
  BY DEF Committed, Commitments
<1>5. Committed = Reservations(attempt) + WarmLeases(lease, spend)
  BY DEF Committed, Commitments
<1>6. /\ Reservations(attempt') \in Nat /\ Reservations(attempt) \in Nat
      /\ WarmLeases(lease', spend) \in Nat /\ WarmLeases(lease, spend) \in Nat
  BY <1>1, <1>2, CommitmentsAre
<1>7. Committed' <= Committed
  BY <1>3, <1>4, <1>5, <1>6
<1>8. QED
  BY <1>7 DEF Outcome, Eases

LEMMA SameEases ==
    ASSUME TypeOK, TypeOK', spend' = spend, limit' = limit, now' >= now,
           attempt' = attempt, lease' = lease,
           Over /\ blocked # "none" => blocked' # "none"
    PROVE  Outcome
<1>1. attempt \in [Attempts -> AttemptRecord]
  BY TypeIs
<1>2. Reservations(attempt') <= Reservations(attempt)
  BY <1>1, ReservationsAre
<1>3. \A d \in Live(lease') : d \in Live(lease) /\ lease'[d].start = lease[d].start
  OBVIOUS
<1>4. QED
  BY <1>2, <1>3, LighterEases

LEMMA ReserveOutcome ==
    ASSUME TypeOK, TypeOK', NEW a \in Attempts, NEW amount \in Amounts, Reserve(a, amount)
    PROVE  Outcome
<1>1. /\ limit \in Limits /\ spend \in Spends /\ lease \in [Deployments -> Leases]
      /\ attempt \in [Attempts -> AttemptRecord] /\ now \in Nat /\ amount \in Nat
  BY TypeIs, BudgetAssumption
<1>2. /\ blocked' = Reason(limit, spend, attempt, lease, amount)
      /\ now' = now /\ limit' = limit /\ spend' = spend /\ lease' = lease
  BY DEF Reserve
<1>3. CASE Reason(limit, spend, attempt, lease, amount) # "none"
  <2>1. attempt' = attempt /\ blocked' # "none"
    BY <1>3 DEF Reserve
  <2>2. QED
    BY <1>1, <1>2, <2>1, SameEases
<1>4. CASE Reason(limit, spend, attempt, lease, amount) = "none"
  <2>1. /\ attempt[a] = [state |-> "CREATED", cost |-> 0, released |-> FALSE]
        /\ attempt' = [attempt EXCEPT ![a] =
              [state |-> "SUBMITTING", cost |-> amount, released |-> FALSE]]
    BY <1>4 DEF Reserve
  <2>2. Reservations(attempt') = Reservations(attempt) + amount
    <3>1. PICK att : att = attempt'
      OBVIOUS
    <3>2. /\ attempt[a].cost = 0 /\ ~attempt[a].released
          /\ att = [attempt EXCEPT ![a] =
                [state |-> "SUBMITTING", cost |-> amount, released |-> FALSE]]
      BY <2>1, <3>1
    <3>3. Reservations(att) = Reservations(attempt) + amount
      BY <1>1, <3>2, OneMoreReservation
    <3>4. QED
      BY <3>1, <3>3
  <2>3. Committed' = Commitments(attempt, lease, spend) + amount
    <3>1. Committed' = Reservations(attempt') + WarmLeases(lease, spend)
      BY <1>2 DEF Committed, Commitments
    <3>2. QED
      BY <1>1, <2>2, <3>1, CommitmentsAre
  <2>4. Fits(limit, spend, Commitments(attempt, lease, spend) + amount, now)
    BY <1>1, <1>4, ReasonFits
  <2>5. QED
    BY <1>2, <2>3, <2>4 DEF Outcome
<1>5. QED
  BY <1>3, <1>4

LEMMA PreflightOutcome ==
    ASSUME TypeOK, TypeOK', NEW a \in Attempts, NEW amount \in Amounts, Preflight(a, amount)
    PROVE  Outcome
<1>1. /\ limit \in Limits /\ spend \in Spends /\ lease \in [Deployments -> Leases]
      /\ attempt \in [Attempts -> AttemptRecord] /\ now \in Nat /\ amount \in Nat
  BY TypeIs, BudgetAssumption
<1> DEFINE c == Commitments(attempt, lease, spend)
<1>2. /\ c \in Nat /\ DailySpend(spend, now) \in Nat /\ MonthlySpend(spend, now) \in Nat
      /\ limit[1] \in Nat /\ limit[2] \in Nat
  BY <1>1, CommitmentsAre, SpendsAre, BudgetAssumption
<1>3. ASSUME Over PROVE blocked' # "none"
  <2>1. ~Fits(limit, spend, c, now)
    BY <1>3, OverIs DEF Committed
  <2>2. ~Fits(limit, spend, c + amount, now)
    <3> HIDE DEF c
    <3>1. QED
      BY <1>1, <1>2, <2>1 DEF Fits
  <2>3. QED
    BY <1>1, <2>2, ReasonFits DEF Preflight
<1>4. /\ spend' = spend /\ limit' = limit /\ now' = now
      /\ attempt' = attempt /\ lease' = lease
  BY DEF Preflight
<1>5. QED
  BY <1>1, <1>3, <1>4, SameEases

LEMMA FinishOutcome ==
    ASSUME TypeOK, TypeOK', NEW a \in Attempts,
           Rearm(a) \/ OutcomeAmbiguous(a) \/ Finish(a) \/ ReplayRelease(a)
    PROVE  Outcome
<1>1. /\ limit \in Limits /\ spend \in Spends /\ lease \in [Deployments -> Leases]
      /\ attempt \in [Attempts -> AttemptRecord] /\ now \in Nat
      /\ attempt' \in [Attempts -> AttemptRecord]
  <2>1. attempt' \in [Attempts -> AttemptRecord]
    BY DEF TypeOK, AttemptRecord
  <2>2. QED
    BY <2>1, TypeIs, BudgetAssumption
<1>2. CASE Rearm(a)
  <2>1. PICK att : att = [attempt EXCEPT ![a] =
                            [state |-> "CREATED", cost |-> 0, released |-> FALSE]]
    OBVIOUS
  <2>2. Apply(limit, spend, att, lease) /\ now' = now /\ ~attempt[a].released
    BY <1>2, <2>1 DEF Rearm
  <2>3. att \in [Attempts -> AttemptRecord]
    BY <1>1, <2>1 DEF AttemptRecord
  <2>4. \A b \in Attempts : ~att[b].released =>
           ~attempt[b].released /\ att[b].cost <= attempt[b].cost
    <3>1. \A b \in Attempts : attempt[b].cost \in Nat
      BY <1>1, CostsInNat
    <3>2. QED
      BY <1>1, <2>1, <2>2, <3>1
  <2>5. Reservations(att) <= Reservations(attempt)
    BY <1>1, <2>3, <2>4, FewerReservations
  <2>6. QED
    BY <1>1, <2>2, <2>3, <2>5, ApplyOutcome
<1>3. ASSUME NEW att, att = [attempt EXCEPT ![a] = [@ EXCEPT !.state = "FAILED", !.released = TRUE]],
             Apply(limit, spend, att, lease), now' = now
      PROVE  Outcome
  <2>1. att \in [Attempts -> AttemptRecord]
    BY <1>1, <1>3 DEF AttemptRecord
  <2>2. \A b \in Attempts : ~att[b].released =>
           ~attempt[b].released /\ att[b].cost <= attempt[b].cost
    <3>1. \A b \in Attempts : attempt[b].cost \in Nat
      BY <1>1, CostsInNat
    <3>2. QED
      BY <1>1, <1>3, <3>1 DEF AttemptRecord
  <2>3. Reservations(att) <= Reservations(attempt)
    BY <1>1, <2>1, <2>2, FewerReservations
  <2>4. QED
    BY <1>1, <1>3, <2>1, <2>3, ApplyOutcome
<1>4. ASSUME NEW s, attempt' = [attempt EXCEPT ![a].state = s],
             UNCHANGED <<now, limit, blocked, spend, lease>>
      PROVE  Outcome
  <2>1. \A b \in Attempts : ~attempt'[b].released =>
           ~attempt[b].released /\ attempt'[b].cost <= attempt[b].cost
    <3>1. \A b \in Attempts : attempt[b].cost \in Nat
      BY <1>1, CostsInNat
    <3>2. QED
      BY <1>1, <1>4, <3>1 DEF AttemptRecord
  <2>2. Reservations(attempt') <= Reservations(attempt)
    BY <1>1, <2>1, FewerReservations
  <2>3. \A d \in Live(lease') : d \in Live(lease) /\ lease'[d].start = lease[d].start
    BY <1>4
  <2>4. QED
    BY <1>1, <1>4, <2>2, <2>3, LighterEases
<1>5. CASE OutcomeAmbiguous(a)
  BY <1>4, <1>5 DEF OutcomeAmbiguous
<1>6. CASE ReplayRelease(a)
  <2>1. [attempt EXCEPT ![a].released = TRUE]
           = [attempt EXCEPT ![a] = [@ EXCEPT !.state = "FAILED", !.released = TRUE]]
    BY <1>1, <1>6 DEF ReplayRelease, TerminalAttempt, AttemptRecord
  <2>2. QED
    BY <1>3, <1>6, <2>1 DEF ReplayRelease
<1>7. CASE Finish(a)
  <2>1. CASE attempt[a].cost > 0 /\ ~attempt[a].released
    <3>1. [[attempt EXCEPT ![a].state = "FAILED"] EXCEPT ![a].released = TRUE]
             = [attempt EXCEPT ![a] = [@ EXCEPT !.state = "FAILED", !.released = TRUE]]
      BY <1>1 DEF AttemptRecord
    <3>2. QED
      BY <1>3, <1>7, <2>1, <3>1 DEF Finish
  <2>2. CASE ~(attempt[a].cost > 0 /\ ~attempt[a].released)
    BY <1>4, <1>7, <2>2 DEF Finish
  <2>3. QED
    BY <2>1, <2>2
<1>8. QED
  BY <1>2, <1>5, <1>6, <1>7

LEMMA LeaseOutcome ==
    ASSUME TypeOK, TypeOK', NEW d \in Deployments,
           \/ ActivateDeployment(d) \/ StartLease(d) \/ ExpireLease(d)
           \/ EndLease(d) \/ CompleteEnding(d)
    PROVE  Outcome
<1>1. /\ limit \in Limits /\ spend \in Spends /\ lease \in [Deployments -> Leases]
      /\ attempt \in [Attempts -> AttemptRecord] /\ now \in Nat
  BY TypeIs, BudgetAssumption
<1>2. Reservations(attempt) <= Reservations(attempt)
  BY <1>1, ReservationsAre
<1>3. CASE ActivateDeployment(d)
  BY <1>1, <1>3, SameEases DEF ActivateDeployment
<1>4. CASE StartLease(d)
  <2>1. PICK retired :
           /\ retired = IF TimedOut(d) THEN [lease EXCEPT ![d].state = "EXPIRED"] ELSE lease
           /\ retired[d].state \notin LiveLease
           /\ Reason(limit, spend, attempt, retired, LeaseCost) = "none"
           /\ lease' = [retired EXCEPT ![d] = [state |-> "STARTING", start |-> now]]
           /\ UNCHANGED <<now, limit, attempt, spend>>
    BY <1>4 DEF StartLease
  <2>2. retired \in [Deployments -> Leases] /\ d \notin Live(retired)
    BY <1>1, <2>1 DEF Leases, Live
  <2>3. LeaseCost \in Nat
    BY BudgetAssumption
  <2>4. Fits(limit, spend, Commitments(attempt, retired, spend) + LeaseCost, now)
    BY <1>1, <2>1, <2>2, <2>3, ReasonFits
  <2>5. WarmLeases(lease', spend) <= WarmLeases(retired, spend) + LeaseCost
    <3>1. PICK r, new : /\ r = [state |-> "STARTING", start |-> now]
                        /\ new = [retired EXCEPT ![d] = r] /\ new = lease'
      BY <2>1
    <3>2. WarmLeases(new, spend) <= WarmLeases(retired, spend) + LeaseCost
      BY <1>1, <2>2, <3>1, OneMoreLease
    <3>3. QED
      BY <3>1, <3>2
  <2>6. Committed' <= Commitments(attempt, retired, spend) + LeaseCost /\ Committed' \in Nat
    <3>1. Committed' = Reservations(attempt) + WarmLeases(lease', spend)
      BY <2>1 DEF Committed, Commitments
    <3>2. Reservations(attempt) \in Nat /\ WarmLeases(retired, spend) \in Nat
          /\ WarmLeases(lease', spend) \in Nat
      BY <1>1, ReservationsAre, WarmLeasesAre
    <3>3. Commitments(attempt, retired, spend)
             = Reservations(attempt) + WarmLeases(retired, spend)
      BY DEF Commitments
    <3>4. QED
      BY <2>3, <2>5, <3>1, <3>2, <3>3
  <2>7. Fits(limit, spend, Committed', now)
    <3> DEFINE c == Commitments(attempt, retired, spend)
               x == DailySpend(spend, now)  y == MonthlySpend(spend, now)
    <3>1. x \in Nat /\ y \in Nat /\ c \in Nat /\ limit[1] \in Nat /\ limit[2] \in Nat
      BY <1>1, <2>2, SpendsAre, CommitmentsAre, BudgetAssumption
    <3>2. x + (c + LeaseCost) <= limit[1] /\ y + (c + LeaseCost) <= limit[2]
      BY <2>4 DEF Fits
    <3>3. Committed' <= c + LeaseCost
      BY <2>6
    <3> HIDE DEF c, x, y
    <3>4. x + Committed' <= limit[1] /\ y + Committed' <= limit[2]
      BY <2>3, <2>6, <3>1, <3>2, <3>3
    <3>5. QED
      BY <3>4 DEF Fits, x, y
  <2>8. QED
    BY <2>1, <2>7 DEF Outcome
<1>5. CASE ExpireLease(d) \/ EndLease(d) \/ CompleteEnding(d)
  <2>1. PICK s \in {"EXPIRED", "ENDING", "ENDED"} :
           /\ lease[d].state \in LiveLease
           /\ lease' = [lease EXCEPT ![d].state = s]
           /\ UNCHANGED <<now, limit, blocked, attempt, spend>>
    BY <1>5 DEF ExpireLease, EndLease, CompleteEnding, TimedOut, LiveLease
  <2>2. \A e \in Live(lease') : e \in Live(lease) /\ lease'[e].start = lease[e].start
    BY <1>1, <2>1 DEF Live, Leases
  <2>3. QED
    <3>1. /\ spend' = spend /\ limit' = limit /\ now' >= now
          /\ blocked' = blocked
          /\ Reservations(attempt') <= Reservations(attempt)
      BY <1>1, <1>2, <2>1
    <3>2. QED
      BY <2>2, <3>1, LighterEases
<1>6. QED
  BY <1>3, <1>4, <1>5

LEMMA StepOutcome ==
    ASSUME TypeOK, TypeOK', [Next]_vars
    PROVE  Outcome
<1>1. /\ limit \in Limits /\ spend \in Spends /\ lease \in [Deployments -> Leases]
      /\ attempt \in [Attempts -> AttemptRecord] /\ now \in Nat
  BY TypeIs, BudgetAssumption
<1>2. Reservations(attempt) <= Reservations(attempt)
  BY <1>1, ReservationsAre
<1>3. CASE UNCHANGED vars
  BY <1>1, <1>3, SameEases DEF vars
<1>4. CASE Tick
  BY <1>1, <1>4, SameEases DEF Tick
<1>5. CASE (\E lim \in Limits : EnsureBudgetGuard(lim)) \/ Reevaluate
  BY <1>1, <1>2, <1>5, ApplyOutcome DEF EnsureBudgetGuard, Reevaluate
<1>6. ASSUME NEW k \in Segments, NEW entry \in Entries, RecordSpend(k, entry)
      PROVE  Outcome
  <2>1. PICK spd : spd = [spend EXCEPT ![k] = entry]
    OBVIOUS
  <2>2. spd \in Spends
    BY <1>1, <2>1 DEF Spends
  <2>3. Apply(limit, spd, attempt, lease) /\ now' = now
    BY <1>6, <2>1 DEF RecordSpend
  <2>4. QED
    BY <1>1, <1>2, <2>2, <2>3, ApplyOutcome
<1>7. QED
  BY <1>3, <1>4, <1>5, <1>6, PreflightOutcome, ReserveOutcome, FinishOutcome, LeaseOutcome
  DEF Next

(* A step that commits more money ends within both limits, whatever was     *)
(* metered, rearmed or expired since the last verdict (reserve_attempt_     *)
(* budget, start_experiment_warm_lease).                                    *)
THEOREM AdmissionsFit == Spec => AdmissionFits
<1> DEFINE Fit == Committed' > Committed =>
              /\ DailySpend(spend', now') + Committed' <= limit'[1]
              /\ MonthlySpend(spend', now') + Committed' <= limit'[2]
<1>1. TypeOK /\ TypeOK' /\ [Next]_vars => [Fit]_vars
  <2> SUFFICES ASSUME TypeOK, TypeOK', [Next]_vars, Committed' > Committed
               PROVE  Fits(limit', spend', Committed', now')
    BY DEF Fits
  <2>1. ~(Committed' <= Committed)
    <3>1. /\ spend \in Spends /\ lease \in [Deployments -> Leases]
          /\ attempt \in [Attempts -> AttemptRecord]
      BY TypeIs
    <3>2. /\ spend' \in Spends /\ lease' \in [Deployments -> Leases]
          /\ attempt' \in [Attempts -> AttemptRecord]
      BY DEF TypeOK, Spends, Leases, AttemptRecord
    <3>3. Committed \in Nat /\ Committed' \in Nat
      BY <3>1, <3>2, CommitmentsAre DEF Committed
    <3>4. QED
      BY <3>3
  <2>2. QED
    BY <2>1, StepOutcome DEF Outcome, Eases
<1>2. QED
  BY <1>1, Typing, PTL DEF Spec, AdmissionFits

-----------------------------------------------------------------------------
(* Time only frees money: a segment metered in the past is not metered in a *)
(* later day or month.                                                      *)

EntriesPast == \A k \in Segments : spend[k] # NoEntry => spend[k].at <= now

LEMMA SpendOfLater ==
    ASSUME NEW spd \in Spends, NEW t \in Nat, NEW u \in Nat, t <= u,
           \A k \in Segments : spd[k] # NoEntry => spd[k].at <= t
    PROVE  DailySpend(spd, u) <= DailySpend(spd, t) /\ MonthlySpend(spd, u) <= MonthlySpend(spd, t)
<1>1. ASSUME NEW k \in Recorded(spd)
      PROVE  /\ Day(spd[k].at) = Day(u) => Day(spd[k].at) = Day(t)
             /\ Month(spd[k].at) = Month(u) => Month(spd[k].at) = Month(t)
  <2>1. spd[k].at \in Nat /\ spd[k].at <= t
    BY BudgetAssumption DEF Recorded, Spends, Entries
  <2>2. DayLength \in Nat \ {0} /\ MonthLength \in Nat \ {0}
    BY BudgetAssumption
  <2>3. PICK x \in Nat, y \in Nat, z \in Nat :
           x = Day(spd[k].at) /\ y = Day(t) /\ z = Day(u) /\ x <= y /\ y <= z
    BY <2>1, <2>2 DEF Day
  <2>4. PICK p \in Nat, q \in Nat, r \in Nat :
           /\ p = x \div MonthLength /\ q = y \div MonthLength /\ r = z \div MonthLength
           /\ p <= q /\ q <= r
    BY <2>2, <2>3
  <2>5. QED
    BY <2>3, <2>4 DEF Month
<1> DEFINE D(v) == {k \in Recorded(spd) : Day(spd[k].at) = Day(v)}
           M(v) == {k \in Recorded(spd) : Month(spd[k].at) = Month(v)}
<1>2. D(u) \in SUBSET D(t) /\ M(u) \in SUBSET M(t)
  BY <1>1
<1>3. D(t) \in SUBSET Segments /\ M(t) \in SUBSET Segments
  BY DEF Recorded
<1>4. /\ DailySpend(spd, u) = SumFunctionOnSet(Costs(spd), D(u))
      /\ DailySpend(spd, t) = SumFunctionOnSet(Costs(spd), D(t))
      /\ MonthlySpend(spd, u) = SumFunctionOnSet(Costs(spd), M(u))
      /\ MonthlySpend(spd, t) = SumFunctionOnSet(Costs(spd), M(t))
  BY DEF DailySpend, MonthlySpend
<1> HIDE DEF D, M
<1>5. /\ IsFiniteSet(D(t)) /\ \A k \in D(t) : Costs(spd)[k] \in Nat
      /\ IsFiniteSet(M(t)) /\ \A k \in M(t) : Costs(spd)[k] \in Nat
  BY <1>3, CostsAre
<1>6. QED
  BY <1>2, <1>4, <1>5, SumOfFewer

(* The inductive invariant of the kill switch.                              *)
FenceInv == TypeOK /\ EntriesPast /\ OverLimitIsFenced

LEMMA FenceInit == Init => FenceInv
<1> SUFFICES ASSUME Init PROVE FenceInv
  OBVIOUS
<1>1. TypeOK /\ EntriesPast
  BY TypeInit DEF Init, EntriesPast
<1>2. lease = [d \in Deployments |-> [state |-> "NONE", start |-> 0]]
      /\ spend = [k \in Segments |-> NoEntry]
      /\ attempt = [a \in Attempts |-> [state |-> "CREATED", cost |-> 0, released |-> FALSE]]
  BY DEF Init
<1>3. Fits(limit, spend, Committed, now)
  <2>1. Recorded(spend) = {} /\ Live(lease) = {}
    BY <1>2 DEF Recorded, Live, LiveLease
  <2>2. DailySpend(spend, now) = 0 /\ MonthlySpend(spend, now) = 0
    <3>1. /\ {k \in Recorded(spend) : Day(spend[k].at) = Day(now)} = {}
          /\ {k \in Recorded(spend) : Month(spend[k].at) = Month(now)} = {}
      BY <2>1
    <3>2. QED
      BY <3>1, SumOfNone DEF DailySpend, MonthlySpend
  <2>3. spend \in Spends /\ attempt \in [Attempts -> AttemptRecord]
    BY <1>1, TypeIs
  <2>4. WarmLeases(lease, spend) = 0
    BY <2>1, <2>3, WarmLeasesAre, SumOfNone
  <2>5. Reservations(attempt) = 0
    <3>1. IsFiniteSet(Attempts) /\ \A a \in Attempts : Costing(attempt)[a] = 0
      BY <1>2, BudgetAssumption DEF Costing
    <3>2. /\ IsFiniteSet(Unreleased(attempt)) /\ Unreleased(attempt) \in SUBSET Attempts
          /\ Reservations(attempt) = SumFunctionOnSet(Costing(attempt), Unreleased(attempt))
      BY <2>3, ReservationsAre
    <3>3. SumFunctionOnSet(Costing(attempt), Unreleased(attempt)) = 0
      BY <3>1, <3>2, SumOfZeros
    <3>4. QED
      BY <3>2, <3>3
  <2>6. Committed = 0
    BY <2>4, <2>5 DEF Committed, Commitments
  <2>7. limit[1] \in Nat /\ limit[2] \in Nat
    BY <1>1, TypeIs, BudgetAssumption
  <2>8. QED
    BY <2>2, <2>6, <2>7 DEF Fits
<1>4. QED
  BY <1>1, <1>3, OverIs DEF FenceInv, OverLimitIsFenced

LEMMA FenceStep == FenceInv /\ [Next]_vars => FenceInv'
<1> SUFFICES ASSUME FenceInv, [Next]_vars PROVE FenceInv'
  OBVIOUS
<1>1. TypeOK /\ TypeOK' /\ EntriesPast /\ OverLimitIsFenced
  BY TypeStep DEF FenceInv
<1>2. /\ limit \in Limits /\ spend \in Spends /\ lease \in [Deployments -> Leases]
      /\ attempt \in [Attempts -> AttemptRecord] /\ now \in Nat
      /\ now' \in Nat
  BY <1>1, TypeIs, BudgetAssumption DEF TypeOK
<1>3. EntriesPast'
  <2>1. CASE UNCHANGED <<spend, now>>
    BY <1>1, <2>1 DEF EntriesPast
  <2>2. CASE Tick
    BY <1>1, <1>2, <2>2, BudgetAssumption DEF Tick, EntriesPast, Spends, Entries
  <2>3. ASSUME NEW k \in Segments, NEW entry \in Entries, RecordSpend(k, entry)
        PROVE  EntriesPast'
    <3>1. spend' = [spend EXCEPT ![k] = entry] /\ now' = now /\ entry.at <= now
      BY <2>3 DEF RecordSpend, Apply
    <3>2. QED
      BY <1>1, <1>2, <3>1 DEF EntriesPast, Spends
  <2>4. QED
    BY <2>1, <2>2, <2>3
    DEF Next, vars, EnsureBudgetGuard, Reevaluate, Preflight, Reserve, Rearm, OutcomeAmbiguous,
        Finish, ReplayRelease, Apply, ActivateDeployment, StartLease, ExpireLease, EndLease,
        CompleteEnding
<1>4. Over' <=> ~Fits(limit', spend', Committed', now')
  <2>1. TypeOK' => (Over <=> ~Fits(limit, spend, Committed, now))'
    BY OverIs, PTL
  <2>2. QED
    BY <1>1, <2>1
<1>5. OverLimitIsFenced'
  <2>1. CASE Fits(limit', spend', Committed', now')
    BY <1>4, <2>1 DEF OverLimitIsFenced
  <2>2. CASE Fenced'
    BY <2>2 DEF Fenced, Live, OverLimitIsFenced
  <2>3. CASE Eases
    <3> SUFFICES ASSUME Over' PROVE blocked' # "none" /\ Live(lease') = {}
      BY DEF OverLimitIsFenced, Live
    <3>1. Over
      <4>1. /\ DailySpend(spend, now') <= DailySpend(spend, now)
            /\ MonthlySpend(spend, now') <= MonthlySpend(spend, now)
        BY <1>1, <1>2, <2>3, SpendOfLater DEF Eases, EntriesPast
      <4>2. /\ DailySpend(spend, now') \in Nat /\ MonthlySpend(spend, now') \in Nat
            /\ DailySpend(spend, now) \in Nat /\ MonthlySpend(spend, now) \in Nat
            /\ limit[1] \in Nat /\ limit[2] \in Nat
        BY <1>2, SpendsAre, BudgetAssumption
      <4>3. Committed \in Nat /\ Committed' \in Nat /\ Committed' <= Committed
        <5>1. Committed \in Nat
          BY <1>2, CommitmentsAre DEF Committed
        <5>2. /\ spend' \in Spends /\ lease' \in [Deployments -> Leases]
              /\ attempt' \in [Attempts -> AttemptRecord]
          BY <1>1 DEF TypeOK, Spends, Leases, AttemptRecord
        <5>3. Committed' \in Nat
          BY <5>2, CommitmentsAre DEF Committed
        <5>4. QED
          BY <2>3, <5>1, <5>3 DEF Eases
      <4>4. ~Fits(limit, spend, Committed', now')
        BY <1>4, <2>3 DEF Eases
      <4>5. ~Fits(limit, spend, Committed, now)
        BY <4>1, <4>2, <4>3, <4>4 DEF Fits
      <4>6. QED
        BY <1>1, <4>5, OverIs
    <3>2. blocked # "none" /\ Live(lease) = {}
      BY <1>1, <3>1 DEF OverLimitIsFenced, Live
    <3>3. QED
      BY <2>3, <3>1, <3>2 DEF Eases
  <2>4. QED
    BY <1>1, <2>1, <2>2, <2>3, StepOutcome DEF Outcome
<1>6. QED
  BY <1>1, <1>3, <1>5 DEF FenceInv

(* The kill switch: commitments above a limit never coexist with an open    *)
(* guard or a live warm lease, for any limits, amounts and clock            *)
(* (_apply_evaluation runs in every transaction that can raise them).       *)
THEOREM KillSwitch == Spec => []OverLimitIsFenced
<1>1. FenceInv => OverLimitIsFenced
  BY DEF FenceInv
<1> QED BY FenceInit, FenceStep, <1>1, PTL DEF Spec
=============================================================================
