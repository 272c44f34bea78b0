-------------------------- MODULE RuntimeAdmission --------------------------
(***************************************************************************)
(* How the submit worker and the warm-lease loop share one Salad container *)
(* group.  The artifacts a group has loaded change by a PATCH that starts  *)
(* a new provider version under a fresh rollout id.  An attempt that needs *)
(* such a change first commits a plan, then PATCHes, then commits the      *)
(* target it was given; each claim of its outbox event is one transaction  *)
(* that moves the attempt one stage and gives the event back, and the POST *)
(* is made only against the worker seen ready twice under that target.     *)
(***************************************************************************)
EXTENDS Naturals, FiniteSets

CONSTANTS
  Attempts,
  Need(_),        \* the artifacts an attempt's job requires, a non-empty set
  LeaseNeeds,     \* what a warm lease may ask for ({}: no lease is ever opened)
  MaxRollouts,    \* bound on rollout ids drawn
  MaxVersion      \* bound on provider versions caused by repairs and restarts

\* The bounds are numbers.
ASSUME AdmissionAssumption == MaxRollouts \in Nat /\ MaxVersion \in Nat

VARIABLES
  attempt,        \* state, plan and target of each attempt
  runtime,        \* salad_deployments.runtime_managed_lora_sha256s / manifest
  lease,          \* the live experiment warm lease
  container,      \* the provider's group: version, manifest, rollout id, minimum, up
  rollouts        \* rollout ids drawn so far (uuid4)

admissionVars == <<attempt, runtime, lease, container, rollouts>>

None == [id |-> 0]
Manifests == SUBSET UNION ({Need(a) : a \in Attempts} \union LeaseNeeds)
Ids == 1 .. MaxRollouts
ProviderVersions == Nat \ {0}

\* What request_metadata may hold of an attempt's admission.
PlanRecords   == [id: Ids, before: ProviderVersions, manifest: Manifests]
TargetRecords == [id: Ids, version: ProviderVersions, manifest: Manifests, worker: BOOLEAN]

\* Each component of the state is of its type, and an attempt holds a plan or
\* a target, never both.
AdmissionTypeOK ==
  /\ \A a \in Attempts :
       /\ attempt[a].state \in {"NONE", "CREATED", "LIVE", "ENDED", "FAILED"}
       /\ attempt[a].plan \in PlanRecords \union {None}
       /\ attempt[a].target \in TargetRecords \union {None}
       /\ attempt[a].plan = None \/ attempt[a].target = None
  /\ runtime \in Manifests
  /\ lease \in {"none", "starting", "live"}
  /\ container \in [version: ProviderVersions, manifest: Manifests,
                    id: Ids \union {0}, minimum: 0 .. 1, up: BOOLEAN]
  /\ rollouts \in Ids \union {0}

-----------------------------------------------------------------------------

AdmissionInit ==
  /\ attempt = [a \in Attempts |-> [state |-> "NONE", plan |-> None, target |-> None]]
  /\ runtime = {} /\ lease = "none" /\ rollouts = 0
  /\ container = [version |-> 1, manifest |-> {}, id |-> 0, minimum |-> 0,
                  up |-> FALSE]

Created == {a \in Attempts : attempt[a].state = "CREATED"}

\* Mutant of Demand: an attempt that failed is still counted.
DemandOfFailed(a) == {b \in Attempts \ {a} : attempt[b].state \in {"CREATED", "FAILED"}}

\* _runtime_admission_demand_attempts: the other attempts still to be submitted.
Demand(a) == Created \ {a}

\* _runtime_refresh_blocking_attempts: SUBMITTING up to CANCEL_REQUESTED.
InFlight == {a \in Attempts : attempt[a].state = "LIVE"}

PlannedWork  == {a \in Created : attempt[a].plan # None}
TargetedWork == {a \in Created : attempt[a].target # None}

\* The manifest a pass works with: the resident artifacts are kept when they
\* suffice, and when an idle group must change they are dropped.
Effective(a) ==
  IF Need(a) \subseteq runtime \/ InFlight # {} THEN runtime \union Need(a) ELSE Need(a)
Matches(a) == Effective(a) = runtime

TargetsOf(as) == {attempt[b].target : b \in as} \ {None}
PlansOf(as)   == {attempt[b].plan : b \in as} \ {None}
OneRollout(ts) == \A s, t \in ts : s.id = t.id /\ s.manifest = t.manifest

\* _coalesced_runtime_admission_target: the newest version, and its worker when
\* the attempts agree on one.
Coalesced(ts) ==
  LET newest == {t \in ts : \A s \in ts : s.version <= t.version}
      t0     == CHOOSE t \in newest : TRUE
  IN [t0 EXCEPT !.worker = \E t \in newest : t.worker]

Stage(a, t) == attempt' = [attempt EXCEPT ![a].target = t, ![a].plan = None]
FailAttempt(a) == attempt' = [attempt EXCEPT ![a].state = "FAILED"]
ProviderSame == UNCHANGED <<container, rollouts>>
Admitted(g) == [id |-> g.id, version |-> g.version, manifest |-> g.manifest,
                worker |-> FALSE]

\* One PATCH of the container: a new version that keeps one replica.
Patched(id, m) == [version |-> container.version + 1, manifest |-> m, id |-> id,
                   minimum |-> 1, up |-> TRUE]

-----------------------------------------------------------------------------
(* One claim of an attempt's submit event.                                 *)

\* What was staged no longer fits the manifest the job now works with.
Stale(a) ==
  \/ attempt[a].target # None /\ (attempt[a].target.manifest # Effective(a) \/ ~Matches(a))
  \/ attempt[a].plan # None /\ attempt[a].plan.manifest # Effective(a)

Claimable(a) == a \in Created /\ ~Stale(a)
Unstaged(a) == Claimable(a) /\ attempt[a].target = None

\* Nothing is in flight and nothing staged by others decides for this attempt.
Undecided(a) ==
  /\ Unstaged(a) /\ InFlight = {} /\ TargetsOf(Demand(a)) = {}
  /\ ~(lease = "live" /\ Matches(a) /\ container.id # 0)

FailStale(a) ==
  /\ a \in Created /\ Stale(a) /\ FailAttempt(a)
  /\ ProviderSame /\ UNCHANGED <<runtime, lease>>

\* The attempt joins the target of the attempts in flight, or of those staged
\* before it; with another manifest it is busy, and waits.
JoinTarget(a) ==
  LET others == TargetsOf(IF InFlight = {} THEN Demand(a) ELSE InFlight)
  IN /\ Unstaged(a) /\ others # {}
     /\ \/ /\ OneRollout(others) /\ Matches(a)
           /\ Coalesced(others).manifest = Effective(a)
           /\ Stage(a, Coalesced(others))
        \/ ~OneRollout(others) /\ FailAttempt(a)
     /\ ProviderSame /\ UNCHANGED <<runtime, lease>>

\* A live warm lease serves a compatible attempt: it reads the group's identity.
JoinWarm(a) ==
  /\ Unstaged(a) /\ InFlight = {} /\ TargetsOf(Demand(a)) = {}
  /\ lease = "live" /\ Matches(a) /\ container.id # 0
  /\ IF container.manifest = Effective(a) THEN Stage(a, Admitted(container))
                                          ELSE FailAttempt(a)
  /\ ProviderSame /\ UNCHANGED <<runtime, lease>>

\* The attempt copies the plan another attempt committed for the same manifest.
SharePlan(a) ==
  LET others == PlansOf(Demand(a))
  IN /\ Undecided(a) /\ attempt[a].plan = None /\ others # {}
     /\ \/ \E p \in others : /\ others = {p} /\ p.manifest = Effective(a)
                             /\ attempt' = [attempt EXCEPT ![a].plan = p]
        \/ Cardinality(others) > 1 /\ FailAttempt(a)
     /\ ProviderSame /\ UNCHANGED <<runtime, lease>>

RecordPlan(a) ==
  /\ Undecided(a) /\ attempt[a].plan = None /\ PlansOf(Demand(a)) = {}
  /\ rollouts' = rollouts + 1 /\ rollouts' \in Ids
  /\ attempt' = [attempt EXCEPT ![a].plan =
                   [id |-> rollouts', before |-> container.version,
                    manifest |-> Effective(a)]]
  /\ UNCHANGED <<container, runtime, lease>>

\* The PATCH of a committed plan.  A version past the planned one is the plan's
\* own PATCH, made by a pass that died or by a borrower, if it has the plan's id.
Refresh(a) ==
  LET p       == attempt[a].plan
      first   == container.version = p.before /\ container.id # p.id
      applied == container.version > p.before /\ container.id = p.id
                 /\ container.manifest = p.manifest /\ container.minimum = 1
      after   == IF first THEN Patched(p.id, p.manifest) ELSE container
  IN /\ Undecided(a) /\ p # None
     /\ \/ /\ first \/ applied
           /\ container' = after /\ Stage(a, Admitted(after)) /\ runtime' = p.manifest
           /\ lease' = IF lease = "none" THEN "none" ELSE "live"
        \/ /\ first /\ container' = after     \* PATCHed, and the pass is rolled back
           /\ UNCHANGED <<attempt, runtime, lease>>
        \/ /\ ~first /\ ~applied /\ FailAttempt(a)
           /\ UNCHANGED <<container, runtime, lease>>
     /\ UNCHANGED rollouts

\* ensure_container_group_queue_admission: the group must still run the
\* attempt's rollout; a group that is down gets its replica back.
Identified(a) == /\ container.id = attempt[a].target.id
                 /\ container.manifest = attempt[a].target.manifest
                 /\ container.minimum = 1

EnsureFails(a) ==
  /\ Claimable(a) /\ attempt[a].target # None /\ ~Identified(a) /\ FailAttempt(a)
  /\ ProviderSame /\ UNCHANGED <<runtime, lease>>

EnsureAdmission(a) ==
  /\ Claimable(a) /\ attempt[a].target # None /\ Identified(a)
  /\ LET g == IF container.up THEN container
              ELSE [container EXCEPT !.up = TRUE, !.version = @ + 1]
     IN /\ container' = g
        /\ \/ /\ g.version > attempt[a].target.version
              /\ Stage(a, Admitted(g))
           \/ /\ g # container /\ UNCHANGED attempt    \* the pass is rolled back
           \/ /\ g = container /\ g.version = attempt[a].target.version   \* a worker is ready
              /\ ~attempt[a].target.worker
              /\ Stage(a, [attempt[a].target EXCEPT !.worker = TRUE])
  /\ UNCHANGED <<runtime, lease, rollouts>>

\* The recorded worker is seen again: the job is submitted to it.
Submit(a) ==
  /\ Claimable(a) /\ attempt[a].target # None /\ Identified(a) /\ container.up
  /\ container.version = attempt[a].target.version /\ attempt[a].target.worker
  /\ attempt' = [attempt EXCEPT ![a].state = "LIVE"]
  /\ UNCHANGED <<runtime, lease, container, rollouts>>

\* A pass that dies before the POST: what is staged is kept and deferred, and
\* an attempt with nothing staged is failed; so is one stopped by the operator.
Abandon(a) ==
  /\ a \in Created /\ FailAttempt(a) /\ ProviderSame /\ UNCHANGED <<runtime, lease>>

-----------------------------------------------------------------------------
(* The other actors.                                                       *)

PrepareAttempt(a) ==
  /\ attempt[a].state = "NONE" /\ attempt' = [attempt EXCEPT ![a].state = "CREATED"]
  /\ UNCHANGED <<runtime, lease, container, rollouts>>

FinishAttempt(a) ==
  /\ attempt[a].state = "LIVE" /\ attempt' = [attempt EXCEPT ![a].state = "ENDED"]
  /\ UNCHANGED <<runtime, lease, container, rollouts>>

\* _rearm_deferred_job_input: nothing was sent after all; the target is kept.
Rearm(a) ==
  /\ attempt[a].state = "LIVE" /\ attempt' = [attempt EXCEPT ![a].state = "CREATED"]
  /\ UNCHANGED <<runtime, lease, container, rollouts>>

\* effective_worker_min_replicas: a claimed event asks for a worker while the
\* claim lasts, so a created attempt may or may not count.
Minimums ==
  IF lease # "none" \/ InFlight # {} \/ TargetedWork # {} THEN {1}
  ELSE IF Created # {} THEN {0, 1} ELSE {0}

\* Mutant of Repair: the reconciler does not look for staged plans.
RepairUnplanned ==
  /\ \E m \in Minimums : /\ m # container.minimum /\ container.version < MaxVersion
                         /\ container' = [container EXCEPT !.minimum = m, !.version = @ + 1]
  /\ UNCHANGED <<attempt, runtime, lease, rollouts>>

\* The reconciler patches the autoscaler, unless a refresh is planned.
Repair ==
  /\ PlannedWork = {}
  /\ \E m \in Minimums : /\ m # container.minimum /\ container.version < MaxVersion
                         /\ container' = [container EXCEPT !.minimum = m, !.version = @ + 1]
  /\ UNCHANGED <<attempt, runtime, lease, rollouts>>

GroupGoesDown ==
  /\ container.up /\ container.version < MaxVersion
  /\ container' = [container EXCEPT !.up = FALSE]
  /\ UNCHANGED <<attempt, runtime, lease, rollouts>>

StartLease ==
  /\ LeaseNeeds # {} /\ lease = "none" /\ lease' = "starting"
  /\ UNCHANGED <<attempt, runtime, container, rollouts>>

EndLease ==
  /\ lease # "none" /\ lease' = "none" /\ UNCHANGED <<attempt, runtime, container, rollouts>>

\* experiment_warm_once: with no attempt in flight the starting lease refreshes
\* the group, for the oldest attempt still to be submitted or for itself.
WarmRefresh ==
  /\ lease = "starting" /\ InFlight = {}
  /\ rollouts' = rollouts + 1 /\ rollouts' \in Ids
  /\ \E m \in IF Created = {} THEN LeaseNeeds ELSE {Need(a) : a \in Created} :
       /\ container' = Patched(rollouts', m)
       /\ \/ runtime' = m /\ lease' = "live"
          \/ UNCHANGED <<runtime, lease>>           \* the pass is rolled back
  /\ UNCHANGED attempt

SubmitOnce(a) ==
  \/ FailStale(a) \/ JoinTarget(a) \/ JoinWarm(a) \/ SharePlan(a) \/ RecordPlan(a)
  \/ Refresh(a) \/ EnsureFails(a) \/ EnsureAdmission(a) \/ Submit(a)

AdmissionNext ==
  \/ \E a \in Attempts :
       PrepareAttempt(a) \/ SubmitOnce(a) \/ Abandon(a) \/ FinishAttempt(a) \/ Rearm(a)
  \/ Repair \/ GroupGoesDown \/ StartLease \/ EndLease \/ WarmRefresh

AdmissionSpec == AdmissionInit /\ [][AdmissionNext]_admissionVars

\* The submit loop returns to every event, a pass is not rolled back for ever
\* (its last stage commits), and what is in flight ends.
AdmissionFairness ==
  \A a \in Attempts : /\ SF_admissionVars(SubmitOnce(a) /\ attempt'[a] # attempt[a])
                      /\ SF_admissionVars(FinishAttempt(a))

AdmissionFairSpec == AdmissionSpec /\ AdmissionFairness

-----------------------------------------------------------------------------
(* Properties.                                                             *)

\* What was staged for an attempt can still be carried out: the group is where
\* its plan starts from or runs its rollout.  "The pending target is durable
\* demand; its next claim re-ensures admission."
StagedWorkSurvives ==
  /\ \A a \in PlannedWork : LET p == attempt[a].plan
                          IN \/ container.id = p.id
                             \/ container.version = p.before /\ container.id < p.id
  /\ \A a \in TargetedWork : container.id = attempt[a].target.id

\* While a job is in flight its worker is never reloaded under it: the group
\* runs the rollout the job was bound to and has the artifacts it needs.
InFlightKeepsRuntime ==
  \A a \in InFlight : /\ container.id = attempt[a].target.id
                      /\ Need(a) \subseteq container.manifest

\* No worker is reloaded under a job in flight, and as long as no warm lease
\* refreshes the group in between, what was staged can be carried out.
AdmittedWorkSurvives == /\ InFlightKeepsRuntime
                        /\ LeaseNeeds = {} => StagedWorkSurvives

\* Attempts that need different artifacts take turns and none waits for ever,
\* whatever becomes of the attempts that planned before it.
EveryAttemptIsServed ==
  \A a \in Attempts : (attempt[a].state = "CREATED") ~> (attempt[a].state # "CREATED")

=============================================================================
