-------------------------- MODULE GenerationState --------------------------
(* The rows and the in-memory state that the generation pipeline works on:  *)
(* the release, its jobs, the attempts of each job with their outbox event, *)
(* the submit workers, the reconciler, and what Salad knows of each attempt.*)
(* The modules of the pipeline's components extend this one.                *)
EXTENDS Integers, FiniteSets

CONSTANTS
    Jobs,               \* generation jobs of one release, in dispatch order
    Workers,            \* submit workers, one per controller process
    AttemptLimit,       \* hard cap of max_attempts (10 in the code)
    InitialLimits,      \* max_attempts a job may be created with
    GrantLimit,         \* retry grants of each kind a job may receive
    EventTries,         \* max_attempts of a submit event
    Confirmations,      \* absence observations that prove a job is gone
    MaxInflight,        \* local provider backlog limit of the scheduler
    FinalStatuses       \* terminal statuses the provider may report

Terminals == {"succeeded", "invalid", "nearblack", "failed", "cancelled"}

ASSUME GenerationAssumption ==
    /\ Jobs \subseteq Nat /\ IsFiniteSet(Jobs)
    /\ {AttemptLimit, EventTries, Confirmations, MaxInflight} \subseteq Nat \ {0}
    /\ InitialLimits \subseteq 1..AttemptLimit
    /\ GrantLimit \in [{"infra", "nearblack"} -> Nat]
    /\ FinalStatuses \subseteq Terminals

VARIABLES
    release,    \* phase, health, and the two generation-stop audit markers
    job,        \* state, attempt_count and max_attempts of each job
    att,        \* the attempt rows
    ev,         \* the submit event of each attempt
    task,       \* what each submit worker is doing
    rec,        \* what the reconciler is doing
    net         \* POST requests sent and the provider's job, per attempt

vars == <<release, job, att, ev, task, rec, net>>

-----------------------------------------------------------------------------
Attempts == Jobs \X (1..AttemptLimit)
NoAttempt == <<-1, 0>>

TerminalAttempt == {"SUCCEEDED", "FAILED", "CANCELLED"}
Reconcilable == {"UNKNOWN", "SUBMITTED", "RUNNING", "CANCEL_REQUESTED"}
RemoteOrAmbiguous == Reconcilable \cup {"SUBMITTING"}
Nonterminal == RemoteOrAmbiguous \cup {"CREATED"}
AttemptStates == {"NONE"} \cup Nonterminal \cup TerminalAttempt

TerminalJob == {"SUCCEEDED", "FAILED", "DEAD_LETTER", "CANCELLED"}
RemoteOrAmbiguousJob ==
    {"SUBMITTING", "RUNNING", "COLLECTING", "VERIFYING", "UNKNOWN", "CANCEL_REQUESTED"}
DrainingJob == RemoteOrAmbiguousJob \cup {"CLAIMED"}
UnstartedJob == {"QUEUED", "CLAIMED", "RETRY_WAIT"}
JobStates == TerminalJob \cup RemoteOrAmbiguousJob \cup UnstartedJob

Statuses == {"pending", "running"} \cup Terminals
Misses == {"absent", "inconclusive", "missing", "error"}
Rank(s) == IF s = "pending" THEN 1 ELSE IF s = "running" THEN 2 ELSE 3

NoAttemptRow ==
    [state |-> "NONE",          \* GenerationAttemptState
     ext |-> FALSE,             \* provider_external_id is bound
     seen |-> 0,                \* rank of last_observed_at
     held |-> "none",           \* budget reservation
     staged |-> FALSE,          \* runtime admission target recorded
     cancel |-> "none",         \* cancellation intent in error_code
     misses |-> 0,              \* provider absence tracker
     stopMisses |-> 0,          \* operator-stop absence tracker
     code |-> "none",           \* class of the failure's error code
     grant |-> "none"]          \* retry grant audited on the attempt

IdleTask == [pc |-> "idle", a |-> NoAttempt, posted |-> FALSE, result |-> "none"]
IdleRec == [pc |-> "idle", a |-> NoAttempt, obs |-> "none", fresh |-> FALSE]

Releases ==
    [phase : {"READY", "GENERATING", "PAUSED", "REVIEWING", "CANCELLED"},
     healthy : BOOLEAN, stop : BOOLEAN, stopped : BOOLEAN]

JobRows == [state : JobStates, count : 0..AttemptLimit, max : 1..AttemptLimit]

AttemptRows ==
    [state : AttemptStates, ext : BOOLEAN, seen : 0..3,
     held : {"none", "held", "released"}, staged : BOOLEAN,
     cancel : {"none", "watchdog", "stop"},
     misses : 0..Confirmations, stopMisses : 0..Confirmations,
     code : {"none", "infra", "nearblack", "other"},
     grant : {"none", "infra", "nearblack"}]

EventRows ==
    [status : {"NONE", "PENDING", "PROCESSING", "SUCCEEDED", "DEAD_LETTER"},
     tries : 0..EventTries, expired : BOOLEAN]

Tasks ==
    [pc : {"idle", "claimed", "building", "posting", "settling"},
     a : Attempts \cup {NoAttempt}, posted : BOOLEAN,
     result : {"none", "UNKNOWN", "BUDGET_BLOCKED", "RECORDED"}]

Readings ==
    [pc : {"idle", "read", "stopDelete", "watchdogDelete"}, a : Attempts \cup {NoAttempt},
     obs : {"none"} \cup Misses \cup Statuses, fresh : BOOLEAN]

ProviderRows ==
    [posts : Nat, wire : {"unsent", "flying", "landed", "lost"}, hist : SUBSET Statuses]

TypeOK ==
    /\ release \in Releases
    /\ job \in [Jobs -> JobRows]
    /\ att \in [Attempts -> AttemptRows]
    /\ ev \in [Attempts -> EventRows]
    /\ task \in [Workers -> Tasks]
    /\ rec \in Readings
    /\ net \in [Attempts -> ProviderRows]

Init ==
    /\ release = [phase |-> "READY", healthy |-> TRUE, stop |-> FALSE, stopped |-> FALSE]
    /\ job \in [Jobs -> {[state |-> "QUEUED", count |-> 0, max |-> m] : m \in InitialLimits}]
    /\ att = [a \in Attempts |-> NoAttemptRow]
    /\ ev = [a \in Attempts |-> [status |-> "NONE", tries |-> 0, expired |-> FALSE]]
    /\ task = [w \in Workers |-> IdleTask]
    /\ rec = IdleRec
    /\ net = [a \in Attempts |-> [posts |-> 0, wire |-> "unsent", hist |-> {}]]

-----------------------------------------------------------------------------
JobOf(a) == a[1]
Current(a) == a[2] = job[a[1]].count
AttemptsOf(j) == {a \in Attempts : a[1] = j}

(* _attempt_has_submission_evidence, and the clean-row conditions of the    *)
(* outbox repairs: any trace of a submission on the attempt's row.          *)
Evidence(a) == att[a].held # "none" \/ att[a].ext \/ att[a].seen # 0

Released(held) == IF held = "held" THEN "released" ELSE held

(* Mutant: only the row itself is looked at, not the operator's decision.   *)
StaleRowOnly(a) ==
    ~Current(a) \/ job[JobOf(a)].state \notin {"CLAIMED", "RETRY_WAIT"}

(* _prepared_submission_stale_reason *)
Stale(a) ==
    \/ ~Current(a)
    \/ job[JobOf(a)].state \in TerminalJob
    \/ ~release.healthy
    \/ release.phase \notin {"READY", "GENERATING"}
    \/ release.stop
    \/ job[JobOf(a)].state \notin {"CLAIMED", "RETRY_WAIT"}

(* Every commit that bumps the lock_version of an attempt outdates the      *)
(* revision that the reconciler read.                                       *)
Touch(S) == rec' = [rec EXCEPT !.fresh = @ /\ rec.a \notin S]

-----------------------------------------------------------------------------
(* Retries                                                                  *)

RetryOrFail(jr) == IF jr.count < jr.max THEN "RETRY_WAIT" ELSE "DEAD_LETTER"

(* _release_allows_retry *)
ReleaseAllowsRetry ==
    release.healthy /\ release.phase \in {"READY", "GENERATING"} /\ ~release.stop

GrantsOf(j, kind) == {a \in AttemptsOf(j) : att[a].grant = kind}

(* The fences shared by the retry grants, for an attempt that fails.        *)
MayGrant(a, kind) ==
    /\ Current(a)
    /\ job[JobOf(a)].state \notin {"SUCCEEDED", "FAILED", "CANCELLED"}
    /\ job[JobOf(a)].max < AttemptLimit
    /\ ReleaseAllowsRetry
    /\ att[a].grant # kind
    /\ Cardinality(GrantsOf(JobOf(a), kind)) < GrantLimit[kind]

(* Mutant: the job waits for a retry it has no attempt left for.            *)
GrantedNothing(jr) == [jr EXCEPT !.state = "RETRY_WAIT"]

Granted(jr) == [state |-> "RETRY_WAIT", count |-> jr.count, max |-> jr.max + 1]
=============================================================================
