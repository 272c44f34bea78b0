-------------------------- MODULE SaladSubmission --------------------------
(* From a queued job to one POST: the scheduler's dispatch transaction, the *)
(* outbox claim with its recovery sweep, the submit worker, and every way   *)
(* the worker can be interrupted.                                           *)
EXTENDS GenerationState

-----------------------------------------------------------------------------
(* Scheduler: dispatch_generation_jobs                                      *)

(* Mutant: a recovery looks at the job only, not at its release.            *)
RecoverableAnyway(j) ==
    LET a == <<j, job[j].count>>
    IN  /\ job[j].state = "DEAD_LETTER"
        /\ att[a].state = "FAILED" /\ att[a].code = "infra" /\ att[a].grant # "infra"
        /\ job[j].max < AttemptLimit

Recoverable(j) ==
    LET a == <<j, job[j].count>>
    IN  /\ job[j].state = "DEAD_LETTER"
        /\ att[a].state = "FAILED" /\ att[a].code = "infra"
        /\ MayGrant(a, "infra")

(* recover_dead_lettered_infrastructure_jobs: the sweep that opens every    *)
(* dispatch is a transaction of its own.                                    *)
RecoverDeadLetters ==
    LET R == {j \in Jobs : job[j].count > 0 /\ Recoverable(j)}
    IN  /\ R # {}
        /\ job' = [j \in Jobs |-> IF j \in R THEN Granted(job[j]) ELSE job[j]]
        /\ att' = [a \in Attempts |-> IF JobOf(a) \in R /\ Current(a)
                                      THEN [att[a] EXCEPT !.grant = "infra"] ELSE att[a]]
        /\ UNCHANGED <<release, ev, task, rec, net>>

(* An attempt that takes a slot of the local backlog.                       *)
Inflight(a) ==
    \/ att[a].state \in RemoteOrAmbiguous
    \/ /\ att[a].state = "CREATED"
       /\ \/ /\ job[JobOf(a)].state \notin TerminalJob
             /\ release.phase \in {"READY", "GENERATING"} /\ ~release.stop
          \/ Evidence(a)

(* Mutant: only what may have reached the provider takes a slot.            *)
SlotsRemoteOnly ==
    MaxInflight - Cardinality({a \in Attempts : att[a].state \in RemoteOrAmbiguous})

Slots == MaxInflight - Cardinality({a \in Attempts : Inflight(a)})

Dispatchable(j) ==
    /\ job[j].state \in {"QUEUED", "RETRY_WAIT"}
    /\ job[j].count < job[j].max
    /\ ReleaseAllowsRetry

(* The first rows of the ordered query; a retry delay may hold some back.   *)
Batches ==
    LET Due(waiting) == {j \in Jobs : Dispatchable(j)} \ waiting
        First(S) == {j \in S : Cardinality({k \in S : k < j}) < Slots}
    IN  {First(Due(w)) : w \in SUBSET {j \in Jobs : job[j].state = "RETRY_WAIT"}} \ {{}}

(* A job in RETRY_WAIT that still owns a nonterminal attempt makes          *)
(* prepare_generation_attempt raise, and the whole batch rolls back.        *)
Preparable(B) == \A a \in Attempts : JobOf(a) \in B => att[a].state \notin Nonterminal

Dispatch == \E B \in Batches :
    LET Prepared == {a \in Attempts : JobOf(a) \in B /\ a[2] = job[JobOf(a)].count + 1}
    IN  /\ Preparable(B)
        /\ job' = [j \in Jobs |-> IF j \in B
                      THEN [job[j] EXCEPT !.state = "CLAIMED", !.count = @ + 1] ELSE job[j]]
        /\ att' = [a \in Attempts |-> IF a \in Prepared
                      THEN [NoAttemptRow EXCEPT !.state = "CREATED"] ELSE att[a]]
        /\ ev' = [a \in Attempts |-> IF a \in Prepared
                      THEN [status |-> "PENDING", tries |-> 0, expired |-> FALSE] ELSE ev[a]]
        /\ release' = [release EXCEPT !.phase = "GENERATING"]
        /\ UNCHANGED <<task, rec, net>>

(* _dispatch_compliance_is_current found the release's compliance stale.    *)
DispatchBlocked ==
    /\ Batches # {}
    /\ release' = [release EXCEPT !.healthy = FALSE]
    /\ UNCHANGED <<job, att, ev, task, rec, net>>

-----------------------------------------------------------------------------
(* Outbox: claim_outbox_events and the sweep of expired leases before it    *)

Pending(e) == [status |-> "PENDING", tries |-> e.tries, expired |-> FALSE]
Deferred(e) == [status |-> "PENDING", tries |-> e.tries - 1, expired |-> FALSE]
Closed(s) == [status |-> s, tries |-> 0, expired |-> FALSE]

(* _runtime_refresh_replay_is_safe                                          *)
ReplaySafe(a) ==
    /\ att[a].state = "CREATED" /\ ~Evidence(a) /\ att[a].staged
    /\ job[JobOf(a)].state = "CLAIMED" /\ Current(a)

(* The attempt is the sole unfinished one of a job that has not started.    *)
OwnsUnstarted(a) ==
    /\ Current(a) /\ job[JobOf(a)].state \in UnstartedJob
    /\ \A b \in AttemptsOf(JobOf(a)) \ {a} : att[b].state \notin Nonterminal

(* _fail_exhausted_salad_attempt_before_submission. (A SUBMITTING row holds *)
(* a reservation, so its evidence always keeps it out.)                     *)
ProvablyUnsubmitted(a) ==
    /\ att[a].state = "CREATED" /\ ~Evidence(a)
    /\ \/ job[JobOf(a)].state \in TerminalJob
       \/ ~Current(a)
       \/ OwnsUnstarted(a)

Expired == {a \in Attempts : ev[a].status = "PROCESSING" /\ ev[a].expired}
Replayed == {a \in Expired : ReplaySafe(a) /\ ev[a].tries < EventTries}
SweptFailed == {a \in Expired \ Replayed : ProvablyUnsubmitted(a)}
(* Mutant: the sweep overlooks a submission that had begun.                 *)
SweptUnknownCreated == {a \in Expired \ (Replayed \cup SweptFailed) :
                           att[a].state = "CREATED"}

SweptUnknown == {a \in Expired \ (Replayed \cup SweptFailed) :
                    att[a].state \in {"CREATED", "SUBMITTING"}}

SweptEv == [a \in Attempts |->
    IF a \in Replayed THEN Pending(ev[a])
    ELSE IF a \in Expired THEN Closed("DEAD_LETTER") ELSE ev[a]]

SweptAtt == [a \in Attempts |->
    IF a \in SweptFailed THEN [att[a] EXCEPT !.state = "FAILED", !.code = "other"]
    ELSE IF a \in SweptUnknown THEN [att[a] EXCEPT !.state = "UNKNOWN", !.code = "other"]
    ELSE att[a]]

SweptJob == [j \in Jobs |->
    IF \E a \in SweptFailed : JobOf(a) = j /\ OwnsUnstarted(a)
    THEN [job[j] EXCEPT !.state = RetryOrFail(job[j])]
    ELSE IF job[j].state \notin TerminalJob /\ \E a \in SweptUnknown : JobOf(a) = j
    THEN [job[j] EXCEPT !.state = "UNKNOWN"]
    ELSE job[j]]

(* The sweep and the claim of at most one available event commit together.  *)
Claim(w) ==
    /\ task[w].pc = "idle"
    /\ job' = SweptJob
    /\ att' = SweptAtt
    /\ Touch(SweptFailed \cup SweptUnknown)
    /\ \/ Expired # {} /\ ev' = SweptEv /\ UNCHANGED task
       \/ \E a \in Attempts :
            /\ SweptEv[a].status = "PENDING" /\ SweptEv[a].tries < EventTries
            /\ ev' = [SweptEv EXCEPT ![a] = [status |-> "PROCESSING",
                                             tries |-> SweptEv[a].tries + 1,
                                             expired |-> FALSE]]
            /\ task' = [task EXCEPT ![w] = [IdleTask EXCEPT !.pc = "claimed", !.a = a]]
    /\ UNCHANGED <<release, net>>

(* A lease outlives the submit timeout, so it expires only after the        *)
(* process that held it has gone.                                           *)
LeaseExpires(a) ==
    /\ ev[a].status = "PROCESSING" /\ ~ev[a].expired
    /\ \A w \in Workers : task[w].a # a
    /\ ev' = [ev EXCEPT ![a].expired = TRUE]
    /\ UNCHANGED <<release, job, att, task, rec, net>>

-----------------------------------------------------------------------------
(* Submit worker: submit_once, _submit_event and submit_prepared_attempt    *)

Working(w, pc) == task[w].pc = pc
Goes(w, pc, result) ==
    task' = [task EXCEPT ![w] = [task[w] EXCEPT !.pc = pc, !.result = result]]

(* _mark_definite_failure: the job's state is overwritten whatever it was.  *)
FailDefinitely(a, code, jobState) ==
    /\ att' = [att EXCEPT ![a] = [att[a] EXCEPT !.state = "FAILED", !.code = code,
                                                !.held = Released(att[a].held)]]
    /\ job' = [job EXCEPT ![JobOf(a)].state = jobState]
    /\ Touch({a})

(* _mark_outcome_unknown and _mark_salad_attempt_unknown, for an attempt    *)
(* that is not terminal.                                                    *)
MarkUnknown(a) ==
    /\ att' = [att EXCEPT ![a] = [att[a] EXCEPT !.state = "UNKNOWN", !.code = "other",
                                                !.cancel = "none"]]
    /\ job' = [job EXCEPT ![JobOf(a)].state =
                    IF @ \in TerminalJob THEN @ ELSE "UNKNOWN"]
    /\ Touch({a})

(* _fence_stale_prepared_submission                                         *)
FenceStale(w) == LET a == task[w].a
                     ambiguous == Evidence(a) \/ (Current(a) /\
                                      job[JobOf(a)].state \in RemoteOrAmbiguousJob)
                     closes == Current(a) /\ job[JobOf(a)].state \notin TerminalJob IN
    /\ Working(w, "claimed") /\ att[a].state = "CREATED" /\ Stale(a)
    /\ att' = [att EXCEPT ![a] = [@ EXCEPT
                  !.state = IF ambiguous THEN "UNKNOWN" ELSE "FAILED", !.code = "other"]]
    /\ job' = [job EXCEPT ![JobOf(a)].state =
                   IF ~closes THEN @ ELSE IF ambiguous THEN "UNKNOWN" ELSE "CANCELLED"]
    /\ Goes(w, "settling", IF ambiguous THEN "UNKNOWN" ELSE "RECORDED")
    /\ Touch({a})
    /\ UNCHANGED <<release, ev, net>>

(* The attempt was resolved between the claim and the submission.           *)
AlreadyRecorded(w) == LET s == att[task[w].a].state IN
    /\ Working(w, "claimed") /\ s # "CREATED"
    /\ Goes(w, "settling", IF s \in {"SUBMITTING", "UNKNOWN"} THEN "UNKNOWN" ELSE "RECORDED")
    /\ UNCHANGED <<release, job, att, ev, rec, net>>

Submittable(w) ==
    Working(w, "claimed") /\ att[task[w].a].state = "CREATED" /\ ~Stale(task[w].a)

(* The budget preflight rejects, or the worker's artifact manifest is busy. *)
NotYet(w) ==
    /\ Submittable(w)
    /\ Goes(w, "settling", "BUDGET_BLOCKED")
    /\ UNCHANGED <<release, job, att, ev, rec, net>>

(* _defer_runtime_admission: the rollout target and the event's deferral    *)
(* commit together.                                                         *)
DeferAdmission(w) == LET a == task[w].a IN
    /\ Submittable(w) /\ ~att[a].staged
    /\ att' = [att EXCEPT ![a].staged = TRUE]
    /\ ev' = [ev EXCEPT ![a] = Deferred(@)]
    /\ task' = [task EXCEPT ![w] = IdleTask]
    /\ UNCHANGED <<release, job, rec, net>>

(* reserve_attempt_budget commits the SUBMITTING marker with the            *)
(* reservation; the job and any retry of it follow the decision.            *)
Reserve(w, accepted) == LET a == task[w].a IN
    /\ Submittable(w) /\ att[a].staged
    /\ IF accepted
       THEN /\ att' = [att EXCEPT ![a] = [@ EXCEPT !.state = "SUBMITTING", !.held = "held"]]
            /\ job' = [job EXCEPT ![JobOf(a)].state = "SUBMITTING"]
            /\ Goes(w, "building", "none")
            /\ Touch({a})
       ELSE /\ job' = [job EXCEPT ![JobOf(a)].state = "RETRY_WAIT"]
            /\ Goes(w, "settling", "BUDGET_BLOCKED")
            /\ UNCHANGED <<att, rec>>
    /\ UNCHANGED <<release, ev, net>>

(* build_job_input raised: no upload grant left the controller.             *)
BuildFails(w) == LET a == task[w].a IN
    /\ Working(w, "building")
    /\ FailDefinitely(a, "other", RetryOrFail(job[JobOf(a)]))
    /\ Goes(w, "settling", "RECORDED")
    /\ UNCHANGED <<release, ev, net>>

(* Mutant: the attempt is rearmed although its request has left.            *)
RearmLate(w) == LET a == task[w].a IN
    /\ Working(w, "building") \/ Working(w, "posting")
    /\ Current(a) /\ att[a].state = "SUBMITTING" /\ att[a].held = "held"
    /\ ~att[a].ext /\ att[a].seen = 0 /\ job[JobOf(a)].state = "SUBMITTING"
    /\ att' = [att EXCEPT ![a] = [@ EXCEPT !.state = "CREATED", !.held = "none"]]
    /\ job' = [job EXCEPT ![JobOf(a)].state = "CLAIMED"]
    /\ Goes(w, "settling", "BUDGET_BLOCKED")
    /\ Touch({a})
    /\ UNCHANGED <<release, ev, net>>

(* _rearm_deferred_job_input: the prepared attempt is reused as it was.     *)
Rearm(w) == LET a == task[w].a IN
    /\ Working(w, "building")
    /\ Current(a) /\ att[a].state = "SUBMITTING" /\ att[a].held = "held"
    /\ ~att[a].ext /\ att[a].seen = 0 /\ job[JobOf(a)].state = "SUBMITTING"
    /\ att' = [att EXCEPT ![a] = [@ EXCEPT !.state = "CREATED", !.held = "none"]]
    /\ job' = [job EXCEPT ![JobOf(a)].state = "CLAIMED"]
    /\ Goes(w, "settling", "BUDGET_BLOCKED")
    /\ Touch({a})
    /\ UNCHANGED <<release, ev, net>>

(* provider_post_started, then the request leaves.                          *)
Post(w) == LET a == task[w].a IN
    /\ Working(w, "building")
    /\ net' = [net EXCEPT ![a] = [@ EXCEPT !.posts = net[a].posts + 1, !.wire = "flying"]]
    /\ task' = [task EXCEPT ![w] = [@ EXCEPT !.pc = "posting", !.posted = TRUE]]
    /\ UNCHANGED <<release, job, att, ev, rec>>

(* A 429, and a definitive 4xx: the provider refused before creating a job. *)
PostRefused(w, code) == LET a == task[w].a
                            jr == job[JobOf(a)]
                            granted == code = "infra" /\ MayGrant(a, "infra") IN
    /\ Working(w, "posting") /\ net[a].wire = "flying"
    /\ net' = [net EXCEPT ![a].wire = "lost"]
    /\ att' = [att EXCEPT ![a] = [@ EXCEPT
                  !.state = "FAILED", !.code = code, !.held = Released(att[a].held),
                  !.grant = IF granted THEN "infra" ELSE att[a].grant]]
    /\ job' = [job EXCEPT ![JobOf(a)] =
                   IF granted THEN Granted(jr)
                   ELSE [jr EXCEPT !.state = IF code = "infra" THEN RetryOrFail(jr)
                                             ELSE "FAILED"]]
    /\ Goes(w, "settling", "RECORDED")
    /\ Touch({a})
    /\ UNCHANGED <<release, ev>>

(* Transport and server errors, unexpected ones, and an answer that names   *)
(* another attempt: the provider may have created the job.                  *)
PostAmbiguous(w) ==
    /\ Working(w, "posting")
    /\ MarkUnknown(task[w].a)
    /\ Goes(w, "settling", "UNKNOWN")
    /\ UNCHANGED <<release, ev, net>>

(* The answer carries the new provider job, still pending.                  *)
PostAccepted(w) == LET a == task[w].a IN
    /\ Working(w, "posting") /\ net[a].wire = "landed"
    /\ att' = [att EXCEPT ![a] = [@ EXCEPT !.state = "SUBMITTED", !.ext = TRUE, !.seen = 1]]
    /\ job' = [job EXCEPT ![JobOf(a)].state =
                   IF Current(a) /\ @ \notin TerminalJob THEN "RUNNING" ELSE @]
    /\ Goes(w, "settling", "RECORDED")
    /\ Touch({a})
    /\ UNCHANGED <<release, ev, net>>

-----------------------------------------------------------------------------
(* The end of a submission: the event's transition                          *)

FailEvent(w) == LET a == task[w].a IN           \* fail_outbox_event
    /\ ev' = [ev EXCEPT ![a] = Closed("DEAD_LETTER")]
    /\ IF att[a].state \in {"CREATED", "SUBMITTING"}
       THEN MarkUnknown(a) ELSE UNCHANGED <<att, job, rec>>
    /\ task' = [task EXCEPT ![w] = IdleTask]
    /\ UNCHANGED <<release, net>>

(* defer_unstarted_outbox_event refuses an attempt that is no longer        *)
(* CREATED; the worker then closes the event of the failed attempt.         *)
DeferEvent(w) == LET a == task[w].a IN
    /\ ev' = [ev EXCEPT ![a] = IF att[a].state = "CREATED"
                               THEN Deferred(@)
                               ELSE Closed("SUCCEEDED")]
    /\ task' = [task EXCEPT ![w] = IdleTask]
    /\ UNCHANGED <<release, job, att, rec, net>>

SucceedEvent(w) == LET a == task[w].a IN
    /\ ev' = [ev EXCEPT ![a] = Closed("SUCCEEDED")]
    /\ task' = [task EXCEPT ![w] = IdleTask]
    /\ UNCHANGED <<release, job, att, rec, net>>

(* _transition_submit_result                                                *)
Settle(w) ==
    /\ Working(w, "settling")
    /\ CASE task[w].result = "UNKNOWN" -> FailEvent(w)
         [] task[w].result = "BUDGET_BLOCKED" -> DeferEvent(w)
         [] OTHER -> SucceedEvent(w)

-----------------------------------------------------------------------------
(* Interruptions: shutdown, the submit timeout, an unexpected error         *)

(* _resolve_definitely_unstarted_submit commits the attempt's failure; the  *)
(* event is acknowledged by a second transaction.                           *)
ResolveUnstarted(w) == LET a == task[w].a IN
    /\ IF att[a].state \in {"CREATED", "SUBMITTING"}
       THEN FailDefinitely(a, "other", RetryOrFail(job[JobOf(a)]))
       ELSE UNCHANGED <<att, job, rec>>
    /\ Goes(w, "settling", "RECORDED")
    /\ UNCHANGED <<release, ev, net>>

(* A worker interrupted once the POST had started can only fail the event   *)
(* as ambiguous; before, it defers a staged admission or resolves the       *)
(* attempt as definitely unstarted.                                         *)
Interrupt(w) == LET a == task[w].a IN
    /\ task[w].pc \in {"claimed", "building", "posting", "settling"}
    /\ IF task[w].posted THEN FailEvent(w)
       ELSE \/ ReplaySafe(a) /\ DeferEvent(w)
            \/ att[a].state \in {"CREATED", "SUBMITTING", "FAILED"} /\ ResolveUnstarted(w)

(* The process dies: what it had committed stays.                           *)
Crash(w) ==
    /\ task[w].pc # "idle"
    /\ task' = [task EXCEPT ![w] = IdleTask]
    /\ UNCHANGED <<release, job, att, ev, rec, net>>
=============================================================================
