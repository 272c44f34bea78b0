------------------------- MODULE GenerationControl -------------------------
(* The operator's stop of a release's generation, its settlement by the     *)
(* controller, and the collection of the masters that attempts produced.    *)
EXTENDS GenerationState

-----------------------------------------------------------------------------
(* generation_control: request_generation_stop, settle_stopped_generation   *)

(* Mutant: only what is queued for the first time or claimed is cancelled.  *)
UnsubmittedOnce(j) ==
    LET Has(S) == \E a \in AttemptsOf(j) : att[a].state \in S IN
    /\ ~Has(RemoteOrAmbiguous)
    /\ \/ job[j].state = "QUEUED"
       \/ job[j].state = "CLAIMED" /\ Has({"CREATED"})
    /\ \A a \in AttemptsOf(j) : att[a].state = "CREATED" => att[a].held # "held"

(* Work of a job that is proven not to have reached the provider.           *)
Unsubmitted(j) ==
    LET Has(S) == \E a \in AttemptsOf(j) : att[a].state \in S IN
    /\ ~Has(RemoteOrAmbiguous)
    /\ \/ job[j].state \in {"QUEUED", "RETRY_WAIT"}
       \/ job[j].state = "CLAIMED" /\ Has({"CREATED"})
    /\ \A a \in AttemptsOf(j) : att[a].state = "CREATED" => att[a].held # "held"

Cancelled == {j \in Jobs : Unsubmitted(j)}
CancelledAttempts == {a \in Attempts : JobOf(a) \in Cancelled /\ att[a].state = "CREATED"}

(* _cancel_unsubmitted_work                                                 *)
CancelUnsubmitted ==
    /\ job' = [j \in Jobs |-> IF j \in Cancelled THEN [job[j] EXCEPT !.state = "CANCELLED"]
                              ELSE job[j]]
    /\ att' = [a \in Attempts |-> IF a \in CancelledAttempts
                  THEN [att[a] EXCEPT !.state = "FAILED", !.code = "other"] ELSE att[a]]
    /\ Touch(CancelledAttempts)

(* A request after the settlement only answers with the result.             *)
RequestStop ==
    /\ release.stop \/ release.phase \in {"READY", "GENERATING", "PAUSED"}
    /\ ~release.stopped
    /\ release' = [release EXCEPT !.phase = "PAUSED", !.stop = TRUE]
    /\ CancelUnsubmitted
    /\ UNCHANGED <<ev, task, net>>

(* _draining_job_ids, on the rows that the cancellation left behind.        *)
Draining == \E j \in Jobs \ Cancelled :
    \/ job[j].state \in DrainingJob
    \/ \E a \in AttemptsOf(j) : att[a].state \in Nonterminal

(* Uploaded masters of the release: at least those of its succeeded jobs.   *)
Available == IF \E j \in Jobs : job[j].state = "SUCCEEDED" THEN {TRUE} ELSE BOOLEAN

(* Provider and collection work drains first; masters that are still        *)
(* recoverable (salvage) hold the settlement back too.                      *)
SettleStop == \E available \in Available, salvage \in BOOLEAN :
    /\ release.stop /\ ~release.stopped
    /\ CancelUnsubmitted
    /\ release' =
          IF Draining \/ salvage THEN [release EXCEPT !.phase = "PAUSED"]
          ELSE [release EXCEPT !.stopped = TRUE,
                  !.phase = IF release.healthy /\ available THEN "REVIEWING" ELSE "CANCELLED"]
    /\ UNCHANGED <<ev, task, net>>

-----------------------------------------------------------------------------
(* collection: the job's lease admits one worker at a time, and each of its *)
(* outcomes is refused once the lease is gone                               *)

(* claim_collection_jobs. An expired VERIFYING lease is taken over as it is.*)
ClaimCollection(j) ==
    /\ job[j].state = "COLLECTING"
    /\ job' = [job EXCEPT ![j].state = "VERIFYING"]
    /\ UNCHANGED <<release, att, ev, task, rec, net>>

(* _reschedule: a master is late, busy or not verified yet.                 *)
RescheduleCollection(j) ==
    /\ job[j].state = "VERIFYING"
    /\ job' = [job EXCEPT ![j].state = "COLLECTING"]
    /\ UNCHANGED <<release, att, ev, task, rec, net>>

(* _fail_closed: quarantined, expired or mismatched masters.                *)
FailCollection(j) ==
    /\ job[j].state = "VERIFYING"
    /\ job' = [job EXCEPT ![j].state = "DEAD_LETTER"]
    /\ release' = [release EXCEPT !.healthy = FALSE]
    /\ UNCHANGED <<att, ev, task, rec, net>>

(* Mutant: the first collected job opens the review.                        *)
CollectFirst(j) ==
    /\ job[j].state = "VERIFYING"
    /\ job' = [job EXCEPT ![j].state = "SUCCEEDED"]
    /\ release' = IF release.phase = "GENERATING"
                  THEN [release EXCEPT !.phase = "REVIEWING", !.healthy = TRUE]
                  ELSE release
    /\ UNCHANGED <<att, ev, task, rec, net>>

(* collect_generation_job, with every master verified.                      *)
Collect(j) ==
    LET last == \A k \in Jobs \ {j} : job[k].state = "SUCCEEDED" IN
    /\ job[j].state = "VERIFYING"
    /\ job' = [job EXCEPT ![j].state = "SUCCEEDED"]
    /\ release' = IF last /\ release.phase = "GENERATING"
                  THEN [release EXCEPT !.phase = "REVIEWING", !.healthy = TRUE]
                  ELSE release
    /\ UNCHANGED <<att, ev, task, rec, net>>
=============================================================================
