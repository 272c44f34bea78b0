-------------------------- MODULE SaladReconciler --------------------------
(* reconcile_generation_attempt: a provider read, and the transaction that  *)
(* applies what it saw to the attempt and its job. The function reads       *)
(* without a lock, so that the row may change between the two; lock_version *)
(* fences what must not be applied late. (That the controller's own loop    *)
(* keeps its row locks while it reads is not relied on here.)               *)
EXTENDS GenerationState

-----------------------------------------------------------------------------
(* What the provider may answer                                             *)

Terminated(a) == net[a].hist \cap Terminals # {}
Live(a) == net[a].wire = "flying" \/ (net[a].wire = "landed" /\ ~Terminated(a))

Latest(a) == CHOOSE s \in net[a].hist : \A t \in net[a].hist : Rank(t) <= Rank(s)

(* The provider may have forgotten a job that ended. A read that misses a   *)
(* request still on its way cannot be repeated until the absence counts as  *)
(* confirmed: the observations are spaced further apart than a request      *)
(* stays in flight.                                                         *)
Absent(a) ==
    \/ net[a].wire \in {"unsent", "lost"} \/ Terminated(a)
    \/ /\ net[a].wire = "flying"
       /\ att[a].misses < Confirmations - 1 /\ att[a].stopMisses < Confirmations - 1

(* The observations that lock_version keeps from being applied late.        *)
Fenced == {"absent", "inconclusive", "pending", "running"}

Reads(a, obs) == rec' = [pc |-> "read", a |-> a, obs |-> obs, fresh |-> obs \in Fenced]

(* GET by provider_external_id, or the LIST scan for the attempt's metadata.*)
ReadProvider(a) ==
    /\ rec.pc = "idle" /\ att[a].state \in Reconcilable
    /\ \/ net[a].wire = "landed" /\ Reads(a, Latest(a))
       \/ Absent(a) /\ Reads(a, "absent")
    /\ UNCHANGED <<release, job, att, ev, task, net>>

(* A read that fails; only a LIST can stop short of the end of the queue or *)
(* answer 404 for the queue itself.                                         *)
ReadFails(a) ==
    /\ rec.pc = "idle" /\ att[a].state \in Reconcilable
    /\ \E obs \in IF att[a].ext THEN {"error"} ELSE {"error", "inconclusive", "missing"} :
          Reads(a, obs)
    /\ UNCHANGED <<release, job, att, ev, task, net>>

-----------------------------------------------------------------------------
Read(S) == rec.pc = "read" /\ rec.obs \in S
Done == rec' = IdleRec
JobLives(a) == job[JobOf(a)].state \notin TerminalJob
AttemptLives(a) == att[a].state \notin TerminalAttempt
SetJob(a, s) == job' = [job EXCEPT ![JobOf(a)].state = IF @ \in TerminalJob THEN @ ELSE s]

(* _mark_outcome_unknown, with the absence trackers it is called with.      *)
StayUnknown(a, misses, stopMisses) ==
    /\ att' = [att EXCEPT ![a] = IF ~AttemptLives(a) THEN @
                  ELSE [@ EXCEPT !.state = "UNKNOWN", !.code = "other", !.cancel = "none",
                                 !.misses = misses, !.stopMisses = stopMisses]]
    /\ SetJob(a, "UNKNOWN")

(* _mark_operator_stop_provider_absent                                      *)
StopProviderAbsent(a) ==
    /\ att' = [att EXCEPT ![a] = [@ EXCEPT
                  !.state = IF att[a].ext THEN "CANCELLED" ELSE "FAILED",
                  !.seen = 3, !.code = "other", !.cancel = "none", !.misses = 0,
                  !.stopMisses = 0, !.held = Released(att[a].held)]]
    /\ SetJob(a, "CANCELLED")

(* Mutant: the attempt fails, its reservation stays.                        *)
ProviderJobAbsentHeld(a) ==
    /\ att' = [att EXCEPT ![a] = [@ EXCEPT
                  !.state = "FAILED", !.seen = 3, !.code = "infra", !.cancel = "none",
                  !.misses = 0, !.stopMisses = 0]]
    /\ job' = [job EXCEPT ![JobOf(a)] =
                  IF job[JobOf(a)].state \in TerminalJob THEN @
                  ELSE [@ EXCEPT !.state = RetryOrFail(job[JobOf(a)])]]

(* _mark_provider_job_absent                                                *)
ProviderJobAbsent(a) == LET granted == MayGrant(a, "infra")
                            jr == job[JobOf(a)] IN
    /\ att' = [att EXCEPT ![a] = [@ EXCEPT
                  !.state = "FAILED", !.seen = 3, !.code = "infra", !.cancel = "none",
                  !.misses = 0, !.stopMisses = 0, !.held = Released(att[a].held),
                  !.grant = IF granted THEN "infra" ELSE att[a].grant]]
    /\ job' = [job EXCEPT ![JobOf(a)] =
                  IF granted THEN Granted(jr)
                  ELSE IF jr.state \in TerminalJob THEN jr
                  ELSE [jr EXCEPT !.state = RetryOrFail(jr)]]

(* _absence_observation_still_applies: the attempt is not terminal, and its *)
(* lock_version is the one that was read.                                   *)
StillApplies(a) == rec.fresh /\ AttemptLives(a)

(* Mutant: off by one, so that one absence too few is proof.                *)
ProvenEarly(misses) == misses + 2 >= Confirmations

(* The observation that follows so many misses is the last one needed.      *)
Proven(misses) == misses + 1 >= Confirmations

(* Mutant: after a stop, the tracker of the other case decides.             *)
ApplyAbsenceOtherTracker == LET a == rec.a IN
    /\ Read({"absent"}) /\ StillApplies(a)
    /\ IF Proven(att[a].misses)
       THEN IF release.stop THEN StopProviderAbsent(a) ELSE ProviderJobAbsent(a)
       ELSE StayUnknown(a, att[a].misses + (IF release.stop THEN 0 ELSE 1),
                           att[a].stopMisses + (IF release.stop THEN 1 ELSE 0))
    /\ Done
    /\ UNCHANGED <<release, ev, task, net>>

(* One more exact absence; the last one resolves the attempt.               *)
ApplyAbsence == LET a == rec.a IN
    /\ Read({"absent"}) /\ StillApplies(a)
    /\ IF release.stop
       THEN IF Proven(att[a].stopMisses) THEN StopProviderAbsent(a)
            ELSE StayUnknown(a, att[a].misses, att[a].stopMisses + 1)
       ELSE IF Proven(att[a].misses) THEN ProviderJobAbsent(a)
            ELSE StayUnknown(a, att[a].misses + 1, att[a].stopMisses)
    /\ Done
    /\ UNCHANGED <<release, ev, task, net>>

(* A scan that was not exhaustive confirms nothing.                         *)
ApplyInconclusive == LET a == rec.a IN
    /\ Read({"inconclusive"}) /\ StillApplies(a)
    /\ StayUnknown(a, IF release.stop THEN att[a].misses ELSE 0,
                      IF release.stop THEN 0 ELSE att[a].stopMisses)
    /\ Done
    /\ UNCHANGED <<release, ev, task, net>>

(* _stale_reconciliation_result                                             *)
DropStaleAbsence ==
    /\ Read({"absent", "inconclusive"}) /\ ~StillApplies(rec.a)
    /\ Done
    /\ UNCHANGED <<release, job, att, ev, task, net>>

(* The queue itself was not found.                                          *)
ApplyMissing == LET a == rec.a IN
    /\ Read({"missing"})
    /\ StayUnknown(a, att[a].misses, IF release.stop THEN 0 ELSE att[a].stopMisses)
    /\ Done
    /\ UNCHANGED <<release, ev, task, net>>

(* _note_reconciliation_error: the error code replaces the one on the row.  *)
ApplyError == LET a == rec.a IN
    /\ Read({"error"})
    /\ att' = [att EXCEPT ![a] = [@ EXCEPT
                  !.code = "other", !.cancel = "none", !.misses = 0,
                  !.stopMisses = IF release.stop THEN 0 ELSE att[a].stopMisses]]
    /\ Done
    /\ UNCHANGED <<release, job, ev, task, net>>

-----------------------------------------------------------------------------
(* apply_salad_job_observation                                              *)

StateRank == [CREATED |-> 0, SUBMITTING |-> 1, SUBMITTED |-> 2, RUNNING |-> 3,
              SUCCEEDED |-> 4, FAILED |-> 4, CANCELLED |-> 4]

(* _is_forward_transition                                                   *)
Forward(cur, target) ==
    CASE cur = "UNKNOWN" -> TRUE
      [] cur = "CANCEL_REQUESTED" -> target \in TerminalAttempt
      [] cur \in TerminalAttempt -> cur = target
      [] OTHER -> StateRank[target] >= StateRank[cur]

(* The provider's clock, compared once an identity is bound.                *)
StaleStatus(a, s) ==
    /\ att[a].ext /\ att[a].seen # 0
    /\ \/ Rank(s) < att[a].seen
       \/ Rank(s) = att[a].seen /\ ~(s \in Terminals /\ AttemptLives(a))

WatchdogCancelled(a) == att[a].state = "CANCEL_REQUESTED" /\ att[a].cancel = "watchdog"

(* A cancellation is the operator's only if a stop was requested and the    *)
(* watchdog had not asked for it first; success counts with a valid output. *)
Target(a, s) ==
    CASE s = "pending" -> "SUBMITTED"
      [] s = "running" -> "RUNNING"
      [] s = "succeeded" -> "SUCCEEDED"
      [] s = "cancelled" /\ release.stop /\ ~WatchdogCancelled(a) -> "CANCELLED"
      [] OTHER -> "FAILED"

FailureCode(a, s) ==
    CASE Target(a, s) # "FAILED" -> "none"
      [] s = "invalid" -> "other"
      [] s = "nearblack" -> "nearblack"
      [] OTHER -> "infra"

(* _job_state_for_observation                                               *)
JobStateFor(jr, target) ==
    CASE target \in {"SUBMITTED", "RUNNING"} -> "RUNNING"
      [] target = "SUCCEEDED" -> "COLLECTING"
      [] target = "FAILED" -> RetryOrFail(jr)
      [] target = "CANCELLED" -> "CANCELLED"

Observe(a, s) ==
    LET target == Target(a, s)
        kind == FailureCode(a, s)
        granted == kind \in {"infra", "nearblack"} /\ MayGrant(a, kind)
        jr == IF granted THEN Granted(job[JobOf(a)]) ELSE job[JobOf(a)]
    IN  /\ att' = [att EXCEPT ![a] = [@ EXCEPT
                      !.state = target, !.ext = TRUE, !.seen = Rank(s), !.misses = 0,
                      !.stopMisses = 0, !.code = kind, !.cancel = "none",
                      !.held = IF target \in TerminalAttempt THEN Released(att[a].held)
                                                             ELSE att[a].held,
                      !.grant = IF granted THEN kind ELSE att[a].grant]]
        /\ job' = [job EXCEPT ![JobOf(a)] =
                      IF ~Current(a) \/ jr.state \in TerminalJob THEN jr
                      ELSE [jr EXCEPT !.state =
                               IF s = "nearblack" /\ ~granted THEN "DEAD_LETTER"
                               ELSE JobStateFor(jr, target)]]

(* A regression, or a status that a resolved attempt contradicts, leaves    *)
(* the row alone but for the absence tracker and the error code.            *)
Ignored(a, s) ==
    StaleStatus(a, s) \/ ~Forward(att[a].state, Target(a, s))

IgnoreStatus(a, s) ==
    /\ att' = [att EXCEPT ![a] = [@ EXCEPT
                  !.misses = 0,
                  !.code = IF AttemptLives(a) \/ StaleStatus(a, s) THEN att[a].code ELSE "other"]]
    /\ UNCHANGED job

ApplyStatus == LET a == rec.a
                   s == rec.obs IN
    /\ Read(Statuses) /\ ~(release.stop /\ s \in {"pending", "running"})
    /\ IF Ignored(a, s) THEN IgnoreStatus(a, s) ELSE Observe(a, s)
    /\ Done
    /\ UNCHANGED <<release, ev, task, net>>

-----------------------------------------------------------------------------
(* Cancelling a job that the provider still runs                            *)

(* _active_remote_mutation_still_applies                                    *)
CancelApplies(a, s) ==
    /\ AttemptLives(a) /\ att[a].seen <= Rank(s)
    /\ att[a].state \in {"UNKNOWN", "CANCEL_REQUESTED"} \/ Forward(att[a].state, Target(a, s))

Deletes(pc) == rec' = [IdleRec EXCEPT !.pc = pc, !.a = rec.a]
Later(seen, s) == IF Rank(s) > seen THEN Rank(s) ELSE seen

(* _persist_operator_stop_remote_identity commits before the DELETE.        *)
BeginStopCancel == LET a == rec.a
                       s == rec.obs IN
    /\ Read({"pending", "running"}) /\ release.stop
    /\ IF CancelApplies(a, s)
       THEN /\ att' = [att EXCEPT ![a] = [@ EXCEPT !.ext = TRUE, !.stopMisses = 0,
                                                   !.seen = Later(att[a].seen, s)]]
            /\ Deletes("stopDelete")
       ELSE Done /\ UNCHANGED att
    /\ UNCHANGED <<release, job, ev, task, net>>

(* _mark_operator_stop_cancel_requested, once DELETE was accepted.          *)
RecordStopCancel == LET a == rec.a IN
    /\ rec.pc = "stopDelete" /\ ~Live(a)
    /\ IF AttemptLives(a)
       THEN /\ att' = [att EXCEPT ![a] = [@ EXCEPT
                          !.state = "CANCEL_REQUESTED", !.cancel = "stop", !.code = "other",
                          !.misses = 0, !.stopMisses = 0]]
            /\ SetJob(a, "CANCEL_REQUESTED")
       ELSE UNCHANGED <<att, job>>
    /\ Done
    /\ UNCHANGED <<release, ev, task, net>>

(* _watchdog_remote_cancel_still_applies                                    *)
WatchdogApplies(a, s) ==
    /\ AttemptLives(a)
    /\ \/ WatchdogCancelled(a) /\ att[a].ext
       \/ att[a].state = "RUNNING" /\ s = "pending" /\ att[a].ext
       \/ CancelApplies(a, s)

(* The watchdog's deadline passed: its intent and the provider identity     *)
(* commit before the DELETE. Another cancellation intent is left alone.     *)
BeginWatchdogCancel == LET a == rec.a
                           s == rec.obs IN
    /\ Read({"pending", "running"}) /\ ~release.stop
    /\ JobLives(a) /\ rec.fresh /\ WatchdogApplies(a, s)
    /\ IF att[a].state = "CANCEL_REQUESTED"
       THEN /\ UNCHANGED att
            /\ IF att[a].cancel = "watchdog"
               THEN Deletes("watchdogDelete") ELSE Done
       ELSE /\ att' = [att EXCEPT ![a] = [@ EXCEPT
                          !.state = "CANCEL_REQUESTED", !.cancel = "watchdog", !.ext = TRUE,
                          !.misses = 0, !.stopMisses = 0, !.seen = Later(att[a].seen, s)]]
            /\ Deletes("watchdogDelete")
    /\ UNCHANGED <<release, job, ev, task, net>>

(* After an accepted DELETE the watchdog has nothing left to write.         *)
EndWatchdogCancel ==
    /\ rec.pc = "watchdogDelete" /\ ~Live(rec.a)
    /\ Done
    /\ UNCHANGED <<release, job, att, ev, task, net>>

(* DELETE failed: _note_operator_stop_cancel_error and                      *)
(* _note_watchdog_cancel_error, which keeps the watchdog's own intent.      *)
CancelFails == LET a == rec.a IN
    /\ rec.pc \in {"stopDelete", "watchdogDelete"}
    /\ IF AttemptLives(a) /\ (rec.pc = "stopDelete" \/ att[a].cancel # "watchdog")
       THEN att' = [att EXCEPT ![a] = [@ EXCEPT !.code = "other", !.cancel = "none"]]
       ELSE UNCHANGED att
    /\ Done
    /\ UNCHANGED <<release, job, ev, task, net>>

(* The reconcile timeout, or the end of the process.                        *)
ReconcilerCrash ==
    /\ rec.pc # "idle"
    /\ Done
    /\ UNCHANGED <<release, job, att, ev, task, net>>
=============================================================================
