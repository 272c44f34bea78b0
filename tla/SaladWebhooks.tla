--------------------------- MODULE SaladWebhooks ---------------------------
(* process_salad_webhook_receipt: a signed callback about one provider job, *)
(* applied in a single transaction. Callbacks are delivered any number of   *)
(* times, late and in any order; they name the job's status only, so that   *)
(* the quality of an output is not known from them.                         *)
EXTENDS GenerationState

(* The status a callback carries for what happened to the provider's job.   *)
Raw(s) == IF s \in {"invalid", "nearblack"} THEN "succeeded" ELSE s

TerminalTarget(raw) == raw \in {"succeeded", "failed", "cancelled"}

(* _terminal_status_matches_attempt; the codes of a watchdog expiry and of  *)
(* a retried cancellation let a failed attempt confirm "cancelled".         *)
Confirms(a, raw) ==
    \/ raw = "succeeded" /\ att[a].state = "SUCCEEDED"
    \/ raw = "failed" /\ att[a].state = "FAILED"
    \/ raw = "cancelled" /\ \/ att[a].state = "CANCELLED"
                            \/ att[a].state = "FAILED" /\ att[a].code = "infra"

Regresses(a, raw) ==
    raw = "pending" /\ (att[a].seen = 2 \/ att[a].state \in {"RUNNING", "CANCEL_REQUESTED"})

(* The receipt is completed or dead-lettered with the attempt as it was. A  *)
(* failure of a runtime-admitted attempt is left to the reconciler.         *)
Skipped(a, raw) ==
    \/ ~Current(a)
    \/ Rank(raw) < att[a].seen
    \/ att[a].state \in TerminalAttempt
    \/ Regresses(a, raw)
    \/ /\ job[JobOf(a)].state \in TerminalJob
       /\ ~(att[a].state = "UNKNOWN" /\ job[JobOf(a)].state = "DEAD_LETTER")
    \/ raw = "failed" /\ att[a].staged /\ job[JobOf(a)].state \notin TerminalJob

(* A callback that agrees with a resolved attempt still bumps its version.  *)
ConfirmTerminal(a, raw) ==
    /\ Current(a) /\ Rank(raw) >= att[a].seen
    /\ att[a].state \in TerminalAttempt /\ TerminalTarget(raw) /\ Confirms(a, raw)
    /\ att' = [att EXCEPT ![a] = [@ EXCEPT !.seen = Rank(raw), !.held = Released(att[a].held)]]
    /\ Touch({a})
    /\ UNCHANGED job

(* pending and running; a requested cancellation only moves the clock.      *)
ObserveActive(a, raw) ==
    IF att[a].state = "CANCEL_REQUESTED"
    THEN att' = [att EXCEPT ![a].seen = Rank(raw)] /\ UNCHANGED job
    ELSE /\ att' = [att EXCEPT ![a] = [@ EXCEPT
                       !.state = IF raw = "pending" THEN "SUBMITTED" ELSE "RUNNING",
                       !.seen = Rank(raw), !.code = "none", !.cancel = "none"]]
         /\ job' = [job EXCEPT ![JobOf(a)].state = "RUNNING"]

(* Mutant: the callback's word for a success is enough.                     *)
ObserveSuccessTrusted(a) ==
    /\ att' = [att EXCEPT ![a] = [@ EXCEPT !.state = "SUCCEEDED", !.seen = 3,
                                           !.held = Released(att[a].held)]]
    /\ job' = [job EXCEPT ![JobOf(a)].state = "COLLECTING"]

(* Success is not trusted before the reconciler has validated the output.   *)
ObserveSuccess(a) ==
    /\ att' = [att EXCEPT ![a] = [@ EXCEPT !.state = "UNKNOWN", !.seen = 3,
                                           !.code = "other", !.cancel = "none"]]
    /\ job' = [job EXCEPT ![JobOf(a)].state = "UNKNOWN"]

(* A failure, or a cancellation the operator did not ask for.               *)
ObserveFailure(a) == LET granted == MayGrant(a, "infra")
                         jr == IF granted THEN Granted(job[JobOf(a)]) ELSE job[JobOf(a)] IN
    /\ att' = [att EXCEPT ![a] = [@ EXCEPT
                  !.state = "FAILED", !.seen = 3, !.code = "infra", !.cancel = "none",
                  !.held = Released(att[a].held),
                  !.grant = IF granted THEN "infra" ELSE att[a].grant]]
    /\ job' = [job EXCEPT ![JobOf(a)] = [jr EXCEPT !.state = RetryOrFail(jr)]]

ObserveStopped(a) ==
    /\ att' = [att EXCEPT ![a] = [@ EXCEPT !.state = "CANCELLED", !.seen = 3, !.code = "none",
                                           !.cancel = "none", !.held = Released(att[a].held)]]
    /\ job' = [job EXCEPT ![JobOf(a)].state = "CANCELLED"]

(* _apply_provider_state                                                    *)
ApplyProviderState(a, raw) ==
    CASE raw \in {"pending", "running"} -> ObserveActive(a, raw)
      [] raw = "succeeded" -> ObserveSuccess(a)
      [] raw = "cancelled" /\ release.stop
            /\ ~(att[a].state = "CANCEL_REQUESTED" /\ att[a].cancel = "watchdog")
         -> ObserveStopped(a)
      [] OTHER -> ObserveFailure(a)

(* A callback that matches no attempt yet is retried later: nothing moves.  *)
Webhook(a) == \E s \in net[a].hist : LET raw == Raw(s) IN
    /\ att[a].ext
    /\ \/ ConfirmTerminal(a, raw)
       \/ ~Skipped(a, raw) /\ ApplyProviderState(a, raw) /\ Touch({a})
    /\ UNCHANGED <<release, ev, task, net>>
=============================================================================
