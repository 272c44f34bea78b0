------------------------ MODULE GenerationPipeline ------------------------
(* The generation pipeline of one release: the scheduler, the submit        *)
(* workers, the reconciler, the webhook inbox, the operator's stop and the  *)
(* collection of masters over the same rows, with the provider they drive.  *)
(* Every action is one transaction, one request or one answer.              *)
EXTENDS SaladSubmission, SaladReconciler, SaladWebhooks, GenerationControl

-----------------------------------------------------------------------------
(* The provider, known only through the requests and answers above          *)

Wire(a, from, to, hist) ==
    /\ net[a].wire = from
    /\ net' = [net EXCEPT ![a] = [@ EXCEPT !.wire = to, !.hist = hist]]
    /\ UNCHANGED <<release, job, att, ev, task, rec>>

(* The POST reaches the queue, or never does.                               *)
Land(a) == Wire(a, "flying", "landed", {"pending"})
Lose(a) == Wire(a, "flying", "lost", {})

(* A job runs, and ends one way.                                            *)
Advance(a) == ~Terminated(a) /\
    \/ net[a].hist = {"pending"} /\ Wire(a, "landed", "landed", {"pending", "running"})
    \/ \E s \in FinalStatuses : Wire(a, "landed", "landed", net[a].hist \cup {s})

(* DELETE takes effect on a job that has not ended.                         *)
CancelLands == LET a == rec.a IN
    /\ rec.pc \in {"stopDelete", "watchdogDelete"} /\ ~Terminated(a)
    /\ Wire(a, "landed", "landed", net[a].hist \cup {"cancelled"})

-----------------------------------------------------------------------------
Submission(w) ==
    \/ Claim(w) \/ FenceStale(w) \/ AlreadyRecorded(w) \/ NotYet(w) \/ DeferAdmission(w)
    \/ \E accepted \in BOOLEAN : Reserve(w, accepted)
    \/ BuildFails(w) \/ Rearm(w) \/ Post(w)
    \/ \E code \in {"infra", "other"} : PostRefused(w, code)
    \/ PostAmbiguous(w) \/ PostAccepted(w) \/ Settle(w) \/ Interrupt(w) \/ Crash(w)

Applying ==
    \/ ApplyAbsence \/ ApplyInconclusive \/ DropStaleAbsence \/ ApplyMissing \/ ApplyError
    \/ ApplyStatus \/ BeginStopCancel \/ RecordStopCancel
    \/ BeginWatchdogCancel \/ EndWatchdogCancel \/ CancelFails

Provider == CancelLands \/ \E a \in Attempts : Land(a) \/ Lose(a) \/ Advance(a)

Collection(j) ==
    ClaimCollection(j) \/ RescheduleCollection(j) \/ FailCollection(j) \/ Collect(j)

Next ==
    \/ RecoverDeadLetters \/ Dispatch \/ DispatchBlocked
    \/ \E w \in Workers : Submission(w)
    \/ \E a \in Attempts : LeaseExpires(a) \/ ReadProvider(a) \/ ReadFails(a) \/ Webhook(a)
    \/ Applying \/ ReconcilerCrash
    \/ RequestStop \/ SettleStop
    \/ \E j \in Jobs : Collection(j)
    \/ Provider

Spec == Init /\ [][Next]_vars

(* Releases from before the retry grants existed: a job that the provider   *)
(* failed is dead-lettered, and nothing was ever granted to its attempt.    *)
HistoricalInit ==
    /\ release = [phase |-> "GENERATING", healthy |-> TRUE, stop |-> FALSE, stopped |-> FALSE]
    /\ job = [j \in Jobs |-> [state |-> "DEAD_LETTER", count |-> 1, max |-> 1]]
    /\ att = [a \in Attempts |-> IF a[2] > 1 THEN NoAttemptRow
                 ELSE [NoAttemptRow EXCEPT !.state = "FAILED", !.ext = TRUE, !.seen = 3,
                                           !.held = "released", !.code = "infra"]]
    /\ ev = [a \in Attempts |-> [status |-> IF a[2] > 1 THEN "NONE" ELSE "SUCCEEDED",
                                 tries |-> 0, expired |-> FALSE]]
    /\ task = [w \in Workers |-> IdleTask]
    /\ rec = IdleRec
    /\ net = [a \in Attempts |-> IF a[2] > 1 THEN [posts |-> 0, wire |-> "unsent", hist |-> {}]
                 ELSE [posts |-> 1, wire |-> "landed", hist |-> {"pending", "failed"}]]

UpgradeSpec == (Init \/ HistoricalInit) /\ [][Next]_vars

-----------------------------------------------------------------------------
(* Fairness. Every loop of the controller runs again and again, the         *)
(* provider ends what it runs, and faults are not forever: from some time   *)
(* on no process dies, no read or DELETE fails, masters arrive and no late  *)
(* callback comes in.                                                       *)

(* What the loops do of themselves. Such a step may change as little as a   *)
(* crash at its place would, and is then not one of the faults.             *)
Works ==
    \/ \E w \in Workers :
        \/ Claim(w) \/ FenceStale(w) \/ AlreadyRecorded(w) \/ NotYet(w)
        \/ DeferAdmission(w) \/ \E accepted \in BOOLEAN : Reserve(w, accepted)
        \/ BuildFails(w) \/ Rearm(w) \/ Post(w) \/ PostAccepted(w) \/ Settle(w)
    \/ ApplyAbsence \/ DropStaleAbsence \/ ApplyStatus
    \/ BeginStopCancel \/ RecordStopCancel
    \/ BeginWatchdogCancel \/ EndWatchdogCancel

Fault ==
    /\ ~Works
    /\ \/ \E w \in Workers : Interrupt(w) \/ Crash(w)
       \/ ReconcilerCrash \/ CancelFails
       \/ ApplyInconclusive \/ ApplyMissing \/ ApplyError
       \/ \E a \in Attempts : ReadFails(a) \/ Webhook(a)
       \/ \E j \in Jobs : RescheduleCollection(j)

Deliver(a) == Land(a) \/ Lose(a)

Fairness ==
    /\ <>[][~Fault]_vars
    /\ \A w \in Workers : WF_vars(Submission(w))
    /\ \A a \in Attempts : /\ WF_vars(LeaseExpires(a)) /\ SF_vars(ReadProvider(a))
                          /\ WF_vars(Deliver(a)) /\ WF_vars(Advance(a))
    /\ WF_vars(CancelLands) /\ WF_vars(Applying)
    /\ WF_vars(SettleStop /\ release'.stopped)
    /\ \A j \in Jobs : WF_vars(ClaimCollection(j)) /\ WF_vars(Collect(j) \/ FailCollection(j))

FairSpec == Spec /\ Fairness

-----------------------------------------------------------------------------
(* Safety                                                                   *)

(* An attempt is sent to the provider once: neither a replayed or deferred  *)
(* submit event nor a restarted worker POSTs it again.                      *)
AtMostOnePost == \A a \in Attempts : net[a].posts <= 1

(* Whatever the provider may be running is known as such: the attempt is    *)
(* not resolved and its budget is still reserved.                           *)
NoOrphan == \A a \in Attempts :
    Live(a) => att[a].state \in RemoteOrAmbiguous /\ att[a].held = "held"

(* A job always has someone to move it on: its claimed or active state is   *)
(* backed by an attempt that the outbox or the reconciler still handles.    *)
NothingIsStranded == \A j \in Jobs : LET a == <<j, job[j].count>> IN
    /\ job[j].state \in {"SUBMITTING", "RUNNING", "UNKNOWN", "CANCEL_REQUESTED"} =>
          att[a].state \in RemoteOrAmbiguous
    /\ job[j].state = "CLAIMED" =>
          att[a].state = "CREATED" /\ ev[a].status \in {"PENDING", "PROCESSING"}
    /\ job[j].state = "RETRY_WAIT" =>
          \/ job[j].count < job[j].max
          \/ att[a].state = "CREATED" /\ ev[a].status \in {"PENDING", "PROCESSING"}

(* A submission interrupted half-way is picked up: an attempt marked        *)
(* SUBMITTING still has its event or its worker.                            *)
SubmittingIsOwned == \A a \in Attempts :
    att[a].state = "SUBMITTING" => ev[a].status = "PROCESSING"

(* Masters are only collected for a job whose latest attempt the provider   *)
(* completed with a valid output.                                           *)
OutputsAreReal == \A j \in Jobs :
    job[j].state \in {"COLLECTING", "VERIFYING", "SUCCEEDED"} =>
        "succeeded" \in net[<<j, job[j].count>>].hist

(* The scheduler's backlog limit holds however attempts end.                *)
BacklogBounded == Cardinality({a \in Attempts : Inflight(a)}) <= MaxInflight

(* Once a stop is settled nothing of the release is left to run or to pay.  *)
StoppedIsQuiet == release.stopped =>
    /\ \A j \in Jobs : job[j].state \in TerminalJob
    /\ \A a \in Attempts :
          att[a].state \notin Nonterminal /\ att[a].held # "held" /\ ~Live(a)

(* Unless it was stopped, a release is reviewed with all its masters.       *)
ReviewIsComplete == release.phase = "REVIEWING" /\ ~release.stopped =>
    \A j \in Jobs : job[j].state = "SUCCEEDED"

-----------------------------------------------------------------------------
(* What no step may do                                                      *)

(* After a stop was requested nothing new is submitted.                     *)
StopFencesSubmission == [][release.stop => \A a \in Attempts :
    att[a].state # "SUBMITTING" => att'[a].state # "SUBMITTING"]_vars

(* A job that ended stays so, but for a retry grant that a running and      *)
(* healthy release allows.                                                  *)
EndedJobsStay == [][\A j \in Jobs :
    job[j].state \in TerminalJob /\ job'[j].state # job[j].state =>
        /\ job[j].state = "DEAD_LETTER" /\ job'[j].state = "RETRY_WAIT"
        /\ job'[j].max = job[j].max + 1 /\ ReleaseAllowsRetry]_vars

(* The pipeline keeps the promise of ProviderCommitment: money is committed *)
(* before the POST, for one attempt of a job at a time, and released when   *)
(* the provider cannot be running the job any more.                         *)
Commitment == INSTANCE ProviderCommitment WITH
    Numbers <- 1..AttemptLimit,
    open <- {a \in Attempts : att[a].held = "held"},
    closed <- {a \in Attempts : att[a].held = "released"},
    sent <- {a \in Attempts : net[a].posts > 0},
    running <- {a \in Attempts : Live(a)}

KeepsCommitment == Commitment!Spec

-----------------------------------------------------------------------------
(* Liveness, under FairSpec                                                 *)

(* A requested stop is settled, whatever was in flight when it came.        *)
StopSettles == release.stop ~> release.stopped

(* No reservation is held forever: a crashed, unanswered or lost submission *)
(* is resolved and its budget returned.                                     *)
ReservationsEnd == \A a \in Attempts : att[a].held = "held" ~> att[a].held # "held"

-----------------------------------------------------------------------------
(* A statement of the repository that the code does not keep                *)

(* salad.py, on the watchdog's commit before its DELETE: the retry intent   *)
(* is durable, so that a crash never turns it into another cancellation.    *)
WatchdogIntentIsDurable == [][\A a \in Attempts :
    WatchdogCancelled(a) /\ att'[a].state = "CANCEL_REQUESTED" /\ ~release.stop =>
        att'[a].cancel = "watchdog"]_vars
=============================================================================
