------------------------------ MODULE VideoJobs ------------------------------
(* services/i2v.py and i2v_runpod_runtime.py with the claim callback of     *)
(* api/routes/i2v.py: one image-to-video job and its attempts at a RunPod   *)
(* endpoint. A request that got no answer is never repeated; the worker     *)
(* that RunPod may have started for it asks the control plane for leave     *)
(* before it works, which also tells the control plane its name.            *)
EXTENDS Naturals

CONSTANTS
    Workers,      \* controllers running i2v_once, all under one worker id
    Leaving,      \* those of them of the previous release, with one cycle left
    MaxAttempts,  \* bound: attempts the owner asks for
    MaxPosts      \* bound: requests that RunPod gets

VARIABLES
    job,    \* i2v_jobs: state, attempt_count, whether its lease is unexpired
    att,    \* the i2v_attempts row with that number, and its metadata
    late,   \* the deadline that runs for the attempt has passed
    pods,   \* the provider's job made by each request
    world,  \* rigid: the one thing that a behaviour may meet beside faults
    pc      \* where each controller is in run_cycle

vars == <<job, att, late, pods, world, pc>>

Posts == 1..MaxPosts
Unbound == 0
Idle == [at |-> "idle"]
Left == [at |-> "left"]
Down == [at |-> "down"]
At(w, where) == pc[w].at = where

ActiveJob == {"CLAIMED", "RUNNING", "CANCEL_REQUESTED"}
EndedJob == {"CANCELLED", "SUCCEEDED", "FAILED"}
ActiveAttempt == {"CREATED", "RUNNING"}
JobRows == [state : {"QUEUED"} \cup ActiveJob \cup EndedJob,
            count : 0..MaxAttempts, live : BOOLEAN]
AttemptRows ==
    [state : ActiveAttempt \cup EndedJob,
     pod : Posts \cup {Unbound},   \* provider_job_id
     \* submission_state; "running" is submitted, and seen IN_PROGRESS
     sub : {"none", "prepared", "submitting", "unknown", "submitted", "running"},
     \* provider_absence_observed_at: not set, or older than the grace or not
     absent : {"none", "fresh", "old"},
     evicted : BOOLEAN,            \* queue_timeout_cancel_requested_at is set
     ended : BOOLEAN]              \* cancel_requested_provider_job_id is set
NewAttempt == [state |-> "CREATED", pod |-> Unbound, sub |-> "none",
               absent |-> "none", evicted |-> FALSE, ended |-> FALSE]
Waiting == {"IN_QUEUE", "IN_PROGRESS"}
Stopped == {"COMPLETED", "FAILED"}   \* TIMED_OUT and CANCELLED are FAILED
Pods == [at : {"none", "gone"} \cup Waiting \cup Stopped,
         no : 0..MaxAttempts,      \* the attempt it was asked to work for
         in : BOOLEAN,             \* its worker was let in
         stop : BOOLEAN]           \* its cancellation was asked for
NoPod == [at |-> "none", no |-> 0, in |-> FALSE, stop |-> FALSE]

\* Nothing; a controller of the previous release; a provider that forgets
\* jobs; controllers that are away for longer than a lease.
Worlds == {"calm", "overlap", "forgets", "outage"}

Init ==
    /\ job = [state |-> "QUEUED", count |-> 0, live |-> FALSE]
    /\ att = [NewAttempt EXCEPT !.state = "FAILED"]
    /\ late = FALSE
    /\ pods = [p \in Posts |-> NoPod]
    /\ world \in Worlds
    /\ pc = [w \in Workers |-> IF w \in Leaving /\ world # "overlap"
                                THEN Left ELSE Idle]

-----------------------------------------------------------------------------
(* The owner.                                                              *)

\* request_i2v_job_cancellation (bound: not beside the previous release)
Cancel ==
    /\ job.state \in {"QUEUED", "CLAIMED", "RUNNING"} /\ world # "overlap"
    /\ job' = [job EXCEPT !.state = IF @ = "QUEUED" THEN "CANCELLED"
                                    ELSE "CANCEL_REQUESTED"]
    /\ UNCHANGED <<att, late, pods, world, pc>>

\* retry_i2v_job (bound: in a calm world)
Retry ==
    /\ job.state \in {"FAILED", "CANCELLED"}
    /\ job.count < MaxAttempts /\ world = "calm"
    /\ job' = [job EXCEPT !.state = "QUEUED", !.live = FALSE]
    /\ UNCHANGED <<att, late, pods, world, pc>>

-----------------------------------------------------------------------------
(* The two ways a cycle writes. What is refused raises, and ends the cycle. *)

Active == job.state \in ActiveJob /\ att.state \in ActiveAttempt
Seen(w) == pc[w].seen
Go(w, next) == pc' = [pc EXCEPT ![w] = next]
After(w) == IF w \in Leaving THEN Left ELSE Idle
Done(w) == Go(w, After(w))

\* Mutant: the id that the cycle knows replaces the one that is there.
AcceptsAny(w, p) == Active /\ job.count = pc[w].no

\* _record_attempt_metadata accepts the id of a provider job where there is
\* none, or the same.
Accepts(w, p) == Active /\ job.count = pc[w].no /\ att.pod \in {Unbound, p}

\* _record_attempt_metadata writes the metadata as the cycle read it, with
\* its updates, and renews the lease, expired or not.
Record(w, seen, next) ==
    IF Accepts(w, seen.pod)
    THEN /\ att' = [seen EXCEPT !.state = att.state]
         /\ job' = [job EXCEPT !.live = TRUE]
         /\ Go(w, next)
    ELSE Done(w) /\ UNCHANGED <<job, att>>

\* _locked_claim: unlike the above, it refuses an expired lease.
Resolve(w, from, to, result) ==
    /\ IF Active /\ job.count = pc[w].no /\ job.live /\ job.state \in from
       THEN /\ job' = [job EXCEPT !.state = to, !.live = FALSE]
            /\ att' = [att EXCEPT !.state = result]
       ELSE UNCHANGED <<job, att>>
    /\ Done(w)

\* fail_i2v_attempt, acknowledge_i2v_cancellation, complete_i2v_job
Fail(w) == Resolve(w, {"CLAIMED", "RUNNING"}, "FAILED", "FAILED")
Acknowledge(w) == Resolve(w, {"CANCEL_REQUESTED"}, "CANCELLED", "CANCELLED")
Complete(w) == Resolve(w, {"CLAIMED", "RUNNING"}, "SUCCEEDED", "SUCCEEDED")

-----------------------------------------------------------------------------
(* run_cycle. The submission of an attempt that has no provider job yet.   *)

\* claim_next_i2v_job; what the attempt is prepared with is written later.
Claim(w) ==
    /\ At(w, "idle") /\ job.state = "QUEUED" /\ job.count < MaxAttempts
    /\ job' = [state |-> "CLAIMED", count |-> job.count + 1, live |-> TRUE]
    /\ att' = NewAttempt /\ late' = FALSE
    /\ Go(w, [at |-> "claimed", no |-> job.count + 1, seen |-> NewAttempt])
    /\ UNCHANGED <<pods, world>>

\* _active_attempts, and the clock, which the whole cycle uses.
Read(w) ==
    /\ At(w, "idle") /\ Active
    /\ Go(w, [at |-> "read", no |-> job.count, seen |-> att, late |-> late,
              cancel |-> job.state = "CANCEL_REQUESTED"])
    /\ UNCHANGED <<job, att, late, pods, world>>

Free(w) == At(w, "read") /\ Seen(w).pod = Unbound /\ ~pc[w].cancel

Prepare(w) ==
    /\ \/ At(w, "claimed")
       \/ Free(w) /\ Seen(w).sub = "none"
    /\ Record(w, [Seen(w) EXCEPT !.sub = "prepared"], After(w))
    /\ UNCHANGED <<late, pods, world>>

\* _submit_existing, up to the request.
StartSubmit(w) ==
    /\ Free(w) /\ Seen(w).sub = "prepared"
    /\ LET seen == [Seen(w) EXCEPT !.sub = "submitting"]
       IN Record(w, seen, [at |-> "post", no |-> pc[w].no, seen |-> seen])
    /\ late' = FALSE
    /\ UNCHANGED <<pods, world>>

\* The request reaches RunPod, or nothing does.
Post(w) ==
    /\ At(w, "post")
    /\ \E p \in Posts \cup {Unbound} :
        /\ p # Unbound =>
               pods[p].at = "none" /\ \A q \in 1..(p - 1) : pods[q].at # "none"
        /\ pods' = [q \in Posts |-> IF q # p THEN pods[q] ELSE
                        [NoPod EXCEPT !.at = "IN_QUEUE", !.no = pc[w].no]]
        /\ Go(w, [at |-> "posted", no |-> pc[w].no, seen |-> Seen(w), pod |-> p])
    /\ UNCHANGED <<job, att, late, world>>

Posted(w, p) == At(w, "posted") /\ pc[w].pod = p

\* The answer names the job and its state.
Accepted(w) ==
    /\ \E p \in Posts : Posted(w, p) /\ pods[p].at # "gone"
    /\ LET p == pc[w].pod
       IN Record(w, [Seen(w) EXCEPT !.pod = p, !.sub =
              IF pods[p].at = "IN_PROGRESS" THEN "running" ELSE "submitted"], After(w))
    /\ late' = FALSE
    /\ UNCHANGED <<pods, world>>

\* HTTP 429
RateLimited(w) ==
    /\ Posted(w, Unbound)
    /\ Record(w, [Seen(w) EXCEPT !.sub = "prepared"], After(w))
    /\ UNCHANGED <<late, pods, world>>

\* HTTP 400, 401, 403, 404 and 422
Rejected(w) ==
    /\ Posted(w, Unbound) /\ Fail(w)
    /\ UNCHANGED <<late, pods, world>>

\* Another error, or no answer: _mark_submission_unknown.
Uncertain(w) ==
    /\ At(w, "posted")
    /\ Record(w, [Seen(w) EXCEPT !.sub = "unknown"], After(w))
    /\ UNCHANGED <<late, pods, world>>

\* The request is not repeated; the attempt waits for a worker's claim.
Unresolved(w) ==
    /\ Free(w) /\ Seen(w).sub \in {"submitting", "unknown"}
    /\ IF pc[w].late THEN Fail(w) ELSE Done(w) /\ UNCHANGED <<job, att>>
    /\ UNCHANGED <<late, pods, world>>

UnboundCancel(w) ==
    /\ At(w, "read") /\ Seen(w).pod = Unbound /\ pc[w].cancel
    /\ Acknowledge(w)
    /\ UNCHANGED <<late, pods, world>>

-----------------------------------------------------------------------------
(* The observation of a provider job (_advance_attempt, _advance_cancella-  *)
(* tion, _observe_nonterminal).                                            *)

Bound(w) == At(w, "read") /\ Seen(w).pod # Unbound
Started(w) == Seen(w).state = "RUNNING" \/ Seen(w).sub = "running"
Overdue(w) == Started(w) /\ pc[w].late /\ ~pc[w].cancel
Got(w, states, cancel) ==
    At(w, "got") /\ pc[w].remote \in states /\ pc[w].cancel = cancel

\* get_job; a job that is overdue is not asked for.
Get(w) ==
    /\ Bound(w) /\ ~Overdue(w)
    /\ LET remote == pods[Seen(w).pod].at
       IN Go(w, [at |-> "got", no |-> pc[w].no, late |-> pc[w].late,
                 cancel |-> pc[w].cancel, remote |-> remote,
                 seen |-> IF remote \in Stopped THEN NewAttempt   \* of no use
                          ELSE Seen(w)])
    /\ UNCHANGED <<job, att, late, pods, world>>

\* HTTP 404. The absence is noted again at each look, until the last note
\* is older than the grace.
Missing(w) ==
    /\ \/ Got(w, {"gone"}, TRUE) /\ Acknowledge(w)
       \/ Got(w, {"gone"}, FALSE)
          /\ IF Seen(w).absent = "old" THEN Fail(w)
             ELSE Record(w, [Seen(w) EXCEPT !.absent = "fresh"], After(w))
    /\ UNCHANGED <<late, pods, world>>

\* The provider is asked to cancel what is overdue, what the owner cancelled,
\* and what waited too long in its queue, and this is noted (Aborts comes
\* between the two as well).
Evicts(w) == Got(w, {"IN_QUEUE"}, FALSE) /\ pc[w].late /\ ~Seen(w).evicted
Ends(w) == Got(w, Waiting, TRUE) /\ ~Seen(w).ended
Runaway(w) == Bound(w) /\ Overdue(w)
Stops(w) == Runaway(w) \/ Ends(w) \/ Evicts(w)
Stop(w) == pods' = [pods EXCEPT ![Seen(w).pod].stop = TRUE]
CancelPod(w) ==
    /\ \/ Runaway(w) /\ Fail(w) /\ UNCHANGED late
       \/ Ends(w) /\ Record(w, [Seen(w) EXCEPT !.ended = TRUE], After(w))
          /\ UNCHANGED late
       \/ Evicts(w) /\ Record(w, [Seen(w) EXCEPT !.evicted = TRUE], After(w))
          /\ late' = FALSE
    /\ Stop(w) /\ UNCHANGED world

QueueTimeout(w) ==
    /\ Got(w, {"IN_QUEUE"}, FALSE) /\ pc[w].late /\ Seen(w).evicted /\ Fail(w)
    /\ UNCHANGED <<late, pods, world>>

Observe(w) ==
    /\ \/ Got(w, {"IN_QUEUE"}, FALSE) /\ ~pc[w].late
       \/ Got(w, {"IN_PROGRESS"}, FALSE) /\ Seen(w).state = "RUNNING"
       \/ Got(w, Waiting, TRUE) /\ Seen(w).ended
    /\ Record(w, [Seen(w) EXCEPT !.sub =
           IF pc[w].remote = "IN_PROGRESS" THEN "running" ELSE "submitted"], After(w))
    /\ UNCHANGED <<late, pods, world>>

\* start_i2v_attempt
Start(w) ==
    /\ Got(w, {"IN_PROGRESS"}, FALSE) /\ Seen(w).state = "CREATED"
    /\ Done(w)
    /\ IF /\ job.state = "CLAIMED" /\ job.count = pc[w].no /\ job.live
          /\ att.state = "CREATED"
       THEN /\ job' = [job EXCEPT !.state = "RUNNING"]
            /\ att' = [Seen(w) EXCEPT !.state = "RUNNING", !.sub = "running"]
            /\ late' = FALSE
       ELSE UNCHANGED <<job, att, late>>
    /\ UNCHANGED <<pods, world>>

Finish(w) ==
    /\ \/ Got(w, {"COMPLETED"}, FALSE) /\ Complete(w)
       \/ Got(w, {"FAILED"}, FALSE) /\ Fail(w)
       \/ Got(w, Stopped, TRUE) /\ Acknowledge(w)
    /\ UNCHANGED <<late, pods, world>>

\* The controller dies, or a call raises; it goes on later.
Aborts(w) ==
    /\ pc[w] \notin {Idle, Left, Down}
    /\ Go(w, IF w \in Leaving THEN Left ELSE Down)
    /\ \/ Stops(w) /\ Stop(w)
       \/ UNCHANGED pods
    /\ UNCHANGED <<job, att, late, world>>

Restart(w) ==
    /\ At(w, "down") /\ Done(w)
    /\ UNCHANGED <<job, att, late, pods, world>>

-----------------------------------------------------------------------------
(* RunPod, its workers, and time.                                          *)

PodStep(p, states, next) ==
    /\ pods[p].at \in states
    /\ pods' = [pods EXCEPT ![p].at = next]
    /\ UNCHANGED <<late, world, pc>>

WorkerStarts(p) ==
    PodStep(p, {"IN_QUEUE"}, "IN_PROGRESS") /\ UNCHANGED <<job, att>>

\* bind_i2v_runpod_execution: one provider job may work for an attempt. A
\* worker that is refused, or gets no answer, fails its job.
LetsIn(p) ==
    Active /\ job.count = pods[p].no /\ att.pod \in {Unbound, p}
WorkerClaims(p) ==
    /\ pods[p].at = "IN_PROGRESS" /\ ~pods[p].in
    /\ IF LetsIn(p)
       THEN /\ att' = [att EXCEPT !.pod = p, !.sub =
                          IF @ = "running" THEN @ ELSE "submitted"]
            /\ job' = [job EXCEPT !.live = TRUE]
            /\ late' = (late /\ att.pod = p)   \* the claim was awaited until now
       ELSE UNCHANGED <<job, att, late>>
    /\ \/ LetsIn(p) /\ pods' = [pods EXCEPT ![p].in = TRUE]
       \/ pods' = [pods EXCEPT ![p].at = "FAILED"]
    /\ UNCHANGED <<world, pc>>

\* A worker completes what it was let in for. Any job may fail.
PodEnds(p) ==
    /\ \/ pods[p].in /\ PodStep(p, {"IN_PROGRESS"}, "COMPLETED")
       \/ PodStep(p, Waiting, "FAILED")
    /\ UNCHANGED <<job, att>>

PodStops(p) ==
    pods[p].stop /\ PodStep(p, Waiting, "FAILED") /\ UNCHANGED <<job, att>>

\* RunPod no longer knows a job.
Forget(p) ==
    /\ world = "forgets" /\ PodStep(p, Waiting \cup Stopped, "gone")
    /\ UNCHANGED <<job, att>>

\* The deadline of the claim, of the queue, of its cancellation, or of the run.
Elapse ==
    /\ Active /\ ~late /\ late' = TRUE
    /\ UNCHANGED <<job, att, pods, world, pc>>

\* Between two looks of the controllers.
GraceElapses ==
    /\ att.absent = "fresh" /\ \A w \in Workers : pc[w] \in {Idle, Left, Down}
    /\ att' = [att EXCEPT !.absent = "old"]
    /\ UNCHANGED <<job, late, pods, world, pc>>

LeaseExpires ==
    /\ world = "outage" /\ job.live /\ job' = [job EXCEPT !.live = FALSE]
    /\ UNCHANGED <<att, late, pods, world, pc>>

-----------------------------------------------------------------------------
Cycle(w) ==
    \/ Claim(w) \/ Read(w) \/ Prepare(w) \/ StartSubmit(w) \/ Post(w)
    \/ Accepted(w) \/ RateLimited(w) \/ Rejected(w) \/ Uncertain(w)
    \/ Unresolved(w) \/ UnboundCancel(w) \/ Get(w) \/ Missing(w)
    \/ CancelPod(w) \/ QueueTimeout(w) \/ Observe(w) \/ Start(w)
    \/ Finish(w) \/ Restart(w)

Next ==
    \/ \E w \in Workers : Cycle(w) \/ Aborts(w)
    \/ \E p \in Posts : WorkerStarts(p) \/ WorkerClaims(p) \/ PodEnds(p)
                        \/ PodStops(p) \/ Forget(p)
    \/ Cancel \/ Retry \/ Elapse \/ GraceElapses \/ LeaseExpires

Spec == Init /\ [][Next]_vars

\* Faults are not forever, a busy provider's refusals included.
Fault == \E w \in Workers : Aborts(w) \/ RateLimited(w)

\* Controllers go on and time passes; RunPod stops what it is asked to stop,
\* and need neither start nor end anything else. A grace passes when nobody
\* looks for its length (5 minutes by default), which the fairness of the
\* cycles does not promise: they look every 2 s by default.
FairSpec ==
    /\ Spec /\ <>[][~Fault]_vars
    /\ WF_vars(Elapse) /\ WF_vars(GraceElapses)
    /\ \A w \in Workers : WF_vars(Cycle(w))
    /\ \A p \in Posts : WF_vars(PodStops(p))

-----------------------------------------------------------------------------
\* The rows have their shape; a job is active exactly while its latest
\* attempt is, and only then has a lease (i2v.py).
TypeOK ==
    /\ job \in JobRows /\ att \in AttemptRows
    /\ pods \in [Posts -> Pods]
    /\ (job.state \in ActiveJob) = (att.state \in ActiveAttempt)
    /\ job.live => job.state \in ActiveJob

\* bind_i2v_runpod_execution: at most one provider job is let in for an
\* attempt, however often and by whomever it was requested, and an output is
\* recorded only for the one that the attempt names.
OneExecution ==
    /\ \A p, q \in Posts :
        pods[p].in /\ pods[q].in /\ pods[p].no = pods[q].no => p = q
    /\ job.state = "SUCCEEDED" =>
        att.pod # Unbound /\ pods[att.pod].in /\ pods[att.pod].no = job.count

Unfinished == world \in {"calm", "overlap"} /\ job.state \notin EndedJob
Finished == job.state \in EndedJob

\* A job ends, whatever becomes of its requests and of the workers at RunPod,
\* when RunPod keeps its jobs and the controllers are never away for the
\* length of a lease.
VideoEnds == Unfinished ~> Finished

\* tests/test_i2v_runpod_runtime.py: a provider job that is missing at RunPod
\* fails its attempt after a short grace.
MissingJobFails ==
    (Active /\ att.pod # Unbound /\ pods[att.pod].at = "gone") ~> ~Active
=============================================================================
