-------------------------- MODULE ReleaseRendering --------------------------
(* services/derivative_pipeline.py, derivative_runtime.py and               *)
(* x_teaser_revisions.py with the triggers of db/models.py: the derivatives *)
(* of one approved release are rendered by leased jobs; the release is      *)
(* ready to publish when the jobs that gate it are done. The watermarked X  *)
(* teasers come in revisions: one active, which may be published, and one   *)
(* pending, which becomes active when all its teasers are rendered and is   *)
(* dropped when one of them fails.                                          *)
EXTENDS Naturals

CONSTANTS
    Workers,      \* controllers running the derivative cycle
    Full,         \* the release's selections: each has one full-size job
    Teasers,      \* the selections also posted on X: each has a job a revision
    MaxRevision,  \* bound: revisions the owner asks for
    MaxAttempts,  \* max_attempts of a new job
    MaxTotal      \* what an owner's retries may raise it to (10 in the code)

VARIABLES
    releasePhase,  \* releases.phase
    head,    \* x_teaser_revision_heads: the active and the pending revision
    newest,  \* the number of the newest revision
    job,     \* derivative_jobs, "none" before they are planned
    posts,   \* the X publication intent made of each revision's teasers
    pc       \* where each controller is in run_derivative_cycle

vars == <<releasePhase, head, newest, job, posts, pc>>

Nobody == "nobody"
Revisions == 1..MaxRevision
None == 0
Idle == [at |-> "idle"]
FullJobs == Full \X {None}
TeaserJobs(r) == Teasers \X {r}
Jobs == FullJobs \cup Teasers \X Revisions
RevisionOf(j) == j[2]
At(w, where) == pc[w].at = where

JobRows ==
    [state : {"none", "REQUESTED", "CLAIMED", "PROCESSING", "RETRY_WAIT",
              "SUCCEEDED", "FAILED"},
     tries : 0..MaxTotal, max : 1..MaxTotal, owner : Workers \cup {Nobody},
     live : BOOLEAN, gates : BOOLEAN]
Heads ==
    {h \in [active : {None} \cup Revisions, pending : {None} \cup Revisions] :
        h.active = None \/ h.active # h.pending}
Unplanned == [state |-> "none", tries |-> 0, max |-> MaxAttempts,
              owner |-> Nobody, live |-> FALSE, gates |-> TRUE]

Init ==
    /\ releasePhase = "APPROVED"
    /\ head = [active |-> None, pending |-> None]
    /\ newest = 0
    /\ job = [j \in Jobs |-> Unplanned]
    /\ posts = [r \in Revisions |-> "none"]
    /\ pc = [w \in Workers |-> Idle]

-----------------------------------------------------------------------------
(* The plans.                                                              *)

Requested(gates) == [Unplanned EXCEPT !.state = "REQUESTED", !.gates = gates]

\* Mutant: a release that is ready stays ready.
FullOutputsBeside ==
    /\ \A f \in FullJobs : job[f].state = "none"
    /\ job' = [j \in Jobs |-> IF j \in FullJobs THEN Requested(TRUE) ELSE job[j]]
    /\ releasePhase' = IF releasePhase = "APPROVED" THEN "RENDERING" ELSE releasePhase
    /\ UNCHANGED <<head, newest, posts, pc>>

\* prepare_completed_review_full_outputs: a second plan finds its jobs. New
\* jobs take a release that is ready back to rendering.
PrepareFullOutputs ==
    /\ \A f \in FullJobs : job[f].state = "none"
    /\ job' = [j \in Jobs |-> IF j \in FullJobs THEN Requested(TRUE) ELSE job[j]]
    /\ releasePhase' = "RENDERING"
    /\ UNCHANGED <<head, newest, posts, pc>>

\* require_no_x_publication_race
Unposted == \A r \in Revisions : posts[r] # "blocking"

\* prepare_completed_review_x_teasers with create_pending_x_teaser_revision:
\* what was chosen for X is not empty, and the first revision of a release that
\* is not ready yet gates it.
PrepareTeasers ==
    /\ Teasers # {} /\ newest < MaxRevision
    /\ head.pending = None
    /\ head.active # None => Unposted
    /\ newest' = newest + 1
    /\ head' = [head EXCEPT !.pending = newest + 1]
    /\ LET gates == head.active = None /\ releasePhase \in {"APPROVED", "RENDERING"}
       IN /\ job' = [j \in Jobs |-> IF j \in TeaserJobs(newest + 1)
                                    THEN Requested(gates) ELSE job[j]]
          /\ releasePhase' = IF gates THEN "RENDERING" ELSE releasePhase
    /\ UNCHANGED <<posts, pc>>

\* retry_failed_completed_review_target: full-size jobs only, all that failed.
RetryFailed ==
    LET failed == {f \in FullJobs : job[f].state = "FAILED"}
    IN /\ releasePhase = "RENDERING"
       /\ failed # {}
       /\ \A f \in failed : job[f].max < MaxTotal
       /\ job' = [j \in Jobs |-> IF j \in failed
                    THEN [job[j] EXCEPT !.state = "RETRY_WAIT", !.max = @ + 1]
                    ELSE job[j]]
       /\ UNCHANGED <<releasePhase, head, newest, posts, pc>>

-----------------------------------------------------------------------------
(* What a job's end means for the release and the revision.                *)

\* current_release_gating_job_predicate and its triggers: the jobs of a
\* revision that was dropped or replaced do not count.
CurrentJob(h, j) == j \in FullJobs \/ RevisionOf(j) \in {h.active, h.pending}
Remaining(jobs, h) ==
    {j \in Jobs : /\ jobs[j].state \notin {"none", "SUCCEEDED"}
                  /\ jobs[j].gates /\ CurrentJob(h, j)}

\* Mutant: the release of a dropped revision is left as it is.
DiscardOnly(jobs, h, ph, r) ==
    [head |-> [h EXCEPT !.pending = None], phase |-> ph]

\* The revision is dropped, and a release that waited for nothing else is
\* ready.
DiscardRevision(jobs, h, ph, r) ==
    LET h1 == [h EXCEPT !.pending = None]
    IN [head |-> h1,
        phase |-> IF /\ h.active = None /\ ph = "RENDERING"
                     /\ Remaining(jobs, h1) = {}
                  THEN "READY_TO_PUBLISH" ELSE ph]

Kept(h, ph) == [head |-> h, phase |-> ph]

\* _discard_if_terminal_failure: when all its jobs have ended and one failed.
DiscardIfFailed(jobs, h, ph, r) ==
    LET states == {jobs[j].state : j \in TeaserJobs(r)}
    IN IF /\ r # None /\ h.pending = r
          /\ states \subseteq {"SUCCEEDED", "FAILED"} /\ "FAILED" \in states
       THEN DiscardRevision(jobs, h, ph, r) ELSE Kept(h, ph)

Rendered(jobs, r) == \A j \in TeaserJobs(r) : jobs[j].state = "SUCCEEDED"

\* activate_ready_x_teaser_revision, past its checks
ActivateRevision(jobs, h, ph, r) ==
    IF r = None \/ h.active = r THEN Kept(h, ph)
    ELSE IF Rendered(jobs, r)
         THEN Kept([active |-> r, pending |-> None], ph)
         ELSE DiscardIfFailed(jobs, h, ph, r)

\* Its checks: a revision that is neither active nor pending any more, or
\* teasers that are being published, end the transaction.
MayActivate(jobs, r) ==
    \/ r = None
    \/ head = [active |-> r, pending |-> None]
    \/ head.pending = r /\ (Rendered(jobs, r) => Unposted)

Fail(j) == [job EXCEPT ![j] = [@ EXCEPT !.state = "FAILED", !.owner = Nobody,
                                        !.live = FALSE]]

\* fail_derivative_job and expire_exhausted_derivative_job
Failed(j) ==
    LET end == DiscardIfFailed(Fail(j), head, releasePhase, RevisionOf(j))
    IN job' = Fail(j) /\ head' = end.head /\ releasePhase' = end.phase

-----------------------------------------------------------------------------
(* run_derivative_cycle                                                    *)

Leased == {"CLAIMED", "PROCESSING"}
ExhaustedLease(j) == job[j].state \in Leased /\ ~job[j].live
                    /\ job[j].tries >= job[j].max

\* _recover_one_exhausted_lease; the cycle ends with it.
Recover(w) ==
    /\ At(w, "idle")
    /\ \E j \in Jobs : ExhaustedLease(j) /\ Failed(j)
    /\ UNCHANGED <<newest, posts, pc>>

\* claim_derivative_jobs
Claim(w) ==
    /\ At(w, "idle")
    /\ \E j \in Jobs :
        /\ \/ job[j].state \in {"REQUESTED", "RETRY_WAIT"}
           \/ job[j].state \in Leased /\ ~job[j].live
        /\ job[j].tries < job[j].max
        /\ job' = [job EXCEPT ![j] = [@ EXCEPT !.state = "CLAIMED",
                       !.tries = job[j].tries + 1, !.owner = w, !.live = TRUE]]
        /\ pc' = [pc EXCEPT ![w] = [at |-> "start", job |-> j]]
    /\ UNCHANGED <<releasePhase, head, newest, posts>>

\* _require_active_lease, with the cycle's clock: a lease is lost to another
\* claim only. A worker runs one cycle at a time, so its name is its claim.
Holds(w) == job[pc[w].job].owner = w /\ job[pc[w].job].state \in Leased

Break(w, terminal) ==
    pc' = [pc EXCEPT ![w] = [at |-> "broken", job |-> @.job, terminal |-> terminal]]

\* _job_release_phase_is_valid and derivative_jobs_guard_update
PhaseAllows(j) ==
    IF job[j].gates THEN releasePhase = "RENDERING"
    ELSE /\ head.pending = RevisionOf(j)
         /\ \/ head.active # None
            \/ releasePhase = "READY_TO_PUBLISH"

\* start_derivative_job, and _load_execution_snapshot: a job that its release
\* does not wait for is broken for good.
Start(w) ==
    /\ At(w, "start")
    /\ IF ~Holds(w) THEN pc' = [pc EXCEPT ![w] = Idle] /\ UNCHANGED job
       ELSE /\ job' = [job EXCEPT ![pc[w].job].state = "PROCESSING"]
            /\ IF PhaseAllows(pc[w].job)
               THEN pc' = [pc EXCEPT ![w].at = "render"]
               ELSE Break(w, TRUE)
    /\ UNCHANGED <<releasePhase, head, newest, posts>>

\* The renderer, the object store, an output that another attempt wrote
\* differently, a cancellation.
RenderFails(w) ==
    /\ At(w, "render")
    /\ \E terminal \in BOOLEAN : Break(w, terminal)
    /\ UNCHANGED <<releasePhase, head, newest, job, posts>>

\* succeed_derivative_job with the triggers of its update: the last gating job
\* makes the release ready, the last teaser its revision active.
Succeed(w) ==
    LET j == pc[w].job
        r == RevisionOf(j)
        jobs == [job EXCEPT ![j] = [@ EXCEPT !.state = "SUCCEEDED",
                                     !.owner = Nobody, !.live = FALSE]]
        promoted == IF job[j].gates /\ Remaining(jobs, head) = {}
                    THEN "READY_TO_PUBLISH" ELSE releasePhase
        end == ActivateRevision(jobs, head, promoted, r)
        ok == /\ Holds(w) /\ PhaseAllows(j) /\ MayActivate(jobs, r)
              /\ (job[j].gates /\ Remaining(jobs, end.head) = {})
                    => end.phase = "READY_TO_PUBLISH"
    IN /\ At(w, "render")
       /\ IF ok THEN /\ job' = jobs /\ head' = end.head /\ releasePhase' = end.phase
                     /\ pc' = [pc EXCEPT ![w] = Idle]
          ELSE Break(w, FALSE) /\ UNCHANGED <<job, head, releasePhase>>
       /\ UNCHANGED <<newest, posts>>

\* _transition_execution_failure; who lost the lease records nothing.
RecordFailure(w) ==
    LET j == pc[w].job
    IN /\ At(w, "broken")
       /\ IF ~Holds(w) THEN UNCHANGED <<job, head, releasePhase>>
          ELSE IF pc[w].terminal \/ job[j].tries >= job[j].max THEN Failed(j)
          ELSE /\ job' = [job EXCEPT ![j] = [@ EXCEPT !.state = "RETRY_WAIT",
                                               !.owner = Nobody, !.live = FALSE]]
               /\ UNCHANGED <<head, releasePhase>>
       /\ pc' = [pc EXCEPT ![w] = Idle]
       /\ UNCHANGED <<newest, posts>>

Crash(w) ==
    /\ ~At(w, "idle")
    /\ pc' = [pc EXCEPT ![w] = Idle]
    /\ UNCHANGED <<releasePhase, head, newest, job, posts>>

LeaseExpires(j) ==
    /\ job[j].live
    /\ job' = [job EXCEPT ![j].live = FALSE]
    /\ UNCHANGED <<releasePhase, head, newest, posts, pc>>

-----------------------------------------------------------------------------
(* services/publication.py, as far as X intents bind the teasers.          *)

\* _load_frozen_outputs and _require_x_intent_matches_active_revision
MayPost(r) == /\ releasePhase = "READY_TO_PUBLISH"
              /\ head.active = r /\ head.pending = None

\* create_publication_intent, or approve_publication_effect of a failed one
Post(r) ==
    /\ posts[r] # "blocking" /\ MayPost(r)
    /\ posts' = [posts EXCEPT ![r] = "blocking"]
    /\ UNCHANGED <<releasePhase, head, newest, job, pc>>

\* Cancelled, or failed in PublicationEffects.
PostFails(r) ==
    /\ posts[r] = "blocking"
    /\ posts' = [posts EXCEPT ![r] = "failed"]
    /\ UNCHANGED <<releasePhase, head, newest, job, pc>>

-----------------------------------------------------------------------------
Cycle(w) == \/ Recover(w) \/ Claim(w) \/ Start(w) \/ RenderFails(w)
            \/ Succeed(w) \/ RecordFailure(w)

Next == \/ PrepareFullOutputs \/ PrepareTeasers \/ RetryFailed
        \/ \E w \in Workers : Cycle(w) \/ Crash(w)
        \/ \E j \in Jobs : LeaseExpires(j)
        \/ \E r \in Revisions : Post(r) \/ PostFails(r)

Spec == Init /\ [][Next]_vars

\* The controller's loop runs its cycle again and again, renderers are killed
\* at their timeout, and a lease runs out unless its job ends.
FairSpec == /\ Spec
            /\ \A w \in Workers : WF_vars(Cycle(w))
            /\ \A j \in Jobs : WF_vars(LeaseExpires(j))

-----------------------------------------------------------------------------
TypeOK ==
    /\ releasePhase \in {"APPROVED", "RENDERING", "READY_TO_PUBLISH"}
    /\ head \in Heads /\ head.active <= newest /\ head.pending <= newest
    /\ newest \in 0..MaxRevision
    /\ job \in [Jobs -> JobRows]
    /\ posts \in [Revisions -> {"none", "blocking", "failed"}]

\* A release is rendering exactly while a job that still gates it has not
\* succeeded, in whatever order its plans, the jobs' ends, the drop of a
\* revision and the owner's retries come: it is never called ready too early,
\* and never left rendering with nothing to wait for.
RenderingIsExact ==
    releasePhase = "RENDERING" <=> Remaining(job, head) # {}

\* The teasers of the active revision are all rendered, and an X intent that
\* may be published is made of the active revision: no replacement overtakes
\* a publication, none is published after its replacement.
PostedTeasersAreActive ==
    /\ head.active # None => Rendered(job, head.active)
    /\ \A r \in Revisions :
        posts[r] = "blocking" => head.active = r /\ head.pending = None

Unready == releasePhase = "RENDERING"
Ready == \/ releasePhase = "READY_TO_PUBLISH"
         \/ \E f \in FullJobs : job[f].state = "FAILED"

\* A release that starts rendering is ready in the end, or a full-size job of
\* it has failed and waits for the owner: no crash, lost lease, failed teaser
\* or replacement leaves it rendering for ever.
RenderingEnds == Unready ~> Ready
=============================================================================
