----------------------------- MODULE ReviewTasks -----------------------------
(* services/review.py, semantic_anatomy.py and the choice of X teasers in   *)
(* review_derivatives.py and x_teaser_revisions.py: sessions of reviewers   *)
(* decide over the ranked masters of a release version while a vision model *)
(* assesses them, and one of the review tasks is completed: it freezes the  *)
(* accepted masters and approves the release. Of those the owner chooses    *)
(* the images for X, whose teasers are then prepared.                       *)
(*                                                                          *)
(* Every command locks the task and names the lock version that its page    *)
(* showed. The assessments have locks of their own, and so has the release. *)
(* Semantic checks are enforced, and every run is COMPLETED with all the    *)
(* masters ranked. A command repeated with its idempotency key changes      *)
(* nothing. Inspections (review_inspections.py) touch none of this state.   *)
EXTENDS Naturals, FiniteSets

CONSTANTS
    Runs,        \* completed scoring runs of the release version
    Masters,     \* its available raw masters, which each run ranks
    Sessions,    \* browser sessions of the reviewers
    Owners,      \* the sessions of owners
    Assessors,   \* controllers running the semantic assessment cycle
    MaxChoices,  \* images of one X post (4 in the code)
    MaxTries,    \* max_attempts of an assessment
    MaxVersion   \* bound: the lock version of a task

VARIABLES
    phase,    \* releases.phase, REVIEWING or a later one
    desired,  \* releases.desired_accepted_count
    task,     \* review_tasks, one for a run
    decided,  \* the latest review_decisions of each task
    chosen,   \* review_x_selections
    frozen,   \* release_selections
    teasers,  \* the masters of the active and the pending teaser revision
    row,      \* semantic_assessments
    browser,  \* what each session has on its page, or has read in a request
    worker,   \* where each assessor is in its cycle
    signed    \* ghost: what the page that completed a task showed as accepted

reviewVars == <<phase, desired, task, decided, chosen, frozen, teasers, row,
                browser, worker, signed>>

Tasks == <<phase, desired, task, decided, frozen, signed>>
Unassigned == "nobody"
Away == [at |-> "idle"]

Decisions == {"none", "accept", "override", "reject"}
Results == {"pass", "severe", "UNAVAILABLE"}
TaskRows == [state : {"none", "OPEN", "COMPLETED", "CANCELLED"},
             version : 0..MaxVersion, target : 0..Cardinality(Masters)]
AssessmentRows ==
    [state : {"none", "PENDING", "PROCESSING", "RETRY_WAIT"} \cup Results,
     attempt : 0..MaxTries, owner : Assessors \cup {Unassigned}, live : BOOLEAN]
Pages == {Away}
         \cup [at : {"looking"}, run : Runs, version : 1..MaxVersion,
               accepted : SUBSET Masters]
         \cup [at : {"planning"}, run : Runs, members : SUBSET Masters]
Claims == {Away, [at |-> "ensured"]}
          \cup [at : {"analyzing"}, run : Runs, master : Masters,
                attempt : 1..MaxTries]

ReviewInit ==
    /\ phase = "REVIEWING" /\ desired \in 1..Cardinality(Masters)
    /\ task = [q \in Runs |-> [state |-> "none", version |-> 0, target |-> 0]]
    /\ decided = [q \in Runs |-> [m \in Masters |-> "none"]]
    /\ chosen = [q \in Runs |-> {}]
    /\ frozen = [q \in Runs |-> {}] /\ signed = [q \in Runs |-> {}]
    /\ teasers = [q \in Runs |-> [active |-> {}, pending |-> {}]]
    /\ row = [q \in Runs |-> [m \in Masters |->
                [state |-> "none", attempt |-> 0, owner |-> Unassigned,
                 live |-> FALSE]]]
    /\ browser = [s \in Sessions |-> Away]
    /\ worker = [w \in Assessors |-> Away]

Accepted(q) == {m \in Masters : decided[q][m] \in {"accept", "override"}}
Severe(q) == {m \in Masters : row[q][m].state = "severe"}
Terminal(q) == \A m \in Masters : row[q][m].state \in Results

-----------------------------------------------------------------------------
(* The review commands.                                                    *)

\* The form that a session sends back.
Form(s) == browser[s]

\* Mutant: any page will do.
FreshAnyway(s) == Form(s).at = "looking"

\* It names the task and the version that the page showed; the answer is a new
\* page.
Fresh(s) == /\ Form(s).at = "looking"
            /\ task[Form(s).run].version = Form(s).version
Answered(s) == browser' = [browser EXCEPT ![s] = Away]
Bumped(q) == [task[q] EXCEPT !.version = @ + 1]
Claimable(s) == Fresh(s) /\ task[Form(s).run].state = "OPEN"
                /\ Form(s).version < MaxVersion

\* A task is opened for a completed run, at any time; sorting mode accepts
\* every ranked master at once.
CreateTask(q) ==
    /\ task[q].state = "none" /\ desired <= Cardinality(Masters)
    /\ task' = [task EXCEPT ![q] =
                    [state |-> "OPEN", version |-> 1, target |-> desired]]
    /\ \E d \in {"none", "accept"} :
        decided' = [decided EXCEPT ![q] = [m \in Masters |-> d]]
    /\ UNCHANGED <<phase, desired, chosen, frozen, teasers, row, browser,
                   worker, signed>>

\* The version is read before the decisions: a page that shows a later decision
\* beside an earlier version is stale all the same.
Look(s, q) ==
    /\ browser[s] = Away /\ task[q].state \in {"OPEN", "COMPLETED"}
    /\ browser' = [browser EXCEPT ![s] =
                    [at |-> "looking", run |-> q, version |-> task[q].version,
                     accepted |-> Accepted(q)]]
    /\ UNCHANGED <<Tasks, chosen, teasers, row, worker>>

\* A command that is refused, or a page that is left.
Leave(s) ==
    /\ browser[s] # Away /\ Answered(s)
    /\ UNCHANGED <<Tasks, chosen, teasers, row, worker>>

\* A decision over some masters in one command. A severe one is accepted only
\* by an owner who overrides explicitly; the override is recorded with the
\* decision and ends with it. An override that overrides nothing is a plain
\* acceptance. A held master is as good as a rejected one.
Permitted(s, q, M, d) == /\ d = "accept" => M \cap Severe(q) = {}
                         /\ d = "override" => M \cap Severe(q) = {} \/ s \in Owners
RecordsAs(q, m, d) == IF d = "override" /\ m \notin Severe(q) THEN "accept" ELSE d

Decide(s, M, d) ==
    /\ Claimable(s)
    /\ LET q == Form(s).run IN
        /\ Permitted(s, q, M, d)
        /\ decided' = [decided EXCEPT ![q] = [m \in Masters |->
                        IF m \in M THEN RecordsAs(q, m, d) ELSE @[m]]]
        /\ task' = [task EXCEPT ![q] = Bumped(q)]
    /\ Answered(s)
    /\ UNCHANGED <<phase, desired, chosen, frozen, teasers, row, worker, signed>>

\* X choices of an open task, several at once.
BulkChoose(s, M, add) ==
    /\ s \in Owners /\ Claimable(s)
    /\ LET q == Form(s).run IN
        /\ chosen' = [chosen EXCEPT ![q] = IF add THEN @ \cup M ELSE @ \ M]
        /\ Cardinality(chosen'[q]) <= MaxChoices
        /\ task' = [task EXCEPT ![q] = Bumped(q)]
    /\ Answered(s)
    /\ UNCHANGED <<phase, desired, decided, frozen, teasers, row, worker, signed>>

\* One X choice, which needs the version but leaves it. Of a completed task
\* only until teasers are prepared. (An X post keeps them closed, too; it is
\* only ever planned from an active revision, which is never taken back.)
Editable(q) ==
    \/ task[q].state = "OPEN"
    \/ task[q].state = "COMPLETED" /\ teasers[q] = [active |-> {}, pending |-> {}]

Choose(s, m) ==
    /\ s \in Owners /\ Fresh(s)
    /\ LET q == Form(s).run IN
        /\ Editable(q)
        /\ task[q].state = "COMPLETED" => m \in frozen[q]
        /\ IF m \in chosen[q]
              THEN chosen' = [chosen EXCEPT ![q] = @ \ {m}]
              ELSE /\ Cardinality(chosen[q]) < MaxChoices
                   /\ chosen' = [chosen EXCEPT ![q] = @ \cup {m}]
    /\ Answered(s)
    /\ UNCHANGED <<Tasks, teasers, row, worker>>

Expand(s) ==
    /\ s \in Owners /\ Claimable(s) /\ phase = "REVIEWING"
    /\ LET q == Form(s).run IN
        /\ task[q].target < Cardinality(Masters)
        /\ task' = [task EXCEPT ![q] = [Bumped(q) EXCEPT
                        !.target = Cardinality(Masters)]]
    /\ desired' = Cardinality(Masters)
    /\ Answered(s)
    /\ UNCHANGED <<phase, decided, chosen, frozen, teasers, row, worker, signed>>

\* Completion recomputes everything under the locks of the task and of the
\* release; a trigger approves the release.
Gate(q) == /\ Terminal(q)
           /\ \A m \in Accepted(q) \cap Severe(q) : decided[q][m] = "override"

Freeze(q) ==
    /\ frozen[q] = {} /\ chosen[q] \subseteq Accepted(q)
    /\ phase = "REVIEWING" /\ phase' = "APPROVED"
    /\ frozen' = [frozen EXCEPT ![q] = Accepted(q)]

Complete(s) ==
    /\ Claimable(s)
    /\ LET q == Form(s).run IN
        /\ Cardinality(Accepted(q)) \in 1..task[q].target
        /\ Gate(q) /\ Freeze(q)
        /\ signed' = [signed EXCEPT ![q] = Form(s).accepted]
        /\ task' = [task EXCEPT ![q] =
                        [state |-> "COMPLETED", version |-> Form(s).version + 1,
                         target |-> Cardinality(Accepted(q))]]
    /\ Answered(s)
    /\ UNCHANGED <<desired, decided, chosen, teasers, row, worker>>

CancelTask(s) ==
    /\ Claimable(s)
    /\ task' = [task EXCEPT ![Form(s).run] =
                    [Bumped(Form(s).run) EXCEPT !.state = "CANCELLED"]]
    /\ Answered(s)
    /\ UNCHANGED <<phase, desired, decided, chosen, frozen, teasers, row,
                   worker, signed>>

-----------------------------------------------------------------------------
(* The X teasers. The request reads the choices, works out the placements   *)
(* for them, and only then locks the task.                                  *)

ReadChoices(s, q) ==
    /\ s \in Owners /\ browser[s] = Away /\ chosen[q] # {}
    /\ browser' = [browser EXCEPT ![s] =
                    [at |-> "planning", run |-> q, members |-> chosen[q]]]
    /\ UNCHANGED <<Tasks, chosen, teasers, row, worker>>

\* Mutant: the placements may be for other selections.
CoversSome(q, M) == M \subseteq frozen[q]

\* The selections that are chosen now, under the task's lock, must be those
\* that have placements.
Covers(q, M) == M = chosen[q] \cap frozen[q]

\* A replacement needs an active revision that no post uses (PublicationEffects);
\* whether one does is left open here.
Prepare(s) ==
    /\ Form(s).at = "planning"
    /\ LET q == Form(s).run IN
        /\ task[q].state = "COMPLETED"
        /\ Covers(q, Form(s).members)
        /\ teasers[q].pending = {}
        /\ teasers' = [teasers EXCEPT ![q].pending = Form(s).members]
    /\ Answered(s)
    /\ UNCHANGED <<Tasks, chosen, row, worker>>

\* The teasers are rendered (ReleaseRendering): all of them, or one fails.
Activate(q) ==
    /\ teasers[q].pending # {}
    /\ Cardinality(teasers[q].pending) = Cardinality(chosen[q])
    /\ teasers' = [teasers EXCEPT ![q] =
                    [active |-> teasers[q].pending, pending |-> {}]]
    /\ UNCHANGED <<Tasks, chosen, row, browser, worker>>

Discard(q) ==
    /\ teasers[q].pending # {}
    /\ teasers' = [teasers EXCEPT ![q].pending = {}]
    /\ UNCHANGED <<Tasks, chosen, row, browser, worker>>

-----------------------------------------------------------------------------
(* The semantic assessment cycle.                                          *)

AssessorAt(w, where) == worker[w].at = where
Exhausted(r) == r.state = "PROCESSING" /\ ~r.live /\ r.attempt = MaxTries
Due(r) == r.attempt < MaxTries
          /\ \/ r.state \in {"PENDING", "RETRY_WAIT"}
             \/ r.state = "PROCESSING" /\ ~r.live
Ended(r, state) == [r EXCEPT !.state = state, !.owner = Unassigned, !.live = FALSE]
Reviews == <<Tasks, chosen, teasers, browser>>

\* A cycle that finds an exhausted lease does nothing else.
RecoverLease(w) ==
    /\ AssessorAt(w, "idle")
    /\ \E q \in Runs, m \in Masters :
        /\ Exhausted(row[q][m])
        /\ row' = [row EXCEPT ![q][m] = Ended(@, "UNAVAILABLE")]
    /\ UNCHANGED <<Reviews, worker>>

\* An assessment for each ranked master of the open reviews (the limit for a
\* run and the allowlist admit all of them). That no lease is exhausted was
\* read a moment before; creating rows depends on no lease.
Ensure(w) ==
    /\ AssessorAt(w, "idle")
    /\ ~\E q \in Runs, m \in Masters : Exhausted(row[q][m])
    /\ row' = [q \in Runs |-> [m \in Masters |->
                IF task[q].state = "OPEN" /\ row[q][m].state = "none"
                   THEN [row[q][m] EXCEPT !.state = "PENDING"] ELSE row[q][m]]]
    /\ worker' = [worker EXCEPT ![w] = [at |-> "ensured"]]
    /\ UNCHANGED Reviews

\* The oldest of the due rows: here, any of them.
ClaimAssessment(w) ==
    /\ AssessorAt(w, "ensured")
    /\ \E q \in Runs, m \in Masters :
        /\ Due(row[q][m])
        /\ LET n == row[q][m].attempt + 1 IN
            /\ row' = [row EXCEPT ![q][m] =
                        [state |-> "PROCESSING", attempt |-> n, owner |-> w,
                         live |-> TRUE]]
            /\ worker' = [worker EXCEPT ![w] =
                            [at |-> "analyzing", run |-> q, master |-> m,
                             attempt |-> n]]
    /\ UNCHANGED Reviews

NothingDue(w) ==
    /\ AssessorAt(w, "ensured")
    /\ ~\E q \in Runs, m \in Masters : Due(row[q][m])
    /\ worker' = [worker EXCEPT ![w] = Away]
    /\ UNCHANGED <<Reviews, row>>

\* The result of a claim counts while the row is still in it. The lease is
\* compared with the time at which the cycle began, so that it never looks
\* expired to its own cycle.
LockedAssessment(w) ==
    LET r == row[worker[w].run][worker[w].master] IN
    /\ r.state = "PROCESSING"
    /\ r.owner = w
    /\ r.attempt = worker[w].attempt

Record(w, state) ==
    /\ row' = [row EXCEPT ![worker[w].run][worker[w].master] = Ended(@, state)]
    /\ worker' = [worker EXCEPT ![w] = Away]
    /\ UNCHANGED Reviews

\* The model need not answer twice alike.
CompleteAssessment(w) ==
    /\ AssessorAt(w, "analyzing") /\ LockedAssessment(w)
    /\ \E verdict \in {"pass", "severe"} : Record(w, verdict)

\* Unusable images fail for good.
FailAssessment(w) ==
    /\ AssessorAt(w, "analyzing") /\ LockedAssessment(w)
    /\ \/ Record(w, "UNAVAILABLE")
       \/ worker[w].attempt < MaxTries /\ Record(w, "RETRY_WAIT")

LeaseLost(w) ==
    /\ AssessorAt(w, "analyzing") /\ ~LockedAssessment(w)
    /\ worker' = [worker EXCEPT ![w] = Away]
    /\ UNCHANGED <<Reviews, row>>

AssessorDies(w) ==
    /\ worker[w] # Away
    /\ worker' = [worker EXCEPT ![w] = Away]
    /\ UNCHANGED <<Reviews, row>>

AssessmentLeaseExpires(q, m) ==
    /\ row[q][m].state = "PROCESSING" /\ row[q][m].live
    /\ row' = [row EXCEPT ![q][m].live = FALSE]
    /\ UNCHANGED <<Reviews, worker>>

-----------------------------------------------------------------------------
ReviewNext ==
    \/ \E q \in Runs :
        \/ CreateTask(q) \/ Activate(q) \/ Discard(q)
        \/ \E m \in Masters : AssessmentLeaseExpires(q, m)
        \/ \E s \in Sessions : Look(s, q) \/ ReadChoices(s, q)
    \/ \E s \in Sessions :
        \/ \E M \in SUBSET Masters \ {{}} :
            \/ \E d \in Decisions \ {"none"} : Decide(s, M, d)
            \/ \E add \in BOOLEAN : BulkChoose(s, M, add)
        \/ \E m \in Masters : Choose(s, m)
        \/ Expand(s) \/ Complete(s) \/ CancelTask(s) \/ Prepare(s) \/ Leave(s)
    \/ \E w \in Assessors :
        \/ RecoverLease(w) \/ Ensure(w) \/ ClaimAssessment(w) \/ NothingDue(w)
        \/ CompleteAssessment(w) \/ FailAssessment(w) \/ LeaseLost(w) \/ AssessorDies(w)

ReviewSpec == ReviewInit /\ [][ReviewNext]_reviewVars

-----------------------------------------------------------------------------
\* The rows keep the shape of their tables: a task has at most as many images
\* for X as a post, and a lease is on a row in processing.
ReviewTypeOK ==
    /\ phase \in {"REVIEWING", "APPROVED"} /\ desired \in 1..Cardinality(Masters)
    /\ task \in [Runs -> TaskRows]
    /\ decided \in [Runs -> [Masters -> Decisions]]
    /\ \A q \in Runs : chosen[q] \subseteq Masters
                       /\ Cardinality(chosen[q]) <= MaxChoices
    /\ frozen \in [Runs -> SUBSET Masters] /\ signed \in [Runs -> SUBSET Masters]
    /\ teasers \in [Runs -> [active : SUBSET Masters, pending : SUBSET Masters]]
    /\ row \in [Runs -> [Masters -> AssessmentRows]]
    /\ \A q \in Runs, m \in Masters :
        (row[q][m].state = "PROCESSING") = (row[q][m].owner # Unassigned)
    /\ browser \in [Sessions -> Pages] /\ worker \in [Assessors -> Claims]

\* A release is approved by one review, as it was reviewed: what is frozen is
\* what the page showed that the reviewer signed off, decisions made beside it
\* notwithstanding; within the target; assessed to the end, each severe master
\* in it by an owner's word; and the assessments it rests on stay as they were
\* (review.py, transition_review_task; docs/semantic-anatomy-qc.md, "Review
\* behavior").
ApprovedAsReviewed ==
    /\ Cardinality({q \in Runs : task[q].state = "COMPLETED"}) =
        (IF phase = "APPROVED" THEN 1 ELSE 0)
    /\ \A q \in Runs :
        IF task[q].state = "COMPLETED"
           THEN /\ frozen[q] = signed[q] /\ frozen[q] = Accepted(q)
                /\ Cardinality(frozen[q]) = task[q].target /\ frozen[q] # {}
                /\ Gate(q)
           ELSE frozen[q] = {}

\* The teasers that may be posted are of the images that the owner chose, as
\* the choice stands now, and only of frozen ones, whatever was chosen while
\* they were planned and whichever plans failed (x_teaser_revisions.py,
\* create_pending_x_teaser_revision; review.py, set_review_x_selection).
TeasersMatchChoices ==
    \A q \in Runs :
        /\ {teasers[q].active, teasers[q].pending} \subseteq {{}, chosen[q]}
        /\ task[q].state = "COMPLETED" => chosen[q] \subseteq frozen[q]
        /\ task[q].state # "COMPLETED" => teasers[q].pending = {}
=============================================================================
