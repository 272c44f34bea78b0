---------------------------- MODULE MCPublication ----------------------------
(* Small instances of PublicationEffects (one intent or two for one target, *)
(* two interchangeable controllers) and of ReviewTasks (two masters and two *)
(* runs that rank them). The two share no state: as in MCServices, the      *)
(* rigid variable service says which of them a behaviour is about, and what *)
(* it is about of a review.                                                 *)
EXTENDS PublicationEffects, ReviewTasks, TLC

CONSTANTS w1, w2, i1, i2

VARIABLE service

\* The two model values of Workers also stand for the sessions and for the
\* assessors, and those of Intents for the masters, so that one symmetry serves
\* both services.
Sym == Permutations(Workers) \cup Permutations(Intents)

\* Two sessions share a task; two assessors share its masters; two sessions
\* have a task each.
Scenarios == {"sessions", "assessors", "tasks"}

MCInit == /\ service \in {"publication"} \cup Scenarios
          /\ Init /\ (service # "publication" => target = "X")
          /\ ReviewInit /\ (service = "publication" => desired = 1)
          /\ service \in {"sessions", "tasks"} =>
                desired = Cardinality(Masters)

Publishes(A) == service = "publication" /\ A /\ UNCHANGED <<service, reviewVars>>
Reviewed(A) == service \in Scenarios /\ A /\ UNCHANGED <<service, vars>>
Amends(A) == service # "tasks" /\ Reviewed(A)

ReviewsNext ==
    \/ \E q \in Runs :
        \/ Reviewed(CreateTask(q))
        \/ Reviewed(Activate(q))
        \/ Reviewed(Discard(q))
        \/ \E m \in Masters : Reviewed(AssessmentLeaseExpires(q, m))
        \/ \E s \in Sessions : \/ Reviewed(Look(s, q))
                              \/ Reviewed(ReadChoices(s, q))
    \/ \E s \in Sessions :
        \/ \E M \in SUBSET Masters \ {{}} :
            \/ \E d \in {"accept", "override", "reject"} :
                Amends(Decide(s, M, d))
            \/ \E add \in BOOLEAN : Amends(BulkChoose(s, M, add))
        \/ \E m \in Masters : Amends(Choose(s, m))
        \/ Amends(Expand(s))
        \/ Reviewed(Complete(s))
        \/ Reviewed(CancelTask(s))
        \/ Reviewed(Prepare(s))
        \/ Reviewed(Leave(s))
    \/ \E w \in Assessors :
        \/ Reviewed(RecoverLease(w))
        \/ Reviewed(Ensure(w))
        \/ Reviewed(ClaimAssessment(w))
        \/ Reviewed(NothingDue(w))
        \/ Reviewed(CompleteAssessment(w))
        \/ Reviewed(FailAssessment(w))
        \/ Reviewed(LeaseLost(w))
        \/ Reviewed(AssessorDies(w))

MCNext == Publishes(Next) \/ ReviewsNext

MCSpec == MCInit /\ [][MCNext]_<<service, vars, reviewVars>>

-----------------------------------------------------------------------------
\* At most one attempt is claimed again, and the guard changes around the first
\* attempt only. (MCServices has the changes of the release and of an approval.)
ClaimBounds ==
    /\ ~enabled => Cardinality(AllRows) <= 1
    /\ Cardinality({r \in AllRows : Row(r[1], r[2]).claims = MaxClaims}) <= 1

\* At most one of them is at work.
Alone(f) == Cardinality({w \in Workers : f[w] # Away}) <= 1
Once(q) == \A m \in Masters : row[q][m].attempt <= 1

\* Sessions that share a task do not cancel it, and have one assessor, which does
\* not fail; assessors have one session, which chooses no images for X, and one
\* of the masters is tried once; sessions with a task each complete it without
\* a decision, as it was opened, and no assessment is made in time.
ReviewBounds ==
    /\ service = "sessions" =>
        /\ task[2].state = "none" /\ task[1].state # "CANCELLED"
        /\ Alone(worker) /\ Once(1)
        /\ \A m \in Masters :
            /\ row[1][m].state \notin {"RETRY_WAIT", "UNAVAILABLE"}
            /\ row[1][m].state = "PROCESSING" => row[1][m].live
    /\ service = "assessors" =>
        /\ task[2].state = "none" /\ task[1].version <= 2
        /\ chosen[1] = {}
        /\ Alone(browser) /\ \E m \in Masters : row[1][m].attempt <= 1
    /\ service = "tasks" =>
        /\ Alone(worker)
        /\ \A q \in Runs :
            /\ task[q].state # "CANCELLED" /\ Once(q)
            /\ \A m \in Masters :
                row[q][m].state \notin {"RETRY_WAIT", "severe", "pass"}

-----------------------------------------------------------------------------
\* The rows of both services keep the shape and the checks of their tables
\* (publication.py, review.py, x_teaser_revisions.py). The other properties are
\* the components' own.
RowsWellFormed == TypeOK /\ ReviewTypeOK
=============================================================================
