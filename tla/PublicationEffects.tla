------------------------- MODULE PublicationEffects -------------------------
(* services/publication.py and services/publication_runtime.py: the intents *)
(* planned for one target of one release, the operator's decisions about    *)
(* them, and the controllers' publication loops that execute the approved   *)
(* attempts against X or Patreon. Every action is one database transaction, *)
(* or one call of the provider, which happens outside any transaction.      *)
EXTENDS Naturals, Sequences, FiniteSets, FiniteSetsExt

CONSTANTS
    Intents,      \* the intents that may be planned for the release target
    Workers,      \* controllers running publication_once
    Targets,      \* the targets a release may be planned for: X, PATREON
    MaxClaims,    \* max_attempts of an attempt row
    MaxRetries,   \* max_retries of the steps that may be retried
    Changes,      \* what may change around the loops: see EnvironmentChanges
    MaxAttempts,  \* bound: attempt rows of the target
    MaxLock       \* bound: the lock_versions of the intents, added up

EnvironmentChanges == {"guard", "release", "expiry"}

ASSUME PublicationAssumption ==
    /\ IsFiniteSet(Intents)
    /\ Changes \subseteq EnvironmentChanges
    /\ Targets \subseteq {"X", "PATREON"}
    /\ MaxClaims \in Nat \ {0} /\ MaxRetries \in Nat

VARIABLES
    target,       \* publication_intents.target, of all the intents modelled
    intent,       \* publication_intents: [state, lock]; "none" is no row
    approval,     \* the latest publication_approvals row of an intent
    attempts,     \* publication_attempts of an intent, with their steps
    packaged,     \* the intents that have their publication_packages rows
    absents,      \* confirmed_absent reconciliations of an intent
    absentLock,   \* intent_lock_version of the latest of them, 0 if none
    downloaded,   \* the intents whose package an operator holds
    enabled,      \* publication_provider_guards.enabled
    current,      \* the release is current, publishable and compliant
    pc,           \* where each controller is in _execute_claimed_attempt
    calls,        \* irreversible provider calls that may still take effect
    posts         \* posts that exist at the provider, per intent

vars == <<target, intent, approval, attempts, packaged, absents, absentLock,
          downloaded, enabled, current, pc, calls, posts>>
world == <<target, packaged, absents, absentLock, downloaded, enabled, current>>

Nobody == "nobody"
Kinds == IF target = "X" THEN <<"X_MEDIA_UPLOAD", "X_CREATE_POST">>
                         ELSE <<"PATREON_PACKAGE", "PATREON_HANDOFF">>
Irreversible == {"X_CREATE_POST", "PATREON_HANDOFF"}
Running == {"CLAIMED", "PROCESSING"}
Active == {"QUEUED", "RETRY_WAIT"} \cup Running
Supersedable == {"FAILED", "CANCELLED"}
Open == {"PENDING", "RETRY_WAIT"}

Idle == [at |-> "idle"]
At(w, where) == pc[w].at = where

Row(i, a) == attempts[i][a]
Step(i, a, k) == attempts[i][a].steps[k]
Rows(i) == DOMAIN attempts[i]
AllRows == {r \in Intents \X (1..MaxAttempts) : r[2] \in Rows(r[1])}
MaxRetriesOf(k) == IF Kinds[k] = "PATREON_HANDOFF" THEN 0 ELSE MaxRetries

Init ==
    /\ target \in Targets
    /\ intent = [i \in Intents |-> [state |-> "none", lock |-> 0]]
    /\ approval = [i \in Intents |->
          [revision |-> 0, action |-> "none", lock |-> 0, expired |-> FALSE]]
    /\ attempts = [i \in Intents |-> <<>>]
    /\ packaged = {}
    /\ absents = [i \in Intents |-> 0]
    /\ absentLock = [i \in Intents |-> 0]
    /\ downloaded = {}
    /\ enabled = ("guard" \notin Changes)
    /\ current = TRUE
    /\ pc = [w \in Workers |-> Idle]
    /\ calls = {}
    /\ posts = [i \in Intents |-> 0]

-----------------------------------------------------------------------------
(* The operator's decisions: services/publication.py.                       *)

\* Mutant: an unknown outcome does not own the target any more.
OwnsTargetUnlessUnknown(i) == \A j \in Intents \ {i} :
    intent[j].state \in Supersedable \cup {"none", "UNKNOWN"}

\* uq_publication_intents_release_target_canonical: the partial unique index
\* that every commit of an intent's state meets.
OwnsTarget(i) == \A j \in Intents \ {i} :
    intent[j].state \in Supersedable \cup {"none"}

MayDecide == MapThenSumSet(LAMBDA j : intent[j].lock, Intents) < MaxLock

PlanIntent(i) ==
    /\ current
    /\ intent[i].state = "none" /\ MayDecide
    /\ OwnsTarget(i)
    /\ intent' = [intent EXCEPT ![i] = [state |-> "AWAITING_APPROVAL", lock |-> 1]]
    /\ UNCHANGED <<approval, attempts, world, pc, calls, posts>>

Decided(i, action) ==
    approval' = [approval EXCEPT ![i] = [revision |-> @.revision + 1,
        action |-> action, lock |-> intent[i].lock + 1, expired |-> FALSE]]

NewAttempt(i) ==
    [state |-> "QUEUED", claims |-> 0, owner |-> Nobody, live |-> FALSE,
     approval |-> approval[i].revision + 1,
     steps |-> [k \in 1..2 |-> [state |-> "PENDING", retries |-> 0,
                                request |-> "none"]]]

Approve(i) ==
    /\ current
    /\ intent[i].state \in {"AWAITING_APPROVAL", "FAILED"}
    /\ MayDecide /\ Cardinality(AllRows) < MaxAttempts
    /\ OwnsTarget(i)
    /\ Decided(i, "APPROVE")
    /\ attempts' = [attempts EXCEPT ![i] = Append(@, NewAttempt(i))]
    /\ intent' = [intent EXCEPT ![i] = [state |-> "READY", lock |-> @.lock + 1]]
    /\ UNCHANGED <<world, pc, calls, posts>>

\* Mutant: only completed requests are looked at.
UnsafeCompletedOnly(k, s) == /\ s.request \in {"succeeded", "unknown"}
                             /\ Kinds[k] # "X_MEDIA_UPLOAD"

\* _unsafe_provider_request_step_ids: a request may have reached the provider.
Unsafe(k, s) == /\ s.request \in {"started", "succeeded", "unknown"}
                /\ Kinds[k] # "X_MEDIA_UPLOAD"

RevokedStep(k, s) ==
    IF Unsafe(k, s) THEN [s EXCEPT !.state = "UNKNOWN"]
    ELSE IF s.state \in Open \cup {"PROCESSING"}
         THEN [s EXCEPT !.state = "CANCELLED"] ELSE s

\* Mutant: the lease of a revoked attempt stays.
RevokedRowLeased(r) ==
    IF r.state \notin Active THEN r
    ELSE [r EXCEPT !.state = IF \E k \in 1..2 : Unsafe(k, r.steps[k])
                             THEN "UNKNOWN" ELSE "CANCELLED",
                   !.steps = [k \in 1..2 |-> RevokedStep(k, r.steps[k])]]

RevokedRow(r) ==
    IF r.state \notin Active THEN r
    ELSE [r EXCEPT !.state = IF \E k \in 1..2 : Unsafe(k, r.steps[k])
                             THEN "UNKNOWN" ELSE "CANCELLED",
                   !.owner = Nobody, !.live = FALSE,
                   !.steps = [k \in 1..2 |-> RevokedStep(k, r.steps[k])]]

Revoke(i) ==
    /\ current
    /\ intent[i].state \notin {"none", "PUBLISHED", "CANCELLED",
                               "AWAITING_HUMAN", "UNKNOWN"}
    /\ \A a \in Rows(i) : Row(i, a).state \notin {"AWAITING_HUMAN", "UNKNOWN"}
    /\ MayDecide
    /\ OwnsTarget(i)
    /\ Decided(i, "REVOKE")
    /\ LET rows == [a \in Rows(i) |-> RevokedRow(Row(i, a))]
           ambiguous == \E a \in Rows(i) : rows[a].state = "UNKNOWN"
       IN /\ attempts' = [attempts EXCEPT ![i] = rows]
          /\ intent' = [intent EXCEPT ![i] =
                [state |-> IF ambiguous THEN "UNKNOWN" ELSE "AWAITING_APPROVAL",
                 lock |-> @.lock + 1]]
    /\ UNCHANGED <<world, pc, calls, posts>>

\* Only before any effect: no attempt is running or unresolved, and the one
\* that is queued, if any, has no step that has run or whose request is unsafe.
Cancellable(i) ==
    LET waiting == {a \in Rows(i) : Row(i, a).state \in {"QUEUED", "RETRY_WAIT"}}
    IN /\ intent[i].state \in {"AWAITING_APPROVAL", "READY"}
       /\ \A a \in Rows(i) : Row(i, a).state \notin
             Running \cup {"AWAITING_HUMAN", "UNKNOWN", "SUCCEEDED"}
       /\ Cardinality(waiting) <= 1
       /\ intent[i].state = "READY" => Cardinality(waiting) = 1
       /\ \A a \in waiting, k \in 1..2 :
             Step(i, a, k).state \in Open /\ ~Unsafe(k, Step(i, a, k))

CancelledRow(r) ==
    IF r.state \notin {"QUEUED", "RETRY_WAIT"} THEN r
    ELSE [r EXCEPT !.state = "CANCELLED", !.owner = Nobody, !.live = FALSE,
                   !.steps = [k \in 1..2 |-> [@[k] EXCEPT !.state = "CANCELLED"]]]

Cancel(i) ==
    /\ Cancellable(i)
    /\ MayDecide
    /\ attempts' = [attempts EXCEPT ![i] = [a \in Rows(i) |-> CancelledRow(Row(i, a))]]
    /\ intent' = [intent EXCEPT ![i] = [state |-> "CANCELLED", lock |-> @.lock + 1]]
    /\ UNCHANGED <<approval, world, pc, calls, posts>>

\* set_publication_guard, by the owner.
SetGuard ==
    /\ "guard" \in Changes
    /\ enabled' = ~enabled
    /\ UNCHANGED <<target, intent, approval, attempts, packaged, absents, absentLock,
                   downloaded, current, pc, calls, posts>>

Latest(i) == Len(attempts[i])

\* Mutant: the attempt is left in doubt.
ReconcilePresentIntentOnly(i) ==
    /\ intent[i].state = "UNKNOWN" /\ MayDecide /\ posts[i] > 0
    /\ intent' = [intent EXCEPT ![i] = [state |-> "PUBLISHED", lock |-> @.lock + 1]]
    /\ UNCHANGED <<approval, attempts, world, pc, calls, posts>>

\* _mark_manual_confirmation_succeeded: the operator found the post.
ReconcilePresent(i) ==
    /\ intent[i].state = "UNKNOWN" \/
          (target = "PATREON" /\ intent[i].state = "AWAITING_HUMAN")
    /\ MayDecide
    /\ Latest(i) > 0
    /\ posts[i] > 0
    /\ attempts' = [attempts EXCEPT ![i][Latest(i)] =
          [@ EXCEPT !.state = "SUCCEEDED", !.owner = Nobody, !.live = FALSE,
                    !.steps[2].state = "SUCCEEDED"]]
    /\ intent' = [intent EXCEPT ![i] = [state |-> "PUBLISHED", lock |-> @.lock + 1]]
    /\ UNCHANGED <<approval, world, pc, calls, posts>>

\* _mark_patreon_confirmed_absent_handoff
PatreonAbsentRows(i) ==
    LET a == Latest(i)
    IN IF /\ i \in packaged /\ a > 0
          /\ Row(i, a).state = "UNKNOWN" /\ Step(i, a, 2).state = "UNKNOWN"
       THEN {[attempts[i] EXCEPT ![a] = [@ EXCEPT !.state = "AWAITING_HUMAN",
                !.owner = Nobody, !.live = FALSE,
                !.steps[2].state = "AWAITING_HUMAN"]]}
       ELSE {}

\* _mark_x_confirmed_absent_attempt
XAbsentStep(s) ==
    IF s.state = "UNKNOWN" THEN [s EXCEPT !.state = "FAILED"]
    ELSE IF s.state \in Open \cup {"PROCESSING"}
         THEN [s EXCEPT !.state = "CANCELLED"] ELSE s

XAbsentRows(i) ==
    LET unknown == {a \in Rows(i) : Row(i, a).state = "UNKNOWN"}
    IN IF Cardinality(unknown) # 1 THEN {}
       ELSE {[attempts[i] EXCEPT ![a] = [@ EXCEPT !.state = "FAILED",
                !.owner = Nobody, !.live = FALSE,
                !.steps = [k \in 1..2 |-> XAbsentStep(Step(i, a, k))]]] : a \in
             {b \in unknown : Cardinality({k \in 1..2 :
                                 Step(i, b, k).state = "UNKNOWN"}) = 1}}

\* The operator looked and there was no post yet: a call that is still on its
\* way may make the word wrong afterwards.
ReconcileAbsent(i) ==
    /\ intent[i].state = "UNKNOWN"
    /\ MayDecide
    /\ posts[i] = 0
    /\ \E rows \in IF target = "X" THEN XAbsentRows(i) ELSE PatreonAbsentRows(i) :
          attempts' = [attempts EXCEPT ![i] = rows]
    /\ intent' = [intent EXCEPT ![i] =
          [state |-> IF target = "X" THEN "AWAITING_APPROVAL" ELSE "AWAITING_HUMAN",
           lock |-> @.lock + 1]]
    /\ absents' = [absents EXCEPT ![i] = @ + 1]
    /\ absentLock' = [absentLock EXCEPT ![i] = intent[i].lock]
    /\ UNCHANGED <<target, approval, packaged, downloaded, enabled, current, pc, calls,
                   posts>>

LatestApproves(i, a) == /\ approval[i].revision = Row(i, a).approval
                        /\ approval[i].action = "APPROVE"

InForce(i, a) == /\ LatestApproves(i, a)
                 /\ approval[i].lock = intent[i].lock
                 /\ ~approval[i].expired

\* presign_patreon_package_download: the manual hand-off.
Download(i) ==
    /\ target = "PATREON" /\ current /\ enabled
    /\ intent[i].state = "AWAITING_HUMAN"
    /\ Latest(i) > 0 /\ Row(i, Latest(i)).state = "AWAITING_HUMAN"
    /\ \/ InForce(i, Latest(i))
       \/ LatestApproves(i, Latest(i)) /\ absents[i] > 0
             /\ absentLock[i] + 1 = intent[i].lock
    /\ i \in packaged /\ i \notin downloaded
    /\ downloaded' = downloaded \cup {i}
    /\ UNCHANGED <<target, intent, approval, attempts, packaged, absents, absentLock,
                   enabled, current, pc, calls, posts>>

\* The person who holds the package posts it by hand, once.
PostByHand(i) ==
    /\ i \in downloaded /\ intent[i].state = "AWAITING_HUMAN"
    /\ posts[i] = 0
    /\ posts' = [posts EXCEPT ![i] = @ + 1]
    /\ UNCHANGED <<intent, approval, attempts, world, pc, calls>>

ApprovalExpires(i) ==
    /\ "expiry" \in Changes
    /\ approval[i].action = "APPROVE" /\ ~approval[i].expired
    /\ approval' = [approval EXCEPT ![i].expired = TRUE]
    /\ UNCHANGED <<intent, attempts, world, pc, calls, posts>>

\* A newer version of the release, or a compliance decision withdrawn.
ReleaseSuperseded ==
    /\ "release" \in Changes
    /\ current /\ current' = FALSE
    /\ UNCHANGED <<target, intent, approval, attempts, packaged, absents, absentLock,
                   downloaded, enabled, pc, calls, posts>>

-----------------------------------------------------------------------------
(* The publication loop: services/publication_runtime.py.                   *)

Writes(i, a, attemptState, intentState, k, step) ==
    /\ attempts' = [attempts EXCEPT ![i][a] =
          [@ EXCEPT !.state = attemptState, !.owner = Nobody, !.live = FALSE,
                    !.steps[k] = step]]
    /\ intent' = [intent EXCEPT ![i].state = intentState]
    /\ intentState \notin Supersedable => OwnsTarget(i)

LeaseExpires(i) ==
    /\ \E a \in Rows(i) :
          /\ Row(i, a).state \in Running /\ Row(i, a).live
          /\ attempts' = [attempts EXCEPT ![i][a].live = FALSE]
    /\ UNCHANGED <<intent, approval, world, pc, calls, posts>>

\* Mutant: a lost post is retried like a lost upload.
NeverInDoubt(k, s) == FALSE

\* _recover_one_expired_lease, the step that was under way.
InDoubt(k, s) == s.request = "started" /\ Kinds[k] \in Irreversible

RecoverStep(i, a, k) ==
    LET s == Step(i, a, k)
        closed == IF Kinds[k] = "X_MEDIA_UPLOAD" /\ s.request = "started"
                  THEN "retryable" ELSE s.request
    IN IF InDoubt(k, s)
       THEN Writes(i, a, "UNKNOWN", "UNKNOWN", k,
                   [s EXCEPT !.state = "UNKNOWN", !.request = "unknown"])
       ELSE IF Row(i, a).claims >= MaxClaims
       THEN Writes(i, a, "FAILED", "FAILED", k,
                   [s EXCEPT !.state = "FAILED", !.request = closed])
       ELSE Writes(i, a, "RETRY_WAIT", intent[i].state, k,
                   [s EXCEPT !.state = "RETRY_WAIT", !.request = closed])

\* ... and the attempt that died between two steps.
RecoverBare(i, a) ==
    /\ attempts' = [attempts EXCEPT ![i][a] =
          [@ EXCEPT !.state = IF Row(i, a).claims >= MaxClaims
                              THEN "FAILED" ELSE "RETRY_WAIT",
                    !.owner = Nobody, !.live = FALSE]]
    /\ intent' = [intent EXCEPT ![i].state =
          IF Row(i, a).claims >= MaxClaims THEN "FAILED" ELSE @]

\* Mutant: a lease that expires before the first step is not recovered.
ExpiredInStep(i, a) == Row(i, a).state = "PROCESSING" /\ ~Row(i, a).live

Expired(i, a) == Row(i, a).state \in Running /\ ~Row(i, a).live
Under(i, a) == {k \in 1..2 : Step(i, a, k).state = "PROCESSING"}

Recover(w) ==
    /\ At(w, "idle")
    /\ \E i \in Intents : \E a \in Rows(i) :
          /\ Expired(i, a)
          /\ IF Under(i, a) = {} THEN RecoverBare(i, a)
             ELSE \E k \in Under(i, a) :
                    /\ \A j \in Under(i, a) : k <= j
                    /\ RecoverStep(i, a, k)
    /\ UNCHANGED <<approval, world, pc, calls, posts>>

NothingExpired == \A i \in Intents : \A a \in Rows(i) : ~Expired(i, a)

\* _claim_one_attempt; retry_at and available_at are reached at any time.
Claim(w) ==
    /\ At(w, "idle") /\ NothingExpired
    /\ \E i \in Intents : \E a \in Rows(i) :
          /\ Row(i, a).state \in {"QUEUED", "RETRY_WAIT"}
          /\ IF Row(i, a).claims >= MaxClaims
             THEN /\ attempts' = [attempts EXCEPT ![i][a].state = "FAILED"]
                  /\ intent' = [intent EXCEPT ![i].state = "FAILED"]
                  /\ UNCHANGED pc
             ELSE /\ attempts' = [attempts EXCEPT ![i][a] =
                        [@ EXCEPT !.state = "CLAIMED", !.claims = Row(i, a).claims + 1,
                                  !.owner = w, !.live = TRUE]]
                  /\ pc' = [pc EXCEPT ![w] = [at |-> "claimed", i |-> i, a |-> a]]
                  /\ UNCHANGED intent
    /\ UNCHANGED <<approval, world, calls, posts>>

Leased(w, i, a) == Row(i, a).owner = w /\ Row(i, a).state \in Running

\* _next_step_snapshot
Snapshot(w) ==
    /\ At(w, "claimed")
    /\ LET i == pc[w].i
           a == pc[w].a
           open == {k \in 1..2 : Step(i, a, k).state \in Open}
       IN pc' = [pc EXCEPT ![w] =
             IF Leased(w, i, a) /\ Row(i, a).live /\ open # {}
             THEN [at |-> "step", i |-> i, a |-> a, k |-> IF 1 \in open THEN 1 ELSE 2]
             ELSE Idle]
    /\ UNCHANGED <<intent, approval, attempts, world, calls, posts>>

Verdict(w, verdict, request) ==
    pc' = [pc EXCEPT ![w] = [at |-> "settle", i |-> @.i, a |-> @.a, k |-> @.k,
                             verdict |-> verdict, request |-> request]]

\* What is read before the effect is invalid (a digest that does not match,
\* media identifiers about to expire), or the package cannot be read.
InputRefused(w) ==
    /\ At(w, "step")
    /\ \/ Verdict(w, "fail", FALSE)
       \/ Kinds[pc[w].k] = "PATREON_HANDOFF" /\ Verdict(w, "defer", FALSE)
    /\ UNCHANGED <<intent, approval, attempts, world, calls, posts>>

\* require_effect_authorization, under the locks of the caller's transaction.
Authorized(i, a) == /\ current
                    /\ intent[i].state \in {"READY", "PROCESSING"}
                    /\ InForce(i, a)

\* _begin_effect
BeginEffect(w) ==
    /\ At(w, "step")
    /\ LET i == pc[w].i
           a == pc[w].a
           k == pc[w].k
           ours == /\ Leased(w, i, a) /\ Row(i, a).live
                   /\ Step(i, a, k).state \in Open
                   /\ \A j \in 1..(k - 1) : Step(i, a, j).state = "SUCCEEDED"
                   /\ Authorized(i, a)
       IN \/ /\ ours /\ enabled
             /\ attempts' = [attempts EXCEPT ![i][a] =
                   [@ EXCEPT !.state = "PROCESSING", !.steps[k].state = "PROCESSING"]]
             /\ intent' = [intent EXCEPT ![i].state = "PROCESSING"]
             /\ pc' = [pc EXCEPT ![w].at = "begun"]
          \/ /\ ours /\ ~enabled /\ Verdict(w, "defer", FALSE)
             /\ UNCHANGED <<attempts, intent>>
          \/ /\ ~ours /\ Verdict(w, "expire", FALSE)
             /\ UNCHANGED <<attempts, intent>>
    /\ UNCHANGED <<approval, world, calls, posts>>

\* X, before the request is marked as started: no usable credentials, or none
\* that could be opened (retry); an invalid configuration, or an error that is
\* terminal (fail). What else goes wrong is not told apart from a lost answer
\* when a post was to be created: its outcome is unknown.
NoRequest(w) ==
    /\ At(w, "begun") /\ target = "X"
    /\ \/ \E verdict \in {"retry", "fail"} : Verdict(w, verdict, FALSE)
       \/ Kinds[pc[w].k] = "X_CREATE_POST" /\ Verdict(w, "unknown", FALSE)
    /\ UNCHANGED <<intent, approval, attempts, world, calls, posts>>

\* PATREON_PACKAGE: build, write if absent or adopt, then _register_packages.
BuildPackage(w) ==
    /\ At(w, "begun") /\ Kinds[pc[w].k] = "PATREON_PACKAGE"
    /\ \E verdict \in {"register", "fail", "retry"} : Verdict(w, verdict, FALSE)
    /\ UNCHANGED <<intent, approval, attempts, world, calls, posts>>

\* _mark_patreon_awaiting_human: this controller has no browser driver, or the
\* package has several parts; the operator posts.
HandOver(w) ==
    /\ At(w, "begun") /\ Kinds[pc[w].k] = "PATREON_HANDOFF"
    /\ Verdict(w, "operator", FALSE)
    /\ UNCHANGED <<intent, approval, attempts, world, calls, posts>>

\* Mutant: the authority seen by _begin_effect is trusted until the call.
StartUnauthorized(w) ==
    /\ At(w, "begun") /\ Kinds[pc[w].k] # "PATREON_PACKAGE"
    /\ LET i == pc[w].i
           a == pc[w].a
           k == pc[w].k
       IN /\ Leased(w, i, a) /\ Row(i, a).live
          /\ attempts' = [attempts EXCEPT ![i][a].steps[k].request = "started"]
          /\ calls' = IF Kinds[k] \in Irreversible
                      THEN calls \cup {<<i, a>>} ELSE calls
          /\ pc' = [pc EXCEPT ![w].at = "calling"]
    /\ UNCHANGED <<intent, approval, world, posts>>

\* _mark_provider_request_started
StartRequest(w) ==
    /\ At(w, "begun") /\ Kinds[pc[w].k] # "PATREON_PACKAGE"
    /\ LET i == pc[w].i
           a == pc[w].a
           k == pc[w].k
           ours == /\ Leased(w, i, a) /\ Row(i, a).live
                   /\ Step(i, a, k).state = "PROCESSING"
                   /\ Step(i, a, k).request # "started"
                   /\ Authorized(i, a)
       IN \/ /\ ours /\ enabled
             /\ attempts' = [attempts EXCEPT ![i][a].steps[k].request = "started"]
             /\ calls' = IF Kinds[k] \in Irreversible
                         THEN calls \cup {<<i, a>>} ELSE calls
             /\ pc' = [pc EXCEPT ![w].at = "calling"]
          \/ /\ ours /\ ~enabled /\ Verdict(w, "defer", FALSE)
             /\ UNCHANGED <<attempts, calls>>
          \/ /\ ~ours /\ Verdict(w, "expire", FALSE)
             /\ UNCHANGED <<attempts, calls>>
    /\ UNCHANGED <<intent, approval, world, posts>>

\* The provider creates the post: while the caller waits, or after it gave up.
Land(i, a) ==
    /\ <<i, a>> \in calls
    /\ calls' = calls \ {<<i, a>>}
    /\ posts' = [posts EXCEPT ![i] = @ + 1]
    /\ UNCHANGED <<intent, approval, attempts, world, pc>>

\* The answer of a media upload: every doubt is retried with a new request;
\* an answer of the wrong size fails without closing its request.
UploadAnswered(w) ==
    /\ At(w, "calling") /\ Kinds[pc[w].k] = "X_MEDIA_UPLOAD"
    /\ \/ \E verdict \in {"uploaded", "retry", "fail"} : Verdict(w, verdict, TRUE)
       \/ Verdict(w, "fail", FALSE)
    /\ UNCHANGED <<intent, approval, attempts, world, calls, posts>>

\* The provider says that it has created the post. The record of it may fail.
PostCreated(w) ==
    /\ At(w, "calling") /\ Kinds[pc[w].k] \in Irreversible
    /\ <<pc[w].i, pc[w].a>> \in calls
    /\ calls' = calls \ {<<pc[w].i, pc[w].a>>}
    /\ posts' = [posts EXCEPT ![pc[w].i] = @ + 1]
    /\ \E verdict \in {"posted", "unknown"} : Verdict(w, verdict, TRUE)
    /\ UNCHANGED <<intent, approval, attempts, world>>

\* The provider, or the transport, proves that nothing was created. X: not
\* sent, or refused for good; Patreon: the browser never pressed publish.
PostRefused(w) ==
    /\ At(w, "calling") /\ Kinds[pc[w].k] \in Irreversible
    /\ <<pc[w].i, pc[w].a>> \in calls
    /\ calls' = calls \ {<<pc[w].i, pc[w].a>>}
    /\ \E verdict \in IF target = "X" THEN {"retry", "fail"} ELSE {"operator"} :
          Verdict(w, verdict, TRUE)
    /\ UNCHANGED <<intent, approval, attempts, world, posts>>

\* Mutant: a timeout of the call counts as a failure.
PostUncertainFails(w) ==
    /\ At(w, "calling") /\ Kinds[pc[w].k] \in Irreversible
    /\ Verdict(w, "fail", TRUE)
    /\ UNCHANGED <<intent, approval, attempts, world, calls, posts>>

\* A timeout, a broken connection, an answer that says nothing.
PostUncertain(w) ==
    /\ At(w, "calling") /\ Kinds[pc[w].k] \in Irreversible
    /\ Verdict(w, "unknown", TRUE)
    /\ UNCHANGED <<intent, approval, attempts, world, calls, posts>>

\* _append_effect_completion, when the verdict is about a request.
Completed(w, s, event) == IF pc[w].request THEN [s EXCEPT !.request = event] ELSE s

\* _schedule_retry, and _transition_failed when the retries are used up.
ScheduleRetry(w, i, a, k, s) ==
    IF s.retries >= MaxRetriesOf(k) \/ Row(i, a).claims >= MaxClaims
    THEN Writes(i, a, "FAILED", "FAILED", k,
                [Completed(w, s, "retryable") EXCEPT !.state = "FAILED"])
    ELSE Writes(i, a, "RETRY_WAIT", "READY", k,
                [Completed(w, s, "retryable") EXCEPT !.state = "RETRY_WAIT",
                                                     !.retries = @ + 1])

\* The ends that release the lease.
Close(w, i, a, k, s) ==
    LET v == pc[w].verdict
    IN \/ v = "retry" /\ ScheduleRetry(w, i, a, k, s)
       \/ v = "fail" /\ Writes(i, a, "FAILED", "FAILED", k,
                [Completed(w, s, "terminal") EXCEPT !.state = "FAILED"])
       \/ v = "unknown" /\ Writes(i, a, "UNKNOWN", "UNKNOWN", k,
                [Completed(w, s, "unknown") EXCEPT !.state = "UNKNOWN"])
       \/ v = "defer" /\ Writes(i, a, "RETRY_WAIT", "READY", k,
                [s EXCEPT !.state = "RETRY_WAIT"])
       \/ v = "expire" /\ Writes(i, a, "CANCELLED", "AWAITING_APPROVAL", k,
                [s EXCEPT !.state = "CANCELLED"])
       \/ v = "operator" /\ Writes(i, a, "AWAITING_HUMAN", "AWAITING_HUMAN", k,
                [Completed(w, s, "terminal") EXCEPT !.state = "AWAITING_HUMAN"])
       \/ v = "posted" /\ Writes(i, a, "SUCCEEDED", "PUBLISHED", k,
                [Completed(w, s, "succeeded") EXCEPT !.state = "SUCCEEDED"])

\* _finish_x_media_upload and _register_packages keep the lease and go on.
Advance(w, i, a, k, s) ==
    /\ pc[w].verdict \in {"uploaded", "register"}
    /\ attempts' = [attempts EXCEPT ![i][a].steps[k] =
          [Completed(w, s, "succeeded") EXCEPT !.state = "SUCCEEDED"]]
    /\ packaged' = IF pc[w].verdict = "register" THEN packaged \cup {i} ELSE packaged
    /\ UNCHANGED intent

\* _require_execution_lease guards every end and does not look at the clock; a
\* worker that has lost its lease writes nothing.
Settle(w) ==
    /\ At(w, "settle")
    /\ LET i == pc[w].i
           a == pc[w].a
           k == pc[w].k
       IN \/ /\ Leased(w, i, a)
             /\ Close(w, i, a, k, Step(i, a, k))
             /\ pc' = [pc EXCEPT ![w] = Idle]
             /\ UNCHANGED packaged
          \/ /\ Leased(w, i, a)
             /\ Advance(w, i, a, k, Step(i, a, k))
             /\ pc' = [pc EXCEPT ![w] = [at |-> "claimed", i |-> i, a |-> a]]
          \/ /\ ~Leased(w, i, a)
             /\ pc' = [pc EXCEPT ![w] = Idle]
             /\ UNCHANGED <<attempts, intent, packaged>>
    /\ UNCHANGED <<target, approval, absents, absentLock, downloaded, enabled, current,
                   calls, posts>>

\* The controller dies, or raises out of the cycle; its call may still land.
Crash(w) ==
    /\ ~At(w, "idle")
    /\ pc' = [pc EXCEPT ![w] = Idle]
    /\ UNCHANGED <<intent, approval, attempts, world, calls, posts>>

Operator(i) == \/ PlanIntent(i) \/ Approve(i) \/ Revoke(i) \/ Cancel(i)
               \/ ReconcilePresent(i) \/ ReconcileAbsent(i)
               \/ Download(i) \/ PostByHand(i)

Cycle(w) == \/ Recover(w) \/ Claim(w) \/ Snapshot(w) \/ InputRefused(w)
            \/ BeginEffect(w) \/ NoRequest(w) \/ BuildPackage(w)
            \/ HandOver(w) \/ StartRequest(w) \/ UploadAnswered(w)
            \/ PostCreated(w) \/ PostRefused(w) \/ PostUncertain(w) \/ Settle(w)

Next == \/ \E i \in Intents : \/ Operator(i) \/ ApprovalExpires(i) \/ LeaseExpires(i)
                              \/ \E a \in Rows(i) : Land(i, a)
        \/ \E w \in Workers : Cycle(w) \/ Crash(w)
        \/ SetGuard \/ ReleaseSuperseded

Spec == Init /\ [][Next]_vars

\* The loops keep cycling, a lease whose owner stops renewing it runs out, and
\* a provider call is bounded by its timeout: the controllers that run are
\* always eventually scheduled. Nothing is assumed of the operator.
FairSpec == /\ Spec
            /\ \A w \in Workers : WF_vars(Cycle(w))
            /\ \A i \in Intents : WF_vars(LeaseExpires(i))

-----------------------------------------------------------------------------
AttemptStates == Active \cup {"AWAITING_HUMAN", "UNKNOWN", "SUCCEEDED",
                              "FAILED", "CANCELLED"}
StepStates == Open \cup {"PROCESSING", "AWAITING_HUMAN", "UNKNOWN",
                         "SUCCEEDED", "FAILED", "CANCELLED"}
StepRecords == [state : StepStates, retries : 0..MaxRetries,
                request : {"none", "started", "succeeded", "retryable",
                           "unknown", "terminal"}]
AttemptRecords == [state : AttemptStates, claims : 0..MaxClaims,
                   owner : Workers \cup {Nobody}, live : BOOLEAN,
                   approval : 1..MaxLock, steps : [1..2 -> StepRecords]]

\* The rows keep the shape of the tables, and a lease belongs to a running
\* attempt exactly (the CHECK constraints of publication_attempts).
TypeOK ==
    /\ intent \in [Intents -> [lock : 0..MaxLock, state :
          {"none", "AWAITING_APPROVAL", "READY", "PROCESSING", "AWAITING_HUMAN",
           "UNKNOWN", "PUBLISHED", "FAILED", "CANCELLED"}]]
    /\ \A i \in Intents : /\ attempts[i] \in Seq(AttemptRecords)
                           /\ \A a \in Rows(i) : (Row(i, a).owner # Nobody)
                                 <=> Row(i, a).state \in Running
    /\ calls \subseteq Intents \X (1..MaxAttempts)
    /\ posts \in [Intents -> Nat] /\ absents \in [Intents -> Nat]

\* However often attempts are retried, revoked, recovered and approved again,
\* and whichever intents succeed each other on the target, the target gets at
\* most one post, plus one for every time an operator said of an unknown
\* outcome that nothing had been posted (docs/publication-orchestration.md).
PostsAccounted ==
    MapThenSumSet(LAMBDA i : posts[i], Intents)
        <= 1 + MapThenSumSet(LAMBDA i : absents[i], Intents)

\* One attempt at a time may act on the target: no two rows are queued,
\* running, awaiting a person or in doubt, whatever intents they belong to.
OneAttemptAtATime ==
    Cardinality({r \in AllRows :
        Row(r[1], r[2]).state \in Active \cup {"AWAITING_HUMAN", "UNKNOWN"}}) <= 1

\* An intent that says "nothing has been posted" (it waits for an approval or
\* for a worker, failed or was cancelled) says so truthfully: no post exists
\* and no call is on its way, unless an operator vouched for that.
QuietMeansUnposted ==
    \A i \in Intents :
        intent[i].state \in {"AWAITING_APPROVAL", "READY", "FAILED", "CANCELLED"}
            /\ absents[i] = 0
        => posts[i] = 0 /\ \A a \in Rows(i) : <<i, a>> \notin calls

\* A published intent has its post, and no attempt of the target is left that
\* could make another.
PublishedIsFinal ==
    \A i \in Intents : intent[i].state = "PUBLISHED" =>
        /\ posts[i] > 0
        /\ \A j \in Intents : \A a \in Rows(j) :
              Row(j, a).state \notin Active \cup {"AWAITING_HUMAN", "UNKNOWN"}

\* What an intent says of its post is true, whatever failed in between.
StatesAreTrue == QuietMeansUnposted /\ PublishedIsFinal

\* The final step's request may have taken effect and nobody has ruled it out.
StepInDoubt(s) == /\ s.request \in {"started", "unknown", "succeeded"}
                  /\ s.state \notin {"FAILED", "AWAITING_HUMAN"}

Effect == INSTANCE ExternalEffect WITH
    authorized <- enabled /\ \E i \in Intents : Latest(i) > 0 /\ Authorized(i, Latest(i)),
    effect <- IF \E i \in Intents : intent[i].state = "PUBLISHED" THEN "done"
              ELSE IF \E i \in Intents : \E a \in Rows(i) : StepInDoubt(Step(i, a, 2))
              THEN "inDoubt" ELSE "clear"

\* The two services together implement the promise of ExternalEffect for the
\* release target: begun only under authority, never begun while in doubt, and
\* never after it is known to exist.
KeepsPromise == Effect!Spec

Claimed(i, a) == a \in Rows(i) /\ Row(i, a).state \in Running
Released(i, a) == a \in Rows(i) /\ Row(i, a).state \notin Running

\* A claimed attempt does not stay claimed: its worker ends it, or its lease
\* runs out and another cycle takes it over (publication_once).
ClaimsEnd ==
    \A i \in Intents : \A a \in 1..MaxAttempts : Claimed(i, a) ~> Released(i, a)
=============================================================================
