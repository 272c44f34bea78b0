------------------------ MODULE PublicationInvariant ------------------------
(* The inductive invariant of PublicationEffects: what the rows of an       *)
(* intent, its posts and the calls on their way say of each other, and what *)
(* a controller that still holds its lease may rely on between two          *)
(* transactions.                                                            *)
EXTENDS PublicationEffects, Functions, TLAPS

-----------------------------------------------------------------------------
(* Types, without the bounds of the runs.                                   *)

Requests == {"none", "started", "succeeded", "retryable", "unknown", "terminal"}
Verdicts == {"retry", "fail", "unknown", "defer", "expire", "operator", "posted",
             "uploaded", "register"}
IntentStates == {"none", "AWAITING_APPROVAL", "READY", "PROCESSING",
                 "AWAITING_HUMAN", "UNKNOWN", "PUBLISHED", "FAILED", "CANCELLED"}

StepRows == [state : StepStates, retries : Nat, request : Requests]
AttemptRows == [state : AttemptStates, claims : Nat, owner : Workers \cup {Nobody},
                live : BOOLEAN, approval : Nat, steps : [1..2 -> StepRows]]
IntentRows == [state : IntentStates, lock : Nat]
ApprovalRows == [revision : Nat, action : {"none", "APPROVE", "REVOKE"},
                 lock : Nat, expired : BOOLEAN]
Places == {Idle}
    \cup [at : {"claimed"}, i : Intents, a : Nat]
    \cup [at : {"step", "begun", "calling"}, i : Intents, a : Nat, k : 1..2]
    \cup [at : {"settle"}, i : Intents, a : Nat, k : 1..2, verdict : Verdicts,
          request : BOOLEAN]

Typed ==
    /\ target \in {"X", "PATREON"}
    /\ intent \in [Intents -> IntentRows]
    /\ approval \in [Intents -> ApprovalRows]
    /\ attempts \in [Intents -> Seq(AttemptRows)]
    /\ absents \in [Intents -> Nat]
    /\ posts \in [Intents -> Nat]
    /\ pc \in [Workers -> Places]
    /\ calls \in SUBSET (Intents \X Nat)
    /\ enabled \in BOOLEAN /\ current \in BOOLEAN

-----------------------------------------------------------------------------
(* The rows of an intent.                                                   *)

Clean(s) == s.request \in {"none", "retryable"}
Unbegun(s) == s.state \in Open /\ Clean(s)

\* What the state of an attempt says of its steps: the step that posts comes
\* second, begins once the first succeeded, and is in doubt only while the
\* attempt runs it or is in doubt itself.
RowOK(t, r) ==
    /\ t = "PATREON" => r.steps[1].request = "none"
    /\ r.state \in {"QUEUED", "RETRY_WAIT", "CLAIMED"} =>
          Unbegun(r.steps[2]) /\ r.steps[1].state \in Open \cup {"SUCCEEDED"}
    /\ r.state = "PROCESSING" =>
          /\ r.steps[1].state \in Open \cup {"PROCESSING", "SUCCEEDED"}
          /\ \/ Unbegun(r.steps[2])
             \/ /\ r.steps[2].state = "PROCESSING"
                /\ r.steps[1].state = "SUCCEEDED"
                /\ Clean(r.steps[2]) \/ r.steps[2].request = "started"
    /\ r.state = "UNKNOWN" =>
          /\ r.steps[2].state = "UNKNOWN"
          /\ Clean(r.steps[2]) \/ r.steps[2].request \in {"started", "unknown"}
    /\ r.state \in Supersedable => ~StepInDoubt(r.steps[2])
    /\ r.state = "AWAITING_HUMAN" => r.steps[2].state = "AWAITING_HUMAN"

\* What the state of an intent says of its latest attempt.
Fits(st, s) ==
    /\ s = "QUEUED" => st = "READY"
    /\ s \in {"RETRY_WAIT", "CLAIMED"} => st \in {"READY", "PROCESSING"}
    /\ s = "PROCESSING" => st = "PROCESSING"
    /\ s \in {"AWAITING_HUMAN", "UNKNOWN"} => st = s
    /\ s = "SUCCEEDED" => st = "PUBLISHED"
    /\ s \in Supersedable => st \in {"AWAITING_APPROVAL", "FAILED", "CANCELLED"}

\* Only the latest attempt may not have ended, and the intent follows it.
History(t, st, rows) ==
    /\ \A a \in 1..Len(rows) : RowOK(t, rows[a])
    /\ \A a \in 1..Len(rows) : a # Len(rows) => rows[a].state \in Supersedable
    /\ Len(rows) = 0 => st \in {"none", "AWAITING_APPROVAL", "CANCELLED"}
    /\ Len(rows) # 0 => Fits(st, rows[Len(rows)].state)

\* The latest attempt's request to post may have taken effect.
Doubted(rows) ==
    /\ Len(rows) # 0
    /\ rows[Len(rows)].state \in {"PROCESSING", "UNKNOWN"}
    /\ rows[Len(rows)].steps[2].request \in {"started", "unknown"}

\* A post and a call on its way are known to the rows, unless an operator has
\* vouched that there is none; a published intent has a post.
Truthful(i) ==
    /\ absents[i] = 0 => \A c \in calls : c[1] = i =>
          c[2] = Latest(i) /\ Doubted(attempts[i]) /\ posts[i] = 0
    /\ absents[i] = 0 /\ posts[i] # 0 =>
          intent[i].state \in {"PUBLISHED", "AWAITING_HUMAN"} \/ Doubted(attempts[i])
    /\ intent[i].state = "PUBLISHED" => posts[i] # 0

Free == Supersedable \cup {"none"}

\* One intent at a time owns the target.
OneOwner ==
    \A i, j \in Intents : i # j => intent[i].state \in Free \/ intent[j].state \in Free

-----------------------------------------------------------------------------
(* What a controller may rely on while the lease is its own.                *)

Unposted(i) == absents[i] = 0 => posts[i] = 0 /\ \A c \in calls : c[1] # i

Between(r) == Unbegun(r.steps[2]) /\ r.steps[1].state \in Open \cup {"SUCCEEDED"}

InStep(p, r) ==
    /\ r.steps[p.k].state = "PROCESSING"
    /\ r.state = "PROCESSING"
    /\ p.k = 1 => Unbegun(r.steps[2])

\* The verdict of the posting step agrees with its request.
Settled(p, r) ==
    /\ p.k = 1 => Unbegun(r.steps[2]) /\ (p.request => target = "X")
                  /\ p.verdict \notin {"unknown", "posted", "operator"}
    /\ p.k = 2 =>
          /\ r.steps[1].state = "SUCCEEDED"
          /\ p.verdict \notin {"uploaded", "register"}
          /\ ~p.request => Clean(r.steps[2]) /\ p.verdict # "posted"
          /\ p.request => /\ r.steps[2].request = "started"
                          /\ p.verdict \notin {"defer", "expire"}
          /\ p.request /\ p.verdict \in {"retry", "fail", "operator"} => Unposted(p.i)
          /\ p.verdict = "posted" => posts[p.i] # 0

Phase(p, r) ==
    /\ p.at \in {"claimed", "step"} => Between(r)
    /\ p.at = "step" => r.steps[p.k].state \in Open
    /\ p.at = "step" /\ p.k = 2 => r.steps[1].state = "SUCCEEDED"
    /\ p.at \in {"begun", "calling"} => InStep(p, r)
    /\ p.at = "begun" /\ p.k = 2 => Clean(r.steps[2])
    /\ p.at = "calling" /\ p.k = 1 => target = "X"
    /\ p.at = "calling" /\ p.k = 2 => r.steps[2].request = "started"
    /\ p.at = "settle" => Settled(p, r)

\* A controller that does anything knows an attempt, and knows its phase as
\* long as it has the lease.
Knows(w) ==
    pc[w].at # "idle" =>
        /\ pc[w].a \in Rows(pc[w].i)
        /\ Leased(w, pc[w].i, pc[w].a) => Phase(pc[w], Row(pc[w].i, pc[w].a))

PInv ==
    /\ Typed
    /\ \A i \in Intents : History(target, intent[i].state, attempts[i])
    /\ \A i \in Intents : Truthful(i)
    /\ OneOwner
    /\ \A w \in Workers : Knows(w)

-----------------------------------------------------------------------------
(* Every post is accounted for: the posts of an intent, with those that its *)
(* calls may still make, are at most its own one and those vouched for.     *)

CallsOf(i) == {c \in calls : c[1] = i}

\* The posts of an intent, with those that its calls may still make.
Load(i) == posts[i] + Cardinality(CallsOf(i))

\* Each of them has been vouched for: an operator once said of it that nothing
\* had been posted.
VouchedFor(i) == Load(i) <= absents[i]

\* The intent has used the one post of the target.
Spends(i) == \/ intent[i].state = "PUBLISHED"
             \/ intent[i].state = "AWAITING_HUMAN" /\ posts[i] # 0
             \/ Doubted(attempts[i])

\* A controller is about to record of a request that it posted nothing.
RulesOut(w) == /\ pc[w].at = "settle" /\ pc[w].k = 2 /\ pc[w].request
               /\ pc[w].verdict \in {"retry", "fail", "operator"}
               /\ Leased(w, pc[w].i, pc[w].a)

AInv ==
    /\ IsFiniteSet(calls)
    /\ \A i \in Intents : Load(i) <= absents[i] + (IF Spends(i) THEN 1 ELSE 0)
    /\ \A w \in Workers : RulesOut(w) => VouchedFor(pc[w].i)

-----------------------------------------------------------------------------
(* The bounds of the rows: each decision raises one lock_version, an attempt *)
(* is claimed within max_attempts, and a lease belongs to a running attempt. *)

Tight(r) == /\ r.claims <= MaxClaims
            /\ r.approval \in 1..MaxLock
            /\ \A k \in 1..2 : r.steps[k].retries <= MaxRetries
            /\ r.owner # Nobody <=> r.state \in Running

RowsTight == \A i \in Intents : \A a \in Rows(i) : Tight(Row(i, a))

LockOf == [j \in Intents |-> intent[j].lock]
Locks == SumFunctionOnSet(LockOf, Intents)

\* An approval is a decision, and each decision takes a lock_version of its own.
Decisions(i) == /\ approval[i].revision <= intent[i].lock
                /\ intent[i].state = "none" => intent[i].lock = 0

LInv ==
    /\ RowsTight
    /\ \A i \in Intents : Decisions(i) /\ Latest(i) <= MaxAttempts
    /\ Locks <= MaxLock
    /\ \A c \in calls : c[2] \in Rows(c[1])
=============================================================================
