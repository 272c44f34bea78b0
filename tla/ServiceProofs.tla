--------------------------- MODULE ServiceProofs ---------------------------
(* The theorems about VideoJobs, for any controllers and any numbers of     *)
(* attempts and requests: one execution is let in for an attempt, and an    *)
(* output is recorded of that one only. And those about MasterIntake, for   *)
(* any number of collectors, outputs, images and staging keys: no upload is *)
(* left where nobody looks, and what is available or quarantined is final.  *)
EXTENDS VideoJobs, MasterIntake, FiniteSetTheorems, TLAPS

-----------------------------------------------------------------------------
(* VideoJobs: the inductive invariant.                                      *)

\* The bounds are numbers.
Bounded == MaxAttempts \in Nat /\ MaxPosts \in Nat

\* A provider job is for an attempt that was made; the row names the one that
\* was let in for it, and what the row names was asked for by it.
PodsFit ==
    /\ \A p \in Posts : /\ pods[p].no <= job.count
                        /\ pods[p].in => pods[p].at # "none"
                        /\ pods[p].at = "COMPLETED" => pods[p].in
                        /\ pods[p].in /\ pods[p].no = job.count => att.pod = p
    /\ \A p, q \in Posts :
        pods[p].in /\ pods[q].in /\ pods[p].no = pods[q].no => p = q
    /\ att.pod # Unbound => /\ pods[att.pod].at # "none"
                            /\ pods[att.pod].no = job.count
    /\ job.state = "SUCCEEDED" => att.pod # Unbound /\ pods[att.pod].in

Busy == {"claimed", "read", "post", "posted", "got"}

\* What a cycle read may be of an attempt that others have ended. Of the
\* latest one, it knows no other provider job than the row, and none that is
\* complete but the row's.
Knows(w) ==
    /\ pc[w].at \in Busy =>
        /\ pc[w].no \in 0..job.count /\ Seen(w) \in AttemptRows
        /\ pc[w].no = job.count /\ Seen(w).pod # Unbound => Seen(w).pod = att.pod
    /\ pc[w].at = "posted" =>
        /\ pc[w].pod \in Posts \cup {Unbound}
        /\ pc[w].pod # Unbound => /\ pods[pc[w].pod].at # "none"
                                  /\ pods[pc[w].pod].no = pc[w].no
    /\ pc[w].at = "got" /\ pc[w].remote = "COMPLETED" /\ pc[w].no = job.count =>
        att.pod # Unbound /\ pods[att.pod].in
    /\ pc[w].at = "got" /\ pc[w].remote \notin Stopped => Seen(w).pod # Unbound

VInv == /\ TypeOK /\ PodsFit
        /\ pc = [w \in Workers |-> pc[w]] /\ \A w \in Workers : Knows(w)

-----------------------------------------------------------------------------
(* What a step leaves alone.                                                *)

\* The attempt stays the latest and keeps its provider job; a provider job
\* keeps its attempt and what its worker was allowed.
Forward ==
    /\ job'.count = job.count
    /\ att.pod # Unbound => att'.pod = att.pod
    /\ \A p \in Posts : pods[p].at # "none" =>
        /\ pods'[p].at # "none" /\ pods'[p].no = pods[p].no
        /\ pods[p].in => pods'[p].in

\* The provider jobs move, but none appears and none is let in.
SamePods ==
    /\ pods' \in [Posts -> Pods]
    /\ \A p \in Posts :
        /\ pods'[p].no = pods[p].no /\ pods'[p].in = pods[p].in
        /\ pods'[p].at = "none" <=> pods[p].at = "none"
        /\ pods'[p].at = "COMPLETED" => pods[p].in

\* A controller comes to something.
Turns(w, next) == pc' = [pc EXCEPT ![w] = next]

\* What a cycle knows stays true.
LEMMA KnowsStays ==
    ASSUME VInv, Forward, NEW v \in Workers, pc'[v] = pc[v]
    PROVE  Knows(v)'
<1>1. Knows(v) /\ job.count \in Nat /\ job'.count = job.count
  BY DEF VInv, TypeOK, JobRows, Forward
<1>2. pc[v].at \in Busy =>
        /\ pc[v].no \in 0..job'.count /\ Seen(v) \in AttemptRows
        /\ pc[v].no = job'.count /\ Seen(v).pod # Unbound => Seen(v).pod = att'.pod
  BY <1>1 DEF Knows, Forward
<1>3. pc[v].at = "posted" =>
        /\ pc[v].pod \in Posts \cup {Unbound}
        /\ pc[v].pod # Unbound => /\ pods'[pc[v].pod].at # "none"
                                  /\ pods'[pc[v].pod].no = pc[v].no
  BY <1>1 DEF Knows, Forward
<1>4. pc[v].at = "got" /\ pc[v].remote = "COMPLETED" /\ pc[v].no = job'.count =>
        att'.pod # Unbound /\ pods'[att'.pod].in
  <2>1. SUFFICES ASSUME pc[v].at = "got", pc[v].remote = "COMPLETED",
                        pc[v].no = job'.count
                 PROVE  att'.pod # Unbound /\ pods'[att'.pod].in
    OBVIOUS
  <2>2. /\ att.pod \in Posts /\ att.pod # Unbound /\ pods[att.pod].in
        /\ pods[att.pod].at # "none"
    BY <1>1, <2>1 DEF Knows, VInv, TypeOK, PodsFit, AttemptRows
  <2>3. QED
    BY <2>2 DEF Forward
<1>5. QED
  BY <1>1, <1>2, <1>3, <1>4 DEF Knows, Seen

\* It is enough to know what one controller comes to.
LEMMA OneTurns ==
    ASSUME VInv, Forward, NEW w \in Workers, NEW next, Turns(w, next),
           Knows(w)'
    PROVE  pc' = [v \in Workers |-> pc'[v]] /\ \A v \in Workers : Knows(v)'
<1>1. pc = [v \in Workers |-> pc[v]]
  BY DEF VInv
<1>2. /\ pc' = [v \in Workers |-> pc'[v]]
      /\ \A v \in Workers \ {w} : pc'[v] = pc[v]
  BY <1>1 DEF Turns
<1>3. QED
  BY <1>2, KnowsStays

\* A controller that holds nothing.
LEMMA Ignorant ==
    ASSUME NEW w \in Workers, pc'[w] \in {Idle, Left, Down}
    PROVE  Knows(w)'
  BY DEF Knows, Idle, Left, Down, Busy

\* The rows of the provider jobs still fit.
LEMMA PodsStay ==
    ASSUME Bounded, VInv, SamePods, job'.count = job.count, att'.pod = att.pod,
           job'.state = "SUCCEEDED" =>
                \/ job.state = "SUCCEEDED"
                \/ att.pod # Unbound /\ pods[att.pod].in
    PROVE  PodsFit' /\ Forward
<1>1. att.pod \in Posts \cup {Unbound}
  BY DEF VInv, TypeOK, AttemptRows
<1>2. QED
  BY <1>1 DEF VInv, PodsFit, SamePods, Forward

LEMMA UnchangedPods ==
    ASSUME VInv, pods' = pods
    PROVE  SamePods
  BY DEF VInv, TypeOK, PodsFit, SamePods

\* A provider job changes what it is at.
LEMMA PodMoves ==
    ASSUME VInv, NEW p \in Posts, NEW next \in {"gone"} \cup Waiting \cup Stopped,
           pods[p].at # "none", next = "COMPLETED" => pods[p].in,
           pods' = [pods EXCEPT ![p].at = next]
    PROVE  SamePods
<1>1. pods \in [Posts -> Pods] /\ \A q \in Posts : pods[q].at = "COMPLETED" => pods[q].in
  BY DEF VInv, TypeOK, PodsFit
<1>2. /\ pods' \in [Posts -> Pods]
      /\ pods'[p].at = next /\ pods'[p].no = pods[p].no /\ pods'[p].in = pods[p].in
      /\ \A q \in Posts \ {p} : pods'[q] = pods[q]
  BY <1>1 DEF Pods, Waiting, Stopped
<1>3. QED
  BY <1>1, <1>2 DEF SamePods, Waiting, Stopped

-----------------------------------------------------------------------------
(* The two ways a cycle writes.                                             *)

LEMMA DoneIs ==
    ASSUME VInv, NEW w \in Workers, Done(w)
    PROVE  Turns(w, After(w)) /\ Knows(w)'
<1>1. pc = [v \in Workers |-> pc[v]] /\ After(w) \in {Idle, Left, Down}
  BY DEF VInv, After
<1>2. pc'[w] = After(w)
  BY <1>1 DEF Done, Go
<1>3. QED
  BY <1>1, <1>2, Ignorant DEF Done, Go, Turns

\* Metadata that names the provider job that the row names, or the one that
\* the attempt just asked for, on a row that has none.
LEMMA RecordStep ==
    ASSUME Bounded, VInv, SamePods, NEW w \in Workers, NEW seen \in AttemptRows,
           NEW next, Record(w, seen, next),
           pc[w].no = job.count /\ seen.pod # Unbound =>
                pods[seen.pod].at # "none" /\ pods[seen.pod].no = job.count,
           Accepts(w, seen.pod) /\ Turns(w, next) /\ Forward => Knows(w)'
    PROVE  VInv'
<1>1. /\ job \in JobRows /\ att \in AttemptRows /\ TypeOK /\ PodsFit
  BY DEF VInv, TypeOK
<1>2. CASE ~Accepts(w, seen.pod)
  <2>1. Done(w) /\ job' = job /\ att' = att
    BY <1>2 DEF Record
  <2>2. PodsFit' /\ Forward
    BY <2>1, PodsStay
  <2>3. TypeOK'
    BY <1>1, <2>1 DEF TypeOK, SamePods
  <2>4. QED
    BY <2>1, <2>2, <2>3, DoneIs, OneTurns DEF VInv
<1>3. CASE Accepts(w, seen.pod)
  <2>1. /\ att' = [seen EXCEPT !.state = att.state] /\ job' = [job EXCEPT !.live = TRUE]
        /\ Turns(w, next)
    BY <1>3 DEF Record, Go, Turns
  <2>2. /\ Active /\ job.count = pc[w].no /\ att.pod \in {Unbound, seen.pod}
    BY <1>3 DEF Accepts
  <2>3. /\ job' \in JobRows /\ job'.count = job.count /\ job'.state = job.state
    BY <1>1, <2>1 DEF JobRows
  <2>4. /\ att' \in AttemptRows /\ att'.state = att.state /\ att'.pod = seen.pod
    BY <1>1, <2>1 DEF AttemptRows
  <2>5. TypeOK'
    BY <1>1, <2>2, <2>3, <2>4 DEF TypeOK, SamePods, Active
  <2>6. Forward
    BY <2>2, <2>3, <2>4 DEF SamePods, Forward
  <2>7. PodsFit'
    <3>1. seen.pod \in Posts \cup {Unbound} /\ job.state # "SUCCEEDED"
      BY <2>2 DEF AttemptRows, Active, ActiveJob
    <3>2. \A p \in Posts : p # Unbound
      BY DEF Bounded, Posts, Unbound
    <3>3. QED
      BY <1>1, <2>2, <2>3, <2>4, <3>1, <3>2 DEF PodsFit, SamePods
  <2>8. QED
    BY <1>3, <2>1, <2>5, <2>6, <2>7, OneTurns DEF VInv
<1>4. QED
  BY <1>2, <1>3

\* The end of an attempt, as a success only if its provider job was let in.
LEMMA ResolveStep ==
    ASSUME Bounded, VInv, SamePods, NEW w \in Workers, NEW from \in SUBSET ActiveJob,
           NEW to \in EndedJob, Resolve(w, from, to, to),
           to = "SUCCEEDED" /\ pc[w].no = job.count =>
                att.pod # Unbound /\ pods[att.pod].in
    PROVE  VInv'
<1>1. /\ job \in JobRows /\ att \in AttemptRows /\ TypeOK
  BY DEF VInv, TypeOK
<1>2. Done(w)
  BY DEF Resolve
<1>3. CASE job' = job /\ att' = att
  <2>1. PodsFit' /\ Forward
    BY <1>3, PodsStay
  <2>2. TypeOK'
    BY <1>1, <1>3 DEF TypeOK, SamePods
  <2>3. QED
    BY <1>2, <2>1, <2>2, DoneIs, OneTurns DEF VInv
<1>4. CASE /\ job' = [job EXCEPT !.state = to, !.live = FALSE] /\ job.count = pc[w].no
           /\ att' = [att EXCEPT !.state = to]
  <2>1. /\ job' \in JobRows /\ job'.count = job.count /\ job'.state = to /\ ~job'.live
    BY <1>1, <1>4 DEF JobRows
  <2>2. /\ att' \in AttemptRows /\ att'.state = to /\ att'.pod = att.pod
    BY <1>1, <1>4 DEF AttemptRows, EndedJob
  <2>3. TypeOK'
    BY <1>1, <2>1, <2>2 DEF TypeOK, SamePods, EndedJob, ActiveJob, ActiveAttempt
  <2>4. PodsFit' /\ Forward
    BY <1>4, <2>1, <2>2, PodsStay
  <2>5. QED
    BY <1>2, <2>3, <2>4, DoneIs, OneTurns DEF VInv
<1>5. QED
  BY <1>3, <1>4 DEF Resolve

LEMMA FailStep ==
    ASSUME Bounded, VInv, SamePods, NEW w \in Workers, Fail(w) \/ Acknowledge(w)
    PROVE  VInv'
<1>1. {"CLAIMED", "RUNNING"} \in SUBSET ActiveJob /\ {"CANCEL_REQUESTED"} \in SUBSET ActiveJob
      /\ "FAILED" \in EndedJob /\ "CANCELLED" \in EndedJob
  BY DEF ActiveJob, EndedJob
<1>2. CASE Fail(w)
  BY <1>1, <1>2, ResolveStep DEF Fail
<1>3. CASE Acknowledge(w)
  BY <1>1, <1>3, ResolveStep DEF Acknowledge
<1>4. QED
  BY <1>2, <1>3

-----------------------------------------------------------------------------
(* The cycle.                                                               *)

\* What a busy controller holds.
LEMMA Holding ==
    ASSUME VInv, NEW w \in Workers, pc[w].at \in Busy
    PROVE  /\ Seen(w) \in AttemptRows /\ pc[w].no \in 0..job.count
           /\ pc[w].no = job.count /\ Seen(w).pod # Unbound =>
                /\ Seen(w).pod = att.pod /\ pods[Seen(w).pod].at # "none"
                /\ pods[Seen(w).pod].no = job.count
  BY DEF VInv, Knows, PodsFit

\* Metadata as it was read, but for the provider job.
LEMMA NotesStep ==
    ASSUME Bounded, VInv, SamePods, NEW w \in Workers, pc[w].at \in Busy,
           NEW seen \in AttemptRows, Record(w, seen, After(w)),
           seen.pod = Seen(w).pod
    PROVE  VInv'
<1>1. pc = [v \in Workers |-> pc[v]]
  BY DEF VInv
<1>2. Turns(w, After(w)) => Knows(w)'
  BY <1>1, Ignorant DEF Turns, After
<1>3. QED
  BY <1>2, Holding, RecordStep

LEMMA PrepareStep ==
    ASSUME Bounded, VInv, NEW w \in Workers, Prepare(w)
    PROVE  VInv'
<1>1. PICK seen : seen = [Seen(w) EXCEPT !.sub = "prepared"]
  OBVIOUS
<1>2. pc[w].at \in Busy
  BY DEF Prepare, At, Free, Busy
<1>3. seen \in AttemptRows /\ seen.pod = Seen(w).pod
  BY <1>1, <1>2, Holding DEF AttemptRows
<1>4. Record(w, seen, After(w)) /\ SamePods
  BY <1>1, UnchangedPods DEF Prepare
<1>5. QED
  BY <1>2, <1>3, <1>4, NotesStep

LEMMA StartSubmitStep ==
    ASSUME Bounded, VInv, NEW w \in Workers, StartSubmit(w)
    PROVE  VInv'
<1>1. PICK seen : seen = [Seen(w) EXCEPT !.sub = "submitting"]
  OBVIOUS
<1>2. PICK next : next = [at |-> "post", no |-> pc[w].no, seen |-> seen]
  OBVIOUS
<1>3. pc[w].at \in Busy /\ Seen(w).pod = Unbound
  BY DEF StartSubmit, At, Free, Busy
<1>4. seen \in AttemptRows /\ seen.pod = Unbound /\ pc[w].no \in 0..job.count
  BY <1>1, <1>3, Holding DEF AttemptRows
<1>5. Record(w, seen, next) /\ SamePods
  BY <1>1, <1>2, UnchangedPods DEF StartSubmit
<1>6. Turns(w, next) /\ Forward => Knows(w)'
  <2>1. SUFFICES ASSUME Turns(w, next), Forward PROVE Knows(w)'
    OBVIOUS
  <2>2. pc'[w] = next /\ job'.count = job.count
    BY <2>1 DEF Turns, Forward, VInv
  <2>3. QED
    BY <1>2, <1>4, <2>2 DEF Knows, Seen
<1>7. QED
  BY <1>4, <1>5, <1>6, RecordStep

LEMMA AcceptedStep ==
    ASSUME Bounded, VInv, NEW w \in Workers, Accepted(w)
    PROVE  VInv'
<1>1. PICK seen : seen = [Seen(w) EXCEPT !.pod = pc[w].pod, !.sub =
              IF pods[pc[w].pod].at = "IN_PROGRESS" THEN "running" ELSE "submitted"]
  OBVIOUS
<1>2. pc[w].at = "posted" /\ pc[w].pod \in Posts
  BY DEF Accepted, Posted, At
<1>3. /\ pods[pc[w].pod].at # "none" /\ pods[pc[w].pod].no = pc[w].no
      /\ pc = [v \in Workers |-> pc[v]]
  <2>1. pc[w].pod # Unbound
    BY <1>2 DEF Bounded, Posts, Unbound
  <2>2. QED
    BY <1>2, <2>1 DEF VInv, Knows
<1>4. seen \in AttemptRows /\ seen.pod = pc[w].pod
  BY <1>1, <1>2, Holding DEF AttemptRows, Busy
<1>5. Record(w, seen, After(w)) /\ SamePods
  BY <1>1, UnchangedPods DEF Accepted
<1>6. Turns(w, After(w)) => Knows(w)'
  BY <1>3, Ignorant DEF Turns, After
<1>7. QED
  BY <1>3, <1>4, <1>5, <1>6, RecordStep

LEMMA RateLimitedStep ==
    ASSUME Bounded, VInv, NEW w \in Workers, RateLimited(w) \/ Uncertain(w)
    PROVE  VInv'
<1>1. PICK sub \in {"prepared", "unknown"} :
            Record(w, [Seen(w) EXCEPT !.sub = sub], After(w)) /\ pods' = pods
  BY DEF RateLimited, Uncertain
<1>s. PICK seen : seen = [Seen(w) EXCEPT !.sub = sub]
  OBVIOUS
<1>2. pc[w].at \in Busy
  BY DEF RateLimited, Uncertain, Posted, At, Busy
<1>3. seen \in AttemptRows /\ seen.pod = Seen(w).pod
  BY <1>s, <1>2, Holding DEF AttemptRows
<1>4. QED
  BY <1>1, <1>s, <1>2, <1>3, UnchangedPods, NotesStep

LEMMA FailingStep ==
    ASSUME Bounded, VInv, NEW w \in Workers,
           Rejected(w) \/ UnboundCancel(w) \/ QueueTimeout(w)
    PROVE  VInv'
<1>1. SamePods /\ (Fail(w) \/ Acknowledge(w))
  BY UnchangedPods DEF Rejected, UnboundCancel, QueueTimeout
<1>2. QED
  BY <1>1, FailStep

\* The look at a provider job. What it finds complete was let in.
LEMMA GetStep ==
    ASSUME Bounded, VInv, NEW w \in Workers, Get(w)
    PROVE  VInv'
<1>1. /\ pc[w].at = "read" /\ Seen(w).pod # Unbound /\ UNCHANGED <<job, att, late, pods, world>>
      /\ pc[w].at \in Busy
  BY DEF Get, Bound, At, Busy
<1>2. PICK next : next = [at |-> "got", no |-> pc[w].no, late |-> pc[w].late,
                         cancel |-> pc[w].cancel, remote |-> pods[Seen(w).pod].at,
                         seen |-> IF pods[Seen(w).pod].at \in Stopped THEN NewAttempt
                                  ELSE Seen(w)]
  OBVIOUS
<1>3. Turns(w, next) /\ pc'[w] = next
  BY <1>2 DEF Get, Go, Turns, VInv
<1>4. PodsFit' /\ Forward /\ TypeOK'
  BY <1>1, PodsStay, UnchangedPods DEF VInv, TypeOK
<1>5. /\ Seen(w) \in AttemptRows /\ pc[w].no \in 0..job.count
      /\ pc[w].no = job.count => Seen(w).pod = att.pod
  BY <1>1, Holding
<1>6. NewAttempt \in AttemptRows /\ NewAttempt.pod = Unbound
  BY DEF NewAttempt, AttemptRows, ActiveAttempt
<1>7. pc[w].no = job.count /\ pods[Seen(w).pod].at = "COMPLETED" =>
        att.pod # Unbound /\ pods[att.pod].in
  BY <1>1, <1>5 DEF VInv, PodsFit, AttemptRows
<1>8. Knows(w)'
  <2>1. /\ next.at = "got" /\ next.no = pc[w].no /\ next.seen \in AttemptRows
        /\ next.seen.pod # Unbound => next.seen.pod = Seen(w).pod
        /\ next.remote = pods[Seen(w).pod].at
        /\ next.remote \notin Stopped => next.seen = Seen(w)
    BY <1>2, <1>5, <1>6
  <2>2. QED
    BY <1>1, <1>3, <1>5, <1>7, <2>1 DEF Knows, Seen
<1>9. QED
  BY <1>3, <1>4, <1>8, OneTurns DEF VInv

LEMMA MissingStep ==
    ASSUME Bounded, VInv, NEW w \in Workers, Missing(w)
    PROVE  VInv'
<1>1. SamePods
  BY UnchangedPods DEF Missing
<1>2. CASE Fail(w) \/ Acknowledge(w)
  BY <1>1, <1>2, FailStep
<1>3. CASE Record(w, [Seen(w) EXCEPT !.absent = "fresh"], After(w)) /\ pc[w].at \in Busy
  <2>1. PICK seen : seen = [Seen(w) EXCEPT !.absent = "fresh"]
    OBVIOUS
  <2>2. seen \in AttemptRows /\ seen.pod = Seen(w).pod
    BY <1>3, <2>1, Holding DEF AttemptRows
  <2>3. QED
    BY <1>1, <1>3, <2>1, <2>2, NotesStep
<1>4. QED
  BY <1>2, <1>3 DEF Missing, Got, At, Busy

\* The provider is asked to stop a job; nothing else of the job changes.
LEMMA StopIs ==
    ASSUME VInv, NEW w \in Workers, Stop(w)
    PROVE  SamePods
<1>1. pods \in [Posts -> Pods] /\ \A p \in Posts : pods[p].at = "COMPLETED" => pods[p].in
  BY DEF VInv, TypeOK, PodsFit
<1>2. PICK q : q = Seen(w).pod
  OBVIOUS
<1>3. pods' = [pods EXCEPT ![q].stop = TRUE]
  BY <1>2 DEF Stop
<1>4. /\ pods' \in [Posts -> Pods]
      /\ \A p \in Posts : /\ pods'[p].at = pods[p].at /\ pods'[p].no = pods[p].no
                          /\ pods'[p].in = pods[p].in
  BY <1>1, <1>3 DEF Pods
<1>5. QED
  BY <1>1, <1>4 DEF SamePods

LEMMA CancelPodStep ==
    ASSUME Bounded, VInv, NEW w \in Workers, CancelPod(w)
    PROVE  VInv'
<1>1. SamePods /\ pc[w].at \in Busy
  BY StopIs DEF CancelPod, Runaway, Bound, Ends, Evicts, Got, At, Busy
<1>2. CASE Fail(w)
  BY <1>1, <1>2, FailStep
<1>3. CASE Record(w, [Seen(w) EXCEPT !.ended = TRUE], After(w))
  <2>1. PICK seen : seen = [Seen(w) EXCEPT !.ended = TRUE]
    OBVIOUS
  <2>2. seen \in AttemptRows /\ seen.pod = Seen(w).pod
    BY <1>1, <2>1, Holding DEF AttemptRows
  <2>3. QED
    BY <1>1, <1>3, <2>1, <2>2, NotesStep
<1>4. CASE Record(w, [Seen(w) EXCEPT !.evicted = TRUE], After(w))
  <2>1. PICK seen : seen = [Seen(w) EXCEPT !.evicted = TRUE]
    OBVIOUS
  <2>2. seen \in AttemptRows /\ seen.pod = Seen(w).pod
    BY <1>1, <2>1, Holding DEF AttemptRows
  <2>3. QED
    BY <1>1, <1>4, <2>1, <2>2, NotesStep
<1>5. QED
  BY <1>2, <1>3, <1>4 DEF CancelPod

LEMMA ObserveStep ==
    ASSUME Bounded, VInv, NEW w \in Workers, Observe(w)
    PROVE  VInv'
<1>1. PICK seen : seen = [Seen(w) EXCEPT !.sub =
           IF pc[w].remote = "IN_PROGRESS" THEN "running" ELSE "submitted"]
  OBVIOUS
<1>2. pc[w].at \in Busy
  BY DEF Observe, Got, At, Busy
<1>3. seen \in AttemptRows /\ seen.pod = Seen(w).pod
  BY <1>1, <1>2, Holding DEF AttemptRows
<1>4. Record(w, seen, After(w)) /\ SamePods
  BY <1>1, UnchangedPods DEF Observe
<1>5. QED
  BY <1>2, <1>3, <1>4, NotesStep

\* A start replaces the metadata; it was read with the same provider job.
LEMMA StartStep ==
    ASSUME Bounded, VInv, NEW w \in Workers, Start(w)
    PROVE  VInv'
<1>1. /\ Done(w) /\ SamePods /\ pc[w].at \in Busy
      /\ job \in JobRows /\ att \in AttemptRows /\ TypeOK
  BY UnchangedPods DEF Start, Got, At, Busy, VInv, TypeOK
<1>2. CASE job' = job /\ att' = att
  <2>1. PodsFit' /\ Forward
    BY <1>1, <1>2, PodsStay
  <2>2. TypeOK'
    BY <1>1, <1>2 DEF TypeOK, SamePods
  <2>3. QED
    BY <1>1, <2>1, <2>2, DoneIs, OneTurns DEF VInv
<1>3. CASE /\ job.state = "CLAIMED" /\ job.count = pc[w].no /\ att.state = "CREATED"
           /\ job' = [job EXCEPT !.state = "RUNNING"]
           /\ att' = [Seen(w) EXCEPT !.state = "RUNNING", !.sub = "running"]
           /\ Seen(w).pod # Unbound
  <2>1. Seen(w) \in AttemptRows /\ Seen(w).pod = att.pod
    BY <1>1, <1>3, Holding
  <2>2. /\ job' \in JobRows /\ job'.count = job.count /\ job'.state = "RUNNING"
    BY <1>1, <1>3 DEF JobRows, ActiveJob
  <2>3. /\ att' \in AttemptRows /\ att'.state = "RUNNING" /\ att'.pod = att.pod
    BY <1>3, <2>1 DEF AttemptRows, ActiveAttempt
  <2>4. TypeOK'
    BY <1>1, <2>2, <2>3 DEF TypeOK, SamePods, ActiveJob, ActiveAttempt
  <2>5. PodsFit' /\ Forward
    BY <1>1, <2>2, <2>3, PodsStay
  <2>6. QED
    BY <1>1, <2>4, <2>5, DoneIs, OneTurns DEF VInv
<1>4. QED
  BY <1>2, <1>3 DEF Start, Got, At, VInv, Knows, Stopped

LEMMA FinishStep ==
    ASSUME Bounded, VInv, NEW w \in Workers, Finish(w)
    PROVE  VInv'
<1>1. SamePods
  BY UnchangedPods DEF Finish
<1>2. CASE Fail(w) \/ Acknowledge(w)
  BY <1>1, <1>2, FailStep
<1>3. CASE Got(w, {"COMPLETED"}, FALSE) /\ Complete(w)
  <2>1. /\ {"CLAIMED", "RUNNING"} \in SUBSET ActiveJob /\ "SUCCEEDED" \in EndedJob
        /\ Resolve(w, {"CLAIMED", "RUNNING"}, "SUCCEEDED", "SUCCEEDED")
    BY <1>3 DEF ActiveJob, EndedJob, Complete
  <2>2. pc[w].no = job.count => att.pod # Unbound /\ pods[att.pod].in
    BY <1>3 DEF Got, At, VInv, Knows
  <2>3. QED
    BY <1>1, <2>1, <2>2, ResolveStep
<1>4. QED
  BY <1>2, <1>3 DEF Finish

\* A claim makes an attempt of which nothing is known yet.
LEMMA VideoClaimStep ==
    ASSUME Bounded, VInv, NEW w \in Workers, Claim(w)
    PROVE  VInv'
<1>1. PICK next : next = [at |-> "claimed", no |-> job.count + 1, seen |-> NewAttempt]
  OBVIOUS
<1>2. /\ TypeOK /\ PodsFit /\ job \in JobRows /\ job.count \in 0..MaxAttempts
      /\ job.count + 1 \in 0..MaxAttempts /\ job.count \in Nat
      /\ pods \in [Posts -> Pods] /\ \A p \in Posts : pods[p].no \in Nat
  BY DEF VInv, TypeOK, JobRows, Claim, Bounded, Pods
<1>3. /\ job' = [state |-> "CLAIMED", count |-> job.count + 1, live |-> TRUE]
      /\ att' = NewAttempt /\ pods' = pods /\ pc' = [pc EXCEPT ![w] = next]
  BY <1>1 DEF Claim, Go
<1>4. /\ NewAttempt \in AttemptRows /\ NewAttempt.pod = Unbound
      /\ NewAttempt.state = "CREATED"
  BY DEF NewAttempt, AttemptRows, ActiveAttempt
<1>5. TypeOK'
  BY <1>2, <1>3, <1>4 DEF TypeOK, JobRows, ActiveJob, ActiveAttempt
<1>6. PodsFit'
  BY <1>2, <1>3, <1>4 DEF PodsFit
<1>7. /\ pc' = [v \in Workers |-> pc'[v]] /\ pc'[w] = next
      /\ \A v \in Workers \ {w} : pc'[v] = pc[v]
  BY <1>3 DEF VInv
<1>8. Knows(w)'
  BY <1>1, <1>2, <1>3, <1>4, <1>7 DEF Knows, Seen
<1>9. ASSUME NEW v \in Workers \ {w} PROVE Knows(v)'
  <2>1. Knows(v) /\ pc'[v] = pc[v] /\ job'.count = job.count + 1
    BY <1>3, <1>7 DEF VInv
  <2>2. pc[v].at \in Busy => pc[v].no \in 0..job'.count /\ pc[v].no # job'.count
    BY <1>2, <2>1 DEF Knows
  <2>3. QED
    BY <1>3, <2>1, <2>2 DEF Knows, Seen, Busy
<1>10. QED
  BY <1>5, <1>6, <1>7, <1>8, <1>9 DEF VInv

\* A step that moves controllers and clocks only.
LEMMA QuietStep ==
    ASSUME Bounded, VInv, NEW w \in Workers, NEW next, Turns(w, next), SamePods,
           job' = job, att' = att, Forward => Knows(w)'
    PROVE  VInv'
<1>1. PodsFit' /\ Forward
  BY PodsStay
<1>2. TypeOK'
  BY DEF VInv, TypeOK, SamePods
<1>3. QED
  BY <1>1, <1>2, OneTurns DEF VInv

LEMMA ReadStep ==
    ASSUME Bounded, VInv, NEW w \in Workers, Read(w)
    PROVE  VInv'
<1>1. PICK next : next = [at |-> "read", no |-> job.count, seen |-> att, late |-> late,
                         cancel |-> job.state = "CANCEL_REQUESTED"]
  OBVIOUS
<1>2. /\ Turns(w, next) /\ pc'[w] = next /\ job' = job /\ att' = att /\ SamePods
  BY <1>1, UnchangedPods DEF Read, Go, Turns, VInv
<1>3. next.at = "read" /\ next.no = job.count /\ next.seen = att
  BY <1>1
<1>4. Knows(w)'
  BY <1>2, <1>3 DEF Knows, Seen, VInv, TypeOK, JobRows
<1>5. QED
  BY <1>2, <1>4, QuietStep

LEMMA EndsStep ==
    ASSUME Bounded, VInv, NEW w \in Workers, Restart(w) \/ Aborts(w) \/ Unresolved(w)
    PROVE  VInv'
<1>1. pc = [v \in Workers |-> pc[v]]
  BY DEF VInv
<1>2. CASE Restart(w)
  BY <1>2, UnchangedPods, DoneIs, QuietStep DEF Restart
<1>3. CASE Aborts(w)
  <2>1. PICK next \in {Left, Down} : pc' = [pc EXCEPT ![w] = next]
    BY <1>3 DEF Aborts, Go
  <2>2. Turns(w, next) /\ Knows(w)'
    BY <1>1, <2>1, Ignorant DEF Turns
  <2>3. SamePods /\ job' = job /\ att' = att
    BY <1>3, UnchangedPods, StopIs DEF Aborts
  <2>4. QED
    BY <2>2, <2>3, QuietStep
<1>4. CASE Unresolved(w)
  <2>1. SamePods
    BY <1>4, UnchangedPods DEF Unresolved
  <2>2. CASE Fail(w)
    BY <2>1, <2>2, FailStep
  <2>3. CASE Done(w) /\ job' = job /\ att' = att
    BY <2>1, <2>3, DoneIs, QuietStep
  <2>4. QED
    BY <1>4, <2>2, <2>3 DEF Unresolved
<1>5. QED
  BY <1>2, <1>3, <1>4

\* A request makes a provider job that no row names yet.
LEMMA PostStep ==
    ASSUME Bounded, VInv, NEW w \in Workers, Post(w)
    PROVE  VInv'
<1>1. /\ pc[w].at = "post" /\ pc[w].at \in Busy /\ job' = job /\ att' = att
      /\ TypeOK /\ PodsFit /\ pods \in [Posts -> Pods]
  BY DEF Post, At, Busy, VInv, TypeOK
<1>2. /\ Seen(w) \in AttemptRows /\ pc[w].no \in 0..job.count /\ job.count \in 0..MaxAttempts
      /\ pc[w].no = job.count /\ Seen(w).pod # Unbound => Seen(w).pod = att.pod
  BY <1>1, Holding DEF TypeOK, JobRows
<1>3. PICK p \in Posts \cup {Unbound} :
            /\ p # Unbound => pods[p].at = "none"
            /\ pods' = [q \in Posts |-> IF q # p THEN pods[q] ELSE
                            [NoPod EXCEPT !.at = "IN_QUEUE", !.no = pc[w].no]]
            /\ Go(w, [at |-> "posted", no |-> pc[w].no, seen |-> Seen(w), pod |-> p])
  BY DEF Post
<1>4. PICK next : next = [at |-> "posted", no |-> pc[w].no, seen |-> Seen(w), pod |-> p]
  OBVIOUS
<1>5. PICK new : new = [NoPod EXCEPT !.at = "IN_QUEUE", !.no = pc[w].no]
  OBVIOUS
<1>6. /\ new \in Pods /\ new.at = "IN_QUEUE" /\ new.no = pc[w].no /\ ~new.in
  <2>1. new = [at |-> "IN_QUEUE", no |-> pc[w].no, in |-> FALSE, stop |-> FALSE]
    BY <1>5 DEF NoPod
  <2>2. pc[w].no \in 0..MaxAttempts
    BY <1>2 DEF Bounded
  <2>3. QED
    BY <2>1, <2>2 DEF Pods, Waiting
<1>7. /\ pods' \in [Posts -> Pods] /\ \A q \in Posts \ {p} : pods'[q] = pods[q]
      /\ p # Unbound => pods'[p] = new
  BY <1>1, <1>3, <1>5, <1>6
<1>8. Turns(w, next) /\ pc'[w] = next
  BY <1>3, <1>4 DEF Go, Turns, VInv
<1>9. TypeOK'
  BY <1>1, <1>7 DEF TypeOK
<1>10. \A q \in Posts : q # Unbound
  BY DEF Bounded, Posts, Unbound
<1>11. att.pod # p \/ att.pod = Unbound
  BY <1>1, <1>3 DEF PodsFit
<1>12. Forward
  BY <1>1, <1>3, <1>7, <1>10 DEF Forward
<1>13. PodsFit'
  <2>1. att.pod \in Posts \cup {Unbound}
    BY <1>1 DEF TypeOK, AttemptRows
  <2>2. \A q \in Posts : pods'[q] = pods[q] \/ (pods'[q] = new /\ q = p)
    BY <1>7, <1>10
  <2>3. \A q \in Posts :
        /\ pods'[q].no <= job.count
        /\ pods'[q].in => pods'[q] = pods[q]
        /\ pods'[q].at = "COMPLETED" => pods'[q] = pods[q]
    BY <1>1, <1>2, <1>6, <2>2 DEF PodsFit
  <2>4. att.pod # Unbound => pods'[att.pod] = pods[att.pod]
    BY <1>7, <1>11, <2>1
  <2>5. QED
    BY <1>1, <2>3, <2>4 DEF PodsFit
<1>14. Knows(w)'
  <2>1. next.at = "posted" /\ next.no = pc[w].no /\ next.seen = Seen(w) /\ next.pod = p
    BY <1>4
  <2>2. QED
    BY <1>1, <1>2, <1>6, <1>7, <1>8, <2>1 DEF Knows, Seen
<1>15. QED
  BY <1>8, <1>9, <1>12, <1>13, <1>14, OneTurns DEF VInv

-----------------------------------------------------------------------------
(* RunPod, the owner, and time. No controller moves.                        *)

LEMMA Bystanders ==
    ASSUME VInv, Forward, pc' = pc
    PROVE  pc' = [v \in Workers |-> pc'[v]] /\ \A v \in Workers : Knows(v)'
  BY KnowsStays DEF VInv

\* The rows stay, but for a state or a note.
LEMMA OutsideStep ==
    ASSUME Bounded, VInv, SamePods, pc' = pc, TypeOK', job'.count = job.count,
           att'.pod = att.pod, job'.state = "SUCCEEDED" => job.state = "SUCCEEDED"
    PROVE  VInv'
<1>1. PodsFit' /\ Forward
  BY PodsStay
<1>2. QED
  BY <1>1, Bystanders DEF VInv

LEMMA PodsStep ==
    ASSUME Bounded, VInv, SamePods, pc' = pc, job' = job, att' = att
    PROVE  VInv'
<1>1. TypeOK'
  BY DEF VInv, TypeOK, SamePods
<1>2. QED
  BY <1>1, OutsideStep

LEMMA ProviderStep ==
    ASSUME Bounded, VInv, NEW p \in Posts,
           WorkerStarts(p) \/ PodEnds(p) \/ PodStops(p) \/ Forget(p)
    PROVE  VInv'
<1>1. pc' = pc /\ job' = job /\ att' = att
  BY DEF WorkerStarts, PodEnds, PodStops, Forget, PodStep
<1>2. PICK next \in {"gone"} \cup Waiting \cup Stopped :
            /\ pods' = [pods EXCEPT ![p].at = next] /\ pods[p].at # "none"
            /\ next = "COMPLETED" => pods[p].in
  BY DEF WorkerStarts, PodEnds, PodStops, Forget, PodStep, Waiting, Stopped
<1>3. QED
  BY <1>1, <1>2, PodMoves, PodsStep

\* A worker that is let in is the one that the row names from then on.
LEMMA WorkerClaimsStep ==
    ASSUME Bounded, VInv, NEW p \in Posts, WorkerClaims(p)
    PROVE  VInv'
<1>1. /\ pc' = pc /\ TypeOK /\ PodsFit /\ pods \in [Posts -> Pods]
      /\ pods[p].at = "IN_PROGRESS" /\ ~pods[p].in
      /\ job \in JobRows /\ att \in AttemptRows
  BY DEF WorkerClaims, VInv, TypeOK
<1>2. CASE ~LetsIn(p)
  <2>1. pods' = [pods EXCEPT ![p].at = "FAILED"] /\ job' = job /\ att' = att
    BY <1>2 DEF WorkerClaims
  <2>2. SamePods
    BY <1>1, <2>1, PodMoves, "FAILED" \in {"gone"} \cup Waiting \cup Stopped DEF Stopped
  <2>3. QED
    BY <1>1, <2>1, <2>2, PodsStep
<1>3. CASE LetsIn(p)
  <2>1. /\ Active /\ job.count = pods[p].no /\ att.pod \in {Unbound, p}
        /\ att' = [att EXCEPT !.pod = p, !.sub =
                          IF @ = "running" THEN @ ELSE "submitted"]
        /\ job' = [job EXCEPT !.live = TRUE]
    BY <1>3 DEF WorkerClaims, LetsIn
  <2>2. /\ att' \in AttemptRows /\ att'.pod = p /\ att'.state = att.state
    BY <1>1, <2>1 DEF AttemptRows
  <2>3. /\ job' \in JobRows /\ job'.count = job.count /\ job'.state = job.state
    BY <1>1, <2>1 DEF JobRows
  <2>4. /\ pods' \in [Posts -> Pods] /\ \A q \in Posts \ {p} : pods'[q] = pods[q]
        /\ pods'[p].no = pods[p].no /\ pods'[p].at \in {"IN_PROGRESS", "FAILED"}
    <3>1. CASE pods' = [pods EXCEPT ![p].in = TRUE]
      BY <1>1, <3>1 DEF Pods, Waiting
    <3>2. CASE pods' = [pods EXCEPT ![p].at = "FAILED"]
      BY <1>1, <3>2 DEF Pods, Stopped
    <3>3. QED
      BY <3>1, <3>2 DEF WorkerClaims
  <2>5. TypeOK'
    BY <1>1, <2>1, <2>2, <2>3, <2>4 DEF TypeOK, Active
  <2>6. Forward
    BY <1>1, <2>1, <2>2, <2>3, <2>4 DEF Forward
  <2>7. PodsFit'
    <3>1. job.state # "SUCCEEDED" /\ \A q \in Posts : q # Unbound
      BY <2>1 DEF Active, ActiveJob, Bounded, Posts, Unbound
    <3>2. QED
      BY <1>1, <2>1, <2>2, <2>3, <2>4, <3>1 DEF PodsFit
  <2>8. QED
    BY <1>1, <2>5, <2>6, <2>7, Bystanders DEF VInv
<1>4. QED
  BY <1>2, <1>3

LEMMA OwnerStep ==
    ASSUME Bounded, VInv, Cancel \/ Retry
    PROVE  VInv'
<1>1. /\ pc' = pc /\ att' = att /\ pods' = pods /\ TypeOK /\ job \in JobRows
  BY DEF Cancel, Retry, VInv, TypeOK
<1>2. PICK state \in {"CANCELLED", "CANCEL_REQUESTED", "QUEUED"} :
            /\ job' = [job EXCEPT !.state = state] \/ job' = [job EXCEPT !.state = state,
                                                                       !.live = FALSE]
            /\ state \in ActiveJob <=> job.state \in ActiveJob
  <2>1. CASE Cancel
    BY <2>1 DEF Cancel, ActiveJob
  <2>2. CASE Retry
    BY <2>2 DEF Retry, ActiveJob
  <2>3. QED
    BY <2>1, <2>2
<1>3. /\ job' \in JobRows /\ job'.count = job.count /\ job'.state = state
      /\ job'.live => job.live
  BY <1>1, <1>2 DEF JobRows, ActiveJob, EndedJob
<1>4. TypeOK'
  BY <1>1, <1>2, <1>3 DEF TypeOK
<1>5. QED
  BY <1>1, <1>3, <1>4, UnchangedPods, OutsideStep

LEMMA TimeStep ==
    ASSUME Bounded, VInv, Elapse \/ GraceElapses \/ LeaseExpires
    PROVE  VInv'
<1>1. /\ pc' = pc /\ pods' = pods /\ TypeOK /\ job \in JobRows /\ att \in AttemptRows
  BY DEF Elapse, GraceElapses, LeaseExpires, VInv, TypeOK
<1>2. /\ job' \in JobRows /\ job'.count = job.count /\ job'.state = job.state
      /\ job'.live => job.live
  BY <1>1 DEF JobRows, Elapse, GraceElapses, LeaseExpires
<1>3. /\ att' \in AttemptRows /\ att'.pod = att.pod /\ att'.state = att.state
  BY <1>1 DEF AttemptRows, Elapse, GraceElapses, LeaseExpires
<1>4. TypeOK'
  BY <1>1, <1>2, <1>3 DEF TypeOK
<1>5. QED
  BY <1>1, <1>2, <1>3, <1>4, UnchangedPods, OutsideStep

-----------------------------------------------------------------------------
(* The theorems.                                                            *)

LEMMA InitVInv == ASSUME Bounded, Init PROVE VInv
<1>1. /\ att = [NewAttempt EXCEPT !.state = "FAILED"]
      /\ att \in AttemptRows /\ att.pod = Unbound /\ att.state = "FAILED"
  BY DEF Init, NewAttempt, AttemptRows, EndedJob
<1>2. /\ job \in JobRows /\ job.count = 0 /\ job.state = "QUEUED" /\ ~job.live
  BY DEF Init, JobRows, Bounded
<1>3. /\ pods \in [Posts -> Pods]
      /\ \A p \in Posts : pods[p].at = "none" /\ pods[p].no = 0 /\ ~pods[p].in
  BY DEF Init, NoPod, Pods, Bounded
<1>4. /\ pc = [w \in Workers |-> pc[w]] /\ \A w \in Workers : pc[w] \in {Idle, Left}
  BY DEF Init
<1>5. TypeOK
  BY <1>1, <1>2, <1>3 DEF TypeOK, ActiveJob, ActiveAttempt
<1>6. PodsFit
  BY <1>1, <1>2, <1>3 DEF PodsFit
<1>7. \A w \in Workers : Knows(w)
  <2>1. Idle.at = "idle" /\ Left.at = "left"
    BY DEF Idle, Left
  <2>2. QED
    BY <1>4, <2>1 DEF Knows, Busy
<1>8. QED
  BY <1>4, <1>5, <1>6, <1>7 DEF VInv

LEMMA NextVInv == ASSUME Bounded, VInv, [Next]_vars PROVE VInv'
<1>1. CASE UNCHANGED vars
  BY <1>1, UnchangedPods, PodsStep DEF vars
<1>2. ASSUME NEW w \in Workers, Cycle(w) \/ Aborts(w) PROVE VInv'
  BY <1>2, VideoClaimStep, ReadStep, PrepareStep, StartSubmitStep, PostStep, AcceptedStep,
     RateLimitedStep, FailingStep, EndsStep, GetStep, MissingStep, CancelPodStep,
     ObserveStep, StartStep, FinishStep DEF Cycle
<1>3. ASSUME NEW p \in Posts,
             \/ WorkerStarts(p) \/ WorkerClaims(p) \/ PodEnds(p)
             \/ PodStops(p) \/ Forget(p)
      PROVE  VInv'
  BY <1>3, ProviderStep, WorkerClaimsStep
<1>4. CASE Cancel \/ Retry \/ Elapse \/ GraceElapses \/ LeaseExpires
  BY <1>4, OwnerStep, TimeStep
<1>5. QED
  BY <1>1, <1>2, <1>3, <1>4 DEF Next

\* Rows, provider and controllers agree, whatever becomes of requests, answers
\* and leases (i2v_runpod_runtime.py).
THEOREM VideosAgree == ASSUME Bounded PROVE Spec => []VInv
<1>1. Init => VInv
  BY InitVInv
<1>2. VInv /\ [Next]_vars => VInv'
  BY NextVInv
<1>3. QED
  BY <1>1, <1>2, PTL DEF Spec

\* The rows keep their shape, and a job is active while its attempt is (i2v.py).
THEOREM VideoTyping == ASSUME Bounded PROVE Spec => []TypeOK
<1>1. VInv => TypeOK
  BY DEF VInv
<1>2. QED
  BY <1>1, VideosAgree, PTL

\* One provider job works for an attempt, and the output is its output
\* (bind_i2v_runpod_execution).
THEOREM ExecutionIsUnique == ASSUME Bounded PROVE Spec => []OneExecution
<1>1. VInv => OneExecution
  BY DEF VInv, PodsFit, OneExecution
<1>2. QED
  BY <1>1, VideosAgree, PTL

-----------------------------------------------------------------------------
(* MasterIntake: the inductive invariant. The rows keep their shape, and a  *)
(* collector or builder that acts on an upload knows its output and key.    *)

Callers == {"build", "scan", "collect"}
\* What a verification does with an upload, and how it ends.
Reads == {"verify", "inspect", "promote", "mark", "reject", "lost", "release",
          "clean", "tidy"}
Outcomes == {"done", "missing", "busy", "quarantined"}

VerifierRows == [at : Reads, o : Outputs, key : Keys \cup {AnyKey}, for : Callers,
                 image : Images \cup {Empty}]
OutcomeRows == [at : Outcomes, o : Outputs, for : Callers]
FenceRows == [at : {"fence"}, n : 0..Cardinality(Outputs)]
AbsentRows == [at : {"absent"}, o : Outputs]

\* What a controller may hold between two of its steps.
ActorFits(w, p) ==
    \/ p = Resting
    \/ p = [at |-> "build"] /\ w = Builder
    \/ p \in {[at |-> "scan"], [at |-> "claim"]} /\ w \in Collectors
    \/ p \in FenceRows \cup AbsentRows /\ w \in Collectors
    \/ /\ p \in VerifierRows \cup OutcomeRows
       /\ p.for = "build" <=> w = Builder
       /\ p.at \in Reads \ {"verify"} => p.key # AnyKey
       /\ p.at \in {"promote", "mark"} => p.image # Empty

\* An output's row, and its uploads: they are at the key that the row names, or
\* at one it named before, and until the output has its master there is only one.
OutputFits(a, uploads) ==
    /\ a \in AssetRows
    /\ a.state = "VERIFYING" <=> a.owner # Nobody
    /\ a.state = "AVAILABLE" <=> a.image # Empty
    /\ a.state = "none" <=> a.key = AnyKey
    /\ a.state \in {"UPLOADING", "VERIFYING"} => a.key = 1
    /\ uploads \in [Keys -> Images \cup {Bad, Empty}]
    /\ \A k \in Keys : uploads[k] # Empty => k <= a.key

JobFits(j) == j \in GenJobRows /\ (j.state = "VERIFYING" <=> j.owner # Nobody)
StopFits(s) == s \in [state : {"none", "requested", "settled"},
                      counted : 0..Cardinality(Outputs)]

MInv ==
    /\ JobFits(genJob) /\ StopFits(stop) /\ overdue \in BOOLEAN
    /\ asset = [o \in Outputs |-> asset[o]] /\ staged = [o \in Outputs |-> staged[o]]
    /\ \A o \in Outputs : OutputFits(asset[o], staged[o])
    /\ actor = [w \in Processes |-> actor[w]]
    /\ \A w \in Processes : ActorFits(w, actor[w])

-----------------------------------------------------------------------------
(* What a step has to show, part by part.                                   *)

\* A master that is available, or quarantined, stays what it is.
StaysFinal(a, b) ==
    a.state \in {"AVAILABLE", "QUARANTINED"} => b.state = a.state /\ b.image = a.image

AssetsKept ==
    /\ asset' = [o \in Outputs |-> asset'[o]] /\ staged' = [o \in Outputs |-> staged'[o]]
    /\ \A o \in Outputs : /\ OutputFits(asset'[o], staged'[o])
                          /\ StaysFinal(asset[o], asset'[o])
JobKept == JobFits(genJob') /\ StopFits(stop') /\ overdue' \in BOOLEAN
ActorsKept == /\ actor' = [w \in Processes |-> actor'[w]]
              /\ \A w \in Processes : ActorFits(w, actor'[w])
Kept == AssetsKept /\ JobKept /\ ActorsKept

LEMMA KeptIsEnough == ASSUME Kept PROVE MInv'
BY DEF Kept, AssetsKept, JobKept, ActorsKept, MInv

LEMMA AssetsSame == ASSUME MInv, UNCHANGED <<asset, staged>> PROVE AssetsKept
BY DEF MInv, AssetsKept, StaysFinal

LEMMA JobSame == ASSUME MInv, UNCHANGED <<genJob, stop, overdue>> PROVE JobKept
BY DEF MInv, JobKept

LEMMA ActorsSame == ASSUME MInv, UNCHANGED actor PROVE ActorsKept
BY DEF MInv, ActorsKept

LEMMA OneAsset ==
    ASSUME MInv, NEW o \in Outputs, NEW a, OutputFits(a, staged[o]),
           StaysFinal(asset[o], a), asset' = [asset EXCEPT ![o] = a], staged' = staged
    PROVE  AssetsKept
BY DEF MInv, AssetsKept, StaysFinal

LEMMA OneUpload ==
    ASSUME MInv, NEW o \in Outputs, NEW u, OutputFits(asset[o], u),
           staged' = [staged EXCEPT ![o] = u], asset' = asset
    PROVE  AssetsKept
BY DEF MInv, AssetsKept, StaysFinal

LEMMA OneActor ==
    ASSUME MInv, NEW w \in Processes, NEW p, ActorFits(w, p), Becomes(w, p)
    PROVE  ActorsKept
BY DEF MInv, ActorsKept, Becomes

LEMMA JobMoved ==
    ASSUME MInv, NEW s \in {"WAITING", "SUBMITTING", "RUNNING", "COLLECTING"} \cup EndedGenJob,
           JobMoves(s) \/ genJob' = genJob, UNCHANGED <<stop, overdue>>
    PROVE  JobKept
<1>1. CASE JobMoves(s)
  <2>1. genJob' \in GenJobRows
    BY <1>1 DEF JobMoves, GenJobRows, ProgressiveJob, EndedGenJob
  <2>2. genJob'.state # "VERIFYING" /\ genJob'.owner = Nobody
    BY <1>1 DEF JobMoves, EndedGenJob
  <2>3. QED
    BY <2>1, <2>2 DEF MInv, JobKept, JobFits
<1>2. CASE genJob' = genJob
  BY <1>2, JobSame
<1>3. QED
  BY <1>1, <1>2

-----------------------------------------------------------------------------
(* What a controller holds.                                                 *)

\* One that works on an upload knows its output.
LEMMA Verifier ==
    ASSUME MInv, NEW w \in Processes, actor[w].at \in Reads
    PROVE  /\ actor[w] \in VerifierRows
           /\ actor[w].for = "build" <=> w = Builder
           /\ actor[w].at # "verify" => actor[w].key \in Keys
           /\ actor[w].at \in {"promote", "mark"} => actor[w].image \in Images
           /\ actor[w].o \in Outputs /\ asset[actor[w].o] \in AssetRows
BY DEF MInv, ActorFits, VerifierRows, OutcomeRows, FenceRows, AbsentRows, Reads, Outcomes,
       Resting, OutputFits

LEMMA Yielded ==
    ASSUME MInv, NEW w \in Processes, actor[w].at \in Reads, NEW r \in Outcomes,
           Yields(w, r)
    PROVE  ActorsKept
<1> DEFINE p == [at |-> r, o |-> actor[w].o, for |-> actor[w].for]
<1>1. p \in OutcomeRows /\ p.at = r /\ p.for = actor[w].for
  BY Verifier DEF VerifierRows, OutcomeRows
<1>2. ActorFits(w, p)
  BY <1>1, Verifier DEF ActorFits, Outcomes, Reads
<1>3. QED
  BY <1>2, OneActor DEF Yields

\* It goes on with the same output, another key or what it read.
LEMMA Continued ==
    ASSUME MInv, NEW w \in Processes, actor[w].at \in Reads, NEW to \in Reads,
           NEW key \in Keys \cup {AnyKey}, NEW image \in Images \cup {Empty},
           to # "verify" => key # AnyKey,
           to \in {"promote", "mark"} => image # Empty,
           NEW p, p = [at |-> to, o |-> actor[w].o, key |-> key, for |-> actor[w].for,
                       image |-> image],
           Becomes(w, p)
    PROVE  ActorsKept
<1>1. p \in VerifierRows /\ p.at = to /\ p.for = actor[w].for /\ p.key = key /\ p.image = image
  BY Verifier DEF VerifierRows
<1>2. ActorFits(w, p)
  BY <1>1, Verifier DEF ActorFits
<1>3. QED
  BY <1>2, OneActor

LEMMA Begun ==
    ASSUME MInv, NEW w \in Processes, NEW o \in Outputs, NEW key \in Keys \cup {AnyKey},
           NEW for \in Callers, for = "build" <=> w = Builder, Verify(w, o, key, for)
    PROVE  ActorsKept
<1> DEFINE p == [at |-> "verify", o |-> o, key |-> key, for |-> for, image |-> Empty]
<1>1. p \in VerifierRows /\ p.at = "verify" /\ p.for = for
  BY DEF VerifierRows, Reads
<1>2. ActorFits(w, p)
  BY <1>1 DEF ActorFits
<1>3. QED
  BY <1>2, OneActor DEF Verify

LEMMA LeftAlone ==
    ASSUME MInv, NEW w \in Processes,
           \/ Becomes(w, Resting)
           \/ Becomes(w, [at |-> "build"]) /\ w = Builder
           \/ (Becomes(w, [at |-> "scan"]) \/ Becomes(w, [at |-> "claim"])) /\ w \in Collectors
    PROVE  ActorsKept
<1>1. CASE Becomes(w, Resting)
  BY <1>1, OneActor DEF ActorFits
<1>2. CASE Becomes(w, [at |-> "build"]) /\ w = Builder
  BY <1>2, OneActor DEF ActorFits
<1>3. CASE Becomes(w, [at |-> "scan"]) /\ w \in Collectors
  BY <1>3, OneActor DEF ActorFits
<1>4. CASE Becomes(w, [at |-> "claim"]) /\ w \in Collectors
  BY <1>4, OneActor DEF ActorFits
<1>5. QED
  BY <1>1, <1>2, <1>3, <1>4

LEMMA Stepped ==
    ASSUME MInv, NEW w \in Processes, actor[w].at \in Reads, NEW to \in Reads,
           actor[w].at # "verify", to \in {"promote", "mark"} => actor[w].image # Empty,
           Step(w, to)
    PROVE  ActorsKept
<1> DEFINE r == actor[w]
           p == [at |-> to, o |-> r.o, key |-> r.key, for |-> r.for, image |-> r.image]
<1>1. r \in VerifierRows
  BY Verifier
<1>2. [r EXCEPT !.at = to] = p
  BY <1>1 DEF VerifierRows
<1>3. Becomes(w, p)
  BY <1>2 DEF Step, Becomes, MInv
<1>4. r.key \in Keys /\ AnyKey \notin Keys /\ r.image \in Images \cup {Empty}
  BY <1>1, Verifier DEF VerifierRows, Keys, AnyKey
<1>5. QED
  BY <1>3, <1>4, Continued

\* With another key, or what it read.
LEMMA Rekeyed ==
    ASSUME MInv, NEW w \in Processes, actor[w].at \in Reads,
           NEW to \in Reads \ {"promote", "mark"}, NEW key \in Keys,
           Becomes(w, [actor[w] EXCEPT !.key = key, !.at = to])
    PROVE  ActorsKept
<1> DEFINE r == actor[w]
           p == [at |-> to, o |-> r.o, key |-> key, for |-> r.for, image |-> r.image]
<1>1. r \in VerifierRows
  BY Verifier
<1>2. [r EXCEPT !.key = key, !.at = to] = p
  <2> DEFINE q == [at |-> r.at, o |-> r.o, key |-> key, for |-> r.for, image |-> r.image]
  <2>1. [r EXCEPT !.key = key] = q
    BY <1>1 DEF VerifierRows
  <2>2. [q EXCEPT !.at = to] = p
    OBVIOUS
  <2>3. [r EXCEPT !.key = key, !.at = to] = [[r EXCEPT !.key = key] EXCEPT !.at = to]
    OBVIOUS
  <2>4. QED
    BY <2>1, <2>2, <2>3
<1>3. Becomes(w, p)
  BY <1>2 DEF Becomes
<1>4. key \in Keys \cup {AnyKey} /\ key # AnyKey /\ r.image \in Images \cup {Empty}
  BY <1>1 DEF VerifierRows, Keys, AnyKey
<1>5. QED
  BY <1>3, <1>4, Continued

LEMMA Inspected ==
    ASSUME MInv, NEW w \in Processes, actor[w].at \in Reads \ {"verify"}, NEW to \in Reads,
           NEW image \in Images \cup {Empty},
           to \in {"promote", "mark"} => image # Empty,
           Becomes(w, [actor[w] EXCEPT !.image = image, !.at = to])
    PROVE  ActorsKept
<1> DEFINE r == actor[w]
           p == [at |-> to, o |-> r.o, key |-> r.key, for |-> r.for, image |-> image]
<1>1. r \in VerifierRows
  BY Verifier
<1>2. [r EXCEPT !.image = image, !.at = to] = p
  <2> DEFINE q == [at |-> r.at, o |-> r.o, key |-> r.key, for |-> r.for, image |-> image]
  <2>1. [r EXCEPT !.image = image] = q
    BY <1>1 DEF VerifierRows
  <2>2. [q EXCEPT !.at = to] = p
    OBVIOUS
  <2>3. [r EXCEPT !.image = image, !.at = to] = [[r EXCEPT !.image = image] EXCEPT !.at = to]
    OBVIOUS
  <2>4. QED
    BY <2>1, <2>2, <2>3
<1>3. Becomes(w, p)
  BY <1>2 DEF Becomes
<1>4. r.key \in Keys \cup {AnyKey} /\ (to # "verify" => r.key # AnyKey)
  BY <1>1, Verifier DEF VerifierRows, Keys, AnyKey
<1>5. QED
  BY <1>3, <1>4, Continued

-----------------------------------------------------------------------------
(* Rows of an output.                                                       *)

\* The claim of a verification, and what gives it back or gives the upload up.
LEMMA Claimable ==
    ASSUME MInv, NEW o \in Outputs, NEW w \in Processes, asset[o].state \in {"UPLOADING", "VERIFYING"}
    PROVE  LET a == [asset[o] EXCEPT !.state = "VERIFYING", !.owner = w, !.live = TRUE]
           IN OutputFits(a, staged[o]) /\ StaysFinal(asset[o], a)
<1>1. w # Nobody
  BY IntakeAssumption DEF Processes, Nobody
<1>2. QED
  BY <1>1 DEF MInv, OutputFits, AssetRows, StaysFinal

LEMMA Released ==
    ASSUME MInv, NEW o \in Outputs, NEW s \in {"UPLOADING", "QUARANTINED"},
           asset[o].state \in {"UPLOADING", "VERIFYING"}
    PROVE  LET a == Unleased(asset[o], s)
           IN OutputFits(a, staged[o]) /\ StaysFinal(asset[o], a)
BY DEF MInv, OutputFits, AssetRows, StaysFinal, Unleased, AnyKey

LEMMA Recorded ==
    ASSUME MInv, NEW o \in Outputs, NEW image \in Images, asset[o].state = "VERIFYING"
    PROVE  LET a == [Unleased(asset[o], "AVAILABLE") EXCEPT !.image = image, !.untidy = FALSE]
           IN OutputFits(a, staged[o]) /\ StaysFinal(asset[o], a)
<1>1. image # Empty
  BY IntakeAssumption DEF Empty
<1>2. QED
  BY <1>1 DEF MInv, OutputFits, AssetRows, StaysFinal, Unleased, AnyKey

LEMMA Tidied ==
    ASSUME MInv, NEW o \in Outputs
    PROVE  LET a == [asset[o] EXCEPT !.untidy = FALSE]
           IN OutputFits(a, staged[o]) /\ StaysFinal(asset[o], a)
BY DEF MInv, OutputFits, AssetRows, StaysFinal

-----------------------------------------------------------------------------
(* The steps of a verification.                                             *)

LEMMA ClaimStep == ASSUME MInv, NEW w \in Processes, ClaimVerification(w) PROVE Kept
<1> DEFINE o == actor[w].o
           a == asset[o]
<1>1. actor[w].at = "verify" /\ actor[w].at \in Reads /\ o \in Outputs /\ JobKept
  BY Verifier, JobSame DEF ClaimVerification, ActorAt, Reads
<1>2. a.state # "none" => a.key \in Keys
  BY <1>1 DEF MInv, OutputFits, AssetRows, AnyKey
<1>3. AssetsKept
  <2>1. CASE Reclaimable(o) /\ actor[w].key \in {AnyKey, a.key}
    <3> DEFINE b == [a EXCEPT !.state = "VERIFYING", !.owner = w, !.live = TRUE]
    <3>1. asset' = [asset EXCEPT ![o] = b]
      BY <1>1, <2>1 DEF ClaimVerification, MInv
    <3>2. OutputFits(b, staged[o]) /\ StaysFinal(a, b)
      BY <1>1, <2>1, Claimable DEF Reclaimable
    <3>3. QED
      BY <1>1, <3>1, <3>2, OneAsset DEF ClaimVerification
  <2>2. CASE ~(Reclaimable(o) /\ actor[w].key \in {AnyKey, a.key})
    BY <2>2, AssetsSame DEF ClaimVerification
  <2>3. QED
    BY <2>1, <2>2
<1>4. ActorsKept
  <2>1. CASE Yields(w, "busy") \/ Yields(w, "quarantined")
    BY <1>1, <2>1, Yielded DEF Outcomes
  <2>2. CASE a.state # "none"
             /\ \/ Becomes(w, [actor[w] EXCEPT !.key = a.key, !.at = "inspect"])
                \/ Becomes(w, [actor[w] EXCEPT !.key = a.key, !.at = "tidy"])
    BY <1>1, <1>2, <2>2, Rekeyed DEF Reads
  <2>3. QED
    BY <2>1, <2>2 DEF ClaimVerification, Reclaimable
<1>5. QED
  BY <1>1, <1>3, <1>4 DEF Kept

LEMMA InspectStep == ASSUME MInv, NEW w \in Processes, Inspect(w) PROVE Kept
<1> DEFINE seen == staged[actor[w].o][actor[w].key]
<1>1. actor[w].at = "inspect" /\ actor[w].at \in Reads \ {"verify"} /\ AssetsKept /\ JobKept
  BY AssetsSame, JobSame DEF Inspect, ActorAt, Reads
<1>2. seen \in Images \cup {Bad, Empty}
  BY <1>1, Verifier DEF MInv, OutputFits
<1>3. CASE Step(w, "lost") \/ Step(w, "reject")
  BY <1>1, <1>3, Stepped DEF Kept, Reads
<1>4. CASE seen \notin {Empty, Bad}
           /\ Becomes(w, [actor[w] EXCEPT !.image = seen, !.at = "promote"])
  BY <1>1, <1>2, <1>4, Inspected DEF Kept, Reads
<1>5. QED
  BY <1>3, <1>4 DEF Inspect

LEMMA PromoteStep ==
  ASSUME MInv, NEW w \in Processes, Promote(w) \/ Unavailable(w) PROVE Kept
<1>1. /\ actor[w].at \in {"inspect", "promote", "tidy"}
      /\ actor[w].at \in Reads \ {"verify"} /\ AssetsKept /\ JobKept
  BY AssetsSame, JobSame DEF Promote, Unavailable, ActorAt, Reads
<1>2. CASE \/ Becomes(w, [actor[w] EXCEPT !.image = Empty, !.at = "lost"])
           \/ Becomes(w, [actor[w] EXCEPT !.image = Empty, !.at = "release"])
  BY <1>1, <1>2, Inspected DEF Kept, Reads
<1>3. CASE Step(w, "mark") /\ actor[w].at = "promote"
  <2>1. actor[w].image # Empty
    BY <1>1, <1>3, Verifier, IntakeAssumption DEF Empty
  <2>2. QED
    BY <1>1, <1>3, <2>1, Stepped DEF Kept, Reads
<1>4. CASE Yields(w, "done")
  BY <1>1, <1>4, Yielded DEF Kept, Outcomes
<1>5. QED
  BY <1>2, <1>3, <1>4 DEF Promote, Unavailable, ActorAt

LEMMA MarkStep == ASSUME MInv, NEW w \in Processes, MarkAvailable(w) PROVE Kept
<1> DEFINE o == actor[w].o
<1>1. actor[w].at = "mark" /\ actor[w].at \in Reads \ {"verify"} /\ o \in Outputs /\ JobKept
  BY Verifier, JobSame DEF MarkAvailable, ActorAt, Reads
<1>2. CASE Holds(w) /\ asset[o].key = actor[w].key
  <2> DEFINE b == [Unleased(asset[o], "AVAILABLE") EXCEPT !.image = actor[w].image,
                                                          !.untidy = FALSE]
  <2>1. asset' = [asset EXCEPT ![o] = b] /\ staged' = staged
    BY <1>1, <1>2 DEF MarkAvailable, MInv
  <2>2. OutputFits(b, staged[o]) /\ StaysFinal(asset[o], b)
    BY <1>1, <1>2, Verifier, Recorded DEF Holds
  <2>3. AssetsKept
    BY <1>1, <2>1, <2>2, OneAsset
  <2>4. ActorsKept
    BY <1>1, <1>2, Inspected DEF MarkAvailable, Reads
  <2>5. QED
    BY <1>1, <2>3, <2>4 DEF Kept
<1>3. CASE ~(Holds(w) /\ asset[o].key = actor[w].key)
  <2>1. Yields(w, "busy") /\ AssetsKept
    BY <1>3, AssetsSame DEF MarkAvailable
  <2>2. QED
    BY <1>1, <2>1, Yielded DEF Kept, Outcomes
<1>4. QED
  BY <1>2, <1>3

LEMMA GiveBackStep ==
  ASSUME MInv, NEW w \in Processes, Quarantine(w) \/ ReleaseClaim(w) PROVE Kept
<1> DEFINE o == actor[w].o
<1>1. actor[w].at \in Reads \ {"verify"} /\ o \in Outputs /\ JobKept
  BY Verifier, JobSame DEF Quarantine, ReleaseClaim, ActorAt, Reads
<1>2. PICK r \in Outcomes : Yields(w, r)
  BY DEF Quarantine, ReleaseClaim, Outcomes
<1>3. ActorsKept
  BY <1>1, <1>2, Yielded
<1>4. AssetsKept
  <2>1. CASE asset' = asset
    BY <2>1, AssetsSame DEF Quarantine, ReleaseClaim
  <2>2. CASE asset' # asset
    <3>1. PICK s \in {"UPLOADING", "QUARANTINED"} :
             asset' = [asset EXCEPT ![o] = Unleased(asset[o], s)]
      BY <1>1, <2>2 DEF Quarantine, ReleaseClaim, MInv
    <3>2. asset[o].state = "VERIFYING" /\ staged' = staged
      BY <2>2 DEF Quarantine, ReleaseClaim, Holds
    <3>3. /\ OutputFits(Unleased(asset[o], s), staged[o])
          /\ StaysFinal(asset[o], Unleased(asset[o], s))
      BY <1>1, <3>2, Released
    <3>4. QED
      BY <1>1, <3>1, <3>2, <3>3, OneAsset
  <2>3. QED
    BY <2>1, <2>2
<1>5. QED
  BY <1>1, <1>3, <1>4 DEF Kept

\* An upload is removed, or stays.
LEMMA Removed ==
    ASSUME MInv, NEW o \in Outputs, NEW k \in Keys, NEW left \in {Empty, staged[o][k]}
    PROVE  OutputFits(asset[o], [staged[o] EXCEPT ![k] = left])
BY DEF MInv, OutputFits

LEMMA CleanStep == ASSUME MInv, NEW w \in Processes, Clean(w) PROVE Kept
<1> DEFINE o == actor[w].o
           k == actor[w].key
<1>1. actor[w].at \in Reads \ {"verify"} /\ o \in Outputs /\ k \in Keys /\ JobKept
  BY Verifier, JobSame DEF Clean, ActorAt, Reads
<1>2. PICK left \in {Empty, staged[o][k]} : staged' = [staged EXCEPT ![o][k] = left]
  BY DEF Clean
<1>3. staged' = [staged EXCEPT ![o] = [staged[o] EXCEPT ![k] = left]]
  BY <1>1, <1>2 DEF MInv
<1>4. AssetsKept
  <2> DEFINE u == [staged[o] EXCEPT ![k] = left]
  <2>1. OutputFits(asset[o], u)
    BY <1>1, Removed
  <2>2. asset' = asset /\ staged' = [staged EXCEPT ![o] = u]
    BY <1>3 DEF Clean
  <2>3. QED
    BY <1>1, <2>1, <2>2, OneUpload
<1>5. ActorsKept
  BY <1>1, Yielded DEF Clean, Outcomes
<1>6. QED
  BY <1>1, <1>4, <1>5 DEF Kept

LEMMA TidyStep == ASSUME MInv, NEW w \in Processes, Tidy(w) PROVE Kept
<1> DEFINE o == actor[w].o
           k == actor[w].key
           u == [staged[o] EXCEPT ![k] = Empty]
           b == [asset[o] EXCEPT !.untidy = FALSE]
<1>1. /\ actor[w].at \in Reads \ {"verify"} /\ o \in Outputs /\ k \in Keys /\ JobKept
      /\ actor[w].for = "build" <=> w = Builder
  BY Verifier, JobSame DEF Tidy, ActorAt, Reads
<1>2. staged' = [staged EXCEPT ![o] = u]
  BY <1>1 DEF Tidy, MInv
<1>3. OutputFits(asset[o], u) /\ OutputFits(b, staged[o]) /\ StaysFinal(asset[o], b)
  BY <1>1, Removed, Tidied
<1>4. CASE asset' = asset
  <2>1. AssetsKept
    BY <1>1, <1>2, <1>3, <1>4, OneUpload
  <2>2. ActorsKept
    BY <1>1, Yielded, LeftAlone DEF Tidy, Outcomes, Processes
  <2>3. QED
    BY <1>1, <2>1, <2>2 DEF Kept
<1>5. CASE asset' # asset
  <2>1. asset' = [asset EXCEPT ![o] = b]
    BY <1>1, <1>5 DEF Tidy, MInv
  <2>2. OutputFits(b, u)
    BY <1>3 DEF OutputFits, AssetRows
  <2>3. AssetsKept
    BY <1>1, <1>2, <1>3, <2>1, <2>2 DEF AssetsKept, MInv, StaysFinal
  <2>4. ActorsKept
    BY <1>1, Yielded, LeftAlone DEF Tidy, Outcomes, Processes
  <2>5. QED
    BY <1>1, <2>3, <2>4 DEF Kept
<1>6. QED
  BY <1>4, <1>5

-----------------------------------------------------------------------------
(* Grants, and the job's worker.                                            *)

LEMMA BuildSteps ==
  ASSUME MInv, NEW w \in Processes, BeginBuild(w) \/ OutOfKeys(w) \/ Salvaged(w) PROVE Kept
<1>1. AssetsKept
  BY AssetsSame DEF BeginBuild, OutOfKeys, Salvaged
<1>2. ActorsKept
  <2>1. w = Builder /\ (Becomes(w, Resting) \/ Becomes(w, [at |-> "build"]))
    BY DEF MInv, BeginBuild, OutOfKeys, Salvaged, Defer, BuildFails, ActorFits, ActorAt,
           Resting, FenceRows, AbsentRows, VerifierRows, OutcomeRows, Reads, Outcomes
  <2>2. QED
    BY <2>1, LeftAlone
<1>3. JobKept
  <2>1. CASE BeginBuild(w)
    BY <2>1 DEF BeginBuild, MInv, JobKept, JobFits, GenJobRows, ProgressiveJob
  <2>2. CASE OutOfKeys(w) \/ Salvaged(w)
    <3>1. PICK s \in {"WAITING", "DEAD_LETTER"} : JobMoves(s) \/ genJob' = genJob
      BY <2>2 DEF OutOfKeys, Salvaged, Defer, BuildFails
    <3>2. s \in {"WAITING", "SUBMITTING", "RUNNING", "COLLECTING"} \cup EndedGenJob
      BY DEF EndedGenJob
    <3>3. UNCHANGED <<stop, overdue>>
      BY <2>2 DEF OutOfKeys, Salvaged
    <3>4. QED
      BY <3>1, <3>2, <3>3, JobMoved
  <2>3. QED
    BY <2>1, <2>2
<1>4. QED
  BY <1>1, <1>2, <1>3 DEF Kept

\* A new output gets its first key, with nothing uploaded to it; one that has its
\* master another; and one whose upload is still awaited keeps its own.
LEMMA Granted ==
    ASSUME MInv, NEW o \in Outputs,
           asset[o].state \in {"none", "UPLOADING", "VERIFYING", "AVAILABLE"},
           asset[o].state = "AVAILABLE" => asset[o].key < MaxKeys
    PROVE  OutputFits(Regranted(asset[o]), staged[o])
           /\ StaysFinal(asset[o], Regranted(asset[o]))
<1>1. CASE asset[o].state = "none"
  <2> DEFINE a == asset[o]
             b == [a EXCEPT !.state = "UPLOADING", !.key = 1]
  <2>1. a \in AssetRows /\ a.owner = Nobody /\ a.image = Empty /\ a.key = 0
    BY <1>1 DEF MInv, OutputFits, AnyKey
  <2>2. 1 \in Keys /\ Regranted(a) = b
    BY <1>1, IntakeAssumption DEF Keys, Regranted
  <2>3. b \in AssetRows
    BY <2>1, <2>2 DEF AssetRows
  <2>4. b.state = "UPLOADING" /\ b.key = 1 /\ b.owner = Nobody /\ b.image = Empty
    BY <2>1 DEF AssetRows
  <2>5. /\ staged[o] \in [Keys -> Images \cup {Bad, Empty}]
        /\ \A k \in Keys : staged[o][k] = Empty
    BY <2>1 DEF MInv, OutputFits, Keys
  <2>6. QED
    BY <1>1, <2>2, <2>3, <2>4, <2>5 DEF OutputFits, StaysFinal, AnyKey
<1>2. CASE asset[o].state = "AVAILABLE"
  <2> DEFINE a == asset[o]
             b == [a EXCEPT !.key = a.key + 1, !.untidy = TRUE]
  <2>1. Regranted(a) = b
    BY <1>2 DEF Regranted, MInv, OutputFits, AssetRows
  <2>2. a.key \in Nat /\ a.key + 1 \in Keys /\ a.key # AnyKey
    BY <1>2, IntakeAssumption DEF MInv, OutputFits, AssetRows, AnyKey, Keys
  <2>3. a \in AssetRows /\ b \in AssetRows /\ b.state = a.state /\ b.owner = a.owner
        /\ b.image = a.image /\ b.key = a.key + 1 /\ b.key # AnyKey
    <3>1. a \in AssetRows
      BY DEF MInv, OutputFits
    <3> DEFINE c == [a EXCEPT !.key = a.key + 1]
    <3>2. c \in AssetRows /\ c.state = a.state /\ c.owner = a.owner
          /\ c.image = a.image /\ c.key = a.key + 1
      BY <2>2, <3>1 DEF AssetRows
    <3>3. b = [c EXCEPT !.untidy = TRUE]
      OBVIOUS
    <3>4. b \in AssetRows /\ b.state = c.state /\ b.owner = c.owner
          /\ b.image = c.image /\ b.key = c.key
      BY <3>2, <3>3 DEF AssetRows
    <3>5. a.key + 1 # AnyKey
      BY <2>2 DEF AnyKey
    <3>6. QED
      BY <3>1, <3>2, <3>4, <3>5
  <2>4. \A k \in Keys : k \in Nat /\ (k <= a.key => k <= b.key)
    BY <2>2, <2>3 DEF Keys
  <2>5. /\ a.image # Empty /\ a.owner = Nobody
        /\ staged[o] \in [Keys -> Images \cup {Bad, Empty}]
        /\ \A k \in Keys : staged[o][k] # Empty => k <= a.key
    BY <1>2 DEF MInv, OutputFits
  <2>6. OutputFits(b, staged[o])
    BY <1>2, <2>3, <2>4, <2>5 DEF OutputFits
  <2>7. QED
    BY <2>1, <2>3, <2>6 DEF StaysFinal
<1>3. CASE asset[o].state \in {"UPLOADING", "VERIFYING"}
  BY <1>3, Released DEF Regranted
<1>4. QED
  BY <1>1, <1>2, <1>3

LEMMA GrantStep == ASSUME MInv, NEW w \in Processes, IssueGrants(w) PROVE Kept
<1> DEFINE busy == InState({"VERIFYING"}) \ {o \in Outputs : Reclaimable(o)}
           uploads == {o \in Outputs : Reclaimable(o) /\ Staged(o)}
<1>1. w = Builder /\ staged' = staged /\ UNCHANGED <<stop, overdue>>
  BY DEF MInv, IssueGrants, ActorFits, ActorAt, Resting, FenceRows, AbsentRows,
         VerifierRows, OutcomeRows, Reads, Outcomes
<1>2. CASE \E o \in uploads : Verify(w, o, asset[o].key, "build") /\ UNCHANGED <<genJob, asset>>
  <2>1. PICK o \in uploads : Verify(w, o, asset[o].key, "build") /\ UNCHANGED <<genJob, asset>>
    BY <1>2
  <2>2. o \in Outputs /\ asset[o].key \in Keys \cup {AnyKey}
    BY DEF MInv, OutputFits, AssetRows
  <2>3. ActorsKept
    BY <1>1, <2>1, <2>2, Begun DEF Callers
  <2>4. QED
    BY <1>1, <2>1, <2>3, AssetsSame, JobSame DEF Kept
<1>3. CASE (Defer(w) \/ BuildFails(w)) /\ UNCHANGED asset
  <2>1. PICK s \in {"WAITING", "DEAD_LETTER"} : JobMoves(s)
    BY <1>3 DEF Defer, BuildFails
  <2>2. s \in {"WAITING", "SUBMITTING", "RUNNING", "COLLECTING"} \cup EndedGenJob
    BY DEF EndedGenJob
  <2>3. JobKept
    BY <1>1, <2>1, <2>2, JobMoved
  <2>4. ActorsKept
    BY <1>3, LeftAlone DEF Defer, BuildFails
  <2>5. QED
    BY <1>1, <1>3, <2>3, <2>4, AssetsSame DEF Kept
<1>4. CASE /\ busy \cup uploads \cup InState({"QUARANTINED"}) = {}
           /\ \A o \in InState({"AVAILABLE"}) : asset[o].key < MaxKeys
           /\ asset' = [o \in Outputs |-> Regranted(asset[o])]
           /\ JobMoves("RUNNING") /\ Becomes(w, Resting)
  <2>1. \A o \in Outputs : OutputFits(Regranted(asset[o]), staged[o])
                           /\ StaysFinal(asset[o], Regranted(asset[o]))
    <3>1. ASSUME NEW o \in Outputs
          PROVE  /\ asset[o].state \in {"none", "UPLOADING", "VERIFYING", "AVAILABLE"}
                 /\ asset[o].state = "AVAILABLE" => asset[o].key < MaxKeys
      BY <1>4 DEF InState, MInv, OutputFits, AssetRows
    <3>2. QED
      BY <3>1, Granted
  <2>2. AssetsKept
    BY <1>1, <1>4, <2>1 DEF AssetsKept, MInv
  <2>3. JobKept /\ ActorsKept
    BY <1>1, <1>4, JobMoved, LeftAlone
  <2>4. QED
    BY <2>2, <2>3 DEF Kept
<1>5. QED
  BY <1>2, <1>3, <1>4 DEF IssueGrants

LEMMA UploadStep ==
  ASSUME MInv, NEW o \in Outputs, NEW k \in Keys, Upload(o, k) PROVE Kept
<1>1. PICK image \in Images \cup {Bad} : staged' = [staged EXCEPT ![o][k] = image]
  BY DEF Upload
<1> DEFINE u == [staged[o] EXCEPT ![k] = image]
<1>2. staged' = [staged EXCEPT ![o] = u] /\ asset' = asset
  BY <1>1 DEF MInv, Upload
<1>3. OutputFits(asset[o], u)
  BY DEF MInv, OutputFits, Upload
<1>4. AssetsKept
  BY <1>2, <1>3, OneUpload
<1>5. QED
  BY <1>4, JobSame, ActorsSame DEF Kept, Upload

LEMMA JobSteps ==
  ASSUME MInv, AttemptEnds \/ RequestStop \/ JobLeaseExpires \/ GrantsElapse PROVE Kept
<1>1. AssetsKept /\ ActorsKept
  BY AssetsSame, ActorsSame DEF AttemptEnds, RequestStop, JobLeaseExpires, GrantsElapse
<1>2. CASE AttemptEnds
  <2>1. PICK s \in {"WAITING", "COLLECTING", "CANCELLED", "DEAD_LETTER"} : JobMoves(s)
    BY <1>2 DEF AttemptEnds
  <2>2. s \in {"WAITING", "SUBMITTING", "RUNNING", "COLLECTING"} \cup EndedGenJob
    BY DEF EndedGenJob
  <2>3. QED
    BY <1>1, <1>2, <2>1, <2>2, JobMoved DEF AttemptEnds, Kept
<1>3. CASE RequestStop
  <2>1. StopFits(stop')
    BY <1>3 DEF RequestStop, MInv, StopFits
  <2>2. JobFits(genJob')
    <3>1. CASE JobMoves("CANCELLED")
      BY <3>1 DEF JobMoves, JobFits, GenJobRows, EndedGenJob
    <3>2. QED
      BY <1>3, <3>1 DEF RequestStop, Unsubmitted, MInv
  <2>3. QED
    BY <1>1, <1>3, <2>1, <2>2 DEF RequestStop, MInv, Kept, JobKept
<1>4. CASE JobLeaseExpires \/ GrantsElapse
  BY <1>1, <1>4 DEF JobLeaseExpires, GrantsElapse, MInv, Kept, JobKept, JobFits, GenJobRows
<1>5. QED
  BY <1>2, <1>3, <1>4

-----------------------------------------------------------------------------
(* Settlement, scan and collection.                                         *)

LEMMA Placed ==
    ASSUME MInv, NEW w \in Collectors, NEW p \in FenceRows \cup AbsentRows, Becomes(w, p)
    PROVE  ActorsKept
BY OneActor DEF ActorFits, Processes

LEMMA CollectorKnows ==
    ASSUME MInv, NEW w \in Processes
    PROVE  /\ actor[w].at \in {"fence", "absent", "claim"} => w \in Collectors
           /\ actor[w].at = "fence" => actor[w].n \in 0..Cardinality(Outputs)
           /\ actor[w].at = "absent" => actor[w].o \in Outputs
           /\ actor[w].at \in Outcomes => actor[w].o \in Outputs
BY DEF MInv, ActorFits, VerifierRows, OutcomeRows, FenceRows, AbsentRows, Reads, Outcomes,
       Resting

LEMMA AvailableCount ==
    Cardinality(InState({"AVAILABLE"})) \in 0..Cardinality(Outputs)
<1>1. InState({"AVAILABLE"}) \subseteq Outputs /\ IsFiniteSet(Outputs)
  BY IntakeAssumption DEF InState
<1>2. /\ Cardinality(InState({"AVAILABLE"})) <= Cardinality(Outputs)
      /\ Cardinality(Outputs) \in Nat
      /\ IsFiniteSet(InState({"AVAILABLE"}))
  BY <1>1, FS_Subset, FS_CardinalityType
<1>3. Cardinality(InState({"AVAILABLE"})) \in Nat
  BY <1>2, FS_CardinalityType
<1>4. QED
  BY <1>2, <1>3

LEMMA SettleSteps == ASSUME MInv, NEW w \in Processes, CountMasters(w) \/ Fence(w) PROVE Kept
<1>1. AssetsKept
  BY AssetsSame DEF CountMasters, Fence
<1>2. CASE CountMasters(w)
  <2>1. w \in Collectors
    BY <1>2 DEF CountMasters
  <2>2. JobKept
    <3>1. CASE JobMoves("CANCELLED")
      BY <1>2, <3>1, JobMoved DEF CountMasters, EndedGenJob
    <3>2. QED
      BY <1>2, <3>1, JobSame DEF CountMasters, Unsubmitted
  <2>3. ActorsKept
    <3> DEFINE p == [at |-> "fence", n |-> Cardinality(InState({"AVAILABLE"}))]
    <3>1. CASE Becomes(w, [at |-> "scan"])
      BY <2>1, <3>1, LeftAlone DEF Processes
    <3>2. CASE Becomes(w, p)
      <4>1. p \in FenceRows
        BY AvailableCount DEF FenceRows
      <4>2. QED
        BY <2>1, <3>2, <4>1, Placed
    <3>3. QED
      BY <1>2, <3>1, <3>2 DEF CountMasters
  <2>4. QED
    BY <1>1, <2>2, <2>3 DEF Kept
<1>3. CASE Fence(w)
  <2>1. w \in Collectors /\ actor[w].n \in 0..Cardinality(Outputs)
    BY <1>3, CollectorKnows DEF Fence, ActorAt
  <2>2. ActorsKept
    BY <1>3, <2>1, LeftAlone DEF Fence, Processes
  <2>3. StopFits(stop') /\ UNCHANGED <<genJob, overdue>>
    BY <1>3, <2>1 DEF Fence, StopFits, MInv
  <2>4. QED
    BY <1>1, <2>2, <2>3 DEF Kept, JobKept, MInv
<1>4. QED
  BY <1>2, <1>3

LEMMA ScanStep == ASSUME MInv, NEW w \in Processes, Scan(w) PROVE Kept
<1>1. AssetsKept /\ JobKept /\ w \in Collectors /\ w # Builder
  BY AssetsSame, JobSame, IntakeAssumption DEF Scan
<1>2. CASE Becomes(w, [at |-> "claim"])
  BY <1>1, <1>2, LeftAlone DEF Kept
<1>3. CASE \E o \in Outputs : Becomes(w, [at |-> "absent", o |-> o])
  <2>1. PICK o \in Outputs : Becomes(w, [at |-> "absent", o |-> o])
    BY <1>3
  <2>2. [at |-> "absent", o |-> o] \in AbsentRows
    BY DEF AbsentRows
  <2>3. QED
    BY <1>1, <2>1, <2>2, Placed DEF Kept
<1>4. CASE \E o \in Outputs : Verify(w, o, asset[o].key, "scan")
  <2>1. PICK o \in Outputs : Verify(w, o, asset[o].key, "scan")
    BY <1>4
  <2>2. asset[o].key \in Keys \cup {AnyKey}
    BY DEF MInv, OutputFits, AssetRows
  <2>3. QED
    BY <1>1, <2>1, <2>2, Begun DEF Kept, Callers
<1>5. QED
  BY <1>2, <1>3, <1>4 DEF Scan, Candidates

LEMMA AbsentStep == ASSUME MInv, NEW w \in Processes, QuarantineAbsent(w) PROVE Kept
<1> DEFINE o == actor[w].o
           b == Unleased(asset[o], "QUARANTINED")
<1>1. w \in Collectors /\ o \in Outputs /\ JobKept
  BY CollectorKnows, JobSame DEF QuarantineAbsent, ActorAt
<1>2. ActorsKept
  BY <1>1, LeftAlone DEF QuarantineAbsent
<1>3. CASE asset' = asset
  BY <1>1, <1>2, <1>3, AssetsSame DEF QuarantineAbsent, Kept
<1>4. CASE asset' # asset
  <2>1. asset' = [asset EXCEPT ![o] = b] /\ staged' = staged
        /\ asset[o].state \in {"UPLOADING", "VERIFYING"}
    BY <1>1, <1>4 DEF QuarantineAbsent, MInv, Reclaimable
  <2>2. OutputFits(b, staged[o]) /\ StaysFinal(asset[o], b)
    BY <1>1, <2>1, Released
  <2>3. AssetsKept
    BY <1>1, <2>1, <2>2, OneAsset
  <2>4. QED
    BY <1>1, <1>2, <2>3 DEF Kept
<1>5. QED
  BY <1>3, <1>4

LEMMA CollectSteps ==
  ASSUME MInv, NEW w \in Processes,
         Scanned(w) \/ ClaimCollection(w) \/ Collected(w) \/ Uncollected(w) \/ Crash(w)
  PROVE  Kept
<1>1. AssetsKept
  BY AssetsSame DEF Scanned, ClaimCollection, Collected, Uncollected, Crash
<1>2. ActorsKept
  <2>1. CASE ClaimCollection(w) /\ Verify(w, 1, AnyKey, "collect")
    <3>1. w \in Collectors /\ w # Builder /\ 1 \in Outputs
      BY <2>1, CollectorKnows, IntakeAssumption DEF ClaimCollection, ActorAt
    <3>2. QED
      BY <2>1, <3>1, Begun DEF Callers
  <2>2. CASE Collected(w) /\ actor[w].o + 1 \in Outputs
             /\ Verify(w, actor[w].o + 1, AnyKey, "collect")
    <3>1. w # Builder
      BY <2>2, IntakeAssumption DEF Collected, Collecting
    <3>2. QED
      BY <2>2, <3>1, Begun DEF Callers
  <2>3. CASE Becomes(w, Resting) \/ (Becomes(w, [at |-> "claim"]) /\ w \in Collectors)
    BY <2>3, LeftAlone
  <2>4. QED
    BY <2>1, <2>2, <2>3 DEF Scanned, ClaimCollection, Collected, Uncollected, Crash
<1>3. JobKept
  <2>1. CASE ClaimCollection(w) /\ genJob' = [state |-> "VERIFYING", owner |-> w, live |-> TRUE]
    <3>1. w \in Collectors /\ w # Nobody
      BY <2>1, CollectorKnows, IntakeAssumption DEF ClaimCollection, ActorAt, Nobody
    <3>2. JobFits(genJob')
      BY <2>1, <3>1 DEF JobFits, GenJobRows
    <3>3. QED
      BY <2>1, <3>2 DEF ClaimCollection, JobKept, MInv
  <2>2. CASE \E s \in {"SUCCEEDED", "COLLECTING", "DEAD_LETTER"} : JobMoves(s)
    <3>1. PICK s \in {"SUCCEEDED", "COLLECTING", "DEAD_LETTER"} : JobMoves(s)
      BY <2>2
    <3>2. s \in {"WAITING", "SUBMITTING", "RUNNING", "COLLECTING"} \cup EndedGenJob
      BY DEF EndedGenJob
    <3>3. UNCHANGED <<stop, overdue>>
      BY DEF Scanned, ClaimCollection, Collected, Uncollected, Crash
    <3>4. QED
      BY <3>1, <3>2, <3>3, JobMoved
  <2>3. CASE genJob' = genJob
    BY <2>3, JobSame DEF Scanned, ClaimCollection, Collected, Uncollected, Crash
  <2>4. QED
    BY <2>1, <2>2, <2>3 DEF Scanned, ClaimCollection, Collected, Uncollected, Crash, JobGoes
<1>4. QED
  BY <1>1, <1>2, <1>3 DEF Kept

LEMMA LeaseStep == ASSUME MInv, NEW o \in Outputs, AssetLeaseExpires(o) PROVE Kept
<1> DEFINE b == [asset[o] EXCEPT !.live = FALSE]
<1>1. asset' = [asset EXCEPT ![o] = b] /\ staged' = staged
  BY DEF AssetLeaseExpires, MInv
<1>2. OutputFits(b, staged[o]) /\ StaysFinal(asset[o], b)
  BY DEF MInv, OutputFits, AssetRows, StaysFinal
<1>3. AssetsKept
  BY <1>1, <1>2, OneAsset
<1>4. QED
  BY <1>3, JobSame, ActorsSame DEF AssetLeaseExpires, Kept

-----------------------------------------------------------------------------
(* The theorems.                                                            *)

LEMMA InitMInv == ASSUME IntakeInit PROVE MInv
<1>1. JobFits(genJob) /\ overdue \in BOOLEAN
  BY DEF IntakeInit, JobFits, GenJobRows, ProgressiveJob
<1>2. StopFits(stop)
  <2>1. 0 \in 0..Cardinality(Outputs)
    BY IntakeAssumption, FS_CardinalityType
  <2>2. QED
    BY <2>1 DEF IntakeInit, StopFits
<1>3. ASSUME NEW o \in Outputs PROVE OutputFits(asset[o], staged[o])
  BY DEF IntakeInit, OutputFits, AssetRows, AnyKey
<1>4. ASSUME NEW w \in Processes PROVE ActorFits(w, actor[w])
  BY DEF IntakeInit, ActorFits
<1>5. QED
  BY <1>1, <1>2, <1>3, <1>4 DEF IntakeInit, MInv

LEMMA StepKeeps == ASSUME MInv, [IntakeNext]_intakeVars PROVE Kept
<1>1. ASSUME NEW w \in Processes, IntakeCycle(w) PROVE Kept
  BY <1>1, ClaimStep, InspectStep, PromoteStep, MarkStep, GiveBackStep, CleanStep, TidyStep,
     GrantStep, BuildSteps, SettleSteps, ScanStep, AbsentStep, CollectSteps DEF IntakeCycle
<1>2. ASSUME NEW w \in Processes, BeginBuild(w) \/ Unavailable(w) \/ Crash(w) PROVE Kept
  BY <1>2, BuildSteps, PromoteStep, CollectSteps
<1>3. ASSUME NEW o \in Outputs, AssetLeaseExpires(o) \/ \E k \in Keys : Upload(o, k)
      PROVE  Kept
  BY <1>3, LeaseStep, UploadStep
<1>4. CASE AttemptEnds \/ RequestStop \/ JobLeaseExpires \/ GrantsElapse
  BY <1>4, JobSteps
<1>5. CASE UNCHANGED intakeVars
  BY <1>5, AssetsSame, JobSame, ActorsSame DEF intakeVars, Kept
<1>6. QED
  BY <1>1, <1>2, <1>3, <1>4, <1>5 DEF IntakeNext

\* Whatever collectors, the builder, workers and leases do, in any order and with
\* a crash at any point: rows, uploads and what each controller holds agree
\* (services/assets.py, services/collection.py).
THEOREM IntakeAgrees == IntakeSpec => []MInv
<1>1. ASSUME MInv, [IntakeNext]_intakeVars PROVE MInv'
  BY <1>1, StepKeeps, KeptIsEnough
<1>2. QED
  BY <1>1, InitMInv, PTL DEF IntakeSpec

\* The rows keep the CHECK constraints of assets and generation_jobs.
THEOREM IntakeTyping == IntakeSpec => []IntakeTypeOK
<1>1. MInv => IntakeTypeOK
  <2>1. ASSUME MInv, NEW o \in Outputs
        PROVE  /\ asset[o] \in AssetRows
               /\ staged[o] \in [Keys -> Images \cup {Bad, Empty}]
               /\ (asset[o].state = "VERIFYING") = (asset[o].owner # Nobody)
               /\ asset[o].state # "none" => asset[o].key # AnyKey
               /\ (asset[o].state = "AVAILABLE") = (asset[o].image # Empty)
    BY <2>1 DEF MInv, OutputFits
  <2>2. ASSUME MInv
        PROVE  /\ asset \in [Outputs -> AssetRows]
               /\ staged \in [Outputs -> [Keys -> Images \cup {Bad, Empty}]]
    BY <2>1, <2>2 DEF MInv
  <2>3. QED
    BY <2>1, <2>2 DEF MInv, JobFits, StopFits, IntakeTypeOK
<1>2. QED
  BY <1>1, IntakeAgrees, PTL

\* However often a job is retried and whichever attempt uploads late: until an
\* output has its master, every upload made for it waits where the next collector
\* looks for it (create_retry_safe_raw_master_upload_intents).
THEOREM UploadsKept == IntakeSpec => []UploadsAreKept
<1>1. MInv => UploadsAreKept
  <2> SUFFICES ASSUME MInv, NEW o \in InState({"UPLOADING", "VERIFYING"}), NEW k \in Keys,
                      staged[o][k] # Empty
               PROVE  k = asset[o].key
    BY DEF UploadsAreKept
  <2>1. o \in Outputs /\ asset[o].state \in {"UPLOADING", "VERIFYING"}
    BY DEF InState
  <2>2. k <= asset[o].key /\ asset[o].key = 1
    BY <2>1 DEF MInv, OutputFits
  <2>3. QED
    BY <2>2 DEF Keys
<1>2. QED
  BY <1>1, IntakeAgrees, PTL

\* A verification that was overtaken, by the expiry of its lease or otherwise,
\* changes no master and revives no quarantined output (_mark_available).
THEOREM FinalMasters == IntakeSpec => MastersAreFinal
<1>1. ASSUME MInv, [IntakeNext]_intakeVars
      PROVE  [\A o \in InState({"AVAILABLE", "QUARANTINED"}) :
                /\ asset'[o].state = asset[o].state
                /\ asset'[o].image = asset[o].image]_intakeVars
  BY <1>1, StepKeeps DEF Kept, AssetsKept, StaysFinal, InState
<1>2. QED
  BY <1>1, IntakeAgrees, PTL DEF IntakeSpec, MastersAreFinal
=============================================================================
