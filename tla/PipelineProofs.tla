--------------------------- MODULE PipelineProofs ---------------------------
(* Proofs about GenerationPipeline, for any number of jobs, workers and     *)
(* attempts. First every action preserves IInv: lemmas about the rows of    *)
(* attempts and jobs, then the reconciler, the webhook inbox, the provider, *)
(* the stop and collection, then the scheduler, the outbox and the submit   *)
(* workers. Then CInv, which relates rows, workers, reconciler and          *)
(* provider, and the theorems.                                              *)
EXTENDS PipelineInvariant, SumTheorems

-----------------------------------------------------------------------------
(* Rows.                                                                    *)

LEMMA JobOfAttempt ==
    ASSUME NEW a \in Attempts
    PROVE  JobOf(a) \in Jobs /\ a[2] \in 1..AttemptLimit
BY DEF Attempts, JobOf

LEMMA NoAttemptIsNone == NoAttempt \notin Attempts
BY GenerationAssumption DEF NoAttempt, Attempts

LEMMA InitIInv == Init => IInv
<1> SUFFICES ASSUME Init PROVE IInv
    OBVIOUS
<1>1. TypeOK
  <2>1. job \in [Jobs -> JobRows]
      BY GenerationAssumption
      DEF Init, JobRows, JobStates, UnstartedJob
  <2>2. NoAttemptRow \in AttemptRows
      BY GenerationAssumption DEF NoAttemptRow, AttemptRows, AttemptStates
  <2>3. QED
      BY <2>1, <2>2, GenerationAssumption
      DEF Init, TypeOK, Releases, EventRows, Tasks, Readings, ProviderRows, IdleTask, IdleRec
<1>2. \A j \in Jobs : job[j].count = 0 /\ job[j].max >= 1
    BY GenerationAssumption DEF Init
<1>3. QED
    BY <1>1, <1>2, GenerationAssumption, JobOfAttempt
    DEF Init, IInv, Ownership, Existence, Room, Unsent, AtMostOnePost,
        NoAttemptRow, IdleTask, IdleRec


LEMMA RowsStep ==
    ASSUME IInv, RowsForward, release' \in Releases, UNCHANGED <<ev, task, net>>,
           rec' \in Readings, rec'.pc # "idle" => rec.pc # "idle" /\ rec'.a = rec.a
    PROVE  IInv'
<1>1. TypeOK'
    BY DEF IInv, TypeOK, RowsForward
<1>2. Ownership'
    BY DEF IInv, Ownership
<1>3. Existence'
    BY JobOfAttempt DEF IInv, TypeOK, Existence, RowsForward
<1>4. Room'
  <2>1. \A j \in Jobs : job'[j].count <= job'[j].max
      BY DEF IInv, TypeOK, Room, RowsForward, JobRows
  <2>2. QED
      BY <2>1 DEF IInv, Room, RowsForward
<1>5. Unsent' /\ AtMostOnePost'
    BY DEF IInv, TypeOK, Unsent, AtMostOnePost, RowsForward, Ownership
<1>6. QED
    BY <1>1, <1>2, <1>3, <1>4, <1>5 DEF IInv

(* One attempt's row and its job's row are replaced.                        *)
LEMMA OneRow ==
    ASSUME IInv, NEW a \in Attempts, att[a].state # "NONE",
           NEW r, RowMoves(att[a], r), NEW p, JobMoves(job[JobOf(a)], p),
           att' = [att EXCEPT ![a] = r], job' = [job EXCEPT ![JobOf(a)] = p]
    PROVE  RowsForward
BY JobOfAttempt
DEF IInv, TypeOK, Existence, Room, RowsForward, JobRows, RowMoves, JobMoves

LEMMA SameJobMoves ==
    ASSUME NEW q \in JobRows
    PROVE  JobMoves(q, q)
BY GenerationAssumption DEF JobMoves, JobRows

(* One attempt's row is replaced.                                           *)
LEMMA OneAttempt ==
    ASSUME IInv, NEW a \in Attempts, att[a].state # "NONE",
           NEW r, RowMoves(att[a], r),
           att' = [att EXCEPT ![a] = r], UNCHANGED job
    PROVE  RowsForward
BY JobOfAttempt, SameJobMoves
DEF IInv, TypeOK, Existence, Room, RowsForward, RowMoves, JobMoves

LEMMA NoRow ==
    ASSUME IInv, UNCHANGED <<att, job>>
    PROVE  RowsForward
BY SameJobMoves DEF IInv, TypeOK, Existence, Room, RowsForward, JobMoves

(* The facts of a recorded attempt.                                         *)
LEMMA Recorded ==
    ASSUME IInv, NEW a \in Attempts, att[a].state # "NONE"
    PROVE  /\ att[a] \in AttemptRows /\ RowMoves(att[a], att[a])
           /\ JobOf(a) \in Jobs /\ job[JobOf(a)] \in JobRows
BY JobOfAttempt DEF IInv, TypeOK, Existence, Room, RowMoves

LEMMA TouchedReading ==
    ASSUME IInv, NEW S, Touch(S)
    PROVE  rec' \in Readings /\ rec'.pc = rec.pc /\ rec'.a = rec.a
BY DEF Touch, IInv, TypeOK, Readings

LEMMA TouchStep ==
    ASSUME IInv, RowsForward, release' \in Releases, UNCHANGED <<ev, task, net>>,
           NEW S, Touch(S)
    PROVE  IInv'
BY RowsStep, TouchedReading

-----------------------------------------------------------------------------
(* The fields of a row, one at a time                                       *)

LEMMA StateMoves ==
    ASSUME NEW x, NEW y, RowMoves(x, y), NEW s \in AttemptStates \ {"NONE", "CREATED"}
    PROVE  RowMoves(x, [y EXCEPT !.state = s])
BY DEF RowMoves, AttemptRows

LEMMA FlagsMove ==
    ASSUME NEW x, NEW y, RowMoves(x, y)
    PROVE  RowMoves(x, [y EXCEPT !.ext = TRUE]) /\ RowMoves(x, [y EXCEPT !.staged = TRUE])
BY DEF RowMoves, AttemptRows

LEMMA SeenMoves ==
    ASSUME NEW x, NEW y, RowMoves(x, y), NEW z \in 0..3
    PROVE  RowMoves(x, [y EXCEPT !.seen = z])
BY DEF RowMoves, AttemptRows

LEMMA MissesMove ==
    ASSUME NEW x, NEW y, RowMoves(x, y), NEW m \in Nat, m < Confirmations
    PROVE  /\ RowMoves(x, [y EXCEPT !.misses = m])
           /\ RowMoves(x, [y EXCEPT !.stopMisses = m])
BY GenerationAssumption DEF RowMoves, AttemptRows

LEMMA ConstantsMove ==
    ASSUME NEW x, NEW y, RowMoves(x, y)
    PROVE  /\ RowMoves(x, [y EXCEPT !.seen = 1]) /\ RowMoves(x, [y EXCEPT !.seen = 3])
           /\ RowMoves(x, [y EXCEPT !.misses = 0])
           /\ RowMoves(x, [y EXCEPT !.stopMisses = 0])
BY GenerationAssumption DEF RowMoves, AttemptRows

LEMMA HeldMoves ==
    ASSUME NEW x, NEW y, RowMoves(x, y), NEW h \in {"none", "held", "released"}
    PROVE  RowMoves(x, [y EXCEPT !.held = h])
BY DEF RowMoves, AttemptRows

LEMMA CodeMoves ==
    ASSUME NEW x, NEW y, RowMoves(x, y), NEW c \in {"none", "infra", "nearblack", "other"}
    PROVE  RowMoves(x, [y EXCEPT !.code = c])
BY DEF RowMoves, AttemptRows

LEMMA CancelMoves ==
    ASSUME NEW x, NEW y, RowMoves(x, y), NEW k \in {"none", "watchdog", "stop"}
    PROVE  RowMoves(x, [y EXCEPT !.cancel = k])
BY DEF RowMoves, AttemptRows

LEMMA GrantMoves ==
    ASSUME NEW x, NEW y, RowMoves(x, y), NEW g \in {"none", "infra", "nearblack"}
    PROVE  RowMoves(x, [y EXCEPT !.grant = g])
BY DEF RowMoves, AttemptRows

LEMMA ReleasedRange ==
    ASSUME NEW x \in AttemptRows
    PROVE  Released(x.held) \in {"none", "held", "released"}
BY DEF Released, AttemptRows

LEMMA JobStateMoves ==
    ASSUME NEW q \in JobRows, NEW s \in JobStates
    PROVE  JobMoves(q, [q EXCEPT !.state = s])
BY GenerationAssumption DEF JobRows, JobMoves

LEMMA RetryMoves ==
    ASSUME NEW q \in JobRows
    PROVE  /\ RetryOrFail(q) \in JobStates
           /\ q.max < AttemptLimit => JobMoves(q, Granted(q)) /\ Granted(q) \in JobRows
BY GenerationAssumption
DEF RetryOrFail, Granted, JobRows, JobStates, TerminalJob, UnstartedJob, JobMoves

LEMMA TwoJobMoves ==
    ASSUME NEW q \in JobRows, NEW p, NEW o, JobMoves(q, p), JobMoves(p, o)
    PROVE  JobMoves(q, o)
BY GenerationAssumption DEF JobMoves, JobRows

(* The updates that resolve or hold an attempt, as a whole.                 *)
LEMMA UnknownMoves ==
    ASSUME NEW x, RowMoves(x, x), NEW m \in Nat, NEW n \in Nat,
           m < Confirmations, n < Confirmations
    PROVE  RowMoves(x, [x EXCEPT !.state = "UNKNOWN", !.code = "other", !.cancel = "none",
                                 !.misses = m, !.stopMisses = n])
<1> DEFINE y == [x EXCEPT !.state = "UNKNOWN"]
           z == [y EXCEPT !.code = "other"]
           w == [z EXCEPT !.cancel = "none"]
           v == [w EXCEPT !.misses = m]
<1>1. RowMoves(x, y)
    BY StateMoves DEF AttemptStates, Nonterminal, RemoteOrAmbiguous, Reconcilable
<1> HIDE DEF y
<1>2. RowMoves(x, z)
    BY <1>1, CodeMoves
<1> HIDE DEF z
<1>3. RowMoves(x, w)
    BY <1>2, CancelMoves
<1> HIDE DEF w
<1>4. RowMoves(x, v)
    BY <1>3, MissesMove
<1> HIDE DEF v
<1>5. RowMoves(x, [v EXCEPT !.stopMisses = n])
    BY <1>4, MissesMove
<1>6. QED
    BY <1>5 DEF v, w, z, y

LEMMA AbsentMoves ==
    ASSUME NEW x, RowMoves(x, x), NEW s \in TerminalAttempt,
           NEW c \in {"none", "infra", "nearblack", "other"}
    PROVE  RowMoves(x, [x EXCEPT !.state = s, !.seen = 3, !.code = c, !.cancel = "none",
                                 !.misses = 0, !.stopMisses = 0, !.held = Released(x.held)])
<1> DEFINE y == [x EXCEPT !.state = s]
           z == [y EXCEPT !.seen = 3]
           w == [z EXCEPT !.code = c]
           v == [w EXCEPT !.cancel = "none"]
           u == [v EXCEPT !.misses = 0]
           t == [u EXCEPT !.stopMisses = 0]
           h == Released(x.held)
<1>1. RowMoves(x, y)
    BY StateMoves DEF AttemptStates, TerminalAttempt, Nonterminal, RemoteOrAmbiguous, Reconcilable
<1>2. h \in {"none", "held", "released"}
    BY ReleasedRange DEF RowMoves
<1> HIDE DEF y, h
<1>3. RowMoves(x, z)
    BY <1>1, ConstantsMove
<1> HIDE DEF z
<1>4. RowMoves(x, w)
    BY <1>3, CodeMoves
<1> HIDE DEF w
<1>5. RowMoves(x, v)
    BY <1>4, CancelMoves
<1> HIDE DEF v
<1>6. RowMoves(x, u)
    BY <1>5, ConstantsMove
<1> HIDE DEF u
<1>7. RowMoves(x, t)
    BY <1>6, ConstantsMove
<1> HIDE DEF t
<1>8. RowMoves(x, [t EXCEPT !.held = h])
    BY <1>2, <1>7, HeldMoves
<1>9. QED
    BY <1>8 DEF t, u, v, w, z, y, h

LEMMA RankRange ==
    ASSUME NEW s
    PROVE  Rank(s) \in 0..3
BY DEF Rank

LEMMA SetJobMoves ==
    ASSUME IInv, NEW a \in Attempts, NEW s \in JobStates, SetJob(a, s)
    PROVE  \E p : JobMoves(job[JobOf(a)], p) /\ job' = [job EXCEPT ![JobOf(a)] = p]
<1> DEFINE q == job[JobOf(a)]
           t == IF q.state \in TerminalJob THEN q.state ELSE s
<1>1. q \in JobRows
    BY JobOfAttempt DEF IInv, TypeOK
<1>2. t \in JobStates
    BY <1>1 DEF JobRows
<1>3. job' = [job EXCEPT ![JobOf(a)] = [q EXCEPT !.state = t]]
    BY DEF SetJob
<1> HIDE DEF t
<1>4. JobMoves(q, [q EXCEPT !.state = t])
    BY <1>1, <1>2, JobStateMoves
<1>5. QED
    BY <1>3, <1>4

-----------------------------------------------------------------------------
(* Several rows at once                                                     *)

LEMMA ManyRows ==
    ASSUME IInv, att' = [a \in Attempts |-> att'[a]], job' = [j \in Jobs |-> job'[j]],
           \A a \in Attempts :
               att'[a] = att[a] \/ (att[a].state # "NONE" /\ RowMoves(att[a], att'[a])),
           \A j \in Jobs : JobMoves(job[j], job'[j])
    PROVE  RowsForward
<1>1. \A a \in Attempts : att'[a] \in AttemptRows
    BY DEF IInv, TypeOK, RowMoves
<1>2. \A j \in Jobs : job'[j] \in JobRows
    BY DEF JobMoves
<1>3. att' \in [Attempts -> AttemptRows] /\ job' \in [Jobs -> JobRows]
    BY <1>1, <1>2
<1>4. \A a \in Attempts :
          /\ att'[a].state = "NONE" <=> att[a].state = "NONE"
          /\ att'[a].state = "CREATED" => att[a].state = "CREATED"
          /\ att'[a].state = "NONE" => ~att'[a].ext
          /\ att'[a].misses < Confirmations /\ att'[a].stopMisses < Confirmations
    BY DEF IInv, Existence, Room, RowMoves
<1>5. QED
    BY <1>3, <1>4 DEF RowsForward, JobMoves

LEMMA EndMoves ==
    ASSUME NEW x, RowMoves(x, x), NEW s \in {"FAILED", "UNKNOWN"}
    PROVE  RowMoves(x, [x EXCEPT !.state = s, !.code = "other"])
<1> DEFINE y == [x EXCEPT !.state = s]
<1>1. RowMoves(x, y)
    BY StateMoves
    DEF AttemptStates, Nonterminal, RemoteOrAmbiguous, Reconcilable, TerminalAttempt
<1> HIDE DEF y
<1>2. RowMoves(x, [y EXCEPT !.code = "other"])
    BY <1>1, CodeMoves
<1>3. QED
    BY <1>2 DEF y

-----------------------------------------------------------------------------
(* The reconciler                                                           *)

(* What the reconciler holds is a row that exists.                          *)
LEMMA Held ==
    ASSUME IInv, rec.pc # "idle"
    PROVE  /\ rec.a \in Attempts /\ att[rec.a].state # "NONE"
           /\ att[rec.a] \in AttemptRows /\ RowMoves(att[rec.a], att[rec.a])
           /\ JobOf(rec.a) \in Jobs /\ job[JobOf(rec.a)] \in JobRows
BY Recorded DEF IInv, Existence

LEMMA StayUnknownRows ==
    ASSUME IInv, rec.pc # "idle", NEW m \in Nat, NEW n \in Nat,
           m < Confirmations, n < Confirmations, StayUnknown(rec.a, m, n)
    PROVE  RowsForward
<1> DEFINE a == rec.a
           r == IF ~AttemptLives(a) THEN att[a]
                ELSE [att[a] EXCEPT !.state = "UNKNOWN", !.code = "other", !.cancel = "none",
                                    !.misses = m, !.stopMisses = n]
<1>1. RowMoves(att[a], r)
  <2>1. CASE ~AttemptLives(a)
      BY <2>1, Held
  <2>2. CASE AttemptLives(a)
      BY <2>2, Held, UnknownMoves
  <2>3. QED
      BY <2>1, <2>2
<1>2. att' = [att EXCEPT ![a] = r]
    BY DEF StayUnknown
<1>3. "UNKNOWN" \in JobStates
    BY DEF JobStates, RemoteOrAmbiguousJob
<1>4. PICK p : JobMoves(job[JobOf(a)], p) /\ job' = [job EXCEPT ![JobOf(a)] = p]
    BY <1>3, Held, SetJobMoves DEF StayUnknown
<1> HIDE DEF r
<1>5. QED
    BY <1>1, <1>2, <1>4, Held, OneRow

LEMMA StopAbsentRows ==
    ASSUME IInv, rec.pc # "idle", StopProviderAbsent(rec.a)
    PROVE  RowsForward
<1> DEFINE a == rec.a
           s == IF att[a].ext THEN "CANCELLED" ELSE "FAILED"
           c == "other"
           r == [att[a] EXCEPT
                    !.state = s, !.seen = 3, !.code = c, !.cancel = "none", !.misses = 0,
                    !.stopMisses = 0, !.held = Released(att[a].held)]
<1>1. att' = [att EXCEPT ![a] = r]
    BY DEF StopProviderAbsent
<1>2. s \in TerminalAttempt /\ c \in {"none", "infra", "nearblack", "other"}
    BY DEF TerminalAttempt
<1> HIDE DEF s, c
<1>3. RowMoves(att[a], r)
    BY <1>2, Held, AbsentMoves
<1>4. "CANCELLED" \in JobStates
    BY DEF JobStates, TerminalJob
<1>5. PICK p : JobMoves(job[JobOf(a)], p) /\ job' = [job EXCEPT ![JobOf(a)] = p]
    BY <1>4, Held, SetJobMoves DEF StopProviderAbsent
<1> HIDE DEF r
<1>6. QED
    BY <1>1, <1>3, <1>5, Held, OneRow

LEMMA AbsentRows ==
    ASSUME IInv, rec.pc # "idle", ProviderJobAbsent(rec.a)
    PROVE  RowsForward
<1> DEFINE a == rec.a
           old == job[JobOf(a)]
           granted == MayGrant(a, "infra")
           s == "FAILED"
           c == "infra"
           g == IF granted THEN "infra" ELSE att[a].grant
           y == [att[a] EXCEPT
                    !.state = s, !.seen = 3, !.code = c, !.cancel = "none",
                    !.misses = 0, !.stopMisses = 0, !.held = Released(att[a].held)]
           r == [y EXCEPT !.grant = g]
           t == RetryOrFail(old)
           p == IF granted THEN Granted(old)
                ELSE IF old.state \in TerminalJob THEN old ELSE [old EXCEPT !.state = t]
<1>1. att' = [att EXCEPT ![a] = r]
    BY DEF ProviderJobAbsent
<1>2. job' = [job EXCEPT ![JobOf(a)] = p]
    BY DEF ProviderJobAbsent
<1>3. s \in TerminalAttempt /\ c \in {"none", "infra", "nearblack", "other"}
    BY DEF TerminalAttempt
<1>4. g \in {"none", "infra", "nearblack"}
    BY Held DEF AttemptRows
<1>5. old \in JobRows /\ t \in JobStates
    BY Held, RetryMoves
<1>6. JobMoves(old, p)
  <2>1. CASE granted
      BY <1>5, <2>1, RetryMoves DEF MayGrant
  <2>2. CASE ~granted /\ old.state \in TerminalJob
      BY <1>5, <2>2, SameJobMoves
  <2> HIDE DEF t
  <2>3. CASE ~granted /\ old.state \notin TerminalJob
      BY <1>5, <2>3, JobStateMoves
  <2>4. QED
      BY <2>1, <2>2, <2>3
<1> HIDE DEF s, c, g, p
<1>7. RowMoves(att[a], y)
    BY <1>3, Held, AbsentMoves
<1> HIDE DEF y
<1>8. RowMoves(att[a], r)
    BY <1>4, <1>7, GrantMoves
<1> HIDE DEF r
<1>9. QED
    BY <1>1, <1>2, <1>6, <1>8, Held, OneRow

LEMMA IdleReading == IdleRec \in Readings /\ IdleRec.pc = "idle"
BY DEF IdleRec, Readings

(* As RowsStep, for a reconciler that takes up a recorded attempt.          *)
LEMMA RecordedStep ==
    ASSUME IInv, RowsForward, UNCHANGED <<release, ev, task, net>>,
           rec' \in Readings, rec'.a \in Attempts, att[rec'.a].state # "NONE"
    PROVE  IInv'
<1>1. TypeOK'
    BY DEF IInv, TypeOK, RowsForward
<1>2. Ownership'
    BY DEF IInv, Ownership
<1>3. Existence'
    BY JobOfAttempt DEF IInv, TypeOK, Existence, RowsForward
<1>4. Room'
  <2>1. \A j \in Jobs : job'[j].count <= job'[j].max
      BY DEF IInv, TypeOK, Room, RowsForward, JobRows
  <2>2. QED
      BY <2>1 DEF IInv, Room, RowsForward
<1>5. Unsent' /\ AtMostOnePost'
    BY DEF IInv, TypeOK, Unsent, AtMostOnePost, RowsForward, Ownership
<1>6. QED
    BY <1>1, <1>2, <1>3, <1>4, <1>5 DEF IInv

(* A reconciler step that ends its pass, or goes on to a DELETE.            *)
LEMMA ReconcilerStep ==
    ASSUME IInv, RowsForward, UNCHANGED <<release, ev, task, net>>,
           Done \/ (rec.pc # "idle" /\ \E pc \in {"stopDelete", "watchdogDelete"} : Deletes(pc))
    PROVE  IInv'
<1>1. CASE Done
    BY <1>1, IdleReading, RowsStep DEF Done, IInv, TypeOK
<1>2. CASE rec.pc # "idle" /\ \E pc \in {"stopDelete", "watchdogDelete"} : Deletes(pc)
  <2>1. PICK pc \in {"stopDelete", "watchdogDelete"} : Deletes(pc)
      BY <1>2
  <2>2. rec' \in Readings /\ rec'.a = rec.a
      BY <1>2, <2>1, Held DEF Deletes, IdleRec, Readings
  <2>3. QED
      BY <1>2, <2>2, RowsStep DEF IInv, TypeOK
<1>3. QED
    BY <1>1, <1>2

LEMMA LatestStatus ==
    ASSUME NEW S \in SUBSET Statuses, S # {}
    PROVE  \E s \in S : \A t \in S : Rank(t) <= Rank(s)
<1>1. CASE \E s \in S : Rank(s) = 3
    BY <1>1 DEF Rank
<1>2. CASE (\A s \in S : Rank(s) # 3) /\ "running" \in S
    BY <1>2 DEF Rank
<1>3. CASE (\A s \in S : Rank(s) # 3) /\ "running" \notin S
    BY <1>3 DEF Rank
<1>4. QED
    BY <1>1, <1>2, <1>3

LEMMA ReadStep ==
    ASSUME IInv, NEW a \in Attempts, ReadProvider(a) \/ ReadFails(a)
    PROVE  IInv'
<1>1. PICK obs \in Misses \cup Statuses : Reads(a, obs)
  <2>1. CASE ReadProvider(a) /\ net[a].wire = "landed" /\ Reads(a, Latest(a))
    <3>1. net[a].hist # {} /\ net[a].hist \in SUBSET Statuses
        BY <2>1 DEF IInv, TypeOK, Room, ProviderRows
    <3>2. Latest(a) \in net[a].hist
        BY <3>1, LatestStatus DEF Latest
    <3>3. QED
        BY <2>1, <3>1, <3>2
  <2>2. CASE ReadProvider(a) /\ Reads(a, "absent")
      BY <2>2 DEF Misses
  <2>3. CASE ReadFails(a)
      BY <2>3 DEF ReadFails, Misses
  <2>4. QED
      BY <2>1, <2>2, <2>3 DEF ReadProvider
<1>2. rec' \in Readings /\ rec'.a = a
    BY <1>1 DEF Reads, Readings
<1>3. att[a].state # "NONE" /\ UNCHANGED <<release, job, att, ev, task, net>>
    BY DEF ReadProvider, ReadFails, Reconcilable
<1>4. RowsForward
    BY <1>3, NoRow
<1>5. QED
    BY <1>2, <1>3, <1>4, RecordedStep

LEMMA ApplyAbsenceStep == IInv /\ ApplyAbsence => IInv'
<1> SUFFICES ASSUME IInv, ApplyAbsence PROVE IInv'
    OBVIOUS
<1> DEFINE a == rec.a
<1>1. rec.pc # "idle"
    BY DEF ApplyAbsence, Read
<1>2. /\ att[a].misses \in Nat /\ att[a].stopMisses \in Nat
      /\ att[a].misses < Confirmations /\ att[a].stopMisses < Confirmations
      /\ Confirmations \in Nat
    BY <1>1, Held, GenerationAssumption DEF AttemptRows, RowMoves
<1>3. RowsForward
  <2>1. CASE StopProviderAbsent(a)
      BY <1>1, <2>1, StopAbsentRows
  <2>2. CASE ProviderJobAbsent(a)
      BY <1>1, <2>2, AbsentRows
  <2>3. CASE ~Proven(att[a].stopMisses) /\ StayUnknown(a, att[a].misses, att[a].stopMisses + 1)
      BY <1>1, <1>2, <2>3, StayUnknownRows DEF Proven
  <2>4. CASE ~Proven(att[a].misses) /\ StayUnknown(a, att[a].misses + 1, att[a].stopMisses)
      BY <1>1, <1>2, <2>4, StayUnknownRows DEF Proven
  <2>5. QED
      BY <2>1, <2>2, <2>3, <2>4 DEF ApplyAbsence
<1>4. QED
    BY <1>3, ReconcilerStep DEF ApplyAbsence

LEMMA ApplyNothingStep == IInv /\ (ApplyInconclusive \/ ApplyMissing) => IInv'
<1> SUFFICES ASSUME IInv, ApplyInconclusive \/ ApplyMissing PROVE IInv'
    OBVIOUS
<1> DEFINE a == rec.a
<1>1. rec.pc # "idle"
    BY DEF ApplyInconclusive, ApplyMissing, Read
<1>2. PICK m \in {0, att[a].misses}, n \in {0, att[a].stopMisses} : StayUnknown(a, m, n)
    BY DEF ApplyInconclusive, ApplyMissing
<1>3. m \in Nat /\ n \in Nat /\ m < Confirmations /\ n < Confirmations
    BY <1>1, Held, GenerationAssumption DEF AttemptRows, RowMoves
<1>4. RowsForward
    BY <1>1, <1>2, <1>3, StayUnknownRows
<1>5. QED
    BY <1>4, ReconcilerStep DEF ApplyInconclusive, ApplyMissing

LEMMA ApplyErrorStep == IInv /\ ApplyError => IInv'
<1> SUFFICES ASSUME IInv, ApplyError PROVE IInv'
    OBVIOUS
<1> DEFINE a == rec.a
           n == IF release.stop THEN 0 ELSE att[a].stopMisses
           y == [att[a] EXCEPT !.code = "other"]
           z == [y EXCEPT !.cancel = "none"]
           w == [z EXCEPT !.misses = 0]
           r == [w EXCEPT !.stopMisses = n]
<1>1. rec.pc # "idle"
    BY DEF ApplyError, Read
<1>2. att' = [att EXCEPT ![a] = r]
    BY DEF ApplyError
<1>3. n \in Nat /\ n < Confirmations
    BY <1>1, Held, GenerationAssumption DEF AttemptRows, RowMoves
<1> HIDE DEF n
<1>4. RowMoves(att[a], y)
    BY <1>1, Held, CodeMoves
<1> HIDE DEF y
<1>5. RowMoves(att[a], z)
    BY <1>4, CancelMoves
<1> HIDE DEF z
<1>6. RowMoves(att[a], w)
    BY <1>5, ConstantsMove
<1> HIDE DEF w
<1>7. RowMoves(att[a], r)
    BY <1>3, <1>6, MissesMove
<1> HIDE DEF r
<1>8. RowsForward
    BY <1>1, <1>2, <1>7, Held, OneAttempt DEF ApplyError
<1>9. QED
    BY <1>8, ReconcilerStep DEF ApplyError

(* A step that ends the reconciler's pass and changes no row.               *)
LEMMA PassEnds ==
    ASSUME IInv, Done, UNCHANGED <<release, job, att, ev, task, net>>
    PROVE  IInv'
BY NoRow, ReconcilerStep

-----------------------------------------------------------------------------
(* The reconciler's observations of a status                                *)

LEMMA TargetRange ==
    ASSUME NEW a, NEW s
    PROVE  /\ Target(a, s) \in AttemptStates \ {"NONE", "CREATED"}
           /\ Target(a, s) \in {"SUBMITTED", "RUNNING", "SUCCEEDED", "FAILED", "CANCELLED"}
           /\ FailureCode(a, s) \in {"none", "infra", "nearblack", "other"}
<1>1. Target(a, s) \in {"SUBMITTED", "RUNNING", "SUCCEEDED", "FAILED", "CANCELLED"}
    BY DEF Target
<1>2. FailureCode(a, s) \in {"none", "infra", "nearblack", "other"}
    BY DEF FailureCode
<1>3. QED
    BY <1>1, <1>2
    DEF AttemptStates, TerminalAttempt, Nonterminal, RemoteOrAmbiguous, Reconcilable

LEMMA JobStateForRange ==
    ASSUME NEW q \in JobRows,
           NEW t \in {"SUBMITTED", "RUNNING", "SUCCEEDED", "FAILED", "CANCELLED"}
    PROVE  JobStateFor(q, t) \in JobStates
<1>1. RetryOrFail(q) \in JobStates
    BY RetryMoves
<1> HIDE DEF RetryOrFail
<1>2. QED
    BY <1>1 DEF JobStateFor, JobStates, RemoteOrAmbiguousJob, TerminalJob

LEMMA IgnoreRows ==
    ASSUME IInv, rec.pc # "idle", NEW s, IgnoreStatus(rec.a, s)
    PROVE  RowsForward
<1> DEFINE a == rec.a
           c == IF AttemptLives(a) \/ StaleStatus(a, s) THEN att[a].code ELSE "other"
           y == [att[a] EXCEPT !.misses = 0]
           r == [y EXCEPT !.code = c]
<1>1. att' = [att EXCEPT ![a] = r]
    BY DEF IgnoreStatus
<1>2. c \in {"none", "infra", "nearblack", "other"}
    BY Held DEF AttemptRows
<1> HIDE DEF c
<1>3. RowMoves(att[a], y)
    BY Held, ConstantsMove
<1> HIDE DEF y
<1>4. RowMoves(att[a], r)
    BY <1>2, <1>3, CodeMoves
<1> HIDE DEF r
<1>5. QED
    BY <1>1, <1>4, Held, OneAttempt DEF IgnoreStatus

LEMMA ObserveRows ==
    ASSUME IInv, rec.pc # "idle", NEW s, Observe(rec.a, s)
    PROVE  RowsForward
<1> DEFINE a == rec.a
           old == job[JobOf(a)]
           target == Target(a, s)
           kind == FailureCode(a, s)
           granted == kind \in {"infra", "nearblack"} /\ MayGrant(a, kind)
           h == IF target \in TerminalAttempt THEN Released(att[a].held) ELSE att[a].held
           g == IF granted THEN kind ELSE att[a].grant
           rank == Rank(s)
           r1 == [att[a] EXCEPT !.state = target]
           r2 == [r1 EXCEPT !.ext = TRUE]
           r3 == [r2 EXCEPT !.seen = rank]
           r4 == [r3 EXCEPT !.misses = 0]
           r5 == [r4 EXCEPT !.stopMisses = 0]
           r6 == [r5 EXCEPT !.code = kind]
           r7 == [r6 EXCEPT !.cancel = "none"]
           r8 == [r7 EXCEPT !.held = h]
           r == [r8 EXCEPT !.grant = g]
           q == IF granted THEN Granted(old) ELSE old
           t == IF s = "nearblack" /\ ~granted THEN "DEAD_LETTER" ELSE JobStateFor(q, target)
           p == IF ~Current(a) \/ q.state \in TerminalJob THEN q ELSE [q EXCEPT !.state = t]
<1>1. att' = [att EXCEPT ![a] = r]
    BY DEF Observe
<1>2. job' = [job EXCEPT ![JobOf(a)] = p]
    BY DEF Observe
<1>3. h \in {"none", "held", "released"}
    BY Held, ReleasedRange DEF AttemptRows
<1>4. kind \in {"none", "infra", "nearblack", "other"}
    BY TargetRange
<1>5. g \in {"none", "infra", "nearblack"}
    BY Held DEF AttemptRows
<1>6. JobMoves(old, q) /\ q \in JobRows
    BY Held, RetryMoves, SameJobMoves DEF MayGrant
<1>7. t \in JobStates
    BY <1>6, TargetRange, JobStateForRange DEF JobStates, TerminalJob
<1>8. target \in AttemptStates \ {"NONE", "CREATED"}
    BY TargetRange
<1>9. rank \in 0..3
    BY RankRange
<1> HIDE DEF target, kind, granted, h, g, q, t, rank
<1>10. RowMoves(att[a], r1)
    BY <1>8, Held, StateMoves
<1> HIDE DEF r1
<1>11. RowMoves(att[a], r2)
    BY <1>10, FlagsMove
<1> HIDE DEF r2
<1>12. RowMoves(att[a], r3)
    BY <1>9, <1>11, SeenMoves
<1> HIDE DEF r3
<1>13. RowMoves(att[a], r4)
    BY <1>12, ConstantsMove
<1> HIDE DEF r4
<1>14. RowMoves(att[a], r5)
    BY <1>13, ConstantsMove
<1> HIDE DEF r5
<1>15. RowMoves(att[a], r6)
    BY <1>4, <1>14, CodeMoves
<1> HIDE DEF r6
<1>16. RowMoves(att[a], r7)
    BY <1>15, CancelMoves
<1> HIDE DEF r7
<1>17. RowMoves(att[a], r8)
    BY <1>3, <1>16, HeldMoves
<1> HIDE DEF r8
<1>18. RowMoves(att[a], r)
    BY <1>5, <1>17, GrantMoves
<1>19. JobMoves(old, p)
    BY <1>6, <1>7, Held, JobStateMoves, TwoJobMoves
<1> HIDE DEF r, p
<1>20. QED
    BY <1>1, <1>2, <1>18, <1>19, Held, OneRow

LEMMA ApplyStatusStep == IInv /\ ApplyStatus => IInv'
<1> SUFFICES ASSUME IInv, ApplyStatus PROVE IInv'
    OBVIOUS
<1>1. rec.pc # "idle"
    BY DEF ApplyStatus, Read
<1>2. IgnoreStatus(rec.a, rec.obs) \/ Observe(rec.a, rec.obs)
    BY DEF ApplyStatus
<1>3. RowsForward
    BY <1>1, <1>2, IgnoreRows, ObserveRows
<1>4. QED
    BY <1>3, ReconcilerStep DEF ApplyStatus

-----------------------------------------------------------------------------
(* The reconciler's cancellations                                           *)

LEMMA LaterRange ==
    ASSUME NEW x \in AttemptRows, NEW s
    PROVE  Later(x.seen, s) \in 0..3
BY DEF Later, Rank, AttemptRows

LEMMA BeginStopCancelStep == IInv /\ BeginStopCancel => IInv'
<1> SUFFICES ASSUME IInv, BeginStopCancel PROVE IInv'
    OBVIOUS
<1> DEFINE a == rec.a
           later == Later(att[a].seen, rec.obs)
           y == [att[a] EXCEPT !.ext = TRUE]
           z == [y EXCEPT !.stopMisses = 0]
           r == [z EXCEPT !.seen = later]
<1>1. rec.pc # "idle" /\ UNCHANGED <<release, job, ev, task, net>>
    BY DEF BeginStopCancel, Read
<1>2. CASE Done /\ UNCHANGED att
    BY <1>1, <1>2, PassEnds
<1>3. CASE Deletes("stopDelete") /\ att' = [att EXCEPT ![a] = r]
  <2>1. later \in 0..3
      BY <1>1, Held, LaterRange
  <2> HIDE DEF later
  <2>2. RowMoves(att[a], y)
      BY <1>1, Held, FlagsMove
  <2> HIDE DEF y
  <2>3. RowMoves(att[a], z)
      BY <2>2, ConstantsMove
  <2> HIDE DEF z
  <2>4. RowMoves(att[a], r)
      BY <2>1, <2>3, SeenMoves
  <2> HIDE DEF r
  <2>5. RowsForward
      BY <1>1, <1>3, <2>4, Held, OneAttempt
  <2>6. QED
      BY <1>1, <1>3, <2>5, ReconcilerStep
<1>4. QED
    BY <1>2, <1>3 DEF BeginStopCancel

LEMMA RecordStopCancelStep == IInv /\ RecordStopCancel => IInv'
<1> SUFFICES ASSUME IInv, RecordStopCancel PROVE IInv'
    OBVIOUS
<1> DEFINE a == rec.a
           y == [att[a] EXCEPT !.state = "CANCEL_REQUESTED"]
           z == [y EXCEPT !.cancel = "stop"]
           w == [z EXCEPT !.code = "other"]
           v == [w EXCEPT !.misses = 0]
           r == [v EXCEPT !.stopMisses = 0]
<1>1. rec.pc # "idle" /\ Done /\ UNCHANGED <<release, ev, task, net>>
    BY DEF RecordStopCancel
<1>2. CASE UNCHANGED <<att, job>>
    BY <1>1, <1>2, PassEnds
<1>3. CASE att' = [att EXCEPT ![a] = r] /\ SetJob(a, "CANCEL_REQUESTED")
  <2>1. RowMoves(att[a], y)
      BY <1>1, Held, StateMoves
      DEF AttemptStates, TerminalAttempt, Nonterminal, RemoteOrAmbiguous, Reconcilable
  <2> HIDE DEF y
  <2>2. RowMoves(att[a], z)
      BY <2>1, CancelMoves
  <2> HIDE DEF z
  <2>3. RowMoves(att[a], w)
      BY <2>2, CodeMoves
  <2> HIDE DEF w
  <2>4. RowMoves(att[a], v)
      BY <2>3, ConstantsMove
  <2> HIDE DEF v
  <2>5. RowMoves(att[a], r)
      BY <2>4, ConstantsMove
  <2> HIDE DEF r
  <2>6. "CANCEL_REQUESTED" \in JobStates
      BY DEF JobStates, RemoteOrAmbiguousJob
  <2>7. PICK p : JobMoves(job[JobOf(a)], p) /\ job' = [job EXCEPT ![JobOf(a)] = p]
      BY <1>1, <1>3, <2>6, Held, SetJobMoves
  <2>8. RowsForward
      BY <1>1, <1>3, <2>5, <2>7, Held, OneRow
  <2>9. QED
      BY <1>1, <2>8, ReconcilerStep
<1>4. QED
    BY <1>2, <1>3 DEF RecordStopCancel

LEMMA BeginWatchdogCancelStep == IInv /\ BeginWatchdogCancel => IInv'
<1> SUFFICES ASSUME IInv, BeginWatchdogCancel PROVE IInv'
    OBVIOUS
<1> DEFINE a == rec.a
           later == Later(att[a].seen, rec.obs)
           y == [att[a] EXCEPT !.state = "CANCEL_REQUESTED"]
           z == [y EXCEPT !.cancel = "watchdog"]
           w == [z EXCEPT !.ext = TRUE]
           v == [w EXCEPT !.misses = 0]
           u == [v EXCEPT !.stopMisses = 0]
           r == [u EXCEPT !.seen = later]
<1>1. rec.pc # "idle" /\ UNCHANGED <<release, job, ev, task, net>>
    BY DEF BeginWatchdogCancel, Read
<1>2. CASE UNCHANGED att /\ (Done \/ Deletes("watchdogDelete"))
    BY <1>1, <1>2, NoRow, ReconcilerStep
<1>3. CASE Deletes("watchdogDelete") /\ att' = [att EXCEPT ![a] = r]
  <2>1. later \in 0..3
      BY <1>1, Held, LaterRange
  <2> HIDE DEF later
  <2>2. RowMoves(att[a], y)
      BY <1>1, Held, StateMoves
      DEF AttemptStates, TerminalAttempt, Nonterminal, RemoteOrAmbiguous, Reconcilable
  <2> HIDE DEF y
  <2>3. RowMoves(att[a], z)
      BY <2>2, CancelMoves
  <2> HIDE DEF z
  <2>4. RowMoves(att[a], w)
      BY <2>3, FlagsMove
  <2> HIDE DEF w
  <2>5. RowMoves(att[a], v)
      BY <2>4, ConstantsMove
  <2> HIDE DEF v
  <2>6. RowMoves(att[a], u)
      BY <2>5, ConstantsMove
  <2> HIDE DEF u
  <2>7. RowMoves(att[a], r)
      BY <2>1, <2>6, SeenMoves
  <2> HIDE DEF r
  <2>8. RowsForward
      BY <1>1, <1>3, <2>7, Held, OneAttempt
  <2>9. QED
      BY <1>1, <1>3, <2>8, ReconcilerStep
<1>4. QED
    BY <1>2, <1>3 DEF BeginWatchdogCancel

LEMMA CancelFailsStep == IInv /\ CancelFails => IInv'
<1> SUFFICES ASSUME IInv, CancelFails PROVE IInv'
    OBVIOUS
<1> DEFINE a == rec.a
           y == [att[a] EXCEPT !.code = "other"]
           r == [y EXCEPT !.cancel = "none"]
<1>1. rec.pc # "idle" /\ Done /\ UNCHANGED <<release, job, ev, task, net>>
    BY DEF CancelFails
<1>2. CASE UNCHANGED att
    BY <1>1, <1>2, PassEnds
<1>3. CASE att' = [att EXCEPT ![a] = r]
  <2>1. RowMoves(att[a], y)
      BY <1>1, Held, CodeMoves
  <2> HIDE DEF y
  <2>2. RowMoves(att[a], r)
      BY <2>1, CancelMoves
  <2> HIDE DEF r
  <2>3. RowsForward
      BY <1>1, <1>3, <2>2, Held, OneAttempt
  <2>4. QED
      BY <1>1, <2>3, ReconcilerStep
<1>4. QED
    BY <1>2, <1>3 DEF CancelFails

LEMMA ReconcilerSteps ==
    ASSUME IInv, Applying \/ ReconcilerCrash \/ \E a \in Attempts : ReadProvider(a) \/ ReadFails(a)
    PROVE  IInv'
<1>1. CASE DropStaleAbsence \/ EndWatchdogCancel \/ ReconcilerCrash
    BY <1>1, PassEnds DEF DropStaleAbsence, EndWatchdogCancel, ReconcilerCrash
<1>2. CASE \E a \in Attempts : ReadProvider(a) \/ ReadFails(a)
    BY <1>2, ReadStep
<1>3. QED
    BY <1>1, <1>2, ApplyAbsenceStep, ApplyNothingStep, ApplyErrorStep, ApplyStatusStep,
       BeginStopCancelStep, RecordStopCancelStep, BeginWatchdogCancelStep, CancelFailsStep
    DEF Applying

-----------------------------------------------------------------------------
(* The webhook inbox                                                        *)

LEMMA ConfirmRows ==
    ASSUME IInv, NEW a \in Attempts, att[a].state # "NONE", NEW raw, ConfirmTerminal(a, raw)
    PROVE  RowsForward
<1> DEFINE rank == Rank(raw)
           h == Released(att[a].held)
           y == [att[a] EXCEPT !.seen = rank]
           r == [y EXCEPT !.held = h]
<1>1. att' = [att EXCEPT ![a] = r]
    BY DEF ConfirmTerminal
<1>2. rank \in 0..3 /\ h \in {"none", "held", "released"}
    BY Recorded, RankRange, ReleasedRange
<1> HIDE DEF rank, h
<1>3. RowMoves(att[a], y)
    BY <1>2, Recorded, SeenMoves
<1> HIDE DEF y
<1>4. RowMoves(att[a], r)
    BY <1>2, <1>3, HeldMoves
<1> HIDE DEF r
<1>5. QED
    BY <1>1, <1>4, OneAttempt DEF ConfirmTerminal

LEMMA ActiveRows ==
    ASSUME IInv, NEW a \in Attempts, att[a].state # "NONE", NEW raw, ObserveActive(a, raw)
    PROVE  RowsForward
<1> DEFINE rank == Rank(raw)
           s == IF raw = "pending" THEN "SUBMITTED" ELSE "RUNNING"
           o == [att[a] EXCEPT !.seen = rank]
           y == [att[a] EXCEPT !.state = s]
           z == [y EXCEPT !.seen = rank]
           w == [z EXCEPT !.code = "none"]
           r == [w EXCEPT !.cancel = "none"]
           p == [job[JobOf(a)] EXCEPT !.state = "RUNNING"]
<1>1. \/ att' = [att EXCEPT ![a] = o] /\ UNCHANGED job
      \/ att' = [att EXCEPT ![a] = r] /\ job' = [job EXCEPT ![JobOf(a)] = p]
    BY DEF ObserveActive
<1>2. rank \in 0..3
    BY RankRange
<1>3. s \in AttemptStates \ {"NONE", "CREATED"}
    BY DEF AttemptStates, Nonterminal, RemoteOrAmbiguous, Reconcilable, TerminalAttempt
<1> HIDE DEF rank, s
<1>4. RowMoves(att[a], o) /\ RowMoves(att[a], y)
    BY <1>2, <1>3, Recorded, SeenMoves, StateMoves
<1> HIDE DEF o, y
<1>5. RowMoves(att[a], z)
    BY <1>2, <1>4, SeenMoves
<1> HIDE DEF z
<1>6. RowMoves(att[a], w)
    BY <1>5, CodeMoves
<1> HIDE DEF w
<1>7. RowMoves(att[a], r)
    BY <1>6, CancelMoves
<1>8. "RUNNING" \in JobStates
    BY DEF JobStates, RemoteOrAmbiguousJob
<1>9. JobMoves(job[JobOf(a)], p)
    BY <1>8, Recorded, JobStateMoves
<1> HIDE DEF r, p
<1>10. QED
    BY <1>1, <1>4, <1>7, <1>9, OneRow, OneAttempt

LEMMA SuccessRows ==
    ASSUME IInv, NEW a \in Attempts, att[a].state # "NONE", ObserveSuccess(a)
    PROVE  RowsForward
<1> DEFINE y == [att[a] EXCEPT !.state = "UNKNOWN"]
           z == [y EXCEPT !.seen = 3]
           w == [z EXCEPT !.code = "other"]
           r == [w EXCEPT !.cancel = "none"]
           p == [job[JobOf(a)] EXCEPT !.state = "UNKNOWN"]
<1>1. att' = [att EXCEPT ![a] = r] /\ job' = [job EXCEPT ![JobOf(a)] = p]
    BY DEF ObserveSuccess
<1>2. RowMoves(att[a], y)
    BY Recorded, StateMoves
    DEF AttemptStates, Nonterminal, RemoteOrAmbiguous, Reconcilable, TerminalAttempt
<1> HIDE DEF y
<1>3. RowMoves(att[a], z)
    BY <1>2, ConstantsMove
<1> HIDE DEF z
<1>4. RowMoves(att[a], w)
    BY <1>3, CodeMoves
<1> HIDE DEF w
<1>5. RowMoves(att[a], r)
    BY <1>4, CancelMoves
<1>6. "UNKNOWN" \in JobStates
    BY DEF JobStates, RemoteOrAmbiguousJob
<1>7. JobMoves(job[JobOf(a)], p)
    BY <1>6, Recorded, JobStateMoves
<1> HIDE DEF r, p
<1>8. QED
    BY <1>1, <1>5, <1>7, OneRow

LEMMA FailureRows ==
    ASSUME IInv, NEW a \in Attempts, att[a].state # "NONE", ObserveFailure(a)
    PROVE  RowsForward
<1> DEFINE old == job[JobOf(a)]
           granted == MayGrant(a, "infra")
           h == Released(att[a].held)
           g == IF granted THEN "infra" ELSE att[a].grant
           y == [att[a] EXCEPT !.state = "FAILED"]
           z == [y EXCEPT !.seen = 3]
           w == [z EXCEPT !.code = "infra"]
           v == [w EXCEPT !.cancel = "none"]
           u == [v EXCEPT !.held = h]
           r == [u EXCEPT !.grant = g]
           q == IF granted THEN Granted(old) ELSE old
           t == RetryOrFail(q)
           p == [q EXCEPT !.state = t]
<1>1. att' = [att EXCEPT ![a] = r]
    BY DEF ObserveFailure
<1>2. job' = [job EXCEPT ![JobOf(a)] = p]
    BY DEF ObserveFailure
<1>3. h \in {"none", "held", "released"} /\ g \in {"none", "infra", "nearblack"}
    BY Recorded, ReleasedRange DEF AttemptRows
<1>4. old \in JobRows /\ JobMoves(old, q) /\ q \in JobRows
    BY Recorded, RetryMoves, SameJobMoves DEF MayGrant
<1>5. t \in JobStates
    BY <1>4, RetryMoves
<1> HIDE DEF granted, h, g, q, t
<1>6. RowMoves(att[a], y)
    BY Recorded, StateMoves
    DEF AttemptStates, Nonterminal, RemoteOrAmbiguous, Reconcilable, TerminalAttempt
<1> HIDE DEF y
<1>7. RowMoves(att[a], z)
    BY <1>6, ConstantsMove
<1> HIDE DEF z
<1>8. RowMoves(att[a], w)
    BY <1>7, CodeMoves
<1> HIDE DEF w
<1>9. RowMoves(att[a], v)
    BY <1>8, CancelMoves
<1> HIDE DEF v
<1>10. RowMoves(att[a], u)
    BY <1>3, <1>9, HeldMoves
<1> HIDE DEF u
<1>11. RowMoves(att[a], r)
    BY <1>3, <1>10, GrantMoves
<1>12. JobMoves(old, p)
    BY <1>4, <1>5, JobStateMoves, TwoJobMoves
<1> HIDE DEF r, p
<1>13. QED
    BY <1>1, <1>2, <1>11, <1>12, OneRow

LEMMA StoppedRows ==
    ASSUME IInv, NEW a \in Attempts, att[a].state # "NONE", ObserveStopped(a)
    PROVE  RowsForward
<1> DEFINE h == Released(att[a].held)
           y == [att[a] EXCEPT !.state = "CANCELLED"]
           z == [y EXCEPT !.seen = 3]
           w == [z EXCEPT !.code = "none"]
           v == [w EXCEPT !.cancel = "none"]
           r == [v EXCEPT !.held = h]
           p == [job[JobOf(a)] EXCEPT !.state = "CANCELLED"]
<1>1. att' = [att EXCEPT ![a] = r] /\ job' = [job EXCEPT ![JobOf(a)] = p]
    BY DEF ObserveStopped
<1>2. h \in {"none", "held", "released"}
    BY Recorded, ReleasedRange
<1> HIDE DEF h
<1>3. RowMoves(att[a], y)
    BY Recorded, StateMoves
    DEF AttemptStates, Nonterminal, RemoteOrAmbiguous, Reconcilable, TerminalAttempt
<1> HIDE DEF y
<1>4. RowMoves(att[a], z)
    BY <1>3, ConstantsMove
<1> HIDE DEF z
<1>5. RowMoves(att[a], w)
    BY <1>4, CodeMoves
<1> HIDE DEF w
<1>6. RowMoves(att[a], v)
    BY <1>5, CancelMoves
<1> HIDE DEF v
<1>7. RowMoves(att[a], r)
    BY <1>2, <1>6, HeldMoves
<1>8. "CANCELLED" \in JobStates
    BY DEF JobStates, TerminalJob
<1>9. JobMoves(job[JobOf(a)], p)
    BY <1>8, Recorded, JobStateMoves
<1> HIDE DEF r, p
<1>10. QED
    BY <1>1, <1>7, <1>9, OneRow

LEMMA WebhookStep ==
    ASSUME IInv, NEW a \in Attempts, Webhook(a)
    PROVE  IInv'
<1>1. att[a].state # "NONE"
    BY DEF Webhook, IInv, Existence
<1>2. PICK raw : /\ ConfirmTerminal(a, raw) \/ ApplyProviderState(a, raw)
                 /\ Touch({a}) /\ UNCHANGED <<release, ev, task, net>>
    BY DEF Webhook, ConfirmTerminal
<1>3. CASE ConfirmTerminal(a, raw)
    BY <1>1, <1>2, <1>3, ConfirmRows, TouchStep DEF IInv, TypeOK
<1>4. CASE ApplyProviderState(a, raw)
  <2>1. \/ ObserveActive(a, raw) \/ ObserveSuccess(a)
        \/ ObserveStopped(a) \/ ObserveFailure(a)
      BY <1>4 DEF ApplyProviderState
  <2>2. RowsForward
      BY <1>1, <2>1, ActiveRows, SuccessRows, StoppedRows, FailureRows
  <2>3. QED
      BY <1>2, <2>2, TouchStep DEF IInv, TypeOK
<1>5. QED
    BY <1>2, <1>3, <1>4

-----------------------------------------------------------------------------
(* Submit workers                                                           *)

LEMMA Owned ==
    ASSUME IInv, NEW w \in Workers, task[w].pc # "idle"
    PROVE  /\ task[w] \in Tasks /\ task[w].a \in Attempts
           /\ att[task[w].a].state # "NONE"
           /\ ev[task[w].a] \in EventRows /\ ev[task[w].a].tries >= 1
BY DEF IInv, TypeOK, Ownership, Existence

(* A worker goes on with its attempt.                                       *)
LEMMA WorkerMoves ==
    ASSUME IInv, NEW w \in Workers, task[w].pc # "idle", RowsForward,
           NEW t \in Tasks, t.a = task[w].a, t.pc # "idle",
           t.pc = "building" => net[t.a].posts = 0 /\ att'[t.a].state # "CREATED",
           task' = [task EXCEPT ![w] = t], UNCHANGED <<release, ev>>,
           net' \in [Attempts -> ProviderRows],
           \A a \in Attempts : /\ net'[a].posts = net[a].posts
                               /\ net'[a].wire = "landed" => net'[a].hist # {},
           rec' \in Readings, rec'.pc = rec.pc, rec'.a = rec.a
    PROVE  IInv'
<1>1. TypeOK'
    BY DEF IInv, TypeOK, RowsForward
<1>2. Ownership'
    BY DEF IInv, TypeOK, Ownership
<1>3. Existence'
    BY JobOfAttempt DEF IInv, TypeOK, Existence, RowsForward
<1>4. Room'
  <2>1. \A j \in Jobs : job'[j].count <= job'[j].max
      BY DEF IInv, TypeOK, Room, RowsForward, JobRows
  <2>2. QED
      BY <2>1 DEF RowsForward, Room
<1>5. Unsent'
  <2>1. \A a \in Attempts : att'[a].state \in {"NONE", "CREATED"} => net'[a].posts = 0
      BY DEF IInv, Unsent, RowsForward
  <2>2. \A v \in Workers : task'[v].pc = "building" =>
            net'[task'[v].a].posts = 0 /\ att'[task'[v].a].state # "CREATED"
    <3> SUFFICES ASSUME NEW v \in Workers, task'[v].pc = "building"
                 PROVE  net'[task'[v].a].posts = 0 /\ att'[task'[v].a].state # "CREATED"
        OBVIOUS
    <3>1. CASE v = w
        BY <3>1, Owned DEF IInv, TypeOK
    <3>2. CASE v # w
        BY <3>2, Owned DEF IInv, TypeOK, Unsent, RowsForward
    <3>3. QED
        BY <3>1, <3>2
  <2>3. QED
      BY <2>1, <2>2 DEF Unsent
<1>6. AtMostOnePost'
    BY DEF IInv, AtMostOnePost
<1>7. QED
    BY <1>1, <1>2, <1>3, <1>4, <1>5, <1>6 DEF IInv

(* A worker lets go of its event.                                           *)
LEMMA WorkerEnds ==
    ASSUME IInv, NEW w \in Workers, task[w].pc # "idle", RowsForward,
           task' = [task EXCEPT ![w] = IdleTask], UNCHANGED <<release, net>>,
           ev' \in [Attempts -> EventRows],
           \A a \in Attempts \ {task[w].a} : ev'[a] = ev[a],
           rec' \in Readings, rec'.pc = rec.pc, rec'.a = rec.a
    PROVE  IInv'
<1>0. IdleTask \in Tasks /\ IdleTask.pc = "idle"
    BY DEF IdleTask, Tasks
<1>1. TypeOK'
    BY <1>0 DEF IInv, TypeOK, RowsForward
<1>2. Ownership'
    BY <1>0 DEF IInv, TypeOK, Ownership
<1>3. Existence'
    BY JobOfAttempt, Owned DEF IInv, TypeOK, Existence, RowsForward
<1>4. Room'
  <2>1. \A j \in Jobs : job'[j].count <= job'[j].max
      BY DEF IInv, TypeOK, Room, RowsForward, JobRows
  <2>2. QED
      BY <2>1 DEF IInv, RowsForward, Room
<1>5. Unsent' /\ AtMostOnePost'
    BY <1>0, Owned DEF IInv, TypeOK, Unsent, AtMostOnePost, RowsForward, Ownership
<1>6. QED
    BY <1>1, <1>2, <1>3, <1>4, <1>5 DEF IInv

LEMMA FailRows ==
    ASSUME IInv, NEW a \in Attempts, att[a].state # "NONE",
           NEW code \in {"none", "infra", "nearblack", "other"}, NEW s \in JobStates,
           FailDefinitely(a, code, s)
    PROVE  RowsForward
<1> DEFINE h == Released(att[a].held)
           y == [att[a] EXCEPT !.state = "FAILED"]
           z == [y EXCEPT !.code = code]
           r == [z EXCEPT !.held = h]
           p == [job[JobOf(a)] EXCEPT !.state = s]
<1>1. att' = [att EXCEPT ![a] = r] /\ job' = [job EXCEPT ![JobOf(a)] = p]
    BY DEF FailDefinitely
<1>2. h \in {"none", "held", "released"}
    BY Recorded, ReleasedRange
<1> HIDE DEF h
<1>3. RowMoves(att[a], y)
    BY Recorded, StateMoves
    DEF AttemptStates, Nonterminal, RemoteOrAmbiguous, Reconcilable, TerminalAttempt
<1> HIDE DEF y
<1>4. RowMoves(att[a], z)
    BY <1>3, CodeMoves
<1> HIDE DEF z
<1>5. RowMoves(att[a], r)
    BY <1>2, <1>4, HeldMoves
<1>6. JobMoves(job[JobOf(a)], p)
    BY Recorded, JobStateMoves
<1> HIDE DEF r, p
<1>7. QED
    BY <1>1, <1>5, <1>6, OneRow

LEMMA MarkUnknownRows ==
    ASSUME IInv, NEW a \in Attempts, att[a].state # "NONE", MarkUnknown(a)
    PROVE  RowsForward
<1> DEFINE y == [att[a] EXCEPT !.state = "UNKNOWN"]
           z == [y EXCEPT !.code = "other"]
           r == [z EXCEPT !.cancel = "none"]
<1>1. att' = [att EXCEPT ![a] = r]
    BY DEF MarkUnknown
<1>2. RowMoves(att[a], y)
    BY Recorded, StateMoves
    DEF AttemptStates, Nonterminal, RemoteOrAmbiguous, Reconcilable, TerminalAttempt
<1> HIDE DEF y
<1>3. RowMoves(att[a], z)
    BY <1>2, CodeMoves
<1> HIDE DEF z
<1>4. RowMoves(att[a], r)
    BY <1>3, CancelMoves
<1> HIDE DEF r
<1>5. "UNKNOWN" \in JobStates
    BY DEF JobStates, RemoteOrAmbiguousJob
<1>6. PICK p : JobMoves(job[JobOf(a)], p) /\ job' = [job EXCEPT ![JobOf(a)] = p]
    BY <1>5, SetJobMoves DEF MarkUnknown, SetJob
<1>7. QED
    BY <1>1, <1>4, <1>6, OneRow

LEMMA GoesTask ==
    ASSUME IInv, NEW w \in Workers, task[w].pc # "idle",
           NEW pc \in {"building", "settling"},
           NEW result \in {"none", "UNKNOWN", "BUDGET_BLOCKED", "RECORDED"},
           Goes(w, pc, result)
    PROVE  \E t \in Tasks : t.a = task[w].a /\ t.pc = pc /\ task' = [task EXCEPT ![w] = t]
<1> DEFINE t == [task[w] EXCEPT !.pc = pc, !.result = result]
<1>1. t \in Tasks /\ t.a = task[w].a /\ t.pc = pc
    BY Owned DEF Tasks
<1>2. task' = [task EXCEPT ![w] = t]
    BY DEF Goes
<1> HIDE DEF t
<1>3. QED
    BY <1>1, <1>2

(* A worker settles its attempt: whatever the rows become, the event stays. *)
LEMMA SettlingStep ==
    ASSUME IInv, NEW w \in Workers, task[w].pc # "idle", RowsForward,
           NEW result \in {"none", "UNKNOWN", "BUDGET_BLOCKED", "RECORDED"},
           Goes(w, "settling", result), UNCHANGED <<release, ev, net>>,
           UNCHANGED rec \/ \E S : Touch(S)
    PROVE  IInv'
<1>1. PICK t \in Tasks : /\ t.a = task[w].a /\ t.pc = "settling"
                         /\ task' = [task EXCEPT ![w] = t]
    BY GoesTask
<1>2. rec' \in Readings /\ rec'.pc = rec.pc /\ rec'.a = rec.a
    BY TouchedReading DEF IInv, TypeOK
<1>3. net' \in [Attempts -> ProviderRows] /\ \A a \in Attempts :
          net'[a].posts = net[a].posts /\ (net'[a].wire = "landed" => net'[a].hist # {})
    BY DEF IInv, TypeOK, Room
<1>4. QED
    BY <1>1, <1>2, <1>3, WorkerMoves

LEMMA EventRange ==
    ASSUME NEW e \in EventRows, e.tries >= 1
    PROVE  /\ Deferred(e) \in EventRows /\ Pending(e) \in EventRows
           /\ Closed("SUCCEEDED") \in EventRows /\ Closed("DEAD_LETTER") \in EventRows
BY GenerationAssumption DEF EventRows, Deferred, Pending, Closed

LEMMA OneEvent ==
    ASSUME IInv, NEW w \in Workers, task[w].pc # "idle",
           NEW e \in EventRows, ev' = [ev EXCEPT ![task[w].a] = e]
    PROVE  /\ ev' \in [Attempts -> EventRows]
           /\ \A a \in Attempts \ {task[w].a} : ev'[a] = ev[a]
BY Owned DEF IInv, TypeOK

LEMMA FenceStaleStep ==
    ASSUME IInv, NEW w \in Workers, FenceStale(w)
    PROVE  IInv'
<1> DEFINE a == task[w].a
           ambiguous == Evidence(a) \/
                (Current(a) /\ job[JobOf(a)].state \in RemoteOrAmbiguousJob)
           closes == Current(a) /\ job[JobOf(a)].state \notin TerminalJob
           s == IF ambiguous THEN "UNKNOWN" ELSE "FAILED"
           r == [att[a] EXCEPT !.state = s, !.code = "other"]
           t == IF ~closes THEN job[JobOf(a)].state
                ELSE IF ambiguous THEN "UNKNOWN" ELSE "CANCELLED"
           p == [job[JobOf(a)] EXCEPT !.state = t]
           result == IF ambiguous THEN "UNKNOWN" ELSE "RECORDED"
<1>1. att' = [att EXCEPT ![a] = r] /\ job' = [job EXCEPT ![JobOf(a)] = p]
    BY DEF FenceStale
<1>2. /\ task[w].pc # "idle" /\ Goes(w, "settling", result) /\ Touch({a})
      /\ UNCHANGED <<release, ev, net>>
    BY DEF FenceStale, Working
<1>3. s \in {"FAILED", "UNKNOWN"}
    OBVIOUS
<1>4. t \in JobStates
    BY <1>2, Owned, Recorded DEF JobRows, JobStates, RemoteOrAmbiguousJob, TerminalJob
<1>5. result \in {"none", "UNKNOWN", "BUDGET_BLOCKED", "RECORDED"}
    OBVIOUS
<1> HIDE DEF s, t, result
<1>6. RowMoves(att[a], r)
    BY <1>2, <1>3, Owned, Recorded, EndMoves
<1>7. JobMoves(job[JobOf(a)], p)
    BY <1>2, <1>4, Owned, Recorded, JobStateMoves
<1> HIDE DEF r, p
<1>8. RowsForward
    BY <1>1, <1>2, <1>6, <1>7, Owned, OneRow
<1>9. QED
    BY <1>2, <1>5, <1>8, SettlingStep

LEMMA NothingRecordedStep ==
    ASSUME IInv, NEW w \in Workers, AlreadyRecorded(w) \/ NotYet(w)
    PROVE  IInv'
<1>1. PICK result \in {"none", "UNKNOWN", "BUDGET_BLOCKED", "RECORDED"} :
          Goes(w, "settling", result)
    BY DEF AlreadyRecorded, NotYet
<1>2. task[w].pc # "idle" /\ UNCHANGED <<release, job, att, ev, rec, net>>
    BY DEF AlreadyRecorded, NotYet, Submittable, Working
<1>3. QED
    BY <1>1, <1>2, NoRow, SettlingStep

LEMMA DeferAdmissionStep ==
    ASSUME IInv, NEW w \in Workers, DeferAdmission(w)
    PROVE  IInv'
<1> DEFINE a == task[w].a
           r == [att[a] EXCEPT !.staged = TRUE]
           e == Deferred(ev[a])
<1>1. /\ task[w].pc # "idle" /\ att' = [att EXCEPT ![a] = r]
      /\ ev' = [ev EXCEPT ![a] = e] /\ task' = [task EXCEPT ![w] = IdleTask]
      /\ UNCHANGED <<release, job, rec, net>>
    BY DEF DeferAdmission, Submittable, Working
<1>2. e \in EventRows
    BY <1>1, Owned, EventRange
<1>3. RowMoves(att[a], r)
    BY <1>1, Owned, Recorded, FlagsMove
<1> HIDE DEF r, e
<1>4. RowsForward
    BY <1>1, <1>3, Owned, OneAttempt
<1>5. QED
    BY <1>1, <1>2, <1>4, OneEvent, WorkerEnds DEF IInv, TypeOK

LEMMA ReserveStep ==
    ASSUME IInv, NEW w \in Workers, NEW accepted \in BOOLEAN, Reserve(w, accepted)
    PROVE  IInv'
<1> DEFINE a == task[w].a
<1>1. /\ task[w].pc = "claimed" /\ att[a].state = "CREATED"
      /\ UNCHANGED <<release, ev, net>>
    BY DEF Reserve, Submittable, Working
<1>2. CASE accepted
  <2> DEFINE y == [att[a] EXCEPT !.state = "SUBMITTING"]
             r == [y EXCEPT !.held = "held"]
             p == [job[JobOf(a)] EXCEPT !.state = "SUBMITTING"]
  <2>1. /\ att' = [att EXCEPT ![a] = r] /\ job' = [job EXCEPT ![JobOf(a)] = p]
        /\ Goes(w, "building", "none") /\ Touch({a})
      BY <1>2 DEF Reserve
  <2>2. RowMoves(att[a], y)
      BY <1>1, Owned, Recorded, StateMoves
      DEF AttemptStates, Nonterminal, RemoteOrAmbiguous, Reconcilable, TerminalAttempt
  <2>3. y.state = "SUBMITTING"
      BY <1>1, Owned, Recorded DEF AttemptRows
  <2> HIDE DEF y
  <2>4. RowMoves(att[a], r)
      BY <2>2, HeldMoves
  <2>5. r.state = "SUBMITTING"
      BY <2>2, <2>3 DEF RowMoves, AttemptRows
  <2>6. "SUBMITTING" \in JobStates
      BY DEF JobStates, RemoteOrAmbiguousJob
  <2>7. JobMoves(job[JobOf(a)], p)
      BY <1>1, <2>6, Owned, Recorded, JobStateMoves
  <2> HIDE DEF r, p
  <2>8. RowsForward
      BY <1>1, <2>1, <2>4, <2>7, Owned, OneRow
  <2>9. PICK t \in Tasks : /\ t.a = a /\ t.pc = "building"
                           /\ task' = [task EXCEPT ![w] = t]
      BY <1>1, <2>1, GoesTask
  <2>10. net[a].posts = 0 /\ att'[a].state # "CREATED"
      BY <1>1, <2>1, <2>5, Owned DEF IInv, TypeOK, Unsent
  <2>11. rec' \in Readings /\ rec'.pc = rec.pc /\ rec'.a = rec.a
      BY <2>1, TouchedReading
  <2>12. net' \in [Attempts -> ProviderRows] /\ \A b \in Attempts :
            net'[b].posts = net[b].posts /\ (net'[b].wire = "landed" => net'[b].hist # {})
      BY <1>1 DEF IInv, TypeOK, Room
  <2>13. QED
      BY <1>1, <2>8, <2>9, <2>10, <2>11, <2>12, WorkerMoves
<1>3. CASE ~accepted
  <2> DEFINE p == [job[JobOf(a)] EXCEPT !.state = "RETRY_WAIT"]
  <2>1. /\ job' = [job EXCEPT ![JobOf(a)] = p] /\ UNCHANGED <<att, rec>>
        /\ Goes(w, "settling", "BUDGET_BLOCKED")
      BY <1>3 DEF Reserve
  <2>2. "RETRY_WAIT" \in JobStates
      BY DEF JobStates, UnstartedJob
  <2>3. JobMoves(job[JobOf(a)], p)
      BY <1>1, <2>2, Owned, Recorded, JobStateMoves
  <2> HIDE DEF p
  <2>4. att' = [att EXCEPT ![a] = att[a]] /\ RowMoves(att[a], att[a])
      BY <1>1, <2>1, Owned, Recorded DEF IInv, TypeOK
  <2>5. RowsForward
      BY <1>1, <2>1, <2>3, <2>4, Owned, OneRow
  <2>6. QED
      BY <1>1, <2>1, <2>5, SettlingStep
<1>4. QED
    BY <1>2, <1>3

LEMMA BuildFailsStep ==
    ASSUME IInv, NEW w \in Workers, BuildFails(w)
    PROVE  IInv'
<1> DEFINE a == task[w].a
           s == RetryOrFail(job[JobOf(a)])
<1>1. /\ task[w].pc # "idle" /\ FailDefinitely(a, "other", s)
      /\ Goes(w, "settling", "RECORDED") /\ UNCHANGED <<release, ev, net>>
    BY DEF BuildFails, Working
<1>2. s \in JobStates
    BY <1>1, Owned, Recorded, RetryMoves
<1> HIDE DEF s
<1>3. RowsForward
    BY <1>1, <1>2, Owned, FailRows
<1>4. QED
    BY <1>1, <1>3, SettlingStep DEF FailDefinitely

LEMMA RearmStep ==
    ASSUME IInv, NEW w \in Workers, Rearm(w)
    PROVE  IInv'
<1> DEFINE a == task[w].a
           y == [att[a] EXCEPT !.state = "CREATED"]
           r == [y EXCEPT !.held = "none"]
           p == [job[JobOf(a)] EXCEPT !.state = "CLAIMED"]
<1>1. /\ task[w].pc = "building" /\ ~att[a].ext
      /\ att' = [att EXCEPT ![a] = r] /\ job' = [job EXCEPT ![JobOf(a)] = p]
      /\ Goes(w, "settling", "BUDGET_BLOCKED") /\ Touch({a})
      /\ UNCHANGED <<release, ev, net>>
    BY DEF Rearm, Working
<1>2. a \in Attempts /\ att[a] \in AttemptRows /\ net[a].posts = 0
    BY <1>1, Owned, Recorded DEF IInv, Unsent
<1>3. y \in AttemptRows /\ y.state = "CREATED" /\ y.misses = att[a].misses
      /\ y.stopMisses = att[a].stopMisses
    BY <1>2 DEF AttemptRows, AttemptStates, Nonterminal
<1> HIDE DEF y
<1>4. r \in AttemptRows /\ r.state = "CREATED" /\ r.misses < Confirmations
      /\ r.stopMisses < Confirmations
    BY <1>2, <1>3 DEF AttemptRows, IInv, Room
<1>5. "CLAIMED" \in JobStates
    BY DEF JobStates, UnstartedJob
<1>6. JobMoves(job[JobOf(a)], p)
    BY <1>1, <1>5, Owned, Recorded, JobStateMoves
<1> HIDE DEF r, p
<1>7. PICK t \in Tasks : /\ t.a = a /\ t.pc = "settling"
                         /\ task' = [task EXCEPT ![w] = t]
    BY <1>1, GoesTask
<1>8. rec' \in Readings /\ rec'.pc = rec.pc /\ rec'.a = rec.a
    BY <1>1, TouchedReading
<1>9. \A j \in Jobs : JobMoves(job[j], job'[j])
  <2> SUFFICES ASSUME NEW j \in Jobs PROVE JobMoves(job[j], job'[j])
      OBVIOUS
  <2>1. job[j] \in JobRows /\ (job'[j] = job[j] \/ (j = JobOf(a) /\ job'[j] = p))
      BY <1>1 DEF IInv, TypeOK
  <2>2. QED
      BY <1>6, <2>1, SameJobMoves
<1>10. \A b \in Attempts : att'[b] = IF b = a THEN r ELSE att[b]
    BY <1>1 DEF IInv, TypeOK
<1>11. TypeOK'
  <2>1. job' \in [Jobs -> JobRows]
      BY <1>1, <1>9 DEF JobMoves, IInv, TypeOK
  <2>2. att' \in [Attempts -> AttemptRows]
      BY <1>1, <1>4 DEF IInv, TypeOK
  <2>3. QED
      BY <1>1, <1>7, <1>8, <2>1, <2>2 DEF IInv, TypeOK
<1>12. Ownership'
    BY <1>1, <1>7 DEF IInv, TypeOK, Ownership
<1>13. Existence'
    BY <1>1, <1>2, <1>4, <1>8, <1>9, <1>10, JobOfAttempt, Owned
    DEF IInv, TypeOK, Existence, JobMoves
<1>14. Room'
  <2>1. \A j \in Jobs : job'[j].count <= job'[j].max
      BY <1>9 DEF IInv, TypeOK, Room, JobMoves, JobRows
  <2>2. QED
      BY <1>1, <1>4, <1>10, <2>1 DEF IInv, Room
<1>15. Unsent'
  <2>1. \A b \in Attempts : att'[b].state \in {"NONE", "CREATED"} => net'[b].posts = 0
      BY <1>1, <1>2, <1>10 DEF IInv, Unsent
  <2>2. \A v \in Workers : task'[v].pc = "building" =>
            net'[task'[v].a].posts = 0 /\ att'[task'[v].a].state # "CREATED"
    <3> SUFFICES ASSUME NEW v \in Workers, task'[v].pc = "building"
                 PROVE  net'[task'[v].a].posts = 0 /\ att'[task'[v].a].state # "CREATED"
        OBVIOUS
    <3>1. v # w /\ task'[v] = task[v]
        BY <1>7 DEF IInv, TypeOK
    <3>2. task[v].a \in Attempts /\ task[v].a # a
        BY <1>1, <3>1, Owned DEF IInv, Ownership
    <3>3. QED
        BY <1>1, <1>10, <3>1, <3>2 DEF IInv, Unsent
  <2>3. QED
      BY <2>1, <2>2 DEF Unsent
<1>16. QED
    BY <1>1, <1>11, <1>12, <1>13, <1>14, <1>15 DEF IInv, AtMostOnePost

LEMMA PostStep ==
    ASSUME IInv, NEW w \in Workers, Post(w)
    PROVE  IInv'
<1> DEFINE a == task[w].a
           count == net[a].posts + 1
           m == [net[a] EXCEPT !.posts = count]
           n == [m EXCEPT !.wire = "flying"]
           t == [task[w] EXCEPT !.pc = "posting", !.posted = TRUE]
<1>1. /\ task[w].pc = "building" /\ net' = [net EXCEPT ![a] = n]
      /\ task' = [task EXCEPT ![w] = t] /\ UNCHANGED <<release, job, att, ev, rec>>
    BY DEF Post, Working
<1>2. /\ a \in Attempts /\ net[a] \in ProviderRows /\ net[a].posts = 0
      /\ att[a].state \notin {"NONE", "CREATED"}
    BY <1>1, Owned DEF IInv, TypeOK, Unsent
<1>3. n \in ProviderRows /\ n.posts = 1 /\ n.wire = "flying"
  <2>1. count = 1 /\ count \in Nat
      BY <1>2
  <2> HIDE DEF count
  <2>2. m \in ProviderRows /\ m.posts = 1
      BY <1>2, <2>1 DEF ProviderRows
  <2> HIDE DEF m
  <2>3. QED
      BY <2>2 DEF ProviderRows
<1>4. t \in Tasks /\ t.pc = "posting" /\ t.a = a
    BY <1>1, Owned DEF Tasks
<1> HIDE DEF n, t
<1>5. \A b \in Attempts : net'[b] = IF b = a THEN n ELSE net[b]
    BY <1>1 DEF IInv, TypeOK
<1>6. TypeOK'
    BY <1>1, <1>3, <1>4 DEF IInv, TypeOK
<1>7. Ownership'
    BY <1>1, <1>4 DEF IInv, TypeOK, Ownership
<1>8. Existence' /\ Room'
    BY <1>1, <1>3, <1>5 DEF IInv, Existence, Room, JobOf
<1>9. Unsent'
    BY <1>1, <1>2, <1>4, <1>5, Owned DEF IInv, TypeOK, Unsent, Ownership
<1>10. AtMostOnePost'
    BY <1>3, <1>5 DEF IInv, AtMostOnePost
<1>11. QED
    BY <1>6, <1>7, <1>8, <1>9, <1>10 DEF IInv

LEMMA PostRefusedStep ==
    ASSUME IInv, NEW w \in Workers, NEW code \in {"infra", "other"}, PostRefused(w, code)
    PROVE  IInv'
<1> DEFINE a == task[w].a
           old == job[JobOf(a)]
           granted == code = "infra" /\ MayGrant(a, "infra")
           h == Released(att[a].held)
           g == IF granted THEN "infra" ELSE att[a].grant
           y == [att[a] EXCEPT !.state = "FAILED"]
           z == [y EXCEPT !.code = code]
           u == [z EXCEPT !.held = h]
           r == [u EXCEPT !.grant = g]
           s == IF code = "infra" THEN RetryOrFail(old) ELSE "FAILED"
           p == IF granted THEN Granted(old) ELSE [old EXCEPT !.state = s]
           n == [net[a] EXCEPT !.wire = "lost"]
<1>1. /\ task[w].pc # "idle" /\ Goes(w, "settling", "RECORDED") /\ Touch({a})
      /\ net' = [net EXCEPT ![a] = n] /\ UNCHANGED <<release, ev>>
    BY DEF PostRefused, Working
<1>2. att' = [att EXCEPT ![a] = r]
    BY DEF PostRefused
<1>3. job' = [job EXCEPT ![JobOf(a)] = p]
    BY DEF PostRefused
<1>4. h \in {"none", "held", "released"} /\ g \in {"none", "infra", "nearblack"}
    BY <1>1, Owned, Recorded, ReleasedRange DEF AttemptRows
<1>5. old \in JobRows /\ s \in JobStates
    BY <1>1, Owned, Recorded, RetryMoves DEF JobStates, TerminalJob
<1> HIDE DEF h, g, s
<1>6. JobMoves(old, p)
    BY <1>5, RetryMoves, JobStateMoves DEF MayGrant
<1> HIDE DEF p
<1>7. RowMoves(att[a], y)
    BY <1>1, Owned, Recorded, StateMoves
    DEF AttemptStates, Nonterminal, RemoteOrAmbiguous, Reconcilable, TerminalAttempt
<1> HIDE DEF y
<1>8. RowMoves(att[a], z)
    BY <1>7, CodeMoves
<1> HIDE DEF z
<1>9. RowMoves(att[a], u)
    BY <1>4, <1>8, HeldMoves
<1> HIDE DEF u
<1>10. RowMoves(att[a], r)
    BY <1>4, <1>9, GrantMoves
<1> HIDE DEF r
<1>11. RowsForward
    BY <1>1, <1>2, <1>3, <1>6, <1>10, Owned, OneRow
<1>12. n \in ProviderRows /\ n.posts = net[a].posts /\ n.wire = "lost"
    BY <1>1, Owned DEF IInv, TypeOK, ProviderRows
<1> HIDE DEF n
<1>13. net' \in [Attempts -> ProviderRows] /\ \A b \in Attempts :
          net'[b].posts = net[b].posts /\ (net'[b].wire = "landed" => net'[b].hist # {})
    BY <1>1, <1>12 DEF IInv, TypeOK, Room
<1>14. PICK t \in Tasks : /\ t.a = a /\ t.pc = "settling"
                          /\ task' = [task EXCEPT ![w] = t]
    BY <1>1, GoesTask
<1>15. rec' \in Readings /\ rec'.pc = rec.pc /\ rec'.a = rec.a
    BY <1>1, TouchedReading
<1>16. QED
    BY <1>1, <1>11, <1>13, <1>14, <1>15, WorkerMoves

LEMMA PostAmbiguousStep ==
    ASSUME IInv, NEW w \in Workers, PostAmbiguous(w)
    PROVE  IInv'
<1>1. /\ task[w].pc # "idle" /\ MarkUnknown(task[w].a)
      /\ Goes(w, "settling", "UNKNOWN") /\ UNCHANGED <<release, ev, net>>
    BY DEF PostAmbiguous, Working
<1>2. RowsForward
    BY <1>1, Owned, MarkUnknownRows
<1>3. QED
    BY <1>1, <1>2, SettlingStep DEF MarkUnknown

LEMMA PostAcceptedStep ==
    ASSUME IInv, NEW w \in Workers, PostAccepted(w)
    PROVE  IInv'
<1> DEFINE a == task[w].a
           y == [att[a] EXCEPT !.state = "SUBMITTED"]
           z == [y EXCEPT !.ext = TRUE]
           r == [z EXCEPT !.seen = 1]
           s == IF Current(a) /\ job[JobOf(a)].state \notin TerminalJob THEN "RUNNING"
                ELSE job[JobOf(a)].state
           p == [job[JobOf(a)] EXCEPT !.state = s]
<1>1. /\ task[w].pc # "idle" /\ Goes(w, "settling", "RECORDED") /\ Touch({a})
      /\ att' = [att EXCEPT ![a] = r] /\ job' = [job EXCEPT ![JobOf(a)] = p]
      /\ UNCHANGED <<release, ev, net>>
    BY DEF PostAccepted, Working
<1>2. s \in JobStates
    BY <1>1, Owned, Recorded DEF JobRows, JobStates, RemoteOrAmbiguousJob
<1> HIDE DEF s
<1>3. JobMoves(job[JobOf(a)], p)
    BY <1>1, <1>2, Owned, Recorded, JobStateMoves
<1> HIDE DEF p
<1>4. RowMoves(att[a], y)
    BY <1>1, Owned, Recorded, StateMoves
    DEF AttemptStates, Nonterminal, RemoteOrAmbiguous, Reconcilable, TerminalAttempt
<1> HIDE DEF y
<1>5. RowMoves(att[a], z)
    BY <1>4, FlagsMove
<1> HIDE DEF z
<1>6. RowMoves(att[a], r)
    BY <1>5, ConstantsMove
<1> HIDE DEF r
<1>7. RowsForward
    BY <1>1, <1>3, <1>6, Owned, OneRow
<1>8. QED
    BY <1>1, <1>7, SettlingStep

(* The worker lets go of its event, which it acknowledges, fails or defers. *)
LEMMA EventEnds ==
    ASSUME IInv, NEW w \in Workers, task[w].pc # "idle",
           FailEvent(w) \/ DeferEvent(w) \/ SucceedEvent(w)
    PROVE  IInv'
<1> DEFINE a == task[w].a
<1>1. PICK e \in EventRows : ev' = [ev EXCEPT ![a] = e]
  <2>1. /\ Deferred(ev[a]) \in EventRows /\ Closed("SUCCEEDED") \in EventRows
        /\ Closed("DEAD_LETTER") \in EventRows
      BY Owned, EventRange
  <2> HIDE DEF Deferred, Closed
  <2>2. QED
      BY <2>1 DEF FailEvent, DeferEvent, SucceedEvent
<1>2. /\ task' = [task EXCEPT ![w] = IdleTask] /\ UNCHANGED <<release, net>>
      /\ MarkUnknown(a) \/ UNCHANGED <<att, job, rec>>
    BY DEF FailEvent, DeferEvent, SucceedEvent
<1>3. RowsForward
    BY <1>2, Owned, MarkUnknownRows, NoRow
<1>4. rec' \in Readings /\ rec'.pc = rec.pc /\ rec'.a = rec.a
    BY <1>2, TouchedReading DEF MarkUnknown, IInv, TypeOK
<1>5. QED
    BY <1>1, <1>2, <1>3, <1>4, OneEvent, WorkerEnds

LEMMA ResolveUnstartedStep ==
    ASSUME IInv, NEW w \in Workers, task[w].pc # "idle", ResolveUnstarted(w)
    PROVE  IInv'
<1> DEFINE a == task[w].a
           s == RetryOrFail(job[JobOf(a)])
<1>1. /\ FailDefinitely(a, "other", s) \/ UNCHANGED <<att, job, rec>>
      /\ Goes(w, "settling", "RECORDED") /\ UNCHANGED <<release, ev, net>>
    BY DEF ResolveUnstarted
<1>2. s \in JobStates
    BY Owned, Recorded, RetryMoves
<1> HIDE DEF s
<1>3. RowsForward
    BY <1>1, <1>2, Owned, FailRows, NoRow
<1>4. QED
    BY <1>1, <1>3, SettlingStep DEF FailDefinitely

LEMMA CrashStep ==
    ASSUME IInv, NEW w \in Workers, Crash(w)
    PROVE  IInv'
<1>1. /\ task[w].pc # "idle" /\ task' = [task EXCEPT ![w] = IdleTask]
      /\ UNCHANGED <<release, job, att, ev, rec, net>>
    BY DEF Crash
<1>2. RowsForward
    BY <1>1, NoRow
<1>3. QED
    BY <1>1, <1>2, WorkerEnds DEF IInv, TypeOK

LEMMA InterruptStep ==
    ASSUME IInv, NEW w \in Workers, Interrupt(w) \/ Settle(w)
    PROVE  IInv'
<1>1. task[w].pc # "idle"
    BY DEF Interrupt, Settle, Working
<1>2. FailEvent(w) \/ DeferEvent(w) \/ SucceedEvent(w) \/ ResolveUnstarted(w)
    BY DEF Interrupt, Settle
<1>3. QED
    BY <1>1, <1>2, EventEnds, ResolveUnstartedStep

LEMMA LeaseExpiresStep ==
    ASSUME IInv, NEW a \in Attempts, LeaseExpires(a)
    PROVE  IInv'
<1> DEFINE e == [ev[a] EXCEPT !.expired = TRUE]
<1>1. /\ ev[a].status = "PROCESSING" /\ \A w \in Workers : task[w].a # a
      /\ ev' = [ev EXCEPT ![a] = e] /\ UNCHANGED <<release, job, att, task, rec, net>>
    BY DEF LeaseExpires
<1>2. e \in EventRows /\ e.status = "PROCESSING"
    BY <1>1 DEF IInv, TypeOK, EventRows
<1> HIDE DEF e
<1>3. TypeOK'
    BY <1>1, <1>2 DEF IInv, TypeOK
<1>4. Ownership'
    BY <1>1 DEF IInv, TypeOK, Ownership
<1>5. Existence' /\ Room' /\ Unsent' /\ AtMostOnePost'
    BY <1>1, <1>2 DEF IInv, TypeOK, Existence, Room, Unsent, AtMostOnePost, JobOf
<1>6. QED
    BY <1>3, <1>4, <1>5 DEF IInv

-----------------------------------------------------------------------------
(* The outbox claim, with its sweep of expired leases                       *)

LEMMA SweptRows ==
    ASSUME IInv, att' = SweptAtt, job' = SweptJob
    PROVE  RowsForward
<1>1. \A a \in Attempts :
          att'[a] = att[a] \/ (att[a].state # "NONE" /\ RowMoves(att[a], att'[a]))
  <2> SUFFICES ASSUME NEW a \in Attempts, att'[a] # att[a]
               PROVE  att[a].state # "NONE" /\ RowMoves(att[a], att'[a])
      OBVIOUS
  <2>1. PICK s \in {"FAILED", "UNKNOWN"} :
            att'[a] = [att[a] EXCEPT !.state = s, !.code = "other"]
      BY DEF SweptAtt
  <2>2. att[a].state # "NONE"
    <3>1. a \in SweptFailed \/ a \in SweptUnknown
        BY DEF SweptAtt
    <3>2. CASE a \in SweptFailed
        BY <3>2 DEF SweptFailed, ProvablyUnsubmitted
    <3>3. CASE a \in SweptUnknown
        BY <3>3 DEF SweptUnknown
    <3>4. QED
        BY <3>1, <3>2, <3>3
  <2>3. RowMoves(att[a], att[a])
      BY <2>2, Recorded
  <2>4. RowMoves(att[a], [att[a] EXCEPT !.state = s, !.code = "other"])
      BY <2>3, EndMoves
  <2>5. QED
      BY <2>1, <2>2, <2>4
<1>2. \A j \in Jobs : JobMoves(job[j], job'[j])
  <2> SUFFICES ASSUME NEW j \in Jobs PROVE JobMoves(job[j], job'[j])
      OBVIOUS
  <2> DEFINE t == RetryOrFail(job[j])
  <2>1. \/ job'[j] = job[j]
        \/ job'[j] = [job[j] EXCEPT !.state = t]
        \/ job'[j] = [job[j] EXCEPT !.state = "UNKNOWN"]
      BY DEF SweptJob
  <2>2. job[j] \in JobRows
      BY DEF IInv, TypeOK
  <2>3. t \in JobStates /\ "UNKNOWN" \in JobStates
      BY <2>2, RetryMoves DEF JobStates, RemoteOrAmbiguousJob
  <2> HIDE DEF t
  <2>4. QED
      BY <2>1, <2>2, <2>3, SameJobMoves, JobStateMoves
<1>3. att' = [a \in Attempts |-> att'[a]] /\ job' = [j \in Jobs |-> job'[j]]
    BY DEF SweptAtt, SweptJob
<1>4. QED
    BY <1>1, <1>2, <1>3, ManyRows

(* The sweep leaves the events of working processes alone, and offers none  *)
(* but events of recorded attempts.                                         *)
LEMMA SweptEvents ==
    ASSUME IInv
    PROVE  /\ SweptEv \in [Attempts -> EventRows]
           /\ \A a \in Attempts : SweptEv[a].status \in {"PENDING", "PROCESSING"} =>
                  ev[a].status \in {"PENDING", "PROCESSING"}
           /\ \A a \in Attempts : ev[a].status = "PROCESSING" /\ ~ev[a].expired =>
                  SweptEv[a] = ev[a]
<1>1. ASSUME NEW a \in Attempts
      PROVE  /\ SweptEv[a] \in EventRows
             /\ SweptEv[a].status \in {"PENDING", "PROCESSING"} =>
                    ev[a].status \in {"PENDING", "PROCESSING"}
             /\ ev[a].status = "PROCESSING" /\ ~ev[a].expired => SweptEv[a] = ev[a]
  <2>1. ev[a] \in EventRows
      BY DEF IInv, TypeOK
  <2>2. SweptEv[a] = IF a \in Replayed THEN Pending(ev[a])
                     ELSE IF a \in Expired THEN Closed("DEAD_LETTER") ELSE ev[a]
      BY DEF SweptEv
  <2>3. CASE a \in Expired
    <3>1. Pending(ev[a]) \in EventRows /\ Closed("DEAD_LETTER") \in EventRows
        BY <2>1, GenerationAssumption DEF Pending, Closed, EventRows
    <3>2. ev[a].status = "PROCESSING" /\ ev[a].expired
        BY <2>3 DEF Expired
    <3>3. QED
        BY <2>2, <2>3, <3>1, <3>2
  <2>4. CASE a \notin Expired
      BY <2>1, <2>2, <2>4 DEF Replayed
  <2>5. QED
      BY <2>3, <2>4
<1>2. SweptEv = [a \in Attempts |-> SweptEv[a]]
    BY DEF SweptEv
<1>3. QED
    BY <1>1, <1>2

LEMMA ClaimStep ==
    ASSUME IInv, NEW w \in Workers, Claim(w)
    PROVE  IInv'
<1>1. /\ task[w].pc = "idle" /\ att' = SweptAtt /\ job' = SweptJob
      /\ UNCHANGED <<release, net>>
    BY DEF Claim
<1>2. RowsForward
    BY <1>1, SweptRows
<1>3. rec' \in Readings /\ rec'.pc = rec.pc /\ rec'.a = rec.a
    BY TouchedReading DEF Claim
<1>4. CASE ev' = SweptEv /\ UNCHANGED task
  <2>1. TypeOK'
      BY <1>1, <1>2, <1>3, <1>4, SweptEvents DEF IInv, TypeOK, RowsForward
  <2>2. Ownership'
      BY <1>4, SweptEvents DEF IInv, Ownership
  <2>3. Existence'
      BY <1>2, <1>3, <1>4, SweptEvents, JobOfAttempt DEF IInv, TypeOK, Existence, RowsForward
  <2>4. Room'
    <3>1. \A j \in Jobs : job'[j].count <= job'[j].max
        BY <1>2 DEF IInv, TypeOK, Room, RowsForward, JobRows
    <3>2. QED
        BY <1>1, <1>2, <3>1 DEF IInv, Room, RowsForward
  <2>5. Unsent' /\ AtMostOnePost'
      BY <1>1, <1>2, <1>4 DEF IInv, TypeOK, Unsent, AtMostOnePost, RowsForward, Ownership
  <2>6. QED
      BY <2>1, <2>2, <2>3, <2>4, <2>5 DEF IInv
<1>5. ASSUME NEW a \in Attempts, SweptEv[a].status = "PENDING", SweptEv[a].tries < EventTries,
             ev' = [SweptEv EXCEPT ![a] = [status |-> "PROCESSING",
                                           tries |-> SweptEv[a].tries + 1,
                                           expired |-> FALSE]],
             task' = [task EXCEPT ![w] = [IdleTask EXCEPT !.pc = "claimed", !.a = a]]
      PROVE  IInv'
  <2> DEFINE e == [status |-> "PROCESSING", tries |-> SweptEv[a].tries + 1, expired |-> FALSE]
             t == [IdleTask EXCEPT !.pc = "claimed", !.a = a]
  <2>1. t \in Tasks /\ t.pc = "claimed" /\ t.a = a
      BY DEF IdleTask, Tasks
  <2>2. e \in EventRows /\ e.status = "PROCESSING" /\ ~e.expired /\ e.tries >= 1
      BY <1>5, SweptEvents, GenerationAssumption DEF EventRows
  <2> HIDE DEF e, t
  <2>3. \A b \in Attempts : ev'[b] = IF b = a THEN e ELSE SweptEv[b]
      BY <1>5, SweptEvents DEF e
  <2>4. \A v \in Workers : task'[v] = IF v = w THEN t ELSE task[v]
      BY <1>5 DEF IInv, TypeOK, t
  <2>5. \A v \in Workers : task[v].pc # "idle" => task[v].a # a
    <3> SUFFICES ASSUME NEW v \in Workers, task[v].pc # "idle", task[v].a = a PROVE FALSE
        OBVIOUS
    <3>1. SweptEv[a] = ev[a] /\ ev[a].status = "PROCESSING"
        BY SweptEvents DEF IInv, Ownership
    <3>2. QED
        BY <1>5, <3>1
  <2>6. TypeOK'
    <3>1. ev' \in [Attempts -> EventRows]
        BY <1>5, <2>2, SweptEvents DEF e
    <3>2. task' \in [Workers -> Tasks]
        BY <1>5, <2>1 DEF IInv, TypeOK, t
    <3>3. QED
        BY <1>1, <1>2, <1>3, <3>1, <3>2 DEF IInv, TypeOK, RowsForward
  <2>7. Ownership'
    <3>1. ASSUME NEW v \in Workers, task'[v].pc # "idle"
          PROVE  /\ task'[v].a \in Attempts /\ ev'[task'[v].a].status = "PROCESSING"
                 /\ ~ev'[task'[v].a].expired /\ ev'[task'[v].a].tries >= 1
      <4>1. CASE v = w
          BY <2>1, <2>2, <2>3, <2>4, <4>1
      <4>2. CASE v # w
          BY <2>3, <2>4, <2>5, <3>1, <4>2, SweptEvents DEF IInv, Ownership
      <4>3. QED
          BY <4>1, <4>2
    <3>2. ASSUME NEW u \in Workers, NEW v \in Workers, task'[u].pc # "idle",
                 task'[v].pc # "idle", task'[u].a = task'[v].a
          PROVE  u = v
        BY <2>1, <2>4, <2>5, <3>2 DEF IInv, Ownership
    <3>3. QED
        BY <3>1, <3>2 DEF Ownership
  <2>8. Existence'
    <3>1. att[a].state # "NONE"
        BY <1>5, SweptEvents DEF IInv, Existence
    <3>2. QED
        BY <1>2, <1>3, <2>3, <3>1, SweptEvents, JobOfAttempt
        DEF IInv, TypeOK, Existence, RowsForward
  <2>9. Room'
    <3>1. \A j \in Jobs : job'[j].count <= job'[j].max
        BY <1>2 DEF IInv, TypeOK, Room, RowsForward, JobRows
    <3>2. QED
        BY <1>1, <1>2, <3>1 DEF IInv, Room, RowsForward
  <2>10. Unsent' /\ AtMostOnePost'
      BY <1>1, <1>2, <2>1, <2>4
      DEF IInv, TypeOK, Unsent, AtMostOnePost, RowsForward, Ownership
  <2>11. QED
      BY <2>6, <2>7, <2>8, <2>9, <2>10 DEF IInv
<1>6. QED
    BY <1>4, <1>5 DEF Claim

-----------------------------------------------------------------------------
(* The scheduler                                                            *)

LEMMA RecoverStep ==
    ASSUME IInv, RecoverDeadLetters
    PROVE  IInv'
<1> DEFINE R == {j \in Jobs : job[j].count > 0 /\ Recoverable(j)}
<1>1. /\ job' = [j \in Jobs |-> IF j \in R THEN Granted(job[j]) ELSE job[j]]
      /\ att' = [a \in Attempts |-> IF JobOf(a) \in R /\ Current(a)
                                    THEN [att[a] EXCEPT !.grant = "infra"] ELSE att[a]]
      /\ UNCHANGED <<release, ev, task, rec, net>>
    BY DEF RecoverDeadLetters
<1>2. \A a \in Attempts :
          att'[a] = att[a] \/ (att[a].state # "NONE" /\ RowMoves(att[a], att'[a]))
  <2> SUFFICES ASSUME NEW a \in Attempts, att'[a] # att[a]
               PROVE  att[a].state # "NONE" /\ RowMoves(att[a], att'[a])
      OBVIOUS
  <2>1. JobOf(a) \in R /\ Current(a) /\ att'[a] = [att[a] EXCEPT !.grant = "infra"]
      BY <1>1
  <2>2. a = <<JobOf(a), job[JobOf(a)].count>>
      BY <2>1 DEF Current, JobOf, Attempts
  <2>3. att[a].state = "FAILED"
      BY <2>1, <2>2 DEF Recoverable
  <2>4. RowMoves(att[a], att[a])
      BY <2>3, Recorded
  <2>5. RowMoves(att[a], [att[a] EXCEPT !.grant = "infra"])
      BY <2>4, GrantMoves
  <2>6. QED
      BY <2>1, <2>3, <2>5
<1>3. \A j \in Jobs : JobMoves(job[j], job'[j])
  <2> SUFFICES ASSUME NEW j \in Jobs PROVE JobMoves(job[j], job'[j])
      OBVIOUS
  <2>1. job[j] \in JobRows
      BY DEF IInv, TypeOK
  <2>2. CASE j \in R
    <3>1. job[j].max < AttemptLimit
        BY <2>2 DEF Recoverable, MayGrant, JobOf
    <3>2. QED
        BY <1>1, <2>1, <2>2, <3>1, RetryMoves
  <2>3. CASE j \notin R
      BY <1>1, <2>1, <2>3, SameJobMoves
  <2>4. QED
      BY <2>2, <2>3
<1>4. att' = [a \in Attempts |-> att'[a]] /\ job' = [j \in Jobs |-> job'[j]]
    BY <1>1
<1>5. RowsForward
    BY <1>2, <1>3, <1>4, ManyRows
<1>6. QED
    BY <1>1, <1>5, RowsStep DEF IInv, TypeOK

LEMMA BlockedStep ==
    ASSUME IInv, DispatchBlocked
    PROVE  IInv'
<1>1. UNCHANGED <<job, att, ev, task, rec, net>>
    BY DEF DispatchBlocked
<1>2. release' \in Releases
    BY DEF DispatchBlocked, IInv, TypeOK, Releases
<1>3. QED
    BY <1>1, <1>2, NoRow, RowsStep DEF IInv, TypeOK

LEMMA BatchesAreDispatchable ==
    ASSUME NEW B \in Batches
    PROVE  B \subseteq Jobs /\ \A j \in B : job[j].count < job[j].max
<1>1. PICK w \in SUBSET {j \in Jobs : job[j].state = "RETRY_WAIT"} :
          B \subseteq {j \in Jobs : Dispatchable(j)} \ w
    BY DEF Batches
<1>2. QED
    BY <1>1 DEF Dispatchable

LEMMA DispatchStep ==
    ASSUME IInv, Dispatch
    PROVE  IInv'
<1> DEFINE Prepared(B) == {a \in Attempts : JobOf(a) \in B /\ a[2] = job[JobOf(a)].count + 1}
           new == [NoAttemptRow EXCEPT !.state = "CREATED"]
           event == [status |-> "PENDING", tries |-> 0, expired |-> FALSE]
<1>1. PICK B \in Batches :
          /\ job' = [j \in Jobs |-> IF j \in B
                THEN [job[j] EXCEPT !.state = "CLAIMED", !.count = @ + 1] ELSE job[j]]
          /\ att' = [a \in Attempts |-> IF a \in Prepared(B) THEN new ELSE att[a]]
          /\ ev' = [a \in Attempts |-> IF a \in Prepared(B) THEN event ELSE ev[a]]
          /\ release' = [release EXCEPT !.phase = "GENERATING"]
          /\ UNCHANGED <<task, rec, net>>
    BY DEF Dispatch
<1>2. \A j \in Jobs : /\ job'[j] \in JobRows /\ job'[j].max = job[j].max
                      /\ job'[j].count = IF j \in B THEN job[j].count + 1 ELSE job[j].count
                      /\ job'[j].count <= job'[j].max
  <2> SUFFICES ASSUME NEW j \in Jobs
               PROVE  /\ job'[j] \in JobRows /\ job'[j].max = job[j].max
                      /\ job'[j].count = IF j \in B THEN job[j].count + 1 ELSE job[j].count
                      /\ job'[j].count <= job'[j].max
      OBVIOUS
  <2>1. job[j] \in JobRows /\ job[j].count <= job[j].max
      BY DEF IInv, TypeOK, Room
  <2>2. CASE j \in B
    <3> DEFINE n == job[j].count + 1
               y == [job[j] EXCEPT !.state = "CLAIMED"]
               q == [y EXCEPT !.count = n]
    <3>1. job[j].count < job[j].max
        BY <2>2, BatchesAreDispatchable
    <3>2. n \in 0..AttemptLimit /\ n <= job[j].max
        BY <2>1, <3>1, GenerationAssumption DEF JobRows
    <3>3. job'[j] = q
        BY <1>1, <2>2
    <3> HIDE DEF n
    <3>4. y \in JobRows /\ y.max = job[j].max
        BY <2>1 DEF JobRows, JobStates, UnstartedJob
    <3> HIDE DEF y
    <3>5. q \in JobRows /\ q.count = n /\ q.max = job[j].max
        BY <3>2, <3>4 DEF JobRows
    <3>6. QED
        BY <2>2, <3>2, <3>3, <3>5 DEF n
  <2>3. CASE j \notin B
      BY <1>1, <2>1, <2>3
  <2>4. QED
      BY <2>2, <2>3
<1>3. \A a \in Prepared(B) : /\ att[a].state = "NONE" /\ net[a].posts = 0
                             /\ ev[a].status \notin {"PENDING", "PROCESSING"}
  <2> SUFFICES ASSUME NEW a \in Prepared(B)
               PROVE  /\ att[a].state = "NONE" /\ net[a].posts = 0
                      /\ ev[a].status \notin {"PENDING", "PROCESSING"}
      OBVIOUS
  <2>1. a[2] > job[JobOf(a)].count
      BY JobOfAttempt DEF IInv, TypeOK, JobRows
  <2>2. QED
      BY <2>1 DEF IInv, Existence, Unsent
<1>4. new \in AttemptRows /\ new.state = "CREATED" /\ new.misses < Confirmations
      /\ new.stopMisses < Confirmations
  <2>1. NoAttemptRow \in AttemptRows /\ NoAttemptRow.misses = 0 /\ NoAttemptRow.stopMisses = 0
      BY GenerationAssumption DEF NoAttemptRow, AttemptRows, AttemptStates
  <2>2. "CREATED" \in AttemptStates /\ 0 < Confirmations
      BY GenerationAssumption DEF AttemptStates, Nonterminal
  <2> HIDE DEF NoAttemptRow
  <2>3. QED
      BY <2>1, <2>2 DEF AttemptRows
<1>5. event \in EventRows /\ event.status = "PENDING"
    BY GenerationAssumption DEF EventRows
<1> HIDE DEF new, event
<1>6. /\ \A a \in Attempts : att'[a] = IF a \in Prepared(B) THEN new ELSE att[a]
      /\ \A a \in Attempts : ev'[a] = IF a \in Prepared(B) THEN event ELSE ev[a]
    BY <1>1
<1>7. TypeOK'
  <2>1. release' \in Releases
      BY <1>1 DEF IInv, TypeOK, Releases
  <2>2. job' \in [Jobs -> JobRows]
      BY <1>1, <1>2
  <2>3. att' \in [Attempts -> AttemptRows] /\ ev' \in [Attempts -> EventRows]
      BY <1>1, <1>4, <1>5 DEF IInv, TypeOK
  <2>4. QED
      BY <1>1, <2>1, <2>2, <2>3 DEF IInv, TypeOK
<1>8. Ownership'
  <2>1. \A w \in Workers : task[w].pc # "idle" => ev'[task[w].a] = ev[task[w].a]
      BY <1>3, <1>6 DEF IInv, Ownership
  <2>2. QED
      BY <1>1, <2>1 DEF IInv, Ownership
<1>9. Existence'
  <2>1. \A a \in Attempts : a[2] > job'[JobOf(a)].count => att'[a].state = "NONE"
    <3> SUFFICES ASSUME NEW a \in Attempts, a[2] > job'[JobOf(a)].count
                 PROVE  att'[a].state = "NONE"
        OBVIOUS
    <3>1. job[JobOf(a)] \in JobRows /\ JobOf(a) \in Jobs /\ a[2] \in Nat
        BY JobOfAttempt DEF IInv, TypeOK
    <3>2. a \notin Prepared(B) /\ a[2] > job[JobOf(a)].count
        BY <1>2, <3>1 DEF JobRows
    <3>3. QED
        BY <1>6, <3>2 DEF IInv, Existence
  <2>2. \A a \in Attempts : att'[a].state = "NONE" =>
            ~att'[a].ext /\ ev'[a].status \notin {"PENDING", "PROCESSING"}
      BY <1>4, <1>6 DEF IInv, Existence
  <2>3. rec'.pc # "idle" => rec'.a \in Attempts /\ att'[rec'.a].state # "NONE"
      BY <1>1, <1>4, <1>6 DEF IInv, Existence
  <2>4. QED
      BY <2>1, <2>2, <2>3 DEF Existence, JobOf
<1>10. Room'
    BY <1>1, <1>2, <1>4, <1>6 DEF IInv, Room
<1>11. Unsent'
  <2>1. \A a \in Attempts : att'[a].state \in {"NONE", "CREATED"} => net'[a].posts = 0
      BY <1>1, <1>3, <1>6 DEF IInv, Unsent
  <2>2. \A w \in Workers : task'[w].pc = "building" =>
            net'[task'[w].a].posts = 0 /\ att'[task'[w].a].state # "CREATED"
    <3> SUFFICES ASSUME NEW w \in Workers, task'[w].pc = "building"
                 PROVE  net'[task'[w].a].posts = 0 /\ att'[task'[w].a].state # "CREATED"
        OBVIOUS
    <3>1. task'[w] = task[w] /\ task[w].a \in Attempts /\ att[task[w].a].state # "NONE"
        BY <1>1, Owned
    <3>2. att'[task[w].a] = att[task[w].a]
        BY <1>3, <1>6, <3>1
    <3>3. QED
        BY <1>1, <3>1, <3>2 DEF IInv, Unsent
  <2>3. QED
      BY <2>1, <2>2 DEF Unsent
<1>12. QED
    BY <1>1, <1>7, <1>8, <1>9, <1>10, <1>11 DEF IInv, AtMostOnePost

-----------------------------------------------------------------------------
(* The operator's stop and the collection of masters                        *)

LEMMA CancelRows ==
    ASSUME IInv, CancelUnsubmitted
    PROVE  RowsForward
<1>1. /\ att' = [a \in Attempts |-> IF a \in CancelledAttempts
                    THEN [att[a] EXCEPT !.state = "FAILED", !.code = "other"] ELSE att[a]]
      /\ job' = [j \in Jobs |-> IF j \in Cancelled
                    THEN [job[j] EXCEPT !.state = "CANCELLED"] ELSE job[j]]
    BY DEF CancelUnsubmitted
<1>2. \A a \in Attempts :
          att'[a] = att[a] \/ (att[a].state # "NONE" /\ RowMoves(att[a], att'[a]))
  <2> SUFFICES ASSUME NEW a \in Attempts, att'[a] # att[a]
               PROVE  att[a].state # "NONE" /\ RowMoves(att[a], att'[a])
      OBVIOUS
  <2>1. /\ att'[a] = [att[a] EXCEPT !.state = "FAILED", !.code = "other"]
        /\ att[a].state = "CREATED"
      BY <1>1 DEF CancelledAttempts
  <2>2. QED
      BY ZenonT(30), <2>1, Recorded, EndMoves
<1>3. \A j \in Jobs : JobMoves(job[j], job'[j])
  <2> SUFFICES ASSUME NEW j \in Jobs PROVE JobMoves(job[j], job'[j])
      OBVIOUS
  <2>1. job[j] \in JobRows /\ "CANCELLED" \in JobStates
      BY DEF IInv, TypeOK, JobStates, TerminalJob
  <2>2. job'[j] = job[j] \/ job'[j] = [job[j] EXCEPT !.state = "CANCELLED"]
      BY <1>1
  <2>3. QED
      BY <2>1, <2>2, SameJobMoves, JobStateMoves
<1>4. att' = [a \in Attempts |-> att'[a]] /\ job' = [j \in Jobs |-> job'[j]]
    BY <1>1
<1>5. QED
    BY <1>2, <1>3, <1>4, ManyRows

LEMMA StopSteps ==
    ASSUME IInv, RequestStop \/ SettleStop
    PROVE  IInv'
<1>1. CancelUnsubmitted /\ UNCHANGED <<ev, task, net>>
    BY DEF RequestStop, SettleStop
<1>2. Touch(CancelledAttempts)
    BY <1>1 DEF CancelUnsubmitted
<1>3. release' \in Releases
  <2>1. release \in Releases
      BY DEF IInv, TypeOK
  <2>2. CASE RequestStop
      BY <2>1, <2>2 DEF RequestStop, Releases
  <2>3. CASE SettleStop
      BY <2>1, <2>3 DEF SettleStop, Releases
  <2>4. QED
      BY <2>2, <2>3
<1>4. QED
    BY <1>1, <1>2, <1>3, CancelRows, TouchStep

LEMMA CollectionStep ==
    ASSUME IInv, NEW j \in Jobs, Collection(j)
    PROVE  IInv'
<1>1. PICK s \in {"VERIFYING", "COLLECTING", "DEAD_LETTER", "SUCCEEDED"} :
          job' = [job EXCEPT ![j] = [job[j] EXCEPT !.state = s]]
    BY DEF Collection, ClaimCollection, RescheduleCollection, FailCollection, Collect
<1>2. UNCHANGED <<att, ev, task, rec, net>>
    BY DEF Collection, ClaimCollection, RescheduleCollection, FailCollection, Collect
<1>3. release' \in Releases
    BY DEF Collection, ClaimCollection, RescheduleCollection, FailCollection, Collect,
           IInv, TypeOK, Releases
<1>4. job[j] \in JobRows /\ s \in JobStates
    BY DEF IInv, TypeOK, JobStates, RemoteOrAmbiguousJob, TerminalJob
<1>5. \A k \in Jobs : JobMoves(job[k], job'[k])
  <2> SUFFICES ASSUME NEW k \in Jobs PROVE JobMoves(job[k], job'[k])
      OBVIOUS
  <2>1. job'[k] = job[k] \/ job'[k] = [job[k] EXCEPT !.state = s]
      BY <1>1 DEF IInv, TypeOK
  <2>2. job[k] \in JobRows
      BY DEF IInv, TypeOK
  <2>3. QED
      BY <1>4, <2>1, <2>2, SameJobMoves, JobStateMoves
<1>6. job' = [k \in Jobs |-> job'[k]] /\ att' = [a \in Attempts |-> att'[a]]
    BY <1>1, <1>2 DEF IInv, TypeOK
<1>7. RowsForward
    BY <1>2, <1>5, <1>6, ManyRows
<1>8. QED
    BY <1>2, <1>3, <1>7, RowsStep DEF IInv, TypeOK

-----------------------------------------------------------------------------
(* The provider                                                             *)

LEMMA WireStep ==
    ASSUME IInv, NEW a \in Attempts, NEW from, NEW to \in {"landed", "lost"},
           NEW hist \in SUBSET Statuses, to = "landed" => hist # {}, Wire(a, from, to, hist)
    PROVE  IInv'
<1> DEFINE n == [net[a] EXCEPT !.wire = to, !.hist = hist]
<1>1. net' = [net EXCEPT ![a] = n] /\ UNCHANGED <<release, job, att, ev, task, rec>>
    BY DEF Wire
<1>2. net[a] \in ProviderRows
    BY DEF IInv, TypeOK
<1>3. n \in ProviderRows /\ n.posts = net[a].posts /\ n.wire = to /\ n.hist = hist
    BY <1>2 DEF ProviderRows
<1> HIDE DEF n
<1>4. TypeOK'
    BY <1>1, <1>3 DEF IInv, TypeOK
<1>5. \A b \in Attempts : net'[b].posts = net[b].posts
                         /\ (net'[b].wire = "landed" => net'[b].hist # {})
    BY <1>1, <1>3 DEF IInv, TypeOK, Room
<1>6. QED
    BY <1>1, <1>4, <1>5
    DEF IInv, Ownership, Existence, Room, Unsent, AtMostOnePost, JobOf, TypeOK

LEMMA ProviderStep ==
    ASSUME IInv, Provider
    PROVE  IInv'
<1>1. {"pending"} \in SUBSET Statuses /\ {"pending", "running"} \in SUBSET Statuses
      /\ {} \in SUBSET Statuses
    BY DEF Statuses
<1>2. CASE CancelLands
  <2>1. rec.a \in Attempts
      BY <1>2, Held DEF CancelLands
  <2>2. net[rec.a].hist \cup {"cancelled"} \in SUBSET Statuses
      BY <2>1 DEF IInv, TypeOK, ProviderRows, Statuses, Terminals
  <2>3. QED
      BY <1>2, <2>1, <2>2, WireStep DEF CancelLands
<1>3. ASSUME NEW a \in Attempts, Land(a) \/ Lose(a) \/ Advance(a)
      PROVE  IInv'
  <2>1. \A s \in FinalStatuses : net[a].hist \cup {s} \in SUBSET Statuses
      BY GenerationAssumption DEF IInv, TypeOK, ProviderRows, Statuses
  <2>2. CASE Land(a)
      BY <1>1, <2>2, WireStep DEF Land
  <2>3. CASE Lose(a)
      BY <1>1, <2>3, WireStep DEF Lose
  <2>4. CASE Advance(a) /\ Wire(a, "landed", "landed", {"pending", "running"})
      BY <1>1, <2>4, WireStep
  <2>5. ASSUME NEW s \in FinalStatuses, Wire(a, "landed", "landed", net[a].hist \cup {s})
        PROVE  IInv'
      BY <2>1, <2>5, WireStep
  <2>6. QED
      BY <1>3, <2>2, <2>3, <2>4, <2>5 DEF Advance
<1>4. QED
    BY <1>2, <1>3 DEF Provider

-----------------------------------------------------------------------------
(* Every step                                                               *)

LEMMA SubmissionStep ==
    ASSUME IInv, NEW w \in Workers, Submission(w)
    PROVE  IInv'
BY ClaimStep, FenceStaleStep, NothingRecordedStep, DeferAdmissionStep, ReserveStep,
   BuildFailsStep, RearmStep, PostStep, PostRefusedStep, PostAmbiguousStep,
   PostAcceptedStep, InterruptStep, CrashStep
DEF Submission

LEMMA NextIInv == IInv /\ [Next]_vars => IInv'
<1> SUFFICES ASSUME IInv, [Next]_vars PROVE IInv'
    OBVIOUS
<1>1. CASE Next
    BY <1>1, RecoverStep, DispatchStep, BlockedStep, SubmissionStep, LeaseExpiresStep,
       ReconcilerSteps, WebhookStep, StopSteps, CollectionStep, ProviderStep
    DEF Next
<1>2. CASE UNCHANGED vars
    BY <1>2, NoRow, RowsStep DEF vars, IInv, TypeOK
<1>3. QED
    BY <1>1, <1>2

(* The rows, the workers and the reconciler keep their shape: no retry      *)
(* count, delivery count or absence tracker ever leaves its range.          *)
THEOREM Typing == Spec => []TypeOK
<1>1. Init => IInv
    BY InitIInv
<1>2. IInv /\ [Next]_vars => IInv'
    BY NextIInv
<1>3. IInv => TypeOK
    BY DEF IInv
<1>4. QED
    BY <1>1, <1>2, <1>3, PTL DEF Spec

(* The submit worker sends an attempt to the provider at most once, however *)
(* its event is deferred, replayed, swept or interrupted.                   *)
THEOREM OnePostPerAttempt == Spec => []AtMostOnePost
<1>1. Init => IInv
    BY InitIInv
<1>2. IInv /\ [Next]_vars => IInv'
    BY NextIInv
<1>3. IInv => AtMostOnePost
    BY DEF IInv
<1>4. QED
    BY <1>1, <1>2, <1>3, PTL DEF Spec

-----------------------------------------------------------------------------
(* What holds of the rows, the workers and the reconciler together          *)

Collected == {"COLLECTING", "VERIFYING", "SUCCEEDED"}

(* The provider's side: a job is known of only once the request has landed. *)
Wires == \A a \in Attempts :
    /\ net[a].wire # "unsent" => net[a].posts # 0
    /\ net[a].hist # {} => net[a].wire = "landed"

(* An attempt's row follows its reservation and the provider.               *)
RowFits(a) ==
    /\ att[a].held = "held" => att[a].state \in RemoteOrAmbiguous
    /\ att[a].state \in {"NONE", "CREATED"} => att[a].held = "none"
    /\ att[a].state = "SUBMITTING" => att[a].held = "held"
    /\ att[a].ext => att[a].state \notin {"NONE", "CREATED", "SUBMITTING"}
    /\ att[a].state = "SUCCEEDED" => "succeeded" \in net[a].hist
    /\ Live(a) => att[a].state \in RemoteOrAmbiguous /\ att[a].held = "held"

(* Only the latest attempt of a job that has not ended is open.             *)
OpenIsCurrent == \A a \in Attempts : att[a].state \in Nonterminal =>
    Current(a) /\ job[JobOf(a)].state \notin TerminalJob

CollectedSucceeded == \A j \in Jobs : job[j].state \in Collected =>
    /\ <<j, job[j].count>> \in Attempts
    /\ att[<<j, job[j].count>>].state = "SUCCEEDED"

(* What a settled stop leaves stays so.                                     *)
StopHolds == release.stopped =>
    /\ release.stop
    /\ \A j \in Jobs : job[j].state \in TerminalJob
    /\ \A a \in Attempts : att[a].state \notin Nonterminal

(* Every job has someone to move it on: the attempt that its state tells of.*)
Busy == {"SUBMITTING", "RUNNING", "UNKNOWN", "CANCEL_REQUESTED"}

Backed(j) == LET a == <<j, job[j].count>> IN
    /\ job[j].state \in Busy => a \in Attempts /\ att[a].state \in RemoteOrAmbiguous
    /\ job[j].state = "CLAIMED" => a \in Attempts /\ att[a].state = "CREATED"
    /\ job[j].state = "RETRY_WAIT" =>
          job[j].count < job[j].max \/ (a \in Attempts /\ att[a].state = "CREATED")

RowsFit ==
    /\ Wires
    /\ \A j \in Jobs : Backed(j)
    /\ \A a \in Attempts : RowFits(a)
    /\ OpenIsCurrent
    /\ CollectedSucceeded
    /\ StopHolds
    /\ ReviewIsComplete

(* A worker between the reservation and the provider's answer is the only   *)
(* one to touch its attempt.                                                *)
WorkersFit ==
    /\ SubmittingIsOwned
    /\ \A a \in Attempts :
          att[a].state = "CREATED" => ev[a].status \in {"PENDING", "PROCESSING"}
    /\ \A w \in Workers :
          /\ task[w].pc \in {"building", "posting"} => att[task[w].a].state = "SUBMITTING"
          /\ task[w].pc \in {"claimed", "settling"} => att[task[w].a].state # "SUBMITTING"
          /\ task[w].pc = "settling" /\ task[w].result \notin {"UNKNOWN", "BUDGET_BLOCKED"} =>
                att[task[w].a].state # "CREATED"
          /\ task[w].posted => task[w].pc \in {"posting", "settling"}
          /\ task[w].pc = "posting" => task[w].posted

(* What the reconciler read is still true when it is applied: a status is   *)
(* in the provider's history, and an absence that nothing outdated is not   *)
(* the last one needed while the job may still turn up.                     *)
ReadingFits ==
    /\ rec.pc # "idle" => att[rec.a].state \notin {"NONE", "CREATED", "SUBMITTING"}
    /\ rec.pc = "read" /\ rec.obs \in Statuses =>
          net[rec.a].wire = "landed" /\ rec.obs \in net[rec.a].hist
    /\ rec.pc = "read" /\ rec.obs = "missing" =>
          ~att[rec.a].ext /\ att[rec.a].state \in Reconcilable
    /\ rec.pc = "read" /\ rec.obs = "absent" /\ rec.fresh =>
          \/ ~Live(rec.a)
          \/ att[rec.a].misses < Confirmations - 1 /\ att[rec.a].stopMisses < Confirmations - 1

CInv == IInv /\ RowsFit /\ WorkersFit /\ ReadingFits

-----------------------------------------------------------------------------
(* The steps the rows bear                                                  *)

StateStep(a) ==
    /\ att'[a].state = "NONE" <=> att[a].state = "NONE"
    /\ att[a].state \in TerminalAttempt => att'[a].state = att[a].state
    /\ att'[a].state \in {"CREATED", "SUBMITTING"} => att[a].state = att'[a].state
    /\ att'[a].held # att[a].held => att[a].held = "held" /\ att'[a].held = "released"

(* A job that ended stays so, but for a retry grant.                        *)
EndStays(j) == job[j].state \in TerminalJob /\ job'[j].state # job[j].state =>
    /\ job[j].state = "DEAD_LETTER" /\ job'[j].state = "RETRY_WAIT"
    /\ job'[j].max = job[j].max + 1 /\ ReleaseAllowsRetry

JobStep(j) ==
    /\ job'[j].count = job[j].count
    /\ EndStays(j) /\ Backed(j)'
    /\ job'[j].state \in TerminalJob /\ job[j].state \notin TerminalJob =>
          \A a \in AttemptsOf(j) : att'[a].state \notin Nonterminal
    /\ job'[j].state \in Collected /\ job[j].state \notin Collected =>
          /\ <<j, job[j].count>> \in Attempts
          /\ att'[<<j, job[j].count>>].state = "SUCCEEDED"

AllAdvance ==
    /\ \A a \in Attempts : StateStep(a) /\ RowFits(a)'
    /\ \A j \in Jobs : JobStep(j)
    /\ \A a, b \in Attempts :
          att'[a].held # att[a].held /\ att'[b].held # att[b].held => a = b

(* The same for the one attempt a step is about, and its job.               *)
AttemptAdvances(a) ==
    /\ StateStep(a) /\ RowFits(a)'
    /\ \A b \in Attempts \ {a} : att'[b] = att[b]

JobAdvances(a) == LET j == JobOf(a) IN
    /\ job'[j].count = job[j].count
    /\ EndStays(j) /\ Backed(j)'
    /\ job'[j].state \in TerminalJob /\ job[j].state \notin TerminalJob =>
          Current(a) /\ att'[a].state \notin Nonterminal
    /\ job'[j].state \in Collected /\ job[j].state \notin Collected =>
          Current(a) /\ att'[a].state = "SUCCEEDED"
    /\ \A k \in Jobs \ {j} : job'[k] = job[k]

LEMMA OpenOrEnded ==
    ASSUME CInv, NEW a \in Attempts
    PROVE  /\ att[a].state = "NONE" \/ att[a].state \in Nonterminal
                 \/ att[a].state \in TerminalAttempt
           /\ Nonterminal \cap TerminalAttempt = {}
           /\ "NONE" \notin Nonterminal \cup TerminalAttempt
BY DEF CInv, IInv, TypeOK, AttemptRows, AttemptStates, Nonterminal, TerminalAttempt,
       RemoteOrAmbiguous, Reconcilable

(* A job that no step touches, nor its attempts.                            *)
LEMMA OthersBacked ==
    ASSUME CInv, NEW j \in Jobs, job'[j] = job[j],
           \A b \in Attempts : JobOf(b) = j => att'[b].state = att[b].state
    PROVE  Backed(j)'
<1>1. Backed(j)
  BY DEF CInv, RowsFit
<1>2. QED
  BY <1>1 DEF Backed, JobOf

LEMMA OneMovesAlone ==
    ASSUME CInv, NEW a \in Attempts, AttemptAdvances(a), JobAdvances(a),
           \A b \in Attempts \ {a} : net'[b] = net[b]
    PROVE  AllAdvance
<1>1. ASSUME NEW b \in Attempts PROVE StateStep(b) /\ RowFits(b)'
  <2>1. CASE b = a
    BY <2>1 DEF AttemptAdvances
  <2>2. CASE b # a
    BY <2>2 DEF AttemptAdvances, StateStep, CInv, RowsFit, RowFits, Live, Terminated
  <2>3. QED
    BY <2>1, <2>2
<1>2. ASSUME NEW j \in Jobs PROVE JobStep(j)
  <2>1. CASE j # JobOf(a)
    <3>1. job'[j] = job[j] /\ Backed(j)'
      BY <2>1, OthersBacked DEF JobAdvances, AttemptAdvances
    <3>2. QED
      BY <2>1, <3>1 DEF JobStep, EndStays
  <2>2. CASE j = JobOf(a)
    <3>1. Current(a) => a = <<j, job[j].count>>
      BY <2>2 DEF Current, JobOf, Attempts
    <3>2. ASSUME Current(a), att'[a].state \notin Nonterminal, NEW b \in AttemptsOf(j)
          PROVE  att'[b].state \notin Nonterminal
      <4>1. CASE b = a
        BY <3>2, <4>1
      <4>2. CASE b # a
        <5>1. b \in Attempts /\ ~Current(b) /\ att'[b] = att[b]
          BY <2>2, <3>2, <4>2 DEF Current, JobOf, Attempts, AttemptsOf, AttemptAdvances
        <5>2. QED
          BY <5>1 DEF CInv, RowsFit, OpenIsCurrent
      <4>3. QED
        BY <4>1, <4>2
    <3>3. QED
      BY <2>2, <3>1, <3>2 DEF JobAdvances, JobStep
  <2>3. QED
    BY <2>1, <2>2
<1>3. \A b \in Attempts : att'[b].held # att[b].held => b = a
  BY DEF AttemptAdvances
<1>4. QED
  BY <1>1, <1>2, <1>3 DEF AllAdvance

LEMMA OneMoves ==
    ASSUME CInv, NEW a \in Attempts, AttemptAdvances(a), JobAdvances(a), UNCHANGED net
    PROVE  AllAdvance
BY OneMovesAlone

LEMMA OpenStays ==
    ASSUME CInv, AllAdvance
    PROVE  OpenIsCurrent' /\ CollectedSucceeded'
<1>1. ASSUME NEW a \in Attempts, att'[a].state \in Nonterminal
      PROVE  Current(a)' /\ job'[JobOf(a)].state \notin TerminalJob
  <2>1. StateStep(a) /\ JobOf(a) \in Jobs /\ JobStep(JobOf(a)) /\ a \in AttemptsOf(JobOf(a))
    BY JobOfAttempt DEF AllAdvance, AttemptsOf, JobOf
  <2>2. att[a].state \in Nonterminal
    BY <1>1, <2>1, OpenOrEnded DEF StateStep
  <2>3. Current(a) /\ job[JobOf(a)].state \notin TerminalJob
    BY <2>2 DEF CInv, RowsFit, OpenIsCurrent
  <2>4. QED
    BY <1>1, <2>1, <2>3 DEF JobStep, Current, JobOf
<1>2. ASSUME NEW j \in Jobs, job'[j].state \in Collected
      PROVE  /\ <<j, job'[j].count>> \in Attempts
             /\ att'[<<j, job'[j].count>>].state = "SUCCEEDED"
  <2>1. JobStep(j) /\ job'[j].count = job[j].count
    BY DEF AllAdvance, JobStep
  <2>2. CASE job[j].state \notin Collected
    BY <1>2, <2>1, <2>2 DEF JobStep
  <2>3. CASE job[j].state \in Collected
    <3>1. <<j, job[j].count>> \in Attempts /\ att[<<j, job[j].count>>].state = "SUCCEEDED"
      BY <2>3 DEF CInv, RowsFit, CollectedSucceeded
    <3>2. StateStep(<<j, job[j].count>>)
      BY <3>1 DEF AllAdvance
    <3>3. QED
      BY <2>1, <3>1, <3>2 DEF StateStep, TerminalAttempt
  <2>4. QED
    BY <2>2, <2>3
<1>3. QED
  BY <1>1, <1>2 DEF OpenIsCurrent, CollectedSucceeded

(* A settled stop stays settled, whatever else becomes of the release.       *)
LEMMA StopStays ==
    ASSUME CInv, AllAdvance, release'.stopped => release.stopped, release.stop => release'.stop
    PROVE  StopHolds'
<1>1. ASSUME release.stopped, NEW j \in Jobs PROVE job'[j].state \in TerminalJob
  <2>1. release.stop /\ job[j].state \in TerminalJob
    BY <1>1 DEF CInv, RowsFit, StopHolds
  <2>2. QED
    BY <2>1 DEF AllAdvance, JobStep, EndStays, ReleaseAllowsRetry
<1>2. ASSUME release.stopped, NEW a \in Attempts PROVE att'[a].state \notin Nonterminal
  <2>1. att[a].state \notin Nonterminal
    BY <1>2 DEF CInv, RowsFit, StopHolds
  <2>2. QED
    BY <2>1, OpenOrEnded DEF AllAdvance, StateStep
<1>3. release.stopped => release.stop
  BY DEF CInv, RowsFit, StopHolds
<1>4. QED
  BY <1>1, <1>2, <1>3 DEF StopHolds

LEMMA ReviewStays ==
    ASSUME CInv, AllAdvance,
           release'.phase = "REVIEWING" /\ ~release'.stopped =>
               release.phase = "REVIEWING" /\ ~release.stopped
    PROVE  ReviewIsComplete'
<1>1. ASSUME NEW j \in Jobs, job[j].state = "SUCCEEDED" PROVE job'[j].state = "SUCCEEDED"
  BY <1>1 DEF AllAdvance, JobStep, EndStays, TerminalJob
<1>2. QED
  BY <1>1 DEF CInv, RowsFit, ReviewIsComplete

LEMMA RowsAndReleaseKept ==
    ASSUME CInv, AllAdvance, UNCHANGED net, StopHolds', ReviewIsComplete'
    PROVE  RowsFit'
<1>1. Wires'
  BY DEF CInv, RowsFit, Wires
<1>2. \A j \in Jobs : Backed(j)'
  BY DEF AllAdvance, JobStep
<1>3. QED
  BY <1>1, <1>2, OpenStays DEF RowsFit, AllAdvance

LEMMA RowsAndWiresKept ==
    ASSUME CInv, AllAdvance, UNCHANGED release, Wires'
    PROVE  RowsFit'
<1>1. \A j \in Jobs : Backed(j)'
  BY DEF AllAdvance, JobStep
<1>2. QED
  BY <1>1, OpenStays, StopStays, ReviewStays DEF RowsFit, AllAdvance

LEMMA RowsKept ==
    ASSUME CInv, AllAdvance, UNCHANGED <<release, net>>
    PROVE  RowsFit'
BY RowsAndReleaseKept, StopStays, ReviewStays

LEMMA WorkersKept ==
    ASSUME CInv, AllAdvance, UNCHANGED <<ev, task>>,
           \A a \in Attempts : att[a].state = "SUBMITTING" => att'[a].state = "SUBMITTING"
    PROVE  WorkersFit'
<1>1. \A a \in Attempts : att'[a].state = "SUBMITTING" <=> att[a].state = "SUBMITTING"
  BY DEF AllAdvance, StateStep
<1>2. \A w \in Workers : task[w].pc # "idle" => task[w].a \in Attempts
  BY DEF CInv, IInv, Ownership
<1>3. \A a \in Attempts : att'[a].state = "CREATED" => att[a].state = "CREATED"
  BY DEF AllAdvance, StateStep
<1>4. QED
  BY <1>1, <1>2, <1>3 DEF CInv, WorkersFit, SubmittingIsOwned

(* The reconciler still holds what it read, if only as outdated.            *)
LEMMA ReadingKept ==
    ASSUME CInv, AllAdvance, UNCHANGED net,
           rec'.pc = rec.pc, rec'.a = rec.a, rec'.obs = rec.obs,
           rec'.fresh => /\ rec.fresh
                         /\ att'[rec.a].misses = att[rec.a].misses
                         /\ att'[rec.a].stopMisses = att[rec.a].stopMisses,
           rec.pc = "read" /\ rec.obs = "missing" =>
               att'[rec.a].state = att[rec.a].state /\ att'[rec.a].ext = att[rec.a].ext
    PROVE  ReadingFits'
<1>1. rec.pc # "idle" => rec.a \in Attempts
  BY DEF CInv, IInv, Existence
<1>2. Live(rec.a)' = Live(rec.a)
  BY DEF Live, Terminated
<1>3. QED
  BY <1>1, <1>2 DEF CInv, ReadingFits, AllAdvance, StateStep

LEMMA ReadingEnds ==
    ASSUME CInv, AllAdvance,
           Done \/ (rec.pc # "idle" /\ \E pc \in {"stopDelete", "watchdogDelete"} : Deletes(pc))
    PROVE  ReadingFits'
<1>1. CASE Done
  BY <1>1 DEF Done, IdleRec, ReadingFits
<1>2. ASSUME rec.pc # "idle", NEW pc \in {"stopDelete", "watchdogDelete"}, Deletes(pc)
      PROVE  ReadingFits'
  <2>1. rec'.pc = pc /\ rec'.a = rec.a
    BY <1>2 DEF Deletes, IdleRec
  <2>2. rec.a \in Attempts
    BY <1>2 DEF CInv, IInv, Existence
  <2>3. QED
    BY <1>2, <2>1, <2>2 DEF CInv, ReadingFits, AllAdvance, StateStep
<1>3. QED
  BY <1>1, <1>2

LEMMA TouchIs ==
    ASSUME CInv, NEW S, Touch(S)
    PROVE  /\ rec'.pc = rec.pc /\ rec'.a = rec.a /\ rec'.obs = rec.obs
           /\ rec'.fresh => rec.fresh /\ rec.a \notin S
BY DEF Touch, CInv, IInv, TypeOK, Readings

-----------------------------------------------------------------------------
(* The reconciler                                                           *)

LEMMA ReconcilerAdvances ==
    ASSUME CInv, IInv', rec.pc # "idle", NEW a, a = rec.a,
           AttemptAdvances(a), JobAdvances(a),
           UNCHANGED <<release, ev, task, net>>,
           Done \/ (\E pc \in {"stopDelete", "watchdogDelete"} : Deletes(pc))
    PROVE  CInv' /\ AllAdvance
<1>1. a \in Attempts /\ att[a].state # "SUBMITTING"
  BY DEF CInv, IInv, Existence, ReadingFits
<1>2. AllAdvance
  BY <1>1, OneMoves
<1>3. \A b \in Attempts : att[b].state = "SUBMITTING" => att'[b].state = "SUBMITTING"
  BY <1>1 DEF AttemptAdvances
<1>4. RowsFit' /\ WorkersFit' /\ ReadingFits'
  BY <1>2, <1>3, RowsKept, WorkersKept, ReadingEnds
<1>5. QED
  BY <1>2, <1>4 DEF CInv

(* What the reconciler may rely on.                                         *)
LEMMA Reading ==
    ASSUME CInv, rec.pc # "idle", NEW a, a = rec.a
    PROVE  /\ a \in Attempts /\ att[a] \in AttemptRows
           /\ JobOf(a) \in Jobs /\ job[JobOf(a)] \in JobRows
           /\ att[a].state \notin {"NONE", "CREATED", "SUBMITTING"}
           /\ RowFits(a)
           /\ AttemptLives(a) => /\ att[a].state \in Nonterminal
                                     /\ Current(a) /\ JobLives(a)
<1>1. a \in Attempts /\ att[a].state \notin {"NONE", "CREATED", "SUBMITTING"}
  BY DEF CInv, IInv, Existence, ReadingFits
<1>2. AttemptLives(a) => att[a].state \in Nonterminal
  BY <1>1, OpenOrEnded DEF AttemptLives
<1>3. QED
  BY <1>1, <1>2, JobOfAttempt
  DEF CInv, IInv, TypeOK, RowsFit, OpenIsCurrent, JobLives

LEMMA SetJobIs ==
    ASSUME CInv, NEW a \in Attempts, NEW s, SetJob(a, s)
    PROVE  /\ job'[JobOf(a)].count = job[JobOf(a)].count
           /\ job'[JobOf(a)].state =
                 IF job[JobOf(a)].state \in TerminalJob THEN job[JobOf(a)].state ELSE s
           /\ \A k \in Jobs \ {JobOf(a)} : job'[k] = job[k]
BY JobOfAttempt DEF SetJob, CInv, IInv, TypeOK, JobRows

(* Who moves the job of an attempt on after a step.                         *)
LEMMA StillBacked ==
    ASSUME CInv, NEW a \in Attempts, job'[JobOf(a)].count = job[JobOf(a)].count,
           \/ job'[JobOf(a)].state \notin Busy \cup {"CLAIMED", "RETRY_WAIT"}
           \/ /\ job'[JobOf(a)].state = "RETRY_WAIT"
              /\ job'[JobOf(a)].count < job'[JobOf(a)].max
           \/ /\ job'[JobOf(a)].state \in Busy
              /\ Current(a) /\ att'[a].state \in RemoteOrAmbiguous
           \/ /\ job'[JobOf(a)].state \in {"CLAIMED", "RETRY_WAIT"}
              /\ Current(a) /\ att'[a].state = "CREATED"
    PROVE  Backed(JobOf(a))'
<1>1. Current(a) => a = <<JobOf(a), job'[JobOf(a)].count>>
  BY DEF Current, JobOf, Attempts
<1>2. QED
  BY <1>1 DEF Backed, Busy

LEMMA StayUnknownAdvances ==
    ASSUME CInv, rec.pc # "idle", NEW a, a = rec.a, AttemptLives(a),
           NEW m, NEW n, StayUnknown(a, m, n), UNCHANGED net
    PROVE  AttemptAdvances(a) /\ JobAdvances(a)
<1>1. \A b \in Attempts \ {a} : att'[b] = att[b]
  BY DEF StayUnknown, CInv, IInv, TypeOK
<1>2. IF AttemptLives(a)
      THEN /\ att'[a].state = "UNKNOWN" /\ att'[a].held = att[a].held
           /\ att'[a].ext = att[a].ext
      ELSE att'[a] = att[a]
  BY Reading DEF StayUnknown, CInv, IInv, TypeOK, AttemptRows
<1>3. AttemptAdvances(a)
  BY <1>1, <1>2, Reading
  DEF AttemptAdvances, StateStep, RowFits, Live, Terminated, AttemptLives, RemoteOrAmbiguous,
      Reconcilable
<1>4. JobAdvances(a)
  <2>1. /\ job'[JobOf(a)].count = job[JobOf(a)].count /\ job'[JobOf(a)].state = "UNKNOWN"
        /\ Current(a) /\ att'[a].state \in RemoteOrAmbiguous /\ a \in Attempts
        /\ job[JobOf(a)].state \notin TerminalJob
        /\ \A k \in Jobs \ {JobOf(a)} : job'[k] = job[k]
    BY <1>2, Reading, SetJobIs
    DEF StayUnknown, JobLives, RemoteOrAmbiguous, Reconcilable
  <2>2. Backed(JobOf(a))'
    BY <2>1, StillBacked DEF Busy
  <2>3. QED
    BY <2>1, <2>2 DEF JobAdvances, EndStays, TerminalJob, Collected
<1>5. QED
  BY <1>3, <1>4

(* An open attempt stays open, or a row keeps its state.                    *)
LEMMA OpenRow ==
    ASSUME CInv, NEW a \in Attempts, att[a].state # "NONE",
           \/ /\ att'[a].state = att[a].state
              /\ \/ att[a].state \notin {"CREATED", "SUBMITTING"}
                 \/ att'[a].ext = att[a].ext
           \/ AttemptLives(a) /\ att'[a].state \in Reconcilable,
           att'[a].held = att[a].held, UNCHANGED net
    PROVE  StateStep(a) /\ RowFits(a)'
<1>1. RowFits(a)
  BY DEF CInv, RowsFit
<1>2. QED
  BY <1>1
  DEF StateStep, RowFits, Live, Terminated, AttemptLives, RemoteOrAmbiguous, Reconcilable,
      TerminalAttempt

(* An open attempt ends, once the provider cannot be running it.            *)
LEMMA EndRow ==
    ASSUME CInv, NEW a \in Attempts, att[a].state # "NONE", AttemptLives(a), ~Live(a),
           att'[a].state \in TerminalAttempt, att'[a].held = Released(att[a].held),
           att'[a].state = "SUCCEEDED" => "succeeded" \in net[a].hist, UNCHANGED net
    PROVE  StateStep(a) /\ RowFits(a)'
<1>1. att[a].held \in {"none", "held", "released"}
  BY DEF CInv, IInv, TypeOK, AttemptRows
<1>2. QED
  BY <1>1
  DEF StateStep, RowFits, Live, Terminated, AttemptLives, RemoteOrAmbiguous, Reconcilable,
      TerminalAttempt, Released

LEMMA OpenAdvances ==
    ASSUME CInv, NEW a \in Attempts, att[a].state # "NONE",
           \/ /\ att'[a].state = att[a].state
              /\ \/ att[a].state \notin {"CREATED", "SUBMITTING"}
                 \/ att'[a].ext = att[a].ext
           \/ AttemptLives(a) /\ att'[a].state \in Reconcilable,
           att'[a].held = att[a].held,
           \A b \in Attempts \ {a} : att'[b] = att[b], UNCHANGED net
    PROVE  AttemptAdvances(a)
BY OpenRow DEF AttemptAdvances

LEMMA EndAdvances ==
    ASSUME CInv, NEW a \in Attempts, att[a].state # "NONE", AttemptLives(a), ~Live(a),
           att'[a].state \in TerminalAttempt, att'[a].held = Released(att[a].held),
           att'[a].state = "SUCCEEDED" => "succeeded" \in net[a].hist,
           \A b \in Attempts \ {a} : att'[b] = att[b], UNCHANGED net
    PROVE  AttemptAdvances(a)
BY EndRow DEF AttemptAdvances

LEMMA KeptBacked ==
    ASSUME CInv, NEW a \in Attempts, job'[JobOf(a)] = job[JobOf(a)],
           \A b \in Attempts \ {a} : att'[b] = att[b],
           \/ att'[a].state = att[a].state
           \/ att[a].state \in RemoteOrAmbiguous /\ att'[a].state \in RemoteOrAmbiguous
           \/ ~Current(a)
    PROVE  Backed(JobOf(a))'
<1>1. Backed(JobOf(a))
  BY JobOfAttempt DEF CInv, RowsFit
<1>2. CASE <<JobOf(a), job[JobOf(a)].count>> = a
  <2>1. Current(a)
    BY <1>2 DEF Current, JobOf
  <2>2. QED
    BY <1>1, <1>2, <2>1 DEF Backed, RemoteOrAmbiguous, Reconcilable
<1>3. CASE <<JobOf(a), job[JobOf(a)].count>> # a
  BY <1>1, <1>3 DEF Backed
<1>4. QED
  BY <1>2, <1>3

LEMMA SameJob ==
    ASSUME CInv, NEW a \in Attempts, UNCHANGED job,
           \A b \in Attempts \ {a} : att'[b] = att[b],
           \/ att'[a].state = att[a].state
           \/ att[a].state \in RemoteOrAmbiguous /\ att'[a].state \in RemoteOrAmbiguous
    PROVE  JobAdvances(a)
<1>1. Backed(JobOf(a))'
  BY KeptBacked
<1>2. QED
  BY <1>1 DEF JobAdvances, EndStays

LEMMA RetryIs ==
    ASSUME NEW q
    PROVE  /\ RetryOrFail(q) \in {"RETRY_WAIT", "DEAD_LETTER"}
           /\ RetryOrFail(q) = "RETRY_WAIT" => q.count < q.max
BY DEF RetryOrFail

(* A grant leaves the job an attempt to wait for.                           *)
LEMMA GrantedRoom ==
    ASSUME CInv, NEW j \in Jobs
    PROVE  job[j].count < job[j].max + 1
<1>1. job[j].count \in Nat /\ job[j].max \in Nat /\ job[j].count <= job[j].max
  BY GenerationAssumption DEF CInv, IInv, TypeOK, Room, JobRows
<1>2. QED
  BY <1>1

LEMMA GrantedIs ==
    ASSUME NEW q
    PROVE  /\ Granted(q).state = "RETRY_WAIT" /\ Granted(q).count = q.count
           /\ Granted(q).max = q.max + 1
BY DEF Granted

(* The job of the attempt that a step ends: it waits for a retry, which may *)
(* be granted, or it ends with its attempt.                                 *)
LEMMA JobOfEnded ==
    ASSUME CInv, NEW a \in Attempts, att[a].state \in Nonterminal,
           att'[a].state \in TerminalAttempt,
           job'[JobOf(a)].count = job[JobOf(a)].count,
           job'[JobOf(a)].state \in Collected => att'[a].state = "SUCCEEDED",
           job'[JobOf(a)].state \notin Busy \cup {"CLAIMED"},
           job'[JobOf(a)].state = "RETRY_WAIT" => job'[JobOf(a)].count < job'[JobOf(a)].max,
           \A k \in Jobs \ {JobOf(a)} : job'[k] = job[k]
    PROVE  JobAdvances(a)
<1>1. Current(a) /\ job[JobOf(a)].state \notin TerminalJob
  BY DEF CInv, RowsFit, OpenIsCurrent
<1>2. att'[a].state \notin Nonterminal
  BY OpenOrEnded
<1>3. Backed(JobOf(a))'
  BY StillBacked
<1>4. QED
  BY <1>1, <1>2, <1>3 DEF JobAdvances, EndStays

LEMMA StopAbsentAdvances ==
    ASSUME CInv, rec.pc # "idle", NEW a, a = rec.a, AttemptLives(a), ~Live(a),
           StopProviderAbsent(a), UNCHANGED net
    PROVE  AttemptAdvances(a) /\ JobAdvances(a)
<1>1. /\ a \in Attempts /\ att[a] \in AttemptRows /\ att[a].state \in Nonterminal
      /\ att[a].state # "NONE"
  BY Reading
<1>2. \A b \in Attempts \ {a} : att'[b] = att[b]
  BY DEF StopProviderAbsent, CInv, IInv, TypeOK
<1>3. att'[a].state \in {"CANCELLED", "FAILED"} /\ att'[a].held = Released(att[a].held)
  BY <1>1 DEF StopProviderAbsent, CInv, IInv, TypeOK, AttemptRows
<1>4. AttemptAdvances(a)
  BY <1>1, <1>2, <1>3, EndAdvances DEF TerminalAttempt
<1>5. JobAdvances(a)
  <2>1. /\ job'[JobOf(a)].count = job[JobOf(a)].count
        /\ job'[JobOf(a)].state \in TerminalJob \cup {"CANCELLED"}
        /\ job'[JobOf(a)].state \in {"CANCELLED", job[JobOf(a)].state}
        /\ job'[JobOf(a)].state \notin Busy \cup {"CLAIMED", "RETRY_WAIT"}
        /\ \A k \in Jobs \ {JobOf(a)} : job'[k] = job[k]
    BY <1>1, SetJobIs DEF StopProviderAbsent, TerminalJob, Busy
  <2>2. job[JobOf(a)].state \notin TerminalJob
    BY <1>1 DEF CInv, RowsFit, OpenIsCurrent
  <2>3. QED
    BY <1>1, <1>3, <2>1, <2>2, JobOfEnded DEF TerminalAttempt, Collected, TerminalJob
<1>6. QED
  BY <1>4, <1>5

LEMMA AbsentAdvances ==
    ASSUME CInv, rec.pc # "idle", NEW a, a = rec.a, AttemptLives(a), ~Live(a),
           ProviderJobAbsent(a), UNCHANGED net
    PROVE  AttemptAdvances(a) /\ JobAdvances(a)
<1>1. /\ a \in Attempts /\ att[a] \in AttemptRows /\ att[a].state \in Nonterminal
      /\ att[a].state # "NONE" /\ JobLives(a) /\ JobOf(a) \in Jobs
      /\ job[JobOf(a)] \in JobRows
  BY Reading
<1>2. \A b \in Attempts \ {a} : att'[b] = att[b]
  BY DEF ProviderJobAbsent, CInv, IInv, TypeOK
<1>3. att'[a].state = "FAILED" /\ att'[a].held = Released(att[a].held)
  BY <1>1 DEF ProviderJobAbsent, CInv, IInv, TypeOK, AttemptRows
<1>4. AttemptAdvances(a)
  BY <1>1, <1>2, <1>3, EndAdvances DEF TerminalAttempt
<1>5. JobAdvances(a)
  <2> DEFINE granted == MayGrant(a, "infra")
             q == job[JobOf(a)]
  <2>1. job' = [job EXCEPT ![JobOf(a)] =
                   IF granted THEN Granted(q) ELSE [q EXCEPT !.state = RetryOrFail(q)]]
    BY <1>1 DEF ProviderJobAbsent, JobLives
  <2> HIDE DEF granted
  <2>2. /\ job'[JobOf(a)].count = q.count
        /\ job'[JobOf(a)].state \in {"RETRY_WAIT", "DEAD_LETTER"}
        /\ job'[JobOf(a)].state = "RETRY_WAIT" =>
               job'[JobOf(a)].count < job'[JobOf(a)].max
        /\ \A k \in Jobs \ {JobOf(a)} : job'[k] = job[k]
    BY <1>1, <2>1, RetryIs, GrantedIs, GrantedRoom DEF CInv, IInv, TypeOK, JobRows
  <2>3. QED
    BY <1>1, <1>3, <2>2, JobOfEnded DEF TerminalAttempt, Collected, Busy
<1>6. QED
  BY <1>4, <1>5

LEMMA ApplyAbsenceAdvances == CInv /\ IInv' /\ ApplyAbsence => CInv' /\ AllAdvance
<1> SUFFICES ASSUME CInv, IInv', ApplyAbsence PROVE CInv' /\ AllAdvance
  OBVIOUS
<1> DEFINE a == rec.a
<1>1. /\ rec.pc # "idle" /\ rec.pc = "read" /\ rec.obs = "absent" /\ rec.fresh
      /\ AttemptLives(a) /\ Done /\ UNCHANGED <<release, ev, task, net>>
  BY DEF ApplyAbsence, Read, StillApplies
<1>2. \/ ~Live(a)
      \/ att[a].misses < Confirmations - 1 /\ att[a].stopMisses < Confirmations - 1
  BY <1>1 DEF CInv, ReadingFits
<1>3. att[a] \in AttemptRows
  BY <1>1, Reading
<1>4. Proven(att[a].misses) \/ Proven(att[a].stopMisses) => ~Live(a)
  BY <1>2, <1>3, GenerationAssumption DEF Proven, AttemptRows
<1>5. \/ StopProviderAbsent(a) /\ ~Live(a)
      \/ ProviderJobAbsent(a) /\ ~Live(a)
      \/ \E m, n : StayUnknown(a, m, n)
  BY <1>4 DEF ApplyAbsence
<1>6. PICK b : b = rec.a
  OBVIOUS
<1>7. AttemptAdvances(b) /\ JobAdvances(b)
  BY <1>1, <1>5, <1>6, StopAbsentAdvances, AbsentAdvances, StayUnknownAdvances
<1>8. QED
  BY <1>1, <1>6, <1>7, ReconcilerAdvances

LEMMA ApplyNothingAdvances ==
    CInv /\ IInv' /\ (ApplyInconclusive \/ ApplyMissing) => CInv' /\ AllAdvance
<1> SUFFICES ASSUME CInv, IInv', ApplyInconclusive \/ ApplyMissing PROVE CInv' /\ AllAdvance
  OBVIOUS
<1>1. PICK a : a = rec.a
  OBVIOUS
<1>2. /\ rec.pc # "idle" /\ Done /\ UNCHANGED <<release, ev, task, net>>
      /\ \E m, n : StayUnknown(a, m, n)
      /\ AttemptLives(a) \/ (rec.pc = "read" /\ rec.obs = "missing")
  BY <1>1 DEF ApplyInconclusive, ApplyMissing, Read, StillApplies
<1>3. AttemptLives(a)
  BY <1>1, <1>2 DEF CInv, ReadingFits, AttemptLives, TerminalAttempt, Reconcilable
<1>4. AttemptAdvances(a) /\ JobAdvances(a)
  BY <1>1, <1>2, <1>3, StayUnknownAdvances
<1>5. QED
  BY <1>1, <1>2, <1>4, ReconcilerAdvances

(* A pass that leaves the states of the rows alone.                         *)
LEMMA NotedAdvances ==
    ASSUME CInv, IInv', rec.pc # "idle", NEW a, a = rec.a,
           att'[a].state = att[a].state \/ (AttemptLives(a) /\ att'[a].state \in Reconcilable),
           att'[a].held = att[a].held, \A b \in Attempts \ {a} : att'[b] = att[b],
           JobAdvances(a), UNCHANGED <<release, ev, task, net>>,
           Done \/ (\E pc \in {"stopDelete", "watchdogDelete"} : Deletes(pc))
    PROVE  CInv' /\ AllAdvance
<1>1. a \in Attempts /\ att[a].state \notin {"NONE", "CREATED", "SUBMITTING"}
  BY Reading
<1>2. AttemptAdvances(a)
  BY <1>1, OpenAdvances
<1>3. QED
  BY <1>2, ReconcilerAdvances

LEMMA ApplyErrorAdvances == CInv /\ IInv' /\ ApplyError => CInv' /\ AllAdvance
<1> SUFFICES ASSUME CInv, IInv', ApplyError PROVE CInv' /\ AllAdvance
  OBVIOUS
<1>1. PICK a : a = rec.a
  OBVIOUS
<1>2. rec.pc # "idle" /\ Done /\ UNCHANGED <<release, job, ev, task, net>>
  BY DEF ApplyError, Read
<1>3. a \in Attempts /\ att[a] \in AttemptRows
  BY <1>1, <1>2, Reading
<1>4. /\ att'[a].state = att[a].state /\ att'[a].held = att[a].held
      /\ \A b \in Attempts \ {a} : att'[b] = att[b]
  BY <1>1, <1>3 DEF ApplyError, CInv, IInv, TypeOK, AttemptRows
<1>5. QED
  BY <1>1, <1>2, <1>3, <1>4, SameJob, NotedAdvances

LEMMA CancelFailsAdvances == CInv /\ IInv' /\ CancelFails => CInv' /\ AllAdvance
<1> SUFFICES ASSUME CInv, IInv', CancelFails PROVE CInv' /\ AllAdvance
  OBVIOUS
<1>1. PICK a : a = rec.a
  OBVIOUS
<1>2. rec.pc # "idle" /\ Done /\ UNCHANGED <<release, job, ev, task, net>>
  BY DEF CancelFails
<1>3. a \in Attempts /\ att[a] \in AttemptRows
  BY <1>1, <1>2, Reading
<1>4. /\ att'[a].state = att[a].state /\ att'[a].held = att[a].held
      /\ \A b \in Attempts \ {a} : att'[b] = att[b]
  <2>1. att' = att \/ att' = [att EXCEPT ![a] = [att[a] EXCEPT !.code = "other", !.cancel = "none"]]
    BY <1>1 DEF CancelFails
  <2>2. CASE att' = att
    BY <2>2
  <2>3. CASE att' = [att EXCEPT ![a] = [att[a] EXCEPT !.code = "other", !.cancel = "none"]]
    BY <1>3, <2>3 DEF CInv, IInv, TypeOK, AttemptRows
  <2>4. QED
    BY <2>1, <2>2, <2>3
<1>5. QED
  BY <1>1, <1>2, <1>3, <1>4, SameJob, NotedAdvances

LEMMA BeginStopAdvances == CInv /\ IInv' /\ BeginStopCancel => CInv' /\ AllAdvance
<1> SUFFICES ASSUME CInv, IInv', BeginStopCancel PROVE CInv' /\ AllAdvance
  OBVIOUS
<1>1. PICK a : a = rec.a
  OBVIOUS
<1>2. rec.pc # "idle" /\ (Done \/ Deletes("stopDelete")) /\ UNCHANGED <<release, job, ev, task, net>>
  BY DEF BeginStopCancel, Read
<1>3. a \in Attempts /\ att[a] \in AttemptRows
  BY <1>1, <1>2, Reading
<1>4. /\ att'[a].state = att[a].state /\ att'[a].held = att[a].held
      /\ \A b \in Attempts \ {a} : att'[b] = att[b]
  <2>1. att' = att \/ att' = [att EXCEPT ![a] = [att[a] EXCEPT
                          !.ext = TRUE, !.stopMisses = 0, !.seen = Later(att[a].seen, rec.obs)]]
    BY <1>1 DEF BeginStopCancel
  <2>2. CASE att' = att
    BY <2>2
  <2>3. CASE att' = [att EXCEPT ![a] = [att[a] EXCEPT
                          !.ext = TRUE, !.stopMisses = 0, !.seen = Later(att[a].seen, rec.obs)]]
    BY <1>3, <2>3 DEF CInv, IInv, TypeOK, AttemptRows
  <2>4. QED
    BY <2>1, <2>2, <2>3
<1>5. QED
  BY <1>1, <1>2, <1>3, <1>4, SameJob, NotedAdvances

LEMMA BeginWatchdogAdvances == CInv /\ IInv' /\ BeginWatchdogCancel => CInv' /\ AllAdvance
<1> SUFFICES ASSUME CInv, IInv', BeginWatchdogCancel PROVE CInv' /\ AllAdvance
  OBVIOUS
<1>1. PICK a : a = rec.a
  OBVIOUS
<1>2. /\ rec.pc # "idle" /\ (Done \/ Deletes("watchdogDelete")) /\ AttemptLives(a)
      /\ UNCHANGED <<release, job, ev, task, net>>
  BY <1>1 DEF BeginWatchdogCancel, WatchdogApplies, Read
<1>3. a \in Attempts /\ att[a] \in AttemptRows
  BY <1>1, <1>2, Reading
<1>4. /\ att'[a].state = att[a].state \/ att'[a].state = "CANCEL_REQUESTED"
      /\ att'[a].held = att[a].held
      /\ \A b \in Attempts \ {a} : att'[b] = att[b]
  <2>1. att' = att \/ att' = [att EXCEPT ![a] = [att[a] EXCEPT
                          !.state = "CANCEL_REQUESTED", !.cancel = "watchdog", !.ext = TRUE,
                          !.misses = 0, !.stopMisses = 0, !.seen = Later(att[a].seen, rec.obs)]]
    BY <1>1 DEF BeginWatchdogCancel
  <2>2. CASE att' = att
    BY <2>2
  <2>3. CASE att' = [att EXCEPT ![a] = [att[a] EXCEPT
                          !.state = "CANCEL_REQUESTED", !.cancel = "watchdog", !.ext = TRUE,
                          !.misses = 0, !.stopMisses = 0, !.seen = Later(att[a].seen, rec.obs)]]
    BY <1>3, <2>3 DEF CInv, IInv, TypeOK, AttemptRows
  <2>4. QED
    BY <2>1, <2>2, <2>3
<1>5. JobAdvances(a)
  BY <1>1, <1>2, <1>3, <1>4, Reading, SameJob
  DEF Nonterminal, RemoteOrAmbiguous, Reconcilable
<1>6. QED
  BY <1>1, <1>2, <1>3, <1>4, <1>5, NotedAdvances DEF Reconcilable

LEMMA RecordStopAdvances == CInv /\ IInv' /\ RecordStopCancel => CInv' /\ AllAdvance
<1> SUFFICES ASSUME CInv, IInv', RecordStopCancel PROVE CInv' /\ AllAdvance
  OBVIOUS
<1>1. PICK a : a = rec.a
  OBVIOUS
<1>2. rec.pc # "idle" /\ Done /\ UNCHANGED <<release, ev, task, net>>
  BY DEF RecordStopCancel
<1>3. a \in Attempts /\ att[a] \in AttemptRows /\ JobOf(a) \in Jobs
  BY <1>1, <1>2, Reading
<1>4. /\ \/ att'[a].state = att[a].state /\ att' = att
         \/ AttemptLives(a) /\ att'[a].state = "CANCEL_REQUESTED"
      /\ att'[a].held = att[a].held
      /\ \A b \in Attempts \ {a} : att'[b] = att[b]
  <2>1. \/ att' = att
        \/ AttemptLives(a) /\ att' = [att EXCEPT ![a] = [att[a] EXCEPT
                          !.state = "CANCEL_REQUESTED", !.cancel = "stop", !.code = "other",
                          !.misses = 0, !.stopMisses = 0]]
    BY <1>1 DEF RecordStopCancel
  <2>2. CASE att' = att
    BY <2>2
  <2>3. CASE AttemptLives(a) /\ att' = [att EXCEPT ![a] = [att[a] EXCEPT
                          !.state = "CANCEL_REQUESTED", !.cancel = "stop", !.code = "other",
                          !.misses = 0, !.stopMisses = 0]]
    BY <1>3, <2>3 DEF CInv, IInv, TypeOK, AttemptRows
  <2>4. QED
    BY <2>1, <2>2, <2>3
<1>5. JobAdvances(a)
  <2>1. CASE SetJob(a, "CANCEL_REQUESTED") /\ att'[a].state = "CANCEL_REQUESTED" /\ AttemptLives(a)
    <3>1. /\ Current(a) /\ att'[a].state \in RemoteOrAmbiguous
          /\ job'[JobOf(a)].count = job[JobOf(a)].count
          /\ job'[JobOf(a)].state = "CANCEL_REQUESTED"
          /\ job[JobOf(a)].state \notin TerminalJob
          /\ \A k \in Jobs \ {JobOf(a)} : job'[k] = job[k]
      BY <1>1, <1>2, <1>3, <2>1, Reading, SetJobIs
      DEF JobLives, RemoteOrAmbiguous, Reconcilable
    <3>2. Backed(JobOf(a))'
      BY <1>3, <3>1, StillBacked DEF Busy
    <3>3. QED
      BY <3>1, <3>2 DEF JobAdvances, EndStays, TerminalJob, Collected
  <2>2. CASE UNCHANGED job /\ att'[a].state = att[a].state
    BY <1>3, <1>4, <2>2, SameJob
  <2>3. \/ SetJob(a, "CANCEL_REQUESTED") /\ AttemptLives(a)
        \/ UNCHANGED <<att, job>> /\ ~AttemptLives(a)
    BY <1>1 DEF RecordStopCancel
  <2>4. AttemptLives(a) => att'[a].state = "CANCEL_REQUESTED"
    <3>1. AttemptLives(a) => att' = [att EXCEPT ![a] = [att[a] EXCEPT
                          !.state = "CANCEL_REQUESTED", !.cancel = "stop", !.code = "other",
                          !.misses = 0, !.stopMisses = 0]]
      BY <1>1 DEF RecordStopCancel
    <3>2. QED
      BY ZenonT(30), <1>3, <3>1 DEF CInv, IInv, TypeOK, AttemptRows
  <2>5. QED
    BY <2>1, <2>2, <2>3, <2>4
<1>6. QED
  BY <1>1, <1>2, <1>3, <1>4, <1>5, NotedAdvances DEF Reconcilable

LEMMA PassEndsAdvances ==
    ASSUME CInv, IInv', rec.pc # "idle", Done, UNCHANGED <<release, job, att, ev, task, net>>
    PROVE  CInv' /\ AllAdvance
<1>1. PICK a : a = rec.a
  OBVIOUS
<1>2. a \in Attempts
  BY <1>1, Reading
<1>3. QED
  BY <1>1, <1>2, SameJob, NotedAdvances

LEMMA SameRows ==
    ASSUME CInv, UNCHANGED <<release, job, att, net>>
    PROVE  AllAdvance /\ RowsFit'
<1>1. \A a \in Attempts : StateStep(a) /\ RowFits(a)'
  BY DEF StateStep, CInv, RowsFit, RowFits, Live, Terminated
<1>2. \A j \in Jobs : Backed(j)'
  BY DEF CInv, RowsFit, Backed
<1>3. AllAdvance
  BY <1>1, <1>2 DEF AllAdvance, JobStep, EndStays
<1>4. QED
  BY <1>3, RowsKept

LEMMA ReadAdvances ==
    ASSUME CInv, IInv', NEW a \in Attempts, ReadProvider(a) \/ ReadFails(a)
    PROVE  CInv' /\ AllAdvance
<1>1. UNCHANGED <<release, job, att, ev, task, net>> /\ att[a].state \in Reconcilable
  BY DEF ReadProvider, ReadFails
<1>2. AllAdvance /\ RowsFit' /\ WorkersFit'
  BY <1>1, SameRows, WorkersKept
<1>3. PICK o : Reads(a, o) /\ (o \in Statuses => net[a].wire = "landed" /\ o \in net[a].hist)
                 /\ (o = "absent" => Absent(a))
                 /\ (o = "missing" => ~att[a].ext)
  <2>1. ASSUME net[a].wire = "landed" PROVE Latest(a) \in net[a].hist /\ net[a].hist \in SUBSET Statuses
    BY <2>1, LatestStatus DEF Latest, CInv, IInv, TypeOK, ProviderRows, Room
  <2>2. CASE net[a].wire = "landed" /\ Reads(a, Latest(a))
    BY <2>1, <2>2 DEF Statuses, Terminals
  <2>3. CASE Absent(a) /\ Reads(a, "absent")
    BY <2>3 DEF Statuses, Terminals
  <2>4. CASE ReadFails(a)
    BY <2>4 DEF ReadFails, Statuses, Terminals
  <2>5. QED
    BY <2>2, <2>3, <2>4 DEF ReadProvider
<1>4. rec'.pc = "read" /\ rec'.a = a /\ rec'.obs = o
  BY <1>3 DEF Reads
<1>5. Absent(a) => \/ ~Live(a)
                   \/ /\ att[a].misses < Confirmations - 1
                      /\ att[a].stopMisses < Confirmations - 1
  BY DEF Absent, Live, Terminated, CInv, RowsFit, Wires
<1>6. ReadingFits'
  <2>1. /\ att'[rec'.a].state \notin {"NONE", "CREATED", "SUBMITTING"}
        /\ Live(rec.a)' => Live(a)
    BY <1>1, <1>4 DEF Reconcilable, Live, Terminated
  <2>2. QED
    BY <1>1, <1>3, <1>4, <1>5, <2>1 DEF ReadingFits
<1>7. QED
  BY <1>2, <1>6 DEF CInv

LEMMA IgnoreAdvances ==
    ASSUME CInv, IInv', rec.pc # "idle", NEW a, a = rec.a, NEW s, IgnoreStatus(a, s), Done,
           UNCHANGED <<release, ev, task, net>>
    PROVE  CInv' /\ AllAdvance
<1>1. a \in Attempts /\ att[a] \in AttemptRows
  BY Reading
<1>2. PICK c : att' = [att EXCEPT ![a] = [att[a] EXCEPT !.misses = 0, !.code = c]]
  BY DEF IgnoreStatus
<1>3. /\ att'[a].state = att[a].state /\ att'[a].held = att[a].held
      /\ \A b \in Attempts \ {a} : att'[b] = att[b]
  BY <1>1, <1>2 DEF CInv, IInv, TypeOK, AttemptRows
<1>4. JobAdvances(a)
  BY <1>1, SameJob DEF IgnoreStatus
<1>5. QED
  BY <1>1, <1>3, <1>4, NotedAdvances

LEMMA MayGrantIs ==
    ASSUME NEW a, NEW kind, MayGrant(a, kind)
    PROVE  /\ Current(a) /\ ReleaseAllowsRetry
           /\ job[JobOf(a)].state \notin {"SUCCEEDED", "FAILED", "CANCELLED"}
BY DEF MayGrant

(* An observation: what the row and the job become.                         *)
LEMMA ObserveAdvances ==
    ASSUME CInv, rec.pc # "idle", NEW a, a = rec.a, NEW s \in Statuses, Observe(a, s),
           ~Ignored(a, s), s \in net[a].hist, net[a].wire = "landed", UNCHANGED net
    PROVE  AttemptAdvances(a) /\ JobAdvances(a)
<1> DEFINE target == Target(a, s)
           kind == FailureCode(a, s)
           granted == kind \in {"infra", "nearblack"} /\ MayGrant(a, kind)
           old == job[JobOf(a)]
           q == IF granted THEN Granted(old) ELSE old
           t == IF s = "nearblack" /\ ~granted THEN "DEAD_LETTER" ELSE JobStateFor(q, target)
           h == IF target \in TerminalAttempt THEN Released(att[a].held) ELSE att[a].held
<1>1. /\ a \in Attempts /\ att[a] \in AttemptRows /\ JobOf(a) \in Jobs /\ old \in JobRows
      /\ att[a].state \notin {"NONE", "CREATED", "SUBMITTING"}
  BY Reading
<1>2. target \in {"SUBMITTED", "RUNNING", "SUCCEEDED", "FAILED", "CANCELLED"}
  BY TargetRange
<1>3. /\ att'[a].state = target /\ att'[a].held = h
      /\ \A b \in Attempts \ {a} : att'[b] = att[b]
  BY <1>1 DEF Observe, CInv, IInv, TypeOK, AttemptRows
<1>4. ~AttemptLives(a) => target = att[a].state
  BY DEF Ignored, Forward, AttemptLives, TerminalAttempt
<1>5. target \in TerminalAttempt => ~Live(a)
  BY DEF Target, Statuses, Terminals, TerminalAttempt, Live, Terminated
<1>6. target = "SUCCEEDED" => "succeeded" \in net[a].hist
  BY DEF Target
<1>7. job' = [job EXCEPT ![JobOf(a)] =
                 IF ~Current(a) \/ q.state \in TerminalJob THEN q ELSE [q EXCEPT !.state = t]]
  BY DEF Observe
<1>8. AttemptAdvances(a)
  <2>1. CASE ~AttemptLives(a)
    <3>1. att[a].held # "held"
      BY <1>1, <2>1 DEF CInv, RowsFit, RowFits, AttemptLives, RemoteOrAmbiguous, Reconcilable,
                        TerminalAttempt
    <3>2. att'[a].state = att[a].state /\ att'[a].held = att[a].held
      BY <1>3, <1>4, <2>1, <3>1 DEF Released
    <3>3. QED
      BY <1>1, <1>3, <3>2, OpenAdvances
  <2>2. CASE AttemptLives(a) /\ target \in {"SUBMITTED", "RUNNING"}
    <3>1. att'[a].held = att[a].held /\ att'[a].state \in Reconcilable
      BY <1>3, <2>2 DEF TerminalAttempt, Reconcilable
    <3>2. QED
      BY <1>1, <1>3, <2>2, <3>1, OpenAdvances
  <2>3. CASE AttemptLives(a) /\ target \notin {"SUBMITTED", "RUNNING"}
    <3>1. target \in TerminalAttempt
      BY <1>2, <2>3 DEF TerminalAttempt
    <3>2. ~Live(a) /\ att'[a].held = Released(att[a].held) /\ att'[a].state = target
      BY <1>3, <1>5, <3>1
    <3> HIDE DEF target
    <3>3. QED
      BY <1>1, <1>3, <1>6, <2>3, <3>1, <3>2, EndAdvances
  <2>4. QED
    BY <2>1, <2>2, <2>3
<1>9. /\ granted => /\ Current(a) /\ ReleaseAllowsRetry /\ target = "FAILED"
                    /\ old.state \notin {"SUCCEEDED", "FAILED", "CANCELLED"}
      /\ s = "nearblack" => target = "FAILED"
  BY MayGrantIs DEF FailureCode, Target
<1>10. JobStateFor(q, target) = CASE target \in {"SUBMITTED", "RUNNING"} -> "RUNNING"
                                  [] target = "SUCCEEDED" -> "COLLECTING"
                                  [] target = "FAILED" -> RetryOrFail(q)
                                  [] target = "CANCELLED" -> "CANCELLED"
  BY DEF JobStateFor
<1>11. q.count = old.count /\ (granted => q.state = "RETRY_WAIT" /\ q.max = old.max + 1)
  BY GrantedIs
<1>12. granted => RetryOrFail(q) = "RETRY_WAIT"
  <2>1. old.count \in Nat /\ old.max \in Nat /\ old.count <= old.max
    <3>1. \A q1 \in JobRows : q1.count \in Nat /\ q1.max \in Nat
      BY GenerationAssumption DEF JobRows
    <3>2. \A j \in Jobs : job[j].count <= job[j].max
      BY DEF CInv, IInv, Room
    <3>3. QED
      BY <1>1, <3>1, <3>2
  <2>2. QED
    BY <1>11, <2>1 DEF RetryOrFail
<1>13. RetryOrFail(q) \in {"RETRY_WAIT", "DEAD_LETTER"}
  BY RetryIs
<1>14. q \in JobRows \/ granted
  BY <1>1
<1>15. /\ \A k \in Jobs \ {JobOf(a)} : job'[k] = job[k]
       /\ job'[JobOf(a)] = IF ~Current(a) \/ q.state \in TerminalJob THEN q
                           ELSE [q EXCEPT !.state = t]
  BY <1>1, <1>7 DEF CInv, IInv, TypeOK
<1>16. [q EXCEPT !.state = t].state = t /\ [q EXCEPT !.state = t].count = q.count
       /\ [q EXCEPT !.state = t].max = q.max
  <2>1. CASE granted
    BY <2>1 DEF Granted
  <2>2. CASE ~granted
    BY <1>1, <2>2 DEF JobRows
  <2>3. QED
    BY <2>1, <2>2
<1>17. JobAdvances(a)
  <2> HIDE DEF target, kind
  <2>1. ~granted => q = old
    OBVIOUS
  <2>2. t \in {"RUNNING", "COLLECTING", "RETRY_WAIT", "DEAD_LETTER", "CANCELLED"}
    BY <1>2, <1>10, <1>13
  <2>3. /\ granted => t = "RETRY_WAIT"
        /\ t = "COLLECTING" => target = "SUCCEEDED"
        /\ t \in {"DEAD_LETTER", "CANCELLED"} => target \in TerminalAttempt
    BY <1>2, <1>9, <1>10, <1>12, <1>13 DEF TerminalAttempt
  <2>4. /\ t = "RUNNING" => target \in {"SUBMITTED", "RUNNING"}
        /\ t = "RETRY_WAIT" => q.count < q.max
    BY <1>2, <1>10, RetryIs
  <2> HIDE DEF t, granted, q
  <2>5. Backed(JobOf(a))'
    <3>1. CASE ~Current(a)
      BY <1>1, <1>3, <1>9, <1>15, <2>1, <3>1, KeptBacked
    <3>2. CASE Current(a) /\ q.state \in TerminalJob
      BY <1>1, <1>11, <1>15, <3>2, StillBacked DEF Busy, TerminalJob
    <3>3. CASE Current(a) /\ q.state \notin TerminalJob
      <4>1. job'[JobOf(a)].state = t /\ job'[JobOf(a)].count = q.count
            /\ job'[JobOf(a)].max = q.max
        BY <1>15, <1>16, <3>3
      <4>2. t = "RUNNING" => att'[a].state \in RemoteOrAmbiguous
        BY <1>3, <2>4 DEF RemoteOrAmbiguous, Reconcilable
      <4>3. QED
        BY <1>1, <1>11, <2>2, <2>4, <3>3, <4>1, <4>2, StillBacked DEF Busy
    <3>4. QED
      BY <3>1, <3>2, <3>3
  <2>6. QED
    BY <1>2, <1>3, <1>9, <1>11, <1>15, <1>16, <2>1, <2>2, <2>3, <2>5, OpenOrEnded, <1>1
    DEF JobAdvances, EndStays, TerminalJob, Collected
<1>18. QED
  BY <1>8, <1>17

LEMMA ApplyStatusAdvances == CInv /\ IInv' /\ ApplyStatus => CInv' /\ AllAdvance
<1> SUFFICES ASSUME CInv, IInv', ApplyStatus PROVE CInv' /\ AllAdvance
  OBVIOUS
<1>1. PICK a : a = rec.a
  OBVIOUS
<1>2. PICK s : s = rec.obs
  OBVIOUS
<1>3. /\ rec.pc = "read" /\ s \in Statuses /\ Done /\ UNCHANGED <<release, ev, task, net>>
      /\ \/ Ignored(a, s) /\ IgnoreStatus(a, s)
         \/ ~Ignored(a, s) /\ Observe(a, s)
  BY <1>1, <1>2 DEF ApplyStatus, Read
<1>4. CASE IgnoreStatus(a, s)
  BY <1>1, <1>3, <1>4, IgnoreAdvances
<1>5. CASE ~Ignored(a, s) /\ Observe(a, s)
  <2>1. s \in net[a].hist /\ net[a].wire = "landed"
    BY <1>1, <1>2, <1>3 DEF CInv, ReadingFits
  <2>2. AttemptAdvances(a) /\ JobAdvances(a)
    BY <1>1, <1>3, <1>5, <2>1, ObserveAdvances
  <2>3. QED
    BY <1>1, <1>3, <2>2, ReconcilerAdvances
<1>6. QED
  BY <1>3, <1>4, <1>5

LEMMA ReconcilerAllAdvance ==
    ASSUME CInv, IInv',
           Applying \/ ReconcilerCrash \/ \E a \in Attempts : ReadProvider(a) \/ ReadFails(a)
    PROVE  CInv' /\ AllAdvance
<1>1. ASSUME EndWatchdogCancel \/ ReconcilerCrash \/ DropStaleAbsence PROVE CInv' /\ AllAdvance
  BY <1>1, PassEndsAdvances DEF EndWatchdogCancel, ReconcilerCrash, DropStaleAbsence, Read
<1>2. QED
  BY <1>1, ApplyAbsenceAdvances, ApplyNothingAdvances, ApplyErrorAdvances, ApplyStatusAdvances,
     BeginStopAdvances, RecordStopAdvances, BeginWatchdogAdvances, CancelFailsAdvances,
     ReadAdvances
  DEF Applying

-----------------------------------------------------------------------------
(* The webhook inbox                                                        *)

LEMMA CallbackAdvances ==
    ASSUME CInv, IInv', NEW a \in Attempts, att[a].state # "SUBMITTING", att[a].ext,
           AttemptAdvances(a), JobAdvances(a), Touch({a}), UNCHANGED <<release, ev, task, net>>
    PROVE  CInv' /\ AllAdvance
<1>1. AllAdvance
  BY OneMoves
<1>2. \A b \in Attempts : att[b].state = "SUBMITTING" => att'[b].state = "SUBMITTING"
  BY DEF AttemptAdvances
<1>3. /\ rec'.pc = rec.pc /\ rec'.a = rec.a /\ rec'.obs = rec.obs
      /\ rec'.fresh => rec.fresh /\ rec.a # a
  BY TouchIs
<1>4. rec.pc # "idle" => rec.a \in Attempts
  BY DEF CInv, IInv, Existence
<1>5. ReadingFits'
  <2>1. CASE rec.pc = "idle"
    BY <1>3, <2>1 DEF ReadingFits
  <2>2. CASE rec.pc # "idle"
    <3>1. rec.pc = "read" /\ rec.obs = "missing" => rec.a # a
      BY DEF CInv, ReadingFits
    <3>2. QED
      BY <1>1, <1>3, <1>4, <2>2, <3>1, ReadingKept DEF AttemptAdvances
  <2>3. QED
    BY <2>1, <2>2
<1>6. QED
  BY <1>1, <1>2, <1>5, RowsKept, WorkersKept DEF CInv

LEMMA WebhookAdvances ==
    ASSUME CInv, IInv', NEW a \in Attempts, Webhook(a)
    PROVE  CInv' /\ AllAdvance
<1>1. PICK s \in net[a].hist :
          /\ att[a].ext
          /\ \/ ConfirmTerminal(a, Raw(s))
             \/ ~Skipped(a, Raw(s)) /\ ApplyProviderState(a, Raw(s)) /\ Touch({a})
          /\ UNCHANGED <<release, ev, task, net>>
  BY DEF Webhook
<1>2. PICK raw : raw = Raw(s)
  OBVIOUS
<1>3. /\ att[a] \in AttemptRows /\ att[a].state \notin {"NONE", "CREATED", "SUBMITTING"}
      /\ RowFits(a) /\ JobOf(a) \in Jobs /\ job[JobOf(a)] \in JobRows
  BY <1>1, JobOfAttempt DEF CInv, IInv, TypeOK, RowsFit, RowFits
<1>4. s \in Statuses /\ net[a].wire = "landed"
  BY DEF CInv, IInv, TypeOK, ProviderRows, RowsFit, Wires
<1>5. raw \in {"failed", "cancelled"} => ~Live(a)
  BY <1>2, <1>4 DEF Raw, Live, Terminated, Terminals
<1>6. CASE ConfirmTerminal(a, raw)
  <2>1. att[a].state \in TerminalAttempt /\ UNCHANGED job /\ Touch({a})
    BY <1>6 DEF ConfirmTerminal
  <2>2. att[a].held # "held"
    BY <1>3, <2>1 DEF RowFits, RemoteOrAmbiguous, Reconcilable, TerminalAttempt
  <2>3. /\ att'[a].state = att[a].state /\ att'[a].held = att[a].held
        /\ \A b \in Attempts \ {a} : att'[b] = att[b]
    BY <1>3, <1>6, <2>2 DEF ConfirmTerminal, Released, CInv, IInv, TypeOK, AttemptRows
  <2>4. AttemptAdvances(a) /\ JobAdvances(a)
    BY <1>1, <1>3, <2>1, <2>3, OpenAdvances, SameJob
  <2>5. QED
    BY <1>1, <1>3, <2>1, <2>4, CallbackAdvances
<1>7. CASE ~Skipped(a, raw) /\ ApplyProviderState(a, raw) /\ Touch({a})
  <2>1. /\ AttemptLives(a) /\ att[a].state \in Nonterminal
        /\ Current(a) /\ job[JobOf(a)].state \notin TerminalJob
    BY <1>3, <1>7, OpenOrEnded DEF Skipped, AttemptLives, CInv, RowsFit, OpenIsCurrent
  <2>2. CASE ObserveActive(a, raw)
    <3>1. /\ att'[a].state = att[a].state \/ att'[a].state \in {"SUBMITTED", "RUNNING"}
          /\ att'[a].held = att[a].held
          /\ \A b \in Attempts \ {a} : att'[b] = att[b]
      <4>1. CASE att[a].state = "CANCEL_REQUESTED"
        BY <1>3, <2>2, <4>1 DEF ObserveActive, CInv, IInv, TypeOK, AttemptRows
      <4>2. CASE att[a].state # "CANCEL_REQUESTED"
        <5>1. PICK x \in {"SUBMITTED", "RUNNING"} :
                 att' = [att EXCEPT ![a] = [@ EXCEPT !.state = x, !.seen = Rank(raw),
                                                     !.code = "none", !.cancel = "none"]]
          BY <2>2, <4>2 DEF ObserveActive
        <5>2. QED
          BY <1>3, <5>1 DEF CInv, IInv, TypeOK, AttemptRows
      <4>3. QED
        BY <4>1, <4>2
    <3>2. JobAdvances(a)
      <4>1. att[a].state \in RemoteOrAmbiguous /\ att'[a].state \in RemoteOrAmbiguous
        BY <1>3, <2>1, <3>1 DEF Nonterminal, RemoteOrAmbiguous, Reconcilable
      <4>2. CASE UNCHANGED job
        BY <3>1, <4>1, <4>2, SameJob
      <4>3. CASE job' = [job EXCEPT ![JobOf(a)].state = "RUNNING"]
        <5>1. /\ job'[JobOf(a)].state = "RUNNING"
              /\ job'[JobOf(a)].count = job[JobOf(a)].count
              /\ \A k \in Jobs \ {JobOf(a)} : job'[k] = job[k]
          BY <1>3, <4>3 DEF CInv, IInv, TypeOK, JobRows
        <5>2. Backed(JobOf(a))'
          BY <2>1, <4>1, <5>1, StillBacked DEF Busy
        <5>3. QED
          BY <2>1, <5>1, <5>2 DEF JobAdvances, EndStays, TerminalJob, Collected
      <4>4. QED
        BY <2>2, <4>2, <4>3 DEF ObserveActive
    <3>3. AttemptAdvances(a)
      BY <1>1, <1>3, <2>1, <3>1, OpenAdvances DEF Reconcilable
    <3>4. QED
      BY <1>1, <1>3, <1>7, <3>2, <3>3, CallbackAdvances
  <2>3. CASE ObserveSuccess(a)
    <3>1. /\ att'[a].state = "UNKNOWN" /\ att'[a].held = att[a].held
          /\ \A b \in Attempts \ {a} : att'[b] = att[b]
      BY <1>3, <2>3 DEF ObserveSuccess, CInv, IInv, TypeOK, AttemptRows
    <3>2. JobAdvances(a)
      <4>1. /\ job'[JobOf(a)].state = "UNKNOWN"
            /\ job'[JobOf(a)].count = job[JobOf(a)].count
            /\ \A k \in Jobs \ {JobOf(a)} : job'[k] = job[k]
        BY <1>3, <2>3 DEF ObserveSuccess, CInv, IInv, TypeOK, JobRows
      <4>2. Backed(JobOf(a))'
        BY <2>1, <3>1, <4>1, StillBacked DEF Busy, RemoteOrAmbiguous, Reconcilable
      <4>3. QED
        BY <2>1, <4>1, <4>2 DEF JobAdvances, EndStays, TerminalJob, Collected
    <3>3. AttemptAdvances(a)
      BY <1>1, <1>3, <2>1, <3>1, OpenAdvances DEF Reconcilable
    <3>4. QED
      BY <1>1, <1>3, <1>7, <3>2, <3>3, CallbackAdvances
  <2>4. CASE ObserveStopped(a) /\ raw = "cancelled"
    <3>1. /\ att'[a].state = "CANCELLED" /\ att'[a].held = Released(att[a].held)
          /\ \A b \in Attempts \ {a} : att'[b] = att[b]
      BY <1>3, <2>4 DEF ObserveStopped, CInv, IInv, TypeOK, AttemptRows
    <3>2. /\ job'[JobOf(a)].state = "CANCELLED"
          /\ job'[JobOf(a)].count = job[JobOf(a)].count
          /\ \A k \in Jobs \ {JobOf(a)} : job'[k] = job[k]
      BY <1>3, <2>4 DEF ObserveStopped, CInv, IInv, TypeOK, JobRows
    <3>3. AttemptAdvances(a) /\ JobAdvances(a)
      BY <1>1, <1>3, <1>5, <2>1, <2>4, <3>1, <3>2, EndAdvances, JobOfEnded
      DEF TerminalAttempt, Collected, Busy
    <3>4. QED
      BY <1>1, <1>3, <1>7, <3>3, CallbackAdvances
  <2>5. CASE ObserveFailure(a) /\ raw \in {"failed", "cancelled"}
    <3>1. /\ att'[a].state = "FAILED" /\ att'[a].held = Released(att[a].held)
          /\ \A b \in Attempts \ {a} : att'[b] = att[b]
      BY <1>3, <2>5 DEF ObserveFailure, CInv, IInv, TypeOK, AttemptRows
    <3>2. /\ job'[JobOf(a)].state \in {"RETRY_WAIT", "DEAD_LETTER"}
          /\ job'[JobOf(a)].count = job[JobOf(a)].count
          /\ job'[JobOf(a)].state = "RETRY_WAIT" =>
                 job'[JobOf(a)].count < job'[JobOf(a)].max
          /\ \A k \in Jobs \ {JobOf(a)} : job'[k] = job[k]
      <4> DEFINE granted == MayGrant(a, "infra")
                 q == IF granted THEN Granted(job[JobOf(a)]) ELSE job[JobOf(a)]
      <4>1. job' = [job EXCEPT ![JobOf(a)] = [q EXCEPT !.state = RetryOrFail(q)]]
        BY <2>5 DEF ObserveFailure
      <4>2. CASE granted
        BY <1>3, <4>1, <4>2, RetryIs, GrantedRoom DEF Granted, CInv, IInv, TypeOK
      <4>3. CASE ~granted
        BY <1>3, <4>1, <4>3, RetryIs DEF CInv, IInv, TypeOK, JobRows
      <4>4. QED
        BY <4>2, <4>3
    <3>3. AttemptAdvances(a) /\ JobAdvances(a)
      BY <1>1, <1>3, <1>5, <2>1, <2>5, <3>1, <3>2, EndAdvances, JobOfEnded
      DEF TerminalAttempt, Collected, Busy
    <3>4. QED
      BY <1>1, <1>3, <1>7, <3>3, CallbackAdvances
  <2>6. raw \in {"pending", "running", "succeeded", "failed", "cancelled"}
    BY <1>2, <1>4 DEF Raw, Statuses, Terminals
  <2>7. QED
    BY <1>7, <2>2, <2>3, <2>4, <2>5, <2>6 DEF ApplyProviderState
<1>8. QED
  BY <1>1, <1>2, <1>6, <1>7

-----------------------------------------------------------------------------
(* The submit workers                                                       *)

(* What a worker may rely on.                                               *)
LEMMA Tasked ==
    ASSUME CInv, NEW w \in Workers, task[w].pc # "idle", NEW a, a = task[w].a
    PROVE  /\ a \in Attempts /\ att[a] \in AttemptRows /\ att[a].state # "NONE"
           /\ JobOf(a) \in Jobs /\ job[JobOf(a)] \in JobRows
           /\ RowFits(a) /\ ev[a].status = "PROCESSING" /\ task[w] \in Tasks
           /\ att[a].state \in Nonterminal => Current(a) /\ job[JobOf(a)].state \notin TerminalJob
           /\ att[a].state = "CREATED" => ~Live(a)
           /\ net[a].posts = 0 => ~Live(a)
<1>1. /\ a \in Attempts /\ att[a].state # "NONE" /\ task[w] \in Tasks
      /\ ev[a].status = "PROCESSING"
  BY Owned DEF CInv, IInv, Ownership
<1>2. net[a].posts = 0 => ~Live(a)
  BY <1>1 DEF CInv, RowsFit, Wires, Live
<1>3. att[a].state = "CREATED" => net[a].posts = 0
  BY <1>1 DEF CInv, IInv, Unsent
<1>4. QED
  BY <1>1, <1>2, <1>3, JobOfAttempt DEF CInv, IInv, TypeOK, RowsFit, OpenIsCurrent

LEMMA GoesIs ==
    ASSUME CInv, NEW w \in Workers, NEW pc, NEW result, Goes(w, pc, result)
    PROVE  /\ task'[w].pc = pc /\ task'[w].a = task[w].a /\ task'[w].posted = task[w].posted
           /\ task'[w].result = result
           /\ \A v \in Workers \ {w} : task'[v] = task[v]
BY DEF Goes, CInv, IInv, TypeOK, Tasks

LEMMA WorkersAfter ==
    ASSUME CInv, NEW w \in Workers, task[w].pc # "idle", NEW a, a = task[w].a,
           \A v \in Workers \ {w} : task'[v] = task[v],
           \A b \in Attempts \ {a} : att'[b] = att[b] /\ ev'[b] = ev[b],
           att'[a].state = "SUBMITTING" => ev'[a].status = "PROCESSING",
           task'[w].pc # "idle" => task'[w].a = a,
           task'[w].pc \in {"building", "posting"} => att'[a].state = "SUBMITTING",
           task'[w].pc \in {"claimed", "settling"} => att'[a].state # "SUBMITTING",
           task'[w].posted => task'[w].pc \in {"posting", "settling"},
           task'[w].pc = "posting" => task'[w].posted,
           att'[a].state = "CREATED" => ev'[a].status \in {"PENDING", "PROCESSING"},
           task'[w].pc = "settling" /\ task'[w].result \notin {"UNKNOWN", "BUDGET_BLOCKED"} =>
               att'[a].state # "CREATED"
    PROVE  WorkersFit'
<1>1. a \in Attempts
  BY Tasked
<1>2. \A v \in Workers \ {w} : task[v].pc # "idle" => task[v].a \in Attempts \ {a}
  BY DEF CInv, IInv, Ownership
<1>3. SubmittingIsOwned'
  BY <1>1 DEF CInv, WorkersFit, SubmittingIsOwned
<1>4. ASSUME NEW v \in Workers
      PROVE  /\ task'[v].pc \in {"building", "posting"} => att'[task'[v].a].state = "SUBMITTING"
             /\ task'[v].pc \in {"claimed", "settling"} => att'[task'[v].a].state # "SUBMITTING"
             /\ task'[v].pc = "settling" /\ task'[v].result \notin {"UNKNOWN", "BUDGET_BLOCKED"}
                   => att'[task'[v].a].state # "CREATED"
             /\ task'[v].posted => task'[v].pc \in {"posting", "settling"}
             /\ task'[v].pc = "posting" => task'[v].posted
  <2>1. CASE v = w
    BY <2>1
  <2>2. CASE v # w
    BY <1>2, <2>2 DEF CInv, WorkersFit
  <2>3. QED
    BY <2>1, <2>2
<1>5. \A b \in Attempts :
         att'[b].state = "CREATED" => ev'[b].status \in {"PENDING", "PROCESSING"}
  BY <1>1 DEF CInv, WorkersFit
<1>6. QED
  BY <1>3, <1>4, <1>5 DEF WorkersFit

(* A worker settles, or is done.                                            *)
LEMMA WorkerAdvances ==
    ASSUME CInv, IInv', NEW w \in Workers, task[w].pc # "idle", NEW a, a = task[w].a,
           AttemptAdvances(a), JobAdvances(a), UNCHANGED <<release, net>>,
           \A v \in Workers \ {w} : task'[v] = task[v],
           \A b \in Attempts \ {a} : ev'[b] = ev[b],
           \/ task'[w] = IdleTask
           \/ task'[w].pc = "settling" /\ task'[w].a = a /\ task'[w].posted = task[w].posted,
           \/ att'[a].state # "SUBMITTING"
           \/ task'[w] = IdleTask /\ ev'[a] = ev[a],
           \/ att'[a].state # "CREATED"
           \/ /\ ev'[a].status \in {"PENDING", "PROCESSING"}
              /\ task'[w] = IdleTask \/ task'[w].result \in {"UNKNOWN", "BUDGET_BLOCKED"},
           att[a].state \in {"CREATED", "SUBMITTING"}
              \/ (att'[a].state = att[a].state /\ att'[a].ext = att[a].ext),
           \/ Touch({a})
           \/ rec' = rec /\ att'[a].misses = att[a].misses
                         /\ att'[a].stopMisses = att[a].stopMisses
    PROVE  CInv' /\ AllAdvance
<1>1. a \in Attempts /\ ev[a].status = "PROCESSING"
  BY Tasked
<1>2. AllAdvance
  BY <1>1, OneMoves
<1>3. \A b \in Attempts \ {a} : att'[b] = att[b]
  BY DEF AttemptAdvances
<1>4. WorkersFit'
  BY <1>1, <1>3, WorkersAfter DEF IdleTask
<1>5. ReadingFits'
  <2>1. /\ rec'.pc = rec.pc /\ rec'.a = rec.a /\ rec'.obs = rec.obs
        /\ rec'.fresh => /\ rec.fresh
                         /\ rec.a # a \/ /\ att'[a].misses = att[a].misses
                                         /\ att'[a].stopMisses = att[a].stopMisses
    BY TouchIs
  <2>2. rec.pc # "idle" => rec.a \in Attempts
    BY DEF CInv, IInv, Existence
  <2>3. CASE rec.pc = "idle"
    BY <2>1, <2>3 DEF ReadingFits
  <2>4. CASE rec.pc # "idle"
    <3>1. rec.pc = "read" /\ rec.obs = "missing" =>
              att'[rec.a].state = att[rec.a].state /\ att'[rec.a].ext = att[rec.a].ext
      <4>1. att[rec.a].state \notin {"CREATED", "SUBMITTING"}
        BY <2>4 DEF CInv, ReadingFits
      <4>2. QED
        BY <1>3, <2>2, <2>4, <4>1
    <3>2. QED
      BY <1>2, <1>3, <2>1, <2>2, <2>4, <3>1, ReadingKept
  <2>5. QED
    BY <2>3, <2>4
<1>6. QED
  BY <1>2, <1>4, <1>5, RowsKept DEF CInv

LEMMA FailAdvances ==
    ASSUME CInv, NEW a \in Attempts, att[a].state \in Nonterminal, ~Live(a), NEW code,
           NEW s \in {"RETRY_WAIT", "DEAD_LETTER"}, FailDefinitely(a, code, s), UNCHANGED net,
           s = "RETRY_WAIT" => job[JobOf(a)].count < job[JobOf(a)].max
    PROVE  AttemptAdvances(a) /\ JobAdvances(a) /\ Touch({a}) /\ att'[a].state = "FAILED"
<1>1. /\ att[a] \in AttemptRows /\ JobOf(a) \in Jobs /\ job[JobOf(a)] \in JobRows
      /\ att[a].state # "NONE" /\ AttemptLives(a)
  BY JobOfAttempt, OpenOrEnded DEF AttemptLives, CInv, IInv, TypeOK
<1>2. /\ att'[a].state = "FAILED" /\ att'[a].held = Released(att[a].held)
      /\ \A b \in Attempts \ {a} : att'[b] = att[b]
  BY <1>1 DEF FailDefinitely, CInv, IInv, TypeOK, AttemptRows
<1>3. /\ job'[JobOf(a)].state = s /\ job'[JobOf(a)].count = job[JobOf(a)].count
      /\ job'[JobOf(a)].max = job[JobOf(a)].max
      /\ \A k \in Jobs \ {JobOf(a)} : job'[k] = job[k]
  BY <1>1 DEF FailDefinitely, CInv, IInv, TypeOK, JobRows
<1>4. AttemptAdvances(a) /\ JobAdvances(a)
  BY <1>1, <1>2, <1>3, EndAdvances, JobOfEnded DEF TerminalAttempt, Collected, Busy
<1>5. QED
  BY <1>2, <1>4 DEF FailDefinitely

LEMMA UnknownAdvances ==
    ASSUME CInv, NEW a \in Attempts, att[a].state \in Nonterminal, MarkUnknown(a), UNCHANGED net
    PROVE  AttemptAdvances(a) /\ JobAdvances(a) /\ Touch({a}) /\ att'[a].state = "UNKNOWN"
<1>1. /\ att[a] \in AttemptRows /\ JobOf(a) \in Jobs /\ job[JobOf(a)] \in JobRows
      /\ att[a].state # "NONE" /\ AttemptLives(a)
  BY JobOfAttempt, OpenOrEnded DEF AttemptLives, CInv, IInv, TypeOK
<1>2. /\ att'[a].state = "UNKNOWN" /\ att'[a].held = att[a].held
      /\ \A b \in Attempts \ {a} : att'[b] = att[b]
  BY <1>1 DEF MarkUnknown, CInv, IInv, TypeOK, AttemptRows
<1>3. job[JobOf(a)].state \notin TerminalJob /\ Current(a)
  BY DEF CInv, RowsFit, OpenIsCurrent
<1>4. JobAdvances(a)
  <2>1. /\ job'[JobOf(a)].state = "UNKNOWN" /\ job'[JobOf(a)].count = job[JobOf(a)].count
        /\ \A k \in Jobs \ {JobOf(a)} : job'[k] = job[k]
    BY <1>1, <1>3 DEF MarkUnknown, CInv, IInv, TypeOK, JobRows
  <2>2. Backed(JobOf(a))'
    BY <1>2, <1>3, <2>1, StillBacked DEF Busy, RemoteOrAmbiguous, Reconcilable
  <2>3. QED
    BY <1>3, <2>1, <2>2 DEF JobAdvances, EndStays, TerminalJob, Collected
<1>5. AttemptAdvances(a)
  BY <1>1, <1>2, OpenAdvances DEF Reconcilable
<1>6. QED
  BY <1>2, <1>4, <1>5 DEF MarkUnknown

LEMMA UnchangedAdvances ==
    ASSUME CInv, NEW a \in Attempts, att[a].state # "NONE", UNCHANGED <<att, net>>
    PROVE  AttemptAdvances(a)
BY OpenAdvances

LEMMA FenceStaleAdvances ==
    ASSUME CInv, IInv', NEW w \in Workers, FenceStale(w)
    PROVE  CInv' /\ AllAdvance
<1>1. PICK a : a = task[w].a
  OBVIOUS
<1> DEFINE ambiguous == Evidence(a) \/ (Current(a) /\
                            job[JobOf(a)].state \in RemoteOrAmbiguousJob)
           closes == Current(a) /\ job[JobOf(a)].state \notin TerminalJob
           x == IF ambiguous THEN "UNKNOWN" ELSE "FAILED"
           y == IF ~closes THEN job[JobOf(a)].state
                ELSE IF ambiguous THEN "UNKNOWN" ELSE "CANCELLED"
           result == IF ambiguous THEN "UNKNOWN" ELSE "RECORDED"
<1>2. /\ task[w].pc # "idle" /\ att[a].state = "CREATED" /\ Touch({a})
      /\ Goes(w, "settling", result) /\ UNCHANGED <<release, ev, net>>
      /\ att' = [att EXCEPT ![a] = [@ EXCEPT !.state = x, !.code = "other"]]
      /\ job' = [job EXCEPT ![JobOf(a)].state = y]
  BY <1>1 DEF FenceStale, Working
<1> HIDE DEF x, result
<1>3. /\ a \in Attempts /\ att[a] \in AttemptRows /\ JobOf(a) \in Jobs
      /\ job[JobOf(a)] \in JobRows /\ ~Live(a) /\ att[a].held = "none"
      /\ att[a].state \in Nonterminal /\ AttemptLives(a)
      /\ Current(a) /\ job[JobOf(a)].state \notin TerminalJob
  BY <1>1, <1>2, Tasked DEF Nonterminal, RowFits, AttemptLives, TerminalAttempt
<1>4. /\ att'[a].state = x /\ att'[a].held = "none"
      /\ \A b \in Attempts \ {a} : att'[b] = att[b]
  BY <1>2, <1>3 DEF CInv, IInv, TypeOK, AttemptRows
<1>5. /\ job'[JobOf(a)].state = y /\ job'[JobOf(a)].count = job[JobOf(a)].count
      /\ \A k \in Jobs \ {JobOf(a)} : job'[k] = job[k]
  BY <1>2, <1>3 DEF CInv, IInv, TypeOK, JobRows
<1>6. AttemptAdvances(a) /\ JobAdvances(a)
  <2>1. CASE ambiguous
    <3>1. x = "UNKNOWN" /\ y = "UNKNOWN"
      BY <1>3, <2>1 DEF x
    <3> HIDE DEF y, ambiguous
    <3>2. Backed(JobOf(a))'
      BY <1>3, <1>4, <1>5, <3>1, StillBacked DEF Busy, RemoteOrAmbiguous, Reconcilable
    <3>3. QED
      BY <1>2, <1>3, <1>4, <1>5, <3>1, <3>2, OpenAdvances
      DEF Reconcilable, JobAdvances, EndStays, TerminalJob, Collected
  <2>2. CASE ~ambiguous
    <3>1. x = "FAILED" /\ y = "CANCELLED"
      BY <1>3, <2>2 DEF x
    <3> HIDE DEF y, ambiguous
    <3>2. QED
      BY <1>2, <1>3, <1>4, <1>5, <3>1, EndAdvances, JobOfEnded
      DEF Released, TerminalAttempt, Collected, Busy
  <2>3. QED
    BY <2>1, <2>2
<1>7. att'[a].state \notin {"CREATED", "SUBMITTING"}
  BY <1>4 DEF x
<1>8. QED
  BY <1>1, <1>2, <1>6, <1>7, GoesIs, WorkerAdvances

LEMMA NothingRecordedAdvances ==
    ASSUME CInv, IInv', NEW w \in Workers,
           AlreadyRecorded(w) \/ NotYet(w) \/ Crash(w) \/ SucceedEvent(w) \/ DeferEvent(w),
           task[w].pc # "idle",
           SucceedEvent(w) \/ DeferEvent(w) => att[task[w].a].state # "SUBMITTING",
           SucceedEvent(w) => att[task[w].a].state # "CREATED" \/ DeferEvent(w)
    PROVE  CInv' /\ AllAdvance
<1>1. PICK a : a = task[w].a
  OBVIOUS
<1>2. a \in Attempts /\ att[a].state # "NONE" /\ ev[a].status = "PROCESSING"
  BY <1>1, Tasked
<1>3. UNCHANGED <<release, job, att, rec, net>>
  BY DEF AlreadyRecorded, NotYet, Crash, SucceedEvent, DeferEvent
<1>4. AttemptAdvances(a) /\ JobAdvances(a)
  BY <1>2, <1>3, UnchangedAdvances, SameJob
<1>5. CASE AlreadyRecorded(w) \/ NotYet(w)
  <2>1. /\ task[w].pc = "claimed" /\ UNCHANGED ev
        /\ \E result : Goes(w, "settling", result)
        /\ att[a].state # "CREATED" \/ Goes(w, "settling", "BUDGET_BLOCKED")
    BY <1>1, <1>5 DEF AlreadyRecorded, NotYet, Submittable, Working
  <2>2. att[a].state # "SUBMITTING"
    BY <1>1, <2>1 DEF CInv, WorkersFit
  <2>3. /\ task'[w].pc = "settling" /\ task'[w].a = a /\ task'[w].posted = task[w].posted
        /\ \A v \in Workers \ {w} : task'[v] = task[v]
        /\ att[a].state # "CREATED" \/ task'[w].result = "BUDGET_BLOCKED"
    BY <1>1, <2>1, GoesIs
  <2>4. QED
    BY <1>1, <1>2, <1>3, <1>4, <2>1, <2>2, <2>3, WorkerAdvances
<1>6. CASE Crash(w) \/ SucceedEvent(w) \/ DeferEvent(w)
  <2>1. task'[w] = IdleTask /\ \A v \in Workers \ {w} : task'[v] = task[v]
    BY <1>6 DEF Crash, SucceedEvent, DeferEvent, CInv, IInv, TypeOK
  <2>2. \A b \in Attempts \ {a} : ev'[b] = ev[b]
    BY <1>1, <1>6 DEF Crash, SucceedEvent, DeferEvent, CInv, IInv, TypeOK
  <2>3. att'[a].state # "SUBMITTING" \/ ev'[a] = ev[a]
    BY <1>1, <1>3, <1>6 DEF Crash
  <2>4. att'[a].state # "CREATED" \/ ev'[a].status \in {"PENDING", "PROCESSING"}
    BY <1>1, <1>2, <1>3, <1>6 DEF Crash, SucceedEvent, DeferEvent, Deferred, CInv, IInv, TypeOK
  <2>5. QED
    BY <1>1, <1>3, <1>4, <2>1, <2>2, <2>3, <2>4, WorkerAdvances
<1>7. QED
  BY <1>5, <1>6

LEMMA DeferAdvances ==
    ASSUME CInv, IInv', NEW w \in Workers, DeferAdmission(w)
    PROVE  CInv' /\ AllAdvance
<1>1. PICK a : a = task[w].a
  OBVIOUS
<1>2. /\ task[w].pc # "idle" /\ att[a].state = "CREATED" /\ UNCHANGED <<release, job, rec, net>>
      /\ att' = [att EXCEPT ![a].staged = TRUE]
      /\ ev' = [ev EXCEPT ![a] = Deferred(ev[a])] /\ task' = [task EXCEPT ![w] = IdleTask]
  BY <1>1 DEF DeferAdmission, Submittable, Working
<1>3. a \in Attempts /\ att[a] \in AttemptRows
  BY <1>1, <1>2, Tasked
<1>4. /\ att'[a].state = "CREATED" /\ att'[a].held = att[a].held /\ att'[a].ext = att[a].ext
      /\ att'[a].misses = att[a].misses /\ att'[a].stopMisses = att[a].stopMisses
      /\ \A b \in Attempts \ {a} : att'[b] = att[b]
  BY <1>2, <1>3 DEF CInv, IInv, TypeOK, AttemptRows
<1>5. /\ \A b \in Attempts \ {a} : ev'[b] = ev[b]
      /\ ev'[a].status = "PENDING"
      /\ task'[w] = IdleTask /\ \A v \in Workers \ {w} : task'[v] = task[v]
  BY <1>2, <1>3 DEF Deferred, CInv, IInv, TypeOK
<1>6. AttemptAdvances(a) /\ JobAdvances(a)
  BY <1>2, <1>3, <1>4, OpenAdvances, SameJob
<1>7. QED
  BY ZenonT(30), <1>1, <1>2, <1>4, <1>5, <1>6, WorkerAdvances

LEMMA BuildFailsAdvances ==
    ASSUME CInv, IInv', NEW w \in Workers, BuildFails(w)
    PROVE  CInv' /\ AllAdvance
<1>1. PICK a : a = task[w].a
  OBVIOUS
<1>2. /\ task[w].pc = "building" /\ Goes(w, "settling", "RECORDED")
      /\ UNCHANGED <<release, ev, net>>
      /\ FailDefinitely(a, "other", RetryOrFail(job[JobOf(a)]))
  BY <1>1 DEF BuildFails, Working
<1>3. a \in Attempts /\ ~Live(a) /\ att[a].state \in Nonterminal /\ att[a].state = "SUBMITTING"
  BY <1>1, <1>2, Tasked
  DEF CInv, IInv, Unsent, WorkersFit, Nonterminal, RemoteOrAmbiguous
<1>4. AttemptAdvances(a) /\ JobAdvances(a) /\ Touch({a}) /\ att'[a].state = "FAILED"
  BY <1>2, <1>3, RetryIs, FailAdvances
<1>5. QED
  BY <1>1, <1>2, <1>3, <1>4, GoesIs, WorkerAdvances

LEMMA PostAmbiguousAdvances ==
    ASSUME CInv, IInv', NEW w \in Workers, PostAmbiguous(w)
    PROVE  CInv' /\ AllAdvance
<1>1. PICK a : a = task[w].a
  OBVIOUS
<1>2. /\ task[w].pc = "posting" /\ Goes(w, "settling", "UNKNOWN")
      /\ UNCHANGED <<release, ev, net>> /\ MarkUnknown(a)
  BY <1>1 DEF PostAmbiguous, Working
<1>3. a \in Attempts /\ att[a].state \in Nonterminal /\ att[a].state = "SUBMITTING"
  BY <1>1, <1>2, Tasked DEF CInv, WorkersFit, Nonterminal, RemoteOrAmbiguous
<1>4. AttemptAdvances(a) /\ JobAdvances(a) /\ Touch({a}) /\ att'[a].state = "UNKNOWN"
  BY <1>2, <1>3, UnknownAdvances
<1>5. QED
  BY <1>1, <1>2, <1>3, <1>4, GoesIs, WorkerAdvances

LEMMA PostAcceptedAdvances ==
    ASSUME CInv, IInv', NEW w \in Workers, PostAccepted(w)
    PROVE  CInv' /\ AllAdvance
<1>1. PICK a : a = task[w].a
  OBVIOUS
<1>2. /\ task[w].pc = "posting" /\ Goes(w, "settling", "RECORDED") /\ Touch({a})
      /\ UNCHANGED <<release, ev, net>>
      /\ att' = [att EXCEPT ![a] = [@ EXCEPT !.state = "SUBMITTED", !.ext = TRUE, !.seen = 1]]
      /\ job' = [job EXCEPT ![JobOf(a)].state =
                    IF Current(a) /\ @ \notin TerminalJob THEN "RUNNING" ELSE @]
  BY <1>1 DEF PostAccepted, Working
<1>3. /\ a \in Attempts /\ att[a] \in AttemptRows /\ att[a].state = "SUBMITTING"
      /\ JobOf(a) \in Jobs /\ job[JobOf(a)] \in JobRows /\ AttemptLives(a)
      /\ Current(a) /\ job[JobOf(a)].state \notin TerminalJob
  BY <1>1, <1>2, Tasked
  DEF CInv, WorkersFit, Nonterminal, RemoteOrAmbiguous, AttemptLives, TerminalAttempt
<1>4. /\ att'[a].state = "SUBMITTED" /\ att'[a].held = att[a].held
      /\ \A b \in Attempts \ {a} : att'[b] = att[b]
  BY <1>2, <1>3 DEF CInv, IInv, TypeOK, AttemptRows
<1>5. JobAdvances(a)
  <2>1. /\ job'[JobOf(a)].state = "RUNNING" /\ job'[JobOf(a)].count = job[JobOf(a)].count
        /\ \A k \in Jobs \ {JobOf(a)} : job'[k] = job[k]
    BY <1>2, <1>3 DEF CInv, IInv, TypeOK, JobRows
  <2>2. Backed(JobOf(a))'
    BY <1>3, <1>4, <2>1, StillBacked DEF Busy, RemoteOrAmbiguous, Reconcilable
  <2>3. QED
    BY <1>3, <2>1, <2>2 DEF JobAdvances, EndStays, TerminalJob, Collected
<1>6. AttemptAdvances(a)
  BY <1>2, <1>3, <1>4, OpenAdvances DEF Reconcilable
<1>7. QED
  BY ZenonT(30), <1>1, <1>2, <1>3, <1>4, <1>5, <1>6, GoesIs, WorkerAdvances

LEMMA FailEventAdvances ==
    ASSUME CInv, IInv', NEW w \in Workers, task[w].pc # "idle", FailEvent(w)
    PROVE  CInv' /\ AllAdvance
<1>1. PICK a : a = task[w].a
  OBVIOUS
<1>2. /\ ev' = [ev EXCEPT ![a] = Closed("DEAD_LETTER")]
      /\ task' = [task EXCEPT ![w] = IdleTask] /\ UNCHANGED <<release, net>>
      /\ \/ att[a].state \in {"CREATED", "SUBMITTING"} /\ MarkUnknown(a)
         \/ att[a].state \notin {"CREATED", "SUBMITTING"} /\ UNCHANGED <<att, job, rec>>
  BY <1>1 DEF FailEvent
<1>3. a \in Attempts /\ att[a].state # "NONE"
  BY <1>1, Tasked
<1>4. /\ \A b \in Attempts \ {a} : ev'[b] = ev[b]
      /\ task'[w] = IdleTask /\ \A v \in Workers \ {w} : task'[v] = task[v]
  BY <1>2 DEF CInv, IInv, TypeOK
<1>5. CASE att[a].state \in {"CREATED", "SUBMITTING"} /\ MarkUnknown(a)
  <2>1. att[a].state \in Nonterminal
    BY <1>5 DEF Nonterminal, RemoteOrAmbiguous
  <2>2. AttemptAdvances(a) /\ JobAdvances(a) /\ Touch({a}) /\ att'[a].state = "UNKNOWN"
    BY <1>2, <1>3, <1>5, <2>1, UnknownAdvances
  <2>3. QED
    BY <1>1, <1>2, <1>4, <2>2, WorkerAdvances
<1>6. CASE att[a].state \notin {"CREATED", "SUBMITTING"} /\ UNCHANGED <<att, job, rec>>
  <2>1. AttemptAdvances(a) /\ JobAdvances(a)
    BY <1>2, <1>3, <1>6, UnchangedAdvances, SameJob
  <2>2. QED
    BY <1>1, <1>2, <1>4, <1>6, <2>1, WorkerAdvances
<1>7. QED
  BY <1>2, <1>5, <1>6

LEMMA InterruptAdvances ==
    ASSUME CInv, IInv', NEW w \in Workers, Interrupt(w)
    PROVE  CInv' /\ AllAdvance
<1>1. PICK a : a = task[w].a
  OBVIOUS
<1>2. task[w].pc # "idle"
  BY DEF Interrupt
<1>3. a \in Attempts /\ att[a].state # "NONE" /\ (att[a].state = "CREATED" => ~Live(a))
      /\ (net[a].posts = 0 => ~Live(a))
  BY <1>1, <1>2, Tasked
<1>4. CASE FailEvent(w)
  BY <1>2, <1>4, FailEventAdvances
<1>5. CASE ReplaySafe(a) /\ DeferEvent(w)
  BY <1>1, <1>2, <1>5, NothingRecordedAdvances DEF ReplaySafe
<1>6. CASE ~task[w].posted /\ ResolveUnstarted(w)
  <2>1. /\ Goes(w, "settling", "RECORDED") /\ UNCHANGED <<release, ev, net>>
        /\ \/ /\ att[a].state \in {"CREATED", "SUBMITTING"}
              /\ FailDefinitely(a, "other", RetryOrFail(job[JobOf(a)]))
           \/ att[a].state \notin {"CREATED", "SUBMITTING"} /\ UNCHANGED <<att, job, rec>>
    BY <1>1, <1>6 DEF ResolveUnstarted
  <2>2. CASE /\ att[a].state \in {"CREATED", "SUBMITTING"}
             /\ FailDefinitely(a, "other", RetryOrFail(job[JobOf(a)]))
    <3>1. att[a].state = "SUBMITTING" => task[w].pc = "building"
      BY <1>1, <1>2, <1>6, Owned DEF CInv, IInv, WorkersFit, Tasks
    <3>2. ~Live(a)
      BY <1>1, <1>3, <2>2, <3>1 DEF CInv, IInv, Unsent
    <3>3. att[a].state \in Nonterminal
      BY <2>2 DEF Nonterminal, RemoteOrAmbiguous
    <3>4. AttemptAdvances(a) /\ JobAdvances(a) /\ Touch({a}) /\ att'[a].state = "FAILED"
      BY <1>3, <2>1, <2>2, <3>2, <3>3, RetryIs, FailAdvances
    <3>5. QED
      BY <1>1, <1>2, <2>1, <3>4, GoesIs, WorkerAdvances
  <2>3. CASE att[a].state \notin {"CREATED", "SUBMITTING"} /\ UNCHANGED <<att, job, rec>>
    <3>1. AttemptAdvances(a) /\ JobAdvances(a)
      BY <1>3, <2>1, <2>3, UnchangedAdvances, SameJob
    <3>2. QED
      BY <1>1, <1>2, <2>1, <2>3, <3>1, GoesIs, WorkerAdvances
  <2>4. QED
    BY <2>1, <2>2, <2>3
<1>7. QED
  BY <1>1, <1>4, <1>5, <1>6 DEF Interrupt

LEMMA SettleAdvances ==
    ASSUME CInv, IInv', NEW w \in Workers, Settle(w)
    PROVE  CInv' /\ AllAdvance
<1>1. /\ task[w].pc = "settling"
      /\ \/ FailEvent(w) \/ DeferEvent(w)
         \/ SucceedEvent(w) /\ task[w].result \notin {"UNKNOWN", "BUDGET_BLOCKED"}
  BY DEF Settle, Working
<1>2. /\ att[task[w].a].state # "SUBMITTING"
      /\ task[w].result \notin {"UNKNOWN", "BUDGET_BLOCKED"} => att[task[w].a].state # "CREATED"
  BY <1>1 DEF CInv, WorkersFit
<1>3. CASE FailEvent(w)
  BY <1>1, <1>3, FailEventAdvances
<1>4. CASE DeferEvent(w)
  BY <1>1, <1>2, <1>4, NothingRecordedAdvances
<1>5. CASE SucceedEvent(w) /\ task[w].result \notin {"UNKNOWN", "BUDGET_BLOCKED"}
  BY <1>1, <1>2, <1>5, NothingRecordedAdvances
<1>6. QED
  BY <1>1, <1>3, <1>4, <1>5

(* The budget refused: the job waits for its prepared attempt.              *)
LEMMA RefusedAdvances ==
    ASSUME CInv, IInv', NEW w \in Workers, Reserve(w, FALSE)
    PROVE  CInv' /\ AllAdvance
<1>1. PICK a : a = task[w].a
  OBVIOUS
<1>2. /\ task[w].pc = "claimed" /\ att[a].state = "CREATED" /\ ~Stale(a)
      /\ Goes(w, "settling", "BUDGET_BLOCKED") /\ UNCHANGED <<release, ev, net, att, rec>>
      /\ job' = [job EXCEPT ![JobOf(a)].state = "RETRY_WAIT"]
  BY <1>1 DEF Reserve, Submittable, Working
<1>3. /\ a \in Attempts /\ JobOf(a) \in Jobs /\ job[JobOf(a)] \in JobRows
      /\ ev[a].status = "PROCESSING"
  BY <1>1, <1>2, Tasked
<1>4. job[JobOf(a)].state \notin TerminalJob /\ Current(a)
  BY <1>2 DEF Stale
<1>5. JobAdvances(a)
  <2>1. /\ job'[JobOf(a)].state = "RETRY_WAIT" /\ job'[JobOf(a)].count = job[JobOf(a)].count
        /\ \A k \in Jobs \ {JobOf(a)} : job'[k] = job[k]
    BY <1>2, <1>3 DEF CInv, IInv, TypeOK, JobRows
  <2>2. Backed(JobOf(a))'
    BY <1>2, <1>3, <1>4, <2>1, StillBacked
  <2>3. QED
    BY <1>4, <2>1, <2>2 DEF JobAdvances, EndStays, TerminalJob, Collected
<1>6. AttemptAdvances(a)
  BY <1>2, <1>3, UnchangedAdvances
<1>7. QED
  BY <1>1, <1>2, <1>3, <1>5, <1>6, GoesIs, WorkerAdvances

-----------------------------------------------------------------------------
(* The outbox and its sweep                                                 *)

LEMMA LeaseExpiresAdvances ==
    ASSUME CInv, IInv', NEW a \in Attempts, LeaseExpires(a)
    PROVE  CInv' /\ AllAdvance
<1>1. /\ UNCHANGED <<release, job, att, task, rec, net>>
      /\ \A b \in Attempts : ev'[b].status = ev[b].status
  BY DEF LeaseExpires, CInv, IInv, TypeOK, EventRows
<1>2. AllAdvance /\ RowsFit'
  BY <1>1, SameRows
<1>3. WorkersFit'
  <2>1. \A w \in Workers : task[w].pc # "idle" => task[w].a \in Attempts
    BY DEF CInv, IInv, Ownership
  <2>2. \A b \in Attempts : att'[b] = att[b]
    BY <1>1
  <2>3. QED
    BY <1>1, <2>1, <2>2 DEF CInv, WorkersFit, SubmittingIsOwned
<1>4. ReadingFits'
  BY <1>1, <1>2, ReadingKept
<1>5. QED
  BY <1>2, <1>3, <1>4 DEF CInv

(* What the sweep of expired leases does to one row.                        *)
LEMMA SweptRow ==
    ASSUME CInv, att' = SweptAtt, UNCHANGED net, NEW a \in Attempts
    PROVE  /\ StateStep(a) /\ RowFits(a)' /\ att'[a].held = att[a].held
           /\ a \in SweptFailed => att'[a].state = "FAILED"
           /\ a \in SweptUnknown => att'[a].state = "UNKNOWN"
           /\ a \notin SweptFailed \cup SweptUnknown => att'[a] = att[a]
           /\ att[a].state \notin {"CREATED", "SUBMITTING"} => a \notin SweptFailed \cup SweptUnknown
<1>1. att[a] \in AttemptRows
  BY DEF CInv, IInv, TypeOK
<1>2. CASE a \in SweptFailed
  <2>1. att'[a] = [att[a] EXCEPT !.state = "FAILED", !.code = "other"]
    BY <1>2 DEF SweptAtt
  <2>2. att'[a].state = "FAILED" /\ att'[a].held = att[a].held
    BY <1>1, <2>1 DEF AttemptRows
  <2>3. att[a].state = "CREATED"
    BY <1>2 DEF SweptFailed, ProvablyUnsubmitted
  <2>4. ~Live(a)
    BY <2>3 DEF CInv, IInv, Unsent, RowsFit, Wires, Live
  <2>5. att[a].held = "none" /\ AttemptLives(a)
    BY <2>3 DEF CInv, RowsFit, RowFits, AttemptLives, TerminalAttempt
  <2>6. StateStep(a) /\ RowFits(a)'
    BY <2>2, <2>3, <2>4, <2>5, EndRow DEF TerminalAttempt, Released
  <2>7. QED
    BY <1>2, <2>2, <2>3, <2>6 DEF SweptUnknown
<1>3. CASE a \in SweptUnknown
  <2>1. a \notin SweptFailed /\ att[a].state \in {"CREATED", "SUBMITTING"}
    BY <1>3 DEF SweptUnknown
  <2>2. att'[a] = [att[a] EXCEPT !.state = "UNKNOWN", !.code = "other"]
    BY <1>3, <2>1 DEF SweptAtt
  <2>3. att'[a].state = "UNKNOWN" /\ att'[a].held = att[a].held
    BY <1>1, <2>2 DEF AttemptRows
  <2>4. StateStep(a) /\ RowFits(a)'
    BY <2>1, <2>3, OpenRow DEF AttemptLives, TerminalAttempt, Reconcilable
  <2>5. QED
    BY <1>3, <2>1, <2>3, <2>4
<1>4. CASE a \notin SweptFailed \cup SweptUnknown
  <2>1. att'[a] = att[a]
    BY <1>4 DEF SweptAtt
  <2>2. StateStep(a) /\ RowFits(a)'
    BY <2>1 DEF StateStep, CInv, RowsFit, RowFits, Live, Terminated
  <2>3. QED
    BY <1>4, <2>1, <2>2
<1>5. QED
  BY <1>2, <1>3, <1>4

LEMMA SweptAdvances ==
    ASSUME CInv, att' = SweptAtt, job' = SweptJob, UNCHANGED net
    PROVE  AllAdvance
<1>1. \A a \in Attempts : StateStep(a) /\ RowFits(a)' /\ att'[a].held = att[a].held
  BY SweptRow
<1>2. ASSUME NEW j \in Jobs PROVE JobStep(j)
  <2>1. job[j] \in JobRows
    BY DEF CInv, IInv, TypeOK
  <2>2. CASE \E a \in SweptFailed : JobOf(a) = j /\ OwnsUnstarted(a)
    <3>1. PICK a \in SweptFailed : JobOf(a) = j /\ OwnsUnstarted(a)
      BY <2>2
    <3>2. job'[j] = [job[j] EXCEPT !.state = RetryOrFail(job[j])]
      BY <2>2 DEF SweptJob
    <3>3. /\ job'[j].state \in {"RETRY_WAIT", "DEAD_LETTER"} /\ job'[j].count = job[j].count
          /\ job'[j].state = "RETRY_WAIT" => job'[j].count < job'[j].max
      BY <2>1, <3>2, RetryIs DEF JobRows
    <3>4. job[j].state \notin TerminalJob
      BY <3>1 DEF OwnsUnstarted, UnstartedJob, TerminalJob
    <3>5. ASSUME NEW b \in AttemptsOf(j) PROVE att'[b].state \notin Nonterminal
      <4>1. b \in Attempts
        BY DEF AttemptsOf
      <4>2. CASE b = a
        BY <3>1, <4>1, <4>2, SweptRow DEF Nonterminal, RemoteOrAmbiguous, Reconcilable
      <4>3. CASE b # a
        <5>1. att[b].state \notin Nonterminal
          BY <3>1, <4>1, <4>3 DEF OwnsUnstarted
        <5>2. att[b].state \notin {"CREATED", "SUBMITTING"}
          BY <5>1 DEF Nonterminal, RemoteOrAmbiguous
        <5>3. QED
          BY <4>1, <5>1, <5>2, SweptRow
      <4>4. QED
        BY <4>2, <4>3
    <3>6. Backed(j)'
      BY <3>3 DEF Backed, Busy
    <3>7. QED
      BY <3>3, <3>4, <3>5, <3>6 DEF JobStep, EndStays, Collected
  <2>3. CASE ~(\E a \in SweptFailed : JobOf(a) = j /\ OwnsUnstarted(a))
    <3>1. \/ /\ job'[j] = job[j]
             /\ job[j].state \in TerminalJob \/ ~(\E a \in SweptUnknown : JobOf(a) = j)
          \/ /\ job[j].state \notin TerminalJob /\ job'[j] = [job[j] EXCEPT !.state = "UNKNOWN"]
             /\ \E a \in SweptUnknown : JobOf(a) = j
      BY <2>3 DEF SweptJob
    <3>2. ASSUME job[j].state \notin TerminalJob, NEW a \in SweptFailed PROVE JobOf(a) # j
      <4>1. a \in Attempts /\ att[a].state = "CREATED" /\ ProvablyUnsubmitted(a)
        BY DEF SweptFailed, Expired, ProvablyUnsubmitted
      <4>2. Current(a) /\ job[JobOf(a)].state \notin TerminalJob
        BY <4>1 DEF CInv, RowsFit, OpenIsCurrent, Nonterminal
      <4>3. OwnsUnstarted(a)
        BY <4>1, <4>2 DEF ProvablyUnsubmitted
      <4>4. QED
        BY <2>3, <4>3
    <3>3. Backed(j)'
      <4>1. CASE job'[j] = job[j] /\ job[j].state \in TerminalJob
        BY <4>1 DEF Backed, TerminalJob, Busy
      <4>2. CASE /\ job'[j] = job[j] /\ job[j].state \notin TerminalJob
                 /\ ~(\E a \in SweptUnknown : JobOf(a) = j)
        <5>1. \A b \in Attempts : JobOf(b) = j => att'[b].state = att[b].state
          BY <3>2, <4>2, SweptRow
        <5>2. QED
          BY <4>2, <5>1, OthersBacked
      <4>3. CASE /\ job'[j] = [job[j] EXCEPT !.state = "UNKNOWN"]
                 /\ \E a \in SweptUnknown : JobOf(a) = j
        <5>1. PICK a \in SweptUnknown : JobOf(a) = j
          BY <4>3
        <5>2. a \in Attempts /\ att[a].state \in Nonterminal /\ att'[a].state = "UNKNOWN"
          BY SweptRow DEF SweptUnknown, Expired, Nonterminal, RemoteOrAmbiguous
        <5>3. Current(a)
          BY <5>2 DEF CInv, RowsFit, OpenIsCurrent
        <5>4. job'[j].state = "UNKNOWN" /\ job'[j].count = job[j].count
          BY <2>1, <4>3 DEF JobRows
        <5>5. Backed(JobOf(a))'
          BY <5>1, <5>2, <5>3, <5>4, StillBacked DEF Busy, RemoteOrAmbiguous, Reconcilable
        <5>6. QED
          BY <5>1, <5>5
      <4>4. QED
        BY <3>1, <4>1, <4>2, <4>3
    <3>4. QED
      BY <2>1, <3>1, <3>3 DEF JobStep, EndStays, TerminalJob, Collected, JobRows
  <2>4. QED
    BY <2>2, <2>3
<1>3. QED
  BY <1>1, <1>2 DEF AllAdvance

LEMMA ClaimAdvances ==
    ASSUME CInv, IInv', NEW w \in Workers, Claim(w)
    PROVE  CInv' /\ AllAdvance
<1>1. /\ task[w].pc = "idle" /\ job' = SweptJob /\ att' = SweptAtt
      /\ Touch(SweptFailed \cup SweptUnknown) /\ UNCHANGED <<release, net>>
  BY DEF Claim
<1>2. AllAdvance
  BY <1>1, SweptAdvances
<1>3. RowsFit'
  BY <1>1, <1>2, RowsKept
<1>4. ASSUME NEW a \in Attempts, att'[a].state = "SUBMITTING"
      PROVE  att[a].state = "SUBMITTING" /\ SweptEv[a] = ev[a] /\ ev[a].status = "PROCESSING"
  <2>1. att[a].state = "SUBMITTING" /\ a \notin SweptFailed /\ a \notin SweptUnknown
    BY <1>1, <1>4, SweptRow DEF StateStep
  <2>2. a \notin Replayed
    BY <2>1 DEF Replayed, ReplaySafe
  <2>3. a \notin Expired
    BY <2>1, <2>2 DEF SweptUnknown
  <2>4. QED
    BY <2>1, <2>2, <2>3 DEF SweptEv, CInv, WorkersFit, SubmittingIsOwned
<1>5. ASSUME NEW v \in Workers, task[v].pc # "idle"
      PROVE  task[v].a \in Attempts /\ att'[task[v].a] = att[task[v].a]
  <2>1. task[v].a \in Attempts /\ ~ev[task[v].a].expired
    BY <1>5 DEF CInv, IInv, Ownership
  <2>2. task[v].a \notin SweptFailed \cup SweptUnknown
    BY <2>1 DEF SweptFailed, SweptUnknown, Expired
  <2>3. QED
    BY <1>1, <2>1, <2>2, SweptRow
<1>9. ASSUME NEW a \in Attempts, att'[a].state = "CREATED"
      PROVE  SweptEv[a].status \in {"PENDING", "PROCESSING"}
  <2>1. att[a].state = "CREATED" /\ a \notin SweptFailed /\ a \notin SweptUnknown
    BY <1>1, <1>9, SweptRow DEF StateStep
  <2>2. a \in Replayed \/ a \notin Expired
    BY <2>1 DEF SweptUnknown
  <2>3. ev[a].status \in {"PENDING", "PROCESSING"}
    BY <2>1 DEF CInv, WorkersFit
  <2>4. QED
    BY <2>2, <2>3 DEF SweptEv, Pending, Replayed
<1>6. WorkersFit'
  <2>1. CASE ev' = SweptEv /\ UNCHANGED task
    BY <1>4, <1>5, <1>9, <2>1 DEF CInv, WorkersFit, SubmittingIsOwned
  <2>2. ASSUME NEW a \in Attempts, SweptEv[a].status = "PENDING",
               ev' = [SweptEv EXCEPT ![a] = [status |-> "PROCESSING",
                                             tries |-> SweptEv[a].tries + 1,
                                             expired |-> FALSE]],
               task' = [task EXCEPT ![w] = [IdleTask EXCEPT !.pc = "claimed", !.a = a]]
        PROVE  WorkersFit'
    <3>1. /\ task'[w].pc = "claimed" /\ task'[w].a = a /\ task'[w].posted = FALSE
          /\ \A v \in Workers \ {w} : task'[v] = task[v]
      BY <2>2 DEF IdleTask, CInv, IInv, TypeOK
    <3>2. att'[a].state # "SUBMITTING"
      BY <1>4, <2>2
    <3>3. \A b \in Attempts \ {a} : ev'[b] = SweptEv[b]
      BY <2>2 DEF SweptEv
    <3>4. SubmittingIsOwned'
      BY <1>4, <3>2, <3>3 DEF SubmittingIsOwned
    <3>5. ASSUME NEW v \in Workers
          PROVE  /\ task'[v].pc \in {"building", "posting"} =>
                        att'[task'[v].a].state = "SUBMITTING"
                 /\ task'[v].pc \in {"claimed", "settling"} =>
                        att'[task'[v].a].state # "SUBMITTING"
                 /\ task'[v].pc = "settling"
                    /\ task'[v].result \notin {"UNKNOWN", "BUDGET_BLOCKED"} =>
                        att'[task'[v].a].state # "CREATED"
                 /\ task'[v].posted => task'[v].pc \in {"posting", "settling"}
                 /\ task'[v].pc = "posting" => task'[v].posted
      <4>1. CASE v = w
        BY <3>1, <3>2, <4>1
      <4>2. CASE v # w
        BY <1>5, <3>1, <4>2 DEF CInv, WorkersFit
      <4>3. QED
        BY <4>1, <4>2
    <3>6. \A b \in Attempts :
             att'[b].state = "CREATED" => ev'[b].status \in {"PENDING", "PROCESSING"}
      BY <1>9, <2>2, <3>3 DEF SweptEv
    <3>7. QED
      BY <3>4, <3>5, <3>6 DEF WorkersFit
  <2>3. QED
    BY <2>1, <2>2 DEF Claim
<1>7. ReadingFits'
  <2>1. /\ rec'.pc = rec.pc /\ rec'.a = rec.a /\ rec'.obs = rec.obs
        /\ rec'.fresh => rec.fresh
    BY <1>1, TouchIs
  <2>2. CASE rec.pc = "idle"
    BY <2>1, <2>2 DEF ReadingFits
  <2>3. CASE rec.pc # "idle"
    <3>1. rec.a \in Attempts /\ att[rec.a].state \notin {"CREATED", "SUBMITTING"}
      BY <2>3 DEF CInv, IInv, Existence, ReadingFits
    <3>2. att'[rec.a] = att[rec.a]
      BY <1>1, <3>1, SweptRow
    <3>3. QED
      BY <1>1, <1>2, <2>1, <3>2, ReadingKept
  <2>4. QED
    BY <2>2, <2>3
<1>8. QED
  BY <1>2, <1>3, <1>6, <1>7 DEF CInv

-----------------------------------------------------------------------------
(* The scheduler, the operator's stop and the collection of masters          *)

LEMMA RecoverAdvances == CInv /\ IInv' /\ RecoverDeadLetters => CInv' /\ AllAdvance
<1> SUFFICES ASSUME CInv, IInv', RecoverDeadLetters PROVE CInv' /\ AllAdvance
  OBVIOUS
<1> DEFINE R == {j \in Jobs : job[j].count > 0 /\ Recoverable(j)}
<1>1. /\ \A j \in R : Recoverable(j)
      /\ job' = [j \in Jobs |-> IF j \in R THEN Granted(job[j]) ELSE job[j]]
      /\ att' = [a \in Attempts |-> IF JobOf(a) \in R /\ Current(a)
                                    THEN [att[a] EXCEPT !.grant = "infra"] ELSE att[a]]
      /\ UNCHANGED <<release, ev, task, rec, net>>
  BY DEF RecoverDeadLetters
<1> HIDE DEF R
<1>2. ASSUME NEW a \in Attempts
      PROVE  /\ att'[a].state = att[a].state /\ att'[a].held = att[a].held
             /\ att'[a].ext = att[a].ext
             /\ att'[a].misses = att[a].misses /\ att'[a].stopMisses = att[a].stopMisses
  <2>1. att[a] \in AttemptRows
    BY DEF CInv, IInv, TypeOK
  <2>2. att'[a] = att[a] \/ att'[a] = [att[a] EXCEPT !.grant = "infra"]
    BY <1>1
  <2>3. QED
    BY <2>1, <2>2 DEF AttemptRows
<1>3. ASSUME NEW a \in Attempts PROVE StateStep(a) /\ RowFits(a)'
  BY <1>1, <1>2 DEF StateStep, CInv, RowsFit, RowFits, Live, Terminated
<1>4. ASSUME NEW j \in Jobs PROVE JobStep(j)
  <2>1. CASE j \in R
    <3>1. /\ job[j].state = "DEAD_LETTER" /\ ReleaseAllowsRetry
          /\ job'[j] = Granted(job[j])
      BY <1>1, <2>1, MayGrantIs DEF Recoverable
    <3>2. Backed(j)'
      BY <3>1, GrantedIs, GrantedRoom DEF Backed, Busy
    <3>3. QED
      BY <3>1, <3>2, GrantedIs DEF JobStep, EndStays, TerminalJob, Collected
  <2>2. CASE j \notin R
    <3>1. job'[j] = job[j]
      BY <1>1, <2>2
    <3>2. QED
      BY <1>2, <3>1, OthersBacked DEF JobStep, EndStays
  <2>3. QED
    BY <2>1, <2>2
<1>5. AllAdvance
  BY <1>2, <1>3, <1>4 DEF AllAdvance
<1>6. RowsFit' /\ WorkersFit'
  BY <1>1, <1>2, <1>5, RowsKept, WorkersKept
<1>7. ReadingFits'
  <2>1. CASE rec.pc = "idle"
    BY <1>1, <2>1 DEF ReadingFits
  <2>2. CASE rec.pc # "idle"
    BY <1>1, <1>2, <1>5, <2>2, ReadingKept DEF CInv, IInv, Existence
  <2>3. QED
    BY <2>1, <2>2
<1>8. QED
  BY <1>5, <1>6, <1>7 DEF CInv

(* A step on the release and the jobs alone.                                *)
LEMMA ReleaseAdvances ==
    ASSUME CInv, IInv', AllAdvance, UNCHANGED <<att, ev, task, rec, net>>,
           release'.stopped => release.stopped, release.stop => release'.stop,
           ReviewIsComplete'
    PROVE  CInv'
<1>1. RowsFit' /\ WorkersFit'
  BY RowsAndReleaseKept, StopStays, WorkersKept
<1>2. ReadingFits'
  BY ReadingKept
<1>3. QED
  BY <1>1, <1>2 DEF CInv

LEMMA BlockedAdvances == CInv /\ IInv' /\ DispatchBlocked => CInv' /\ AllAdvance
<1> SUFFICES ASSUME CInv, IInv', DispatchBlocked PROVE CInv' /\ AllAdvance
  OBVIOUS
<1>1. /\ release' = [release EXCEPT !.healthy = FALSE]
      /\ UNCHANGED <<job, att, ev, task, rec, net>>
  BY DEF DispatchBlocked
<1>2. /\ release'.stop = release.stop /\ release'.stopped = release.stopped
      /\ release'.phase = release.phase
  BY <1>1 DEF CInv, IInv, TypeOK, Releases
<1>3. \A a \in Attempts : StateStep(a) /\ RowFits(a)'
  BY <1>1 DEF StateStep, CInv, RowsFit, RowFits, Live, Terminated
<1>4. AllAdvance
  BY <1>1, <1>3, OthersBacked DEF AllAdvance, JobStep, EndStays
<1>5. QED
  BY <1>1, <1>2, <1>4, ReviewStays, ReleaseAdvances

LEMMA CollectionAdvances ==
    ASSUME CInv, IInv', NEW j \in Jobs, Collection(j)
    PROVE  CInv' /\ AllAdvance
<1>1. PICK s \in {"VERIFYING", "COLLECTING", "DEAD_LETTER", "SUCCEEDED"} :
          /\ job[j].state \in {"COLLECTING", "VERIFYING"}
          /\ job' = [job EXCEPT ![j].state = s]
          /\ UNCHANGED <<att, ev, task, rec, net>>
  BY DEF Collection, ClaimCollection, RescheduleCollection, FailCollection, Collect
<1>2. /\ release'.stop = release.stop /\ release'.stopped = release.stopped
      /\ release'.phase \in {release.phase, "REVIEWING"}
  BY DEF Collection, ClaimCollection, RescheduleCollection, FailCollection, Collect,
         CInv, IInv, TypeOK, Releases
<1>3. release'.phase # release.phase =>
          job'[j].state = "SUCCEEDED" /\ \A k \in Jobs \ {j} : job[k].state = "SUCCEEDED"
  BY DEF Collection, ClaimCollection, RescheduleCollection, FailCollection, Collect,
         CInv, IInv, TypeOK, Releases, JobRows
<1>4. /\ job[j] \in JobRows /\ job'[j].state = s /\ job'[j].count = job[j].count
      /\ \A k \in Jobs \ {j} : job'[k] = job[k]
  BY <1>1 DEF CInv, IInv, TypeOK, JobRows
<1>5. ASSUME NEW a \in AttemptsOf(j) PROVE att[a].state \notin Nonterminal
  <2>1. a \in Attempts /\ JobOf(a) = j
    BY DEF AttemptsOf, JobOf
  <2>2. att[<<j, job[j].count>>].state = "SUCCEEDED"
    BY <1>1 DEF CInv, RowsFit, CollectedSucceeded, Collected
  <2>3. CASE Current(a)
    <3>1. a = <<j, job[j].count>>
      BY <2>1, <2>3 DEF Current, JobOf, Attempts
    <3>2. QED
      BY <2>2, <3>1 DEF Nonterminal, RemoteOrAmbiguous, Reconcilable
  <2>4. CASE ~Current(a)
    BY <2>1, <2>4 DEF CInv, RowsFit, OpenIsCurrent
  <2>5. QED
    BY <2>3, <2>4
<1>6. \A a \in Attempts : StateStep(a) /\ RowFits(a)'
  BY <1>1 DEF StateStep, CInv, RowsFit, RowFits, Live, Terminated
<1>7. ASSUME NEW k \in Jobs PROVE JobStep(k)
  <2>1. CASE k = j
    <3>1. Backed(k)'
      BY <1>4, <2>1 DEF Backed, Busy
    <3>2. QED
      BY <1>1, <1>4, <1>5, <2>1, <3>1 DEF JobStep, EndStays, TerminalJob, Collected
  <2>2. CASE k # j
    BY <1>1, <1>4, <2>2, OthersBacked DEF JobStep, EndStays
  <2>3. QED
    BY <2>1, <2>2
<1>8. AllAdvance
  BY <1>1, <1>6, <1>7 DEF AllAdvance
<1>9. ReviewIsComplete'
  <2>1. CASE release'.phase # release.phase
    BY <1>3, <1>4, <2>1 DEF ReviewIsComplete
  <2>2. CASE release'.phase = release.phase
    BY <1>2, <1>8, <2>2, ReviewStays
  <2>3. QED
    BY <2>1, <2>2
<1>10. QED
  BY <1>1, <1>2, <1>8, <1>9, ReleaseAdvances

LEMMA CancelAdvances ==
    ASSUME CInv, CancelUnsubmitted, UNCHANGED <<ev, task, net>>
    PROVE  /\ AllAdvance /\ WorkersFit' /\ ReadingFits'
           /\ \A j \in Cancelled : /\ job'[j].state = "CANCELLED"
                                   /\ \A a \in AttemptsOf(j) : att'[a].state \notin Nonterminal
           /\ \A j \in Jobs \ Cancelled : job'[j] = job[j]
           /\ \A a \in Attempts : JobOf(a) \notin Cancelled => att'[a] = att[a]
<1>1. /\ job' = [j \in Jobs |-> IF j \in Cancelled
                    THEN [job[j] EXCEPT !.state = "CANCELLED"] ELSE job[j]]
      /\ att' = [a \in Attempts |-> IF a \in CancelledAttempts
                    THEN [att[a] EXCEPT !.state = "FAILED", !.code = "other"] ELSE att[a]]
      /\ Touch(CancelledAttempts)
  BY DEF CancelUnsubmitted
<1>2. ASSUME NEW a \in CancelledAttempts
      PROVE  /\ a \in Attempts /\ att[a].state = "CREATED" /\ att'[a].state = "FAILED"
             /\ att'[a].held = att[a].held /\ att'[a].ext = att[a].ext
  <2>1. a \in Attempts /\ att[a].state = "CREATED"
    BY DEF CancelledAttempts
  <2>2. att[a] \in AttemptRows
    BY <2>1 DEF CInv, IInv, TypeOK
  <2>3. QED
    BY <1>1, <2>1, <2>2 DEF AttemptRows
<1>3. \A a \in Attempts \ CancelledAttempts : att'[a] = att[a]
  BY <1>1
<1>4. ASSUME NEW a \in Attempts PROVE StateStep(a) /\ RowFits(a)' /\ att'[a].held = att[a].held
  <2>1. RowFits(a)
    BY DEF CInv, RowsFit
  <2>2. CASE a \in CancelledAttempts
    <3>1. RowFits(a)'
      BY <1>2, <2>1, <2>2 DEF RowFits, Live, Terminated, RemoteOrAmbiguous, Reconcilable
    <3>2. QED
      BY <1>2, <2>2, <3>1 DEF StateStep, TerminalAttempt
  <2>3. CASE a \notin CancelledAttempts
    BY <1>3, <2>1, <2>3 DEF StateStep, RowFits, Live, Terminated
  <2>4. QED
    BY <2>2, <2>3
<1>5. ASSUME NEW j \in Cancelled
      PROVE  /\ j \in Jobs /\ job'[j].state = "CANCELLED" /\ job'[j].count = job[j].count
             /\ job[j].state \notin TerminalJob
             /\ \A a \in AttemptsOf(j) : att'[a].state \notin Nonterminal
  <2>1. j \in Jobs /\ Unsubmitted(j)
    BY DEF Cancelled
  <2>2. job[j] \in JobRows /\ job'[j] = [job[j] EXCEPT !.state = "CANCELLED"]
    BY <1>1, <2>1 DEF CInv, IInv, TypeOK
  <2>3. job[j].state \notin TerminalJob
    BY <2>1 DEF Unsubmitted, TerminalJob
  <2>4. ASSUME NEW a \in AttemptsOf(j) PROVE att'[a].state \notin Nonterminal
    <3>1. a \in Attempts /\ JobOf(a) = j /\ att[a].state \notin RemoteOrAmbiguous
      BY <2>1 DEF Unsubmitted, AttemptsOf, JobOf
    <3>2. CASE att[a].state = "CREATED"
      BY <1>2, <3>1, <3>2 DEF CancelledAttempts, Nonterminal, RemoteOrAmbiguous, Reconcilable
    <3>3. CASE att[a].state # "CREATED"
      BY <1>3, <3>1, <3>3 DEF CancelledAttempts, Nonterminal
    <3>4. QED
      BY <3>2, <3>3
  <2>5. QED
    BY <2>1, <2>2, <2>3, <2>4 DEF JobRows
<1>6. \A j \in Jobs \ Cancelled : job'[j] = job[j]
  BY <1>1
<1>7. ASSUME NEW j \in Jobs PROVE JobStep(j)
  <2>1. CASE j \in Cancelled
    BY <1>5, <2>1 DEF JobStep, EndStays, TerminalJob, Collected, Backed, Busy
  <2>2. CASE j \notin Cancelled
    <3>1. \A b \in Attempts : JobOf(b) = j => att'[b].state = att[b].state
      BY <1>3, <2>2 DEF CancelledAttempts
    <3>2. QED
      BY <1>6, <2>2, <3>1, OthersBacked DEF JobStep, EndStays
  <2>3. QED
    BY <2>1, <2>2
<1>8. AllAdvance
  BY <1>4, <1>7 DEF AllAdvance
<1>9. WorkersFit'
  BY <1>2, <1>3, <1>8, WorkersKept
<1>10. ReadingFits'
  <2>1. /\ rec'.pc = rec.pc /\ rec'.a = rec.a /\ rec'.obs = rec.obs
        /\ rec'.fresh => rec.fresh
    BY <1>1, TouchIs
  <2>2. CASE rec.pc = "idle"
    BY <2>1, <2>2 DEF ReadingFits
  <2>3. CASE rec.pc # "idle"
    <3>1. rec.a \in Attempts /\ att[rec.a].state # "CREATED"
      BY <2>3 DEF CInv, IInv, Existence, ReadingFits
    <3>2. att'[rec.a] = att[rec.a]
      BY <1>2, <1>3, <3>1
    <3>3. QED
      BY <1>8, <2>1, <3>2, ReadingKept
  <2>4. QED
    BY <2>2, <2>3
<1>11. QED
  BY <1>3, <1>5, <1>6, <1>8, <1>9, <1>10 DEF CancelledAttempts

LEMMA StopAdvances ==
    ASSUME CInv, IInv', RequestStop \/ SettleStop
    PROVE  CInv' /\ AllAdvance
<1>1. CancelUnsubmitted /\ UNCHANGED <<ev, task, net>> /\ ~release.stopped
  BY DEF RequestStop, SettleStop
<1>2. /\ release'.phase = "REVIEWING" => release'.stopped
      /\ release'.stopped => ~Draining /\ release'.stop
  BY DEF RequestStop, SettleStop, CInv, IInv, TypeOK, Releases
<1>3. ReviewIsComplete'
  BY <1>2 DEF ReviewIsComplete
<1>4. ASSUME ~Draining, NEW j \in Jobs
      PROVE  /\ job'[j].state \in TerminalJob
             /\ \A a \in AttemptsOf(j) : att'[a].state \notin Nonterminal
  <2>1. CASE j \in Cancelled
    BY <1>1, <2>1, CancelAdvances DEF TerminalJob
  <2>2. CASE j \notin Cancelled
    <3>1. /\ job[j].state \notin DrainingJob
          /\ \A a \in AttemptsOf(j) : att[a].state \notin Nonterminal
      BY <1>4, <2>2 DEF Draining
    <3>2. job[j].state \notin {"QUEUED", "RETRY_WAIT"}
      BY <2>2, <3>1 DEF Cancelled, Unsubmitted, Nonterminal
    <3>3. job[j].state \in TerminalJob
      BY <3>1, <3>2
      DEF DrainingJob, JobStates, UnstartedJob, CInv, IInv, TypeOK, JobRows
    <3>4. \A a \in AttemptsOf(j) : a \in Attempts /\ JobOf(a) = j
      BY DEF AttemptsOf, JobOf
    <3>5. QED
      BY <1>1, <2>2, <3>1, <3>3, <3>4, CancelAdvances
  <2>3. QED
    BY <2>1, <2>2
<1>5. StopHolds'
  BY <1>2, <1>4, JobOfAttempt DEF StopHolds, AttemptsOf, JobOf
<1>6. AllAdvance /\ WorkersFit' /\ ReadingFits'
  BY <1>1, CancelAdvances
<1>7. QED
  BY <1>1, <1>3, <1>5, <1>6, RowsAndReleaseKept DEF CInv

-----------------------------------------------------------------------------
(* The provider, and the request to it                                      *)

(* The provider alone moves, and ends the job if anything.                  *)
WireMoves(a) ==
    /\ UNCHANGED att /\ net'[a].posts = net[a].posts /\ (Live(a)' => Live(a))
    /\ \A b \in Attempts \ {a} : net'[b] = net[b]

LEMMA WireAdvances ==
    ASSUME CInv, IInv', NEW a \in Attempts,
           NEW from \in {"flying", "landed"}, NEW to \in {"landed", "lost"}, NEW hist,
           Wire(a, from, to, hist), net[a].hist \subseteq hist, Live(a)' => Live(a),
           hist # {} => to = "landed", from = "landed" => to = "landed"
    PROVE  CInv' /\ AllAdvance /\ WireMoves(a)
<1>1. /\ net[a].wire = from /\ UNCHANGED <<release, job, att, ev, task, rec>>
      /\ net' = [net EXCEPT ![a] = [@ EXCEPT !.wire = to, !.hist = hist]]
  BY DEF Wire
<1>2. /\ net'[a].posts = net[a].posts /\ net'[a].wire = to /\ net'[a].hist = hist
      /\ \A b \in Attempts \ {a} : net'[b] = net[b]
  BY <1>1 DEF CInv, IInv, TypeOK, ProviderRows
<1>3. \A b \in Attempts : Live(b)' => Live(b)
  BY <1>2 DEF Live, Terminated
<1>4. \A b \in Attempts : net[b].hist \subseteq net'[b].hist
                         /\ (net[b].wire = "landed" => net'[b].wire = "landed")
  BY <1>1, <1>2
<1>5. ASSUME NEW b \in Attempts PROVE StateStep(b) /\ RowFits(b)'
  <2>1. RowFits(b)
    BY DEF CInv, RowsFit
  <2>2. QED
    BY <1>1, <1>3, <1>4, <2>1 DEF StateStep, RowFits
<1>6. AllAdvance
  BY <1>1, <1>5, OthersBacked DEF AllAdvance, JobStep, EndStays
<1>7. Wires'
  BY <1>1, <1>2 DEF CInv, RowsFit, Wires
<1>8. RowsFit' /\ WorkersFit'
  BY <1>1, <1>6, <1>7, RowsAndWiresKept, WorkersKept
<1>9. ReadingFits'
  <2>1. CASE rec.pc = "idle"
    BY <1>1, <2>1 DEF ReadingFits
  <2>2. CASE rec.pc # "idle"
    <3>1. rec.a \in Attempts
      BY <2>2 DEF CInv, IInv, Existence
    <3>2. Live(rec.a)' => Live(rec.a)
      <4>1. PICK b \in Attempts : b = rec.a
        BY <3>1
      <4>2. b = rec'.a
        BY <1>1, <4>1
      <4>3. QED
        BY <1>3, <4>1, <4>2 DEF Live, Terminated
    <3>3. QED
      BY <1>1, <1>4, <3>1, <3>2 DEF CInv, ReadingFits
  <2>3. QED
    BY <2>1, <2>2
<1>10. WireMoves(a)
  BY <1>1, <1>2, <1>3 DEF WireMoves
<1>11. QED
  BY <1>6, <1>8, <1>9, <1>10 DEF CInv

LEMMA ProviderAdvances ==
    ASSUME CInv, IInv', Provider
    PROVE  CInv' /\ AllAdvance /\ \E a \in Attempts : WireMoves(a)
<1>1. \A a \in Attempts : net[a] \in ProviderRows
                         /\ (net[a].wire = "flying" => net[a].hist = {})
  BY DEF CInv, IInv, TypeOK, RowsFit, Wires
<1>3. ASSUME NEW a \in Attempts, Land(a) \/ Lose(a)
      PROVE  CInv' /\ AllAdvance /\ WireMoves(a)
  <2>1. PICK to \in {"landed", "lost"}, hist \in {{}, {"pending"}} :
            Wire(a, "flying", to, hist) /\ (hist # {} => to = "landed")
    BY <1>3 DEF Land, Lose
  <2>2. net[a].wire = "flying" /\ net[a].hist = {} /\ Live(a)
    BY <1>1, <2>1 DEF Wire, Live
  <2>3. QED
    BY <2>1, <2>2, WireAdvances
<1>4. ASSUME NEW a \in Attempts, ~Terminated(a), NEW hist, net[a].hist \subseteq hist,
             Wire(a, "landed", "landed", hist)
      PROVE  CInv' /\ AllAdvance /\ WireMoves(a)
  <2>1. Live(a)
    BY <1>4 DEF Wire, Live
  <2>2. QED
    BY <1>4, <2>1, WireAdvances
<1>5. ASSUME NEW a \in Attempts, Advance(a)
      PROVE  CInv' /\ AllAdvance /\ WireMoves(a)
  <2>1. \/ net[a].hist = {"pending"} /\ Wire(a, "landed", "landed", {"pending", "running"})
        \/ \E s \in FinalStatuses : Wire(a, "landed", "landed", net[a].hist \cup {s})
    BY <1>5 DEF Advance
  <2>2. PICK hist : net[a].hist \subseteq hist /\ Wire(a, "landed", "landed", hist)
    <3>1. CASE net[a].hist = {"pending"} /\ Wire(a, "landed", "landed", {"pending", "running"})
      BY <3>1
    <3>2. CASE \E s \in FinalStatuses : Wire(a, "landed", "landed", net[a].hist \cup {s})
      <4>1. PICK s \in FinalStatuses : Wire(a, "landed", "landed", net[a].hist \cup {s})
        BY <3>2
      <4>2. net[a].hist \subseteq net[a].hist \cup {s}
        OBVIOUS
      <4>3. QED
        BY <4>1, <4>2
    <3>3. QED
      BY <2>1, <3>1, <3>2
  <2>3. QED
    BY <1>4, <1>5, <2>2 DEF Advance
<1>6. CASE CancelLands
  <2>1. rec.a \in Attempts /\ ~Terminated(rec.a)
    BY <1>6 DEF CancelLands, CInv, IInv, Existence
  <2>2. Wire(rec.a, "landed", "landed", net[rec.a].hist \cup {"cancelled"})
    BY <1>6 DEF CancelLands
  <2>3. PICK a \in Attempts : a = rec.a
    BY <2>1
  <2>4. QED
    BY <1>4, <2>1, <2>2, <2>3
<1>7. QED
  BY <1>3, <1>5, <1>6 DEF Provider

LEMMA PostAdvances ==
    ASSUME CInv, IInv', NEW w \in Workers, Post(w)
    PROVE  /\ CInv' /\ AllAdvance
           /\ \E a \in Attempts :
                 /\ att[a].held = "held" /\ net[a].posts = 0 /\ UNCHANGED att
                 /\ net'[a].posts # 0 /\ net'[a].wire = "flying"
                 /\ \A b \in Attempts \ {a} : net'[b] = net[b]
<1>1. PICK a : a = task[w].a
  OBVIOUS
<1>2. /\ task[w].pc = "building" /\ UNCHANGED <<release, job, att, ev, rec>>
      /\ net' = [net EXCEPT ![a] = [@ EXCEPT !.posts = net[a].posts + 1, !.wire = "flying"]]
      /\ task' = [task EXCEPT ![w] = [@ EXCEPT !.pc = "posting", !.posted = TRUE]]
  BY <1>1 DEF Post, Working
<1>3. /\ a \in Attempts /\ att[a].state = "SUBMITTING" /\ att[a].held = "held"
      /\ RowFits(a) /\ net[a] \in ProviderRows /\ net[a].posts = 0 /\ task[w] \in Tasks
  BY <1>1, <1>2, Tasked DEF RowFits, CInv, IInv, Unsent, TypeOK, WorkersFit
<1>4. net[a].hist = {}
  BY <1>3 DEF CInv, RowsFit, Wires
<1>5. /\ net'[a].posts # 0 /\ net'[a].wire = "flying" /\ net'[a].hist = {}
      /\ \A b \in Attempts \ {a} : net'[b] = net[b]
  BY <1>2, <1>3, <1>4 DEF CInv, IInv, TypeOK, ProviderRows
<1>6. RowFits(a)' /\ StateStep(a)
  BY <1>2, <1>3 DEF RowFits, StateStep, RemoteOrAmbiguous
<1>7. AttemptAdvances(a) /\ JobAdvances(a)
  BY <1>2, <1>3, <1>6, SameJob DEF AttemptAdvances
<1>8. AllAdvance
  BY <1>3, <1>5, <1>7, OneMovesAlone
<1>9. Wires'
  BY <1>5 DEF CInv, RowsFit, Wires
<1>10. RowsFit'
  BY <1>2, <1>8, <1>9, RowsAndWiresKept
<1>11. /\ task'[w].pc = "posting" /\ task'[w].posted /\ task'[w].a = a
       /\ \A v \in Workers \ {w} : task'[v] = task[v]
  BY <1>1, <1>2, <1>3 DEF CInv, IInv, TypeOK, Tasks
<1>12. WorkersFit'
  BY <1>1, <1>2, <1>3, <1>11, WorkersAfter DEF CInv, WorkersFit, SubmittingIsOwned
<1>13. ReadingFits'
  <2>1. CASE rec.pc = "idle"
    BY <1>2, <2>1 DEF ReadingFits
  <2>2. CASE rec.pc # "idle"
    <3>1. rec.a \in Attempts \ {a}
      BY <1>3, <2>2 DEF CInv, IInv, Existence, ReadingFits
    <3>2. QED
      BY <1>2, <1>5, <3>1 DEF CInv, ReadingFits, Live, Terminated
  <2>3. QED
    BY <2>1, <2>2
<1>14. CInv'
  BY <1>10, <1>12, <1>13 DEF CInv
<1>15. QED
  BY <1>2, <1>3, <1>5, <1>8, <1>14

LEMMA RefusalAdvances ==
    ASSUME CInv, IInv', NEW w \in Workers, NEW code \in {"infra", "other"}, PostRefused(w, code)
    PROVE  /\ CInv' /\ AllAdvance
           /\ \E a \in Attempts :
                 /\ att[a].held = "held" /\ net[a].wire = "flying"
                 /\ att'[a].held = "released" /\ net'[a].wire = "lost"
                 /\ net'[a].posts = net[a].posts
                 /\ \A b \in Attempts \ {a} : att'[b] = att[b] /\ net'[b] = net[b]
<1>1. PICK a : a = task[w].a
  OBVIOUS
<1> DEFINE q == job[JobOf(a)]
           granted == code = "infra" /\ MayGrant(a, "infra")
           g == IF granted THEN "infra" ELSE att[a].grant
           s == IF code = "infra" THEN RetryOrFail(q) ELSE "FAILED"
           h == Released(att[a].held)
           p == IF granted THEN Granted(q) ELSE [q EXCEPT !.state = s]
<1>2. /\ task[w].pc = "posting" /\ net[a].wire = "flying"
      /\ net' = [net EXCEPT ![a].wire = "lost"]
      /\ att' = [att EXCEPT ![a] = [@ EXCEPT !.state = "FAILED", !.code = code, !.held = h,
                                             !.grant = g]]
      /\ job' = [job EXCEPT ![JobOf(a)] = p]
      /\ Goes(w, "settling", "RECORDED") /\ Touch({a}) /\ UNCHANGED <<release, ev>>
  BY <1>1 DEF PostRefused, Working
<1>3. /\ a \in Attempts /\ att[a].state = "SUBMITTING" /\ att[a].held = "held"
      /\ att[a] \in AttemptRows /\ net[a] \in ProviderRows /\ JobOf(a) \in Jobs
      /\ job[JobOf(a)] \in JobRows /\ att[a].state \in Nonterminal
      /\ task[w].pc # "idle" /\ ev[a].status = "PROCESSING"
      /\ task[w].posted \in BOOLEAN
  BY <1>1, <1>2, Tasked
  DEF RowFits, CInv, IInv, TypeOK, WorkersFit, Nonterminal, RemoteOrAmbiguous, Tasks
<1>4. h = "released"
  BY <1>3 DEF Released
<1> HIDE DEF g, h
<1>5. /\ att'[a].state = "FAILED" /\ att'[a].held = "released"
      /\ \A b \in Attempts \ {a} : att'[b] = att[b]
  BY <1>2, <1>3, <1>4 DEF CInv, IInv, TypeOK, AttemptRows
<1>6. /\ p.count = q.count /\ p.state \in {"RETRY_WAIT", "DEAD_LETTER", "FAILED"}
      /\ p.state = "RETRY_WAIT" => p.count < p.max
  <2>1. CASE granted
    BY <1>3, <2>1, GrantedIs, GrantedRoom
  <2>2. CASE ~granted
    BY <1>3, <2>2, RetryIs DEF JobRows
  <2>3. QED
    BY <2>1, <2>2
<1> HIDE DEF p
<1>7. /\ job'[JobOf(a)] = p /\ \A k \in Jobs \ {JobOf(a)} : job'[k] = job[k]
  BY <1>2, <1>3 DEF CInv, IInv, TypeOK
<1>8. /\ net'[a].posts = net[a].posts /\ net'[a].wire = "lost" /\ net'[a].hist = {}
      /\ \A b \in Attempts \ {a} : net'[b] = net[b]
  BY <1>2, <1>3 DEF CInv, IInv, TypeOK, ProviderRows, RowsFit, Wires
<1>9. JobAdvances(a)
  BY <1>3, <1>5, <1>6, <1>7, JobOfEnded DEF TerminalAttempt, Collected, Busy
<1>10. AttemptAdvances(a)
  <2>1. RowFits(a)'
    BY <1>5, <1>8 DEF RowFits, Live
  <2>2. StateStep(a)
    BY <1>3, <1>5 DEF StateStep, TerminalAttempt
  <2>3. QED
    BY <1>5, <2>1, <2>2 DEF AttemptAdvances
<1>11. AllAdvance
  BY <1>3, <1>8, <1>9, <1>10, OneMovesAlone
<1>12. Wires'
  BY <1>2, <1>8 DEF CInv, RowsFit, Wires
<1>13. RowsFit'
  BY <1>2, <1>11, <1>12, RowsAndWiresKept
<1>14. WorkersFit'
  <2>1. /\ task'[w].pc = "settling" /\ task'[w].a = a /\ task'[w].posted = task[w].posted
        /\ \A v \in Workers \ {w} : task'[v] = task[v]
    BY <1>1, <1>2, GoesIs
  <2>2. QED
    BY <1>1, <1>2, <1>3, <1>5, <2>1, WorkersAfter
<1>15. ReadingFits'
  <2>1. /\ rec'.pc = rec.pc /\ rec'.a = rec.a /\ rec'.obs = rec.obs
        /\ rec'.fresh => rec.fresh
    BY <1>2, TouchIs
  <2>2. CASE rec.pc = "idle"
    BY <2>1, <2>2 DEF ReadingFits
  <2>3. CASE rec.pc # "idle"
    <3>1. rec.a \in Attempts \ {a}
      BY <1>3, <2>3 DEF CInv, IInv, Existence, ReadingFits
    <3>2. QED
      BY <1>5, <1>8, <2>1, <3>1 DEF CInv, ReadingFits, Live, Terminated
  <2>4. QED
    BY <2>2, <2>3
<1>16. CInv'
  BY <1>13, <1>14, <1>15 DEF CInv
<1>17. QED
  BY <1>2, <1>3, <1>5, <1>8, <1>11, <1>16

-----------------------------------------------------------------------------
(* The steps that open an attempt                                           *)

(* An open attempt is reserved or given back; its job goes on.              *)
LEMMA ReopenedRows ==
    ASSUME CInv, NEW a \in Attempts, att[a].state \in Nonterminal,
           att'[a].state \in Nonterminal, RowFits(a)',
           \A b \in Attempts \ {a} : att'[b] = att[b],
           job'[JobOf(a)].count = job[JobOf(a)].count,
           \/ job'[JobOf(a)].state \in Busy /\ att'[a].state \in RemoteOrAmbiguous
           \/ job'[JobOf(a)].state = "CLAIMED" /\ att'[a].state = "CREATED",
           \A k \in Jobs \ {JobOf(a)} : job'[k] = job[k],
           UNCHANGED <<release, net>>
    PROVE  RowsFit' /\ \A j \in Jobs : EndStays(j)
<1>1. Current(a) /\ job[JobOf(a)].state \notin TerminalJob /\ JobOf(a) \in Jobs
  BY JobOfAttempt DEF CInv, RowsFit, OpenIsCurrent
<1>2. \A b \in Attempts : RowFits(b)'
  BY DEF CInv, RowsFit, RowFits, Live, Terminated
<1>11. job'[JobOf(a)].state \notin TerminalJob \cup Collected
  BY DEF Busy, TerminalJob, Collected
<1>3. \A j \in Jobs : job'[j].count = job[j].count
  OBVIOUS
<1>4. OpenIsCurrent'
  <2>1. ASSUME NEW b \in Attempts, att'[b].state \in Nonterminal
        PROVE  Current(b) /\ job'[JobOf(b)].state \notin TerminalJob
    <3>1. CASE b = a
      BY <1>1, <1>11, <3>1
    <3>2. CASE b # a
      <4>1. Current(b) /\ job[JobOf(b)].state \notin TerminalJob /\ JobOf(b) \in Jobs
        BY <2>1, <3>2, JobOfAttempt DEF CInv, RowsFit, OpenIsCurrent
      <4>2. QED
        BY <1>11, <4>1
    <3>3. QED
      BY <3>1, <3>2
  <2>2. QED
    BY <1>3, <2>1, JobOfAttempt DEF OpenIsCurrent, Current, JobOf
<1>5. CollectedSucceeded'
  <2>1. ASSUME NEW j \in Jobs, job'[j].state \in Collected
        PROVE  /\ <<j, job'[j].count>> \in Attempts
               /\ att'[<<j, job'[j].count>>].state = "SUCCEEDED"
    <3>1. j # JobOf(a) /\ job'[j] = job[j]
      BY <1>11, <2>1
    <3>2. <<j, job[j].count>> \in Attempts /\ att[<<j, job[j].count>>].state = "SUCCEEDED"
      BY <2>1, <3>1 DEF CInv, RowsFit, CollectedSucceeded
    <3>3. <<j, job[j].count>> # a
      BY <3>1 DEF JobOf
    <3>4. QED
      BY <3>1, <3>2, <3>3
  <2>2. QED
    BY <2>1 DEF CollectedSucceeded
<1>6. ~release.stopped /\ release.phase # "REVIEWING"
  BY <1>1 DEF CInv, RowsFit, StopHolds, ReviewIsComplete, TerminalJob
<1>7. StopHolds' /\ ReviewIsComplete'
  BY <1>6 DEF StopHolds, ReviewIsComplete
<1>8. Wires'
  BY DEF CInv, RowsFit, Wires
<1>9. \A j \in Jobs : EndStays(j)
  BY <1>1 DEF EndStays
<1>10. \A j \in Jobs : Backed(j)'
  <2>1. Backed(JobOf(a))'
    BY <1>1, StillBacked
  <2>2. ASSUME NEW j \in Jobs, j # JobOf(a) PROVE Backed(j)'
    BY <2>2, OthersBacked
  <2>3. QED
    BY <2>1, <2>2
<1>12. QED
  BY <1>2, <1>4, <1>5, <1>7, <1>8, <1>9, <1>10 DEF RowsFit

(* The reconciler is at another attempt than the one a worker submits.      *)
LEMMA ReadingElsewhere ==
    ASSUME CInv, NEW a \in Attempts, att[a].state \in {"NONE", "CREATED", "SUBMITTING"},
           \A b \in Attempts \ {a} : att'[b] = att[b] \/ att[b].state = "NONE",
           Touch({a}) \/ UNCHANGED rec, UNCHANGED net
    PROVE  ReadingFits'
<1>1. /\ rec'.pc = rec.pc /\ rec'.a = rec.a /\ rec'.obs = rec.obs
      /\ rec'.fresh => rec.fresh
  BY TouchIs
<1>2. CASE rec.pc = "idle"
  BY <1>1, <1>2 DEF ReadingFits
<1>3. CASE rec.pc # "idle"
  <2>1. rec.a \in Attempts \ {a} /\ att[rec.a].state # "NONE"
    BY <1>3 DEF CInv, IInv, Existence, ReadingFits
  <2>2. QED
    BY <1>1, <2>1 DEF CInv, ReadingFits, Live, Terminated
<1>4. QED
  BY <1>2, <1>3

LEMMA ReservedKeeps ==
    ASSUME CInv, IInv', NEW w \in Workers, Reserve(w, TRUE)
    PROVE  /\ CInv' /\ \A j \in Jobs : EndStays(j)
           /\ ~release.stop
           /\ \E a \in Attempts :
                 /\ att[a].held = "none" /\ att[a].state = "CREATED" /\ net[a].posts = 0
                 /\ att'[a].held = "held" /\ UNCHANGED net
                 /\ \A b \in Attempts \ {a} : att'[b] = att[b]
<1>1. PICK a : a = task[w].a
  OBVIOUS
<1>2. /\ task[w].pc = "claimed" /\ att[a].state = "CREATED" /\ ~release.stop
      /\ att' = [att EXCEPT ![a] = [@ EXCEPT !.state = "SUBMITTING", !.held = "held"]]
      /\ job' = [job EXCEPT ![JobOf(a)].state = "SUBMITTING"]
      /\ Goes(w, "building", "none") /\ Touch({a}) /\ UNCHANGED <<release, ev, net>>
  BY <1>1 DEF Reserve, Submittable, Working, Stale
<1>3. /\ a \in Attempts /\ att[a] \in AttemptRows /\ JobOf(a) \in Jobs
      /\ job[JobOf(a)] \in JobRows /\ att[a].state \in Nonterminal /\ RowFits(a)
      /\ ev[a].status = "PROCESSING" /\ task[w] \in Tasks /\ task[w].pc # "idle"
  BY <1>1, <1>2, Tasked DEF Nonterminal
<1>4. /\ att'[a].state = "SUBMITTING" /\ att'[a].held = "held" /\ att'[a].ext = att[a].ext
      /\ \A b \in Attempts \ {a} : att'[b] = att[b]
  BY <1>2, <1>3 DEF CInv, IInv, TypeOK, AttemptRows
<1>5. /\ job'[JobOf(a)].state = "SUBMITTING" /\ job'[JobOf(a)].count = job[JobOf(a)].count
      /\ \A k \in Jobs \ {JobOf(a)} : job'[k] = job[k]
  BY <1>2, <1>3 DEF CInv, IInv, TypeOK, JobRows
<1>6. RowFits(a)'
  BY <1>2, <1>3, <1>4 DEF RowFits, RemoteOrAmbiguous
<1>7. RowsFit' /\ \A j \in Jobs : EndStays(j)
  BY <1>2, <1>3, <1>4, <1>5, <1>6, ReopenedRows
  DEF Nonterminal, RemoteOrAmbiguous, Busy
<1>8. WorkersFit'
  <2>1. /\ task'[w].pc = "building" /\ task'[w].a = a /\ task'[w].posted = task[w].posted
        /\ \A v \in Workers \ {w} : task'[v] = task[v]
    BY <1>1, <1>2, GoesIs
  <2>2. ~task[w].posted
    BY <1>2, <1>3 DEF CInv, WorkersFit, Tasks
  <2>3. QED
    BY <1>1, <1>2, <1>3, <1>4, <2>1, <2>2, WorkersAfter
<1>9. ReadingFits'
  BY <1>2, <1>3, <1>4, ReadingElsewhere
<1>10. net[a].posts = 0 /\ att[a].held = "none"
  BY <1>2, <1>3 DEF RowFits, CInv, IInv, Unsent
<1>11. CInv'
  BY <1>7, <1>8, <1>9 DEF CInv
<1>12. QED
  BY <1>2, <1>3, <1>4, <1>7, <1>10, <1>11

LEMMA RearmKeeps ==
    ASSUME CInv, IInv', NEW w \in Workers, Rearm(w)
    PROVE  /\ CInv' /\ \A j \in Jobs : EndStays(j)
           /\ \E a \in Attempts :
                 /\ att[a].held = "held" /\ net[a].posts = 0
                 /\ att'[a].held = "none" /\ att'[a].state = "CREATED" /\ UNCHANGED net
                 /\ \A b \in Attempts \ {a} : att'[b] = att[b]
<1>1. PICK a : a = task[w].a
  OBVIOUS
<1>2. /\ task[w].pc = "building" /\ att[a].state = "SUBMITTING" /\ att[a].held = "held"
      /\ att' = [att EXCEPT ![a] = [@ EXCEPT !.state = "CREATED", !.held = "none"]]
      /\ job' = [job EXCEPT ![JobOf(a)].state = "CLAIMED"]
      /\ Goes(w, "settling", "BUDGET_BLOCKED") /\ Touch({a}) /\ UNCHANGED <<release, ev, net>>
  BY <1>1 DEF Rearm, Working
<1>3. /\ a \in Attempts /\ att[a] \in AttemptRows /\ JobOf(a) \in Jobs
      /\ job[JobOf(a)] \in JobRows /\ att[a].state \in Nonterminal /\ RowFits(a)
      /\ task[w] \in Tasks /\ task[w].pc # "idle" /\ ev[a].status = "PROCESSING"
      /\ net[a].posts = 0 /\ ~Live(a)
  BY <1>1, <1>2, Tasked DEF Nonterminal, RemoteOrAmbiguous, CInv, IInv, Unsent
<1>4. /\ att'[a].state = "CREATED" /\ att'[a].held = "none" /\ att'[a].ext = att[a].ext
      /\ \A b \in Attempts \ {a} : att'[b] = att[b]
  BY <1>2, <1>3 DEF CInv, IInv, TypeOK, AttemptRows
<1>5. /\ job'[JobOf(a)].state = "CLAIMED" /\ job'[JobOf(a)].count = job[JobOf(a)].count
      /\ \A k \in Jobs \ {JobOf(a)} : job'[k] = job[k]
  BY <1>2, <1>3 DEF CInv, IInv, TypeOK, JobRows
<1>6. RowFits(a)'
  BY <1>2, <1>3, <1>4 DEF RowFits, Live, Terminated
<1>7. RowsFit' /\ \A j \in Jobs : EndStays(j)
  BY <1>2, <1>3, <1>4, <1>5, <1>6, ReopenedRows
  DEF Nonterminal, RemoteOrAmbiguous, TerminalJob, Collected
<1>8. WorkersFit'
  <2>1. /\ task'[w].pc = "settling" /\ task'[w].a = a /\ task'[w].posted = task[w].posted
        /\ task'[w].result = "BUDGET_BLOCKED"
        /\ \A v \in Workers \ {w} : task'[v] = task[v]
    BY <1>1, <1>2, GoesIs
  <2>2. ~task[w].posted \/ task'[w].pc = "settling"
    BY <2>1
  <2>3. QED
    BY <1>1, <1>2, <1>3, <1>4, <2>1, <2>2, WorkersAfter
<1>9. ReadingFits'
  BY <1>2, <1>3, <1>4, ReadingElsewhere
<1>10. CInv'
  BY <1>7, <1>8, <1>9 DEF CInv
<1>11. QED
  BY <1>2, <1>3, <1>4, <1>7, <1>10

LEMMA BatchIs ==
    ASSUME NEW B \in Batches
    PROVE  /\ B \subseteq Jobs /\ B # {} /\ ReleaseAllowsRetry
           /\ \A j \in B : /\ job[j].state \in {"QUEUED", "RETRY_WAIT"}
                            /\ job[j].count < job[j].max
BY DEF Batches, Dispatchable

LEMMA DispatchKeeps ==
    ASSUME CInv, IInv', Dispatch
    PROVE  /\ CInv' /\ \A j \in Jobs : EndStays(j)
           /\ ~release.stop /\ UNCHANGED net
           /\ \A a \in Attempts : /\ att'[a].held = att[a].held
                                  /\ att'[a] = att[a] \/ att'[a].state = "CREATED"
<1>1. PICK B \in Batches :
          /\ Preparable(B)
          /\ job' = [j \in Jobs |-> IF j \in B
                        THEN [job[j] EXCEPT !.state = "CLAIMED", !.count = @ + 1] ELSE job[j]]
          /\ att' = [a \in Attempts |->
                        IF JobOf(a) \in B /\ a[2] = job[JobOf(a)].count + 1
                        THEN [NoAttemptRow EXCEPT !.state = "CREATED"] ELSE att[a]]
          /\ ev' = [a \in Attempts |->
                       IF JobOf(a) \in B /\ a[2] = job[JobOf(a)].count + 1
                       THEN [status |-> "PENDING", tries |-> 0, expired |-> FALSE] ELSE ev[a]]
          /\ release' = [release EXCEPT !.phase = "GENERATING"]
          /\ UNCHANGED <<task, rec, net>>
  BY DEF Dispatch
<1> DEFINE Prepared == {a \in Attempts : JobOf(a) \in B /\ a[2] = job[JobOf(a)].count + 1}
<1>2. /\ release'.phase = "GENERATING" /\ release'.stopped = release.stopped
      /\ ~release.stop /\ ~release.stopped
  BY <1>1, BatchIs
  DEF ReleaseAllowsRetry, CInv, IInv, TypeOK, Releases, RowsFit, StopHolds
<1>3. ASSUME NEW j \in B
      PROVE  /\ j \in Jobs /\ job[j].state \in {"QUEUED", "RETRY_WAIT"}
             /\ job'[j].state = "CLAIMED" /\ job'[j].count = job[j].count + 1
             /\ <<j, job[j].count + 1>> \in Prepared
             /\ \A a \in AttemptsOf(j) : att[a].state \notin Nonterminal
  <2>1. j \in Jobs /\ job[j].state \in {"QUEUED", "RETRY_WAIT"}
    BY BatchIs
  <2>2. job[j] \in JobRows
    BY <2>1 DEF CInv, IInv, TypeOK
  <2>3. job'[j] = [job[j] EXCEPT !.state = "CLAIMED", !.count = @ + 1]
    BY <1>1, <2>1
  <2>4. \A a \in AttemptsOf(j) : att[a].state \notin Nonterminal
    BY <1>1 DEF Preparable, AttemptsOf, JobOf
  <2>5. job[j].count + 1 \in 1..AttemptLimit
    BY <2>1, <2>2, GenerationAssumption, BatchIs DEF JobRows
  <2>6. <<j, job[j].count + 1>> \in Prepared
    BY <2>1, <2>5 DEF Attempts, JobOf
  <2>7. QED
    BY <2>1, <2>2, <2>3, <2>4, <2>6 DEF JobRows
<1>4. \A j \in Jobs \ B : job'[j] = job[j]
  BY <1>1
<1>5. ASSUME NEW a \in Prepared
      PROVE  /\ a \in Attempts /\ JobOf(a) \in B /\ att[a].state = "NONE"
             /\ att[a].held = "none" /\ ~Live(a)
             /\ att'[a].state = "CREATED" /\ att'[a].held = "none" /\ ~att'[a].ext
             /\ ev'[a].status = "PENDING"
  <2>1. a \in Attempts /\ JobOf(a) \in B /\ a[2] = job[JobOf(a)].count + 1
    OBVIOUS
  <2>2. att[a].state = "NONE"
    BY <2>1, JobOfAttempt DEF CInv, IInv, TypeOK, JobRows, Existence
  <2>3. ~Live(a) /\ att[a].held = "none"
    BY <2>1, <2>2 DEF CInv, RowsFit, RowFits, RemoteOrAmbiguous, Reconcilable
  <2>4. att'[a] = [NoAttemptRow EXCEPT !.state = "CREATED"]
    BY <1>1, <2>1
  <2>5. ev'[a].status = "PENDING"
    BY <1>1, <2>1
  <2>6. QED
    BY <2>1, <2>2, <2>3, <2>4, <2>5 DEF NoAttemptRow
<1>6. \A a \in Attempts \ Prepared : att'[a] = att[a] /\ ev'[a] = ev[a]
  BY <1>1
<1>7. \A a \in Prepared : Current(a)'
  BY <1>3, <1>5 DEF Current, JobOf
<1> HIDE DEF Prepared
<1>8. ASSUME NEW a \in Attempts PROVE RowFits(a)'
  <2>1. CASE a \in Prepared
    BY <1>1, <1>5, <2>1 DEF RowFits, Live, Terminated
  <2>2. CASE a \notin Prepared
    BY <1>1, <1>6, <2>2 DEF CInv, RowsFit, RowFits, Live, Terminated
  <2>3. QED
    BY <2>1, <2>2
<1>9. OpenIsCurrent'
  <2>1. ASSUME NEW a \in Attempts, att'[a].state \in Nonterminal
        PROVE  Current(a)' /\ job'[JobOf(a)].state \notin TerminalJob
    <3>1. CASE a \in Prepared
      BY <1>3, <1>5, <1>7, <3>1 DEF TerminalJob
    <3>2. CASE a \notin Prepared
      <4>1. att[a].state \in Nonterminal /\ a \in AttemptsOf(JobOf(a)) /\ JobOf(a) \in Jobs
        BY <1>6, <2>1, <3>2, JobOfAttempt DEF AttemptsOf, JobOf
      <4>2. JobOf(a) \notin B
        BY <1>3, <4>1
      <4>3. job'[JobOf(a)] = job[JobOf(a)]
        BY <1>4, <4>1, <4>2
      <4>4. QED
        BY <4>1, <4>3 DEF CInv, RowsFit, OpenIsCurrent, Current, JobOf
    <3>3. QED
      BY <3>1, <3>2
  <2>2. QED
    BY <2>1 DEF OpenIsCurrent, JobOf
<1>10. CollectedSucceeded'
  <2>1. ASSUME NEW j \in Jobs, job'[j].state \in Collected
        PROVE  /\ <<j, job'[j].count>> \in Attempts
               /\ att'[<<j, job'[j].count>>].state = "SUCCEEDED"
    <3>1. j \notin B /\ job'[j] = job[j]
      BY <1>3, <1>4, <2>1 DEF Collected
    <3>2. <<j, job[j].count>> \in Attempts /\ att[<<j, job[j].count>>].state = "SUCCEEDED"
      BY <2>1, <3>1 DEF CInv, RowsFit, CollectedSucceeded
    <3>3. <<j, job[j].count>> \notin Prepared
      BY <1>5, <3>2
    <3>4. QED
      BY <1>6, <3>1, <3>2, <3>3
  <2>2. QED
    BY <2>1 DEF CollectedSucceeded
<1>11. RowsFit'
  <2>1. Wires'
    BY <1>1 DEF CInv, RowsFit, Wires
  <2>2. StopHolds' /\ ReviewIsComplete'
    BY <1>2 DEF StopHolds, ReviewIsComplete
  <2>3. ASSUME NEW j \in Jobs PROVE Backed(j)'
    <3>1. CASE j \in B
      BY <1>3, <1>5, <3>1 DEF Backed, Busy
    <3>2. CASE j \notin B
      <4>1. \A b \in Attempts : JobOf(b) = j => att'[b].state = att[b].state
        BY <1>5, <1>6, <3>2
      <4>2. QED
        BY <1>4, <3>2, <4>1, OthersBacked
    <3>3. QED
      BY <3>1, <3>2
  <2>4. QED
    BY <1>8, <1>9, <1>10, <2>1, <2>2, <2>3 DEF RowsFit
<1>12. WorkersFit'
  <2>1. SubmittingIsOwned'
    <3>1. \A a \in Attempts : att'[a].state = "SUBMITTING" => a \notin Prepared
      BY <1>5
    <3>2. QED
      BY <1>6, <3>1 DEF SubmittingIsOwned, CInv, WorkersFit
  <2>2. ASSUME NEW w \in Workers, task[w].pc # "idle"
        PROVE  att'[task[w].a] = att[task[w].a]
    <3>1. PICK a : a = task[w].a
      OBVIOUS
    <3>2. a \in Attempts /\ att[a].state # "NONE"
      BY <2>2, <3>1, Tasked
    <3>3. QED
      BY <1>5, <1>6, <3>1, <3>2
  <2>3. \A a \in Attempts :
           att'[a].state = "CREATED" => ev'[a].status \in {"PENDING", "PROCESSING"}
    BY <1>5, <1>6 DEF CInv, WorkersFit
  <2>4. ASSUME NEW w \in Workers
        PROVE  /\ task[w].pc \in {"building", "posting"} => att'[task[w].a].state = "SUBMITTING"
               /\ task[w].pc \in {"claimed", "settling"} => att'[task[w].a].state # "SUBMITTING"
               /\ task[w].pc = "settling" /\ task[w].result \notin {"UNKNOWN", "BUDGET_BLOCKED"}
                     => att'[task[w].a].state # "CREATED"
               /\ task[w].posted => task[w].pc \in {"posting", "settling"}
               /\ task[w].pc = "posting" => task[w].posted
    BY <2>2 DEF CInv, WorkersFit
  <2>5. task' = task
    BY <1>1
  <2>6. QED
    BY <2>1, <2>3, <2>4, <2>5 DEF WorkersFit
<1>13. ReadingFits'
  <2>1. CASE rec.pc = "idle"
    BY <1>1, <2>1 DEF ReadingFits
  <2>2. CASE rec.pc # "idle"
    <3>1. rec.a \in Attempts /\ att[rec.a].state # "NONE"
      BY <2>2 DEF CInv, IInv, Existence
    <3>2. att'[rec.a] = att[rec.a]
      BY <1>5, <1>6, <3>1
    <3>3. QED
      BY <1>1, <3>2 DEF CInv, ReadingFits, Live, Terminated
  <2>3. QED
    BY <2>1, <2>2
<1>14. \A j \in Jobs : EndStays(j)
  BY <1>3, <1>4 DEF EndStays, TerminalJob
<1>15. \A a \in Attempts : /\ att'[a].held = att[a].held
                           /\ att'[a] = att[a] \/ att'[a].state = "CREATED"
  BY <1>5, <1>6
<1>16. CInv'
  BY <1>11, <1>12, <1>13 DEF CInv
<1>17. QED
  BY <1>1, <1>2, <1>14, <1>15, <1>16

-----------------------------------------------------------------------------
(* The start                                                                *)

LEMMA InitCInv == Init => CInv
<1> SUFFICES ASSUME Init PROVE CInv
  OBVIOUS
<1>1. IInv
  BY InitIInv
<1>2. \A j \in Jobs : job[j].state = "QUEUED" /\ Backed(j)
  BY DEF Init, Backed, Busy
<1>3. QED
  BY <1>1, <1>2
  DEF Init, CInv, RowsFit, WorkersFit, ReadingFits, Wires, RowFits, OpenIsCurrent,
      CollectedSucceeded, StopHolds, ReviewIsComplete, SubmittingIsOwned, NoAttemptRow,
      IdleTask, IdleRec, Live, Terminated, Nonterminal, RemoteOrAmbiguous, Reconcilable, Collected

LEMMA HistoricalCInv == HistoricalInit => CInv
<1> SUFFICES ASSUME HistoricalInit PROVE CInv
  OBVIOUS
<1>1. \A a \in Attempts : a[2] \in 1..AttemptLimit /\ JobOf(a) \in Jobs
  BY JobOfAttempt
<1> DEFINE ended == [NoAttemptRow EXCEPT !.state = "FAILED", !.ext = TRUE, !.seen = 3,
                                         !.held = "released", !.code = "infra"]
<1>2. NoAttemptRow \in AttemptRows /\ ended \in AttemptRows
  <2>1. NoAttemptRow \in AttemptRows
    BY GenerationAssumption DEF NoAttemptRow, AttemptRows, AttemptStates
  <2>2. "FAILED" \in AttemptStates
    BY DEF AttemptStates, TerminalAttempt
  <2> DEFINE x == [NoAttemptRow EXCEPT !.state = "FAILED"]
             y == [x EXCEPT !.ext = TRUE]
             z == [y EXCEPT !.seen = 3]
             u == [z EXCEPT !.held = "released"]
  <2>3. x \in AttemptRows
    BY <2>1, <2>2 DEF AttemptRows
  <2> HIDE DEF x
  <2>4. y \in AttemptRows
    BY <2>3 DEF AttemptRows
  <2> HIDE DEF y
  <2>5. z \in AttemptRows
    BY <2>4 DEF AttemptRows
  <2> HIDE DEF z
  <2>6. u \in AttemptRows
    BY <2>5 DEF AttemptRows
  <2> HIDE DEF u
  <2>7. [u EXCEPT !.code = "infra"] \in AttemptRows
    BY <2>6 DEF AttemptRows
  <2>8. ended \in AttemptRows
    BY <2>7 DEF x, y, z, u
  <2>9. QED
    BY <2>1, <2>8
<1>3. /\ ended.state = "FAILED" /\ ended.ext /\ ended.held = "released"
      /\ ended.misses = 0 /\ ended.stopMisses = 0
  BY DEF NoAttemptRow
<1>4. \A a \in Attempts :
        \/ /\ a[2] > 1 /\ att[a] = NoAttemptRow /\ ev[a].status = "NONE"
           /\ net[a] = [posts |-> 0, wire |-> "unsent", hist |-> {}]
        \/ /\ a[2] = 1 /\ att[a] = ended /\ ev[a].status = "SUCCEEDED"
           /\ net[a] = [posts |-> 1, wire |-> "landed", hist |-> {"pending", "failed"}]
  BY <1>1 DEF HistoricalInit
<1> HIDE DEF ended
<1>5. TypeOK
  <2>1. job \in [Jobs -> JobRows]
    BY GenerationAssumption DEF HistoricalInit, JobRows, JobStates, TerminalJob
  <2>2. att \in [Attempts -> AttemptRows]
    <3>1. \A a \in Attempts : att[a] \in AttemptRows
      BY <1>2, <1>4
    <3>2. att = [a \in Attempts |-> att[a]]
      BY DEF HistoricalInit
    <3>3. QED
      BY <3>1, <3>2
  <2>3. ev \in [Attempts -> EventRows]
    BY GenerationAssumption DEF HistoricalInit, EventRows
  <2>4. net \in [Attempts -> ProviderRows]
    BY DEF HistoricalInit, ProviderRows, Statuses, Terminals
  <2>5. QED
    BY <2>1, <2>2, <2>3, <2>4, GenerationAssumption
    DEF HistoricalInit, TypeOK, Releases, Tasks, Readings, IdleTask, IdleRec
<1>6. IInv
  <2>1. Ownership
    BY DEF HistoricalInit, Ownership, IdleTask
  <2>2. Existence
    BY <1>1, <1>3, <1>4 DEF HistoricalInit, Existence, NoAttemptRow, IdleRec
  <2>3. Room
    <3>1. \A a \in Attempts : att[a].misses = 0 /\ att[a].stopMisses = 0
      BY <1>3, <1>4 DEF NoAttemptRow
    <3>2. \A a \in Attempts : net[a].wire = "landed" => net[a].hist # {}
      BY <1>4
    <3>3. \A j \in Jobs : job[j].count <= job[j].max
      BY DEF HistoricalInit
    <3>4. QED
      BY <3>1, <3>2, <3>3, GenerationAssumption DEF Room
  <2>4. Unsent /\ AtMostOnePost
    BY <1>3, <1>4 DEF HistoricalInit, Unsent, AtMostOnePost, IdleTask
  <2>5. QED
    BY <1>5, <2>1, <2>2, <2>3, <2>4 DEF IInv
<1>7. \A j \in Jobs : job[j].state = "DEAD_LETTER" /\ Backed(j)
  BY DEF HistoricalInit, Backed, Busy
<1>8. \A a \in Attempts : ~Live(a)
  BY <1>4 DEF Live, Terminated, Terminals
<1>9. QED
  BY <1>3, <1>4, <1>6, <1>7, <1>8
  DEF HistoricalInit, CInv, RowsFit, WorkersFit, ReadingFits, Wires, RowFits, OpenIsCurrent,
      CollectedSucceeded, StopHolds, ReviewIsComplete, SubmittingIsOwned, NoAttemptRow,
      IdleTask, IdleRec, Nonterminal, RemoteOrAmbiguous, Reconcilable, Collected

-----------------------------------------------------------------------------
(* Every step                                                               *)

(* What ProviderCommitment sees of an attempt, and how a step may move it.  *)
SameMoney(a) ==
    /\ att'[a].held = att[a].held
    /\ net'[a].posts = 0 <=> net[a].posts = 0
    /\ Live(a)' <=> Live(a)

MoneyMoves(a) ==
    \/ /\ att[a].held = "none" /\ att'[a].held = "held"
       /\ net[a].posts = 0 /\ net'[a].posts = 0 /\ ~Live(a) /\ ~Live(a)'
       /\ \A b \in Attempts : att[b].held = "held" => JobOf(b) # JobOf(a)
    \/ /\ att[a].held = "held" /\ att'[a].held = "none"
       /\ net[a].posts = 0 /\ net'[a].posts = 0 /\ ~Live(a) /\ ~Live(a)'
    \/ /\ att[a].held = "held" /\ att'[a].held = "held"
       /\ net[a].posts = 0 /\ net'[a].posts # 0 /\ Live(a)'
    \/ /\ att'[a].held = att[a].held /\ (net'[a].posts = 0 <=> net[a].posts = 0)
       /\ Live(a) /\ ~Live(a)'
    \/ /\ att[a].held = "held" /\ att'[a].held = "released"
       /\ (net'[a].posts = 0 <=> net[a].posts = 0) /\ ~Live(a)'

MoneyStep ==
    \/ \A a \in Attempts : SameMoney(a)
    \/ \E a \in Attempts : MoneyMoves(a) /\ \A b \in Attempts \ {a} : SameMoney(b)

(* Only a dispatch opens an attempt.                                        *)
OpensNone == \A a \in Attempts :
    att'[a].state \in Nonterminal => att[a].state \in Nonterminal

Keeps ==
    /\ \A j \in Jobs : EndStays(j)
    /\ release.stop => \A a \in Attempts :
           att'[a].state = "SUBMITTING" => att[a].state = "SUBMITTING"
    /\ MoneyStep
    /\ OpensNone \/ Dispatch

LEMMA AdvanceOpensNone ==
    ASSUME CInv, AllAdvance
    PROVE  OpensNone
BY OpenOrEnded DEF AllAdvance, StateStep, OpensNone

LEMMA AdvanceKeeps ==
    ASSUME CInv, AllAdvance, UNCHANGED net
    PROVE  Keeps
<1>1. \A a \in Attempts : Live(a)' <=> Live(a)
  BY DEF Live, Terminated
<1>2. \A a \in Attempts : att'[a].held = att[a].held => SameMoney(a)
  BY <1>1 DEF SameMoney
<1>3. ASSUME NEW a \in Attempts, att'[a].held # att[a].held PROVE MoneyMoves(a)
  <2>1. StateStep(a) /\ RowFits(a)'
    BY DEF AllAdvance
  <2>2. att[a].held = "held" /\ att'[a].held = "released"
    BY <1>3, <2>1 DEF StateStep
  <2>3. ~Live(a)'
    BY <2>1, <2>2 DEF RowFits
  <2>4. QED
    BY <2>2, <2>3 DEF MoneyMoves
<1>4. MoneyStep
  <2>1. CASE \A a \in Attempts : att'[a].held = att[a].held
    BY <1>2, <2>1 DEF MoneyStep
  <2>2. CASE \E a \in Attempts : att'[a].held # att[a].held
    <3>1. PICK a \in Attempts : att'[a].held # att[a].held
      BY <2>2
    <3>2. \A b \in Attempts \ {a} : att'[b].held = att[b].held
      BY <3>1 DEF AllAdvance
    <3>3. QED
      BY <1>2, <1>3, <3>1, <3>2 DEF MoneyStep
  <2>3. QED
    BY <2>1, <2>2
<1>5. \A a \in Attempts : att'[a].state = "SUBMITTING" => att[a].state = "SUBMITTING"
  BY DEF AllAdvance, StateStep
<1>6. \A j \in Jobs : EndStays(j)
  BY DEF AllAdvance, JobStep
<1>7. QED
  BY <1>4, <1>5, <1>6, AdvanceOpensNone DEF Keeps

(* An attempt whose row is unchanged, and the provider's side of it.        *)
LEMMA SameRowSameMoney ==
    ASSUME NEW a, att'[a] = att[a], net'[a] = net[a]
    PROVE  SameMoney(a)
BY DEF SameMoney, Live, Terminated

LEMMA PostKeeps ==
    ASSUME CInv, IInv', NEW w \in Workers, Post(w)
    PROVE  CInv' /\ Keeps
<1>1. PICK a \in Attempts :
          /\ att[a].held = "held" /\ net[a].posts = 0 /\ UNCHANGED att
          /\ net'[a].posts # 0 /\ net'[a].wire = "flying"
          /\ \A b \in Attempts \ {a} : net'[b] = net[b]
  BY PostAdvances
<1>2. CInv' /\ AllAdvance
  BY PostAdvances
<1>3. MoneyMoves(a)
  BY <1>1 DEF MoneyMoves, Live
<1>4. MoneyStep
  BY <1>1, <1>3, SameRowSameMoney DEF MoneyStep
<1>5. QED
  BY <1>1, <1>2, <1>4, AdvanceOpensNone DEF Keeps, AllAdvance, JobStep

LEMMA RefusalKeeps ==
    ASSUME CInv, IInv', NEW w \in Workers, NEW code \in {"infra", "other"}, PostRefused(w, code)
    PROVE  CInv' /\ Keeps
<1>1. PICK a \in Attempts :
          /\ att[a].held = "held" /\ net[a].wire = "flying"
          /\ att'[a].held = "released" /\ net'[a].wire = "lost"
          /\ net'[a].posts = net[a].posts
          /\ \A b \in Attempts \ {a} : att'[b] = att[b] /\ net'[b] = net[b]
  BY RefusalAdvances
<1>2. CInv' /\ AllAdvance
  BY RefusalAdvances
<1>3. MoneyMoves(a)
  BY <1>1 DEF MoneyMoves, Live
<1>4. MoneyStep
  BY <1>1, <1>3, SameRowSameMoney DEF MoneyStep
<1>5. QED
  BY <1>2, <1>4, AdvanceOpensNone DEF Keeps, AllAdvance, JobStep, StateStep

LEMMA ProviderKeeps ==
    ASSUME CInv, IInv', Provider
    PROVE  CInv' /\ Keeps
<1>1. CInv' /\ AllAdvance
  BY ProviderAdvances
<1>2. PICK a \in Attempts : WireMoves(a)
  BY ProviderAdvances
<1>3. \A b \in Attempts \ {a} : SameMoney(b)
  BY <1>2, SameRowSameMoney DEF WireMoves
<1>4. SameMoney(a) \/ MoneyMoves(a)
  BY <1>2 DEF WireMoves, SameMoney, MoneyMoves
<1>5. MoneyStep
  BY <1>3, <1>4 DEF MoneyStep
<1>6. QED
  BY <1>1, <1>5, AdvanceOpensNone DEF Keeps, AllAdvance, JobStep, StateStep

LEMMA ReserveKeeps ==
    ASSUME CInv, IInv', NEW w \in Workers, Reserve(w, TRUE)
    PROVE  CInv' /\ Keeps
<1>1. PICK a \in Attempts :
          /\ att[a].held = "none" /\ att[a].state = "CREATED" /\ net[a].posts = 0
          /\ att'[a].held = "held" /\ UNCHANGED net
          /\ \A b \in Attempts \ {a} : att'[b] = att[b]
  BY ReservedKeeps
<1>2. ~Live(a) /\ ~Live(a)'
  BY <1>1 DEF CInv, RowsFit, RowFits, RemoteOrAmbiguous, Reconcilable, Live, Terminated
<1>3. \A b \in Attempts : att[b].held = "held" => JobOf(b) # JobOf(a)
  <2> SUFFICES ASSUME NEW b \in Attempts, att[b].held = "held", JobOf(b) = JobOf(a)
               PROVE  FALSE
    OBVIOUS
  <2>1. att[b].state \in Nonterminal /\ att[a].state \in Nonterminal
    BY <1>1 DEF CInv, RowsFit, RowFits, Nonterminal
  <2>2. Current(a) /\ Current(b)
    BY <2>1 DEF CInv, RowsFit, OpenIsCurrent
  <2>3. a = b
    BY <2>2 DEF Current, JobOf, Attempts
  <2>4. QED
    BY <1>1, <2>3
<1>4. MoneyStep
  BY <1>1, <1>2, <1>3, SameRowSameMoney DEF MoneyStep, MoneyMoves
<1>5. OpensNone
  BY <1>1 DEF OpensNone, Nonterminal
<1>6. QED
  BY <1>4, <1>5, ReservedKeeps DEF Keeps

LEMMA RearmedKeeps ==
    ASSUME CInv, IInv', NEW w \in Workers, Rearm(w)
    PROVE  CInv' /\ Keeps
<1>1. PICK a \in Attempts :
          /\ att[a].held = "held" /\ net[a].posts = 0
          /\ att'[a].held = "none" /\ att'[a].state = "CREATED" /\ UNCHANGED net
          /\ \A b \in Attempts \ {a} : att'[b] = att[b]
  BY RearmKeeps
<1>2. ~Live(a) /\ ~Live(a)'
  BY <1>1 DEF CInv, RowsFit, Wires, Live, Terminated
<1>3. MoneyStep
  BY <1>1, <1>2, SameRowSameMoney DEF MoneyStep, MoneyMoves
<1>4. \A b \in Attempts : att'[b].state = "SUBMITTING" => att[b].state = "SUBMITTING"
  BY <1>1
<1>5. att[a].state \in Nonterminal
  BY <1>1 DEF CInv, RowsFit, RowFits, Nonterminal
<1>6. OpensNone
  BY <1>1, <1>5 DEF OpensNone
<1>7. QED
  BY <1>3, <1>4, <1>6, RearmKeeps DEF Keeps

LEMMA DispatchedKeeps ==
    ASSUME CInv, IInv', Dispatch
    PROVE  CInv' /\ Keeps
<1>1. \A a \in Attempts : SameMoney(a)
  BY DispatchKeeps DEF SameMoney, Live, Terminated
<1>2. QED
  BY <1>1, DispatchKeeps DEF Keeps, MoneyStep

LEMMA SubmissionKeeps ==
    ASSUME CInv, IInv', NEW w \in Workers, Submission(w)
    PROVE  CInv' /\ Keeps
<1>1. CASE Claim(w)
  BY <1>1, ClaimAdvances, AdvanceKeeps DEF Claim
<1>2. CASE FenceStale(w)
  BY <1>2, FenceStaleAdvances, AdvanceKeeps DEF FenceStale
<1>3. CASE AlreadyRecorded(w) \/ NotYet(w) \/ Crash(w)
  <2>1. task[w].pc # "idle" /\ UNCHANGED net
    BY <1>3 DEF AlreadyRecorded, NotYet, Crash, Submittable, Working
  <2>2. ~SucceedEvent(w) /\ ~DeferEvent(w)
    <3>1. UNCHANGED ev
      BY <1>3 DEF AlreadyRecorded, NotYet, Crash
    <3>2. PICK a : a = task[w].a
      OBVIOUS
    <3>3. a \in Attempts /\ ev[a].status = "PROCESSING"
      BY <2>1, <3>2, Tasked
    <3>4. SucceedEvent(w) \/ DeferEvent(w) => ev'[a].status \in {"SUCCEEDED", "PENDING"}
      BY <3>2, <3>3 DEF SucceedEvent, DeferEvent, Closed, Deferred, CInv, IInv, TypeOK
    <3>5. QED
      BY <3>1, <3>3, <3>4
  <2>3. QED
    BY <1>3, <2>1, <2>2, NothingRecordedAdvances, AdvanceKeeps
<1>4. CASE DeferAdmission(w)
  BY <1>4, DeferAdvances, AdvanceKeeps DEF DeferAdmission
<1>5. CASE Reserve(w, TRUE)
  BY <1>5, ReserveKeeps
<1>6. CASE Reserve(w, FALSE)
  BY <1>6, RefusedAdvances, AdvanceKeeps DEF Reserve
<1>7. CASE BuildFails(w)
  BY <1>7, BuildFailsAdvances, AdvanceKeeps DEF BuildFails
<1>8. CASE Rearm(w)
  BY <1>8, RearmedKeeps
<1>9. CASE Post(w)
  BY <1>9, PostKeeps
<1>10. CASE \E code \in {"infra", "other"} : PostRefused(w, code)
  BY <1>10, RefusalKeeps
<1>11. CASE PostAmbiguous(w)
  BY <1>11, PostAmbiguousAdvances, AdvanceKeeps DEF PostAmbiguous
<1>12. CASE PostAccepted(w)
  BY <1>12, PostAcceptedAdvances, AdvanceKeeps DEF PostAccepted
<1>13. CASE Settle(w)
  BY <1>13, SettleAdvances, AdvanceKeeps DEF Settle, FailEvent, DeferEvent, SucceedEvent
<1>14. CASE Interrupt(w)
  BY <1>14, InterruptAdvances, AdvanceKeeps
  DEF Interrupt, FailEvent, DeferEvent, ResolveUnstarted
<1>15. QED
  BY <1>1, <1>2, <1>3, <1>4, <1>5, <1>6, <1>7, <1>8, <1>9, <1>10, <1>11, <1>12, <1>13, <1>14
  DEF Submission

LEMMA ReconcilerKeeps ==
    ASSUME CInv, IInv',
           Applying \/ ReconcilerCrash \/ \E a \in Attempts : ReadProvider(a) \/ ReadFails(a)
    PROVE  CInv' /\ Keeps
<1>1. UNCHANGED net
  BY DEF Applying, ReconcilerCrash, ReadProvider, ReadFails, ApplyAbsence, ApplyInconclusive,
         DropStaleAbsence, ApplyMissing, ApplyError, ApplyStatus, BeginStopCancel,
         RecordStopCancel, BeginWatchdogCancel, EndWatchdogCancel, CancelFails
<1>2. QED
  BY <1>1, ReconcilerAllAdvance, AdvanceKeeps

LEMMA NextKeeps == CInv /\ [Next]_vars => CInv' /\ Keeps
<1> SUFFICES ASSUME CInv, [Next]_vars PROVE CInv' /\ Keeps
  OBVIOUS
<1>1. IInv'
  BY NextIInv DEF CInv
<1>2. CASE Next
  <2>1. CASE RecoverDeadLetters
    BY <1>1, <2>1, RecoverAdvances, AdvanceKeeps DEF RecoverDeadLetters
  <2>2. CASE Dispatch
    BY <1>1, <2>2, DispatchedKeeps
  <2>3. CASE DispatchBlocked
    BY <1>1, <2>3, BlockedAdvances, AdvanceKeeps DEF DispatchBlocked
  <2>4. CASE \E w \in Workers : Submission(w)
    BY <1>1, <2>4, SubmissionKeeps
  <2>5. CASE \E a \in Attempts : LeaseExpires(a)
    BY <1>1, <2>5, LeaseExpiresAdvances, AdvanceKeeps DEF LeaseExpires
  <2>6. CASE \E a \in Attempts : Webhook(a)
    BY <1>1, <2>6, WebhookAdvances, AdvanceKeeps DEF Webhook
  <2>7. CASE RequestStop \/ SettleStop
    BY <1>1, <2>7, StopAdvances, AdvanceKeeps DEF RequestStop, SettleStop
  <2>8. CASE \E j \in Jobs : Collection(j)
    BY <1>1, <2>8, CollectionAdvances, AdvanceKeeps
    DEF Collection, ClaimCollection, RescheduleCollection, FailCollection, Collect
  <2>9. CASE Provider
    BY <1>1, <2>9, ProviderKeeps
  <2>10. QED
    BY <1>1, <1>2, <2>1, <2>2, <2>3, <2>4, <2>5, <2>6, <2>7, <2>8, <2>9, ReconcilerKeeps DEF Next
<1>3. CASE UNCHANGED vars
  <2>1. UNCHANGED <<release, job, att, ev, task, rec, net>>
    BY <1>3 DEF vars
  <2>2. AllAdvance /\ RowsFit'
    BY <2>1, SameRows
  <2>3. WorkersFit'
    BY <2>1, <2>2, WorkersKept
  <2>4. ReadingFits'
    BY <2>1, <2>2, ReadingKept
  <2>5. Keeps
    BY <2>1, <2>2, AdvanceKeeps
  <2>6. QED
    BY <1>1, <2>2, <2>3, <2>4, <2>5 DEF CInv
<1>4. QED
  BY <1>2, <1>3

(* The rows of releases, jobs and attempts, the workers, the reconciler and *)
(* the provider agree, from a new release or one of before the retry grants.*)
THEOREM RowsAgree == UpgradeSpec => []CInv
<1>1. Init \/ HistoricalInit => CInv
  BY InitCInv, HistoricalCInv
<1>2. CInv /\ [Next]_vars => CInv'
  BY NextKeeps
<1>3. QED
  BY <1>1, <1>2, PTL DEF UpgradeSpec

(* What Salad may still be running is known to be open and keeps its budget *)
(* reserved: the outbox sweep, an interrupted worker, the reconciler and    *)
(* the stop only resolve an attempt that cannot be running any more.        *)
THEOREM NothingIsOrphaned == UpgradeSpec => []NoOrphan
<1>1. CInv => NoOrphan
  BY DEF CInv, RowsFit, RowFits, NoOrphan
<1>2. QED
  BY <1>1, RowsAgree, PTL

(* No job waits for something that never comes: its state always tells of a *)
(* row the outbox or the reconciler still handles, or of a retry to prepare,*)
(* however workers, reads, retries, grants and the stop interleave.         *)
THEOREM NothingStranded == UpgradeSpec => []NothingIsStranded
<1>1. CInv => NothingIsStranded
  <2> SUFFICES ASSUME CInv, NEW j \in Jobs, NEW a, a = <<j, job[j].count>>
               PROVE  /\ job[j].state \in Busy => att[a].state \in RemoteOrAmbiguous
                      /\ job[j].state = "CLAIMED" =>
                            att[a].state = "CREATED" /\ ev[a].status \in {"PENDING", "PROCESSING"}
                      /\ job[j].state = "RETRY_WAIT" =>
                            \/ job[j].count < job[j].max
                            \/ att[a].state = "CREATED" /\ ev[a].status \in {"PENDING", "PROCESSING"}
    BY DEF NothingIsStranded, Busy
  <2>1. Backed(j)
    BY DEF CInv, RowsFit
  <2>2. a \in Attempts /\ att[a].state = "CREATED" => ev[a].status \in {"PENDING", "PROCESSING"}
    BY DEF CInv, WorkersFit
  <2>3. QED
    BY <2>1, <2>2 DEF Backed
<1>2. QED
  BY <1>1, RowsAgree, PTL

(* An attempt marked SUBMITTING always has its event in processing, so that *)
(* the sweep of expired leases finds it when its worker died.               *)
THEOREM SubmissionsAreOwned == UpgradeSpec => []SubmittingIsOwned
<1>1. CInv => SubmittingIsOwned
  BY DEF CInv, WorkersFit
<1>2. QED
  BY <1>1, RowsAgree, PTL

(* Masters are collected only for a job whose latest attempt Salad reported *)
(* as succeeded, whatever the callbacks, reads and retries in between.      *)
THEOREM OutputsExist == UpgradeSpec => []OutputsAreReal
<1>1. CInv => OutputsAreReal
  BY DEF CInv, RowsFit, RowFits, CollectedSucceeded, Collected, OutputsAreReal
<1>2. QED
  BY <1>1, RowsAgree, PTL

(* When settle_stopped_generation has closed a stop, no job or attempt of   *)
(* the release is open, nothing is reserved and Salad runs nothing of it.   *)
THEOREM StopIsQuiet == UpgradeSpec => []StoppedIsQuiet
<1>1. CInv => StoppedIsQuiet
  <2> SUFFICES ASSUME CInv, release.stopped, NEW a \in Attempts
               PROVE  att[a].held # "held" /\ ~Live(a)
    BY DEF CInv, RowsFit, StopHolds, StoppedIsQuiet
  <2>1. att[a].state \notin RemoteOrAmbiguous
    BY DEF CInv, RowsFit, StopHolds, Nonterminal
  <2>2. QED
    BY <2>1 DEF CInv, RowsFit, RowFits
<1>2. QED
  BY <1>1, RowsAgree, PTL

(* A release is reviewed only with every job collected, unless it was       *)
(* stopped: neither a late failure nor a retry takes a job back.            *)
THEOREM ReviewsAreComplete == UpgradeSpec => []ReviewIsComplete
<1>1. CInv => ReviewIsComplete
  BY DEF CInv, RowsFit
<1>2. QED
  BY <1>1, RowsAgree, PTL

(* Once request_generation_stop has committed, no attempt is marked for     *)
(* submission, by no worker that had claimed its event before.              *)
THEOREM StopFences == UpgradeSpec => StopFencesSubmission
<1>1. CInv /\ [Next]_vars => [release.stop => \A a \in Attempts :
          att[a].state # "SUBMITTING" => att'[a].state # "SUBMITTING"]_vars
  BY NextKeeps DEF Keeps
<1>2. QED
  BY <1>1, RowsAgree, PTL DEF UpgradeSpec, StopFencesSubmission

(* A job that ended is never reopened, but for one retry granted to a dead  *)
(* letter while the release is healthy and not stopped.                     *)
THEOREM EndedJobsStayEnded == UpgradeSpec => EndedJobsStay
<1>1. CInv /\ [Next]_vars => [\A j \in Jobs :
          job[j].state \in TerminalJob /\ job'[j].state # job[j].state =>
              /\ job[j].state = "DEAD_LETTER" /\ job'[j].state = "RETRY_WAIT"
              /\ job'[j].max = job[j].max + 1 /\ ReleaseAllowsRetry]_vars
  BY NextKeeps DEF Keeps, EndStays
<1>2. QED
  BY <1>1, RowsAgree, PTL DEF UpgradeSpec, EndedJobsStay

-----------------------------------------------------------------------------
(* The scheduler's backlog limit                                            *)

OpenRows == {a \in Attempts : att[a].state \in Nonterminal}

LEMMA FiniteRows ==
    ASSUME NEW S \in SUBSET Attempts
    PROVE  IsFiniteSet(S) /\ Cardinality(S) \in Nat
<1>1. IsFiniteSet(1..AttemptLimit) /\ IsFiniteSet(Jobs)
  BY FS_Interval, GenerationAssumption
<1>2. IsFiniteSet(Attempts)
  BY <1>1, FS_Product DEF Attempts
<1>3. QED
  BY <1>2, FS_Subset, FS_CardinalityType

(* A dispatch opens no more attempts than the backlog has slots, for as     *)
(* long as the release runs every open attempt counts as in flight.         *)
LEMMA DispatchFits ==
    ASSUME CInv, Dispatch, Cardinality(OpenRows) <= MaxInflight
    PROVE  Cardinality(OpenRows') <= MaxInflight
<1>1. PICK B \in Batches :
          \A a \in Attempts :
              ~(JobOf(a) \in B /\ a[2] = job[JobOf(a)].count + 1) => att'[a] = att[a]
  BY DEF Dispatch
<1>2. ReleaseAllowsRetry
  BY BatchIs
<1>3. OpenRows = {a \in Attempts : Inflight(a)}
  <2>1. ASSUME NEW a \in Attempts PROVE att[a].state \in Nonterminal <=> Inflight(a)
    BY <1>2 DEF Inflight, Nonterminal, CInv, RowsFit, OpenIsCurrent, ReleaseAllowsRetry
  <2>2. QED
    BY <2>1 DEF OpenRows
<1>4. IsFiniteSet(OpenRows) /\ Cardinality(OpenRows) \in Nat
  BY FiniteRows DEF OpenRows
<1>5. Slots \in Nat /\ Slots = MaxInflight - Cardinality(OpenRows)
  BY <1>3, <1>4, GenerationAssumption DEF Slots
<1>6. IsFiniteSet(B) /\ Cardinality(B) <= Slots /\ Cardinality(B) \in Nat
  <2>1. PICK S \in SUBSET Jobs : B = {j \in S : Cardinality({k \in S : k < j}) < Slots}
    BY DEF Batches
  <2>2. IsFiniteSet(S) /\ S \in SUBSET Nat
    BY FS_Subset, GenerationAssumption
  <2>3. QED
    BY <1>5, <2>1, <2>2, AtMostTheLimit, FS_CardinalityType
<1> DEFINE next == [j \in B |-> <<j, job[j].count + 1>>]
           Added == {next[j] : j \in B}
<1>7. IsFiniteSet(Added) /\ Cardinality(Added) <= Cardinality(B) /\ Cardinality(Added) \in Nat
  <2>1. next \in Surjection(B, Added)
    BY DEF Surjection
  <2> HIDE DEF next, Added
  <2>2. QED
    BY <1>6, <2>1, FS_Surjection, FS_CardinalityType
<1>8. OpenRows' \in SUBSET (OpenRows \cup Added)
  <2>1. ASSUME NEW a \in Attempts, att'[a].state \in Nonterminal, att[a].state \notin Nonterminal
        PROVE  a \in Added
    <3>1. JobOf(a) \in B /\ a[2] = job[JobOf(a)].count + 1
      BY <1>1, <2>1
    <3>2. a = next[JobOf(a)]
      BY <3>1 DEF Attempts, JobOf
    <3>3. QED
      BY <3>1, <3>2
  <2>2. QED
    BY <2>1 DEF OpenRows
<1> HIDE DEF Added
<1>9. /\ IsFiniteSet(OpenRows \cup Added)
      /\ Cardinality(OpenRows \cup Added) <= Cardinality(OpenRows) + Cardinality(Added)
  <2>1. Cardinality(OpenRows \cap Added) \in Nat
    BY <1>4, FS_Intersection, FS_CardinalityType
  <2>2. QED
    BY <1>4, <1>7, <2>1, FS_Union
<1>10. Cardinality(OpenRows') <= Cardinality(OpenRows \cup Added)
  BY <1>8, <1>9, FS_Subset
<1>11. Cardinality(OpenRows \cup Added) \in Nat /\ Cardinality(OpenRows') \in Nat
  BY <1>8, <1>9, FS_Subset, FS_CardinalityType
<1>12. QED
  BY <1>4, <1>5, <1>6, <1>7, <1>9, <1>10, <1>11, GenerationAssumption

(* The scheduler never lets more attempts take a slot than the configured   *)
(* local backlog, however attempts end, are swept or are granted again.     *)
THEOREM BacklogKept == UpgradeSpec => []BacklogBounded
<1> DEFINE Bound == Cardinality(OpenRows) <= MaxInflight
<1>1. Init \/ HistoricalInit => Bound
  <2> SUFFICES ASSUME Init \/ HistoricalInit PROVE OpenRows = {}
    BY FS_EmptySet, GenerationAssumption
  <2>1. ASSUME NEW a \in Attempts PROVE att[a].state \in {"NONE", "FAILED"}
    <3>1. CASE Init
      BY <3>1 DEF Init, NoAttemptRow
    <3>2. CASE HistoricalInit
      BY <3>2 DEF HistoricalInit, NoAttemptRow
    <3>3. QED
      BY <3>1, <3>2
  <2>2. QED
    BY <2>1 DEF OpenRows, Nonterminal, RemoteOrAmbiguous, Reconcilable
<1>2. CInv /\ Bound /\ [Next]_vars => Bound'
  <2> SUFFICES ASSUME CInv, Bound, [Next]_vars PROVE Bound'
    OBVIOUS
  <2>1. CASE Dispatch
    BY <2>1, DispatchFits
  <2>2. CASE ~Dispatch
    <3>1. OpenRows' \in SUBSET OpenRows
      BY <2>2, NextKeeps DEF Keeps, OpensNone, OpenRows
    <3>2. IsFiniteSet(OpenRows) /\ Cardinality(OpenRows) \in Nat
      BY FiniteRows DEF OpenRows
    <3>3. Cardinality(OpenRows') <= Cardinality(OpenRows) /\ Cardinality(OpenRows') \in Nat
      BY <3>1, <3>2, FS_Subset, FS_CardinalityType
    <3>4. QED
      BY <3>2, <3>3, GenerationAssumption
  <2>3. QED
    BY <2>1, <2>2
<1>3. CInv /\ Bound => BacklogBounded
  <2> SUFFICES ASSUME CInv, Bound PROVE BacklogBounded
    OBVIOUS
  <2> DEFINE flying == {a \in Attempts : Inflight(a)}
  <2>1. flying \in SUBSET OpenRows
    BY DEF OpenRows, Inflight, Nonterminal
  <2>2. IsFiniteSet(OpenRows) /\ Cardinality(OpenRows) \in Nat
    BY FiniteRows DEF OpenRows
  <2> HIDE DEF flying
  <2>3. Cardinality(flying) <= Cardinality(OpenRows) /\ Cardinality(flying) \in Nat
    BY <2>1, <2>2, FS_Subset, FS_CardinalityType
  <2>4. QED
    BY <2>2, <2>3, GenerationAssumption DEF BacklogBounded, flying
<1> HIDE DEF Bound
<1>4. QED
  BY <1>1, <1>2, <1>3, RowsAgree, PTL DEF UpgradeSpec

-----------------------------------------------------------------------------
(* The pipeline keeps the promise of ProviderCommitment                      *)

Opened == {a \in Attempts : att[a].held = "held"}
Shut == {a \in Attempts : att[a].held = "released"}
Posted == {a \in Attempts : net[a].posts > 0}
Running == {a \in Attempts : Live(a)}

LEMMA CommitmentStart ==
    ASSUME CInv, Init \/ HistoricalInit
    PROVE  Commitment!Init
<1>1. ASSUME NEW a \in Attempts
      PROVE  /\ att[a].held # "held" /\ ~Live(a)
             /\ net[a].posts > 0 <=> att[a].held = "released"
  <2>1. CASE Init
    BY <2>1 DEF Init, NoAttemptRow, Live
  <2>2. CASE HistoricalInit
    <3>1. CASE a[2] > 1
      BY <2>2, <3>1 DEF HistoricalInit, NoAttemptRow, Live
    <3>2. CASE ~(a[2] > 1)
      <4>1. att[a].held = "released" /\ net[a].posts = 1
        BY <2>2, <3>2 DEF HistoricalInit, NoAttemptRow
      <4>2. att[a].state = "FAILED"
        BY <2>2, <3>2 DEF HistoricalInit, NoAttemptRow
      <4>3. QED
        BY <4>1, <4>2 DEF CInv, RowsFit, RowFits
    <3>3. QED
      BY <3>1, <3>2
  <2>3. QED
    BY <2>1, <2>2
<1>2. Opened = {} /\ Running = {} /\ Posted = Shut /\ Shut \in SUBSET Attempts
  BY <1>1 DEF Opened, Running, Posted, Shut
<1>3. QED
  BY <1>2 DEF Commitment!Init, Commitment!Attempts, Attempts, Opened, Running, Posted, Shut

LEMMA CommitmentStep ==
    ASSUME CInv, CInv', Keeps
    PROVE  [Commitment!Next]_Commitment!vars
<1>1. \A a \in Attempts : net[a].posts \in Nat /\ net'[a].posts \in Nat
  BY DEF CInv, IInv, TypeOK, ProviderRows
<1>2. ASSUME NEW a \in Attempts, SameMoney(a)
      PROVE  /\ a \in Opened' <=> a \in Opened
             /\ a \in Shut' <=> a \in Shut
             /\ a \in Posted' <=> a \in Posted
             /\ a \in Running' <=> a \in Running
  BY <1>1, <1>2 DEF SameMoney, Opened, Shut, Posted, Running
<1>3. Opened \in SUBSET Attempts /\ Opened' \in SUBSET Attempts
      /\ Shut \in SUBSET Attempts /\ Shut' \in SUBSET Attempts
      /\ Posted \in SUBSET Attempts /\ Posted' \in SUBSET Attempts
      /\ Running \in SUBSET Attempts /\ Running' \in SUBSET Attempts
  BY DEF Opened, Shut, Posted, Running
<1>4. CASE \A a \in Attempts : SameMoney(a)
  <2>1. Opened' = Opened /\ Shut' = Shut /\ Posted' = Posted /\ Running' = Running
    BY <1>2, <1>3, <1>4
  <2>2. QED
    BY <2>1 DEF Commitment!vars, Opened, Shut, Posted, Running
<1>5. ASSUME NEW a \in Attempts, MoneyMoves(a), \A b \in Attempts \ {a} : SameMoney(b)
      PROVE  Commitment!Next
  <2>1. \A b \in Attempts \ {a} :
            /\ b \in Opened' <=> b \in Opened
            /\ b \in Shut' <=> b \in Shut
            /\ b \in Posted' <=> b \in Posted
            /\ b \in Running' <=> b \in Running
    BY <1>2, <1>5
  <2>2. CASE /\ att[a].held = "none" /\ att'[a].held = "held"
             /\ net[a].posts = 0 /\ net'[a].posts = 0 /\ ~Live(a) /\ ~Live(a)'
             /\ \A b \in Attempts : att[b].held = "held" => JobOf(b) # JobOf(a)
    <3>1. /\ a \notin Opened \cup Shut \cup Posted
          /\ a \in Opened' /\ a \notin Shut' /\ a \notin Posted'
          /\ a \notin Running /\ a \notin Running'
      BY <1>1, <2>2 DEF Opened, Shut, Posted, Running
    <3>2. /\ Opened' = Opened \cup {a} /\ Shut' = Shut /\ Posted' = Posted
          /\ Running' = Running
      BY <1>3, <2>1, <3>1
    <3>3. \A b \in Opened : b[1] # a[1]
      BY <2>2 DEF Opened, JobOf
    <3>4. Commitment!Commit(a)
      BY <3>1, <3>2, <3>3 DEF Commitment!Commit, Opened, Shut, Posted, Running
    <3>5. QED
      BY <3>4 DEF Commitment!Next, Commitment!Attempts, Attempts
  <2>3. CASE /\ att[a].held = "held" /\ att'[a].held = "none"
             /\ net[a].posts = 0 /\ net'[a].posts = 0 /\ ~Live(a) /\ ~Live(a)'
    <3>1. /\ a \in Opened /\ a \notin Opened' /\ a \notin Shut /\ a \notin Shut'
          /\ a \notin Posted /\ a \notin Posted' /\ a \notin Running /\ a \notin Running'
      BY <1>1, <2>3 DEF Opened, Shut, Posted, Running
    <3>2. /\ Opened' = Opened \ {a} /\ Shut' = Shut /\ Posted' = Posted
          /\ Running' = Running
      BY <1>3, <2>1, <3>1
    <3>3. Commitment!Withdraw(a)
      BY <3>1, <3>2 DEF Commitment!Withdraw, Opened, Shut, Posted, Running
    <3>4. QED
      BY <3>3 DEF Commitment!Next, Commitment!Attempts, Attempts
  <2>4. CASE /\ att[a].held = "held" /\ att'[a].held = "held"
             /\ net[a].posts = 0 /\ net'[a].posts # 0 /\ Live(a)'
    <3>1. /\ a \in Opened /\ a \in Opened' /\ a \notin Shut /\ a \notin Shut'
          /\ a \notin Posted /\ a \in Posted' /\ a \in Running'
      BY <1>1, <2>4 DEF Opened, Shut, Posted, Running
    <3>2. /\ Opened' = Opened /\ Shut' = Shut /\ Posted' = Posted \cup {a}
          /\ Running' = Running \cup {a}
      BY <1>3, <2>1, <3>1
    <3>3. Commitment!Send(a)
      BY <3>1, <3>2 DEF Commitment!Send, Opened, Shut, Posted, Running
    <3>4. QED
      BY <3>3 DEF Commitment!Next, Commitment!Attempts, Attempts
  <2>5. CASE /\ att'[a].held = att[a].held /\ (net'[a].posts = 0 <=> net[a].posts = 0)
             /\ Live(a) /\ ~Live(a)'
    <3>1. /\ a \in Opened' <=> a \in Opened
          /\ a \in Shut' <=> a \in Shut
          /\ a \in Posted' <=> a \in Posted
          /\ a \in Running /\ a \notin Running'
      BY <1>1, <2>5 DEF Opened, Shut, Posted, Running
    <3>2. /\ Opened' = Opened /\ Shut' = Shut /\ Posted' = Posted
          /\ Running' = Running \ {a}
      BY <1>3, <2>1, <3>1
    <3>3. Commitment!End(a)
      BY <3>1, <3>2 DEF Commitment!End, Opened, Shut, Posted, Running
    <3>4. QED
      BY <3>3 DEF Commitment!Next, Commitment!Attempts, Attempts
  <2>6. CASE /\ att[a].held = "held" /\ att'[a].held = "released"
             /\ (net'[a].posts = 0 <=> net[a].posts = 0) /\ ~Live(a)'
    <3>1. /\ a \in Opened /\ a \notin Opened' /\ a \in Shut'
          /\ a \in Posted' <=> a \in Posted
          /\ a \notin Running'
      BY <1>1, <2>6 DEF Opened, Shut, Posted, Running
    <3>2. /\ Opened' = Opened \ {a} /\ Shut' = Shut \cup {a} /\ Posted' = Posted
          /\ Running' = Running \ {a}
      BY <1>3, <2>1, <3>1
    <3>3. Commitment!Close(a, TRUE) \/ Commitment!Close(a, FALSE)
      BY <3>1, <3>2 DEF Commitment!Close, Opened, Shut, Posted, Running
    <3>4. QED
      BY <3>3 DEF Commitment!Next, Commitment!Attempts, Attempts
  <2>7. QED
    BY <1>5, <2>2, <2>3, <2>4, <2>5, <2>6 DEF MoneyMoves
<1>6. QED
  BY <1>4, <1>5 DEF Keeps, MoneyStep

(* The pipeline keeps the promise of ProviderCommitment: an attempt is sent *)
(* at most once and only with its budget reserved, for one attempt of a job *)
(* at a time (reserve_attempt_budget, provider_post_started); the           *)
(* reservation is taken back only before the request, and released once,    *)
(* when Salad cannot be running the job or has refused it.                  *)
THEOREM CommitmentKept == UpgradeSpec => KeepsCommitment
<1>1. Init \/ HistoricalInit => Commitment!Init
  BY InitCInv, HistoricalCInv, CommitmentStart
<1>2. CInv /\ CInv' /\ [Next]_vars => [Commitment!Next]_Commitment!vars
  BY NextKeeps, CommitmentStep
<1>3. QED
  BY <1>1, <1>2, RowsAgree, PTL DEF UpgradeSpec, KeepsCommitment, Commitment!Spec
=============================================================================
