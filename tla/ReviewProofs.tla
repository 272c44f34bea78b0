---------------------------- MODULE ReviewProofs ----------------------------
(* The theorems about ReviewTasks, for any runs, masters, sessions and      *)
(* assessors: a release is approved as it was reviewed, its teasers are of  *)
(* the images chosen, and the rows keep their shape. And those about        *)
(* ReleaseRendering, for any outputs, revisions and controllers: a release  *)
(* is rendering while it waits for a job, and no longer.                    *)
EXTENDS ReviewTasks, ReleaseRendering, FiniteSetTheorems, TLAPS

-----------------------------------------------------------------------------
(* ReviewTasks: the inductive invariant.                                    *)

\* A run ranks finitely many masters, bounds are numbers, and nobody is not an
\* assessor.
Sized == /\ IsFiniteSet(Masters) /\ Unassigned \notin Assessors
         /\ MaxChoices \in Nat /\ MaxTries \in Nat /\ MaxVersion \in Nat \ {0}

Done(q) == task[q].state = "COMPLETED"

\* A page that still has the task's version shows what the task accepts.
PagesFit ==
    /\ \A q \in Runs : task[q].state # "none" <=> task[q].version >= 1
    /\ \A s \in Sessions : browser[s].at = "looking" =>
        /\ task[browser[s].run].state # "none"
        /\ browser[s].version <= task[browser[s].run].version
        /\ browser[s].version = task[browser[s].run].version =>
            browser[s].accepted = Accepted(browser[s].run)

\* One task is completed, and then the release is approved.
OneApproval ==
    /\ \A q, r \in Runs : Done(q) /\ Done(r) => q = r
    /\ phase = "APPROVED" <=> \E q \in Runs : Done(q)

\* What a completed task froze is still what it accepts and what its page
\* showed, and its assessments still admit it.
FrozenFits ==
    \A q \in Runs :
        IF Done(q) THEN /\ frozen[q] = signed[q] /\ frozen[q] = Accepted(q)
                        /\ Cardinality(frozen[q]) = task[q].target /\ frozen[q] # {}
                        /\ Gate(q)
                   ELSE frozen[q] = {}

TeasersFit ==
    /\ TeasersMatchChoices /\ chosen \in [Runs -> SUBSET Masters]
    /\ \A q \in Runs : ~Done(q) => teasers[q].active = {}

RInv == ReviewTypeOK /\ PagesFit /\ OneApproval /\ FrozenFits /\ TeasersFit

-----------------------------------------------------------------------------
(* Counting.                                                                *)

LEMMA MastersCounted ==
    ASSUME Sized
    PROVE  /\ Cardinality(Masters) \in Nat
           /\ \A S \in SUBSET Masters : /\ IsFiniteSet(S) /\ Cardinality(S) \in Nat
                                        /\ Cardinality(S) <= Cardinality(Masters)
                                        /\ Cardinality(S) = 0 <=> S = {}
<1>1. Cardinality(Masters) \in Nat
  BY FS_CardinalityType DEF Sized
<1>2. ASSUME NEW S \in SUBSET Masters
      PROVE  /\ IsFiniteSet(S) /\ Cardinality(S) \in Nat
             /\ Cardinality(S) <= Cardinality(Masters)
             /\ Cardinality(S) = 0 <=> S = {}
  <2>1. IsFiniteSet(S) /\ Cardinality(S) <= Cardinality(Masters)
    BY FS_Subset DEF Sized
  <2>2. QED
    BY <2>1, FS_CardinalityType, FS_EmptySet
<1>3. QED
  BY <1>1, <1>2

LEMMA InitRInv == ASSUME Sized, ReviewInit PROVE RInv
<1>1. Cardinality({}) = 0
  BY FS_EmptySet
<1>2. ReviewTypeOK
  BY <1>1, MastersCounted
  DEF ReviewInit, ReviewTypeOK, TaskRows, Decisions, AssessmentRows, Pages, Claims, Away, Sized
<1>3. PagesFit /\ OneApproval /\ FrozenFits /\ TeasersFit
  BY DEF ReviewInit, PagesFit, OneApproval, FrozenFits, TeasersFit, TeasersMatchChoices, Done,
         Away
<1>4. QED
  BY <1>2, <1>3 DEF RInv

-----------------------------------------------------------------------------
(* The assessments.                                                         *)

\* A result is final.
RowsForward ==
    /\ row' \in [Runs -> [Masters -> AssessmentRows]]
    /\ \A q \in Runs, m \in Masters :
        /\ (row'[q][m].state = "PROCESSING") = (row'[q][m].owner # Unassigned)
        /\ row[q][m].state \in Results => row'[q][m] = row[q][m]

LEMMA GateStays ==
    ASSUME RInv, RowsForward, NEW q \in Runs, Gate(q),
           decided'[q] = decided[q]
    PROVE  Gate(q)' /\ Accepted(q)' = Accepted(q)
<1>1. \A m \in Masters : row'[q][m] = row[q][m]
  BY DEF Gate, Terminal, RowsForward
<1>2. Accepted(q)' = Accepted(q)
  BY DEF Accepted
<1>3. Terminal(q)' /\ Severe(q)' = Severe(q)
  BY <1>1 DEF Gate, Terminal, Severe
<1>4. QED
  BY <1>2, <1>3 DEF Gate

LEMMA AssessmentStep ==
    ASSUME RInv, RowsForward, worker' \in [Assessors -> Claims], UNCHANGED Reviews
    PROVE  RInv'
<1>1. ReviewTypeOK'
  BY DEF RInv, ReviewTypeOK, RowsForward, Reviews, Tasks
<1>2. \A q \in Runs : Accepted(q)' = Accepted(q) /\ Done(q)' = Done(q)
  BY DEF Accepted, Done, Reviews, Tasks
<1>3. PagesFit' /\ OneApproval' /\ TeasersFit'
  <2>1. PagesFit'
    BY <1>2 DEF RInv, PagesFit, Reviews, Tasks, ReviewTypeOK, Pages, Away
  <2>2. OneApproval' /\ TeasersFit'
    BY <1>2 DEF RInv, OneApproval, TeasersFit, TeasersMatchChoices, Reviews, Tasks, Done
  <2>3. QED
    BY <2>1, <2>2
<1>4. FrozenFits'
  <2>1. \A q \in Runs : Done(q) => Gate(q)'
    BY GateStays DEF RInv, FrozenFits, Reviews, Tasks
  <2>2. QED
    BY <1>2, <2>1 DEF RInv, FrozenFits, Reviews, Tasks
<1>5. QED
  BY <1>1, <1>3, <1>4 DEF RInv

Puts(q, m, r) == row' = [row EXCEPT ![q][m] = r]

LEMMA RowTyped ==
    ASSUME RInv, NEW q \in Runs, NEW m \in Masters
    PROVE  /\ row[q][m] \in AssessmentRows
           /\ (row[q][m].state = "PROCESSING") = (row[q][m].owner # Unassigned)
BY DEF RInv, ReviewTypeOK

LEMMA OneRow ==
    ASSUME RInv, NEW q \in Runs, NEW m \in Masters, NEW r \in AssessmentRows, Puts(q, m, r),
           (r.state = "PROCESSING") = (r.owner # Unassigned),
           row[q][m].state \notin Results
    PROVE  RowsForward
BY DEF RInv, ReviewTypeOK, RowsForward, Puts

LEMMA EndedRow ==
    ASSUME NEW r \in AssessmentRows, NEW st \in Results \cup {"RETRY_WAIT"}
    PROVE  /\ Ended(r, st) \in AssessmentRows
           /\ Ended(r, st).state # "PROCESSING" /\ Ended(r, st).owner = Unassigned
BY DEF Ended, AssessmentRows, Results

LEMMA Assessed ==
    ASSUME Sized, RInv, NEW w \in Assessors, AssessorAt(w, "analyzing")
    PROVE  worker[w].run \in Runs /\ worker[w].master \in Masters
           /\ worker[w].attempt \in 1..MaxTries
BY DEF RInv, ReviewTypeOK, Claims, AssessorAt, Away

LEMMA RecordStep ==
    ASSUME Sized, RInv, NEW w \in Assessors, AssessorAt(w, "analyzing"), LockedAssessment(w),
           NEW st \in Results \cup {"RETRY_WAIT"}, Record(w, st)
    PROVE  RInv'
<1>1. /\ worker[w].run \in Runs /\ worker[w].master \in Masters
      /\ row[worker[w].run][worker[w].master].state = "PROCESSING"
  BY Assessed DEF LockedAssessment
<1>2. PICK r : r = Ended(row[worker[w].run][worker[w].master], st)
  OBVIOUS
<1>3. RowsForward
  <2>1. r \in AssessmentRows /\ r.state # "PROCESSING" /\ r.owner = Unassigned
    BY <1>1, <1>2, RowTyped, EndedRow
  <2>2. Puts(worker[w].run, worker[w].master, r)
    BY <1>1, <1>2 DEF Record, RInv, ReviewTypeOK, Puts
  <2>3. QED
    BY <1>1, <2>1, <2>2, OneRow DEF Results
<1>4. worker' \in [Assessors -> Claims] /\ UNCHANGED Reviews
  BY DEF Record, RInv, ReviewTypeOK, Claims
<1>5. QED
  BY <1>3, <1>4, AssessmentStep

LEMMA AssessorSteps ==
    ASSUME Sized, RInv, NEW w \in Assessors,
           \/ RecoverLease(w) \/ Ensure(w) \/ ClaimAssessment(w) \/ NothingDue(w)
           \/ CompleteAssessment(w) \/ FailAssessment(w) \/ LeaseLost(w) \/ AssessorDies(w)
    PROVE  RInv'
<1>1. CASE RecoverLease(w)
  <2>1. PICK q \in Runs, m \in Masters :
           /\ Exhausted(row[q][m])
           /\ Puts(q, m, Ended(row[q][m], "UNAVAILABLE"))
    BY <1>1 DEF RecoverLease, RInv, ReviewTypeOK, Puts
  <2>2. RowsForward
    <3>1. PICK r : r = Ended(row[q][m], "UNAVAILABLE")
      OBVIOUS
    <3>2. r \in AssessmentRows /\ r.state # "PROCESSING" /\ r.owner = Unassigned
      BY <3>1, RowTyped, EndedRow DEF Results
    <3>3. QED
      BY <2>1, <3>1, <3>2, OneRow DEF Exhausted, Results
  <2>3. worker' \in [Assessors -> Claims] /\ UNCHANGED Reviews
    BY <1>1 DEF RecoverLease, RInv, ReviewTypeOK
  <2>4. QED
    BY <2>2, <2>3, AssessmentStep
<1>2. CASE Ensure(w)
  <2>1. \A q \in Runs, m \in Masters :
            \/ row'[q][m] = row[q][m]
            \/ row[q][m].state = "none" /\ row'[q][m] = [row[q][m] EXCEPT !.state = "PENDING"]
    BY <1>2 DEF Ensure
  <2>2. ASSUME NEW q \in Runs, NEW m \in Masters
        PROVE  /\ row'[q][m] \in AssessmentRows
               /\ (row'[q][m].state = "PROCESSING") = (row'[q][m].owner # Unassigned)
               /\ row[q][m].state \in Results => row'[q][m] = row[q][m]
    <3>1. CASE row'[q][m] = row[q][m]
      BY <3>1, RowTyped
    <3>2. CASE /\ row[q][m].state = "none"
               /\ row'[q][m] = [row[q][m] EXCEPT !.state = "PENDING"]
      <4>1. [row[q][m] EXCEPT !.state = "PENDING"] \in AssessmentRows
        BY RowTyped DEF AssessmentRows
      <4>2. /\ [row[q][m] EXCEPT !.state = "PENDING"].state = "PENDING"
            /\ [row[q][m] EXCEPT !.state = "PENDING"].owner = row[q][m].owner
        BY RowTyped DEF AssessmentRows
      <4>3. row[q][m].owner = Unassigned /\ "none" \notin Results
        BY <3>2, RowTyped DEF Results
      <4>4. QED
        BY <3>2, <4>1, <4>2, <4>3
    <3>3. QED
      BY <2>1, <3>1, <3>2
  <2>3. RowsForward
    <3>1. row' \in [Runs -> [Masters -> AssessmentRows]]
      BY <1>2, <2>2 DEF Ensure
    <3>2. QED
      BY <2>2, <3>1 DEF RowsForward
  <2>4. worker' \in [Assessors -> Claims] /\ UNCHANGED Reviews
    BY <1>2 DEF Ensure, RInv, ReviewTypeOK, Claims
  <2>5. QED
    BY <2>3, <2>4, AssessmentStep
<1>3. CASE ClaimAssessment(w)
  <2>1. PICK q \in Runs, m \in Masters :
          /\ Due(row[q][m])
          /\ Puts(q, m, [state |-> "PROCESSING", attempt |-> row[q][m].attempt + 1,
                         owner |-> w, live |-> TRUE])
          /\ worker' = [worker EXCEPT ![w] =
                [at |-> "analyzing", run |-> q, master |-> m,
                 attempt |-> row[q][m].attempt + 1]]
    BY <1>3 DEF ClaimAssessment, Puts
  <2>2. row[q][m] \in AssessmentRows /\ row[q][m].attempt + 1 \in 1..MaxTries
        /\ row[q][m].state \notin Results
    BY <2>1, RowTyped DEF AssessmentRows, Due, Results, Sized
  <2>3. PICK r : r = [state |-> "PROCESSING", attempt |-> row[q][m].attempt + 1,
                         owner |-> w, live |-> TRUE]
    OBVIOUS
  <2>4. RowsForward
    <3>1. row[q][m].attempt + 1 \in 0..MaxTries
      BY <2>2
    <3>2. r \in AssessmentRows /\ r.state = "PROCESSING" /\ r.owner = w
      BY <2>3, <3>1 DEF AssessmentRows
    <3>3. QED
      BY <2>1, <2>2, <2>3, <3>2, OneRow DEF Sized
  <2>5. worker' \in [Assessors -> Claims] /\ UNCHANGED Reviews
    BY <1>3, <2>1, <2>2 DEF ClaimAssessment, RInv, ReviewTypeOK, Claims
  <2>6. QED
    BY <2>4, <2>5, AssessmentStep
<1>4. CASE CompleteAssessment(w)
  BY <1>4, RecordStep DEF CompleteAssessment, Results
<1>5. CASE FailAssessment(w)
  BY <1>5, RecordStep DEF FailAssessment, Results
<1>6. CASE NothingDue(w) \/ LeaseLost(w) \/ AssessorDies(w)
  <2>1. row' = row /\ worker' \in [Assessors -> Claims] /\ UNCHANGED Reviews
    BY <1>6 DEF NothingDue, LeaseLost, AssessorDies, RInv, ReviewTypeOK, Claims
  <2>2. RowsForward
    BY <2>1 DEF RowsForward, RInv, ReviewTypeOK
  <2>3. QED
    BY <2>1, <2>2, AssessmentStep
<1>7. QED
  BY <1>1, <1>2, <1>3, <1>4, <1>5, <1>6

LEMMA LeaseStep ==
    ASSUME Sized, RInv, NEW q \in Runs, NEW m \in Masters, AssessmentLeaseExpires(q, m)
    PROVE  RInv'
<1>1. PICK r : r = [row[q][m] EXCEPT !.live = FALSE]
  OBVIOUS
<1>2. r \in AssessmentRows /\ r.state = row[q][m].state /\ r.owner = row[q][m].owner
  BY <1>1, RowTyped DEF AssessmentRows
<1>3. Puts(q, m, r) /\ row[q][m].state = "PROCESSING"
  BY <1>1 DEF AssessmentLeaseExpires, RInv, ReviewTypeOK, Puts
<1>4. RowsForward
  BY <1>2, <1>3, RowTyped, OneRow DEF Results
<1>5. QED
  BY <1>4, AssessmentStep DEF AssessmentLeaseExpires, RInv, ReviewTypeOK

-----------------------------------------------------------------------------
(* Pages.                                                                   *)

\* A page that shows what the task has now.
Current(p) == p.at = "looking" => /\ task[p.run].state # "none"
                                  /\ p.version = task[p.run].version
                                  /\ p.accepted = Accepted(p.run)

ChosenTyped == /\ chosen \in [Runs -> SUBSET Masters]
               /\ \A q \in Runs : Cardinality(chosen[q]) <= MaxChoices

TeasersTyped == teasers \in [Runs -> [active : SUBSET Masters, pending : SUBSET Masters]]

\* Nothing of a task changes but its choices and teasers.
LEMMA PageStep ==
    ASSUME Sized, RInv, UNCHANGED <<Tasks, row, worker>>,
           browser' \in [Sessions -> Pages],
           \A s \in Sessions : browser'[s] = browser[s] \/ Current(browser'[s]),
           ChosenTyped', TeasersTyped', TeasersFit'
    PROVE  RInv'
<1>1. ReviewTypeOK'
  BY DEF RInv, ReviewTypeOK, Tasks, ChosenTyped, TeasersTyped
<1>2. \A q \in Runs : Accepted(q)' = Accepted(q) /\ Done(q)' = Done(q) /\ Gate(q)' = Gate(q)
  BY DEF Accepted, Done, Gate, Terminal, Severe, Tasks
<1>3. PagesFit'
  <2>1. ASSUME NEW s \in Sessions, browser'[s].at = "looking"
        PROVE  /\ task[browser'[s].run].state # "none" /\ browser'[s].run \in Runs
               /\ browser'[s].version <= task[browser'[s].run].version
               /\ browser'[s].version = task[browser'[s].run].version =>
                    browser'[s].accepted = Accepted(browser'[s].run)
    <3>1. browser'[s] \in Pages /\ browser'[s].run \in Runs /\ browser'[s].version \in Int
      BY <2>1 DEF Pages, Away, Sized
    <3>2. CASE browser'[s] = browser[s]
      BY <2>1, <3>1, <3>2 DEF RInv, PagesFit
    <3>3. CASE Current(browser'[s])
      BY <2>1, <3>1, <3>3 DEF Current
    <3>4. QED
      BY <3>2, <3>3
  <2>2. QED
    BY <1>2, <2>1 DEF RInv, PagesFit, Tasks
<1>4. OneApproval'
  BY <1>2 DEF RInv, OneApproval, Tasks
<1>5. FrozenFits'
  BY <1>2 DEF RInv, FrozenFits, Tasks
<1>6. QED
  BY <1>1, <1>3, <1>4, <1>5 DEF RInv

LEMMA ChosenFits ==
    ASSUME RInv
    PROVE  ChosenTyped /\ TeasersTyped
BY DEF RInv, ReviewTypeOK, TeasersFit, ChosenTyped, TeasersTyped

LEMMA SamePages ==
    ASSUME Sized, RInv, NEW s \in Sessions, Answered(s)
    PROVE  /\ browser' \in [Sessions -> Pages]
           /\ \A r \in Sessions : browser'[r] \in {browser[r], Away}
           /\ \A r \in Sessions : browser'[r] = browser[r] \/ Current(browser'[r])
BY DEF RInv, ReviewTypeOK, Answered, Pages, Current, Away

LEMMA LookStep ==
    ASSUME Sized, RInv, NEW s \in Sessions, NEW q \in Runs, Look(s, q)
    PROVE  RInv'
<1>1. PICK p : /\ p = [at |-> "looking", run |-> q, version |-> task[q].version,
                        accepted |-> Accepted(q)]
               /\ browser' = [browser EXCEPT ![s] = p]
  BY DEF Look
<1>2. task[q].version \in 1..MaxVersion /\ task[q].state # "none"
  BY DEF Look, RInv, ReviewTypeOK, TaskRows, PagesFit, Sized
<1>3. p \in Pages /\ Current(p)
  BY <1>1, <1>2 DEF Pages, Current, Accepted
<1>4. /\ browser' \in [Sessions -> Pages]
      /\ \A r \in Sessions : browser'[r] = browser[r] \/ Current(browser'[r])
  BY <1>1, <1>3 DEF RInv, ReviewTypeOK
<1>5. ChosenTyped' /\ TeasersTyped' /\ TeasersFit'
  BY ChosenFits
  DEF Look, ChosenTyped, TeasersTyped, RInv, TeasersFit, TeasersMatchChoices, Tasks, Done
<1>6. QED
  BY <1>4, <1>5, PageStep DEF Look

LEMMA LeaveStep ==
    ASSUME Sized, RInv, NEW s \in Sessions, Leave(s)
    PROVE  RInv'
<1>1. ChosenTyped' /\ TeasersTyped' /\ TeasersFit'
  BY ChosenFits
  DEF Leave, ChosenTyped, TeasersTyped, RInv, TeasersFit, TeasersMatchChoices, Tasks, Done
<1>2. QED
  BY <1>1, SamePages, PageStep DEF Leave

LEMMA ReadChoicesStep ==
    ASSUME Sized, RInv, NEW s \in Sessions, NEW q \in Runs, ReadChoices(s, q)
    PROVE  RInv'
<1>1. PICK p : /\ p = [at |-> "planning", run |-> q, members |-> chosen[q]]
               /\ browser' = [browser EXCEPT ![s] = p]
  BY DEF ReadChoices
<1>2. p \in Pages /\ Current(p)
  BY <1>1, ChosenFits DEF Pages, Current, ChosenTyped
<1>3. /\ browser' \in [Sessions -> Pages]
      /\ \A r \in Sessions : browser'[r] = browser[r] \/ Current(browser'[r])
  BY <1>1, <1>2 DEF RInv, ReviewTypeOK
<1>4. ChosenTyped' /\ TeasersTyped' /\ TeasersFit'
  BY ChosenFits
  DEF ReadChoices, ChosenTyped, TeasersTyped, RInv, TeasersFit, TeasersMatchChoices, Tasks, Done
<1>5. QED
  BY <1>3, <1>4, PageStep DEF ReadChoices

\* The choices of a task whose teasers are not prepared.
LEMMA ChoiceStep ==
    ASSUME Sized, RInv, NEW q \in Runs, NEW C \in SUBSET Masters,
           Cardinality(C) <= MaxChoices, chosen' = [chosen EXCEPT ![q] = C],
           Done(q) => C \subseteq frozen[q] /\ teasers[q] = [active |-> {}, pending |-> {}],
           UNCHANGED <<teasers, frozen>>, \A r \in Runs : Done(r)' = Done(r)
    PROVE  ChosenTyped' /\ TeasersTyped' /\ TeasersFit'
<1>1. ChosenTyped' /\ TeasersTyped'
  BY ChosenFits DEF ChosenTyped, TeasersTyped
<1>2. teasers[q].active = {} /\ teasers[q].pending = {}
  BY DEF RInv, TeasersFit, TeasersMatchChoices, Done
<1>3. /\ chosen'[q] = C /\ \A r \in Runs \ {q} : chosen'[r] = chosen[r]
  BY DEF RInv, TeasersFit
<1>4. TeasersMatchChoices'
  BY <1>2, <1>3 DEF RInv, TeasersFit, TeasersMatchChoices, Done
<1>5. QED
  BY <1>1, <1>4 DEF RInv, TeasersFit, ChosenTyped

LEMMA ChooseStep ==
    ASSUME Sized, RInv, NEW s \in Sessions, NEW m \in Masters, Choose(s, m)
    PROVE  RInv'
<1> DEFINE q == Form(s).run
<1>1. q \in Runs
  BY DEF Choose, Fresh, Form, RInv, ReviewTypeOK, Pages, Away
<1>2. chosen[q] \in SUBSET Masters /\ Cardinality(chosen[q]) <= MaxChoices
  BY <1>1, ChosenFits DEF ChosenTyped
<1>3. PICK C \in SUBSET Masters :
         /\ chosen' = [chosen EXCEPT ![q] = C] /\ Cardinality(C) <= MaxChoices
         /\ C \subseteq chosen[q] \cup {m}
  <2>1. CASE m \in chosen[q]
    <3>1. chosen' = [chosen EXCEPT ![q] = chosen[q] \ {m}]
      BY <2>1 DEF Choose
    <3>2. Cardinality(chosen[q] \ {m}) <= Cardinality(chosen[q])
      BY <1>2, MastersCounted, FS_Subset
    <3>3. Cardinality(chosen[q] \ {m}) \in Nat /\ Cardinality(chosen[q]) \in Nat
      BY <1>2, MastersCounted
    <3>4. Cardinality(chosen[q] \ {m}) <= MaxChoices
      BY <1>2, <3>2, <3>3 DEF Sized
    <3>5. QED
      BY <1>2, <3>1, <3>4
  <2>2. CASE m \notin chosen[q]
    <3>1. chosen' = [chosen EXCEPT ![q] = chosen[q] \cup {m}] /\ Cardinality(chosen[q]) < MaxChoices
      BY <2>2 DEF Choose
    <3>2. IsFiniteSet(chosen[q]) /\ Cardinality(chosen[q]) \in Nat
      BY <1>2, MastersCounted
    <3>3. Cardinality(chosen[q] \cup {m}) = Cardinality(chosen[q]) + 1
      BY <2>2, <3>2, FS_AddElement
    <3>4. Cardinality(chosen[q] \cup {m}) <= MaxChoices
      BY <3>1, <3>2, <3>3 DEF Sized
    <3>5. QED
      BY <1>2, <3>1, <3>4
  <2>3. QED
    BY <2>1, <2>2
<1>4. Done(q) => m \in frozen[q] /\ teasers[q] = [active |-> {}, pending |-> {}]
  BY DEF Choose, Editable, Done
<1>5. Done(q) => C \subseteq frozen[q]
  BY <1>1, <1>3, <1>4 DEF RInv, TeasersFit, TeasersMatchChoices, Done
<1>6. UNCHANGED <<teasers, frozen>> /\ \A r \in Runs : Done(r)' = Done(r)
  BY DEF Choose, Tasks, Done
<1> HIDE DEF q
<1>7. ChosenTyped' /\ TeasersTyped' /\ TeasersFit'
  BY <1>1, <1>3, <1>4, <1>5, <1>6, ChoiceStep
<1>8. QED
  BY <1>7, SamePages, PageStep DEF Choose

-----------------------------------------------------------------------------
(* Teasers.                                                                 *)

\* A revision of the images chosen, or none.
Revises(q, active, pending) ==
    /\ teasers' = [teasers EXCEPT ![q] = [active |-> active, pending |-> pending]]
    /\ {active, pending} \subseteq {{}, chosen[q]}

LEMMA RevisionStep ==
    ASSUME Sized, RInv, NEW q \in Runs, NEW A, NEW P, Revises(q, A, P),
           ~Done(q) => A = {} /\ P = {},
           UNCHANGED <<chosen, frozen, task>>
    PROVE  ChosenTyped' /\ TeasersTyped' /\ TeasersFit'
<1>1. A \in SUBSET Masters /\ P \in SUBSET Masters
  BY ChosenFits DEF Revises, ChosenTyped
<1>2. ChosenTyped' /\ TeasersTyped'
  BY <1>1, ChosenFits DEF ChosenTyped, TeasersTyped, Revises
<1>3. /\ teasers'[q].active = A /\ teasers'[q].pending = P
      /\ \A r \in Runs \ {q} : teasers'[r] = teasers[r]
  BY ChosenFits DEF TeasersTyped, Revises
<1>4. TeasersMatchChoices'
  BY <1>3 DEF RInv, TeasersFit, TeasersMatchChoices, Revises, Done
<1>5. \A r \in Runs : ~Done(r)' => teasers'[r].active = {}
  BY <1>3 DEF RInv, TeasersFit, Done
<1>6. QED
  BY <1>2, <1>4, <1>5 DEF RInv, TeasersFit, ChosenTyped

LEMMA PrepareStep ==
    ASSUME Sized, RInv, NEW s \in Sessions, Prepare(s)
    PROVE  RInv'
<1> DEFINE q == Form(s).run
<1>1. q \in Runs /\ Done(q) /\ Form(s).members = chosen[q]
  <2>1. q \in Runs /\ Done(q) /\ Form(s).members = chosen[q] \cap frozen[q]
    BY DEF Prepare, Covers, Form, Done, RInv, ReviewTypeOK, Pages, Away
  <2>2. chosen[q] \subseteq frozen[q]
    BY <2>1 DEF RInv, TeasersFit, TeasersMatchChoices, Done
  <2>3. QED
    BY <2>1, <2>2
<1>2. teasers' = [teasers EXCEPT ![q] = [active |-> teasers[q].active, pending |-> chosen[q]]]
  <2>1. teasers' = [teasers EXCEPT ![q].pending = chosen[q]]
    BY <1>1 DEF Prepare
  <2>2. [teasers[q] EXCEPT !.pending = chosen[q]] =
            [active |-> teasers[q].active, pending |-> chosen[q]]
    BY <1>1, ChosenFits DEF TeasersTyped
  <2>3. QED
    BY <2>1, <2>2
<1>3. Revises(q, teasers[q].active, chosen[q])
  BY <1>1, <1>2 DEF Revises, RInv, TeasersFit, TeasersMatchChoices
<1> HIDE DEF q
<1>4. ChosenTyped' /\ TeasersTyped' /\ TeasersFit'
  BY <1>1, <1>3, RevisionStep DEF Prepare, Tasks
<1>5. QED
  BY <1>4, SamePages, PageStep DEF Prepare

LEMMA RenderedStep ==
    ASSUME Sized, RInv, NEW q \in Runs, Activate(q) \/ Discard(q)
    PROVE  RInv'
<1>1. /\ Done(q) /\ teasers[q].pending = chosen[q]
      /\ teasers[q].active \in {{}, chosen[q]}
  BY DEF Activate, Discard, RInv, TeasersFit, TeasersMatchChoices, Done
<1>2. PICK A \in {{}, chosen[q]} : Revises(q, A, {})
  <2>1. CASE Activate(q)
    BY <1>1, <2>1 DEF Activate, Revises
  <2>2. CASE Discard(q)
    <3>1. teasers' = [teasers EXCEPT ![q] = [teasers[q] EXCEPT !.pending = {}]]
      BY <2>2 DEF Discard
    <3>2. [teasers[q] EXCEPT !.pending = {}] = [active |-> teasers[q].active, pending |-> {}]
      BY ChosenFits DEF TeasersTyped
    <3>3. QED
      BY <1>1, <3>1, <3>2 DEF Revises
  <2>3. QED
    BY <2>1, <2>2
<1>3. ChosenTyped' /\ TeasersTyped' /\ TeasersFit'
  BY <1>1, <1>2, RevisionStep DEF Activate, Discard, Tasks
<1>4. browser' = browser /\ browser \in [Sessions -> Pages]
  BY DEF Activate, Discard, RInv, ReviewTypeOK
<1>5. QED
  BY <1>3, <1>4, PageStep DEF Activate, Discard

-----------------------------------------------------------------------------
(* Commands.                                                                *)

Becomes(q, t) == task' = [task EXCEPT ![q] = t]

\* The version of one task moves on; its pages are stale.
LEMMA PagesPassed ==
    ASSUME Sized, RInv, NEW q \in Runs, NEW t \in TaskRows, t.state # "none",
           t.version > task[q].version,
           task'[q] = t, \A r \in Runs \ {q} : task'[r] = task[r],
           browser' \in [Sessions -> Pages],
           \A s \in Sessions : browser'[s] \in {browser[s], Away},
           \A r \in Runs \ {q} : Accepted(r)' = Accepted(r)
    PROVE  PagesFit'
<1>1. ASSUME NEW s \in Sessions, browser'[s].at = "looking",
             NEW r \in Runs, browser'[s].run = r
      PROVE  /\ task'[r].state # "none" /\ browser'[s].version <= task'[r].version
             /\ browser'[s].version = task'[r].version =>
                  browser'[s].accepted = Accepted(r)'
  <2>1. browser'[s] = browser[s]
    BY <1>1 DEF Away
  <2>2. /\ task[r].state # "none" /\ browser[s].version <= task[r].version
        /\ browser[s].version = task[r].version => browser[s].accepted = Accepted(r)
    BY <1>1, <2>1 DEF RInv, PagesFit
  <2>3. CASE r = q
    <3>1. browser[s].version \in Int
      <4>1. browser[s] \in Pages /\ browser[s].at = "looking"
        BY <1>1, <2>1 DEF RInv, ReviewTypeOK
      <4>2. QED
        BY <4>1 DEF Pages, Away
    <3>2. task[q].version \in Int /\ t.version \in Int
      BY DEF RInv, ReviewTypeOK, TaskRows
    <3>3. browser[s].version < t.version
      BY <2>2, <2>3, <3>1, <3>2
    <3>4. QED
      BY <2>1, <2>3, <3>1, <3>2, <3>3
  <2>4. CASE r # q
    BY <2>1, <2>2, <2>4
  <2>5. QED
    BY <2>3, <2>4
<1>2. \A r \in Runs : task'[r].state # "none" <=> task'[r].version >= 1
  <2>1. t.version \in Nat /\ task[q].version \in Nat
    BY DEF RInv, ReviewTypeOK, TaskRows, Sized
  <2>2. t.version >= 1
    BY <2>1
  <2>3. QED
    BY <2>2 DEF RInv, PagesFit
<1>3. \A s \in Sessions : browser'[s].at = "looking" => browser'[s].run \in Runs
  BY DEF Pages, Away
<1>4. QED
  BY <1>1, <1>2, <1>3 DEF PagesFit

\* A command that is not the completion: the version moves on, so that no page
\* shows the task any more.
LEMMA CommandStep ==
    ASSUME Sized, RInv, NEW q \in Runs, task[q].state \in {"none", "OPEN"},
           NEW t \in TaskRows, t.state \in {"OPEN", "CANCELLED"},
           t.version > task[q].version, Becomes(q, t),
           browser' \in [Sessions -> Pages],
           \A s \in Sessions : browser'[s] \in {browser[s], Away},
           desired' \in 1..Cardinality(Masters),
           decided' \in [Runs -> [Masters -> Decisions]],
           \A r \in Runs \ {q} : decided'[r] = decided[r],
           ChosenTyped', \A r \in Runs \ {q} : chosen'[r] = chosen[r],
           UNCHANGED <<phase, frozen, teasers, row, worker, signed>>
    PROVE  RInv'
<1>1. /\ task'[q] = t /\ \A r \in Runs \ {q} : task'[r] = task[r]
      /\ task' \in [Runs -> TaskRows]
  BY DEF RInv, ReviewTypeOK, Becomes
<1>2. ReviewTypeOK'
  BY <1>1 DEF RInv, ReviewTypeOK, ChosenTyped
<1>3. \A r \in Runs : Done(r)' = Done(r)
  BY <1>1 DEF Done
<1>4. \A r \in Runs \ {q} : Accepted(r)' = Accepted(r) /\ Gate(r)' = Gate(r)
  BY DEF Accepted, Gate, Terminal, Severe
<1>5. PagesFit'
  BY <1>1, <1>4, PagesPassed
<1>6. OneApproval'
  BY <1>3 DEF RInv, OneApproval
<1>7. FrozenFits'
  <2>1. ~Done(q)
    BY DEF Done
  <2>2. QED
    BY <1>1, <1>3, <1>4, <2>1 DEF RInv, FrozenFits
<1>8. TeasersFit'
  <2>1. teasers[q].active = {} /\ teasers[q].pending = {} /\ ~Done(q)
    BY DEF RInv, TeasersFit, TeasersMatchChoices, Done
  <2>2. QED
    BY <1>3, <2>1 DEF RInv, TeasersFit, TeasersMatchChoices, ChosenTyped, Done
<1>9. QED
  BY <1>2, <1>5, <1>6, <1>7, <1>8 DEF RInv

LEMMA Shown ==
    ASSUME Sized, RInv, NEW s \in Sessions, Claimable(s)
    PROVE  /\ Form(s).run \in Runs /\ task[Form(s).run] \in TaskRows
           /\ task[Form(s).run].state = "OPEN"
           /\ task[Form(s).run].version + 1 \in 1..MaxVersion
           /\ Form(s).accepted = Accepted(Form(s).run)
           /\ Form(s).version = task[Form(s).run].version
<1>1. browser[s] \in Pages /\ browser[s].at = "looking"
  BY DEF Claimable, Fresh, Form, RInv, ReviewTypeOK
<1>2. browser[s].run \in Runs /\ browser[s].version \in 1..MaxVersion
  BY <1>1 DEF Pages, Away
<1>3. QED
  BY <1>1, <1>2 DEF Claimable, Fresh, Form, RInv, ReviewTypeOK, PagesFit, Sized

\* An open task whose version moves on.
LEMMA BumpedIs ==
    ASSUME Sized, NEW x \in TaskRows, x.state = "OPEN", x.version + 1 \in 1..MaxVersion,
           NEW t, t = [x EXCEPT !.version = @ + 1]
    PROVE  t \in TaskRows /\ t.state = "OPEN" /\ t.version > x.version
           /\ t.version = x.version + 1
<1>1. x.version + 1 \in 0..MaxVersion /\ x.version \in Int
  BY DEF TaskRows
<1>2. QED
  BY <1>1 DEF TaskRows

LEMMA CreateStep ==
    ASSUME Sized, RInv, NEW q \in Runs, CreateTask(q)
    PROVE  RInv'
<1>1. PICK t : /\ t = [state |-> "OPEN", version |-> 1, target |-> desired]
               /\ Becomes(q, t)
  BY DEF CreateTask, Becomes
<1>2. t \in TaskRows /\ task[q].state = "none" /\ task[q].version < t.version
  <2>1. task[q].version \in Int /\ task[q].version < 1 /\ task[q].state = "none"
    BY DEF CreateTask, RInv, ReviewTypeOK, TaskRows, PagesFit
  <2>2. 1 \in 0..MaxVersion /\ desired \in 0..Cardinality(Masters)
    BY DEF RInv, ReviewTypeOK, Sized
  <2>3. QED
    BY <1>1, <2>1, <2>2 DEF TaskRows
<1>3. decided' \in [Runs -> [Masters -> Decisions]]
      /\ \A r \in Runs \ {q} : decided'[r] = decided[r]
  BY DEF CreateTask, RInv, ReviewTypeOK, Decisions
<1>4. /\ ChosenTyped' /\ chosen' = chosen /\ browser' = browser
      /\ browser \in [Sessions -> Pages] /\ desired' \in 1..Cardinality(Masters)
  BY ChosenFits DEF CreateTask, ChosenTyped, RInv, ReviewTypeOK
<1>5. QED
  BY <1>1, <1>2, <1>3, <1>4, CommandStep DEF CreateTask

LEMMA DecideStep ==
    ASSUME Sized, RInv, NEW s \in Sessions, NEW M \in SUBSET Masters,
           NEW d \in Decisions \ {"none"}, Decide(s, M, d)
    PROVE  RInv'
<1>q. PICK q \in Runs : q = Form(s).run
  BY Shown DEF Decide
<1>1. PICK t : /\ t = Bumped(q)
              /\ Becomes(q, t)
  BY <1>q DEF Decide, Becomes
<1>2. /\ task[q] \in TaskRows /\ task[q].state = "OPEN"
      /\ t \in TaskRows /\ t.state = "OPEN" /\ t.version > task[q].version
  BY <1>q, <1>1, Shown, BumpedIs DEF Decide, Bumped
<1>3. decided' \in [Runs -> [Masters -> Decisions]]
      /\ \A r \in Runs \ {q} : decided'[r] = decided[r]
  <2>1. \A m \in Masters : decided[q][m] \in Decisions /\ RecordsAs(q, m, d) \in Decisions
    BY DEF RInv, ReviewTypeOK, RecordsAs, Decisions
  <2>2. decided' = [decided EXCEPT ![q] = [m \in Masters |->
                        IF m \in M THEN RecordsAs(q, m, d) ELSE decided[q][m]]]
    BY <1>q, <1>1 DEF Decide
  <2>3. QED
    BY <2>1, <2>2 DEF RInv, ReviewTypeOK
<1>4. /\ ChosenTyped' /\ chosen' = chosen /\ desired' \in 1..Cardinality(Masters)
  BY ChosenFits DEF Decide, ChosenTyped, RInv, ReviewTypeOK
<1>5. QED
  BY <1>q, <1>1, <1>2, <1>3, <1>4, SamePages, CommandStep DEF Decide

LEMMA BulkChooseStep ==
    ASSUME Sized, RInv, NEW s \in Sessions, NEW M \in SUBSET Masters,
           NEW add \in BOOLEAN, BulkChoose(s, M, add)
    PROVE  RInv'
<1>q. PICK q \in Runs : q = Form(s).run
  BY Shown DEF BulkChoose
<1>1. PICK t : /\ t = Bumped(q)
              /\ Becomes(q, t)
  BY <1>q DEF BulkChoose, Becomes
<1>2. /\ task[q] \in TaskRows /\ task[q].state = "OPEN"
      /\ t \in TaskRows /\ t.state = "OPEN" /\ t.version > task[q].version
  BY <1>q, <1>1, Shown, BumpedIs DEF BulkChoose, Bumped
<1>3. PICK C : /\ C = IF add THEN chosen[q] \cup M ELSE chosen[q] \ M
               /\ chosen' = [chosen EXCEPT ![q] = C]
               /\ Cardinality(chosen'[q]) <= MaxChoices
  BY <1>q, <1>1 DEF BulkChoose
<1>4. C \in SUBSET Masters
  BY <1>3, ChosenFits DEF ChosenTyped
<1>5. ChosenTyped' /\ \A r \in Runs \ {q} : chosen'[r] = chosen[r]
  BY <1>3, <1>4, ChosenFits DEF ChosenTyped
<1>6. desired' \in 1..Cardinality(Masters) /\ decided' = decided
      /\ decided' \in [Runs -> [Masters -> Decisions]]
  BY DEF BulkChoose, RInv, ReviewTypeOK
<1>7. QED
  BY <1>q, <1>1, <1>2, <1>5, <1>6, SamePages, CommandStep DEF BulkChoose

LEMMA ExpandStep ==
    ASSUME Sized, RInv, NEW s \in Sessions, Expand(s)
    PROVE  RInv'
<1>q. PICK q \in Runs : q = Form(s).run
  BY Shown DEF Expand
<1>1. PICK x, t : /\ x = Bumped(q)
                 /\ t = [x EXCEPT !.target = Cardinality(Masters)]
                 /\ Becomes(q, t)
  BY <1>q DEF Expand, Becomes
<1>2. /\ task[q] \in TaskRows /\ task[q].state = "OPEN"
      /\ x \in TaskRows /\ x.state = "OPEN" /\ x.version > task[q].version
  BY <1>q, <1>1, Shown, BumpedIs DEF Expand, Bumped
<1>3. Cardinality(Masters) \in 0..Cardinality(Masters)
  BY MastersCounted
<1>4. t \in TaskRows /\ t.state = "OPEN" /\ t.version > task[q].version
  BY <1>q, <1>1, <1>2, <1>3 DEF TaskRows
<1>5. desired' \in 1..Cardinality(Masters)
  BY MastersCounted DEF Expand, RInv, ReviewTypeOK
<1>6. /\ ChosenTyped' /\ chosen' = chosen /\ decided' = decided
      /\ decided' \in [Runs -> [Masters -> Decisions]]
  BY ChosenFits DEF Expand, ChosenTyped, RInv, ReviewTypeOK
<1>7. QED
  BY <1>q, <1>1, <1>2, <1>4, <1>5, <1>6, SamePages, CommandStep DEF Expand

LEMMA CancelStep ==
    ASSUME Sized, RInv, NEW s \in Sessions, CancelTask(s)
    PROVE  RInv'
<1>q. PICK q \in Runs : q = Form(s).run
  BY Shown DEF CancelTask
<1>1. PICK x, t : /\ x = Bumped(q)
                 /\ t = [x EXCEPT !.state = "CANCELLED"]
                 /\ Becomes(q, t)
  BY <1>q DEF CancelTask, Becomes
<1>2. /\ task[q] \in TaskRows /\ task[q].state = "OPEN"
      /\ x \in TaskRows /\ x.state = "OPEN" /\ x.version > task[q].version
  BY <1>q, <1>1, Shown, BumpedIs DEF CancelTask, Bumped
<1>3. t \in TaskRows /\ t.state = "CANCELLED" /\ t.version > task[q].version
  BY <1>q, <1>1, <1>2 DEF TaskRows
<1>4. /\ ChosenTyped' /\ chosen' = chosen /\ decided' = decided
      /\ decided' \in [Runs -> [Masters -> Decisions]]
      /\ desired' \in 1..Cardinality(Masters)
  BY ChosenFits DEF CancelTask, ChosenTyped, RInv, ReviewTypeOK
<1>5. QED
  BY <1>q, <1>1, <1>2, <1>3, <1>4, SamePages, CommandStep DEF CancelTask

\* The completion freezes what the page showed.
LEMMA CompleteStep ==
    ASSUME Sized, RInv, NEW s \in Sessions, Complete(s)
    PROVE  RInv'
<1>q. PICK q \in Runs : q = Form(s).run
  BY Shown DEF Complete
<1>2. /\ task[q] \in TaskRows /\ task[q].state = "OPEN"
      /\ task[q].version + 1 \in 1..MaxVersion /\ task[q].version \in Int
      /\ Form(s).accepted = Accepted(q) /\ Form(s).version = task[q].version
  BY <1>q, Shown DEF Complete, TaskRows
<1>1. PICK t : /\ t = [state |-> "COMPLETED", version |-> task[q].version + 1,
                     target |-> Cardinality(Accepted(q))]
              /\ Becomes(q, t)
  BY <1>q, <1>2 DEF Complete, Becomes
<1>3. Accepted(q) \in SUBSET Masters /\ Cardinality(Accepted(q)) \in 0..Cardinality(Masters)
      /\ Accepted(q) # {}
  <2>1. Accepted(q) \in SUBSET Masters
    BY DEF Accepted
  <2>2. Cardinality(Accepted(q)) \in 1..task[q].target
    BY <1>q, <1>1 DEF Complete
  <2>3. QED
    BY <2>1, <2>2, MastersCounted
<1>4. t \in TaskRows /\ t.state = "COMPLETED" /\ t.version = task[q].version + 1
      /\ t.target = Cardinality(Accepted(q))
  BY <1>q, <1>1, <1>2, <1>3 DEF TaskRows
<1>5. /\ task'[q] = t /\ \A r \in Runs \ {q} : task'[r] = task[r]
      /\ task' \in [Runs -> TaskRows]
  BY <1>q, <1>1, <1>4 DEF RInv, ReviewTypeOK, Becomes
<1>6. /\ frozen' = [frozen EXCEPT ![q] = Accepted(q)]
      /\ signed' = [signed EXCEPT ![q] = Accepted(q)]
      /\ phase = "REVIEWING" /\ phase' = "APPROVED" /\ chosen[q] \subseteq Accepted(q)
      /\ Gate(q) /\ UNCHANGED <<desired, decided, chosen, teasers, row, worker>>
      /\ Answered(s)
  BY <1>q, <1>1, <1>2 DEF Complete, Freeze
<1>7. ReviewTypeOK'
  BY <1>3, <1>5, <1>6, SamePages DEF RInv, ReviewTypeOK
<1>8. \A r \in Runs : Accepted(r)' = Accepted(r) /\ Gate(r)' = Gate(r)
  BY <1>6 DEF Accepted, Gate, Terminal, Severe
<1>9. Done(q)' /\ \A r \in Runs \ {q} : ~Done(r) /\ ~Done(r)'
  BY <1>4, <1>5, <1>6 DEF Done, RInv, OneApproval
<1>10. PagesFit'
  BY <1>2, <1>4, <1>5, <1>6, <1>8, SamePages, PagesPassed
<1>11. OneApproval'
  BY <1>6, <1>9 DEF OneApproval
<1>12. FrozenFits'
  <2>1. /\ frozen'[q] = Accepted(q) /\ signed'[q] = Accepted(q)
        /\ \A r \in Runs \ {q} : frozen'[r] = frozen[r]
    BY <1>6 DEF RInv, ReviewTypeOK
  <2>2. QED
    BY <1>3, <1>4, <1>5, <1>6, <1>8, <1>9, <2>1 DEF RInv, FrozenFits
<1>13. TeasersFit'
  <2>1. frozen'[q] = Accepted(q)
    BY <1>6 DEF RInv, ReviewTypeOK
  <2>2. teasers[q].active = {} /\ teasers[q].pending = {}
    BY <1>2 DEF RInv, TeasersFit, TeasersMatchChoices, Done
  <2>3. QED
    BY <1>5, <1>6, <1>9, <2>1, <2>2 DEF RInv, TeasersFit, TeasersMatchChoices, Done
<1>14. QED
  BY <1>7, <1>10, <1>11, <1>12, <1>13 DEF RInv

-----------------------------------------------------------------------------
(* The theorems.                                                            *)

LEMMA NextRInv == ASSUME Sized, RInv, [ReviewNext]_reviewVars PROVE RInv'
<1>1. CASE UNCHANGED reviewVars
  <2>1. UNCHANGED Reviews /\ worker' \in [Assessors -> Claims]
    BY <1>1 DEF reviewVars, Reviews, Tasks, RInv, ReviewTypeOK
  <2>2. RowsForward
    BY <1>1 DEF reviewVars, RowsForward, RInv, ReviewTypeOK
  <2>3. QED
    BY <2>1, <2>2, AssessmentStep
<1>2. ASSUME NEW q \in Runs, CreateTask(q) \/ Activate(q) \/ Discard(q) PROVE RInv'
  BY <1>2, CreateStep, RenderedStep
<1>3. ASSUME NEW q \in Runs, NEW m \in Masters, AssessmentLeaseExpires(q, m) PROVE RInv'
  BY <1>3, LeaseStep
<1>4. ASSUME NEW q \in Runs, NEW s \in Sessions, Look(s, q) \/ ReadChoices(s, q) PROVE RInv'
  BY <1>4, LookStep, ReadChoicesStep
<1>5. ASSUME NEW s \in Sessions, NEW M \in SUBSET Masters \ {{}},
             \/ \E d \in Decisions \ {"none"} : Decide(s, M, d)
             \/ \E add \in BOOLEAN : BulkChoose(s, M, add)
      PROVE  RInv'
  BY <1>5, DecideStep, BulkChooseStep
<1>6. ASSUME NEW s \in Sessions,
             \/ \E m \in Masters : Choose(s, m)
             \/ Expand(s) \/ Complete(s) \/ CancelTask(s) \/ Prepare(s) \/ Leave(s)
      PROVE  RInv'
  BY <1>6, ChooseStep, ExpandStep, CompleteStep, CancelStep, PrepareStep, LeaveStep
<1>7. ASSUME NEW w \in Assessors,
             \/ RecoverLease(w) \/ Ensure(w) \/ ClaimAssessment(w) \/ NothingDue(w)
             \/ CompleteAssessment(w) \/ FailAssessment(w) \/ LeaseLost(w) \/ AssessorDies(w)
      PROVE  RInv'
  BY <1>7, AssessorSteps
<1>8. QED
  BY <1>1, <1>2, <1>3, <1>4, <1>5, <1>6, <1>7 DEF ReviewNext

\* What one session sees and signs, what is frozen, the approval and the teasers
\* agree in every reachable state.
THEOREM ReviewsAgree == ASSUME Sized PROVE ReviewSpec => []RInv
<1>1. ReviewInit => RInv
  BY InitRInv
<1>2. RInv /\ [ReviewNext]_reviewVars => RInv'
  BY NextRInv
<1>3. QED
  BY <1>1, <1>2, PTL DEF ReviewSpec

\* The rows of tasks, decisions, selections and assessments keep their shape.
THEOREM Typing == ASSUME Sized PROVE ReviewSpec => []ReviewTypeOK
<1>1. RInv => ReviewTypeOK
  BY DEF RInv
<1>2. QED
  BY <1>1, ReviewsAgree, PTL

\* A release is approved by one review, as its reviewer saw it.
THEOREM ApprovalHolds == ASSUME Sized PROVE ReviewSpec => []ApprovedAsReviewed
<1>1. ASSUME RInv PROVE ApprovedAsReviewed
  <2> DEFINE completed == {q \in Runs : task[q].state = "COMPLETED"}
  <2>1. Cardinality(completed) = (IF phase = "APPROVED" THEN 1 ELSE 0)
    <3>1. CASE phase = "APPROVED"
      <4>1. PICK q \in Runs : Done(q)
        BY <1>1, <3>1 DEF RInv, OneApproval
      <4>2. completed = {q}
        BY <1>1, <4>1 DEF RInv, OneApproval, Done
      <4>3. QED
        BY <3>1, <4>2, FS_Singleton
    <3>2. CASE phase # "APPROVED"
      <4>1. completed = {}
        BY <1>1, <3>2 DEF RInv, OneApproval, Done
      <4>2. QED
        BY <3>2, <4>1, FS_EmptySet
    <3>3. QED
      BY <3>1, <3>2
  <2>2. QED
    BY <1>1, <2>1 DEF RInv, FrozenFits, ApprovedAsReviewed, Done
<1>2. QED
  BY <1>1, ReviewsAgree, PTL

\* The teasers that may be posted are of the images chosen, and of frozen ones.
THEOREM TeasersAreChosen == ASSUME Sized PROVE ReviewSpec => []TeasersMatchChoices
<1>1. RInv => TeasersMatchChoices
  BY DEF RInv, TeasersFit
<1>2. QED
  BY <1>1, ReviewsAgree, PTL

-----------------------------------------------------------------------------
(* ReleaseRendering: the inductive invariant. Only the first revision of a  *)
(* release gates it.                                                        *)

PcRows == [at : {"idle"}] \cup [at : {"start", "render"}, job : Jobs]
            \cup [at : {"broken"}, job : Jobs, terminal : BOOLEAN]

\* A completed review has accepted an image (review.py:1187), and a new job may be
\* tried; bounds are numbers.
RenderingBounds ==
    /\ Full # {}
    /\ MaxRevision \in Nat /\ MaxAttempts \in Nat \ {0} /\ MaxTotal \in Nat
    /\ MaxAttempts <= MaxTotal

\* Full-size jobs gate. A revision that would replace the active one does not:
\* the release was ready before, and is not taken back.
GatesFit ==
    /\ \A f \in FullJobs : job[f].gates
    /\ head.active # None /\ head.pending # None =>
         \A j \in TeaserJobs(head.pending) : ~job[j].gates

GInv == /\ TypeOK /\ pc \in [Workers -> PcRows] /\ GatesFit
        /\ RenderingIsExact /\ PostedTeasersAreActive

-----------------------------------------------------------------------------
(* The jobs that a release waits for.                                       *)

LEMMA JobKinds ==
  ASSUME RenderingBounds
  PROVE
    /\ FullJobs \subseteq Jobs /\ FullJobs # {}
    /\ \A f \in FullJobs : RevisionOf(f) = None
    /\ \A r \in Revisions : TeaserJobs(r) \subseteq Jobs
    /\ \A r : \A j \in TeaserJobs(r) : RevisionOf(j) = r
    /\ \A j \in Jobs \ FullJobs :
        RevisionOf(j) \in Revisions /\ j \in TeaserJobs(RevisionOf(j))
    /\ None \notin Revisions
<1>1. FullJobs \subseteq Jobs /\ FullJobs # {} /\ \A f \in FullJobs : RevisionOf(f) = None
  <2>1. PICK f \in Full : TRUE
    BY DEF RenderingBounds
  <2>2. <<f, None>> \in FullJobs
    BY DEF FullJobs
  <2>3. QED
    BY <2>2 DEF FullJobs, Jobs, RevisionOf
<1>2. \A r \in Revisions : TeaserJobs(r) \subseteq Jobs
  BY DEF Jobs, TeaserJobs
<1>3. \A r : \A j \in TeaserJobs(r) : RevisionOf(j) = r
  BY DEF TeaserJobs, RevisionOf
<1>4. \A j \in Teasers \X Revisions :
        RevisionOf(j) \in Revisions /\ j \in TeaserJobs(RevisionOf(j))
  BY DEF TeaserJobs, RevisionOf
<1>5. Jobs \ FullJobs \subseteq Teasers \X Revisions
  BY DEF Jobs
<1>6. None \notin Revisions
  BY DEF RenderingBounds, Revisions, None
<1>7. QED
  BY <1>1, <1>2, <1>3, <1>4, <1>5, <1>6

LEMMA Heading ==
    ASSUME TypeOK
    PROVE  /\ head.active \in {None} \cup Revisions /\ head.pending \in {None} \cup Revisions
           /\ head = [active |-> head.active, pending |-> head.pending]
           /\ head.active = None \/ head.active # head.pending
  BY DEF TypeOK, Heads

Open(entry) == entry.state \notin {"none", "SUCCEEDED"} /\ entry.gates

\* What is left depends on the open jobs of the current revisions.
LEMMA SameRemaining ==
    ASSUME NEW jobs, NEW h, NEW jobs1, NEW h1,
           \A j \in Jobs :
               (Open(jobs[j]) /\ CurrentJob(h, j)) <=> (Open(jobs1[j]) /\ CurrentJob(h1, j))
    PROVE  Remaining(jobs, h) = Remaining(jobs1, h1)
  BY DEF Remaining, Open

LEMMA RemainingIs ==
    ASSUME NEW jobs, NEW h, NEW j \in Jobs
    PROVE  j \in Remaining(jobs, h) <=> Open(jobs[j]) /\ CurrentJob(h, j)
  BY DEF Remaining, Open

-----------------------------------------------------------------------------
(* Steps that leave the release, its revisions and what it waits for alone. *)

JobMoves(r, s) ==
    /\ s \in JobRows /\ s.gates = r.gates
    /\ s.state \in {"none", "SUCCEEDED"} <=> r.state \in {"none", "SUCCEEDED"}
    /\ r.state = "SUCCEEDED" => s.state = "SUCCEEDED"

LEMMA MovesKeep ==
    ASSUME RenderingBounds, GInv, UNCHANGED <<releasePhase, head, newest>>,
           job' = [j \in Jobs |-> job'[j]], \A j \in Jobs : JobMoves(job[j], job'[j]),
           pc' \in [Workers -> PcRows],
           posts' \in [Revisions -> {"none", "blocking", "failed"}],
           \A r \in Revisions :
             posts'[r] = "blocking" => posts[r] = "blocking" \/ MayPost(r)
    PROVE  GInv'
<1>1. TypeOK'
  BY DEF GInv, TypeOK, JobMoves
<1>2. Remaining(job, head) = Remaining(job', head')
  <2>1. \A j \in Jobs : Open(job[j]) <=> Open(job'[j])
    BY DEF Open, JobMoves
  <2>2. QED
    BY <2>1, SameRemaining
<1>3. RenderingIsExact'
  BY <1>2 DEF GInv, RenderingIsExact
<1>4. GatesFit'
  BY JobKinds, Heading DEF GInv, GatesFit, JobMoves
<1>5. PostedTeasersAreActive'
  <2>1. head.active # None => Rendered(job', head.active)
    BY JobKinds, Heading DEF GInv, PostedTeasersAreActive, Rendered, JobMoves
  <2>2. QED
    BY <2>1 DEF GInv, PostedTeasersAreActive, MayPost
<1>6. QED
  BY <1>1, <1>3, <1>4, <1>5 DEF GInv

\* Nothing happens to the jobs.
LEMMA JobsStay ==
    ASSUME RenderingBounds, GInv, UNCHANGED job
    PROVE  job' = [j \in Jobs |-> job'[j]] /\ \A j \in Jobs : JobMoves(job[j], job'[j])
  BY DEF GInv, TypeOK, JobMoves

\* One job moves.
LEMMA JobMovesOn ==
    ASSUME RenderingBounds, GInv, NEW j \in Jobs, NEW s, JobMoves(job[j], s),
           job' = [job EXCEPT ![j] = s]
    PROVE  job' = [k \in Jobs |-> job'[k]] /\ \A k \in Jobs : JobMoves(job[k], job'[k])
  BY DEF GInv, TypeOK, JobMoves

LEMMA ControllerStep ==
    ASSUME RenderingBounds, GInv, NEW w \in Workers, NEW p \in PcRows, pc' = [pc EXCEPT ![w] = p]
    PROVE  pc' \in [Workers -> PcRows]
  BY DEF GInv

\* What a controller holds.
LEMMA HeldJob ==
    ASSUME RenderingBounds, GInv, NEW w \in Workers, pc[w].at # "idle"
    PROVE  /\ pc[w].job \in Jobs
           /\ Holds(w) => job[pc[w].job].state \in Leased
  BY DEF GInv, PcRows, Holds

LEMMA IdleFits == Idle \in PcRows
  BY DEF Idle, PcRows

-----------------------------------------------------------------------------
(* The plans.                                                               *)

LEMMA RequestedFits ==
    ASSUME RenderingBounds, NEW g \in BOOLEAN
    PROVE  /\ Requested(g) \in JobRows /\ Requested(g).state = "REQUESTED"
           /\ Requested(g).gates = g
<1>1. Unplanned \in JobRows
  BY DEF RenderingBounds, Unplanned, JobRows
<1>2. QED
  BY <1>1 DEF Requested, JobRows

LEMMA FullOutputsKeep ==
    ASSUME RenderingBounds, GInv, PrepareFullOutputs PROVE GInv'
<1>1. /\ \A j \in FullJobs : job'[j] = Requested(TRUE)
      /\ \A j \in Jobs \ FullJobs : job'[j] = job[j]
      /\ job' = [j \in Jobs |-> job'[j]]
      /\ releasePhase' = "RENDERING" /\ UNCHANGED <<head, newest, posts, pc>>
  BY JobKinds DEF PrepareFullOutputs
<1>2. TypeOK'
  BY <1>1, RequestedFits DEF GInv, TypeOK
<1>3. Remaining(job', head') # {}
  <2>1. PICK f \in FullJobs : TRUE
    BY JobKinds
  <2>2. f \in Jobs /\ Open(job'[f]) /\ CurrentJob(head', f)
    BY <1>1, <2>1, JobKinds, RequestedFits DEF Open, CurrentJob
  <2>3. QED
    BY <2>2, RemainingIs
<1>4. \A r \in Revisions : \A j \in TeaserJobs(r) : job'[j] = job[j]
  BY <1>1, JobKinds
<1>5. GatesFit'
  BY <1>1, <1>4, JobKinds, Heading, RequestedFits DEF GInv, GatesFit
<1>6. PostedTeasersAreActive'
  BY <1>1, <1>4, Heading DEF GInv, PostedTeasersAreActive, Rendered
<1>7. QED
  BY <1>1, <1>2, <1>3, <1>5, <1>6 DEF GInv, RenderingIsExact

LEMMA TeasersKeep ==
    ASSUME RenderingBounds, GInv, PrepareTeasers PROVE GInv'
<1> DEFINE n == newest + 1
           gates == head.active = None /\ releasePhase \in {"APPROVED", "RENDERING"}
<1>1. /\ \A j \in TeaserJobs(n) : job'[j] = Requested(gates)
      /\ \A j \in Jobs \ TeaserJobs(n) : job'[j] = job[j]
      /\ job' = [j \in Jobs |-> job'[j]]
      /\ releasePhase' = (IF gates THEN "RENDERING" ELSE releasePhase)
      /\ head' = [head EXCEPT !.pending = n] /\ newest' = n
      /\ UNCHANGED <<posts, pc>> /\ head.pending = None
  <2>1. n \in Revisions
    BY DEF RenderingBounds, PrepareTeasers, GInv, TypeOK, Revisions
  <2>2. QED
    BY <2>1, JobKinds DEF PrepareTeasers
<1>2. n \in Revisions /\ n # None /\ head.active # n /\ head.active <= newest
  BY DEF RenderingBounds, PrepareTeasers, GInv, TypeOK, Revisions, None
<1>3. head'.active = head.active /\ head'.pending = n /\ head' \in Heads
  BY <1>1, <1>2, Heading DEF Heads, GInv
<1> HIDE DEF gates
<1>4. gates \in BOOLEAN
  BY DEF gates
<1>5. TypeOK'
  <2>1. \A j \in Jobs : job'[j] \in JobRows
    BY <1>1, <1>4, RequestedFits DEF GInv, TypeOK
  <2>2. head'.active <= newest' /\ head'.pending <= newest' /\ newest' \in 0..MaxRevision
    BY <1>1, <1>2, <1>3 DEF RenderingBounds, PrepareTeasers, GInv, TypeOK, Revisions, Heads, None
  <2>3. QED
    BY <1>1, <1>3, <2>1, <2>2 DEF GInv, TypeOK
<1>6. TeaserJobs(n) \subseteq Jobs /\ TeaserJobs(n) # {}
  <2>1. PICK t \in Teasers : TRUE
    BY DEF PrepareTeasers
  <2>2. <<t, n>> \in TeaserJobs(n)
    BY DEF TeaserJobs
  <2>3. TeaserJobs(n) \subseteq Jobs
    BY <1>2, JobKinds
  <2>4. QED
    BY <2>2, <2>3
<1>7. \A j \in FullJobs : j \notin TeaserJobs(n)
  BY <1>2, JobKinds
<1>8. RenderingIsExact'
  <2>1. CASE gates
    <3>1. PICK j \in TeaserJobs(n) : TRUE
      BY <1>6
    <3>2. j \in Jobs /\ Open(job'[j]) /\ CurrentJob(head', j)
      BY <1>1, <1>3, <1>4, <1>6, <2>1, <3>1, JobKinds, RequestedFits DEF Open, CurrentJob
    <3>3. QED
      BY <1>1, <2>1, <3>2, RemainingIs DEF RenderingIsExact
  <2>2. CASE ~gates
    <3>1. ASSUME NEW j \in Jobs
          PROVE  (Open(job[j]) /\ CurrentJob(head, j)) <=> (Open(job'[j]) /\ CurrentJob(head', j))
      <4>1. CASE j \in TeaserJobs(n)
        <5>1. ~CurrentJob(head, j)
          BY <1>1, <1>2, <1>7, <4>1, JobKinds DEF CurrentJob
        <5>2. ~Open(job'[j])
          BY <1>1, <1>4, <2>2, <4>1, RequestedFits DEF Open
        <5>3. QED
          BY <5>1, <5>2
      <4>2. CASE j \notin TeaserJobs(n)
        <5>1. job'[j] = job[j] /\ (CurrentJob(head, j) <=> CurrentJob(head', j))
          BY <1>1, <1>2, <1>3, <4>2, JobKinds DEF CurrentJob
        <5>2. QED
          BY <5>1
      <4>3. QED
        BY <4>1, <4>2
    <3>2. Remaining(job, head) = Remaining(job', head')
      BY <3>1, SameRemaining
    <3>3. QED
      BY <1>1, <2>2, <3>2 DEF GInv, RenderingIsExact
  <2>3. QED
    BY <2>1, <2>2
<1>9. GatesFit'
  <2>1. \A f \in FullJobs : job'[f].gates
    BY <1>1, <1>7, JobKinds DEF GInv, GatesFit
  <2>2. head.active # None => \A j \in TeaserJobs(n) : ~job'[j].gates
    BY <1>1, <1>4, RequestedFits DEF gates
  <2>3. QED
    BY <1>3, <2>1, <2>2 DEF GatesFit
<1>10. PostedTeasersAreActive'
  <2>1. head.active # None => Rendered(job', head.active)
    <3>1. \A j \in TeaserJobs(head.active) : head.active # None => job'[j] = job[j]
      BY <1>1, <1>2, JobKinds, Heading DEF GInv
    <3>2. QED
      BY <3>1 DEF GInv, PostedTeasersAreActive, Rendered
  <2>2. \A r \in Revisions : posts[r] # "blocking"
    <3>1. CASE head.active = None
      BY <3>1, JobKinds DEF GInv, PostedTeasersAreActive
    <3>2. CASE head.active # None
      BY <3>2 DEF PrepareTeasers, Unposted
    <3>3. QED
      BY <3>1, <3>2
  <2>3. QED
    BY <1>1, <1>3, <2>1, <2>2 DEF PostedTeasersAreActive
<1>11. QED
  BY <1>1, <1>5, <1>8, <1>9, <1>10 DEF GInv

LEMMA RetryKeeps ==
    ASSUME RenderingBounds, GInv, RetryFailed PROVE GInv'
<1> DEFINE failed == {f \in FullJobs : job[f].state = "FAILED"}
<1>1. /\ \A f \in failed : job[f].max < MaxTotal
      /\ job' = [j \in Jobs |-> IF j \in failed
                    THEN [job[j] EXCEPT !.state = "RETRY_WAIT", !.max = @ + 1]
                    ELSE job[j]]
      /\ UNCHANGED <<releasePhase, head, newest, posts, pc>>
  BY DEF RetryFailed
<1>2. ASSUME NEW j \in Jobs PROVE JobMoves(job[j], job'[j])
  <2>1. job[j] \in JobRows
    BY DEF GInv, TypeOK
  <2>2. CASE j \in failed
    <3>1. job'[j] = [job[j] EXCEPT !.state = "RETRY_WAIT", !.max = @ + 1]
      BY <1>1, <2>2
    <3>2. job[j].max + 1 \in 1..MaxTotal /\ job[j].state = "FAILED"
      <4>1. job[j].max \in 1..MaxTotal
        BY <2>1 DEF JobRows
      <4>2. job[j].max < MaxTotal
        BY <1>1, <2>2
      <4>3. QED
        BY <2>2, <4>1, <4>2 DEF RenderingBounds
    <3>3. QED
      BY <2>1, <3>1, <3>2 DEF JobMoves, JobRows
  <2>3. CASE j \notin failed
    BY <1>1, <2>1, <2>3 DEF JobMoves
  <2>4. QED
    BY <2>2, <2>3
<1>3. job' = [j \in Jobs |-> job'[j]]
  BY <1>1
<1>4. pc' \in [Workers -> PcRows] /\ posts' \in [Revisions -> {"none", "blocking", "failed"}]
  BY <1>1 DEF GInv, TypeOK
<1>5. QED
  BY <1>1, <1>2, <1>3, <1>4, MovesKeep

-----------------------------------------------------------------------------
(* A job ends.                                                              *)

Exact(jobs, h, ph) == ph = "RENDERING" <=> Remaining(jobs, h) # {}

\* A revision is dropped: the release waits for nothing that it had not waited for.
LEMMA Discarded ==
    ASSUME RenderingBounds, NEW jobs, NEW h \in Heads, NEW ph, NEW r \in Revisions, h.pending = r,
           Exact(jobs, h, ph),
           h.active # None => \A j \in TeaserJobs(r) : ~jobs[j].gates
    PROVE  LET e == DiscardRevision(jobs, h, ph, r)
           IN /\ e.head = [active |-> h.active, pending |-> None]
              /\ e.phase \in {ph, "READY_TO_PUBLISH"} /\ Exact(jobs, e.head, e.phase)
<1> DEFINE h1 == [active |-> h.active, pending |-> None]
           e == DiscardRevision(jobs, h, ph, r)
<1>1. [h EXCEPT !.pending = None] = h1
  BY DEF Heads
<1>2. /\ e.head = h1
      /\ e.phase = IF h.active = None /\ ph = "RENDERING" /\ Remaining(jobs, h1) = {}
                   THEN "READY_TO_PUBLISH" ELSE ph
  BY <1>1 DEF DiscardRevision
<1>3. \A j \in Jobs : CurrentJob(h1, j) => CurrentJob(h, j)
  BY JobKinds DEF CurrentJob
<1>4. Remaining(jobs, h1) \subseteq Remaining(jobs, h)
  BY <1>3 DEF Remaining
<1>5. CASE h.active = None
  BY <1>2, <1>4, <1>5 DEF Exact
<1>6. CASE h.active # None
  <2>1. ASSUME NEW j \in Jobs
        PROVE  (Open(jobs[j]) /\ CurrentJob(h, j)) <=> (Open(jobs[j]) /\ CurrentJob(h1, j))
    <3>1. Open(jobs[j]) /\ CurrentJob(h, j) => CurrentJob(h1, j)
      BY <1>6, JobKinds DEF CurrentJob, Open
    <3>2. QED
      BY <1>3, <3>1
  <2>2. Remaining(jobs, h) = Remaining(jobs, h1)
    BY <2>1, SameRemaining
  <2>3. QED
    BY <1>2, <1>6, <2>2 DEF Exact
<1>7. QED
  BY <1>2, <1>5, <1>6

\* The release after some jobs have ended: what is rendered stays so, and the
\* pending revision stays, is dropped, or becomes active when it is rendered.
LEMMA EndsKeep ==
    ASSUME RenderingBounds, GInv, job' \in [Jobs -> JobRows],
           \A j \in Jobs : /\ job'[j].gates = job[j].gates
                           /\ job[j].state = "SUCCEEDED" => job'[j].state = "SUCCEEDED",
           head' \in {head, [active |-> head.active, pending |-> None],
                      [active |-> head.pending, pending |-> None]},
           head'.active # head.active =>
               head'.active # None /\ Rendered(job', head'.active) /\ Unposted,
           releasePhase' \in {"APPROVED", "RENDERING", "READY_TO_PUBLISH"},
           Exact(job', head', releasePhase'), UNCHANGED <<newest, posts>>,
           pc' \in [Workers -> PcRows]
    PROVE  GInv'
<1>1. head' \in Heads /\ head'.active <= newest /\ head'.pending <= newest
  BY Heading DEF RenderingBounds, GInv, TypeOK, Heads, None, Revisions
<1>2. TypeOK'
  BY <1>1 DEF GInv, TypeOK
<1>3. GatesFit'
  <2>1. \A f \in FullJobs : job'[f].gates
    BY JobKinds DEF GInv, GatesFit
  <2>2. head'.pending # None => head' = head
    OBVIOUS
  <2>3. head.pending # None => \A j \in TeaserJobs(head.pending) : job'[j].gates = job[j].gates
    BY JobKinds, Heading DEF GInv
  <2>4. QED
    BY <2>1, <2>2, <2>3 DEF GInv, GatesFit
<1>4. PostedTeasersAreActive'
  <2>1. head.active # None => Rendered(job', head.active)
    BY JobKinds, Heading DEF GInv, PostedTeasersAreActive, Rendered
  <2>2. CASE head'.active # head.active
    BY <2>2 DEF PostedTeasersAreActive, Unposted
  <2>3. CASE head'.active = head.active
    BY <2>1, <2>3, Heading DEF GInv, PostedTeasersAreActive
  <2>4. QED
    BY <2>2, <2>3
<1>5. QED
  BY <1>2, <1>3, <1>4 DEF GInv, RenderingIsExact, Exact

\* A failure may drop the pending revision, and nothing else.
LEMMA MayBeDiscarded ==
    ASSUME RenderingBounds, GInv, NEW jobs, NEW ph, NEW r \in {None} \cup Revisions,
           Exact(jobs, head, ph),
           \A j \in Jobs : jobs[j].gates = job[j].gates
    PROVE  LET e == DiscardIfFailed(jobs, head, ph, r)
           IN /\ e.head \in {head, [active |-> head.active, pending |-> None]}
              /\ e.phase \in {ph, "READY_TO_PUBLISH"} /\ Exact(jobs, e.head, e.phase)
<1>1. head \in Heads
  BY DEF GInv, TypeOK
<1>2. CASE r # None /\ head.pending = r
  <2>1. head.active # None => \A j \in TeaserJobs(r) : ~jobs[j].gates
    BY <1>2, JobKinds DEF GInv, GatesFit
  <2>2. LET e == DiscardRevision(jobs, head, ph, r)
        IN /\ e.head = [active |-> head.active, pending |-> None]
           /\ e.phase \in {ph, "READY_TO_PUBLISH"} /\ Exact(jobs, e.head, e.phase)
    BY <1>1, <1>2, <2>1, Discarded
  <2>3. QED
    BY <2>2 DEF DiscardIfFailed, Kept
<1>3. CASE ~(r # None /\ head.pending = r)
  BY <1>3 DEF DiscardIfFailed, Kept
<1>4. QED
  BY <1>2, <1>3

LEMMA RevisionFits ==
    ASSUME RenderingBounds
    PROVE  \A j \in Jobs : RevisionOf(j) \in {None} \cup Revisions
  BY JobKinds

LEMMA FailedKeeps ==
    ASSUME RenderingBounds, GInv, NEW j \in Jobs, job[j].state \in Leased, Failed(j),
           UNCHANGED <<newest, posts>>, pc' \in [Workers -> PcRows]
    PROVE  GInv'
<1> DEFINE jobs == Fail(j)
           e == DiscardIfFailed(jobs, head, releasePhase, RevisionOf(j))
<1>1. job' = jobs /\ head' = e.head /\ releasePhase' = e.phase
  BY DEF Failed
<1>2. /\ jobs \in [Jobs -> JobRows]
      /\ \A k \in Jobs : /\ jobs[k].gates = job[k].gates
                         /\ job[k].state = "SUCCEEDED" => jobs[k].state = "SUCCEEDED"
                         /\ Open(jobs[k]) <=> Open(job[k])
  BY DEF GInv, TypeOK, Fail, JobRows, Leased, Open
<1> HIDE DEF jobs
<1>3. Exact(jobs, head, releasePhase)
  <2>1. Remaining(job, head) = Remaining(jobs, head)
    BY <1>2, SameRemaining
  <2>2. QED
    BY <2>1 DEF GInv, RenderingIsExact, Exact
<1>4. /\ e.head \in {head, [active |-> head.active, pending |-> None]}
      /\ e.phase \in {releasePhase, "READY_TO_PUBLISH"} /\ Exact(jobs, e.head, e.phase)
  BY <1>2, <1>3, RevisionFits, MayBeDiscarded
<1> HIDE DEF e
<1>5. /\ job' \in [Jobs -> JobRows]
      /\ \A k \in Jobs : /\ job'[k].gates = job[k].gates
                         /\ job[k].state = "SUCCEEDED" => job'[k].state = "SUCCEEDED"
      /\ head' \in {head, [active |-> head.active, pending |-> None]}
      /\ releasePhase' \in {"APPROVED", "RENDERING", "READY_TO_PUBLISH"}
      /\ Exact(job', head', releasePhase')
  BY <1>1, <1>2, <1>4 DEF GInv, TypeOK
<1>6. head'.active = head.active
  BY <1>5, Heading DEF GInv
<1>7. QED
  BY <1>5, <1>6, EndsKeep

-----------------------------------------------------------------------------
(* The controllers.                                                         *)

\* A controller goes on, and at most its job moves within what it is.
LEMMA Works ==
    ASSUME RenderingBounds, GInv, NEW w \in Workers, NEW p \in PcRows, pc' = [pc EXCEPT ![w] = p],
           UNCHANGED <<releasePhase, head, newest, posts>>, NEW j \in Jobs, NEW s,
           JobMoves(job[j], s), job' = [job EXCEPT ![j] = s]
    PROVE  GInv'
<1>1. pc' \in [Workers -> PcRows] /\ posts' \in [Revisions -> {"none", "blocking", "failed"}]
  BY ControllerStep DEF GInv, TypeOK
<1>2. job' = [k \in Jobs |-> job'[k]] /\ \A k \in Jobs : JobMoves(job[k], job'[k])
  BY JobMovesOn
<1>3. QED
  BY <1>1, <1>2, MovesKeep

LEMMA Rests ==
    ASSUME RenderingBounds, GInv, NEW w \in Workers, NEW p \in PcRows, pc' = [pc EXCEPT ![w] = p],
           UNCHANGED <<releasePhase, head, newest, posts, job>>
    PROVE  GInv'
<1>1. pc' \in [Workers -> PcRows] /\ posts' \in [Revisions -> {"none", "blocking", "failed"}]
  BY ControllerStep DEF GInv, TypeOK
<1>2. QED
  BY <1>1, JobsStay, MovesKeep

LEMMA BrokenFits ==
    ASSUME NEW j \in Jobs, NEW t \in BOOLEAN
    PROVE  [at |-> "broken", job |-> j, terminal |-> t] \in PcRows
  BY DEF PcRows

LEMMA RecoverKeeps ==
    ASSUME RenderingBounds, GInv, NEW w \in Workers, Recover(w) PROVE GInv'
<1>1. PICK j \in Jobs : ExhaustedLease(j) /\ Failed(j)
  BY DEF Recover
<1>2. pc' \in [Workers -> PcRows] /\ UNCHANGED <<newest, posts>>
  BY DEF Recover, GInv
<1>3. QED
  BY <1>1, <1>2, FailedKeeps DEF ExhaustedLease

LEMMA ClaimKeeps ==
    ASSUME RenderingBounds, GInv, NEW w \in Workers, Claim(w) PROVE GInv'
<1>1. PICK j \in Jobs :
        /\ job[j].state \in {"REQUESTED", "RETRY_WAIT"} \cup Leased
        /\ job[j].tries < job[j].max
        /\ job' = [job EXCEPT ![j] = [@ EXCEPT !.state = "CLAIMED",
                       !.tries = job[j].tries + 1, !.owner = w, !.live = TRUE]]
        /\ pc' = [pc EXCEPT ![w] = [at |-> "start", job |-> j]]
  BY DEF Claim
<1> DEFINE s == [job[j] EXCEPT !.state = "CLAIMED", !.tries = job[j].tries + 1,
                               !.owner = w, !.live = TRUE]
<1>2. job[j] \in JobRows
  BY DEF GInv, TypeOK
<1>3. job[j].tries + 1 \in 0..MaxTotal
  BY <1>1, <1>2 DEF RenderingBounds, JobRows
<1>4. JobMoves(job[j], s)
  <2>1. s \in JobRows /\ s.gates = job[j].gates /\ s.state = "CLAIMED"
    BY <1>2, <1>3 DEF JobRows
  <2>2. job[j].state \notin {"none", "SUCCEEDED"}
    BY <1>1 DEF Leased
  <2>3. QED
    BY <2>1, <2>2 DEF JobMoves
<1>5. job' = [job EXCEPT ![j] = s]
  BY <1>1
<1>6. [at |-> "start", job |-> j] \in PcRows
  BY DEF PcRows
<1>7. UNCHANGED <<releasePhase, head, newest, posts>>
  BY DEF Claim
<1> HIDE DEF s
<1>8. QED
  BY <1>1, <1>4, <1>5, <1>6, <1>7, Works

LEMMA StartKeeps ==
    ASSUME RenderingBounds, GInv, NEW w \in Workers, Start(w) PROVE GInv'
<1>1. UNCHANGED <<releasePhase, head, newest, posts>> /\ pc[w].at = "start"
  BY DEF Start, At
<1>2. CASE ~Holds(w)
  BY <1>1, <1>2, IdleFits, Rests DEF Start
<1>3. CASE Holds(w)
  <2> DEFINE j == pc[w].job
             s == [job[j] EXCEPT !.state = "PROCESSING"]
  <2>1. j \in Jobs /\ job[j].state \in Leased /\ job[j] \in JobRows
    BY <1>1, <1>3, HeldJob DEF GInv, TypeOK
  <2>2. JobMoves(job[j], s)
    BY <2>1 DEF JobMoves, JobRows, Leased
  <2>3. job' = [job EXCEPT ![j] = s]
    BY <1>3, <2>1 DEF Start, GInv, TypeOK
  <2>4. \E p \in PcRows : pc' = [pc EXCEPT ![w] = p]
    <3>1. CASE PhaseAllows(j)
      <4>1. pc' = [pc EXCEPT ![w] = [pc[w] EXCEPT !.at = "render"]]
        BY <1>3, <3>1 DEF Start, GInv
      <4>2. [pc[w] EXCEPT !.at = "render"] \in PcRows
        BY <1>1, <2>1 DEF GInv, PcRows
      <4>3. QED
        BY <4>1, <4>2
    <3>2. CASE ~PhaseAllows(j)
      <4>1. pc' = [pc EXCEPT ![w] = [at |-> "broken", job |-> j, terminal |-> TRUE]]
        BY <1>3, <3>2 DEF Start, Break, GInv
      <4>2. QED
        BY <2>1, <4>1, BrokenFits
    <3>3. QED
      BY <3>1, <3>2
  <2> HIDE DEF s
  <2>5. QED
    BY <1>1, <2>1, <2>2, <2>3, <2>4, Works
<1>4. QED
  BY <1>2, <1>3

LEMMA RenderFailsKeeps ==
    ASSUME RenderingBounds, GInv, NEW w \in Workers, RenderFails(w) PROVE GInv'
<1>1. pc[w].at = "render" /\ UNCHANGED <<releasePhase, head, newest, job, posts>>
  BY DEF RenderFails, At
<1>2. PICK t \in BOOLEAN : pc' = [pc EXCEPT ![w] = [at |-> "broken", job |-> pc[w].job,
                                                    terminal |-> t]]
  BY DEF RenderFails, Break, GInv
<1>3. pc[w].job \in Jobs
  BY <1>1, HeldJob
<1>4. QED
  BY <1>1, <1>2, <1>3, BrokenFits, Rests

LEMMA RecordFailureKeeps ==
    ASSUME RenderingBounds, GInv, NEW w \in Workers, RecordFailure(w) PROVE GInv'
<1> DEFINE j == pc[w].job
<1>1. /\ pc[w].at = "broken" /\ pc' = [pc EXCEPT ![w] = Idle]
      /\ UNCHANGED <<newest, posts>>
  BY DEF RecordFailure, At
<1>2. pc' \in [Workers -> PcRows]
  BY <1>1, IdleFits, ControllerStep
<1>3. CASE ~Holds(w)
  BY <1>1, <1>3, IdleFits, Rests DEF RecordFailure
<1>4. CASE Holds(w)
  <2>1. j \in Jobs /\ job[j].state \in Leased /\ job[j] \in JobRows
    BY <1>1, <1>4, HeldJob DEF GInv, TypeOK
  <2>2. CASE Failed(j)
    BY <1>1, <1>2, <2>1, <2>2, FailedKeeps
  <2>3. CASE ~(pc[w].terminal \/ job[j].tries >= job[j].max)
    <3> DEFINE s == [job[j] EXCEPT !.state = "RETRY_WAIT", !.owner = Nobody, !.live = FALSE]
    <3>1. JobMoves(job[j], s)
      BY <2>1 DEF JobMoves, JobRows, Leased
    <3>2. job' = [job EXCEPT ![j] = s] /\ UNCHANGED <<releasePhase, head>>
      BY <1>4, <2>1, <2>3 DEF RecordFailure, GInv, TypeOK
    <3> HIDE DEF s
    <3>3. QED
      BY <1>1, <2>1, <3>1, <3>2, IdleFits, Works
  <2>4. QED
    BY <1>4, <2>2, <2>3 DEF RecordFailure
<1>5. QED
  BY <1>3, <1>4

\* The last teaser of the pending revision makes it active. The jobs of the one
\* before are rendered, so that the release waits for nothing else than it did.
LEMMA Activated ==
    ASSUME RenderingBounds, GInv, NEW jobs, NEW ph, NEW r \in Revisions, head.pending = r,
           Exact(jobs, head, ph),
           \A j \in Jobs : job[j].state = "SUCCEEDED" => jobs[j].state = "SUCCEEDED"
    PROVE  Exact(jobs, [active |-> r, pending |-> None], ph)
<1> DEFINE h1 == [active |-> r, pending |-> None]
<1>1. ASSUME NEW j \in Jobs
      PROVE  (Open(jobs[j]) /\ CurrentJob(head, j)) <=> (Open(jobs[j]) /\ CurrentJob(h1, j))
  <2>1. CurrentJob(h1, j) => CurrentJob(head, j)
    BY JobKinds DEF CurrentJob
  <2>2. ASSUME CurrentJob(head, j), ~CurrentJob(h1, j) PROVE ~Open(jobs[j])
    <3>1. head.active # None /\ j \in TeaserJobs(head.active)
      BY <2>2, JobKinds DEF CurrentJob
    <3>2. job[j].state = "SUCCEEDED"
      BY <3>1 DEF GInv, PostedTeasersAreActive, Rendered
    <3>3. QED
      BY <3>2 DEF Open
  <2>3. QED
    BY <2>1, <2>2
<1>2. Remaining(jobs, head) = Remaining(jobs, h1)
  BY <1>1, SameRemaining
<1>3. QED
  BY <1>2 DEF Exact

LEMMA SucceedKeeps ==
    ASSUME RenderingBounds, GInv, NEW w \in Workers, Succeed(w) PROVE GInv'
<1> DEFINE j == pc[w].job
           r == RevisionOf(j)
           entry == [job[j] EXCEPT !.state = "SUCCEEDED", !.owner = Nobody, !.live = FALSE]
           jobs == [job EXCEPT ![j] = entry]
           promoted == IF job[j].gates /\ Remaining(jobs, head) = {}
                       THEN "READY_TO_PUBLISH" ELSE releasePhase
           end == ActivateRevision(jobs, head, promoted, r)
<1>1. pc[w].at = "render" /\ UNCHANGED <<newest, posts>> /\ j \in Jobs
  BY HeldJob DEF Succeed, At
<1>2. \/ pc' = [pc EXCEPT ![w] = [at |-> "broken", job |-> j, terminal |-> FALSE]]
         /\ UNCHANGED <<job, head, releasePhase>>
      \/ /\ Holds(w) /\ PhaseAllows(j) /\ MayActivate(jobs, r)
         /\ job' = jobs /\ head' = end.head /\ releasePhase' = end.phase
         /\ pc' = [pc EXCEPT ![w] = Idle]
  BY DEF Succeed, Break, GInv
<1>3. CASE UNCHANGED <<job, head, releasePhase>>
           /\ pc' = [pc EXCEPT ![w] = [at |-> "broken", job |-> j, terminal |-> FALSE]]
  BY <1>1, <1>3, BrokenFits, Rests
<1>4. CASE /\ Holds(w) /\ PhaseAllows(j) /\ MayActivate(jobs, r)
           /\ job' = jobs /\ head' = end.head /\ releasePhase' = end.phase
           /\ pc' = [pc EXCEPT ![w] = Idle]
  <2>1. pc' \in [Workers -> PcRows]
    BY <1>4, IdleFits, ControllerStep
  <2>2. job[j] \in JobRows /\ job[j].state \in Leased /\ r \in {None} \cup Revisions
    BY <1>1, <1>4, HeldJob, RevisionFits DEF GInv, TypeOK
  <2>3. /\ jobs \in [Jobs -> JobRows]
        /\ \A k \in Jobs : /\ jobs[k].gates = job[k].gates
                           /\ job[k].state = "SUCCEEDED" => jobs[k].state = "SUCCEEDED"
                           /\ k # j => jobs[k] = job[k]
    BY <1>1, <2>2 DEF GInv, TypeOK, JobRows
  <2> HIDE DEF jobs
  <2>4. Exact(jobs, head, promoted)
    <3>1. CASE job[j].gates
      <4>1. releasePhase = "RENDERING"
        BY <1>4, <3>1 DEF PhaseAllows
      <4>2. QED
        BY <3>1, <4>1 DEF Exact
    <3>2. CASE ~job[j].gates
      <4>1. \A k \in Jobs : (Open(job[k]) /\ CurrentJob(head, k))
                            <=> (Open(jobs[k]) /\ CurrentJob(head, k))
        BY <2>3, <3>2 DEF Open
      <4>2. Remaining(job, head) = Remaining(jobs, head)
        BY <4>1, SameRemaining
      <4>3. QED
        BY <3>2, <4>2 DEF GInv, RenderingIsExact, Exact
    <3>3. QED
      BY <3>1, <3>2
  <2>5. promoted \in {"APPROVED", "RENDERING", "READY_TO_PUBLISH"}
    BY DEF GInv, TypeOK
  <2> HIDE DEF promoted
  <2>6. /\ end.head \in {head, [active |-> head.active, pending |-> None],
                         [active |-> head.pending, pending |-> None]}
        /\ end.head.active # head.active =>
             end.head.active # None /\ Rendered(jobs, end.head.active) /\ Unposted
        /\ end.phase \in {promoted, "READY_TO_PUBLISH"}
        /\ Exact(jobs, end.head, end.phase)
    <3>1. CASE r = None \/ head.active = r
      BY <2>4, <3>1 DEF ActivateRevision, Kept
    <3>2. CASE r # None /\ head.active # r
      <4>1. head.pending = r /\ r \in Revisions /\ (Rendered(jobs, r) => Unposted)
        BY <1>4, <2>2, <3>2 DEF MayActivate
      <4>2. CASE Rendered(jobs, r)
        <5>1. end = [head |-> [active |-> r, pending |-> None], phase |-> promoted]
          BY <3>2, <4>2 DEF ActivateRevision, Kept
        <5>2. Exact(jobs, [active |-> r, pending |-> None], promoted)
          BY <2>3, <2>4, <4>1, Activated
        <5>3. QED
          BY <3>2, <4>1, <4>2, <5>1, <5>2
      <4>3. CASE ~Rendered(jobs, r)
        <5>1. end = DiscardIfFailed(jobs, head, promoted, r)
          BY <3>2, <4>3 DEF ActivateRevision
        <5>2. /\ end.head \in {head, [active |-> head.active, pending |-> None]}
              /\ end.phase \in {promoted, "READY_TO_PUBLISH"}
              /\ Exact(jobs, end.head, end.phase)
          BY <2>2, <2>3, <2>4, <5>1, MayBeDiscarded
        <5>3. end.head.active = head.active
          BY <5>2, Heading DEF GInv
        <5>4. QED
          BY <5>2, <5>3
      <4>4. QED
        BY <4>2, <4>3
    <3>3. QED
      BY <3>1, <3>2
  <2> HIDE DEF end
  <2>7. QED
    BY <1>1, <1>4, <2>1, <2>3, <2>5, <2>6, EndsKeep
<1>5. QED
  BY <1>2, <1>3, <1>4

LEMMA OutsideKeeps ==
    ASSUME RenderingBounds, GInv,
           \/ \E w \in Workers : Crash(w)
           \/ \E j \in Jobs : LeaseExpires(j)
           \/ \E r \in Revisions : Post(r) \/ PostFails(r)
    PROVE  GInv'
<1>1. ASSUME NEW w \in Workers, Crash(w) PROVE GInv'
  BY <1>1, IdleFits, Rests DEF Crash
<1>2. ASSUME NEW j \in Jobs, LeaseExpires(j) PROVE GInv'
  <2> DEFINE s == [job[j] EXCEPT !.live = FALSE]
  <2>1. JobMoves(job[j], s) /\ job' = [job EXCEPT ![j] = s]
    BY <1>2 DEF LeaseExpires, GInv, TypeOK, JobMoves, JobRows
  <2>2. /\ UNCHANGED <<releasePhase, head, newest, posts, pc>>
        /\ pc' \in [Workers -> PcRows]
        /\ posts' \in [Revisions -> {"none", "blocking", "failed"}]
    BY <1>2 DEF LeaseExpires, GInv, TypeOK
  <2> HIDE DEF s
  <2>3. job' = [k \in Jobs |-> job'[k]] /\ \A k \in Jobs : JobMoves(job[k], job'[k])
    BY <2>1, JobMovesOn
  <2>4. QED
    BY <2>2, <2>3, MovesKeep
<1>3. ASSUME NEW r \in Revisions, Post(r) \/ PostFails(r) PROVE GInv'
  <2>1. /\ UNCHANGED <<releasePhase, head, newest, job, pc>> /\ pc' \in [Workers -> PcRows]
        /\ posts' \in [Revisions -> {"none", "blocking", "failed"}]
        /\ \A q \in Revisions : posts'[q] = "blocking" => posts[q] = "blocking" \/ MayPost(q)
    BY <1>3 DEF Post, PostFails, GInv, TypeOK
  <2>2. QED
    BY <2>1, JobsStay, MovesKeep
<1>4. QED
  BY <1>1, <1>2, <1>3

LEMMA InitGInv == ASSUME RenderingBounds, Init PROVE GInv
<1>1. TypeOK
  <2>1. Unplanned \in JobRows
    BY DEF RenderingBounds, Unplanned, JobRows
  <2>2. QED
    BY <2>1 DEF RenderingBounds, Init, TypeOK, Heads, None
<1>2. pc \in [Workers -> PcRows]
  BY IdleFits DEF Init
<1>3. Remaining(job, head) = {}
  BY DEF Init, Remaining, Unplanned
<1>4. GatesFit /\ PostedTeasersAreActive
  BY JobKinds DEF Init, GatesFit, PostedTeasersAreActive, Unplanned
<1>5. QED
  BY <1>1, <1>2, <1>3, <1>4 DEF Init, GInv, RenderingIsExact

LEMMA NextKeepsGInv == ASSUME RenderingBounds, GInv, [Next]_vars PROVE GInv'
<1>1. CASE PrepareFullOutputs \/ PrepareTeasers \/ RetryFailed
  BY <1>1, FullOutputsKeep, TeasersKeep, RetryKeeps
<1>2. ASSUME NEW w \in Workers, Cycle(w) PROVE GInv'
  BY <1>2, RecoverKeeps, ClaimKeeps, StartKeeps, RenderFailsKeeps, SucceedKeeps,
     RecordFailureKeeps DEF Cycle
<1>3. CASE \/ \E w \in Workers : Crash(w)
           \/ \E j \in Jobs : LeaseExpires(j)
           \/ \E r \in Revisions : Post(r) \/ PostFails(r)
  BY <1>3, OutsideKeeps
<1>4. CASE UNCHANGED vars
  BY <1>4 DEF vars, GInv, TypeOK, GatesFit, RenderingIsExact, PostedTeasersAreActive,
     Rendered, Remaining, CurrentJob
<1>5. QED
  BY <1>1, <1>2, <1>3, <1>4 DEF Next

-----------------------------------------------------------------------------
(* The theorems.                                                            *)

\* What a release waits for, its phase, its teaser revisions and the posts made of
\* them agree in every reachable state.
THEOREM RenderingAgrees == ASSUME RenderingBounds PROVE Spec => []GInv
<1>1. Init => GInv
  BY InitGInv
<1>2. GInv /\ [Next]_vars => GInv'
  BY NextKeepsGInv
<1>3. QED
  BY <1>1, <1>2, PTL DEF Spec

\* The rows of the jobs, revisions and posts keep their shape.
THEOREM RenderingTyping == ASSUME RenderingBounds PROVE Spec => []TypeOK
<1>1. GInv => TypeOK
  BY DEF GInv
<1>2. QED
  BY <1>1, RenderingAgrees, PTL

\* A release is rendering exactly while it waits for a job: it is neither called
\* ready too early nor left with nothing to wait for.
THEOREM PhaseIsExact == ASSUME RenderingBounds PROVE Spec => []RenderingIsExact
<1>1. GInv => RenderingIsExact
  BY DEF GInv
<1>2. QED
  BY <1>1, RenderingAgrees, PTL

\* What may be posted is of the active revision, all of which is rendered.
THEOREM PostsAreActive == ASSUME RenderingBounds PROVE Spec => []PostedTeasersAreActive
<1>1. GInv => PostedTeasersAreActive
  BY DEF GInv
<1>2. QED
  BY <1>1, RenderingAgrees, PTL
=============================================================================
