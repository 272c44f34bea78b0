--------------------------- MODULE DeliveryProofs ---------------------------
(* The theorems about MegaDelivery, for any controllers, sets, batches and  *)
(* parts: what is recorded as delivered is in the folder, once. And about   *)
(* ArchiveBuild, for any controllers, parts and plans: an archive that is   *)
(* ready is whole.                                                          *)
EXTENDS MegaDelivery, ArchiveBuild, SumTheorems

-----------------------------------------------------------------------------
(* MegaDelivery: the inductive invariant.                                   *)

\* Nobody is not a controller, and bounds are numbers.
DeliveryBounds == Nobody \notin Workers /\ Count \in Nat /\ BatchSize \in Nat

Stages == [at : {"idle", "plan", "list", "pick", "release", "finalize"}]
            \cup [at : {"adopt", "upload", "complete"}, items : SUBSET Items]
            \cup [at : {"failing"}, terminal : BOOLEAN]

\* Files that an earlier cycle left behind without learning of them.
Unrecorded == {i \in Pending : remote[i] # 0}

\* What a controller holds between two steps, suspended or not.
StageFits(w) ==
    /\ At(w, "finalize") => done = Items
    /\ pc[w].at \in {"adopt", "complete"} => \A i \in pc[w].items : remote[i] >= 1

DeliveryFits ==
    /\ TypeOK /\ done \in SUBSET Items /\ pc \in [Workers -> Stages]
    /\ stalls \in BOOLEAN
    /\ \A w \in Workers : StageFits(w)
    /\ \A i \in done : remote[i] >= 1

\* What a controller at work may rely on: it has the claim and its lease, so
\* that it is alone.
WorkFits(w) ==
    /\ ~At(w, "idle") => Owned(w) /\ row.live
    /\ pc[w].at \in {"adopt", "complete"} => pc[w].items = Unrecorded
    /\ pc[w].at \in {"pick", "upload"} => Unrecorded = {}
    /\ At(w, "upload") => /\ pc[w].items \subseteq Pending
                          /\ Cardinality(pc[w].items) <= BatchSize

\* An upload starts when everything in the folder is recorded, so that what a
\* lost one leaves behind is at most one batch, which the next cycle adopts.
Exclusive == /\ \A w \in Workers : WorkFits(w)
             /\ \A i \in Items : remote[i] <= 1
             /\ Cardinality(Unrecorded) <= BatchSize

FInv == DeliveryFits /\ (~stalls => Exclusive)

-----------------------------------------------------------------------------
(* Batches, and what a step leaves as it was.                               *)

LEMMA BatchIs ==
    ASSUME DeliveryBounds, NEW s \in SUBSET Items
    PROVE  /\ IsFiniteSet(s) /\ Cardinality(s) \in Nat
           /\ Batch(s) \in SUBSET s /\ Cardinality(Batch(s)) <= BatchSize
           /\ Cardinality(s) <= BatchSize => Batch(s) = s
<1>1. IsFiniteSet(s) /\ Cardinality(s) \in Nat
  <2>1. 1 \in Int /\ Count \in Int
    BY DEF DeliveryBounds
  <2>2. IsFiniteSet(Items)
    BY <2>1, FS_Interval DEF Items
  <2>3. QED
    BY <2>2, FS_Subset, FS_CardinalityType
<1>2. s \in SUBSET Nat /\ BatchSize \in Nat
  BY DEF Items, DeliveryBounds
<1>3. Cardinality(Batch(s)) <= BatchSize
  BY <1>1, <1>2, AtMostTheLimit DEF Batch
<1>4. ASSUME Cardinality(s) <= BatchSize, NEW i \in s
      PROVE  Cardinality({j \in s : j < i}) < BatchSize
  <2> DEFINE before == {j \in s : j < i}
  <2>1. before \in SUBSET s /\ i \notin before
    BY <1>2
  <2>2. before # s
    BY <2>1
  <2> HIDE DEF before
  <2>3. Cardinality(before) \in Nat /\ Cardinality(before) < Cardinality(s)
    BY <1>1, <2>1, <2>2, FS_Subset, FS_CardinalityType
  <2>4. Cardinality(before) < BatchSize
    BY <1>1, <1>2, <1>4, <2>3
  <2>5. QED
    BY <2>4 DEF before
<1>5. QED
  BY <1>1, <1>3, <1>4 DEF Batch

LEMMA FewUnrecorded ==
    ASSUME DeliveryBounds, NEW s \in SUBSET Items, Cardinality(s) <= BatchSize,
           NEW t \in SUBSET s
    PROVE  Cardinality(t) <= BatchSize
<1>1. IsFiniteSet(s) /\ Cardinality(s) \in Nat
  BY BatchIs
<1>2. Cardinality(t) \in Nat /\ Cardinality(t) <= Cardinality(s)
  BY <1>1, FS_Subset, FS_CardinalityType
<1>3. QED
  BY <1>1, <1>2 DEF DeliveryBounds

\* Deliveries only advance: what is recorded stays so, and files stay.
LEMMA DeliveryAdvances ==
    ASSUME DeliveryFits, TypeOK', stalls' = stalls, NEW w \in Workers, NEW x \in Stages,
           pc' = [pc EXCEPT ![w] = x], StageFits(w)',
           done' \in SUBSET Items, done \subseteq done',
           \A i \in Items : remote'[i] >= remote[i], \A i \in done' : remote'[i] >= 1
    PROVE  DeliveryFits'
<1>1. pc' \in [Workers -> Stages]
  BY DEF DeliveryFits
<1>2. ASSUME NEW v \in Workers, v # w PROVE StageFits(v)'
  <2>1. pc'[v] = pc[v] /\ pc[v] \in Stages
    BY <1>2 DEF DeliveryFits
  <2>2. ASSUME pc[v].at \in {"adopt", "complete"}, NEW i \in pc[v].items
        PROVE  remote'[i] >= 1
    <3>1. i \in Items /\ remote[i] >= 1
      BY <2>1, <2>2 DEF Stages, DeliveryFits, StageFits
    <3>2. remote[i] \in Nat /\ remote'[i] \in Nat /\ remote'[i] >= remote[i]
      BY <3>1 DEF DeliveryFits, TypeOK
    <3>3. QED
      BY <3>1, <3>2
  <2>3. QED
    BY <2>1, <2>2 DEF StageFits, At, DeliveryFits
<1>3. QED
  BY <1>1, <1>2 DEF DeliveryFits

\* While no controller is suspended, one at most is at work.
LEMMA OthersRest ==
    ASSUME DeliveryFits, Exclusive, NEW w \in Workers, ~At(w, "idle")
    PROVE  /\ Owned(w) /\ row.live
           /\ \A v \in Workers : v # w => At(v, "idle")
BY DEF Exclusive, WorkFits, Owned

LEMMA WorkGoesOn ==
    ASSUME DeliveryFits, Exclusive, NEW w \in Workers, ~At(w, "idle"),
           NEW x, pc' = [pc EXCEPT ![w] = x], WorkFits(w)',
           \A i \in Items : remote'[i] <= 1, Cardinality(Unrecorded') <= BatchSize
    PROVE  Exclusive'
<1>1. ASSUME NEW v \in Workers, v # w PROVE WorkFits(v)'
  <2>1. At(v, "idle") /\ pc'[v] = pc[v]
    BY <1>1, OthersRest DEF DeliveryFits
  <2>2. QED
    BY <2>1 DEF WorkFits, At
<1>2. QED
  BY <1>1 DEF Exclusive

\* Nobody is at work before or after a step of the row.
LEMMA AllRest ==
    ASSUME Exclusive, UNCHANGED <<done, remote, pc>>,
           \A w \in Workers : At(w, "idle")
    PROVE  Exclusive'
BY DEF Exclusive, WorkFits, At, Unrecorded, Pending

-----------------------------------------------------------------------------
(* Every step keeps the invariant of a delivery.                            *)

\* An operator's request, a new row, a lease that runs out, a touched folder:
\* while no controller is suspended, nobody is at work when they happen.
LEMMA RowStepsKeep ==
    ASSUME DeliveryBounds, FInv,
           Request \/ LeaseExpires \/ TouchFolder \/ \E w \in Workers : Create(w)
    PROVE  FInv'
<1>1. TypeOK' /\ UNCHANGED <<done, remote, stalls, pc>>
  <2>1. row \in DeliveryRows /\ (row.state = "CLAIMED" <=> row.owner # Nobody)
        /\ (row.state = "SUCCEEDED" => done = Items)
        /\ remote \in [Items -> Nat]
    BY DEF FInv, DeliveryFits, TypeOK
  <2>2. CASE Request
    BY <2>1, <2>2 DEF Request, TypeOK, DeliveryRows, Unleased
  <2>3. CASE LeaseExpires
    BY <2>1, <2>3 DEF LeaseExpires, TypeOK, DeliveryRows
  <2>4. CASE TouchFolder
    BY <2>1, <2>4 DEF TouchFolder, TypeOK, DeliveryRows
  <2>5. CASE \E w \in Workers : Create(w)
    BY <2>1, <2>5 DEF Create, TypeOK, DeliveryRows
  <2>6. QED
    BY <2>2, <2>3, <2>4, <2>5
<1>2. DeliveryFits'
  BY <1>1 DEF FInv, DeliveryFits, StageFits, At
<1>3. ASSUME ~stalls PROVE Exclusive'
  <2>1. Exclusive
    BY <1>3 DEF FInv
  <2>2. CASE TouchFolder
    BY <2>1, <2>2 DEF TouchFolder, Exclusive, WorkFits, At, Owned, Unrecorded, Pending
  <2>3. CASE ~TouchFolder
    <3>1. ASSUME NEW w \in Workers, ~At(w, "idle") PROVE FALSE
      <4>1. Owned(w) /\ row.live
        BY <2>1, <3>1, OthersRest DEF FInv
      <4>2. row.state = "CLAIMED" /\ row.owner = w
        BY <4>1 DEF Owned
      <4>3. QED
        BY <1>3, <2>3, <3>1, <4>2 DEF Request, LeaseExpires, Create
    <3>2. QED
      BY <1>1, <2>1, <3>1, AllRest
  <2>4. QED
    BY <2>2, <2>3
<1>4. QED
  BY <1>1, <1>2, <1>3 DEF FInv

\* A claim takes what is due: under a lease that ran out nobody is at work.
LEMMA ClaimKeeps ==
    ASSUME DeliveryBounds, FInv, NEW w \in Workers, Claim(w)
    PROVE  FInv'
<1> DEFINE x == [at |-> "plan"]
<1>1. x \in Stages /\ pc' = [pc EXCEPT ![w] = x] /\ pc'[w] = x
  BY DEF Claim, Stages, FInv, DeliveryFits
<1>2. /\ row' = [row EXCEPT !.state = "CLAIMED", !.owner = w, !.live = TRUE]
      /\ UNCHANGED <<done, remote, stalls>> /\ row \in DeliveryRows /\ w # Nobody
  BY DEF Claim, FInv, DeliveryFits, TypeOK, DeliveryBounds
<1>3. TypeOK' /\ Owned(w)' /\ row'.live
  BY <1>2 DEF TypeOK, FInv, DeliveryFits, DeliveryRows, Owned
<1>4. DeliveryFits'
  <2>1. StageFits(w)'
    BY <1>1 DEF StageFits, At
  <2>2. \A i \in Items : remote'[i] >= remote[i]
    BY <1>2 DEF FInv, DeliveryFits, TypeOK
  <2>3. /\ DeliveryFits /\ done' \in SUBSET Items /\ done \subseteq done'
        /\ \A i \in done' : remote'[i] >= 1
    BY <1>2 DEF FInv, DeliveryFits
  <2> HIDE DEF x
  <2>4. QED
    BY <1>1, <1>2, <1>3, <2>1, <2>2, <2>3, DeliveryAdvances
<1>5. ASSUME ~stalls PROVE Exclusive'
  <2>1. Exclusive
    BY <1>5 DEF FInv
  <2>2. \A v \in Workers : At(v, "idle")
    <3>1. SUFFICES ASSUME NEW v \in Workers, ~At(v, "idle") PROVE FALSE
      OBVIOUS
    <3>2. Owned(v) /\ row.live
      BY <2>1, <3>1, OthersRest DEF FInv
    <3>3. QED
      BY <3>2 DEF Claim, Due, Owned
  <2>3. \A v \in Workers : v # w => At(v, "idle")'
    BY <1>1, <2>2 DEF At, FInv, DeliveryFits
  <2>4. Unrecorded' = Unrecorded
    BY <1>2 DEF Unrecorded, Pending
  <2>5. \A v \in Workers : WorkFits(v)'
    BY <1>1, <1>3, <2>3 DEF WorkFits, At
  <2>6. QED
    BY <1>2, <2>1, <2>4, <2>5 DEF Exclusive
<1>6. QED
  BY <1>2, <1>4, <1>5 DEF FInv

\* A cycle that goes on, or ends, with nothing in the folder changed.
LEMMA StageKeeps ==
    ASSUME DeliveryBounds, FInv, NEW w \in Workers, ~At(w, "idle"),
           NEW x \in Stages, pc' = [pc EXCEPT ![w] = x], StageFits(w)', TypeOK',
           UNCHANGED <<remote, stalls>>, done' \in SUBSET Items, done \subseteq done',
           \A i \in done' : remote[i] >= 1,
           ~stalls => WorkFits(w)'
    PROVE  FInv'
<1>1. DeliveryFits'
  <2>1. \A i \in Items : remote'[i] >= remote[i]
    BY DEF FInv, DeliveryFits, TypeOK
  <2>2. DeliveryFits /\ \A i \in done' : remote'[i] >= 1
    BY DEF FInv
  <2>3. QED
    BY <2>1, <2>2, DeliveryAdvances
<1>2. ASSUME ~stalls PROVE Exclusive'
  <2>1. Exclusive /\ DeliveryFits
    BY <1>2 DEF FInv
  <2>2. Unrecorded' \in SUBSET Unrecorded /\ Unrecorded \in SUBSET Items
    BY DEF Unrecorded, Pending
  <2>3. Cardinality(Unrecorded') <= BatchSize
    BY <2>1, <2>2, FewUnrecorded DEF Exclusive
  <2>4. \A i \in Items : remote'[i] <= 1
    BY <2>1 DEF Exclusive
  <2>5. QED
    BY <1>2, <2>1, <2>3, <2>4, WorkGoesOn
<1>3. QED
  BY <1>1, <1>2 DEF FInv

LEMMA StageIs ==
    ASSUME DeliveryFits, NEW w \in Workers
    PROVE  /\ pc[w] \in Stages
           /\ pc[w].at \in {"plan", "list", "pick", "finalize"} =>
                pc[w] \in [at : {"plan", "list", "pick", "finalize"}]
           /\ pc[w].at \in {"adopt", "upload", "complete"} =>
                pc[w] \in [at : {"adopt", "upload", "complete"}, items : SUBSET Items]
           /\ At(w, "failing") => pc[w].terminal \in BOOLEAN
BY DEF DeliveryFits, Stages, At

\* A cycle ends without a record of it: its claim is lost, or it dies while it
\* uploads nothing.
LEMMA LeavesKeep ==
    ASSUME DeliveryBounds, FInv, NEW w \in Workers,
           LeaseLost(w) \/ (Crash(w) /\ ~At(w, "upload"))
    PROVE  FInv'
<1>1. /\ ~At(w, "idle") /\ pc' = [pc EXCEPT ![w] = Idle]
      /\ UNCHANGED <<row, done, remote, stalls>>
  BY DEF LeaseLost, Crash, At
<1>2. Idle \in Stages /\ pc'[w] = Idle
  BY <1>1 DEF Stages, Idle, FInv, DeliveryFits
<1>3. TypeOK' /\ StageFits(w)' /\ (~stalls => WorkFits(w)')
  BY <1>1, <1>2 DEF TypeOK, StageFits, WorkFits, At, Idle, FInv, DeliveryFits
<1>4. /\ done' \in SUBSET Items /\ done \subseteq done' /\ \A i \in done' : remote[i] >= 1
  BY <1>1 DEF FInv, DeliveryFits
<1>5. QED
  BY <1>1, <1>2, <1>3, <1>4, StageKeeps

\* A failure is noted, and recorded in the row by the cycle that still has the
\* claim; a cycle that has uploaded a batch gives its claim back.
LEMMA EndsKeep ==
    ASSUME DeliveryBounds, FInv, NEW w \in Workers,
           StageFails(w) \/ RecordFailure(w) \/ Release(w)
    PROVE  FInv'
<1>1. PICK x \in Stages : /\ pc' = [pc EXCEPT ![w] = x]
                          /\ \/ x = Idle /\ Owned(w)
                             \/ x.at = "failing" /\ row' = row
  <2>1. CASE StageFails(w)
    <3>1. PICK terminal \in BOOLEAN : Fail(w, terminal)
      BY <2>1 DEF StageFails
    <3>2. [at |-> "failing", terminal |-> terminal] \in Stages
      BY DEF Stages
    <3>3. QED
      BY <2>1, <3>1, <3>2 DEF Fail, StageFails
  <2>2. CASE RecordFailure(w) \/ Release(w)
    <3>1. Idle \in Stages
      BY DEF Idle, Stages
    <3>2. QED
      BY <2>2, <3>1 DEF RecordFailure, Release
  <2>3. QED
    BY <2>1, <2>2
<1>2. ~At(w, "idle") /\ UNCHANGED <<done, remote, stalls>>
  BY DEF StageFails, RecordFailure, Release, At
<1>3. TypeOK'
  <2>1. TypeOK
    BY DEF FInv, DeliveryFits
  <2>2. CASE StageFails(w)
    BY <2>1, <2>2 DEF TypeOK, StageFails
  <2>3. CASE RecordFailure(w)
    BY <2>1, <2>3 DEF TypeOK, RecordFailure, Unleased, DeliveryRows
  <2>4. CASE Release(w)
    BY <2>1, <2>4 DEF TypeOK, Release, Unleased, DeliveryRows
  <2>5. QED
    BY <2>2, <2>3, <2>4
<1>4. pc'[w] = x
  BY <1>1 DEF FInv, DeliveryFits
<1>5. StageFits(w)'
  BY <1>1, <1>4 DEF StageFits, At, Idle
<1>6. ASSUME ~stalls PROVE WorkFits(w)'
  <2>1. Owned(w) /\ row.live
    BY <1>2, <1>6, OthersRest DEF FInv
  <2>2. QED
    BY <1>1, <1>4, <2>1 DEF WorkFits, At, Idle, Owned
<1>7. /\ done' \in SUBSET Items /\ done \subseteq done' /\ \A i \in done' : remote[i] >= 1
  BY <1>2 DEF FInv, DeliveryFits
<1>8. QED
  BY <1>1, <1>2, <1>3, <1>5, <1>6, <1>7, StageKeeps

\* The last look at the folder.
LEMMA FinalizeKeeps ==
    ASSUME DeliveryBounds, FInv, NEW w \in Workers, Finalize(w)
    PROVE  FInv'
<1>1. ~At(w, "idle") /\ UNCHANGED <<done, remote, stalls>> /\ Owned(w) /\ done = Items
  BY DEF Finalize, At, FInv, DeliveryFits, StageFits
<1>2. /\ done' \in SUBSET Items /\ done \subseteq done' /\ \A i \in done' : remote[i] >= 1
  BY <1>1 DEF FInv, DeliveryFits
<1>3. CASE foreign \/ \E i \in Items : remote[i] # 1
  <2> DEFINE x == [at |-> "failing", terminal |-> TRUE]
  <2>1. pc' = [pc EXCEPT ![w] = x] /\ row' = row /\ x \in Stages /\ x.at = "failing"
    BY <1>3 DEF Finalize, Fail, Stages
  <2>2. pc'[w] = x
    BY <2>1 DEF FInv, DeliveryFits
  <2>3. TypeOK' /\ StageFits(w)'
    BY <1>1, <2>1, <2>2 DEF TypeOK, StageFits, At, FInv, DeliveryFits
  <2>4. ASSUME ~stalls PROVE WorkFits(w)'
    <3>1. Owned(w) /\ row.live
      BY <1>1, <2>4, OthersRest DEF FInv
    <3>2. QED
      BY <2>1, <2>2, <3>1 DEF WorkFits, At, Owned
  <2> HIDE DEF x
  <2>5. QED
    BY <1>1, <1>2, <2>1, <2>3, <2>4, StageKeeps
<1>4. CASE ~(foreign \/ \E i \in Items : remote[i] # 1)
  <2>1. pc' = [pc EXCEPT ![w] = Idle] /\ row' = Unleased(row, "SUCCEEDED") /\ Idle \in Stages
    BY <1>4 DEF Finalize, Idle, Stages
  <2>2. pc'[w] = Idle
    BY <2>1 DEF FInv, DeliveryFits
  <2>3. TypeOK' /\ StageFits(w)' /\ WorkFits(w)'
    BY <1>1, <2>1, <2>2
    DEF TypeOK, Unleased, DeliveryRows, StageFits, WorkFits, At, Idle, FInv, DeliveryFits
  <2>4. QED
    BY <1>1, <1>2, <2>1, <2>3, StageKeeps
<1>5. QED
  BY <1>3, <1>4

\* The items are planned.
LEMMA PlanKeeps ==
    ASSUME DeliveryBounds, FInv, NEW w \in Workers, Plan(w)
    PROVE  FInv'
<1> DEFINE x == [pc[w] EXCEPT !.at = "list"]
<1>1. ~At(w, "idle") /\ pc' = [pc EXCEPT ![w] = x] /\ UNCHANGED <<done, remote, stalls>>
  BY DEF Plan, At
<1>2. pc[w] \in [at : {"plan", "list", "pick", "finalize"}]
  BY StageIs DEF FInv, Plan, At
<1>3. x \in Stages /\ x.at = "list"
  BY <1>2 DEF Stages
<1>4. pc'[w] = x
  BY <1>1 DEF FInv, DeliveryFits
<1>5. TypeOK' /\ Owned(w)' /\ row'.live = row.live
  BY DEF Plan, TypeOK, FInv, DeliveryFits, DeliveryRows, Owned
<1> HIDE DEF x
<1>6. StageFits(w)'
  BY <1>3, <1>4 DEF StageFits, At
<1>7. ASSUME ~stalls PROVE WorkFits(w)'
  <2>1. row.live
    BY <1>1, <1>7, OthersRest DEF FInv
  <2>2. QED
    BY <1>3, <1>4, <1>5, <2>1 DEF WorkFits, At
<1>8. /\ done' \in SUBSET Items /\ done \subseteq done' /\ \A i \in done' : remote[i] >= 1
  BY <1>1 DEF FInv, DeliveryFits
<1>9. QED
  BY <1>1, <1>3, <1>5, <1>6, <1>7, <1>8, StageKeeps

\* The folder is listed: what is in it and not recorded is one batch.
LEMMA ListKeeps ==
    ASSUME DeliveryBounds, FInv, NEW w \in Workers, List(w)
    PROVE  FInv'
<1> DEFINE there == {i \in Pending : remote[i] = 1}
<1>1. ~At(w, "idle") /\ UNCHANGED <<row, done, remote, stalls>> /\ remote \in [Items -> Nat]
  BY DEF List, At, FInv, DeliveryFits, TypeOK
<1>2. there \in SUBSET Items /\ Batch(there) \in SUBSET there
  <2>1. there \in SUBSET Items
    BY DEF Pending
  <2>2. QED
    BY <2>1, BatchIs
<1>3. PICK x : /\ pc' = [pc EXCEPT ![w] = x]
               /\ \/ x = [at |-> "failing", terminal |-> TRUE]
                  \/ /\ \A i \in Items : ~(remote[i] > 1)
                     /\ \/ x = [at |-> "adopt", items |-> Batch(there)]
                        \/ x = [pc[w] EXCEPT !.at = "pick"] /\ there = {}
  BY DEF List, Fail
<1>4. x \in Stages /\ pc'[w] = x /\ x.at \in {"failing", "adopt", "pick"}
  <2>1. pc[w] \in [at : {"plan", "list", "pick", "finalize"}]
    BY StageIs DEF FInv, List, At
  <2>2. [pc[w] EXCEPT !.at = "pick"] \in [at : {"pick"}]
    BY <2>1
  <2>3. x \in Stages /\ x.at \in {"failing", "adopt", "pick"}
    <3>1. CASE x = [at |-> "failing", terminal |-> TRUE]
      BY <3>1 DEF Stages
    <3>2. CASE x = [at |-> "adopt", items |-> Batch(there)]
      <4>1. Batch(there) \in SUBSET Items
        BY <1>2
      <4> HIDE DEF there
      <4>2. QED
        BY <3>2, <4>1 DEF Stages
    <3>3. CASE x = [pc[w] EXCEPT !.at = "pick"]
      <4>1. x \in [at : {"pick"}]
        BY <2>2, <3>3
      <4>2. QED
        BY <4>1 DEF Stages
    <3>4. QED
      BY <1>3, <3>1, <3>2, <3>3
  <2>4. QED
    BY <1>3, <2>3 DEF FInv, DeliveryFits
<1>5. x.at = "adopt" => x.items = Batch(there)
  BY <1>3, <1>4, StageIs DEF FInv, List, At
<1>6. StageFits(w)'
  BY <1>1, <1>2, <1>4, <1>5 DEF StageFits, At
<1>7. TypeOK'
  BY <1>1 DEF TypeOK, FInv, DeliveryFits
<1>8. ASSUME ~stalls PROVE WorkFits(w)'
  <2>1. Exclusive /\ Owned(w) /\ row.live
    BY <1>1, <1>8, OthersRest DEF FInv
  <2>2. there = Unrecorded
    BY <1>1, <2>1 DEF Exclusive, Unrecorded, Pending
  <2>3. Batch(there) = there
    BY <1>2, <2>1, <2>2, BatchIs DEF Exclusive
  <2>4. Unrecorded' = Unrecorded
    BY <1>1 DEF Unrecorded, Pending
  <2>5. x.at = "pick" => Unrecorded = {}
    BY <1>3, <2>2
  <2> HIDE DEF there
  <2>6. QED
    BY <1>1, <1>4, <1>5, <2>1, <2>2, <2>3, <2>4, <2>5 DEF WorkFits, At, Owned
<1>9. /\ done' \in SUBSET Items /\ done \subseteq done' /\ \A i \in done' : remote[i] >= 1
  BY <1>1 DEF FInv, DeliveryFits
<1> HIDE DEF there
<1>10. QED
  BY <1>1, <1>3, <1>4, <1>6, <1>7, <1>8, <1>9, StageKeeps

\* What is adopted, or uploaded with an answer, is recorded: nothing in the
\* folder is unrecorded then.
LEMMA RecordsKeep ==
    ASSUME DeliveryBounds, FInv, NEW w \in Workers, Adopt(w) \/ Complete(w)
    PROVE  FInv'
<1>1. /\ ~At(w, "idle") /\ pc[w].at \in {"adopt", "complete"}
      /\ UNCHANGED <<row, remote, stalls>> /\ done' = done \cup pc[w].items
  BY DEF Adopt, Complete, At
<1>2. pc[w].items \in SUBSET Items /\ \A i \in pc[w].items : remote[i] >= 1
  BY <1>1, StageIs DEF FInv, DeliveryFits, StageFits
<1>3. /\ done' \in SUBSET Items /\ done \subseteq done' /\ \A i \in done' : remote[i] >= 1
  BY <1>1, <1>2 DEF FInv, DeliveryFits
<1>4. PICK x \in Stages : /\ pc' = [pc EXCEPT ![w] = x]
                          /\ x.at \in {"pick", "finalize", "release"}
                          /\ x.at = "finalize" => Items \subseteq done'
  <2>1. CASE Adopt(w)
    <3> DEFINE x == [at |-> "pick"]
    <3>1. x \in Stages /\ x.at = "pick" /\ pc' = [pc EXCEPT ![w] = x]
      BY <2>1 DEF Adopt, Stages
    <3>2. QED
      BY <3>1
  <2>2. CASE Complete(w)
    <3> DEFINE x == [at |-> IF Items \subseteq done' THEN "finalize" ELSE "release"]
    <3>1. x \in Stages /\ x.at \in {"finalize", "release"}
          /\ (x.at = "finalize" => Items \subseteq done')
      BY DEF Stages
    <3>2. pc' = [pc EXCEPT ![w] = x]
      BY <2>2 DEF Complete
    <3>3. QED
      BY <3>1, <3>2
  <2>3. QED
    BY <2>1, <2>2
<1>5. pc'[w] = x
  BY <1>4 DEF FInv, DeliveryFits
<1>6. StageFits(w)'
  BY <1>3, <1>4, <1>5 DEF StageFits, At
<1>7. TypeOK'
  BY <1>1, <1>3 DEF TypeOK, FInv, DeliveryFits
<1>8. ASSUME ~stalls PROVE WorkFits(w)'
  <2>1. Owned(w) /\ row.live /\ pc[w].items = Unrecorded
    BY <1>1, <1>8, OthersRest DEF FInv, Exclusive, WorkFits
  <2>2. Unrecorded' = {}
    BY <1>1, <2>1 DEF Unrecorded, Pending
  <2>3. QED
    BY <1>1, <1>4, <1>5, <2>1, <2>2 DEF WorkFits, At, Owned
<1>9. QED
  BY <1>1, <1>3, <1>4, <1>6, <1>7, <1>8, StageKeeps

\* The next batch is picked when nothing in the folder is unrecorded.
LEMMA PickKeeps ==
    ASSUME DeliveryBounds, FInv, NEW w \in Workers, Pick(w)
    PROVE  FInv'
<1> DEFINE part == {i \in Pending : Part(i) = Part(Min(Pending))}
<1>1. ~At(w, "idle") /\ UNCHANGED <<row, done, remote, stalls>>
  BY DEF Pick, At
<1>2. /\ part \in SUBSET Items /\ Batch(part) \in SUBSET part
      /\ Cardinality(Batch(part)) <= BatchSize
  <2>1. part \in SUBSET Items
    BY DEF Pending
  <2>2. QED
    BY <2>1, BatchIs
<1>3. PICK x \in Stages : /\ pc' = [pc EXCEPT ![w] = x]
                          /\ \/ x.at = "finalize" /\ Pending = {}
                             \/ x = [at |-> "upload", items |-> Batch(part)]
  <2>1. pc[w] \in [at : {"plan", "list", "pick", "finalize"}]
    BY StageIs DEF FInv, Pick, At
  <2>2. [pc[w] EXCEPT !.at = "finalize"] \in [at : {"finalize"}]
    BY <2>1
  <2>3. CASE Pending = {}
    BY <2>2, <2>3 DEF Pick, Stages
  <2>4. CASE Pending # {}
    <3>1. pc' = [pc EXCEPT ![w] = [at |-> "upload", items |-> Batch(part)]]
      BY <2>4 DEF Pick
    <3>2. [at |-> "upload", items |-> Batch(part)] \in Stages
      BY <1>2 DEF Stages
    <3>3. QED
      BY <3>1, <3>2
  <2>5. QED
    BY <2>3, <2>4
<1>4. pc'[w] = x
  BY <1>3 DEF FInv, DeliveryFits
<1>5. StageFits(w)'
  <2>1. x.at = "finalize" \/ x.at = "upload"
    BY <1>3
  <2>2. x.at = "finalize" => done' = Items
    BY <1>1, <1>3 DEF FInv, DeliveryFits, Pending
  <2>3. QED
    BY <1>4, <2>1, <2>2 DEF StageFits, At
<1>6. TypeOK'
  BY <1>1 DEF TypeOK, FInv, DeliveryFits
<1>7. ASSUME ~stalls PROVE WorkFits(w)'
  <2>1. Owned(w) /\ row.live /\ Unrecorded = {}
    BY <1>1, <1>7, OthersRest DEF FInv, Exclusive, WorkFits, Pick, At
  <2>2. Unrecorded' = {} /\ Pending' = Pending
    BY <1>1, <2>1 DEF Unrecorded, Pending
  <2>3. part \in SUBSET Pending
    OBVIOUS
  <2> HIDE DEF part
  <2>4. QED
    BY <1>1, <1>2, <1>3, <1>4, <2>1, <2>2, <2>3 DEF WorkFits, At, Owned
<1>8. /\ done' \in SUBSET Items /\ done \subseteq done' /\ \A i \in done' : remote[i] >= 1
  BY <1>1 DEF FInv, DeliveryFits
<1> HIDE DEF part
<1>9. QED
  BY <1>1, <1>3, <1>5, <1>6, <1>7, <1>8, StageKeeps

LEMMA LandedIs ==
    ASSUME DeliveryFits, NEW s \in SUBSET Items, remote' = Landed(s)
    PROVE  /\ remote' \in [Items -> Nat]
           /\ \A i \in Items : /\ remote[i] \in Nat /\ remote'[i] \in Nat
                               /\ remote'[i] >= remote[i]
                               /\ i \in s => remote'[i] = remote[i] + 1
                               /\ i \notin s => remote'[i] = remote[i]
<1>1. remote \in [Items -> Nat]
  BY DEF DeliveryFits, TypeOK
<1>2. \A i \in Items : remote'[i] = IF i \in s THEN remote[i] + 1 ELSE remote[i]
  BY DEF Landed
<1>3. \A i \in Items : remote[i] \in Nat /\ remote'[i] \in Nat
  BY <1>1, <1>2
<1>4. remote' \in [Items -> Nat]
  BY <1>1 DEF Landed
<1>5. QED
  BY <1>2, <1>3, <1>4

\* An upload, answered or cut off: some of its batch is in the folder, and
\* while no controller is suspended nothing else there is unrecorded.
LEMMA UploadsKeep ==
    ASSUME DeliveryBounds, FInv, NEW w \in Workers,
           Upload(w) \/ UploadUncertain(w) \/ (Crash(w) /\ At(w, "upload"))
    PROVE  FInv'
<1>1. /\ At(w, "upload") /\ ~At(w, "idle") /\ UNCHANGED <<row, done, stalls>>
      /\ pc[w] \in [at : {"adopt", "upload", "complete"}, items : SUBSET Items]
  BY StageIs DEF Upload, UploadUncertain, Crash, At, FInv
<1>2. PICK s \in SUBSET pc[w].items, x \in Stages :
        /\ remote' = Landed(s) /\ pc' = [pc EXCEPT ![w] = x]
        /\ \/ x.at \in {"idle", "failing"}
           \/ x.at = "complete" /\ x.items = s /\ s = pc[w].items
  <2>1. CASE Upload(w)
    <3> DEFINE x == [pc[w] EXCEPT !.at = "complete"]
    <3>1. x \in Stages /\ x.at = "complete" /\ x.items = pc[w].items
      BY <1>1 DEF Stages
    <3>2. remote' = Landed(pc[w].items) /\ pc' = [pc EXCEPT ![w] = x]
      BY <2>1 DEF Upload
    <3> HIDE DEF x
    <3>3. QED
      BY <3>1, <3>2
  <2>2. CASE UploadUncertain(w)
    <3> DEFINE x == [at |-> "failing", terminal |-> FALSE]
    <3>1. x \in Stages /\ x.at = "failing"
      BY DEF Stages
    <3>2. pc' = [pc EXCEPT ![w] = x] /\ \E s \in SUBSET pc[w].items : remote' = Landed(s)
      BY <2>2 DEF UploadUncertain, Fail
    <3> HIDE DEF x
    <3>3. QED
      BY <3>1, <3>2
  <2>3. CASE Crash(w) /\ At(w, "upload")
    <3>1. Idle \in Stages /\ Idle.at = "idle"
      BY DEF Stages, Idle
    <3>2. pc' = [pc EXCEPT ![w] = Idle] /\ \E s \in SUBSET pc[w].items : remote' = Landed(s)
      BY <2>3 DEF Crash
    <3>3. QED
      BY <3>1, <3>2
  <2>4. QED
    BY <2>1, <2>2, <2>3
<1>3. s \in SUBSET Items /\ pc'[w] = x
  BY <1>1, <1>2 DEF FInv, DeliveryFits
<1>4. /\ remote' \in [Items -> Nat]
      /\ \A i \in Items : /\ remote[i] \in Nat /\ remote'[i] \in Nat
                          /\ remote'[i] >= remote[i]
                          /\ i \in s => remote'[i] = remote[i] + 1
                          /\ i \notin s => remote'[i] = remote[i]
  BY <1>2, <1>3, LandedIs DEF FInv
<1>5. TypeOK'
  BY <1>1, <1>4 DEF TypeOK, FInv, DeliveryFits
<1>6. StageFits(w)'
  <2>1. \A i \in s : remote'[i] >= 1
    BY <1>3, <1>4
  <2>2. QED
    BY <1>2, <1>3, <2>1 DEF StageFits, At
<1>7. \A i \in done' : remote'[i] >= 1
  <2>1. ASSUME NEW i \in done PROVE remote'[i] >= 1
    <3>1. i \in Items /\ remote[i] >= 1
      BY <2>1 DEF FInv, DeliveryFits
    <3>2. QED
      BY <1>4, <3>1
  <2>2. QED
    BY <1>1, <2>1
<1>8. DeliveryFits'
  <2>1. DeliveryFits /\ done' \in SUBSET Items /\ done \subseteq done'
    BY <1>1 DEF FInv, DeliveryFits
  <2>2. \A i \in Items : remote'[i] >= remote[i]
    BY <1>4
  <2>3. QED
    BY <1>1, <1>2, <1>5, <1>6, <1>7, <2>1, <2>2, DeliveryAdvances
<1>9. ASSUME ~stalls PROVE Exclusive'
  <2>1. /\ Exclusive /\ DeliveryFits /\ Owned(w) /\ row.live /\ Unrecorded = {}
        /\ pc[w].items \subseteq Pending /\ Cardinality(pc[w].items) <= BatchSize
    BY <1>1, <1>9, OthersRest DEF FInv, Exclusive, WorkFits, At
  <2>2. \A i \in Pending : remote[i] = 0
    BY <2>1 DEF Unrecorded
  <2>3. \A i \in Items : remote'[i] <= 1
    <3>1. SUFFICES ASSUME NEW i \in Items PROVE remote'[i] <= 1
      OBVIOUS
    <3>2. CASE i \in s
      BY <1>2, <1>4, <2>1, <2>2, <3>2
    <3>3. CASE i \notin s
      BY <1>4, <2>1, <3>3 DEF Exclusive
    <3>4. QED
      BY <3>2, <3>3
  <2>4. Unrecorded' = s
    <3>1. Pending' = Pending /\ Pending \in SUBSET Items /\ s \in SUBSET Pending
      BY <1>1, <1>2, <2>1 DEF Pending
    <3>2. ASSUME NEW i \in Pending PROVE remote'[i] # 0 <=> i \in s
      BY <1>4, <2>2, <3>1, <3>2
    <3>3. QED
      BY <3>1, <3>2 DEF Unrecorded
  <2>5. Cardinality(Unrecorded') <= BatchSize
    BY <1>1, <1>2, <2>1, <2>4, FewUnrecorded
  <2>6. WorkFits(w)'
    <3>1. Owned(w)' /\ row'.live
      BY <1>1, <2>1 DEF Owned
    <3>2. QED
      BY <1>2, <1>3, <2>4, <3>1 DEF WorkFits, At
  <2>7. QED
    BY <1>1, <1>2, <2>1, <2>3, <2>5, <2>6, WorkGoesOn
<1>10. QED
  BY <1>1, <1>8, <1>9 DEF FInv

LEMMA InitFInv == ASSUME DeliveryBounds, Init PROVE FInv
<1>1. TypeOK
  BY DEF Init, TypeOK, DeliveryRows, DeliveryBounds
<1>2. DeliveryFits
  <2>1. pc \in [Workers -> Stages] /\ \A w \in Workers : pc[w].at = "idle"
    BY DEF Init, Idle, Stages
  <2>2. done \in SUBSET Items /\ stalls \in BOOLEAN /\ \A i \in done : remote[i] >= 1
    BY DEF Init
  <2>3. QED
    BY <1>1, <2>1, <2>2 DEF DeliveryFits, StageFits, At
<1>3. Exclusive
  <2>1. Unrecorded = {} /\ \A i \in Items : remote[i] <= 1
    BY DEF Init, Unrecorded, Pending
  <2>2. \A w \in Workers : WorkFits(w)
    BY DEF Init, WorkFits, At, Idle
  <2>3. Cardinality(Unrecorded) <= BatchSize
    BY <2>1, FS_EmptySet DEF DeliveryBounds
  <2>4. QED
    BY <2>1, <2>2, <2>3 DEF Exclusive
<1>4. QED
  BY <1>2, <1>3 DEF FInv

LEMMA NextKeepsFInv == ASSUME DeliveryBounds, FInv, [Next]_vars PROVE FInv'
<1>1. CASE UNCHANGED vars
  BY <1>1 DEF vars, FInv, DeliveryFits, TypeOK, StageFits, Exclusive, WorkFits, Unrecorded,
              Pending, Owned, At
<1>2. CASE Request \/ LeaseExpires \/ TouchFolder
  BY <1>2, RowStepsKeep
<1>3. ASSUME NEW w \in Workers, Cycle(w) PROVE FInv'
  <2>1. CASE Create(w)
    BY <2>1, RowStepsKeep
  <2>2. CASE Claim(w)
    BY <2>2, ClaimKeeps
  <2>3. CASE LeaseLost(w)
    BY <2>3, LeavesKeep
  <2>4. CASE Plan(w) \/ List(w) \/ Adopt(w) \/ Complete(w)
    BY <2>4, PlanKeeps, ListKeeps, RecordsKeep
  <2>5. CASE Pick(w) \/ Upload(w) \/ UploadUncertain(w)
    BY <2>5, PickKeeps, UploadsKeep
  <2>6. CASE Release(w) \/ Finalize(w) \/ StageFails(w) \/ RecordFailure(w)
    BY <2>6, EndsKeep, FinalizeKeeps
  <2>7. QED
    BY <1>3, <2>1, <2>2, <2>3, <2>4, <2>5, <2>6 DEF Cycle
<1>4. ASSUME NEW w \in Workers, Crash(w) PROVE FInv'
  BY <1>4, LeavesKeep, UploadsKeep
<1>5. QED
  BY <1>1, <1>2, <1>3, <1>4 DEF Next

-----------------------------------------------------------------------------
(* The theorems about deliveries.                                           *)

\* What an upload leaves behind is known, or adopted before the next one.
THEOREM DeliveriesAgree == ASSUME DeliveryBounds PROVE Spec => []FInv
<1>1. Init => FInv
  BY InitFInv
<1>2. FInv /\ [Next]_vars => FInv'
  BY NextKeepsFInv
<1>3. QED
  BY <1>1, <1>2, PTL DEF Spec

\* The row of a delivery keeps its shape, and one that succeeded is complete.
THEOREM DeliveryTyping == ASSUME DeliveryBounds PROVE Spec => []TypeOK
<1>1. FInv => TypeOK
  BY DEF FInv, DeliveryFits
<1>2. QED
  BY <1>1, DeliveriesAgree, PTL

\* An image recorded as delivered is in the folder, and while no controller is
\* suspended for longer than its lease, no image is there twice.
THEOREM FolderMirrors == ASSUME DeliveryBounds PROVE Spec => []RemoteMirrorsItems
<1>1. FInv => RemoteMirrorsItems
  BY DEF FInv, DeliveryFits, Exclusive, RemoteMirrorsItems
<1>2. QED
  BY <1>1, DeliveriesAgree, PTL

-----------------------------------------------------------------------------
(* ArchiveBuild: the inductive invariant.                                   *)

\* Nobody is not a controller, no manifest is the absent one, and bounds are
\* numbers.
ArchiveBounds == /\ Unclaimed \notin Builders /\ NoPlan \notin Plans
                 /\ PartCount \in Nat /\ MaxAttempts \in Nat

BuildStages == [at : {"idle", "load"}]
                 \cup [at : {"prepare"}, plan : Plans]
                 \cup [at : {"build", "checkpoint", "finalize"}, plan : Plans,
                       n : 1..(PartCount + 1)]
                 \cup [at : {"failing"}, retry : BOOLEAN]

\* A part is written before it is registered, also by a controller whose claim
\* another one has taken over.
BuilderFits(w) ==
    BuilderAt(w, "checkpoint") =>
        builder[w].n <= PartCount /\ objects[builder[w].n] = builder[w].plan

BInv == /\ ArchiveTypeOK /\ builder \in [Builders -> BuildStages]
        /\ objects \in [1..PartCount -> Plans \cup {NoPlan}]
        /\ plan \in Plans /\ rendered \in BOOLEAN
        /\ \A w \in Builders : BuilderFits(w)

-----------------------------------------------------------------------------
(* Every step keeps the invariant of an archive.                            *)

LEMMA PartsAre ==
    ASSUME ArchiveBounds
    PROVE  PartRows = {s \in Seq(Plans) : Len(s) <= PartCount}
<1>1. ASSUME NEW s \in PartRows PROVE s \in Seq(Plans) /\ Len(s) <= PartCount
  <2>1. PICK n \in 0..PartCount : s \in [1..n -> Plans]
    BY DEF PartRows
  <2>2. n \in Nat /\ n <= PartCount
    BY <2>1 DEF ArchiveBounds
  <2>3. QED
    BY <2>1, <2>2
<1>2. ASSUME NEW s \in Seq(Plans), Len(s) <= PartCount PROVE s \in PartRows
  <2>1. Len(s) \in 0..PartCount /\ s \in [1..Len(s) -> Plans]
    BY <1>2 DEF ArchiveBounds
  <2>2. QED
    BY <2>1 DEF PartRows
<1>3. QED
  BY <1>1, <1>2

\* A controller goes on to x, and leaves parts and objects as they are.
LEMMA BuilderMoves ==
    ASSUME BInv, ArchiveTypeOK', NEW w \in Builders, NEW x \in BuildStages,
           x.at # "checkpoint", builder' = [builder EXCEPT ![w] = x],
           UNCHANGED <<objects, plan, rendered>>
    PROVE  BInv'
<1>1. \A v \in Builders : v # w => builder'[v] = builder[v]
  BY DEF BInv
<1>2. builder'[w] = x
  BY DEF BInv
<1>3. \A v \in Builders : BuilderFits(v)'
  BY <1>1, <1>2 DEF BInv, BuilderFits, BuilderAt
<1>4. QED
  BY <1>3 DEF BInv

\* The rows of an archive whose lease, state or manifest changes.
LEMMA ArchiveRowIs ==
    ASSUME BInv
    PROVE  /\ archive \in ArchiveRows /\ parts \in PartRows
           /\ archive.state = "PROCESSING" <=> archive.owner # Unclaimed
           /\ \A n \in DOMAIN parts : parts[n] = archive.manifest /\ objects[n] = parts[n]
           /\ archive.state = "READY" => Len(parts) = PartCount
BY DEF BInv, ArchiveTypeOK

LEMMA ArchiveOutsideKeeps ==
    ASSUME ArchiveBounds, BInv,
           RequestArchive \/ ArchiveLeaseExpires \/ Redeploy \/ Rendered \/ FailExhausted
    PROVE  BInv'
<1>1. UNCHANGED <<parts, objects, builder>> /\ plan' \in Plans /\ rendered' \in BOOLEAN
  BY DEF RequestArchive, ArchiveLeaseExpires, Redeploy, Rendered, FailExhausted, BInv
<1>2. ArchiveTypeOK'
  <2>1. CASE RequestArchive
    <3> DEFINE a == UnleasedArchive(archive, "PENDING")
    <3>1. a \in ArchiveRows /\ a.state = "PENDING" /\ a.owner = Unclaimed
          /\ a.manifest = archive.manifest
      BY ArchiveRowIs DEF UnleasedArchive, ArchiveRows
    <3>2. archive' = [a EXCEPT !.attempts = 0] /\ 0 \in 0..MaxAttempts
      BY <2>1 DEF RequestArchive, ArchiveBounds
    <3> HIDE DEF a
    <3>3. /\ archive' \in ArchiveRows /\ archive'.state = "PENDING"
          /\ archive'.owner = Unclaimed /\ archive'.manifest = archive.manifest
      BY <3>1, <3>2 DEF ArchiveRows
    <3>4. QED
      BY <1>1, <3>3, ArchiveRowIs DEF ArchiveTypeOK
  <2>2. CASE FailExhausted
    BY <1>1, <2>2, ArchiveRowIs DEF FailExhausted, UnleasedArchive, ArchiveTypeOK, ArchiveRows
  <2>3. CASE ArchiveLeaseExpires
    BY <1>1, <2>3, ArchiveRowIs DEF ArchiveLeaseExpires, ArchiveTypeOK, ArchiveRows
  <2>4. CASE Redeploy \/ Rendered
    BY <1>1, <2>4, ArchiveRowIs DEF Redeploy, Rendered, ArchiveTypeOK
  <2>5. QED
    BY <2>1, <2>2, <2>3, <2>4
<1>3. QED
  BY <1>1, <1>2 DEF BInv, BuilderFits, BuilderAt

LEMMA ClaimArchiveKeeps ==
    ASSUME ArchiveBounds, BInv, NEW w \in Builders, ClaimArchive(w)
    PROVE  BInv'
<1>1. UNCHANGED <<parts, objects, plan, rendered>>
  BY DEF ClaimArchive
<1>2. ArchiveTypeOK'
  <2>1. archive.attempts \in 0..MaxAttempts /\ archive.attempts < MaxAttempts
    BY ArchiveRowIs DEF ClaimArchive, ArchiveRows
  <2>2. archive.attempts + 1 \in 0..MaxAttempts
    BY <2>1 DEF ArchiveBounds
  <2>3. archive' = [archive EXCEPT !.state = "PROCESSING", !.attempts = archive.attempts + 1,
                                   !.owner = w, !.live = TRUE]
    BY DEF ClaimArchive
  <2>4. /\ archive' \in ArchiveRows /\ archive'.state = "PROCESSING"
        /\ archive'.owner = w /\ archive'.manifest = archive.manifest
    BY <2>2, <2>3, ArchiveRowIs DEF ArchiveRows
  <2>5. QED
    BY <1>1, <2>4, ArchiveRowIs DEF ArchiveTypeOK, ArchiveBounds
<1>3. [at |-> "load"] \in BuildStages /\ builder' = [builder EXCEPT ![w] = [at |-> "load"]]
  BY DEF ClaimArchive, BuildStages
<1>4. QED
  BY <1>1, <1>2, <1>3, BuilderMoves

\* A stage that fails, or is refused, and a controller that dies.
LEMMA BuildEndsKeep ==
    ASSUME ArchiveBounds, BInv, NEW w \in Builders,
           UNCHANGED <<archive, parts, objects, plan, rendered>>,
           BuilderDies(w) \/ \E retry \in BOOLEAN : FailBuild(w, retry)
    PROVE  BInv'
<1>1. ArchiveTypeOK'
  BY ArchiveRowIs DEF ArchiveTypeOK
<1>2. PICK x \in BuildStages : x.at # "checkpoint" /\ builder' = [builder EXCEPT ![w] = x]
  <2>1. CASE BuilderDies(w)
    <3>1. Resting \in BuildStages /\ Resting.at # "checkpoint"
      BY DEF BuildStages, Resting
    <3>2. QED
      BY <2>1, <3>1 DEF BuilderDies
  <2>2. CASE \E retry \in BOOLEAN : FailBuild(w, retry)
    <3>1. PICK retry \in BOOLEAN : FailBuild(w, retry)
      BY <2>2
    <3>2. [at |-> "failing", retry |-> retry] \in BuildStages
      BY DEF BuildStages
    <3>3. QED
      BY <3>1, <3>2 DEF FailBuild
  <2>3. QED
    BY <2>1, <2>2
<1>3. QED
  BY <1>1, <1>2, BuilderMoves

LEMMA FailClaimKeeps ==
    ASSUME ArchiveBounds, BInv, NEW w \in Builders, FailClaim(w)
    PROVE  BInv'
<1>1. UNCHANGED <<parts, objects, plan, rendered>>
  BY DEF FailClaim
<1>2. ArchiveTypeOK'
  BY <1>1, ArchiveRowIs DEF FailClaim, UnleasedArchive, ArchiveTypeOK, ArchiveRows, Holds
<1>3. Resting \in BuildStages /\ builder' = [builder EXCEPT ![w] = Resting]
      /\ Resting.at # "checkpoint"
  BY DEF FailClaim, BuildStages, Resting
<1>4. QED
  BY <1>1, <1>2, <1>3, BuilderMoves

LEMMA LoadPlanKeeps ==
    ASSUME ArchiveBounds, BInv, NEW w \in Builders, LoadPlan(w)
    PROVE  BInv'
<1>1. CASE Refused(w, Locked(w))
  BY <1>1, BuildEndsKeep DEF LoadPlan, Refused
<1>2. CASE ~Refused(w, Locked(w))
  <2> DEFINE x == [at |-> "prepare", plan |-> plan]
  <2>1. /\ UNCHANGED <<archive, parts, objects, plan, rendered>>
        /\ builder' = [builder EXCEPT ![w] = x] /\ x.at # "checkpoint"
    BY <1>2 DEF LoadPlan
  <2>2. x \in BuildStages
    BY DEF BuildStages, BInv
  <2>3. ArchiveTypeOK'
    BY <2>1, ArchiveRowIs DEF ArchiveTypeOK
  <2> HIDE DEF x
  <2>4. QED
    BY <2>1, <2>2, <2>3, BuilderMoves
<1>3. QED
  BY <1>1, <1>2

LEMMA BuilderIs ==
    ASSUME BInv, NEW w \in Builders
    PROVE  /\ BuilderAt(w, "prepare") => builder[w].plan \in Plans
           /\ builder[w].at \in {"build", "checkpoint", "finalize"} =>
                builder[w] \in [at : {"build", "checkpoint", "finalize"}, plan : Plans,
                                n : 1..(PartCount + 1)]
BY DEF BInv, BuildStages, BuilderAt

\* The first plan is the plan of the archive.
LEMMA PrepareKeeps ==
    ASSUME ArchiveBounds, BInv, NEW w \in Builders, Prepare(w)
    PROVE  BInv'
<1> DEFINE ok == /\ Locked(w) /\ archive.manifest \in {NoPlan, builder[w].plan}
                 /\ Registered(builder[w].plan)
           x == [at |-> "build", plan |-> builder[w].plan, n |-> Len(parts) + 1]
<1>1. UNCHANGED <<parts, objects, plan, rendered>>
  BY DEF Prepare
<1>2. CASE Refused(w, ok)
  BY <1>1, <1>2, BuildEndsKeep DEF Refused
<1>3. CASE ~Refused(w, ok)
  <2>1. /\ ok /\ archive' = [archive EXCEPT !.manifest = builder[w].plan]
        /\ builder' = [builder EXCEPT ![w] = x]
    BY <1>3 DEF Prepare
  <2>2. builder[w].plan \in Plans /\ Registered(builder[w].plan)
    BY <2>1, BuilderIs DEF Prepare
  <2>3. parts \in Seq(Plans) /\ Len(parts) <= PartCount
    BY ArchiveRowIs, PartsAre
  <2>4. Len(parts) + 1 \in 1..(PartCount + 1)
    BY <2>3 DEF ArchiveBounds
  <2>5. x \in BuildStages /\ x.at # "checkpoint"
    BY <2>2, <2>4 DEF BuildStages
  <2>6. ArchiveTypeOK'
    <3>1. /\ archive' \in ArchiveRows /\ archive'.state = archive.state
          /\ archive'.owner = archive.owner /\ archive'.manifest = builder[w].plan
      BY <2>1, <2>2, ArchiveRowIs DEF ArchiveRows
    <3>2. QED
      BY <1>1, <2>2, <3>1, ArchiveRowIs DEF ArchiveTypeOK, Registered
  <2> HIDE DEF x
  <2>7. QED
    BY <1>1, <2>1, <2>5, <2>6, BuilderMoves
<1>4. QED
  BY <1>2, <1>3

\* A part is written, or found: no object is replaced by another one.
LEMMA WritePartKeeps ==
    ASSUME ArchiveBounds, BInv, NEW w \in Builders, WritePart(w)
    PROVE  BInv'
<1> DEFINE p == builder[w].plan
           k == builder[w].n
<1>1. /\ UNCHANGED <<archive, parts, plan, rendered>> /\ p \in Plans /\ k \in 1..(PartCount + 1)
      /\ builder[w] \in [at : {"build", "checkpoint", "finalize"}, plan : Plans,
                         n : 1..(PartCount + 1)]
  BY BuilderIs DEF WritePart, BuilderAt
<1>2. CASE k > PartCount
  <2> DEFINE x == [builder[w] EXCEPT !.at = "finalize"]
  <2>1. builder' = [builder EXCEPT ![w] = x] /\ objects' = objects
    BY <1>2 DEF WritePart
  <2>2. x \in BuildStages /\ x.at # "checkpoint"
    BY <1>1 DEF BuildStages
  <2>3. ArchiveTypeOK'
    BY <1>1, <2>1, ArchiveRowIs DEF ArchiveTypeOK
  <2> HIDE DEF x
  <2>4. QED
    BY <1>1, <2>1, <2>2, <2>3, BuilderMoves
<1>3. CASE ~(k > PartCount)
  <2> DEFINE x == [builder[w] EXCEPT !.at = "checkpoint"]
  <2>1. /\ builder' = [builder EXCEPT ![w] = x] /\ objects' = [objects EXCEPT ![k] = p]
        /\ objects[k] \in {NoPlan, p}
    BY <1>3 DEF WritePart
  <2>2. k \in 1..PartCount
    BY <1>1, <1>3 DEF ArchiveBounds
  <2>3. x \in BuildStages /\ x.at = "checkpoint" /\ x.n = k /\ x.plan = p
    BY <1>1 DEF BuildStages
  <2>4. /\ objects' \in [1..PartCount -> Plans \cup {NoPlan}] /\ objects'[k] = p
        /\ \A n \in 1..PartCount : objects[n] \in Plans => objects'[n] = objects[n]
    BY <1>1, <2>1, <2>2 DEF BInv, ArchiveBounds
  <2> HIDE DEF x, p, k
  <2>5. ArchiveTypeOK'
    <3>1. parts \in Seq(Plans) /\ Len(parts) <= PartCount
      BY ArchiveRowIs, PartsAre
    <3>2. ASSUME NEW n \in DOMAIN parts
          PROVE  parts[n] = archive.manifest /\ objects'[n] = parts[n]
      <4>1. n \in 1..Len(parts) /\ parts[n] \in Plans
        BY <3>1, <3>2
      <4>2. n \in 1..PartCount
        BY <3>1, <4>1 DEF ArchiveBounds
      <4>3. objects[n] = parts[n] /\ parts[n] = archive.manifest
        BY <3>2, ArchiveRowIs
      <4>4. QED
        BY <2>4, <4>1, <4>2, <4>3
    <3>3. QED
      BY <1>1, <3>2, ArchiveRowIs DEF ArchiveTypeOK
  <2>6. ASSUME NEW v \in Builders PROVE BuilderFits(v)'
    <3>1. CASE v = w
      <4>1. builder'[w] = x
        BY <2>1 DEF BInv
      <4>2. k <= PartCount
        BY <2>2 DEF ArchiveBounds
      <4>3. QED
        BY <2>3, <2>4, <3>1, <4>1, <4>2 DEF BuilderFits, BuilderAt
    <3>2. CASE v # w
      <4>1. builder'[v] = builder[v] /\ BuilderFits(v)
        BY <2>1, <3>2 DEF BInv
      <4>2. ASSUME BuilderAt(v, "checkpoint") PROVE objects'[builder[v].n] = builder[v].plan
        <5>1. builder[v].n \in 1..PartCount /\ builder[v].plan \in Plans
              /\ objects[builder[v].n] = builder[v].plan
          BY <4>1, <4>2, BuilderIs DEF BuilderFits, BuilderAt, ArchiveBounds
        <5>2. QED
          BY <2>4, <5>1
      <4>3. QED
        BY <4>1, <4>2 DEF BuilderFits, BuilderAt
    <3>3. QED
      BY <3>1, <3>2
  <2>7. builder' \in [Builders -> BuildStages]
    BY <2>1, <2>3 DEF BInv
  <2>8. QED
    BY <1>1, <2>4, <2>5, <2>6, <2>7 DEF BInv
<1>4. QED
  BY <1>2, <1>3

\* A part is registered after the last one, and its object is there.
LEMMA CheckpointKeeps ==
    ASSUME ArchiveBounds, BInv, NEW w \in Builders, Checkpoint(w)
    PROVE  BInv'
<1> DEFINE p == builder[w].plan
           ok == /\ Locked(w) /\ archive.manifest = builder[w].plan
                 /\ Registered(builder[w].plan) /\ builder[w].n = Len(parts) + 1
           x == [at |-> "build", plan |-> builder[w].plan, n |-> builder[w].n + 1]
<1>1. UNCHANGED <<objects, plan, rendered>>
  BY DEF Checkpoint
<1>2. CASE Refused(w, ok) /\ UNCHANGED parts
  BY <1>1, <1>2, BuildEndsKeep DEF Refused
<1>3. CASE ~(Refused(w, ok) /\ UNCHANGED parts)
  <2>1. /\ ok /\ parts' = Append(parts, p) /\ builder' = [builder EXCEPT ![w] = x]
        /\ archive' = archive
    BY <1>3 DEF Checkpoint
  <2>2. /\ p \in Plans /\ builder[w].n \in 1..(PartCount + 1) /\ builder[w].n <= PartCount
        /\ objects[builder[w].n] = p
    BY BuilderIs DEF Checkpoint, BuilderAt, BInv, BuilderFits
  <2>3. parts \in Seq(Plans) /\ Len(parts) \in Nat /\ Len(parts) + 1 = builder[w].n
    BY <2>1, ArchiveRowIs, PartsAre
  <2>4. x \in BuildStages /\ x.at # "checkpoint"
    <3>1. builder[w].n + 1 \in 1..(PartCount + 1)
      BY <2>2 DEF ArchiveBounds
    <3>2. QED
      BY <2>2, <3>1 DEF BuildStages
  <2>5. /\ parts' \in Seq(Plans) /\ Len(parts') = Len(parts) + 1
        /\ \A n \in 1..Len(parts) : parts'[n] = parts[n]
        /\ parts'[Len(parts) + 1] = p /\ DOMAIN parts' = 1..(Len(parts) + 1)
    BY <2>1, <2>2, <2>3
  <2>6. ArchiveTypeOK'
    <3>1. parts' \in PartRows
      BY <2>2, <2>3, <2>5, PartsAre
    <3>2. ASSUME NEW n \in DOMAIN parts'
          PROVE  parts'[n] = archive.manifest /\ objects[n] = parts'[n]
      <4>1. CASE n \in 1..Len(parts)
        BY <2>3, <2>5, <4>1, ArchiveRowIs
      <4>2. CASE n = Len(parts) + 1
        BY <2>1, <2>2, <2>3, <2>5, <4>2
      <4>3. QED
        BY <2>3, <2>5, <3>2, <4>1, <4>2
    <3>3. archive.state = "PROCESSING"
      BY <2>1 DEF Locked, Holds
    <3>4. QED
      BY <1>1, <2>1, <3>1, <3>2, <3>3, ArchiveRowIs DEF ArchiveTypeOK
  <2> HIDE DEF x
  <2>7. QED
    BY <1>1, <2>1, <2>4, <2>6, BuilderMoves
<1>4. QED
  BY <1>2, <1>3

\* What becomes READY has all its parts.
LEMMA FinalizeArchiveKeeps ==
    ASSUME ArchiveBounds, BInv, NEW w \in Builders, FinalizeArchive(w)
    PROVE  BInv'
<1> DEFINE ok == /\ Locked(w) /\ archive.manifest = builder[w].plan
                 /\ Registered(builder[w].plan) /\ Len(parts) = PartCount
<1>1. UNCHANGED <<parts, objects, plan, rendered>>
  BY DEF FinalizeArchive
<1>2. CASE Refused(w, ok)
  BY <1>1, <1>2, BuildEndsKeep DEF Refused
<1>3. CASE ~Refused(w, ok)
  <2>1. /\ ok /\ archive' = UnleasedArchive(archive, "READY")
        /\ builder' = [builder EXCEPT ![w] = Resting]
    BY <1>3 DEF FinalizeArchive
  <2>2. Resting \in BuildStages /\ Resting.at # "checkpoint"
    BY DEF BuildStages, Resting
  <2>3. ArchiveTypeOK'
    BY <1>1, <2>1, ArchiveRowIs DEF ArchiveTypeOK, UnleasedArchive, ArchiveRows
  <2>4. QED
    BY <1>1, <2>1, <2>2, <2>3, BuilderMoves
<1>4. QED
  BY <1>2, <1>3

LEMMA InitBInv == ASSUME ArchiveBounds, ArchiveInit PROVE BInv
<1>1. archive \in ArchiveRows /\ archive.state = "none" /\ archive.owner = Unclaimed
  BY DEF ArchiveInit, ArchiveRows, ArchiveBounds
<1>2. parts = <<>> /\ parts \in PartRows /\ Len(parts) = 0 /\ DOMAIN parts = {}
  <2>1. parts = <<>> /\ parts \in Seq(Plans) /\ Len(parts) = 0 /\ DOMAIN parts = {}
    BY DEF ArchiveInit
  <2>2. 0 <= PartCount
    BY DEF ArchiveBounds
  <2>3. parts \in PartRows
    BY <2>1, <2>2, PartsAre
  <2>4. QED
    BY <2>1, <2>3
<1>3. ArchiveTypeOK
  BY <1>1, <1>2 DEF ArchiveTypeOK
<1>4. Resting \in BuildStages /\ Resting.at = "idle"
  BY DEF Resting, BuildStages
<1>5. /\ builder \in [Builders -> BuildStages]
      /\ \A w \in Builders : BuilderFits(w)
  BY <1>4 DEF ArchiveInit, BuilderFits, BuilderAt
<1>6. objects \in [1..PartCount -> Plans \cup {NoPlan}] /\ plan \in Plans /\ rendered \in BOOLEAN
  BY DEF ArchiveInit
<1>7. QED
  BY <1>3, <1>5, <1>6 DEF BInv

LEMMA NextKeepsBInv ==
    ASSUME ArchiveBounds, BInv, [ArchiveNext]_archiveVars
    PROVE  BInv'
<1>1. CASE UNCHANGED archiveVars
  BY <1>1 DEF archiveVars, BInv, ArchiveTypeOK, BuilderFits, BuilderAt
<1>2. CASE RequestArchive \/ ArchiveLeaseExpires \/ Redeploy \/ Rendered
  BY <1>2, ArchiveOutsideKeeps
<1>3. ASSUME NEW w \in Builders, ArchiveCycle(w) PROVE BInv'
  <2>1. CASE FailExhausted
    BY <2>1, ArchiveOutsideKeeps
  <2>2. CASE ClaimArchive(w) \/ LoadPlan(w) \/ Prepare(w)
    BY <2>2, ClaimArchiveKeeps, LoadPlanKeeps, PrepareKeeps
  <2>3. CASE WritePart(w) \/ Checkpoint(w) \/ FinalizeArchive(w)
    BY <2>3, WritePartKeeps, CheckpointKeeps, FinalizeArchiveKeeps
  <2>4. CASE BuildFails(w)
    BY <2>4, BuildEndsKeep DEF BuildFails
  <2>5. CASE FailClaim(w)
    BY <2>5, FailClaimKeeps
  <2>6. QED
    BY <1>3, <2>1, <2>2, <2>3, <2>4, <2>5 DEF ArchiveCycle
<1>4. ASSUME NEW w \in Builders, BuilderDies(w) PROVE BInv'
  BY <1>4, BuildEndsKeep DEF BuilderDies
<1>5. QED
  BY <1>1, <1>2, <1>3, <1>4 DEF ArchiveNext

-----------------------------------------------------------------------------
(* The theorems about archives.                                             *)

\* No object is replaced, and a part that is registered was written.
THEOREM ArchivesAgree == ASSUME ArchiveBounds PROVE ArchiveSpec => []BInv
<1>1. ArchiveInit => BInv
  BY InitBInv
<1>2. BInv /\ [ArchiveNext]_archiveVars => BInv'
  BY NextKeepsBInv
<1>3. QED
  BY <1>1, <1>2, PTL DEF ArchiveSpec

\* An archive that is READY consists of all its parts, all of its manifest, and
\* their objects exist.
THEOREM ArchivesAreWhole == ASSUME ArchiveBounds PROVE ArchiveSpec => []ArchiveTypeOK
<1>1. BInv => ArchiveTypeOK
  BY DEF BInv
<1>2. QED
  BY <1>1, ArchivesAgree, PTL
=============================================================================
