------------------------- MODULE PublicationProofs -------------------------
(* Proofs about PublicationEffects: PInv is inductive, so that one attempt  *)
(* at a time may act on the target and what an intent says of its post is   *)
(* true; every step of the two services is a step of ExternalEffect; and    *)
(* AInv counts the posts and the calls of each intent, so that no post goes *)
(* unaccounted for; and LInv keeps every row within its bounds.             *)
EXTENDS PublicationInvariant, SumTheorems

-----------------------------------------------------------------------------
(* The rows of an intent, and what becomes of them when one changes.        *)

LEMMA RowsAre ==
    ASSUME Typed, NEW i \in Intents
    PROVE  /\ attempts[i] \in Seq(AttemptRows)
           /\ Latest(i) \in Nat
           /\ Rows(i) = 1..Latest(i)
           /\ \A a \in Rows(i) : Row(i, a) \in AttemptRows /\ a \in Nat
           /\ intent[i] \in IntentRows
BY DEF Typed, Latest, Rows, Row

\* A row that has not ended is the latest one, and its intent follows it.
LEMMA LiveIsLatest ==
    ASSUME Typed, NEW i \in Intents, History(target, intent[i].state, attempts[i]),
           NEW a \in Rows(i)
    PROVE  /\ RowOK(target, Row(i, a))
           /\ Row(i, a).state \notin Supersedable => a = Latest(i)
           /\ a = Latest(i) => Fits(intent[i].state, Row(i, a).state)
BY RowsAre DEF History, Latest, Row

\* The latest row of an intent becomes r, and its state st.
LEMMA LatestMoves ==
    ASSUME Typed, NEW i \in Intents, NEW a \in Rows(i), a = Latest(i),
           NEW r \in AttemptRows, NEW st \in IntentStates,
           History(target, intent[i].state, attempts[i]),
           RowOK(target, r), Fits(st, r.state),
           attempts' = [attempts EXCEPT ![i] = [@ EXCEPT ![a] = r]]
    PROVE  /\ attempts' \in [Intents -> Seq(AttemptRows)]
           /\ History(target, st, attempts'[i])
           /\ attempts'[i][a] = r
           /\ Len(attempts'[i]) = Latest(i)
<1>1. attempts[i] \in Seq(AttemptRows) /\ a \in 1..Len(attempts[i]) /\ Len(attempts[i]) \in Nat
  BY RowsAre DEF Latest
<1>2. attempts \in [Intents -> Seq(AttemptRows)]
  BY DEF Typed
<1>3. attempts'[i] = [attempts[i] EXCEPT ![a] = r]
  BY <1>2
<1>4. /\ attempts'[i] \in Seq(AttemptRows)
      /\ Len(attempts'[i]) = Len(attempts[i])
      /\ \A b \in 1..Len(attempts[i]) : attempts'[i][b] = IF b = a THEN r ELSE attempts[i][b]
  BY <1>1, <1>3
<1>5. attempts' \in [Intents -> Seq(AttemptRows)]
  BY <1>2, <1>4
<1>6. History(target, st, attempts'[i])
  BY <1>1, <1>4 DEF History, Latest
<1>7. QED
  BY <1>1, <1>4, <1>5, <1>6 DEF Latest

LEMMA InitPInv == Init => PInv
<1> SUFFICES ASSUME Init PROVE PInv
  OBVIOUS
<1>1. Typed
  BY PublicationAssumption
  DEF Init, Typed, IntentRows, IntentStates, ApprovalRows, Places, Idle
<1>2. \A i \in Intents : History(target, intent[i].state, attempts[i])
  BY DEF Init, History
<1>3. \A i \in Intents : Truthful(i)
  BY DEF Init, Truthful
<1>4. QED
  BY <1>1, <1>2, <1>3 DEF Init, PInv, OneOwner, Free, Knows, Idle

-----------------------------------------------------------------------------
(* What a step leaves alone.                                                *)

\* The step takes nothing from w that w may rely on.
Undisturbed(w) ==
    /\ pc'[w] = pc[w]
    /\ \A i \in Intents : Rows(i) \subseteq Rows(i)'
    /\ \A i \in Intents : \A a \in Rows(i) : Leased(w, i, a)' =>
          /\ Leased(w, i, a)
          /\ Row(i, a)'.state = Row(i, a).state
          /\ Row(i, a)'.steps = Row(i, a).steps
          /\ Unposted(i) => Unposted(i)'
    /\ \A i \in Intents : posts[i] # 0 => posts'[i] # 0

LEMMA UndisturbedKnows ==
    ASSUME Typed, target' = target, NEW w \in Workers, Knows(w), Undisturbed(w)
    PROVE  Knows(w)'
<1> SUFFICES ASSUME pc[w].at # "idle" PROVE Knows(w)'
  BY DEF Undisturbed, Knows
<1> DEFINE p == pc[w]
<1>1. p.i \in Intents /\ p.a \in Rows(p.i)
  BY DEF Typed, Places, Idle, Knows
<1>2. pc'[w] = p /\ p.a \in Rows(p.i)'
  BY <1>1 DEF Undisturbed
<1>3. ASSUME Leased(w, p.i, p.a)' PROVE Phase(p, Row(p.i, p.a))'
  <2>1. /\ Phase(p, Row(p.i, p.a))
        /\ Row(p.i, p.a)'.state = Row(p.i, p.a).state
        /\ Row(p.i, p.a)'.steps = Row(p.i, p.a).steps
        /\ Unposted(p.i) => Unposted(p.i)'
        /\ posts[p.i] # 0 => posts'[p.i] # 0
    BY <1>1, <1>3 DEF Undisturbed, Knows
  <2>2. p.at = "settle" /\ Settled(p, Row(p.i, p.a)) => Settled(p, Row(p.i, p.a))'
    BY <2>1, <1>2 DEF Settled
  <2>3. QED
    BY <2>1, <2>2, <1>2 DEF Phase, Between, InStep
<1>4. QED
  BY <1>2, <1>3 DEF Knows

\* A row that changes disturbs nobody who does not hold it afterwards.
LEMMA OthersUndisturbed ==
    ASSUME Typed, NEW w \in Workers, pc'[w] = pc[w],
           NEW i \in Intents, NEW a \in Rows(i), NEW r \in AttemptRows,
           attempts' = [attempts EXCEPT ![i] = [@ EXCEPT ![a] = r]],
           \/ ~(r.owner = w /\ r.state \in Running)
           \/ r.owner = Row(i, a).owner /\ r.state = Row(i, a).state /\ r.steps = Row(i, a).steps,
           \A j \in Intents : posts[j] # 0 => posts'[j] # 0,
           \A j \in Intents : \A b \in Rows(j) :
              Leased(w, j, b) => (Unposted(j) => Unposted(j)')
    PROVE  Undisturbed(w)
<1>1. /\ attempts \in [Intents -> Seq(AttemptRows)]
      /\ attempts[i] \in Seq(AttemptRows) /\ a \in DOMAIN attempts[i]
  BY DEF Typed, Rows
<1>2. \A j \in Intents : Rows(j)' = Rows(j)
  BY <1>1 DEF Rows
<1>3. \A j \in Intents : \A b \in Rows(j) :
         Row(j, b)' = IF j = i /\ b = a THEN r ELSE Row(j, b)
  BY <1>1 DEF Rows, Row
<1>4. QED
  BY <1>2, <1>3 DEF Undisturbed, Leased

LEMMA OwnerMoves ==
    ASSUME OneOwner, NEW i \in Intents,
           \A j \in Intents \ {i} : intent'[j].state = intent[j].state,
           intent'[i].state \in Free \/ intent[i].state \notin Free \/ OwnsTarget(i)
    PROVE  OneOwner'
BY DEF OneOwner, OwnsTarget, Free

\* The intents that a step leaves alone keep the truth.
LEMMA TruthKept ==
    ASSUME NEW i \in Intents, Truthful(i), intent'[i].state = intent[i].state,
           attempts'[i] = attempts[i], posts'[i] = posts[i], absents'[i] = absents[i],
           \A c \in calls' : c[1] = i => c \in calls
    PROVE  Truthful(i)'
BY DEF Truthful, Doubted, Latest

\* The latest row of i moves; i's truth and the controllers are left to show.
LEMMA RowStep ==
    ASSUME PInv, target' = target,
           NEW i \in Intents, NEW a \in Rows(i), a = Latest(i),
           NEW r \in AttemptRows, RowOK(target, r),
           attempts' = [attempts EXCEPT ![i] = [@ EXCEPT ![a] = r]],
           intent' \in [Intents -> IntentRows], Fits(intent'[i].state, r.state),
           \A j \in Intents \ {i} : intent'[j] = intent[j],
           intent'[i].state \in Free \/ intent[i].state \notin Free \/ OwnsTarget(i),
           \A j \in Intents \ {i} : posts'[j] = posts[j] /\ absents'[j] = absents[j],
           \A c \in calls' : c[1] # i => c \in calls,
           approval' \in [Intents -> ApprovalRows], enabled' \in BOOLEAN, current' \in BOOLEAN,
           absents' \in [Intents -> Nat], posts' \in [Intents -> Nat],
           pc' \in [Workers -> Places], calls' \in SUBSET (Intents \X Nat),
           Truthful(i)',
           \A w \in Workers : Undisturbed(w) \/ Knows(w)'
    PROVE  PInv'
<1>1. /\ attempts' \in [Intents -> Seq(AttemptRows)]
      /\ History(target, intent'[i].state, attempts'[i])
  <2>1. intent'[i].state \in IntentStates
    BY DEF IntentRows
  <2>2. QED
    BY <2>1, LatestMoves DEF PInv
<1>2. Typed'
  BY <1>1 DEF PInv, Typed
<1>3. \A j \in Intents \ {i} : attempts'[j] = attempts[j]
  BY DEF PInv, Typed
<1>4. \A j \in Intents : History(target, intent[j].state, attempts[j])'
  BY <1>1, <1>3 DEF PInv
<1>5. \A j \in Intents : Truthful(j)'
  BY <1>3, TruthKept DEF PInv
<1>6. OneOwner'
  BY OwnerMoves DEF PInv
<1>7. \A w \in Workers : Knows(w)'
  BY UndisturbedKnows DEF PInv
<1>8. QED
  BY <1>2, <1>4, <1>5, <1>6, <1>7 DEF PInv

\* A step that moves no row, no intent and no call.
LEMMA ThoughtStep ==
    ASSUME PInv, UNCHANGED <<target, intent, attempts, absents, posts, calls>>,
           approval' \in [Intents -> ApprovalRows],
           enabled' \in BOOLEAN, current' \in BOOLEAN,
           pc' \in [Workers -> Places],
           \A w \in Workers : pc'[w] = pc[w] \/ Knows(w)'
    PROVE  PInv'
<1>1. Typed'
  BY DEF PInv, Typed
<1>2. \A i \in Intents : History(target, intent[i].state, attempts[i])' /\ Truthful(i)'
  BY TruthKept DEF PInv
<1>3. OneOwner'
  BY DEF PInv, OneOwner
<1>4. \A w \in Workers : Knows(w)'
  <2>1. ASSUME NEW w \in Workers, pc'[w] = pc[w] PROVE Undisturbed(w)
    BY <2>1 DEF Undisturbed, Rows, Row, Leased, Unposted
  <2>2. QED
    BY <2>1, UndisturbedKnows DEF PInv
<1>5. QED
  BY <1>1, <1>2, <1>3, <1>4 DEF PInv

\* Controller w goes on to p, and knows what it needs there.
LEMMA Thinks ==
    ASSUME PInv, UNCHANGED <<intent, attempts, approval, world, posts, calls>>,
           NEW w \in Workers, NEW p \in Places, pc' = [pc EXCEPT ![w] = p],
           p.at # "idle" =>
              /\ pc[w].at # "idle" /\ p.i = pc[w].i /\ p.a = pc[w].a
              /\ Leased(w, p.i, p.a) => Phase(p, Row(p.i, p.a))
    PROVE  PInv'
<1>1. pc' \in [Workers -> Places] /\ pc'[w] = p /\ \A v \in Workers \ {w} : pc'[v] = pc[v]
  BY DEF PInv, Typed
<1>2. Knows(w)'
  <2>1. Leased(w, p.i, p.a)' = Leased(w, p.i, p.a) /\ Row(p.i, p.a)' = Row(p.i, p.a)
    BY DEF Leased, Row
  <2>2. Phase(p, Row(p.i, p.a)) => Phase(pc[w], Row(pc[w].i, pc[w].a))'
    BY <1>1, <2>1 DEF Phase, Settled, Unposted, Between, InStep, world
  <2>3. QED
    BY <1>1, <2>1, <2>2 DEF PInv, Knows, Rows
<1>3. QED
  BY <1>1, <1>2, ThoughtStep DEF PInv, Typed, world

\* What a controller that holds its lease knows of its attempt.
LEMMA Holding ==
    ASSUME PInv, NEW w \in Workers, pc[w].at # "idle"
    PROVE  /\ pc[w] \in Places /\ pc[w].i \in Intents /\ pc[w].a \in Rows(pc[w].i)
           /\ pc[w].at # "claimed" => pc[w].k \in 1..2
           /\ Row(pc[w].i, pc[w].a) \in AttemptRows
           /\ RowOK(target, Row(pc[w].i, pc[w].a))
           /\ Leased(w, pc[w].i, pc[w].a) =>
                 /\ pc[w].a = Latest(pc[w].i)
                 /\ intent[pc[w].i].state \in {"READY", "PROCESSING"}
                 /\ Phase(pc[w], Row(pc[w].i, pc[w].a))
<1>1. pc[w] \in Places /\ pc[w].i \in Intents /\ pc[w].a \in Rows(pc[w].i)
      /\ (pc[w].at # "claimed" => pc[w].k \in 1..2)
  BY DEF PInv, Typed, Places, Idle, Knows
<1>2. Row(pc[w].i, pc[w].a) \in AttemptRows
  BY <1>1, RowsAre DEF PInv
<1>3. ASSUME Leased(w, pc[w].i, pc[w].a)
      PROVE /\ pc[w].a = Latest(pc[w].i)
            /\ intent[pc[w].i].state \in {"READY", "PROCESSING"}
            /\ Phase(pc[w], Row(pc[w].i, pc[w].a))
  BY <1>1, <1>3, LiveIsLatest DEF PInv, Leased, Running, Supersedable, Fits, Knows
<1>4. QED
  BY <1>1, <1>2, <1>3, LiveIsLatest DEF PInv

LEMMA KindsAre ==
    ASSUME target \in {"X", "PATREON"}
    PROVE  /\ Kinds[1] \notin Irreversible /\ Kinds[2] \in Irreversible
           /\ Kinds[1] = "X_MEDIA_UPLOAD" <=> target = "X"
           /\ Kinds[1] = "PATREON_PACKAGE" <=> target = "PATREON"
           /\ Kinds[2] = "PATREON_HANDOFF" <=> target = "PATREON"
           /\ Kinds[2] \notin {"X_MEDIA_UPLOAD", "PATREON_PACKAGE"}
           /\ Kinds[1] # "PATREON_HANDOFF"
BY DEF Kinds, Irreversible

-----------------------------------------------------------------------------
(* The steps that only read.                                                *)

LEMMA WorldSteps ==
    ASSUME PInv, \/ SetGuard \/ ReleaseSuperseded
                 \/ \E i \in Intents : ApprovalExpires(i) \/ Download(i)
    PROVE  PInv'
<1>1. approval' \in [Intents -> ApprovalRows]
  <2>1. ASSUME NEW i \in Intents, ApprovalExpires(i) PROVE approval' \in [Intents -> ApprovalRows]
    <3>1. [approval[i] EXCEPT !.expired = TRUE] \in ApprovalRows
      BY DEF PInv, Typed, ApprovalRows
    <3>2. QED
      BY <2>1, <3>1 DEF ApprovalExpires, PInv, Typed
  <2>2. QED
    BY <2>1 DEF PInv, Typed, SetGuard, ReleaseSuperseded, Download
<1>2. /\ UNCHANGED <<target, intent, attempts, absents, posts, calls, pc>>
      /\ enabled' \in BOOLEAN /\ current' \in BOOLEAN
  BY DEF PInv, Typed, SetGuard, ReleaseSuperseded, ApprovalExpires, Download, world
<1>3. QED
  BY <1>1, <1>2, ThoughtStep DEF PInv, Typed

\* The verdict v agrees with what controller w knows.
Concludes(w, v, q) ==
    LET p == [at |-> "settle", i |-> pc[w].i, a |-> pc[w].a, k |-> pc[w].k,
              verdict |-> v, request |-> q]
    IN Leased(w, p.i, p.a) /\ Phase(pc[w], Row(p.i, p.a)) => Settled(p, Row(p.i, p.a))

LEMMA VerdictStep ==
    ASSUME PInv, UNCHANGED <<intent, attempts, approval, world, posts, calls>>,
           NEW w \in Workers, pc[w].at \in {"step", "begun", "calling"},
           NEW v \in Verdicts, NEW q \in BOOLEAN, Verdict(w, v, q),
           Concludes(w, v, q)
    PROVE  PInv'
<1> DEFINE p == [at |-> "settle", i |-> pc[w].i, a |-> pc[w].a, k |-> pc[w].k,
                 verdict |-> v, request |-> q]
<1>1. pc[w].at # "idle" /\ pc[w].at # "claimed"
  OBVIOUS
<1>2. p \in Places
  <2>1. pc[w].a \in Nat
    BY <1>1, Holding DEF Places, Idle
  <2>2. pc[w].i \in Intents /\ pc[w].k \in 1..2
    BY <1>1, Holding
  <2>3. QED
    BY <2>1, <2>2 DEF Places
<1>3. pc' = [pc EXCEPT ![w] = p]
  BY DEF Verdict
<1>4. Leased(w, p.i, p.a) => Phase(p, Row(p.i, p.a))
  BY <1>1, Holding DEF Phase, Concludes
<1>5. QED
  BY <1>1, <1>2, <1>3, <1>4, Thinks

LEMMA SnapshotStep ==
    ASSUME PInv, NEW w \in Workers, Snapshot(w)
    PROVE  PInv'
<1> DEFINE i == pc[w].i
           a == pc[w].a
           open == {k \in 1..2 : Step(i, a, k).state \in Open}
           p == IF Leased(w, i, a) /\ Row(i, a).live /\ open # {}
                THEN [at |-> "step", i |-> i, a |-> a, k |-> IF 1 \in open THEN 1 ELSE 2]
                ELSE Idle
<1>1. pc[w].at = "claimed" /\ pc' = [pc EXCEPT ![w] = p]
      /\ UNCHANGED <<intent, approval, attempts, world, calls, posts>>
  BY DEF Snapshot, At
<1>2. i \in Intents /\ a \in Nat
  BY <1>1, Holding, RowsAre DEF PInv
<1>3. p \in Places
  BY <1>2 DEF Places
<1>4. ASSUME Leased(w, i, a), p.at = "step" PROVE Phase(p, Row(i, a))
  <2>1. Between(Row(i, a))
    BY <1>1, <1>4, Holding DEF Phase
  <2>2. \A k \in 1..2 : k \in open <=> Row(i, a).steps[k].state \in Open
    BY DEF Step, Row
  <2>3. open # {} /\ p.k = (IF 1 \in open THEN 1 ELSE 2)
    <3>1. CASE Leased(w, i, a) /\ Row(i, a).live /\ open # {}
      BY <3>1
    <3>2. CASE ~(Leased(w, i, a) /\ Row(i, a).live /\ open # {})
      <4>1. p = Idle
        BY <3>2
      <4>2. QED
        BY <4>1, <1>4 DEF Idle
    <3>3. QED
      BY <3>1, <3>2
  <2> HIDE DEF p, open
  <2>4. open \subseteq 1..2
    BY DEF open
  <2>5. Row(i, a).steps[p.k].state \in Open
    <3>1. PICK k \in 1..2 : k \in open
      BY <2>3, <2>4
    <3>2. p.k \in 1..2 /\ p.k \in open
      BY <3>1, <2>3
    <3>3. QED
      BY <3>2, <2>2
  <2>6. p.k = 2 => Row(i, a).steps[1].state = "SUCCEEDED"
    BY <2>1, <2>2, <2>3 DEF Between
  <2>7. QED
    BY <1>4, <2>1, <2>5, <2>6 DEF Phase
<1>5. p.at # "idle" => p.at = "step" /\ p.i = i /\ p.a = a /\ Leased(w, i, a)
  BY DEF Idle
<1>6. QED
  BY <1>1, <1>3, <1>4, <1>5, Thinks

LEMMA CrashStep ==
    ASSUME PInv, NEW w \in Workers, Crash(w)
    PROVE  PInv'
<1>1. Idle \in Places /\ Idle.at = "idle"
  BY DEF Places, Idle
<1>2. QED
  BY <1>1, Thinks DEF Crash

LEMMA VerdictSteps ==
    ASSUME PInv, NEW w \in Workers,
           \/ InputRefused(w) \/ NoRequest(w) \/ BuildPackage(w) \/ HandOver(w)
           \/ UploadAnswered(w) \/ PostUncertain(w)
    PROVE  PInv'
<1>k. /\ target \in {"X", "PATREON"}
      /\ Kinds[1] \notin Irreversible
      /\ Kinds[1] = "X_MEDIA_UPLOAD" <=> target = "X"
      /\ Kinds[2] \notin {"X_MEDIA_UPLOAD", "PATREON_PACKAGE"}
      /\ Kinds[1] # "PATREON_HANDOFF"
  BY KindsAre DEF PInv, Typed
<1> USE DEF Verdicts, At
<1>1. CASE InputRefused(w)
  <2>1. pc[w].k \in 1..2
    BY <1>1, Holding DEF InputRefused
  <2>2. PICK v \in {"fail", "defer"} : Verdict(w, v, FALSE)
    BY <1>1 DEF InputRefused
  <2>3. Concludes(w, v, FALSE)
    BY <1>1, <2>1 DEF InputRefused, Concludes, Phase, Settled, Between, Unbegun
  <2>4. QED
    BY <1>1, <2>2, <2>3, VerdictStep DEF InputRefused
<1>2. CASE NoRequest(w)
  <2>1. pc[w].k \in 1..2 /\ RowOK(target, Row(pc[w].i, pc[w].a))
    BY <1>2, Holding DEF NoRequest
  <2>2. PICK v \in {"retry", "fail", "unknown"} :
           Verdict(w, v, FALSE) /\ (v = "unknown" => Kinds[pc[w].k] = "X_CREATE_POST")
    BY <1>2 DEF NoRequest
  <2>3. v = "unknown" => pc[w].k = 2
    BY <1>k, <2>1, <2>2 DEF Irreversible
  <2>4. Concludes(w, v, FALSE)
    BY <1>2, <2>1, <2>3 DEF NoRequest, Concludes, Phase, Settled, InStep, RowOK, Unbegun, Open
  <2>5. QED
    BY <1>2, <2>2, <2>4, VerdictStep DEF NoRequest
<1>3. CASE BuildPackage(w)
  <2>1. pc[w].k = 1
    BY <1>k, <1>3, Holding DEF BuildPackage
  <2>2. PICK v \in {"register", "fail", "retry"} : Verdict(w, v, FALSE)
    BY <1>3 DEF BuildPackage
  <2>3. Concludes(w, v, FALSE)
    BY <1>3, <2>1 DEF BuildPackage, Concludes, Phase, Settled, InStep
  <2>4. QED
    BY <1>3, <2>2, <2>3, VerdictStep DEF BuildPackage
<1>4. CASE HandOver(w)
  <2>1. pc[w].k = 2 /\ RowOK(target, Row(pc[w].i, pc[w].a))
    BY <1>k, <1>4, Holding DEF HandOver
  <2>2. Concludes(w, "operator", FALSE)
    BY <1>4, <2>1 DEF HandOver, Concludes, Phase, Settled, InStep, RowOK, Unbegun, Open
  <2>3. QED
    BY <1>4, <2>2, VerdictStep DEF HandOver
<1>5. CASE UploadAnswered(w)
  <2>1. pc[w].k = 1 /\ target = "X"
    BY <1>k, <1>5, Holding DEF UploadAnswered
  <2>2. PICK v \in {"uploaded", "retry", "fail"}, q \in BOOLEAN : Verdict(w, v, q)
    BY <1>5 DEF UploadAnswered
  <2>3. Concludes(w, v, q)
    BY <1>5, <2>1 DEF UploadAnswered, Concludes, Phase, Settled, InStep
  <2>4. QED
    BY <1>5, <2>2, <2>3, VerdictStep DEF UploadAnswered
<1>6. CASE PostUncertain(w)
  <2>1. pc[w].k = 2 /\ RowOK(target, Row(pc[w].i, pc[w].a))
    BY <1>k, <1>6, Holding DEF PostUncertain
  <2>2. Concludes(w, "unknown", TRUE)
    BY <1>6, <2>1 DEF PostUncertain, Concludes, Phase, Settled, InStep, RowOK, Unbegun, Open
  <2>3. QED
    BY <1>6, <2>2, VerdictStep DEF PostUncertain
<1>7. QED
  BY <1>1, <1>2, <1>3, <1>4, <1>5, <1>6

-----------------------------------------------------------------------------
(* The steps that end or move on an attempt.                                *)

LEMMA UndoubtedIsUnposted ==
    ASSUME Typed, NEW i \in Intents, Truthful(i), ~Doubted(attempts[i]),
           intent[i].state \notin {"PUBLISHED", "AWAITING_HUMAN"}
    PROVE  Unposted(i)
BY DEF Truthful, Unposted, Typed

LEMMA UnpostedIsTruthful ==
    ASSUME NEW i \in Intents, Unposted(i),
           absents'[i] = absents[i], posts'[i] = posts[i], calls' \subseteq calls,
           intent'[i].state # "PUBLISHED"
    PROVE  Truthful(i)'
BY DEF Truthful, Unposted

\* A running attempt is the latest, and its intent is at work.
LEMMA RunningIs ==
    ASSUME PInv, NEW i \in Intents, NEW a \in Rows(i), Row(i, a).state \in Running
    PROVE  /\ a = Latest(i) /\ Row(i, a) \in AttemptRows /\ RowOK(target, Row(i, a))
           /\ intent[i].state \in {"READY", "PROCESSING"}
           /\ Row(i, a).state = "PROCESSING" => intent[i].state = "PROCESSING"
           /\ Clean(Row(i, a).steps[2]) => Unposted(i)
<1>1. /\ a = Latest(i) /\ Row(i, a) \in AttemptRows /\ RowOK(target, Row(i, a))
      /\ intent[i].state \in {"READY", "PROCESSING"}
      /\ Row(i, a).state = "PROCESSING" => intent[i].state = "PROCESSING"
  BY LiveIsLatest, RowsAre DEF PInv, Running, Supersedable, Fits
<1>2. ASSUME Clean(Row(i, a).steps[2]) PROVE Unposted(i)
  <2>1. ~Doubted(attempts[i])
    BY <1>1, <1>2 DEF Doubted, Row, Latest, Clean
  <2>2. QED
    BY <1>1, <2>1, UndoubtedIsUnposted DEF PInv
<1>3. QED
  BY <1>1, <1>2

\* The row that _fail, _schedule_retry, ... write for a running attempt.
Written(i, a, s, k, step) ==
    [Row(i, a) EXCEPT !.state = s, !.owner = Nobody, !.live = FALSE, !.steps[k] = step]

LEMMA WrittenIs ==
    ASSUME Typed, NEW i \in Intents, NEW a \in Rows(i), NEW s \in AttemptStates,
           NEW k \in 1..2, NEW step \in StepRows
    PROVE  /\ Written(i, a, s, k, step) \in AttemptRows
           /\ Written(i, a, s, k, step).state = s
           /\ Written(i, a, s, k, step).steps[k] = step
           /\ \A j \in (1..2) \ {k} :
                 Written(i, a, s, k, step).steps[j] = Row(i, a).steps[j]
<1>1. Row(i, a) \in AttemptRows
  BY RowsAre
<1>2. QED
  BY <1>1 DEF Written, AttemptRows

LEMMA WritesStep ==
    ASSUME PInv, NEW i \in Intents, NEW a \in Rows(i), Row(i, a).state \in Running,
           NEW s \in AttemptStates \ Running, NEW st \in IntentStates,
           NEW k \in 1..2, NEW step \in StepRows, Writes(i, a, s, st, k, step),
           RowOK(target, Written(i, a, s, k, step)), Fits(st, s),
           UNCHANGED <<target, absents, posts, calls, approval, enabled, current>>,
           pc' \in [Workers -> Places],
           \A w \in Workers : pc'[w] \in {pc[w], Idle},
           Truthful(i)'
    PROVE  PInv'
<1> DEFINE r == Written(i, a, s, k, step)
<1>1. r \in AttemptRows /\ r.state = s /\ r.state \notin Running
  BY WrittenIs DEF PInv
<1>2. a = Latest(i) /\ intent[i].state \in {"READY", "PROCESSING"}
  BY RunningIs
<1>3. attempts' = [attempts EXCEPT ![i] = [@ EXCEPT ![a] = r]]
  BY DEF Writes, Written, Row
<1>4. /\ intent' \in [Intents -> IntentRows] /\ intent'[i].state = st
      /\ \A j \in Intents \ {i} : intent'[j] = intent[j]
  <2>1. intent' = [intent EXCEPT ![i].state = st] /\ intent \in [Intents -> IntentRows]
    BY DEF PInv, Typed, Writes
  <2>2. [intent[i] EXCEPT !.state = st] \in IntentRows
    BY <2>1 DEF IntentRows
  <2>3. QED
    BY <2>1, <2>2 DEF IntentRows
<1>5. ASSUME NEW w \in Workers PROVE Undisturbed(w) \/ Knows(w)'
  <2>1. CASE pc'[w] = Idle
    BY <2>1 DEF Knows, Idle
  <2>2. CASE pc'[w] = pc[w]
    <3>1. \A j \in Intents : Unposted(j) => Unposted(j)'
      BY DEF Unposted
    <3> HIDE DEF r
    <3>2. QED
      BY <1>1, <1>3, <2>2, <3>1, OthersUndisturbed DEF PInv
  <2>3. QED
    BY <2>1, <2>2
<1>6. intent'[i].state \in Free \/ intent[i].state \notin Free \/ OwnsTarget(i)
  BY <1>2 DEF Free, Supersedable
<1>7. Fits(intent'[i].state, r.state)
  BY <1>1, <1>4
<1> HIDE DEF r
<1>8. RowOK(target, r)
  BY DEF r
<1>9. /\ enabled' \in BOOLEAN /\ current' \in BOOLEAN
      /\ absents' \in [Intents -> Nat] /\ posts' \in [Intents -> Nat]
      /\ approval' \in [Intents -> ApprovalRows] /\ calls' \in SUBSET (Intents \X Nat)
  BY DEF PInv, Typed
<1>10. QED
  BY <1>1, <1>2, <1>3, <1>4, <1>5, <1>6, <1>7, <1>8, <1>9, RowStep

LEMMA CompletedIs ==
    ASSUME NEW w \in Workers, NEW s \in StepRows, NEW e \in Requests, pc[w].request \in BOOLEAN
    PROVE  /\ Completed(w, s, e) \in StepRows
           /\ Completed(w, s, e).state = s.state /\ Completed(w, s, e).retries = s.retries
           /\ Completed(w, s, e).request = IF pc[w].request THEN e ELSE s.request
BY DEF Completed, StepRows

\* Where a controller that settles a verdict under its lease stands.
LEMMA Settling ==
    ASSUME PInv, NEW w \in Workers, pc[w].at = "settle", Leased(w, pc[w].i, pc[w].a)
    PROVE  /\ pc[w].i \in Intents /\ pc[w].a \in Rows(pc[w].i) /\ pc[w].k \in 1..2
           /\ pc[w].request \in BOOLEAN
           /\ Row(pc[w].i, pc[w].a).state \in Running
           /\ Step(pc[w].i, pc[w].a, pc[w].k) \in StepRows
           /\ Row(pc[w].i, pc[w].a).steps[1] \in StepRows
           /\ Row(pc[w].i, pc[w].a).steps[2] \in StepRows
           /\ RowOK(target, Row(pc[w].i, pc[w].a))
           /\ Settled(pc[w], Row(pc[w].i, pc[w].a))
           /\ pc[w].verdict \notin {"posted", "unknown"} => Unposted(pc[w].i)
<1>1. /\ pc[w].i \in Intents /\ pc[w].a \in Rows(pc[w].i) /\ pc[w].k \in 1..2
      /\ Row(pc[w].i, pc[w].a) \in AttemptRows
      /\ RowOK(target, Row(pc[w].i, pc[w].a))
      /\ Phase(pc[w], Row(pc[w].i, pc[w].a))
  BY Holding
<1>2. pc[w].request \in BOOLEAN /\ pc[w].verdict \in Verdicts
  BY Holding DEF Places, Idle
<1>3. Row(pc[w].i, pc[w].a).state \in Running
  BY DEF Leased
<1>4. Settled(pc[w], Row(pc[w].i, pc[w].a))
  BY <1>1 DEF Phase
<1>5. /\ Step(pc[w].i, pc[w].a, pc[w].k) \in StepRows
      /\ Row(pc[w].i, pc[w].a).steps[1] \in StepRows
      /\ Row(pc[w].i, pc[w].a).steps[2] \in StepRows
  BY <1>1 DEF Step, Row, AttemptRows
<1>6. ASSUME pc[w].verdict \notin {"posted", "unknown"} PROVE Unposted(pc[w].i)
  <2>1. Clean(Row(pc[w].i, pc[w].a).steps[2]) => Unposted(pc[w].i)
    BY <1>1, <1>3, RunningIs
  <2>2. CASE pc[w].k = 1
    BY <2>1, <2>2, <1>4 DEF Settled, Unbegun
  <2>3. CASE pc[w].k = 2
    BY <2>1, <2>3, <1>2, <1>4, <1>6 DEF Settled, Verdicts
  <2>4. QED
    BY <1>1, <2>2, <2>3
<1>7. QED
  BY <1>1, <1>2, <1>3, <1>4, <1>5, <1>6

\* An end that leaves no doubt behind.
LEMMA QuietEnd ==
    ASSUME PInv, NEW i \in Intents, NEW a \in Rows(i), Row(i, a).state \in Running,
           Unposted(i),
           NEW s \in AttemptStates \ Running, NEW st \in IntentStates \ {"PUBLISHED"},
           NEW k \in 1..2, NEW step \in StepRows, Writes(i, a, s, st, k, step),
           RowOK(target, Written(i, a, s, k, step)), Fits(st, s),
           UNCHANGED <<target, absents, posts, calls, approval, enabled, current>>,
           pc' \in [Workers -> Places],
           \A w \in Workers : pc'[w] \in {pc[w], Idle}
    PROVE  PInv'
<1>1. Truthful(i)'
  <2>1. intent'[i].state = st
    BY DEF Writes, PInv, Typed, IntentRows
  <2>2. QED
    BY <2>1, UnpostedIsTruthful
<1>2. QED
  BY <1>1, WritesStep

LEMMA StatesAre ==
    /\ {"FAILED", "RETRY_WAIT", "CANCELLED", "AWAITING_HUMAN", "UNKNOWN", "SUCCEEDED"}
          \subseteq AttemptStates \ Running
    /\ {"FAILED", "RETRY_WAIT", "CANCELLED", "AWAITING_HUMAN", "UNKNOWN", "SUCCEEDED",
        "PROCESSING"} \subseteq StepStates
    /\ {"FAILED", "READY", "AWAITING_APPROVAL", "AWAITING_HUMAN", "UNKNOWN", "CANCELLED",
        "PROCESSING"} \subseteq IntentStates \ {"PUBLISHED"}
BY DEF AttemptStates, StepStates, IntentStates, Active, Running, Open

\* The ends that release the lease without a doubt, and what they make of the
\* attempt and of its step.
LEMMA PlainEnd ==
    ASSUME PInv, NEW w \in Workers, pc[w].at = "settle", Leased(w, pc[w].i, pc[w].a),
           NEW s \in {"FAILED", "RETRY_WAIT", "CANCELLED", "AWAITING_HUMAN"},
           <<pc[w].verdict, s>> \in {<<"retry", "FAILED">>, <<"retry", "RETRY_WAIT">>,
              <<"fail", "FAILED">>, <<"defer", "RETRY_WAIT">>, <<"expire", "CANCELLED">>,
              <<"operator", "AWAITING_HUMAN">>},
           NEW st \in IntentStates \ {"PUBLISHED"}, Fits(st, s),
           NEW step \in StepRows, step.state = s,
           ~pc[w].request => step.request = Step(pc[w].i, pc[w].a, pc[w].k).request,
           pc[w].request /\ pc[w].verdict = "retry" => step.request = "retryable",
           Writes(pc[w].i, pc[w].a, s, st, pc[w].k, step),
           UNCHANGED <<target, absents, posts, calls, approval, enabled, current>>,
           pc' = [pc EXCEPT ![w] = Idle]
    PROVE  PInv'
<1> DEFINE i == pc[w].i
           a == pc[w].a
           k == pc[w].k
           r == Written(i, a, s, k, step)
<1>1. /\ i \in Intents /\ a \in Rows(i) /\ k \in 1..2 /\ Row(i, a).state \in Running
      /\ RowOK(target, Row(i, a)) /\ Settled(pc[w], Row(i, a))
      /\ Unposted(i) /\ Step(i, a, k) = Row(i, a).steps[k]
  BY Settling DEF Step, Row
<1>2. pc' \in [Workers -> Places] /\ \A v \in Workers : pc'[v] \in {pc[v], Idle}
  BY DEF PInv, Typed, Places
<1>3. /\ r.state = s /\ r.steps[k] = step
      /\ \A j \in (1..2) \ {k} : r.steps[j] = Row(i, a).steps[j]
  BY <1>1, WrittenIs, StatesAre DEF PInv
<1> HIDE DEF r
<1>4. CASE k = 1
  <2>1. /\ r.steps[1] = step /\ r.steps[2] = Row(i, a).steps[2]
        /\ Unbegun(r.steps[2]) /\ s # "AWAITING_HUMAN"
        /\ target = "PATREON" => step.request = "none"
    BY <1>1, <1>3, <1>4 DEF Settled, RowOK
  <2>2. RowOK(target, r)
    BY <1>3, <2>1 DEF RowOK, StepInDoubt, Unbegun, Clean, Supersedable, Open
  <2>3. QED
    BY <1>1, <1>2, <2>2, QuietEnd, StatesAre DEF r
<1>5. CASE k = 2
  <2>1. /\ r.steps[2] = step /\ r.steps[1] = Row(i, a).steps[1]
        /\ r.steps[1].state = "SUCCEEDED"
        /\ s \in {"RETRY_WAIT", "CANCELLED"} => Clean(step)
        /\ target = "PATREON" => r.steps[1].request = "none"
    BY <1>1, <1>3, <1>5 DEF Settled, RowOK, Clean
  <2>2. RowOK(target, r)
    BY <1>3, <2>1 DEF RowOK, StepInDoubt, Unbegun, Clean, Supersedable, Open
  <2>3. QED
    BY <1>1, <1>2, <2>2, QuietEnd, StatesAre DEF r
<1>6. QED
  BY <1>1, <1>4, <1>5

\* A step that is completed and then set to a state.
LEMMA StepSet ==
    ASSUME NEW s \in StepRows, NEW t \in StepStates
    PROVE  /\ [s EXCEPT !.state = t] \in StepRows
           /\ [s EXCEPT !.state = t].state = t
           /\ [s EXCEPT !.state = t].request = s.request
BY DEF StepRows

LEMMA StepRetried ==
    ASSUME NEW s \in StepRows
    PROVE  LET t == [s EXCEPT !.state = "RETRY_WAIT", !.retries = @ + 1]
           IN t \in StepRows /\ t.state = "RETRY_WAIT" /\ t.request = s.request
<1>1. PICK n \in Nat : n = s.retries + 1
  BY DEF StepRows
<1> DEFINE t == [s EXCEPT !.state = "RETRY_WAIT", !.retries = @ + 1]
<1>2. t = [s EXCEPT !.state = "RETRY_WAIT", !.retries = n]
  BY <1>1
<1> HIDE DEF t
<1>3. t \in StepRows /\ t.state = "RETRY_WAIT" /\ t.request = s.request
  BY <1>2, StatesAre DEF StepRows
<1>4. QED
  BY <1>3 DEF t

\* The post was begun, and its outcome is not known.
LEMMA UnknownEnd ==
    ASSUME PInv, NEW i \in Intents, NEW a \in Rows(i), Row(i, a).state \in Running,
           Row(i, a).steps[2].request = "started",
           NEW step \in StepRows, step.state = "UNKNOWN", step.request = "unknown",
           Writes(i, a, "UNKNOWN", "UNKNOWN", 2, step),
           UNCHANGED <<target, absents, posts, calls, approval, enabled, current>>,
           pc' \in [Workers -> Places],
           \A w \in Workers : pc'[w] \in {pc[w], Idle}
    PROVE  PInv'
<1> DEFINE r == Written(i, a, "UNKNOWN", 2, step)
<1>1. /\ a = Latest(i) /\ RowOK(target, Row(i, a)) /\ Row(i, a).state = "PROCESSING"
      /\ intent[i].state = "PROCESSING"
  BY RunningIs DEF RowOK, Running, Unbegun, Clean
<1>2. /\ r \in AttemptRows /\ r.state = "UNKNOWN" /\ r.steps[2] = step
      /\ r.steps[1] = Row(i, a).steps[1]
  BY WrittenIs, StatesAre DEF PInv
<1>3. attempts' = [attempts EXCEPT ![i] = [@ EXCEPT ![a] = r]]
  BY DEF Writes, Written, Row
<1> HIDE DEF r
<1>4. RowOK(target, r)
  BY <1>1, <1>2 DEF RowOK, Supersedable
<1>5. Fits("UNKNOWN", r.state)
  BY <1>2 DEF Fits, Supersedable
<1>6. Truthful(i)'
  <2>. Typed /\ History(target, intent[i].state, attempts[i]) /\ "UNKNOWN" \in IntentStates
    BY DEF PInv, IntentStates
  <2>1. attempts'[i][a] = r /\ Len(attempts'[i]) = Latest(i)
    BY ZenonT(30), <1>1, <1>2, <1>3, <1>4, <1>5, LatestMoves
  <2>2. Latest(i) # 0
    BY <1>1, RowsAre DEF PInv
  <2>3. Doubted(attempts'[i])
    BY <1>1, <1>2, <2>1, <2>2 DEF Doubted
  <2>4. Truthful(i) /\ intent[i].state \notin {"PUBLISHED", "AWAITING_HUMAN"}
    BY <1>1 DEF PInv
  <2>5. intent'[i].state = "UNKNOWN"
    BY DEF Writes, PInv, Typed, IntentRows
  <2>6. QED
    BY <2>1, <2>3, <2>4, <2>5 DEF Truthful, Latest
<1>7. QED
  BY <1>2, <1>4, <1>5, <1>6, WritesStep, StatesAre DEF r

\* The post is known to exist.
LEMMA PostedEnd ==
    ASSUME PInv, NEW i \in Intents, NEW a \in Rows(i), Row(i, a).state \in Running,
           posts[i] # 0,
           NEW step \in StepRows, step.state = "SUCCEEDED",
           target = "PATREON" => Row(i, a).steps[1].request = "none",
           Writes(i, a, "SUCCEEDED", "PUBLISHED", 2, step),
           UNCHANGED <<target, absents, posts, calls, approval, enabled, current>>,
           pc' \in [Workers -> Places],
           \A w \in Workers : pc'[w] \in {pc[w], Idle}
    PROVE  PInv'
<1> DEFINE r == Written(i, a, "SUCCEEDED", 2, step)
<1>1. r.state = "SUCCEEDED" /\ r.steps[2] = step /\ r.steps[1] = Row(i, a).steps[1]
  BY WrittenIs, StatesAre DEF PInv
<1> HIDE DEF r
<1>2. RowOK(target, r) /\ Fits("PUBLISHED", "SUCCEEDED")
  BY <1>1 DEF RowOK, Fits, Supersedable
<1>3. Truthful(i)'
  <2>1. intent'[i].state = "PUBLISHED"
    BY DEF Writes, PInv, Typed, IntentRows
  <2>2. QED
    BY <2>1 DEF PInv, Truthful
<1>4. QED
  BY <1>2, <1>3, WritesStep, StatesAre DEF r, IntentStates

\* A row that its owner changes, under the intent's state, disturbs nobody else.
LEMMA OwnRowStep ==
    ASSUME PInv, NEW w \in Workers, NEW i \in Intents, NEW a \in Rows(i), Leased(w, i, a),
           NEW r \in AttemptRows, r.owner = w, r.state \in Running, RowOK(target, r),
           attempts' = [attempts EXCEPT ![i] = [@ EXCEPT ![a] = r]],
           intent' \in [Intents -> IntentRows], Fits(intent'[i].state, r.state),
           \A j \in Intents \ {i} : intent'[j] = intent[j],
           \A c \in calls' : c[1] # i => c \in calls,
           calls' \in SUBSET (Intents \X Nat),
           UNCHANGED <<target, absents, posts, approval, enabled, current>>,
           Truthful(i)', \A c \in calls : c \in calls',
           NEW p \in Places, pc' = [pc EXCEPT ![w] = p],
           p.i = i /\ p.a = a /\ p.at # "idle", Phase(p, r)'
    PROVE  PInv'
<1>1. a = Latest(i) /\ intent[i].state \in {"READY", "PROCESSING"}
  BY RunningIs DEF Leased
<1>2. pc' \in [Workers -> Places] /\ pc'[w] = p /\ \A v \in Workers \ {w} : pc'[v] = pc[v]
  BY DEF PInv, Typed
<1>3. Row(i, a)' = r /\ a \in Rows(i)'
  BY RowsAre DEF PInv, Typed, Rows, Row
<1>4. Knows(w)'
  BY <1>2, <1>3 DEF Knows
<1>5. ASSUME NEW v \in Workers \ {w} PROVE Undisturbed(v)
  <2>1. ASSUME NEW j \in Intents, NEW b \in Rows(j), Leased(v, j, b), Unposted(j)
        PROVE  Unposted(j)'
    <3>1. j # i
      <4>1. b = Latest(j)
        BY <2>1, RunningIs DEF Leased
      <4>2. QED
        BY <4>1, <1>1, <2>1, <1>5 DEF Leased
    <3>2. QED
      BY <3>1, <2>1 DEF Unposted
  <2>2. Typed /\ \A j \in Intents : posts[j] # 0 => posts'[j] # 0
    BY DEF PInv
  <2>3. pc'[v] = pc[v] /\ ~(r.owner = v /\ r.state \in Running)
    BY <1>2
  <2>4. QED
    BY <2>1, <2>2, <2>3, OthersUndisturbed
<1>6. intent[i].state \notin Free
  BY <1>1 DEF Free, Supersedable
<1>7. /\ enabled' \in BOOLEAN /\ current' \in BOOLEAN
      /\ approval' \in [Intents -> ApprovalRows]
      /\ absents' \in [Intents -> Nat] /\ posts' \in [Intents -> Nat]
  BY DEF PInv, Typed
<1>8. QED
  BY ZenonT(30), <1>1, <1>2, <1>4, <1>5, <1>6, <1>7, RowStep

LEMMA AdvanceStep ==
    ASSUME PInv, NEW w \in Workers, NEW i \in Intents, NEW a \in Rows(i),
           pc[w].at = "settle", pc[w].i = i, pc[w].a = a, Leased(w, i, a),
           Advance(w, i, a, pc[w].k, Step(i, a, pc[w].k)),
           UNCHANGED <<target, absents, posts, calls, approval, enabled, current>>,
           pc' = [pc EXCEPT ![w] = [at |-> "claimed", i |-> i, a |-> a]]
    PROVE  PInv'
<1> DEFINE p == [at |-> "claimed", i |-> i, a |-> a]
<1>1. pc[w].k = 1
  BY Settling DEF Advance, Settled
<1>2. /\ Row(i, a).state \in Running
      /\ RowOK(target, Row(i, a)) /\ Unbegun(Row(i, a).steps[2])
      /\ pc[w].request => target = "X"
      /\ Row(i, a).steps[1] \in StepRows /\ pc[w].request \in BOOLEAN
  BY <1>1, Settling DEF Settled
<1>3. PICK step : step = [Completed(w, Row(i, a).steps[1], "succeeded")
                            EXCEPT !.state = "SUCCEEDED"]
  OBVIOUS
<1>4. /\ step \in StepRows /\ step.state = "SUCCEEDED"
      /\ ~pc[w].request => step.request = Row(i, a).steps[1].request
  BY <1>2, <1>3, CompletedIs, StepSet, StatesAre DEF Requests
<1>5. Row(i, a) \in AttemptRows /\ a = Latest(i) /\ Unposted(i)
      /\ intent[i].state \in {"READY", "PROCESSING"}
      /\ (Row(i, a).state = "PROCESSING" => intent[i].state = "PROCESSING")
  BY <1>2, RunningIs DEF Unbegun
<1>6. PICK r : r = [Row(i, a) EXCEPT !.steps[1] = step]
  OBVIOUS
<1>7. attempts' = [attempts EXCEPT ![i] = [@ EXCEPT ![a] = r]] /\ intent' = intent
  BY <1>1, <1>3, <1>6 DEF Advance, Row, Step
<1>8. /\ r \in AttemptRows /\ r.owner = w /\ r.state = Row(i, a).state
      /\ r.steps[1] = step /\ r.steps[2] = Row(i, a).steps[2]
  BY <1>4, <1>5, <1>6 DEF AttemptRows, Leased
<1>9. RowOK(target, r)
  BY <1>2, <1>4, <1>8 DEF RowOK, Running, Supersedable, Unbegun, Open
<1>10. p \in Places
  BY <1>5, RowsAre DEF Places, PInv
<1>11. Phase(p, r)'
  BY <1>2, <1>4, <1>8 DEF Phase, Between
<1>12. Truthful(i)'
  BY <1>5, <1>7, UnpostedIsTruthful
<1>13. Fits(intent'[i].state, r.state)
  BY <1>2, <1>5, <1>7, <1>8 DEF Fits, Running, Supersedable
<1>14. intent' \in [Intents -> IntentRows] /\ calls' \in SUBSET (Intents \X Nat)
  BY <1>7 DEF PInv, Typed
<1>15. QED
  BY <1>2, <1>7, <1>8, <1>9, <1>10, <1>11, <1>12, <1>13, <1>14, OwnRowStep

LEMMA PlainWrite ==
    ASSUME PInv, NEW w \in Workers, NEW i \in Intents, NEW a \in Rows(i), NEW k \in 1..2,
           pc[w].at = "settle", pc[w].i = i, pc[w].a = a, pc[w].k = k, Leased(w, i, a),
           NEW s \in {"FAILED", "RETRY_WAIT", "CANCELLED", "AWAITING_HUMAN"},
           <<pc[w].verdict, s>> \in {<<"retry", "FAILED">>, <<"retry", "RETRY_WAIT">>,
              <<"fail", "FAILED">>, <<"defer", "RETRY_WAIT">>, <<"expire", "CANCELLED">>,
              <<"operator", "AWAITING_HUMAN">>},
           NEW st \in IntentStates, Fits(st, s),
           NEW c \in StepRows, Writes(i, a, s, st, k, [c EXCEPT !.state = s]),
           ~pc[w].request => c.request = Step(i, a, k).request,
           pc[w].request /\ pc[w].verdict = "retry" => c.request = "retryable",
           UNCHANGED <<target, absents, posts, calls, approval, enabled, current>>,
           pc' = [pc EXCEPT ![w] = Idle]
    PROVE  PInv'
<1>s. s \in StepStates
  BY StatesAre
<1>1. PICK step \in StepRows : /\ step = [c EXCEPT !.state = s]
                               /\ step.state = s /\ step.request = c.request
  BY <1>s, StepSet
<1>2. st \in IntentStates \ {"PUBLISHED"}
  BY DEF Fits, Supersedable
<1>3. Writes(i, a, s, st, k, step)
  BY <1>1
<1>4. QED
  BY <1>1, <1>2, <1>3, PlainEnd

LEMMA PlainFits ==
    /\ Fits("FAILED", "FAILED") /\ Fits("READY", "RETRY_WAIT")
    /\ Fits("AWAITING_APPROVAL", "CANCELLED") /\ Fits("AWAITING_HUMAN", "AWAITING_HUMAN")
    /\ {"FAILED", "READY", "AWAITING_APPROVAL", "AWAITING_HUMAN"} \subseteq IntentStates
BY DEF Fits, Supersedable, IntentStates

\* The outcome of a post that was not begun is taken to be unknown.
LEMMA UnbegunEnd ==
    ASSUME PInv, NEW i \in Intents, NEW a \in Rows(i), Row(i, a).state \in Running,
           Clean(Row(i, a).steps[2]),
           NEW step \in StepRows, step.state = "UNKNOWN",
           step.request = Row(i, a).steps[2].request,
           target = "PATREON" => Row(i, a).steps[1].request = "none",
           Writes(i, a, "UNKNOWN", "UNKNOWN", 2, step),
           UNCHANGED <<target, absents, posts, calls, approval, enabled, current>>,
           pc' \in [Workers -> Places],
           \A w \in Workers : pc'[w] \in {pc[w], Idle}
    PROVE  PInv'
<1> DEFINE r == Written(i, a, "UNKNOWN", 2, step)
<1>1. r.state = "UNKNOWN" /\ r.steps[2] = step /\ r.steps[1] = Row(i, a).steps[1]
  BY WrittenIs, StatesAre DEF PInv
<1> HIDE DEF r
<1>2. RowOK(target, r) /\ Fits("UNKNOWN", "UNKNOWN")
  BY <1>1 DEF RowOK, Fits, Supersedable, Clean
<1>3. Unposted(i)
  BY RunningIs
<1>4. QED
  BY <1>2, <1>3, QuietEnd, StatesAre DEF r

LEMMA CloseStep ==
    ASSUME PInv, NEW w \in Workers, pc[w].at = "settle", Leased(w, pc[w].i, pc[w].a),
           Close(w, pc[w].i, pc[w].a, pc[w].k, Step(pc[w].i, pc[w].a, pc[w].k)),
           UNCHANGED <<target, absents, posts, calls, approval, enabled, current>>,
           pc' = [pc EXCEPT ![w] = Idle]
    PROVE  PInv'
<1>1. PICK i \in Intents, a \in Nat, k \in 1..2, s \in StepRows :
         /\ pc[w].i = i /\ pc[w].a = a /\ a \in Rows(i) /\ pc[w].k = k
         /\ s = Step(i, a, k) /\ Leased(w, i, a)
         /\ Close(w, i, a, k, s)
  BY Settling, RowsAre DEF PInv
<1>2. /\ pc[w].request \in BOOLEAN /\ Settled(pc[w], Row(i, a))
      /\ RowOK(target, Row(i, a)) /\ Row(i, a).state \in Running
      /\ Row(i, a).steps[2] \in StepRows
  BY <1>1, Settling
<1>3. pc' \in [Workers -> Places] /\ \A v \in Workers : pc'[v] \in {pc[v], Idle}
  BY DEF PInv, Typed, Places
<1>4. \A e \in Requests :
         /\ Completed(w, s, e) \in StepRows
         /\ Completed(w, s, e).request = IF pc[w].request THEN e ELSE s.request
  BY <1>2, CompletedIs
<1>5. CASE pc[w].verdict = "retry"
  <2>1. Completed(w, s, "retryable") \in StepRows
        /\ Completed(w, s, "retryable").request = IF pc[w].request THEN "retryable" ELSE s.request
    BY <1>4 DEF Requests
  <2>2. PICK c \in StepRows : c = Completed(w, s, "retryable")
    BY <2>1
  <2>3. CASE Writes(i, a, "FAILED", "FAILED", k, [c EXCEPT !.state = "FAILED"])
    BY <1>1, <1>5, <2>1, <2>2, <2>3, PlainWrite, PlainFits
  <2>4. CASE Writes(i, a, "RETRY_WAIT", "READY", k,
                    [c EXCEPT !.state = "RETRY_WAIT", !.retries = @ + 1])
    <3>1. PICK t \in StepRows :
             /\ t = [c EXCEPT !.state = "RETRY_WAIT", !.retries = @ + 1]
             /\ t.state = "RETRY_WAIT" /\ t.request = c.request
      BY StepRetried
    <3>2. [t EXCEPT !.state = "RETRY_WAIT"] = t
      BY <3>1 DEF StepRows
    <3>3. Writes(i, a, "RETRY_WAIT", "READY", k, [t EXCEPT !.state = "RETRY_WAIT"])
      BY <2>4, <3>1, <3>2
    <3>4. QED
      BY ZenonT(30), <1>1, <1>5, <2>1, <2>2, <3>1, <3>3, PlainWrite, PlainFits
  <2>5. QED
    BY <1>1, <1>5, <2>2, <2>3, <2>4 DEF Close, ScheduleRetry
<1>6. CASE pc[w].verdict = "fail"
  <2>1. PICK c \in StepRows : c = Completed(w, s, "terminal")
    BY <1>4 DEF Requests
  <2>2. Writes(i, a, "FAILED", "FAILED", k, [c EXCEPT !.state = "FAILED"])
    BY <1>1, <1>6, <2>1 DEF Close
  <2>3. ~pc[w].request => c.request = s.request
    BY <1>4, <2>1 DEF Requests
  <2>4. QED
    BY <1>1, <1>6, <2>1, <2>2, <2>3, PlainWrite, PlainFits
<1>7. CASE pc[w].verdict = "defer"
  <2>1. Writes(i, a, "RETRY_WAIT", "READY", k, [s EXCEPT !.state = "RETRY_WAIT"])
    BY <1>1, <1>7 DEF Close
  <2>2. QED
    BY <1>1, <1>7, <2>1, PlainWrite, PlainFits
<1>8. CASE pc[w].verdict = "expire"
  <2>1. Writes(i, a, "CANCELLED", "AWAITING_APPROVAL", k, [s EXCEPT !.state = "CANCELLED"])
    BY <1>1, <1>8 DEF Close
  <2>2. QED
    BY <1>1, <1>8, <2>1, PlainWrite, PlainFits
<1>9. CASE pc[w].verdict = "operator"
  <2>1. PICK c \in StepRows : c = Completed(w, s, "terminal")
    BY <1>4 DEF Requests
  <2>2. Writes(i, a, "AWAITING_HUMAN", "AWAITING_HUMAN", k, [c EXCEPT !.state = "AWAITING_HUMAN"])
    BY <1>1, <1>9, <2>1 DEF Close
  <2>3. ~pc[w].request => c.request = s.request
    BY <1>4, <2>1 DEF Requests
  <2>4. QED
    BY <1>1, <1>9, <2>1, <2>2, <2>3, PlainWrite, PlainFits
<1>10. CASE pc[w].verdict = "unknown"
  <2>1. /\ k = 2 /\ s = Row(i, a).steps[2]
        /\ pc[w].request => s.request = "started"
        /\ ~pc[w].request => Clean(s)
        /\ target = "PATREON" => Row(i, a).steps[1].request = "none"
    BY <1>1, <1>2, <1>10 DEF Settled, RowOK, Step, Row
  <2>2. PICK c \in StepRows : /\ c = Completed(w, s, "unknown")
                             /\ c.request = IF pc[w].request THEN "unknown" ELSE s.request
    BY <1>4 DEF Requests
  <2>3. PICK step \in StepRows : /\ step = [c EXCEPT !.state = "UNKNOWN"]
                                /\ step.state = "UNKNOWN" /\ step.request = c.request
    BY StepSet, StatesAre
  <2>4. Writes(i, a, "UNKNOWN", "UNKNOWN", 2, step)
    BY <1>1, <1>10, <2>1, <2>2, <2>3 DEF Close
  <2>5. CASE pc[w].request
    <3>1. /\ step.state = "UNKNOWN" /\ step.request = "unknown"
          /\ Row(i, a).steps[2].request = "started"
      BY <2>1, <2>2, <2>3, <2>5
    <3>2. QED
      BY <1>1, <1>2, <1>3, <2>4, <3>1, UnknownEnd
  <2>6. CASE ~pc[w].request
    BY <1>1, <1>2, <1>3, <2>1, <2>2, <2>3, <2>4, <2>6, UnbegunEnd
  <2>7. QED
    BY <1>2, <2>5, <2>6
<1>11. CASE pc[w].verdict = "posted"
  <2>1. /\ k = 2 /\ posts[i] # 0
        /\ target = "PATREON" => Row(i, a).steps[1].request = "none"
    BY <1>1, <1>2, <1>11 DEF Settled, RowOK
  <2>2. PICK c \in StepRows : c = Completed(w, s, "succeeded")
    BY <1>4 DEF Requests
  <2>3. Writes(i, a, "SUCCEEDED", "PUBLISHED", 2, [c EXCEPT !.state = "SUCCEEDED"])
    BY <1>1, <1>11, <2>1, <2>2 DEF Close
  <2>4. QED
    <3>1. PICK step \in StepRows : /\ step = [c EXCEPT !.state = "SUCCEEDED"]
                                   /\ step.state = "SUCCEEDED"
      BY StepSet, StatesAre
    <3>2. Writes(i, a, "SUCCEEDED", "PUBLISHED", 2, step)
      BY <2>3, <3>1
    <3>3. QED
      BY <1>1, <1>2, <1>3, <2>1, <3>1, <3>2, PostedEnd
<1>12. QED
  BY <1>5, <1>6, <1>7, <1>8, <1>9, <1>10, <1>11 DEF Close

LEMMA SettleStep ==
    ASSUME PInv, NEW w \in Workers, Settle(w)
    PROVE  PInv'
<1>1. pc[w].at = "settle"
      /\ UNCHANGED <<target, approval, absents, absentLock, downloaded, enabled, current,
                     calls, posts>>
  BY DEF Settle, At
<1>2. PICK i \in Intents, a \in Nat : i = pc[w].i /\ a = pc[w].a /\ a \in Rows(i)
  BY <1>1, Holding, RowsAre DEF PInv
<1>3. CASE Leased(w, i, a) /\ Close(w, i, a, pc[w].k, Step(i, a, pc[w].k))
           /\ pc' = [pc EXCEPT ![w] = Idle]
  BY <1>1, <1>2, <1>3, CloseStep
<1>4. CASE Leased(w, i, a) /\ Advance(w, i, a, pc[w].k, Step(i, a, pc[w].k))
           /\ pc' = [pc EXCEPT ![w] = [at |-> "claimed", i |-> i, a |-> a]]
  BY <1>1, <1>2, <1>4, AdvanceStep
<1>5. CASE pc' = [pc EXCEPT ![w] = Idle] /\ UNCHANGED <<attempts, intent, packaged>>
  <2>1. Idle \in Places /\ Idle.at = "idle"
    BY DEF Places, Idle
  <2>2. QED
    BY <1>1, <1>5, <2>1, Thinks DEF world
<1>6. QED
  BY <1>1, <1>2, <1>3, <1>4, <1>5 DEF Settle

-----------------------------------------------------------------------------
(* The recovery of an expired lease, and the claims.                        *)

\* A recovered attempt that is not in doubt fails, or waits for its retry.
LEMMA RecoverQuiet ==
    ASSUME PInv, NEW i \in Intents, NEW a \in Rows(i), Row(i, a).state = "PROCESSING",
           NEW k \in 1..2, NEW step \in StepRows,
           NEW s \in {"FAILED", "RETRY_WAIT"}, step.state = s,
           NEW st, st = IF s = "FAILED" THEN "FAILED" ELSE intent[i].state,
           k = 1 => /\ Unbegun(Row(i, a).steps[2])
                    /\ target = "PATREON" => step.request = "none",
           k = 2 => Row(i, a).steps[1].state = "SUCCEEDED"
                    /\ Clean(Row(i, a).steps[2]) /\ Clean(step),
           Writes(i, a, s, st, k, step),
           UNCHANGED <<target, absents, posts, calls, approval, enabled, current, pc>>
    PROVE  PInv'
<1> DEFINE r == Written(i, a, s, k, step)
<1>1. /\ RowOK(target, Row(i, a)) /\ intent[i].state = "PROCESSING"
      /\ Row(i, a).state \in Running /\ Unposted(i)
  BY RunningIs DEF Running, Unbegun
<1>2. /\ s \in AttemptStates \ Running /\ st \in IntentStates \ {"PUBLISHED"}
      /\ Fits(st, s)
  BY <1>1, StatesAre DEF Fits, Supersedable
<1>3. /\ r.state = s /\ r.steps[k] = step
      /\ \A j \in (1..2) \ {k} : r.steps[j] = Row(i, a).steps[j]
  BY <1>2, WrittenIs DEF PInv
<1> HIDE DEF r
<1>4. ASSUME k = 1 PROVE RowOK(target, r)
  <2>1. r.steps[1] = step /\ r.steps[2] = Row(i, a).steps[2]
    BY <1>3, <1>4
  <2>2. QED
    BY <1>1, <1>3, <1>4, <2>1
    DEF RowOK, StepInDoubt, Unbegun, Clean, Supersedable, Open
<1>5. ASSUME k = 2 PROVE RowOK(target, r)
  <2>1. r.steps[2] = step /\ r.steps[1] = Row(i, a).steps[1]
    BY <1>3, <1>5
  <2>2. QED
    BY <1>1, <1>3, <1>5, <2>1
    DEF RowOK, StepInDoubt, Unbegun, Clean, Supersedable, Open
<1>6. pc' \in [Workers -> Places] /\ \A v \in Workers : pc'[v] \in {pc[v], Idle}
  BY DEF PInv, Typed
<1>7. QED
  BY <1>1, <1>2, <1>4, <1>5, <1>6, QuietEnd DEF r

LEMMA RecoverStepStep ==
    ASSUME PInv, NEW i \in Intents, NEW a \in Rows(i), Expired(i, a),
           NEW k \in Under(i, a), \A j \in Under(i, a) : k <= j,
           RecoverStep(i, a, k),
           UNCHANGED <<approval, world, pc, calls, posts>>
    PROVE  PInv'
<1>1. /\ Row(i, a) \in AttemptRows /\ RowOK(target, Row(i, a))
      /\ Row(i, a).state \in Running
  BY RunningIs DEF Expired
<1>2. k \in 1..2 /\ Row(i, a).steps[k].state = "PROCESSING"
      /\ Row(i, a).steps[k] \in StepRows /\ Step(i, a, k) = Row(i, a).steps[k]
  BY <1>1 DEF Under, Step, Row, AttemptRows
<1>3. Row(i, a).state = "PROCESSING"
  BY <1>1, <1>2 DEF RowOK, Running, Unbegun, Open
<1>4. k = 1 => Unbegun(Row(i, a).steps[2])
  BY <1>1, <1>2, <1>3 DEF RowOK
<1>5. k = 2 => /\ Row(i, a).steps[1].state = "SUCCEEDED"
               /\ Clean(Row(i, a).steps[2]) \/ Row(i, a).steps[2].request = "started"
  BY <1>1, <1>2, <1>3 DEF RowOK, Unbegun, Open
<1>k. /\ Kinds[1] \notin Irreversible /\ Kinds[2] \in Irreversible
      /\ Kinds[1] = "X_MEDIA_UPLOAD" <=> target = "X"
      /\ Kinds[2] # "X_MEDIA_UPLOAD" /\ target \in {"X", "PATREON"}
  BY KindsAre DEF PInv, Typed
<1>6. UNCHANGED <<target, absents, posts, calls, approval, enabled, current, pc>>
  BY DEF world
<1>7. CASE InDoubt(k, Step(i, a, k))
  <2>1. k = 2 /\ Row(i, a).steps[2].request = "started"
    BY <1>2, <1>7, <1>k DEF InDoubt
  <2>2. PICK step : step = [Row(i, a).steps[2] EXCEPT !.state = "UNKNOWN", !.request = "unknown"]
    OBVIOUS
  <2>3. step \in StepRows /\ step.state = "UNKNOWN" /\ step.request = "unknown"
    BY <1>2, <2>1, <2>2, StatesAre DEF StepRows, Requests
  <2>4. Writes(i, a, "UNKNOWN", "UNKNOWN", 2, step)
    BY <1>2, <1>7, <2>1, <2>2 DEF RecoverStep
  <2>5. pc' \in [Workers -> Places] /\ \A v \in Workers : pc'[v] \in {pc[v], Idle}
    BY <1>6 DEF PInv, Typed
  <2>6. QED
    BY <1>1, <1>6, <2>1, <2>3, <2>4, <2>5, UnknownEnd
<1>8. CASE ~InDoubt(k, Step(i, a, k))
  <2> DEFINE closed == IF Kinds[k] = "X_MEDIA_UPLOAD" /\ Row(i, a).steps[k].request = "started"
                       THEN "retryable" ELSE Row(i, a).steps[k].request
  <2>1. closed \in Requests
    BY <1>2 DEF StepRows, Requests
  <2>2. k = 1 /\ target = "PATREON" => closed = "none"
    BY <1>1, <1>k DEF RowOK
  <2>3. k = 2 => Clean(Row(i, a).steps[2]) /\ closed = Row(i, a).steps[2].request
    BY <1>2, <1>5, <1>8, <1>k DEF InDoubt
  <2>4. \/ Writes(i, a, "FAILED", "FAILED", k,
              [Row(i, a).steps[k] EXCEPT !.state = "FAILED", !.request = closed])
        \/ Writes(i, a, "RETRY_WAIT", intent[i].state, k,
              [Row(i, a).steps[k] EXCEPT !.state = "RETRY_WAIT", !.request = closed])
    BY <1>2, <1>8 DEF RecoverStep
  <2>s. PICK s \in {"FAILED", "RETRY_WAIT"} :
           Writes(i, a, s, IF s = "FAILED" THEN "FAILED" ELSE intent[i].state, k,
                  [Row(i, a).steps[k] EXCEPT !.state = s, !.request = closed])
    BY <2>4
  <2>5. PICK st, step :
           /\ st = IF s = "FAILED" THEN "FAILED" ELSE intent[i].state
           /\ Writes(i, a, s, st, k, step)
           /\ step = [Row(i, a).steps[k] EXCEPT !.state = s, !.request = closed]
    BY <2>s
  <2> HIDE DEF closed
  <2>6. step \in StepRows /\ step.state = s /\ step.request = closed
    BY <1>2, <2>1, <2>5, StatesAre DEF StepRows
  <2>7. k = 2 => Clean(step)
    BY <2>3, <2>6 DEF Clean
  <2>8. k = 1 => Unbegun(Row(i, a).steps[2]) /\ (target = "PATREON" => step.request = "none")
    BY <1>4, <2>2, <2>6
  <2>9. k = 2 => Row(i, a).steps[1].state = "SUCCEEDED"
                 /\ Clean(Row(i, a).steps[2]) /\ Clean(step)
    BY <1>5, <2>3, <2>7
  <2>10. QED
    BY ZenonT(30), <1>2, <1>3, <1>6, <2>5, <2>6, <2>8, <2>9, RecoverQuiet
<1>9. QED
  BY <1>7, <1>8

\* The latest row of an intent is left, with nobody at work on it.
LEMMA RowEnds ==
    ASSUME PInv, NEW i \in Intents, NEW a \in Rows(i), a = Latest(i),
           NEW r \in AttemptRows, r.state \notin Running, RowOK(target, r),
           attempts' = [attempts EXCEPT ![i] = [@ EXCEPT ![a] = r]],
           intent' \in [Intents -> IntentRows], Fits(intent'[i].state, r.state),
           \A j \in Intents \ {i} : intent'[j] = intent[j] /\ absents'[j] = absents[j],
           intent'[i].state \in Free \/ intent[i].state \notin Free \/ OwnsTarget(i),
           approval' \in [Intents -> ApprovalRows], absents' \in [Intents -> Nat],
           \A j \in Intents : Unposted(j) => Unposted(j)',
           UNCHANGED <<target, posts, calls, enabled, current, pc>>,
           Truthful(i)'
    PROVE  PInv'
<1>1. /\ enabled' \in BOOLEAN /\ current' \in BOOLEAN /\ posts' \in [Intents -> Nat]
      /\ calls' \in SUBSET (Intents \X Nat) /\ pc' \in [Workers -> Places]
  BY DEF PInv, Typed
<1>2. ASSUME NEW w \in Workers PROVE Undisturbed(w)
  BY OthersUndisturbed DEF PInv
<1>3. QED
  BY <1>1, <1>2, RowStep

LEMMA RecoverBareStep ==
    ASSUME PInv, NEW i \in Intents, NEW a \in Rows(i), Expired(i, a),
           Under(i, a) = {}, RecoverBare(i, a),
           UNCHANGED <<approval, world, pc, calls, posts>>
    PROVE  PInv'
<1>1. /\ a = Latest(i) /\ Row(i, a) \in AttemptRows /\ RowOK(target, Row(i, a))
      /\ Row(i, a).state \in Running /\ intent[i].state \in {"READY", "PROCESSING"}
      /\ Clean(Row(i, a).steps[2]) => Unposted(i)
  BY RunningIs DEF Expired
<1>2. Between(Row(i, a))
  <2>1. Row(i, a).steps[1].state # "PROCESSING" /\ Row(i, a).steps[2].state # "PROCESSING"
    BY DEF Under, Step, Row
  <2>2. QED
    BY <1>1, <2>1 DEF RowOK, Running, Between
<1>3. Unposted(i)
  BY <1>1, <1>2 DEF Between, Unbegun
<1>s. PICK s \in {"FAILED", "RETRY_WAIT"} :
         s = IF Row(i, a).claims >= MaxClaims THEN "FAILED" ELSE "RETRY_WAIT"
  OBVIOUS
<1>4. PICK st :
         /\ st = IF s = "FAILED" THEN "FAILED" ELSE intent[i].state
         /\ attempts' = [attempts EXCEPT ![i][a] =
               [@ EXCEPT !.state = s, !.owner = Nobody, !.live = FALSE]]
         /\ intent' = [intent EXCEPT ![i].state = st]
  BY <1>s DEF RecoverBare
<1>5. PICK r : r = [Row(i, a) EXCEPT !.state = s, !.owner = Nobody, !.live = FALSE]
  OBVIOUS
<1>6. r \in AttemptRows /\ r.state = s /\ r.steps = Row(i, a).steps
  BY <1>1, <1>5, StatesAre DEF AttemptRows
<1>7. attempts' = [attempts EXCEPT ![i] = [@ EXCEPT ![a] = r]]
  BY <1>4, <1>5 DEF Row
<1>8. RowOK(target, r)
  BY <1>1, <1>2, <1>6 DEF RowOK, StepInDoubt, Between, Unbegun, Clean, Supersedable
<1>9. st \in IntentStates \ {"PUBLISHED"} /\ Fits(st, s)
  BY <1>1, <1>4, StatesAre DEF Fits, Supersedable
<1>10. /\ intent' \in [Intents -> IntentRows] /\ intent'[i].state = st
       /\ \A j \in Intents \ {i} : intent'[j] = intent[j]
  BY <1>4, <1>9 DEF PInv, Typed, IntentRows
<1>11. Truthful(i)'
  BY <1>3, <1>9, <1>10, UnpostedIsTruthful DEF world
<1>12. intent[i].state \notin Free /\ s \notin Running
  BY <1>1 DEF Free, Supersedable, Running
<1>13. /\ UNCHANGED <<target, posts, calls, enabled, current, pc>>
       /\ \A j \in Intents \ {i} : absents'[j] = absents[j]
       /\ \A j \in Intents : Unposted(j) => Unposted(j)'
       /\ approval' \in [Intents -> ApprovalRows] /\ absents' \in [Intents -> Nat]
  BY DEF world, Unposted, PInv, Typed
<1>14. QED
  BY <1>1, <1>6, <1>7, <1>8, <1>9, <1>10, <1>11, <1>12, <1>13, RowEnds

LEMMA RecoverIsSafe ==
    ASSUME PInv, NEW w \in Workers, Recover(w)
    PROVE  PInv'
<1>1. PICK i \in Intents, a \in Nat :
         /\ a \in Rows(i) /\ Expired(i, a)
         /\ IF Under(i, a) = {} THEN RecoverBare(i, a)
            ELSE \E k \in Under(i, a) :
                   /\ \A j \in Under(i, a) : k <= j
                   /\ RecoverStep(i, a, k)
  BY RowsAre DEF Recover, PInv
<1>2. UNCHANGED <<approval, world, pc, calls, posts>>
  BY DEF Recover
<1>3. CASE Under(i, a) = {}
  BY <1>1, <1>2, <1>3, RecoverBareStep
<1>4. CASE Under(i, a) # {}
  BY <1>1, <1>2, <1>4, RecoverStepStep
<1>5. QED
  BY <1>3, <1>4

\* A waiting attempt is the latest, has begun nothing and is in no doubt.
LEMMA WaitingIs ==
    ASSUME PInv, NEW i \in Intents, NEW a \in Rows(i),
           Row(i, a).state \in {"QUEUED", "RETRY_WAIT"}
    PROVE  /\ a = Latest(i) /\ Row(i, a) \in AttemptRows /\ RowOK(target, Row(i, a))
           /\ intent[i].state \in {"READY", "PROCESSING"}
           /\ Between(Row(i, a)) /\ Unposted(i)
<1>1. /\ a = Latest(i) /\ Row(i, a) \in AttemptRows /\ RowOK(target, Row(i, a))
      /\ intent[i].state \in {"READY", "PROCESSING"}
  BY LiveIsLatest, RowsAre DEF PInv, Supersedable, Fits
<1>2. Between(Row(i, a))
  BY <1>1 DEF RowOK, Between
<1>3. ~Doubted(attempts[i])
  BY <1>1 DEF Doubted, Row, Latest
<1>4. QED
  BY <1>1, <1>2, <1>3, UndoubtedIsUnposted DEF PInv

LEMMA ClaimFails ==
    ASSUME PInv, NEW i \in Intents, NEW a \in Rows(i),
           Row(i, a).state \in {"QUEUED", "RETRY_WAIT"},
           attempts' = [attempts EXCEPT ![i][a].state = "FAILED"],
           intent' = [intent EXCEPT ![i].state = "FAILED"],
           UNCHANGED <<approval, world, pc, calls, posts>>
    PROVE  PInv'
<1>1. /\ a = Latest(i) /\ Row(i, a) \in AttemptRows /\ RowOK(target, Row(i, a))
      /\ intent[i].state \in {"READY", "PROCESSING"}
      /\ Between(Row(i, a)) /\ Unposted(i)
  BY WaitingIs
<1>2. PICK r : r = [Row(i, a) EXCEPT !.state = "FAILED"]
  OBVIOUS
<1>3. r \in AttemptRows /\ r.state = "FAILED" /\ r.steps = Row(i, a).steps
  BY <1>1, <1>2, StatesAre DEF AttemptRows
<1>4. attempts' = [attempts EXCEPT ![i] = [@ EXCEPT ![a] = r]]
  BY <1>2 DEF Row
<1>5. RowOK(target, r) /\ Fits("FAILED", r.state)
  BY <1>1, <1>3 DEF RowOK, Fits, StepInDoubt, Between, Unbegun, Clean, Supersedable
<1>6. /\ intent' \in [Intents -> IntentRows] /\ intent'[i].state = "FAILED"
      /\ \A j \in Intents \ {i} : intent'[j] = intent[j]
  BY StatesAre DEF PInv, Typed, IntentRows
<1>7. Truthful(i)' /\ Fits(intent'[i].state, r.state)
  BY <1>1, <1>5, <1>6, UnpostedIsTruthful DEF world
<1>8. intent[i].state \notin Free /\ r.state \notin Running
  BY <1>1, <1>3 DEF Free, Supersedable, Running
<1>9. /\ UNCHANGED <<target, posts, calls, enabled, current, pc>>
      /\ \A j \in Intents \ {i} : absents'[j] = absents[j]
      /\ \A j \in Intents : Unposted(j) => Unposted(j)'
      /\ approval' \in [Intents -> ApprovalRows] /\ absents' \in [Intents -> Nat]
  BY DEF world, Unposted, PInv, Typed
<1>10. QED
  BY <1>1, <1>3, <1>4, <1>5, <1>6, <1>7, <1>8, <1>9, RowEnds

LEMMA ClaimTakes ==
    ASSUME PInv, NEW w \in Workers, NEW i \in Intents, NEW a \in Rows(i),
           Row(i, a).state \in {"QUEUED", "RETRY_WAIT"},
           NEW n \in Nat, NEW r, r = [Row(i, a) EXCEPT !.state = "CLAIMED", !.claims = n,
                                                     !.owner = w, !.live = TRUE],
           attempts' = [attempts EXCEPT ![i] = [@ EXCEPT ![a] = r]],
           pc' = [pc EXCEPT ![w] = [at |-> "claimed", i |-> i, a |-> a]],
           UNCHANGED <<intent, approval, world, calls, posts>>
    PROVE  PInv'
<1>1. /\ a = Latest(i) /\ Row(i, a) \in AttemptRows /\ RowOK(target, Row(i, a))
      /\ intent[i].state \in {"READY", "PROCESSING"}
      /\ Between(Row(i, a)) /\ Unposted(i) /\ a \in Nat
  BY WaitingIs, RowsAre DEF PInv
<1>4. /\ r \in AttemptRows /\ r.state = "CLAIMED" /\ r.steps = Row(i, a).steps
      /\ r.owner = w
  BY <1>1 DEF AttemptRows, AttemptStates, Active, Running
<1>6. RowOK(target, r) /\ Fits(intent'[i].state, r.state)
  BY <1>1, <1>4 DEF RowOK, Fits, Between, Supersedable
<1>7. Truthful(i)'
  BY <1>1, UnpostedIsTruthful DEF world
<1>8. PICK p : p = [at |-> "claimed", i |-> i, a |-> a]
  OBVIOUS
<1>9. p \in Places /\ p.at = "claimed" /\ p.i = i /\ p.a = a
  BY <1>1, <1>8 DEF Places
<1>10. pc' \in [Workers -> Places] /\ pc'[w] = p /\ \A v \in Workers \ {w} : pc'[v] = pc[v]
  BY <1>8, <1>9 DEF PInv, Typed
<1>11. Knows(w)'
  <2>1. Row(i, a)' = r /\ a \in Rows(i)'
    BY RowsAre DEF PInv, Typed, Rows, Row
  <2>2. Between(r)
    BY <1>1, <1>4 DEF Between
  <2>3. QED
    BY <1>9, <1>10, <2>1, <2>2 DEF Knows, Phase, Between
<1>12. ASSUME NEW v \in Workers \ {w} PROVE Undisturbed(v)
  <2>1. \A j \in Intents : Unposted(j) => Unposted(j)'
    BY DEF Unposted, world
  <2>2. Typed /\ pc'[v] = pc[v] /\ r \in AttemptRows /\ r.owner # v
        /\ \A j \in Intents : posts[j] # 0 => posts'[j] # 0
    BY <1>4, <1>10 DEF PInv, world
  <2>3. QED
    BY <1>4, <2>1, <2>2, OthersUndisturbed
<1>13. /\ enabled' \in BOOLEAN /\ current' \in BOOLEAN /\ target' = target
       /\ approval' \in [Intents -> ApprovalRows]
       /\ absents' \in [Intents -> Nat] /\ posts' \in [Intents -> Nat]
       /\ intent' \in [Intents -> IntentRows] /\ calls' \in SUBSET (Intents \X Nat)
       /\ posts' = posts /\ absents' = absents /\ calls' = calls
  BY DEF PInv, Typed, world
<1>14. intent[i].state \notin Free
  BY <1>1 DEF Free, Supersedable
<1>15. QED
  BY <1>1, <1>4, <1>6, <1>7, <1>10, <1>11, <1>12, <1>13, <1>14, RowStep

LEMMA ClaimIsSafe ==
    ASSUME PInv, NEW w \in Workers, Claim(w)
    PROVE  PInv'
<1>1. PICK i \in Intents, a \in Nat :
         /\ a \in Rows(i) /\ Row(i, a).state \in {"QUEUED", "RETRY_WAIT"}
         /\ IF Row(i, a).claims >= MaxClaims
            THEN /\ attempts' = [attempts EXCEPT ![i][a].state = "FAILED"]
                 /\ intent' = [intent EXCEPT ![i].state = "FAILED"]
                 /\ UNCHANGED pc
            ELSE /\ attempts' = [attempts EXCEPT ![i][a] =
                       [@ EXCEPT !.state = "CLAIMED", !.claims = Row(i, a).claims + 1,
                                 !.owner = w, !.live = TRUE]]
                 /\ pc' = [pc EXCEPT ![w] = [at |-> "claimed", i |-> i, a |-> a]]
                 /\ UNCHANGED intent
  BY RowsAre DEF Claim, PInv
<1>2. UNCHANGED <<approval, world, calls, posts>>
  BY DEF Claim
<1>3. CASE Row(i, a).claims >= MaxClaims
  BY <1>1, <1>2, <1>3, ClaimFails
<1>4. CASE ~(Row(i, a).claims >= MaxClaims)
  <2>1. PICK n \in Nat : n = Row(i, a).claims + 1
    BY <1>1, WaitingIs DEF AttemptRows
  <2>2. PICK r : r = [Row(i, a) EXCEPT !.state = "CLAIMED", !.claims = n,
                                      !.owner = w, !.live = TRUE]
    OBVIOUS
  <2>3. attempts' = [attempts EXCEPT ![i] = [@ EXCEPT ![a] = r]]
    BY <1>1, <1>4, <2>1, <2>2 DEF Row
  <2>4. QED
    BY <1>1, <1>2, <1>4, <2>2, <2>3, ClaimTakes
<1>5. QED
  BY <1>3, <1>4

\* A lease that runs out takes nothing from anyone but the time to begin.
LEMMA LeaseExpiresIsSafe ==
    ASSUME PInv, NEW i \in Intents, LeaseExpires(i)
    PROVE  PInv'
<1>1. PICK a, r :
         /\ a \in Nat /\ a \in Rows(i) /\ Row(i, a).state \in Running
         /\ r = [Row(i, a) EXCEPT !.live = FALSE]
         /\ attempts' = [attempts EXCEPT ![i] = [@ EXCEPT ![a] = r]]
  BY RowsAre DEF LeaseExpires, PInv, Row
<1>2. UNCHANGED <<intent, approval, world, pc, calls, posts>>
  BY DEF LeaseExpires
<1>3. /\ a = Latest(i) /\ Row(i, a) \in AttemptRows /\ RowOK(target, Row(i, a))
      /\ intent[i].state \in {"READY", "PROCESSING"}
  BY <1>1, RunningIs
<1>4. a \in Rows(i) /\ Row(i, a).state \in Running
  BY <1>1
<1>5. /\ r \in AttemptRows /\ r.state = Row(i, a).state /\ r.steps = Row(i, a).steps
      /\ r.owner = Row(i, a).owner
  BY <1>1, <1>3 DEF AttemptRows
<1>6. attempts' = [attempts EXCEPT ![i] = [@ EXCEPT ![a] = r]]
  BY <1>1
<1>7. RowOK(target, r) /\ Fits(intent[i].state, r.state)
  BY <1>1, <1>3, <1>5, LiveIsLatest DEF RowOK, PInv
<1>8. Truthful(i)'
  <2>1. attempts'[i][a] = r /\ Len(attempts'[i]) = Latest(i) /\ Truthful(i)
    <3>1. attempts \in [Intents -> Seq(AttemptRows)] /\ a \in DOMAIN attempts[i] /\ Truthful(i)
      BY <1>4 DEF PInv, Typed, Rows
    <3>2. QED
      BY <3>1, <1>6 DEF Latest
  <2>2. Doubted(attempts'[i]) <=> Doubted(attempts[i])
    BY <1>3, <1>5, <2>1 DEF Doubted, Latest, Row
  <2>3. QED
    BY <1>2, <2>1, <2>2 DEF Truthful, Latest, world
<1>9. ASSUME NEW v \in Workers PROVE Undisturbed(v)
  <2>1. \A j \in Intents : Unposted(j) => Unposted(j)'
    BY <1>2 DEF Unposted, world
  <2>2. Typed /\ pc'[v] = pc[v] /\ \A j \in Intents : posts[j] # 0 => posts'[j] # 0
    BY <1>2 DEF PInv
  <2>3. QED
    BY <1>4, <1>5, <1>6, <2>1, <2>2, OthersUndisturbed
<1>10. /\ enabled' \in BOOLEAN /\ current' \in BOOLEAN /\ target' = target
       /\ approval' \in [Intents -> ApprovalRows]
       /\ absents' \in [Intents -> Nat] /\ posts' \in [Intents -> Nat]
       /\ intent' \in [Intents -> IntentRows] /\ calls' \in SUBSET (Intents \X Nat)
       /\ pc' \in [Workers -> Places]
       /\ posts' = posts /\ absents' = absents /\ calls' = calls /\ intent' = intent
  BY <1>2 DEF PInv, Typed, world
<1>11. intent[i].state \notin Free
  BY <1>3 DEF Free, Supersedable
<1>12. QED
  BY <1>4, <1>3, <1>5, <1>6, <1>7, <1>8, <1>9, <1>10, <1>11, RowStep

-----------------------------------------------------------------------------
(* The start of an effect and of its request, and the end of a call.        *)

\* An effect that is not begun is deferred, or its authority has expired.
LEMMA NotBegun ==
    ASSUME PInv, NEW w \in Workers, pc[w].at \in {"step", "begun"},
           NEW v \in {"defer", "expire"}, Verdict(w, v, FALSE),
           UNCHANGED <<intent, attempts, approval, world, posts, calls>>
    PROVE  PInv'
<1>1. pc[w].k \in 1..2 /\ RowOK(target, Row(pc[w].i, pc[w].a))
  BY Holding
<1>2. Concludes(w, v, FALSE)
  BY <1>1 DEF Concludes, Phase, Settled, Between, InStep, RowOK, Unbegun, Open
<1>3. v \in Verdicts
  BY DEF Verdicts
<1>4. QED
  BY <1>2, <1>3, VerdictStep

\* The row after a controller that keeps its lease has moved one step.
Moved(row, s, k, step) == [row EXCEPT !.state = s, !.steps[k] = step]

LEMMA StepMoves ==
    ASSUME NEW row \in AttemptRows, NEW k \in 1..2, NEW step \in StepRows,
           NEW s \in AttemptStates, NEW r, r = Moved(row, s, k, step)
    PROVE  /\ r \in AttemptRows /\ r.state = s /\ r.owner = row.owner
           /\ r.steps[k] = step
           /\ k = 1 => r.steps[1] = step /\ r.steps[2] = row.steps[2]
           /\ k = 2 => r.steps[2] = step /\ r.steps[1] = row.steps[1]
<1>1. row.steps \in [1..2 -> StepRows]
  BY DEF AttemptRows
<1>2. PICK steps : steps = [row.steps EXCEPT ![k] = step]
  OBVIOUS
<1>3. /\ steps \in [1..2 -> StepRows]
      /\ \A j \in 1..2 : steps[j] = IF j = k THEN step ELSE row.steps[j]
  BY <1>1, <1>2
<1>4. r = [row EXCEPT !.state = s, !.steps = steps]
  BY <1>2 DEF Moved
<1>5. r \in AttemptRows /\ r.state = s /\ r.owner = row.owner /\ r.steps = steps
  BY <1>3, <1>4 DEF AttemptRows
<1>6. QED
  BY <1>3, <1>5

LEMMA Begins ==
    ASSUME PInv, NEW w \in Workers, NEW i \in Intents, NEW a \in Rows(i), NEW k \in 1..2,
           pc[w].at = "step", pc[w].i = i, pc[w].a = a, pc[w].k = k, Leased(w, i, a),
           NEW step \in StepRows, step.state = "PROCESSING",
           step.request = Row(i, a).steps[k].request,
           NEW r, r = Moved(Row(i, a), "PROCESSING", k, step),
           attempts' = [attempts EXCEPT ![i] = [@ EXCEPT ![a] = r]],
           intent' = [intent EXCEPT ![i].state = "PROCESSING"],
           pc' = [pc EXCEPT ![w] = [at |-> "begun", i |-> i, a |-> a, k |-> k]],
           UNCHANGED <<approval, world, calls, posts>>
    PROVE  PInv'
<1>p. PICK p : p = [at |-> "begun", i |-> i, a |-> a, k |-> k]
  OBVIOUS
<1>1. /\ Row(i, a) \in AttemptRows /\ RowOK(target, Row(i, a))
      /\ Between(Row(i, a)) /\ (k = 2 => Row(i, a).steps[1].state = "SUCCEEDED")
  BY Holding DEF Phase
<1>2. Row(i, a).state \in Running /\ Unposted(i) /\ a \in Nat
  BY <1>1, RunningIs, RowsAre DEF PInv, Leased, Between, Unbegun
<1>5. /\ r \in AttemptRows /\ r.state = "PROCESSING" /\ r.owner = w
      /\ r.steps[k] = step
      /\ k = 1 => r.steps[1] = step /\ r.steps[2] = Row(i, a).steps[2]
      /\ k = 2 => r.steps[2] = step /\ r.steps[1] = Row(i, a).steps[1]
  <2>1. "PROCESSING" \in AttemptStates /\ Row(i, a).owner = w
    BY DEF AttemptStates, Active, Running, Leased
  <2>2. QED
    BY <1>1, <2>1, StepMoves
<1>7. RowOK(target, r)
  <2>1. CASE k = 1
    BY <1>1, <1>5, <2>1 DEF RowOK, Between, Unbegun, Supersedable
  <2>2. CASE k = 2
    BY <1>1, <1>5, <2>2 DEF RowOK, Between, Unbegun, Clean, Supersedable
  <2>3. QED
    BY <2>1, <2>2
<1>8. p \in Places
  BY <1>2, <1>p DEF Places
<1>9. p.at = "begun" /\ p.i = i /\ p.a = a /\ p.k = k /\ pc' = [pc EXCEPT ![w] = p]
  BY <1>p
<1>10. Phase(p, r)'
  <2>1. CASE k = 1
    BY <1>1, <1>5, <1>9, <2>1 DEF Phase, Between, InStep
  <2>2. CASE k = 2
    BY <1>1, <1>5, <1>9, <2>2 DEF Phase, Between, InStep, Unbegun, Clean
  <2>3. QED
    BY <2>1, <2>2
<1>11. /\ intent' \in [Intents -> IntentRows] /\ intent'[i].state = "PROCESSING"
       /\ \A j \in Intents \ {i} : intent'[j] = intent[j]
       /\ calls' \in SUBSET (Intents \X Nat)
  BY StatesAre DEF PInv, Typed, IntentRows
<1>12. Truthful(i)' /\ Fits(intent'[i].state, r.state)
  BY <1>2, <1>5, <1>11, UnpostedIsTruthful DEF world, Fits, Supersedable
<1>13. /\ UNCHANGED <<target, absents, posts, approval, enabled, current, calls>>
       /\ r.state \in Running /\ p.at # "idle"
  BY <1>5, <1>9 DEF world, Running
<1>14. QED
  BY <1>5, <1>7, <1>8, <1>9, <1>10, <1>11, <1>12, <1>13, OwnRowStep

LEMMA BeginEffectIsSafe ==
    ASSUME PInv, NEW w \in Workers, BeginEffect(w)
    PROVE  PInv'
<1>1. pc[w].at = "step" /\ UNCHANGED <<approval, world, calls, posts>>
  BY DEF BeginEffect, At
<1>2. PICK i \in Intents, a \in Nat, k \in 1..2 :
         a \in Rows(i) /\ pc[w].i = i /\ pc[w].a = a /\ pc[w].k = k
  BY <1>1, Holding, RowsAre DEF PInv
<1>3. \/ \E v \in {"defer", "expire"} : Verdict(w, v, FALSE) /\ UNCHANGED <<attempts, intent>>
      \/ /\ Leased(w, i, a)
         /\ attempts' = [attempts EXCEPT ![i][a] =
               [@ EXCEPT !.state = "PROCESSING", !.steps[k].state = "PROCESSING"]]
         /\ intent' = [intent EXCEPT ![i].state = "PROCESSING"]
         /\ pc' = [pc EXCEPT ![w].at = "begun"]
  BY <1>2 DEF BeginEffect
<1>4. CASE \E v \in {"defer", "expire"} : Verdict(w, v, FALSE) /\ UNCHANGED <<attempts, intent>>
  BY <1>1, <1>4, NotBegun
<1>5. CASE /\ Leased(w, i, a)
           /\ attempts' = [attempts EXCEPT ![i][a] =
                 [@ EXCEPT !.state = "PROCESSING", !.steps[k].state = "PROCESSING"]]
           /\ intent' = [intent EXCEPT ![i].state = "PROCESSING"]
           /\ pc' = [pc EXCEPT ![w].at = "begun"]
  <2>1. Row(i, a).steps[k] \in StepRows
    BY <1>2, RowsAre DEF PInv, AttemptRows
  <2>2. PICK step \in StepRows : /\ step = [Row(i, a).steps[k] EXCEPT !.state = "PROCESSING"]
                                 /\ step.state = "PROCESSING"
                                 /\ step.request = Row(i, a).steps[k].request
    <3>1. "PROCESSING" \in StepStates
      BY StatesAre
    <3>2. QED
      BY ZenonT(30), <2>1, <3>1, StepSet
  <2>3. PICK r : r = Moved(Row(i, a), "PROCESSING", k, step)
    OBVIOUS
  <2>4. attempts' = [attempts EXCEPT ![i] = [@ EXCEPT ![a] = r]]
    BY <1>5, <2>2, <2>3 DEF Row, Moved
  <2>5. pc' = [pc EXCEPT ![w] = [at |-> "begun", i |-> i, a |-> a, k |-> k]]
    <3>1. pc[w] = [at |-> "step", i |-> i, a |-> a, k |-> k]
      BY <1>1, <1>2, Holding DEF Places, Idle
    <3>2. [pc[w] EXCEPT !.at = "begun"] = [at |-> "begun", i |-> i, a |-> a, k |-> k]
      BY <3>1
    <3>3. QED
      BY <1>5, <3>2
  <2>6. QED
    <3>1. Leased(w, i, a) /\ intent' = [intent EXCEPT ![i].state = "PROCESSING"]
      BY <1>5
    <3>2. QED
      BY <1>1, <1>2, <2>2, <2>3, <2>4, <2>5, <3>1, Begins
<1>6. QED
  BY <1>3, <1>4, <1>5

\* The calls once the request of step k is on its way.
Calling(i, a, k) == IF k = 2 THEN calls \cup {<<i, a>>} ELSE calls

\* The request is recorded as started before the provider is called.
LEMMA Starts ==
    ASSUME PInv, NEW w \in Workers, NEW i \in Intents, NEW a \in Rows(i), NEW k \in 1..2,
           pc[w].at = "begun", pc[w].i = i, pc[w].a = a, pc[w].k = k, Leased(w, i, a),
           k = 1 => target = "X",
           NEW step \in StepRows, step.state = "PROCESSING", step.request = "started",
           NEW r, r = Moved(Row(i, a), "PROCESSING", k, step),
           attempts' = [attempts EXCEPT ![i] = [@ EXCEPT ![a] = r]],
           calls' = Calling(i, a, k),
           pc' = [pc EXCEPT ![w] = [at |-> "calling", i |-> i, a |-> a, k |-> k]],
           UNCHANGED <<intent, approval, world, posts>>
    PROVE  PInv'
<1>p. PICK p : p = [at |-> "calling", i |-> i, a |-> a, k |-> k]
  OBVIOUS
<1>c. calls' = IF k = 2 THEN calls \cup {<<i, a>>} ELSE calls
  BY DEF Calling
<1>1. /\ Row(i, a) \in AttemptRows /\ RowOK(target, Row(i, a))
      /\ InStep(pc[w], Row(i, a)) /\ (k = 2 => Clean(Row(i, a).steps[2]))
  BY Holding DEF Phase
<1>2. /\ Row(i, a).state = "PROCESSING" /\ Row(i, a).steps[k].state = "PROCESSING"
      /\ k = 1 => Unbegun(Row(i, a).steps[2])
      /\ k = 2 => Row(i, a).steps[1].state = "SUCCEEDED"
  BY <1>1 DEF InStep, RowOK, Unbegun, Open
<1>3. Row(i, a).state \in Running /\ Unposted(i) /\ a \in Nat /\ a = Latest(i)
      /\ intent[i].state = "PROCESSING"
  BY <1>1, <1>2, RunningIs, RowsAre DEF PInv, Leased, Unbegun
<1>5. /\ r \in AttemptRows /\ r.state = "PROCESSING" /\ r.owner = w
      /\ r.steps[k] = step
      /\ k = 1 => r.steps[1] = step /\ r.steps[2] = Row(i, a).steps[2]
      /\ k = 2 => r.steps[2] = step /\ r.steps[1] = Row(i, a).steps[1]
  <2>1. "PROCESSING" \in AttemptStates /\ Row(i, a).owner = w
    BY DEF AttemptStates, Active, Running, Leased
  <2>2. QED
    BY <1>1, <2>1, StepMoves
<1>7. RowOK(target, r)
  <2>1. CASE k = 1
    BY <1>1, <1>2, <1>5, <2>1 DEF RowOK, Unbegun, Supersedable
  <2>2. CASE k = 2
    BY <1>1, <1>2, <1>5, <2>2 DEF RowOK, Supersedable
  <2>3. QED
    BY <2>1, <2>2
<1>8. p \in Places
  BY <1>3, <1>p DEF Places
<1>9. p.at = "calling" /\ p.i = i /\ p.a = a /\ p.k = k /\ pc' = [pc EXCEPT ![w] = p]
  BY <1>p
<1>10. Phase(p, r)'
  <2>1. target' = target
    BY DEF world
  <2>2. CASE k = 1
    BY <1>2, <1>5, <1>9, <2>1, <2>2 DEF Phase, InStep
  <2>3. CASE k = 2
    BY <1>2, <1>5, <1>9, <2>1, <2>3 DEF Phase, InStep
  <2>4. QED
    BY <2>2, <2>3
<1>11. /\ intent' \in [Intents -> IntentRows] /\ intent'[i].state = "PROCESSING"
       /\ \A j \in Intents \ {i} : intent'[j] = intent[j]
       /\ calls' \in SUBSET (Intents \X Nat)
       /\ \A c \in calls : c \in calls'
       /\ \A c \in calls' : c[1] # i => c \in calls
  BY <1>3, <1>c DEF PInv, Typed
<1>12. Truthful(i)'
  <2>1. CASE k = 1
    BY <1>3, <1>11, <1>c, <2>1, UnpostedIsTruthful DEF world
  <2>2. CASE k = 2
    <3>1. attempts'[i][a] = r /\ Len(attempts'[i]) = a /\ a # 0
      <4>1. attempts \in [Intents -> Seq(AttemptRows)] /\ a \in DOMAIN attempts[i]
        BY DEF PInv, Typed, Rows
      <4>2. QED
        BY <1>3, <4>1 DEF Latest
    <3>2. Doubted(attempts'[i])
      BY <1>5, <2>2, <3>1 DEF Doubted
    <3>3. \A c \in calls' : c[1] = i /\ absents[i] = 0 => c[2] = a
      BY <1>3, <1>c, <2>2 DEF Unposted
    <3>4. absents' = absents /\ posts' = posts /\ (absents[i] = 0 => posts[i] = 0)
      BY <1>3 DEF world, Unposted
    <3>5. QED
      BY <1>11, <3>1, <3>2, <3>3, <3>4 DEF Truthful, Latest
  <2>3. QED
    BY <2>1, <2>2
<1>12a. Fits(intent'[i].state, r.state)
  BY <1>5, <1>11 DEF Fits, Supersedable
<1>13. /\ UNCHANGED <<target, absents, posts, approval, enabled, current>>
       /\ r.state \in Running /\ p.at # "idle"
  BY <1>5, <1>9 DEF world, Running
<1>14. QED
  BY <1>5, <1>7, <1>8, <1>9, <1>10, <1>11, <1>12, <1>12a, <1>13, OwnRowStep

LEMMA StartRequestIsSafe ==
    ASSUME PInv, NEW w \in Workers, StartRequest(w)
    PROVE  PInv'
<1>1. /\ pc[w].at = "begun" /\ Kinds[pc[w].k] # "PATREON_PACKAGE"
      /\ UNCHANGED <<intent, approval, world, posts>>
  BY DEF StartRequest, At
<1>2. PICK i \in Intents, a \in Nat, k \in 1..2 :
         a \in Rows(i) /\ pc[w].i = i /\ pc[w].a = a /\ pc[w].k = k
  BY <1>1, Holding, RowsAre DEF PInv
<1>3. \/ \E v \in {"defer", "expire"} : Verdict(w, v, FALSE) /\ UNCHANGED <<attempts, calls>>
      \/ /\ Leased(w, i, a)
         /\ attempts' = [attempts EXCEPT ![i][a].steps[k].request = "started"]
         /\ calls' = IF Kinds[k] \in Irreversible THEN calls \cup {<<i, a>>} ELSE calls
         /\ pc' = [pc EXCEPT ![w].at = "calling"]
  BY <1>2 DEF StartRequest
<1>4. CASE \E v \in {"defer", "expire"} : Verdict(w, v, FALSE) /\ UNCHANGED <<attempts, calls>>
  BY <1>1, <1>4, NotBegun
<1>5. CASE /\ Leased(w, i, a)
           /\ attempts' = [attempts EXCEPT ![i][a].steps[k].request = "started"]
           /\ calls' = IF Kinds[k] \in Irreversible THEN calls \cup {<<i, a>>} ELSE calls
           /\ pc' = [pc EXCEPT ![w].at = "calling"]
  <2>1. /\ Row(i, a) \in AttemptRows /\ Row(i, a).steps[k] \in StepRows
        /\ Row(i, a).state = "PROCESSING" /\ Row(i, a).steps[k].state = "PROCESSING"
    <3>1. Row(i, a) \in AttemptRows
      BY <1>2, RowsAre DEF PInv
    <3>2. InStep(pc[w], Row(i, a))
      BY <1>1, <1>2, <1>5, Holding DEF Phase
    <3>3. QED
      BY <1>2, <3>1, <3>2 DEF InStep, AttemptRows
  <2>2. PICK step \in StepRows : step = [Row(i, a).steps[k] EXCEPT !.request = "started"]
    BY <2>1 DEF StepRows, Requests
  <2>3. step.state = "PROCESSING" /\ step.request = "started"
    BY <2>1, <2>2 DEF StepRows
  <2>4. PICK r : r = Moved(Row(i, a), "PROCESSING", k, step)
    OBVIOUS
  <2>5. attempts' = [attempts EXCEPT ![i] = [@ EXCEPT ![a] = r]]
    <3>1. r = [Row(i, a) EXCEPT !.steps[k] = step]
      BY <2>1, <2>4 DEF Moved, AttemptRows
    <3>2. r = [attempts[i][a] EXCEPT !.steps[k].request = "started"]
      BY <3>1, <2>2 DEF Row
    <3>3. QED
      BY <1>5, <3>2
  <2>6. pc' = [pc EXCEPT ![w] = [at |-> "calling", i |-> i, a |-> a, k |-> k]]
    <3>1. pc[w] = [at |-> "begun", i |-> i, a |-> a, k |-> k]
      BY <1>1, <1>2, Holding DEF Places, Idle
    <3>2. [pc[w] EXCEPT !.at = "calling"] = [at |-> "calling", i |-> i, a |-> a, k |-> k]
      BY <3>1
    <3>3. QED
      BY <1>5, <3>2
  <2>7. /\ calls' = Calling(i, a, k)
        /\ k = 1 => target = "X"
    <3>1. /\ Kinds[1] \notin Irreversible /\ Kinds[2] \in Irreversible
          /\ Kinds[1] # "PATREON_PACKAGE" => target = "X"
      BY KindsAre DEF PInv, Typed
    <3>2. QED
      BY <1>1, <1>2, <1>5, <3>1 DEF Calling
  <2>8. Leased(w, i, a) /\ pc[w].at = "begun" /\ UNCHANGED <<intent, approval, world, posts>>
    BY <1>1, <1>5
  <2>9. QED
    BY <1>2, <2>3, <2>4, <2>5, <2>6, <2>7, <2>8, Starts
<1>6. QED
  BY <1>3, <1>4, <1>5

\* A call ends: the post exists, or provably does not.
CallEnds(i, a) ==
    /\ <<i, a>> \in calls
    /\ calls' = calls \ {<<i, a>>}
    /\ posts' = posts \/ posts' = [posts EXCEPT ![i] = @ + 1]
    /\ UNCHANGED <<intent, approval, attempts, world>>

LEMMA CallEndIs ==
    ASSUME PInv, NEW i \in Intents, NEW a, CallEnds(i, a)
    PROVE  /\ posts' \in [Intents -> Nat] /\ calls' \in SUBSET (Intents \X Nat)
           /\ \A j \in Intents : posts[j] # 0 => posts'[j] # 0
           /\ \A j \in Intents : Truthful(j)' /\ (Unposted(j) => Unposted(j)')
           /\ posts' = posts => Unposted(i)'
<1>1. posts \in [Intents -> Nat] /\ calls \in SUBSET (Intents \X Nat)
  BY DEF PInv, Typed
<1>2. /\ calls' \in SUBSET (Intents \X Nat)
      /\ \A c \in calls' : c \in calls /\ c # <<i, a>>
      /\ <<i, a>> \in calls /\ UNCHANGED <<intent, attempts, absents>>
      /\ \A c \in calls : c = <<c[1], c[2]>>
  BY <1>1 DEF CallEnds, world
<1>3. /\ posts' \in [Intents -> Nat]
      /\ \A j \in Intents : posts[j] # 0 => posts'[j] # 0
      /\ \A j \in Intents \ {i} : posts'[j] = posts[j]
  BY <1>1 DEF CallEnds
<1>4. ASSUME NEW j \in Intents \ {i} PROVE Truthful(j)' /\ (Unposted(j) => Unposted(j)')
  BY <1>2, <1>3, TruthKept DEF PInv, Unposted
<1>5. /\ absents[i] = 0 => /\ Doubted(attempts[i]) /\ posts[i] = 0 /\ a = Latest(i)
                           /\ \A c \in calls' : c[1] # i
      /\ intent[i].state = "PUBLISHED" => posts[i] # 0
  <2>1. Truthful(i)
    BY DEF PInv
  <2>2. <<i, a>>[1] = i /\ <<i, a>>[2] = a
    OBVIOUS
  <2>3. QED
    BY <1>2, <2>1, <2>2 DEF Truthful
<1>6. Truthful(i)'
  BY <1>2, <1>3, <1>5 DEF Truthful, Latest, Doubted
<1>7. Unposted(i) => Unposted(i)'
  <2>1. <<i, a>>[1] = i
    OBVIOUS
  <2>2. QED
    BY <1>2, <2>1 DEF Unposted
<1>8. posts' = posts => Unposted(i)'
  BY <1>2, <1>5 DEF Unposted
<1>9. QED
  BY <1>2, <1>3, <1>4, <1>6, <1>7, <1>8

LEMMA CallEndStep ==
    ASSUME PInv, NEW i \in Intents, NEW a, CallEnds(i, a), pc' \in [Workers -> Places],
           \A w \in Workers : pc'[w] = pc[w] \/ Knows(w)'
    PROVE  PInv'
<1>1. /\ posts' \in [Intents -> Nat] /\ calls' \in SUBSET (Intents \X Nat)
      /\ \A j \in Intents : posts[j] # 0 => posts'[j] # 0
      /\ \A j \in Intents : Truthful(j)' /\ (Unposted(j) => Unposted(j)')
  BY CallEndIs
<1>2. UNCHANGED <<intent, approval, attempts, target, absents, enabled, current>>
  BY DEF CallEnds, world
<1>3. Typed'
  BY <1>1, <1>2 DEF PInv, Typed
<1>4. OneOwner' /\ \A j \in Intents : History(target, intent[j].state, attempts[j])'
  BY <1>2 DEF PInv, OneOwner
<1>5. ASSUME NEW w \in Workers PROVE Knows(w)'
  <2>1. pc'[w] = pc[w] => Undisturbed(w)
    BY <1>1, <1>2 DEF Undisturbed, Rows, Row, Leased
  <2>2. QED
    BY <1>2, <2>1, UndisturbedKnows DEF PInv
<1>6. QED
  BY <1>1, <1>3, <1>4, <1>5 DEF PInv

LEMMA LandIsSafe ==
    ASSUME PInv, NEW i \in Intents, NEW a \in Rows(i), Land(i, a)
    PROVE  PInv'
<1>1. CallEnds(i, a) /\ pc' = pc
  BY DEF Land, CallEnds
<1>2. QED
  BY <1>1, CallEndStep DEF PInv, Typed

\* The controller that saw the call end says so of its step.
LEMMA AnsweredStep ==
    ASSUME PInv, NEW w \in Workers, pc[w].at = "calling", Kinds[pc[w].k] \in Irreversible,
           CallEnds(pc[w].i, pc[w].a),
           NEW v \in {"posted", "unknown", "retry", "fail", "operator"}, Verdict(w, v, TRUE),
           v \in {"retry", "fail", "operator"} => posts' = posts,
           v = "posted" => posts'[pc[w].i] # 0
    PROVE  PInv'
<1>1. PICK i \in Intents, a \in Nat :
         a \in Rows(i) /\ pc[w].i = i /\ pc[w].a = a
  BY Holding, RowsAre DEF PInv
<1>2. /\ pc[w].k = 2 /\ RowOK(target, Row(i, a))
      /\ Leased(w, i, a) => Phase(pc[w], Row(i, a))
  <2>1. Kinds[1] \notin Irreversible
    BY KindsAre DEF PInv, Typed
  <2>2. QED
    BY <1>1, <2>1, Holding
<1>3. PICK p : p = [at |-> "settle", i |-> i, a |-> a, k |-> 2, verdict |-> v, request |-> TRUE]
  OBVIOUS
<1>4. p \in Places
  BY <1>1, <1>3 DEF Places, Verdicts
<1>5. /\ pc' = [pc EXCEPT ![w] = p] /\ p.at = "settle" /\ p.i = i /\ p.a = a /\ p.k = 2
      /\ p.verdict = v /\ p.request = TRUE
  BY <1>1, <1>2, <1>3 DEF Verdict
<1>6. pc' \in [Workers -> Places] /\ pc'[w] = p /\ \A u \in Workers \ {w} : pc'[u] = pc[u]
  BY <1>4, <1>5 DEF PInv, Typed
<1>7. attempts' = attempts
  BY DEF CallEnds
<1>8. v \in {"retry", "fail", "operator"} => Unposted(i)'
  BY <1>1, CallEndIs
<1>9. Knows(w)'
  <2>1. Row(i, a)' = Row(i, a) /\ Rows(i)' = Rows(i) /\ (Leased(w, i, a)' <=> Leased(w, i, a))
    BY <1>7 DEF Row, Rows, Leased
  <2>2. ASSUME Leased(w, i, a) PROVE Phase(p, Row(i, a))'
    <3>1. Row(i, a).steps[1].state = "SUCCEEDED" /\ Row(i, a).steps[2].request = "started"
      BY <1>2, <2>2 DEF Phase, InStep, RowOK, Unbegun, Open
    <3>2. Settled(p, Row(i, a))'
      BY <1>1, <1>5, <1>8, <2>1, <3>1 DEF Settled
    <3>3. QED
      BY <1>5, <3>2 DEF Phase
  <2>3. QED
    BY <1>1, <1>5, <1>6, <2>1, <2>2 DEF Knows
<1>10. QED
  BY <1>1, <1>6, <1>9, CallEndStep

LEMMA PostCreatedIsSafe ==
    ASSUME PInv, NEW w \in Workers, PostCreated(w)
    PROVE  PInv'
<1>1. /\ pc[w].at = "calling" /\ Kinds[pc[w].k] \in Irreversible
      /\ CallEnds(pc[w].i, pc[w].a)
  BY DEF PostCreated, CallEnds, At
<1>2. PICK v \in {"posted", "unknown"} : Verdict(w, v, TRUE)
  BY DEF PostCreated
<1>3. posts'[pc[w].i] # 0
  <2>1. pc[w].i \in Intents /\ posts \in [Intents -> Nat]
    BY <1>1, Holding DEF PInv, Typed
  <2>2. QED
    BY <2>1 DEF PostCreated
<1>4. QED
  BY <1>1, <1>2, <1>3, AnsweredStep

LEMMA PostRefusedIsSafe ==
    ASSUME PInv, NEW w \in Workers, PostRefused(w)
    PROVE  PInv'
<1>1. /\ pc[w].at = "calling" /\ Kinds[pc[w].k] \in Irreversible
      /\ CallEnds(pc[w].i, pc[w].a) /\ posts' = posts
  BY DEF PostRefused, CallEnds, At
<1>2. PICK v \in {"retry", "fail", "operator"} : Verdict(w, v, TRUE)
  BY DEF PostRefused
<1>3. QED
  BY <1>1, <1>2, AnsweredStep

-----------------------------------------------------------------------------
(* The operator's decisions.                                                *)

\* An intent moves under a new lock version.
IntentGoes(i, st) == intent' = [intent EXCEPT ![i] = [state |-> st, lock |-> @.lock + 1]]

LEMMA IntentGoesTo ==
    ASSUME Typed, NEW i \in Intents, NEW st \in IntentStates, IntentGoes(i, st)
    PROVE  /\ intent' \in [Intents -> IntentRows] /\ intent'[i].state = st
           /\ \A j \in Intents \ {i} : intent'[j] = intent[j]
<1>1. intent \in [Intents -> IntentRows] /\ intent[i].lock + 1 \in Nat
  BY DEF Typed, IntentRows
<1>2. [state |-> st, lock |-> intent[i].lock + 1] \in IntentRows
  BY <1>1 DEF IntentRows
<1>3. QED
  BY <1>1, <1>2 DEF IntentGoes

LEMMA DecidedIs ==
    ASSUME Typed, NEW i \in Intents, NEW action \in {"APPROVE", "REVOKE"}, Decided(i, action)
    PROVE  approval' \in [Intents -> ApprovalRows]
<1>1. /\ approval \in [Intents -> ApprovalRows]
      /\ approval[i].revision + 1 \in Nat /\ intent[i].lock + 1 \in Nat
  BY DEF Typed, ApprovalRows, IntentRows
<1>2. [revision |-> approval[i].revision + 1, action |-> action,
       lock |-> intent[i].lock + 1, expired |-> FALSE] \in ApprovalRows
  BY <1>1 DEF ApprovalRows
<1>3. QED
  BY <1>1, <1>2 DEF Decided

\* A decision that writes no row.
LEMMA IntentMoves ==
    ASSUME PInv, NEW i \in Intents, intent' \in [Intents -> IntentRows],
           \A j \in Intents \ {i} : intent'[j] = intent[j],
           intent'[i].state \in Free \/ intent[i].state \notin Free \/ OwnsTarget(i),
           History(target, intent'[i].state, attempts[i]),
           approval' \in [Intents -> ApprovalRows],
           UNCHANGED <<attempts, target, absents, posts, calls, enabled, current, pc>>,
           Truthful(i)'
    PROVE  PInv'
<1>1. Typed'
  BY DEF PInv, Typed
<1>2. \A j \in Intents : History(target, intent[j].state, attempts[j])'
  BY DEF PInv
<1>3. \A j \in Intents : Truthful(j)'
  BY TruthKept DEF PInv
<1>4. OneOwner'
  BY OwnerMoves DEF PInv
<1>5. ASSUME NEW w \in Workers PROVE Knows(w)'
  <2>1. Undisturbed(w)
    BY DEF Undisturbed, Rows, Row, Leased, Unposted
  <2>2. QED
    BY <2>1, UndisturbedKnows DEF PInv
<1>6. QED
  BY <1>1, <1>2, <1>3, <1>4, <1>5 DEF PInv

\* What the state of an intent that is quiet says of its rows.
LEMMA QuietIs ==
    ASSUME PInv, NEW i \in Intents,
           intent[i].state \in {"none", "AWAITING_APPROVAL", "FAILED", "CANCELLED"}
    PROVE  /\ \A a \in Rows(i) : Row(i, a).state \in Supersedable
           /\ intent[i].state = "none" => Latest(i) = 0
           /\ Unposted(i)
<1>1. /\ Typed /\ Truthful(i) /\ History(target, intent[i].state, attempts[i])
      /\ Rows(i) = 1..Latest(i) /\ \A a \in Rows(i) : Row(i, a) \in AttemptRows
  BY RowsAre DEF PInv
<1>2. ASSUME NEW a \in Rows(i) PROVE Row(i, a).state \in Supersedable /\ intent[i].state # "none"
  <2>1. CASE a = Latest(i)
    <3>1. Row(i, a).state \in AttemptStates /\ Fits(intent[i].state, Row(i, a).state)
      BY <1>1, <2>1, LiveIsLatest DEF AttemptRows
    <3>2. QED
      BY <3>1 DEF Fits, Supersedable, AttemptStates, Active, Running
  <2>2. CASE a # Latest(i)
    <3>1. Latest(i) \in Rows(i)
      BY <1>1, RowsAre
    <3>2. Row(i, Latest(i)).state \in AttemptStates
          /\ Fits(intent[i].state, Row(i, Latest(i)).state)
      BY <1>1, <3>1, LiveIsLatest DEF AttemptRows
    <3>3. intent[i].state # "none"
      BY <3>2 DEF Fits, Supersedable, AttemptStates, Active, Running
    <3>4. QED
      BY <1>1, <2>2, <3>3, LiveIsLatest
  <2>3. QED
    BY <2>1, <2>2
<1>3. intent[i].state = "none" => Latest(i) = 0
  BY <1>1, <1>2, RowsAre
<1>4. ~Doubted(attempts[i])
  BY <1>1, <1>2 DEF Doubted, Latest, Row, Supersedable
<1>5. Unposted(i)
  BY <1>1, <1>4, UndoubtedIsUnposted
<1>6. QED
  BY <1>2, <1>3, <1>5

LEMMA PlanIntentIsSafe ==
    ASSUME PInv, NEW i \in Intents, PlanIntent(i)
    PROVE  PInv'
<1>1. /\ intent[i].state = "none" /\ OwnsTarget(i)
      /\ UNCHANGED <<approval, attempts, world, pc, calls, posts>>
  BY DEF PlanIntent
<1>2. /\ intent' \in [Intents -> IntentRows] /\ intent'[i].state = "AWAITING_APPROVAL"
      /\ \A j \in Intents \ {i} : intent'[j] = intent[j]
  BY DEF PlanIntent, PInv, Typed, IntentRows, IntentStates
<1>3. Latest(i) = 0 /\ Unposted(i)
  BY <1>1, QuietIs
<1>4. History(target, intent'[i].state, attempts[i])
  BY <1>2, <1>3, RowsAre DEF History, Latest, PInv
<1>5. Truthful(i)'
  BY <1>1, <1>2, <1>3, UnpostedIsTruthful DEF world
<1>6. /\ approval' \in [Intents -> ApprovalRows]
      /\ UNCHANGED <<attempts, target, absents, posts, calls, enabled, current, pc>>
  BY <1>1 DEF world, PInv, Typed
<1>7. QED
  BY <1>1, <1>2, <1>4, <1>5, <1>6, IntentMoves

LEMMA PostByHandIsSafe ==
    ASSUME PInv, NEW i \in Intents, PostByHand(i)
    PROVE  PInv'
<1>1. /\ intent[i].state = "AWAITING_HUMAN" /\ posts[i] = 0
      /\ UNCHANGED <<intent, approval, attempts, world, pc, calls>>
  BY DEF PostByHand
<1>2. /\ posts' \in [Intents -> Nat] /\ posts'[i] # 0
      /\ \A j \in Intents \ {i} : posts'[j] = posts[j]
      /\ \A j \in Intents : posts[j] # 0 => posts'[j] # 0
  BY DEF PostByHand, PInv, Typed
<1>3. UNCHANGED <<target, absents, enabled, current>>
  BY <1>1 DEF world
<1>4. \A a \in Rows(i) : Row(i, a).state \notin Running
  BY <1>1, RunningIs
<1>5. ~Doubted(attempts[i])
  <2>1. ASSUME Latest(i) # 0 PROVE Row(i, Latest(i)).state \notin {"PROCESSING", "UNKNOWN"}
    <3>1. Latest(i) \in Rows(i)
      BY <2>1, RowsAre DEF PInv
    <3>2. Fits(intent[i].state, Row(i, Latest(i)).state)
      BY <3>1, LiveIsLatest DEF PInv
    <3>3. QED
      BY <1>1, <3>2 DEF Fits
  <2>2. QED
    BY <2>1 DEF Doubted, Latest, Row
<1>6. Truthful(i)'
  <2>1. Truthful(i)
    BY DEF PInv
  <2>2. QED
    BY <1>1, <1>2, <1>3, <1>5, <2>1 DEF Truthful
<1>7. Typed'
  BY <1>1, <1>2, <1>3 DEF PInv, Typed
<1>8. \A j \in Intents : History(target, intent[j].state, attempts[j])'
  BY <1>1, <1>3 DEF PInv
<1>9. \A j \in Intents : Truthful(j)'
  BY <1>1, <1>2, <1>3, <1>6, TruthKept DEF PInv
<1>10. OneOwner'
  BY <1>1 DEF PInv, OneOwner
<1>11. ASSUME NEW w \in Workers PROVE Knows(w)'
  <2>1. \A j \in Intents \ {i} : Unposted(j) => Unposted(j)'
    BY <1>1, <1>2, <1>3 DEF Unposted
  <2>2. \A a \in Rows(i) : ~Leased(w, i, a)
    BY <1>4 DEF Leased
  <2>3. Undisturbed(w)
    BY <1>1, <1>2, <2>1, <2>2 DEF Undisturbed, Rows, Row, Leased
  <2>4. QED
    BY <1>3, <2>3, UndisturbedKnows DEF PInv
<1>12. QED
  BY <1>7, <1>8, <1>9, <1>10, <1>11 DEF PInv

LEMMA NewAttemptIs ==
    ASSUME Typed, NEW i \in Intents
    PROVE  /\ NewAttempt(i) \in AttemptRows /\ NewAttempt(i).state = "QUEUED"
           /\ \A k \in 1..2 : /\ NewAttempt(i).steps[k].state = "PENDING"
                              /\ NewAttempt(i).steps[k].request = "none"
<1>1. approval[i].revision + 1 \in Nat
  BY DEF Typed, ApprovalRows
<1>2. [state |-> "PENDING", retries |-> 0, request |-> "none"] \in StepRows
  BY DEF StepRows, StepStates, Open, Requests
<1>3. QED
  BY <1>1, <1>2 DEF NewAttempt, AttemptRows, AttemptStates, Active

LEMMA ApproveIsSafe ==
    ASSUME PInv, NEW i \in Intents, Approve(i)
    PROVE  PInv'
<1>1. /\ intent[i].state \in {"AWAITING_APPROVAL", "FAILED"} /\ OwnsTarget(i)
      /\ Decided(i, "APPROVE") /\ IntentGoes(i, "READY")
      /\ attempts' = [attempts EXCEPT ![i] = Append(@, NewAttempt(i))]
      /\ UNCHANGED <<world, pc, calls, posts>>
  BY DEF Approve, IntentGoes
<1>2. /\ intent' \in [Intents -> IntentRows] /\ intent'[i].state = "READY"
      /\ \A j \in Intents \ {i} : intent'[j] = intent[j]
  <2>1. "READY" \in IntentStates
    BY StatesAre
  <2>2. QED
    BY <1>1, <2>1, IntentGoesTo DEF PInv
<1>3. Unposted(i) /\ \A a \in Rows(i) : Row(i, a).state \in Supersedable
  BY <1>1, QuietIs
<1>4. PICK r \in AttemptRows :
         /\ r = NewAttempt(i) /\ r.state = "QUEUED" /\ RowOK(target, r)
  BY NewAttemptIs DEF PInv, RowOK, Unbegun, Clean, Open, Supersedable
<1>5. /\ attempts' \in [Intents -> Seq(AttemptRows)]
      /\ \A j \in Intents \ {i} : attempts'[j] = attempts[j]
      /\ Len(attempts'[i]) = Latest(i) + 1 /\ attempts'[i][Latest(i) + 1] = r
      /\ \A a \in Rows(i) : attempts'[i][a] = Row(i, a)
      /\ Rows(i) = 1..Latest(i) /\ Latest(i) \in Nat
  <2>1. attempts \in [Intents -> Seq(AttemptRows)] /\ attempts[i] \in Seq(AttemptRows)
    BY DEF PInv, Typed
  <2>2. attempts'[i] = Append(attempts[i], r)
        /\ \A j \in Intents \ {i} : attempts'[j] = attempts[j]
    BY <1>1, <1>4, <2>1
  <2>3. QED
    BY <1>1, <1>4, <2>1, <2>2 DEF Latest, Rows, Row
<1>6. History(target, intent'[i].state, attempts'[i])
  <2>1. \A a \in Rows(i) : RowOK(target, Row(i, a))
    BY LiveIsLatest DEF PInv
  <2>2. \A a \in 1..Len(attempts'[i]) : a \in Rows(i) \/ a = Latest(i) + 1
    BY <1>5
  <2>3. Fits("READY", r.state)
    BY <1>4 DEF Fits, Supersedable
  <2>4. ASSUME NEW a \in 1..Len(attempts'[i])
        PROVE  /\ RowOK(target, attempts'[i][a])
               /\ a # Len(attempts'[i]) => attempts'[i][a].state \in Supersedable
    <3>1. CASE a \in Rows(i)
      BY <1>3, <1>5, <2>1, <3>1
    <3>2. CASE a = Latest(i) + 1
      BY <1>4, <1>5, <3>2
    <3>3. QED
      BY <2>2, <3>1, <3>2
  <2>5. Len(attempts'[i]) # 0 /\ attempts'[i][Len(attempts'[i])] = r
    BY <1>5
  <2>6. QED
    BY <1>2, <2>3, <2>4, <2>5 DEF History
<1>7. Truthful(i)'
  BY <1>1, <1>2, <1>3, UnpostedIsTruthful DEF world
<1>8. UNCHANGED <<target, absents, posts, calls, enabled, current, pc>>
  BY <1>1 DEF world
<1>9. Typed'
  BY <1>1, <1>2, <1>5, <1>8, DecidedIs DEF PInv, Typed
<1>10. \A j \in Intents : History(target, intent[j].state, attempts[j])'
  BY <1>2, <1>5, <1>6, <1>8 DEF PInv
<1>11. \A j \in Intents : Truthful(j)'
  BY <1>2, <1>5, <1>7, <1>8, TruthKept DEF PInv
<1>12. OneOwner'
  BY <1>1, <1>2, OwnerMoves DEF PInv
<1>13. ASSUME NEW w \in Workers PROVE Knows(w)'
  <2>1. ASSUME NEW j \in Intents, NEW a \in Rows(j)
        PROVE  a \in Rows(j)' /\ Row(j, a)' = Row(j, a)
    <3>1. CASE j = i
      <4>1. a \in 1..Len(attempts'[i]) /\ attempts'[i] \in Seq(AttemptRows)
        BY <1>5, <2>1, <3>1
      <4>2. QED
        BY <1>5, <2>1, <3>1, <4>1 DEF Rows, Row
    <3>2. CASE j # i
      BY <1>5, <2>1, <3>2 DEF Rows, Row
    <3>3. QED
      BY <3>1, <3>2
  <2>2. Undisturbed(w)
    BY <1>8, <2>1 DEF Undisturbed, Leased, Unposted
  <2>3. QED
    BY <1>8, <2>2, UndisturbedKnows DEF PInv
<1>14. QED
  BY <1>9, <1>10, <1>11, <1>12, <1>13 DEF PInv

\* A decision that leaves the latest row as r, and nobody at work on it.
LEMMA RowDecided ==
    ASSUME PInv, NEW i \in Intents, NEW a \in Rows(i), a = Latest(i),
           NEW r \in AttemptRows, r.state \notin Running, RowOK(target, r),
           attempts' = [attempts EXCEPT ![i] = [@ EXCEPT ![a] = r]],
           NEW st \in IntentStates, IntentGoes(i, st), Fits(st, r.state),
           st \in Free \/ intent[i].state \notin Free \/ OwnsTarget(i),
           approval' \in [Intents -> ApprovalRows],
           UNCHANGED <<target, absents, posts, calls, enabled, current, pc>>,
           st # "PUBLISHED" \/ posts[i] # 0,
           \/ Unposted(i) /\ st # "PUBLISHED"
           \/ st = "PUBLISHED"
           \/ /\ Row(i, a).state = "PROCESSING" /\ r.state = "UNKNOWN"
              /\ intent[i].state \notin {"PUBLISHED", "AWAITING_HUMAN"}
              /\ r.steps[2].request \in {"started", "unknown"}
    PROVE  PInv'
<1>1. /\ intent' \in [Intents -> IntentRows] /\ intent'[i].state = st
      /\ \A j \in Intents \ {i} : intent'[j] = intent[j]
  BY IntentGoesTo DEF PInv
<1>2. Truthful(i)'
  <2>1. Truthful(i)
    BY DEF PInv
  <2>2. CASE Unposted(i) /\ st # "PUBLISHED"
    BY <1>1, <2>2, UnpostedIsTruthful
  <2>3. CASE st = "PUBLISHED"
    BY <1>1, <2>1, <2>3 DEF Truthful
  <2>4. CASE /\ Row(i, a).state = "PROCESSING" /\ r.state = "UNKNOWN"
             /\ intent[i].state \notin {"PUBLISHED", "AWAITING_HUMAN"}
             /\ r.steps[2].request \in {"started", "unknown"}
    <3>1. attempts'[i][a] = r /\ Len(attempts'[i]) = Latest(i) /\ a # 0
      <4>1. attempts \in [Intents -> Seq(AttemptRows)] /\ a \in DOMAIN attempts[i]
        BY DEF PInv, Typed, Rows
      <4>2. QED
        BY <4>1 DEF Latest
    <3>2. Doubted(attempts'[i])
      BY <2>4, <3>1 DEF Doubted
    <3>3. QED
      BY <1>1, <2>1, <2>4, <3>1, <3>2 DEF Truthful, Latest
  <2>5. QED
    BY <2>2, <2>3, <2>4
<1>3. /\ intent'[i].state \in Free \/ intent[i].state \notin Free \/ OwnsTarget(i)
      /\ Fits(intent'[i].state, r.state) /\ absents' \in [Intents -> Nat]
  BY <1>1 DEF PInv, Typed
<1>4. \A j \in Intents : Unposted(j) => Unposted(j)'
  BY DEF Unposted
<1>5. QED
  BY <1>1, <1>2, <1>3, <1>4, RowEnds

LEMMA ReconcilePresentIsSafe ==
    ASSUME PInv, NEW i \in Intents, ReconcilePresent(i)
    PROVE  PInv'
<1>1. PICK a \in Nat : a = Latest(i) /\ a \in Rows(i)
  BY RowsAre DEF PInv, ReconcilePresent
<1>2. /\ intent[i].state \in {"UNKNOWN", "AWAITING_HUMAN"} /\ posts[i] # 0
      /\ IntentGoes(i, "PUBLISHED")
      /\ UNCHANGED <<approval, world, pc, calls, posts>>
  BY DEF ReconcilePresent, IntentGoes, PInv, Typed
<1>3. Row(i, a) \in AttemptRows /\ RowOK(target, Row(i, a))
  BY <1>1, RowsAre, LiveIsLatest DEF PInv
<1>4. PICK step \in StepRows : step = [Row(i, a).steps[2] EXCEPT !.state = "SUCCEEDED"]
  <2>1. Row(i, a).steps[2] \in StepRows /\ "SUCCEEDED" \in StepStates
    BY <1>3, StatesAre DEF AttemptRows
  <2>2. QED
    BY <2>1, StepSet
<1>5. PICK r : r = Written(i, a, "SUCCEEDED", 2, step)
  OBVIOUS
<1>6. /\ r \in AttemptRows /\ r.state = "SUCCEEDED"
      /\ r.steps[1] = Row(i, a).steps[1]
  BY <1>1, <1>5, WrittenIs, StatesAre DEF PInv
<1>7. attempts' = [attempts EXCEPT ![i] = [@ EXCEPT ![a] = r]]
  BY <1>1, <1>4, <1>5 DEF ReconcilePresent, Written, Row
<1>8. RowOK(target, r) /\ Fits("PUBLISHED", r.state) /\ r.state \notin Running
  BY <1>3, <1>6 DEF RowOK, Fits, Supersedable, Running
<1>9. /\ approval' \in [Intents -> ApprovalRows]
      /\ UNCHANGED <<target, absents, posts, calls, enabled, current, pc>>
      /\ intent[i].state \notin Free /\ "PUBLISHED" \in IntentStates
  BY <1>2 DEF world, PInv, Typed, Free, Supersedable, IntentStates
<1>10. QED
  BY <1>1, <1>2, <1>6, <1>7, <1>8, <1>9, RowDecided

\* The rows of an intent are rewritten, those that ended as they were.
Rewrites(i, rows) ==
    /\ rows = [b \in Rows(i) |-> rows[b]]
    /\ \A b \in Rows(i) : Row(i, b).state \in Supersedable => rows[b] = Row(i, b)
    /\ attempts' = [attempts EXCEPT ![i] = rows]

\* Then only the latest is.
LEMMA LatestRewritten ==
    ASSUME PInv, NEW i \in Intents, NEW rows, Rewrites(i, rows)
    PROVE  /\ Latest(i) = 0 => attempts' = attempts
           /\ Latest(i) # 0 => attempts' =
                 [attempts EXCEPT ![i] = [@ EXCEPT ![Latest(i)] = rows[Latest(i)]]]
<1>1. /\ attempts \in [Intents -> Seq(AttemptRows)] /\ Rows(i) = 1..Latest(i)
      /\ attempts[i] \in Seq(AttemptRows) /\ Latest(i) = Len(attempts[i])
      /\ attempts[i] = [b \in 1..Latest(i) |-> attempts[i][b]]
      /\ Latest(i) \in Nat
  BY RowsAre DEF PInv, Typed, Latest
<1>2. \A b \in Rows(i) : b # Latest(i) => rows[b] = attempts[i][b]
  BY LiveIsLatest DEF PInv, Row, Rewrites
<1>3. Latest(i) = 0 => rows = attempts[i]
  <2>1. ASSUME Latest(i) = 0 PROVE rows = attempts[i]
    <3>1. \A b \in 1..Latest(i) : rows[b] = attempts[i][b]
      BY <1>1, <2>1
    <3>2. QED
      BY <1>1, <3>1 DEF Rewrites
  <2>2. QED
    BY <2>1
<1>4. Latest(i) # 0 => rows = [attempts[i] EXCEPT ![Latest(i)] = rows[Latest(i)]]
  <2>1. \A b \in 1..Latest(i) :
           rows[b] = [attempts[i] EXCEPT ![Latest(i)] = rows[Latest(i)]][b]
    BY <1>1, <1>2
  <2>2. [attempts[i] EXCEPT ![Latest(i)] = rows[Latest(i)]]
           = [b \in 1..Latest(i) |->
                [attempts[i] EXCEPT ![Latest(i)] = rows[Latest(i)]][b]]
    BY <1>1
  <2>3. QED
    BY <1>1, <2>1, <2>2 DEF Rewrites
<1>5. QED
  BY <1>1, <1>3, <1>4 DEF Rewrites

LEMMA CancelIsSafe ==
    ASSUME PInv, NEW i \in Intents, Cancel(i)
    PROVE  PInv'
<1>1. /\ intent[i].state \in {"AWAITING_APPROVAL", "READY"}
      /\ \A a \in Rows(i) : Row(i, a).state \notin
            Running \cup {"AWAITING_HUMAN", "UNKNOWN", "SUCCEEDED"}
      /\ IntentGoes(i, "CANCELLED")
      /\ UNCHANGED <<approval, world, pc, calls, posts>>
  BY DEF Cancel, Cancellable, IntentGoes
<1>2. PICK rows : /\ rows = [b \in Rows(i) |-> CancelledRow(Row(i, b))]
                  /\ attempts' = [attempts EXCEPT ![i] = rows]
  BY DEF Cancel
<1>3. /\ Latest(i) = 0 => attempts' = attempts
      /\ Latest(i) # 0 => attempts' =
            [attempts EXCEPT ![i] = [@ EXCEPT ![Latest(i)] = rows[Latest(i)]]]
  <2>1. /\ rows = [b \in Rows(i) |-> rows[b]]
        /\ \A b \in Rows(i) : rows[b] = CancelledRow(Row(i, b))
    BY <1>2
  <2>2. \A b \in Rows(i) : Row(i, b).state \in Supersedable => rows[b] = Row(i, b)
    BY <2>1 DEF CancelledRow, Supersedable
  <2>3. Rewrites(i, rows)
    BY <1>2, <2>1, <2>2 DEF Rewrites
  <2>4. QED
    BY <2>3, LatestRewritten
<1>4. /\ approval' \in [Intents -> ApprovalRows] /\ "CANCELLED" \in IntentStates
      /\ UNCHANGED <<target, absents, posts, calls, enabled, current, pc>>
  BY <1>1, StatesAre DEF world, PInv, Typed
<1>5. Unposted(i)
  <2>1. ~Doubted(attempts[i])
    <3>1. ASSUME Latest(i) # 0 PROVE Row(i, Latest(i)).state \notin {"PROCESSING", "UNKNOWN"}
      BY <1>1, <3>1, RowsAre DEF PInv, Running
    <3>2. QED
      BY <3>1 DEF Doubted, Latest, Row
  <2>2. QED
    BY <1>1, <2>1, UndoubtedIsUnposted DEF PInv
<1>6. CASE Latest(i) = 0
  <2>1. /\ intent' \in [Intents -> IntentRows] /\ intent'[i].state = "CANCELLED"
        /\ \A j \in Intents \ {i} : intent'[j] = intent[j]
    BY <1>1, <1>4, IntentGoesTo DEF PInv
  <2>2. History(target, intent'[i].state, attempts[i])
    BY <1>6, <2>1 DEF History, Latest
  <2>3. Truthful(i)'
    BY <1>4, <1>5, <2>1, UnpostedIsTruthful
  <2>4. intent'[i].state \in Free
    BY <2>1 DEF Free, Supersedable
  <2>5. QED
    BY <1>3, <1>4, <1>6, <2>1, <2>2, <2>3, <2>4, IntentMoves
<1>7. CASE Latest(i) # 0
  <2>1. PICK a \in Nat : a = Latest(i) /\ a \in Rows(i)
    BY <1>7, RowsAre DEF PInv
  <2>2. Row(i, a) \in AttemptRows /\ RowOK(target, Row(i, a))
        /\ Row(i, a).state \in {"QUEUED", "RETRY_WAIT", "FAILED", "CANCELLED"}
    <3>1. Row(i, a) \in AttemptRows /\ RowOK(target, Row(i, a))
      BY <2>1, RowsAre, LiveIsLatest DEF PInv
    <3>2. Row(i, a).state \in AttemptStates
      BY <3>1 DEF AttemptRows
    <3>3. QED
      BY <1>1, <2>1, <3>1, <3>2 DEF AttemptStates, Active, Running
  <2>3. PICK r : r = rows[a] /\ r = CancelledRow(Row(i, a))
    BY <1>2, <2>1
  <2>4. /\ r \in AttemptRows /\ RowOK(target, r) /\ r.state \in {"FAILED", "CANCELLED"}
    <3>1. CASE Row(i, a).state \notin {"QUEUED", "RETRY_WAIT"}
      BY <2>2, <2>3, <3>1 DEF CancelledRow
    <3>2. CASE Row(i, a).state \in {"QUEUED", "RETRY_WAIT"}
      <4>1. Row(i, a).steps \in [1..2 -> StepRows] /\ "CANCELLED" \in StepStates
        BY <2>2, StatesAre DEF AttemptRows
      <4>2. PICK steps :
               steps = [k \in 1..2 |-> [Row(i, a).steps[k] EXCEPT !.state = "CANCELLED"]]
        OBVIOUS
      <4>3. /\ steps \in [1..2 -> StepRows]
            /\ \A k \in 1..2 : steps[k].request = Row(i, a).steps[k].request
        BY <4>1, <4>2, StepSet
      <4>4. r = [Row(i, a) EXCEPT !.state = "CANCELLED", !.owner = Nobody,
                                  !.live = FALSE, !.steps = steps]
        BY <2>3, <3>2, <4>2 DEF CancelledRow
      <4>5. r \in AttemptRows /\ r.state = "CANCELLED" /\ r.steps = steps
        BY <2>2, <4>3, <4>4, StatesAre DEF AttemptRows
      <4>6. Clean(r.steps[2]) /\ (target = "PATREON" => r.steps[1].request = "none")
        BY <2>2, <3>2, <4>3, <4>5 DEF RowOK, Unbegun, Clean
      <4>7. QED
        BY <4>5, <4>6 DEF RowOK, StepInDoubt, Clean, Supersedable
    <3>3. QED
      BY <3>1, <3>2
  <2>5. Fits("CANCELLED", r.state) /\ r.state \notin Running /\ "CANCELLED" \in Free
    BY <2>4 DEF Fits, Supersedable, Running, Free
  <2>6. attempts' = [attempts EXCEPT ![i] = [@ EXCEPT ![a] = r]]
    BY <1>3, <1>7, <2>1, <2>3
  <2>7. QED
    BY <1>1, <1>4, <1>5, <2>1, <2>4, <2>5, <2>6, RowDecided
<1>8. QED
  BY <1>6, <1>7

\* What revoking makes of an attempt that has not ended: it is in doubt when
\* its post was begun, and cancelled otherwise.
LEMMA RevokedIs ==
    ASSUME target \in {"X", "PATREON"}, NEW row \in AttemptRows, RowOK(target, row),
           row.state \in Active
    PROVE  /\ RevokedRow(row) \in AttemptRows /\ RowOK(target, RevokedRow(row))
           /\ \/ /\ RevokedRow(row).state = "CANCELLED" /\ Clean(row.steps[2])
              \/ /\ RevokedRow(row).state = "UNKNOWN" /\ row.state = "PROCESSING"
                 /\ RevokedRow(row).steps[2].request = "started" /\ ~Clean(row.steps[2])
<1>1. /\ row.steps \in [1..2 -> StepRows] /\ row.steps[1] \in StepRows
      /\ row.steps[2] \in StepRows
  BY DEF AttemptRows
<1>2. /\ \/ Clean(row.steps[2])
         \/ row.state = "PROCESSING" /\ row.steps[2].request = "started"
      /\ target = "PATREON" => row.steps[1].request = "none"
  <2>1. CASE row.state = "PROCESSING"
    BY <2>1 DEF RowOK, Unbegun
  <2>2. CASE row.state \in {"QUEUED", "RETRY_WAIT", "CLAIMED"}
    BY <2>2 DEF RowOK, Unbegun
  <2>3. QED
    BY <2>1, <2>2 DEF Active, Running
<1>3. /\ Kinds[1] = "X_MEDIA_UPLOAD" <=> target = "X"
      /\ Kinds[2] # "X_MEDIA_UPLOAD"
  BY KindsAre
<1>4. ~Unsafe(1, row.steps[1]) /\ (Unsafe(2, row.steps[2]) <=> ~Clean(row.steps[2]))
  BY <1>2, <1>3 DEF Unsafe, Clean
<1>5. ASSUME NEW k \in 1..2
      PROVE  /\ RevokedStep(k, row.steps[k]) \in StepRows
             /\ RevokedStep(k, row.steps[k]).request = row.steps[k].request
             /\ Unsafe(k, row.steps[k]) => RevokedStep(k, row.steps[k]).state = "UNKNOWN"
  <2>1. row.steps[k] \in StepRows /\ "UNKNOWN" \in StepStates /\ "CANCELLED" \in StepStates
    BY <1>1, StatesAre
  <2>2. QED
    BY <2>1, StepSet DEF RevokedStep
<1>6. PICK steps : steps = [k \in 1..2 |-> RevokedStep(k, row.steps[k])]
  OBVIOUS
<1>7. /\ steps \in [1..2 -> StepRows]
      /\ \A k \in 1..2 : steps[k].request = row.steps[k].request
      /\ Unsafe(2, row.steps[2]) => steps[2].state = "UNKNOWN"
  BY <1>5, <1>6
<1>8. (\E k \in 1..2 : Unsafe(k, row.steps[k])) <=> ~Clean(row.steps[2])
  BY <1>4
<1>9. PICK s \in {"UNKNOWN", "CANCELLED"} :
         /\ s = IF Clean(row.steps[2]) THEN "CANCELLED" ELSE "UNKNOWN"
         /\ RevokedRow(row) = [row EXCEPT !.state = s, !.owner = Nobody, !.live = FALSE,
                                          !.steps = steps]
  BY <1>6, <1>8 DEF RevokedRow
<1>10. PICK r : r = RevokedRow(row)
  OBVIOUS
<1>11. r \in AttemptRows /\ r.state = s /\ r.steps = steps
  BY ZenonT(30), <1>7, <1>9, <1>10, StatesAre DEF AttemptRows
<1>12. CASE Clean(row.steps[2])
  <2>1. RowOK(target, r)
    BY <1>2, <1>7, <1>9, <1>11, <1>12 DEF RowOK, StepInDoubt, Clean, Supersedable
  <2>2. QED
    BY <1>9, <1>10, <1>11, <1>12, <2>1
<1>13. CASE ~Clean(row.steps[2])
  <2>1. RowOK(target, r) /\ r.steps[2].request = "started"
    BY <1>2, <1>4, <1>7, <1>9, <1>11, <1>13 DEF RowOK, Supersedable
  <2>2. QED
    BY <1>2, <1>9, <1>10, <1>11, <1>13, <2>1
<1>14. QED
  BY <1>12, <1>13

LEMMA RevokeIsSafe ==
    ASSUME PInv, NEW i \in Intents, Revoke(i)
    PROVE  PInv'
<1>1. /\ intent[i].state \notin {"none", "PUBLISHED", "CANCELLED", "AWAITING_HUMAN", "UNKNOWN"}
      /\ \A a \in Rows(i) : Row(i, a).state \notin {"AWAITING_HUMAN", "UNKNOWN"}
      /\ OwnsTarget(i) /\ Decided(i, "REVOKE")
      /\ UNCHANGED <<world, pc, calls, posts>>
  BY DEF Revoke
<1>2. PICK rows : /\ rows = [b \in Rows(i) |-> RevokedRow(Row(i, b))]
                  /\ attempts' = [attempts EXCEPT ![i] = rows]
                  /\ IntentGoes(i, IF \E b \in Rows(i) : rows[b].state = "UNKNOWN"
                                   THEN "UNKNOWN" ELSE "AWAITING_APPROVAL")
  BY DEF Revoke, IntentGoes
<1>2a. \A b \in Rows(i) : rows[b] = RevokedRow(Row(i, b))
  BY <1>2
<1>2b. \A b \in Rows(i) : Row(i, b).state \notin Active => rows[b] = Row(i, b)
  BY <1>2a DEF RevokedRow
<1>3. /\ Latest(i) = 0 => attempts' = attempts
      /\ Latest(i) # 0 => attempts' =
            [attempts EXCEPT ![i] = [@ EXCEPT ![Latest(i)] = rows[Latest(i)]]]
  <2>1. rows = [b \in Rows(i) |-> rows[b]]
    BY <1>2
  <2>2. \A b \in Rows(i) : Row(i, b).state \in Supersedable => rows[b] = Row(i, b)
    BY <1>2b DEF Supersedable, Active, Running
  <2>3. Rewrites(i, rows)
    BY <1>2, <2>1, <2>2 DEF Rewrites
  <2>4. QED
    BY <2>3, LatestRewritten
<1>4. /\ approval' \in [Intents -> ApprovalRows]
      /\ {"UNKNOWN", "AWAITING_APPROVAL"} \subseteq IntentStates
      /\ UNCHANGED <<target, absents, posts, calls, enabled, current, pc>>
  BY <1>1, DecidedIs DEF world, PInv, IntentStates
<1>5. \A b \in Rows(i) : b # Latest(i) => rows[b].state # "UNKNOWN"
  <2>1. ASSUME NEW b \in Rows(i), b # Latest(i) PROVE rows[b].state # "UNKNOWN"
    <3>1. Row(i, b).state \in Supersedable
      BY <2>1, LiveIsLatest DEF PInv
    <3>2. rows[b] = Row(i, b)
      BY <1>2b, <3>1 DEF Supersedable, Active, Running
    <3>3. QED
      BY <3>1, <3>2 DEF Supersedable
  <2>2. QED
    BY <2>1
<1>6. CASE Latest(i) = 0
  <2>0. IntentGoes(i, "AWAITING_APPROVAL")
    BY <1>2, <1>6, RowsAre DEF PInv
  <2>1. /\ intent' \in [Intents -> IntentRows] /\ intent'[i].state = "AWAITING_APPROVAL"
        /\ \A j \in Intents \ {i} : intent'[j] = intent[j]
    BY <1>4, <2>0, IntentGoesTo DEF PInv
  <2>2. History(target, intent'[i].state, attempts[i])
    BY <1>6, <2>1 DEF History, Latest
  <2>3. Unposted(i)
    BY <1>1, <1>6, UndoubtedIsUnposted DEF Doubted, Latest, PInv
  <2>4. Truthful(i)'
    BY <1>4, <2>1, <2>3, UnpostedIsTruthful
  <2>5. QED
    BY <1>1, <1>3, <1>4, <1>6, <2>1, <2>2, <2>4, IntentMoves
<1>7. CASE Latest(i) # 0
  <2>1. PICK a \in Nat : a = Latest(i) /\ a \in Rows(i)
    BY <1>7, RowsAre DEF PInv
  <2>2. Row(i, a) \in AttemptRows /\ RowOK(target, Row(i, a))
        /\ Row(i, a).state \in AttemptStates /\ Fits(intent[i].state, Row(i, a).state)
        /\ target \in {"X", "PATREON"}
    BY <2>1, RowsAre, LiveIsLatest DEF PInv, AttemptRows, Typed
  <2>3. PICK r : r = rows[a]
    OBVIOUS
  <2>4. attempts' = [attempts EXCEPT ![i] = [@ EXCEPT ![a] = r]]
    BY <1>3, <1>7, <2>1, <2>3
  <2>5. IntentGoes(i, IF r.state = "UNKNOWN" THEN "UNKNOWN" ELSE "AWAITING_APPROVAL")
    <3>1. (\E b \in Rows(i) : rows[b].state = "UNKNOWN") <=> r.state = "UNKNOWN"
      BY <1>5, <2>1, <2>3
    <3>2. QED
      BY <1>2, <3>1
  <2>6. CASE Row(i, a).state \in Active
    <3>1. /\ r \in AttemptRows /\ RowOK(target, r)
          /\ \/ r.state = "CANCELLED" /\ Clean(Row(i, a).steps[2])
             \/ /\ r.state = "UNKNOWN" /\ Row(i, a).state = "PROCESSING"
                /\ r.steps[2].request = "started"
      BY <1>2a, <2>1, <2>2, <2>3, <2>6, RevokedIs
    <3>2. CASE r.state = "CANCELLED" /\ Clean(Row(i, a).steps[2])
      <4>1. ~Doubted(attempts[i])
        BY <2>1, <3>2 DEF Doubted, Latest, Row, Clean
      <4>2. Unposted(i)
        BY <1>1, <4>1, UndoubtedIsUnposted DEF PInv
      <4>3. /\ IntentGoes(i, "AWAITING_APPROVAL") /\ Fits("AWAITING_APPROVAL", r.state)
            /\ r.state \notin Running
        BY <2>5, <3>2 DEF Fits, Supersedable, Running
      <4>4. QED
        BY <1>1, <1>4, <2>1, <2>4, <3>1, <4>2, <4>3, RowDecided
    <3>3. CASE /\ r.state = "UNKNOWN" /\ Row(i, a).state = "PROCESSING"
               /\ r.steps[2].request = "started"
      <4>1. /\ IntentGoes(i, "UNKNOWN") /\ Fits("UNKNOWN", r.state)
            /\ r.state \notin Running
        BY <2>5, <3>3 DEF Fits, Supersedable, Running
      <4>2. QED
        BY <1>1, <1>4, <2>1, <2>4, <3>1, <3>3, <4>1, RowDecided
    <3>4. QED
      BY <3>1, <3>2, <3>3
  <2>7. CASE Row(i, a).state \notin Active
    <3>1. r = Row(i, a)
      BY <1>2b, <2>1, <2>3, <2>7
    <3>2. r.state \in {"FAILED", "CANCELLED"}
      BY <1>1, <2>1, <2>2, <2>7, <3>1 DEF AttemptStates, Fits
    <3>3. ~Doubted(attempts[i])
      BY <2>1, <3>1, <3>2 DEF Doubted, Latest, Row
    <3>4. Unposted(i)
      BY <1>1, <3>3, UndoubtedIsUnposted DEF PInv
    <3>5. /\ IntentGoes(i, "AWAITING_APPROVAL") /\ Fits("AWAITING_APPROVAL", r.state)
          /\ r.state \notin Running
      BY <2>5, <3>2 DEF Fits, Supersedable, Running
    <3>6. QED
      BY <1>1, <1>4, <2>1, <2>2, <2>4, <3>1, <3>4, <3>5, RowDecided
  <2>8. QED
    BY <2>6, <2>7
<1>8. QED
  BY <1>6, <1>7

\* The latest row, once the operator has seen that nothing was posted.
LEMMA AbsentRowIs ==
    ASSUME PInv, NEW i \in Intents, NEW rows,
           rows \in IF target = "X" THEN XAbsentRows(i) ELSE PatreonAbsentRows(i)
    PROVE  \E r \in AttemptRows :
              /\ Latest(i) \in Rows(i)
              /\ rows = [attempts[i] EXCEPT ![Latest(i)] = r] /\ RowOK(target, r)
              /\ r.state = IF target = "X" THEN "FAILED" ELSE "AWAITING_HUMAN"
<1>1. CASE target = "X"
  <2>1. PICK a \in Rows(i) :
           /\ Row(i, a).state = "UNKNOWN"
           /\ rows = [attempts[i] EXCEPT ![a] = [@ EXCEPT !.state = "FAILED",
                        !.owner = Nobody, !.live = FALSE,
                        !.steps = [k \in 1..2 |-> XAbsentStep(Step(i, a, k))]]]
    <3>1. rows \in XAbsentRows(i)
      BY <1>1
    <3>2. QED
      BY <3>1, Zenon DEF XAbsentRows
  <2>2. /\ Row(i, a) \in AttemptRows /\ RowOK(target, Row(i, a)) /\ a = Latest(i)
        /\ Row(i, a).steps \in [1..2 -> StepRows]
        /\ Row(i, a).steps[2].state = "UNKNOWN"
    <3>1. /\ Row(i, a) \in AttemptRows /\ RowOK(target, Row(i, a)) /\ a = Latest(i)
      BY <2>1, RowsAre, LiveIsLatest DEF PInv, Supersedable
    <3>2. QED
      BY <2>1, <3>1 DEF RowOK, AttemptRows
  <2>3. PICK steps : steps = [k \in 1..2 |-> XAbsentStep(Step(i, a, k))]
    OBVIOUS
  <2>4. \A k \in 1..2 : /\ XAbsentStep(Step(i, a, k)) \in StepRows
                        /\ XAbsentStep(Step(i, a, k)).request = Row(i, a).steps[k].request
    <3>1. \A k \in 1..2 : Step(i, a, k) = Row(i, a).steps[k]
      BY DEF Step, Row
    <3>2. "FAILED" \in StepStates /\ "CANCELLED" \in StepStates
      BY StatesAre
    <3>3. QED
      BY <2>2, <3>1, <3>2, StepSet DEF XAbsentStep
  <2>5. XAbsentStep(Step(i, a, 2)).state = "FAILED"
    <3>1. Step(i, a, 2) = Row(i, a).steps[2] /\ Row(i, a).steps[2] \in StepRows
      BY <2>2 DEF Step, Row
    <3>2. "FAILED" \in StepStates
      BY StatesAre
    <3>3. QED
      BY <2>2, <3>1, <3>2, StepSet DEF XAbsentStep
  <2>6. steps \in [1..2 -> StepRows] /\ steps[2].state = "FAILED"
    BY <2>3, <2>4, <2>5
  <2>7. PICK r : r = [Row(i, a) EXCEPT !.state = "FAILED", !.owner = Nobody, !.live = FALSE,
                                      !.steps = steps]
    OBVIOUS
  <2>8. r \in AttemptRows /\ r.state = "FAILED" /\ r.steps = steps
    BY <2>2, <2>6, <2>7, StatesAre DEF AttemptRows
  <2>9. RowOK(target, r)
    BY <1>1, <2>6, <2>8 DEF RowOK, StepInDoubt, Supersedable
  <2>10. rows = [attempts[i] EXCEPT ![Latest(i)] = r]
    BY <2>1, <2>2, <2>3, <2>7 DEF Row
  <2>11. QED
    BY <1>1, <2>2, <2>8, <2>9, <2>10
<1>2. CASE target # "X"
  <2>1. /\ Latest(i) > 0 /\ Row(i, Latest(i)).state = "UNKNOWN"
        /\ rows = [attempts[i] EXCEPT ![Latest(i)] = [@ EXCEPT !.state = "AWAITING_HUMAN",
                     !.owner = Nobody, !.live = FALSE, !.steps[2].state = "AWAITING_HUMAN"]]
    BY <1>2 DEF PatreonAbsentRows
  <2>2. PICK a \in Nat : a = Latest(i) /\ a \in Rows(i)
    BY <2>1, RowsAre DEF PInv
  <2>3. Row(i, a) \in AttemptRows /\ RowOK(target, Row(i, a))
    BY <2>2, RowsAre, LiveIsLatest DEF PInv
  <2>4. PICK step \in StepRows : /\ step = [Row(i, a).steps[2] EXCEPT !.state = "AWAITING_HUMAN"]
                                 /\ step.state = "AWAITING_HUMAN"
    <3>1. Row(i, a).steps[2] \in StepRows /\ "AWAITING_HUMAN" \in StepStates
      BY <2>3, StatesAre DEF AttemptRows
    <3>2. QED
      BY <3>1, StepSet
  <2>5. PICK r : r = Written(i, a, "AWAITING_HUMAN", 2, step)
    OBVIOUS
  <2>6. /\ r \in AttemptRows /\ r.state = "AWAITING_HUMAN" /\ r.steps[2] = step
        /\ r.steps[1] = Row(i, a).steps[1]
    BY <2>2, <2>5, WrittenIs, StatesAre DEF PInv
  <2>7. RowOK(target, r)
    BY <2>3, <2>4, <2>6 DEF RowOK, Supersedable
  <2>8. rows = [attempts[i] EXCEPT ![Latest(i)] = r]
    BY <2>1, <2>2, <2>4, <2>5 DEF Written, Row
  <2>9. QED
    BY <1>2, <2>2, <2>6, <2>7, <2>8
<1>3. QED
  BY <1>1, <1>2

LEMMA ReconcileAbsentIsSafe ==
    ASSUME PInv, NEW i \in Intents, ReconcileAbsent(i)
    PROVE  PInv'
<1>1. PICK rows :
         /\ rows \in IF target = "X" THEN XAbsentRows(i) ELSE PatreonAbsentRows(i)
         /\ attempts' = [attempts EXCEPT ![i] = rows]
  BY DEF ReconcileAbsent
<1>2. PICK r \in AttemptRows, a \in Nat :
         /\ a = Latest(i) /\ a \in Rows(i)
         /\ rows = [attempts[i] EXCEPT ![a] = r] /\ RowOK(target, r)
         /\ r.state = IF target = "X" THEN "FAILED" ELSE "AWAITING_HUMAN"
  BY <1>1, AbsentRowIs, RowsAre DEF PInv
<1>3. PICK st \in IntentStates :
         /\ st = IF target = "X" THEN "AWAITING_APPROVAL" ELSE "AWAITING_HUMAN"
         /\ IntentGoes(i, st)
  BY DEF ReconcileAbsent, IntentGoes, IntentStates
<1>4. /\ intent' \in [Intents -> IntentRows] /\ intent'[i].state = st
      /\ \A j \in Intents \ {i} : intent'[j] = intent[j]
  BY <1>3, IntentGoesTo DEF PInv
<1>5. /\ absents' \in [Intents -> Nat] /\ absents'[i] # 0
      /\ \A j \in Intents \ {i} : absents'[j] = absents[j]
      /\ intent[i].state = "UNKNOWN" /\ approval' \in [Intents -> ApprovalRows]
      /\ UNCHANGED <<target, posts, calls, enabled, current, pc>>
  BY DEF ReconcileAbsent, PInv, Typed
<1>6. attempts' = [attempts EXCEPT ![i] = [@ EXCEPT ![a] = r]]
  BY <1>1, <1>2
<1>7. /\ Fits(intent'[i].state, r.state) /\ r.state \notin Running
      /\ intent[i].state \notin Free
  BY <1>2, <1>3, <1>4, <1>5 DEF Fits, Supersedable, Running, Free
<1>8. Truthful(i)' /\ \A j \in Intents : Unposted(j) => Unposted(j)'
  BY <1>3, <1>4, <1>5 DEF Truthful, Unposted
<1>9. QED
  BY <1>2, <1>4, <1>5, <1>6, <1>7, <1>8, RowEnds

-----------------------------------------------------------------------------
(* The invariant.                                                           *)

LEMMA NextPInv == PInv /\ [Next]_vars => PInv'
<1> SUFFICES ASSUME PInv, [Next]_vars PROVE PInv'
  OBVIOUS
<1>1. ASSUME NEW i \in Intents, Operator(i) PROVE PInv'
  BY <1>1, PlanIntentIsSafe, ApproveIsSafe, RevokeIsSafe, CancelIsSafe,
     ReconcilePresentIsSafe, ReconcileAbsentIsSafe, PostByHandIsSafe, WorldSteps DEF Operator
<1>2. ASSUME NEW i \in Intents,
             ApprovalExpires(i) \/ LeaseExpires(i) \/ \E a \in Rows(i) : Land(i, a)
      PROVE  PInv'
  BY <1>2, WorldSteps, LeaseExpiresIsSafe, LandIsSafe
<1>3. ASSUME NEW w \in Workers, Cycle(w) \/ Crash(w) PROVE PInv'
  <2>1. CASE Recover(w) \/ Claim(w) \/ Snapshot(w) \/ BeginEffect(w) \/ StartRequest(w)
    BY <2>1, RecoverIsSafe, ClaimIsSafe, SnapshotStep, BeginEffectIsSafe, StartRequestIsSafe
  <2>2. CASE PostCreated(w) \/ PostRefused(w) \/ Settle(w) \/ Crash(w)
    BY <2>2, PostCreatedIsSafe, PostRefusedIsSafe, SettleStep, CrashStep
  <2>3. CASE InputRefused(w) \/ NoRequest(w) \/ BuildPackage(w) \/ HandOver(w)
             \/ UploadAnswered(w) \/ PostUncertain(w)
    BY <2>3, VerdictSteps
  <2>4. QED
    BY <1>3, <2>1, <2>2, <2>3 DEF Cycle
<1>4. CASE SetGuard \/ ReleaseSuperseded
  BY <1>4, WorldSteps
<1>5. CASE UNCHANGED vars
  BY <1>5, ThoughtStep DEF vars, world, PInv, Typed
<1>6. QED
  BY <1>1, <1>2, <1>3, <1>4, <1>5 DEF Next

\* The inductive invariant holds of every reachable state.
THEOREM Inductive == Spec => []PInv
<1>1. QED
  BY InitPInv, NextPInv, PTL DEF Spec

-----------------------------------------------------------------------------
(* What the invariant says of the properties that the runs check.           *)

UnendedStates == Active \cup {"AWAITING_HUMAN", "UNKNOWN"}

LEMMA UnendedOwns ==
    ASSUME PInv, NEW i \in Intents, NEW a \in Rows(i), Row(i, a).state \in UnendedStates
    PROVE  a = Latest(i) /\ intent[i].state \notin Free \cup {"PUBLISHED"}
<1>1. a = Latest(i) /\ Fits(intent[i].state, Row(i, a).state)
  BY LiveIsLatest DEF PInv, UnendedStates, Supersedable, Active, Running
<1>2. QED
  BY <1>1 DEF Fits, UnendedStates, Active, Running, Free, Supersedable

\* One attempt at a time may act on the target, whatever is revoked, retried,
\* recovered or approved, and whichever intents succeed each other: the claims
\* and the decisions of publication.py and publication_runtime.py.
THEOREM OneAttempt == Spec => []OneAttemptAtATime
<1>1. PInv => OneAttemptAtATime
  <2> SUFFICES ASSUME PInv PROVE OneAttemptAtATime
    OBVIOUS
  <2> DEFINE unended == {r \in AllRows : Row(r[1], r[2]).state \in UnendedStates}
  <2>1. ASSUME NEW r \in unended, NEW s \in unended PROVE r = s
    <3>1. /\ r[1] \in Intents /\ r[2] \in Rows(r[1]) /\ r = <<r[1], r[2]>>
          /\ s[1] \in Intents /\ s[2] \in Rows(s[1]) /\ s = <<s[1], s[2]>>
          /\ Row(r[1], r[2]).state \in UnendedStates
          /\ Row(s[1], s[2]).state \in UnendedStates
      BY DEF AllRows
    <3>2. /\ r[2] = Latest(r[1]) /\ intent[r[1]].state \notin Free
          /\ s[2] = Latest(s[1]) /\ intent[s[1]].state \notin Free
      BY <3>1, UnendedOwns
    <3>3. r[1] = s[1]
      BY <3>1, <3>2 DEF PInv, OneOwner
    <3>4. QED
      BY <3>1, <3>2, <3>3
  <2>2. CASE unended = {}
    <3>1. Cardinality(unended) = 0
      BY <2>2, FS_EmptySet
    <3>2. QED
      BY <3>1 DEF OneAttemptAtATime, UnendedStates
  <2>3. CASE unended # {}
    <3>1. PICK r \in unended : unended = {r}
      BY <2>1, <2>3
    <3>2. Cardinality(unended) = 1
      BY <3>1, FS_Singleton
    <3>3. QED
      BY <3>2 DEF OneAttemptAtATime, UnendedStates
  <2>4. QED
    BY <2>2, <2>3
<1>2. QED
  BY <1>1, Inductive, PTL

\* What an intent says of its post is true: it says that nothing was posted
\* only when no post exists and no call is on its way, or an operator vouched
\* for that; and it is published only when the post exists and no attempt is
\* left to make another (the ends of _execute_claimed_attempt, the recovery
\* and the reconciliations).
THEOREM StatesTrue == Spec => []StatesAreTrue
<1>1. PInv => QuietMeansUnposted
  <2> SUFFICES ASSUME PInv, NEW i \in Intents,
                      intent[i].state \in {"AWAITING_APPROVAL", "READY", "FAILED", "CANCELLED"},
                      absents[i] = 0
               PROVE  posts[i] = 0 /\ \A a \in Rows(i) : <<i, a>> \notin calls
    BY DEF QuietMeansUnposted
  <2>1. ~Doubted(attempts[i])
    <3>1. ASSUME Latest(i) # 0 PROVE Row(i, Latest(i)).state \notin {"PROCESSING", "UNKNOWN"}
      <4>1. Latest(i) \in Rows(i)
        BY <3>1, RowsAre DEF PInv
      <4>2. Fits(intent[i].state, Row(i, Latest(i)).state)
        BY <4>1, LiveIsLatest DEF PInv
      <4>3. QED
        BY <4>2 DEF Fits
    <3>2. QED
      BY <3>1 DEF Doubted, Latest, Row
  <2>2. Unposted(i)
    BY <2>1, UndoubtedIsUnposted DEF PInv
  <2>3. \A a \in Rows(i) : <<i, a>>[1] = i
    OBVIOUS
  <2>4. QED
    BY <2>2, <2>3 DEF Unposted
<1>2. PInv => PublishedIsFinal
  <2> SUFFICES ASSUME PInv, NEW i \in Intents, intent[i].state = "PUBLISHED"
               PROVE  /\ posts[i] > 0
                      /\ \A j \in Intents : \A a \in Rows(j) :
                            Row(j, a).state \notin UnendedStates
    BY DEF PublishedIsFinal, UnendedStates
  <2>1. posts[i] > 0
    BY DEF PInv, Truthful, Typed
  <2>2. ASSUME NEW j \in Intents, NEW a \in Rows(j), Row(j, a).state \in UnendedStates
        PROVE  FALSE
    <3>1. intent[j].state \notin Free \cup {"PUBLISHED"}
      BY <2>2, UnendedOwns
    <3>2. QED
      BY <3>1 DEF PInv, OneOwner, Free, Supersedable
  <2>3. QED
    BY <2>1, <2>2
<1>3. QED
  BY <1>1, <1>2, Inductive, PTL DEF StatesAreTrue

-----------------------------------------------------------------------------
(* Every step of the two services is a step of ExternalEffect.              *)

Touched == {"started", "unknown"}

\* A row that changes brings no doubt to any other.
LEMMA DoubtOfRow ==
    ASSUME Typed, NEW j \in Intents, NEW a \in Rows(j), a = Latest(j), NEW r,
           attempts' = [attempts EXCEPT ![j] = [@ EXCEPT ![a] = r]],
           NEW i \in Intents, Doubted(attempts'[i]), ~Doubted(attempts[i])
    PROVE  /\ i = j /\ r.state \in {"PROCESSING", "UNKNOWN"}
           /\ r.steps[2].request \in Touched
<1>1. attempts \in [Intents -> Seq(AttemptRows)] /\ a \in DOMAIN attempts[j]
  BY DEF Typed, Rows
<1>2. i = j
  BY <1>1
<1>3. attempts'[j][a] = r /\ Len(attempts'[j]) = a
  BY <1>1 DEF Latest
<1>4. QED
  BY <1>2, <1>3 DEF Doubted, Touched

\* Only the start of the request that posts brings a doubt, and only under
\* authority.
Authorizes(i) == enabled /\ Latest(i) > 0 /\ Authorized(i, Latest(i))

NoNewDoubt == \A i \in Intents :
    Doubted(attempts'[i]) => Doubted(attempts[i]) \/ Authorizes(i)

\* Nothing that an operator decides begins the effect.
LEMMA DecisionsBringNoDoubt ==
    ASSUME PInv, PInv', NEW i \in Intents, Operator(i)
    PROVE  NoNewDoubt
<1>1. CASE UNCHANGED attempts
  BY <1>1 DEF NoNewDoubt
<1>2. ASSUME NEW j \in Intents, Doubted(attempts'[j])
      PROVE  intent'[j].state \in {"PROCESSING", "UNKNOWN"}
  <2>1. Typed' /\ History(target, intent[j].state, attempts[j])'
    BY DEF PInv
  <2>2. Doubted(attempts[j])'
    BY <1>2 DEF Doubted
  <2>3. Latest(j)' \in Rows(j)' /\ Row(j, Latest(j))'.state \in {"PROCESSING", "UNKNOWN"}
    BY <2>1, <2>2 DEF Typed, Doubted, Latest, Row, Rows
  <2>4. Fits(intent[j].state, Row(j, Latest(j)).state)'
    BY <2>1, <2>3 DEF History, Latest, Row, Rows, Typed
  <2>5. QED
    BY <2>3, <2>4 DEF Fits
<1>3. ASSUME Approve(i) \/ Cancel(i) \/ ReconcilePresent(i) \/ ReconcileAbsent(i)
      PROVE  /\ intent'[i].state \notin {"PROCESSING", "UNKNOWN"}
             /\ \A j \in Intents \ {i} : attempts'[j] = attempts[j]
  BY <1>3 DEF Approve, Cancel, ReconcilePresent, ReconcileAbsent, PInv, Typed
<1>4. CASE Approve(i) \/ Cancel(i) \/ ReconcilePresent(i) \/ ReconcileAbsent(i)
  BY <1>2, <1>3, <1>4 DEF NoNewDoubt
<1>5. CASE Revoke(i)
  <2>1. \A j \in Intents \ {i} : attempts'[j] = attempts[j]
    BY <1>5 DEF Revoke, PInv, Typed
  <2>2. ASSUME Doubted(attempts'[i]) PROVE Doubted(attempts[i])
    <3>1. attempts'[i] = [b \in Rows(i) |-> RevokedRow(Row(i, b))]
      BY <1>5 DEF Revoke, PInv, Typed
    <3>2. Typed /\ Rows(i) = 1..Latest(i) /\ Latest(i) \in Nat
          /\ attempts'[i] \in Seq(AttemptRows)
      BY RowsAre DEF PInv, Typed
    <3>3. Len(attempts'[i]) = Latest(i)
      BY <3>1, <3>2
    <3>4. PICK a \in Rows(i) : a = Latest(i) /\ attempts'[i][a] = RevokedRow(Row(i, a))
      BY <2>2, <3>1, <3>2, <3>3 DEF Doubted
    <3>5. RevokedRow(Row(i, a)).state \in {"PROCESSING", "UNKNOWN"}
      BY <2>2, <3>3, <3>4 DEF Doubted
    <3>6. /\ Row(i, a) \in AttemptRows /\ RowOK(target, Row(i, a))
          /\ target \in {"X", "PATREON"} /\ Row(i, a).state # "UNKNOWN"
      BY <1>5, <3>4, RowsAre, LiveIsLatest DEF PInv, Typed, Revoke
    <3>7. Row(i, a).state = "PROCESSING" /\ ~Clean(Row(i, a).steps[2])
      <4>1. CASE Row(i, a).state \in Active
        BY <3>5, <3>6, <4>1, RevokedIs
      <4>2. CASE Row(i, a).state \notin Active
        BY <3>5, <3>6, <4>2 DEF RevokedRow, Active, Running
      <4>3. QED
        BY <4>1, <4>2
    <3>8. Row(i, a).steps[2].request = "started"
      BY <3>6, <3>7 DEF RowOK, Unbegun
    <3>9. QED
      BY <3>2, <3>4, <3>7, <3>8 DEF Doubted, Latest, Row
  <2>3. QED
    BY <2>1, <2>2 DEF NoNewDoubt
<1>6. QED
  BY <1>1, <1>4, <1>5 DEF Operator, PlanIntent, Download, PostByHand

\* What a controller writes under its lease brings no doubt, unless it starts
\* the request that posts.
LEMMA ControllersBringNoDoubt ==
    ASSUME PInv, NEW w \in Workers, Cycle(w)
    PROVE  NoNewDoubt
<1> SUFFICES ASSUME NEW j \in Intents, Doubted(attempts'[j]), ~Doubted(attempts[j])
             PROVE  Authorizes(j)
  BY DEF NoNewDoubt
<1>t. Typed
  BY DEF PInv
<1>1. CASE UNCHANGED attempts
  BY <1>1
<1>2. ASSUME NEW i \in Intents, NEW a \in Rows(i), Row(i, a).state \in Running,
             NEW s \in {"FAILED", "RETRY_WAIT", "CANCELLED", "AWAITING_HUMAN", "SUCCEEDED"},
             NEW st, NEW k, NEW step, Writes(i, a, s, st, k, step)
      PROVE  FALSE
  <2>1. a = Latest(i) /\ Row(i, a) \in AttemptRows
    BY <1>2, RunningIs
  <2>2. PICK r : r = Written(i, a, s, k, step)
    OBVIOUS
  <2>3. attempts' = [attempts EXCEPT ![i] = [@ EXCEPT ![a] = r]] /\ r.state = s
    BY <1>2, <2>1, <2>2 DEF Writes, Written, Row, AttemptRows
  <2>4. QED
    BY <1>t, <2>1, <2>3, DoubtOfRow
<1>3. ASSUME NEW i \in Intents, NEW a \in Rows(i), Row(i, a).state \in Running,
             Row(i, a).steps[2].request = "started",
             NEW step, Writes(i, a, "UNKNOWN", "UNKNOWN", 2, step)
      PROVE  FALSE
  <2>1. a = Latest(i) /\ RowOK(target, Row(i, a)) /\ Latest(i) # 0
    BY <1>3, RunningIs, RowsAre DEF PInv
  <2>2. Row(i, a).state = "PROCESSING"
    BY <1>3, <2>1 DEF RowOK, Running, Unbegun, Clean
  <2>3. Doubted(attempts[i])
    BY <1>3, <2>1, <2>2 DEF Doubted, Latest, Row
  <2>4. i = j
    BY <1>t, <1>3, <2>1 DEF Writes, Typed
  <2>5. QED
    BY <2>3, <2>4
<1>4. CASE Recover(w)
  <2>1. PICK i \in Intents, a \in Nat :
           /\ a \in Rows(i) /\ Expired(i, a)
           /\ IF Under(i, a) = {} THEN RecoverBare(i, a)
              ELSE \E k \in Under(i, a) :
                     /\ \A n \in Under(i, a) : k <= n
                     /\ RecoverStep(i, a, k)
    BY <1>4, RowsAre DEF Recover, PInv
  <2>2. Row(i, a).state \in Running /\ a = Latest(i) /\ Row(i, a) \in AttemptRows
    BY <2>1, RunningIs DEF Expired
  <2>3. CASE RecoverBare(i, a)
    <3>1. PICK s \in {"FAILED", "RETRY_WAIT"} :
             s = IF Row(i, a).claims >= MaxClaims THEN "FAILED" ELSE "RETRY_WAIT"
      OBVIOUS
    <3>2. PICK r : r = [Row(i, a) EXCEPT !.state = s, !.owner = Nobody, !.live = FALSE]
      OBVIOUS
    <3>3. attempts' = [attempts EXCEPT ![i] = [@ EXCEPT ![a] = r]] /\ r.state = s
      BY <2>2, <2>3, <3>1, <3>2 DEF RecoverBare, Row, AttemptRows
    <3>4. QED
      BY <1>t, <2>1, <2>2, <3>3, DoubtOfRow
  <2>4. CASE \E k \in Under(i, a) : RecoverStep(i, a, k)
    <3>1. PICK k \in Under(i, a) : RecoverStep(i, a, k)
      BY <2>4
    <3>2. k \in 1..2 /\ Step(i, a, k) = Row(i, a).steps[k]
          /\ Kinds[1] \notin Irreversible
      BY KindsAre DEF Under, Step, Row, PInv, Typed
    <3>3. CASE InDoubt(k, Step(i, a, k))
      <4>1. k = 2 /\ Row(i, a).steps[2].request = "started"
        BY <3>2, <3>3 DEF InDoubt
      <4>2. \E step : Writes(i, a, "UNKNOWN", "UNKNOWN", 2, step)
        BY <3>1, <3>3, <4>1 DEF RecoverStep
      <4>3. QED
        BY <1>3, <2>1, <2>2, <4>1, <4>2
    <3>4. CASE ~InDoubt(k, Step(i, a, k))
      <4>1. \E s \in {"FAILED", "RETRY_WAIT"}, st \in {"FAILED", intent[i].state} :
               \E step : Writes(i, a, s, st, k, step)
        BY <3>1, <3>4 DEF RecoverStep
      <4>2. QED
        BY <1>2, <2>1, <2>2, <4>1
    <3>5. QED
      BY <3>3, <3>4
  <2>5. QED
    BY <2>1, <2>3, <2>4
<1>5. CASE Claim(w)
  <2>1. PICK i \in Intents, a \in Nat :
           /\ a \in Rows(i) /\ Row(i, a).state \in {"QUEUED", "RETRY_WAIT"}
           /\ \/ attempts' = [attempts EXCEPT ![i][a].state = "FAILED"]
              \/ attempts' = [attempts EXCEPT ![i][a] =
                    [@ EXCEPT !.state = "CLAIMED", !.claims = Row(i, a).claims + 1,
                              !.owner = w, !.live = TRUE]]
    BY <1>5, RowsAre DEF Claim, PInv
  <2>2. a = Latest(i) /\ Row(i, a) \in AttemptRows
    BY <2>1, WaitingIs
  <2>3. PICK r : /\ attempts' = [attempts EXCEPT ![i] = [@ EXCEPT ![a] = r]]
                 /\ r.state \in {"FAILED", "CLAIMED"}
    <3>1. CASE attempts' = [attempts EXCEPT ![i][a].state = "FAILED"]
      <4>1. PICK r : r = [Row(i, a) EXCEPT !.state = "FAILED"]
        OBVIOUS
      <4>2. r.state = "FAILED"
        BY <2>2, <4>1 DEF AttemptRows
      <4>3. attempts' = [attempts EXCEPT ![i] = [@ EXCEPT ![a] = r]]
        BY <3>1, <4>1 DEF Row
      <4>4. QED
        BY <4>2, <4>3
    <3>2. CASE attempts' = [attempts EXCEPT ![i][a] =
                  [@ EXCEPT !.state = "CLAIMED", !.claims = Row(i, a).claims + 1,
                            !.owner = w, !.live = TRUE]]
      <4>1. PICK r : r = [Row(i, a) EXCEPT !.state = "CLAIMED",
                            !.claims = Row(i, a).claims + 1, !.owner = w, !.live = TRUE]
        OBVIOUS
      <4>2. r.state = "CLAIMED"
        BY <2>2, <4>1 DEF AttemptRows
      <4>3. attempts' = [attempts EXCEPT ![i] = [@ EXCEPT ![a] = r]]
        BY <3>2, <4>1 DEF Row
      <4>4. QED
        BY <4>2, <4>3
    <3>3. QED
      BY <2>1, <3>1, <3>2
  <2>4. QED
    BY <1>t, <2>1, <2>2, <2>3, DoubtOfRow
<1>6. CASE BeginEffect(w) /\ ~UNCHANGED attempts
  <2>1. pc[w].at = "step"
    BY <1>6 DEF BeginEffect, At
  <2>2. PICK i \in Intents, a \in Nat, k \in 1..2 :
           a \in Rows(i) /\ pc[w].i = i /\ pc[w].a = a /\ pc[w].k = k
    BY <2>1, Holding, RowsAre DEF PInv
  <2>3. /\ Leased(w, i, a)
        /\ attempts' = [attempts EXCEPT ![i][a] =
              [@ EXCEPT !.state = "PROCESSING", !.steps[k].state = "PROCESSING"]]
    BY <1>6, <2>2 DEF BeginEffect
  <2>4. /\ Row(i, a) \in AttemptRows /\ a = Latest(i)
        /\ Clean(Row(i, a).steps[2])
    BY <2>1, <2>2, <2>3, Holding DEF Phase, Between, Unbegun
  <2>5. PICK r : r = [Row(i, a) EXCEPT !.state = "PROCESSING", !.steps[k].state = "PROCESSING"]
    OBVIOUS
  <2>6. r.steps[2].request = Row(i, a).steps[2].request
    BY <2>4, <2>5 DEF AttemptRows, StepRows
  <2>7. attempts' = [attempts EXCEPT ![i] = [@ EXCEPT ![a] = r]]
    BY <2>3, <2>5 DEF Row
  <2>8. QED
    BY <1>t, <2>2, <2>4, <2>6, <2>7, DoubtOfRow DEF Clean, Touched
<1>7. CASE StartRequest(w) /\ ~UNCHANGED attempts
  <2>1. pc[w].at = "begun"
    BY <1>7 DEF StartRequest, At
  <2>2. PICK i \in Intents, a \in Nat, k \in 1..2 :
           a \in Rows(i) /\ pc[w].i = i /\ pc[w].a = a /\ pc[w].k = k
    BY <2>1, Holding, RowsAre DEF PInv
  <2>3. /\ Leased(w, i, a) /\ enabled /\ Authorized(i, a)
        /\ attempts' = [attempts EXCEPT ![i][a].steps[k].request = "started"]
    BY <1>7, <2>2 DEF StartRequest
  <2>4. a = Latest(i) /\ Latest(i) > 0
    BY <2>1, <2>2, <2>3, Holding, RowsAre DEF PInv
  <2>5. i = j
    BY <1>t, <2>3 DEF Typed
  <2>6. QED
    BY <2>3, <2>4, <2>5 DEF Authorizes
<1>8. CASE Settle(w) /\ ~UNCHANGED attempts
  <2>1. pc[w].at = "settle"
    BY <1>8 DEF Settle, At
  <2>2. PICK i \in Intents, a \in Nat, k \in 1..2 :
           a \in Rows(i) /\ pc[w].i = i /\ pc[w].a = a /\ pc[w].k = k
    BY <2>1, Holding, RowsAre DEF PInv
  <2>3. /\ Leased(w, i, a)
        /\ Close(w, i, a, k, Step(i, a, k)) \/ Advance(w, i, a, k, Step(i, a, k))
    BY <1>8, <2>2 DEF Settle
  <2>4. /\ Row(i, a).state \in Running /\ Settled(pc[w], Row(i, a)) /\ a = Latest(i)
        /\ Row(i, a) \in AttemptRows
    BY <2>1, <2>2, <2>3, Settling, RunningIs
  <2>5. CASE Close(w, i, a, k, Step(i, a, k)) /\ pc[w].verdict # "unknown"
    <3>1. \E s \in {"FAILED", "RETRY_WAIT", "CANCELLED", "AWAITING_HUMAN", "SUCCEEDED"} :
             \E st, step : Writes(i, a, s, st, k, step)
      BY <2>5 DEF Close, ScheduleRetry
    <3>2. QED
      BY <1>2, <2>2, <2>4, <3>1
  <2>6. CASE Close(w, i, a, k, Step(i, a, k)) /\ pc[w].verdict = "unknown"
    <3>1. /\ k = 2 /\ pc[w].request \in BOOLEAN
          /\ pc[w].request => Row(i, a).steps[2].request = "started"
          /\ ~pc[w].request => Clean(Row(i, a).steps[2])
      BY <2>1, <2>2, <2>3, <2>4, <2>6, Settling DEF Settled
    <3>2. PICK c : /\ c = Completed(w, Step(i, a, 2), "unknown")
                   /\ Writes(i, a, "UNKNOWN", "UNKNOWN", 2, [c EXCEPT !.state = "UNKNOWN"])
      BY <2>6, <3>1 DEF Close
    <3>3. CASE pc[w].request
      BY <1>3, <2>2, <2>4, <3>1, <3>2, <3>3
    <3>4. CASE ~pc[w].request
      <4>1. c = Row(i, a).steps[2] /\ c \in StepRows
        BY <2>4, <3>2, <3>4 DEF Completed, Step, Row, AttemptRows
      <4>2. PICK r : r = Written(i, a, "UNKNOWN", 2, [c EXCEPT !.state = "UNKNOWN"])
        OBVIOUS
      <4>3. r.steps[2].request = c.request
        BY <2>4, <4>1, <4>2 DEF Written, AttemptRows, StepRows
      <4>4. attempts' = [attempts EXCEPT ![i] = [@ EXCEPT ![a] = r]]
        BY <3>2, <4>2 DEF Writes, Written, Row
      <4>5. r.steps[2].request \notin Touched
        BY <3>1, <3>4, <4>1, <4>3 DEF Clean, Touched
      <4>6. QED
        BY <1>t, <2>2, <2>4, <4>4, <4>5, DoubtOfRow
    <3>5. QED
      BY <3>1, <3>3, <3>4
  <2>7. CASE Advance(w, i, a, k, Step(i, a, k))
    <3>1. k = 1 /\ Clean(Row(i, a).steps[2])
      BY <2>2, <2>4, <2>7 DEF Advance, Settled, Unbegun
    <3>2. PICK step : attempts' = [attempts EXCEPT ![i][a].steps[k] = step]
      BY <2>7 DEF Advance
    <3>3. PICK r : r = [Row(i, a) EXCEPT !.steps[k] = step]
      OBVIOUS
    <3>4. r.steps[2].request \notin Touched
      BY <2>4, <3>1, <3>3 DEF AttemptRows, Clean, Touched
    <3>5. attempts' = [attempts EXCEPT ![i] = [@ EXCEPT ![a] = r]]
      BY <3>2, <3>3 DEF Row
    <3>6. a \in Rows(i) /\ a = Latest(i)
      BY <2>2, <2>4
    <3>7. QED
      BY <1>t, <3>4, <3>5, <3>6, DoubtOfRow
  <2>8. QED
    BY <2>3, <2>5, <2>6, <2>7
<1>9. QED
  BY <1>1, <1>4, <1>5, <1>6, <1>7, <1>8
  DEF Cycle, Snapshot, InputRefused, NoRequest, BuildPackage, HandOver,
      UploadAnswered, PostCreated, PostRefused, PostUncertain

LEMMA LeasesBringNoDoubt ==
    ASSUME PInv, NEW i \in Intents, LeaseExpires(i)
    PROVE  NoNewDoubt
<1> SUFFICES ASSUME NEW j \in Intents, Doubted(attempts'[j]), ~Doubted(attempts[j])
             PROVE  FALSE
  BY DEF NoNewDoubt
<1>1. PICK a, r :
         /\ a \in Rows(i) /\ Row(i, a).state \in Running
         /\ r = [Row(i, a) EXCEPT !.live = FALSE]
         /\ attempts' = [attempts EXCEPT ![i] = [@ EXCEPT ![a] = r]]
  BY DEF LeaseExpires, Row
<1>2. a = Latest(i) /\ Row(i, a) \in AttemptRows /\ Latest(i) # 0
  BY <1>1, RunningIs, RowsAre DEF PInv
<1>3. r.state = Row(i, a).state /\ r.steps = Row(i, a).steps
  BY <1>1, <1>2 DEF AttemptRows
<1>4. a \in Rows(i) /\ Typed
  BY <1>1 DEF PInv
<1>5. attempts' = [attempts EXCEPT ![i] = [@ EXCEPT ![a] = r]]
  BY <1>1
<1>6. /\ i = j /\ r.state \in {"PROCESSING", "UNKNOWN"}
      /\ r.steps[2].request \in Touched
  BY <1>2, <1>4, <1>5, DoubtOfRow
<1>7. Doubted(attempts[i])
  BY <1>2, <1>3, <1>6 DEF Doubted, Latest, Row, Touched
<1>8. QED
  BY <1>6, <1>7

LEMMA StepsBringNoDoubt ==
    ASSUME PInv, PInv', [Next]_vars
    PROVE  NoNewDoubt
<1>1. CASE UNCHANGED attempts
  BY <1>1 DEF NoNewDoubt
<1>2. CASE \E i \in Intents : Operator(i)
  BY <1>2, DecisionsBringNoDoubt
<1>3. CASE \E i \in Intents : LeaseExpires(i)
  BY <1>3, LeasesBringNoDoubt
<1>4. CASE \E w \in Workers : Cycle(w)
  BY <1>4, ControllersBringNoDoubt
<1>5. QED
  BY <1>1, <1>2, <1>3, <1>4
  DEF Next, vars, ApprovalExpires, Land, Crash, SetGuard, ReleaseSuperseded

\* A published intent stays published, and one that was handed over to a
\* person leaves that person only as published.
LEMMA HandedOverStays ==
    ASSUME PInv, [Next]_vars, NEW j \in Intents, intent[j].state \in {"PUBLISHED", "AWAITING_HUMAN"}
    PROVE  intent'[j].state \in {intent[j].state, "PUBLISHED"}
<1>1. intent \in [Intents -> IntentRows]
  BY DEF PInv, Typed
<1>2. CASE UNCHANGED intent
  BY <1>2
<1>3. ASSUME NEW i \in Intents, intent[i].state \notin {"PUBLISHED", "AWAITING_HUMAN"},
             \A k \in Intents \ {i} : intent'[k] = intent[k]
      PROVE  intent'[j].state \in {intent[j].state, "PUBLISHED"}
  BY <1>3
<1>4. CASE \E i \in Intents : Operator(i)
  <2>1. PICK i \in Intents : Operator(i)
    BY <1>4
  <2>2. CASE PlanIntent(i) \/ Approve(i) \/ Revoke(i) \/ Cancel(i) \/ ReconcileAbsent(i)
    <3>1. intent[i].state \notin {"PUBLISHED", "AWAITING_HUMAN"}
      BY <2>2 DEF PlanIntent, Approve, Revoke, Cancel, Cancellable, ReconcileAbsent
    <3>2. \A k \in Intents \ {i} : intent'[k] = intent[k]
      BY <1>1, <2>2 DEF PlanIntent, Approve, Revoke, Cancel, ReconcileAbsent
    <3>3. QED
      BY <1>3, <3>1, <3>2
  <2>3. CASE ReconcilePresent(i)
    BY <1>1, <2>3 DEF ReconcilePresent
  <2>4. QED
    BY <1>2, <2>1, <2>2, <2>3 DEF Operator, Download, PostByHand
<1>5. CASE \E w \in Workers : Cycle(w)
  <2>1. PICK w \in Workers : Cycle(w)
    BY <1>5
  <2>2. CASE Recover(w)
    <3>1. PICK i \in Intents, a \in Nat :
             /\ a \in Rows(i) /\ Expired(i, a)
             /\ RecoverBare(i, a) \/ \E k \in Under(i, a) : RecoverStep(i, a, k)
      BY <2>2, RowsAre DEF Recover, PInv
    <3>2. intent[i].state \notin {"PUBLISHED", "AWAITING_HUMAN"}
      BY <3>1, RunningIs DEF Expired
    <3>3. \A k \in Intents \ {i} : intent'[k] = intent[k]
      BY <1>1, <3>1 DEF RecoverBare, RecoverStep, Writes
    <3>4. QED
      BY <1>3, <3>2, <3>3
  <2>3. CASE Claim(w)
    <3>1. PICK i \in Intents, a \in Nat :
             /\ a \in Rows(i) /\ Row(i, a).state \in {"QUEUED", "RETRY_WAIT"}
             /\ intent' = [intent EXCEPT ![i].state = "FAILED"] \/ intent' = intent
      BY <2>3, RowsAre DEF Claim, PInv
    <3>2. intent[i].state \notin {"PUBLISHED", "AWAITING_HUMAN"}
      BY <3>1, WaitingIs
    <3>3. \A k \in Intents \ {i} : intent'[k] = intent[k]
      BY <1>1, <3>1
    <3>4. QED
      BY <1>3, <3>2, <3>3
  <2>4. CASE (BeginEffect(w) \/ Settle(w)) /\ ~UNCHANGED intent
    <3>1. PICK i \in Intents : i = pc[w].i /\ pc[w].at # "idle"
      BY <2>4, Holding DEF BeginEffect, Settle, At
    <3>2. Leased(w, i, pc[w].a)
      BY <2>4, <3>1 DEF BeginEffect, Settle
    <3>3. intent[i].state \notin {"PUBLISHED", "AWAITING_HUMAN"}
      BY <3>1, <3>2, Holding
    <3>4. \A k \in Intents \ {i} : intent'[k] = intent[k]
      BY <1>1, <2>4, <3>1
      DEF BeginEffect, Settle, Close, ScheduleRetry, Advance, Writes
    <3>5. QED
      BY <1>3, <3>3, <3>4
  <2>5. QED
    BY <1>2, <2>1, <2>2, <2>3, <2>4
    DEF Cycle, Snapshot, InputRefused, NoRequest, BuildPackage, HandOver,
        StartRequest, UploadAnswered, PostCreated, PostRefused, PostUncertain
<1>6. QED
  BY <1>2, <1>4, <1>5
  DEF Next, vars, ApprovalExpires, LeaseExpires, Land, Crash, SetGuard, ReleaseSuperseded

LEMMA PublishedStays ==
    ASSUME PInv, [Next]_vars, NEW j \in Intents, intent[j].state = "PUBLISHED"
    PROVE  intent'[j].state = "PUBLISHED"
BY HandedOverStays

\* While nothing is published, the steps in doubt are the doubted attempts.
LEMMA InDoubtIs ==
    ASSUME PInv, \A i \in Intents : intent[i].state # "PUBLISHED"
    PROVE  (\E i \in Intents : \E a \in Rows(i) : StepInDoubt(Step(i, a, 2)))
              <=> \E i \in Intents : Doubted(attempts[i])
<1>1. ASSUME NEW i \in Intents, NEW a \in Rows(i), StepInDoubt(Step(i, a, 2))
      PROVE  Doubted(attempts[i])
  <2>1. /\ Row(i, a) \in AttemptRows /\ RowOK(target, Row(i, a))
        /\ Row(i, a).state \in AttemptStates
        /\ Row(i, a).state \notin Supersedable =>
              a = Latest(i) /\ Fits(intent[i].state, Row(i, a).state)
    BY RowsAre, LiveIsLatest DEF PInv, AttemptRows
  <2>2. StepInDoubt(Row(i, a).steps[2])
    BY <1>1 DEF Step, Row
  <2>3. Row(i, a).state \notin {"QUEUED", "RETRY_WAIT", "CLAIMED", "AWAITING_HUMAN"}
        /\ Row(i, a).state \notin Supersedable
    BY <2>1, <2>2 DEF RowOK, StepInDoubt, Unbegun, Clean
  <2>4. Row(i, a).state \in {"PROCESSING", "UNKNOWN"} /\ a = Latest(i)
    BY <2>1, <2>3 DEF AttemptStates, Active, Running, Supersedable, Fits
  <2>5. Row(i, a).steps[2].request \in {"started", "unknown"}
    BY <2>1, <2>2, <2>4 DEF RowOK, StepInDoubt, Unbegun, Clean
  <2>6. Latest(i) # 0
    BY <2>4, RowsAre DEF PInv
  <2>7. QED
    BY <2>4, <2>5, <2>6 DEF Doubted, Latest, Row
<1>2. ASSUME NEW i \in Intents, Doubted(attempts[i])
      PROVE  \E a \in Rows(i) : StepInDoubt(Step(i, a, 2))
  <2>1. PICK a \in Nat : a = Latest(i) /\ a \in Rows(i)
    BY <1>2, RowsAre DEF Doubted, Latest, PInv
  <2>2. /\ Row(i, a).state \in {"PROCESSING", "UNKNOWN"}
        /\ Row(i, a).steps[2].request \in {"started", "unknown"}
    BY <1>2, <2>1 DEF Doubted, Latest, Row
  <2>3. RowOK(target, Row(i, a))
    BY <2>1, LiveIsLatest DEF PInv
  <2>4. StepInDoubt(Row(i, a).steps[2])
    BY <2>2, <2>3 DEF RowOK, StepInDoubt, Unbegun, Clean
  <2>5. QED
    BY <2>1, <2>4 DEF Step, Row
<1>3. QED
  BY <1>1, <1>2

\* The two variables of ExternalEffect.
Auth == enabled /\ \E i \in Intents : Latest(i) > 0 /\ Authorized(i, Latest(i))
Eff == IF \E i \in Intents : intent[i].state = "PUBLISHED" THEN "done"
       ELSE IF \E i \in Intents : \E a \in Rows(i) : StepInDoubt(Step(i, a, 2))
       THEN "inDoubt" ELSE "clear"

EffectStep ==
    \/ Eff' = Eff
    \/ Auth /\ Eff = "clear" /\ Eff' = "inDoubt"
    \/ Eff = "inDoubt" /\ Eff' = "clear"
    \/ Eff # "done" /\ Eff' = "done"

\* The effect as the attempts tell it.
Told == IF \E i \in Intents : intent[i].state = "PUBLISHED" THEN "done"
        ELSE IF \E i \in Intents : Doubted(attempts[i]) THEN "inDoubt" ELSE "clear"

LEMMA EffIs == PInv => Eff = Told
<1> SUFFICES ASSUME PInv PROVE Eff = Told
  OBVIOUS
<1>1. CASE \E i \in Intents : intent[i].state = "PUBLISHED"
  BY <1>1 DEF Eff, Told
<1>2. CASE \A i \in Intents : intent[i].state # "PUBLISHED"
  <2>1. (\E i \in Intents : \E a \in Rows(i) : StepInDoubt(Step(i, a, 2)))
           <=> \E i \in Intents : Doubted(attempts[i])
    BY <1>2, InDoubtIs
  <2>2. QED
    BY <1>2, <2>1 DEF Eff, Told
<1>3. QED
  BY <1>1, <1>2

LEMMA EffectsStep ==
    ASSUME PInv, PInv', [Next]_vars
    PROVE  EffectStep
<1>1. (Eff = Told) /\ (Eff = Told)'
  BY EffIs, PTL
<1>2. CASE \E i \in Intents : intent[i].state = "PUBLISHED"
  <2>1. \E i \in Intents : intent'[i].state = "PUBLISHED"
    BY <1>2, PublishedStays
  <2>2. QED
    BY <1>1, <1>2, <2>1 DEF EffectStep, Told
<1>3. CASE /\ \A i \in Intents : intent[i].state # "PUBLISHED"
           /\ \E i \in Intents : Doubted(attempts[i])
  BY <1>1, <1>3 DEF EffectStep, Told
<1>4. CASE /\ \A i \in Intents : intent[i].state # "PUBLISHED"
           /\ \A i \in Intents : ~Doubted(attempts[i])
  <2>1. \A i \in Intents : Doubted(attempts'[i]) => Auth
    BY <1>4, StepsBringNoDoubt DEF NoNewDoubt, Authorizes, Auth
  <2>2. QED
    BY <1>1, <1>4, <2>1 DEF EffectStep, Told, Doubted
<1>5. QED
  BY <1>2, <1>3, <1>4

\* The publication services keep the promise of ExternalEffect: the post is
\* begun only under an approval in force and an enabled guard, never while an
\* earlier try may have happened, and never once it is known to exist
\* (_begin_effect, _record_effect_request, the recovery of expired claims and
\* the reconciliations).
THEOREM PromiseKept == Spec => KeepsPromise
<1>1. Init => Effect!Init
  <2> SUFFICES ASSUME Init PROVE Effect!Init
    OBVIOUS
  <2>1. \A i \in Intents : Latest(i) = 0 /\ Rows(i) = {} /\ intent[i].state = "none"
    BY DEF Init, Latest, Rows
  <2>2. QED
    BY <2>1 DEF Effect!Init
<1>2. PInv /\ PInv' /\ [Next]_vars => [Effect!Next]_Effect!vars
  <2> SUFFICES ASSUME PInv, PInv', [Next]_vars PROVE [Effect!Next]_Effect!vars
    OBVIOUS
  <2>1. EffectStep
    BY EffectsStep
  <2>2. Auth' \in BOOLEAN
    BY DEF Auth, PInv, Typed
  <2>3. QED
    BY <2>1, <2>2
    DEF EffectStep, Auth, Eff, Effect!Next, Effect!vars, Effect!Authority,
        Effect!Begin, Effect!RuleOut, Effect!Confirm
<1>3. QED
  BY <1>1, <1>2, Inductive, PTL DEF Spec, KeepsPromise, Effect!Spec


-----------------------------------------------------------------------------
(* What a step does to the count of an intent.                              *)

LEMMA LoadIs ==
    ASSUME PInv, IsFiniteSet(calls), NEW i \in Intents
    PROVE  /\ IsFiniteSet(CallsOf(i)) /\ Cardinality(CallsOf(i)) \in Nat
           /\ posts[i] \in Nat /\ absents[i] \in Nat /\ Load(i) \in Nat
<1>1. IsFiniteSet(CallsOf(i)) /\ Cardinality(CallsOf(i)) \in Nat
  BY FS_Subset, FS_CardinalityType DEF CallsOf
<1>2. posts[i] \in Nat /\ absents[i] \in Nat
  BY DEF PInv, Typed
<1>3. QED
  BY <1>1, <1>2 DEF Load

LEMMA LoadAfter ==
    ASSUME PInv', IsFiniteSet(calls'), NEW i \in Intents
    PROVE  Load(i)' \in Nat /\ absents'[i] \in Nat
<1>1. Cardinality({c \in calls' : c[1] = i}) \in Nat
  BY FS_Subset, FS_CardinalityType
<1>2. posts'[i] \in Nat /\ absents'[i] \in Nat
  BY DEF PInv, Typed
<1>3. Load(i)' = posts'[i] + Cardinality({c \in calls' : c[1] = i})
  BY DEF Load, CallsOf
<1>4. QED
  BY <1>1, <1>2, <1>3

\* Nothing is added to the count that has not been vouched for.
Lightens(i) == Load(i)' <= Load(i) /\ absents'[i] \in {absents[i], absents[i] + 1}

\* The request that posts starts.
Commits(i) ==
    /\ Load(i)' <= Load(i) + 1 /\ absents'[i] = absents[i]
    /\ intent[i].state = "PROCESSING" /\ Row(i, Latest(i)).state = "PROCESSING"
    /\ ~Doubted(attempts[i]) /\ Doubted(attempts'[i])

\* The person who holds the package posts it.
PostsByHand(i) ==
    /\ Load(i)' = Load(i) + 1 /\ absents'[i] = absents[i]
    /\ posts[i] = 0 /\ posts'[i] # 0
    /\ intent[i].state = "AWAITING_HUMAN" /\ intent'[i].state = "AWAITING_HUMAN"

Counts == /\ IsFiniteSet(calls')
          /\ \A i \in Intents : Lightens(i) \/ Commits(i) \/ PostsByHand(i)

LEMMA LoadKept ==
    ASSUME PInv, IsFiniteSet(calls), NEW i \in Intents, posts'[i] = posts[i],
           CallsOf(i)' = CallsOf(i)
    PROVE  Load(i)' = Load(i) /\ Load(i) \in Nat
BY LoadIs DEF Load

LEMMA CallsKept ==
    ASSUME PInv, IsFiniteSet(calls), UNCHANGED <<calls, posts>>,
           \A i \in Intents : absents'[i] \in {absents[i], absents[i] + 1}
    PROVE  Counts
<1>1. ASSUME NEW i \in Intents PROVE Lightens(i)
  <2>1. Load(i)' = Load(i) /\ Load(i) \in Nat
    BY LoadKept DEF CallsOf
  <2>2. QED
    BY <2>1 DEF Lightens
<1>2. QED
  BY <1>1 DEF Counts

\* A call ends: its post is counted instead, or there is none to count.
LEMMA CallEndCounts ==
    ASSUME PInv, IsFiniteSet(calls), NEW i \in Intents, NEW a, CallEnds(i, a)
    PROVE  /\ IsFiniteSet(calls') /\ \A j \in Intents : Lightens(j)
           /\ posts' = posts => Load(i)' + 1 = Load(i)
<1>1. /\ <<i, a>> \in calls /\ calls' = calls \ {<<i, a>>}
      /\ posts' = posts \/ posts' = [posts EXCEPT ![i] = @ + 1]
      /\ UNCHANGED absents /\ posts \in [Intents -> Nat]
  BY DEF CallEnds, world, PInv, Typed
<1>2. IsFiniteSet(calls')
  BY <1>1, FS_RemoveElement
<1>3. <<i, a>>[1] = i
  OBVIOUS
<1>4. ASSUME NEW j \in Intents \ {i} PROVE Lightens(j)
  <2>1. posts'[j] = posts[j] /\ CallsOf(j)' = CallsOf(j)
    BY <1>1, <1>3 DEF CallsOf
  <2>2. Load(j)' = Load(j) /\ Load(j) \in Nat
    BY <2>1, LoadKept
  <2>3. QED
    BY <1>1, <2>2 DEF Lightens
<1>5. /\ Cardinality(CallsOf(i)') = Cardinality(CallsOf(i)) - 1
      /\ Cardinality(CallsOf(i)) \in Nat
  <2>1. <<i, a>> \in CallsOf(i) /\ CallsOf(i)' = CallsOf(i) \ {<<i, a>>}
    BY <1>1, <1>3 DEF CallsOf
  <2>2. QED
    BY <2>1, LoadIs, FS_RemoveElement
<1>6. Lightens(i) /\ (posts' = posts => Load(i)' + 1 = Load(i))
  <2>1. /\ posts'[i] \in {posts[i], posts[i] + 1} /\ posts[i] \in Nat
        /\ posts' = posts => posts'[i] = posts[i]
    BY <1>1
  <2>2. Load(i)' = posts'[i] + Cardinality(CallsOf(i)')
    BY DEF Load
  <2>3. QED
    BY <1>1, <1>5, <2>1, <2>2 DEF Lightens, Load
<1>7. QED
  BY <1>2, <1>4, <1>6

\* A request is recorded as started, and only then the provider is called.
LEMMA StartCounts ==
    ASSUME PInv, IsFiniteSet(calls), NEW w \in Workers, StartRequest(w), ~UNCHANGED calls
    PROVE  Counts
<1>1. pc[w].at = "begun"
  BY DEF StartRequest, At
<1>2. PICK i \in Intents, a \in Nat, k \in 1..2 :
         a \in Rows(i) /\ pc[w].i = i /\ pc[w].a = a /\ pc[w].k = k
  BY <1>1, Holding, RowsAre DEF PInv
<1>3. /\ Leased(w, i, a)
      /\ attempts' = [attempts EXCEPT ![i][a].steps[k].request = "started"]
      /\ calls' = IF Kinds[k] \in Irreversible THEN calls \cup {<<i, a>>} ELSE calls
      /\ UNCHANGED <<intent, posts, absents>>
  BY <1>2 DEF StartRequest, world
<1>4. /\ a = Latest(i) /\ Row(i, a) \in AttemptRows /\ InStep(pc[w], Row(i, a))
      /\ k = 2 => Clean(Row(i, a).steps[2])
  BY <1>1, <1>2, <1>3, Holding DEF Phase
<1>5. Row(i, a).state = "PROCESSING" /\ intent[i].state = "PROCESSING"
  BY <1>2, <1>4, RunningIs DEF InStep, Running
<1>6. k = 2
  BY <1>3, KindsAre DEF PInv, Typed
<1>7. calls' = calls \cup {<<i, a>>}
  BY <1>3, <1>6, KindsAre DEF PInv, Typed
<1>8. <<i, a>>[1] = i
  OBVIOUS
<1>9. ASSUME NEW j \in Intents \ {i} PROVE Lightens(j)
  <2>1. posts'[j] = posts[j] /\ CallsOf(j)' = CallsOf(j)
    BY <1>3, <1>7, <1>8 DEF CallsOf
  <2>2. Load(j)' = Load(j) /\ Load(j) \in Nat
    BY <2>1, LoadKept
  <2>3. QED
    BY <1>3, <2>2 DEF Lightens
<1>10. Load(i)' <= Load(i) + 1
  <2>1. CallsOf(i)' = CallsOf(i) \cup {<<i, a>>}
    BY <1>7, <1>8 DEF CallsOf
  <2>2. /\ Cardinality(CallsOf(i)') \in {Cardinality(CallsOf(i)), Cardinality(CallsOf(i)) + 1}
        /\ Cardinality(CallsOf(i)) \in Nat /\ posts[i] \in Nat
    BY <2>1, LoadIs, FS_AddElement
  <2>3. Load(i)' = posts[i] + Cardinality(CallsOf(i)')
    BY <1>3 DEF Load
  <2>4. QED
    BY <2>2, <2>3 DEF Load
<1>11. ~Doubted(attempts[i])
  BY <1>4, <1>6 DEF Doubted, Clean, Row, Latest
<1>12. Doubted(attempts'[i])
  <2>1. /\ attempts \in [Intents -> Seq(AttemptRows)] /\ attempts[i] \in Seq(AttemptRows)
        /\ a \in DOMAIN attempts[i] /\ a = Len(attempts[i])
    BY <1>2, <1>4 DEF PInv, Typed, Rows, Latest
  <2>2. PICK r : r = [Row(i, a) EXCEPT !.steps[k].request = "started"]
    OBVIOUS
  <2>3. r.state = "PROCESSING" /\ r.steps[2].request = "started"
    BY <1>4, <1>5, <1>6, <2>2 DEF AttemptRows, StepRows
  <2>4. attempts' = [attempts EXCEPT ![i] = [@ EXCEPT ![a] = r]]
    BY <1>3, <2>2 DEF Row
  <2>5. Len(attempts'[i]) = a /\ attempts'[i][a] = r /\ a # 0
    BY <2>1, <2>4
  <2>6. QED
    BY <2>3, <2>5 DEF Doubted
<1>13. Commits(i)
  BY <1>3, <1>4, <1>5, <1>10, <1>11, <1>12 DEF Commits
<1>14. IsFiniteSet(calls')
  BY <1>7, FS_AddElement
<1>15. QED
  BY <1>9, <1>13, <1>14 DEF Counts

LEMMA HandCounts ==
    ASSUME PInv, IsFiniteSet(calls), NEW i \in Intents, PostByHand(i)
    PROVE  Counts
<1>1. /\ posts \in [Intents -> Nat] /\ posts[i] = 0 /\ posts'[i] = 1
      /\ UNCHANGED <<calls, absents, intent>> /\ intent[i].state = "AWAITING_HUMAN"
      /\ \A j \in Intents \ {i} : posts'[j] = posts[j]
  BY DEF PostByHand, world, PInv, Typed
<1>2. \A j \in Intents : CallsOf(j)' = CallsOf(j)
  BY <1>1 DEF CallsOf
<1>3. ASSUME NEW j \in Intents \ {i} PROVE Lightens(j)
  <2>1. Load(j)' = Load(j) /\ Load(j) \in Nat
    BY <1>1, <1>2, LoadKept
  <2>2. QED
    BY <1>1, <2>1 DEF Lightens
<1>4. PostsByHand(i)
  <2>1. Load(i)' = Load(i) + 1
    <3>1. Load(i)' = posts'[i] + Cardinality(CallsOf(i))
      BY <1>2 DEF Load
    <3>2. QED
      BY <1>1, <3>1, LoadIs DEF Load
  <2>2. QED
    BY <1>1, <2>1 DEF PostsByHand
<1>5. QED
  BY <1>1, <1>3, <1>4 DEF Counts

\* A post is never taken back.
PostsStay == \A i \in Intents : posts[i] # 0 => posts'[i] # 0

LEMMA StepCounts ==
    ASSUME PInv, IsFiniteSet(calls), [Next]_vars
    PROVE  Counts /\ PostsStay
<1>1. CASE UNCHANGED <<calls, posts, absents>>
  BY <1>1, CallsKept DEF PostsStay
<1>2. ASSUME NEW i \in Intents, ReconcileAbsent(i) PROVE Counts /\ PostsStay
  <2>1. \A j \in Intents : absents'[j] \in {absents[j], absents[j] + 1}
    BY <1>2 DEF ReconcileAbsent, PInv, Typed
  <2>2. QED
    BY <1>2, <2>1, CallsKept DEF ReconcileAbsent, PostsStay
<1>3. ASSUME NEW i \in Intents, PostByHand(i) PROVE Counts /\ PostsStay
  <2>1. PostsStay
    BY <1>3 DEF PostByHand, PostsStay, PInv, Typed
  <2>2. QED
    BY <1>3, <2>1, HandCounts
<1>4. ASSUME NEW i \in Intents, NEW a, CallEnds(i, a) PROVE Counts /\ PostsStay
  <2>1. PostsStay
    BY <1>4, CallEndIs DEF PostsStay
  <2>2. QED
    BY <1>4, <2>1, CallEndCounts DEF Counts
<1>5. ASSUME NEW w \in Workers, PostCreated(w) \/ PostRefused(w)
      PROVE  Counts /\ PostsStay
  <2>1. pc[w].at = "calling"
    BY <1>5 DEF PostCreated, PostRefused, At
  <2>2. pc[w].i \in Intents /\ CallEnds(pc[w].i, pc[w].a)
    BY <1>5, <2>1, Holding DEF PostCreated, PostRefused, CallEnds
  <2>3. QED
    BY <1>4, <2>2
<1>6. ASSUME NEW w \in Workers, StartRequest(w) PROVE Counts /\ PostsStay
  BY <1>1, <1>6, StartCounts DEF StartRequest, PostsStay, world
<1>7. QED
  <2>1. CASE \E i \in Intents : Operator(i)
    BY <2>1, <1>1, <1>2, <1>3
    DEF Operator, PlanIntent, Approve, Revoke, Cancel, ReconcilePresent, Download, world
  <2>2. CASE \E w \in Workers : Cycle(w)
    BY <2>2, <1>1, <1>5, <1>6
    DEF Cycle, Recover, Claim, Snapshot, InputRefused, BeginEffect, NoRequest,
        BuildPackage, HandOver, UploadAnswered, PostUncertain, Settle, world
  <2>3. CASE \E i \in Intents : \E a \in Rows(i) : Land(i, a)
    BY <2>3, <1>4 DEF Land, CallEnds
  <2>4. QED
    BY <2>1, <2>2, <2>3, <1>1
    DEF Next, vars, ApprovalExpires, LeaseExpires, Crash, SetGuard, ReleaseSuperseded, world

-----------------------------------------------------------------------------
(* How the one post of the target is given back.                            *)

LEMMA DoubtedIs ==
    ASSUME PInv, NEW i \in Intents, Doubted(attempts[i])
    PROVE  /\ Latest(i) \in Rows(i) /\ Row(i, Latest(i)) \in AttemptRows
           /\ RowOK(target, Row(i, Latest(i)))
           /\ Row(i, Latest(i)).state \in {"PROCESSING", "UNKNOWN"}
           /\ Row(i, Latest(i)).steps[2].request \in Touched
           /\ ~Clean(Row(i, Latest(i)).steps[2])
           /\ intent[i].state = Row(i, Latest(i)).state
<1>1. /\ Latest(i) \in Rows(i)
      /\ Row(i, Latest(i)).state \in {"PROCESSING", "UNKNOWN"}
      /\ Row(i, Latest(i)).steps[2].request \in Touched
  BY RowsAre DEF PInv, Doubted, Latest, Row, Touched
<1>2. QED
  BY <1>1, RowsAre, LiveIsLatest DEF PInv, Fits, Clean, Touched

\* A row that changes ends no doubt but its own.
LEMMA DoubtOfOthers ==
    ASSUME Typed, NEW j \in Intents, NEW a \in Rows(j), a = Latest(j), NEW r,
           attempts' = [attempts EXCEPT ![j] = [@ EXCEPT ![a] = r]],
           NEW i \in Intents, Doubted(attempts[i]), ~Doubted(attempts'[i])
    PROVE  /\ i = j
           /\ r.state \in {"PROCESSING", "UNKNOWN"} => r.steps[2].request \notin Touched
<1>1. /\ attempts \in [Intents -> Seq(AttemptRows)] /\ a \in DOMAIN attempts[j]
      /\ attempts[j] \in Seq(AttemptRows)
  BY DEF Typed, Rows
<1>2. i = j
  BY <1>1
<1>3. attempts'[j][a] = r /\ Len(attempts'[j]) = a /\ a # 0
  BY <1>1 DEF Latest
<1>4. QED
  BY <1>2, <1>3 DEF Doubted, Touched

\* The operator resolves a doubt, and a revocation keeps it.
LEMMA DecisionsResolve ==
    ASSUME PInv, AInv, NEW j \in Intents, Operator(j),
           NEW i \in Intents, Doubted(attempts[i]), ~Doubted(attempts'[i])
    PROVE  intent'[i].state = "PUBLISHED" \/ VouchedFor(i)'
<1>1. /\ intent[i].state \in {"PROCESSING", "UNKNOWN"} /\ Latest(i) \in Rows(i)
      /\ Row(i, Latest(i)) \in AttemptRows /\ RowOK(target, Row(i, Latest(i)))
      /\ intent[i].state = Row(i, Latest(i)).state
      /\ ~Clean(Row(i, Latest(i)).steps[2])
  BY DoubtedIs
<1>2. /\ attempts \in [Intents -> Seq(AttemptRows)] /\ target \in {"X", "PATREON"}
      /\ intent \in [Intents -> IntentRows]
  BY DEF PInv, Typed
<1>3. CASE Approve(j) \/ Cancel(j)
  BY <1>1, <1>2, <1>3 DEF Approve, Cancel, Cancellable
<1>4. CASE Revoke(j)
  <2>1. i = j /\ attempts'[i] = [b \in Rows(i) |-> RevokedRow(Row(i, b))]
    BY <1>2, <1>4 DEF Revoke
  <2>2. Row(i, Latest(i)).state = "PROCESSING"
    BY <1>1, <1>4, <2>1 DEF Revoke
  <2>3. PICK r : r = RevokedRow(Row(i, Latest(i)))
    OBVIOUS
  <2>4. r.state = "UNKNOWN" /\ r.steps[2].request = "started"
    BY <1>1, <1>2, <2>2, <2>3, RevokedIs DEF Active, Running
  <2>5. attempts'[i][Latest(i)] = r /\ Len(attempts'[i]) = Latest(i) /\ Latest(i) # 0
    <3>1. Rows(i) = 1..Latest(i) /\ Latest(i) \in Nat
      BY RowsAre DEF PInv
    <3>2. QED
      BY <1>1, <2>1, <2>3, <3>1
  <2>6. QED
    BY <2>4, <2>5 DEF Doubted
<1>5. CASE ReconcilePresent(j)
  BY <1>2, <1>5 DEF ReconcilePresent
<1>6. CASE ReconcileAbsent(j)
  <2>1. i = j
    BY <1>2, <1>6 DEF ReconcileAbsent
  <2>2. /\ UNCHANGED <<posts, calls>> /\ absents'[i] = absents[i] + 1
    BY <1>6, <2>1 DEF ReconcileAbsent, PInv, Typed
  <2>3. Load(i)' = Load(i) /\ Load(i) \in Nat
    BY <2>2, LoadKept DEF CallsOf, AInv
  <2>4. Load(i) <= absents[i] + 1 /\ absents[i] \in Nat
    BY LoadIs DEF AInv
  <2>5. QED
    BY <2>2, <2>3, <2>4 DEF VouchedFor
<1>7. QED
  BY <1>3, <1>4, <1>5, <1>6 DEF Operator, PlanIntent, Download, PostByHand

\* An expired lease leaves the doubt to the operator.
LEMMA RecoverKeepsDoubt ==
    ASSUME PInv, NEW w \in Workers, Recover(w), NEW i \in Intents, Doubted(attempts[i])
    PROVE  Doubted(attempts'[i])
<1> SUFFICES ASSUME ~Doubted(attempts'[i]) PROVE FALSE
  OBVIOUS
<1>t. Typed /\ target \in {"X", "PATREON"}
  BY DEF PInv, Typed
<1>1. PICK j \in Intents, a \in Nat :
         /\ a \in Rows(j) /\ Expired(j, a)
         /\ IF Under(j, a) = {} THEN RecoverBare(j, a)
            ELSE \E k \in Under(j, a) : RecoverStep(j, a, k)
  BY RowsAre DEF Recover, PInv
<1>2. i = j
  BY <1>t, <1>1 DEF RecoverBare, RecoverStep, Writes, Typed
<1>3. /\ a = Latest(j) /\ Row(j, a) \in AttemptRows /\ RowOK(target, Row(j, a))
      /\ Row(j, a).state \in Running
  BY <1>1, RunningIs DEF Expired
<1>4. /\ Row(j, a).state = "PROCESSING" /\ Row(j, a).steps[1].state = "SUCCEEDED"
      /\ Row(j, a).steps[2].state = "PROCESSING"
      /\ Row(j, a).steps[2].request = "started"
  BY <1>2, <1>3, DoubtedIs DEF RowOK, Running, Unbegun
<1>5. /\ Under(j, a) = {2} /\ Kinds[2] \in Irreversible
      /\ Step(j, a, 2) = Row(j, a).steps[2] /\ Step(j, a, 2) \in StepRows
  BY <1>3, <1>4, <1>t, KindsAre DEF Under, Step, Row, AttemptRows
<1>6. RecoverStep(j, a, 2) /\ InDoubt(2, Step(j, a, 2))
  BY <1>1, <1>4, <1>5 DEF InDoubt
<1>7. PICK step : /\ step = [Step(j, a, 2) EXCEPT !.state = "UNKNOWN", !.request = "unknown"]
                  /\ Writes(j, a, "UNKNOWN", "UNKNOWN", 2, step)
  BY <1>6 DEF RecoverStep
<1>8. PICK r : r = Written(j, a, "UNKNOWN", 2, step)
  OBVIOUS
<1>9. /\ step \in StepRows /\ step.request = "unknown"
      /\ attempts' = [attempts EXCEPT ![j] = [@ EXCEPT ![a] = r]]
  BY <1>5, <1>7, <1>8 DEF StepRows, StepStates, Requests, Writes, Written, Row
<1>10. r.state = "UNKNOWN" /\ r.steps[2] = step
  BY <1>3, <1>8 DEF Written, AttemptRows
<1>11. a \in Rows(j)
  BY <1>1
<1>12. QED
  BY <1>t, <1>3, <1>9, <1>10, <1>11, DoubtOfOthers DEF Touched

\* A verdict ends the doubt of its attempt only when the post is known to
\* exist, or was ruled out.
LEMMA VerdictResolves ==
    ASSUME PInv, AInv, NEW w \in Workers, Settle(w),
           NEW i \in Intents, Doubted(attempts[i]), ~Doubted(attempts'[i])
    PROVE  intent'[i].state = "PUBLISHED" \/ VouchedFor(i)'
<1>t. Typed /\ intent \in [Intents -> IntentRows]
  BY DEF PInv, Typed
<1>1. pc[w].at = "settle"
  BY DEF Settle, At
<1>2. PICK j \in Intents, a \in Nat, k \in 1..2 :
         a \in Rows(j) /\ pc[w].i = j /\ pc[w].a = a /\ pc[w].k = k
  BY <1>1, Holding, RowsAre DEF PInv
<1>3. /\ Leased(w, j, a) /\ UNCHANGED <<posts, calls, absents>>
      /\ Close(w, j, a, k, Step(j, a, k)) \/ Advance(w, j, a, k, Step(j, a, k))
  BY <1>2 DEF Settle
<1>4. /\ Row(j, a).state \in Running /\ Settled(pc[w], Row(j, a)) /\ a = Latest(j)
      /\ Row(j, a) \in AttemptRows /\ Step(j, a, k) \in StepRows
      /\ pc[w].request \in BOOLEAN
  BY <1>1, <1>2, <1>3, Settling, RunningIs
<1>5. i = j
  BY <1>t, <1>2, <1>3 DEF Typed, Close, ScheduleRetry, Advance, Writes
<1>6. ~Clean(Row(j, a).steps[2])
  BY <1>4, <1>5, DoubtedIs
<1>7. /\ k = 2 /\ pc[w].request
      /\ pc[w].verdict \notin {"defer", "expire", "uploaded", "register"}
  BY <1>2, <1>4, <1>6 DEF Settled, Unbegun
<1>8. Close(w, j, a, k, Step(j, a, k))
  BY <1>3, <1>7 DEF Advance
<1>9. CASE pc[w].verdict = "posted"
  <2>1. \E step : Writes(j, a, "SUCCEEDED", "PUBLISHED", k, step)
    BY <1>8, <1>9 DEF Close
  <2>2. intent' = [intent EXCEPT ![j].state = "PUBLISHED"]
    BY <2>1 DEF Writes
  <2>3. QED
    BY <1>t, <1>5, <2>2 DEF IntentRows
<1>10. CASE pc[w].verdict = "unknown"
  <2>1. PICK step : /\ step = [Completed(w, Step(j, a, k), "unknown") EXCEPT !.state = "UNKNOWN"]
                    /\ Writes(j, a, "UNKNOWN", "UNKNOWN", k, step)
    BY <1>8, <1>10 DEF Close
  <2>2. PICK r : r = Written(j, a, "UNKNOWN", k, step)
    OBVIOUS
  <2>3. step.request = "unknown"
    BY <1>4, <1>7, <2>1 DEF Completed, StepRows
  <2>4. attempts' = [attempts EXCEPT ![j] = [@ EXCEPT ![a] = r]]
    BY <2>1, <2>2 DEF Writes, Written, Row
  <2>5. r.state = "UNKNOWN" /\ r.steps[2] = step
    BY <1>4, <1>7, <2>2 DEF Written, AttemptRows
  <2>6. a \in Rows(j)
    BY <1>2
  <2>7. QED
    BY <1>t, <1>4, <2>3, <2>4, <2>5, <2>6, DoubtOfOthers DEF Touched
<1>11. CASE pc[w].verdict \in {"retry", "fail", "operator"}
  <2>1. RulesOut(w)
    BY <1>1, <1>2, <1>3, <1>7, <1>11 DEF RulesOut
  <2>2. VouchedFor(i)
    BY <1>2, <1>5, <2>1 DEF AInv
  <2>3. QED
    BY <1>3, <2>2 DEF VouchedFor, Load, CallsOf
<1>12. pc[w].verdict \in Verdicts
  BY <1>1, Holding DEF Places, Idle
<1>13. QED
  BY <1>7, <1>9, <1>10, <1>11, <1>12 DEF Verdicts

\* No other step of a controller ends a doubt.
LEMMA ControllersKeepDoubt ==
    ASSUME PInv, NEW w \in Workers, Cycle(w), ~Settle(w),
           NEW i \in Intents, Doubted(attempts[i])
    PROVE  Doubted(attempts'[i])
<1> SUFFICES ASSUME ~Doubted(attempts'[i]) PROVE FALSE
  OBVIOUS
<1>t. Typed
  BY DEF PInv, Typed
<1>d. /\ Latest(i) \in Rows(i) /\ Row(i, Latest(i)).state \in {"PROCESSING", "UNKNOWN"}
      /\ ~Clean(Row(i, Latest(i)).steps[2])
      /\ Row(i, Latest(i)).steps[2].request \in Touched
  BY DoubtedIs
<1>1. CASE Claim(w)
  <2>1. PICK j \in Intents, a \in Nat :
           /\ a \in Rows(j) /\ Row(j, a).state \in {"QUEUED", "RETRY_WAIT"}
           /\ \A k \in Intents \ {j} : attempts'[k] = attempts[k]
    BY <1>t, <1>1, RowsAre DEF Claim, Typed, PInv
  <2>2. i = j
    BY <2>1
  <2>3. QED
    BY <1>d, <2>1, <2>2, WaitingIs
<1>2. CASE BeginEffect(w) /\ ~UNCHANGED attempts
  <2>1. pc[w].at = "step"
    BY <1>2 DEF BeginEffect, At
  <2>2. PICK j \in Intents, a \in Nat, k \in 1..2 :
           a \in Rows(j) /\ pc[w].i = j /\ pc[w].a = a /\ pc[w].k = k
    BY <2>1, Holding, RowsAre DEF PInv
  <2>3. Leased(w, j, a) /\ \A n \in Intents \ {j} : attempts'[n] = attempts[n]
    BY <1>t, <1>2, <2>2 DEF BeginEffect, Typed
  <2>4. a = Latest(j) /\ Clean(Row(j, a).steps[2])
    BY <2>1, <2>2, <2>3, Holding DEF Phase, Between, Unbegun
  <2>5. QED
    BY <1>d, <2>3, <2>4
<1>3. CASE StartRequest(w) /\ ~UNCHANGED attempts
  <2>1. pc[w].at = "begun"
    BY <1>3 DEF StartRequest, At
  <2>2. PICK j \in Intents, a \in Nat, k \in 1..2 :
           a \in Rows(j) /\ pc[w].i = j /\ pc[w].a = a /\ pc[w].k = k
    BY <2>1, Holding, RowsAre DEF PInv
  <2>3. /\ Leased(w, j, a) /\ \A n \in Intents \ {j} : attempts'[n] = attempts[n]
    BY <1>t, <1>3, <2>2 DEF StartRequest, Typed
  <2>4. /\ a = Latest(j) /\ Phase(pc[w], Row(j, a))
    BY <2>1, <2>2, <2>3, Holding
  <2>5. Clean(Row(j, a).steps[2])
    BY <2>1, <2>2, <2>4 DEF Phase, InStep, Unbegun
  <2>6. QED
    BY <1>d, <2>3, <2>4, <2>5
<1>4. CASE Recover(w)
  BY <1>4, RecoverKeepsDoubt
<1>5. CASE UNCHANGED attempts
  BY <1>5
<1>6. QED
  BY <1>1, <1>2, <1>3, <1>4, <1>5
  DEF Cycle, Snapshot, InputRefused, NoRequest, BuildPackage, HandOver,
      UploadAnswered, PostCreated, PostRefused, PostUncertain

LEMMA LeasesKeepDoubt ==
    ASSUME PInv, NEW j \in Intents, LeaseExpires(j), NEW i \in Intents, Doubted(attempts[i])
    PROVE  Doubted(attempts'[i])
<1> SUFFICES ASSUME ~Doubted(attempts'[i]) PROVE FALSE
  OBVIOUS
<1>1. PICK a, r :
         /\ a \in Rows(j) /\ Row(j, a).state \in Running
         /\ r = [Row(j, a) EXCEPT !.live = FALSE]
         /\ attempts' = [attempts EXCEPT ![j] = [@ EXCEPT ![a] = r]]
  BY DEF LeaseExpires, Row
<1>2. a \in Rows(j) /\ a = Latest(j) /\ Row(j, a) \in AttemptRows /\ Typed
  BY <1>1, RunningIs DEF PInv
<1>3. r.state = Row(j, a).state /\ r.steps = Row(j, a).steps
  BY <1>1, <1>2 DEF AttemptRows
<1>4. attempts' = [attempts EXCEPT ![j] = [@ EXCEPT ![a] = r]]
  BY <1>1
<1>5. i = j /\ (r.state \in {"PROCESSING", "UNKNOWN"} => r.steps[2].request \notin Touched)
  BY <1>2, <1>4, DoubtOfOthers
<1>6. QED
  BY <1>2, <1>3, <1>5, DoubtedIs

\* The post of the target is given back only when it was vouched for.
LEMMA SpendingEnds ==
    ASSUME PInv, AInv, [Next]_vars, NEW i \in Intents, Spends(i)
    PROVE  Spends(i)' \/ VouchedFor(i)'
<1>1. CASE intent[i].state \in {"PUBLISHED", "AWAITING_HUMAN"} /\ ~Doubted(attempts[i])
  <2>1. intent'[i].state \in {intent[i].state, "PUBLISHED"}
    BY <1>1, HandedOverStays
  <2>2. posts[i] # 0 => posts'[i] # 0
    BY StepCounts DEF AInv, PostsStay
  <2>3. QED
    BY <1>1, <2>1, <2>2 DEF Spends
<1>2. CASE Doubted(attempts[i]) /\ ~Doubted(attempts'[i])
  <2>1. intent'[i].state = "PUBLISHED" \/ VouchedFor(i)'
    <3>1. CASE UNCHANGED attempts
      BY <1>2, <3>1
    <3>2. CASE \E j \in Intents : Operator(j)
      BY <1>2, <3>2, DecisionsResolve
    <3>3. CASE \E w \in Workers : Cycle(w)
      BY <1>2, <3>3, ControllersKeepDoubt, VerdictResolves
    <3>4. CASE \E j \in Intents : LeaseExpires(j)
      BY <1>2, <3>4, LeasesKeepDoubt
    <3>5. QED
      BY <3>1, <3>2, <3>3, <3>4
      DEF Next, vars, ApprovalExpires, Land, Crash, SetGuard, ReleaseSuperseded
  <2>2. QED
    BY <2>1 DEF Spends
<1>3. QED
  BY <1>1, <1>2 DEF Spends

-----------------------------------------------------------------------------
(* Who may rule out a post.                                                 *)

\* A row that changes gives its lease to nobody who does not have it.
LEMMA LeaseOfRow ==
    ASSUME Typed, NEW j \in Intents, NEW a \in Rows(j), NEW r,
           attempts' = [attempts EXCEPT ![j] = [@ EXCEPT ![a] = r]],
           \/ r.state \notin Running
           \/ r.owner = Row(j, a).owner /\ Row(j, a).state \in Running,
           NEW w, NEW i \in Intents, NEW b \in Rows(i), Leased(w, i, b)'
    PROVE  Leased(w, i, b)
<1>1. /\ attempts \in [Intents -> Seq(AttemptRows)] /\ attempts[j] \in Seq(AttemptRows)
      /\ a \in DOMAIN attempts[j]
  BY DEF Typed, Rows
<1>2. Row(i, b)' = IF i = j /\ b = a THEN r ELSE Row(i, b)
  BY <1>1 DEF Rows, Row
<1>3. QED
  BY <1>2 DEF Leased

\* Only a claim gives a lease, and it sends its controller to a new attempt.
LEMMA LeaseTaken ==
    ASSUME PInv, [Next]_vars, NEW w \in Workers, pc'[w] = pc[w], pc[w].at # "idle",
           NEW i \in Intents, NEW b \in Rows(i), Leased(w, i, b)'
    PROVE  Leased(w, i, b)
<1>t. Typed /\ attempts \in [Intents -> Seq(AttemptRows)] /\ pc \in [Workers -> Places]
  BY DEF PInv, Typed
<1>1. CASE UNCHANGED attempts
  BY <1>1 DEF Leased, Row
<1>2. ASSUME NEW j \in Intents, NEW a \in Rows(j), Row(j, a) \in AttemptRows,
             NEW s \in AttemptStates \ Running, NEW st, NEW k, NEW step,
             Writes(j, a, s, st, k, step)
      PROVE  Leased(w, i, b)
  <2>1. PICK r : r = Written(j, a, s, k, step)
    OBVIOUS
  <2>2. attempts' = [attempts EXCEPT ![j] = [@ EXCEPT ![a] = r]] /\ r.state = s
    BY <1>2, <2>1 DEF Writes, Written, Row, AttemptRows
  <2>3. QED
    BY <1>t, <2>2, LeaseOfRow
<1>3. ASSUME NEW j \in Intents, NEW a \in Rows(j), NEW r,
             attempts' = [attempts EXCEPT ![j] = [@ EXCEPT ![a] = r]],
             \/ r.state \notin Running
             \/ r.owner = Row(j, a).owner /\ Row(j, a).state \in Running
      PROVE  Leased(w, i, b)
  BY <1>t, <1>3, LeaseOfRow
<1>4. ASSUME NEW j \in Intents, Operator(j) PROVE Leased(w, i, b)
  <2>1. ASSUME \A n \in Intents \ {j} : attempts'[n] = attempts[n],
               \A a \in Rows(j) : \/ Row(j, a)' = Row(j, a)
                                  \/ Row(j, a)'.state \notin Running
        PROVE  Leased(w, i, b)
    BY <2>1 DEF Leased, Row
  <2>2. CASE Approve(j)
    <3>1. attempts'[j] = Append(attempts[j], NewAttempt(j))
          /\ \A n \in Intents \ {j} : attempts'[n] = attempts[n]
      BY <1>t, <2>2 DEF Approve
    <3>2. \A a \in Rows(j) : Row(j, a)' = Row(j, a)
      BY <1>t, <3>1 DEF Rows, Row
    <3>3. QED
      BY <2>1, <3>1, <3>2
  <2>3. CASE Revoke(j)
    <3>1. attempts'[j] = [a \in Rows(j) |-> RevokedRow(Row(j, a))]
          /\ \A n \in Intents \ {j} : attempts'[n] = attempts[n]
      BY <1>t, <2>3 DEF Revoke
    <3>2. ASSUME NEW a \in Rows(j)
          PROVE  Row(j, a)' = Row(j, a) \/ Row(j, a)'.state \notin Running
      <4>1. Row(j, a)' = RevokedRow(Row(j, a)) /\ Row(j, a) \in AttemptRows
        BY <1>t, <3>1, RowsAre DEF Row
      <4>2. QED
        BY <4>1 DEF RevokedRow, AttemptRows, Running
    <3>3. QED
      BY <2>1, <3>1, <3>2
  <2>4. CASE Cancel(j)
    <3>1. attempts'[j] = [a \in Rows(j) |-> CancelledRow(Row(j, a))]
          /\ \A n \in Intents \ {j} : attempts'[n] = attempts[n]
      BY <1>t, <2>4 DEF Cancel
    <3>2. ASSUME NEW a \in Rows(j)
          PROVE  Row(j, a)' = Row(j, a) \/ Row(j, a)'.state \notin Running
      <4>1. Row(j, a)' = CancelledRow(Row(j, a)) /\ Row(j, a) \in AttemptRows
        BY <1>t, <3>1, RowsAre DEF Row
      <4>2. QED
        BY <4>1 DEF CancelledRow, AttemptRows, Running
    <3>3. QED
      BY <2>1, <3>1, <3>2
  <2>5. CASE ReconcilePresent(j)
    <3>1. PICK a, r : /\ a = Latest(j) /\ a \in Rows(j) /\ Row(j, a) \in AttemptRows
                      /\ r = [Row(j, a) EXCEPT !.state = "SUCCEEDED", !.owner = Nobody,
                                !.live = FALSE, !.steps[2].state = "SUCCEEDED"]
      <4>1. Latest(j) \in Rows(j)
        BY <1>t, <2>5, RowsAre DEF ReconcilePresent
      <4>2. QED
        BY <1>t, <4>1, RowsAre
    <3>2. attempts' = [attempts EXCEPT ![j] = [@ EXCEPT ![a] = r]]
      BY <2>5, <3>1 DEF ReconcilePresent, Row
    <3>3. r.state = "SUCCEEDED"
      BY <3>1 DEF AttemptRows
    <3>4. QED
      BY <1>3, <3>1, <3>2, <3>3 DEF Running
  <2>6. CASE ReconcileAbsent(j)
    <3>1. PICK rows : /\ rows \in IF target = "X" THEN XAbsentRows(j) ELSE PatreonAbsentRows(j)
                      /\ attempts' = [attempts EXCEPT ![j] = rows]
      BY <2>6 DEF ReconcileAbsent
    <3>2. PICK r \in AttemptRows :
             /\ Latest(j) \in Rows(j) /\ rows = [attempts[j] EXCEPT ![Latest(j)] = r]
             /\ r.state = IF target = "X" THEN "FAILED" ELSE "AWAITING_HUMAN"
      BY <3>1, AbsentRowIs
    <3>3. QED
      BY <1>3, <3>1, <3>2 DEF Running
  <2>7. QED
    BY <1>1, <1>4, <2>2, <2>3, <2>4, <2>5, <2>6 DEF Operator, PlanIntent, Download, PostByHand
<1>5. ASSUME NEW j \in Intents, LeaseExpires(j) PROVE Leased(w, i, b)
  <2>1. PICK a, r :
           /\ a \in Rows(j) /\ Row(j, a).state \in Running
           /\ r = [Row(j, a) EXCEPT !.live = FALSE]
           /\ attempts' = [attempts EXCEPT ![j] = [@ EXCEPT ![a] = r]]
    BY <1>5 DEF LeaseExpires, Row
  <2>2. r.owner = Row(j, a).owner
    BY <1>t, <2>1, RowsAre DEF AttemptRows
  <2>3. QED
    BY <1>3, <2>1, <2>2
<1>6. ASSUME NEW v \in Workers, Recover(v) PROVE Leased(w, i, b)
  <2>1. PICK j \in Intents, a \in Nat :
           /\ a \in Rows(j)
           /\ RecoverBare(j, a) \/ \E k \in Under(j, a) : RecoverStep(j, a, k)
    BY <1>t, <1>6, RowsAre DEF Recover
  <2>2. Row(j, a) \in AttemptRows
    BY <1>t, <2>1, RowsAre
  <2>3. CASE RecoverBare(j, a)
    <3>1. PICK s \in {"FAILED", "RETRY_WAIT"} :
             s = IF Row(j, a).claims >= MaxClaims THEN "FAILED" ELSE "RETRY_WAIT"
      OBVIOUS
    <3>2. PICK r : r = [Row(j, a) EXCEPT !.state = s, !.owner = Nobody, !.live = FALSE]
      OBVIOUS
    <3>3. attempts' = [attempts EXCEPT ![j] = [@ EXCEPT ![a] = r]] /\ r.state = s
      BY <2>2, <2>3, <3>1, <3>2 DEF RecoverBare, Row, AttemptRows
    <3>4. QED
      BY <1>3, <2>1, <3>3 DEF Running
  <2>4. CASE \E k \in Under(j, a) : RecoverStep(j, a, k)
    <3>1. \E k, st, step : \E s \in {"UNKNOWN", "FAILED", "RETRY_WAIT"} :
             Writes(j, a, s, st, k, step)
      BY <2>4 DEF RecoverStep
    <3>2. QED
      BY <1>2, <2>1, <2>2, <3>1, StatesAre
  <2>5. QED
    BY <2>1, <2>3, <2>4
<1>7. ASSUME NEW v \in Workers, Claim(v) PROVE Leased(w, i, b)
  <2>1. PICK j \in Intents, a \in Nat :
           /\ a \in Rows(j) /\ Row(j, a).state \in {"QUEUED", "RETRY_WAIT"}
           /\ \/ attempts' = [attempts EXCEPT ![j][a].state = "FAILED"]
              \/ /\ attempts' = [attempts EXCEPT ![j][a] =
                       [@ EXCEPT !.state = "CLAIMED", !.claims = Row(j, a).claims + 1,
                                 !.owner = v, !.live = TRUE]]
                 /\ pc' = [pc EXCEPT ![v] = [at |-> "claimed", i |-> j, a |-> a]]
    BY <1>t, <1>7, RowsAre DEF Claim
  <2>2. Row(j, a) \in AttemptRows
    BY <1>t, <2>1, RowsAre
  <2>3. CASE attempts' = [attempts EXCEPT ![j][a].state = "FAILED"]
    <3>1. PICK r : r = [Row(j, a) EXCEPT !.state = "FAILED"]
      OBVIOUS
    <3>2. r.state = "FAILED"
      BY <2>2, <3>1 DEF AttemptRows
    <3>3. attempts' = [attempts EXCEPT ![j] = [@ EXCEPT ![a] = r]]
      BY <2>3, <3>1 DEF Row
    <3>4. QED
      BY <1>3, <2>1, <3>2, <3>3 DEF Running
  <2>4. CASE attempts' = [attempts EXCEPT ![j][a] =
                [@ EXCEPT !.state = "CLAIMED", !.claims = Row(j, a).claims + 1,
                          !.owner = v, !.live = TRUE]]
    <3>1. v # w
      BY <1>7 DEF Claim, At
    <3>2. PICK r : r = [Row(j, a) EXCEPT !.state = "CLAIMED",
                          !.claims = Row(j, a).claims + 1, !.owner = v, !.live = TRUE]
      OBVIOUS
    <3>3. r.owner = v
      BY <2>2, <3>2 DEF AttemptRows
    <3>4. attempts' = [attempts EXCEPT ![j] = [@ EXCEPT ![a] = r]]
      BY <2>4, <3>2 DEF Row
    <3>5. Row(i, b)' = IF i = j /\ b = a THEN r ELSE Row(i, b)
      BY <1>t, <2>1, <3>4 DEF Row, Rows
    <3>6. QED
      BY <3>1, <3>3, <3>5 DEF Leased
  <2>5. QED
    BY <2>1, <2>3, <2>4
<1>8. ASSUME NEW v \in Workers, BeginEffect(v) \/ StartRequest(v) \/ Settle(v),
             ~UNCHANGED attempts
      PROVE  Leased(w, i, b)
  <2>1. pc[v].at \in {"step", "begun", "settle"}
    BY <1>8 DEF BeginEffect, StartRequest, Settle, At
  <2>2. PICK j \in Intents, a \in Nat, k \in 1..2 :
           a \in Rows(j) /\ pc[v].i = j /\ pc[v].a = a /\ pc[v].k = k
    BY <2>1, Holding, RowsAre DEF PInv
  <2>3. /\ Leased(v, j, a)
        /\ \/ attempts' = [attempts EXCEPT ![j][a] =
                 [@ EXCEPT !.state = "PROCESSING", !.steps[k].state = "PROCESSING"]]
           \/ attempts' = [attempts EXCEPT ![j][a].steps[k].request = "started"]
           \/ Close(v, j, a, k, Step(j, a, k))
           \/ Advance(v, j, a, k, Step(j, a, k))
    BY <1>8, <2>2 DEF BeginEffect, StartRequest, Settle
  <2>4. Row(j, a) \in AttemptRows /\ Row(j, a).state \in Running
    BY <1>t, <2>2, <2>3, RowsAre DEF Leased
  <2>5. ASSUME NEW r, attempts' = [attempts EXCEPT ![j] = [@ EXCEPT ![a] = r]],
               r.owner = Row(j, a).owner
        PROVE  Leased(w, i, b)
    BY <1>3, <2>2, <2>4, <2>5
  <2>6. CASE attempts' = [attempts EXCEPT ![j][a] =
                [@ EXCEPT !.state = "PROCESSING", !.steps[k].state = "PROCESSING"]]
    <3>1. PICK r : r = [Row(j, a) EXCEPT !.state = "PROCESSING", !.steps[k].state = "PROCESSING"]
      OBVIOUS
    <3>2. r.owner = Row(j, a).owner
      BY <2>4, <3>1 DEF AttemptRows
    <3>3. attempts' = [attempts EXCEPT ![j] = [@ EXCEPT ![a] = r]]
      BY <2>6, <3>1 DEF Row
    <3>4. QED
      BY <2>5, <3>2, <3>3
  <2>7. CASE \/ attempts' = [attempts EXCEPT ![j][a].steps[k].request = "started"]
             \/ Advance(v, j, a, k, Step(j, a, k))
    <3>1. PICK r : /\ r.owner = Row(j, a).owner
                   /\ attempts' = [attempts EXCEPT ![j] = [@ EXCEPT ![a] = r]]
      <4>1. CASE attempts' = [attempts EXCEPT ![j][a].steps[k].request = "started"]
        <5>1. PICK r : r = [Row(j, a) EXCEPT !.steps[k].request = "started"]
          OBVIOUS
        <5>2. r.owner = Row(j, a).owner
          BY <2>4, <5>1 DEF AttemptRows
        <5>3. attempts' = [attempts EXCEPT ![j] = [@ EXCEPT ![a] = r]]
          BY <4>1, <5>1 DEF Row
        <5>4. QED
          BY <5>2, <5>3
      <4>2. CASE Advance(v, j, a, k, Step(j, a, k))
        <5>1. PICK step : attempts' = [attempts EXCEPT ![j][a].steps[k] = step]
          BY <4>2 DEF Advance
        <5>2. PICK r : r = [Row(j, a) EXCEPT !.steps[k] = step]
          OBVIOUS
        <5>3. r.owner = Row(j, a).owner
          BY <2>4, <5>2 DEF AttemptRows
        <5>4. attempts' = [attempts EXCEPT ![j] = [@ EXCEPT ![a] = r]]
          BY <5>1, <5>2 DEF Row
        <5>5. QED
          BY <5>3, <5>4
      <4>3. QED
        BY <2>7, <4>1, <4>2
    <3>2. QED
      BY <2>5, <3>1
  <2>8. CASE Close(v, j, a, k, Step(j, a, k))
    <3>1. \E s \in {"FAILED", "RETRY_WAIT", "CANCELLED", "AWAITING_HUMAN", "UNKNOWN", "SUCCEEDED"} :
             \E st, step : Writes(j, a, s, st, k, step)
      BY <2>8 DEF Close, ScheduleRetry
    <3>2. QED
      BY <1>2, <2>2, <2>4, <3>1, StatesAre
  <2>9. QED
    BY <2>3, <2>6, <2>7, <2>8
<1>9. QED
  BY <1>1, <1>4, <1>5, <1>6, <1>7, <1>8
  DEF Next, vars, ApprovalExpires, Land, Crash, SetGuard, ReleaseSuperseded, Cycle,
      Snapshot, InputRefused, NoRequest, BuildPackage, HandOver, UploadAnswered,
      PostCreated, PostRefused, PostUncertain

\* A controller comes to rule a post out only when the provider, or the
\* transport, has proved that nothing was created.
LEMMA RuledOutBy ==
    ASSUME PInv, [Next]_vars, NEW w \in Workers, pc'[w] # pc[w], RulesOut(w)'
    PROVE  PostRefused(w)
<1>t. pc \in [Workers -> Places] /\ Typed
  BY DEF PInv, Typed
<1>1. /\ pc'[w].at = "settle" /\ pc'[w].k = 2 /\ pc'[w].request
      /\ pc'[w].verdict \in {"retry", "fail", "operator"}
  BY DEF RulesOut
<1>2. ASSUME NEW v, NEW q, Verdict(w, v, q)
      PROVE  pc'[w].verdict = v /\ pc'[w].request = q /\ pc'[w].k = pc[w].k
  BY <1>t, <1>2 DEF Verdict
<1>3. ASSUME NEW v, Verdict(w, v, FALSE) PROVE FALSE
  BY <1>1, <1>2, <1>3
<1>4. CASE UploadAnswered(w)
  <2>1. pc[w].k = 2
    BY <1>1, <1>2, <1>4 DEF UploadAnswered
  <2>2. Kinds[2] = "X_MEDIA_UPLOAD"
    BY <1>4, <2>1 DEF UploadAnswered
  <2>3. QED
    BY <1>t, <2>2, KindsAre DEF Typed
<1>5. CASE PostCreated(w) \/ PostUncertain(w)
  <2>1. PICK v \in {"posted", "unknown"} : Verdict(w, v, TRUE)
    BY <1>5 DEF PostCreated, PostUncertain
  <2>2. QED
    BY <1>1, <1>2, <2>1
<1>6. ASSUME NEW v \in Workers, Cycle(v) PROVE v = w
  BY <1>t, <1>6
  DEF Cycle, Recover, Claim, Snapshot, InputRefused, BeginEffect, NoRequest,
      BuildPackage, HandOver, StartRequest, UploadAnswered, PostCreated, PostRefused,
      PostUncertain, Settle, Verdict
<1>7. CASE InputRefused(w) \/ NoRequest(w) \/ BuildPackage(w) \/ HandOver(w)
  BY <1>3, <1>7 DEF InputRefused, NoRequest, BuildPackage, HandOver
<1>8. CASE BeginEffect(w) \/ StartRequest(w)
  <2>1. pc'[w].at \in {"begun", "calling"} \/ \E v : Verdict(w, v, FALSE)
    <3>1. pc[w].at \in {"step", "begun"}
      BY <1>8 DEF BeginEffect, StartRequest, At
    <3>2. ASSUME NEW x, pc' = [pc EXCEPT ![w].at = x] PROVE pc'[w].at = x
      BY <1>t, <3>1, <3>2 DEF Places, Idle
    <3>3. CASE BeginEffect(w)
      <4>1. pc' = [pc EXCEPT ![w].at = "begun"] \/ \E v : Verdict(w, v, FALSE)
        BY <3>3 DEF BeginEffect
      <4>2. QED
        BY <3>2, <4>1
    <3>4. CASE StartRequest(w)
      <4>1. pc' = [pc EXCEPT ![w].at = "calling"] \/ \E v : Verdict(w, v, FALSE)
        BY <3>4 DEF StartRequest
      <4>2. QED
        BY <3>2, <4>1
    <3>5. QED
      BY <1>8, <3>3, <3>4
  <2>2. QED
    BY <1>1, <1>3, <2>1
<1>9. CASE Recover(w) \/ Claim(w) \/ Snapshot(w) \/ Settle(w)
  <2>1. \/ pc'[w] = pc[w] \/ pc'[w] = Idle
        \/ \E i, a : pc'[w] = [at |-> "claimed", i |-> i, a |-> a]
        \/ \E i, a, k : pc'[w] = [at |-> "step", i |-> i, a |-> a, k |-> k]
    <3>1. CASE Recover(w)
      BY <3>1 DEF Recover
    <3>2. CASE Claim(w)
      <4>1. \/ pc' = pc
            \/ \E i, a : pc' = [pc EXCEPT ![w] = [at |-> "claimed", i |-> i, a |-> a]]
        BY <3>2, ZenonT(30) DEF Claim
      <4>2. QED
        BY <1>t, <4>1
    <3>3. CASE Snapshot(w)
      BY <1>t, <3>3 DEF Snapshot
    <3>4. CASE Settle(w)
      BY <1>t, <3>4 DEF Settle
    <3>5. QED
      BY <1>9, <3>1, <3>2, <3>3, <3>4
  <2>2. pc'[w].at \in {"idle", "claimed", "step"}
    <3>1. CASE pc'[w] = Idle
      BY <3>1 DEF Idle
    <3>2. CASE \E i, a : pc'[w] = [at |-> "claimed", i |-> i, a |-> a]
      BY <3>2
    <3>3. CASE \E i, a, k : pc'[w] = [at |-> "step", i |-> i, a |-> a, k |-> k]
      BY <3>3
    <3>4. QED
      BY <2>1, <3>1, <3>2, <3>3
  <2>3. QED
    BY <1>1, <2>2
<1>10. ASSUME NEW v \in Workers, Crash(v) PROVE FALSE
  BY <1>t, <1>1, <1>10 DEF Crash, Idle
<1>11. CASE Cycle(w)
  BY <1>4, <1>5, <1>7, <1>8, <1>9, <1>11 DEF Cycle
<1>12. QED
  BY <1>6, <1>10, <1>11
  DEF Next, vars, Operator, PlanIntent, Approve, Revoke, Cancel, ReconcilePresent,
      ReconcileAbsent, Download, PostByHand, ApprovalExpires, LeaseExpires, Land,
      SetGuard, ReleaseSuperseded

\* A post that was ruled out stays vouched for until the verdict is written.
LEMMA RuledOutStays ==
    ASSUME PInv, AInv, [Next]_vars, NEW w \in Workers, RulesOut(w)'
    PROVE  VouchedFor(pc[w].i)'
<1>n. PInv' /\ IsFiniteSet(calls')
  BY NextPInv, StepCounts DEF AInv, Counts
<1>1. CASE pc'[w] = pc[w]
  <2>a. pc[w].at = "settle"
    BY <1>1 DEF RulesOut
  <2>2. PICK i \in Intents : i = pc[w].i /\ pc[w].a \in Rows(i)
    BY <2>a, Holding
  <2>b. PICK a \in Rows(i) : a = pc[w].a
    BY <2>2
  <2>1. Leased(w, i, a)'
    BY <1>1, <2>2, <2>b DEF RulesOut
  <2>3. Leased(w, i, a)
    BY <1>1, <2>a, <2>1, LeaseTaken
  <2>4. RulesOut(w) /\ VouchedFor(i)
    <3>1. RulesOut(w)
      BY <1>1, <2>2, <2>b, <2>3 DEF RulesOut
    <3>2. QED
      BY <2>2, <3>1 DEF AInv
  <2>6. Doubted(attempts[i]) /\ intent[i].state # "AWAITING_HUMAN"
    <3>1. /\ Settled(pc[w], Row(i, a)) /\ RowOK(target, Row(i, a))
          /\ Row(i, a).state \in Running
          /\ a = Latest(i) /\ intent[i].state \in {"READY", "PROCESSING"}
      BY <2>a, <2>2, <2>b, <2>3, Settling, Holding
    <3>2. Row(i, a).steps[2].request = "started"
      BY <2>4, <3>1 DEF Settled, RulesOut
    <3>3. Row(i, a).state = "PROCESSING"
      BY <3>1, <3>2 DEF RowOK, Running, Unbegun, Clean
    <3>4. Latest(i) # 0
      BY <3>1, RowsAre DEF PInv
    <3>5. QED
      BY <3>1, <3>2, <3>3, <3>4 DEF Doubted, Row, Latest
  <2>7. Lightens(i)
    BY <2>6, StepCounts DEF AInv, Counts, Commits, PostsByHand
  <2>8. Load(i) \in Nat /\ absents[i] \in Nat /\ Load(i)' \in Nat
    BY <1>n, LoadIs, LoadAfter DEF AInv
  <2>9. Load(i)' <= absents'[i]
    BY <2>4, <2>7, <2>8 DEF VouchedFor, Lightens
  <2>10. QED
    BY <1>1, <2>2, <2>9 DEF VouchedFor, Load, CallsOf
<1>2. CASE pc'[w] # pc[w]
  <2>1. PostRefused(w)
    BY <1>2, RuledOutBy
  <2>2. PICK i \in Intents : /\ i = pc[w].i /\ i = pc'[w].i
                             /\ CallEnds(i, pc[w].a) /\ UNCHANGED <<posts, absents>>
    <3>1. pc[w].i \in Intents /\ pc \in [Workers -> Places]
      BY <2>1, Holding DEF PostRefused, At, PInv, Typed
    <3>2. pc'[w].i = pc[w].i
      BY <2>1, <3>1 DEF PostRefused, Verdict
    <3>3. QED
      BY <2>1, <3>1, <3>2 DEF PostRefused, CallEnds, world
  <2>3. Load(i)' + 1 = Load(i) /\ Load(i) \in Nat /\ absents[i] \in Nat /\ Load(i)' \in Nat
    BY <1>n, <2>2, CallEndCounts, LoadIs, LoadAfter DEF AInv
  <2>4. Load(i) <= absents[i] + 1
    BY <2>3 DEF AInv
  <2>5. Load(i)' <= absents'[i]
    BY <2>2, <2>3, <2>4
  <2>6. QED
    BY <2>2, <2>5 DEF VouchedFor, Load, CallsOf
<1>3. QED
  BY <1>1, <1>2

-----------------------------------------------------------------------------
(* The theorem.                                                             *)

LEMMA InitAInv == Init => AInv
<1> SUFFICES ASSUME Init PROVE AInv
  OBVIOUS
<1>1. calls = {} /\ IsFiniteSet(calls)
  BY FS_EmptySet DEF Init
<1>2. ASSUME NEW i \in Intents PROVE Load(i) = 0 /\ absents[i] = 0
  <2>1. CallsOf(i) = {}
    BY <1>1 DEF CallsOf
  <2>2. QED
    BY <2>1, FS_EmptySet DEF Init, Load
<1>3. \A w \in Workers : ~RulesOut(w)
  BY DEF Init, RulesOut, Idle
<1>4. QED
  BY <1>1, <1>2, <1>3 DEF AInv

LEMMA NextAInv ==
    ASSUME PInv, AInv, [Next]_vars
    PROVE  AInv'
<1>1. PInv' /\ IsFiniteSet(calls) /\ IsFiniteSet(calls') /\ Counts
  BY NextPInv, StepCounts DEF AInv, Counts
<1>2. ASSUME NEW i \in Intents
      PROVE  Load(i)' <= absents'[i] + (IF Spends(i)' THEN 1 ELSE 0)
  <2>1. /\ Load(i) \in Nat /\ Load(i)' \in Nat /\ absents[i] \in Nat /\ absents'[i] \in Nat
        /\ Load(i) <= absents[i] + (IF Spends(i) THEN 1 ELSE 0)
    BY <1>1, LoadIs, LoadAfter DEF AInv
  <2>2. CASE Lightens(i)
    <3>1. Spends(i) => Spends(i)' \/ VouchedFor(i)'
      BY SpendingEnds
    <3>2. QED
      BY <2>1, <2>2, <3>1 DEF Lightens, VouchedFor
  <2>3. CASE Commits(i)
    <3>1. ~Spends(i) /\ Spends(i)'
      BY <2>3 DEF Commits, Spends
    <3>2. QED
      BY <2>1, <2>3, <3>1 DEF Commits
  <2>4. CASE PostsByHand(i)
    <3>1. ~Doubted(attempts[i])
      BY <2>4, DoubtedIs DEF PostsByHand
    <3>2. ~Spends(i) /\ Spends(i)'
      BY <2>4, <3>1 DEF PostsByHand, Spends
    <3>3. QED
      BY <2>1, <2>4, <3>2 DEF PostsByHand
  <2>5. QED
    BY <1>1, <2>2, <2>3, <2>4 DEF Counts
<1>3. \A w \in Workers : (RulesOut(w) => VouchedFor(pc[w].i))'
  BY RuledOutStays
<1>4. QED
  BY <1>1, <1>2, <1>3 DEF AInv

\* Every post is counted against an operator's word, but for one.
THEOREM EachPostCounted == Spec => []AInv
<1>1. PInv /\ AInv /\ [Next]_vars => AInv'
  BY NextAInv
<1>2. QED
  BY InitAInv, Inductive, <1>1, PTL DEF Spec

LEMMA SpendingOwns ==
    ASSUME PInv, NEW i \in Intents, Spends(i)
    PROVE  intent[i].state \notin Free
BY DoubtedIs DEF Spends, Free, Supersedable

\* However often attempts are retried, revoked, recovered and approved again,
\* and whichever intents succeed each other on the target, the target gets at
\* most one post, plus one for every time an operator said of an unknown
\* outcome that nothing had been posted.
THEOREM PostsCounted == Spec => []PostsAccounted
<1>1. ASSUME PInv, AInv PROVE PostsAccounted
  <2>1. IsFiniteSet(Intents)
    BY PublicationAssumption
  <2>2. \A i \in Intents : posts[i] \in Nat /\ absents[i] \in Nat
    BY <1>1 DEF PInv, Typed
  <2>3. ASSUME NEW i \in Intents
        PROVE  posts[i] <= absents[i] + (IF Spends(i) THEN 1 ELSE 0)
    BY <1>1, LoadIs DEF AInv, Load
  <2>4. SumFunctionOnSet(posts, Intents) <= 1 + SumFunctionOnSet(absents, Intents)
    <3>1. CASE \E i \in Intents : Spends(i)
      <4>1. PICK y \in Intents : Spends(y)
        BY <3>1
      <4>2. \A i \in Intents : i # y => ~Spends(i)
        BY <1>1, <4>1, SpendingOwns DEF PInv, OneOwner
      <4>3. \A i \in Intents : i # y => posts[i] <= absents[i]
        BY <2>2, <2>3, <4>2
      <4>4. posts[y] <= absents[y] + 1
        BY <2>2, <2>3
      <4>5. QED
        BY <2>1, <2>2, <4>3, <4>4, SumOfOneMore
    <3>2. CASE ~ \E i \in Intents : Spends(i)
      <4>1. \A i \in Intents : posts[i] <= absents[i]
        BY <2>2, <2>3, <3>2
      <4>2. SumFunctionOnSet(posts, Intents) <= SumFunctionOnSet(absents, Intents)
        BY <2>1, <2>2, <4>1, SumOfLess
      <4>3. SumFunctionOnSet(posts, Intents) \in Nat /\ SumFunctionOnSet(absents, Intents) \in Nat
        BY <2>1, <2>2, SumInNat
      <4>4. QED
        BY <4>2, <4>3
    <3>3. QED
      BY <3>1, <3>2
  <2>5. /\ MapThenSumSet(LAMBDA i : posts[i], Intents) = SumFunctionOnSet(posts, Intents)
        /\ MapThenSumSet(LAMBDA i : absents[i], Intents) = SumFunctionOnSet(absents, Intents)
    BY Zenon DEF MapThenSumSet, SumFunctionOnSet, FoldFunctionOnSet
  <2>6. QED
    BY <2>4, <2>5, Zenon DEF PostsAccounted
<1>2. QED
  BY <1>1, Inductive, EachPostCounted, PTL

-----------------------------------------------------------------------------
(* LInv: the bounds of the rows. First, what each step makes of the rows.   *)

\* Nobody is not a controller, and bounds are numbers.
PublicationBounds == Nobody \notin Workers /\ MaxLock \in Nat /\ MaxAttempts \in Nat

SameLength == \A i \in Intents : Latest(i)' = Latest(i) /\ Rows(i)' = Rows(i)

\* One row of an intent becomes r.
LEMMA OneRowTight ==
    ASSUME Typed, RowsTight, NEW i \in Intents, NEW a \in Rows(i), NEW r, Tight(r),
           attempts' = [attempts EXCEPT ![i] = [@ EXCEPT ![a] = r]]
    PROVE  RowsTight' /\ SameLength
<1>1. /\ attempts \in [Intents -> Seq(AttemptRows)] /\ a \in DOMAIN attempts[i]
      /\ \A j \in Intents : attempts[j] \in Seq(AttemptRows)
  BY DEF Typed, Rows
<1>2. /\ \A j \in Intents \ {i} : attempts'[j] = attempts[j]
      /\ attempts'[i] = [attempts[i] EXCEPT ![a] = r]
  BY <1>1
<1>3. SameLength
  BY <1>1, <1>2 DEF SameLength, Latest, Rows
<1>4. ASSUME NEW j \in Intents, NEW b \in Rows(j)' PROVE Tight(Row(j, b)')
  <2>1. b \in Rows(j)
    BY <1>3, <1>4 DEF SameLength
  <2>2. CASE j = i /\ b = a
    <3>1. Row(j, b)' = r
      BY <1>1, <1>2, <2>2 DEF Row
    <3>2. QED
      BY <3>1
  <2>3. CASE ~(j = i /\ b = a)
    <3>1. Row(j, b)' = Row(j, b)
      BY <1>1, <1>2, <2>1, <2>3 DEF Row, Rows
    <3>2. QED
      BY <2>1, <3>1 DEF RowsTight
  <2>4. QED
    BY <2>2, <2>3
<1>5. QED
  BY <1>3, <1>4 DEF RowsTight, Tight

LEMMA NoRowTight ==
    ASSUME RowsTight, attempts' = attempts
    PROVE  RowsTight' /\ SameLength
BY DEF RowsTight, SameLength, Rows, Row, Latest, Tight

\* A row that has ended, or waits, has no lease.
LEMMA EndedIsTight ==
    ASSUME PublicationBounds, NEW row \in AttemptRows, Tight(row),
           NEW s \in AttemptStates \ Running, NEW steps \in [1..2 -> StepRows],
           \A k \in 1..2 : steps[k].retries <= MaxRetries,
           NEW r, r = [row EXCEPT !.state = s, !.owner = Nobody, !.live = FALSE,
                                  !.steps = steps]
    PROVE  Tight(r)
<1>1. /\ r.claims = row.claims /\ r.approval = row.approval /\ r.steps = steps
      /\ r.owner = Nobody /\ r.state = s
  BY DEF AttemptRows
<1>2. QED
  BY <1>1 DEF Tight

LEMMA StepKeepsRetries ==
    ASSUME NEW s \in StepRows, NEW t, NEW q
    PROVE  /\ [s EXCEPT !.state = t].retries = s.retries
           /\ [s EXCEPT !.request = q].retries = s.retries
BY DEF StepRows

\* An end of an attempt that Writes records.
LEMMA WritesTight ==
    ASSUME PublicationBounds, PInv, RowsTight, NEW i \in Intents, NEW a \in Rows(i),
           NEW s \in AttemptStates \ Running, NEW st, NEW k \in 1..2,
           NEW step \in StepRows, step.retries <= MaxRetries, Writes(i, a, s, st, k, step)
    PROVE  RowsTight' /\ SameLength
<1>1. Row(i, a) \in AttemptRows /\ Tight(Row(i, a)) /\ Typed
  BY RowsAre DEF PInv, RowsTight
<1>2. PICK steps : steps = [Row(i, a).steps EXCEPT ![k] = step]
  OBVIOUS
<1>3. /\ steps \in [1..2 -> StepRows]
      /\ \A j \in 1..2 : steps[j] = IF j = k THEN step ELSE Row(i, a).steps[j]
  BY <1>1, <1>2 DEF AttemptRows
<1>4. \A j \in 1..2 : steps[j].retries <= MaxRetries
  BY <1>1, <1>3 DEF Tight
<1>5. PICK r : r = [Row(i, a) EXCEPT !.state = s, !.owner = Nobody, !.live = FALSE,
                                     !.steps = steps]
  OBVIOUS
<1>6. attempts' = [attempts EXCEPT ![i] = [@ EXCEPT ![a] = r]]
  BY <1>2, <1>5 DEF Writes, Row
<1>7. Tight(r)
  BY <1>1, <1>3, <1>4, <1>5, EndedIsTight
<1>8. QED
  BY <1>1, <1>6, <1>7, OneRowTight

LEMMA RecoverTight ==
    ASSUME PublicationBounds, PInv, RowsTight, NEW w \in Workers, Recover(w)
    PROVE  RowsTight' /\ SameLength
<1>1. PICK i \in Intents, a \in Nat :
         /\ a \in Rows(i) /\ Expired(i, a)
         /\ IF Under(i, a) = {} THEN RecoverBare(i, a)
            ELSE \E k \in Under(i, a) :
                   /\ \A j \in Under(i, a) : k <= j
                   /\ RecoverStep(i, a, k)
  BY RowsAre DEF Recover, PInv
<1>2. Row(i, a) \in AttemptRows /\ Tight(Row(i, a)) /\ Typed
      /\ Row(i, a).steps \in [1..2 -> StepRows]
  BY <1>1, RowsAre DEF PInv, RowsTight, AttemptRows
<1>3. CASE Under(i, a) = {}
  <2>1. PICK s \in {"FAILED", "RETRY_WAIT"} :
           s = IF Row(i, a).claims >= MaxClaims THEN "FAILED" ELSE "RETRY_WAIT"
    OBVIOUS
  <2>2. PICK r : r = [Row(i, a) EXCEPT !.state = s, !.owner = Nobody, !.live = FALSE]
    OBVIOUS
  <2>3. attempts' = [attempts EXCEPT ![i] = [@ EXCEPT ![a] = r]]
    BY <1>1, <1>3, <2>1, <2>2 DEF RecoverBare, Row
  <2>4. /\ r.claims = Row(i, a).claims /\ r.approval = Row(i, a).approval
        /\ r.steps = Row(i, a).steps /\ r.owner = Nobody /\ r.state = s
    BY <1>2, <2>2 DEF AttemptRows
  <2>5. Tight(r)
    BY <1>2, <2>4 DEF Tight, Running
  <2>6. QED
    BY <1>1, <1>2, <2>3, <2>5, OneRowTight
<1>4. CASE Under(i, a) # {}
  <2>1. PICK k \in 1..2 : RecoverStep(i, a, k)
    BY <1>1, <1>4 DEF Under
  <2>2. PICK s : s = Step(i, a, k) /\ s = Row(i, a).steps[k]
    BY DEF Step, Row
  <2>3. s \in StepRows /\ s.retries <= MaxRetries
    BY <1>2, <2>2 DEF Tight
  <2>4. PICK t \in {"UNKNOWN", "FAILED", "RETRY_WAIT"}, q \in Requests,
                st \in {"UNKNOWN", "FAILED", intent[i].state} :
           Writes(i, a, t, st, k, [s EXCEPT !.state = t, !.request = q])
    <3>1. s.request \in Requests /\ "unknown" \in Requests /\ "retryable" \in Requests
      BY <2>3 DEF StepRows, Requests
    <3>2. CASE InDoubt(k, s)
      BY <2>1, <2>2, <3>1, <3>2 DEF RecoverStep
    <3>3. CASE ~InDoubt(k, s)
      <4>1. PICK q \in Requests :
               q = IF Kinds[k] = "X_MEDIA_UPLOAD" /\ s.request = "started"
                   THEN "retryable" ELSE s.request
        BY <3>1
      <4>2. CASE Row(i, a).claims >= MaxClaims
        BY <2>1, <2>2, <3>3, <4>1, <4>2 DEF RecoverStep
      <4>3. CASE ~(Row(i, a).claims >= MaxClaims)
        BY <2>1, <2>2, <3>3, <4>1, <4>3 DEF RecoverStep
      <4>4. QED
        BY <4>2, <4>3
    <3>4. QED
      BY <3>2, <3>3
  <2>5. PICK step : step = [s EXCEPT !.state = t, !.request = q]
    OBVIOUS
  <2>6. step \in StepRows /\ step.retries <= MaxRetries
    BY <2>3, <2>5, StatesAre DEF StepRows
  <2>7. t \in AttemptStates \ Running
    BY StatesAre
  <2>8. QED
    BY <1>1, <2>4, <2>5, <2>6, <2>7, WritesTight
<1>5. QED
  BY <1>3, <1>4

LEMMA ClaimTight ==
    ASSUME PublicationBounds, PInv, RowsTight, NEW w \in Workers, Claim(w)
    PROVE  RowsTight' /\ SameLength
<1>1. PICK i \in Intents, a \in Nat :
         /\ a \in Rows(i) /\ Row(i, a).state \in {"QUEUED", "RETRY_WAIT"}
         /\ IF Row(i, a).claims >= MaxClaims
            THEN attempts' = [attempts EXCEPT ![i][a].state = "FAILED"]
            ELSE attempts' = [attempts EXCEPT ![i][a] =
                       [@ EXCEPT !.state = "CLAIMED", !.claims = Row(i, a).claims + 1,
                                 !.owner = w, !.live = TRUE]]
  BY RowsAre DEF Claim, PInv
<1>2. Row(i, a) \in AttemptRows /\ Tight(Row(i, a)) /\ Typed /\ Row(i, a).claims \in Nat
  BY <1>1, RowsAre DEF PInv, RowsTight, AttemptRows
<1>3. CASE Row(i, a).claims >= MaxClaims
  <2>1. PICK r : r = [Row(i, a) EXCEPT !.state = "FAILED"]
    OBVIOUS
  <2>2. attempts' = [attempts EXCEPT ![i] = [@ EXCEPT ![a] = r]]
    BY <1>1, <1>3, <2>1 DEF Row
  <2>3. /\ r.claims = Row(i, a).claims /\ r.approval = Row(i, a).approval
        /\ r.steps = Row(i, a).steps /\ r.owner = Row(i, a).owner /\ r.state = "FAILED"
    BY <1>2, <2>1 DEF AttemptRows
  <2>4. Tight(r)
    BY <1>1, <1>2, <2>3 DEF Tight, Running
  <2>5. QED
    BY <1>1, <1>2, <2>2, <2>4, OneRowTight
<1>4. CASE ~(Row(i, a).claims >= MaxClaims)
  <2>1. PICK n \in Nat : n = Row(i, a).claims + 1
    BY <1>2
  <2>2. PICK r : r = [Row(i, a) EXCEPT !.state = "CLAIMED", !.claims = n,
                                      !.owner = w, !.live = TRUE]
    OBVIOUS
  <2>3. attempts' = [attempts EXCEPT ![i] = [@ EXCEPT ![a] = r]]
    BY <1>1, <1>4, <2>1, <2>2 DEF Row
  <2>4. /\ r.claims = n /\ r.approval = Row(i, a).approval
        /\ r.steps = Row(i, a).steps /\ r.owner = w /\ r.state = "CLAIMED"
    BY <1>2, <2>2 DEF AttemptRows
  <2>5. n <= MaxClaims
    BY <1>2, <1>4, <2>1, PublicationAssumption
  <2>6. Tight(r)
    BY <1>2, <2>4, <2>5 DEF Tight, Running, PublicationBounds
  <2>7. QED
    BY <1>1, <1>2, <2>3, <2>6, OneRowTight
<1>5. QED
  BY <1>3, <1>4

LEMMA LeaseExpiresTight ==
    ASSUME PInv, RowsTight, NEW i \in Intents, LeaseExpires(i)
    PROVE  RowsTight' /\ SameLength
<1>1. PICK a, r :
         /\ a \in Rows(i) /\ r = [Row(i, a) EXCEPT !.live = FALSE]
         /\ attempts' = [attempts EXCEPT ![i] = [@ EXCEPT ![a] = r]]
  BY DEF LeaseExpires, Row
<1>2. Row(i, a) \in AttemptRows /\ Tight(Row(i, a)) /\ Typed
  BY <1>1, RowsAre DEF PInv, RowsTight
<1>3. /\ r.claims = Row(i, a).claims /\ r.approval = Row(i, a).approval
      /\ r.steps = Row(i, a).steps /\ r.owner = Row(i, a).owner
      /\ r.state = Row(i, a).state
  BY <1>1, <1>2 DEF AttemptRows
<1>4. Tight(r)
  BY <1>2, <1>3 DEF Tight
<1>5. QED
  BY <1>1, <1>2, <1>4, OneRowTight

\* A controller that keeps its lease moves one step of its row.
LEMMA MovedTight ==
    ASSUME PInv, RowsTight, NEW i \in Intents, NEW a \in Rows(i), Row(i, a).state \in Running,
           NEW s \in Running, NEW k \in 1..2, NEW step \in StepRows,
           step.retries <= MaxRetries, NEW r, r = Moved(Row(i, a), s, k, step),
           attempts' = [attempts EXCEPT ![i] = [@ EXCEPT ![a] = r]]
    PROVE  RowsTight' /\ SameLength
<1>1. Row(i, a) \in AttemptRows /\ Tight(Row(i, a)) /\ Typed
  BY RowsAre DEF PInv, RowsTight
<1>2. PICK steps : steps = [Row(i, a).steps EXCEPT ![k] = step]
  OBVIOUS
<1>3. \A j \in 1..2 : steps[j] = IF j = k THEN step ELSE Row(i, a).steps[j]
  BY <1>1, <1>2 DEF AttemptRows
<1>4. r = [Row(i, a) EXCEPT !.state = s, !.steps = steps]
  BY <1>2 DEF Moved
<1>5. /\ r.claims = Row(i, a).claims /\ r.approval = Row(i, a).approval
      /\ r.steps = steps /\ r.owner = Row(i, a).owner /\ r.state = s
  BY <1>1, <1>4 DEF AttemptRows
<1>6. Tight(r)
  BY <1>1, <1>3, <1>5 DEF Tight
<1>7. QED
  BY <1>1, <1>6, OneRowTight

\* The step of a controller's row, within its retries.
LEMMA StepIsTight ==
    ASSUME PInv, RowsTight, NEW i \in Intents, NEW a \in Rows(i), NEW k \in 1..2
    PROVE  /\ Row(i, a) \in AttemptRows /\ Row(i, a).steps[k] \in StepRows
           /\ Row(i, a).steps[k].retries <= MaxRetries
           /\ Step(i, a, k) = Row(i, a).steps[k]
<1>1. Row(i, a) \in AttemptRows /\ Tight(Row(i, a))
  BY RowsAre DEF PInv, RowsTight
<1>2. QED
  BY <1>1 DEF AttemptRows, Tight, Step, Row

LEMMA BeginEffectTight ==
    ASSUME PInv, RowsTight, NEW w \in Workers, BeginEffect(w)
    PROVE  RowsTight' /\ SameLength
<1>1. pc[w].at = "step"
  BY DEF BeginEffect, At
<1>2. PICK i \in Intents, a \in Nat, k \in 1..2 :
         a \in Rows(i) /\ pc[w].i = i /\ pc[w].a = a /\ pc[w].k = k
  BY <1>1, Holding, RowsAre DEF PInv
<1>3. \/ UNCHANGED attempts
      \/ /\ Leased(w, i, a)
         /\ attempts' = [attempts EXCEPT ![i][a] =
               [@ EXCEPT !.state = "PROCESSING", !.steps[k].state = "PROCESSING"]]
  BY <1>2 DEF BeginEffect
<1>4. CASE UNCHANGED attempts
  BY <1>4, NoRowTight
<1>5. CASE /\ Leased(w, i, a)
           /\ attempts' = [attempts EXCEPT ![i][a] =
                 [@ EXCEPT !.state = "PROCESSING", !.steps[k].state = "PROCESSING"]]
  <2>1. PICK step : step = [Row(i, a).steps[k] EXCEPT !.state = "PROCESSING"]
    OBVIOUS
  <2>2. step \in StepRows /\ step.retries <= MaxRetries
    BY <1>2, <2>1, StepIsTight, StatesAre DEF StepRows
  <2>3. PICK r : r = Moved(Row(i, a), "PROCESSING", k, step)
    OBVIOUS
  <2>4. attempts' = [attempts EXCEPT ![i] = [@ EXCEPT ![a] = r]]
    BY <1>5, <2>1, <2>3 DEF Row, Moved
  <2>5. Row(i, a).state \in Running /\ "PROCESSING" \in Running
    BY <1>5 DEF Leased, Running
  <2>6. QED
    BY <1>2, <2>2, <2>3, <2>4, <2>5, MovedTight
<1>6. QED
  BY <1>3, <1>4, <1>5

LEMMA StartRequestTight ==
    ASSUME PInv, RowsTight, NEW w \in Workers, StartRequest(w)
    PROVE  RowsTight' /\ SameLength
<1>1. pc[w].at = "begun"
  BY DEF StartRequest, At
<1>2. PICK i \in Intents, a \in Nat, k \in 1..2 :
         a \in Rows(i) /\ pc[w].i = i /\ pc[w].a = a /\ pc[w].k = k
  BY <1>1, Holding, RowsAre DEF PInv
<1>3. \/ UNCHANGED attempts
      \/ /\ Leased(w, i, a)
         /\ attempts' = [attempts EXCEPT ![i][a].steps[k].request = "started"]
  BY <1>2 DEF StartRequest
<1>4. CASE UNCHANGED attempts
  BY <1>4, NoRowTight
<1>5. CASE /\ Leased(w, i, a)
           /\ attempts' = [attempts EXCEPT ![i][a].steps[k].request = "started"]
  <2>1. PICK step : step = [Row(i, a).steps[k] EXCEPT !.request = "started"]
    OBVIOUS
  <2>2. step \in StepRows /\ step.retries <= MaxRetries
    BY <1>2, <2>1, StepIsTight DEF StepRows, Requests
  <2>3. PICK r : r = Moved(Row(i, a), Row(i, a).state, k, step)
    OBVIOUS
  <2>4. attempts' = [attempts EXCEPT ![i] = [@ EXCEPT ![a] = r]]
    <3>1. Row(i, a) \in AttemptRows
      BY <1>2, StepIsTight
    <3>2. r = [Row(i, a) EXCEPT !.steps[k] = step]
      BY <2>3, <3>1 DEF Moved, AttemptRows
    <3>3. r = [attempts[i][a] EXCEPT !.steps[k].request = "started"]
      BY <2>1, <3>2 DEF Row
    <3>4. QED
      BY <1>5, <3>3
  <2>5. Row(i, a).state \in Running
    BY <1>5 DEF Leased
  <2>6. QED
    BY <1>2, <2>2, <2>3, <2>4, <2>5, MovedTight
<1>6. QED
  BY <1>3, <1>4, <1>5

LEMMA CloseTight ==
    ASSUME PublicationBounds, PInv, RowsTight, NEW w \in Workers, pc[w].at = "settle",
           Leased(w, pc[w].i, pc[w].a),
           Close(w, pc[w].i, pc[w].a, pc[w].k, Step(pc[w].i, pc[w].a, pc[w].k))
    PROVE  RowsTight' /\ SameLength
<1>1. PICK i \in Intents, a \in Nat, k \in 1..2, s \in StepRows :
         /\ pc[w].i = i /\ pc[w].a = a /\ a \in Rows(i) /\ pc[w].k = k
         /\ s = Step(i, a, k) /\ Close(w, i, a, k, s)
         /\ pc[w].request \in BOOLEAN
  BY Settling, RowsAre DEF PInv
<1>2. s.retries <= MaxRetries /\ s.retries \in Nat
  BY <1>1, StepIsTight DEF StepRows
<1>3. \A e \in Requests :
         Completed(w, s, e) \in StepRows /\ Completed(w, s, e).retries = s.retries
  BY <1>1, CompletedIs
<1>4. \A c \in StepRows : \A t \in StepStates :
         /\ [c EXCEPT !.state = t] \in StepRows
         /\ [c EXCEPT !.state = t].retries = c.retries
  BY DEF StepRows
<1>5. /\ {"retryable", "terminal", "unknown", "succeeded"} \subseteq Requests
      /\ {"FAILED", "RETRY_WAIT", "CANCELLED", "AWAITING_HUMAN", "UNKNOWN", "SUCCEEDED"}
            \subseteq StepStates
  BY StatesAre DEF Requests
<1>6. {"FAILED", "RETRY_WAIT", "CANCELLED", "AWAITING_HUMAN", "UNKNOWN", "SUCCEEDED"}
         \subseteq AttemptStates \ Running
  BY StatesAre
<1>7. RowsTight' /\ SameLength
  <2>1. CASE pc[w].verdict = "retry"
    <3>1. PICK c \in StepRows : c = Completed(w, s, "retryable") /\ c.retries = s.retries
      BY <1>3, <1>5
    <3>2. CASE s.retries >= MaxRetriesOf(k) \/ Row(i, a).claims >= MaxClaims
      <4>1. PICK step \in StepRows : step = [c EXCEPT !.state = "FAILED"]
                                     /\ step.retries = c.retries
        BY <1>4, <1>5
      <4>2. Writes(i, a, "FAILED", "FAILED", k, step)
        BY <1>1, <2>1, <3>1, <3>2, <4>1 DEF Close, ScheduleRetry
      <4>3. QED
        BY <1>1, <1>2, <1>6, <3>1, <4>1, <4>2, WritesTight
    <3>3. CASE ~(s.retries >= MaxRetriesOf(k) \/ Row(i, a).claims >= MaxClaims)
      <4>1. PICK n \in Nat : n = c.retries + 1
        BY <1>2, <3>1
      <4>2. n <= MaxRetries
        BY <1>2, <3>1, <3>3, <4>1, PublicationAssumption DEF MaxRetriesOf
      <4>3. PICK step : step = [c EXCEPT !.state = "RETRY_WAIT", !.retries = @ + 1]
        OBVIOUS
      <4>4. step = [c EXCEPT !.state = "RETRY_WAIT", !.retries = n]
        BY <4>1, <4>3
      <4>5. step \in StepRows /\ step.retries = n
        BY <1>5, <4>4 DEF StepRows
      <4>6. Writes(i, a, "RETRY_WAIT", "READY", k, step)
        BY <1>1, <2>1, <3>1, <3>3, <4>3 DEF Close, ScheduleRetry
      <4>7. QED
        BY <1>1, <1>6, <4>2, <4>5, <4>6, WritesTight
    <3>4. QED
      BY <3>2, <3>3
  <2>2. CASE pc[w].verdict = "fail"
    <3>1. PICK c \in StepRows : c = Completed(w, s, "terminal") /\ c.retries = s.retries
      BY <1>3, <1>5
    <3>2. PICK step \in StepRows : step = [c EXCEPT !.state = "FAILED"]
                                   /\ step.retries = c.retries
      BY <1>4, <1>5
    <3>3. Writes(i, a, "FAILED", "FAILED", k, step)
      BY <1>1, <2>2, <3>1, <3>2 DEF Close
    <3>4. QED
      BY <1>1, <1>2, <1>6, <3>1, <3>2, <3>3, WritesTight
  <2>3. CASE pc[w].verdict = "unknown"
    <3>1. PICK c \in StepRows : c = Completed(w, s, "unknown") /\ c.retries = s.retries
      BY <1>3, <1>5
    <3>2. PICK step \in StepRows : step = [c EXCEPT !.state = "UNKNOWN"]
                                   /\ step.retries = c.retries
      BY <1>4, <1>5
    <3>3. Writes(i, a, "UNKNOWN", "UNKNOWN", k, step)
      BY <1>1, <2>3, <3>1, <3>2 DEF Close
    <3>4. QED
      BY <1>1, <1>2, <1>6, <3>1, <3>2, <3>3, WritesTight
  <2>4. CASE pc[w].verdict = "defer"
    <3>1. PICK step \in StepRows : step = [s EXCEPT !.state = "RETRY_WAIT"]
                                   /\ step.retries = s.retries
      BY <1>4, <1>5
    <3>2. Writes(i, a, "RETRY_WAIT", "READY", k, step)
      BY <1>1, <2>4, <3>1 DEF Close
    <3>3. QED
      BY <1>1, <1>2, <1>6, <3>1, <3>2, WritesTight
  <2>5. CASE pc[w].verdict = "expire"
    <3>1. PICK step \in StepRows : step = [s EXCEPT !.state = "CANCELLED"]
                                   /\ step.retries = s.retries
      BY <1>4, <1>5
    <3>2. Writes(i, a, "CANCELLED", "AWAITING_APPROVAL", k, step)
      BY <1>1, <2>5, <3>1 DEF Close
    <3>3. QED
      BY <1>1, <1>2, <1>6, <3>1, <3>2, WritesTight
  <2>6. CASE pc[w].verdict = "operator"
    <3>1. PICK c \in StepRows : c = Completed(w, s, "terminal") /\ c.retries = s.retries
      BY <1>3, <1>5
    <3>2. PICK step \in StepRows : step = [c EXCEPT !.state = "AWAITING_HUMAN"]
                                   /\ step.retries = c.retries
      BY <1>4, <1>5
    <3>3. Writes(i, a, "AWAITING_HUMAN", "AWAITING_HUMAN", k, step)
      BY <1>1, <2>6, <3>1, <3>2 DEF Close
    <3>4. QED
      BY <1>1, <1>2, <1>6, <3>1, <3>2, <3>3, WritesTight
  <2>7. CASE pc[w].verdict = "posted"
    <3>1. PICK c \in StepRows : c = Completed(w, s, "succeeded") /\ c.retries = s.retries
      BY <1>3, <1>5
    <3>2. PICK step \in StepRows : step = [c EXCEPT !.state = "SUCCEEDED"]
                                   /\ step.retries = c.retries
      BY <1>4, <1>5
    <3>3. Writes(i, a, "SUCCEEDED", "PUBLISHED", k, step)
      BY <1>1, <2>7, <3>1, <3>2 DEF Close
    <3>4. QED
      BY <1>1, <1>2, <1>6, <3>1, <3>2, <3>3, WritesTight
  <2>8. QED
    BY <1>1, <2>1, <2>2, <2>3, <2>4, <2>5, <2>6, <2>7 DEF Close
<1>8. QED
  BY <1>7

LEMMA SettleTight ==
    ASSUME PublicationBounds, PInv, RowsTight, NEW w \in Workers, Settle(w)
    PROVE  RowsTight' /\ SameLength
<1>1. pc[w].at = "settle"
  BY DEF Settle, At
<1>2. PICK i \in Intents, a \in Nat, k \in 1..2 :
         a \in Rows(i) /\ pc[w].i = i /\ pc[w].a = a /\ pc[w].k = k
  BY <1>1, Holding, RowsAre DEF PInv
<1>3. CASE Leased(w, i, a) /\ Close(w, i, a, k, Step(i, a, k))
  BY <1>1, <1>2, <1>3, CloseTight
<1>4. CASE Leased(w, i, a) /\ Advance(w, i, a, k, Step(i, a, k))
  <2>1. pc[w].request \in BOOLEAN
    BY <1>1, <1>2, <1>4, Settling
  <2>2. PICK step : step = [Completed(w, Row(i, a).steps[k], "succeeded")
                              EXCEPT !.state = "SUCCEEDED"]
    OBVIOUS
  <2>3. step \in StepRows /\ step.retries <= MaxRetries
    <3>1. PICK c \in StepRows : /\ c = Completed(w, Row(i, a).steps[k], "succeeded")
                                /\ c.retries = Row(i, a).steps[k].retries
      BY <1>2, <2>1, StepIsTight, CompletedIs DEF Requests
    <3>2. "SUCCEEDED" \in StepStates
      BY StatesAre
    <3>3. QED
      BY <1>2, <2>2, <3>1, <3>2, StepIsTight DEF StepRows
  <2>4. PICK r : r = Moved(Row(i, a), Row(i, a).state, k, step)
    OBVIOUS
  <2>5. attempts' = [attempts EXCEPT ![i] = [@ EXCEPT ![a] = r]]
    <3>1. Row(i, a) \in AttemptRows
      BY <1>2, StepIsTight
    <3>2. r = [Row(i, a) EXCEPT !.steps[k] = step]
      BY <2>4, <3>1 DEF Moved, AttemptRows
    <3>3. QED
      BY <1>4, <2>2, <3>2 DEF Advance, Row, Step
  <2>6. Row(i, a).state \in Running
    BY <1>4 DEF Leased
  <2>7. QED
    BY <1>2, <2>3, <2>4, <2>5, <2>6, MovedTight
<1>5. CASE UNCHANGED attempts
  BY <1>5, NoRowTight
<1>6. QED
  BY <1>2, <1>3, <1>4, <1>5 DEF Settle

\* The rows of an intent are rewritten in place.
LEMMA RowsRewrittenTight ==
    ASSUME PInv, PInv', RowsTight, NEW i \in Intents, NEW rows, DOMAIN rows = Rows(i),
           \A b \in Rows(i) : Tight(rows[b]),
           attempts' = [attempts EXCEPT ![i] = rows]
    PROVE  RowsTight' /\ SameLength
<1>1. /\ attempts \in [Intents -> Seq(AttemptRows)] /\ rows \in Seq(AttemptRows)
      /\ attempts'[i] = rows /\ \A j \in Intents \ {i} : attempts'[j] = attempts[j]
      /\ Rows(i) = 1..Latest(i) /\ Latest(i) \in Nat
  BY RowsAre DEF PInv, Typed
<1>2. Len(rows) = Latest(i)
  <2>1. Len(rows) \in Nat /\ 1..Len(rows) = 1..Latest(i)
    BY <1>1
  <2>2. QED
    BY <1>1, <2>1
<1>3. SameLength
  BY <1>1, <1>2 DEF SameLength, Latest, Rows
<1>4. ASSUME NEW j \in Intents, NEW b \in Rows(j)' PROVE Tight(Row(j, b)')
  <2>1. b \in Rows(j)
    BY <1>3, <1>4 DEF SameLength
  <2>2. CASE j = i
    BY <1>1, <2>1, <2>2 DEF Row
  <2>3. CASE j # i
    <3>1. Row(j, b)' = Row(j, b)
      BY <1>1, <2>3 DEF Row
    <3>2. QED
      BY <2>1, <3>1 DEF RowsTight
  <2>4. QED
    BY <2>2, <2>3
<1>5. QED
  BY <1>3, <1>4 DEF RowsTight, Tight

LEMMA CancelledIsTight ==
    ASSUME PublicationBounds, NEW row \in AttemptRows, Tight(row)
    PROVE  Tight(CancelledRow(row))
<1>1. CASE row.state \notin {"QUEUED", "RETRY_WAIT"}
  BY <1>1 DEF CancelledRow
<1>2. CASE row.state \in {"QUEUED", "RETRY_WAIT"}
  <2>1. PICK steps : steps = [k \in 1..2 |-> [row.steps[k] EXCEPT !.state = "CANCELLED"]]
    OBVIOUS
  <2>2. \A k \in 1..2 : /\ row.steps[k] \in StepRows
                        /\ [row.steps[k] EXCEPT !.state = "CANCELLED"] \in StepRows
                        /\ [row.steps[k] EXCEPT !.state = "CANCELLED"].retries
                              = row.steps[k].retries
    <3>1. "CANCELLED" \in StepStates /\ \A k \in 1..2 : row.steps[k] \in StepRows
      BY StatesAre DEF AttemptRows
    <3>2. QED
      BY <3>1 DEF StepRows
  <2>3. steps \in [1..2 -> StepRows] /\ \A k \in 1..2 : steps[k].retries <= MaxRetries
    BY <2>1, <2>2 DEF Tight
  <2>4. PICK r : /\ r = CancelledRow(row)
                 /\ r = [row EXCEPT !.state = "CANCELLED", !.owner = Nobody,
                                    !.live = FALSE, !.steps = steps]
    BY <1>2, <2>1 DEF CancelledRow
  <2>5. "CANCELLED" \in AttemptStates \ Running
    BY StatesAre
  <2>6. QED
    BY <2>3, <2>4, <2>5, EndedIsTight
<1>3. QED
  BY <1>1, <1>2

LEMMA RevokedIsTight ==
    ASSUME PublicationBounds, NEW row \in AttemptRows, Tight(row)
    PROVE  Tight(RevokedRow(row))
<1>1. CASE row.state \notin Active
  BY <1>1 DEF RevokedRow
<1>2. CASE row.state \in Active
  <2>1. PICK steps : steps = [k \in 1..2 |-> RevokedStep(k, row.steps[k])]
    OBVIOUS
  <2>2. ASSUME NEW k \in 1..2
        PROVE  /\ RevokedStep(k, row.steps[k]) \in StepRows
               /\ RevokedStep(k, row.steps[k]).retries = row.steps[k].retries
    <3>1. row.steps[k] \in StepRows /\ "UNKNOWN" \in StepStates /\ "CANCELLED" \in StepStates
      BY StatesAre DEF AttemptRows
    <3>2. QED
      BY <3>1, StepSet, StepKeepsRetries DEF RevokedStep
  <2>3. steps \in [1..2 -> StepRows] /\ \A k \in 1..2 : steps[k].retries <= MaxRetries
    BY <2>1, <2>2 DEF Tight
  <2>4. PICK s \in {"UNKNOWN", "CANCELLED"} :
           s = IF \E k \in 1..2 : Unsafe(k, row.steps[k]) THEN "UNKNOWN" ELSE "CANCELLED"
    OBVIOUS
  <2>5. PICK r : /\ r = RevokedRow(row)
                 /\ r = [row EXCEPT !.state = s, !.owner = Nobody, !.live = FALSE,
                                    !.steps = steps]
    BY <1>2, <2>1, <2>4 DEF RevokedRow
  <2>6. s \in AttemptStates \ Running
    BY StatesAre
  <2>7. QED
    BY <2>3, <2>5, <2>6, EndedIsTight
<1>3. QED
  BY <1>1, <1>2

LEMMA RewritesTight ==
    ASSUME PublicationBounds, PInv, PInv', RowsTight, NEW i \in Intents,
           Revoke(i) \/ Cancel(i)
    PROVE  RowsTight' /\ SameLength
<1>1. \A b \in Rows(i) : Row(i, b) \in AttemptRows /\ Tight(Row(i, b))
  BY RowsAre DEF PInv, RowsTight
<1>2. CASE Cancel(i)
  <2>1. PICK rows : /\ rows = [b \in Rows(i) |-> CancelledRow(Row(i, b))]
                    /\ attempts' = [attempts EXCEPT ![i] = rows]
    BY <1>2 DEF Cancel
  <2>2. /\ DOMAIN rows = Rows(i)
        /\ \A b \in Rows(i) : rows[b] = CancelledRow(Row(i, b))
    BY <2>1
  <2>3. \A b \in Rows(i) : Tight(rows[b])
    BY <1>1, <2>2, CancelledIsTight
  <2>4. QED
    BY <2>1, <2>2, <2>3, RowsRewrittenTight
<1>3. CASE Revoke(i)
  <2>1. PICK rows : /\ rows = [b \in Rows(i) |-> RevokedRow(Row(i, b))]
                    /\ attempts' = [attempts EXCEPT ![i] = rows]
    BY <1>3 DEF Revoke
  <2>2. /\ DOMAIN rows = Rows(i)
        /\ \A b \in Rows(i) : rows[b] = RevokedRow(Row(i, b))
    BY <2>1
  <2>3. \A b \in Rows(i) : Tight(rows[b])
    BY <1>1, <2>2, RevokedIsTight
  <2>4. QED
    BY <2>1, <2>2, <2>3, RowsRewrittenTight
<1>4. QED
  BY <1>2, <1>3

LEMMA ReconcilePresentTight ==
    ASSUME PublicationBounds, PInv, RowsTight, NEW i \in Intents, ReconcilePresent(i)
    PROVE  RowsTight' /\ SameLength
<1>1. PICK a \in Nat : a = Latest(i) /\ a \in Rows(i)
  BY RowsAre DEF PInv, ReconcilePresent
<1>2. Row(i, a) \in AttemptRows /\ Tight(Row(i, a)) /\ Typed
      /\ Row(i, a).steps[2] \in StepRows
  BY <1>1, RowsAre DEF PInv, RowsTight, AttemptRows
<1>3. PICK steps : steps = [Row(i, a).steps EXCEPT ![2].state = "SUCCEEDED"]
  OBVIOUS
<1>4. steps \in [1..2 -> StepRows] /\ \A k \in 1..2 : steps[k].retries <= MaxRetries
  <2>1. /\ [Row(i, a).steps[2] EXCEPT !.state = "SUCCEEDED"] \in StepRows
        /\ [Row(i, a).steps[2] EXCEPT !.state = "SUCCEEDED"].retries
              = Row(i, a).steps[2].retries
    BY <1>2, StepSet, StepKeepsRetries, StatesAre
  <2>2. Row(i, a).steps \in [1..2 -> StepRows]
    BY <1>2 DEF AttemptRows
  <2>3. QED
    BY <1>2, <1>3, <2>1, <2>2 DEF Tight
<1>5. PICK r : r = [Row(i, a) EXCEPT !.state = "SUCCEEDED", !.owner = Nobody, !.live = FALSE,
                                     !.steps = steps]
  OBVIOUS
<1>6. attempts' = [attempts EXCEPT ![i] = [@ EXCEPT ![a] = r]]
  BY <1>1, <1>3, <1>5 DEF ReconcilePresent, Row
<1>7. "SUCCEEDED" \in AttemptStates \ Running
  BY StatesAre
<1>8. Tight(r)
  BY <1>2, <1>4, <1>5, <1>7, EndedIsTight
<1>9. QED
  BY <1>1, <1>2, <1>6, <1>8, OneRowTight

LEMMA ReconcileAbsentTight ==
    ASSUME PublicationBounds, PInv, RowsTight, NEW i \in Intents, ReconcileAbsent(i)
    PROVE  RowsTight' /\ SameLength
<1>1. PICK rows :
         /\ rows \in IF target = "X" THEN XAbsentRows(i) ELSE PatreonAbsentRows(i)
         /\ attempts' = [attempts EXCEPT ![i] = rows]
  BY DEF ReconcileAbsent
<1>2. PICK a \in Rows(i), s \in {"FAILED", "AWAITING_HUMAN"}, steps \in [1..2 -> StepRows] :
         /\ \A k \in 1..2 : steps[k].retries = Row(i, a).steps[k].retries
         /\ rows = [attempts[i] EXCEPT ![a] = [Row(i, a) EXCEPT !.state = s,
                      !.owner = Nobody, !.live = FALSE, !.steps = steps]]
  <2>1. CASE target = "X"
    <3>1. PICK a \in Rows(i) :
             rows = [attempts[i] EXCEPT ![a] = [@ EXCEPT !.state = "FAILED",
                        !.owner = Nobody, !.live = FALSE,
                        !.steps = [k \in 1..2 |-> XAbsentStep(Step(i, a, k))]]]
      <4>1. rows \in XAbsentRows(i)
        BY <1>1, <2>1
      <4>2. QED
        BY <4>1, Zenon DEF XAbsentRows
    <3>2. PICK steps : steps = [k \in 1..2 |-> XAbsentStep(Step(i, a, k))]
      OBVIOUS
    <3>3. ASSUME NEW k \in 1..2
          PROVE  /\ XAbsentStep(Step(i, a, k)) \in StepRows
                 /\ XAbsentStep(Step(i, a, k)).retries = Row(i, a).steps[k].retries
      <4>1. Step(i, a, k) = Row(i, a).steps[k] /\ Row(i, a).steps[k] \in StepRows
        BY <3>1, StepIsTight
      <4>2. "FAILED" \in StepStates /\ "CANCELLED" \in StepStates
        BY StatesAre
      <4>3. QED
        BY <4>1, <4>2, StepSet, StepKeepsRetries DEF XAbsentStep
    <3>4. /\ steps \in [1..2 -> StepRows]
          /\ \A k \in 1..2 : steps[k].retries = Row(i, a).steps[k].retries
      BY <3>2, <3>3
    <3>5. rows = [attempts[i] EXCEPT ![a] = [Row(i, a) EXCEPT !.state = "FAILED",
                    !.owner = Nobody, !.live = FALSE, !.steps = steps]]
      BY <3>1, <3>2 DEF Row
    <3>6. QED
      BY <3>4, <3>5
  <2>2. CASE target # "X"
    <3>1. /\ Latest(i) > 0
          /\ rows = [attempts[i] EXCEPT ![Latest(i)] = [@ EXCEPT !.state = "AWAITING_HUMAN",
                      !.owner = Nobody, !.live = FALSE, !.steps[2].state = "AWAITING_HUMAN"]]
      BY <1>1, <2>2 DEF PatreonAbsentRows
    <3>2. PICK a \in Rows(i) : a = Latest(i)
      BY <3>1, RowsAre DEF PInv
    <3>3. PICK steps : steps = [Row(i, a).steps EXCEPT ![2].state = "AWAITING_HUMAN"]
      OBVIOUS
    <3>4. /\ steps \in [1..2 -> StepRows]
          /\ \A k \in 1..2 : steps[k].retries = Row(i, a).steps[k].retries
      <4>1. Row(i, a).steps \in [1..2 -> StepRows] /\ Row(i, a).steps[2] \in StepRows
        BY <3>2, RowsAre DEF PInv, AttemptRows
      <4>2. /\ [Row(i, a).steps[2] EXCEPT !.state = "AWAITING_HUMAN"] \in StepRows
            /\ [Row(i, a).steps[2] EXCEPT !.state = "AWAITING_HUMAN"].retries
                  = Row(i, a).steps[2].retries
        BY <4>1, StepSet, StepKeepsRetries, StatesAre
      <4>3. QED
        BY <3>3, <4>1, <4>2
    <3>5. rows = [attempts[i] EXCEPT ![a] = [Row(i, a) EXCEPT !.state = "AWAITING_HUMAN",
                    !.owner = Nobody, !.live = FALSE, !.steps = steps]]
      BY <3>1, <3>2, <3>3 DEF Row
    <3>6. QED
      BY <3>4, <3>5
  <2>3. QED
    BY <2>1, <2>2
<1>3. Row(i, a) \in AttemptRows /\ Tight(Row(i, a)) /\ Typed
  BY RowsAre DEF PInv, RowsTight
<1>4. PICK r : r = [Row(i, a) EXCEPT !.state = s, !.owner = Nobody, !.live = FALSE,
                                     !.steps = steps]
  OBVIOUS
<1>5. s \in AttemptStates \ Running /\ \A k \in 1..2 : steps[k].retries <= MaxRetries
  BY <1>2, <1>3, StatesAre DEF Tight
<1>6. Tight(r)
  BY <1>3, <1>4, <1>5, EndedIsTight
<1>7. attempts' = [attempts EXCEPT ![i] = [@ EXCEPT ![a] = r]]
  BY <1>1, <1>2, <1>4
<1>8. QED
  BY <1>3, <1>6, <1>7, OneRowTight

-----------------------------------------------------------------------------
(* Each decision of an operator takes a lock_version, of the MaxLock there  *)
(* are; each approval takes a row, of the MaxAttempts there are.            *)

\* The sum of the lock_versions, as the sum of a function.
LEMMA SumOfLocks ==
    ASSUME NEW f
    PROVE  MapThenSumSet(LAMBDA j : f[j].lock, Intents)
              = SumFunctionOnSet([j \in Intents |-> f[j].lock], Intents)
<1> DEFINE locks == [j \in Intents |-> f[j].lock]
           F(g) == g = [s \in SUBSET Intents |-> IF s = {} THEN 0
                          ELSE f[Chosen(s)].lock + g[s \ {Chosen(s)}]]
<1>1. MapThenSumSet(LAMBDA j : f[j].lock, Intents) = (CHOOSE g : F(g))[Intents]
  BY Zenon DEF MapThenSumSet, MapThenFoldSet, Chosen
<1>2. ASSUME NEW g PROVE F(g) <=> IsFold(g, locks, Intents)
  <2>1. ASSUME NEW s \in SUBSET Intents, s # {}
        PROVE  locks[Chosen(s)] = f[Chosen(s)].lock
    BY <2>1 DEF Chosen
  <2>2. [s \in SUBSET Intents |-> IF s = {} THEN 0
                          ELSE f[Chosen(s)].lock + g[s \ {Chosen(s)}]]
        = [s \in SUBSET Intents |-> IF s = {} THEN 0
                          ELSE locks[Chosen(s)] + g[s \ {Chosen(s)}]]
    <3> HIDE DEF locks
    <3>1. QED
      BY <2>1
  <2>3. QED
    BY <2>2, Zenon DEF IsFold
<1>3. (CHOOSE g : F(g)) = (CHOOSE g : IsFold(g, locks, Intents))
  <2> HIDE DEF F
  <2>1. QED
    BY <1>2, Zenon
<1>4. QED
  BY <1>1, <1>3, SumIsFold

LEMMA MayDecideIs == MayDecide <=> Locks < MaxLock
<1>1. MapThenSumSet(LAMBDA j : intent[j].lock, Intents) = SumFunctionOnSet(LockOf, Intents)
  BY SumOfLocks, Zenon DEF LockOf
<1>2. QED
  BY <1>1, Zenon DEF MayDecide, Locks

\* A decision takes the next lock_version, and there is one to take.
Decides(i) ==
    /\ MayDecide
    /\ \A j \in Intents \ {i} : intent'[j] = intent[j] /\ approval'[j] = approval[j]
    /\ intent'[i].lock = intent[i].lock + 1 /\ intent'[i].state # "none"
    /\ approval'[i].revision \in {approval[i].revision, approval[i].revision + 1}

LocksKept ==
    \A j \in Intents : /\ intent'[j].lock = intent[j].lock
                       /\ approval'[j].revision = approval[j].revision
                       /\ intent'[j].state = "none" => intent[j].state = "none"

LEMMA LockIsNext ==
    ASSUME PublicationBounds, Typed, MayDecide, NEW i \in Intents
    PROVE  intent[i].lock + 1 <= MaxLock /\ Locks + 1 <= MaxLock /\ Locks \in Nat
<1>1. IsFiniteSet(Intents) /\ IsFiniteSet(Intents \ {i})
  BY PublicationAssumption, FS_Subset
<1>2. PICK w : w = LockOf
  OBVIOUS
<1>3. \A j \in Intents : w[j] = intent[j].lock /\ w[j] \in Nat
  BY <1>2 DEF Typed, IntentRows, LockOf
<1>4. Locks < MaxLock
  BY MayDecideIs
<1>5. Locks = SumFunctionOnSet(w, Intents)
  BY <1>2 DEF Locks
<1>6. /\ SumFunctionOnSet(w, Intents) = w[i] + SumFunctionOnSet(w, Intents \ {i})
      /\ SumFunctionOnSet(w, Intents \ {i}) \in Nat
      /\ SumFunctionOnSet(w, Intents) \in Nat
  BY <1>1, <1>3, SumWithout, SumInNat
<1>7. QED
  BY <1>3, <1>4, <1>5, <1>6 DEF PublicationBounds

LEMMA DecidesTight ==
    ASSUME PublicationBounds, Typed, NEW i \in Intents, Decides(i),
           \A j \in Intents : Decisions(j)
    PROVE  Locks' <= MaxLock /\ \A j \in Intents : Decisions(j)'
<1>1. IsFiniteSet(Intents) /\ IsFiniteSet(Intents \ {i})
  BY PublicationAssumption, FS_Subset
<1>2. PICK v, w : v = LockOf' /\ w = LockOf
  OBVIOUS
<1>3. \A j \in Intents : /\ w[j] = intent[j].lock /\ w[j] \in Nat
                         /\ v[j] = IF j = i THEN w[j] + 1 ELSE w[j]
  BY <1>2 DEF Typed, IntentRows, Decides, LockOf
<1>4. SumFunctionOnSet(v, Intents) <= 1 + SumFunctionOnSet(w, Intents)
  <2>1. \A j \in Intents : v[j] \in Nat /\ w[j] \in Nat /\ (i # j => v[j] <= w[j])
    BY <1>3
  <2>2. v[i] <= w[i] + 1
    BY <1>3
  <2>3. QED
    BY <1>1, <2>1, <2>2, SumOfOneMore
<1>5. SumFunctionOnSet(v, Intents) \in Nat
  <2>1. \A j \in Intents : v[j] \in Nat
    BY <1>3
  <2>2. QED
    BY <1>1, <2>1, SumInNat
<1>6. Locks + 1 <= MaxLock /\ Locks \in Nat
  BY LockIsNext DEF Decides
<1>7. Locks' <= MaxLock
  <2>1. Locks' = SumFunctionOnSet(v, Intents) /\ Locks = SumFunctionOnSet(w, Intents)
    BY <1>2 DEF Locks
  <2>2. QED
    BY <1>4, <1>5, <1>6, <2>1 DEF PublicationBounds
<1>8. ASSUME NEW j \in Intents PROVE Decisions(j)'
  <2>1. /\ intent[j].lock \in Nat /\ approval[j].revision \in Nat
        /\ approval[j].revision <= intent[j].lock
    BY DEF Typed, IntentRows, ApprovalRows, Decisions
  <2>2. CASE j = i
    BY <2>1, <2>2 DEF Decisions, Decides
  <2>3. CASE j # i
    BY <2>3 DEF Decisions, Decides
  <2>4. QED
    BY <2>2, <2>3
<1>9. QED
  BY <1>7, <1>8

LEMMA KeptIsTight ==
    ASSUME Typed, Typed', LocksKept, Locks <= MaxLock, \A j \in Intents : Decisions(j)
    PROVE  Locks' <= MaxLock /\ \A j \in Intents : Decisions(j)'
<1>1. LockOf' = LockOf
  BY DEF LocksKept, LockOf
<1>2. Locks' = Locks
  BY <1>1 DEF Locks
<1>3. \A j \in Intents : Decisions(j)'
  BY DEF LocksKept, Decisions
<1>4. QED
  BY <1>2, <1>3

\* What a decision of the operator makes of the locks.
LEMMA DecisionsDecide ==
    ASSUME Typed, NEW i \in Intents,
           \/ PlanIntent(i) /\ Decisions(i)
           \/ Approve(i)
           \/ Revoke(i)
           \/ Cancel(i)
           \/ ReconcilePresent(i)
           \/ ReconcileAbsent(i)
    PROVE  Decides(i)
<1>1. /\ intent \in [Intents -> IntentRows] /\ approval \in [Intents -> ApprovalRows]
      /\ intent[i].lock \in Nat
  BY DEF Typed, IntentRows
<1>2. MayDecide
  BY DEF PlanIntent, Approve, Revoke, Cancel, ReconcilePresent, ReconcileAbsent
<1>3. \/ UNCHANGED approval
      \/ Decided(i, "APPROVE") \/ Decided(i, "REVOKE")
  BY DEF PlanIntent, Approve, Revoke, Cancel, ReconcilePresent, ReconcileAbsent, world
<1>4. PICK st \in IntentStates \ {"none"} : IntentGoes(i, st)
  <2>1. CASE PlanIntent(i) /\ Decisions(i)
    <3>1. intent[i].lock + 1 = 1
      BY <1>1, <2>1 DEF PlanIntent, Decisions
    <3>2. IntentGoes(i, "AWAITING_APPROVAL")
      BY <2>1, <3>1 DEF PlanIntent, IntentGoes
    <3>3. QED
      BY <3>2 DEF IntentStates
  <2>2. CASE Approve(i)
    BY <2>2 DEF Approve, IntentGoes, IntentStates
  <2>3. CASE Revoke(i)
    <3>1. \/ IntentGoes(i, "UNKNOWN") \/ IntentGoes(i, "AWAITING_APPROVAL")
      BY <2>3 DEF Revoke, IntentGoes
    <3>2. QED
      BY <3>1 DEF IntentStates
  <2>4. CASE Cancel(i)
    BY <2>4 DEF Cancel, IntentGoes, IntentStates
  <2>5. CASE ReconcilePresent(i)
    BY <2>5 DEF ReconcilePresent, IntentGoes, IntentStates
  <2>6. CASE ReconcileAbsent(i)
    <3>1. \/ IntentGoes(i, "AWAITING_HUMAN") \/ IntentGoes(i, "AWAITING_APPROVAL")
      BY <2>6 DEF ReconcileAbsent, IntentGoes
    <3>2. QED
      BY <3>1 DEF IntentStates
  <2>7. QED
    BY <2>1, <2>2, <2>3, <2>4, <2>5, <2>6
<1>5. /\ intent'[i].lock = intent[i].lock + 1 /\ intent'[i].state = st
      /\ \A j \in Intents \ {i} : intent'[j] = intent[j]
  BY <1>1, <1>4 DEF IntentGoes
<1>6. /\ \A j \in Intents \ {i} : approval'[j] = approval[j]
      /\ approval'[i].revision \in {approval[i].revision, approval[i].revision + 1}
  BY <1>1, <1>3 DEF Decided
<1>7. QED
  BY <1>2, <1>5, <1>6 DEF Decides

\* Where the state of an intent moves and its lock_version stays.
LEMMA StateMoves ==
    ASSUME Typed, NEW i \in Intents, NEW st, st # "none" \/ st = intent[i].state,
           intent' = [intent EXCEPT ![i].state = st], approval' = approval
    PROVE  LocksKept
<1>1. intent \in [Intents -> IntentRows]
  BY DEF Typed
<1>2. /\ intent'[i].lock = intent[i].lock /\ intent'[i].state = st
      /\ \A j \in Intents \ {i} : intent'[j] = intent[j]
  BY <1>1 DEF IntentRows
<1>3. QED
  BY <1>2 DEF LocksKept

LEMMA ControllersKeepLocks ==
    ASSUME PInv, NEW w \in Workers, Cycle(w) \/ Crash(w)
    PROVE  LocksKept
<1>1. CASE UNCHANGED <<intent, approval>>
  BY <1>1 DEF LocksKept
<1>2. CASE Recover(w)
  <2>1. PICK i \in Intents, a \in Nat :
           IF Under(i, a) = {} THEN RecoverBare(i, a)
           ELSE \E k \in Under(i, a) : RecoverStep(i, a, k)
    BY <1>2, RowsAre DEF Recover, PInv
  <2>2. PICK st : /\ st # "none" \/ st = intent[i].state
                  /\ intent' = [intent EXCEPT ![i].state = st]
    <3>1. CASE Under(i, a) = {}
      <4>1. CASE Row(i, a).claims >= MaxClaims
        BY <2>1, <3>1, <4>1 DEF RecoverBare
      <4>2. CASE ~(Row(i, a).claims >= MaxClaims)
        BY <2>1, <3>1, <4>2 DEF RecoverBare
      <4>3. QED
        BY <4>1, <4>2
    <3>2. CASE Under(i, a) # {}
      <4>1. PICK k \in Under(i, a) : RecoverStep(i, a, k)
        BY <2>1, <3>2
      <4>2. QED
        BY <4>1 DEF RecoverStep, Writes
    <3>3. QED
      BY <3>1, <3>2
  <2>3. QED
    BY <1>2, <2>2, StateMoves DEF Recover, PInv
<1>3. CASE Claim(w)
  <2>1. PICK i \in Intents :
           \/ intent' = [intent EXCEPT ![i].state = "FAILED"]
           \/ UNCHANGED intent
    BY <1>3 DEF Claim
  <2>2. QED
    BY <1>1, <1>3, <2>1, StateMoves DEF Claim, PInv
<1>4. CASE BeginEffect(w)
  <2>1. pc[w].i \in Intents
    BY <1>4, Holding DEF BeginEffect, At
  <2>2. \/ intent' = [intent EXCEPT ![pc[w].i].state = "PROCESSING"]
        \/ UNCHANGED intent
    BY <1>4 DEF BeginEffect
  <2>3. QED
    BY <1>1, <1>4, <2>1, <2>2, StateMoves DEF BeginEffect, PInv
<1>5. CASE Settle(w)
  <2>1. pc[w].i \in Intents
    BY <1>5, Holding DEF Settle, At
  <2>2. PICK i \in Intents : i = pc[w].i
    BY <2>1
  <2>3. CASE Close(w, i, pc[w].a, pc[w].k, Step(i, pc[w].a, pc[w].k))
    <3>1. PICK st : st # "none" /\ intent' = [intent EXCEPT ![i].state = st]
      BY <2>3 DEF Close, ScheduleRetry, Writes
    <3>2. QED
      BY <1>5, <3>1, StateMoves DEF Settle, PInv
  <2>4. CASE UNCHANGED intent
    BY <1>1, <1>5, <2>4 DEF Settle
  <2>5. QED
    BY <1>5, <2>2, <2>3, <2>4 DEF Settle, Advance
<1>6. QED
  BY <1>1, <1>2, <1>3, <1>4, <1>5
  DEF Cycle, Crash, Snapshot, InputRefused, NoRequest, BuildPackage, HandOver,
      StartRequest, UploadAnswered, PostCreated, PostRefused, PostUncertain

LEMMA StepsDecide ==
    ASSUME PInv, \A j \in Intents : Decisions(j), [Next]_vars
    PROVE  LocksKept \/ \E i \in Intents : Decides(i)
<1>1. CASE UNCHANGED <<intent, approval>>
  BY <1>1 DEF LocksKept
<1>2. CASE \E w \in Workers : Cycle(w) \/ Crash(w)
  BY <1>2, ControllersKeepLocks
<1>3. ASSUME NEW i \in Intents,
             \/ PlanIntent(i) \/ Approve(i) \/ Revoke(i) \/ Cancel(i)
             \/ ReconcilePresent(i) \/ ReconcileAbsent(i)
      PROVE  Decides(i)
  BY <1>3, DecisionsDecide DEF PInv
<1>4. ASSUME NEW i \in Intents, ApprovalExpires(i) PROVE LocksKept
  <2>1. approval \in [Intents -> ApprovalRows]
    BY DEF PInv, Typed
  <2>2. \A j \in Intents : approval'[j].revision = approval[j].revision
    BY <1>4, <2>1 DEF ApprovalExpires, ApprovalRows
  <2>3. QED
    BY <1>4, <2>2 DEF ApprovalExpires, LocksKept
<1>5. QED
  BY <1>1, <1>2, <1>3, <1>4
  DEF Next, vars, Operator, Download, PostByHand, LeaseExpires, Land, SetGuard,
      ReleaseSuperseded

\* The rows of an intent fit in the bound on all of them.
LEMMA RowsAreFew ==
    ASSUME PublicationBounds, Typed, NEW i \in Intents, Latest(i) <= MaxAttempts,
           Cardinality(AllRows) < MaxAttempts
    PROVE  Latest(i) < MaxAttempts
<1>1. Latest(i) \in Nat /\ Rows(i) = 1..Latest(i)
  BY RowsAre
<1>2. IsFiniteSet(AllRows)
  <2>1. IsFiniteSet(1..MaxAttempts)
    BY FS_Interval DEF PublicationBounds
  <2>2. IsFiniteSet(Intents \X (1..MaxAttempts))
    BY <2>1, FS_Product, PublicationAssumption
  <2>3. QED
    BY <2>2, FS_Subset DEF AllRows
<1>3. PICK own : own = {i} \X (1..Latest(i))
  OBVIOUS
<1>4. own \subseteq AllRows
  BY <1>1, <1>3 DEF AllRows, PublicationBounds
<1>5. IsFiniteSet(own) /\ Cardinality(own) = Latest(i)
  <2>1. IsFiniteSet({i}) /\ Cardinality({i}) = 1
    BY FS_Singleton
  <2>2. IsFiniteSet(1..Latest(i)) /\ Cardinality(1..Latest(i)) = Latest(i)
    BY <1>1, FS_Interval
  <2>3. Cardinality({i} \X (1..Latest(i))) = Cardinality({i}) * Cardinality(1..Latest(i))
    BY <2>1, <2>2, FS_Product
  <2>4. IsFiniteSet({i} \X (1..Latest(i)))
    BY <2>1, <2>2, FS_Product
  <2>5. QED
    BY <1>1, <1>3, <2>1, <2>2, <2>3, <2>4
<1>6. Cardinality(own) <= Cardinality(AllRows)
  BY <1>2, <1>4, FS_Subset
<1>7. Cardinality(AllRows) \in Nat
  BY <1>2, FS_CardinalityType
<1>8. QED
  BY <1>1, <1>5, <1>6, <1>7 DEF PublicationBounds

LEMMA ApproveTight ==
    ASSUME PublicationBounds, PInv, LInv, NEW i \in Intents, Approve(i)
    PROVE  /\ RowsTight'
           /\ \A j \in Intents : Latest(j)' <= MaxAttempts /\ Rows(j) \subseteq Rows(j)'
<1>1. /\ \A j \in Intents : attempts[j] \in Seq(AttemptRows)
      /\ attempts \in [Intents -> Seq(AttemptRows)]
      /\ \A j \in Intents : Rows(j) = 1..Latest(j) /\ Latest(j) \in Nat
  BY RowsAre DEF PInv, Typed
<1>2. PICK n \in Nat : n = Latest(i)
  BY <1>1
<1>3. PICK r \in AttemptRows : r = NewAttempt(i)
  BY NewAttemptIs DEF PInv
<1>4. /\ attempts'[i] = Append(attempts[i], r)
      /\ \A j \in Intents \ {i} : attempts'[j] = attempts[j]
  BY <1>1, <1>3 DEF Approve
<1>5. /\ Latest(i)' = n + 1 /\ Rows(i)' = 1..(n + 1) /\ Row(i, n + 1)' = r
      /\ \A a \in Rows(i) : Row(i, a)' = Row(i, a)
  BY <1>1, <1>2, <1>3, <1>4 DEF Latest, Rows, Row
<1>6. \A j \in Intents \ {i} : /\ Latest(j)' = Latest(j) /\ Rows(j)' = Rows(j)
                               /\ \A a \in Rows(j) : Row(j, a)' = Row(j, a)
  BY <1>4 DEF Latest, Rows, Row
<1>7. Tight(r)
  <2>1. intent[i].lock + 1 <= MaxLock
    BY LockIsNext DEF PInv, Approve
  <2>2. approval[i].revision <= intent[i].lock /\ approval[i].revision \in Nat
        /\ intent[i].lock \in Nat
    BY DEF LInv, Decisions, PInv, Typed, ApprovalRows, IntentRows
  <2>3. approval[i].revision + 1 \in 1..MaxLock
    BY <2>1, <2>2 DEF PublicationBounds
  <2>4. /\ r.claims = 0 /\ r.owner = Nobody /\ r.state = "QUEUED"
        /\ r.approval = approval[i].revision + 1
        /\ \A k \in 1..2 : r.steps[k].retries = 0
    BY <1>3 DEF NewAttempt
  <2>5. QED
    BY <2>3, <2>4, PublicationAssumption DEF Tight, Running
<1>8. ASSUME NEW j \in Intents, NEW b \in Rows(j)' PROVE Tight(Row(j, b)')
  <2>1. CASE j = i /\ b = n + 1
    BY <1>5, <1>7, <2>1
  <2>2. CASE ~(j = i /\ b = n + 1)
    <3>1. b \in Rows(j) /\ Row(j, b)' = Row(j, b)
      BY <1>1, <1>2, <1>5, <1>6, <1>8, <2>2
    <3>2. QED
      BY <3>1 DEF LInv, RowsTight
  <2>3. QED
    BY <2>1, <2>2
<1>9. Latest(i) < MaxAttempts
  BY RowsAreFew DEF Approve, LInv, PInv
<1>10. ASSUME NEW j \in Intents PROVE Latest(j)' <= MaxAttempts /\ Rows(j) \subseteq Rows(j)'
  <2>1. CASE j = i
    BY <1>1, <1>2, <1>5, <1>9, <2>1 DEF PublicationBounds
  <2>2. CASE j # i
    BY <1>6, <2>2 DEF LInv
  <2>3. QED
    BY <2>1, <2>2
<1>11. QED
  BY <1>8, <1>10 DEF RowsTight, Tight

LEMMA StepsTight ==
    ASSUME PublicationBounds, PInv, PInv', LInv, [Next]_vars
    PROVE  /\ RowsTight'
           /\ \A j \in Intents : Latest(j)' <= MaxAttempts /\ Rows(j) \subseteq Rows(j)'
<1>1. RowsTight /\ \A j \in Intents : Latest(j) <= MaxAttempts
  BY DEF LInv
<1>2. CASE RowsTight' /\ SameLength
  BY <1>1, <1>2 DEF SameLength
<1>3. CASE UNCHANGED attempts
  BY <1>1, <1>2, <1>3, NoRowTight
<1>4. CASE \E i \in Intents : Approve(i)
  BY <1>4, ApproveTight
<1>5. ASSUME NEW i \in Intents,
             \/ Revoke(i) \/ Cancel(i) \/ ReconcilePresent(i) \/ ReconcileAbsent(i)
             \/ LeaseExpires(i)
      PROVE  RowsTight' /\ SameLength
  BY <1>1, <1>5, RewritesTight, ReconcilePresentTight, ReconcileAbsentTight, LeaseExpiresTight
<1>6. ASSUME NEW w \in Workers,
             Recover(w) \/ Claim(w) \/ BeginEffect(w) \/ StartRequest(w) \/ Settle(w)
      PROVE  RowsTight' /\ SameLength
  BY <1>1, <1>6, RecoverTight, ClaimTight, BeginEffectTight, StartRequestTight, SettleTight
<1>7. QED
  BY <1>2, <1>3, <1>4, <1>5, <1>6
  DEF Next, vars, Operator, PlanIntent, Download, PostByHand, ApprovalExpires, Land,
      SetGuard, ReleaseSuperseded, Cycle, Crash, Snapshot, InputRefused, NoRequest,
      BuildPackage, HandOver, UploadAnswered, PostCreated, PostRefused, PostUncertain

\* A call is made for a row.
LEMMA CallsAreOfRows ==
    ASSUME PInv, [Next]_vars, NEW c \in calls'
    PROVE  c \in calls \/ (c[1] \in Intents /\ c[2] \in Rows(c[1]))
<1>1. CASE calls' \subseteq calls
  BY <1>1
<1>2. ASSUME NEW w \in Workers, StartRequest(w)
      PROVE  c \in calls \/ (c[1] \in Intents /\ c[2] \in Rows(c[1]))
  <2>1. pc[w].i \in Intents /\ pc[w].a \in Rows(pc[w].i)
    BY <1>2, Holding DEF StartRequest, At
  <2>2. c \in calls \/ c = <<pc[w].i, pc[w].a>>
    BY <1>2 DEF StartRequest
  <2>3. QED
    BY <2>1, <2>2
<1>3. QED
  BY <1>1, <1>2
  DEF Next, vars, Operator, PlanIntent, Approve, Revoke, Cancel, ReconcilePresent,
      ReconcileAbsent, Download, PostByHand, ApprovalExpires, LeaseExpires, Land,
      SetGuard, ReleaseSuperseded, Cycle, Crash, Recover, Claim, Snapshot, InputRefused,
      BeginEffect, NoRequest, BuildPackage, HandOver, UploadAnswered, PostCreated,
      PostRefused, PostUncertain, Settle

LEMMA InitLInv == ASSUME PublicationBounds, Init PROVE LInv
<1>1. \A i \in Intents : Rows(i) = {} /\ Latest(i) = 0
  BY DEF Init, Rows, Latest
<1>2. \A i \in Intents : Decisions(i)
  BY DEF Init, Decisions
<1>3. Locks = 0
  <2>1. PICK w : w = LockOf
    OBVIOUS
  <2>2. \A i \in Intents : w[i] = 0
    BY <2>1 DEF Init, LockOf
  <2>3. QED
    BY <2>1, <2>2, SumOfZeros, PublicationAssumption DEF Locks
<1>4. QED
  BY <1>1, <1>2, <1>3 DEF Init, LInv, RowsTight, PublicationBounds

LEMMA NextLInv ==
    ASSUME PublicationBounds, PInv, LInv, [Next]_vars
    PROVE  LInv'
<1>1. PInv' /\ Typed /\ Typed'
  BY NextPInv DEF PInv
<1>2. /\ RowsTight'
      /\ \A j \in Intents : Latest(j)' <= MaxAttempts /\ Rows(j) \subseteq Rows(j)'
  BY <1>1, StepsTight
<1>3. Locks' <= MaxLock /\ \A j \in Intents : Decisions(j)'
  BY <1>1, StepsDecide, KeptIsTight, DecidesTight DEF LInv
<1>4. \A c \in calls' : c[2] \in Rows(c[1])'
  <2>1. ASSUME NEW c \in calls' PROVE c[2] \in Rows(c[1])'
    <3>1. c[1] \in Intents
      BY <1>1 DEF Typed
    <3>2. c[2] \in Rows(c[1])
      BY CallsAreOfRows DEF LInv
    <3>3. QED
      BY <1>2, <3>1, <3>2
  <2>2. QED
    BY <2>1
<1>5. QED
  BY <1>2, <1>3, <1>4 DEF LInv

\* Every row stays in the bounds of its table, an attempt is claimed and a step
\* retried no more often than it may be, and a lease belongs to a running attempt.
THEOREM WithinLimits == ASSUME PublicationBounds PROVE Spec => []LInv
<1>1. PInv /\ LInv /\ [Next]_vars => LInv'
  BY NextLInv
<1>2. Init => LInv
  BY InitLInv
<1>3. QED
  BY <1>1, <1>2, Inductive, PTL DEF Spec

LEMMA LimitsGiveType == ASSUME PublicationBounds, PInv, LInv PROVE TypeOK
<1>1. intent \in [Intents -> [lock : 0..MaxLock, state : IntentStates]]
  <2>1. ASSUME NEW i \in Intents PROVE intent[i] \in [lock : 0..MaxLock, state : IntentStates]
    <3>1. IsFiniteSet(Intents) /\ IsFiniteSet(Intents \ {i})
      BY PublicationAssumption, FS_Subset
    <3>2. PICK w : w = LockOf
      OBVIOUS
    <3>3. \A j \in Intents : w[j] = intent[j].lock /\ w[j] \in Nat
      BY <3>2 DEF PInv, Typed, IntentRows, LockOf
    <3>4. /\ SumFunctionOnSet(w, Intents) = w[i] + SumFunctionOnSet(w, Intents \ {i})
          /\ SumFunctionOnSet(w, Intents \ {i}) \in Nat
      BY <3>1, <3>3, SumWithout, SumInNat
    <3>5. SumFunctionOnSet(w, Intents) <= MaxLock
      BY <3>2 DEF LInv, Locks
    <3>6. intent[i].lock \in 0..MaxLock
      BY <3>3, <3>4, <3>5 DEF PublicationBounds
    <3>7. QED
      BY <3>6 DEF PInv, Typed, IntentRows
  <2>2. QED
    BY <2>1 DEF PInv, Typed
<1>2. ASSUME NEW i \in Intents
      PROVE  /\ attempts[i] \in Seq(AttemptRecords)
             /\ \A a \in Rows(i) : (Row(i, a).owner # Nobody) <=> Row(i, a).state \in Running
  <2>1. /\ attempts[i] \in Seq(AttemptRows) /\ Rows(i) = 1..Latest(i)
        /\ \A a \in Rows(i) : Row(i, a) \in AttemptRows /\ Tight(Row(i, a))
    BY RowsAre DEF PInv, LInv, RowsTight
  <2>2. ASSUME NEW a \in Rows(i) PROVE Row(i, a) \in AttemptRecords
    <3>1. /\ Row(i, a) \in AttemptRows /\ Row(i, a).claims \in 0..MaxClaims
          /\ Row(i, a).approval \in 1..MaxLock
      BY <2>1, PublicationAssumption DEF AttemptRows, Tight
    <3>2. \A k \in 1..2 : Row(i, a).steps[k] \in StepRecords
      <4>1. ASSUME NEW k \in 1..2 PROVE Row(i, a).steps[k] \in StepRecords
        <5>1. Row(i, a).steps[k] \in StepRows /\ Row(i, a).steps[k].retries <= MaxRetries
          BY <2>1 DEF AttemptRows, Tight
        <5>2. Row(i, a).steps[k].retries \in 0..MaxRetries
          BY <5>1, PublicationAssumption DEF StepRows
        <5>3. QED
          BY <5>1, <5>2 DEF StepRows, StepRecords, Requests
      <4>2. QED
        BY <4>1
    <3>3. Row(i, a).steps \in [1..2 -> StepRecords]
      BY <3>1, <3>2 DEF AttemptRows
    <3>4. QED
      BY <3>1, <3>3 DEF AttemptRows, AttemptRecords
  <2>3. attempts[i] \in Seq(AttemptRecords)
    <3>1. \A a \in 1..Len(attempts[i]) : attempts[i][a] \in AttemptRecords
      BY <2>1, <2>2 DEF Row, Latest
    <3>2. QED
      BY <2>1, <3>1
  <2>4. QED
    BY <2>1, <2>3 DEF Tight
<1>3. calls \subseteq Intents \X (1..MaxAttempts)
  <2>1. ASSUME NEW c \in calls PROVE c \in Intents \X (1..MaxAttempts)
    <3>1. c \in Intents \X Nat /\ c[2] \in Rows(c[1])
      BY DEF PInv, Typed, LInv
    <3>2. c[2] \in 1..Latest(c[1]) /\ Latest(c[1]) \in Nat /\ Latest(c[1]) <= MaxAttempts
      BY <3>1, RowsAre DEF PInv, LInv
    <3>3. QED
      BY <3>1, <3>2 DEF PublicationBounds
  <2>2. QED
    BY <2>1
<1>4. posts \in [Intents -> Nat] /\ absents \in [Intents -> Nat]
  BY DEF PInv, Typed
<1>5. QED
  BY <1>1, <1>2, <1>3, <1>4 DEF TypeOK, IntentStates

\* The rows keep the shape of the tables, and a lease belongs to a running
\* attempt exactly (the CHECK constraints of publication_attempts).
THEOREM PublicationTyping == ASSUME PublicationBounds PROVE Spec => []TypeOK
<1>1. PInv /\ LInv => TypeOK
  BY LimitsGiveType
<1>2. QED
  BY <1>1, Inductive, WithinLimits, PTL
=============================================================================
