---------------------------- MODULE RuntimeProofs ----------------------------
(* The theorems about the three models of Salad's container groups, for any *)
(* versions and any demand, for any attempts, artifacts and leases, and for *)
(* any worker images and any number of changes of the group.                *)
(*                                                                          *)
(* SaladDeployments: a version recorded as stopped is quiet, and a group is *)
(* only created beside quiet ones, as far as their groups are recorded.     *)
(*                                                                          *)
(* RuntimeAdmission: no worker is reloaded under a job in flight, and       *)
(* without warm leases what was staged for an attempt can be carried out.   *)
(*                                                                          *)
(* WorkerRollout: wherever a rollout fails, is killed or loses its host,    *)
(* the open queue has its own worker, a worker at work is left alone, and   *)
(* what is needed to come back is kept.                                     *)
EXTENDS SaladDeployments, RuntimeAdmission, WorkerRollout, WellFoundedInduction,
        FiniteSetTheorems, TLAPS

-----------------------------------------------------------------------------
(* SaladDeployments: the inductive invariant.                               *)

\* A version that does not exist has nothing; a stop is final, and recorded
\* where it is confirmed; only the current version is meant to be active.
RowFits(d) ==
  /\ row[d].state = "none" => ~row[d].current /\ ~row[d].stopped
  /\ row[d].stopped => row[d].desired = "STOPPED" /\ row[d].state # "none"
  /\ row[d].state = "STOPPED" => row[d].stopped
  /\ row[d].desired = "ACTIVE" => row[d].current

OneCurrent == \A d, e \in Versions : row[d].current /\ row[e].current => d = e

DInv == /\ TypeOK /\ StoppedIsQuiet
        /\ (\A d \in Versions : RowFits(d)) /\ OneCurrent

-----------------------------------------------------------------------------
(* What a pass may commit.                                                  *)

\* A row that keeps what was recorded of a version, but for its state.
Marked(r, s) ==
  /\ s \in DeploymentRows /\ s.current = r.current /\ s.desired = r.desired
  /\ s.queue = r.queue /\ s.group = r.group /\ s.stopped = r.stopped
  /\ s = r \/ s.state \in States \ {"STOPPED"}

\* The same, but that a stop may be asked for.
Asked(r, s) ==
  /\ s \in DeploymentRows /\ s.current = r.current /\ s.state = r.state
  /\ s.desired \in {r.desired, "STOPPED"}
  /\ s.queue = r.queue /\ s.group = r.group /\ s.stopped = r.stopped

\* One pass over a version moves its row so.
Moved(d, s) ==
  /\ s \in DeploymentRows /\ s.state # "none" /\ s.current = row[d].current
  /\ s.desired \in {row[d].desired, "STOPPED"}
  /\ s.state = "STOPPED" => s.stopped
  /\ s.stopped => row[d].stopped \/ (s.desired = "STOPPED" /\ Quiet(d)')
  /\ s.queue => d \in queue'
  /\ s.group => group'[d] # "none"

\* The provider keeps what is recorded, and what is recorded as stopped.
GroupsKept == /\ group' \in [Versions -> {"none", "running", "stopping", "stopped"}]
        /\ queue' \subseteq Versions /\ minimum' \subseteq Versions
        /\ busy' \subseteq Versions /\ queue \subseteq queue'
        /\ \A e \in Versions :
             /\ group[e] # "none" => group'[e] # "none"
             /\ row[e].state = "none" => group'[e] = "none"
             /\ row[e].stopped => Quiet(e)'

DemandFits == wanted' \subseteq Versions /\ exhausted' \in BOOLEAN /\ allowed' \in BOOLEAN

LEMMA Marks ==
  ASSUME NEW r \in DeploymentRows
  PROVE  /\ Marked(r, Unknown(r)) /\ Marked(r, Failed(r)) /\ Marked(r, Limited(r))
         /\ Marked(r, Interrupted(r)) /\ Marked(r, r)
         /\ Unknown(r).state = "UNKNOWN" /\ Failed(r).state \in {"DEGRADED", "FAILED"}
         /\ Limited(r).state \in {"DEGRADED", "PROVISIONING"}
         /\ Interrupted(r) = r \/ Interrupted(r).state = "UNKNOWN"
<1>1. Marked(r, Unknown(r)) /\ Unknown(r).state = "UNKNOWN"
  BY DEF Unknown, Marked, DeploymentRows, States
<1>2. ASSUME NEW s \in {"FAILED", "PROVISIONING"}
      PROVE  Marked(r, Degraded(r, s)) /\ Degraded(r, s).state \in {"DEGRADED", s}
  BY DEF Degraded, Marked, DeploymentRows, States
<1>3. Marked(r, r)
  BY DEF Marked
<1>4. QED
  BY <1>1, <1>2, <1>3 DEF Failed, Limited, Interrupted

\* The allocation and the budget ask for stops, and change nothing else.
LEMMA FencedIs ==
  ASSUME DInv
  PROVE  /\ Fenced \in [Versions -> DeploymentRows]
         /\ Swept \in [Versions -> DeploymentRows]
         /\ \A e \in Versions : /\ Asked(row[e], Fenced[e]) /\ Asked(row[e], Swept[e])
                               /\ Asked(row[e], KillSwitch(row)[e])
                               /\ Asked(row[e], Disabled(row)[e])
         /\ \A e \in Versions :
              /\ Swept[e].desired = "ACTIVE" => row[e].desired = "ACTIVE"
              /\ Swept[e].desired = "STOPPED" => Fenced[e].desired = "STOPPED"
              /\ (exhausted /\ row[e].state # "none") => Fenced[e].desired = "STOPPED"
         /\ KillSwitch(row) \in [Versions -> DeploymentRows]
         /\ Disabled(row) \in [Versions -> DeploymentRows]
<1>1. row \in [Versions -> DeploymentRows]
  BY DEF DInv, TypeOK
<1>2. ASSUME NEW r \in DeploymentRows
      PROVE  Asked(r, r) /\ Asked(r, MustStop(r)) /\ MustStop(r).desired = "STOPPED"
  BY DEF Asked, MustStop, DeploymentRows
<1>3. ASSUME NEW rs \in [Versions -> DeploymentRows]
      PROVE  /\ \A e \in Versions : Asked(rs[e], KillSwitch(rs)[e])
             /\ \A e \in Exists : KillSwitch(rs)[e].desired = "STOPPED"
             /\ KillSwitch(rs) \in [Versions -> DeploymentRows]
  <2>1. \A e \in Versions :
            KillSwitch(rs)[e] = IF e \in Exists THEN MustStop(rs[e]) ELSE rs[e]
    BY DEF KillSwitch
  <2>2. \A e \in Versions : /\ Asked(rs[e], KillSwitch(rs)[e])
                            /\ e \in Exists => KillSwitch(rs)[e].desired = "STOPPED"
    BY <1>2, <2>1
  <2>3. \A e \in Versions : KillSwitch(rs)[e] \in DeploymentRows
    BY <2>2 DEF Asked
  <2>4. KillSwitch(rs) \in [Versions -> DeploymentRows]
    BY <2>3 DEF KillSwitch
  <2>5. QED
    BY <2>2, <2>4 DEF Exists
<1>4. ASSUME NEW rs \in [Versions -> DeploymentRows]
      PROVE  /\ \A e \in Versions : Asked(rs[e], Disabled(rs)[e])
             /\ Disabled(rs) \in [Versions -> DeploymentRows]
  <2>1. \A e \in Versions : Disabled(rs)[e] \in {MustStop(rs[e]), rs[e]}
    BY DEF Disabled
  <2>2. \A e \in Versions : Asked(rs[e], Disabled(rs)[e])
    BY <1>2, <2>1
  <2>3. \A e \in Versions : Disabled(rs)[e] \in DeploymentRows
    BY <2>2 DEF Asked
  <2>4. Disabled(rs) \in [Versions -> DeploymentRows]
    BY <2>3 DEF Disabled
  <2>5. QED
    BY <2>2, <2>4
<1>5. /\ Swept \in [Versions -> DeploymentRows]
      /\ \A e \in Versions : Asked(row[e], Swept[e])
  BY <1>1, <1>2, <1>4 DEF Swept
<1>6. /\ Fenced \in [Versions -> DeploymentRows]
      /\ \A e \in Versions : Asked(Swept[e], Fenced[e])
  BY <1>2, <1>3, <1>5 DEF Fenced
<1>7. \A e \in Versions : Asked(row[e], Fenced[e])
  BY <1>5, <1>6 DEF Asked
<1>8. \A e \in Versions :
         (exhausted /\ row[e].state # "none") => Fenced[e].desired = "STOPPED"
  BY <1>3, <1>5 DEF Fenced, Exists
<1>9. \A e \in Versions : Swept[e].desired = "STOPPED" => Fenced[e].desired = "STOPPED"
  BY <1>6 DEF Asked
<1>10. \A e \in Versions : Swept[e].desired = "ACTIVE" => row[e].desired = "ACTIVE"
  BY <1>1, <1>5 DEF Asked
<1>11. QED
  BY <1>1, <1>3, <1>4, <1>5, <1>6, <1>7, <1>8, <1>9, <1>10

\* Each row is as it was, asked to stop, or moved by a pass.
LEMMA RowsMove ==
  ASSUME DInv, GroupsKept, DemandFits, row' \in [Versions -> DeploymentRows],
         \A e \in Versions : \/ Asked(row[e], row'[e])
                             \/ Moved(e, row'[e]) /\ row[e].state # "none"
  PROVE  DInv'
<1>1. TypeOK'
  BY DEF DInv, TypeOK, GroupsKept, DemandFits, Asked, Moved
<1>2. StoppedIsQuiet'
  BY DEF GroupsKept, Asked, Moved, StoppedIsQuiet, Quiet
<1>3. OneCurrent'
  BY DEF DInv, OneCurrent, Asked, Moved
<1>4. \A e \in Versions : RowFits(e)'
  BY DEF DInv, RowFits, Asked, Moved
<1>5. QED
  BY <1>1, <1>2, <1>3, <1>4 DEF DInv

LEMMA PassCommits ==
  ASSUME DInv, GroupsKept, DemandFits, NEW d \in Versions, row[d].state # "none",
         NEW s, Moved(d, s),
         row' = [Fenced EXCEPT ![d] = s] \/ row' = [row EXCEPT ![d] = s]
  PROVE  DInv'
<1>1. /\ row \in [Versions -> DeploymentRows] /\ s \in DeploymentRows
      /\ \A e \in Versions : Asked(row[e], row[e])
  BY DEF DInv, TypeOK, Moved, Asked
<1>2. /\ row' \in [Versions -> DeploymentRows] /\ row'[d] = s
      /\ \A e \in Versions \ {d} : Asked(row[e], row'[e])
  BY <1>1, FencedIs
<1>3. QED
  BY <1>2, RowsMove

\* A mark of a row that a pass may commit may be committed as well.
LEMMA MarkMoves ==
  ASSUME DInv, NEW d \in Versions, NEW r, NEW s, Moved(d, r), Marked(r, s)
  PROVE  Moved(d, s)
  BY DEF Marked, Moved, States

-----------------------------------------------------------------------------
(* The outcomes of a call.                                                  *)

Ends(d, r, done, o) ==
  \/ o[1] /\ o[2] = [Fenced EXCEPT ![d] = done]
  \/ \E s \in {Unknown(r), Failed(r), Limited(r)} : o[2] = [Fenced EXCEPT ![d] = s]
  \/ \E s \in {row[d], Interrupted(row[d])} : o[2] = [row EXCEPT ![d] = s]

LEMMA OutcomesAre ==
  ASSUME NEW d, NEW r, NEW done
  PROVE  \A o \in Outcomes(d, r, done) : o[1] \in BOOLEAN /\ Ends(d, r, done, o)
<1> SUFFICES ASSUME NEW o \in Outcomes(d, r, done)
             PROVE  o[1] \in BOOLEAN /\ Ends(d, r, done, o)
  OBVIOUS
<1>1. CASE \E a \in Answered(r, done) : o = <<a[1], [Fenced EXCEPT ![d] = a[2]]>>
  <2>1. PICK a \in Answered(r, done) : o = <<a[1], [Fenced EXCEPT ![d] = a[2]]>>
    BY <1>1
  <2>2. /\ a[1] \in BOOLEAN
        /\ (a[1] /\ a[2] = done) \/ a[2] \in {Unknown(r), Failed(r), Limited(r)}
    <3>1. \/ a = <<TRUE, done>>
          \/ \E b \in BOOLEAN, s \in {Unknown(r), Failed(r), Limited(r)} : a = <<b, s>>
      BY ZenonT(30) DEF Answered
    <3>2. CASE a = <<TRUE, done>>
      BY <3>2
    <3>3. CASE \E b \in BOOLEAN, s \in {Unknown(r), Failed(r), Limited(r)} : a = <<b, s>>
      BY <3>3
    <3>4. QED
      BY <3>1, <3>2, <3>3
  <2>3. o[1] = a[1] /\ o[2] = [Fenced EXCEPT ![d] = a[2]]
    BY <2>1
  <2>4. QED
    BY <2>2, <2>3 DEF Ends
<1>2. CASE \E a \in Lost(row[d]) : o = <<a[1], [row EXCEPT ![d] = a[2]]>>
  <2>1. PICK a \in Lost(row[d]) : o = <<a[1], [row EXCEPT ![d] = a[2]]>>
    BY <1>2
  <2>2. a[1] \in BOOLEAN /\ a[2] \in {row[d], Interrupted(row[d])}
    BY DEF Lost
  <2>3. o[1] = a[1] /\ o[2] = [row EXCEPT ![d] = a[2]]
    BY <2>1
  <2>4. QED
    BY <2>2, <2>3 DEF Ends
<1>3. QED
  BY <1>1, <1>2 DEF Outcomes

\* What a row may become it may become after a pass that dies, too.
LEMMA Stays ==
  ASSUME DInv, GroupsKept, NEW d \in Versions, row[d].state # "none"
  PROVE  Moved(d, row[d]) /\ Moved(d, Interrupted(row[d]))
<1>1. row[d] \in DeploymentRows /\ Moved(d, row[d])
  BY DEF DInv, TypeOK, RowFits, Moved, GroupsKept
<1>2. QED
  BY <1>1, Marks, MarkMoves

LEMMA CallCommits ==
  ASSUME DInv, GroupsKept, DemandFits, NEW d \in Versions, row[d].state # "none",
         NEW r, Moved(d, r), NEW done, NEW o, o \in Outcomes(d, r, done), row' = o[2],
         o[1] => Moved(d, done)
  PROVE  DInv'
<1>1. r \in DeploymentRows
  BY DEF Moved
<1>2. Moved(d, Unknown(r)) /\ Moved(d, Failed(r)) /\ Moved(d, Limited(r))
  BY <1>1, Marks, MarkMoves
<1>3. CASE o[1] /\ o[2] = [Fenced EXCEPT ![d] = done]
  BY <1>3, PassCommits
<1>4. CASE \E s \in {Unknown(r), Failed(r), Limited(r)} : o[2] = [Fenced EXCEPT ![d] = s]
  BY <1>2, <1>4, PassCommits
<1>5. CASE \E s \in {row[d], Interrupted(row[d])} : o[2] = [row EXCEPT ![d] = s]
  BY <1>5, Stays, PassCommits
<1>6. Ends(d, r, done, o)
  BY OutcomesAre
<1>7. QED
  BY <1>3, <1>4, <1>5, <1>6 DEF Ends

-----------------------------------------------------------------------------
(* The actions.                                                             *)

\* A step of the loop, of the provider, or of the demand.
SameProvider == UNCHANGED <<provider, demand>>
LEMMA Still == ASSUME DInv, SameProvider PROVE GroupsKept /\ DemandFits
  BY DEF DInv, TypeOK, StoppedIsQuiet, GroupsKept, DemandFits, SameProvider, provider, demand, Quiet

LEMMA CreateStep == ASSUME DInv, NEW d \in Versions, CreateVersion(d) PROVE DInv'
<1>1. /\ \A e \in Versions : row[e] \in DeploymentRows
      /\ row[d].state = "none" /\ ~row[d].stopped /\ ~row[d].group /\ group[d] = "none"
      /\ SameProvider
  BY DEF DInv, TypeOK, RowFits, CreateVersion, Exists, SameProvider
<1>2. /\ row'[d] = Planned(row[d])
      /\ \A e \in Versions \ {d} :
            row'[e] = IF row[e].current THEN Replaced(row[e]) ELSE row[e]
  BY DEF CreateVersion
<1>3. /\ row'[d] \in DeploymentRows /\ row'[d].state = "PLANNED" /\ row'[d].desired = "ACTIVE"
      /\ row'[d].current /\ ~row'[d].stopped /\ row'[d].queue = row[d].queue
      /\ ~row'[d].group
  BY <1>1, <1>2 DEF Planned, DeploymentRows, States
<1>4. ASSUME NEW e \in Versions, e # d
      PROVE  /\ row'[e] \in DeploymentRows /\ ~row'[e].current
             /\ row'[e].state = row[e].state
             /\ row'[e].stopped = row[e].stopped /\ row'[e].queue = row[e].queue
             /\ row'[e].group = row[e].group
             /\ row'[e] = row[e] \/ row'[e].desired = "STOPPED"
  <2>1. CASE row[e].current
    <3>1. row'[e] = Replaced(row[e]) /\ row[e] \in DeploymentRows
      BY <1>1, <1>2, <1>4, <2>1
    <3>2. MustStop(row[e]) \in DeploymentRows
      BY <3>1 DEF MustStop, DeploymentRows
    <3>3. QED
      BY <3>1, <3>2 DEF Replaced, MustStop, DeploymentRows
  <2>2. CASE ~row[e].current
    BY <1>1, <1>2, <1>4, <2>2
  <2>3. QED
    BY <2>1, <2>2
<1>5. row' \in [Versions -> DeploymentRows]
  <2>1. \A e \in Versions : row'[e] \in DeploymentRows
    BY <1>2, <1>3, <1>4
  <2>2. QED
    BY <2>1 DEF CreateVersion
<1>6. TypeOK'
  BY <1>1, <1>3, <1>4, <1>5 DEF DInv, TypeOK, SameProvider, provider, demand
<1>7. StoppedIsQuiet'
  BY <1>1, <1>3, <1>4 DEF DInv, StoppedIsQuiet, Quiet, SameProvider, provider
<1>8. \A e \in Versions : RowFits(e)'
  BY <1>1, <1>3, <1>4 DEF DInv, RowFits
<1>9. OneCurrent'
  BY <1>3, <1>4 DEF OneCurrent
<1>10. QED
  BY <1>6, <1>7, <1>8, <1>9 DEF DInv

\* A version that is worked on towards being active.
Working(d) == /\ row[d].state # "none" /\ ~row[d].stopped /\ row[d].current
              /\ row[d] \in DeploymentRows
LEMMA Works ==
  ASSUME DInv, NEW d \in Versions, Selected(d), Swept[d].desired = "ACTIVE"
  PROVE  Working(d)
  BY FencedIs DEF DInv, TypeOK, RowFits, Selected, Working

\* A pass that only observes.
LEMMA ObserveSteps ==
  ASSUME DInv, NEW d \in Versions,
         DeferRollout(d) \/ Observe(d) \/ MeteringFails(d) \/ Unread(d)
  PROVE  DInv'
<1>1. Working(d) /\ SameProvider /\ GroupsKept /\ DemandFits
  BY Works, Still DEF DeferRollout, Observe, MeteringFails, Unread, Provisioning, Reconciling,
                      SameProvider
<1>2. row[d] \in DeploymentRows /\ Moved(d, row[d]) /\ Moved(d, Interrupted(row[d]))
      /\ Moved(d, Unknown(row[d]))
  BY <1>1, Stays, Marks, MarkMoves DEF Working
<1>3. ASSUME NEW s \in {"UNKNOWN", "PROVISIONING", "DEGRADED", "ACTIVE"}, NEW b \in BOOLEAN
      PROVE  Moved(d, [row[d] EXCEPT !.state = s, !.starting = b])
  BY <1>1, <1>2 DEF Moved, Working, DeploymentRows, States
<1>4. Moved(d, MustStop(row[d]))
  BY <1>1, <1>2 DEF MustStop, Moved, Working, DeploymentRows, States
<1>5. \E s : Moved(d, s) /\ (row' = [Fenced EXCEPT ![d] = s] \/ row' = [row EXCEPT ![d] = s])
  <2>1. CASE DeferRollout(d)
    BY <1>2, <2>1 DEF DeferRollout, Commit
  <2>2. CASE Observe(d)
    BY <1>3, <2>2 DEF Observe, Commit
  <2>3. CASE MeteringFails(d)
    BY <1>4, <2>3 DEF MeteringFails, Commit
  <2>4. CASE Unread(d)
    BY <1>2, <2>4 DEF Unread, Commit
  <2>5. QED
    BY <2>1, <2>2, <2>3, <2>4
<1>6. QED
  BY <1>1, <1>5, PassCommits DEF Working

-----------------------------------------------------------------------------
(* Provisioning and repair: calls for a version that is being worked on.    *)

\* The row of such a version while it is called for, and after it.
Provides(d, s) == /\ s \in DeploymentRows /\ s.state \in {"PROVISIONING", "DEGRADED", "UNKNOWN"}
                  /\ s.current = row[d].current /\ s.desired = row[d].desired
                  /\ s.stopped = row[d].stopped
                  /\ s.queue => d \in queue'
                  /\ s.group => group'[d] # "none"

LEMMA Provided ==
  ASSUME NEW d \in Versions, NEW s, Provides(d, s), Working(d) PROVE Moved(d, s)
  BY DEF Provides, Moved, Working, DeploymentRows

\* What is recorded of it is there before the call, and after it.
LEMMA RecordedStays ==
  ASSUME DInv, GroupsKept, NEW d \in Versions, Working(d)
  PROVE  /\ row[d].queue => d \in queue'
         /\ row[d].group => group'[d] # "none"
  BY DEF DInv, TypeOK, GroupsKept, Working

LEMMA QueueStep == ASSUME DInv, NEW d \in Versions, ProvisionQueue(d) PROVE DInv'
<1> DEFINE r == [row[d] EXCEPT !.state = "PROVISIONING"]
           done == [r EXCEPT !.queue = TRUE]
<1>1. Working(d) /\ UNCHANGED <<group, minimum, busy, demand>> /\ queue \subseteq queue'
      /\ queue' \in {queue, queue \union {d}}
  BY Works DEF ProvisionQueue, Provisioning, Call
<1>2. GroupsKept /\ DemandFits
  BY <1>1 DEF DInv, TypeOK, StoppedIsQuiet, Quiet, GroupsKept, DemandFits, demand
<1>3. Provides(d, r) /\ Moved(d, r) /\ r \in DeploymentRows
  <2>1. r \in DeploymentRows /\ r.state = "PROVISIONING" /\ r.current = row[d].current
        /\ r.desired = row[d].desired /\ r.stopped = row[d].stopped
        /\ r.queue = row[d].queue /\ r.group = row[d].group
    BY <1>1 DEF Working, DeploymentRows, States
  <2>2. QED
    BY <1>1, <1>2, <2>1, RecordedStays, Provided DEF Provides
<1>4. ASSUME d \in queue' PROVE Moved(d, done)
  <2>1. done \in DeploymentRows /\ done.state = r.state /\ done.current = r.current
        /\ done.desired = r.desired /\ done.stopped = r.stopped /\ done.group = r.group
    BY <1>3 DEF DeploymentRows
  <2>2. QED
    BY <1>1, <1>3, <1>4, <2>1, Provided DEF Provides
<1>5. Moved(d, Unknown(r))
  BY <1>3, Marks, MarkMoves
<1>6. CASE d \in queue /\ Commit(d, done)
  BY <1>1, <1>2, <1>4, <1>6, PassCommits DEF Commit, Working
<1>7. CASE Commit(d, Unknown(r))
  BY <1>1, <1>2, <1>5, <1>7, PassCommits DEF Commit, Working
<1>8. CASE \E o \in Outcomes(d, r, done) :
              row' = o[2] /\ queue' = IF o[1] THEN queue \union {d} ELSE queue
  <2>1. PICK o \in Outcomes(d, r, done) :
            row' = o[2] /\ queue' = IF o[1] THEN queue \union {d} ELSE queue
    BY <1>8
  <2>2. o[1] => Moved(d, done)
    BY <1>4, <2>1
  <2>3. QED
    BY <1>1, <1>2, <1>3, <2>1, <2>2, CallCommits DEF Working
<1>9. QED
  BY <1>6, <1>7, <1>8 DEF ProvisionQueue, Call

LEMMA GroupStep == ASSUME DInv, NEW d \in Versions, ProvisionGroup(d) PROVE DInv'
<1> DEFINE r == [row[d] EXCEPT !.state = "PROVISIONING"]
           done == [r EXCEPT !.group = TRUE]
           created(took) == group' = IF took THEN [group EXCEPT ![d] = "running"] ELSE group
<1>1. /\ Working(d) /\ UNCHANGED <<queue, minimum, busy, demand>>
      /\ group' \in {group, [group EXCEPT ![d] = "running"]}
  BY Works DEF ProvisionGroup, Provisioning, Call
<1>2. GroupsKept /\ DemandFits
  BY <1>1 DEF DInv, TypeOK, StoppedIsQuiet, Quiet, GroupsKept, DemandFits, demand, Working
<1>3. Provides(d, r) /\ Moved(d, r) /\ r \in DeploymentRows
  <2>1. r \in DeploymentRows /\ r.state = "PROVISIONING" /\ r.current = row[d].current
        /\ r.desired = row[d].desired /\ r.stopped = row[d].stopped
        /\ r.queue = row[d].queue /\ r.group = row[d].group
    BY <1>1 DEF Working, DeploymentRows, States
  <2>2. QED
    BY <1>1, <1>2, <2>1, RecordedStays, Provided DEF Provides
<1>4. ASSUME group'[d] # "none"
      PROVE  /\ Moved(d, done)
             /\ \A s \in {"PROVISIONING", "DEGRADED"} : Moved(d, [done EXCEPT !.state = s])
  <2>1. done \in DeploymentRows /\ done.state = r.state /\ done.current = r.current
        /\ done.desired = r.desired /\ done.stopped = r.stopped /\ done.queue = r.queue
    BY <1>3 DEF DeploymentRows
  <2>2. Provides(d, done)
    BY <1>3, <1>4, <2>1 DEF Provides
  <2>3. ASSUME NEW s \in {"PROVISIONING", "DEGRADED"}
        PROVE  Provides(d, [done EXCEPT !.state = s])
    BY <2>2 DEF Provides, DeploymentRows, States
  <2>4. QED
    BY <1>1, <2>2, <2>3, Provided
<1>5. Moved(d, Unknown(r)) /\ Moved(d, Failed(r))
  BY <1>3, Marks, MarkMoves
<1>6. CASE group[d] # "none" /\ UNCHANGED group
           /\ \E s \in {"PROVISIONING", "DEGRADED"} : Commit(d, [done EXCEPT !.state = s])
  BY <1>1, <1>2, <1>4, <1>6, PassCommits DEF Commit, Working
<1>7. CASE Commit(d, Unknown(r)) \/ Commit(d, Failed(r))
  BY <1>1, <1>2, <1>5, <1>7, PassCommits DEF Commit, Working
<1>8. CASE Call(d, r, done, created)
  <2>1. PICK o \in Outcomes(d, r, done) :
            row' = o[2] /\ group' = IF o[1] THEN [group EXCEPT ![d] = "running"] ELSE group
    BY <1>8 DEF Call
  <2>2. o[1] => Moved(d, done)
    BY <1>4, <2>1 DEF DInv, TypeOK
  <2>3. QED
    BY <1>1, <1>2, <1>3, <2>1, <2>2, CallCommits DEF Working
<1>9. QED
  BY <1>6, <1>7, <1>8 DEF ProvisionGroup

\* The calls of a version with both identities.
LEMMA RepairSteps ==
  ASSUME DInv, NEW d \in Versions, RepairAutoscaler(d) \/ StartGroup(d) PROVE DInv'
<1>1. /\ Working(d) /\ UNCHANGED <<queue, busy, demand>>
      /\ minimum' \subseteq Versions
      /\ group' \in {group, [group EXCEPT ![d] = "running"]}
      /\ \E b \in BOOLEAN : \E o \in Outcomes(d, row[d],
                [row[d] EXCEPT !.state = "PROVISIONING", !.starting = b]) : row' = o[2]
  <2>1. CASE RepairAutoscaler(d)
    <3>1. Working(d) /\ UNCHANGED <<queue, group, busy, demand>>
      BY <2>1, Works DEF RepairAutoscaler, Reconciling
    <3>2. minimum' \subseteq Versions
      BY <2>1 DEF RepairAutoscaler, Call, DInv, TypeOK
    <3>3. \E o \in Outcomes(d, row[d],
                [row[d] EXCEPT !.state = "PROVISIONING", !.starting = FALSE]) : row' = o[2]
      BY <2>1 DEF RepairAutoscaler, Call
    <3>4. QED
      BY <3>1, <3>2, <3>3
  <2>2. CASE StartGroup(d)
    <3>1. Working(d) /\ UNCHANGED <<queue, minimum, busy, demand>>
      BY <2>2, Works DEF StartGroup, Reconciling
    <3>2. group' \in {group, [group EXCEPT ![d] = "running"]}
      BY <2>2 DEF StartGroup, Call
    <3>3. \E o \in Outcomes(d, row[d],
                [row[d] EXCEPT !.state = "PROVISIONING", !.starting = TRUE]) : row' = o[2]
      BY <2>2 DEF StartGroup, Call
    <3>4. minimum' \subseteq Versions
      BY <3>1 DEF DInv, TypeOK
    <3>5. QED
      BY <3>1, <3>2, <3>3, <3>4
  <2>3. QED
    BY <2>1, <2>2
<1>2. GroupsKept /\ DemandFits
  BY <1>1 DEF DInv, TypeOK, StoppedIsQuiet, Quiet, GroupsKept, DemandFits, demand, Working
<1>3. ASSUME NEW b \in BOOLEAN
      PROVE  Moved(d, [row[d] EXCEPT !.state = "PROVISIONING", !.starting = b])
  <2> DEFINE done == [row[d] EXCEPT !.state = "PROVISIONING", !.starting = b]
  <2>1. done \in DeploymentRows /\ done.state = "PROVISIONING"
        /\ done.current = row[d].current /\ done.desired = row[d].desired
        /\ done.stopped = row[d].stopped /\ done.queue = row[d].queue
        /\ done.group = row[d].group
    BY <1>1 DEF Working, DeploymentRows, States
  <2>2. QED
    BY <1>1, <1>2, <2>1, RecordedStays, Provided DEF Provides
<1>4. Moved(d, row[d])
  BY <1>1, <1>2, Stays DEF Working
<1>5. QED
  BY <1>1, <1>2, <1>3, <1>4, CallCommits DEF Working

-----------------------------------------------------------------------------
(* Stopping.                                                                *)

\* The row of a version that must stop, with what its pass has found of it.
Stops(d, s) == /\ s \in DeploymentRows /\ s.current = row[d].current
               /\ s.state = row[d].state
               /\ s.desired = "STOPPED" /\ s.stopped = row[d].stopped
               /\ s.queue => d \in queue
               /\ s.group => group[d] # "none"

LEMMA StopsIs ==
  ASSUME DInv, NEW d \in Versions, Stopping(d)
  PROVE  /\ row[d].state \notin {"none", "STOPPED"}
         /\ Stops(d, Fenced[d]) /\ Stops(d, Identities(d, Fenced[d]))
         /\ group[d] # "none" => Identities(d, Fenced[d]).group
<1>1. row[d].state \notin {"none", "STOPPED"}
  BY DEF Stopping, Selected
<1>2. Fenced[d].desired = "STOPPED" /\ Asked(row[d], Fenced[d])
  <2>1. Swept \in [Versions -> DeploymentRows] /\ Asked(row[d], Fenced[d])
    BY FencedIs
  <2>2. exhausted \/ Swept[d].desired = "STOPPED"
    BY DEF Stopping
  <2>3. QED
    BY <1>1, <2>1, <2>2, FencedIs
<1>3. Stops(d, Fenced[d])
  BY <1>2 DEF Asked, Stops, DInv, TypeOK
<1>4. /\ Identities(d, Fenced[d]) \in DeploymentRows
      /\ Identities(d, Fenced[d]).current = Fenced[d].current
      /\ Identities(d, Fenced[d]).state = Fenced[d].state
      /\ Identities(d, Fenced[d]).desired = Fenced[d].desired
      /\ Identities(d, Fenced[d]).stopped = Fenced[d].stopped
      /\ Identities(d, Fenced[d]).queue => Fenced[d].queue \/ d \in queue
      /\ Identities(d, Fenced[d]).group = (Fenced[d].group \/ group[d] # "none")
  BY <1>3 DEF Stops, Identities, DeploymentRows
<1>5. QED
  BY <1>1, <1>3, <1>4 DEF Stops

LEMMA ConfirmStep == ASSUME DInv, NEW d \in Versions, ConfirmStop(d) PROVE DInv'
<1>1. /\ SameProvider /\ GroupsKept /\ DemandFits /\ Quiet(d) /\ Quiet(d)' /\ Stopping(d)
  BY Still DEF ConfirmStop, SameProvider, Quiet, provider
<1>2. PICK r \in {Fenced[d], Identities(d, Fenced[d])} : Commit(d, Closed(r))
  BY DEF ConfirmStop
<1>3. Stops(d, r) /\ row[d].state # "none"
  BY <1>1, <1>2, StopsIs
<1>4. /\ Closed(r) \in DeploymentRows /\ Closed(r).stopped
      /\ Closed(r).state \in {"STOPPED", "FAILED"}
      /\ Closed(r).current = r.current /\ Closed(r).desired = r.desired
      /\ Closed(r).queue = r.queue /\ Closed(r).group = r.group
  BY <1>3 DEF Closed, Stops, DeploymentRows, States
<1>5. Moved(d, Closed(r))
  BY <1>1, <1>3, <1>4 DEF Moved, Stops, SameProvider, provider
<1>6. QED
  BY <1>1, <1>2, <1>3, <1>5, PassCommits DEF Commit

LEMMA AwaitStep == ASSUME DInv, NEW d \in Versions, AwaitInstances(d) PROVE DInv'
<1> DEFINE r == Identities(d, Fenced[d])
           s == [r EXCEPT !.state = "DRAINING", !.starting = FALSE]
<1>1. SameProvider /\ GroupsKept /\ DemandFits /\ Stops(d, r) /\ row[d].state # "none"
  BY Still, StopsIs DEF AwaitInstances, SameProvider
<1>2. /\ s \in DeploymentRows /\ s.state = "DRAINING" /\ s.current = r.current
      /\ s.desired = r.desired /\ s.stopped = r.stopped /\ s.queue = r.queue
      /\ s.group = r.group
  BY <1>1 DEF Stops, DeploymentRows, States
<1>3. Moved(d, s)
  BY <1>1, <1>2 DEF Moved, Stops, SameProvider, provider
<1>4. QED
  BY <1>1, <1>3, PassCommits DEF AwaitInstances, Commit

\* A stop request only signals a group that runs, and commits one read of the row.
LEMMA RequestSignals ==
  ASSUME NEW d \in Versions, RequestStop(d)
  PROVE  \E r \in {Fenced[d], Identities(d, Fenced[d])} :
           \E o \in Outcomes(d, r, Drained(r)) :
             /\ row' = o[2]
             /\ \/ group' = group
                \/ group[d] = "running" /\ group' = [group EXCEPT ![d] = "stopping"]
<1> DEFINE read == {Fenced[d]} \union IF group[d] \in {"running", "stopping"}
                                       THEN {Identities(d, Fenced[d])} ELSE {}
           all == UNION {Outcomes(d, r, Drained(r)) : r \in read}
<1>1. PICK m \in {<<o[1] /\ group[d] = "running", o[2]>> : o \in all} :
        /\ row' = m[2]
        /\ group' = IF m[1] THEN [group EXCEPT ![d] = "stopping"] ELSE group
  BY DEF RequestStop
<1>2. PICK o \in all : m = <<o[1] /\ group[d] = "running", o[2]>>
  BY <1>1
<1>3. PICK r \in read : o \in Outcomes(d, r, Drained(r))
  BY <1>2
<1>4. /\ row' = o[2]
      /\ \/ group' = group
         \/ group[d] = "running" /\ group' = [group EXCEPT ![d] = "stopping"]
  BY <1>1, <1>2
<1>5. r \in {Fenced[d], Identities(d, Fenced[d])}
  BY <1>3
<1>6. QED
  BY <1>3, <1>4, <1>5

LEMMA RequestStep == ASSUME DInv, NEW d \in Versions, RequestStop(d) PROVE DInv'
<1>1. PICK r \in {Fenced[d], Identities(d, Fenced[d])} :
        \E o \in Outcomes(d, r, Drained(r)) :
            /\ row' = o[2]
            /\ \/ group' = group
               \/ group[d] = "running" /\ group' = [group EXCEPT ![d] = "stopping"]
  BY RequestSignals
<1>2. Stops(d, r) /\ row[d].state \notin {"none", "STOPPED"}
      /\ UNCHANGED <<queue, minimum, busy, demand>>
  BY <1>1, StopsIs DEF RequestStop
<1>3. GroupsKept /\ DemandFits /\ (group[d] # "none" => group'[d] # "none")
  BY <1>1, <1>2 DEF DInv, TypeOK, StoppedIsQuiet, Quiet, GroupsKept, DemandFits, demand
<1>4. Moved(d, r)
  BY <1>2, <1>3 DEF Moved, Stops
<1>5. Moved(d, Drained(r))
  <2>1. /\ Drained(r) \in DeploymentRows /\ Drained(r).state \in {"DRAINING", "UNKNOWN"}
        /\ Drained(r).current = r.current /\ Drained(r).desired = r.desired
        /\ Drained(r).stopped = r.stopped /\ Drained(r).queue = r.queue
        /\ Drained(r).group = r.group
    BY <1>2 DEF Drained, Stops, DeploymentRows, States
  <2>2. QED
    BY <1>4, <2>1 DEF Moved
<1>6. QED
  BY <1>1, <1>2, <1>3, <1>4, <1>5, CallCommits

-----------------------------------------------------------------------------
(* The sweeps, and the steps beside the loop.                               *)

LEMMA SweepSteps == ASSUME DInv, BudgetOnce \/ DisableAllocations PROVE DInv'
<1>1. SameProvider /\ GroupsKept /\ DemandFits /\ row' \in {KillSwitch(row), Disabled(row)}
  BY Still DEF BudgetOnce, DisableAllocations, SameProvider
<1>2. row' \in [Versions -> DeploymentRows] /\ \A e \in Versions : Asked(row[e], row'[e])
  BY <1>1, FencedIs
<1>3. QED
  BY <1>1, <1>2, RowsMove

LEMMA OtherSteps ==
  ASSUME DInv,
         \/ \E d \in Versions : \/ DemandChanges(d) \/ InstanceStarts(d) \/ InstanceEnds(d)
                                \/ GroupStops(d) \/ StoppedElsewhere(d)
         \/ BudgetChanges \/ AllocationChanges \/ UNCHANGED vars
  PROVE  DInv'
<1>1. row' = row /\ DemandFits /\ queue' = queue /\ minimum' = minimum
  BY DEF DInv, TypeOK, DemandFits, DemandChanges, InstanceStarts, InstanceEnds, GroupStops,
         StoppedElsewhere, BudgetChanges, AllocationChanges, provider, demand, vars
<1>2. busy' \subseteq Versions
      /\ group' \in [Versions -> {"none", "running", "stopping", "stopped"}]
  BY DEF DInv, TypeOK, DemandChanges, InstanceStarts, InstanceEnds, GroupStops,
         StoppedElsewhere, BudgetChanges, AllocationChanges, provider, vars
<1>3. \A e \in Versions : /\ group'[e] = "none" <=> group[e] = "none"
                          /\ Quiet(e) => Quiet(e)'
  BY DEF DInv, TypeOK, Quiet, DemandChanges, InstanceStarts, InstanceEnds, GroupStops,
         StoppedElsewhere, BudgetChanges, AllocationChanges, provider, vars
<1>4. GroupsKept
  BY <1>1, <1>2, <1>3 DEF DInv, TypeOK, StoppedIsQuiet, GroupsKept
<1>5. \A e \in Versions : Asked(row[e], row'[e])
  BY <1>1 DEF DInv, TypeOK, Asked
<1>6. QED
  BY <1>1, <1>4, <1>5, RowsMove DEF DInv, TypeOK

-----------------------------------------------------------------------------
(* The theorems.                                                            *)

LEMMA InitDInv == ASSUME Init PROVE DInv
<1>1. TypeOK /\ \A d \in Versions : ~row[d].current /\ ~row[d].stopped
                                  /\ row[d].desired = "STOPPED" /\ row[d].state = "none"
  BY DEF Init, TypeOK, DeploymentRows, States
<1>2. QED
  BY <1>1 DEF DInv, StoppedIsQuiet, RowFits, OneCurrent

LEMMA NextDInv == ASSUME DInv, [Next]_vars PROVE DInv'
<1>1. ASSUME NEW d \in Versions, CreateVersion(d) PROVE DInv'
  BY <1>1, CreateStep
<1>2. ASSUME NEW d \in Versions, DeploymentOnce(d) PROVE DInv'
  BY <1>2, ObserveSteps, QueueStep, GroupStep, RepairSteps, ConfirmStep, AwaitStep,
     RequestStep DEF DeploymentOnce
<1>3. CASE BudgetOnce \/ DisableAllocations
  BY <1>3, SweepSteps
<1>4. CASE \/ \E d \in Versions : \/ DemandChanges(d) \/ InstanceStarts(d) \/ InstanceEnds(d)
                                  \/ GroupStops(d) \/ StoppedElsewhere(d)
           \/ BudgetChanges \/ AllocationChanges \/ UNCHANGED vars
  BY <1>4, OtherSteps
<1>5. QED
  BY <1>1, <1>2, <1>3, <1>4 DEF Next

\* For any versions: rows have their shape, a stop is recorded where it was
\* confirmed and stays, one version is current and only it is meant to be active
\* (salad_deployments.py).
THEOREM DeploymentsAgree == Spec => []DInv
  BY InitDInv, NextDInv, PTL DEF Spec

\* The rows keep their shape, and what is recorded of the provider exists there.
THEOREM Typing == Spec => []TypeOK
<1>1. DInv => TypeOK
  BY DEF DInv
<1>2. QED
  BY <1>1, DeploymentsAgree, PTL

\* A version recorded as stopped has no group that runs and no instance, however
\* the answers of Salad were lost and whatever the budget and the allocation do
\* (_request_stop).
THEOREM StopsAreQuiet == Spec => []StoppedIsQuiet
<1>1. DInv => StoppedIsQuiet
  BY DEF DInv
<1>2. QED
  BY <1>1, DeploymentsAgree, PTL

\* A step that creates a group is one for the current version, and every other
\* version with a recorded group is confirmed stopped.
LEMMA CreatesBesideStopped ==
  ASSUME DInv, [Next]_vars, NEW d \in Versions, group[d] = "none", group'[d] # "none",
         NEW e \in Versions \ {d}, row[e].group
  PROVE  Quiet(e)
<1>1. ProvisionGroup(d)
  <2>1. PICK c \in Versions : ProvisionGroup(c) \/ StartGroup(c) \/ RequestStop(c)
                               \/ GroupStops(c) \/ StoppedElsewhere(c)
    BY DEF Next, vars, provider, demand, DeploymentOnce, CreateVersion, DeferRollout,
           ProvisionQueue, RepairAutoscaler, Observe, MeteringFails, Unread, ConfirmStop,
           AwaitInstances, DemandChanges, InstanceStarts, InstanceEnds, BudgetOnce,
           DisableAllocations, BudgetChanges, AllocationChanges
  <2>2. group \in [Versions -> {"none", "running", "stopping", "stopped"}]
    BY DEF DInv, TypeOK
  <2>3. CASE StartGroup(c)
    <3>1. PICK o \in {TRUE, FALSE} :
            group' = IF o THEN [group EXCEPT ![c] = "running"] ELSE group
      <4>1. PICK o \in Outcomes(c, row[c], [row[c] EXCEPT !.state = "PROVISIONING",
                                                          !.starting = TRUE]) :
              group' = IF o[1] THEN [group EXCEPT ![c] = "running"] ELSE group
        BY <2>3 DEF StartGroup, Call
      <4>2. o[1] \in {TRUE, FALSE}
        BY <4>1 DEF Outcomes
      <4>3. QED
        BY <4>1, <4>2
    <3>2. group[c] = "stopped"
      BY <2>3 DEF StartGroup
    <3>3. QED
      BY <2>2, <3>1, <3>2
  <2>4. CASE RequestStop(c)
    BY <2>2, <2>4, RequestSignals
  <2>5. CASE GroupStops(c) \/ StoppedElsewhere(c)
    BY <2>2, <2>5 DEF GroupStops, StoppedElsewhere
  <2>6. CASE ProvisionGroup(c)
    BY <2>2, <2>6 DEF ProvisionGroup, Call
  <2>7. QED
    BY <2>1, <2>3, <2>4, <2>5, <2>6
<1>2. Working(d) /\ ~Superseded(d)
  BY <1>1, Works DEF ProvisionGroup, Provisioning, Working
<1>3. ~row[e].current /\ row[e].state # "none"
  BY <1>2 DEF DInv, OneCurrent, TypeOK, Working
<1>4. Fenced[e].group = row[e].group /\ Fenced[e].current = row[e].current
      /\ Fenced[e].state = row[e].state /\ Fenced[e].stopped = row[e].stopped
  BY FencedIs DEF Asked
<1>5. row[e].state = "STOPPED" \/ row[e].stopped
  BY <1>2, <1>3, <1>4 DEF Superseded, Exists
<1>6. QED
  BY <1>5 DEF DInv, RowFits, StoppedIsQuiet

\* A group is created only when the groups recorded for other versions are quiet:
\* two recorded rollouts never run at the same time (_defer_rollout_overlap).
THEOREM CreatesBesideQuiet == Spec => CreatesAfterStops
<1>1. ASSUME DInv, [Next]_vars
      PROVE  [\A d \in Versions : group[d] = "none" /\ group'[d] # "none"
                => \A e \in Versions \ {d} : row[e].group => Quiet(e)]_vars
  BY <1>1, CreatesBesideStopped
<1>2. QED
  BY <1>1, DeploymentsAgree, PTL DEF Spec, CreatesAfterStops

-----------------------------------------------------------------------------
(* The work of the one shared group: its rows, and what they may hold.      *)

WorkStates == {"NONE", "CREATED", "LIVE", "ENDED", "FAILED"}
WorkRows == [state : WorkStates, plan : PlanRecords \union {None},
             target : TargetRecords \union {None}]
Containers == [version: ProviderVersions, manifest: Manifests,
               id: Ids \union {0}, minimum: 0 .. 1, up: BOOLEAN]

\* What a row holds when n rollout ids are drawn and the group is at version v.
WorkFits(w, n, v) ==
    /\ w \in WorkRows
    /\ w.plan = None \/ w.target = None
    /\ w.state = "NONE" => w.plan = None /\ w.target = None
    /\ w.state = "LIVE" => w.target # None
    /\ w.plan # None => w.plan.id <= n
    /\ w.target # None => w.target.version <= v

RowsHold ==
    /\ attempt = [a \in Attempts |-> attempt[a]]
    /\ \A a \in Attempts : WorkFits(attempt[a], rollouts, container.version)
    /\ runtime \in Manifests /\ lease \in {"none", "starting", "live"}
    /\ container \in Containers /\ container.id <= rollouts
    /\ rollouts \in Ids \union {0}

\* PlansOf are the same plan, and until it is carried out nothing else is staged
\* or in flight.
PlansFit ==
    /\ \A a, b \in PlannedWork : attempt[a].plan = attempt[b].plan
    /\ \A a \in PlannedWork : container.id # attempt[a].plan.id =>
                                TargetedWork = {} /\ InFlight = {}

WInv == /\ RowsHold /\ AdmittedWorkSurvives
        /\ LeaseNeeds = {} => lease = "none" /\ PlansFit

-----------------------------------------------------------------------------

LEMMA NothingStaged == None \notin PlanRecords /\ None \notin TargetRecords
  BY AdmissionAssumption DEF None, PlanRecords, TargetRecords, Ids

\* What may be loaded.
LEMMA Loadable ==
    /\ {} \in Manifests
    /\ \A a \in Attempts : Need(a) \in Manifests
    /\ \A m \in LeaseNeeds : m \in Manifests
    /\ \A m, n \in Manifests : m \union n \in Manifests
  BY DEF Manifests

\* What a pass works with holds what the job needs.
LEMMA EffectiveHolds ==
    ASSUME RowsHold, NEW a \in Attempts
    PROVE  Effective(a) \in Manifests /\ Need(a) \subseteq Effective(a)
  BY Loadable DEF Effective, RowsHold

\* Of targets whose versions are bounded one is the newest.
LEMMA NewestTarget ==
    ASSUME NEW ts \in SUBSET TargetRecords, ts # {}, NEW n \in Nat,
           \A t \in ts : t.version <= n
    PROVE  /\ Coalesced(ts) \in TargetRecords
           /\ \E t \in ts : /\ Coalesced(ts).id = t.id
                            /\ Coalesced(ts).version = t.version
                            /\ Coalesced(ts).manifest = t.manifest
<1> DEFINE Age(t) == n - t.version
           ages == {Age(t) : t \in ts}
           newest == {t \in ts : \A s \in ts : s.version <= t.version}
<1>1. \A t \in ts : t.version \in Nat /\ Age(t) \in Nat
  BY DEF TargetRecords, ProviderVersions
<1>2. ages \subseteq Nat /\ ages # {}
  BY <1>1
<1>3. PICK x \in ages : \A y \in ages : <<y, x>> \notin OpToRel(<, Nat)
  <2> HIDE DEF ages
  <2>1. QED
    BY <1>2, NatLessThanWellFounded, WFMin
<1>4. \A y \in ages : x <= y
  <2> HIDE DEF ages
  <2>1. ASSUME NEW y \in ages PROVE x <= y
    <3>1. x \in Nat /\ y \in Nat /\ ~(y < x)
      BY <1>2, <1>3 DEF OpToRel
    <3>2. QED
      BY <3>1
  <2>2. QED
    BY <2>1
<1>5. newest # {}
  <2>1. PICK t \in ts : x = Age(t)
    BY <1>3
  <2>2. \A s \in ts : Age(t) <= Age(s)
    BY <2>1, <1>4
  <2>3. \A s \in ts : s.version <= t.version
    BY <2>2, <1>1
  <2>4. QED
    BY <2>3
<1>6. PICK t0 : t0 = (CHOOSE t \in newest : TRUE) /\ t0 \in newest
  BY <1>5
<1>7. Coalesced(ts) = [t0 EXCEPT !.worker = \E t \in newest : t.worker]
  BY <1>6 DEF Coalesced
<1>8. (\E t \in newest : t.worker) \in BOOLEAN
  OBVIOUS
<1>9. QED
  <2> HIDE DEF newest
  <2>1. t0 \in ts
    BY <1>6 DEF newest
  <2>2. QED
    BY <2>1, <1>7, <1>8 DEF TargetRecords

-----------------------------------------------------------------------------
(* Steps.                                                                   *)

\* Only the row of a changes.
Becomes(a, w) == /\ attempt' = [attempt EXCEPT ![a] = w]
                 /\ attempt' = [b \in Attempts |-> IF b = a THEN w ELSE attempt[b]]

LEMMA RowChanges ==
    ASSUME RowsHold, NEW a \in Attempts, NEW w, Becomes(a, w),
           WorkFits(w, rollouts', container'.version),
           rollouts' >= rollouts, container'.version >= container.version,
           container' \in Containers, container'.id <= rollouts',
           runtime' \in Manifests, lease' \in {"none", "starting", "live"},
           rollouts' \in Ids \union {0}
    PROVE  RowsHold'
<1>1. ASSUME NEW b \in Attempts
      PROVE  WorkFits(attempt'[b], rollouts', container'.version)
  <2>1. CASE b = a
    BY <2>1 DEF Becomes
  <2>2. CASE b # a
    <3>1. attempt'[b] = attempt[b] /\ WorkFits(attempt[b], rollouts, container.version)
      BY <2>2 DEF Becomes, RowsHold
    <3>2. QED
      BY <3>1, NothingStaged, AdmissionAssumption
      DEF WorkFits, RowsHold, Containers, ProviderVersions, WorkRows, PlanRecords, TargetRecords, Ids
  <2>3. QED
    BY <2>1, <2>2
<1>2. QED
  BY <1>1 DEF RowsHold, Becomes

\* An update of one row.
LEMMA OneRow ==
    ASSUME RowsHold, NEW a \in Attempts, NEW w, attempt' = [attempt EXCEPT ![a] = w]
    PROVE  /\ Becomes(a, w) /\ attempt'[a] = w
           /\ \A b \in Attempts \ {a} : attempt'[b] = attempt[b]
  BY DEF RowsHold, Becomes


\* Staged with a target, or in flight.
Outstanding(w) == w.state = "LIVE" \/ (w.state = "CREATED" /\ w.target # None)
WithPlan(w) == w.state = "CREATED" /\ w.plan # None

\* The plans of the others are those that the group runs.
OthersRun(a) == \A b \in PlannedWork \ {a} : attempt[b].plan.id = container.id

\* A step of one attempt, whose row becomes w, and which leaves the group's
\* rollout alone.
RowStep(a, w) ==
    /\ attempt' = [attempt EXCEPT ![a] = w]
    /\ WorkFits(w, rollouts', container'.version)
    /\ rollouts' \in Ids \union {0} /\ rollouts' >= rollouts /\ runtime' \in Manifests
    /\ container' \in Containers /\ container'.version >= container.version
    /\ container'.id = container.id /\ container'.manifest = container.manifest
    /\ lease' \in {"none", "starting", "live"} /\ (lease = "none" => lease' = "none")
    /\ w.state = "LIVE" => /\ container.id = w.target.id
                           /\ Need(a) \subseteq container.manifest
    /\ LeaseNeeds = {} =>
         /\ Outstanding(w) => container.id = w.target.id /\ OthersRun(a)
         /\ container'.version # container.version => OthersRun(a)
         /\ WithPlan(w) =>
              /\ \A b \in PlannedWork \ {a} : attempt[b].plan = w.plan
              /\ \/ container.id = w.plan.id
                 \/ /\ container'.version = w.plan.before /\ container.id < w.plan.id
                    /\ TargetedWork \subseteq {a} /\ InFlight \subseteq {a}

LEMMA RowKeeps ==
    ASSUME WInv, NEW a \in Attempts, NEW w, RowStep(a, w)
    PROVE  WInv'
<1> USE DEF RowStep
<1>1. /\ Becomes(a, w) /\ attempt'[a] = w
      /\ \A b \in Attempts \ {a} : attempt'[b] = attempt[b]
  BY OneRow DEF WInv
<1>2. RowsHold'
  BY <1>1, RowChanges, AdmissionAssumption DEF WInv, RowsHold, Containers, Ids
<1>3. /\ \A b \in Attempts \ {a} : /\ b \in InFlight' <=> b \in InFlight
                                   /\ b \in PlannedWork' <=> b \in PlannedWork
                                   /\ b \in TargetedWork' <=> b \in TargetedWork
      /\ a \in InFlight' <=> w.state = "LIVE"
      /\ a \in PlannedWork' <=> WithPlan(w)
      /\ a \in TargetedWork' <=> w.state = "CREATED" /\ w.target # None
      /\ InFlight' \cup PlannedWork' \cup TargetedWork' \subseteq Attempts
      /\ InFlight \cup PlannedWork \cup TargetedWork \subseteq Attempts
  BY <1>1 DEF InFlight, PlannedWork, TargetedWork, Created, WithPlan
<1>4. InFlightKeepsRuntime'
  BY <1>1, <1>3 DEF WInv, AdmittedWorkSurvives, InFlightKeepsRuntime
<1>5. ASSUME LeaseNeeds = {} PROVE lease' = "none" /\ PlansFit' /\ StagedWorkSurvives'
  <2>1. PlansFit /\ StagedWorkSurvives /\ lease' = "none"
    BY <1>5 DEF WInv, AdmittedWorkSurvives
  <2>2. \A b \in TargetedWork' : container'.id = attempt'[b].target.id
    BY <1>1, <1>3, <1>5, <2>1 DEF StagedWorkSurvives, Outstanding
  <2>3. ASSUME NEW b \in PlannedWork'
        PROVE  LET p == attempt'[b].plan
               IN \/ container'.id = p.id
                  \/ container'.version = p.before /\ container'.id < p.id
    <3>1. CASE b = a
      BY <1>1, <1>3, <1>5, <2>3, <3>1
    <3>2. CASE b # a
      BY <1>1, <1>3, <1>5, <2>1, <2>3, <3>2 DEF StagedWorkSurvives, OthersRun
    <3>3. QED
      BY <3>1, <3>2
  <2>4. \A b, c \in PlannedWork' : attempt'[b].plan = attempt'[c].plan
    BY <1>1, <1>3, <1>5, <2>1 DEF PlansFit
  <2>5. ASSUME NEW b \in PlannedWork', container'.id # attempt'[b].plan.id
        PROVE  TargetedWork' = {} /\ InFlight' = {}
    <3>1. CASE b = a
      <4>1. WithPlan(w) /\ container.id # w.plan.id
        BY <1>1, <1>3, <2>5, <3>1
      <4>2. TargetedWork \subseteq {a} /\ InFlight \subseteq {a}
        BY <1>5, <4>1
      <4>3. a \notin TargetedWork' /\ a \notin InFlight'
        BY <1>3, <4>1, <1>2, <1>1 DEF WithPlan, RowsHold, WorkFits
      <4>4. QED
        BY <1>3, <4>2, <4>3
    <3>2. CASE b # a
      <4>1. b \in PlannedWork \ {a} /\ attempt[b].plan.id # container.id
        BY <1>1, <1>3, <2>5, <3>2
      <4>2. TargetedWork = {} /\ InFlight = {} /\ ~Outstanding(w)
        BY <1>5, <2>1, <4>1 DEF PlansFit, OthersRun
      <4>3. QED
        BY <1>3, <4>2 DEF Outstanding
    <3>3. QED
      BY <3>1, <3>2
  <2>6. QED
    BY <2>1, <2>2, <2>3, <2>4, <2>5 DEF PlansFit, StagedWorkSurvives
<1>6. QED
  BY <1>2, <1>4, <1>5 DEF WInv, AdmittedWorkSurvives

\* What such a step has to show of the group and the lease when they stay.
LEMMA GroupStays ==
    ASSUME WInv, UNCHANGED <<lease, container>>
    PROVE  /\ container' \in Containers /\ container'.version >= container.version
           /\ container'.version = container.version
           /\ container'.id = container.id /\ container'.manifest = container.manifest
           /\ lease' \in {"none", "starting", "live"} /\ (lease = "none" => lease' = "none")
           /\ rollouts \in Ids \union {0} /\ rollouts >= rollouts /\ runtime \in Manifests
  BY AdmissionAssumption DEF WInv, RowsHold, Containers, ProviderVersions, Ids

\* An attempt that ends, or begins, leaves the others what they had.
LEMMA QuietKeeps ==
    ASSUME WInv, NEW a \in Attempts, NEW s \in WorkStates,
           s \in {"CREATED"} => attempt[a].state = "NONE", s # "LIVE", s # "NONE",
           attempt' = [attempt EXCEPT ![a].state = s],
           UNCHANGED <<runtime, lease, container, rollouts>>
    PROVE  WInv'
<1> DEFINE w == [attempt[a] EXCEPT !.state = s]
<1>1. attempt' = [attempt EXCEPT ![a] = w]
  OBVIOUS
<1>2. /\ WorkFits(w, rollouts, container.version) /\ w.state = s
      /\ s = "CREATED" => w.plan = None /\ w.target = None
  BY DEF WInv, RowsHold, WorkFits, WorkRows, WorkStates
<1> HIDE DEF w
<1>3. WorkFits(w, rollouts', container'.version)
  BY <1>2
<1>4. w.state # "LIVE" /\ ~Outstanding(w) /\ ~WithPlan(w)
  BY <1>2 DEF Outstanding, WithPlan
<1>5. RowStep(a, w)
  BY <1>1, <1>3, <1>4, GroupStays DEF RowStep
<1>6. QED
  BY <1>5, RowKeeps

\* An attempt of which the row keeps all but its state.
LEMMA RearmKeeps ==
    ASSUME WInv, NEW a \in Attempts, Rearm(a) PROVE WInv'
<1> DEFINE w == [attempt[a] EXCEPT !.state = "CREATED"]
<1>1. attempt' = [attempt EXCEPT ![a] = w]
  BY DEF Rearm
<1>2. /\ WorkFits(w, rollouts, container.version) /\ w.state = "CREATED"
      /\ w.plan = None /\ w.target # None /\ w.target = attempt[a].target
  BY DEF WInv, RowsHold, WorkFits, WorkRows, WorkStates, Rearm
<1> HIDE DEF w
<1>3. a \in InFlight /\ container.id = w.target.id
  BY <1>2 DEF WInv, AdmittedWorkSurvives, InFlightKeepsRuntime, InFlight, Rearm
<1>4. LeaseNeeds = {} => OthersRun(a)
  BY <1>3 DEF WInv, PlansFit, OthersRun
<1>5. WorkFits(w, rollouts', container'.version) /\ ~WithPlan(w) /\ w.state # "LIVE"
  BY <1>2 DEF WithPlan, Rearm
<1>6. UNCHANGED <<runtime, lease, container, rollouts>>
  BY DEF Rearm
<1>7. RowStep(a, w)
  BY <1>1, <1>3, <1>4, <1>5, <1>6, GroupStays DEF RowStep
<1>8. QED
  BY <1>7, RowKeeps

LEMMA SubmitKeeps ==
    ASSUME WInv, NEW a \in Attempts, Submit(a) PROVE WInv'
<1> DEFINE w == [attempt[a] EXCEPT !.state = "LIVE"]
<1>1. attempt' = [attempt EXCEPT ![a] = w]
  BY DEF Submit
<1>2. /\ WorkFits(w, rollouts, container.version) /\ w.state = "LIVE"
      /\ w.target = attempt[a].target
  BY DEF WInv, RowsHold, WorkFits, WorkRows, WorkStates, Submit
<1> HIDE DEF w
<1>3. a \in TargetedWork /\ container.id = w.target.id
  BY <1>2 DEF Submit, Claimable, TargetedWork, Identified
<1>4. LeaseNeeds = {} => OthersRun(a)
  BY <1>3 DEF WInv, PlansFit, OthersRun
<1>5. Need(a) \subseteq container.manifest
  <2>1. container.manifest = Effective(a)
    BY DEF Submit, Claimable, Stale, Identified
  <2>2. QED
    BY <2>1, EffectiveHolds DEF WInv
<1>6. WorkFits(w, rollouts', container'.version) /\ ~WithPlan(w)
  BY <1>2 DEF WithPlan, Submit
<1>7. UNCHANGED <<runtime, lease, container, rollouts>>
  BY DEF Submit
<1>8. RowStep(a, w)
  BY <1>1, <1>3, <1>4, <1>5, <1>6, <1>7, GroupStays DEF RowStep
<1>9. QED
  BY <1>8, RowKeeps

\* A target is staged under the rollout that the group runs.
LEMMA StageKeeps ==
    ASSUME WInv, NEW a \in Created, NEW t \in TargetRecords, Stage(a, t),
           t.version <= container'.version, UNCHANGED rollouts, runtime' \in Manifests,
           container' \in Containers, container'.version >= container.version,
           container'.id = container.id, container'.manifest = container.manifest,
           lease' \in {"none", "starting", "live"}, lease = "none" => lease' = "none",
           LeaseNeeds = {} => t.id = container.id /\ OthersRun(a)
    PROVE  WInv'
<1> DEFINE w == [attempt[a] EXCEPT !.target = t, !.plan = None]
<1>1. a \in Attempts /\ attempt[a].state = "CREATED" /\ attempt[a] \in WorkRows
  BY DEF Created, WInv, RowsHold, WorkFits
<1>2. attempt' = [attempt EXCEPT ![a] = w]
  BY <1>1 DEF Stage, WInv, RowsHold
<1>3. /\ w \in WorkRows /\ w.state = "CREATED" /\ w.target = t /\ w.plan = None
  BY <1>1 DEF WorkRows
<1> HIDE DEF w
<1>4. WorkFits(w, rollouts', container'.version) /\ w.state # "LIVE" /\ ~WithPlan(w)
  BY <1>3 DEF WorkFits, WithPlan
<1>5. rollouts' \in Ids \union {0} /\ rollouts' >= rollouts
  BY AdmissionAssumption DEF WInv, RowsHold, Ids
<1>6. RowStep(a, w)
  BY <1>2, <1>3, <1>4, <1>5 DEF RowStep
<1>7. QED
  BY <1>1, <1>6, RowKeeps

\* What the group is, is a target.
LEMMA AdmittedIsTarget ==
    ASSUME NEW g \in Containers, g.id # 0
    PROVE  /\ Admitted(g) \in TargetRecords /\ Admitted(g).id = g.id
           /\ Admitted(g).version = g.version
  BY DEF Admitted, Containers, TargetRecords

LEMMA FailKeeps ==
    ASSUME WInv, NEW a \in Attempts, FailAttempt(a),
           UNCHANGED <<runtime, lease, container, rollouts>>
    PROVE  WInv'
  BY QuietKeeps DEF FailAttempt, WorkStates

LEMMA JoinTargetKeeps ==
    ASSUME WInv, NEW a \in Attempts, JoinTarget(a) PROVE WInv'
<1> DEFINE from == IF InFlight = {} THEN Demand(a) ELSE InFlight
           others == TargetsOf(from)
<1>1. UNCHANGED <<runtime, lease, container, rollouts>>
  BY DEF JoinTarget, ProviderSame
<1>2. CASE FailAttempt(a)
  BY <1>1, <1>2, FailKeeps
<1>3. CASE Stage(a, Coalesced(others)) /\ others # {}
  <2>1. a \in Created /\ from \subseteq Attempts
    BY DEF JoinTarget, Unstaged, Claimable, Demand, Created, InFlight
  <2>2. ASSUME NEW t \in others
        PROVE  /\ t \in TargetRecords /\ t.version <= container.version
               /\ LeaseNeeds = {} => t.id = container.id /\ OthersRun(a)
    <3>1. PICK b \in from : t = attempt[b].target /\ t # None
      BY DEF TargetsOf
    <3>2. b \in TargetedWork \/ b \in InFlight
      BY <3>1 DEF TargetedWork, Demand
    <3>3. t \in TargetRecords /\ t.version <= container.version
      BY <3>1, <2>1 DEF WInv, RowsHold, WorkFits, WorkRows
    <3>4. LeaseNeeds = {} => t.id = container.id /\ OthersRun(a)
      BY <3>1, <3>2 DEF WInv, AdmittedWorkSurvives, InFlightKeepsRuntime, StagedWorkSurvives, PlansFit, OthersRun
    <3>5. QED
      BY <3>3, <3>4
  <2> HIDE DEF others
  <2>3. container.version \in Nat
    BY DEF WInv, RowsHold, Containers, ProviderVersions
  <2>4. /\ Coalesced(others) \in TargetRecords
        /\ \E t \in others : /\ Coalesced(others).id = t.id
                             /\ Coalesced(others).version = t.version
                             /\ Coalesced(others).manifest = t.manifest
    BY <1>3, <2>2, <2>3, NewestTarget
  <2>5. QED
    BY <1>1, <1>3, <2>1, <2>2, <2>4, StageKeeps, GroupStays
<1>4. QED
  BY <1>2, <1>3 DEF JoinTarget

LEMMA JoinWarmKeeps ==
    ASSUME WInv, NEW a \in Attempts, JoinWarm(a) PROVE WInv'
<1>1. UNCHANGED <<runtime, lease, container, rollouts>> /\ LeaseNeeds # {}
  BY DEF JoinWarm, ProviderSame, WInv
<1>2. CASE FailAttempt(a)
  BY <1>1, <1>2, FailKeeps
<1>3. CASE Stage(a, Admitted(container))
  <2>1. /\ Admitted(container) \in TargetRecords
        /\ Admitted(container).version = container.version
    BY AdmittedIsTarget DEF JoinWarm, WInv, RowsHold
  <2>2. a \in Created /\ container.version <= container'.version
    BY <1>1, GroupStays DEF JoinWarm, Unstaged, Claimable
  <2>3. QED
    BY <1>1, <1>3, <2>1, <2>2, StageKeeps, GroupStays
<1>4. QED
  BY <1>2, <1>3 DEF JoinWarm

\* A plan is recorded, or copied.
LEMMA PlanKeeps ==
    ASSUME WInv, NEW a \in Created, NEW p \in PlanRecords,
           attempt' = [attempt EXCEPT ![a].plan = p],
           attempt[a].target = None, UNCHANGED <<runtime, lease, container>>,
           rollouts' \in Ids \union {0}, rollouts' >= rollouts, p.id <= rollouts',
           LeaseNeeds = {} =>
             /\ \A b \in PlannedWork \ {a} : attempt[b].plan = p
             /\ \/ container.id = p.id
                \/ /\ container.version = p.before /\ container.id < p.id
                   /\ TargetedWork \subseteq {a} /\ InFlight \subseteq {a}
    PROVE  WInv'
<1> DEFINE w == [attempt[a] EXCEPT !.plan = p]
<1>1. a \in Attempts /\ attempt[a].state = "CREATED" /\ attempt[a] \in WorkRows
  BY DEF Created, WInv, RowsHold, WorkFits
<1>2. attempt' = [attempt EXCEPT ![a] = w]
  BY <1>1
<1>3. w \in WorkRows /\ w.state = "CREATED" /\ w.target = None /\ w.plan = p
  BY <1>1 DEF WorkRows
<1> HIDE DEF w
<1>4. WorkFits(w, rollouts', container'.version) /\ w.state # "LIVE" /\ ~Outstanding(w)
  BY <1>3 DEF WorkFits, Outstanding
<1>5. RowStep(a, w)
  BY <1>2, <1>3, <1>4, GroupStays DEF RowStep
<1>6. QED
  BY <1>1, <1>5, RowKeeps

\* When nothing is staged or in flight but what a has.
LEMMA UndecidedIsAlone ==
    ASSUME NEW a \in Attempts, Undecided(a)
    PROVE  /\ a \in Created /\ attempt[a].target = None
           /\ TargetedWork = {} /\ InFlight = {}
<1>1. /\ a \in Created /\ attempt[a].target = None /\ InFlight = {}
      /\ TargetsOf(Created \ {a}) = {}
  BY DEF Undecided, Unstaged, Claimable, Demand
<1>2. ASSUME NEW b \in TargetedWork PROVE FALSE
  <2>1. b \in Created \ {a} /\ attempt[b].target # None
    BY <1>1 DEF TargetedWork
  <2>2. attempt[b].target \in TargetsOf(Created \ {a})
    BY <2>1 DEF TargetsOf
  <2>3. QED
    BY <1>1, <2>2
<1>3. QED
  BY <1>1, <1>2

\* The plans of the others.
LEMMA PlansOfOthers ==
    ASSUME WInv, NEW a \in Attempts
    PROVE  /\ \A b \in PlannedWork \ {a} : attempt[b].plan \in PlansOf(Demand(a))
           /\ \A p \in PlansOf(Demand(a)) :
                p \in PlanRecords /\ \E b \in PlannedWork \ {a} : p = attempt[b].plan
<1>1. PlannedWork \ {a} = {b \in Demand(a) : attempt[b].plan # None}
  BY DEF PlannedWork, Demand
<1>2. \A b \in PlannedWork : attempt[b].plan \in PlanRecords
  BY DEF PlannedWork, Created, WInv, RowsHold, WorkFits, WorkRows
<1>3. QED
  BY <1>1, <1>2 DEF PlansOf

LEMMA SharePlanKeeps ==
    ASSUME WInv, NEW a \in Attempts, SharePlan(a) PROVE WInv'
<1>1. UNCHANGED <<runtime, lease, container, rollouts>>
  BY DEF SharePlan, ProviderSame
<1>2. CASE FailAttempt(a)
  BY <1>1, <1>2, FailKeeps
<1>3. ASSUME NEW p \in PlansOf(Demand(a)), PlansOf(Demand(a)) = {p},
             attempt' = [attempt EXCEPT ![a].plan = p]
      PROVE  WInv'
  <2>1. a \in Created /\ attempt[a].target = None /\ TargetedWork = {} /\ InFlight = {}
    BY UndecidedIsAlone DEF SharePlan
  <2>2. PICK b \in PlannedWork \ {a} : p = attempt[b].plan /\ p \in PlanRecords
    BY PlansOfOthers
  <2>3. b \in Attempts /\ p # None /\ p.id <= rollouts
    BY <2>2 DEF PlannedWork, Created, WInv, RowsHold, WorkFits
  <2>4. LeaseNeeds = {} =>
          /\ \A c \in PlannedWork \ {a} : attempt[c].plan = p
          /\ \/ container.id = p.id
             \/ container.version = p.before /\ container.id < p.id
    BY <2>2 DEF WInv, PlansFit, AdmittedWorkSurvives, StagedWorkSurvives
  <2>5. QED
    BY <1>1, <1>3, <2>1, <2>2, <2>3, <2>4, PlanKeeps, GroupStays
<1>4. QED
  BY <1>2, <1>3 DEF SharePlan

LEMMA RecordPlanKeeps ==
    ASSUME WInv, NEW a \in Attempts, RecordPlan(a) PROVE WInv'
<1> DEFINE p == [id |-> rollouts', before |-> container.version, manifest |-> Effective(a)]
<1>1. a \in Created /\ attempt[a].target = None /\ TargetedWork = {} /\ InFlight = {}
  BY UndecidedIsAlone DEF RecordPlan
<1>2. /\ attempt' = [attempt EXCEPT ![a].plan = p] /\ UNCHANGED <<runtime, lease, container>>
      /\ rollouts' = rollouts + 1 /\ rollouts' \in Ids
  BY DEF RecordPlan
<1>3. /\ p \in PlanRecords /\ p.id = rollouts' /\ p.before = container.version
  BY <1>2, EffectiveHolds DEF PlanRecords, WInv, RowsHold, Containers
<1> HIDE DEF p
<1>4. PlannedWork \ {a} = {}
  BY PlansOfOthers DEF RecordPlan
<1>5. /\ rollouts' \in Ids \union {0} /\ rollouts' >= rollouts /\ p.id <= rollouts'
      /\ container.id < p.id
  BY <1>2, <1>3, AdmissionAssumption DEF WInv, RowsHold, Containers, Ids
<1>6. QED
  BY <1>1, <1>2, <1>3, <1>4, <1>5, PlanKeeps

\* A step that leaves every row alone.
LEMMA GroupKeeps ==
    ASSUME WInv, UNCHANGED attempt,
           rollouts' \in Ids \union {0}, rollouts' >= rollouts, runtime' \in Manifests,
           container' \in Containers, container'.version >= container.version,
           container'.id <= rollouts', lease' \in {"none", "starting", "live"},
           InFlight # {} => /\ container'.id = container.id
                            /\ container'.manifest = container.manifest,
           LeaseNeeds = {} => /\ lease' = "none" /\ StagedWorkSurvives' /\ PlansFit'
    PROVE  WInv'
<1>1. RowsHold'
  <2>1. ASSUME NEW b \in Attempts
        PROVE  WorkFits(attempt'[b], rollouts', container'.version)
    BY NothingStaged, AdmissionAssumption
    DEF WInv, WorkFits, RowsHold, Containers, ProviderVersions, WorkRows, PlanRecords, TargetRecords, Ids
  <2>2. QED
    BY <2>1 DEF WInv, RowsHold
<1>2. InFlightKeepsRuntime'
  BY DEF WInv, AdmittedWorkSurvives, InFlightKeepsRuntime, InFlight
<1>3. QED
  BY <1>1, <1>2 DEF WInv, AdmittedWorkSurvives

LEMMA PatchedFits ==
    ASSUME WInv, NEW i \in Ids, NEW m \in Manifests
    PROVE  /\ Patched(i, m) \in Containers /\ Patched(i, m).version > container.version
           /\ Patched(i, m).id = i
  BY DEF Patched, Containers, WInv, RowsHold, ProviderVersions

\* The PATCH of a plan, which may stage the attempt that it was made for.
LEMMA PatchKeeps ==
    ASSUME WInv, NEW a \in Attempts, NEW p, p = attempt[a].plan, p # None,
           Undecided(a), UNCHANGED rollouts,
           container' = Patched(p.id, p.manifest),
           \/ UNCHANGED <<attempt, runtime, lease>>
           \/ /\ Stage(a, Admitted(container')) /\ runtime' = p.manifest
              /\ lease' = IF lease = "none" THEN "none" ELSE "live"
    PROVE  WInv'
<1>1. /\ a \in Created /\ attempt[a].target = None
      /\ TargetedWork = {} /\ InFlight = {} /\ a \in PlannedWork
  BY UndecidedIsAlone DEF PlannedWork
<1>2. p \in PlanRecords /\ p.id \in Ids /\ p.manifest \in Manifests /\ p.id <= rollouts
  BY <1>1 DEF WInv, RowsHold, WorkFits, WorkRows, PlanRecords
<1>3. /\ container' \in Containers /\ container'.version >= container.version
      /\ container'.id = p.id
  BY <1>2, PatchedFits DEF WInv, RowsHold, Containers, ProviderVersions
<1>4. ASSUME LeaseNeeds = {}
      PROVE  lease' = "none" /\ \A b \in PlannedWork : attempt[b].plan = p
  BY <1>1, <1>4 DEF WInv, PlansFit
<1>5. /\ rollouts' \in Ids \union {0} /\ rollouts' >= rollouts
      /\ runtime' \in Manifests /\ lease' \in {"none", "starting", "live"}
  BY <1>2, AdmissionAssumption DEF WInv, RowsHold, Ids
<1>6. CASE UNCHANGED <<attempt, runtime, lease>>
  <2>1. LeaseNeeds = {} => StagedWorkSurvives' /\ PlansFit'
    BY <1>1, <1>3, <1>4, <1>6
    DEF StagedWorkSurvives, PlansFit, PlannedWork, TargetedWork, Created, InFlight
  <2>2. QED
    BY <1>1, <1>2, <1>3, <1>4, <1>5, <1>6, <2>1, GroupKeeps
<1>7. CASE Stage(a, Admitted(container'))
  <2> DEFINE w == [attempt[a] EXCEPT !.target = Admitted(container'), !.plan = None]
  <2>1. attempt[a].state = "CREATED" /\ attempt[a] \in WorkRows
    BY <1>1 DEF Created, WInv, RowsHold, WorkFits
  <2>2. attempt' = [attempt EXCEPT ![a] = w]
    BY <1>7, <2>1 DEF Stage, WInv, RowsHold
  <2>3. /\ Admitted(container') \in TargetRecords /\ Admitted(container').id = p.id
        /\ Admitted(container').version = container'.version
    BY <1>2, <1>3, AdmittedIsTarget DEF Ids
  <2>4. /\ w \in WorkRows /\ w.state = "CREATED" /\ w.target = Admitted(container')
        /\ w.plan = None
    BY <2>1, <2>3 DEF WorkRows
  <2> HIDE DEF w
  <2>5. /\ Becomes(a, w) /\ attempt'[a] = w
        /\ \A b \in Attempts \ {a} : attempt'[b] = attempt[b]
    BY <2>2, OneRow DEF WInv
  <2>6. WorkFits(w, rollouts', container'.version)
    BY <2>3, <2>4, <1>3 DEF WorkFits, Containers, ProviderVersions
  <2>7. RowsHold'
    BY <1>2, <1>3, <1>5, <2>5, <2>6, RowChanges DEF WInv
  <2>8. /\ InFlight' = {} /\ PlannedWork' \subseteq PlannedWork \ {a}
        /\ TargetedWork' \subseteq {a}
    BY <1>1, <2>4, <2>5 DEF InFlight, PlannedWork, TargetedWork, Created
  <2>9. LeaseNeeds = {} => StagedWorkSurvives' /\ PlansFit'
    <3>1. ASSUME LeaseNeeds = {}, NEW b \in PlannedWork' PROVE attempt'[b].plan = p
      BY <1>4, <2>5, <2>8, <3>1 DEF PlannedWork, Created
    <3>2. \A b \in TargetedWork' : attempt'[b].target.id = p.id
      BY <2>3, <2>4, <2>5, <2>8
    <3>3. QED
      BY <1>3, <3>1, <3>2 DEF StagedWorkSurvives, PlansFit
  <2>10. InFlightKeepsRuntime'
    BY <2>8 DEF InFlightKeepsRuntime
  <2>11. QED
    BY <1>4, <2>7, <2>9, <2>10 DEF WInv, AdmittedWorkSurvives
<1>8. QED
  BY <1>6, <1>7

LEMMA RefreshKeeps ==
    ASSUME WInv, NEW a \in Attempts, Refresh(a) PROVE WInv'
<1> DEFINE p == attempt[a].plan
           first == container.version = p.before /\ container.id # p.id
           applied == /\ container.version > p.before /\ container.id = p.id
                      /\ container.manifest = p.manifest /\ container.minimum = 1
<1>1. p # None /\ Undecided(a) /\ UNCHANGED rollouts
  BY DEF Refresh
<1>2. a \in Created /\ a \in PlannedWork
  BY <1>1, UndecidedIsAlone DEF PlannedWork
<1>3. CASE first /\ container' = Patched(p.id, p.manifest)
           /\ \/ UNCHANGED <<attempt, runtime, lease>>
              \/ /\ Stage(a, Admitted(container')) /\ runtime' = p.manifest
                 /\ lease' = IF lease = "none" THEN "none" ELSE "live"
  BY <1>1, <1>3, PatchKeeps
<1>4. CASE /\ ~first /\ applied /\ container' = container
           /\ Stage(a, Admitted(container)) /\ runtime' = p.manifest
           /\ lease' = IF lease = "none" THEN "none" ELSE "live"
  <2>1. p \in PlanRecords
    BY <1>1 DEF WInv, RowsHold, WorkFits, WorkRows
  <2>2. /\ container \in Containers /\ container.id # 0 /\ runtime' \in Manifests
        /\ container'.version >= container.version
    BY <1>4, <2>1, AdmissionAssumption
    DEF WInv, RowsHold, PlanRecords, Ids, Containers, ProviderVersions
  <2>3. /\ Admitted(container) \in TargetRecords /\ Admitted(container).id = container.id
        /\ Admitted(container).version <= container'.version
    BY <1>4, <2>2, AdmittedIsTarget DEF Containers, ProviderVersions
  <2>4. LeaseNeeds = {} => OthersRun(a)
    BY <1>2, <1>4 DEF WInv, PlansFit, OthersRun
  <2>5. lease' \in {"none", "starting", "live"} /\ (lease = "none" => lease' = "none")
    BY <1>4
  <2>6. QED
    BY <1>1, <1>2, <1>4, <2>2, <2>3, <2>4, <2>5, StageKeeps
<1>5. CASE FailAttempt(a) /\ UNCHANGED <<container, runtime, lease>>
  BY <1>1, <1>5, FailKeeps
<1>6. QED
  BY <1>3, <1>4, <1>5 DEF Refresh

LEMMA EnsureAdmissionKeeps ==
    ASSUME WInv, NEW a \in Attempts, EnsureAdmission(a) PROVE WInv'
<1> DEFINE g == IF container.up THEN container
                ELSE [container EXCEPT !.up = TRUE, !.version = @ + 1]
           t == attempt[a].target
<1>1. /\ a \in Created /\ a \in TargetedWork /\ container.id = t.id /\ t # None
      /\ container' = g /\ UNCHANGED <<runtime, lease, rollouts>>
  BY DEF EnsureAdmission, Claimable, TargetedWork, Identified
<1>2. t \in TargetRecords /\ t.version <= container.version /\ container.id \in Ids
  BY <1>1 DEF WInv, RowsHold, WorkFits, WorkRows, TargetRecords
<1>3. /\ container' \in Containers /\ container'.version >= container.version
      /\ container'.id = container.id /\ container'.manifest = container.manifest
  <2>1. container \in Containers
    BY DEF WInv, RowsHold
  <2>2. CASE container.up
    BY <1>1, <2>1, <2>2 DEF Containers, ProviderVersions
  <2>3. CASE ~container.up
    <3>1. container' = [container EXCEPT !.up = TRUE, !.version = container.version + 1]
      BY <1>1, <2>3
    <3> HIDE DEF g
    <3>2. container.version \in Nat /\ container.version + 1 \in ProviderVersions
      BY <2>1 DEF Containers, ProviderVersions
    <3>3. container' \in Containers
      BY <3>1, <3>2, <2>1 DEF Containers
    <3>4. /\ container'.version = container.version + 1
          /\ container'.id = container.id /\ container'.manifest = container.manifest
      BY <3>1, <2>1 DEF Containers
    <3>5. QED
      BY <3>2, <3>3, <3>4
  <2>4. QED
    BY <2>2, <2>3
<1>4. LeaseNeeds = {} => \A b \in PlannedWork : attempt[b].plan.id = container.id
  BY <1>1 DEF WInv, PlansFit
<1>5. /\ rollouts' \in Ids \union {0} /\ rollouts' >= rollouts /\ runtime' \in Manifests
      /\ lease' \in {"none", "starting", "live"} /\ (lease = "none" => lease' = "none")
  BY <1>1, AdmissionAssumption DEF WInv, RowsHold, Ids
<1>6. CASE Stage(a, Admitted(container'))
  <2>1. /\ Admitted(container') \in TargetRecords
        /\ Admitted(container').id = container.id
        /\ Admitted(container').version <= container'.version
    BY <1>2, <1>3, AdmittedIsTarget, AdmissionAssumption DEF Containers, ProviderVersions, Ids
  <2>2. QED
    BY <1>1, <1>3, <1>4, <1>5, <1>6, <2>1, StageKeeps DEF OthersRun
<1>7. CASE Stage(a, [t EXCEPT !.worker = TRUE])
  <2> HIDE DEF t
  <2>1. container.version \in Nat /\ container'.version \in Nat
    BY <1>3 DEF Containers, ProviderVersions, WInv, RowsHold
  <2>2. t \in TargetRecords /\ t.id = container.id /\ t.version <= container.version
    BY <1>1, <1>2
  <2> HIDE DEF g
  <2>3. [t EXCEPT !.worker = TRUE] \in TargetRecords
    BY <2>2 DEF TargetRecords
  <2>4. /\ [t EXCEPT !.worker = TRUE].id = container.id
        /\ [t EXCEPT !.worker = TRUE].version <= container'.version
    BY <2>1, <2>2, <1>3 DEF TargetRecords, ProviderVersions
  <2>5. QED
    BY <1>1, <1>3, <1>4, <1>5, <1>7, <2>3, <2>4, StageKeeps DEF OthersRun
<1>8. CASE UNCHANGED attempt
  <2>1. LeaseNeeds = {} => StagedWorkSurvives' /\ PlansFit'
    BY <1>3, <1>4, <1>8
    DEF WInv, AdmittedWorkSurvives, StagedWorkSurvives, PlansFit, PlannedWork, TargetedWork, Created, InFlight
  <2>2. LeaseNeeds = {} => lease' = "none"
    BY <1>1 DEF WInv
  <2>3. container'.id <= rollouts'
    BY <1>1, <1>3 DEF WInv, RowsHold
  <2>4. QED
    BY <1>3, <1>5, <1>8, <2>1, <2>2, <2>3, GroupKeeps
<1>9. QED
  BY <1>1, <1>6, <1>7, <1>8 DEF EnsureAdmission

LEMMA RepairKeeps ==
    ASSUME WInv, Repair PROVE WInv'
<1>1. PICK m \in Minimums :
        container' = [container EXCEPT !.minimum = m, !.version = container.version + 1]
  BY DEF Repair
<1>2. /\ m \in 0 .. 1 /\ PlannedWork = {}
      /\ UNCHANGED <<attempt, runtime, lease, rollouts>>
  BY DEF Repair, Minimums
<1>3. /\ container \in Containers /\ container.version \in Nat
      /\ container.version + 1 \in ProviderVersions
  BY DEF WInv, RowsHold, Containers, ProviderVersions
<1>4. container' \in Containers
  BY <1>1, <1>2, <1>3 DEF Containers
<1>5. /\ container'.version >= container.version
      /\ container'.id = container.id /\ container'.manifest = container.manifest
  BY <1>1, <1>3 DEF Containers
<1>6. LeaseNeeds = {} => lease' = "none" /\ StagedWorkSurvives' /\ PlansFit'
  BY <1>2, <1>5 DEF WInv, AdmittedWorkSurvives, StagedWorkSurvives, PlansFit, PlannedWork, TargetedWork, Created
<1>7. /\ rollouts' \in Ids \union {0} /\ rollouts' >= rollouts /\ runtime' \in Manifests
      /\ lease' \in {"none", "starting", "live"} /\ container'.id <= rollouts'
  BY <1>2, <1>5, AdmissionAssumption DEF WInv, RowsHold, Ids
<1>8. QED
  BY <1>2, <1>4, <1>5, <1>6, <1>7, GroupKeeps

LEMMA GroupGoesDownKeeps ==
    ASSUME WInv, GroupGoesDown PROVE WInv'
<1>1. /\ container' = [container EXCEPT !.up = FALSE]
      /\ UNCHANGED <<attempt, runtime, lease, rollouts>>
  BY DEF GroupGoesDown
<1>2. /\ container' \in Containers /\ container'.version = container.version
      /\ container'.id = container.id /\ container'.manifest = container.manifest
  BY <1>1 DEF WInv, RowsHold, Containers
<1>3. LeaseNeeds = {} => lease' = "none" /\ StagedWorkSurvives' /\ PlansFit'
  BY <1>1, <1>2 DEF WInv, AdmittedWorkSurvives, StagedWorkSurvives, PlansFit, PlannedWork, TargetedWork, Created, InFlight
<1>4. /\ rollouts' \in Ids \union {0} /\ rollouts' >= rollouts /\ runtime' \in Manifests
      /\ lease' \in {"none", "starting", "live"} /\ container'.id <= rollouts'
      /\ container'.version >= container.version
  BY <1>1, <1>2, AdmissionAssumption DEF WInv, RowsHold, Ids, Containers, ProviderVersions
<1>5. QED
  BY <1>1, <1>2, <1>3, <1>4, GroupKeeps

\* Warm leases: there are none unless LeaseNeeds names what one asks for.
LEMMA LeaseKeeps ==
    ASSUME WInv, StartLease \/ EndLease \/ WarmRefresh PROVE WInv'
<1>1. LeaseNeeds # {} /\ UNCHANGED attempt
  BY DEF WInv, StartLease, EndLease, WarmRefresh
<1>2. CASE StartLease \/ EndLease
  <2>1. UNCHANGED <<runtime, container, rollouts>> /\ lease' \in {"none", "starting"}
    BY <1>2 DEF StartLease, EndLease
  <2>2. /\ rollouts' \in Ids \union {0} /\ rollouts' >= rollouts /\ runtime' \in Manifests
        /\ container' \in Containers /\ container'.id <= rollouts'
        /\ container'.version >= container.version
    BY <2>1, AdmissionAssumption DEF WInv, RowsHold, Ids, Containers, ProviderVersions
  <2>3. QED
    BY <1>1, <2>1, <2>2, GroupKeeps
<1>3. CASE WarmRefresh
  <2>1. PICK m \in IF Created = {} THEN LeaseNeeds ELSE {Need(b) : b \in Created} :
          /\ container' = Patched(rollouts', m)
          /\ \/ runtime' = m /\ lease' = "live"
             \/ UNCHANGED <<runtime, lease>>
    BY <1>3 DEF WarmRefresh
  <2>2. m \in Manifests
    BY Loadable DEF Created
  <2>3. rollouts' = rollouts + 1 /\ rollouts' \in Ids /\ InFlight = {}
    BY <1>3 DEF WarmRefresh
  <2>4. /\ container' \in Containers /\ container'.version >= container.version
        /\ container'.id = rollouts'
    BY <2>1, <2>2, <2>3, PatchedFits DEF WInv, RowsHold, Containers, ProviderVersions
  <2>5. /\ rollouts' \in Ids \union {0} /\ rollouts' >= rollouts /\ runtime' \in Manifests
        /\ lease' \in {"none", "starting", "live"} /\ container'.id <= rollouts'
    BY <2>1, <2>2, <2>3, <2>4, AdmissionAssumption DEF WInv, RowsHold, Ids
  <2>6. QED
    BY <1>1, <2>3, <2>4, <2>5, GroupKeeps
<1>4. QED
  BY <1>2, <1>3

LEMMA SubmitOnceKeeps ==
    ASSUME WInv, NEW a \in Attempts, SubmitOnce(a) PROVE WInv'
<1>1. CASE FailStale(a) \/ EnsureFails(a)
  BY <1>1, FailKeeps DEF FailStale, EnsureFails, ProviderSame
<1>2. QED
  BY <1>1, JoinTargetKeeps, JoinWarmKeeps, SharePlanKeeps, RecordPlanKeeps, RefreshKeeps,
     EnsureAdmissionKeeps, SubmitKeeps DEF SubmitOnce

LEMMA NextKeepsWork ==
    ASSUME WInv, [AdmissionNext]_admissionVars PROVE WInv'
<1>1. ASSUME NEW a \in Attempts, PrepareAttempt(a) PROVE WInv'
  BY <1>1, QuietKeeps DEF PrepareAttempt, WorkStates
<1>2. ASSUME NEW a \in Attempts, Abandon(a) PROVE WInv'
  BY <1>2, FailKeeps DEF Abandon, ProviderSame
<1>3. ASSUME NEW a \in Attempts, FinishAttempt(a) PROVE WInv'
  BY <1>3, QuietKeeps DEF FinishAttempt, WorkStates
<1>4. CASE UNCHANGED admissionVars
  BY <1>4 DEF admissionVars, WInv, RowsHold, AdmittedWorkSurvives, InFlightKeepsRuntime,
     StagedWorkSurvives, PlansFit, PlannedWork, TargetedWork, InFlight, Created
<1>5. QED
  BY <1>1, <1>2, <1>3, <1>4, SubmitOnceKeeps, RearmKeeps, RepairKeeps, GroupGoesDownKeeps,
     LeaseKeeps DEF AdmissionNext

LEMMA InitWInv == AdmissionInit => WInv
<1> SUFFICES ASSUME AdmissionInit PROVE WInv
  OBVIOUS
<1>1. container \in Containers /\ container.id = 0 /\ rollouts = 0
  BY Loadable DEF AdmissionInit, Containers, ProviderVersions
<1>2. \A a \in Attempts : /\ attempt[a] \in WorkRows /\ attempt[a].state = "NONE"
                          /\ attempt[a].plan = None /\ attempt[a].target = None
  BY DEF AdmissionInit, WorkRows, WorkStates
<1>3. RowsHold
  BY <1>1, <1>2, Loadable, AdmissionAssumption DEF AdmissionInit, RowsHold, WorkFits
<1>4. Created = {} /\ InFlight = {}
  BY <1>2 DEF Created, InFlight
<1>5. QED
  BY <1>3, <1>4 DEF AdmissionInit, WInv, AdmittedWorkSurvives, InFlightKeepsRuntime,
     StagedWorkSurvives, PlansFit, PlannedWork, TargetedWork

-----------------------------------------------------------------------------
(* The theorems.                                                            *)

\* Rows, group and plans agree in every state (WInv).
THEOREM AdmissionsAgree == AdmissionSpec => []WInv
  BY InitWInv, NextKeepsWork, PTL DEF AdmissionSpec

\* The rows keep their shape: a plan or a target, never both.
THEOREM AdmissionTyping == AdmissionSpec => []AdmissionTypeOK
<1>1. WInv => AdmissionTypeOK
  BY DEF WInv, RowsHold, WorkFits, WorkRows, WorkStates, Containers, AdmissionTypeOK
<1>2. QED
  BY <1>1, AdmissionsAgree, PTL

\* No worker is reloaded under a job in flight, whoever else uses the group; and
\* without warm leases what was staged for an attempt can always be carried out.
THEOREM AdmittedWork == AdmissionSpec => []AdmittedWorkSurvives
<1>1. WInv => AdmittedWorkSurvives
  BY DEF WInv
<1>2. QED
  BY <1>1, AdmissionsAgree, PTL

-----------------------------------------------------------------------------
(* WorkerRollout: the inductive invariant.                                  *)

Steps == CommandSteps \cup {"freeze", "preflight", "persist", "serve", "finish",
                            "trap", "resume", "hold", "abandon"}
Operations ==
  [at : Steps, kind : {"promote", "recycle", "rollback", "recover"},
   original : Profiles, resume : Profiles, frozen : Profiles, image : Images,
   saved : SUBSET Saved, marker : BOOLEAN, diag : BOOLEAN,
   runs : {"command", "handler", "trap"}, persisted : BOOLEAN, failed : BOOLEAN]

\* The rows keep their shape; one control plane answers at most, and one bundle
\* is active at most.
RowsTyped ==
  /\ env \in Profiles /\ serving \in SUBSET Profiles
  /\ \A p, q \in serving : p = q
  /\ worker \in Workers /\ working \in BOOLEAN
  /\ active \in SUBSET Bundles /\ (\A b, c \in active : b = c)
  /\ dirs \in SUBSET Directories /\ IsFiniteSet(dirs) /\ Cardinality(dirs) <= MaxDirs
  /\ op = Idle \/ op \in Operations
  /\ ~At("idle") => Cardinality(dirs) < MaxDirs

\* A profile that opens the queue fits the group, and whoever works has a worker
\* that is ready: of the profile that serves, and of the one installed.
QueueClosed == \A p \in serving \cup {env} : ~p.on
Fits(p) == p.on => worker.image = p.image /\ worker.next = p.image
WorkerFits ==
  /\ ~worker.pending => worker.next = worker.image
  /\ worker.pending => worker.version < MaxGroupVersion
  /\ \A p \in serving \cup {env} : Fits(p)
  /\ working => Ready

\* A record knows the images of the group and of the installed profile.
Covers(s) == {worker.image, worker.next, env.image} \subseteq {s.prior, s.new}

\* The target of a record was asked for and has not been given up: no change of
\* the group but its own followed the record (Awaiting), and the group is, or
\* will be, the target (Awaited). A recovery starts from such a record, so that
\* no queue is opened while there is one.
Awaited(s) ==
  /\ worker.version >= s.version
  /\ worker.version = s.version => worker.pending /\ worker.next = s.new
  /\ worker.version = s.version + 1 => worker.image = s.new
Awaiting(s) == worker.version <= s.version + 1

\* The active bundle knows both workers; while the promoted one is not the one
\* of the installed profile, its record is also the operation's, or in the
\* directory of one that was interrupted.
Under == IF At("idle") THEN {} ELSE op.saved
BundlesFit == \A b \in active :
  /\ b.saved.prior = b.original.image /\ b.saved.prior # b.saved.new
  /\ Covers(b.saved)
  /\ env.image # b.saved.new => b.saved \in Under \cup {d.saved : d \in dirs}
  /\ ~At("idle") => op.saved = {b.saved}

\* A directory whose target did not settle keeps the queue closed as long as it
\* could be recovered, whatever operation comes meanwhile.
DirsFit == \A d \in dirs :
  /\ d.saved.prior = d.original.image /\ d.saved.prior # d.saved.new
  /\ d.marker /\ d.diag =>
       /\ Awaited(d.saved)
       /\ Awaiting(d.saved) =>
            /\ QueueClosed /\ env.image = d.saved.prior /\ active = {}
            /\ ~At("idle") => op.saved = {} /\ ~op.resume.on

\* The steps under a frozen profile, those of them in which nothing works, the
\* ones towards the target, the ones back to the prior worker, and those of a
\* recovery.
FrozenSteps == CommandSteps \cup {"preflight", "persist", "serve", "finish", "abandon"}
QuietSteps == FrozenSteps \ {"check", "guard", "restoreGuard", "recGuard", "abandon"}
TargetSteps == {"patch", "stop", "stopped", "converge", "start", "ready",
                "preflight", "persist", "serve"}
BackSteps == {"restoreGuard", "restore", "restorePatch", "restart", "restored"}
RecoverSteps == {"recGuard", "recPatch", "recStart", "recReady", "abandon"}

\* What the operation comes back to, once it has been written down.
SavedFit == \A s \in op.saved :
  /\ op.saved = {s}
  /\ s.prior = op.original.image /\ s.new = op.image /\ s.prior # s.new
  /\ Covers(s) /\ {op.frozen.image, op.resume.image} \subseteq {s.prior, s.new}
  /\ op.kind # "rollback" => op.frozen.image = s.prior

\* The operation, wherever it is: before a record there was no change to undo,
\* the bundle is active from the promotion on, and unless a change is announced
\* the profile to resume fits the group.
OpFits ==
  /\ ~op.frozen.on
  /\ op.kind \in {"promote", "recycle"} =>
        op.resume = op.original /\ op.image # op.original.image
        /\ op.frozen.image = op.original.image
  /\ op.saved = {} => /\ env.image = op.frozen.image /\ env.image = op.resume.image
                      /\ ~op.marker /\ op.kind \in {"promote", "recycle"}
                      /\ At("freeze") \/ At("check") \/ At("trap") \/ At("resume")
  /\ SavedFit
  /\ (op.kind = "rollback" \/ op.persisted) <=> active # {}
  /\ op.persisted => op.kind \in {"promote", "recycle"}
  /\ op.kind \in {"rollback", "recover"} => op.saved # {}
  /\ op.kind = "recover" => op.resume = op.original
  /\ ~op.marker \/ At("resume") => Fits(op.resume)
  /\ op.marker /\ op.diag => \A s \in op.saved :
        /\ Awaited(s)
        /\ Awaiting(s) => QueueClosed /\ env.image = s.prior /\ active = {}
                          /\ op.frozen.image = s.prior

\* The operation at each of its steps: the group is changed under a frozen
\* profile, with a marker, and with nothing at work; and a profile is served at
\* the end only of a group that is known.
StepFits ==
  /\ At("freeze") => op.runs = "command" /\ ~op.marker /\ env.image = op.frozen.image
                     /\ (op.kind # "rollback" => op.saved = {})
  /\ op.at \in FrozenSteps => QueueClosed
  /\ op.at \in FrozenSteps /\ op.kind # "recover" => env.image = op.frozen.image
  /\ op.at \in QuietSteps => ~working
  /\ At("restoreGuard") /\ op.runs = "handler" => ~working
  /\ op.at \in TargetSteps =>
        op.marker /\ op.kind \in {"promote", "recycle"} /\ op.runs = "command"
  /\ op.at \in {"check", "guard"} =>
        op.kind \in {"promote", "recycle"} /\ op.runs = "command" /\ ~op.marker
  /\ op.runs = "command" /\ op.kind # "recover" => ~op.diag
  /\ op.diag /\ op.kind # "recover" => op.marker
  /\ op.at \in {"stop", "stopped", "patch"} => Unchanged
  /\ At("converge") => \A s \in op.saved : Awaited(s)
  /\ op.at \in {"preflight", "persist", "serve"} =>
        worker.image = op.image /\ worker.next = op.image
  /\ At("serve") <=> op.persisted /\ op.runs = "command" /\ ~At("trap")
  /\ op.at \in BackSteps /\ op.runs = "command" => op.kind = "rollback"
  /\ op.runs = "handler" => op.kind \in {"promote", "recycle"} /\ ~op.persisted
  /\ op.at \in RecoverSteps => op.kind = "recover"
  /\ op.at \in RecoverSteps \cup {"finish"} => op.runs = "command"
  /\ op.kind = "recover" => op.at \in RecoverSteps \cup {"finish", "trap", "resume"}
        /\ (At("trap") \/ At("resume") \/ At("finish") => ~op.marker)
  /\ At("finish") => Fits(op.original) /\ op.kind \in {"rollback", "recover"}
                    /\ worker.image = op.original.image /\ ~worker.pending
  /\ At("recReady") => worker.image = op.original.image /\ ~worker.pending
  /\ At("resume") /\ op.marker =>
        QueueClosed /\ worker.image = op.original.image /\ ~worker.pending
  /\ At("resume") \/ At("hold") => op.runs = "trap"
  /\ op.at \in {"restorePatch", "restart", "recGuard", "recPatch", "recStart",
                "recReady"} => op.marker

LInv == RowsTyped /\ WorkerFits /\ ChangeIsRecorded /\ BundlesFit /\ DirsFit
        /\ (~At("idle") => OpFits /\ StepFits)

-----------------------------------------------------------------------------
(* One step of an operation that touches neither group nor profile.         *)

\* Whether an operation is under way.
LEMMA Busy ==
  ASSUME RowsTyped
  PROVE  /\ At("idle") <=> op = Idle
         /\ ~At("idle") <=> op \in Operations
  BY DEF RowsTyped, Idle, At, Operations, Steps, CommandSteps

\* One step of an operation that leaves everything else alone.
LEMMA Onward ==
  ASSUME LInv, ~At("idle"), OnlyOp, op' \in Operations, op'.saved = op.saved,
         op'.resume = op.resume \/ op.saved # {}, OpFits', StepFits'
  PROVE  LInv'
<1>0. op \in Operations /\ ~At("idle")'
  BY Busy DEF LInv, At, Operations, Steps, CommandSteps
<1>1. RowsTyped'
  BY <1>0 DEF LInv, RowsTyped, OnlyOp, At
<1>2. WorkerFits'
  BY DEF LInv, WorkerFits, OnlyOp, Fits, Ready
<1>3. ChangeIsRecorded' /\ BundlesFit'
  BY <1>0 DEF LInv, ChangeIsRecorded, Kept, OnlyOp, At, BundlesFit, Covers, Under
<1>4. DirsFit'
  BY <1>0 DEF LInv, DirsFit, OnlyOp, At, Awaited, Awaiting, QueueClosed
<1>5. QED
  BY <1>0, <1>1, <1>2, <1>3, <1>4 DEF LInv

LEMMA AwaitStoppedKeeps == ASSUME LInv, AwaitStopped PROVE LInv'
<1>0. op \in Operations /\ ~At("idle") /\ OnlyOp
  BY Busy DEF LInv, At, AwaitStopped, Go, CommandSteps
<1>1. op' \in Operations /\ op'.saved = op.saved /\ op'.resume = op.resume
  BY <1>0 DEF AwaitStopped, Go, Operations, Steps, CommandSteps
<1>2. OpFits'
  BY <1>0, <1>1 DEF AwaitStopped, Go, OnlyOp, LInv, WorkerFits, Ready, Stopped, OpFits,
      SavedFit, StepFits, QueueClosed, Fits, At, Operations, FrozenSteps, QuietSteps,
      TargetSteps, BackSteps, RecoverSteps, CommandSteps, Unchanged, Covers, Awaited,
      Awaiting, Steps
<1>3. StepFits'
  BY <1>0, <1>1 DEF AwaitStopped, Go, OnlyOp, LInv, WorkerFits, Ready, Stopped, OpFits,
      SavedFit, StepFits, QueueClosed, Fits, At, Operations, FrozenSteps, QuietSteps,
      TargetSteps, BackSteps, RecoverSteps, CommandSteps, Unchanged, Covers, Awaited,
      Awaiting, Steps
<1>4. QED
  BY <1>0, <1>1, <1>2, <1>3, Onward

LEMMA AwaitTargetKeeps == ASSUME LInv, AwaitTarget PROVE LInv'
<1>0. op \in Operations /\ ~At("idle") /\ OnlyOp
  BY Busy DEF LInv, At, AwaitTarget, TargetSettled, Go, CommandSteps
<1>1. op' \in Operations /\ op'.saved = op.saved /\ op'.resume = op.resume
  BY <1>0 DEF AwaitTarget, TargetSettled, Go, Operations, Steps, CommandSteps
<1>2. OpFits'
  BY <1>0, <1>1 DEF AwaitTarget, TargetSettled, Go, OnlyOp, LInv, WorkerFits, Ready,
      Stopped, OpFits, SavedFit, StepFits, QueueClosed, Fits, At, Operations, FrozenSteps,
      QuietSteps, TargetSteps, BackSteps, RecoverSteps, CommandSteps, Unchanged, Covers,
      Awaited, Awaiting, Steps
<1>3. StepFits'
  BY <1>0, <1>1 DEF AwaitTarget, TargetSettled, Go, OnlyOp, LInv, WorkerFits, Ready,
      Stopped, OpFits, SavedFit, StepFits, QueueClosed, Fits, At, Operations, FrozenSteps,
      QuietSteps, TargetSteps, BackSteps, RecoverSteps, CommandSteps, Unchanged, Covers,
      Awaited, Awaiting, Steps
<1>4. QED
  BY <1>0, <1>1, <1>2, <1>3, Onward

LEMMA AwaitReadyKeeps == ASSUME LInv, AwaitReady PROVE LInv'
<1>0. op \in Operations /\ ~At("idle") /\ OnlyOp
  BY Busy DEF LInv, At, AwaitReady, Go, CommandSteps
<1>1. op' \in Operations /\ op'.saved = op.saved /\ op'.resume = op.resume
  BY <1>0 DEF AwaitReady, Go, Operations, Steps, CommandSteps
<1>2. OpFits'
  BY <1>0, <1>1 DEF AwaitReady, Go, OnlyOp, LInv, WorkerFits, Ready, Stopped, OpFits,
      SavedFit, StepFits, QueueClosed, Fits, At, Operations, FrozenSteps, QuietSteps,
      TargetSteps, BackSteps, RecoverSteps, CommandSteps, Unchanged, Covers, Awaited,
      Awaiting, Steps
<1>3. StepFits'
  BY <1>0, <1>1 DEF AwaitReady, Go, OnlyOp, LInv, WorkerFits, Ready, Stopped, OpFits,
      SavedFit, StepFits, QueueClosed, Fits, At, Operations, FrozenSteps, QuietSteps,
      TargetSteps, BackSteps, RecoverSteps, CommandSteps, Unchanged, Covers, Awaited,
      Awaiting, Steps
<1>4. QED
  BY <1>0, <1>1, <1>2, <1>3, Onward

LEMMA PreflightKeeps == ASSUME LInv, Preflight PROVE LInv'
<1>0. op \in Operations /\ ~At("idle") /\ OnlyOp
  BY Busy DEF LInv, At, Preflight, Go, CommandSteps
<1>1. op' \in Operations /\ op'.saved = op.saved /\ op'.resume = op.resume
  BY <1>0 DEF Preflight, Go, Operations, Steps, CommandSteps
<1>2. OpFits'
  BY <1>0, <1>1 DEF Preflight, Go, OnlyOp, LInv, WorkerFits, Ready, Stopped, OpFits,
      SavedFit, StepFits, QueueClosed, Fits, At, Operations, FrozenSteps, QuietSteps,
      TargetSteps, BackSteps, RecoverSteps, CommandSteps, Unchanged, Covers, Awaited,
      Awaiting, Steps
<1>3. StepFits'
  BY <1>0, <1>1 DEF Preflight, Go, OnlyOp, LInv, WorkerFits, Ready, Stopped, OpFits,
      SavedFit, StepFits, QueueClosed, Fits, At, Operations, FrozenSteps, QuietSteps,
      TargetSteps, BackSteps, RecoverSteps, CommandSteps, Unchanged, Covers, Awaited,
      Awaiting, Steps
<1>4. QED
  BY <1>0, <1>1, <1>2, <1>3, Onward

LEMMA PreflightFailsKeeps == ASSUME LInv, PreflightFails PROVE LInv'
<1>0. op \in Operations /\ ~At("idle") /\ OnlyOp
  BY Busy DEF LInv, At, PreflightFails, Go, CommandSteps
<1>1. op' \in Operations /\ op'.saved = op.saved /\ op'.resume = op.resume
  BY <1>0 DEF PreflightFails, Go, Operations, Steps, CommandSteps
<1>2. OpFits'
  BY <1>0, <1>1 DEF PreflightFails, Go, OnlyOp, LInv, WorkerFits, Ready, Stopped,
      OpFits, SavedFit, StepFits, QueueClosed, Fits, At, Operations, FrozenSteps, QuietSteps,
      TargetSteps, BackSteps, RecoverSteps, CommandSteps, Unchanged, Covers, Awaited,
      Awaiting, Steps
<1>3. StepFits'
  BY <1>0, <1>1 DEF PreflightFails, Go, OnlyOp, LInv, WorkerFits, Ready, Stopped,
      OpFits, SavedFit, StepFits, QueueClosed, Fits, At, Operations, FrozenSteps, QuietSteps,
      TargetSteps, BackSteps, RecoverSteps, CommandSteps, Unchanged, Covers, Awaited,
      Awaiting, Steps
<1>4. QED
  BY <1>0, <1>1, <1>2, <1>3, Onward

LEMMA RestoreGuardKeeps == ASSUME LInv, RestoreGuard PROVE LInv'
<1>0. op \in Operations /\ ~At("idle") /\ OnlyOp
  BY Busy DEF LInv, At, RestoreGuard, Go, CommandSteps
<1>1. op' \in Operations /\ op'.saved = op.saved /\ op'.resume = op.resume
  BY <1>0 DEF RestoreGuard, Go, Operations, Steps, CommandSteps
<1>2. OpFits'
  BY <1>0, <1>1 DEF RestoreGuard, Go, OnlyOp, LInv, WorkerFits, Ready, Stopped, OpFits,
      SavedFit, StepFits, QueueClosed, Fits, At, Operations, FrozenSteps, QuietSteps,
      TargetSteps, BackSteps, RecoverSteps, CommandSteps, Unchanged, Covers, Awaited,
      Awaiting, Steps
<1>3. StepFits'
  BY <1>0, <1>1 DEF RestoreGuard, Go, OnlyOp, LInv, WorkerFits, Ready, Stopped, OpFits,
      SavedFit, StepFits, QueueClosed, Fits, At, Operations, FrozenSteps, QuietSteps,
      TargetSteps, BackSteps, RecoverSteps, CommandSteps, Unchanged, Covers, Awaited,
      Awaiting, Steps
<1>4. QED
  BY <1>0, <1>1, <1>2, <1>3, Onward

LEMMA RecoverGuardKeeps == ASSUME LInv, RecoverGuard PROVE LInv'
<1>0. op \in Operations /\ ~At("idle") /\ OnlyOp
  BY Busy DEF LInv, At, RecoverGuard, CommandSteps
<1>1. op' \in Operations /\ op'.saved = op.saved /\ op'.resume = op.resume
  BY <1>0 DEF RecoverGuard, Operations, Steps, CommandSteps
<1>2. OpFits'
  BY <1>0, <1>1 DEF RecoverGuard, OnlyOp, LInv, WorkerFits, Ready, Stopped, OpFits,
      SavedFit, StepFits, QueueClosed, Fits, At, Operations, FrozenSteps, QuietSteps,
      TargetSteps, BackSteps, RecoverSteps, CommandSteps, Unchanged, Covers, Awaited,
      Awaiting, Steps
<1>3. StepFits'
  BY <1>0, <1>1 DEF RecoverGuard, OnlyOp, LInv, WorkerFits, Ready, Stopped, OpFits,
      SavedFit, StepFits, QueueClosed, Fits, At, Operations, FrozenSteps, QuietSteps,
      TargetSteps, BackSteps, RecoverSteps, CommandSteps, Unchanged, Covers, Awaited,
      Awaiting, Steps
<1>4. QED
  BY <1>0, <1>1, <1>2, <1>3, Onward

LEMMA RecoverReadyKeeps == ASSUME LInv, RecoverReady PROVE LInv'
<1>0. op \in Operations /\ ~At("idle") /\ OnlyOp
  BY Busy DEF LInv, At, RecoverReady, CommandSteps
<1>1. op' \in Operations /\ op'.saved = op.saved /\ op'.resume = op.resume
  BY <1>0 DEF RecoverReady, Operations, Steps, CommandSteps
<1>2. OpFits'
  BY <1>0, <1>1 DEF RecoverReady, OnlyOp, LInv, WorkerFits, Ready, Stopped, OpFits,
      SavedFit, StepFits, QueueClosed, Fits, At, Operations, FrozenSteps, QuietSteps,
      TargetSteps, BackSteps, RecoverSteps, CommandSteps, Unchanged, Covers, Awaited,
      Awaiting, Steps
<1>3. StepFits'
  BY <1>0, <1>1 DEF RecoverReady, OnlyOp, LInv, WorkerFits, Ready, Stopped, OpFits,
      SavedFit, StepFits, QueueClosed, Fits, At, Operations, FrozenSteps, QuietSteps,
      TargetSteps, BackSteps, RecoverSteps, CommandSteps, Unchanged, Covers, Awaited,
      Awaiting, Steps
<1>4. QED
  BY <1>0, <1>1, <1>2, <1>3, Onward

LEMMA RestoreKeeps == ASSUME LInv, Restore PROVE LInv'
<1> USE DEF LInv, OpFits, SavedFit, StepFits, OnlyOp, At, Fits, Covers, Awaited, Awaiting,
     QueueClosed, Operations, Steps, WorkerFits, Ready, Stopped, FrozenSteps, QuietSteps,
     TargetSteps, BackSteps, RecoverSteps, CommandSteps, Unchanged
<1>0. op \in Operations /\ ~At("idle") /\ OnlyOp
  BY Busy DEF Restore
<1>1. CASE op' = [op EXCEPT !.at = "restored"]
  <2>1. op' \in Operations /\ op'.saved = op.saved
    BY <1>0, <1>1 DEF Restore
  <2>2. OpFits'
    BY <1>0, <1>1, <2>1 DEF Restore
  <2>3. StepFits'
    BY <1>0, <1>1, <2>1 DEF Restore
  <2>4. QED
    BY <1>0, <1>1, <2>1, <2>2, <2>3, Onward DEF Restore
<1>2. CASE op' = [op EXCEPT !.at = "restorePatch", !.marker = TRUE]
  <2>1. op' \in Operations /\ op'.saved = op.saved
    BY <1>0, <1>2 DEF Restore
  <2>2. OpFits'
    BY <1>0, <1>2, <2>1 DEF Restore
  <2>3. StepFits'
    BY <1>0, <1>2, <2>1 DEF Restore
  <2>4. QED
    BY <1>0, <1>2, <2>1, <2>2, <2>3, Onward DEF Restore
<1>3. QED
  BY <1>0, <1>1, <1>2 DEF Restore, Go

LEMMA RestoredKeeps == ASSUME LInv, Restored PROVE LInv'
<1>0. op \in Operations /\ ~At("idle") /\ OnlyOp /\ op.at = "restored"
      /\ worker.image = PriorOf.prior /\ ~worker.pending
      /\ PriorOf \in op.saved
  BY Busy DEF LInv, At, Restored, CommandSteps, PriorOf, StillDegraded, OpFits, Ready
<1>a. /\ op.saved # {} /\ op.original \in Profiles
      /\ worker.image = op.original.image /\ worker.next = op.original.image
  BY <1>0 DEF LInv, OpFits, SavedFit, Operations, WorkerFits, RowsTyped
<1>1. CASE op.runs = "handler" /\ op' = [op EXCEPT !.at = "trap", !.marker = FALSE, !.diag = FALSE]
  <2>1. op' \in Operations /\ op'.saved = op.saved
    BY <1>0, <1>a, <1>1 DEF Operations, Steps, CommandSteps, At
  <2>2. OpFits' /\ StepFits'
    <3> USE DEF LInv, OpFits, SavedFit, StepFits, OnlyOp, At, Fits, Covers, Awaited,
        Awaiting, QueueClosed, Operations, Steps, WorkerFits, Ready, Stopped, FrozenSteps,
        QuietSteps, TargetSteps, BackSteps, RecoverSteps, CommandSteps, Unchanged,
        Restores
    <3>1. OpFits'
      BY <1>0, <1>a, <1>1, <2>1
    <3>2. StepFits'
      BY <1>0, <1>a, <1>1, <2>1
    <3>3. QED
      BY <3>1, <3>2
  <2>3. op'.resume = op.resume \/ op.saved # {}
    BY <1>0, <1>a, <1>1 DEF Operations
  <2>4. QED
    BY <1>0, <2>1, <2>2, <2>3, Onward
<1>2. CASE op.runs = "trap" /\ op' = [op EXCEPT !.at = "resume", !.resume = op.original]
  <2>1. op' \in Operations /\ op'.saved = op.saved
    BY <1>0, <1>a, <1>2 DEF Operations, Steps, CommandSteps, At
  <2>2. OpFits' /\ StepFits'
    <3> USE DEF LInv, OpFits, SavedFit, StepFits, OnlyOp, At, Fits, Covers, Awaited,
        Awaiting, QueueClosed, Operations, Steps, WorkerFits, Ready, Stopped, FrozenSteps,
        QuietSteps, TargetSteps, BackSteps, RecoverSteps, CommandSteps, Unchanged,
        Restores
    <3>1. OpFits'
      BY <1>0, <1>a, <1>2, <2>1
    <3>2. StepFits'
      BY <1>0, <1>a, <1>2, <2>1
    <3>3. QED
      BY <3>1, <3>2
  <2>3. op'.resume = op.resume \/ op.saved # {}
    BY <1>0, <1>a, <1>2 DEF Operations
  <2>4. QED
    BY <1>0, <2>1, <2>2, <2>3, Onward
<1>3. CASE op.runs = "command" /\ op' = [op EXCEPT !.at = "finish"]
  <2>1. op' \in Operations /\ op'.saved = op.saved
    BY <1>0, <1>a, <1>3 DEF Operations, Steps, CommandSteps, At
  <2>2. OpFits' /\ StepFits'
    <3> USE DEF LInv, OpFits, SavedFit, StepFits, OnlyOp, At, Fits, Covers, Awaited,
        Awaiting, QueueClosed, Operations, Steps, WorkerFits, Ready, Stopped, FrozenSteps,
        QuietSteps, TargetSteps, BackSteps, RecoverSteps, CommandSteps, Unchanged,
        Restores
    <3>1. OpFits'
      BY <1>0, <1>a, <1>3, <2>1
    <3>2. StepFits'
      BY <1>0, <1>a, <1>3, <2>1
    <3>3. QED
      BY <3>1, <3>2
  <2>3. op'.resume = op.resume \/ op.saved # {}
    BY <1>0, <1>a, <1>3 DEF Operations
  <2>4. QED
    BY <1>0, <2>1, <2>2, <2>3, Onward
<1>4. QED
  BY <1>0, <1>a, <1>1, <1>2, <1>3 DEF Restored, Operations

LEMMA FailingKeeps == ASSUME LInv, Failing PROVE LInv'
<1>0. op \in Operations /\ ~At("idle") /\ OnlyOp /\ op.at \in CommandSteps
  BY Busy DEF LInv, At, Failing, CommandSteps
<1>1. CASE op.runs = "handler" /\ op' = [op EXCEPT !.at = "trap", !.diag = op.diag /\ ~At("restoreGuard")]
  <2>1. op' \in Operations /\ op'.saved = op.saved
    BY <1>0, <1>1 DEF Operations, Steps, CommandSteps, At
  <2>2. OpFits' /\ StepFits'
    <3> USE DEF LInv, OpFits, SavedFit, StepFits, OnlyOp, At, Fits, Covers, Awaited,
        Awaiting, QueueClosed, Operations, Steps, WorkerFits, Ready, Stopped, FrozenSteps,
        QuietSteps, TargetSteps, BackSteps, RecoverSteps, CommandSteps, Unchanged,
        Restores
    <3>1. OpFits'
      BY <1>0, <1>1, <2>1
    <3>2. StepFits'
      BY <1>0, <1>1, <2>1
    <3>3. QED
      BY <3>1, <3>2
  <2>3. op'.resume = op.resume \/ op.saved # {}
    BY <1>0, <1>1 DEF Operations
  <2>4. QED
    BY <1>0, <2>1, <2>2, <2>3, Onward
<1>2. CASE op.kind = "recover" /\ op' = [op EXCEPT !.at = "abandon"]
  <2>1. op' \in Operations /\ op'.saved = op.saved
    BY <1>0, <1>2 DEF Operations, Steps, CommandSteps, At
  <2>2. OpFits' /\ StepFits'
    <3> USE DEF LInv, OpFits, SavedFit, StepFits, OnlyOp, At, Fits, Covers, Awaited,
        Awaiting, QueueClosed, Operations, Steps, WorkerFits, Ready, Stopped, FrozenSteps,
        QuietSteps, TargetSteps, BackSteps, RecoverSteps, CommandSteps, Unchanged,
        Restores
    <3>1. OpFits'
      BY <1>0, <1>2, <2>1
    <3>2. StepFits'
      BY <1>0, <1>2, <2>1
    <3>3. QED
      BY <3>1, <3>2
  <2>3. op'.resume = op.resume \/ op.saved # {}
    BY <1>0, <1>2 DEF Operations
  <2>4. QED
    BY <1>0, <2>1, <2>2, <2>3, Onward
<1>3. CASE op.kind # "recover" /\ op.runs = "trap" /\ op' = [op EXCEPT !.at = "hold", !.failed = TRUE]
  <2>1. op' \in Operations /\ op'.saved = op.saved
    BY <1>0, <1>3 DEF Operations, Steps, CommandSteps, At
  <2>2. OpFits' /\ StepFits'
    <3> USE DEF LInv, OpFits, SavedFit, StepFits, OnlyOp, At, Fits, Covers, Awaited,
        Awaiting, QueueClosed, Operations, Steps, WorkerFits, Ready, Stopped, FrozenSteps,
        QuietSteps, TargetSteps, BackSteps, RecoverSteps, CommandSteps, Unchanged,
        Restores
    <3>1. OpFits'
      BY <1>0, <1>3, <2>1
    <3>2. StepFits'
      BY <1>0, <1>3, <2>1
    <3>3. QED
      BY <3>1, <3>2
  <2>3. op'.resume = op.resume \/ op.saved # {}
    BY <1>0, <1>3 DEF Operations
  <2>4. QED
    BY <1>0, <2>1, <2>2, <2>3, Onward
<1>4. CASE Restores /\ op' = [op EXCEPT !.at = "restoreGuard", !.runs = "handler", !.diag = At("converge")]
  <2>1. op' \in Operations /\ op'.saved = op.saved
    BY <1>0, <1>4 DEF Operations, Steps, CommandSteps, At
  <2>2. OpFits' /\ StepFits'
    <3> USE DEF LInv, OpFits, SavedFit, StepFits, OnlyOp, At, Fits, Covers, Awaited,
        Awaiting, QueueClosed, Operations, Steps, WorkerFits, Ready, Stopped, FrozenSteps,
        QuietSteps, TargetSteps, BackSteps, RecoverSteps, CommandSteps, Unchanged,
        Restores
    <3>1. OpFits'
      BY <1>0, <1>4, <2>1
    <3>2. StepFits'
      BY <1>0, <1>4, <2>1
    <3>3. QED
      BY <3>1, <3>2
  <2>3. op'.resume = op.resume \/ op.saved # {}
    BY <1>0, <1>4 DEF Operations
  <2>4. QED
    BY <1>0, <2>1, <2>2, <2>3, Onward
<1>5. CASE op.kind # "recover" /\ op.runs # "trap" /\ ~Restores /\ op' = [op EXCEPT !.at = "trap"]
  <2>1. op' \in Operations /\ op'.saved = op.saved
    BY <1>0, <1>5 DEF Operations, Steps, CommandSteps, At
  <2>2. OpFits' /\ StepFits'
    <3> USE DEF LInv, OpFits, SavedFit, StepFits, OnlyOp, At, Fits, Covers, Awaited,
        Awaiting, QueueClosed, Operations, Steps, WorkerFits, Ready, Stopped, FrozenSteps,
        QuietSteps, TargetSteps, BackSteps, RecoverSteps, CommandSteps, Unchanged,
        Restores
    <3>1. OpFits'
      BY <1>0, <1>5, <2>1
    <3>2. StepFits'
      BY <1>0, <1>5, <2>1
    <3>3. QED
      BY <3>1, <3>2
  <2>3. op'.resume = op.resume \/ op.saved # {}
    BY <1>0, <1>5 DEF Operations
  <2>4. QED
    BY <1>0, <2>1, <2>2, <2>3, Onward
<1>6. QED
  BY <1>0, <1>1, <1>2, <1>3, <1>4, <1>5 DEF Failing, Operations, Fail, Go

LEMMA KilledKeeps == ASSUME LInv, Killed PROVE LInv'
<1>0. op \in Operations /\ ~At("idle") /\ OnlyOp /\ op.at \in CommandSteps
  BY Busy DEF LInv, At, Killed, CommandSteps
<1>1. CASE op.kind = "recover" /\ op' = [op EXCEPT !.at = "abandon"]
  <2>1. op' \in Operations /\ op'.saved = op.saved
    BY <1>0, <1>1 DEF Operations, Steps, CommandSteps, At
  <2>2. OpFits' /\ StepFits'
    <3> USE DEF LInv, OpFits, SavedFit, StepFits, OnlyOp, At, Fits, Covers, Awaited,
        Awaiting, QueueClosed, Operations, Steps, WorkerFits, Ready, Stopped, FrozenSteps,
        QuietSteps, TargetSteps, BackSteps, RecoverSteps, CommandSteps, Unchanged,
        Restores
    <3>1. OpFits'
      BY <1>0, <1>1, <2>1
    <3>2. StepFits'
      BY <1>0, <1>1, <2>1
    <3>3. QED
      BY <3>1, <3>2
  <2>3. op'.resume = op.resume \/ op.saved # {}
    BY <1>0, <1>1 DEF Operations
  <2>4. QED
    BY <1>0, <2>1, <2>2, <2>3, Onward
<1>2. CASE op.kind # "recover" /\ op.runs = "trap" /\ op' = [op EXCEPT !.at = "hold", !.failed = TRUE]
  <2>1. op' \in Operations /\ op'.saved = op.saved
    BY <1>0, <1>2 DEF Operations, Steps, CommandSteps, At
  <2>2. OpFits' /\ StepFits'
    <3> USE DEF LInv, OpFits, SavedFit, StepFits, OnlyOp, At, Fits, Covers, Awaited,
        Awaiting, QueueClosed, Operations, Steps, WorkerFits, Ready, Stopped, FrozenSteps,
        QuietSteps, TargetSteps, BackSteps, RecoverSteps, CommandSteps, Unchanged,
        Restores
    <3>1. OpFits'
      BY <1>0, <1>2, <2>1
    <3>2. StepFits'
      BY <1>0, <1>2, <2>1
    <3>3. QED
      BY <3>1, <3>2
  <2>3. op'.resume = op.resume \/ op.saved # {}
    BY <1>0, <1>2 DEF Operations
  <2>4. QED
    BY <1>0, <2>1, <2>2, <2>3, Onward
<1>3. CASE op.runs # "trap" /\ op.kind # "recover" /\ op' = [op EXCEPT !.at = "trap", !.diag = FALSE]
  <2>1. op' \in Operations /\ op'.saved = op.saved
    BY <1>0, <1>3 DEF Operations, Steps, CommandSteps, At
  <2>2. OpFits' /\ StepFits'
    <3> USE DEF LInv, OpFits, SavedFit, StepFits, OnlyOp, At, Fits, Covers, Awaited,
        Awaiting, QueueClosed, Operations, Steps, WorkerFits, Ready, Stopped, FrozenSteps,
        QuietSteps, TargetSteps, BackSteps, RecoverSteps, CommandSteps, Unchanged,
        Restores
    <3>1. OpFits'
      BY <1>0, <1>3, <2>1
    <3>2. StepFits'
      BY <1>0, <1>3, <2>1
    <3>3. QED
      BY <3>1, <3>2
  <2>3. op'.resume = op.resume \/ op.saved # {}
    BY <1>0, <1>3 DEF Operations
  <2>4. QED
    BY <1>0, <2>1, <2>2, <2>3, Onward
<1>4. QED
  BY <1>0, <1>1, <1>2, <1>3 DEF Killed, Operations

LEMMA GuardKeeps == ASSUME LInv, Guard PROVE LInv'
<1>0. /\ op \in Operations /\ ~At("idle") /\ op.at = "guard" /\ OpFits /\ StepFits /\ OnlyOp
      /\ ~working /\ Unchanged
  BY Busy DEF LInv, Guard, At
<1>1. \/ op' = [op EXCEPT !.marker = TRUE, !.at = "patch"] /\ op.kind = "promote"
      \/ op' = [op EXCEPT !.marker = TRUE, !.at = "stopped"]
      \/ op' = [op EXCEPT !.marker = TRUE, !.at = "stop"]
  BY DEF Guard
<1>2. op' \in Operations /\ ~At("idle")' /\ op'.resume = op.resume /\ op'.saved = op.saved
  BY <1>0, <1>1 DEF Operations, Steps, CommandSteps, At
<1>3. OpFits' /\ StepFits'
  <2> USE <1>0, <1>2 DEF OnlyOp, OpFits, SavedFit, StepFits, QueueClosed, Fits, At,
      Operations, FrozenSteps, QuietSteps, TargetSteps, BackSteps, RecoverSteps,
      CommandSteps, Unchanged, Covers, Awaited, Awaiting, Steps
  <2>1. CASE op.kind = "promote" /\ op' = [op EXCEPT !.marker = TRUE, !.at = "patch"]
    <3>1. OpFits'
      BY <2>1
    <3>2. StepFits'
      BY <2>1
    <3>3. QED
      BY <3>1, <3>2
  <2>2. CASE op' = [op EXCEPT !.marker = TRUE, !.at = "stopped"]
    <3>1. OpFits'
      BY <2>2
    <3>2. StepFits'
      BY <2>2
    <3>3. QED
      BY <3>1, <3>2
  <2>3. CASE op' = [op EXCEPT !.marker = TRUE, !.at = "stop"]
    <3>1. OpFits'
      BY <2>3
    <3>2. StepFits'
      BY <2>3
    <3>3. QED
      BY <3>1, <3>2
  <2>4. QED
    BY <1>1, <2>1, <2>2, <2>3
<1>4. QED
  BY <1>0, <1>2, <1>3, Onward

-----------------------------------------------------------------------------
(* The provider, and the video lane at work.                                *)

\* Whatever the group does by itself, the operation stays where it is.
LEMMA Unmoved ==
  ASSUME LInv, op' = op, UNCHANGED <<env, serving, active, dirs>>,
         worker' \in Workers, working' \in BOOLEAN, WorkerFits', ChangeIsRecorded',
         BundlesFit', DirsFit', ~At("idle") => OpFits' /\ StepFits'
  PROVE  LInv'
  BY DEF LInv, RowsTyped, At

LEMMA ConvergeKeeps == ASSUME LInv, Converge PROVE LInv'
<1> USE RolloutAssumption DEF LInv, RowsTyped, WorkerFits, Provider, At, Fits, Covers,
    Awaited, Awaiting, QueueClosed, Operations, Steps, Ready, Stopped, Unchanged, Open,
    PatchedGroup, CanPatch, Workers, Under, Converge
<1>1. worker' \in Workers /\ working' \in BOOLEAN
  <2>1. worker \in Workers /\ worker.version + 1 \in 0..MaxGroupVersion
    OBVIOUS
  <2>2. worker' = [image |-> worker.next, next |-> worker.next, pending |-> FALSE,
                   version |-> worker.version + 1,
                   state |-> IF worker.state = "ready" THEN "starting" ELSE worker.state]
    BY <2>1
  <2>3. QED
    BY <2>1, <2>2
<1>2. WorkerFits'
  BY Busy DEF Runs
<1>3. ChangeIsRecorded'
  BY DEF ChangeIsRecorded, Kept
<1>4. BundlesFit'
  BY DEF BundlesFit
<1>5. DirsFit'
  BY DEF DirsFit, Directories, Saved
<1>6. ~At("idle") => OpFits'
  BY Busy DEF OpFits, SavedFit, Saved
<1>7. ~At("idle") => StepFits'
  BY Busy DEF OpFits, SavedFit, StepFits, Saved, FrozenSteps, QuietSteps,
     TargetSteps, BackSteps, RecoverSteps, CommandSteps
<1>8. QED
  <2> HIDE DEF LInv, RowsTyped, WorkerFits, Workers
  <2>1. QED BY <1>1, <1>2, <1>3, <1>4, <1>5, <1>6, <1>7, Unmoved

LEMMA BootKeeps == ASSUME LInv, Boot PROVE LInv'
<1> USE RolloutAssumption DEF LInv, RowsTyped, WorkerFits, Provider, At, Fits, Covers,
    Awaited, Awaiting, QueueClosed, Operations, Steps, Ready, Stopped, Unchanged, Open,
    PatchedGroup, CanPatch, Workers, Under, Boot
<1>1. worker' \in Workers /\ working' \in BOOLEAN
  OBVIOUS
<1>2. WorkerFits'
  BY Busy DEF Runs
<1>3. ChangeIsRecorded'
  BY DEF ChangeIsRecorded, Kept
<1>4. BundlesFit'
  BY DEF BundlesFit
<1>5. DirsFit'
  BY DEF DirsFit, Directories, Saved
<1>6. ~At("idle") => OpFits'
  BY Busy DEF OpFits, SavedFit, Saved
<1>7. ~At("idle") => StepFits'
  BY Busy DEF OpFits, SavedFit, StepFits, Saved, FrozenSteps, QuietSteps,
     TargetSteps, BackSteps, RecoverSteps, CommandSteps
<1>8. QED
  <2> HIDE DEF LInv, RowsTyped, WorkerFits, Workers
  <2>1. QED BY <1>1, <1>2, <1>3, <1>4, <1>5, <1>6, <1>7, Unmoved

LEMMA HaltKeeps == ASSUME LInv, Halt PROVE LInv'
<1> USE RolloutAssumption DEF LInv, RowsTyped, WorkerFits, Provider, At, Fits, Covers,
    Awaited, Awaiting, QueueClosed, Operations, Steps, Ready, Stopped, Unchanged, Open,
    PatchedGroup, CanPatch, Workers, Under, Halt
<1>1. worker' \in Workers /\ working' \in BOOLEAN
  OBVIOUS
<1>2. WorkerFits'
  BY Busy DEF Runs
<1>3. ChangeIsRecorded'
  BY DEF ChangeIsRecorded, Kept
<1>4. BundlesFit'
  BY DEF BundlesFit
<1>5. DirsFit'
  BY DEF DirsFit, Directories, Saved
<1>6. ~At("idle") => OpFits'
  BY Busy DEF OpFits, SavedFit, Saved
<1>7. ~At("idle") => StepFits'
  BY Busy DEF OpFits, SavedFit, StepFits, Saved, FrozenSteps, QuietSteps,
     TargetSteps, BackSteps, RecoverSteps, CommandSteps
<1>8. QED
  <2> HIDE DEF LInv, RowsTyped, WorkerFits, Workers
  <2>1. QED BY <1>1, <1>2, <1>3, <1>4, <1>5, <1>6, <1>7, Unmoved

LEMMA ClaimKeeps == ASSUME LInv, Claim PROVE LInv'
<1> USE RolloutAssumption DEF LInv, RowsTyped, WorkerFits, Provider, At, Fits, Covers,
    Awaited, Awaiting, QueueClosed, Operations, Steps, Ready, Stopped, Unchanged, Open,
    PatchedGroup, CanPatch, Workers, Under, Claim
<1>1. worker' \in Workers /\ working' \in BOOLEAN
  OBVIOUS
<1>2. WorkerFits'
  BY Busy DEF Runs
<1>3. ChangeIsRecorded'
  BY DEF ChangeIsRecorded, Kept
<1>4. BundlesFit'
  BY DEF BundlesFit
<1>5. DirsFit'
  BY DEF DirsFit, Directories, Saved
<1>6. ~At("idle") => OpFits'
  BY Busy DEF OpFits, SavedFit, Saved
<1>7. ~At("idle") => StepFits'
  BY Busy DEF OpFits, SavedFit, StepFits, Saved, FrozenSteps, QuietSteps,
     TargetSteps, BackSteps, RecoverSteps, CommandSteps
<1>8. QED
  <2> HIDE DEF LInv, RowsTyped, WorkerFits, Workers
  <2>1. QED BY <1>1, <1>2, <1>3, <1>4, <1>5, <1>6, <1>7, Unmoved

LEMMA JobEndsKeeps == ASSUME LInv, JobEnds PROVE LInv'
<1> USE RolloutAssumption DEF LInv, RowsTyped, WorkerFits, Provider, At, Fits, Covers,
    Awaited, Awaiting, QueueClosed, Operations, Steps, Ready, Stopped, Unchanged, Open,
    PatchedGroup, CanPatch, Workers, Under, JobEnds
<1>1. worker' \in Workers /\ working' \in BOOLEAN
  OBVIOUS
<1>2. WorkerFits'
  BY Busy DEF Runs
<1>3. ChangeIsRecorded'
  BY DEF ChangeIsRecorded, Kept
<1>4. BundlesFit'
  BY DEF BundlesFit
<1>5. DirsFit'
  BY DEF DirsFit, Directories, Saved
<1>6. ~At("idle") => OpFits'
  BY Busy DEF OpFits, SavedFit, Saved
<1>7. ~At("idle") => StepFits'
  BY Busy DEF OpFits, SavedFit, StepFits, Saved, FrozenSteps, QuietSteps,
     TargetSteps, BackSteps, RecoverSteps, CommandSteps
<1>8. QED
  <2> HIDE DEF LInv, RowsTyped, WorkerFits, Workers
  <2>1. QED BY <1>1, <1>2, <1>3, <1>4, <1>5, <1>6, <1>7, Unmoved

LEMMA WarmStopKeeps == ASSUME LInv, WarmStop PROVE LInv'
<1> USE RolloutAssumption DEF LInv, RowsTyped, WorkerFits, Provider, At, Fits, Covers,
    Awaited, Awaiting, QueueClosed, Operations, Steps, Ready, Stopped, Unchanged, Open,
    PatchedGroup, CanPatch, Workers, Under, WarmStop
<1>1. worker' \in Workers /\ working' \in BOOLEAN
  OBVIOUS
<1>2. WorkerFits'
  BY Busy DEF Runs
<1>3. ChangeIsRecorded'
  BY DEF ChangeIsRecorded, Kept
<1>4. BundlesFit'
  BY DEF BundlesFit
<1>5. DirsFit'
  BY DEF DirsFit, Directories, Saved
<1>6. ~At("idle") => OpFits'
  BY Busy DEF OpFits, SavedFit, Saved
<1>7. ~At("idle") => StepFits'
  BY Busy DEF OpFits, SavedFit, StepFits, Saved, FrozenSteps, QuietSteps,
     TargetSteps, BackSteps, RecoverSteps, CommandSteps
<1>8. QED
  <2> HIDE DEF LInv, RowsTyped, WorkerFits, Workers
  <2>1. QED BY <1>1, <1>2, <1>3, <1>4, <1>5, <1>6, <1>7, Unmoved

LEMMA WarmLoopRefreshKeeps == ASSUME LInv, WarmLoopRefresh PROVE LInv'
<1> USE RolloutAssumption DEF LInv, RowsTyped, WorkerFits, Provider, At, Fits, Covers,
    Awaited, Awaiting, QueueClosed, Operations, Steps, Ready, Stopped, Unchanged, Open,
    PatchedGroup, CanPatch, Workers, Under, WarmLoopRefresh
<1>1. worker' \in Workers /\ working' \in BOOLEAN
  OBVIOUS
<1>2. WorkerFits'
  BY Busy DEF Runs
<1>3. ChangeIsRecorded'
  BY DEF ChangeIsRecorded, Kept
<1>4. BundlesFit'
  BY DEF BundlesFit
<1>5. DirsFit'
  BY DEF DirsFit, Directories, Saved
<1>6. ~At("idle") => OpFits'
  BY Busy DEF OpFits, SavedFit, Saved
<1>7. ~At("idle") => StepFits'
  BY Busy DEF OpFits, SavedFit, StepFits, Saved, FrozenSteps, QuietSteps,
     TargetSteps, BackSteps, RecoverSteps, CommandSteps
<1>8. QED
  <2> HIDE DEF LInv, RowsTyped, WorkerFits, Workers
  <2>1. QED BY <1>1, <1>2, <1>3, <1>4, <1>5, <1>6, <1>7, Unmoved

LEMMA WarmStartKeeps == ASSUME LInv, WarmStart PROVE LInv'
<1> USE RolloutAssumption DEF LInv, RowsTyped, WorkerFits, Provider, At, Fits, Covers,
    Awaited, Awaiting, QueueClosed, Operations, Steps, Ready, Stopped, Unchanged, Open,
    PatchedGroup, CanPatch, Workers, Under, WarmStart
<1>1. worker' \in Workers /\ working' \in BOOLEAN
  OBVIOUS
<1>2. WorkerFits'
  BY Busy DEF Runs
<1>3. ChangeIsRecorded'
  BY DEF ChangeIsRecorded, Kept
<1>4. BundlesFit'
  BY DEF BundlesFit
<1>5. DirsFit'
  BY DEF DirsFit, Directories, Saved
<1>6. ~At("idle") => OpFits'
  BY Busy DEF OpFits, SavedFit, Saved
<1>7. ~At("idle") => StepFits'
  BY Busy DEF OpFits, SavedFit, StepFits, Saved, FrozenSteps, QuietSteps,
     TargetSteps, BackSteps, RecoverSteps, CommandSteps
<1>8. QED
  <2> HIDE DEF LInv, RowsTyped, WorkerFits, Workers
  <2>1. QED BY <1>1, <1>2, <1>3, <1>4, <1>5, <1>6, <1>7, Unmoved

-----------------------------------------------------------------------------
(* The operation's calls to the provider.                                   *)

\* Such a call leaves the version, which changes when the provider carries it out,
\* and asks for the promoted worker or the original one.
LEMMA Called ==
  ASSUME LInv, op \in Operations, op' \in Operations, op'.saved = op.saved, op.saved # {},
         op'.resume = op.resume, UNCHANGED <<env, serving, working, active, dirs>>,
         ~working, QueueClosed, worker' \in Workers, worker.version' = worker.version,
         ~worker'.pending => worker'.next = worker'.image,
         worker'.pending => worker.version < MaxGroupVersion,
         {worker.image', worker.next'} \subseteq
             {worker.image, worker.next, op.image, op.original.image},
         OpFits', StepFits'
  PROVE  LInv'
<1>0. ~At("idle") /\ ~At("idle")' /\ OpFits
  BY Busy DEF LInv, At, Operations, Steps, CommandSteps
<1>1. RowsTyped'
  BY <1>0 DEF LInv, RowsTyped
<1>2. WorkerFits'
  BY DEF WorkerFits, QueueClosed, Fits
<1>3. ChangeIsRecorded'
  <2>1. \A s \in op.saved : /\ s \in Kept'
                            /\ {worker.image', worker.next', env.image} \subseteq {s.prior, s.new}
    BY <1>0 DEF Kept, OpFits, SavedFit, Covers
  <2>2. QED
    BY <1>0, <2>1 DEF ChangeIsRecorded, OpFits, SavedFit
<1>4. BundlesFit'
  BY <1>0 DEF LInv, BundlesFit, Covers, OpFits, SavedFit, Under
<1>5. DirsFit'
  BY <1>0, RolloutAssumption DEF LInv, DirsFit, Awaited, Awaiting, Workers, Directories,
      Saved, RowsTyped
<1>6. QED
  BY <1>0, <1>1, <1>2, <1>3, <1>4, <1>5 DEF LInv

LEMMA StopKeeps == ASSUME LInv, Stop PROVE LInv'
<1>0. /\ op \in Operations /\ ~At("idle") /\ op.at = "stop"
      /\ UNCHANGED <<env, serving, working, active, dirs>>
  BY Busy DEF LInv, At, Stop, Calls, OnlyOp, CommandSteps
<1>1. /\ op.saved # {} /\ OpFits /\ StepFits
  BY <1>0 DEF LInv, OpFits, At, CommandSteps
<1>2. worker' = [worker EXCEPT !.state = "stopping"]
  BY <1>0, <1>1 DEF Stop, Calls, PatchedGroup, PriorOf, OpFits, SavedFit, OnlyOp
<1>3. \/ op' = [op EXCEPT !.at = "stopped"]
      \/ op' = [op EXCEPT !.at = "restoreGuard", !.runs = "handler", !.diag = FALSE]
  BY <1>0, <1>1 DEF Stop, Calls, Fail, Go, Restores, Operations, StepFits, TargetSteps,
      BackSteps, RecoverSteps, At
<1>4. op' \in Operations /\ op'.saved = op.saved /\ op'.resume = op.resume /\ ~At("idle")'
  BY <1>0, <1>3 DEF Operations, Steps, CommandSteps, At
<1>5. /\ ~working /\ QueueClosed /\ worker \in Workers
      /\ op.image \in Images /\ op.original.image \in Images
  BY <1>0, <1>1 DEF StepFits, QuietSteps, FrozenSteps, CommandSteps, LInv, RowsTyped,
      Operations, Profiles
<1>6. worker' \in Workers
  BY <1>2, <1>5 DEF Workers
<1>7. worker.version' = worker.version /\ (~worker'.pending => worker'.next = worker'.image)
      /\ (worker'.pending => worker.version < MaxGroupVersion)
  BY <1>2, <1>5 DEF LInv, WorkerFits, Workers, CanPatch, Stopped
<1>8. {worker.image', worker.next'} \subseteq
        {worker.image, worker.next, op.image, op.original.image}
  BY <1>2, <1>5 DEF Workers
<1>9. OpFits' /\ StepFits'
  <2> USE <1>0, <1>1, <1>2, <1>4, <1>5 DEF OpFits, SavedFit, StepFits, Covers, Awaited,
      Awaiting, Fits, QueueClosed, At, Workers, CanPatch, Stopped, Operations, Saved,
      TargetSteps, BackSteps, RecoverSteps, FrozenSteps, QuietSteps, CommandSteps,
      Unchanged
  <2>1. CASE op' = [op EXCEPT !.at = "stopped"]
    <3>1. OpFits'
      BY <2>1
    <3>2. StepFits'
      BY <2>1
    <3>3. QED
      BY <3>1, <3>2
  <2>2. CASE op' = [op EXCEPT !.at = "restoreGuard", !.runs = "handler", !.diag = FALSE]
    <3>1. OpFits'
      BY <2>2
    <3>2. StepFits'
      BY <2>2
    <3>3. QED
      BY <3>1, <3>2
  <2>3. QED
    BY <1>3, <2>1, <2>2
<1>10. QED
  BY <1>0, <1>1, <1>4, <1>5, <1>6, <1>7, <1>8, <1>9, Called

LEMMA GroupPatchKeeps == ASSUME LInv, Patch PROVE LInv'
<1>0. /\ op \in Operations /\ ~At("idle") /\ op.at = "patch"
      /\ UNCHANGED <<env, serving, working, active, dirs>>
  BY Busy DEF LInv, At, Patch, Calls, OnlyOp, CommandSteps
<1>1. /\ op.saved # {} /\ OpFits /\ StepFits
  BY <1>0 DEF LInv, OpFits, At, CommandSteps
<1>2. CanPatch /\ worker' = [worker EXCEPT !.next = op.image, !.pending = TRUE]
  BY <1>0, <1>1 DEF Patch, Calls, PatchedGroup, PriorOf, OpFits, SavedFit, OnlyOp
<1>3. \/ op.kind = "promote" /\ op' = [op EXCEPT !.at = "ready"]
      \/ op.kind = "recycle" /\ op' = [op EXCEPT !.at = "converge"]
      \/ op' = [op EXCEPT !.at = "restoreGuard", !.runs = "handler", !.diag = FALSE]
  BY <1>0, <1>1 DEF Patch, Calls, Fail, Go, Restores, Operations, StepFits, TargetSteps,
      BackSteps, RecoverSteps, At
<1>4. op' \in Operations /\ op'.saved = op.saved /\ op'.resume = op.resume /\ ~At("idle")'
  BY <1>0, <1>3 DEF Operations, Steps, CommandSteps, At
<1>5. /\ ~working /\ QueueClosed /\ worker \in Workers
      /\ op.image \in Images /\ op.original.image \in Images
  BY <1>0, <1>1 DEF StepFits, QuietSteps, FrozenSteps, CommandSteps, LInv, RowsTyped,
      Operations, Profiles
<1>6. worker' \in Workers
  BY <1>2, <1>5 DEF Workers
<1>7. worker.version' = worker.version /\ (~worker'.pending => worker'.next = worker'.image)
      /\ (worker'.pending => worker.version < MaxGroupVersion)
  BY <1>2, <1>5 DEF LInv, WorkerFits, Workers, CanPatch, Stopped
<1>8. {worker.image', worker.next'} \subseteq
        {worker.image, worker.next, op.image, op.original.image}
  BY <1>2, <1>5 DEF Workers
<1>9. OpFits' /\ StepFits'
  <2> USE <1>0, <1>1, <1>2, <1>4, <1>5 DEF OpFits, SavedFit, StepFits, Covers, Awaited,
      Awaiting, Fits, QueueClosed, At, Workers, CanPatch, Stopped, Operations, Saved,
      TargetSteps, BackSteps, RecoverSteps, FrozenSteps, QuietSteps, CommandSteps,
      Unchanged
  <2>1. CASE op.kind = "promote" /\ op' = [op EXCEPT !.at = "ready"]
    <3>1. OpFits'
      BY <2>1
    <3>2. StepFits'
      BY <2>1
    <3>3. QED
      BY <3>1, <3>2
  <2>2. CASE op.kind = "recycle" /\ op' = [op EXCEPT !.at = "converge"]
    <3>1. OpFits'
      BY <2>2
    <3>2. StepFits'
      BY <2>2
    <3>3. QED
      BY <3>1, <3>2
  <2>3. CASE op' = [op EXCEPT !.at = "restoreGuard", !.runs = "handler", !.diag = FALSE]
    <3>1. OpFits'
      BY <2>3
    <3>2. StepFits'
      BY <2>3
    <3>3. QED
      BY <3>1, <3>2
  <2>4. QED
    BY <1>3, <2>1, <2>2, <2>3
<1>10. QED
  BY <1>0, <1>1, <1>4, <1>5, <1>6, <1>7, <1>8, <1>9, Called

LEMMA StartKeeps == ASSUME LInv, Start PROVE LInv'
<1>0. /\ op \in Operations /\ ~At("idle") /\ op.at = "start"
      /\ UNCHANGED <<env, serving, working, active, dirs>>
  BY Busy DEF LInv, At, Start, Calls, OnlyOp, CommandSteps
<1>1. /\ op.saved # {} /\ OpFits /\ StepFits
  BY <1>0 DEF LInv, OpFits, At, CommandSteps
<1>2. worker' = [worker EXCEPT !.state = "starting"]
  BY <1>0, <1>1 DEF Start, Calls, PatchedGroup, PriorOf, OpFits, SavedFit, OnlyOp
<1>3. \/ op' = [op EXCEPT !.at = "ready"]
      \/ op' = [op EXCEPT !.at = "restoreGuard", !.runs = "handler", !.diag = FALSE]
  BY <1>0, <1>1 DEF Start, Calls, Fail, Go, Restores, Operations, StepFits, TargetSteps,
      BackSteps, RecoverSteps, At
<1>4. op' \in Operations /\ op'.saved = op.saved /\ op'.resume = op.resume /\ ~At("idle")'
  BY <1>0, <1>3 DEF Operations, Steps, CommandSteps, At
<1>5. /\ ~working /\ QueueClosed /\ worker \in Workers
      /\ op.image \in Images /\ op.original.image \in Images
  BY <1>0, <1>1 DEF StepFits, QuietSteps, FrozenSteps, CommandSteps, LInv, RowsTyped,
      Operations, Profiles
<1>6. worker' \in Workers
  BY <1>2, <1>5 DEF Workers
<1>7. worker.version' = worker.version /\ (~worker'.pending => worker'.next = worker'.image)
      /\ (worker'.pending => worker.version < MaxGroupVersion)
  BY <1>2, <1>5 DEF LInv, WorkerFits, Workers, CanPatch, Stopped
<1>8. {worker.image', worker.next'} \subseteq
        {worker.image, worker.next, op.image, op.original.image}
  BY <1>2, <1>5 DEF Workers
<1>9. OpFits' /\ StepFits'
  <2> USE <1>0, <1>1, <1>2, <1>4, <1>5 DEF OpFits, SavedFit, StepFits, Covers, Awaited,
      Awaiting, Fits, QueueClosed, At, Workers, CanPatch, Stopped, Operations, Saved,
      TargetSteps, BackSteps, RecoverSteps, FrozenSteps, QuietSteps, CommandSteps,
      Unchanged
  <2>1. CASE op' = [op EXCEPT !.at = "ready"]
    <3>1. OpFits'
      BY <2>1
    <3>2. StepFits'
      BY <2>1
    <3>3. QED
      BY <3>1, <3>2
  <2>2. CASE op' = [op EXCEPT !.at = "restoreGuard", !.runs = "handler", !.diag = FALSE]
    <3>1. OpFits'
      BY <2>2
    <3>2. StepFits'
      BY <2>2
    <3>3. QED
      BY <3>1, <3>2
  <2>3. QED
    BY <1>3, <2>1, <2>2
<1>10. QED
  BY <1>0, <1>1, <1>4, <1>5, <1>6, <1>7, <1>8, <1>9, Called

LEMMA RestorePatchKeeps == ASSUME LInv, RestorePatch PROVE LInv'
<1>0. /\ op \in Operations /\ ~At("idle") /\ op.at = "restorePatch"
      /\ UNCHANGED <<env, serving, working, active, dirs>>
  BY Busy DEF LInv, At, RestorePatch, Calls, OnlyOp, CommandSteps
<1>1. /\ op.saved # {} /\ OpFits /\ StepFits
  BY <1>0 DEF LInv, OpFits, At, CommandSteps
<1>2. CanPatch /\ worker' = [worker EXCEPT !.next = op.original.image, !.pending = TRUE]
  BY <1>0, <1>1 DEF RestorePatch, Calls, PatchedGroup, PriorOf, OpFits, SavedFit, OnlyOp
<1>3. \/ op' = [op EXCEPT !.at = "restart"]
      \/ op.runs = "trap" /\ op' = [op EXCEPT !.at = "hold", !.failed = TRUE]
      \/ op.runs # "trap" /\ op' = [op EXCEPT !.at = "trap"]
  BY <1>0, <1>1 DEF RestorePatch, Calls, Fail, Go, Restores, Operations, StepFits,
      TargetSteps, BackSteps, RecoverSteps, At
<1>4. op' \in Operations /\ op'.saved = op.saved /\ op'.resume = op.resume /\ ~At("idle")'
  BY <1>0, <1>3 DEF Operations, Steps, CommandSteps, At
<1>5. /\ ~working /\ QueueClosed /\ worker \in Workers
      /\ op.image \in Images /\ op.original.image \in Images
  BY <1>0, <1>1 DEF StepFits, QuietSteps, FrozenSteps, CommandSteps, LInv, RowsTyped,
      Operations, Profiles
<1>6. worker' \in Workers
  BY <1>2, <1>5 DEF Workers
<1>7. worker.version' = worker.version /\ (~worker'.pending => worker'.next = worker'.image)
      /\ (worker'.pending => worker.version < MaxGroupVersion)
  BY <1>2, <1>5 DEF LInv, WorkerFits, Workers, CanPatch, Stopped
<1>8. {worker.image', worker.next'} \subseteq
        {worker.image, worker.next, op.image, op.original.image}
  BY <1>2, <1>5 DEF Workers
<1>9. OpFits' /\ StepFits'
  <2> USE <1>0, <1>1, <1>2, <1>4, <1>5 DEF OpFits, SavedFit, StepFits, Covers, Awaited,
      Awaiting, Fits, QueueClosed, At, Workers, CanPatch, Stopped, Operations, Saved,
      TargetSteps, BackSteps, RecoverSteps, FrozenSteps, QuietSteps, CommandSteps,
      Unchanged
  <2>1. CASE op' = [op EXCEPT !.at = "restart"]
    <3>1. OpFits'
      BY <2>1
    <3>2. StepFits'
      BY <2>1
    <3>3. QED
      BY <3>1, <3>2
  <2>2. CASE op.runs = "trap" /\ op' = [op EXCEPT !.at = "hold", !.failed = TRUE]
    <3>1. OpFits'
      BY <2>2
    <3>2. StepFits'
      BY <2>2
    <3>3. QED
      BY <3>1, <3>2
  <2>3. CASE op.runs # "trap" /\ op' = [op EXCEPT !.at = "trap"]
    <3>1. OpFits'
      BY <2>3
    <3>2. StepFits'
      BY <2>3
    <3>3. QED
      BY <3>1, <3>2
  <2>4. QED
    BY <1>3, <2>1, <2>2, <2>3
<1>10. QED
  BY <1>0, <1>1, <1>4, <1>5, <1>6, <1>7, <1>8, <1>9, Called

LEMMA RestartKeeps == ASSUME LInv, Restart PROVE LInv'
<1>0. /\ op \in Operations /\ ~At("idle") /\ op.at = "restart"
      /\ UNCHANGED <<env, serving, working, active, dirs>>
  BY Busy DEF LInv, At, Restart, Calls, OnlyOp, CommandSteps
<1>1. /\ op.saved # {} /\ OpFits /\ StepFits
  BY <1>0 DEF LInv, OpFits, At, CommandSteps
<1>2. /\ worker' \in {worker, [worker EXCEPT !.state = "starting"]}
      /\ ~worker.pending /\ (worker' = worker \/ worker.state = "stopped")
  BY <1>0, <1>1 DEF Restart, Calls, PatchedGroup, PriorOf, OpFits, SavedFit, OnlyOp
<1>3. \/ op' = [op EXCEPT !.at = "restored"]
      \/ op.runs = "trap" /\ op' = [op EXCEPT !.at = "hold", !.failed = TRUE]
      \/ op.runs # "trap" /\ op' = [op EXCEPT !.at = "trap"]
  BY <1>0, <1>1 DEF Restart, Calls, Fail, Go, Restores, Operations, StepFits,
      TargetSteps, BackSteps, RecoverSteps, At
<1>4. op' \in Operations /\ op'.saved = op.saved /\ op'.resume = op.resume /\ ~At("idle")'
  BY <1>0, <1>3 DEF Operations, Steps, CommandSteps, At
<1>5. /\ ~working /\ QueueClosed /\ worker \in Workers
      /\ op.image \in Images /\ op.original.image \in Images
  BY <1>0, <1>1 DEF StepFits, QuietSteps, FrozenSteps, CommandSteps, LInv, RowsTyped,
      Operations, Profiles
<1>6. worker' \in Workers
  BY <1>2, <1>5 DEF Workers
<1>7. worker.version' = worker.version /\ (~worker'.pending => worker'.next = worker'.image)
      /\ (worker'.pending => worker.version < MaxGroupVersion)
  BY <1>2, <1>5 DEF LInv, WorkerFits, Workers, CanPatch, Stopped
<1>8. {worker.image', worker.next'} \subseteq
        {worker.image, worker.next, op.image, op.original.image}
  BY <1>2, <1>5 DEF Workers
<1>9. OpFits' /\ StepFits'
  <2> USE <1>0, <1>1, <1>2, <1>4, <1>5 DEF OpFits, SavedFit, StepFits, Covers, Awaited,
      Awaiting, Fits, QueueClosed, At, Workers, CanPatch, Stopped, Operations, Saved,
      TargetSteps, BackSteps, RecoverSteps, FrozenSteps, QuietSteps, CommandSteps,
      Unchanged
  <2>1. CASE op' = [op EXCEPT !.at = "restored"]
    <3>1. OpFits'
      BY <2>1
    <3>2. StepFits'
      BY <2>1
    <3>3. QED
      BY <3>1, <3>2
  <2>2. CASE op.runs = "trap" /\ op' = [op EXCEPT !.at = "hold", !.failed = TRUE]
    <3>1. OpFits'
      BY <2>2
    <3>2. StepFits'
      BY <2>2
    <3>3. QED
      BY <3>1, <3>2
  <2>3. CASE op.runs # "trap" /\ op' = [op EXCEPT !.at = "trap"]
    <3>1. OpFits'
      BY <2>3
    <3>2. StepFits'
      BY <2>3
    <3>3. QED
      BY <3>1, <3>2
  <2>4. QED
    BY <1>3, <2>1, <2>2, <2>3
<1>10. QED
  BY <1>0, <1>1, <1>4, <1>5, <1>6, <1>7, <1>8, <1>9, Called

LEMMA RecoverPatchKeeps == ASSUME LInv, RecoverPatch PROVE LInv'
<1>0. /\ op \in Operations /\ ~At("idle") /\ op.at = "recPatch"
      /\ UNCHANGED <<env, serving, working, active, dirs>>
  BY Busy DEF LInv, At, RecoverPatch, Calls, OnlyOp, CommandSteps
<1>1. /\ op.saved # {} /\ OpFits /\ StepFits
  BY <1>0 DEF LInv, OpFits, At, CommandSteps
<1>2. CanPatch /\ worker' = [worker EXCEPT !.next = op.original.image, !.pending = TRUE]
  BY <1>0, <1>1 DEF RecoverPatch, Calls, PatchedGroup, PriorOf, OpFits, SavedFit, OnlyOp
<1>3. \/ op' = [op EXCEPT !.at = "recStart"]
      \/ op' = [op EXCEPT !.at = "abandon"]
  BY <1>0, <1>1 DEF RecoverPatch, Calls, Fail, Go, Restores, Operations, StepFits,
      TargetSteps, BackSteps, RecoverSteps, At
<1>4. op' \in Operations /\ op'.saved = op.saved /\ op'.resume = op.resume /\ ~At("idle")'
  BY <1>0, <1>3 DEF Operations, Steps, CommandSteps, At
<1>5. /\ ~working /\ QueueClosed /\ worker \in Workers
      /\ op.image \in Images /\ op.original.image \in Images
  BY <1>0, <1>1 DEF StepFits, QuietSteps, FrozenSteps, CommandSteps, LInv, RowsTyped,
      Operations, Profiles
<1>6. worker' \in Workers
  BY <1>2, <1>5 DEF Workers
<1>7. worker.version' = worker.version /\ (~worker'.pending => worker'.next = worker'.image)
      /\ (worker'.pending => worker.version < MaxGroupVersion)
  BY <1>2, <1>5 DEF LInv, WorkerFits, Workers, CanPatch, Stopped
<1>8. {worker.image', worker.next'} \subseteq
        {worker.image, worker.next, op.image, op.original.image}
  BY <1>2, <1>5 DEF Workers
<1>9. OpFits' /\ StepFits'
  <2> USE <1>0, <1>1, <1>2, <1>4, <1>5 DEF OpFits, SavedFit, StepFits, Covers, Awaited,
      Awaiting, Fits, QueueClosed, At, Workers, CanPatch, Stopped, Operations, Saved,
      TargetSteps, BackSteps, RecoverSteps, FrozenSteps, QuietSteps, CommandSteps,
      Unchanged
  <2>1. CASE op' = [op EXCEPT !.at = "recStart"]
    <3>1. OpFits'
      BY <2>1
    <3>2. StepFits'
      BY <2>1
    <3>3. QED
      BY <3>1, <3>2
  <2>2. CASE op' = [op EXCEPT !.at = "abandon"]
    <3>1. OpFits'
      BY <2>2
    <3>2. StepFits'
      BY <2>2
    <3>3. QED
      BY <3>1, <3>2
  <2>3. QED
    BY <1>3, <2>1, <2>2
<1>10. QED
  BY <1>0, <1>1, <1>4, <1>5, <1>6, <1>7, <1>8, <1>9, Called

LEMMA RecoverStartKeeps == ASSUME LInv, RecoverStart PROVE LInv'
<1>0. /\ op \in Operations /\ ~At("idle") /\ op.at = "recStart"
      /\ UNCHANGED <<env, serving, working, active, dirs>>
  BY Busy DEF LInv, At, RecoverStart, Calls, OnlyOp, CommandSteps
<1>1. /\ op.saved # {} /\ OpFits /\ StepFits
  BY <1>0 DEF LInv, OpFits, At, CommandSteps
<1>2. Stopped /\ worker.image = op.original.image /\ worker' = [worker EXCEPT !.state = "starting"]
  BY <1>0, <1>1 DEF RecoverStart, Calls, PatchedGroup, PriorOf, OpFits, SavedFit, OnlyOp
<1>3. \/ op' = [op EXCEPT !.at = "recReady"]
      \/ op' = [op EXCEPT !.at = "abandon"]
  BY <1>0, <1>1 DEF RecoverStart, Calls, Fail, Go, Restores, Operations, StepFits,
      TargetSteps, BackSteps, RecoverSteps, At
<1>4. op' \in Operations /\ op'.saved = op.saved /\ op'.resume = op.resume /\ ~At("idle")'
  BY <1>0, <1>3 DEF Operations, Steps, CommandSteps, At
<1>5. /\ ~working /\ QueueClosed /\ worker \in Workers
      /\ op.image \in Images /\ op.original.image \in Images
  BY <1>0, <1>1 DEF StepFits, QuietSteps, FrozenSteps, CommandSteps, LInv, RowsTyped,
      Operations, Profiles
<1>6. worker' \in Workers
  BY <1>2, <1>5 DEF Workers
<1>7. worker.version' = worker.version /\ (~worker'.pending => worker'.next = worker'.image)
      /\ (worker'.pending => worker.version < MaxGroupVersion)
  BY <1>2, <1>5 DEF LInv, WorkerFits, Workers, CanPatch, Stopped
<1>8. {worker.image', worker.next'} \subseteq
        {worker.image, worker.next, op.image, op.original.image}
  BY <1>2, <1>5 DEF Workers
<1>9. OpFits' /\ StepFits'
  <2> USE <1>0, <1>1, <1>2, <1>4, <1>5 DEF OpFits, SavedFit, StepFits, Covers, Awaited,
      Awaiting, Fits, QueueClosed, At, Workers, CanPatch, Stopped, Operations, Saved,
      TargetSteps, BackSteps, RecoverSteps, FrozenSteps, QuietSteps, CommandSteps,
      Unchanged
  <2>1. CASE op' = [op EXCEPT !.at = "recReady"]
    <3>1. OpFits'
      BY <2>1
    <3>2. StepFits'
      BY <2>1
    <3>3. QED
      BY <3>1, <3>2
  <2>2. CASE op' = [op EXCEPT !.at = "abandon"]
    <3>1. OpFits'
      BY <2>2
    <3>2. StepFits'
      BY <2>2
    <3>3. QED
      BY <3>1, <3>2
  <2>3. QED
    BY <1>3, <2>1, <2>2
<1>10. QED
  BY <1>0, <1>1, <1>4, <1>5, <1>6, <1>7, <1>8, <1>9, Called

-----------------------------------------------------------------------------
(* Profiles: what may be served, within an operation and at its end.        *)

\* A profile that may be installed, or serve: it fits the group, and is one that
\* the operation comes from or goes to.
Servable(e, ps) ==
    /\ e \in Profiles /\ ps \in SUBSET Profiles /\ (\A p, q \in ps : p = q)
    /\ \A p \in ps \cup {e} : Fits(p)
    /\ op.saved = {} => e.image = env.image
    /\ \A s \in op.saved : e.image \in {s.prior, s.new}
    /\ op.saved = {} /\ QueueClosed /\ ~op.resume.on => \A p \in ps \cup {e} : ~p.on
    /\ op.marker /\ op.diag => \A s \in op.saved : Awaiting(s) =>
          e.image = s.prior /\ \A p \in ps \cup {e} : ~p.on

\* The profile changes within an operation.
LEMMA ServesOther ==
  ASSUME LInv, op \in Operations, op' \in Operations, op'.saved = op.saved,
         UNCHANGED <<worker, working, active, dirs>>, Servable(env', serving'),
         OpFits', StepFits', op.saved = {} /\ ~op.resume.on => ~op'.resume.on
  PROVE  LInv'
<1>0. ~At("idle") /\ ~At("idle")' /\ OpFits
  BY Busy DEF LInv, At, Operations, Steps, CommandSteps
<1>1. RowsTyped'
  BY <1>0 DEF LInv, RowsTyped, Servable, At
<1>2. WorkerFits'
  BY DEF LInv, WorkerFits, Servable, Fits, Ready
<1>3. ChangeIsRecorded'
  <2>1. CASE op.saved = {}
    BY <1>0, <2>1 DEF LInv, ChangeIsRecorded, Kept, Servable, At
  <2>2. CASE op.saved # {}
    <3>1. \A s \in op.saved : /\ s \in Kept' /\ s.prior # s.new
                              /\ {worker.image, worker.next, env.image'} \subseteq {s.prior, s.new}
      BY <1>0 DEF Kept, OpFits, SavedFit, Covers, At, Servable
    <3>2. QED
      BY <2>2, <3>1 DEF ChangeIsRecorded
  <2>3. QED
    BY <2>1, <2>2
<1>4. BundlesFit'
  BY <1>0 DEF LInv, BundlesFit, Covers, OpFits, SavedFit, Under, At, Servable
<1>5. DirsFit'
  BY <1>0 DEF LInv, DirsFit, Awaited, Awaiting, QueueClosed, At, Servable
<1>6. QED
  BY <1>0, <1>1, <1>2, <1>3, <1>4, <1>5 DEF LInv

\* An operation is given up, and what it knows is left in its directory.
LEMMA GivenUp ==
  ASSUME LInv, op \in Operations, Abandons, active' \in {active, {}},
         UNCHANGED <<worker, working>>, Servable(env', serving')
  PROVE  LInv'
<1>0. ~At("idle") /\ At("idle")' /\ OpFits /\ StepFits /\ op' = Idle
  BY Busy DEF LInv, At, Operations, Steps, CommandSteps, Abandons, Idle
<1>1. /\ Left = {} /\ op.saved = {}
      \/ \E s \in op.saved : /\ op.saved = {s}
            /\ Left = {[saved |-> s, original |-> op.original, marker |-> op.marker, diag |-> op.diag]}
            /\ [saved |-> s, original |-> op.original, marker |-> op.marker, diag |-> op.diag] \in Directories
  BY <1>0 DEF Left, OpFits, SavedFit, Operations, Directories
<1>2. RowsTyped'
  <2>1. /\ IsFiniteSet(dirs) /\ Cardinality(dirs) \in Nat
        /\ Cardinality(dirs) < MaxDirs /\ dirs \in SUBSET Directories
    BY <1>0, FS_CardinalityType DEF LInv, RowsTyped
  <2>2. /\ dirs' \in SUBSET Directories /\ IsFiniteSet(dirs')
        /\ Cardinality(dirs') <= MaxDirs
    <3>1. CASE Left = {}
      BY <2>1, <3>1, RolloutAssumption DEF Abandons
    <3>2. ASSUME NEW d \in Directories, Left = {d}
          PROVE  /\ dirs' \in SUBSET Directories /\ IsFiniteSet(dirs')
                 /\ Cardinality(dirs') <= MaxDirs
      <4>1. dirs' = dirs \cup {d}
        BY <3>2 DEF Abandons
      <4>2. /\ IsFiniteSet(dirs \cup {d})
            /\ Cardinality(dirs \cup {d}) = IF d \in dirs THEN Cardinality(dirs)
                                            ELSE Cardinality(dirs) + 1
        BY <2>1, FS_AddElement
      <4>3. QED
        BY <2>1, <4>1, <4>2, RolloutAssumption
    <3>3. QED
      BY <1>1, <3>1, <3>2
  <2>3. QED
    BY <1>0, <2>2 DEF LInv, RowsTyped, Servable
<1>3. WorkerFits'
  BY DEF LInv, WorkerFits, Servable, Fits, Ready
<1>4. \A d \in dirs' : d \in dirs \/ (d.saved \in op.saved /\ d.original = op.original
                                      /\ d.marker = op.marker /\ d.diag = op.diag)
  <2>1. ASSUME NEW s \in op.saved, NEW d, d = [saved |-> s, original |-> op.original,
                                              marker |-> op.marker, diag |-> op.diag]
        PROVE  d.saved \in op.saved /\ d.original = op.original
               /\ d.marker = op.marker /\ d.diag = op.diag
    BY <2>1
  <2>2. QED
    BY <2>1 DEF Abandons, Left
<1>5. dirs \subseteq dirs' /\ \A s \in op.saved : \E d \in dirs' : d.saved = s
  BY <1>1 DEF Abandons
<1>6. ChangeIsRecorded'
  <2>1. CASE op.saved = {}
    <3>1. active' = active
      BY <1>0, <2>1, Zenon DEF OpFits, LInv, BundlesFit
    <3>2. QED
      BY <1>0, <1>5, <2>1, <3>1 DEF LInv, ChangeIsRecorded, Kept, Servable, At
  <2>2. CASE op.saved # {}
    <3>1. \A s \in op.saved : /\ s \in Kept' /\ s.prior # s.new
                              /\ {worker.image, worker.next, env.image'} \subseteq {s.prior, s.new}
      BY <1>0, <1>5 DEF Kept, OpFits, SavedFit, Covers, Servable
    <3>2. QED
      BY <2>2, <3>1 DEF ChangeIsRecorded
  <2>3. QED
    BY <2>1, <2>2
<1>7. BundlesFit'
  BY <1>0, <1>5 DEF LInv, BundlesFit, Covers, OpFits, SavedFit, Under, At, Servable
<1>8. DirsFit'
  <2>1. ASSUME NEW d \in dirs, d.marker, d.diag, Awaiting(d.saved)
        PROVE  QueueClosed' /\ env.image' = d.saved.prior /\ active' = {}
    BY <1>0, <2>1 DEF LInv, DirsFit, QueueClosed, Servable
  <2>2. ASSUME NEW s \in op.saved, op.marker, op.diag, Awaiting(s)
        PROVE  QueueClosed' /\ env.image' = s.prior /\ active' = {}
    BY <1>0, <2>2 DEF OpFits, QueueClosed, Servable
  <2>3. \A d \in dirs' :
          /\ d.saved.prior = d.original.image /\ d.saved.prior # d.saved.new
          /\ d.marker /\ d.diag => Awaited(d.saved)
    BY <1>0, <1>4 DEF LInv, DirsFit, OpFits, SavedFit
  <2>4. \A s : (Awaited(s)' <=> Awaited(s)) /\ (Awaiting(s)' <=> Awaiting(s))
    BY DEF Awaited, Awaiting
  <2>5. QED
    BY <1>0, <1>4, <2>1, <2>2, <2>3, <2>4 DEF DirsFit
<1>9. QED
  BY <1>0, <1>2, <1>3, <1>6, <1>7, <1>8 DEF LInv

\* The installed profiles of an operation may be installed again.
LEMMA Frees ==
  ASSUME LInv, op \in Operations, NEW p \in Profiles, NEW ps \in {serving, {}, {p}},
         Fits(p), op.saved = {} => p.image = env.image /\ (~op.resume.on => ~p.on),
         \A s \in op.saved : p.image \in {s.prior, s.new},
         op.marker /\ op.diag => \A s \in op.saved : Awaiting(s) => p.image = s.prior /\ ~p.on
  PROVE  Servable(p, ps)
<1>0. OpFits /\ ~At("idle")
  BY Busy DEF LInv, At, Operations, Steps, CommandSteps
<1>1. QED
  BY <1>0 DEF LInv, Servable, RowsTyped, WorkerFits, QueueClosed, OpFits

LEMMA FrozenFrees ==
  ASSUME LInv, op \in Operations, NEW ps \in {serving, {}, {op.frozen}}
  PROVE  Servable(op.frozen, ps)
<1>0. OpFits /\ ~At("idle") /\ op.frozen \in Profiles
  BY Busy DEF LInv, At, Operations, Steps, CommandSteps
<1>1. QED
  BY <1>0, Frees DEF OpFits, SavedFit, Fits, LInv


LEMMA FreezeKeeps == ASSUME LInv, Freeze PROVE LInv'
<1>0. op \in Operations /\ OpFits /\ StepFits /\ op.at = "freeze" /\ UNCHANGED <<worker, working, active, dirs>>
      /\ ~At("idle")
  BY Busy DEF LInv, Freeze, At, RestartInto, RestartFails
<1>1. Servable(env', serving') /\ env' = op.frozen
  BY <1>0, FrozenFrees DEF Freeze, RestartInto, RestartFails
<1>2. \/ op' = [op EXCEPT !.at = "trap"]
      \/ op.kind = "rollback" /\ op' = [op EXCEPT !.at = "restoreGuard"] /\ serving' = {op.frozen}
      \/ op.kind # "rollback" /\ op' = [op EXCEPT !.at = "check"] /\ serving' = {op.frozen}
  BY <1>0 DEF Freeze, Go, RestartInto
<1>3. op' \in Operations /\ op'.saved = op.saved /\ op'.resume = op.resume
  BY <1>0, <1>2 DEF Operations, Steps, CommandSteps
<1>4. OpFits'
  BY <1>0, <1>1, <1>2, <1>3 DEF OpFits, SavedFit, StepFits, Servable, QueueClosed, Fits, At,
      Operations, FrozenSteps, QuietSteps, TargetSteps, BackSteps, RecoverSteps,
      CommandSteps, Unchanged, Covers, Awaited, Awaiting, Steps
<1>5. StepFits'
  BY <1>0, <1>1, <1>2, <1>3 DEF OpFits, SavedFit, StepFits, Servable, QueueClosed, Fits, At,
      Operations, FrozenSteps, QuietSteps, TargetSteps, BackSteps, RecoverSteps,
      CommandSteps, Unchanged, Covers, Awaited, Awaiting, Steps
<1>6. QED
  BY <1>0, <1>1, <1>3, <1>4, <1>5, ServesOther

LEMMA TrapFreezeKeeps == ASSUME LInv, TrapFreeze PROVE LInv'
<1>0. op \in Operations /\ OpFits /\ StepFits /\ op.at = "trap" /\ UNCHANGED <<worker, working, active, dirs>>
      /\ ~At("idle")
  BY Busy DEF LInv, TrapFreeze, At, RestartInto, RestartFails
<1>1. Servable(env', serving') /\ env' = op.frozen
  BY <1>0, FrozenFrees DEF TrapFreeze, RestartInto, RestartFails
<1>2. \/ op.marker /\ op' = [op EXCEPT !.at = "restoreGuard", !.runs = "trap"] /\ serving' = {op.frozen}
      \/ ~op.marker /\ op' = [op EXCEPT !.at = "resume", !.runs = "trap"]
      \/ op.marker /\ op' = [op EXCEPT !.at = "hold", !.runs = "trap", !.failed = TRUE]
      \/ ~op.marker /\ op' = [op EXCEPT !.at = "resume", !.runs = "trap", !.failed = TRUE]
  BY <1>0 DEF TrapFreeze, RestartInto
<1>3. op' \in Operations /\ op'.saved = op.saved /\ op'.resume = op.resume
  BY <1>0, <1>2 DEF Operations, Steps, CommandSteps
<1>4. OpFits' /\ StepFits'
  <2> USE <1>0, <1>1, <1>3 DEF OpFits, SavedFit, StepFits, Servable, QueueClosed, Fits, At,
      Operations, FrozenSteps, QuietSteps, TargetSteps, BackSteps, RecoverSteps,
      CommandSteps, Unchanged, Covers, Awaited, Awaiting, Steps
  <2>1. CASE op.marker /\ op' = [op EXCEPT !.at = "restoreGuard", !.runs = "trap"] /\ serving' = {op.frozen}
    <3>1. OpFits'
      BY <2>1
    <3>2. StepFits'
      BY <2>1
    <3>3. QED
      BY <3>1, <3>2
  <2>2. CASE ~op.marker /\ op' = [op EXCEPT !.at = "resume", !.runs = "trap"]
    <3>1. OpFits'
      BY <2>2
    <3>2. StepFits'
      BY <2>2
    <3>3. QED
      BY <3>1, <3>2
  <2>3. CASE op.marker /\ op' = [op EXCEPT !.at = "hold", !.runs = "trap", !.failed = TRUE]
    <3>1. OpFits'
      BY <2>3
    <3>2. StepFits'
      BY <2>3
    <3>3. QED
      BY <3>1, <3>2
  <2>4. CASE ~op.marker /\ op' = [op EXCEPT !.at = "resume", !.runs = "trap", !.failed = TRUE]
    <3>1. OpFits'
      BY <2>4
    <3>2. StepFits'
      BY <2>4
    <3>3. QED
      BY <3>1, <3>2
  <2>5. QED
    BY <1>2, <2>1, <2>2, <2>3, <2>4
<1>5. QED
  BY <1>0, <1>1, <1>3, <1>4, ServesOther

LEMMA TrapHoldKeeps == ASSUME LInv, TrapHold PROVE LInv'
<1>0. op \in Operations /\ UNCHANGED <<worker, working>>
  BY Busy DEF LInv, TrapHold, At, RestartFails
<1>1. Servable(env', serving')
  BY <1>0, FrozenFrees DEF TrapHold, RestartFails
<1>2. QED
  BY <1>0, <1>1, GivenUp DEF TrapHold

LEMMA TrapResumeKeeps == ASSUME LInv, TrapResume PROVE LInv'
<1>0. op \in Operations /\ OpFits /\ StepFits /\ op.at = "resume" /\ UNCHANGED <<worker, working>>
      /\ ~At("idle") /\ Abandons /\ active' \in {active, {}} /\ op.resume \in Profiles
  BY Busy DEF LInv, TrapResume, At, RestartInto, RestartFails, Ended, Operations
<1>1. env' = op.resume /\ serving' \in {serving, {}, {op.resume}}
  BY DEF TrapResume, RestartInto, RestartFails
<1>2. Fits(op.resume) /\ (op.saved = {} => op.resume.image = env.image)
  BY <1>0 DEF OpFits, At
<1>3. \A s \in op.saved : op.resume.image \in {s.prior, s.new}
  BY <1>0 DEF OpFits, SavedFit
<1>4. op.marker /\ op.diag => \A s \in op.saved : ~Awaiting(s)
  <2>1. SUFFICES ASSUME op.marker, op.diag, NEW s \in op.saved PROVE ~Awaiting(s)
    OBVIOUS
  <2>2. worker.image = s.prior /\ ~worker.pending /\ s.prior # s.new /\ Awaited(s)
    BY <1>0, <2>1 DEF OpFits, SavedFit, StepFits, At
  <2>3. worker.version \in Nat /\ s.version \in Nat
    BY <1>0, RolloutAssumption DEF LInv, RowsTyped, Workers, Operations, Saved
  <2>4. QED
    BY <2>2, <2>3 DEF Awaited, Awaiting
<1>5. Servable(env', serving')
  BY <1>0, <1>1, <1>2, <1>3, <1>4, Frees
<1>6. QED
  BY <1>0, <1>5, GivenUp

LEMMA HostRestartsKeeps == ASSUME LInv, HostRestarts PROVE LInv'
<1>0. op \in Operations /\ OpFits /\ UNCHANGED <<worker, working, active, env>> /\ serving' = {env} /\ Abandons
  BY Busy DEF LInv, HostRestarts
<1>1. Servable(env', serving')
  BY <1>0 DEF Servable, LInv, RowsTyped, WorkerFits, QueueClosed, OpFits, SavedFit, Covers
<1>2. QED
  BY <1>0, <1>1, GivenUp

LEMMA RecoverAbandonsKeeps == ASSUME LInv, RecoverAbandons PROVE LInv'
<1>0. op \in Operations /\ OpFits /\ UNCHANGED <<worker, working, active, env, serving>> /\ Abandons
  BY Busy DEF LInv, RecoverAbandons, At
<1>1. Servable(env', serving')
  BY <1>0 DEF Servable, LInv, RowsTyped, WorkerFits, QueueClosed, OpFits, SavedFit, Covers
<1>2. QED
  BY <1>0, <1>1, GivenUp

LEMMA ComesUpKeeps == ASSUME LInv, ComesUp PROVE LInv'
<1>0. UNCHANGED <<env, worker, working, active, dirs, op>> /\ serving' = {env}
  BY DEF ComesUp
<1>1. QueueClosed => QueueClosed'
  BY <1>0 DEF QueueClosed
<1>2. RowsTyped' /\ WorkerFits' /\ ChangeIsRecorded' /\ BundlesFit'
  BY <1>0 DEF LInv, RowsTyped, WorkerFits, Fits, Ready, ChangeIsRecorded, Kept,
      BundlesFit, Covers, Under, At
<1>3. DirsFit'
  BY <1>0, <1>1 DEF LInv, DirsFit, Awaited, Awaiting, At
<1>4. ~At("idle") => OpFits'
  BY <1>0, <1>1 DEF LInv, OpFits, SavedFit, Covers, Fits, Awaited, Awaiting, At
<1>5. ~At("idle") => StepFits'
  BY <1>0, <1>1 DEF LInv, StepFits, Fits, Awaited, At, Unchanged
<1>6. QED
  BY <1>0, <1>2, <1>3, <1>4, <1>5 DEF LInv, At

LEMMA ServeTargetKeeps == ASSUME LInv, ServeTarget PROVE LInv'
<1>0. op \in Operations /\ OpFits /\ StepFits /\ op.at = "serve" /\ UNCHANGED <<worker, working, active, dirs>>
      /\ ~At("idle")
  BY Busy DEF LInv, ServeTarget, At, RestartInto, RestartFails
<1>1. env' = Target /\ serving' \in {serving, {}, {Target}}
  BY DEF ServeTarget, RestartInto, RestartFails
<1>2. /\ Target \in Profiles /\ Fits(Target) /\ op.saved # {} /\ ~op.diag
      /\ Target.image = op.image /\ \A s \in op.saved : Target.image \in {s.prior, s.new}
  BY <1>0 DEF Target, Profiles, Operations, OpFits, SavedFit, StepFits, TargetSteps,
      CommandSteps, At, Fits
<1>3. Servable(env', serving')
  BY <1>0, <1>1, <1>2, Frees
<1>4. CASE op' = [op EXCEPT !.at = "trap"]
  <2>1. op' \in Operations /\ op'.saved = op.saved /\ op'.resume = op.resume
    BY <1>0, <1>4 DEF Operations, Steps, CommandSteps
  <2>2. OpFits'
    BY <1>0, <1>1, <1>2, <1>3, <1>4, <2>1 DEF OpFits, SavedFit, StepFits, Servable,
        QueueClosed, Fits, At, Operations, FrozenSteps, QuietSteps, TargetSteps, BackSteps,
        RecoverSteps, CommandSteps, Unchanged, Covers, Awaited, Awaiting, Steps
  <2>3. StepFits'
    BY <1>0, <1>1, <1>2, <1>3, <1>4, <2>1 DEF OpFits, SavedFit, StepFits, Servable,
        QueueClosed, Fits, At, Operations, FrozenSteps, QuietSteps, TargetSteps, BackSteps,
        RecoverSteps, CommandSteps, Unchanged, Covers, Awaited, Awaiting, Steps
  <2>4. QED
    BY <1>0, <1>3, <2>1, <2>2, <2>3, ServesOther
<1>5. CASE op' = Idle
  <2>1. At("idle")'
    BY <1>5 DEF Idle, At
  <2>2. worker.image = op.image /\ worker.next = op.image /\ \A b \in active : b.saved.new = op.image
    BY <1>0 DEF StepFits, OpFits, SavedFit, LInv, BundlesFit
  <2>3. RowsTyped'
    BY <1>0, <1>3, <1>5, <2>1 DEF LInv, RowsTyped, Servable
  <2>4. WorkerFits'
    BY <1>0, <1>3 DEF LInv, WorkerFits, Servable, Fits, Ready
  <2>5. ChangeIsRecorded' /\ BundlesFit'
    BY <1>0, <1>1, <1>2, <2>1, <2>2 DEF LInv, ChangeIsRecorded, BundlesFit, Covers
  <2>6. DirsFit'
    BY <1>0, <1>2, <2>1 DEF LInv, DirsFit, Awaited, Awaiting
  <2>7. QED
    BY <2>1, <2>3, <2>4, <2>5, <2>6 DEF LInv
<1>6. QED
  BY <1>4, <1>5 DEF ServeTarget, Go

LEMMA ServeOriginalKeeps == ASSUME LInv, ServeOriginal PROVE LInv'
<1>0. op \in Operations /\ OpFits /\ StepFits /\ op.at = "finish" /\ UNCHANGED <<worker, working, dirs>>
      /\ ~At("idle") /\ op.original \in Profiles /\ op.kind \in {"rollback", "recover"}
  BY Busy DEF LInv, ServeOriginal, At, RestartInto, RestartFails, Operations, StepFits
<1>1. env' = op.original /\ serving' \in {serving, {}, {op.original}}
  BY DEF ServeOriginal, RestartInto, RestartFails
<1>2. /\ Fits(op.original) /\ op.saved # {} /\ ~(op.diag /\ op.marker)
      /\ worker.image = op.original.image /\ worker.next = op.original.image
      /\ \A s \in op.saved : op.original.image \in {s.prior, s.new}
  BY <1>0 DEF OpFits, SavedFit, StepFits, At, LInv, WorkerFits
<1>3. Servable(env', serving')
  BY <1>0, <1>1, <1>2, Frees
<1>4. CASE op' = [op EXCEPT !.at = "trap", !.resume = op.original] /\ UNCHANGED active
  <2>1. op' \in Operations /\ op'.saved = op.saved
    BY <1>0, <1>4 DEF Operations, Steps, CommandSteps
  <2>2. OpFits'
    BY <1>0, <1>1, <1>2, <1>3, <1>4, <2>1 DEF OpFits, SavedFit, StepFits, Servable,
        QueueClosed, Fits, At, Operations, FrozenSteps, QuietSteps, TargetSteps, BackSteps,
        RecoverSteps, CommandSteps, Unchanged, Covers, Awaited, Awaiting, Steps
  <2>3. StepFits'
    BY <1>0, <1>1, <1>2, <1>3, <1>4, <2>1 DEF OpFits, SavedFit, StepFits, Servable,
        QueueClosed, Fits, At, Operations, FrozenSteps, QuietSteps, TargetSteps, BackSteps,
        RecoverSteps, CommandSteps, Unchanged, Covers, Awaited, Awaiting, Steps
  <2>4. QED
    BY <1>0, <1>2, <1>3, <1>4, <2>1, <2>2, <2>3, ServesOther
<1>5. CASE op' = Idle /\ active' = {}
  <2>1. At("idle")'
    BY <1>5 DEF Idle, At
  <2>3. RowsTyped'
    BY <1>0, <1>3, <1>5, <2>1 DEF LInv, RowsTyped, Servable
  <2>4. WorkerFits'
    BY <1>0, <1>3 DEF LInv, WorkerFits, Servable, Fits, Ready
  <2>5. ChangeIsRecorded' /\ BundlesFit'
    BY <1>0, <1>1, <1>2, <1>5 DEF ChangeIsRecorded, BundlesFit
  <2>6. DirsFit'
    BY <1>0, <1>2, <2>1 DEF LInv, DirsFit, Awaited, Awaiting
  <2>7. QED
    BY <2>1, <2>3, <2>4, <2>5, <2>6 DEF LInv
<1>6. QED
  BY <1>0, <1>4, <1>5 DEF ServeOriginal, OpFits

-----------------------------------------------------------------------------
(* How operations begin, and what they keep.                                *)

LEMMA BeginPromoteKeeps == ASSUME LInv, NEW i \in Images, BeginPromote(i) PROVE LInv'
<1>0. /\ At("idle") /\ active = {} /\ i # env.image /\ OnlyOp
      /\ Cardinality(dirs) < MaxDirs /\ env \in Profiles
  BY DEF BeginPromote, Room, LInv, RowsTyped
<1>1. op' = [at |-> "freeze", kind |-> "promote", original |-> env, resume |-> env,
             frozen |-> Frozen(env), image |-> i, saved |-> {}, marker |-> FALSE,
             diag |-> FALSE, runs |-> "command", persisted |-> FALSE, failed |-> FALSE]
  BY DEF BeginPromote, Begins
<1>2. /\ Frozen(env) \in Profiles /\ ~Frozen(env).on /\ Frozen(env).image = env.image
  BY <1>0 DEF Frozen, Profiles
<1>3. op' \in Operations /\ ~At("idle")'
  BY <1>0, <1>1, <1>2 DEF Operations, Steps, At
<1>4. RowsTyped' /\ WorkerFits'
  BY <1>0, <1>3 DEF LInv, RowsTyped, OnlyOp, WorkerFits, Fits, Ready
<1>5. ChangeIsRecorded' /\ BundlesFit'
  BY <1>0 DEF LInv, OnlyOp, ChangeIsRecorded, Kept, At, BundlesFit
<1>6. DirsFit'
  BY <1>0, <1>1 DEF LInv, DirsFit, OnlyOp, Awaited, Awaiting, QueueClosed
<1>7. OpFits'
  BY <1>0, <1>1, <1>2 DEF LInv, WorkerFits, OnlyOp, OpFits, SavedFit, StepFits, QueueClosed,
      Fits, At, Operations, FrozenSteps, QuietSteps, TargetSteps, BackSteps,
      RecoverSteps, CommandSteps, Unchanged, Covers, Awaited, Awaiting, Steps
<1>8. StepFits'
  BY <1>0, <1>1, <1>2 DEF LInv, OnlyOp, OpFits, SavedFit, StepFits, QueueClosed, Fits, At,
      Operations, FrozenSteps, QuietSteps, TargetSteps, BackSteps, RecoverSteps,
      CommandSteps, Unchanged, Covers, Awaited, Awaiting, Steps
<1>9. QED
  BY <1>4, <1>5, <1>6, <1>7, <1>8 DEF LInv

LEMMA BeginRecycleKeeps == ASSUME LInv, NEW i \in Images, BeginRecycle(i) PROVE LInv'
<1>0. /\ At("idle") /\ active = {} /\ i # env.image /\ OnlyOp
      /\ Cardinality(dirs) < MaxDirs /\ env \in Profiles
  BY DEF BeginRecycle, Room, LInv, RowsTyped
<1>1. op' = [at |-> "freeze", kind |-> "recycle", original |-> env, resume |-> env,
             frozen |-> Frozen(env), image |-> i, saved |-> {}, marker |-> FALSE,
             diag |-> FALSE, runs |-> "command", persisted |-> FALSE, failed |-> FALSE]
  BY DEF BeginRecycle, Begins
<1>2. /\ Frozen(env) \in Profiles /\ ~Frozen(env).on /\ Frozen(env).image = env.image
  BY <1>0 DEF Frozen, Profiles
<1>3. op' \in Operations /\ ~At("idle")'
  BY <1>0, <1>1, <1>2 DEF Operations, Steps, At
<1>4. RowsTyped' /\ WorkerFits'
  BY <1>0, <1>3 DEF LInv, RowsTyped, OnlyOp, WorkerFits, Fits, Ready
<1>5. ChangeIsRecorded' /\ BundlesFit'
  BY <1>0 DEF LInv, OnlyOp, ChangeIsRecorded, Kept, At, BundlesFit
<1>6. DirsFit'
  BY <1>0, <1>1 DEF LInv, DirsFit, OnlyOp, Awaited, Awaiting, QueueClosed
<1>7. OpFits'
  BY <1>0, <1>1, <1>2 DEF LInv, WorkerFits, OnlyOp, OpFits, SavedFit, StepFits, QueueClosed,
      Fits, At, Operations, FrozenSteps, QuietSteps, TargetSteps, BackSteps,
      RecoverSteps, CommandSteps, Unchanged, Covers, Awaited, Awaiting, Steps
<1>8. StepFits'
  BY <1>0, <1>1, <1>2 DEF LInv, OnlyOp, OpFits, SavedFit, StepFits, QueueClosed, Fits, At,
      Operations, FrozenSteps, QuietSteps, TargetSteps, BackSteps, RecoverSteps,
      CommandSteps, Unchanged, Covers, Awaited, Awaiting, Steps
<1>9. QED
  BY <1>4, <1>5, <1>6, <1>7, <1>8 DEF LInv

LEMMA BeginRollbackKeeps == ASSUME LInv, BeginRollback PROVE LInv'
<1>0. /\ At("idle") /\ OnlyOp /\ Cardinality(dirs) < MaxDirs /\ env \in Profiles
  BY DEF BeginRollback, Room, LInv, RowsTyped
<1>1. PICK b \in active :
        op' = [at |-> "freeze", kind |-> "rollback", original |-> b.original, resume |-> env,
             frozen |-> Frozen(env), image |-> b.saved.new, saved |-> {b.saved}, marker |-> FALSE,
             diag |-> FALSE, runs |-> "command", persisted |-> FALSE, failed |-> FALSE]
  BY DEF BeginRollback, Begins
<1>2. /\ Frozen(env) \in Profiles /\ ~Frozen(env).on /\ Frozen(env).image = env.image
      /\ b \in Bundles /\ active = {b}
  BY <1>0 DEF Frozen, Profiles, LInv, RowsTyped
<1>3. op' \in Operations /\ ~At("idle")'
  BY <1>0, <1>1, <1>2 DEF Operations, Steps, At, Bundles, Saved
<1>4. RowsTyped' /\ WorkerFits'
  BY <1>0, <1>3 DEF LInv, RowsTyped, OnlyOp, WorkerFits, Fits, Ready
<1>5. ChangeIsRecorded' /\ BundlesFit'
  BY <1>0, <1>1, <1>2, <1>3 DEF LInv, OnlyOp, ChangeIsRecorded, Kept, At, BundlesFit,
      Covers, Under
<1>6. DirsFit'
  BY <1>0, <1>1, <1>2 DEF LInv, DirsFit, OnlyOp, Awaited, Awaiting
<1>7. OpFits'
  BY <1>0, <1>1, <1>2 DEF LInv, WorkerFits, OnlyOp, BundlesFit, OpFits, SavedFit,
      StepFits, QueueClosed, Fits, At, Operations, FrozenSteps, QuietSteps, TargetSteps,
      BackSteps, RecoverSteps, CommandSteps, Unchanged, Covers, Awaited, Awaiting, Steps
<1>8. StepFits'
  BY <1>0, <1>1, <1>2 DEF LInv, OnlyOp, OpFits, SavedFit, StepFits, QueueClosed, Fits, At,
      Operations, FrozenSteps, QuietSteps, TargetSteps, BackSteps, RecoverSteps,
      CommandSteps, Unchanged, Covers, Awaited, Awaiting, Steps
<1>9. QED
  BY <1>4, <1>5, <1>6, <1>7, <1>8 DEF LInv

LEMMA BeginRecoverKeeps == ASSUME LInv, BeginRecover PROVE LInv'
<1>0. /\ At("idle") /\ active = {} /\ ~working /\ Stopped
      /\ UNCHANGED <<env, serving, worker, working, active>> /\ env \in Profiles
      /\ Cardinality({d \in dirs : Recoverable(d)}) = 1
  BY DEF BeginRecover, LInv, RowsTyped
<1>1. PICK d \in dirs : /\ Recoverable(d) /\ dirs' = dirs \ {d}
        /\ op' = [at |-> "recGuard", kind |-> "recover", original |-> d.original,
                  resume |-> d.original, frozen |-> Frozen(d.original), image |-> d.saved.new,
                  saved |-> {d.saved}, marker |-> d.marker, diag |-> d.diag, runs |-> "command",
                  persisted |-> FALSE, failed |-> FALSE]
  BY DEF BeginRecover
<1>2. /\ d \in Directories /\ d.original \in Profiles /\ d.saved \in Saved /\ d.saved.new \in Images
      /\ d.saved.version \in Nat /\ worker.version \in Nat
      /\ Frozen(d.original) \in Profiles /\ ~Frozen(d.original).on
      /\ Frozen(d.original).image = d.original.image
  <2>1. d \in Directories /\ worker \in Workers
    BY DEF LInv, RowsTyped
  <2>2. d.original \in Profiles /\ d.saved \in Saved
    BY <2>1 DEF Directories
  <2>3. d.saved.new \in Images /\ d.saved.version \in Nat /\ worker.version \in Nat
    BY <2>1, <2>2, RolloutAssumption DEF Saved, Workers
  <2>4. QED
    BY <2>1, <2>2, <2>3 DEF Frozen, Profiles
<1>3. op' \in Operations /\ ~At("idle")'
  BY <1>0, <1>1, <1>2 DEF Operations, Steps, CommandSteps, At, Directories
<1>a. /\ worker.image = d.saved.new /\ worker.next = d.saved.new /\ d.marker /\ d.diag
      /\ Awaiting(d.saved) /\ Awaited(d.saved) /\ QueueClosed /\ env.image = d.saved.prior
      /\ d.saved.prior = d.original.image /\ d.saved.prior # d.saved.new
  BY <1>0, <1>1, <1>2 DEF LInv, DirsFit, WorkerFits, Stopped, Recoverable, Awaiting
<1>b. \A e \in dirs : Recoverable(e) => e = d
  <2>1. IsFiniteSet({e \in dirs : Recoverable(e)})
    BY FS_Subset DEF LInv, RowsTyped
  <2>2. PICK x : {e \in dirs : Recoverable(e)} = {x}
    BY <1>0, <2>1, FS_Singleton
  <2>3. QED
    BY <1>1, <2>2
<1>4. RowsTyped' /\ WorkerFits'
  <2>1. IsFiniteSet(dirs) /\ Cardinality(dirs) \in Nat /\ Cardinality(dirs) <= MaxDirs
        /\ dirs \in SUBSET Directories
    BY FS_CardinalityType DEF LInv, RowsTyped
  <2>2. IsFiniteSet(dirs') /\ Cardinality(dirs') = Cardinality(dirs) - 1
    BY <1>1, <2>1, FS_RemoveElement
  <2>3. QED
    BY <1>0, <1>1, <1>3, <2>1, <2>2, RolloutAssumption
      DEF LInv, RowsTyped, WorkerFits, Fits, Ready
<1>5. ChangeIsRecorded' /\ BundlesFit'
  <2>1. d.saved \in Kept'
    BY <1>1, <1>3 DEF Kept, At
  <2>2. {worker.image', worker.next'} \ {env'.image} = {d.saved.new}
    BY <1>0, <1>a
  <2>3. QED
    BY <1>0, <1>a, <2>1, <2>2 DEF ChangeIsRecorded, BundlesFit
<1>6. DirsFit'
  <2>1. ASSUME NEW e \in dirs', e.marker, e.diag PROVE ~Awaiting(e.saved)
    <3>1. /\ e \in dirs /\ e # d /\ ~Recoverable(e) /\ e \in Directories /\ Awaited(e.saved)
      BY <1>1, <1>b, <2>1 DEF LInv, DirsFit, RowsTyped
    <3>2. e.saved.version \in Nat /\ ~worker.pending
      BY <1>0, <3>1, RolloutAssumption DEF Directories, Saved, Stopped
    <3>3. QED
      BY <1>2, <2>1, <3>1, <3>2 DEF Recoverable, Awaited, Awaiting
  <2>2. \A e \in dirs' : e \in dirs
    BY <1>1
  <2>3. \A e \in dirs' : e.marker /\ e.diag => ~Awaiting(e.saved)'
    BY <1>0, <2>1 DEF Awaiting
  <2>4. QED
    BY <1>0, <2>2, <2>3 DEF LInv, DirsFit, Awaited
<1>7. OpFits'
  BY <1>0, <1>1, <1>2, <1>a DEF LInv, WorkerFits, OpFits, SavedFit, StepFits, QueueClosed,
      Fits, At, Operations, FrozenSteps, QuietSteps, TargetSteps, BackSteps,
      RecoverSteps, CommandSteps, Unchanged, Covers, Awaited, Awaiting, Steps
<1>8. StepFits'
  BY <1>0, <1>1, <1>2, <1>a DEF LInv, OpFits, SavedFit, StepFits, QueueClosed, Fits, At,
      Operations, FrozenSteps, QuietSteps, TargetSteps, BackSteps, RecoverSteps,
      CommandSteps, Unchanged, Covers, Awaited, Awaiting, Steps
<1>9. QED
  BY <1>4, <1>5, <1>6, <1>7, <1>8 DEF LInv

LEMMA FinalizeKeeps == ASSUME LInv, Finalize PROVE LInv'
<1>0. /\ At("idle") /\ Ready /\ active' = {} /\ UNCHANGED <<env, serving, worker, working, dirs, op>>
  BY DEF Finalize, Room
<1>1. PICK b \in active : worker.image = b.saved.new
  BY DEF Finalize
<1>2. worker.next = worker.image
  BY <1>0 DEF LInv, WorkerFits, Ready
<1>3. RowsTyped' /\ WorkerFits'
  BY <1>0 DEF LInv, RowsTyped, WorkerFits, Fits, Ready, At
<1>4. ChangeIsRecorded' /\ BundlesFit'
  <2>1. ASSUME env.image # b.saved.new PROVE \E d \in dirs : d.saved = b.saved
    BY <1>0, <2>1 DEF LInv, BundlesFit, Under
  <2>2. {b.saved.prior, b.saved.new} = {worker.image, env.image} \/ env.image = worker.image
    BY <1>1 DEF LInv, BundlesFit, Covers
  <2>3. \A d \in dirs : d.saved \in Kept'
    BY <1>0 DEF Kept
  <2>4. QED
    BY <1>0, <1>1, <1>2, <2>1, <2>2, <2>3 DEF ChangeIsRecorded, BundlesFit
<1>5. DirsFit'
  BY <1>0 DEF LInv, DirsFit, Awaited, Awaiting, QueueClosed, At
<1>6. QED
  BY <1>0, <1>3, <1>4, <1>5 DEF LInv, At

LEMMA PersistKeeps == ASSUME LInv, Persist PROVE LInv'
<1>0. /\ op \in Operations /\ ~At("idle") /\ op.at = "persist" /\ OpFits /\ StepFits
      /\ UNCHANGED <<env, serving, worker, working, dirs>>
  BY Busy DEF LInv, Persist, At
<1>1. op' = [op EXCEPT !.at = "serve", !.persisted = TRUE]
  BY DEF Persist
<1>2. op' \in Operations /\ op'.saved = op.saved /\ op'.resume = op.resume /\ ~At("idle")'
  BY <1>0, <1>1 DEF Operations, Steps, At
<1>3. PICK s \in op.saved : op.saved = {s} /\ active' = {[saved |-> s, original |-> op.original]}
  BY <1>0 DEF Persist, OpFits, SavedFit, At
<1>4. /\ s \in Saved /\ op.original \in Profiles /\ active = {} /\ ~op.persisted
      /\ op.kind \in {"promote", "recycle"} /\ ~op.diag
  BY <1>0 DEF Operations, OpFits, StepFits, TargetSteps, At
<1>5. RowsTyped' /\ WorkerFits'
  BY <1>0, <1>2, <1>3, <1>4 DEF LInv, RowsTyped, WorkerFits, Fits, Ready, Bundles, At
<1>6. BundlesFit'
  BY <1>0, <1>2, <1>3 DEF BundlesFit, OpFits, SavedFit, Covers, Under
<1>7. ChangeIsRecorded'
  BY <1>0, <1>2, <1>4 DEF LInv, ChangeIsRecorded, Kept
<1>8. DirsFit'
  BY <1>0, <1>2, <1>3 DEF LInv, DirsFit, Awaited, Awaiting
<1>9. OpFits'
  BY <1>0, <1>1, <1>2, <1>3, <1>4 DEF OpFits, SavedFit, StepFits, QueueClosed, Fits, At,
      Operations, FrozenSteps, QuietSteps, TargetSteps, BackSteps, RecoverSteps,
      CommandSteps, Unchanged, Covers, Awaited, Awaiting, Steps
<1>10. StepFits'
  BY <1>0, <1>1, <1>2, <1>4 DEF OpFits, SavedFit, StepFits, QueueClosed, Fits, At,
      Operations, FrozenSteps, QuietSteps, TargetSteps, BackSteps, RecoverSteps,
      CommandSteps, Unchanged, Covers, Awaited, Awaiting, Steps
<1>11. QED
  BY <1>5, <1>6, <1>7, <1>8, <1>9, <1>10 DEF LInv

LEMMA CheckKeeps == ASSUME LInv, Check PROVE LInv'
<1>0. /\ op \in Operations /\ ~At("idle") /\ op.at = "check" /\ OpFits /\ StepFits /\ OnlyOp
      /\ Runs(op.original) /\ ~worker.pending
  BY Busy DEF LInv, Check, At, Baseline, RecycleSource, Stopped
<1>1. op' = [op EXCEPT !.at = "guard",
             !.saved = {[prior |-> worker.image, new |-> op.image, version |-> worker.version]}]
  BY DEF Check
<1>2. [prior |-> worker.image, new |-> op.image, version |-> worker.version] \in Saved
  BY <1>0 DEF LInv, RowsTyped, Workers, Operations, Saved
<1>3. op' \in Operations /\ ~At("idle")' /\ op'.resume = op.resume
  BY <1>0, <1>1, <1>2 DEF Operations, Steps, CommandSteps, At
<1>4. /\ worker.image = op.original.image /\ worker.next = worker.image
      /\ op.kind \in {"promote", "recycle"} /\ ~op.marker /\ ~op.diag /\ env.image = op.original.image
      /\ op.resume = op.original /\ op.image # op.original.image /\ op.frozen.image = op.original.image
      /\ active = {}
  BY <1>0 DEF Runs, LInv, WorkerFits, OpFits, StepFits, FrozenSteps, CommandSteps, At
<1>5. RowsTyped' /\ WorkerFits'
  BY <1>0, <1>3 DEF LInv, RowsTyped, WorkerFits, OnlyOp, Fits, Ready, At
<1>6. ChangeIsRecorded' /\ BundlesFit'
  BY <1>0, <1>4 DEF ChangeIsRecorded, BundlesFit, OnlyOp
<1>7. DirsFit'
  <2>1. ASSUME NEW d \in dirs, d.marker, d.diag PROVE ~Awaiting(d.saved)
    <3>1. /\ d \in Directories /\ Awaited(d.saved) /\ d.saved.prior # d.saved.new
          /\ Awaiting(d.saved) => env.image = d.saved.prior
      BY <2>1 DEF LInv, RowsTyped, DirsFit
    <3>2. d.saved.version \in Nat /\ worker.version \in Nat
      BY <3>1, RolloutAssumption DEF LInv, RowsTyped, Directories, Saved, Workers
    <3>3. QED
      BY <1>0, <1>4, <3>1, <3>2 DEF Awaited, Awaiting
  <2>2. \A d \in dirs : d.marker /\ d.diag => ~Awaiting(d.saved)'
    BY <1>0, <2>1 DEF Awaiting, OnlyOp
  <2>3. QED
    BY <1>0, <2>2 DEF LInv, DirsFit, Awaited, OnlyOp
<1>8. OpFits'
  BY <1>0, <1>1, <1>2, <1>3, <1>4 DEF OnlyOp, OpFits, SavedFit, StepFits, QueueClosed, Fits,
      At, Operations, FrozenSteps, QuietSteps, TargetSteps, BackSteps, RecoverSteps,
      CommandSteps, Unchanged, Covers, Awaited, Awaiting, Steps
<1>9. StepFits'
  BY <1>0, <1>1, <1>3, <1>4 DEF OnlyOp, OpFits, SavedFit, StepFits, QueueClosed, Fits, At,
      Operations, FrozenSteps, QuietSteps, TargetSteps, BackSteps, RecoverSteps,
      CommandSteps, Unchanged, Covers, Awaited, Awaiting, Steps
<1>10. QED
  BY <1>5, <1>6, <1>7, <1>8, <1>9 DEF LInv

LEMMA InitLInv == RolloutInit => LInv
<1> SUFFICES ASSUME RolloutInit PROVE LInv
  OBVIOUS
<1>1. At("idle") /\ IsFiniteSet(dirs) /\ Cardinality(dirs) = 0
  BY FS_EmptySet DEF RolloutInit, Idle, At
<1>2. RowsTyped
  <2>1. env \in Profiles /\ serving = {env} /\ op = Idle /\ active = {} /\ dirs = {}
    BY RolloutAssumption DEF RolloutInit, Profiles
  <2>2. worker \in Workers /\ working = FALSE
    <3>1. 0 \in 0..MaxGroupVersion /\ First \in Images
      BY RolloutAssumption
    <3>2. QED
      BY <3>1 DEF RolloutInit, Workers
  <2>3. QED
    <3>1. /\ env \in Profiles /\ serving \in SUBSET Profiles /\ (\A p, q \in serving : p = q)
          /\ active \in SUBSET Bundles /\ (\A b, c \in active : b = c)
          /\ dirs \in SUBSET Directories /\ (op = Idle \/ op \in Operations)
      BY <2>1
    <3>2. IsFiniteSet(dirs) /\ Cardinality(dirs) <= MaxDirs
      BY <1>1, RolloutAssumption
    <3>3. QED
      BY <1>1, <2>2, <3>1, <3>2 DEF RowsTyped
<1>3. QED
  BY <1>1, <1>2 DEF RolloutInit, LInv, WorkerFits, Fits, ChangeIsRecorded, BundlesFit,
      DirsFit

LEMMA NextKeepsLInv == LInv /\ [RolloutNext]_rolloutVars => LInv'
<1> SUFFICES ASSUME LInv, [RolloutNext]_rolloutVars PROVE LInv'
  OBVIOUS
<1>1. CASE UNCHANGED rolloutVars
  <2>1. op' = op /\ UNCHANGED <<env, serving, worker, working, active, dirs>>
    BY <1>1 DEF rolloutVars
  <2>2. WorkerFits' /\ ChangeIsRecorded' /\ BundlesFit' /\ DirsFit'
    BY <2>1 DEF LInv, WorkerFits, Fits, Ready, ChangeIsRecorded, Kept, BundlesFit,
        DirsFit, Covers, Under, QueueClosed, At, Awaited, Awaiting
  <2>3. ~At("idle") => OpFits'
    BY <2>1 DEF LInv, OpFits, SavedFit, Covers, QueueClosed, Fits, At, Awaited, Awaiting
  <2>4. ~At("idle") => StepFits'
    BY <2>1 DEF LInv, StepFits, QueueClosed, Fits, At, Awaited, Unchanged
  <2>5. QED
    BY <2>1, <2>2, <2>3, <2>4, Unmoved DEF LInv, RowsTyped
<1>2. ASSUME NEW i \in Images, BeginPromote(i) \/ BeginRecycle(i) PROVE LInv'
  BY <1>2, BeginPromoteKeeps, BeginRecycleKeeps
<1>3. CASE BeginRollback \/ BeginRecover \/ Finalize \/ Freeze \/ Preflight \/ PreflightFails
           \/ Persist \/ ServeTarget \/ ServeOriginal \/ TrapFreeze \/ TrapResume \/ TrapHold
  BY <1>3, BeginRollbackKeeps, BeginRecoverKeeps, FinalizeKeeps, FreezeKeeps,
      PreflightKeeps, PreflightFailsKeeps, PersistKeeps, ServeTargetKeeps,
      ServeOriginalKeeps, TrapFreezeKeeps, TrapResumeKeeps, TrapHoldKeeps
<1>4. CASE Check \/ Guard \/ Stop \/ AwaitStopped \/ Patch \/ AwaitTarget \/ Start \/ AwaitReady
           \/ RestoreGuard \/ Restore \/ RestorePatch \/ Restart \/ Restored
  BY <1>4, CheckKeeps, GuardKeeps, StopKeeps, AwaitStoppedKeeps, GroupPatchKeeps,
      AwaitTargetKeeps, StartKeeps, AwaitReadyKeeps, RestoreGuardKeeps, RestoreKeeps,
      RestorePatchKeeps, RestartKeeps, RestoredKeeps
<1>5. CASE RecoverGuard \/ RecoverPatch \/ RecoverStart \/ RecoverReady \/ RecoverAbandons
           \/ Failing \/ Killed \/ HostRestarts \/ ComesUp
  BY <1>5, RecoverGuardKeeps, RecoverPatchKeeps, RecoverStartKeeps, RecoverReadyKeeps,
    RecoverAbandonsKeeps, FailingKeeps, KilledKeeps, HostRestartsKeeps, ComesUpKeeps
<1>6. CASE Converge \/ Boot \/ Halt \/ Claim \/ JobEnds \/ WarmStop \/ WarmLoopRefresh \/ WarmStart
  BY <1>6, ConvergeKeeps, BootKeeps, HaltKeeps, ClaimKeeps, JobEndsKeeps, WarmStopKeeps,
    WarmLoopRefreshKeeps, WarmStartKeeps
<1>7. QED
  BY <1>1, <1>2, <1>3, <1>4, <1>5, <1>6 DEF RolloutNext

-----------------------------------------------------------------------------
(* The theorems.                                                            *)

\* Group, profiles, bundles and directories agree in every state (LInv).
THEOREM RolloutsAgree == RolloutSpec => []LInv
  BY InitLInv, NextKeepsLInv, PTL DEF RolloutSpec

\* A set all of whose members are equal has at most one.
LEMMA AtMostOne ==
  ASSUME NEW S, \A x, y \in S : x = y
  PROVE  Cardinality(S) <= 1
<1>1. CASE S = {}
  BY <1>1, FS_EmptySet
<1>2. ASSUME NEW x \in S PROVE Cardinality(S) <= 1
  <2>1. S = {x}
    OBVIOUS
  <2>2. QED
    BY <2>1, FS_Singleton
<1>3. QED
  BY <1>1, <1>2

\* One control plane answers at most, one rollback bundle is active at most, and an
\* operation has one state to come back to at most.
THEOREM RolloutTyping == RolloutSpec => []RolloutTypeOK
<1>1. LInv => RolloutTypeOK
  <2> SUFFICES ASSUME LInv PROVE RolloutTypeOK
    OBVIOUS
  <2>1. Cardinality(serving) <= 1 /\ Cardinality(active) <= 1
    BY AtMostOne DEF LInv, RowsTyped
  <2>2. ~At("idle") => op.saved \in SUBSET Saved /\ Cardinality(op.saved) <= 1
    <3>1. ~At("idle") => op.saved \in SUBSET Saved /\ \A s, t \in op.saved : s = t
      BY Busy DEF LInv, Operations, OpFits, SavedFit
    <3>2. QED
      BY <3>1, AtMostOne
  <2>3. QED
    BY <2>1, <2>2 DEF LInv, RowsTyped, RolloutTypeOK
<1>2. QED
  BY <1>1, RolloutsAgree, PTL

\* Wherever a rollout stops: an open queue has its own worker, a worker is neither
\* stopped nor replaced under a job, and the way back is recorded.
THEOREM ServiceKept == RolloutSpec => []RolloutKeepsService
<1>1. LInv => RolloutKeepsService
  BY DEF LInv, WorkerFits, Fits, RolloutKeepsService, ServedByItsWorker, WorkKeepsItsWorker
<1>2. QED
  BY <1>1, RolloutsAgree, PTL
=============================================================================
