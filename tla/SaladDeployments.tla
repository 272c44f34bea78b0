-------------------------- MODULE SaladDeployments --------------------------
(***************************************************************************)
(* The rollout of immutable Salad deployment versions: the controller's    *)
(* deployment loop creates a queue and a container group for the current   *)
(* version, keeps an active group in shape, and stops superseded or        *)
(* forbidden groups until their instances are gone.  Every pass is one     *)
(* database transaction around calls to Salad, whose answers may be lost.  *)
(***************************************************************************)
EXTENDS Naturals

CONSTANTS
  Versions,   \* the version numbers, 1 .. the last
  Loaded      \* the versions that may get durable demand for a worker

VARIABLES
  row,        \* the salad_deployments rows (state "none": no row yet)
  queue,      \* versions whose queue exists at the provider
  group,      \* the provider's container group of each version
  minimum,    \* groups whose autoscaler keeps one replica
  busy,       \* groups that have an instance
  wanted,     \* versions with durable demand for one worker
  exhausted,  \* the provider budget forbids work
  allowed     \* settings.gpu_allocation_enabled

provider == <<queue, group, minimum, busy>>
demand == <<wanted, exhausted, allowed>>
vars == <<row, queue, group, minimum, busy, wanted, exhausted, allowed>>

States == {"PLANNED", "PROVISIONING", "ACTIVE", "DEGRADED", "DRAINING",
           "UNKNOWN", "FAILED", "STOPPED"}

\* The columns that the loop reads: whether the provider's ids are recorded,
\* stopped_at, and that a start is awaited.
DeploymentRows ==
  [state: States \union {"none"}, desired: {"ACTIVE", "STOPPED"}, current: BOOLEAN,
   queue: BOOLEAN, group: BOOLEAN, stopped: BOOLEAN, starting: BOOLEAN]

\* Each component of the state is of its type, and only an existing version
\* holds provider resources.
TypeOK ==
  /\ row \in [Versions -> DeploymentRows]
  /\ group \in [Versions -> {"none", "running", "stopping", "stopped"}]
  /\ {queue, minimum, busy, wanted} \subseteq SUBSET Versions
  /\ exhausted \in BOOLEAN /\ allowed \in BOOLEAN
  /\ \A d \in Versions : /\ row[d].queue => d \in queue
                         /\ row[d].group => group[d] # "none"
                         /\ row[d].state = "none" => group[d] = "none"

-----------------------------------------------------------------------------

Init ==
  /\ row = [d \in Versions |->
              [state |-> "none", desired |-> "STOPPED", current |-> FALSE, queue |-> FALSE,
               group |-> FALSE, stopped |-> FALSE, starting |-> FALSE]]
  /\ queue = {} /\ group = [d \in Versions |-> "none"] /\ minimum = {} /\ busy = {}
  /\ wanted = {} /\ exhausted = FALSE /\ allowed = TRUE

Exists == {d \in Versions : row[d].state # "none"}
Complete(r) == r.queue /\ r.group

MustStop(r) == [r EXCEPT !.desired = "STOPPED", !.starting = FALSE]
Planned(r)  == [r EXCEPT !.state = "PLANNED", !.desired = "ACTIVE", !.current = TRUE]
Replaced(r) == [MustStop(r) EXCEPT !.current = FALSE]

\* A new immutable version becomes current; the version it replaces is asked to stop.
CreateVersion(d) ==
  /\ d \notin Exists /\ \A e \in Versions : e < d => e \in Exists
  /\ row' = [e \in Versions |->
               IF e = d THEN Planned(row[d])
               ELSE IF row[e].current THEN Replaced(row[e]) ELSE row[e]]
  /\ UNCHANGED <<provider, demand>>

-----------------------------------------------------------------------------
(* How a provider call can end, and what the pass then commits.            *)

Unknown(r)     == [r EXCEPT !.state = "UNKNOWN", !.starting = FALSE]
Degraded(r, otherwise) ==
  [r EXCEPT !.state = IF Complete(r) THEN "DEGRADED" ELSE otherwise,
            !.starting = FALSE]
Failed(r)      == Degraded(r, "FAILED")
Limited(r)     == Degraded(r, "PROVISIONING")

\* _mark_deployment_unknown, in a transaction of its own, after a pass that
\* was cancelled, timed out or raised, and so rolled back.
Interrupted(r) == IF r.state = "STOPPED" THEN r ELSE Unknown(r)

\* Pairs <<the call took effect, the row the pass commits>>: an answer, a
\* timeout or 5xx whose outcome is unknown, a conflict, a refusal, a rate limit.
Answered(r, done) ==
  {<<TRUE, done>>, <<TRUE, Unknown(r)>>, <<FALSE, Unknown(r)>>,
   <<FALSE, Failed(r)>>, <<FALSE, Limited(r)>>}

\* The pass dies around the call: nothing of it is committed.
Lost(r) == BOOLEAN \X {r, Interrupted(r)}

KillSwitch(rs) ==
  [e \in Versions |-> IF e \in Exists
                      THEN MustStop(rs[e])
                      ELSE rs[e]]
Disabled(rs) ==
  [e \in Versions |-> IF e \in Exists /\ rs[e].state # "STOPPED"
                      THEN MustStop(rs[e])
                      ELSE rs[e]]

\* The rows as the pass sees them once GPU allocation and the budget are judged.
Swept  == IF allowed THEN row ELSE Disabled(row)
Fenced == IF exhausted THEN KillSwitch(Swept) ELSE Swept

\* Mutant of Selected: only versions with both identities are worked on.
SelectedComplete(d) == row[d].state \notin {"none", "STOPPED"} /\ Complete(row[d])

\* The versions the deployment loop picks up.
Selected(d) ==
  /\ row[d].state \notin {"none", "STOPPED"}
  /\ \/ Complete(row[d])
     \/ Swept[d].desired = "STOPPED" /\ ~row[d].stopped
     \/ allowed /\ Swept[d].desired = "ACTIVE"

Commit(d, r) == row' = [Fenced EXCEPT ![d] = r]

\* Pairs <<the call took effect, the rows after the pass over d>>.
Outcomes(d, r, done) ==
       {<<o[1], [Fenced EXCEPT ![d] = o[2]]>> : o \in Answered(r, done)}
  \union {<<o[1], [row EXCEPT ![d] = o[2]]>> : o \in Lost(row[d])}

\* The pass over d calls the provider: `effect` says what the call changes there.
Call(d, r, done, effect(_)) ==
  \E o \in Outcomes(d, r, done) : row' = o[2] /\ effect(o[1])

-----------------------------------------------------------------------------
(* Provisioning the current version.                                       *)

\* Mutant of Superseded: waits for the stop to be asked for, not confirmed.
SupersededAskedOnly(d) ==
  \E e \in Exists \ {d} : /\ Fenced[e].group /\ ~Fenced[e].current
                          /\ Fenced[e].state \notin {"STOPPED", "DRAINING"}
                          /\ ~Fenced[e].stopped

\* _has_unstopped_superseded_group: it goes by the group ids that were recorded.
Superseded(d) ==
  \E e \in Exists \ {d} : /\ Fenced[e].group /\ ~Fenced[e].current
                          /\ Fenced[e].state # "STOPPED"
                          /\ ~Fenced[e].stopped

Provisioning(d) ==
  /\ Selected(d) /\ ~exhausted /\ Swept[d].desired = "ACTIVE" /\ ~Complete(row[d])

DeferRollout(d) ==
  /\ Provisioning(d) /\ row[d].current /\ Superseded(d)
  /\ Commit(d, row[d]) /\ UNCHANGED <<provider, demand>>

\* One create call, unless the resource is found and adopted; a version whose
\* create may still land is never created again.
ProvisionQueue(d) ==
  LET r    == [row[d] EXCEPT !.state = "PROVISIONING"]
      done == [r EXCEPT !.queue = TRUE]
      created(took) == queue' = IF took THEN queue \union {d} ELSE queue
  IN /\ Provisioning(d) /\ ~(row[d].current /\ Superseded(d)) /\ ~row[d].queue
     /\ \/ d \in queue /\ Commit(d, done) /\ UNCHANGED queue
        \/ d \notin queue /\ row[d].state = "UNKNOWN"
           /\ Commit(d, Unknown(r)) /\ UNCHANGED queue
        \/ d \notin queue /\ row[d].state # "UNKNOWN" /\ Call(d, r, done, created)
     /\ UNCHANGED <<group, minimum, busy, demand>>

\* The group starts by itself: the payload sets autostart_policy.
ProvisionGroup(d) ==
  LET r    == [row[d] EXCEPT !.state = "PROVISIONING"]
      done == [r EXCEPT !.group = TRUE]
      created(took) == group' = IF took THEN [group EXCEPT ![d] = "running"] ELSE group
  IN /\ Provisioning(d) /\ ~(row[d].current /\ Superseded(d))
     /\ row[d].queue /\ ~row[d].group
     /\ \/ group[d] # "none" /\ UNCHANGED group
           /\ \E s \in {"PROVISIONING", "DEGRADED"} : Commit(d, [done EXCEPT !.state = s])
        \/ group[d] = "none" /\ row[d].state = "UNKNOWN"
           /\ Commit(d, Unknown(r)) /\ UNCHANGED group
        \/ group[d] = "none" /\ row[d].state # "UNKNOWN"
           /\ Call(d, r, done, created)
        \/ group[d] = "none" /\ row[d].state # "UNKNOWN"   \* the payload is invalid
           /\ Commit(d, Failed(r)) /\ UNCHANGED group
     /\ UNCHANGED <<queue, minimum, busy, demand>>

-----------------------------------------------------------------------------
(* Keeping an active group in shape.                                       *)

Reconciling(d) ==
  /\ Selected(d) /\ ~exhausted /\ Swept[d].desired = "ACTIVE" /\ Complete(row[d])

EffectiveMinimum == wanted

\* The group's drift is its autoscaler: patch it to the effective minimum.
RepairAutoscaler(d) ==
  LET done == [row[d] EXCEPT !.state = "PROVISIONING", !.starting = FALSE]
      patched(took) == minimum' = IF ~took THEN minimum
                                  ELSE (minimum \ {d}) \union ({d} \intersect EffectiveMinimum)
  IN /\ Reconciling(d) /\ (d \in minimum) # (d \in EffectiveMinimum)
     /\ Call(d, row[d], done, patched)
     /\ UNCHANGED <<queue, group, busy, demand>>

\* A stopped group with demand is started once per wait.
StartGroup(d) ==
  LET done == [row[d] EXCEPT !.state = "PROVISIONING", !.starting = TRUE]
      started(took) == group' = IF took THEN [group EXCEPT ![d] = "running"] ELSE group
  IN /\ Reconciling(d) /\ d \in EffectiveMinimum /\ d \in minimum
     /\ group[d] = "stopped" /\ ~row[d].starting
     /\ Call(d, row[d], done, started)
     /\ UNCHANGED <<queue, minimum, busy, demand>>

\* A pass that only observes: an unreadable or unhealthy group, a pending
\* change, a group that was started and has no instance yet, or a good one.
Observe(d) ==
  /\ Reconciling(d)
  /\ \/ \E s \in {"UNKNOWN", "PROVISIONING", "DEGRADED"} :
          Commit(d, [row[d] EXCEPT !.state = s, !.starting = FALSE])
     \/ /\ d \in EffectiveMinimum /\ d \notin busy
        /\ group[d] # "stopped" \/ row[d].starting
        /\ \E s \in {"PROVISIONING", "DEGRADED"} :
             Commit(d, [row[d] EXCEPT !.state = s, !.starting = TRUE])
     \/ /\ d \in EffectiveMinimum => d \in busy
        /\ Commit(d, [row[d] EXCEPT !.state = "ACTIVE", !.starting = FALSE])
  /\ UNCHANGED <<provider, demand>>

\* Metering the runtime fails: the version is stopped in the same pass.
MeteringFails(d) ==
  /\ Reconciling(d)
  /\ Commit(d, MustStop(row[d]))
  /\ UNCHANGED <<provider, demand>>

\* A provider read fails, or the pass dies before it has changed anything.
Unread(d) ==
  /\ Selected(d) /\ ~exhausted /\ Swept[d].desired = "ACTIVE"
  /\ \/ Commit(d, Unknown(row[d]))
     \/ row' = [row EXCEPT ![d] = Interrupted(row[d])]
  /\ UNCHANGED <<provider, demand>>

-----------------------------------------------------------------------------
(* Stopping.                                                               *)

Stopping(d) == Selected(d) /\ (exhausted \/ Swept[d].desired = "STOPPED")

\* Mutant of Identities: a group is taken to exist without being read.
IdentitiesAssumed(d, r) ==
  [r EXCEPT !.group = TRUE,
            !.queue = @ \/ (d \in queue /\ group[d] \in {"none", "stopped"})]

\* _request_stop records the identities it finds on the way, but reads the
\* queue's only for a group that is gone or stopped.
Identities(d, r) ==
  [r EXCEPT !.group = @ \/ group[d] # "none",
            !.queue = @ \/ (d \in queue /\ group[d] \in {"none", "stopped"})]

Closed(r) == [r EXCEPT !.state = IF Complete(r) THEN "STOPPED" ELSE "FAILED",
                       !.stopped = TRUE, !.starting = FALSE]

\* Mutant of ConfirmStop: the group's status alone confirms the stop.
ConfirmStopByStatus(d) ==
  /\ Stopping(d) /\ group[d] \in {"none", "stopped"}
  /\ Commit(d, Closed(Identities(d, Fenced[d])))
  /\ UNCHANGED <<provider, demand>>

\* The group is absent, or stopped with no instance listed.
ConfirmStop(d) ==
  /\ Stopping(d) /\ group[d] \in {"none", "stopped"} /\ d \notin busy
  /\ \E r \in {Fenced[d], Identities(d, Fenced[d])} :
        /\ group[d] # "none" => r.group        \* only the queue may go unread
        /\ Commit(d, Closed(r))
  /\ UNCHANGED <<provider, demand>>

\* The group is stopped and an instance is still listed, or cannot be read.
AwaitInstances(d) ==
  /\ Stopping(d) /\ group[d] = "stopped"
  /\ Commit(d, [Identities(d, Fenced[d]) EXCEPT !.state = "DRAINING", !.starting = FALSE])
  /\ UNCHANGED <<provider, demand>>

\* Salad took the stop: nothing is known to drain while the identity is unconfirmed.
Drained(r) == [r EXCEPT !.state = IF Complete(r) THEN "DRAINING" ELSE "UNKNOWN"]

\* The stop is requested for a group that still runs, or could not be read.
RequestStop(d) ==
  LET read == {Fenced[d]} \union IF group[d] \in {"running", "stopping"}
                             THEN {Identities(d, Fenced[d])} ELSE {}
  IN /\ Stopping(d)
     /\ \E o \in {<<o[1] /\ group[d] = "running", o[2]>> :
                     o \in UNION {Outcomes(d, r, Drained(r)) : r \in read}} :
          /\ row' = o[2]
          /\ group' = IF o[1] THEN [group EXCEPT ![d] = "stopping"] ELSE group
     /\ UNCHANGED <<queue, minimum, busy, demand>>

\* The budget monitor finds the limit exceeded and stops every version.
BudgetOnce ==
  /\ exhausted /\ row' = KillSwitch(row) /\ row' # row
  /\ UNCHANGED <<provider, demand>>

\* A pass with no version due still persists the allocation policy.
DisableAllocations ==
  /\ ~allowed /\ row' = Disabled(row) /\ row' # row
  /\ UNCHANGED <<provider, demand>>

-----------------------------------------------------------------------------
(* Salad, and the inputs of the deployment loop.                           *)

InstanceStarts(d) ==
  /\ group[d] = "running" /\ d \notin busy /\ busy' = busy \union {d}
  /\ UNCHANGED <<row, queue, group, minimum, demand>>

InstanceEnds(d) ==
  /\ d \in busy /\ busy' = busy \ {d}
  /\ UNCHANGED <<row, queue, group, minimum, demand>>

GroupStops(d) ==
  /\ group[d] = "stopping" /\ group' = [group EXCEPT ![d] = "stopped"]
  /\ UNCHANGED <<row, queue, minimum, busy, demand>>

\* Salad stops a group for reasons of its own.
StoppedElsewhere(d) ==
  /\ group[d] = "running" /\ group' = [group EXCEPT ![d] = "stopping"]
  /\ UNCHANGED <<row, queue, minimum, busy, demand>>

DemandChanges(d) ==
  /\ row[d].group /\ d \in Loaded
  /\ wanted' = IF d \in wanted THEN wanted \ {d} ELSE wanted \union {d}
  /\ UNCHANGED <<row, provider, exhausted, allowed>>

BudgetChanges ==
  /\ ~exhausted /\ exhausted' = TRUE /\ UNCHANGED <<row, provider, wanted, allowed>>

\* The controller is restarted with GPU allocation off.
AllocationChanges ==
  /\ allowed /\ allowed' = FALSE /\ UNCHANGED <<row, provider, wanted, exhausted>>

DeploymentOnce(d) ==
  \/ DeferRollout(d) \/ ProvisionQueue(d) \/ ProvisionGroup(d)
  \/ RepairAutoscaler(d) \/ StartGroup(d) \/ Observe(d) \/ MeteringFails(d) \/ Unread(d)
  \/ ConfirmStop(d) \/ AwaitInstances(d) \/ RequestStop(d)

Next ==
  \/ \E d \in Versions :
       \/ CreateVersion(d) \/ DeploymentOnce(d) \/ DemandChanges(d)
       \/ InstanceStarts(d) \/ InstanceEnds(d) \/ GroupStops(d) \/ StoppedElsewhere(d)
  \/ BudgetOnce \/ DisableAllocations \/ BudgetChanges \/ AllocationChanges

Spec == Init /\ [][Next]_vars

\* The loop keeps picking a due version up (it takes the longest-due first),
\* Salad answers again and again, and it ends what it was told to stop.
Fairness(d) ==
  /\ SF_vars(ConfirmStop(d))
  /\ SF_vars(group[d] = "running" /\ RequestStop(d) /\ group'[d] = "stopping")
  /\ WF_vars(GroupStops(d))
  /\ WF_vars(InstanceEnds(d) /\ group[d] # "running")

FairSpec == Spec /\ \A d \in Versions : Fairness(d)

-----------------------------------------------------------------------------
(* Properties.                                                             *)

Quiet(d) == group[d] \in {"none", "stopped"} /\ d \notin busy

\* A version recorded as stopped has no group that runs and no instance, so
\* nothing of it is billed any more, whatever answers were lost on the way.
StoppedIsQuiet == \A d \in Versions : row[d].stopped => Quiet(d)

\* A group is created only when every group recorded for another version is
\* confirmed gone: two recorded rollouts never run at the same time.
CreatesAfterStops ==
  [][\A d \in Versions :
       group[d] = "none" /\ group'[d] # "none"
         => \A e \in Versions \ {d} : row[e].group => Quiet(e)]_vars

\* The promise of _defer_rollout_overlap's own message: provisioning waits
\* until every superseded provider group is confirmed stopped.
RolloutsDoNotOverlap ==
  [][\A d \in Versions :
       group[d] = "none" /\ group'[d] # "none"
         => \A e \in Versions \ {d} : Quiet(e)]_vars

\* A version that must stop is in the end confirmed stopped, from every state
\* that errors, crashes and lost identities may have left it in.
StopsEventually ==
  \A d \in Versions : (row[d].state # "none" /\ row[d].desired = "STOPPED") ~> row[d].stopped

=============================================================================
