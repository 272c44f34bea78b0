----------------------------- MODULE MCRuntime ------------------------------
(* Small instances of what runs the workers: SaladDeployments, of which two *)
(* versions follow each other and the older may have demand for a worker,   *)
(* RuntimeAdmission, and WorkerRollout, in which a worker without the LoRA  *)
(* capability is replaced by two with it in turn. Their models share no     *)
(* state: as in MCServices, the rigid variable service says to which of     *)
(* them a behaviour belongs, and each action is listed by its own name.     *)
EXTENDS SaladDeployments, WorkerRollout

CONSTANT Services   \* the services of the run

VARIABLES service,
    admAttempt, admRuntime, admLease, admContainer, admRollouts

adm == <<admAttempt, admRuntime, admLease, admContainer, admRollouts>>
all == <<service, vars, adm, rolloutVars>>

-----------------------------------------------------------------------------
\* One attempt needs what the other needs, and more. Their plans differ, and
\* none is shared; MCServices has three attempts, and SharePlan.
Attempts == {1, 2}
Artifacts(a) == IF a = 1 THEN {"x"} ELSE {"x", "y"}
Admission == INSTANCE RuntimeAdmission WITH
    Need <- Artifacts, LeaseNeeds <- {}, MaxRollouts <- 3,
    MaxVersion <- 3,
    attempt <- admAttempt, runtime <- admRuntime, lease <- admLease,
    container <- admContainer, rollouts <- admRollouts

-----------------------------------------------------------------------------
MCInit == service \in Services /\ Init /\ Admission!AdmissionInit /\ RolloutInit

Deploy(A) == service = "deployments" /\ A /\ UNCHANGED <<service, adm, rolloutVars>>
Admit(A) == service = "admission" /\ A /\ UNCHANGED <<service, vars, rolloutVars>>
Roll(A) == service = "rollout" /\ A /\ UNCHANGED <<service, vars, adm>>

DeploymentsNext ==
    \/ \E d \in Versions :
        \/ Deploy(CreateVersion(d))
        \/ Deploy(DeferRollout(d))
        \/ Deploy(ProvisionQueue(d))
        \/ Deploy(ProvisionGroup(d))
        \/ Deploy(RepairAutoscaler(d))
        \/ Deploy(StartGroup(d))
        \/ Deploy(Observe(d))
        \/ Deploy(MeteringFails(d))
        \/ Deploy(Unread(d))
        \/ Deploy(ConfirmStop(d))
        \/ Deploy(AwaitInstances(d))
        \/ Deploy(RequestStop(d))
        \/ Deploy(DemandChanges(d))
        \/ Deploy(InstanceStarts(d))
        \/ Deploy(InstanceEnds(d))
        \/ Deploy(GroupStops(d))
        \/ Deploy(StoppedElsewhere(d))
    \/ Deploy(BudgetOnce)
    \/ Deploy(DisableAllocations)
    \/ Deploy(allowed /\ BudgetChanges)         \* bound: one of these
    \/ Deploy(~exhausted /\ AllocationChanges)  \* two, never both

AdmissionsNext ==
    \/ \E a \in Attempts :
        \/ Admit(Admission!PrepareAttempt(a))
        \/ Admit(Admission!JoinTarget(a))
        \/ Admit(Admission!RecordPlan(a))
        \/ Admit(Admission!Refresh(a))
        \/ Admit(Admission!EnsureAdmission(a))
        \/ Admit(Admission!Submit(a))
        \/ Admit(Admission!Abandon(a))
        \/ Admit(Admission!FinishAttempt(a))
        \/ Admit(Admission!Rearm(a))
    \/ Admit(Admission!Repair)
    \/ Admit(Admission!GroupGoesDown)

RolloutsNext ==
    \/ \E i \in 1..2 :
        \/ Roll(BeginPromote(i))
        \/ Roll(BeginRecycle(i))
    \/ Roll(BeginRollback)
    \/ Roll(BeginRecover)
    \/ Roll(Finalize)
    \/ Roll(Freeze)
    \/ Roll(Preflight)
    \/ Roll(PreflightFails)
    \/ Roll(Persist)
    \/ Roll(ServeTarget)
    \/ Roll(ServeOriginal)
    \/ Roll(TrapFreeze)
    \/ Roll(TrapResume)
    \/ Roll(TrapHold)
    \/ Roll(Check)
    \/ Roll(Guard)
    \/ Roll(Stop)
    \/ Roll(AwaitStopped)
    \/ Roll(Patch)
    \/ Roll(AwaitTarget)
    \/ Roll(Start)
    \/ Roll(AwaitReady)
    \/ Roll(RestoreGuard)
    \/ Roll(Restore)
    \/ Roll(RestorePatch)
    \/ Roll(Restart)
    \/ Roll(Restored)
    \/ Roll(RecoverGuard)
    \/ Roll(RecoverPatch)
    \/ Roll(RecoverStart)
    \/ Roll(RecoverReady)
    \/ Roll(RecoverAbandons)
    \/ Roll(Failing)
    \/ Roll(Killed)
    \/ Roll(HostRestarts)
    \/ Roll(ComesUp)
    \/ Roll(Converge)
    \/ Roll(Boot)
    \/ Roll(Halt)
    \/ Roll(Claim)
    \/ Roll(JobEnds)
    \/ Roll(WarmStop)
    \/ Roll(WarmLoopRefresh)
    \/ Roll(WarmStart)

MCNext == DeploymentsNext \/ AdmissionsNext \/ RolloutsNext

MCSpec == MCInit /\ [][MCNext]_all

-----------------------------------------------------------------------------
\* The FairSpec of SaladDeployments and of RuntimeAdmission. No behaviour has
\* steps of both, so that one condition stands for one of each: it is the
\* same assumption, and TLC has fewer cases to look at.
rt == <<vars, adm>>
Deploys(A) == service = "deployments" /\ A /\ UNCHANGED adm
Admits(A) == service = "admission" /\ A /\ UNCHANGED vars
Serves(a) == Admits(Admission!SubmitOnce(a) /\ admAttempt'[a] # admAttempt[a])
Completes(a) == Admits(Admission!FinishAttempt(a))
Stops(d) == Deploys(ConfirmStop(d))
AsksStop(d) ==
    Deploys(group[d] = "running" /\ RequestStop(d) /\ group'[d] = "stopping")
Empties(d) == Deploys(InstanceEnds(d) /\ group[d] # "running")

MCFairSpec ==
    /\ MCSpec
    /\ SF_rt(Stops(1) \/ Serves(1)) /\ SF_rt(Stops(2) \/ Serves(2))
    /\ SF_rt(AsksStop(1) \/ Completes(1)) /\ SF_rt(AsksStop(2) \/ Completes(2))
    /\ WF_rt(Empties(1)) /\ WF_rt(Empties(2))
    /\ \A d \in Versions : WF_rt(Deploys(GroupStops(d)))

-----------------------------------------------------------------------------
(* The properties are those of the modules, where they are explained; those *)
(* of SaladDeployments and WorkerRollout have the names they have there.    *)

\* The rows of every service keep the shape and the checks of their tables.
RowsWellFormed == TypeOK /\ Admission!AdmissionTypeOK /\ RolloutTypeOK

\* Attempts that need different artifacts take turns.
EveryAttemptIsServed == Admission!EveryAttemptIsServed
=============================================================================
