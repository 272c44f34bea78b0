--------------------------- MODULE WorkerRollout ---------------------------
(* services/i2v_lora_rollout.py and the script that runs it, deploy/        *)
(* rollout-i2v-lora-worker.sh: the image-to-video worker of the Salad lane  *)
(* is replaced while the control plane serves a profile in which its queue  *)
(* is frozen. The script keeps what a rollback needs in a directory of its  *)
(* own and, once promoted, in the active bundle; each change of the         *)
(* provider's group is announced by a marker. Any call may fail or lose its *)
(* answer, a program run for one operation may be killed, and the host may  *)
(* restart between any two steps.                                           *)
EXTENDS Naturals, FiniteSets

CONSTANTS
    Images,           \* worker images
    Legacy,           \* those without the LoRA capability and its readiness probe
    First,            \* the image that serves at the start
    MaxGroupVersion,  \* bound: changes of the provider's group
    MaxDirs           \* bound: directories left by operations that failed

\* Some image serves at the start; the bounds are numbers.
ASSUME RolloutAssumption == First \in Images /\ MaxGroupVersion \in Nat /\ MaxDirs \in Nat

VARIABLES
    env,      \* control-plane.env: is the I2V queue open, and for which image
    serving,  \* the profile of the control plane that answers, if one does
    worker,    \* the provider's container group
    working,  \* a claimed job or an open attempt of the I2V queue
    active,   \* the active rollback bundle, if there is one
    dirs,     \* .operation directories of earlier operations
    op        \* the operation under way

rolloutVars == <<env, serving, worker, working, active, dirs, op>>

Profiles == [on : BOOLEAN, image : Images]
\* ProviderRollbackState; the promoted version is the next one.
Saved == [prior : Images, new : Images, version : 0..MaxGroupVersion]
Bundles == [saved : Saved, original : Profiles]
Directories == [saved : Saved, original : Profiles, marker : BOOLEAN, diag : BOOLEAN]
Workers == [image : Images, next : Images, pending : BOOLEAN, version : 0..MaxGroupVersion,
           state : {"ready", "starting", "stopping", "stopped"}]

Idle == [at |-> "idle"]
RolloutInit ==
    /\ env = [on |-> TRUE, image |-> First]
    /\ serving = {env}
    /\ worker = [image |-> First, next |-> First, pending |-> FALSE, version |-> 0,
                state |-> "ready"]
    /\ working = FALSE /\ active = {} /\ dirs = {} /\ op = Idle

Frozen(p) == [p EXCEPT !.on = FALSE]
Open == \E p \in serving : p.on
Ready == ~worker.pending /\ worker.state = "ready"
Stopped == ~worker.pending /\ worker.state = "stopped"
\* The group is the one of this profile: a frozen profile says that its worker
\* has no capability, and so fits a legacy worker only.
Runs(p) == worker.image = p.image /\ (p.on \/ p.image \in Legacy)
\* _validate_safe_prior_rollout_baseline, _validate_exact_recycle_source
Baseline == Runs(op.original) /\ ~worker.pending /\ worker.state \in {"ready", "starting"}
RecycleSource == Baseline \/ (Runs(op.original) /\ Stopped)
Unchanged == \A s \in op.saved : worker.version = s.version /\ ~worker.pending
PriorOf == CHOOSE s \in op.saved : TRUE

At(where) == op.at = where
Go(where) == op' = [op EXCEPT !.at = where]
OnlyOp == UNCHANGED <<env, serving, worker, working, active, dirs>>

-----------------------------------------------------------------------------
(* The provider, and the runtime of the video lane when its queue is open.  *)

\* A change that the provider has accepted takes effect later.
PatchedGroup(i) == [worker EXCEPT !.next = i, !.pending = TRUE]
Provider(g) == worker' = g /\ UNCHANGED <<env, serving, working, active, dirs, op>>

Converge ==
    /\ worker.pending
    /\ Provider([worker EXCEPT !.image = worker.next, !.pending = FALSE, !.version = @ + 1,
                    !.state = IF @ = "ready" THEN "starting" ELSE @])
Boot == worker.state = "starting" /\ ~worker.pending
        /\ Provider([worker EXCEPT !.state = "ready"])
Halt == worker.state = "stopping" /\ Provider([worker EXCEPT !.state = "stopped"])
CanPatch == ~worker.pending /\ worker.version < MaxGroupVersion

\* run_cycle: claim and submit a job, and see it end.
Claim == /\ Open /\ Ready /\ ~working
         /\ \A p \in serving : Runs(p)
         /\ working' = TRUE /\ UNCHANGED <<env, serving, worker, active, dirs, op>>
JobEnds == Open /\ working /\ working' = FALSE
           /\ UNCHANGED <<env, serving, worker, active, dirs, op>>
\* An idle worker is stopped, and started with fresh credentials for new jobs.
WarmStop == Open /\ ~working /\ Ready /\ Provider([worker EXCEPT !.state = "stopping"])
WarmLoopRefresh == Open /\ Stopped /\ CanPatch /\ (\A p \in serving : Runs(p))
                   /\ Provider(PatchedGroup(worker.image))
WarmStart == Open /\ Stopped /\ (\A p \in serving : Runs(p))
             /\ Provider([worker EXCEPT !.state = "starting"])

-----------------------------------------------------------------------------
(* The script. It holds the lock of control-plane updates until it ends.    *)

Begins(kind, original, resume, frozen, image, saved, marker, diag) ==
    op' = [at |-> "freeze", kind |-> kind, original |-> original, resume |-> resume,
           frozen |-> frozen, image |-> image, saved |-> saved, marker |-> marker,
           diag |-> diag, runs |-> "command", persisted |-> FALSE, failed |-> FALSE]
Room == At("idle") /\ serving # {} /\ Cardinality(dirs) < MaxDirs

\* --promote, after its dry run.
BeginPromote(i) ==
    /\ Room /\ active = {} /\ i # env.image /\ ~working
    /\ Runs(env) /\ ~worker.pending /\ worker.state \in {"ready", "starting"}
    /\ Begins("promote", env, env, Frozen(env), i, {}, FALSE, FALSE) /\ OnlyOp

\* --recycle-promote
BeginRecycle(i) ==
    /\ Room /\ active = {} /\ i # env.image
    /\ Begins("recycle", env, env, Frozen(env), i, {}, FALSE, FALSE) /\ OnlyOp

\* --rollback: the saved profile within today's environment.
BeginRollback ==
    /\ Room /\ ~working
    /\ \E b \in active :
          Begins("rollback", b.original, env, Frozen(env), b.saved.new, {b.saved},
                 FALSE, FALSE)
    /\ OnlyOp

\* --recover-inflight: the one directory of a recycled promotion whose target
\* was left stopped. It runs under whatever profile is served.
Recoverable(d) == /\ d.diag /\ d.marker
                  /\ d.saved.new = worker.image /\ d.saved.version + 1 = worker.version
BeginRecover ==
    /\ At("idle") /\ serving # {} /\ active = {} /\ ~working /\ Stopped
    /\ Cardinality({d \in dirs : Recoverable(d)}) = 1
    /\ \E d \in {e \in dirs : Recoverable(e)} :
          /\ op' = [at |-> "recGuard", kind |-> "recover", original |-> d.original,
                    resume |-> d.original, frozen |-> Frozen(d.original),
                    image |-> d.saved.new, saved |-> {d.saved}, marker |-> d.marker,
                    diag |-> d.diag, runs |-> "command", persisted |-> FALSE,
                    failed |-> FALSE]
          /\ dirs' = dirs \ {d}
    /\ UNCHANGED <<env, serving, worker, working, active>>

\* --finalize: the promoted worker is served and ready; its bundle is archived.
Finalize ==
    /\ Room /\ ~working /\ Ready
    /\ \E b \in active : worker.image = b.saved.new
                         /\ serving = {[on |-> TRUE, image |-> b.saved.new]}
    /\ active' = {} /\ UNCHANGED <<env, serving, worker, working, dirs, op>>

\* What the operation leaves when it ends without success.
Left == {[saved |-> s, original |-> op.original, marker |-> op.marker, diag |-> op.diag] :
             s \in op.saved}
Abandons == dirs' = dirs \cup Left /\ op' = Idle

\* restart_into: the new profile is installed first; the control plane may come
\* up with it late, or not, or the old one may go on.
RestartInto(p) == env' = p /\ serving' = {p} /\ UNCHANGED <<worker, working>>
RestartFails(p) == env' = p /\ serving' \in {serving, {}, {p}} /\ UNCHANGED <<worker, working>>
Freeze ==
    /\ At("freeze") /\ UNCHANGED <<active, dirs>>
    /\ \/ RestartInto(op.frozen)
          /\ Go(IF op.kind = "rollback" THEN "restoreGuard" ELSE "check")
       \/ RestartFails(op.frozen) /\ Go("trap")

\* The reviewed target is ready: the bundle is kept before its profile serves.
Preflight == At("preflight") /\ Ready /\ worker.image = op.image /\ Go("persist") /\ OnlyOp
Persist ==
    /\ At("persist")
    /\ active' = {[saved |-> s, original |-> op.original] : s \in op.saved}
    /\ op' = [op EXCEPT !.at = "serve", !.persisted = TRUE]
    /\ UNCHANGED <<env, serving, worker, working, dirs>>
Target == [on |-> TRUE, image |-> op.image]
ServeTarget ==
    /\ At("serve") /\ UNCHANGED <<active, dirs>>
    /\ \/ RestartInto(Target) /\ op' = Idle
       \/ RestartFails(Target) /\ Go("trap")
\* The profile of a worker rolled back, or recovered, by its operator.
ServeOriginal ==
    /\ At("finish") /\ UNCHANGED dirs
    /\ \/ RestartInto(op.original) /\ op' = Idle
          /\ active' = IF op.kind = "rollback" THEN {} ELSE active
       \/ RestartFails(op.original) /\ UNCHANGED active
          /\ op' = [op EXCEPT !.at = "trap", !.resume = op.original]

-----------------------------------------------------------------------------
(* rollback_after_failure, on every exit of an armed operation.             *)

TrapFreeze ==
    /\ At("trap") /\ UNCHANGED <<active, dirs>>
    /\ \/ RestartInto(op.frozen)
          /\ op' = [op EXCEPT !.at = IF op.marker THEN "restoreGuard" ELSE "resume",
                              !.runs = "trap"]
       \/ RestartFails(op.frozen)
          /\ op' = [op EXCEPT !.at = IF op.marker THEN "hold" ELSE "resume",
                              !.runs = "trap", !.failed = TRUE]
\* The provider is as before: so is the profile.
Ended == active' = (IF op.persisted THEN {} ELSE active) /\ Abandons
TrapResume ==
    /\ At("resume")
    /\ \/ RestartInto(op.resume) /\ ~op.failed /\ Ended
       \/ RestartInto(op.resume) /\ op.failed /\ UNCHANGED active /\ Abandons
       \/ RestartFails(op.resume) /\ UNCHANGED active /\ Abandons
\* The provider is in doubt: the queue stays frozen.
TrapHold == At("hold") /\ RestartFails(op.frozen) /\ UNCHANGED active /\ Abandons

-----------------------------------------------------------------------------
(* The program that the script runs for an operation: promote_reviewed_     *)
(* worker, recycle_promote_reviewed_worker, rollback_reviewed_worker and    *)
(* recover_inflight_reviewed_worker.                                        *)

\* Where a failed command ends: once it has announced a change of the group,
\* a promotion restores it itself, and notes if its target did not settle.
Restores == op.runs = "command" /\ op.kind \in {"promote", "recycle"} /\ op.marker
Fail ==
    \/ op.kind = "recover" /\ op' = [op EXCEPT !.at = "abandon"]
    \/ op.kind # "recover" /\ op.runs = "trap"
       /\ op' = [op EXCEPT !.at = "hold", !.failed = TRUE]
    \/ Restores /\ op' = [op EXCEPT !.at = "restoreGuard", !.runs = "handler",
                                     !.diag = At("converge")]
    \/ op.kind # "recover" /\ op.runs # "trap" /\ ~Restores /\ Go("trap")
\* A call to the provider that changes the group: answered, or applied and its
\* answer lost. One that is not applied is a failure of the step.
Calls(g, where) == /\ worker' = g
                   /\ Go(where) \/ Fail
                   /\ UNCHANGED <<env, serving, working, active, dirs>>

\* Everything the target needs is ready, and the state to come back to is kept.
Check ==
    /\ At("check") /\ (op.kind = "promote" => ~working)
    /\ IF op.kind = "promote" THEN Baseline ELSE RecycleSource
    /\ op' = [op EXCEPT !.at = "guard",
          !.saved = {[prior |-> worker.image, new |-> op.image, version |-> worker.version]}]
    /\ OnlyOp
\* Mutant of Guard: the change is announced only by what follows it.
GuardUnmarked ==
    /\ At("guard") /\ ~working /\ Unchanged
    /\ IF op.kind = "promote" THEN Baseline ELSE RecycleSource
    /\ Go(IF op.kind = "promote" THEN "patch" ELSE IF Stopped THEN "stopped" ELSE "stop")
    /\ OnlyOp
\* Nothing works and the group is what was checked: the change is announced.
Guard ==
    /\ At("guard") /\ ~working /\ Unchanged
    /\ IF op.kind = "promote" THEN Baseline ELSE RecycleSource
    /\ op' = [op EXCEPT !.marker = TRUE,
                        !.at = IF op.kind = "promote" THEN "patch"
                               ELSE IF Stopped THEN "stopped" ELSE "stop"]
    /\ OnlyOp
Stop == At("stop") /\ Calls([worker EXCEPT !.state = "stopping"], "stopped")
AwaitStopped == At("stopped") /\ Stopped /\ Unchanged /\ ~working /\ Go("patch") /\ OnlyOp
\* _promotion_patch; its answer names the next version, or a pending change.
Patch == At("patch") /\ CanPatch
         /\ Calls(PatchedGroup(op.image),
                  IF op.kind = "promote" THEN "ready" ELSE "converge")
\* The target of a recycled promotion settles while the group is stopped.
TargetSettled == /\ At("converge") /\ Stopped /\ worker.image = op.image
                 /\ \A s \in op.saved : worker.version = s.version + 1
AwaitTarget == TargetSettled /\ ~working /\ Go("start") /\ OnlyOp
Start == At("start") /\ Calls([worker EXCEPT !.state = "starting"], "ready")
\* _wait_for_ready_group
AwaitReady == /\ At("ready") /\ Ready /\ worker.image = op.image
              /\ \A s \in op.saved : worker.version = s.version + 1
              /\ Go("preflight") /\ OnlyOp

\* Before it restores, each operation asks that nothing works; a promotion that
\* fails does not.
RestoreGuard == /\ At("restoreGuard")
                /\ working => op.kind = "promote" /\ op.runs = "handler"
                /\ Go("restore") /\ OnlyOp
\* _restore_provider: from the prior worker or the promoted one, once no change
\* is pending; a prior one that is stopped only needs fresh credentials.
Restore ==
    /\ At("restore") /\ ~worker.pending
    /\ worker.image \in {PriorOf.prior, PriorOf.new}
    /\ IF worker.image = PriorOf.prior /\ worker.state # "stopped"
       THEN Go("restored")
       ELSE op' = [op EXCEPT !.at = "restorePatch", !.marker = TRUE]
    /\ OnlyOp
RestorePatch == At("restorePatch") /\ CanPatch
                /\ Calls(PatchedGroup(PriorOf.prior), "restart")
\* _start_exact_group_if_stopped
Restart == /\ At("restart") /\ ~worker.pending
           /\ IF worker.state = "stopped"
              THEN Calls([worker EXCEPT !.state = "starting"], "restored")
              ELSE Go("restored") /\ OnlyOp
\* A recycled one may come back as degraded as it was; others must be ready.
StillDegraded == op.kind = "recycle" /\ op.runs = "handler" /\ ~worker.pending
            /\ worker.state \in {"starting", "stopped"}
Restored ==
    /\ At("restored") /\ worker.image = PriorOf.prior /\ (Ready \/ StillDegraded)
    /\ op' = CASE op.runs = "handler" -> [op EXCEPT !.at = "trap", !.marker = FALSE,
                                                       !.diag = FALSE]
               [] op.runs = "trap" -> [op EXCEPT !.at = "resume", !.resume = op.original]
               [] OTHER -> [op EXCEPT !.at = "finish"]
    /\ OnlyOp

\* recover_inflight: from the stopped target, and nothing else.
RecoverGuard == /\ At("recGuard") /\ ~working /\ Stopped /\ worker.image = op.image
                /\ op' = [op EXCEPT !.at = "recPatch", !.marker = TRUE] /\ OnlyOp
RecoverPatch == At("recPatch") /\ CanPatch /\ Calls(PatchedGroup(PriorOf.prior), "recStart")
RecoverStart == /\ At("recStart") /\ ~working /\ Stopped /\ worker.image = PriorOf.prior
                /\ Calls([worker EXCEPT !.state = "starting"], "recReady")
RecoverReady == /\ At("recReady") /\ Ready
                /\ op' = [op EXCEPT !.at = "finish", !.marker = FALSE] /\ OnlyOp
RecoverAbandons == At("abandon") /\ Abandons /\ UNCHANGED <<env, serving, worker, working, active>>

CommandSteps == {"check", "guard", "stop", "stopped", "patch", "converge", "start", "ready",
                 "restoreGuard", "restore", "restorePatch", "restart", "restored",
                 "recGuard", "recPatch", "recStart", "recReady"}
\* A check, a call or a wait fails, or has no more time. The note of a target
\* that did not settle stays when the restoration fails at the provider.
Failing ==
    /\ op.at \in CommandSteps /\ OnlyOp
    /\ IF op.runs = "handler"
       THEN op' = [op EXCEPT !.at = "trap", !.diag = op.diag /\ ~At("restoreGuard")]
       ELSE Fail
\* The program is killed with its time over; the script goes on.
Killed ==
    /\ op.at \in CommandSteps /\ OnlyOp
    /\ \/ op.kind = "recover" /\ op' = [op EXCEPT !.at = "abandon"]
       \/ op.kind # "recover" /\ op.runs = "trap"
          /\ op' = [op EXCEPT !.at = "hold", !.failed = TRUE]
       \/ op.kind # "recover" /\ op.runs # "trap"
          /\ op' = [op EXCEPT !.at = "trap", !.diag = FALSE]
PreflightFails == op.at \in {"preflight", "persist"} /\ Go("trap") /\ OnlyOp

\* Everything on the host ends, and the control plane comes up with the profile
\* that was installed.
HostRestarts ==
    /\ ~At("idle") /\ serving' = {env} /\ UNCHANGED <<env, worker, working, active>>
    /\ Abandons
ComesUp == serving = {} /\ serving' = {env}
           /\ UNCHANGED <<env, worker, working, active, dirs, op>>

RolloutNext ==
    \/ \E i \in Images \ Legacy : BeginPromote(i) \/ BeginRecycle(i)
    \/ BeginRollback \/ BeginRecover \/ Finalize
    \/ Freeze \/ Preflight \/ PreflightFails \/ Persist \/ ServeTarget \/ ServeOriginal
    \/ TrapFreeze \/ TrapResume \/ TrapHold
    \/ Check \/ Guard \/ Stop \/ AwaitStopped \/ Patch \/ AwaitTarget \/ Start \/ AwaitReady
    \/ RestoreGuard \/ Restore \/ RestorePatch \/ Restart \/ Restored
    \/ RecoverGuard \/ RecoverPatch \/ RecoverStart \/ RecoverReady \/ RecoverAbandons
    \/ Failing \/ Killed \/ HostRestarts \/ ComesUp
    \/ Converge \/ Boot \/ Halt \/ Claim \/ JobEnds \/ WarmStop \/ WarmLoopRefresh \/ WarmStart

RolloutSpec == RolloutInit /\ [][RolloutNext]_rolloutVars

-----------------------------------------------------------------------------
(* Properties.                                                             *)

RolloutTypeOK ==
    /\ env \in Profiles /\ serving \in SUBSET Profiles /\ Cardinality(serving) <= 1
    /\ worker \in Workers /\ working \in BOOLEAN
    /\ active \in SUBSET Bundles /\ Cardinality(active) <= 1
    /\ dirs \in SUBSET Directories /\ Cardinality(dirs) <= MaxDirs
    /\ ~At("idle") => op.saved \in SUBSET Saved /\ Cardinality(op.saved) <= 1

\* An open queue has its own worker, and no change of the group is pending to
\* another: jobs never reach a worker of the other profile.
ServedByItsWorker ==
    \A p \in serving : p.on => worker.image = p.image /\ worker.next = p.image

\* "This script never submits, retries, cancels, or reorders an I2V job": the
\* worker of a claimed job is neither stopped nor replaced under it.
WorkKeepsItsWorker == working => Ready

\* While the group is not the one of the installed profile, or will not be, what
\* is needed to come back from it is kept: a rollback has somewhere to start.
Kept == (IF At("idle") THEN {} ELSE op.saved)
        \cup {b.saved : b \in active} \cup {d.saved : d \in dirs}
ChangeIsRecorded ==
    \A i \in {worker.image, worker.next} \ {env.image} :
        \E s \in Kept : {s.prior, s.new} = {i, env.image}

\* A rollout keeps the video lane's service, wherever it fails.
RolloutKeepsService == ServedByItsWorker /\ WorkKeepsItsWorker /\ ChangeIsRecorded

=============================================================================
