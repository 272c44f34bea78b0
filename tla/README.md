# Verification of the generation control plane

This directory holds TLA+ models of the control plane of gen-automation, the
TLC runs that check them on small instances, and proofs that TLAPS checks for
every instance. `PROJECT.json` lists the components, runs, mutants, hazards and
theorems, and for every definition the lines of the source it translates; this
file explains them. Paths below are relative to `src/src/gen_automation/`.

The control plane (`docs/architecture.md`) turns the specification of a release
into generation jobs, sends them to the SaladCloud job queue, follows them to
an end, collects and verifies the resulting masters, and hands the release to
review and publication. PostgreSQL is the source of truth; GPU workers are
replaceable; object storage owns the files. One controller process runs many
independent polling loops (`controller/runtime.py`), and more than one
controller may run. A request to Salad costs money and cannot be undone, and
there is no idempotency key: **what is hard is to send each attempt once, to
know what happened to it whatever fails, and to never hold or spend money for
something that is not there.** That is the generation pipeline. The services
around it share its shape: work that is leased to a controller which may die,
around an effect in another system (a post, an upload, a container group, a GPU
job) that cannot be undone and whose answer may be lost.

## 1. Inventory

### Components of the generation pipeline

| Component (source) | State it keeps | Operations | What makes it correct |
|---|---|---|---|
| Provider budget guard (`services/budgets.py`) | the guard row (limits, blocked reason), spend entries, `reserved_cost` and release time of each attempt | configure, re-evaluate, preflight, reserve, record spend, release, kill switch | nothing is admitted above a limit; above a limit nothing keeps running; a reservation lasts exactly as long as the outcome is open |
| Warm leases (`services/experiment_warm_leases.py`) | one lease per deployment, with maximum cost and deadline | start, end, expire, complete | a lease is a commitment like a reservation, and dies with the budget |
| Scheduler (`services/scheduling.py`) | jobs and attempts | recovery sweep, dispatch, compliance block | local backlog limit; one attempt of a job at a time |
| Outbox, submit topic (`services/outbox.py`) | the submit event, its lease and attempt count | claim with sweep, succeed, defer, fail | a crash never leads to a second POST or a forgotten attempt |
| Submission (`services/salad.py`, to line 1960) | attempt state machine, reservation, admission target | prepare, fence, reserve, rearm, POST, classify the answer | at most one POST; the stop fences everything not yet reserved |
| Reconciliation (`services/salad.py`, from line 2100) | observation clock, absence trackers, cancellation intent | GET or LIST, apply, confirm absence, cancel for the stop or the watchdog | a paid job is never forgotten while it may run |
| Webhook inbox (`services/salad_inbox.py`, `services/salad_webhooks.py`) | receipts | apply a callback | late, repeated or reordered callbacks do no harm |
| Stop and settlement (`services/generation_control.py`) | two audit markers, release phase | request, cancel unsubmitted, settle | nothing new starts after a stop; settled means quiet |
| Retry grants (`services/generation_recovery.py`) | audit events per attempt, `max_attempts` | infrastructure, near-black and turnover grants | bounded; only for an ended attempt of a running, healthy release |
| Collection (`services/collection.py`) | job lease, release phase | claim, reschedule, fail closed, collect | a release is reviewed with all its masters or after a settled stop |
| Controller (`controller/runtime.py`) | none of its own; one task per loop | one loop per queue, each with a timeout | every loop can be cancelled or die at any `await` |
| Salad deployments (`services/salad_deployments.py`, `services/gpu_billing.py`) | one row per version: desired and observed state, the provider's ids | provision, repair, start, observe, stop, roll over, meter | what is recorded as stopped runs nowhere; one recorded rollout at a time; what must stop is stopped |
| Runtime admission (`controller/runtime.py`) | plan or target in `request_metadata`, the group's loaded manifest | plan, PATCH, record, ensure, admit, repair | a worker is never reloaded under a job; what was staged can be carried out; attempts with different needs take turns |
| Raw masters (`services/assets.py`, `services/collection.py`) | one asset per output: staging key, verification lease, final object | grant, upload, verify, promote, quarantine, salvage | no upload is lost to a retry; a master never changes; the settlement counts what there is |

How they interact: through rows only. The scheduler writes attempts and outbox
events; the submit loop claims events, reserves budget and POSTs; the
reconciler and the inbox write the same attempt and job rows from two sources
of the provider's truth; the stop and the collection write the same jobs and
release. All of them take the budget guard's row lock before any other when
they touch a reservation, and re-read under lock what they read before an
`await` (`lock_version` for attempts, lease owner for events and collection).

### The services around it

| Component (source) | State it keeps | Operations | What makes it correct |
|---|---|---|---|
| Publication (`services/publication.py`, `services/publication_runtime.py`) | intents, approvals, attempts with their steps, the provider guard | plan, approve, revoke, cancel, claim, begin, send, settle, recover, reconcile | one post per target, and none without authority or while one is in doubt |
| MEGA delivery (`services/mega_set_delivery.py`) | one delivery row, its items | claim, plan, list, adopt, upload, complete, finalize | an image recorded as delivered is in the folder, and once |
| Finished-set archives (`services/finished_set_archives.py`) | archive row, checkpointed parts | claim, plan, write or adopt a part, checkpoint, finalize | an archive that is ready has all its parts, of one manifest |
| Derivatives (`services/derivative_pipeline.py`, `derivative_runtime.py`, `x_teaser_revisions.py`) | leased jobs, the release phase, active and pending teaser revision | plan, claim, render, retry, promote, activate, drop | the release renders exactly while a gating job is open; only active teasers are posted |
| Review (`services/review.py`, `semantic_anatomy.py`, `review_derivatives.py`) | a task per scoring run with its lock version, decisions, X choices; leased assessments | open, decide, choose, expand, complete, cancel; assess, recover; prepare teasers | a release is approved by one review, as its reviewer saw it; teasers are of the images chosen |
| Image-to-video (`services/i2v.py`, `services/i2v_runpod_runtime.py`, the claim callback in `api/routes/i2v.py`) | job, attempts, submission state | claim, submit, observe, cancel, time out, retry, let the worker in | one provider job works for an attempt; a video is made or fails |
| Worker rollout (`services/i2v_lora_rollout.py`, `infra/aws-staging/deploy/rollout-i2v-lora-worker.sh`) | installed profile, operation directories, active bundle, marker, the provider's group | promote, recycle, roll back, recover, finalize; the trap | an open queue has its own worker, a claimed job keeps it, and there is always a way back |

### The other parts

Quality scoring and ranking; semantic feedback and learning; the Patreon
browser ledger; the LoRA catalogue and artifact onboarding;
releases, new sets and compliance; experiments; wildcards and storybooks;
authentication; the API and its templates; the GPU workers; the transport
clients; migrations. Each has an entry in `PROJECT.json` with its sources and the
reason it is not modelled. The stateful ones (quality runs, the Patreon
ledger) are in the plan; the rest is numeric, presentational or pure construction
of rows.

### Hard behaviours

The full list, at its lines, is under `hazards` in `PROJECT.json`. In short:

- a worker that dies between the commit of SUBMITTING, the POST and the commit
  of its outcome; a submit timeout that cancels the task at any `await`;
- a POST without an answer, which may or may not have created a job, and a LIST
  that may not show the job yet;
- reads of the provider applied after the row has moved on; callbacks that are
  late, repeated, reordered or that contradict a resolved attempt;
- an operator's stop that arrives at any moment, also during a submission,
  between the DELETE and its commit, or while masters are being collected;
- retry grants for the same failure from four places (the submit loop, the
  reconciler, the inbox, the scheduler's sweep);
- budget limits that change, metered spend that arrives late, day and month
  boundaries, a deployment that becomes active while the budget is exhausted;
- a container group whose create was answered to nobody, a version superseded
  before its ids are known, an instance that outlives its group's status;
- a PATCH that is accepted in a pass that rolls back, a repair or a warm lease
  that reloads the worker behind a staged attempt;
- a post, an upload or a video whose answer is lost while another controller
  takes the expired lease over; an approval withdrawn in between;
- a rollout that fails, is killed or loses its host between a change of the
  provider's group and the profile that fits it;
- two reviewers at one task, or at the tasks of two runs; an assessment that is
  late; X choices that change while their teasers are planned;
- two collectors at one upload, an upload that comes after its attempt was given
  up, a settlement that counts while masters still appear.

## 2. Modules

    GenerationState          rows, workers, provider; retries and grants
      |-- SaladSubmission    scheduler, outbox claim, submit worker
      |-- SaladReconciler    provider reads, observations, cancellation
      |-- SaladWebhooks      callbacks
      `-- GenerationControl  stop, settlement, collection
            `-- GenerationPipeline   the four together, with the provider
                  |-- MCPipeline           instances for TLC
                  `-- PipelineInvariant    the inductive invariants
                        `-- PipelineProofs     the theorems about the pipeline
    ProviderCommitment       what the pipeline promises about money (abstract)
    BudgetGuard              guard, reservations, warm leases, deployments
      |-- MCBudgetGuard      instances for TLC
      `-- BudgetGuardProofs  the theorems about the guard
    SumTheorems              sums over finite sets, and the first rows of a query
                             (BudgetGuardProofs, PublicationProofs, PipelineProofs,
                             DeliveryProofs)
    PublicationEffects       intents, approvals, attempts, calls and posts
      `-- PublicationInvariant  the inductive invariants of publication
            `-- PublicationProofs  the theorems about publication
    ExternalEffect           what publication promises about a post (abstract)
    ReviewTasks              tasks, decisions, assessments, X choices
    ReleaseRendering         derivative jobs and teaser revisions
      `-- ReviewProofs       the theorems about these two
    MCPublication            extends PublicationEffects (two successive intents for
                             one target) and ReviewTasks (a review), one per behaviour
    SaladDeployments         rollout of deployment versions
    RuntimeAdmission         the container group that attempts and leases share
    WorkerRollout            replacement of the video worker of the Salad lane
      `-- RuntimeProofs      the theorems about these three
    MCRuntime                extends SaladDeployments and WorkerRollout, with an
                             instance of RuntimeAdmission, one per behaviour
    VideoJobs                image-to-video at a RunPod endpoint
    MasterIntake             uploads, their verification, collection, settlement
      `-- ServiceProofs      the theorems about these two
    MegaDelivery             delivery of a finished set
    ArchiveBuild             archive of a finished set
      `-- DeliveryProofs     the theorems about these two
    MCServices               extends VideoJobs, MasterIntake and RuntimeAdmission, with
                             instances of RuntimeAdmission (beside a lease),
                             PublicationEffects (one intent, under fairness),
                             MegaDelivery, ArchiveBuild, ReleaseRendering

### BudgetGuard

Every operation of the guard locks the provider's single guard row first
(`_require_guard_locked`), so each is one atomic action. `limit` and `blocked`
are the guard row, `spend` the ledger by dedupe key, `attempt` the three
columns the guard reads of an attempt, `desired` the wanted state of each
deployment, `lease` the latest warm lease of each. `Reason` is `_limit_reason`
with its three sums (daily spend, monthly spend, commitments), `Apply` is
`_apply_evaluation` with the kill switch. `Preflight` and `Reserve` store a
verdict that includes the proposed amount but do not engage the kill switch;
`StartLease` refuses by rolling back, so its guard has no other branch. Money
is a small integer. Attempt states are merged as far as the guard tells them
apart. The clock ticks, with days and months of a few ticks.

### GenerationState

The rows of one release: `release` (phase, health, the two stop audit markers),
`job` (state, attempt count, maximum), `att` (state, provider identity bound,
rank of the last observation, reservation, staged admission, cancellation
intent, the two absence trackers, class of the error code, grant), `ev` (the
submit event). `task` is what each submit worker holds in memory, `rec` what
the reconciler holds between its read and its transaction, `net` the provider:
POSTs sent, where the request is, and which statuses its job went through. An
attempt is the pair of its job and number, because `prepare_generation_attempt`
numbers them consecutively under the job's lock.

An error code is abstracted to its class (infrastructure, near-black, other),
except that the two cancellation intents, which the code keeps in `error_code`
on a CANCEL_REQUESTED row, are the field `cancel`. The provider's timestamps
are abstracted to the rank of the status they belong to (`Rank`): they decide
only which of two observations is older.

### SaladSubmission

- `RecoverDeadLetters`, `Dispatch`, `DispatchBlocked`: `dispatch_generation_jobs`.
  The sweep commits on its own; the dispatch prepares a whole batch or nothing
  (`Preparable`: one job that still owns an unfinished attempt makes the batch
  roll back). A batch is the first rows of the query that fit the free slots;
  retry delays are nondeterministic (`Batches`).
- `Claim`: `claim_outbox_events` with `_sweep_expired_processing` in the same
  transaction: every expired event is replayed, closed with the attempt failed,
  or closed with the attempt UNKNOWN (`SweptEv`, `SweptAtt`, `SweptJob`).
- The submit worker goes `claimed -> building -> posting -> settling`; the steps
  between are the transactions of `submit_prepared_attempt` (`FenceStale`,
  `NotYet`, `DeferAdmission`, `Reserve`, `BuildFails`, `Rearm`, `Post`, the
  three answers) and `Settle` the transition of the event
  (`_transition_submit_result`).
- `Interrupt` is every way the task ends early but alive (shutdown, timeout,
  unexpected error) and `Crash` the end of the process. What follows depends on
  whether the POST had started (`task.posted`, `provider_post_started`).
- `LeaseExpires` fires only when no worker holds the event: the settings
  validator requires the lease to outlive the submit timeout (`config.py:1345`),
  so a live worker has always been cancelled by then.

### SaladReconciler

One read and one transaction, with everything else in between. `Absent` is what
a GET or LIST may miss: a job that never arrived, one that ended (the provider
may forget it), or a request still on its way. For the last, the model assumes
that absences which count as confirmation are spaced further apart than a
request stays in flight; without that assumption no number of observations
proves anything. The code asks for three (`salad.py:118`).

`ApplyAbsence`/`ApplyInconclusive`/`DropStaleAbsence` carry the `lock_version`
fence: `rec.fresh` becomes false with every commit that bumps the version of
that attempt (`Touch`). The controller's loop keeps row locks while it reads;
the function itself does not require it, and the model does not rely on it, so
it checks more interleavings than that loop can produce. `Observe` is
`apply_salad_job_observation` with `_is_forward_transition`, the clock, the
classification of terminal statuses and the grants. `BeginStopCancel` and
`BeginWatchdogCancel` commit identity (and, for the watchdog, the intent) before
the DELETE; the DELETE and what follows are steps of their own.

### SaladWebhooks, GenerationControl

`Webhook` applies any status that the provider's job ever had, any number of
times, at any later moment: repetition, delay and reordering in one action. A
success is not believed (the attempt goes to UNKNOWN until the reconciler has
validated the output) and failures of runtime-admitted attempts are left to the
reconciler. `RequestStop` and `SettleStop` both run `CancelUnsubmitted`;
collection is claim, reschedule, fail closed and collect, with the lease of a
job being the state VERIFYING.

### GenerationPipeline and ProviderCommitment

`GenerationPipeline` adds the provider (a request lands or is lost; a job runs
and ends one way; a DELETE ends one that has not ended), the composition, and
the properties. The decision of the budget guard is nondeterministic here
(`Reserve(w, accepted)`): it is the subject of `BudgetGuard`. `UpgradeSpec`
starts also from a release whose job was dead-lettered before retry grants
existed, which is what the scheduler's recovery sweep is for.

`ProviderCommitment` is the abstract promise: commit, send, end, close, over
four sets of attempts. `KeepsCommitment` is the refinement, with `open` the held
reservations, `closed` the released ones, `sent` the attempts with a POST and
`running` those the provider may still run. It starts from any set of attempts
that were sent and closed before. A step that retried a job before its first
attempt was closed, released money for a running job, sent without a
reservation, or released twice would not be a step of it. As only open attempts
run and a job has one of them, it also says that no two attempts of a job ever
overlap at the provider.

### SaladDeployments and RuntimeAdmission

`SaladDeployments` follows `process_due_deployment`: one pass is a transaction
around calls to Salad. Each call is applied or dropped by Salad before the
controller gives it up; its answer may be lost either way, and the pass rolled
back. `queue`, `group`, `minimum` and `busy` are the provider, `row` what the database
knows of it. Which version is due first is nondeterministic. Not modelled: the
billing observations, video retirement, collisions of a name with a foreign
resource.

`RuntimeAdmission` is the path of the submit worker before the POST: an attempt
commits a plan (a fresh rollout id, the version it starts from, the manifest),
PATCHes the group, records the target it was given, is ensured the minimum and
finally admitted to a worker seen ready under that target. `Need` is what
the attempt's checkpoint and LoRAs require; a worker that has more loaded is good
enough. The warm-lease loop and the repair of the group PATCH the same group.
A PATCH whose pass rolls back is the case that the plan exists for.

### MasterIntake

The other side of collection, below the level of `GenerationPipeline`: one job and
its assets. `finalize_raw_master` is claim, inspect, promote, mark and clean, with
a step between any two of its transactions and storage calls, for three
callers: the submit worker that salvages before it grants again (`IssueGrants`,
`Salvaged`), the progressive scan (`Scan`, `Scanned`) and the collection of a
finished job (`ClaimCollection`, `Collected`, `Uncollected`). A grant stays usable
after its attempt is given up (`Upload` at any key that was ever issued).
Nothing keeps a verification shorter than its lease; the collection of a job is
shorter than its own, which the settings validator requires (`config.py:1349`).
The settlement is two steps, `CountMasters` and `Fence`, because its transaction reads
committed rows twice; rows it has locked do not move in between (`Locked`).
How attempts end is `GenerationPipeline`'s subject and nondeterministic here.

### PublicationEffects and ExternalEffect

Each action is one transaction of `publication.py` or `publication_runtime.py`, or
one call of the provider. `calls` holds the irreversible calls that may still take
effect, also after the controller that made them has died, and `posts` what
exists at the provider. `ReconcilePresent` and `ReconcileAbsent` are the operator's
evidence about an unknown outcome: presence is only asserted of a post that
exists; absence when none exists at that moment, which is what an operator can
see, and a call still on its way may land later (`absents` counts these).
`ExternalEffect` is the abstract promise about one effect: begun under authority,
never begun while an earlier try is in doubt, never after it is done;
`KeepsPromise` shows that both modules together implement it for the target,
whichever of several intents acts. Queue times are reached at any moment.
On X a step that has begun may end before its request is marked as started
(`NoRequest`): in a retry, FAILED or, if a post was to be created and the error is of no
known kind, UNKNOWN. Such a row needs an operator like any other, but nothing was
sent, and for `ExternalEffect` it is clear.

### MegaDelivery, ArchiveBuild, ReleaseRendering

`MegaDelivery`: MEGA keeps duplicate names and knows no transactions; an upload
whose answer is lost has put any part of its batch into the folder. A mega-put
is killed with its cycle and lands nothing after its claim was given up, which
the lease being longer than the timeout ensures (`config.py:1369`); `stalls` is the
exception, a controller suspended for longer than its lease, and is excluded
where the property says so. `ArchiveBuild`: parts are written if absent or adopted
if identical; `Redeploy` is another release of the program that renders the set
differently. `ReleaseRendering`: the leased derivative job and the triggers and
functions that move the release and the teaser revisions. Starting and loading a
job are one step, the output is not modelled, the phases PUBLISHING and PUBLISHED are set
nowhere in the code, and `cancel_derivative_job` has no caller.

### ReviewTasks

A session sees a task (`Look`) and sends one command with the lock version of that
page; every command is one transaction under the task's lock, so it is one action
that is refused unless `Fresh`. `Complete` is `_transition_review_task` with the gate,
the freeze and the trigger that approves the release; it takes the release's lock,
on which the tasks of two runs meet. Setting one X choice needs the version but
leaves it, and stays possible after completion until teasers exist. Their preparation
is two steps, `ReadChoices` and `Prepare`, because the request reads the choices
before it locks the task. The assessors are the leased cycle of
`semantic_anatomy.py`; they share rows with the review, but no lock. `signed` is a ghost:
what the page behind the completion showed as accepted. A hold and a rejection are
one decision, because both keep the image out.

### VideoJobs

The RunPod serverless lane of one video: attempts, ambiguous submissions, the
worker's claim callback that binds or refuses it (`Accepts`), cancellation, and
every timeout as one flag `late` for the deadline that is running. `world` is the
one extra thing a behaviour may meet: a controller of the previous release that
leaves, a provider that forgets jobs, or an outage longer than a lease. The
cancel call and the record of it are one step, with `Aborts` for the crash
between them; the provider's TIMED_OUT and CANCELLED are FAILED. The on-demand Pod
client and the Salad lane are not modelled.

### WorkerRollout

The only part of the system that is a program and a script together. The script
freezes the queue by restarting the control plane with another profile, runs the
program for the operation, and on any failure its EXIT trap freezes again, rolls
back what was announced and resumes. `env` is the installed profile, `serving` the
one of the control plane that answers (none while it is down), `op` the memory of
the operation: `at` its next step, `runs` which of three the step belongs to (the
operation itself, the program's own recovery in its exception handler, the trap),
`marker` the announcement of a change, `diag` the note of a target that did not
settle, `saved` the `ProviderRollbackState`. `dirs` are the directories of failed
operations, `active` the bundle of the last promotion. Any check, call or wait may
fail (`Failing`), any call may be applied and its answer lost (`Calls`), the program
may be killed with its time over (`Killed`), and the host may restart
(`HostRestarts`). `Converge`, `Boot` and `Halt` are the provider; `Claim` to `WarmStart`
are the runtime of the lane (`i2v_runtime.py`), which acts while the queue is open.

Abstractions: the worker's environment and readiness probe travel with its image;
a change is accepted or lost when it is asked for, and takes effect later; the
queue lock of the zero-work guards is left out, which allows more interleavings;
credentials may be refreshed more often before a start than the runtime's flag
`_runtime_prepared` lets it; a promotion is to another image than the present; the
second restart that the trap tries is part of the first one's outcome.

### MCServices and MCRuntime

The models above share no state, so several share one run: the rigid variable
`service` says to which a behaviour belongs (`MCPublication` does the same for
publication and review). Such a module EXTENDS the components whose properties it
checks by their own names, which are those the theorems are about, and takes an
INSTANCE of the others. The variables of the components that a behaviour does not
belong to keep their initial values. A property of an instance is checked where
`service` is that one. `LeasedWorkEnds` is the progress property of six services at once
(`Waits ~> Over`), and a fairness condition of `MCFairSpec` stands for one condition
of each service: as no behaviour has steps of two of them, both are equivalent to
one formula per service. Those of `MCRuntime` are about the variables of deployments and
admission only (`rt`), which changes nothing either and keeps TLC's graph small.

## 3. Runs

TLC explores the whole state space of each run. The symmetry of controllers and of
intents is used in `publication`, which asks nothing about liveness. Deadlock is not
checked because a finished release really stops: its stop is settled or its
masters are collected, and the clock of `BudgetGuard` reaches its bound.

| Run | Instance | Properties | Question |
|---|---|---|---|
| `budget` | 2 attempts, 1 deployment, 1 segment, limits 3/4 and 2/3, amounts 1 and 3, clock to 2 | `TypeOK`, `OverLimitIsFenced`, `ReservationFollowsOutcome`, `AdmissionFits`, `ReleasedForGood`, `ExhaustedBudgetStops` | does any order of reservations, leases, usage, limit changes and time get past the limits, and is what they forbid stopped? |
| `submission` | 1 job, 1 attempt, 2 workers, 2 event tries, 2 confirmations, every final status, `FairSpec` | `TypeOK`, `AtMostOnePost`, `NoOrphan`, `SubmittingIsOwned`, `OutputsAreReal`, `StopFencesSubmission`, `StopSettles`, `ReservationsEnd` | what can go wrong with one attempt, and does everything that starts end? |
| `retries` | 1 job with 2 attempts, of which it may have one or both at first; one grant, of either kind; 1 worker, near-black and other failures, with or without an earlier dead letter | `StoppedIsQuiet`, `NothingIsStranded`, `KeepsCommitment`, `EndedJobsStay` | do attempts overlap or outlive the stop, do the grants keep a job alive that should be, and no other? |
| `backlog` | 2 jobs, 1 slot, 1 worker | `BacklogBounded`, `ReviewIsComplete` | is the backlog limit kept, is the release complete at review? |
| `publication` | 2 intents, 2 controllers, both targets, 2 claims; 2 masters, 2 runs, 2 sessions, 2 assessors | `RowsWellFormed`, `PostsAccounted`, `OneAttemptAtATime`, `StatesAreTrue`, `KeepsPromise`, `ApprovedAsReviewed`, `TeasersMatchChoices` | is every post accounted for, whatever is withdrawn, lost or recovered; is what is approved and prepared what was reviewed and chosen? |
| `services` | see Bounds, `MCFairSpec` | `RowsWellFormed`, `AdmittedWorkSurvives`, `RowsMatchFacts`, `UploadsAreKept`, `OneExecution`, `MastersAreFinal`, `LeasedWorkEnds` | do leased services keep true records, and end, whatever becomes of controllers? |
| `runtime` | 2 versions; 2 attempts; 3 worker images; `MCFairSpec` | `RowsWellFormed`, `StoppedIsQuiet`, `RolloutKeepsService`, `CreatesAfterStops`, `StopsEventually`, `EveryAttemptIsServed` | does capacity stop when it should, does the shared worker serve everybody, does replacing the video worker keep its lane? |
| `watchdog_intent` | 1 job, 1 attempt, 1 worker | `WatchdogIntentIsDurable` | finding 1 |
| `rollouts_overlap` | 2 versions | `RolloutsDoNotOverlap` | finding 2 |
| `staged_work_leases` | 1 attempt beside a warm lease | `StagedWorkSurvivesLeases` | finding 3 |
| `missing_video_job` | 1 video, `FairSpec` | `MissingJobFails` | finding 4 |
| `settled_count` | 1 job with 1 output, 2 controllers | `FrozenSetIsCounted` | finding 5 |

### Bounds

- *One job* is enough for everything that concerns attempts of one job: no
  action reads another job's rows except the backlog count, the batch of a
  dispatch, the stop and the last collection. Those have the run `backlog`.
- *Two workers* (run `submission`): a second worker matters as the one that finds
  what the first left behind, or that claims while the first is in flight. The runs
  `retries` and `backlog` ask about jobs and have one worker, whose successive
  claims meet what its crashes left; that workers do not disturb each other is
  proved for any number of them.
- *Two attempts* (`AttemptLimit`, 10 in the code) are a first and its retry, or a first
  and the attempt it is granted; what matters is whether they overlap. A job created
  with a maximum of 1 (`InitialLimits`) is granted its second attempt by the submit
  loop, the reconciler or the inbox, one that was dead-lettered by the sweep. Only
  one grant fits below the limit: two to one job, of the same or of both kinds, are
  covered by the theorems alone.
- *Event tries* (`EventTries`): two give a first claim and a reclaim; with one,
  the exhausted event is reached at once.
- *Confirmations* (3 in the code): two are a count that is incomplete and one
  that is complete, and a reset in between. The runs with one confirmation ask
  questions for which the count does not matter.
- *Limits and amounts* of the budget are chosen so that a reservation, a lease
  and a segment fit one by one and not together, so that lowering the limits
  exceeds them, and so that the clock crosses a day and a month boundary.
- *Final statuses* are restricted where the run does not ask about them, and
  complete in `submission`.
- *Two controllers* in every service, interchangeable: one loses its lease, the
  other takes over.
- *Deployments*: two versions are one rollover; the older may have demand. The
  budget may be exhausted or the allocation withdrawn, not both in one behaviour:
  either forbids work in the same places.
- *Admission*: three attempts of which one needs what each of the others needs;
  three rollouts, so that a plan can be overtaken and made again; versions up to
  3 for repairs and restarts. Two attempts beside a lease.
- *Publication*: two claims exhaust an attempt. `MCPublication` has two intents that
  succeed each other, both targets, and the guard, which changes around the first
  attempt; one attempt is claimed twice (`ClaimBounds`). Withdrawals of the release
  and of an approval are in the instance with one intent for X in `MCServices`, which
  also retries steps.
- *Review*: two masters and two runs, in three cases (`Scenarios`), limited by `ReviewBounds`. Two sessions
  share a task up to lock version 4 (two commands before the completion), which is
  not cancelled; two assessors with two attempts share its masters (a takeover, an
  exhausted lease, late results) beside one session that chooses nothing for X; two
  sessions complete the tasks of two runs. One image for X instead of 4.
- *MEGA*: three images in two batches and two archive parts: a batch that is
  partly uploaded, a part that ends inside a batch. *Archives*: two parts, two
  manifests, two attempts. *Rendering*: one full-size output, one teaser, two
  revisions, one retry by the owner. *Video*: two attempts, two requests.
- *Worker rollout*: three images, of which the first has no LoRA capability; four
  changes of the group (a promotion, its reversal, and another or a refresh of
  credentials around them); one directory of a failed operation. With five changes
  and two directories (1.1 million states) the property holds as well.
- *Intake*: one output, one image that verifies and one that does not, two staging
  keys (a job whose master was saved is granted once more; `OutOfKeys` ends the
  behaviour that would need a third): by one collector beside the builder, under
  fairness, or by two collectors without, whose uploads verify (`collectors`). Outputs
  meet only in the counts of the collection and the settlement.

Every property has a mutant in `PROJECT.json`: a version of a definition with a
plausible bug in the code it models, under which TLC finds the property violated
by the same instance. Each stands before the definition it changes, marked
"Mutant", and is used nowhere else.

### Fairness

`FairSpec` assumes what the controller's scheduling gives: every loop runs
again and again, so a submit worker that can step does (`WF` on
`Submission(w)`), a read is applied, a settlement and a collection are tried,
an expired lease is noticed. The reconcile loop takes attempts in the order of
`last_observed_at` (`runtime.py:1809`), so no attempt is passed over forever
although each read occupies the loop: `SF` on `ReadProvider`. The provider
delivers or loses a request and ends what it runs. Faults (crash, timeout,
failed read or DELETE, missing masters) may happen any number of times but not
forever: `<>[][~Fault]_vars`; with a fault at every step no system settles. A
late callback counts as a fault because each one outdates the reconciler's
read: the code cannot progress against an endless stream of them.
`WF_vars(SettleStop /\ release'.stopped)` says that masters are not
"recoverable" forever: the stop's salvage uploads, quarantines or retires every
asset intent that holds the settlement back, also one whose object never came
(`_quarantine_terminal_missing_stop_asset`, `services/collection.py:435`).

`BudgetGuard` assumes weak fairness of `EnsureBudgetGuard` only: `budget_once`
is a loop of its own, whatever the others do.

The services assume weak fairness of each controller's cycle, which is a loop
that runs forever, and of the expiry of leases, which is time passing. Nothing
is assumed of operators, owners and reviewers. In particular:

- `SaladDeployments`: strong fairness of the pass that confirms a stop, and of the one
  that requests the stop of a running group, because a pass may be rolled back any
  number of times but not always; a group that is told to stop does, and its
  instances end with it.
- `RuntimeAdmission`: strong fairness of the claim that moves an attempt on, for the
  same reason; what is in flight ends.
- `VideoJobs`: faults (an aborted pass, a refusal for too many requests) are not
  forever. RunPod stops what it was asked to stop and need not start or end
  anything else. Fairness of `GraceElapses` only says that the grace passes if
  nobody looks, which a controller that looks every 2 s prevents.
- `MasterIntake`: crashes, an object store that does not answer and leases that run
  out under a live verification are not forever. After a stop the attempt ends
  (`StoppedAttemptEnds`), which is what `StopSettles` of the pipeline shows.

## 4. Proofs

| Theorem | Module | Statement |
|---|---|---|
| `Typing` | `PipelineProofs` | `Spec => []TypeOK` |
| `OnePostPerAttempt` | `PipelineProofs` | `Spec => []AtMostOnePost` |
| `RowsAgree` | `PipelineProofs` | `UpgradeSpec => []CInv`, the invariant of the next nine |
| `NothingIsOrphaned` | `PipelineProofs` | `UpgradeSpec => []NoOrphan` |
| `NothingStranded` | `PipelineProofs` | `UpgradeSpec => []NothingIsStranded` |
| `SubmissionsAreOwned` | `PipelineProofs` | `UpgradeSpec => []SubmittingIsOwned` |
| `OutputsExist` | `PipelineProofs` | `UpgradeSpec => []OutputsAreReal` |
| `StopIsQuiet` | `PipelineProofs` | `UpgradeSpec => []StoppedIsQuiet` |
| `ReviewsAreComplete` | `PipelineProofs` | `UpgradeSpec => []ReviewIsComplete` |
| `BacklogKept` | `PipelineProofs` | `UpgradeSpec => []BacklogBounded` |
| `StopFences` | `PipelineProofs` | `UpgradeSpec => StopFencesSubmission` (steps) |
| `EndedJobsStayEnded` | `PipelineProofs` | `UpgradeSpec => EndedJobsStay` (steps) |
| `CommitmentKept` | `PipelineProofs` | `UpgradeSpec => KeepsCommitment` (refinement) |
| `ReservationCorrect` | `BudgetGuardProofs` | `Spec => []ReservationFollowsOutcome` |
| `Typing` | `BudgetGuardProofs` | `Spec => []TypeOK` |
| `ReleaseIsFinal` | `BudgetGuardProofs` | `Spec => ReleasedForGood` (steps) |
| `AdmissionsFit` | `BudgetGuardProofs` | `Spec => AdmissionFits` (steps) |
| `KillSwitch` | `BudgetGuardProofs` | `Spec => []OverLimitIsFenced` |
| `Inductive` | `PublicationProofs` | `Spec => []PInv`, the invariant of the next three |
| `OneAttempt` | `PublicationProofs` | `Spec => []OneAttemptAtATime` |
| `StatesTrue` | `PublicationProofs` | `Spec => []StatesAreTrue` |
| `PromiseKept` | `PublicationProofs` | `Spec => KeepsPromise` (refinement) |
| `EachPostCounted` | `PublicationProofs` | `Spec => []AInv`, the invariant of the next one |
| `PostsCounted` | `PublicationProofs` | `Spec => []PostsAccounted` |
| `WithinLimits` | `PublicationProofs` | `Spec => []LInv`, the invariant of the next one |
| `PublicationTyping` | `PublicationProofs` | `Spec => []TypeOK` |
| `ReviewsAgree` | `ReviewProofs` | `ReviewSpec => []RInv`, the invariant of the next three |
| `Typing` | `ReviewProofs` | `ReviewSpec => []ReviewTypeOK` |
| `ApprovalHolds` | `ReviewProofs` | `ReviewSpec => []ApprovedAsReviewed` |
| `TeasersAreChosen` | `ReviewProofs` | `ReviewSpec => []TeasersMatchChoices` |
| `RenderingAgrees` | `ReviewProofs` | `Spec => []GInv`, the invariant of the next three |
| `RenderingTyping` | `ReviewProofs` | `Spec => []TypeOK` |
| `PhaseIsExact` | `ReviewProofs` | `Spec => []RenderingIsExact` |
| `PostsAreActive` | `ReviewProofs` | `Spec => []PostedTeasersAreActive` |
| `VideosAgree` | `ServiceProofs` | `Spec => []VInv`, the invariant of the next two |
| `VideoTyping` | `ServiceProofs` | `Spec => []TypeOK` |
| `ExecutionIsUnique` | `ServiceProofs` | `Spec => []OneExecution` |
| `DeploymentsAgree` | `RuntimeProofs` | `Spec => []DInv`, the invariant of the next three |
| `Typing` | `RuntimeProofs` | `Spec => []TypeOK` |
| `StopsAreQuiet` | `RuntimeProofs` | `Spec => []StoppedIsQuiet` |
| `CreatesBesideQuiet` | `RuntimeProofs` | `Spec => CreatesAfterStops` (steps) |
| `AdmissionsAgree` | `RuntimeProofs` | `AdmissionSpec => []WInv`, the invariant of the next two |
| `AdmissionTyping` | `RuntimeProofs` | `AdmissionSpec => []AdmissionTypeOK` |
| `AdmittedWork` | `RuntimeProofs` | `AdmissionSpec => []AdmittedWorkSurvives` |
| `RolloutsAgree` | `RuntimeProofs` | `RolloutSpec => []LInv`, the invariant of the next two |
| `RolloutTyping` | `RuntimeProofs` | `RolloutSpec => []RolloutTypeOK` |
| `ServiceKept` | `RuntimeProofs` | `RolloutSpec => []RolloutKeepsService` |
| `DeliveriesAgree` | `DeliveryProofs` | `Spec => []FInv`, the invariant of the next two |
| `DeliveryTyping` | `DeliveryProofs` | `Spec => []TypeOK` |
| `FolderMirrors` | `DeliveryProofs` | `Spec => []RemoteMirrorsItems` |
| `ArchivesAgree` | `DeliveryProofs` | `ArchiveSpec => []BInv`, the invariant of the next one |
| `ArchivesAreWhole` | `DeliveryProofs` | `ArchiveSpec => []ArchiveTypeOK` |
| `IntakeAgrees` | `ServiceProofs` | `IntakeSpec => []MInv`, the invariant of the next three |
| `IntakeTyping` | `ServiceProofs` | `IntakeSpec => []IntakeTypeOK` |
| `UploadsKept` | `ServiceProofs` | `IntakeSpec => []UploadsAreKept` |
| `FinalMasters` | `ServiceProofs` | `IntakeSpec => MastersAreFinal` (steps) |

They hold for every value of the constants that satisfies the assumptions, which TLC
evaluates in every run:

- `GenerationAssumption`: any finite set of jobs (numbers), any workers, limits,
  retry grants, event tries, confirmations and final statuses;
- `BudgetAssumption`: any finite sets of attempts, deployments and segments, any
  amounts, limits (the daily one not above the monthly one, as `_validate_limits` requires,
  `budgets.py:819`) and lengths of days and months;
- `PublicationAssumption`: any finite set of intents, any controllers, any number of
  claims, step retries, attempts and changes from outside;
- `IntakeAssumption`: any finite set of outputs, of which 1 is one, any images and
  controllers beside the builder, any positive number of staging keys;
- `AdmissionAssumption`: any attempts, artifacts and leases; the bounds are numbers;
- `RolloutAssumption`: any worker images, legacy or not, of which one serves at the start;
  the bounds are numbers.

Where a module declares no assumption, or a theorem needs more, it is a hypothesis of the theorem:
`Sized` (a run ranks finitely many masters, "unassigned" is no assessor, the bounds are
numbers), `RenderingBounds` (a completed review accepted an image, `review.py:1187`; a new
job may be tried; the bounds are numbers), `PublicationBounds`, `DeliveryBounds` and `ArchiveBounds` ("nobody" is
no controller, "none" is no manifest, the bounds are numbers) and `Bounded` (the bounds of
a video are numbers). Those about deployments need nothing: they hold for any set of versions.

Jobs, attempts, deployments, segments, masters, outputs and intents are finite because they are rows of
tables; the finiteness is used where the code counts or sums them.
`UpgradeSpec` is implied by `Spec`: it starts from a new release or from one that was
dead-lettered before retry grants existed, which `NothingIsStranded` is
mostly about.

**Typing and one POST.** Neither is inductive. `IInv` (`PipelineInvariant`) adds

- `Ownership`: a worker that is not idle owns the PROCESSING, unexpired event of
  its attempt, and no other worker has the same attempt. This is why two
  workers never POST the same attempt: a claim takes an event only when it is
  PENDING, and only its owner's deferral, or a sweep of an *expired* lease,
  makes a PROCESSING one PENDING again. It also keeps `tries` positive where a deferral gives a try
  back, so that the count stays in its type.
- `Existence`: no attempt beyond the job's count exists, a nonexistent one has
  no claimable event and no identity, and the reconciler holds a real one. So a
  dispatch creates a row on fresh ground.
- `Room`: counts stay below their caps by what the next step adds. An absence
  count that reached the confirmations would have resolved the attempt; a job's
  count never passes its maximum, nor that the hard cap.
- `Unsent`: an attempt that is not yet submitted has no POST, and a worker that
  is about to POST holds an attempt that is past CREATED and has none. This is
  the heart of `AtMostOnePost`: the only step that posts finds zero, and the
  only ways back to CREATED (`Rearm`, and a replay or deferral of the event,
  which need the attempt to be CREATED) are closed once `Post` has happened.

The proof goes action by action. `PipelineInvariant` holds the lemmas about
rows: what an update of one attempt, or a move of jobs (`RowMoves`, `JobMoves`,
`RowsForward`), leaves intact. The first part of `PipelineProofs` shows that the reconciler,
the callbacks, the provider, the stop and collection move rows forward and touch
neither events nor workers; the second does the scheduler, the claim with
its sweep, and the worker, where each part of `IInv` is at stake.

**Rows, memory and the provider.** The other safety properties of the pipeline say
that four places agree: the rows, what a submit worker and the reconciler hold
between two transactions, and Salad. `CInv` is `IInv` and three groups:

- `RowsFit`: an attempt's row follows its reservation and the provider (`RowFits`:
  what may still run is open and reserved, what is reserved is open, success is
  the provider's); only the latest attempt of a job that has not ended is open
  (`OpenIsCurrent`); a collected job has a succeeded attempt; a settled stop
  leaves nothing open; and every job is `Backed`: its state names a row that
  somebody still handles, or a retry it may have.
- `WorkersFit`: between the reservation and the provider's answer the row is
  SUBMITTING, before and after it is not; nothing but the owner, or the sweep
  after its lease, takes it out of that state.
- `ReadingFits`: what the reconciler read is still true when it is applied. A status
  is in the provider's history. An absence that no commit has outdated is not the
  last one needed, unless the job is really gone: this is where the lock version
  and the count of confirmations earn their keep, and without it `NoOrphan` is
  not inductive.

Most actions change one attempt and its job and only *advance* them (`StateStep`,
`JobStep`: an ended attempt stays ended, a reservation is only released, a job ends
with its attempts). `AllAdvance` is shown once per action, and what follows from it
(`OpenStays`, `StopStays`, `ReviewStays`, `WorkersKept`, `ReadingKept`) once for all.
Three actions open an attempt instead (`Dispatch`, `Reserve`, `Rearm`) and have proofs of
their own. `NextKeeps` collects what every step does, the action properties among it.
For `CommitmentKept` it says of each step which attempt's money it moves
(`MoneyStep`: at most one, in one of five ways); each way is a step of
`ProviderCommitment`. `BacklogKept` counts all open attempts, which the attempts in
flight are part of: only a dispatch opens any, at a moment when the two are the same
set, and its batch is no longer than the free slots because the number of earlier
rows maps it one-to-one into an interval (`AtMostTheLimit`).

**Reservations and limits.** `ReservationInv` adds to the property that an attempt which is
still CREATED has neither cost nor release: otherwise a second reservation after
a rearm would start from a released row and count for nothing. `FenceInv` adds
`EntriesPast` to `OverLimitIsFenced`: no metered entry lies in the future, so a tick of the
clock can only drop entries from the day and the month, and an operation that does not
evaluate can only lower what is committed. Both speak of sums over sets.
`SumTheorems` derives what they need from the definition of `SumFunctionOnSet` in the
community modules, without the library's induction theorems, which take a predicate as
a parameter: the subsets of a finite set are well founded, so if a sum had not the
property there would be a smallest subset without it (`WFMin`, `SmallestFailure`).

**Publication.** `PInv` (`PublicationInvariant`) relates the rows of an intent (`RowOK`, `Fits`,
`History`), its posts and calls (`Truthful`), the intents of one target (`OneOwner`) and the
controllers (`Knows`). The controllers are the difficulty: one that was suspended still
holds a snapshot of an attempt that others have recovered, reconciled or replaced.
`Knows` says what it may rely on while the lease is its own, and nothing otherwise; every
write it makes then is fenced by the lease. A post or a call on its way is known to the
rows, as in doubt or done, unless the operator vouched for an absence (`absents`): this
is what makes "nothing was posted" true in every other state. `PromiseKept` maps the rows to
`clear`, `inDoubt` and `done`; only `StartRequest` brings a doubt, under authority and
with no doubt before it, and nothing takes a PUBLISHED intent back.

`PostsAccounted` bounds the posts of a whole target by 1 and the absences that operators
vouched for, over all its intents. `AInv` (`PublicationInvariant`) counts per intent: its
posts and the calls that may still post (`Load`) are at most its absences, plus one while
it `Spends` the target's one post, which is while it is PUBLISHED, was posted by hand,
or has a request in doubt. Calls are counted before they post, because a request whose
outcome an operator rules out may still post afterwards. When a controller is about to
record that a request posted nothing, the load has been vouched for (`RulesOut`): the
answer it acts on is the end of its own call. Each step lightens the load of an intent,
commits it (`Commits`: only a request that starts without doubt) or posts by hand.
By `OneOwner` at most one intent spends, so the sum over the intents exceeds that of the
absences by at most one.

`PublicationTyping` says that the rows stay in their bounds. The bound of a lock_version
is one for all intents together, as each decision spends a version: `LInv`
(`PublicationInvariant`) bounds their sum, and an approval by the version of its intent
(`Decisions`). Of an attempt it says that it is claimed at most `max_attempts` times, its
steps are retried within theirs, and it has a lease owner exactly while it runs
(`Tight`), so that no ended attempt is left with a lease.

**Reviews.** A command is refused unless the page it comes from is fresh, and the
properties are about what pages showed: `RInv` adds to them that a page which still has
the task's version shows what the task accepts (`PagesFit`), so that what is signed is
what is frozen; that one task is completed exactly when the release is approved
(`OneApproval`), because the completion of the second of two runs finds the phase moved;
that a completed task keeps what it froze and its gate stays open, although assessments
go on (`FrozenFits`); and that no teaser exists before completion (`TeasersFit`), which makes
the choices that were read too early harmless.

**Rendering.** `RenderingIsExact` relates a phase that is moved by the ends of jobs, by the
activation and the drop of revisions and by retries to what the release still waits for.
`GInv` adds `GatesFit`: full-size jobs gate, whatever teasers exist, and a revision that
would replace an active one does not gate, because the release was ready before it was
asked for. So a drop leaves the phase right in both cases: a replacement was not waited
for, and with a first revision the release goes on to wait for its full-size jobs alone.
`PostedTeasersAreActive` is needed for that: activation takes the last revision's rendered
teasers, and a job that is done stays done (`MovesKeep`).

**Videos.** Several provider jobs may run for one attempt, as each lost answer leaves one
behind. `VInv` says that at most one of them was let in, the row names it, and a job
completes only if it was let in (`PodsFit`); and, like `Knows` of publication, what a cycle may
rely on of an attempt it read before others ended it (`Knows`): it knows no other provider
job of the latest attempt than the row, so that a success is recorded of that one.

**Deployments.** `StoppedIsQuiet` is nearly inductive. `DInv` adds that a stop is final and
recorded where it is confirmed (`RowFits`) and that one version is current (`OneCurrent`). The
difficulty is in the passes, each of which is a transaction around calls that may be
applied or dropped, answered or not, and rolled back or committed: the proof states
what a pass may commit (`Marked`, `Asked`, and that it records only what exists) apart from
what a call may do, and puts the two together. `CreatesBesideQuiet` says of the query behind
`salad_deployments.py:1460` what finding 2 leaves of it.

**Admission.** `AdmittedWorkSurvives` says that the group still runs what a job in flight
was admitted to and, without leases, that whatever was staged fits the group. `WInv` adds
what keeps the PATCHes of several attempts apart: rollout ids and versions only grow and bound
those on rows (`RowsHold`); all plans in force are the same plan, and until it is
carried out nothing has a target or is in flight (`PlansFit`). The last is why two
attempts never restart the group under each other. Attempts may be infinitely many,
so the newest of the staged targets (`Coalesced`) exists because their versions are
bounded (`NewestTarget`). With leases the plans do not survive, which is finding 3.

**Worker rollouts.** `RolloutKeepsService` has to hold wherever an operation is cut off:
by a lost answer, a kill, a profile that does not come up, or a restart of the host into
the profile that was installed last. `LInv` therefore speaks of the installed profile
together with the served one (`WorkerFits`): whichever opens the queue fits the group,
present and to come. `StepFits` says what holds at each step, above all that the group is
changed only under a frozen profile, behind a marker and with nothing at work
(`FrozenSteps`, `QuietSteps`); `OpFits` and `SavedFit` that the record to come back to covers
the group and every profile the operation may install. The difficulty is what earlier
operations left. A directory whose target did not settle may be recovered much later, by
an operation that then restores its original profile: it must not meet a queue that
others have opened meanwhile. `DirsFit` says that while such a directory could still be
recovered, because no other change of the group followed its own (`Awaiting`), the queue
is closed, nothing is promoted and no operation resumes an open profile; `BundlesFit` is
the counterpart for the active bundle.

**Uploads.** `UploadsAreKept` says that no upload of an unfinished output is at a key nobody
looks at. It rests on the retry that salvages before it grants again: until an output has
its master its row names key 1, and all its uploads are at keys the row named
(`OutputFits`). `ActorFits` is what a controller holds between two steps of a
verification, with the key and image it claimed. `MastersAreFinal` is shown with it, step
by step (`StaysFinal`).

**Deliveries.** MEGA has no transactions, so `RemoteMirrorsItems` rests on what a cycle may
assume of the last one. `FInv` says that a controller at work has the claim and its lease,
so that it is alone unless one was suspended (`WorkFits`), that it uploads only when
everything in the folder is recorded, and that therefore what a lost upload leaves behind
is at most one batch. This matters because a listing is adopted one batch at a time: were
there more, `Pick` could upload a file again that a later listing would have adopted.
That an item recorded as delivered is in the folder needs none of this, and holds of
suspended controllers, too (`StageFits`).

**Archives.** The parts of `ArchiveTypeOK` that are more than shapes say that a READY
archive is whole. `BInv` adds that an object is written before its part is registered, also
by a controller that has lost its claim meanwhile (`BuilderFits`): no object is ever
replaced, since another plan is refused where one was written.

`IInv`, `CInv`, `PInv`, `AInv`, `RInv`, `GInv`, `VInv`, `DInv`, `WInv`, both `LInv`, `FInv`, `BInv`
and `MInv` were first checked by TLC
as invariants of the runs' instances, so that a proof was only attempted of what holds there.

Only model-checked: liveness (`StopSettles`, `ReservationsEnd`, `ExhaustedBudgetStops`,
`LeasedWorkEnds`, `StopsEventually`, `EveryAttemptIsServed`), because liveness under fairness and
`ENABLED` are outside what the prover handles. Of safety, what is left to TLC is only how
the runs put modules side by side: `RowsMatchFacts` and `RowsWellFormed` say of each behaviour
what its service promises, and each of their parts is a theorem of that service's module
(`RemoteMirrorsItems`, `RenderingIsExact` and `PostedTeasersAreActive`, the lease part of
`AdmittedWork`, and the typing theorems).

## 5. Findings

1. **The watchdog's intent is not durable** (`watchdog_intent`).
   `services/salad.py:3112` says of the commit before the watchdog's DELETE:
   "Persist the exact provider identity and retry intent before DELETE. A crash
   after this commit is reconciled as an infrastructure retry, never as an
   unclassified provider cancellation." The intent is the attempt's `error_code`. When
   the DELETE is interrupted and the next read fails,
   `_note_reconciliation_error` (line 3897) overwrites that code on the
   CANCEL_REQUESTED row. After that `_mark_watchdog_cancel_requested` refuses
   the row, so the DELETE is not issued again, and a cancellation that did take
   effect is classified as the provider's own. `_note_watchdog_cancel_error`
   takes care not to do this.
2. **Rollouts overlap** (`rollouts_overlap`). `services/salad_deployments.py:1490`
   tells the operator "Provisioning waits until every superseded provider group
   is confirmed stopped." The query behind it (line 1460) sees only superseded
   versions with a recorded group id. When the answer to a group's create is
   lost, the group runs without an id; its version is superseded and the next
   group is created beside it. `CreatesAfterStops` is what does hold: groups that
   are recorded do not overlap.
3. **Staged work does not survive warm leases** (`staged_work_leases`).
   `controller/runtime.py:2602` calls a pending target "durable min=1 demand" that the
   next claim carries on. The warm-lease loop (line 1520) asks only whether an
   attempt is in flight, not whether one is staged, and refreshes the group to a
   rollout of its own: the staged target names a rollout the group no longer
   has. Without warm leases staged work survives
   (`AdmittedWorkSurvives`, run `services`).
4. **A missing video job never fails** (`missing_video_job`).
   `tests/test_i2v_runpod_runtime.py:580` says that a bound provider job which RunPod
   no longer knows fails its attempt after a short grace. The code writes the
   time of absence again at every look (`i2v_runpod_runtime.py:336`), so the grace of
   5 minutes is counted from the last look, 2 s ago. The attempt stays active,
   and as the cycle advances the first active attempt only, no other video is
   made until the owner cancels. (`LeasedWorkEnds` holds for a video because it
   lets the grace pass when nobody looks.)
5. **The settlement counts too early** (`settled_count`).
   `settle_stopped_generation_once` counts the available images
   (`generation_control.py:314`) before it asks whether an upload is being verified
   (line 330), in a transaction that reads committed rows and locks no asset.
   An image that another controller makes available in between is in neither:
   the release is settled one image short, or cancelled with an image.
   `collection.py:384` and the comment at `generation_control.py:337` say why it must
   not. One controller alone settles and collects in turn and is not affected.

Observations that are not findings: the branch of `submit_prepared_attempt` that
resumes a SUBMITTING attempt (`salad.py:1293`) cannot be reached by a worker,
because such an attempt never has a claimable event (`SubmittingIsOwned`); and the
recovery sweep only ever acts on rows older than the grants, because no path
makes a BLOCKED release retryable again once its generation has begun, so that without
`HistoricalInit` its action never fires.
`docs/data-model.md:153` says "retry exhausted -> FAILED" where `_retry_or_fail` chooses
DEAD_LETTER, deliberately: the recovery sweep looks at DEAD_LETTER only.
`semantic_anatomy.py:54` leaves SKIPPED scores out of the rankable ones, so the review of
a manual run gets no assessments; one that is still open when semantic checks are
switched on to be enforced cannot be completed, which is the safe side.
`recover_expired_i2v_jobs` is not called in the RunPod lane, so a job lease that
expires in an outage of more than a day refuses every later transition of its
attempt. Acknowledging the cancellation of an unbound video attempt, or failing
an unresolved one, may race its worker's bind, which leaves an execution running
for an ended attempt until it is reaped. Two controllers may both POST a
prepared video attempt; the bind lets one worker in. And an upload that lands
after `_quarantine_terminal_missing_stop_asset` looked for it is given up.
`--recover-inflight` cannot be resumed once its change of the group was applied: the
comment at `rollout-i2v-lora-worker.sh:698` lets an interrupted recovery select the same
directory again, which only works before that. A host restart between a
promotion's change and its bundle leaves the lane frozen and `--rollback` without
its bundle; `ChangeIsRecorded` shows that the directory with the way back is still
there.

## 6. Not modelled

Within the modelled components: the rollover of a deployment's attempts and the
absence it proves; turnover of a runtime instance (the third kind of grant); more
than one provider job for one attempt, and a job that goes back from running to
pending; the repairs of rows written by earlier versions; topics of the outbox
other than submission; the receipt of a webhook (lease, retries, signature); the
extension and the duration of a warm lease; the billing observations of
deployments; the identity of a collection lease in `GenerationPipeline` (each
of its outcomes is refused once the lease has been taken over; `MasterIntake` has
it); the on-demand client and the Salad lane of image-to-video, except for what a
rollout meets of it; the switch of the public LoRA profile
(`configure-i2v-lora-profile.sh`); the registration of
derivative outputs; inspections and idempotency records of a review, and semantic
checks that are off or only advise. Numbers are not bounded by their column width: the code
uses Python integers and 64-bit columns, and the amounts are far below.

The other parts of the system are listed in section 1 and, with reasons, in
`PROJECT.json`.

## 7. Plan

Done, in this order: `BudgetGuard`; `GenerationState`, `SaladSubmission`,
`SaladReconciler`, `SaladWebhooks`, `GenerationControl`, `GenerationPipeline`,
`ProviderCommitment`; the first three theorems; `PublicationEffects` with `ExternalEffect`;
`SaladDeployments`; `RuntimeAdmission`; `MegaDelivery`; `ArchiveBuild`;
`ReleaseRendering`; `VideoJobs`; `MasterIntake`; `WorkerRollout`; `ReviewTasks`; the
theorems about publication, the guard's sums, the pipeline's rows and commitment, reviews,
rendering, deliveries, archives, videos, deployments, admission, worker rollouts and uploads.

Next, models:

1. `WebhookReceipts`: lease, retry and dead letter of a receipt, refining the
   step "applied zero or more times" that `Webhook` is.
2. Deployment rollover of attempts, composed with `SaladReconciler`, whose
   observation it races (`salad.py:3399`).
3. The leased scores of quality runs and their freezing.
4. The Patreon ledger; the Salad lane of image-to-video; the durations of warm
   leases.

Next, proofs: of the models above, as they are written. Of those there are, every safety
property a run checks is a theorem; their liveness stays with TLC.

## 8. Running

In this directory, with TLC and TLAPS installed:

    tlc -workers 2 -config MCSubmission.cfg MCPipeline.tla
    tlc -workers 2 -config MCBudgetGuard.cfg MCBudgetGuard.tla
    tlapm PipelineProofs.tla        (7 minutes; PublicationProofs.tla takes 8)

The `.cfg` of every run and its module are in `PROJECT.json`. The largest runs
(`services`, `publication`, `retries`, `runtime`) take one to four minutes on two cores.
