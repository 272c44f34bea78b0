----------------------------- MODULE MCServices -----------------------------
(* Small instances of the services beside the generation pipeline. Their    *)
(* models share no state, so a behaviour belongs to one of them: the rigid  *)
(* variable service says to which, and only its variables change. A .cfg    *)
(* names the services it explores. Each action is listed by its own name,   *)
(* so that TLC reports the coverage of each.                                *)
EXTENDS VideoJobs, MasterIntake, RuntimeAdmission

CONSTANT Services   \* the services of the run

VARIABLES service,
    lsdAttempt, lsdRuntime, lsdLease, lsdContainer, lsdRollouts,
    pubTarget, pubIntent, pubApproval, pubAttempts, pubPackaged, pubAbsents,
    pubAbsentLock, pubDownloaded, pubEnabled, pubCurrent, pubPc, pubCalls,
    pubPosts,
    megaRow, megaDone, megaRemote, megaForeign, megaStalls, megaPc,
    arcArchive, arcParts, arcObjects, arcPlan, arcRendered, arcPc,
    renPhase, renHead, renNewest, renJob, renPosts, renPc

adm == admissionVars
lsd == <<lsdAttempt, lsdRuntime, lsdLease, lsdContainer, lsdRollouts>>
pub == <<pubTarget, pubIntent, pubApproval, pubAttempts, pubPackaged,
         pubAbsents, pubAbsentLock, pubDownloaded, pubEnabled, pubCurrent,
         pubPc, pubCalls, pubPosts>>
mega == <<megaRow, megaDone, megaRemote, megaForeign, megaStalls, megaPc>>
arc == <<arcArchive, arcParts, arcObjects, arcPlan, arcRendered, arcPc>>
ren == <<renPhase, renHead, renNewest, renJob, renPosts, renPc>>
all == <<service, adm, lsd, pub, mega, arc, ren, vars, intakeVars>>

\* They also run the other services.
Controllers == Workers

-----------------------------------------------------------------------------
\* One attempt needs what each of the others needs.
Artifacts(a) == CASE a = 1 -> {"x"} [] a = 2 -> {"x", "y"} [] a = 3 -> {"y"}

\* Two attempts beside an experiment's warm lease.
Warm == INSTANCE RuntimeAdmission WITH
    Attempts <- 1..2, LeaseNeeds <- {{"x"}},
    attempt <- lsdAttempt, runtime <- lsdRuntime, lease <- lsdLease,
    container <- lsdContainer, rollouts <- lsdRollouts

\* One intent for X, whose steps are retried and whose release and approval are
\* withdrawn (MCPublication has two intents, both targets and the guard).
Publication == INSTANCE PublicationEffects WITH
    Intents <- {"i1"}, Workers <- Controllers, Targets <- {"X"},
    MaxClaims <- 2, MaxRetries <- 1, Changes <- {"release", "expiry"},
    MaxAttempts <- 1, MaxLock <- 3,
    target <- pubTarget, intent <- pubIntent, approval <- pubApproval,
    attempts <- pubAttempts, packaged <- pubPackaged, absents <- pubAbsents,
    absentLock <- pubAbsentLock, downloaded <- pubDownloaded,
    enabled <- pubEnabled, current <- pubCurrent, pc <- pubPc,
    calls <- pubCalls, posts <- pubPosts

\* Three images in two batches, and in two parts of the archive.
Mega == INSTANCE MegaDelivery WITH
    Workers <- Controllers, Count <- 3, BatchSize <- 2, PartSize <- 2,
    row <- megaRow, done <- megaDone, remote <- megaRemote,
    foreign <- megaForeign, stalls <- megaStalls, pc <- megaPc

\* Two parts; a release of the program may render the set differently.
Archives == INSTANCE ArchiveBuild WITH
    Builders <- Controllers, PartCount <- 2, MaxAttempts <- 2,
    Plans <- {"m1", "m2"},
    archive <- arcArchive, parts <- arcParts, objects <- arcObjects,
    plan <- arcPlan, rendered <- arcRendered, builder <- arcPc

\* One full-size output and one teaser, which is replaced once.
Rendering == INSTANCE ReleaseRendering WITH
    Workers <- Controllers, Full <- {"f1"}, Teasers <- {"x1"},
    MaxRevision <- 2, MaxAttempts <- 1, MaxTotal <- 2,
    releasePhase <- renPhase, head <- renHead, newest <- renNewest, job <- renJob,
    posts <- renPosts, pc <- renPc

-----------------------------------------------------------------------------
\* What a service chooses at the start is fixed while another one is explored.
MCInit ==
    /\ service \in Services
    /\ AdmissionInit /\ Warm!AdmissionInit
    /\ Publication!Init
    /\ Mega!Init /\ (service # "mega" => ~megaStalls)
    /\ Archives!ArchiveInit
    /\ service # "archives" => arcPlan = "m1" /\ ~arcRendered
    /\ Rendering!Init
    /\ Init /\ (service # "video" => world = "calm")
    /\ IntakeInit

Admit(A) == service = "admission" /\ A
            /\ UNCHANGED <<service, lsd, pub, mega, arc, ren, vars, intakeVars>>
Lease(A) == service = "leases" /\ A
            /\ UNCHANGED <<service, adm, pub, mega, arc, ren, vars, intakeVars>>
Publish(A) == service = "publication" /\ A
              /\ UNCHANGED <<service, adm, lsd, mega, arc, ren, vars, intakeVars>>
Deliver(A) == service = "mega" /\ A
              /\ UNCHANGED <<service, adm, lsd, pub, arc, ren, vars, intakeVars>>
Archive(A) == service = "archives" /\ A
              /\ UNCHANGED <<service, adm, lsd, pub, mega, ren, vars, intakeVars>>
Render(A) == service = "rendering" /\ A
             /\ UNCHANGED <<service, adm, lsd, pub, mega, arc, vars, intakeVars>>
Film(A) == service = "video" /\ A
           /\ UNCHANGED <<service, adm, lsd, pub, mega, arc, ren, intakeVars>>
Intakes == {"intake", "collectors"}
Take(A) == service \in Intakes /\ A
           /\ UNCHANGED <<service, adm, lsd, pub, mega, arc, ren, vars>>
TakeAs(w, A) == (service = "intake" => w # "w2") /\ Take(A)

AdmissionsNext ==
    \/ \E a \in Attempts :
        \/ Admit(PrepareAttempt(a))
        \/ Admit(JoinTarget(a))
        \/ Admit(SharePlan(a))
        \/ Admit(RecordPlan(a))
        \/ Admit(Refresh(a))
        \/ Admit(EnsureAdmission(a))
        \/ Admit(Submit(a))
        \/ Admit(Abandon(a))
        \/ Admit(FinishAttempt(a))
        \/ Admit(Rearm(a))
    \/ Admit(Repair)
    \/ Admit(GroupGoesDown)

LeasesNext ==
    \/ \E a \in 1..2 :
        \/ Lease(Warm!PrepareAttempt(a))
        \/ Lease(Warm!FailStale(a))
        \/ Lease(Warm!JoinTarget(a))
        \/ Lease(Warm!JoinWarm(a))
        \/ Lease(Warm!SharePlan(a))
        \/ Lease(Warm!RecordPlan(a))
        \/ Lease(Warm!Refresh(a))
        \/ Lease(Warm!EnsureFails(a))
        \/ Lease(Warm!EnsureAdmission(a))
        \/ Lease(Warm!Submit(a))
        \/ Lease(Warm!Abandon(a))
        \/ Lease(Warm!FinishAttempt(a))
        \/ Lease(Warm!Rearm(a))
    \/ Lease(Warm!Repair)
    \/ Lease(Warm!GroupGoesDown)
    \/ Lease(Warm!StartLease)
    \/ Lease(Warm!EndLease)
    \/ Lease(Warm!WarmRefresh)

PublicationNext ==
    \/ \E i \in {"i1"} :
        \/ Publish(Publication!PlanIntent(i))
        \/ Publish(Publication!Approve(i))
        \/ Publish(Publication!Revoke(i))
        \/ Publish(Publication!Cancel(i))
        \/ Publish(Publication!ReconcilePresent(i))
        \/ Publish(Publication!ReconcileAbsent(i))
        \/ Publish(Publication!ApprovalExpires(i))
        \/ Publish(Publication!LeaseExpires(i))
        \/ \E a \in Publication!Rows(i) : Publish(Publication!Land(i, a))
    \/ \E w \in Controllers :
        \/ Publish(Publication!Recover(w))
        \/ Publish(Publication!Claim(w))
        \/ Publish(Publication!Snapshot(w))
        \/ Publish(Publication!InputRefused(w))
        \/ Publish(Publication!BeginEffect(w))
        \/ Publish(Publication!NoRequest(w))
        \/ Publish(Publication!StartRequest(w))
        \/ Publish(Publication!UploadAnswered(w))
        \/ Publish(Publication!PostCreated(w))
        \/ Publish(Publication!PostRefused(w))
        \/ Publish(Publication!PostUncertain(w))
        \/ Publish(Publication!Settle(w))
        \/ Publish(Publication!Crash(w))
    \/ Publish(Publication!ReleaseSuperseded)

MegaNext ==
    \/ \E w \in Controllers :
        \/ Deliver(Mega!Create(w))
        \/ Deliver(Mega!Claim(w))
        \/ Deliver(Mega!LeaseLost(w))
        \/ Deliver(Mega!Plan(w))
        \/ Deliver(Mega!List(w))
        \/ Deliver(Mega!Adopt(w))
        \/ Deliver(Mega!Pick(w))
        \/ Deliver(Mega!Upload(w))
        \/ Deliver(Mega!UploadUncertain(w))
        \/ Deliver(Mega!Complete(w))
        \/ Deliver(Mega!Release(w))
        \/ Deliver(Mega!Finalize(w))
        \/ Deliver(Mega!StageFails(w))
        \/ Deliver(Mega!RecordFailure(w))
        \/ Deliver(Mega!Crash(w))
    \/ Deliver(Mega!Request)
    \/ Deliver(Mega!LeaseExpires)
    \/ Deliver(Mega!TouchFolder)

ArchivesNext ==
    \/ \E w \in Controllers :
        \/ Archive(Archives!FailExhausted /\ Archives!BuilderAt(w, "idle"))
        \/ Archive(Archives!ClaimArchive(w))
        \/ Archive(Archives!LoadPlan(w))
        \/ Archive(Archives!Prepare(w))
        \/ Archive(Archives!WritePart(w))
        \/ Archive(Archives!Checkpoint(w))
        \/ Archive(Archives!FinalizeArchive(w))
        \/ Archive(Archives!BuildFails(w))
        \/ Archive(Archives!FailClaim(w))
        \/ Archive(Archives!BuilderDies(w))
    \/ Archive(Archives!RequestArchive)
    \/ Archive(Archives!ArchiveLeaseExpires)
    \/ Archive(Archives!Redeploy)
    \/ Archive(Archives!Rendered)

RenderingNext ==
    \/ \E w \in Controllers :
        \/ Render(Rendering!Recover(w))
        \/ Render(Rendering!Claim(w))
        \/ Render(Rendering!Start(w))
        \/ Render(Rendering!RenderFails(w))
        \/ Render(Rendering!Succeed(w))
        \/ Render(Rendering!RecordFailure(w))
        \/ Render(Rendering!Crash(w))
    \/ \E j \in Rendering!Jobs : Render(Rendering!LeaseExpires(j))
    \/ \E r \in 1..2 : \/ Render(Rendering!Post(r))
                       \/ Render(Rendering!PostFails(r))
    \/ Render(Rendering!PrepareFullOutputs)
    \/ Render(Rendering!PrepareTeasers)
    \/ Render(Rendering!RetryFailed)

VideoNext ==
    \/ \E w \in Workers :
        \/ Film(Claim(w))
        \/ Film(Read(w))
        \/ Film(Prepare(w))
        \/ Film(StartSubmit(w))
        \/ Film(Post(w))
        \/ Film(Accepted(w))
        \/ Film(RateLimited(w))
        \/ Film(Rejected(w))
        \/ Film(Uncertain(w))
        \/ Film(Unresolved(w))
        \/ Film(UnboundCancel(w))
        \/ Film(Get(w))
        \/ Film(Missing(w))
        \/ Film(CancelPod(w))
        \/ Film(QueueTimeout(w))
        \/ Film(Observe(w))
        \/ Film(Start(w))
        \/ Film(Finish(w))
        \/ Film(Restart(w))
        \/ Film(Aborts(w))
    \/ \E p \in Posts :
        \/ Film(WorkerStarts(p))
        \/ Film(WorkerClaims(p))
        \/ Film(PodEnds(p))
        \/ Film(PodStops(p))
        \/ Film(Forget(p))
    \/ Film(Cancel)
    \/ Film(Retry)
    \/ Film(Elapse)
    \/ Film(GraceElapses)
    \/ Film(LeaseExpires)

IntakesNext ==
    \/ \E w \in Processes :
        \/ TakeAs(w, ClaimVerification(w))
        \/ TakeAs(w, Inspect(w))
        \/ TakeAs(w, Promote(w))
        \/ TakeAs(w, Unavailable(w))
        \/ TakeAs(w, MarkAvailable(w))
        \/ TakeAs(w, Quarantine(w))
        \/ TakeAs(w, ReleaseClaim(w))
        \/ TakeAs(w, Clean(w))
        \/ TakeAs(w, Tidy(w))
        \/ TakeAs(w, BeginBuild(w))
        \/ TakeAs(w, IssueGrants(w))
        \/ TakeAs(w, OutOfKeys(w))
        \/ TakeAs(w, Salvaged(w))
        \/ TakeAs(w, CountMasters(w))
        \/ TakeAs(w, Fence(w))
        \/ TakeAs(w, Scan(w))
        \/ TakeAs(w, QuarantineAbsent(w))
        \/ TakeAs(w, Scanned(w))
        \/ TakeAs(w, ClaimCollection(w))
        \/ TakeAs(w, Collected(w))
        \/ TakeAs(w, Uncollected(w))
        \/ TakeAs(w, Crash(w))
    \/ \E k \in Keys :
        Take(Upload(1, k) /\ (service = "collectors" =>
                                        staged'[1][k] # Bad))
    \/ Take(AttemptEnds)
    \/ Take(RequestStop)
    \/ Take(AssetLeaseExpires(1))
    \/ Take(JobLeaseExpires)
    \/ Take(GrantsElapse)

MCNext == \/ AdmissionsNext \/ LeasesNext \/ PublicationNext \/ MegaNext
          \/ ArchivesNext \/ RenderingNext \/ VideoNext \/ IntakesNext

MCSpec == MCInit /\ [][MCNext]_all

-----------------------------------------------------------------------------
\* The FairSpec of each of the leased services. No behaviour has steps of two
\* of them, so that one condition stands for one of each: it is the same
\* assumption, and TLC has fewer cases to look at.
Collect(A) == service = "intake" /\ Take(A)

MCFairSpec ==
    /\ MCSpec /\ <>[][~(Film(Fault) \/ Collect(IntakeFault))]_all
    /\ \A w \in Controllers :
        WF_all(\/ Publish(Publication!Cycle(w)) \/ Deliver(Mega!Cycle(w))
                \/ Archive(Archives!ArchiveCycle(w)) \/ Render(Rendering!Cycle(w))
                \/ Film(Cycle(w))
                \/ (w = "w1" /\ Collect(IntakeCycle(w))))
    /\ WF_all(Collect(IntakeCycle("b")))
    /\ WF_all(\/ Publish(Publication!LeaseExpires("i1"))
               \/ Deliver(Mega!LeaseExpires) \/ Archive(Archives!ArchiveLeaseExpires)
               \/ Film(Elapse) \/ Collect(JobLeaseExpires))
    /\ WF_all(Film(GraceElapses) \/ Collect(GrantsElapse))
    /\ WF_all(Film(PodStops(1)) \/ Collect(AssetLeaseExpires(1)))
    /\ WF_all(Film(PodStops(2)) \/ Collect(StoppedAttemptEnds))
    /\ \A j \in Rendering!Jobs : WF_all(Render(Rendering!LeaseExpires(j)))

----------------------------------------------------------------------------
(* The properties are those of the modules, where they are explained;       *)
(* OneExecution, UploadsAreKept, AdmittedWorkSurvives and others are theirs.*)

\* The rows of every service keep the shape and the checks of their tables.
RowsWellFormed == /\ TypeOK /\ IntakeTypeOK /\ AdmissionTypeOK
                  /\ service = "leases" => Warm!AdmissionTypeOK
                  /\ service = "publication" => Publication!TypeOK
                  /\ service = "mega" => Mega!TypeOK
                  /\ service = "archives" => Archives!ArchiveTypeOK
                  /\ service = "rendering" => Rendering!TypeOK

\* What was staged survives warm leases, too.
StagedWorkSurvivesLeases == service = "leases" => Warm!StagedWorkSurvives

\* What the rows say is so: an image recorded as delivered is in the folder, and
\* once (MEGA); a release renders exactly while a gating job is unfinished, and
\* what may be posted of it is what is active; a job in flight has the runtime
\* that it was admitted to, also beside warm leases.
RowsMatchFacts ==
    /\ service = "leases" => Warm!InFlightKeepsRuntime
    /\ service = "mega" => Mega!RemoteMirrorsItems
    /\ service = "rendering" => Rendering!RenderingIsExact
                                /\ Rendering!PostedTeasersAreActive

Waits == \/ service = "publication" /\ Publication!Claimed("i1", 1)
         \/ service = "mega" /\ Mega!Waits
         \/ service = "archives" /\ Archives!Unsettled
         \/ service = "rendering" /\ Rendering!Unready
         \/ service = "video" /\ Unfinished
         \/ service = "intake" /\ Uncollectable
Over == \/ service = "publication" /\ Publication!Released("i1", 1)
        \/ service = "mega" /\ Mega!Served
        \/ service = "archives" /\ Archives!Settled
        \/ service = "rendering" /\ Rendering!Ready
        \/ service = "video" /\ Finished
        \/ service = "intake" /\ Settled

\* Leased work ends whatever becomes of the controllers that lease it: claimed
\* publication attempts, deliveries, archives, renderings, videos and finished
\* generation jobs. As a behaviour belongs to one service, this is ClaimsEnd,
\* DeliveryIsServed, ArchiveSettles, RenderingEnds, VideoEnds and
\* CollectionEnds of the modules, at once.
LeasedWorkEnds == Waits ~> Over
=============================================================================
