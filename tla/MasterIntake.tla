---------------------------- MODULE MasterIntake ----------------------------
(* services/assets.py and collection.py, and the settlement of              *)
(* generation_control.py: how the images of one generation job become       *)
(* masters. The job's worker uploads each to a staging key for which it was *)
(* given a signed grant; a collector claims the asset, reads and verifies   *)
(* the upload, copies it to its final place and records it. Collectors work *)
(* while the job runs, when it is done, and after the operator's stop; and  *)
(* a retry of the job must save what an earlier attempt uploaded before it  *)
(* gives out grants of its own.                                             *)
EXTENDS Naturals, FiniteSets

CONSTANTS
    Collectors,   \* controllers running collection_once
    Builder,      \* the submit worker that owns the job's submit event
    Outputs,      \* 1 .. expected_output_count
    Images,       \* contents that verify
    MaxKeys       \* bound: staging keys of one output

ASSUME IntakeAssumption ==
    /\ 1 \in Outputs /\ Outputs \subseteq Nat /\ IsFiniteSet(Outputs)
    /\ MaxKeys \in Nat \ {0}
    /\ Builder \notin Collectors /\ "nobody" \notin Collectors \cup {Builder}
    /\ Images \cap {"empty", "bad"} = {}

VARIABLES
    genJob,     \* the generation_jobs row: state, lease_owner, lease not expired
    stop,    \* the two audit markers, and the count the settlement recorded
    asset,   \* the RAW_MASTER row of each output
    staged,  \* the newest version at each staging key of each output
    overdue,    \* the uploads of a finished job are overdue
    actor       \* where each controller is

intakeVars == <<genJob, stop, asset, staged, overdue, actor>>

Processes == Collectors \cup {Builder}
Nobody == "nobody"
Empty == "empty"
Bad == "bad"                       \* an upload that does not verify
Keys == 1..MaxKeys
AnyKey == 0
Resting == [at |-> "idle"]
ActorAt(w, where) == actor[w].at = where

EndedGenJob == {"SUCCEEDED", "DEAD_LETTER", "CANCELLED"}
\* SUBMITTING up to CANCEL_REQUESTED, and RETRY_WAIT
ProgressiveJob == {"WAITING", "SUBMITTING", "RUNNING"}
DrainingJob == {"SUBMITTING", "RUNNING", "COLLECTING", "VERIFYING"}
GenJobRows ==
    [state : {"COLLECTING", "VERIFYING"} \cup ProgressiveJob \cup EndedGenJob,
     owner : Collectors \cup {Nobody}, live : BOOLEAN]
AssetRows ==
    [state : {"none", "UPLOADING", "VERIFYING", "AVAILABLE", "QUARANTINED"},
     key : Keys \cup {AnyKey},             \* staging_object_key
     image : Images \cup {Empty},          \* object_key, named by the content
     owner : Processes \cup {Nobody},        \* verification_lease_owner
     live : BOOLEAN,
     untidy : BOOLEAN]                     \* staging_cleanup is not_started

IntakeInit ==
    /\ genJob = [state |-> "WAITING", owner |-> Nobody, live |-> FALSE]
    /\ stop = [state |-> "none", counted |-> 0]
    /\ asset = [o \in Outputs |->
                  [state |-> "none", key |-> AnyKey, image |-> Empty,
                   owner |-> Nobody, live |-> FALSE, untidy |-> FALSE]]
    /\ staged = [o \in Outputs |-> [k \in Keys |-> Empty]]
    /\ overdue = FALSE
    /\ actor = [w \in Processes |-> Resting]

Staged(o) == asset[o].key # AnyKey /\ staged[o][asset[o].key] # Empty
InState(states) == {o \in Outputs : asset[o].state \in states}
\* What a verification may be claimed of: an upload that nobody verifies.
Reclaimable(o) == \/ asset[o].state = "UPLOADING"
                  \/ asset[o].state = "VERIFYING" /\ ~asset[o].live
Unleased(a, state) == [a EXCEPT !.state = state, !.owner = Nobody, !.live = FALSE]
JobMoves(state) == genJob' = [state |-> state, owner |-> Nobody, live |-> FALSE]

Becomes(w, next) == actor' = [actor EXCEPT ![w] = next]
Step(w, where) == actor' = [actor EXCEPT ![w].at = where]
\* A verification is over, and its caller goes on.
Yields(w, outcome) ==
    Becomes(w, [at |-> outcome, o |-> actor[w].o, for |-> actor[w].for])
\* A settlement holds the row of the job from its count to its commit.
Locked == \E w \in Collectors : ActorAt(w, "fence")

-----------------------------------------------------------------------------
(* finalize_raw_master, for a caller that goes on according to its outcome: *)
(* done, missing (no upload), busy (somebody else's, or the store does not  *)
(* answer) or quarantined.                                                  *)

Verify(w, o, key, caller) ==
    Becomes(w, [at |-> "verify", o |-> o, key |-> key, for |-> caller,
                image |-> Empty])

\* _claim_verification; one of an available master has only to be tidied.
ClaimVerification(w) ==
    LET o == actor[w].o  a == asset[o]  claims == Reclaimable(o)
    IN /\ ActorAt(w, "verify")
       /\ IF actor[w].key \notin {AnyKey, a.key}
          THEN Yields(w, "busy") /\ UNCHANGED asset
          ELSE /\ asset' = IF claims
                    THEN [asset EXCEPT ![o].state = "VERIFYING", ![o].owner = w,
                                       ![o].live = TRUE]
                    ELSE asset
               /\ CASE claims ->
                          Becomes(w, [actor[w] EXCEPT !.key = a.key, !.at = "inspect"])
                    [] a.state = "AVAILABLE" ->
                          Becomes(w, [actor[w] EXCEPT !.key = a.key, !.at = "tidy"])
                    [] a.state = "VERIFYING" /\ ~claims -> Yields(w, "busy")
                    [] OTHER -> Yields(w, "quarantined")
       /\ UNCHANGED <<genJob, stop, staged, overdue>>

\* head, and read_bytes of that version.
Inspect(w) ==
    LET seen == staged[actor[w].o][actor[w].key]
    IN /\ ActorAt(w, "inspect")
       /\ CASE seen = Empty -> Step(w, "lost")
            [] seen = Bad -> Step(w, "reject")
            [] OTHER ->
                  Becomes(w, [actor[w] EXCEPT !.image = seen, !.at = "promote"])
       /\ UNCHANGED <<genJob, stop, asset, staged, overdue>>

\* _promote_master: the copy may be there already, or the version be gone.
Promote(w) ==
    /\ ActorAt(w, "promote")
    /\ IF staged[actor[w].o][actor[w].key] = Empty
       THEN Becomes(w, [actor[w] EXCEPT !.image = Empty, !.at = "lost"])
       ELSE Step(w, "mark")
    /\ UNCHANGED <<genJob, stop, asset, staged, overdue>>

\* The store does not answer, or verification takes too long.
Unavailable(w) ==
    /\ \/ actor[w].at \in {"inspect", "promote"}
          /\ Becomes(w, [actor[w] EXCEPT !.image = Empty, !.at = "release"])
       \/ ActorAt(w, "tidy") /\ Yields(w, "done")
    /\ UNCHANGED <<genJob, stop, asset, staged, overdue>>

\* The claim is still this worker's; expired or not.
Holds(w) == LET a == asset[actor[w].o] IN a.state = "VERIFYING" /\ a.owner = w

\* Mutant: whoever verified the upload records it.
MarkAvailableAnyway(w) ==
    /\ ActorAt(w, "mark")
    /\ asset' = [asset EXCEPT ![actor[w].o] =
                    [Unleased(@, "AVAILABLE") EXCEPT !.image = actor[w].image]]
    /\ Becomes(w, [actor[w] EXCEPT !.image = Empty, !.at = "clean"])
    /\ UNCHANGED <<genJob, stop, staged, overdue>>

\* _mark_available
MarkAvailable(w) ==
    LET o == actor[w].o
    IN /\ ActorAt(w, "mark")
       /\ IF Holds(w) /\ asset[o].key = actor[w].key
          THEN /\ asset' = [asset EXCEPT ![o] =
                     [Unleased(@, "AVAILABLE") EXCEPT !.image = actor[w].image,
                                                      !.untidy = FALSE]]
               /\ Becomes(w, [actor[w] EXCEPT !.image = Empty, !.at = "clean"])
          ELSE Yields(w, "busy") /\ UNCHANGED asset
       /\ UNCHANGED <<genJob, stop, staged, overdue>>

\* _quarantine
Quarantine(w) ==
    LET o == actor[w].o
    IN /\ ActorAt(w, "reject")
       /\ IF Holds(w)
          THEN /\ asset' = [asset EXCEPT ![o] = Unleased(@, "QUARANTINED")]
               /\ Yields(w, "quarantined")
          ELSE Yields(w, "busy") /\ UNCHANGED asset
       /\ UNCHANGED <<genJob, stop, staged, overdue>>

\* _release_verification_claim
ReleaseClaim(w) ==
    LET o == actor[w].o
    IN /\ actor[w].at \in {"lost", "release"}
       /\ asset' = IF Holds(w) THEN [asset EXCEPT ![o] = Unleased(@, "UPLOADING")]
                   ELSE asset
       /\ Yields(w, IF ActorAt(w, "lost") THEN "missing" ELSE "busy")
       /\ UNCHANGED <<genJob, stop, staged, overdue>>

\* The version that was verified is deleted, or cannot be; a newer one stays.
Clean(w) ==
    /\ ActorAt(w, "clean")
    /\ \E left \in {Empty, staged[actor[w].o][actor[w].key]} :
          staged' = [staged EXCEPT ![actor[w].o][actor[w].key] = left]
    /\ Yields(w, "done")
    /\ UNCHANGED <<genJob, stop, asset, overdue>>

\* The same for a master that is available already: its upload is removed
\* unread, and the row says so if it still names that key
\* (_mark_staging_cleaned_up).
Tidy(w) ==
    LET o == actor[w].o  k == actor[w].key
    IN /\ ActorAt(w, "tidy")
       /\ staged' = [staged EXCEPT ![o][k] = Empty]
       /\ asset' = IF staged[o][k] # Empty /\ asset[o].key = k
                   THEN [asset EXCEPT ![o].untidy = FALSE] ELSE asset
       /\ IF actor[w].for = "scan" THEN Becomes(w, [at |-> "claim"])
          ELSE Yields(w, "done")
       /\ UNCHANGED <<genJob, stop, overdue>>

-----------------------------------------------------------------------------
(* Grants for an attempt: create_retry_safe_raw_master_upload_intents.      *)

\* The submit worker has marked the job SUBMITTING.
BeginBuild(w) ==
    /\ w = Builder /\ ActorAt(w, "idle")
    /\ genJob.state = "WAITING"
    /\ genJob' = [genJob EXCEPT !.state = "SUBMITTING"]
    /\ Becomes(w, [at |-> "build"])
    /\ UNCHANGED <<stop, asset, staged, overdue>>

\* SaladJobInputDeferredError, and any other.
Defer(w) == JobMoves("WAITING") /\ Becomes(w, Resting)
BuildFails(w) ==
    (\E s \in {"WAITING", "DEAD_LETTER"} : JobMoves(s)) /\ Becomes(w, Resting)

\* Mutant: an upload that is not there gets a key of its own.
RegrantedAnew(a) ==
    IF a.key = MaxKeys THEN a
    ELSE [Unleased(a, IF a.state = "AVAILABLE" THEN "AVAILABLE" ELSE "UPLOADING")
            EXCEPT !.key = @ + 1, !.untidy = TRUE]

\* A new key for a new output and for one that has its master; the same for
\* one whose upload is not there, which may still come.
Regranted(a) ==
    CASE a.state = "none" -> [a EXCEPT !.state = "UPLOADING", !.key = 1]
      [] a.state = "AVAILABLE" -> [a EXCEPT !.key = @ + 1, !.untidy = TRUE]
      [] OTHER -> Unleased(a, "UPLOADING")

\* create_raw_master_upload_intents, which locks the rows and looks at every
\* staging key; what it finds must be saved first.
IssueGrants(w) ==
    LET busy == InState({"VERIFYING"}) \ {o \in Outputs : Reclaimable(o)}
        uploads == {o \in Outputs : Reclaimable(o) /\ Staged(o)}
    IN /\ ActorAt(w, "build")
       /\ \/ busy # {} /\ Defer(w) /\ UNCHANGED asset
          \/ \E o \in uploads : Verify(w, o, asset[o].key, "build")
                                /\ UNCHANGED <<genJob, asset>>
          \/ /\ busy \cup uploads = {} /\ InState({"QUARANTINED"}) # {}
             /\ BuildFails(w) /\ UNCHANGED asset
          \/ /\ busy \cup uploads \cup InState({"QUARANTINED"}) = {}
             /\ \A o \in InState({"AVAILABLE"}) : asset[o].key < MaxKeys
             /\ asset' = [o \in Outputs |-> Regranted(asset[o])]
             /\ JobMoves("RUNNING") /\ Becomes(w, Resting)
       /\ UNCHANGED <<stop, staged, overdue>>

\* The bound is reached: no more keys (the code has no such bound).
OutOfKeys(w) ==
    /\ ActorAt(w, "build")
    /\ \E o \in InState({"AVAILABLE"}) : asset[o].key = MaxKeys
    /\ JobMoves("DEAD_LETTER") /\ Becomes(w, Resting)
    /\ UNCHANGED <<stop, asset, staged, overdue>>

\* What was uploaded is saved, or the build is put off or has failed.
Salvaged(w) ==
    /\ w = Builder
    /\ \/ ActorAt(w, "done") /\ Becomes(w, [at |-> "build"]) /\ UNCHANGED genJob
       \/ actor[w].at \in {"missing", "busy"} /\ Defer(w)
       \/ ActorAt(w, "quarantined") /\ BuildFails(w)
    /\ UNCHANGED <<stop, asset, staged, overdue>>

-----------------------------------------------------------------------------
(* The job's worker and the rest of the pipeline.                           *)

\* The holder of a grant uploads, also after its attempt is given up.
Upload(o, k) ==
    /\ asset[o].state # "none" /\ k <= asset[o].key
    /\ \E image \in Images \cup {Bad} : staged' = [staged EXCEPT ![o][k] = image]
    /\ UNCHANGED <<genJob, stop, asset, overdue, actor>>

\* The attempt ends, or its submission is given up (GenerationPipeline).
AttemptEnds ==
    /\ \/ genJob.state = "RUNNING"
       \/ genJob.state = "SUBMITTING" /\ ActorAt(Builder, "idle")
    /\ \/ genJob.state = "RUNNING" /\ JobMoves("COLLECTING")
       \/ stop.state = "none" /\ JobMoves("WAITING")
       \/ stop.state # "none" /\ JobMoves("CANCELLED")
       \/ JobMoves("DEAD_LETTER")
    /\ UNCHANGED <<stop, asset, staged, overdue, actor>>

Unsubmitted ==
    IF genJob.state = "WAITING" THEN JobMoves("CANCELLED") ELSE UNCHANGED genJob

\* request_generation_stop; a job that succeeded has ended its generation.
RequestStop ==
    /\ stop.state = "none" /\ genJob.state # "SUCCEEDED"
    /\ stop' = [stop EXCEPT !.state = "requested"]
    /\ Unsubmitted
    /\ UNCHANGED <<asset, staged, overdue, actor>>

-----------------------------------------------------------------------------
(* collection_once: settle, look for one upload, collect one job.           *)

\* settle_stopped_generation_once counts what is available ...
CountMasters(w) ==
    /\ w \in Collectors /\ ActorAt(w, "idle")
    /\ stop.state = "requested" /\ ~Locked
    /\ Unsubmitted
    /\ Becomes(w, IF genJob'.state \in DrainingJob THEN [at |-> "scan"]
             ELSE [at |-> "fence", n |-> Cardinality(InState({"AVAILABLE"}))])
    /\ UNCHANGED <<stop, asset, staged, overdue>>

\* ... and then asks load_stop_salvage_status, in the same transaction.
Fence(w) ==
    /\ ActorAt(w, "fence")
    /\ IF InState({"UPLOADING", "VERIFYING"}) # {}
       THEN Becomes(w, [at |-> "scan"]) /\ UNCHANGED stop
       ELSE /\ stop' = [state |-> "settled", counted |-> actor[w].n]
            /\ Becomes(w, Resting)
    /\ UNCHANGED <<genJob, asset, staged, overdue>>

\* collect_next_ready_running_asset: the candidates, and a HEAD of each.
Candidates ==
    {o \in Outputs :
        /\ genJob.state \in ProgressiveJob \/ stop.state # "none"
        /\ \/ Reclaimable(o)
           \/ genJob.state \in ProgressiveJob /\ asset[o].state = "AVAILABLE"
              /\ asset[o].untidy}

Scan(w) ==
    LET found == {o \in Candidates : Staged(o)}
        absent == {o \in Candidates \ found : genJob.state \in EndedGenJob}
    IN /\ w \in Collectors
       /\ ActorAt(w, "scan") \/ (ActorAt(w, "idle") /\ stop.state # "requested")
       /\ \/ \E o \in found : Verify(w, o, asset[o].key, "scan")
          \/ \E o \in absent : Becomes(w, [at |-> "absent", o |-> o])
          \/ found \cup absent = {} /\ Becomes(w, [at |-> "claim"])
       /\ UNCHANGED <<genJob, stop, asset, staged, overdue>>

\* _quarantine_terminal_missing_stop_asset
QuarantineAbsent(w) ==
    LET o == actor[w].o
    IN /\ ActorAt(w, "absent") /\ ~Locked
       /\ asset' = IF /\ stop.state # "none" /\ genJob.state \in EndedGenJob
                      /\ Reclaimable(o)
                   THEN [asset EXCEPT ![o] = Unleased(@, "QUARANTINED")] ELSE asset
       /\ Becomes(w, [at |-> "claim"])
       /\ UNCHANGED <<genJob, stop, staged, overdue>>

Scanned(w) ==
    /\ w \in Collectors /\ actor[w].at \in {"done", "missing", "busy", "quarantined"}
    /\ actor[w].for = "scan"
    /\ Becomes(w, IF ActorAt(w, "done") THEN Resting ELSE [at |-> "claim"])
    /\ UNCHANGED <<genJob, stop, asset, staged, overdue>>

\* claim_collection_jobs
ClaimCollection(w) ==
    /\ ActorAt(w, "claim")
    /\ IF genJob.state = "COLLECTING" \/ (genJob.state = "VERIFYING" /\ ~genJob.live)
       THEN /\ genJob' = [state |-> "VERIFYING", owner |-> w, live |-> TRUE]
            /\ Verify(w, 1, AnyKey, "collect")
       ELSE Becomes(w, Resting) /\ UNCHANGED genJob
    /\ UNCHANGED <<stop, asset, staged, overdue>>

\* _require_lease
HoldsJob(w) == genJob.state = "VERIFYING" /\ genJob.owner = w /\ genJob.live
Collecting(w) == w \in Collectors /\ ~ActorAt(w, "idle") /\ "for" \in DOMAIN actor[w]
                 /\ actor[w].for = "collect"
JobGoes(w, state) == IF HoldsJob(w) THEN JobMoves(state) ELSE UNCHANGED genJob

\* collect_generation_job, after each output and after the last.
Collected(w) ==
    /\ Collecting(w) /\ ActorAt(w, "done")
    /\ \/ actor[w].o + 1 \in Outputs /\ Verify(w, actor[w].o + 1, AnyKey, "collect")
          /\ UNCHANGED genJob
       \/ /\ actor[w].o + 1 \notin Outputs /\ Becomes(w, Resting)
          /\ JobGoes(w, IF InState({"AVAILABLE"}) = Outputs THEN "SUCCEEDED"
                        ELSE "COLLECTING")
    /\ UNCHANGED <<stop, asset, staged, overdue>>

\* _reschedule, or _fail_closed when an upload is overdue or unusable.
Uncollected(w) ==
    /\ Collecting(w) /\ actor[w].at \in {"missing", "busy", "quarantined"}
    /\ JobGoes(w, IF ActorAt(w, "quarantined") \/ (ActorAt(w, "missing") /\ overdue)
                  THEN "DEAD_LETTER" ELSE "COLLECTING")
    /\ Becomes(w, Resting)
    /\ UNCHANGED <<stop, asset, staged, overdue>>

-----------------------------------------------------------------------------
\* A loop is cancelled, times out or dies. What a collection still can, it
\* gives back (_defer_collection_lease).
Crash(w) ==
    /\ ~ActorAt(w, "idle")
    /\ \/ Collecting(w) /\ JobGoes(w, "COLLECTING")
       \/ UNCHANGED genJob
    /\ Becomes(w, Resting)
    /\ UNCHANGED <<stop, asset, staged, overdue>>

Verifies(w, o) ==
    /\ actor[w].at \in {"inspect", "promote", "mark", "reject", "lost", "release"}
    /\ actor[w].o = o

\* Nothing keeps a verification shorter than its lease ...
AssetLeaseExpires(o) ==
    /\ asset[o].live
    /\ asset' = [asset EXCEPT ![o].live = FALSE]
    /\ UNCHANGED <<genJob, stop, staged, overdue, actor>>

\* ... but a collection's timeout is shorter than the lease of its job
\* (validated in config.py).
JobLeaseExpires ==
    /\ genJob.live /\ ~Collecting(genJob.owner)
    /\ genJob' = [genJob EXCEPT !.live = FALSE]
    /\ UNCHANGED <<stop, asset, staged, overdue, actor>>

\* The grants of the attempt that succeeded have run out.
GrantsElapse ==
    /\ genJob.state \in {"COLLECTING", "VERIFYING"} /\ ~overdue
    /\ overdue' = TRUE
    /\ UNCHANGED <<genJob, stop, asset, staged, actor>>

IntakeCycle(w) ==
    \/ ClaimVerification(w) \/ Inspect(w) \/ Promote(w) \/ MarkAvailable(w)
    \/ Quarantine(w) \/ ReleaseClaim(w) \/ Clean(w) \/ Tidy(w)
    \/ IssueGrants(w) \/ OutOfKeys(w) \/ Salvaged(w)
    \/ CountMasters(w) \/ Fence(w) \/ Scan(w) \/ QuarantineAbsent(w) \/ Scanned(w)
    \/ ClaimCollection(w) \/ Collected(w) \/ Uncollected(w)

IntakeNext ==
    \/ \E w \in Processes : IntakeCycle(w) \/ BeginBuild(w) \/ Unavailable(w) \/ Crash(w)
    \/ \E o \in Outputs : AssetLeaseExpires(o) \/ \E k \in Keys : Upload(o, k)
    \/ AttemptEnds \/ RequestStop \/ JobLeaseExpires \/ GrantsElapse

IntakeSpec == IntakeInit /\ [][IntakeNext]_intakeVars

\* Faults are not forever; a lease that runs out under a worker is one.
IntakeFault ==
    \/ \E w \in Processes : Unavailable(w) \/ Crash(w)
    \/ \E o \in Outputs : AssetLeaseExpires(o) /\ Verifies(asset[o].owner, o)

\* The loops go on and leases run out; a stopped attempt ends, because the
\* pipeline cancels it (StopSettles of GenerationPipeline).
StoppedAttemptEnds == stop.state # "none" /\ AttemptEnds
IntakeFairSpec ==
    /\ IntakeSpec /\ <>[][~IntakeFault]_intakeVars
    /\ \A w \in Processes : WF_intakeVars(IntakeCycle(w))
    /\ \A o \in Outputs : WF_intakeVars(AssetLeaseExpires(o))
    /\ WF_intakeVars(JobLeaseExpires) /\ WF_intakeVars(GrantsElapse)
    /\ WF_intakeVars(StoppedAttemptEnds)

-----------------------------------------------------------------------------
\* The rows keep the CHECK constraints of assets and generation_jobs: a lease
\* belongs to what is being verified, a staging key to what is being uploaded
\* and an object to what is available.
IntakeTypeOK ==
    /\ genJob \in GenJobRows /\ asset \in [Outputs -> AssetRows]
    /\ staged \in [Outputs -> [Keys -> Images \cup {Bad, Empty}]]
    /\ stop \in [state : {"none", "requested", "settled"},
                 counted : 0..Cardinality(Outputs)]
    /\ (genJob.state = "VERIFYING") = (genJob.owner # Nobody)
    /\ \A o \in Outputs :
        /\ (asset[o].state = "VERIFYING") = (asset[o].owner # Nobody)
        /\ asset[o].state # "none" => asset[o].key # AnyKey
        /\ (asset[o].state = "AVAILABLE") = (asset[o].image # Empty)

\* "A negative HEAD cannot prove that the holder of an earlier signed grant
\* has stopped uploading" (assets.py): until an output has its master or is
\* quarantined, every upload made for it by any attempt is at the key where
\* it is looked for, however often the job is retried.
UploadsAreKept ==
    \A o \in InState({"UPLOADING", "VERIFYING"}) : \A k \in Keys :
        staged[o][k] # Empty => k = asset[o].key

\* A master that is available, or an output that is quarantined, is never
\* touched again by a verification that was overtaken: its state and its
\* content are final.
MastersAreFinal ==
    [][\A o \in InState({"AVAILABLE", "QUARANTINED"}) :
          /\ asset'[o].state = asset[o].state
          /\ asset'[o].image = asset[o].image]_intakeVars

\* load_stop_salvage_status: the "settlement must not snapshot the partial
\* set until the lease resolves": what it counted is what the release has.
FrozenSetIsCounted ==
    stop.state = "settled" => stop.counted = Cardinality(InState({"AVAILABLE"}))

Uncollectable ==
    genJob.state \in {"COLLECTING", "VERIFYING"} \/ stop.state = "requested"
Settled == genJob.state \in EndedGenJob /\ stop.state # "requested"

\* A finished job is collected or fails, and a requested stop settles,
\* whatever becomes of the uploads and of the workers that verify them.
CollectionEnds == Uncollectable ~> Settled
=============================================================================
