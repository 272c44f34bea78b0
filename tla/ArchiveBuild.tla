---------------------------- MODULE ArchiveBuild ----------------------------
(* services/finished_set_archives.py: the archive of one completed review   *)
(* is built part by part. Every part is written to the object store if      *)
(* absent, or adopted if identical, and checkpointed, so that a controller  *)
(* that takes over goes on where the last one stopped.                      *)
EXTENDS Naturals, Sequences

CONSTANTS
    Builders,      \* controllers running the archive cycle
    PartCount,    \* parts the set is partitioned into
    MaxAttempts,  \* max_attempts of the row
    Plans         \* manifests that the code may compute for the set: a release
                  \* of the program may render the public images differently

VARIABLES
    archive,      \* finished_set_archives: state, attempts, lease, manifest
    parts,        \* the manifests of the finished_set_archive_parts, in order
    objects,      \* the manifest of the object at each part's key, or NoPlan
    plan,         \* the manifest _load_plan computes now
    rendered,     \* every selection of the review has its full derivative
    builder       \* where each controller is in run_finished_set_archive_cycle

archiveVars == <<archive, parts, objects, plan, rendered, builder>>

Unclaimed == "nobody"
NoPlan == "none"
Resting == [at |-> "idle"]
BuilderAt(w, where) == builder[w].at = where

ArchiveRows ==
    [state : {"none", "PENDING", "PROCESSING", "RETRY_WAIT", "READY", "FAILED"},
     attempts : 0..MaxAttempts, owner : Builders \cup {Unclaimed}, live : BOOLEAN,
     manifest : Plans \cup {NoPlan}]
PartRows == UNION {[1..n -> Plans] : n \in 0..PartCount}

ArchiveInit ==
    /\ archive = [state |-> "none", attempts |-> 0, owner |-> Unclaimed,
                  live |-> FALSE, manifest |-> NoPlan]
    /\ parts = <<>>
    /\ objects = [n \in 1..PartCount |-> NoPlan]
    /\ plan \in Plans
    /\ rendered \in BOOLEAN
    /\ builder = [w \in Builders |-> Resting]

-----------------------------------------------------------------------------
UnleasedArchive(a, state) ==
    [a EXCEPT !.state = state, !.owner = Unclaimed, !.live = FALSE]

\* request_finished_set_archive: the row is created once; a failed one starts
\* over with its attempts, and keeps its checkpoints.
RequestArchive ==
    /\ archive.state \in {"none", "FAILED"}
    /\ archive' = [UnleasedArchive(archive, "PENDING") EXCEPT !.attempts = 0]
    /\ UNCHANGED <<parts, objects, plan, rendered, builder>>

\* Mutant: an abandoned last attempt is left as it is.
FailExhaustedNever == FALSE /\ UNCHANGED archiveVars

\* _fail_one_exhausted_lease, at the start of a cycle, which then ends.
FailExhausted ==
    /\ archive.state = "PROCESSING" /\ ~archive.live
    /\ archive.attempts >= MaxAttempts
    /\ archive' = UnleasedArchive(archive, "FAILED")
    /\ UNCHANGED <<parts, objects, plan, rendered, builder>>

\* _claim_archive
ClaimArchive(w) ==
    /\ BuilderAt(w, "idle")
    /\ \/ archive.state \in {"PENDING", "RETRY_WAIT"}
       \/ archive.state = "PROCESSING" /\ ~archive.live
    /\ archive.attempts < MaxAttempts
    /\ rendered
    /\ archive' = [archive EXCEPT !.state = "PROCESSING", !.attempts = @ + 1,
                                  !.owner = w, !.live = TRUE]
    /\ builder' = [builder EXCEPT ![w] = [at |-> "load"]]
    /\ UNCHANGED <<parts, objects, plan, rendered>>

\* _locked_claim_archive looks at the clock; _fail_claim does not. A worker
\* runs one cycle at a time, so its name stands for its claim.
Holds(w) == archive.state = "PROCESSING" /\ archive.owner = w
Locked(w) == Holds(w) /\ archive.live

FailBuild(w, retry) ==
    builder' = [builder EXCEPT ![w] = [at |-> "failing", retry |-> retry]]

\* A stage whose transaction finds the claim gone or the plan changed: the
\* contract is broken, which is not retried.
Refused(w, found) ==
    /\ ~found
    /\ FailBuild(w, FALSE)
    /\ UNCHANGED archive

\* _load_plan renews the lease around every image it renders or adopts.
LoadPlan(w) ==
    /\ BuilderAt(w, "load")
    /\ \/ /\ Locked(w)
          /\ builder' = [builder EXCEPT ![w] = [at |-> "prepare", plan |-> plan]]
          /\ UNCHANGED archive
       \/ Refused(w, Locked(w))
    /\ UNCHANGED <<parts, objects, plan, rendered>>

\* _validate_registered_parts
Registered(m) == \A n \in DOMAIN parts : parts[n] = m

\* Mutant: a resumed archive takes the plan of the program that resumes it.
PrepareAnew(w) ==
    /\ BuilderAt(w, "prepare")
    /\ \/ /\ Locked(w)
          /\ archive' = [archive EXCEPT !.manifest = builder[w].plan]
          /\ builder' = [builder EXCEPT ![w] =
                [at |-> "build", plan |-> builder[w].plan, n |-> Len(parts) + 1]]
       \/ Refused(w, Locked(w))
    /\ UNCHANGED <<parts, objects, plan, rendered>>

\* _prepare_checkpoint_resume: the first plan is the plan of the archive.
Prepare(w) ==
    /\ BuilderAt(w, "prepare")
    /\ LET ok == /\ Locked(w) /\ archive.manifest \in {NoPlan, builder[w].plan}
                 /\ Registered(builder[w].plan)
       IN \/ /\ ok
             /\ archive' = [archive EXCEPT !.manifest = builder[w].plan]
             /\ builder' = [builder EXCEPT ![w] =
                   [at |-> "build", plan |-> builder[w].plan, n |-> Len(parts) + 1]]
          \/ Refused(w, ok)
    /\ UNCHANGED <<parts, objects, plan, rendered>>

\* _verify_checkpointed_parts, _build_part and _write_or_adopt_part of the next
\* part. What the object store holds under another worker's hand is identical.
WritePart(w) ==
    /\ BuilderAt(w, "build")
    /\ \A n \in 1..(builder[w].n - 1) : objects[n] = builder[w].plan
    /\ IF builder[w].n > PartCount
       THEN builder' = [builder EXCEPT ![w].at = "finalize"] /\ UNCHANGED objects
       ELSE /\ objects[builder[w].n] \in {NoPlan, builder[w].plan}
            /\ objects' = [objects EXCEPT ![builder[w].n] = builder[w].plan]
            /\ builder' = [builder EXCEPT ![w].at = "checkpoint"]
    /\ UNCHANGED <<archive, parts, plan, rendered>>

\* _checkpoint_part: only the part after the last one registered.
Checkpoint(w) ==
    /\ BuilderAt(w, "checkpoint")
    /\ LET ok == /\ Locked(w) /\ archive.manifest = builder[w].plan
                 /\ Registered(builder[w].plan) /\ builder[w].n = Len(parts) + 1
       IN \/ /\ ok
             /\ parts' = Append(parts, builder[w].plan)
             /\ builder' = [builder EXCEPT ![w] =
                   [at |-> "build", plan |-> builder[w].plan, n |-> builder[w].n + 1]]
             /\ UNCHANGED archive
          \/ Refused(w, ok) /\ UNCHANGED parts
    /\ UNCHANGED <<objects, plan, rendered>>

\* _finalize_archive
FinalizeArchive(w) ==
    /\ BuilderAt(w, "finalize")
    /\ LET ok == /\ Locked(w) /\ archive.manifest = builder[w].plan
                 /\ Registered(builder[w].plan) /\ Len(parts) = PartCount
       IN \/ /\ ok
             /\ archive' = UnleasedArchive(archive, "READY")
             /\ builder' = [builder EXCEPT ![w] = Resting]
          \/ Refused(w, ok)
    /\ UNCHANGED <<parts, objects, plan, rendered>>

\* Anything else that ends a cycle: an input that does not match its digest,
\* the object store, a timeout or a cancellation.
BuildFails(w) ==
    /\ builder[w].at \notin {"idle", "failing"}
    /\ \E retry \in BOOLEAN : FailBuild(w, retry)
    /\ UNCHANGED <<archive, parts, objects, plan, rendered>>

MayRetry == archive.attempts < MaxAttempts

\* _fail_claim; a worker that lost its claim writes nothing.
FailClaim(w) ==
    /\ BuilderAt(w, "failing")
    /\ archive' = IF ~Holds(w) THEN archive
                  ELSE UnleasedArchive(archive, IF builder[w].retry /\ MayRetry
                                                THEN "RETRY_WAIT" ELSE "FAILED")
    /\ builder' = [builder EXCEPT ![w] = Resting]
    /\ UNCHANGED <<parts, objects, plan, rendered>>

BuilderDies(w) ==
    /\ ~BuilderAt(w, "idle")
    /\ builder' = [builder EXCEPT ![w] = Resting]
    /\ UNCHANGED <<archive, parts, objects, plan, rendered>>

\* A lease outlives the timeout of its cycle and is renewed at every image and
\* part: it runs out when the controller is dead, or was suspended.
ArchiveLeaseExpires ==
    /\ archive.live
    /\ archive' = [archive EXCEPT !.live = FALSE]
    /\ UNCHANGED <<parts, objects, plan, rendered, builder>>

\* Another release of the program is deployed.
Redeploy ==
    /\ plan' \in Plans \ {plan}
    /\ UNCHANGED <<archive, parts, objects, rendered, builder>>

\* The last full derivative of the set succeeds; no derivative is withdrawn.
Rendered ==
    /\ ~rendered /\ rendered' = TRUE
    /\ UNCHANGED <<archive, parts, objects, plan, builder>>

ArchiveCycle(w) ==
    \/ BuilderAt(w, "idle") /\ FailExhausted
    \/ ClaimArchive(w) \/ LoadPlan(w) \/ Prepare(w) \/ WritePart(w)
    \/ Checkpoint(w) \/ FinalizeArchive(w) \/ BuildFails(w) \/ FailClaim(w)

ArchiveNext ==
    \/ RequestArchive \/ ArchiveLeaseExpires \/ Redeploy \/ Rendered
    \/ \E w \in Builders : ArchiveCycle(w) \/ BuilderDies(w)

ArchiveSpec == ArchiveInit /\ [][ArchiveNext]_archiveVars

\* As for MegaDelivery: cycles end, leases that nobody renews run out.
FairArchiveSpec ==
    /\ ArchiveSpec
    /\ \A w \in Builders : WF_archiveVars(ArchiveCycle(w))
    /\ WF_archiveVars(ArchiveLeaseExpires)

-----------------------------------------------------------------------------
\* An archive that is ready consists of all its parts, all of its manifest,
\* and their objects exist.
ArchiveTypeOK ==
    /\ archive \in ArchiveRows /\ parts \in PartRows
    /\ archive.state = "PROCESSING" <=> archive.owner # Unclaimed
    /\ \A n \in DOMAIN parts : parts[n] = archive.manifest /\ objects[n] = parts[n]
    /\ archive.state = "READY" => Len(parts) = PartCount

Unsettled == rendered /\ archive.state \in {"PENDING", "PROCESSING", "RETRY_WAIT"}
Settled == archive.state \in {"READY", "FAILED"}

\* An archive whose derivatives are all there is READY or FAILED in the end,
\* whatever its workers suffer: attempts are used up, and the last one, if it
\* is abandoned, is failed by another cycle.
ArchiveSettles == Unsettled ~> Settled
=============================================================================
