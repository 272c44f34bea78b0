---------------------------- MODULE MegaDelivery ----------------------------
(* services/mega_set_delivery.py: one finished set is copied, image by      *)
(* image, into a folder of MEGA. A controller claims the delivery under a   *)
(* lease, lists the folder, adopts what an earlier cycle uploaded without   *)
(* learning of it, uploads one batch and records it. MEGA knows no          *)
(* transactions: an upload whose outcome is unknown may have put any part   *)
(* of its batch into the folder.                                            *)
EXTENDS Naturals, FiniteSetsExt

CONSTANTS
    Workers,    \* controllers running mega_delivery_once
    Count,      \* total_item_count of the set
    BatchSize,  \* background_mega_batch_size
    PartSize    \* images in one part of the finished-set archive

VARIABLES
    row,        \* mega_set_deliveries: state, lease_owner, lease not expired, planned_at
    done,       \* the mega_set_delivery_items that are SUCCEEDED
    remote,     \* how many files the folder holds at the path of each item
    foreign,    \* the folder holds a file that belongs to no item
    stalls,     \* rigid: a controller may be suspended for longer than a lease
    pc          \* where each controller is in process_claimed_mega_set_delivery

vars == <<row, done, remote, foreign, stalls, pc>>

Nobody == "nobody"
Items == 1..Count
DeliveryRows ==
    [state : {"none", "requested", "PENDING", "CLAIMED", "RETRY_WAIT", "FAILED",
              "SUCCEEDED"},
     owner : Workers \cup {Nobody}, live : BOOLEAN, planned : BOOLEAN]
Part(i) == (i - 1) \div PartSize
Pending == Items \ done
Idle == [at |-> "idle"]
At(w, where) == pc[w].at = where

\* The first BatchSize of a set of ordinals.
Batch(s) == {i \in s : Cardinality({j \in s : j < i}) < BatchSize}

Init ==
    /\ row = [state |-> "none", owner |-> Nobody, live |-> FALSE, planned |-> FALSE]
    /\ done = {}
    /\ remote = [i \in Items |-> 0]
    /\ foreign = FALSE
    /\ stalls \in BOOLEAN
    /\ pc = [w \in Workers |-> Idle]

-----------------------------------------------------------------------------
Unleased(r, state) == [r EXCEPT !.state = state, !.owner = Nobody, !.live = FALSE]

\* request_mega_set_delivery: the first request, or a retry by the operator.
Request ==
    /\ \/ row.state = "none" /\ row' = [row EXCEPT !.state = "requested"]
       \/ row.state \in {"FAILED", "RETRY_WAIT"} /\ row' = Unleased(row, "PENDING")
    /\ UNCHANGED <<done, remote, foreign, stalls, pc>>

\* ensure_next_mega_set_delivery; a cycle that creates a row does nothing else.
Create(w) ==
    /\ At(w, "idle") /\ row.state = "requested"
    /\ row' = [row EXCEPT !.state = "PENDING"]
    /\ UNCHANGED <<done, remote, foreign, stalls, pc>>

\* Mutant: a claimed delivery is never taken over.
DueUnclaimed == row.state \in {"PENDING", "RETRY_WAIT"}

Due == \/ row.state \in {"PENDING", "RETRY_WAIT"}
       \/ row.state = "CLAIMED" /\ ~row.live

\* claim_mega_set_delivery
Claim(w) ==
    /\ At(w, "idle") /\ Due
    /\ row' = [row EXCEPT !.state = "CLAIMED", !.owner = w, !.live = TRUE]
    /\ pc' = [pc EXCEPT ![w] = [at |-> "plan"]]
    /\ UNCHANGED <<done, remote, foreign, stalls>>

\* _locked_owned_delivery. A worker runs one cycle at a time, so its name is
\* as good as its name with the number of its claim.
Owned(w) == row.state = "CLAIMED" /\ row.owner = w

\* MegaSetDeliveryLeaseLostError leaves the cycle and writes nothing.
LeaseLost(w) ==
    /\ pc[w].at \in {"plan", "adopt", "pick", "complete", "release", "finalize", "failing"}
    /\ ~Owned(w)
    /\ pc' = [pc EXCEPT ![w] = Idle]
    /\ UNCHANGED <<row, done, remote, foreign, stalls>>

\* _ensure_items_planned
Plan(w) ==
    /\ At(w, "plan") /\ Owned(w)
    /\ row' = [row EXCEPT !.planned = TRUE]
    /\ pc' = [pc EXCEPT ![w].at = "list"]
    /\ UNCHANGED <<done, remote, foreign, stalls>>

Fail(w, terminal) == pc' = [pc EXCEPT ![w] = [at |-> "failing", terminal |-> terminal]]

\* list_files after ensure_folder: a stray file or a duplicate ends the
\* delivery; pending items that are already there are to be adopted.
List(w) ==
    /\ At(w, "list")
    /\ LET there == {i \in Pending : remote[i] = 1}
       IN IF foreign \/ \E i \in Items : remote[i] > 1 THEN Fail(w, TRUE)
          ELSE IF there # {}
          THEN pc' = [pc EXCEPT ![w] = [at |-> "adopt", items |-> Batch(there)]]
          ELSE pc' = [pc EXCEPT ![w].at = "pick"]
    /\ UNCHANGED <<row, done, remote, foreign, stalls>>

\* _verify_remote_items downloads the files and compares; _complete_items.
Adopt(w) ==
    /\ At(w, "adopt") /\ Owned(w)
    /\ done' = done \cup pc[w].items
    /\ pc' = [pc EXCEPT ![w] = [at |-> "pick"]]
    /\ UNCHANGED <<row, remote, foreign, stalls>>

\* The next batch: pending items of the part that holds the first of them
\* (_part_for_ordinal, _stage_items, _record_item_attempts).
Pick(w) ==
    /\ At(w, "pick") /\ Owned(w)
    /\ IF Pending = {} THEN pc' = [pc EXCEPT ![w].at = "finalize"]
       ELSE LET part == {i \in Pending : Part(i) = Part(Min(Pending))}
            IN pc' = [pc EXCEPT ![w] = [at |-> "upload", items |-> Batch(part)]]
    /\ UNCHANGED <<row, done, remote, foreign, stalls>>

Landed(s) == [i \in Items |-> IF i \in s THEN remote[i] + 1 ELSE remote[i]]

\* upload_files: mega-put of the batch, answered.
Upload(w) ==
    /\ At(w, "upload")
    /\ remote' = Landed(pc[w].items)
    /\ pc' = [pc EXCEPT ![w].at = "complete"]
    /\ UNCHANGED <<row, done, foreign, stalls>>

\* MegaAmbiguousError, or the cycle is cancelled and mega-put is killed: some
\* of the files are there.
UploadUncertain(w) ==
    /\ At(w, "upload")
    /\ \E s \in SUBSET pc[w].items : remote' = Landed(s)
    /\ Fail(w, FALSE)
    /\ UNCHANGED <<row, done, foreign, stalls>>

\* _complete_items, then _remaining_item_count in the same session.
Complete(w) ==
    /\ At(w, "complete") /\ Owned(w)
    /\ done' = done \cup pc[w].items
    /\ pc' = [pc EXCEPT ![w] =
          [at |-> IF Items \subseteq done' THEN "finalize" ELSE "release"]]
    /\ UNCHANGED <<row, remote, foreign, stalls>>

\* _release_claim: the next cycle takes the next batch.
Release(w) ==
    /\ At(w, "release") /\ Owned(w)
    /\ row' = Unleased(row, "PENDING")
    /\ pc' = [pc EXCEPT ![w] = Idle]
    /\ UNCHANGED <<done, remote, foreign, stalls>>

\* _finalize_remote_folder: the folder holds exactly the set.
Finalize(w) ==
    /\ At(w, "finalize") /\ Owned(w)
    /\ IF foreign \/ \E i \in Items : remote[i] # 1
       THEN Fail(w, TRUE) /\ UNCHANGED row
       ELSE /\ row' = Unleased(row, "SUCCEEDED")
            /\ pc' = [pc EXCEPT ![w] = Idle]
    /\ UNCHANGED <<done, remote, foreign, stalls>>

\* Anything else that ends a cycle: the source archive or the manifest does
\* not match (terminal), the object store or MEGA does not answer, a timeout.
StageFails(w) ==
    /\ pc[w].at \in {"plan", "list", "adopt", "pick", "complete", "finalize"}
    /\ \E terminal \in BOOLEAN : Fail(w, terminal)
    /\ UNCHANGED <<row, done, remote, foreign, stalls>>

\* fail_mega_set_delivery, _mark_claim_retry_after_cancel
RecordFailure(w) ==
    /\ At(w, "failing") /\ Owned(w)
    /\ row' = Unleased(row, IF pc[w].terminal THEN "FAILED" ELSE "RETRY_WAIT")
    /\ pc' = [pc EXCEPT ![w] = Idle]
    /\ UNCHANGED <<done, remote, foreign, stalls>>

\* The controller dies; of an upload under way, some files are there. (That
\* happens before anyone lists the folder again: see LeaseExpires.)
Crash(w) ==
    /\ ~At(w, "idle")
    /\ pc' = [pc EXCEPT ![w] = Idle]
    /\ IF At(w, "upload") THEN \E s \in SUBSET pc[w].items : remote' = Landed(s)
                          ELSE UNCHANGED remote
    /\ UNCHANGED <<row, done, foreign, stalls>>

\* A lease is longer than the cycle that holds it may last (validated in
\* config.py), so it runs out only after that cycle is over, unless the
\* controller was suspended meanwhile: its own timeout did not fire then.
LeaseExpires ==
    /\ row.live
    /\ stalls \/ At(row.owner, "idle")
    /\ row' = [row EXCEPT !.live = FALSE]
    /\ UNCHANGED <<done, remote, foreign, stalls, pc>>

\* A person puts a file into the folder, or takes it out again.
TouchFolder ==
    /\ row.state # "none"
    /\ foreign' = ~foreign
    /\ UNCHANGED <<row, done, remote, stalls, pc>>

Cycle(w) == \/ Create(w) \/ Claim(w) \/ LeaseLost(w) \/ Plan(w) \/ List(w) \/ Adopt(w)
            \/ Pick(w) \/ Upload(w) \/ UploadUncertain(w) \/ Complete(w) \/ Release(w)
            \/ Finalize(w) \/ StageFails(w) \/ RecordFailure(w)

Next == \/ Request \/ LeaseExpires \/ TouchFolder
        \/ \E w \in Workers : Cycle(w) \/ Crash(w)

Spec == Init /\ [][Next]_vars

\* A cycle ends by its timeout, a lease nobody renews runs out, and the
\* controllers that run keep cycling. Nothing is assumed of the operator.
FairSpec == /\ Spec
            /\ \A w \in Workers : WF_vars(Cycle(w))
            /\ WF_vars(LeaseExpires)

-----------------------------------------------------------------------------
\* The row and its lease keep the CHECK constraints of mega_set_deliveries.
TypeOK ==
    /\ row \in DeliveryRows
    /\ row.state = "CLAIMED" <=> row.owner # Nobody
    /\ row.state = "SUCCEEDED" => done = Items
    /\ remote \in [Items -> Nat]

\* An image recorded as delivered is in the folder. And unless a controller
\* was suspended for longer than its lease, no image is ever there twice,
\* however often uploads are cut off, answered to nobody, retried and taken over.
RemoteMirrorsItems ==
    /\ \A i \in done : remote[i] >= 1
    /\ ~stalls => \A i \in Items : remote[i] <= 1

Waits ==
    row.state \in {"requested", "PENDING", "RETRY_WAIT", "CLAIMED"} /\ ~row.live
Served == row.live \/ row.state \in {"FAILED", "SUCCEEDED"}

\* A delivery that waits is served, one whose worker died included.
DeliveryIsServed == Waits ~> Served
=============================================================================
