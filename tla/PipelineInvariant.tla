--------------------------- MODULE PipelineInvariant ---------------------------
(* The inductive invariant of GenerationPipeline, and how the rows of       *)
(* attempts and jobs may move on in a step.                                 *)
EXTENDS GenerationPipeline, TLAPS

-----------------------------------------------------------------------------
(* The inductive invariant                                                  *)

(* A worker that is not idle owns the event of its attempt, alone.          *)
Ownership ==
    /\ \A w \in Workers : task[w].pc # "idle" =>
          /\ task[w].a \in Attempts
          /\ ev[task[w].a].status = "PROCESSING"
          /\ ~ev[task[w].a].expired
          /\ ev[task[w].a].tries >= 1
    /\ \A v, w \in Workers :
          task[v].pc # "idle" /\ task[w].pc # "idle" /\ task[v].a = task[w].a => v = w

(* Rows exist before anything refers to them.                               *)
Existence ==
    /\ \A a \in Attempts : a[2] > job[JobOf(a)].count => att[a].state = "NONE"
    /\ \A a \in Attempts : att[a].state = "NONE" =>
          ~att[a].ext /\ ev[a].status \notin {"PENDING", "PROCESSING"}
    /\ rec.pc # "idle" => rec.a \in Attempts /\ att[rec.a].state # "NONE"

(* Counters keep the room that their next step needs.                       *)
Room ==
    /\ \A j \in Jobs : job[j].count <= job[j].max
    /\ \A a \in Attempts :
          att[a].misses < Confirmations /\ att[a].stopMisses < Confirmations
    /\ \A a \in Attempts : net[a].wire = "landed" => net[a].hist # {}

(* No request has left for an attempt that may still be sent.               *)
Unsent ==
    /\ \A a \in Attempts : att[a].state \in {"NONE", "CREATED"} => net[a].posts = 0
    /\ \A w \in Workers : task[w].pc = "building" =>
          net[task[w].a].posts = 0 /\ att[task[w].a].state # "CREATED"

IInv == TypeOK /\ Ownership /\ Existence /\ Room /\ Unsent /\ AtMostOnePost

-----------------------------------------------------------------------------
(* Steps on the rows of attempts and jobs                                   *)

(* What a recorded attempt's row may become, but for a rearmed one.         *)
RowMoves(x, r) ==
    /\ r \in AttemptRows /\ r.state # "NONE"
    /\ r.state = "CREATED" => x.state = "CREATED"
    /\ r.misses < Confirmations /\ r.stopMisses < Confirmations

JobMoves(q, p) == p \in JobRows /\ p.count = q.count /\ p.max >= q.max

(* The rows move on: no attempt appears, vanishes or is armed again.        *)
RowsForward ==
    /\ att' \in [Attempts -> AttemptRows]
    /\ job' \in [Jobs -> JobRows]
    /\ \A j \in Jobs : job'[j].count = job[j].count /\ job'[j].max >= job[j].max
    /\ \A a \in Attempts :
          /\ att'[a].state = "NONE" <=> att[a].state = "NONE"
          /\ att'[a].state = "CREATED" => att[a].state = "CREATED"
          /\ att'[a].state = "NONE" => ~att'[a].ext
          /\ att'[a].misses < Confirmations /\ att'[a].stopMisses < Confirmations
=============================================================================
