----------------------------- MODULE MCPipeline -----------------------------
(* Small instances of GenerationPipeline: one attempt of one job and two    *)
(* workers that may have its event in turn, one job that is tried again, or *)
(* two jobs that wait for the scheduler's single slot.                      *)
EXTENDS GenerationPipeline

CONSTANTS w1, w2

OneJob == {1}
TwoJobs == {1, 2}

NoGrants == [infra |-> 0, nearblack |-> 0]
OneGrant == [infra |-> 1, nearblack |-> 1]
=============================================================================
