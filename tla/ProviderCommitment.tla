------------------------ MODULE ProviderCommitment ------------------------
(* What the pipeline promises about money: budget is committed before a     *)
(* request leaves, one attempt of a job at a time, and is given back once,  *)
(* when the provider can no longer be running the job.                      *)
EXTENDS Integers

CONSTANTS Jobs, Numbers         \* an attempt is a job with its number

VARIABLES open,                 \* attempts whose budget is reserved
          closed,               \* attempts whose reservation was released
          sent,                 \* attempts posted to the provider
          running               \* sent attempts that may be running there

vars == <<open, closed, sent, running>>

Attempts == Jobs \X Numbers

(* What was sent before is closed.                                          *)
Init == /\ open = {} /\ running = {}
        /\ closed \in SUBSET Attempts /\ sent = closed

Commit(a) ==
    /\ a \notin open \cup closed \cup sent
    /\ \A b \in open : b[1] # a[1]
    /\ open' = open \cup {a}
    /\ UNCHANGED <<closed, sent, running>>

(* The input could not be built: the prepared attempt will be used again.   *)
Withdraw(a) ==
    /\ a \in open \ sent
    /\ open' = open \ {a}
    /\ UNCHANGED <<closed, sent, running>>

Send(a) ==
    /\ a \in open \ sent
    /\ sent' = sent \cup {a}
    /\ running' = running \cup {a}
    /\ UNCHANGED <<open, closed>>

End(a) ==
    /\ a \in running
    /\ running' = running \ {a}
    /\ UNCHANGED <<open, closed, sent>>

(* The reservation ends after the job, or with the provider's refusal.      *)
Close(a, refused) ==
    /\ a \in open
    /\ IF refused THEN a \in running ELSE a \notin running
    /\ open' = open \ {a}
    /\ closed' = closed \cup {a}
    /\ running' = running \ {a}
    /\ UNCHANGED sent

Next == \E a \in Attempts :
    \/ Commit(a) \/ Withdraw(a) \/ Send(a) \/ End(a)
    \/ \E refused \in BOOLEAN : Close(a, refused)

Spec == Init /\ [][Next]_vars
=============================================================================
