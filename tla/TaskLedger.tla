----------------------------- MODULE TaskLedger -----------------------------
(***************************************************************************)
(* What DistributedExecutor promises about one submission after another,   *)
(* whatever nodes, queues and workers lie underneath: a task is accepted   *)
(* or refused, once; an accepted task is settled at most once; a refused   *)
(* one never is, nor one whose submitter no longer waits; a settled result *)
(* is never taken back.                                                    *)
(***************************************************************************)
CONSTANT Task

VARIABLE ledger  \* ledger[t]: what the submitter of t has been told

Entry == {"new", "refused", "pending", "done", "failed", "withdrawn"}

Init == ledger = [t \in Task |-> "new"]

Accept(t) ==
  /\ ledger[t] = "new"
  /\ ledger' = [ledger EXCEPT ![t] = "pending"]

Refuse(t) ==
  /\ ledger[t] = "new"
  /\ ledger' = [ledger EXCEPT ![t] = "refused"]

Settle(t) ==
  /\ ledger[t] = "pending"
  /\ \E r \in {"done", "failed"} : ledger' = [ledger EXCEPT ![t] = r]

\* The submitter stops waiting for it.
Withdraw(t) ==
  /\ ledger[t] = "pending"
  /\ ledger' = [ledger EXCEPT ![t] = "withdrawn"]

Next == \E t \in Task : Accept(t) \/ Refuse(t) \/ Settle(t) \/ Withdraw(t)

Spec == Init /\ [][Next]_ledger

=============================================================================
