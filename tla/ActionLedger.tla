----------------------------- MODULE ActionLedger -----------------------------
(***************************************************************************)
(* What the execution of a campaign promises, without jobs, runs, locks,   *)
(* journeys and retries: an execution handles every reachable action, each *)
(* under a ledger row that is committed before the provider is called, and *)
(* what is completed, an action or the campaign, stays so.                 *)
(***************************************************************************)
EXTENDS Naturals, FiniteSets

CONSTANTS
  Actions, \* the actions of a profile on a node
  Execs    \* the executions, numbered from 1

VARIABLES
  status,    \* of the campaign
  execution, \* the current one, 0 before the first
  reach,     \* the actions that are due
  ledger,    \* the row of each action in each execution
  calls      \* actions whose provider has been called, until the outcome is
             \* recorded or lost

vars == <<status, execution, reach, ledger, calls>>

Terminal == {"Sent", "Skipped"}
Row(a) == ledger[execution][a]
Handled == \A a \in reach : Row(a) \in Terminal

Init ==
  /\ reach \subseteq Actions /\ calls = {}
  /\ \/ status = "Draft" /\ execution = 0
     \/ status = "Completed" /\ execution = 1 /\ Handled
  /\ ledger \in [Execs -> [Actions -> {"absent"} \cup Terminal]]

\* A failed execution is resumed, any other activation is a new execution.
Activate ==
  /\ status # "Running" /\ status' = "Running"
  /\ calls = {}
  /\ execution' = IF status = "Failed" THEN execution ELSE execution + 1
  /\ execution' \in Execs
  /\ UNCHANGED <<reach, ledger, calls>>

UnderWay == status \in {"Running", "Failed"} /\ calls = {}

Write(a, s) == ledger' = [ledger EXCEPT ![execution][a] = s]

\* One call at a time, announced by its row, and none for a completed action.
Call(a) ==
  /\ UnderWay
  /\ Row(a) \notin Terminal /\ Write(a, "Running")
  /\ calls' = {a}
  /\ UNCHANGED <<status, execution, reach>>

\* The outcome of a call is recorded, or lost with its process.
Record(a, s) ==
  /\ a \in calls /\ calls' = {}
  /\ Write(a, s)
  /\ UNCHANGED <<status, execution, reach>>

Lose ==
  /\ calls' = {}
  /\ UNCHANGED <<status, execution, reach, ledger>>

\* Any reason will do to fail, but only completed actions to complete.
End ==
  /\ UnderWay
  /\ status' = "Failed" \/ (status' = "Completed" /\ Handled)
  /\ UNCHANGED <<execution, reach, ledger, calls>>

Next ==
  \/ Activate \/ Lose \/ End
  \/ \E a \in reach :
       Call(a) \/ \E s \in Terminal \cup {"Failed"} : Record(a, s)

Spec == Init /\ [][Next]_vars

-----------------------------------------------------------------------------
\* What follows: one call at a time, under its Running row and during an
\* execution, and no Completed campaign with an action left.
Kept ==
  /\ \A a, b \in calls : a = b
  /\ \A a \in calls : Row(a) = "Running" /\ status \in {"Running", "Failed"}
  /\ status = "Completed" => Handled

\* And no row of a completed action is ever written again, in its execution or
\* any later one.
RowsFinal ==
  [][\A e \in Execs, a \in Actions :
       ledger[e][a] \in Terminal => ledger'[e][a] = ledger[e][a]]_vars
=============================================================================
