--------------------------- MODULE DispatchLedger ---------------------------
(***************************************************************************)
(* What the control plane promises about one request id, with nothing said *)
(* about processes, transactions, approvals or clocks: the request is      *)
(* opened at most once, handed to the network at most once and only while  *)
(* it is open, and its outcome, once recorded, stays.  ControlPlane is     *)
(* shown to implement this specification.                                  *)
(***************************************************************************)
EXTENDS Naturals

CONSTANT Ids          \* the request ids clients use

VARIABLES outcome,    \* what the execution record of an id says
          calls       \* how often an id was handed to the dispatcher

ledgerVars == <<outcome, calls>>

Outcomes == {"ABSENT", "DISPATCHING", "DELIVERED", "FAILED", "UNCERTAIN"}

Init ==
    /\ outcome = [i \in Ids |-> "ABSENT"]
    /\ calls = [i \in Ids |-> 0]

\* The request is admitted.
Open(i) ==
    /\ outcome[i] = "ABSENT"
    /\ outcome' = [outcome EXCEPT ![i] = "DISPATCHING"]
    /\ UNCHANGED calls

\* The one call that leaves the daemon for this id.
Call(i) ==
    /\ outcome[i] = "DISPATCHING"
    /\ calls[i] = 0
    /\ calls' = [calls EXCEPT ![i] = 1]
    /\ UNCHANGED outcome

\* An answer, or the lack of one, is recorded after the call.
Settle(i) ==
    /\ outcome[i] = "DISPATCHING"
    /\ calls[i] = 1
    /\ \E o \in {"DELIVERED", "FAILED", "UNCERTAIN"} :
          outcome' = [outcome EXCEPT ![i] = o]
    /\ UNCHANGED calls

\* Whatever was open when the process died is uncertain, called or not.
Recover ==
    /\ outcome' = [i \in Ids |-> IF outcome[i] = "DISPATCHING"
                                 THEN "UNCERTAIN" ELSE outcome[i]]
    /\ UNCHANGED calls

Next == Recover \/ \E i \in Ids : Open(i) \/ Call(i) \/ Settle(i)

Spec == Init /\ [][Next]_ledgerVars
=============================================================================
