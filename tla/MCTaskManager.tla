--------------------------- MODULE MCTaskManager ---------------------------
(***************************************************************************)
(* Small instances of TaskManager: one task of an agent that works and     *)
(* completes, two subscription threads, and the settings of the runs.      *)
(***************************************************************************)
EXTENDS TaskManager

CONSTANTS t1, s1, s2

With(streaming, ops, reconcile, poll, updates) ==
    [streaming |-> streaming, ops |-> ops, reconcile |-> reconcile, poll |-> poll, updates |-> updates]

\* The agent streams and nothing polls; or the daemon polls as well; or the agent does
\* not stream, and everything polls and asks.
TaskRows ==
    {With({t1}, {"create", "control"}, TRUE, FALSE, 3),
     With({t1}, {"create", "respond"}, TRUE, FALSE, 2),
     With({t1}, {"create", "control"}, FALSE, TRUE, 2),
     With({}, {"create", "respond", "cancel", "refresh", "control"}, TRUE, TRUE, 2)}

\* Two writers of one row.
Refreshing == {With({t1}, {"create", "refresh"}, TRUE, FALSE, 3)}

\* One writer, and other transactions.
Controlling == {With({t1}, {"create", "control"}, FALSE, FALSE, 3)}
=============================================================================
