---------------------------- MODULE TaskManager ----------------------------
(***************************************************************************)
(* The task rows of a2ad and the threads that write them                   *)
(* (daemon/src/TaskManager.cpp, Database.cpp, the main loop of main.cpp):  *)
(* the main thread (startup reconciliation, then subscriptions, then the   *)
(* optional polling loop), the IPC thread (submit, respond, cancel,        *)
(* status with refresh), and one subscription thread per streamed task.    *)
(*                                                                         *)
(* Every writer reads the row, waits for the agent, and writes the row     *)
(* back; nothing holds a lock across the three.  A write is one INSERT OR  *)
(* REPLACE on a connection without busy timeout whose result is ignored:   *)
(* while another thread has a control-plane transaction open on the other  *)
(* connection, the write is dropped.                                       *)
(*                                                                         *)
(* The agent's task is the sequence of its updates: a state (with the      *)
(* message that comes with it) or an artifact chunk.  A row is the state   *)
(* it shows and the updates its messages and artifacts come from.          *)
(***************************************************************************)
EXTENDS Naturals, Sequences, FiniteSets

CONSTANTS
    Tasks,          \* local task ids; each stands for one remote task
    RemoteStates,   \* the states the agents use
    Settings,       \* the configurations and clients the daemon may meet
    Slots,          \* subscription threads; bound
    MaxCrashes,     \* bound: how often the daemon dies
    None

Terminal == {"COMPLETED", "FAILED", "CANCELED", "REJECTED"}
States == {"UNKNOWN", "SUBMITTED", "WORKING", "INPUT_REQUIRED", "AUTH_REQUIRED"} \cup Terminal
Updates == RemoteStates \cup {"ARTIFACT", "CANCELED"}
Threads == {"main", "ipc"} \cup Slots

\* The tasks whose agents stream, the requests clients make, whether the daemon
\* reconciles at startup (not under --no-reconcile) and polls
\* (reconcile_interval_sec > 0), and a bound on the updates of a remote task.
Setting == [streaming : SUBSET Tasks,
            ops : SUBSET {"create", "respond", "cancel", "refresh", "control"},
            reconcile : BOOLEAN, poll : BOOLEAN, updates : Nat]

ASSUME TasksAssumption == RemoteStates \subseteq States /\ Settings \subseteq Setting
ASSUME ThreadsAssumption ==
    /\ {"main", "ipc"} \cap Slots = {} /\ None \notin Tasks \cup Threads
    /\ MaxCrashes \in Nat

VARIABLES
    row,        \* the tasks table
    remote,     \* the agents' tasks
    thread,     \* the threads of the daemon
    phase,      \* where main() is
    todo,       \* rows the main thread listed and has still to visit
    subscribed, \* subscribed_tasks_
    txn,        \* the thread with an open control-plane transaction
    crashes,
    setting,
    spoken,     \* history: tasks answered by a bare Message
    missed      \* history: tasks this process could not or did not subscribe to

vars == <<row, remote, thread, phase, todo, subscribed, txn, crashes, setting, spoken, missed>>

Row == [state : States \cup {"ABSENT"}, seen : Seq(Nat), linked : BOOLEAN]
NoRow == [state |-> "ABSENT", seen |-> <<>>, linked |-> FALSE]

Thread == [pc : {"idle", "call", "write", "emit", "commit", "subscribe",
                 "connect", "snapshot", "stream", "check"},
           op : {"none", "create", "respond", "cancel", "refresh", "reconcile",
                 "control", "stream"},
           task : Tasks \cup {None}, existing : Row, answer : Row, at : Nat]
Quiet == [pc |-> "idle", op |-> "none", task |-> None, existing |-> NoRow,
          answer |-> NoRow, at |-> 0]

TypeOK ==
    /\ row \in [Tasks -> Row]
    /\ remote \in [Tasks -> Seq(Updates)]
    /\ thread \in [Threads -> Thread]
    /\ phase \in {"down", "reconcile", "subscribe", "loop"}
    /\ todo \subseteq [task : Tasks, image : Row]
    /\ subscribed \subseteq Tasks
    /\ txn \in Threads \cup {None}
    /\ crashes \in Nat
    /\ setting \in Settings
    /\ spoken \subseteq Tasks
    /\ missed \subseteq Tasks

Init ==
    /\ row = [t \in Tasks |-> NoRow]
    /\ remote = [t \in Tasks |-> <<>>]
    /\ thread = [th \in Threads |-> Quiet]
    /\ phase = "down"
    /\ todo = {}
    /\ subscribed = {}
    /\ txn = None
    /\ crashes = 0
    /\ setting \in Settings
    /\ spoken = {}
    /\ missed = {}

-----------------------------------------------------------------------------
(***************************************************************************)
(* The agent, and what the client library makes of its answers.            *)
(***************************************************************************)

\* The state of a task with the given updates: the last one reported.
StateOf(updates) ==
    LET reports == {k \in DOMAIN updates : updates[k] # "ARTIFACT"}
    IN updates[CHOOSE k \in reports : \A j \in reports : j <= k]

\* parseTask() of a whole Task: every update so far, in order.
Snapshot(updates) ==
    [state |-> StateOf(updates), seen |-> [k \in 1..Len(updates) |-> k], linked |-> TRUE]

Finished(t) == remote[t] # <<>> /\ StateOf(remote[t]) \in Terminal

Exists(t) == row[t].state # "ABSENT"
Open(t) == Exists(t) /\ row[t].state \notin Terminal

\* The agent works: it reports a state or delivers an artifact chunk.
AgentUpdates(t) ==
    /\ remote[t] # <<>> /\ ~Finished(t) /\ Len(remote[t]) < setting.updates
    /\ \E u \in RemoteStates \cup {"ARTIFACT"} :
          remote' = [remote EXCEPT ![t] = Append(@, u)]
    /\ UNCHANGED <<row, thread, phase, todo, subscribed, txn, crashes, setting, spoken, missed>>

\* Where a request may leave the agent's task, a bare Message not counted.
Reactions(op, t) ==
    CASE op \in {"refresh", "reconcile"} -> {remote[t]}
      [] op = "cancel" ->
            IF Finished(t) THEN {} ELSE {Append(remote[t], "CANCELED")}
      [] op \in {"create", "respond"} ->
            IF Finished(t) \/ Len(remote[t]) >= setting.updates THEN {}
            ELSE {Append(remote[t], s) : s \in RemoteStates}

-----------------------------------------------------------------------------
(***************************************************************************)
(* A request to the agent: read the row, call, write the row, tell.        *)
(***************************************************************************)


Calling(th, op, t, image) ==
    thread' = [thread EXCEPT ![th] = [Quiet EXCEPT !.pc = "call", !.op = op, !.task = t,
                                                   !.existing = image]]

ReadyIpc == phase # "down" /\ thread["ipc"].pc = "idle"

\* submit: a new local id; nothing is read.
StartCreate(t) ==
    /\ ReadyIpc /\ "create" \in setting.ops
    /\ remote[t] = <<>> /\ t \notin spoken /\ ~Exists(t)
    /\ Calling("ipc", "create", t, NoRow)
    /\ UNCHANGED <<row, remote, phase, todo, subscribed, txn, crashes, setting, spoken, missed>>

\* respond, cancel and refresh read the row; cancel and refresh have nothing to
\* ask about a task the agent does not know.
StartRequest(op, t) ==
    /\ ReadyIpc /\ op \in setting.ops
    /\ Exists(t) /\ (op # "respond" => row[t].linked)
    /\ Calling("ipc", op, t, row[t])
    /\ UNCHANGED <<row, remote, phase, todo, subscribed, txn, crashes, setting, spoken, missed>>

\* The agent answers with its Task.
CallAnswered(th) ==
    LET me == thread[th] IN
    /\ me.pc = "call"
    /\ \E updates \in Reactions(me.op, me.task) :
          /\ remote' = [remote EXCEPT ![me.task] = updates]
          /\ thread' = [thread EXCEPT ![th] =
                          [me EXCEPT !.pc = "write", !.answer = Snapshot(updates)]]
    /\ UNCHANGED <<row, phase, todo, subscribed, txn, crashes, setting, spoken, missed>>

\* The agent answers submit or respond with a bare Message: the interaction is over.
CallSpoken(th) ==
    LET me == thread[th] IN
    /\ me.pc = "call" /\ me.op \in {"create", "respond"}
    /\ thread' = [thread EXCEPT ![th] =
                    [me EXCEPT !.pc = "write", !.answer = [me.existing EXCEPT !.state = "COMPLETED"]]]
    /\ spoken' = spoken \cup {me.task}
    /\ UNCHANGED <<row, remote, phase, todo, subscribed, txn, crashes, setting, missed>>

\* No answer arrives, whether or not the agent acted: the row stays as it is.
CallUnanswered(th) ==
    LET me == thread[th] IN
    /\ me.pc = "call"
    /\ \E updates \in Reactions(me.op, me.task) \cup {remote[me.task]} :
          remote' = [remote EXCEPT ![me.task] = updates]
    /\ thread' = [thread EXCEPT ![th] = Quiet]
    /\ UNCHANGED <<row, phase, todo, subscribed, txn, crashes, setting, spoken, missed>>

RefusedAsFailed(th) ==
    LET me == thread[th] IN
    /\ me.pc = "call"
    /\ thread' = [thread EXCEPT ![th] =
                    IF me.op = "reconcile"
                    THEN [me EXCEPT !.pc = "write", !.answer = [me.existing EXCEPT !.state = "FAILED"]]
                    ELSE Quiet]
    /\ UNCHANGED <<row, remote, phase, todo, subscribed, txn, crashes, setting, spoken, missed>>
\* The agent refuses.  Only reconciliation notes it, by writing the row it had
\* listed back with an error text.
CallRefused(th) ==
    LET me == thread[th] IN
    /\ me.pc = "call"
    /\ thread' = [thread EXCEPT ![th] =
                    IF me.op = "reconcile"
                    THEN [me EXCEPT !.pc = "write", !.answer = me.existing]
                    ELSE Quiet]
    /\ UNCHANGED <<row, remote, phase, todo, subscribed, txn, crashes, setting, spoken, missed>>

\* What follows the write, the event and, for submit, the subscription.
StreamEnds(me) == me.at > 0 /\ remote[me.task][me.at] \in Terminal

AfterEvent(me) ==
    CASE me.op = "create" -> [me EXCEPT !.pc = "subscribe"]
      [] me.op = "stream" -> [me EXCEPT !.pc = IF StreamEnds(me) THEN "check" ELSE "stream",
                                        !.existing = NoRow, !.answer = NoRow]
      [] OTHER -> Quiet

Tells(me) == me.op = "create" \/ me.existing.state # me.answer.state

\* The write opens a row that was over, as a respond to an interaction that a bare
\* Message had ended does.  Nothing subscribes to such a task.
Reopens(me) ==
    /\ me.op # "stream" /\ txn = None
    /\ row[me.task].state \in Terminal /\ me.answer.state \notin Terminal

\* updateTask(): the row is replaced, or the write is dropped because the other
\* connection is writing; the caller does not learn which.
Write(th) ==
    LET me == thread[th] IN
    /\ me.pc = "write"
    /\ row' = IF txn = None THEN [row EXCEPT ![me.task] = me.answer] ELSE row
    /\ thread' = [thread EXCEPT ![th] = IF Tells(me) THEN [me EXCEPT !.pc = "emit"]
                                        ELSE AfterEvent(me)]
    /\ missed' = IF Reopens(me) THEN missed \cup {me.task} ELSE missed
    /\ UNCHANGED <<remote, phase, todo, subscribed, txn, crashes, setting, spoken>>

\* event(): a control-plane transaction begins and commits.
Emit(th) ==
    /\ thread[th].pc = "emit" /\ txn = None
    /\ txn' = th
    /\ thread' = [thread EXCEPT ![th].pc = "commit"]
    /\ UNCHANGED <<row, remote, phase, todo, subscribed, crashes, setting, spoken, missed>>

Commit(th) ==
    /\ thread[th].pc = "commit"
    /\ txn' = None
    /\ thread' = [thread EXCEPT ![th] = AfterEvent(thread[th])]
    /\ UNCHANGED <<row, remote, phase, todo, subscribed, crashes, setting, spoken, missed>>

\* Any other control-plane transaction of the IPC thread: begin(), finish() and
\* the owner's operations.
Control ==
    /\ ReadyIpc /\ "control" \in setting.ops /\ txn = None
    /\ txn' = "ipc"
    /\ thread' = [thread EXCEPT !["ipc"] = [Quiet EXCEPT !.pc = "commit", !.op = "control"]]
    /\ UNCHANGED <<row, remote, phase, todo, subscribed, crashes, setting, spoken, missed>>

-----------------------------------------------------------------------------
(***************************************************************************)
(* Subscriptions.                                                          *)
(***************************************************************************)

WatchableTwice(t, image) ==
    t \in setting.streaming /\ image.state \notin Terminal /\ image.linked
\* startSubscription(): the tasks worth a thread, once per process.
Watchable(t, image) ==
    t \in setting.streaming /\ image.state \notin Terminal /\ image.linked /\ t \notin subscribed

\* startSubscription() by thread th, which then has nothing left to do.  An agent
\* whose last discovery failed does not advertise streaming.
Subscribe(th, t, image) ==
    \/ /\ Watchable(t, image)
       /\ subscribed' = subscribed \cup {t}
       /\ \E s \in Slots :
             /\ thread[s].pc = "idle"
             /\ thread' = [thread EXCEPT ![th] = Quiet,
                             ![s] = [Quiet EXCEPT !.pc = "connect", !.op = "stream", !.task = t]]
       /\ UNCHANGED missed
    \/ /\ Watchable(t, image)
       /\ missed' = missed \cup {t}
       /\ thread' = [thread EXCEPT ![th] = Quiet]
       /\ UNCHANGED subscribed
    \/ /\ ~Watchable(t, image)
       /\ thread' = [thread EXCEPT ![th] = Quiet]
       /\ UNCHANGED <<subscribed, missed>>

CreateUnwatched(th) ==
    /\ thread[th].pc = "subscribe"
    /\ thread' = [thread EXCEPT ![th] = Quiet]
    /\ UNCHANGED <<row, remote, phase, todo, subscribed, txn, crashes, setting, spoken, missed>>
\* The end of createTask().
CreateSubscribes(th) ==
    /\ thread[th].pc = "subscribe"
    /\ Subscribe(th, thread[th].task, thread[th].answer)
    /\ UNCHANGED <<row, remote, phase, todo, txn, crashes, setting, spoken>>

\* SubscribeToTask reaches the agent: a stream begins with the whole task.  Agents
\* refuse to stream a task that is over (UnsupportedOperationError): that is one of
\* the ways a stream cannot be opened.
Connect(s) ==
    LET me == thread[s] IN
    /\ me.pc = "connect" /\ ~Finished(me.task)
    /\ thread' = [thread EXCEPT ![s] =
                    [me EXCEPT !.pc = "snapshot", !.at = Len(remote[me.task]),
                               !.answer = Snapshot(remote[me.task])]]
    /\ UNCHANGED <<row, remote, phase, todo, subscribed, txn, crashes, setting, spoken, missed>>

\* A stream cannot be opened, or breaks, or the agent closes it.
Disconnect(s) ==
    /\ thread[s].pc \in {"connect", "stream"}
    /\ thread' = [thread EXCEPT ![s].pc = "check"]
    /\ UNCHANGED <<row, remote, phase, todo, subscribed, txn, crashes, setting, spoken, missed>>

\* The callback reads the row first; without one it drops the update.
Merging(s, me, image) ==
    thread' = [thread EXCEPT ![s] =
                 IF Exists(me.task)
                 THEN [me EXCEPT !.pc = "write", !.existing = row[me.task], !.answer = image]
                 ELSE AfterEvent(me)]

\* The first event replaces what the row says of the agent's task.
OnSnapshot(s) ==
    LET me == thread[s] IN
    /\ me.pc = "snapshot"
    /\ Merging(s, me, me.answer)
    /\ UNCHANGED <<row, remote, phase, todo, subscribed, txn, crashes, setting, spoken, missed>>

MergedAlways(image, updates, k) ==
    [image EXCEPT !.state = updates[k], !.seen = Append(@, k)]
\* Merging one update: its state if it has one, its message or chunk at the end.
Merged(image, updates, k) ==
    [image EXCEPT !.state = IF updates[k] = "ARTIFACT" THEN @ ELSE updates[k],
                  !.seen = Append(@, k)]

\* Later events are single updates.
OnUpdate(s) ==
    LET me == thread[s]
        k == me.at + 1
    IN
    /\ me.pc = "stream" /\ k <= Len(remote[me.task])
    /\ Merging(s, [me EXCEPT !.at = k], Merged(row[me.task], remote[me.task], k))
    /\ UNCHANGED <<row, remote, phase, todo, subscribed, txn, crashes, setting, spoken, missed>>

\* After a stream: the thread ends if the row is gone or terminal, else it backs
\* off and connects again, for ever when the row missed the end of the task.
Check(s) ==
    LET me == thread[s] IN
    /\ me.pc = "check"
    /\ thread' = [thread EXCEPT ![s] =
                    IF Open(me.task) THEN [me EXCEPT !.pc = "connect", !.at = 0] ELSE Quiet]
    /\ UNCHANGED <<row, remote, phase, todo, subscribed, txn, crashes, setting, spoken, missed>>

-----------------------------------------------------------------------------
(***************************************************************************)
(* The main thread.                                                        *)
(***************************************************************************)

\* listNonTerminalTasks(): the rows as they are now.
Listed == {[task |-> t, image |-> row[t]] : t \in {t \in Tasks : Open(t)}}

ReadyMain(p) == phase = p /\ thread["main"].pc = "idle"

\* The socket is open; reconciliation, unless switched off, begins.
Boot ==
    /\ ReadyMain("down")
    /\ phase' = IF setting.reconcile THEN "reconcile" ELSE "subscribe"
    /\ todo' = Listed
    /\ UNCHANGED <<row, remote, thread, subscribed, txn, crashes, setting, spoken, missed>>

\* reconcileOnStartup(): the next listed row, as it was when it was listed.
ReconcileNext(item) ==
    /\ ReadyMain("reconcile") /\ item \in todo
    /\ todo' = todo \ {item}
    /\ IF item.image.linked THEN Calling("main", "reconcile", item.task, item.image)
                            ELSE UNCHANGED thread
    /\ UNCHANGED <<row, remote, phase, subscribed, txn, crashes, setting, spoken, missed>>

Reconciled ==
    /\ ReadyMain("reconcile") /\ todo = {}
    /\ phase' = "subscribe"
    /\ todo' = Listed
    /\ UNCHANGED <<row, remote, thread, subscribed, txn, crashes, setting, spoken, missed>>

\* startSubscriptions(): the next listed row.
SubscribeNext(item) ==
    /\ ReadyMain("subscribe") /\ item \in todo
    /\ todo' = todo \ {item}
    /\ Subscribe("main", item.task, item.image)
    /\ UNCHANGED <<row, remote, phase, txn, crashes, setting, spoken>>

Started ==
    /\ ReadyMain("subscribe") /\ todo = {}
    /\ phase' = "loop"
    /\ UNCHANGED <<row, remote, thread, todo, subscribed, txn, crashes, setting, spoken, missed>>

PollSubscribed ==
    /\ ReadyMain("loop") /\ setting.poll /\ todo = {}
    /\ todo' = {item \in Listed : item.task \in subscribed} /\ todo' # {}
    /\ UNCHANGED <<row, remote, thread, phase, subscribed, txn, crashes, setting, spoken, missed>>
\* The interval has passed: list, then refresh one row after the other.
PollList ==
    /\ ReadyMain("loop") /\ setting.poll /\ todo = {}
    /\ todo' = Listed /\ todo' # {}
    /\ UNCHANGED <<row, remote, thread, phase, subscribed, txn, crashes, setting, spoken, missed>>

PollNext(item) ==
    /\ ReadyMain("loop") /\ item \in todo
    /\ todo' = todo \ {item}
    /\ IF row[item.task].linked THEN Calling("main", "refresh", item.task, row[item.task])
                                ELSE UNCHANGED thread
    /\ UNCHANGED <<row, remote, phase, subscribed, txn, crashes, setting, spoken, missed>>

\* The process dies.  Rows and agents stay; an open transaction rolls back.
Crash ==
    /\ phase # "down" /\ crashes < MaxCrashes
    /\ crashes' = crashes + 1
    /\ phase' = "down"
    /\ thread' = [th \in Threads |-> Quiet]
    /\ todo' = {}
    /\ subscribed' = {}
    /\ txn' = None
    /\ missed' = {}
    /\ UNCHANGED <<row, remote, setting, spoken>>

-----------------------------------------------------------------------------

Startup == Boot \/ Reconciled \/ Started \/ PollList
    \/ \E item \in todo : ReconcileNext(item) \/ SubscribeNext(item) \/ PollNext(item)

Request == \E t \in Tasks :
    StartCreate(t) \/ \E op \in {"respond", "cancel", "refresh"} : StartRequest(op, t)

Step(th) ==
    \/ CallAnswered(th) \/ CallSpoken(th) \/ CallUnanswered(th) \/ CallRefused(th)
    \/ Write(th) \/ Emit(th) \/ Commit(th) \/ CreateSubscribes(th)

Stream(s) == Connect(s) \/ Disconnect(s) \/ OnSnapshot(s) \/ OnUpdate(s) \/ Check(s)

Next ==
    \/ Startup
    \/ Request
    \/ Control
    \/ \E th \in Threads : Step(th)
    \/ \E s \in Slots : Stream(s)
    \/ \E t \in Tasks : AgentUpdates(t)
    \/ Crash

Spec == Init /\ [][Next]_vars

\* The threads that keep the row of a task up to date.
Watching(th, t) == th # "ipc" /\ thread[th].task = t

Reached(th) == CallAnswered(th) \/ (th \in Slots /\ Connect(th))

\* Threads run; of what the watchers of a task try again and again, something
\* works now and then: the agent is reached, a write is not dropped, and an event
\* finds no other transaction open.  (The agent of a finished task is reached by
\* GetTask only.)
FairSpec ==
    /\ Spec
    /\ WF_vars(Startup)
    /\ \A th \in Threads : WF_vars(Step(th))
    /\ \A s \in Slots : WF_vars(Stream(s))
    /\ \A t \in Tasks :
          /\ SF_vars(\E th \in Threads : Watching(th, t) /\ Reached(th))
          /\ []<><<\E th \in Threads : Watching(th, t) /\ Write(th)>>_vars
                => []<><<txn = None /\ \E th \in Threads : Watching(th, t) /\ Write(th)>>_vars
          /\ SF_vars(\E th \in Threads : Watching(th, t) /\ Emit(th))

-----------------------------------------------------------------------------
(***************************************************************************)
(* Properties.                                                             *)
(***************************************************************************)

\* A row that says a task is over is right: the agent reported that very state,
\* or ended the interaction with a bare Message.  No error, timeout, restart or
\* stale write ever makes up an ending (reconcileOnStartup: "do NOT fake
\* completion").
NoFakeCompletion ==
    \A t \in Tasks : row[t].state \in Terminal =>
        \/ \E k \in DOMAIN remote[t] : remote[t][k] = row[t].state
        \/ t \in spoken /\ row[t].state = "COMPLETED"

\* No task is streamed by two threads of a process, whichever of createTask()
\* and startSubscriptions() comes first: two would merge every update twice.
OneStreamPerTask ==
    \A s1, s2 \in Slots :
        thread[s1].task # None /\ thread[s1].task = thread[s2].task => s1 = s2

\* Once startup is over and no request is being served, every open task of a
\* streaming agent has been given its subscription, also those created while
\* startup was under way.  Left out are only those whose agent's discovery had
\* failed when the subscription was due, and those that were over and reopened.
OpenTasksAreWatched ==
    phase = "loop" /\ thread["ipc"].pc = "idle" =>
        \A t \in setting.streaming :
            Open(t) /\ row[t].linked => t \in subscribed \cup missed

\* Where the daemon polls, a row that exists learns that its task is over, whatever
\* streams break, writes are dropped and daemons die on the way.  Without polling
\* nothing does: an end that the stream did not bring, or whose write was dropped,
\* waits for the next start, as the agent will not stream the task again.
EndingsAreLearnt ==
    \A t \in Tasks : (setting.poll /\ Exists(t) /\ Finished(t)) ~> row[t].state \in Terminal

\* docs/architecture.md at its word: operations that change a task are
\* serialized, so a thread replaces only the row it has read.
UpdatesAreSerialized ==
    [][\A t \in Tasks : row'[t] # row[t] =>
         \E th \in Threads : /\ thread[th].pc = "write" /\ thread'[th].pc # "write"
                             /\ thread[th].task = t
                             /\ thread[th].existing = row[t]]_vars

\* docs/implementation-plan.md at its word: a subscription persists each task
\* update, so what a row holds has no gap.
EachUpdateIsPersisted ==
    \A t \in Tasks : \A k \in DOMAIN row[t].seen : row[t].seen[k] = k
=============================================================================
