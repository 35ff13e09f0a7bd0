------------------------- MODULE TaskManagerProofs -------------------------
(***************************************************************************)
(* Theorems about TaskManager: for any number of tasks and threads, no row *)
(* makes up an ending, no task is streamed twice, and no open task is left *)
(* without its subscription, whatever the agents report and however often  *)
(* the daemon dies.                                                        *)
(***************************************************************************)
EXTENDS TaskManager, NumberLemmas, SequenceTheorems, TLAPS

-----------------------------------------------------------------------------
(***************************************************************************)
(* The last report of a task.                                              *)
(***************************************************************************)

\* A remote task begins with a state: its updates are empty or start with one.
Begun(updates) == updates \in Seq(Updates) /\ (updates # <<>> => updates[1] # "ARTIFACT")

\* The state of a task that exists is one it reported.
LEMMA StateIsReported ==
  ASSUME NEW updates, Begun(updates), updates # <<>>
  PROVE  /\ StateOf(updates) \in States
         /\ \E k \in DOMAIN updates : updates[k] = StateOf(updates)
<1> DEFINE reports == {k \in DOMAIN updates : updates[k] # "ARTIFACT"}
<1>1. /\ Len(updates) \in Nat /\ DOMAIN updates = 1..Len(updates) /\ 1 \in DOMAIN updates
      /\ \A k \in DOMAIN updates : updates[k] \in Updates
  BY EmptySeq, LenProperties, ElementOfSeq DEF Begun
<1>2. reports \in SUBSET (1..Len(updates)) /\ reports # {}
  BY <1>1 DEF Begun
<1>3. \E k \in reports : \A j \in reports : j <= k
  <2> HIDE DEF reports
  <2>1. QED
    BY <1>1, <1>2, Greatest, Zenon
<1> DEFINE last == CHOOSE k \in reports : \A j \in reports : j <= k
<1>4. last \in reports
  BY <1>3, Zenon
<1>5. StateOf(updates) = updates[last]
  BY DEF StateOf
<1> HIDE DEF last
<1>6. updates[last] \in States
  BY <1>1, <1>4, TasksAssumption DEF Updates, States, Terminal
<1>7. QED
  BY <1>4, <1>5, <1>6

\* What the client library makes of an agent's task is a row.
LEMMA SnapshotIsRow ==
  ASSUME NEW updates, Begun(updates), updates # <<>>
  PROVE  /\ Snapshot(updates) \in Row
         /\ Snapshot(updates).linked
         /\ Snapshot(updates).state = StateOf(updates)
<1>1. Len(updates) \in Nat
  BY LenProperties DEF Begun
<1>2. [k \in 1..Len(updates) |-> k] \in Seq(Nat)
  BY <1>1
<1>3. QED
  BY <1>2, StateIsReported DEF Snapshot, Row

-----------------------------------------------------------------------------
(***************************************************************************)
(* The invariant.  What a row, a listed row or a thread's copy of a row    *)
(* says is backed by the agent's task, and each thread does what its kind  *)
(* of thread may do.                                                       *)
(***************************************************************************)

Grows(before, after) ==
    \A t \in Tasks :
        /\ Begun(before[t]) /\ Begun(after[t])
        /\ Len(before[t]) <= Len(after[t])
        /\ \A k \in DOMAIN before[t] : k \in DOMAIN after[t] /\ after[t][k] = before[t][k]

\* The image is what an agent's task with these updates may have looked like.
Backed(image, updates, answered) ==
    /\ image.state \in Terminal =>
          (\E k \in DOMAIN updates : updates[k] = image.state) \/ (answered /\ image.state = "COMPLETED")
    /\ image.linked => updates # <<>>

Requests == {"create", "respond", "cancel", "refresh", "reconcile"}

\* The thread's record is one of its kind.
Works(th, me, agents, answered, watched) ==
    /\ me \in Thread
    /\ me.pc = "idle" => me = Quiet
    /\ me.task # None <=> me.op \in Requests \cup {"stream"}
    /\ me.op = "stream" <=> me.task # None /\ th \in Slots
    /\ me.op = "control" => me.pc = "commit"
    /\ me.op = "none" => me.pc = "idle"
    /\ me.op = "stream" => me.pc \notin {"idle", "call", "subscribe"}
    /\ me.pc \in {"connect", "snapshot", "stream", "check"} => me.op = "stream"
    /\ me.pc = "subscribe" => me.op = "create"
    /\ me.op = "stream" => me.task \in watched /\ me.at <= Len(agents[me.task])
    /\ me.op \in {"stream", "cancel", "refresh", "reconcile"} => agents[me.task] # <<>>
    /\ me.task # None => /\ Backed(me.existing, agents[me.task], me.task \in answered)
                         /\ Backed(me.answer, agents[me.task], me.task \in answered)

ThreadsInv == \A th \in Threads : Works(th, thread[th], remote, spoken, subscribed)
RowsInv == \A t \in Tasks : Backed(row[t], remote[t], t \in spoken)
TodoInv == \A item \in todo : Backed(item.image, remote[item.task], item.task \in spoken)
RemoteInv == \A t \in Tasks : Begun(remote[t])
StreamsInv == \A s1, s2 \in Slots : thread[s1].task # None /\ thread[s1].task = thread[s2].task => s1 = s2

TasksInv == TypeOK /\ RemoteInv /\ ThreadsInv /\ RowsInv /\ TodoInv /\ StreamsInv

\* More updates back what fewer did.
LEMMA BackedLater ==
  ASSUME NEW image, NEW t \in Tasks, NEW before, NEW after, Grows(before, after),
         NEW spoke, NEW speaks, spoke \subseteq speaks, Backed(image, before[t], t \in spoke)
  PROVE  Backed(image, after[t], t \in speaks)
<1>1. /\ Begun(before[t]) /\ Begun(after[t]) /\ Len(before[t]) <= Len(after[t])
      /\ \A k \in DOMAIN before[t] : k \in DOMAIN after[t] /\ after[t][k] = before[t][k]
  BY DEF Grows
<1>2. before[t] # <<>> => after[t] # <<>>
  BY <1>1, EmptySeq, LenProperties DEF Begun
<1>3. QED
  BY <1>1, <1>2 DEF Backed

\* A thread that is left alone goes on as it was.
LEMMA WorksLater ==
  ASSUME NEW th, NEW me, NEW before, NEW after, Grows(before, after),
         NEW spoke, NEW speaks, spoke \subseteq speaks, NEW watched, NEW watches, watched \subseteq watches,
         Works(th, me, before, spoke, watched)
  PROVE  Works(th, me, after, speaks, watches)
<1>1. me.task \in Tasks \cup {None}
  BY DEF Works, Thread
<1>2. CASE me.task = None
  BY <1>2 DEF Works, Requests
<1>3. CASE me.task \in Tasks
  <2>1. /\ Backed(me.existing, after[me.task], me.task \in speaks)
        /\ Backed(me.answer, after[me.task], me.task \in speaks)
    BY <1>3, BackedLater, ThreadsAssumption DEF Works
  <2>2. before[me.task] # <<>> => after[me.task] # <<>>
    BY <1>3, EmptySeq, LenProperties DEF Grows, Begun
  <2>3. me.at \in Nat /\ Len(before[me.task]) \in Nat /\ Len(after[me.task]) \in Nat
        /\ Len(before[me.task]) <= Len(after[me.task])
    BY <1>3, LenProperties DEF Works, Thread, Grows, Begun
  <2>4. QED
    BY <1>3, <2>1, <2>2, <2>3 DEF Works
<1>4. QED
  BY <1>1, <1>2, <1>3

\* A thread with nothing to do is in order.
LEMMA QuietWorks ==
  ASSUME NEW th, NEW agents, NEW answered, NEW watched
  PROVE  Works(th, Quiet, agents, answered, watched)
  BY ThreadsAssumption DEF Works, Quiet, Thread, NoRow, Row, Requests

-----------------------------------------------------------------------------
(***************************************************************************)
(* What a step may change.                                                 *)
(***************************************************************************)

\* Agents that report nothing stay as they are.
LEMMA NoReport == RemoteInv => Grows(remote, remote)
<1> SUFFICES ASSUME RemoteInv, NEW t \in Tasks
             PROVE  Begun(remote[t]) /\ Len(remote[t]) <= Len(remote[t])
  BY DEF Grows, RemoteInv
<1>1. Len(remote[t]) \in Nat
  BY LenProperties DEF RemoteInv, Begun
<1>2. QED
  BY <1>1 DEF RemoteInv

\* The agent's task after a report begins like before.
LEMMA OneReport ==
  ASSUME NEW updates, Begun(updates), NEW u \in Updates, updates = <<>> => u # "ARTIFACT"
  PROVE  /\ Begun(Append(updates, u)) /\ Append(updates, u) # <<>>
         /\ Len(updates) <= Len(Append(updates, u))
         /\ \A k \in DOMAIN updates : /\ k \in DOMAIN Append(updates, u)
                                      /\ Append(updates, u)[k] = updates[k]
<1> DEFINE after == Append(updates, u)
<1>1. updates \in Seq(Updates) /\ Len(updates) \in Nat /\ DOMAIN updates = 1..Len(updates)
  BY LenProperties DEF Begun
<1>2. /\ after \in Seq(Updates) /\ after # <<>> /\ Len(after) = Len(updates) + 1
      /\ \A i \in 1..Len(updates) : after[i] = updates[i]
      /\ after[Len(updates) + 1] = u
  BY <1>1, AppendProperties
<1>3. DOMAIN after = 1..(Len(updates) + 1)
  BY <1>2, LenProperties
<1> HIDE DEF after
<1>4. after[1] # "ARTIFACT"
  <2>1. CASE updates = <<>>
    BY <1>2, <2>1, EmptySeq
  <2>2. CASE updates # <<>>
    BY <1>1, <1>2, <2>2, EmptySeq DEF Begun
  <2>3. QED
    BY <2>1, <2>2
<1>5. QED
  BY <1>1, <1>2, <1>3, <1>4 DEF Begun, after

\* One agent's task goes on.
LEMMA Report ==
  ASSUME TypeOK, RemoteInv, NEW t \in Tasks, NEW updates,
         remote' = [remote EXCEPT ![t] = updates],
         updates = remote[t] \/ \E u \in Updates : /\ remote[t] = <<>> => u # "ARTIFACT"
                                                   /\ updates = Append(remote[t], u)
  PROVE  Grows(remote, remote') /\ remote' \in [Tasks -> Seq(Updates)]
<1>1. \A s \in Tasks : Begun(remote[s]) /\ Len(remote[s]) \in Nat
  BY LenProperties DEF RemoteInv, Begun
<1>2. /\ Begun(updates) /\ Len(remote[t]) <= Len(updates)
      /\ \A k \in DOMAIN remote[t] : k \in DOMAIN updates /\ updates[k] = remote[t][k]
  <2>1. CASE updates = remote[t]
    BY <1>1, <2>1
  <2>2. ASSUME NEW u \in Updates, remote[t] = <<>> => u # "ARTIFACT", updates = Append(remote[t], u)
        PROVE  /\ Begun(updates) /\ Len(remote[t]) <= Len(updates)
               /\ \A k \in DOMAIN remote[t] : k \in DOMAIN updates /\ updates[k] = remote[t][k]
    BY <1>1, <2>2, OneReport
  <2>3. QED
    BY <2>1, <2>2
<1>3. /\ remote'[t] = updates
      /\ \A s \in Tasks : s # t => remote'[s] = remote[s]
  BY DEF TypeOK
<1>4. \A s \in Tasks : /\ Begun(remote'[s]) /\ Len(remote[s]) <= Len(remote'[s])
                       /\ \A k \in DOMAIN remote[s] : k \in DOMAIN remote'[s] /\ remote'[s][k] = remote[s][k]
  BY <1>1, <1>2, <1>3
<1>5. QED
  BY <1>1, <1>2, <1>4 DEF Grows, Begun, TypeOK

\* The steps that leave a thread's image of the world in order: the agents and
\* the sets of tasks only grow.
Onward ==
    /\ Grows(remote, remote') /\ remote' \in [Tasks -> Seq(Updates)]
    /\ spoken \subseteq spoken' /\ subscribed \subseteq subscribed'

\* Threads that are left alone go on.
LEMMA OthersWork ==
  ASSUME TasksInv, Onward, NEW th \in Threads, thread'[th] = thread[th]
  PROVE  Works(th, thread'[th], remote', spoken', subscribed')
<1>1. Works(th, thread[th], remote, spoken, subscribed)
  BY DEF TasksInv, ThreadsInv
<1>2. Grows(remote, remote') /\ spoken \subseteq spoken' /\ subscribed \subseteq subscribed'
  BY DEF Onward
<1>3. Works(th, thread[th], remote', spoken', subscribed')
  BY <1>1, <1>2, WorksLater
<1>4. QED
  BY <1>3

\* A step of one thread.
LEMMA OneThread ==
  ASSUME TasksInv, Onward, NEW th \in Threads, NEW new, thread' = [thread EXCEPT ![th] = new],
         Works(th, new, remote', spoken', subscribed'), new.task \in {thread[th].task, None} \/ th \notin Slots
  PROVE  ThreadsInv' /\ StreamsInv' /\ thread' \in [Threads -> Thread]
<1>1. thread'[th] = new /\ \A o \in Threads : o # th => thread'[o] = thread[o]
  BY DEF TasksInv, TypeOK
<1>2. ASSUME NEW o \in Threads
      PROVE  Works(o, thread'[o], remote', spoken', subscribed')
  BY <1>1, OthersWork
<1>3. StreamsInv'
  <2>1. \A s \in Slots : s \in Threads
    BY DEF Threads
  <2>2. \A s \in Slots : thread'[s].task = thread[s].task \/ thread'[s].task = None
    BY <1>1, <2>1
  <2>3. QED
    BY <2>2 DEF TasksInv, StreamsInv
<1>4. new \in Thread
  BY DEF Works
<1>5. thread' \in [Threads -> Thread]
  BY <1>4 DEF TasksInv, TypeOK
<1>6. QED
  BY <1>2, <1>3, <1>5 DEF ThreadsInv

\* Rows and listed rows that are left alone stay backed.
LEMMA ImagesKept ==
  ASSUME TasksInv, Onward
  PROVE  /\ \A t \in Tasks : Backed(row[t], remote'[t], t \in spoken')
         /\ \A item \in todo : Backed(item.image, remote'[item.task], item.task \in spoken')
         /\ RemoteInv'
<1>1. \A t \in Tasks : Backed(row[t], remote'[t], t \in spoken')
  BY BackedLater, Zenon DEF TasksInv, RowsInv, Onward
<1>2. \A item \in todo : item.task \in Tasks
  BY DEF TasksInv, TypeOK
<1>3. \A item \in todo : Backed(item.image, remote'[item.task], item.task \in spoken')
  BY <1>2, BackedLater, Zenon DEF TasksInv, TodoInv, Onward
<1>4. QED
  BY <1>1, <1>3 DEF RemoteInv, Onward, Grows

\* A step that no agent takes part in.
LEMMA AgentsRest ==
  ASSUME TasksInv, remote' = remote, spoken \subseteq spoken', subscribed \subseteq subscribed'
  PROVE  Onward
  BY NoReport DEF TasksInv, TypeOK, Onward

\* What a row that does not exist says is backed by anything.
LEMMA NothingSaid ==
  ASSUME NEW updates, NEW answered
  PROVE  NoRow \in Row /\ Backed(NoRow, updates, answered)
  BY DEF NoRow, Row, Backed, Terminal

-----------------------------------------------------------------------------
(***************************************************************************)
(* Requests to the agents.                                                 *)
(***************************************************************************)

\* A thread calls an agent about a row it has read.
LEMMA CallStep ==
  ASSUME TasksInv, NEW th \in {"main", "ipc"}, NEW op \in Requests, NEW t \in Tasks, NEW image \in Row,
         Backed(image, remote[t], t \in spoken),
         op \in {"cancel", "refresh", "reconcile"} => remote[t] # <<>>,
         Calling(th, op, t, image), UNCHANGED <<remote, spoken, subscribed>>
  PROVE  ThreadsInv' /\ StreamsInv' /\ thread' \in [Threads -> Thread]
<1> DEFINE new == [Quiet EXCEPT !.pc = "call", !.op = op, !.task = t, !.existing = image]
<1>1. th \in Threads /\ th \notin Slots /\ None \notin Tasks
  BY ThreadsAssumption DEF Threads
<1>2. new \in Thread
  BY NothingSaid DEF Thread, Quiet, Requests
<1>3. /\ new.pc = "call" /\ new.op = op /\ new.task = t /\ new.existing = image /\ new.answer = NoRow
  BY DEF Quiet
<1>4. thread' = [thread EXCEPT ![th] = new]
  BY DEF Calling
<1> HIDE DEF new
<1>5. Works(th, new, remote, spoken, subscribed)
  BY <1>1, <1>2, <1>3, NothingSaid DEF Works, Requests
<1>6. QED
  BY <1>1, <1>4, <1>5, AgentsRest, OneThread

\* The IPC thread starts a request.
LEMMA RequestStep == TasksInv /\ Request => TasksInv'
<1> SUFFICES ASSUME TasksInv, Request
             PROVE  TasksInv'
  OBVIOUS
<1>1. UNCHANGED <<row, remote, phase, todo, subscribed, txn, crashes, setting, spoken, missed>>
  BY DEF Request, StartCreate, StartRequest
<1>2. Onward
  BY <1>1, AgentsRest
<1>3. ThreadsInv' /\ StreamsInv' /\ thread' \in [Threads -> Thread]
  <2>1. ASSUME NEW t \in Tasks, StartCreate(t)
        PROVE  ThreadsInv' /\ StreamsInv' /\ thread' \in [Threads -> Thread]
    <3>1. Calling("ipc", "create", t, NoRow)
      BY <2>1 DEF StartCreate
    <3>2. QED
      BY <1>1, <3>1, CallStep, NothingSaid DEF Requests
  <2>2. ASSUME NEW t \in Tasks, NEW op \in {"respond", "cancel", "refresh"}, StartRequest(op, t)
        PROVE  ThreadsInv' /\ StreamsInv' /\ thread' \in [Threads -> Thread]
    <3>1. Calling("ipc", op, t, row[t]) /\ (op # "respond" => row[t].linked)
      BY <2>2 DEF StartRequest
    <3>2. row[t] \in Row /\ Backed(row[t], remote[t], t \in spoken)
      BY DEF TasksInv, TypeOK, RowsInv
    <3>3. op # "respond" => remote[t] # <<>>
      BY <3>1, <3>2 DEF Backed
    <3>4. QED
      BY <1>1, <3>1, <3>2, <3>3, CallStep DEF Requests
  <2>3. QED
    BY <2>1, <2>2 DEF Request
<1>4. QED
  BY <1>1, <1>2, <1>3, ImagesKept DEF TasksInv, TypeOK, RowsInv, TodoInv

\* An agent reports.
LEMMA AgentStep == TasksInv /\ (\E t \in Tasks : AgentUpdates(t)) => TasksInv'
<1> SUFFICES ASSUME TasksInv, NEW t \in Tasks, AgentUpdates(t)
             PROVE  TasksInv'
  OBVIOUS
<1>1. UNCHANGED <<row, thread, phase, todo, subscribed, txn, crashes, setting, spoken, missed>>
  BY DEF AgentUpdates
<1>2. PICK u \in RemoteStates \cup {"ARTIFACT"} : remote' = [remote EXCEPT ![t] = Append(@, u)]
  BY DEF AgentUpdates
<1>3. remote[t] # <<>> /\ u \in Updates
  BY DEF AgentUpdates, Updates
<1>4. Grows(remote, remote') /\ remote' \in [Tasks -> Seq(Updates)]
  BY <1>2, <1>3, Report DEF TasksInv
<1>5. Onward
  BY <1>1, <1>4 DEF Onward
<1>6. ThreadsInv'
  BY <1>1, <1>5, OthersWork DEF ThreadsInv
<1>7. StreamsInv'
  BY <1>1 DEF TasksInv, StreamsInv
<1>8. QED
  BY <1>1, <1>4, <1>5, <1>6, <1>7, ImagesKept DEF TasksInv, TypeOK, RowsInv, TodoInv

\* A request leaves the agent's task as it was or adds a report.
LEMMA ReactionStep ==
  ASSUME TypeOK, RemoteInv, NEW t \in Tasks, NEW op \in Requests, NEW updates \in Reactions(op, t)
  PROVE  updates = remote[t] \/ \E u \in Updates : /\ remote[t] = <<>> => u # "ARTIFACT"
                                                   /\ updates = Append(remote[t], u)
<1>1. CASE op \in {"refresh", "reconcile"}
  BY <1>1 DEF Reactions
<1>2. CASE op = "cancel"
  BY <1>2 DEF Reactions, Updates
<1>3. CASE op \in {"create", "respond"}
  <2>1. PICK s \in RemoteStates : updates = Append(remote[t], s)
    BY <1>3 DEF Reactions
  <2>2. s \in Updates /\ s # "ARTIFACT"
    BY TasksAssumption DEF Updates, States, Terminal
  <2>3. QED
    BY <2>1, <2>2
<1>4. QED
  BY <1>1, <1>2, <1>3 DEF Requests

\* What a call finds the agent's task to be exists.
LEMMA ReactionExists ==
  ASSUME TypeOK, RemoteInv, NEW t \in Tasks, NEW op \in Requests, NEW updates \in Reactions(op, t),
         op \in {"cancel", "refresh", "reconcile"} => remote[t] # <<>>
  PROVE  updates # <<>>
<1>1. CASE op \in {"refresh", "reconcile"}
  BY <1>1 DEF Reactions
<1>2. CASE op \in {"create", "respond", "cancel"}
  <2>1. PICK u : updates = Append(remote[t], u) /\ u \in Updates
    BY <1>2, ReactionStep, TasksAssumption DEF Reactions, Updates, States
  <2>2. QED
    BY <2>1, AppendProperties DEF TypeOK
<1>3. QED
  BY <1>1, <1>2 DEF Requests

\* The whole task of an agent backs itself.
LEMMA SnapshotBacked ==
  ASSUME NEW updates, Begun(updates), updates # <<>>, NEW answered
  PROVE  Backed(Snapshot(updates), updates, answered)
  BY SnapshotIsRow, StateIsReported DEF Backed

\* The four ways a call ends.
LEMMA CallEnds ==
  ASSUME TasksInv, NEW th \in Threads,
         CallAnswered(th) \/ CallSpoken(th) \/ CallUnanswered(th) \/ CallRefused(th)
  PROVE  TasksInv'
<1> DEFINE me == thread[th]
<1>1. /\ me.pc = "call" /\ me \in Thread /\ Works(th, me, remote, spoken, subscribed)
      /\ UNCHANGED <<row, phase, todo, subscribed, txn, crashes, setting, missed>>
  BY DEF CallAnswered, CallSpoken, CallUnanswered, CallRefused, TasksInv, TypeOK, ThreadsInv
<1>2. /\ me.op \in Requests /\ me.task \in Tasks /\ th \notin Slots
      /\ me.op \in {"cancel", "refresh", "reconcile"} => remote[me.task] # <<>>
  BY <1>1 DEF Works, Requests, Thread
<1>3. RemoteInv /\ TypeOK
  BY DEF TasksInv
<1>4. Onward /\ spoken' \subseteq Tasks
  <2>1. CASE remote' = remote /\ spoken \subseteq spoken' /\ spoken' \subseteq spoken \cup {me.task}
    BY <1>1, <1>2, <2>1, AgentsRest DEF TasksInv, TypeOK
  <2>2. ASSUME NEW updates \in Reactions(me.op, me.task) \cup {remote[me.task]},
               remote' = [remote EXCEPT ![me.task] = updates], spoken' = spoken
        PROVE  Onward /\ spoken' \subseteq Tasks
    <3>1. updates = remote[me.task] \/ \E u \in Updates : /\ remote[me.task] = <<>> => u # "ARTIFACT"
                                                          /\ updates = Append(remote[me.task], u)
      BY <1>2, <1>3, ReactionStep
    <3>2. Grows(remote, remote') /\ remote' \in [Tasks -> Seq(Updates)]
      BY <1>2, <1>3, <2>2, <3>1, Report
    <3>3. QED
      BY <1>1, <2>2, <3>2 DEF Onward, TasksInv, TypeOK
  <2>3. QED
    BY <2>1, <2>2 DEF CallAnswered, CallSpoken, CallUnanswered, CallRefused
<1>5. PICK new : /\ thread' = [thread EXCEPT ![th] = new]
                 /\ Works(th, new, remote', spoken', subscribed')
  <2>1. Works(th, me, remote', spoken', subscribed')
    BY <1>1, <1>4, WorksLater DEF Onward
  <2>2. CASE CallAnswered(th)
    <3>1. PICK updates \in Reactions(me.op, me.task) :
             /\ remote' = [remote EXCEPT ![me.task] = updates]
             /\ thread' = [thread EXCEPT ![th] = [me EXCEPT !.pc = "write", !.answer = Snapshot(updates)]]
      BY <2>2 DEF CallAnswered
    <3>2. updates # <<>> /\ remote'[me.task] = updates
      BY <1>2, <1>3, <3>1, ReactionExists DEF TypeOK
    <3>3. Begun(updates)
      BY <1>2, <1>4, <3>2 DEF Onward, Grows
    <3>4. Snapshot(updates) \in Row /\ Backed(Snapshot(updates), remote'[me.task], me.task \in spoken')
      BY <3>2, <3>3, SnapshotIsRow, SnapshotBacked
    <3> DEFINE new == [me EXCEPT !.pc = "write", !.answer = Snapshot(updates)]
    <3>5. /\ new \in Thread /\ new.pc = "write" /\ new.op = me.op /\ new.task = me.task
          /\ new.existing = me.existing /\ new.answer = Snapshot(updates) /\ new.at = me.at
      BY <1>1, <3>4 DEF Thread
    <3> HIDE DEF new
    <3>6. Works(th, new, remote', spoken', subscribed')
      BY <1>2, <2>1, <3>4, <3>5 DEF Works, Requests
    <3>7. QED
      BY <3>1, <3>6 DEF new
  <2>3. CASE CallSpoken(th)
    <3> DEFINE image == [me.existing EXCEPT !.state = "COMPLETED"]
               new == [me EXCEPT !.pc = "write", !.answer = image]
    <3>1. thread' = [thread EXCEPT ![th] = new] /\ spoken' = spoken \cup {me.task}
      BY <2>3 DEF CallSpoken
    <3>2. me.existing \in Row
      BY <1>1 DEF Thread
    <3>3. image \in Row /\ image.state = "COMPLETED" /\ image.linked = me.existing.linked
      BY <3>2 DEF Row, States, Terminal
    <3>4. Backed(image, remote'[me.task], me.task \in spoken')
      BY <1>2, <2>1, <3>1, <3>3, ThreadsAssumption DEF Works, Backed, Requests
    <3> HIDE DEF image
    <3>5. /\ new \in Thread /\ new.pc = "write" /\ new.op = me.op /\ new.task = me.task
          /\ new.existing = me.existing /\ new.answer = image /\ new.at = me.at
      BY <1>1, <3>3 DEF Thread
    <3> HIDE DEF new
    <3>6. Works(th, new, remote', spoken', subscribed')
      BY <1>2, <2>1, <3>4, <3>5 DEF Works, Requests
    <3>7. QED
      BY <3>1, <3>6
  <2>4. CASE CallUnanswered(th)
    BY <2>4, QuietWorks DEF CallUnanswered
  <2>5. CASE CallRefused(th)
    <3> DEFINE new == [me EXCEPT !.pc = "write", !.answer = me.existing]
    <3>1. \/ thread' = [thread EXCEPT ![th] = Quiet]
          \/ thread' = [thread EXCEPT ![th] = new]
      BY <2>5 DEF CallRefused
    <3>2. /\ new \in Thread /\ new.pc = "write" /\ new.op = me.op /\ new.task = me.task
          /\ new.existing = me.existing /\ new.answer = me.existing /\ new.at = me.at
      BY <1>1 DEF Thread
    <3> HIDE DEF new
    <3>3. Works(th, new, remote', spoken', subscribed')
      BY <1>2, <2>1, <3>2 DEF Works, Requests
    <3>4. QED
      BY <3>1, <3>3, QuietWorks
  <2>6. QED
    BY <2>2, <2>3, <2>4, <2>5
<1>6. ThreadsInv' /\ StreamsInv' /\ thread' \in [Threads -> Thread]
  BY <1>2, <1>4, <1>5, OneThread
<1>7. QED
  BY <1>1, <1>4, <1>6, ImagesKept DEF TasksInv, TypeOK, RowsInv, TodoInv, Onward

-----------------------------------------------------------------------------
(***************************************************************************)
(* Writing the row and telling of it.                                      *)
(***************************************************************************)

\* A thread that is done with its event goes on as its kind does.
LEMMA EventDone ==
  ASSUME NEW th, NEW me, NEW agents, NEW answered, NEW watched,
         Works(th, me, agents, answered, watched)
  PROVE  /\ Works(th, AfterEvent(me), agents, answered, watched)
         /\ AfterEvent(me).task \in {me.task, None}
<1>1. CASE me.op = "create"
  <2> DEFINE new == [me EXCEPT !.pc = "subscribe"]
  <2>1. /\ new \in Thread /\ new.pc = "subscribe" /\ new.op = me.op /\ new.task = me.task
        /\ new.existing = me.existing /\ new.answer = me.answer /\ new.at = me.at
    BY DEF Works, Thread
  <2>2. AfterEvent(me) = new
    BY <1>1 DEF AfterEvent
  <2> HIDE DEF new
  <2>3. QED
    BY <1>1, <2>1, <2>2 DEF Works, Requests
<1>2. CASE me.op = "stream"
  <2> DEFINE next == IF StreamEnds(me) THEN "check" ELSE "stream"
             new == [me EXCEPT !.pc = next, !.existing = NoRow, !.answer = NoRow]
  <2>1. next \in {"check", "stream"}
    OBVIOUS
  <2>2. AfterEvent(me) = new
    BY <1>2 DEF AfterEvent
  <2> HIDE DEF next
  <2>3. /\ new \in Thread /\ new.pc = next /\ new.op = me.op /\ new.task = me.task
        /\ new.existing = NoRow /\ new.answer = NoRow /\ new.at = me.at
    BY <2>1, NothingSaid DEF Works, Thread
  <2> HIDE DEF new
  <2>4. QED
    BY <1>2, <2>1, <2>2, <2>3, NothingSaid DEF Works, Requests
<1>3. CASE me.op \notin {"create", "stream"}
  <2>1. AfterEvent(me) = Quiet
    BY <1>3 DEF AfterEvent
  <2>2. QED
    BY <2>1, QuietWorks DEF Quiet
<1>4. QED
  BY <1>1, <1>2, <1>3

\* Writing a row, opening and closing the event's transaction.
LEMMA WriteStep ==
  ASSUME TasksInv, NEW th \in Threads, Write(th) \/ Emit(th) \/ Commit(th)
  PROVE  TasksInv'
<1> DEFINE me == thread[th]
<1>1. /\ me \in Thread /\ Works(th, me, remote, spoken, subscribed)
      /\ UNCHANGED <<remote, phase, todo, subscribed, crashes, setting, spoken>>
  BY DEF Write, Emit, Commit, TasksInv, TypeOK, ThreadsInv
<1>2. Onward
  BY <1>1, AgentsRest
<1>3. PICK new : /\ thread' = [thread EXCEPT ![th] = new] /\ new.task \in {me.task, None}
                 /\ Works(th, new, remote, spoken, subscribed)
  <2>1. CASE Write(th) /\ Tells(me)
    <3> DEFINE new == [me EXCEPT !.pc = "emit"]
    <3>1. /\ new \in Thread /\ new.pc = "emit" /\ new.op = me.op /\ new.task = me.task
          /\ new.existing = me.existing /\ new.answer = me.answer /\ new.at = me.at
      BY <1>1 DEF Thread
    <3>2. thread' = [thread EXCEPT ![th] = new] /\ me.pc = "write"
      BY <2>1 DEF Write
    <3> HIDE DEF new
    <3>3. QED
      BY <1>1, <3>1, <3>2 DEF Works, Requests
  <2>2. CASE Emit(th)
    <3> DEFINE new == [me EXCEPT !.pc = "commit"]
    <3>1. /\ new \in Thread /\ new.pc = "commit" /\ new.op = me.op /\ new.task = me.task
          /\ new.existing = me.existing /\ new.answer = me.answer /\ new.at = me.at
      BY <1>1 DEF Thread
    <3>2. thread' = [thread EXCEPT ![th] = new] /\ me.pc = "emit"
      BY <2>2 DEF Emit
    <3> HIDE DEF new
    <3>3. QED
      BY <1>1, <3>1, <3>2 DEF Works, Requests
  <2>3. CASE (Write(th) /\ ~Tells(me)) \/ Commit(th)
    <3>1. thread' = [thread EXCEPT ![th] = AfterEvent(me)]
      BY <2>3 DEF Write, Commit
    <3>2. QED
      BY <1>1, <3>1, EventDone
  <2>4. QED
    BY <2>1, <2>2, <2>3
<1>4. ThreadsInv' /\ StreamsInv' /\ thread' \in [Threads -> Thread]
  BY <1>1, <1>2, <1>3, OneThread
<1>5. /\ row' \in [Tasks -> Row] /\ \A t \in Tasks : Backed(row'[t], remote[t], t \in spoken)
      /\ missed' \subseteq Tasks
  <2>1. CASE Write(th)
    <3>1. me.pc = "write" /\ me.task \in Tasks /\ me.answer \in Row
      BY <1>1, <2>1 DEF Write, Works, Thread, Requests
    <3>2. Backed(me.answer, remote[me.task], me.task \in spoken)
      BY <1>1, <3>1, ThreadsAssumption DEF Works
    <3>3. row' = row \/ row' = [row EXCEPT ![me.task] = me.answer]
      BY <2>1 DEF Write
    <3>4. missed' \subseteq missed \cup {me.task}
      BY <2>1 DEF Write
    <3>5. QED
      BY <3>1, <3>2, <3>3, <3>4 DEF TasksInv, TypeOK, RowsInv
  <2>2. CASE Emit(th) \/ Commit(th)
    BY <2>2 DEF Emit, Commit, TasksInv, TypeOK, RowsInv
  <2>3. QED
    BY <2>1, <2>2
<1>6. txn' \in Threads \cup {None}
  BY DEF Write, Emit, Commit, TasksInv, TypeOK
<1>7. QED
  BY <1>1, <1>2, <1>4, <1>5, <1>6, ImagesKept DEF TasksInv, TypeOK, RowsInv, TodoInv

\* Other transactions of the IPC thread.
LEMMA ControlStep == TasksInv /\ Control => TasksInv'
<1> SUFFICES ASSUME TasksInv, Control
             PROVE  TasksInv'
  OBVIOUS
<1> DEFINE new == [Quiet EXCEPT !.pc = "commit", !.op = "control"]
<1>1. /\ UNCHANGED <<row, remote, phase, todo, subscribed, crashes, setting, spoken, missed>>
      /\ txn' = "ipc" /\ thread' = [thread EXCEPT !["ipc"] = new]
  BY DEF Control
<1>2. Onward
  BY <1>1, AgentsRest
<1>3. "ipc" \in Threads /\ "ipc" \notin Slots
  BY ThreadsAssumption DEF Threads
<1>4. Works("ipc", new, remote', spoken', subscribed')
  BY <1>3, NothingSaid DEF Works, Quiet, Thread, Requests
<1> HIDE DEF new
<1>5. ThreadsInv' /\ StreamsInv' /\ thread' \in [Threads -> Thread]
  BY <1>1, <1>2, <1>3, <1>4, OneThread
<1>6. QED
  BY <1>1, <1>2, <1>3, <1>5, ImagesKept DEF TasksInv, TypeOK, RowsInv, TodoInv

-----------------------------------------------------------------------------
(***************************************************************************)
(* Subscriptions.                                                          *)
(***************************************************************************)

\* A subscription starts for a task nobody streams, or not at all.
LEMMA SubscribeStep ==
  ASSUME TasksInv, NEW th \in Threads, NEW t \in Tasks, NEW image, Backed(image, remote[t], t \in spoken),
         Subscribe(th, t, image), UNCHANGED <<remote, spoken>>
  PROVE  /\ ThreadsInv' /\ StreamsInv' /\ thread' \in [Threads -> Thread] /\ Onward
         /\ subscribed \subseteq subscribed' /\ subscribed' \subseteq Tasks /\ missed' \subseteq Tasks
<1>1. /\ subscribed \subseteq subscribed' /\ subscribed' \subseteq Tasks /\ missed' \subseteq Tasks
  BY DEF Subscribe, TasksInv, TypeOK
<1>2. Onward
  BY <1>1, AgentsRest
<1>3. CASE thread' = [thread EXCEPT ![th] = Quiet]
  <2>1. Works(th, Quiet, remote', spoken', subscribed') /\ Quiet.task = None
    BY QuietWorks DEF Quiet
  <2>2. QED
    BY <1>1, <1>2, <1>3, <2>1, OneThread
<1>4. CASE thread' # [thread EXCEPT ![th] = Quiet]
  <2> DEFINE new == [Quiet EXCEPT !.pc = "connect", !.op = "stream", !.task = t]
  <2>1. PICK s \in Slots : /\ thread[s].pc = "idle"
                           /\ thread' = [thread EXCEPT ![th] = Quiet, ![s] = new]
    BY <1>4 DEF Subscribe
  <2>2. Watchable(t, image) /\ t \in subscribed'
    BY <1>4 DEF Subscribe
  <2>3. s \in Threads /\ None \notin Tasks
    BY ThreadsAssumption DEF Threads
  <2>4. remote'[t] # <<>>
    BY <2>2 DEF Watchable, Backed
  <2>5. 0 <= Len(remote'[t])
    BY LenProperties DEF TasksInv, TypeOK
  <2>6. /\ new \in Thread /\ new.pc = "connect" /\ new.op = "stream" /\ new.task = t
        /\ new.existing = NoRow /\ new.answer = NoRow /\ new.at = 0
    BY NothingSaid DEF Thread, Quiet
  <2> HIDE DEF new
  <2>7. Works(s, new, remote', spoken', subscribed')
    BY <2>2, <2>3, <2>4, <2>5, <2>6, NothingSaid DEF Works, Requests
  <2>8. /\ thread'[s] = new
        /\ \A o \in Threads : o # s => thread'[o] \in {thread[o], Quiet}
    BY <2>1, <2>3 DEF TasksInv, TypeOK
  <2>9. ASSUME NEW o \in Threads
        PROVE  Works(o, thread'[o], remote', spoken', subscribed')
    BY <1>2, <2>7, <2>8, OthersWork, QuietWorks
  <2>10. ASSUME NEW o \in Slots, o # s
         PROVE  thread'[o].task # t /\ thread'[o].task \in {thread[o].task, None}
    <3>1. o \in Threads
      BY DEF Threads
    <3>2. thread[o].task = t => t \in subscribed
      BY <2>3, <3>1 DEF TasksInv, ThreadsInv, Works
    <3>3. thread[o].task # t
      BY <2>2, <3>2 DEF Watchable
    <3>4. Quiet.task = None
      BY DEF Quiet
    <3>5. QED
      BY <2>3, <2>8, <2>10, <3>1, <3>3, <3>4
  <2>11. StreamsInv'
    <3>1. ASSUME NEW s1 \in Slots, NEW s2 \in Slots,
                 thread'[s1].task # None, thread'[s1].task = thread'[s2].task
          PROVE  s1 = s2
      <4>1. thread'[s].task = t
        BY <2>6, <2>8
      <4>2. CASE s1 = s \/ s2 = s
        BY <2>10, <3>1, <4>1, <4>2
      <4>3. CASE s1 # s /\ s2 # s
        BY <2>10, <3>1, <4>3 DEF TasksInv, StreamsInv
      <4>4. QED
        BY <4>2, <4>3
    <3>2. QED
      BY <3>1 DEF StreamsInv
  <2>12. thread' \in [Threads -> Thread]
    <3>1. Quiet \in Thread
      BY QuietWorks DEF Works
    <3>2. QED
      BY <2>1, <2>3, <2>6, <3>1 DEF TasksInv, TypeOK
  <2>13. QED
    BY <1>1, <1>2, <2>9, <2>11, <2>12 DEF ThreadsInv
<1>5. QED
  BY <1>3, <1>4

\* The end of createTask().
LEMMA CreateStep ==
  ASSUME TasksInv, NEW th \in Threads, CreateSubscribes(th)
  PROVE  TasksInv'
<1> DEFINE me == thread[th]
<1>1. /\ Works(th, me, remote, spoken, subscribed) /\ me \in Thread /\ me.pc = "subscribe"
      /\ Subscribe(th, me.task, me.answer)
      /\ UNCHANGED <<row, remote, phase, todo, txn, crashes, setting, spoken>>
  BY DEF CreateSubscribes, TasksInv, TypeOK, ThreadsInv
<1>2. me.task \in Tasks /\ Backed(me.answer, remote[me.task], me.task \in spoken)
  BY <1>1, ThreadsAssumption DEF Works, Thread, Requests
<1>3. /\ ThreadsInv' /\ StreamsInv' /\ thread' \in [Threads -> Thread] /\ Onward
      /\ subscribed' \subseteq Tasks /\ missed' \subseteq Tasks
  BY <1>1, <1>2, SubscribeStep
<1>4. QED
  BY <1>1, <1>3, ImagesKept DEF TasksInv, TypeOK, RowsInv, TodoInv

\* Merging an update into a row keeps it a row.
LEMMA MergedIsRow ==
  ASSUME NEW image \in Row, NEW updates, Begun(updates), NEW k \in 1..Len(updates), NEW answered,
         Backed(image, updates, answered)
  PROVE  /\ Merged(image, updates, k) \in Row
         /\ Backed(Merged(image, updates, k), updates, answered)
<1> DEFINE state == IF updates[k] = "ARTIFACT" THEN image.state ELSE updates[k]
           seen == Append(image.seen, k)
<1>1. Merged(image, updates, k) = [image EXCEPT !.state = state, !.seen = seen]
  BY DEF Merged, Row
<1>2. /\ updates[k] \in Updates /\ k \in DOMAIN updates /\ k \in Nat
  BY ElementOfSeq, LenProperties DEF Begun
<1>3. state \in States \cup {"ABSENT"}
  BY <1>2, TasksAssumption DEF Updates, States, Terminal, Row
<1>4. seen \in Seq(Nat)
  BY <1>2, AppendProperties DEF Row
<1> HIDE DEF seen
<1>5. Merged(image, updates, k).state = state /\ Merged(image, updates, k).linked = image.linked
  BY <1>1 DEF Row
<1>6. Backed(Merged(image, updates, k), updates, answered)
  BY <1>2, <1>5 DEF Backed
<1> HIDE DEF state
<1>7. QED
  BY <1>1, <1>3, <1>4, <1>6 DEF Row

\* A callback that found the row writes the image it made; one that found none
\* goes on.
LEMMA MergeWorks ==
  ASSUME TasksInv, NEW s \in Slots, NEW me, NEW image \in Row,
         Works(s, me, remote, spoken, subscribed), me.task \in Tasks,
         Backed(image, remote[me.task], me.task \in spoken), Merging(s, me, image)
  PROVE  \E new : /\ thread' = [thread EXCEPT ![s] = new] /\ new.task \in {me.task, None}
                  /\ Works(s, new, remote, spoken, subscribed)
<1>1. CASE Exists(me.task)
  <2> DEFINE new == [me EXCEPT !.pc = "write", !.existing = row[me.task], !.answer = image]
  <2>1. row[me.task] \in Row /\ Backed(row[me.task], remote[me.task], me.task \in spoken)
    BY DEF TasksInv, TypeOK, RowsInv
  <2>2. /\ new \in Thread /\ new.pc = "write" /\ new.op = me.op /\ new.task = me.task
        /\ new.existing = row[me.task] /\ new.answer = image /\ new.at = me.at
    BY <2>1 DEF Works, Thread
  <2>3. thread' = [thread EXCEPT ![s] = new]
    BY <1>1 DEF Merging
  <2>4. me.op = "stream"
    BY ThreadsAssumption DEF Works
  <2> HIDE DEF new
  <2>5. Works(s, new, remote, spoken, subscribed)
    BY <2>1, <2>2, <2>4 DEF Works, Requests
  <2>6. QED
    BY <2>2, <2>3, <2>5
<1>2. CASE ~Exists(me.task)
  BY <1>2, EventDone DEF Merging
<1>3. QED
  BY <1>1, <1>2

\* A stream connects, delivers, breaks and is checked.
LEMMA StreamStep ==
  ASSUME TasksInv, NEW s \in Slots, Stream(s)
  PROVE  TasksInv'
<1> DEFINE me == thread[s]
<1>1. /\ me \in Thread /\ Works(s, me, remote, spoken, subscribed) /\ s \in Threads
      /\ UNCHANGED <<row, remote, phase, todo, subscribed, txn, crashes, setting, spoken, missed>>
  BY DEF Stream, Connect, Disconnect, OnSnapshot, OnUpdate, Check, TasksInv, TypeOK, ThreadsInv, Threads
<1>2. me.pc \in {"connect", "snapshot", "stream", "check"}
  BY DEF Stream, Connect, Disconnect, OnSnapshot, OnUpdate, Check
<1>3. /\ me.op = "stream" /\ me.task \in Tasks /\ me.task \in subscribed /\ remote[me.task] # <<>>
      /\ Begun(remote[me.task]) /\ Len(remote[me.task]) \in Nat
  BY <1>1, <1>2, LenProperties DEF Works, Thread, TasksInv, RemoteInv, Begun
<1>4. /\ Snapshot(remote[me.task]) \in Row
      /\ Backed(Snapshot(remote[me.task]), remote[me.task], me.task \in spoken)
  BY <1>3, SnapshotIsRow, SnapshotBacked
<1>5. \E new : /\ thread' = [thread EXCEPT ![s] = new] /\ new.task \in {me.task, None}
               /\ Works(s, new, remote, spoken, subscribed)
  <2>1. CASE Connect(s)
    <3> DEFINE image == Snapshot(remote[me.task])
               at == Len(remote[me.task])
               new == [me EXCEPT !.pc = "snapshot", !.at = at, !.answer = image]
    <3>1. thread' = [thread EXCEPT ![s] = new]
      BY <2>1 DEF Connect
    <3>2. at \in Nat /\ at <= Len(remote[me.task])
      BY <1>3
    <3> HIDE DEF image, at
    <3>3. /\ new \in Thread /\ new.pc = "snapshot" /\ new.op = me.op /\ new.task = me.task
          /\ new.existing = me.existing /\ new.answer = image /\ new.at = at
      BY <1>1, <1>4, <3>2 DEF Thread, image
    <3> HIDE DEF new
    <3>4. Works(s, new, remote, spoken, subscribed)
      BY <1>1, <1>3, <1>4, <3>2, <3>3 DEF Works, Requests, image
    <3>5. QED
      BY <3>1, <3>3, <3>4
  <2>2. CASE Disconnect(s)
    <3> DEFINE new == [me EXCEPT !.pc = "check"]
    <3>1. /\ new \in Thread /\ new.pc = "check" /\ new.op = me.op /\ new.task = me.task
          /\ new.existing = me.existing /\ new.answer = me.answer /\ new.at = me.at
      BY <1>1 DEF Thread
    <3>2. thread' = [thread EXCEPT ![s] = new]
      BY <2>2 DEF Disconnect
    <3> HIDE DEF new
    <3>3. Works(s, new, remote, spoken, subscribed)
      BY <1>1, <1>3, <3>1 DEF Works, Requests
    <3>4. QED
      BY <3>1, <3>2, <3>3
  <2>3. CASE OnSnapshot(s)
    <3>1. Merging(s, me, me.answer)
      BY <2>3 DEF OnSnapshot
    <3>2. me.answer \in Row /\ Backed(me.answer, remote[me.task], me.task \in spoken)
      BY <1>1, <1>3, ThreadsAssumption DEF Works, Thread
    <3>3. QED
      BY <1>1, <1>3, <3>1, <3>2, MergeWorks
  <2>4. CASE OnUpdate(s)
    <3> DEFINE k == me.at + 1
               next == [me EXCEPT !.at = k]
               image == Merged(row[me.task], remote[me.task], k)
    <3>1. k \in 1..Len(remote[me.task]) /\ Merging(s, next, image)
      BY <1>1, <1>3, <2>4 DEF OnUpdate, Thread
    <3>2. row[me.task] \in Row /\ Backed(row[me.task], remote[me.task], me.task \in spoken)
      BY <1>3 DEF TasksInv, TypeOK, RowsInv
    <3>3. image \in Row /\ Backed(image, remote[me.task], me.task \in spoken)
      BY <1>3, <3>1, <3>2, MergedIsRow
    <3>4. /\ next \in Thread /\ next.pc = me.pc /\ next.op = me.op /\ next.task = me.task
          /\ next.existing = me.existing /\ next.answer = me.answer /\ next.at = k
      BY <1>1, <3>1 DEF Thread
    <3> HIDE DEF next, image
    <3>5. k <= Len(remote[me.task])
      BY <1>3, <3>1
    <3> HIDE DEF k
    <3>6. Works(s, next, remote, spoken, subscribed)
      BY <1>1, <1>2, <1>3, <3>4, <3>5 DEF Works, Requests
    <3>7. next.task \in Tasks /\ Backed(image, remote[next.task], next.task \in spoken)
      BY <1>3, <3>3, <3>4
    <3>8. \E new : /\ thread' = [thread EXCEPT ![s] = new] /\ new.task \in {next.task, None}
                   /\ Works(s, new, remote, spoken, subscribed)
      BY <3>1, <3>3, <3>6, <3>7, MergeWorks
    <3>9. QED
      BY <3>4, <3>8
  <2>5. CASE Check(s)
    <3> DEFINE new == [me EXCEPT !.pc = "connect", !.at = 0]
    <3>1. /\ new \in Thread /\ new.pc = "connect" /\ new.op = me.op /\ new.task = me.task
          /\ new.existing = me.existing /\ new.answer = me.answer /\ new.at = 0
      BY <1>1 DEF Thread
    <3>2. \/ thread' = [thread EXCEPT ![s] = new]
          \/ thread' = [thread EXCEPT ![s] = Quiet]
      BY <2>5 DEF Check
    <3> HIDE DEF new
    <3>3. Works(s, new, remote, spoken, subscribed)
      BY <1>1, <1>3, <3>1 DEF Works, Requests
    <3>4. Works(s, Quiet, remote, spoken, subscribed) /\ Quiet.task = None
      BY QuietWorks DEF Quiet
    <3>5. QED
      BY <3>1, <3>2, <3>3, <3>4
  <2>6. QED
    BY <2>1, <2>2, <2>3, <2>4, <2>5 DEF Stream
<1>6. Onward
  BY <1>1, AgentsRest
<1>7. ThreadsInv' /\ StreamsInv' /\ thread' \in [Threads -> Thread]
  BY <1>1, <1>5, <1>6, OneThread
<1>8. QED
  BY <1>1, <1>6, <1>7, ImagesKept DEF TasksInv, TypeOK, RowsInv, TodoInv

-----------------------------------------------------------------------------
(***************************************************************************)
(* The main thread, and the whole.                                         *)
(***************************************************************************)

\* What is listed is backed as the rows are.
LEMMA ListedBacked ==
  ASSUME TasksInv
  PROVE  /\ Listed \subseteq [task : Tasks, image : Row]
         /\ \A item \in Listed : /\ item.image = row[item.task] /\ Open(item.task)
                                 /\ Backed(item.image, remote[item.task], item.task \in spoken)
<1>1. \A t \in Tasks : row[t] \in Row /\ Backed(row[t], remote[t], t \in spoken)
  BY DEF TasksInv, TypeOK, RowsInv
<1>2. QED
  BY <1>1 DEF Listed

\* The main thread reconciles, subscribes and polls what it listed.
LEMMA StartupStep == TasksInv /\ Startup => TasksInv'
<1> SUFFICES ASSUME TasksInv, Startup
             PROVE  TasksInv'
  OBVIOUS
<1>1. ASSUME NEW item \in todo
      PROVE  /\ item \in [task : Tasks, image : Row]
             /\ Backed(item.image, remote[item.task], item.task \in spoken)
             /\ row[item.task] \in Row
             /\ Backed(row[item.task], remote[item.task], item.task \in spoken)
  <2>1. item \in [task : Tasks, image : Row]
    BY <1>1 DEF TasksInv, TypeOK
  <2>2. QED
    BY <1>1, <2>1 DEF TasksInv, TypeOK, TodoInv, RowsInv
<1>2. CASE Boot \/ Reconciled \/ Started \/ PollList
  <2>1. /\ UNCHANGED <<row, remote, thread, subscribed, txn, crashes, setting, spoken, missed>>
        /\ todo' = Listed \/ todo' = todo
        /\ phase' \in {"down", "reconcile", "subscribe", "loop"}
    BY <1>2 DEF Boot, Reconciled, Started, PollList, TasksInv, TypeOK
  <2>2. /\ todo' \subseteq [task : Tasks, image : Row]
        /\ \A item \in todo' : Backed(item.image, remote[item.task], item.task \in spoken)
    BY <2>1, ListedBacked DEF TasksInv, TypeOK, TodoInv
  <2>3. QED
    BY <2>1, <2>2 DEF TasksInv, TypeOK, RemoteInv, ThreadsInv, RowsInv, TodoInv, StreamsInv
<1>3. ASSUME NEW item \in todo, ReconcileNext(item) \/ PollNext(item)
      PROVE  TasksInv'
  <2>1. /\ UNCHANGED <<row, remote, phase, subscribed, txn, crashes, setting, spoken, missed>>
        /\ todo' = todo \ {item}
    BY <1>3 DEF ReconcileNext, PollNext
  <2>2. Onward
    BY <2>1, AgentsRest
  <2>3. \/ thread' = thread
        \/ item.image.linked /\ Calling("main", "reconcile", item.task, item.image)
        \/ row[item.task].linked /\ Calling("main", "refresh", item.task, row[item.task])
    BY <1>3 DEF ReconcileNext, PollNext
  <2>4. item.task \in Tasks /\ item.image \in Row
    BY <1>1
  <2>5. ThreadsInv' /\ StreamsInv' /\ thread' \in [Threads -> Thread]
    <3>1. CASE thread' = thread
      BY <2>1, <3>1 DEF TasksInv, TypeOK, ThreadsInv, StreamsInv
    <3>2. CASE item.image.linked /\ Calling("main", "reconcile", item.task, item.image)
      <4>1. remote[item.task] # <<>>
        BY <1>1, <3>2 DEF Backed
      <4>2. QED
        BY <1>1, <2>1, <2>4, <3>2, <4>1, CallStep DEF Requests
    <3>3. CASE row[item.task].linked /\ Calling("main", "refresh", item.task, row[item.task])
      <4>1. remote[item.task] # <<>>
        BY <1>1, <3>3 DEF Backed
      <4>2. QED
        BY <1>1, <2>1, <2>4, <3>3, <4>1, CallStep DEF Requests
    <3>4. QED
      BY <2>3, <3>1, <3>2, <3>3
  <2>6. QED
    BY <2>1, <2>2, <2>5, ImagesKept DEF TasksInv, TypeOK, RowsInv, TodoInv
<1>4. ASSUME NEW item \in todo, SubscribeNext(item)
      PROVE  TasksInv'
  <2>1. /\ UNCHANGED <<row, remote, phase, txn, crashes, setting, spoken>>
        /\ todo' = todo \ {item} /\ Subscribe("main", item.task, item.image)
    BY <1>4 DEF SubscribeNext
  <2>2. "main" \in Threads /\ item.task \in Tasks
    BY <1>1 DEF Threads
  <2>3. /\ ThreadsInv' /\ StreamsInv' /\ thread' \in [Threads -> Thread] /\ Onward
        /\ subscribed' \subseteq Tasks /\ missed' \subseteq Tasks
    BY <1>1, <2>1, <2>2, SubscribeStep
  <2>4. QED
    BY <2>1, <2>3, ImagesKept DEF TasksInv, TypeOK, RowsInv, TodoInv
<1>5. QED
  BY <1>2, <1>3, <1>4 DEF Startup

\* A crash leaves the rows and the agents' tasks.
LEMMA CrashStep == TasksInv /\ Crash => TasksInv'
<1> SUFFICES ASSUME TasksInv, Crash
             PROVE  TasksInv'
  OBVIOUS
<1>1. /\ crashes' = crashes + 1 /\ phase' = "down" /\ thread' = [th \in Threads |-> Quiet]
      /\ todo' = {} /\ subscribed' = {} /\ txn' = None /\ missed' = {}
      /\ UNCHANGED <<row, remote, setting, spoken>>
  BY DEF Crash
<1>2. ThreadsInv' /\ thread' \in [Threads -> Thread]
  <2>1. Quiet \in Thread
    BY QuietWorks DEF Works
  <2>2. \A th \in Threads : Works(th, thread'[th], remote', spoken', subscribed')
    BY <1>1, QuietWorks
  <2>3. QED
    BY <1>1, <2>1, <2>2 DEF ThreadsInv
<1>3. StreamsInv'
  <2>1. \A s \in Slots : thread'[s].task = None
    BY <1>1 DEF Quiet, Threads
  <2>2. QED
    BY <2>1 DEF StreamsInv
<1>4. QED
  BY <1>1, <1>2, <1>3 DEF TasksInv, TypeOK, RemoteInv, RowsInv, TodoInv

\* Every step keeps the invariant.
LEMMA TasksStep == TasksInv /\ [Next]_vars => TasksInv'
<1> SUFFICES ASSUME TasksInv, [Next]_vars
             PROVE  TasksInv'
  OBVIOUS
<1>1. CASE UNCHANGED vars
  BY <1>1 DEF vars, TasksInv, TypeOK, RemoteInv, ThreadsInv, RowsInv, TodoInv, StreamsInv
<1>2. ASSUME NEW th \in Threads, Step(th)
      PROVE  TasksInv'
  BY <1>2, CallEnds, WriteStep, CreateStep DEF Step
<1>3. QED
  BY <1>1, <1>2, StartupStep, RequestStep, ControlStep, StreamStep, AgentStep, CrashStep DEF Next

\* The first state is in order.
LEMMA InitTasks == Init => TasksInv
<1> SUFFICES ASSUME Init
             PROVE  TasksInv
  OBVIOUS
<1>1. /\ row = [t \in Tasks |-> NoRow] /\ remote = [t \in Tasks |-> <<>>]
      /\ thread = [th \in Threads |-> Quiet] /\ phase = "down" /\ todo = {} /\ subscribed = {}
      /\ txn = None /\ crashes = 0 /\ setting \in Settings /\ spoken = {} /\ missed = {}
  BY DEF Init
<1>2. Quiet \in Thread /\ Quiet.task = None /\ \A th \in Threads : Works(th, Quiet, remote, {}, {})
  BY QuietWorks DEF Works, Quiet
<1>3. RemoteInv
  BY <1>1, EmptySeq DEF RemoteInv, Begun
<1>4. TypeOK
  BY <1>1, <1>2, EmptySeq, NothingSaid DEF TypeOK
<1>5. ThreadsInv /\ StreamsInv
  BY <1>1, <1>2 DEF ThreadsInv, StreamsInv, Threads
<1>6. RowsInv /\ TodoInv
  BY <1>1, NothingSaid DEF RowsInv, TodoInv
<1>7. QED
  BY <1>3, <1>4, <1>5, <1>6 DEF TasksInv

\* The invariant holds in every reachable state.
LEMMA TasksInvariant == Spec => []TasksInv
<1>1. QED
  BY InitTasks, TasksStep, PTL DEF Spec

-----------------------------------------------------------------------------

\* Every variable keeps its type; above all, the state of a task is always that
\* of one of its reports.
THEOREM TasksTypeCorrect == Spec => []TypeOK
<1>1. TasksInv => TypeOK
  BY DEF TasksInv
<1>2. QED
  BY <1>1, TasksInvariant, PTL

\* No row makes up an ending, for any agents, threads, crashes and dropped writes.
THEOREM EndingsAreReal == Spec => []NoFakeCompletion
<1>1. TasksInv => NoFakeCompletion
  BY DEF TasksInv, RowsInv, Backed, NoFakeCompletion
<1>2. QED
  BY <1>1, TasksInvariant, PTL

\* No task has two subscription threads, for any number of tasks and threads.
THEOREM StreamsAreSingle == Spec => []OneStreamPerTask
<1>1. TasksInv => OneStreamPerTask
  BY DEF TasksInv, StreamsInv, OneStreamPerTask
<1>2. QED
  BY <1>1, TasksInvariant, PTL

-----------------------------------------------------------------------------
(***************************************************************************)
(* Subscriptions are complete.  The argument needs how rows are linked to  *)
(* the agents' tasks: only submit and respond, which one thread serves,    *)
(* make a link, and nothing takes one away.                                *)
(***************************************************************************)

Ongoing == States \ Terminal

\* What a thread knows of the link of its row.
Linked(th, me, rows, agents) ==
    /\ me.op \in {"create", "respond"} => th = "ipc"
    /\ me.op \in {"cancel", "refresh", "reconcile"} => me.existing.linked
    /\ me.op = "reconcile" => me.existing.state # "ABSENT"
    /\ me.op \in {"respond", "cancel", "refresh", "reconcile"} => rows[me.task].state # "ABSENT"
    /\ me.op = "create" /\ me.pc \in {"call", "write"} => rows[me.task].state = "ABSENT"
    /\ me.op = "create" /\ me.pc = "call" => agents[me.task] = <<>>
    /\ me.op = "create" /\ me.pc = "write" => me.answer.linked \/ agents[me.task] = <<>>
    /\ me.op = "create" /\ me.pc \notin {"call", "write"} /\ me.answer.linked
          => rows[me.task].linked \/ rows[me.task].state = "ABSENT"
    /\ me.task # None /\ me.existing.linked => rows[me.task].linked
    /\ me.pc = "call" /\ rows[me.task].linked => me.existing.linked
    /\ me.pc = "write" /\ rows[me.task].linked => me.answer.linked
    /\ me.pc = "write" => me.answer.state # "ABSENT"
    /\ me.op = "stream" => rows[me.task].linked \/ rows[me.task].state = "ABSENT"
    /\ me.op = "stream" /\ me.pc = "write" => rows[me.task].state # "ABSENT"
    /\ me.pc = "snapshot" => me.answer.linked /\ me.answer.state # "ABSENT"
    /\ me.answer.state \in Ongoing => me.answer.linked

LinksInv == \A th \in Threads : Linked(th, thread[th], row, remote)

RowLinksInv ==
    \A t \in Tasks : /\ row[t].state \in Ongoing => row[t].linked
                     /\ row[t].linked => row[t].state # "ABSENT"

TodoLinksInv ==
    \A item \in todo : /\ item.image.linked /\ item.image.state \in Ongoing
                       /\ row[item.task].linked

\* The IPC thread is about to subscribe to what it created.
AboutToSubscribe(t) ==
    LET me == thread["ipc"] IN
    /\ me.op = "create" /\ me.task = t
    /\ me.pc \in {"emit", "commit", "subscribe"} /\ me.answer.state \in Ongoing

WatchedInv ==
    phase \in {"subscribe", "loop"} =>
        \A t \in setting.streaming :
            row[t].state \in Ongoing =>
                \/ t \in subscribed \cup missed
                \/ phase = "subscribe" /\ \E item \in todo : item.task = t
                \/ AboutToSubscribe(t)

WatchInv == TasksInv /\ LinksInv /\ RowLinksInv /\ TodoLinksInv /\ WatchedInv

\* A thread with nothing to do knows nothing.
LEMMA QuietLinked ==
  ASSUME NEW th, NEW rows, NEW agents
  PROVE  Linked(th, Quiet, rows, agents)
  BY DEF Linked, Quiet, NoRow, Ongoing, States, Terminal

\* While rows stay, and tasks that do not exist are not made, what threads know
\* of links stays.
LEMMA LinkedLater ==
  ASSUME NEW th, NEW me, NEW rows, NEW before, NEW after, Linked(th, me, rows, before),
         me.op = "create" /\ before[me.task] = <<>> => after[me.task] = <<>>
  PROVE  Linked(th, me, rows, after)
  BY DEF Linked

\* A step of one thread that writes no row.
LEMMA LinksStep ==
  ASSUME WatchInv, NEW th \in Threads, NEW new, thread' = [thread EXCEPT ![th] = new], row' = row,
         Linked(th, new, row, remote'),
         \A o \in Threads : o # th /\ thread[o].op = "create" /\ remote[thread[o].task] = <<>>
                            => remote'[thread[o].task] = <<>>
  PROVE  LinksInv'
<1>1. thread'[th] = new /\ \A o \in Threads : o # th => thread'[o] = thread[o]
  BY DEF WatchInv, TasksInv, TypeOK
<1>2. ASSUME NEW o \in Threads
      PROVE  Linked(o, thread'[o], row', remote')
  <2>1. CASE o = th
    BY <1>1, <2>1
  <2>2. CASE o # th
    <3>1. Linked(o, thread[o], row, remote)
      BY DEF WatchInv, LinksInv
    <3>2. Linked(o, thread[o], row, remote')
      BY <2>2, <3>1, LinkedLater
    <3>3. QED
      BY <1>1, <2>2, <3>2
  <2>3. QED
    BY <2>1, <2>2
<1>3. QED
  BY <1>2 DEF LinksInv

\* A step that leaves rows, lists and the phase alone.
LEMMA WatchedKept ==
  ASSUME WatchInv, UNCHANGED <<row, setting, phase, todo>>,
         subscribed \subseteq subscribed', missed \subseteq missed',
         \A t \in Tasks : AboutToSubscribe(t) => AboutToSubscribe(t)'
  PROVE  RowLinksInv' /\ TodoLinksInv' /\ WatchedInv'
<1>1. \A t \in setting.streaming : t \in Tasks
  BY TasksAssumption DEF WatchInv, TasksInv, TypeOK, Setting
<1>2. WatchedInv'
  <2> SUFFICES ASSUME phase \in {"subscribe", "loop"}, NEW t \in setting.streaming, row[t].state \in Ongoing
               PROVE  \/ t \in subscribed' \cup missed'
                      \/ phase = "subscribe" /\ \E item \in todo : item.task = t
                      \/ AboutToSubscribe(t)'
    BY DEF WatchedInv
  <2>1. \/ t \in subscribed \cup missed
        \/ phase = "subscribe" /\ \E item \in todo : item.task = t
        \/ AboutToSubscribe(t)
    BY DEF WatchInv, WatchedInv
  <2>2. QED
    BY <1>1, <2>1
<1>3. QED
  BY <1>2 DEF WatchInv, RowLinksInv, TodoLinksInv

\* A thread that is called upon was not about to subscribe.
LEMMA CallLinks ==
  ASSUME WatchInv, NEW th \in {"main", "ipc"}, NEW op \in Requests, NEW t \in Tasks, NEW image,
         Calling(th, op, t, image), UNCHANGED <<row, remote>>,
         op \in {"create", "respond"} => th = "ipc",
         op \in {"cancel", "refresh", "reconcile"} => image.linked,
         op = "reconcile" => image.state # "ABSENT",
         op # "create" => row[t].state # "ABSENT",
         op = "create" => row[t].state = "ABSENT" /\ remote[t] = <<>> /\ image = NoRow,
         image.linked <=> row[t].linked
  PROVE  LinksInv'
<1> DEFINE new == [Quiet EXCEPT !.pc = "call", !.op = op, !.task = t, !.existing = image]
<1>1. /\ new.pc = "call" /\ new.op = op /\ new.task = t /\ new.existing = image /\ new.answer = NoRow
  BY DEF Quiet
<1>2. thread' = [thread EXCEPT ![th] = new] /\ th \in Threads
  BY DEF Calling, Threads
<1> HIDE DEF new
<1>3. NoRow.state \notin Ongoing
  BY DEF NoRow, Ongoing, States, Terminal
<1>4. Linked(th, new, row, remote')
  BY <1>1, <1>3 DEF Linked, Requests
<1>5. QED
  BY <1>2, <1>4, LinksStep

\* The IPC thread starts a request.
LEMMA RequestWatch ==
  ASSUME WatchInv, Request
  PROVE  LinksInv' /\ RowLinksInv' /\ TodoLinksInv' /\ WatchedInv'
<1>1. /\ UNCHANGED <<row, remote, phase, todo, subscribed, txn, crashes, setting, spoken, missed>>
      /\ thread["ipc"].pc = "idle"
  BY DEF Request, StartCreate, StartRequest, ReadyIpc
<1>2. LinksInv'
  <2>1. ASSUME NEW t \in Tasks, StartCreate(t)
        PROVE  LinksInv'
    <3>1. Calling("ipc", "create", t, NoRow) /\ row[t].state = "ABSENT" /\ remote[t] = <<>>
      BY <2>1 DEF StartCreate, Exists
    <3>2. NoRow.linked <=> row[t].linked
      BY <3>1 DEF NoRow, WatchInv, RowLinksInv, TasksInv, TypeOK, Row
    <3>3. QED
      BY <1>1, <3>1, <3>2, CallLinks DEF Requests
  <2>2. ASSUME NEW t \in Tasks, NEW op \in {"respond", "cancel", "refresh"}, StartRequest(op, t)
        PROVE  LinksInv'
    <3>1. /\ Calling("ipc", op, t, row[t]) /\ row[t].state # "ABSENT"
          /\ op # "respond" => row[t].linked
      BY <2>2 DEF StartRequest, Exists
    <3>2. QED
      BY <1>1, <3>1, CallLinks DEF Requests
  <2>3. QED
    BY <2>1, <2>2 DEF Request
<1>3. \A t \in Tasks : ~AboutToSubscribe(t)
  BY <1>1 DEF AboutToSubscribe
<1>4. QED
  BY <1>1, <1>2, <1>3, WatchedKept

\* An agent reports.
LEMMA AgentWatch ==
  ASSUME WatchInv, NEW t \in Tasks, AgentUpdates(t)
  PROVE  LinksInv' /\ RowLinksInv' /\ TodoLinksInv' /\ WatchedInv'
<1>1. /\ UNCHANGED <<row, thread, phase, todo, subscribed, txn, crashes, setting, spoken, missed>>
      /\ remote[t] # <<>>
      /\ \E u \in RemoteStates \cup {"ARTIFACT"} : remote' = [remote EXCEPT ![t] = Append(@, u)]
  BY DEF AgentUpdates
<1>2. \A s \in Tasks : remote[s] = <<>> => remote'[s] = <<>>
  BY <1>1 DEF WatchInv, TasksInv, TypeOK
<1>3. ASSUME NEW o \in Threads
      PROVE  Linked(o, thread'[o], row', remote')
  <2>1. Linked(o, thread[o], row, remote)
    BY DEF WatchInv, LinksInv
  <2>2. thread[o].op = "create" => thread[o].task \in Tasks
    BY ThreadsAssumption DEF WatchInv, TasksInv, ThreadsInv, Works, Requests, Thread
  <2>3. QED
    BY <1>1, <1>2, <2>1, <2>2, LinkedLater
<1>4. LinksInv'
  BY <1>3 DEF LinksInv
<1>5. \A s \in Tasks : AboutToSubscribe(s) => AboutToSubscribe(s)'
  BY <1>1 DEF AboutToSubscribe
<1>6. QED
  BY <1>1, <1>4, <1>5, WatchedKept

\* A thread that leaves call, or that is not the IPC thread, was not about to
\* subscribe and is not now.
LEMMA OthersSubscribe ==
  ASSUME TypeOK, NEW th \in Threads, NEW new, thread' = [thread EXCEPT ![th] = new],
         th # "ipc" \/ thread[th].pc \notin {"emit", "commit", "subscribe"}
  PROVE  \A t \in Tasks : AboutToSubscribe(t) => AboutToSubscribe(t)'
  BY DEF AboutToSubscribe, TypeOK

\* The four ways a call ends.
LEMMA CallWatch ==
  ASSUME WatchInv, NEW th \in Threads,
         CallAnswered(th) \/ CallSpoken(th) \/ CallUnanswered(th) \/ CallRefused(th)
  PROVE  LinksInv' /\ RowLinksInv' /\ TodoLinksInv' /\ WatchedInv'
<1> DEFINE me == thread[th]
<1>1. /\ me.pc = "call" /\ me \in Thread /\ Works(th, me, remote, spoken, subscribed)
      /\ Linked(th, me, row, remote) /\ TypeOK /\ RemoteInv
      /\ UNCHANGED <<row, phase, todo, subscribed, txn, crashes, setting, missed>>
  BY DEF CallAnswered, CallSpoken, CallUnanswered, CallRefused, WatchInv, TasksInv, TypeOK, ThreadsInv, LinksInv
<1>2. /\ me.op \in Requests /\ me.task \in Tasks
      /\ me.op \in {"cancel", "refresh", "reconcile"} => remote[me.task] # <<>>
  BY <1>1 DEF Works, Requests, Thread
<1>3. \A o \in Threads : o # th /\ thread[o].op = "create" /\ remote[thread[o].task] = <<>>
                            => remote'[thread[o].task] = <<>>
  <2>1. ASSUME NEW o \in Threads, o # th, thread[o].op = "create", remote[thread[o].task] = <<>>
        PROVE  remote'[thread[o].task] = <<>>
    <3>1. o = "ipc"
      BY <2>1 DEF WatchInv, LinksInv, Linked
    <3>2. me.op \in {"cancel", "refresh", "reconcile"}
      BY <1>1, <1>2, <2>1, <3>1 DEF Linked, Requests
    <3>3. thread[o].task # me.task
      BY <1>2, <2>1, <3>2
    <3>4. remote' = remote \/ \E updates : remote' = [remote EXCEPT ![me.task] = updates]
      BY DEF CallAnswered, CallSpoken, CallUnanswered, CallRefused
    <3>5. thread[o].task \in Tasks
      BY <2>1, ThreadsAssumption DEF WatchInv, TasksInv, ThreadsInv, Works, Requests, Thread
    <3>6. QED
      BY <1>1, <2>1, <3>3, <3>4, <3>5 DEF TypeOK
  <2>2. QED
    BY <2>1
<1>4. PICK new : /\ thread' = [thread EXCEPT ![th] = new] /\ Linked(th, new, row, remote')
  <2>1. CASE CallAnswered(th)
    <3>1. PICK updates \in Reactions(me.op, me.task) :
             /\ remote' = [remote EXCEPT ![me.task] = updates]
             /\ thread' = [thread EXCEPT ![th] = [me EXCEPT !.pc = "write", !.answer = Snapshot(updates)]]
      BY <2>1 DEF CallAnswered
    <3>2. updates # <<>> /\ remote'[me.task] = updates
      BY <1>1, <1>2, <3>1, ReactionExists DEF TypeOK
    <3>3. updates = remote[me.task] \/ \E u \in Updates : /\ remote[me.task] = <<>> => u # "ARTIFACT"
                                                          /\ updates = Append(remote[me.task], u)
      BY <1>1, <1>2, ReactionStep
    <3>4. Grows(remote, remote')
      BY <1>1, <1>2, <3>1, <3>3, Report
    <3>5. Begun(updates)
      BY <1>2, <3>2, <3>4 DEF Grows
    <3>6. Snapshot(updates).linked /\ Snapshot(updates).state \in States
      BY <3>2, <3>5, SnapshotIsRow, StateIsReported
    <3> DEFINE new == [me EXCEPT !.pc = "write", !.answer = Snapshot(updates)]
    <3>7. /\ new.pc = "write" /\ new.op = me.op /\ new.task = me.task
          /\ new.existing = me.existing /\ new.answer = Snapshot(updates)
      BY <1>1 DEF Thread
    <3>8. "ABSENT" \notin States
      BY DEF States, Terminal
    <3> HIDE DEF new
    <3>9. Linked(th, new, row, remote')
      BY <1>1, <1>2, <3>6, <3>7, <3>8 DEF Linked, Requests
    <3>10. QED
      BY <3>1, <3>9 DEF new
  <2>2. CASE CallSpoken(th)
    <3> DEFINE image == [me.existing EXCEPT !.state = "COMPLETED"]
               new == [me EXCEPT !.pc = "write", !.answer = image]
    <3>1. thread' = [thread EXCEPT ![th] = new] /\ remote' = remote /\ me.op \in {"create", "respond"}
      BY <2>2 DEF CallSpoken
    <3>2. me.existing \in Row
      BY <1>1 DEF Thread
    <3>3. image.state = "COMPLETED" /\ image.linked = me.existing.linked
      BY <3>2 DEF Row
    <3> HIDE DEF image
    <3>4. /\ new.pc = "write" /\ new.op = me.op /\ new.task = me.task
          /\ new.existing = me.existing /\ new.answer = image
      BY <1>1 DEF Thread
    <3> HIDE DEF new
    <3>5. "COMPLETED" \notin Ongoing
      BY DEF Ongoing, Terminal
    <3>6. Linked(th, new, row, remote')
      BY <1>1, <1>2, <3>1, <3>3, <3>4, <3>5 DEF Linked, Requests
    <3>7. QED
      BY <3>1, <3>6
  <2>3. CASE CallUnanswered(th)
    BY <2>3, QuietLinked DEF CallUnanswered
  <2>4. CASE CallRefused(th)
    <3> DEFINE new == [me EXCEPT !.pc = "write", !.answer = me.existing]
    <3>1. CASE me.op = "reconcile"
      <4>1. thread' = [thread EXCEPT ![th] = new] /\ remote' = remote
        BY <2>4, <3>1 DEF CallRefused
      <4>2. /\ new.pc = "write" /\ new.op = me.op /\ new.task = me.task
            /\ new.existing = me.existing /\ new.answer = me.existing
        BY <1>1 DEF Thread
      <4> HIDE DEF new
      <4>3. Linked(th, new, row, remote')
        BY <1>1, <1>2, <3>1, <4>1, <4>2 DEF Linked, Requests
      <4>4. QED
        BY <4>1, <4>3
    <3>2. CASE me.op # "reconcile"
      BY <2>4, <3>2, QuietLinked DEF CallRefused
    <3>3. QED
      BY <3>1, <3>2
  <2>5. QED
    BY <2>1, <2>2, <2>3, <2>4
<1>5. LinksInv'
  BY <1>1, <1>3, <1>4, LinksStep
<1>6. \A t \in Tasks : AboutToSubscribe(t) => AboutToSubscribe(t)'
  BY <1>1, <1>4, OthersSubscribe
<1>7. QED
  BY <1>1, <1>5, <1>6, WatchedKept

\* A thread that is done with its event knows what it knew.
LEMMA EventLinks ==
  ASSUME NEW th, NEW me, NEW rows, NEW agents, Linked(th, me, rows, agents), me \in Thread
  PROVE  Linked(th, AfterEvent(me), rows, agents)
<1>1. CASE me.op = "create"
  <2> DEFINE new == [me EXCEPT !.pc = "subscribe"]
  <2>1. /\ new.pc = "subscribe" /\ new.op = me.op /\ new.task = me.task
        /\ new.existing = me.existing /\ new.answer = me.answer
    BY DEF Thread
  <2>2. AfterEvent(me) = new
    BY <1>1 DEF AfterEvent
  <2> HIDE DEF new
  <2>3. QED
    BY <1>1, <2>1, <2>2 DEF Linked
<1>2. CASE me.op = "stream"
  <2> DEFINE next == IF StreamEnds(me) THEN "check" ELSE "stream"
             new == [me EXCEPT !.pc = next, !.existing = NoRow, !.answer = NoRow]
  <2>1. next \in {"check", "stream"}
    OBVIOUS
  <2>2. AfterEvent(me) = new
    BY <1>2 DEF AfterEvent
  <2> HIDE DEF next
  <2>3. /\ new.pc = next /\ new.op = me.op /\ new.task = me.task
        /\ new.existing = NoRow /\ new.answer = NoRow
    BY DEF Thread
  <2>4. ~NoRow.linked /\ NoRow.state \notin Ongoing
    BY DEF NoRow, Ongoing, States, Terminal
  <2> HIDE DEF new
  <2>5. QED
    BY <1>2, <2>1, <2>2, <2>3, <2>4 DEF Linked
<1>3. CASE me.op \notin {"create", "stream"}
  <2>1. AfterEvent(me) = Quiet
    BY <1>3 DEF AfterEvent
  <2>2. QED
    BY <2>1, QuietLinked
<1>4. QED
  BY <1>1, <1>2, <1>3

\* A thread that is about to subscribe goes on being so until it does.
LEMMA EventSubscribe ==
  ASSUME TypeOK, NEW th \in Threads,
         \/ thread' = [thread EXCEPT ![th] = AfterEvent(thread[th])]
         \/ thread' = [thread EXCEPT ![th].pc = "commit"],
         thread[th].pc # "subscribe", NEW t \in Tasks, AboutToSubscribe(t)
  PROVE  AboutToSubscribe(t)'
<1>1. CASE th # "ipc"
  <2>1. thread'["ipc"] = thread["ipc"]
    BY <1>1 DEF TypeOK, Threads
  <2>2. QED
    BY <2>1 DEF AboutToSubscribe
<1>2. CASE th = "ipc"
  <2> DEFINE me == thread["ipc"]
  <2>1. me \in Thread /\ me.op = "create" /\ me.task = t /\ me.answer.state \in Ongoing
    BY <1>2 DEF AboutToSubscribe, TypeOK
  <2>2. AfterEvent(me) = [me EXCEPT !.pc = "subscribe"]
    BY <2>1 DEF AfterEvent
  <2>3. thread'["ipc"] \in {[me EXCEPT !.pc = "subscribe"], [me EXCEPT !.pc = "commit"]}
    BY <1>2, <2>2 DEF TypeOK
  <2>4. QED
    BY <2>1, <2>3 DEF AboutToSubscribe, Thread
<1>3. QED
  BY <1>1, <1>2

\* The transactions of events.
LEMMA EventWatch ==
  ASSUME WatchInv, NEW th \in Threads, Emit(th) \/ Commit(th)
  PROVE  LinksInv' /\ RowLinksInv' /\ TodoLinksInv' /\ WatchedInv'
<1> DEFINE me == thread[th]
           new == [me EXCEPT !.pc = "commit"]
<1>1. /\ me \in Thread /\ Linked(th, me, row, remote) /\ TypeOK
      /\ UNCHANGED <<row, remote, phase, todo, subscribed, crashes, setting, spoken, missed>>
      /\ me.pc \in {"emit", "commit"}
  BY DEF Emit, Commit, WatchInv, TasksInv, TypeOK, LinksInv
<1>2. \/ thread' = [thread EXCEPT ![th] = new] /\ me.pc = "emit"
      \/ thread' = [thread EXCEPT ![th] = AfterEvent(me)]
  BY DEF Emit, Commit
<1>3. /\ new.pc = "commit" /\ new.op = me.op /\ new.task = me.task
      /\ new.existing = me.existing /\ new.answer = me.answer
  BY <1>1 DEF Thread
<1>4. Linked(th, AfterEvent(me), row, remote')
  BY <1>1, EventLinks
<1>5. \A t \in Tasks : AboutToSubscribe(t) => AboutToSubscribe(t)'
  BY <1>1, <1>2, EventSubscribe
<1> HIDE DEF new
<1>6. Linked(th, new, row, remote')
  BY <1>1, <1>3 DEF Linked
<1>7. LinksInv'
  BY <1>1, <1>2, <1>4, <1>6, LinksStep
<1>8. QED
  BY <1>1, <1>5, <1>7, WatchedKept

\* Other transactions of the IPC thread.
LEMMA ControlWatch ==
  ASSUME WatchInv, Control
  PROVE  LinksInv' /\ RowLinksInv' /\ TodoLinksInv' /\ WatchedInv'
<1> DEFINE new == [Quiet EXCEPT !.pc = "commit", !.op = "control"]
<1>1. /\ UNCHANGED <<row, remote, phase, todo, subscribed, crashes, setting, spoken, missed>>
      /\ thread' = [thread EXCEPT !["ipc"] = new] /\ thread["ipc"].pc = "idle"
      /\ "ipc" \in Threads
  BY DEF Control, ReadyIpc, Threads
<1>2. Linked("ipc", new, row, remote')
  BY DEF Linked, Quiet, NoRow, Ongoing, States, Terminal
<1> HIDE DEF new
<1>3. LinksInv'
  BY <1>1, <1>2, LinksStep
<1>4. \A t \in Tasks : ~AboutToSubscribe(t)
  BY <1>1 DEF AboutToSubscribe
<1>5. QED
  BY <1>1, <1>3, <1>4, WatchedKept

\* Writing a row keeps every thread's knowledge of the links.
LEMMA RowWritten ==
  ASSUME WatchInv, NEW th \in Threads, thread[th].pc = "write", remote' = remote,
         row' = [row EXCEPT ![thread[th].task] = thread[th].answer]
  PROVE  /\ \A o \in Threads : o # th => Linked(o, thread[o], row', remote)
         /\ \A t \in Tasks : row[t].linked => row'[t].linked
         /\ thread[th].op = "stream" => row'[thread[th].task].linked
         /\ row'[thread[th].task] = thread[th].answer
         /\ \A t \in Tasks : t # thread[th].task => row'[t] = row[t]
         /\ thread[th].op \notin {"create", "stream"} => row[thread[th].task].state # "ABSENT"
<1> DEFINE me == thread[th]
           t == me.task
<1>1. /\ Works(th, me, remote, spoken, subscribed) /\ Linked(th, me, row, remote)
      /\ row \in [Tasks -> Row]
  BY DEF WatchInv, TasksInv, TypeOK, ThreadsInv, LinksInv
<1>2. t \in Tasks /\ me.op \in Requests \cup {"stream"} /\ me.op # "none"
  BY <1>1, ThreadsAssumption DEF Works, Thread, Requests
<1>3. row'[t] = me.answer /\ \A s \in Tasks : s # t => row'[s] = row[s]
  BY <1>1, <1>2
<1>4. row[t].linked => me.answer.linked
  BY <1>1 DEF Linked
<1>5. me.answer.state # "ABSENT"
  BY <1>1 DEF Linked
<1>6. me.op \in {"cancel", "refresh", "reconcile", "stream"} => row[t].linked /\ row[t].state # "ABSENT"
  BY <1>1, <1>2, ThreadsAssumption DEF Linked
<1>7. me.op = "respond" => row[t].state # "ABSENT"
  BY <1>1 DEF Linked
<1>8. me.op \in {"create", "respond"} => th = "ipc"
  BY <1>1 DEF Linked
<1>9. ASSUME NEW o \in Threads, o # th
      PROVE  Linked(o, thread[o], row', remote)
  <2> DEFINE he == thread[o]
  <2>1. /\ Works(o, he, remote, spoken, subscribed) /\ Linked(o, he, row, remote)
    BY DEF WatchInv, TasksInv, ThreadsInv, LinksInv
  <2>2. he.task \in Tasks \/ he.task = None
    BY <2>1 DEF Works, Thread
  <2>3. CASE he.task = t
    <3>1. he.op \in Requests \cup {"stream"}
      BY <1>2, <2>1, <2>3, ThreadsAssumption DEF Works
    <3>2. he.op = "create" /\ he.pc \in {"call", "write"} => FALSE
      <4> SUFFICES ASSUME he.op = "create", he.pc \in {"call", "write"}
                   PROVE  FALSE
        OBVIOUS
      <4>1. row[t].state = "ABSENT" /\ o = "ipc"
        BY <2>1, <2>3 DEF Linked
      <4>2. me.op \in {"cancel", "refresh", "reconcile", "stream"}
        BY <1>2, <1>8, <1>9, <4>1 DEF Requests
      <4>3. QED
        BY <1>6, <4>1, <4>2
    <3>3. CASE row[t].linked
      BY <1>3, <1>4, <1>5, <2>1, <2>3, <3>2, <3>3 DEF Linked
    <3>4. CASE ~row[t].linked
      <4>1. me.op \in {"create", "respond"} /\ th = "ipc" /\ o # "ipc"
        BY <1>2, <1>6, <1>8, <1>9, <3>4 DEF Requests
      <4>2. he.op = "stream" /\ he.pc # "write" /\ row[t].state = "ABSENT"
        BY <2>1, <2>3, <3>1, <3>4, <4>1, <1>2, ThreadsAssumption DEF Linked, Requests
      <4>3. me.op = "create" /\ remote[t] # <<>>
        BY <1>7, <2>1, <2>3, <4>1, <4>2 DEF Works
      <4>4. me.answer.linked
        BY <1>1, <4>3 DEF Linked
      <4>5. he.pc # "call"
        BY <2>1, <4>2 DEF Works
      <4>6. QED
        BY <1>3, <2>1, <2>3, <4>2, <4>4, <4>5 DEF Linked
    <3>5. QED
      BY <3>3, <3>4
  <2>4. CASE he.task # t /\ he.task \in Tasks
    <3>1. row'[he.task] = row[he.task]
      BY <1>3, <2>4
    <3>2. QED
      BY <2>1, <3>1 DEF Linked
  <2>5. CASE he.task = None
    <3>1. he.op \notin Requests \cup {"stream"} /\ he.pc \notin {"call", "write"}
      BY <2>1, <2>5 DEF Works, Requests, Thread
    <3>2. QED
      BY <2>1, <2>5, <3>1 DEF Linked, Requests
  <2>6. QED
    BY <2>2, <2>3, <2>4, <2>5
<1>10. QED
  BY <1>2, <1>3, <1>4, <1>6, <1>7, <1>9 DEF Requests

\* A write leaves each open row watched, on its way to be, or missed.
LEMMA WriteWatch ==
  ASSUME WatchInv, NEW th \in Threads, Write(th)
  PROVE  LinksInv' /\ RowLinksInv' /\ TodoLinksInv' /\ WatchedInv'
<1> DEFINE me == thread[th]
           emit == [me EXCEPT !.pc = "emit"]
<1>1. /\ me.pc = "write" /\ me \in Thread /\ Works(th, me, remote, spoken, subscribed)
      /\ Linked(th, me, row, remote) /\ TypeOK
      /\ UNCHANGED <<remote, phase, todo, subscribed, txn, crashes, setting, spoken>>
      /\ missed \subseteq missed'
  BY DEF Write, WatchInv, TasksInv, TypeOK, ThreadsInv, LinksInv
<1>2. \/ thread' = [thread EXCEPT ![th] = emit] /\ Tells(me)
      \/ thread' = [thread EXCEPT ![th] = AfterEvent(me)] /\ ~Tells(me)
  BY DEF Write
<1>3. /\ emit.pc = "emit" /\ emit.op = me.op /\ emit.task = me.task
      /\ emit.existing = me.existing /\ emit.answer = me.answer
  BY <1>1 DEF Thread
<1> HIDE DEF emit
<1>4. me.task \in Tasks
  BY <1>1, ThreadsAssumption DEF Works, Thread, Requests
<1>5. CASE txn # None
  <2>1. row' = row
    BY <1>5 DEF Write
  <2>2. Linked(th, emit, row, remote') /\ Linked(th, AfterEvent(me), row, remote')
    <3>1. Linked(th, emit, row, remote)
      BY <1>1, <1>3 DEF Linked
    <3>2. Linked(th, AfterEvent(me), row, remote)
      BY <1>1, EventLinks
    <3>3. QED
      BY <1>1, <3>1, <3>2
  <2>3. LinksInv'
    BY <1>1, <1>2, <2>1, <2>2, LinksStep
  <2>4. \A t \in Tasks : AboutToSubscribe(t) => AboutToSubscribe(t)'
    BY <1>1, <1>2, OthersSubscribe
  <2>5. QED
    BY <1>1, <2>1, <2>3, <2>4, WatchedKept
<1>6. CASE txn = None
  <2>1. row' = [row EXCEPT ![me.task] = me.answer]
    BY <1>6 DEF Write
  <2>2. /\ \A o \in Threads : o # th => Linked(o, thread[o], row', remote)
        /\ \A t \in Tasks : row[t].linked => row'[t].linked
        /\ me.op = "stream" => row'[me.task].linked
        /\ row'[me.task] = me.answer
        /\ \A t \in Tasks : t # me.task => row'[t] = row[t]
        /\ me.op \notin {"create", "stream"} => row[me.task].state # "ABSENT"
    BY <1>1, <2>1, RowWritten
  <2>3. me.answer.state # "ABSENT" /\ (me.answer.state \in Ongoing => me.answer.linked)
    BY <1>1 DEF Linked
  <2>4. /\ Linked(th, emit, row', remote) /\ Linked(th, AfterEvent(me), row', remote)
    <3>1. Linked(th, emit, row', remote)
      BY <1>1, <1>3, <1>4, <2>2, <2>3 DEF Linked
    <3>2. AfterEvent(me) = AfterEvent(emit)
      <4>1. CASE me.op = "create"
        BY <1>1, <1>3, <4>1 DEF AfterEvent, Thread, emit
      <4>2. CASE me.op = "stream"
        BY <1>1, <1>3, <4>2 DEF AfterEvent, Thread, emit, StreamEnds
      <4>3. CASE me.op \notin {"create", "stream"}
        BY <1>3, <4>3 DEF AfterEvent
      <4>4. QED
        BY <4>1, <4>2, <4>3
    <3>3. emit \in Thread
      BY <1>1 DEF Thread, emit
    <3>4. QED
      BY <3>1, <3>2, <3>3, EventLinks
  <2>5. LinksInv'
    <3>1. ASSUME NEW o \in Threads
          PROVE  Linked(o, thread'[o], row', remote')
      <4>1. o # th => thread'[o] = thread[o]
        BY <1>1, <1>2 DEF TypeOK
      <4>2. o = th => thread'[o] \in {emit, AfterEvent(me)}
        BY <1>1, <1>2 DEF TypeOK
      <4>3. QED
        BY <1>1, <2>2, <2>4, <4>1, <4>2
    <3>2. QED
      BY <3>1 DEF LinksInv
  <2>6. RowLinksInv'
    BY <1>4, <2>2, <2>3 DEF WatchInv, RowLinksInv
  <2>7. TodoLinksInv'
    <3>1. \A item \in todo : item.task \in Tasks
      BY <1>1 DEF TypeOK
    <3>2. QED
      BY <1>1, <2>2, <3>1 DEF WatchInv, TodoLinksInv
  <2>8. WatchedInv'
    <3>1. SUFFICES ASSUME phase \in {"subscribe", "loop"}, NEW t \in setting.streaming,
                          row'[t].state \in Ongoing
                   PROVE  \/ t \in subscribed \cup missed'
                          \/ phase = "subscribe" /\ \E item \in todo : item.task = t
                          \/ AboutToSubscribe(t)'
      BY <1>1 DEF WatchedInv
    <3>2. t \in Tasks
      BY <1>1, TasksAssumption DEF TypeOK, Setting
    <3>3. CASE row[t].state \in Ongoing
      <4>1. AboutToSubscribe(t) => AboutToSubscribe(t)'
        BY <1>1, <1>2, <3>2, OthersSubscribe
      <4>2. \/ t \in subscribed \cup missed
            \/ phase = "subscribe" /\ \E item \in todo : item.task = t
            \/ AboutToSubscribe(t)
        BY <3>1, <3>3 DEF WatchInv, WatchedInv
      <4>3. QED
        BY <1>1, <4>1, <4>2
    <3>4. CASE row[t].state \notin Ongoing
      <4>1. t = me.task /\ me.answer.state \in Ongoing
        BY <2>2, <3>1, <3>2, <3>4
      <4>2. CASE me.op = "stream"
        BY <1>1, <4>1, <4>2 DEF Works
      <4>3. CASE me.op = "create"
        <5>1. thread' = [thread EXCEPT ![th] = emit] /\ th = "ipc"
          BY <1>1, <1>2, <4>3 DEF Tells, Linked
        <5>2. thread'["ipc"] = emit
          BY <1>1, <5>1 DEF TypeOK
        <5>3. QED
          BY <1>3, <4>1, <4>3, <5>2 DEF AboutToSubscribe
      <4>4. CASE me.op \notin {"create", "stream"}
        <5>1. row[t].state # "ABSENT" /\ row[t] \in Row
          BY <1>1, <1>4, <2>2, <4>1, <4>4 DEF TypeOK
        <5>2. row[t].state \in Terminal /\ me.answer.state \notin Terminal
          BY <3>4, <4>1, <5>1 DEF Ongoing, Row
        <5>3. Reopens(me)
          BY <1>6, <4>1, <4>4, <5>2 DEF Reopens
        <5>4. QED
          BY <4>1, <5>3 DEF Write
      <4>5. QED
        BY <4>2, <4>3, <4>4
    <3>5. QED
      BY <3>3, <3>4
  <2>9. QED
    BY <2>5, <2>6, <2>7, <2>8
<1>7. QED
  BY <1>5, <1>6

\* A subscription begins for a row that is linked or gone, and then the task is
\* subscribed or missed.
LEMMA SubscribeLinks ==
  ASSUME WatchInv, NEW th \in Threads, NEW t \in Tasks, NEW image,
         Subscribe(th, t, image), UNCHANGED <<row, remote>>,
         image.linked => row[t].linked \/ row[t].state = "ABSENT"
  PROVE  /\ LinksInv' /\ subscribed \subseteq subscribed' /\ missed \subseteq missed'
         /\ t \in setting.streaming /\ image.linked /\ image.state \in Ongoing
               => t \in subscribed' \cup missed'
         /\ \A o \in Threads : o # th => thread'[o] = thread[o] \/ o \in Slots
<1>1. /\ subscribed \subseteq subscribed' /\ missed \subseteq missed'
      /\ t \in setting.streaming /\ image.linked /\ image.state \in Ongoing
            => t \in subscribed' \cup missed'
  BY DEF Subscribe, Watchable, Ongoing
<1>2. CASE thread' = [thread EXCEPT ![th] = Quiet]
  <2>1. Linked(th, Quiet, row, remote')
    BY QuietLinked
  <2>2. LinksInv'
    BY <1>2, <2>1, LinksStep
  <2>3. QED
    BY <1>1, <1>2, <2>2 DEF WatchInv, TasksInv, TypeOK
<1>3. CASE thread' # [thread EXCEPT ![th] = Quiet]
  <2> DEFINE new == [Quiet EXCEPT !.pc = "connect", !.op = "stream", !.task = t]
  <2>1. PICK s \in Slots : thread' = [thread EXCEPT ![th] = Quiet, ![s] = new]
    BY <1>3 DEF Subscribe
  <2>2. image.linked
    BY <1>3 DEF Subscribe, Watchable
  <2>3. Linked(s, new, row, remote')
    <3>1. /\ new.pc = "connect" /\ new.op = "stream" /\ new.task = t
          /\ new.existing = NoRow /\ new.answer = NoRow
      BY DEF Quiet
    <3>2. ~NoRow.linked /\ NoRow.state \notin Ongoing
      BY DEF NoRow, Ongoing, States, Terminal
    <3> HIDE DEF new
    <3>3. QED
      BY <2>2, <3>1, <3>2 DEF Linked
  <2> HIDE DEF new
  <2>4. /\ s \in Threads /\ thread'[s] = new
        /\ \A o \in Threads : o # s => thread'[o] = IF o = th THEN Quiet ELSE thread[o]
    BY <2>1 DEF WatchInv, TasksInv, TypeOK, Threads
  <2>5. ASSUME NEW o \in Threads
        PROVE  Linked(o, thread'[o], row', remote')
    <3>1. Linked(o, thread[o], row, remote)
      BY DEF WatchInv, LinksInv
    <3>2. QED
      BY <2>3, <2>4, <3>1, QuietLinked
  <2>6. QED
    BY <1>1, <2>4, <2>5 DEF LinksInv
<1>4. QED
  BY <1>2, <1>3

\* The end of createTask().
LEMMA CreateWatch ==
  ASSUME WatchInv, NEW th \in Threads, CreateSubscribes(th)
  PROVE  LinksInv' /\ RowLinksInv' /\ TodoLinksInv' /\ WatchedInv'
<1> DEFINE me == thread[th]
<1>1. /\ me.pc = "subscribe" /\ Subscribe(th, me.task, me.answer) /\ TypeOK
      /\ UNCHANGED <<row, remote, phase, todo, txn, crashes, setting, spoken>>
      /\ Works(th, me, remote, spoken, subscribed) /\ Linked(th, me, row, remote)
  BY DEF CreateSubscribes, WatchInv, TasksInv, ThreadsInv, LinksInv
<1>2. me.op = "create" /\ th = "ipc" /\ me.task \in Tasks
  BY <1>1, ThreadsAssumption DEF Works, Linked, Thread, Requests
<1>3. me.answer.linked => row[me.task].linked \/ row[me.task].state = "ABSENT"
  BY <1>1, <1>2 DEF Linked
<1>4. /\ LinksInv' /\ subscribed \subseteq subscribed' /\ missed \subseteq missed'
      /\ me.task \in setting.streaming /\ me.answer.linked /\ me.answer.state \in Ongoing
            => me.task \in subscribed' \cup missed'
  BY <1>1, <1>2, <1>3, SubscribeLinks
<1>5. me.answer.state \in Ongoing => me.answer.linked
  BY <1>1 DEF Linked
<1>6. WatchedInv'
  <2>1. SUFFICES ASSUME phase \in {"subscribe", "loop"}, NEW t \in setting.streaming,
                        row[t].state \in Ongoing
                 PROVE  \/ t \in subscribed' \cup missed'
                        \/ phase = "subscribe" /\ \E item \in todo : item.task = t
    BY <1>1 DEF WatchedInv
  <2>2. \/ t \in subscribed \cup missed
        \/ phase = "subscribe" /\ \E item \in todo : item.task = t
        \/ AboutToSubscribe(t)
    BY <2>1 DEF WatchInv, WatchedInv
  <2>3. AboutToSubscribe(t) => t = me.task /\ me.answer.state \in Ongoing
    BY <1>2 DEF AboutToSubscribe
  <2>4. QED
    BY <1>4, <1>5, <2>1, <2>2, <2>3
<1>7. QED
  BY <1>1, <1>4, <1>6 DEF WatchInv, RowLinksInv, TodoLinksInv

\* A callback has a linked row or none to write to.
LEMMA MergeLinks ==
  ASSUME WatchInv, NEW s \in Slots, NEW me \in Thread, NEW image, Merging(s, me, image),
         me.op = "stream", me.task \in Tasks, Linked(s, me, row, remote),
         Exists(me.task) => image.linked /\ image.state # "ABSENT"
  PROVE  \E new : thread' = [thread EXCEPT ![s] = new] /\ Linked(s, new, row, remote)
<1>1. CASE Exists(me.task)
  <2> DEFINE new == [me EXCEPT !.pc = "write", !.existing = row[me.task], !.answer = image]
  <2>1. /\ new.pc = "write" /\ new.op = me.op /\ new.task = me.task
        /\ new.existing = row[me.task] /\ new.answer = image
    BY DEF Thread
  <2>2. thread' = [thread EXCEPT ![s] = new]
    BY <1>1 DEF Merging
  <2> HIDE DEF new
  <2>3. Linked(s, new, row, remote)
    BY <1>1, <2>1 DEF Linked, Exists
  <2>4. QED
    BY <2>2, <2>3
<1>2. CASE ~Exists(me.task)
  BY <1>2, EventLinks DEF Merging
<1>3. QED
  BY <1>1, <1>2

\* A stream connects, delivers, breaks and is checked.
LEMMA StreamWatch ==
  ASSUME WatchInv, NEW s \in Slots, Stream(s)
  PROVE  LinksInv' /\ RowLinksInv' /\ TodoLinksInv' /\ WatchedInv'
<1> DEFINE me == thread[s]
<1>1. /\ me \in Thread /\ Works(s, me, remote, spoken, subscribed) /\ Linked(s, me, row, remote)
      /\ s \in Threads /\ s # "ipc" /\ TypeOK
      /\ UNCHANGED <<row, remote, phase, todo, subscribed, txn, crashes, setting, spoken, missed>>
      /\ me.pc \in {"connect", "snapshot", "stream", "check"}
  BY ThreadsAssumption DEF Stream, Connect, Disconnect, OnSnapshot, OnUpdate, Check, WatchInv, TasksInv,
       TypeOK, ThreadsInv, LinksInv, Threads
<1>2. /\ me.op = "stream" /\ me.task \in Tasks /\ remote[me.task] # <<>> /\ Begun(remote[me.task])
  BY <1>1 DEF Works, Thread, WatchInv, TasksInv, RemoteInv
<1>3. \E new : thread' = [thread EXCEPT ![s] = new] /\ Linked(s, new, row, remote)
  <2>1. CASE Connect(s)
    <3> DEFINE image == Snapshot(remote[me.task])
               at == Len(remote[me.task])
               new == [me EXCEPT !.pc = "snapshot", !.at = at, !.answer = image]
    <3>1. image.linked /\ image.state \in States
      BY <1>2, SnapshotIsRow, StateIsReported
    <3>2. "ABSENT" \notin States
      BY DEF States, Terminal
    <3>3. thread' = [thread EXCEPT ![s] = new]
      BY <2>1 DEF Connect
    <3> HIDE DEF image, at
    <3>4. /\ new.pc = "snapshot" /\ new.op = me.op /\ new.task = me.task
          /\ new.existing = me.existing /\ new.answer = image
      BY <1>1 DEF Thread
    <3> HIDE DEF new
    <3>5. Linked(s, new, row, remote)
      BY <1>1, <1>2, <3>1, <3>2, <3>4 DEF Linked
    <3>6. QED
      BY <3>3, <3>5
  <2>2. CASE Disconnect(s)
    <3> DEFINE new == [me EXCEPT !.pc = "check"]
    <3>1. /\ new.pc = "check" /\ new.op = me.op /\ new.task = me.task
          /\ new.existing = me.existing /\ new.answer = me.answer
      BY <1>1 DEF Thread
    <3>2. thread' = [thread EXCEPT ![s] = new]
      BY <2>2 DEF Disconnect
    <3> HIDE DEF new
    <3>3. Linked(s, new, row, remote)
      BY <1>1, <1>2, <3>1 DEF Linked
    <3>4. QED
      BY <3>2, <3>3
  <2>3. CASE OnSnapshot(s)
    <3>1. Merging(s, me, me.answer) /\ me.pc = "snapshot"
      BY <2>3 DEF OnSnapshot
    <3>2. me.answer.linked /\ me.answer.state # "ABSENT"
      BY <1>1, <3>1 DEF Linked
    <3>3. QED
      BY <1>1, <1>2, <3>1, <3>2, MergeLinks
  <2>4. CASE OnUpdate(s)
    <3> DEFINE k == me.at + 1
               next == [me EXCEPT !.at = k]
               image == Merged(row[me.task], remote[me.task], k)
    <3>1. /\ Merging(s, next, image) /\ k \in Nat /\ k <= Len(remote[me.task]) /\ k >= 1
      BY <1>1, <2>4 DEF OnUpdate, Thread
    <3>2. /\ next \in Thread /\ next.pc = me.pc /\ next.op = me.op /\ next.task = me.task
          /\ next.existing = me.existing /\ next.answer = me.answer
      BY <1>1, <3>1 DEF Thread
    <3>3. Exists(me.task) => image.linked /\ image.state # "ABSENT"
      <4> SUFFICES ASSUME Exists(me.task)
                   PROVE  image.linked /\ image.state # "ABSENT"
        OBVIOUS
      <4>1. row[me.task].linked /\ row[me.task].state # "ABSENT" /\ row[me.task] \in Row
        BY <1>1, <1>2 DEF Exists, Linked, TypeOK
      <4>2. remote[me.task][k] \in Updates
        <5>1. k \in 1..Len(remote[me.task])
          BY <1>2, <3>1, LenProperties DEF Begun
        <5>2. QED
          BY <1>2, <5>1, ElementOfSeq DEF Begun
      <4>3. remote[me.task][k] # "ABSENT"
        BY <4>2, TasksAssumption DEF Updates, States, Terminal
      <4>4. /\ image.linked = row[me.task].linked
            /\ image.state \in {row[me.task].state, remote[me.task][k]}
        BY <4>1 DEF Merged, Row
      <4>5. QED
        BY <4>1, <4>3, <4>4
    <3> HIDE DEF k, next, image
    <3>4. Linked(s, next, row, remote)
      BY <1>1, <3>2 DEF Linked
    <3>5. QED
      BY <1>2, <3>1, <3>2, <3>3, <3>4, MergeLinks
  <2>5. CASE Check(s)
    <3> DEFINE new == [me EXCEPT !.pc = "connect", !.at = 0]
    <3>1. /\ new.pc = "connect" /\ new.op = me.op /\ new.task = me.task
          /\ new.existing = me.existing /\ new.answer = me.answer
      BY <1>1 DEF Thread
    <3>2. \/ thread' = [thread EXCEPT ![s] = new]
          \/ thread' = [thread EXCEPT ![s] = Quiet]
      BY <2>5 DEF Check
    <3> HIDE DEF new
    <3>3. Linked(s, new, row, remote)
      BY <1>1, <1>2, <3>1 DEF Linked
    <3>4. QED
      BY <3>2, <3>3, QuietLinked
  <2>6. QED
    BY <2>1, <2>2, <2>3, <2>4, <2>5 DEF Stream
<1>4. LinksInv'
  BY <1>1, <1>3, LinksStep
<1>5. \A t \in Tasks : AboutToSubscribe(t) => AboutToSubscribe(t)'
  BY <1>1, <1>3, OthersSubscribe
<1>6. QED
  BY <1>1, <1>4, <1>5, WatchedKept

\* The main thread lists, calls and subscribes.
LEMMA StartupWatch ==
  ASSUME WatchInv, Startup
  PROVE  LinksInv' /\ RowLinksInv' /\ TodoLinksInv' /\ WatchedInv'
<1>1. \A item \in Listed : /\ item.image = row[item.task] /\ row[item.task].state \in Ongoing
                           /\ row[item.task].linked
  <2>1. \A item \in Listed : item.image = row[item.task] /\ Open(item.task) /\ item.task \in Tasks
    BY ListedBacked DEF WatchInv, Listed
  <2>2. \A t \in Tasks : Open(t) => row[t].state \in Ongoing
    BY DEF WatchInv, TasksInv, TypeOK, Row, Open, Exists, Ongoing
  <2>3. QED
    BY <2>1, <2>2 DEF WatchInv, RowLinksInv
<1>2. \A t \in Tasks : row[t].state \in Ongoing => \E item \in Listed : item.task = t
  <2>1. ASSUME NEW t \in Tasks, row[t].state \in Ongoing
        PROVE  [task |-> t, image |-> row[t]] \in Listed
    <3>1. Open(t)
      BY <2>1 DEF Open, Exists, Ongoing, States, Terminal
    <3>2. QED
      BY <3>1 DEF Listed
  <2>2. QED
    BY <2>1
<1>3. \A t \in setting.streaming : t \in Tasks
  BY TasksAssumption DEF WatchInv, TasksInv, TypeOK, Setting
<1>4. \A item \in todo : /\ item.task \in Tasks /\ item.image.linked /\ row[item.task].linked
                         /\ item.image.state \in Ongoing /\ row[item.task].state # "ABSENT"
  BY DEF WatchInv, TasksInv, TypeOK, TodoLinksInv, RowLinksInv
<1>5. CASE Boot \/ Reconciled \/ Started \/ PollList
  <2>1. UNCHANGED <<row, remote, thread, subscribed, txn, crashes, setting, spoken, missed>>
    BY <1>5 DEF Boot, Reconciled, Started, PollList
  <2>2. LinksInv' /\ RowLinksInv'
    BY <2>1 DEF WatchInv, LinksInv, RowLinksInv
  <2>3. todo' = Listed \/ todo' = todo
    BY <1>5 DEF Boot, Reconciled, Started, PollList
  <2>4. TodoLinksInv'
    BY <1>1, <2>1, <2>3 DEF WatchInv, TodoLinksInv
  <2>5. CASE Boot \/ Reconciled
    <3>1. todo' = Listed /\ phase' \in {"reconcile", "subscribe"}
      BY <2>5 DEF Boot, Reconciled
    <3>2. WatchedInv'
      BY <1>2, <1>3, <2>1, <3>1 DEF WatchedInv
    <3>3. QED
      BY <2>2, <2>4, <3>2
  <2>6. CASE Started \/ PollList
    <3>1. phase' = "loop" /\ (phase = "loop" \/ (phase = "subscribe" /\ todo = {}))
      BY <2>6 DEF Started, PollList, ReadyMain
    <3>2. \A t \in Tasks : AboutToSubscribe(t)' = AboutToSubscribe(t)
      BY <2>1 DEF AboutToSubscribe
    <3>3. WatchedInv'
      <4>1. SUFFICES ASSUME NEW t \in setting.streaming, row[t].state \in Ongoing
                     PROVE  t \in subscribed \cup missed \/ AboutToSubscribe(t)'
        BY <2>1 DEF WatchedInv
      <4>2. t \in subscribed \cup missed \/ AboutToSubscribe(t)
        BY <3>1, <4>1 DEF WatchInv, WatchedInv
      <4>3. QED
        BY <1>3, <3>2, <4>2
    <3>4. QED
      BY <2>2, <2>4, <3>3
  <2>7. QED
    BY <1>5, <2>5, <2>6
<1>6. ASSUME NEW item \in todo, ReconcileNext(item) \/ PollNext(item)
      PROVE  LinksInv' /\ RowLinksInv' /\ TodoLinksInv' /\ WatchedInv'
  <2>1. /\ UNCHANGED <<row, remote, phase, subscribed, txn, crashes, setting, spoken, missed>>
        /\ todo' = todo \ {item} /\ phase # "subscribe"
    BY <1>6 DEF ReconcileNext, PollNext, ReadyMain
  <2>2. \/ thread' = thread
        \/ Calling("main", "reconcile", item.task, item.image)
        \/ Calling("main", "refresh", item.task, row[item.task])
    BY <1>6 DEF ReconcileNext, PollNext
  <2>3. LinksInv'
    <3>1. CASE thread' = thread
      BY <2>1, <3>1 DEF WatchInv, LinksInv
    <3>2. CASE Calling("main", "reconcile", item.task, item.image)
      <4>1. item.image.state # "ABSENT"
        BY <1>4 DEF Ongoing, States, Terminal
      <4>2. QED
        BY <1>4, <2>1, <3>2, <4>1, CallLinks DEF Requests
    <3>3. CASE Calling("main", "refresh", item.task, row[item.task])
      BY <1>4, <2>1, <3>3, CallLinks DEF Requests
    <3>4. QED
      BY <2>2, <3>1, <3>2, <3>3
  <2>4. \A t \in Tasks : AboutToSubscribe(t)' = AboutToSubscribe(t)
    <3>1. thread'["ipc"] = thread["ipc"]
      BY <2>2 DEF Calling, WatchInv, TasksInv, TypeOK, Threads
    <3>2. QED
      BY <3>1 DEF AboutToSubscribe
  <2>5. WatchedInv'
    <3>1. SUFFICES ASSUME phase = "loop", NEW t \in setting.streaming, row[t].state \in Ongoing
                   PROVE  t \in subscribed \cup missed \/ AboutToSubscribe(t)'
      BY <2>1 DEF WatchedInv
    <3>2. t \in subscribed \cup missed \/ AboutToSubscribe(t)
      BY <3>1 DEF WatchInv, WatchedInv
    <3>3. QED
      BY <1>3, <2>4, <3>2
  <2>6. RowLinksInv' /\ TodoLinksInv'
    BY <2>1 DEF WatchInv, RowLinksInv, TodoLinksInv
  <2>7. QED
    BY <2>3, <2>5, <2>6
<1>7. ASSUME NEW item \in todo, SubscribeNext(item)
      PROVE  LinksInv' /\ RowLinksInv' /\ TodoLinksInv' /\ WatchedInv'
  <2>1. /\ UNCHANGED <<row, remote, phase, txn, crashes, setting, spoken>>
        /\ todo' = todo \ {item} /\ Subscribe("main", item.task, item.image)
        /\ phase = "subscribe" /\ "main" \in Threads
    BY <1>7 DEF SubscribeNext, ReadyMain, Threads
  <2>2. /\ LinksInv' /\ subscribed \subseteq subscribed' /\ missed \subseteq missed'
        /\ item.task \in setting.streaming => item.task \in subscribed' \cup missed'
        /\ \A o \in Threads : o # "main" => thread'[o] = thread[o] \/ o \in Slots
    BY <1>4, <2>1, SubscribeLinks
  <2>3. \A t \in Tasks : AboutToSubscribe(t)' = AboutToSubscribe(t)
    <3>1. thread'["ipc"] = thread["ipc"]
      BY <2>2, ThreadsAssumption DEF Threads
    <3>2. QED
      BY <3>1 DEF AboutToSubscribe
  <2>4. WatchedInv'
    <3>1. SUFFICES ASSUME NEW t \in setting.streaming, row[t].state \in Ongoing
                   PROVE  \/ t \in subscribed' \cup missed'
                          \/ \E other \in todo \ {item} : other.task = t
                          \/ AboutToSubscribe(t)'
      BY <2>1 DEF WatchedInv
    <3>2. \/ t \in subscribed \cup missed
          \/ \E other \in todo : other.task = t
          \/ AboutToSubscribe(t)
      BY <2>1, <3>1 DEF WatchInv, WatchedInv
    <3>3. QED
      BY <1>3, <2>2, <2>3, <3>2
  <2>5. RowLinksInv' /\ TodoLinksInv'
    BY <2>1 DEF WatchInv, RowLinksInv, TodoLinksInv
  <2>6. QED
    BY <2>2, <2>4, <2>5
<1>8. QED
  BY <1>5, <1>6, <1>7 DEF Startup

\* A crash forgets all threads and lists.
LEMMA CrashWatch ==
  ASSUME WatchInv, Crash
  PROVE  LinksInv' /\ RowLinksInv' /\ TodoLinksInv' /\ WatchedInv'
<1>1. /\ phase' = "down" /\ thread' = [th \in Threads |-> Quiet] /\ todo' = {}
      /\ UNCHANGED <<row, remote, setting, spoken>>
  BY DEF Crash
<1>2. \A th \in Threads : Linked(th, thread'[th], row', remote')
  BY <1>1, QuietLinked
<1>3. QED
  BY <1>1, <1>2 DEF WatchInv, LinksInv, RowLinksInv, TodoLinksInv, WatchedInv

\* Every step keeps open tasks watched.
LEMMA WatchStep == WatchInv /\ [Next]_vars => WatchInv'
<1> SUFFICES ASSUME WatchInv, [Next]_vars
             PROVE  LinksInv' /\ RowLinksInv' /\ TodoLinksInv' /\ WatchedInv'
  BY TasksStep DEF WatchInv
<1>1. CASE UNCHANGED vars
  BY <1>1 DEF vars, WatchInv, LinksInv, RowLinksInv, TodoLinksInv, WatchedInv, AboutToSubscribe
<1>2. ASSUME NEW th \in Threads, Step(th)
      PROVE  LinksInv' /\ RowLinksInv' /\ TodoLinksInv' /\ WatchedInv'
  BY <1>2, CallWatch, WriteWatch, EventWatch, CreateWatch DEF Step
<1>3. QED
  BY <1>1, <1>2, StartupWatch, RequestWatch, ControlWatch, StreamWatch, AgentWatch, CrashWatch DEF Next

\* No open task of a streaming agent is left without its subscription, for any
\* interleaving of startup, submissions, crashes and late answers.
THEOREM OpenTasksWatched == Spec => []OpenTasksAreWatched
<1>1. Init => WatchInv
  <2> SUFFICES ASSUME Init
               PROVE  WatchInv
    OBVIOUS
  <2>1. TasksInv
    BY InitTasks
  <2>2. \A th \in Threads : Linked(th, thread[th], row, remote)
    BY QuietLinked DEF Init
  <2>3. RowLinksInv /\ TodoLinksInv /\ WatchedInv
    BY DEF Init, RowLinksInv, TodoLinksInv, WatchedInv, NoRow, Ongoing, States, Terminal
  <2>4. QED
    BY <2>1, <2>2, <2>3 DEF WatchInv, LinksInv
<1>2. WatchInv => OpenTasksAreWatched
  <2> SUFFICES ASSUME WatchInv, phase = "loop", thread["ipc"].pc = "idle",
                      NEW t \in setting.streaming, Open(t)
               PROVE  t \in subscribed \cup missed
    BY DEF OpenTasksAreWatched
  <2>1. t \in Tasks
    BY TasksAssumption DEF WatchInv, TasksInv, TypeOK, Setting
  <2>2. row[t].state \in Ongoing
    BY <2>1 DEF WatchInv, TasksInv, TypeOK, Row, Open, Exists, Ongoing
  <2>3. QED
    BY <2>2 DEF WatchInv, WatchedInv, AboutToSubscribe
<1>3. QED
  BY <1>1, <1>2, WatchStep, PTL DEF Spec
=============================================================================
