------------------------------ MODULE IpcServer ------------------------------
(***************************************************************************)
(* The owner socket (daemon/src/IpcServer.cpp): start, the accept thread   *)
(* with its connections one after the other, and stop, in one daemon that  *)
(* may die and be started again.  The database lock of main() lets one     *)
(* daemon live at a time.                                                  *)
(*                                                                         *)
(* Descriptors are numbers the kernel hands out again once they are        *)
(* closed, to this server or to any other thread of the daemon; what a     *)
(* call on a number reaches is what the number stands for at that moment.  *)
(* An event of the daemon goes where the sink of main() sends it, to the   *)
(* control plane.  broadcastEvent has no caller and is left out, and so is *)
(* the set serving, which only it reads; the documents say that events     *)
(* reach every open connection (EventsReachConnections).                   *)
(***************************************************************************)
EXTENDS Naturals, Sequences, FiniteSets

CONSTANTS
    Peers,      \* connections; each is made at most once
    Fds,        \* bound: descriptor numbers; one is always free to accept with
    MaxOther,   \* bound: files other threads have open at a time
    MaxStops,   \* bound: stops and deaths of the daemon
    MaxEvents,  \* bound: events of the daemon
    None

ASSUME FdsAssumption ==
    /\ Fds \subseteq Nat \ {0} /\ IsFiniteSet(Fds)
    /\ MaxOther \in Nat /\ MaxOther + 2 <= Cardinality(Fds)
ASSUME PeersAssumption == None \notin Peers /\ Peers \cap {"listener", "other", "free"} = {}
ASSUME StopsAssumption == MaxStops \in Nat /\ MaxEvents \in Nat

VARIABLES
    files,      \* what each number stands for
    running,    \* running_
    listenFd,   \* impl_->listen_fd; 0 for -1
    clients,    \* impl_->clients
    path,       \* the socket file
    backlog,    \* connections the kernel holds for accept()
    acc,        \* the accept thread
    main,       \* the thread that starts and stops the server
    peer,       \* the other ends
    shut,       \* connections shutdown() was called on
    events,     \* events the task manager gave to its sink
    stops

vars == <<files, running, listenFd, clients, path, backlog, acc, main, peer, shut, events, stops>>

Idle == [pc |-> "none", fd |-> 0, peer |-> None]

\* A request for one answer, or one whose handler reads an agent's stream
\* (subscribe, stream_submit).
Requests == {"line", "stream"}

TypeOK ==
    /\ files \in [Fds -> Peers \cup {"listener", "other", "free"}]
    /\ running \in BOOLEAN
    /\ listenFd \in Fds \cup {0}
    /\ clients \subseteq Fds
    /\ path \in {"none", "live", "stale"}
    /\ backlog \in Seq(Peers)
    /\ acc \in [pc : {"none", "check", "poll", "polling", "lost", "accept", "insert", "read",
                      "handle", "answer", "refuse", "erase", "close", "exited"},
                fd : Fds \cup {0}, peer : Peers \cup {None}]
    /\ main \in {"down", "up", "closing", "shutting", "joining", "clearing"}
    /\ peer \in [Peers -> [state : {"new", "open", "gone"}, sent : {"nothing", "blank"} \cup Requests,
                           got : {"nothing", "answer", "refusal", "hangup"}]]
    /\ shut \subseteq Peers
    /\ events \in Nat
    /\ stops \in Nat

\* The kernel gives out the lowest number that is free.
Free == {fd \in Fds : files[fd] = "free"}
Lowest == CHOOSE fd \in Free : \A other \in Free : fd <= other

Init ==
    /\ files = [fd \in Fds |-> "free"]
    /\ running = FALSE /\ listenFd = 0 /\ clients = {}
    /\ path = "none" /\ backlog = <<>>
    /\ acc = Idle /\ main = "down"
    /\ peer = [c \in Peers |-> [state |-> "new", sent |-> "nothing", got |-> "nothing"]]
    /\ shut = {} /\ events = 0 /\ stops = 0

\* The server's end of connections goes away; whoever has no answer sees that.
HungUp(cs) ==
    [c \in Peers |-> IF c \in cs /\ peer[c].got = "nothing" THEN [peer[c] EXCEPT !.got = "hangup"]
                     ELSE peer[c]]

-----------------------------------------------------------------------------
(***************************************************************************)
(* The clients, and the other threads of the daemon.                       *)
(***************************************************************************)

\* connect() on the socket file; a line may be on its way at once.
Connect(c) ==
    /\ peer[c].state = "new" /\ path = "live"
    /\ \E fd \in Fds : files[fd] = "listener"
    /\ backlog' = Append(backlog, c)
    /\ peer' = [peer EXCEPT ![c].state = "open"]
    /\ UNCHANGED <<files, running, listenFd, clients, path, acc, main, shut, events, stops>>

\* A request, or what is none: an empty line or one beyond the limit.
Write(c) ==
    /\ peer[c].state = "open" /\ peer[c].sent = "nothing"
    /\ \E what \in {"blank"} \cup Requests : peer' = [peer EXCEPT ![c].sent = what]
    /\ UNCHANGED <<files, running, listenFd, clients, path, backlog, acc, main, shut, events, stops>>

GiveUp(c) ==
    /\ peer[c].state = "open"
    /\ peer' = [peer EXCEPT ![c].state = "gone"]
    /\ UNCHANGED <<files, running, listenFd, clients, path, backlog, acc, main, shut, events, stops>>

\* A subscription or a database connection opens and closes a file.
OtherOpens ==
    /\ main # "down" /\ Cardinality({fd \in Fds : files[fd] = "other"}) < MaxOther
    /\ Free # {} /\ files' = [files EXCEPT ![Lowest] = "other"]
    /\ UNCHANGED <<running, listenFd, clients, path, backlog, acc, main, peer, shut, events, stops>>

OtherCloses ==
    /\ \E fd \in Fds : files[fd] = "other" /\ files' = [files EXCEPT ![fd] = "free"]
    /\ UNCHANGED <<running, listenFd, clients, path, backlog, acc, main, peer, shut, events, stops>>

\* A task of this daemon changes its state: emitStateChanged calls the sink of
\* main(), and that writes to the control plane's table.
StateChanged ==
    /\ main # "down" /\ events < MaxEvents
    /\ events' = events + 1
    /\ UNCHANGED <<files, running, listenFd, clients, path, backlog, acc, main, peer, shut, stops>>

-----------------------------------------------------------------------------
(***************************************************************************)
(* start() and stop().                                                     *)
(***************************************************************************)

\* A socket file nobody listens on is replaced; a live one is another daemon's.
Start ==
    /\ main = "down" /\ path # "live"
    /\ files' = [files EXCEPT ![Lowest] = "listener"] /\ listenFd' = Lowest
    /\ running' = TRUE /\ path' = "live" /\ main' = "up"
    /\ acc' = [Idle EXCEPT !.pc = "check"]
    /\ UNCHANGED <<clients, backlog, peer, shut, events, stops>>

StopFlag ==
    /\ main = "up" /\ stops < MaxStops
    /\ running' = FALSE /\ main' = "closing" /\ stops' = stops + 1
    /\ UNCHANGED <<files, listenFd, clients, path, backlog, acc, peer, shut, events>>

StopListenerCloseOnly ==
    /\ main = "closing"
    /\ files' = [files EXCEPT ![listenFd] = "free"]
    /\ main' = "shutting"
    /\ UNCHANGED <<running, listenFd, clients, path, backlog, acc, peer, shut, events, stops>>
\* shutdown() and close() of the listener: the kernel drops the backlog and wakes
\* a thread that waits in poll() on it.  The number stays in listen_fd.
StopListener ==
    /\ main = "closing"
    /\ files' = [files EXCEPT ![listenFd] = "free"]
    /\ peer' = HungUp({backlog[k] : k \in DOMAIN backlog})
    /\ backlog' = <<>>
    /\ acc' = [acc EXCEPT !.pc = IF @ = "polling" THEN "exited" ELSE @]
    /\ main' = "shutting"
    /\ UNCHANGED <<running, listenFd, clients, path, shut, events, stops>>

StopClientsClose ==
    /\ main = "shutting"
    /\ files' = [fd \in Fds |-> IF fd \in clients THEN "free" ELSE files[fd]]
    /\ main' = "joining"
    /\ UNCHANGED <<running, listenFd, clients, path, backlog, acc, peer, shut, events, stops>>
\* shutdown() of the connections in the set; their numbers stay taken.
StopClients ==
    /\ main = "shutting"
    /\ shut' = shut \cup {files[fd] : fd \in clients}
    /\ main' = "joining"
    /\ UNCHANGED <<files, running, listenFd, clients, path, backlog, acc, peer, events, stops>>

Join ==
    /\ main = "joining" /\ acc.pc = "exited"
    /\ acc' = Idle /\ listenFd' = 0 /\ main' = "clearing"
    /\ UNCHANGED <<files, running, clients, path, backlog, peer, shut, events, stops>>

\* What is left in the set is closed and the socket file removed; the process ends.
Clear ==
    /\ main = "clearing"
    /\ files' = [fd \in Fds |-> "free"]
    /\ clients' = {} /\ path' = "none" /\ main' = "down"
    /\ UNCHANGED <<running, listenFd, backlog, acc, peer, shut, events, stops>>

\* The daemon is killed: the kernel closes everything, the socket file stays.
Die ==
    /\ main # "down" /\ stops < MaxStops
    /\ files' = [fd \in Fds |-> "free"]
    /\ running' = FALSE /\ listenFd' = 0 /\ clients' = {} /\ backlog' = <<>>
    /\ path' = IF path = "live" THEN "stale" ELSE path
    /\ acc' = Idle /\ main' = "down" /\ stops' = stops + 1
    /\ peer' = HungUp({c \in Peers : peer[c].state # "new"})
    /\ UNCHANGED <<shut, events>>

-----------------------------------------------------------------------------
(***************************************************************************)
(* acceptLoop().                                                           *)
(***************************************************************************)

AccTo(pc) == acc' = [acc EXCEPT !.pc = pc]

Check ==
    /\ acc.pc = "check"
    /\ AccTo(IF running THEN "poll" ELSE "exited")
    /\ UNCHANGED <<files, running, listenFd, clients, path, backlog, main, peer, shut, events, stops>>

\* poll() without a timeout, on whatever the number stands for by now: the
\* listener, nothing (POLLNVAL), or a file of another thread.
Poll ==
    /\ acc.pc = "poll"
    /\ AccTo(CASE files[listenFd] = "listener" -> "polling"
               [] files[listenFd] = "free" -> "exited"
               [] OTHER -> "lost")
    /\ UNCHANGED <<files, running, listenFd, clients, path, backlog, main, peer, shut, events, stops>>

PollReady ==
    /\ acc.pc = "polling" /\ backlog # <<>>
    /\ AccTo(IF running THEN "accept" ELSE "exited")
    /\ UNCHANGED <<files, running, listenFd, clients, path, backlog, main, peer, shut, events, stops>>

\* EINTR
PollInterrupted ==
    /\ acc.pc = "polling"
    /\ AccTo("check")
    /\ UNCHANGED <<files, running, listenFd, clients, path, backlog, main, peer, shut, events, stops>>

\* Data of another thread's file wakes the poll; running_ is false by then.
LostReturns ==
    /\ acc.pc = "lost"
    /\ AccTo("exited")
    /\ UNCHANGED <<files, running, listenFd, clients, path, backlog, main, peer, shut, events, stops>>

Accept ==
    /\ acc.pc = "accept" /\ files[listenFd] = "listener" /\ backlog # <<>>
    /\ files' = [files EXCEPT ![Lowest] = Head(backlog)]
    /\ acc' = [pc |-> "insert", fd |-> Lowest, peer |-> Head(backlog)]
    /\ backlog' = Tail(backlog)
    /\ UNCHANGED <<running, listenFd, clients, path, main, peer, shut, events, stops>>

\* The call is interrupted, or the listener has gone: try again while running.
AcceptFails ==
    /\ acc.pc = "accept"
    /\ AccTo(IF running THEN "check" ELSE "exited")
    /\ UNCHANGED <<files, running, listenFd, clients, path, backlog, main, peer, shut, events, stops>>

-----------------------------------------------------------------------------
(***************************************************************************)
(* handleConnection().                                                     *)
(***************************************************************************)

Insert ==
    /\ acc.pc = "insert"
    /\ clients' = clients \cup {acc.fd}
    /\ AccTo("read")
    /\ UNCHANGED <<files, running, listenFd, path, backlog, main, peer, shut, events, stops>>

ReadAnyLine ==
    /\ acc.pc = "read" /\ peer[acc.peer].sent # "nothing"
    /\ AccTo("handle")
    /\ UNCHANGED <<files, running, listenFd, clients, path, backlog, main, peer, shut, events, stops>>
\* A line has come, perhaps just before the server was stopped.  An empty line and
\* one beyond the limit are no request.
Read ==
    /\ acc.pc = "read" /\ peer[acc.peer].sent # "nothing"
    /\ AccTo(IF peer[acc.peer].sent \in Requests THEN "handle" ELSE "refuse")
    /\ UNCHANGED <<files, running, listenFd, clients, path, backlog, main, peer, shut, events, stops>>

ReadPatiently ==
    /\ acc.pc = "read"
    /\ ~running \/ acc.peer \in shut \/ peer[acc.peer].state = "gone"
    /\ AccTo("refuse")
    /\ UNCHANGED <<files, running, listenFd, clients, path, backlog, main, peer, shut, events, stops>>
\* The loop ends without a request: stopped, shut down, left by the peer, or five
\* seconds old.
ReadNothing ==
    /\ acc.pc = "read"
    /\ ~running \/ acc.peer \in shut \/ peer[acc.peer].sent = "nothing"
    /\ AccTo("refuse")
    /\ UNCHANGED <<files, running, listenFd, clients, path, backlog, main, peer, shut, events, stops>>

\* The handler answers, or throws and the exception is the answer.
Handle ==
    /\ acc.pc = "handle" /\ peer[acc.peer].sent # "stream"
    /\ AccTo("answer")
    /\ UNCHANGED <<files, running, listenFd, clients, path, backlog, main, peer, shut, events, stops>>

\* The agent's stream ends, and with it the handler of a request for a stream:
\* dispatch passes it no stop token, and the transfer has no time limit.
StreamEnds ==
    /\ acc.pc = "handle" /\ peer[acc.peer].sent = "stream"
    /\ AccTo("answer")
    /\ UNCHANGED <<files, running, listenFd, clients, path, backlog, main, peer, shut, events, stops>>

\* send_all(): to what the number stands for; nobody reads it if the peer has left
\* or the connection is shut down.
Send ==
    /\ acc.pc \in {"answer", "refuse"}
    /\ LET to == files[acc.fd]
           line == IF acc.pc = "answer" THEN "answer" ELSE "refusal"
       IN peer' = IF to \in Peers /\ to \notin shut /\ peer[to].state = "open"
                  THEN [peer EXCEPT ![to].got = line] ELSE peer
    /\ AccTo("erase")
    /\ UNCHANGED <<files, running, listenFd, clients, path, backlog, main, shut, events, stops>>

EraseNothing ==
    /\ acc.pc = "erase"
    /\ AccTo("close")
    /\ UNCHANGED <<files, running, listenFd, clients, path, backlog, main, peer, shut, events, stops>>
Erase ==
    /\ acc.pc = "erase"
    /\ clients' = clients \ {acc.fd}
    /\ AccTo("close")
    /\ UNCHANGED <<files, running, listenFd, path, backlog, main, peer, shut, events, stops>>

Close ==
    /\ acc.pc = "close"
    /\ files' = [files EXCEPT ![acc.fd] = "free"]
    /\ peer' = HungUp({acc.peer})
    /\ acc' = [Idle EXCEPT !.pc = "check"]
    /\ UNCHANGED <<running, listenFd, clients, path, backlog, main, shut, events, stops>>

-----------------------------------------------------------------------------

Serving == Check \/ Poll \/ Insert \/ Read \/ ReadNothing \/ Handle \/ Send \/ Erase \/ Close
Stopping == StopListener \/ StopClients \/ Join \/ Clear

Next ==
    \/ \E c \in Peers : Connect(c) \/ Write(c) \/ GiveUp(c)
    \/ OtherOpens \/ OtherCloses \/ StateChanged
    \/ Start \/ StopFlag \/ Stopping \/ Die
    \/ Serving \/ StreamEnds \/ PollReady \/ PollInterrupted \/ LostReturns \/ Accept \/ AcceptFails

Spec == Init /\ [][Next]_vars

\* The threads run, handlers return unless they read a stream, and signals do not
\* interrupt every call.  Nobody has to connect, write, stop or start, and no
\* agent has to end a stream.
Fairness ==
    /\ WF_vars(Serving) /\ WF_vars(Stopping) /\ WF_vars(AcceptFails)
    /\ SF_vars(PollReady) /\ SF_vars(Accept)
FairSpec == Spec /\ Fairness

-----------------------------------------------------------------------------

\* The accept thread and stop() use the number of a connection only while it
\* stands for that connection: no answer is written to, and no shutdown() or
\* close() hits, a file of another thread that was given the same number.
NumbersAreOwned ==
    /\ acc.fd # 0 => files[acc.fd] = acc.peer
    /\ \A fd \in clients : files[fd] \in Peers

\* Each connection gets one line, and an answer only for a request that was made
\* on it.  (A client that read events as well would get more: none is sent.)
OneLinePerConnection ==
    [][\A c \in Peers : peer'[c].got # peer[c].got =>
          /\ peer[c].got = "nothing"
          /\ peer'[c].got = "answer" => peer[c].sent \in Requests]_vars

\* What the documents say of events: one is sent to every open connection, as a
\* line of its own, except while a request of that connection is served.
EventsReachConnections ==
    [][events' # events =>
          \A fd \in clients \ (IF acc.pc = "handle" THEN {acc.fd} ELSE {}) :
              peer[files[fd]].state = "open" => peer'[files[fd]] # peer[files[fd]]]_vars

\* A request for a stream occupies the only accept thread.
Streaming == acc.pc = "handle" /\ peer[acc.peer].sent = "stream"

\* Whoever connects learns something in the end, an answer, a refusal or that the
\* daemon has gone, unless it goes itself: a connection that says nothing, one whose
\* peer has left, and a stop hold up the others only for a while.  Only a stream
\* that its agent never ends may hold them up for ever.
NobodyWaitsForever ==
    <>[]Streaming \/
    \A c \in Peers :
        peer[c].state = "open" ~> (peer[c].got # "nothing" \/ peer[c].state = "gone")

\* stop() ends, except when the closed listener's number went to another file
\* before the accept thread polled it, and when a stream never ends.
StopEnds ==
    <>[]Streaming \/
    (main = "closing" ~> (main = "down" \/ acc.pc = "lost"))
=============================================================================
