-------------------------- MODULE IpcServerProofs --------------------------
(***************************************************************************)
(* Theorems about IpcServer: for any number of connections and descriptor  *)
(* numbers, the server touches only numbers that are its own, and every    *)
(* connection gets at most one line.                                       *)
(***************************************************************************)
EXTENDS IpcServer, NumberLemmas, FiniteSetTheorems, SequenceTheorems, TLAPS

-----------------------------------------------------------------------------
(***************************************************************************)
(* The invariant.  The accept thread has the only connection, the listener *)
(* number is the one stop() knows, and the peers in the backlog are other  *)
(* ones, without an answer yet.                                            *)
(***************************************************************************)

Connected == {"insert", "read", "handle", "answer", "refuse", "erase", "close"}

Others == {fd \in Fds : files[fd] = "other"}

FilesInv ==
    /\ main = "down" => files = [fd \in Fds |-> "free"]
    /\ \A fd \in Fds : files[fd] = "listener" => fd = listenFd
    /\ \A fd \in Fds : files[fd] \in Peers => fd = acc.fd
    /\ Cardinality(Others) <= MaxOther
    /\ main \in {"up", "closing"} => listenFd \in Fds /\ files[listenFd] = "listener"
    /\ main \in {"shutting", "joining"} => listenFd \in Fds
    /\ main \notin {"up", "closing"} => \A fd \in Fds : files[fd] # "listener"

AcceptInv ==
    /\ acc.pc = "none" <=> main \in {"down", "clearing"}
    /\ acc.pc \in Connected => acc.fd \in Fds /\ acc.peer \in Peers /\ files[acc.fd] = acc.peer
    /\ acc.pc \notin Connected => acc.fd = 0
    /\ clients \subseteq {acc.fd} \ {0}
    /\ acc.pc \in {"insert", "close"} => clients = {}

LinesInv ==
    /\ \A j, k \in DOMAIN backlog : backlog[j] = backlog[k] => j = k
    /\ \A k \in DOMAIN backlog : /\ peer[backlog[k]].state # "new" /\ peer[backlog[k]].got = "nothing"
                                 /\ acc.pc \in Connected => backlog[k] # acc.peer
    /\ \A c \in Peers : peer[c].state = "new" => peer[c].sent = "nothing" /\ peer[c].got = "nothing"
    /\ acc.pc \in Connected => peer[acc.peer].state # "new"
    /\ acc.pc \in Connected \ {"erase", "close"} => peer[acc.peer].got = "nothing"
    /\ acc.pc \in {"handle", "answer"} => peer[acc.peer].sent \in Requests

ServerInv == TypeOK /\ FilesInv /\ AcceptInv

-----------------------------------------------------------------------------
(***************************************************************************)
(* Numbers.                                                                *)
(***************************************************************************)

\* The number the kernel gives out is a free one.
LEMMA LowestIsFree ==
  ASSUME Free # {}
  PROVE  Lowest \in Fds /\ files[Lowest] = "free"
<1>1. Free \in SUBSET Nat
  BY FdsAssumption DEF Free
<1>2. \E fd \in Free : \A other \in Free : fd <= other
  BY <1>1, LeastNatural, Zenon
<1>3. Lowest \in Free
  BY <1>2, Zenon DEF Lowest
<1>4. QED
  BY <1>3 DEF Free

\* While the accept thread has no connection, one number is free.
LEMMA OneIsFree ==
  ASSUME ServerInv, acc.pc \notin Connected
  PROVE  Free # {}
<1> SUFFICES ASSUME Free = {}
             PROVE  FALSE
  OBVIOUS
<1>1. IsFiniteSet(Fds) /\ MaxOther \in Nat /\ MaxOther + 2 <= Cardinality(Fds)
  BY FdsAssumption
<1>2. IsFiniteSet(Others) /\ Cardinality(Others) \in Nat /\ Cardinality(Others) <= MaxOther
  BY <1>1, FS_Subset, FS_CardinalityType DEF ServerInv, FilesInv, Others
<1>3. Fds \subseteq Others \cup {listenFd}
  <2>1. \A fd \in Fds : files[fd] \notin Peers
    BY FdsAssumption DEF ServerInv, FilesInv, AcceptInv
  <2>2. QED
    BY <2>1 DEF ServerInv, TypeOK, FilesInv, Free, Others
<1>4. /\ IsFiniteSet(Others \cup {listenFd})
      /\ Cardinality(Others \cup {listenFd}) \in Nat
      /\ Cardinality(Others \cup {listenFd}) <= Cardinality(Others) + 1
  <2>1. /\ IsFiniteSet(Others \cup {listenFd})
        /\ \/ Cardinality(Others \cup {listenFd}) = Cardinality(Others)
           \/ Cardinality(Others \cup {listenFd}) = Cardinality(Others) + 1
    BY <1>2, FS_AddElement
  <2>2. QED
    BY <1>2, <2>1
<1>5. Cardinality(Fds) <= Cardinality(Others \cup {listenFd}) /\ Cardinality(Fds) \in Nat
  BY <1>1, <1>3, <1>4, FS_Subset, FS_CardinalityType
<1>6. QED
  BY <1>1, <1>2, <1>4, <1>5

\* A step that gives no number to another thread leaves the others within their bound.
LEMMA NoMoreOthers ==
  ASSUME ServerInv, Others' \subseteq Others
  PROVE  Cardinality(Others') <= MaxOther
<1>1. IsFiniteSet(Others) /\ Cardinality(Others) \in Nat /\ Cardinality(Others) <= MaxOther
  BY FdsAssumption, FS_Subset, FS_CardinalityType DEF ServerInv, FilesInv, Others
<1>2. IsFiniteSet(Others') /\ Cardinality(Others') <= Cardinality(Others)
  BY <1>1, FS_Subset
<1>3. Cardinality(Others') \in Nat
  BY <1>2, FS_CardinalityType
<1>4. QED
  BY <1>1, <1>2, <1>3, FdsAssumption

-----------------------------------------------------------------------------
(***************************************************************************)
(* The steps.                                                              *)
(***************************************************************************)

Ends == [Peers -> [state : {"new", "open", "gone"}, sent : {"nothing", "blank"} \cup Requests,
                   got : {"nothing", "answer", "refusal", "hangup"}]]

LEMMA HungUpIsTyped ==
  ASSUME TypeOK, NEW cs
  PROVE  HungUp(cs) \in Ends
  BY DEF TypeOK, HungUp, Ends

\* The clients and the other threads.
LEMMA WorldStep ==
  ASSUME ServerInv,
         (\E c \in Peers : Connect(c) \/ Write(c) \/ GiveUp(c)) \/ OtherOpens \/ OtherCloses \/ StateChanged
  PROVE  ServerInv'
<1>1. CASE \E c \in Peers : Connect(c) \/ Write(c) \/ GiveUp(c)
  <2>1. TypeOK'
    <3>1. backlog' = backlog \/ \E c \in Peers : backlog' = Append(backlog, c)
      BY <1>1 DEF Connect, Write, GiveUp
    <3>2. backlog' \in Seq(Peers)
      BY <3>1 DEF ServerInv, TypeOK
    <3>3. PICK c \in Peers : \/ \E what \in {"blank"} \cup Requests : peer' = [peer EXCEPT ![c].sent = what]
                             \/ peer' = [peer EXCEPT ![c].state = "open"]
                             \/ peer' = [peer EXCEPT ![c].state = "gone"]
      BY <1>1, Zenon DEF Connect, Write, GiveUp
    <3>4. peer \in Ends
      BY DEF ServerInv, TypeOK, Ends
    <3>5. peer' \in Ends
      BY <3>3, <3>4 DEF Ends
    <3>6. UNCHANGED <<files, running, listenFd, clients, path, acc, main, shut, events, stops>>
      BY <1>1 DEF Connect, Write, GiveUp
    <3>7. QED
      BY <3>2, <3>5, <3>6 DEF ServerInv, TypeOK, Ends
  <2>2. UNCHANGED <<files, running, listenFd, clients, acc, main>>
    BY <1>1 DEF Connect, Write, GiveUp
  <2>3. FilesInv' /\ AcceptInv'
    BY <2>2 DEF ServerInv, FilesInv, AcceptInv, Others
  <2>4. QED
    BY <2>1, <2>3 DEF ServerInv
<1>2. CASE OtherOpens
  <2>1. Lowest \in Fds /\ files[Lowest] = "free" /\ files' = [files EXCEPT ![Lowest] = "other"]
    BY <1>2, LowestIsFree DEF OtherOpens
  <2>2. TypeOK'
    BY <1>2, <2>1 DEF OtherOpens, ServerInv, TypeOK
  <2>3. Cardinality(Others') <= MaxOther
    <3>1. IsFiniteSet(Others) /\ Cardinality(Others) \in Nat /\ Cardinality(Others) < MaxOther
      BY <1>2, FdsAssumption, FS_Subset, FS_CardinalityType DEF Others, OtherOpens
    <3>2. Others' = Others \cup {Lowest} /\ Lowest \notin Others
      BY <2>1 DEF Others, ServerInv, TypeOK
    <3>3. Cardinality(Others') = Cardinality(Others) + 1
      BY <3>1, <3>2, FS_AddElement
    <3>4. QED
      BY <3>1, <3>3, FdsAssumption
  <2>4. FilesInv'
    BY <1>2, <2>1, <2>3, PeersAssumption DEF OtherOpens, ServerInv, TypeOK, FilesInv
  <2>5. AcceptInv'
    BY <1>2, <2>1, PeersAssumption DEF OtherOpens, ServerInv, TypeOK, AcceptInv
  <2>6. QED
    BY <2>2, <2>4, <2>5 DEF ServerInv
<1>3. CASE OtherCloses
  <2>1. PICK fd \in Fds : files[fd] = "other" /\ files' = [files EXCEPT ![fd] = "free"]
    BY <1>3 DEF OtherCloses
  <2>2. TypeOK'
    BY <1>3, <2>1 DEF OtherCloses, ServerInv, TypeOK
  <2>3. Cardinality(Others') <= MaxOther
    BY <2>1, NoMoreOthers DEF Others, ServerInv, TypeOK
  <2>4. FilesInv'
    BY <1>3, <2>1, <2>3, PeersAssumption DEF OtherCloses, ServerInv, TypeOK, FilesInv
  <2>5. AcceptInv'
    BY <1>3, <2>1, PeersAssumption DEF OtherCloses, ServerInv, TypeOK, AcceptInv
  <2>6. QED
    BY <2>2, <2>4, <2>5 DEF ServerInv
<1>4. CASE StateChanged
  <2>1. events' \in Nat /\ UNCHANGED <<files, running, listenFd, clients, path, backlog, acc, main, peer, shut, stops>>
    BY <1>4 DEF StateChanged, ServerInv, TypeOK
  <2>2. QED
    BY <2>1 DEF ServerInv, TypeOK, FilesInv, AcceptInv, Others
<1>5. QED
  BY <1>1, <1>2, <1>3, <1>4

\* start(), stop() and deaths.
LEMMA StartStep ==
  ASSUME ServerInv, Start
  PROVE  ServerInv'
<1>1. Free # {}
  BY OneIsFree DEF Start, ServerInv, AcceptInv, Connected
<1>2. Lowest \in Fds /\ files[Lowest] = "free"
  BY <1>1, LowestIsFree
<1>3. TypeOK'
  BY <1>2, FdsAssumption DEF Start, ServerInv, TypeOK, Idle
<1>4. Cardinality(Others') <= MaxOther
  BY NoMoreOthers, <1>2 DEF Start, Others, ServerInv, TypeOK
<1>5. FilesInv'
  BY <1>2, <1>4, PeersAssumption DEF Start, ServerInv, TypeOK, FilesInv, Idle
<1>6. AcceptInv'
  BY <1>2 DEF Start, ServerInv, TypeOK, AcceptInv, Idle, Connected
<1>7. QED
  BY <1>3, <1>5, <1>6 DEF ServerInv

LEMMA StopStep ==
  ASSUME ServerInv, StopFlag \/ Stopping \/ Die
  PROVE  ServerInv'
<1>1. CASE StopFlag
  <2>1. TypeOK'
    <3>1. stops' \in Nat
      BY <1>1 DEF StopFlag, ServerInv, TypeOK
    <3>2. running' = FALSE /\ main' = "closing"
          /\ UNCHANGED <<files, listenFd, clients, path, backlog, acc, peer, shut, events>>
      BY <1>1 DEF StopFlag
    <3>3. QED
      BY <3>1, <3>2 DEF ServerInv, TypeOK
  <2>2. FilesInv' /\ AcceptInv'
    BY <1>1 DEF StopFlag, ServerInv, FilesInv, AcceptInv, Others
  <2>3. QED
    BY <2>1, <2>2 DEF ServerInv
<1>2. CASE StopListener
  <2>0. peer' \in Ends
    BY <1>2, HungUpIsTyped DEF StopListener, ServerInv
  <2>1. TypeOK'
    <3>1. files' \in [Fds -> Peers \cup {"listener", "other", "free"}]
      BY <1>2 DEF StopListener, ServerInv, TypeOK
    <3>0. backlog' \in Seq(Peers)
      <4>1. backlog' = <<>>
        BY <1>2 DEF StopListener
      <4>2. QED
        BY <4>1
    <3>2. acc' = acc \/ acc' = [acc EXCEPT !.pc = "exited"]
      BY <1>2 DEF StopListener, ServerInv, TypeOK
    <3>3. main' = "shutting" /\ UNCHANGED <<running, listenFd, clients, path, shut, events, stops>>
      BY <1>2 DEF StopListener
    <3>4. QED
      BY <2>0, <3>0, <3>1, <3>2, <3>3 DEF ServerInv, TypeOK, Ends
  <2>2. Cardinality(Others') <= MaxOther
    BY <1>2, NoMoreOthers DEF StopListener, Others, ServerInv, TypeOK
  <2>3. FilesInv'
    BY <1>2, <2>2, PeersAssumption DEF StopListener, ServerInv, TypeOK, FilesInv
  <2>4. AcceptInv'
    <3>1. listenFd # acc.fd \/ acc.pc \notin Connected
      BY <1>2, PeersAssumption DEF StopListener, ServerInv, FilesInv, AcceptInv
    <3>2. QED
      BY <1>2, <3>1, PeersAssumption DEF StopListener, ServerInv, TypeOK, FilesInv, AcceptInv, Connected
  <2>5. QED
    BY <2>1, <2>3, <2>4 DEF ServerInv
<1>3. CASE StopClients
  <2>1. {files[fd] : fd \in clients} \subseteq Peers
    BY FdsAssumption DEF ServerInv, AcceptInv
  <2>2. TypeOK'
    BY <1>3, <2>1 DEF StopClients, ServerInv, TypeOK
  <2>3. FilesInv' /\ AcceptInv'
    BY <1>3 DEF StopClients, ServerInv, FilesInv, AcceptInv, Others
  <2>4. QED
    BY <2>2, <2>3 DEF ServerInv
<1>4. CASE Join
  <2>1. TypeOK'
    BY <1>4 DEF Join, ServerInv, TypeOK, Idle
  <2>2. FilesInv'
    BY <1>4 DEF Join, ServerInv, TypeOK, FilesInv, AcceptInv, Others, Idle, Connected
  <2>3. AcceptInv'
    BY <1>4 DEF Join, ServerInv, TypeOK, AcceptInv, Idle, Connected
  <2>4. QED
    BY <2>1, <2>2, <2>3 DEF ServerInv
<1>5. CASE Clear
  <2>1. TypeOK'
    BY <1>5 DEF Clear, ServerInv, TypeOK
  <2>2. Cardinality(Others') <= MaxOther
    BY <1>5, NoMoreOthers DEF Clear, Others, ServerInv, TypeOK
  <2>3. FilesInv'
    BY <1>5, <2>2, PeersAssumption DEF Clear, ServerInv, TypeOK, FilesInv
  <2>4. AcceptInv'
    BY <1>5 DEF Clear, ServerInv, TypeOK, AcceptInv, Connected
  <2>5. QED
    BY <2>1, <2>3, <2>4 DEF ServerInv
<1>6. CASE Die
  <2>0. peer' \in Ends
    BY <1>6, HungUpIsTyped DEF Die, ServerInv
  <2>1. TypeOK'
    <3>1. stops' \in Nat
      BY <1>6 DEF Die, ServerInv, TypeOK
    <3>2. path' \in {"none", "live", "stale"} /\ backlog' = <<>> /\ shut' = shut /\ events' = events /\ acc' = Idle
      BY <1>6 DEF Die, ServerInv, TypeOK
    <3>3. <<>> \in Seq(Peers)
      OBVIOUS
    <3>4. files' = [fd \in Fds |-> "free"] /\ running' = FALSE /\ listenFd' = 0 /\ clients' = {} /\ main' = "down"
      BY <1>6 DEF Die
    <3>5. QED
      BY <2>0, <3>1, <3>2, <3>3, <3>4 DEF ServerInv, TypeOK, Idle, Ends
  <2>2. Cardinality(Others') <= MaxOther
    BY <1>6, NoMoreOthers DEF Die, Others, ServerInv, TypeOK
  <2>3. FilesInv'
    BY <1>6, <2>2, PeersAssumption DEF Die, ServerInv, TypeOK, FilesInv, Idle
  <2>4. AcceptInv'
    BY <1>6 DEF Die, ServerInv, TypeOK, AcceptInv, Idle, Connected
  <2>5. QED
    BY <2>1, <2>3, <2>4 DEF ServerInv
<1>7. QED
  BY <1>1, <1>2, <1>3, <1>4, <1>5, <1>6 DEF Stopping

\* acceptLoop() between two connections.
LEMMA AcceptStep ==
  ASSUME ServerInv,
         Check \/ Poll \/ PollReady \/ PollInterrupted \/ LostReturns \/ Accept \/ AcceptFails
  PROVE  ServerInv'
<1>1. CASE Check \/ Poll \/ PollReady \/ PollInterrupted \/ LostReturns \/ AcceptFails
  <2>1. PICK pc \in {"check", "poll", "polling", "lost", "accept", "exited"} : AccTo(pc)
    BY <1>1 DEF Check, Poll, PollReady, PollInterrupted, LostReturns, AcceptFails
  <2>2. acc.pc \in {"check", "poll", "polling", "lost", "accept"}
    BY <1>1 DEF Check, Poll, PollReady, PollInterrupted, LostReturns, AcceptFails
  <2>3. UNCHANGED <<files, running, listenFd, clients, path, backlog, main, peer, shut, events, stops>>
    BY <1>1 DEF Check, Poll, PollReady, PollInterrupted, LostReturns, AcceptFails
  <2>4. TypeOK'
    BY <2>1, <2>3 DEF AccTo, ServerInv, TypeOK
  <2>5. FilesInv'
    BY <2>1, <2>3 DEF AccTo, ServerInv, TypeOK, FilesInv, Others
  <2>6. AcceptInv'
    BY <2>1, <2>2, <2>3 DEF AccTo, ServerInv, TypeOK, AcceptInv, Connected
  <2>7. QED
    BY <2>4, <2>5, <2>6 DEF ServerInv
<1>2. CASE Accept
  <2> DEFINE c == Head(backlog)
  <2>1. c \in Peers /\ Tail(backlog) \in Seq(Peers)
    BY <1>2 DEF Accept, ServerInv, TypeOK
  <2>2. Free # {}
    BY <1>2, OneIsFree DEF Accept, Connected
  <2>3. Lowest \in Fds /\ files[Lowest] = "free"
    BY <2>2, LowestIsFree
  <2>4. /\ files' = [files EXCEPT ![Lowest] = c]
        /\ acc' = [pc |-> "insert", fd |-> Lowest, peer |-> c]
        /\ backlog' = Tail(backlog) /\ acc.pc = "accept"
        /\ UNCHANGED <<running, listenFd, clients, path, main, peer, shut, events, stops>>
    BY <1>2 DEF Accept
  <2> HIDE DEF c
  <2>5. TypeOK'
    BY <2>1, <2>3, <2>4 DEF ServerInv, TypeOK
  <2>6. Cardinality(Others') <= MaxOther
    BY <2>1, <2>3, <2>4, NoMoreOthers, PeersAssumption DEF Others, ServerInv, TypeOK
  <2>7. main \notin {"down", "clearing"} /\ acc.fd = 0 /\ clients = {}
    BY <2>4 DEF ServerInv, AcceptInv, Connected
  <2>8. FilesInv'
    BY <2>1, <2>3, <2>4, <2>6, <2>7, PeersAssumption, FdsAssumption DEF ServerInv, TypeOK, FilesInv
  <2>9. AcceptInv'
    BY <2>1, <2>3, <2>4, <2>7 DEF ServerInv, TypeOK, AcceptInv, Connected
  <2>10. QED
    BY <2>5, <2>8, <2>9 DEF ServerInv
<1>3. QED
  BY <1>1, <1>2

\* handleConnection().
LEMMA ConnectionStep ==
  ASSUME ServerInv, Insert \/ Read \/ ReadNothing \/ Handle \/ StreamEnds \/ Send \/ Erase \/ Close
  PROVE  ServerInv'
<1>1. CASE Insert
  <2>1. /\ acc.pc = "insert" /\ acc' = [acc EXCEPT !.pc = "read"] /\ clients' = clients \cup {acc.fd}
        /\ UNCHANGED <<files, running, listenFd, path, backlog, main, peer, shut, events, stops>>
    BY <1>1 DEF Insert, AccTo
  <2>2. TypeOK'
    BY <2>1 DEF ServerInv, TypeOK, AcceptInv, Connected
  <2>3. FilesInv'
    BY <2>1 DEF ServerInv, TypeOK, FilesInv, Others
  <2>4. AcceptInv'
    BY <2>1, FdsAssumption DEF ServerInv, TypeOK, AcceptInv, Connected
  <2>5. QED
    BY <2>2, <2>3, <2>4 DEF ServerInv
<1>2. CASE Read \/ ReadNothing \/ Handle \/ StreamEnds \/ Send
  <2>1. PICK pc \in {"handle", "answer", "refuse", "erase"} : acc' = [acc EXCEPT !.pc = pc]
    BY <1>2 DEF Read, ReadNothing, Handle, StreamEnds, Send, AccTo
  <2>2. /\ acc.pc \in {"read", "handle", "answer", "refuse"}
        /\ UNCHANGED <<files, running, listenFd, clients, path, backlog, main, shut, events, stops>>
    BY <1>2 DEF Read, ReadNothing, Handle, StreamEnds, Send
  <2>3. peer' \in [Peers -> [state : {"new", "open", "gone"}, sent : {"nothing", "blank"} \cup Requests,
                             got : {"nothing", "answer", "refusal", "hangup"}]]
    <3>1. CASE Send
      <4>1. peer \in Ends
        BY DEF ServerInv, TypeOK, Ends
      <4> DEFINE to == files[acc.fd]
                 line == IF acc.pc = "answer" THEN "answer" ELSE "refusal"
      <4>2. peer' = peer \/ peer' = [peer EXCEPT ![to].got = line]
        BY <3>1, Zenon DEF Send
      <4>3. line \in {"answer", "refusal"}
        OBVIOUS
      <4> HIDE DEF to, line
      <4>4. peer' \in Ends
        BY <4>1, <4>2, <4>3 DEF Ends
      <4>5. QED
        BY <4>4 DEF Ends
    <3>2. CASE Read \/ ReadNothing \/ Handle \/ StreamEnds
      <4>1. peer' = peer
        BY <3>2 DEF Read, ReadNothing, Handle, StreamEnds
      <4>2. QED
        BY <4>1 DEF ServerInv, TypeOK
    <3>3. QED
      BY <1>2, <3>1, <3>2
  <2>4. TypeOK'
    BY <2>1, <2>2, <2>3 DEF ServerInv, TypeOK
  <2>5. FilesInv'
    BY <2>1, <2>2 DEF ServerInv, TypeOK, FilesInv, Others
  <2>6. AcceptInv'
    BY <2>1, <2>2 DEF ServerInv, TypeOK, AcceptInv, Connected
  <2>7. QED
    BY <2>4, <2>5, <2>6 DEF ServerInv
<1>3. CASE Erase
  <2>1. /\ acc.pc = "erase" /\ acc' = [acc EXCEPT !.pc = "close"] /\ clients' = clients \ {acc.fd}
        /\ UNCHANGED <<files, running, listenFd, path, backlog, main, peer, shut, events, stops>>
    BY <1>3 DEF Erase, AccTo
  <2>2. TypeOK'
    BY <2>1 DEF ServerInv, TypeOK
  <2>3. FilesInv'
    BY <2>1 DEF ServerInv, TypeOK, FilesInv, Others
  <2>4. AcceptInv'
    BY <2>1 DEF ServerInv, TypeOK, AcceptInv, Connected
  <2>5. QED
    BY <2>2, <2>3, <2>4 DEF ServerInv
<1>4. CASE Close
  <2>1. /\ acc.pc = "close" /\ acc.fd \in Fds /\ acc.peer \in Peers /\ files[acc.fd] = acc.peer
        /\ acc' = [pc |-> "check", fd |-> 0, peer |-> None] /\ clients = {}
        /\ files' = [files EXCEPT ![acc.fd] = "free"]
        /\ peer' = HungUp({acc.peer})
        /\ UNCHANGED <<running, listenFd, clients, path, backlog, main, shut, events, stops>>
    BY <1>4 DEF Close, Idle, ServerInv, AcceptInv, Connected
  <2>2. TypeOK'
    <3>1. peer' \in Ends
      BY <2>1, HungUpIsTyped DEF ServerInv
    <3>2. QED
      BY <2>1, <3>1 DEF ServerInv, TypeOK, Ends
  <2>3. Cardinality(Others') <= MaxOther
    BY <2>1, NoMoreOthers DEF Others, ServerInv, TypeOK
  <2>4. FilesInv'
    BY <2>1, <2>3, PeersAssumption DEF ServerInv, TypeOK, FilesInv
  <2>5. AcceptInv'
    BY <2>1 DEF ServerInv, TypeOK, AcceptInv, Connected
  <2>6. QED
    BY <2>2, <2>4, <2>5 DEF ServerInv
<1>5. QED
  BY <1>1, <1>2, <1>3, <1>4

-----------------------------------------------------------------------------
(***************************************************************************)
(* The lines.                                                              *)
(***************************************************************************)

LEMMA WorldLines ==
  ASSUME ServerInv, LinesInv, NEW c \in Peers, Connect(c) \/ Write(c) \/ GiveUp(c)
  PROVE  LinesInv'
<1>0. peer \in Ends /\ backlog \in Seq(Peers) /\ acc' = acc
  BY DEF ServerInv, TypeOK, Ends, Connect, Write, GiveUp
<1>1. acc.pc \in Connected => acc.peer \in Peers
  BY DEF ServerInv, AcceptInv
<1>2. CASE Connect(c)
  <2>1. /\ peer[c].state = "new" /\ backlog' = Append(backlog, c)
        /\ peer' = [peer EXCEPT ![c].state = "open"]
    BY <1>2 DEF Connect
  <2>2. /\ Len(backlog') = Len(backlog) + 1 /\ backlog'[Len(backlog) + 1] = c
        /\ \A k \in 1..Len(backlog) : backlog'[k] = backlog[k] /\ backlog[k] \in Peers
    BY <1>0, <2>1
  <2>3. \A k \in 1..Len(backlog) : backlog[k] # c
    BY <1>0, <2>1 DEF LinesInv
  <2>4. \A j, k \in DOMAIN backlog' : backlog'[j] = backlog'[k] => j = k
    BY <1>0, <2>1, <2>2, <2>3 DEF LinesInv
  <2>5. \A k \in DOMAIN backlog' : backlog'[k] = c \/ \E j \in DOMAIN backlog : backlog'[k] = backlog[j]
    BY <1>0, <2>1, <2>2
  <2>6. /\ peer'[c].got = "nothing" /\ peer'[c].state = "open" /\ peer'[c].sent = peer[c].sent
        /\ \A b \in Peers \ {c} : peer'[b] = peer[b]
    BY <1>0, <2>1 DEF LinesInv, Ends
  <2>7. acc.pc \in Connected => acc.peer # c
    BY <2>1 DEF LinesInv
  <2>8. \A j \in DOMAIN backlog : backlog[j] \in Peers \ {c}
    BY <1>0, <2>2, <2>3
  <2>9. \A k \in DOMAIN backlog' : /\ peer'[backlog'[k]].state # "new" /\ peer'[backlog'[k]].got = "nothing"
                                   /\ acc'.pc \in Connected => backlog'[k] # acc'.peer
    BY <1>0, <2>5, <2>6, <2>7, <2>8 DEF LinesInv
  <2>10. \A b \in Peers : peer'[b].state = "new" => peer'[b].sent = "nothing" /\ peer'[b].got = "nothing"
    BY <2>6 DEF LinesInv
  <2>11. acc.pc \in Connected => peer'[acc.peer] = peer[acc.peer]
    BY <1>1, <2>6, <2>7
  <2>12. QED
    BY <1>0, <2>4, <2>9, <2>10, <2>11 DEF LinesInv, Connected
<1>3. CASE Write(c) \/ GiveUp(c)
  <2>1. PICK new \in [state : {"new", "open", "gone"}, sent : {"nothing", "blank"} \cup Requests,
                      got : {"nothing", "answer", "refusal", "hangup"}] :
          /\ peer' = [peer EXCEPT ![c] = new]
          /\ new.state # "new" /\ new.got = peer[c].got
          /\ peer[c].sent = "nothing" \/ new.sent = peer[c].sent
    BY <1>0, <1>3 DEF Write, GiveUp, Ends
  <2>2. backlog' = backlog /\ peer[c].state = "open"
    BY <1>3 DEF Write, GiveUp
  <2>3. \A k \in DOMAIN backlog : backlog[k] \in Peers
    BY <1>0
  <2>4. /\ peer'[c].state # "new" /\ peer'[c].got = peer[c].got
        /\ peer[c].sent = "nothing" \/ peer'[c].sent = peer[c].sent
        /\ \A b \in Peers \ {c} : peer'[b] = peer[b]
    BY <1>0, <2>1 DEF Ends
  <2>5. \A k \in DOMAIN backlog : peer'[backlog[k]].state # "new" /\ peer'[backlog[k]].got = "nothing"
    BY <2>2, <2>3, <2>4 DEF LinesInv
  <2>6. /\ acc.pc \in Connected => peer'[acc.peer].state # "new" /\ peer'[acc.peer].got = peer[acc.peer].got
        /\ acc.pc \in {"handle", "answer"} => peer'[acc.peer].sent \in Requests
    BY <1>1, <2>4 DEF LinesInv, Connected, Requests
  <2>7. \A b \in Peers : peer'[b].state = "new" => peer'[b].sent = "nothing" /\ peer'[b].got = "nothing"
    BY <2>4 DEF LinesInv
  <2>8. QED
    BY <1>0, <2>2, <2>5, <2>6, <2>7 DEF LinesInv, Connected
<1>4. QED
  BY <1>2, <1>3

\* Steps that hand nothing out: the accept thread at most moves on.
LEMMA QuietLines ==
  ASSUME ServerInv, LinesInv, UNCHANGED <<backlog, peer>>,
         \/ acc' = acc \/ acc'.pc \notin Connected
         \/ /\ acc'.pc \in Connected /\ acc.pc \in Connected /\ acc'.peer = acc.peer
            /\ acc'.pc \notin {"erase", "close"} => acc.pc \notin {"erase", "close"}
            /\ acc'.pc \in {"handle", "answer"} => peer[acc.peer].sent \in Requests
  PROVE  LinesInv'
<1>1. CASE acc' = acc
  BY <1>1 DEF LinesInv
<1>2. CASE acc'.pc \notin Connected
  BY <1>2 DEF LinesInv, Connected
<1>3. CASE /\ acc'.pc \in Connected /\ acc.pc \in Connected /\ acc'.peer = acc.peer
           /\ acc'.pc \notin {"erase", "close"} => acc.pc \notin {"erase", "close"}
           /\ acc'.pc \in {"handle", "answer"} => peer[acc.peer].sent \in Requests
  BY <1>3 DEF LinesInv, Connected
<1>4. QED
  BY <1>1, <1>2, <1>3

\* Connections end: those that are not in the backlog any more, nor with the thread.
LEMMA EndingLines ==
  ASSUME ServerInv, LinesInv, NEW cs \in SUBSET Peers, peer' = HungUp(cs),
         \A c \in cs : peer[c].state # "new",
         \/ backlog' = <<>>
         \/ backlog' = backlog /\ \A k \in DOMAIN backlog : backlog[k] \notin cs,
         \/ acc'.pc \notin Connected
         \/ acc' = acc /\ (acc.pc \in Connected => acc.peer \notin cs)
  PROVE  LinesInv'
<1>1. peer \in Ends /\ backlog \in Seq(Peers)
  BY DEF ServerInv, TypeOK, Ends
<1>2. \A c \in Peers : peer'[c].state = peer[c].state /\ peer'[c].sent = peer[c].sent
  BY <1>1 DEF HungUp, Ends
<1>3. \A c \in Peers \ cs : peer'[c] = peer[c]
  BY DEF HungUp
<1>4. \A k \in DOMAIN backlog : backlog[k] \in Peers
  BY <1>1
<1>5. acc.pc \in Connected => acc.peer \in Peers
  BY DEF ServerInv, AcceptInv
<1>6. \A c \in Peers : peer'[c].state = "new" => peer'[c].sent = "nothing" /\ peer'[c].got = "nothing"
  BY <1>2, <1>3 DEF LinesInv
<1>7. /\ acc'.pc \in Connected => peer'[acc'.peer].state # "new"
      /\ acc'.pc \in Connected \ {"erase", "close"} => peer'[acc'.peer].got = "nothing"
      /\ acc'.pc \in {"handle", "answer"} => peer'[acc'.peer].sent \in Requests
  BY <1>3, <1>5 DEF LinesInv, Connected
<1>8. CASE backlog' = <<>>
  BY <1>6, <1>7, <1>8 DEF LinesInv
<1>9. CASE backlog' = backlog /\ \A k \in DOMAIN backlog : backlog[k] \notin cs
  <2>1. \A k \in DOMAIN backlog' : /\ peer'[backlog'[k]].state # "new" /\ peer'[backlog'[k]].got = "nothing"
                                   /\ acc'.pc \in Connected => backlog'[k] # acc'.peer
    BY <1>3, <1>4, <1>9 DEF LinesInv
  <2>2. QED
    BY <1>6, <1>7, <1>9, <2>1 DEF LinesInv
<1>10. QED
  BY <1>8, <1>9

LEMMA AcceptLines ==
  ASSUME ServerInv, LinesInv, Accept
  PROVE  LinesInv'
<1>1. /\ backlog \in Seq(Peers) /\ backlog # <<>> /\ backlog' = Tail(backlog) /\ peer' = peer
      /\ acc'.pc = "insert" /\ acc'.peer = Head(backlog)
  BY DEF Accept, ServerInv, TypeOK
<1>2. /\ Head(backlog) = backlog[1] /\ 1 \in DOMAIN backlog
      /\ \A k \in DOMAIN Tail(backlog) : /\ k \in Nat /\ k + 1 \in DOMAIN backlog
                                         /\ Tail(backlog)[k] = backlog[k + 1]
  BY <1>1
<1>3. \A k \in DOMAIN backlog' : backlog'[k] # acc'.peer
  BY <1>1, <1>2 DEF LinesInv
<1>4. \A j, k \in DOMAIN backlog' : backlog'[j] = backlog'[k] => j = k
  BY <1>1, <1>2 DEF LinesInv
<1>5. \A k \in DOMAIN backlog' : peer'[backlog'[k]].state # "new" /\ peer'[backlog'[k]].got = "nothing"
  BY <1>1, <1>2 DEF LinesInv
<1>6. peer'[acc'.peer].state # "new" /\ peer'[acc'.peer].got = "nothing"
  BY <1>1, <1>2 DEF LinesInv
<1>7. QED
  BY <1>1, <1>3, <1>4, <1>5, <1>6 DEF LinesInv

\* What send_all() reaches is the connection that asked.
LEMMA SendsToItsPeer ==
  ASSUME ServerInv, LinesInv, Send
  PROVE  /\ acc.peer \in Peers /\ peer[acc.peer].got = "nothing"
         /\ acc.pc = "answer" => peer[acc.peer].sent \in Requests
         /\ acc' = [acc EXCEPT !.pc = "erase"] /\ backlog' = backlog
         /\ \/ peer' = peer
            \/ peer' = [peer EXCEPT ![acc.peer].got = IF acc.pc = "answer" THEN "answer" ELSE "refusal"]
<1>1. acc.pc \in {"answer", "refuse"} /\ acc.peer \in Peers /\ files[acc.fd] = acc.peer
  BY DEF Send, ServerInv, AcceptInv, Connected
<1>2. QED
  BY <1>1 DEF Send, AccTo, LinesInv, Connected

LEMMA SendLines ==
  ASSUME ServerInv, LinesInv, Send
  PROVE  LinesInv'
<1>1. /\ peer \in Ends /\ backlog \in Seq(Peers)
      /\ acc.pc \in {"answer", "refuse"} /\ acc'.pc = "erase" /\ acc'.peer = acc.peer
  BY SendsToItsPeer DEF Send, ServerInv, TypeOK, Ends
<1> DEFINE line == IF acc.pc = "answer" THEN "answer" ELSE "refusal"
<1>6. /\ acc.peer \in Peers /\ backlog' = backlog
      /\ peer' = peer \/ peer' = [peer EXCEPT ![acc.peer].got = line]
  BY SendsToItsPeer
<1> HIDE DEF line
<1>2. /\ \A c \in Peers \ {acc.peer} : peer'[c] = peer[c]
      /\ peer'[acc.peer].state = peer[acc.peer].state
      /\ peer'[acc.peer].sent = peer[acc.peer].sent
  BY <1>1, <1>6 DEF Ends
<1>3. \A k \in DOMAIN backlog : backlog[k] \in Peers \ {acc.peer}
  BY <1>1 DEF LinesInv, Connected
<1>4. peer[acc.peer].state # "new"
  BY <1>1 DEF LinesInv, Connected
<1>5. QED
  BY <1>1, <1>2, <1>3, <1>4, <1>6 DEF LinesInv, Connected

LEMMA LinesStep ==
  ASSUME ServerInv, LinesInv, [Next]_vars
  PROVE  LinesInv'
<1>0. acc \in [pc : {"none", "check", "poll", "polling", "lost", "accept", "insert", "read",
                     "handle", "answer", "refuse", "erase", "close", "exited"},
               fd : Fds \cup {0}, peer : Peers \cup {None}]
  BY DEF ServerInv, TypeOK
<1>1. CASE \E c \in Peers : Connect(c) \/ Write(c) \/ GiveUp(c)
  BY <1>1, WorldLines
<1>2. CASE OtherOpens \/ OtherCloses \/ StateChanged \/ StopFlag \/ StopClients \/ Clear \/ UNCHANGED vars
  <2>1. UNCHANGED <<backlog, peer, acc>>
    BY <1>2 DEF OtherOpens, OtherCloses, StateChanged, StopFlag, StopClients, Clear, vars
  <2>2. QED
    BY <2>1, QuietLines
<1>3. CASE Start \/ Join
  <2>1. UNCHANGED <<backlog, peer>> /\ acc'.pc \notin Connected
    BY <1>3 DEF Start, Join, Idle, Connected
  <2>2. QED
    BY <2>1, QuietLines
<1>4. CASE Check \/ Poll \/ PollReady \/ PollInterrupted \/ LostReturns \/ AcceptFails
  <2>1. UNCHANGED <<backlog, peer>> /\ acc'.pc \notin Connected
    BY <1>0, <1>4 DEF Check, Poll, PollReady, PollInterrupted, LostReturns, AcceptFails, AccTo, Connected
  <2>2. QED
    BY <2>1, QuietLines
<1>5. CASE Insert \/ Read \/ ReadNothing \/ Handle \/ StreamEnds \/ Erase
  <2>1. /\ UNCHANGED <<backlog, peer>>
        /\ acc'.pc \in Connected /\ acc.pc \in Connected /\ acc'.peer = acc.peer
        /\ acc'.pc \notin {"erase", "close"} => acc.pc \notin {"erase", "close"}
    BY <1>0, <1>5 DEF Insert, Read, ReadNothing, Handle, StreamEnds, Erase, AccTo, Connected
  <2>2. acc'.pc \in {"handle", "answer"} => peer[acc.peer].sent \in Requests
    BY <1>0, <1>5 DEF Insert, Read, ReadNothing, Handle, StreamEnds, Erase, AccTo, LinesInv
  <2>3. QED
    BY <2>1, <2>2, QuietLines
<1>6. CASE StopListener
  <2> DEFINE cs == {backlog[k] : k \in DOMAIN backlog}
  <2>1. backlog \in Seq(Peers) /\ cs \subseteq Peers
    BY DEF ServerInv, TypeOK
  <2>2. /\ peer' = HungUp(cs) /\ backlog' = <<>>
        /\ acc'.pc \notin Connected \/ acc' = acc
    BY <1>0, <1>6 DEF StopListener, Connected
  <2>3. /\ \A c \in cs : peer[c].state # "new"
        /\ acc.pc \in Connected => acc.peer \notin cs
    BY DEF LinesInv
  <2> HIDE DEF cs
  <2>4. QED
    BY <2>1, <2>2, <2>3, EndingLines
<1>7. CASE Die
  <2> DEFINE cs == {c \in Peers : peer[c].state # "new"}
  <2>1. /\ peer' = HungUp(cs) /\ backlog' = <<>> /\ acc'.pc \notin Connected
        /\ cs \in SUBSET Peers /\ \A c \in cs : peer[c].state # "new"
    BY <1>7 DEF Die, Idle, Connected
  <2> HIDE DEF cs
  <2>2. QED
    BY <2>1, EndingLines
<1>8. CASE Accept
  BY <1>8, AcceptLines
<1>9. CASE Send
  BY <1>9, SendLines
<1>10. CASE Close
  <2>1. /\ acc.pc = "close" /\ acc.peer \in Peers /\ peer' = HungUp({acc.peer}) /\ backlog' = backlog
        /\ acc'.pc \notin Connected /\ {acc.peer} \in SUBSET Peers
    BY <1>10 DEF Close, Idle, ServerInv, AcceptInv, Connected
  <2>2. /\ \A c \in {acc.peer} : peer[c].state # "new"
        /\ \A k \in DOMAIN backlog : backlog[k] \notin {acc.peer}
    BY <2>1 DEF LinesInv, Connected
  <2>3. QED
    BY <2>1, <2>2, EndingLines
<1>11. QED
  BY <1>1, <1>2, <1>3, <1>4, <1>5, <1>6, <1>7, <1>8, <1>9, <1>10 DEF Next, Serving, Stopping

-----------------------------------------------------------------------------
(***************************************************************************)
(* The theorems.                                                           *)
(***************************************************************************)

LEMMA InitServer ==
  ASSUME Init
  PROVE  ServerInv /\ LinesInv
<1>1. Others = {}
  BY DEF Init, Others
<1>2. Cardinality(Others) <= MaxOther
  BY <1>1, FS_EmptySet, FdsAssumption
<1>3. TypeOK
  <2>1. <<>> \in Seq(Peers) /\ 0 \in Nat
    OBVIOUS
  <2>2. QED
    BY <2>1 DEF Init, TypeOK, Idle
<1>4. FilesInv
  BY <1>2, PeersAssumption DEF Init, FilesInv, Idle
<1>5. AcceptInv
  BY DEF Init, AcceptInv, Idle, Connected
<1>6. LinesInv
  BY DEF Init, LinesInv, Idle, Connected
<1>7. QED
  BY <1>3, <1>4, <1>5, <1>6 DEF ServerInv

LEMMA ServerStep ==
  ASSUME ServerInv, [Next]_vars
  PROVE  ServerInv'
<1>1. CASE UNCHANGED vars
  BY <1>1 DEF vars, ServerInv, TypeOK, FilesInv, AcceptInv, Others
<1>2. CASE (\E c \in Peers : Connect(c) \/ Write(c) \/ GiveUp(c)) \/ OtherOpens \/ OtherCloses \/ StateChanged
  BY <1>2, WorldStep
<1>3. CASE Start
  BY <1>3, StartStep
<1>4. CASE StopFlag \/ Stopping \/ Die
  BY <1>4, StopStep
<1>5. CASE Check \/ Poll \/ PollReady \/ PollInterrupted \/ LostReturns \/ Accept \/ AcceptFails
  BY <1>5, AcceptStep
<1>6. CASE Insert \/ Read \/ ReadNothing \/ Handle \/ StreamEnds \/ Send \/ Erase \/ Close
  BY <1>6, ConnectionStep
<1>7. QED
  BY <1>1, <1>2, <1>3, <1>4, <1>5, <1>6 DEF Next, Serving

THEOREM ServerInvariant == Spec => [](ServerInv /\ LinesInv)
<1>1. ServerInv /\ LinesInv /\ [Next]_vars => (ServerInv /\ LinesInv)'
  BY ServerStep, LinesStep
<1>2. QED
  BY InitServer, <1>1, PTL DEF Spec

\* The state of the server keeps its type.
THEOREM ServerTypeCorrect == Spec => []TypeOK
<1>1. ServerInv => TypeOK
  BY DEF ServerInv
<1>2. QED
  BY ServerInvariant, <1>1, PTL

\* The accept thread and stop() use a descriptor number only while it stands for
\* the connection they mean, whatever other threads open and close meanwhile.
THEOREM NumbersOwned == Spec => []NumbersAreOwned
<1>1. ServerInv => NumbersAreOwned
  BY FdsAssumption DEF ServerInv, AcceptInv, NumbersAreOwned
<1>2. QED
  BY ServerInvariant, <1>1, PTL

\* Every connection gets at most one line, and an answer only for its own request,
\* through stops, deaths, restarts and reused descriptor numbers.
THEOREM OneLineEach == Spec => OneLinePerConnection
<1> DEFINE Line == \A c \in Peers : peer'[c].got # peer[c].got =>
                     /\ peer[c].got = "nothing"
                     /\ peer'[c].got = "answer" => peer[c].sent \in Requests
<1>1. ASSUME ServerInv, LinesInv, [Next]_vars
      PROVE  [Line]_vars
  <2>0. peer \in Ends
    BY <1>1 DEF ServerInv, TypeOK, Ends
  <2>1. CASE peer' = peer
    BY <2>1
  <2>2. CASE \E cs \in SUBSET Peers : peer' = HungUp(cs)
    BY <2>0, <2>2 DEF HungUp, Ends
  <2>3. CASE Send
    BY <1>1, <2>0, <2>3, SendsToItsPeer DEF Ends
  <2>4. CASE \E c \in Peers : Connect(c) \/ Write(c) \/ GiveUp(c)
    <3>1. PICK c \in Peers : \/ \E what \in {"blank"} \cup Requests : peer' = [peer EXCEPT ![c].sent = what]
                             \/ peer' = [peer EXCEPT ![c].state = "open"]
                             \/ peer' = [peer EXCEPT ![c].state = "gone"]
      BY <2>4, Zenon DEF Connect, Write, GiveUp
    <3>2. \A b \in Peers : peer'[b].got = peer[b].got
      BY <2>0, <3>1 DEF Ends
    <3>3. QED
      BY <3>2
  <2>5. CASE StopListener
    <3>1. {backlog[k] : k \in DOMAIN backlog} \in SUBSET Peers
      BY <1>1 DEF ServerInv, TypeOK
    <3>2. QED
      BY <2>2, <2>5, <3>1 DEF StopListener
  <2>6. CASE Die
    BY <2>2, <2>6 DEF Die
  <2>7. CASE Close
    <3>1. {acc.peer} \in SUBSET Peers
      BY <1>1, <2>7 DEF Close, ServerInv, AcceptInv, Connected
    <3>2. QED
      BY <2>2, <2>7, <3>1 DEF Close
  <2>8. CASE \/ OtherOpens \/ OtherCloses \/ StateChanged \/ Start \/ StopFlag \/ StopClients \/ Join \/ Clear
             \/ Check \/ Poll \/ Insert \/ Read \/ ReadNothing \/ Handle \/ StreamEnds \/ Erase
             \/ PollReady \/ PollInterrupted \/ LostReturns \/ Accept \/ AcceptFails \/ UNCHANGED vars
    BY <2>1, <2>8 DEF OtherOpens, OtherCloses, StateChanged, Start, StopFlag, StopClients, Join, Clear, Check, Poll,
       Insert, Read, ReadNothing, Handle, StreamEnds, Erase, PollReady, PollInterrupted, LostReturns, Accept,
       AcceptFails, vars
  <2>9. QED
    BY <1>1, <2>3, <2>4, <2>5, <2>6, <2>7, <2>8 DEF Next, Serving, Stopping
<1>2. QED
  BY ServerInvariant, <1>1, PTL DEF Spec, OneLinePerConnection
=============================================================================
