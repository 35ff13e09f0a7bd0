------------------------- MODULE EventChannelProofs -------------------------
(***************************************************************************)
(* Theorems about EventChannel: acknowledging never skips an event and     *)
(* never exceeds what was delivered, for any number of frontends that      *)
(* share a channel, die and start again.                                   *)
(***************************************************************************)
EXTENDS EventChannel, SequenceTheorems, TLAPS

-----------------------------------------------------------------------------
(***************************************************************************)
(* The backlog is a queue.                                                 *)
(***************************************************************************)

\* Whatever waits in the backlog is a call.
LEMMA Waiting ==
  ASSUME backlog \in Seq(Call), NEW k \in DOMAIN backlog
  PROVE  backlog[k] \in Call
  BY LenProperties, ElementOfSeq

\* Serving the head of the backlog leaves its tail.
LEMMA WithoutHead ==
  ASSUME backlog \in Seq(Call), backlog # <<>>
  PROVE  /\ Without(1) \in Seq(Call)
         /\ \A j \in DOMAIN Without(1) : j + 1 \in DOMAIN backlog /\ Without(1)[j] = backlog[j + 1]
<1> DEFINE Back == SubSeq(backlog, 2, Len(backlog))
<1>1. Len(backlog) \in Nat \ {0} /\ DOMAIN backlog = 1..Len(backlog)
  BY EmptySeq, LenProperties
<1>2. \A i \in 2..Len(backlog) : backlog[i] \in Call
  BY <1>1, ElementOfSeq
<1>3. Back \in Seq(Call)
  BY <1>1, <1>2, SubSeqProperties
<1>4. Len(Back) = Len(backlog) - 1
  BY <1>1, <1>2, SubSeqProperties
<1>5. \A i \in 1..(Len(backlog) - 1) : Back[i] = backlog[i + 1]
  BY <1>1, <1>2, SubSeqProperties
<1>6. SubSeq(backlog, 1, 0) = << >>
  BY SubSeqEmpty
<1>7. Without(1) = Back
  BY <1>1, <1>3, <1>6, ConcatEmptySeq DEF Without
<1>8. DOMAIN Back = 1..(Len(backlog) - 1)
  BY <1>3, <1>4, LenProperties
<1> HIDE DEF Back
<1>9. QED
  BY <1>1, <1>3, <1>5, <1>7, <1>8

-----------------------------------------------------------------------------
(***************************************************************************)
(* The invariant.  Behind each cursor, each frontend's place on its page   *)
(* and each acknowledgement on its way lie events that were printed, and   *)
(* all three stay within what the channel handed out.                      *)
(***************************************************************************)

\* Every event of a channel up to n was printed.
ShownTo(c, n) == \A e \in Nat : origin[c] < e /\ e <= n => e \in shown[c]

CursorsInv ==
    \A c \in Channels : /\ channel[c].cursor <= channel[c].delivered
                        /\ ShownTo(c, channel[c].cursor)
                        /\ ~channel[c].open => channel[c].delivered = 0

FrontendsInv ==
    \A f \in Frontends :
        frontend[f].pc = "print" =>
            /\ channel[ChannelOf[f]].open
            /\ frontend[f].end <= channel[ChannelOf[f]].delivered
            /\ \A e \in Nat : origin[ChannelOf[f]] < e /\ e < frontend[f].next => e \in shown[ChannelOf[f]]

AcksInv ==
    \A k \in DOMAIN backlog :
        backlog[k].op = "ack" =>
            /\ channel[backlog[k].channel].open
            /\ backlog[k].arg <= channel[backlog[k].channel].delivered
            /\ ShownTo(backlog[k].channel, backlog[k].arg)

CallersInv ==
    \A k \in DOMAIN backlog :
        backlog[k].from # None => backlog[k].channel = ChannelOf[backlog[k].from]

ChannelInv == TypeOK /\ CursorsInv /\ FrontendsInv /\ AcksInv /\ CallersInv

\* What a sent call adds to the backlog.
LEMMA SendStep ==
  ASSUME ChannelInv, NEW f \in Frontends, NEW op \in {"open", "read", "ack"}, NEW arg \in Nat,
         Send(f, op, arg),
         op = "ack" => /\ channel[ChannelOf[f]].open
                       /\ arg <= channel[ChannelOf[f]].delivered
                       /\ ShownTo(ChannelOf[f], arg)
  PROVE  ChannelInv'
<1> DEFINE m == [from |-> f, op |-> op, channel |-> ChannelOf[f], arg |-> arg]
<1>1. m \in Call
  BY ChannelsAssumption DEF Call
<1>2. backlog \in Seq(Call) /\ backlog' = Append(backlog, m)
  BY DEF ChannelInv, TypeOK, Send
<1>3. /\ backlog' \in Seq(Call) /\ Len(backlog') = Len(backlog) + 1
      /\ backlog'[Len(backlog) + 1] = m
      /\ \A i \in 1..Len(backlog) : backlog'[i] = backlog[i]
  BY <1>1, <1>2, AppendProperties
<1>4. /\ Len(backlog) \in Nat /\ DOMAIN backlog = 1..Len(backlog)
      /\ DOMAIN backlog' = 1..(Len(backlog) + 1)
  BY <1>2, <1>3, LenProperties
<1>5. \A k \in DOMAIN backlog' : (k \in DOMAIN backlog /\ backlog'[k] = backlog[k]) \/ backlog'[k] = m
  BY <1>3, <1>4
<1>6. UNCHANGED <<last, channel, deaths, shown, origin>> /\ frontend' = [frontend EXCEPT ![f].pc = "wait"]
  BY DEF Send
<1>7. TypeOK'
  BY <1>3, <1>6 DEF ChannelInv, TypeOK
<1>8. CursorsInv'
  BY <1>6 DEF ChannelInv, CursorsInv, ShownTo
<1>9. FrontendsInv'
  BY <1>6 DEF ChannelInv, TypeOK, FrontendsInv
<1>10. AcksInv'
  BY <1>5, <1>6 DEF ChannelInv, AcksInv, ShownTo
<1>11. CallersInv'
  BY <1>5 DEF ChannelInv, CallersInv
<1>12. QED
  BY <1>7, <1>8, <1>9, <1>10, <1>11 DEF ChannelInv
\* Acknowledgements that wait stay covered while another call is served.
LEMMA AcksWait ==
  ASSUME ChannelInv, backlog # <<>>, backlog' = Without(1), shown' = shown,
         \A c \in Channels : channel[c].open =>
             channel'[c].open /\ channel'[c].delivered >= channel[c].delivered /\ origin'[c] = origin[c],
         \A c \in Channels : channel'[c].delivered \in Nat
  PROVE  backlog' \in Seq(Call) /\ AcksInv' /\ CallersInv'
<1>1. /\ backlog' \in Seq(Call)
      /\ \A j \in DOMAIN backlog' : j + 1 \in DOMAIN backlog /\ backlog'[j] = backlog[j + 1]
  BY WithoutHead DEF ChannelInv, TypeOK
<1>2. ASSUME NEW j \in DOMAIN backlog', backlog'[j].op = "ack"
      PROVE  /\ channel'[backlog'[j].channel].open
             /\ backlog'[j].arg <= channel'[backlog'[j].channel].delivered
             /\ \A e \in Nat : origin'[backlog'[j].channel] < e /\ e <= backlog'[j].arg
                               => e \in shown'[backlog'[j].channel]
  <2> DEFINE m == backlog'[j]
  <2>1. backlog' = Without(1) /\ m = backlog[j + 1] /\ j + 1 \in DOMAIN backlog
    BY <1>1
  <2>2. m \in Call
    BY <1>1, LenProperties, ElementOfSeq
  <2>3. /\ channel[m.channel].open /\ m.arg <= channel[m.channel].delivered
        /\ ShownTo(m.channel, m.arg)
    BY <1>2, <2>1 DEF ChannelInv, AcksInv
  <2>4. channel[m.channel].delivered \in Nat /\ m.arg \in Nat /\ m.channel \in Channels
    BY <2>2 DEF ChannelInv, TypeOK, Call
  <2>5. /\ channel'[m.channel].open /\ channel'[m.channel].delivered >= channel[m.channel].delivered
        /\ origin'[m.channel] = origin[m.channel] /\ channel'[m.channel].delivered \in Nat
    BY <2>3, <2>4
  <2>6. QED
    BY <2>3, <2>4, <2>5 DEF ShownTo
<1>3. AcksInv'
  BY <1>2 DEF AcksInv, ShownTo
<1>4. CallersInv'
  BY <1>1 DEF ChannelInv, CallersInv
<1>5. QED
  BY <1>1, <1>3, <1>4

\* A frontend amid its page stays in order while others are served.
LEMMA FrontendWaits ==
  ASSUME ChannelInv, NEW f \in Frontends, frontend'[f] = frontend[f], shown' = shown,
         \A c \in Channels : channel[c].open =>
             channel'[c].open /\ channel'[c].delivered >= channel[c].delivered /\ origin'[c] = origin[c],
         \A c \in Channels : channel'[c].delivered \in Nat,
         frontend[f].pc = "print"
  PROVE  /\ channel'[ChannelOf[f]].open
         /\ frontend'[f].end <= channel'[ChannelOf[f]].delivered
         /\ \A e \in Nat : origin'[ChannelOf[f]] < e /\ e < frontend'[f].next => e \in shown'[ChannelOf[f]]
<1>1. ChannelOf[f] \in Channels /\ frontend[f].end \in Nat
  BY ChannelsAssumption DEF ChannelInv, TypeOK
<1>2. channel[ChannelOf[f]].delivered \in Nat
  BY <1>1 DEF ChannelInv, TypeOK
<1>3. /\ channel[ChannelOf[f]].open
      /\ frontend[f].end <= channel[ChannelOf[f]].delivered
      /\ \A e \in Nat : origin[ChannelOf[f]] < e /\ e < frontend[f].next => e \in shown[ChannelOf[f]]
  BY DEF ChannelInv, FrontendsInv
<1>4. /\ channel'[ChannelOf[f]].open /\ channel'[ChannelOf[f]].delivered >= channel[ChannelOf[f]].delivered
      /\ origin'[ChannelOf[f]] = origin[ChannelOf[f]] /\ channel'[ChannelOf[f]].delivered \in Nat
  BY <1>1, <1>3
<1>5. QED
  BY <1>1, <1>2, <1>3, <1>4

\* All frontends stay in order when at most one of them is sent elsewhere.
LEMMA FrontendsWait ==
  ASSUME ChannelInv, shown' = shown,
         \A f \in Frontends : frontend'[f] = frontend[f] \/ frontend'[f].pc # "print",
         \A c \in Channels : channel[c].open =>
             channel'[c].open /\ channel'[c].delivered >= channel[c].delivered /\ origin'[c] = origin[c],
         \A c \in Channels : channel'[c].delivered \in Nat
  PROVE  FrontendsInv'
  BY FrontendWaits, Zenon DEF FrontendsInv

\* Serving a call keeps the invariant.
LEMMA ServeStep ==
  ASSUME ChannelInv, Serve
  PROVE  ChannelInv'
<1> DEFINE m == backlog[1]
           c == m.channel
<1>1. backlog # <<>> /\ backlog' = Without(1) /\ UNCHANGED <<last, deaths, shown>>
  BY DEF Serve, ServeOpen, ServeRead, ServeAck, QueueOrder
<1>2. m \in Call /\ c \in Channels /\ m.arg \in Nat
  <2>1. 1 \in 1..Len(backlog)
    BY <1>1, EmptySeq DEF ChannelInv, TypeOK
  <2>2. m \in Call
    BY <2>1, ElementOfSeq DEF ChannelInv, TypeOK
  <2>3. QED
    BY <2>2 DEF Call
<1>3. ServeOpen(1) \/ ServeRead(1) \/ ServeAck(1)
  BY DEF Serve, ServeOpen, ServeRead, ServeAck, QueueOrder
<1>4. m.from = None \/ m.from \in Frontends
  BY <1>2 DEF Call
<1>5. CASE ServeOpen(1) /\ channel[c].open
  <2>1. /\ UNCHANGED <<channel, origin>>
        /\ frontend' = IF m.from = None THEN frontend
                       ELSE [frontend EXCEPT ![m.from] = [Stopped EXCEPT !.pc = "read"]]
    BY <1>5 DEF ServeOpen, Reply
  <2>2. backlog' \in Seq(Call) /\ AcksInv' /\ CallersInv'
    BY <1>1, <2>1, AcksWait DEF ChannelInv, TypeOK
  <2>3. QED
    BY <1>1, <1>4, <2>1, <2>2
    DEF ChannelInv, TypeOK, CursorsInv, FrontendsInv, ShownTo, Stopped
<1>6. CASE ServeOpen(1) /\ ~channel[c].open
  <2>1. /\ channel' = [channel EXCEPT ![c] = [open |-> TRUE, cursor |-> m.arg, delivered |-> m.arg]]
        /\ origin' = [origin EXCEPT ![c] = m.arg]
        /\ frontend' = IF m.from = None THEN frontend
                       ELSE [frontend EXCEPT ![m.from] = [Stopped EXCEPT !.pc = "read"]]
    BY <1>6 DEF ServeOpen, Reply
  <2>2. /\ channel' \in [Channels -> [open : BOOLEAN, cursor : Nat, delivered : Nat]]
        /\ origin' \in [Channels -> Nat]
    BY <1>2, <2>1 DEF ChannelInv, TypeOK
  <2>3. \A d \in Channels : d = c \/ (channel'[d] = channel[d] /\ origin'[d] = origin[d])
    BY <2>1 DEF ChannelInv, TypeOK
  <2>4. backlog' \in Seq(Call) /\ AcksInv' /\ CallersInv'
    <3>1. \A d \in Channels : channel[d].open =>
             channel'[d].open /\ channel'[d].delivered >= channel[d].delivered /\ origin'[d] = origin[d]
      BY <1>6, <2>2, <2>3
    <3>2. QED
      BY <1>1, <2>2, <3>1, AcksWait
  <2>5. CursorsInv'
    <3>1. /\ channel'[c].cursor = m.arg /\ channel'[c].delivered = m.arg /\ origin'[c] = m.arg
          /\ channel'[c].open
      BY <1>2, <2>1 DEF ChannelInv, TypeOK
    <3>2. QED
      BY <1>1, <1>2, <2>3, <3>1 DEF ChannelInv, CursorsInv, ShownTo
  <2>6. FrontendsInv'
    <3>1. \A f \in Frontends : frontend'[f] = frontend[f] \/ frontend'[f].pc # "print"
      BY <1>4, <2>1 DEF ChannelInv, TypeOK, Stopped
    <3>2. \A d \in Channels : channel[d].open =>
             channel'[d].open /\ channel'[d].delivered >= channel[d].delivered /\ origin'[d] = origin[d]
      BY <1>6, <2>2, <2>3 DEF ChannelInv, TypeOK
    <3>3. \A d \in Channels : channel'[d].delivered \in Nat
      BY <2>2
    <3>4. QED
      BY <1>1, <3>1, <3>2, <3>3, FrontendsWait
  <2>7. TypeOK'
    BY <1>1, <1>4, <2>1, <2>2, <2>4 DEF ChannelInv, TypeOK, Stopped
  <2>8. QED
    BY <2>4, <2>5, <2>6, <2>7 DEF ChannelInv
<1>7. CASE ServeRead(1) /\ channel[c].open
  <2> DEFINE after == channel[c].cursor
             end == PageEnd(after, m.arg)
             page == [pc |-> "print", next |-> after + 1, end |-> end]
             most == Delivered(c, end)
  <2>1. /\ channel' = [channel EXCEPT ![c].delivered = most]
        /\ origin' = origin
        /\ frontend' = IF m.from = None THEN frontend ELSE [frontend EXCEPT ![m.from] = page]
    BY <1>7 DEF ServeRead, Reply
  <2>2. /\ after \in Nat /\ end \in Nat /\ most \in Nat
        /\ channel[c].delivered <= most /\ end <= most
    <3>1. last \in Nat /\ after \in Nat /\ channel[c].delivered \in Nat /\ m.arg \in Nat
      BY <1>2 DEF ChannelInv, TypeOK
    <3>2. end \in Nat
      BY <3>1 DEF PageEnd
    <3> HIDE DEF end
    <3>3. QED
      BY <3>1, <3>2 DEF Delivered
  <2> HIDE DEF end, most
  <2>3. channel' \in [Channels -> [open : BOOLEAN, cursor : Nat, delivered : Nat]]
    <3> DEFINE row == [channel[c] EXCEPT !.delivered = most]
    <3>1. row \in [open : BOOLEAN, cursor : Nat, delivered : Nat]
      BY <1>2, <2>2 DEF ChannelInv, TypeOK
    <3>2. channel' = [channel EXCEPT ![c] = row]
      BY <2>1
    <3> HIDE DEF row
    <3>3. QED
      BY <3>1, <3>2 DEF ChannelInv, TypeOK
  <2>4. \A d \in Channels : /\ channel'[d].open = channel[d].open
                            /\ channel'[d].cursor = channel[d].cursor
                            /\ channel'[d].delivered >= channel[d].delivered
    BY <2>1, <2>2 DEF ChannelInv, TypeOK
  <2>5. backlog' \in Seq(Call) /\ AcksInv' /\ CallersInv'
    <3>1. \A d \in Channels : channel'[d].delivered \in Nat
      BY <2>3
    <3>2. QED
      BY <1>1, <2>1, <2>4, <3>1, AcksWait
  <2>6. CursorsInv'
    <3>1. ASSUME NEW d \in Channels
          PROVE  /\ channel'[d].cursor <= channel'[d].delivered
                 /\ \A e \in Nat : origin'[d] < e /\ e <= channel'[d].cursor => e \in shown'[d]
                 /\ ~channel'[d].open => channel'[d].delivered = 0
      <4>1. /\ channel[d].cursor \in Nat /\ channel[d].delivered \in Nat
            /\ channel'[d].cursor \in Nat /\ channel'[d].delivered \in Nat
        BY <2>3 DEF ChannelInv, TypeOK
      <4>2. channel'[d] = channel[d] \/ d = c
        BY <2>1 DEF ChannelInv, TypeOK
      <4>3. QED
        BY <1>1, <1>7, <2>1, <2>4, <4>1, <4>2 DEF ChannelInv, CursorsInv, ShownTo
    <3>2. QED
      BY <3>1 DEF CursorsInv, ShownTo
  <2>7. FrontendsInv'
    <3>1. ASSUME NEW f \in Frontends, frontend'[f].pc = "print", f = m.from, m.from # None
          PROVE  /\ channel'[ChannelOf[f]].open
                 /\ frontend'[f].end <= channel'[ChannelOf[f]].delivered
                 /\ \A e \in Nat : origin'[ChannelOf[f]] < e /\ e < frontend'[f].next
                                   => e \in shown'[ChannelOf[f]]
      <4>1. ChannelOf[f] = c
        <5>1. 1 \in DOMAIN backlog
          BY <1>7 DEF ServeRead, QueueOrder, ChannelInv, TypeOK
        <5>2. QED
          BY <3>1, <5>1 DEF ChannelInv, CallersInv
      <4>2. frontend'[f] = page
        BY <2>1, <3>1 DEF ChannelInv, TypeOK
      <4>3. channel'[c].open /\ channel'[c].delivered = most
        BY <1>2, <1>7, <2>1, <2>4 DEF ChannelInv, TypeOK
      <4>4. \A e \in Nat : origin[c] < e /\ e < after + 1 => e \in shown[c]
        BY <1>2, <2>2 DEF ChannelInv, CursorsInv, ShownTo
      <4>5. QED
        BY <1>1, <2>1, <2>2, <4>1, <4>2, <4>3, <4>4
    <3>2. ASSUME NEW f \in Frontends, frontend'[f].pc = "print", f # m.from \/ m.from = None
          PROVE  /\ channel'[ChannelOf[f]].open
                 /\ frontend'[f].end <= channel'[ChannelOf[f]].delivered
                 /\ \A e \in Nat : origin'[ChannelOf[f]] < e /\ e < frontend'[f].next
                                   => e \in shown'[ChannelOf[f]]
      <4>1. frontend'[f] = frontend[f]
        BY <1>4, <2>1, <3>2 DEF ChannelInv, TypeOK
      <4>2. \A d \in Channels : channel'[d].delivered \in Nat
        BY <2>3
      <4>3. QED
        BY <1>1, <2>1, <2>4, <3>2, <4>1, <4>2, FrontendWaits
    <3>3. QED
      BY <3>1, <3>2 DEF FrontendsInv
  <2>8. TypeOK'
    <3>1. page \in [pc : {"stopped", "wait", "read", "print", "ack"}, next : Nat, end : Nat]
      BY <2>2
    <3> HIDE DEF page
    <3>2. QED
      BY <1>1, <1>4, <2>1, <2>3, <2>5, <3>1 DEF ChannelInv, TypeOK
  <2>9. QED
    BY <2>5, <2>6, <2>7, <2>8 DEF ChannelInv
<1>8. CASE ServeRead(1) /\ ~channel[c].open
  <2>1. /\ UNCHANGED <<channel, origin>>
        /\ frontend' = IF m.from = None THEN frontend ELSE [frontend EXCEPT ![m.from] = Stopped]
    BY <1>8 DEF ServeRead, Reply
  <2>2. backlog' \in Seq(Call) /\ AcksInv' /\ CallersInv'
    BY <1>1, <2>1, AcksWait DEF ChannelInv, TypeOK
  <2>3. QED
    BY <1>1, <1>4, <2>1, <2>2
    DEF ChannelInv, TypeOK, CursorsInv, FrontendsInv, ShownTo, Stopped
<1>9. CASE ServeAck(1) /\ Ackable(c, m.arg)
  <2>1. /\ channel' = [channel EXCEPT ![c].cursor = m.arg]
        /\ origin' = origin
        /\ frontend' = IF m.from = None THEN frontend
                       ELSE [frontend EXCEPT ![m.from] = [Stopped EXCEPT !.pc = "read"]]
    BY <1>9 DEF ServeAck, Reply
  <2>2. /\ channel' \in [Channels -> [open : BOOLEAN, cursor : Nat, delivered : Nat]]
        /\ \A d \in Channels : /\ channel'[d].open = channel[d].open
                               /\ channel'[d].delivered = channel[d].delivered
                               /\ d # c => channel'[d].cursor = channel[d].cursor
        /\ channel'[c].cursor = m.arg
    BY <1>2, <2>1 DEF ChannelInv, TypeOK
  <2>3. m.arg <= channel[c].delivered /\ ShownTo(c, m.arg)
    <3>1. 1 \in DOMAIN backlog
      BY <1>9 DEF ServeAck, QueueOrder, ChannelInv, TypeOK
    <3>2. m.op = "ack"
      BY <1>9 DEF ServeAck
    <3>3. QED
      BY <3>1, <3>2 DEF ChannelInv, AcksInv
  <2>4. backlog' \in Seq(Call) /\ AcksInv' /\ CallersInv'
    <3>1. \A d \in Channels : /\ channel'[d].delivered \in Nat
                              /\ channel'[d].delivered >= channel[d].delivered
      BY <2>2 DEF ChannelInv, TypeOK
    <3>2. QED
      BY <1>1, <2>1, <2>2, <3>1, AcksWait
  <2>5. CursorsInv'
    BY <1>1, <2>1, <2>2, <2>3 DEF ChannelInv, CursorsInv, ShownTo
  <2>6. FrontendsInv'
    <3>1. \A f \in Frontends : frontend'[f] = frontend[f] \/ frontend'[f].pc # "print"
      BY <1>4, <2>1 DEF ChannelInv, TypeOK, Stopped
    <3>2. \A d \in Channels : channel[d].open =>
             channel'[d].open /\ channel'[d].delivered >= channel[d].delivered /\ origin'[d] = origin[d]
      BY <2>1, <2>2 DEF ChannelInv, TypeOK
    <3>3. \A d \in Channels : channel'[d].delivered \in Nat
      BY <2>2
    <3>4. QED
      BY <1>1, <3>1, <3>2, <3>3, FrontendsWait
  <2>7. TypeOK'
    BY <1>1, <1>4, <2>1, <2>2, <2>4 DEF ChannelInv, TypeOK, Stopped
  <2>8. QED
    BY <2>4, <2>5, <2>6, <2>7 DEF ChannelInv
<1>10. CASE ServeAck(1) /\ ~Ackable(c, m.arg)
  <2>1. /\ UNCHANGED <<channel, origin>>
        /\ frontend' = IF m.from = None THEN frontend ELSE [frontend EXCEPT ![m.from] = Stopped]
    BY <1>10 DEF ServeAck, Reply
  <2>2. backlog' \in Seq(Call) /\ AcksInv' /\ CallersInv'
    BY <1>1, <2>1, AcksWait DEF ChannelInv, TypeOK
  <2>3. QED
    BY <1>1, <1>4, <2>1, <2>2
    DEF ChannelInv, TypeOK, CursorsInv, FrontendsInv, ShownTo, Stopped
<1>11. QED
  BY <1>3, <1>5, <1>6, <1>7, <1>8, <1>9, <1>10
-----------------------------------------------------------------------------
(***************************************************************************)
(* The frontends, the log and the deaths.                                  *)
(***************************************************************************)

\* Printing an event moves the frontend's place past it.
LEMMA PrintStep ==
  ASSUME ChannelInv, NEW f \in Frontends, PrintEvent(f)
  PROVE  ChannelInv'
<1> DEFINE n == frontend[f].next
           c == ChannelOf[f]
<1>1. /\ frontend[f].pc = "print"
      /\ shown' = [shown EXCEPT ![c] = @ \cup {n}]
      /\ frontend' = [frontend EXCEPT ![f].next = n + 1]
      /\ UNCHANGED <<last, channel, backlog, deaths, origin>>
  BY DEF PrintEvent
<1>2. c \in Channels /\ n \in Nat
  BY ChannelsAssumption DEF ChannelInv, TypeOK
<1>3. TypeOK'
  <2> DEFINE row == [frontend[f] EXCEPT !.next = n + 1]
  <2>1. row \in [pc : {"stopped", "wait", "read", "print", "ack"}, next : Nat, end : Nat]
    <3>1. n + 1 \in Nat
      BY <1>2
    <3>2. frontend[f] \in [pc : {"stopped", "wait", "read", "print", "ack"}, next : Nat, end : Nat]
      BY DEF ChannelInv, TypeOK
    <3>3. QED
      BY <3>1, <3>2
  <2>2. frontend' = [frontend EXCEPT ![f] = row]
    BY <1>1
  <2> HIDE DEF row
  <2>3. QED
    BY <1>1, <1>2, <2>1, <2>2 DEF ChannelInv, TypeOK
<1>4. /\ n \in shown'[c]
      /\ \A d \in Channels : \A e \in shown[d] : e \in shown'[d]
  BY <1>1, <1>2 DEF ChannelInv, TypeOK
<1>5. CursorsInv'
  BY <1>1, <1>4 DEF ChannelInv, CursorsInv, ShownTo
<1>6. FrontendsInv'
  <2>1. ASSUME NEW g \in Frontends, frontend'[g].pc = "print"
        PROVE  /\ channel'[ChannelOf[g]].open
               /\ frontend'[g].end <= channel'[ChannelOf[g]].delivered
               /\ \A e \in Nat : origin'[ChannelOf[g]] < e /\ e < frontend'[g].next
                                 => e \in shown'[ChannelOf[g]]
    <3>1. /\ frontend[g].pc = "print" /\ frontend'[g].end = frontend[g].end
          /\ frontend'[g].next = frontend[g].next \/ (g = f /\ frontend'[g].next = n + 1)
      BY <1>1, <2>1 DEF ChannelInv, TypeOK
    <3>2. ChannelOf[g] \in Channels
      BY ChannelsAssumption
    <3>3. \A e \in Nat : origin[ChannelOf[g]] < e /\ e < frontend[g].next => e \in shown'[ChannelOf[g]]
      BY <1>4, <3>1, <3>2 DEF ChannelInv, FrontendsInv
    <3>4. \A e \in Nat : origin[ChannelOf[g]] < e /\ e < frontend'[g].next => e \in shown'[ChannelOf[g]]
      BY <1>2, <1>4, <3>1, <3>3
    <3>5. QED
      BY <1>1, <3>1, <3>4 DEF ChannelInv, FrontendsInv
  <2>2. QED
    BY <2>1 DEF FrontendsInv
<1>7. AcksInv'
  <2>1. \A k \in DOMAIN backlog : backlog[k].channel \in Channels
    BY Waiting DEF ChannelInv, TypeOK, Call
  <2>2. QED
    BY <1>1, <1>4, <2>1 DEF ChannelInv, AcksInv, ShownTo
<1>8. CallersInv'
  BY <1>1 DEF ChannelInv, CallersInv
<1>9. QED
  BY <1>3, <1>5, <1>6, <1>7, <1>8 DEF ChannelInv

\* A dead frontend's calls wait on without a reader.
LEMMA FrontendDiesStep ==
  ASSUME ChannelInv, NEW f \in Frontends, FrontendDies(f)
  PROVE  ChannelInv'
<1> DEFINE orphan(m) == IF m.from = f THEN [m EXCEPT !.from = None] ELSE m
<1>1. /\ deaths' = deaths + 1 /\ frontend' = [frontend EXCEPT ![f] = Stopped]
      /\ backlog' = [k \in DOMAIN backlog |-> orphan(backlog[k])]
      /\ UNCHANGED <<last, channel, shown, origin>>
  BY DEF FrontendDies
<1>2. Len(backlog) \in Nat /\ DOMAIN backlog = 1..Len(backlog)
  BY LenProperties DEF ChannelInv, TypeOK
<1>3. \A k \in DOMAIN backlog :
         /\ backlog[k] \in Call /\ orphan(backlog[k]) \in Call
         /\ orphan(backlog[k]).op = backlog[k].op /\ orphan(backlog[k]).arg = backlog[k].arg
         /\ orphan(backlog[k]).channel = backlog[k].channel
         /\ orphan(backlog[k]).from \in {backlog[k].from, None}
  <2>1. SUFFICES ASSUME NEW m \in Call
                 PROVE  /\ orphan(m) \in Call
                        /\ orphan(m).op = m.op /\ orphan(m).arg = m.arg
                        /\ orphan(m).channel = m.channel /\ orphan(m).from \in {m.from, None}
    BY Waiting DEF ChannelInv, TypeOK
  <2>2. QED
    BY DEF Call
<1> HIDE DEF orphan
<1>4. backlog' \in Seq(Call) /\ DOMAIN backlog' = DOMAIN backlog
  BY <1>1, <1>2, <1>3 DEF ChannelInv, TypeOK
<1>5. TypeOK'
  BY <1>1, <1>4 DEF ChannelInv, TypeOK, Stopped
<1>6. CursorsInv'
  BY <1>1 DEF ChannelInv, CursorsInv, ShownTo
<1>7. FrontendsInv'
  BY <1>1 DEF ChannelInv, TypeOK, FrontendsInv, Stopped
<1>8. AcksInv'
  BY <1>1, <1>3, <1>4 DEF ChannelInv, AcksInv, ShownTo
<1>9. CallersInv'
  BY <1>1, <1>3, <1>4 DEF ChannelInv, CallersInv
<1>10. QED
  BY <1>5, <1>6, <1>7, <1>8, <1>9 DEF ChannelInv

\* Every step keeps the invariant.
LEMMA ChannelStep == ChannelInv /\ [Next]_vars => ChannelInv'
<1> SUFFICES ASSUME ChannelInv, [Next]_vars
             PROVE  ChannelInv'
  OBVIOUS
<1>1. CASE UNCHANGED vars
  BY <1>1 DEF vars, ChannelInv, TypeOK, CursorsInv, FrontendsInv, AcksInv, CallersInv, ShownTo
<1>2. CASE AppendEvent
  BY <1>2 DEF AppendEvent, ChannelInv, TypeOK, CursorsInv, FrontendsInv, AcksInv, CallersInv, ShownTo
<1>3. CASE DaemonDies
  BY <1>3 DEF DaemonDies, ChannelInv, TypeOK, CursorsInv, FrontendsInv, AcksInv, CallersInv, ShownTo, Stopped
<1>4. ASSUME NEW f \in Frontends, StartFrontend(f)
      PROVE  ChannelInv'
  <2>1. PICK after \in Origins : Send(f, "open", after)
    BY <1>4 DEF StartFrontend
  <2>2. QED
    BY <2>1, SendStep, NumbersAssumption
<1>5. ASSUME NEW f \in Frontends, AskPage(f)
      PROVE  ChannelInv'
  <2>1. PICK limit \in Limits : Send(f, "read", limit)
    BY <1>5 DEF AskPage
  <2>2. QED
    BY <2>1, SendStep, NumbersAssumption
<1>6. ASSUME NEW f \in Frontends, Acknowledge(f)
      PROVE  ChannelInv'
  <2>1. /\ frontend[f].end \in Nat /\ frontend[f].next \in Nat
        /\ frontend[f].pc = "print" /\ frontend[f].next > frontend[f].end
        /\ Send(f, "ack", frontend[f].end)
    BY <1>6 DEF Acknowledge, ChannelInv, TypeOK
  <2>2. /\ channel[ChannelOf[f]].open
        /\ frontend[f].end <= channel[ChannelOf[f]].delivered
        /\ ShownTo(ChannelOf[f], frontend[f].end)
    BY <2>1 DEF ChannelInv, FrontendsInv, ShownTo
  <2>3. QED
    BY <2>1, <2>2, SendStep
<1>7. QED
  BY <1>1, <1>2, <1>3, <1>4, <1>5, <1>6, ServeStep, PrintStep, FrontendDiesStep DEF Next

\* The invariant holds in every reachable state.
LEMMA ChannelInvariant == Spec => []ChannelInv
<1>1. Init => ChannelInv
  BY DEF Init, ChannelInv, TypeOK, CursorsInv, FrontendsInv, AcksInv, CallersInv, ShownTo, Stopped
<1>2. QED
  BY <1>1, ChannelStep, PTL DEF Spec

-----------------------------------------------------------------------------

\* Every variable keeps its type, through lost backlogs and abandoned calls.
THEOREM ChannelTypeCorrect == Spec => []TypeOK
<1>1. ChannelInv => TypeOK
  BY DEF ChannelInv
<1>2. QED
  BY <1>1, ChannelInvariant, PTL

\* No cursor passes an event that was not printed, for any number of frontends
\* on a channel and any page sizes.
THEOREM NoEventSkipped == Spec => []NothingSkipped
<1>1. ChannelInv => NothingSkipped
  BY NumbersAssumption DEF ChannelInv, CursorsInv, ShownTo, NothingSkipped
<1>2. QED
  BY <1>1, ChannelInvariant, PTL

\* What frontends acknowledge is covered by what their channel handed out.
THEOREM AcknowledgementsCovered == Spec => []AcksAreCovered
<1>1. ChannelInv => AcksAreCovered
  BY DEF ChannelInv, AcksInv, AcksAreCovered
<1>2. QED
  BY <1>1, ChannelInvariant, PTL

\* What a step does to the cursors.
LEMMA CursorStep ==
  ASSUME ChannelInv, ChannelInv', [Next]_vars, NEW c \in Channels
  PROVE  /\ channel'[c].cursor >= channel[c].cursor
         /\ channel'[c].delivered >= channel[c].delivered
         /\ channel'[c].cursor <= channel'[c].delivered
<1> DEFINE Goal == /\ channel'[c].cursor >= channel[c].cursor
                   /\ channel'[c].delivered >= channel[c].delivered
<1>1. channel[c].cursor \in Nat /\ channel[c].delivered \in Nat
  BY DEF ChannelInv, TypeOK
<1>2. CASE channel' = channel
  BY <1>1, <1>2 DEF ChannelInv, CursorsInv
<1>3. CASE Serve
  <2> DEFINE m == backlog[1]
             d == m.channel
  <2>1. backlog # <<>> /\ (ServeOpen(1) \/ ServeRead(1) \/ ServeAck(1))
    BY <1>3 DEF Serve, ServeOpen, ServeRead, ServeAck, QueueOrder
  <2>2. m \in Call
    BY <2>1, EmptySeq, ElementOfSeq DEF ChannelInv, TypeOK
  <2>3. d \in Channels /\ m.arg \in Nat
    BY <2>2 DEF Call
  <2>4. CASE ServeOpen(1)
    <3>1. \/ channel' = channel
          \/ /\ ~channel[d].open
             /\ channel' = [channel EXCEPT ![d] = [open |-> TRUE, cursor |-> m.arg, delivered |-> m.arg]]
      BY <2>4 DEF ServeOpen
    <3>2. c # d => channel'[c] = channel[c]
      BY <3>1 DEF ChannelInv, TypeOK
    <3>3. c = d => channel'[c] = channel[c]
                   \/ (~channel[c].open /\ channel'[c].cursor = m.arg /\ channel'[c].delivered = m.arg)
      BY <2>3, <3>1 DEF ChannelInv, TypeOK
    <3>4. QED
      BY <1>1, <2>3, <3>2, <3>3 DEF ChannelInv, CursorsInv
  <2>5. CASE ServeRead(1)
    <3> DEFINE most == Delivered(d, PageEnd(channel[d].cursor, m.arg))
    <3>1. channel' = channel \/ channel' = [channel EXCEPT ![d].delivered = most]
      BY <2>5 DEF ServeRead
    <3>2. most >= channel[d].delivered
      <4>1. channel[d].delivered \in Nat /\ channel[d].cursor \in Nat /\ last \in Nat
        BY <2>3 DEF ChannelInv, TypeOK
      <4> DEFINE end == PageEnd(channel[d].cursor, m.arg)
      <4>2. end \in Nat
        BY <2>3, <4>1 DEF PageEnd
      <4> HIDE DEF end
      <4>3. Delivered(d, end) >= channel[d].delivered
        BY <4>1, <4>2 DEF Delivered
      <4>4. QED
        BY <4>3 DEF end
    <3> HIDE DEF most
    <3>3. Goal
      <4>1. c = d => channel'[c].delivered \in {most, channel[c].delivered}
        BY <3>1 DEF ChannelInv, TypeOK
      <4>2. channel'[c].cursor = channel[c].cursor
        <5>1. channel'[c] \in {channel[c], [channel[c] EXCEPT !.delivered = most]}
          BY <3>1 DEF ChannelInv, TypeOK
        <5>2. channel[c] \in [open : BOOLEAN, cursor : Nat, delivered : Nat]
          BY DEF ChannelInv, TypeOK
        <5>3. QED
          BY <5>1, <5>2
      <4>3. c # d => channel'[c].delivered = channel[c].delivered
        BY <3>1 DEF ChannelInv, TypeOK
      <4>4. QED
        BY <1>1, <3>2, <4>1, <4>2, <4>3
    <3>4. QED
      BY <3>3 DEF ChannelInv, CursorsInv
  <2>6. CASE ServeAck(1)
    <3>1. channel' = channel \/ (m.arg >= channel[d].cursor /\ channel' = [channel EXCEPT ![d].cursor = m.arg])
      BY <2>6 DEF ServeAck, Ackable
    <3>2. Goal
      <4>1. channel'[c].delivered = channel[c].delivered
        <5>1. channel'[c] \in {channel[c], [channel[c] EXCEPT !.cursor = m.arg]}
          BY <3>1 DEF ChannelInv, TypeOK
        <5>2. channel[c] \in [open : BOOLEAN, cursor : Nat, delivered : Nat]
          BY DEF ChannelInv, TypeOK
        <5>3. QED
          BY <5>1, <5>2
      <4>2. c # d => channel'[c].cursor = channel[c].cursor
        BY <3>1 DEF ChannelInv, TypeOK
      <4>3. c = d => channel'[c].cursor >= channel[c].cursor
        BY <1>1, <3>1 DEF ChannelInv, TypeOK
      <4>4. QED
        BY <1>1, <4>1, <4>2, <4>3
    <3>3. QED
      BY <3>2 DEF ChannelInv, CursorsInv
  <2>7. QED
    BY <2>1, <2>4, <2>5, <2>6
<1>4. channel' = channel \/ Serve
  BY DEF Next, vars, AppendEvent, DaemonDies, StartFrontend, AskPage, PrintEvent, Acknowledge,
         FrontendDies, Send
<1>5. QED
  BY <1>2, <1>3, <1>4

\* Cursors never move back and never overtake what was handed out.
THEOREM CursorsOnlyAdvance == Spec => CursorsAdvance
<1>1. ChannelInv /\ ChannelInv' /\ [Next]_vars =>
        [\A c \in Channels : /\ channel'[c].cursor >= channel[c].cursor
                             /\ channel'[c].delivered >= channel[c].delivered
                             /\ channel'[c].cursor <= channel'[c].delivered]_vars
  BY CursorStep
<1>2. QED
  BY <1>1, ChannelInvariant, PTL DEF Spec, CursorsAdvance
=============================================================================
