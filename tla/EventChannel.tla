---------------------------- MODULE EventChannel ----------------------------
(***************************************************************************)
(* The event channels of the control plane (channel.open/read/ack in       *)
(* daemon/src/ControlPlane.cpp) together with the client that uses them,   *)
(* the `events` loop of kitten/a2a.py: open, then for ever read a page,    *)
(* print it event by event, acknowledge it.                                *)
(*                                                                         *)
(* Every call is a connection of its own.  The daemon accepts and serves   *)
(* one connection at a time, in the order they were made, so calls wait in *)
(* a FIFO backlog; a client that dies or times out leaves its call there   *)
(* and the daemon serves it all the same.  Channels and log are durable, a *)
(* daemon that dies only loses the backlog.                                *)
(*                                                                         *)
(* An event is its sequence number: the log is 1..last.                    *)
(***************************************************************************)
EXTENDS Naturals, Sequences, FiniteSets

CONSTANTS
    Channels,       \* channel ids
    Frontends,      \* running or restarted `events` commands
    ChannelOf,      \* the channel a frontend names
    Limits,         \* page sizes a frontend may ask for, 1..500 in the code
    Origins,        \* values of "after" at channel.open; the kitten sends none, so 0
    MaxEvents,      \* bound: length of the log
    MaxDeaths,      \* bound: how often frontends and daemons die
    None

ASSUME ChannelsAssumption == ChannelOf \in [Frontends -> Channels]
ASSUME NumbersAssumption ==
    /\ Limits \subseteq Nat \ {0} /\ Origins \subseteq Nat
    /\ MaxEvents \in Nat /\ MaxDeaths \in Nat
ASSUME AbsentAssumption == None \notin Frontends

VARIABLES
    last,       \* sequence of the newest control_events row
    channel,    \* the channel records
    backlog,    \* connections waiting for the accept loop
    frontend,   \* the loop of each frontend
    deaths,     \* how many processes died
    shown,      \* history: sequences printed, per channel
    origin      \* history: where a channel was opened

vars == <<last, channel, backlog, frontend, deaths, shown, origin>>

Call == [from : Frontends \cup {None}, op : {"open", "read", "ack"},
         channel : Channels, arg : Nat]

TypeOK ==
    /\ last \in Nat
    /\ channel \in [Channels -> [open : BOOLEAN, cursor : Nat, delivered : Nat]]
    /\ backlog \in Seq(Call)
    /\ frontend \in [Frontends -> [pc : {"stopped", "wait", "read", "print", "ack"},
                                   next : Nat, end : Nat]]
    /\ deaths \in Nat
    /\ shown \in [Channels -> SUBSET Nat]
    /\ origin \in [Channels -> Nat]

Stopped == [pc |-> "stopped", next |-> 0, end |-> 0]

Init ==
    /\ last = 0
    /\ channel = [c \in Channels |-> [open |-> FALSE, cursor |-> 0, delivered |-> 0]]
    /\ backlog = <<>>
    /\ frontend = [f \in Frontends |-> Stopped]
    /\ deaths = 0
    /\ shown = [c \in Channels |-> {}]
    /\ origin = [c \in Channels |-> 0]

-----------------------------------------------------------------------------
(***************************************************************************)
(* The log.                                                                *)
(***************************************************************************)

\* append(): any transaction of the control plane adds the next event.
AppendEvent ==
    /\ last < MaxEvents
    /\ last' = last + 1
    /\ UNCHANGED <<channel, backlog, frontend, deaths, shown, origin>>

-----------------------------------------------------------------------------
(***************************************************************************)
(* The daemon serves the connection at the head of the backlog.            *)
(***************************************************************************)

\* The accept loop takes connections first come, first served.
QueueOrder(k) == backlog # <<>> /\ k = 1

Without(k) == SubSeq(backlog, 1, k - 1) \o SubSeq(backlog, k + 1, Len(backlog))

\* The reply reaches the caller if it is still there.
Reply(m, state) ==
    frontend' = IF m.from = None THEN frontend ELSE [frontend EXCEPT ![m.from] = state]

\* channel.open: the record is created once; later calls find it.
ServeOpen(k) ==
    LET m == backlog[k] IN
    /\ QueueOrder(k) /\ m.op = "open"
    /\ IF channel[m.channel].open
       THEN UNCHANGED <<channel, origin>>
       ELSE /\ channel' = [channel EXCEPT ![m.channel] =
                             [open |-> TRUE, cursor |-> m.arg, delivered |-> m.arg]]
            /\ origin' = [origin EXCEPT ![m.channel] = m.arg]
    /\ Reply(m, [Stopped EXCEPT !.pc = "read"])
    /\ backlog' = Without(k)
    /\ UNCHANGED <<last, deaths, shown>>

PageEndShort(after, limit) ==
    IF after + 1 >= last THEN after
    ELSE IF after + limit < last THEN after + limit ELSE last - 1
\* The sequence of the last row of a page, or where it started if it is empty.
PageEnd(after, limit) ==
    IF after >= last THEN after
    ELSE IF after + limit < last THEN after + limit ELSE last

DeliveredLast(c, n) == n
\* channel.read remembers the furthest event it ever handed out.
Delivered(c, n) == IF channel[c].delivered > n THEN channel[c].delivered ELSE n

\* channel.read: a page from the cursor on; the cursor does not move.
ServeRead(k) ==
    LET m == backlog[k]
        after == channel[m.channel].cursor
        end == PageEnd(after, m.arg)
    IN
    /\ QueueOrder(k) /\ m.op = "read"
    /\ IF channel[m.channel].open
       THEN /\ channel' = [channel EXCEPT ![m.channel].delivered = Delivered(m.channel, end)]
            /\ Reply(m, [pc |-> "print", next |-> after + 1, end |-> end])
       ELSE /\ Reply(m, Stopped)
            /\ UNCHANGED channel
    /\ backlog' = Without(k)
    /\ UNCHANGED <<last, deaths, shown, origin>>

AckableBelow(c, n) == channel[c].open /\ n <= channel[c].delivered
\* channel.ack accepts no step back and nothing that was not handed out.
Ackable(c, n) ==
    channel[c].open /\ n >= channel[c].cursor /\ n <= channel[c].delivered

\* channel.ack: the cursor moves, or the frontend is told no and gives up.
ServeAck(k) ==
    LET m == backlog[k] IN
    /\ QueueOrder(k) /\ m.op = "ack"
    /\ IF Ackable(m.channel, m.arg)
       THEN /\ channel' = [channel EXCEPT ![m.channel].cursor = m.arg]
            /\ Reply(m, [Stopped EXCEPT !.pc = "read"])
       ELSE /\ Reply(m, Stopped)
            /\ UNCHANGED channel
    /\ backlog' = Without(k)
    /\ UNCHANGED <<last, deaths, shown, origin>>

Serve == \E k \in DOMAIN backlog : ServeOpen(k) \/ ServeRead(k) \/ ServeAck(k)

-----------------------------------------------------------------------------
(***************************************************************************)
(* The events loop of the kitten.                                          *)
(***************************************************************************)

\* _rpc(): connect, send, wait.
Send(f, op, arg) ==
    /\ backlog' = Append(backlog, [from |-> f, op |-> op, channel |-> ChannelOf[f], arg |-> arg])
    /\ frontend' = [frontend EXCEPT ![f].pc = "wait"]
    /\ UNCHANGED <<last, channel, deaths, shown, origin>>

StartFrontend(f) == frontend[f].pc = "stopped" /\ \E after \in Origins : Send(f, "open", after)

AskPage(f) == frontend[f].pc = "read" /\ \E limit \in Limits : Send(f, "read", limit)

\* One event is printed and flushed; after the last one the page is acknowledged.
PrintEvent(f) ==
    LET n == frontend[f].next IN
    /\ frontend[f].pc = "print" /\ n <= frontend[f].end
    /\ shown' = [shown EXCEPT ![ChannelOf[f]] = @ \cup {n}]
    /\ frontend' = [frontend EXCEPT ![f].next = n + 1]
    /\ UNCHANGED <<last, channel, backlog, deaths, origin>>

AcknowledgeEarly(f) ==
    /\ frontend[f].pc = "print"
    /\ Send(f, "ack", frontend[f].end)
AcknowledgeShort(f) ==
    /\ frontend[f].pc = "print" /\ frontend[f].next > frontend[f].end
    /\ Send(f, "ack", frontend[f].end - 1)
Acknowledge(f) ==
    /\ frontend[f].pc = "print" /\ frontend[f].next > frontend[f].end
    /\ Send(f, "ack", frontend[f].end)

\* The frontend is closed, killed, or its call times out.  A call it made stays
\* in the backlog with nobody to read the reply.
FrontendDies(f) ==
    /\ frontend[f].pc # "stopped"
    /\ deaths < MaxDeaths
    /\ deaths' = deaths + 1
    /\ frontend' = [frontend EXCEPT ![f] = Stopped]
    /\ backlog' = [k \in DOMAIN backlog |->
                     IF backlog[k].from = f THEN [backlog[k] EXCEPT !.from = None]
                     ELSE backlog[k]]
    /\ UNCHANGED <<last, channel, shown, origin>>

\* The daemon dies: waiting connections are closed and their callers give up.
DaemonDies ==
    /\ deaths < MaxDeaths
    /\ deaths' = deaths + 1
    /\ backlog' = <<>>
    /\ frontend' = [f \in Frontends |-> IF frontend[f].pc = "wait" THEN Stopped ELSE frontend[f]]
    /\ UNCHANGED <<last, channel, shown, origin>>

Next ==
    \/ AppendEvent
    \/ Serve
    \/ DaemonDies
    \/ \E f \in Frontends : \/ StartFrontend(f) \/ AskPage(f) \/ PrintEvent(f)
                            \/ Acknowledge(f) \/ FrontendDies(f)

Spec == Init /\ [][Next]_vars

\* The daemon serves its backlog, a frontend runs with --follow, and someone
\* starts it again.
FairSpec ==
    /\ Spec /\ WF_vars(Serve)
    /\ \A f \in Frontends :
          WF_vars(StartFrontend(f) \/ AskPage(f) \/ PrintEvent(f) \/ Acknowledge(f))

-----------------------------------------------------------------------------
(***************************************************************************)
(* Properties.                                                             *)
(***************************************************************************)

\* Every event behind a channel's cursor was printed by a frontend of that
\* channel, whatever died in between: acknowledging never skips an event,
\* even when frontends share a channel.
NothingSkipped ==
    \A c \in Channels : \A n \in 1..MaxEvents :
        origin[c] < n /\ n <= channel[c].cursor => n \in shown[c]

\* Cursors only advance, and never beyond what was handed out; neither a stale
\* acknowledgement nor a reopened channel moves them back.
CursorsAdvance ==
    [][\A c \in Channels : /\ channel'[c].cursor >= channel[c].cursor
                           /\ channel'[c].delivered >= channel[c].delivered
                           /\ channel'[c].cursor <= channel'[c].delivered]_vars

\* An acknowledgement on its way never exceeds what its channel handed out: reads
\* of another frontend and restarts of either side do not make channel.ack refuse it
\* as one beyond the delivered.  (One below the cursor, because a later one was
\* served first, is refused; what it acknowledges is acknowledged already.)
AcksAreCovered ==
    \A k \in DOMAIN backlog :
        backlog[k].op = "ack" =>
            /\ channel[backlog[k].channel].open
            /\ backlog[k].arg <= channel[backlog[k].channel].delivered

\* Every event after the point where a channel was opened reaches a frontend of
\* that channel in the end.
EverythingShown ==
    \A c \in Channels : \A n \in 1..MaxEvents : (last >= n) ~> (n \in shown[c] \cup 1..origin[c])
=============================================================================
