------------------------------ MODULE Discovery ------------------------------
(***************************************************************************)
(* How a2ad learns where and how to reach its agents                       *)
(* (daemon/src/TaskManager.cpp: constructor, resolveEndpoint,              *)
(* discoverAgent; A2AClient::discover and the binding a call looks up; the *)
(* agents table of Database.cpp).                                          *)
(*                                                                         *)
(* Agents are configured at the root of a host or at a path below it       *)
(* (Interfaces).  A discovery holds state_mutex_ while it asks one address *)
(* after the other, but the bindings it registers meanwhile are read by    *)
(* calls that hold only the mutex of the bindings.  What was discovered is *)
(* good for five minutes, and is kept in the database over a restart.      *)
(*                                                                         *)
(* A card may be malformed: a field of a type discover() does not expect   *)
(* makes it throw, mostly when it reads the security schemes, with the     *)
(* interfaces registered.  (When it throws before that, the card is here   *)
(* one without interfaces.)  The bindings are all such a discovery leaves. *)
(*                                                                         *)
(* Conditional requests are not a case of their own: a 304 says that the   *)
(* cached card is the one the address serves.                              *)
(***************************************************************************)
EXTENDS Interfaces, FiniteSets

CONSTANTS
    Agents,     \* configured agents
    Threads,    \* threads of the daemon that talk to agents
    Ipc,        \* the one of them that serves requests for a discovery
    Cards,      \* cards the addresses may serve
    MaxChanges  \* bound: changes of cards and endpoints, deaths

Mounts == {"home", "prefix"}
NoCard == [found |-> FALSE, required |-> FALSE, malformed |-> FALSE, interfaces |-> <<>>]

ASSUME CardsAssumption ==
    Cards \subseteq [found : {TRUE}, required : BOOLEAN, malformed : BOOLEAN,
                     interfaces : Seq(Interface)]
ASSUME ThreadsAssumption == Ipc \in Threads /\ MaxChanges \in Nat

VARIABLES
    served,     \* the card behind each address: at its well-known path or at itself
    config,     \* the configured endpoint of each agent, read at each start
    saved,      \* the agents table
    up,
    known,      \* agents_
    fresh,      \* discovered_at_ has an entry less than five minutes old
    bindings,   \* bindings_
    users,      \* history: the agents whose cards registered a URL
    halfway,    \* history: the agents with interfaces registered since a discovery was kept
    thread,
    changes

vars == <<served, config, saved, up, known, fresh, bindings, users, halfway, thread, changes>>

\* What is known of an agent: its endpoint, its card and the address it came from.
Knowledge == [endpoint : Mounts, card : Cards \cup {NoCard}, from : Mounts]
Blank(endpoint) == [endpoint |-> endpoint, card |-> NoCard, from |-> endpoint]

Thread == [pc : {"idle", "fetch", "register", "throw", "keep", "call"},
           op : {"call", "discover"}, agent : Agents,
           todo : Seq(Mounts), card : Cards \cup {NoCard}, from : Mounts, rest : Seq(Interface)]
Quiet == [pc |-> "idle"]

TypeOK ==
    /\ served \in [Mounts -> Cards \cup {NoCard}]
    /\ config \in [Agents -> Mounts]
    /\ saved \in [Agents -> Knowledge]
    /\ up \in BOOLEAN
    /\ known \in [Agents -> Knowledge]
    /\ fresh \subseteq Agents
    /\ bindings \in [Urls -> [binding : Bindings, tenant : {"", "t"}]]
    /\ users \in [Urls -> SUBSET Agents]
    /\ halfway \subseteq Agents
    /\ thread \in [Threads -> Thread \cup {Quiet}]
    /\ changes \in 0..MaxChanges

LoadedUnchecked(a, endpoint) == [saved[a] EXCEPT !.endpoint = endpoint]
\* A saved row counts unless the endpoint was changed since.
Loaded(a, endpoint) == IF saved[a].endpoint = endpoint THEN saved[a] ELSE Blank(endpoint)

Init ==
    /\ served \in [Mounts -> Cards \cup {NoCard}]
    /\ config \in [Agents -> Mounts]
    /\ saved = [a \in Agents |-> Blank(config[a])]
    /\ up = FALSE
    /\ known = saved
    /\ fresh = {}
    /\ bindings = Unregistered
    /\ users = [u \in Urls |-> {}]
    /\ halfway = {}
    /\ thread = [th \in Threads |-> Quiet]
    /\ changes = 0

-----------------------------------------------------------------------------
(***************************************************************************)
(* The world: addresses change what they serve, the owner edits the        *)
(* configuration of a stopped daemon, daemons start and die, time passes.  *)
(***************************************************************************)

Changing == changes < MaxChanges /\ changes' = changes + 1

Serve(m) ==
    /\ Changing
    /\ \E card \in Cards \cup {NoCard} : served' = [served EXCEPT ![m] = card]
    /\ UNCHANGED <<config, saved, up, known, fresh, bindings, users, halfway, thread>>

Edit(a) ==
    /\ ~up /\ Changing
    /\ \E m \in Mounts : config' = [config EXCEPT ![a] = m]
    /\ UNCHANGED <<served, saved, up, known, fresh, bindings, users, halfway, thread>>

\* The constructor: what the table says, unless the endpoint was changed.
Boot ==
    /\ ~up /\ up' = TRUE
    /\ known' = [a \in Agents |-> Loaded(a, config[a])]
    /\ UNCHANGED <<served, config, saved, fresh, bindings, users, halfway, thread, changes>>

\* What the process knew is gone, but for the table.
Gone ==
    /\ up' = FALSE /\ fresh' = {} /\ bindings' = Unregistered
    /\ known' = saved
    /\ users' = [u \in Urls |-> {}] /\ halfway' = {}
    /\ thread' = [th \in Threads |-> Quiet]
    /\ UNCHANGED <<served, config, saved>>

Die == up /\ Changing /\ Gone

ExpireFailure(a) ==
    /\ a \in fresh /\ ~known[a].card.found /\ fresh' = fresh \ {a}
    /\ UNCHANGED <<served, config, saved, up, known, bindings, users, halfway, thread, changes>>
\* Five minutes have passed since the last discovery of the agent.
Expire(a) ==
    /\ a \in fresh /\ fresh' = fresh \ {a}
    /\ UNCHANGED <<served, config, saved, up, known, bindings, users, halfway, thread, changes>>

-----------------------------------------------------------------------------
(***************************************************************************)
(* A call or an explicit discovery, thread by thread.                      *)
(***************************************************************************)

\* state_mutex_ is held from the first request of a discovery to its end.
Underway == {"fetch", "register", "throw", "keep"}
Locked == \E th \in Threads : thread[th].pc \in Underway

\* The well-known path of the host comes before that of the endpoint and the endpoint.
Candidates(endpoint) == IF endpoint = "home" THEN <<"home">> ELSE <<"home", "prefix">>

Ready(th) == up /\ thread[th].pc = "idle" /\ ~Locked

Calling(a, card) ==
    [pc |-> "call", op |-> "call", agent |-> a, todo |-> <<>>, card |-> card,
     from |-> config[a], rest |-> <<>>]

\* resolveEndpoint() finds a recent discovery.
Resolve(th, a) ==
    /\ Ready(th) /\ a \in fresh
    /\ thread' = [thread EXCEPT ![th] = Calling(a, known[a].card)]
    /\ UNCHANGED <<served, config, saved, up, known, fresh, bindings, users, halfway, changes>>

\* It finds none, or the owner asks for one.
Begin(th, op, a) ==
    /\ Ready(th) /\ (op = "call" => a \notin fresh)
    /\ thread' = [thread EXCEPT ![th] =
                    [Calling(a, NoCard) EXCEPT !.pc = "fetch", !.op = op, !.todo = Candidates(config[a])]]
    /\ UNCHANGED <<served, config, saved, up, known, fresh, bindings, users, halfway, changes>>

\* Where discover() is when the interfaces in rest are still to be registered.
After(card, rest) ==
    IF rest # <<>> THEN "register" ELSE IF card.malformed THEN "throw" ELSE "keep"

\* The next address answers with a card.
Fetch(th) ==
    LET me == thread[th] IN
    /\ me.pc = "fetch" /\ served[Head(me.todo)].found
    /\ LET card == served[Head(me.todo)] IN
       thread' = [thread EXCEPT ![th] =
                    [me EXCEPT !.pc = After(card, card.interfaces),
                               !.card = card, !.from = Head(me.todo), !.rest = card.interfaces]]
    /\ UNCHANGED <<served, config, saved, up, known, fresh, bindings, users, halfway, changes>>

\* It has none, or cannot be reached.
FetchFails(th) ==
    LET me == thread[th] IN
    /\ me.pc = "fetch"
    /\ thread' = [thread EXCEPT ![th] =
                    [me EXCEPT !.todo = Tail(me.todo),
                               !.pc = IF Len(me.todo) = 1 THEN "keep" ELSE "fetch"]]
    /\ UNCHANGED <<served, config, saved, up, known, fresh, bindings, users, halfway, changes>>

Used(a, ifaces) ==
    [u \in Urls |-> IF \E k \in DOMAIN ifaces : ifaces[k].url = u THEN users[u] \cup {a} ELSE users[u]]

\* discover() registers the interfaces one by one, under the bindings' own mutex.
RegisterNext(th) ==
    LET me == thread[th] IN
    /\ me.pc = "register"
    /\ bindings' = Register(bindings, Head(me.rest))
    /\ users' = Used(me.agent, <<Head(me.rest)>>)
    /\ halfway' = halfway \cup {me.agent}
    /\ thread' = [thread EXCEPT ![th] =
                    [me EXCEPT !.rest = Tail(me.rest), !.pc = After(me.card, Tail(me.rest))]]
    /\ UNCHANGED <<served, config, saved, up, known, fresh, changes>>

\* A malformed card makes discover() throw.  The control plane answers a request
\* of the IPC thread with an error, and what was known stays as it was; on any other
\* thread nobody catches, and the process ends.
Throws(th) ==
    /\ thread[th].pc = "throw"
    /\ IF th = Ipc
       THEN /\ thread' = [thread EXCEPT ![th] = Quiet]
            /\ UNCHANGED <<served, config, saved, up, known, fresh, bindings, users, halfway>>
       ELSE Gone
    /\ UNCHANGED changes

\* discoverAgent() keeps what was found, registers the chosen interface again and
\* writes the table, a write that may be dropped; a call then goes on.
Keep(th) ==
    LET me == thread[th]
        a == me.agent
        found == [endpoint |-> config[a], card |-> me.card, from |-> me.from]
    IN
    /\ me.pc = "keep"
    /\ known' = [known EXCEPT ![a] = found]
    /\ fresh' = fresh \cup {a}
    /\ bindings' = Choose(bindings, me.card, config[a])
    /\ users' = IF Valid(me.card) THEN Used(a, <<EffectiveInterface(me.card, config[a])>>) ELSE users
    /\ halfway' = halfway \ {a}
    /\ saved' \in {saved, [saved EXCEPT ![a] = found]}
    /\ thread' = [thread EXCEPT ![th] = IF me.op = "call" THEN Calling(a, me.card) ELSE Quiet]
    /\ UNCHANGED <<served, config, up, changes>>

\* rpcCall() and streamCall() look the binding up and talk to the agent.
Call(th) ==
    /\ thread[th].pc = "call"
    /\ thread' = [thread EXCEPT ![th] = Quiet]
    /\ UNCHANGED <<served, config, saved, up, known, fresh, bindings, users, halfway, changes>>

-----------------------------------------------------------------------------

Work(th) == Fetch(th) \/ FetchFails(th) \/ RegisterNext(th) \/ Throws(th) \/ Keep(th) \/ Call(th)
Contact(th, a) == Resolve(th, a) \/ Begin(th, "call", a)

Next ==
    \/ \E m \in Mounts : Serve(m)
    \/ \E a \in Agents : Edit(a) \/ Expire(a)
    \/ Boot \/ Die
    \/ \E th \in Threads : Work(th)
    \/ \E th \in Threads, a \in Agents : Contact(th, a)
    \/ \E a \in Agents : Begin(Ipc, "discover", a)

Spec == Init /\ [][Next]_vars

\* The daemon is started, requests to agents end, five minutes pass, the addresses
\* asked for an agent's card are reached sometimes, and each agent is asked for ever.
FairSpec ==
    /\ Spec
    /\ WF_vars(Boot)
    /\ \A th \in Threads : WF_vars(Work(th))
    /\ \A a \in Agents :
          /\ SF_vars(\E th \in Threads : Fetch(th) /\ thread[th].agent = a)
          /\ WF_vars(Expire(a))
          /\ SF_vars(\E th \in Threads : Contact(th, a))

-----------------------------------------------------------------------------
(***************************************************************************)
(* Properties.                                                             *)
(***************************************************************************)

\* A card the daemon keeps for an agent was served by an address that a discovery
\* of the endpoint configured now asks: a restart after the endpoint was edited
\* does not bring back the card of the old one (the constructor's comment: "an
\* endpoint change must invalidate that cache").
NoForeignCards ==
    up => \A a \in Agents :
        /\ known[a].endpoint = config[a]
        /\ \E k \in DOMAIN Candidates(config[a]) : Candidates(config[a])[k] = known[a].from

\* Calls to an agent discovered in this process are made with the binding and
\* tenant of the interface chosen from its card, whatever other interfaces the card
\* lists under the same URL.  Left out are agents with a URL that another agent's
\* card registered too, and those whose last discovery has registered interfaces
\* and not reached its end: one under way, or one a malformed card made throw,
\* after which the bindings are those of one card and the rest of an older one.
BindingsFitCards ==
    up => \A a \in fresh \ halfway :
        LET iface == EffectiveInterface(known[a].card, config[a])
        IN Valid(known[a].card) /\ iface.url # "" /\ users[iface.url] \subseteq {a} =>
              bindings[iface.url] = [binding |-> iface.binding, tenant |-> iface.tenant]

\* No card is kept for ever: an agent that is asked for ever is again and again
\* known by a card its addresses serve now, through edits, restarts, dropped
\* writes and failed requests, unless one of them goes on serving a malformed card.
CardsAreRefreshed ==
    \A a \in Agents :
        []<>(\E k \in DOMAIN Candidates(config[a]) :
                LET card == served[Candidates(config[a])[k]]
                IN known[a].card = card \/ card.malformed)

\* docs/protocol.md at its word: the binding and tenant of the selected interface
\* "are applied to every request", those made while a discovery runs included.
EveryRequestUsesTheInterface ==
    \A th \in Threads : thread[th].pc = "call" /\ Valid(thread[th].card) =>
        LET iface == EffectiveInterface(thread[th].card, config[thread[th].agent])
        IN bindings[iface.url] = [binding |-> iface.binding, tenant |-> iface.tenant]
=============================================================================
