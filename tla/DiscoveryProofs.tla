-------------------------- MODULE DiscoveryProofs --------------------------
(***************************************************************************)
(* Theorems about Discovery: for any number of agents, threads and cards,  *)
(* no card of another endpoint is kept, and the bindings of an agent none  *)
(* of whose discoveries is halfway are those of its card.                  *)
(***************************************************************************)
EXTENDS Discovery, NumberLemmas, SequenceTheorems, TLAPS

-----------------------------------------------------------------------------
(***************************************************************************)
(* The invariant.  One discovery at a time asks only addresses of the      *)
(* endpoint configured now; an agent whose binding is not that of its card *)
(* has a discovery halfway, or shares its URL.                             *)
(***************************************************************************)

Addresses(endpoint) == {Candidates(endpoint)[k] : k \in DOMAIN Candidates(endpoint)}

Discovering(th) == thread[th].pc \in Underway

DownInv == ~up => fresh = {} /\ \A th \in Threads : thread[th] = Quiet

OneDiscovery == \A t1, t2 \in Threads : Discovering(t1) /\ Discovering(t2) => t1 = t2

Asks(me) ==
    /\ \A k \in DOMAIN me.todo : me.todo[k] \in Addresses(config[me.agent])
    /\ me.from \in Addresses(config[me.agent])
    /\ me.pc = "fetch" => me.todo # <<>>
    /\ me.pc = "register" => me.rest # <<>>

AskingInv == \A th \in Threads : Discovering(th) => Asks(thread[th])

KnownInv ==
    /\ \A a \in Agents : saved[a].from \in Addresses(saved[a].endpoint)
    /\ up => \A a \in Agents : /\ known[a].endpoint = config[a]
                               /\ known[a].from \in Addresses(config[a])

Chosen(a) == EffectiveInterface(known[a].card, config[a])
Own(a) == Valid(known[a].card) /\ Chosen(a).url # "" /\ users[Chosen(a).url] \subseteq {a}
Fits(a) == bindings[Chosen(a).url] = [binding |-> Chosen(a).binding, tenant |-> Chosen(a).tenant]

FitInv == \A a \in fresh \ halfway : Own(a) => Fits(a)

DiscoveryInv == TypeOK /\ DownInv /\ OneDiscovery /\ AskingInv /\ KnownInv /\ FitInv

-----------------------------------------------------------------------------
(***************************************************************************)
(* Cards and interfaces.                                                   *)
(***************************************************************************)

Binding == [binding : Bindings, tenant : {"", "t"}]

LEMMA CardsHaveInterfaces ==
  ASSUME NEW card \in Cards \cup {NoCard}
  PROVE  card.interfaces \in Seq(Interface)
<1>1. <<>> \in Seq(Interface)
  OBVIOUS
<1>2. CASE card = NoCard
  BY <1>1, <1>2 DEF NoCard
<1>3. CASE card \in Cards
  <2>1. card \in [found : {TRUE}, required : BOOLEAN, malformed : BOOLEAN, interfaces : Seq(Interface)]
    BY <1>3, CardsAssumption
  <2>2. QED
    BY <2>1
<1>4. QED
  BY <1>2, <1>3

\* An interface is always chosen: one of the card, or the configured endpoint.
LEMMA ChoiceIsAnInterface ==
  ASSUME NEW card \in Cards \cup {NoCard}, NEW endpoint \in Mounts
  PROVE  EffectiveInterface(card, endpoint) \in Interface
<1> DEFINE ifaces == card.interfaces
           usable == {k \in DOMAIN ifaces : Supported(ifaces[k])}
           least == CHOOSE k \in usable : \A j \in usable : k <= j
<1>1. ifaces \in Seq(Interface)
  BY CardsHaveInterfaces
<1> HIDE DEF ifaces
<1>2. DOMAIN ifaces \subseteq Nat /\ \A k \in DOMAIN ifaces : ifaces[k] \in Interface
  BY <1>1
<1>3. endpoint \in Urls
  BY DEF Mounts, Urls
<1>4. [url |-> endpoint, binding |-> "JSONRPC", v1 |-> TRUE, tenant |-> ""] \in Interface
  BY <1>3 DEF Interface, Bindings
<1>5. usable # {} => ifaces[least] \in Interface
  <2>1. usable \in SUBSET Nat
    BY <1>2
  <2> HIDE DEF usable
  <2>2. usable # {} => \E k \in usable : \A j \in usable : k <= j
    BY <2>1, LeastNatural, Zenon
  <2>3. usable # {} => least \in usable
    BY <2>2, Zenon
  <2>4. usable \subseteq DOMAIN ifaces
    BY DEF usable
  <2>5. QED
    BY <1>2, <2>3, <2>4
<1>6. usable # {} => [ifaces[least] EXCEPT !.url = endpoint] \in Interface
  BY <1>3, <1>5 DEF Interface
<1>7. EffectiveInterface(card, endpoint) =
        IF usable = {} THEN [url |-> endpoint, binding |-> "JSONRPC", v1 |-> TRUE, tenant |-> ""]
        ELSE IF ifaces[least].url = "local" THEN [ifaces[least] EXCEPT !.url = endpoint]
        ELSE ifaces[least]
  BY DEF EffectiveInterface, ifaces, usable, least
<1> HIDE DEF usable, least
<1>8. QED
  BY <1>4, <1>5, <1>6, <1>7

LEMMA RegisteringIsTyped ==
  ASSUME NEW old \in [Urls -> Binding], NEW iface \in Interface
  PROVE  /\ Register(old, iface) \in [Urls -> Binding]
         /\ iface.url # "" => iface.url \in Urls /\
              Register(old, iface)[iface.url] = [binding |-> iface.binding, tenant |-> iface.tenant]
         /\ \A u \in Urls \ {iface.url} : Register(old, iface)[u] = old[u]
  BY DEF Register, Interface, Binding

LEMMA UsesAreTyped ==
  ASSUME users \in [Urls -> SUBSET Agents], NEW a \in Agents, NEW iface
  PROVE  /\ Used(a, <<iface>>) \in [Urls -> SUBSET Agents]
         /\ \A u \in Urls : users[u] \subseteq Used(a, <<iface>>)[u]
         /\ iface.url \in Urls => a \in Used(a, <<iface>>)[iface.url]
<1>1. Used(a, <<iface>>) = [u \in Urls |-> IF iface.url = u THEN users[u] \cup {a} ELSE users[u]]
  <2>1. ASSUME NEW u
        PROVE  (\E k \in DOMAIN <<iface>> : <<iface>>[k].url = u) <=> iface.url = u
    BY DOMAIN <<iface>> = {1}
  <2>2. QED
    BY <2>1 DEF Used
<1>2. QED
  BY <1>1

LEMMA TailOfSeq ==
  ASSUME NEW S, NEW s \in Seq(S), s # <<>>
  PROVE  /\ Tail(s) \in Seq(S)
         /\ \A k \in DOMAIN Tail(s) : k + 1 \in DOMAIN s /\ Tail(s)[k] = s[k + 1]
         /\ Len(s) # 1 => Tail(s) # <<>>
<1>1. Tail(s) \in Seq(S) /\ Len(Tail(s)) = Len(s) - 1 /\ Len(s) \in Nat
  BY LenProperties, HeadTailProperties
<1>2. \A k \in 1..Len(Tail(s)) : Tail(s)[k] = s[k + 1]
  BY HeadTailProperties
<1>3. DOMAIN s = 1..Len(s) /\ DOMAIN Tail(s) = 1..Len(Tail(s))
  BY <1>1
<1>4. \A k \in DOMAIN Tail(s) : k + 1 \in DOMAIN s
  BY <1>1, <1>3
<1>5. Tail(s) = <<>> => Len(s) = 1
  <2>1. Len(<<>>) = 0
    OBVIOUS
  <2>2. Tail(s) = <<>> => Len(Tail(s)) = 0
    BY <2>1, Zenon
  <2> DEFINE n == Len(s)
             m == Len(Tail(s))
  <2>3. m = n - 1 /\ n \in Nat
    BY <1>1
  <2> HIDE DEF n, m
  <2>4. m = 0 => n = 1
    BY <2>3
  <2>5. QED
    BY <2>2, <2>4, Zenon DEF n, m
<1>6. QED
  BY <1>1, <1>2, <1>3, <1>4, <1>5

LEMMA AddressesOfEndpoint ==
  ASSUME NEW endpoint \in Mounts
  PROVE  /\ endpoint \in Addresses(endpoint) /\ Addresses(endpoint) \subseteq Mounts
         /\ Candidates(endpoint) \in Seq(Mounts) /\ Candidates(endpoint) # <<>>
<1>1. CASE endpoint = "home"
  <2>1. Candidates(endpoint) = <<"home">>
    BY <1>1 DEF Candidates
  <2>2. DOMAIN <<"home">> = {1} /\ <<"home">>[1] = "home" /\ <<"home">> # <<>>
    OBVIOUS
  <2>3. Addresses(endpoint) = {"home"}
    BY <2>1, <2>2 DEF Addresses
  <2>4. <<"home">> \in Seq(Mounts)
    BY DEF Mounts
  <2>5. QED
    BY <1>1, <2>1, <2>2, <2>3, <2>4 DEF Mounts
<1>2. CASE endpoint = "prefix"
  <2>1. Candidates(endpoint) = <<"home", "prefix">>
    BY <1>2 DEF Candidates
  <2>2. <<"home", "prefix">>[1] = "home" /\ <<"home", "prefix">>[2] = "prefix" /\ DOMAIN <<"home", "prefix">> = {1, 2}
    OBVIOUS
  <2>3. <<"home", "prefix">> \in Seq(Mounts)
    BY DEF Mounts
  <2>4. Addresses(endpoint) = {"home", "prefix"}
    BY <2>1, <2>2 DEF Addresses
  <2>5. <<"home", "prefix">> # <<>>
    OBVIOUS
  <2>6. QED
    BY <1>2, <2>1, <2>3, <2>4, <2>5 DEF Mounts
<1>3. QED
  BY <1>1, <1>2 DEF Mounts

-----------------------------------------------------------------------------
(***************************************************************************)
(* The steps.                                                              *)
(***************************************************************************)

LEMMA WorkersAreThreads ==
  ASSUME TypeOK, NEW th \in Threads, thread[th].pc # "idle"
  PROVE  thread[th] \in Thread
<1>1. thread[th] \in Thread \cup {Quiet}
  BY DEF TypeOK
<1>2. Quiet.pc = "idle"
  BY DEF Quiet
<1>3. QED
  BY <1>1, <1>2

\* A step of one thread that changes nothing else: if it goes on with a discovery,
\* it is the only one, and it asks addresses of the endpoint configured now.
LEMMA ThreadStep ==
  ASSUME DiscoveryInv, up, NEW th \in Threads, NEW new \in Thread \cup {Quiet},
         thread' = [thread EXCEPT ![th] = new],
         UNCHANGED <<served, config, saved, up, known, fresh, bindings, users, halfway, changes>>,
         new.pc \in Underway => Asks(new) /\ \A t \in Threads \ {th} : ~Discovering(t)
  PROVE  DiscoveryInv'
<1>1. thread \in [Threads -> Thread \cup {Quiet}]
  BY DEF DiscoveryInv, TypeOK
<1>2. thread'[th] = new /\ \A t \in Threads \ {th} : thread'[t] = thread[t]
  BY <1>1
<1>3. TypeOK'
  BY <1>1 DEF DiscoveryInv, TypeOK
<1>4. DownInv' /\ KnownInv'
  BY DEF DiscoveryInv, DownInv, KnownInv
<1>5. OneDiscovery'
  BY <1>2 DEF DiscoveryInv, OneDiscovery, Discovering
<1>6. AskingInv'
  BY <1>2 DEF DiscoveryInv, AskingInv, Discovering, Asks
<1>7. FitInv'
  BY DEF DiscoveryInv, FitInv, Own, Fits, Chosen
<1>8. QED
  BY <1>3, <1>4, <1>5, <1>6, <1>7 DEF DiscoveryInv

\* The end of the process, whatever ends it.
LEMMA GoneStep ==
  ASSUME DiscoveryInv, Gone, changes' \in 0..MaxChanges
  PROVE  DiscoveryInv'
<1>1. /\ up' = FALSE /\ fresh' = {} /\ bindings' = Unregistered /\ known' = saved
      /\ users' = [u \in Urls |-> {}] /\ halfway' = {} /\ thread' = [th \in Threads |-> Quiet]
      /\ UNCHANGED <<served, config, saved>>
  BY DEF Gone
<1>2. bindings' \in [Urls -> [binding : Bindings, tenant : {"", "t"}]]
  BY <1>1 DEF Unregistered, Default, Bindings
<1>3. up' \in BOOLEAN
  BY <1>1
<1>4. TypeOK'
  BY <1>1, <1>2, <1>3 DEF DiscoveryInv, TypeOK
<1>5. (DownInv /\ OneDiscovery /\ AskingInv /\ KnownInv /\ FitInv)'
  BY <1>1 DEF DiscoveryInv, DownInv, OneDiscovery, AskingInv, KnownInv, FitInv, Discovering, Quiet, Underway
<1>6. QED
  BY <1>4, <1>5 DEF DiscoveryInv

LEMMA WorldStep ==
  ASSUME DiscoveryInv,
         (\E m \in Mounts : Serve(m)) \/ (\E a \in Agents : Edit(a) \/ Expire(a)) \/ Boot \/ Die
  PROVE  DiscoveryInv'
<1>0. changes \in 0..MaxChanges /\ MaxChanges \in Nat
  BY ThreadsAssumption DEF DiscoveryInv, TypeOK
<1>1. CASE \E m \in Mounts : Serve(m)
  <2>1. PICK m \in Mounts, card \in Cards \cup {NoCard} :
          /\ changes < MaxChanges /\ changes' = changes + 1
          /\ served' = [served EXCEPT ![m] = card]
          /\ UNCHANGED <<config, saved, up, known, fresh, bindings, users, halfway, thread>>
    BY <1>1 DEF Serve, Changing
  <2>2. changes' \in 0..MaxChanges
    BY <1>0, <2>1
  <2>3. TypeOK'
    BY <2>1, <2>2 DEF DiscoveryInv, TypeOK
  <2>4. (DownInv /\ OneDiscovery /\ AskingInv /\ KnownInv /\ FitInv)'
    BY <2>1 DEF DiscoveryInv, DownInv, OneDiscovery, AskingInv, KnownInv, FitInv, Discovering, Asks,
       Own, Fits, Chosen
  <2>5. QED
    BY <2>3, <2>4 DEF DiscoveryInv
<1>2. CASE \E a \in Agents : Edit(a)
  <2>1. PICK a \in Agents, m \in Mounts :
          /\ ~up /\ changes < MaxChanges /\ changes' = changes + 1
          /\ config' = [config EXCEPT ![a] = m]
          /\ UNCHANGED <<served, saved, up, known, fresh, bindings, users, halfway, thread>>
    BY <1>2 DEF Edit, Changing
  <2>2. changes' \in 0..MaxChanges
    BY <1>0, <2>1
  <2>3. TypeOK'
    BY <2>1, <2>2 DEF DiscoveryInv, TypeOK
  <2>4. fresh = {} /\ \A th \in Threads : ~Discovering(th)
    BY <2>1 DEF DiscoveryInv, DownInv, Discovering, Quiet, Underway
  <2>5. (DownInv /\ OneDiscovery /\ AskingInv /\ KnownInv /\ FitInv)'
    BY <2>1, <2>4 DEF DiscoveryInv, DownInv, OneDiscovery, AskingInv, KnownInv, FitInv, Discovering
  <2>6. QED
    BY <2>3, <2>5 DEF DiscoveryInv
<1>3. CASE \E a \in Agents : Expire(a)
  <2>1. /\ fresh' \subseteq fresh
        /\ UNCHANGED <<served, config, saved, up, known, bindings, users, halfway, thread, changes>>
    BY <1>3 DEF Expire
  <2>2. TypeOK'
    BY <2>1 DEF DiscoveryInv, TypeOK
  <2>3. (DownInv /\ OneDiscovery /\ AskingInv /\ KnownInv)'
    BY <2>1 DEF DiscoveryInv, DownInv, OneDiscovery, AskingInv, KnownInv, Discovering, Asks
  <2>4. FitInv'
    BY <2>1 DEF DiscoveryInv, FitInv, Own, Fits, Chosen, Discovering
  <2>5. QED
    BY <2>2, <2>3, <2>4 DEF DiscoveryInv
<1>4. CASE Boot
  <2>1. /\ ~up /\ up' = TRUE /\ known' = [a \in Agents |-> Loaded(a, config[a])]
        /\ UNCHANGED <<served, config, saved, fresh, bindings, users, halfway, thread, changes>>
    BY <1>4 DEF Boot
  <2>2. \A a \in Agents : saved[a] \in Knowledge /\ config[a] \in Mounts
    BY DEF DiscoveryInv, TypeOK
  <2>3. \A a \in Agents : /\ Loaded(a, config[a]) \in Knowledge
                          /\ Loaded(a, config[a]).endpoint = config[a]
                          /\ Loaded(a, config[a]).from \in Addresses(config[a])
    BY <2>2, AddressesOfEndpoint DEF Loaded, Blank, Knowledge, DiscoveryInv, KnownInv
  <2>4. known' \in [Agents -> Knowledge]
    BY <2>1, <2>3
  <2>5. TypeOK'
    <3>1. up' \in BOOLEAN
      BY <2>1
    <3>2. QED
      BY <2>1, <2>4, <3>1 DEF DiscoveryInv, TypeOK
  <2>6. fresh = {} /\ \A th \in Threads : ~Discovering(th)
    BY <2>1 DEF DiscoveryInv, DownInv, Discovering, Quiet, Underway
  <2>7. (DownInv /\ OneDiscovery /\ AskingInv /\ FitInv)'
    BY <2>1, <2>6 DEF DownInv, OneDiscovery, AskingInv, FitInv, Discovering
  <2>8. KnownInv'
    BY <2>1, <2>3 DEF DiscoveryInv, KnownInv
  <2>9. QED
    BY <2>5, <2>7, <2>8 DEF DiscoveryInv
<1>5. CASE Die
  <2>1. changes' \in 0..MaxChanges
    BY <1>0, <1>5 DEF Die, Changing
  <2>2. QED
    BY <1>5, <2>1, GoneStep DEF Die
<1>6. QED
  BY <1>1, <1>2, <1>3, <1>4, <1>5

LEMMA CallingIsTyped ==
  ASSUME DiscoveryInv, NEW a \in Agents, NEW card \in Cards \cup {NoCard}
  PROVE  Calling(a, card) \in Thread
<1>1. config[a] \in Mounts
  BY DEF DiscoveryInv, TypeOK
<1>2. <<>> \in Seq(Mounts) /\ <<>> \in Seq(Interface)
  OBVIOUS
<1>3. QED
  BY <1>1, <1>2 DEF Calling, Thread

LEMMA ContactStep ==
  ASSUME DiscoveryInv, NEW th \in Threads, NEW a \in Agents, NEW op \in {"call", "discover"},
         Resolve(th, a) \/ Begin(th, op, a)
  PROVE  DiscoveryInv'
<1>1. up /\ thread[th].pc = "idle" /\ \A t \in Threads : ~Discovering(t)
  BY DEF Resolve, Begin, Ready, Locked, Discovering, Underway
<1>2. CASE Resolve(th, a)
  <2> DEFINE new == Calling(a, known[a].card)
  <2>1. known[a].card \in Cards \cup {NoCard}
    BY DEF DiscoveryInv, TypeOK, Knowledge
  <2>2. new \in Thread
    BY <2>1, CallingIsTyped
  <2>3. new.pc = "call"
    BY DEF Calling
  <2>4. /\ thread' = [thread EXCEPT ![th] = new]
        /\ UNCHANGED <<served, config, saved, up, known, fresh, bindings, users, halfway, changes>>
    BY <1>2 DEF Resolve
  <2> HIDE DEF new
  <2>5. new.pc \notin Underway /\ new \in Thread \cup {Quiet}
    BY <2>2, <2>3 DEF Underway
  <2>6. QED
    BY <1>1, <2>4, <2>5, ThreadStep
<1>3. CASE Begin(th, op, a)
  <2> DEFINE new == [Calling(a, NoCard) EXCEPT !.pc = "fetch", !.op = op, !.todo = Candidates(config[a])]
  <2>1. config[a] \in Mounts
    BY DEF DiscoveryInv, TypeOK
  <2>2. Calling(a, NoCard) \in Thread
    BY CallingIsTyped
  <2>3. new \in Thread
    BY <2>1, <2>2, AddressesOfEndpoint DEF Thread
  <2>4. new.pc = "fetch" /\ new.agent = a /\ new.todo = Candidates(config[a]) /\ new.from = config[a]
    BY DEF Calling
  <2>5. /\ thread' = [thread EXCEPT ![th] = new]
        /\ UNCHANGED <<served, config, saved, up, known, fresh, bindings, users, halfway, changes>>
    BY <1>3 DEF Begin
  <2> HIDE DEF new
  <2>6. Asks(new)
    BY <2>1, <2>4, AddressesOfEndpoint DEF Asks, Addresses
  <2>7. new \in Thread \cup {Quiet}
    BY <2>3
  <2>8. QED
    BY <1>1, <2>5, <2>6, <2>7, ThreadStep
<1>4. QED
  BY <1>2, <1>3

\* The requests for the card, one address after the other.
LEMMA FetchStep ==
  ASSUME DiscoveryInv, NEW th \in Threads, Fetch(th) \/ FetchFails(th)
  PROVE  DiscoveryInv'
<1> DEFINE me == thread[th]
<1>1. me.pc = "fetch" /\ Discovering(th)
  BY DEF Fetch, FetchFails, Discovering, Underway
<1>2. me \in Thread
  BY <1>1, WorkersAreThreads DEF DiscoveryInv
<1>3. Asks(me) /\ \A t \in Threads \ {th} : ~Discovering(t)
  BY <1>1 DEF DiscoveryInv, AskingInv, OneDiscovery
<1>4. up
  BY <1>1 DEF DiscoveryInv, DownInv, Quiet
<1>5. me.todo \in Seq(Mounts) /\ me.todo # <<>>
  BY <1>1, <1>2, <1>3 DEF Asks, Thread
<1>6. Head(me.todo) \in Mounts /\ Head(me.todo) \in Addresses(config[me.agent])
  <2>1. Head(me.todo) = me.todo[1] /\ 1 \in DOMAIN me.todo /\ me.todo[1] \in Mounts
    BY <1>5
  <2>2. QED
    BY <1>3, <2>1 DEF Asks
<1>7. CASE Fetch(th)
  <2> DEFINE card == served[Head(me.todo)]
             new == [me EXCEPT !.pc = After(card, card.interfaces),
                               !.card = card, !.from = Head(me.todo), !.rest = card.interfaces]
  <2>1. card \in Cards \cup {NoCard}
    BY <1>6 DEF DiscoveryInv, TypeOK
  <2>2. card.interfaces \in Seq(Interface)
    BY <2>1, CardsHaveInterfaces
  <2>3. /\ thread' = [thread EXCEPT ![th] = new]
        /\ UNCHANGED <<served, config, saved, up, known, fresh, bindings, users, halfway, changes>>
    BY <1>7 DEF Fetch
  <2> HIDE DEF card
  <2>4. new \in Thread
    BY <1>2, <1>6, <2>1, <2>2 DEF Thread, After
  <2>5. /\ new.pc = After(card, card.interfaces)
        /\ new.agent = me.agent /\ new.todo = me.todo
        /\ new.from = Head(me.todo) /\ new.rest = card.interfaces
    BY <1>2 DEF Thread
  <2> HIDE DEF new
  <2>6. Asks(new)
    BY <1>3, <1>6, <2>5 DEF Asks, After
  <2>7. new.pc \in Underway /\ new \in Thread \cup {Quiet}
    BY <2>4, <2>5 DEF Underway, After
  <2>8. QED
    BY <1>3, <1>4, <2>3, <2>5, <2>6, <2>7, ThreadStep
<1>8. CASE FetchFails(th)
  <2> DEFINE new == [me EXCEPT !.todo = Tail(me.todo),
                               !.pc = IF Len(me.todo) = 1 THEN "keep" ELSE "fetch"]
  <2>1. /\ thread' = [thread EXCEPT ![th] = new]
        /\ UNCHANGED <<served, config, saved, up, known, fresh, bindings, users, halfway, changes>>
    BY <1>8 DEF FetchFails
  <2>2. /\ Tail(me.todo) \in Seq(Mounts)
        /\ \A k \in DOMAIN Tail(me.todo) : k + 1 \in DOMAIN me.todo /\ Tail(me.todo)[k] = me.todo[k + 1]
        /\ Len(me.todo) # 1 => Tail(me.todo) # <<>>
    BY <1>5, TailOfSeq
  <2>3. new \in Thread
    BY <1>2, <2>2 DEF Thread
  <2>4. /\ new.pc = IF Len(me.todo) = 1 THEN "keep" ELSE "fetch"
        /\ new.agent = me.agent /\ new.todo = Tail(me.todo) /\ new.from = me.from
    BY <1>2 DEF Thread
  <2> HIDE DEF new
  <2>5. Asks(new)
    BY <1>3, <2>2, <2>4 DEF Asks
  <2>6. new.pc \in Underway /\ new \in Thread \cup {Quiet}
    BY <2>3, <2>4 DEF Underway
  <2>7. QED
    BY <1>3, <1>4, <2>1, <2>4, <2>5, <2>6, ThreadStep
<1>9. QED
  BY <1>7, <1>8

LEMMA CallStep ==
  ASSUME DiscoveryInv, NEW th \in Threads, Call(th)
  PROVE  DiscoveryInv'
<1>1. thread[th].pc = "call"
  BY DEF Call
<1>2. up /\ ~Discovering(th)
  BY <1>1 DEF DiscoveryInv, DownInv, Quiet, Discovering, Underway
<1>3. Quiet.pc \notin Underway /\ Quiet \in Thread \cup {Quiet}
  BY DEF Quiet, Underway
<1>4. /\ thread' = [thread EXCEPT ![th] = Quiet]
      /\ UNCHANGED <<served, config, saved, up, known, fresh, bindings, users, halfway, changes>>
  BY DEF Call
<1>5. QED
  BY <1>2, <1>3, <1>4, ThreadStep

\* A malformed card on the IPC thread, or on another.
LEMMA ThrowStep ==
  ASSUME DiscoveryInv, NEW th \in Threads, Throws(th)
  PROVE  DiscoveryInv'
<1>1. thread[th].pc = "throw" /\ UNCHANGED changes
  BY DEF Throws
<1>2. CASE th = Ipc
  <2>1. up
    BY <1>1 DEF DiscoveryInv, DownInv, Quiet
  <2>2. Quiet.pc \notin Underway /\ Quiet \in Thread \cup {Quiet}
    BY DEF Quiet, Underway
  <2>3. /\ thread' = [thread EXCEPT ![th] = Quiet]
        /\ UNCHANGED <<served, config, saved, up, known, fresh, bindings, users, halfway, changes>>
    BY <1>2 DEF Throws
  <2>4. QED
    BY <2>1, <2>2, <2>3, ThreadStep
<1>3. CASE th # Ipc
  <2>1. changes' \in 0..MaxChanges
    BY <1>1 DEF DiscoveryInv, TypeOK
  <2>2. QED
    BY <1>3, <2>1, GoneStep DEF Throws
<1>4. QED
  BY <1>2, <1>3

\* Another agent's discovery takes a URL from an agent only together with its claim.
LEMMA OthersStillFit ==
  ASSUME DiscoveryInv, NEW iface \in Interface,
         NEW b \in Agents, NEW a \in fresh \ halfway, a # b,
         bindings' = Register(bindings, iface), users' = Used(b, <<iface>>),
         config' = config, known'[a] = known[a], Own(a)'
  PROVE  Fits(a)'
<1>1. a \in Agents /\ known[a].card \in Cards \cup {NoCard} /\ config[a] \in Mounts
  BY DEF DiscoveryInv, TypeOK, Knowledge
<1>2. Chosen(a) \in Interface /\ Chosen(a)' = Chosen(a)
  BY <1>1, ChoiceIsAnInterface DEF Chosen
<1>3. Chosen(a).url \in Urls
  BY <1>2 DEF Own, Interface
<1>4. users \in [Urls -> SUBSET Agents] /\ bindings \in [Urls -> Binding]
  BY DEF DiscoveryInv, TypeOK, Binding
<1>5. users[Chosen(a).url] \subseteq users'[Chosen(a).url]
  BY <1>3, <1>4, UsesAreTyped
<1>6. Own(a)
  BY <1>2, <1>5 DEF Own
<1>7. iface.url # Chosen(a).url
  <2>1. iface.url = Chosen(a).url => b \in users'[Chosen(a).url]
    BY <1>3, <1>4, UsesAreTyped
  <2>2. users'[Chosen(a).url] \subseteq {a}
    BY <1>2 DEF Own
  <2>3. QED
    BY <2>1, <2>2
<1>8. Fits(a)
  BY <1>6 DEF DiscoveryInv, FitInv
<1>9. bindings'[Chosen(a).url] = bindings[Chosen(a).url]
  <2>1. \A u \in Urls \ {iface.url} : Register(bindings, iface)[u] = bindings[u]
    BY <1>4, RegisteringIsTyped
  <2>2. QED
    BY <1>3, <1>7, <2>1
<1>10. QED
  BY <1>2, <1>8, <1>9 DEF Fits

LEMMA RegisterStep ==
  ASSUME DiscoveryInv, NEW th \in Threads, RegisterNext(th)
  PROVE  DiscoveryInv'
<1> DEFINE me == thread[th]
           iface == Head(me.rest)
           new == [me EXCEPT !.rest = Tail(me.rest), !.pc = After(me.card, Tail(me.rest))]
<1>1. me.pc = "register" /\ Discovering(th)
  BY DEF RegisterNext, Discovering, Underway
<1>2. me \in Thread
  BY <1>1, WorkersAreThreads DEF DiscoveryInv
<1>3. Asks(me) /\ \A t \in Threads \ {th} : ~Discovering(t)
  BY <1>1 DEF DiscoveryInv, AskingInv, OneDiscovery
<1>4. up /\ me.agent \in Agents
  BY <1>1, <1>2 DEF DiscoveryInv, DownInv, Quiet, Thread
<1>5. me.rest \in Seq(Interface) /\ me.rest # <<>>
  BY <1>1, <1>2, <1>3 DEF Asks, Thread
<1>6. iface \in Interface /\ Tail(me.rest) \in Seq(Interface)
  BY <1>5
<1>8. /\ bindings' = Register(bindings, iface) /\ users' = Used(me.agent, <<iface>>)
      /\ halfway' = halfway \cup {me.agent}
      /\ thread' = [thread EXCEPT ![th] = new]
      /\ UNCHANGED <<served, config, saved, up, known, fresh, changes>>
  BY DEF RegisterNext
<1>9. users \in [Urls -> SUBSET Agents] /\ bindings \in [Urls -> Binding]
      /\ thread \in [Threads -> Thread \cup {Quiet}]
  BY DEF DiscoveryInv, TypeOK, Binding
<1>10. new \in Thread
  BY <1>2, <1>6 DEF Thread, After
<1>11. /\ new.pc = After(me.card, Tail(me.rest))
       /\ new.agent = me.agent /\ new.todo = me.todo /\ new.from = me.from /\ new.rest = Tail(me.rest)
  BY <1>2 DEF Thread
<1> HIDE DEF new, iface
<1>12. Asks(new)
  BY <1>3, <1>11 DEF Asks, After
<1>13. new.pc \in Underway
  BY <1>11 DEF Underway, After
<1>14. thread'[th] = new /\ \A t \in Threads \ {th} : thread'[t] = thread[t]
  BY <1>8, <1>9
<1>15. TypeOK'
  <2>1. users' \in [Urls -> SUBSET Agents]
    BY <1>4, <1>8, <1>9, UsesAreTyped
  <2>2. bindings' \in [Urls -> Binding]
    BY <1>6, <1>8, <1>9, RegisteringIsTyped
  <2>3. halfway' \subseteq Agents
    BY <1>4, <1>8 DEF DiscoveryInv, TypeOK
  <2>4. QED
    BY <1>8, <1>9, <1>10, <2>1, <2>2, <2>3 DEF DiscoveryInv, TypeOK, Binding
<1>16. DownInv' /\ KnownInv'
  BY <1>4, <1>8 DEF DiscoveryInv, DownInv, KnownInv
<1>17. OneDiscovery'
  BY <1>3, <1>14 DEF OneDiscovery, Discovering
<1>18. AskingInv'
  <2>1. \A t \in Threads : Discovering(t)' => t = th
    BY <1>3, <1>14 DEF Discovering
  <2>2. Asks(thread[th])'
    BY <1>8, <1>12, <1>14 DEF Asks
  <2>3. QED
    BY <2>1, <2>2 DEF AskingInv
<1>19. FitInv'
  <2>1. ASSUME NEW a \in fresh \ halfway, a # me.agent, Own(a)'
        PROVE  Fits(a)'
    BY <1>4, <1>6, <1>8, <2>1, OthersStillFit
  <2>2. QED
    BY <1>8, <2>1 DEF FitInv
<1>20. QED
  BY <1>15, <1>16, <1>17, <1>18, <1>19 DEF DiscoveryInv

\* The end of a discovery.
LEMMA KeepStep ==
  ASSUME DiscoveryInv, NEW th \in Threads, Keep(th)
  PROVE  DiscoveryInv'
<1> DEFINE me == thread[th]
           a == me.agent
           found == [endpoint |-> config[a], card |-> me.card, from |-> me.from]
           new == IF me.op = "call" THEN Calling(a, me.card) ELSE Quiet
           iface == EffectiveInterface(me.card, config[a])
<1>1. me.pc = "keep" /\ Discovering(th)
  BY DEF Keep, Discovering, Underway
<1>2. me \in Thread
  BY <1>1, WorkersAreThreads DEF DiscoveryInv
<1>3. Asks(me) /\ \A t \in Threads \ {th} : ~Discovering(t)
  BY <1>1 DEF DiscoveryInv, AskingInv, OneDiscovery
<1>4. up /\ a \in Agents /\ config[a] \in Mounts /\ me.card \in Cards \cup {NoCard} /\ me.from \in Mounts
  <2>1. up
    BY <1>1 DEF DiscoveryInv, DownInv, Quiet
  <2>2. a \in Agents /\ me.card \in Cards \cup {NoCard} /\ me.from \in Mounts
    BY <1>2 DEF Thread
  <2>3. config[a] \in Mounts
    BY <2>2 DEF DiscoveryInv, TypeOK
  <2>4. QED
    BY <2>1, <2>2, <2>3
<1>5. /\ known' = [known EXCEPT ![a] = found] /\ fresh' = fresh \cup {a}
      /\ bindings' = IF Valid(me.card) THEN Register(bindings, iface) ELSE bindings
      /\ users' = IF Valid(me.card) THEN Used(a, <<iface>>) ELSE users
      /\ halfway' = halfway \ {a}
      /\ saved' = saved \/ saved' = [saved EXCEPT ![a] = found]
      /\ thread' = [thread EXCEPT ![th] = new]
      /\ UNCHANGED <<served, config, up, changes>>
  BY DEF Keep, Choose
<1>6. iface \in Interface
  BY <1>4, ChoiceIsAnInterface
<1>7. found \in Knowledge /\ found.endpoint = config[a] /\ found.card = me.card /\ found.from = me.from
  BY <1>4 DEF Knowledge
<1>8. new \in Thread \cup {Quiet} /\ new.pc \notin Underway
  BY <1>4, CallingIsTyped DEF Calling, Quiet, Underway
<1>9. /\ users \in [Urls -> SUBSET Agents] /\ bindings \in [Urls -> Binding]
      /\ thread \in [Threads -> Thread \cup {Quiet}]
      /\ known \in [Agents -> Knowledge] /\ saved \in [Agents -> Knowledge] /\ fresh \subseteq Agents
  BY DEF DiscoveryInv, TypeOK, Binding
<1>10. me.from \in Addresses(config[a])
  BY <1>3 DEF Asks
<1> HIDE DEF found, new
<1>11. /\ thread'[th] = new /\ \A t \in Threads \ {th} : thread'[t] = thread[t]
       /\ known'[a] = found /\ \A b \in Agents \ {a} : known'[b] = known[b]
  BY <1>4, <1>5, <1>9
<1>12. TypeOK'
  <2>1. users' \in [Urls -> SUBSET Agents]
    BY <1>4, <1>5, <1>9, UsesAreTyped
  <2>2. bindings' \in [Urls -> Binding]
    BY <1>5, <1>6, <1>9, RegisteringIsTyped
  <2>3. known' \in [Agents -> Knowledge] /\ saved' \in [Agents -> Knowledge] /\ fresh' \subseteq Agents
    BY <1>4, <1>5, <1>7, <1>9
  <2>4. thread' \in [Threads -> Thread \cup {Quiet}]
    BY <1>5, <1>8, <1>9
  <2>5. QED
    BY <1>5, <2>1, <2>2, <2>3, <2>4 DEF DiscoveryInv, TypeOK, Binding
<1>13. \A t \in Threads : ~Discovering(t)'
  BY <1>3, <1>8, <1>11 DEF Discovering
<1>14. DownInv' /\ OneDiscovery' /\ AskingInv'
  BY <1>4, <1>5, <1>13 DEF DownInv, OneDiscovery, AskingInv, Discovering
<1>15. KnownInv'
  <2>1. \A b \in Agents : saved'[b].from \in Addresses(saved'[b].endpoint)
    BY <1>4, <1>5, <1>7, <1>9, <1>10 DEF DiscoveryInv, KnownInv
  <2>2. \A b \in Agents : known'[b].endpoint = config[b] /\ known'[b].from \in Addresses(config[b])
    BY <1>4, <1>7, <1>10, <1>11 DEF DiscoveryInv, KnownInv
  <2>3. QED
    BY <1>5, <2>1, <2>2 DEF KnownInv
<1>16. FitInv'
  <2>1. ASSUME NEW b \in fresh' \ halfway', Own(b)'
        PROVE  Fits(b)'
    <3>1. CASE b = a
      <4>1. known'[b].card = me.card /\ config'[b] = config[a]
        BY <1>5, <1>7, <1>11, <3>1
      <4>2. Chosen(b)' = iface
        BY <4>1 DEF Chosen
      <4>3. Valid(me.card) /\ iface.url # ""
        BY <2>1, <4>1, <4>2 DEF Own
      <4> HIDE DEF iface
      <4>4. Register(bindings, iface)[iface.url] = [binding |-> iface.binding, tenant |-> iface.tenant]
        BY <1>6, <1>9, <4>3, RegisteringIsTyped
      <4>5. bindings'[iface.url] = [binding |-> iface.binding, tenant |-> iface.tenant]
        BY <1>5, <4>3, <4>4
      <4>6. QED
        BY <4>2, <4>5 DEF Fits
    <3>2. CASE b # a /\ Valid(me.card)
      <4>1. b \in fresh \ halfway /\ b \in Agents /\ known'[b] = known[b]
        BY <1>5, <1>9, <1>11, <2>1, <3>2
      <4> HIDE DEF iface
      <4>2. QED
        BY <1>4, <1>5, <1>6, <2>1, <3>2, <4>1, OthersStillFit
    <3>3. CASE b # a /\ ~Valid(me.card)
      <4>1. b \in fresh \ halfway /\ b \in Agents /\ known'[b] = known[b] /\ UNCHANGED <<bindings, users, config>>
        BY <1>5, <1>9, <1>11, <2>1, <3>3
      <4>2. Own(b) /\ (Fits(b) => Fits(b)')
        BY <2>1, <4>1 DEF Own, Fits, Chosen
      <4>3. QED
        BY <4>1, <4>2 DEF DiscoveryInv, FitInv
    <3>4. QED
      BY <3>1, <3>2, <3>3
  <2>2. QED
    BY <2>1 DEF FitInv
<1>17. QED
  BY <1>12, <1>14, <1>15, <1>16 DEF DiscoveryInv

-----------------------------------------------------------------------------
(***************************************************************************)
(* The theorems.                                                           *)
(***************************************************************************)

LEMMA InitDiscovery ==
  ASSUME Init
  PROVE  DiscoveryInv
<1>1. \A a \in Agents : config[a] \in Mounts /\ saved[a] = Blank(config[a])
  BY DEF Init
<1>2. \A a \in Agents : Blank(config[a]) \in Knowledge /\ Blank(config[a]).endpoint = config[a]
                        /\ Blank(config[a]).from \in Addresses(config[a])
  BY <1>1, AddressesOfEndpoint DEF Blank, Knowledge
<1>3. saved \in [Agents -> Knowledge]
  BY <1>2 DEF Init
<1>4. bindings \in [Urls -> [binding : Bindings, tenant : {"", "t"}]]
  BY DEF Init, Unregistered, Default, Bindings
<1>5. 0 \in 0..MaxChanges
  BY ThreadsAssumption
<1>6. up \in BOOLEAN /\ ~up
  BY DEF Init
<1>7. TypeOK
  BY <1>3, <1>4, <1>5, <1>6 DEF Init, TypeOK
<1>8. DownInv /\ OneDiscovery /\ AskingInv /\ FitInv
  BY DEF Init, DownInv, OneDiscovery, AskingInv, FitInv, Discovering, Quiet, Underway
<1>9. KnownInv
  BY <1>1, <1>2, <1>6 DEF KnownInv
<1>10. QED
  BY <1>7, <1>8, <1>9 DEF DiscoveryInv

LEMMA DiscoveryStep ==
  ASSUME DiscoveryInv, [Next]_vars
  PROVE  DiscoveryInv'
<1>1. CASE UNCHANGED vars
  BY <1>1 DEF vars, DiscoveryInv, TypeOK, DownInv, OneDiscovery, AskingInv, KnownInv, FitInv,
     Discovering, Asks, Own, Fits, Chosen
<1>2. CASE (\E m \in Mounts : Serve(m)) \/ (\E a \in Agents : Edit(a) \/ Expire(a)) \/ Boot \/ Die
  BY <1>2, WorldStep
<1>3. ASSUME NEW th \in Threads, Work(th)
      PROVE  DiscoveryInv'
  BY <1>3, FetchStep, RegisterStep, ThrowStep, KeepStep, CallStep DEF Work
<1>4. ASSUME NEW th \in Threads, NEW a \in Agents, Contact(th, a)
      PROVE  DiscoveryInv'
  BY <1>4, ContactStep DEF Contact
<1>5. ASSUME NEW a \in Agents, Begin(Ipc, "discover", a)
      PROVE  DiscoveryInv'
  BY <1>5, ContactStep, ThreadsAssumption
<1>6. QED
  BY <1>1, <1>2, <1>3, <1>4, <1>5 DEF Next

THEOREM DiscoveryInvariant == Spec => []DiscoveryInv
<1>1. DiscoveryInv /\ [Next]_vars => DiscoveryInv'
  BY DiscoveryStep
<1>2. QED
  BY InitDiscovery, <1>1, PTL DEF Spec

\* The state of the discoveries keeps its type.
THEOREM DiscoveryTypeCorrect == Spec => []TypeOK
<1>1. DiscoveryInv => TypeOK
  BY DEF DiscoveryInv
<1>2. QED
  BY DiscoveryInvariant, <1>1, PTL

\* Whatever endpoints the owner configures and however often the daemon restarts,
\* the card kept for an agent comes from an address of its present endpoint.
THEOREM CardsAreOwn == Spec => []NoForeignCards
<1>1. ASSUME DiscoveryInv, up, NEW a \in Agents
      PROVE  /\ known[a].endpoint = config[a]
             /\ \E k \in DOMAIN Candidates(config[a]) : Candidates(config[a])[k] = known[a].from
  BY <1>1 DEF DiscoveryInv, KnownInv, Addresses
<1>2. DiscoveryInv => NoForeignCards
  BY <1>1 DEF NoForeignCards
<1>3. QED
  BY DiscoveryInvariant, <1>2, PTL

\* For any cards, agents and threads, malformed cards included: the binding and the
\* tenant of an agent's calls are those of the interface its card chose, unless its
\* last discovery has registered interfaces without reaching its end, or another
\* agent's card registered the same URL.
THEOREM BindingsMatchCards == Spec => []BindingsFitCards
<1>1. DiscoveryInv => BindingsFitCards
  BY DEF DiscoveryInv, FitInv, BindingsFitCards, Own, Fits, Chosen
<1>2. QED
  BY DiscoveryInvariant, <1>1, PTL
=============================================================================
