----------------------------- MODULE Interfaces -----------------------------
(***************************************************************************)
(* Which interface of an agent is used: A2AClient::discover reads the card *)
(* and registers its interfaces, TaskManager::discoverAgent keeps the card *)
(* and registers the one that Agent::effective_interface chooses, and a    *)
(* call looks the protocol binding and tenant up by the URL it is sent to. *)
(*                                                                         *)
(* "home" is the root of a host, "prefix" a path below it; agents are      *)
(* configured at one of them.  "local" is a loopback address, "away" is    *)
(* another host, "" none.  A card is what a discovery returned: not found, *)
(* or a list of interfaces, perhaps with a required extension.             *)
(***************************************************************************)
EXTENDS Naturals, Sequences

Urls == {"home", "prefix", "local", "away"}
Bindings == {"JSONRPC", "GRPC", "CUSTOM"}
Interface == [url : Urls \cup {""}, binding : Bindings, v1 : BOOLEAN, tenant : {"", "t"}]

Default == [binding |-> "JSONRPC", tenant |-> ""]

RegisterUnnamed(bindings, iface) ==
    [u \in DOMAIN bindings \cup {iface.url} |->
        IF u = iface.url THEN [binding |-> iface.binding, tenant |-> iface.tenant] ELSE bindings[u]]
\* registerInterface()
Register(bindings, iface) ==
    IF iface.url = "" THEN bindings
    ELSE [bindings EXCEPT ![iface.url] = [binding |-> iface.binding, tenant |-> iface.tenant]]

\* The verdict of discover(): some interface of version 1, or none at all, and no
\* extension that is required.
Valid(card) ==
    /\ card.found /\ ~card.required
    /\ card.interfaces = <<>> \/ \E k \in DOMAIN card.interfaces : card.interfaces[k].v1

\* supported()
Supported(iface) == iface.binding # "CUSTOM" /\ iface.v1 /\ iface.url # ""

\* effective_interface(): the first supported one of the card, reached through the
\* configured endpoint if the card names a loopback address; else that endpoint.
EffectiveInterface(card, endpoint) ==
    LET usable == {k \in DOMAIN card.interfaces : Supported(card.interfaces[k])}
        first == card.interfaces[CHOOSE k \in usable : \A j \in usable : k <= j]
    IN IF usable = {} THEN [url |-> endpoint, binding |-> "JSONRPC", v1 |-> TRUE, tenant |-> ""]
       ELSE IF first.url = "local" THEN [first EXCEPT !.url = endpoint]
       ELSE first

ChooseNothing(bindings, card, endpoint) == bindings
\* After discover() has registered every interface of the first card it could read,
\* valid or not, discoverAgent() registers the chosen one of a valid card.
Choose(bindings, card, endpoint) ==
    IF Valid(card) THEN Register(bindings, EffectiveInterface(card, endpoint)) ELSE bindings

Unregistered == [u \in Urls |-> Default]
=============================================================================
