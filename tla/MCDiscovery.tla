----------------------------- MODULE MCDiscovery -----------------------------
(***************************************************************************)
(* Small instances of Discovery.  The cards: one without interfaces, one   *)
(* that offers two bindings at one URL and an interface without URL, and a *)
(* malformed one that lists the second binding only.                       *)
(***************************************************************************)
EXTENDS Discovery

CONSTANTS a1, a2, h1, h2

At(url, binding, tenant) == [url |-> url, binding |-> binding, v1 |-> TRUE, tenant |-> tenant]
Plain == [found |-> TRUE, required |-> FALSE, malformed |-> FALSE, interfaces |-> <<>>]
Twice == [found |-> TRUE, required |-> FALSE, malformed |-> FALSE,
          interfaces |-> <<At("home", "JSONRPC", ""), At("home", "GRPC", "t"), At("", "JSONRPC", "")>>]
Broken == [Twice EXCEPT !.malformed = TRUE, !.interfaces = <<At("home", "GRPC", "t")>>]

TwoBindings == {Twice}
AllCards == {Plain, Twice, Broken}
=============================================================================
