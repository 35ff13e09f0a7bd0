--------------------------- MODULE MCEventChannel ---------------------------
(***************************************************************************)
(* A small instance of EventChannel: two frontends that share a channel.   *)
(***************************************************************************)
EXTENDS EventChannel, TLC

CONSTANTS f1, f2, c1

SharedChannel == (f1 :> c1 @@ f2 :> c1)
=============================================================================
