----------------------------- MODULE MCIpcServer -----------------------------
(* The owner socket with two connections and three descriptor numbers.     *)
EXTENDS IpcServer

CONSTANTS p1, p2

TwoPeers == {p1, p2}
ThreeFds == 1..3
=============================================================================
