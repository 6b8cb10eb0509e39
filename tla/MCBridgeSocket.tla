---------------------------- MODULE MCBridgeSocket ----------------------------
(* Model-checking instance of BridgeSocket. *)
EXTENDS BridgeSocket

CONSTANTS s1, s2, k1, k2, k3, native, embed

Sessions   == {s1, s2}
Sockets    == {k1, k2, k3}
Transports == {native, embed}
================================================================================
