---------------------------- MODULE MCHandshake -----------------------------
(* Two connections: the first of any kind, the second the mock phone over USB*)
(* with the right key, so that session ids and media hellos can collide.     *)
EXTENDS Handshake, TLC

CONSTANTS c1, c2, k1, k2

MCConf == [transport |-> "usb", client |-> "mock", ver |-> ProtoVer,
           expected |-> k1, has |-> k1]
MCInit == Init /\ conf[c2] = MCConf /\ conf[c1].expected = k1
MCSpec == MCInit /\ [][Next]_vars /\ Fairness
=============================================================================
