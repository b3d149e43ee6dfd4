----------------------------- MODULE Admission ------------------------------
(***************************************************************************)
(* What the control handshake promises, without messages: a desktop admits *)
(* a phone at most once per connection, only after the phone has presented *)
(* the credential the desktop expects, under a session id nobody else has; *)
(* a phone holds a session only when the desktop admitted it, and then the *)
(* same one.  Handshake implements it.                                     *)
(***************************************************************************)
CONSTANTS Conns, Sids, None

VARIABLES presented,  \* the phone has shown what this connection requires
          admitted,   \* the desktop's session id, None before
          over,       \* the desktop has left the connection
          held        \* the session id the phone regards as its own

vars == <<presented, admitted, over, held>>

Init ==
    /\ presented = [c \in Conns |-> FALSE]
    /\ admitted = [c \in Conns |-> None]
    /\ over = [c \in Conns |-> FALSE]
    /\ held = [c \in Conns |-> None]

Present(c) ==
    /\ presented' = [presented EXCEPT ![c] = TRUE]
    /\ UNCHANGED <<admitted, over, held>>

Admit(c, s) ==
    /\ presented[c] /\ ~over[c] /\ admitted[c] = None
    /\ \A d \in Conns : admitted[d] # s
    /\ admitted' = [admitted EXCEPT ![c] = s]
    /\ UNCHANGED <<presented, over, held>>

Leave(c) ==
    /\ over' = [over EXCEPT ![c] = TRUE]
    /\ UNCHANGED <<presented, admitted, held>>

Hold(c) ==
    /\ admitted[c] # None
    /\ held' = [held EXCEPT ![c] = admitted[c]]
    /\ UNCHANGED <<presented, admitted, over>>

Drop(c) ==
    /\ held' = [held EXCEPT ![c] = None]
    /\ UNCHANGED <<presented, admitted, over>>

Next == \E c \in Conns :
            \/ Present(c) \/ Leave(c) \/ Hold(c) \/ Drop(c)
            \/ \E s \in Sids : Admit(c, s)

Spec == Init /\ [][Next]_vars
=============================================================================
