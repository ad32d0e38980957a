------------------------------ MODULE Matching ------------------------------
(***************************************************************************)
(* What the REQUESTCONNECTION handshake promises: it matches clients with  *)
(* data connections one to one, and a match once made is never changed.    *)
(***************************************************************************)
CONSTANTS ClientConns, DataConns, Nil

VARIABLE mate

Init == mate = [c \in ClientConns |-> Nil]

Match(c, d) ==
    /\ mate[c] = Nil
    /\ \A other \in ClientConns : mate[other] # d
    /\ mate' = [mate EXCEPT ![c] = d]

Next == \E c \in ClientConns, d \in DataConns : Match(c, d)

Spec == Init /\ [][Next]_mate
=============================================================================
