------------------------------- MODULE MCRelay -------------------------------
(***************************************************************************)
(* Relay for TLC.  The pools of rooms, connections, requests and creators  *)
(* are the bounds: when they are used up nothing more arrives, so a        *)
(* behaviour may end and the runs do not look for deadlock.                *)
(***************************************************************************)
EXTENDS RelayInvariant, TLC

\* No action and no property of Relay tells the members of a pool apart, but
\* for those that may leave or age.
Interchangeable(pool, marked) ==
    Permutations(pool \cap marked) \cup Permutations(pool \ marked)

Symmetry ==
    Interchangeable(RoomObjs, AgingRooms)
    \cup Interchangeable(HostConns, Leavers)
    \cup Interchangeable(ClientConns, Leavers)
    \cup Interchangeable(DataConns, Leavers)
    \cup Permutations(Requests)
    \cup Permutations(Creators)
=============================================================================
