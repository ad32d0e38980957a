-------------------------------- MODULE Pipe --------------------------------
(***************************************************************************)
(* What one direction of a tunnel promises to the one who listens.  While  *)
(* the tunnel is up, packets arrive whole, each once, in the order in      *)
(* which they were sent and with none missing.  Once it is being torn down *)
(* packets may be cut off or come again; none is skipped, and nothing      *)
(* comes after the close frame.                                            *)
(***************************************************************************)
EXTENDS Integers, Sequences

VARIABLES
    delivered,  \* the packets that arrived, each with its number
    phase       \* "up", "ending" or "closed"

Init == delivered = <<>> /\ phase = "up"

\* The highest number so far.
Latest ==
    CHOOSE n \in 0..Len(delivered) :
        /\ \A i \in 1..Len(delivered) : delivered[i].number <= n
        /\ n = 0 \/ \E i \in 1..Len(delivered) : delivered[i].number = n

Arrives(number, whole) ==
    delivered' = Append(delivered, [number |-> number, whole |-> whole])

Deliver ==
    /\ phase = "up"
    /\ Arrives(Latest + 1, TRUE)
    /\ UNCHANGED phase

DeliverLate ==
    /\ phase = "ending"
    /\ \E number \in 1..(Latest + 1), whole \in BOOLEAN : Arrives(number, whole)
    /\ UNCHANGED phase

Teardown ==
    /\ \/ phase = "up" /\ phase' = "ending"
       \/ phase # "closed" /\ phase' = "closed"
    /\ UNCHANGED delivered

Next == Deliver \/ DeliverLate \/ Teardown

Spec == Init /\ [][Next]_<<delivered, phase>>
=============================================================================
