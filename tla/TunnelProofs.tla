---------------------------- MODULE TunnelProofs ----------------------------
(***************************************************************************)
(* Both directions of a tunnel implement Pipe, for any number of packets;  *)
(* the loops never panic on their own; a teardown leaves no socket open.   *)
(* Three goroutines may write to a socket, so the numbers that have        *)
(* arrived are followed through frames that were begun for one packet and  *)
(* written when another one is open, and the library's flags through the   *)
(* goroutines that have set them.                                          *)
(***************************************************************************)
EXTENDS Tunnel, TLAPS

USE DEF CloseAll

Packets == [number : Nat, whole : BOOLEAN]
Closing == {"close", "endOpen", "bye"}
InFlush == {"write", "written", "failed"}
Lists == {<<>>, <<Client>>, <<Data>>, <<Client, Data>>, <<Data, Client>>}

TypeOK ==
    /\ arrived \in [Sockets -> Seq(Packets)]
    /\ writer \in [Sockets -> BOOLEAN]
    /\ isWriting \in [Sockets -> BOOLEAN]
    /\ writeErr \in [Sockets -> {"none", "closeSent", "failed"}]
    /\ closed \in [Sockets -> BOOLEAN]
    /\ listed \in BOOLEAN
    /\ pc \in [Threads -> Looping \cup Closing \cup {"cleanup", "done"}]
    /\ stage \in [Threads -> {"out"} \cup InFlush]
    /\ frame \in [Threads -> Packets \cup {None}]
    /\ packet \in [Sockets -> Nat]
    /\ message \in [Sockets -> {"begun", "parted", "whole", "ended"}]
    /\ toClose \in [Threads -> Lists]
    /\ panics \in [Threads -> {"none", "panicking", "recovered"}]

\* Who closes has a list, which ends with its own socket, and no one else has.
ListsOK ==
    /\ \A x \in Threads : pc[x] \in Closing <=> toClose[x] # <<>>
    /\ \A s \in Sockets : toClose[s] \in {<<>>, <<s>>, <<Other(s), s>>}
    /\ pc[Host] \in Closing \cup {"read", "done"}
    /\ listed => pc[Host] = "read"

\* A frame is written for the open message of its socket's writer, or for one
\* before it; after a failed write, or a close frame, there are none.
FramesOK ==
    \A x \in Threads : stage[x] # "out" =>
        /\ pc[x] \in {"copy", "finish", "endOpen", "bye"}
        /\ pc[x] \in {"finish", "endOpen"} =>
            /\ frame[x] \in Packets
            /\ frame[x].number \in 1..packet[Owner(x)]
        /\ pc[x] = "finish" => frame[x].number = packet[x]
        /\ stage[x] = "failed" \/ (pc[x] = "bye" /\ stage[x] = "written") =>
            writeErr[Target(x)] # "none"

\* Packet n, or a later one, has arrived at s.
Reached(s, n) ==
    n = 0 \/ \E i \in 1..Len(arrived[s]) : arrived[s][i].number >= n

\* n is the highest number that arrived at s.
IsLatest(s, n) ==
    /\ \A i \in 1..Len(arrived[s]) : arrived[s][i].number <= n
    /\ n = 0 \/ \E i \in 1..Len(arrived[s]) : arrived[s][i].number = n

\* While s takes frames, all packets before the last one that was read for it have
\* arrived, and that one, too, once its message has ended.
NoneSkipped ==
    /\ \A s \in Sockets :
        /\ message[s] # "ended" => packet[s] # 0
        /\ pc[s] = "read" => message[s] = "ended"
        /\ \E n \in 0..Len(arrived[s]) : IsLatest(s, n)
        /\ writeErr[s] = "none" =>
            /\ packet[Other(s)] # 0 => Reached(s, packet[Other(s)] - 1)
            /\ message[Other(s)] = "ended" => Reached(s, packet[Other(s)])
    /\ \A x \in Threads : pc[x] \in {"finish", "endOpen"} /\ stage[x] = "written" =>
        Reached(Target(x), frame[x].number)

\* While a direction is up, its packets have arrived whole and in order; the
\* goroutine of the other socket is the only one that writes.
Orderly ==
    \A s \in Sockets : Phase(s) = "up" =>
        LET o == Other(s)
            sent == pc[o] = "read" \/ (pc[o] = "finish" /\ stage[o] = "written") IN
        /\ \A i \in 1..Len(arrived[s]) : arrived[s][i] = [number |-> i, whole |-> TRUE]
        /\ packet[o] = Len(arrived[s]) + (IF sent THEN 0 ELSE 1)
        /\ pc[o] = "copy" => message[o] \in {"begun", "parted"}
        /\ pc[o] = "finish" => message[o] = "whole"
        /\ pc[o] = "finish" /\ stage[o] # "out" =>
            frame[o] = [number |-> packet[o], whole |-> TRUE]

\* Who has set the flag of its socket, and has not looked at it again.
Flagging(x) == stage[x] \in {"written", "failed"}

\* While all goroutines loop, a socket's flag is that of its one writer.
FlagsOK ==
    (\A x \in Threads : pc[x] \in Looping) =>
        \A s \in Sockets : isWriting[s] <=> Flagging(Other(s))

\* The next step of x panics, whatever the others do.
Doomed(x) ==
    \/ Flagging(x) /\ ~isWriting[Target(x)]
    \/ pc[x] = "endOpen" /\ stage[x] = "out" /\ ~writer[Target(x)]

\* In a listed room the host's goroutine does not close yet.  Of the other two it is
\* the one that ran into the other one that panics: who is alone closes the rest.
TeardownOK ==
    listed =>
        /\ \A s \in Sockets : isWriting[s] =>
                \E x \in Sockets : Flagging(x) /\ Target(x) = s
        /\ \A s \in Sockets : ~Doomed(s) \/ ~Doomed(Other(s))
        /\ \A s \in Sockets : pc[s] = "done" =>
                \/ \A t \in Sockets : closed[t]
                \/ pc[Other(s)] # "done" /\ ~Doomed(Other(s))
        /\ \A s \in Sockets : toClose[s] = <<s>> => closed[Other(s)]

IInv == TypeOK /\ ListsOK /\ FramesOK /\ NoneSkipped /\ Orderly /\ FlagsOK /\ TeardownOK

-----------------------------------------------------------------------------
LEMMA OtherFacts ==
    ASSUME NEW s \in Sockets
    PROVE  /\ Other(s) \in Sockets /\ Other(s) # s /\ Other(Other(s)) = s
           /\ \A t \in Sockets : t # s => t = Other(s)
           /\ s \in Threads /\ s # Host
BY ThreadsAssumption DEF Other, Sockets, Threads

LEMMA ThreadKinds == \A x \in Threads : x \in Sockets \/ x = Host
BY DEF Threads

\* A goroutine in a loop writes to the other socket, one that closes to the first of
\* its list; the message that it may end is that of the socket's writer.
LEMMA Targets ==
    ASSUME TypeOK, ListsOK, NEW x \in Threads
    PROVE  /\ pc[x] \in {"copy", "finish"} =>
                x \in Sockets /\ Target(x) = Other(x) /\ Owner(x) = x
           /\ pc[x] \in Closing =>
                /\ toClose[x] # <<>> /\ Target(x) = Head(toClose[x])
                /\ Target(x) \in Sockets
           /\ pc[x] = "endOpen" => Owner(x) = Other(Target(x))
           /\ pc[x] \in {"finish", "endOpen"} => Owner(x) \in Sockets
<1>1. pc[x] \in {"copy", "finish"} => x \in Sockets
  BY ThreadKinds DEF ListsOK, Closing
<1>2. pc[x] \in Closing => toClose[x] # <<>> /\ Head(toClose[x]) \in Sockets
  BY DEF TypeOK, ListsOK, Sockets, Lists
<1> QED
  BY <1>1, <1>2, OtherFacts DEF Target, Owner, Closing

\* What is left of a list.
LEMMA ListFacts ==
    ASSUME TypeOK, ListsOK, NEW x \in Threads, pc[x] \in Closing
    PROVE  /\ Tail(toClose[x]) \in Lists
           /\ x \in Sockets => Tail(toClose[x]) \in {<<>>, <<x>>}
           /\ Len(toClose[x]) > 1 <=> Tail(toClose[x]) # <<>>
<1>1. toClose[x] \in {<<Client>>, <<Data>>, <<Client, Data>>, <<Data, Client>>}
  BY DEF TypeOK, ListsOK, Lists
<1>2. x \in Sockets => toClose[x] \in {<<x>>, <<Other(x), x>>}
  BY DEF ListsOK
<1>3. \A s : Tail(<<s>>) = <<>> /\ Len(<<s>>) = 1
  OBVIOUS
<1>4. \A s, t : Tail(<<s, t>>) = <<t>> /\ Len(<<s, t>>) = 2 /\ <<t>> # <<>>
  OBVIOUS
<1>5. toClose[x] \in {<<Client>>, <<Data>>} =>
        Tail(toClose[x]) = <<>> /\ Len(toClose[x]) = 1
  BY <1>3
<1>6. toClose[x] \in {<<Client, Data>>, <<Data, Client>>} =>
        Tail(toClose[x]) \in {<<Client>>, <<Data>>} /\ Len(toClose[x]) = 2
        /\ Tail(toClose[x]) # <<>>
  BY <1>4
<1>7. x \in Sockets => Tail(toClose[x]) \in {<<>>, <<x>>}
  BY <1>2, <1>3, <1>4
<1> QED
  BY <1>1, <1>5, <1>6, <1>7 DEF Lists

\* After the last frame for a socket, or without it, a goroutine that closes goes on
\* to the close frame, to the next socket of its list, or out.
MovesOn(x) ==
    \/ /\ pc' = [pc EXCEPT ![x] = "bye"]
       /\ UNCHANGED <<closed, toClose, panics>>
    \/ /\ writeErr[Target(x)] # "none"
       /\ closed' = [closed EXCEPT ![Target(x)] = TRUE]
       /\ toClose' = [toClose EXCEPT ![x] = Tail(@)]
       /\ \/ Tail(toClose[x]) # <<>> /\ pc' = [pc EXCEPT ![x] = "close"] /\ UNCHANGED panics
          \/ Tail(toClose[x]) = <<>> /\ pc' = [pc EXCEPT ![x] = "done"] /\ UNCHANGED panics
          \/ /\ Tail(toClose[x]) = <<>> /\ pc' = [pc EXCEPT ![x] = "cleanup"]
             /\ x = Data /\ panics' = [panics EXCEPT ![x] = "recovered"]

LEMMA ShutTargetMoves ==
    ASSUME TypeOK, ListsOK, NEW x \in Threads, pc[x] \in Closing,
           writeErr[Target(x)] # "none", ShutTarget(x)
    PROVE  MovesOn(x)
BY ListFacts DEF ShutTarget, Leave, Goto, MovesOn

LEMMA SayByeMoves ==
    ASSUME TypeOK, ListsOK, NEW x \in Threads, pc[x] \in Closing, SayBye(x)
    PROVE  MovesOn(x)
<1>1. CASE writeErr[Target(x)] = "none"
  BY <1>1 DEF SayBye, Goto, MovesOn
<1>2. CASE writeErr[Target(x)] # "none"
  BY <1>2, ShutTargetMoves DEF SayBye
<1> QED
  BY <1>1, <1>2

LEMMA MovesOnType ==
    ASSUME TypeOK, ListsOK, NEW x \in Threads, pc[x] \in Closing, MovesOn(x)
    PROVE  /\ pc' \in [Threads -> Looping \cup Closing \cup {"cleanup", "done"}]
           /\ toClose' \in [Threads -> Lists]
           /\ panics' \in [Threads -> {"none", "panicking", "recovered"}]
           /\ closed' \in [Sockets -> BOOLEAN]
<1>1. Tail(toClose[x]) \in Lists /\ Target(x) \in Sockets
  BY Targets, ListFacts
<1>2. toClose' \in [Threads -> Lists] /\ closed' \in [Sockets -> BOOLEAN]
  BY <1>1 DEF MovesOn, TypeOK
<1>3. pc' \in [Threads -> Looping \cup Closing \cup {"cleanup", "done"}]
  BY DEF MovesOn, TypeOK, Closing
<1>4. panics' \in [Threads -> {"none", "panicking", "recovered"}]
  BY DEF MovesOn, TypeOK
<1> QED
  BY <1>2, <1>3, <1>4

\* The three ways in which a flush ends.
FlushGoesOn(x) ==
    /\ pc[x] = "copy" /\ stage[x] = "written"
    /\ message' = [message EXCEPT ![x] = IF @ = "begun" THEN "parted" ELSE @]
    /\ UNCHANGED <<writer, pc, closed, toClose, panics>>

FlushLeavesLoop(x) ==
    /\ writer' = [writer EXCEPT ![Target(x)] = FALSE]
    /\ \/ /\ pc[x] = "copy" /\ stage[x] = "failed"
          /\ message' = [message EXCEPT ![x] = "ended"]
          /\ Goto(x, "cleanup")
       \/ /\ pc[x] = "finish"
          /\ message' = [message EXCEPT ![x] = "ended"]
          /\ Goto(x, "read")
    /\ UNCHANGED <<closed, toClose, panics>>

FlushMovesOn(x) ==
    /\ writer' = [writer EXCEPT ![Target(x)] = FALSE]
    /\ \/ pc[x] = "bye" /\ UNCHANGED message
       \/ /\ pc[x] = "endOpen"
          /\ message' = [message EXCEPT ![Owner(x)] =
                            IF frame[x].number = packet[Owner(x)] THEN "ended" ELSE @]
    /\ MovesOn(x)

LEMMA FlushEndKinds ==
    ASSUME TypeOK, ListsOK, FramesOK, NEW x \in Threads, FlushEnds(x)
    PROVE  /\ stage' = [stage EXCEPT ![x] = "out"] /\ frame' = [frame EXCEPT ![x] = None]
           /\ isWriting' = [isWriting EXCEPT ![Target(x)] = FALSE]
           /\ stage[x] \in {"written", "failed"}
           /\ UNCHANGED <<arrived, writeErr, listed, packet>>
           /\ FlushGoesOn(x) \/ FlushLeavesLoop(x) \/ FlushMovesOn(x)
<1>1. pc[x] \in {"copy", "finish", "endOpen", "bye"}
  BY DEF FlushEnds, FramesOK
<1>2. ASSUME pc[x] = "copy"
      PROVE  FlushGoesOn(x) \/ FlushLeavesLoop(x)
  <2>1. pc = [pc EXCEPT ![x] = "copy"]
    BY <1>2 DEF TypeOK
  <2>2. CASE stage[x] = "written"
    <3>1. pc[x] = "copy" /\ stage[x] = "written" /\ pc[x] # "bye"
      BY <1>2, <2>2
    <3>2. UNCHANGED writer
      BY <3>1 DEF FlushEnds
    <3>3. message' = [message EXCEPT ![x] = IF @ = "begun" THEN "parted" ELSE @]
      BY <3>1 DEF FlushEnds
    <3>4. Goto(x, "copy") /\ UNCHANGED <<closed, toClose, panics>>
      BY <3>1 DEF FlushEnds
    <3> QED
      BY <2>1, <3>1, <3>2, <3>3, <3>4 DEF FlushGoesOn, Goto
  <2>3. CASE stage[x] # "written"
    BY <1>2, <2>3 DEF FlushEnds, FlushLeavesLoop, Goto
  <2> QED
    BY <2>2, <2>3
<1>3. ASSUME pc[x] = "finish"
      PROVE  FlushLeavesLoop(x)
  BY <1>3, Targets DEF FlushEnds, FlushLeavesLoop, FramesOK, TypeOK
<1>4. ASSUME pc[x] = "endOpen"
      PROVE  FlushMovesOn(x)
  BY <1>4, SayByeMoves DEF FlushEnds, FlushMovesOn, Closing
<1>5. ASSUME pc[x] = "bye"
      PROVE  FlushMovesOn(x)
  BY <1>5, ShutTargetMoves DEF FlushEnds, FlushMovesOn, FramesOK, Closing
<1> QED
  BY <1>1, <1>2, <1>3, <1>4, <1>5 DEF FlushEnds

-----------------------------------------------------------------------------
(* Types, lists and frames *)

\* What arrives carries a number up to that of the packet in the making.
LEMMA ReceivedType ==
    ASSUME TypeOK, ListsOK, FramesOK, NEW x \in Threads, stage[x] # "out",
           pc[x] \in {"finish", "endOpen"}
    PROVE  \A m \in Received(x) :
                m \in Packets /\ m.number \in 1..packet[Owner(x)]
<1>1. frame[x] \in Packets /\ frame[x].number \in 1..packet[Owner(x)]
  BY DEF FramesOK
<1>2. packet[Owner(x)] \in Nat
  BY Targets DEF TypeOK
<1>3. \A n \in Nat : [number |-> n, whole |-> FALSE] \in Packets
  BY DEF Packets
<1>4. ASSUME NEW m \in Received(x), m # frame[x]
      PROVE  \E n \in {frame[x].number, packet[Owner(x)]} : m = [number |-> n, whole |-> FALSE]
  BY <1>4 DEF Received
<1>5. frame[x].number \in Nat /\ packet[Owner(x)] \in 1..packet[Owner(x)]
  BY <1>1, <1>2 DEF Packets
<1> QED
  BY <1>1, <1>2, <1>3, <1>4, <1>5

LEMMA TypeOKNext == ASSUME TypeOK, ListsOK, FramesOK, [Next]_vars PROVE TypeOK'
<1> USE DEF TypeOK, Looping, Closing, InFlush, sockVars, loopVars, Goto
<1>a. \A x \in Sockets : PartnerFirst(x) \in Lists
  BY ThreadsAssumption DEF PartnerFirst, Other, Sockets, Lists
<1>b. <<>> \in Lists /\ <<Data, Client>> \in Lists
  BY DEF Lists
<1>c. \A x \in Sockets : <<x>> \in Lists
  BY DEF Sockets, Lists
<1>1. ASSUME NEW x \in Sockets, ReadPacket(x) PROVE TypeOK'
  <2>1. packet' \in [Sockets -> Nat] /\ message' \in [Sockets -> {"begun", "parted", "whole", "ended"}]
    <3>1. CASE writeErr[Other(x)] # "none"
      BY <1>1, <3>1 DEF ReadPacket
    <3>2. CASE writeErr[Other(x)] = "none"
      <4>1. packet' = [packet EXCEPT ![x] = @ + 1] /\ message' = [message EXCEPT ![x] = "begun"]
        BY <1>1, <3>2 DEF ReadPacket
      <4> QED
        BY <4>1
    <3> QED
      BY <3>1, <3>2
  <2>2. writer' \in [Sockets -> BOOLEAN]
    BY <1>1, OtherFacts DEF ReadPacket
  <2>3. x \in Threads /\ pc' \in [Threads -> Looping \cup Closing \cup {"cleanup", "done"}]
    BY <1>1, OtherFacts DEF ReadPacket
  <2> QED
    BY <1>1, <2>1, <2>2, <2>3 DEF ReadPacket
<1>2. ASSUME NEW x \in Sockets, ReadFails(x) PROVE TypeOK'
  <2>1. writeErr' \in [Sockets -> {"none", "closeSent", "failed"}]
    BY <1>2 DEF ReadFails
  <2> QED
    BY <1>2, <2>1, OtherFacts DEF ReadFails
<1>3. ASSUME NEW x \in Sockets, CopyFails(x) PROVE TypeOK'
  BY <1>3, OtherFacts DEF CopyFails
<1>4. ASSUME NEW x \in Sockets, CopyEnds(x) PROVE TypeOK'
  BY <1>4, OtherFacts DEF CopyEnds
<1>5. ASSUME NEW x \in Sockets, AlreadyEnded(x) PROVE TypeOK'
  BY <1>5, OtherFacts DEF AlreadyEnded
<1>6. ASSUME NEW x \in Sockets, Cleanup(x) PROVE TypeOK'
  <2>1. x \in Threads
    BY OtherFacts
  <2>2. CASE listed
    BY <1>6, <1>a, <2>1, <2>2 DEF Cleanup
  <2>3. CASE ~listed
    BY <1>6, <1>c, <2>1, <2>3 DEF Cleanup, Leave
  <2> QED
    BY <2>2, <2>3
<1>7. ASSUME NEW x \in Threads, FlushChecks(x) PROVE TypeOK'
  <2>1. pc[x] \in {"finish", "endOpen"} => Owner(x) \in Sockets
    BY Targets
  <2>2. frame' \in [Threads -> Packets \cup {None}]
    BY <1>7, <2>1 DEF FlushChecks, Flushes, Packets
  <2> QED
    BY <1>7, <2>2 DEF FlushChecks
<1>8. ASSUME NEW x \in Threads, FlushWrites(x) PROVE TypeOK'
  <2>1. pc[x] \in {"finish", "endOpen"} => Received(x) \subseteq Packets
    BY <1>8, ReceivedType DEF FlushWrites
  <2>2. pc[x] \in {"copy", "finish", "endOpen", "bye"}
    BY <1>8 DEF FlushWrites, FramesOK
  <2>3. Target(x) \in Sockets
    BY <2>2, Targets, OtherFacts
  <2>4. arrived' \in [Sockets -> Seq(Packets)]
    <3>1. ASSUME NEW m \in Packets
          PROVE  [arrived EXCEPT ![Target(x)] = Append(@, m)] \in [Sockets -> Seq(Packets)]
      BY <2>3
    <3>2. CASE arrived' = arrived
      BY <3>2
    <3>3. CASE pc[x] \in {"finish", "endOpen"} /\ arrived' # arrived
      <4>1. PICK m \in Received(x) : arrived' = [arrived EXCEPT ![Target(x)] = Append(@, m)]
        BY <1>8, <3>3 DEF FlushWrites
      <4> QED
        BY <2>1, <3>1, <3>3, <4>1
    <3> QED
      BY <1>8, <2>2, <3>2, <3>3 DEF FlushWrites
  <2>5. writeErr' \in [Sockets -> {"none", "closeSent", "failed"}]
    <3>1. \/ writeErr' = writeErr
          \/ writeErr' = [writeErr EXCEPT ![Target(x)] = "closeSent"]
          \/ writeErr' = [writeErr EXCEPT ![Target(x)] = IF @ = "none" THEN "failed" ELSE @]
      BY <1>8 DEF FlushWrites
    <3>2. ASSUME writeErr' = [writeErr EXCEPT ![Target(x)] = IF @ = "none" THEN "failed" ELSE @]
          PROVE  writeErr' \in [Sockets -> {"none", "closeSent", "failed"}]
      BY <2>3, <3>2
    <3>3. ASSUME writeErr' = [writeErr EXCEPT ![Target(x)] = "closeSent"]
          PROVE  writeErr' \in [Sockets -> {"none", "closeSent", "failed"}]
      BY <2>3, <3>3
    <3> QED
      BY <3>1, <3>2, <3>3
  <2> QED
    BY <1>8, <2>3, <2>4, <2>5 DEF FlushWrites
<1>9. ASSUME NEW x \in Threads, FlushEnds(x) PROVE TypeOK'
  <2>a. /\ stage' \in [Threads -> {"out"} \cup InFlush]
        /\ frame' \in [Threads -> Packets \cup {None}]
        /\ isWriting' \in [Sockets -> BOOLEAN]
    BY <1>9, FlushEndKinds
  <2>1. ASSUME FlushGoesOn(x) PROVE TypeOK'
    <3>1. message' \in [Sockets -> {"begun", "parted", "whole", "ended"}]
      BY <2>1, Targets DEF FlushGoesOn
    <3> QED
      BY <1>9, <2>a, <2>1, <3>1, FlushEndKinds DEF FlushGoesOn
  <2>2. ASSUME FlushLeavesLoop(x) PROVE TypeOK'
    BY <1>9, <2>a, <2>2, FlushEndKinds, Targets DEF FlushLeavesLoop
  <2>3. ASSUME FlushMovesOn(x) PROVE TypeOK'
    <3>1. pc[x] \in Closing
      BY <2>3 DEF FlushMovesOn
    <3>2. Tail(toClose[x]) \in Lists /\ Target(x) \in Sockets
      BY <3>1, Targets, ListFacts
    <3>3. message' \in [Sockets -> {"begun", "parted", "whole", "ended"}]
      BY <2>3 DEF FlushMovesOn
    <3>4. /\ pc' \in [Threads -> Looping \cup Closing \cup {"cleanup", "done"}]
          /\ toClose' \in [Threads -> Lists]
          /\ panics' \in [Threads -> {"none", "panicking", "recovered"}]
          /\ closed' \in [Sockets -> BOOLEAN]
      BY <2>3, <3>2, MovesOnType DEF FlushMovesOn
    <3>5. writer' \in [Sockets -> BOOLEAN]
      BY <2>3 DEF FlushMovesOn
    <3> QED
      BY <1>9, <2>a, <3>3, <3>4, <3>5, FlushEndKinds
  <2> QED
    BY <1>9, <2>1, <2>2, <2>3, FlushEndKinds
<1>10. ASSUME NEW x \in Threads, FlushPanics(x) PROVE TypeOK'
  BY <1>10, <1>b DEF FlushPanics
<1>11. ASSUME NEW x \in Threads, CloseBegins(x) PROVE TypeOK'
  <2>1. Tail(toClose[x]) \in Lists /\ Target(x) \in Sockets
    BY <1>11, Targets, ListFacts DEF CloseBegins
  <2>2. MovesOn(x) \/ (Goto(x, "endOpen") /\ UNCHANGED <<closed, toClose, panics>>)
    BY <1>11, SayByeMoves DEF CloseBegins
  <2> QED
    BY <1>11, <2>1, <2>2 DEF CloseBegins, MovesOn
<1>12. ASSUME NEW x \in Threads, OpenWasEnded(x) PROVE TypeOK'
  <2>1. Tail(toClose[x]) \in Lists /\ Target(x) \in Sockets
    BY <1>12, Targets, ListFacts DEF OpenWasEnded
  <2>2. MovesOn(x)
    BY <1>12, SayByeMoves DEF OpenWasEnded
  <2> QED
    BY <1>12, <2>1, <2>2 DEF OpenWasEnded, MovesOn
<1>13. CASE HostCleans
  BY <1>13, <1>b, ThreadKinds DEF HostCleans
<1>14. CASE RoomDeleted
  BY <1>14 DEF RoomDeleted
<1>15. CASE UNCHANGED vars
  BY <1>15 DEF vars
<1> QED
  BY <1>1, <1>2, <1>3, <1>4, <1>5, <1>6, <1>7, <1>8, <1>9, <1>10, <1>11, <1>12,
     <1>13, <1>14, <1>15
  DEF Next, LoopStep, FlushStep, CloseStep

\* A step is one goroutine's, or the room is deleted.
Act(x) ==
    \/ x \in Sockets /\ (ReadPacket(x) \/ LoopStep(x) \/ AlreadyEnded(x) \/ Cleanup(x))
    \/ FlushStep(x) \/ CloseStep(x)
    \/ x = Host /\ HostCleans

LEMMA Steps ==
    ASSUME Next
    PROVE  (\E x \in Threads : Act(x)) \/ RoomDeleted
BY DEF Next, Act, Threads

\* What a goroutine keeps while another one acts.
Rests(y) ==
    /\ pc'[y] = pc[y]
    /\ stage'[y] = stage[y]
    /\ frame'[y] = frame[y]
    /\ toClose'[y] = toClose[y]
    /\ panics'[y] = panics[y]

LEMMA OthersRest ==
    ASSUME TypeOK, ListsOK, FramesOK, NEW x \in Threads, Act(x),
           NEW y \in Threads, y # x
    PROVE  Rests(y)
<1> USE DEF TypeOK, Rests, Goto, Leave, sockVars, loopVars
<1>m. MovesOn(x) => pc'[y] = pc[y] /\ toClose'[y] = toClose[y] /\ panics'[y] = panics[y]
  BY DEF MovesOn
<1>1. ReadPacket(x) => Rests(y)
  BY DEF ReadPacket
<1>2. LoopStep(x) \/ AlreadyEnded(x) => Rests(y)
  BY DEF LoopStep, ReadFails, CopyFails, CopyEnds, AlreadyEnded
<1>3. Cleanup(x) => Rests(y)
  BY DEF Cleanup
<1>4. FlushChecks(x) \/ FlushWrites(x) \/ FlushPanics(x) => Rests(y)
  BY DEF FlushChecks, FlushWrites, FlushPanics
<1>5. FlushEnds(x) => Rests(y)
  <2>1. ASSUME FlushEnds(x)
        PROVE  stage'[y] = stage[y] /\ frame'[y] = frame[y]
    BY <2>1, FlushEndKinds
  <2>2. ASSUME FlushEnds(x)
        PROVE  pc'[y] = pc[y] /\ toClose'[y] = toClose[y] /\ panics'[y] = panics[y]
    <3>1. FlushGoesOn(x) \/ FlushLeavesLoop(x) \/ FlushMovesOn(x)
      BY <2>2, FlushEndKinds
    <3> QED
      BY <1>m, <3>1 DEF FlushGoesOn, FlushLeavesLoop, FlushMovesOn
  <2> QED
    BY <2>1, <2>2
<1>6. CloseBegins(x) => Rests(y)
  BY <1>m, SayByeMoves DEF CloseBegins, Closing
<1>7. OpenWasEnded(x) => Rests(y)
  BY <1>m, SayByeMoves DEF OpenWasEnded, Closing
<1>8. x = Host /\ HostCleans => Rests(y)
  BY DEF HostCleans
<1> QED
  BY <1>1, <1>2, <1>3, <1>4, <1>5, <1>6, <1>7, <1>8 DEF Act, FlushStep, CloseStep

\* A socket that takes no more frames never does again, and a goroutine numbers its
\* packets upwards.
LEMMA SharedMoves ==
    ASSUME TypeOK, ListsOK, FramesOK, NEW x \in Threads, Act(x), NEW s \in Sockets
    PROVE  /\ writeErr[s] # "none" => writeErr'[s] # "none"
           /\ packet'[s] = packet[s] \/ packet'[s] = packet[s] + 1
           /\ packet'[s] # packet[s] => ReadPacket(x) /\ s = x
<1> USE DEF TypeOK, sockVars, loopVars
<1> DEFINE P == /\ writeErr[s] # "none" => writeErr'[s] # "none"
                /\ packet'[s] = packet[s] \/ packet'[s] = packet[s] + 1
                /\ packet'[s] # packet[s] => ReadPacket(x) /\ s = x
<1>1. ReadPacket(x) => P
  BY DEF ReadPacket
<1>2. LoopStep(x) \/ AlreadyEnded(x) \/ Cleanup(x) => P
  BY DEF LoopStep, ReadFails, CopyFails, CopyEnds, AlreadyEnded, Cleanup
<1>3. FlushChecks(x) \/ FlushPanics(x) => P
  BY DEF FlushChecks, FlushPanics
<1>4. FlushWrites(x) => P
  BY DEF FlushWrites
<1>5. FlushEnds(x) => P
  BY FlushEndKinds
<1>6. CloseStep(x) => P
  BY DEF CloseStep, CloseBegins, OpenWasEnded
<1>7. HostCleans => P
  BY DEF HostCleans
<1> QED
  BY <1>1, <1>2, <1>3, <1>4, <1>5, <1>6, <1>7 DEF Act, FlushStep

\* The conjuncts of ListsOK that are about goroutine x.
ListOK(x) ==
    /\ pc[x] \in Closing <=> toClose[x] # <<>>
    /\ x \in Sockets => toClose[x] \in {<<>>, <<x>>, <<Other(x), x>>}
    /\ x = Host => pc[x] \in Closing \cup {"read", "done"} /\ (listed => pc[x] = "read")

LEMMA ListsSplit == ListsOK <=> \A x \in Threads : ListOK(x)
BY ThreadKinds, OtherFacts DEF ListsOK, ListOK, Threads

LEMMA MovesOnList ==
    ASSUME TypeOK, ListsOK, NEW x \in Threads, pc[x] \in Closing, MovesOn(x), UNCHANGED listed
    PROVE  ListOK(x)'
<1>1. x = Host => ~listed /\ x # Data
  BY OtherFacts DEF ListsOK, Closing, Sockets
<1>2. CASE pc' = [pc EXCEPT ![x] = "bye"] /\ UNCHANGED toClose
  BY <1>1, <1>2 DEF TypeOK, ListsOK, ListOK, Closing
<1>3. CASE toClose' = [toClose EXCEPT ![x] = Tail(@)]
  <2>1. toClose'[x] = Tail(toClose[x])
    BY <1>3 DEF TypeOK
  <2>2. pc'[x] \in Closing <=> Tail(toClose[x]) # <<>>
    BY <1>2, <1>3 DEF MovesOn, TypeOK, ListsOK, Closing
  <2>3. x = Host => pc'[x] \in {"bye", "close", "done"}
    BY <1>1 DEF MovesOn, TypeOK
  <2> QED
    BY <1>1, <2>1, <2>2, <2>3, ListFacts DEF ListOK, Closing
<1> QED
  BY <1>2, <1>3 DEF MovesOn

LEMMA ListsOKNext == ASSUME TypeOK, ListsOK, FramesOK, [Next]_vars PROVE ListsOK'
<1>1. ASSUME NEW x \in Threads, Act(x) PROVE ListsOK'
  <2> USE <1>1 DEF TypeOK, ListOK, Closing, Goto, sockVars, loopVars
  <2>0. ListOK(x)
    BY ListsSplit
  <2>1. ASSUME ReadPacket(x) \/ LoopStep(x) \/ AlreadyEnded(x), x \in Sockets PROVE ListOK(x)'
    BY <2>0, <2>1, OtherFacts
    DEF ReadPacket, LoopStep, ReadFails, CopyFails, CopyEnds, AlreadyEnded
  <2>2. ASSUME Cleanup(x), x \in Sockets PROVE ListOK(x)'
    <3>1. PartnerFirst(x) # <<>>
      BY DEF PartnerFirst
    <3>2. CASE listed
      <4>1. toClose'[x] = PartnerFirst(x) /\ pc'[x] = "close" /\ x # Host
        BY <2>2, <3>2, OtherFacts DEF Cleanup
      <4> QED
        BY <3>1, <4>1 DEF PartnerFirst
    <3>3. CASE ~listed
      <4>1. CASE toClose' = [toClose EXCEPT ![x] = <<x>>] /\ pc' = [pc EXCEPT ![x] = "close"]
        <5>1. toClose'[x] = <<x>> /\ <<x>> # <<>> /\ pc'[x] = "close" /\ x # Host
          BY <2>2, <4>1, OtherFacts
        <5> QED
          BY <2>2, <5>1
      <4>2. CASE Leave(x) /\ UNCHANGED toClose
        BY <2>0, <2>2, <3>3, <4>2, OtherFacts DEF Cleanup, Leave
      <4> QED
        BY <2>2, <3>3, <4>1, <4>2 DEF Cleanup
    <3> QED
      BY <3>2, <3>3
  <2>3. ASSUME FlushChecks(x) \/ FlushWrites(x) PROVE ListOK(x)'
    BY <2>0, <2>3 DEF FlushChecks, FlushWrites
  <2>4. ASSUME FlushPanics(x) PROVE ListOK(x)'
    <3>1. pc[x] \in {"copy", "finish", "endOpen", "bye"}
      BY <2>4 DEF FlushPanics, Flushes, FramesOK
    <3> QED
      BY <2>0, <2>4, <3>1, OtherFacts, ThreadsAssumption DEF FlushPanics, Sockets
  <2>5. ASSUME FlushEnds(x) PROVE ListOK(x)'
    <3>1. ASSUME FlushMovesOn(x) PROVE ListOK(x)'
      BY <2>5, <3>1, MovesOnList, FlushEndKinds DEF FlushMovesOn
    <3>2. ASSUME FlushGoesOn(x) PROVE ListOK(x)'
      BY <2>0, <2>5, <3>2, FlushEndKinds DEF FlushGoesOn
    <3>3. ASSUME FlushLeavesLoop(x) PROVE ListOK(x)'
      <4>1. x \in Sockets
        BY <3>3, Targets DEF FlushLeavesLoop
      <4> QED
        BY <2>0, <3>3, <4>1, OtherFacts DEF FlushLeavesLoop
    <3> QED
      BY <2>5, <3>1, <3>2, <3>3, FlushEndKinds
  <2>6. ASSUME CloseStep(x) PROVE ListOK(x)'
    <3>1. CASE MovesOn(x)
      BY <2>6, <3>1, MovesOnList DEF CloseStep, CloseBegins, OpenWasEnded
    <3>2. CASE Goto(x, "endOpen") /\ UNCHANGED toClose
      BY <2>0, <2>6, <3>2 DEF CloseStep, CloseBegins, OpenWasEnded
    <3> QED
      BY <2>6, <3>1, <3>2, SayByeMoves DEF CloseStep, CloseBegins, OpenWasEnded
  <2>7. ASSUME HostCleans, x = Host PROVE ListOK(x)'
    <3>1. <<Data, Client>> # <<>>
      OBVIOUS
    <3> QED
      BY <2>7, <3>1, OtherFacts DEF HostCleans
  <2>8. ListOK(x)'
    BY <2>1, <2>2, <2>3, <2>4, <2>5, <2>6, <2>7 DEF Act, FlushStep
  <2>9. listed' => listed
    BY DEF Act, ReadPacket, LoopStep, ReadFails, CopyFails, CopyEnds, AlreadyEnded,
           Cleanup, FlushStep, FlushChecks, FlushWrites, FlushEnds, FlushPanics,
           CloseStep, CloseBegins, OpenWasEnded, HostCleans
  <2>10. ASSUME NEW y \in Threads, y # x PROVE ListOK(y)'
    BY <2>9, <2>10, OthersRest, ListsSplit DEF Rests
  <2>11. \A y \in Threads : ListOK(y)'
    BY <2>8, <2>10
  <2> QED
    BY <2>11, OtherFacts DEF ListsOK, Threads
<1>2. CASE RoomDeleted
  BY <1>2 DEF RoomDeleted, ListsOK
<1>3. CASE UNCHANGED vars
  BY <1>3 DEF vars, ListsOK
<1> QED
  BY <1>1, <1>2, <1>3, Steps

\* The conjuncts of FramesOK that are about goroutine x.
FrameOK(x) ==
    stage[x] # "out" =>
        /\ pc[x] \in {"copy", "finish", "endOpen", "bye"}
        /\ pc[x] \in {"finish", "endOpen"} =>
            /\ frame[x] \in Packets
            /\ frame[x].number \in 1..packet[Owner(x)]
        /\ pc[x] = "finish" => frame[x].number = packet[x]
        /\ stage[x] = "failed" \/ (pc[x] = "bye" /\ stage[x] = "written") =>
            writeErr[Target(x)] # "none"

\* Whose frame it is does not change while its writer rests.
LEMMA RestKeepsTarget ==
    ASSUME NEW y \in Threads, pc'[y] = pc[y], toClose'[y] = toClose[y]
    PROVE  Target(y)' = Target(y) /\ Owner(y)' = Owner(y)
<1>1. Target(y)' = Target(y)
  BY DEF Target
<1> QED
  BY <1>1 DEF Owner

LEMMA FrameOKRests ==
    ASSUME TypeOK, ListsOK, FramesOK, NEW x \in Threads, Act(x),
           NEW y \in Threads, pc'[y] = pc[y], toClose'[y] = toClose[y],
           stage'[y] = stage[y], frame'[y] = frame[y],
           pc[y] = "finish" => packet'[y] = packet[y]
    PROVE  FrameOK(y)'
<1> SUFFICES ASSUME stage[y] # "out"
             PROVE  FrameOK(y)'
  BY DEF FrameOK
<1>1. Target(y)' = Target(y) /\ Owner(y)' = Owner(y)
  BY RestKeepsTarget
<1>2. ASSUME pc[y] \in {"finish", "endOpen"}
      PROVE  frame[y].number \in 1..packet'[Owner(y)]
  <2>1. Owner(y) \in Sockets
    BY <1>2, Targets
  <2>2. packet[Owner(y)] \in Nat
    BY <2>1 DEF TypeOK
  <2>3. packet'[Owner(y)] \in {packet[Owner(y)], packet[Owner(y)] + 1}
    BY <2>1, SharedMoves
  <2>4. frame[y].number \in 1..packet[Owner(y)]
    BY <1>2 DEF FramesOK
  <2> QED
    BY <2>2, <2>3, <2>4
<1>3. Target(y) \in Sockets
  BY Targets, OtherFacts DEF FramesOK, Closing
<1>4. writeErr[Target(y)] # "none" => writeErr'[Target(y)] # "none"
  BY <1>3, SharedMoves
<1> QED
  BY <1>1, <1>2, <1>4 DEF FrameOK, FramesOK

\* Every other step is made, or ends, outside flushFrame.
LEMMA OutOfFlush ==
    ASSUME TypeOK, ListsOK, FramesOK, NEW x \in Threads, Act(x)
    PROVE  FlushChecks(x) \/ FlushWrites(x) \/ stage'[x] = "out"
<1> USE DEF TypeOK, sockVars, loopVars
<1>1. ASSUME x \in Sockets, ReadPacket(x) \/ LoopStep(x) \/ AlreadyEnded(x) \/ Cleanup(x)
      PROVE  stage'[x] = "out"
  BY <1>1
  DEF ReadPacket, LoopStep, ReadFails, CopyFails, CopyEnds, AlreadyEnded, Cleanup, FramesOK
<1>2. ASSUME FlushPanics(x) \/ FlushEnds(x) \/ OpenWasEnded(x)
      PROVE  stage'[x] = "out"
  BY <1>2, FlushEndKinds DEF FlushPanics, OpenWasEnded
<1>3. ASSUME CloseBegins(x) \/ (x = Host /\ HostCleans)
      PROVE  stage'[x] = "out"
  BY <1>3 DEF CloseBegins, HostCleans, FramesOK, ListsOK
<1> QED
  BY <1>1, <1>2, <1>3 DEF Act, FlushStep, CloseStep

LEMMA FramesOKNext ==
    ASSUME TypeOK, ListsOK, FramesOK, NoneSkipped, [Next]_vars
    PROVE  FramesOK'
<1>1. ASSUME NEW x \in Threads, Act(x) PROVE FramesOK'
  <2> USE <1>1 DEF TypeOK, Goto, sockVars, loopVars
  <2>1. ASSUME FlushChecks(x) PROVE FrameOK(x)'
    <3>1. Target(x)' = Target(x) /\ Owner(x)' = Owner(x)
      BY <2>1, RestKeepsTarget DEF FlushChecks
    <3>2. pc[x] \in {"copy", "finish", "endOpen", "bye"} /\ stage'[x] = "write"
      BY <2>1 DEF FlushChecks, Flushes
    <3>3. ASSUME pc[x] \in {"finish", "endOpen"}
          PROVE  /\ frame'[x] \in Packets /\ frame'[x].number = packet[Owner(x)]
                 /\ packet[Owner(x)] \in Nat /\ packet[Owner(x)] # 0
      <4>1. Owner(x) \in Sockets /\ message[Owner(x)] # "ended"
        BY <2>1, <3>3, Targets DEF FlushChecks, Flushes
      <4>2. packet[Owner(x)] \in Nat /\ packet[Owner(x)] # 0
        BY <4>1 DEF NoneSkipped
      <4>3. frame'[x] = [number |-> packet[Owner(x)], whole |-> message[Owner(x)] = "whole"]
        BY <2>1, <3>3 DEF FlushChecks
      <4> QED
        BY <4>2, <4>3 DEF Packets
    <3>4. pc[x] = "finish" => Owner(x) = x
      BY Targets
    <3> QED
      BY <2>1, <3>1, <3>2, <3>3, <3>4 DEF FrameOK, FlushChecks
  <2>2. ASSUME FlushWrites(x) PROVE FrameOK(x)'
    <3>1. Target(x)' = Target(x) /\ Owner(x)' = Owner(x)
      BY <2>2, RestKeepsTarget DEF FlushWrites
    <3>2. FrameOK(x) /\ stage[x] # "out" /\ Target(x) \in Sockets
      BY <2>2, Targets, OtherFacts DEF FlushWrites, FramesOK, FrameOK, Closing
    <3>3. UNCHANGED <<pc, frame, packet>>
      BY <2>2 DEF FlushWrites
    <3>4. stage'[x] = "failed" \/ (pc[x] = "bye" /\ stage'[x] = "written") =>
            writeErr'[Target(x)] # "none"
      BY <2>2, <3>2 DEF FlushWrites
    <3> QED
      BY <3>1, <3>2, <3>3, <3>4 DEF FrameOK
  <2>3. FrameOK(x)'
    <3>1. stage'[x] = "out" => FrameOK(x)'
      BY DEF FrameOK
    <3> QED
      BY <2>1, <2>2, <3>1, OutOfFlush
  <2>4. ASSUME NEW y \in Threads, y # x PROVE FrameOK(y)'
    <3>1. pc[y] = "finish" => packet'[y] = packet[y]
      BY <2>4, SharedMoves, Targets
    <3> QED
      BY <2>4, <3>1, OthersRest, FrameOKRests DEF Rests
  <2>5. \A y \in Threads : FrameOK(y)'
    BY <2>3, <2>4
  <2> QED
    BY <2>5 DEF FramesOK, FrameOK
<1>2. CASE UNCHANGED <<pc, stage, frame, packet, writeErr, toClose>>
  BY <1>2 DEF FramesOK, Owner, Target
<1> QED
  BY <1>1, <1>2, Steps DEF RoomDeleted, vars, sockVars, loopVars

-----------------------------------------------------------------------------
(* What has arrived *)

\* Messages are only added.
Grows(s) ==
    \/ arrived'[s] = arrived[s]
    \/ \E m \in Packets : arrived'[s] = Append(arrived[s], m)

LEMMA ReachedGrows ==
    ASSUME TypeOK, NEW s \in Sockets, Grows(s), NEW n, Reached(s, n)
    PROVE  Reached(s, n)'
<1>1. CASE arrived'[s] = arrived[s]
  BY <1>1 DEF Reached
<1>2. ASSUME NEW m \in Packets, arrived'[s] = Append(arrived[s], m), n # 0
      PROVE  Reached(s, n)'
  <2>1. arrived[s] \in Seq(Packets)
    BY DEF TypeOK
  <2>2. PICK i \in 1..Len(arrived[s]) : arrived[s][i].number >= n
    BY <1>2 DEF Reached
  <2>3. i \in 1..Len(arrived'[s]) /\ arrived'[s][i] = arrived[s][i]
    BY <1>2, <2>1, <2>2
  <2> QED
    BY <2>2, <2>3 DEF Reached
<1>3. n = 0 => Reached(s, n)'
  BY DEF Reached
<1> QED
  BY <1>1, <1>2, <1>3 DEF Grows

LEMMA ReachedNow ==
    ASSUME TypeOK, NEW s \in Sockets, NEW m \in Packets,
           arrived'[s] = Append(arrived[s], m), NEW n, m.number >= n
    PROVE  Reached(s, n)'
<1>1. arrived[s] \in Seq(Packets)
  BY DEF TypeOK
<1>2. Len(arrived[s]) + 1 \in 1..Len(arrived'[s]) /\ arrived'[s][Len(arrived[s]) + 1] = m
  BY <1>1
<1> QED
  BY <1>2 DEF Reached

LEMMA LatestGrows ==
    ASSUME TypeOK, NEW s \in Sockets, NEW n \in 0..Len(arrived[s]), IsLatest(s, n),
           NEW m \in Packets, m.number \in 1..(n + 1), arrived'[s] = Append(arrived[s], m)
    PROVE  \E k \in 0..Len(arrived'[s]) : IsLatest(s, k)'
<1>1. arrived[s] \in Seq(Packets) /\ n \in Nat
  BY DEF TypeOK
<1>2. /\ Len(arrived'[s]) = Len(arrived[s]) + 1
      /\ \A i \in 1..Len(arrived[s]) : arrived'[s][i] = arrived[s][i]
      /\ arrived'[s][Len(arrived[s]) + 1] = m
  BY <1>1
<1>3. CASE m.number = n + 1
  <2>1. \A i \in 1..Len(arrived'[s]) : arrived'[s][i].number <= n + 1
    <3>1. \A i \in 1..Len(arrived[s]) :
            arrived[s][i].number \in Nat /\ arrived[s][i].number <= n
      <4>1. \A i \in 1..Len(arrived[s]) : arrived[s][i] \in Packets
        BY <1>1
      <4> QED
        BY <4>1 DEF IsLatest, Packets
    <3> QED
      BY <1>1, <1>2, <1>3, <3>1
  <2>2. IsLatest(s, n + 1)'
    BY <1>1, <1>2, <1>3, <2>1 DEF IsLatest
  <2> QED
    BY <1>1, <1>2, <2>2
<1>4. CASE m.number <= n
  <2>1. \A i \in 1..Len(arrived'[s]) : arrived'[s][i].number <= n
    BY <1>1, <1>2, <1>4 DEF IsLatest
  <2>2. n = 0 \/ \E i \in 1..Len(arrived'[s]) : arrived'[s][i].number = n
    BY <1>1, <1>2 DEF IsLatest
  <2>3. IsLatest(s, n)'
    BY <2>1, <2>2 DEF IsLatest
  <2> QED
    BY <1>1, <1>2, <2>3
<1> QED
  BY <1>1, <1>3, <1>4

\* What has arrived is what a number reached says of the highest one.
LEMMA ReachedBelow ==
    ASSUME TypeOK, NEW s \in Sockets, NEW n \in Nat, IsLatest(s, n), NEW k \in Nat, Reached(s, k)
    PROVE  k <= n
<1>1. arrived[s] \in Seq(Packets)
  BY DEF TypeOK
<1>2. CASE k # 0
  <2>1. PICK i \in 1..Len(arrived[s]) : arrived[s][i].number >= k
    BY <1>2 DEF Reached
  <2>2. arrived[s][i].number \in Nat /\ arrived[s][i].number <= n
    <3>1. arrived[s][i] \in Packets
      BY <1>1, <2>1
    <3> QED
      BY <2>1, <3>1 DEF IsLatest, Packets
  <2> QED
    BY <2>1, <2>2
<1> QED
  BY <1>2

\* What a flush writes counts on from what has arrived: nothing is left out.
LEMMA ReceivedNext ==
    ASSUME TypeOK, ListsOK, FramesOK, NoneSkipped, NEW x \in Threads, stage[x] # "out",
           pc[x] \in {"finish", "endOpen"}, writeErr[Target(x)] = "none",
           NEW n \in Nat, IsLatest(Target(x), n), NEW m \in Received(x)
    PROVE  m.number \in 1..(n + 1)
<1> DEFINE t == Target(x)
<1>1. t \in Sockets /\ Owner(x) = Other(t)
  BY Targets, OtherFacts DEF Closing
<1>2. packet[Other(t)] \in Nat /\ m.number \in 1..packet[Other(t)]
  BY <1>1, ReceivedType, OtherFacts DEF TypeOK
<1>3. packet[Other(t)] # 0 => Reached(t, packet[Other(t)] - 1)
  BY <1>1 DEF NoneSkipped
<1>4. packet[Other(t)] # 0 => packet[Other(t)] - 1 <= n
  BY <1>1, <1>2, <1>3, ReachedBelow
<1> QED
  BY <1>2, <1>4

\* The conjuncts of NoneSkipped.
MessageOK(s) ==
    /\ message[s] # "ended" => packet[s] # 0
    /\ pc[s] = "read" => message[s] = "ended"
    /\ writeErr[Other(s)] = "none" =>
        /\ packet[s] # 0 => Reached(Other(s), packet[s] - 1)
        /\ message[s] = "ended" => Reached(Other(s), packet[s])

WrittenOK(x) ==
    pc[x] \in {"finish", "endOpen"} /\ stage[x] = "written" =>
        Reached(Target(x), frame[x].number)

LatestOK(s) == \E n \in 0..Len(arrived[s]) : IsLatest(s, n)

LEMMA NoneSkippedSplit ==
    /\ NoneSkipped =>
        /\ \A s \in Sockets : MessageOK(s) /\ LatestOK(s)
        /\ \A x \in Threads : WrittenOK(x)
    /\ (\A s \in Sockets : MessageOK(s)') /\ (\A s \in Sockets : LatestOK(s)')
            /\ (\A x \in Threads : WrittenOK(x)') => NoneSkipped'
BY OtherFacts DEF NoneSkipped, MessageOK, LatestOK, WrittenOK

\* Only a flush of an ended message adds to what has arrived.
LEMMA OnlyFlushWrites ==
    ASSUME TypeOK, ListsOK, FramesOK, NEW x \in Threads, Act(x)
    PROVE  \/ UNCHANGED arrived
           \/ /\ FlushWrites(x)
              /\ stage'[x] = "written" /\ writeErr[Target(x)] = "none"
              /\ pc[x] \in {"finish", "endOpen"}
              /\ \E m \in Received(x) : arrived' = [arrived EXCEPT ![Target(x)] = Append(@, m)]
<1>1. ASSUME FlushWrites(x), arrived' # arrived
      PROVE  /\ stage'[x] = "written" /\ writeErr[Target(x)] = "none"
             /\ pc[x] \in {"finish", "endOpen"}
             /\ \E m \in Received(x) : arrived' = [arrived EXCEPT ![Target(x)] = Append(@, m)]
  BY <1>1 DEF FlushWrites, FramesOK, TypeOK
<1>2. FlushEnds(x) => UNCHANGED arrived
  BY FlushEndKinds
<1>3. ~FlushWrites(x) => UNCHANGED arrived
  BY <1>2 DEF Act, ReadPacket, LoopStep, ReadFails, CopyFails, CopyEnds, AlreadyEnded,
    Cleanup, FlushStep, FlushChecks, FlushPanics, CloseStep, CloseBegins, OpenWasEnded,
    HostCleans, sockVars
<1> QED
  BY <1>1, <1>3

LEMMA ArrivedGrows ==
    ASSUME TypeOK, ListsOK, FramesOK, NEW x \in Threads, Act(x), NEW s \in Sockets
    PROVE  Grows(s)
<1>1. CASE UNCHANGED arrived
  BY <1>1 DEF Grows
<1>2. ASSUME FlushWrites(x), pc[x] \in {"finish", "endOpen"}, NEW m \in Received(x),
             arrived' = [arrived EXCEPT ![Target(x)] = Append(@, m)]
      PROVE  Grows(s)
  <2>1. m \in Packets
    BY <1>2, ReceivedType DEF FlushWrites
  <2> QED
    BY <1>2, <2>1 DEF Grows, TypeOK
<1> QED
  BY <1>1, <1>2, OnlyFlushWrites

LEMMA LatestOKNext ==
    ASSUME TypeOK, ListsOK, FramesOK, NoneSkipped, NEW x \in Threads, Act(x),
           NEW s \in Sockets
    PROVE  LatestOK(s)'
<1>1. PICK n \in 0..Len(arrived[s]) : IsLatest(s, n)
  BY NoneSkippedSplit DEF LatestOK
<1>2. CASE arrived'[s] = arrived[s]
  BY <1>1, <1>2 DEF LatestOK, IsLatest
<1>3. ASSUME FlushWrites(x), pc[x] \in {"finish", "endOpen"}, writeErr[Target(x)] = "none",
             NEW m \in Received(x), arrived' = [arrived EXCEPT ![Target(x)] = Append(@, m)],
             s = Target(x)
      PROVE  LatestOK(s)'
  <2>1. n \in Nat
    BY <1>1 DEF TypeOK
  <2>2. m \in Packets /\ m.number \in 1..(n + 1)
    BY <1>1, <1>3, <2>1, ReceivedType, ReceivedNext DEF FlushWrites
  <2>3. arrived'[s] = Append(arrived[s], m)
    BY <1>3 DEF TypeOK
  <2> QED
    BY <1>1, <2>2, <2>3, LatestGrows DEF LatestOK
<1>4. UNCHANGED arrived => arrived'[s] = arrived[s]
  OBVIOUS
<1>5. ASSUME NEW m, arrived' = [arrived EXCEPT ![Target(x)] = Append(@, m)], s # Target(x)
      PROVE  arrived'[s] = arrived[s]
  BY <1>5 DEF TypeOK
<1> QED
  BY <1>2, <1>3, <1>4, <1>5, OnlyFlushWrites

LEMMA WrittenOKNext ==
    ASSUME TypeOK, ListsOK, FramesOK, NoneSkipped, NEW x \in Threads, Act(x),
           NEW y \in Threads
    PROVE  WrittenOK(y)'
<1>1. ASSUME Rests(y) PROVE WrittenOK(y)'
  <2> SUFFICES ASSUME pc[y] \in {"finish", "endOpen"}, stage[y] = "written"
               PROVE  Reached(Target(y), frame[y].number)'
    BY <1>1 DEF WrittenOK, Rests
  <2>1. Target(y)' = Target(y) /\ frame'[y] = frame[y]
    BY <1>1, RestKeepsTarget DEF Rests
  <2>2. Reached(Target(y), frame[y].number) /\ Target(y) \in Sockets
    BY NoneSkippedSplit, Targets, OtherFacts DEF WrittenOK, Closing
  <2>3. \A s, n : s \in Sockets /\ Reached(s, n) => Reached(s, n)'
    BY ArrivedGrows, ReachedGrows
  <2> QED
    BY <2>1, <2>2, <2>3 DEF Reached
<1>2. ASSUME y = x, FlushWrites(x), stage'[x] = "written", pc[x] \in {"finish", "endOpen"}
      PROVE  WrittenOK(x)'
  <2>1. Target(x)' = Target(x) /\ UNCHANGED <<frame, pc>>
    BY <1>2, RestKeepsTarget DEF FlushWrites
  <2>2. PICK m \in Received(x) : arrived' = [arrived EXCEPT ![Target(x)] = Append(@, m)]
    BY <1>2 DEF FlushWrites, TypeOK
  <2>3. Target(x) \in Sockets /\ Owner(x) = Other(Target(x)) /\ Owner(x) \in Sockets
    BY <1>2, Targets, OtherFacts DEF Closing
  <2>4. arrived'[Target(x)] = Append(arrived[Target(x)], m) /\ m \in Packets
    BY <1>2, <2>2, <2>3, ReceivedType DEF TypeOK, FlushWrites
  <2>5. frame[x] \in Packets /\ frame[x].number \in 1..packet[Owner(x)]
    BY <1>2 DEF FramesOK, FlushWrites
  <2>6. CASE m.number >= frame[x].number
    BY <2>1, <2>3, <2>4, <2>6, ReachedNow DEF WrittenOK, Reached
  <2>7. m.number >= frame[x].number
    BY <2>3, <2>5 DEF Received, Packets, TypeOK
  <2> QED
    BY <2>6, <2>7
<1>3. ASSUME y = x, ~FlushWrites(x), stage'[x] = "written"
      PROVE  WrittenOK(x)'
  BY <1>3, OutOfFlush DEF FlushChecks, TypeOK
<1>4. pc'[x] \notin {"finish", "endOpen"} \/ stage'[x] # "written" => WrittenOK(x)'
  BY DEF WrittenOK
<1>5. FlushWrites(x) => pc'[x] = pc[x]
  BY DEF FlushWrites
<1> QED
  BY <1>1, <1>2, <1>3, <1>4, <1>5, OthersRest

\* A message ends with its frame.
LEMMA EndedHasArrived ==
    ASSUME TypeOK, ListsOK, FramesOK, NoneSkipped, NEW x \in Threads, FlushEnds(x),
           pc[x] \in {"finish", "endOpen"}, frame[x].number = packet[Owner(x)],
           writeErr[Target(x)] = "none"
    PROVE  Reached(Target(x), packet[Owner(x)])
<1>1. stage[x] = "written"
  BY FlushEndKinds DEF FramesOK
<1> QED
  BY <1>1, NoneSkippedSplit DEF WrittenOK

LEMMA MessageOKNext ==
    ASSUME TypeOK, ListsOK, FramesOK, NoneSkipped, NEW x \in Threads, Act(x),
           NEW s \in Sockets
    PROVE  MessageOK(s)'
<1> USE DEF Goto
<1>1. MessageOK(s) /\ Other(s) \in Sockets /\ s \in Threads /\ s # Host
  BY NoneSkippedSplit, OtherFacts
<1>2. writeErr'[Other(s)] = "none" => writeErr[Other(s)] = "none"
  BY <1>1, SharedMoves
<1>3. \A n : Reached(Other(s), n) => Reached(Other(s), n)'
  BY <1>1, ArrivedGrows, ReachedGrows
<1>4. ASSUME message'[s] = message[s], packet'[s] = packet[s], pc'[s] = "read" => pc[s] = "read"
      PROVE  MessageOK(s)'
  BY <1>1, <1>2, <1>3, <1>4 DEF MessageOK, Reached
<1>5. ASSUME ReadPacket(x), x \in Sockets
      PROVE  MessageOK(s)'
  <2>1. CASE message' = message /\ packet' = packet /\ pc'[s] # "read"
    BY <1>4, <2>1
  <2>2. CASE s # x \/ writeErr[Other(x)] # "none"
    BY <1>1, <1>4, <1>5, <2>2 DEF ReadPacket, TypeOK, loopVars
  <2>3. ASSUME s = x, writeErr[Other(x)] = "none"
        PROVE  MessageOK(s)'
    <3>1. /\ packet[s] \in Nat /\ packet'[s] = packet[s] + 1 /\ message'[s] = "begun"
          /\ pc[s] = "read" /\ pc'[s] = "copy"
      BY <1>1, <1>5, <2>3 DEF ReadPacket, TypeOK
    <3>2. Reached(Other(s), packet[s])
      BY <1>1, <2>3, <3>1 DEF MessageOK
    <3>3. packet'[s] - 1 = packet[s] /\ packet'[s] # 0
      BY <3>1
    <3> QED
      BY <1>3, <3>1, <3>2, <3>3 DEF MessageOK, Reached
  <2> QED
    BY <2>2, <2>3
<1>6. ASSUME FlushEnds(x)
      PROVE  MessageOK(s)'
  <2>1. packet' = packet
    BY <1>6, FlushEndKinds
  <2>2. ASSUME FlushGoesOn(x) PROVE MessageOK(s)'
    <3>1. message'[s] # "ended" => message[s] # "ended"
      BY <2>2 DEF FlushGoesOn, TypeOK
    <3>2. message[s] # "ended" => message'[s] # "ended"
      BY <2>2 DEF FlushGoesOn, TypeOK
    <3>3. pc' = pc
      BY <2>2 DEF FlushGoesOn
    <3> QED
      BY <1>1, <1>2, <1>3, <2>1, <3>1, <3>2, <3>3 DEF MessageOK, Reached
  <2>3. ASSUME FlushLeavesLoop(x) PROVE MessageOK(s)'
    <3>1. x \in Sockets /\ Target(x) = Other(x) /\ Owner(x) = x
      BY <2>3, Targets DEF FlushLeavesLoop
    <3>2. CASE s # x
      BY <1>1, <1>4, <2>1, <2>3, <3>2 DEF FlushLeavesLoop, TypeOK
    <3>3. ASSUME s = x, writeErr'[Other(s)] = "none" PROVE Reached(Other(s), packet[s])
      <4>1. stage[x] # "failed"
        BY <1>2, <1>6, <3>1, <3>3, FlushEndKinds DEF FramesOK
      <4>2. pc[x] = "finish"
        BY <2>3, <4>1 DEF FlushLeavesLoop
      <4>3. frame[x].number = packet[x]
        BY <1>6, <4>2, FlushEndKinds DEF FramesOK
      <4> QED
        BY <1>2, <1>6, <3>1, <3>3, <4>2, <4>3, EndedHasArrived
    <3>4. s = x => message'[s] = "ended"
      BY <2>3 DEF FlushLeavesLoop, TypeOK
    <3> QED
      BY <1>1, <1>2, <1>3, <2>1, <3>2, <3>3, <3>4 DEF MessageOK, Reached
  <2>4. ASSUME FlushMovesOn(x) PROVE MessageOK(s)'
    <3>1. pc'[s] = "read" => pc[s] = "read"
      BY <1>1, <2>4 DEF FlushMovesOn, MovesOn, TypeOK
    <3>2. CASE message'[s] = message[s]
      BY <1>4, <2>1, <3>1, <3>2
    <3>3. ASSUME message'[s] # message[s]
          PROVE  /\ pc[x] = "endOpen" /\ s = Owner(x) /\ message'[s] = "ended"
                 /\ frame[x].number = packet[s]
      BY <2>4, <3>3 DEF FlushMovesOn, TypeOK
    <3>4. pc[x] = "endOpen" => Target(x) = Other(Owner(x))
      BY Targets, OtherFacts DEF Closing
    <3>5. message'[s] # message[s] /\ writeErr'[Other(s)] = "none" => Reached(Other(s), packet[s])
      BY <1>2, <1>6, <3>3, <3>4, EndedHasArrived
    <3> QED
      BY <1>1, <1>2, <1>3, <2>1, <3>1, <3>2, <3>3, <3>5 DEF MessageOK, Reached
  <2> QED
    BY <1>6, <2>2, <2>3, <2>4, FlushEndKinds
<1>7. ASSUME CopyEnds(x)
      PROVE  MessageOK(s)'
  <2>1. packet' = packet /\ (pc'[s] = "read" => pc[s] = "read")
    BY <1>7 DEF CopyEnds, TypeOK
  <2>2. message[s] # "ended" <=> message'[s] # "ended"
    BY <1>7 DEF CopyEnds, TypeOK
  <2>3. pc[s] # "read" \/ message'[s] = "ended"
    BY <1>1, <2>2 DEF MessageOK
  <2> QED
    BY <1>1, <1>2, <1>3, <2>1, <2>2, <2>3 DEF MessageOK, Reached
<1>8. ASSUME AlreadyEnded(x)
      PROVE  MessageOK(s)'
  <2>1. packet' = packet /\ message' = message /\ (pc'[s] = "read" => pc[s] = "read" \/ message[s] = "ended")
    BY <1>8 DEF AlreadyEnded, TypeOK, loopVars
  <2> QED
    BY <1>1, <1>2, <1>3, <2>1 DEF MessageOK, Reached
<1>9. ASSUME \/ ReadFails(x) \/ CopyFails(x) \/ Cleanup(x) \/ FlushChecks(x) \/ FlushWrites(x)
             \/ FlushPanics(x)
      PROVE  MessageOK(s)'
  <2>1. message' = message /\ packet' = packet
    BY <1>9
    DEF ReadFails, CopyFails, Cleanup, FlushChecks, FlushWrites, FlushPanics, loopVars
  <2>2. pc'[s] = "read" => pc[s] = "read"
    BY <1>1, <1>9
    DEF ReadFails, CopyFails, Cleanup, Leave, FlushChecks, FlushWrites, FlushPanics, TypeOK
  <2> QED
    BY <1>4, <2>1, <2>2
<1>10. ASSUME CloseStep(x)
       PROVE  MessageOK(s)'
  <2>1. UNCHANGED loopVars /\ (MovesOn(x) \/ Goto(x, "endOpen"))
    BY <1>10, SayByeMoves DEF CloseStep, CloseBegins, OpenWasEnded, Closing
  <2> QED
    BY <1>1, <1>4, <2>1 DEF MovesOn, TypeOK, loopVars
<1>11. ASSUME HostCleans
       PROVE  MessageOK(s)'
  BY <1>1, <1>4, <1>11 DEF HostCleans, TypeOK, loopVars
<1> QED
  BY <1>5, <1>6, <1>7, <1>8, <1>9, <1>10, <1>11 DEF Act, LoopStep, FlushStep

LEMMA NoneSkippedNext ==
    ASSUME TypeOK, ListsOK, FramesOK, NoneSkipped, [Next]_vars
    PROVE  NoneSkipped'
<1>1. ASSUME NEW x \in Threads, Act(x) PROVE NoneSkipped'
  BY <1>1, MessageOKNext, LatestOKNext, WrittenOKNext, NoneSkippedSplit
<1>2. CASE UNCHANGED <<arrived, writeErr, pc, stage, frame, packet, message, toClose>>
  BY <1>2 DEF NoneSkipped, Reached, IsLatest, Target
<1> QED
  BY <1>1, <1>2, Steps DEF RoomDeleted, vars, sockVars, loopVars

-----------------------------------------------------------------------------
(* Phases *)

OnList(x, s) == \E i \in 1..Len(toClose[x]) : toClose[x][i] = s

Ending(s) ==
    \/ Panicked
    \/ pc[Other(s)] \notin Looping
    \/ \E x \in Threads : OnList(x, s)

LEMMA PhaseFacts ==
    ASSUME NEW s \in Sockets
    PROVE  /\ Phase(s) = "closed" <=> writeErr[s] # "none"
           /\ Phase(s) = "up" <=> writeErr[s] = "none" /\ ~Ending(s)
           /\ Phase(s) = "ending" <=> writeErr[s] = "none" /\ Ending(s)
           /\ Phase(s) \in {"up", "ending", "closed"}
BY DEF Phase, Ending, OnList

\* The first of a list leaves it, after its last frame.
LEMMA MovesOffList ==
    ASSUME TypeOK, ListsOK, NEW x \in Threads, pc[x] \in Closing, MovesOn(x),
           NEW s \in Sockets, OnList(x, s), writeErr[s] = "none"
    PROVE  OnList(x, s)'
<1>1. CASE UNCHANGED toClose
  BY <1>1 DEF OnList
<1>2. CASE toClose' = [toClose EXCEPT ![x] = Tail(@)] /\ writeErr[Target(x)] # "none"
  <2>1. toClose'[x] = Tail(toClose[x]) /\ Head(toClose[x]) # s /\ toClose[x] # <<>>
    BY <1>2, Targets DEF TypeOK
  <2>2. toClose[x] \in Seq(Sockets)
    <3>1. \A a, b \in Sockets : {<<>>, <<a>>, <<a, b>>} \subseteq Seq(Sockets)
      OBVIOUS
    <3>2. Client \in Sockets /\ Data \in Sockets
      BY DEF Sockets
    <3>3. Lists \subseteq Seq(Sockets)
      BY <3>1, <3>2 DEF Lists
    <3> QED
      BY <3>3 DEF TypeOK
  <2>3. PICK i \in 1..Len(toClose[x]) : toClose[x][i] = s
    BY DEF OnList
  <2>4. i - 1 \in 1..Len(Tail(toClose[x])) /\ Tail(toClose[x])[i - 1] = s
    BY <2>1, <2>2, <2>3
  <2> QED
    BY <2>1, <2>4 DEF OnList
<1> QED
  BY <1>1, <1>2 DEF MovesOn

\* Nobody returns to its loop.
LEMMA LoopLeft ==
    ASSUME TypeOK, ListsOK, FramesOK, NEW x \in Threads, Act(x),
           NEW y \in Threads, pc[y] \notin Looping
    PROVE  pc'[y] \notin Looping
<1> USE DEF Goto, sockVars, loopVars
<1>1. CASE y # x
  BY <1>1, OthersRest DEF Rests
<1>2. CASE MovesOn(x) /\ y = x
  BY <1>2 DEF MovesOn, TypeOK, Looping
<1>3. FlushEnds(x) => MovesOn(x) \/ pc[x] \in Looping
  BY FlushEndKinds DEF FlushGoesOn, FlushLeavesLoop, FlushMovesOn, Looping
<1>4. CloseStep(x) => MovesOn(x) \/ Goto(x, "endOpen")
  BY SayByeMoves DEF CloseStep, CloseBegins, OpenWasEnded, Closing
<1>5. ASSUME y = x, ~FlushEnds(x), ~CloseStep(x) PROVE pc'[y] \notin Looping
  BY <1>5 DEF Act, FlushStep, ReadPacket, LoopStep, ReadFails, CopyFails, CopyEnds,
    AlreadyEnded, Cleanup, Leave, FlushChecks, FlushWrites, FlushPanics, HostCleans, TypeOK,
    Looping
<1>6. CASE Goto(x, "endOpen") /\ y = x
  BY <1>6 DEF TypeOK, Looping
<1> QED
  BY <1>1, <1>2, <1>3, <1>4, <1>5, <1>6

\* A tunnel that is being torn down never comes up again.
LEMMA EndingStays ==
    ASSUME TypeOK, ListsOK, FramesOK, NEW x \in Threads, Act(x), NEW s \in Sockets,
           Ending(s), writeErr'[s] = "none"
    PROVE  Ending(s)'
<1> USE DEF Goto, sockVars, loopVars
<1>0. writeErr[s] = "none" /\ Other(s) \in Sockets /\ Other(s) \in Threads
  BY SharedMoves, OtherFacts
<1>1. FlushPanics(x) => Panicked'
  BY DEF FlushPanics, TypeOK, Panicked
<1>2. ASSUME Panicked PROVE Panicked'
  <2>1. PICK y \in Threads : panics[y] # "none"
    BY <1>2 DEF Panicked
  <2>2. CASE y # x
    BY <2>1, <2>2, OthersRest DEF Rests, Panicked
  <2>3. \/ UNCHANGED panics \/ panics' = [panics EXCEPT ![x] = "recovered"] \/ FlushPanics(x)
    <3>1. FlushEnds(x) => UNCHANGED panics \/ panics' = [panics EXCEPT ![x] = "recovered"]
      BY FlushEndKinds DEF FlushGoesOn, FlushLeavesLoop, FlushMovesOn, MovesOn
    <3>2. CloseStep(x) => UNCHANGED panics \/ panics' = [panics EXCEPT ![x] = "recovered"]
      BY SayByeMoves DEF CloseStep, CloseBegins, OpenWasEnded, MovesOn, Closing
    <3> QED
      BY <3>1, <3>2 DEF Act, FlushStep, ReadPacket, LoopStep, ReadFails, CopyFails, CopyEnds,
        AlreadyEnded, Cleanup, Leave, FlushChecks, FlushWrites, HostCleans
  <2>4. CASE panics' = [panics EXCEPT ![x] = "recovered"]
    BY <2>1, <2>4 DEF TypeOK, Panicked
  <2> QED
    BY <1>1, <2>1, <2>3, <2>4 DEF Panicked
<1>3. pc[Other(s)] \notin Looping => pc'[Other(s)] \notin Looping
  BY <1>0, LoopLeft
<1>4. ASSUME NEW y \in Threads, OnList(y, s) PROVE OnList(y, s)' \/ Panicked'
  <2>1. CASE toClose'[y] = toClose[y]
    BY <1>4, <2>1 DEF OnList
  <2>2. CASE y = x /\ MovesOn(x) /\ pc[x] \in Closing
    BY <1>0, <1>4, <2>2, MovesOffList
  <2>3. toClose[y] # <<>>
    BY <1>4 DEF OnList
  <2>4. pc[y] \in Closing /\ (y = Host => ~listed)
    BY <2>3 DEF ListsOK, Closing
  <2>5. FlushEnds(x) => MovesOn(x) \/ UNCHANGED toClose
    BY FlushEndKinds DEF FlushGoesOn, FlushLeavesLoop, FlushMovesOn
  <2>6. CloseStep(x) => MovesOn(x) \/ UNCHANGED toClose
    BY SayByeMoves DEF CloseStep, CloseBegins, OpenWasEnded, Closing
  <2>7. CASE y = x
    BY <1>1, <2>1, <2>2, <2>4, <2>5, <2>6, <2>7
    DEF Act, FlushStep, ReadPacket, LoopStep, ReadFails, CopyFails, CopyEnds,
        AlreadyEnded, Cleanup, FlushChecks, FlushWrites, HostCleans, Closing
  <2> QED
    BY <2>1, <2>7, OthersRest DEF Rests
<1> QED
  BY <1>0, <1>2, <1>3, <1>4 DEF Ending

LEMMA PhaseMoves ==
    ASSUME TypeOK, ListsOK, FramesOK, [Next]_vars, NEW s \in Sockets
    PROVE  /\ Phase(s) = "closed" => Phase(s)' = "closed"
           /\ Phase(s) = "ending" => Phase(s)' \in {"ending", "closed"}
           /\ Phase(s)' \in {"up", "ending", "closed"}
<1>1. /\ Phase(s)' = "closed" <=> writeErr'[s] # "none"
      /\ Phase(s)' = "up" <=> writeErr'[s] = "none" /\ ~Ending(s)'
      /\ Phase(s)' = "ending" <=> writeErr'[s] = "none" /\ Ending(s)'
      /\ Phase(s)' \in {"up", "ending", "closed"}
  BY DEF Phase, Ending, OnList
<1>2. ASSUME NEW x \in Threads, Act(x)
      PROVE  /\ Phase(s) = "closed" => Phase(s)' = "closed"
             /\ Phase(s) = "ending" => Phase(s)' \in {"ending", "closed"}
  BY <1>1, <1>2, PhaseFacts, SharedMoves, EndingStays
<1>3. CASE UNCHANGED <<writeErr, panics, pc, toClose>>
  BY <1>3 DEF Phase, Panicked
<1> QED
  BY <1>1, <1>2, <1>3, Steps DEF RoomDeleted, vars, sockVars, loopVars

-----------------------------------------------------------------------------
(* A direction that is up *)

\* The direction to s works as if nobody could close it.
OrderlyAt(s) ==
    LET o == Other(s)
        sent == pc[o] = "read" \/ (pc[o] = "finish" /\ stage[o] = "written") IN
    /\ \A i \in 1..Len(arrived[s]) : arrived[s][i] = [number |-> i, whole |-> TRUE]
    /\ packet[o] = Len(arrived[s]) + (IF sent THEN 0 ELSE 1)
    /\ pc[o] = "copy" => message[o] \in {"begun", "parted"}
    /\ pc[o] = "finish" => message[o] = "whole"
    /\ pc[o] = "finish" /\ stage[o] # "out" =>
        frame[o] = [number |-> packet[o], whole |-> TRUE]

\* Then the only writer to s is the goroutine of the other socket, in its loop.
LEMMA UpWriter ==
    ASSUME TypeOK, ListsOK, FramesOK, NEW s \in Sockets, Phase(s) = "up",
           NEW x \in Threads, pc[x] \in {"copy", "finish"} \cup Closing, Target(x) = s
    PROVE  x = Other(s) /\ pc[x] \in {"copy", "finish"}
<1>1. CASE pc[x] \in Closing
  <2>1. Head(toClose[x]) = s /\ toClose[x] # <<>>
    BY <1>1, Targets
  <2>2. toClose[x] \in {<<Client>>, <<Data>>, <<Client, Data>>, <<Data, Client>>}
    BY <2>1 DEF TypeOK, Lists
  <2>3. OnList(x, s)
    BY <2>1, <2>2 DEF OnList
  <2> QED
    BY <2>3, PhaseFacts DEF Ending
<1>2. CASE pc[x] \in {"copy", "finish"}
  BY <1>2, Targets, OtherFacts
<1> QED
  BY <1>1, <1>2

\* What the goroutine of the other socket does not do keeps a direction orderly.
LEMMA OrderlyRests ==
    ASSUME TypeOK, ListsOK, FramesOK, NEW s \in Sockets, Phase(s) = "up", OrderlyAt(s),
           NEW x \in Threads, Act(x), x # Other(s)
    PROVE  OrderlyAt(s)'
<1> DEFINE o == Other(s)
<1>0. o \in Sockets /\ o \in Threads /\ Other(o) = s
  BY OtherFacts
<1>1. Rests(o)
  BY <1>0, OthersRest
<1>2. packet'[o] = packet[o]
  BY <1>0, SharedMoves
<1>3. arrived'[s] = arrived[s]
  <2>1. pc[x] \in {"finish", "endOpen"} => Target(x) # s /\ Target(x) \in Sockets
    BY UpWriter, Targets, OtherFacts DEF Closing
  <2> QED
    BY <2>1, OnlyFlushWrites DEF TypeOK
<1>4. message'[o] = message[o]
  <2>1. FlushEnds(x) => message'[o] = message[o]
    <3>1. pc[x] = "endOpen" => Owner(x) # o
      BY <1>0, UpWriter, Targets, OtherFacts DEF Closing
    <3>2. FlushGoesOn(x) \/ FlushLeavesLoop(x) => message'[o] = message[o]
      BY <1>0 DEF FlushGoesOn, FlushLeavesLoop, TypeOK
    <3>3. FlushMovesOn(x) => message'[o] = message[o]
      BY <1>0, <3>1 DEF FlushMovesOn, TypeOK
    <3> QED
      BY <3>2, <3>3, FlushEndKinds
  <2> QED
    BY <1>0, <2>1
    DEF Act, FlushStep, ReadPacket, LoopStep, ReadFails, CopyFails, CopyEnds, AlreadyEnded,
        Cleanup, FlushChecks, FlushWrites, FlushPanics, CloseStep, CloseBegins, OpenWasEnded,
        HostCleans, loopVars, TypeOK
<1> QED
  BY <1>1, <1>2, <1>3, <1>4 DEF OrderlyAt, Rests

\* The loop sends one whole packet after the other.
LEMMA OrderlyLoops ==
    ASSUME TypeOK, ListsOK, FramesOK, NoneSkipped, NEW s \in Sockets,
           Phase(s) = "up", Phase(s)' = "up", OrderlyAt(s), Act(Other(s))
    PROVE  OrderlyAt(s)'
<1> DEFINE o == Other(s)
<1> USE DEF Goto
<1>0. /\ o \in Sockets /\ o \in Threads /\ Other(o) = s /\ o # Host
      /\ pc[o] \in Looping /\ pc'[o] \in Looping /\ ~Panicked'
      /\ writeErr[s] = "none" /\ writeErr'[s] = "none"
  <2>1. pc'[o] \in Looping /\ ~Panicked' /\ writeErr'[s] = "none"
    BY DEF Phase
  <2> QED
    BY <2>1, OtherFacts, PhaseFacts DEF Ending
<1>1. /\ packet[o] \in Nat /\ arrived[s] \in Seq(Packets)
      /\ message[o] \in {"begun", "parted", "whole", "ended"}
      /\ Len(arrived[s]) \in Nat
  BY <1>0 DEF TypeOK
<1>2. ASSUME ReadPacket(o) PROVE OrderlyAt(s)'
  <2>1. /\ packet'[o] = packet[o] + 1 /\ message'[o] = "begun" /\ pc'[o] = "copy"
        /\ pc[o] = "read" /\ arrived' = arrived
    BY <1>0, <1>2 DEF ReadPacket, TypeOK
  <2> QED
    BY <1>1, <2>1 DEF OrderlyAt
<1>3. ASSUME CopyEnds(o) PROVE OrderlyAt(s)'
  <2>1. /\ packet'[o] = packet[o] /\ message'[o] = "whole" /\ pc'[o] = "finish"
        /\ pc[o] = "copy" /\ arrived' = arrived /\ stage'[o] = "out"
    BY <1>0, <1>3 DEF CopyEnds, TypeOK, sockVars
  <2> QED
    BY <1>1, <2>1 DEF OrderlyAt
<1>4. ~AlreadyEnded(o)
  BY DEF AlreadyEnded, OrderlyAt
<1>5. ~(ReadFails(o) \/ CopyFails(o) \/ Cleanup(o))
  BY <1>0 DEF ReadFails, CopyFails, Cleanup, TypeOK, Looping
<1>6. ~FlushPanics(o)
  BY <1>0 DEF FlushPanics, TypeOK, Panicked
<1>7. ~CloseStep(o) /\ ~(o = Host /\ HostCleans)
  BY <1>0 DEF CloseStep, CloseBegins, OpenWasEnded, Looping
<1>8. ASSUME FlushChecks(o) PROVE OrderlyAt(s)'
  <2>1. UNCHANGED <<pc, packet, message, arrived>> /\ stage'[o] = "write"
    BY <1>0, <1>8 DEF FlushChecks, TypeOK, sockVars, loopVars
  <2>2. pc[o] = "finish" => frame'[o] = [number |-> packet[o], whole |-> TRUE]
    BY <1>0, <1>8, Targets DEF FlushChecks, TypeOK, OrderlyAt
  <2>3. stage[o] = "out"
    BY <1>8 DEF FlushChecks, Flushes
  <2>4. packet[o] = Len(arrived[s]) + (IF pc[o] = "read" THEN 0 ELSE 1)
    BY <1>1, <2>3 DEF OrderlyAt
  <2> QED
    BY <1>1, <2>1, <2>2, <2>4 DEF OrderlyAt
<1>9. ASSUME FlushWrites(o) PROVE OrderlyAt(s)'
  <2>1. Target(o) = s /\ Owner(o) = o /\ pc[o] \in {"copy", "finish"}
    BY <1>0, <1>9, Targets DEF FlushWrites, FramesOK, Looping
  <2>2. /\ UNCHANGED <<pc, packet, message, frame>>
        /\ stage'[o] = "written" /\ stage[o] = "write"
    BY <1>0, <1>9, <2>1 DEF FlushWrites, TypeOK, loopVars
  <2>3. CASE pc[o] = "copy"
    <3>1. arrived' = arrived
      BY <1>9, <2>3 DEF FlushWrites
    <3> QED
      BY <1>1, <2>2, <2>3, <3>1 DEF OrderlyAt
  <2>4. CASE pc[o] = "finish"
    <3>1. message[o] = "whole" /\ frame[o] = [number |-> packet[o], whole |-> TRUE]
      BY <2>2, <2>4 DEF OrderlyAt
    <3>2. Received(o) = {frame[o]} /\ frame[o].number = packet[o]
      BY <2>1, <3>1 DEF Received
    <3>3. arrived'[s] = Append(arrived[s], [number |-> packet[o], whole |-> TRUE])
      <4>1. arrived' = [arrived EXCEPT ![s] = Append(@, frame[o])]
        <5>1. stage' = [stage EXCEPT ![o] = "written"]
          BY <1>0, <1>9, <2>2 DEF FlushWrites, TypeOK
        <5>2. \E m \in Received(o) : arrived' = [arrived EXCEPT ![s] = Append(@, m)]
          BY <1>0, <1>9, <2>1, <2>2, <2>4 DEF FlushWrites, TypeOK
        <5> QED
          BY <3>2, <5>2
      <4> QED
        BY <1>0, <3>1, <4>1 DEF TypeOK
    <3>4. packet[o] = Len(arrived[s]) + 1
      BY <1>1, <2>2, <2>4 DEF OrderlyAt
    <3>5. [number |-> packet[o], whole |-> TRUE] \in Packets
      BY <1>1 DEF Packets
    <3>6. /\ Len(arrived'[s]) = Len(arrived[s]) + 1
          /\ \A i \in 1..Len(arrived[s]) : arrived'[s][i] = arrived[s][i]
          /\ arrived'[s][Len(arrived[s]) + 1] = [number |-> packet[o], whole |-> TRUE]
      BY <1>1, <3>3, <3>5
    <3>7. \A i \in 1..Len(arrived'[s]) : arrived'[s][i] = [number |-> i, whole |-> TRUE]
      <4>1. ASSUME NEW i \in 1..Len(arrived'[s])
            PROVE  arrived'[s][i] = [number |-> i, whole |-> TRUE]
        <5>1. CASE i = Len(arrived[s]) + 1
          BY <3>4, <3>6, <5>1
        <5>2. CASE i # Len(arrived[s]) + 1
          <6>1. i \in 1..Len(arrived[s])
            BY <1>1, <3>6, <5>2
          <6> QED
            BY <3>6, <6>1 DEF OrderlyAt
        <5> QED
          BY <5>1, <5>2
      <4> QED
        BY <4>1
    <3>8. packet'[o] = Len(arrived'[s])
      BY <2>2, <3>4, <3>6
    <3> QED
      BY <1>1, <2>2, <2>4, <3>1, <3>6, <3>7, <3>8 DEF OrderlyAt
  <2> QED
    BY <2>1, <2>3, <2>4
<1>10. ASSUME FlushEnds(o) PROVE OrderlyAt(s)'
  <2>1. UNCHANGED <<packet, arrived>> /\ stage'[o] = "out" /\ stage[o] \in {"written", "failed"}
    BY <1>0, <1>10, FlushEndKinds DEF TypeOK
  <2>2. Target(o) = s /\ pc[o] \in {"copy", "finish"}
    BY <1>0, <2>1, Targets DEF FramesOK, Looping
  <2>3. stage[o] = "written"
    BY <1>0, <2>1, <2>2 DEF FramesOK
  <2>4. CASE FlushGoesOn(o)
    <3>1. pc[o] = "copy" /\ pc' = pc /\ (message'[o] = "parted" \/ message'[o] = message[o])
      BY <1>0, <2>4 DEF FlushGoesOn, TypeOK
    <3> QED
      BY <1>1, <2>1, <3>1 DEF OrderlyAt
  <2>5. CASE FlushLeavesLoop(o)
    <3>1. pc[o] = "finish" /\ pc'[o] = "read"
      BY <1>0, <2>3, <2>5 DEF FlushLeavesLoop, TypeOK
    <3> QED
      BY <1>1, <2>1, <2>3, <3>1 DEF OrderlyAt
  <2>6. ~FlushMovesOn(o)
    BY <2>2 DEF FlushMovesOn
  <2> QED
    BY <1>0, <1>10, <2>4, <2>5, <2>6, FlushEndKinds
<1> QED
  BY <1>0, <1>2, <1>3, <1>4, <1>5, <1>6, <1>7, <1>8, <1>9, <1>10 DEF Act, LoopStep, FlushStep

LEMMA OrderlyNext ==
    ASSUME TypeOK, ListsOK, FramesOK, NoneSkipped, Orderly, [Next]_vars
    PROVE  Orderly'
<1> SUFFICES ASSUME NEW s \in Sockets, Phase(s)' = "up"
             PROVE  OrderlyAt(s)'
  BY DEF Orderly, OrderlyAt
<1>1. Phase(s) = "up"
  BY PhaseFacts, PhaseMoves
<1>2. OrderlyAt(s)
  BY <1>1 DEF Orderly, OrderlyAt
<1>3. ASSUME NEW x \in Threads, Act(x) PROVE OrderlyAt(s)'
  BY <1>1, <1>2, <1>3, OrderlyRests, OrderlyLoops
<1>4. CASE UNCHANGED <<arrived, pc, stage, frame, packet, message>>
  BY <1>2, <1>4 DEF OrderlyAt
<1> QED
  BY <1>3, <1>4, Steps DEF RoomDeleted, vars, sockVars, loopVars

-----------------------------------------------------------------------------
(* Who panics *)

\* The flag of a socket is set by a write, and reset by its end.
LEMMA FlagMoves ==
    ASSUME TypeOK, ListsOK, FramesOK, NEW x \in Threads, Act(x), NEW s \in Sockets
    PROVE  /\ FlushWrites(x) /\ Target(x) = s => isWriting'[s]
           /\ FlushEnds(x) /\ Target(x) = s => ~isWriting'[s]
           /\ \/ isWriting'[s] = isWriting[s]
              \/ (FlushWrites(x) \/ FlushEnds(x)) /\ Target(x) = s
<1> USE DEF TypeOK
<1>1. FlushWrites(x) => isWriting' = [isWriting EXCEPT ![Target(x)] = TRUE]
  BY DEF FlushWrites
<1>2. FlushEnds(x) => isWriting' = [isWriting EXCEPT ![Target(x)] = FALSE]
  BY FlushEndKinds
<1>3. ~FlushWrites(x) /\ ~FlushEnds(x) => UNCHANGED isWriting
  BY DEF Act, FlushStep, ReadPacket, LoopStep, ReadFails, CopyFails, CopyEnds, AlreadyEnded,
    Cleanup, FlushChecks, FlushPanics, CloseStep, CloseBegins, OpenWasEnded, HostCleans, sockVars
<1>4. FlushWrites(x) => ~FlushEnds(x)
  BY DEF FlushWrites, FlushEnds
<1> QED
  BY <1>1, <1>2, <1>3, <1>4

\* Whoever has set a flag looks at it next.
LEMMA FlaggingSteps ==
    ASSUME TypeOK, ListsOK, FramesOK, NEW x \in Threads, Act(x)
    PROVE  /\ Flagging(x) => FlushEnds(x) \/ (FlushPanics(x) /\ ~isWriting[Target(x)])
           /\ Flagging(x)' <=> FlushWrites(x)
<1>1. Flagging(x) => FlushEnds(x) \/ (FlushPanics(x) /\ ~isWriting[Target(x)])
  BY DEF Flagging, FramesOK, Act, ReadPacket, LoopStep, ReadFails, CopyFails, CopyEnds,
    AlreadyEnded, Cleanup, FlushStep, FlushChecks, FlushWrites, FlushPanics, Flushes,
    CloseStep, CloseBegins, OpenWasEnded, HostCleans, ListsOK
<1>2. FlushWrites(x) => Flagging(x)'
  BY DEF FlushWrites, Flagging, TypeOK
<1>3. ~FlushWrites(x) => ~Flagging(x)'
  BY OutOfFlush DEF FlushChecks, Flagging, TypeOK
<1> QED
  BY <1>1, <1>2, <1>3

LEMMA FlagsOKNext ==
    ASSUME TypeOK, ListsOK, FramesOK, FlagsOK, [Next]_vars
    PROVE  FlagsOK'
<1> SUFFICES ASSUME \A x \in Threads : pc'[x] \in Looping, NEW s \in Sockets
             PROVE  isWriting'[s] <=> Flagging(Other(s))'
  BY DEF FlagsOK
<1>0. \A x \in Threads : pc'[x] \in Looping
  OBVIOUS
<1>1. ASSUME NEW x \in Threads, Act(x) PROVE isWriting'[s] <=> Flagging(Other(s))'
  <2>1. \A y \in Threads : pc[y] \in Looping
    BY <1>1, LoopLeft
  <2>2. isWriting[s] <=> Flagging(Other(s))
    BY <2>1 DEF FlagsOK
  <2>3. ~FlushPanics(x)
    <3>1. FlushPanics(x) => pc'[x] \in {"cleanup", "done"}
      BY DEF FlushPanics, TypeOK, Goto
    <3>2. pc'[x] \in Looping
      BY <1>0
    <3> QED
      BY <3>1, <3>2 DEF Looping
  <2>4. Flagging(x) \/ FlushWrites(x) => Target(x) = Other(x) /\ x \in Sockets
    BY <2>1, Targets DEF Flagging, FramesOK, FlushWrites, Looping
  <2>5. CASE x = Other(s)
    <3>1. Flagging(x) => FlushEnds(x)
      BY <1>1, <2>3, FlaggingSteps
    <3>2. FlushEnds(x) => Flagging(x)
      BY FlushEndKinds DEF Flagging
    <3>3. Flagging(x) \/ FlushWrites(x) => Target(x) = s
      BY <2>4, <2>5, OtherFacts
    <3> QED
      BY <1>1, <2>2, <2>5, <3>1, <3>2, <3>3, FlagMoves, FlaggingSteps
  <2>6. CASE x # Other(s)
    <3>1. Flagging(Other(s))' <=> Flagging(Other(s))
      BY <1>1, <2>6, OthersRest, OtherFacts DEF Rests, Flagging
    <3>2. FlushEnds(x) => Flagging(x)
      BY FlushEndKinds DEF Flagging
    <3>3. FlushWrites(x) \/ FlushEnds(x) => Target(x) # s
      BY <2>4, <2>6, <3>2, OtherFacts
    <3> QED
      BY <1>1, <2>2, <3>1, <3>3, FlagMoves
  <2> QED
    BY <2>5, <2>6
<1>2. CASE UNCHANGED <<pc, stage, isWriting>>
  BY <1>2 DEF FlagsOK, Flagging
<1> QED
  BY <1>1, <1>2, Steps DEF RoomDeleted, vars, sockVars

\* Nobody closes the sockets of a listed room from outside.
LEMMA HostIdle ==
    ASSUME TypeOK, ListsOK, FramesOK, NEW x \in Threads, Act(x), listed, listed'
    PROVE  x \in Sockets
<1> SUFFICES ASSUME x = Host
             PROVE  FALSE
  BY ThreadKinds
<1>1. pc[x] = "read" /\ stage[x] = "out" /\ x \notin Sockets
  BY OtherFacts, ThreadsAssumption DEF ListsOK, FramesOK, TypeOK
<1> QED
  BY <1>1 DEF Act, FlushStep, FlushChecks, FlushWrites, FlushEnds, FlushPanics, Flushes,
    CloseStep, CloseBegins, OpenWasEnded, HostCleans

LEMMA ClosedStays ==
    ASSUME TypeOK, ListsOK, FramesOK, NEW x \in Threads, Act(x), NEW s \in Sockets, closed[s]
    PROVE  closed'[s]
<1>1. MovesOn(x) => closed'[s]
  BY DEF MovesOn, TypeOK
<1>2. FlushEnds(x) => UNCHANGED closed \/ MovesOn(x)
  BY FlushEndKinds DEF FlushGoesOn, FlushLeavesLoop, FlushMovesOn
<1>3. CloseStep(x) => UNCHANGED closed \/ MovesOn(x)
  BY SayByeMoves DEF CloseStep, CloseBegins, OpenWasEnded, Closing
<1> QED
  BY <1>1, <1>2, <1>3
  DEF Act, FlushStep, ReadPacket, LoopStep, ReadFails, CopyFails, CopyEnds, AlreadyEnded, Cleanup,
    FlushChecks, FlushWrites, FlushPanics, HostCleans, sockVars

\* Only the others doom a goroutine.
LEMMA ActorNotDoomed ==
    ASSUME TypeOK, ListsOK, FramesOK, NEW x \in Threads, Act(x)
    PROVE  ~Doomed(x)'
<1> USE DEF Goto, sockVars, loopVars
<1>1. ASSUME Flagging(x)' PROVE isWriting'[Target(x)']
  <2>1. FlushWrites(x)
    BY <1>1, FlaggingSteps
  <2>2. Target(x)' = Target(x) /\ Target(x) \in Sockets
    BY <2>1, RestKeepsTarget, Targets, OtherFacts DEF FlushWrites, FramesOK, Closing
  <2> QED
    BY <2>1, <2>2, FlagMoves
<1>2. ASSUME pc'[x] = "endOpen", stage'[x] = "out" PROVE writer'[Target(x)']
  <2>1. ~MovesOn(x)
    BY <1>2 DEF MovesOn, TypeOK
  <2>2. ~FlushEnds(x)
    BY <1>2, <2>1, FlushEndKinds DEF FlushGoesOn, FlushLeavesLoop, FlushMovesOn, TypeOK
  <2>3. ~OpenWasEnded(x)
    BY <2>1, SayByeMoves DEF OpenWasEnded, Closing
  <2>4. CloseBegins(x)
    BY <1>2, <2>2, <2>3
    DEF Act, FlushStep, CloseStep, ReadPacket, LoopStep, ReadFails, CopyFails, CopyEnds,
        AlreadyEnded, Cleanup, Leave, FlushChecks, FlushWrites, FlushPanics, HostCleans, TypeOK
  <2>5. pc[x] = "close" /\ writer[Target(x)] /\ UNCHANGED <<writer, toClose>>
    BY <2>1, <2>4, SayByeMoves DEF CloseBegins, Closing
  <2>6. Target(x)' = Target(x)
    BY <1>2, <2>5 DEF Target
  <2> QED
    BY <2>5, <2>6
<1>3. \/ ~Doomed(x)'
      \/ Flagging(x)' /\ ~isWriting'[Target(x)']
      \/ pc'[x] = "endOpen" /\ stage'[x] = "out" /\ ~writer'[Target(x)']
  BY DEF Doomed
<1> QED
  BY <1>1, <1>2, <1>3

\* Who panics leaves the other one alone and unharmed, or has nothing left to close.
LEMMA PanicSpares ==
    ASSUME TypeOK, ListsOK, FramesOK, TeardownOK, listed, NEW x \in Sockets, FlushPanics(x)
    PROVE  \/ \A t \in Sockets : closed[t]
           \/ pc[Other(x)] # "done" /\ ~Doomed(Other(x))
<1>1. CASE Flushes(x) /\ isWriting[Target(x)]
  <2>1. Target(x) \in Sockets
    BY <1>1, Targets, OtherFacts DEF Flushes, Closing
  <2>2. PICK y \in Sockets : Flagging(y) /\ Target(y) = Target(x)
    BY <1>1, <2>1 DEF TeardownOK
  <2>3. y = Other(x)
    BY <1>1, <2>2, OtherFacts DEF Flushes, Flagging
  <2> QED
    BY <1>1, <2>2, <2>3, OtherFacts DEF Doomed, Flagging, FramesOK
<1>2. CASE Doomed(x)
  BY <1>2, OtherFacts DEF TeardownOK
<1> QED
  BY <1>1, <1>2 DEF FlushPanics, Doomed, Flagging

\* A goroutine that is through with its list has closed both sockets.
LEMMA ThroughHasClosed ==
    ASSUME TypeOK, ListsOK, TeardownOK, listed, NEW x \in Sockets, pc[x] \in Closing, MovesOn(x)
    PROVE  /\ pc'[x] = "done" => \A t \in Sockets : closed'[t]
           /\ toClose'[x] = <<x>> => closed'[Other(x)]
<1>0. x \in Threads /\ Other(x) \in Sockets /\ Other(x) # x /\ \A t \in Sockets : t = x \/ t = Other(x)
  BY OtherFacts
<1>1. toClose[x] = <<x>> \/ toClose[x] = <<Other(x), x>>
  BY <1>0, Targets DEF ListsOK
<1>2. CASE pc' = [pc EXCEPT ![x] = "bye"] /\ UNCHANGED <<closed, toClose>>
  BY <1>0, <1>2 DEF TypeOK, TeardownOK
<1>3. CASE /\ closed' = [closed EXCEPT ![Target(x)] = TRUE]
           /\ toClose' = [toClose EXCEPT ![x] = Tail(@)]
           /\ Tail(toClose[x]) # <<>> => pc' = [pc EXCEPT ![x] = "close"]
  <2>1. closed'[Target(x)] /\ \A t \in Sockets : closed[t] => closed'[t]
    BY <1>0, <1>3, Targets DEF TypeOK
  <2>2. toClose'[x] = Tail(toClose[x]) /\ Target(x) = Head(toClose[x])
    BY <1>0, <1>3, Targets DEF TypeOK
  <2>3. CASE toClose[x] = <<x>>
    <3>1. Tail(toClose[x]) = <<>> /\ Head(toClose[x]) = x /\ <<x>> # <<>>
      BY <2>3
    <3>2. closed[Other(x)]
      BY <2>3 DEF TeardownOK
    <3> QED
      BY <1>0, <2>1, <2>2, <3>1, <3>2
  <2>4. CASE toClose[x] = <<Other(x), x>>
    <3>1. Tail(toClose[x]) = <<x>> /\ Head(toClose[x]) = Other(x) /\ <<x>> # <<>>
      BY <2>4
    <3>2. pc'[x] = "close"
      BY <1>0, <1>3, <3>1 DEF TypeOK
    <3> QED
      BY <2>1, <2>2, <3>1, <3>2
  <2> QED
    BY <1>1, <2>3, <2>4
<1> QED
  BY <1>2, <1>3 DEF MovesOn

\* How a goroutine of a listed room gets out of its handler, and to its own socket.
LEMMA WaysOut ==
    ASSUME TypeOK, ListsOK, FramesOK, NEW x \in Sockets, Act(x), listed
    PROVE  /\ pc'[x] = "done" => (pc[x] \in Closing /\ MovesOn(x)) \/ FlushPanics(x)
           /\ \/ toClose'[x] # <<x>>
              \/ toClose'[x] = toClose[x]
              \/ pc[x] \in Closing /\ MovesOn(x)
<1> DEFINE Out == /\ pc'[x] = "done" => (pc[x] \in Closing /\ MovesOn(x)) \/ FlushPanics(x)
                  /\ \/ toClose'[x] # <<x>>
                     \/ toClose'[x] = toClose[x]
                     \/ pc[x] \in Closing /\ MovesOn(x)
<1> USE DEF TypeOK, Goto, sockVars, loopVars
<1>0. x \in Threads /\ x # Host
  BY OtherFacts
<1>1. ASSUME FlushEnds(x) PROVE Out
  <2>1. FlushMovesOn(x) => pc[x] \in Closing /\ MovesOn(x)
    BY DEF FlushMovesOn, Closing
  <2>2. FlushGoesOn(x) => pc'[x] = "copy" /\ toClose'[x] = toClose[x]
    BY <1>0 DEF FlushGoesOn
  <2>3. FlushLeavesLoop(x) => pc'[x] \in {"cleanup", "read"} /\ toClose'[x] = toClose[x]
    BY <1>0 DEF FlushLeavesLoop
  <2>4. FlushGoesOn(x) \/ FlushLeavesLoop(x) \/ FlushMovesOn(x)
    BY <1>0, <1>1, FlushEndKinds
  <2> QED
    BY <2>1, <2>2, <2>3, <2>4
<1>2. CloseStep(x) => Out
  BY <1>0, SayByeMoves DEF CloseStep, CloseBegins, OpenWasEnded, Closing
<1>3. Cleanup(x) => Out
  <2>1. <<Other(x), x>> # <<x>>
    OBVIOUS
  <2> QED
    BY <1>0, <2>1 DEF Cleanup, PartnerFirst
<1>4. FlushPanics(x) => Out
  <2>1. <<>> # <<x>>
    OBVIOUS
  <2> QED
    BY <1>0, <2>1 DEF FlushPanics
<1>5. ReadPacket(x) \/ LoopStep(x) \/ AlreadyEnded(x) => Out
  BY <1>0 DEF ReadPacket, LoopStep, ReadFails, CopyFails, CopyEnds, AlreadyEnded
<1>6. FlushChecks(x) \/ FlushWrites(x) => Out
  BY <1>0 DEF FlushChecks, FlushWrites, Flushes, FramesOK
<1> QED
  BY <1>0, <1>1, <1>2, <1>3, <1>4, <1>5, <1>6 DEF Act, FlushStep

LEMMA TeardownOKNext ==
    ASSUME TypeOK, ListsOK, FramesOK, TeardownOK, [Next]_vars
    PROVE  TeardownOK'
<1> SUFFICES ASSUME listed' PROVE TeardownOK'
  BY DEF TeardownOK
<1>1. ASSUME NEW x \in Sockets, Act(x), listed PROVE TeardownOK'
  <2>0. x \in Threads
    BY OtherFacts
  <2>1. ASSUME NEW s \in Sockets, isWriting'[s]
        PROVE  \E y \in Sockets : Flagging(y)' /\ Target(y)' = s
    <3>1. CASE FlushWrites(x) /\ Target(x) = s
      <4>1. pc'[x] = pc[x] /\ toClose'[x] = toClose[x]
        BY <3>1 DEF FlushWrites
      <4> QED
        BY <1>1, <2>0, <3>1, <4>1, FlaggingSteps, RestKeepsTarget
    <3>2. CASE ~(FlushWrites(x) /\ Target(x) = s)
      <4>1. isWriting[s] /\ ~(FlushEnds(x) /\ Target(x) = s)
        BY <1>1, <2>0, <2>1, <3>2, FlagMoves
      <4>2. PICK y \in Sockets : Flagging(y) /\ Target(y) = s
        BY <1>1, <4>1 DEF TeardownOK
      <4>3. y # x
        BY <1>1, <2>0, <4>1, <4>2, FlaggingSteps
      <4>4. y \in Threads /\ Rests(y)
        BY <1>1, <2>0, <4>3, OthersRest, OtherFacts
      <4>5. Flagging(y)' /\ Target(y)' = s
        BY <4>2, <4>4, RestKeepsTarget DEF Rests, Flagging
      <4> QED
        BY <4>5
    <3> QED
      BY <3>1, <3>2
  <2>2. ~Doomed(x)'
    BY <1>1, <2>0, ActorNotDoomed
  <2>3. ASSUME NEW s \in Sockets PROVE ~Doomed(s)' \/ ~Doomed(Other(s))'
    <3>1. s = x \/ Other(s) = x
      BY <1>1, <2>3, OtherFacts
    <3> QED
      BY <2>2, <3>1
  <2> DEFINE Shut == \A t \in Sockets : closed[t]
  <2>4. Shut => Shut'
    BY <1>1, <2>0, ClosedStays
  <2>5. /\ Other(x) \in Sockets /\ Other(x) \in Threads /\ Other(x) # x
        /\ Rests(Other(x)) /\ Other(Other(x)) = x
    BY <1>1, <2>0, OthersRest, OtherFacts
  <2>6. pc'[x] = "done" =>
            Shut' \/ (FlushPanics(x) /\ (Shut \/ (pc[Other(x)] # "done" /\ ~Doomed(Other(x)))))
    BY <1>1, <2>0, WaysOut, ThroughHasClosed, PanicSpares
  <2>7. FlushPanics(x) => (Doomed(Other(x))' => Doomed(Other(x)))
    <3>1. Target(Other(x))' = Target(Other(x))
      BY <2>5 DEF Rests, Target, Other
    <3> QED
      BY <2>5, <3>1 DEF FlushPanics, Doomed, Flagging, Rests, sockVars
  <2>8. ASSUME NEW s \in Sockets, pc'[s] = "done"
        PROVE  Shut' \/ (pc'[Other(s)] # "done" /\ ~Doomed(Other(s))')
    <3>1. CASE s = x
      BY <2>4, <2>5, <2>6, <2>7, <2>8, <3>1 DEF Rests
    <3>2. CASE s = Other(x)
      <4>1. pc[Other(x)] = "done" /\ Other(s) = x
        BY <2>5, <2>8, <3>2 DEF Rests
      <4> QED
        BY <2>2, <2>4, <2>6, <4>1
    <3> QED
      BY <1>1, <3>1, <3>2, OtherFacts
  <2>9. ASSUME NEW s \in Sockets, toClose'[s] = <<s>> PROVE closed'[Other(s)]
    <3>1. CASE s = x /\ pc[x] \in Closing /\ MovesOn(x)
      BY <1>1, <2>9, <3>1, ThroughHasClosed
    <3>2. CASE toClose'[s] = toClose[s]
      <4>1. closed[Other(s)] /\ Other(s) \in Sockets
        BY <1>1, <2>9, <3>2, OtherFacts DEF TeardownOK
      <4> QED
        BY <1>1, <2>0, <4>1, ClosedStays
    <3> QED
      BY <1>1, <2>5, <2>9, <3>1, <3>2, WaysOut, OtherFacts DEF Rests
  <2> QED
    BY <2>1, <2>3, <2>8, <2>9 DEF TeardownOK
<1>2. CASE UNCHANGED vars
  <2>1. UNCHANGED <<isWriting, writer, closed, listed, pc, stage, toClose>>
    BY <1>2 DEF vars, sockVars
  <2>2. \A x : Target(x)' = Target(x)
    BY <2>1 DEF Target
  <2> QED
    BY <2>1, <2>2 DEF TeardownOK, Doomed, Flagging
<1>3. listed \/ UNCHANGED vars
  BY DEF Next, ReadPacket, LoopStep, ReadFails, CopyFails, CopyEnds, AlreadyEnded, Cleanup,
    FlushStep, FlushChecks, FlushWrites, FlushEnds, FlushPanics, CloseStep, CloseBegins,
    OpenWasEnded, HostCleans, RoomDeleted
<1>4. ~RoomDeleted
  BY DEF RoomDeleted
<1> QED
  BY <1>1, <1>2, <1>3, <1>4, Steps, HostIdle

-----------------------------------------------------------------------------
(* The refinement *)

LatestOf(s) == CHOOSE n \in 0..Len(arrived[s]) : IsLatest(s, n)

\* The steps of Pipe, in the direction to s.
Deliver(s) ==
    /\ Phase(s) = "up" /\ Phase(s)' = Phase(s)
    /\ arrived'[s] = Append(arrived[s], [number |-> LatestOf(s) + 1, whole |-> TRUE])

DeliverLate(s) ==
    /\ Phase(s) = "ending" /\ Phase(s)' = Phase(s)
    /\ \E number \in 1..(LatestOf(s) + 1), whole \in BOOLEAN :
            arrived'[s] = Append(arrived[s], [number |-> number, whole |-> whole])

Teardown(s) ==
    /\ \/ Phase(s) = "up" /\ Phase(s)' = "ending"
       \/ Phase(s) # "closed" /\ Phase(s)' = "closed"
    /\ arrived'[s] = arrived[s]

Idle(s) == arrived'[s] = arrived[s] /\ Phase(s)' = Phase(s)

LEMMA LatestFacts ==
    ASSUME TypeOK, NoneSkipped, NEW s \in Sockets
    PROVE  LatestOf(s) \in 0..Len(arrived[s]) /\ LatestOf(s) \in Nat /\ IsLatest(s, LatestOf(s))
<1>1. \E n \in 0..Len(arrived[s]) : IsLatest(s, n)
  BY NoneSkippedSplit DEF LatestOK
<1>2. LatestOf(s) \in 0..Len(arrived[s]) /\ IsLatest(s, LatestOf(s))
  BY <1>1 DEF LatestOf
<1> QED
  BY <1>2

\* As long as a direction is up the highest number is the number of packets.
LEMMA LatestWhileUp ==
    ASSUME TypeOK, NoneSkipped, NEW s \in Sockets, OrderlyAt(s)
    PROVE  LatestOf(s) = Len(arrived[s])
<1>1. arrived[s] \in Seq(Packets) /\ Len(arrived[s]) \in Nat
  BY DEF TypeOK
<1>2. CASE Len(arrived[s]) = 0
  BY <1>1, <1>2, LatestFacts
<1>3. CASE Len(arrived[s]) # 0
  <2>1. arrived[s][Len(arrived[s])].number = Len(arrived[s])
    <3>1. Len(arrived[s]) \in 1..Len(arrived[s])
      BY <1>1, <1>3
    <3>2. \A i \in 1..Len(arrived[s]) : arrived[s][i] = [number |-> i, whole |-> TRUE]
      BY DEF OrderlyAt
    <3>3. arrived[s][Len(arrived[s])] = [number |-> Len(arrived[s]), whole |-> TRUE]
      BY <3>1, <3>2
    <3> QED
      BY <3>3
  <2>2. Len(arrived[s]) <= LatestOf(s)
    BY <1>1, <1>3, <2>1, LatestFacts DEF IsLatest
  <2> QED
    BY <1>1, <2>2, LatestFacts
<1> QED
  BY <1>2, <1>3

\* A frame that ends a message delivers the next packet while the direction is up,
\* and part of one, or one that came before, while it is torn down.
LEMMA WriteDelivers ==
    ASSUME TypeOK, ListsOK, FramesOK, NoneSkipped, Orderly,
           NEW x \in Threads, FlushWrites(x), pc[x] \in {"finish", "endOpen"},
           stage'[x] = "written", NEW s \in Sockets, s = Target(x), writeErr[s] = "none",
           NEW m \in Received(x), arrived' = [arrived EXCEPT ![s] = Append(@, m)]
    PROVE  Deliver(s) \/ DeliverLate(s)
<1>1. /\ Owner(x) = Other(s) /\ stage[x] = "write"
      /\ arrived'[s] = Append(arrived[s], m)
  BY Targets, OtherFacts DEF FlushWrites, Closing, TypeOK
<1>2. m \in Packets /\ m.number \in 1..(LatestOf(s) + 1)
  BY <1>1, ReceivedType, ReceivedNext, LatestFacts
<1>3. UNCHANGED <<writeErr, panics, pc, toClose>>
  BY DEF FlushWrites, TypeOK
<1>4. Phase(s)' = Phase(s) /\ Phase(s) \in {"up", "ending"}
  BY <1>1, <1>3, PhaseFacts DEF Phase, Panicked
<1>5. CASE Phase(s) = "ending"
  <2>1. m = [number |-> m.number, whole |-> m.whole] /\ m.whole \in BOOLEAN
    BY <1>2 DEF Packets
  <2> QED
    BY <1>1, <1>2, <1>4, <1>5, <2>1 DEF DeliverLate
<1>6. CASE Phase(s) = "up"
  <2>1. OrderlyAt(s)
    BY <1>1, <1>6 DEF Orderly, OrderlyAt
  <2>2. x = Other(s) /\ pc[x] = "finish" /\ Owner(x) = x
    <3>1. pc[x] \in {"copy", "finish"} /\ x = Other(s)
      BY <1>6, UpWriter DEF Closing
    <3> QED
      BY <3>1, Targets
  <2>3. /\ message[x] = "whole" /\ frame[x] = [number |-> packet[x], whole |-> TRUE]
        /\ packet[x] = Len(arrived[s]) + 1
    BY <1>1, <2>1, <2>2 DEF OrderlyAt, TypeOK
  <2>4. m = [number |-> packet[x], whole |-> TRUE]
    BY <2>2, <2>3 DEF Received
  <2> QED
    BY <1>1, <1>4, <1>6, <2>1, <2>3, <2>4, LatestWhileUp DEF Deliver
<1> QED
  BY <1>4, <1>5, <1>6

LEMMA DirectionStep ==
    ASSUME IInv, [Next]_vars, NEW s \in Sockets
    PROVE  Deliver(s) \/ DeliverLate(s) \/ Teardown(s) \/ Idle(s)
<1> USE DEF IInv
<1>1. CASE arrived'[s] = arrived[s]
  BY <1>1, PhaseFacts, PhaseMoves DEF Teardown, Idle
<1>2. ASSUME NEW x \in Threads, Act(x), arrived'[s] # arrived[s]
      PROVE  Deliver(s) \/ DeliverLate(s)
  <2>1. PICK m \in Received(x) :
            /\ FlushWrites(x) /\ pc[x] \in {"finish", "endOpen"}
            /\ stage'[x] = "written" /\ writeErr[Target(x)] = "none"
            /\ arrived' = [arrived EXCEPT ![Target(x)] = Append(@, m)]
    BY <1>2, OnlyFlushWrites
  <2>2. s = Target(x)
    BY <1>2, <2>1 DEF TypeOK
  <2> QED
    BY <2>1, <2>2, WriteDelivers
<1> QED
  BY <1>1, <1>2, Steps DEF RoomDeleted, vars, sockVars

\* The inductive invariant: types, lists, frames, and what has arrived.
THEOREM InvariantHolds == Spec => []IInv
<1>1. Init => IInv
  <2> SUFFICES ASSUME Init PROVE IInv
    OBVIOUS
  <2>1. TypeOK
    BY OtherFacts DEF Init, TypeOK, Looping, Lists, Sockets
  <2>2. ListsOK /\ FramesOK
    BY OtherFacts DEF Init, ListsOK, FramesOK, Closing, Threads
  <2>3. NoneSkipped
    BY OtherFacts DEF Init, NoneSkipped, Reached, IsLatest, Sockets, Threads
  <2>4. Orderly
    BY OtherFacts DEF Init, Orderly, Threads
  <2>5. FlagsOK /\ TeardownOK
    BY OtherFacts DEF Init, FlagsOK, TeardownOK, Flagging, Doomed, Threads
  <2> QED
    BY <2>1, <2>2, <2>3, <2>4, <2>5 DEF IInv
<1>2. IInv /\ [Next]_vars => IInv'
  BY TypeOKNext, ListsOKNext, FramesOKNext, NoneSkippedNext, OrderlyNext, FlagsOKNext,
     TeardownOKNext DEF IInv
<1> QED
  BY <1>1, <1>2, PTL DEF Spec

\* When both ends of a listed tunnel are done, no socket of it is open: the panic of
\* one goroutine's close leaves the other one, which closes the rest.
THEOREM NoSocketLeftOpenHolds == Spec => []NoSocketLeftOpen
<1>1. IInv => NoSocketLeftOpen
  <2>1. Client \in Sockets /\ Other(Client) \in Sockets
    BY OtherFacts DEF Sockets
  <2> QED
    BY <2>1 DEF IInv, TeardownOK, NoSocketLeftOpen
<1> QED
  BY <1>1, InvariantHolds, PTL

\* The forwarding loops never panic on their own: the library's flag of a socket is
\* that of its one writer until a goroutine leaves its loop.
THEOREM PanicNeedsCloserHolds == Spec => PanicNeedsCloser
<1>1. ASSUME IInv, [Next]_vars, \A x \in Threads : pc[x] \in Looping
      PROVE  UNCHANGED panics
  <2> USE <1>1 DEF IInv
  <2>1. ASSUME NEW x \in Threads, Act(x) PROVE UNCHANGED panics
    <3>1. pc[x] \in Looping
      BY <1>1
    <3>2. ~FlushPanics(x)
      <4>1. ASSUME FlushPanics(x) PROVE FALSE
        <5>1. pc[x] \in {"copy", "finish"}
          BY <3>1, <4>1 DEF FlushPanics, Flushes, FramesOK, Looping
        <5>2. x \in Sockets /\ Target(x) = Other(x)
          BY <5>1, Targets
        <5>3. isWriting[Target(x)] <=> Flagging(x)
          BY <1>1, <5>2, OtherFacts DEF FlagsOK
        <5> QED
          BY <4>1, <5>1, <5>3 DEF FlushPanics, Flushes, Flagging
      <4> QED
        BY <4>1
    <3>3. FlushEnds(x) => UNCHANGED panics
      BY <3>1, FlushEndKinds DEF FlushGoesOn, FlushLeavesLoop, FlushMovesOn, Looping
    <3> QED
      BY <2>1, <3>1, <3>2, <3>3
      DEF Act, ReadPacket, LoopStep, ReadFails, CopyFails, CopyEnds, AlreadyEnded, Cleanup,
        FlushStep, FlushChecks, FlushWrites, CloseStep, CloseBegins, OpenWasEnded, HostCleans,
        Looping, sockVars, loopVars
  <2> QED
    BY <1>1, <2>1, Steps DEF RoomDeleted, vars
<1>2. IInv /\ [Next]_vars =>
        [Panicked' => Panicked \/ \E x \in Threads : pc[x] \notin Looping]_vars
  BY <1>1 DEF Panicked
<1> QED
  BY <1>2, InvariantHolds, PTL DEF Spec, PanicNeedsCloser

\* Both directions of a tunnel implement Pipe: clientRelayHandler and
\* handleHostToRelayGameConnection pass packets on whole, once and in order, and
\* CloseWebsocket skips none.
THEOREM PipeRefined == Spec => PipeSpec
<1>1. Init => ToClient!Init /\ ToData!Init
  BY OtherFacts DEF Init, ToClient!Init, ToData!Init, Phase, Panicked, Looping, Sockets, Threads
<1>2. ASSUME IInv, [Next]_vars
      PROVE  [ToClient!Next]_<<arrived[Client], Phase(Client)>>
  <2>1. ToClient!Latest = LatestOf(Client)
    BY DEF ToClient!Latest, LatestOf, IsLatest
  <2>2. Client \in Sockets
    BY DEF Sockets
  <2>3. Deliver(Client) \/ DeliverLate(Client) \/ Teardown(Client) \/ Idle(Client)
    BY <1>2, <2>2, DirectionStep
  <2> QED
    BY <2>1, <2>3
    DEF Deliver, DeliverLate, Teardown, Idle, ToClient!Next, ToClient!Deliver,
        ToClient!DeliverLate, ToClient!Teardown, ToClient!Arrives
<1>3. ASSUME IInv, [Next]_vars
      PROVE  [ToData!Next]_<<arrived[Data], Phase(Data)>>
  <2>1. ToData!Latest = LatestOf(Data)
    BY DEF ToData!Latest, LatestOf, IsLatest
  <2>2. Data \in Sockets
    BY DEF Sockets
  <2>3. Deliver(Data) \/ DeliverLate(Data) \/ Teardown(Data) \/ Idle(Data)
    BY <1>3, <2>2, DirectionStep
  <2> QED
    BY <2>1, <2>3
    DEF Deliver, DeliverLate, Teardown, Idle, ToData!Next, ToData!Deliver,
        ToData!DeliverLate, ToData!Teardown, ToData!Arrives
<1> QED
  BY <1>1, <1>2, <1>3, InvariantHolds, PTL DEF Spec, PipeSpec, ToClient!Spec, ToData!Spec

=============================================================================
