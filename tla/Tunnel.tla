------------------------------- MODULE Tunnel -------------------------------
(***************************************************************************)
(* A tunnel at work: the socket of a client, the data socket of the host   *)
(* that is linked to it, and the goroutines that write to them.  The       *)
(* goroutine of a socket reads it and writes what it reads to the other    *)
(* one (clientRelayHandler, handleHostToRelayGameConnection); each closes  *)
(* both when it ends (handleCleanup), and so does the host's goroutine.    *)
(* Nobody locks a socket.                                                  *)
(*                                                                         *)
(* The WebSocket library (gorilla/websocket) allows one writer at a time.  *)
(* It notices another one by a flag that is no lock, and panics.  Who      *)
(* begins a message ends the one that is still open on that socket, so a   *)
(* packet whose copying has broken off arrives as if it were complete.     *)
(***************************************************************************)
EXTENDS Integers, Sequences

CONSTANTS
    Client, Data,   \* the two sockets, and their goroutines
    Host,           \* the goroutine of the host's SIGNAL socket
    MaxPackets,     \* bound: the packets that the two peers send together
    Returners,      \* the goroutines that may find another room under their code
    None

Sockets == {Client, Data}
Threads == Sockets \cup {Host}

ASSUME ThreadsAssumption ==
    /\ Client # Data
    /\ Host \notin Sockets
    /\ MaxPackets \in Nat
    /\ Returners \subseteq Sockets

VARIABLES
    arrived,    \* the messages that each peer has received in full
    writer,     \* Conn.writer is set: the library knows of an open message
    isWriting,  \* Conn.isWriting
    writeErr,   \* Conn.writeErr: "none", "closeSent" or "failed"
    closed,     \* Conn.Close was called
    listed,     \* the tunnel's room is in app.Rooms
    pc,         \* where each goroutine is
    stage,      \* how far it is in flushFrame: "out", "write", "written", "failed"
    frame,      \* the frame that it writes there
    packet,     \* the number of the last packet it has read
    message,    \* its messageWriter: "begun", "parted", "whole" or "ended"
    toClose,    \* handleCleanup's list
    panics      \* "none", "panicking", or "recovered" by a deferred function

sockVars == <<arrived, writer, isWriting, writeErr, closed>>
loopVars == <<packet, message>>
vars == <<sockVars, listed, pc, stage, frame, loopVars, toClose, panics>>

Init ==
    /\ arrived = [s \in Sockets |-> <<>>]
    /\ writer = [s \in Sockets |-> FALSE]
    /\ isWriting = [s \in Sockets |-> FALSE]
    /\ writeErr = [s \in Sockets |-> "none"]
    /\ closed = [s \in Sockets |-> FALSE]
    /\ listed = TRUE
    /\ pc = [x \in Threads |-> "read"]
    /\ stage = [x \in Threads |-> "out"]
    /\ frame = [x \in Threads |-> None]
    /\ packet = [s \in Sockets |-> 0]
    /\ message = [s \in Sockets |-> "ended"]
    /\ toClose = [x \in Threads |-> <<>>]
    /\ panics = [x \in Threads |-> "none"]

Other(s) == IF s = Client THEN Data ELSE Client

\* Variant: both loops write to the client.
ClientOnly(x) == IF pc[x] \in {"copy", "finish"} THEN Client ELSE Head(toClose[x])

\* The socket that a goroutine is writing to.
Target(x) == IF pc[x] \in {"copy", "finish"} THEN Other(x) ELSE Head(toClose[x])

Goto(x, label) == pc' = [pc EXCEPT ![x] = label]

-----------------------------------------------------------------------------
(* The forwarding loop of the goroutine of socket x *)

\* NextReader and NextWriter.  What was received before its socket was closed
\* may still be read.
ReadPacket(x) ==
    /\ pc[x] = "read"
    /\ packet[Client] + packet[Data] < MaxPackets
    /\ IF writeErr[Other(x)] # "none"
       THEN Goto(x, "cleanup") /\ UNCHANGED <<writer, loopVars>>
       ELSE /\ packet' = [packet EXCEPT ![x] = @ + 1]
            /\ message' = [message EXCEPT ![x] = "begun"]
            /\ writer' = [writer EXCEPT ![Other(x)] = TRUE]
            /\ Goto(x, "copy")
    /\ UNCHANGED <<arrived, isWriting, writeErr, closed, listed, stage, frame,
                   toClose, panics>>

\* The peer is gone or the socket closed.  The library answers a close frame of
\* the peer with one of its own.
ReadFails(x) ==
    /\ pc[x] = "read"
    /\ \/ UNCHANGED writeErr
       \/ /\ ~closed[x] /\ writeErr[x] = "none"
          /\ writeErr' = [writeErr EXCEPT ![x] = "closeSent"]
    /\ Goto(x, "cleanup")
    /\ UNCHANGED <<arrived, writer, isWriting, closed, listed, stage, frame, loopVars,
                   toClose, panics>>

\* Variant: a packet that breaks off is skipped.
CopySkips(x) ==
    /\ pc[x] = "copy" /\ stage[x] = "out"
    /\ Goto(x, "read")
    /\ UNCHANGED <<sockVars, listed, stage, frame, loopVars, toClose, panics>>

\* Variant: the error of the copying is ignored, and the message is closed.
CopyIgnored(x) ==
    /\ pc[x] = "copy" /\ stage[x] = "out"
    /\ Goto(x, "finish")
    /\ UNCHANGED <<sockVars, listed, stage, frame, loopVars, toClose, panics>>

\* The packet is too large, its sender is gone in the middle of it, or somebody
\* has ended the message.
CopyFails(x) ==
    /\ pc[x] = "copy" /\ stage[x] = "out"
    /\ Goto(x, "cleanup")
    /\ UNCHANGED <<sockVars, listed, stage, frame, loopVars, toClose, panics>>

\* All of it is in the buffer.
CopyEnds(x) ==
    /\ pc[x] = "copy" /\ stage[x] = "out"
    /\ message[x] # "ended"
    /\ message' = [message EXCEPT ![x] = "whole"]
    /\ Goto(x, "finish")
    /\ UNCHANGED <<sockVars, listed, stage, frame, packet, toClose, panics>>

\* writer.Close of a message that was ended: the loop ignores the error.
AlreadyEnded(x) ==
    /\ pc[x] = "finish" /\ stage[x] = "out"
    /\ message[x] = "ended"
    /\ Goto(x, "read")
    /\ UNCHANGED <<sockVars, listed, stage, frame, loopVars, toClose, panics>>

-----------------------------------------------------------------------------
(* flushFrame: a look at isWriting, the write, and a look after it *)

\* Whose message a frame belongs to.
Owner(x) == IF pc[x] = "endOpen" THEN Other(Target(x)) ELSE x

\* Part of a packet larger than the buffer (once per packet), the end of one's
\* own message, the end of a message that one found open, or a close frame.
Flushes(x) ==
    /\ stage[x] = "out"
    /\ \/ pc[x] = "copy" /\ message[x] = "begun"
       \/ pc[x] \in {"finish", "endOpen"} /\ message[Owner(x)] # "ended"
       \/ pc[x] = "bye"

FlushChecks(x) ==
    /\ Flushes(x)
    /\ ~isWriting[Target(x)]
    /\ stage' = [stage EXCEPT ![x] = "write"]
    /\ frame' = IF pc[x] \in {"copy", "bye"} THEN frame
                ELSE [frame EXCEPT ![x] = [number |-> packet[Owner(x)],
                                           whole |-> message[Owner(x)] = "whole"]]
    /\ UNCHANGED <<sockVars, listed, pc, loopVars, toClose, panics>>

\* All writers of a socket share its buffer: what is written of a message that
\* another goroutine has ended since the check is some of its bytes, or of the
\* next one's.
Received(x) ==
    IF message[Owner(x)] = "ended" \/ packet[Owner(x)] # frame[x].number
    THEN {[number |-> n, whole |-> FALSE] : n \in {frame[x].number, packet[Owner(x)]}}
    ELSE {frame[x]}

\* A write fails after a close frame, and may when the peer is gone.
FlushWrites(x) ==
    LET t == Target(x) IN
    /\ stage[x] = "write"
    /\ isWriting' = [isWriting EXCEPT ![t] = TRUE]
    /\ \/ /\ writeErr[t] = "none"
          /\ stage' = [stage EXCEPT ![x] = "written"]
          /\ IF pc[x] \in {"copy", "bye"} THEN UNCHANGED arrived
             ELSE \E m \in Received(x) : arrived' = [arrived EXCEPT ![t] = Append(@, m)]
          /\ writeErr' = IF pc[x] = "bye" THEN [writeErr EXCEPT ![t] = "closeSent"]
                         ELSE writeErr
       \/ /\ writeErr' = [writeErr EXCEPT ![t] = IF @ = "none" THEN "failed" ELSE @]
          /\ stage' = [stage EXCEPT ![x] = "failed"]
          /\ UNCHANGED arrived
    /\ UNCHANGED <<writer, closed, listed, pc, frame, loopVars, toClose, panics>>

\* A data goroutine recovers from a panic and cleans up again, once.
Leave(x) ==
    IF x = Data /\ panics[x] = "panicking"
    THEN Goto(x, "cleanup") /\ panics' = [panics EXCEPT ![x] = "recovered"]
    ELSE Goto(x, "done") /\ UNCHANGED panics

\* conn.Close: on to the next socket, or out.
ShutTarget(x) ==
    /\ closed' = [closed EXCEPT ![Target(x)] = TRUE]
    /\ toClose' = [toClose EXCEPT ![x] = Tail(@)]
    /\ IF Len(toClose[x]) > 1
       THEN Goto(x, "close") /\ UNCHANGED panics
       ELSE Leave(x)

\* After a close frame was sent, or a write failed, none is sent.
SayBye(x) ==
    IF writeErr[Target(x)] = "none"
    THEN Goto(x, "bye") /\ UNCHANGED <<closed, toClose, panics>>
    ELSE ShutTarget(x)

FlushEnds(x) ==
    LET t == Target(x)
        goesOn == pc[x] = "copy" /\ stage[x] = "written" IN
    /\ stage[x] \in {"written", "failed"}
    /\ isWriting[t]
    /\ isWriting' = [isWriting EXCEPT ![t] = FALSE]
    /\ stage' = [stage EXCEPT ![x] = "out"]
    /\ frame' = [frame EXCEPT ![x] = None]
    /\ writer' = IF goesOn THEN writer ELSE [writer EXCEPT ![t] = FALSE]
    /\ message' = CASE pc[x] = "bye" -> message
                    [] goesOn -> [message EXCEPT ![x] = IF @ = "begun" THEN "parted" ELSE @]
                    [] pc[x] = "copy" /\ ~goesOn -> [message EXCEPT ![x] = "ended"]
                    [] OTHER -> [message EXCEPT ![Owner(x)] =
                                    IF frame[x].number = packet[Owner(x)] THEN "ended" ELSE @]
    /\ CASE pc[x] = "copy" ->
                /\ Goto(x, IF goesOn THEN "copy" ELSE "cleanup")
                /\ UNCHANGED <<closed, toClose, panics>>
         [] pc[x] = "finish" -> Goto(x, "read") /\ UNCHANGED <<closed, toClose, panics>>
         [] pc[x] = "endOpen" -> SayBye(x)
         [] pc[x] = "bye" -> ShutTarget(x)
    /\ UNCHANGED <<arrived, writeErr, listed, packet>>

\* Somebody else is writing, or has been; or the open message is gone between
\* the two looks at it.  The goroutine unwinds: into its cleanup, or out of it.
FlushPanics(x) ==
    /\ \/ Flushes(x) /\ isWriting[Target(x)]
       \/ stage[x] \in {"written", "failed"} /\ ~isWriting[Target(x)]
       \/ pc[x] = "endOpen" /\ stage[x] = "out" /\ ~writer[Target(x)]
    /\ IF pc[x] \in {"copy", "finish"}
       THEN /\ Goto(x, "cleanup")
            /\ panics' = [panics EXCEPT ![x] = "panicking"]
       ELSE IF x = Data /\ panics[x] # "recovered"
       THEN /\ Goto(x, "cleanup")
            /\ panics' = [panics EXCEPT ![x] = "recovered"]
       ELSE /\ Goto(x, "done")
            /\ panics' = [panics EXCEPT ![x] = "panicking"]
    /\ toClose' = [toClose EXCEPT ![x] = <<>>]
    /\ stage' = [stage EXCEPT ![x] = "out"]
    /\ frame' = [frame EXCEPT ![x] = None]
    /\ UNCHANGED <<sockVars, listed, loopVars>>

-----------------------------------------------------------------------------
(* handleCleanup and CloseWebsocket *)

\* Variant: its own socket first.
OwnFirst(x) == <<x, Other(x)>>

\* Variant: the other socket is left to the partner.
OwnOnly(x) == <<x>>

PartnerFirst(x) == <<Other(x), x>>

CloseAll(x, sockets) ==
    /\ toClose' = [toClose EXCEPT ![x] = sockets]
    /\ Goto(x, "close")
    /\ UNCHANGED panics

(***************************************************************************)
(* Once the tunnel's room is unlisted its code names no room, and nothing  *)
(* is closed, or one whose maps do not hold the socket, which is then      *)
(* closed alone.  Rooms come and go under a code, so it may be either.     *)
(***************************************************************************)
Cleanup(x) ==
    /\ pc[x] = "cleanup"
    /\ \/ listed /\ CloseAll(x, PartnerFirst(x))
       \/ ~listed /\ x \in Returners /\ CloseAll(x, <<x>>)
       \/ ~listed /\ Leave(x) /\ UNCHANGED toClose
    /\ UNCHANGED <<sockVars, listed, stage, frame, loopVars>>

\* beginMessage of the close frame: an open message is ended first.
CloseBegins(x) ==
    /\ pc[x] = "close"
    /\ IF writer[Target(x)]
       THEN Goto(x, "endOpen") /\ UNCHANGED <<closed, toClose, panics>>
       ELSE SayBye(x)
    /\ UNCHANGED <<arrived, writer, isWriting, writeErr, listed, stage, frame, loopVars>>

OpenWasEnded(x) ==
    /\ pc[x] = "endOpen" /\ stage[x] = "out"
    /\ message[Owner(x)] = "ended"
    /\ writer' = [writer EXCEPT ![Target(x)] = FALSE]
    /\ SayBye(x)
    /\ UNCHANGED <<arrived, isWriting, writeErr, listed, stage, frame, loopVars>>

\* The host's goroutine ends: its room first, then the sockets of each tunnel.
HostCleans ==
    /\ listed
    /\ listed' = FALSE
    /\ toClose' = [toClose EXCEPT ![Host] = <<Data, Client>>]
    /\ Goto(Host, "close")
    /\ UNCHANGED <<sockVars, stage, frame, loopVars, panics>>

\* A creator with a reuse token, or a sweeper, deletes the room.
RoomDeleted ==
    /\ listed
    /\ listed' = FALSE
    /\ UNCHANGED <<sockVars, pc, stage, frame, loopVars, toClose, panics>>

LoopStep(x) ==
    \/ ReadFails(x)
    \/ CopyFails(x)
    \/ CopyEnds(x)

FlushStep(x) == FlushChecks(x) \/ FlushWrites(x) \/ FlushEnds(x) \/ FlushPanics(x)

CloseStep(x) == CloseBegins(x) \/ OpenWasEnded(x)

Next ==
    \/ \E x \in Sockets : ReadPacket(x) \/ LoopStep(x) \/ AlreadyEnded(x) \/ Cleanup(x)
    \/ \E x \in Threads : FlushStep(x) \/ CloseStep(x)
    \/ HostCleans
    \/ RoomDeleted

Spec == Init /\ [][Next]_vars

(***************************************************************************)
(* Goroutines run, and writes finish: no write has a deadline, so this is  *)
(* the assumption that the peers read what they are sent, or are gone.  A  *)
(* read waits for as long as its peer is silent, also in the middle of a   *)
(* packet; that it fails is certain only when the socket is closed.        *)
(***************************************************************************)
Fairness ==
    /\ \A x \in Sockets : WF_vars(closed[x] /\ LoopStep(x))
    /\ \A x \in Sockets : WF_vars(AlreadyEnded(x)) /\ WF_vars(Cleanup(x))
    /\ \A x \in Threads : WF_vars(FlushStep(x)) /\ WF_vars(CloseStep(x))

FairSpec == Spec /\ Fairness

-----------------------------------------------------------------------------
Looping == {"read", "copy", "finish"}
Panicked == \E x \in Threads : panics[x] # "none"

\* A direction is up until a goroutine that may write to its socket leaves its
\* loop or panics, and closed once that socket takes no more frames.
Phase(s) ==
    IF writeErr[s] # "none" THEN "closed"
    ELSE IF \/ Panicked
            \/ pc[Other(s)] \notin Looping
            \/ \E x \in Threads : \E i \in 1..Len(toClose[x]) : toClose[x][i] = s
         THEN "ending"
    ELSE "up"

ToClient == INSTANCE Pipe WITH delivered <- arrived[Client], phase <- Phase(Client)
ToData == INSTANCE Pipe WITH delivered <- arrived[Data], phase <- Phase(Data)

\* The tunnel implements Pipe in both directions: the two forwarding loops pass
\* packets on whole, once and in order for as long as nobody tears the tunnel
\* down, and skip none even then, although CloseWebsocket writes to a socket in
\* the middle of another goroutine's message.
PipeSpec == ToClient!Spec /\ ToData!Spec

\* The two loops never meet at a socket: the library panics, or a goroutine finds
\* the flag of another one, only after some goroutine has left its loop, so that
\* forwarding needs no lock as long as nobody calls CloseWebsocket.
PanicNeedsCloser ==
    [][Panicked' => Panicked \/ \E x \in Threads : pc[x] \notin Looping]_vars

\* Two goroutines that close the same sockets may panic, but never both of them
\* before the last socket is closed: when both ends of a listed tunnel are done,
\* handleCleanup has left no socket of it open.
NoSocketLeftOpen ==
    listed /\ (\A s \in Sockets : pc[s] = "done") => \A s \in Sockets : closed[s]

\* Once a socket of the tunnel is closed, or its goroutine has left the loop,
\* both sockets are closed and both goroutines end, whatever panics in between,
\* unless the room is unlisted first: handleCleanup closes the partner's socket
\* before its own, and whoever interrupts it closes the rest.
BothEndsFall ==
    \A s \in Sockets :
        closed[s] \/ pc[s] \notin Looping
            ~> (\A t \in Sockets : closed[t] /\ pc[t] = "done") \/ ~listed
=============================================================================
