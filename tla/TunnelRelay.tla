---------------------------- MODULE TunnelRelay -----------------------------
(***************************************************************************)
(* One session of grpc-tunnel with both of its ends: the Register handler  *)
(* and the forwarder of tunnel_server.cc, RunTunnel of tunnel_client.cc,   *)
(* and the Pump threads of session.cc on either side, joined by the two    *)
(* directions of the gRPC stream.  The module follows bytes from one       *)
(* application's socket to the other's.                                    *)
(*                                                                         *)
(* A Send is one step here (write_mu_ serialises them; TunnelServer looks  *)
(* inside it), and so is CloseAll, which runs after Shutdown has silenced  *)
(* the side.  The n-th byte an application writes is the number n.         *)
(***************************************************************************)
EXTENDS Naturals, Sequences, SequencesExt

CONSTANTS
    Streams,   \* the stream ids, one per connection the forwarder accepts
    MaxBytes   \* bound: bytes the applications of a side write to a socket

Sides == {"srv", "cli"}
Peer(x) == IF x = "srv" THEN "cli" ELSE "srv"

ASSUME RelayAssumption == MaxBytes \in [Sides -> Nat]

VARIABLES
    up,       \* whether the gRPC stream still works
    wire,     \* frames a side has sent and the other has not read
    handler,  \* where the read loop of a side is
    frame,    \* the frame it handles
    alive,    \* Session::alive_
    table,    \* the ids in Session::conns_
    closed,   \* Conn::closed
    shut,     \* whether shutdown() was called on Conn::fd
    eof,      \* whether the application closed its end of the socket
    wrote,    \* bytes the application has written to its socket
    inbox,    \* of those, the bytes recv() has not returned yet
    got,      \* bytes handed to the application
    pump,     \* where the Pump thread is
    buf,      \* the bytes it has read and not sent
    ours,     \* its local variable ours
    heard     \* history: the side has processed a CLOSE for the id

sockVars == <<eof, wrote, inbox>>
pumpVars == <<pump, buf, ours>>
vars == <<up, wire, handler, frame, alive, table, closed, shut, sockVars, got,
          pumpVars, heard>>

NoFrame == [type |-> "NONE"]
OPEN(i) == [type |-> "OPEN", id |-> i]
DATA(i, b) == [type |-> "DATA", id |-> i, data |-> b]
CLOSE(i) == [type |-> "CLOSE", id |-> i]

PerSide(v) == [x \in Sides |-> v]
PerConn(v) == [x \in Sides |-> [i \in Streams |-> v]]

Init ==
    /\ up = TRUE
    /\ wire = PerSide(<<>>)
    /\ handler = PerSide("read")
    /\ frame = PerSide(NoFrame)
    /\ alive = PerSide(TRUE)
    /\ table = PerSide({})
    /\ closed = PerConn(FALSE)
    /\ shut = PerConn(FALSE)
    /\ eof = PerConn(FALSE)
    /\ wrote = PerConn(0)
    /\ inbox = PerConn(<<>>)
    /\ got = PerConn(<<>>)
    /\ pump = PerConn("none")
    /\ buf = PerConn(<<>>)
    /\ ours = PerConn(FALSE)
    /\ heard = PerConn(FALSE)

-----------------------------------------------------------------------------
\* Session::Send: the frame is on the wire, or the side or the stream is dead.
CanSend(x) == alive[x] /\ up
Send(x, f) == wire' = IF CanSend(x) THEN [wire EXCEPT ![x] = Append(@, f)] ELSE wire

Step(x, from, to) ==
    /\ handler[x] = from
    /\ handler' = [handler EXCEPT ![x] = to]

PumpStep(x, i, from, to) ==
    /\ pump[x][i] = from
    /\ pump' = [pump EXCEPT ![x][i] = to]

(* The server's forwarder: AddConn, then the OPEN, then the Pump thread.    *)

Accept(i) ==
    /\ PumpStep("srv", i, "none", "open")
    /\ table' = [table EXCEPT !["srv"] = @ \union {i}]
    /\ UNCHANGED <<up, wire, handler, frame, alive, closed, shut, sockVars, got, buf,
                   ours, heard>>

SendOpen(i) ==
    /\ CanSend("srv")
    /\ PumpStep("srv", i, "open", "recv")
    /\ Send("srv", OPEN(i))
    /\ UNCHANGED <<up, handler, frame, alive, table, closed, shut, sockVars, got, buf,
                   ours, heard>>

\* The OPEN fails: CloseConn, and no pump is started.
OpenFails(i) ==
    /\ ~CanSend("srv")
    /\ PumpStep("srv", i, "open", "done")
    /\ table' = [table EXCEPT !["srv"] = @ \ {i}]
    /\ closed' = [closed EXCEPT !["srv"][i] = i \in table["srv"] \/ @]
    /\ shut' = [shut EXCEPT !["srv"][i] = i \in table["srv"] \/ @]
    /\ UNCHANGED <<up, wire, handler, frame, alive, sockVars, got, buf, ours, heard>>

-----------------------------------------------------------------------------
(* The read loop, the same on both sides but for OPEN.                     *)

\* stream->Read returns the next frame, of this type and for this id.
Read(x, type, i) ==
    /\ handler[x] = "read"
    /\ wire[Peer(x)] # <<>>
    /\ Head(wire[Peer(x)]).type = type
    /\ Head(wire[Peer(x)]).id = i
    /\ wire' = [wire EXCEPT ![Peer(x)] = Tail(@)]

Holds(x) == frame' = [frame EXCEPT ![x] = Head(wire[Peer(x)])]
Drops(x) == frame' = [frame EXCEPT ![x] = NoFrame]

\* OPEN: the dial is inline and succeeds; AddConn, and the Pump thread starts.
RecvOpen(i) ==
    /\ Read("cli", "OPEN", i)
    /\ table' = [table EXCEPT !["cli"] = @ \union {i}]
    /\ PumpStep("cli", i, "none", "recv")
    /\ UNCHANGED <<up, handler, frame, alive, closed, shut, sockVars, got, buf, ours,
                   heard>>

\* OPEN: the target does not match or the dial fails; a CLOSE will say so.
RecvOpenRejected(i) ==
    /\ Read("cli", "OPEN", i)
    /\ Step("cli", "read", "reply")
    /\ Holds("cli")
    /\ UNCHANGED <<up, alive, table, closed, shut, sockVars, got, pumpVars, heard>>

\* DATA: GetConn finds the socket (on to WriteAll) or does not (on to a CLOSE).
RecvData(x, i) ==
    /\ Read(x, "DATA", i)
    /\ Step(x, "read", IF i \in table[x] THEN "write" ELSE "reply")
    /\ Holds(x)
    /\ UNCHANGED <<up, alive, table, closed, shut, sockVars, got, pumpVars, heard>>

\* Mutant: one send() instead of WriteAll's loop, so a short write loses the rest.
DataWrittenShort(x) ==
    /\ Step(x, "write", "read")
    /\ LET i == frame[x].id IN
          /\ ~shut[x][i]
          /\ got' = IF eof[x][i] THEN got
                    ELSE [got EXCEPT ![x][i] = @ \o <<Head(frame[x].data)>>]
    /\ Drops(x)
    /\ UNCHANGED <<up, wire, alive, table, closed, shut, sockVars, pumpVars, heard>>

\* Mutant: WriteAll starts again from the beginning of the buffer.
DataWrittenTwice(x) ==
    /\ Step(x, "write", "read")
    /\ LET i == frame[x].id IN
          /\ ~shut[x][i]
          /\ got' = IF eof[x][i] THEN got
                    ELSE [got EXCEPT ![x][i] = @ \o frame[x].data \o frame[x].data]
    /\ Drops(x)
    /\ UNCHANGED <<up, wire, alive, table, closed, shut, sockVars, pumpVars, heard>>

\* WriteAll succeeds.  An application that has closed never sees the bytes.
DataWritten(x) ==
    /\ Step(x, "write", "read")
    /\ LET i == frame[x].id IN
          /\ ~shut[x][i]
          /\ got' = IF eof[x][i] THEN got
                    ELSE [got EXCEPT ![x][i] = @ \o frame[x].data]
    /\ Drops(x)
    /\ UNCHANGED <<up, wire, alive, table, closed, shut, sockVars, pumpVars, heard>>

\* WriteAll fails, and CloseConn takes the id out of the table.
DataFailed(x) ==
    /\ handler[x] = "write"
    /\ LET i == frame[x].id IN
          /\ eof[x][i] \/ shut[x][i]
          /\ Step(x, "write", IF i \in table[x] THEN "dshut" ELSE "reply")
          /\ table' = [table EXCEPT ![x] = @ \ {i}]
    /\ UNCHANGED <<up, wire, frame, alive, closed, shut, sockVars, got, pumpVars, heard>>

\* Mutant: CLOSE empties the table.
RecvCloseForgetsAll(x, i) ==
    /\ Read(x, "CLOSE", i)
    /\ Step(x, "read", IF i \in table[x] THEN "cshut" ELSE "read")
    /\ IF i \in table[x] THEN Holds(x) ELSE UNCHANGED frame
    /\ table' = [table EXCEPT ![x] = {}]
    /\ heard' = [heard EXCEPT ![x][i] = TRUE]
    /\ UNCHANGED <<up, alive, closed, shut, sockVars, got, pumpVars>>

\* CLOSE: CloseConn takes the id out of the table; an unknown id is ignored.
RecvClose(x, i) ==
    /\ Read(x, "CLOSE", i)
    /\ Step(x, "read", IF i \in table[x] THEN "cshut" ELSE "read")
    /\ IF i \in table[x] THEN Holds(x) ELSE UNCHANGED frame
    /\ table' = [table EXCEPT ![x] = @ \ {i}]
    /\ heard' = [heard EXCEPT ![x][i] = TRUE]
    /\ UNCHANGED <<up, alive, closed, shut, sockVars, got, pumpVars>>

\* Mutant: CloseConn sets the flag and leaves the pump in recv().
ShutConnFlagOnly(x) ==
    /\ closed' = [closed EXCEPT ![x][frame[x].id] = TRUE]
    /\ UNCHANGED shut

\* The rest of CloseConn, after the table's mutex is released.
ShutConn(x) ==
    /\ closed' = [closed EXCEPT ![x][frame[x].id] = TRUE]
    /\ shut' = [shut EXCEPT ![x][frame[x].id] = TRUE]

CloseConnShuts(x) ==
    /\ Step(x, "cshut", "read")
    /\ ShutConn(x)
    /\ Drops(x)
    /\ UNCHANGED <<up, wire, alive, table, sockVars, got, pumpVars, heard>>

FailedConnShuts(x) ==
    /\ Step(x, "dshut", "reply")
    /\ ShutConn(x)
    /\ UNCHANGED <<up, wire, frame, alive, table, sockVars, got, pumpVars, heard>>

\* Mutant: set_stream_id is forgotten.
CloseReplyNoId(x) ==
    /\ Step(x, "reply", "read")
    /\ Send(x, CLOSE(0))
    /\ Drops(x)
    /\ UNCHANGED <<up, alive, table, closed, shut, sockVars, got, pumpVars, heard>>

\* SendClose from the read loop; its result is ignored.
CloseReply(x) ==
    /\ Step(x, "reply", "read")
    /\ Send(x, CLOSE(frame[x].id))
    /\ Drops(x)
    /\ UNCHANGED <<up, alive, table, closed, shut, sockVars, got, pumpVars, heard>>

\* The gRPC stream breaks; frames under way are lost.
StreamBreaks ==
    /\ up
    /\ up' = FALSE
    /\ wire' = PerSide(<<>>)
    /\ UNCHANGED <<handler, frame, alive, table, closed, shut, sockVars, got, pumpVars,
                   heard>>

\* Read fails; Shutdown.
Shutdown(x) ==
    /\ ~up
    /\ Step(x, "read", "closeall")
    /\ alive' = [alive EXCEPT ![x] = FALSE]
    /\ UNCHANGED <<up, wire, frame, table, closed, shut, sockVars, got, pumpVars, heard>>

CloseAll(x) ==
    /\ Step(x, "closeall", "returned")
    /\ closed' = [closed EXCEPT ![x] = [i \in Streams |-> i \in table[x] \/ @[i]]]
    /\ shut' = [shut EXCEPT ![x] = [i \in Streams |-> i \in table[x] \/ @[i]]]
    /\ table' = [table EXCEPT ![x] = {}]
    /\ UNCHANGED <<up, wire, frame, alive, sockVars, got, pumpVars, heard>>

-----------------------------------------------------------------------------
(* The applications: they write, and close their sockets when they like.   *)

Connected(x, i) == pump[x][i] # "none" /\ ~eof[x][i]

AppWrites(x, i) ==
    /\ Connected(x, i)
    /\ ~shut[x][i]
    /\ wrote[x][i] < MaxBytes[x]
    /\ wrote' = [wrote EXCEPT ![x][i] = @ + 1]
    /\ inbox' = [inbox EXCEPT ![x][i] = Append(@, wrote[x][i] + 1)]
    /\ UNCHANGED <<up, wire, handler, frame, alive, table, closed, shut, eof, got,
                   pumpVars, heard>>

AppCloses(x, i) ==
    /\ Connected(x, i)
    /\ eof' = [eof EXCEPT ![x][i] = TRUE]
    /\ UNCHANGED <<up, wire, handler, frame, alive, table, closed, shut, wrote, inbox,
                   got, pumpVars, heard>>

-----------------------------------------------------------------------------
(* Session::Pump.                                                          *)

\* Mutant: the bytes read are read again.
PumpRecvKeeps(x, i) ==
    /\ PumpStep(x, i, "recv", "send")
    /\ \E n \in 1..Len(inbox[x][i]) :
          /\ buf' = [buf EXCEPT ![x][i] = SubSeq(inbox[x][i], 1, n)]
          /\ inbox' = [inbox EXCEPT ![x][i] = @]
    /\ UNCHANGED <<up, wire, handler, frame, alive, table, closed, shut, eof, wrote,
                   got, ours, heard>>

\* recv() returns some of the bytes that wait (also after a shutdown).
PumpRecv(x, i) ==
    /\ PumpStep(x, i, "recv", "send")
    /\ \E n \in 1..Len(inbox[x][i]) :
          /\ buf' = [buf EXCEPT ![x][i] = SubSeq(inbox[x][i], 1, n)]
          /\ inbox' = [inbox EXCEPT ![x][i] = SubSeq(@, n + 1, Len(@))]
    /\ UNCHANGED <<up, wire, handler, frame, alive, table, closed, shut, eof, wrote,
                   got, ours, heard>>

\* recv() returns EOF once the bytes that wait have been read.
PumpEof(x, i) ==
    /\ PumpStep(x, i, "recv", "exit")
    /\ inbox[x][i] = <<>>
    /\ shut[x][i] \/ eof[x][i]
    /\ UNCHANGED <<up, wire, handler, frame, alive, table, closed, shut, sockVars, got,
                   buf, ours, heard>>

PumpSend(x, i) ==
    /\ PumpStep(x, i, "send", IF CanSend(x) THEN "recv" ELSE "exit")
    /\ Send(x, DATA(i, buf[x][i]))
    /\ buf' = [buf EXCEPT ![x][i] = <<>>]
    /\ UNCHANGED <<up, handler, frame, alive, table, closed, shut, sockVars, got, ours,
                   heard>>

\* ours = !closed.exchange(true).
PumpExit(x, i) ==
    /\ PumpStep(x, i, "exit", "erase")
    /\ ours' = [ours EXCEPT ![x][i] = ~closed[x][i]]
    /\ closed' = [closed EXCEPT ![x][i] = TRUE]
    /\ UNCHANGED <<up, wire, handler, frame, alive, table, shut, sockVars, got, buf,
                   heard>>

PumpErase(x, i) ==
    /\ PumpStep(x, i, "erase", IF ours[x][i] THEN "close" ELSE "done")
    /\ table' = [table EXCEPT ![x] = @ \ {i}]
    /\ UNCHANGED <<up, wire, handler, frame, alive, closed, shut, sockVars, got, buf,
                   ours, heard>>

PumpClose(x, i) ==
    /\ PumpStep(x, i, "close", "done")
    /\ Send(x, CLOSE(i))
    /\ UNCHANGED <<up, handler, frame, alive, table, closed, shut, sockVars, got, buf,
                   ours, heard>>

-----------------------------------------------------------------------------
Handler(x) ==
    \/ \E i \in Streams : \/ RecvData(x, i) \/ RecvClose(x, i)
                          \/ x = "cli" /\ (RecvOpen(i) \/ RecvOpenRejected(i))
    \/ DataWritten(x) \/ DataFailed(x) \/ CloseConnShuts(x) \/ FailedConnShuts(x)
    \/ CloseReply(x) \/ Shutdown(x) \/ CloseAll(x)

Forwarder(i) == SendOpen(i) \/ OpenFails(i)

Pump(x, i) == PumpRecv(x, i) \/ PumpEof(x, i) \/ PumpSend(x, i) \/ PumpExit(x, i)
              \/ PumpErase(x, i) \/ PumpClose(x, i)

Next ==
    \/ \E x \in Sides : Handler(x)
    \/ \E i \in Streams : Accept(i) \/ Forwarder(i)
    \/ \E x \in Sides, i \in Streams : Pump(x, i) \/ AppWrites(x, i) \/ AppCloses(x, i)
    \/ StreamBreaks

Spec == Init /\ [][Next]_vars

\* The threads of the tunnel run; applications and the network do as they like.
Fairness ==
    /\ \A x \in Sides : WF_vars(Handler(x))
    /\ \A i \in Streams : WF_vars(Forwarder(i))
    /\ \A x \in Sides, i \in Streams : WF_vars(Pump(x, i))

FairSpec == Spec /\ Fairness

-----------------------------------------------------------------------------
(* Properties.                                                             *)

\* The types of the variables.
TypeOK ==
    /\ up \in BOOLEAN
    /\ handler \in [Sides -> {"read", "write", "cshut", "dshut", "reply", "closeall",
                              "returned"}]
    /\ alive \in [Sides -> BOOLEAN]
    /\ table \in [Sides -> SUBSET Streams]
    /\ \A x \in Sides, i \in Streams : wrote[x][i] \in 0..MaxBytes[x]
    /\ pump \in [Sides -> [Streams -> {"none", "open", "recv", "send", "exit", "erase",
                                       "close", "done"}]]
    /\ \A v \in {closed, shut, eof, ours, heard} :
          v \in [Sides -> [Streams -> BOOLEAN]]
    /\ \A x \in Sides : \A n \in DOMAIN wire[x] : wire[x][n].id \in Streams

\* SPEC 5.2: what an application receives is the concatenation of the DATA
\* payloads in the order sent, nothing missing, repeated or swapped.
InOrder ==
    \A x \in Sides, i \in Streams :
        /\ Len(got[x][i]) <= wrote[Peer(x)][i]
        /\ \A k \in DOMAIN got[x][i] : got[x][i][k] = k

\* A graceful end loses nothing: when the pump of one side found the end of its
\* socket by itself (ours in Pump), and the other side, whose application still
\* listens and whose session still works, has processed a CLOSE, that
\* application has received every byte written.
GracefulEnd ==
    \A x \in Sides, i \in Streams :
        LET y == Peer(x) IN
        /\ up
        /\ ours[x][i]
        /\ heard[y][i]
        /\ pump[y][i] # "none"
        /\ ~eof[y][i]
        => Len(got[y][i]) = wrote[x][i]

\* A stream is gone on both sides when no table, thread or frame knows it.
StreamGone(i) ==
    \A x \in Sides :
        /\ i \notin table[x]
        /\ pump[x][i] \in {"none", "done"}
        /\ \A n \in DOMAIN wire[x] : wire[x][n].id # i

\* SPEC 4.3 and 5.3: when one application closes, or the session ends, the
\* stream disappears from both sides for good; closes are never answered back
\* and forth for ever.
StreamEnds ==
    \A i \in Streams :
        (pump["srv"][i] # "none" /\ (eof["srv"][i] \/ eof["cli"][i] \/ ~up))
            ~> []StreamGone(i)

\* SPEC 5.3: "A peer receiving it MUST drop its socket for that id and MUST NOT
\* send further frames for it."
SilentAfterClose ==
    [][\A x \in Sides, i \in Streams :
          heard[x][i] /\ Len(wire'[x]) > Len(wire[x]) => Last(wire'[x]).id # i]_vars

\* The descriptor of a socket is closed when the table, the pump and the read
\* loop have all dropped the Conn.
Released(x, i) ==
    /\ pump[x][i] = "done"
    /\ i \notin table[x]
    /\ ~(handler[x] = "write" /\ frame[x].id = i)

\* A side's view of a stream in the terms of SplicedStream.
Phase(x, i) ==
    CASE pump[x][i] = "none" -> "idle"
      [] eof[x][i] \/ shut[x][i] \/ Released(x, i) -> "over"
      [] OTHER -> "open"

Abstract == INSTANCE SplicedStream WITH
                phase <- [x \in Sides |-> [i \in Streams |-> Phase(x, i)]]

\* The relay implements a byte pipe in each direction (SplicedStream).
ImplementsPipe == Abstract!Spec
=============================================================================
