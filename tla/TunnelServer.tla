---------------------------- MODULE TunnelServer ----------------------------
(***************************************************************************)
(* The server process of grpc-tunnel: the Registry of targets, one         *)
(* Register handler thread per tunnel, the ForwarderLoop thread, the       *)
(* AutoCallLoop thread and one detached Pump thread per spliced socket,    *)
(* sharing the Session objects of session.cc.                              *)
(*                                                                         *)
(* Grain of atomicity: one step per critical section of Registry::mu_,     *)
(* Session::conns_mu_ or Session::write_mu_, per atomic operation and per  *)
(* blocking call (accept, recv, WriteAll).  A gRPC Write is two steps, so  *)
(* that write_mu_ is held across it and other threads run meanwhile.       *)
(***************************************************************************)
EXTENDS Naturals

CONSTANTS
    Sessions,     \* the Session objects made by Register, one per RPC
    NoSession,    \* the null SessionPtr
    Names,        \* the target names that clients register
    EmptyTarget,  \* the empty target name
    FwdTarget,    \* --target: the name the forwarder routes to
    Conns,        \* the Conn objects, one per connection the forwarder accepts
    NoConn,       \* the null ConnPtr
    MaxId,        \* bound: the largest stream id that is allocated
    MaxChunks     \* bound: reads of one socket that return data

ASSUME ServerAssumption ==
    /\ NoSession \notin Sessions
    /\ NoConn \notin Conns
    /\ FwdTarget \in Names \union {EmptyTarget}
    /\ MaxId \in Nat
    /\ MaxChunks \in Nat

Targets == Names \union {EmptyTarget}
Ids == 1..MaxId

VARIABLES
    registry,  \* Registry::sessions_
    auto,      \* the AutoCallLoop thread
    handler,   \* where the Register handler of each session is
    target,    \* its local variable target
    hid,       \* the stream id of the frame it handles
    hconn,     \* the ConnPtr it holds
    taken,     \* the table CloseAll has taken over
    up,        \* whether the gRPC stream under the session still works
    alive,     \* Session::alive_
    write_mu,  \* whether Session::write_mu_ is held
    conns,     \* Session::conns_
    next_id,   \* Session::next_id_
    fpc,       \* where the ForwarderLoop thread is
    fsess,     \* its local variable sess
    fid,       \* its local variable id
    fconn,     \* its accepted socket, later its local variable conn
    osess,     \* the session a Conn was added to (an argument of its Pump)
    oid,       \* and the id it has there (an argument of its Pump)
    closed,    \* Conn::closed
    shut,      \* whether shutdown() was called on Conn::fd
    appEof,    \* whether the application closed its end of the socket
    rx,        \* reads of the socket that can still return data
    pump,      \* where the Pump thread of each Conn is
    ours       \* its local variable ours

handlerVars == <<handler, target, hid, hconn, taken>>
fwdVars == <<fpc, fsess, fid, fconn>>
sockVars == <<shut, appEof, rx>>
pumpVars == <<pump, ours>>
ownVars == <<osess, oid, next_id>>
vars == <<registry, auto, handlerVars, up, alive, write_mu, conns, fwdVars,
          ownVars, closed, sockVars, pumpVars>>

Reading == {"read", "add", "ack", "acking", "data", "dfail", "cshut",
            "dshut", "dclose", "dclosing"}
HandlerPC == Reading \union {"none", "shutdown", "closeall", "shutall", "returned"}
ForwarderPC == {"accept", "get", "add", "open", "opening", "fail", "fshut", "spawn",
                "ended"}
PumpPC == {"none", "recv", "send", "sending", "exit", "erase", "close",
           "closing", "done"}

Init ==
    /\ registry = [t \in Targets |-> NoSession]
    /\ auto = "check"
    /\ handler = [s \in Sessions |-> "none"]
    /\ target = [s \in Sessions |-> EmptyTarget]
    /\ hid = [s \in Sessions |-> 0]
    /\ hconn = [s \in Sessions |-> NoConn]
    /\ taken = [s \in Sessions |-> {}]
    /\ up = [s \in Sessions |-> TRUE]
    /\ alive = [s \in Sessions |-> TRUE]
    /\ write_mu = [s \in Sessions |-> FALSE]
    /\ conns = [s \in Sessions |-> [i \in Ids |-> NoConn]]
    /\ next_id = [s \in Sessions |-> 1]
    /\ fpc = "accept"
    /\ fsess = NoSession
    /\ fid = 0
    /\ fconn = NoConn
    /\ osess = [c \in Conns |-> NoSession]
    /\ oid = [c \in Conns |-> 0]
    /\ closed = [c \in Conns |-> FALSE]
    /\ shut = [c \in Conns |-> FALSE]
    /\ appEof = [c \in Conns |-> FALSE]
    /\ rx = [c \in Conns |-> MaxChunks]
    /\ pump = [c \in Conns |-> "none"]
    /\ ours = [c \in Conns |-> FALSE]

-----------------------------------------------------------------------------
(* Session: the two halves of Send, and the table operations.              *)

\* Mutants of SendEnters: no lock_guard; no check of alive_.
SendEntersUnlocked(s) ==
    /\ alive[s]
    /\ write_mu' = [write_mu EXCEPT ![s] = TRUE]

SendEntersDead(s) ==
    /\ ~write_mu[s]
    /\ write_mu' = [write_mu EXCEPT ![s] = TRUE]

\* Send takes write_mu_, finds alive_ and enters write_ holding the mutex.
SendEnters(s) ==
    /\ ~write_mu[s]
    /\ alive[s]
    /\ write_mu' = [write_mu EXCEPT ![s] = TRUE]

\* Send takes write_mu_, finds the session dead and returns false.
SendRefused(s) ==
    /\ ~write_mu[s]
    /\ ~alive[s]
    /\ UNCHANGED write_mu

\* write_ returns (false when the stream is broken) and write_mu_ is released.
SendLeaves(s) == write_mu' = [write_mu EXCEPT ![s] = FALSE]

\* The critical section of CloseConn, and the erase at the end of Pump.
Erase(s, i) == conns' = [conns EXCEPT ![s][i] = NoConn]

\* Mutant of ShutConn: the flag is set but the socket is not shut down.
ShutConnFlagOnly(c) ==
    /\ closed' = [closed EXCEPT ![c] = TRUE]
    /\ UNCHANGED shut

\* closed.store(true); shutdown(fd, SHUT_RDWR).
ShutConn(c) ==
    /\ closed' = [closed EXCEPT ![c] = TRUE]
    /\ shut' = [shut EXCEPT ![c] = TRUE]

(* Registry. *)

\* Mutant of RegistryAdd: no notify_all.
RegistryAddSilent(t, s) ==
    /\ registry' = [registry EXCEPT ![t] = s]
    /\ UNCHANGED auto

\* Registry::Add, with its notify_all.
RegistryAdd(t, s) ==
    /\ registry' = [registry EXCEPT ![t] = s]
    /\ auto' = IF auto = "wait" THEN "check" ELSE auto

\* Mutant of RegistryRemove: erases whatever session the name points at.
RegistryRemoveAny(t, s) == registry' = [registry EXCEPT ![t] = NoSession]

\* Registry::Remove: only an entry that still points at this session.
RegistryRemove(t, s) ==
    registry' = IF registry[t] = s
                THEN [registry EXCEPT ![t] = NoSession]
                ELSE registry

-----------------------------------------------------------------------------
(* The Register handler: one thread per session.                           *)

Step(s, from, to) ==
    /\ handler[s] = from
    /\ handler' = [handler EXCEPT ![s] = to]

\* A client dials in: the handler makes its Session and starts to read.
RegisterCalled(s) ==
    /\ Step(s, "none", "read")
    /\ UNCHANGED <<registry, auto, target, hid, hconn, taken, up, alive, write_mu,
                   conns, fwdVars, ownVars, closed, sockVars, pumpVars>>

\* Mutant of RecvRegister: a replaced name stays in the registry.
RecvRegisterKeepsOld(s, t) ==
    /\ Step(s, "read", "add")
    /\ target' = [target EXCEPT ![s] = t]
    /\ UNCHANGED <<registry, auto, hid, hconn, taken, up, alive, write_mu, conns,
                   fwdVars, ownVars, closed, sockVars, pumpVars>>

\* REGISTER: a replaced name is dropped, target becomes the new name.
RecvRegister(s, t) ==
    /\ Step(s, "read", "add")
    /\ IF target[s] # EmptyTarget /\ target[s] # t
       THEN RegistryRemove(target[s], s)
       ELSE UNCHANGED registry
    /\ target' = [target EXCEPT ![s] = t]
    /\ UNCHANGED <<auto, hid, hconn, taken, up, alive, write_mu, conns, fwdVars,
                   ownVars, closed, sockVars, pumpVars>>

AddTarget(s) ==
    /\ Step(s, "add", "ack")
    /\ RegistryAdd(target[s], s)
    /\ UNCHANGED <<target, hid, hconn, taken, up, alive, write_mu, conns, fwdVars,
                   ownVars, closed, sockVars, pumpVars>>

AckBegin(s) ==
    /\ Step(s, "ack", "acking")
    /\ SendEnters(s)
    /\ UNCHANGED <<registry, auto, target, hid, hconn, taken, up, alive, conns,
                   fwdVars, ownVars, closed, sockVars, pumpVars>>

AckEnd(s) ==
    /\ Step(s, "acking", "read")
    /\ SendLeaves(s)
    /\ UNCHANGED <<registry, auto, target, hid, hconn, taken, up, alive, conns,
                   fwdVars, ownVars, closed, sockVars, pumpVars>>

\* DATA for an id in the table: GetConn hands out a reference.
RecvData(s, i) ==
    /\ conns[s][i] # NoConn
    /\ Step(s, "read", "data")
    /\ hid' = [hid EXCEPT ![s] = i]
    /\ hconn' = [hconn EXCEPT ![s] = conns[s][i]]
    /\ UNCHANGED <<registry, auto, target, taken, up, alive, write_mu, conns,
                   fwdVars, ownVars, closed, sockVars, pumpVars>>

\* DATA for an unknown id is answered with a plain CLOSE.
RecvDataUnknown(s, i) ==
    /\ conns[s][i] = NoConn
    /\ Step(s, "read", "dclose")
    /\ hid' = [hid EXCEPT ![s] = i]
    /\ UNCHANGED <<registry, auto, target, hconn, taken, up, alive, write_mu, conns,
                   fwdVars, ownVars, closed, sockVars, pumpVars>>

\* WriteAll succeeds; the reference is dropped.
DataWritten(s) ==
    /\ Step(s, "data", "read")
    /\ ~shut[hconn[s]]
    /\ hid' = [hid EXCEPT ![s] = 0]
    /\ hconn' = [hconn EXCEPT ![s] = NoConn]
    /\ UNCHANGED <<registry, auto, target, taken, up, alive, write_mu, conns,
                   fwdVars, ownVars, closed, sockVars, pumpVars>>

\* WriteAll fails: the application has closed the socket, or it was shut down.
DataFailed(s) ==
    /\ Step(s, "data", "dfail")
    /\ appEof[hconn[s]] \/ shut[hconn[s]]
    /\ hconn' = [hconn EXCEPT ![s] = NoConn]
    /\ UNCHANGED <<registry, auto, target, hid, taken, up, alive, write_mu, conns,
                   fwdVars, ownVars, closed, sockVars, pumpVars>>

\* CloseConn after a failed write: the pump may have erased the id already ...
DataConnGone(s) ==
    /\ Step(s, "dfail", "dclose")
    /\ conns[s][hid[s]] = NoConn
    /\ UNCHANGED <<registry, auto, target, hid, hconn, taken, up, alive, write_mu,
                   conns, fwdVars, ownVars, closed, sockVars, pumpVars>>

\* ... and otherwise the entry leaves the table here.
DataCloseConn(s) ==
    /\ Step(s, "dfail", "dshut")
    /\ conns[s][hid[s]] # NoConn
    /\ hconn' = [hconn EXCEPT ![s] = conns[s][hid[s]]]
    /\ Erase(s, hid[s])
    /\ UNCHANGED <<registry, auto, target, hid, taken, up, alive, write_mu,
                   fwdVars, ownVars, closed, sockVars, pumpVars>>

\* CLOSE for an id in the table (for any other id CloseConn changes nothing).
RecvClose(s, i) ==
    /\ conns[s][i] # NoConn
    /\ Step(s, "read", "cshut")
    /\ hconn' = [hconn EXCEPT ![s] = conns[s][i]]
    /\ Erase(s, i)
    /\ UNCHANGED <<registry, auto, target, hid, taken, up, alive, write_mu,
                   fwdVars, ownVars, closed, sockVars, pumpVars>>

\* The rest of CloseConn, outside the table's mutex, after a CLOSE frame (back
\* to read) or a failed write (on to the CLOSE reply).
CloseConnShuts(s, from, to) ==
    /\ Step(s, from, to)
    /\ ShutConn(hconn[s])
    /\ hconn' = [hconn EXCEPT ![s] = NoConn]
    /\ UNCHANGED <<registry, auto, target, hid, taken, up, alive, write_mu, conns,
                   fwdVars, ownVars, appEof, rx, pumpVars>>

CloseReplyBegin(s) ==
    /\ Step(s, "dclose", "dclosing")
    /\ SendEnters(s)
    /\ UNCHANGED <<registry, auto, target, hid, hconn, taken, up, alive, conns,
                   fwdVars, ownVars, closed, sockVars, pumpVars>>

CloseReplyEnd(s) ==
    /\ Step(s, "dclosing", "read")
    /\ SendLeaves(s)
    /\ hid' = [hid EXCEPT ![s] = 0]
    /\ UNCHANGED <<registry, auto, target, hconn, taken, up, alive, conns,
                   fwdVars, ownVars, closed, sockVars, pumpVars>>

\* Read fails and the handler unregisters.
Unregister(s) ==
    /\ ~up[s]
    /\ Step(s, "read", "shutdown")
    /\ RegistryRemove(target[s], s)
    /\ UNCHANGED <<auto, target, hid, hconn, taken, up, alive, write_mu, conns,
                   fwdVars, ownVars, closed, sockVars, pumpVars>>

\* Mutant of Shutdown: alive_ is cleared without taking write_mu_.
ShutdownNoBarrier(s) ==
    /\ Step(s, "shutdown", "closeall")
    /\ alive' = [alive EXCEPT ![s] = FALSE]
    /\ UNCHANGED <<registry, auto, target, hid, hconn, taken, up, write_mu, conns,
                   fwdVars, ownVars, closed, sockVars, pumpVars>>

\* Session::Shutdown, the barrier: it waits for a write in flight.
Shutdown(s) ==
    /\ Step(s, "shutdown", "closeall")
    /\ ~write_mu[s]
    /\ alive' = [alive EXCEPT ![s] = FALSE]
    /\ UNCHANGED <<registry, auto, target, hid, hconn, taken, up, write_mu, conns,
                   fwdVars, ownVars, closed, sockVars, pumpVars>>

\* CloseAll swaps the table out under the mutex ...
CloseAll(s) ==
    /\ Step(s, "closeall", "shutall")
    /\ taken' = [taken EXCEPT ![s] = {conns[s][i] : i \in Ids} \ {NoConn}]
    /\ conns' = [conns EXCEPT ![s] = [i \in Ids |-> NoConn]]
    /\ UNCHANGED <<registry, auto, target, hid, hconn, up, alive, write_mu,
                   fwdVars, ownVars, closed, sockVars, pumpVars>>

\* ... and shuts the sockets it took, one after the other.
CloseAllShuts(s, c) ==
    /\ handler[s] = "shutall"
    /\ c \in taken[s]
    /\ taken' = [taken EXCEPT ![s] = @ \ {c}]
    /\ ShutConn(c)
    /\ UNCHANGED <<registry, auto, handler, target, hid, hconn, up, alive, write_mu,
                   conns, fwdVars, ownVars, appEof, rx, pumpVars>>

\* The handler returns: from here the stream pointer in write_ dangles.
HandlerReturns(s) ==
    /\ taken[s] = {}
    /\ Step(s, "shutall", "returned")
    /\ UNCHANGED <<registry, auto, target, hid, hconn, taken, up, alive, write_mu,
                   conns, fwdVars, ownVars, closed, sockVars, pumpVars>>

\* The transport under the RPC breaks: peer gone, network lost, or call ended.
StreamBreaks(s) ==
    /\ handler[s] # "none"
    /\ up[s]
    /\ up' = [up EXCEPT ![s] = FALSE]
    /\ UNCHANGED <<registry, auto, handlerVars, alive, write_mu, conns, fwdVars,
                   ownVars, closed, sockVars, pumpVars>>

-----------------------------------------------------------------------------
(* ForwarderLoop: one thread.                                               *)

\* accept() returns a connection.
Accept(c) ==
    /\ fpc = "accept"
    /\ osess[c] = NoSession
    /\ fpc' = "get"
    /\ fconn' = c
    /\ UNCHANGED <<registry, auto, handlerVars, up, alive, write_mu, conns, fsess,
                   fid, ownVars, closed, sockVars, pumpVars>>

\* accept() fails, other than by EINTR: the thread ends, and nobody restarts it.
AcceptFails ==
    /\ fpc = "accept"
    /\ fpc' = "ended"
    /\ UNCHANGED <<registry, auto, handlerVars, up, alive, write_mu, conns, fsess, fid,
                   fconn, ownVars, closed, sockVars, pumpVars>>

\* No tunnel serves the target: the connection is closed and may be retried.
Refuse ==
    /\ fpc = "get"
    /\ registry[FwdTarget] = NoSession
    /\ fpc' = "accept"
    /\ fconn' = NoConn
    /\ UNCHANGED <<registry, auto, handlerVars, up, alive, write_mu, conns, fsess,
                   fid, ownVars, closed, sockVars, pumpVars>>

GetSession ==
    /\ fpc = "get"
    /\ registry[FwdTarget] # NoSession
    /\ fpc' = "add"
    /\ fsess' = registry[FwdTarget]
    /\ UNCHANGED <<registry, auto, handlerVars, up, alive, write_mu, conns, fid,
                   fconn, ownVars, closed, sockVars, pumpVars>>

\* Mutant of AddConn: the id counter does not advance.
AddConnSameId ==
    /\ fpc = "add"
    /\ next_id[fsess] \in Ids
    /\ fpc' = "open"
    /\ fid' = next_id[fsess]
    /\ conns' = [conns EXCEPT ![fsess][next_id[fsess]] = fconn]
    /\ osess' = [osess EXCEPT ![fconn] = fsess]
    /\ oid' = [oid EXCEPT ![fconn] = next_id[fsess]]
    /\ UNCHANGED <<registry, auto, handlerVars, up, alive, write_mu, fsess, fconn,
                   next_id, closed, sockVars, pumpVars>>

\* NextStreamId and AddConn.
AddConn ==
    /\ fpc = "add"
    /\ next_id[fsess] \in Ids
    /\ fpc' = "open"
    /\ fid' = next_id[fsess]
    /\ next_id' = [next_id EXCEPT ![fsess] = @ + 1]
    /\ conns' = [conns EXCEPT ![fsess][next_id[fsess]] = fconn]
    /\ osess' = [osess EXCEPT ![fconn] = fsess]
    /\ oid' = [oid EXCEPT ![fconn] = next_id[fsess]]
    /\ UNCHANGED <<registry, auto, handlerVars, up, alive, write_mu, fsess, fconn,
                   closed, sockVars, pumpVars>>

OpenBegin ==
    /\ fpc = "open"
    /\ SendEnters(fsess)
    /\ fpc' = "opening"
    /\ UNCHANGED <<registry, auto, handlerVars, up, alive, conns, fsess, fid, fconn,
                   ownVars, closed, sockVars, pumpVars>>

\* The tunnel went away between Get and Send.
OpenRefused ==
    /\ fpc = "open"
    /\ SendRefused(fsess)
    /\ fpc' = "fail"
    /\ UNCHANGED <<registry, auto, handlerVars, up, alive, conns, fsess, fid, fconn,
                   ownVars, closed, sockVars, pumpVars>>

OpenEnd ==
    /\ fpc = "opening"
    /\ SendLeaves(fsess)
    /\ fpc' = IF up[fsess] THEN "spawn" ELSE "fail"
    /\ UNCHANGED <<registry, auto, handlerVars, up, alive, conns, fsess, fid, fconn,
                   ownVars, closed, sockVars, pumpVars>>

\* The loop body ends and its locals are destroyed.
NextAccept ==
    /\ fpc' = "accept"
    /\ fsess' = NoSession
    /\ fid' = 0
    /\ fconn' = NoConn

\* Mutant of OpenConnGone: the OPEN is tried again on the same session.
OpenConnRetries ==
    /\ fpc = "fail"
    /\ conns[fsess][fid] = NoConn
    /\ fpc' = "open"
    /\ UNCHANGED <<registry, auto, handlerVars, up, alive, write_mu, conns, fsess, fid,
                   fconn, ownVars, closed, sockVars, pumpVars>>

\* CloseConn after a refused OPEN: CloseAll may have taken the id already ...
OpenConnGone ==
    /\ fpc = "fail"
    /\ conns[fsess][fid] = NoConn
    /\ NextAccept
    /\ UNCHANGED <<registry, auto, handlerVars, up, alive, write_mu, conns, ownVars,
                   closed, sockVars, pumpVars>>

\* ... and otherwise the entry leaves the table here.
OpenCloseConn ==
    /\ fpc = "fail"
    /\ conns[fsess][fid] # NoConn
    /\ fpc' = "fshut"
    /\ Erase(fsess, fid)
    /\ UNCHANGED <<registry, auto, handlerVars, up, alive, write_mu, fsess, fid,
                   fconn, ownVars, closed, sockVars, pumpVars>>

OpenConnShuts ==
    /\ fpc = "fshut"
    /\ ShutConn(fconn)
    /\ NextAccept
    /\ UNCHANGED <<registry, auto, handlerVars, up, alive, write_mu, conns, ownVars,
                   appEof, rx, pumpVars>>

\* The detached Pump thread starts with references of its own.
SpawnPump ==
    /\ fpc = "spawn"
    /\ pump' = [pump EXCEPT ![fconn] = "recv"]
    /\ NextAccept
    /\ UNCHANGED <<registry, auto, handlerVars, up, alive, write_mu, conns, ownVars,
                   closed, sockVars, ours>>

-----------------------------------------------------------------------------
(* Session::Pump: one thread per spliced socket.                            *)

PumpStep(c, from, to) ==
    /\ pump[c] = from
    /\ pump' = [pump EXCEPT ![c] = to]

\* The application closes its end.
AppCloses(c) ==
    /\ osess[c] # NoSession
    /\ ~appEof[c]
    /\ appEof' = [appEof EXCEPT ![c] = TRUE]
    /\ UNCHANGED <<registry, auto, handlerVars, up, alive, write_mu, conns, fwdVars,
                   ownVars, closed, shut, rx, pumpVars>>

\* recv() returns data (possibly data that was buffered before a shutdown).
PumpRecv(c) ==
    /\ PumpStep(c, "recv", "send")
    /\ rx[c] > 0
    /\ rx' = [rx EXCEPT ![c] = @ - 1]
    /\ UNCHANGED <<registry, auto, handlerVars, up, alive, write_mu, conns, fwdVars,
                   ownVars, closed, shut, appEof, ours>>

\* recv() returns EOF.
PumpEof(c) ==
    /\ PumpStep(c, "recv", "exit")
    /\ shut[c] \/ appEof[c]
    /\ UNCHANGED <<registry, auto, handlerVars, up, alive, write_mu, conns, fwdVars,
                   ownVars, closed, sockVars, ours>>

PumpSendBegin(c) ==
    /\ PumpStep(c, "send", "sending")
    /\ SendEnters(osess[c])
    /\ UNCHANGED <<registry, auto, handlerVars, up, alive, conns, fwdVars, ownVars,
                   closed, sockVars, ours>>

PumpSendRefused(c) ==
    /\ PumpStep(c, "send", "exit")
    /\ SendRefused(osess[c])
    /\ UNCHANGED <<registry, auto, handlerVars, up, alive, conns, fwdVars, ownVars,
                   closed, sockVars, ours>>

PumpSendEnd(c) ==
    /\ PumpStep(c, "sending", IF up[osess[c]] THEN "recv" ELSE "exit")
    /\ SendLeaves(osess[c])
    /\ UNCHANGED <<registry, auto, handlerVars, up, alive, conns, fwdVars, ownVars,
                   closed, sockVars, ours>>

\* ours = !closed.exchange(true).
PumpExit(c) ==
    /\ PumpStep(c, "exit", "erase")
    /\ ours' = [ours EXCEPT ![c] = ~closed[c]]
    /\ closed' = [closed EXCEPT ![c] = TRUE]
    /\ UNCHANGED <<registry, auto, handlerVars, up, alive, write_mu, conns, fwdVars,
                   ownVars, sockVars>>

PumpErase(c) ==
    /\ PumpStep(c, "erase", IF ours[c] THEN "close" ELSE "done")
    /\ Erase(osess[c], oid[c])
    /\ UNCHANGED <<registry, auto, handlerVars, up, alive, write_mu, fwdVars,
                   ownVars, closed, sockVars, ours>>

PumpCloseBegin(c) ==
    /\ PumpStep(c, "close", "closing")
    /\ SendEnters(osess[c])
    /\ UNCHANGED <<registry, auto, handlerVars, up, alive, conns, fwdVars, ownVars,
                   closed, sockVars, ours>>

PumpCloseRefused(c) ==
    /\ PumpStep(c, "close", "done")
    /\ SendRefused(osess[c])
    /\ UNCHANGED <<registry, auto, handlerVars, up, alive, conns, fwdVars, ownVars,
                   closed, sockVars, ours>>

PumpCloseEnd(c) ==
    /\ PumpStep(c, "closing", "done")
    /\ SendLeaves(osess[c])
    /\ UNCHANGED <<registry, auto, handlerVars, up, alive, conns, fwdVars, ownVars,
                   closed, sockVars, ours>>

-----------------------------------------------------------------------------
(* AutoCallLoop: WaitFor on the registry's condition variable, then calls.  *)

AutoWaitFor ==
    /\ auto = "check"
    /\ auto' = IF registry[FwdTarget] # NoSession THEN "call" ELSE "wait"
    /\ UNCHANGED <<registry, handlerVars, up, alive, write_mu, conns, fwdVars,
                   ownVars, closed, sockVars, pumpVars>>

-----------------------------------------------------------------------------
\* Frames that the client sends, in the order Read returns them.
HandlerRead(s) ==
    \/ \E t \in Names : RecvRegister(s, t)
    \/ \E i \in Ids : RecvData(s, i) \/ RecvDataUnknown(s, i) \/ RecvClose(s, i)

HandlerWork(s) ==
    \/ AddTarget(s) \/ AckBegin(s) \/ AckEnd(s)
    \/ DataWritten(s) \/ DataFailed(s) \/ DataConnGone(s) \/ DataCloseConn(s)
    \/ CloseConnShuts(s, "cshut", "read") \/ CloseConnShuts(s, "dshut", "dclose")
    \/ CloseReplyBegin(s) \/ CloseReplyEnd(s)
    \/ Shutdown(s) \/ CloseAll(s) \/ HandlerReturns(s)
    \/ \E c \in Conns : CloseAllShuts(s, c)

Handler(s) == RegisterCalled(s) \/ HandlerRead(s) \/ HandlerWork(s) \/ Unregister(s)

ForwarderWork ==
    \/ Refuse \/ GetSession \/ AddConn \/ OpenBegin \/ OpenRefused \/ OpenEnd
    \/ OpenConnGone \/ OpenCloseConn \/ OpenConnShuts \/ SpawnPump

Forwarder == ForwarderWork \/ AcceptFails \/ \E c \in Conns : Accept(c)

PumpWork(c) ==
    \/ PumpEof(c) \/ PumpSendBegin(c) \/ PumpSendRefused(c) \/ PumpSendEnd(c)
    \/ PumpExit(c) \/ PumpErase(c)
    \/ PumpCloseBegin(c) \/ PumpCloseRefused(c) \/ PumpCloseEnd(c)

PumpThread(c) == PumpRecv(c) \/ PumpWork(c)

Next ==
    \/ \E s \in Sessions : Handler(s) \/ StreamBreaks(s)
    \/ \E c \in Conns : PumpThread(c) \/ AppCloses(c)
    \/ Forwarder
    \/ AutoWaitFor

Spec == Init /\ [][Next]_vars

\* Every thread keeps running and a Write returns.  write_mu_ does not starve the
\* forwarder, whom a handler that answers frame after frame may always precede.
\* A broken stream yields finitely many more frames, so Read fails in the end.
\* Clients, applications, accept() and recv() with data are not fair.
Fairness ==
    /\ \A s \in Sessions : WF_vars(HandlerWork(s)) /\ SF_vars(Unregister(s))
    /\ \A c \in Conns : WF_vars(PumpWork(c))
    /\ SF_vars(ForwarderWork)
    /\ WF_vars(AutoWaitFor)

FairSpec == Spec /\ Fairness

-----------------------------------------------------------------------------
(* Properties.                                                             *)

\* The types of the variables.
TypeOK ==
    /\ registry \in [Targets -> Sessions \union {NoSession}]
    /\ auto \in {"check", "wait", "call"}
    /\ handler \in [Sessions -> HandlerPC]
    /\ target \in [Sessions -> Targets]
    /\ hid \in [Sessions -> Ids \union {0}]
    /\ hconn \in [Sessions -> Conns \union {NoConn}]
    /\ taken \in [Sessions -> SUBSET Conns]
    /\ up \in [Sessions -> BOOLEAN]
    /\ alive \in [Sessions -> BOOLEAN]
    /\ write_mu \in [Sessions -> BOOLEAN]
    /\ conns \in [Sessions -> [Ids -> Conns \union {NoConn}]]
    /\ next_id \in [Sessions -> 1..(MaxId + 1)]
    /\ fpc \in ForwarderPC
    /\ fsess \in Sessions \union {NoSession}
    /\ fid \in Ids \union {0}
    /\ fconn \in Conns \union {NoConn}
    /\ osess \in [Conns -> Sessions \union {NoSession}]
    /\ oid \in [Conns -> Ids \union {0}]
    /\ closed \in [Conns -> BOOLEAN]
    /\ shut \in [Conns -> BOOLEAN]
    /\ appEof \in [Conns -> BOOLEAN]
    /\ rx \in [Conns -> 0..MaxChunks]
    /\ pump \in [Conns -> PumpPC]
    /\ ours \in [Conns -> BOOLEAN]

\* The threads that are inside write_ on the stream of session s.
HandlerWrites(s) == handler[s] \in {"acking", "dclosing"}
ForwarderWrites(s) == fpc = "opening" /\ fsess = s
PumpWrites(c, s) == pump[c] \in {"sending", "closing"} /\ osess[c] = s

\* "gRPC permits exactly one in-flight Write, and several threads want to
\* write" (session.h): no two threads are ever inside write_ of one session.
OneWriter ==
    \A s \in Sessions :
        /\ ~(HandlerWrites(s) /\ ForwarderWrites(s))
        /\ \A c \in Conns :
              PumpWrites(c, s) =>
                 /\ ~HandlerWrites(s)
                 /\ ~ForwarderWrites(s)
                 /\ \A d \in Conns : PumpWrites(d, s) => c = d

\* The barrier of session.h: once the handler has returned and its stream is
\* gone, no thread is inside write_ of that session.
WriteFence ==
    \A s \in Sessions :
        handler[s] = "returned" =>
            /\ ~ForwarderWrites(s)
            /\ \A c \in Conns : ~PumpWrites(c, s)

\* An entry of the registry names a session whose handler still reads, and
\* whose client registered that very name last: a later forwarder is never
\* handed "a corpse" (the comment on REGISTER in Register()).
HonestEntry(t) ==
    registry[t] # NoSession =>
        /\ handler[registry[t]] \in Reading
        /\ target[registry[t]] = t

RegistryHonest == \A t \in Names \ {EmptyTarget} : HonestEntry(t)

\* Register()'s teardown order (Remove, Shutdown, CloseAll) leaves no stream
\* behind: after the handler has returned, a pump of its session can only be
\* parked on a socket that was shut down, so recv() wakes it.
NoOrphanStream ==
    \A c \in Conns :
        /\ osess[c] # NoSession
        /\ handler[osess[c]] = "returned"
        /\ pump[c] \in {"recv", "send"}
        => shut[c]

\* Stream ids are not reused within a session, so the unconditional erase(id)
\* at the end of Pump can only hit the pump's own entry.
PumpErasesOwnEntry ==
    \A c \in Conns :
        pump[c] = "erase" => conns[osess[c]][oid[c]] \in {c, NoConn}

\* SPEC 4.1: an entry disappears only through the handler of the session it
\* points at; the unwinding of an old session never erases a newer one.
RemovedByOwner ==
    [][\A t \in Targets :
          registry[t] # NoSession /\ registry'[t] = NoSession =>
              handler'[registry[t]] # handler[registry[t]]]_vars

\* SPEC 4.3: when the stream of a session breaks, its handler returns, its
\* table ends empty and every one of its pumps terminates, for good.
SessionGone(s) ==
    /\ handler[s] = "returned"
    /\ conns[s] = [i \in Ids |-> NoConn]
    /\ \A c \in Conns : osess[c] = s => pump[c] \in {"none", "done"}

TeardownCompletes ==
    \A s \in Sessions :
        (handler[s] # "none" /\ ~up[s]) ~> []SessionGone(s)

\* The forwarder is never stuck on one connection: it comes back to accept(),
\* which it leaves for good only when accept() itself fails.
ForwarderReturns == (fpc = "get") ~> (fpc = "accept")

\* No wake-up of WaitFor is lost: when the target stays registered, the
\* auto-call loop starts calling.
AutoCallStarts ==
    <>[](registry[FwdTarget] # NoSession) => <>(auto = "call")

-----------------------------------------------------------------------------
(* The inductive invariant behind the safety properties.                   *)

\* write_mu_ is held by whoever is inside write_, and by nobody once Shutdown
\* has passed the barrier; alive_ tells on which side of it the handler is.
MutexInv ==
    /\ OneWriter
    /\ \A s \in Sessions :
          /\ HandlerWrites(s) => write_mu[s]
          /\ ForwarderWrites(s) => write_mu[s]
          /\ \A c \in Conns : PumpWrites(c, s) => write_mu[s]
          /\ alive[s] <=> handler[s] \in Reading \union {"none", "shutdown"}
          /\ write_mu[s] => alive[s]

\* What the handler's locals denote at each of its steps.
HandlerInv ==
    \A s \in Sessions :
        /\ handler[s] \in {"data", "dfail"} => hid[s] \in Ids
        /\ handler[s] \in {"data", "cshut", "dshut"} => hconn[s] \in Conns

\* What the forwarder's locals denote at each of its steps.
ForwarderInv ==
    /\ fpc \in {"get", "add"} =>
          /\ fconn \in Conns
          /\ osess[fconn] = NoSession
    /\ fpc \notin {"accept", "get", "ended"} => fsess \in Sessions
    /\ fpc \in {"open", "opening", "fail", "fshut", "spawn"} =>
          /\ fconn \in Conns
          /\ osess[fconn] = fsess
          /\ oid[fconn] = fid
          /\ pump[fconn] = "none"

\* The table, the ids and the sockets agree.
TableInv ==
    /\ \A c \in Conns :
          /\ pump[c] # "none" => osess[c] # NoSession
          /\ osess[c] # NoSession => oid[c] \in Ids /\ oid[c] < next_id[osess[c]]
    /\ \A c, d \in Conns :
          osess[c] # NoSession /\ osess[c] = osess[d] /\ oid[c] = oid[d] => c = d
    /\ \A s \in Sessions, i \in Ids :
          conns[s][i] # NoConn => osess[conns[s][i]] = s /\ oid[conns[s][i]] = i

\* The sockets whose reader runs or is about to be started.
Served(c) ==
    \/ pump[c] \in {"recv", "send", "sending"}
    \/ fconn = c /\ fpc \in {"open", "opening", "spawn"}

\* Where a socket is found by whoever has to shut it down: it is in the table,
\* CloseAll or CloseConn holds it, or it was shut down already.
Covered(c) ==
    \/ shut[c]
    \/ conns[osess[c]][oid[c]] = c
    \/ c \in taken[osess[c]]
    \/ hconn[osess[c]] = c /\ handler[osess[c]] \in {"cshut", "dshut"}

CoveredInv == \A c \in Conns : osess[c] # NoSession /\ Served(c) => Covered(c)

\* Only CloseAll holds sockets it took out of the table.
TakenInv == \A s \in Sessions : taken[s] # {} => handler[s] = "shutall"

\* After CloseAll the table holds only what the forwarder is about to give up.
EmptiedInv ==
    \A s \in Sessions, i \in Ids :
        handler[s] \in {"shutall", "returned"} /\ conns[s][i] # NoConn =>
            fconn = conns[s][i] /\ fpc \in {"open", "fail"}

IInv ==
    /\ TypeOK
    /\ MutexInv
    /\ HandlerInv
    /\ ForwarderInv
    /\ TableInv
    /\ CoveredInv
    /\ TakenInv
    /\ EmptiedInv
    /\ RegistryHonest
=============================================================================
