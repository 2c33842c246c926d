-------------------------------- MODULE ZtSim --------------------------------
(***************************************************************************)
(* The two-service demo: consoles that turn typed lines into SMS and drive *)
(* the real command path (sim/zt_sim.cpp, src/bridge.cpp), and the gNMI    *)
(* server they share (sim/zt_gnmi_simd.cpp).  A console with the remote    *)
(* backend makes one connection per RPC and waits for its end; the server  *)
(* runs one callback at a time over all connections.                       *)
(*                                                                         *)
(* A call may outlive its caller: when gnmi_client gives up, the request   *)
(* it sent can still be read.  The server keeps its tree in memory only,   *)
(* so a restart brings the seed back.                                      *)
(***************************************************************************)
EXTENDS Gnmi, FiniteSets

CONSTANTS Consoles,      \* zerotouch-sim processes
          Peers,         \* other gNMI clients of the server
          Senders,       \* MSISDNs a console can speak for
          DefaultFrom,   \* the MSISDN it starts with
          Texts,         \* SMS bodies, as token sequences
          PeerRequests,  \* requests of the other clients
          Allowlists,    \* allowlists the console can set
          Seed,          \* the tree of the seed file
          MaxCalls,      \* [Clients -> Nat], bound: SMS lines, requests of a peer
          MaxSettings,   \* bound: /from, /enable, /disable and /allow lines
          MaxRestarts    \* bound: restarts of the server

VARIABLES
  sink,        \* [Consoles -> {"mem", "remote"}]: the backend main() picked
  from, enabled, allowed,   \* the console's /from, /enable, /allow settings
  settings,    \* how often they were changed
  session,     \* [Consoles -> [Senders -> access]]: smsctl::SessionStore
  mem,         \* [Consoles -> tree]: MemGnmiSink's tree
  calls,       \* [Clients -> 0..MaxCalls]: calls issued so far
  rpc,         \* [Clients -> the call being waited for, or Idle]
  out,         \* [Consoles -> the SMS or the lines the last line was answered with]
  g_tree,      \* the server's tree
  m_conns,     \* the connections the server owns
  wire,        \* [connection -> request, answer and the state of the link]
  restarts,
  ran,         \* history: the Sets executed, in order
  acked,       \* history: the Sets answered OK
  lost,        \* history: the calls their client gave up
  admins       \* history: <<console, sender>> whose last login was as an Admin and
               \* has neither been logged out nor run out

replVars   == <<sink, from, enabled, allowed, settings, session, mem, out, admins>>
clientVars == <<calls, rpc, acked, lost>>
serverVars == <<g_tree, m_conns, restarts, ran>>
vars == <<replVars, clientVars, serverVars, wire>>

Clients == Consoles \cup Peers
Idle    == [op |-> "none"]
Silence == [ok |-> FALSE, why |-> "silence", rows |-> {}]
NoResp  == [status |-> -2, rows |-> {}]
Users   == [admin |-> "Admin", viewer |-> "Viewer"]    \* the demo accounts

Init ==
  /\ sink \in [Consoles -> {"mem", "remote"}]
  /\ from = [c \in Consoles |-> DefaultFrom]
  /\ enabled = [c \in Consoles |-> TRUE]
  /\ allowed = [c \in Consoles |-> {}]
  /\ settings = 0
  /\ session = [c \in Consoles |-> [s \in Senders |-> "None"]]
  /\ mem = [c \in Consoles |-> Seed]
  /\ calls = [c \in Clients |-> 0]
  /\ rpc = [c \in Clients |-> Idle]
  /\ out = [c \in Consoles |-> Silence]
  /\ g_tree = Seed /\ m_conns = {} /\ wire = << >>
  /\ restarts = 0 /\ ran = << >> /\ acked = {} /\ lost = {} /\ admins = {}

-----------------------------------------------------------------------------
(* The wire.                                                               *)

(* gnmi_client::call: a connection of its own carries the request. *)
Call(c, req, cmd) ==
  /\ calls' = [calls EXCEPT ![c] = @ + 1]
  /\ rpc' = [rpc EXCEPT ![c] = [op |-> req.op, id |-> <<c, calls'[c]>>, cmd |-> cmd]]
  /\ wire' = [id \in DOMAIN wire \cup {<<c, calls'[c]>>} |->
                IF id = <<c, calls'[c]>>
                THEN [req |-> req, unread |-> TRUE, resp |-> NoResp, link |-> "up"]
                ELSE wire[id]]

Drop(id) == wire' = [i \in DOMAIN wire \ {id} |-> wire[i]]

(* Mutant of HangUp: the server is not told. *)
HangUpUnheard(id) == Drop(id)

HangUp(id) == wire' = [wire EXCEPT ![id].link = "shut"]

-----------------------------------------------------------------------------
(* The console.                                                            *)

(* The REPL reads a line only when the previous one is done with. *)
AtPrompt(c) == rpc[c] = Idle /\ calls[c] < MaxCalls[c]

Typed(c) ==
  /\ AtPrompt(c) /\ settings < MaxSettings
  /\ settings' = settings + 1
  /\ UNCHANGED <<clientVars, serverVars, wire, sink, session, mem, out, admins>>

Toggle(c) == /\ Typed(c)
             /\ enabled' = [enabled EXCEPT ![c] = ~@]
             /\ UNCHANGED <<from, allowed>>

From(c, s) == /\ Typed(c)
              /\ from' = [from EXCEPT ![c] = s]
              /\ UNCHANGED <<enabled, allowed>>

Allow(c, S) == /\ Typed(c)
               /\ allowed' = [allowed EXCEPT ![c] = S]
               /\ UNCHANGED <<from, enabled>>

(* The gate: the switch, and an allowlist that is empty or names the sender. *)
Admitted(c) == enabled[c] /\ (allowed[c] = {} \/ from[c] \in allowed[c])

(* smsctl's engine: LOGIN <id> <password>, LOGOUT, anything else it knows; *)
(* a demo account's password is its id.                                    *)
LoginAs(t) == IF Len(t) = 4 /\ ieq(t[2], "login") /\ t[3] = t[4] /\ Len(t[3]) = 1
                 /\ t[3][1] \in DOMAIN Users
              THEN Users[t[3][1]] ELSE "None"

Classic(c, t) ==
  LET s == from[c]
      grant == IF ieq(t[2], "login") THEN LoginAs(t) ELSE "None"
      changes == grant # "None" \/ ieq(t[2], "logout")
  IN /\ session' = IF changes THEN [session EXCEPT ![c][s] = grant] ELSE session
     /\ admins' = IF grant = "Admin" THEN admins \cup {<<c, s>>}
                  ELSE IF changes THEN admins \ {<<c, s>>} ELSE admins
     /\ out' = [out EXCEPT ![c] = [ok |-> grant # "None", why |-> "classic", rows |-> {}]]

Answer(c, reply) == out' = [out EXCEPT ![c] = reply] /\ UNCHANGED <<session, admins>>

Counted(c) == calls' = [calls EXCEPT ![c] = @ + 1] /\ UNCHANGED <<rpc, wire>>

Command == [t \in Texts |-> parse_gnmi(t)]

(* Mutant of sender_access: the session of whoever is logged in. *)
AccessOfAnyone(c) ==
  LET A == {session[c][s] : s \in Senders}
  IN CHOOSE a \in A : a = "Admin" \/ ("Admin" \notin A /\ (a # "None" \/ A = {"None"}))

(* authfn: the session of the sender, looked up for every command. *)
sender_access(c) == session[c][from[c]]

(* An SMS line: Bridge::on_sms from the gate to the reply, or to the RPC it *)
(* waits for.                                                              *)
Sms(c, t) ==
  LET cmd == Command[t]
      access == sender_access(c)
  IN /\ AtPrompt(c)
     /\ UNCHANGED <<sink, from, enabled, allowed, settings, serverVars, acked, lost>>
     /\ \/ /\ ~Admitted(c)                              \* dropped in silence
           /\ Answer(c, Silence) /\ Counted(c) /\ UNCHANGED mem
        \/ /\ Admitted(c) /\ cmd.kind = "NotGnmi"
           /\ IF Len(t) >= 2 /\ ieq(t[1], "iot") THEN Classic(c, t) ELSE Answer(c, Silence)
           /\ Counted(c) /\ UNCHANGED mem
        \/ /\ Admitted(c) /\ cmd.kind = "Unknown"
           /\ Answer(c, Err(cmd.error)) /\ Counted(c) /\ UNCHANGED mem
        \/ /\ Admitted(c) /\ cmd.kind \in {"Get", "Set"} /\ ~Permitted(cmd, access)
           /\ Answer(c, Err("login required")) /\ Counted(c) /\ UNCHANGED mem
        \/ /\ Admitted(c) /\ cmd.kind = "Get" /\ Permitted(cmd, access)
           /\ IF sink[c] = "mem"
              THEN Answer(c, format_get(MemGet(mem[c], cmd.xpaths))) /\ Counted(c)
              ELSE IF Asked(cmd.xpaths) = << >>
              THEN Answer(c, format_get(GetWithoutRpc(cmd.xpaths))) /\ Counted(c)
              ELSE Answer(c, Silence) /\ Call(c, GetRequest(cmd.xpaths), cmd)
           /\ UNCHANGED mem
        \/ /\ Admitted(c) /\ cmd.kind = "Set" /\ Permitted(cmd, access)
           /\ IF sink[c] = "mem"
              THEN /\ mem' = [mem EXCEPT ![c] = Write(@, cmd.updates)]
                   /\ Answer(c, format_set(MemSet(cmd.updates))) /\ Counted(c)
              ELSE /\ Answer(c, Silence) /\ Call(c, SetRequest(cmd.updates), cmd)
                   /\ UNCHANGED mem

(* /tree on a remote backend is a GET of the root shown on the console ... *)
Tree(c) ==
  /\ AtPrompt(c) /\ sink[c] = "remote"
  /\ Call(c, GetRequest(<< << >> >>), [kind |-> "Get", xpaths |-> << << >> >>])
  /\ out' = [out EXCEPT ![c] = Silence]
  /\ UNCHANGED <<sink, from, enabled, allowed, settings, session, mem, admins, acked, lost,
                 serverVars>>

(* ... and on the console's own tree a dump of it, screened by nothing. *)
TreeDump(c) ==
  /\ AtPrompt(c) /\ sink[c] = "mem"
  /\ out' = [out EXCEPT ![c] =
               [ok |-> TRUE, why |-> "dump",
                rows |-> {[xpath |-> p, shown |-> mem[c][p]] : p \in DOMAIN mem[c]}]]
  /\ UNCHANGED <<sink, from, enabled, allowed, settings, session, mem, admins, clientVars,
                 serverVars, wire>>

(* A session runs out; the clock is looked at only when an SMS is handled. *)
Expire(c, s) ==
  /\ AtPrompt(c) /\ session[c][s] # "None"
  /\ session' = [session EXCEPT ![c][s] = "None"]
  /\ admins' = admins \ {<<c, s>>}
  /\ UNCHANGED <<sink, from, enabled, allowed, settings, mem, out, clientVars, serverVars,
                 wire>>

(* The call ends with what the server answered, or with no status at all. *)
Finish(c, resp) ==
  LET cmd == rpc[c].cmd
      good == rpc[c].op = "Set" /\ resp.status = 0
  IN /\ rpc' = [rpc EXCEPT ![c] = Idle]
     /\ acked' = IF good THEN acked \cup {rpc[c].id} ELSE acked
     /\ lost' = IF resp = TransportError THEN lost \cup {rpc[c].id} ELSE lost
     /\ out' = IF c \notin Consoles THEN out
               ELSE [out EXCEPT ![c] = IF rpc[c].op = "Get"
                                       THEN format_get(GetResult(cmd.xpaths, resp))
                                       ELSE format_set(SetResult(resp))]
     /\ UNCHANGED <<sink, from, enabled, allowed, settings, session, mem, admins, calls,
                    serverVars>>

Receive(c) ==
  /\ rpc[c] # Idle
  /\ wire[rpc[c].id].resp # NoResp /\ wire[rpc[c].id].link = "up"
  /\ Finish(c, wire[rpc[c].id].resp) /\ HangUp(rpc[c].id)

(* The server went away under the call. *)
Reset(c) ==
  /\ rpc[c] # Idle /\ wire[rpc[c].id].link = "cut"
  /\ Finish(c, TransportError) /\ Drop(rpc[c].id)

(* The client stops waiting. *)
GiveUp(c) ==
  /\ rpc[c] # Idle /\ wire[rpc[c].id].link = "up"
  /\ Finish(c, TransportError) /\ HangUp(rpc[c].id)

(* Another gNMI client of the server. *)
PeerCall(c, req) ==
  /\ AtPrompt(c) /\ Call(c, req, Idle)
  /\ UNCHANGED <<replVars, acked, lost, serverVars>>
-----------------------------------------------------------------------------
(* The server.                                                             *)

handle_connect(id) ==
  /\ id \notin m_conns
  /\ wire[id].link # "cut"
  /\ m_conns' = m_conns \cup {id}
  /\ UNCHANGED <<g_tree, restarts, ran, replVars, clientVars, wire>>

(* m_conns still has the channel, that of a connection over but not yet    *)
(* closed here: emplace() does not insert, and the new one is destroyed.   *)
handle_connect_refused(id) ==
  /\ id \notin m_conns
  /\ wire[id].link # "cut"
  /\ \E old \in m_conns : wire[old].link = "shut"
  /\ IF wire[id].link = "shut" THEN Drop(id) ELSE wire' = [wire EXCEPT ![id].link = "cut"]
  /\ UNCHANGED <<serverVars, replVars, clientVars>>

(* Mutant of handle_read: the request stays in the input buffer. *)
handle_read_again(id) ==
  LET a == Serve(g_tree, wire[id].req)
  IN /\ id \in m_conns /\ wire[id].unread /\ Len(ran) < 4
     /\ g_tree' = a.tree
     /\ wire' = [wire EXCEPT ![id].resp = [status |-> a.status, rows |-> a.rows]]
     /\ ran' = IF wire[id].req.op = "Set" /\ a.status = 0 THEN Append(ran, id) ELSE ran
     /\ UNCHANGED <<m_conns, restarts, replVars, clientVars>>

(* Mutant of handle_read: a request the handler refuses is not answered. *)
handle_read_mute(id) ==
  LET a == Serve(g_tree, wire[id].req)
  IN /\ id \in m_conns /\ wire[id].unread
     /\ g_tree' = a.tree
     /\ wire' = [wire EXCEPT ![id].unread = FALSE,
                             ![id].resp = IF a.status # 0 THEN NoResp
                                          ELSE [status |-> 0, rows |-> a.rows]]
     /\ ran' = IF wire[id].req.op = "Set" /\ a.status = 0 THEN Append(ran, id) ELSE ran
     /\ UNCHANGED <<m_conns, restarts, replVars, clientVars>>

(* One callback decodes the request, runs the handler and queues the answer. *)
handle_read(id) ==
  LET a == Serve(g_tree, wire[id].req)
  IN /\ id \in m_conns /\ wire[id].unread
     /\ g_tree' = a.tree
     /\ wire' = [wire EXCEPT ![id].unread = FALSE,
                             ![id].resp = [status |-> a.status, rows |-> a.rows]]
     /\ ran' = IF wire[id].req.op = "Set" /\ a.status = 0 THEN Append(ran, id) ELSE ran
     /\ UNCHANGED <<m_conns, restarts, replVars, clientVars>>

(* Mutant of handle_close: the parent's map keeps the connection. *)
handle_close_keeps(id) ==
  /\ id \in m_conns /\ wire[id].link = "shut"
  /\ wire' = [wire EXCEPT ![id].unread = FALSE]
  /\ UNCHANGED <<g_tree, m_conns, restarts, ran, replVars, clientVars>>

(* The client has hung up: its connection is destroyed, read or not. *)
handle_close(id) ==
  /\ id \in m_conns /\ wire[id].link = "shut"
  /\ m_conns' = m_conns \ {id}
  /\ Drop(id)
  /\ UNCHANGED <<g_tree, restarts, ran, replVars, clientVars>>

(* The server dies and starts again from the seed file. *)
Restart ==
  /\ restarts < MaxRestarts
  /\ restarts' = restarts + 1
  /\ g_tree' = Seed
  /\ m_conns' = {}
  /\ wire' = [id \in {i \in DOMAIN wire : wire[i].link # "shut"} |->
                [wire[id] EXCEPT !.link = "cut", !.unread = FALSE]]
  /\ UNCHANGED <<ran, replVars, clientVars>>

-----------------------------------------------------------------------------
(* The event loop serves a ready connection, and a client that is waiting  *)
(* notices the answer or the reset.  Nothing obliges it to give up.        *)
Progress ==
  \/ \E id \in DOMAIN wire : \/ handle_connect(id) \/ handle_connect_refused(id)
                             \/ handle_read(id) \/ handle_close(id)
  \/ \E c \in Clients : Receive(c) \/ Reset(c)

Done == (\A c \in Clients : calls[c] = MaxCalls[c] /\ rpc[c] = Idle) /\ UNCHANGED vars

Next ==
  \/ \E c \in Consoles : \/ Toggle(c) \/ Tree(c) \/ TreeDump(c)
                         \/ \E s \in Senders : From(c, s) \/ Expire(c, s)
                         \/ \E S \in Allowlists : Allow(c, S)
                         \/ \E t \in Texts : Sms(c, t)
  \/ \E c \in Peers : \E req \in PeerRequests : PeerCall(c, req)
  \/ \E c \in Consoles : GiveUp(c)
  \/ Progress
  \/ Restart
  \/ Done

Spec == Init /\ [][Next]_vars

FairSpec == Spec /\ WF_vars(Progress)

-----------------------------------------------------------------------------
(* The shape of the state: a call being waited for has a wire, and the     *)
(* server owns connections that exist.                                     *)
TypeOK ==
  /\ \A c \in Clients : /\ calls[c] \in 0..MaxCalls[c]
                        /\ rpc[c] # Idle => rpc[c].id \in DOMAIN wire
  /\ m_conns \subseteq DOMAIN wire
  /\ acked \cup lost \cup Range(ran) \subseteq Clients \X Nat
  /\ \A c \in Consoles : session[c] \in [Senders -> {"None", "Viewer", "Admin"}]

(* No SMS shows the value of a sensitive leaf, whatever was asked: not by  *)
(* naming the leaf, not by reading the subtree above it, on either backend *)
(* (LocalGnmiSink::get screens both legs); nor does /tree of the server's  *)
(* tree.  Only /tree of the console's own, which is no SMS, shows it all.  *)
NoSecretShown ==
  \A c \in Consoles : out[c].why # "dump" =>
    \A r \in out[c].rows :
      r.shown \notin {Seed[p] : p \in {q \in DOMAIN Seed : is_sensitive_path(q)}}

(* A write begins: on the console's own tree, or as a Set to the server. *)
BeginsWrite(c) ==
  \/ mem'[c] # mem[c]
  \/ rpc[c] = Idle /\ rpc'[c] # Idle /\ rpc'[c].op = "Set"

(* A write begins only for a sender who is an Admin at that moment: whose  *)
(* own last login was as one, and who has not logged out, run out or       *)
(* logged in as somebody else since (GnmiExecutor::handle asks authfn for  *)
(* every command).                                                         *)
WritersLoggedIn ==
  [][\A c \in Consoles : BeginsWrite(c) => <<c, from[c]>> \in admins]_vars

(* "OK GNMI SET" means the server ran that Set, once; no Set runs twice,   *)
(* and one that was answered with an error the server chose did not run.   *)
OkMeansRunOnce ==
  /\ \A i, j \in DOMAIN ran : ran[i] = ran[j] => i = j
  /\ acked \subseteq Range(ran)
  /\ \A id \in Range(ran) : \/ id \in acked \cup lost
                            \/ rpc[id[1]] # Idle /\ rpc[id[1]].id = id

(* The console always comes back to its prompt: the server answers, or its *)
(* death is noticed.                                                       *)
PromptReturns == \A c \in Consoles : rpc[c] # Idle ~> rpc[c] = Idle

(* The server does not keep the connections of calls that are over.        *)
ConnsReclaimed ==
  []<>(m_conns \subseteq {rpc[c].id : c \in {d \in Clients : rpc[d] # Idle}})
=============================================================================
