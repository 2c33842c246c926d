------------------------------ MODULE ZeroTouchd ------------------------------
(***************************************************************************)
(* zero-touchd, the daemon integrated with the data store                  *)
(* (daemon/zerotouchd.cpp): its copy of the zerotouch.* keys, refreshed by *)
(* a watch, the gate and the commands that use the copy, and the telemetry *)
(* it publishes.  The data store, its client thread and smsctl's           *)
(* SessionStore are external; the SMS transport is DsSmsTransport's.       *)
(*                                                                         *)
(* The reactor is one thread: between two reads of a load other processes  *)
(* write keys and the client thread runs the watch callback, but no SMS is *)
(* handled and no timer fires.                                             *)
(***************************************************************************)
EXTENDS Integers, Sequences, FiniteSets

CONSTANTS Values,        \* [configuration keys -> the values it can be given]
          Default,       \* [configuration keys -> what an absent one means]
          Senders,
          Accounts,      \* [ids other than admin -> [ok: BOOLEAN, access]], or << >>
          MaxWrites,     \* bound: writes to the keys
          MaxFaults,     \* bound: failed reads and failed publications
          MaxCmds        \* bound: classic commands

VARIABLES ds,            \* [keys -> <<value>>, or << >> when absent]
          adminAccess,   \* auth.users.admin.access
          phase,         \* how far run() has come, or "load" of a reload
          cfg,           \* the copy in use: m_enabled, m_gnmi_port, SessionStore's
          next,          \* the index in LoadOrder of the key to read, 7 after a load
          new,           \* smsctl::Config under construction
          m_cfg_dirty, notified,
          watching, event,   \* the watch, and a change it has not yet reported
          m_sessions,    \* [senders -> access, "expired", or "none"]
          m_handled,
          pub,           \* zerotouch.{state, sessions, version, last.sender}
          writes, faults,
          bad,           \* history: the keys whose read failed in the last load
          gap,           \* history: a key changed between its first read and the watch
          seen,          \* history: [keys -> its values since the last load began]
          unpublished    \* history: what the last publication of failed

dsVars   == <<ds, adminAccess, writes>>
cfgVars  == <<phase, cfg, next, new, bad, seen>>
wakeVars == <<m_cfg_dirty, notified, watching, event>>
sesVars  == <<m_sessions, m_handled>>
pubVars  == <<pub, unpublished>>
vars == <<dsVars, cfgVars, wakeVars, sesVars, pubVars, faults, gap>>

Absent == "absent"

(* The order of the reads in load_config_from_ds(). *)
LoadOrder == <<"enabled", "port", "ttl", "failures", "sec", "allowed">>
Keys == {"enabled", "port", "ttl", "failures", "sec", "allowed"}

(* An absent switch is off. *)
ASSUME DefaultAssumption ==
  /\ Default = [k \in Keys |-> Default[k]]
  /\ Default["enabled"] = FALSE

Fault == faults < MaxFaults /\ faults' = faults + 1

Init ==
  /\ ds = [k \in Keys |-> << >>] /\ adminAccess \in {"Admin", "Viewer"}
  /\ phase = "connect" /\ cfg = Default /\ next = 7 /\ new = Default
  /\ m_cfg_dirty = FALSE /\ notified = FALSE /\ watching = FALSE /\ event = FALSE
  /\ m_sessions = [s \in Senders |-> "none"] /\ m_handled = 0
  /\ pub = [state |-> Absent, sessions |-> 0, version |-> 0, sender |-> Absent]
  /\ writes = 0 /\ faults = 0 /\ bad = {} /\ gap = FALSE /\ unpublished = {}
  /\ seen = [k \in Keys |-> {}]

-----------------------------------------------------------------------------
(* The rest of the system.                                                 *)

Unread(k) == \E i \in next..6 : LoadOrder[i] = k

(* What a read makes of a value.  get_u32() takes only numbers above 0 (one*)
(* that is none is modelled as 0), and the port keeps their lower 16 bits. *)
Effective(k, v) ==
  IF v = << >> THEN Default[k]
  ELSE CASE k = "port" -> IF v[1] > 0 THEN v[1] % 65536 ELSE Default[k]
         [] k \in {"ttl", "failures", "sec"} -> IF v[1] > 0 THEN v[1] ELSE Default[k]
         [] OTHER -> v[1]

EffectiveDs == [k \in Keys |-> Effective(k, ds[k])]

(* A key is set; a watcher will be told. *)
Write(k, v) ==
  /\ writes < MaxWrites /\ ds[k] # <<v>>
  /\ writes' = writes + 1
  /\ ds' = [ds EXCEPT ![k] = <<v>>]
  /\ event' = (event \/ watching)
  /\ gap' = (gap \/ (~watching /\ phase # "connect" /\ ~Unread(k)))
  /\ seen' = IF next = 7 THEN seen ELSE [seen EXCEPT ![k] = @ \cup {Effective(k, <<v>>)}]
  /\ UNCHANGED <<adminAccess, phase, cfg, next, new, bad, m_cfg_dirty, notified, watching,
                 sesVars, pubVars, faults>>

WriteAccess ==
  /\ writes < MaxWrites /\ writes' = writes + 1
  /\ adminAccess' = IF adminAccess = "Admin" THEN "Viewer" ELSE "Admin"
  /\ UNCHANGED <<ds, cfgVars, wakeVars, sesVars, pubVars, faults, gap>>

(* The watch callback, on the client's thread. *)
OnEvent ==
  /\ event /\ event' = FALSE
  /\ m_cfg_dirty' = TRUE /\ notified' = TRUE
  /\ UNCHANGED <<dsVars, cfgVars, watching, sesVars, pubVars, faults, gap>>

(* Time passes for a session. *)
Expire(s) ==
  /\ m_sessions[s] \in {"Admin", "Viewer"}
  /\ m_sessions' = [m_sessions EXCEPT ![s] = "expired"]
  /\ UNCHANGED <<dsVars, cfgVars, wakeVars, m_handled, pubVars, faults, gap>>

-----------------------------------------------------------------------------
(* Loading: one get() per key, in order.                                   *)

Begin(then) ==
  /\ phase' = then /\ next' = 1 /\ bad' = {}
  /\ new' = Default /\ UNCHANGED cfg
  /\ seen' = [k \in Keys |-> {EffectiveDs[k]}]

(* Mutant of Apply: the session settings in use are not replaced. *)
ApplyKeeps(k, c) == IF k \in {"enabled", "port"} THEN [cfg EXCEPT ![k] = c[k]] ELSE cfg

(* m_enabled and the port are in use at once, the session settings when    *)
(* all of them have been read.                                             *)
Apply(k, c) ==
  CASE k \in {"enabled", "port"} -> [cfg EXCEPT ![k] = c[k]]
    [] k = "allowed" -> [j \in Keys |-> IF j \in {"enabled", "port"} THEN cfg[j] ELSE c[j]]
    [] OTHER -> cfg

(* A failed read counts as an absent key. *)
ReadKey ==
  LET k == LoadOrder[next]
      Take(v) == /\ new' = [new EXCEPT ![k] = v]
                 /\ cfg' = Apply(k, [new EXCEPT ![k] = v])
  IN /\ next < 7
     /\ next' = next + 1
     /\ \/ Take(Effective(k, ds[k])) /\ UNCHANGED <<faults, bad>>
        \/ Fault /\ Take(Default[k]) /\ bad' = bad \cup {k}
     /\ UNCHANGED <<dsVars, phase, seen, wakeVars, sesVars, pubVars, gap>>

-----------------------------------------------------------------------------
(* Telemetry.                                                              *)

Count(sessions) == Cardinality({s \in Senders : sessions[s] # "none"})

(* One set_volatile() of the keys ks. *)
Publish(ks, p) ==
  \/ pub' = p /\ unpublished' = unpublished \ ks /\ UNCHANGED faults
  \/ Fault /\ unpublished' = unpublished \cup ks /\ UNCHANGED pub

publish_state ==
  Publish({"state", "sessions"},
          [pub EXCEPT !.state = IF cfg["enabled"] THEN "listening" ELSE "disabled",
                      !.sessions = Count(m_sessions')])

-----------------------------------------------------------------------------
(* run(): connect, load, watch, publish, loop.                             *)

Loaded(at) == phase = at /\ next = 7

Connect ==
  /\ phase = "connect"
  /\ Begin("start")
  /\ UNCHANGED <<dsVars, wakeVars, sesVars, pubVars, faults, gap>>

(* Mutant of Watch: the daemon goes on before the first load is over. *)
WatchEarly ==
  /\ phase = "start"
  /\ phase' = "watch" /\ watching' = TRUE
  /\ UNCHANGED <<dsVars, cfg, next, new, bad, seen, m_cfg_dirty, notified, event, sesVars,
                 pubVars, faults, gap>>

(* The bridge is started, then the watch is registered. *)
Watch ==
  /\ Loaded("start")
  /\ phase' = "watch" /\ watching' = TRUE
  /\ UNCHANGED <<dsVars, cfg, next, new, bad, seen, m_cfg_dirty, notified, event, sesVars,
                 pubVars, faults, gap>>

EnterLoop ==
  /\ phase = "watch" /\ phase' = "loop"
  /\ UNCHANGED m_sessions /\ publish_state
  /\ UNCHANGED <<dsVars, cfg, next, new, bad, seen, wakeVars, m_handled, gap>>

-----------------------------------------------------------------------------
(* The handlers of the loop.                                               *)

(* The config watch's wake-up: take the flag, then load. *)
handle_exception ==
  /\ phase = "loop" /\ notified /\ notified' = FALSE
  /\ m_cfg_dirty' = FALSE
  /\ IF m_cfg_dirty THEN Begin("reload") ELSE UNCHANGED cfgVars
  /\ gap' = (gap /\ ~m_cfg_dirty)
  /\ UNCHANGED <<dsVars, watching, event, sesVars, pubVars, faults>>

(* Mutant of Reloaded: changes reported during the load are forgotten. *)
ReloadedForgets ==
  /\ Loaded("reload") /\ phase' = "loop"
  /\ m_cfg_dirty' = FALSE
  /\ UNCHANGED m_sessions /\ publish_state
  /\ UNCHANGED <<dsVars, cfg, next, new, bad, seen, notified, watching, event, m_handled,
                 gap>>

Reloaded ==
  /\ Loaded("reload") /\ phase' = "loop"
  /\ UNCHANGED m_sessions /\ publish_state
  /\ UNCHANGED <<dsVars, cfg, next, new, bad, seen, wakeVars, m_handled, gap>>

(* Mutant of handle_timeout: the sweep is not published. *)
handle_timeout_quiet ==
  /\ phase = "loop" /\ \E s \in Senders : m_sessions[s] = "expired"
  /\ m_sessions' = [s \in Senders |-> IF m_sessions[s] = "expired" THEN "none"
                                      ELSE m_sessions[s]]
  /\ UNCHANGED <<dsVars, cfgVars, wakeVars, m_handled, pubVars, faults, gap>>

(* The sweep, every second: without anything to expire it does nothing. *)
handle_timeout ==
  /\ phase = "loop" /\ \E s \in Senders : m_sessions[s] = "expired"
  /\ m_sessions' = [s \in Senders |-> IF m_sessions[s] = "expired" THEN "none"
                                      ELSE m_sessions[s]]
  /\ publish_state
  /\ UNCHANGED <<dsVars, cfgVars, wakeVars, m_handled, gap>>

(* Mutant of sender_allowed: only the allowlist counts. *)
ListedOnly(s) == cfg["allowed"] = {} \/ s \in cfg["allowed"]

sender_allowed(s) == cfg["enabled"] /\ (cfg["allowed"] = {} \/ s \in cfg["allowed"])

(* What a lookup can yield: an access, or "none" when there is no such     *)
(* account or it cannot be read.  admin has two keys of its own, and is    *)
(* Admin unless the second says Viewer: a failed read of it is Admin.  The *)
(* others are in one list, in which an account without a hash is none (ok).*)
lookup_account(id) ==
  {"none"} \cup
  IF id = "admin" THEN {adminAccess, "Admin"}
  ELSE {Accounts[i].access : i \in {i \in DOMAIN Accounts : i = id /\ Accounts[i].ok}}

Telemetry(s) ==
  Publish({"sessions"}, [pub EXCEPT !.sessions = Count(m_sessions'),
                                    !.version = m_handled', !.sender = s])

(* LOGIN with the right password. *)
Login(s, id) ==
  /\ phase = "loop" /\ sender_allowed(s) /\ m_handled < MaxCmds
  /\ m_handled' = m_handled + 1
  /\ \E a \in lookup_account(id) :
       m_sessions' = IF a = "none" THEN m_sessions ELSE [m_sessions EXCEPT ![s] = a]
  /\ Telemetry(s)
  /\ UNCHANGED <<dsVars, cfgVars, wakeVars, gap>>

(* Any other classic command; LOGOUT ends the session. *)
classic_reply(s, logout) ==
  /\ phase = "loop" /\ sender_allowed(s) /\ m_handled < MaxCmds
  /\ m_handled' = m_handled + 1
  /\ m_sessions' = IF logout THEN [m_sessions EXCEPT ![s] = "none"] ELSE m_sessions
  /\ Telemetry(s)
  /\ UNCHANGED <<dsVars, cfgVars, wakeVars, gap>>

-----------------------------------------------------------------------------
Reactor ==
  \/ Connect \/ ReadKey \/ Watch \/ EnterLoop
  \/ handle_exception \/ Reloaded \/ handle_timeout

Idle == phase = "loop" /\ ~notified /\ ~event /\ UNCHANGED vars

Next ==
  \/ Reactor \/ OnEvent \/ WriteAccess \/ Idle
  \/ \E k \in Keys : \E v \in Values[k] : Write(k, v)
  \/ \E s \in Senders : Expire(s) \/ classic_reply(s, TRUE) \/ classic_reply(s, FALSE)
  \/ \E s \in Senders : \E id \in {"admin"} \cup DOMAIN Accounts : Login(s, id)

Spec == Init /\ [][Next]_vars

(* The reactor dispatches what is pending and the client thread delivers   *)
(* events; nobody is obliged to write a key or to send an SMS.             *)
FairSpec == Spec /\ WF_vars(Reactor) /\ WF_vars(OnEvent)

-----------------------------------------------------------------------------
(* A reload is on its way, or one of the two losses has happened. *)
Pending == event \/ (m_cfg_dirty /\ notified) \/ bad # {} \/ gap

(* When the loop runs on a copy that differs from the store, the change is *)
(* on its way: an event, a wake-up or the dirty flag is pending.  It is so *)
(* although a load is six reads that writers can interleave.  Two losses   *)
(* are real: a failed read, and a change between the first load and the    *)
(* watch.                                                                  *)
StaleIsPending ==
  phase \in {"watch", "loop"} /\ cfg # EffectiveDs => Pending

(* "ds keys hot-apply": once the keys stop changing the copy becomes, and  *)
(* stays, what the store says, but for the same two losses.                *)
HotApplied == <>[](cfg = EffectiveDs \/ bad # {} \/ gap)

(* In the loop the published session count and state are the real ones,    *)
(* unless their last publication failed.                                   *)
PublishedTrue ==
  phase = "loop" =>
    /\ "sessions" \in unpublished \/ pub.sessions = Count(m_sessions)
    /\ "state" \in unpublished \/ (pub.state = "listening" <=> cfg["enabled"])

(* The loop never runs on a setting older than its last load: each value   *)
(* in use was the store's at some time since that load began, or is the    *)
(* default, when it was the read of that key that failed.                  *)
NotOlder ==
  phase \in {"watch", "loop"} =>
    \A k \in Keys : cfg[k] \in seen[k] \/ (k \in bad /\ cfg[k] = Default[k])

Admits(list, s) == list = {} \/ s \in list

(* "a disabled or non-allowlisted sender is dropped in silence" (DESIGN.md,*)
(* zero-touchd): whom the gate lets through, the store has let through at  *)
(* some time since the last load began, by its switch and by its list.     *)
(* The one way around it is a failed read of the list, which counts as an  *)
(* empty one; a failed read of the switch shuts the gate.                  *)
GateHolds ==
  \A s \in Senders : phase = "loop" /\ sender_allowed(s) =>
    /\ TRUE \in seen["enabled"]
    /\ "allowed" \in bad \/ \E list \in seen["allowed"] : Admits(list, s)

-----------------------------------------------------------------------------
(* The inductive invariant.                                                *)

(* The shape of the state, and which flags go together. *)
TypeOK ==
  /\ phase \in {"connect", "start", "watch", "loop", "reload"}
  /\ next \in 1..7 /\ (next < 7 => phase \in {"start", "reload"})
  /\ cfg = [k \in Keys |-> cfg[k]] /\ new = [k \in Keys |-> new[k]]
  /\ DOMAIN ds = Keys /\ DOMAIN seen = Keys
  /\ event \in BOOLEAN /\ m_cfg_dirty \in BOOLEAN /\ notified \in BOOLEAN
  /\ watching \in BOOLEAN /\ bad \subseteq Keys /\ gap \in BOOLEAN
  /\ watching <=> phase \in {"watch", "loop", "reload"}
  /\ m_cfg_dirty => notified

(* While a load is under way, a key already read that the store has since  *)
(* changed is pending, and every value the store has had is in seen.       *)
Loading ==
  phase \in {"start", "reload"} =>
    /\ \A k \in Keys : EffectiveDs[k] \in seen[k] \/ next = 7
    /\ \A k \in Keys : ~Unread(k) =>
         /\ new[k] # EffectiveDs[k] => Pending
         /\ new[k] \in seen[k] \/ (k \in bad /\ new[k] = Default[k])
         /\ k \in {"enabled", "port"} \/ next = 7 => cfg[k] = new[k]

(* What makes StaleIsPending and NotOlder hold after every step: the load  *)
(* keeps them for the part it has read (load_config_from_ds), the watch    *)
(* and the flag taken before the load (handle_exception) for the rest.     *)
IInv == TypeOK /\ Loading /\ StaleIsPending /\ NotOlder
=============================================================================
