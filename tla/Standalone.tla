------------------------------ MODULE Standalone ------------------------------
(***************************************************************************)
(* zero-touchd-standalone (daemon/zerotouchd_standalone.cpp): the AT modem *)
(* below, and above it the configuration and users files (src/config.cpp,  *)
(* src/users.cpp), the bridge's gate and routing, and the classic commands *)
(* that act through the same AT channel or reboot the device               *)
(* (src/direct_action_sink.cpp).  smsctl's sessions are external.          *)
(*                                                                         *)
(* A file is a sequence of lines: <<key, value>>, <<id, hash, access>>, or *)
(* << >> for a line the parser skips.                                      *)
(***************************************************************************)
EXTENDS AtModem

CONSTANTS Sender,        \* [messages -> MSISDN]
          Text,          \* [messages -> what it asks for]
          Files          \* contents the configuration and users files can have

VARIABLES m_config, m_users,     \* what run() made of the files
          m_sessions,            \* [senders -> access]
          ever,                  \* history: the messages handed to the bridge
          thisRun,               \* history: how often each, since the last start
          done                   \* history: those executed since the last start

appVars == <<m_config, m_users, m_sessions, ever, thisRun, done>>
vars == <<atVars, appVars>>

Messages == Range(MsgOf)
Senders  == Range(Sender)

-----------------------------------------------------------------------------
(* The files.  A number in a file is written by its digits to the base     *)
(* 2^16, <<h, m, l>>; h alone carries the sign.                            *)

Defaults == [enabled |-> FALSE, port |-> 50051, allowed |-> {}, ttl |-> <<0, 600>>]

to_bool(v) == v \in {"1", "true", "yes", "on"}

(* stol() of a value that is not a number throws: modelled as 0, which is  *)
(* refused like every number below 1.  The sign is asked of the long, then *)
(* its lower 32 bits are kept: they may be zero.                           *)
to_u32(v, dflt) ==
  IF v[1] > 0 \/ (v[1] = 0 /\ (v[2] > 0 \/ v[3] > 0)) THEN <<v[2], v[3]>> ELSE dflt

(* One number of 16 bits and one of 32 stand for the five numeric keys. *)
SetKey(c, line) ==
  IF Len(line) # 2 THEN c
  ELSE CASE line[1] = "enabled" -> [c EXCEPT !.enabled = to_bool(line[2])]
         [] line[1] = "gnmi.port" -> [c EXCEPT !.port = to_u32(line[2], <<0, @>>)[2]]
         [] line[1] = "allowed.numbers" -> [c EXCEPT !.allowed = line[2]]
         [] line[1] = "session.ttl.sec" -> [c EXCEPT !.ttl = to_u32(line[2], @)]
         [] OTHER -> c

(* Later lines win; what is absent, unknown or refused changes nothing. *)
parse_config(file) == FoldLeft(SetKey, Defaults, file)

AddUser(u, line) ==
  IF Len(line) # 3 \/ line[1] = "" \/ line[2] = "" THEN u
  ELSE [id \in DOMAIN u \cup {line[1]} |->
          IF id # line[1] THEN u[id]
          ELSE [hash |-> line[2],
                access |-> IF line[3] = "Admin" THEN "Admin" ELSE "Viewer"]]

ParseUsers(file) == FoldLeft(AddUser, << >>, file)

(* The access LOGIN <id> <password> earns; a password is shown by its hash. *)
Access(id, hash) ==
  IF id \in DOMAIN m_users /\ m_users[id].hash = hash THEN m_users[id].access ELSE "None"

-----------------------------------------------------------------------------
(* One SMS: the gate, the routing, the action and the reply.               *)

(* Mutant of Allowed: the switch is not asked. *)
AllowedAlways(s) == m_config.allowed = {} \/ s \in m_config.allowed

Allowed(s) == m_config.enabled /\ (m_config.allowed = {} \/ s \in m_config.allowed)

(* The AT commands of a classic command, in the order of the sink's calls. *)
Action(do) ==
  CASE do = "apn"    -> <<At("CGDCONT"), At("CFUN0"), At("CFUN1")>>
    [] do = "radio"  -> <<At("CFUN0"), At("CFUN1")>>
    [] do = "status" -> <<At("CREG"), At("CSQ"), At("CGPADDR")>>
    [] OTHER         -> << >>

(* STATUS and GNMI GET need a session, what changes something an Admin one. *)
Needs(do) == IF do \in {"status", "get"} THEN {"Viewer", "Admin"} ELSE {"Admin"}

NoReply(m) == ~Allowed(Sender[m]) \/ Text[m].do = "noise"

Refused(m) == Text[m].do = "wifi" \/ m_sessions[Sender[m]] \notin Needs(Text[m].do)

(* Mutant of Script: no reply is waited for. *)
ScriptHasty(m) ==
  IF NoReply(m) THEN << >>
  ELSE (IF Text[m].do = "login" \/ Refused(m) THEN << >> ELSE Action(Text[m].do))
         \o SelectSeq(send_sms(Sender[m]), LAMBDA c : c.do # "wait")

(* What handling m adds to the plan. *)
Script(m) ==
  IF NoReply(m) THEN << >>
  ELSE (IF Text[m].do = "login" \/ Refused(m) THEN << >> ELSE Action(Text[m].do))
         \o send_sms(Sender[m])

Executes(m) == ~NoReply(m) /\ (Text[m].do = "login" \/ ~Refused(m))

Session(m) ==
  LET a == Access(Text[m].id, Text[m].hash)
  IN IF Executes(m) /\ Text[m].do = "login" /\ a # "None"
     THEN [m_sessions EXCEPT ![Sender[m]] = a] ELSE m_sessions

Reboots(m) == Executes(m) /\ Text[m].do = "reboot"

Record(m) ==
  /\ ever' = ever \cup {m}
  /\ thisRun' = [thisRun EXCEPT ![m] = @ + 1]
  /\ done' = IF Executes(m) THEN done \cup {m} ELSE done

(* A part that completes no SMS is kept; otherwise the callback runs, and  *)
(* its commands come before the rest of the drain.                         *)
OnPart(p) ==
  /\ ~Complete(p)
  /\ Decode(p) /\ plan' = Tail(plan)
  /\ UNCHANGED appVars

(* A reboot() that fails returns; its result is not asked, and m is        *)
(* answered like any other command.                                        *)
OnSms(p) ==
  LET m == MsgOf[p]
  IN /\ Complete(p)
     /\ Decode(p) /\ plan' = Script(m) \o Tail(plan)
     /\ m_sessions' = Session(m) /\ Record(m)
     /\ UNCHANGED <<m_config, m_users>>

(* A reboot() that succeeds does not return: the slots of this drain are not deleted. *)
Reboot(p) ==
  LET m == MsgOf[p]
  IN /\ exch = None /\ plan # << >> /\ Head(plan) = Step("pdu", p)
     /\ Complete(p) /\ Reboots(m)
     /\ Down /\ UNCHANGED faults
     /\ Record(m)
     /\ UNCHANGED <<m_config, m_users, m_sessions>>

-----------------------------------------------------------------------------
(* run(), and what happens around it.                                      *)

(* The files, whatever they hold by now, are read once per run; sessions   *)
(* are in memory only.                                                     *)
Run(conf, users) ==
  /\ Start
  /\ m_config' = parse_config(conf)
  /\ m_users' = ParseUsers(users)
  /\ m_sessions' = [s \in Senders |-> "None"]
  /\ thisRun' = [m \in Messages |-> 0] /\ done' = {}
  /\ UNCHANGED ever

(* A session runs out, noticed by the sweep or at the next command. *)
Sweep(s) ==
  /\ port # "down" /\ exch = None /\ (plan # << >> => Head(plan).do = "pdu")
  /\ m_sessions[s] # "None"
  /\ m_sessions' = [m_sessions EXCEPT ![s] = "None"]
  /\ UNCHANGED <<atVars, m_config, m_users, ever, thisRun, done>>

Crash ==
  /\ port # "down" /\ Fault
  /\ Down
  /\ UNCHANGED appVars

Init ==
  /\ AtInit
  /\ m_config = Defaults /\ m_users = << >>
  /\ m_sessions = [s \in Senders |-> "None"]
  /\ ever = {} /\ thisRun = [m \in Messages |-> 0] /\ done = {}

OneThread ==
  \/ \E f \in Files : Run(f[1], f[2])
  \/ (Issue \/ WriteBytes \/ Timeout \/ handle_timeout) /\ UNCHANGED appVars
  \/ (\E k \in 1..Len(wire) : Read(k)) /\ UNCHANGED appVars
  \/ \E p \in Pdus : OnPart(p) \/ OnSms(p) \/ Reboot(p)

Next ==
  \/ OneThread
  \/ (Execute \/ \E p \in Pdus : Deliver(p)) /\ UNCHANGED appVars
  \/ \E s \in Senders : Sweep(s)
  \/ Crash
  \/ port = "failed" /\ UNCHANGED vars       \* the reactor turns, without a modem

Spec == Init /\ [][Next]_vars

(* The reactor keeps the thread going and the timer keeps firing; the modem*)
(* executes what it is given.  Nothing obliges an SMS to arrive.           *)
FairSpec == Spec /\ WF_vars(OneThread) /\ WF_vars(Execute /\ UNCHANGED appVars)

-----------------------------------------------------------------------------
OnSim(p) == p \in Range(sim)

(* The shape of the state; a run_at() in progress is the head of the plan, *)
(* and without a port there is neither.                                    *)
TypeOK ==
  /\ DOMAIN sim \subseteq Slots /\ Range(sim) \subseteq Pdus \ coming
  /\ mode \in {"cmd", "text"} /\ port \in {"down", "open", "failed"}
  /\ m_reasm \subseteq Pdus \ Garbled
  /\ exch # None => plan # << >> /\ Head(plan) = exch.cmd
  /\ port # "open" => plan = << >> /\ exch = None /\ m_rx = << >>
  /\ m_sessions \in [Senders -> {"None", "Viewer", "Admin"}]
  /\ m_config.port \in 0..(2^16 - 1)

(* A part leaves the SIM only after its SMS was handed to the bridge or    *)
(* while the reassembler holds it (drain_sms deletes after the callbacks). *)
(* Two ways around it are real: parts in memory die with the process, and  *)
(* an answer read by the wrong command deletes by a stale listing.         *)
Accounted ==
  \A p \in Pdus \ coming :
    \/ OnSim(p) \/ p \in m_reasm \/ MsgOf[p] \in ever
    \/ downed /\ Cardinality(PartsOf(MsgOf[p])) > 1
    \/ crossed

(* In one run an SMS is handed on once, unless its slot was not deleted    *)
(* (the result of AT+CMGD is ignored) or a listing was stale.              *)
OncePerRun ==
  \A m \in Messages : thisRun[m] > 1 => crossed \/ kept

(* Every command reads its own answer: only a timed-out command, or one of *)
(* an earlier process, leaves an answer for the next to take.              *)
AnswersMatch == crossed => late \/ downed

(* While the daemon is disabled by its file nothing is executed and no SMS *)
(* goes out; a change of the file counts from the next start.              *)
InertWhileDisabled ==
  port # "down" /\ ~m_config.enabled =>
    done = {} /\ \A i \in DOMAIN plan : plan[i].do \notin {"prompt", "payload"}

(* The SIM keeps being emptied of what can be decoded, unless the modem is *)
(* left at the '>' of an aborted send, the port was never opened, or the   *)
(* device keeps rebooting.                                                 *)
NeverStranded ==
  \/ []<>(Range(sim) \subseteq Garbled)
  \/ <>[](mode = "text") \/ <>[](port = "failed") \/ []<>(port = "down")

(* send_sms() says it clears "a stuck '>' from a previous aborted send":   *)
(* the modem does not stay in text mode for ever.                          *)
StuckPromptCleared == []<>(mode = "cmd")
=============================================================================
