------------------------------- MODULE AtModem -------------------------------
(***************************************************************************)
(* The AT modem driver of the standalone daemon (src/at_modem.cpp): a      *)
(* synchronous engine that writes a command and reads lines until OK or    *)
(* ERROR, a poll that lists the SIM, hands on each SMS and then deletes    *)
(* the slots, and the send path with its '>' prompt.                       *)
(*                                                                         *)
(* The driver is one thread.  What it still has to do is `plan`, the       *)
(* commands of the functions on its stack in order; `exch` is the run_at() *)
(* it is in.  The modem is external: it executes what was written, in      *)
(* order, at its own pace, and answers on `wire`.  An answer that comes    *)
(* after its run_at() has timed out stays on the wire or in m_rx, where    *)
(* the next run_at() reads it as its own.                                  *)
(*                                                                         *)
(* What happens to a complete SMS is the callback's business: the module   *)
(* that extends this one gives the step.                                   *)
(***************************************************************************)
EXTENDS Integers, Sequences, SequencesExt, FiniteSets

CONSTANTS Pdus,          \* the SMS parts that can arrive
          MsgOf,         \* [Pdus -> message]: the SMS a part belongs to
          Garbled,       \* the parts decode_sms_deliver() refuses
          Unencodable,   \* the numbers encode_sms_submit() refuses
          Slots,         \* the places of the SIM, 1..n
          Auto,          \* modem.type = auto
          MaxFaults      \* bound: late answers, ERROR answers, failed opens

VARIABLES sim,           \* the SIM: a partial function from Slots to Pdus
          mode,          \* the modem takes "cmd"s, or the "text" of an SMS
          cmds,          \* written to the port and not yet executed
          wire,          \* what the modem has written and nobody has read
          m_rx,          \* read and not yet used
          plan, exch,
          m_reasm,       \* the parts SmsReassembler holds
          port,          \* "down", "open", or "failed" (daemon up, no modem)
          faults,
          coming,        \* parts the network has still to deliver
          late,          \* history: a run_at() timed out
          downed,        \* history: the process has gone down before
          crossed,       \* history: an answer was read by another command
          kept           \* history: an AT+CMGD was not carried out

modemVars == <<sim, mode, coming, faults>>
atVars == <<modemVars, cmds, wire, m_rx, plan, exch, m_reasm, port, late, downed, crossed,
            kept>>

Step(do, arg) == [do |-> do, arg |-> arg]
At(cmd) == Step("at", cmd)
None == [cmd |-> Step("none", "none"), lines |-> << >>]
Delete(i) == [do |-> "delete", arg |-> "CMGD", slot |-> i]

(* What the modem writes: the header and the PDU line of each entry of a   *)
(* listing, other lines, the final OK or ERROR, and the '>' prompt, which  *)
(* alone does not end a line.                                              *)
Item(kind, of) == [kind |-> kind, of |-> of]
Final(c, ok) == <<[kind |-> "final", of |-> c.arg, ok |-> ok]>>

PartsOf(m) == {p \in Pdus : MsgOf[p] = m}

AtInit ==
  /\ sim = << >> /\ mode = "cmd" /\ coming = Pdus
  /\ cmds = << >> /\ wire = << >> /\ m_rx = << >>
  /\ plan = << >> /\ exch = None /\ m_reasm = {} /\ port = "down"
  /\ faults = 0 /\ late = FALSE /\ downed = FALSE /\ crossed = FALSE /\ kept = FALSE

Fault == faults < MaxFaults /\ faults' = faults + 1

-----------------------------------------------------------------------------
(* The modem and the network.                                              *)

Cmti == Item("line", "urc")

FreeSlots == Slots \ DOMAIN sim

(* The +CMTI line that announces a part may fall between any two lines of  *)
(* the answer that is being written; two in a row are as one.              *)
Announce ==
  \E k \in 0..Len(wire) :
    /\ \A i \in (k + 1)..(Len(wire) - 1) : wire[i].kind # "final"
    /\ wire' = IF \E i \in {k, k + 1} \cap DOMAIN wire : wire[i].of = "urc" THEN wire
               ELSE InsertAt(wire, k + 1, Cmti)

(* A part arrives in the first free slot, if there is one. *)
Deliver(p) ==
  /\ p \in coming /\ FreeSlots # {}
  /\ LET i == CHOOSE i \in FreeSlots : \A j \in FreeSlots : i <= j
     IN sim' = [j \in DOMAIN sim \cup {i} |-> IF j = i THEN p ELSE sim[j]]
  /\ coming' = coming \ {p}
  /\ IF port = "open" THEN Announce ELSE UNCHANGED wire
  /\ UNCHANGED <<mode, cmds, m_rx, plan, exch, m_reasm, port, faults, late,
                 downed, crossed, kept>>

(* AT+CMGL=4: two lines for each slot in use. *)
Listing(c) ==
  LET S == SetToSortSeq(DOMAIN sim, <)
  IN FlattenSeq([i \in DOMAIN S |-> <<[kind |-> "hdr", of |-> c.arg, slot |-> S[i]],
                                      [kind |-> "pdu", of |-> c.arg, pdu |-> sim[S[i]]]>>])

Says(items) ==
  wire' = IF port = "open" THEN wire \o items ELSE wire

(* The modem takes the next thing that was written. *)
Execute ==
  LET c == Head(cmds)
  IN /\ cmds # << >>
     /\ cmds' = Tail(cmds)
     /\ \/ /\ mode = "text" /\ c.do = "payload"              \* Ctrl-Z: sent, or not
           /\ mode' = "cmd"
           /\ \/ Says(Final(c, TRUE)) /\ UNCHANGED faults
              \/ Fault /\ Says(Final(c, FALSE))
           /\ UNCHANGED <<sim, kept>>
        \/ /\ mode = "text" /\ c.do = "esc"
           /\ mode' = "cmd"
           /\ UNCHANGED <<sim, wire, faults, kept>>
        \/ /\ mode = "text" /\ c.do \notin {"payload", "esc"}
           /\ kept' = (kept \/ c.do = "delete")
           /\ UNCHANGED <<sim, mode, wire, faults>>
        \/ /\ mode = "cmd" /\ c.do \in {"esc", "payload"}    \* no command: ignored
           /\ UNCHANGED <<sim, mode, wire, faults, kept>>
        \/ /\ mode = "cmd" /\ c.do = "prompt"
           /\ mode' = "text"
           /\ Says(<<Item("prompt", c.arg)>>)
           /\ UNCHANGED <<sim, faults, kept>>
        \/ /\ mode = "cmd" /\ c.do = "list"
           /\ Says(Listing(c) \o Final(c, TRUE))
           /\ UNCHANGED <<sim, mode, faults, kept>>
        \/ /\ mode = "cmd" /\ c.do = "delete"
           /\ sim' = [i \in DOMAIN sim \ {c.slot} |-> sim[i]]
           /\ Says(Final(c, TRUE))
           /\ UNCHANGED <<mode, faults, kept>>
        \/ /\ mode = "cmd" /\ c.do = "at"
           /\ Says(Final(c, TRUE))
           /\ UNCHANGED <<sim, mode, faults, kept>>
        \/ /\ mode = "cmd" /\ c.do \in {"list", "delete", "at", "prompt"} /\ Fault
           /\ Says(Final(c, FALSE))          \* ERROR
           /\ kept' = (kept \/ c.do = "delete")
           /\ UNCHANGED <<sim, mode>>
     /\ UNCHANGED <<coming, m_rx, plan, exch, m_reasm, port, late, downed,
                    crossed>>

-----------------------------------------------------------------------------
(* The AT engine.                                                          *)

Waits == {"at", "prompt", "wait", "list", "delete"}

(* run_at() begins: the command goes out; "" (the wait after Ctrl-Z) is    *)
(* only a read.                                                            *)
Issue ==
  /\ exch = None /\ plan # << >> /\ Head(plan).do \in Waits
  /\ exch' = [cmd |-> Head(plan), lines |-> << >>]
  /\ cmds' = IF Head(plan).do = "wait" THEN cmds ELSE Append(cmds, Head(plan))
  /\ UNCHANGED <<modemVars, wire, m_rx, plan, m_reasm, port, late, downed, crossed, kept>>

(* Bare bytes: ESC, and the PDU with its Ctrl-Z. *)
WriteBytes ==
  /\ exch = None /\ plan # << >> /\ Head(plan).do \in {"esc", "payload"}
  /\ cmds' = Append(cmds, Head(plan))
  /\ plan' = Tail(plan)
  /\ UNCHANGED <<modemVars, wire, m_rx, exch, m_reasm, port, late, downed, crossed, kept>>

(* A number that makes no PDU ends the send before anything is written. *)
send_sms(to) ==
  IF to \in Unencodable THEN << >>
  ELSE <<Step("esc", to), At("CMGF"), Step("prompt", to), Step("payload", to),
         Step("wait", to)>>

(* Mutant of Drained: the slots are emptied before their SMS are handled. *)
DrainedEarly(good) ==
  [i \in DOMAIN good |-> Delete(good[i][1])] \o [i \in DOMAIN good |-> Step("pdu", good[i][2])]

(* Mutant of Drained: the slots of the SMS are not deleted. *)
DrainedKept(good) == [i \in DOMAIN good |-> Step("pdu", good[i][2])]

(* The rest of drain_sms(): hand on the parts, then delete their slots. *)
Drained(good) ==
  [i \in DOMAIN good |-> Step("pdu", good[i][2])] \o [i \in DOMAIN good |-> Delete(good[i][1])]

(* The loop of drain_sms() over the lines of a listing: the line after a   *)
(* header is taken for its PDU, whatever it is.  When it cannot be decoded *)
(* both are passed over, and the part stays on the SIM.                    *)
Entries(lines) ==
  FoldLeft(LAMBDA a, l :
             IF a.hdr # 0
             THEN [hdr |-> 0,
                   good |-> IF l.kind = "pdu" /\ l.pdu \notin Garbled
                            THEN Append(a.good, <<a.hdr, l.pdu>>) ELSE a.good]
             ELSE IF l.kind = "hdr" THEN [a EXCEPT !.hdr = l.slot] ELSE a,
           [hdr |-> 0, good |-> << >>], lines).good

(* What the caller of run_at() does with the result: a failed listing ends *)
(* the drain, a missing prompt the send; everything else is carried on.    *)
Return(ok, lines) ==
  plan' = CASE exch.cmd.do = "list" /\ ok -> Drained(Entries(lines)) \o Tail(plan)
            [] exch.cmd.do = "prompt" /\ ~ok -> SubSeq(plan, 4, Len(plan))
            [] OTHER -> Tail(plan)

FirstFinal(s) ==
  LET F == {i \in DOMAIN s : s[i].kind = "final"}
  IN IF F = {} THEN 0 ELSE CHOOSE i \in F : \A j \in F : i <= j

(* Only a listing's caller looks at the lines of its answer. *)
Lines(s) ==
  IF exch.cmd.do = "list" THEN SelectSeq(s, LAMBDA x : x.kind # "final") ELSE << >>

Answers(s) == \E i \in DOMAIN s : s[i].kind \in {"final", "prompt"}

(* The answer in s is not the one of the command that reads it: it names   *)
(* another, or a later answer is on the wire or still to come.             *)
Foreign(s, rest) ==
  \/ \E i \in DOMAIN s : s[i].of \notin {exch.cmd.arg, "urc"}
  \/ Answers(s) /\ (cmds # << >> \/ Answers(rest))

(* A read() returns some of what is there.  Lines are used up to the first *)
(* final one and the rest stays in m_rx until more arrives, as does a '>'  *)
(* that nothing follows; with more behind it, it is a line like any other. *)
(* A '>' anywhere in m_rx satisfies a send and clears the buffer.          *)
Read(k) ==
  LET all == m_rx \o wire
      buf == SubSeq(all, 1, Len(m_rx) + k)
      f == FirstFinal(buf)
      n == IF f # 0 THEN f ELSE IF Last(buf).kind = "prompt" THEN Len(buf) - 1 ELSE Len(buf)
      used == SubSeq(buf, 1, n)
      lines == exch.lines \o Lines(used)
      Rest(j) == SubSeq(all, j + 1, Len(all))
  IN /\ exch # None
     /\ wire' = SubSeq(wire, k + 1, Len(wire))
     /\ IF exch.cmd.do = "prompt" /\ \E i \in DOMAIN buf : buf[i].kind = "prompt"
        THEN /\ crossed' = (crossed \/ Foreign(buf, Rest(Len(buf))))
             /\ m_rx' = << >> /\ exch' = None /\ Return(TRUE, << >>)
        ELSE /\ crossed' = (crossed \/ Foreign(used, Rest(n)))
             /\ m_rx' = SubSeq(buf, n + 1, Len(buf))
             /\ IF f = 0 THEN exch' = [exch EXCEPT !.lines = lines] /\ UNCHANGED plan
                ELSE exch' = None /\ Return(buf[f].ok, lines)
     /\ UNCHANGED <<modemVars, cmds, m_reasm, port, late, downed, kept>>

(* The deadline passes: because no answer can come any more, or before one *)
(* that is still on its way.                                               *)
Timeout ==
  /\ exch # None
  /\ \/ cmds = << >> /\ wire = << >> /\ UNCHANGED faults
     \/ (cmds # << >> \/ wire # << >>) /\ Fault
  /\ exch' = None
  /\ Return(FALSE, << >>)
  /\ late' = TRUE
  /\ UNCHANGED <<sim, mode, coming, cmds, wire, m_rx, m_reasm, port, downed,
                 crossed, kept>>

-----------------------------------------------------------------------------
(* Start, poll and death.                                                  *)

Vendor == IF Auto THEN <<At("GMI"), At("CGMM")>> ELSE << >>

configure == <<Step("esc", "cfg"), At("ATE0"), At("CMEE"), At("CMGF"), At("CNMI")>>

drain_sms == <<Step("list", "CMGL")>>

(* The device cannot be opened, or its line settings are refused. *)
open_port ==
  \/ port' = "open" /\ UNCHANGED faults
  \/ Fault /\ port' = "failed"

(* Mutant of Start: a failed open does not end start(). *)
StartAnyway ==
  /\ port = "down" /\ open_port
  /\ plan' = Vendor \o configure \o drain_sms
  /\ UNCHANGED <<sim, mode, coming, cmds, wire, m_rx, exch, m_reasm, late,
                 downed, crossed, kept>>

(* start(): when the port cannot be opened it returns before the timer is  *)
(* set, and the daemon runs on without a modem.                            *)
Start ==
  /\ port = "down" /\ open_port
  /\ plan' = IF port' = "open" THEN Vendor \o configure \o drain_sms ELSE plan
  /\ UNCHANGED <<sim, mode, coming, cmds, wire, m_rx, exch, m_reasm, late,
                 downed, crossed, kept>>

(* Mutant of handle_timeout: a run_at() that timed out stops the poll. *)
handle_timeout_stops ==
  /\ port = "open" /\ plan = << >> /\ exch = None /\ ~late
  /\ plan' = drain_sms
  /\ UNCHANGED <<modemVars, cmds, wire, m_rx, exch, m_reasm, port, late, downed, crossed,
                 kept>>

handle_timeout ==
  /\ port = "open" /\ plan = << >> /\ exch = None
  /\ plan' = drain_sms
  /\ UNCHANGED <<modemVars, cmds, wire, m_rx, exch, m_reasm, port, late, downed, crossed,
                 kept>>

(* Everything in memory is gone, unread input with it.  The modem keeps    *)
(* its SIM, its mode and what was already written to it.                   *)
Down ==
  /\ port' = "down" /\ plan' = << >> /\ exch' = None /\ m_rx' = << >> /\ wire' = << >>
  /\ m_reasm' = {} /\ downed' = TRUE
  /\ UNCHANGED <<sim, mode, coming, cmds, late, crossed, kept>>

(* The part at the head of the plan is decoded; alone, or with the parts   *)
(* kept so far, it makes an SMS.                                           *)
Complete(p) == PartsOf(MsgOf[p]) \subseteq m_reasm \cup {p}

Decode(p) ==
  /\ exch = None /\ plan # << >> /\ Head(plan) = Step("pdu", p)
  /\ m_reasm' = IF Complete(p) THEN m_reasm \ PartsOf(MsgOf[p]) ELSE m_reasm \cup {p}
  /\ UNCHANGED <<modemVars, cmds, wire, m_rx, exch, port, late, downed, crossed, kept>>
=============================================================================
