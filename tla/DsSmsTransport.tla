--------------------------- MODULE DsSmsTransport ---------------------------
(***************************************************************************)
(* SMS in and out of zero-touchd through the data store (ds_sms_transport. *)
(* cpp): cellular-client publishes an inbound SMS in the one-slot mailbox  *)
(* sms.last.* and bumps sms.version; the ds listener thread flags dirty    *)
(* and wakes the reactor; the reactor thread drains the slot, dedupes and  *)
(* hands the message to Bridge::on_sms, whose reply goes out through       *)
(* sms.send.* and sms.send.request.  The daemon may crash and restart.     *)
(*                                                                         *)
(* The data store and cellular-client are external: modelled from the way  *)
(* this code uses them.  Each SMS carries its publication number n, which  *)
(* the code does not see.                                                  *)
(***************************************************************************)
EXTENDS Naturals, Sequences, SequencesExt

CONSTANTS
    Senders,      \* the numbers that send SMS
    Reachable,    \* those a reply can be sent to (is_reachable_sender)
    Texts,        \* message bodies, the empty one "" among them
    MaxSms,       \* bound: SMS that arrive
    MaxTs,        \* bound: values of the time stamp
    MaxCrashes,   \* bound: crashes of the daemon
    MaxFailures,  \* bound: data-store requests that fail
    MaxBumps      \* bound: bumps of sms.version that announce no SMS

ASSUME TransportAssumption ==
    /\ Reachable \subseteq Senders
    /\ {MaxSms, MaxTs, MaxCrashes, MaxFailures, MaxBumps} \subseteq Nat

VARIABLES
    (* cellular-client and the data store *)
    last,       \* sms.last.{sender,text,ts}
    arrived,    \* number of SMS published so far
    clock,      \* the time stamp that the next SMS gets
    bump,       \* whether sms.version is still to be bumped for last
    events,     \* watch events on sms.version, not yet seen by the listener
    slot,       \* sms.send.{to,text}
    requests,   \* changes of sms.send.request that cellular-client will see
    sent,       \* the SMS cellular-client has transmitted
    (* the daemon *)
    pc,         \* where the main (reactor) thread is
    watching,   \* whether the watch on sms.version is registered
    listener,   \* where the ds listener thread is
    dirty,      \* m_sms_dirty
    notified,   \* whether a reactor notification is pending
    seen,       \* m_seen_{sender,text,ts}
    msg,        \* the message handed to on_message
    (* bounds and history *)
    crashes, failures, bumps,
    failed,     \* history: the kinds of data-store requests that have failed
    delivered,  \* history: the numbers of the messages handed to on_message
    base        \* history: the SMS that had arrived at the last baseline (0: it failed)

cellVars == <<last, arrived, clock, bump>>
outVars == <<slot, requests, sent>>
wakeVars == <<listener, dirty, notified>>
boundVars == <<crashes, failures, bumps, failed>>
vars == <<cellVars, events, outVars, pc, watching, wakeVars, seen, msg, boundVars,
          delivered, base>>

\* No SMS: every key is unset and reads as the empty string.
NoSms == [n |-> 0, sender |-> "", text |-> "", ts |-> 0]
\* What the code compares of a message.
Key(m) == [sender |-> m.sender, text |-> m.text, ts |-> m.ts]

Init ==
    /\ last = NoSms
    /\ arrived = 0
    /\ clock = 1
    /\ bump = FALSE
    /\ events = 0
    /\ slot = NoSms
    /\ requests = 0
    /\ sent = {}
    /\ pc = "baseline"
    /\ watching = FALSE
    /\ listener = "idle"
    /\ dirty = FALSE
    /\ notified = FALSE
    /\ seen = Key(NoSms)
    /\ msg = NoSms
    /\ crashes = 0 /\ failures = 0 /\ bumps = 0
    /\ failed = {}
    /\ delivered = <<>>
    /\ base = 0

-----------------------------------------------------------------------------
(* cellular-client: external.                                              *)

\* An SMS arrives and overwrites the mailbox.
Publish(s, t) ==
    /\ ~bump
    /\ arrived < MaxSms
    /\ arrived' = arrived + 1
    /\ last' = [n |-> arrived + 1, sender |-> s, text |-> t, ts |-> clock]
    /\ bump' = TRUE
    /\ UNCHANGED <<clock, events, outVars, pc, watching, wakeVars, seen, msg, boundVars,
                   delivered, base>>

\* sms.version changes: every registered watch gets an event.
Notify == events' = IF watching THEN events + 1 ELSE events

BumpVersion ==
    /\ bump
    /\ bump' = FALSE
    /\ Notify
    /\ UNCHANGED <<last, arrived, clock, outVars, pc, watching, wakeVars, seen, msg,
                   boundVars, delivered, base>>

\* sms.version counts changes of the whole sms.* domain, not only new SMS.
OtherBump ==
    /\ bumps < MaxBumps
    /\ bumps' = bumps + 1
    /\ Notify
    /\ UNCHANGED <<cellVars, outVars, pc, watching, wakeVars, seen, msg, crashes,
                   failures, failed, delivered, base>>

Tick ==
    /\ clock < MaxTs
    /\ clock' = clock + 1
    /\ UNCHANGED <<last, arrived, bump, events, outVars, pc, watching, wakeVars, seen,
                   msg, boundVars, delivered, base>>

\* cellular-client sees the request token change and transmits the payload.
Transmit ==
    /\ requests > 0
    /\ requests' = requests - 1
    /\ sent' = sent \union {slot}
    /\ UNCHANGED <<cellVars, events, slot, pc, watching, wakeVars, seen, msg, boundVars,
                   delivered, base>>

-----------------------------------------------------------------------------
(* The daemon.                                                             *)

\* A data-store request fails.
Fails(request) ==
    /\ failures < MaxFailures
    /\ failures' = failures + 1
    /\ failed' = failed \union {request}

\* Mutant: start() has no replay guard.
BaselineSkipped ==
    /\ pc = "baseline"
    /\ pc' = "watch"
    /\ UNCHANGED seen
    /\ base' = arrived
    /\ UNCHANGED <<cellVars, events, outVars, watching, wakeVars, msg, boundVars,
                   delivered>>

\* start(): what is in the mailbox is recorded as seen ...
Baseline ==
    /\ pc = "baseline"
    /\ pc' = "watch"
    /\ seen' = Key(last)
    /\ base' = arrived
    /\ UNCHANGED <<cellVars, events, outVars, watching, wakeVars, msg, boundVars,
                   delivered>>

\* ... unless it cannot be read.
BaselineFails ==
    /\ pc = "baseline"
    /\ Fails("baseline")
    /\ pc' = "watch"
    /\ base' = 0
    /\ UNCHANGED <<cellVars, events, outVars, watching, wakeVars, seen, msg, crashes,
                   bumps, delivered>>

\* start(): the watch is registered; then the reactor loop runs.
Watch ==
    /\ pc = "watch"
    /\ pc' = "loop"
    /\ watching' = TRUE
    /\ UNCHANGED <<cellVars, events, outVars, wakeVars, seen, msg, boundVars, delivered,
                   base>>

\* The watch callback on the listener thread: dirty under the mutex ...
CallbackFlags ==
    /\ listener = "idle"
    /\ events > 0
    /\ events' = events - 1
    /\ dirty' = TRUE
    /\ listener' = "notify"
    /\ UNCHANGED <<cellVars, outVars, pc, watching, notified, seen, msg, boundVars,
                   delivered, base>>

\* ... then the wake-up.
CallbackNotifies ==
    /\ listener = "notify"
    /\ listener' = "idle"
    /\ notified' = TRUE
    /\ UNCHANGED <<cellVars, events, outVars, pc, watching, dirty, seen, msg, boundVars,
                   delivered, base>>

\* handle_exception: dirty is consumed before the mailbox is read.
HandleException ==
    /\ pc = "loop"
    /\ notified
    /\ notified' = FALSE
    /\ dirty' = FALSE
    /\ pc' = IF dirty THEN "drain" ELSE "loop"
    /\ UNCHANGED <<cellVars, events, outVars, watching, listener, seen, msg, boundVars,
                   delivered, base>>

\* Without a sender or a text there is no message, whether or not an SMS came.
IsMessage(m) == m.sender # "" /\ m.text # ""

\* drain_inbound: a message that was seen before, or none, is dropped; what is
\* no message is not recorded as seen.
DrainSeen ==
    /\ pc = "drain"
    /\ ~IsMessage(last) \/ Key(last) = seen
    /\ pc' = "loop"
    /\ UNCHANGED <<cellVars, events, outVars, watching, wakeVars, seen, msg, boundVars,
                   delivered, base>>

DrainFails ==
    /\ pc = "drain"
    /\ Fails("drain")
    /\ pc' = "loop"
    /\ UNCHANGED <<cellVars, events, outVars, watching, wakeVars, seen, msg, crashes,
                   bumps, delivered, base>>

\* Mutant: every event delivers what is in the mailbox, even nothing.
DrainUnguarded ==
    /\ pc = "drain"
    /\ seen' = Key(last)
    /\ msg' = last
    /\ pc' = "deliver"
    /\ UNCHANGED <<cellVars, events, outVars, watching, wakeVars, boundVars, delivered,
                   base>>

\* Mutant: the message is not recorded as seen.
DrainForgets ==
    /\ pc = "drain"
    /\ IsMessage(last)
    /\ Key(last) # seen
    /\ UNCHANGED seen
    /\ msg' = last
    /\ pc' = "deliver"
    /\ UNCHANGED <<cellVars, events, outVars, watching, wakeVars, boundVars, delivered,
                   base>>

\* A new message is recorded as seen, on the way to on_message.
Drain ==
    /\ pc = "drain"
    /\ IsMessage(last)
    /\ Key(last) # seen
    /\ seen' = Key(last)
    /\ msg' = last
    /\ pc' = "deliver"
    /\ UNCHANGED <<cellVars, events, outVars, watching, wakeVars, boundVars, delivered,
                   base>>

\* Mutant: send() does not ask is_reachable_sender.
OnMessageToAnyone(answers) ==
    /\ pc = "deliver"
    /\ delivered' = Append(delivered, msg.n)
    /\ pc' = IF answers THEN "payload" ELSE "loop"
    /\ UNCHANGED <<cellVars, events, outVars, watching, wakeVars, seen, msg, boundVars,
                   base>>

\* Mutant: dirty is cleared after the drain, not before it.
OnMessageClears(answers) ==
    /\ pc = "deliver"
    /\ dirty' = FALSE
    /\ delivered' = Append(delivered, msg.n)
    /\ pc' = IF answers /\ msg.sender \in Reachable THEN "payload" ELSE "loop"
    /\ UNCHANGED <<cellVars, events, outVars, watching, listener, notified, seen, msg,
                   boundVars, base>>

\* Bridge::on_sms handles the message; it answers (on to send) or not.
OnMessage(answers) ==
    /\ pc = "deliver"
    /\ delivered' = Append(delivered, msg.n)
    /\ pc' = IF answers /\ msg.sender \in Reachable THEN "payload" ELSE "loop"
    /\ UNCHANGED <<cellVars, events, outVars, watching, wakeVars, seen, msg, boundVars,
                   base>>

\* send(): the payload, the recipient and the text in one request ...
SendPayload ==
    /\ pc = "payload"
    /\ slot' = msg
    /\ pc' = "request"
    /\ UNCHANGED <<cellVars, events, requests, sent, watching, wakeVars, seen, msg,
                   boundVars, delivered, base>>

\* ... then the token that cellular-client watches.
SendRequest ==
    /\ pc = "request"
    /\ requests' = requests + 1
    /\ pc' = "loop"
    /\ UNCHANGED <<cellVars, events, slot, sent, watching, wakeVars, seen, msg,
                   boundVars, delivered, base>>

SendFails ==
    /\ pc \in {"payload", "request"}
    /\ Fails("send")
    /\ pc' = "loop"
    /\ UNCHANGED <<cellVars, events, outVars, watching, wakeVars, seen, msg, crashes,
                   bumps, delivered, base>>

\* The daemon dies and is started again; its memory and its watch are gone.
Crash ==
    /\ crashes < MaxCrashes
    /\ crashes' = crashes + 1
    /\ pc' = "baseline"
    /\ watching' = FALSE
    /\ events' = 0
    /\ listener' = "idle"
    /\ dirty' = FALSE
    /\ notified' = FALSE
    /\ seen' = Key(NoSms)
    /\ msg' = NoSms
    /\ UNCHANGED <<cellVars, outVars, failures, bumps, failed, delivered, base>>

-----------------------------------------------------------------------------
Cellular == BumpVersion \/ Transmit

Listener == CallbackFlags \/ CallbackNotifies

Reactor ==
    \/ Baseline \/ BaselineFails \/ Watch \/ HandleException
    \/ DrainSeen \/ DrainFails \/ Drain \/ \E answers \in BOOLEAN : OnMessage(answers)
    \/ SendPayload \/ SendRequest \/ SendFails

Next ==
    \/ \E s \in Senders, t \in Texts : Publish(s, t)
    \/ OtherBump \/ Tick \/ Cellular
    \/ Listener
    \/ Reactor
    \/ Crash

Spec == Init /\ [][Next]_vars

\* The two threads of the daemon and cellular-client keep running.
FairSpec == Spec /\ WF_vars(Cellular) /\ WF_vars(Listener) /\ WF_vars(Reactor)

-----------------------------------------------------------------------------
(* Properties.                                                             *)

\* The types of the variables.
TypeOK ==
    /\ arrived \in 0..MaxSms /\ last.n \in 0..MaxSms
    /\ pc \in {"baseline", "watch", "loop", "drain", "deliver", "payload", "request"}
    /\ listener \in {"idle", "notify"}
    /\ {bump, watching, dirty, notified} \subseteq BOOLEAN
    /\ requests \in Nat /\ events \in Nat
    /\ delivered \in Seq(1..MaxSms)
    /\ base \in 0..arrived
    /\ failed \subseteq {"baseline", "drain", "send"}

\* "a restart never re-delivers an old command" (the replay guard of start()):
\* no SMS is handed to on_message twice, over all restarts of the daemon.
NoRedelivery == IsInjective(delivered)

\* The one way to hand an SMS over twice is the failed read in start(): failures
\* of other requests, crashes and extra bumps of sms.version never do it.
OnlyBlindStartReplays == "baseline" \notin failed => NoRedelivery

\* The baseline covers everything that predates the daemon: what is handed to
\* on_message arrived after start() read the mailbox.
FreshOnly == pc = "deliver" => msg.n > base

\* A reply reaches the sender of the command it answers: what is transmitted is
\* the answer to an SMS that was handled, addressed to its sender.
RepliesMatch ==
    \A r \in sent : r.n \in {delivered[k] : k \in DOMAIN delivered}
                    /\ r.sender \in Reachable

\* No wake-up is lost between the listener and the reactor thread: after a watch
\* event the mailbox is examined, so its current content ends up seen (unless
\* it is no message, or the read in drain_inbound fails, which is not retried).
WakeupNotLost ==
    (events > 0 /\ IsMessage(last)) ~>
        (~watching \/ ~IsMessage(last) \/ seen = Key(last) \/ "drain" \in failed)
=============================================================================
