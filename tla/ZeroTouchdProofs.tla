--------------------------- MODULE ZeroTouchdProofs ---------------------------
(***************************************************************************)
(* Proofs about ZeroTouchd, for any keys' values, senders and bounds: what *)
(* a load of six separate reads guarantees although the store changes      *)
(* underneath it.                                                          *)
(***************************************************************************)
EXTENDS ZeroTouchd, TLAPS

USE DEF Keys

(* Every key has its place in the order of load_config_from_ds(), and      *)
(* reading one leaves exactly the other unread keys.                       *)
LEMMA OrderLemma ==
  ASSUME next \in 1..6, next' = next + 1
  PROVE  /\ LoadOrder[next] \in Keys
         /\ \A k \in Keys : ~Unread(k)' <=> (~Unread(k) \/ k = LoadOrder[next])
         /\ next' = 7 => LoadOrder[next] = "allowed"
  <1>1. /\ LoadOrder[1] = "enabled" /\ LoadOrder[2] = "port" /\ LoadOrder[3] = "ttl"
        /\ LoadOrder[4] = "failures" /\ LoadOrder[5] = "sec" /\ LoadOrder[6] = "allowed"
    BY DEF LoadOrder
  <1>2. next \in {1, 2, 3, 4, 5, 6}
    OBVIOUS
  <1>3. LoadOrder[next] \in Keys /\ (next' = 7 => LoadOrder[next] = "allowed")
    BY <1>1, <1>2
  <1>4. \A i \in 1..6, j \in 1..6 : LoadOrder[i] = LoadOrder[j] => i = j
    <2> SUFFICES ASSUME NEW i \in 1..6, NEW j \in 1..6, LoadOrder[i] = LoadOrder[j]
                 PROVE  i = j
      OBVIOUS
    <2>1. i \in {1, 2, 3, 4, 5, 6} /\ j \in {1, 2, 3, 4, 5, 6}
      OBVIOUS
    <2> QED BY <1>1, <2>1
  <1>5. \A k \in Keys : Unread(k)' <=> \E i \in (next + 1)..6 : LoadOrder[i] = k
    BY DEF Unread
  <1>6. ASSUME NEW k \in Keys
        PROVE  ~Unread(k)' <=> (~Unread(k) \/ k = LoadOrder[next])
    <2>1. ASSUME Unread(k)' PROVE Unread(k) /\ k # LoadOrder[next]
      <3>1. PICK i \in (next + 1)..6 : LoadOrder[i] = k
        BY <1>5, <2>1
      <3>2. i \in next..6 /\ i # next /\ i \in 1..6
        OBVIOUS
      <3> QED BY <3>1, <3>2, <1>4 DEF Unread
    <2>2. ASSUME Unread(k), k # LoadOrder[next] PROVE Unread(k)'
      <3>1. PICK i \in next..6 : LoadOrder[i] = k
        BY <2>2 DEF Unread
      <3>2. i \in (next + 1)..6
        BY <3>1, <2>2
      <3> QED BY <3>1, <3>2, <1>5
    <2> QED BY <2>1, <2>2
  <1> QED BY <1>3, <1>6

(* Nothing is unread after a load, everything is when one begins.          *)
LEMMA UnreadEnds ==
  /\ next = 7 => \A k : ~Unread(k)
  /\ next = 1 => \A k \in Keys : Unread(k)
  <1>1. /\ LoadOrder[1] = "enabled" /\ LoadOrder[2] = "port" /\ LoadOrder[3] = "ttl"
        /\ LoadOrder[4] = "failures" /\ LoadOrder[5] = "sec" /\ LoadOrder[6] = "allowed"
    BY DEF LoadOrder
  <1>2. next = 7 => next..6 = {}
    OBVIOUS
  <1>3. next = 1 => next..6 = {1, 2, 3, 4, 5, 6}
    OBVIOUS
  <1> QED BY <1>1, <1>2, <1>3 DEF Unread

(* The daemon starts with nothing read and nothing in use.                 *)
LEMMA InitIInv == Init => IInv
  <1> SUFFICES ASSUME Init PROVE IInv
    OBVIOUS
  <1>1. TypeOK
    <2>1. cfg = [k \in Keys |-> cfg[k]] /\ new = [k \in Keys |-> new[k]]
      BY DefaultAssumption DEF Init
    <2>2. DOMAIN ds = Keys /\ DOMAIN seen = Keys
      BY DEF Init
    <2>3. next \in 1..7 /\ (next < 7 => phase \in {"start", "reload"})
      BY DEF Init
    <2>4. /\ event \in BOOLEAN /\ m_cfg_dirty \in BOOLEAN /\ notified \in BOOLEAN
          /\ watching \in BOOLEAN /\ bad \subseteq Keys /\ gap \in BOOLEAN
          /\ m_cfg_dirty => notified
      BY DEF Init
    <2>5. watching <=> phase \in {"watch", "loop", "reload"}
      BY DEF Init
    <2>6. phase \in {"connect", "start", "watch", "loop", "reload"}
      BY DEF Init
    <2> QED BY <2>1, <2>2, <2>3, <2>4, <2>5, <2>6 DEF TypeOK
  <1>2. Loading /\ StaleIsPending /\ NotOlder
    BY DEF Init, Loading, StaleIsPending, NotOlder
  <1> QED BY <1>1, <1>2 DEF IInv

(* Steps that touch neither the store's keys, the copy nor the wake-up: the *)
(* timer, the commands and what happens to sessions and telemetry.          *)
LEMMA Elsewhere ==
  IInv /\ UNCHANGED <<ds, cfgVars, wakeVars, gap>> => IInv'
  BY DEF IInv, TypeOK, Loading, StaleIsPending, NotOlder, Pending, EffectiveDs, Unread,
         cfgVars, wakeVars

(* Writing a key changes the store's value of that key only.               *)
LEMMA WriteEffect ==
  ASSUME DOMAIN ds = Keys, NEW k \in Keys, NEW v, Write(k, v)
  PROVE  EffectiveDs' = [EffectiveDs EXCEPT ![k] = Effective(k, <<v>>)]
  BY DEF Write, EffectiveDs

(* A write keeps the invariant: it is in seen while a load is under way,    *)
(* and a key the load has passed, or the copy in use, is pending by the     *)
(* event or, before the watch, by gap.                                      *)
LEMMA WriteStep ==
  ASSUME IInv, NEW k \in Keys, NEW v, Write(k, v)
  PROVE  IInv'
  <1> USE DEF IInv
  <1>1. EffectiveDs' = [EffectiveDs EXCEPT ![k] = Effective(k, <<v>>)]
    BY WriteEffect DEF TypeOK
  <1>2. UNCHANGED <<phase, cfg, next, new, bad, m_cfg_dirty, notified, watching>>
    BY DEF Write
  <1>3. TypeOK'
    BY <1>2 DEF TypeOK, Write
  <1>4. \A j \in Keys : Unread(j)' <=> Unread(j)
    BY <1>2 DEF Unread
  <1>5. Pending => Pending'
    BY <1>2 DEF Pending, Write, TypeOK
  <1>6. phase # "connect" /\ ~Unread(k) => Pending'
    BY DEF Pending, Write, TypeOK
  <1>7. \A j \in Keys : EffectiveDs'[j] = IF j = k THEN Effective(k, <<v>>) ELSE EffectiveDs[j]
    BY <1>1 DEF EffectiveDs
  <1>8. \A j \in Keys : /\ seen[j] \subseteq seen'[j]
                        /\ next # 7 /\ j = k => Effective(k, <<v>>) \in seen'[j]
    BY DEF Write, TypeOK
  <1>9. Loading'
    BY <1>2, <1>4, <1>5, <1>6, <1>7, <1>8 DEF Loading
  <1>10. NotOlder'
    BY <1>2, <1>8 DEF NotOlder
  <1>11. StaleIsPending'
    <2>1. phase \in {"watch", "loop"} => Pending'
      <3>1. phase \in {"watch", "loop"} => next = 7
        BY DEF TypeOK
      <3> QED BY <3>1, <1>6, UnreadEnds
    <2> QED BY <2>1, <1>2 DEF StaleIsPending
  <1> QED BY <1>3, <1>9, <1>10, <1>11

(* A read keeps the invariant: the value taken is the store's now, or the   *)
(* load is bad; what was read before is untouched.                          *)
LEMMA ReadStep ==
  ASSUME IInv, ReadKey
  PROVE  IInv'
  <1> USE DEF IInv
  <1> DEFINE k == LoadOrder[next]
  <1>1. next \in 1..6 /\ next' = next + 1 /\ phase \in {"start", "reload"}
    BY DEF ReadKey, TypeOK
  <1>2. /\ k \in Keys
        /\ \A j \in Keys : ~Unread(j)' <=> (~Unread(j) \/ j = k)
        /\ next' = 7 => k = "allowed"
    BY <1>1, OrderLemma
  <1>3. UNCHANGED <<ds, phase, seen, event, m_cfg_dirty, notified, watching, gap>>
    BY DEF ReadKey, dsVars, wakeVars
  <1>4. EffectiveDs' = EffectiveDs
    BY <1>3 DEF EffectiveDs
  <1>5. PICK v : /\ new' = [new EXCEPT ![k] = v]
                 /\ cfg' = Apply(k, [new EXCEPT ![k] = v])
                 /\ \/ v = EffectiveDs[k] /\ bad' = bad
                    \/ v = Default[k] /\ bad' = bad \cup {k}
    BY <1>2 DEF ReadKey, EffectiveDs
  <1> HIDE DEF k
  <1>6. new' = [j \in Keys |-> IF j = k THEN v ELSE new[j]]
    BY <1>2, <1>5 DEF TypeOK
  <1>7. /\ cfg' = [j \in Keys |-> cfg'[j]]
        /\ \A j \in {"enabled", "port"} : cfg'[j] = IF j = k THEN v ELSE cfg[j]
        /\ k = "allowed" => \A j \in Keys \ {"enabled", "port"} : cfg'[j] = new'[j]
    <2>1. cfg' = Apply(k, new')
      BY <1>5
    <2>2. CASE k \in {"enabled", "port"}
      <3>1. cfg' = [cfg EXCEPT ![k] = new'[k]]
        BY <2>1, <2>2 DEF Apply
      <3> QED BY <3>1, <2>2, <1>6, <1>2 DEF TypeOK
    <2>3. CASE k = "allowed"
      <3>1. cfg' = [j \in Keys |-> IF j \in {"enabled", "port"} THEN cfg[j] ELSE new'[j]]
        BY <2>1, <2>3 DEF Apply
      <3> QED BY <3>1, <2>3
    <2>4. CASE k \notin {"enabled", "port", "allowed"}
      <3>1. cfg' = cfg
        BY <2>1, <2>4 DEF Apply
      <3> QED BY <3>1, <2>4 DEF TypeOK
    <2> QED BY <2>2, <2>3, <2>4
  <1>8. bad \subseteq bad'
    BY <1>5
  <1>9. TypeOK'
    <2>1. new' = [j \in Keys |-> new'[j]]
      BY <1>6
    <2>2. bad' \subseteq Keys
      BY <1>2, <1>5 DEF TypeOK
    <2> QED BY <1>1, <1>3, <1>7, <2>1, <2>2 DEF TypeOK
  <1>10. Pending => Pending'
    BY <1>3, <1>8 DEF Pending
  <1>11. ASSUME NEW j \in Keys, ~Unread(j)'
         PROVE  /\ new'[j] # EffectiveDs[j] => Pending'
                /\ new'[j] \in seen[j] \/ (j \in bad' /\ new'[j] = Default[j])
                /\ j \in {"enabled", "port"} \/ next' = 7 => cfg'[j] = new'[j]
    <2>1. CASE j = k
      <3>1. new'[j] = v
        BY <1>6, <2>1
      <3>2. EffectiveDs[j] \in seen[j]
        BY <1>1 DEF Loading
      <3>3. j \in bad' => Pending'
        BY DEF Pending
      <3>4. v = EffectiveDs[j] \/ (v = Default[j] /\ j \in bad')
        BY <1>5, <2>1
      <3>5. j \in {"enabled", "port"} \/ next' = 7 => cfg'[j] = new'[j]
        BY <1>2, <1>7, <2>1, <3>1
      <3> QED BY <3>1, <3>2, <3>3, <3>4, <3>5
    <2>2. CASE j # k
      <3>1. ~Unread(j) /\ new'[j] = new[j]
        BY <1>2, <1>6, <1>11, <2>2
      <3>2. /\ new[j] # EffectiveDs[j] => Pending
            /\ new[j] \in seen[j] \/ (j \in bad /\ new[j] = Default[j])
            /\ j \in {"enabled", "port"} => cfg[j] = new[j]
        BY <3>1, <1>1 DEF Loading
      <3>3. j \in {"enabled", "port"} \/ next' = 7 => cfg'[j] = new'[j]
        BY <1>2, <1>7, <2>2, <3>1, <3>2
      <3> QED BY <3>1, <3>2, <3>3, <1>8, <1>10
    <2> QED BY <2>1, <2>2
  <1>12. Loading'
    <2>1. \A j \in Keys : EffectiveDs[j] \in seen[j]
      BY <1>1 DEF Loading
    <2> QED BY <2>1, <1>3, <1>4, <1>11 DEF Loading
  <1>13. StaleIsPending' /\ NotOlder'
    BY <1>1, <1>3 DEF StaleIsPending, NotOlder
  <1> QED BY <1>9, <1>12, <1>13

(* A load begins with every key unread and the store's values in seen.      *)
LEMMA BeginStep ==
  ASSUME IInv, NEW p \in {"start", "reload"}, Begin(p), UNCHANGED ds,
         watching' = (p = "reload"),
         event' \in BOOLEAN, m_cfg_dirty' \in BOOLEAN, notified' \in BOOLEAN,
         gap' \in BOOLEAN, m_cfg_dirty' => notified'
  PROVE  IInv'
  <1> USE DEF IInv
  <1>1. /\ phase' = p /\ next' = 1 /\ bad' = {} /\ new' = Default /\ cfg' = cfg
        /\ seen' = [k \in Keys |-> {EffectiveDs[k]}]
    BY DEF Begin
  <1>2. EffectiveDs' = EffectiveDs
    BY DEF EffectiveDs
  <1>3. \A k \in Keys : Unread(k)'
    <2>1. LoadOrder[1] = "enabled" /\ LoadOrder[2] = "port" /\ LoadOrder[3] = "ttl"
      BY DEF LoadOrder
    <2>2. LoadOrder[4] = "failures" /\ LoadOrder[5] = "sec" /\ LoadOrder[6] = "allowed"
      BY DEF LoadOrder
    <2>3. next'..6 = {1, 2, 3, 4, 5, 6}
      BY <1>1
    <2> QED BY <2>1, <2>2, <2>3 DEF Unread
  <1>4. TypeOK'
    <2>1. new' = [k \in Keys |-> new'[k]]
      BY <1>1, DefaultAssumption
    <2>2. cfg' = [k \in Keys |-> cfg'[k]]
      BY <1>1 DEF TypeOK
    <2>3. watching' \in BOOLEAN /\ (watching' <=> phase' \in {"watch", "loop", "reload"})
      BY <1>1
    <2>4. DOMAIN ds' = Keys /\ DOMAIN seen' = Keys
      BY <1>1 DEF TypeOK
    <2>5. bad' \subseteq Keys
      BY <1>1
    <2> QED BY <1>1, <2>1, <2>2, <2>3, <2>4, <2>5 DEF TypeOK
  <1>5. Loading'
    BY <1>1, <1>2, <1>3 DEF Loading
  <1>6. StaleIsPending' /\ NotOlder'
    BY <1>1 DEF StaleIsPending, NotOlder
  <1> QED BY <1>4, <1>5, <1>6

(* A load ends: what was built is in use, and what has changed since is     *)
(* pending.                                                                 *)
LEMMA EndStep ==
  ASSUME IInv, phase \in {"start", "reload"}, next = 7,
         UNCHANGED <<ds, cfg, next, new, bad, seen, m_cfg_dirty, notified, event, gap>>,
         phase' \in {"watch", "loop"}, watching' = TRUE
  PROVE  IInv'
  <1> USE DEF IInv
  <1>1. \A k \in Keys : ~Unread(k)
    BY UnreadEnds
  <1>2. EffectiveDs' = EffectiveDs /\ EffectiveDs = [k \in Keys |-> EffectiveDs[k]]
    BY DEF EffectiveDs
  <1>3. \A k \in Keys : /\ cfg[k] # EffectiveDs[k] => Pending
                        /\ cfg[k] \in seen[k] \/ (k \in bad /\ cfg[k] = Default[k])
    BY <1>1 DEF Loading
  <1>4. cfg # EffectiveDs => \E k \in Keys : cfg[k] # EffectiveDs[k]
    BY <1>2 DEF TypeOK
  <1>5. TypeOK'
    BY DEF TypeOK
  <1>6. StaleIsPending' /\ NotOlder' /\ Loading'
    BY <1>2, <1>3, <1>4 DEF StaleIsPending, NotOlder, Loading, Pending
  <1> QED BY <1>5, <1>6

(* The steps between loads only raise flags, or lower those of a wake-up    *)
(* without the dirty flag.                                                  *)
LEMMA FlagStep ==
  ASSUME IInv, UNCHANGED <<ds, cfg, next, new, bad, seen, watching, gap>>,
         \/ phase' = phase
         \/ phase = "watch" /\ phase' = "loop",
         event' \in BOOLEAN, m_cfg_dirty' \in BOOLEAN, notified' \in BOOLEAN,
         m_cfg_dirty' => notified', Pending => Pending'
  PROVE  IInv'
  <1> USE DEF IInv
  <1>1. EffectiveDs' = EffectiveDs
    BY DEF EffectiveDs
  <1>2. \A k \in Keys : Unread(k)' <=> Unread(k)
    BY DEF Unread
  <1>3. TypeOK'
    BY DEF TypeOK
  <1>4. Loading'
    BY <1>1, <1>2 DEF Loading
  <1>5. StaleIsPending' /\ NotOlder'
    BY <1>1 DEF StaleIsPending, NotOlder
  <1> QED BY <1>3, <1>4, <1>5

(* The invariant is inductive: every action of the daemon, of the other     *)
(* processes and of the client thread keeps it.                             *)
LEMMA NextIInv == IInv /\ [Next]_vars => IInv'
  <1> SUFFICES ASSUME IInv, [Next]_vars PROVE IInv'
    OBVIOUS
  <1>1. CASE Connect
    <2>1. watching' = ("start" = "reload")
      BY <1>1 DEF Connect, wakeVars, IInv, TypeOK
    <2>2. /\ Begin("start") /\ ds' = ds /\ event' = event /\ m_cfg_dirty' = m_cfg_dirty
          /\ notified' = notified /\ gap' = gap
      BY <1>1 DEF Connect, dsVars, wakeVars
    <2> QED BY <2>1, <2>2, BeginStep DEF IInv, TypeOK
  <1>2. CASE ReadKey
    BY <1>2, ReadStep
  <1>3. CASE Watch
    BY <1>3, EndStep DEF Watch, Loaded, dsVars
  <1>4. CASE EnterLoop
    <2>1. /\ UNCHANGED <<ds, cfg, next, new, bad, seen, wakeVars, gap>>
          /\ phase = "watch" /\ phase' = "loop"
      BY <1>4 DEF EnterLoop, dsVars
    <2>2. Pending => Pending'
      BY <2>1 DEF Pending, wakeVars
    <2> QED BY <2>1, <2>2, FlagStep DEF wakeVars, IInv, TypeOK
  <1>5. CASE handle_exception
    <2>1. /\ phase = "loop" /\ notified' = FALSE /\ m_cfg_dirty' = FALSE
          /\ gap' = (gap /\ ~m_cfg_dirty)
          /\ UNCHANGED <<ds, watching, event>>
      BY <1>5 DEF handle_exception, dsVars
    <2>2. CASE m_cfg_dirty
      <3>1. Begin("reload")
        BY <1>5, <2>2 DEF handle_exception
      <3>2. watching' = ("reload" = "reload")
        BY <2>1 DEF IInv, TypeOK
      <3> QED BY <2>1, <3>1, <3>2, BeginStep DEF IInv, TypeOK
    <2>3. CASE ~m_cfg_dirty
      <3>1. UNCHANGED cfgVars /\ gap' = gap
        BY <1>5, <2>1, <2>3 DEF handle_exception, IInv, TypeOK
      <3>2. Pending => Pending'
        BY <2>1, <2>3, <3>1 DEF Pending, cfgVars
      <3> QED BY <2>1, <3>1, <3>2, FlagStep DEF cfgVars, IInv, TypeOK
    <2> QED BY <2>2, <2>3
  <1>6. CASE Reloaded
    <2>1. /\ phase = "reload" /\ next = 7 /\ phase' = "loop"
          /\ UNCHANGED <<ds, cfg, next, new, bad, seen, wakeVars, gap>>
      BY <1>6 DEF Reloaded, Loaded, dsVars
    <2>2. watching' = TRUE
      BY <2>1 DEF wakeVars, IInv, TypeOK
    <2> QED BY <2>1, <2>2, EndStep DEF wakeVars
  <1>7. CASE OnEvent
    <2>1. /\ UNCHANGED <<ds, cfgVars, watching, gap>>
          /\ event' = FALSE /\ m_cfg_dirty' = TRUE /\ notified' = TRUE
      BY <1>7 DEF OnEvent, dsVars
    <2>2. Pending'
      BY <2>1 DEF Pending
    <2> QED BY <2>1, <2>2, FlagStep DEF cfgVars
  <1>8. CASE \E k \in Keys : \E v \in Values[k] : Write(k, v)
    BY <1>8, WriteStep
  <1>9. ASSUME \/ handle_timeout \/ WriteAccess \/ Idle
               \/ \E s \in Senders : Expire(s) \/ classic_reply(s, TRUE)
                                                \/ classic_reply(s, FALSE)
               \/ \E s \in Senders : \E id \in {"admin"} \cup DOMAIN Accounts : Login(s, id)
               \/ UNCHANGED vars
        PROVE  IInv'
    <2>1. UNCHANGED <<ds, cfgVars, wakeVars, gap>>
      BY <1>9 DEF handle_timeout, WriteAccess, Idle, Expire, classic_reply, Login, vars, dsVars
    <2> QED BY <2>1, Elsewhere
  <1> QED BY <1>1, <1>2, <1>3, <1>4, <1>5, <1>6, <1>7, <1>8, <1>9 DEF Next, Reactor

(* The inductive invariant holds in every reachable state, whatever the     *)
(* keys' values, the senders and the bounds.                                *)
THEOREM DaemonInvariant == Spec => []IInv
  BY InitIInv, NextIInv, PTL DEF Spec

(* A copy of the configuration that differs from the store is never left to *)
(* itself: outside a load (load_config_from_ds) a reload is pending, but    *)
(* for a failed read and the window before the watch.                       *)
THEOREM StaleCopyIsPending == Spec => []StaleIsPending
  <1>1. IInv => StaleIsPending
    BY DEF IInv
  <1> QED BY <1>1, DaemonInvariant, PTL

(* No setting in use is older than the last load.                           *)
THEOREM CopyNotOlder == Spec => []NotOlder
  <1>1. IInv => NotOlder
    BY DEF IInv
  <1> QED BY <1>1, DaemonInvariant, PTL

(* The gate of every command (sender_allowed) lets through only whom the    *)
(* store has let through since the last load began: neither half of it is   *)
(* older than that load, and a failed read of the switch counts as          *)
(* disabled.  A failed read of the list opens it, which is the exemption.   *)
THEOREM GateIsTheStores == Spec => []GateHolds
  <1>1. IInv => GateHolds
    <2> SUFFICES ASSUME IInv, NEW s \in Senders, phase = "loop", sender_allowed(s)
                 PROVE  /\ TRUE \in seen["enabled"]
                        /\ \/ "allowed" \in bad
                           \/ \E list \in seen["allowed"] : Admits(list, s)
      BY DEF GateHolds
    <2>1. Admits(cfg["allowed"], s)
      BY DEF sender_allowed, Admits
    <2>2. \A k \in Keys : cfg[k] \in seen[k] \/ (k \in bad /\ cfg[k] = Default[k])
      BY DEF IInv, NotOlder
    <2> QED BY <2>1, <2>2, DefaultAssumption DEF sender_allowed
  <1> QED BY <1>1, DaemonInvariant, PTL
=============================================================================
