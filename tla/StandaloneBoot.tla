---------------------------- MODULE StandaloneBoot ----------------------------
(* Standalone with one history variable: what start() finds on the SIM.    *)
EXTENDS MCStandalone

VARIABLE stored          \* history: the parts on the SIM at the last start

BootInit == Init /\ stored = {}

BootNext ==
  /\ Next
  /\ stored' = IF port = "down" /\ port' # "down" THEN Range(sim) ELSE stored

BootSpec == BootInit /\ [][BootNext]_<<vars, stored>>

(* "Replay baseline at startup [...] so SMS already in SIM storage cannot  *)
(* execute on boot" (DESIGN.md, Security): no SMS of which a part was on   *)
(* the SIM when start() ran is executed in that run.  AtModem::start()     *)
(* calls drain_sms(), which hands it on like any other.                    *)
StoredNotExecuted == \A m \in done : PartsOf(m) \cap stored = {}
=============================================================================
