---------------------------- MODULE MCZeroTouchd ----------------------------
(* Instance of ZeroTouchd for TLC. *)
EXTENDS ZeroTouchd, TLC

ZdDefault == [enabled |-> FALSE, port |-> 50051, ttl |-> 600, failures |-> 5, sec |-> 900,
              allowed |-> {}]

(* The switch, the port and the allowlist change: to a port that is        *)
(* refused and to one that is cut.  The other numbers are read alike.      *)
ZdValues == [enabled |-> BOOLEAN, port |-> {0, 65537}, ttl |-> {}, failures |-> {}, sec |-> {},
             allowed |-> {{}, {"n1"}}]

ZdAccounts == [ops |-> [ok |-> TRUE, access |-> "Viewer"],
               old |-> [ok |-> FALSE, access |-> "Viewer"]]
=============================================================================
