---------------------------- MODULE MCStandalone ----------------------------
(* Instances of Standalone for TLC. *)
EXTENDS Standalone, TLC

(* A login in the two parts l and k, an APN and a reboot. *)
SaMsgOf == [l |-> "login", k |-> "login", a |-> "apn", r |-> "reboot"]
SaSender == [login |-> "n1", apn |-> "n1", reboot |-> "n1"]
SaText == [login |-> [do |-> "login", id |-> "admin", hash |-> "h"],
           apn |-> [do |-> "apn"], reboot |-> [do |-> "reboot"]]

(* Enabled for anyone, with values the parser refuses or truncates: a port *)
(* of 65537, a session time of 2^32; shut, with a users file that names no *)
(* Admin.                                                                  *)
SaFiles ==
  {<< <<<<"enabled", "yes">>, << >>, <<"gnmi.port", <<0, 1, 1>>>>,
        <<"session.ttl.sec", <<1, 0, 0>>>>>>,
      <<<<"admin", "", "Viewer">>, <<"admin", "h", "Admin">>>> >>,
   << <<<<"gnmi.port", <<-1, 0, 0>>>>, <<"modem.dev", "x">>>>,
      <<<<"admin", "h", "root">>>> >>}

OneFile == {<< <<<<"enabled", "on">>>>, <<<<"admin", "h", "Admin">>>> >>}
=============================================================================
