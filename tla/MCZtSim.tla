------------------------------- MODULE MCZtSim -------------------------------
(* Instances of ZtSim for TLC: one console and one other client. *)
EXTENDS ZtSim, TLC

Iot(w) == <<<<"iot">>, <<w>>>>

HostName == <<"s", "host">>
Password == <<"s", "pw">>

SimSeed == (HostName :> <<"r1">>) @@ (Password :> <<"k">>)

SimTexts ==
  {Iot("login") \o <<<<"admin">>, <<"admin">>>>,
   Iot("login") \o <<<<"viewer">>, <<"viewer">>>>,
   Iot("logout"),
   Iot("gnmi") \o <<<<"get">>, <<"s", ",">> \o Password>>,             \* a subtree, a leaf
   Iot("gnmi") \o <<<<"set">>, HostName \o <<",", "c">>, <<"r3", ",", "r4">>>>}

SimPeerRequests ==
  {[op |-> "Set", role |-> "ADMIN", update |-> << >>, replace |-> <<<<<<"s">>, <<"p">>>>>>,
    delete |-> <<<<"s">>>>],
   [op |-> "Set", role |-> "VIEWER", update |-> <<<<HostName, <<"p">>>>>>,
    replace |-> << >>, delete |-> << >>],
   Malformed("Get")}

SimCalls == [con |-> 3, peer |-> 1]

SimAllowlists == {{"n2"}}
=============================================================================
