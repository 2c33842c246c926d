--------------------------- MODULE SplicedStream ----------------------------
(***************************************************************************)
(* What grpc-tunnel promises the two applications at the ends of a logical *)
(* stream: each direction is a byte pipe.  A side is idle, then open, then *)
(* over.  While a side is open it receives, in order and without gaps,     *)
(* bytes that the other side wrote; once it is over it receives nothing.   *)
(* The n-th byte of a direction is the number n, so a count stands for the *)
(* bytes.                                                                  *)
(***************************************************************************)
EXTENDS Naturals, Sequences

CONSTANTS Sides, Streams, Peer(_)

VARIABLES phase, wrote, got

abstractVars == <<phase, wrote, got>>

Init ==
    /\ phase = [x \in Sides |-> [i \in Streams |-> "idle"]]
    /\ wrote = [x \in Sides |-> [i \in Streams |-> 0]]
    /\ got = [x \in Sides |-> [i \in Streams |-> <<>>]]

Open(x, i) ==
    /\ phase[x][i] = "idle"
    /\ phase' = [phase EXCEPT ![x][i] = "open"]
    /\ UNCHANGED <<wrote, got>>

Write(x, i) ==
    /\ phase[x][i] # "idle"
    /\ wrote' = [wrote EXCEPT ![x][i] = @ + 1]
    /\ UNCHANGED <<phase, got>>

\* The sides of the streams in S end, together when their session ends.
Over(x, S) ==
    /\ \A i \in S : phase[x][i] = "open"
    /\ phase' = [phase EXCEPT ![x] = [i \in Streams |->
                                         IF i \in S THEN "over" ELSE @[i]]]

End(x, S) == Over(x, S) /\ UNCHANGED <<wrote, got>>

\* The next bytes of the direction reach side x, perhaps the last ones.
Deliver(x, i) ==
    /\ phase[x][i] = "open"
    /\ \E n \in (Len(got[x][i]) + 1)..wrote[Peer(x)][i] :
          got' = [got EXCEPT ![x][i] = [k \in 1..n |-> k]]
    /\ UNCHANGED phase \/ Over(x, {i})
    /\ UNCHANGED wrote

Next ==
    \/ \E x \in Sides, i \in Streams : Open(x, i) \/ Write(x, i) \/ Deliver(x, i)
    \/ \E x \in Sides, S \in SUBSET Streams : End(x, S)

Spec == Init /\ [][Next]_abstractVars
=============================================================================
