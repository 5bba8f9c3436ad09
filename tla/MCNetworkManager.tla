-------------------------- MODULE MCNetworkManager --------------------------
(* Instances of NetworkManager for TLC: the requests compete for the       *)
(* permits of one origin.                                                  *)
EXTENDS NetworkManager

CONSTANTS r1, r2, r3, r4, o1

TwoRequests == {r1, r2}
FourRequests == {r1, r2, r3, r4}
OneOrigin == {o1}

SameOrigin == [r \in Requests |-> o1]
============================================================================
