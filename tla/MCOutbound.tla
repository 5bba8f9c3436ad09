----------------------------- MODULE MCOutbound -----------------------------
(* The outbound side: two requests that compete for the permits of one     *)
(* origin, and three calls for the same thing that share a load.  They     *)
(* share no state, so a behaviour is of one of them, part, and the other   *)
(* stays as it began.                                                      *)
EXTENDS MCNetworkManager, OutboundLoads

CONSTANTS c1, c2, c3, k1

OneKey == [c \in {c1, c2, c3} |-> k1]

VARIABLE part

partVars == <<vars, loadsVars, part>>

PartInit ==
  /\ Init /\ LoadsInit
  /\ \/ part = "permits" /\ service = "responses"
     \/ part = "loads"

OfPermits(act) == part = "permits" /\ act /\ UNCHANGED <<loadsVars, part>>
OfLoads(act) == part = "loads" /\ act /\ UNCHANGED <<vars, part>>

PartNext == OfPermits(Next) \/ OfLoads(LoadsNext)

\* The fairness of FairSpec and LoadsSpec.
PartSpec ==
  /\ PartInit /\ [][PartNext]_partVars
  /\ \A r \in Requests : WF_partVars(OfPermits(RequestStep(r)))
  /\ WF_partVars(OfPermits(Maintain)) /\ WF_partVars(OfPermits(Tick))
  /\ \A c \in Callers : WF_partVars(OfLoads(Step(c)))
=============================================================================
