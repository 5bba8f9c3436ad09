------------------------------ MODULE MCServer ------------------------------
(* A process with its lifecycle, one search of its engines and the lookups *)
(* of favicons.  They share no state, so a behaviour is of one of them,    *)
(* part, and the others stay as they began.                                *)
EXTENDS EngineExecution, ServerLifecycle, MCFaviconService

CONSTANTS e1, e2, e3

\* Timeouts below, at and above the timeout of the request.
ThreeTimeouts ==
  [e \in Engines |-> CASE e = e1 -> 1 [] e = e2 -> 3 [] OTHER -> 5]

VARIABLE part

partVars == <<executionVars, vars, lookupVars, part>>

PartInit ==
  /\ ExecutionInit /\ Init /\ LookupInit
  /\ \/ part = "search" /\ up
     \/ part = "lifecycle"
     \/ part = "favicons" /\ up

OfSearch(act) == part = "search" /\ act /\ UNCHANGED <<vars, lookupVars, part>>
OfLifecycle(act) == part = "lifecycle" /\ act /\ UNCHANGED <<executionVars, lookupVars, part>>
OfFavicons(act) == part = "favicons" /\ act /\ UNCHANGED <<executionVars, vars, part>>

PartNext == OfSearch(ExecutionNext) \/ OfLifecycle(Next) \/ OfFavicons(LookupNext)

\* The fairness of FairSpec, Spec and FairLookupSpec.
PartSpec ==
  /\ PartInit /\ [][PartNext]_partVars
  /\ \A e \in Engines :
       /\ WF_partVars(OfSearch(TooLate(e) \/ RunOne(e)))
       /\ WF_partVars(OfSearch(TimeOut(e)))
  /\ WF_partVars(OfSearch(JoinStep)) /\ WF_partVars(OfSearch(Tick))
  /\ WF_partVars(OfLifecycle(Main)) /\ WF_partVars(OfLifecycle(Monitor))
  /\ WF_partVars(OfLifecycle(TimePasses))
  /\ \A c \in Lookups :
       WF_partVars(OfFavicons(CallStep(c))) /\ SF_partVars(OfFavicons(Lock(c)))
=============================================================================
