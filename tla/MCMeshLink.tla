----------------------------- MODULE MCMeshLink -----------------------------
(***************************************************************************)
(* Two pairs of daemons in one run: one with three links that never fails, *)
(* and one (Frail) with a link each way and a failure.  They share no      *)
(* state: a behaviour is one of one pair, and the other keeps its initial  *)
(* state.                                                                  *)
(***************************************************************************)
EXTENDS MeshLink

CONSTANTS FrailLinks, FrailExtends, FrailThreshold, FrailFaults, FrailBorrows

VARIABLES
  pair,
  frailEnd, frailWire, frailCut, frailConns, frailBusy, frailClosing, frailAccept, frailExt, frailHold,
  frailStreak, frailCool, frailFaults, frailBorrows

Frail == INSTANCE MeshLink WITH
  Links <- FrailLinks, MaxExtends <- FrailExtends, CooldownThreshold <- FrailThreshold,
  MaxFaults <- FrailFaults, MaxBorrows <- FrailBorrows,
  end <- frailEnd, wire <- frailWire, cut <- frailCut, conns <- frailConns, busy <- frailBusy,
  closing <- frailClosing, accept <- frailAccept, ext <- frailExt, hold <- frailHold,
  streak <- frailStreak, cool <- frailCool, faults <- frailFaults, borrows <- frailBorrows

frailVars == <<frailEnd, frailWire, frailCut, frailConns, frailBusy, frailClosing, frailAccept, frailExt, frailHold,
               frailStreak, frailCool, frailFaults, frailBorrows>>

TwoNodes == {1, 2}
TwoLinks == {<<1, 1>>, <<2, 1>>}
ThreeLinks == {<<1, 1>>, <<1, 2>>, <<2, 1>>}

-----------------------------------------------------------------------------
PairsInit == pair \in {"sound", "frail"} /\ Init /\ Frail!Init

PairsNext ==
  /\ UNCHANGED pair
  /\ (pair = "sound" /\ Next) \/ (pair # "sound" /\ UNCHANGED vars)
  /\ (pair = "frail" /\ Frail!Next) \/ (pair # "frail" /\ UNCHANGED frailVars)

\* The fairness of MeshLink for the pair that may fail.
PairsSpec ==
  /\ PairsInit /\ [][PairsNext]_<<pair, vars, frailVars>>
  /\ \A n \in Nodes :
       /\ WF_frailVars(pair = "frail" /\ Frail!DialStep(n))
       /\ WF_frailVars(pair = "frail" /\ Frail!AcceptWindowEnds(n))
       /\ WF_frailVars(pair = "frail" /\ Frail!HoldEnds(n))
       /\ WF_frailVars(pair = "frail" /\ Frail!CooldownEnds(n))
       /\ WF_frailVars(pair = "frail" /\ Frail!Broadcast(n))
       /\ WF_frailVars(pair = "frail" /\ Frail!CleanDeadConns(n))
  /\ \A n \in Nodes, l \in FrailLinks :
       /\ WF_frailVars(pair = "frail" /\ Frail!HandshakeStep(n, l))
       /\ WF_frailVars(pair = "frail" /\ Frail!LinkStep(n, l))
       /\ WF_frailVars(pair = "frail" /\ Frail!Release(n, l))

-----------------------------------------------------------------------------
\* The pair that may fail ends with one link: see MeshLink.
Reconverges == pair = "frail" => Frail!Converges
=============================================================================
