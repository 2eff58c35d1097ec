----------------------------- MODULE RecipeOutput -----------------------------
(***************************************************************************)
(* What a recipe says while it runs: its two channels and the forwarder    *)
(* (RecipeForwarder), and the server that the Unity recipes start and      *)
(* whose lines they log (RipperExport).  No step of one part reads or      *)
(* writes what the other has, so each behaviour exercises one part, which  *)
(* its first state chooses.                                                *)
(***************************************************************************)
EXTENDS RipperExport, RecipeForwarder

VARIABLE part

outputVars == <<part, ripperVars, vars>>

OutputInit == part \in {"channels", "server"} /\ RInit /\ Init

OutputNext ==
  \/ part = "channels" /\ Next /\ UNCHANGED <<part, ripperVars>>
  \/ part = "server" /\ RNext /\ UNCHANGED <<part, vars>>

OutputSpec ==
  /\ OutputInit /\ [][OutputNext]_outputVars
  /\ part = "channels" => Fairness
  /\ part = "server" => RFairness
=============================================================================
