--------------------------- MODULE MCAutomationQueue ---------------------------
(* AutomationQueue with symmetric agents. *)
EXTENDS AutomationQueue, TLC

Symmetry == Permutations(Agents)
=============================================================================
