----------------------------- MODULE MCDesktop -----------------------------
(* The scenarios: editors alone; an agent that is configured anew; one     *)
(* that is configured and loses a platform; an operation that rewrites the *)
(* configuration of an agent, or of an editor; two installers at once;     *)
(* processes alone.                                                        *)
EXTENDS Desktop, TLC

CONSTANTS k1, k2

Scenario(keys, e, s, l, o) ==
  [keys |-> keys, edits |-> e, starts |-> s, losses |-> l, operations |-> o]

MCScenarios ==
  {Scenario(<<k1, k2>>, 3, 0, 0, 0), Scenario(<<>>, 2, 1, 0, 0),
   Scenario(<<>>, 1, 1, 1, 0), Scenario(<<>>, 0, 1, 0, 1),
   Scenario(<<k1, k2>>, 1, 0, 0, 1), Scenario(<<>>, 0, 0, 0, 2),
   Scenario(<<>>, 0, 3, 1, 0)}

\* An agent whose platform is lost once, and nothing else.
MCScenariosDeath == {Scenario(<<>>, 0, 1, 1, 0)}

Symmetry == Permutations(Slots) \cup Permutations(Kinds)
=============================================================================
