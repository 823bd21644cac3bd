--------------------------- MODULE MCProjectFiles ---------------------------
(* Instances of ProjectFiles for TLC.                                       *)
EXTENDS ProjectFiles

CONSTANTS a, b, m

SomeSchemas ==
  {[kind |-> "RESOURCE", permissions |-> "own"], [kind |-> "HOOK", permissions |-> "none"],
   [kind |-> "RESOURCE", permissions |-> "invalid"]}
=============================================================================
