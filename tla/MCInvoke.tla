------------------------------ MODULE MCInvoke ------------------------------
(* Instances of Invoke for TLC.                                             *)
EXTENDS Invoke

CONSTANT NoLimit
SomeLimits == {0, 1, 3, NoLimit}
=============================================================================
