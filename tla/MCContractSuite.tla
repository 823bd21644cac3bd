-------------------------- MODULE MCContractSuite --------------------------
(* Instances of ContractSuite for TLC.                                      *)
EXTENDS ContractSuite

AllDefects == Defect
=============================================================================
