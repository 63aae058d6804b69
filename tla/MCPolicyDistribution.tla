------------------------ MODULE MCPolicyDistribution ------------------------
(* Instances of PolicyDistribution for TLC; the constants are in the .cfg    *)
(* files.                                                                    *)
EXTENDS PolicyDistribution
=============================================================================
