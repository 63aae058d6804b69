-------------------------- MODULE MCConnectorAuthz --------------------------
(* Instances of ConnectorAuthz for TLC; the constants are in the .cfg files. *)
EXTENDS ConnectorAuthz
=============================================================================
