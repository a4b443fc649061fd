------------------------------- MODULE MCGateway -------------------------------
(* Gateway on small instances: the configurations name the connections.    *)
EXTENDS Gateway
=============================================================================
