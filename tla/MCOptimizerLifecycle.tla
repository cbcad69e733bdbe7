------------------------ MODULE MCOptimizerLifecycle ------------------------
(***************************************************************************)
(* Instances of OptimizerLifecycle for TLC.                                *)
(***************************************************************************)
EXTENDS OptimizerLifecycle

HttpPort == [number |-> 1, protocol |-> "http"]
TcpPort(n) == [number |-> n, protocol |-> "tcp"]

OnePort == <<TcpPort(1)>>
TwoPorts == <<TcpPort(1), TcpPort(2)>>
ListOne == <<HttpPort>>
=============================================================================
