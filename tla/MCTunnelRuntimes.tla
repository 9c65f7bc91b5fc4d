-------------------------- MODULE MCTunnelRuntimes --------------------------
(* Small instances of TunnelRuntimes: two devices and two pairs. *)
EXTENDS TunnelRuntimes

\* Every device has a fixed port of its own.
OwnPorts == [d \in Devices |-> d]
=============================================================================
