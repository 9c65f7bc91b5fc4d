---------------------------- MODULE MCDeviceLease ----------------------------
(* DeviceLease with a few devices, session tokens and port pairs. *)
EXTENDS DeviceLease, TLC

CONSTANTS d1, d2, d3, s1, s2, s3

Symmetry == Permutations(Devices) \cup Permutations(Sessions)

=============================================================================
