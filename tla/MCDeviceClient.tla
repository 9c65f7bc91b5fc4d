---------------------------- MODULE MCDeviceClient ----------------------------
(* DeviceClient with a server that creates a few sessions and changes its    *)
(* settings as it likes.                                                     *)
EXTENDS DeviceClient

=============================================================================
