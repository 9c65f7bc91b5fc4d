---------------------------- MODULE MCAccounting ----------------------------
(***************************************************************************)
(* The two ways traffic is accounted for: of fixed servers and of devices. *)
(* They share no state, so a behaviour follows one of the two and no       *)
(* interleaving of interest is lost.                                       *)
(***************************************************************************)
EXTENDS ServerStatistics, DeviceTraffic

VARIABLE part

vars == <<statVars, trafficVars, part>>

Init == StatInit /\ TrafficInit /\ part \in {"servers", "devices"}

Next ==
    \/ part = "servers" /\ StatNext /\ UNCHANGED <<trafficVars, part>>
    \/ part = "devices" /\ TrafficNext /\ UNCHANGED <<statVars, part>>

Spec == Init /\ [][Next]_vars

\* Both parts have their types.
TypeOK == StatTypeOK /\ TrafficTypeOK
=============================================================================
