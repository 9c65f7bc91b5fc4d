---------------------------- MODULE MCLeaseTables ----------------------------
(***************************************************************************)
(* DeviceLease with everything that can happen, disconnect requests and    *)
(* sections that stop half way included.  Two history variables: broken    *)
(* says whether a section has stopped half way yet, doubled which devices  *)
(* were given a session beside an old one.                                 *)
(***************************************************************************)
EXTENDS DeviceLease, TLC

CONSTANTS d1, d2, s1, s2, s3

VARIABLES broken, doubled

tableVars == <<vars, broken, doubled>>

Symmetry == Permutations(Devices) \cup Permutations(Sessions)

TablesInit == Init /\ broken = FALSE /\ doubled = {}

\* cleanup_device_sessions failed and the session was opened all the same.
OpensBeside(d) ==
    /\ Opens(d, FALSE)
    /\ doubled' = IF ActiveSessions(d) = {} THEN doubled ELSE doubled \cup {d}

\* It ended what the device had, also when the registration then failed.
OpensAlone(d) ==
    /\ Opens(d, TRUE) \/ RegisterRefused(d, TRUE)
    /\ doubled' = doubled \ {d}

Registering == \E d \in Devices : OpensBeside(d) \/ OpensAlone(d)

\* A disconnect ends all sessions of its device, however far it gets.
Disconnecting ==
    doubled' = IF ctl.op = "stop" THEN doubled \ {ctl.device} ELSE doubled

Unregistered ==
    /\ Serving \/ \E d \in Devices : RegisterRefused(d, FALSE)
    /\ UNCHANGED doubled

TablesNext ==
    \/ (Registering \/ Unregistered \/ (Disconnect /\ Disconnecting))
          /\ UNCHANGED broken
    \/ /\ \/ AbortBroken /\ UNCHANGED doubled
          \/ DisconnectBroken /\ Disconnecting
       /\ broken' = TRUE

TablesSpec == TablesInit /\ [][TablesNext]_tableVars

-----------------------------------------------------------------------------

\* A device has at most one active session, whatever requests were cut short
\* before, unless cleanup_device_sessions failed when it registered over an
\* old one.  That second session does not outlive the device's next
\* registration whose cleanup succeeds, nor a disconnect.
OneSessionPerDevice ==
    \A d \in Devices \ doubled : \A s, t \in ActiveSessions(d) : s = t

\* As long as no section has stopped half way, a device keeps its fixed port
\* and an ended session leaves nothing allocated behind, whatever the order of
\* disconnects, expiries and registrations (free_device_port_pair and its
\* callers).
OrderlyTables == ~broken => FixedPortKept /\ NoOrphanRow
=============================================================================
