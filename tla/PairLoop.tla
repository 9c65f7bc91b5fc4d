------------------------------ MODULE PairLoop ------------------------------
(***************************************************************************)
(* The loops of cleanup_device_sessions, cleanup_expired_sessions and      *)
(* terminate_device_by_device_id call free_device_port_pair once per       *)
(* session, in whatever order the query returns them.  DeviceLease uses    *)
(* their result in closed form, FreePairs; here the loop runs on every     *)
(* table the constraint valid_allocation admits.                           *)
(***************************************************************************)
EXTENDS PortPool

VARIABLES before, prefs, pairs, todo, table

loopVars == <<before, prefs, pairs, todo, table>>

ValidRow ==
    {FreeRow} \cup {ReservedRow(d) : d \in Devices}
      \cup {AllocatedRow(d, s) : d \in Devices, s \in Sessions}

LoopInit ==
    /\ before \in [Ports -> ValidRow]
    /\ prefs \in Preferences
    /\ pairs \in SUBSET Pairs
    /\ todo = pairs
    /\ table = before

FreeOne(p) ==
    /\ p \in todo
    /\ todo' = todo \ {p}
    /\ table' = free_device_port_pair(table, prefs, p)
    /\ UNCHANGED <<before, prefs, pairs>>

LoopNext == \E p \in Pairs : FreeOne(p)

LoopSpec == LoopInit /\ [][LoopNext]_loopVars

\* Whatever the order, freeing pairs one by one gives the closed form, so the
\* reservations free_device_port_pair restores for one device are never
\* released again by the same loop on behalf of another.
LoopMatchesClosedForm == todo = {} => table = FreePairs(before, prefs, pairs)
=============================================================================
