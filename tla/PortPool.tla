------------------------------ MODULE PortPool ------------------------------
(***************************************************************************)
(* The port pool of the device control server: the rows of the table       *)
(* port_allocations and the SQL functions of init_device_db.sql and        *)
(* sql/migrations that change them.  Every operator maps the table before  *)
(* the call to the table after it; the callers are in DeviceLease.         *)
(*                                                                         *)
(* A pair is an even input port p with its tunnel port p + 1.  rows maps   *)
(* each port to its row, pref maps each device to devices.preferred_port   *)
(* (NoPort when it is NULL).                                               *)
(***************************************************************************)
EXTENDS Naturals

CONSTANTS Devices,    \* the rows of the table devices
          Sessions,   \* session tokens: each registration takes a fresh one
          Pairs,      \* the even input ports of the pool
          NoDevice,   \* NULL in a column that holds a device
          NoSession   \* NULL in a column that holds a session

ASSUME PairsAssumption == Pairs \subseteq {p \in 6000..6998 : p % 2 = 0}

ASSUME NullAssumption == NoDevice \notin Devices /\ NoSession \notin Sessions

NoPort == 0

Ports == Pairs \cup {p + 1 : p \in Pairs}

PairOf(x) == IF x \in Pairs THEN x ELSE x - 1

PortsOf(p) == {p, p + 1}

Row == [status  : {"free", "reserved", "allocated"},
        device  : Devices \cup {NoDevice},
        session : Sessions \cup {NoSession}]

FreeRow == [status |-> "free", device |-> NoDevice, session |-> NoSession]

ReservedRow(d) == [status |-> "reserved", device |-> d, session |-> NoSession]

AllocatedRow(d, s) == [status |-> "allocated", device |-> d, session |-> s]

-----------------------------------------------------------------------------

\* free_device_port(p_port): whoever owns the row, it becomes free.
free_device_port(rows, x) ==
    IF rows[x].status \in {"allocated", "reserved"}
    THEN [rows EXCEPT ![x] = FreeRow]
    ELSE rows

\* release_device_port_reservation(p_device_id, p_input_port): X is the set
\* of ports the call is limited to, all of them when p_input_port is NULL.
release_device_port_reservation(rows, d, X) ==
    [x \in Ports |->
        IF x \in X /\ rows[x].device = d /\ rows[x].status = "reserved"
        THEN FreeRow
        ELSE rows[x]]

\* Another device has p as its fixed port.
PreferredByOther(pref, d, p) == \E e \in Devices \ {d} : pref[e] = p

Reservable(rows, d, p) ==
    \A x \in PortsOf(p) : /\ rows[x].status \in {"free", "reserved"}
                          /\ rows[x].device \in {NoDevice, d}

\* reserve_device_port_pair(p_device_id, p_input_port): the device's other
\* reservations are released first, whether or not the pair can be reserved.
reserve_device_port_pair(rows, pref, d, p) ==
    LET released == release_device_port_reservation(rows, d, Ports)
    IN  IF PreferredByOther(pref, d, p)
        THEN rows
        ELSE [x \in Ports |->
                 IF x \in PortsOf(p) /\ Reservable(released, d, p)
                 THEN ReservedRow(d)
                 ELSE released[x]]

\* free_device_port_pair(p_input_port): both ports are freed, and a pair that
\* is some device's fixed port goes back to that device as a reservation.
free_device_port_pair(rows, pref, p) ==
    LET freed == free_device_port(free_device_port(rows, p), p + 1)
    IN  IF \E d \in Devices : pref[d] = p
        THEN reserve_device_port_pair(freed, pref,
                 CHOOSE d \in Devices : pref[d] = p, p)
        ELSE freed

\* Mutant: fixed ports are freed like any other.
FreeFixedToo(rows, pref, Q) ==
    [x \in Ports |-> IF PairOf(x) \in Q THEN FreeRow ELSE rows[x]]

\* What the loops over free_device_port_pair leave when they have freed every
\* pair of Q, in closed form (DeviceLeaseProofs shows that the loops compute it).
FreePairs(rows, pref, Q) ==
    [x \in Ports |->
        IF PairOf(x) \in Q
        THEN IF \E d \in Devices : pref[d] = PairOf(x)
             THEN ReservedRow(CHOOSE d \in Devices : pref[d] = PairOf(x))
             ELSE FreeRow
        ELSE IF rows[x].status = "reserved" /\ rows[x].device \in Devices
                    /\ pref[rows[x].device] \in Q
             THEN FreeRow
             ELSE rows[x]]

\* Mutant: the query excludes reserved pairs only.
UnreservedPairs(rows, pref, d) ==
    {p \in Pairs :
        IF pref[d] = NoPort
        THEN \A x \in PortsOf(p) : rows[x].status # "reserved"
        ELSE p = pref[d]}

\* The pairs the registration query may choose for device d: its fixed pair
\* if it has one (free, or reserved for d), any free pair otherwise.
CandidatePairs(rows, pref, d) ==
    {p \in Pairs :
        IF pref[d] = NoPort
        THEN \A x \in PortsOf(p) : rows[x] = FreeRow
        ELSE p = pref[d] /\ Reservable(rows, d, p)}

\* ORDER BY port LIMIT 1.
IsLowest(p, S) == p \in S /\ \A q \in S : p <= q

\* Mutant: the tunnel port keeps its row.
AllocateInputOnly(rows, p, d, s) == [rows EXCEPT ![p] = AllocatedRow(d, s)]

\* Both rows of pair p are given to session s of device d.
AllocatePair(rows, p, d, s) ==
    [x \in Ports |-> IF x \in PortsOf(p) THEN AllocatedRow(d, s) ELSE rows[x]]

\* No two devices have the same fixed port: idx_devices_preferred_port.
Preferences ==
    {f \in [Devices -> Pairs \cup {NoPort}] :
        \A d, e \in Devices : d # e /\ f[d] # NoPort => f[d] # f[e]}

\* The pool of an installation in which only the fixed ports are reserved.
InitialRows(pref) ==
    [x \in Ports |->
        IF \E d \in Devices : pref[d] = PairOf(x)
        THEN ReservedRow(CHOOSE d \in Devices : pref[d] = PairOf(x))
        ELSE FreeRow]
=============================================================================
