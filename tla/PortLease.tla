------------------------------ MODULE PortLease ------------------------------
(***************************************************************************)
(* What the device manager promises about the pool, without tables,        *)
(* statements or threads: each pair is leased to at most one session, a    *)
(* pair goes from one device to another only by way of nobody, and a token *)
(* is leased a pair once.                                                  *)
(***************************************************************************)
CONSTANTS Devices, Sessions, Pairs, NoDevice, NoSession

VARIABLES lease,  \* the session and device each pair is leased to
          ended   \* sessions whose lease is over

leaseVars == <<lease, ended>>

NoLease == [device |-> NoDevice, session |-> NoSession]

Holders == {lease[p].session : p \in Pairs} \ {NoSession}

LeaseInit ==
    /\ lease = [p \in Pairs |-> NoLease]
    /\ ended = {}

\* The leases on the pairs of Q are over.
Release(Q) ==
    /\ lease' = [p \in Pairs |-> IF p \in Q THEN NoLease ELSE lease[p]]
    /\ ended' = ended \cup ({lease[p].session : p \in Q} \ {NoSession})

LeasesOf(d) == {q \in Pairs : lease[q].device = d}

\* Device d is leased p for the new session s.  Its leases on the pairs of Q
\* are over: all it had, or none when its old sessions could not be ended,
\* and then p was nobody's.
Grant(d, s, p, Q) ==
    /\ Q \in {LeasesOf(d), {}}
    /\ lease[p] = NoLease \/ p \in Q
    /\ s \notin Holders \cup ended
    /\ lease' = [q \in Pairs |->
                    IF q = p THEN [device |-> d, session |-> s]
                    ELSE IF q \in Q THEN NoLease ELSE lease[q]]
    /\ ended' = ended \cup ({lease[q].session : q \in Q} \ {NoSession})

LeaseNext ==
    \/ \E Q \in SUBSET Pairs : Release(Q)
    \/ \E d \in Devices, s \in Sessions, p \in Pairs :
          \E Q \in SUBSET Pairs : Grant(d, s, p, Q)

LeaseSpec == LeaseInit /\ [][LeaseNext]_leaseVars
=============================================================================
