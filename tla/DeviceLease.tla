----------------------------- MODULE DeviceLease -----------------------------
(***************************************************************************)
(* The device manager of the C server and the tables it keeps: devices,    *)
(* device_sessions and port_allocations.                                   *)
(*                                                                         *)
(* Two threads of the server change the tables: the control thread         *)
(* (control_server_thread), which handles register, heartbeat and          *)
(* disconnect requests one at a time, and the cleanup thread               *)
(* (cleanup_expired_sessions_thread).  A section between db_lock and       *)
(* db_unlock is one step; the control thread releases the lock while it    *)
(* starts or stops a tunnel, and ctl says what it is in the middle of.     *)
(*                                                                         *)
(* Time appears only as the field lapsed: the session's expires_at has     *)
(* passed.                                                                 *)
(***************************************************************************)
EXTENDS PortPool

VARIABLES
    devStatus,  \* devices.status
    devPort,    \* devices.assigned_port
    pref,       \* devices.preferred_port
    sess,       \* device_sessions
    rows,       \* port_allocations
    ctl         \* what the control thread is doing

vars == <<devStatus, devPort, pref, sess, rows, ctl>>

DeviceStatus == {"inactive", "connecting", "active", "restarting"}

Session == [status : {"unused", "active", "expired", "terminated"},
            device : Devices \cup {NoDevice},
            port   : Pairs \cup {NoPort},
            lapsed : BOOLEAN]

Unused == [status |-> "unused", device |-> NoDevice, port |-> NoPort,
           lapsed |-> FALSE]

Control == [op : {"idle"}]
             \cup [op : {"start", "abort"}, session : Sessions]
             \cup [op : {"auth", "stop"}, device : Devices]

Idle == [op |-> "idle"]

TypeOK ==
    /\ devStatus \in [Devices -> DeviceStatus]
    /\ devPort \in [Devices -> Pairs \cup {NoPort}]
    /\ pref \in [Devices -> Pairs \cup {NoPort}]
    /\ sess \in [Sessions -> Session]
    /\ rows \in [Ports -> Row]
    /\ ctl \in Control

Init ==
    /\ devStatus \in [Devices -> {"inactive", "connecting"}]
    /\ devPort = [d \in Devices |-> NoPort]
    /\ pref \in Preferences
    /\ sess = [s \in Sessions |-> Unused]
    /\ rows = InitialRows(pref)
    /\ ctl = Idle

-----------------------------------------------------------------------------

ActiveSessions(d) ==
    {s \in Sessions : sess[s].status = "active" /\ sess[s].device = d}

\* A session the queries take for live: active, expires_at in the future.
Live(s) == sess[s].status = "active" /\ ~sess[s].lapsed

HasLiveSession(d) == \E s \in ActiveSessions(d) : Live(s)

PortsHeld(S) == {sess[s].port : s \in S}

\* The sessions of S end with the given status; expires_at becomes NOW().
EndSessions(S, status) ==
    [s \in Sessions |->
        IF s \in S
        THEN [sess[s] EXCEPT !.status = status, !.lapsed = TRUE]
        ELSE sess[s]]

\* The sessions cleanup_device_sessions(d) ends.  The statement may fail;
\* register_device_session goes on all the same, and none has ended.
CleanedSessions(d, cleaned) == IF cleaned THEN ActiveSessions(d) ELSE {}

\* Mutant: cleanup frees the pairs of the device's past sessions too.
CleanedEver(d, cleaned) ==
    FreePairs(rows, pref,
        PortsHeld({s \in Sessions : cleaned /\ sess[s].device = d}))

\* What the statement leaves in port_allocations.
CleanedRows(d, cleaned) ==
    FreePairs(rows, pref, PortsHeld(CleanedSessions(d, cleaned)))

NewSession(d, p) ==
    [status |-> "active", device |-> d, port |-> p, lapsed |-> FALSE]

\* device_authenticate and the registration query accept these devices.
MayRegister(d) == devStatus[d] \in {"active", "connecting"}

\* process_registration_request: the credentials are checked in a locked
\* section of their own.  A device that may not register is turned away.
Authenticate(d) ==
    /\ ctl = Idle
    /\ MayRegister(d)
    /\ ctl' = [op |-> "auth", device |-> d]
    /\ UNCHANGED <<devStatus, devPort, pref, sess, rows>>

Authenticated(d) == ctl = [op |-> "auth", device |-> d]

\* Mutant: the pairs of the old sessions are freed, the sessions not ended.
OpenWithoutExpiry(d, s, p, cleaned) ==
    /\ Authenticated(d)
    /\ MayRegister(d)
    /\ sess[s].status = "unused"
    /\ IsLowest(p, CandidatePairs(CleanedRows(d, cleaned), pref, d))
    /\ rows' = AllocatePair(CleanedRows(d, cleaned), p, d, s)
    /\ sess' = [sess EXCEPT ![s] = NewSession(d, p)]

\* The statements of register_device_session up to the new session: unless
\* the cleanup fails, the device's old sessions are expired and their pairs
\* freed; the lowest candidate pair goes to a new session s.
OpenSession(d, s, p, cleaned) ==
    /\ Authenticated(d)
    /\ MayRegister(d)
    /\ sess[s].status = "unused"
    /\ IsLowest(p, CandidatePairs(CleanedRows(d, cleaned), pref, d))
    /\ rows' = AllocatePair(CleanedRows(d, cleaned), p, d, s)
    /\ sess' = [EndSessions(CleanedSessions(d, cleaned), "expired")
                    EXCEPT ![s] = NewSession(d, p)]

\* register_device_session succeeds; the control thread goes on to
\* ensure_dynamic_server_for_device.
Register(d, s, p, cleaned) ==
    /\ OpenSession(d, s, p, cleaned)
    /\ devStatus' = [devStatus EXCEPT ![d] = "active"]
    /\ devPort' = [devPort EXCEPT ![d] = p]
    /\ ctl' = [op |-> "start", session |-> s]
    /\ UNCHANGED pref

\* The last UPDATE of register_device_session fails: the device is told that
\* no session was created, but the session and its pair are in the tables.
RegisterBroken(d, s, p, cleaned) ==
    /\ OpenSession(d, s, p, cleaned)
    /\ devPort' = IF cleaned THEN [devPort EXCEPT ![d] = NoPort] ELSE devPort
    /\ ctl' = Idle
    /\ UNCHANGED <<devStatus, pref>>

\* No candidate pair, the device was made inactive since Authenticate, or
\* the query fails: the old sessions are gone all the same, if the cleanup
\* did not fail as well.
RegisterRefused(d, cleaned) ==
    /\ Authenticated(d)
    /\ rows' = CleanedRows(d, cleaned)
    /\ sess' = EndSessions(CleanedSessions(d, cleaned), "expired")
    /\ devPort' = IF cleaned THEN [devPort EXCEPT ![d] = NoPort] ELSE devPort
    /\ ctl' = Idle
    /\ UNCHANGED <<devStatus, pref>>

\* ensure_dynamic_server_for_device succeeds and the request is answered.
TunnelStarted ==
    /\ ctl.op = "start"
    /\ ctl' = Idle
    /\ UNCHANGED <<devStatus, devPort, pref, sess, rows>>

\* It fails: terminate_device_session looks the session up and, if it is
\* still active, stops the tunnel before it ends the session.
TunnelFailed ==
    /\ ctl.op = "start"
    /\ ctl' = IF sess[ctl.session].status = "active"
              THEN [op |-> "abort", session |-> ctl.session]
              ELSE Idle
    /\ UNCHANGED <<devStatus, devPort, pref, sess, rows>>

\* The locked section of terminate_device_session.  The pair is freed even
\* if the session was ended meanwhile.  freed is FALSE when the server or
\* the connection dies between the two statements.
AbortSession(freed) ==
    /\ ctl.op = "abort"
    /\ sess' = EndSessions({ctl.session} \cap
                   {s \in Sessions : sess[s].status = "active"}, "terminated")
    /\ rows' = IF freed THEN FreePairs(rows, pref, {sess[ctl.session].port})
                        ELSE rows
    /\ ctl' = Idle
    /\ UNCHANGED <<devStatus, devPort, pref>>

\* Mutant: any token that was ever issued is renewed.
HeartbeatAnyToken(s, devUpdated) ==
    /\ ctl = Idle
    /\ sess[s].status # "unused"
    /\ sess' = [sess EXCEPT ![s].lapsed = FALSE]
    /\ devStatus' = IF devUpdated
                    THEN [devStatus EXCEPT ![sess[s].device] = "active"]
                    ELSE devStatus
    /\ UNCHANGED <<devPort, pref, rows, ctl>>

\* process_heartbeat_request for the token s; devUpdated is FALSE when the
\* UPDATE of devices fails, which is only logged.  A token that is not
\* active is answered with force_disconnect and changes nothing.
Heartbeat(s, devUpdated) ==
    /\ ctl = Idle
    /\ sess[s].status = "active"
    /\ sess' = [sess EXCEPT ![s].lapsed = FALSE]
    /\ devStatus' = IF devUpdated
                    THEN [devStatus EXCEPT ![sess[s].device] = "active"]
                    ELSE devStatus
    /\ UNCHANGED <<devPort, pref, rows, ctl>>

\* terminate_device_by_device_id collects the active sessions, gives up the
\* lock and stops their tunnels.
DisconnectBegin(d) ==
    /\ ctl = Idle
    /\ ctl' = [op |-> "stop", device |-> d]
    /\ UNCHANGED <<devStatus, devPort, pref, sess, rows>>

\* Its second locked section, three statements: end the sessions, free the
\* pairs of the device's sessions - the query does not ask whether they are
\* active -, deactivate the device.  The second may fail unnoticed, and the
\* server or the connection may die after the first or the second.
DisconnectCommit(freed, deactivated) ==
    /\ ctl.op = "stop"
    /\ LET d == ctl.device
       IN  /\ sess' = EndSessions(ActiveSessions(d), "terminated")
           /\ rows' = IF freed
                      THEN FreePairs(rows, pref,
                               PortsHeld({s \in Sessions : sess[s].device = d}))
                      ELSE rows
           /\ devStatus' = IF deactivated
                           THEN [devStatus EXCEPT ![d] = "inactive"]
                           ELSE devStatus
           /\ devPort' = IF deactivated
                         THEN [devPort EXCEPT ![d] = NoPort]
                         ELSE devPort
    /\ ctl' = Idle
    /\ UNCHANGED pref

\* Mutant: only the pairs of lapsed sessions are freed.
CleanupLapsedOnly ==
    LET lapsed == {s \in Sessions : sess[s].status = "active" /\ sess[s].lapsed}
    IN  /\ sess' = EndSessions(lapsed, "expired")
        /\ rows' = FreePairs(rows, pref, PortsHeld(lapsed))
        /\ UNCHANGED <<devStatus, devPort, pref, ctl>>

\* cleanup_expired_sessions, one transaction of the cleanup thread: sessions
\* that lapsed are expired and their pairs freed, allocated rows no live
\* session covers are freed, active devices without a live session become
\* inactive.
CleanupExpired ==
    LET lapsed == {s \in Sessions : sess[s].status = "active" /\ sess[s].lapsed}
        freed  == FreePairs(rows, pref, PortsHeld(lapsed))
        demoted == {d \in Devices : devStatus[d] = "active" /\ ~HasLiveSession(d)}
        covered(x) == \E s \in Sessions : Live(s) /\ sess[s].port = PairOf(x)
    IN  /\ sess' = EndSessions(lapsed, "expired")
        /\ rows' = [x \in Ports |->
                       IF freed[x].status = "allocated" /\ ~covered(x)
                       THEN FreeRow ELSE freed[x]]
        /\ devStatus' = [d \in Devices |->
                            IF d \in demoted THEN "inactive" ELSE devStatus[d]]
        /\ devPort' = [d \in Devices |->
                          IF d \in demoted THEN NoPort ELSE devPort[d]]
        /\ UNCHANGED <<pref, ctl>>

\* No heartbeat for session_timeout seconds.
Lapse(s) ==
    /\ Live(s)
    /\ sess' = [sess EXCEPT ![s].lapsed = TRUE]
    /\ UNCHANGED <<devStatus, devPort, pref, rows, ctl>>

\* The server dies between two locked sections; the tables stay.
Crash ==
    /\ ctl # Idle
    /\ ctl' = Idle
    /\ UNCHANGED <<devStatus, devPort, pref, sess, rows>>

\* POST /devices/{id}/connect of the web service: the operator lets the
\* device register.  A device with a live session and a recent heartbeat is
\* only confirmed active; the session may have ended since it was read.
Connect(d, recent) ==
    /\ recent => \E s \in Sessions : sess[s].device = d
    /\ devStatus' = [devStatus EXCEPT ![d] =
                         IF recent THEN "active" ELSE "connecting"]
    /\ UNCHANGED <<devPort, pref, sess, rows, ctl>>

-----------------------------------------------------------------------------

\* A registration of d that leaves a new session in the tables.
Opens(d, cleaned) ==
    \E s \in Sessions, p \in Pairs :
        Register(d, s, p, cleaned) \/ RegisterBroken(d, s, p, cleaned)

Serving ==
    \/ \E d \in Devices : Authenticate(d)
    \/ TunnelStarted
    \/ TunnelFailed
    \/ AbortSession(TRUE)
    \/ \E s \in Sessions, u \in BOOLEAN : Heartbeat(s, u)
    \/ CleanupExpired
    \/ \E s \in Sessions : Lapse(s)
    \/ Crash
    \/ \E d \in Devices, r \in BOOLEAN : Connect(d, r)

\* Everything but disconnect requests and half-done sections.
Sound ==
    \/ \E d \in Devices, c \in BOOLEAN : Opens(d, c) \/ RegisterRefused(d, c)
    \/ Serving

Disconnect ==
    \/ \E d \in Devices : DisconnectBegin(d)
    \/ DisconnectCommit(TRUE, TRUE)

\* Sections that stop half way.
AbortBroken == AbortSession(FALSE)

DisconnectBroken ==
    \E freed, deactivated \in BOOLEAN :
        ~(freed /\ deactivated) /\ DisconnectCommit(freed, deactivated)

LeaseNext == Sound \/ AbortBroken

OrderlyNext == Sound \/ Disconnect

Next == Sound \/ Disconnect \/ AbortBroken \/ DisconnectBroken

LeaseSpec == Init /\ [][LeaseNext]_vars

OrderlySpec == Init /\ [][OrderlyNext]_vars

Spec == Init /\ [][Next]_vars

-----------------------------------------------------------------------------

\* No two active sessions hold the same port pair, so no published port leads
\* to two devices (register_device_session against every path that frees a
\* pair).
ExclusivePorts ==
    \A s, t \in Sessions :
        /\ sess[s].status = "active"
        /\ sess[t].status = "active"
        /\ s # t
        => sess[s].port # sess[t].port

\* The pair of an active session is allocated to it, both rows: nothing frees
\* or hands out a pair under a session that still uses it.
LeaseBacked ==
    \A s \in Sessions :
        sess[s].status = "active" =>
            \A x \in PortsOf(sess[s].port) :
                rows[x] = AllocatedRow(sess[s].device, s)

\* The input port and the tunnel port of a pair always have the same owner
\* and status: no path frees or takes one of the two only.
PairRowsAgree == \A p \in Pairs : rows[p] = rows[p + 1]

\* A fixed port is never free and never another device's, from disconnects,
\* expiries and re-registrations alike (free_device_port_pair puts the
\* reservation back).
FixedPortKept ==
    \A d \in Devices :
        pref[d] # NoPort =>
            \A x \in PortsOf(pref[d]) : rows[x].device = d

\* An allocated row belongs to a session that is still active: an ended
\* session leaves nothing allocated behind.
NoOrphanRow ==
    \A x \in Ports :
        rows[x].status = "allocated" =>
            /\ sess[rows[x].session].status = "active"
            /\ sess[rows[x].session].port = PairOf(x)

\* A session that ended never comes back: a late heartbeat with an old token
\* (update_device_heartbeat) does not revive it, and its token is not reused.
EndedStaysEnded ==
    [][\A s \in Sessions :
          sess[s].status \in {"expired", "terminated"} => sess'[s] = sess[s]]_vars

\* A row still allocated to a session that is over.
Orphan(x) ==
    /\ rows[x].status = "allocated"
    /\ sess[rows[x].session].status # "active"

\* Rows left allocated by a section that stopped half way, or by a crash, are
\* all taken back by the next round of the cleanup thread: a live session that
\* covers the pair of such a row is never in the way of the sweep.
OrphansSwept ==
    [][CleanupExpired => \A x \in Ports : ~Orphan(x)']_vars

\* What the control thread holds between its locked sections: no other
\* session has the pair of the session it is starting or aborting, so the
\* unconditional free of terminate_device_session hits nobody else.
ControlSafe ==
    ctl.op \in {"start", "abort"} =>
        /\ sess[ctl.session].port \in Pairs
        /\ \A t \in Sessions \ {ctl.session} :
              sess[t].status = "active" => sess[t].port # sess[ctl.session].port

ActiveIsBound ==
    \A s \in Sessions :
        sess[s].status = "active" =>
            sess[s].device \in Devices /\ sess[s].port \in Pairs

\* The inductive invariant behind ExclusivePorts.
LeaseInv == TypeOK /\ ActiveIsBound /\ LeaseBacked /\ ControlSafe

-----------------------------------------------------------------------------

\* The lease on pair p: its rows name an active session.
LeaseOf(p) ==
    IF rows[p].status = "allocated" /\ sess[rows[p].session].status = "active"
    THEN [device |-> rows[p].device, session |-> rows[p].session]
    ELSE [device |-> NoDevice, session |-> NoSession]

Promise == INSTANCE PortLease
    WITH lease <- [p \in Pairs |-> LeaseOf(p)],
         ended <- {s \in Sessions : sess[s].status \in {"expired", "terminated"}}

\* The tables implement the lease promise: registrations, expiries, aborted
\* starts and crashes only grant and release leases as PortLease allows.
KeepsPromise == Promise!LeaseSpec
=============================================================================
