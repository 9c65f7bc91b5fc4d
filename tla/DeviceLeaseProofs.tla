-------------------------- MODULE DeviceLeaseProofs --------------------------
(***************************************************************************)
(* Proofs about DeviceLease, for every set of devices, tokens and pairs:   *)
(* as long as no disconnect request is handled, LeaseInv is inductive and  *)
(* no two active sessions hold the same pair.                              *)
(*                                                                         *)
(* ExclusivePorts is not inductive: it does not say why a pair that is     *)
(* freed or handed out is nobody else's.  LeaseBacked does - the rows of a *)
(* pair name the one session that holds it -, and ControlSafe carries that *)
(* over the moments at which the control thread has given up the lock.     *)
(*                                                                         *)
(* With that, the tables implement PortLease: seen through LeaseOf, every  *)
(* step grants pairs nobody has, releases pairs or changes nothing.        *)
(*                                                                         *)
(* The last part is about the tables with everything that can happen to    *)
(* them (MCLeaseTables).  LeaseBacked is false there: a disconnect frees   *)
(* the pairs of sessions that ended long ago, whoever has them now.        *)
(* RowNames takes its place: it ties every allocated row to a session that *)
(* had its pair, and a section that ends a session and is not cut short    *)
(* frees that pair.                                                        *)
(***************************************************************************)
EXTENDS MCLeaseTables, PairLoop, TLAPS

\* The two ports of a pair belong to no other pair (the pool is built from
\* even input ports).
LEMMA Pairing ==
    /\ \A p \in Pairs : /\ p # NoPort
                        /\ PortsOf(p) \subseteq Ports
                        /\ \A x \in PortsOf(p) : PairOf(x) = p
    /\ \A x \in Ports : PairOf(x) \in Pairs /\ x \in PortsOf(PairOf(x))
<1>1. \A p \in Pairs : p \in Nat /\ p >= 6000 /\ p % 2 = 0
  BY PairsAssumption
<1>2. \A p \in Pairs : p + 1 \notin Pairs
  BY <1>1
<1> QED
  BY <1>1, <1>2 DEF NoPort, PortsOf, Ports, PairOf

\* Freeing pairs leaves every allocated row outside them alone, and leaves
\* nothing allocated inside them.
LEMMA FreePairsEffect ==
    ASSUME NEW R \in [Ports -> Row],
           NEW f \in [Devices -> Pairs \cup {NoPort}],
           NEW Q
    PROVE  /\ FreePairs(R, f, Q) \in [Ports -> Row]
           /\ \A x \in Ports :
                 R[x].status = "allocated" /\ PairOf(x) \notin Q
                     => FreePairs(R, f, Q)[x] = R[x]
           /\ \A x \in Ports :
                 FreePairs(R, f, Q)[x].status = "allocated"
                     => FreePairs(R, f, Q)[x] = R[x]
<1>1. \A x \in Ports : (\E d \in Devices : f[d] = PairOf(x)) =>
          (CHOOSE d \in Devices : f[d] = PairOf(x)) \in Devices
  OBVIOUS
<1>2. FreeRow \in Row /\ \A d \in Devices : ReservedRow(d) \in Row
  BY DEF FreeRow, ReservedRow, Row
<1>3. FreeRow.status = "free" /\ \A d : ReservedRow(d).status = "reserved"
  BY DEF FreeRow, ReservedRow
<1>4. FreePairs(R, f, Q) \in [Ports -> Row]
  BY <1>1, <1>2 DEF FreePairs
<1>5. \A x \in Ports : R[x].status = "allocated" /\ PairOf(x) \notin Q
          => FreePairs(R, f, Q)[x] = R[x]
  BY DEF FreePairs
<1>6. \A x \in Ports : FreePairs(R, f, Q)[x].status = "allocated"
          => FreePairs(R, f, Q)[x] = R[x]
  BY <1>3 DEF FreePairs
<1> QED
  BY <1>4, <1>5, <1>6

\* A pair that may be handed out has no allocated row.
LEMMA CandidateUnallocated ==
    ASSUME NEW R \in [Ports -> Row], NEW f, NEW d,
           NEW p \in CandidatePairs(R, f, d)
    PROVE  p \in Pairs /\ \A x \in PortsOf(p) : R[x].status # "allocated"
BY DEF CandidatePairs, Reservable, FreeRow

\* When the sessions of S end and their pairs are freed, the sessions that
\* stay active keep their rows: nobody outside S holds a pair of S.
LEMMA OthersKeepRows ==
    ASSUME LeaseInv,
           NEW S \in SUBSET {s \in Sessions : sess[s].status = "active"},
           NEW t \in Sessions \ S, sess[t].status = "active"
    PROVE  /\ sess[t].port \notin PortsHeld(S)
           /\ \A x \in PortsOf(sess[t].port) :
                 FreePairs(rows, pref, PortsHeld(S))[x]
                     = AllocatedRow(sess[t].device, t)
<1> DEFINE p == sess[t].port
<1>1. p \in Pairs /\ p \in PortsOf(p)
  BY DEF LeaseInv, ActiveIsBound, PortsOf
<1>2. \A x \in PortsOf(p) : rows[x] = AllocatedRow(sess[t].device, t)
  BY DEF LeaseInv, LeaseBacked
<1>3. p \notin PortsHeld(S)
  <2> SUFFICES ASSUME NEW u \in S, sess[u].port = p
               PROVE  FALSE
    BY DEF PortsHeld
  <2>1. rows[p] = AllocatedRow(sess[u].device, u)
    BY <1>1 DEF LeaseInv, LeaseBacked
  <2> QED
    BY <1>1, <1>2, <2>1 DEF AllocatedRow
<1>4. \A x \in PortsOf(p) : x \in Ports /\ PairOf(x) = p
  BY <1>1, Pairing
<1>5. \A x \in PortsOf(p) : rows[x].status = "allocated"
  BY <1>2 DEF AllocatedRow
<1> QED
  BY <1>2, <1>3, <1>4, <1>5, FreePairsEffect DEF LeaseInv, TypeOK

-----------------------------------------------------------------------------

\* A pool that holds only reservations, before the first registration.
LEMMA InitLease == Init => LeaseInv
<1> SUFFICES ASSUME Init PROVE LeaseInv
  OBVIOUS
<1>1. \A s \in Sessions : sess[s].status = "unused"
  BY DEF Init, Unused
<1>2. rows \in [Ports -> Row]
  <2>1. \A x \in Ports : (\E d \in Devices : pref[d] = PairOf(x)) =>
            (CHOOSE d \in Devices : pref[d] = PairOf(x)) \in Devices
    OBVIOUS
  <2>2. FreeRow \in Row /\ \A d \in Devices : ReservedRow(d) \in Row
    BY DEF FreeRow, ReservedRow, Row
  <2> QED
    BY <2>1, <2>2 DEF Init, InitialRows
<1>3. TypeOK
  <2>1. sess \in [Sessions -> Session]
    BY DEF Init, Unused, Session
  <2>2. ctl \in Control
    BY DEF Init, Idle, Control
  <2>3. devStatus \in [Devices -> DeviceStatus]
    BY DEF Init, DeviceStatus
  <2> QED
    BY <1>2, <2>1, <2>2, <2>3 DEF Init, Preferences, TypeOK
<1>4. ctl.op = "idle"
  BY DEF Init, Idle
<1> QED
  BY <1>1, <1>3, <1>4 DEF LeaseInv, ActiveIsBound, LeaseBacked, ControlSafe

\* What OpenSession needs of the tables and what it leaves in them.
LEMMA OpenSessionKeeps ==
    ASSUME LeaseInv,
           NEW d \in Devices, NEW s \in Sessions, NEW p \in Pairs,
           NEW c \in BOOLEAN, OpenSession(d, s, p, c)
    PROVE  /\ sess' \in [Sessions -> Session]
           /\ rows' \in [Ports -> Row]
           /\ sess'[s] = NewSession(d, p)
           /\ ActiveIsBound'
           /\ LeaseBacked'
           /\ \A t \in Sessions \ {s} :
                 sess'[t].status = "active" => sess'[t].port # p
<1> DEFINE S == CleanedSessions(d, c)
           cleaned == CleanedRows(d, c)
<1>1. TypeOK
  BY DEF LeaseInv
<1>2. S \in SUBSET {t \in Sessions : sess[t].status = "active"}
  BY DEF CleanedSessions, ActiveSessions
<1>3. cleaned \in [Ports -> Row]
  BY <1>1, FreePairsEffect DEF CleanedRows, TypeOK
<1>4. p \in CandidatePairs(cleaned, pref, d)
  BY DEF OpenSession, IsLowest
<1>5. \A x \in PortsOf(p) : cleaned[x].status # "allocated"
  BY <1>3, <1>4, CandidateUnallocated
<1>6. rows' = AllocatePair(cleaned, p, d, s)
  BY DEF OpenSession
<1>7. sess' = [EndSessions(S, "expired") EXCEPT ![s] = NewSession(d, p)]
  BY DEF OpenSession
<1>8. NewSession(d, p) \in Session
  BY DEF NewSession, Session
<1>9. EndSessions(S, "expired") \in [Sessions -> Session]
  BY <1>1 DEF EndSessions, TypeOK, Session
<1>10. sess' \in [Sessions -> Session] /\ sess'[s] = NewSession(d, p)
  BY <1>7, <1>8, <1>9
<1>11. \A t \in Sessions \ {s} : sess'[t].status = "active" =>
          t \notin S /\ sess[t].status = "active" /\ sess'[t] = sess[t]
  BY <1>1, <1>7, <1>9 DEF EndSessions, TypeOK, Session
<1>12. rows' \in [Ports -> Row]
  <2>1. AllocatedRow(d, s) \in Row
    BY DEF AllocatedRow, Row
  <2> QED
    BY <1>3, <1>6, <2>1 DEF AllocatePair
<1>13. ASSUME NEW t \in Sessions \ {s}, sess'[t].status = "active"
       PROVE  /\ sess'[t].port # p
              /\ sess'[t].port \in Pairs
              /\ \A x \in PortsOf(sess'[t].port) :
                    rows'[x] = AllocatedRow(sess'[t].device, t)
  <2>1. sess'[t] = sess[t] /\ t \notin S /\ sess[t].status = "active"
    BY <1>11, <1>13
  <2>2. \A x \in PortsOf(sess[t].port) :
            cleaned[x] = AllocatedRow(sess[t].device, t)
    BY <1>2, <2>1, OthersKeepRows DEF CleanedRows
  <2>3. sess[t].port \in Pairs
    BY <2>1 DEF LeaseInv, ActiveIsBound
  <2>4. sess[t].port # p
    <3>1. p \in PortsOf(p)
      BY DEF PortsOf
    <3> QED
      BY <1>5, <2>2, <3>1 DEF AllocatedRow
  <2>5. \A x \in PortsOf(sess[t].port) : x \in Ports /\ x \notin PortsOf(p)
    BY <2>3, <2>4, Pairing
  <2>6. \A x \in PortsOf(sess[t].port) : rows'[x] = cleaned[x]
    BY <1>6, <2>5 DEF AllocatePair
  <2> QED
    BY <2>1, <2>2, <2>3, <2>4, <2>6
<1>14. sess'[s].device = d /\ sess'[s].port = p
  BY <1>10 DEF NewSession
<1>15. \A x \in PortsOf(p) : rows'[x] = AllocatedRow(d, s)
  BY <1>6, Pairing DEF AllocatePair
<1>16. ActiveIsBound'
  <2> SUFFICES ASSUME NEW t \in Sessions, sess'[t].status = "active"
               PROVE  sess'[t].device \in Devices /\ sess'[t].port \in Pairs
    BY DEF ActiveIsBound
  <2>1. CASE t = s
    BY <1>14, <2>1
  <2>2. CASE t # s
    <3>1. sess[t].device \in Devices /\ sess'[t] = sess[t]
      BY <1>11, <2>2 DEF LeaseInv, ActiveIsBound
    <3> QED
      BY <1>13, <2>2, <3>1
  <2> QED
    BY <2>1, <2>2
<1>17. LeaseBacked'
  <2> SUFFICES ASSUME NEW t \in Sessions, sess'[t].status = "active"
               PROVE  \A x \in PortsOf(sess'[t].port) :
                          rows'[x] = AllocatedRow(sess'[t].device, t)
    BY DEF LeaseBacked
  <2>1. CASE t = s
    BY <1>14, <1>15, <2>1
  <2>2. CASE t # s
    BY <1>13, <2>2
  <2> QED
    BY <2>1, <2>2
<1> QED
  BY <1>10, <1>12, <1>13, <1>16, <1>17

\* Ending the sessions of S is harmless as long as the rows of the other
\* active sessions stay as they are.
LEMMA EndSessionsKeeps ==
    ASSUME LeaseInv,
           NEW S \in SUBSET {s \in Sessions : sess[s].status = "active"},
           NEW status \in {"expired", "terminated"},
           sess' = EndSessions(S, status),
           \A t \in Sessions \ S : sess[t].status = "active" =>
               \A x \in PortsOf(sess[t].port) : rows'[x] = rows[x]
    PROVE  /\ sess' \in [Sessions -> Session]
           /\ ActiveIsBound'
           /\ LeaseBacked'
           /\ \A t \in Sessions :
                 /\ sess'[t].port = sess[t].port
                 /\ sess'[t].status = "active" => sess[t].status = "active"
<1>1. sess \in [Sessions -> Session]
  BY DEF LeaseInv, TypeOK
<1>2. sess' \in [Sessions -> Session]
  <2>1. ASSUME NEW t \in Sessions
        PROVE  [sess[t] EXCEPT !.status = status, !.lapsed = TRUE] \in Session
    <3>1. sess[t] \in Session
      BY <1>1
    <3> QED
      BY <3>1 DEF Session
  <2> QED
    BY <1>1, <2>1 DEF EndSessions
<1>3. \A t \in Sessions : sess'[t].port = sess[t].port
  BY <1>1 DEF EndSessions, Session
<1>4. \A t \in Sessions : sess'[t].status = "active" =>
          t \notin S /\ sess[t].status = "active" /\ sess'[t] = sess[t]
  BY <1>1 DEF EndSessions, Session
<1>5. ActiveIsBound'
  BY <1>4 DEF LeaseInv, ActiveIsBound
<1>6. LeaseBacked'
  BY <1>4 DEF LeaseInv, LeaseBacked
<1> QED
  BY <1>2, <1>3, <1>4, <1>5, <1>6

\* ControlSafe survives a step that opens no session and leaves ctl alone.
LEMMA ControlSafeKeeps ==
    ASSUME LeaseInv,
           UNCHANGED ctl,
           \A t \in Sessions :
               /\ sess'[t].port = sess[t].port
               /\ sess'[t].status = "active" => sess[t].status = "active"
    PROVE  ControlSafe'
<1>1. ctl.op \in {"start", "abort"} => ctl.session \in Sessions
  BY DEF LeaseInv, TypeOK, Control
<1> QED
  BY <1>1 DEF LeaseInv, ControlSafe

\* Every step of LeaseNext keeps the inductive invariant.
LEMMA StepLease == LeaseInv /\ [LeaseNext]_vars => LeaseInv'
<1> SUFFICES ASSUME LeaseInv, [LeaseNext]_vars PROVE LeaseInv'
  OBVIOUS
<1> USE DEF LeaseInv
<1>0. Idle \in Control /\ Idle.op = "idle"
  BY DEF Idle, Control
<1>1. ASSUME NEW d \in Devices, NEW s \in Sessions, NEW p \in Pairs,
             NEW c \in BOOLEAN, Register(d, s, p, c)
      PROVE  LeaseInv'
  <2>1. OpenSession(d, s, p, c)
    BY <1>1 DEF Register
  <2>2. ctl' = [op |-> "start", session |-> s]
    BY <1>1 DEF Register
  <2>3. ctl' \in Control
    BY <2>2 DEF Control
  <2>4. devStatus' \in [Devices -> DeviceStatus]
    BY <1>1 DEF Register, TypeOK, DeviceStatus
  <2>5. devPort' \in [Devices -> Pairs \cup {NoPort}]
    BY <1>1 DEF Register, TypeOK
  <2>6. TypeOK'
    BY <1>1, <2>1, <2>3, <2>4, <2>5, OpenSessionKeeps DEF Register, TypeOK
  <2>7. sess'[s].port = p
    <3>1. sess'[s] = NewSession(d, p)
      BY <2>1, OpenSessionKeeps
    <3> QED
      BY <3>1 DEF NewSession
  <2>8. ControlSafe'
    BY <2>1, <2>2, <2>7, OpenSessionKeeps DEF ControlSafe
  <2> QED
    BY <2>1, <2>6, <2>8, OpenSessionKeeps
<1>2. ASSUME NEW d \in Devices, NEW s \in Sessions, NEW p \in Pairs,
             NEW c \in BOOLEAN, RegisterBroken(d, s, p, c)
      PROVE  LeaseInv'
  <2>1. OpenSession(d, s, p, c)
    BY <1>2 DEF RegisterBroken
  <2>2. TypeOK'
    BY <1>0, <1>2, <2>1, OpenSessionKeeps DEF RegisterBroken, TypeOK
  <2>3. ControlSafe'
    BY <1>0, <1>2 DEF RegisterBroken, ControlSafe
  <2> QED
    BY <2>1, <2>2, <2>3, OpenSessionKeeps
<1>3. ASSUME NEW d \in Devices, Authenticate(d)
      PROVE  LeaseInv'
  <2>1. ctl' \in Control /\ ctl'.op = "auth"
    BY <1>3 DEF Authenticate, Control
  <2> QED
    BY <1>3, <2>1 DEF Authenticate, TypeOK, ActiveIsBound, LeaseBacked, ControlSafe
<1>4. ASSUME NEW d \in Devices, NEW c \in BOOLEAN, RegisterRefused(d, c)
      PROVE  LeaseInv'
  <2> DEFINE S == CleanedSessions(d, c)
  <2>1. S \in SUBSET {t \in Sessions : sess[t].status = "active"}
    BY DEF CleanedSessions, ActiveSessions
  <2>2. rows' = FreePairs(rows, pref, PortsHeld(S))
    BY <1>4 DEF RegisterRefused, CleanedRows
  <2>3. \A t \in Sessions \ S : sess[t].status = "active" =>
            \A x \in PortsOf(sess[t].port) : rows'[x] = rows[x]
    BY <2>1, <2>2, OthersKeepRows DEF LeaseBacked
  <2>4. sess' = EndSessions(S, "expired")
    BY <1>4 DEF RegisterRefused
  <2>5. rows' \in [Ports -> Row]
    BY <2>2, FreePairsEffect DEF TypeOK
  <2>6. ControlSafe'
    BY <1>0, <1>4 DEF RegisterRefused, ControlSafe
  <2>7. TypeOK'
    BY <1>0, <1>4, <2>1, <2>3, <2>4, <2>5, EndSessionsKeeps
    DEF RegisterRefused, TypeOK
  <2> QED
    BY <2>1, <2>3, <2>4, <2>6, <2>7, EndSessionsKeeps
<1>5. CASE TunnelStarted \/ Crash
  BY <1>0, <1>5
  DEF TunnelStarted, Crash, TypeOK, ActiveIsBound, LeaseBacked, ControlSafe
<1>6. CASE TunnelFailed
  <2>1. ctl.session \in Sessions
    BY <1>6 DEF TunnelFailed, TypeOK, Control
  <2>2. ctl' \in Control
    BY <1>0, <1>6, <2>1 DEF TunnelFailed, Control
  <2>3. ControlSafe'
    BY <1>0, <1>6 DEF TunnelFailed, ControlSafe
  <2> QED
    BY <1>6, <2>2, <2>3 DEF TunnelFailed, TypeOK, ActiveIsBound, LeaseBacked
<1>7. ASSUME NEW freed \in BOOLEAN, AbortSession(freed)
      PROVE  LeaseInv'
  <2> DEFINE c == ctl.session
             S == {c} \cap {t \in Sessions : sess[t].status = "active"}
  <2>1. c \in Sessions
    BY <1>7 DEF AbortSession, TypeOK, Control
  <2>2. \A t \in Sessions \ {c} :
            sess[t].status = "active" => sess[t].port # sess[c].port
    BY <1>7 DEF AbortSession, ControlSafe
  <2>3. \A t \in Sessions \ S : sess[t].status = "active" =>
            \A x \in PortsOf(sess[t].port) : rows'[x] = rows[x]
    <3> SUFFICES ASSUME NEW t \in Sessions \ S, sess[t].status = "active",
                        NEW x \in PortsOf(sess[t].port)
                 PROVE  rows'[x] = rows[x]
      OBVIOUS
    <3>1. t # c /\ sess[t].port # sess[c].port
      BY <2>2
    <3>2. x \in Ports /\ PairOf(x) = sess[t].port
      BY Pairing DEF ActiveIsBound
    <3>3. rows[x] = AllocatedRow(sess[t].device, t)
      BY DEF LeaseBacked
    <3>4. rows[x].status = "allocated"
      BY <3>3 DEF AllocatedRow
    <3> QED
      BY <1>7, <3>1, <3>2, <3>4, FreePairsEffect DEF AbortSession, TypeOK
  <2>4. sess' = EndSessions(S, "terminated")
    BY <1>7 DEF AbortSession
  <2>5. rows' \in [Ports -> Row]
    BY <1>7, FreePairsEffect DEF AbortSession, TypeOK
  <2>6. ControlSafe'
    BY <1>0, <1>7 DEF AbortSession, ControlSafe
  <2>7. TypeOK'
    BY <1>0, <1>7, <2>3, <2>4, <2>5, EndSessionsKeeps DEF AbortSession, TypeOK
  <2> QED
    BY <2>3, <2>4, <2>6, <2>7, EndSessionsKeeps
<1>8. ASSUME NEW s \in Sessions, NEW u \in BOOLEAN, Heartbeat(s, u)
      PROVE  LeaseInv'
  <2>1. sess[s].device \in Devices
    BY <1>8 DEF Heartbeat, ActiveIsBound
  <2>2. sess' \in [Sessions -> Session]
    <3>1. /\ sess \in [Sessions -> Session]
          /\ sess' = [sess EXCEPT ![s].lapsed = FALSE]
      BY <1>8 DEF Heartbeat, TypeOK
    <3> QED
      BY <3>1 DEF Session
  <2>3. \A t \in Sessions : /\ sess'[t].status = sess[t].status
                            /\ sess'[t].device = sess[t].device
                            /\ sess'[t].port = sess[t].port
    <3>1. /\ sess \in [Sessions -> Session]
          /\ sess' = [sess EXCEPT ![s].lapsed = FALSE]
      BY <1>8 DEF Heartbeat, TypeOK
    <3> QED
      BY <3>1 DEF Session
  <2>4. devStatus' \in [Devices -> DeviceStatus]
    BY <1>8, <2>1 DEF Heartbeat, TypeOK, DeviceStatus
  <2>5. TypeOK' /\ ActiveIsBound' /\ LeaseBacked'
    BY <1>8, <2>2, <2>3, <2>4 DEF Heartbeat, TypeOK, ActiveIsBound, LeaseBacked
  <2>6. ControlSafe'
    BY <1>0, <1>8 DEF Heartbeat, ControlSafe
  <2> QED
    BY <2>5, <2>6
<1>9. CASE CleanupExpired
  <2> DEFINE S == {s \in Sessions : sess[s].status = "active" /\ sess[s].lapsed}
             freed == FreePairs(rows, pref, PortsHeld(S))
             covered(x) == \E s \in Sessions : Live(s) /\ sess[s].port = PairOf(x)
  <2>1. /\ sess' = EndSessions(S, "expired")
        /\ rows' = [x \in Ports |->
                       IF freed[x].status = "allocated" /\ ~covered(x)
                       THEN FreeRow ELSE freed[x]]
        /\ UNCHANGED <<pref, ctl>>
    BY <1>9 DEF CleanupExpired
  <2>2. freed \in [Ports -> Row]
    BY FreePairsEffect DEF TypeOK
  <2>3. rows' \in [Ports -> Row]
    BY <2>1, <2>2 DEF FreeRow, Row
  <2>4. \A t \in Sessions \ S : sess[t].status = "active" =>
            \A x \in PortsOf(sess[t].port) : rows'[x] = rows[x]
    <3> SUFFICES ASSUME NEW t \in Sessions \ S, sess[t].status = "active",
                        NEW x \in PortsOf(sess[t].port)
                 PROVE  rows'[x] = rows[x]
      OBVIOUS
    <3>1. freed[x] = rows[x]
      BY OthersKeepRows DEF LeaseBacked
    <3>2. x \in Ports /\ PairOf(x) = sess[t].port
      BY Pairing DEF ActiveIsBound
    <3>3. covered(x)
      BY <3>2 DEF Live, TypeOK, Session
    <3> HIDE DEF covered, freed
    <3> QED
      BY <2>1, <3>1, <3>2, <3>3
  <2>5. devStatus' \in [Devices -> DeviceStatus]
    BY <1>9 DEF CleanupExpired, TypeOK, DeviceStatus
  <2>6. devPort' \in [Devices -> Pairs \cup {NoPort}]
    BY <1>9 DEF CleanupExpired, TypeOK
  <2> HIDE DEF freed, covered
  <2>7. TypeOK' /\ ActiveIsBound' /\ LeaseBacked'
    BY <2>1, <2>3, <2>4, <2>5, <2>6, EndSessionsKeeps DEF TypeOK
  <2>8. ControlSafe'
    BY <2>1, <2>4, EndSessionsKeeps, ControlSafeKeeps
  <2> QED
    BY <2>7, <2>8
<1>10. ASSUME NEW s \in Sessions, Lapse(s)
       PROVE  LeaseInv'
  <2>1. sess' \in [Sessions -> Session]
    <3>1. /\ sess \in [Sessions -> Session]
          /\ sess' = [sess EXCEPT ![s].lapsed = TRUE]
      BY <1>10 DEF Lapse, TypeOK
    <3> QED
      BY <3>1 DEF Session
  <2>2. \A t \in Sessions : /\ sess'[t].status = sess[t].status
                            /\ sess'[t].device = sess[t].device
                            /\ sess'[t].port = sess[t].port
    <3>1. /\ sess \in [Sessions -> Session]
          /\ sess' = [sess EXCEPT ![s].lapsed = TRUE]
      BY <1>10 DEF Lapse, TypeOK
    <3> QED
      BY <3>1 DEF Session
  <2>3. TypeOK' /\ ActiveIsBound' /\ LeaseBacked'
    BY <1>10, <2>1, <2>2 DEF Lapse, TypeOK, ActiveIsBound, LeaseBacked
  <2>4. ControlSafe'
    BY <1>10, <2>2, ControlSafeKeeps DEF Lapse
  <2> QED
    BY <2>3, <2>4
<1>11. ASSUME NEW d \in Devices, NEW r \in BOOLEAN, Connect(d, r)
       PROVE  LeaseInv'
  <2>1. devStatus' \in [Devices -> DeviceStatus]
    BY <1>11 DEF Connect, TypeOK, DeviceStatus
  <2> QED
    BY <1>11, <2>1
    DEF Connect, TypeOK, ActiveIsBound, LeaseBacked, ControlSafe
<1>12. CASE UNCHANGED vars
  BY <1>12 DEF vars, TypeOK, ActiveIsBound, LeaseBacked, ControlSafe
<1> QED
  BY <1>1, <1>2, <1>3, <1>4, <1>5, <1>6, <1>7, <1>8, <1>9, <1>10, <1>11, <1>12
  DEF LeaseNext, Sound, Opens, Serving, AbortBroken

\* The inductive invariant, TypeOK included, holds in every behaviour without
\* disconnect requests, crashes and half-done aborts included.
THEOREM LeaseInvariant == LeaseSpec => []LeaseInv
BY InitLease, StepLease, PTL DEF LeaseSpec

\* Pairs whose rows name their session have one session.
LEMMA BackedIsExclusive == LeaseInv => ExclusivePorts
<1> SUFFICES ASSUME LeaseInv, NEW s \in Sessions, NEW t \in Sessions,
                    sess[s].status = "active", sess[t].status = "active",
                    s # t, sess[s].port = sess[t].port
             PROVE  FALSE
  BY DEF ExclusivePorts
<1>1. sess[s].port \in PortsOf(sess[s].port)
  BY DEF PortsOf
<1> DEFINE row == rows[sess[s].port]
<1>2. /\ row = AllocatedRow(sess[s].device, s)
      /\ row = AllocatedRow(sess[t].device, t)
  BY <1>1 DEF LeaseInv, LeaseBacked
<1>3. row.session = s /\ row.session = t
  <2> HIDE DEF row
  <2> QED
    BY <1>2 DEF AllocatedRow
<1> QED
  BY <1>3

\* No two active sessions ever hold the same port pair, whatever the number
\* of devices, tokens and pairs.
THEOREM PortsAreExclusive == LeaseSpec => []ExclusivePorts
BY LeaseInvariant, BackedIsExclusive, PTL

\* A row that is still allocated after the sweep of cleanup_expired_sessions
\* is covered by a live session, and it is that session's own row.
LEMMA SweepLeavesOwned ==
    ASSUME LeaseInv, CleanupExpired, NEW x \in Ports
    PROVE  ~Orphan(x)'
<1> SUFFICES ASSUME rows'[x].status = "allocated"
             PROVE  sess'[rows'[x].session].status = "active"
  BY DEF Orphan
<1> DEFINE lapsed == {s \in Sessions : sess[s].status = "active" /\ sess[s].lapsed}
           freed == FreePairs(rows, pref, PortsHeld(lapsed))
           covered == \E s \in Sessions : Live(s) /\ sess[s].port = PairOf(x)
<1>1. /\ rows'[x] = IF freed[x].status = "allocated" /\ ~covered
                    THEN FreeRow ELSE freed[x]
      /\ sess' = EndSessions(lapsed, "expired")
  BY DEF CleanupExpired
<1>2. covered /\ rows'[x] = freed[x]
  <2> HIDE DEF covered, freed
  <2> QED
    BY <1>1 DEF FreeRow
<1>3. PICK s \in Sessions : Live(s) /\ sess[s].port = PairOf(x)
  BY <1>2
<1>4. s \in Sessions \ lapsed /\ sess[s].status = "active"
  BY <1>3 DEF Live
<1>5. freed[x] = AllocatedRow(sess[s].device, s)
  <2>1. x \in PortsOf(sess[s].port)
    BY <1>3, Pairing
  <2>2. lapsed \in SUBSET {t \in Sessions : sess[t].status = "active"}
    OBVIOUS
  <2> HIDE DEF lapsed
  <2> QED
    BY <1>4, <2>1, <2>2, OthersKeepRows
<1>6. rows'[x].session = s
  BY <1>2, <1>5 DEF AllocatedRow
<1>7. sess'[s] = sess[s]
  <2> HIDE DEF lapsed
  <2> QED
    BY <1>1, <1>4 DEF EndSessions
<1> QED
  BY <1>4, <1>6, <1>7

\* One round of the cleanup thread takes back every row that a section which
\* stopped half way has left allocated.
THEOREM SweepReclaims == LeaseSpec => OrphansSwept
<1>1. LeaseInv /\ [LeaseNext]_vars =>
        [CleanupExpired => \A x \in Ports : ~Orphan(x)']_vars
  BY SweepLeavesOwned
<1> QED
  BY <1>1, LeaseInvariant, PTL DEF LeaseSpec, OrphansSwept

-----------------------------------------------------------------------------
(* What a step does to device_sessions and port_allocations.  All actions  *)
(* but OpenSession fall into two kinds, and the invariants about the two   *)
(* tables need no more than that.                                          *)

\* The sessions of S end and no row is newly allocated.
Ends(S) ==
    /\ S \subseteq {s \in Sessions : sess[s].status = "active"}
    /\ \E status \in {"expired", "terminated"} : sess' = EndSessions(S, status)
    /\ \A x \in Ports : rows'[x].status = "allocated" => rows'[x] = rows[x]

\* Only expires_at of the active session s moves.
Renews(s) ==
    /\ sess[s].status = "active"
    /\ \E b \in BOOLEAN : sess' = [sess EXCEPT ![s].lapsed = b]
    /\ UNCHANGED rows

\* A step that leaves both tables alone ends no session.
LEMMA NothingEnds ==
    ASSUME TypeOK, UNCHANGED <<sess, rows>>
    PROVE  Ends({})
<1>1. sess = [s \in Sessions |-> sess[s]]
  BY DEF TypeOK
<1>2. sess = EndSessions({}, "expired")
  BY <1>1 DEF EndSessions
<1> QED
  BY <1>2 DEF Ends

\* Every statement that frees pairs only takes allocations away.
LEMMA FreeingEnds ==
    ASSUME TypeOK, NEW Q,
           NEW S \in SUBSET {s \in Sessions : sess[s].status = "active"},
           NEW status \in {"expired", "terminated"},
           sess' = EndSessions(S, status),
           rows' \in {rows, FreePairs(rows, pref, Q)}
    PROVE  Ends(S) /\ rows' \in [Ports -> Row]
<1>1. rows \in [Ports -> Row] /\ pref \in [Devices -> Pairs \cup {NoPort}]
  BY DEF TypeOK
<1>2. \A x \in Ports : rows'[x].status = "allocated" => rows'[x] = rows[x]
  BY <1>1, FreePairsEffect
<1> QED
  BY <1>1, <1>2, FreePairsEffect DEF Ends

\* The sweep of the cleanup thread also only takes allocations away.
LEMMA CleanupEnds ==
    ASSUME TypeOK, CleanupExpired
    PROVE  /\ Ends({s \in Sessions : sess[s].status = "active" /\ sess[s].lapsed})
           /\ rows' \in [Ports -> Row]
<1> DEFINE S == {s \in Sessions : sess[s].status = "active" /\ sess[s].lapsed}
           freed == FreePairs(rows, pref, PortsHeld(S))
           covered(x) == \E s \in Sessions : Live(s) /\ sess[s].port = PairOf(x)
<1>1. /\ sess' = EndSessions(S, "expired")
      /\ rows' = [x \in Ports |->
                     IF freed[x].status = "allocated" /\ ~covered(x)
                     THEN FreeRow ELSE freed[x]]
  BY DEF CleanupExpired
<1>2. /\ freed \in [Ports -> Row]
      /\ \A x \in Ports : freed[x].status = "allocated" => freed[x] = rows[x]
  BY FreePairsEffect DEF TypeOK
<1>3. FreeRow \in Row /\ FreeRow.status # "allocated"
  BY DEF FreeRow, Row
<1> HIDE DEF freed, covered
<1>4. \A x \in Ports : rows'[x].status = "allocated" => rows'[x] = rows[x]
  BY <1>1, <1>2, <1>3
<1>5. rows' \in [Ports -> Row]
  BY <1>1, <1>2, <1>3
<1> QED
  BY <1>1, <1>4, <1>5 DEF Ends

\* Every step of every specification opens a session, ends some or renews one.
LEMMA TablesMove ==
    ASSUME TypeOK, [Next]_vars
    PROVE  \/ \E d \in Devices, s \in Sessions, p \in Pairs,
                 c \in BOOLEAN : OpenSession(d, s, p, c)
           \/ \E S \in SUBSET Sessions : Ends(S)
           \/ \E s \in Sessions : Renews(s)
<1>1. CASE UNCHANGED <<sess, rows>>
  BY <1>1, NothingEnds
<1>2. ASSUME NEW d \in Devices, NEW s \in Sessions, NEW p \in Pairs,
             NEW c \in BOOLEAN,
             Register(d, s, p, c) \/ RegisterBroken(d, s, p, c)
      PROVE  OpenSession(d, s, p, c)
  BY <1>2 DEF Register, RegisterBroken
<1>3. ASSUME NEW d \in Devices, NEW c \in BOOLEAN, RegisterRefused(d, c)
      PROVE  Ends(CleanedSessions(d, c))
  <2>1. CleanedSessions(d, c) \in SUBSET {s \in Sessions : sess[s].status = "active"}
    BY DEF CleanedSessions, ActiveSessions
  <2>2. rows' = FreePairs(rows, pref, PortsHeld(CleanedSessions(d, c)))
    BY <1>3 DEF RegisterRefused, CleanedRows
  <2>3. sess' = EndSessions(CleanedSessions(d, c), "expired")
    BY <1>3 DEF RegisterRefused
  <2> QED
    BY <2>1, <2>2, <2>3, FreeingEnds
<1>4. ASSUME NEW freed \in BOOLEAN, AbortSession(freed)
      PROVE  \E S \in SUBSET Sessions : Ends(S)
  <2> DEFINE S == {ctl.session} \cap {s \in Sessions : sess[s].status = "active"}
  <2>1. rows' \in {rows, FreePairs(rows, pref, {sess[ctl.session].port})}
    BY <1>4 DEF AbortSession
  <2>2. sess' = EndSessions(S, "terminated")
    BY <1>4 DEF AbortSession
  <2>3. S \in SUBSET {s \in Sessions : sess[s].status = "active"}
    OBVIOUS
  <2> HIDE DEF S
  <2>4. Ends(S)
    BY <2>1, <2>2, <2>3, FreeingEnds
  <2> QED
    BY <2>3, <2>4
<1>5. ASSUME NEW s \in Sessions, NEW u \in BOOLEAN, Heartbeat(s, u)
      PROVE  Renews(s)
  BY <1>5 DEF Heartbeat, Renews
<1>6. CASE CleanupExpired
  BY <1>6, CleanupEnds DEF Ends
<1>7. ASSUME NEW s \in Sessions, Lapse(s)
      PROVE  Renews(s)
  BY <1>7 DEF Lapse, Live, Renews
<1>8. ASSUME NEW freed \in BOOLEAN, NEW deactivated \in BOOLEAN,
             DisconnectCommit(freed, deactivated)
      PROVE  \E S \in SUBSET Sessions : Ends(S)
  <2> DEFINE S == ActiveSessions(ctl.device)
             Q == PortsHeld({s \in Sessions : sess[s].device = ctl.device})
  <2>1. rows' \in {rows, FreePairs(rows, pref, Q)}
    BY <1>8 DEF DisconnectCommit
  <2>2. sess' = EndSessions(S, "terminated")
    BY <1>8 DEF DisconnectCommit
  <2>3. S \in SUBSET {s \in Sessions : sess[s].status = "active"}
    BY DEF ActiveSessions
  <2> HIDE DEF S, Q
  <2>4. Ends(S)
    BY <2>1, <2>2, <2>3, FreeingEnds
  <2> QED
    BY <2>3, <2>4
<1>9. CASE \/ \E d \in Devices : Authenticate(d) \/ DisconnectBegin(d)
           \/ TunnelStarted \/ TunnelFailed \/ Crash
           \/ \E d \in Devices, r \in BOOLEAN : Connect(d, r)
  <2>1. UNCHANGED <<sess, rows>>
    BY <1>9 DEF Authenticate, DisconnectBegin, TunnelStarted, TunnelFailed,
                Crash, Connect
  <2> QED
    BY <1>1, <2>1
<1>10. CASE UNCHANGED vars
  BY <1>1, <1>10 DEF vars
<1>11. CASE Sound
  <2>1. ASSUME NEW d \in Devices, NEW c \in BOOLEAN, RegisterRefused(d, c)
        PROVE  \E S \in SUBSET Sessions : Ends(S)
    BY <1>3, <2>1 DEF CleanedSessions, ActiveSessions
  <2> QED
    BY <1>2, <1>4, <1>5, <1>6, <1>7, <1>9, <1>11, <2>1 DEF Sound, Opens, Serving
<1>12. CASE Disconnect \/ AbortBroken \/ DisconnectBroken
  BY <1>4, <1>8, <1>9, <1>12 DEF Disconnect, AbortBroken, DisconnectBroken
<1> QED
  BY <1>10, <1>11, <1>12 DEF Next

-----------------------------------------------------------------------------

\* An allocated row and the session it names agree about the device and the
\* pair, also after the session has ended: a token is given a device and a
\* pair once, and rows are allocated nowhere but there.
RowNames ==
    \A x \in Ports :
        rows[x].status = "allocated" =>
            /\ rows[x].session \in Sessions
            /\ sess[rows[x].session].status # "unused"
            /\ sess[rows[x].session].device = rows[x].device
            /\ sess[rows[x].session].port = PairOf(x)

\* What ending sessions leaves of each of them.
LEMMA EndsEffect ==
    ASSUME TypeOK, NEW S, Ends(S)
    PROVE  \A t \in Sessions :
              /\ sess'[t].device = sess[t].device
              /\ sess'[t].port = sess[t].port
              /\ t \in S => /\ sess[t].status = "active"
                            /\ sess'[t].status \in {"expired", "terminated"}
              /\ t \notin S => sess'[t] = sess[t]
<1> SUFFICES ASSUME NEW t \in Sessions
             PROVE  /\ sess'[t].device = sess[t].device
                    /\ sess'[t].port = sess[t].port
                    /\ t \in S => /\ sess[t].status = "active"
                                  /\ sess'[t].status \in {"expired", "terminated"}
                    /\ t \notin S => sess'[t] = sess[t]
  OBVIOUS
<1>1. sess[t] \in Session
  BY DEF TypeOK
<1>2. PICK status \in {"expired", "terminated"} : sess' = EndSessions(S, status)
  BY DEF Ends
<1>3. sess'[t] = IF t \in S
                 THEN [sess[t] EXCEPT !.status = status, !.lapsed = TRUE]
                 ELSE sess[t]
  BY <1>2 DEF EndSessions
<1> QED
  BY <1>1, <1>3 DEF Ends, Session

\* What a new session leaves of the others, and of the rows of other pairs.
LEMMA OpenSessionEffect ==
    ASSUME TypeOK,
           NEW d \in Devices, NEW s \in Sessions, NEW p \in Pairs,
           NEW c \in BOOLEAN, OpenSession(d, s, p, c)
    PROVE  /\ sess[s].status = "unused"
           /\ sess'[s] = NewSession(d, p)
           /\ \A t \in Sessions \ {s} :
                 /\ sess'[t].device = sess[t].device
                 /\ sess'[t].port = sess[t].port
                 /\ t \in CleanedSessions(d, c) => sess'[t].status = "expired"
                 /\ t \notin CleanedSessions(d, c) => sess'[t] = sess[t]
           /\ \A x \in PortsOf(p) : rows'[x] = AllocatedRow(d, s)
           /\ \A x \in Ports \ PortsOf(p) : rows'[x] = CleanedRows(d, c)[x]
<1> DEFINE S == CleanedSessions(d, c)
<1>1. /\ sess[s].status = "unused"
      /\ sess' = [EndSessions(S, "expired") EXCEPT ![s] = NewSession(d, p)]
      /\ rows' = AllocatePair(CleanedRows(d, c), p, d, s)
  BY DEF OpenSession
<1>2. EndSessions(S, "expired") =
        [t \in Sessions |->
            IF t \in S THEN [sess[t] EXCEPT !.status = "expired", !.lapsed = TRUE]
                       ELSE sess[t]]
  BY DEF EndSessions
<1>3. sess'[s] = NewSession(d, p)
  <2> HIDE DEF S
  <2> QED
    BY <1>1, <1>2
<1>4. ASSUME NEW t \in Sessions \ {s}
      PROVE  /\ sess'[t].device = sess[t].device
             /\ sess'[t].port = sess[t].port
             /\ t \in S => sess'[t].status = "expired"
             /\ t \notin S => sess'[t] = sess[t]
  <2> HIDE DEF S
  <2>1. sess'[t] = IF t \in S
                   THEN [sess[t] EXCEPT !.status = "expired", !.lapsed = TRUE]
                   ELSE sess[t]
    BY <1>1, <1>2
  <2>2. sess[t] \in Session
    BY DEF TypeOK
  <2> QED
    BY <2>1, <2>2 DEF Session
<1>5. /\ \A x \in PortsOf(p) : rows'[x] = AllocatedRow(d, s)
      /\ \A x \in Ports \ PortsOf(p) : rows'[x] = CleanedRows(d, c)[x]
  BY <1>1, Pairing DEF AllocatePair
<1> QED
  BY <1>1, <1>3, <1>4, <1>5

\* Cleaning up after a device only takes allocations away.
LEMMA CleanedOnlyFreed ==
    ASSUME TypeOK, NEW d, NEW c, NEW x \in Ports, CleanedRows(d, c)[x].status = "allocated"
    PROVE  CleanedRows(d, c)[x] = rows[x]
BY FreePairsEffect DEF CleanedRows, TypeOK

\* Every step keeps it, disconnects and half-done sections included.
LEMMA StepRowNames == TypeOK /\ RowNames /\ [Next]_vars => RowNames'
<1> SUFFICES ASSUME TypeOK, RowNames, [Next]_vars,
                    NEW x \in Ports, rows'[x].status = "allocated"
             PROVE  /\ rows'[x].session \in Sessions
                    /\ sess'[rows'[x].session].status # "unused"
                    /\ sess'[rows'[x].session].device = rows'[x].device
                    /\ sess'[rows'[x].session].port = PairOf(x)
  BY DEF RowNames
<1> DEFINE t == rows[x].session
<1>1. rows'[x] = rows[x] => /\ t \in Sessions
                            /\ sess[t].status # "unused"
                            /\ sess[t].device = rows[x].device
                            /\ sess[t].port = PairOf(x)
  BY DEF RowNames
<1>2. ASSUME NEW d \in Devices, NEW s \in Sessions, NEW p \in Pairs,
             NEW c \in BOOLEAN, OpenSession(d, s, p, c)
      PROVE  /\ rows'[x].session \in Sessions
             /\ sess'[rows'[x].session].status # "unused"
             /\ sess'[rows'[x].session].device = rows'[x].device
             /\ sess'[rows'[x].session].port = PairOf(x)
  <2>1. CASE x \in PortsOf(p)
    <3>1. rows'[x] = AllocatedRow(d, s) /\ sess'[s] = NewSession(d, p)
      BY <1>2, <2>1, OpenSessionEffect
    <3>2. PairOf(x) = p
      BY <2>1, Pairing
    <3> QED
      BY <3>1, <3>2 DEF AllocatedRow, NewSession
  <2>2. CASE x \notin PortsOf(p)
    <3>1. rows'[x] = CleanedRows(d, c)[x]
      BY <1>2, <2>2, OpenSessionEffect
    <3>2. rows'[x] = rows[x]
      BY <3>1, CleanedOnlyFreed
    <3>3. t # s /\ t \in Sessions
      BY <1>1, <1>2, <3>2, OpenSessionEffect
    <3>4. /\ sess'[t].device = sess[t].device
          /\ sess'[t].port = sess[t].port
          /\ sess'[t].status = "expired" \/ sess'[t] = sess[t]
      BY <1>2, <3>3, OpenSessionEffect
    <3> QED
      BY <1>1, <3>2, <3>4
  <2> QED
    BY <2>1, <2>2
<1>3. ASSUME NEW S, Ends(S)
      PROVE  /\ rows'[x].session \in Sessions
             /\ sess'[rows'[x].session].status # "unused"
             /\ sess'[rows'[x].session].device = rows'[x].device
             /\ sess'[rows'[x].session].port = PairOf(x)
  <2>1. rows'[x] = rows[x]
    BY <1>3 DEF Ends
  <2>2. /\ sess'[t].device = sess[t].device
        /\ sess'[t].port = sess[t].port
        /\ sess'[t].status \in {"expired", "terminated"} \/ sess'[t] = sess[t]
    BY <1>1, <1>3, <2>1, EndsEffect
  <2> QED
    BY <1>1, <2>1, <2>2
<1>4. ASSUME NEW s \in Sessions, Renews(s)
      PROVE  /\ rows'[x].session \in Sessions
             /\ sess'[rows'[x].session].status # "unused"
             /\ sess'[rows'[x].session].device = rows'[x].device
             /\ sess'[rows'[x].session].port = PairOf(x)
  <2>1. rows'[x] = rows[x]
    BY <1>4 DEF Renews
  <2>2. \A u \in Sessions : /\ sess'[u].status = sess[u].status
                            /\ sess'[u].device = sess[u].device
                            /\ sess'[u].port = sess[u].port
    BY <1>4 DEF Renews, TypeOK, Session
  <2> QED
    BY <1>1, <2>1, <2>2
<1> QED
  BY <1>2, <1>3, <1>4, TablesMove

-----------------------------------------------------------------------------
(* The tables implement PortLease.  The mapping reads the leases off the   *)
(* rows; LeaseInv and RowNames let the sessions alone say what they are.   *)

NobodyHas == [device |-> NoDevice, session |-> NoSession]

\* The lease on a pair is the active session with that pair, if there is one.
LeasesAreSessions ==
    \A p \in Pairs :
        /\ \A s \in Sessions :
              sess[s].status = "active" /\ sess[s].port = p =>
                  LeaseOf(p) = [device |-> sess[s].device, session |-> s]
        /\ (\A s \in Sessions : sess[s].status = "active" => sess[s].port # p)
              => LeaseOf(p) = NobodyHas

LEMMA RowsTellSessions == LeaseInv /\ RowNames => LeasesAreSessions
<1> SUFFICES ASSUME LeaseInv, RowNames, NEW p \in Pairs
             PROVE  /\ \A s \in Sessions :
                          sess[s].status = "active" /\ sess[s].port = p =>
                            LeaseOf(p) = [device |-> sess[s].device, session |-> s]
                    /\ (\A s \in Sessions :
                            sess[s].status = "active" => sess[s].port # p)
                          => LeaseOf(p) = NobodyHas
  BY DEF LeasesAreSessions
<1>1. p \in PortsOf(p) /\ p \in Ports /\ PairOf(p) = p
  BY Pairing DEF PortsOf
<1>2. ASSUME NEW s \in Sessions, sess[s].status = "active", sess[s].port = p
      PROVE  LeaseOf(p) = [device |-> sess[s].device, session |-> s]
  <2>1. rows[p] = AllocatedRow(sess[s].device, s)
    BY <1>1, <1>2 DEF LeaseInv, LeaseBacked
  <2>2. /\ rows[p].status = "allocated"
        /\ rows[p].device = sess[s].device
        /\ rows[p].session = s
    BY <2>1 DEF AllocatedRow
  <2> QED
    BY <1>2, <2>2 DEF LeaseOf
<1>3. ASSUME \A s \in Sessions : sess[s].status = "active" => sess[s].port # p
      PROVE  LeaseOf(p) = NobodyHas
  <2>1. rows[p].status = "allocated" => sess[rows[p].session].status # "active"
    BY <1>1, <1>3 DEF RowNames
  <2> QED
    BY <2>1 DEF LeaseOf, NobodyHas
<1> QED
  BY <1>2, <1>3

\* Ending sessions releases their pairs and no others.
LEMMA EndingReleases ==
    ASSUME LeaseInv, LeasesAreSessions, LeasesAreSessions',
           NEW S \in SUBSET Sessions, Ends(S)
    PROVE  Promise!LeaseNext
<1> DEFINE Q == PortsHeld(S)
           gone == {s \in Sessions : sess[s].status \in {"expired", "terminated"}}
<1>1. TypeOK
  BY DEF LeaseInv
<1>2. \A t \in S : /\ t \in Sessions
                   /\ sess[t].status = "active"
                   /\ sess[t].port \in Pairs
                   /\ LeaseOf(sess[t].port)
                         = [device |-> sess[t].device, session |-> t]
  BY DEF Ends, LeaseInv, ActiveIsBound, LeasesAreSessions
<1>3. \A t \in Sessions :
          /\ sess'[t].status = "active" <=> sess[t].status = "active" /\ t \notin S
          /\ sess'[t].device = sess[t].device
          /\ sess'[t].port = sess[t].port
          /\ t \in gone' <=> t \in gone \/ t \in S
  <2>1. \A t \in Sessions :
           /\ sess'[t].device = sess[t].device
           /\ sess'[t].port = sess[t].port
           /\ t \in S => sess'[t].status \in {"expired", "terminated"}
           /\ t \notin S => sess'[t] = sess[t]
    BY <1>1, EndsEffect
  <2> QED
    BY <2>1
<1>4. Q \in SUBSET Pairs
  BY <1>2 DEF PortsHeld
<1>5. ASSUME NEW p \in Pairs
      PROVE  LeaseOf(p)' = IF p \in Q THEN NobodyHas ELSE LeaseOf(p)
  <2>1. CASE \E t \in Sessions : sess[t].status = "active" /\ sess[t].port = p
    <3>1. PICK t \in Sessions : sess[t].status = "active" /\ sess[t].port = p
      BY <2>1
    <3>2. LeaseOf(p) = [device |-> sess[t].device, session |-> t]
      BY <3>1 DEF LeasesAreSessions
    <3>3. \A u \in Sessions : sess[u].status = "active" /\ sess[u].port = p => u = t
      BY <3>1, BackedIsExclusive DEF ExclusivePorts
    <3>4. CASE t \in S
      <4>1. p \in Q
        BY <3>1, <3>4 DEF PortsHeld
      <4>2. \A u \in Sessions : sess'[u].status = "active" => sess'[u].port # p
        BY <1>3, <3>3, <3>4
      <4> QED
        BY <4>1, <4>2 DEF LeasesAreSessions
    <3>5. CASE t \notin S
      <4>1. p \notin Q
        BY <1>2, <3>3, <3>5 DEF PortsHeld
      <4>2. LeaseOf(p)' = [device |-> sess'[t].device, session |-> t]
        BY <1>3, <3>1, <3>5 DEF LeasesAreSessions
      <4> QED
        BY <1>3, <3>2, <4>1, <4>2
    <3> QED
      BY <3>4, <3>5
  <2>2. CASE \A t \in Sessions : sess[t].status = "active" => sess[t].port # p
    <3>1. LeaseOf(p) = NobodyHas /\ LeaseOf(p)' = NobodyHas
      BY <1>3, <2>2 DEF LeasesAreSessions
    <3> QED
      BY <3>1
  <2> QED
    BY <2>1, <2>2
<1>6. gone' = gone \cup ({LeaseOf(p).session : p \in Q} \ {NoSession})
  <2>1. {LeaseOf(p).session : p \in Q} = S
    <3>1. Q = {sess[t].port : t \in S}
      BY DEF PortsHeld
    <3>2. ASSUME NEW t \in S
          PROVE  LeaseOf(sess[t].port).session = t
      <4>1. LeaseOf(sess[t].port) = [device |-> sess[t].device, session |-> t]
        BY <1>2
      <4> QED
        BY <4>1
    <3> HIDE DEF Q
    <3> QED
      BY <3>1, <3>2
  <2>2. NoSession \notin S
    BY NullAssumption
  <2>3. gone' \subseteq Sessions /\ gone \subseteq Sessions
    OBVIOUS
  <2> HIDE DEF gone, Q
  <2> QED
    BY <1>3, <2>1, <2>2, <2>3
<1>7. PICK R \in SUBSET Pairs : R = Q
  BY <1>4
<1>8. Promise!Release(R)
  <2>1. [p \in Pairs |-> LeaseOf(p)']
          = [p \in Pairs |-> IF p \in Q THEN NobodyHas
                             ELSE [q \in Pairs |-> LeaseOf(q)][p]]
    BY <1>5
  <2>2. \A p \in Q : [q \in Pairs |-> LeaseOf(q)][p].session = LeaseOf(p).session
    BY <1>4
  <2>3. {[q \in Pairs |-> LeaseOf(q)][p].session : p \in Q}
          = {LeaseOf(p).session : p \in Q}
    BY <2>2
  <2> HIDE DEF Q
  <2> QED
    BY <1>6, <1>7, <2>1, <2>3 DEF Promise!Release, Promise!NoLease, NobodyHas
<1> QED
  BY <1>8 DEF Promise!LeaseNext

\* A new session is granted a pair that was nobody's or the device's own,
\* and takes away exactly what the device held, or nothing if the cleanup
\* failed.
LEMMA OpeningGrants ==
    ASSUME LeaseInv, LeasesAreSessions, LeasesAreSessions',
           NEW d \in Devices, NEW s \in Sessions, NEW p \in Pairs,
           NEW c \in BOOLEAN, OpenSession(d, s, p, c)
    PROVE  \E Q \in SUBSET Pairs : Promise!Grant(d, s, p, Q)
<1> DEFINE A == CleanedSessions(d, c)
           mine == PortsHeld(A)
           held == {q \in Pairs : LeaseOf(q).device = d}
           gone == {t \in Sessions : sess[t].status \in {"expired", "terminated"}}
<1>1. TypeOK
  BY DEF LeaseInv
<1>2. \A t \in A : t \in Sessions /\ sess[t].status = "active" /\ sess[t].device = d
  BY DEF CleanedSessions, ActiveSessions
<1>3. sess[s].status = "unused" /\ s \notin A
  BY <1>1, <1>2, OpenSessionEffect
<1>4. /\ sess'[s].status = "active"
      /\ sess'[s].device = d
      /\ sess'[s].port = p
  <2>1. sess'[s] = NewSession(d, p)
    BY <1>1, OpenSessionEffect
  <2> QED
    BY <2>1 DEF NewSession
<1>5. \A t \in Sessions \ {s} :
          /\ t \in A => sess'[t].status = "expired"
          /\ t \notin A => sess'[t] = sess[t]
  BY <1>1, OpenSessionEffect
<1>6. \A t, u \in Sessions :
          /\ sess[t].status = "active"
          /\ sess[u].status = "active"
          /\ sess[t].port = sess[u].port
          => t = u
  BY BackedIsExclusive DEF ExclusivePorts
<1>7. \A t \in Sessions : sess[t].status = "active" /\ sess[t].port = p => t \in A
  <2> SUFFICES ASSUME NEW t \in Sessions \ A,
                      sess[t].status = "active", sess[t].port = p
               PROVE  FALSE
    OBVIOUS
  <2>1. A \in SUBSET {u \in Sessions : sess[u].status = "active"}
    BY <1>2
  <2>2. p \in PortsOf(p)
    BY DEF PortsOf
  <2>3. CleanedRows(d, c)[p] = AllocatedRow(sess[t].device, t)
    BY <2>1, <2>2, OthersKeepRows DEF CleanedRows
  <2>4. p \in CandidatePairs(CleanedRows(d, c), pref, d)
    BY DEF OpenSession, IsLowest
  <2>5. CleanedRows(d, c) \in [Ports -> Row]
    BY <1>1, FreePairsEffect DEF CleanedRows, TypeOK
  <2>6. CleanedRows(d, c)[p].status # "allocated"
    BY <2>2, <2>4, <2>5, CandidateUnallocated
  <2> QED
    BY <2>3, <2>6 DEF AllocatedRow
<1>8. \A t \in Sessions : sess[t].status = "active" =>
          /\ sess[t].port \in Pairs
          /\ LeaseOf(sess[t].port).device = sess[t].device
          /\ LeaseOf(sess[t].port).session = t
  <2> SUFFICES ASSUME NEW t \in Sessions, sess[t].status = "active"
               PROVE  /\ sess[t].port \in Pairs
                      /\ LeaseOf(sess[t].port).device = sess[t].device
                      /\ LeaseOf(sess[t].port).session = t
    OBVIOUS
  <2>1. sess[t].port \in Pairs
    BY DEF LeaseInv, ActiveIsBound
  <2>2. LeaseOf(sess[t].port) = [device |-> sess[t].device, session |-> t]
    BY <2>1 DEF LeasesAreSessions
  <2> QED
    BY <2>1, <2>2
<1>9. ASSUME NEW q \in Pairs,
             \A t \in Sessions : sess[t].status = "active" => sess[t].port # q
      PROVE  /\ LeaseOf(q) = NobodyHas
             /\ LeaseOf(q).device = NoDevice
             /\ LeaseOf(q).session = NoSession
  <2>1. LeaseOf(q) = NobodyHas
    BY <1>9 DEF LeasesAreSessions
  <2> QED
    BY <2>1 DEF NobodyHas
<1>10. LeaseOf(p) = NobodyHas \/ p \in mine
  BY <1>7, <1>9 DEF PortsHeld
<1>11. \A q \in Pairs : LeaseOf(q).session # s
  BY <1>3, <1>8, <1>9, NullAssumption
<1>12. mine \in {held, {}}
  <2>1. CASE ~c
    <3>1. mine = {}
      BY <2>1 DEF CleanedSessions, PortsHeld
    <3> QED
      BY <3>1
  <2>2. CASE c
    <3>1. A = ActiveSessions(d)
      BY <2>2 DEF CleanedSessions
    <3>2. ASSUME NEW t \in A
          PROVE  sess[t].port \in held
      BY <1>2, <1>8, <3>2
    <3>3. ASSUME NEW q \in held
          PROVE  \E t \in A : sess[t].port = q
      <4>1. LeaseOf(q).device # NoDevice
        BY NullAssumption
      <4>2. PICK t \in Sessions : sess[t].status = "active" /\ sess[t].port = q
        BY <1>9, <4>1
      <4>3. sess[t].device = d
        BY <1>8, <4>2
      <4> QED
        BY <3>1, <4>2, <4>3 DEF ActiveSessions
    <3> HIDE DEF held, A
    <3>4. mine = held
      BY <3>2, <3>3 DEF PortsHeld
    <3> QED
      BY <3>4
  <2> QED
    BY <2>1, <2>2
<1>13. ASSUME NEW q \in Pairs
       PROVE  LeaseOf(q)' = IF q = p THEN [device |-> d, session |-> s]
                            ELSE IF q \in mine THEN NobodyHas ELSE LeaseOf(q)
  <2>1. CASE q = p
    <3>1. LeaseOf(p)' = [device |-> sess'[s].device, session |-> s]
      BY <1>4 DEF LeasesAreSessions
    <3> QED
      BY <1>4, <2>1, <3>1
  <2>2. CASE q # p /\ q \in mine
    <3>1. PICK t \in A : sess[t].port = q
      BY <2>2 DEF PortsHeld
    <3>2. \A u \in Sessions : sess'[u].status = "active" => sess'[u].port # q
      BY <1>2, <1>4, <1>5, <1>6, <2>2, <3>1
    <3>3. LeaseOf(q)' = NobodyHas
      BY <3>2 DEF LeasesAreSessions
    <3> QED
      BY <2>2, <3>3
  <2>3. CASE /\ q # p /\ q \notin mine
             /\ \E t \in Sessions : sess[t].status = "active" /\ sess[t].port = q
    <3>1. PICK t \in Sessions : sess[t].status = "active" /\ sess[t].port = q
      BY <2>3
    <3>2. t \notin A /\ t # s
      BY <1>3, <2>3, <3>1 DEF PortsHeld
    <3>3. sess'[t] = sess[t]
      BY <1>5, <3>2
    <3>4. LeaseOf(q)' = [device |-> sess'[t].device, session |-> t]
      BY <3>1, <3>3 DEF LeasesAreSessions
    <3>5. LeaseOf(q) = [device |-> sess[t].device, session |-> t]
      BY <3>1 DEF LeasesAreSessions
    <3> QED
      BY <2>3, <3>3, <3>4, <3>5
  <2>4. CASE /\ q # p /\ q \notin mine
             /\ \A t \in Sessions : sess[t].status = "active" => sess[t].port # q
    <3>1. \A t \in Sessions : sess'[t].status = "active" => sess'[t].port # q
      BY <1>4, <1>5, <2>4
    <3>2. LeaseOf(q)' = NobodyHas
      BY <3>1 DEF LeasesAreSessions
    <3> QED
      BY <1>9, <2>4, <3>2
  <2> QED
    BY <2>1, <2>2, <2>3, <2>4
<1>14. gone' = gone \cup ({LeaseOf(q).session : q \in mine} \ {NoSession})
  <2>1. {LeaseOf(q).session : q \in mine} = A
    <3>1. mine = {sess[t].port : t \in A}
      BY DEF PortsHeld
    <3>2. \A t \in A : LeaseOf(sess[t].port).session = t
      BY <1>2, <1>8
    <3> HIDE DEF mine, A
    <3> QED
      BY <3>1, <3>2
  <2>2. NoSession \notin A
    BY <1>2, NullAssumption
  <2>3. gone' \subseteq Sessions /\ gone \subseteq Sessions /\ A \subseteq Sessions
    BY <1>2
  <2>4. \A t \in Sessions : t \in gone' <=> t \in gone \/ t \in A
    BY <1>3, <1>4, <1>5
  <2> HIDE DEF gone, mine, A
  <2> QED
    BY <2>1, <2>2, <2>3, <2>4
<1>15. s \notin gone
  BY <1>3
<1>16. mine \in SUBSET Pairs
  BY <1>2, <1>8 DEF PortsHeld
<1>17. PICK Q \in SUBSET Pairs : Q = mine
  BY <1>16
<1>18. Promise!Grant(d, s, p, Q)
  <2> DEFINE lease == [q \in Pairs |-> LeaseOf(q)]
  <2>1. \A q \in Pairs : lease[q] = LeaseOf(q)
    OBVIOUS
  <2>2. held = {q \in Pairs : lease[q].device = d}
    BY <2>1
  <2>3. gone' = gone \cup ({lease[q].session : q \in Q} \ {NoSession})
    <3>1. {LeaseOf(q).session : q \in Q} = {lease[q].session : q \in Q}
      BY <2>1
    <3> HIDE DEF gone, mine, lease
    <3> QED
      BY <1>14, <1>17, <3>1
  <2>4. s \notin ({lease[q].session : q \in Pairs} \ {NoSession}) \cup gone
    BY <1>11, <1>15, <2>1
  <2>5. [q \in Pairs |-> LeaseOf(q)']
          = [q \in Pairs |-> IF q = p THEN [device |-> d, session |-> s]
                             ELSE IF q \in Q THEN NobodyHas ELSE lease[q]]
    BY <1>13, <1>17, <2>1
  <2>6. lease[p] = NobodyHas \/ p \in Q
    BY <1>10, <1>17, <2>1
  <2>7. lease' = [q \in Pairs |-> LeaseOf(q)']
    OBVIOUS
  <2>8. Q \in {held, {}}
    BY <1>12, <1>17
  <2>9. Q \in {{q \in Pairs : lease[q].device = d}, {}}
    BY <2>2, <2>8
  <2> HIDE DEF mine, held, gone, lease
  <2> QED
    BY <2>3, <2>4, <2>5, <2>6, <2>7, <2>9
    DEF Promise!Grant, Promise!LeasesOf, Promise!Holders, Promise!NoLease,
        NobodyHas, lease, gone
<1> QED
  BY <1>18

\* A renewed session keeps its lease.
LEMMA RenewingStutters ==
    ASSUME LeaseInv, RowNames, NEW s \in Sessions, Renews(s)
    PROVE  UNCHANGED Promise!leaseVars
<1>1. \A t \in Sessions : sess'[t].status = sess[t].status
  BY DEF Renews, LeaseInv, TypeOK, Session
<1>2. ASSUME NEW p \in Pairs
      PROVE  LeaseOf(p)' = LeaseOf(p)
  <2>1. p \in Ports /\ rows' = rows
    BY DEF Renews, Ports
  <2>2. rows[p].status = "allocated" => rows[p].session \in Sessions
    BY <2>1 DEF RowNames
  <2> QED
    BY <1>1, <2>1, <2>2 DEF LeaseOf
<1> QED
  BY <1>1, <1>2 DEF Promise!leaseVars

\* An empty table of sessions leases nothing.
LEMMA InitPromise == Init => RowNames /\ Promise!LeaseInit
<1> SUFFICES ASSUME Init PROVE RowNames /\ Promise!LeaseInit
  OBVIOUS
<1>1. \A s \in Sessions : sess[s].status = "unused"
  BY DEF Init, Unused
<1>2. \A x \in Ports : rows[x].status # "allocated"
  BY DEF Init, InitialRows, FreeRow, ReservedRow
<1>3. RowNames
  BY <1>2 DEF RowNames
<1>4. \A p \in Pairs : LeaseOf(p) = NobodyHas
  BY <1>2 DEF LeaseOf, NobodyHas, Ports
<1> QED
  BY <1>1, <1>3, <1>4 DEF Promise!LeaseInit, Promise!NoLease, NobodyHas

\* The tables keep the lease promise for every number of devices, tokens and
\* pairs: a registration is a grant, an expiry, a refused registration and an
\* aborted start are releases, and everything else leaves the leases alone.
THEOREM TablesKeepPromise == LeaseSpec => KeepsPromise
<1>1. LeaseInv /\ RowNames /\ [LeaseNext]_vars => LeaseInv' /\ RowNames'
  <2>1. [LeaseNext]_vars => [Next]_vars
    BY DEF LeaseNext, Next
  <2> QED
    BY <2>1, StepLease, StepRowNames DEF LeaseInv
<1>2. (LeaseInv /\ RowNames => LeasesAreSessions)'
  BY RowsTellSessions, PTL
<1>3. LeaseInv /\ RowNames /\ [LeaseNext]_vars
        => [Promise!LeaseNext]_(Promise!leaseVars)
  <2> SUFFICES ASSUME LeaseInv, RowNames, [LeaseNext]_vars
               PROVE  [Promise!LeaseNext]_(Promise!leaseVars)
    OBVIOUS
  <2>1. TypeOK /\ [Next]_vars
    BY DEF LeaseInv, LeaseNext, Next
  <2>2. LeasesAreSessions /\ LeasesAreSessions'
    BY <1>1, <1>2, RowsTellSessions
  <2>3. ASSUME NEW d \in Devices, NEW s \in Sessions, NEW p \in Pairs,
               NEW c \in BOOLEAN, OpenSession(d, s, p, c)
        PROVE  Promise!LeaseNext
    <3>1. \E Q \in SUBSET Pairs : Promise!Grant(d, s, p, Q)
      BY <2>2, <2>3, OpeningGrants
    <3> QED
      BY <3>1 DEF Promise!LeaseNext
  <2>4. ASSUME NEW S \in SUBSET Sessions, Ends(S)
        PROVE  Promise!LeaseNext
    BY <2>2, <2>4, EndingReleases
  <2>5. ASSUME NEW s \in Sessions, Renews(s)
        PROVE  UNCHANGED Promise!leaseVars
    BY <2>5, RenewingStutters
  <2> QED
    BY <2>1, <2>3, <2>4, <2>5, TablesMove
<1> QED
  BY <1>1, <1>3, InitLease, InitPromise, PTL
  DEF LeaseSpec, KeepsPromise, Promise!LeaseSpec

-----------------------------------------------------------------------------
(* The tables with disconnect requests, sections that stop half way and     *)
(* crashes                                                                  *)

\* The inductive invariant.
TablesInv ==
    /\ TypeOK
    /\ pref \in Preferences
    /\ RowNames
    /\ OneSessionPerDevice
    /\ PairRowsAgree
    /\ OrderlyTables

\* The history variables restrict nothing.
LEMMA TablesNextIsNext == [TablesNext]_tableVars => [Next]_vars
<1>1. Registering => Sound
  BY DEF Registering, OpensBeside, OpensAlone, Sound
<1>2. Unregistered => Sound
  BY DEF Unregistered, Sound
<1> QED
  BY <1>1, <1>2 DEF TablesNext, Next, tableVars

\* No action changes preferred_port.
LEMMA PreferenceKept == [Next]_vars => pref' = pref
BY DEF Next, Sound, Opens, Serving, Disconnect, AbortBroken,
       DisconnectBroken, Register, RegisterBroken, Authenticate, RegisterRefused, TunnelStarted,
       TunnelFailed, AbortSession, Heartbeat, CleanupExpired, Lapse, Crash,
       Connect, DisconnectBegin, DisconnectCommit, vars

-----------------------------------------------------------------------------
(* Types *)

\* The tables of sessions and of ports stay well formed.
LEMMA TablesTyped ==
    ASSUME TypeOK, [Next]_vars, rows' \in [Ports -> Row]
    PROVE  sess' \in [Sessions -> Session]
<1>1. sess \in [Sessions -> Session]
  BY DEF TypeOK
<1>2. ASSUME NEW d \in Devices, NEW s \in Sessions, NEW p \in Pairs,
             NEW c \in BOOLEAN, OpenSession(d, s, p, c)
      PROVE  sess' \in [Sessions -> Session]
  <2>1. EndSessions(CleanedSessions(d, c), "expired") \in [Sessions -> Session]
    BY <1>1 DEF EndSessions, Session
  <2>2. NewSession(d, p) \in Session
    BY DEF NewSession, Session
  <2> QED
    BY <1>2, <2>1, <2>2 DEF OpenSession
<1>3. ASSUME NEW S, Ends(S)
      PROVE  sess' \in [Sessions -> Session]
  <2>1. PICK status \in {"expired", "terminated"} : sess' = EndSessions(S, status)
    BY <1>3 DEF Ends
  <2> QED
    BY <1>1, <2>1 DEF EndSessions, Session
<1>4. ASSUME NEW s \in Sessions, Renews(s)
      PROVE  sess' \in [Sessions -> Session]
  <2>1. PICK b \in BOOLEAN : sess' = [sess EXCEPT ![s].lapsed = b]
    BY <1>4 DEF Renews
  <2> QED
    BY <1>1, <2>1 DEF Session
<1> QED
  BY <1>2, <1>3, <1>4, TablesMove

\* A new session leaves a well-formed port_allocations.
LEMMA OpenedRows ==
    ASSUME TypeOK, NEW d \in Devices, NEW s \in Sessions, NEW p \in Pairs,
           NEW c \in BOOLEAN, OpenSession(d, s, p, c)
    PROVE  rows' \in [Ports -> Row]
<1>1. CleanedRows(d, c) \in [Ports -> Row]
  BY FreePairsEffect DEF CleanedRows, TypeOK
<1>2. AllocatedRow(d, s) \in Row
  BY DEF AllocatedRow, Row
<1> QED
  BY <1>1, <1>2 DEF OpenSession, AllocatePair

\* Every step keeps the types.
LEMMA StepTypes == TypeOK /\ [Next]_vars => TypeOK'
<1> SUFFICES ASSUME TypeOK, [Next]_vars PROVE TypeOK'
  OBVIOUS
<1> DEFINE Typed == /\ devStatus' \in [Devices -> DeviceStatus]
                    /\ devPort' \in [Devices -> Pairs \cup {NoPort}]
                    /\ ctl' \in Control
                    /\ rows' \in [Ports -> Row]
<1> SUFFICES Typed
  BY PreferenceKept, TablesTyped DEF TypeOK
<1>0. Idle \in Control
  BY DEF Idle, Control
<1>1. ASSUME NEW d \in Devices, NEW s \in Sessions, NEW p \in Pairs,
             NEW c \in BOOLEAN, Register(d, s, p, c)
      PROVE  Typed
  <2>1. rows' \in [Ports -> Row]
    BY <1>1, OpenedRows DEF Register
  <2>2. ctl' \in Control
    BY <1>1 DEF Register, Control
  <2>3. devStatus' \in [Devices -> DeviceStatus]
    BY <1>1 DEF Register, TypeOK, DeviceStatus
  <2>4. devPort' \in [Devices -> Pairs \cup {NoPort}]
    BY <1>1 DEF Register, TypeOK
  <2> QED
    BY <2>1, <2>2, <2>3, <2>4
<1>2. ASSUME NEW d \in Devices, NEW s \in Sessions, NEW p \in Pairs,
             NEW c \in BOOLEAN, RegisterBroken(d, s, p, c)
      PROVE  Typed
  <2>1. rows' \in [Ports -> Row]
    BY <1>2, OpenedRows DEF RegisterBroken
  <2> QED
    BY <1>0, <1>2, <2>1 DEF RegisterBroken, TypeOK
<1>3. ASSUME NEW d \in Devices, Authenticate(d) \/ DisconnectBegin(d)
      PROVE  Typed
  BY <1>3 DEF Authenticate, DisconnectBegin, TypeOK, Control
<1>4. ASSUME NEW d \in Devices, NEW c \in BOOLEAN, RegisterRefused(d, c)
      PROVE  Typed
  <2>1. rows' \in [Ports -> Row]
    BY <1>4, FreePairsEffect DEF RegisterRefused, CleanedRows, TypeOK
  <2> QED
    BY <1>0, <1>4, <2>1 DEF RegisterRefused, TypeOK
<1>5. CASE TunnelStarted \/ Crash
  BY <1>0, <1>5 DEF TunnelStarted, Crash, TypeOK
<1>6. CASE TunnelFailed
  <2>1. ctl.session \in Sessions
    BY <1>6 DEF TunnelFailed, TypeOK, Control
  <2>2. ctl' \in Control
    BY <1>0, <1>6, <2>1 DEF TunnelFailed, Control
  <2> QED
    BY <1>6, <2>2 DEF TunnelFailed, TypeOK
<1>7. ASSUME NEW freed \in BOOLEAN, AbortSession(freed)
      PROVE  Typed
  <2>1. rows' \in [Ports -> Row]
    BY <1>7, FreePairsEffect DEF AbortSession, TypeOK
  <2> QED
    BY <1>0, <1>7, <2>1 DEF AbortSession, TypeOK
<1>8. ASSUME NEW s \in Sessions, NEW u \in BOOLEAN, Heartbeat(s, u)
      PROVE  Typed
  BY <1>8 DEF Heartbeat, TypeOK, DeviceStatus
<1>9. CASE CleanupExpired
  <2>1. rows' \in [Ports -> Row]
    BY <1>9, CleanupEnds
  <2>2. devStatus' \in [Devices -> DeviceStatus]
    BY <1>9 DEF CleanupExpired, TypeOK, DeviceStatus
  <2>3. devPort' \in [Devices -> Pairs \cup {NoPort}]
    BY <1>9 DEF CleanupExpired, TypeOK
  <2>4. ctl' \in Control
    BY <1>9 DEF CleanupExpired, TypeOK
  <2> QED
    BY <2>1, <2>2, <2>3, <2>4
<1>10. ASSUME NEW s \in Sessions, Lapse(s)
       PROVE  Typed
  BY <1>10 DEF Lapse, TypeOK
<1>11. ASSUME NEW d \in Devices, NEW r \in BOOLEAN, Connect(d, r)
       PROVE  Typed
  BY <1>11 DEF Connect, TypeOK, DeviceStatus
<1>12. ASSUME NEW freed \in BOOLEAN, NEW deactivated \in BOOLEAN,
              DisconnectCommit(freed, deactivated)
       PROVE  Typed
  <2>1. rows' \in [Ports -> Row]
    BY <1>12, FreePairsEffect DEF DisconnectCommit, TypeOK
  <2>2. devStatus' \in [Devices -> DeviceStatus]
    BY <1>12 DEF DisconnectCommit, TypeOK, DeviceStatus
  <2>3. devPort' \in [Devices -> Pairs \cup {NoPort}]
    BY <1>12 DEF DisconnectCommit, TypeOK
  <2>4. ctl' \in Control
    BY <1>0, <1>12 DEF DisconnectCommit
  <2> QED
    BY <2>1, <2>2, <2>3, <2>4
<1>13. CASE UNCHANGED vars
  BY <1>13 DEF vars, TypeOK
<1> HIDE DEF Typed
<1>14. CASE Sound
  BY <1>1, <1>2, <1>3, <1>4, <1>5, <1>6, <1>7, <1>8, <1>9, <1>10, <1>11, <1>14
  DEF Sound, Opens, Serving
<1>15. CASE Disconnect \/ AbortBroken \/ DisconnectBroken
  BY <1>3, <1>7, <1>12, <1>15 DEF Disconnect, AbortBroken, DisconnectBroken
<1> QED
  BY <1>13, <1>14, <1>15 DEF Next

-----------------------------------------------------------------------------
(* Sessions *)

\* Only a registration opens a session.
LEMMA NoneOpened ==
    ASSUME TypeOK, NEW s \in Sessions, sess[s].status = "unused",
           \/ Serving \/ Disconnect \/ AbortBroken \/ DisconnectBroken
           \/ \E d \in Devices, c \in BOOLEAN : RegisterRefused(d, c)
           \/ UNCHANGED vars
    PROVE  sess'[s].status = "unused"
<1>1. ASSUME NEW S \in SUBSET {t \in Sessions : sess[t].status = "active"},
             NEW status, sess' = EndSessions(S, status)
      PROVE  sess'[s].status = "unused"
  BY <1>1 DEF EndSessions
<1>2. ASSUME NEW t \in Sessions, NEW b, sess' = [sess EXCEPT ![t].lapsed = b]
      PROVE  sess'[s].status = "unused"
  BY <1>2 DEF TypeOK, Session
<1>3. ASSUME NEW d \in Devices, NEW c \in BOOLEAN, RegisterRefused(d, c)
      PROVE  sess'[s].status = "unused"
  <2>1. sess' = EndSessions(CleanedSessions(d, c), "expired")
    BY <1>3 DEF RegisterRefused
  <2>2. CleanedSessions(d, c) \in SUBSET {t \in Sessions : sess[t].status = "active"}
    BY DEF CleanedSessions, ActiveSessions
  <2> QED
    BY <1>1, <2>1, <2>2
<1>4. ASSUME NEW freed \in BOOLEAN, AbortSession(freed)
      PROVE  sess'[s].status = "unused"
  BY <1>1, <1>4 DEF AbortSession
<1>5. ASSUME NEW freed \in BOOLEAN, NEW deactivated \in BOOLEAN,
             DisconnectCommit(freed, deactivated)
      PROVE  sess'[s].status = "unused"
  <2>1. sess' = EndSessions(ActiveSessions(ctl.device), "terminated")
    BY <1>5 DEF DisconnectCommit
  <2>2. ActiveSessions(ctl.device)
            \in SUBSET {t \in Sessions : sess[t].status = "active"}
    BY DEF ActiveSessions
  <2> QED
    BY <1>1, <2>1, <2>2
<1>6. CASE CleanupExpired
  <2> DEFINE S == {t \in Sessions : sess[t].status = "active" /\ sess[t].lapsed}
  <2>1. sess' = EndSessions(S, "expired")
    BY <1>6 DEF CleanupExpired
  <2>2. S \in SUBSET {t \in Sessions : sess[t].status = "active"}
    OBVIOUS
  <2> HIDE DEF S
  <2> QED
    BY <1>1, <2>1, <2>2
<1>7. ASSUME NEW t \in Sessions, NEW u \in BOOLEAN, Heartbeat(t, u) \/ Lapse(t)
      PROVE  sess'[s].status = "unused"
  BY <1>2, <1>7 DEF Heartbeat, Lapse
<1>8. CASE \/ \E d \in Devices : Authenticate(d) \/ DisconnectBegin(d)
           \/ \E d \in Devices, r \in BOOLEAN : Connect(d, r)
           \/ TunnelStarted \/ TunnelFailed \/ Crash
           \/ UNCHANGED vars
  BY <1>8 DEF Authenticate, DisconnectBegin, Connect, TunnelStarted,
              TunnelFailed, Crash, vars
<1>9. CASE Serving
  BY <1>4, <1>6, <1>7, <1>8, <1>9 DEF Serving
<1>10. CASE Disconnect \/ AbortBroken \/ DisconnectBroken
  BY <1>4, <1>5, <1>8, <1>10 DEF Disconnect, AbortBroken, DisconnectBroken
<1> QED
  BY <1>3, <1>8, <1>9, <1>10

\* A device that is not in doubled after a step has seen its old sessions end
\* in it, or had none, or it was not in doubled before and opened no session.
LEMMA StepDoubled ==
    ASSUME TypeOK, [TablesNext]_tableVars, NEW d \in Devices, d \notin doubled'
    PROVE  \/ \A s \in ActiveSessions(d) : sess'[s].status # "active"
           \/ /\ d \notin doubled
              /\ \A s \in Sessions, p \in Pairs, c \in BOOLEAN :
                    ~OpenSession(d, s, p, c)
<1> DEFINE Ended == \A s \in ActiveSessions(d) : sess'[s].status # "active"
           None == \A s \in Sessions, p \in Pairs, c \in BOOLEAN :
                       ~OpenSession(d, s, p, c)
<1>1. ASSUME NEW s \in Sessions, NEW p \in Pairs, OpenSession(d, s, p, TRUE)
      PROVE  Ended
  <2>1. /\ sess[s].status = "unused"
        /\ \A t \in Sessions \ {s} :
              t \in CleanedSessions(d, TRUE) => sess'[t].status = "expired"
    BY <1>1, OpenSessionEffect
  <2> QED
    BY <2>1 DEF CleanedSessions, ActiveSessions
<1>2. ASSUME NEW status \in {"expired", "terminated"},
             sess' = EndSessions(ActiveSessions(d), status)
      PROVE  Ended
  <2> SUFFICES ASSUME NEW s \in ActiveSessions(d)
               PROVE  sess'[s].status # "active"
    OBVIOUS
  <2>1. s \in Sessions /\ sess[s] \in Session
    BY DEF ActiveSessions, TypeOK
  <2>2. sess'[s] = [sess[s] EXCEPT !.status = status, !.lapsed = TRUE]
    BY <1>2, <2>1 DEF EndSessions
  <2> QED
    BY <2>1, <2>2 DEF Session
<1>3. ASSUME NEW e \in Devices, e # d, NEW t \in Sessions, NEW q \in Pairs,
             NEW b \in BOOLEAN, OpenSession(e, t, q, b)
      PROVE  None
  BY <1>3 DEF OpenSession, Authenticated
<1>4. ASSUME \/ Serving \/ Disconnect \/ AbortBroken \/ DisconnectBroken
             \/ \E e \in Devices, b \in BOOLEAN : RegisterRefused(e, b)
             \/ UNCHANGED vars
      PROVE  None
  <2> SUFFICES ASSUME NEW s \in Sessions, NEW p \in Pairs, NEW c \in BOOLEAN,
                      OpenSession(d, s, p, c)
               PROVE  FALSE
    OBVIOUS
  <2>1. sess[s].status = "unused" /\ sess'[s] = NewSession(d, p)
    BY OpenSessionEffect
  <2>2. sess'[s].status = "unused"
    BY <1>4, <2>1, NoneOpened
  <2> QED
    BY <2>1, <2>2 DEF NewSession
<1>5. ASSUME NEW e \in Devices, NEW b \in BOOLEAN, Opens(e, b)
      PROVE  \E s \in Sessions, p \in Pairs : OpenSession(e, s, p, b)
  BY <1>5 DEF Opens, Register, RegisterBroken
<1> HIDE DEF None
<1>6. ASSUME NEW e \in Devices, OpensBeside(e)
      PROVE  Ended \/ (d \notin doubled /\ None)
  <2>1. CASE e = d
    BY <1>6, <2>1 DEF OpensBeside
  <2>2. CASE e # d
    BY <1>3, <1>5, <1>6, <2>2 DEF OpensBeside
  <2> QED
    BY <2>1, <2>2
<1> HIDE DEF Ended
<1>7. ASSUME NEW e \in Devices, OpensAlone(e)
      PROVE  Ended \/ (d \notin doubled /\ None)
  <2>1. CASE e = d /\ Opens(e, TRUE)
    BY <1>1, <1>5, <2>1
  <2>2. CASE e = d /\ RegisterRefused(e, TRUE)
    BY <1>2, <2>2 DEF RegisterRefused, CleanedSessions
  <2>3. CASE e # d /\ Opens(e, TRUE)
    <3>1. d \notin doubled
      BY <1>7, <2>3 DEF OpensAlone
    <3>2. None
      BY <1>3, <1>5, <2>3
    <3> QED
      BY <3>1, <3>2
  <2>4. CASE e # d /\ RegisterRefused(e, TRUE)
    BY <1>4, <1>7, <2>4 DEF OpensAlone
  <2> QED
    BY <1>7, <2>1, <2>2, <2>3, <2>4 DEF OpensAlone
<1>8. ASSUME \/ Unregistered
             \/ AbortBroken /\ UNCHANGED doubled
             \/ UNCHANGED tableVars
      PROVE  d \notin doubled /\ None
  <2>1. doubled' = doubled
    BY <1>8 DEF Unregistered, tableVars
  <2>2. None
    BY <1>4, <1>8 DEF Unregistered, tableVars
  <2> QED
    BY <2>1, <2>2
<1>9. ASSUME Disconnect \/ DisconnectBroken, Disconnecting
      PROVE  Ended \/ (d \notin doubled /\ None)
  <2>1. CASE d \notin doubled
    BY <1>4, <1>9, <2>1
  <2>2. CASE d \in doubled
    <3>1. ctl.op = "stop" /\ d = ctl.device
      BY <1>9, <2>2 DEF Disconnecting
    <3>2. \A e \in Devices : ~DisconnectBegin(e)
      BY <3>1 DEF DisconnectBegin, Idle
    <3>3. sess' = EndSessions(ActiveSessions(d), "terminated")
      BY <1>9, <3>1, <3>2 DEF Disconnect, DisconnectBroken, DisconnectCommit
    <3> QED
      BY <1>2, <3>3
  <2> QED
    BY <2>1, <2>2
<1>10. Ended \/ (d \notin doubled /\ None)
  BY <1>6, <1>7, <1>8, <1>9 DEF TablesNext, Registering
<1> QED
  BY <1>10 DEF Ended, None

\* A second session is opened only beside a failed cleanup.
LEMMA StepOneSession ==
    TypeOK /\ OneSessionPerDevice /\ [TablesNext]_tableVars
        => OneSessionPerDevice'
<1> SUFFICES ASSUME TypeOK, OneSessionPerDevice, [TablesNext]_tableVars,
                    NEW d \in Devices, d \notin doubled',
                    NEW s \in Sessions, NEW t \in Sessions,
                    sess'[s].status = "active", sess'[s].device = d,
                    sess'[t].status = "active", sess'[t].device = d
             PROVE  s = t
  BY DEF OneSessionPerDevice, ActiveSessions
<1>1. [Next]_vars
  BY TablesNextIsNext
<1>2. \/ \A u \in ActiveSessions(d) : sess'[u].status # "active"
      \/ /\ d \notin doubled
         /\ \A u \in Sessions, p \in Pairs, c \in BOOLEAN :
               ~OpenSession(d, u, p, c)
  BY StepDoubled
<1>3. d \notin doubled => \A u, v \in ActiveSessions(d) : u = v
  BY DEF OneSessionPerDevice
<1>4. ASSUME \A u \in {s, t} : u \in ActiveSessions(d)
      PROVE  s = t
  BY <1>2, <1>3, <1>4
<1>5. ASSUME NEW e \in Devices, NEW n \in Sessions, NEW p \in Pairs,
             NEW c \in BOOLEAN, OpenSession(e, n, p, c)
      PROVE  s = t
  <2>1. sess'[n] = NewSession(e, p)
    BY <1>5, OpenSessionEffect
  <2>2. sess'[n].device = e
    BY <2>1 DEF NewSession
  <2>3. \A u \in Sessions \ {n} : sess'[u].status = "active" =>
            sess'[u] = sess[u] /\ sess[u].status = "active"
    BY <1>5, OpenSessionEffect DEF CleanedSessions, ActiveSessions
  <2>4. \A u \in {s, t} \ {n} : u \in ActiveSessions(d)
    BY <2>3 DEF ActiveSessions
  <2>5. CASE e # d
    BY <1>4, <2>2, <2>4, <2>5
  <2>6. CASE e = d
    BY <1>2, <1>5, <2>4, <2>6
  <2> QED
    BY <2>5, <2>6
<1>6. ASSUME NEW S, Ends(S)
      PROVE  s = t
  <2>1. \A u \in {s, t} : sess'[u] = sess[u]
    BY <1>6, EndsEffect
  <2> QED
    BY <1>4, <2>1 DEF ActiveSessions
<1>7. ASSUME NEW n \in Sessions, Renews(n)
      PROVE  s = t
  <2>1. \A u \in Sessions : /\ sess'[u].status = sess[u].status
                            /\ sess'[u].device = sess[u].device
    BY <1>7 DEF Renews, TypeOK, Session
  <2> QED
    BY <1>4, <2>1 DEF ActiveSessions
<1> QED
  BY <1>1, <1>5, <1>6, <1>7, TablesMove

\* A step changes only sessions that are active and the one it opens.
LEMMA StepEnded ==
    ASSUME TypeOK, [Next]_vars, NEW s \in Sessions,
           sess[s].status \in {"expired", "terminated"}
    PROVE  sess'[s] = sess[s]
<1>1. ASSUME NEW d \in Devices, NEW n \in Sessions, NEW p \in Pairs,
             NEW c \in BOOLEAN, OpenSession(d, n, p, c)
      PROVE  sess'[s] = sess[s]
  BY <1>1, OpenSessionEffect DEF CleanedSessions, ActiveSessions
<1>2. ASSUME NEW S, Ends(S)
      PROVE  sess'[s] = sess[s]
  BY <1>2, EndsEffect
<1>3. ASSUME NEW n \in Sessions, Renews(n)
      PROVE  sess'[s] = sess[s]
  <2>1. n # s
    BY <1>3 DEF Renews
  <2>2. PICK b \in BOOLEAN : sess' = [sess EXCEPT ![n].lapsed = b]
    BY <1>3 DEF Renews
  <2> QED
    BY <2>1, <2>2 DEF TypeOK
<1> QED
  BY <1>1, <1>2, <1>3, TablesMove

-----------------------------------------------------------------------------
(* Rows *)

\* Whatever a step does to port_allocations is one of these.
LEMMA RowsMove ==
    ASSUME TypeOK, [Next]_vars
    PROVE  \/ UNCHANGED rows
           \/ CleanupExpired
           \/ \E d \in Devices, s \in Sessions, p \in Pairs,
                 c \in BOOLEAN : OpenSession(d, s, p, c)
           \/ \E Q : rows' = FreePairs(rows, pref, Q)
<1>1. ASSUME NEW d \in Devices, NEW c \in BOOLEAN, RegisterRefused(d, c)
      PROVE  rows' = FreePairs(rows, pref, PortsHeld(CleanedSessions(d, c)))
  BY <1>1 DEF RegisterRefused, CleanedRows
<1>2. ASSUME NEW freed \in BOOLEAN, AbortSession(freed)
      PROVE  \/ UNCHANGED rows
             \/ rows' = FreePairs(rows, pref, {sess[ctl.session].port})
  BY <1>2 DEF AbortSession
<1>3. ASSUME NEW freed \in BOOLEAN, NEW deactivated \in BOOLEAN,
             DisconnectCommit(freed, deactivated)
      PROVE  \/ UNCHANGED rows
             \/ rows' = FreePairs(rows, pref,
                    PortsHeld({s \in Sessions : sess[s].device = ctl.device}))
  BY <1>3 DEF DisconnectCommit
<1>4. ASSUME NEW d \in Devices, NEW s \in Sessions, NEW p \in Pairs,
             NEW c \in BOOLEAN,
             Register(d, s, p, c) \/ RegisterBroken(d, s, p, c)
      PROVE  OpenSession(d, s, p, c)
  BY <1>4 DEF Register, RegisterBroken
<1>5. CASE \/ \E d \in Devices : Authenticate(d) \/ DisconnectBegin(d)
           \/ \E d \in Devices, r \in BOOLEAN : Connect(d, r)
           \/ \E s \in Sessions, u \in BOOLEAN : Heartbeat(s, u)
           \/ \E s \in Sessions : Lapse(s)
           \/ TunnelStarted \/ TunnelFailed \/ Crash
           \/ UNCHANGED vars
  BY <1>5 DEF Authenticate, DisconnectBegin, Connect, Heartbeat, Lapse,
              TunnelStarted, TunnelFailed, Crash, vars
<1>6. CASE Sound
  BY <1>1, <1>2, <1>4, <1>5, <1>6 DEF Sound, Opens, Serving
<1>7. CASE Disconnect \/ AbortBroken \/ DisconnectBroken
  BY <1>2, <1>3, <1>5, <1>7 DEF Disconnect, AbortBroken, DisconnectBroken
<1> QED
  BY <1>5, <1>6, <1>7 DEF Next

\* Freeing pairs treats the two ports of a pair alike.
LEMMA FreeingAgrees ==
    ASSUME PairRowsAgree, NEW Q, NEW p \in Pairs
    PROVE  FreePairs(rows, pref, Q)[p] = FreePairs(rows, pref, Q)[p + 1]
<1>1. /\ p \in Ports /\ p + 1 \in Ports
      /\ PairOf(p) = p /\ PairOf(p + 1) = p
  BY Pairing DEF PortsOf
<1>2. rows[p] = rows[p + 1]
  BY DEF PairRowsAgree
<1> QED
  BY <1>1, <1>2 DEF FreePairs

\* Every step does.
LEMMA StepPairRows ==
    TypeOK /\ PairRowsAgree /\ [Next]_vars => PairRowsAgree'
<1> SUFFICES ASSUME TypeOK, PairRowsAgree, [Next]_vars, NEW p \in Pairs
             PROVE  rows'[p] = rows'[p + 1]
  BY DEF PairRowsAgree
<1>1. /\ p \in Ports /\ p + 1 \in Ports
      /\ PairOf(p) = p /\ PairOf(p + 1) = p
      /\ PortsOf(p) = {p, p + 1}
  BY Pairing DEF PortsOf
<1>2. CASE UNCHANGED rows
  BY <1>2 DEF PairRowsAgree
<1>3. ASSUME NEW d \in Devices, NEW s \in Sessions, NEW q \in Pairs,
             NEW c \in BOOLEAN, OpenSession(d, s, q, c)
      PROVE  rows'[p] = rows'[p + 1]
  <2>1. CleanedRows(d, c)[p] = CleanedRows(d, c)[p + 1]
    BY FreeingAgrees DEF CleanedRows
  <2>2. CASE p = q
    BY <1>1, <1>3, <2>2, OpenSessionEffect
  <2>3. CASE p # q
    <3>1. p \notin PortsOf(q) /\ p + 1 \notin PortsOf(q)
      BY <1>1, <2>3, Pairing
    <3> QED
      BY <1>1, <1>3, <2>1, <3>1, OpenSessionEffect
  <2> QED
    BY <2>2, <2>3
<1>4. ASSUME NEW Q, rows' = FreePairs(rows, pref, Q)
      PROVE  rows'[p] = rows'[p + 1]
  BY <1>4, FreeingAgrees
<1>5. CASE CleanupExpired
  <2> DEFINE S == {s \in Sessions : sess[s].status = "active" /\ sess[s].lapsed}
             freed == FreePairs(rows, pref, PortsHeld(S))
             covered(x) == \E s \in Sessions : Live(s) /\ sess[s].port = PairOf(x)
  <2>1. rows' = [x \in Ports |->
                   IF freed[x].status = "allocated" /\ ~covered(x)
                   THEN FreeRow ELSE freed[x]]
    BY <1>5 DEF CleanupExpired
  <2>2. freed[p] = freed[p + 1]
    BY FreeingAgrees
  <2>3. covered(p) = covered(p + 1)
    BY <1>1
  <2> HIDE DEF freed, covered
  <2> QED
    BY <1>1, <2>1, <2>2, <2>3
<1> QED
  BY <1>2, <1>3, <1>4, <1>5, RowsMove

-----------------------------------------------------------------------------
(* Sections that are not cut short *)

\* A fixed port has one owner (idx_devices_preferred_port).
LEMMA OnePreference ==
    ASSUME pref \in Preferences, NEW d \in Devices, pref[d] # NoPort
    PROVE  /\ pref[d] \in Pairs
           /\ \A e \in Devices : pref[e] = pref[d] => e = d
           /\ (CHOOSE e \in Devices : pref[e] = pref[d]) = d
BY DEF Preferences

\* free_device_port_pair gives a fixed port back to its device.
LEMMA FreeingKeepsFixed ==
    ASSUME TypeOK, pref \in Preferences, FixedPortKept, NEW Q,
           NEW d \in Devices, pref[d] # NoPort, NEW x \in PortsOf(pref[d])
    PROVE  FreePairs(rows, pref, Q)[x].device = d
<1>1. pref[d] \in Pairs /\ (CHOOSE e \in Devices : pref[e] = pref[d]) = d
  BY OnePreference
<1>2. x \in Ports /\ PairOf(x) = pref[d]
  BY <1>1, Pairing
<1>3. rows[x].device = d
  BY DEF FixedPortKept
<1>4. ReservedRow(d).device = d
  BY DEF ReservedRow
<1>5. FreePairs(rows, pref, Q)[x] =
        IF PairOf(x) \in Q
        THEN IF \E e \in Devices : pref[e] = PairOf(x)
             THEN ReservedRow(CHOOSE e \in Devices : pref[e] = PairOf(x))
             ELSE FreeRow
        ELSE IF rows[x].status = "reserved" /\ rows[x].device \in Devices
                    /\ pref[rows[x].device] \in Q
             THEN FreeRow
             ELSE rows[x]
  BY <1>2 DEF FreePairs
<1> QED
  BY <1>1, <1>2, <1>3, <1>4, <1>5

\* What an orderly step does: a session that ends has its pair freed in the
\* same section.
LEMMA OrderlyMove ==
    ASSUME TypeOK, [OrderlyNext]_vars
    PROVE  \/ \E d \in Devices, s \in Sessions, p \in Pairs,
                 c \in BOOLEAN : OpenSession(d, s, p, c)
           \/ \E s \in Sessions : Renews(s)
           \/ UNCHANGED <<sess, rows>>
           \/ CleanupExpired
           \/ \E S, Q : /\ Ends(S)
                        /\ PortsHeld(S) \subseteq Q
                        /\ rows' = FreePairs(rows, pref, Q)
<1>1. ASSUME NEW d \in Devices, NEW c \in BOOLEAN, RegisterRefused(d, c)
      PROVE  \E S, Q : /\ Ends(S)
                       /\ PortsHeld(S) \subseteq Q
                       /\ rows' = FreePairs(rows, pref, Q)
  <2>1. CleanedSessions(d, c) \in SUBSET {s \in Sessions : sess[s].status = "active"}
    BY DEF CleanedSessions, ActiveSessions
  <2>2. rows' = FreePairs(rows, pref, PortsHeld(CleanedSessions(d, c)))
    BY <1>1 DEF RegisterRefused, CleanedRows
  <2>3. sess' = EndSessions(CleanedSessions(d, c), "expired")
    BY <1>1 DEF RegisterRefused
  <2>4. Ends(CleanedSessions(d, c))
    BY <2>1, <2>2, <2>3, FreeingEnds
  <2> QED
    BY <2>2, <2>4
<1>2. CASE AbortSession(TRUE)
  <2> DEFINE S == {ctl.session} \cap {s \in Sessions : sess[s].status = "active"}
             Q == {sess[ctl.session].port}
  <2>1. rows' = FreePairs(rows, pref, Q) /\ sess' = EndSessions(S, "terminated")
    BY <1>2 DEF AbortSession
  <2>2. PortsHeld(S) \subseteq Q
    BY DEF PortsHeld
  <2>3. S \in SUBSET {s \in Sessions : sess[s].status = "active"}
    OBVIOUS
  <2> HIDE DEF S, Q
  <2>4. Ends(S)
    BY <2>1, <2>3, FreeingEnds
  <2> QED
    BY <2>1, <2>2, <2>4
<1>3. CASE DisconnectCommit(TRUE, TRUE)
  <2> DEFINE S == ActiveSessions(ctl.device)
             Q == PortsHeld({s \in Sessions : sess[s].device = ctl.device})
  <2>1. rows' = FreePairs(rows, pref, Q) /\ sess' = EndSessions(S, "terminated")
    BY <1>3 DEF DisconnectCommit
  <2>2. PortsHeld(S) \subseteq Q
    BY DEF PortsHeld, ActiveSessions
  <2>3. S \in SUBSET {s \in Sessions : sess[s].status = "active"}
    BY DEF ActiveSessions
  <2> HIDE DEF S, Q
  <2>4. Ends(S)
    BY <2>1, <2>3, FreeingEnds
  <2> QED
    BY <2>1, <2>2, <2>4
<1>4. ASSUME NEW d \in Devices, NEW s \in Sessions, NEW p \in Pairs,
             NEW c \in BOOLEAN,
             Register(d, s, p, c) \/ RegisterBroken(d, s, p, c)
      PROVE  OpenSession(d, s, p, c)
  BY <1>4 DEF Register, RegisterBroken
<1>5. ASSUME NEW s \in Sessions, NEW u \in BOOLEAN, Heartbeat(s, u) \/ Lapse(s)
      PROVE  Renews(s)
  BY <1>5 DEF Heartbeat, Lapse, Live, Renews
<1>6. CASE \/ \E d \in Devices : Authenticate(d) \/ DisconnectBegin(d)
           \/ \E d \in Devices, r \in BOOLEAN : Connect(d, r)
           \/ TunnelStarted \/ TunnelFailed \/ Crash
           \/ UNCHANGED vars
  BY <1>6 DEF Authenticate, DisconnectBegin, Connect, TunnelStarted,
              TunnelFailed, Crash, vars
<1>7. CASE Sound
  BY <1>1, <1>2, <1>4, <1>5, <1>6, <1>7 DEF Sound, Opens, Serving
<1>8. CASE Disconnect
  BY <1>3, <1>6, <1>8 DEF Disconnect
<1> QED
  BY <1>6, <1>7, <1>8 DEF OrderlyNext

\* A fixed port stays with its device.
LEMMA StepFixed ==
    ASSUME TypeOK, pref \in Preferences, FixedPortKept, NoOrphanRow, RowNames,
           [OrderlyNext]_vars
    PROVE  FixedPortKept'
<1>1. [Next]_vars
  BY DEF OrderlyNext, Next
<1> SUFFICES ASSUME NEW d \in Devices, pref[d] # NoPort,
                    NEW x \in PortsOf(pref[d])
             PROVE  rows'[x].device = d
  BY <1>1, PreferenceKept DEF FixedPortKept
<1>2. pref[d] \in Pairs /\ \A e \in Devices : pref[e] = pref[d] => e = d
  BY OnePreference
<1>3. x \in Ports /\ PairOf(x) = pref[d] /\ rows[x].device = d
  BY <1>2, Pairing DEF FixedPortKept
<1>4. ASSUME NEW e \in Devices, NEW s \in Sessions, NEW p \in Pairs,
             NEW c \in BOOLEAN, OpenSession(e, s, p, c)
      PROVE  rows'[x].device = d
  <2>1. CleanedRows(e, c)[x].device = d
    BY FreeingKeepsFixed DEF CleanedRows
  <2>2. CASE x \notin PortsOf(p)
    <3>1. rows'[x] = CleanedRows(e, c)[x]
      BY <1>3, <1>4, <2>2, OpenSessionEffect
    <3> QED
      BY <2>1, <3>1
  <2>3. CASE x \in PortsOf(p)
    <3>1. p = pref[d]
      BY <1>3, <2>3, Pairing
    <3>2. p \in CandidatePairs(CleanedRows(e, c), pref, e)
      BY <1>4 DEF OpenSession, IsLowest
    <3>3. pref[e] # NoPort
      <4> SUFFICES ASSUME pref[e] = NoPort PROVE FALSE
        OBVIOUS
      <4>1. CleanedRows(e, c)[x] = FreeRow
        BY <2>3, <3>2 DEF CandidatePairs
      <4> QED
        BY <2>1, <4>1, NullAssumption DEF FreeRow
    <3>4. p = pref[e]
      BY <3>2, <3>3 DEF CandidatePairs
    <3>5. e = d
      BY <1>2, <3>1, <3>4
    <3>6. rows'[x] = AllocatedRow(e, s)
      BY <1>4, <2>3, OpenSessionEffect
    <3> QED
      BY <3>5, <3>6 DEF AllocatedRow
  <2> QED
    BY <2>2, <2>3
<1>5. ASSUME UNCHANGED rows
      PROVE  rows'[x].device = d
  BY <1>3, <1>5
<1>6. ASSUME NEW Q, rows' = FreePairs(rows, pref, Q)
      PROVE  rows'[x].device = d
  BY <1>6, FreeingKeepsFixed
<1>7. CASE CleanupExpired
  <2> DEFINE S == {s \in Sessions : sess[s].status = "active" /\ sess[s].lapsed}
             freed == FreePairs(rows, pref, PortsHeld(S))
             covered(y) == \E s \in Sessions : Live(s) /\ sess[s].port = PairOf(y)
  <2>1. rows' = [y \in Ports |->
                   IF freed[y].status = "allocated" /\ ~covered(y)
                   THEN FreeRow ELSE freed[y]]
    BY <1>7 DEF CleanupExpired
  <2>2. freed[x].device = d
    BY FreeingKeepsFixed
  <2>3. ASSUME freed[x].status = "allocated"
        PROVE  covered(x)
    <3> DEFINE t == rows[x].session
    <3>1. freed[x] = rows[x]
      BY <1>3, <2>3, FreePairsEffect DEF TypeOK
    <3>2. /\ t \in Sessions
          /\ sess[t].status = "active"
          /\ sess[t].port = PairOf(x)
      BY <1>3, <2>3, <3>1 DEF NoOrphanRow, RowNames
    <3>3. t \notin S
      <4> SUFFICES ASSUME t \in S PROVE FALSE
        OBVIOUS
      <4>1. PairOf(x) \in PortsHeld(S)
        BY <3>2 DEF PortsHeld
      <4>2. freed[x] = IF \E e \in Devices : pref[e] = PairOf(x)
                THEN ReservedRow(CHOOSE e \in Devices : pref[e] = PairOf(x))
                ELSE FreeRow
        BY <1>3, <4>1 DEF FreePairs
      <4> HIDE DEF freed
      <4> QED
        BY <2>3, <4>2 DEF ReservedRow, FreeRow
    <3>4. Live(t)
      BY <3>2, <3>3 DEF Live, TypeOK, Session
    <3> QED
      BY <3>2, <3>4
  <2> HIDE DEF freed, covered
  <2> QED
    BY <1>3, <2>1, <2>2, <2>3
<1> QED
  BY <1>4, <1>5, <1>6, <1>7, OrderlyMove DEF Renews

\* A session that ends in an orderly section takes its rows with it.
LEMMA StepNoOrphan ==
    ASSUME TypeOK, NoOrphanRow, RowNames, [OrderlyNext]_vars
    PROVE  NoOrphanRow'
<1> SUFFICES ASSUME NEW x \in Ports, rows'[x].status = "allocated"
             PROVE  /\ sess'[rows'[x].session].status = "active"
                    /\ sess'[rows'[x].session].port = PairOf(x)
  BY DEF NoOrphanRow
<1> DEFINE t == rows[x].session
<1>1. rows'[x] = rows[x] => /\ t \in Sessions
                            /\ sess[t].status = "active"
                            /\ sess[t].port = PairOf(x)
                            /\ sess[t].device = rows[x].device
  BY DEF NoOrphanRow, RowNames
<1>2. ASSUME NEW d \in Devices, NEW s \in Sessions, NEW p \in Pairs,
             NEW c \in BOOLEAN, OpenSession(d, s, p, c)
      PROVE  /\ sess'[rows'[x].session].status = "active"
             /\ sess'[rows'[x].session].port = PairOf(x)
  <2>1. CASE x \in PortsOf(p)
    <3>1. rows'[x] = AllocatedRow(d, s) /\ sess'[s] = NewSession(d, p)
      BY <1>2, <2>1, OpenSessionEffect
    <3>2. PairOf(x) = p
      BY <2>1, Pairing
    <3> QED
      BY <3>1, <3>2 DEF AllocatedRow, NewSession
  <2>2. CASE x \notin PortsOf(p)
    <3>1. rows'[x] = CleanedRows(d, c)[x]
      BY <1>2, <2>2, OpenSessionEffect
    <3>2. rows'[x] = rows[x]
      BY <3>1, CleanedOnlyFreed
    <3>3. t \notin CleanedSessions(d, c)
      <4> SUFFICES ASSUME t \in CleanedSessions(d, c) PROVE FALSE
        OBVIOUS
      <4>1. PairOf(x) \in PortsHeld(CleanedSessions(d, c))
        BY <1>1, <3>2 DEF PortsHeld
      <4>2. rows'[x].status \in {"reserved", "free"}
        BY <3>1, <4>1 DEF CleanedRows, FreePairs, ReservedRow, FreeRow
      <4> QED
        BY <4>2
    <3>4. t # s
      BY <1>1, <1>2, <3>2, OpenSessionEffect
    <3>5. sess'[t] = sess[t]
      BY <1>1, <1>2, <3>2, <3>3, <3>4, OpenSessionEffect
    <3> QED
      BY <1>1, <3>2, <3>5
  <2> QED
    BY <2>1, <2>2
<1>3. ASSUME NEW s \in Sessions, Renews(s)
      PROVE  /\ sess'[rows'[x].session].status = "active"
             /\ sess'[rows'[x].session].port = PairOf(x)
  <2>1. rows'[x] = rows[x]
    BY <1>3 DEF Renews
  <2>2. \A u \in Sessions : /\ sess'[u].status = sess[u].status
                            /\ sess'[u].port = sess[u].port
    BY <1>3 DEF Renews, TypeOK, Session
  <2> QED
    BY <1>1, <2>1, <2>2
<1>4. CASE UNCHANGED <<sess, rows>>
  BY <1>1, <1>4
<1>5. ASSUME NEW S, NEW Q, Ends(S), PortsHeld(S) \subseteq Q,
             rows' = FreePairs(rows, pref, Q)
      PROVE  /\ sess'[rows'[x].session].status = "active"
             /\ sess'[rows'[x].session].port = PairOf(x)
  <2>1. rows'[x] = rows[x]
    BY <1>5 DEF Ends
  <2>2. t \notin S
    <3> SUFFICES ASSUME t \in S PROVE FALSE
      OBVIOUS
    <3>1. PairOf(x) \in Q
      BY <1>1, <1>5, <2>1 DEF PortsHeld
    <3>2. rows'[x].status \in {"reserved", "free"}
      BY <1>5, <3>1 DEF FreePairs, ReservedRow, FreeRow
    <3> QED
      BY <3>2
  <2>3. sess'[t] = sess[t]
    BY <1>1, <1>5, <2>1, <2>2, EndsEffect
  <2> QED
    BY <1>1, <2>1, <2>3
<1>6. CASE CleanupExpired
  <2> DEFINE S == {s \in Sessions : sess[s].status = "active" /\ sess[s].lapsed}
             freed == FreePairs(rows, pref, PortsHeld(S))
             covered(y) == \E s \in Sessions : Live(s) /\ sess[s].port = PairOf(y)
  <2>1. rows' = [y \in Ports |->
                   IF freed[y].status = "allocated" /\ ~covered(y)
                   THEN FreeRow ELSE freed[y]]
    BY <1>6 DEF CleanupExpired
  <2>2. rows'[x] = rows[x]
    BY <1>6, CleanupEnds DEF Ends
  <2>3. rows'[x] = freed[x]
    <3> HIDE DEF freed, covered
    <3> QED
      BY <2>1 DEF FreeRow
  <2>4. t \notin S
    <3> SUFFICES ASSUME t \in S PROVE FALSE
      OBVIOUS
    <3>1. PairOf(x) \in PortsHeld(S)
      BY <1>1, <2>2 DEF PortsHeld
    <3>2. freed[x].status \in {"reserved", "free"}
      BY <3>1 DEF FreePairs, ReservedRow, FreeRow
    <3> QED
      BY <2>3, <3>2
  <2>5. sess'[t] = sess[t]
    <3>1. Ends(S)
      BY <1>6, CleanupEnds
    <3> HIDE DEF S
    <3> QED
      BY <1>1, <2>2, <2>4, <3>1, EndsEffect
  <2> QED
    BY <1>1, <2>2, <2>5
<1> QED
  BY <1>2, <1>3, <1>4, <1>5, <1>6, OrderlyMove

-----------------------------------------------------------------------------
(* The theorems *)

\* The pool of a new installation satisfies the invariant.
LEMMA InitTables == TablesInit => TablesInv
<1> SUFFICES ASSUME TablesInit PROVE TablesInv
  OBVIOUS
<1>1. Init
  BY DEF TablesInit
<1>2. TypeOK /\ RowNames
  BY <1>1, InitLease, InitPromise DEF LeaseInv
<1>3. pref \in Preferences
  BY <1>1 DEF Init
<1>4. \A s \in Sessions : sess[s].status = "unused"
  BY <1>1 DEF Init, Unused
<1>5. OneSessionPerDevice
  BY <1>4 DEF OneSessionPerDevice, ActiveSessions
<1>6. PairRowsAgree
  <2> SUFFICES ASSUME NEW p \in Pairs PROVE rows[p] = rows[p + 1]
    BY DEF PairRowsAgree
  <2>1. /\ p \in Ports /\ p + 1 \in Ports
        /\ PairOf(p) = p /\ PairOf(p + 1) = p
    BY Pairing DEF PortsOf
  <2> QED
    BY <1>1, <2>1 DEF Init, InitialRows
<1>7. \A x \in Ports : rows[x].status # "allocated"
  BY <1>1 DEF Init, InitialRows, FreeRow, ReservedRow
<1>8. FixedPortKept
  <2> SUFFICES ASSUME NEW d \in Devices, pref[d] # NoPort,
                      NEW x \in PortsOf(pref[d])
               PROVE  rows[x].device = d
    BY DEF FixedPortKept
  <2>1. pref[d] \in Pairs /\ (CHOOSE e \in Devices : pref[e] = pref[d]) = d
    BY <1>3, OnePreference
  <2>2. x \in Ports /\ PairOf(x) = pref[d]
    BY <2>1, Pairing
  <2>3. rows[x] = ReservedRow(d)
    BY <1>1, <2>1, <2>2 DEF Init, InitialRows
  <2> QED
    BY <2>3 DEF ReservedRow
<1> QED
  BY <1>2, <1>3, <1>5, <1>6, <1>7, <1>8 DEF TablesInv, OrderlyTables, NoOrphanRow

\* Every step keeps it; one that is cut short only gives up OrderlyTables,
\* and says so in broken.
LEMMA StepTables == TablesInv /\ [TablesNext]_tableVars => TablesInv'
<1> SUFFICES ASSUME TablesInv, [TablesNext]_tableVars PROVE TablesInv'
  OBVIOUS
<1>1. TypeOK /\ [Next]_vars
  BY TablesNextIsNext DEF TablesInv
<1>2. TypeOK' /\ RowNames' /\ OneSessionPerDevice' /\ PairRowsAgree'
  BY <1>1, StepTypes, StepRowNames, StepOneSession, StepPairRows DEF TablesInv
<1>3. (pref \in Preferences)'
  BY <1>1, PreferenceKept DEF TablesInv, Preferences
<1>4. OrderlyTables'
  <2> SUFFICES ASSUME ~broken' PROVE FixedPortKept' /\ NoOrphanRow'
    BY DEF OrderlyTables
  <2>1. [OrderlyNext]_vars /\ broken' = broken
    <3>1. Registering => Sound
      BY DEF Registering, OpensBeside, OpensAlone, Sound
    <3>2. Unregistered => Sound
      BY DEF Unregistered, Sound
    <3> QED
      BY <3>1, <3>2 DEF TablesNext, OrderlyNext, tableVars
  <2>2. FixedPortKept /\ NoOrphanRow
    BY <2>1 DEF TablesInv, OrderlyTables
  <2> QED
    BY <2>1, <2>2, StepFixed, StepNoOrphan DEF TablesInv
<1> QED
  BY <1>2, <1>3, <1>4 DEF TablesInv

\* The inductive invariant holds whatever requests, expiries, crashes and
\* half-done sections there are.
THEOREM TablesInvariant == TablesSpec => []TablesInv
BY InitTables, StepTables, PTL DEF TablesSpec

\* A device has two active sessions only after a registration over an old
\* session whose cleanup failed, and until the next one whose cleanup succeeds.
THEOREM OneSession == TablesSpec => []OneSessionPerDevice
<1>1. TablesInv => OneSessionPerDevice
  BY DEF TablesInv
<1> QED
  BY <1>1, TablesInvariant, PTL

\* No section, finished or cut short, frees or takes one port of a pair only.
THEOREM PairsStayWhole == TablesSpec => []PairRowsAgree
<1>1. TablesInv => PairRowsAgree
  BY DEF TablesInv
<1> QED
  BY <1>1, TablesInvariant, PTL

\* Until a section is cut short, fixed ports stay with their devices and an
\* ended session leaves nothing allocated, disconnects included.
THEOREM TablesStayOrderly == TablesSpec => []OrderlyTables
<1>1. TablesInv => OrderlyTables
  BY DEF TablesInv
<1> QED
  BY <1>1, TablesInvariant, PTL

\* No late heartbeat and no registration brings an ended session back.
THEOREM EndedSessionsStayEnded == TablesSpec => EndedStaysEnded
<1>1. TablesInv /\ [TablesNext]_tableVars =>
        [\A s \in Sessions :
            sess[s].status \in {"expired", "terminated"} => sess'[s] = sess[s]]_vars
  BY TablesNextIsNext, StepEnded DEF TablesInv
<1> QED
  BY <1>1, TablesInvariant, PTL DEF TablesSpec, EndedStaysEnded

-----------------------------------------------------------------------------
(* The loops over free_device_port_pair (module PairLoop): DeviceLease takes  *)
(* FreePairs for their result, whatever the pool, the devices and the order.  *)

\* Pairs are even, so the two ports of a pair belong to no other pair.
LEMMA PortsOfPairs ==
    /\ \A p \in Pairs : p \in Ports /\ p + 1 \in Ports /\ p + 1 \notin Pairs
    /\ \A p \in Pairs : PairOf(p) = p /\ PairOf(p + 1) = p
    /\ \A x \in Ports : PairOf(x) \in Pairs
    /\ \A x \in Ports, p \in Pairs : PairOf(x) = p <=> x \in PortsOf(p)
  <1>1. \A p \in Pairs : p \in Nat /\ p % 2 = 0
    BY PairsAssumption
  <1>2. \A p \in Pairs : p + 1 \notin Pairs
    BY <1>1
  <1> QED
    BY <1>1, <1>2 DEF Ports, PairOf, PortsOf

\* One more call of free_device_port_pair adds its pair to the closed form.
LEMMA OneMorePair ==
    ASSUME NEW R \in [Ports -> ValidRow], NEW f \in Preferences,
           NEW Q \in SUBSET Pairs, NEW p \in Pairs
    PROVE  free_device_port_pair(FreePairs(R, f, Q), f, p)
             = FreePairs(R, f, Q \cup {p})
  <1> DEFINE C == FreePairs(R, f, Q)
             D == FreePairs(R, f, Q \cup {p})
             owner(q) == CHOOSE d \in Devices : f[d] = q
             fixed(q) == \E d \in Devices : f[d] = q
             freed == free_device_port(free_device_port(C, p), p + 1)
  <1>1. \A x \in Ports : R[x] \in ValidRow
    OBVIOUS
  <1>2. ASSUME NEW q, fixed(q)
        PROVE  owner(q) \in Devices /\ f[owner(q)] = q
    BY <1>2
  <1>3. C = [x \in Ports |->
               IF PairOf(x) \in Q
               THEN IF fixed(PairOf(x)) THEN ReservedRow(owner(PairOf(x))) ELSE FreeRow
               ELSE IF R[x].status = "reserved" /\ R[x].device \in Devices
                           /\ f[R[x].device] \in Q
                    THEN FreeRow ELSE R[x]]
    BY DEF FreePairs
  <1>4. \A x \in Ports : C[x] \in ValidRow
    <2> SUFFICES ASSUME NEW x \in Ports PROVE C[x] \in ValidRow
      OBVIOUS
    <2>1. FreeRow \in ValidRow /\ \A d \in Devices : ReservedRow(d) \in ValidRow
      BY DEF ValidRow
    <2>2. CASE fixed(PairOf(x))
      <3>1. owner(PairOf(x)) \in Devices
        BY <1>2, <2>2
      <3> HIDE DEF owner, fixed, C
      <3> QED
        BY <1>1, <1>3, <2>1, <2>2, <3>1
    <2>3. CASE ~fixed(PairOf(x))
      <3> HIDE DEF owner, fixed, C
      <3> QED
        BY <1>1, <1>3, <2>1, <2>3
    <2> QED
      BY <2>2, <2>3
  <1>5. \A x \in Ports :
           (C[x].status \notin {"allocated", "reserved"}) => C[x] = FreeRow
    BY <1>4 DEF ValidRow, FreeRow, ReservedRow, AllocatedRow
  <1>6. freed = [x \in Ports |-> IF x \in PortsOf(p) THEN FreeRow ELSE C[x]]
    <2>1. p \in Ports /\ p + 1 \in Ports /\ p # p + 1
      BY PortsOfPairs, PairsAssumption
    <2>2. free_device_port(C, p) = [x \in Ports |-> IF x = p THEN FreeRow ELSE C[x]]
      BY <1>3, <1>5, <2>1 DEF free_device_port
    <2>3. \A G : G = [x \in Ports |-> IF x = p THEN FreeRow ELSE C[x]]
             => free_device_port(G, p + 1)
                  = [x \in Ports |-> IF x \in {p, p + 1} THEN FreeRow ELSE C[x]]
      BY <1>3, <1>5, <2>1 DEF free_device_port
    <2> QED
      BY <2>2, <2>3 DEF PortsOf
  <1>7. D = [x \in Ports |->
               IF PairOf(x) \in Q \cup {p}
               THEN IF fixed(PairOf(x)) THEN ReservedRow(owner(PairOf(x))) ELSE FreeRow
               ELSE IF R[x].status = "reserved" /\ R[x].device \in Devices
                           /\ f[R[x].device] \in Q \cup {p}
                    THEN FreeRow ELSE R[x]]
    BY DEF FreePairs
  <1> HIDE DEF C, D, owner, fixed, freed
  <1>8. CASE ~fixed(p)
    <2>1. free_device_port_pair(C, f, p) = freed
      BY <1>8 DEF free_device_port_pair, freed, fixed
    <2>2. ASSUME NEW x \in Ports
          PROVE  (IF x \in PortsOf(p) THEN FreeRow ELSE C[x]) = D[x]
      <3>1. CASE x \in PortsOf(p)
        BY <3>1, <1>7, <1>8, PortsOfPairs
      <3>2. CASE x \notin PortsOf(p)
        <4>1. PairOf(x) # p
          BY <3>2, PortsOfPairs
        <4>2. \A d \in Devices : f[d] # p
          BY <1>8 DEF fixed
        <4> QED
          BY <3>2, <4>1, <4>2, <1>3, <1>7
      <3> QED
        BY <3>1, <3>2
    <2> QED
      BY <2>1, <2>2, <1>6, <1>7 DEF C, D
  <1>9. CASE fixed(p)
    <2> DEFINE e == owner(p)
               released == release_device_port_reservation(freed, e, Ports)
    <2>1. e \in Devices /\ f[e] = p
      BY <1>2, <1>9
    <2>0. e = owner(p)
      OBVIOUS
    <2>2. free_device_port_pair(C, f, p) = reserve_device_port_pair(freed, f, e, p)
      BY <1>9 DEF free_device_port_pair, freed, fixed, owner
    <2>3. ~PreferredByOther(f, e, p)
      <3>1. p # NoPort
        BY PairsAssumption DEF NoPort
      <3> QED
        BY <2>1, <3>1 DEF PreferredByOther, Preferences
    <2>4. released = [x \in Ports |->
                        IF freed[x].device = e /\ freed[x].status = "reserved"
                        THEN FreeRow ELSE freed[x]]
      BY DEF release_device_port_reservation
    <2> HIDE DEF released, e
    <2>5. \A x \in PortsOf(p) : x \in Ports /\ released[x] = FreeRow
      BY <1>6, <2>4, PortsOfPairs DEF PortsOf, FreeRow
    <2>6. Reservable(released, e, p)
      BY <2>5 DEF Reservable, FreeRow
    <2>7. reserve_device_port_pair(freed, f, e, p)
            = [x \in Ports |-> IF x \in PortsOf(p) THEN ReservedRow(e) ELSE released[x]]
      BY <2>3, <2>6 DEF reserve_device_port_pair, released
    <2>8. ASSUME NEW x \in Ports
          PROVE  (IF x \in PortsOf(p) THEN ReservedRow(e) ELSE released[x]) = D[x]
      <3>1. CASE x \in PortsOf(p)
        <4>1. PairOf(x) = p
          BY <3>1, PortsOfPairs
        <4> QED
          BY <3>1, <4>1, <1>7, <1>9, <2>0
      <3>2. CASE x \notin PortsOf(p)
        <4>1. PairOf(x) # p
          BY <3>2, PortsOfPairs
        <4>2. freed[x] = C[x]
          BY <3>2, <1>6
        <4>3. CASE PairOf(x) \in Q
          <5>1. CASE fixed(PairOf(x))
            <6>1. owner(PairOf(x)) # e
              BY <5>1, <1>2, <2>1, <4>1
            <6>2. C[x] = ReservedRow(owner(PairOf(x)))
              BY <4>3, <5>1, <1>3
            <6>3. C[x].device # e
              BY <6>1, <6>2 DEF ReservedRow
            <6> QED
              BY <3>2, <4>1, <4>2, <4>3, <5>1, <6>2, <6>3, <2>4, <1>7
          <5>2. CASE ~fixed(PairOf(x))
            BY <3>2, <4>1, <4>2, <4>3, <5>2, <2>4, <1>3, <1>7 DEF FreeRow
          <5> QED
            BY <5>1, <5>2
        <4>4. CASE PairOf(x) \notin Q
          <5>1. CASE R[x].status = "reserved"
            <6>1. R[x].device \in Devices
              BY <1>1, <5>1 DEF ValidRow, FreeRow, ReservedRow, AllocatedRow
            <6>2. f[R[x].device] = p <=> R[x].device = e
              <7>1. p # NoPort
                BY PairsAssumption DEF NoPort
              <7> QED
                BY <6>1, <2>1, <7>1 DEF Preferences
            <6> QED
              BY <3>2, <4>1, <4>2, <4>4, <5>1, <6>1, <6>2, <2>1, <2>4, <1>3, <1>7
                 DEF FreeRow
          <5>2. CASE R[x].status # "reserved"
            BY <3>2, <4>1, <4>2, <4>4, <5>2, <2>4, <1>3, <1>7
          <5> QED
            BY <5>1, <5>2
        <4> QED
          BY <4>3, <4>4
      <3> QED
        BY <3>1, <3>2
    <2> QED
      BY <2>2, <2>7, <2>8, <1>7 DEF C, D
  <1> QED
    BY <1>8, <1>9 DEF C, D

\* What holds while the loop runs: the pairs freed so far, in closed form.
LoopInv ==
    /\ before \in [Ports -> ValidRow]
    /\ prefs \in Preferences
    /\ pairs \in SUBSET Pairs
    /\ todo \in SUBSET pairs
    /\ table = FreePairs(before, prefs, pairs \ todo)

\* Freeing no pair changes no row.
LEMMA FreeNothing ==
    ASSUME NEW R \in [Ports -> ValidRow], NEW f
    PROVE  FreePairs(R, f, {}) = R
  BY DEF FreePairs

\* The loops of cleanup_device_sessions, cleanup_expired_sessions and
\* terminate_device_by_device_id leave FreePairs of the pairs they free.
THEOREM LoopsFreePairs == LoopSpec => []LoopMatchesClosedForm
  <1>1. LoopInit => LoopInv
    <2> SUFFICES ASSUME LoopInit PROVE LoopInv
      OBVIOUS
    <2>1. pairs \ todo = {}
      BY DEF LoopInit
    <2> QED
      BY <2>1, FreeNothing DEF LoopInit, LoopInv
  <1>2. LoopInv /\ [LoopNext]_loopVars => LoopInv'
    <2> SUFFICES ASSUME LoopInv, [LoopNext]_loopVars PROVE LoopInv'
      OBVIOUS
    <2>1. ASSUME NEW p \in Pairs, FreeOne(p) PROVE LoopInv'
      <3>1. pairs' \ todo' = (pairs \ todo) \cup {p}
        BY <2>1 DEF FreeOne, LoopInv
      <3>2. table' = FreePairs(before, prefs, (pairs \ todo) \cup {p})
        BY <2>1, OneMorePair DEF FreeOne, LoopInv
      <3> QED
        BY <2>1, <3>1, <3>2 DEF FreeOne, LoopInv
    <2>2. CASE UNCHANGED loopVars
      BY <2>2 DEF LoopInv, loopVars
    <2> QED
      BY <2>1, <2>2 DEF LoopNext
  <1>3. LoopInv => LoopMatchesClosedForm
    <2> SUFFICES ASSUME LoopInv, todo = {} PROVE table = FreePairs(before, prefs, pairs)
      BY DEF LoopMatchesClosedForm
    <2>1. pairs \ todo = pairs
      BY DEF LoopInv
    <2> QED
      BY <2>1 DEF LoopInv
  <1> QED
    BY <1>1, <1>2, <1>3, PTL DEF LoopSpec
=============================================================================
