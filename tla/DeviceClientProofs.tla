-------------------------- MODULE DeviceClientProofs --------------------------
(***************************************************************************)
(* The client keeps the token of its session straight, for any number of   *)
(* sessions, threads and failures, whatever the server and the network     *)
(* do and whichever threads cannot be created.                             *)
(***************************************************************************)
EXTENDS DeviceClient, TLAPS

\* The registration wait thread runs while g_registration_wait_running is
\* set; the mutex is the heartbeat thread's while a heartbeat is out or the
\* tunnel is restarted for one; a request carries the configured token until
\* its answer comes, for heartbeat_update_config needs the mutex.
ClientInv ==
    /\ TypeOK
    /\ waiting <=> pc.reg # "none"
    /\ mutex = "hb" <=> pc.hb \in {"sent"} \cup Restarting
    /\ pc.hb = "sent" => hb.sent = hb.token
    /\ TokensAgree

\* The client starts in a state of the invariant (main_with_device_registration).
LEMMA InitClient == Init => ClientInv
<1> SUFFICES ASSUME Init PROVE ClientInv
  OBVIOUS
<1>1. 1 \in Tokens
  BY BoundsAssumption DEF Tokens
<1>2. TypeOK
  <2>1. pc \in [hb  : {"idle", "lock", "sent"} \cup Restarting,
                reg : {"none", "register", "apply", "update"} \cup Restarting]
    BY DEF Init
  <2>2. srv \in [session : Tokens \cup {0}, tls : BOOLEAN]
    BY <1>1 DEF Init
  <2>3. /\ dev \in [token : Tokens, tls : BOOLEAN]
        /\ hb \in [token : Tokens, sent : Tokens \cup {0}, fails : Nat]
        /\ conn \in [starting : BOOLEAN, running : BOOLEAN, stop : BOOLEAN]
        /\ ssl \in BOOLEAN
    BY <1>1, <2>2 DEF Init
  <2>4. inp \in [Threads -> InputPc]
    BY DEF Init, InputPc
  <2> QED
    BY <2>1, <2>2, <2>3, <2>4 DEF Init, TypeOK
<1>3. TokensAgree
  BY DEF Init, TokensAgree
<1> QED
  BY <1>2, <1>3 DEF Init, ClientInv, Restarting

\* What the actors, their flags and the tokens they use are.
Control == <<pc, mutex, revoked, waiting, dev, hb>>

\* A step of the server or of an input thread leaves the control state alone.
LEMMA EnvironmentKeeps ==
    ASSUME ClientInv,
           \/ ServerSteps
           \/ \E i \in Threads :
                 \/ InputExit(i) \/ InputInit(i) \/ InputConnect(i)
                 \/ InputUp(i) \/ InputSync(i)
                 \/ \E b \in BOOLEAN : InputTlsFails(i, b) \/ InputLost(i, b)
    PROVE  ClientInv' /\ UNCHANGED Control
<1>1. CASE ServerSteps
  <2>1. UNCHANGED <<pc, mutex, revoked, waiting, dev, hb, ssl, conn, inp>>
    BY <1>1 DEF ServerSteps, ServerEnds, ServerTls
  <2>2. srv' \in [session : Tokens \cup {0}, tls : BOOLEAN]
    BY <1>1 DEF ServerSteps, ServerEnds, ServerTls, ClientInv, TypeOK
  <2> QED
    BY <2>1, <2>2 DEF ClientInv, TypeOK, TokensAgree, Control
<1>2. CASE \E i \in Threads :
              \/ InputExit(i) \/ InputInit(i) \/ InputConnect(i)
              \/ InputUp(i) \/ InputSync(i)
              \/ \E b \in BOOLEAN : InputTlsFails(i, b) \/ InputLost(i, b)
  <2>1. PICK i \in Threads :
              \/ InputExit(i) \/ InputInit(i) \/ InputConnect(i)
              \/ InputUp(i) \/ InputSync(i)
              \/ \E b \in BOOLEAN : InputTlsFails(i, b) \/ InputLost(i, b)
    BY <1>2
  <2>2. UNCHANGED <<pc, mutex, revoked, waiting, dev, hb, ssl, srv>>
    BY <2>1 DEF InputExit, InputInit, InputConnect, InputUp, InputTlsFails,
                InputSync, InputLost
  <2>3. inp' \in [Threads -> InputPc]
    BY <2>1 DEF InputExit, InputInit, InputConnect, InputUp, InputTlsFails,
                InputSync, InputLost, GoInput, InputPc, ClientInv, TypeOK
  <2>4. conn' \in [starting : BOOLEAN, running : BOOLEAN, stop : BOOLEAN]
    BY <2>1 DEF InputExit, InputInit, InputConnect, InputUp, InputTlsFails,
                InputSync, InputLost, ClientInv, TypeOK
  <2> QED
    BY <2>2, <2>3, <2>4 DEF ClientInv, TypeOK, TokensAgree, Control
<1> QED
  BY <1>1, <1>2

\* device_start_registration_wait keeps the invariant when its caller has
\* the mutex and leaves the tokens alone.
LEMMA RegistrationWaitKeeps ==
    ASSUME ClientInv, pc.hb = "sent",
           NEW created \in BOOLEAN, StartRegistrationWait(created),
           UNCHANGED <<dev, ssl, inp>>,
           NEW fails \in Nat, Answered(fails),
           srv' = srv
    PROVE  /\ ClientInv'
           /\ ~revoked /\ revoked' => hb.sent = dev.token
<1>1. /\ pc' \in [hb  : {"idle", "lock", "sent"} \cup Restarting,
                  reg : {"none", "register", "apply", "update"} \cup Restarting]
      /\ pc'.hb = "idle"
      /\ mutex' = "nobody"
  BY DEF StartRegistrationWait, ClientInv, TypeOK
<1>2. /\ hb' \in [token : Tokens, sent : Tokens \cup {0}, fails : Nat]
      /\ hb'.token = hb.token
  BY DEF Answered, ClientInv, TypeOK
<1>3. CASE waiting
  <2>1. UNCHANGED <<revoked, waiting, conn>> /\ pc'.reg = pc.reg
    BY <1>3 DEF StartRegistrationWait, ClientInv, TypeOK
  <2> QED
    BY <1>1, <1>2, <2>1 DEF ClientInv, TypeOK, TokensAgree, Restarting
<1>4. CASE ~waiting
  <2>1. pc.reg = "none"
    BY <1>4 DEF ClientInv
  <2>2. /\ waiting' = created
        /\ revoked' = TRUE
        /\ conn' = [conn EXCEPT !.stop = TRUE]
        /\ pc' = [hb |-> "idle", reg |-> IF created THEN "register" ELSE pc.reg]
    BY <1>4, Zenon DEF StartRegistrationWait
  <2>3. /\ conn' \in [starting : BOOLEAN, running : BOOLEAN, stop : BOOLEAN]
        /\ pc'.reg = IF created THEN "register" ELSE "none"
    BY <2>1, <2>2 DEF ClientInv, TypeOK
  <2>4. ~revoked => hb.sent = dev.token
    BY <2>1 DEF ClientInv, TokensAgree
  <2> QED
    BY <1>1, <1>2, <2>2, <2>3, <2>4 DEF ClientInv, TypeOK, TokensAgree, Restarting
<1> QED
  BY <1>3, <1>4 DEF ClientInv, TypeOK

\* The heartbeat thread's own steps.
LEMMA HeartbeatKeeps ==
    ASSUME ClientInv,
           \/ HbWake \/ HbSend \/ \E reload \in BOOLEAN : HbOk(reload)
           \/ \E created \in BOOLEAN : HbFails(created) \/ HbTerminated(created)
    PROVE  ClientInv'
<1> USE DEF ClientInv
<1>1. CASE HbWake
  BY <1>1 DEF HbWake, Go, TypeOK, TokensAgree, Restarting
<1>2. CASE HbSend
  <2>1. hb' \in [token : {hb.token}, sent : {hb.token}, fails : {hb.fails}]
    BY <1>2 DEF HbSend, TypeOK
  <2> QED
    BY <1>2, <2>1 DEF HbSend, Go, TypeOK, TokensAgree, Restarting
<1>3. ASSUME NEW reload \in BOOLEAN, HbOk(reload)
      PROVE  ClientInv'
  <2>1. /\ hb' \in [token : {hb.token}, sent : {0}, fails : {0}]
        /\ UNCHANGED <<revoked, waiting, conn, inp, srv>>
    BY <1>3 DEF HbOk, Answered, TypeOK
  <2>2. CASE pc' = [pc EXCEPT !.hb = "stop"] /\ mutex' = mutex
             /\ dev' = [dev EXCEPT !.tls = srv.tls] /\ ssl' = srv.tls
    BY <1>3, <2>1, <2>2 DEF HbOk, TypeOK, TokensAgree, Restarting
  <2>3. CASE pc' = [pc EXCEPT !.hb = "idle"] /\ mutex' = "nobody"
             /\ UNCHANGED <<dev, ssl>>
    BY <1>3, <2>1, <2>3 DEF HbOk, TypeOK, TokensAgree, Restarting
  <2> QED
    BY <1>3, <2>2, <2>3 DEF HbOk, Go
<1>4. ASSUME NEW created \in BOOLEAN, HbFails(created)
      PROVE  ClientInv'
  <2>1. 0 \in Nat /\ hb.fails + 1 \in Nat
    BY DEF TypeOK
  <2>2. CASE StartRegistrationWait(created) /\ Answered(0)
    BY <1>4, <2>1, <2>2, RegistrationWaitKeeps DEF HbFails
  <2>3. CASE /\ Answered(hb.fails + 1) /\ mutex' = "nobody"
             /\ Go("hb", "idle") /\ UNCHANGED <<revoked, waiting, conn>>
    <3>1. hb' \in [token : {hb.token}, sent : {0}, fails : Nat]
      BY <2>1, <2>3 DEF Answered, TypeOK
    <3> QED
      BY <1>4, <2>3, <3>1 DEF HbFails, Go, TypeOK, TokensAgree, Restarting
  <2> QED
    BY <1>4, <2>2, <2>3 DEF HbFails
<1>5. ASSUME NEW created \in BOOLEAN, HbTerminated(created)
      PROVE  ClientInv'
  <2>1. hb.fails \in Nat
    BY DEF TypeOK
  <2> QED
    BY <1>5, <2>1, RegistrationWaitKeeps DEF HbTerminated
<1> QED
  BY <1>1, <1>2, <1>3, <1>4, <1>5

\* Restarting the tunnel, by either actor.
LEMMA RestartKeeps ==
    ASSUME ClientInv, NEW a \in Actors,
           \/ RestartStop(a) \/ RestartDrain(a) \/ RestartDone(a)
           \/ \E created \in BOOLEAN : RestartStart(a, created)
    PROVE  ClientInv'
<1> USE DEF ClientInv, Actors
<1>1. CASE RestartStop(a)
  <2>1. conn' \in [starting : BOOLEAN, running : BOOLEAN, stop : BOOLEAN]
    BY <1>1 DEF RestartStop, TypeOK
  <2>2. /\ pc[a] = "stop" /\ Go(a, "drain")
        /\ UNCHANGED <<mutex, revoked, waiting, dev, hb, ssl, inp, srv>>
    BY <1>1 DEF RestartStop
  <2> QED
    BY <2>1, <2>2 DEF Go, TypeOK, TokensAgree, Restarting
<1>2. CASE RestartDrain(a)
  BY <1>2 DEF RestartDrain, Go, TypeOK, TokensAgree, Restarting
<1>3. ASSUME NEW created \in BOOLEAN, RestartStart(a, created)
      PROVE  ClientInv'
  <2>1. conn' \in [starting : BOOLEAN, running : BOOLEAN, stop : BOOLEAN]
    BY <1>3 DEF RestartStart, TypeOK
  <2>2. inp' \in [Threads -> InputPc]
    BY <1>3 DEF RestartStart, TypeOK, InputPc
  <2>3. /\ pc[a] = "start" /\ Go(a, "await")
        /\ UNCHANGED <<mutex, revoked, waiting, dev, hb, ssl, srv>>
    BY <1>3 DEF RestartStart
  <2> QED
    BY <2>1, <2>2, <2>3 DEF Go, TypeOK, TokensAgree, Restarting
<1>4. CASE RestartDone(a)
  <2>1. CASE a = "hb"
    BY <1>4, <2>1 DEF RestartDone, Go, TypeOK, TokensAgree, Restarting
  <2>2. CASE a = "reg"
    BY <1>4, <2>2 DEF RestartDone, Go, TypeOK, TokensAgree, Restarting
  <2> QED
    BY <2>1, <2>2
<1> QED
  BY <1>1, <1>2, <1>3, <1>4

\* The registration wait thread's own steps.
LEMMA RegistrationKeeps ==
    ASSUME ClientInv,
           \/ \E t \in Tokens : RegSucceeds(t) \/ RegAnswerLost(t)
           \/ RegUpdate
           \/ \E valid \in BOOLEAN : RegApply(valid)
    PROVE  ClientInv'
<1> USE DEF ClientInv
<1>1. ASSUME NEW t \in Tokens, srv' = [srv EXCEPT !.session = t]
      PROVE  srv' \in [session : Tokens \cup {0}, tls : BOOLEAN]
  BY <1>1 DEF TypeOK
<1>2. ASSUME NEW t \in Tokens, RegSucceeds(t)
      PROVE  ClientInv'
  BY <1>1, <1>2 DEF RegSucceeds, Go, TypeOK, TokensAgree, Restarting
<1>3. ASSUME NEW t \in Tokens, RegAnswerLost(t)
      PROVE  ClientInv'
  BY <1>1, <1>3 DEF RegAnswerLost, TypeOK, TokensAgree
<1>4. ASSUME NEW valid \in BOOLEAN, RegApply(valid)
      PROVE  ClientInv'
  <2>1. /\ pc.reg = "apply" /\ ssl' = dev.tls
        /\ revoked' = ~valid /\ waiting' = valid
        /\ pc' = [pc EXCEPT !.reg = IF valid THEN "update" ELSE "none"]
        /\ UNCHANGED <<mutex, dev, hb, conn, inp, srv>>
    BY <1>4 DEF RegApply, Go
  <2>2. (IF valid THEN "update" ELSE "none") \in {"update", "none"}
    OBVIOUS
  <2>3. /\ pc' \in [hb : {"idle", "lock", "sent"} \cup Restarting,
                     reg : {"none", "register", "apply", "update"} \cup Restarting]
        /\ pc'.hb = pc.hb
        /\ pc'.reg = IF valid THEN "update" ELSE "none"
    BY <2>1, <2>2 DEF TypeOK
  <2>4. TypeOK'
    BY <2>1, <2>3 DEF TypeOK
  <2>5. TokensAgree'
    BY <2>1, <2>3 DEF TokensAgree, Restarting
  <2>6. waiting' <=> pc'.reg # "none"
    BY <2>1, <2>3
  <2>7. mutex' = "hb" <=> pc'.hb \in {"sent"} \cup Restarting
    BY <2>1, <2>3
  <2>8. pc'.hb = "sent" => hb'.sent = hb'.token
    BY <2>1, <2>3
  <2> QED
    BY <2>4, <2>5, <2>6, <2>7, <2>8
<1>5. CASE RegUpdate
  BY <1>5 DEF RegUpdate, Go, TypeOK, TokensAgree, Restarting
<1> QED
  BY <1>2, <1>3, <1>4, <1>5

\* No step of the client or of its surroundings leaves the invariant.
LEMMA StepClient == ClientInv /\ [Next]_vars => ClientInv'
<1> SUFFICES ASSUME ClientInv, [Next]_vars PROVE ClientInv'
  OBVIOUS
<1>1. CASE UNCHANGED vars
  BY <1>1 DEF vars, ClientInv, TypeOK, TokensAgree
<1>2. CASE \/ ServerSteps
           \/ \E i \in Threads :
                 \/ InputExit(i) \/ InputInit(i) \/ InputConnect(i)
                 \/ InputUp(i) \/ InputSync(i)
                 \/ \E b \in BOOLEAN : InputTlsFails(i, b) \/ InputLost(i, b)
  BY <1>2, EnvironmentKeeps
<1>3. CASE \/ HbWake \/ HbSend \/ \E reload \in BOOLEAN : HbOk(reload)
           \/ \E created \in BOOLEAN : HbFails(created) \/ HbTerminated(created)
  BY <1>3, HeartbeatKeeps
<1>4. CASE \E a \in Actors :
              \/ RestartStop(a) \/ RestartDrain(a) \/ RestartDone(a)
              \/ \E created \in BOOLEAN : RestartStart(a, created)
  BY <1>4, RestartKeeps
<1>5. CASE \/ \E t \in Tokens : RegSucceeds(t) \/ RegAnswerLost(t)
           \/ RegUpdate
           \/ \E valid \in BOOLEAN : RegApply(valid)
  BY <1>5, RegistrationKeeps
<1> QED
  BY <1>1, <1>2, <1>3, <1>4, <1>5 DEF Next, Shortages, ClientSteps

\* The client's state stays well typed (TypeOK) and the control invariant
\* that the other theorems rest on holds, in every run of the client
\* (heartbeat_thread_func, registration_wait_thread, server_input_thread).
THEOREM ClientInvariant == Spec => []ClientInv
  BY InitClient, StepClient, PTL DEF Spec

\* Once a registration is in effect the heartbeat carries its token
\* (heartbeat_update_config), however many sessions there have been.
THEOREM TokenOfTheSession == Spec => []TokensAgree
<1>1. ClientInv => TokensAgree
  BY DEF ClientInv
<1> QED
  BY <1>1, ClientInvariant, PTL

\* What makes the client give up its session is a heartbeat of that session,
\* never a late answer about the one before (send_heartbeat,
\* device_start_registration_wait).
THEOREM GivesUpItsOwnSession == Spec => DropsOnlyItsOwnSession
<1>1. ASSUME ClientInv, [Next]_vars,
             pc.hb = "sent", pc'.hb = "idle", ~revoked, revoked'
      PROVE  hb.sent = dev.token
  <2>1. ~ UNCHANGED Control
    BY <1>1 DEF Control
  <2>2. \A a \in Actors, created \in BOOLEAN :
          ~ (RestartStop(a) \/ RestartDrain(a) \/ RestartDone(a)
               \/ RestartStart(a, created))
    BY <1>1 DEF RestartStop, RestartDrain, RestartDone, RestartStart
  <2>3. /\ \A t \in Tokens : ~ RegSucceeds(t) /\ ~ RegAnswerLost(t)
        /\ ~ RegUpdate
    BY <1>1 DEF RegSucceeds, RegAnswerLost, RegUpdate
  <2>4. \A valid \in BOOLEAN : ~ RegApply(valid)
    BY <1>1 DEF RegApply, Go, ClientInv, TypeOK
  <2>5. ~ HbWake /\ ~ HbSend /\ \A reload \in BOOLEAN : ~ HbOk(reload)
    BY <1>1 DEF HbWake, HbSend, HbOk
  <2>6. ASSUME NEW created \in BOOLEAN, HbFails(created)
        PROVE  hb.sent = dev.token
    <3>1. StartRegistrationWait(created) /\ Answered(0)
      BY <1>1, <2>6 DEF HbFails
    <3> QED
      BY <1>1, <2>6, <3>1, RegistrationWaitKeeps DEF HbFails
  <2>7. ASSUME NEW created \in BOOLEAN, HbTerminated(created)
        PROVE  hb.sent = dev.token
    <3>1. hb.fails \in Nat
      BY <1>1 DEF ClientInv, TypeOK
    <3> QED
      BY <1>1, <2>7, <3>1, RegistrationWaitKeeps DEF HbTerminated
  <2>8. ~ UNCHANGED vars
    BY <1>1 DEF vars
  <2>9. ~ (\/ ServerSteps
           \/ \E i \in Threads :
                 \/ InputExit(i) \/ InputInit(i) \/ InputConnect(i)
                 \/ InputUp(i) \/ InputSync(i)
                 \/ \E b \in BOOLEAN : InputTlsFails(i, b) \/ InputLost(i, b))
    BY <1>1, <2>1, EnvironmentKeeps
  <2> QED
    BY <1>1, <2>2, <2>3, <2>4, <2>5, <2>6, <2>7, <2>8, <2>9
       DEF Next, Shortages, ClientSteps
<1>2. ClientInv /\ [Next]_vars =>
        [pc.hb = "sent" /\ pc'.hb = "idle" /\ ~revoked /\ revoked'
         => hb.sent = dev.token]_vars
  BY <1>1
<1> QED
  BY <1>2, ClientInvariant, PTL DEF Spec, DropsOnlyItsOwnSession

=============================================================================
