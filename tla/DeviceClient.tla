----------------------------- MODULE DeviceClient -----------------------------
(***************************************************************************)
(* The device client (client/proxy/client): the heartbeat thread, the      *)
(* registration wait thread it starts when the server has ended the        *)
(* session, and the input threads that keep the tunnel to the server.      *)
(*                                                                         *)
(* They share g_heartbeat_mutex, which the heartbeat thread holds while a  *)
(* heartbeat is out and while it restarts the tunnel; the flags revoked    *)
(* and waiting; and the flags of one tunnel connection.  hb and reg, the   *)
(* heartbeat and the registration wait thread, are the two Actors.         *)
(*                                                                         *)
(* The server is seen as the client sees it: the session it considers      *)
(* active and its TLS setting.  A token that the client does not hold any  *)
(* more is used again for a new session, so that sessions come and go for  *)
(* ever.                                                                   *)
(***************************************************************************)
EXTENDS Naturals

CONSTANTS MaxFailures,  \* g_heartbeat_config.max_failures
          MaxTokens,    \* bound: tokens; the client holds two at most
          MaxThreads    \* bound: input threads that are alive at once

ASSUME BoundsAssumption ==
    /\ MaxFailures \in Nat \ {0}
    /\ MaxTokens \in Nat /\ MaxTokens > 2
    /\ MaxThreads \in Nat \ {0}

Actors == {"hb", "reg"}

Tokens == 1..MaxTokens

Threads == 1..MaxThreads

VARIABLES
    pc,       \* what each actor is doing
    mutex,    \* holder of g_heartbeat_mutex
    revoked,  \* g_device_session_revoked
    waiting,  \* g_registration_wait_running
    dev,      \* g_device_state: session_token and tunnel_tls
    hb,       \* g_heartbeat_manager: token, token of the request that is
              \* out (0: none), fail_count
    ssl,      \* threads_data.enable_ssl
    conn,     \* the connection's flags
    inp,      \* the input threads
    srv       \* the server

vars == <<pc, mutex, revoked, waiting, dev, hb, ssl, conn, inp, srv>>

Restarting == {"stop", "drain", "start", "await"}

InputPc == {"none", "init", "connect", "tls", "sync", "run"}

TypeOK ==
    /\ pc \in [hb  : {"idle", "lock", "sent"} \cup Restarting,
               reg : {"none", "register", "apply", "update"} \cup Restarting]
    /\ mutex \in {"nobody", "hb"}
    /\ revoked \in BOOLEAN
    /\ waiting \in BOOLEAN
    /\ dev \in [token : Tokens, tls : BOOLEAN]
    /\ hb \in [token : Tokens, sent : Tokens \cup {0}, fails : Nat]
    /\ ssl \in BOOLEAN
    /\ conn \in [starting : BOOLEAN, running : BOOLEAN, stop : BOOLEAN]
    /\ inp \in [Threads -> InputPc]
    /\ srv \in [session : Tokens \cup {0}, tls : BOOLEAN]

\* The device has registered, the heartbeat thread runs, and main waits in
\* server_input_start for the first input thread.
Init ==
    /\ pc = [hb |-> "idle", reg |-> "none"]
    /\ mutex = "nobody"
    /\ revoked = FALSE
    /\ waiting = FALSE
    /\ srv \in [session : {1}, tls : BOOLEAN]
    /\ dev = [token |-> 1, tls |-> srv.tls]
    /\ ssl = dev.tls
    /\ hb = [token |-> 1, sent |-> 0, fails |-> 0]
    /\ conn = [starting |-> TRUE, running |-> FALSE, stop |-> FALSE]
    /\ inp = [i \in Threads |-> IF i = 1 THEN "init" ELSE "none"]

Go(a, to) == pc' = [pc EXCEPT ![a] = to]

-----------------------------------------------------------------------------
(* The server *)

\* Disconnected, restarted or expired: the session is over.
ServerEnds ==
    /\ srv.session # 0
    /\ srv' = [srv EXCEPT !.session = 0]
    /\ UNCHANGED <<pc, mutex, revoked, waiting, dev, hb, ssl, conn, inp>>

ServerTls ==
    /\ srv' = [srv EXCEPT !.tls = ~@]
    /\ UNCHANGED <<pc, mutex, revoked, waiting, dev, hb, ssl, conn, inp>>

-----------------------------------------------------------------------------
(* heartbeat_thread_func *)

HbWake ==
    /\ pc.hb = "idle"
    /\ ~revoked
    /\ Go("hb", "lock")
    /\ UNCHANGED <<mutex, revoked, waiting, dev, hb, ssl, conn, inp, srv>>

\* send_heartbeat up to the request: the token is the configured one.
HbSend ==
    /\ pc.hb = "lock"
    /\ mutex = "nobody"
    /\ mutex' = "hb"
    /\ hb' = [hb EXCEPT !.sent = hb.token]
    /\ Go("hb", "sent")
    /\ UNCHANGED <<revoked, waiting, dev, ssl, conn, inp, srv>>

\* Mutant: a registration wait already under way is not looked at.
StartsAnotherWait(created) ==
    /\ pc' = [hb |-> "idle", reg |-> IF created THEN "register" ELSE pc.reg]
    /\ waiting' = created
    /\ revoked' = TRUE
    /\ conn' = [conn EXCEPT !.stop = TRUE]
    /\ mutex' = "nobody"

\* device_start_registration_wait, called with the mutex held, which the
\* caller then releases.  created is the result of pthread_create.
StartRegistrationWait(created) ==
    /\ IF waiting
       THEN /\ pc' = [pc EXCEPT !.hb = "idle"]
            /\ UNCHANGED <<revoked, waiting, conn>>
       ELSE /\ pc' = [hb |-> "idle", reg |-> IF created THEN "register" ELSE pc.reg]
            /\ waiting' = created
            /\ revoked' = TRUE
            /\ conn' = [conn EXCEPT !.stop = TRUE]
    /\ mutex' = "nobody"

\* The answer has been dealt with: no request is out.
Answered(fails) == hb' = [hb EXCEPT !.sent = 0, !.fails = fails]

\* The heartbeat fails: no connection, no answer in time, or an error that
\* does not end the session.
HbFails(created) ==
    /\ pc.hb = "sent"
    /\ IF ~revoked /\ hb.fails + 1 >= MaxFailures
       THEN StartRegistrationWait(created) /\ Answered(0)
       ELSE /\ Answered(hb.fails + 1)
            /\ mutex' = "nobody"
            /\ Go("hb", "idle")
            /\ UNCHANGED <<revoked, waiting, conn>>
    /\ UNCHANGED <<dev, ssl, inp, srv>>

\* Mutant: the answer is not acted on.
HbIgnoresTermination(created) ==
    /\ pc.hb = "sent"
    /\ mutex' = "nobody"
    /\ Answered(0)
    /\ Go("hb", "idle")
    /\ UNCHANGED <<revoked, waiting, conn, dev, ssl, inp, srv>>

\* The server answers with force_disconnect: it has another session for the
\* device or none, or an error of its database kept it from finding the one
\* it has.
HbTerminated(created) ==
    /\ pc.hb = "sent"
    /\ StartRegistrationWait(created)
    /\ Answered(hb.fails)
    /\ UNCHANGED <<dev, ssl, inp, srv>>

\* The server answers ok.  If its TLS setting is new, or it asks for a
\* reload, the tunnel is restarted - with the mutex held.
HbOk(reload) ==
    /\ pc.hb = "sent"
    /\ hb.sent = srv.session
    /\ Answered(0)
    /\ IF reload \/ srv.tls # dev.tls
       THEN /\ dev' = [dev EXCEPT !.tls = srv.tls]
            /\ ssl' = srv.tls
            /\ Go("hb", "stop")
            /\ UNCHANGED mutex
       ELSE /\ Go("hb", "idle")
            /\ mutex' = "nobody"
            /\ UNCHANGED <<dev, ssl>>
    /\ UNCHANGED <<revoked, waiting, conn, inp, srv>>

-----------------------------------------------------------------------------
(* switcher_servers_restart_input_threads, called by both actors *)

\* The threads are told to stop and their sockets are shut down.
RestartStop(a) ==
    /\ pc[a] = "stop"
    /\ conn' = [conn EXCEPT !.stop = TRUE]
    /\ Go(a, "drain")
    /\ UNCHANGED <<mutex, revoked, waiting, dev, hb, ssl, inp, srv>>

\* The thread that runs has stopped, or ten seconds have passed; a thread
\* that is still connecting is not waited for.
RestartDrain(a) ==
    /\ pc[a] = "drain"
    /\ conn' = [starting |-> FALSE, running |-> FALSE, stop |-> FALSE]
    /\ Go(a, "start")
    /\ UNCHANGED <<mutex, revoked, waiting, dev, hb, ssl, inp, srv>>

NewThread == CHOOSE i \in Threads :
                 inp[i] = "none" /\ \A j \in 1..(i - 1) : inp[j] # "none"

FreeThread == \E i \in Threads : inp[i] = "none"

\* server_input_start.  created is the result of Thread_create.
RestartStart(a, created) ==
    /\ pc[a] = "start"
    /\ created => FreeThread
    /\ IF conn.running
       THEN UNCHANGED <<conn, inp>>
       ELSE /\ conn' = [conn EXCEPT !.starting = created, !.stop = FALSE]
            /\ inp' = IF created
                      THEN [inp EXCEPT ![NewThread] = "init"] ELSE inp
    /\ Go(a, "await")
    /\ UNCHANGED <<mutex, revoked, waiting, dev, hb, ssl, srv>>

\* Mutant: the heartbeat thread returns without unlocking.
RestartKeepsMutex(a) ==
    /\ pc[a] = "await"
    /\ ~conn.starting
    /\ Go(a, IF a = "hb" THEN "idle" ELSE "none")
    /\ waiting' = IF a = "reg" THEN FALSE ELSE waiting
    /\ UNCHANGED <<mutex, revoked, dev, hb, ssl, conn, inp, srv>>

\* while (conn->is_starting_input), and what the caller does next.
RestartDone(a) ==
    /\ pc[a] = "await"
    /\ ~conn.starting
    /\ Go(a, IF a = "hb" THEN "idle" ELSE "none")
    /\ mutex' = IF a = "hb" THEN "nobody" ELSE mutex
    /\ waiting' = IF a = "reg" THEN FALSE ELSE waiting
    /\ UNCHANGED <<revoked, dev, hb, ssl, conn, inp, srv>>

-----------------------------------------------------------------------------
(* registration_wait_thread *)

\* The token of a new session: the least one that the client does not hold.
\* The server forgets the session it had.
NewToken(t) ==
    LET held == {dev.token, hb.token, hb.sent}
    IN  t \notin held /\ \A u \in Tokens \ held : t <= u

\* A registration reaches the server and its answer the client
\* (device_register_until_allowed).  Attempts that fail change nothing.
RegSucceeds(t) ==
    /\ pc.reg = "register"
    /\ NewToken(t)
    /\ srv' = [srv EXCEPT !.session = t]
    /\ dev' = [token |-> t, tls |-> srv.tls]
    /\ revoked' = FALSE
    /\ Go("reg", "apply")
    /\ UNCHANGED <<mutex, waiting, hb, ssl, conn, inp>>

\* The answer is lost; the client will try again.
RegAnswerLost(t) ==
    /\ pc.reg = "register"
    /\ NewToken(t)
    /\ srv' = [srv EXCEPT !.session = t]
    /\ UNCHANGED <<pc, mutex, revoked, waiting, dev, hb, ssl, conn, inp>>

\* device_apply_reregistration up to validate_output_target.  If the answer
\* has no usable target the thread gives up, still revoked.
RegApply(valid) ==
    /\ pc.reg = "apply"
    /\ ssl' = dev.tls
    /\ revoked' = ~valid
    /\ waiting' = valid
    /\ Go("reg", IF valid THEN "update" ELSE "none")
    /\ UNCHANGED <<mutex, dev, hb, conn, inp, srv>>

\* Mutant: the new configuration is not copied.
RegKeepsToken ==
    /\ pc.reg = "update"
    /\ mutex = "nobody"
    /\ Go("reg", "stop")
    /\ UNCHANGED <<mutex, revoked, waiting, dev, hb, ssl, conn, inp, srv>>

\* heartbeat_update_config.
RegUpdate ==
    /\ pc.reg = "update"
    /\ mutex = "nobody"
    /\ hb' = [hb EXCEPT !.token = dev.token]
    /\ Go("reg", "stop")
    /\ UNCHANGED <<mutex, revoked, waiting, dev, ssl, conn, inp, srv>>

-----------------------------------------------------------------------------
(* server_input_thread *)

GoInput(i, to) == inp' = [inp EXCEPT ![i] = to]

\* A thread that sees stop_running_input leaves.
InputExit(i) ==
    /\ inp[i] \in {"init", "connect", "tls", "run"}
    /\ conn.stop
    /\ GoInput(i, "none")
    /\ conn' = [conn EXCEPT !.starting = FALSE, !.running = FALSE]
    /\ UNCHANGED <<pc, mutex, revoked, waiting, dev, hb, ssl, srv>>

InputInit(i) ==
    /\ inp[i] = "init"
    /\ ~conn.stop
    /\ GoInput(i, "connect")
    /\ UNCHANGED <<pc, mutex, revoked, waiting, dev, hb, ssl, conn, srv>>

\* connect succeeds; failures are retried for ever.
InputConnect(i) ==
    /\ inp[i] = "connect"
    /\ ~conn.stop
    /\ ~revoked
    /\ GoInput(i, "tls")
    /\ UNCHANGED <<pc, mutex, revoked, waiting, dev, hb, ssl, conn, srv>>

\* No TLS, or SSL_connect succeeds with a server that speaks it.
InputUp(i) ==
    /\ inp[i] = "tls"
    /\ ssl => srv.tls
    /\ GoInput(i, "run")
    /\ conn' = [conn EXCEPT !.starting = FALSE, !.running = TRUE]
    /\ UNCHANGED <<pc, mutex, revoked, waiting, dev, hb, ssl, srv>>

\* SSL_connect fails.  Without a peer certificate the thread asks for a
\* heartbeat first.
InputTlsFails(i, certificate) ==
    /\ inp[i] = "tls"
    /\ ssl
    /\ GoInput(i, IF certificate THEN "init" ELSE "sync")
    /\ UNCHANGED <<pc, mutex, revoked, waiting, dev, hb, ssl, conn, srv>>

\* heartbeat_request_tls_sync.
InputSync(i) ==
    /\ inp[i] = "sync"
    /\ mutex = "nobody"
    /\ GoInput(i, "init")
    /\ UNCHANGED <<pc, mutex, revoked, waiting, dev, hb, ssl, conn, srv>>

\* The tunnel breaks; after a TLS error a heartbeat is asked for.  The flag
\* is_running_input stays set.
InputLost(i, error) ==
    /\ inp[i] = "run"
    /\ error => ssl
    /\ GoInput(i, IF error THEN "sync" ELSE "init")
    /\ UNCHANGED <<pc, mutex, revoked, waiting, dev, hb, ssl, conn, srv>>

-----------------------------------------------------------------------------

ServerSteps == ServerEnds \/ ServerTls

\* Threads can be created and registrations name a target.
ClientSteps ==
    \/ HbWake \/ HbSend \/ \E reload \in BOOLEAN : HbOk(reload)
    \/ HbFails(TRUE) \/ HbTerminated(TRUE)
    \/ \E a \in Actors :
          \/ RestartStop(a) \/ RestartDrain(a)
          \/ RestartStart(a, TRUE) \/ RestartDone(a)
    \/ \E t \in Tokens : RegSucceeds(t) \/ RegAnswerLost(t)
    \/ RegApply(TRUE) \/ RegUpdate
    \/ \E i \in Threads :
          \/ InputExit(i) \/ InputInit(i) \/ InputConnect(i) \/ InputUp(i)
          \/ InputSync(i)
          \/ \E b \in BOOLEAN : InputTlsFails(i, b) \/ InputLost(i, b)

\* A thread cannot be created, or a registration names no target.
Shortages ==
    \/ HbFails(FALSE) \/ HbTerminated(FALSE)
    \/ \E a \in Actors : RestartStart(a, FALSE)
    \/ RegApply(FALSE)

Next == ServerSteps \/ ClientSteps \/ Shortages

\* Threads run, heartbeats are answered or time out, the server permits a
\* registration and it gets through in the end, the tunnel port of a live
\* session accepts connections and its handshake succeeds in the end; a thread
\* that waits for the mutex gets it if it is released again and again.
Fairness ==
    /\ WF_vars(HbWake)
    /\ WF_vars(HbSend)
    /\ WF_vars(\/ HbFails(TRUE) \/ HbTerminated(TRUE)
               \/ \E reload \in BOOLEAN : HbOk(reload))
    /\ WF_vars(\E t \in Tokens : RegSucceeds(t))
    /\ WF_vars(RegApply(TRUE))
    /\ SF_vars(RegUpdate)
    /\ \A a \in Actors :
          WF_vars(\/ RestartStop(a) \/ RestartDrain(a) \/ RestartDone(a)
                  \/ RestartStart(a, TRUE)
                  \/ ~FreeThread /\ RestartStart(a, FALSE))
    /\ \A i \in Threads :
          /\ WF_vars(\/ InputExit(i) \/ InputInit(i)
                     \/ srv.session = dev.token /\ InputConnect(i))
          /\ SF_vars(InputUp(i))
          /\ SF_vars(InputSync(i))

Spec == Init /\ [][Next]_vars

FairSpec == Spec /\ Fairness

-----------------------------------------------------------------------------

\* Once a registration is in effect the heartbeat carries its token, and not
\* the token of the session before (heartbeat_update_config).
TokensAgree ==
    ~revoked /\ pc.reg \in {"none"} \cup Restarting => hb.token = dev.token

\* When an answer, or the lack of answers, makes the heartbeat thread give up
\* the client's session, the heartbeat was one of that session: a late answer
\* about the session before never costs the client the one it registered
\* since (the mutex and g_registration_wait_running).
DropsOnlyItsOwnSession ==
    [][pc.hb = "sent" /\ pc'.hb = "idle" /\ ~revoked /\ revoked'
       => hb.sent = dev.token]_vars

\* The client has the session that the server has for it.
Registered == srv.session = dev.token /\ ~revoked

\* The client has dropped its session and nothing registers it again: the
\* wait thread could not be created, or left because the registration named
\* no usable target.  Heartbeats stop too, so this lasts until a restart.
GaveUp == revoked /\ ~waiting /\ pc.reg = "none"

\* An actor waits in while (conn->is_starting_input).
Awaits == conn.starting /\ \E a \in Actors : pc[a] = "await"

\* The client is registered again and again, however heartbeats fail, answers
\* are lost and settings change.  There are two ways out: the shortages of
\* GaveUp, and a session that ends while an actor waits for an input thread,
\* which can then no longer come up: neither actor learns of it
\* (device_start_registration_wait, registration_wait_thread,
\* switcher_servers_restart_input_threads).
Reregisters ==
    \/ []<>Registered
    \/ <>[]GaveUp
    \/ <>[](Awaits /\ srv.session # dev.token)

\* The promise of the registration wait without the second way out: a client
\* that has lost its session registers again
\* (device_start_registration_wait, registration_wait_thread).
AlwaysReregisters == []<>Registered \/ <>[]GaveUp

\* An input thread that asks for a heartbeat does not wait for ever for the
\* mutex, unless the heartbeat thread itself waits for ever, with the mutex,
\* for an input thread (heartbeat_request_tls_sync).
SyncServed ==
    (\E i \in Threads : inp[i] = "sync")
        ~> (mutex = "nobody" \/ [](pc.hb = "await" /\ conn.starting))
=============================================================================
