------------------------------ MODULE TlsReload ------------------------------
(***************************************************************************)
(* How a change of a device's TLS setting reaches the two ends of its      *)
(* tunnel.                                                                 *)
(*                                                                         *)
(* The web service writes the setting into the table devices and asks the  *)
(* control server to reload it (devices.service.js); if that fails it only *)
(* logs.  The control thread then restarts the tunnel's listeners and      *)
(* keeps a flag for the device in a queue of limited length; a heartbeat   *)
(* restarts the listeners too if they do not have the setting, and its     *)
(* answer carries the setting and the flag (device_manager.c).  The client *)
(* restarts its side if the setting is new to it or the flag is set        *)
(* (proxy_client_device_integration.c).  It does so in the thread of the   *)
(* heartbeats, which waits for the new tunnel without a limit: a handshake *)
(* with a listener that speaks no TLS hangs, one that is broken off asks   *)
(* for a heartbeat under the mutex that this thread holds (device_         *)
(* heartbeat.c:35), and the client sends no heartbeat any more.            *)
(*                                                                         *)
(* The setting is read once for the listeners and again for the answer,    *)
(* and the web service may write it in between; requests and answers get   *)
(* lost; the certificate may be unreadable when listeners start, which     *)
(* then start without TLS or not at all.  The settings for the two         *)
(* listeners are treated alike and are one here.                           *)
(***************************************************************************)
EXTENDS Naturals, SequencesExt

CONSTANTS Devices,
          Silent,      \* a device that is away, whose flag may be in the queue
          MaxPending,  \* TLS_RELOAD_PENDING_MAX
          MaxChanges,  \* bound: changes of a setting
          MaxLapses    \* bound: sessions that end, times certificates fail

\* The queue of the server has room for 128 flags.
ASSUME TlsAssumption ==
    MaxPending \in Nat \ {0} /\ MaxChanges \in Nat /\ MaxLapses \in Nat

VARIABLES
    setting,   \* devices.enable_tunnel_ssl
    session,   \* whether the device has an active session
    up,        \* whether the device's listeners are there
    listener,  \* what they speak
    pending,   \* g_tls_reload_pending
    control,   \* the control thread: what it does, for whom, the setting read
    web,       \* the web service, after it wrote the setting
    client,    \* the client: its setting, and what it waits for
    answer,    \* the answer on its way to each client
    certs,     \* whether the certificate can be read
    changes, lapses

tlsVars == <<setting, session, up, listener, pending, control, web, client, answer,
             certs, changes, lapses>>

Idle == [at |-> "idle", tls |-> FALSE]

NoAnswer == [status |-> "none", tls |-> FALSE, reload |-> FALSE]

TlsTypeOK ==
    /\ setting \in [Devices -> BOOLEAN]
    /\ session \in [Devices -> BOOLEAN]
    /\ up \in [Devices -> BOOLEAN]
    /\ listener \in [Devices -> BOOLEAN]
    /\ pending \in Seq(Devices \cup {Silent})
    /\ Len(pending) <= MaxPending
    /\ control \in [at : {"idle"}, tls : {FALSE}]
          \cup [at : {"reload", "ensure", "reply"}, device : Devices, tls : BOOLEAN]
    /\ web \in [Devices -> {"idle", "changed"}]
    /\ client \in [Devices -> [tls : BOOLEAN,
                            state : {"idle", "asks", "applies", "stuck", "lost"}]]
    /\ answer \in [Devices -> [status : {"none", "ok", "bare", "terminated"},
                               tls : BOOLEAN, reload : BOOLEAN]]
    /\ certs \in BOOLEAN
    /\ changes \in 0..MaxChanges
    /\ lapses \in 0..MaxLapses

TlsInit ==
    /\ setting = [d \in Devices |-> FALSE]
    /\ session = [d \in Devices |-> TRUE]
    /\ up = session
    /\ listener = setting
    /\ pending \in {<<>>, <<Silent>>}
    /\ control = Idle
    /\ web = [d \in Devices |-> "idle"]
    /\ client = [d \in Devices |-> [tls |-> FALSE, state |-> "idle"]]
    /\ answer = [d \in Devices |-> NoAnswer]
    /\ certs = TRUE
    /\ changes = 0
    /\ lapses = 0

-----------------------------------------------------------------------------
(* The queue of flags *)

\* device_manager_set_tls_reload_pending.
SetPending(d) ==
    IF Contains(pending, d) \/ Len(pending) >= MaxPending THEN pending
    ELSE Append(pending, d)

\* Mutant: the last flag is not moved into the gap.
ConsumeLosesLast(d) ==
    IF Contains(pending, d) THEN Front(pending) ELSE pending

\* device_manager_consume_tls_reload_pending: the last flag fills the gap.
ConsumePending(d) ==
    IF Contains(pending, d)
    THEN Front([pending EXCEPT ![SelectInSeq(pending, LAMBDA e : e = d)] = Last(pending)])
    ELSE pending

-----------------------------------------------------------------------------
(* The web service *)

\* patch: the row is written ...
ChangeSetting(d) ==
    /\ web[d] = "idle"
    /\ changes < MaxChanges
    /\ setting' = [setting EXCEPT ![d] = ~@]
    /\ web' = [web EXCEPT ![d] = "changed"]
    /\ changes' = changes + 1
    /\ UNCHANGED <<session, up, listener, pending, control, client, answer,
                   certs, lapses>>

\* ... and with an active session the command is sent; arrives says whether
\* the control server gets to serve it and reads the session and the device.
RequestReload(d, arrives) ==
    /\ web[d] = "changed"
    /\ arrives => control = Idle
    /\ web' = [web EXCEPT ![d] = "idle"]
    /\ control' = IF session[d] /\ arrives
                  THEN [at |-> "reload", device |-> d, tls |-> setting[d]] ELSE control
    /\ UNCHANGED <<setting, session, up, listener, pending, client, answer,
                   certs, changes, lapses>>

-----------------------------------------------------------------------------
(* The control thread, one request after the other *)

\* apply_dynamic_server_ssl_config: without a certificate there is no TLS.
Started(tls) == tls /\ certs

\* What may go wrong is counted.
Counted(fails) ==
    /\ fails => lapses < MaxLapses
    /\ lapses' = IF fails THEN lapses + 1 ELSE lapses

\* start_dynamic_server_at_index: listeners that fail to start are not there.
StartListeners(d, tls, fails) ==
    /\ up' = [up EXCEPT ![d] = ~fails]
    /\ listener' = [listener EXCEPT ![d] = ~fails /\ Started(tls)]

\* reload_dynamic_server_tls_for_device, once the session and the setting
\* are read: the listeners are stopped in any case, and the flag is kept only
\* if they start again.
Reload(fails) ==
    /\ control.at = "reload"
    /\ StartListeners(control.device, control.tls, fails)
    /\ pending' = IF fails THEN pending ELSE SetPending(control.device)
    /\ control' = Idle
    /\ Counted(fails)
    /\ UNCHANGED <<setting, session, web, client, answer, certs, changes>>

\* The setting as device_manager_load_device_by_id finds it.  If that fails,
\* a heartbeat goes on with no TLS.
Read(d, fails) == ~fails /\ setting[d]

\* process_heartbeat_request: update_device_heartbeat, and the setting is read.
Heartbeat(d, fails) ==
    /\ control = Idle
    /\ client[d].state = "asks" /\ answer[d] = NoAnswer
    /\ IF session[d]
       THEN /\ control' = [at |-> "ensure", device |-> d, tls |-> Read(d, fails)]
            /\ Counted(fails)
            /\ UNCHANGED answer
       ELSE /\ answer' = [answer EXCEPT ![d] = [NoAnswer EXCEPT !.status = "terminated"]]
            /\ ~fails
            /\ UNCHANGED <<control, lapses>>
    /\ UNCHANGED <<setting, session, up, listener, pending, web, client, certs,
                   changes>>


\* ensure_dynamic_server_for_device: listeners that are not there, or not
\* with the setting, are started.
EnsureListeners(d, tls, fails) ==
    /\ IF up[d] /\ listener[d] = tls THEN ~fails /\ UNCHANGED <<up, listener>>
       ELSE StartListeners(d, tls, fails)
    /\ Counted(fails)

\* A heartbeat goes on although the listeners do not start.
Ensure(fails) ==
    /\ control.at = "ensure"
    /\ EnsureListeners(control.device, control.tls, fails)
    /\ control' = [control EXCEPT !.at = "reply"]
    /\ UNCHANGED <<setting, session, pending, web, client, answer, certs,
                   changes>>

\* The rest: the setting is read again, the flag is taken, the answer sent.
\* If the session has ended meanwhile the answer says only "ok".
Reply(fails) ==
    /\ control.at = "reply"
    /\ LET d == control.device IN
       IF session[d]
       THEN /\ answer' = [answer EXCEPT ![d] =
                  [status |-> "ok", tls |-> Read(d, fails),
                   reload |-> Contains(pending, d)]]
            /\ pending' = ConsumePending(d)
            /\ Counted(fails)
       ELSE /\ answer' = [answer EXCEPT ![d] = [NoAnswer EXCEPT !.status = "bare"]]
            /\ ~fails
            /\ UNCHANGED <<pending, lapses>>
    /\ control' = Idle
    /\ UNCHANGED <<setting, session, up, listener, web, client, certs, changes>>

\* process_registration_request: without listeners the session is ended
\* again and the client is refused; the answer arrives or is lost.
Register(d, fails, arrives) ==
    /\ control = Idle
    /\ client[d].state = "lost"
    /\ EnsureListeners(d, setting[d], fails)
    /\ session' = [session EXCEPT ![d] = ~fails]
    /\ client' = IF arrives /\ ~fails
                 THEN [client EXCEPT ![d] = [tls |-> setting[d], state |-> "idle"]]
                 ELSE client
    /\ UNCHANGED <<setting, pending, control, web, answer, certs, changes>>

-----------------------------------------------------------------------------
(* The client *)

SendHeartbeat(d) ==
    /\ client[d].state = "idle"
    /\ client' = [client EXCEPT ![d].state = "asks"]
    /\ UNCHANGED <<setting, session, up, listener, pending, control, web,
                   answer, certs, changes, lapses>>

\* device_apply_tls_settings_update: if there is something to do, the thread
\* drops the tunnel and begins a new one.
Apply(d) ==
    [tls |-> answer[d].tls,
     state |-> IF answer[d].tls # client[d].tls \/ answer[d].reload
               THEN "applies" ELSE "idle"]

\* The answer is read: the setting is applied, or a registration begins
\* (device_start_registration_wait).
ReceiveAnswer(d) ==
    /\ answer[d].status # "none"
    /\ client' = [client EXCEPT ![d] =
          CASE answer[d].status = "terminated" -> [@ EXCEPT !.state = "lost"]
            [] answer[d].status = "bare" -> [@ EXCEPT !.state = "idle"]
            [] answer[d].status = "ok" -> Apply(d)]
    /\ answer' = [answer EXCEPT ![d] = NoAnswer]
    /\ UNCHANGED <<setting, session, up, listener, pending, control, web, certs,
                   changes, lapses>>

\* A connection without TLS is there at once, whatever the listener speaks.
Reachable(d) == up[d] /\ (client[d].tls => listener[d])

\* server_input_start returns: the new tunnel is up.
Connect(d) ==
    /\ client[d].state = "applies"
    /\ Reachable(d)
    /\ client' = [client EXCEPT ![d].state = "idle"]
    /\ UNCHANGED <<setting, session, up, listener, pending, control, web,
                   answer, certs, changes, lapses>>

\* SSL_connect meets a listener that waits for a user to send plain data to,
\* or is broken off without a certificate: the tunnel never comes.
HandshakeFails(d) ==
    /\ client[d].state = "applies"
    /\ up[d] /\ client[d].tls
    /\ Counted(listener[d])
    /\ client' = [client EXCEPT ![d].state = "stuck"]
    /\ UNCHANGED <<setting, session, up, listener, pending, control, web,
                   answer, certs, changes>>

\* The answer is lost; the next heartbeat follows or, after some failures in
\* a row, a registration.
LoseAnswer(d, again) ==
    /\ answer[d].status # "none"
    /\ Counted(again)
    /\ client' = [client EXCEPT ![d].state = IF again THEN "lost" ELSE "idle"]
    /\ answer' = [answer EXCEPT ![d] = NoAnswer]
    /\ UNCHANGED <<setting, session, up, listener, pending, control, web, certs,
                   changes>>

-----------------------------------------------------------------------------

\* A session expires or is ended by an operator, with its listeners.
EndSession(d, stops) ==
    /\ session[d]
    /\ stops => control = Idle
    /\ lapses < MaxLapses
    /\ session' = [session EXCEPT ![d] = FALSE]
    /\ up' = [up EXCEPT ![d] = @ /\ ~stops]
    /\ listener' = [listener EXCEPT ![d] = @ /\ ~stops]
    /\ lapses' = lapses + 1
    /\ UNCHANGED <<setting, pending, control, web, client, answer, certs,
                   changes>>

\* The certificate is being replaced and can or cannot be read.
CertificateChanges ==
    /\ certs => lapses < MaxLapses
    /\ certs' = ~certs
    /\ lapses' = IF certs THEN lapses + 1 ELSE lapses
    /\ UNCHANGED <<setting, session, up, listener, pending, control, web,
                   client, answer, changes>>

TlsNext ==
    \/ \E d \in Devices :
          \/ ChangeSetting(d) \/ SendHeartbeat(d)
          \/ ReceiveAnswer(d) \/ Connect(d) \/ HandshakeFails(d)
          \/ \E again \in BOOLEAN : LoseAnswer(d, again)
          \/ \E stops \in BOOLEAN : EndSession(d, stops)
          \/ \E arrives \in BOOLEAN :
                \/ RequestReload(d, arrives)
                \/ \E fails \in BOOLEAN : Register(d, fails, arrives)
          \/ \E fails \in BOOLEAN : Heartbeat(d, fails)
    \/ \E fails \in BOOLEAN : Reload(fails) \/ Ensure(fails) \/ Reply(fails)
    \/ CertificateChanges

\* The control thread and the web service run on; a client that is not stuck
\* sends its heartbeats and is served in turn (the kernel queues its
\* connection), and connects to a listener it can reach; not all answers get
\* lost.
TlsFairness ==
    /\ WF_tlsVars(Reload(FALSE)) /\ WF_tlsVars(Ensure(FALSE))
    /\ WF_tlsVars(Reply(FALSE))
    /\ \A d \in Devices :
          /\ WF_tlsVars(SendHeartbeat(d))
          /\ WF_tlsVars(Connect(d))
          /\ WF_tlsVars(RequestReload(d, FALSE))
          /\ SF_tlsVars(Heartbeat(d, FALSE))
          /\ SF_tlsVars(ReceiveAnswer(d))
          /\ SF_tlsVars(Register(d, FALSE, TRUE))

-----------------------------------------------------------------------------

\* The thread of the heartbeats waits for a tunnel that it cannot have
\* (proxy_client.c:1136).
WaitsInVain(d) ==
    \/ client[d].state = "stuck"
    \/ client[d].state = "applies" /\ ~Reachable(d)

\* Once settings stop changing and the certificate can be read, both ends of
\* every tunnel come to speak what the setting says and stay so: although the
\* reload command may be lost, the queue of flags full, listeners fail to
\* start or the answer that takes a flag get lost.  The one way not to get
\* there is a client that never sends a heartbeat again, because the setting
\* it was told is not what its listener speaks (it was written between the
\* two times the server reads it) or its handshake was broken off.
TlsSettles ==
    <>[]certs => \A d \in Devices :
        \/ <>[](up[d] /\ listener[d] = setting[d] /\ client[d].tls = setting[d])
        \/ <>[]WaitsInVain(d)

\* The flag of a device leaves the queue only with an answer to that device:
\* taking one device's flag keeps the flags of the others.
FlagGoesToItsDevice ==
    [][\A d \in Devices \cup {Silent} :
          Contains(pending, d) /\ ~Contains(pending', d)
              => d \in Devices /\ answer'[d].reload]_tlsVars
=============================================================================
