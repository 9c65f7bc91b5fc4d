---------------------------- MODULE DeviceTraffic ----------------------------
(***************************************************************************)
(* How a device's traffic gets from the counters of the client             *)
(* (proxy_client.c, device_heartbeat.c) into the server's tables           *)
(* (device_manager.c).                                                     *)
(*                                                                         *)
(* The client counts what its tunnel forwards; a heartbeat carries the     *)
(* count since the last one that was answered, and an answer "ok" sets the *)
(* counter to 0.  The server's control thread takes one request after the  *)
(* other and adds the count to four places, each with a statement of its   *)
(* own that touches only an active session: the session, the device, the   *)
(* hour, the samples.  A session can end between two of the statements,    *)
(* because the web service and the cleanup thread end it in the database.  *)
(*                                                                         *)
(* Sent and received bytes travel together and are one count of units.     *)
(***************************************************************************)
EXTENDS Naturals, Sequences, FiniteSetsExt

CONSTANTS MaxTraffic,   \* bound: units forwarded
          MaxRequests,  \* bound: heartbeats and statistics requests sent
          MaxTokens     \* bound: sessions of the device

ASSUME TrafficAssumption ==
    MaxTraffic \in Nat /\ MaxRequests \in Nat /\ MaxTokens \in Nat \ {0}

VARIABLES
    forwarded,  \* units really forwarded by the tunnel
    client,     \* counter since_last, token, id of the request it waits for
    sent,       \* number of requests sent
    requests,   \* requests on their way, and the one being served, in order
    serving,    \* next statement of the control thread for the first of them
    session,    \* device_sessions
    ledger,     \* devices.total, device_statistics, device_traffic_samples
    history     \* what has happened that can make the counts differ

trafficVars ==
    <<forwarded, client, sent, requests, serving, session, ledger, history>>

Tokens == 1..MaxTokens

Requests == [id : 1..MaxRequests, token : Tokens, amount : 0..MaxTraffic,
             kind : {"heartbeat", "statistics"}]

\* The statements that follow each other, by kind of request.
Statements == {"session", "device", "hour", "sample", "answer"}

\* Counts can be added twice, so a ledger may hold more than was forwarded.
Amounts == 0..(MaxTraffic * MaxRequests)

TrafficTypeOK ==
    /\ forwarded \in 0..MaxTraffic
    /\ client \in [counter : 0..MaxTraffic, token : Tokens,
                   waits : 0..MaxRequests]
    /\ sent \in 0..MaxRequests
    /\ requests \in Seq(Requests)
    /\ serving \in {"idle"} \cup Statements
    /\ session \in [Tokens -> [status : {"none", "active", "ended"},
                               bytes : Amounts]]
    /\ ledger \in [device : Amounts, hour : Amounts, samples : Amounts]
    /\ history \in [overlap : BOOLEAN, unanswered : BOOLEAN, failed : BOOLEAN]

TrafficInit ==
    /\ forwarded = 0
    /\ client = [counter |-> 0, token |-> 1, waits |-> 0]
    /\ sent = 0
    /\ requests = <<>>
    /\ serving = "idle"
    /\ session = [t \in Tokens |->
                    [status |-> IF t = 1 THEN "active" ELSE "none", bytes |-> 0]]
    /\ ledger = [device |-> 0, hour |-> 0, samples |-> 0]
    /\ history = [overlap |-> FALSE, unanswered |-> FALSE, failed |-> FALSE]

-----------------------------------------------------------------------------
(* The client *)

\* client_traffic_add_sent, client_traffic_add_received.
Forward ==
    /\ forwarded < MaxTraffic
    /\ forwarded' = forwarded + 1
    /\ client' = [client EXCEPT !.counter = @ + 1]
    /\ history' = [history EXCEPT !.overlap = @ \/ client.waits # 0]
    /\ UNCHANGED <<sent, requests, serving, session, ledger>>

\* send_heartbeat up to the request.  A statistics request has the same
\* fields; the server does not ask who sends it.
Send(kind) ==
    /\ client.waits = 0
    /\ sent < MaxRequests
    /\ sent' = sent + 1
    /\ client' = [client EXCEPT !.waits = sent + 1]
    /\ requests' = Append(requests, [id |-> sent + 1, token |-> client.token,
                                     amount |-> client.counter, kind |-> kind])
    /\ UNCHANGED <<forwarded, serving, session, ledger, history>>

\* No answer in time.  The server may serve the request later, or it is lost.
Timeout(lost) ==
    /\ client.waits # 0
    /\ client' = [client EXCEPT !.waits = 0]
    /\ lost => /\ Len(requests) > 0 /\ requests[Len(requests)].id = client.waits
               /\ Len(requests) = 1 => serving = "idle"
    /\ requests' = IF lost THEN SubSeq(requests, 1, Len(requests) - 1) ELSE requests
    /\ history' = [history EXCEPT !.unanswered = @ \/ ~lost]
    /\ UNCHANGED <<forwarded, sent, serving, session, ledger>>

\* device_register_until_allowed: a new session, and the old one is over.
Reregister ==
    /\ client.waits = 0
    /\ session[client.token].status = "ended"
    /\ client.token < MaxTokens
    /\ client' = [client EXCEPT !.token = @ + 1]
    /\ session' = [session EXCEPT ![client.token + 1].status = "active"]
    /\ UNCHANGED <<forwarded, sent, requests, serving, ledger, history>>

-----------------------------------------------------------------------------
(* The server *)

Request == Head(requests)

IsActive(t) == session[t].status = "active"

\* Mutant: an error sets the counter to 0 too.
AnswerResetsAlways(ok) ==
    /\ requests' = Tail(requests)
    /\ serving' = "idle"
    /\ client' = IF client.waits = Request.id
                 THEN [client EXCEPT !.waits = 0, !.counter = 0] ELSE client

\* The answer.  Only a client that still waits for it sees it, and only "ok"
\* makes it call client_traffic_reset_since_last.
Answer(ok) ==
    /\ requests' = Tail(requests)
    /\ serving' = "idle"
    /\ client' = IF client.waits = Request.id
                 THEN [client EXCEPT !.waits = 0,
                                     !.counter = IF ok THEN 0 ELSE @]
                 ELSE client

\* process_heartbeat_request and process_statistics_request up to the first
\* statement: the rate limit and the session are checked.
Serve(limited) ==
    /\ serving = "idle"
    /\ requests # <<>>
    /\ IF limited \/ ~IsActive(Request.token)
       THEN Answer(FALSE)
       ELSE serving' = "session" /\ UNCHANGED <<client, requests>>
    /\ UNCHANGED <<forwarded, sent, session, ledger, history>>

\* update_device_statistics, first statement.  If it fails the second is not
\* tried.
AddToSession(fails) ==
    /\ serving = "session"
    /\ session' = IF ~fails /\ IsActive(Request.token)
                  THEN [session EXCEPT ![Request.token].bytes = @ + Request.amount]
                  ELSE session
    /\ serving' = IF ~fails THEN "device"
                  ELSE IF Request.kind = "heartbeat" THEN "hour" ELSE "answer"
    /\ history' = [history EXCEPT !.failed = @ \/ fails]
    /\ UNCHANGED <<forwarded, client, sent, requests, ledger>>

\* A later statement: it adds to one ledger if the session is still active.
Add(statement, entry, next, fails) ==
    /\ serving = statement
    /\ ledger' = IF ~fails /\ IsActive(Request.token)
                 THEN [ledger EXCEPT ![entry] = @ + Request.amount] ELSE ledger
    /\ serving' = next
    /\ history' = [history EXCEPT !.failed = @ \/ fails]
    /\ UNCHANGED <<forwarded, client, sent, requests, session>>

AddToDevice(fails) ==
    Add("device", "device",
        IF Request.kind = "heartbeat" THEN "hour" ELSE "answer", fails)

AddToHour(fails) == Add("hour", "hour", "sample", fails)

AddSample(fails) == Add("sample", "samples", "answer", fails)

Answers ==
    /\ serving = "answer"
    /\ Answer(TRUE)
    /\ UNCHANGED <<forwarded, sent, session, ledger, history>>

\* The session ends: a disconnect from the web, an expiry.
EndSession ==
    \E t \in Tokens :
        /\ IsActive(t)
        /\ session' = [session EXCEPT ![t].status = "ended"]
        /\ history' = [history EXCEPT !.failed = @ \/ serving # "idle"]
        /\ UNCHANGED <<forwarded, client, sent, requests, serving, ledger>>

TrafficNext ==
    \/ Forward
    \/ \E kind \in {"heartbeat", "statistics"} : Send(kind)
    \/ \E lost \in BOOLEAN : Timeout(lost)
    \/ Reregister
    \/ \E limited \in BOOLEAN : Serve(limited)
    \/ \E fails \in BOOLEAN :
          \/ AddToSession(fails) \/ AddToDevice(fails)
          \/ AddToHour(fails) \/ AddSample(fails)
    \/ Answers
    \/ EndSession

-----------------------------------------------------------------------------

\* The device is credited with more than it forwarded only after an answer
\* that came too late, or not at all, to a request that was served: then the
\* same units are sent again.
OvercountedOnlyUnanswered ==
    ~history.unanswered => ledger.device <= forwarded

\* Units are missing from the total and from the counter only if the tunnel
\* forwarded while a heartbeat was out (the reset throws that away), a
\* statement failed, or the session ended while the request was served.
MissingOnlyOverlapped ==
    ~history.overlap /\ ~history.failed =>
        ledger.device + client.counter >= forwarded

\* A device's total never exceeds what its sessions have together: whatever
\* ends between two statements, nothing is booked to the device that no
\* session shows.
TotalsOrdered ==
    ledger.device <= MapThenSumSet(LAMBDA t : session[t].bytes, Tokens)

\* Every difference between what a device forwarded and what the tables say
\* has one of the causes above: update_device_statistics, the answers that
\* process_heartbeat_request gives and client_traffic_reset_since_last lose
\* and repeat nothing in any other way.
TotalsExplained ==
    OvercountedOnlyUnanswered /\ MissingOnlyOverlapped /\ TotalsOrdered
=============================================================================
