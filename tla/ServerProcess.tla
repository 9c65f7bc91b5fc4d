---------------------------- MODULE ServerProcess ----------------------------
(***************************************************************************)
(* The life of the server process: main (server/main.c), the control       *)
(* thread of the device manager, and the array servers that both use       *)
(* (proxy_server.c, proxy_server_device_integration.c, device_manager.c).  *)
(*                                                                         *)
(* main fills the array with the configured servers and opens their        *)
(* sockets, starts the device manager, and only then goes through the      *)
(* array and starts a runtime for every element.  The control thread runs  *)
(* already: for a device it appends an element to the same array, opens    *)
(* its sockets and starts a runtime of its own, and it stops the runtime   *)
(* of a device that is disconnected or whose listeners are to be started   *)
(* anew; the element stays in the array.                                   *)
(*                                                                         *)
(* A pair of listening sockets is a number (of a configured server one of  *)
(* the two may fail to open); NoSocket stands for the descriptors 0 of an  *)
(* element whose sockets are not open yet.  Threads are taken to start     *)
(* (server_input_start waits for them without limit) and memory to suffice *)
(* for the table of limits: without it device_manager_init goes on, and    *)
(* the first request ends the process.                                     *)
(***************************************************************************)
EXTENDS Naturals, Sequences, FiniteSets

CONSTANTS MaxFixed,  \* bound: configured servers
          MaxOpened  \* bound: socket pairs opened

ASSUME ProcessAssumption == MaxFixed \in Nat /\ MaxOpened \in Nat

VARIABLES
    mode,      \* started with device management, without, or without database
    main,      \* what main does
    next,      \* its place in the array
    servers,   \* the array
    opened,    \* socket pairs opened so far
    early,     \* those the control thread opened before main had started all
    closed,    \* those the control thread closed with their runtime
    runtimes,  \* runtimes: the sockets they listen on, and who started them
    control,   \* the control thread
    running,   \* g_running
    listening, \* the control socket is open
    tables     \* g_ssl_ctx and g_rate_limit_table exist

vars == <<mode, main, next, servers, opened, early, closed, runtimes,
          control, running, listening, tables>>

NoSocket == 0

\* proxy_server_t.  listens stands for is_input_enabled, is_output_enabled.
Ends == {"input", "output"}

Server == [enable : BOOLEAN, listens : SUBSET Ends, socket : 0..MaxOpened]

Blank == [enable |-> FALSE, listens |-> {}, socket |-> NoSocket]

Runtime == [socket : 0..MaxOpened, server : Nat \ {0}, by : {"main", "control"}]

\* Elements of the array only lie within it, sockets were opened.
TypeOK ==
    /\ mode \in {"managed", "plain", "nodb"}
    /\ main \in {"init", "listen", "start", "run", "join", "stopped", "exit"}
    /\ next \in Nat \ {0}
    /\ servers \in Seq(Server)
    /\ opened \in 0..MaxOpened
    /\ early \subseteq 1..opened
    /\ closed \subseteq 1..opened
    /\ runtimes \subseteq Runtime
    /\ \A i \in DOMAIN servers : servers[i].socket <= opened
    /\ control \in {"off", "check", "accept", "serve", "append", "enable", "open", "ended"}
    /\ running \in BOOLEAN
    /\ listening \in BOOLEAN
    /\ tables \in BOOLEAN

-----------------------------------------------------------------------------
(* Initialisation: what is configured, and which sockets can be opened *)

\* servers_init.  A server that is not enabled is left alone; one whose
\* sockets cannot be opened stays in the array and does not listen there.
Configured(n, on, in, out) ==
    [i \in 1..n |->
        IF i \notin on THEN Blank
        ELSE [enable |-> TRUE,
              listens |-> (IF i \in in THEN {"input"} ELSE {})
                          \cup (IF i \in out THEN {"output"} ELSE {}),
              socket |-> IF i \in in \cup out
                         THEN Cardinality({j \in on \cap (in \cup out) : j <= i})
                         ELSE NoSocket]]

\* servers_init_no_db: the one server of the command line.
FromCommandLine(in, out) == Configured(1, {1}, in, out)

Init ==
    /\ mode \in {"managed", "plain", "nodb"}
    /\ main = IF mode = "managed" THEN "init" ELSE "start"
    /\ next = 1
    /\ IF mode = "nodb"
       THEN \E in, out \in SUBSET {1} : servers = FromCommandLine(in, out)
       ELSE \E n \in 0..MaxFixed : \E on, in, out \in SUBSET (1..n) :
                servers = Configured(n, on, in, out)
    /\ opened = Cardinality({i \in DOMAIN servers : servers[i].listens # {}})
    /\ early = {}
    /\ closed = {}
    /\ runtimes = {}
    /\ control = "off"
    /\ running = FALSE
    /\ listening = FALSE
    /\ tables = FALSE

-----------------------------------------------------------------------------
(* main *)

\* device_manager_init: the TLS context and the table of limits.  If it
\* fails the server goes on without device management.
ManagerInit(ok) ==
    /\ main = "init"
    /\ tables' = ok
    /\ main' = IF ok THEN "listen" ELSE "start"
    /\ UNCHANGED <<mode, next, servers, opened, early, closed, runtimes,
                   control, running, listening>>

\* device_manager_start: the control socket, the startup clean-up and the
\* control thread.
ManagerStart(ok) ==
    /\ main = "listen"
    /\ running' = ok
    /\ listening' = ok
    /\ control' = IF ok THEN "check" ELSE "off"
    /\ main' = "start"
    /\ UNCHANGED <<mode, next, servers, opened, early, closed, runtimes,
                   tables>>

\* Mutant: the last element is left out.
MoreButLast == next < Len(servers)

\* The loop of switcher_servers_start; servers_count is read each time.
More == next <= Len(servers)

\* switcher_servers_start, for one element.
StartNext ==
    /\ main = "start" /\ More
    /\ LET server == servers[next] IN
       runtimes' = IF server.enable /\ server.listens # {}
                   THEN runtimes \cup {[socket |-> server.socket, server |-> next,
                                        by |-> "main"]}
                   ELSE runtimes
    /\ next' = next + 1
    /\ UNCHANGED <<mode, main, servers, opened, early, closed, control, running,
                   listening, tables>>

StartDone ==
    /\ main = "start" /\ ~More
    /\ main' = "run"
    /\ UNCHANGED <<mode, next, servers, opened, early, closed, runtimes,
                   control, running, listening, tables>>

\* A signal came (is_stop_requested): device_management_shutdown up to the
\* join.
Stop ==
    /\ main = "run"
    /\ main' = IF running THEN "join" ELSE "stopped"
    /\ running' = FALSE
    /\ listening' = FALSE
    /\ UNCHANGED <<mode, next, servers, opened, early, closed, runtimes,
                   control, tables>>

\* Mutant: the control thread is not waited for.
JoinedAtOnce ==
    /\ main = "join"
    /\ tables' = FALSE
    /\ main' = "stopped"
    /\ UNCHANGED <<mode, next, servers, opened, early, closed, runtimes,
                   control, running, listening>>

\* The control thread has ended; device_manager_stop frees what it used.
Joined ==
    /\ main = "join"
    /\ control = "ended"
    /\ tables' = FALSE
    /\ main' = "stopped"
    /\ UNCHANGED <<mode, next, servers, opened, early, closed, runtimes,
                   control, running, listening>>

\* switcher_servers_stop frees the contexts, the process ends with all of
\* its other threads.
Exit ==
    /\ main = "stopped"
    /\ main' = "exit"
    /\ UNCHANGED <<mode, next, servers, opened, early, closed, runtimes,
                   control, running, listening, tables>>

-----------------------------------------------------------------------------
(* The control thread *)

ControlStep(from, to) ==
    /\ control = from
    /\ control' = to
    /\ UNCHANGED <<mode, main, next, running, listening, tables>>

\* control_server_thread: the condition of the loop.
Check ==
    /\ ControlStep("check", IF running THEN "accept" ELSE "ended")
    /\ UNCHANGED <<servers, opened, early, closed, runtimes>>

\* Mutant: accept is not woken up when the control socket is closed.
AcceptSleeps ==
    /\ listening
    /\ ControlStep("accept", "serve")
    /\ UNCHANGED <<servers, opened, early, closed, runtimes>>

\* accept: a connection, or an error once the socket is closed.
Accept ==
    /\ ControlStep("accept", IF listening THEN "serve" ELSE "check")
    /\ UNCHANGED <<servers, opened, early, closed, runtimes>>

\* handle_device_connection where no tunnel has to be started, or not any
\* more: nothing is read in 10 seconds, the request is refused, the tunnel is
\* healthy or was only to be stopped.
Served ==
    /\ ControlStep("serve", "check")
    /\ UNCHANGED <<servers, opened, early, closed, runtimes>>

\* create_dynamic_server_for_device: realloc and an element of zeros.
AppendServer ==
    /\ opened < MaxOpened
    /\ ControlStep("serve", "append")
    /\ servers' = Append(servers, Blank)
    /\ UNCHANGED <<opened, early, closed, runtimes>>

\* start_dynamic_server_at_index sets the element's fields ...
EnableServer ==
    /\ ControlStep("append", "enable")
    /\ servers' = [servers EXCEPT ![Len(servers)].enable = TRUE,
                                  ![Len(servers)].listens = Ends]
    /\ UNCHANGED <<opened, early, closed, runtimes>>

\* ... opens its sockets ...
OpenServer ==
    /\ ControlStep("enable", "open")
    /\ opened' = opened + 1
    /\ servers' = [servers EXCEPT ![Len(servers)].socket = opened + 1]
    /\ early' = IF main \in {"run", "join"} THEN early ELSE early \cup {opened + 1}
    /\ UNCHANGED <<closed, runtimes>>

\* ... or cannot, and takes the element away again ...
OpenFails ==
    /\ ControlStep("enable", "check")
    /\ servers' = SubSeq(servers, 1, Len(servers) - 1)
    /\ UNCHANGED <<opened, early, closed, runtimes>>

\* ... and starts the runtime.
StartServer ==
    /\ ControlStep("open", "check")
    /\ runtimes' = runtimes \cup
          {[socket |-> servers[Len(servers)].socket, server |-> Len(servers), by |-> "control"]}
    /\ UNCHANGED <<servers, opened, early, closed>>

\* stop_dynamic_server_runtime, for a disconnect, a changed TLS setting or a
\* listener that is not healthy; the request goes on.
StopServer ==
    \E r \in runtimes :
        /\ r.by = "control"
        /\ ControlStep("serve", "serve")
        /\ runtimes' = runtimes \ {r}
        /\ closed' = closed \cup {r.socket}
        /\ UNCHANGED <<servers, opened, early>>

-----------------------------------------------------------------------------

Main ==
    \/ \E ok \in BOOLEAN : ManagerInit(ok) \/ ManagerStart(ok)
    \/ StartNext \/ StartDone \/ Joined \/ Exit

Control ==
    \/ Check \/ Accept \/ Served
    \/ AppendServer \/ EnableServer \/ OpenServer \/ OpenFails \/ StartServer
    \/ StopServer

Next == Main \/ Stop \/ (main # "exit" /\ Control)

\* main and the control thread run on; a request is served within its
\* timeouts.  Whether a signal comes is not known.
Spec == Init /\ [][Next]_vars /\ WF_vars(Main) /\ WF_vars(main # "exit" /\ Control)

-----------------------------------------------------------------------------

ServedBy(s) == {r \in runtimes : r.socket = s}

\* Once main has gone through the array, every pair of sockets is listened on
\* by exactly one runtime: those of configured servers, and those of devices
\* that registered since, until the control thread closes them; then by none.
\* (The pair the control thread has just opened may have none yet.)
ServedOnce ==
    main = "run" => \A i \in DOMAIN servers :
        LET server == servers[i] IN
        /\ server.enable /\ server.listens # {}
        /\ server.socket \notin early \cup {NoSocket}
        /\ ~(i = Len(servers) /\ control = "open")
        => Cardinality(ServedBy(server.socket)) =
               IF server.socket \in closed THEN 0 ELSE 1

\* The control thread never works on a request when the context and the
\* table of limits are gone: device_manager_stop frees them only after it has
\* joined the thread.
TablesOutliveRequests ==
    main # "exit" /\ control \notin {"off", "check", "accept", "ended"} => tables

\* A server that is asked to stop exits: the control thread notices, although
\* it may wait in accept or be in the middle of a request.
StopEnds == main = "join" ~> main = "exit"
=============================================================================
