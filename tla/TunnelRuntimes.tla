---------------------------- MODULE TunnelRuntimes ----------------------------
(***************************************************************************)
(* The tunnel runtimes of the C server: for each leased pair of ports the  *)
(* control thread starts two listeners (the public port and the tunnel     *)
(* port), remembers them in g_dynamic_runtimes, and stops them again.      *)
(*                                                                         *)
(* The server's state is a record with the registry g_dynamic_runtimes,    *)
(* the runtimes (connections_data) and the process's descriptor table; an  *)
(* operator named after a function of the code takes such a record and     *)
(* gives the one the function leaves, or the set of its outcomes.  A       *)
(* control request is one step: the control thread handles one at a time   *)
(* and nothing else starts or stops a runtime.  The leases are those of    *)
(* module DeviceLease, reduced to the pair each device holds.              *)
(*                                                                         *)
(* Each start appends a slot to the array servers, which is not modelled:  *)
(* a stop clears enable in the runtime's copy of the slot and a failed     *)
(* start takes the slot off the array again, so find_stopped_dynamic_server *)
(* never finds one to restart and no two runtimes share a slot.            *)
(***************************************************************************)
EXTENDS Integers, FiniteSets, FiniteSetsExt

CONSTANTS
    Devices,
    Pairs,        \* even ports, each standing for itself and the port after it
    NoPair,
    Fixed,        \* devices.preferred_port: [Devices -> Pairs \cup {NoPair}]
    TlsDevices,   \* devices whose TLS setting the operator changes
    MaxRuntimes,  \* MAX_DYNAMIC_SERVER_RUNTIMES
    MaxConns,     \* bound on connections in slots, fewer than there are slots
    MaxLive,      \* bound on runtimes that are not stopped
    LastFd        \* the largest descriptor of the process

ASSUME RuntimeAssumption ==
    /\ Fixed \in [Devices -> Pairs \cup {NoPair}]
    /\ Pairs \subseteq Nat /\ NoPair \notin Pairs
    /\ Devices # {} /\ TlsDevices \subseteq Devices
    /\ MaxRuntimes \in Nat \ {0} /\ MaxLive \in Nat \ {0} /\ LastFd \in Nat

VARIABLES
    lease,    \* the pair of each device's active session
    tls,      \* devices.enable_*_ssl, with certificates configured
    reload,   \* devices whose change the web service has yet to announce
    st        \* the server process

vars == <<lease, tls, reload, st>>

-----------------------------------------------------------------------------
(* Descriptors *)

Fds == 0..LastFd
NoFd == -1

Closed == [kind |-> "closed", pair |-> NoPair]
Stdin == [kind |-> "stdin", pair |-> NoPair]
Unbound == [kind |-> "socket", pair |-> NoPair]
Connection == [kind |-> "connection", pair |-> NoPair]
Listener(side, p) == [kind |-> side, pair |-> p]

Sides == {"input", "output"}

File == {Closed, Stdin, Unbound, Connection}
          \cup {Listener(side, p) : side \in Sides, p \in Pairs}

Accepting(file) == file.kind \in Sides

FreeFds(files) == {f \in Fds : files[f] = Closed}

\* close() on a set of values; a value that is no open descriptor is ignored.
close(files, F) == [f \in Fds |-> IF f \in F THEN Closed ELSE files[f]]

\* init_input_socket and init_output_socket: the lowest free descriptor
\* becomes a listener on the port.  If the port is bound already, bind fails
\* and the descriptor stays open.
init_socket(files, side, p) ==
    IF FreeFds(files) = {}
    THEN [ok |-> FALSE, fd |-> NoFd, files |-> files]
    ELSE LET f == Min(FreeFds(files))
             bound == \E g \in Fds : files[g] = Listener(side, p)
         IN  [ok |-> ~bound, fd |-> f,
              files |-> [files EXCEPT ![f] =
                            IF bound THEN Unbound ELSE Listener(side, p)]]

-----------------------------------------------------------------------------
(* The registry and the runtimes *)

Slots == 1..MaxRuntimes

Entry == [active : BOOLEAN, device : Devices, pair : Pairs \cup {NoPair},
          runtime : 0..MaxLive]

NoEntry == [active |-> FALSE, device |-> CHOOSE d \in Devices : TRUE,
            pair |-> NoPair, runtime |-> 0]

Runtime == [device : Devices, pair : Pairs \cup {NoPair}, tls : BOOLEAN,
            enable : BOOLEAN, input : Fds \cup {NoFd}, output : Fds \cup {NoFd},
            local : SUBSET Fds, inputRunning : BOOLEAN, outputRunning : BOOLEAN]

\* A runtime that was stopped is never looked at again: connections_data is
\* not freed, and the model takes its place for the next one.
Gone == [device |-> CHOOSE d \in Devices : TRUE, pair |-> NoPair, tls |-> FALSE,
         enable |-> FALSE, input |-> NoFd, output |-> NoFd, local |-> {},
         inputRunning |-> FALSE, outputRunning |-> FALSE]

\* The process after its start: no dynamic server, descriptor 0 is stdin.
Fresh == [registry |-> [i \in Slots |-> NoEntry],
          runtimes |-> [r \in 1..MaxLive |-> Gone],
          files    |-> [f \in Fds |-> IF f = 0 THEN Stdin ELSE Closed]]

\* Mutant: a runtime's listeners are left to their threads.
ClosesSlotsOnly(run) == run.local

\* The values stop_dynamic_server_runtime takes for open descriptors: the two
\* listeners, and input_local and output_local of every slot.  A slot no
\* connection was ever put into holds the 0 of memset.
ClosedByStop(run) == {run.input, run.output, 0} \cup run.local

\* Mutant: the entry's port is compared with the tunnel port.
StoppableOffByOne(S, d, p) ==
    {i \in Slots : /\ S.registry[i].runtime # 0
                   /\ S.registry[i].device = d
                   /\ p = NoPair \/ S.registry[i].pair = p + 1}

\* The entries stop_dynamic_runtimes_for_device acts on: those of the device,
\* with the given ports unless they are 0.
Stoppable(S, d, p) ==
    {i \in Slots : /\ S.registry[i].runtime # 0
                   /\ S.registry[i].device = d
                   /\ p = NoPair \/ S.registry[i].pair = p}

\* Mutant: the sockets are closed under threads that are not told to stop.
StopSocketsOnly(S, I) ==
    LET runs == {S.registry[i].runtime : i \in I}
    IN  [S EXCEPT
            !.files = close(@, UNION {ClosedByStop(S.runtimes[r]) : r \in runs}),
            !.registry = [i \in Slots |->
                             IF i \in I
                             THEN [S.registry[i] EXCEPT !.active = FALSE,
                                                        !.runtime = 0]
                             ELSE S.registry[i]]]

\* Stops the runtimes of the entries I and clears the entries.  The listener
\* threads have ended by then: they see stop_input_running within a second,
\* and wait_for_runtime_threads waits for ten.
StopEntries(S, I) ==
    LET runs == {S.registry[i].runtime : i \in I}
    IN  [files    |-> close(S.files,
                            UNION {ClosedByStop(S.runtimes[r]) : r \in runs}),
         runtimes |-> [r \in 1..MaxLive |->
                          IF r \in runs THEN Gone ELSE S.runtimes[r]],
         registry |-> [i \in Slots |->
                          IF i \in I
                          THEN [S.registry[i] EXCEPT !.active = FALSE,
                                                     !.runtime = 0]
                          ELSE S.registry[i]]]

stop_dynamic_runtimes_for_device(S, d, p) == StopEntries(S, Stoppable(S, d, p))

\* Mutant: a runtime with other TLS settings is healthy too.
HealthyAnyTls(S, i, p, t) ==
    LET e == S.registry[i]
        run == S.runtimes[e.runtime]
    IN  /\ e.active /\ e.runtime # 0 /\ e.pair = p
        /\ run.enable /\ run.inputRunning /\ run.outputRunning
        /\ run.input # NoFd /\ run.output # NoFd
        /\ Accepting(S.files[run.input]) /\ Accepting(S.files[run.output])

\* find_healthy_dynamic_server: an entry with these ports whose runtime runs
\* with these TLS settings and whose two descriptors are accepting sockets.
Healthy(S, i, p, t) ==
    LET e == S.registry[i]
        run == S.runtimes[e.runtime]
    IN  /\ e.active /\ e.runtime # 0 /\ e.pair = p
        /\ run.enable /\ run.inputRunning /\ run.outputRunning
        /\ run.input # NoFd /\ run.output # NoFd
        /\ run.tls = t
        /\ Accepting(S.files[run.input]) /\ Accepting(S.files[run.output])

\* register_dynamic_server_runtime: the first inactive entry.  A full registry
\* leaves the runtime running and unregistered.
register_dynamic_server_runtime(S, d, p, r) ==
    LET free == {i \in Slots : ~S.registry[i].active}
    IN  IF free = {} THEN S
        ELSE [S EXCEPT !.registry[Min(free)] =
                  [active |-> TRUE, device |-> d, pair |-> p, runtime |-> r]]

\* The sockets of a pair are opened one after the other.
Sockets(files, p) ==
    {[in |-> in, out |-> init_socket(in.files, "output", p)] :
        in \in {init_socket(files, "input", p)}}

\* Mutant: the runtime stores the tunnel port for the public one.
StartSwapped(S, d, p, t, in, out) ==
    LET r == Min({q \in 1..MaxLive : ~S.runtimes[q].enable})
        run == [device |-> d, pair |-> p + 1, tls |-> t, enable |-> TRUE,
                input |-> in.fd, output |-> out.fd, local |-> {},
                inputRunning |-> TRUE, outputRunning |-> TRUE]
    IN  [ok |-> in.ok /\ out.ok,
         s |-> register_dynamic_server_runtime(
                   [S EXCEPT !.files = out.files, !.runtimes[r] = run], d, p, r)]

\* start_dynamic_server_at_index.  If the second socket fails the first one is
\* closed, and the one that failed is not.
StartWith(S, d, p, t, in, out) ==
    LET r == Min({q \in 1..MaxLive : ~S.runtimes[q].enable})
        run == [device |-> d, pair |-> p, tls |-> t, enable |-> TRUE,
                input |-> in.fd, output |-> out.fd, local |-> {},
                inputRunning |-> TRUE, outputRunning |-> TRUE]
    IN  IF ~in.ok THEN [ok |-> FALSE, s |-> [S EXCEPT !.files = in.files]]
        ELSE IF ~out.ok
        THEN [ok |-> FALSE, s |-> [S EXCEPT !.files = close(out.files, {in.fd})]]
        ELSE [ok |-> TRUE,
              s |-> register_dynamic_server_runtime(
                        [S EXCEPT !.files = out.files, !.runtimes[r] = run],
                        d, p, r)]

\* create_dynamic_server_for_device
create_dynamic_server_for_device(S, d, p, t) ==
    {StartWith(S, d, p, t, two.in, two.out) : two \in Sockets(S.files, p)}

\* ensure_dynamic_server_for_device: its outcomes, whether it found or started
\* a runtime and the state it leaves.
ensure_dynamic_server_for_device(S, d, p, t) ==
    IF \E i \in Slots : Healthy(S, i, p, t) THEN {[ok |-> TRUE, s |-> S]}
    ELSE UNION {create_dynamic_server_for_device(cleared, d, p, t) :
                    cleared \in {stop_dynamic_runtimes_for_device(S, d, p)}}

-----------------------------------------------------------------------------
(* Control requests *)

\* Every request comes in on a connection of its own, which holds the lowest
\* free descriptor while it is handled.
Conn == Min(FreeFds(st.files))

WithConn == {[st EXCEPT !.files[Conn] = Connection]}

\* The connection is closed at the end of the request.
Answered(S) == st' = [S EXCEPT !.files = close(@, {Conn})]

\* The pair a registration of d is given: its fixed one, or the lowest pair
\* that is neither leased nor fixed for a device.
PairFor(d) ==
    LET leased == {lease[o] : o \in Devices \ {d}}
        fixed == {Fixed[o] : o \in Devices}
        free == Pairs \ (leased \cup fixed)
    IN  IF Fixed[d] # NoPair
        THEN IF Fixed[d] \in leased THEN NoPair ELSE Fixed[d]
        ELSE IF free = {} THEN NoPair ELSE Min(free)

\* accept() succeeds, and the bound on runtimes leaves room for one more.
MayHandle ==
    /\ FreeFds(st.files) # {}
    /\ \E r \in 1..MaxLive : ~st.runtimes[r].enable

\* process_registration_request: the device's old session ends, a pair is
\* leased and the tunnel is started on it.  If that fails the session is
\* terminated again, which stops what runs for it.
Register(d) ==
    LET p == PairFor(d)
    IN  /\ MayHandle
        /\ p # NoPair
        /\ \E S \in WithConn :
             \E made \in ensure_dynamic_server_for_device(S, d, p, tls[d]) :
               /\ lease' = [lease EXCEPT ![d] = IF made.ok THEN p ELSE NoPair]
               /\ Answered(IF made.ok THEN made.s
                           ELSE stop_dynamic_runtimes_for_device(made.s, d, p))
        /\ UNCHANGED <<tls, reload>>

\* process_heartbeat_request: the tunnel is started again if it is not healthy;
\* a failure is only logged.
Heartbeat(d) ==
    /\ MayHandle
    /\ lease[d] # NoPair
    /\ \E S \in WithConn :
         \E made \in ensure_dynamic_server_for_device(S, d, lease[d], tls[d]) :
            Answered(made.s)
    /\ UNCHANGED <<lease, tls, reload>>

\* terminate_device_by_device_id: stops the runtime of the active session, or
\* every runtime of the device when it has none.
Disconnect(d) ==
    /\ MayHandle
    /\ \E S \in WithConn :
         Answered(stop_dynamic_runtimes_for_device(S, d, lease[d]))
    /\ lease' = [lease EXCEPT ![d] = NoPair]
    /\ UNCHANGED <<tls, reload>>

\* The web service stores a TLS setting; the control request follows.
ChangeTls(d) ==
    /\ d \in TlsDevices
    /\ tls' = [tls EXCEPT ![d] = ~@]
    /\ reload' = reload \cup {d}
    /\ UNCHANGED <<lease, st>>

\* reload_dynamic_server_tls_for_device: nothing without an active session.
ReloadTls(d) ==
    /\ MayHandle
    /\ d \in reload
    /\ reload' = reload \ {d}
    /\ IF lease[d] = NoPair THEN UNCHANGED st
       ELSE \E S \in WithConn :
              \E stopped \in {stop_dynamic_runtimes_for_device(S, d, lease[d])} :
                \E made \in ensure_dynamic_server_for_device(
                                stopped, d, lease[d], tls[d]) :
                   Answered(made.s)
    /\ UNCHANGED <<lease, tls>>

-----------------------------------------------------------------------------
(* The other threads *)

\* cleanup_expired_sessions: the lease is over; no runtime is touched.
Expire(d) ==
    /\ lease[d] # NoPair
    /\ lease' = [lease EXCEPT ![d] = NoPair]
    /\ UNCHANGED <<tls, reload, st>>

\* serverInputThread and serverOutputThread: select fails on a descriptor that
\* is closed, and the thread ends.
ListenerEnds(r, side) ==
    LET run == st.runtimes[r]
        ended == IF side = "input" THEN [run EXCEPT !.inputRunning = FALSE]
                 ELSE [run EXCEPT !.outputRunning = FALSE]
    IN  /\ ended # run
        /\ st.files[IF side = "input" THEN run.input ELSE run.output] = Closed
        /\ st' = [st EXCEPT !.runtimes[r] = ended]
        /\ UNCHANGED <<lease, tls, reload>>

Connections == {f \in Fds : st.files[f] = Connection}

\* serverOutputThread accepts a connection of the device into a slot.
Accept(r) ==
    LET run == st.runtimes[r]
        f == Min(FreeFds(st.files))
    IN  /\ run.outputRunning
        /\ Accepting(st.files[run.output])
        /\ Cardinality(Connections) < MaxConns
        /\ FreeFds(st.files) # {}
        /\ st' = [st EXCEPT !.files[f] = Connection,
                            !.runtimes[r].local = @ \cup {f}]
        /\ UNCHANGED <<lease, tls, reload>>

\* connection_output_handler ends and closes the descriptor in its slot,
\* whatever it stands for by then.
ConnectionEnds(r, f) ==
    /\ f \in st.runtimes[r].local
    /\ st' = [st EXCEPT !.files = close(@, {f}),
                        !.runtimes[r].local = @ \ {f}]
    /\ UNCHANGED <<lease, tls, reload>>

\* The server process dies and is started again; the tables survive.
Restart ==
    /\ st' = Fresh
    /\ UNCHANGED <<lease, tls, reload>>

Init ==
    /\ lease = [d \in Devices |-> NoPair]
    /\ tls = [d \in Devices |-> FALSE]
    /\ reload = {}
    /\ st = Fresh

ControlNext(d) ==
    \/ Register(d)
    \/ Heartbeat(d)
    \/ Disconnect(d)
    \/ ReloadTls(d)

RuntimeNext(r) ==
    \/ \E side \in Sides : ListenerEnds(r, side)
    \/ Accept(r)
    \/ \E f \in Fds : ConnectionEnds(r, f)

Next ==
    \/ \E d \in Devices : ControlNext(d) \/ ChangeTls(d) \/ Expire(d)
    \/ \E r \in 1..MaxLive : RuntimeNext(r)
    \/ Restart

\* A device with a session sends heartbeats, and the server handles them.
Fairness == \A d \in Devices : WF_vars(Heartbeat(d))

Spec == Init /\ [][Next]_vars /\ Fairness

-----------------------------------------------------------------------------
(* Properties *)

TypeOK ==
    /\ lease \in [Devices -> Pairs \cup {NoPair}]
    /\ tls \in [Devices -> BOOLEAN]
    /\ reload \subseteq TlsDevices
    /\ st.registry \in [Slots -> Entry]
    /\ st.runtimes \in [1..MaxLive -> Runtime]
    /\ st.files \in [Fds -> File]

Owned(run) == {run.input, run.output} \cup run.local

\* Every open descriptor is in the hands of a runtime that a registry entry
\* still leads to, so that a stop can close it: neither a failed start nor a
\* stop leaves one behind.
DescriptorsOwned ==
    \A f \in Fds : st.files[f] \notin {Closed, Stdin} =>
        \E i \in Slots : /\ st.registry[i].active
                         /\ f \in Owned(st.runtimes[st.registry[i].runtime])

\* A listener thread never accepts from a socket of other ports than its own:
\* who connects to a device's port is put into a slot of that device.
ListensOnItsOwn ==
    \A r \in 1..MaxLive :
        LET run == st.runtimes[r]
        IN  /\ run.inputRunning /\ Accepting(st.files[run.input])
                   => st.files[run.input] = Listener("input", run.pair)
            /\ run.outputRunning /\ Accepting(st.files[run.output])
                   => st.files[run.output] = Listener("output", run.pair)

\* When a device is disconnected, nothing listens on its ports any more.
DisconnectCloses ==
    [][\A d \in Devices : Disconnect(d) /\ lease[d] # NoPair =>
           \A f \in Fds : st'.files[f].pair # lease[d]]_vars

\* Both ports of the device's pair are open, served by one runtime with the
\* TLS settings the device has now.
Served(d) ==
    \E r \in 1..MaxLive :
        LET run == st.runtimes[r]
        IN  /\ run.inputRunning /\ run.outputRunning /\ run.tls = tls[d]
            /\ run.input # NoFd /\ st.files[run.input] = Listener("input", lease[d])
            /\ run.output # NoFd /\ st.files[run.output] = Listener("output", lease[d])

\* Descriptor 0 is free and the device has a runtime that is not healthy: the
\* next request for the device comes in on descriptor 0, and the stop closes
\* that connection in the middle of the request.
SelfClosing(d) ==
    /\ st.files[0] = Closed
    /\ \E i \in Slots : /\ st.registry[i].runtime # 0
                        /\ st.registry[i].device = d
                        /\ ~Healthy(st, i, lease[d], tls[d])

\* A device that keeps its lease is served, again and again, whatever happened
\* to its runtime: a restart of the server, a change of its TLS settings, a
\* descriptor closed by another device's stop.  The exception is SelfClosing,
\* where no heartbeat can help.
LeaseServed ==
    \A d \in Devices :
        lease[d] # NoPair ~> (lease[d] = NoPair \/ Served(d) \/ SelfClosing(d))
=============================================================================
