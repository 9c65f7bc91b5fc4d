----------------------------- MODULE ClientTunnel -----------------------------
(***************************************************************************)
(* One tunnel connection of the client (proxy_client.c in                  *)
(* client/proxy/client):                                                   *)
(* the input thread, which keeps a connection (a tunnel) to the server and *)
(* reads what users send, the output thread it starts to talk to the local *)
(* service, the two threads that restart it - the one that registers again *)
(* and the heartbeat thread, which applies a change of the TLS settings -  *)
(* and main, which starts and stops everything.                            *)
(*                                                                         *)
(* They synchronise with six flags and two descriptors of one structure,   *)
(* without a lock.  A step of a thread is what it does between two reads   *)
(* of that structure that matter; closing a descriptor and setting it to   *)
(* -1 is one step.  DeviceClient models when a restart is asked for.       *)
(*                                                                         *)
(* Most waits of the threads are bounded, but by a clock that main itself  *)
(* advances in its loop (increment_time_counter in main.c): it stands      *)
(* still while main starts the connections and while it shuts them down.   *)
(*                                                                         *)
(* Tunnels are numbered in the order they are made; 0 is the descriptor -1.*)
(* A local connection has the number of the tunnel it was opened for.      *)
(*                                                                         *)
(* The flags say that a thread runs, not which one.  `late' records that a *)
(* thread was overtaken: a restart met it while it was being made, the two *)
(* restarts overlapped, flags were cleared under a thread that still runs, *)
(* or the wait for a thread was given up.  What the network does from then *)
(* on is bounded: fewer tunnels, no new data, no inactivity timeouts.      *)
(***************************************************************************)
EXTENDS Naturals, FiniteSets

CONSTANTS MaxTunnels,   \* bound: tunnels made
          MaxRestarts,  \* bound: restarts asked for
          MaxLate,      \* bound: tunnels made if a thread has been overtaken
          MaxThreads    \* bound: threads of each kind alive together

ASSUME BoundsAssumption ==
    /\ MaxTunnels \in Nat \ {0}
    /\ MaxRestarts \in Nat
    /\ MaxLate \in 0..MaxTunnels
    /\ MaxThreads \in Nat \ {0}

Tunnels == 1..MaxTunnels

Threads == 1..MaxThreads

VARIABLES
    conn,      \* flags and descriptors of proxy_server_connection_t
    inp,       \* the input threads
    out,       \* the output threads
    restart,   \* switcher_servers_restart_input_threads, in either thread
    main,      \* the main thread
    made,      \* number of tunnels made
    restarts,  \* number of restarts asked for
    late       \* a thread has been overtaken

vars == <<conn, inp, out, restart, main, made, restarts, late>>

\* What an input thread does, and the tunnel its data came from.
InputPc == {"none", "init", "connect", "sync", "run", "lost", "quiesce",
            "drain", "closeout", "startout", "started", "awaitout", "send",
            "exit"}

Input == [pc : InputPc, from : 0..MaxTunnels]

\* What an output thread does, the tunnel it was started for, and the one its
\* data belongs to.
OutputPc == {"none", "open", "run", "await", "send", "exit"}

Output == [pc : OutputPc, owner : 0..MaxTunnels, from : 0..MaxTunnels]

\* The heartbeat thread and the one that registers again.
Actors == {"hb", "reg"}

RestartPc == {"idle", "dropped", "drain", "start", "await"}

Connection ==
    [startingIn : BOOLEAN, runningIn : BOOLEAN, stopIn : BOOLEAN,
     startingOut : BOOLEAN, runningOut : BOOLEAN, stopOut : BOOLEAN,
     input : 0..MaxTunnels, output : 0..MaxTunnels]

TypeOK ==
    /\ conn \in Connection
    /\ inp \in [Threads -> Input]
    /\ out \in [Threads -> Output]
    /\ restart \in [Actors -> RestartPc]
    /\ main \in {"starting", "loop", "stop", "wait", "done"}
    /\ made \in 0..MaxTunnels
    /\ restarts \in 0..MaxRestarts
    /\ late \in BOOLEAN

NoInput == [pc |-> "none", from |-> 0]

NoOutput == [pc |-> "none", owner |-> 0, from |-> 0]

\* switcher_servers_start: the structure is zeroed - a descriptor that is not
\* open is 0 there and -1 later, and neither is used - and main waits in
\* server_input_start.
Init ==
    /\ conn = [startingIn |-> TRUE, runningIn |-> FALSE, stopIn |-> FALSE,
               startingOut |-> FALSE, runningOut |-> FALSE, stopOut |-> FALSE,
               input |-> 0, output |-> 0]
    /\ inp = [i \in Threads |-> IF i = 1 THEN [NoInput EXCEPT !.pc = "init"]
                                         ELSE NoInput]
    /\ out = [o \in Threads |-> NoOutput]
    /\ restart = [a \in Actors |-> "idle"]
    /\ main = "starting"
    /\ made = 0
    /\ restarts = 0
    /\ late = FALSE

InputThreads == {i \in Threads : inp[i].pc # "none"}

OutputThreads == {o \in Threads : out[o].pc # "none"}

\* Thread_create: the first thread that is not alive, if there is one.
Started(threads, new) ==
    [t \in Threads |->
        IF /\ threads[t].pc = "none"
           /\ \A u \in 1..(t - 1) : threads[u].pc # "none"
        THEN new ELSE threads[t]]

TunnelBound == IF late THEN MaxLate ELSE MaxTunnels

\* get_time_counter advances.
Ticking == main = "loop"

\* global_graceful_shutdown.
ShuttingDown == main \in {"stop", "wait", "done"}

GoInput(i, to) == inp' = [inp EXCEPT ![i].pc = to]

GoOutput(o, to) == out' = [out EXCEPT ![o].pc = to]

-----------------------------------------------------------------------------
(* server_input_thread *)

\* The thread has seen a stop and leaves.
InputGone(i) ==
    /\ inp' = [inp EXCEPT ![i] = NoInput]
    /\ conn' = [conn EXCEPT !.startingIn = FALSE, !.runningIn = FALSE,
                            !.input = 0]
    /\ UNCHANGED <<out, restart, main, made, restarts, late>>

\* restart_input_thread, and the tests between the attempts to connect.
InputStops(i) ==
    /\ inp[i].pc \in {"init", "connect"}
    /\ conn.stopIn \/ ShuttingDown
    /\ InputGone(i)

\* restart_input_thread: the descriptor is forgotten and a new one made.
InputInit(i) ==
    /\ inp[i].pc = "init"
    /\ ~conn.stopIn /\ ~ShuttingDown
    /\ conn' = [conn EXCEPT !.input = 0]
    /\ inp' = [inp EXCEPT ![i] = [NoInput EXCEPT !.pc = "connect"]]
    /\ UNCHANGED <<out, restart, main, made, restarts, late>>

\* connect, and SSL_connect if it is wanted, succeed.  Attempts that fail
\* are repeated; one whose handshake fails begins again.
InputConnect(i) ==
    /\ inp[i].pc = "connect"
    /\ ~conn.stopIn
    /\ made < TunnelBound
    /\ made' = made + 1
    /\ conn' = [conn EXCEPT !.input = made + 1, !.startingIn = FALSE,
                            !.runningIn = TRUE]
    /\ GoInput(i, "run")
    /\ UNCHANGED <<out, restart, main, restarts, late>>

\* Without a certificate from the server the heartbeat thread is asked to
\* fetch the TLS settings.
InputHandshakeFails(i, certificate) ==
    /\ inp[i].pc = "connect"
    /\ ~conn.stopIn
    /\ conn' = [conn EXCEPT !.input = 0]
    /\ GoInput(i, IF certificate THEN "init" ELSE "sync")
    /\ UNCHANGED <<out, restart, main, made, restarts, late>>

\* The mutex that heartbeat_request_tls_sync takes: the heartbeat thread holds
\* it while it restarts the tunnel.
HeartbeatFree == restart["hb"] = "idle"

InputSynced(i) ==
    /\ inp[i].pc = "sync"
    /\ HeartbeatFree
    /\ GoInput(i, "init")
    /\ UNCHANGED <<conn, out, restart, main, made, restarts, late>>

\* The loop is left: a stop is seen, or a signal interrupts select.
InputLoopEnds(i) ==
    /\ inp[i].pc = "run"
    /\ conn.stopIn \/ ShuttingDown
    /\ conn' = [conn EXCEPT !.input = 0]
    /\ GoInput(i, "exit")
    /\ UNCHANGED <<out, restart, main, made, restarts, late>>

\* The flag is read a second time: a restart may have cleared it.
InputExit(i) ==
    /\ inp[i].pc = "exit"
    /\ IF conn.stopIn \/ ShuttingDown
       THEN InputGone(i)
       ELSE /\ GoInput(i, "init")
            /\ UNCHANGED <<conn, out, restart, main, made, restarts, late>>

\* Something can be read from the tunnel, and no stop is seen.
Readable(i) ==
    /\ inp[i].pc = "run"
    /\ ~conn.stopIn /\ ~ShuttingDown
    /\ conn.input # 0

\* TLS is broken: the settings are asked for first.
InputTlsLost(i) ==
    /\ Readable(i)
    /\ GoInput(i, "lost")
    /\ UNCHANGED <<conn, out, restart, main, made, restarts, late>>

\* Mutant: the output thread is not told to stop.
InputLostAlone(i) ==
    /\ Readable(i)
    /\ conn' = [conn EXCEPT !.input = 0]
    /\ GoInput(i, "init")
    /\ UNCHANGED <<out, restart, main, made, restarts, late>>

\* The server closes the tunnel, or reading fails.
InputLost(i) ==
    /\ Readable(i) \/ (inp[i].pc = "lost" /\ HeartbeatFree)
    /\ conn' = [conn EXCEPT !.stopOut = TRUE, !.input = 0]
    /\ GoInput(i, "drain")
    /\ UNCHANGED <<out, restart, main, made, restarts, late>>

\* The inactivity timeout.  The tunnel stays open for up to five seconds.
InputTimeout(i) ==
    /\ ~late
    /\ inp[i].pc = "run"
    /\ ~conn.stopIn
    /\ Ticking
    /\ conn' = [conn EXCEPT !.stopOut = TRUE]
    /\ GoInput(i, "quiesce")
    /\ UNCHANGED <<out, restart, main, made, restarts, late>>

\* The wait for is_running_output is over: it is cleared, or the time is up.
OutputGone == ~conn.runningOut \/ Ticking

\* The thread goes on; it gives an output thread up that still runs.
GivesUpOutput == late' = (late \/ conn.runningOut)

InputQuiesced(i) ==
    /\ inp[i].pc = "quiesce"
    /\ OutputGone
    /\ conn' = [conn EXCEPT !.input = 0]
    /\ GoInput(i, "closeout")
    /\ UNCHANGED <<out, restart, main, made, restarts, late>>

InputClosesOutput(i) ==
    /\ inp[i].pc = "closeout"
    /\ OutputGone
    /\ conn' = [conn EXCEPT !.output = 0]
    /\ GoInput(i, "init")
    /\ GivesUpOutput
    /\ UNCHANGED <<out, restart, main, made, restarts>>

\* Mutant: the thread returns instead of connecting again.
InputDrainedLeaves(i) ==
    /\ inp[i].pc = "drain"
    /\ OutputGone
    /\ InputGone(i)

\* Mutant: the wait is for a flag that only an output thread clears.
InputDrainsStop(i) ==
    /\ inp[i].pc = "drain"
    /\ ~conn.stopOut
    /\ GoInput(i, "init")
    /\ GivesUpOutput
    /\ UNCHANGED <<conn, out, restart, main, made, restarts>>

InputDrained(i) ==
    /\ inp[i].pc = "drain"
    /\ OutputGone
    /\ GoInput(i, "init")
    /\ GivesUpOutput
    /\ UNCHANGED <<conn, out, restart, main, made, restarts>>

\* A user's data arrives.
InputData(i) ==
    /\ ~late
    /\ Readable(i)
    /\ inp' = [inp EXCEPT ![i] =
                 [pc |-> IF ~conn.runningOut /\ ~conn.startingOut
                         THEN "startout" ELSE "awaitout",
                  from |-> conn.input]]
    /\ UNCHANGED <<conn, out, restart, main, made, restarts, late>>

\* server_output_start.  It clears a stop that was asked for meanwhile.
StartOutput(i) ==
    /\ inp[i].pc = "startout"
    /\ IF ~conn.runningOut /\ ~conn.startingOut
       THEN /\ conn' = [conn EXCEPT !.startingOut = OutputThreads # Threads,
                                    !.stopOut = FALSE]
            /\ out' = Started(out, [NoOutput EXCEPT !.pc = "open",
                                                    !.owner = inp[i].from])
            /\ GoInput(i, "started")
       ELSE /\ GoInput(i, "awaitout")
            /\ UNCHANGED <<conn, out>>
    /\ UNCHANGED <<restart, main, made, restarts, late>>

\* while (conn->is_starting_output), up to five seconds of main's clock.
OutputStarted(i) ==
    /\ inp[i].pc = "started"
    /\ ~conn.startingOut \/ Ticking
    /\ conn' = [conn EXCEPT !.startingOut = FALSE]
    /\ GoInput(i, "awaitout")
    /\ UNCHANGED <<out, restart, main, made, restarts, late>>

\* Mutant: the input thread waits as the output thread does.
InputAwaitsInput(i) ==
    /\ inp[i].pc = "awaitout"
    /\ conn.runningIn
    /\ GoInput(i, "await")
    /\ UNCHANGED <<conn, out, restart, main, made, restarts, late>>

\* while (!conn->is_running_output).
InputAwaits(i) ==
    /\ inp[i].pc = "awaitout"
    /\ conn.runningOut
    /\ GoInput(i, "send")
    /\ UNCHANGED <<conn, out, restart, main, made, restarts, late>>

\* ... for at most 120 seconds; the tunnel is then given up without a close.
InputGivesUp(i) ==
    /\ inp[i].pc = "awaitout"
    /\ ~conn.runningOut
    /\ Ticking
    /\ GoInput(i, "init")
    /\ late' = (late \/ OutputThreads # {})
    /\ UNCHANGED <<conn, out, restart, main, made, restarts>>

\* The data is sent to the local service, or lost if that has left.
InputSend(i) ==
    /\ inp[i].pc = "send"
    /\ inp' = [inp EXCEPT ![i] = [NoInput EXCEPT !.pc = "run"]]
    /\ UNCHANGED <<conn, out, restart, main, made, restarts, late>>

-----------------------------------------------------------------------------
(* server_output_thread *)

OutputOpens(o) ==
    /\ out[o].pc = "open"
    /\ conn' = [conn EXCEPT !.output = out[o].owner, !.runningOut = TRUE,
                            !.startingOut = FALSE]
    /\ GoOutput(o, "run")
    /\ UNCHANGED <<inp, restart, main, made, restarts, late>>

\* The local service does not answer, or its handshake fails.  The flag
\* is_starting_output is cleared only in a handshake with a stop pending.
OutputFails(o, tls) ==
    /\ out[o].pc = "open"
    /\ out' = [out EXCEPT ![o] = NoOutput]
    /\ conn' = [conn EXCEPT !.output = 0, !.runningOut = FALSE,
                   !.startingOut = @ /\ ~(tls /\ (conn.stopOut \/ ShuttingDown))]
    /\ UNCHANGED <<inp, restart, main, made, restarts, late>>

\* A stop is seen, the local service closes, or nothing was exchanged in time.
OutputLoopEnds(o) ==
    /\ out[o].pc = "run"
    /\ conn' = [conn EXCEPT !.output = 0]
    /\ GoOutput(o, "exit")
    /\ UNCHANGED <<inp, restart, main, made, restarts, late>>

\* The local service answers.
OutputData(o) ==
    /\ ~late
    /\ out[o].pc = "run"
    /\ ~conn.stopOut /\ ~ShuttingDown
    /\ conn.output # 0
    /\ out' = [out EXCEPT ![o].pc = "await", ![o].from = conn.output]
    /\ UNCHANGED <<conn, inp, restart, main, made, restarts, late>>

\* while (!conn->is_running_input), which only a stop bounds.
OutputAwaits(o) ==
    /\ out[o].pc = "await"
    /\ conn.stopOut \/ ShuttingDown \/ conn.runningIn
    /\ IF conn.stopOut \/ ShuttingDown
       THEN /\ GoOutput(o, "exit")
            /\ conn' = [conn EXCEPT !.output = 0]
       ELSE /\ GoOutput(o, "send")
            /\ UNCHANGED conn
    /\ UNCHANGED <<inp, restart, main, made, restarts, late>>

OutputSend(o) ==
    /\ out[o].pc = "send"
    /\ out' = [out EXCEPT ![o].pc = "run", ![o].from = 0]
    /\ UNCHANGED <<conn, inp, restart, main, made, restarts, late>>

OutputExit(o) ==
    /\ out[o].pc = "exit"
    /\ out' = [out EXCEPT ![o] = NoOutput]
    /\ conn' = [conn EXCEPT !.runningOut = FALSE, !.startingOut = FALSE,
                            !.stopOut = FALSE]
    /\ UNCHANGED <<inp, restart, main, made, restarts, late>>

-----------------------------------------------------------------------------
(* Restarts *)

\* An input thread is being made: the flags do not show it.
Making == ~conn.runningIn /\ InputThreads # {}

\* The thread restarts the tunnel.
Restarting(a) == restart[a] \in {"drain", "start", "await"}

Goes(a, to) == restart' = [restart EXCEPT ![a] = to]

\* switcher_servers_drop_active_connections: the session is revoked, and the
\* heartbeat thread starts the one that registers again, if there is none.
Drop ==
    /\ \A a \in Actors : restart[a] = "idle"
    /\ main \notin {"wait", "done"}
    /\ restarts < MaxRestarts
    /\ restarts' = restarts + 1
    /\ conn' = [conn EXCEPT !.stopIn = TRUE, !.stopOut = TRUE]
    /\ Goes("reg", "dropped")
    /\ late' = (late \/ Making)
    /\ UNCHANGED <<inp, out, main, made>>

\* switcher_servers_restart_input_threads, up to the wait.  The heartbeat
\* thread calls it for new TLS settings, with a drop just before it, until
\* main has joined it; nobody joins the thread that has registered.
RestartStop(a) ==
    /\ \/ /\ a = "reg"
          /\ restart[a] = "dropped"
          /\ main # "done"
          /\ UNCHANGED restarts
       \/ /\ a = "hb"
          /\ restart[a] = "idle"
          /\ main \notin {"wait", "done"}
          /\ restarts < MaxRestarts
          /\ restarts' = restarts + 1
    /\ conn' = [conn EXCEPT !.stopIn = TRUE, !.stopOut = TRUE,
                            !.input = 0, !.output = 0]
    /\ Goes(a, "drain")
    /\ late' = (late \/ Making \/ \E b \in Actors \ {a} : Restarting(b))
    /\ UNCHANGED <<inp, out, main, made>>

\* Mutant: the wait looks at the wrong flag.
DrainsOnStop(a) ==
    /\ restart[a] = "drain"
    /\ conn.stopIn
    /\ conn' = [conn EXCEPT !.stopIn = FALSE, !.stopOut = FALSE,
                  !.runningIn = FALSE, !.runningOut = FALSE,
                  !.startingIn = FALSE, !.startingOut = FALSE]
    /\ Goes(a, "start")
    /\ late' = (late \/ OutputThreads # {})
    /\ UNCHANGED <<inp, out, main, made, restarts>>

\* Up to ten seconds for is_running_input, and none for is_running_output;
\* then every flag is cleared.
RestartDrain(a) ==
    /\ restart[a] = "drain"
    /\ conn' = [conn EXCEPT !.stopIn = FALSE, !.stopOut = FALSE,
                  !.runningIn = FALSE, !.runningOut = FALSE,
                  !.startingIn = FALSE, !.startingOut = FALSE]
    /\ Goes(a, "start")
    /\ late' = (late \/ conn.runningIn \/ OutputThreads # {})
    /\ UNCHANGED <<inp, out, main, made, restarts>>

\* server_input_start.
RestartStart(a) ==
    /\ restart[a] = "start"
    /\ IF conn.runningIn
       THEN UNCHANGED <<conn, inp>>
       ELSE /\ conn' = [conn EXCEPT !.startingIn = InputThreads # Threads,
                                    !.stopIn = FALSE]
            /\ inp' = Started(inp, [NoInput EXCEPT !.pc = "init"])
    /\ Goes(a, "await")
    /\ UNCHANGED <<out, main, made, restarts, late>>

\* while (conn->is_starting_input), without a bound.
RestartDone(a) ==
    /\ restart[a] = "await"
    /\ ~conn.startingIn
    /\ Goes(a, "idle")
    /\ UNCHANGED <<conn, inp, out, main, made, restarts, late>>

-----------------------------------------------------------------------------
(* main *)

\* The other connections are up too, and main enters its loop.
MainLoops ==
    /\ main = "starting"
    /\ ~conn.startingIn
    /\ main' = "loop"
    /\ UNCHANGED <<conn, inp, out, restart, made, restarts, late>>

\* A signal; main leaves its loop.
Shutdown ==
    /\ main = "loop"
    /\ main' = "stop"
    /\ UNCHANGED <<conn, inp, out, restart, made, restarts, late>>

\* The heartbeat thread is joined (heartbeat_manager_stop); then
\* switcher_servers_stop, up to the wait.
StopServers ==
    /\ main = "stop"
    /\ HeartbeatFree
    /\ conn' = [conn EXCEPT !.stopIn = TRUE, !.stopOut = TRUE]
    /\ main' = "wait"
    /\ UNCHANGED <<inp, out, restart, made, restarts, late>>

\* Mutant: the wait has no end.
StopWaits ==
    /\ main = "wait"
    /\ ~conn.runningIn /\ ~conn.startingIn
    /\ ~conn.runningOut /\ ~conn.startingOut
    /\ main' = "done"
    /\ UNCHANGED <<conn, inp, out, restart, made, restarts, late>>

\* wait_for_proxy_connection_stop: the flags are clear, or 30 seconds of its
\* own are up.  The connections are freed and the process ends.
StopDone ==
    /\ main = "wait"
    /\ main' = "done"
    /\ UNCHANGED <<conn, inp, out, restart, made, restarts, late>>

-----------------------------------------------------------------------------

\* A stop wakes a thread up that connects; a shutdown alone does not.
InputStep(i) ==
    \/ (inp[i].pc = "init" \/ conn.stopIn) /\ InputStops(i)
    \/ InputInit(i) \/ InputConnect(i) \/ InputSynced(i)
    \/ conn.stopIn /\ InputLoopEnds(i)
    \/ InputExit(i)
    \/ inp[i].pc = "lost" /\ InputLost(i)
    \/ InputQuiesced(i) \/ InputClosesOutput(i) \/ InputDrained(i)
    \/ StartOutput(i) \/ OutputStarted(i)
    \/ InputAwaits(i) \/ InputGivesUp(i) \/ InputSend(i)

OutputStep(o) ==
    \/ OutputOpens(o) \/ OutputFails(o, FALSE)
    \/ conn.stopOut /\ OutputLoopEnds(o)
    \/ OutputAwaits(o) \/ OutputSend(o) \/ OutputExit(o)

RestartStep(a) == RestartDrain(a) \/ RestartStart(a) \/ RestartDone(a)

MainStep == MainLoops \/ StopServers \/ StopDone

\* What the network, the local service and the user of the client decide.
Environment ==
    \/ \E i \in Threads :
          \/ InputStops(i) \/ InputLoopEnds(i)
          \/ \E certificate \in BOOLEAN : InputHandshakeFails(i, certificate)
          \/ InputTlsLost(i) \/ InputLost(i) \/ InputTimeout(i) \/ InputData(i)
    \/ \E o \in Threads : \/ OutputFails(o, TRUE) \/ OutputLoopEnds(o)
                          \/ OutputData(o)
    \/ Drop \/ (\E a \in Actors : RestartStop(a)) \/ Shutdown

Next ==
    /\ main # "done"
    /\ \/ \E i \in Threads : InputStep(i)
       \/ \E o \in Threads : OutputStep(o)
       \/ \E a \in Actors : RestartStep(a)
       \/ MainStep \/ Environment

\* Threads run, and a wait for one that goes on is not given up; a tunnel that
\* is tried again and again is made, the other connections come up, and a
\* revoked session is registered again in the end.
Fairness ==
    /\ \A i \in Threads :
          /\ WF_vars(main # "done" /\ InputStep(i) /\ late' = late)
          /\ SF_vars(main # "done" /\ InputConnect(i))
    /\ \A o \in Threads : WF_vars(main # "done" /\ OutputStep(o))
    /\ \A a \in Actors : WF_vars(main # "done" /\ RestartStep(a))
    /\ WF_vars(MainStep)
    /\ WF_vars(~ShuttingDown /\ RestartStop("reg"))

Spec == Init /\ [][Next]_vars /\ Fairness

-----------------------------------------------------------------------------

\* While the client runs and nobody is about to restart it, the connection
\* has an input thread, however late the threads are: no order of restarts,
\* of a reconnection and of the double look at stop_running_input loses the
\* last one (server_input_thread, switcher_servers_restart_input_threads).
KeepsInput ==
    /\ main = "loop"
    /\ \A a \in Actors : restart[a] = "idle"
    => InputThreads # {}

\* As long as no thread has been overtaken, the flags alone keep a connection
\* to one thread of each kind (the waits of server_output_start,
\* server_input_thread and switcher_servers_restart_input_threads).
OneOfEach ==
    ~late => Cardinality(InputThreads) <= 1 /\ Cardinality(OutputThreads) <= 1

\* As long as no thread has been overtaken, what a user sent through a tunnel
\* reaches only the local connection opened for that tunnel, and the local
\* service's answer only the same tunnel: nothing of an earlier one is
\* delivered.
NothingStale ==
    ~late =>
        /\ \A i \in InputThreads :
              inp[i].pc = "send" => conn.output \in {0, inp[i].from}
        /\ \A o \in OutputThreads :
              out[o].pc = "send" => conn.input \in {0, out[o].from}

\* The heartbeat thread waits for an input thread that asks it for the TLS
\* settings: each waits for the other.
Deadlocked == restart["hb"] = "await" /\ \E i \in Threads : inp[i].pc = "sync"

\* A client that runs always gets a tunnel again, whatever breaks, whoever is
\* overtaken and whenever it is restarted (until the bound is reached), or the
\* heartbeat thread and the input thread wait for each other.
TunnelReturns ==
    main = "loop" ~> \/ conn.input # 0 /\ (late \/ conn.runningIn)
                     \/ main # "loop" \/ made >= TunnelBound
                     \/ []Deadlocked

\* A shutdown ends, whatever the threads wait for, unless the heartbeat thread
\* that main joins waits for a tunnel that is never made
\* (heartbeat_manager_stop, switcher_servers_stop).
ShutdownEnds ==
    main = "stop" ~>
        \/ main = "done"
        \/ [](/\ restart["hb"] = "await"
              /\ \E i \in Threads : inp[i].pc \in {"connect", "sync"})
=============================================================================
