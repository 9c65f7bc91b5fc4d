-------------------------- MODULE ClientTunnelProofs --------------------------
(***************************************************************************)
(* Proofs about one tunnel connection of the client, for any number of     *)
(* tunnels, of restarts and of threads: the flags never cost the           *)
(* connection its last input thread, and as long as no thread has been     *)
(* overtaken they keep a connection to one thread of each kind and every   *)
(* byte to the tunnel it belongs to.                                       *)
(***************************************************************************)
EXTENDS ClientTunnel, FiniteSetTheorems, TLAPS

LEMMA NumbersOK == MaxTunnels \in Nat /\ 0 \in 0..MaxTunnels /\ 1 \in Threads
  BY BoundsAssumption DEF Threads

\* A new thread is a thread, and the threads that were alive still are.
LEMMA StartedTyped ==
  ASSUME NEW S, NEW threads \in [Threads -> S], NEW new \in S
  PROVE  Started(threads, new) \in [Threads -> S]
  BY DEF Started

\* All that server_input_thread does.
InputActs(i) ==
    \/ InputStops(i) \/ InputInit(i) \/ InputConnect(i)
    \/ \E certificate \in BOOLEAN : InputHandshakeFails(i, certificate)
    \/ InputSynced(i) \/ InputLoopEnds(i) \/ InputExit(i)
    \/ InputTlsLost(i) \/ InputLost(i) \/ InputTimeout(i)
    \/ InputQuiesced(i) \/ InputClosesOutput(i) \/ InputDrained(i)
    \/ InputData(i) \/ StartOutput(i) \/ OutputStarted(i)
    \/ InputAwaits(i) \/ InputGivesUp(i) \/ InputSend(i)

\* server_output_thread.
OutputActs(o) ==
    \/ OutputOpens(o) \/ (\E tls \in BOOLEAN : OutputFails(o, tls))
    \/ OutputLoopEnds(o) \/ OutputData(o)
    \/ OutputAwaits(o) \/ OutputSend(o) \/ OutputExit(o)

\* Every step is one of a thread, of a restart or of main.
LEMMA WhoActs ==
  ASSUME Next
  PROVE  \/ \E i \in Threads : InputActs(i)
         \/ \E o \in Threads : OutputActs(o)
         \/ \E a \in Actors : RestartStep(a) \/ RestartStop(a)
         \/ Drop \/ MainStep \/ Shutdown
<1>1. ASSUME NEW i \in Threads, InputStep(i)
      PROVE  InputActs(i)
  BY <1>1, Zenon DEF InputStep, InputActs
<1>2. ASSUME NEW o \in Threads, OutputStep(o)
      PROVE  OutputActs(o)
  <2>1. CASE OutputFails(o, FALSE)
    BY <2>1, Zenon DEF OutputActs
  <2> QED
    BY <1>2, <2>1, Zenon DEF OutputStep, OutputActs
<1>3. ASSUME Environment
      PROVE  \/ \E i \in Threads : InputActs(i)
             \/ \E o \in Threads : OutputActs(o)
             \/ Drop \/ (\E a \in Actors : RestartStop(a)) \/ Shutdown
  <2>1. ASSUME NEW o \in Threads, OutputFails(o, TRUE)
        PROVE  OutputActs(o)
    BY <2>1, Zenon DEF OutputActs
  <2> QED
    BY <1>3, <2>1, Zenon DEF Environment, InputActs, OutputActs
<1> QED
  BY <1>1, <1>2, <1>3, Zenon DEF Next

\* server_input_thread keeps the types.
LEMMA InputTypes ==
  ASSUME TypeOK, NEW i \in Threads,
         InputActs(i)
  PROVE  TypeOK'
<1> USE NumbersOK
<1> USE DEF GivesUpOutput
<1>1. CASE InputStops(i)
  BY <1>1 DEF TypeOK, InputStops, InputGone, NoInput, Input, InputPc, Connection
<1>2. CASE InputInit(i)
  BY <1>2 DEF TypeOK, InputInit, NoInput, Input, InputPc, Connection
<1>3. CASE InputConnect(i)
  <2>1. made + 1 \in 0..MaxTunnels /\ made' \in 0..MaxTunnels
    BY <1>3, BoundsAssumption DEF TypeOK, InputConnect, TunnelBound
  <2>2. conn' \in Connection
    BY <1>3, <2>1 DEF TypeOK, InputConnect, Connection
  <2>3. inp' \in [Threads -> Input]
    BY <1>3 DEF TypeOK, InputConnect, GoInput, Input, InputPc
  <2> QED
    BY <1>3, <2>1, <2>2, <2>3 DEF TypeOK, InputConnect
<1>4. CASE InputLoopEnds(i)
  BY <1>4 DEF TypeOK, InputLoopEnds, GoInput, Input, InputPc, Connection
<1>5. CASE InputExit(i)
  <2>1. CASE InputGone(i)
    BY <1>5, <2>1 DEF TypeOK, InputExit, InputGone, NoInput, Input, InputPc,
                      Connection
  <2>2. CASE ~InputGone(i)
    BY <1>5, <2>2 DEF TypeOK, InputExit, GoInput, Input, InputPc
  <2> QED
    BY <2>1, <2>2
<1>6. CASE InputQuiesced(i)
  BY <1>6 DEF TypeOK, InputQuiesced, GoInput, Input, InputPc, Connection
<1>16. CASE InputClosesOutput(i)
  <2>1. conn' \in Connection
    BY <1>16 DEF TypeOK, InputClosesOutput, Connection
  <2>2. inp' \in [Threads -> Input]
    BY <1>16 DEF TypeOK, InputClosesOutput, GoInput, Input, InputPc
  <2> QED
    BY <1>16, <2>1, <2>2 DEF TypeOK, InputClosesOutput
<1>7. CASE InputDrained(i) \/ InputAwaits(i) \/ InputGivesUp(i)
  BY <1>7 DEF TypeOK, InputDrained, InputAwaits, InputGivesUp, GoInput, Input,
              InputPc
<1>8. CASE StartOutput(i)
  <2>1. inp' \in [Threads -> Input]
    BY <1>8 DEF TypeOK, StartOutput, GoInput, Input, InputPc
  <2>2. conn' \in Connection
    BY <1>8 DEF TypeOK, StartOutput, Connection
  <2>3. [NoOutput EXCEPT !.pc = "open", !.owner = inp[i].from] \in Output
    BY DEF TypeOK, NoOutput, Input, Output, OutputPc
  <2>4. out' \in [Threads -> Output]
    BY <1>8, <2>3, StartedTyped DEF TypeOK, StartOutput
  <2> QED
    BY <1>8, <2>1, <2>2, <2>4 DEF TypeOK, StartOutput
<1>9. CASE OutputStarted(i)
  BY <1>9 DEF TypeOK, OutputStarted, GoInput, Input, InputPc, Connection
<1>10. CASE InputSend(i)
  BY <1>10 DEF TypeOK, InputSend, NoInput, Input, InputPc
<1>11. CASE \E certificate \in BOOLEAN : InputHandshakeFails(i, certificate)
  BY <1>11 DEF TypeOK, InputHandshakeFails, GoInput, Input, InputPc, Connection
<1>12. CASE InputLost(i)
  BY <1>12 DEF TypeOK, InputLost, GoInput, Input, InputPc, Connection
<1>15. CASE InputSynced(i) \/ InputTlsLost(i)
  BY <1>15 DEF TypeOK, InputSynced, InputTlsLost, GoInput, Input, InputPc
<1>13. CASE InputTimeout(i)
  BY <1>13 DEF TypeOK, InputTimeout, GoInput, Input, InputPc, Connection
<1>14. CASE InputData(i)
  BY <1>14 DEF TypeOK, InputData, Input, InputPc, Connection
<1> QED
  BY <1>1, <1>2, <1>3, <1>4, <1>5, <1>6, <1>7, <1>8, <1>9, <1>10, <1>11,
     <1>12, <1>13, <1>14, <1>15, <1>16 DEF InputActs

\* server_output_thread keeps the types.
LEMMA OutputTypes ==
  ASSUME TypeOK, NEW o \in Threads, OutputActs(o)
  PROVE  TypeOK'
<1> USE NumbersOK
<1>1. CASE OutputOpens(o)
  BY <1>1 DEF TypeOK, OutputOpens, GoOutput, Output, OutputPc, Connection
<1>2. ASSUME NEW b \in BOOLEAN, OutputFails(o, b)
      PROVE  TypeOK'
  BY <1>2 DEF TypeOK, OutputFails, NoOutput, Output, OutputPc, Connection
<1>3. CASE OutputLoopEnds(o)
  BY <1>3 DEF TypeOK, OutputLoopEnds, GoOutput, Output, OutputPc, Connection
<1>4. CASE OutputAwaits(o)
  BY <1>4 DEF TypeOK, OutputAwaits, GoOutput, Output, OutputPc, Connection
<1>5. CASE OutputSend(o)
  BY <1>5 DEF TypeOK, OutputSend, Output, OutputPc
<1>6. CASE OutputExit(o)
  <2>1. conn' \in Connection
    BY <1>6 DEF TypeOK, OutputExit, Connection
  <2>2. out' \in [Threads -> Output]
    BY <1>6 DEF TypeOK, OutputExit, NoOutput, Output, OutputPc
  <2> QED
    BY <1>6, <2>1, <2>2 DEF TypeOK, OutputExit
<1>7. CASE OutputData(o)
  <2>1. conn.output \in 0..MaxTunnels
    BY DEF TypeOK, Connection
  <2> DEFINE waits == [out EXCEPT ![o].pc = "await"]
  <2>2. waits \in [Threads -> Output]
    BY DEF TypeOK, Output, OutputPc
  <2>3. out' = [waits EXCEPT ![o].from = conn.output]
    BY <1>7 DEF OutputData
  <2> HIDE DEF waits
  <2>4. out' \in [Threads -> Output]
    BY <2>1, <2>2, <2>3 DEF Output
  <2> QED
    BY <1>7, <2>4 DEF TypeOK, OutputData
<1> QED
  BY <1>1, <1>2, <1>3, <1>4, <1>5, <1>6, <1>7 DEF OutputActs

\* Restarts and main keep the types.
LEMMA RestartTypes ==
  ASSUME TypeOK, NEW a \in Actors,
         \/ RestartStep(a) \/ RestartStop(a)
         \/ Drop \/ MainStep \/ Shutdown
  PROVE  TypeOK'
<1> USE NumbersOK
<1>0. \A b \in Actors, to \in RestartPc :
         Goes(b, to) => restart' \in [Actors -> RestartPc]
  BY DEF TypeOK, Goes
<1> USE DEF RestartPc, Actors
<1>1. CASE RestartDrain(a)
  BY <1>0, <1>1 DEF TypeOK, RestartDrain, Connection
<1>2. CASE RestartStart(a)
  <2>1. [NoInput EXCEPT !.pc = "init"] \in Input
    BY DEF NoInput, Input, InputPc
  <2>2. inp' \in [Threads -> Input]
    <3>1. inp \in [Threads -> Input]
      BY DEF TypeOK
    <3>2. Started(inp, [NoInput EXCEPT !.pc = "init"]) \in [Threads -> Input]
      BY <2>1, <3>1, StartedTyped
    <3> QED
      BY <1>2, <3>1, <3>2 DEF RestartStart
  <2>3. conn' \in Connection
    BY <1>2 DEF TypeOK, RestartStart, Connection
  <2> QED
    BY <1>0, <1>2, <2>2, <2>3 DEF TypeOK, RestartStart
<1>3. CASE Drop \/ RestartStop(a)
  <2>1. conn' \in Connection
    BY <1>3 DEF TypeOK, Drop, RestartStop, Connection
  <2>2. restarts' \in 0..MaxRestarts
    BY <1>3, BoundsAssumption DEF TypeOK, Drop, RestartStop
  <2> QED
    BY <1>0, <1>3, <2>1, <2>2 DEF TypeOK, Drop, RestartStop
<1>4. CASE RestartDone(a) \/ MainLoops \/ StopDone \/ Shutdown
  BY <1>0, <1>4 DEF TypeOK, RestartDone, MainLoops, StopDone, Shutdown
<1>5. CASE StopServers
  BY <1>5 DEF TypeOK, StopServers, Connection
<1> QED
  BY <1>1, <1>2, <1>3, <1>4, <1>5 DEF RestartStep, MainStep

\* Every assignment keeps the flags, the descriptors and the threads in their
\* types.
LEMMA StepTypes == TypeOK /\ Next => TypeOK'
  BY WhoActs, InputTypes, OutputTypes, RestartTypes DEF Actors

-----------------------------------------------------------------------------
(* The last input thread *)

\* While the client runs, an input thread is missing, or is told to stop, only
\* if a restart is under way that will start one; and is_running_input is set
\* only if there is one.
InputKept ==
    /\ InputThreads = {} /\ ~ShuttingDown =>
          \E a \in Actors : restart[a] \in {"dropped", "drain", "start"}
    /\ conn.stopIn /\ ~ShuttingDown =>
          \E a \in Actors : restart[a] \in {"dropped", "drain"}
    /\ conn.runningIn => InputThreads # {}

\* What the threads of a connection leave alone.
ThreadsOnly ==
    /\ UNCHANGED <<restart, main, restarts>>
    /\ conn'.stopIn = conn.stopIn

\* An input thread leaves only if it was told to, and clears is_running_input;
\* that is only set by one that stays.
InputStays ==
    /\ ThreadsOnly
    /\ \/ InputThreads \subseteq InputThreads' /\ InputThreads' # {}
       \/ UNCHANGED InputThreads /\ conn'.runningIn = conn.runningIn
       \/ (conn.stopIn \/ ShuttingDown) /\ ~conn'.runningIn

\* How an input thread that is still there moves.
LEMMA InputMoves ==
  ASSUME TypeOK, NEW i \in Threads, NEW x \in Input, x.pc # "none",
         inp' = [inp EXCEPT ![i] = x]
  PROVE  InputThreads \subseteq InputThreads' /\ InputThreads' # {}
<1>1. inp'[i].pc # "none" /\ \A j \in Threads \ {i} : inp'[j] = inp[j]
  BY DEF TypeOK
<1> QED
  BY <1>1 DEF InputThreads

LEMMA InputGoes ==
  ASSUME TypeOK, NEW i \in Threads, NEW to, to # "none", GoInput(i, to)
  PROVE  InputThreads \subseteq InputThreads' /\ InputThreads' # {}
<1>1. inp'[i].pc # "none" /\ \A j \in Threads \ {i} : inp'[j] = inp[j]
  BY DEF TypeOK, GoInput, Input
<1> QED
  BY <1>1 DEF InputThreads

\* The input thread.
LEMMA InputStepStays ==
  ASSUME TypeOK, NEW i \in Threads,
         InputActs(i)
  PROVE  InputStays
<1>1. CASE (conn.stopIn \/ ShuttingDown) /\ InputGone(i)
  BY <1>1 DEF InputStays, ThreadsOnly, InputGone, TypeOK, Connection
<1>2. CASE InputInit(i)
  <2>1. [NoInput EXCEPT !.pc = "connect"] \in Input
    BY NumbersOK DEF NoInput, Input, InputPc
  <2>2. InputThreads \subseteq InputThreads' /\ InputThreads' # {}
    BY <1>2, <2>1, InputMoves DEF InputInit, NoInput
  <2> QED
    BY <1>2, <2>2 DEF InputStays, ThreadsOnly, InputInit, TypeOK, Connection
<1>3. CASE InputConnect(i)
  <2>1. InputThreads \subseteq InputThreads' /\ InputThreads' # {}
    BY <1>3, InputGoes DEF InputConnect
  <2> QED
    BY <1>3, <2>1 DEF InputStays, ThreadsOnly, InputConnect, TypeOK, Connection
<1>4. CASE \/ InputLoopEnds(i)
           \/ InputExit(i) /\ ~conn.stopIn /\ ~ShuttingDown
           \/ InputQuiesced(i) \/ InputClosesOutput(i) \/ InputDrained(i)
  <2>1. InputThreads \subseteq InputThreads' /\ InputThreads' # {}
    BY <1>4, InputGoes DEF InputLoopEnds, InputExit, InputQuiesced,
                           InputClosesOutput, InputDrained
  <2> QED
    BY <1>4, <2>1 DEF InputStays, ThreadsOnly, InputLoopEnds, InputExit,
          InputQuiesced, InputClosesOutput, InputDrained, TypeOK, Connection
<1>5. CASE \/ StartOutput(i) \/ OutputStarted(i) \/ InputAwaits(i)
           \/ InputGivesUp(i)
  <2>1. InputThreads \subseteq InputThreads' /\ InputThreads' # {}
    BY <1>5, InputGoes DEF StartOutput, OutputStarted, InputAwaits,
                           InputGivesUp
  <2> QED
    BY <1>5, <2>1 DEF InputStays, ThreadsOnly, StartOutput, OutputStarted,
          InputAwaits, InputGivesUp, TypeOK, Connection
<1>6. CASE \/ \E certificate \in BOOLEAN : InputHandshakeFails(i, certificate)
           \/ InputLost(i) \/ InputTimeout(i)
           \/ InputSynced(i) \/ InputTlsLost(i)
  <2>1. InputThreads \subseteq InputThreads' /\ InputThreads' # {}
    BY <1>6, InputGoes DEF InputHandshakeFails, InputLost, InputTimeout,
                           InputSynced, InputTlsLost
  <2> QED
    BY <1>6, <2>1 DEF InputStays, ThreadsOnly, InputHandshakeFails, InputLost,
          InputTimeout, InputSynced, InputTlsLost, TypeOK, Connection
<1>7. CASE InputSend(i) \/ InputData(i)
  <2>1. /\ [NoInput EXCEPT !.pc = "run"] \in Input
        /\ \A pc \in InputPc : [pc |-> pc, from |-> conn.input] \in Input
    BY NumbersOK DEF NoInput, Input, InputPc, TypeOK, Connection
  <2>2. InputThreads \subseteq InputThreads' /\ InputThreads' # {}
    BY <1>7, <2>1, InputMoves DEF InputSend, InputData, NoInput, InputPc
  <2> QED
    BY <1>7, <2>2 DEF InputStays, ThreadsOnly, InputSend, InputData
<1>8. CASE \/ InputStops(i)
           \/ InputExit(i) /\ (conn.stopIn \/ ShuttingDown)
  BY <1>1, <1>8 DEF InputStops, InputExit
<1> QED
  BY <1>2, <1>3, <1>4, <1>5, <1>6, <1>7, <1>8 DEF InputActs

\* The output thread does not touch it.
LEMMA OutputStepStays ==
  ASSUME TypeOK, NEW o \in Threads, OutputActs(o)
  PROVE  InputStays /\ UNCHANGED inp
<1>1. /\ UNCHANGED <<inp, restart, main, restarts>>
      /\ conn'.stopIn = conn.stopIn /\ conn'.runningIn = conn.runningIn
  <2>1. CASE OutputOpens(o) \/ OutputExit(o)
    BY <2>1 DEF OutputOpens, OutputExit, TypeOK, Connection
  <2>2. CASE OutputLoopEnds(o) \/ OutputAwaits(o)
    BY <2>2 DEF OutputLoopEnds, OutputAwaits, TypeOK, Connection
  <2>3. CASE OutputSend(o) \/ OutputData(o)
    BY <2>3 DEF OutputSend, OutputData
  <2>4. CASE \E tls \in BOOLEAN : OutputFails(o, tls)
    BY <2>4 DEF OutputFails, TypeOK, Connection
  <2> QED
    BY <2>1, <2>2, <2>3, <2>4 DEF OutputActs
<1> QED
  BY <1>1 DEF InputStays, ThreadsOnly, InputThreads

LEMMA StaysKept ==
  ASSUME InputKept, InputStays
  PROVE  InputKept'
  BY DEF InputKept, InputStays, ThreadsOnly, ShuttingDown

\* The restart: the thread it starts is there, or there is no room for it
\* because others are.
LEMMA RestartStarts ==
  ASSUME TypeOK, NEW new, new.pc # "none", inp' = Started(inp, new)
  PROVE  InputThreads' # {}
<1>1. CASE inp[1].pc = "none"
  <2>1. \A u \in 1..(1 - 1) : inp[u].pc # "none"
    OBVIOUS
  <2>2. inp'[1] = new
    BY <1>1, <2>1, NumbersOK DEF Started
  <2> QED
    BY <2>2, NumbersOK DEF InputThreads
<1>2. CASE inp[1].pc # "none"
  BY <1>2, NumbersOK DEF Started, InputThreads
<1> QED
  BY <1>1, <1>2

LEMMA RestartKeepsInput ==
  ASSUME TypeOK, InputKept, NEW a \in Actors,
         RestartStep(a) \/ Drop \/ RestartStop(a)
  PROVE  InputKept'
<1>0. ASSUME NEW b \in Actors, NEW to, Goes(b, to)
      PROVE  restart'[b] = to /\ \A c \in Actors \ {b} : restart'[c] = restart[c]
  BY <1>0 DEF Goes, TypeOK
<1>1. CASE RestartDrain(a)
  <2>1. /\ restart'[a] = "start" /\ UNCHANGED <<inp, main>>
        /\ ~conn'.stopIn /\ ~conn'.runningIn
    BY <1>0, <1>1 DEF RestartDrain, TypeOK, Connection
  <2> QED
    BY <2>1 DEF InputKept, ShuttingDown, InputThreads
<1>2. CASE RestartStart(a)
  <2>1. InputThreads' # {}
    <3>1. CASE conn.runningIn
      BY <1>2, <3>1 DEF RestartStart, InputKept, InputThreads
    <3>2. CASE ~conn.runningIn
      BY <1>2, <3>2, RestartStarts DEF RestartStart, NoInput
    <3> QED
      BY <3>1, <3>2
  <2>2. /\ restart[a] = "start" /\ UNCHANGED main
        /\ \A c \in Actors \ {a} : restart'[c] = restart[c]
        /\ conn'.stopIn => conn.stopIn
    BY <1>0, <1>2 DEF RestartStart, TypeOK, Connection
  <2> QED
    BY <2>1, <2>2 DEF InputKept, ShuttingDown
<1>3. CASE RestartDone(a)
  <2>1. /\ restart[a] = "await" /\ UNCHANGED <<conn, inp, main>>
        /\ \A c \in Actors \ {a} : restart'[c] = restart[c]
    BY <1>0, <1>3 DEF RestartDone
  <2> QED
    BY <2>1 DEF InputKept, ShuttingDown, InputThreads
<1>4. CASE Drop \/ RestartStop(a)
  <2>1. /\ \E c \in Actors : restart'[c] \in {"dropped", "drain"}
        /\ conn'.runningIn = conn.runningIn /\ UNCHANGED inp
    <3>1. CASE Drop
      BY <1>0, <3>1 DEF Drop, Actors, TypeOK, Connection
    <3>2. CASE RestartStop(a)
      BY <1>0, <3>2 DEF RestartStop, TypeOK, Connection
    <3> QED
      BY <1>4, <3>1, <3>2
  <2> QED
    BY <2>1 DEF InputKept, InputThreads
<1> QED
  BY <1>1, <1>2, <1>3, <1>4 DEF RestartStep

LEMMA MainKeepsInput ==
  ASSUME TypeOK, InputKept, MainStep \/ Shutdown
  PROVE  InputKept'
<1>1. CASE MainLoops \/ StopDone \/ Shutdown
  BY <1>1 DEF MainLoops, StopDone, Shutdown, InputKept, ShuttingDown,
              InputThreads
<1>2. CASE StopServers
  BY <1>2 DEF StopServers, InputKept, ShuttingDown, InputThreads, TypeOK,
              Connection
<1> QED
  BY <1>1, <1>2 DEF MainStep

LEMMA StepKeepsInput == TypeOK /\ InputKept /\ Next => InputKept'
  BY WhoActs, InputStepStays, OutputStepStays, StaysKept, RestartKeepsInput,
     MainKeepsInput
     DEF Actors

-----------------------------------------------------------------------------
(* As long as no thread has been overtaken *)

\* One thread of each kind.
OneThread ==
    /\ \A i, j \in Threads : inp[i].pc # "none" /\ inp[j].pc # "none" => i = j
    /\ \A o, p \in Threads : out[o].pc # "none" /\ out[p].pc # "none" => o = p

\* One restart at a time.  While it waits it has told the input thread, which
\* has set its flag; when it has waited it finds nobody.
RestartWaits ==
    /\ \A a, b \in Actors : Restarting(a) /\ Restarting(b) => a = b
    /\ \A a \in Actors :
          /\ restart[a] = "drain" =>
                conn.stopIn /\ (conn.runningIn \/ InputThreads = {})
          /\ restart[a] = "start" => InputThreads = {} /\ OutputThreads = {}

\* The flags of the output thread say that it is there; while it opens its
\* connection the input thread waits for it.
OutputFlagged ==
    \A o \in Threads : out[o].pc # "none" =>
        IF out[o].pc = "open"
        THEN /\ ~conn.runningOut
             /\ \E i \in Threads : \/ inp[i].pc = "started" /\ conn.startingOut
                                   \/ inp[i].pc = "awaitout"
        ELSE conn.runningOut

\* No output thread is left when the input thread makes a new tunnel, and an
\* input thread that leaves its loop for a stop still sees it.
InputAlone ==
    \A i \in Threads :
        /\ inp[i].pc \in {"init", "connect", "sync"} => OutputThreads = {}
        /\ inp[i].pc = "exit" => conn.stopIn \/ ShuttingDown

\* Whatever is open, waits or is carried belongs to the last tunnel made.
LastTunnel ==
    /\ conn.input \in {0, made}
    /\ conn.output \in {0, made}
    /\ conn.output # 0 => OutputThreads # {}
    /\ \A i \in Threads :
          inp[i].pc \in {"startout", "started", "awaitout", "send"}
              => inp[i].from = made
    /\ \A o \in Threads :
          /\ out[o].pc # "none" => out[o].owner = made
          /\ out[o].pc \in {"await", "send"} => out[o].from = made
          /\ out[o].pc = "exit" => conn.output = 0

PromptInv ==
    /\ OneThread
    /\ RestartWaits
    /\ OutputFlagged
    /\ InputAlone
    /\ LastTunnel

\* The input thread that moves is the only one.
LEMMA AloneGoes ==
  ASSUME TypeOK, OneThread, NEW i \in Threads, inp[i].pc # "none",
         NEW to, GoInput(i, to)
  PROVE  /\ inp'[i].pc = to /\ inp'[i].from = inp[i].from
         /\ \A j \in Threads \ {i} : inp[j].pc = "none" /\ inp'[j].pc = "none"
  BY DEF TypeOK, OneThread, GoInput, Input

LEMMA InputConnectPrompt ==
  ASSUME TypeOK, PromptInv, NEW i \in Threads, InputConnect(i)
  PROVE  PromptInv'
<1>1. /\ inp[i].pc = "connect" /\ inp'[i].pc = "run"
      /\ \A j \in Threads \ {i} : inp[j].pc = "none" /\ inp'[j].pc = "none"
  BY AloneGoes DEF InputConnect, PromptInv
<1>2. /\ ~conn.stopIn /\ made' = made + 1
      /\ conn'.input = made + 1 /\ conn'.output = conn.output
      /\ conn'.stopIn = conn.stopIn
      /\ UNCHANGED <<out, restart, main>>
  BY DEF InputConnect, TypeOK, Connection
<1>3. OutputThreads = {} /\ OutputThreads' = {} /\ conn.output = 0
  BY <1>1, <1>2 DEF PromptInv, InputAlone, LastTunnel, OutputThreads
<1> QED
  BY <1>1, <1>2, <1>3 DEF PromptInv, OneThread, RestartWaits, Restarting,
       OutputFlagged, InputAlone, LastTunnel, OutputThreads, InputThreads

\* What the other moves of the input thread have in common: they open and
\* start nothing, and do not forget an output thread.
InputMove(i) ==
    /\ UNCHANGED <<out, made, restart, main>>
    /\ conn'.stopIn = conn.stopIn /\ conn'.runningIn = conn.runningIn
    /\ conn'.runningOut = conn.runningOut
    /\ conn'.input \in {0, conn.input} /\ conn'.output \in {0, conn.output}
    /\ \A j \in Threads \ {i} : inp[j].pc = "none" /\ inp'[j].pc = "none"
    /\ inp[i].pc # "none" /\ inp'[i].pc # "none"
    /\ \/ OutputThreads = {}
       \/ /\ inp'[i].pc \notin {"init", "connect", "sync"}
          /\ \/ \A o \in OutputThreads : out[o].pc # "open"
             \/ inp'[i].pc = "awaitout"
    /\ inp'[i].pc = "exit" => conn.stopIn \/ ShuttingDown
    /\ inp'[i].pc \in {"startout", "started", "awaitout", "send"}
          => inp'[i].from = made

LEMMA MoveIsPrompt ==
  ASSUME TypeOK, PromptInv, NEW i \in Threads, InputMove(i)
  PROVE  PromptInv'
<1>1. OutputThreads' = OutputThreads /\ InputThreads # {} /\ InputThreads' # {}
  BY DEF InputMove, OutputThreads, InputThreads
<1>2. OneThread'
  BY DEF InputMove, PromptInv, OneThread
<1>3. RestartWaits'
  BY <1>1 DEF InputMove, PromptInv, RestartWaits, Restarting
<1>4. OutputFlagged'
  BY DEF InputMove, PromptInv, OutputFlagged, OutputThreads
<1>5. InputAlone'
  BY <1>1 DEF InputMove, PromptInv, InputAlone, ShuttingDown
<1>6. LastTunnel'
  BY <1>1 DEF InputMove, PromptInv, LastTunnel, TypeOK
<1> QED
  BY <1>2, <1>3, <1>4, <1>5, <1>6 DEF PromptInv

\* An input thread that does nothing about the output thread knows that it
\* has opened its connection; one that has seen is_running_output cleared, that
\* there is none.
LEMMA NoneOpens ==
  ASSUME PromptInv, NEW i \in Threads,
         inp[i].pc \notin {"none", "started", "awaitout"}
  PROVE  /\ \A o \in OutputThreads : out[o].pc # "open"
         /\ ~conn.runningOut => OutputThreads = {}
  BY DEF PromptInv, OneThread, OutputFlagged, OutputThreads

LEMMA InputMovesPrompt ==
  ASSUME TypeOK, PromptInv, ~late', NEW i \in Threads,
         \/ InputInit(i) \/ InputSynced(i) \/ InputLoopEnds(i)
         \/ \E certificate \in BOOLEAN : InputHandshakeFails(i, certificate)
         \/ InputQuiesced(i) \/ InputClosesOutput(i) \/ InputDrained(i)
         \/ OutputStarted(i) \/ InputAwaits(i) \/ InputGivesUp(i)
         \/ InputSend(i) \/ InputTlsLost(i) \/ InputLost(i)
         \/ InputTimeout(i) \/ InputData(i)
  PROVE  InputMove(i)
<1> USE DEF InputMove
<1>1. CASE InputInit(i)
  <2>1. /\ inp'[i].pc = "connect"
        /\ \A j \in Threads \ {i} : inp[j].pc = "none" /\ inp'[j].pc = "none"
    BY <1>1 DEF InputInit, PromptInv, OneThread, NoInput, TypeOK
  <2>2. OutputThreads = {}
    BY <1>1 DEF InputInit, PromptInv, InputAlone
  <2> QED
    BY <1>1, <2>1, <2>2 DEF InputInit, TypeOK, Connection
<1>2. CASE \E certificate \in BOOLEAN : InputHandshakeFails(i, certificate)
  <2>1. /\ inp'[i].pc \in {"init", "sync"}
        /\ \A j \in Threads \ {i} : inp[j].pc = "none" /\ inp'[j].pc = "none"
    BY <1>2, AloneGoes DEF InputHandshakeFails, PromptInv
  <2>2. OutputThreads = {}
    BY <1>2 DEF InputHandshakeFails, PromptInv, InputAlone
  <2> QED
    BY <1>2, <2>1, <2>2 DEF InputHandshakeFails, TypeOK, Connection
<1>3. CASE InputLoopEnds(i)
  <2>1. /\ inp'[i].pc = "exit"
        /\ \A j \in Threads \ {i} : inp[j].pc = "none" /\ inp'[j].pc = "none"
    BY <1>3, AloneGoes DEF InputLoopEnds, PromptInv
  <2>2. \A o \in OutputThreads : out[o].pc # "open"
    BY <1>3, NoneOpens DEF InputLoopEnds
  <2> QED
    BY <1>3, <2>1, <2>2 DEF InputLoopEnds, TypeOK, Connection
<1>4. CASE InputQuiesced(i)
  <2>1. /\ inp'[i].pc = "closeout"
        /\ \A j \in Threads \ {i} : inp[j].pc = "none" /\ inp'[j].pc = "none"
    BY <1>4, AloneGoes DEF InputQuiesced, PromptInv
  <2>2. \A o \in OutputThreads : out[o].pc # "open"
    BY <1>4, NoneOpens DEF InputQuiesced
  <2> QED
    BY <1>4, <2>1, <2>2 DEF InputQuiesced, TypeOK, Connection
<1>5. CASE InputClosesOutput(i)
  <2>1. /\ inp'[i].pc = "init"
        /\ \A j \in Threads \ {i} : inp[j].pc = "none" /\ inp'[j].pc = "none"
    BY <1>5, AloneGoes DEF InputClosesOutput, PromptInv
  <2>2. OutputThreads = {}
    BY <1>5, NoneOpens DEF InputClosesOutput, GivesUpOutput
  <2> QED
    BY <1>5, <2>1, <2>2 DEF InputClosesOutput, TypeOK, Connection
<1>6. CASE InputDrained(i)
  <2>1. /\ inp'[i].pc = "init"
        /\ \A j \in Threads \ {i} : inp[j].pc = "none" /\ inp'[j].pc = "none"
    BY <1>6, AloneGoes DEF InputDrained, PromptInv
  <2>2. OutputThreads = {}
    BY <1>6, NoneOpens DEF InputDrained, GivesUpOutput
  <2> QED
    BY <1>6, <2>1, <2>2 DEF InputDrained
<1>7. CASE OutputStarted(i)
  <2>1. /\ inp'[i].pc = "awaitout" /\ inp'[i].from = inp[i].from
        /\ \A j \in Threads \ {i} : inp[j].pc = "none" /\ inp'[j].pc = "none"
    BY <1>7, AloneGoes DEF OutputStarted, PromptInv
  <2>2. inp[i].from = made
    BY <1>7 DEF OutputStarted, PromptInv, LastTunnel
  <2> QED
    BY <1>7, <2>1, <2>2 DEF OutputStarted, TypeOK, Connection
<1>8. CASE InputAwaits(i)
  <2>1. /\ inp'[i].pc = "send" /\ inp'[i].from = inp[i].from
        /\ \A j \in Threads \ {i} : inp[j].pc = "none" /\ inp'[j].pc = "none"
    BY <1>8, AloneGoes DEF InputAwaits, PromptInv
  <2>2. inp[i].from = made
    BY <1>8 DEF InputAwaits, PromptInv, LastTunnel
  <2>3. \A o \in OutputThreads : out[o].pc # "open"
    BY <1>8 DEF InputAwaits, PromptInv, OutputFlagged, OutputThreads
  <2> QED
    BY <1>8, <2>1, <2>2, <2>3 DEF InputAwaits
<1>9. CASE InputGivesUp(i)
  <2>1. /\ inp'[i].pc = "init"
        /\ \A j \in Threads \ {i} : inp[j].pc = "none" /\ inp'[j].pc = "none"
    BY <1>9, AloneGoes DEF InputGivesUp, PromptInv
  <2> QED
    BY <1>9, <2>1 DEF InputGivesUp
<1>10. CASE InputSend(i)
  <2>1. /\ inp'[i].pc = "run"
        /\ \A j \in Threads \ {i} : inp[j].pc = "none" /\ inp'[j].pc = "none"
    BY <1>10 DEF InputSend, PromptInv, OneThread, NoInput, TypeOK
  <2>2. \A o \in OutputThreads : out[o].pc # "open"
    BY <1>10, NoneOpens DEF InputSend
  <2> QED
    BY <1>10, <2>1, <2>2 DEF InputSend
<1>11. CASE InputLost(i)
  <2>1. /\ inp[i].pc \in {"run", "lost"} /\ inp'[i].pc = "drain"
        /\ \A j \in Threads \ {i} : inp[j].pc = "none" /\ inp'[j].pc = "none"
    BY <1>11, AloneGoes DEF InputLost, Readable, PromptInv
  <2>2. \A o \in OutputThreads : out[o].pc # "open"
    BY <2>1, NoneOpens
  <2> QED
    BY <1>11, <2>1, <2>2 DEF InputLost, TypeOK, Connection
<1>14. CASE InputTlsLost(i)
  <2>1. /\ inp[i].pc = "run" /\ inp'[i].pc = "lost"
        /\ \A j \in Threads \ {i} : inp[j].pc = "none" /\ inp'[j].pc = "none"
    BY <1>14, AloneGoes DEF InputTlsLost, Readable, PromptInv
  <2>2. \A o \in OutputThreads : out[o].pc # "open"
    BY <2>1, NoneOpens
  <2> QED
    BY <1>14, <2>1, <2>2 DEF InputTlsLost
<1>15. CASE InputSynced(i)
  <2>1. /\ inp[i].pc = "sync" /\ inp'[i].pc = "init"
        /\ \A j \in Threads \ {i} : inp[j].pc = "none" /\ inp'[j].pc = "none"
    BY <1>15, AloneGoes DEF InputSynced, PromptInv
  <2>2. OutputThreads = {}
    BY <2>1 DEF PromptInv, InputAlone
  <2> QED
    BY <1>15, <2>1, <2>2 DEF InputSynced
<1>12. CASE InputTimeout(i)
  <2>1. /\ inp'[i].pc = "quiesce"
        /\ \A j \in Threads \ {i} : inp[j].pc = "none" /\ inp'[j].pc = "none"
    BY <1>12, AloneGoes DEF InputTimeout, PromptInv
  <2>2. \A o \in OutputThreads : out[o].pc # "open"
    BY <1>12, NoneOpens DEF InputTimeout
  <2> QED
    BY <1>12, <2>1, <2>2 DEF InputTimeout, TypeOK, Connection
<1>13. CASE InputData(i)
  <2>1. /\ inp'[i].pc \in {"startout", "awaitout"}
        /\ inp'[i].from = conn.input
        /\ \A j \in Threads \ {i} : inp[j].pc = "none" /\ inp'[j].pc = "none"
    BY <1>13 DEF InputData, Readable, PromptInv, OneThread, TypeOK
  <2>2. conn.input = made
    BY <1>13 DEF InputData, Readable, PromptInv, LastTunnel
  <2>3. \A o \in OutputThreads : out[o].pc # "open"
    BY <1>13, NoneOpens DEF InputData, Readable
  <2>4. /\ inp[i].pc = "run"
        /\ UNCHANGED <<conn, out, restart, main, made, restarts, late>>
    BY <1>13 DEF InputData, Readable
  <2> QED
    BY <2>1, <2>2, <2>3, <2>4
<1> QED
  BY <1>1, <1>2, <1>3, <1>4, <1>5, <1>6, <1>7, <1>8, <1>9, <1>10, <1>11,
     <1>12, <1>13, <1>14, <1>15

\* The input thread leaves: only after it was told to.
LEMMA InputGonePrompt ==
  ASSUME TypeOK, PromptInv, NEW i \in Threads,
         inp[i].pc \notin {"none", "started", "awaitout"}, InputGone(i)
  PROVE  PromptInv'
<1>1. \A j \in Threads : inp'[j].pc = "none"
  BY DEF InputGone, PromptInv, OneThread, NoInput, TypeOK
<1>2. /\ UNCHANGED <<out, made, restart, main>> /\ conn'.input = 0
      /\ conn'.output = conn.output /\ conn'.stopIn = conn.stopIn
      /\ conn'.startingOut = conn.startingOut
      /\ conn'.runningOut = conn.runningOut
  BY DEF InputGone, TypeOK, Connection
<1>3. InputThreads' = {} /\ OutputThreads' = OutputThreads
  BY <1>1, <1>2 DEF InputThreads, OutputThreads
<1>4. OneThread' /\ RestartWaits' /\ InputAlone'
  BY <1>1, <1>2, <1>3
     DEF PromptInv, OneThread, RestartWaits, Restarting, InputAlone
<1>5. OutputFlagged'
  BY <1>1, <1>2 DEF PromptInv, OneThread, OutputFlagged
<1>6. LastTunnel'
  BY <1>1, <1>2, <1>3 DEF PromptInv, LastTunnel
<1> QED
  BY <1>4, <1>5, <1>6 DEF PromptInv

\* An output thread is started: there is none.
LEMMA StartOutputPrompt ==
  ASSUME TypeOK, PromptInv, NEW i \in Threads, StartOutput(i)
  PROVE  PromptInv'
<1> DEFINE new == [NoOutput EXCEPT !.pc = "open", !.owner = inp[i].from]
<1>0. inp[i].from = made
  BY DEF StartOutput, PromptInv, LastTunnel
<1>1. CASE conn.runningOut \/ conn.startingOut
  <2>1. /\ inp'[i].pc = "awaitout" /\ inp'[i].from = inp[i].from
        /\ \A j \in Threads \ {i} : inp[j].pc = "none" /\ inp'[j].pc = "none"
    BY <1>1, AloneGoes DEF StartOutput, PromptInv
  <2>2. InputMove(i)
    BY <1>0, <1>1, <2>1 DEF StartOutput, InputMove
  <2> QED
    BY <2>2, MoveIsPrompt
<1>2. CASE ~conn.runningOut /\ ~conn.startingOut
  <2>1. \A o \in Threads : out[o].pc = "none"
    BY <1>2, NoneOpens DEF StartOutput, OutputThreads
  <2>2. /\ inp'[i].pc = "started" /\ inp'[i].from = made
        /\ \A j \in Threads \ {i} : inp[j].pc = "none" /\ inp'[j].pc = "none"
    BY <1>0, <1>2, AloneGoes DEF StartOutput, PromptInv
  <2>3. /\ out'[1] = new
        /\ \A o \in Threads \ {1} : out'[o].pc = "none"
    <3>1. out' = [t \in Threads |->
                    IF \A u \in 1..(t - 1) : out[u].pc # "none"
                    THEN new ELSE out[t]]
      BY <1>2, <2>1 DEF StartOutput, Started
    <3>2. \A t \in Threads \ {1} : 1 \in 1..(t - 1)
      BY BoundsAssumption DEF Threads
    <3>3. \A u \in 1..(1 - 1) : out[u].pc # "none"
      OBVIOUS
    <3> HIDE DEF new
    <3> QED
      BY <2>1, <3>1, <3>2, <3>3, NumbersOK
  <2>4. new.pc = "open" /\ new.owner = made
    BY <1>0 DEF NoOutput
  <2>5. 1 \in Threads /\ OutputThreads # Threads
    BY <2>1, NumbersOK DEF OutputThreads
  <2>6. /\ UNCHANGED <<made, restart, main>> /\ conn'.startingOut
        /\ conn'.input = conn.input /\ conn'.output = conn.output
        /\ conn'.stopIn = conn.stopIn /\ conn'.runningIn = conn.runningIn
        /\ ~conn'.runningOut /\ inp[i].pc = "startout"
    BY <1>2, <2>5 DEF StartOutput, TypeOK, Connection
  <2>7. InputThreads # {} /\ conn.output = 0
    BY <2>1, <2>6 DEF InputThreads, OutputThreads, PromptInv, LastTunnel
  <2> HIDE DEF new
  <2>8. OneThread'
    BY <2>2, <2>3 DEF OneThread
  <2>9. RestartWaits'
    BY <2>6, <2>7 DEF PromptInv, RestartWaits, Restarting
  <2>10. OutputFlagged'
    BY <2>2, <2>3, <2>4, <2>6 DEF OutputFlagged
  <2>11. InputAlone' /\ LastTunnel'
    BY <2>2, <2>3, <2>4, <2>6, <2>7 DEF PromptInv, InputAlone, LastTunnel
  <2> QED
    BY <2>8, <2>9, <2>10, <2>11 DEF PromptInv
<1> QED
  BY <1>1, <1>2

LEMMA InputStepPrompt ==
  ASSUME TypeOK, PromptInv, ~late', NEW i \in Threads, InputActs(i)
  PROVE  PromptInv'
<1>1. CASE InputStops(i) \/ InputExit(i)
  <2>1. InputGone(i) /\ inp[i].pc \notin {"none", "started", "awaitout"}
    BY <1>1 DEF InputStops, InputExit, PromptInv, InputAlone
  <2> QED
    BY <2>1, InputGonePrompt
<1> QED
  BY <1>1, InputConnectPrompt, StartOutputPrompt, InputMovesPrompt,
     MoveIsPrompt DEF InputActs

\* What the moves of the output thread have in common.
OutputMove(o) ==
    /\ UNCHANGED <<inp, made, restart, main>>
    /\ conn'.stopIn = conn.stopIn /\ conn'.runningIn = conn.runningIn
    /\ conn'.input = conn.input
    /\ \A p \in Threads \ {o} : out[p].pc = "none" /\ out'[p].pc = "none"
    /\ out[o].pc # "none" /\ out'[o].pc # "open"
    /\ out'[o].pc # "none" => conn'.runningOut /\ out'[o].owner = made
    /\ out'[o].pc \in {"none", "exit"} => conn'.output = 0
    /\ out'[o].pc \in {"await", "send"} => out'[o].from = made
    /\ conn'.output \in {0, made}

LEMMA OutputMoveIsPrompt ==
  ASSUME TypeOK, PromptInv, NEW o \in Threads, OutputMove(o)
  PROVE  PromptInv'
<1>1. /\ InputThreads' = InputThreads /\ OutputThreads # {}
      /\ OutputThreads' = {} <=> out'[o].pc = "none"
  BY DEF OutputMove, OutputThreads, InputThreads
<1>2. OneThread'
  BY DEF OutputMove, PromptInv, OneThread
<1>3. RestartWaits'
  BY <1>1 DEF OutputMove, PromptInv, RestartWaits, Restarting
<1>4. OutputFlagged'
  BY DEF OutputMove, OutputFlagged
<1>5. InputAlone'
  BY <1>1 DEF OutputMove, PromptInv, InputAlone, ShuttingDown
<1>6. LastTunnel'
  BY <1>1 DEF OutputMove, PromptInv, LastTunnel
<1> QED
  BY <1>2, <1>3, <1>4, <1>5, <1>6 DEF PromptInv

LEMMA OutputStepPrompt ==
  ASSUME TypeOK, PromptInv, NEW o \in Threads, OutputActs(o)
  PROVE  PromptInv'
<1> SUFFICES OutputMove(o)
  BY OutputMoveIsPrompt
<1> USE DEF OutputMove
<1>1. ASSUME NEW to, GoOutput(o, to), out[o].pc # "none"
      PROVE  /\ out'[o].pc = to /\ out'[o].owner = made
             /\ out'[o].from = out[o].from
             /\ \A p \in Threads \ {o} :
                   out[p].pc = "none" /\ out'[p].pc = "none"
  BY <1>1 DEF GoOutput, TypeOK, Output, PromptInv, OneThread, LastTunnel
<1>2. ASSUME out' = [out EXCEPT ![o] = NoOutput], out[o].pc # "none"
      PROVE  \A p \in Threads : /\ out'[p].pc = "none"
                                /\ p # o => out[p].pc = "none"
  BY <1>2 DEF NoOutput, TypeOK, PromptInv, OneThread
<1>3. /\ out[o].pc \notin {"none", "open"} => conn.runningOut
      /\ out[o].pc # "none" => out[o].owner = made
      /\ conn.output \in {0, made}
      /\ out[o].pc = "exit" => conn.output = 0
      /\ out[o].pc \in {"await", "send"} => out[o].from = made
  BY DEF PromptInv, OutputFlagged, LastTunnel
<1>4. CASE OutputOpens(o)
  BY <1>1, <1>3, <1>4 DEF OutputOpens, TypeOK, Connection
<1>5. CASE \E tls \in BOOLEAN : OutputFails(o, tls)
  BY <1>2, <1>5 DEF OutputFails, TypeOK, Connection
<1>6. CASE OutputLoopEnds(o)
  BY <1>1, <1>3, <1>6 DEF OutputLoopEnds, TypeOK, Connection
<1>7. CASE OutputAwaits(o)
  BY <1>1, <1>3, <1>7 DEF OutputAwaits, TypeOK, Connection
<1>8. CASE OutputSend(o)
  <2>1. /\ out'[o].pc = "run" /\ out'[o].owner = out[o].owner
        /\ \A p \in Threads \ {o} :
              out[p].pc = "none" /\ out'[p].pc = "none"
    BY <1>8 DEF OutputSend, TypeOK, Output, PromptInv, OneThread
  <2> QED
    BY <1>3, <1>8, <2>1 DEF OutputSend
<1>9. CASE OutputExit(o)
  BY <1>2, <1>3, <1>9 DEF OutputExit, TypeOK, Connection
<1>10. CASE OutputData(o)
  <2>1. /\ out'[o].pc = "await" /\ out'[o].owner = out[o].owner
        /\ out'[o].from = conn.output
        /\ \A p \in Threads \ {o} :
              out[p].pc = "none" /\ out'[p].pc = "none"
    BY <1>10 DEF OutputData, TypeOK, Output, PromptInv, OneThread
  <2> QED
    BY <1>3, <1>10, <2>1 DEF OutputData
<1> QED
  BY <1>4, <1>5, <1>6, <1>7, <1>8, <1>9, <1>10 DEF OutputActs

\* A restart that overtakes nobody comes alone, when no thread is being made;
\* it waits for the threads and then starts the only one.
LEMMA RestartPrompt ==
  ASSUME TypeOK, PromptInv, ~late', NEW a \in Actors,
         RestartStep(a) \/ Drop \/ RestartStop(a)
  PROVE  PromptInv'
<1>0. ASSUME NEW b \in Actors, NEW to, Goes(b, to)
      PROVE  restart'[b] = to /\ \A c \in Actors \ {b} : restart'[c] = restart[c]
  BY <1>0 DEF Goes, TypeOK
<1> USE DEF Restarting
<1>1. CASE RestartDrain(a)
  <2>1. InputThreads = {} /\ OutputThreads = {}
    BY <1>1 DEF RestartDrain, PromptInv, RestartWaits
  <2>2. /\ UNCHANGED <<inp, out, made, main>> /\ restart'[a] = "start"
        /\ restart[a] = "drain"
        /\ \A c \in Actors \ {a} : restart'[c] = restart[c]
        /\ conn'.input = conn.input /\ conn'.output = conn.output
    BY <1>0, <1>1 DEF RestartDrain, TypeOK, Connection
  <2> QED
    BY <2>1, <2>2 DEF PromptInv, OneThread, RestartWaits, OutputFlagged,
          InputAlone, LastTunnel, InputThreads, OutputThreads
<1>2. CASE RestartStart(a)
  <2>1. InputThreads = {} /\ OutputThreads = {}
    BY <1>2 DEF RestartStart, PromptInv, RestartWaits
  <2>2. /\ UNCHANGED <<out, made, main>> /\ restart'[a] = "await"
        /\ restart[a] = "start"
        /\ \A c \in Actors \ {a} : restart'[c] = restart[c]
        /\ conn'.input = conn.input /\ conn'.output = conn.output
    <3>1. /\ UNCHANGED <<out, made, main>> /\ Goes(a, "await")
          /\ restart[a] = "start"
          /\ conn'.input = conn.input /\ conn'.output = conn.output
      BY <1>2 DEF RestartStart, TypeOK, Connection
    <3> QED
      BY <1>0, <3>1
  <2>3. /\ \A i \in Threads : inp'[i].pc \in {"none", "init"}
        /\ \A i \in Threads \ {1} : inp'[i].pc = "none"
    <3>1. CASE conn.runningIn
      BY <1>2, <2>1, <3>1 DEF RestartStart, InputThreads
    <3>2. CASE ~conn.runningIn
      <4> DEFINE new == [NoInput EXCEPT !.pc = "init"]
      <4>1. inp' = [t \in Threads |->
                      IF \A u \in 1..(t - 1) : inp[u].pc # "none"
                      THEN new ELSE inp[t]]
        BY <1>2, <2>1, <3>2 DEF RestartStart, Started, InputThreads
      <4>2. \A t \in Threads \ {1} : 1 \in 1..(t - 1)
        BY BoundsAssumption DEF Threads
      <4>3. new.pc = "init"
        BY DEF NoInput
      <4>4. \A t \in Threads : inp[t].pc = "none"
        BY <2>1 DEF InputThreads
      <4> HIDE DEF new
      <4> QED
        BY <4>1, <4>2, <4>3, <4>4, NumbersOK
    <3> QED
      BY <3>1, <3>2
  <2> QED
    BY <2>1, <2>2, <2>3 DEF PromptInv, OneThread, RestartWaits,
          OutputFlagged, InputAlone, LastTunnel, OutputThreads
<1>3. CASE RestartDone(a)
  <2>1. /\ UNCHANGED <<conn, inp, out, made, main>> /\ restart'[a] = "idle"
        /\ \A c \in Actors \ {a} : restart'[c] = restart[c]
    BY <1>0, <1>3 DEF RestartDone
  <2> QED
    BY <2>1 DEF PromptInv, OneThread, RestartWaits, OutputFlagged, InputAlone,
          LastTunnel, InputThreads, OutputThreads, ShuttingDown
<1>4. CASE Drop \/ RestartStop(a)
  <2>1. /\ conn.runningIn \/ InputThreads = {}
        /\ UNCHANGED <<inp, out, made, main>>
        /\ conn'.stopIn /\ conn'.runningIn = conn.runningIn
        /\ conn'.input \in {0, conn.input}
        /\ conn'.output \in {0, conn.output}
        /\ conn'.startingOut = conn.startingOut
        /\ conn'.runningOut = conn.runningOut
    BY <1>4 DEF Drop, RestartStop, Making, TypeOK, Connection
  <2>2. /\ \A b, c \in Actors : restart'[b] \in {"drain", "start", "await"}
              /\ restart'[c] \in {"drain", "start", "await"} => b = c
        /\ \A b \in Actors : restart'[b] = "start" => restart[b] = "start"
    <3>1. CASE Drop
      BY <1>0, <3>1 DEF Drop, Actors
    <3>2. CASE RestartStop(a)
      BY <1>0, <3>2 DEF RestartStop
    <3> QED
      BY <1>4, <3>1, <3>2
  <2> QED
    BY <2>1, <2>2 DEF PromptInv, OneThread, RestartWaits, OutputFlagged,
          InputAlone, LastTunnel, InputThreads, OutputThreads
<1> QED
  BY <1>1, <1>2, <1>3, <1>4 DEF RestartStep

LEMMA MainPrompt ==
  ASSUME TypeOK, PromptInv, MainStep \/ Shutdown
  PROVE  PromptInv'
<1>1. /\ UNCHANGED <<inp, out, made, restart>>
      /\ conn.stopIn => conn'.stopIn
      /\ conn'.runningIn = conn.runningIn
      /\ conn'.input = conn.input /\ conn'.output = conn.output
      /\ conn'.startingOut = conn.startingOut
      /\ conn'.runningOut = conn.runningOut
      /\ ShuttingDown => ShuttingDown'
  BY DEF MainStep, MainLoops, StopServers, StopDone, Shutdown, ShuttingDown,
         TypeOK, Connection
<1> QED
  BY <1>1 DEF PromptInv, OneThread, RestartWaits, Restarting, OutputFlagged,
       InputAlone, LastTunnel, InputThreads, OutputThreads

\* Overtaken once is overtaken for good.
LEMMA LateStays == Next => (late => late')
<1>1. ASSUME late, NEW i \in Threads, InputActs(i)
      PROVE  late'
  BY <1>1 DEF InputActs, InputStops, InputGone, InputInit, InputConnect,
       InputHandshakeFails, InputSynced, InputLoopEnds, InputExit,
       InputTlsLost, InputLost, InputTimeout, InputQuiesced,
       InputClosesOutput, InputDrained, GivesUpOutput, InputData, StartOutput,
       OutputStarted, InputAwaits, InputGivesUp, InputSend
<1>2. ASSUME late, NEW o \in Threads, OutputActs(o)
      PROVE  late'
  BY <1>2 DEF OutputActs, OutputOpens, OutputFails, OutputLoopEnds, OutputData,
       OutputAwaits, OutputSend, OutputExit
<1>3. ASSUME late, NEW a \in Actors, RestartStep(a) \/ RestartStop(a)
      PROVE  late'
  BY <1>3 DEF RestartStep, RestartDrain, RestartStart, RestartDone, RestartStop
<1>4. ASSUME late, Drop \/ MainStep \/ Shutdown
      PROVE  late'
  BY <1>4 DEF Drop, MainStep, MainLoops, StopServers, StopDone, Shutdown
<1> QED
  BY <1>1, <1>2, <1>3, <1>4, WhoActs

-----------------------------------------------------------------------------
(* The theorems *)

TunnelInv ==
    /\ TypeOK
    /\ InputKept
    /\ ~late => PromptInv

\* The inductive invariant of a connection.
THEOREM TunnelInvariant == Spec => []TunnelInv
<1>1. Init => TunnelInv
  <2> SUFFICES ASSUME Init PROVE TunnelInv
    OBVIOUS
  <2>1. TypeOK
    <3>1. /\ conn \in Connection /\ made \in 0..MaxTunnels
          /\ restarts \in 0..MaxRestarts
      BY NumbersOK, BoundsAssumption DEF Init, Connection
    <3>2. inp \in [Threads -> Input] /\ out \in [Threads -> Output]
      BY NumbersOK
         DEF Init, NoInput, NoOutput, Input, InputPc, Output, OutputPc
    <3> QED
      BY <3>1, <3>2 DEF Init, TypeOK, RestartPc
  <2>2. InputKept
    BY NumbersOK DEF Init, InputKept, InputThreads, NoInput, ShuttingDown
  <2>3. PromptInv
    BY DEF Init, PromptInv, OneThread, RestartWaits, Restarting, OutputFlagged,
           InputAlone, LastTunnel, InputThreads, OutputThreads, NoInput,
           NoOutput
  <2> QED
    BY <2>1, <2>2, <2>3 DEF TunnelInv
<1>2. TunnelInv /\ [Next]_vars => TunnelInv'
  <2> SUFFICES ASSUME TunnelInv, [Next]_vars PROVE TunnelInv'
    OBVIOUS
  <2>1. CASE Next
    <3>1. TypeOK' /\ InputKept'
      BY <2>1, StepTypes, StepKeepsInput DEF TunnelInv
    <3>2. late => late'
      BY <2>1, LateStays
    <3>3. ASSUME ~late'
          PROVE  PromptInv'
      <4>1. TypeOK /\ PromptInv /\ "hb" \in Actors
        BY <3>2, <3>3 DEF TunnelInv, Actors
      <4> QED
        BY <2>1, <3>3, <4>1, WhoActs, InputStepPrompt, OutputStepPrompt,
           RestartPrompt, MainPrompt
    <3> QED
      BY <3>1, <3>2, <3>3 DEF TunnelInv
  <2>2. CASE UNCHANGED vars
    BY <2>2 DEF vars, TunnelInv, TypeOK, InputKept, PromptInv, OneThread,
         RestartWaits, Restarting, OutputFlagged, InputAlone, LastTunnel,
         InputThreads, OutputThreads, ShuttingDown
  <2> QED
    BY <2>1, <2>2
<1> QED
  BY <1>1, <1>2, PTL DEF Spec

\* The flags, the descriptors and the threads stay in their types.
THEOREM TunnelTyped == Spec => []TypeOK
<1>1. TunnelInv => TypeOK
  BY DEF TunnelInv
<1> QED
  BY <1>1, TunnelInvariant, PTL

\* However late the threads are, a client that runs and is not being restarted
\* has an input thread for the connection.
THEOREM InputThreadKept == Spec => []KeepsInput
<1>1. TunnelInv => KeepsInput
  BY DEF TunnelInv, InputKept, KeepsInput, ShuttingDown
<1> QED
  BY <1>1, TunnelInvariant, PTL

LEMMA AtMostOne ==
  ASSUME NEW S, \A x, y \in S : x = y
  PROVE  Cardinality(S) <= 1
<1>1. CASE S = {}
  BY <1>1, FS_EmptySet
<1>2. CASE S # {}
  <2>1. PICK x : x \in S
    BY <1>2
  <2>2. S = {x}
    BY <2>1
  <2>3. Cardinality({x}) = 1
    BY FS_Singleton, Zenon
  <2> QED
    BY <2>2, <2>3
<1> QED
  BY <1>1, <1>2

\* As long as no thread has been overtaken, the flags keep the connection to
\* one thread of each kind, restarts included.
THEOREM OneThreadOfEach == Spec => []OneOfEach
<1>1. TunnelInv => OneOfEach
  <2> SUFFICES ASSUME TunnelInv, ~late
               PROVE  /\ Cardinality(InputThreads) <= 1
                      /\ Cardinality(OutputThreads) <= 1
    BY DEF OneOfEach
  <2>1. /\ \A i, j \in InputThreads : i = j
        /\ \A o, p \in OutputThreads : o = p
    BY DEF TunnelInv, PromptInv, OneThread, InputThreads, OutputThreads
  <2> QED
    BY <2>1, AtMostOne
<1> QED
  BY <1>1, TunnelInvariant, PTL

\* As long as no thread has been overtaken, no data of an earlier tunnel is
\* delivered, in either direction.
THEOREM NothingStaleDelivered == Spec => []NothingStale
<1>1. TunnelInv => NothingStale
  BY DEF TunnelInv, PromptInv, LastTunnel, NothingStale, InputThreads,
         OutputThreads
<1> QED
  BY <1>1, TunnelInvariant, PTL
=============================================================================
