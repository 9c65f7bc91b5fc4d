------------------------- MODULE TunnelRuntimesProofs -------------------------
(***************************************************************************)
(* Proofs about TunnelRuntimes, for any number of devices, registry        *)
(* entries, runtimes, connections and descriptors.                         *)
(*                                                                         *)
(* With any assignment of fixed ports, and with none, TypeOK holds, and    *)
(* the other safety properties hold as long as two things do not happen:   *)
(* a registration is given ports that another device's runtime still has,  *)
(* or a runtime is started when the registry is full (CleanStart).         *)
(* ListensOnItsOwn fails only if two runtimes were given descriptor 0,     *)
(* which every stop closes, for their public port (OneOnZero).  When every *)
(* device has a fixed port of its own and the registry has room for all of *)
(* them (Separate), CleanStart holds of itself, and so does OneOnZero when *)
(* at most one device has its TLS settings changed (OneTls).  The          *)
(* properties are not inductive: the invariant, Sound, says who owns every *)
(* descriptor and whose listener descriptor 0 can be.                      *)
(***************************************************************************)
EXTENDS TunnelRuntimes, FiniteSetTheorems, WellFoundedInduction, TLAPS

\* Whatever runs on the pair runs for the device.
OwnPair(S, d, p) ==
    \A i \in Slots : S.registry[i].active /\ S.registry[i].pair = p
        => S.registry[i].device = d

\* An entry of the registry is free, or will be when the pair's is stopped.
RoomFor(S, p) == \E i \in Slots : S.registry[i].active => S.registry[i].pair = p

\* A device is not given a pair on which another device's runtime is left, and
\* no tunnel is looked for that could not be registered.
CleanStart ==
    \A d \in Devices :
        /\ Register(d) => OwnPair(st, d, PairFor(d)) /\ RoomFor(st, PairFor(d))
        /\ Heartbeat(d) \/ (ReloadTls(d) /\ lease[d] # NoPair) => RoomFor(st, lease[d])

CleanStarts == [][CleanStart]_vars

\* No pair passes from one device to another, and no runtime is left out of
\* the registry.
Separate ==
    /\ \A d \in Devices : Fixed[d] \in Pairs
    /\ \A d, e \in Devices : Fixed[d] = Fixed[e] => d = e
    /\ IsFiniteSet(Devices) /\ Cardinality(Devices) <= MaxRuntimes

\* A stop closes descriptor 0 under whoever has it, and only a device whose
\* runtime is stopped while it keeps its lease can be given that descriptor
\* for a listener.  Two such devices would come to listen on the same one.
OneTls == \A d, e \in TlsDevices : d = e

-----------------------------------------------------------------------------
(* Least elements *)

Less == {p \in Nat \X Nat : p[1] < p[2]}

LEMMA LessWellFounded == IsWellFoundedOn(Less, Nat)
<1>1. Less = OpToRel(<, Nat)
  BY DEF Less, OpToRel
<1> QED
  BY <1>1, NatLessThanWellFounded, Zenon

\* A set of natural numbers has a least element.
LEMMA HasLeast ==
  ASSUME NEW T, T \subseteq Nat, T # {}
  PROVE  \E x \in T : \A y \in T : x <= y
<1>1. PICK x \in T : \A y \in T : <<y, x>> \notin Less
  BY LessWellFounded, WFMin
<1>2. \A a, b \in Nat : a < b => <<a, b>> \in Less
  BY DEF Less
<1>3. ASSUME NEW y \in T
      PROVE  x <= y
  <2>1. x \in Nat /\ y \in Nat
    OBVIOUS
  <2>2. ~(y < x)
    BY <1>1, <1>2, <2>1
  <2> QED
    BY <2>1, <2>2
<1> QED
  BY <1>1, <1>3

LEMMA MinIs ==
  ASSUME NEW T, T \subseteq Nat, T # {}
  PROVE  Min(T) \in T /\ \A x \in T : Min(T) <= x
<1>1. \E x \in T : \A y \in T : x <= y
  BY HasLeast
<1> QED
  BY <1>1 DEF Min

-----------------------------------------------------------------------------
(* Descriptors *)

Runs == 1..MaxLive

Server == [registry : [Slots -> Entry], runtimes : [Runs -> Runtime],
           files : [Fds -> File]]

LEMMA Sizes ==
  /\ MaxLive \in Nat /\ MaxLive > 0 /\ MaxRuntimes \in Nat /\ LastFd \in Nat
  /\ Fds \subseteq Nat /\ 0 \in Fds /\ Runs \subseteq Nat /\ 0 \notin Runs
  /\ Slots \subseteq Nat /\ NoFd \notin Fds /\ NoFd # 0
BY RuntimeAssumption DEF Fds, Runs, Slots, NoFd

LEMMA Kinds ==
  /\ Closed \in File /\ Stdin \in File /\ Unbound \in File /\ Connection \in File
  /\ Closed # Stdin /\ Closed # Unbound /\ Closed # Connection
  /\ Stdin # Unbound /\ Stdin # Connection /\ Unbound # Connection
  /\ ~Accepting(Closed) /\ ~Accepting(Stdin) /\ ~Accepting(Unbound)
  /\ ~Accepting(Connection)
  /\ \A side \in Sides, p \in Pairs : /\ Listener(side, p) \in File
                                      /\ Accepting(Listener(side, p))
                                      /\ Listener(side, p) # Closed
                                      /\ Listener(side, p) # Connection
  /\ \A s1, s2, p1, p2 : Listener(s1, p1) = Listener(s2, p2) => s1 = s2 /\ p1 = p2
  /\ \A x \in File : Accepting(x) => \E side \in Sides, p \in Pairs : x = Listener(side, p)
  /\ "input" \in Sides /\ "output" \in Sides
<1>1. \A s1, s2, p1, p2 : Listener(s1, p1) = Listener(s2, p2) => s1 = s2 /\ p1 = p2
  <2> SUFFICES ASSUME NEW s1, NEW s2, NEW p1, NEW p2, Listener(s1, p1) = Listener(s2, p2)
               PROVE  s1 = s2 /\ p1 = p2
    OBVIOUS
  <2>1. Listener(s1, p1).kind = s1 /\ Listener(s2, p2).kind = s2
        /\ Listener(s1, p1).pair = p1 /\ Listener(s2, p2).pair = p2
    BY DEF Listener
  <2> QED
    BY <2>1
<1>2. \A x \in File : Accepting(x) => \E side \in Sides, p \in Pairs : x = Listener(side, p)
  BY DEF File, Accepting, Closed, Stdin, Unbound, Connection, Sides
<1>3. \A side \in Sides, p \in Pairs : /\ Listener(side, p) \in File
                                       /\ Accepting(Listener(side, p))
  BY DEF File, Accepting, Listener
<1> QED
  BY <1>1, <1>2, <1>3 DEF File, Accepting, Closed, Stdin, Unbound, Connection, Sides

LEMMA CloseIs ==
  ASSUME NEW files \in [Fds -> File], NEW F
  PROVE  /\ close(files, F) \in [Fds -> File]
         /\ \A f \in Fds : close(files, F)[f] = IF f \in F THEN Closed ELSE files[f]
BY Kinds DEF close

\* The port is bound by a socket of the process.
Bound(files, side, p) == \E g \in Fds : files[g] = Listener(side, p)

\* What init_input_socket and init_output_socket do: nothing without a free
\* descriptor; otherwise the lowest one is taken, for a listener or in vain.
LEMMA SocketDoes ==
  ASSUME NEW files \in [Fds -> File], NEW side \in Sides, NEW p \in Pairs,
         NEW k, k = init_socket(files, side, p)
  PROVE  /\ k.ok \in BOOLEAN /\ k.files \in [Fds -> File] /\ k.fd \in Fds \cup {NoFd}
         /\ ~k.ok /\ ~Bound(files, side, p) => k.files = files
         /\ k.ok => /\ ~Bound(files, side, p)
                    /\ k.fd \in Fds /\ files[k.fd] = Closed
                    /\ k.fd # 0 => files[0] # Closed
                    /\ k.files[k.fd] = Listener(side, p)
                    /\ \A g \in Fds \ {k.fd} : k.files[g] = files[g]
<1> DEFINE f == Min(FreeFds(files))
           b == Bound(files, side, p)
           x == IF b THEN Unbound ELSE Listener(side, p)
<1>1. CASE FreeFds(files) = {}
  <2>1. k = [ok |-> FALSE, fd |-> NoFd, files |-> files]
    BY <1>1, Zenon DEF init_socket
  <2> QED
    BY <2>1
<1>2. CASE FreeFds(files) # {}
  <2>1. k = [ok |-> ~b, fd |-> f, files |-> [files EXCEPT ![f] = x]]
    BY <1>2, Zenon DEF init_socket, Bound
  <2>2. f \in FreeFds(files) /\ \A g \in FreeFds(files) : f <= g
    <3>1. FreeFds(files) \subseteq Nat
      BY Sizes DEF FreeFds
    <3> QED
      BY <1>2, <3>1, MinIs
  <2>3. f \in Fds /\ files[f] = Closed /\ f \in Nat
    BY <2>2, Sizes DEF FreeFds
  <2>4. f # 0 => files[0] # Closed
    <3>1. files[0] = Closed => 0 \in FreeFds(files)
      BY Sizes DEF FreeFds
    <3> HIDE DEF f
    <3> QED
      BY <2>2, <2>3, <3>1
  <2>5. x \in File /\ b \in BOOLEAN
    BY Kinds DEF Bound
  <2>6. b = FALSE => x = Listener(side, p)
    OBVIOUS
  <2> HIDE DEF f, b, x
  <2>7. k.ok = ~b /\ k.fd = f /\ k.files = [files EXCEPT ![f] = x]
    BY <2>1
  <2>8. /\ k.files \in [Fds -> File] /\ k.files[f] = x
        /\ \A g \in Fds \ {f} : k.files[g] = files[g]
    BY <2>3, <2>5, <2>7
  <2>9. k.ok \in BOOLEAN /\ k.fd \in Fds \cup {NoFd} /\ (k.ok <=> ~b)
    BY <2>3, <2>5, <2>7
  <2>10. ~k.ok => Bound(files, side, p)
    BY <2>9 DEF b
  <2>11. k.ok => ~Bound(files, side, p) /\ x = Listener(side, p)
    BY <2>5, <2>6, <2>9 DEF b
  <2> QED
    BY <2>3, <2>4, <2>7, <2>8, <2>9, <2>10, <2>11
<1> QED
  BY <1>1, <1>2

-----------------------------------------------------------------------------
(* The operations on the server keep its type *)

LEMMA Nothing ==
  /\ Gone \in Runtime /\ NoEntry \in Entry
  /\ ~Gone.enable /\ Gone.local = {} /\ ~Gone.inputRunning /\ ~Gone.outputRunning
  /\ ~NoEntry.active /\ NoEntry.runtime = 0
<1>1. (CHOOSE d \in Devices : TRUE) \in Devices
  BY RuntimeAssumption
<1>2. NoFd \in Fds \cup {NoFd} /\ 0 \in 0..MaxLive
  BY Sizes
<1> QED
  BY <1>1, <1>2 DEF Gone, NoEntry, Runtime, Entry

\* The runtimes of the entries of I.
RunsOf(S, I) == {S.registry[i].runtime : i \in I}

ClosedBy(S, I) == UNION {ClosedByStop(S.runtimes[r]) : r \in RunsOf(S, I)}

LEMMA StopIs ==
  ASSUME NEW S \in Server, NEW I, NEW U, U = StopEntries(S, I)
  PROVE  /\ U \in Server
         /\ U.files = close(S.files, ClosedBy(S, I))
         /\ \A r \in Runs : U.runtimes[r] = IF r \in RunsOf(S, I) THEN Gone
                                            ELSE S.runtimes[r]
         /\ \A i \in Slots \cap I : /\ ~U.registry[i].active
                                    /\ U.registry[i].runtime = 0
         /\ \A i \in Slots \ I : U.registry[i] = S.registry[i]
<1> DEFINE files == close(S.files, ClosedBy(S, I))
           runtimes == [r \in Runs |-> IF r \in RunsOf(S, I) THEN Gone ELSE S.runtimes[r]]
           registry == [i \in Slots |-> IF i \in I
                          THEN [S.registry[i] EXCEPT !.active = FALSE, !.runtime = 0]
                          ELSE S.registry[i]]
<1>1. U = [files |-> files, runtimes |-> runtimes, registry |-> registry]
  BY Zenon DEF StopEntries, ClosedBy, RunsOf, Runs
<1>2. S.registry \in [Slots -> Entry] /\ S.runtimes \in [Runs -> Runtime]
      /\ S.files \in [Fds -> File]
  BY DEF Server
<1>3. files \in [Fds -> File]
  BY <1>2, CloseIs
<1>4. runtimes \in [Runs -> Runtime]
  BY <1>2, Nothing
<1>5. ASSUME NEW i \in Slots
      PROVE  LET e == [S.registry[i] EXCEPT !.active = FALSE, !.runtime = 0]
             IN  e \in Entry /\ ~e.active /\ e.runtime = 0
  <2>1. S.registry[i] \in Entry /\ 0 \in 0..MaxLive
    BY <1>2, Sizes
  <2> QED
    BY <2>1 DEF Entry
<1>6. registry \in [Slots -> Entry]
  BY <1>2, <1>5
<1>7. /\ \A i \in Slots \cap I : ~registry[i].active /\ registry[i].runtime = 0
      /\ \A i \in Slots \ I : registry[i] = S.registry[i]
  BY <1>5
<1>8. \A r \in Runs : runtimes[r] = IF r \in RunsOf(S, I) THEN Gone ELSE S.runtimes[r]
  OBVIOUS
<1> HIDE DEF files, runtimes, registry
<1>9. U.files = files /\ U.runtimes = runtimes /\ U.registry = registry
  BY <1>1
<1>10. U \in Server
  BY <1>1, <1>3, <1>4, <1>6 DEF Server
<1> QED
  BY <1>7, <1>8, <1>9, <1>10 DEF files

\* Other descriptors, and another runtime.
WithFiles(S, files) == [S EXCEPT !.files = files]

WithRun(S, files, r, run) == [S EXCEPT !.files = files, !.runtimes[r] = run]

LEMMA WithFilesIs ==
  ASSUME NEW S \in Server, NEW files \in [Fds -> File], NEW U, U = WithFiles(S, files)
  PROVE  /\ U \in Server /\ U.files = files
         /\ U.runtimes = S.runtimes /\ U.registry = S.registry
BY DEF WithFiles, Server

LEMMA WithRunIs ==
  ASSUME NEW S \in Server, NEW files \in [Fds -> File], NEW r \in Runs,
         NEW run \in Runtime, NEW U, U = WithRun(S, files, r, run)
  PROVE  /\ U \in Server /\ U.files = files /\ U.registry = S.registry
         /\ U.runtimes[r] = run
         /\ \A q \in Runs \ {r} : U.runtimes[q] = S.runtimes[q]
<1> DEFINE runtimes == [S.runtimes EXCEPT ![r] = run]
<1>1. /\ S.registry \in [Slots -> Entry] /\ S.runtimes \in [Runs -> Runtime]
      /\ S = [registry |-> S.registry, runtimes |-> S.runtimes, files |-> S.files]
  BY DEF Server
<1>2. /\ runtimes \in [Runs -> Runtime] /\ runtimes[r] = run
      /\ \A q \in Runs \ {r} : runtimes[q] = S.runtimes[q]
  BY <1>1
<1>3. U = [registry |-> S.registry, runtimes |-> runtimes, files |-> files]
  BY <1>1 DEF WithRun
<1> HIDE DEF runtimes
<1>4. U.registry = S.registry /\ U.runtimes = runtimes /\ U.files = files
  BY <1>3
<1> QED
  BY <1>1, <1>2, <1>3, <1>4 DEF Server

NewEntry(d, p, r) == [active |-> TRUE, device |-> d, pair |-> p, runtime |-> r]

Inactive(S) == {i \in Slots : ~S.registry[i].active}

LEMMA RegisterIs ==
  ASSUME NEW S \in Server, NEW d \in Devices, NEW p \in Pairs, NEW r \in Runs, NEW U,
         U = register_dynamic_server_runtime(S, d, p, r)
  PROVE  /\ U \in Server /\ U.files = S.files /\ U.runtimes = S.runtimes
         /\ Inactive(S) = {} => U = S
         /\ Inactive(S) # {} => \E m \in Inactive(S) :
                                   /\ U.registry[m] = NewEntry(d, p, r)
                                   /\ \A i \in Slots \ {m} : U.registry[i] = S.registry[i]
<1>1. CASE Inactive(S) = {}
  <2>1. U = S
    BY <1>1, Zenon DEF register_dynamic_server_runtime, Inactive
  <2> QED
    BY <1>1, <2>1
<1>2. CASE Inactive(S) # {}
  <2> DEFINE m == Min(Inactive(S))
             e == NewEntry(d, p, r)
             registry == [S.registry EXCEPT ![m] = e]
  <2>1. U = [S EXCEPT !.registry[m] = e]
    BY <1>2, Zenon DEF register_dynamic_server_runtime, Inactive, NewEntry
  <2>2. m \in Inactive(S)
    <3>1. Inactive(S) \subseteq Nat
      BY Sizes DEF Inactive
    <3> QED
      BY <1>2, <3>1, MinIs
  <2>3. m \in Slots
    BY <2>2 DEF Inactive
  <2>4. e \in Entry
    <3>1. r \in 0..MaxLive /\ p \in Pairs \cup {NoPair}
      BY Sizes DEF Runs
    <3> QED
      BY <3>1 DEF NewEntry, Entry
  <2> HIDE DEF m, e
  <2>5. /\ S.registry \in [Slots -> Entry] /\ S.runtimes \in [Runs -> Runtime]
        /\ S.files \in [Fds -> File]
        /\ S = [registry |-> S.registry, runtimes |-> S.runtimes, files |-> S.files]
    BY DEF Server
  <2>6. /\ registry \in [Slots -> Entry] /\ registry[m] = e
        /\ \A i \in Slots \ {m} : registry[i] = S.registry[i]
    BY <2>3, <2>4, <2>5
  <2>7. U = [registry |-> registry, runtimes |-> S.runtimes, files |-> S.files]
    BY <2>1, <2>5
  <2> HIDE DEF registry
  <2>8. U.registry = registry /\ U.runtimes = S.runtimes /\ U.files = S.files
    BY <2>7
  <2>9. U \in Server
    BY <2>5, <2>6, <2>7 DEF Server
  <2> QED
    BY <1>2, <2>2, <2>6, <2>8, <2>9 DEF e
<1> QED
  BY <1>1, <1>2

NewRun(d, p, t, i, o) ==
    [device |-> d, pair |-> p, tls |-> t, enable |-> TRUE, input |-> i, output |-> o,
     local |-> {}, inputRunning |-> TRUE, outputRunning |-> TRUE]

LEMMA NewRunIs ==
  ASSUME NEW d \in Devices, NEW p \in Pairs, NEW t \in BOOLEAN, NEW i \in Fds,
         NEW o \in Fds, NEW run, run = NewRun(d, p, t, i, o)
  PROVE  /\ run \in Runtime /\ run.enable /\ run.device = d /\ run.pair = p
         /\ run.tls = t /\ run.input = i /\ run.output = o /\ run.local = {}
         /\ run.inputRunning /\ run.outputRunning
BY DEF NewRun, Runtime

Live(S) == {r \in Runs : S.runtimes[r].enable}

HasRoom(S) == Live(S) # Runs

\* The outcomes of start_dynamic_server_at_index.
StartFails(S, in, out, o) ==
    /\ ~o.ok
    /\ \/ ~in.ok /\ o.s = WithFiles(S, in.files)
       \/ in.ok /\ ~out.ok /\ o.s = WithFiles(S, close(out.files, {in.fd}))

StartWorks(S, d, p, t, in, out, o) ==
    /\ o.ok /\ in.ok /\ out.ok
    /\ \E r \in Runs \ Live(S) :
         o.s = register_dynamic_server_runtime(
                  WithRun(S, out.files, r, NewRun(d, p, t, in.fd, out.fd)), d, p, r)

LEMMA StartIs ==
  ASSUME NEW S \in Server, HasRoom(S), NEW d \in Devices, NEW p \in Pairs,
         NEW t \in BOOLEAN, NEW in, NEW out,
         in = init_socket(S.files, "input", p), out = init_socket(in.files, "output", p),
         NEW o, o = StartWith(S, d, p, t, in, out)
  PROVE  /\ o.s \in Server /\ o.ok \in BOOLEAN
         /\ StartFails(S, in, out, o) \/ StartWorks(S, d, p, t, in, out, o)
<1> DEFINE idle == {q \in 1..MaxLive : ~S.runtimes[q].enable}
           r == Min(idle)
           run == NewRun(d, p, t, in.fd, out.fd)
<1>1. S.files \in [Fds -> File] /\ "input" \in Sides /\ "output" \in Sides
  BY Kinds DEF Server
<1>2. /\ in.ok \in BOOLEAN /\ in.files \in [Fds -> File]
      /\ in.ok => in.fd \in Fds
  BY <1>1, SocketDoes
<1>3. /\ out.ok \in BOOLEAN /\ out.files \in [Fds -> File]
      /\ out.ok => out.fd \in Fds
  BY <1>1, <1>2, SocketDoes
<1>4. r \in Runs \ Live(S)
  <2>1. idle = Runs \ Live(S) /\ idle \subseteq Nat
    BY Sizes DEF Live, Runs
  <2>2. idle # {}
    BY <2>1 DEF HasRoom, Live
  <2> HIDE DEF idle
  <2> QED
    BY <2>1, <2>2, MinIs
<1>5. CASE ~in.ok
  <2>1. o = [ok |-> FALSE, s |-> WithFiles(S, in.files)]
    BY <1>5, Zenon DEF StartWith, WithFiles
  <2>2. WithFiles(S, in.files) \in Server
    BY <1>2, WithFilesIs
  <2>3. o.ok = FALSE /\ o.s = WithFiles(S, in.files)
    BY <2>1
  <2> QED
    BY <1>5, <2>2, <2>3 DEF StartFails
<1>6. CASE in.ok /\ ~out.ok
  <2>1. o = [ok |-> FALSE, s |-> WithFiles(S, close(out.files, {in.fd}))]
    BY <1>6, Zenon DEF StartWith, WithFiles
  <2>2. WithFiles(S, close(out.files, {in.fd})) \in Server
    BY <1>3, CloseIs, WithFilesIs
  <2>3. o.ok = FALSE /\ o.s = WithFiles(S, close(out.files, {in.fd}))
    BY <2>1
  <2> QED
    BY <1>6, <2>2, <2>3 DEF StartFails
<1>7. CASE in.ok /\ out.ok
  <2> DEFINE W == WithRun(S, out.files, r, run)
             V == register_dynamic_server_runtime(W, d, p, r)
  <2>1. o = [ok |-> TRUE, s |-> V]
    BY <1>7, Zenon DEF StartWith, WithRun, NewRun
  <2>2. run \in Runtime
    BY <1>2, <1>3, <1>7, NewRunIs
  <2>3. W \in Server
    <3> HIDE DEF run, r
    <3> QED
      BY <1>3, <1>4, <2>2, WithRunIs
  <2>4. V \in Server
    <3> HIDE DEF W, r
    <3> QED
      BY <1>4, <2>3, RegisterIs
  <2> HIDE DEF V
  <2>5. o.ok = TRUE /\ o.s = V
    BY <2>1
  <2>6. o.s = register_dynamic_server_runtime(
                 WithRun(S, out.files, r, NewRun(d, p, t, in.fd, out.fd)), d, p, r)
    BY <2>5 DEF V
  <2> HIDE DEF r
  <2> QED
    BY <1>4, <1>7, <2>4, <2>5, <2>6 DEF StartWorks
<1> QED
  BY <1>2, <1>3, <1>5, <1>6, <1>7

\* ensure_dynamic_server_for_device finds a runtime or starts one on the state
\* stop_dynamic_runtimes_for_device leaves.
LEMMA EnsureIs ==
  ASSUME NEW S, NEW d, NEW p, NEW t,
         NEW made \in ensure_dynamic_server_for_device(S, d, p, t)
  PROVE  \/ (\E i \in Slots : Healthy(S, i, p, t)) /\ made = [ok |-> TRUE, s |-> S]
         \/ /\ ~\E i \in Slots : Healthy(S, i, p, t)
            /\ \E C, in, out : /\ C = stop_dynamic_runtimes_for_device(S, d, p)
                               /\ in = init_socket(C.files, "input", p)
                               /\ out = init_socket(in.files, "output", p)
                               /\ made = StartWith(C, d, p, t, in, out)
<1>1. CASE \E i \in Slots : Healthy(S, i, p, t)
  BY <1>1 DEF ensure_dynamic_server_for_device
<1>2. CASE ~\E i \in Slots : Healthy(S, i, p, t)
  <2> DEFINE C == stop_dynamic_runtimes_for_device(S, d, p)
             in == init_socket(C.files, "input", p)
             out == init_socket(in.files, "output", p)
  <2>1. made \in create_dynamic_server_for_device(C, d, p, t)
    BY <1>2, Zenon DEF ensure_dynamic_server_for_device
  <2>2. PICK two \in Sockets(C.files, p) : made = StartWith(C, d, p, t, two.in, two.out)
    BY <2>1, Zenon DEF create_dynamic_server_for_device
  <2>3. two = [in |-> in, out |-> out]
    BY <2>2, Zenon DEF Sockets
  <2>4. two.in = in /\ two.out = out
    <3> HIDE DEF in, out
    <3> QED
      BY <2>3
  <2>5. made = StartWith(C, d, p, t, in, out)
    BY <2>2, <2>4, Zenon
  <2> QED
    BY <1>2, <2>5, Zenon
<1> QED
  BY <1>1, <1>2

LEMMA StopKeepsRoom ==
  ASSUME NEW S \in Server, HasRoom(S), NEW I, NEW U, U = StopEntries(S, I)
  PROVE  HasRoom(U)
<1>1. PICK r \in Runs : ~S.runtimes[r].enable
  BY DEF HasRoom, Live
<1>2. ~U.runtimes[r].enable
  BY <1>1, StopIs, Nothing
<1> QED
  BY <1>2 DEF HasRoom, Live

LEMMA EnsureTyped ==
  ASSUME NEW S \in Server, HasRoom(S), NEW d \in Devices, NEW p \in Pairs,
         NEW t \in BOOLEAN, NEW made \in ensure_dynamic_server_for_device(S, d, p, t)
  PROVE  made.s \in Server /\ made.ok \in BOOLEAN
<1>1. CASE made = [ok |-> TRUE, s |-> S]
  BY <1>1
<1>2. ASSUME NEW C, NEW in, NEW out, C = stop_dynamic_runtimes_for_device(S, d, p),
             in = init_socket(C.files, "input", p),
             out = init_socket(in.files, "output", p),
             made = StartWith(C, d, p, t, in, out)
      PROVE  made.s \in Server /\ made.ok \in BOOLEAN
  <2>1. C = StopEntries(S, Stoppable(S, d, p))
    BY <1>2 DEF stop_dynamic_runtimes_for_device
  <2>2. C \in Server /\ HasRoom(C)
    BY <2>1, StopIs, StopKeepsRoom
  <2>3. made.s \in Server /\ made.ok \in BOOLEAN
    BY <1>2, <2>2, StartIs
  <2> QED
    BY <2>3
<1> QED
  BY <1>1, <1>2, EnsureIs

-----------------------------------------------------------------------------
(* What the actions do to the server *)

Typed ==
    /\ st \in Server
    /\ lease \in [Devices -> Pairs \cup {NoPair}]
    /\ tls \in [Devices -> BOOLEAN]
    /\ reload \subseteq TlsDevices

\* A request holds the lowest free descriptor.
LEMMA ConnIs ==
  ASSUME st \in Server, MayHandle, NEW S \in WithConn
  PROVE  /\ Conn \in Fds /\ st.files[Conn] = Closed
         /\ Conn # 0 => st.files[0] # Closed
         /\ S = WithFiles(st, [st.files EXCEPT ![Conn] = Connection])
         /\ [st.files EXCEPT ![Conn] = Connection] \in [Fds -> File]
         /\ S \in Server /\ HasRoom(S) /\ HasRoom(st)
<1>1. FreeFds(st.files) \subseteq Nat /\ FreeFds(st.files) # {}
  BY Sizes DEF FreeFds, MayHandle
<1>2. Conn \in FreeFds(st.files) /\ \A f \in FreeFds(st.files) : Conn <= f
  BY <1>1, MinIs DEF Conn
<1>3. Conn \in Fds /\ st.files[Conn] = Closed /\ Conn \in Nat
  BY <1>1, <1>2 DEF FreeFds
<1>4. Conn # 0 => st.files[0] # Closed
  <2>1. st.files[0] = Closed => 0 \in FreeFds(st.files)
    BY Sizes DEF FreeFds
  <2> QED
    BY <1>2, <1>3, <2>1
<1> DEFINE files == [st.files EXCEPT ![Conn] = Connection]
<1>5. files \in [Fds -> File]
  BY <1>3, Kinds DEF Server
<1>6. S = [st EXCEPT !.files[Conn] = Connection]
  BY DEF WithConn
<1>7. S = WithFiles(st, files)
  BY <1>6 DEF WithFiles
<1> HIDE DEF files
<1>8. S \in Server /\ S.runtimes = st.runtimes
  BY <1>5, <1>7, WithFilesIs
<1>9. HasRoom(st)
  BY DEF MayHandle, HasRoom, Live, Runs
<1>10. HasRoom(S)
  BY <1>8, <1>9 DEF HasRoom, Live
<1> QED
  BY <1>3, <1>4, <1>5, <1>7, <1>8, <1>9, <1>10 DEF files

LEMMA AnsweredIs ==
  ASSUME NEW U \in Server, Answered(U)
  PROVE  /\ st' = WithFiles(U, close(U.files, {Conn}))
         /\ close(U.files, {Conn}) \in [Fds -> File]
         /\ st' \in Server
<1>1. st' = WithFiles(U, close(U.files, {Conn}))
  BY DEF Answered, WithFiles
<1>2. close(U.files, {Conn}) \in [Fds -> File]
  BY CloseIs DEF Server
<1> QED
  BY <1>1, <1>2, WithFilesIs

LEMMA PairForIs ==
  ASSUME NEW d \in Devices, PairFor(d) # NoPair
  PROVE  /\ PairFor(d) \in Pairs
         /\ Fixed[d] # NoPair => PairFor(d) = Fixed[d]
         /\ \A o \in Devices \ {d} : lease[o] # PairFor(d)
<1> DEFINE leased == {lease[o] : o \in Devices \ {d}}
           fixed == {Fixed[o] : o \in Devices}
           free == Pairs \ (leased \cup fixed)
<1>1. PairFor(d) = IF Fixed[d] # NoPair
                   THEN IF Fixed[d] \in leased THEN NoPair ELSE Fixed[d]
                   ELSE IF free = {} THEN NoPair ELSE Min(free)
  BY Zenon DEF PairFor
<1>2. free # {} => Min(free) \in free
  <2>1. free \subseteq Nat
    BY RuntimeAssumption
  <2> HIDE DEF free
  <2> QED
    BY <2>1, MinIs
<1>3. free \subseteq Pairs /\ Fixed[d] \in Pairs \cup {NoPair}
  BY RuntimeAssumption
<1>4. free \cap leased = {} /\ \A o \in Devices \ {d} : lease[o] \in leased
  OBVIOUS
<1> HIDE DEF free, leased
<1>5. PairFor(d) \notin leased
  BY <1>1, <1>2, <1>4
<1> QED
  BY <1>1, <1>2, <1>3, <1>4, <1>5

LEMMA RegisterTyped ==
  ASSUME Typed, NEW d \in Devices, Register(d)
  PROVE  Typed'
<1> DEFINE p == PairFor(d)
<1>1. /\ MayHandle /\ p # NoPair /\ tls' = tls /\ reload' = reload
  BY Zenon DEF Register
<1>2. p \in Pairs
  BY <1>1, PairForIs
<1>s. PICK S \in WithConn :
         \E made \in ensure_dynamic_server_for_device(S, d, p, tls[d]) :
            /\ lease' = [lease EXCEPT ![d] = IF made.ok THEN p ELSE NoPair]
            /\ Answered(IF made.ok THEN made.s
                        ELSE stop_dynamic_runtimes_for_device(made.s, d, p))
  BY Zenon DEF Register
<1> HIDE DEF p
<1>3. PICK made \in ensure_dynamic_server_for_device(S, d, p, tls[d]) :
         /\ lease' = [lease EXCEPT ![d] = IF made.ok THEN p ELSE NoPair]
         /\ Answered(IF made.ok THEN made.s
                     ELSE stop_dynamic_runtimes_for_device(made.s, d, p))
  BY <1>s
<1>4. S \in Server /\ HasRoom(S) /\ tls[d] \in BOOLEAN
  BY <1>1, ConnIs DEF Typed
<1>5. made.s \in Server /\ made.ok \in BOOLEAN
  BY <1>2, <1>4, EnsureTyped
<1>6. stop_dynamic_runtimes_for_device(made.s, d, p) \in Server
  BY <1>5, StopIs DEF stop_dynamic_runtimes_for_device
<1>7. st' \in Server
  BY <1>3, <1>5, <1>6, AnsweredIs
<1>8. lease' \in [Devices -> Pairs \cup {NoPair}]
  BY <1>2, <1>3 DEF Typed
<1> QED
  BY <1>1, <1>7, <1>8 DEF Typed

LEMMA HeartbeatTyped ==
  ASSUME Typed, NEW d \in Devices, Heartbeat(d)
  PROVE  Typed'
<1>1. /\ MayHandle /\ lease[d] # NoPair
      /\ UNCHANGED <<lease, tls, reload>>
  BY DEF Heartbeat
<1>s. PICK S \in WithConn :
         \E made \in ensure_dynamic_server_for_device(S, d, lease[d], tls[d]) :
            Answered(made.s)
  BY DEF Heartbeat
<1>2. PICK made \in ensure_dynamic_server_for_device(S, d, lease[d], tls[d]) :
         Answered(made.s)
  BY <1>s
<1>3. /\ S \in Server /\ HasRoom(S) /\ tls[d] \in BOOLEAN /\ lease[d] \in Pairs
  BY <1>1, ConnIs DEF Typed
<1>4. made.s \in Server
  BY <1>3, EnsureTyped
<1>5. st' \in Server
  BY <1>2, <1>4, AnsweredIs
<1> QED
  BY <1>1, <1>5 DEF Typed

LEMMA DisconnectTyped ==
  ASSUME Typed, NEW d \in Devices, Disconnect(d)
  PROVE  Typed'
<1>1. /\ MayHandle /\ lease' = [lease EXCEPT ![d] = NoPair]
      /\ UNCHANGED <<tls, reload>>
  BY DEF Disconnect
<1>2. PICK S \in WithConn : Answered(stop_dynamic_runtimes_for_device(S, d, lease[d]))
  BY DEF Disconnect
<1>3. S \in Server
  BY <1>1, ConnIs DEF Typed
<1>4. stop_dynamic_runtimes_for_device(S, d, lease[d]) \in Server
  BY <1>3, StopIs DEF stop_dynamic_runtimes_for_device
<1>5. st' \in Server
  BY <1>2, <1>4, AnsweredIs
<1> QED
  BY <1>1, <1>5 DEF Typed

LEMMA ReloadTyped ==
  ASSUME Typed, NEW d \in Devices, ReloadTls(d)
  PROVE  Typed'
<1>1. /\ MayHandle /\ reload' = reload \ {d} /\ UNCHANGED <<lease, tls>>
  BY DEF ReloadTls
<1>2. st' \in Server
  <2>1. CASE lease[d] = NoPair
    BY <2>1 DEF ReloadTls, Typed
  <2>2. CASE lease[d] # NoPair
    <3>s. PICK S \in WithConn :
             \E stopped \in {stop_dynamic_runtimes_for_device(S, d, lease[d])} :
               \E made \in ensure_dynamic_server_for_device(
                               stopped, d, lease[d], tls[d]) : Answered(made.s)
      BY <2>2 DEF ReloadTls
    <3>t. PICK stopped \in {stop_dynamic_runtimes_for_device(S, d, lease[d])} :
             \E made \in ensure_dynamic_server_for_device(
                             stopped, d, lease[d], tls[d]) : Answered(made.s)
      BY <3>s
    <3>1. PICK made \in ensure_dynamic_server_for_device(stopped, d, lease[d], tls[d]) :
             Answered(made.s)
      BY <3>t
    <3>2. S \in Server /\ HasRoom(S) /\ tls[d] \in BOOLEAN /\ lease[d] \in Pairs
      BY <1>1, <2>2, ConnIs DEF Typed
    <3>3. stopped \in Server /\ HasRoom(stopped)
      BY <3>1, <3>2, StopIs, StopKeepsRoom DEF stop_dynamic_runtimes_for_device
    <3>4. made.s \in Server
      BY <3>2, <3>3, EnsureTyped
    <3> QED
      BY <3>1, <3>4, AnsweredIs
  <2> QED
    BY <2>1, <2>2
<1> QED
  BY <1>1, <1>2 DEF Typed

\* The steps of a runtime change its record and its descriptors.
WithLocal(run, L) == [run EXCEPT !.local = L]

LEMMA WithLocalIs ==
  ASSUME NEW run \in Runtime, NEW L \in SUBSET Fds, NEW u, u = WithLocal(run, L)
  PROVE  /\ u \in Runtime /\ u.local = L /\ u.device = run.device /\ u.pair = run.pair
         /\ u.tls = run.tls /\ u.enable = run.enable /\ u.input = run.input
         /\ u.output = run.output /\ u.inputRunning = run.inputRunning
         /\ u.outputRunning = run.outputRunning
BY DEF WithLocal, Runtime

LEMMA AcceptIs ==
  ASSUME st \in Server, NEW r \in Runs, Accept(r)
  PROVE  \E f \in Fds :
           /\ st.files[f] = Closed /\ st.runtimes[r].outputRunning
           /\ st' = WithRun(st, [st.files EXCEPT ![f] = Connection], r,
                            WithLocal(st.runtimes[r], st.runtimes[r].local \cup {f}))
<1> DEFINE f == Min(FreeFds(st.files))
<1>1. f \in Fds /\ st.files[f] = Closed
  <2>1. FreeFds(st.files) \subseteq Nat /\ FreeFds(st.files) # {}
    BY Sizes DEF FreeFds, Accept
  <2>2. f \in FreeFds(st.files)
    BY <2>1, MinIs
  <2> HIDE DEF f
  <2> QED
    BY <2>2 DEF FreeFds
<1>2. /\ st.runtimes[r].outputRunning
      /\ st' = [st EXCEPT !.files[f] = Connection, !.runtimes[r].local = @ \cup {f}]
  BY Zenon DEF Accept
<1> HIDE DEF f
<1>3. st' = WithRun(st, [st.files EXCEPT ![f] = Connection], r,
                    WithLocal(st.runtimes[r], st.runtimes[r].local \cup {f}))
  BY <1>2, Zenon DEF WithRun, WithLocal
<1> QED
  BY <1>1, <1>2, <1>3

LEMMA ConnectionEndsIs ==
  ASSUME st \in Server, NEW r \in Runs, NEW f \in Fds, ConnectionEnds(r, f)
  PROVE  /\ f \in st.runtimes[r].local
         /\ st' = WithRun(st, close(st.files, {f}), r,
                          WithLocal(st.runtimes[r], st.runtimes[r].local \ {f}))
BY Zenon DEF ConnectionEnds, WithRun, WithLocal

\* The record of a runtime whose listener thread has ended.
Ended(run, side) ==
    IF side = "input" THEN [run EXCEPT !.inputRunning = FALSE]
    ELSE [run EXCEPT !.outputRunning = FALSE]

LEMMA EndedIs ==
  ASSUME NEW run \in Runtime, NEW side \in Sides, NEW u, u = Ended(run, side)
  PROVE  /\ u \in Runtime /\ u.local = run.local /\ u.device = run.device
         /\ u.pair = run.pair /\ u.tls = run.tls /\ u.enable = run.enable
         /\ u.input = run.input /\ u.output = run.output
         /\ u # run => IF side = "input" THEN run.inputRunning ELSE run.outputRunning
BY DEF Ended, Runtime

LEMMA ListenerEndsIs ==
  ASSUME st \in Server, NEW r \in Runs, NEW side \in Sides, ListenerEnds(r, side)
  PROVE  /\ Ended(st.runtimes[r], side) # st.runtimes[r]
         /\ st.files[IF side = "input" THEN st.runtimes[r].input
                     ELSE st.runtimes[r].output] = Closed
         /\ st' = WithRun(st, st.files, r, Ended(st.runtimes[r], side))
<1>1. /\ Ended(st.runtimes[r], side) # st.runtimes[r]
      /\ st.files[IF side = "input" THEN st.runtimes[r].input
                  ELSE st.runtimes[r].output] = Closed
      /\ st' = [st EXCEPT !.runtimes[r] = Ended(st.runtimes[r], side)]
  BY Zenon DEF ListenerEnds, Ended
<1> DEFINE u == Ended(st.runtimes[r], side)
<1> HIDE DEF u
<1>2. st = [registry |-> st.registry, runtimes |-> st.runtimes, files |-> st.files]
  BY DEF Server
<1>3. [st EXCEPT !.runtimes[r] = u] = WithRun(st, st.files, r, u)
  BY <1>2 DEF WithRun
<1> QED
  BY <1>1, <1>3 DEF u

LEMMA RuntimeTyped ==
  ASSUME Typed, NEW r \in Runs, RuntimeNext(r)
  PROVE  Typed'
<1>1. /\ UNCHANGED <<lease, tls, reload>>
      /\ st \in Server /\ st.runtimes[r] \in Runtime /\ st.files \in [Fds -> File]
  BY DEF RuntimeNext, ListenerEnds, Accept, ConnectionEnds, Typed, Server
<1>2. st.runtimes[r].local \in SUBSET Fds
  BY <1>1 DEF Runtime
<1>3. ASSUME NEW side \in Sides, ListenerEnds(r, side)
      PROVE  st' \in Server
  BY <1>1, <1>3, ListenerEndsIs, EndedIs, WithRunIs
<1>4. ASSUME Accept(r)
      PROVE  st' \in Server
  <2>1. PICK f \in Fds :
           st' = WithRun(st, [st.files EXCEPT ![f] = Connection], r,
                         WithLocal(st.runtimes[r], st.runtimes[r].local \cup {f}))
    BY <1>1, <1>4, AcceptIs
  <2>2. WithLocal(st.runtimes[r], st.runtimes[r].local \cup {f}) \in Runtime
    BY <1>1, <1>2, WithLocalIs
  <2>3. [st.files EXCEPT ![f] = Connection] \in [Fds -> File]
    BY <1>1, Kinds
  <2> DEFINE files == [st.files EXCEPT ![f] = Connection]
             u == WithLocal(st.runtimes[r], st.runtimes[r].local \cup {f})
  <2> HIDE DEF files, u
  <2>4. st' = WithRun(st, files, r, u) /\ files \in [Fds -> File] /\ u \in Runtime
    BY <2>1, <2>2, <2>3 DEF files, u
  <2> QED
    BY <1>1, <2>4, WithRunIs
<1>5. ASSUME NEW f \in Fds, ConnectionEnds(r, f)
      PROVE  st' \in Server
  <2>1. WithLocal(st.runtimes[r], st.runtimes[r].local \ {f}) \in Runtime
    BY <1>1, <1>2, WithLocalIs
  <2>2. close(st.files, {f}) \in [Fds -> File]
    BY <1>1, CloseIs
  <2>3. st' = WithRun(st, close(st.files, {f}), r,
                      WithLocal(st.runtimes[r], st.runtimes[r].local \ {f}))
    BY <1>1, <1>5, ConnectionEndsIs
  <2> DEFINE files == close(st.files, {f})
             u == WithLocal(st.runtimes[r], st.runtimes[r].local \ {f})
  <2> HIDE DEF files, u
  <2>4. st' = WithRun(st, files, r, u) /\ files \in [Fds -> File] /\ u \in Runtime
    BY <2>1, <2>2, <2>3 DEF files, u
  <2> QED
    BY <1>1, <2>4, WithRunIs
<1>6. st' \in Server
  BY <1>3, <1>4, <1>5, Zenon DEF RuntimeNext
<1> QED
  BY <1>1, <1>6 DEF Typed

LEMMA FreshIs ==
  /\ Fresh \in Server
  /\ \A i \in Slots : Fresh.registry[i] = NoEntry
  /\ \A r \in Runs : Fresh.runtimes[r] = Gone
  /\ Fresh.files[0] = Stdin /\ \A f \in Fds \ {0} : Fresh.files[f] = Closed
<1> DEFINE registry == [i \in Slots |-> NoEntry]
           runtimes == [r \in Runs |-> Gone]
           files == [f \in Fds |-> IF f = 0 THEN Stdin ELSE Closed]
<1>1. Fresh = [registry |-> registry, runtimes |-> runtimes, files |-> files]
  BY DEF Fresh, Runs
<1>2. /\ registry \in [Slots -> Entry] /\ runtimes \in [Runs -> Runtime]
      /\ files \in [Fds -> File]
  BY Nothing, Kinds
<1>3. /\ \A i \in Slots : registry[i] = NoEntry
      /\ \A r \in Runs : runtimes[r] = Gone
      /\ files[0] = Stdin /\ \A f \in Fds \ {0} : files[f] = Closed
  BY Sizes
<1> HIDE DEF registry, runtimes, files
<1> QED
  BY <1>1, <1>2, <1>3 DEF Server

LEMMA StepTyped == Typed /\ [Next]_vars => Typed'
<1> SUFFICES ASSUME Typed, [Next]_vars PROVE Typed'
  OBVIOUS
<1>1. ASSUME NEW d \in Devices, ControlNext(d)
      PROVE  Typed'
  BY <1>1, RegisterTyped, HeartbeatTyped, DisconnectTyped, ReloadTyped DEF ControlNext
<1>2. ASSUME NEW d \in Devices, ChangeTls(d)
      PROVE  Typed'
  <2>1. tls' \in [Devices -> BOOLEAN]
    BY <1>2, Zenon DEF ChangeTls, Typed
  <2>2. UNCHANGED <<lease, st>> /\ reload' \subseteq TlsDevices
    BY <1>2 DEF ChangeTls, Typed
  <2> QED
    BY <2>1, <2>2 DEF Typed
<1>3. ASSUME NEW d \in Devices, Expire(d)
      PROVE  Typed'
  BY <1>3 DEF Expire, Typed
<1>4. ASSUME NEW r \in 1..MaxLive, RuntimeNext(r)
      PROVE  Typed'
  BY <1>4, RuntimeTyped DEF Runs
<1>5. CASE Restart
  BY <1>5, FreshIs DEF Restart, Typed
<1>6. CASE UNCHANGED vars
  BY <1>6 DEF vars, Typed
<1> QED
  BY <1>1, <1>2, <1>3, <1>4, <1>5, <1>6 DEF Next

LEMMA InitTyped == Init => Typed
BY FreshIs DEF Init, Typed

\* The registry, the runtimes and the descriptor table keep their types, with
\* any assignment of fixed ports and whatever fails.
THEOREM RuntimeTypes == Spec => []TypeOK
<1>1. Typed => TypeOK
  BY DEF Typed, TypeOK, Server, Runs
<1> QED
  BY <1>1, InitTyped, StepTyped, PTL DEF Spec

-----------------------------------------------------------------------------
(* Who owns which descriptor *)

\* The registry: an entry that is active leads to a live runtime of its device
\* on its pair, no pair has two, and every live runtime has an entry.
Registered(S) ==
    /\ \A i \in Slots : ~S.registry[i].active => S.registry[i].runtime = 0
    /\ \A i \in Slots : S.registry[i].active =>
          /\ S.registry[i].runtime \in Live(S)
          /\ S.runtimes[S.registry[i].runtime].device = S.registry[i].device
          /\ S.runtimes[S.registry[i].runtime].pair = S.registry[i].pair
    /\ \A i, j \in Slots :
          (/\ S.registry[i].active /\ S.registry[j].active
           /\ S.registry[i].pair = S.registry[j].pair) => i = j
    /\ \A r \in Live(S) : \E i \in Slots : S.registry[i].active /\ S.registry[i].runtime = r
    /\ \A r \in Live(S) : S.runtimes[r].pair \in Pairs
    /\ \A r \in Runs \ Live(S) : S.runtimes[r] = Gone
    /\ Separate => \A i \in Slots : S.registry[i].active =>
                       S.registry[i].pair = Fixed[S.registry[i].device]

\* The listeners of a runtime.  One on descriptor 0 may be closed under it.
Listens(files, run) ==
    /\ run.output \in Fds \ {0}
    /\ files[run.output] = Listener("output", run.pair)
    /\ run.input \in Fds
    /\ run.input # 0 => files[run.input] = Listener("input", run.pair)
    /\ run.input = 0 => run.device \in TlsDevices

Listening(S) == \A r \in Live(S) : Listens(S.files, S.runtimes[r])

\* The connections in its slots, but for descriptor 0.
Connected(S, X) ==
    /\ \A r \in Live(S) : \A f \in S.runtimes[r].local \ {0} :
          S.files[f] = Connection /\ f \notin X
    /\ \A r, q \in Live(S) : \A f \in S.runtimes[r].local \cap S.runtimes[q].local :
          f # 0 => r = q

OwnedIn(S, f) == \E r \in Live(S) : f \in Owned(S.runtimes[r])

\* Every open descriptor has an owner or is one of X, the connection of the
\* request that is handled.
Accounted(S, X) ==
    /\ \A f \in Fds \ {0} : S.files[f] = Closed \/ f \in X \/ OwnedIn(S, f)
    /\ S.files[0] \in {Closed, Stdin} \/ 0 \in X \/ OwnedIn(S, 0)
    /\ Accepting(S.files[0]) =>
          \E r \in Live(S) : /\ S.runtimes[r].input = 0
                             /\ S.files[0] = Listener("input", S.runtimes[r].pair)
    /\ \A f \in X \ {0} : S.files[f] = Connection

\* The runtime of a device whose TLS settings nobody changes stays healthy.
RunsOn(run) ==
    run.device \notin TlsDevices => run.inputRunning /\ run.outputRunning /\ ~run.tls

Undisturbed(S) == \A r \in Live(S) : RunsOn(S.runtimes[r])

Sound(S, X) ==
    /\ Registered(S) /\ Listening(S) /\ Connected(S, X) /\ Accounted(S, X)
    /\ Undisturbed(S)

\* A pair has one live runtime.
LEMMA OneRun ==
  ASSUME NEW S \in Server, Registered(S)
  PROVE  /\ \A r, q \in Live(S) : S.runtimes[r].pair = S.runtimes[q].pair => r = q
         /\ \A r \in Live(S) : /\ r \in Runs /\ S.runtimes[r] \in Runtime
                               /\ S.runtimes[r].device \in Devices
                               /\ S.runtimes[r].pair \in Pairs
<1>1. \A r \in Live(S) : r \in Runs /\ S.runtimes[r] \in Runtime
  BY DEF Live, Server
<1>2. \A r \in Live(S) : S.runtimes[r].device \in Devices
  BY <1>1 DEF Runtime
<1>3. \A r \in Live(S) : S.runtimes[r].pair \in Pairs
  BY DEF Registered
<1>4. ASSUME NEW r \in Live(S), NEW q \in Live(S),
             S.runtimes[r].pair = S.runtimes[q].pair
      PROVE  r = q
  <2>1. PICK i \in Slots : S.registry[i].active /\ S.registry[i].runtime = r
    BY DEF Registered
  <2>2. PICK j \in Slots : S.registry[j].active /\ S.registry[j].runtime = q
    BY DEF Registered
  <2>3. S.registry[i].pair = S.registry[j].pair
    BY <1>4, <2>1, <2>2 DEF Registered
  <2>4. i = j
    BY <2>1, <2>2, <2>3 DEF Registered
  <2> QED
    BY <2>1, <2>2, <2>4
<1> QED
  BY <1>1, <1>2, <1>3, <1>4

\* What a live runtime owns, descriptor 0 apart, is open and nobody else's.
LEMMA OwnedIs ==
  ASSUME NEW S \in Server, NEW X, Sound(S, X),
         NEW r \in Live(S), NEW f \in Owned(S.runtimes[r]), f # 0
  PROVE  /\ f \in Fds /\ f \notin X /\ S.files[f] # Closed
         /\ \/ f = S.runtimes[r].input /\ S.files[f] = Listener("input", S.runtimes[r].pair)
            \/ f = S.runtimes[r].output /\ S.files[f] = Listener("output", S.runtimes[r].pair)
            \/ f \in S.runtimes[r].local /\ S.files[f] = Connection
         /\ \A q \in Live(S) : f \in Owned(S.runtimes[q]) => q = r
<1> DEFINE run == S.runtimes[r]
<1>1. run \in Runtime /\ run.pair \in Pairs /\ run.local \subseteq Fds
  BY OneRun DEF Sound, Runtime
<1>2. /\ Listens(S.files, run)
      /\ \A g \in run.local \ {0} : S.files[g] = Connection /\ g \notin X
      /\ \A g \in X \ {0} : S.files[g] = Connection
  BY DEF Sound, Listening, Connected, Accounted
<1>3. \/ f = run.input /\ S.files[f] = Listener("input", run.pair)
      \/ f = run.output /\ S.files[f] = Listener("output", run.pair)
      \/ f \in run.local /\ S.files[f] = Connection
  BY <1>2 DEF Owned, Listens
<1>4. f \in Fds
  BY <1>1, <1>2 DEF Owned, Listens
<1>5. f \notin X /\ S.files[f] # Closed
  BY <1>1, <1>2, <1>3, Kinds
<1>6. ASSUME NEW q \in Live(S), f \in Owned(S.runtimes[q])
      PROVE  q = r
  <2>1. S.runtimes[q].pair \in Pairs
    BY OneRun DEF Sound
  <2>2. /\ Listens(S.files, S.runtimes[q])
        /\ \A g \in S.runtimes[q].local \ {0} : S.files[g] = Connection
    BY DEF Sound, Listening, Connected
  <2>3. \/ S.files[f] = Listener("input", S.runtimes[q].pair)
        \/ S.files[f] = Listener("output", S.runtimes[q].pair)
        \/ f \in S.runtimes[q].local /\ S.files[f] = Connection
    BY <1>6, <2>2 DEF Owned, Listens
  <2>4. CASE S.files[f] = Connection
    <3>1. f \in run.local /\ f \in S.runtimes[q].local
      BY <1>1, <1>3, <2>1, <2>3, <2>4, Kinds
    <3> QED
      BY <3>1 DEF Sound, Connected
  <2>5. CASE S.files[f] # Connection
    <3>1. S.runtimes[q].pair = run.pair
      BY <1>3, <2>3, <2>5, Kinds
    <3> QED
      BY <3>1, OneRun DEF Sound
  <2> QED
    BY <2>4, <2>5
<1> QED
  BY <1>3, <1>4, <1>5, <1>6

\* Descriptors that change under no owner leave the runtimes as they were.
LEMMA SameRuns ==
  ASSUME NEW S \in Server, NEW X, Sound(S, X), NEW U \in Server, NEW Y,
         U.runtimes = S.runtimes, U.registry = S.registry,
         \A r \in Live(S) : \A f \in Owned(S.runtimes[r]) :
            f # 0 => U.files[f] = S.files[f] /\ f \notin Y
  PROVE  /\ Live(U) = Live(S) /\ \A f : OwnedIn(U, f) <=> OwnedIn(S, f)
         /\ Registered(U) /\ Listening(U) /\ Connected(U, Y) /\ Undisturbed(U)
<1>1. Live(U) = Live(S)
  BY DEF Live
<1>2. \A f : OwnedIn(U, f) <=> OwnedIn(S, f)
  BY <1>1 DEF OwnedIn
<1>3. Registered(U)
  BY <1>1 DEF Sound, Registered
<1>4. Undisturbed(U)
  BY <1>1 DEF Sound, Undisturbed
<1>5. Listening(U)
  <2> SUFFICES ASSUME NEW r \in Live(S)
               PROVE  Listens(U.files, S.runtimes[r])
    BY <1>1 DEF Listening
  <2>1. Listens(S.files, S.runtimes[r])
    BY DEF Sound, Listening
  <2>2. S.runtimes[r].input \in Owned(S.runtimes[r])
        /\ S.runtimes[r].output \in Owned(S.runtimes[r])
    BY DEF Owned
  <2> QED
    BY <2>1, <2>2 DEF Listens
<1>6. Connected(U, Y)
  <2>1. ASSUME NEW r \in Live(S), NEW f \in S.runtimes[r].local \ {0}
        PROVE  U.files[f] = Connection /\ f \notin Y
    <3>1. f \in Owned(S.runtimes[r]) /\ S.files[f] = Connection
      BY <2>1 DEF Owned, Sound, Connected
    <3> QED
      BY <3>1
  <2>2. \A r, q \in Live(S) : \A f \in S.runtimes[r].local \cap S.runtimes[q].local :
          f # 0 => r = q
    BY DEF Sound, Connected
  <2> QED
    BY <1>1, <2>1, <2>2 DEF Connected
<1> QED
  BY <1>1, <1>2, <1>3, <1>4, <1>5, <1>6

-----------------------------------------------------------------------------
(* Stopping runtimes *)

HasEntry(S, p) == \E i \in Slots : S.registry[i].active /\ S.registry[i].pair = p

\* The entries of U are entries of S.
Fewer(S, U) ==
    \A i \in Slots : U.registry[i].active =>
        S.registry[i].active /\ U.registry[i] = S.registry[i]

LEMMA StopSound ==
  ASSUME NEW S \in Server, NEW X \in SUBSET Fds, Sound(S, X),
         NEW I \in SUBSET Slots, \A i \in I : S.registry[i].runtime # 0,
         NEW U, U = StopEntries(S, I)
  PROVE  /\ U \in Server /\ Sound(U, X) /\ Fewer(S, U)
         /\ I = {} => U.files = S.files
<1> DEFINE R == RunsOf(S, I)
           K == ClosedBy(S, I)
<1>1. /\ U \in Server /\ U.files = close(S.files, K)
      /\ \A r \in Runs : U.runtimes[r] = IF r \in R THEN Gone ELSE S.runtimes[r]
      /\ \A i \in Slots \cap I : ~U.registry[i].active /\ U.registry[i].runtime = 0
      /\ \A i \in Slots \ I : U.registry[i] = S.registry[i]
  BY StopIs
<1>2. S.files \in [Fds -> File]
  BY DEF Server
<1>3. \A f \in Fds : U.files[f] = IF f \in K THEN Closed ELSE S.files[f]
  BY <1>1, <1>2, CloseIs
<1>4. \A i \in I : S.registry[i].active /\ S.registry[i].runtime \in Live(S)
  BY DEF Sound, Registered
<1>5. R \subseteq Live(S)
  BY <1>4 DEF RunsOf
<1>6. \A f : f \in K <=> \E r \in R : f = 0 \/ f \in Owned(S.runtimes[r])
  BY DEF ClosedBy, ClosedByStop, Owned
<1> HIDE DEF R, K
<1>7. Live(U) = Live(S) \ R /\ \A r \in Live(U) : U.runtimes[r] = S.runtimes[r]
  <2>1. \A r \in Runs : U.runtimes[r].enable <=> S.runtimes[r].enable /\ r \notin R
    BY <1>1, Nothing
  <2>2. Live(U) = Live(S) \ R
    BY <2>1 DEF Live
  <2> QED
    BY <1>1, <2>2 DEF Live
<1>8. ASSUME NEW r \in Live(U), NEW f \in Owned(S.runtimes[r]), f # 0
      PROVE  U.files[f] = S.files[f]
  <2>1. r \in Live(S) /\ r \notin R
    BY <1>7
  <2>2. f \in Fds /\ \A q \in Live(S) : f \in Owned(S.runtimes[q]) => q = r
    BY <1>8, <2>1, OwnedIs
  <2>3. f \notin K
    BY <1>5, <1>6, <1>8, <2>1, <2>2
  <2> QED
    BY <1>3, <2>2, <2>3
<1>9. Registered(U)
  <2>1. \A i \in Slots : U.registry[i].active => i \notin I /\ S.registry[i].active
    BY <1>1
  <2>2. \A i \in Slots : ~U.registry[i].active => U.registry[i].runtime = 0
    BY <1>1 DEF Sound, Registered
  <2>3. ASSUME NEW i \in Slots, U.registry[i].active
        PROVE  /\ U.registry[i].runtime \in Live(U)
               /\ U.runtimes[U.registry[i].runtime].device = U.registry[i].device
               /\ U.runtimes[U.registry[i].runtime].pair = U.registry[i].pair
    <3>1. i \notin I /\ S.registry[i].active /\ U.registry[i] = S.registry[i]
      BY <1>1, <2>1, <2>3
    <3> DEFINE r == S.registry[i].runtime
    <3>2. /\ r \in Live(S) /\ S.runtimes[r].device = S.registry[i].device
          /\ S.runtimes[r].pair = S.registry[i].pair
      BY <3>1 DEF Sound, Registered
    <3>3. r \notin R
      <4> SUFFICES ASSUME NEW j \in I, S.registry[j].runtime = r PROVE FALSE
        BY DEF R, RunsOf
      <4>1. S.registry[j].active
        BY <1>4
      <4>2. S.registry[j].pair = S.registry[i].pair
        BY <3>2, <4>1 DEF Sound, Registered
      <4>3. i = j
        BY <3>1, <4>1, <4>2 DEF Sound, Registered
      <4> QED
        BY <3>1, <4>3
    <3>4. r \in Live(U) /\ U.runtimes[r] = S.runtimes[r]
      BY <1>7, <3>2, <3>3
    <3> QED
      BY <3>1, <3>2, <3>4
  <2>4. ASSUME NEW i \in Slots, NEW j \in Slots,
               U.registry[i].active, U.registry[j].active,
               U.registry[i].pair = U.registry[j].pair
        PROVE  i = j
    <3>1. S.registry[i].active /\ S.registry[j].active
          /\ S.registry[i].pair = S.registry[j].pair
      BY <1>1, <2>1, <2>4
    <3> QED
      BY <3>1 DEF Sound, Registered
  <2>5. ASSUME NEW r \in Live(U)
        PROVE  \E i \in Slots : U.registry[i].active /\ U.registry[i].runtime = r
    <3>1. r \in Live(S) /\ r \notin R
      BY <1>7
    <3>2. PICK i \in Slots : S.registry[i].active /\ S.registry[i].runtime = r
      BY <3>1 DEF Sound, Registered
    <3>3. i \notin I
      BY <3>1, <3>2 DEF R, RunsOf
    <3> QED
      BY <1>1, <3>2, <3>3
  <2>6. \A r \in Live(U) : U.runtimes[r].pair \in Pairs
    BY <1>7 DEF Sound, Registered
  <2>7. ASSUME NEW r \in Runs \ Live(U)
        PROVE  U.runtimes[r] = Gone
    BY <1>1, <1>7, <2>7 DEF Sound, Registered
  <2>8. Separate => \A i \in Slots : U.registry[i].active =>
                        U.registry[i].pair = Fixed[U.registry[i].device]
    BY <1>1, <2>1 DEF Sound, Registered
  <2> QED
    BY <2>2, <2>3, <2>4, <2>5, <2>6, <2>7, <2>8 DEF Registered
<1>10. Listening(U)
  <2> SUFFICES ASSUME NEW r \in Live(U)
               PROVE  Listens(U.files, S.runtimes[r])
    BY <1>7 DEF Listening
  <2>1. Listens(S.files, S.runtimes[r])
    BY <1>7 DEF Sound, Listening
  <2>2. S.runtimes[r].input \in Owned(S.runtimes[r])
        /\ S.runtimes[r].output \in Owned(S.runtimes[r])
    BY DEF Owned
  <2> QED
    BY <1>8, <2>1, <2>2 DEF Listens
<1>11. Connected(U, X)
  <2>1. ASSUME NEW r \in Live(U), NEW f \in S.runtimes[r].local \ {0}
        PROVE  U.files[f] = Connection /\ f \notin X
    <3>1. f \in Owned(S.runtimes[r]) /\ S.files[f] = Connection /\ f \notin X
      BY <1>7, <2>1 DEF Owned, Sound, Connected
    <3> QED
      BY <1>8, <2>1, <3>1
  <2>2. \A r, q \in Live(S) : \A f \in S.runtimes[r].local \cap S.runtimes[q].local :
          f # 0 => r = q
    BY DEF Sound, Connected
  <2> QED
    BY <1>7, <2>1, <2>2 DEF Connected
<1>12. Undisturbed(U)
  BY <1>7 DEF Sound, Undisturbed
<1>13. ASSUME I = {}
       PROVE  R = {} /\ K = {} /\ U.files = S.files
  <2>1. R = {}
    BY <1>13 DEF R, RunsOf
  <2>2. K = {}
    BY <1>6, <2>1
  <2>3. \A f \in Fds : U.files[f] = S.files[f]
    BY <1>3, <2>2
  <2>4. U.files \in [Fds -> File]
    BY <1>1 DEF Server
  <2> QED
    BY <1>2, <2>1, <2>2, <2>3, <2>4
<1>14. I # {} => U.files[0] = Closed
  <2> SUFFICES ASSUME I # {} PROVE U.files[0] = Closed
    OBVIOUS
  <2>1. R # {}
    BY DEF R, RunsOf
  <2> QED
    BY <1>3, <1>6, <2>1, Sizes
<1>15. Accounted(U, X)
  <2>1. ASSUME NEW f \in Fds \ {0}
        PROVE  U.files[f] = Closed \/ f \in X \/ OwnedIn(U, f)
    <3>1. CASE f \in K
      BY <1>3, <3>1
    <3>2. CASE f \notin K /\ OwnedIn(S, f)
      <4>1. PICK r \in Live(S) : f \in Owned(S.runtimes[r])
        BY <3>2 DEF OwnedIn
      <4>2. r \notin R
        BY <1>6, <3>2, <4>1
      <4> QED
        BY <1>7, <4>1, <4>2 DEF OwnedIn
    <3>3. CASE f \notin K /\ ~OwnedIn(S, f)
      BY <1>3, <3>3 DEF Sound, Accounted
    <3> QED
      BY <3>1, <3>2, <3>3
  <2>2. /\ U.files[0] \in {Closed, Stdin} \/ 0 \in X \/ OwnedIn(U, 0)
        /\ Accepting(U.files[0]) =>
              \E r \in Live(U) : /\ U.runtimes[r].input = 0
                                 /\ U.files[0] = Listener("input", U.runtimes[r].pair)
    <3>1. CASE I = {}
      <4>1. Live(U) = Live(S) /\ U.files = S.files
        BY <1>7, <1>13, <3>1
      <4>2. OwnedIn(S, 0) => OwnedIn(U, 0)
        BY <1>7, <4>1 DEF OwnedIn
      <4>3. S.files[0] \in {Closed, Stdin} \/ 0 \in X \/ OwnedIn(S, 0)
        BY DEF Sound, Accounted
      <4>4. Accepting(S.files[0]) =>
              \E r \in Live(S) : /\ S.runtimes[r].input = 0
                                 /\ S.files[0] = Listener("input", S.runtimes[r].pair)
        BY DEF Sound, Accounted
      <4> QED
        BY <1>7, <4>1, <4>2, <4>3, <4>4
    <3>2. CASE I # {}
      BY <1>14, <3>2, Kinds
    <3> QED
      BY <3>1, <3>2
  <2>3. ASSUME NEW f \in X \ {0}
        PROVE  U.files[f] = Connection
    <3>1. S.files[f] = Connection
      BY DEF Sound, Accounted
    <3>2. f \notin K
      <4> SUFFICES ASSUME NEW r \in R, f \in Owned(S.runtimes[r]) PROVE FALSE
        BY <1>6, <2>3
      <4> QED
        BY <1>5, <2>3, OwnedIs
    <3>3. f \in Fds
      OBVIOUS
    <3> QED
      BY <1>3, <3>1, <3>2, <3>3
  <2> QED
    BY <2>1, <2>2, <2>3 DEF Accounted
<1>16. Fewer(S, U)
  BY <1>1 DEF Fewer
<1> QED
  BY <1>1, <1>9, <1>10, <1>11, <1>12, <1>13, <1>15, <1>16 DEF Sound

\* stop_dynamic_runtimes_for_device stops what runs on the device's ports, and
\* where nothing runs on them it leaves the descriptors alone.
LEMMA StopDevice ==
  ASSUME NEW S \in Server, NEW X \in SUBSET Fds, Sound(S, X),
         NEW d \in Devices, NEW p \in Pairs \cup {NoPair},
         NEW U, U = stop_dynamic_runtimes_for_device(S, d, p)
  PROVE  /\ U \in Server /\ Sound(U, X) /\ Fewer(S, U)
         /\ p # NoPair /\ OwnPair(S, d, p) => ~HasEntry(U, p)
         /\ p # NoPair /\ ~HasEntry(S, p) => U.files = S.files
<1> DEFINE I == Stoppable(S, d, p)
<1>1. I \in SUBSET Slots /\ \A i \in I : S.registry[i].runtime # 0
  BY DEF Stoppable
<1>2. U = StopEntries(S, I)
  BY DEF stop_dynamic_runtimes_for_device
<1>3. ASSUME p # NoPair, NEW i \in Slots
      PROVE  i \in I <=> /\ S.registry[i].active /\ S.registry[i].pair = p
                         /\ S.registry[i].device = d
  <2>1. i \in I => /\ S.registry[i].active /\ S.registry[i].pair = p
                   /\ S.registry[i].device = d
    BY <1>3 DEF Stoppable, Sound, Registered
  <2>2. ASSUME S.registry[i].active, S.registry[i].pair = p,
               S.registry[i].device = d
        PROVE  i \in I
    <3>1. S.registry[i].runtime \in Live(S)
      BY <2>2 DEF Sound, Registered
    <3>2. S.registry[i].runtime # 0
      BY <3>1, Sizes DEF Live
    <3> QED
      BY <2>2, <3>2 DEF Stoppable
  <2> QED
    BY <2>1, <2>2
<1> HIDE DEF I
<1>4. /\ U \in Server /\ Sound(U, X) /\ Fewer(S, U)
      /\ I = {} => U.files = S.files
  BY <1>1, <1>2, StopSound
<1>5. ASSUME p # NoPair, ~HasEntry(S, p)
      PROVE  U.files = S.files
  <2>1. I = {}
    BY <1>1, <1>3, <1>5 DEF HasEntry
  <2> QED
    BY <1>4, <2>1
<1>6. ASSUME p # NoPair, OwnPair(S, d, p)
      PROVE  ~HasEntry(U, p)
  <2> SUFFICES ASSUME NEW i \in Slots, U.registry[i].active, U.registry[i].pair = p
               PROVE  FALSE
    BY DEF HasEntry
  <2>1. S.registry[i].active /\ S.registry[i].pair = p
    BY <1>4 DEF Fewer
  <2>2. i \in I
    BY <1>3, <1>6, <2>1 DEF OwnPair
  <2>3. ~U.registry[i].active
    BY <1>1, <1>2, <2>2, StopIs
  <2> QED
    BY <2>3
<1> QED
  BY <1>4, <1>5, <1>6

-----------------------------------------------------------------------------
(* Starting runtimes *)

\* Nothing listens on the ports of a pair without an entry.
LEMMA PortsFree ==
  ASSUME NEW S \in Server, NEW X, Sound(S, X), NEW p \in Pairs, ~HasEntry(S, p)
  PROVE  \A f \in Fds : S.files[f].pair # p
<1> SUFFICES ASSUME NEW f \in Fds, S.files[f].pair = p PROVE FALSE
  OBVIOUS
<1>1. p # NoPair
  BY RuntimeAssumption
<1>2. S.files[f] \in File
  BY DEF Server
<1>3. /\ S.files[f] # Closed /\ S.files[f] # Stdin /\ S.files[f] # Connection
      /\ Accepting(S.files[f])
  BY <1>1, <1>2 DEF File, Closed, Stdin, Unbound, Connection, Listener, Accepting
<1>4. PICK r \in Live(S) : S.runtimes[r].pair = p
  <2>1. CASE f = 0
    <3>1. PICK r \in Live(S) : S.files[0] = Listener("input", S.runtimes[r].pair)
      BY <1>3, <2>1 DEF Sound, Accounted
    <3>2. S.runtimes[r].pair = p
      BY <2>1, <3>1 DEF Listener
    <3> QED
      BY <3>2
  <2>2. CASE f # 0
    <3>1. OwnedIn(S, f)
      <4>1. f \notin X \/ S.files[f] = Connection
        BY <2>2 DEF Sound, Accounted
      <4> QED
        BY <1>3, <2>2, <4>1 DEF Sound, Accounted
    <3>2. PICK r \in Live(S) : f \in Owned(S.runtimes[r])
      BY <3>1 DEF OwnedIn
    <3>3. \/ S.files[f] = Listener("input", S.runtimes[r].pair)
          \/ S.files[f] = Listener("output", S.runtimes[r].pair)
          \/ S.files[f] = Connection
      BY <2>2, <3>2, OwnedIs
    <3>4. S.runtimes[r].pair = p
      BY <1>3, <3>3 DEF Listener
    <3> QED
      BY <3>4
  <2> QED
    BY <2>1, <2>2
<1>5. PICK i \in Slots : S.registry[i].active /\ S.registry[i].runtime = r
  BY DEF Sound, Registered
<1>6. S.registry[i].pair = p
  BY <1>4, <1>5 DEF Sound, Registered
<1> QED
  BY <1>5, <1>6 DEF HasEntry

\* The runtime of a device whose TLS settings nobody changes is found healthy.
LEMMA WellServed ==
  ASSUME NEW S \in Server, NEW X, Sound(S, X),
         NEW d \in Devices, d \notin TlsDevices, NEW p, OwnPair(S, d, p), HasEntry(S, p)
  PROVE  \E i \in Slots : Healthy(S, i, p, FALSE)
<1>1. PICK i \in Slots : /\ S.registry[i].active /\ S.registry[i].pair = p
                         /\ S.registry[i].device = d
  BY DEF HasEntry, OwnPair
<1> DEFINE r == S.registry[i].runtime
           run == S.runtimes[r]
<1>2. /\ r \in Live(S) /\ run.device = d
  BY <1>1 DEF Sound, Registered
<1>3. /\ r # 0 /\ run.enable /\ run.pair \in Pairs /\ run \in Runtime
  BY <1>2, Sizes, OneRun DEF Live, Sound
<1>4. Listens(S.files, run) /\ RunsOn(run)
  BY <1>2 DEF Sound, Listening, Undisturbed
<1>5. /\ run.inputRunning /\ run.outputRunning /\ ~run.tls
      /\ run.output \in Fds /\ S.files[run.output] = Listener("output", run.pair)
      /\ run.input \in Fds /\ S.files[run.input] = Listener("input", run.pair)
  BY <1>2, <1>4 DEF Listens, RunsOn
<1>6. run.input # NoFd /\ run.output # NoFd
  BY <1>5, Sizes
<1>7. Accepting(S.files[run.input]) /\ Accepting(S.files[run.output])
  <2>1. \A side \in Sides, q \in Pairs : Accepting(Listener(side, q))
    BY Kinds
  <2>2. "input" \in Sides /\ "output" \in Sides
    BY Kinds
  <2> HIDE DEF run
  <2> QED
    BY <1>3, <1>5, <2>1, <2>2
<1>8. run.tls = FALSE
  BY <1>3, <1>5 DEF Runtime
<1>9. Healthy(S, i, p, FALSE)
  BY <1>1, <1>2, <1>3, <1>5, <1>6, <1>7, <1>8 DEF Healthy
<1> QED
  BY <1>9

\* The two sockets of a device that has none: the first gets a listener on
\* descriptor a, the second one on another descriptor b; without a free
\* descriptor the table is left as it was.
Opened(files, p, a, b, after) ==
    /\ a \in Fds /\ b \in Fds /\ a # b /\ b # 0
    /\ files[a] = Closed /\ files[b] = Closed
    /\ a # 0 => files[0] # Closed
    /\ after[a] = Listener("input", p) /\ after[b] = Listener("output", p)
    /\ \A f \in Fds \ {a, b} : after[f] = files[f]

Opens(files, p, in, out) ==
    /\ ~in.ok => in.files = files
    /\ in.ok /\ ~out.ok => close(out.files, {in.fd}) = files
    /\ in.ok /\ out.ok => Opened(files, p, in.fd, out.fd, out.files)

LEMMA SocketsOpen ==
  ASSUME NEW files \in [Fds -> File], NEW p \in Pairs, \A f \in Fds : files[f].pair # p,
         NEW in, in = init_socket(files, "input", p),
         NEW out, out = init_socket(in.files, "output", p)
  PROVE  Opens(files, p, in, out)
<1>1. "input" \in Sides /\ "output" \in Sides
  BY Kinds
<1>2. ~Bound(files, "input", p) /\ ~Bound(files, "output", p)
  BY DEF Bound, Listener
<1>3. /\ in.ok \in BOOLEAN /\ in.files \in [Fds -> File]
      /\ ~in.ok => in.files = files
      /\ in.ok => /\ in.fd \in Fds /\ files[in.fd] = Closed
                  /\ in.fd # 0 => files[0] # Closed
                  /\ in.files[in.fd] = Listener("input", p)
                  /\ \A f \in Fds \ {in.fd} : in.files[f] = files[f]
  <2>1. /\ in.ok \in BOOLEAN /\ in.files \in [Fds -> File]
        /\ ~in.ok /\ ~Bound(files, "input", p) => in.files = files
    BY <1>1, SocketDoes
  <2>2. in.ok => /\ in.fd \in Fds /\ files[in.fd] = Closed
                 /\ in.fd # 0 => files[0] # Closed
    BY <1>1, SocketDoes
  <2>3. in.ok => /\ in.files[in.fd] = Listener("input", p)
                 /\ \A f \in Fds \ {in.fd} : in.files[f] = files[f]
    BY <1>1, SocketDoes
  <2> QED
    BY <1>2, <2>1, <2>2, <2>3
<1> SUFFICES ASSUME in.ok
             PROVE  /\ ~out.ok => close(out.files, {in.fd}) = files
                    /\ out.ok => Opened(files, p, in.fd, out.fd, out.files)
  BY <1>3 DEF Opens
<1> DEFINE a == in.fd
           b == out.fd
<1>4. /\ a \in Fds /\ files[a] = Closed
      /\ a # 0 => files[0] # Closed
      /\ in.files[a] = Listener("input", p)
      /\ \A f \in Fds \ {a} : in.files[f] = files[f]
  BY <1>3
<1>5. ~Bound(in.files, "output", p)
  <2> SUFFICES ASSUME NEW g \in Fds, in.files[g] = Listener("output", p) PROVE FALSE
    BY DEF Bound
  <2>1. g # a
    BY <1>4, Kinds
  <2> QED
    BY <1>2, <1>4, <2>1 DEF Bound
<1>6. /\ out.ok \in BOOLEAN /\ out.files \in [Fds -> File]
      /\ ~out.ok => out.files = in.files
      /\ out.ok => /\ b \in Fds /\ in.files[b] = Closed
                   /\ b # 0 => in.files[0] # Closed
                   /\ out.files[b] = Listener("output", p)
                   /\ \A f \in Fds \ {b} : out.files[f] = in.files[f]
  BY <1>1, <1>3, <1>5, SocketDoes
<1>7. ASSUME ~out.ok
      PROVE  close(out.files, {a}) = files
  <2>1. /\ close(in.files, {a}) \in [Fds -> File]
        /\ \A f \in Fds : close(in.files, {a})[f] = IF f \in {a} THEN Closed ELSE in.files[f]
    BY <1>3, CloseIs
  <2>2. \A f \in Fds : close(in.files, {a})[f] = files[f]
    BY <1>4, <2>1
  <2>3. out.files = in.files
    BY <1>6, <1>7
  <2> DEFINE c == close(in.files, {a})
  <2> HIDE DEF c
  <2>4. c \in [Fds -> File] /\ \A f \in Fds : c[f] = files[f]
    BY <2>1, <2>2 DEF c
  <2>5. c = files
    BY <2>4
  <2> QED
    BY <2>3, <2>5 DEF c
<1>8. ASSUME out.ok
      PROVE  Opened(files, p, a, b, out.files)
  <2>1. /\ b \in Fds /\ in.files[b] = Closed
        /\ out.files[b] = Listener("output", p)
        /\ \A f \in Fds \ {b} : out.files[f] = in.files[f]
    BY <1>6, <1>8
  <2>2. a # b
    BY <1>1, <1>4, <2>1, Kinds
  <2>3. b # 0
    <3> SUFFICES ASSUME b = 0 PROVE FALSE
      OBVIOUS
    <3>1. files[0] = Closed
      BY <1>4, <2>1, <2>2
    <3>2. a = 0
      BY <1>4, <3>1
    <3> QED
      BY <2>2, <3>2
  <2>4. files[b] = Closed
    BY <1>4, <2>1, <2>2
  <2>5. /\ out.files[a] = Listener("input", p) /\ out.files[b] = Listener("output", p)
        /\ \A f \in Fds \ {a, b} : out.files[f] = files[f]
    BY <1>3, <1>4, <2>1, <2>2
  <2> QED
    BY <1>4, <2>1, <2>2, <2>3, <2>4, <2>5 DEF Opened
<1> QED
  BY <1>7, <1>8

\* A new runtime, registered.
Started(S, d, p, t, r, a, b, U) ==
    /\ U \in Server /\ r \in Runs \ Live(S)
    /\ Opened(S.files, p, a, b, U.files)
    /\ U.runtimes[r] = NewRun(d, p, t, a, b)
    /\ \A q \in Runs \ {r} : U.runtimes[q] = S.runtimes[q]
    /\ \E m \in Inactive(S) :
          /\ U.registry[m] = NewEntry(d, p, r)
          /\ \A i \in Slots \ {m} : U.registry[i] = S.registry[i]

LEMMA StartOutcomes ==
  ASSUME NEW S \in Server, NEW X, Sound(S, X), HasRoom(S),
         NEW d \in Devices, NEW p \in Pairs, ~HasEntry(S, p), RoomFor(S, p),
         NEW t \in BOOLEAN,
         NEW in, in = init_socket(S.files, "input", p),
         NEW out, out = init_socket(in.files, "output", p),
         NEW o, o = StartWith(S, d, p, t, in, out)
  PROVE  /\ o.ok \in BOOLEAN
         /\ ~o.ok => o.s = S
         /\ o.ok => \E r, a, b : Started(S, d, p, t, r, a, b, o.s)
<1>1. p \in Pairs
  OBVIOUS
<1>2. S.files \in [Fds -> File] /\ \A f \in Fds : S.files[f].pair # p
  BY PortsFree DEF Server
<1>3. /\ o.s \in Server /\ o.ok \in BOOLEAN
      /\ StartFails(S, in, out, o) \/ StartWorks(S, d, p, t, in, out, o)
  BY <1>1, StartIs
<1>4. /\ ~in.ok => in.files = S.files
      /\ in.ok /\ ~out.ok => close(out.files, {in.fd}) = S.files
      /\ in.ok /\ out.ok => Opened(S.files, p, in.fd, out.fd, out.files)
  <2>1. Opens(S.files, p, in, out)
    BY <1>1, <1>2, SocketsOpen
  <2> QED
    BY <2>1 DEF Opens
<1>5. S = WithFiles(S, S.files)
  BY DEF WithFiles, Server
<1>6. CASE StartFails(S, in, out, o)
  <2>1. ~o.ok /\ o.s = S
    BY <1>4, <1>5, <1>6 DEF StartFails
  <2> QED
    BY <1>3, <2>1
<1>7. CASE StartWorks(S, d, p, t, in, out, o)
  <2> DEFINE a == in.fd
             b == out.fd
             run == NewRun(d, p, t, a, b)
  <2>1. o.ok /\ Opened(S.files, p, a, b, out.files)
    BY <1>4, <1>7 DEF StartWorks
  <2>2. PICK r \in Runs \ Live(S) :
           o.s = register_dynamic_server_runtime(WithRun(S, out.files, r, run), d, p, r)
    BY <1>7 DEF StartWorks
  <2>3. a \in Fds /\ b \in Fds
    BY <2>1 DEF Opened
  <2>4. run \in Runtime
    BY <1>1, <2>3, NewRunIs
  <2>5. out.files \in [Fds -> File]
    <3>1. in.files \in [Fds -> File]
      BY <1>1, <1>2, SocketDoes, Kinds
    <3> QED
      BY <1>1, <3>1, SocketDoes, Kinds
  <2> DEFINE W == WithRun(S, out.files, r, run)
  <2> HIDE DEF run
  <2>6. /\ W \in Server /\ W.files = out.files /\ W.registry = S.registry
        /\ W.runtimes[r] = run
        /\ \A q \in Runs \ {r} : W.runtimes[q] = S.runtimes[q]
    BY <2>4, <2>5, WithRunIs
  <2> HIDE DEF W
  <2>7. o.s = register_dynamic_server_runtime(W, d, p, r)
    BY <2>2 DEF W
  <2>8. Inactive(W) = Inactive(S) /\ Inactive(S) # {}
    BY <2>6 DEF Inactive, RoomFor, HasEntry
  <2>9. /\ o.s \in Server /\ o.s.files = W.files /\ o.s.runtimes = W.runtimes
        /\ \E m \in Inactive(W) : /\ o.s.registry[m] = NewEntry(d, p, r)
                                  /\ \A i \in Slots \ {m} : o.s.registry[i] = W.registry[i]
    <3>1. W \in Server /\ r \in Runs /\ Inactive(W) # {}
      BY <2>2, <2>6, <2>8
    <3> DEFINE V == o.s
    <3>2. V = register_dynamic_server_runtime(W, d, p, r)
      BY <2>7
    <3> HIDE DEF V
    <3>3. /\ V \in Server /\ V.files = W.files /\ V.runtimes = W.runtimes
          /\ \E m \in Inactive(W) : /\ V.registry[m] = NewEntry(d, p, r)
                                    /\ \A i \in Slots \ {m} : V.registry[i] = W.registry[i]
      BY <1>1, <3>1, <3>2, RegisterIs
    <3> QED
      BY <3>3 DEF V
  <2>10. Started(S, d, p, t, r, a, b, o.s)
    <3>1. o.s.runtimes[r] = NewRun(d, p, t, a, b)
      BY <2>6, <2>9 DEF run
    <3>2. Opened(S.files, p, a, b, o.s.files)
      BY <2>1, <2>6, <2>9
    <3>3. \E m \in Inactive(S) :
             /\ o.s.registry[m] = NewEntry(d, p, r)
             /\ \A i \in Slots \ {m} : o.s.registry[i] = S.registry[i]
      <4>1. PICK m \in Inactive(W) :
               /\ o.s.registry[m] = NewEntry(d, p, r)
               /\ \A i \in Slots \ {m} : o.s.registry[i] = W.registry[i]
        BY <2>9
      <4>2. m \in Inactive(S) /\ o.s.registry[m] = NewEntry(d, p, r)
        BY <2>8, <4>1
      <4>3. \A i \in Slots \ {m} : o.s.registry[i] = S.registry[i]
        BY <2>6, <4>1
      <4> QED
        BY <4>2, <4>3
    <3>s. \A q \in Runs \ {r} : W.runtimes[q] = S.runtimes[q]
      BY <2>6
    <3>t. o.s \in Server /\ o.s.runtimes = W.runtimes
      BY <2>9
    <3>4. /\ o.s \in Server /\ r \in Runs \ Live(S)
          /\ \A q \in Runs \ {r} : o.s.runtimes[q] = S.runtimes[q]
      BY <2>2, <3>s, <3>t
    <3> QED
      BY <3>1, <3>2, <3>3, <3>4, Zenon DEF Started
  <2> QED
    BY <1>3, <2>1, <2>10
<1> QED
  BY <1>3, <1>6, <1>7

\* What the registry can gain is an entry of the device on its pair.
Grown(S, U, d, p) ==
    \A i \in Slots : U.registry[i].active =>
        \/ U.registry[i].device = d /\ U.registry[i].pair = p
        \/ S.registry[i].active /\ U.registry[i] = S.registry[i]

\* A start keeps the account: the new runtime owns its two descriptors.  It is
\* given descriptor 0 only if the device's TLS settings may change.
LEMMA StartSound ==
  ASSUME NEW S \in Server, NEW X \in SUBSET Fds, Sound(S, X),
         NEW d \in Devices, NEW p \in Pairs, ~HasEntry(S, p), Separate => p = Fixed[d],
         NEW t \in BOOLEAN, d \notin TlsDevices => ~t /\ S.files[0] # Closed,
         NEW r, NEW a, NEW b, NEW U, Started(S, d, p, t, r, a, b, U)
  PROVE  U \in Server /\ Sound(U, X) /\ Grown(S, U, d, p)
<1> DEFINE run == U.runtimes[r]
<1>1. p \in Pairs
  OBVIOUS
<1>2. /\ U \in Server /\ r \in Runs /\ r \notin Live(S)
      /\ \A q \in Runs \ {r} : U.runtimes[q] = S.runtimes[q]
  BY DEF Started
<1>3. /\ a \in Fds /\ b \in Fds /\ a # b /\ b # 0
      /\ S.files[a] = Closed /\ S.files[b] = Closed
      /\ U.files[a] = Listener("input", p) /\ U.files[b] = Listener("output", p)
      /\ \A f \in Fds \ {a, b} : U.files[f] = S.files[f]
  BY DEF Started, Opened
<1>4. /\ run \in Runtime /\ run.enable /\ run.device = d /\ run.pair = p
      /\ run.tls = t /\ run.input = a /\ run.output = b /\ run.local = {}
      /\ run.inputRunning /\ run.outputRunning
  <2>1. run = NewRun(d, p, t, a, b)
    BY DEF Started
  <2> HIDE DEF run
  <2> QED
    BY <1>1, <1>3, <2>1, NewRunIs
<1>5. PICK m \in Inactive(S) : /\ U.registry[m] = NewEntry(d, p, r)
                               /\ \A i \in Slots \ {m} : U.registry[i] = S.registry[i]
  BY DEF Started
<1>6. /\ m \in Slots /\ ~S.registry[m].active /\ U.registry[m].active
      /\ U.registry[m].device = d /\ U.registry[m].pair = p /\ U.registry[m].runtime = r
  BY <1>5 DEF Inactive, NewEntry
<1>7. /\ Live(U) = Live(S) \cup {r}
      /\ \A q \in Live(S) : q # r /\ q \in Runs /\ U.runtimes[q] = S.runtimes[q]
  <2>1. \A q \in Live(S) : q # r /\ q \in Runs /\ U.runtimes[q] = S.runtimes[q]
    BY <1>2 DEF Live
  <2>2. \A q \in Runs \ {r} : U.runtimes[q].enable <=> S.runtimes[q].enable
    BY <1>2
  <2>3. Live(U) = Live(S) \cup {r}
    BY <1>2, <1>4, <2>2 DEF Live
  <2> QED
    BY <2>1, <2>3
<1>8. ASSUME NEW q \in Live(S), NEW f \in Owned(S.runtimes[q]), f # 0
      PROVE  f \in Fds /\ f \notin {a, b} /\ U.files[f] = S.files[f]
  <2>1. f \in Fds /\ S.files[f] # Closed
    BY <1>8, OwnedIs
  <2> QED
    BY <1>3, <2>1
<1>9. Registered(U)
  <2>1. \A i \in Slots : U.registry[i].active /\ i # m => S.registry[i].active
    BY <1>5
  <2>2. \A i \in Slots : ~U.registry[i].active => U.registry[i].runtime = 0
    BY <1>5, <1>6 DEF Sound, Registered
  <2>3. ASSUME NEW i \in Slots, U.registry[i].active
        PROVE  /\ U.registry[i].runtime \in Live(U)
               /\ U.runtimes[U.registry[i].runtime].device = U.registry[i].device
               /\ U.runtimes[U.registry[i].runtime].pair = U.registry[i].pair
    <3>1. CASE i = m
      BY <1>4, <1>6, <1>7, <3>1
    <3>2. CASE i # m
      <4> DEFINE e == S.registry[i]
      <4>1. U.registry[i] = e /\ e.active
        BY <1>5, <2>3, <3>2
      <4>2. /\ e.runtime \in Live(S) /\ S.runtimes[e.runtime].device = e.device
            /\ S.runtimes[e.runtime].pair = e.pair
        BY <4>1 DEF Sound, Registered
      <4> QED
        BY <1>7, <4>1, <4>2
    <3> QED
      BY <3>1, <3>2
  <2>4. ASSUME NEW i \in Slots, NEW j \in Slots,
               U.registry[i].active, U.registry[j].active,
               U.registry[i].pair = U.registry[j].pair
        PROVE  i = j
    <3>1. \A k \in Slots \ {m} : U.registry[k].active => U.registry[k].pair # p
      BY <1>5 DEF HasEntry
    <3>2. CASE i = m \/ j = m
      BY <1>6, <2>4, <3>1, <3>2
    <3>3. CASE i # m /\ j # m
      <4>1. S.registry[i].active /\ S.registry[j].active
            /\ S.registry[i].pair = S.registry[j].pair
        BY <1>5, <2>4, <3>3
      <4> QED
        BY <4>1 DEF Sound, Registered
    <3> QED
      BY <3>2, <3>3
  <2>5. ASSUME NEW q \in Live(U)
        PROVE  \E i \in Slots : U.registry[i].active /\ U.registry[i].runtime = q
    <3>1. CASE q = r
      BY <1>6, <3>1
    <3>2. CASE q # r
      <4>1. PICK i \in Slots : S.registry[i].active /\ S.registry[i].runtime = q
        BY <1>7, <3>2 DEF Sound, Registered
      <4>2. i # m
        BY <1>6, <4>1
      <4> QED
        BY <1>5, <4>1, <4>2
    <3> QED
      BY <3>1, <3>2
  <2>6. \A q \in Live(U) : U.runtimes[q].pair \in Pairs
    BY <1>1, <1>4, <1>7 DEF Sound, Registered
  <2>7. \A q \in Runs \ Live(U) : U.runtimes[q] = Gone
    BY <1>2, <1>7 DEF Sound, Registered
  <2>8. Separate => \A i \in Slots : U.registry[i].active =>
                        U.registry[i].pair = Fixed[U.registry[i].device]
    BY <1>5, <1>6 DEF Sound, Registered
  <2> QED
    BY <2>2, <2>3, <2>4, <2>5, <2>6, <2>7, <2>8 DEF Registered
<1>10. Listening(U)
  <2>1. Listens(U.files, run)
    <3>1. a = 0 => d \in TlsDevices
      BY <1>3
    <3> QED
      BY <1>3, <1>4, <3>1 DEF Listens
  <2>2. ASSUME NEW q \in Live(S)
        PROVE  Listens(U.files, S.runtimes[q])
    <3>1. Listens(S.files, S.runtimes[q])
      BY DEF Sound, Listening
    <3>2. S.runtimes[q].input \in Owned(S.runtimes[q])
          /\ S.runtimes[q].output \in Owned(S.runtimes[q])
      BY DEF Owned
    <3> QED
      BY <1>8, <3>1, <3>2 DEF Listens
  <2> QED
    BY <1>7, <2>1, <2>2 DEF Listening
<1>11. Connected(U, X)
  <2>1. ASSUME NEW q \in Live(S), NEW f \in S.runtimes[q].local \ {0}
        PROVE  U.files[f] = Connection /\ f \notin X
    <3>1. f \in Owned(S.runtimes[q]) /\ S.files[f] = Connection /\ f \notin X
      BY <2>1 DEF Owned, Sound, Connected
    <3> QED
      BY <1>8, <2>1, <3>1
  <2>2. \A k, q \in Live(S) : \A f \in S.runtimes[k].local \cap S.runtimes[q].local :
          f # 0 => k = q
    BY DEF Sound, Connected
  <2>3. \A q \in Live(U) : \A f \in U.runtimes[q].local \ {0} :
          U.files[f] = Connection /\ f \notin X
    BY <1>4, <1>7, <2>1
  <2>4. \A k, q \in Live(U) : \A f \in U.runtimes[k].local \cap U.runtimes[q].local :
          f # 0 => k = q
    BY <1>4, <1>7, <2>2
  <2> QED
    BY <2>3, <2>4 DEF Connected
<1>12. Undisturbed(U)
  <2>1. RunsOn(run)
    BY <1>4 DEF RunsOn
  <2>2. \A q \in Live(S) : RunsOn(S.runtimes[q])
    BY DEF Sound, Undisturbed
  <2> QED
    BY <1>7, <2>1, <2>2 DEF Undisturbed
<1>13. \A f : OwnedIn(U, f) <=> f \in {a, b} \/ OwnedIn(S, f)
  <2>1. \A f : f \in Owned(run) <=> f \in {a, b}
    BY <1>4 DEF Owned
  <2>2. \A f : OwnedIn(U, f) <=> f \in Owned(U.runtimes[r])
                                 \/ \E q \in Live(S) : f \in Owned(U.runtimes[q])
    BY <1>7 DEF OwnedIn
  <2>3. \A f : OwnedIn(S, f) <=> \E q \in Live(S) : f \in Owned(U.runtimes[q])
    BY <1>7 DEF OwnedIn
  <2> QED
    BY <2>1, <2>2, <2>3
<1>14. Accounted(U, X)
  <2>1. \A f \in Fds \ {0} : U.files[f] = Closed \/ f \in X \/ OwnedIn(U, f)
    <3>1. \A f \in Fds \ {0} : S.files[f] = Closed \/ f \in X \/ OwnedIn(S, f)
      BY DEF Sound, Accounted
    <3> QED
      BY <1>3, <1>13, <3>1
  <2>2. /\ U.files[0] \in {Closed, Stdin} \/ 0 \in X \/ OwnedIn(U, 0)
        /\ Accepting(U.files[0]) =>
              \E q \in Live(U) : /\ U.runtimes[q].input = 0
                                 /\ U.files[0] = Listener("input", U.runtimes[q].pair)
    <3>1. CASE a = 0
      BY <1>3, <1>4, <1>7, <1>13, <3>1
    <3>2. CASE a # 0
      <4>1. U.files[0] = S.files[0]
        BY <1>3, <3>2, Sizes
      <4>2. S.files[0] \in {Closed, Stdin} \/ 0 \in X \/ OwnedIn(S, 0)
        BY DEF Sound, Accounted
      <4>3. Accepting(S.files[0]) =>
              \E q \in Live(S) : /\ S.runtimes[q].input = 0
                                 /\ S.files[0] = Listener("input", S.runtimes[q].pair)
        BY DEF Sound, Accounted
      <4> QED
        BY <1>7, <1>13, <4>1, <4>2, <4>3
    <3> QED
      BY <3>1, <3>2
  <2>3. \A f \in X \ {0} : U.files[f] = Connection
    <3>1. \A f \in X \ {0} : f \in Fds /\ S.files[f] = Connection
      BY DEF Sound, Accounted
    <3> QED
      BY <1>3, <3>1, Kinds
  <2> QED
    BY <2>1, <2>2, <2>3 DEF Accounted
<1>15. Grown(S, U, d, p)
  BY <1>5, <1>6 DEF Grown
<1> QED
  BY <1>2, <1>9, <1>10, <1>11, <1>12, <1>14, <1>15 DEF Sound

\* ensure_dynamic_server_for_device keeps the account.  A device whose TLS
\* settings nobody changes never has its runtime stopped, so descriptor 0 is
\* open when its runtime is started.
LEMMA EnsureSound ==
  ASSUME NEW S \in Server, NEW X \in SUBSET Fds, Sound(S, X), HasRoom(S),
         NEW d \in Devices, NEW t \in BOOLEAN,
         NEW p \in Pairs, OwnPair(S, d, p), RoomFor(S, p), Separate => p = Fixed[d],
         d \notin TlsDevices => ~t /\ S.files[0] # Closed,
         NEW made \in ensure_dynamic_server_for_device(S, d, p, t)
  PROVE  /\ made.s \in Server /\ Sound(made.s, X) /\ made.ok \in BOOLEAN
         /\ Grown(S, made.s, d, p)
<1>0. p \in Pairs \cup {NoPair} /\ p # NoPair
  BY RuntimeAssumption
<1>1. CASE made = [ok |-> TRUE, s |-> S]
  BY <1>1 DEF Grown
<1>2. ASSUME ~\E i \in Slots : Healthy(S, i, p, t),
             NEW C, NEW in, NEW out, C = stop_dynamic_runtimes_for_device(S, d, p),
             in = init_socket(C.files, "input", p),
             out = init_socket(in.files, "output", p),
             made = StartWith(C, d, p, t, in, out)
      PROVE  /\ made.s \in Server /\ Sound(made.s, X) /\ made.ok \in BOOLEAN
             /\ Grown(S, made.s, d, p)
  <2>1. /\ C \in Server /\ Sound(C, X) /\ Fewer(S, C) /\ ~HasEntry(C, p)
        /\ ~HasEntry(S, p) => C.files = S.files
    BY <1>0, <1>2, StopDevice
  <2>r. RoomFor(C, p)
    BY <2>1 DEF Fewer, RoomFor
  <2>2. HasRoom(C)
    BY <1>2, StopKeepsRoom DEF stop_dynamic_runtimes_for_device
  <2>3. d \notin TlsDevices => ~t /\ C.files[0] # Closed
    <3> SUFFICES ASSUME d \notin TlsDevices PROVE ~t /\ C.files[0] # Closed
      OBVIOUS
    <3>1. t = FALSE
      OBVIOUS
    <3>2. ~HasEntry(S, p)
      BY <1>2, <3>1, WellServed
    <3> QED
      BY <2>1, <3>1, <3>2
  <2>4. /\ made.ok \in BOOLEAN
        /\ ~made.ok => made.s = C
        /\ made.ok => \E r, a, b : Started(C, d, p, t, r, a, b, made.s)
    BY <1>2, <2>1, <2>2, <2>r, StartOutcomes
  <2>5. CASE ~made.ok
    BY <2>1, <2>4, <2>5 DEF Fewer, Grown
  <2>6. CASE made.ok
    <3>1. PICK r, a, b : Started(C, d, p, t, r, a, b, made.s)
      BY <2>4, <2>6
    <3>2. made.s \in Server /\ Sound(made.s, X) /\ Grown(C, made.s, d, p)
      BY <2>1, <2>3, <3>1, StartSound
    <3>3. Grown(S, made.s, d, p)
      BY <2>1, <3>2 DEF Fewer, Grown
    <3> QED
      BY <2>4, <3>2, <3>3
  <2> QED
    BY <2>5, <2>6
<1> QED
  BY <1>1, <1>2, EnsureIs

-----------------------------------------------------------------------------
(* The account is kept by every step *)

LEMMA ConnSound ==
  ASSUME st \in Server, Sound(st, {}), MayHandle, NEW S \in WithConn
  PROVE  /\ S \in Server /\ HasRoom(S) /\ Conn \in Fds
         /\ Sound(S, {Conn}) /\ S.files[0] # Closed /\ S.registry = st.registry
<1> DEFINE c == Conn
<1>1. /\ c \in Fds /\ st.files[c] = Closed
      /\ c # 0 => st.files[0] # Closed
      /\ S = WithFiles(st, [st.files EXCEPT ![c] = Connection])
      /\ [st.files EXCEPT ![c] = Connection] \in [Fds -> File]
      /\ S \in Server /\ HasRoom(S)
  BY ConnIs
<1> HIDE DEF c
<1>2. S.files = [st.files EXCEPT ![c] = Connection]
      /\ S.runtimes = st.runtimes /\ S.registry = st.registry
  BY <1>1, WithFilesIs
<1>3. S.files[c] = Connection /\ \A f \in Fds \ {c} : S.files[f] = st.files[f]
  BY <1>1, <1>2 DEF Server
<1>4. S.files[0] # Closed
  BY <1>1, <1>3, Sizes, Kinds
<1>5. ASSUME NEW r \in Live(st), NEW f \in Owned(st.runtimes[r]), f # 0
      PROVE  S.files[f] = st.files[f] /\ f \notin {c}
  <2>1. f \in Fds /\ st.files[f] # Closed
    BY <1>5, OwnedIs
  <2> QED
    BY <1>1, <1>3, <2>1
<1>6. /\ Live(S) = Live(st) /\ \A f : OwnedIn(S, f) <=> OwnedIn(st, f)
      /\ Registered(S) /\ Listening(S) /\ Connected(S, {c}) /\ Undisturbed(S)
  BY <1>1, <1>2, <1>5, SameRuns
<1>7. Accounted(S, {c})
  <2>1. /\ \A f \in Fds \ {0} : st.files[f] = Closed \/ OwnedIn(st, f)
        /\ st.files[0] \in {Closed, Stdin} \/ OwnedIn(st, 0)
        /\ Accepting(st.files[0]) =>
              \E r \in Live(st) : /\ st.runtimes[r].input = 0
                                  /\ st.files[0] = Listener("input", st.runtimes[r].pair)
    BY DEF Sound, Accounted
  <2>2. \A f \in Fds \ {0} : S.files[f] = Closed \/ f \in {c} \/ OwnedIn(S, f)
    BY <1>3, <1>6, <2>1
  <2>3. /\ S.files[0] \in {Closed, Stdin} \/ 0 \in {c} \/ OwnedIn(S, 0)
        /\ Accepting(S.files[0]) =>
              \E r \in Live(S) : /\ S.runtimes[r].input = 0
                                 /\ S.files[0] = Listener("input", S.runtimes[r].pair)
    <3>1. CASE c = 0
      BY <1>3, <3>1, Kinds
    <3>2. CASE c # 0
      <4>1. S.files[0] = st.files[0]
        BY <1>3, <3>2, Sizes
      <4> QED
        BY <1>2, <1>6, <2>1, <4>1
    <3> QED
      BY <3>1, <3>2
  <2>4. \A f \in {c} \ {0} : S.files[f] = Connection
    BY <1>3
  <2> QED
    BY <2>2, <2>3, <2>4 DEF Accounted
<1>8. Sound(S, {c})
  BY <1>6, <1>7 DEF Sound
<1> QED
  BY <1>1, <1>2, <1>4, <1>8 DEF c

LEMMA AnsweredSound ==
  ASSUME NEW U \in Server, Conn \in Fds, Sound(U, {Conn}), Answered(U)
  PROVE  st' \in Server /\ Sound(st', {}) /\ st'.registry = U.registry
<1> DEFINE c == Conn
           T == st'
<1>1. /\ T = WithFiles(U, close(U.files, {c})) /\ T \in Server
      /\ close(U.files, {c}) \in [Fds -> File]
  BY AnsweredIs
<1>2. Sound(U, {c}) /\ c \in Fds
  OBVIOUS
<1> HIDE DEF c, T
<1>3. T.files = close(U.files, {c}) /\ T.runtimes = U.runtimes /\ T.registry = U.registry
  BY <1>1, WithFilesIs
<1>4. \A f \in Fds : T.files[f] = IF f \in {c} THEN Closed ELSE U.files[f]
  BY <1>3, CloseIs DEF Server
<1>5. ASSUME NEW r \in Live(U), NEW f \in Owned(U.runtimes[r]), f # 0
      PROVE  T.files[f] = U.files[f]
  <2>1. f \in Fds /\ f \notin {c}
    BY <1>2, <1>5, OwnedIs
  <2> QED
    BY <1>4, <2>1
<1>6. /\ Live(T) = Live(U) /\ \A f : OwnedIn(T, f) <=> OwnedIn(U, f)
      /\ Registered(T) /\ Listening(T) /\ Connected(T, {}) /\ Undisturbed(T)
  <2> DEFINE none == {}
  <2>1. \A f : f \notin none
    OBVIOUS
  <2> HIDE DEF none
  <2>2. \A r \in Live(U) : \A f \in Owned(U.runtimes[r]) :
           f # 0 => T.files[f] = U.files[f] /\ f \notin none
    BY <1>5, <2>1
  <2>3. /\ Live(T) = Live(U) /\ \A f : OwnedIn(T, f) <=> OwnedIn(U, f)
        /\ Registered(T) /\ Listening(T) /\ Connected(T, none) /\ Undisturbed(T)
    BY <1>1, <1>2, <1>3, <2>2, SameRuns
  <2> QED
    BY <2>3 DEF none
<1>7. Accounted(T, {})
  <2>1. /\ \A f \in Fds \ {0} : U.files[f] = Closed \/ f \in {c} \/ OwnedIn(U, f)
        /\ U.files[0] \in {Closed, Stdin} \/ 0 \in {c} \/ OwnedIn(U, 0)
        /\ Accepting(U.files[0]) =>
              \E r \in Live(U) : /\ U.runtimes[r].input = 0
                                 /\ U.files[0] = Listener("input", U.runtimes[r].pair)
    BY <1>2 DEF Sound, Accounted
  <2>2. \A f \in Fds \ {0} : T.files[f] = Closed \/ OwnedIn(T, f)
    BY <1>4, <1>6, <2>1
  <2>3. /\ T.files[0] \in {Closed, Stdin} \/ OwnedIn(T, 0)
        /\ Accepting(T.files[0]) =>
              \E r \in Live(T) : /\ T.runtimes[r].input = 0
                                 /\ T.files[0] = Listener("input", T.runtimes[r].pair)
    <3>1. CASE c = 0
      BY <1>4, <3>1, Sizes, Kinds
    <3>2. CASE c # 0
      <4>1. T.files[0] = U.files[0]
        BY <1>4, <3>2, Sizes
      <4> QED
        BY <1>3, <1>6, <2>1, <3>2, <4>1
    <3> QED
      BY <3>1, <3>2
  <2> QED
    BY <2>2, <2>3 DEF Accounted
<1>8. Sound(T, {})
  BY <1>6, <1>7 DEF Sound
<1> QED
  BY <1>1, <1>3, <1>8 DEF T

\* The pair of a lease is nobody else's, in the tables and in the registry,
\* and only a device whose settings are changed has a TLS listener.
OwnLease ==
    /\ \A d \in Devices : lease[d] # NoPair => OwnPair(st, d, lease[d])
    /\ \A d, e \in Devices : lease[d] = lease[e] /\ lease[d] # NoPair => d = e
    /\ \A d \in Devices \ TlsDevices : ~tls[d]
    /\ Separate => \A d \in Devices : lease[d] \in {NoPair, Fixed[d]}

RuntimeInv == Typed /\ OwnLease /\ Sound(st, {})

\* Leases and entries that end take nothing from the others.
LEMMA LeaseEnds ==
  ASSUME RuntimeInv, tls' = tls, Fewer(st, st'),
         \A d \in Devices : lease'[d] \in {NoPair, lease[d]}
  PROVE  OwnLease'
<1>1. \A d \in Devices, p \in Pairs \cup {NoPair} :
         OwnPair(st, d, p) => OwnPair(st', d, p)
  BY DEF OwnPair, Fewer
<1>2. /\ \A d \in Devices : lease'[d] # NoPair => OwnPair(st', d, lease'[d])
      /\ \A d, e \in Devices : lease'[d] = lease'[e] /\ lease'[d] # NoPair => d = e
  BY <1>1 DEF RuntimeInv, OwnLease, Typed
<1>3. /\ \A d \in Devices \ TlsDevices : ~tls'[d]
      /\ Separate => \A d \in Devices : lease'[d] \in {NoPair, Fixed[d]}
  BY DEF RuntimeInv, OwnLease
<1> QED
  BY <1>2, <1>3 DEF OwnLease

\* Nor does what a request for a device starts on the device's pair.
LEMMA LeaseServedOn ==
  ASSUME RuntimeInv, tls' = tls, NEW d \in Devices, NEW p \in Pairs,
         lease' = lease \/ lease' = [lease EXCEPT ![d] = p]
                        \/ lease' = [lease EXCEPT ![d] = NoPair],
         OwnPair(st, d, p), Grown(st, st', d, p),
         \A o \in Devices \ {d} : lease[o] # p, Separate => p = Fixed[d]
  PROVE  OwnLease'
<1>1. OwnPair(st', d, p)
  BY DEF OwnPair, Grown
<1>2. \A o \in Devices, q \in Pairs \cup {NoPair} :
         q # p /\ OwnPair(st, o, q) => OwnPair(st', o, q)
  BY DEF OwnPair, Grown
<1>3. /\ \A o \in Devices \ {d} : lease'[o] = lease[o]
      /\ lease'[d] \in {lease[d], p, NoPair}
  BY DEF RuntimeInv, Typed
<1>4. ASSUME NEW o \in Devices, lease'[o] # NoPair
      PROVE  OwnPair(st', o, lease'[o])
  <2> DEFINE q == lease'[o]
  <2>1. CASE q = p
    <3>1. o = d
      BY <1>3, <2>1
    <3> QED
      BY <1>1, <2>1, <3>1
  <2>2. CASE q # p
    <3>1. q = lease[o]
      BY <1>3, <1>4, <2>2
    <3>2. q \in Pairs \cup {NoPair} /\ OwnPair(st, o, q)
      BY <1>4, <3>1 DEF RuntimeInv, OwnLease, Typed
    <3> HIDE DEF q
    <3>3. OwnPair(st', o, q)
      BY <1>2, <2>2, <3>2
    <3> QED
      BY <3>3 DEF q
  <2> QED
    BY <2>1, <2>2
<1>5. ASSUME NEW o \in Devices, NEW e \in Devices, lease'[o] = lease'[e],
             lease'[o] # NoPair
      PROVE  o = e
  BY <1>3, <1>5 DEF RuntimeInv, OwnLease
<1>6. /\ \A o \in Devices \ TlsDevices : ~tls'[o]
      /\ Separate => \A o \in Devices : lease'[o] \in {NoPair, Fixed[o]}
  BY <1>3 DEF RuntimeInv, OwnLease
<1> QED
  BY <1>4, <1>5, <1>6 DEF OwnLease

LEMMA RegisterKeeps ==
  ASSUME RuntimeInv, CleanStart, NEW d \in Devices, Register(d)
  PROVE  Sound(st', {}) /\ OwnLease'
<1> DEFINE p == PairFor(d)
<1>1. /\ MayHandle /\ p # NoPair /\ tls' = tls /\ Typed
  BY Zenon DEF Register, RuntimeInv
<1>2. /\ p \in Pairs /\ \A o \in Devices \ {d} : lease[o] # p
      /\ Separate => p = Fixed[d]
  <2>1. Separate => Fixed[d] # NoPair
    BY RuntimeAssumption DEF Separate
  <2> QED
    BY <1>1, <2>1, PairForIs
<1>3. OwnPair(st, d, p) /\ RoomFor(st, p)
  BY DEF CleanStart
<1>s. PICK S \in WithConn :
         \E made \in ensure_dynamic_server_for_device(S, d, p, tls[d]) :
            /\ lease' = [lease EXCEPT ![d] = IF made.ok THEN p ELSE NoPair]
            /\ Answered(IF made.ok THEN made.s
                        ELSE stop_dynamic_runtimes_for_device(made.s, d, p))
  BY Zenon DEF Register
<1> HIDE DEF p
<1>4. PICK made \in ensure_dynamic_server_for_device(S, d, p, tls[d]) :
         /\ lease' = [lease EXCEPT ![d] = IF made.ok THEN p ELSE NoPair]
         /\ Answered(IF made.ok THEN made.s
                     ELSE stop_dynamic_runtimes_for_device(made.s, d, p))
  BY <1>s
<1>5. /\ S \in Server /\ HasRoom(S) /\ Conn \in Fds /\ {Conn} \in SUBSET Fds
      /\ Sound(S, {Conn}) /\ S.files[0] # Closed /\ S.registry = st.registry
  BY <1>1, ConnSound DEF RuntimeInv, Typed
<1>6. tls[d] \in BOOLEAN /\ (d \notin TlsDevices => ~tls[d])
  BY DEF RuntimeInv, Typed, OwnLease
<1>o. OwnPair(S, d, p) /\ RoomFor(S, p)
  BY <1>3, <1>5 DEF OwnPair, RoomFor
<1>7. /\ made.s \in Server /\ Sound(made.s, {Conn}) /\ made.ok \in BOOLEAN
      /\ Grown(S, made.s, d, p)
  BY <1>2, <1>5, <1>6, <1>o, EnsureSound
<1>8. Sound(st', {}) /\ Grown(S, st', d, p)
  <2>1. CASE made.ok
    <3>1. Answered(made.s)
      BY <1>4, <2>1
    <3>2. Sound(st', {}) /\ st'.registry = made.s.registry
      BY <1>5, <1>7, <3>1, AnsweredSound
    <3> QED
      BY <1>7, <3>2 DEF Grown
  <2>2. CASE ~made.ok
    <3> DEFINE U == stop_dynamic_runtimes_for_device(made.s, d, p)
    <3>1. U \in Server /\ Sound(U, {Conn}) /\ Fewer(made.s, U)
      BY <1>2, <1>5, <1>7, StopDevice
    <3>2. Answered(U)
      BY <1>4, <2>2
    <3> HIDE DEF U
    <3>3. Sound(st', {}) /\ st'.registry = U.registry
      BY <1>5, <3>1, <3>2, AnsweredSound
    <3> QED
      BY <1>7, <3>1, <3>3 DEF Grown, Fewer
  <2> QED
    BY <1>7, <2>1, <2>2
<1>9. Grown(st, st', d, p)
  BY <1>5, <1>8 DEF Grown
<1>10. lease' = [lease EXCEPT ![d] = p] \/ lease' = [lease EXCEPT ![d] = NoPair]
  BY <1>4, <1>7
<1>11. OwnLease'
  BY <1>1, <1>2, <1>3, <1>9, <1>10, LeaseServedOn
<1> QED
  BY <1>8, <1>11

\* What a device's lease tells of its pair.
LEMMA LeaseIs ==
  ASSUME RuntimeInv, NEW d \in Devices, lease[d] # NoPair
  PROVE  /\ lease[d] \in Pairs /\ OwnPair(st, d, lease[d])
         /\ \A o \in Devices \ {d} : lease[o] # lease[d]
         /\ Separate => lease[d] = Fixed[d]
BY DEF RuntimeInv, Typed, OwnLease

LEMMA HeartbeatKeeps ==
  ASSUME RuntimeInv, CleanStart, NEW d \in Devices, Heartbeat(d)
  PROVE  Sound(st', {}) /\ OwnLease'
<1>1. /\ MayHandle /\ lease[d] # NoPair /\ lease' = lease /\ tls' = tls
  BY DEF Heartbeat
<1>s. PICK S \in WithConn :
         \E made \in ensure_dynamic_server_for_device(S, d, lease[d], tls[d]) :
            Answered(made.s)
  BY DEF Heartbeat
<1>2. PICK made \in ensure_dynamic_server_for_device(S, d, lease[d], tls[d]) :
         Answered(made.s)
  BY <1>s
<1>3. /\ S \in Server /\ HasRoom(S) /\ Conn \in Fds /\ {Conn} \in SUBSET Fds
      /\ Sound(S, {Conn}) /\ S.files[0] # Closed /\ S.registry = st.registry
  BY <1>1, ConnSound DEF RuntimeInv, Typed
<1>4. /\ lease[d] \in Pairs /\ OwnPair(st, d, lease[d]) /\ RoomFor(st, lease[d])
      /\ \A o \in Devices \ {d} : lease[o] # lease[d]
      /\ Separate => lease[d] = Fixed[d]
  BY <1>1, LeaseIs DEF CleanStart
<1>5. tls[d] \in BOOLEAN /\ (d \notin TlsDevices => ~tls[d])
  BY DEF RuntimeInv, Typed, OwnLease
<1>6. OwnPair(S, d, lease[d]) /\ RoomFor(S, lease[d])
  BY <1>3, <1>4 DEF OwnPair, RoomFor
<1>7. made.s \in Server /\ Sound(made.s, {Conn}) /\ Grown(S, made.s, d, lease[d])
  BY <1>3, <1>4, <1>5, <1>6, EnsureSound
<1>8. Sound(st', {}) /\ st'.registry = made.s.registry
  BY <1>2, <1>3, <1>7, AnsweredSound
<1>9. Grown(st, st', d, lease[d])
  BY <1>3, <1>7, <1>8 DEF Grown
<1>10. OwnLease'
  BY <1>1, <1>4, <1>9, LeaseServedOn
<1> QED
  BY <1>8, <1>10

LEMMA DisconnectKeeps ==
  ASSUME RuntimeInv, NEW d \in Devices, Disconnect(d)
  PROVE  /\ st' \in Server /\ Sound(st', {}) /\ OwnLease'
         /\ lease[d] # NoPair => ~HasEntry(st', lease[d])
<1>1. MayHandle /\ lease' = [lease EXCEPT ![d] = NoPair] /\ tls' = tls
  BY DEF Disconnect
<1>2. PICK S \in WithConn : Answered(stop_dynamic_runtimes_for_device(S, d, lease[d]))
  BY DEF Disconnect
<1>3. /\ S \in Server /\ Sound(S, {Conn}) /\ Conn \in Fds /\ {Conn} \in SUBSET Fds
      /\ S.registry = st.registry
  BY <1>1, ConnSound DEF RuntimeInv, Typed
<1> DEFINE U == stop_dynamic_runtimes_for_device(S, d, lease[d])
<1>4. /\ lease[d] \in Pairs \cup {NoPair}
      /\ lease[d] # NoPair => OwnPair(S, d, lease[d])
  BY <1>3 DEF RuntimeInv, Typed, OwnLease, OwnPair
<1>5. /\ U \in Server /\ Sound(U, {Conn}) /\ Fewer(S, U)
      /\ lease[d] # NoPair => ~HasEntry(U, lease[d])
  BY <1>3, <1>4, StopDevice
<1> HIDE DEF U
<1>6. st' \in Server /\ Sound(st', {}) /\ st'.registry = U.registry
  BY <1>2, <1>3, <1>5, AnsweredSound DEF U
<1>7. Fewer(st, st')
  BY <1>3, <1>5, <1>6 DEF Fewer
<1>8. \A e \in Devices : lease'[e] \in {NoPair, lease[e]}
  BY <1>1 DEF RuntimeInv, Typed
<1>9. OwnLease'
  BY <1>1, <1>7, <1>8, LeaseEnds
<1> QED
  BY <1>5, <1>6, <1>9 DEF HasEntry

LEMMA ReloadKeeps ==
  ASSUME RuntimeInv, CleanStart, NEW d \in Devices, ReloadTls(d)
  PROVE  Sound(st', {}) /\ OwnLease'
<1>1. /\ MayHandle /\ d \in TlsDevices /\ lease' = lease /\ tls' = tls
  BY DEF ReloadTls, RuntimeInv, Typed
<1>2. CASE lease[d] = NoPair
  <2>1. st' = st
    BY <1>2 DEF ReloadTls
  <2>2. Sound(st', {}) /\ Fewer(st, st')
    BY <2>1 DEF RuntimeInv, Fewer
  <2> QED
    BY <1>1, <2>2, LeaseEnds
<1>3. CASE lease[d] # NoPair
  <2>s. PICK S \in WithConn :
           \E stopped \in {stop_dynamic_runtimes_for_device(S, d, lease[d])} :
             \E made \in ensure_dynamic_server_for_device(
                             stopped, d, lease[d], tls[d]) : Answered(made.s)
    BY <1>3 DEF ReloadTls
  <2>t. PICK stopped \in {stop_dynamic_runtimes_for_device(S, d, lease[d])} :
           \E made \in ensure_dynamic_server_for_device(
                           stopped, d, lease[d], tls[d]) : Answered(made.s)
    BY <2>s
  <2>1. PICK made \in ensure_dynamic_server_for_device(stopped, d, lease[d], tls[d]) :
           Answered(made.s)
    BY <2>t
  <2>2. /\ S \in Server /\ HasRoom(S) /\ Conn \in Fds /\ {Conn} \in SUBSET Fds
        /\ Sound(S, {Conn}) /\ S.registry = st.registry
    BY <1>1, ConnSound DEF RuntimeInv, Typed
  <2>3. /\ lease[d] \in Pairs /\ OwnPair(st, d, lease[d]) /\ RoomFor(st, lease[d])
        /\ \A o \in Devices \ {d} : lease[o] # lease[d]
        /\ Separate => lease[d] = Fixed[d]
    BY <1>3, LeaseIs DEF CleanStart
  <2>4. tls[d] \in BOOLEAN /\ lease[d] \in Pairs \cup {NoPair}
    BY DEF RuntimeInv, Typed
  <2>5. stopped \in Server /\ Sound(stopped, {Conn}) /\ Fewer(S, stopped)
    BY <2>2, <2>4, StopDevice
  <2>6. OwnPair(stopped, d, lease[d]) /\ RoomFor(stopped, lease[d])
    BY <2>2, <2>3, <2>5 DEF OwnPair, RoomFor, Fewer
  <2>7. HasRoom(stopped)
    BY <2>1, <2>2, StopKeepsRoom DEF stop_dynamic_runtimes_for_device
  <2>8. made.s \in Server /\ Sound(made.s, {Conn}) /\ Grown(stopped, made.s, d, lease[d])
    BY <1>1, <2>2, <2>3, <2>4, <2>5, <2>6, <2>7, EnsureSound
  <2>9. Sound(st', {}) /\ st'.registry = made.s.registry
    BY <2>1, <2>2, <2>8, AnsweredSound
  <2>10. Grown(st, st', d, lease[d])
    BY <2>2, <2>5, <2>8, <2>9 DEF Grown, Fewer
  <2>11. OwnLease'
    BY <1>1, <2>3, <2>10, LeaseServedOn
  <2> QED
    BY <2>9, <2>11
<1> QED
  BY <1>2, <1>3

\* A step of a runtime's threads leaves what makes it this runtime.
SameRun(u, run) ==
    /\ u.device = run.device /\ u.pair = run.pair /\ u.enable = run.enable
    /\ u.input = run.input /\ u.output = run.output

LEMMA ThreadStep ==
  ASSUME NEW S \in Server, Sound(S, {}), NEW U \in Server, NEW r \in Live(S),
         U.registry = S.registry, SameRun(U.runtimes[r], S.runtimes[r]),
         \A q \in Runs \ {r} : U.runtimes[q] = S.runtimes[q],
         \A q \in Live(S) : \A f \in {S.runtimes[q].input, S.runtimes[q].output} :
            f # 0 => U.files[f] = S.files[f],
         RunsOn(U.runtimes[r])
  PROVE  /\ Live(U) = Live(S)
         /\ Registered(U) /\ Listening(U) /\ Undisturbed(U)
<1>1. \A q \in Runs : SameRun(U.runtimes[q], S.runtimes[q])
  BY DEF SameRun
<1>2. Live(U) = Live(S)
  BY <1>1 DEF Live, SameRun
<1>3. Registered(U)
  <2>s. \A q \in Live(S) : /\ U.runtimes[q].device = S.runtimes[q].device
                           /\ U.runtimes[q].pair = S.runtimes[q].pair
    BY <1>1 DEF SameRun, Live
  <2>1. \A i \in Slots : S.registry[i].active =>
          /\ S.registry[i].runtime \in Live(U)
          /\ U.runtimes[S.registry[i].runtime].device = S.registry[i].device
          /\ U.runtimes[S.registry[i].runtime].pair = S.registry[i].pair
    <3>1. \A i \in Slots : S.registry[i].active =>
            /\ S.registry[i].runtime \in Live(S)
            /\ S.runtimes[S.registry[i].runtime].device = S.registry[i].device
            /\ S.runtimes[S.registry[i].runtime].pair = S.registry[i].pair
      BY DEF Sound, Registered
    <3> QED
      BY <1>2, <2>s, <3>1
  <2>2. \A q \in Live(U) : U.runtimes[q].pair \in Pairs
    <3>1. \A q \in Live(S) : S.runtimes[q].pair \in Pairs
      BY DEF Sound, Registered
    <3> QED
      BY <1>2, <2>s, <3>1
  <2>3. \A q \in Runs \ Live(U) : U.runtimes[q] = Gone
    BY <1>2 DEF Sound, Registered
  <2> QED
    BY <1>2, <2>1, <2>2, <2>3 DEF Sound, Registered
<1>4. Listening(U)
  <2> SUFFICES ASSUME NEW q \in Live(S)
               PROVE  Listens(U.files, U.runtimes[q])
    BY <1>2 DEF Listening
  <2>1. Listens(S.files, S.runtimes[q])
    BY DEF Sound, Listening
  <2>2. SameRun(U.runtimes[q], S.runtimes[q])
    BY <1>1 DEF Live
  <2>3. /\ S.runtimes[q].input # 0 =>
              U.files[S.runtimes[q].input] = S.files[S.runtimes[q].input]
        /\ S.runtimes[q].output # 0 =>
              U.files[S.runtimes[q].output] = S.files[S.runtimes[q].output]
    OBVIOUS
  <2> QED
    BY <2>1, <2>2, <2>3 DEF Listens, SameRun
<1>5. Undisturbed(U)
  <2>1. \A q \in Live(S) : RunsOn(S.runtimes[q]) /\ q \in Runs
    BY DEF Sound, Undisturbed, Live
  <2> QED
    BY <1>2, <2>1 DEF Undisturbed
<1> QED
  BY <1>2, <1>3, <1>4, <1>5

\* A runtime that has a thread or a connection is live.
LEMMA LiveRun ==
  ASSUME st \in Server, Sound(st, {}), NEW r \in Runs,
         \/ st.runtimes[r].inputRunning
         \/ st.runtimes[r].outputRunning
         \/ st.runtimes[r].local # {}
  PROVE  r \in Live(st)
BY Nothing DEF Sound, Registered

\* Only a listener on descriptor 0 is ever closed under its thread.
LEMMA ListenerEndsKeeps ==
  ASSUME st \in Server, Sound(st, {}), NEW r \in Runs, NEW side \in Sides,
         ListenerEnds(r, side)
  PROVE  Sound(st', {}) /\ st'.registry = st.registry
<1> DEFINE run == st.runtimes[r]
           u == Ended(run, side)
           T == st'
<1>1. /\ u # run
      /\ st.files[IF side = "input" THEN run.input ELSE run.output] = Closed
      /\ T = WithRun(st, st.files, r, u)
  BY ListenerEndsIs
<1>2. run \in Runtime /\ st.files \in [Fds -> File]
  BY DEF Server
<1>3. /\ u \in Runtime /\ u.local = run.local /\ SameRun(u, run)
      /\ IF side = "input" THEN run.inputRunning ELSE run.outputRunning
  BY <1>1, <1>2, EndedIs DEF SameRun
<1> HIDE DEF u, T
<1>4. /\ T \in Server /\ T.files = st.files /\ T.registry = st.registry
      /\ T.runtimes[r] = u
      /\ \A q \in Runs \ {r} : T.runtimes[q] = st.runtimes[q]
  BY <1>1, <1>2, <1>3, WithRunIs
<1>5. r \in Live(st)
  BY <1>3, LiveRun
<1>6. run.device \in TlsDevices
  <2>1. Listens(st.files, run) /\ run.pair \in Pairs
    BY <1>5, OneRun DEF Sound, Listening
  <2>2. st.files[run.output] # Closed
    BY <2>1, Kinds DEF Listens
  <2>3. st.files[run.input] = Closed
    BY <1>1, <2>2
  <2>4. run.input = 0
    BY <2>1, <2>3, Kinds DEF Listens
  <2> QED
    BY <2>1, <2>4 DEF Listens
<1>7. RunsOn(u)
  BY <1>3, <1>6 DEF RunsOn, SameRun
<1>8. /\ Live(T) = Live(st)
      /\ Registered(T) /\ Listening(T) /\ Undisturbed(T)
  BY <1>3, <1>4, <1>5, <1>7, ThreadStep
<1>9. \A q \in Live(st) : /\ T.runtimes[q].local = st.runtimes[q].local
                          /\ SameRun(T.runtimes[q], st.runtimes[q])
  BY <1>3, <1>4 DEF Live, SameRun
<1>10. Connected(T, {})
  BY <1>4, <1>8, <1>9 DEF Sound, Connected
<1>11. Accounted(T, {})
  <2>1. \A f : OwnedIn(st, f) <=> OwnedIn(T, f)
    BY <1>8, <1>9 DEF OwnedIn, Owned, SameRun
  <2>2. /\ \A f \in Fds \ {0} : st.files[f] = Closed \/ OwnedIn(st, f)
        /\ st.files[0] \in {Closed, Stdin} \/ OwnedIn(st, 0)
        /\ Accepting(st.files[0]) =>
              \E q \in Live(st) : /\ st.runtimes[q].input = 0
                                  /\ st.files[0] = Listener("input", st.runtimes[q].pair)
    BY DEF Sound, Accounted
  <2>3. Accepting(T.files[0]) =>
              \E q \in Live(T) : /\ T.runtimes[q].input = 0
                                 /\ T.files[0] = Listener("input", T.runtimes[q].pair)
    BY <1>4, <1>8, <1>9, <2>2 DEF SameRun
  <2> QED
    BY <1>4, <2>1, <2>2, <2>3 DEF Accounted
<1> QED
  BY <1>4, <1>8, <1>10, <1>11 DEF Sound, T

LEMMA AcceptKeeps ==
  ASSUME st \in Server, Sound(st, {}), NEW r \in Runs, Accept(r)
  PROVE  Sound(st', {}) /\ st'.registry = st.registry
<1> DEFINE run == st.runtimes[r]
           T == st'
<1>1. PICK f \in Fds :
         /\ st.files[f] = Closed /\ run.outputRunning
         /\ T = WithRun(st, [st.files EXCEPT ![f] = Connection], r,
                        WithLocal(run, run.local \cup {f}))
  BY AcceptIs
<1> DEFINE u == WithLocal(run, run.local \cup {f})
           files == [st.files EXCEPT ![f] = Connection]
<1>2. run \in Runtime /\ st.files \in [Fds -> File] /\ run.local \in SUBSET Fds
  BY DEF Server, Runtime
<1>3. /\ u \in Runtime /\ u.local = run.local \cup {f} /\ SameRun(u, run)
      /\ u.inputRunning = run.inputRunning /\ u.outputRunning = run.outputRunning
      /\ u.tls = run.tls
  BY <1>2, WithLocalIs DEF SameRun
<1>4. /\ files \in [Fds -> File] /\ files[f] = Connection
      /\ \A g \in Fds \ {f} : files[g] = st.files[g]
  BY <1>2, Kinds
<1>5. T = WithRun(st, files, r, u)
  BY <1>1
<1> HIDE DEF u, T, files
<1>6. /\ T \in Server /\ T.files = files /\ T.registry = st.registry
      /\ T.runtimes[r] = u
      /\ \A q \in Runs \ {r} : T.runtimes[q] = st.runtimes[q]
  BY <1>3, <1>4, <1>5, WithRunIs
<1>7. r \in Live(st)
  BY <1>1, LiveRun
<1>8. RunsOn(u)
  BY <1>3, <1>7 DEF RunsOn, SameRun, Sound, Undisturbed
<1>9. ASSUME NEW q \in Live(st), NEW g \in Owned(st.runtimes[q]), g # 0
      PROVE  g # f /\ T.files[g] = st.files[g]
  <2>1. g \in Fds /\ st.files[g] # Closed
    BY <1>9, OwnedIs
  <2> QED
    BY <1>1, <1>4, <1>6, <2>1
<1>10. /\ Live(T) = Live(st)
       /\ Registered(T) /\ Listening(T) /\ Undisturbed(T)
  <2>1. \A q \in Live(st) : \A g \in {st.runtimes[q].input, st.runtimes[q].output} :
           g # 0 => T.files[g] = st.files[g]
    BY <1>9 DEF Owned
  <2> QED
    BY <1>3, <1>6, <1>7, <1>8, <2>1, ThreadStep
<1>11. \A q \in Live(st) :
         /\ T.runtimes[q].local = IF q = r THEN st.runtimes[q].local \cup {f}
                                  ELSE st.runtimes[q].local
         /\ SameRun(T.runtimes[q], st.runtimes[q])
  BY <1>3, <1>6 DEF Live, SameRun
<1>12. Connected(T, {})
  <2>1. ASSUME NEW q \in Live(st), NEW g \in T.runtimes[q].local \ {0}
        PROVE  T.files[g] = Connection
    <3>1. CASE g = f
      BY <1>4, <1>6, <3>1
    <3>2. CASE g # f
      <4>1. g \in st.runtimes[q].local
        BY <1>11, <2>1, <3>2
      <4>2. st.files[g] = Connection /\ g \in Owned(st.runtimes[q])
        BY <2>1, <4>1 DEF Sound, Connected, Owned
      <4> QED
        BY <1>9, <2>1, <4>2
    <3> QED
      BY <3>1, <3>2
  <2>2. ASSUME NEW k \in Live(st), NEW q \in Live(st),
               NEW g \in T.runtimes[k].local \cap T.runtimes[q].local, g # 0
        PROVE  k = q
    <3>1. CASE g = f
      <4>1. \A j \in Live(st) : f \notin st.runtimes[j].local
        BY <1>9, <2>2, <3>1 DEF Owned
      <4> QED
        BY <1>11, <2>2, <3>1, <4>1
    <3>2. CASE g # f
      <4>1. g \in st.runtimes[k].local /\ g \in st.runtimes[q].local
        BY <1>11, <2>2, <3>2
      <4> QED
        BY <2>2, <4>1 DEF Sound, Connected
    <3> QED
      BY <3>1, <3>2
  <2> QED
    BY <1>10, <2>1, <2>2 DEF Connected
<1>13. Accounted(T, {})
  <2>1. \A g : OwnedIn(st, g) => OwnedIn(T, g)
    BY <1>10, <1>11 DEF OwnedIn, Owned, SameRun
  <2>2. OwnedIn(T, f)
    BY <1>7, <1>10, <1>11 DEF OwnedIn, Owned
  <2>3. /\ \A g \in Fds \ {0} : st.files[g] = Closed \/ OwnedIn(st, g)
        /\ st.files[0] \in {Closed, Stdin} \/ OwnedIn(st, 0)
        /\ Accepting(st.files[0]) =>
              \E q \in Live(st) : /\ st.runtimes[q].input = 0
                                  /\ st.files[0] = Listener("input", st.runtimes[q].pair)
    BY DEF Sound, Accounted
  <2>4. \A g \in Fds \ {0} : T.files[g] = Closed \/ OwnedIn(T, g)
    BY <1>4, <1>6, <2>1, <2>2, <2>3
  <2>5. T.files[0] \in {Closed, Stdin} \/ OwnedIn(T, 0)
    BY <1>4, <1>6, <2>1, <2>2, <2>3, Sizes
  <2>6. Accepting(T.files[0]) =>
              \E q \in Live(T) : /\ T.runtimes[q].input = 0
                                 /\ T.files[0] = Listener("input", T.runtimes[q].pair)
    <3>1. CASE f = 0
      BY <1>4, <1>6, <3>1, Kinds
    <3>2. CASE f # 0
      <4>1. T.files[0] = st.files[0]
        BY <1>4, <1>6, <3>2, Sizes
      <4> QED
        BY <1>10, <1>11, <2>3, <4>1 DEF SameRun
    <3> QED
      BY <3>1, <3>2
  <2> QED
    BY <2>4, <2>5, <2>6 DEF Accounted
<1> QED
  BY <1>6, <1>10, <1>12, <1>13 DEF Sound, T

LEMMA ConnectionEndsKeeps ==
  ASSUME st \in Server, Sound(st, {}), NEW r \in Runs, NEW f \in Fds,
         ConnectionEnds(r, f)
  PROVE  Sound(st', {}) /\ st'.registry = st.registry
<1> DEFINE run == st.runtimes[r]
           T == st'
           u == WithLocal(run, run.local \ {f})
           files == close(st.files, {f})
<1>1. f \in run.local /\ T = WithRun(st, files, r, u)
  BY ConnectionEndsIs
<1>2. run \in Runtime /\ st.files \in [Fds -> File] /\ run.local \in SUBSET Fds
  BY DEF Server, Runtime
<1>3. /\ u \in Runtime /\ u.local = run.local \ {f} /\ SameRun(u, run)
      /\ u.inputRunning = run.inputRunning /\ u.outputRunning = run.outputRunning
      /\ u.tls = run.tls
  BY <1>2, WithLocalIs DEF SameRun
<1>4. /\ files \in [Fds -> File] /\ files[f] = Closed
      /\ \A g \in Fds \ {f} : files[g] = st.files[g]
  BY <1>2, CloseIs
<1> HIDE DEF u, T, files
<1>5. /\ T \in Server /\ T.files = files /\ T.registry = st.registry
      /\ T.runtimes[r] = u
      /\ \A q \in Runs \ {r} : T.runtimes[q] = st.runtimes[q]
  BY <1>1, <1>3, <1>4, WithRunIs
<1>6. r \in Live(st)
  BY <1>1, LiveRun
<1>7. RunsOn(u)
  BY <1>3, <1>6 DEF RunsOn, SameRun, Sound, Undisturbed
<1>8. ASSUME NEW q \in Live(st), f \in Owned(st.runtimes[q]), f # 0
      PROVE  q = r /\ st.files[f] = Connection
  <2>1. st.files[f] = Connection /\ f \in Owned(st.runtimes[r])
    BY <1>1, <1>6, <1>8 DEF Sound, Connected, Owned
  <2>2. q = r
    BY <1>6, <1>8, <2>1, OwnedIs
  <2> QED
    BY <2>1, <2>2
<1>9. ASSUME NEW q \in Live(st), NEW g \in Owned(st.runtimes[q]), g # 0, g # f
      PROVE  T.files[g] = st.files[g]
  <2>1. g \in Fds
    BY <1>9, OwnedIs
  <2> QED
    BY <1>4, <1>5, <1>9, <2>1
<1>10. /\ Live(T) = Live(st)
       /\ Registered(T) /\ Listening(T) /\ Undisturbed(T)
  <2>1. ASSUME NEW q \in Live(st), f # 0,
               f = st.runtimes[q].input \/ f = st.runtimes[q].output
        PROVE  FALSE
    <3>1. Listens(st.files, st.runtimes[q]) /\ st.runtimes[q].pair \in Pairs
      BY OneRun DEF Sound, Listening
    <3>2. st.files[f] = Connection
      BY <1>8, <2>1 DEF Owned
    <3> QED
      BY <2>1, <3>1, <3>2, Kinds DEF Listens
  <2>2. \A q \in Live(st) : \A g \in {st.runtimes[q].input, st.runtimes[q].output} :
           g # 0 => T.files[g] = st.files[g]
    BY <1>9, <2>1 DEF Owned
  <2> QED
    BY <1>3, <1>5, <1>6, <1>7, <2>2, ThreadStep
<1>11. \A q \in Live(st) :
         /\ T.runtimes[q].local = IF q = r THEN st.runtimes[q].local \ {f}
                                  ELSE st.runtimes[q].local
         /\ SameRun(T.runtimes[q], st.runtimes[q])
  BY <1>3, <1>5 DEF Live, SameRun
<1>12. Connected(T, {})
  <2>1. ASSUME NEW q \in Live(st), NEW g \in T.runtimes[q].local \ {0}
        PROVE  T.files[g] = Connection
    <3>1. g \in st.runtimes[q].local
      BY <1>11, <2>1
    <3>2. st.files[g] = Connection /\ g \in Owned(st.runtimes[q])
      BY <2>1, <3>1 DEF Sound, Connected, Owned
    <3>3. g # f
      BY <1>8, <1>11, <2>1, <3>2
    <3> QED
      BY <1>9, <2>1, <3>2, <3>3
  <2>2. ASSUME NEW k \in Live(st), NEW q \in Live(st),
               NEW g \in T.runtimes[k].local \cap T.runtimes[q].local, g # 0
        PROVE  k = q
    <3>1. g \in st.runtimes[k].local /\ g \in st.runtimes[q].local
      BY <1>11, <2>2
    <3> QED
      BY <2>2, <3>1 DEF Sound, Connected
  <2> QED
    BY <1>10, <2>1, <2>2 DEF Connected
<1>13. Accounted(T, {})
  <2>1. \A g : g # f /\ OwnedIn(st, g) => OwnedIn(T, g)
    BY <1>10, <1>11 DEF OwnedIn, Owned, SameRun
  <2>2. /\ \A g \in Fds \ {0} : st.files[g] = Closed \/ OwnedIn(st, g)
        /\ st.files[0] \in {Closed, Stdin} \/ OwnedIn(st, 0)
        /\ Accepting(st.files[0]) =>
              \E q \in Live(st) : /\ st.runtimes[q].input = 0
                                  /\ st.files[0] = Listener("input", st.runtimes[q].pair)
    BY DEF Sound, Accounted
  <2>3. \A g \in Fds \ {0} : T.files[g] = Closed \/ OwnedIn(T, g)
    BY <1>4, <1>5, <2>1, <2>2
  <2>4. T.files[0] \in {Closed, Stdin} \/ OwnedIn(T, 0)
    BY <1>4, <1>5, <2>1, <2>2, Sizes
  <2>5. Accepting(T.files[0]) =>
              \E q \in Live(T) : /\ T.runtimes[q].input = 0
                                 /\ T.files[0] = Listener("input", T.runtimes[q].pair)
    <3>1. CASE f = 0
      BY <1>4, <1>5, <3>1, Kinds
    <3>2. CASE f # 0
      <4>1. T.files[0] = st.files[0]
        BY <1>4, <1>5, <3>2, Sizes
      <4> QED
        BY <1>10, <1>11, <2>2, <4>1 DEF SameRun
    <3> QED
      BY <3>1, <3>2
  <2> QED
    BY <2>3, <2>4, <2>5 DEF Accounted
<1> QED
  BY <1>5, <1>10, <1>12, <1>13 DEF Sound, T

LEMMA FreshSound == Sound(Fresh, {})
<1>1. \A r \in Runs : Fresh.runtimes[r] = Gone
  BY FreshIs
<1>2. Live(Fresh) = {}
  BY <1>1, Nothing DEF Live
<1>3. \A i \in Slots : ~Fresh.registry[i].active /\ Fresh.registry[i].runtime = 0
  BY FreshIs, Nothing
<1>4. Registered(Fresh)
  BY <1>1, <1>2, <1>3 DEF Registered
<1>5. Listening(Fresh) /\ Connected(Fresh, {}) /\ Undisturbed(Fresh)
  BY <1>2 DEF Listening, Connected, Undisturbed
<1>6. Accounted(Fresh, {})
  BY FreshIs, Kinds DEF Accounted
<1> QED
  BY <1>4, <1>5, <1>6 DEF Sound

LEMMA StepSound ==
  RuntimeInv /\ [Next /\ CleanStart]_vars => RuntimeInv'
<1> SUFFICES ASSUME RuntimeInv, [Next /\ CleanStart]_vars PROVE RuntimeInv'
  OBVIOUS
<1>1. Typed /\ OwnLease /\ Sound(st, {}) /\ st \in Server
  BY DEF RuntimeInv, Typed
<1>2. Typed'
  BY <1>1, StepTyped
<1> SUFFICES Sound(st', {}) /\ OwnLease'
  BY <1>2 DEF RuntimeInv
<1>3. ASSUME tls' = tls, st'.registry = st.registry,
             \A e \in Devices : lease'[e] \in {NoPair, lease[e]}
      PROVE  OwnLease'
  BY <1>3, LeaseEnds DEF Fewer
<1>4. ASSUME NEW d \in Devices, ControlNext(d), CleanStart
      PROVE  Sound(st', {}) /\ OwnLease'
  BY <1>4, RegisterKeeps, HeartbeatKeeps, DisconnectKeeps, ReloadKeeps DEF ControlNext
<1>5. ASSUME NEW d \in Devices, ChangeTls(d)
      PROVE  Sound(st', {}) /\ OwnLease'
  <2>1. d \in TlsDevices /\ lease' = lease /\ st' = st /\ tls' = [tls EXCEPT ![d] = ~@]
    BY <1>5 DEF ChangeTls
  <2>2. \A e \in Devices \ TlsDevices : tls'[e] = tls[e]
    BY <1>1, <2>1 DEF Typed
  <2> QED
    BY <1>1, <2>1, <2>2 DEF OwnLease
<1>6. ASSUME NEW d \in Devices, Expire(d)
      PROVE  Sound(st', {}) /\ OwnLease'
  <2>1. lease' = [lease EXCEPT ![d] = NoPair] /\ tls' = tls /\ st' = st
    BY <1>6 DEF Expire
  <2>2. \A e \in Devices : lease'[e] \in {NoPair, lease[e]}
    BY <1>1, <2>1 DEF Typed
  <2> QED
    BY <1>1, <1>3, <2>1, <2>2
<1>7. ASSUME NEW r \in 1..MaxLive, RuntimeNext(r)
      PROVE  Sound(st', {}) /\ OwnLease'
  <2>1. lease' = lease /\ tls' = tls
    BY <1>7 DEF RuntimeNext, ListenerEnds, Accept, ConnectionEnds
  <2>2. r \in Runs
    BY DEF Runs
  <2>3. Sound(st', {}) /\ st'.registry = st.registry
    BY <1>1, <1>7, <2>2, ListenerEndsKeeps, AcceptKeeps, ConnectionEndsKeeps, Zenon
    DEF RuntimeNext
  <2> QED
    BY <1>3, <2>1, <2>3
<1>8. CASE Restart
  <2>1. lease' = lease /\ tls' = tls /\ st' = Fresh
    BY <1>8 DEF Restart
  <2>2. Fewer(st, st')
    BY <2>1, FreshIs, Nothing DEF Fewer
  <2>3. OwnLease'
    BY <2>1, <2>2, LeaseEnds
  <2> QED
    BY <2>1, <2>3, FreshSound
<1>9. CASE UNCHANGED vars
  <2>1. lease' = lease /\ tls' = tls /\ st' = st
    BY <1>9 DEF vars
  <2> QED
    BY <1>1, <1>3, <2>1
<1> QED
  BY <1>4, <1>5, <1>6, <1>7, <1>8, <1>9 DEF Next

LEMMA InitSound == Init => RuntimeInv
<1> SUFFICES ASSUME Init PROVE RuntimeInv
  OBVIOUS
<1>1. Typed /\ st = Fresh
  BY InitTyped DEF Init
<1>2. OwnLease
  BY DEF Init, OwnLease
<1> QED
  BY <1>1, <1>2, FreshSound DEF RuntimeInv

-----------------------------------------------------------------------------
(* What the invariant gives *)

\* Descriptor 0 is the public port's listener of one runtime at most.
OneOnZero ==
    \A r, q \in Live(st) : st.runtimes[r].input = 0 /\ st.runtimes[q].input = 0 => r = q

\* If descriptor 0 is a listener of one runtime only, it is nobody else's.
LEMMA SoundListens ==
  ASSUME OneOnZero, RuntimeInv
  PROVE  ListensOnItsOwn
<1>1. st \in Server /\ Sound(st, {})
  BY DEF RuntimeInv, Typed
<1> SUFFICES ASSUME NEW r \in Runs
             PROVE  LET run == st.runtimes[r]
                    IN  /\ run.inputRunning /\ Accepting(st.files[run.input])
                               => st.files[run.input] = Listener("input", run.pair)
                        /\ run.outputRunning /\ Accepting(st.files[run.output])
                               => st.files[run.output] = Listener("output", run.pair)
  BY DEF ListensOnItsOwn, Runs
<1> DEFINE run == st.runtimes[r]
<1>2. ASSUME run.outputRunning
      PROVE  st.files[run.output] = Listener("output", run.pair)
  <2>1. r \in Live(st)
    BY <1>1, <1>2, LiveRun
  <2> QED
    BY <1>1, <2>1 DEF Sound, Listening, Listens
<1>3. ASSUME run.inputRunning, Accepting(st.files[run.input])
      PROVE  st.files[run.input] = Listener("input", run.pair)
  <2>1. r \in Live(st)
    BY <1>1, <1>3, LiveRun
  <2>2. Listens(st.files, run)
    BY <1>1, <2>1 DEF Sound, Listening
  <2>3. CASE run.input # 0
    BY <2>2, <2>3 DEF Listens
  <2>4. CASE run.input = 0
    <3>1. PICK q \in Live(st) : /\ st.runtimes[q].input = 0
                                /\ st.files[0] = Listener("input", st.runtimes[q].pair)
      BY <1>1, <1>3, <2>4 DEF Sound, Accounted
    <3>2. q = r
      BY <2>1, <2>4, <3>1 DEF OneOnZero
    <3> QED
      BY <2>4, <3>1, <3>2
  <2> QED
    BY <2>3, <2>4
<1> QED
  BY <1>2, <1>3

LEMMA SoundOwned ==
  ASSUME RuntimeInv
  PROVE  DescriptorsOwned
<1>1. st \in Server /\ Sound(st, {})
  BY DEF RuntimeInv, Typed
<1> SUFFICES ASSUME NEW f \in Fds, st.files[f] \notin {Closed, Stdin}
             PROVE  \E i \in Slots : /\ st.registry[i].active
                                     /\ f \in Owned(st.runtimes[st.registry[i].runtime])
  BY DEF DescriptorsOwned
<1>2. OwnedIn(st, f)
  BY <1>1 DEF Sound, Accounted
<1>3. PICK r \in Live(st) : f \in Owned(st.runtimes[r])
  BY <1>2 DEF OwnedIn
<1>4. PICK i \in Slots : st.registry[i].active /\ st.registry[i].runtime = r
  BY <1>1 DEF Sound, Registered
<1> QED
  BY <1>3, <1>4

\* With room for all and a fixed port for each, an entry is free for a device
\* whose pair has none: every active entry is of another device.
LEMMA RegistryRoom ==
  ASSUME Separate, NEW S \in Server, Registered(S), NEW d \in Devices
  PROVE  RoomFor(S, Fixed[d])
<1> SUFFICES ASSUME \A i \in Slots : S.registry[i].active /\ S.registry[i].pair # Fixed[d]
             PROVE  FALSE
  BY DEF RoomFor
<1> DEFINE T == Devices \ {d}
           g == [i \in Slots |-> S.registry[i].device]
<1>1. IsFiniteSet(Devices) /\ Cardinality(Devices) <= MaxRuntimes /\ MaxRuntimes \in Nat
  BY Sizes DEF Separate
<1>2. Cardinality(Devices) \in Nat
  BY <1>1, FS_CardinalityType
<1>3. IsFiniteSet(T) /\ Cardinality(T) = Cardinality(Devices) - 1
  BY <1>1, FS_RemoveElement
<1>4. IsFiniteSet(Slots) /\ Cardinality(Slots) = MaxRuntimes
  <2>1. 1 \in Int /\ MaxRuntimes \in Int /\ MaxRuntimes > 0
    BY RuntimeAssumption
  <2>2. /\ IsFiniteSet(1..MaxRuntimes)
        /\ Cardinality(1..MaxRuntimes) = IF 1 > MaxRuntimes THEN 0 ELSE MaxRuntimes - 1 + 1
    BY <2>1, FS_Interval
  <2> QED
    BY <2>1, <2>2 DEF Slots
<1>5. g \in [Slots -> T]
  <2>1. \A i \in Slots : S.registry[i] \in Entry
    BY DEF Server
  <2>2. \A i \in Slots : S.registry[i].device \in Devices
    BY <2>1 DEF Entry
  <2>3. \A i \in Slots : S.registry[i].device # d
    BY DEF Registered
  <2> QED
    BY <2>2, <2>3
<1>6. Cardinality(T) < Cardinality(Slots)
  BY <1>1, <1>2, <1>3, <1>4
<1>7. \A i, j \in Slots : g[i] = g[j] => i = j
  BY DEF Registered
<1> HIDE DEF T, g
<1>8. \E i, j \in Slots : i # j /\ g[i] = g[j]
  BY <1>3, <1>4, <1>5, <1>6, FS_PigeonHole
<1> QED
  BY <1>7, <1>8

\* Fixed ports keep the devices apart.
LEMMA SeparateClean ==
  ASSUME Separate, RuntimeInv
  PROVE  CleanStart
<1>1. st \in Server /\ Registered(st)
  BY DEF RuntimeInv, Typed, Sound
<1>2. ASSUME NEW d \in Devices
      PROVE  OwnPair(st, d, Fixed[d]) /\ RoomFor(st, Fixed[d])
  <2>1. \A i \in Slots : st.registry[i] \in Entry
    BY <1>1 DEF Server
  <2>2. \A i \in Slots : st.registry[i].device \in Devices
    BY <2>1 DEF Entry
  <2>3. OwnPair(st, d, Fixed[d])
    BY <1>1, <2>2 DEF OwnPair, Registered, Separate
  <2> QED
    BY <1>1, <2>3, RegistryRoom
<1>3. ASSUME NEW d \in Devices, Register(d)
      PROVE  PairFor(d) = Fixed[d]
  <2>1. PairFor(d) # NoPair
    BY <1>3, Zenon DEF Register
  <2>2. Fixed[d] # NoPair
    BY RuntimeAssumption DEF Separate
  <2> QED
    BY <2>1, <2>2, PairForIs
<1>4. ASSUME NEW d \in Devices, Heartbeat(d) \/ (ReloadTls(d) /\ lease[d] # NoPair)
      PROVE  lease[d] = Fixed[d]
  <2>1. lease[d] # NoPair
    BY <1>4 DEF Heartbeat
  <2> QED
    BY <2>1 DEF RuntimeInv, OwnLease
<1> QED
  BY <1>2, <1>3, <1>4 DEF CleanStart

\* Only devices whose settings change lose the listener on descriptor 0, and
\* with fixed ports each has one runtime.
LEMMA SeparateZero ==
  ASSUME Separate, OneTls, RuntimeInv
  PROVE  OneOnZero
<1>1. st \in Server /\ Sound(st, {}) /\ Registered(st)
  BY DEF RuntimeInv, Typed, Sound
<1> SUFFICES ASSUME NEW r \in Live(st), NEW q \in Live(st),
                    st.runtimes[r].input = 0, st.runtimes[q].input = 0
             PROVE  r = q
  BY DEF OneOnZero
<1>2. st.runtimes[r].device \in TlsDevices /\ st.runtimes[q].device \in TlsDevices
  BY <1>1 DEF Sound, Listening, Listens
<1>3. st.runtimes[r].device = st.runtimes[q].device
  BY <1>2 DEF OneTls
<1>4. \A k \in Live(st) : st.runtimes[k].pair = Fixed[st.runtimes[k].device]
  BY <1>1 DEF Registered
<1>5. st.runtimes[r].pair = st.runtimes[q].pair
  BY <1>3, <1>4
<1> QED
  BY <1>1, <1>5, OneRun

-----------------------------------------------------------------------------
(* The theorems *)

\* Whatever ports are fixed and whichever settings change, a listener thread
\* accepts on other ports than its runtime's own only through descriptor 0, if
\* that was given to two runtimes for their public port, although every stop
\* closes descriptor 0 and the end of a connection closes a descriptor that may
\* have been given away since.
THEOREM ListensToItsDevice ==
  Spec /\ CleanStarts /\ []OneOnZero => []ListensOnItsOwn
<1>1. RuntimeInv /\ OneOnZero => ListensOnItsOwn
  BY SoundListens
<1>2. [Next]_vars /\ [CleanStart]_vars => [Next /\ CleanStart]_vars
  OBVIOUS
<1> QED
  BY <1>1, <1>2, InitSound, StepSound, PTL DEF Spec, CleanStarts

\* Whatever ports are fixed and whichever settings change, no start that fails
\* and no stop leaves an open descriptor behind that no registry entry leads
\* to: that takes a registration on another device's ports or a full registry.
THEOREM NoDescriptorLost ==
  Spec /\ CleanStarts => []DescriptorsOwned
<1>1. RuntimeInv => DescriptorsOwned
  BY SoundOwned
<1>2. [Next]_vars /\ [CleanStart]_vars => [Next /\ CleanStart]_vars
  OBVIOUS
<1> QED
  BY <1>1, <1>2, InitSound, StepSound, PTL DEF Spec, CleanStarts

\* Whatever ports are fixed, terminate_device_by_device_id leaves nothing
\* listening on the device's ports, unless they came from another device whose
\* runtime was left on them or the registry was full.
THEOREM DisconnectClosesPorts ==
  Spec /\ CleanStarts => DisconnectCloses
<1>1. ASSUME RuntimeInv, NEW d \in Devices, Disconnect(d), lease[d] # NoPair
      PROVE  \A f \in Fds : st'.files[f].pair # lease[d]
  <2> DEFINE T == st'
             p == lease[d]
  <2>1. p \in Pairs
    BY <1>1, LeaseIs
  <2>2. T \in Server /\ Sound(T, {}) /\ ~HasEntry(T, p)
    BY <1>1, DisconnectKeeps
  <2> HIDE DEF T, p
  <2>3. \A f \in Fds : T.files[f].pair # p
    BY <2>1, <2>2, PortsFree
  <2> QED
    BY <2>3 DEF T, p
<1>2. RuntimeInv /\ [Next]_vars =>
        [\A d \in Devices : Disconnect(d) /\ lease[d] # NoPair =>
            \A f \in Fds : st'.files[f].pair # lease[d]]_vars
  BY <1>1
<1>3. [Next]_vars /\ [CleanStart]_vars => [Next /\ CleanStart]_vars
  OBVIOUS
<1> QED
  BY <1>2, <1>3, InitSound, StepSound, PTL DEF Spec, DisconnectCloses, CleanStarts

\* With a fixed port for every device and room for all of them in the registry
\* no registration meets another device's runtime, and no runtime is left out
\* of the registry, whatever expires, fails or is restarted.
THEOREM FixedPortsSuffice ==
  ASSUME Separate
  PROVE  Spec => CleanStarts
<1>1. RuntimeInv /\ [Next]_vars => RuntimeInv' /\ [CleanStart]_vars
  BY StepSound, SeparateClean
<1> QED
  BY <1>1, InitSound, PTL DEF Spec, CleanStarts

\* If moreover at most one device has its TLS settings changed, descriptor 0
\* is never the public port of two.
THEOREM FixedPortsListen ==
  ASSUME Separate, OneTls
  PROVE  Spec => []ListensOnItsOwn
<1>1. RuntimeInv => OneOnZero
  BY SeparateZero
<1>2. RuntimeInv /\ [Next]_vars => RuntimeInv'
  BY StepSound, SeparateClean
<1>3. RuntimeInv => ListensOnItsOwn
  BY <1>1, SoundListens
<1> QED
  BY <1>2, <1>3, InitSound, PTL DEF Spec
=============================================================================
