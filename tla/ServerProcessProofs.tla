------------------------- MODULE ServerProcessProofs -------------------------
(***************************************************************************)
(* The order in which the server process starts and stops protects what    *)
(* the control thread uses, and every pair of sockets gets one runtime     *)
(* although main and the control thread both go through the array, for any *)
(* number of servers and sockets.                                          *)
(***************************************************************************)
EXTENDS ServerProcess, FiniteSetTheorems, SequenceTheorems, TLAPS

-----------------------------------------------------------------------------
(* What the control thread uses *)

\* The control thread exists only between device_manager_start and the join,
\* and all that time the tables do.
ControlInv ==
    /\ main \in {"init", "listen"} => control = "off"
    /\ main = "listen" => tables
    /\ control \notin {"off", "ended"} => tables

\* Steps of main keep it.
LEMMA MainKeeps ==
    ASSUME ControlInv, Main \/ Stop
    PROVE  ControlInv'
  <1>1. ASSUME NEW ok \in BOOLEAN, ManagerInit(ok) PROVE ControlInv'
    BY <1>1 DEF ControlInv, ManagerInit
  <1>2. ASSUME NEW ok \in BOOLEAN, ManagerStart(ok) PROVE ControlInv'
    BY <1>2 DEF ControlInv, ManagerStart
  <1>3. CASE StartNext
    BY <1>3 DEF ControlInv, StartNext
  <1>4. CASE StartDone
    BY <1>4 DEF ControlInv, StartDone
  <1>5. CASE Stop
    BY <1>5 DEF ControlInv, Stop
  <1>6. CASE Joined
    BY <1>6 DEF ControlInv, Joined
  <1>7. CASE Exit
    BY <1>7 DEF ControlInv, Exit
  <1> QED
    BY <1>1, <1>2, <1>3, <1>4, <1>5, <1>6, <1>7 DEF Main

\* Steps of the control thread keep it: the thread moves only once it runs.
LEMMA ControlKeeps ==
    ASSUME ControlInv, Control
    PROVE  ControlInv'
  <1>1. ASSUME NEW from \in {"check", "accept", "serve", "append", "enable", "open"},
               NEW to, ControlStep(from, to)
        PROVE  ControlInv'
    BY <1>1 DEF ControlInv, ControlStep
  <1> QED
    BY <1>1 DEF Control, Check, Accept, Served, AppendServer, EnableServer,
                OpenServer, OpenFails, StartServer, StopServer

\* A request is never served when the TLS context and the table of limits are
\* gone, however the signal to stop falls into the control thread's work.
THEOREM RequestsHaveTables == Spec => []TablesOutliveRequests
  <1>1. Init => ControlInv
    BY DEF Init, ControlInv
  <1>2. ControlInv /\ [Next]_vars => ControlInv'
    <2> SUFFICES ASSUME ControlInv, [Next]_vars PROVE ControlInv'
      OBVIOUS
    <2>1. CASE Main \/ Stop
      BY <2>1, MainKeeps
    <2>2. CASE Control
      BY <2>2, ControlKeeps
    <2>3. CASE UNCHANGED vars
      BY <2>3 DEF vars, ControlInv
    <2> QED
      BY <2>1, <2>2, <2>3 DEF Next
  <1>3. ControlInv => TablesOutliveRequests
    BY DEF ControlInv, TablesOutliveRequests
  <1> QED
    BY <1>1, <1>2, <1>3, PTL DEF Spec

-----------------------------------------------------------------------------
(* Every pair of sockets has one runtime *)

Row == [enable : BOOLEAN, listens : SUBSET Ends, socket : Nat]

\* main has not gone through the whole array yet.
Before == main \in {"init", "listen", "start"}

\* The element the control thread works on.
Last == Len(servers)

\* Nothing has a socket that was not opened, and the element that the control
\* thread has appended has none until it opens it.
Shape ==
    /\ servers \in Seq(Row)
    /\ next \in Nat \ {0}
    /\ opened \in Nat
    /\ runtimes \subseteq [socket : Nat, server : Nat, by : {"main", "control"}]
    /\ \A i \in 1..Last : servers[i].socket <= opened
    /\ \A r \in runtimes : r.socket <= opened
    /\ control \in {"append", "enable", "open"} => Last # 0
    /\ control \in {"append", "enable"} => servers[Last].socket = NoSocket

\* A pair of sockets belongs to one element, and its runtimes know which.
Owned ==
    /\ \A i, j \in 1..Last :
          servers[i].socket # NoSocket /\ servers[i].socket = servers[j].socket
              => i = j
    /\ \A r \in runtimes : r.socket # NoSocket =>
          r.server \in 1..Last /\ servers[r.server].socket = r.socket

\* main starts no runtime for what the control thread opens after main has
\* gone through the array.
Apart ==
    /\ \A r \in runtimes : r.by = "control" /\ r.socket \notin early =>
          /\ ~Before
          /\ \A q \in runtimes : q.socket = r.socket => q.by = "control"
    /\ control = "open" /\ servers[Last].socket \notin early =>
          /\ ~Before
          /\ \A q \in runtimes : q.socket # servers[Last].socket

\* Pairs that the control thread has closed were open, and unless they were
\* opened early, main has done and nothing listens on them again.
Shut ==
    /\ closed \subseteq Nat
    /\ \A c \in closed : c <= opened
    /\ Before => closed \subseteq early
    /\ \A r \in runtimes : r.socket \in closed \ {NoSocket} => r.socket \in early
    /\ control = "open" => servers[Last].socket \notin closed \ early

\* The element listens, and it is neither one of those opened too early or
\* closed again nor the one that is being started.
Ready(i) ==
    /\ servers[i].enable /\ servers[i].listens # {}
    /\ servers[i].socket \notin early \cup closed \cup {NoSocket}
    /\ ~(i = Last /\ control = "open")

\* Every such element main has passed has a runtime.
Started ==
    \A i \in 1..Last : Ready(i) /\ (i < next \/ ~Before) =>
        \E r \in runtimes : r.socket = servers[i].socket

ArrayInv == Shape /\ Owned /\ Apart /\ Shut /\ Started

LEMMA Typed ==
  ASSUME Shape
  PROVE  /\ Last \in Nat /\ opened \in Nat /\ next \in Nat
         /\ \A i \in 1..Last : servers[i] \in Row /\ servers[i].socket \in Nat
         /\ \A r \in runtimes : r.socket \in Nat /\ r.server \in Nat
         /\ Last # 0 => Last \in 1..Last
<1>1. servers \in Seq(Row) /\ Last \in Nat
  BY DEF Shape, Last
<1>2. \A i \in 1..Last : servers[i] \in Row
  BY <1>1 DEF Last
<1>3. \A i \in 1..Last : servers[i].socket \in Nat
  BY <1>2 DEF Row
<1>4. \A r \in runtimes : r.socket \in Nat /\ r.server \in Nat
  BY DEF Shape
<1>5. Last # 0 => Last \in 1..Last
  BY <1>1
<1> QED
  BY <1>1, <1>2, <1>3, <1>4, <1>5 DEF Shape

LEMMA RowTyped ==
  ASSUME NEW e \in BOOLEAN, NEW l \in SUBSET Ends, NEW c \in Nat, NEW row,
         row = [enable |-> e, listens |-> l, socket |-> c]
  PROVE  /\ row \in Row
         /\ row.enable = e /\ row.listens = l /\ row.socket = c
  BY DEF Row

\* servers_init numbers the sockets it opens.
LEMMA ConfiguredShape ==
  ASSUME NEW n \in Nat, NEW on \in SUBSET (1..n),
         NEW in \in SUBSET (1..n), NEW out \in SUBSET (1..n),
         servers = Configured(n, on, in, out),
         opened = Cardinality({i \in DOMAIN servers : servers[i].listens # {}})
  PROVE  /\ servers \in Seq(Row) /\ opened \in Nat
         /\ \A i \in 1..Last : servers[i].socket <= opened
         /\ \A i, j \in 1..Last :
               servers[i].socket # NoSocket
               /\ servers[i].socket = servers[j].socket => i = j
<1> DEFINE both == on \cap (in \cup out)
           hears(i) == (IF i \in in THEN {"input"} ELSE {})
                       \cup (IF i \in out THEN {"output"} ELSE {})
           upto(i) == {j \in both : j <= i}
<1>1. IsFiniteSet(1..n)
  BY FS_Interval
<1>2. IsFiniteSet(both) /\ Cardinality(both) \in Nat
  BY <1>1, FS_Subset, FS_CardinalityType
<1>3. \A i \in 1..n : /\ IsFiniteSet(upto(i)) /\ Cardinality(upto(i)) \in Nat
                      /\ Cardinality(upto(i)) <= Cardinality(both)
  <2> TAKE i \in 1..n
  <2>1. upto(i) \subseteq both
    OBVIOUS
  <2> HIDE DEF upto
  <2> QED
    BY <1>2, <2>1, FS_Subset, FS_CardinalityType
<1>4. /\ servers = [i \in 1..n |-> servers[i]]
      /\ \A i \in 1..n :
            /\ i \in both => servers[i] = [enable |-> TRUE, listens |-> hears(i),
                                           socket |-> Cardinality(upto(i))]
            /\ i \in on \ both => servers[i] = [enable |-> TRUE, listens |-> hears(i),
                                                socket |-> NoSocket]
            /\ i \notin on => servers[i] = Blank
  BY DEF Configured
<1>h. \A i \in 1..n : /\ hears(i) \in SUBSET Ends
                      /\ i \in on => (hears(i) # {} <=> i \in both)
  BY DEF Ends
<1> HIDE DEF upto, hears
<1>5. /\ \A i \in 1..n : servers[i] \in Row
      /\ \A i \in 1..n : servers[i].listens # {} <=> i \in both
      /\ \A i \in 1..n : servers[i].socket =
            IF i \in both THEN Cardinality(upto(i)) ELSE NoSocket
  <2> SUFFICES ASSUME NEW i \in 1..n
               PROVE  /\ servers[i] \in Row
                      /\ servers[i].listens # {} <=> i \in both
                      /\ servers[i].socket =
                            IF i \in both THEN Cardinality(upto(i)) ELSE NoSocket
    OBVIOUS
  <2>1. PICK e \in BOOLEAN, l \in SUBSET Ends, c \in Nat :
           /\ servers[i] = [enable |-> e, listens |-> l, socket |-> c]
           /\ l # {} <=> i \in both
           /\ c = IF i \in both THEN Cardinality(upto(i)) ELSE NoSocket
    <3>1. CASE i \in both
      <4>1. PICK c \in Nat : c = Cardinality(upto(i))
        BY <1>3
      <4>2. PICK l \in SUBSET Ends : l = hears(i) /\ l # {}
        BY <1>h, <3>1
      <4>3. servers[i] = [enable |-> TRUE, listens |-> l, socket |-> c]
        BY <1>4, <3>1, <4>1, <4>2
      <4> HIDE DEF both
      <4> QED
        BY <3>1, <4>1, <4>2, <4>3
    <3>2. CASE i \in on \ both
      <4>1. PICK l \in SUBSET Ends : l = hears(i) /\ l = {}
        BY <1>h, <3>2
      <4>2. servers[i] = [enable |-> TRUE, listens |-> l, socket |-> 0]
        BY <1>4, <3>2, <4>1 DEF NoSocket
      <4>3. i \notin both
        BY <3>2
      <4> HIDE DEF both
      <4> QED
        BY <4>1, <4>2, <4>3 DEF NoSocket
    <3>3. CASE i \notin on
      <4>1. servers[i] = [enable |-> FALSE, listens |-> {}, socket |-> 0]
        BY <1>4, <3>3 DEF Blank, NoSocket
      <4>2. {} \in SUBSET Ends /\ i \notin both
        BY <3>3
      <4> HIDE DEF both
      <4> QED
        BY <4>1, <4>2 DEF NoSocket
    <3> QED
      BY <3>1, <3>2, <3>3
  <2>2. /\ servers[i] \in Row /\ servers[i].listens = l
        /\ servers[i].socket = c
    BY <2>1, RowTyped
  <2> HIDE DEF both
  <2> QED
    BY <2>1, <2>2
<1>6. servers \in Seq(Row) /\ Last = n /\ DOMAIN servers = 1..n
  BY <1>4, <1>5 DEF Last
<1>7. opened = Cardinality(both)
  <2>1. {i \in DOMAIN servers : servers[i].listens # {}} = both
    BY <1>5, <1>6
  <2> QED
    BY <2>1
<1>8. \A i \in 1..n : servers[i].socket <= opened
  <2> SUFFICES ASSUME NEW i \in 1..n PROVE servers[i].socket <= opened
    OBVIOUS
  <2>1. CASE i \in both
    BY <1>3, <1>5, <1>7, <2>1
  <2>2. CASE i \notin both
    <3>1. servers[i].socket = 0
      BY <1>5, <2>2 DEF NoSocket
    <3> QED
      BY <1>2, <1>7, <3>1
  <2> QED
    BY <2>1, <2>2
<1>9. ASSUME NEW i \in both, NEW j \in both, i < j
      PROVE  Cardinality(upto(i)) # Cardinality(upto(j))
  <2>0. i \in Nat /\ j \in Nat /\ both \subseteq Nat
    OBVIOUS
  <2>1. upto(i) \subseteq upto(j) /\ j \in upto(j) /\ j \notin upto(i)
    <3> HIDE DEF both
    <3>1. \A x \in both : x <= i => x <= j
      BY <1>9, <2>0
    <3>2. j <= j /\ ~(j <= i)
      BY <1>9, <2>0
    <3> QED
      BY <3>1, <3>2 DEF upto
  <2>2. IsFiniteSet(upto(j))
    BY <1>3
  <2> QED
    BY <2>1, <2>2, FS_Subset
<1>10. ASSUME NEW i \in 1..n, NEW j \in 1..n, servers[i].socket # NoSocket,
              servers[i].socket = servers[j].socket
       PROVE  i = j
  <2>0. /\ servers[i].socket = IF i \in both THEN Cardinality(upto(i))
                              ELSE NoSocket
        /\ servers[j].socket = IF j \in both THEN Cardinality(upto(j))
                              ELSE NoSocket
    BY <1>5
  <2>1. i \in both /\ j \in both /\ i \in Nat /\ j \in Nat
    <3> HIDE DEF both
    <3>1. i \in both
      BY <1>10, <2>0
    <3>2. j \in both
      BY <1>10, <2>0
    <3> QED
      BY <3>1, <3>2
  <2>2. Cardinality(upto(i)) = Cardinality(upto(j))
    BY <1>5, <1>10, <2>1
  <2>3. i < j \/ j < i \/ i = j
    BY <2>1
  <2> QED
    BY <1>9, <2>1, <2>2, <2>3
<1> HIDE DEF both
<1> QED
  BY <1>2, <1>6, <1>7, <1>8, <1>10

LEMMA ArrayStart == Init => ArrayInv
<1> SUFFICES ASSUME Init PROVE ArrayInv
  OBVIOUS
<1>1. \E n \in Nat : \E on, in, out \in SUBSET (1..n) :
         servers = Configured(n, on, in, out)
  <2>1. CASE mode = "nodb"
    <3>1. PICK in, out \in SUBSET {1} : servers = FromCommandLine(in, out)
      BY <2>1 DEF Init
    <3>2. 1 \in Nat /\ 1..1 = {1} /\ {1} \in SUBSET (1..1)
      OBVIOUS
    <3> QED
      BY <3>1, <3>2 DEF FromCommandLine
  <2>2. CASE mode # "nodb"
    <3>1. 0..MaxFixed \subseteq Nat
      BY ProcessAssumption
    <3> QED
      BY <2>2, <3>1 DEF Init
  <2> QED
    BY <2>1, <2>2
<1>2. PICK n \in Nat : \E on, in, out \in SUBSET (1..n) :
         servers = Configured(n, on, in, out)
  BY <1>1
<1>3. opened = Cardinality({i \in DOMAIN servers : servers[i].listens # {}})
  BY DEF Init
<1>4. /\ servers \in Seq(Row) /\ opened \in Nat
      /\ \A i \in 1..Last : servers[i].socket <= opened
      /\ \A i, j \in 1..Last :
            servers[i].socket # NoSocket
            /\ servers[i].socket = servers[j].socket => i = j
  BY <1>2, <1>3, ConfiguredShape
<1>5. /\ next = 1 /\ early = {} /\ closed = {} /\ runtimes = {}
      /\ control = "off" /\ Before
  BY DEF Init, Before
<1>6. Last \in Nat
  BY <1>4 DEF Last
<1> QED
  BY <1>4, <1>5, <1>6 DEF ArrayInv, Shape, Owned, Apart, Shut, Started

\* Steps that change neither the array nor the runtimes.
LEMMA QuietKeeps ==
  ASSUME ArrayInv, UNCHANGED <<servers, opened, early, closed, runtimes, next>>,
         \/ control' = control
         \/ /\ control \notin {"append", "enable", "open"}
            /\ control' \notin {"append", "enable", "open"},
         Before' => Before, Before => Before' \/ next > Last
  PROVE  ArrayInv'
<1>1. Last' = Last /\ Last \in Nat /\ next \in Nat
  BY Typed DEF Last, ArrayInv
<1>2. Shape'
  BY <1>1 DEF ArrayInv, Shape
<1>3. Owned'
  BY <1>1 DEF ArrayInv, Owned
<1>4. Apart'
  BY <1>1 DEF ArrayInv, Apart
<1>5. Started'
  <2> SUFFICES ASSUME NEW i \in 1..Last, Ready(i)', i < next \/ ~Before'
               PROVE  \E r \in runtimes : r.socket = servers[i].socket
    BY <1>1 DEF Started
  <2>1. Ready(i)
    BY <1>1 DEF Ready
  <2>2. i < next \/ ~Before
    BY <1>1
  <2> QED
    BY <2>1, <2>2 DEF ArrayInv, Started
<1>6. Shut'
  BY <1>1 DEF ArrayInv, Shut
<1> QED
  BY <1>2, <1>3, <1>4, <1>5, <1>6 DEF ArrayInv

\* switcher_servers_start, for one element.
LEMMA StartNextKeeps ==
  ASSUME ArrayInv, StartNext
  PROVE  ArrayInv'
<1> DEFINE s == servers[next]
           new == [socket |-> s.socket, server |-> next, by |-> "main"]
<1>0. /\ Before /\ Before' /\ next' = next + 1
      /\ runtimes' = IF s.enable /\ s.listens # {} THEN runtimes \cup {new}
                     ELSE runtimes
      /\ UNCHANGED <<servers, opened, early, closed, control>>
      /\ Last' = Last
  BY DEF StartNext, Before, Last
<1>1. /\ Last \in Nat /\ next \in Nat /\ opened \in Nat
      /\ servers \in Seq(Row)
  BY Typed DEF ArrayInv, Shape
<1>2. next <= Last
  BY DEF StartNext, More, Last
<1>3. next \in 1..Last
  BY <1>1, <1>2 DEF ArrayInv, Shape
<1>4. s.socket \in Nat /\ s.socket <= opened
  BY <1>3, Typed DEF ArrayInv, Shape
<1>5. /\ new.socket = s.socket /\ new.server = next /\ new.by = "main"
      /\ new \in [socket : Nat, server : Nat, by : {"main", "control"}]
  BY <1>1, <1>4
<1> HIDE DEF new
<1>6. \A r \in runtimes' : r \in runtimes \/ r = new
  BY <1>0
<1>7. runtimes \subseteq runtimes'
  BY <1>0
<1>8. Shape'
  <2>1. next + 1 \in Nat \ {0}
    BY <1>1
  <2>2. /\ runtimes' \subseteq [socket : Nat, server : Nat,
                                by : {"main", "control"}]
        /\ \A r \in runtimes' : r.socket <= opened
    BY <1>4, <1>5, <1>6 DEF ArrayInv, Shape
  <2> QED
    BY <1>0, <2>1, <2>2 DEF ArrayInv, Shape
<1>9. Owned'
  BY <1>0, <1>3, <1>5, <1>6 DEF ArrayInv, Owned
<1>10. Apart'
  <2>1. \A r \in runtimes : r.by = "control" => r.socket \in early
    BY <1>0 DEF ArrayInv, Apart
  <2>2. control = "open" => servers[Last].socket \in early
    BY <1>0 DEF ArrayInv, Apart
  <2> QED
    BY <1>0, <1>5, <1>6, <2>1, <2>2 DEF Apart
<1>11. Started'
  <2> SUFFICES ASSUME NEW i \in 1..Last, Ready(i)', i < next + 1
               PROVE  \E r \in runtimes' : r.socket = servers[i].socket
    BY <1>0 DEF Started
  <2>1. Ready(i)
    BY <1>0 DEF Ready
  <2>2. CASE i = next
    <3>1. new \in runtimes'
      BY <1>0, <2>1, <2>2 DEF Ready
    <3> QED
      BY <1>5, <2>2, <3>1
  <2>3. CASE i # next
    <3>1. i < next
      BY <1>1, <2>3
    <3> QED
      BY <1>7, <2>1, <3>1 DEF ArrayInv, Started
  <2> QED
    BY <2>2, <2>3
<1>12. Shut'
  BY <1>0, <1>5, <1>6 DEF ArrayInv, Shut
<1> QED
  BY <1>8, <1>9, <1>10, <1>11, <1>12 DEF ArrayInv

\* The last element changes, and the others stay.
LEMMA ChangeLast ==
  ASSUME Shape, Last # 0, NEW row \in Row,
         servers' = [servers EXCEPT ![Len(servers)] = row]
  PROVE  /\ servers' \in Seq(Row) /\ Last' = Last /\ Last \in 1..Last
         /\ servers'[Last] = row
         /\ \A k \in 1..Last : k # Last => servers'[k] = servers[k]
<1>1. servers \in Seq(Row) /\ Len(servers) \in 1..Len(servers)
  BY Typed DEF Shape, Last
<1> QED
  BY <1>1, ExceptSeq DEF Last

LEMMA AppendKeeps ==
  ASSUME ArrayInv, AppendServer
  PROVE  ArrayInv'
<1>0. /\ control = "serve" /\ control' = "append"
      /\ servers' = Append(servers, Blank)
      /\ UNCHANGED <<opened, early, closed, runtimes, next>>
      /\ (Before' <=> Before)
  BY DEF AppendServer, ControlStep, Before
<1>1. /\ Last \in Nat /\ next \in Nat /\ opened \in Nat
      /\ servers \in Seq(Row)
  BY Typed DEF ArrayInv, Shape
<1>2. /\ Blank \in Row /\ Blank.enable = FALSE /\ Blank.socket = NoSocket
      /\ NoSocket = 0
  BY DEF Blank, Row, NoSocket
<1>3. /\ servers' \in Seq(Row) /\ Last' = Last + 1
      /\ \A k \in 1..Last : servers'[k] = servers[k]
      /\ servers'[Last + 1] = Blank
      /\ \A k \in 1..Last' : k \in 1..Last \/ k = Last + 1
      /\ \A k \in 1..Last : k \in 1..Last' /\ k # Last + 1
  BY <1>0, <1>1, <1>2 DEF Last
<1>4. Shape'
  <2>1. \A i \in 1..Last' : servers'[i].socket <= opened
    <3> SUFFICES ASSUME NEW i \in 1..Last'
                 PROVE  servers'[i].socket <= opened
      OBVIOUS
    <3>1. CASE i \in 1..Last
      BY <1>3, <3>1 DEF ArrayInv, Shape
    <3>2. CASE i = Last + 1
      BY <1>1, <1>2, <1>3, <3>2
    <3> QED
      BY <1>3, <3>1, <3>2
  <2>2. Last' # 0 /\ servers'[Last'].socket = NoSocket
    BY <1>1, <1>2, <1>3
  <2> QED
    BY <1>0, <1>3, <2>1, <2>2 DEF ArrayInv, Shape
<1>5. Owned'
  <2>1. ASSUME NEW i \in 1..Last', NEW j \in 1..Last',
               servers'[i].socket # NoSocket,
               servers'[i].socket = servers'[j].socket
        PROVE  i = j
    <3>1. i \in 1..Last /\ j \in 1..Last
      BY <1>2, <1>3, <2>1
    <3> QED
      BY <1>3, <2>1, <3>1 DEF ArrayInv, Owned
  <2>2. ASSUME NEW r \in runtimes, r.socket # NoSocket
        PROVE  r.server \in 1..Last' /\ servers'[r.server].socket = r.socket
    <3>1. r.server \in 1..Last /\ servers[r.server].socket = r.socket
      BY <2>2 DEF ArrayInv, Owned
    <3> QED
      BY <1>3, <3>1
  <2> QED
    BY <1>0, <2>1, <2>2 DEF Owned
<1>6. Apart'
  BY <1>0 DEF ArrayInv, Apart
<1>7. Started'
  <2> SUFFICES ASSUME NEW i \in 1..Last', Ready(i)', i < next \/ ~Before
               PROVE  \E r \in runtimes : r.socket = servers'[i].socket
    BY <1>0 DEF Started
  <2>1. i \in 1..Last /\ servers'[i] = servers[i]
    BY <1>2, <1>3 DEF Ready
  <2>2. Ready(i)
    BY <1>0, <2>1 DEF Ready
  <2> QED
    BY <2>1, <2>2 DEF ArrayInv, Started
<1>8. Shut'
  BY <1>0 DEF ArrayInv, Shut
<1> QED
  BY <1>4, <1>5, <1>6, <1>7, <1>8 DEF ArrayInv

LEMMA EnableKeeps ==
  ASSUME ArrayInv, EnableServer
  PROVE  ArrayInv'
<1> DEFINE n == Len(servers)
           first == [servers[n] EXCEPT !.enable = TRUE]
           row == [first EXCEPT !.listens = Ends]
           half == [servers EXCEPT ![n] = first]
<1>0. /\ control = "append" /\ control' = "enable"
      /\ UNCHANGED <<opened, early, closed, runtimes, next>>
      /\ (Before' <=> Before)
      /\ servers' = [servers EXCEPT ![n].enable = TRUE, ![n].listens = Ends]
  BY DEF EnableServer, ControlStep, Before
<1>1. /\ Last \in Nat /\ opened \in Nat /\ servers \in Seq(Row)
      /\ Last # 0 /\ servers[n].socket = NoSocket /\ n \in 1..n
      /\ n = Last /\ servers[n] \in Row
  BY <1>0, Typed DEF ArrayInv, Shape, Last
<1>2. first \in Row /\ first.socket = servers[n].socket
  BY <1>1 DEF Row
<1>3. row \in Row /\ row.socket = servers[n].socket
  <2> HIDE DEF first
  <2> QED
    BY <1>2 DEF Row
<1>4. servers' = [servers EXCEPT ![n] = row]
  <2>1. half[n] = first
    BY <1>1
  <2>2. servers' = [half EXCEPT ![n] = [half[n] EXCEPT !.listens = Ends]]
    BY <1>0, Zenon
  <2>3. servers' = [half EXCEPT ![n] = row]
    BY <2>1, <2>2
  <2> HIDE DEF first, row
  <2>4. [half EXCEPT ![n] = row] = [servers EXCEPT ![n] = row]
    BY <1>1
  <2> QED
    BY <2>3, <2>4
<1> HIDE DEF row, first, half
<1>5. /\ servers' \in Seq(Row) /\ Last' = Last /\ Last \in 1..Last
      /\ servers'[Last] = row
      /\ \A k \in 1..Last : k # Last => servers'[k] = servers[k]
  BY <1>1, <1>3, <1>4, ChangeLast DEF ArrayInv
<1>6. \A k \in 1..Last : servers'[k].socket = servers[k].socket
  BY <1>1, <1>3, <1>5
<1>7. Shape'
  <2>1. /\ \A i \in 1..Last' : servers'[i].socket <= opened
        /\ servers'[Last'].socket = NoSocket /\ Last' # 0
    BY <1>1, <1>5, <1>6 DEF ArrayInv, Shape
  <2> QED
    BY <1>0, <1>5, <2>1 DEF ArrayInv, Shape
<1>8. Owned'
  <2>1. \A i, j \in 1..Last :
           servers'[i].socket # NoSocket /\ servers'[i].socket = servers'[j].socket
              => i = j
    BY <1>6 DEF ArrayInv, Owned
  <2>2. \A r \in runtimes : r.socket # NoSocket =>
           r.server \in 1..Last /\ servers'[r.server].socket = r.socket
    BY <1>6 DEF ArrayInv, Owned
  <2> QED
    BY <1>0, <1>5, <2>1, <2>2 DEF Owned
<1>9. Apart'
  BY <1>0 DEF ArrayInv, Apart
<1>10. Started'
  <2> SUFFICES ASSUME NEW i \in 1..Last, Ready(i)', i < next \/ ~Before
               PROVE  \E r \in runtimes : r.socket = servers'[i].socket
    BY <1>0, <1>5 DEF Started
  <2>1. i # Last
    BY <1>1, <1>6 DEF Ready
  <2>2. servers'[i] = servers[i] /\ Ready(i)
    BY <1>0, <1>5, <2>1 DEF Ready
  <2> QED
    BY <2>2 DEF ArrayInv, Started
<1>11. Shut'
  BY <1>0 DEF ArrayInv, Shut
<1> QED
  BY <1>7, <1>8, <1>9, <1>10, <1>11 DEF ArrayInv

LEMMA OpenKeeps ==
  ASSUME ArrayInv, OpenServer
  PROVE  ArrayInv'
<1> DEFINE n == Len(servers)
           row == [servers[n] EXCEPT !.socket = opened + 1]
<1>0. /\ control = "enable" /\ control' = "open"
      /\ UNCHANGED <<closed, runtimes, next>> /\ opened' = opened + 1
      /\ (Before' <=> Before) /\ early \subseteq early'
      /\ Before => opened + 1 \in early'
      /\ servers' = [servers EXCEPT ![n] = row]
  <2>1. early' = IF main \in {"run", "join"} THEN early
                 ELSE early \cup {opened + 1}
    BY DEF OpenServer
  <2>2. Before => main \notin {"run", "join"}
    BY DEF Before
  <2>3. servers' = [servers EXCEPT ![n] = row]
    BY Zenon DEF OpenServer
  <2>4. /\ control = "enable" /\ control' = "open"
        /\ UNCHANGED <<closed, runtimes, next>> /\ opened' = opened + 1
        /\ (Before' <=> Before)
    BY DEF OpenServer, ControlStep, Before
  <2> QED
    BY <2>1, <2>2, <2>3, <2>4
<1>1. /\ Last \in Nat /\ opened \in Nat /\ servers \in Seq(Row)
      /\ Last # 0 /\ servers[n].socket = NoSocket /\ n \in 1..n
      /\ n = Last /\ servers[n] \in Row
      /\ \A k \in 1..Last : servers[k].socket \in Nat
      /\ \A r \in runtimes : r.socket \in Nat
  BY <1>0, Typed DEF ArrayInv, Shape, Last
<1>2. row \in Row /\ row.socket = opened + 1
  BY <1>1 DEF Row
<1> HIDE DEF row
<1>3. /\ servers' \in Seq(Row) /\ Last' = Last /\ Last \in 1..Last
      /\ servers'[Last] = row
      /\ \A k \in 1..Last : k # Last => servers'[k] = servers[k]
  BY <1>0, <1>1, <1>2, ChangeLast DEF ArrayInv
<1>4. /\ opened + 1 # NoSocket
      /\ \A k \in 1..Last : servers[k].socket # opened + 1
      /\ \A r \in runtimes : r.socket # opened + 1
      /\ opened + 1 \notin closed /\ \A c \in closed : c <= opened + 1
  <2>1. /\ \A k \in 1..Last : servers[k].socket <= opened
        /\ \A r \in runtimes : r.socket <= opened
    BY DEF ArrayInv, Shape
  <2>2. closed \subseteq Nat /\ \A c \in closed : c <= opened
    BY DEF ArrayInv, Shut
  <2> QED
    BY <1>1, <2>1, <2>2 DEF NoSocket
<1>5. Shape'
  <2>1. \A i \in 1..Last : servers'[i].socket <= opened + 1
    <3> SUFFICES ASSUME NEW i \in 1..Last
                 PROVE  servers'[i].socket <= opened + 1
      OBVIOUS
    <3>1. CASE i = Last
      BY <1>1, <1>2, <1>3, <3>1
    <3>2. CASE i # Last
      <4>1. servers'[i] = servers[i] /\ servers[i].socket <= opened
        BY <1>3, <3>2 DEF ArrayInv, Shape
      <4> QED
        BY <1>1, <4>1
    <3> QED
      BY <3>1, <3>2
  <2>2. \A r \in runtimes : r.socket <= opened + 1
    <3>1. \A r \in runtimes : r.socket <= opened
      BY DEF ArrayInv, Shape
    <3> QED
      BY <1>1, <3>1
  <2>3. opened + 1 \in Nat
    BY <1>1
  <2> QED
    BY <1>0, <1>1, <1>3, <2>1, <2>2, <2>3 DEF ArrayInv, Shape
<1>6. Owned'
  <2>1. ASSUME NEW i \in 1..Last, NEW j \in 1..Last,
               servers'[i].socket # NoSocket,
               servers'[i].socket = servers'[j].socket
        PROVE  i = j
    <3>1. CASE i = Last \/ j = Last
      BY <1>2, <1>3, <1>4, <2>1, <3>1
    <3>2. CASE i # Last /\ j # Last
      BY <1>3, <2>1, <3>2 DEF ArrayInv, Owned
    <3> QED
      BY <3>1, <3>2
  <2>2. ASSUME NEW r \in runtimes, r.socket # NoSocket
        PROVE  r.server \in 1..Last /\ servers'[r.server].socket = r.socket
    <3>1. r.server \in 1..Last /\ servers[r.server].socket = r.socket
      BY <2>2 DEF ArrayInv, Owned
    <3>2. r.server # Last
      BY <1>1, <2>2, <3>1
    <3> QED
      BY <1>3, <3>1, <3>2
  <2> QED
    BY <1>0, <1>3, <2>1, <2>2 DEF Owned
<1>7. Apart'
  <2>1. \A r \in runtimes : r.by = "control" /\ r.socket \notin early' =>
           /\ ~Before
           /\ \A q \in runtimes : q.socket = r.socket => q.by = "control"
    BY <1>0 DEF ArrayInv, Apart
  <2>2. servers'[Last].socket \notin early' =>
           /\ ~Before
           /\ \A q \in runtimes : q.socket # servers'[Last].socket
    BY <1>0, <1>2, <1>3, <1>4
  <2> QED
    BY <1>0, <1>3, <2>1, <2>2 DEF Apart
<1>8. Started'
  <2> SUFFICES ASSUME NEW i \in 1..Last, Ready(i)', i < next \/ ~Before
               PROVE  \E r \in runtimes : r.socket = servers'[i].socket
    BY <1>0, <1>3 DEF Started
  <2>1. i # Last
    BY <1>0, <1>3 DEF Ready
  <2>2. servers'[i] = servers[i] /\ Ready(i)
    BY <1>0, <1>3, <2>1 DEF Ready
  <2> QED
    BY <2>2 DEF ArrayInv, Started
<1>9. Shut'
  BY <1>0, <1>2, <1>3, <1>4 DEF ArrayInv, Shut
<1> QED
  BY <1>5, <1>6, <1>7, <1>8, <1>9 DEF ArrayInv

LEMMA OpenFailsKeeps ==
  ASSUME ArrayInv, OpenFails
  PROVE  ArrayInv'
<1>0. /\ control = "enable" /\ control' = "check"
      /\ UNCHANGED <<opened, early, closed, runtimes, next>>
      /\ (Before' <=> Before)
      /\ servers' = SubSeq(servers, 1, Len(servers) - 1)
  BY DEF OpenFails, ControlStep, Before
<1>1. /\ Last \in Nat /\ Last = Len(servers) /\ servers \in Seq(Row)
      /\ Last # 0 /\ servers[Last].socket = NoSocket
  BY <1>0, Typed DEF ArrayInv, Shape, Last
<1>2. /\ servers' \in Seq(Row) /\ Last' = Last - 1
      /\ \A k \in 1..Last' : /\ servers'[k] = servers[k]
                             /\ k \in 1..Last /\ k # Last
      /\ \A k \in 1..Last : k # Last => k \in 1..Last'
  <2> DEFINE n == Len(servers)
  <2>1. n \in Nat /\ n # 0 /\ \A k \in 1..n : servers[k] \in Row
    BY <1>1 DEF Last
  <2>2. \A k \in 1..(n - 1) : servers[k] \in Row
    BY <2>1
  <2>3. /\ servers' \in Seq(Row)
        /\ Len(servers') = n - 1
        /\ \A k \in 1..(n - 1) : servers'[k] = servers[k]
    <3>1. /\ SubSeq(servers, 1, n - 1) \in Seq(Row)
          /\ Len(SubSeq(servers, 1, n - 1)) =
                IF 1 <= n - 1 THEN (n - 1) - 1 + 1 ELSE 0
          /\ \A k \in 1..((n - 1) - 1 + 1) :
                SubSeq(servers, 1, n - 1)[k] = servers[1 + k - 1]
      <4>1. n - 1 \in Int /\ 1 \in Int
        BY <2>1
      <4> HIDE DEF n
      <4> QED
        BY <2>2, <4>1, SubSeqProperties
    <3>2. \A k \in 1..(n - 1) : 1 + k - 1 = k
      OBVIOUS
    <3>3. (n - 1) - 1 + 1 = n - 1 /\ (~(1 <= n - 1) => n - 1 = 0)
      <4>1. n \in Nat /\ n # 0
        BY <2>1
      <4> HIDE DEF n
      <4> QED
        BY <4>1
    <3>4. servers' = SubSeq(servers, 1, n - 1)
      BY <1>0
    <3> HIDE DEF n
    <3>5. Len(servers') = n - 1
      BY <3>1, <3>3, <3>4
    <3>6. \A k \in 1..(n - 1) : servers'[k] = servers[k]
      BY <3>1, <3>2, <3>3, <3>4
    <3> QED
      BY <3>1, <3>4, <3>5, <3>6
  <2> HIDE DEF n
  <2>4. \A k \in 1..(n - 1) : k \in 1..n /\ k # n
    BY <2>1
  <2>5. \A k \in 1..n : k # n => k \in 1..(n - 1)
    BY <2>1
  <2>6. Last = n /\ Last' = n - 1
    BY <2>3 DEF n, Last
  <2> QED
    BY <2>3, <2>4, <2>5, <2>6
<1>3. Shape'
  <2>1. \A i \in 1..Last' : servers'[i].socket <= opened
    BY <1>2 DEF ArrayInv, Shape
  <2> QED
    BY <1>0, <1>2, <2>1 DEF ArrayInv, Shape
<1>4. Owned'
  <2>1. ASSUME NEW r \in runtimes, r.socket # NoSocket
        PROVE  r.server \in 1..Last' /\ servers'[r.server].socket = r.socket
    <3>1. r.server \in 1..Last /\ servers[r.server].socket = r.socket
      BY <2>1 DEF ArrayInv, Owned
    <3>2. r.server # Last
      BY <1>1, <2>1, <3>1
    <3> QED
      BY <1>2, <3>1, <3>2
  <2>2. \A i, j \in 1..Last' :
           servers'[i].socket # NoSocket /\ servers'[i].socket = servers'[j].socket
              => i = j
    BY <1>2 DEF ArrayInv, Owned
  <2> QED
    BY <1>0, <2>1, <2>2 DEF Owned
<1>5. Apart'
  BY <1>0 DEF ArrayInv, Apart
<1>6. Started'
  <2> SUFFICES ASSUME NEW i \in 1..Last', Ready(i)', i < next \/ ~Before
               PROVE  \E r \in runtimes : r.socket = servers'[i].socket
    BY <1>0 DEF Started
  <2>1. i \in 1..Last /\ servers'[i] = servers[i] /\ Ready(i)
    BY <1>0, <1>2 DEF Ready
  <2> QED
    BY <2>1 DEF ArrayInv, Started
<1>7. Shut'
  BY <1>0 DEF ArrayInv, Shut
<1> QED
  BY <1>3, <1>4, <1>5, <1>6, <1>7 DEF ArrayInv

LEMMA StartServerKeeps ==
  ASSUME ArrayInv, StartServer
  PROVE  ArrayInv'
<1> DEFINE s == servers[Len(servers)].socket
           new == [socket |-> s, server |-> Len(servers), by |-> "control"]
<1>0. /\ control = "open" /\ control' = "check"
      /\ UNCHANGED <<servers, opened, early, closed, next>>
      /\ (Before' <=> Before) /\ runtimes' = runtimes \cup {new}
      /\ Last' = Last
  BY DEF StartServer, ControlStep, Before, Last
<1>1. /\ Last \in Nat /\ Last = Len(servers) /\ servers \in Seq(Row)
      /\ Last # 0 /\ Last \in 1..Last /\ s \in Nat /\ s <= opened
      /\ s = servers[Last].socket
  BY <1>0, Typed DEF ArrayInv, Shape, Last
<1>2. /\ new.socket = s /\ new.server = Last /\ new.by = "control"
      /\ new \in [socket : Nat, server : Nat, by : {"main", "control"}]
  BY <1>1
<1> HIDE DEF new, s
<1>3. Shape'
  <2>1. /\ runtimes' \subseteq [socket : Nat, server : Nat,
                                by : {"main", "control"}]
        /\ \A r \in runtimes' : r.socket <= opened
    BY <1>0, <1>1, <1>2 DEF ArrayInv, Shape
  <2> QED
    BY <1>0, <2>1 DEF ArrayInv, Shape
<1>4. Owned'
  BY <1>0, <1>1, <1>2 DEF ArrayInv, Owned
<1>5. Apart'
  <2>1. s \notin early => ~Before /\ \A q \in runtimes : q.socket # s
    BY <1>0, <1>1 DEF ArrayInv, Apart
  <2> QED
    BY <1>0, <1>2, <2>1 DEF ArrayInv, Apart
<1>6. Started'
  <2> SUFFICES ASSUME NEW i \in 1..Last, Ready(i)', i < next \/ ~Before
               PROVE  \E r \in runtimes' : r.socket = servers[i].socket
    BY <1>0 DEF Started
  <2>1. CASE i = Last
    BY <1>0, <1>1, <1>2, <2>1
  <2>2. CASE i # Last
    <3>1. Ready(i)
      BY <1>0, <2>2 DEF Ready
    <3> QED
      BY <1>0, <3>1 DEF ArrayInv, Started
  <2> QED
    BY <2>1, <2>2
<1>7. Shut'
  BY <1>0, <1>1, <1>2 DEF ArrayInv, Shut
<1> QED
  BY <1>3, <1>4, <1>5, <1>6, <1>7 DEF ArrayInv

\* A runtime that the control thread stops was the only one on its sockets,
\* unless they were opened early.
LEMMA StopServerKeeps ==
  ASSUME ArrayInv, StopServer
  PROVE  ArrayInv'
<1>0. PICK gone \in runtimes :
         /\ gone.by = "control" /\ control = "serve" /\ control' = "serve"
         /\ UNCHANGED <<servers, opened, early, next>>
         /\ (Before' <=> Before) /\ Last' = Last
         /\ runtimes' = runtimes \ {gone}
         /\ closed' = closed \cup {gone.socket}
  BY DEF StopServer, ControlStep, Before, Last
<1>1. /\ gone.socket \in Nat /\ gone.socket <= opened
      /\ \A q \in runtimes : q \in [socket : Nat, server : Nat,
                                     by : {"main", "control"}]
  BY DEF ArrayInv, Shape
<1>2. ASSUME NEW q \in runtimes, q.socket = gone.socket,
             gone.socket \notin early \cup {NoSocket}
      PROVE  q = gone
  <2>1. q.by = "control"
    BY <1>0, <1>2 DEF ArrayInv, Apart
  <2>2. q.server = gone.server
    BY <1>2 DEF ArrayInv, Owned
  <2>3. /\ q = [socket |-> q.socket, server |-> q.server, by |-> q.by]
        /\ gone = [socket |-> gone.socket, server |-> gone.server,
                   by |-> gone.by]
    BY <1>1
  <2> QED
    BY <1>0, <1>2, <2>1, <2>2, <2>3
<1>3. Shape'
  BY <1>0 DEF ArrayInv, Shape
<1>4. Owned'
  BY <1>0 DEF ArrayInv, Owned
<1>5. Apart'
  BY <1>0 DEF ArrayInv, Apart
<1>6. Shut'
  <2>1. Before => gone.socket \in early
    BY <1>0 DEF ArrayInv, Apart
  <2>2. \A r \in runtimes' : r.socket \in closed' \ {NoSocket} => r.socket \in early
    BY <1>0, <1>2 DEF ArrayInv, Shut
  <2> QED
    BY <1>0, <1>1, <2>1, <2>2 DEF ArrayInv, Shut
<1>7. Started'
  <2> SUFFICES ASSUME NEW i \in 1..Last, Ready(i)', i < next \/ ~Before
               PROVE  \E r \in runtimes' : r.socket = servers[i].socket
    BY <1>0 DEF Started
  <2>1. Ready(i) /\ servers[i].socket # gone.socket
    BY <1>0 DEF Ready
  <2> QED
    BY <1>0, <2>1 DEF ArrayInv, Started
<1> QED
  BY <1>3, <1>4, <1>5, <1>6, <1>7 DEF ArrayInv

LEMMA ArrayStep ==
  ASSUME ControlInv, ArrayInv, [Next]_vars
  PROVE  ArrayInv'
<1>1. ASSUME NEW ok \in BOOLEAN, ManagerInit(ok)
      PROVE  ArrayInv'
  BY <1>1, QuietKeeps DEF ManagerInit, Before
<1>2. ASSUME NEW ok \in BOOLEAN, ManagerStart(ok)
      PROVE  ArrayInv'
  BY <1>2, QuietKeeps DEF ManagerStart, Before, ControlInv
<1>3. CASE StartDone
  <2>1. next > Last
    BY <1>3, Typed DEF StartDone, More, Last, ArrayInv
  <2> QED
    BY <1>3, <2>1, QuietKeeps DEF StartDone, Before
<1>4. CASE Stop
  BY <1>4, QuietKeeps DEF Stop, Before
<1>5. CASE Joined
  BY <1>5, QuietKeeps DEF Joined, Before
<1>6. CASE Exit
  BY <1>6, QuietKeeps DEF Exit, Before
<1>7. CASE Check
  BY <1>7, QuietKeeps DEF Check, ControlStep, Before
<1>8. CASE Accept
  BY <1>8, QuietKeeps DEF Accept, ControlStep, Before
<1>9. CASE Served
  BY <1>9, QuietKeeps DEF Served, ControlStep, Before
<1>10. CASE UNCHANGED vars
  BY <1>10, QuietKeeps DEF vars, Before
<1> QED
  BY <1>1, <1>2, <1>3, <1>4, <1>5, <1>6, <1>7, <1>8, <1>9, <1>10,
     StartNextKeeps, AppendKeeps, EnableKeeps, OpenKeeps, OpenFailsKeeps,
     StartServerKeeps, StopServerKeeps
  DEF Next, Main, Control

\* main and the control thread share the array, and what each of them starts
\* for it stays apart, for any number of servers and sockets.
THEOREM ArrayKept == Spec => []ArrayInv
<1>1. Init => ControlInv /\ ArrayInv
  BY ArrayStart DEF Init, ControlInv
<1>2. ControlInv /\ ArrayInv /\ [Next]_vars => ControlInv' /\ ArrayInv'
  BY ArrayStep, MainKeeps, ControlKeeps DEF Next, vars, ControlInv
<1> QED
  BY <1>1, <1>2, PTL DEF Spec

\* When main has gone through the array, exactly one runtime listens on every
\* pair of sockets until the control thread closes it, and then none: none is
\* forgotten, none is started by both threads or left when it is stopped.
THEOREM SocketsServedOnce == Spec => []ServedOnce
<1>1. ArrayInv => ServedOnce
  <2> SUFFICES ASSUME ArrayInv, main = "run", NEW i \in DOMAIN servers,
                      servers[i].enable, servers[i].listens # {},
                      servers[i].socket \notin early \cup {NoSocket},
                      ~(i = Last /\ control = "open")
               PROVE  Cardinality(ServedBy(servers[i].socket)) =
                         IF servers[i].socket \in closed THEN 0 ELSE 1
    BY DEF ServedOnce, Last
  <2> DEFINE s == servers[i].socket
  <2>1. /\ i \in 1..Last /\ ~Before /\ s # NoSocket /\ s \notin early
    BY DEF ArrayInv, Shape, Last, Before
  <2>2. CASE s \in closed
    <3>1. ServedBy(s) = {}
      BY <2>1, <2>2 DEF ArrayInv, Shut, ServedBy
    <3> QED
      BY <2>2, <3>1, FS_EmptySet
  <2>3. CASE s \notin closed
    <3>1. Ready(i)
      BY <2>3 DEF Ready
    <3>2. PICK r \in runtimes : r.socket = s
      BY <2>1, <3>1 DEF ArrayInv, Started
    <3>3. ASSUME NEW q \in runtimes, q.socket = s
          PROVE  q = r
      <4>1. q.server = i /\ r.server = i
        BY <2>1, <3>2, <3>3 DEF ArrayInv, Owned
      <4>2. q.by = r.by
        <5>1. q.by \in {"main", "control"} /\ r.by \in {"main", "control"}
          BY DEF ArrayInv, Shape
        <5> QED
          BY <2>1, <3>2, <3>3, <5>1 DEF ArrayInv, Apart
      <4>3. /\ q = [socket |-> q.socket, server |-> q.server, by |-> q.by]
            /\ r = [socket |-> r.socket, server |-> r.server, by |-> r.by]
        BY DEF ArrayInv, Shape
      <4> QED
        BY <3>2, <3>3, <4>1, <4>2, <4>3
    <3>4. ServedBy(s) = {r}
      BY <3>2, <3>3 DEF ServedBy
    <3> QED
      BY <2>3, <3>4, FS_Singleton
  <2> QED
    BY <2>2, <2>3
<1> QED
  BY <1>1, ArrayKept, PTL
=============================================================================
