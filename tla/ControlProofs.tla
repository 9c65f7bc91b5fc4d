---------------------------- MODULE ControlProofs ----------------------------
(***************************************************************************)
(* Proofs about what the control server guards (MCControl), for any        *)
(* devices and sessions: the queue of TLS flags loses none to another      *)
(* device, a client that is refused is not refused any longer for asking,  *)
(* and the limit on requests holds for any window, limit and penalty.      *)
(***************************************************************************)
EXTENDS MCControl, FiniteSetTheorems, WellFoundedInduction, SequenceTheorems,
        TLAPS

-----------------------------------------------------------------------------
(* Least elements *)

Less == {p \in Nat \X Nat : p[1] < p[2]}

LEMMA LessWellFounded == IsWellFoundedOn(Less, Nat)
<1>1. Less = OpToRel(<, Nat)
  BY DEF Less, OpToRel
<1> QED
  BY <1>1, NatLessThanWellFounded, Zenon

\* A set of natural numbers has a least element.
LEMMA HasLeast ==
  ASSUME NEW T, T \subseteq Nat, T # {}
  PROVE  \E x \in T : \A y \in T : x <= y
<1>1. PICK x \in T : \A y \in T : <<y, x>> \notin Less
  BY LessWellFounded, WFMin
<1>2. \A a, b \in Nat : a < b => <<a, b>> \in Less
  BY DEF Less
<1>3. ASSUME NEW y \in T
      PROVE  x <= y
  <2>1. x \in Nat /\ y \in Nat
    OBVIOUS
  <2>2. ~(y < x)
    BY <1>1, <1>2, <2>1
  <2> QED
    BY <2>1, <2>2
<1> QED
  BY <1>1, <1>3

-----------------------------------------------------------------------------
(* The queue of flags *)

Flags == Devices \cup {Silent}

\* A flag that is set joins the others, or is dropped if there is no room.
LEMMA FlagSet ==
  ASSUME pending \in Seq(Flags), Len(pending) <= MaxPending, NEW d \in Flags
  PROVE  /\ SetPending(d) \in Seq(Flags)
         /\ Len(SetPending(d)) <= MaxPending
         /\ \A e : Contains(pending, e) => Contains(SetPending(d), e)
<1>1. CASE Contains(pending, d) \/ Len(pending) >= MaxPending
  BY <1>1 DEF SetPending
<1>2. CASE ~(Contains(pending, d) \/ Len(pending) >= MaxPending)
  <2>1. SetPending(d) = Append(pending, d)
    BY <1>2 DEF SetPending
  <2>2. /\ Append(pending, d) \in Seq(Flags)
        /\ Len(Append(pending, d)) = Len(pending) + 1
        /\ \A i \in 1..Len(pending) : Append(pending, d)[i] = pending[i]
    BY AppendProperties
  <2>3. Len(pending) \in Nat /\ MaxPending \in Nat
    BY LenProperties, TlsAssumption
  <2>4. ASSUME NEW e, Contains(pending, e)
        PROVE  Contains(Append(pending, d), e)
    <3>1. PICK i \in 1..Len(pending) : pending[i] = e
      BY <2>4 DEF Contains
    <3>2. i \in 1..Len(Append(pending, d)) /\ Append(pending, d)[i] = e
      BY <2>2, <2>3, <3>1
    <3> QED
      BY <3>2 DEF Contains
  <2> QED
    BY <1>2, <2>1, <2>2, <2>3, <2>4
<1> QED
  BY <1>1, <1>2

\* The first place of a flag in the queue.
LEMMA FirstPlace ==
  ASSUME pending \in Seq(Flags), NEW d, Contains(pending, d)
  PROVE  /\ SelectInSeq(pending, LAMBDA e : e = d) \in 1..Len(pending)
         /\ pending[SelectInSeq(pending, LAMBDA e : e = d)] = d
<1> DEFINE I == {i \in 1..Len(pending) : pending[i] = d}
<1>1. I # {} /\ I \subseteq Nat
  BY DEF Contains
<1>2. \E x \in I : \A y \in I : x <= y
  BY <1>1, HasLeast
<1>3. Min(I) \in I
  BY <1>2, Zenon DEF Min
<1>4. SelectInSeq(pending, LAMBDA e : e = d) = Min(I)
  BY <1>1, Zenon DEF SelectInSeq
<1> QED
  BY <1>3, <1>4

\* A flag that is taken makes room, and the others stay.
LEMMA FlagTaken ==
  ASSUME pending \in Seq(Flags), Len(pending) <= MaxPending, NEW d
  PROVE  /\ ConsumePending(d) \in Seq(Flags)
         /\ Len(ConsumePending(d)) <= MaxPending
         /\ \A e : Contains(pending, e) /\ e # d => Contains(ConsumePending(d), e)
<1>1. CASE ~Contains(pending, d)
  BY <1>1 DEF ConsumePending
<1>2. CASE Contains(pending, d)
  <2> DEFINE i == SelectInSeq(pending, LAMBDA e : e = d)
             last == pending[Len(pending)]
             filled == [pending EXCEPT ![i] = last]
             n == Len(pending)
  <2>0. i \in 1..n /\ pending[i] = d
    BY <1>2, FirstPlace, Zenon
  <2>1. i \in 1..n /\ pending[i] = d /\ n \in Nat
    <3> HIDE DEF i
    <3> QED
      BY <2>0, LenProperties
  <2>2. ConsumePending(d) = SubSeq(filled, 1, Len(filled) - 1)
    BY <1>2, Zenon DEF ConsumePending, Front, Last
  <2> HIDE DEF i
  <2>3. last \in Flags
    BY <2>1, ElementOfSeq
  <2>4. /\ filled \in Seq(Flags) /\ Len(filled) = n
        /\ \A j \in 1..n : filled[j] = IF j = i THEN last ELSE pending[j]
    <3> HIDE DEF last
    <3> QED
      BY <2>1, <2>3, ExceptSeq
  <2> HIDE DEF filled
  <2>5. \A j \in 1..(n - 1) : filled[j] \in Flags
    BY <2>1, <2>4, ElementOfSeq
  <2> DEFINE q == SubSeq(filled, 1, n - 1)
  <2>6. /\ q \in Seq(Flags) /\ Len(q) = n - 1
        /\ \A j \in 1..(n - 1) : q[j] = filled[j]
    <3>1. /\ q \in Seq(Flags)
          /\ Len(q) = IF 1 <= n - 1 THEN n - 1 - 1 + 1 ELSE 0
          /\ \A j \in 1..(n - 1 - 1 + 1) : q[j] = filled[1 + j - 1]
      <4>1. n - 1 \in Int /\ 1 \in Int
        BY <2>1
      <4> HIDE DEF n
      <4> QED
        BY <2>5, <4>1, SubSeqProperties
    <3>2. n - 1 - 1 + 1 = n - 1 /\ (~(1 <= n - 1) => n - 1 = 0)
      <4>1. n \in Nat /\ n # 0
        BY <2>1
      <4> HIDE DEF n
      <4> QED
        BY <4>1
    <3>3. \A j \in 1..(n - 1) : 1 + j - 1 = j
      OBVIOUS
    <3> HIDE DEF n, q
    <3> QED
      BY <3>1, <3>2, <3>3
  <2>7. ConsumePending(d) = q
    BY <2>2, <2>4
  <2> HIDE DEF q
  <2>8. ASSUME NEW e, Contains(pending, e), e # d
        PROVE  Contains(q, e)
    <3>1. PICK j \in 1..n : pending[j] = e
      BY <2>8 DEF Contains
    <3>2. CASE j = n
      <4>1. i # n /\ i \in 1..(n - 1)
        BY <2>1, <2>8, <3>1, <3>2
      <4>2. q[i] = e
        BY <2>1, <2>4, <2>6, <3>1, <3>2, <4>1
      <4> QED
        BY <2>6, <4>1, <4>2 DEF Contains
    <3>3. CASE j # n
      <4>1. j # i /\ j \in 1..(n - 1)
        BY <2>1, <2>8, <3>1, <3>3
      <4>2. q[j] = e
        BY <2>4, <2>6, <3>1, <4>1
      <4> QED
        BY <2>6, <4>1, <4>2 DEF Contains
    <3> QED
      BY <3>2, <3>3
  <2> QED
    BY <2>1, <2>6, <2>7, <2>8, TlsAssumption
<1> QED
  BY <1>1, <1>2

\* What a step of the TLS part may do to the queue: a flag is set, or a
\* device's flag is taken with the answer to it.
LEMMA FlagsMove ==
  ASSUME TlsTypeOK, TlsNext
  PROVE  \/ UNCHANGED pending
         \/ \E d \in Devices : pending' = SetPending(d)
         \/ \E d \in Devices : /\ pending' = ConsumePending(d)
                               /\ answer'[d].reload = Contains(pending, d)
<1>1. control.at \in {"reload", "reply"} => control.device \in Devices
  BY DEF TlsTypeOK
<1>2. CASE \E fails \in BOOLEAN : Reload(fails)
  BY <1>1, <1>2 DEF Reload
<1>3. ASSUME NEW fails \in BOOLEAN, Reply(fails)
      PROVE  \/ UNCHANGED pending
             \/ \E d \in Devices : /\ pending' = ConsumePending(d)
                                   /\ answer'[d].reload = Contains(pending, d)
  <2> DEFINE d == control.device
  <2>1. d \in Devices
    BY <1>1, <1>3 DEF Reply
  <2>2. CASE ~session[d]
    BY <1>3, <2>2 DEF Reply
  <2>3. CASE session[d]
    <3>1. /\ pending' = ConsumePending(d)
          /\ answer' = [answer EXCEPT ![d] =
                          [status |-> "ok", tls |-> Read(d, fails),
                           reload |-> Contains(pending, d)]]
      BY <1>3, <2>3 DEF Reply
    <3>2. DOMAIN answer = Devices
      BY DEF TlsTypeOK
    <3> HIDE DEF d
    <3>3. answer'[d] = [status |-> "ok", tls |-> Read(d, fails),
                        reload |-> Contains(pending, d)]
      BY <2>1, <3>1, <3>2
    <3>4. answer'[d].reload = Contains(pending, d)
      BY <3>3
    <3> QED
      BY <2>1, <3>1, <3>4
  <2> QED
    BY <2>2, <2>3
<1>4. CASE \E d \in Devices :
             \/ ChangeSetting(d) \/ SendHeartbeat(d)
             \/ ReceiveAnswer(d) \/ Connect(d) \/ HandshakeFails(d)
             \/ \E again \in BOOLEAN : LoseAnswer(d, again)
             \/ \E stops \in BOOLEAN : EndSession(d, stops)
             \/ \E arrives \in BOOLEAN :
                   \/ RequestReload(d, arrives)
                   \/ \E fails \in BOOLEAN : Register(d, fails, arrives)
             \/ \E fails \in BOOLEAN : Heartbeat(d, fails)
  BY <1>4 DEF ChangeSetting, SendHeartbeat, ReceiveAnswer, LoseAnswer, Connect,
              HandshakeFails, EndSession, RequestReload, Register, Heartbeat
<1>5. CASE CertificateChanges \/ \E fails \in BOOLEAN : Ensure(fails)
  BY <1>5 DEF Ensure, CertificateChanges
<1> QED
  BY <1>2, <1>3, <1>4, <1>5 DEF TlsNext

Controls == [at : {"idle"}, tls : {FALSE}]
    \cup [at : {"reload", "ensure", "reply"}, device : Devices, tls : BOOLEAN]

Clients == [tls : BOOLEAN, state : {"idle", "asks", "applies", "stuck", "lost"}]

Answers == [status : {"none", "ok", "bare", "terminated"}, tls : BOOLEAN,
            reload : BOOLEAN]

\* The steps of the web service keep the types.
LEMMA WebTyped ==
  ASSUME TlsTypeOK, NEW d \in Devices, NEW arrives \in BOOLEAN,
         ChangeSetting(d) \/ RequestReload(d, arrives)
  PROVE  TlsTypeOK'
<1>1. CASE ChangeSetting(d)
  <2>1. setting' \in [Devices -> BOOLEAN] /\ web' \in [Devices -> {"idle", "changed"}]
    BY <1>1 DEF ChangeSetting, TlsTypeOK
  <2>2. changes' \in 0..MaxChanges
    BY <1>1, TlsAssumption DEF ChangeSetting, TlsTypeOK
  <2> QED
    BY <1>1, <2>1, <2>2 DEF ChangeSetting, TlsTypeOK
<1>2. CASE RequestReload(d, arrives)
  <2>1. web' \in [Devices -> {"idle", "changed"}]
    BY <1>2 DEF RequestReload, TlsTypeOK
  <2>2. control' \in Controls
    <3>1. setting[d] \in BOOLEAN
      BY DEF TlsTypeOK
    <3>2. control \in Controls
      BY DEF TlsTypeOK, Controls
    <3>3. control' = control \/ control' = [at |-> "reload", device |-> d, tls |-> setting[d]]
      BY <1>2 DEF RequestReload
    <3>4. [at |-> "reload", device |-> d, tls |-> setting[d]] \in Controls
      BY <3>1 DEF Controls
    <3> QED
      BY <3>2, <3>3, <3>4
  <2> QED
    BY <1>2, <2>1, <2>2 DEF RequestReload, TlsTypeOK, Controls
<1> QED
  BY <1>1, <1>2

LEMMA StartedTyped ==
  ASSUME TlsTypeOK, NEW t \in BOOLEAN
  PROVE  Started(t) \in BOOLEAN
BY DEF Started, TlsTypeOK

LEMMA ReadTyped ==
  ASSUME TlsTypeOK, NEW d \in Devices, NEW fails \in BOOLEAN
  PROVE  Read(d, fails) \in BOOLEAN
BY DEF Read, TlsTypeOK

LEMMA LapsesTyped ==
  ASSUME TlsTypeOK, NEW fails \in BOOLEAN, Counted(fails)
  PROVE  lapses' \in 0..MaxLapses
BY TlsAssumption DEF Counted, TlsTypeOK

\* What the control thread works on.
LEMMA ControlAt ==
  ASSUME TlsTypeOK, control.at # "idle"
  PROVE  /\ control \in Controls
         /\ control.at \in {"reload", "ensure", "reply"}
         /\ control.device \in Devices /\ control.tls \in BOOLEAN
         /\ control = [at |-> control.at, device |-> control.device,
                       tls |-> control.tls]
BY DEF TlsTypeOK, Controls

\* So do the listeners that are started, or fail to start.
LEMMA ListenersTyped ==
  ASSUME TlsTypeOK, NEW d \in Devices, NEW t \in BOOLEAN, NEW fails \in BOOLEAN,
         \/ UNCHANGED <<up, listener>>
         \/ StartListeners(d, t, fails)
         \/ EnsureListeners(d, t, fails)
  PROVE  up' \in [Devices -> BOOLEAN] /\ listener' \in [Devices -> BOOLEAN]
<1>1. Started(t) \in BOOLEAN
  BY StartedTyped
<1>2. (~fails) \in BOOLEAN /\ (~fails /\ Started(t)) \in BOOLEAN
  BY <1>1
<1>3. \/ UNCHANGED <<up, listener>>
      \/ /\ up' = [up EXCEPT ![d] = ~fails]
         /\ listener' = [listener EXCEPT ![d] = ~fails /\ Started(t)]
  BY DEF EnsureListeners, StartListeners
<1> QED
  BY <1>2, <1>3 DEF TlsTypeOK

\* The steps of the control thread keep the types.
LEMMA ReloadTyped ==
  ASSUME TlsTypeOK, NEW fails \in BOOLEAN, Reload(fails)
  PROVE  TlsTypeOK'
<1>1. control.device \in Devices /\ control.tls \in BOOLEAN
  BY ControlAt DEF Reload
<1>2. lapses' \in 0..MaxLapses
  BY LapsesTyped DEF Reload
<1>3. up' \in [Devices -> BOOLEAN] /\ listener' \in [Devices -> BOOLEAN]
  <2>1. StartListeners(control.device, control.tls, fails)
    BY DEF Reload
  <2>2. PICK d \in Devices, t \in BOOLEAN : StartListeners(d, t, fails)
    BY <1>1, <2>1
  <2> QED
    BY <2>2, ListenersTyped
<1>4. pending' \in Seq(Flags) /\ Len(pending') <= MaxPending
  BY <1>1, FlagSet DEF Reload, TlsTypeOK, Flags
<1> QED
  BY <1>2, <1>3, <1>4 DEF Reload, TlsTypeOK, Flags, Idle

LEMMA EnsureTyped ==
  ASSUME TlsTypeOK, NEW fails \in BOOLEAN, Ensure(fails)
  PROVE  TlsTypeOK'
<1>1. /\ control.device \in Devices /\ control.tls \in BOOLEAN
      /\ control = [at |-> control.at, device |-> control.device, tls |-> control.tls]
  BY ControlAt DEF Ensure
<1>2. lapses' \in 0..MaxLapses
  BY LapsesTyped DEF Ensure, EnsureListeners
<1>3. up' \in [Devices -> BOOLEAN] /\ listener' \in [Devices -> BOOLEAN]
  <2>1. EnsureListeners(control.device, control.tls, fails)
    BY DEF Ensure
  <2>2. PICK d \in Devices, t \in BOOLEAN : EnsureListeners(d, t, fails)
    BY <1>1, <2>1
  <2> QED
    BY <2>2, ListenersTyped
<1>4. control' = [at |-> "reply", device |-> control.device, tls |-> control.tls]
  BY <1>1 DEF Ensure
<1> QED
  BY <1>1, <1>2, <1>3, <1>4 DEF Ensure, TlsTypeOK

LEMMA ReplyTyped ==
  ASSUME TlsTypeOK, NEW fails \in BOOLEAN, Reply(fails)
  PROVE  TlsTypeOK'
<1> DEFINE d == control.device
<1>1. d \in Devices
  BY ControlAt DEF Reply
<1>2. answer \in [Devices -> Answers]
  BY DEF TlsTypeOK, Answers
<1>3. Read(d, fails) \in BOOLEAN /\ Contains(pending, d) \in BOOLEAN
  BY <1>1, ReadTyped DEF Contains
<1>4. answer' \in [Devices -> Answers]
  <2>1. [NoAnswer EXCEPT !.status = "bare"] \in Answers
    BY DEF NoAnswer, Answers
  <2>2. [status |-> "ok", tls |-> Read(d, fails), reload |-> Contains(pending, d)]
          \in Answers
    <3> HIDE DEF d
    <3> QED
      BY <1>3 DEF Answers
  <2>3. PICK a \in Answers : answer' = [answer EXCEPT ![d] = a]
    <3>1. CASE session[d]
      <4>1. answer' = [answer EXCEPT ![d] =
              [status |-> "ok", tls |-> Read(d, fails), reload |-> Contains(pending, d)]]
        BY <3>1 DEF Reply
      <4> HIDE DEF d
      <4> QED
        BY <2>2, <4>1
    <3>2. CASE ~session[d]
      <4>1. answer' = [answer EXCEPT ![d] = [NoAnswer EXCEPT !.status = "bare"]]
        BY <3>2 DEF Reply
      <4> HIDE DEF d
      <4> QED
        BY <2>1, <4>1
    <3> QED
      BY <3>1, <3>2
  <2> QED
    BY <1>1, <1>2, <2>3
<1>5. pending' \in Seq(Flags) /\ Len(pending') <= MaxPending
  <2>1. pending \in Seq(Flags) /\ Len(pending) <= MaxPending
    BY DEF TlsTypeOK, Flags
  <2>2. pending' = pending \/ pending' = ConsumePending(d)
    BY DEF Reply
  <2> QED
    BY <2>1, <2>2, FlagTaken
<1>6. lapses' \in 0..MaxLapses
  BY LapsesTyped DEF Reply, TlsTypeOK
<1> QED
  BY <1>4, <1>5, <1>6 DEF Reply, TlsTypeOK, Flags, Idle, Answers

LEMMA HeartbeatTyped ==
  ASSUME TlsTypeOK, NEW d \in Devices, NEW fails \in BOOLEAN, Heartbeat(d, fails)
  PROVE  TlsTypeOK'
<1>1. Read(d, fails) \in BOOLEAN
  BY ReadTyped
<1>2. control' \in Controls
  <2>1. control \in Controls
    BY DEF TlsTypeOK, Controls
  <2>2. control' = control \/ control' = [at |-> "ensure", device |-> d, tls |-> Read(d, fails)]
    BY DEF Heartbeat
  <2>3. [at |-> "ensure", device |-> d, tls |-> Read(d, fails)] \in Controls
    BY <1>1 DEF Controls
  <2> QED
    BY <2>1, <2>2, <2>3
<1>3. answer' \in [Devices -> Answers]
  <2>1. answer \in [Devices -> Answers]
    BY DEF TlsTypeOK, Answers
  <2>2. [NoAnswer EXCEPT !.status = "terminated"] \in Answers
    BY DEF NoAnswer, Answers
  <2>3. answer' = answer \/ answer' = [answer EXCEPT ![d] =
                                         [NoAnswer EXCEPT !.status = "terminated"]]
    BY DEF Heartbeat
  <2> QED
    BY <2>1, <2>2, <2>3
<1>4. lapses' \in 0..MaxLapses
  BY LapsesTyped DEF Heartbeat, TlsTypeOK
<1> QED
  BY <1>2, <1>3, <1>4 DEF Heartbeat, TlsTypeOK, Controls, Answers

LEMMA RegisterTyped ==
  ASSUME TlsTypeOK, NEW d \in Devices, NEW fails \in BOOLEAN, NEW arrives \in BOOLEAN,
         Register(d, fails, arrives)
  PROVE  TlsTypeOK'
<1>1. setting[d] \in BOOLEAN
  BY DEF TlsTypeOK
<1>2. lapses' \in 0..MaxLapses
  BY LapsesTyped DEF Register, EnsureListeners
<1>3. up' \in [Devices -> BOOLEAN] /\ listener' \in [Devices -> BOOLEAN]
  <2>1. PICK t \in BOOLEAN : EnsureListeners(d, t, fails)
    BY <1>1 DEF Register
  <2> QED
    BY <2>1, ListenersTyped
<1>4. session' \in [Devices -> BOOLEAN]
  BY DEF Register, TlsTypeOK
<1>5. client' \in [Devices -> Clients]
  <2>1. client \in [Devices -> Clients]
    BY DEF TlsTypeOK, Clients
  <2>2. [tls |-> setting[d], state |-> "idle"] \in Clients
    BY <1>1 DEF Clients
  <2>3. client' = client \/ client' = [client EXCEPT ![d] =
                                          [tls |-> setting[d], state |-> "idle"]]
    BY DEF Register
  <2> QED
    BY <2>1, <2>2, <2>3
<1> QED
  BY <1>2, <1>3, <1>4, <1>5 DEF Register, TlsTypeOK, Clients

\* The steps of the client keep the types.
LEMMA ClientTyped ==
  ASSUME TlsTypeOK, NEW d \in Devices, NEW again \in BOOLEAN,
         \/ SendHeartbeat(d) \/ ReceiveAnswer(d) \/ LoseAnswer(d, again)
         \/ Connect(d) \/ HandshakeFails(d)
  PROVE  TlsTypeOK'
<1>1. client \in [Devices -> Clients] /\ answer \in [Devices -> Answers]
  BY DEF TlsTypeOK, Clients, Answers
<1>2. client[d] \in Clients /\ answer[d] \in Answers
  BY <1>1
<1>3. NoAnswer \in Answers
  BY DEF NoAnswer, Answers
<1>4. \A s \in {"idle", "asks", "stuck", "lost"} :
          [client[d] EXCEPT !.state = s] \in Clients
  BY <1>2 DEF Clients
<1>5. Apply(d) \in Clients
  BY <1>2 DEF Apply, Answers, Clients
<1>6. PICK c \in Clients : client' = [client EXCEPT ![d] = c]
  <2>1. CASE SendHeartbeat(d)
    BY <1>1, <1>4, <2>1 DEF SendHeartbeat
  <2>2. CASE LoseAnswer(d, again)
    BY <1>1, <1>4, <2>2 DEF LoseAnswer
  <2>3. CASE ReceiveAnswer(d)
    <3>1. answer[d].status \in {"terminated", "bare", "ok"}
      BY <1>2, <2>3 DEF ReceiveAnswer, Answers
    <3>2. CASE answer[d].status = "terminated"
      BY <1>1, <1>4, <2>3, <3>2 DEF ReceiveAnswer
    <3>3. CASE answer[d].status = "bare"
      BY <1>1, <1>4, <2>3, <3>3 DEF ReceiveAnswer
    <3>4. CASE answer[d].status = "ok"
      BY <1>1, <1>5, <2>3, <3>4 DEF ReceiveAnswer
    <3> QED
      BY <3>1, <3>2, <3>3, <3>4
  <2>4. CASE Connect(d)
    BY <1>1, <1>4, <2>4 DEF Connect
  <2>5. CASE HandshakeFails(d)
    BY <1>1, <1>4, <2>5 DEF HandshakeFails
  <2> QED
    BY <2>1, <2>2, <2>3, <2>4, <2>5
<1>7. client' \in [Devices -> Clients]
  BY <1>1, <1>6
<1>8. answer' \in [Devices -> Answers]
  BY <1>1, <1>3 DEF SendHeartbeat, ReceiveAnswer, LoseAnswer, Connect, HandshakeFails
<1>9. lapses' \in 0..MaxLapses
  <2>1. CASE lapses' = lapses
    BY <2>1 DEF TlsTypeOK
  <2>2. CASE HandshakeFails(d)
    BY <2>2, LapsesTyped DEF HandshakeFails, TlsTypeOK
  <2>3. CASE LoseAnswer(d, again)
    BY <2>3, LapsesTyped DEF LoseAnswer
  <2> QED
    BY <2>1, <2>2, <2>3 DEF SendHeartbeat, ReceiveAnswer, Connect
<1> QED
  BY <1>7, <1>8, <1>9
     DEF SendHeartbeat, ReceiveAnswer, LoseAnswer, Connect, HandshakeFails,
         TlsTypeOK, Clients, Answers

\* A session ends, the certificate changes.
LEMMA LapseTyped ==
  ASSUME TlsTypeOK,
         \/ CertificateChanges
         \/ \E d \in Devices, stops \in BOOLEAN : EndSession(d, stops)
  PROVE  TlsTypeOK'
<1>1. lapses' \in 0..MaxLapses
  BY TlsAssumption DEF CertificateChanges, EndSession, TlsTypeOK
<1>2. /\ session' \in [Devices -> BOOLEAN]
      /\ up' \in [Devices -> BOOLEAN]
      /\ listener' \in [Devices -> BOOLEAN]
  <2>1. CASE CertificateChanges
    BY <2>1 DEF CertificateChanges, TlsTypeOK
  <2>2. ASSUME NEW d \in Devices, NEW stops \in BOOLEAN, EndSession(d, stops)
        PROVE  /\ session' \in [Devices -> BOOLEAN]
               /\ up' \in [Devices -> BOOLEAN]
               /\ listener' \in [Devices -> BOOLEAN]
    <3>1. (up[d] /\ ~stops) \in BOOLEAN /\ (listener[d] /\ ~stops) \in BOOLEAN
      OBVIOUS
    <3> QED
      BY <2>2, <3>1 DEF EndSession, TlsTypeOK
  <2> QED
    BY <2>1, <2>2
<1>3. certs' = certs \/ certs' = ~certs
  BY DEF CertificateChanges, EndSession
<1>4. certs \in BOOLEAN
  BY DEF TlsTypeOK
<1>5. certs' \in BOOLEAN
  BY <1>3, <1>4
<1> QED
  BY <1>1, <1>2, <1>5 DEF CertificateChanges, EndSession, TlsTypeOK

LEMMA TlsStepTyped == TlsTypeOK /\ TlsNext => TlsTypeOK'
BY WebTyped, ReloadTyped, EnsureTyped, ReplyTyped, HeartbeatTyped, RegisterTyped,
   ClientTyped, LapseTyped DEF TlsNext

LEMMA TlsInitTyped == TlsInit => TlsTypeOK
<1> SUFFICES ASSUME TlsInit PROVE TlsTypeOK
  OBVIOUS
<1>1. pending \in Seq(Devices \cup {Silent}) /\ Len(pending) <= MaxPending
  <2>1. MaxPending \in Nat /\ MaxPending >= 1
    BY TlsAssumption
  <2>2. CASE pending = <<>>
    BY <2>1, <2>2
  <2>3. CASE pending = <<Silent>>
    <3>1. <<Silent>> \in Seq(Devices \cup {Silent}) /\ Len(<<Silent>>) = 1
      OBVIOUS
    <3> QED
      BY <2>1, <2>3, <3>1
  <2> QED
    BY <2>2, <2>3 DEF TlsInit
<1> QED
  BY <1>1, TlsAssumption DEF TlsInit, TlsTypeOK, Idle, NoAnswer

LEMMA TlsKept == Spec => []TlsTypeOK
<1>1. Init => TlsTypeOK
  BY TlsInitTyped DEF Init
<1>2. TlsTypeOK /\ [Next]_vars => TlsTypeOK'
  <2>1. CASE TlsTypeOK /\ TlsNext
    BY <2>1, TlsStepTyped
  <2>2. CASE TlsTypeOK /\ UNCHANGED tlsVars
    BY <2>2 DEF tlsVars, TlsTypeOK
  <2> QED
    BY <2>1, <2>2 DEF Next, vars
<1> QED
  BY <1>1, <1>2, PTL DEF Spec

\* A flag that leaves the queue in a step goes with an answer to its device.
FlagsLeave ==
    \A d \in Devices \cup {Silent} :
        Contains(pending, d) /\ ~Contains(pending', d)
            => d \in Devices /\ answer'[d].reload

LEMMA FlagsLeaveStep ==
  ASSUME TlsTypeOK, TlsNext
  PROVE  FlagsLeave
<1> SUFFICES ASSUME NEW e \in Flags, Contains(pending, e), ~Contains(pending', e)
             PROVE  e \in Devices /\ answer'[e].reload
  BY DEF FlagsLeave, Flags
<1>1. pending \in Seq(Flags) /\ Len(pending) <= MaxPending
  BY DEF TlsTypeOK, Flags
<1>2. CASE UNCHANGED pending
  BY <1>2 DEF Contains
<1>3. ASSUME NEW d \in Devices, pending' = SetPending(d)
      PROVE  FALSE
  <2>1. Contains(SetPending(d), e)
    BY <1>1, FlagSet DEF Flags
  <2> QED
    BY <1>3, <2>1 DEF Contains
<1>4. ASSUME NEW d \in Devices, pending' = ConsumePending(d),
             answer'[d].reload = Contains(pending, d)
      PROVE  e \in Devices /\ answer'[e].reload
  <2>1. CASE e # d
    <3>1. Contains(ConsumePending(d), e)
      BY <1>1, <2>1, FlagTaken
    <3> QED
      BY <1>4, <3>1 DEF Contains
  <2>2. CASE e = d
    BY <1>4, <2>2, Zenon
  <2> QED
    BY <2>1, <2>2
<1> QED
  BY <1>2, <1>3, <1>4, FlagsMove

\* The flag of a device leaves the queue only with an answer to that device,
\* however full the queue is and whichever flags are taken first
\* (device_manager_consume_tls_reload_pending moves the last flag into the gap).
THEOREM FlagsReachTheirDevice == Spec => FlagGoesToItsDevice
<1>1. TlsTypeOK /\ [Next]_vars => [FlagsLeave]_tlsVars
  BY FlagsLeaveStep DEF Next, vars
<1>2. [FlagsLeave]_tlsVars =>
        [\A d \in Devices \cup {Silent} :
            Contains(pending, d) /\ ~Contains(pending', d)
                => d \in Devices /\ answer'[d].reload]_tlsVars
  BY DEF FlagsLeave
<1> QED
  BY <1>1, <1>2, TlsKept, PTL DEF Spec, FlagGoesToItsDevice

-----------------------------------------------------------------------------
(* The table of limits *)

\* Entries are cut for long keys and for no others.
Honest == {e \in Entries : e.cut = (e.key \in LongKeys)}

Matches(e, k) == e.key = k /\ ~e.cut

Places(t, k) == {i \in 1..Len(t) : Matches(t[i], k)}

LEMMA FindIsLeast ==
  ASSUME NEW t, NEW k
  PROVE  Find(t, k) = IF Places(t, k) # {} THEN Min(Places(t, k)) ELSE 0
BY Zenon DEF Find, SelectInSeq, Places, Matches

\* What check_rate_limit finds: the first entry of the key, if there is one.
LEMMA Found ==
  ASSUME NEW t \in Seq(Honest), NEW k
  PROVE  /\ Find(t, k) # 0 => /\ Find(t, k) \in 1..Len(t)
                              /\ Matches(t[Find(t, k)], k)
                              /\ \A j \in Places(t, k) : Find(t, k) <= j
         /\ Find(t, k) = 0 => Places(t, k) = {}
<1>1. Places(t, k) \subseteq Nat
  BY DEF Places
<1>2. CASE Places(t, k) # {}
  <2>1. \E x \in Places(t, k) : \A y \in Places(t, k) : x <= y
    BY <1>1, <1>2, HasLeast
  <2>2. /\ Min(Places(t, k)) \in Places(t, k)
        /\ \A y \in Places(t, k) : Min(Places(t, k)) <= y
    BY <2>1, Zenon DEF Min
  <2>3. Find(t, k) = Min(Places(t, k))
    BY <1>2, FindIsLeast
  <2>4. Find(t, k) \in Places(t, k)
    BY <2>2, <2>3
  <2>5. Len(t) \in Nat
    BY LenProperties
  <2> QED
    BY <2>2, <2>3, <2>4, <2>5 DEF Places
<1>3. CASE Places(t, k) = {}
  BY <1>3, FindIsLeast
<1> QED
  BY <1>2, <1>3

\* An entry that is the only one of its key that comes so early is found.
LEMMA FoundThere ==
  ASSUME NEW t \in Seq(Honest), NEW k, NEW i \in Places(t, k),
         \A j \in Places(t, k) : i <= j
  PROVE  Find(t, k) = i
<1>1. Find(t, k) # 0
  BY Found
<1>2. Find(t, k) \in Places(t, k)
  BY <1>1, Found DEF Places
<1>3. Find(t, k) <= i /\ i <= Find(t, k)
  BY <1>1, <1>2, Found
<1>4. Find(t, k) \in Nat /\ i \in Nat
  BY <1>2 DEF Places
<1> QED
  BY <1>3, <1>4

\* Changing what an entry counts moves no key.
LEMMA SameKeys ==
  ASSUME NEW t \in Seq(Honest), NEW u \in Seq(Honest), Len(u) = Len(t),
         \A j \in 1..Len(t) : u[j].key = t[j].key /\ u[j].cut = t[j].cut,
         NEW k
  PROVE  Find(u, k) = Find(t, k)
<1>1. Places(u, k) = Places(t, k)
  BY DEF Places, Matches
<1> QED
  BY <1>1, FindIsLeast

\* A new entry is found last.
LEMMA FoundAppended ==
  ASSUME NEW t \in Seq(Honest), NEW e \in Honest, NEW k
  PROVE  Find(Append(t, e), k) = IF Find(t, k) # 0 THEN Find(t, k)
                                 ELSE IF Matches(e, k) THEN Len(t) + 1 ELSE 0
<1> DEFINE u == Append(t, e)
           n == Len(t)
<1>1. /\ u \in Seq(Honest) /\ Len(u) = n + 1 /\ u[n + 1] = e /\ n \in Nat
      /\ \A j \in 1..n : u[j] = t[j]
  BY AppendProperties, LenProperties
<1> HIDE DEF u
<1>2. Places(u, k) = Places(t, k) \cup (IF Matches(e, k) THEN {n + 1} ELSE {})
  <2>1. \A j \in 1..(n + 1) : j \in 1..n \/ j = n + 1
    BY <1>1
  <2>2. \A j \in 1..n : j \in 1..(n + 1) /\ j # n + 1
    BY <1>1
  <2>3. n + 1 \in 1..(n + 1)
    BY <1>1
  <2> HIDE DEF n
  <2>4. ASSUME NEW j \in Places(u, k)
        PROVE  j \in Places(t, k) \/ (Matches(e, k) /\ j = n + 1)
    BY <1>1, <2>1 DEF Places, n
  <2>5. Places(t, k) \subseteq Places(u, k)
    BY <1>1, <2>2 DEF Places, n
  <2>6. Matches(e, k) => n + 1 \in Places(u, k)
    BY <1>1, <2>3 DEF Places
  <2> QED
    BY <2>4, <2>5, <2>6
<1>3. CASE Find(t, k) # 0
  <2>1. /\ Find(t, k) \in 1..n /\ Find(t, k) \in Places(t, k)
        /\ \A j \in Places(t, k) : Find(t, k) <= j
    BY <1>3, Found DEF Places
  <2>2. \A j \in Places(u, k) : Find(t, k) <= j
    BY <1>1, <1>2, <2>1
  <2>3. Find(t, k) \in Places(u, k)
    BY <1>2, <2>1
  <2> QED
    BY <1>1, <1>3, <2>2, <2>3, FoundThere DEF u
<1>4. CASE Find(t, k) = 0 /\ Matches(e, k)
  <2>1. Places(u, k) = {n + 1}
    BY <1>2, <1>4, Found
  <2>2. \A j \in Places(u, k) : n + 1 <= j
    BY <1>1, <2>1
  <2> QED
    BY <1>1, <1>4, <2>1, <2>2, FoundThere DEF u
<1>5. CASE Find(t, k) = 0 /\ ~Matches(e, k)
  <2>1. Places(u, k) = {}
    BY <1>2, <1>5, Found
  <2> QED
    BY <1>5, <2>1, FindIsLeast DEF u
<1> QED
  BY <1>3, <1>4, <1>5

-----------------------------------------------------------------------------
(* One request *)

\* An entry with other numbers.
Entry(e, count, start, until) ==
    [key |-> e.key, cut |-> e.cut, count |-> count, start |-> start, until |-> until]

LEMMA EntryTyped ==
  ASSUME NEW e \in Honest, NEW count \in Nat, NEW start \in Times,
         NEW until \in 0..(MaxTime + Penalty)
  PROVE  /\ Entry(e, count, start, until) \in Honest
         /\ Entry(e, count, start, until).key = e.key
         /\ Entry(e, count, start, until).cut = e.cut
         /\ Entry(e, count, start, until).count = count
         /\ Entry(e, count, start, until).start = start
         /\ Entry(e, count, start, until).until = until
BY DEF Honest, Entries, Entry

LEMMA EntryFields ==
  ASSUME NEW e \in Honest
  PROVE  /\ e.count \in Nat /\ e.start \in Nat /\ e.until \in Nat
         /\ e.start \in Times /\ e.until \in 0..(MaxTime + Penalty)
         /\ e = Entry(e, e.count, e.start, e.until)
BY LimitAssumption DEF Honest, Entries, Times, Entry

\* The updates of check_rate_limit.
Reopened(e, count, start) == [e EXCEPT !.start = start, !.count = count]

Penalised(e, count, start, until) ==
    [e EXCEPT !.until = until, !.count = count, !.start = start]

LEMMA CountedIs ==
  ASSUME NEW e \in Honest
  PROVE  [e EXCEPT !.count = e.count + 1] = Entry(e, e.count + 1, e.start, e.until)
BY EntryFields DEF Entry

LEMMA ReopenedIs ==
  ASSUME NEW e \in Honest
  PROVE  \A count, start : Reopened(e, count, start) = Entry(e, count, start, e.until)
<1> SUFFICES ASSUME NEW count, NEW start
             PROVE  Reopened(e, count, start) = Entry(e, count, start, e.until)
  OBVIOUS
<1> DEFINE started == [e EXCEPT !.start = start]
<1>1. started = Entry(e, e.count, start, e.until)
  BY EntryFields DEF Entry
<1>2. [started EXCEPT !.count = count] = Entry(e, count, start, e.until)
  <2> HIDE DEF started
  <2> QED
    BY <1>1 DEF Entry
<1> QED
  BY <1>2 DEF Reopened

LEMMA PenalisedIs ==
  ASSUME NEW e \in Honest
  PROVE  \A count, start, until :
           Penalised(e, count, start, until) = Entry(e, count, start, until)
<1> SUFFICES ASSUME NEW count, NEW start, NEW until
             PROVE  Penalised(e, count, start, until) = Entry(e, count, start, until)
  OBVIOUS
<1> DEFINE late == [e EXCEPT !.until = until]
           emptied == [late EXCEPT !.count = count]
<1>1. late = Entry(e, e.count, e.start, until)
  BY EntryFields DEF Entry
<1>2. emptied = Entry(e, count, e.start, until)
  <2> HIDE DEF late
  <2> QED
    BY <1>1 DEF Entry
<1>3. [emptied EXCEPT !.start = start] = Entry(e, count, start, until)
  <2> HIDE DEF emptied
  <2> QED
    BY <1>2 DEF Entry
<1> QED
  BY <1>3 DEF Penalised

\* The four things that can become of an entry and its request.
Refused(e) == e.until > now

Fresh(e) == ~Refused(e) /\ now >= e.start + Window

Punished(e) == ~Refused(e) /\ ~Fresh(e) /\ e.count >= MaxRequests

Counts(e) == ~Refused(e) /\ ~Fresh(e) /\ e.count < MaxRequests

LEMMA JudgeCases ==
  ASSUME NEW e \in Honest, now \in Times
  PROVE  /\ Refused(e) => Judge(e) = [entry |-> e, allowed |-> FALSE]
         /\ Fresh(e) => Judge(e) = [entry |-> Entry(e, 1, now, e.until),
                                    allowed |-> TRUE]
         /\ Punished(e) => Judge(e) = [entry |-> Entry(e, 0, now, now + Penalty),
                                       allowed |-> FALSE]
         /\ Counts(e) => Judge(e) = [entry |-> Entry(e, e.count + 1, e.start, e.until),
                                     allowed |-> TRUE]
         /\ Refused(e) \/ Fresh(e) \/ Punished(e) \/ Counts(e)
<1>1. /\ e.count \in Nat /\ e.start \in Nat /\ e.until \in Nat /\ now \in Nat
      /\ Window \in Nat /\ MaxRequests \in Nat /\ MaxRequests > 0
  BY EntryFields, LimitAssumption DEF Times
<1>2. now - e.start >= Window <=> now >= e.start + Window
  BY <1>1
<1>3. ASSUME Refused(e)
      PROVE  Judge(e) = [entry |-> e, allowed |-> FALSE]
  BY <1>3, Zenon DEF Judge, Refused
<1>4. ASSUME Fresh(e)
      PROVE  Judge(e) = [entry |-> Entry(e, 1, now, e.until), allowed |-> TRUE]
  <2>1. Reopened(e, 0, now) = Entry(e, 0, now, e.until)
    BY ReopenedIs
  <2>2. [Entry(e, 0, now, e.until) EXCEPT !.count = 0 + 1] = Entry(e, 1, now, e.until)
    BY DEF Entry
  <2>3. Entry(e, 0, now, e.until).count = 0
    BY DEF Entry
  <2>4. ~(e.until > now) /\ now - e.start >= Window /\ ~(0 >= MaxRequests)
    BY <1>1, <1>2, <1>4 DEF Fresh, Refused
  <2> QED
    BY <2>1, <2>2, <2>3, <2>4, Zenon DEF Judge, Reopened
<1>5. ASSUME Punished(e)
      PROVE  Judge(e) = [entry |-> Entry(e, 0, now, now + Penalty), allowed |-> FALSE]
  <2>1. Penalised(e, 0, now, now + Penalty) = Entry(e, 0, now, now + Penalty)
    BY PenalisedIs
  <2>2. ~(e.until > now) /\ ~(now - e.start >= Window) /\ e.count >= MaxRequests
    BY <1>2, <1>5 DEF Fresh, Refused, Punished
  <2> QED
    BY <2>1, <2>2, Zenon DEF Judge, Penalised
<1>6. ASSUME Counts(e)
      PROVE  Judge(e) = [entry |-> Entry(e, e.count + 1, e.start, e.until),
                         allowed |-> TRUE]
  <2>1. [e EXCEPT !.count = e.count + 1] = Entry(e, e.count + 1, e.start, e.until)
    BY CountedIs
  <2>2. ~(e.until > now) /\ ~(now - e.start >= Window) /\ ~(e.count >= MaxRequests)
    BY <1>1, <1>2, <1>6 DEF Fresh, Refused, Counts
  <2> QED
    BY <2>1, <2>2, Zenon DEF Judge
<1>7. Refused(e) \/ Fresh(e) \/ Punished(e) \/ Counts(e)
  BY <1>1 DEF Refused, Fresh, Punished, Counts
<1> QED
  BY <1>3, <1>4, <1>5, <1>6, <1>7

LEMMA JudgeTyped ==
  ASSUME NEW e \in Honest, now \in Times
  PROVE  /\ Judge(e).entry \in Honest
         /\ Judge(e).entry.key = e.key /\ Judge(e).entry.cut = e.cut
         /\ Judge(e).allowed \in BOOLEAN
<1>1. now + Penalty \in 0..(MaxTime + Penalty)
  BY LimitAssumption DEF Times
<1>2. /\ e.count + 1 \in Nat /\ 0 \in Nat /\ 1 \in Nat
      /\ e.start \in Times /\ e.until \in 0..(MaxTime + Penalty)
  BY EntryFields
<1>3. ASSUME NEW n \in Honest, NEW b \in BOOLEAN, n.key = e.key, n.cut = e.cut,
             Judge(e) = [entry |-> n, allowed |-> b]
      PROVE  /\ Judge(e).entry \in Honest
             /\ Judge(e).entry.key = e.key /\ Judge(e).entry.cut = e.cut
             /\ Judge(e).allowed \in BOOLEAN
  <2>1. Judge(e).entry = n /\ Judge(e).allowed = b
    BY <1>3
  <2> QED
    BY <1>3, <2>1
<1>4. CASE Refused(e)
  BY <1>3, <1>4, JudgeCases, Zenon
<1>5. CASE Fresh(e)
  <2>1. /\ Entry(e, 1, now, e.until) \in Honest
        /\ Entry(e, 1, now, e.until).key = e.key
        /\ Entry(e, 1, now, e.until).cut = e.cut
    BY <1>2, EntryTyped
  <2> QED
    BY <1>3, <1>5, <2>1, JudgeCases, Zenon
<1>6. CASE Punished(e)
  <2>1. /\ Entry(e, 0, now, now + Penalty) \in Honest
        /\ Entry(e, 0, now, now + Penalty).key = e.key
        /\ Entry(e, 0, now, now + Penalty).cut = e.cut
    <3> DEFINE u == now + Penalty
    <3>1. u \in 0..(MaxTime + Penalty) /\ 0 \in Nat
      BY <1>1
    <3> HIDE DEF u
    <3>2. /\ Entry(e, 0, now, u) \in Honest
          /\ Entry(e, 0, now, u).key = e.key /\ Entry(e, 0, now, u).cut = e.cut
      BY <3>1, EntryTyped
    <3> QED
      BY <3>2 DEF u
  <2> QED
    BY <1>3, <1>6, <2>1, JudgeCases, Zenon
<1>7. CASE Counts(e)
  <2>1. /\ Entry(e, e.count + 1, e.start, e.until) \in Honest
        /\ Entry(e, e.count + 1, e.start, e.until).key = e.key
        /\ Entry(e, e.count + 1, e.start, e.until).cut = e.cut
    BY <1>2, EntryTyped
  <2> QED
    BY <1>3, <1>7, <2>1, JudgeCases, Zenon
<1> QED
  BY <1>4, <1>5, <1>6, <1>7, JudgeCases

LimiterType == [table : Seq(Honest), capacity : Nat \ {0}]

\* The other keys keep their places and their entries.
Untouched(t, u, k) ==
    \A j \in Keys \ {k} : /\ Find(u, j) = Find(t, j)
                          /\ Find(t, j) # 0 => u[Find(t, j)] = t[Find(t, j)]

\* The first request of a key.
FirstEntry(k) == Entry(NewEntry(k), 1, now, 0)

\* What check_rate_limit may do to the table for the key: nothing, if the table
\* is full and stays so; judge the entry; make an entry that is never found; or
\* make one that is.
Outcomes(t, u, k, c) ==
    \/ u = t /\ c.counted = FALSE
    \/ /\ Find(t, k) # 0 /\ Find(u, k) = Find(t, k)
       /\ u[Find(t, k)] = Judge(t[Find(t, k)]).entry
       /\ c.allowed = Judge(t[Find(t, k)]).allowed /\ c.counted = TRUE
    \/ Find(t, k) = 0 /\ Find(u, k) = 0 /\ c.counted = FALSE
    \/ /\ Find(t, k) = 0 /\ Find(u, k) # 0 /\ u[Find(u, k)] = FirstEntry(k)
       /\ c.allowed = TRUE /\ c.counted = TRUE

LEMMA NewEntryTyped ==
  ASSUME NEW k \in Keys, now \in Times
  PROVE  /\ NewEntry(k) \in Honest /\ NewEntry(k).key = k
         /\ NewEntry(k).cut = (k \in LongKeys)
         /\ NewEntry(k).count = 0 /\ NewEntry(k).start = now
         /\ NewEntry(k).until = 0
<1>1. (k \in LongKeys) \in BOOLEAN /\ 0 \in 0..(MaxTime + Penalty)
  BY LimitAssumption
<1> QED
  BY <1>1 DEF NewEntry, Honest, Entries

\* A new entry lets its first request through.
LEMMA JudgeNew ==
  ASSUME NEW k \in Keys, now \in Times
  PROVE  /\ Judge(NewEntry(k)) = [entry |-> FirstEntry(k), allowed |-> TRUE]
         /\ FirstEntry(k) \in Honest /\ FirstEntry(k).key = k
         /\ FirstEntry(k).cut = (k \in LongKeys)
         /\ FirstEntry(k).count = 1 /\ FirstEntry(k).start = now
         /\ FirstEntry(k).until = 0
<1> DEFINE e == NewEntry(k)
<1>1. /\ e \in Honest /\ e.key = k /\ e.cut = (k \in LongKeys)
      /\ e.count = 0 /\ e.start = now /\ e.until = 0
  BY NewEntryTyped
<1> HIDE DEF e
<1>2. now \in Nat /\ Window \in Nat /\ Window > 0 /\ MaxRequests \in Nat
      /\ MaxRequests > 0
  BY LimitAssumption DEF Times
<1>3. Counts(e)
  BY <1>1, <1>2 DEF Counts, Refused, Fresh
<1>4. Judge(e) = [entry |-> Entry(e, e.count + 1, e.start, e.until), allowed |-> TRUE]
  BY <1>1, <1>3, JudgeCases
<1>5. Entry(e, e.count + 1, e.start, e.until) = Entry(e, 1, now, 0)
  BY <1>1
<1>6. /\ Entry(e, 1, now, 0) \in Honest /\ Entry(e, 1, now, 0).key = e.key
      /\ Entry(e, 1, now, 0).cut = e.cut /\ Entry(e, 1, now, 0).count = 1
      /\ Entry(e, 1, now, 0).start = now /\ Entry(e, 1, now, 0).until = 0
  <2>1. 0 \in 0..(MaxTime + Penalty) /\ 1 \in Nat
    BY LimitAssumption
  <2> QED
    BY <1>1, <2>1, EntryTyped
<1> QED
  BY <1>1, <1>4, <1>5, <1>6 DEF e, FirstEntry

\* The entry of a key is judged where it stands.
LEMMA JudgedInPlace ==
  ASSUME now \in Times, NEW t \in Seq(Honest), NEW k \in Keys, Find(t, k) # 0,
         NEW u, u = [t EXCEPT ![Find(t, k)] = Judge(t[Find(t, k)]).entry]
  PROVE  /\ u \in Seq(Honest) /\ Len(u) = Len(t)
         /\ Find(u, k) = Find(t, k)
         /\ u[Find(t, k)] = Judge(t[Find(t, k)]).entry
         /\ Untouched(t, u, k)
<1> DEFINE i == Find(t, k)
           e == Judge(t[i]).entry
<1>1. i \in 1..Len(t) /\ t[i].key = k /\ Len(t) \in Nat
  BY Found, LenProperties DEF Matches
<1>2. t[i] \in Honest
  BY <1>1, ElementOfSeq
<1>3. e \in Honest /\ e.key = t[i].key /\ e.cut = t[i].cut
  <2> HIDE DEF i
  <2> QED
    BY <1>2, JudgeTyped
<1>4. /\ u \in Seq(Honest) /\ Len(u) = Len(t)
      /\ \A j \in 1..Len(t) : u[j] = IF j = i THEN e ELSE t[j]
  <2>1. u = [t EXCEPT ![i] = e]
    OBVIOUS
  <2>2. i \in 1..Len(t) /\ e \in Honest
    BY <1>1, <1>3
  <2> HIDE DEF i, e
  <2>3. /\ [t EXCEPT ![i] = e] \in Seq(Honest)
        /\ Len([t EXCEPT ![i] = e]) = Len(t)
        /\ \A j \in 1..Len(t) : [t EXCEPT ![i] = e][j] = IF j = i THEN e ELSE t[j]
    BY <2>2, ExceptSeq
  <2> QED
    BY <2>1, <2>3, Zenon
<1> HIDE DEF i, e
<1>5. \A j \in Keys : Find(u, j) = Find(t, j)
  <2>1. \A j \in 1..Len(t) : u[j].key = t[j].key /\ u[j].cut = t[j].cut
    BY <1>3, <1>4
  <2>2. u \in Seq(Honest) /\ Len(u) = Len(t)
    BY <1>4
  <2> QED
    BY <2>1, <2>2, SameKeys, Zenon
<1>6. ASSUME NEW j \in Keys \ {k}, Find(t, j) # 0
      PROVE  u[Find(t, j)] = t[Find(t, j)]
  <2>1. Find(t, j) \in 1..Len(t) /\ t[Find(t, j)].key = j
    BY <1>6, Found DEF Matches
  <2>2. Find(t, j) # i
    BY <1>1, <1>6, <2>1
  <2> QED
    BY <1>4, <2>1, <2>2
<1> QED
  BY <1>1, <1>4, <1>5, <1>6 DEF Untouched, i, e

\* An entry is made for a key that has none.
LEMMA MadeLast ==
  ASSUME now \in Times, NEW t \in Seq(Honest), NEW k \in Keys, Find(t, k) = 0,
         NEW u, u = Append(t, FirstEntry(k))
  PROVE  /\ u \in Seq(Honest) /\ Len(u) = Len(t) + 1
         /\ k \in LongKeys => Find(u, k) = 0
         /\ k \notin LongKeys => Find(u, k) # 0 /\ u[Find(u, k)] = FirstEntry(k)
         /\ Untouched(t, u, k)
<1> DEFINE e == FirstEntry(k)
<1>1. e \in Honest /\ e.key = k /\ e.cut = (k \in LongKeys)
  BY JudgeNew
<1> HIDE DEF e
<1>2. u = Append(t, e)
  BY DEF e
<1>3. /\ u \in Seq(Honest) /\ Len(u) = Len(t) + 1 /\ Len(t) \in Nat
      /\ u[Len(t) + 1] = e /\ \A j \in 1..Len(t) : u[j] = t[j]
  BY <1>1, <1>2, AppendProperties, LenProperties
<1>4. Matches(e, k) <=> k \notin LongKeys
  BY <1>1 DEF Matches
<1>5. Find(u, k) = IF Matches(e, k) THEN Len(t) + 1 ELSE 0
  BY <1>1, <1>2, FoundAppended
<1>6. ASSUME NEW j \in Keys \ {k}
      PROVE  /\ Find(u, j) = Find(t, j)
             /\ Find(t, j) # 0 => u[Find(t, j)] = t[Find(t, j)]
  <2>1. ~Matches(e, j)
    BY <1>1, <1>6 DEF Matches
  <2>2. Find(u, j) = Find(t, j)
    BY <1>1, <1>2, <2>1, FoundAppended
  <2>3. Find(t, j) # 0 => Find(t, j) \in 1..Len(t)
    BY Found
  <2> QED
    BY <1>3, <2>2, <2>3
<1>7. Len(t) + 1 # 0
  BY <1>3
<1> QED
  BY <1>3, <1>4, <1>5, <1>6, <1>7 DEF Untouched, e

\* The whole of check_rate_limit.
CheckEffect(lim, k, c) ==
    /\ c.limiter \in LimiterType
    /\ Len(c.limiter.table) <= c.limiter.capacity
    /\ Untouched(lim.table, c.limiter.table, k)
    /\ Outcomes(lim.table, c.limiter.table, k, c)

LEMMA CheckDoes ==
  ASSUME now \in Times, NEW lim \in LimiterType, Len(lim.table) <= lim.capacity,
         NEW k \in Keys, NEW grows \in BOOLEAN
  PROVE  CheckEffect(lim, k, check_rate_limit(lim, k, grows))
<1> DEFINE t == lim.table
           c == check_rate_limit(lim, k, grows)
           cap == IF IsFull(lim, k) THEN 2 * lim.capacity ELSE lim.capacity
<1>1. /\ t \in Seq(Honest) /\ lim.capacity \in Nat /\ lim.capacity # 0
      /\ Len(t) \in Nat /\ lim = [table |-> t, capacity |-> lim.capacity]
  BY LenProperties DEF LimiterType
<1>2. CASE IsFull(lim, k) /\ ~grows
  <2>1. c = [limiter |-> lim, allowed |-> TRUE, counted |-> FALSE]
    BY <1>2, Zenon DEF check_rate_limit
  <2>2. c.limiter = lim /\ c.counted = FALSE
    BY <2>1
  <2> HIDE DEF c
  <2> QED
    BY <2>2 DEF CheckEffect, Untouched, Outcomes, c
<1>3. CASE ~(IsFull(lim, k) /\ ~grows) /\ Find(t, k) # 0
  <2> DEFINE i == Find(t, k)
             u == [t EXCEPT ![i] = Judge(t[i]).entry]
  <2>1. /\ u \in Seq(Honest) /\ Len(u) = Len(t) /\ Find(u, k) = i
        /\ u[i] = Judge(t[i]).entry /\ Untouched(t, u, k)
    BY <1>1, <1>3, JudgedInPlace
  <2>2. ~IsFull(lim, k)
    BY <1>3 DEF IsFull
  <2>3. c = [limiter |-> [table |-> u, capacity |-> lim.capacity],
             allowed |-> Judge(t[i]).allowed, counted |-> k \notin LongKeys]
    BY <1>3, <2>2, Zenon DEF check_rate_limit
  <2>4. /\ c.limiter = [table |-> u, capacity |-> lim.capacity]
        /\ c.allowed = Judge(t[i]).allowed /\ c.counted = (k \notin LongKeys)
    <3> HIDE DEF u
    <3> QED
      BY <2>3
  <2>5. k \notin LongKeys
    <3>1. i \in 1..Len(t) /\ t[i].key = k /\ ~t[i].cut
      BY <1>1, <1>3, Found DEF Matches
    <3>2. t[i] \in Honest
      BY <1>1, <3>1, ElementOfSeq
    <3> QED
      BY <3>1, <3>2 DEF Honest
  <2> HIDE DEF u, c
  <2>6. c.limiter.table = u /\ c.limiter.capacity = lim.capacity
    BY <2>4
  <2>7. c.limiter \in LimiterType
    BY <1>1, <2>1, <2>4 DEF LimiterType
  <2>8. c.counted = TRUE
    BY <2>4, <2>5
  <2>9. Outcomes(t, u, k, c)
    BY <1>3, <2>1, <2>4, <2>8 DEF Outcomes
  <2> QED
    BY <2>1, <2>6, <2>7, <2>9 DEF CheckEffect, c
<1>4. CASE ~(IsFull(lim, k) /\ ~grows) /\ Find(t, k) = 0
  <2> DEFINE u == Append(t, FirstEntry(k))
             a == Append(t, NewEntry(k))
  <2>1. /\ u \in Seq(Honest) /\ Len(u) = Len(t) + 1
        /\ k \in LongKeys => Find(u, k) = 0
        /\ k \notin LongKeys => Find(u, k) # 0 /\ u[Find(u, k)] = FirstEntry(k)
        /\ Untouched(t, u, k)
    BY <1>1, <1>4, MadeLast
  <2>2. NewEntry(k) \in Honest /\ FirstEntry(k) \in Honest
    BY NewEntryTyped, JudgeNew
  <2>3. /\ a \in Seq(Honest) /\ Len(a) = Len(t) + 1
        /\ a[Len(t) + 1] = NewEntry(k) /\ \A j \in 1..Len(t) : a[j] = t[j]
    BY <1>1, <2>2, AppendProperties
  <2>4. /\ u[Len(t) + 1] = FirstEntry(k) /\ \A j \in 1..Len(t) : u[j] = t[j]
    BY <1>1, <2>2, AppendProperties
  <2> DEFINE n == Len(a)
             b == [a EXCEPT ![n] = FirstEntry(k)]
  <2>5. b = u
    <3>1. n \in 1..Len(a) /\ n = Len(t) + 1
      BY <1>1, <2>3
    <3>2. /\ b \in Seq(Honest) /\ Len(b) = Len(a)
          /\ \A j \in 1..Len(a) : b[j] = IF j = n THEN FirstEntry(k) ELSE a[j]
      <4> HIDE DEF a, n
      <4> QED
        BY <2>2, <2>3, <3>1, ExceptSeq
    <3>3. \A j \in 1..Len(a) : j = n \/ j \in 1..Len(t)
      BY <1>1, <2>3
    <3> HIDE DEF a, b, u, n
    <3>4. \A j \in 1..Len(b) : b[j] = u[j]
      BY <2>3, <2>4, <3>1, <3>2, <3>3
    <3> QED
      BY <2>1, <2>3, <3>2, <3>4, SeqEqual
  <2>6. Judge(a[n]) = [entry |-> FirstEntry(k), allowed |-> TRUE]
    BY <2>3, JudgeNew
  <2>7. c = [limiter |-> [table |-> [a EXCEPT ![n] = Judge(a[n]).entry],
                          capacity |-> cap],
             allowed |-> Judge(a[n]).allowed, counted |-> k \notin LongKeys]
    BY <1>4, Zenon DEF check_rate_limit
  <2>8. Judge(a[n]).entry = FirstEntry(k) /\ Judge(a[n]).allowed = TRUE
    BY <2>6
  <2>9. c.limiter = [table |-> u, capacity |-> cap] /\ c.allowed = TRUE
        /\ c.counted = (k \notin LongKeys)
    <3> HIDE DEF a, u, n, cap, c
    <3>1. [a EXCEPT ![n] = Judge(a[n]).entry] = u
      BY <2>5, <2>8, Zenon
    <3>2. c = [limiter |-> [table |-> u, capacity |-> cap],
               allowed |-> TRUE, counted |-> k \notin LongKeys]
      BY <2>7, <2>8, <3>1, Zenon
    <3> QED
      BY <3>2
  <2>10. cap \in Nat \ {0} /\ Len(t) + 1 <= cap
    BY <1>1, <1>4 DEF IsFull
  <2> HIDE DEF u, c, cap
  <2>11. c.limiter.table = u /\ c.limiter.capacity = cap
    BY <2>9
  <2>12. c.limiter \in LimiterType
    BY <2>1, <2>9, <2>10 DEF LimiterType
  <2>13. Outcomes(t, u, k, c)
    <3>1. CASE k \in LongKeys
      BY <1>4, <2>1, <2>9, <3>1 DEF Outcomes
    <3>2. CASE k \notin LongKeys
      <4>1. c.counted = TRUE
        BY <2>9, <3>2
      <4> QED
        BY <1>4, <2>1, <2>9, <3>2, <4>1 DEF Outcomes
    <3> QED
      BY <3>1, <3>2
  <2> QED
    BY <2>1, <2>10, <2>11, <2>12, <2>13 DEF CheckEffect, c
<1> QED
  BY <1>2, <1>3, <1>4

-----------------------------------------------------------------------------
(* The requests let through in a window *)

\* c[n] is the number of requests let through at ages below n.
Cumulative(p, c) ==
    /\ c \in [0..Window -> Nat]
    /\ c[0] = 0
    /\ \A a \in Ages : c[a + 1] = c[a] + p[a]
    /\ \A m, n \in 0..Window : m <= n => c[m] <= c[n]

\* What an entry says of the requests let through, at time t.  As long as its
\* window is open: no more than count since it began, none once it was over,
\* and no more than the limit in what is left of earlier windows.  From the
\* moment the key is refused: not more than twice the limit, none later.
Accounts(e, c, t) ==
    /\ e.start <= t
    /\ e.count <= MaxRequests
    /\ \/ /\ e.until <= e.start
          /\ \A n \in 0..Window : n + e.start <= t + 1 => c[n] <= e.count
          /\ \A n \in 0..Window : n + e.start >= t + 1 => c[Window] <= c[n] + MaxRequests
          /\ \A n \in 0..Window : n + e.start + Window <= t + 1 => c[n] = 0
       \/ /\ e.until = e.start + Penalty
          /\ c[Window] <= 2 * MaxRequests
          /\ \A n \in 0..Window : n + e.start <= t => c[n] = 0

HasAccount(e, p, t) == \E c : Cumulative(p, c) /\ Accounts(e, c, t)

LEMMA Numbers ==
  /\ Window \in Nat /\ Window > 0 /\ MaxRequests \in Nat /\ MaxRequests > 0
  /\ Penalty \in Nat /\ Penalty >= Window /\ MaxTime \in Nat
  /\ 0 \in 0..Window /\ 1 \in 0..Window /\ Window \in 0..Window /\ 0 \in Ages
BY LimitAssumption DEF Ages

\* One more request is let through now.
OneMore(p) == [p EXCEPT ![0] = @ + 1]

Raised(c) == [n \in 0..Window |-> IF n = 0 THEN 0 ELSE c[n] + 1]

LEMMA RaisedCounts ==
  ASSUME NEW p \in [Ages -> Nat], NEW c, Cumulative(p, c)
  PROVE  /\ Cumulative(OneMore(p), Raised(c))
         /\ Raised(c)[0] = 0
         /\ \A n \in 0..Window : n # 0 => Raised(c)[n] = c[n] + 1
<1>1. /\ c \in [0..Window -> Nat] /\ c[0] = 0
      /\ \A a \in Ages : c[a + 1] = c[a] + p[a]
      /\ \A m, n \in 0..Window : m <= n => c[m] <= c[n]
  BY DEF Cumulative
<1>2. /\ Raised(c)[0] = 0
      /\ \A n \in 0..Window : n # 0 => Raised(c)[n] = c[n] + 1
  BY Numbers DEF Raised
<1>3. Raised(c) \in [0..Window -> Nat]
  BY <1>1 DEF Raised
<1>4. \A a \in Ages : Raised(c)[a + 1] = Raised(c)[a] + OneMore(p)[a]
  <2> SUFFICES ASSUME NEW a \in Ages
               PROVE  Raised(c)[a + 1] = Raised(c)[a] + OneMore(p)[a]
    OBVIOUS
  <2>1. a \in 0..Window /\ a + 1 \in 0..Window /\ a + 1 # 0 /\ a \in Nat
    BY Numbers DEF Ages
  <2>2. OneMore(p)[a] = IF a = 0 THEN p[a] + 1 ELSE p[a]
    BY DEF OneMore
  <2>3. c[a] \in Nat /\ p[a] \in Nat /\ c[a + 1] = c[a] + p[a]
    BY <1>1, <2>1
  <2>4. Raised(c)[a + 1] = c[a] + p[a] + 1
    BY <1>2, <2>1, <2>3
  <2>5. CASE a = 0
    BY <1>1, <1>2, <2>2, <2>3, <2>4, <2>5
  <2>6. CASE a # 0
    BY <1>2, <2>1, <2>2, <2>3, <2>4, <2>6
  <2> QED
    BY <2>5, <2>6
<1>5. ASSUME NEW m \in 0..Window, NEW n \in 0..Window, m <= n
      PROVE  Raised(c)[m] <= Raised(c)[n]
  <2>1. c[m] <= c[n] /\ c[m] \in Nat /\ c[n] \in Nat
    BY <1>1, <1>5
  <2>2. CASE m = 0
    BY <1>2, <1>3, <2>2
  <2>3. CASE m # 0
    <3>1. n # 0
      BY <1>5, <2>3
    <3> QED
      BY <1>2, <2>1, <2>3, <3>1
  <2> QED
    BY <2>2, <2>3
<1> QED
  BY <1>2, <1>3, <1>4, <1>5 DEF Cumulative

\* Whatever becomes of an entry and its request, the account is kept.
LEMMA JudgeAccounts ==
  ASSUME now \in Times, NEW e \in Honest, NEW p \in [Ages -> Nat],
         HasAccount(e, p, now)
  PROVE  HasAccount(Judge(e).entry, IF Judge(e).allowed THEN OneMore(p) ELSE p, now)
<1>1. PICK c : Cumulative(p, c) /\ Accounts(e, c, now)
  BY DEF HasAccount
<1>2. /\ e.count \in Nat /\ e.start \in Nat /\ e.until \in Nat /\ now \in Nat
      /\ c \in [0..Window -> Nat] /\ c[0] = 0 /\ e.start \in Times
      /\ e.until \in 0..(MaxTime + Penalty)
      /\ \A m, n \in 0..Window : m <= n => c[m] <= c[n]
  BY <1>1, EntryFields DEF Cumulative, Times
<1>3. \A n \in 0..Window : c[n] \in Nat /\ n \in Nat
  BY <1>2
<1>r. PICK r : /\ Cumulative(OneMore(p), r)
               /\ r \in [0..Window -> Nat] /\ r[0] = 0
               /\ \A n \in 0..Window : n # 0 => r[n] = c[n] + 1
  <2>1. /\ Cumulative(OneMore(p), Raised(c)) /\ Raised(c)[0] = 0
        /\ \A n \in 0..Window : n # 0 => Raised(c)[n] = c[n] + 1
    BY <1>1, RaisedCounts
  <2>2. Raised(c) \in [0..Window -> Nat]
    BY <2>1 DEF Cumulative
  <2> QED
    BY <2>1, <2>2, Zenon
<1>4. CASE Refused(e)
  <2>1. Judge(e).entry = e /\ Judge(e).allowed = FALSE
    BY <1>4, JudgeCases
  <2> QED
    BY <2>1
<1>5. CASE Fresh(e)
  <2> DEFINE f == Entry(e, 1, now, e.until)
  <2>1. Judge(e).entry = f /\ Judge(e).allowed = TRUE
    BY <1>5, JudgeCases
  <2>2. f.count = 1 /\ f.start = now /\ f.until = e.until
    <3>1. 1 \in Nat /\ e.until \in 0..(MaxTime + Penalty)
      BY <1>2
    <3> QED
      BY <3>1, EntryTyped
  <2>3. e.until <= now /\ now >= e.start + Window
    BY <1>2, <1>5 DEF Fresh, Refused
  <2>4. c[1] = 0 /\ c[Window] <= MaxRequests
    <3>1. CASE e.until <= e.start
      <4>1. c[Window] <= e.count
        BY <1>1, <1>2, <2>3, <3>1, Numbers DEF Accounts
      <4>2. c[1] = 0
        BY <1>1, <1>2, <2>3, <3>1, Numbers DEF Accounts
      <4> QED
        BY <1>1, <1>2, <1>3, <4>1, <4>2, Numbers DEF Accounts
    <3>2. CASE ~(e.until <= e.start)
      <4>1. c[Window] = 0
        BY <1>1, <1>2, <2>3, <3>2, Numbers DEF Accounts
      <4>2. c[1] <= c[Window] /\ c[1] \in Nat
        BY <1>2, <1>3, Numbers
      <4> QED
        BY <4>1, <4>2, Numbers
    <3> QED
      BY <3>1, <3>2
  <2> HIDE DEF f
  <2>5. Accounts(f, r, now)
    <3>1. \A n \in 0..Window : n + f.start <= now + 1 => r[n] <= f.count
      <4> SUFFICES ASSUME NEW n \in 0..Window, n + f.start <= now + 1
                   PROVE  r[n] <= f.count
        OBVIOUS
      <4>1. n \in Nat /\ now \in Nat /\ n + now <= now + 1
        BY <1>2, <1>3, <2>2
      <4>2. n = 0 \/ n = 1
        BY <4>1
      <4>3. r[0] = 0 /\ r[1] = 1
        <5>1. r[1] = c[1] + 1 /\ c[1] = 0
          BY <1>r, <2>4, Numbers
        <5> QED
          BY <1>r, <5>1, Numbers
      <4> QED
        BY <2>2, <4>2, <4>3
    <3>2. \A n \in 0..Window : n + f.start >= now + 1
             => r[Window] <= r[n] + MaxRequests
      <4>1. r[Window] = c[Window] + 1
        BY <1>1, <1>r, Numbers
      <4> SUFFICES ASSUME NEW n \in 0..Window, n + f.start >= now + 1
                   PROVE  r[Window] <= r[n] + MaxRequests
        OBVIOUS
      <4>2. n # 0 /\ c[n] \in Nat /\ c[Window] \in Nat
        BY <1>2, <1>3, <2>2, Numbers
      <4>3. r[n] = c[n] + 1
        BY <1>r, <4>2
      <4> QED
        BY <2>4, <4>1, <4>2, <4>3, Numbers
    <3>3. \A n \in 0..Window : n + f.start + Window <= now + 1 => r[n] = 0
      BY <1>1, <1>2, <2>2, <1>r, Numbers
    <3>4. f.start <= now /\ f.count <= MaxRequests /\ f.until <= f.start
      BY <1>2, <2>2, <2>3, Numbers
    <3> QED
      BY <3>1, <3>2, <3>3, <3>4 DEF Accounts
  <2> QED
    BY <1>1, <2>1, <2>5, <1>r DEF HasAccount
<1>6. ASSUME Punished(e) \/ Counts(e)
      PROVE  /\ e.until <= e.start /\ now < e.start + Window /\ e.start <= now
             /\ e.count <= MaxRequests
             /\ \A n \in 0..Window : n + e.start <= now + 1 => c[n] <= e.count
             /\ \A n \in 0..Window : n + e.start >= now + 1
                   => c[Window] <= c[n] + MaxRequests
  <2>1. e.until <= now /\ now < e.start + Window
    BY <1>2, <1>6, Numbers DEF Punished, Counts, Fresh, Refused
  <2>2. ~(e.until = e.start + Penalty)
    BY <1>2, <2>1, Numbers
  <2> QED
    BY <1>1, <2>1, <2>2 DEF Accounts
<1>7. CASE Counts(e)
  <2> DEFINE f == Entry(e, e.count + 1, e.start, e.until)
  <2>1. Judge(e).entry = f /\ Judge(e).allowed = TRUE
    BY <1>7, JudgeCases
  <2>2. f.count = e.count + 1 /\ f.start = e.start /\ f.until = e.until
    <3> DEFINE n == e.count + 1
    <3>1. n \in Nat
      BY <1>2
    <3> HIDE DEF n
    <3>2. /\ Entry(e, n, e.start, e.until).count = n
          /\ Entry(e, n, e.start, e.until).start = e.start
          /\ Entry(e, n, e.start, e.until).until = e.until
      BY <3>1, EntryFields, EntryTyped
    <3> QED
      BY <3>2 DEF f, n
  <2>3. e.count < MaxRequests
    BY <1>7 DEF Counts
  <2> HIDE DEF f
  <2>5. Accounts(f, r, now)
    <3>1. \A n \in 0..Window : n + f.start <= now + 1 => r[n] <= f.count
      <4> SUFFICES ASSUME NEW n \in 0..Window, n + f.start <= now + 1
                   PROVE  r[n] <= f.count
        OBVIOUS
      <4>1. c[n] <= e.count /\ c[n] \in Nat
        BY <1>3, <1>6, <1>7, <2>2
      <4>2. CASE n = 0
        <5>1. r[n] = 0
          BY <1>r, <4>2
        <5> QED
          BY <1>2, <2>2, <5>1
      <4>3. CASE n # 0
        <5>1. r[n] = c[n] + 1
          BY <1>r, <4>3
        <5> QED
          BY <1>2, <2>2, <4>1, <5>1
      <4> QED
        BY <4>2, <4>3
    <3>2. \A n \in 0..Window : n + f.start >= now + 1
             => r[Window] <= r[n] + MaxRequests
      <4>1. r[Window] = c[Window] + 1 /\ c[Window] \in Nat
        BY <1>1, <1>3, <1>r, Numbers
      <4> SUFFICES ASSUME NEW n \in 0..Window, n + f.start >= now + 1
                   PROVE  r[Window] <= r[n] + MaxRequests
        OBVIOUS
      <4>2. n # 0 /\ c[Window] <= c[n] + MaxRequests /\ c[n] \in Nat
        BY <1>2, <1>3, <1>6, <1>7, <2>2
      <4>3. r[n] = c[n] + 1
        BY <1>1, <4>2, <1>r
      <4> QED
        BY <4>1, <4>2, <4>3, Numbers
    <3>3. \A n \in 0..Window : n + f.start + Window <= now + 1 => r[n] = 0
      <4> SUFFICES ASSUME NEW n \in 0..Window, n + f.start + Window <= now + 1
                   PROVE  r[n] = 0
        OBVIOUS
      <4>1. now < e.start + Window
        BY <1>6, <1>7
      <4>2. n = 0
        BY <1>2, <2>2, <4>1, Numbers
      <4> QED
        BY <1>r, <4>2
    <3>4. f.start <= now /\ f.count <= MaxRequests /\ f.until <= f.start
      BY <1>2, <1>6, <1>7, <2>2, <2>3, Numbers
    <3> QED
      BY <3>1, <3>2, <3>3, <3>4 DEF Accounts
  <2> QED
    BY <1>1, <2>1, <2>5, <1>r DEF HasAccount
<1>8. CASE Punished(e)
  <2> DEFINE f == Entry(e, 0, now, now + Penalty)
  <2>1. Judge(e).entry = f /\ Judge(e).allowed = FALSE
    BY <1>8, JudgeCases
  <2>2. f.count = 0 /\ f.start = now /\ f.until = now + Penalty
    <3>1. now + Penalty \in 0..(MaxTime + Penalty)
      BY Numbers DEF Times
    <3> QED
      BY <3>1, EntryTyped
  <2> HIDE DEF f
  <2>3. c[Window] <= 2 * MaxRequests
    <3>1. CASE Window + e.start <= now + 1
      <4>1. c[Window] <= e.count
        BY <1>6, <1>8, <3>1, Numbers
      <4> QED
        BY <1>2, <1>3, <1>6, <1>8, <4>1, Numbers
    <3>2. CASE ~(Window + e.start <= now + 1)
      <4> DEFINE n == now + 1 - e.start
      <4>1. n \in 0..Window /\ n + e.start = now + 1
        <5>1. e.start <= now /\ now + 1 < Window + e.start
          BY <1>2, <1>6, <1>8, <3>2, Numbers
        <5>2. e.start \in Nat /\ now \in Nat /\ Window \in Nat
          BY <1>2, Numbers
        <5>3. \A a, b, w \in Nat : a <= b /\ b + 1 < w + a =>
                 b + 1 - a \in 0..w /\ (b + 1 - a) + a = b + 1
          OBVIOUS
        <5> QED
          BY <5>1, <5>2, <5>3
      <4> HIDE DEF n
      <4>2. c[n] <= e.count /\ c[Window] <= c[n] + MaxRequests
        BY <1>2, <1>6, <1>8, <4>1
      <4> QED
        BY <1>2, <1>3, <1>6, <1>8, <4>1, <4>2, Numbers
    <3> QED
      BY <3>1, <3>2
  <2>4. Accounts(f, c, now)
    <3>1. \A n \in 0..Window : n + f.start <= now => c[n] = 0
      BY <1>2, <1>3, <2>2
    <3>2. f.start <= now /\ f.count <= MaxRequests /\ f.until = f.start + Penalty
      BY <1>2, <2>2, Numbers
    <3> QED
      BY <2>3, <3>1, <3>2 DEF Accounts
  <2> QED
    BY <1>1, <2>1, <2>4 DEF HasAccount
<1> QED
  BY <1>4, <1>5, <1>7, <1>8, JudgeCases

NonePassed == [a \in Ages |-> 0]

\* The first request of a key opens its account.
LEMMA FirstAccounts ==
  ASSUME now \in Times, NEW k \in Keys
  PROVE  /\ NonePassed \in [Ages -> Nat]
         /\ HasAccount(FirstEntry(k), OneMore(NonePassed), now)
<1> DEFINE zero == [n \in 0..Window |-> 0]
<1>1. NonePassed \in [Ages -> Nat] /\ \A a \in Ages : NonePassed[a] = 0
  BY DEF NonePassed
<1>2. zero \in [0..Window -> Nat] /\ \A n \in 0..Window : zero[n] = 0
  OBVIOUS
<1> HIDE DEF zero
<1>3. Cumulative(NonePassed, zero)
  <2>1. \A a \in Ages : a \in 0..Window /\ a + 1 \in 0..Window
    BY Numbers DEF Ages
  <2> QED
    BY <1>1, <1>2, <2>1, Numbers DEF Cumulative
<1>4. PICK r : /\ Cumulative(OneMore(NonePassed), r)
               /\ r[0] = 0 /\ \A n \in 0..Window : n # 0 => r[n] = zero[n] + 1
  BY <1>1, <1>3, RaisedCounts, Zenon
<1>5. \A n \in 0..Window : n # 0 => r[n] = 1
  BY <1>2, <1>4
<1> DEFINE f == FirstEntry(k)
<1>6. f.count = 1 /\ f.start = now /\ f.until = 0
  BY JudgeNew
<1> HIDE DEF f
<1>7. Accounts(f, r, now)
  <2>1. now \in Nat
    BY DEF Times
  <2>2. \A n \in 0..Window : n + f.start <= now + 1 => r[n] <= f.count
    <3>1. \A n \in 0..Window : r[n] <= 1
      BY <1>4, <1>5
    <3> QED
      BY <1>6, <3>1
  <2>3. \A n \in 0..Window : n + f.start >= now + 1 => r[Window] <= r[n] + MaxRequests
    <3> SUFFICES ASSUME NEW n \in 0..Window, n + f.start >= now + 1
                 PROVE  r[Window] <= r[n] + MaxRequests
      OBVIOUS
    <3>1. n # 0
      BY <1>6, <2>1
    <3>2. r[Window] = 1 /\ r[n] = 1
      BY <1>5, <3>1, Numbers
    <3> QED
      BY <3>2, Numbers
  <2>4. \A n \in 0..Window : n + f.start + Window <= now + 1 => r[n] = 0
    <3> SUFFICES ASSUME NEW n \in 0..Window, n + f.start + Window <= now + 1
                 PROVE  r[n] = 0
      OBVIOUS
    <3>1. n = 0
      BY <1>6, <2>1, Numbers
    <3> QED
      BY <1>4, <3>1
  <2>5. f.start <= now /\ f.count <= MaxRequests /\ f.until <= f.start
    BY <1>6, <2>1, Numbers
  <2> QED
    BY <2>2, <2>3, <2>4, <2>5 DEF Accounts
<1> QED
  BY <1>1, <1>4, <1>7 DEF HasAccount, f

\* A second later every request let through is a second older.
Older(p) == [a \in Ages |-> IF a = 0 THEN 0 ELSE p[a - 1]]

LEMMA TimeAccounts ==
  ASSUME NEW e \in Honest, NEW p \in [Ages -> Nat], NEW t \in Nat, HasAccount(e, p, t)
  PROVE  /\ Older(p) \in [Ages -> Nat]
         /\ HasAccount(e, Older(p), t + 1)
<1>1. PICK c : Cumulative(p, c) /\ Accounts(e, c, t)
  BY DEF HasAccount
<1>2. /\ e.count \in Nat /\ e.start \in Nat /\ e.until \in Nat
      /\ c \in [0..Window -> Nat] /\ c[0] = 0
      /\ \A a \in Ages : c[a + 1] = c[a] + p[a]
      /\ \A m, n \in 0..Window : m <= n => c[m] <= c[n]
  BY <1>1, EntryFields DEF Cumulative
<1> DEFINE d == [n \in 0..Window |-> IF n = 0 THEN 0 ELSE c[n - 1]]
           q == Older(p)
<1>3. \A n \in 0..Window : n # 0 => n - 1 \in 0..Window /\ n - 1 \in Nat /\ n \in Nat
  BY Numbers
<1>4. \A a \in Ages : a # 0 => a - 1 \in Ages
  BY Numbers DEF Ages
<1>5. q \in [Ages -> Nat] /\ \A a \in Ages : q[a] = IF a = 0 THEN 0 ELSE p[a - 1]
  BY <1>4 DEF Older
<1>6. /\ d \in [0..Window -> Nat] /\ d[0] = 0
      /\ \A n \in 0..Window : n # 0 => d[n] = c[n - 1]
  BY <1>2, <1>3, Numbers
<1> HIDE DEF d, q
<1>7. Cumulative(q, d)
  <2>1. ASSUME NEW a \in Ages
        PROVE  d[a + 1] = d[a] + q[a]
    <3>1. a \in 0..Window /\ a + 1 \in 0..Window /\ a + 1 # 0 /\ (a + 1) - 1 = a
          /\ a \in Nat
      BY Numbers DEF Ages
    <3>2. d[a + 1] = c[a]
      BY <1>6, <3>1
    <3>3. CASE a = 0
      BY <1>2, <1>5, <1>6, <3>2, <3>3
    <3>4. CASE a # 0
      <4>1. a - 1 \in Ages /\ (a - 1) + 1 = a
        BY <1>4, <3>1, <3>4
      <4>2. c[a] = c[a - 1] + p[a - 1]
        BY <1>2, <4>1
      <4>3. d[a] = c[a - 1] /\ q[a] = p[a - 1]
        BY <1>5, <1>6, <3>1, <3>4
      <4> QED
        BY <3>2, <4>2, <4>3
    <3> QED
      BY <3>3, <3>4
  <2>2. ASSUME NEW m \in 0..Window, NEW n \in 0..Window, m <= n
        PROVE  d[m] <= d[n]
    <3>1. CASE m = 0
      BY <1>6, <3>1
    <3>2. CASE m # 0
      <4>1. n # 0 /\ m - 1 <= n - 1
        BY <2>2, <3>2
      <4>2. m - 1 \in 0..Window /\ n - 1 \in 0..Window
        BY <1>3, <3>2, <4>1
      <4>3. c[m - 1] <= c[n - 1]
        BY <1>2, <4>1, <4>2
      <4> QED
        BY <1>6, <3>2, <4>1, <4>3
    <3> QED
      BY <3>1, <3>2
  <2> QED
    BY <1>6, <2>1, <2>2 DEF Cumulative
<1>8. d[Window] <= c[Window] /\ c[Window] \in Nat /\ d[Window] \in Nat
  <2>1. Window # 0 /\ Window - 1 \in 0..Window /\ Window - 1 <= Window
    BY Numbers
  <2>2. d[Window] = c[Window - 1] /\ c[Window - 1] <= c[Window]
    BY <1>2, <1>6, <2>1, Numbers
  <2> QED
    BY <1>2, <1>6, <2>2, Numbers
<1>9. Accounts(e, d, t + 1)
  <2>1. e.start <= t + 1 /\ e.count <= MaxRequests /\ e.start <= t
    BY <1>1, <1>2 DEF Accounts
  <2>2. CASE /\ e.until <= e.start
             /\ \A n \in 0..Window : n + e.start <= t + 1 => c[n] <= e.count
             /\ \A n \in 0..Window : n + e.start >= t + 1
                   => c[Window] <= c[n] + MaxRequests
             /\ \A n \in 0..Window : n + e.start + Window <= t + 1 => c[n] = 0
    <3>1. ASSUME NEW n \in 0..Window, n + e.start <= (t + 1) + 1
          PROVE  d[n] <= e.count
      <4>1. CASE n = 0
        BY <1>2, <1>6, <4>1
      <4>2. CASE n # 0
        <5>1. n - 1 \in 0..Window /\ (n - 1) + e.start <= t + 1
          BY <1>2, <1>3, <3>1, <4>2
        <5>2. c[n - 1] <= e.count
          BY <2>2, <5>1
        <5> QED
          BY <1>6, <4>2, <5>2
      <4> QED
        BY <4>1, <4>2
    <3>2. ASSUME NEW n \in 0..Window, n + e.start >= (t + 1) + 1
          PROVE  d[Window] <= d[n] + MaxRequests
      <4>1. n # 0
        BY <1>2, <2>1, <3>2
      <4>2. n - 1 \in 0..Window /\ (n - 1) + e.start >= t + 1
        BY <1>2, <1>3, <3>2, <4>1
      <4>3. c[Window] <= c[n - 1] + MaxRequests /\ c[n - 1] \in Nat
        BY <1>2, <2>2, <4>2
      <4>4. d[n] = c[n - 1]
        BY <1>6, <4>1
      <4> QED
        BY <1>8, <4>3, <4>4, Numbers
    <3>3. ASSUME NEW n \in 0..Window, n + e.start + Window <= (t + 1) + 1
          PROVE  d[n] = 0
      <4>1. CASE n = 0
        BY <1>6, <4>1
      <4>2. CASE n # 0
        <5>1. n - 1 \in 0..Window /\ (n - 1) + e.start + Window <= t + 1
          BY <1>2, <1>3, <3>3, <4>2, Numbers
        <5>2. c[n - 1] = 0
          BY <2>2, <5>1
        <5> QED
          BY <1>6, <4>2, <5>2
      <4> QED
        BY <4>1, <4>2
    <3> QED
      BY <2>1, <2>2, <3>1, <3>2, <3>3 DEF Accounts
  <2>3. CASE /\ e.until = e.start + Penalty
             /\ c[Window] <= 2 * MaxRequests
             /\ \A n \in 0..Window : n + e.start <= t => c[n] = 0
    <3>1. ASSUME NEW n \in 0..Window, n + e.start <= t + 1
          PROVE  d[n] = 0
      <4>1. CASE n = 0
        BY <1>6, <4>1
      <4>2. CASE n # 0
        <5>1. n - 1 \in 0..Window /\ (n - 1) + e.start <= t
          BY <1>2, <1>3, <3>1, <4>2
        <5>2. c[n - 1] = 0
          BY <2>3, <5>1
        <5> QED
          BY <1>6, <4>2, <5>2
      <4> QED
        BY <4>1, <4>2
    <3>2. d[Window] <= 2 * MaxRequests
      BY <1>8, <2>3, Numbers
    <3> QED
      BY <2>1, <2>3, <3>1, <3>2 DEF Accounts
  <2> QED
    BY <1>1, <2>2, <2>3 DEF Accounts
<1> QED
  BY <1>5, <1>7, <1>9 DEF HasAccount, q

\* An account never shows more than twice the limit.
LEMMA TotalWithin ==
  ASSUME NEW e \in Honest, NEW p, NEW t \in Nat, HasAccount(e, p, t)
  PROVE  \E c : Cumulative(p, c) /\ c[Window] <= 2 * MaxRequests
<1>1. PICK c : Cumulative(p, c) /\ Accounts(e, c, t)
  BY DEF HasAccount
<1>2. /\ e.count \in Nat /\ e.start \in Nat
      /\ c \in [0..Window -> Nat] /\ c[Window] \in Nat
  BY <1>1, EntryFields, Numbers DEF Cumulative
<1>3. e.start <= t /\ e.count <= MaxRequests
  BY <1>1 DEF Accounts
<1>4. CASE /\ \A n \in 0..Window : n + e.start <= t + 1 => c[n] <= e.count
           /\ \A n \in 0..Window : n + e.start >= t + 1
                 => c[Window] <= c[n] + MaxRequests
  <2>1. CASE Window + e.start <= t + 1
    <3>1. c[Window] <= e.count
      BY <1>4, <2>1, Numbers
    <3> QED
      BY <1>1, <1>2, <1>3, <3>1, Numbers
  <2>2. CASE ~(Window + e.start <= t + 1)
    <3> DEFINE n == t + 1 - e.start
    <3>1. e.start \in Nat /\ Window \in Nat /\ e.start <= t /\ t + 1 < Window + e.start
      BY <1>2, <1>3, <2>2, Numbers
    <3>2. \A a, b, w \in Nat : a <= b /\ b + 1 < w + a =>
             b + 1 - a \in 0..w /\ (b + 1 - a) + a = b + 1
      OBVIOUS
    <3>s. n \in 0..Window /\ n + e.start = t + 1
      BY <3>1, <3>2
    <3> HIDE DEF n
    <3>3. c[n] <= e.count /\ c[Window] <= c[n] + MaxRequests /\ c[n] \in Nat
      BY <1>2, <1>4, <3>s
    <3> QED
      BY <1>1, <1>2, <1>3, <3>3, Numbers
  <2> QED
    BY <2>1, <2>2
<1> QED
  BY <1>1, <1>4 DEF Accounts

-----------------------------------------------------------------------------
(* Sums over a finite set.  MapThenSumSet is a recursive function on the    *)
(* subsets; that there is one, and what it returns, is shown by taking a    *)
(* least counterexample.                                                   *)

Pick(s) == CHOOSE x \in s : TRUE

\* What the sum of a set is, if g has the sums of smaller ones.
SumStep(f, s, g) ==
    IF s = {} THEN 0 ELSE f[Pick(s)] + g[s \ {Pick(s)}]

Sums(f, T) == CHOOSE g : g = [s \in SUBSET T |-> SumStep(f, s, g)]

LEMMA PickSmaller ==
  ASSUME NEW T, IsFiniteSet(T), NEW s \in SUBSET T
  PROVE  /\ Cardinality(s) \in Nat
         /\ s # {} => /\ Pick(s) \in s
                      /\ s \ {Pick(s)} \in SUBSET T
                      /\ Cardinality(s \ {Pick(s)}) = Cardinality(s) - 1
         /\ s = {} <=> Cardinality(s) = 0
<1>1. IsFiniteSet(s)
  BY FS_Subset
<1>2. Cardinality(s) \in Nat
  BY <1>1, FS_CardinalityType
<1>3. s # {} => Pick(s) \in s
  BY DEF Pick
<1>4. s # {} => Cardinality(s \ {Pick(s)}) = Cardinality(s) - 1
  BY <1>1, <1>3, FS_RemoveElement
<1>5. s = {} <=> Cardinality(s) = 0
  BY <1>1, FS_EmptySet
<1> QED
  BY <1>2, <1>3, <1>4, <1>5

\* A function satisfies the equation for sets up to a size.
HasSums(f, T, n) ==
    \E g \in [SUBSET T -> Nat] : \A s \in SUBSET T :
        Cardinality(s) <= n => g[s] = SumStep(f, s, g)

LEMMA SumsUpTo ==
  ASSUME NEW T, IsFiniteSet(T), NEW f \in [T -> Nat], NEW n \in Nat
  PROVE  HasSums(f, T, n)
<1> DEFINE Bad == {k \in Nat : ~HasSums(f, T, k)}
<1>1. HasSums(f, T, 0)
  <2> DEFINE g == [s \in SUBSET T |-> 0]
  <2>1. g \in [SUBSET T -> Nat]
    OBVIOUS
  <2>2. ASSUME NEW s \in SUBSET T, Cardinality(s) <= 0
        PROVE  g[s] = SumStep(f, s, g)
    <3>1. Cardinality(s) \in Nat /\ (s = {} <=> Cardinality(s) = 0)
      BY PickSmaller
    <3>2. s = {}
      BY <2>2, <3>1
    <3> QED
      BY <3>2 DEF SumStep
  <2> QED
    BY <2>1, <2>2 DEF HasSums
<1>2. ASSUME NEW k \in Nat, HasSums(f, T, k)
      PROVE  HasSums(f, T, k + 1)
  <2>1. PICK g \in [SUBSET T -> Nat] : \A s \in SUBSET T :
               Cardinality(s) <= k => g[s] = SumStep(f, s, g)
    BY <1>2 DEF HasSums
  <2> DEFINE h == [s \in SUBSET T |->
                     IF Cardinality(s) <= k THEN g[s] ELSE SumStep(f, s, g)]
  <2>2. \A s \in SUBSET T : SumStep(f, s, g) \in Nat
    BY PickSmaller DEF SumStep
  <2>3. h \in [SUBSET T -> Nat]
    BY <2>2
  <2>4. \A s \in SUBSET T : Cardinality(s) <= k => h[s] = g[s]
    OBVIOUS
  <2>5. \A s \in SUBSET T : h[s] = SumStep(f, s, g)
    BY <2>1
  <2> HIDE DEF h
  <2>6. ASSUME NEW s \in SUBSET T, Cardinality(s) <= k + 1
        PROVE  h[s] = SumStep(f, s, h)
    <3>1. CASE s = {}
      BY <2>5, <3>1 DEF SumStep
    <3>2. CASE s # {}
      <4>1. h[s \ {Pick(s)}] = g[s \ {Pick(s)}]
        BY <2>4, <2>6, <3>2, PickSmaller
      <4> QED
        BY <2>5, <4>1 DEF SumStep
    <3> QED
      BY <3>1, <3>2
  <2> QED
    BY <2>3, <2>6 DEF HasSums
<1>3. Bad = {}
  <2> SUFFICES ASSUME Bad # {} PROVE FALSE
    OBVIOUS
  <2>1. PICK k \in Bad : \A j \in Bad : k <= j
    BY HasLeast
  <2>2. k \in Nat /\ k # 0 /\ ~HasSums(f, T, k)
    BY <1>1
  <2>3. k - 1 \in Nat /\ k - 1 \notin Bad
    BY <2>1, <2>2
  <2>4. HasSums(f, T, k - 1)
    BY <2>3
  <2>5. HasSums(f, T, (k - 1) + 1)
    BY <1>2, <2>3, <2>4
  <2> QED
    BY <2>2, <2>5
<1> QED
  BY <1>3

\* So MapThenSumSet satisfies its equation.
LEMMA SumsEquation ==
  ASSUME NEW T, IsFiniteSet(T), NEW f \in [T -> Nat]
  PROVE  \A s \in SUBSET T : Sums(f, T)[s] = SumStep(f, s, Sums(f, T))
<1> DEFINE n == Cardinality(T)
<1>1. n \in Nat /\ \A s \in SUBSET T : Cardinality(s) <= n
  BY FS_CardinalityType, FS_Subset
<1> HIDE DEF n
<1>2. PICK g \in [SUBSET T -> Nat] : \A s \in SUBSET T :
               Cardinality(s) <= n => g[s] = SumStep(f, s, g)
  <2>1. HasSums(f, T, n)
    BY <1>1, SumsUpTo
  <2> QED
    BY <2>1 DEF HasSums
<1>3. g = [s \in SUBSET T |-> SumStep(f, s, g)]
  BY <1>1, <1>2
<1>4. Sums(f, T) = [s \in SUBSET T |-> SumStep(f, s, Sums(f, T))]
  BY <1>3, Zenon DEF Sums
<1> QED
  BY <1>4

LEMMA SumsNatural ==
  ASSUME NEW T, IsFiniteSet(T), NEW f \in [T -> Nat]
  PROVE  \A s \in SUBSET T : Sums(f, T)[s] \in Nat
<1> DEFINE Bad == {Cardinality(s) : s \in {r \in SUBSET T :
                                             Sums(f, T)[r] \notin Nat}}
<1>1. SUFFICES Bad = {}
  OBVIOUS
<1>2. SUFFICES ASSUME Bad # {} PROVE FALSE
  OBVIOUS
<1>3. Bad \subseteq Nat
  <2>1. \A r \in SUBSET T : Cardinality(r) \in Nat
    BY PickSmaller
  <2> QED
    BY <2>1
<1>4. PICK k \in Bad : \A j \in Bad : k <= j
  <2> HIDE DEF Bad
  <2> QED
    BY <1>2, <1>3, HasLeast
<1>5. PICK s \in SUBSET T : Sums(f, T)[s] \notin Nat /\ Cardinality(s) = k
  OBVIOUS
<1>6. s # {} /\ Sums(f, T)[s] = f[Pick(s)] + Sums(f, T)[s \ {Pick(s)}]
  BY <1>5, SumsEquation DEF SumStep
<1>7. /\ Pick(s) \in s /\ s \ {Pick(s)} \in SUBSET T
      /\ Cardinality(s \ {Pick(s)}) = k - 1 /\ k \in Nat
  BY <1>5, <1>6, PickSmaller
<1>8. Sums(f, T)[s \ {Pick(s)}] \in Nat
  <2>1. k - 1 \notin Bad
    BY <1>4, <1>7
  <2> QED
    BY <1>7, <2>1
<1> QED
  BY <1>5, <1>6, <1>7, <1>8

\* Adding to one number adds to the sum of every set that has it.
LEMMA SumsAdd ==
  ASSUME NEW T, IsFiniteSet(T), NEW f \in [T -> Nat], NEW t \in T,
         NEW a \in Nat, NEW h \in [T -> Nat],
         h[t] = f[t] + a, \A x \in T \ {t} : h[x] = f[x]
  PROVE  Sums(h, T)[T] = Sums(f, T)[T] + a
<1> DEFINE more(s) == IF t \in s THEN a ELSE 0
           Bad == {Cardinality(s) : s \in {r \in SUBSET T :
                      Sums(h, T)[r] # Sums(f, T)[r] + more(r)}}
<1>1. SUFFICES Bad = {}
  <2>1. Sums(h, T)[T] = Sums(f, T)[T] + more(T)
    BY <1>1
  <2> QED
    BY <2>1
<1>2. SUFFICES ASSUME Bad # {} PROVE FALSE
  OBVIOUS
<1>3. Bad \subseteq Nat
  <2>1. \A r \in SUBSET T : Cardinality(r) \in Nat
    BY PickSmaller
  <2> QED
    BY <2>1
<1>4. PICK k \in Bad : \A j \in Bad : k <= j
  <2> HIDE DEF Bad
  <2> QED
    BY <1>2, <1>3, HasLeast
<1>5. PICK s \in SUBSET T :
         Sums(h, T)[s] # Sums(f, T)[s] + more(s) /\ Cardinality(s) = k
  OBVIOUS
<1>6. s # {}
  BY <1>5, SumsEquation DEF SumStep
<1>7. /\ Pick(s) \in s /\ s \ {Pick(s)} \in SUBSET T
      /\ Cardinality(s \ {Pick(s)}) = k - 1 /\ k \in Nat
  BY <1>5, <1>6, PickSmaller
<1> DEFINE r == s \ {Pick(s)}
<1>8. Sums(h, T)[r] = Sums(f, T)[r] + more(r)
  <2>1. k - 1 \notin Bad
    BY <1>4, <1>7
  <2> QED
    BY <1>7, <2>1
<1>9. /\ Sums(h, T)[s] = h[Pick(s)] + Sums(h, T)[r]
      /\ Sums(f, T)[s] = f[Pick(s)] + Sums(f, T)[r]
  BY <1>6, SumsEquation DEF SumStep
<1>10. Sums(h, T)[r] \in Nat /\ Sums(f, T)[r] \in Nat
  BY <1>7, SumsNatural
<1>11. f[Pick(s)] \in Nat /\ h[Pick(s)] \in Nat
  BY <1>7
<1>12. CASE Pick(s) = t
  <2>1. more(s) = a /\ more(r) = 0 /\ h[Pick(s)] = f[Pick(s)] + a
    BY <1>7, <1>12
  <2> HIDE DEF more, r
  <2> QED
    BY <1>5, <1>8, <1>9, <1>10, <1>11, <2>1
<1>13. CASE Pick(s) # t
  <2>1. more(s) = more(r) /\ h[Pick(s)] = f[Pick(s)] /\ more(r) \in Nat
    BY <1>7, <1>13
  <2> HIDE DEF more, r
  <2> QED
    BY <1>5, <1>8, <1>9, <1>10, <1>11, <2>1
<1> QED
  BY <1>12, <1>13

LEMMA SumsZero ==
  ASSUME NEW T, IsFiniteSet(T), NEW f \in [T -> Nat], \A x \in T : f[x] = 0
  PROVE  Sums(f, T)[T] = 0
<1> DEFINE Bad == {Cardinality(s) : s \in {r \in SUBSET T : Sums(f, T)[r] # 0}}
<1>1. SUFFICES Bad = {}
  OBVIOUS
<1>2. SUFFICES ASSUME Bad # {} PROVE FALSE
  OBVIOUS
<1>3. Bad \subseteq Nat
  <2>1. \A r \in SUBSET T : Cardinality(r) \in Nat
    BY PickSmaller
  <2> QED
    BY <2>1
<1>4. PICK k \in Bad : \A j \in Bad : k <= j
  <2> HIDE DEF Bad
  <2> QED
    BY <1>2, <1>3, HasLeast
<1>5. PICK s \in SUBSET T : Sums(f, T)[s] # 0 /\ Cardinality(s) = k
  OBVIOUS
<1>6. s # {} /\ Sums(f, T)[s] = f[Pick(s)] + Sums(f, T)[s \ {Pick(s)}]
  BY <1>5, SumsEquation DEF SumStep
<1>7. /\ Pick(s) \in s /\ s \ {Pick(s)} \in SUBSET T
      /\ Cardinality(s \ {Pick(s)}) = k - 1 /\ k \in Nat
  BY <1>5, <1>6, PickSmaller
<1>8. Sums(f, T)[s \ {Pick(s)}] = 0
  <2>1. k - 1 \notin Bad
    BY <1>4, <1>7
  <2> QED
    BY <1>7, <2>1
<1>9. f[Pick(s)] = 0
  BY <1>7
<1> QED
  BY <1>5, <1>6, <1>8, <1>9

\* MapThenSumSet as it is used for the requests let through.
LEMMA SumIsMapThenSum ==
  ASSUME NEW k
  PROVE  MapThenSumSet(LAMBDA a : passes[k][a], Ages) = Sums(passes[k], Ages)[Ages]
<1> DEFINE f == passes[k]
           G(g) == [s \in SUBSET Ages |->
                      IF s = {} THEN 0 ELSE passes[k][Pick(s)] + g[s \ {Pick(s)}]]
<1>1. MapThenSumSet(LAMBDA a : passes[k][a], Ages) = (CHOOSE g : g = G(g))[Ages]
  BY Zenon DEF MapThenSumSet, MapThenFoldSet, Pick
<1>2. ASSUME NEW g
      PROVE  G(g) = [s \in SUBSET Ages |-> SumStep(f, s, g)]
  BY DEF SumStep
<1>3. (CHOOSE g : g = G(g))
         = (CHOOSE g : g = [s \in SUBSET Ages |-> SumStep(f, s, g)])
  <2> HIDE DEF f, G
  <2> QED
    BY <1>2, Zenon
<1> QED
  BY <1>1, <1>3 DEF Sums

\* The requests of the first ages only.
Youngest(p, n) == [a \in Ages |-> IF a < n THEN p[a] ELSE 0]

\* The sum over all ages is the last of the cumulative numbers.
LEMMA CumulativeIsSum ==
  ASSUME NEW p \in [Ages -> Nat], NEW c, Cumulative(p, c)
  PROVE  Sums(p, Ages)[Ages] = c[Window]
<1>1. /\ c \in [0..Window -> Nat] /\ c[0] = 0
      /\ \A a \in Ages : c[a + 1] = c[a] + p[a]
  BY DEF Cumulative
<1>2. IsFiniteSet(Ages)
  BY Numbers, FS_Interval DEF Ages
<1>3. \A a \in Ages : a \in Nat /\ a < Window
  BY Numbers DEF Ages
<1> DEFINE total(n) == Sums(Youngest(p, n), Ages)[Ages]
           Bad == {n \in 0..Window : total(n) # c[n]}
<1>4. \A n \in 0..Window : /\ Youngest(p, n) \in [Ages -> Nat]
                           /\ \A a \in Ages :
                                Youngest(p, n)[a] = IF a < n THEN p[a] ELSE 0
  BY DEF Youngest
<1>5. total(0) = 0
  <2>1. \A a \in Ages : Youngest(p, 0)[a] = 0
    BY <1>3, <1>4, Numbers
  <2> QED
    BY <1>2, <1>4, <2>1, SumsZero, Numbers
<1>6. ASSUME NEW m \in Ages
      PROVE  total(m + 1) = total(m) + p[m]
  <2>1. m \in 0..Window /\ m + 1 \in 0..Window /\ m \in Nat
    BY Numbers DEF Ages
  <2> DEFINE f == Youngest(p, m)
             h == Youngest(p, m + 1)
  <2>2. /\ f \in [Ages -> Nat] /\ h \in [Ages -> Nat]
        /\ \A a \in Ages : f[a] = IF a < m THEN p[a] ELSE 0
        /\ \A a \in Ages : h[a] = IF a < m + 1 THEN p[a] ELSE 0
    BY <1>4, <2>1
  <2> HIDE DEF f, h
  <2>3. h[m] = f[m] + p[m] /\ p[m] \in Nat
    BY <2>1, <2>2
  <2>4. \A a \in Ages \ {m} : h[a] = f[a]
    <3> SUFFICES ASSUME NEW a \in Ages, a # m PROVE h[a] = f[a]
      OBVIOUS
    <3>1. a \in Nat /\ m \in Nat
      BY <1>3, <2>1
    <3>2. a < m <=> a < m + 1
      BY <3>1
    <3> QED
      BY <2>2, <3>2
  <2> DEFINE v == p[m]
             T == Ages
  <2>s. /\ IsFiniteSet(T) /\ m \in T /\ v \in Nat
        /\ f \in [T -> Nat] /\ h \in [T -> Nat]
        /\ h[m] = f[m] + v /\ \A x \in T \ {m} : h[x] = f[x]
    BY <1>2, <2>2, <2>3, <2>4
  <2> HIDE DEF v, T
  <2>t. Sums(h, T)[T] = Sums(f, T)[T] + v
    BY <2>s, SumsAdd
  <2>5. Sums(h, Ages)[Ages] = Sums(f, Ages)[Ages] + p[m]
    BY <2>t DEF v, T
  <2> QED
    BY <2>5 DEF f, h
<1>7. Bad = {}
  <2> SUFFICES ASSUME Bad # {} PROVE FALSE
    OBVIOUS
  <2>1. Bad \subseteq Nat
    OBVIOUS
  <2>2. PICK n \in Bad : \A j \in Bad : n <= j
    <3> HIDE DEF Bad
    <3> QED
      BY <2>1, HasLeast
  <2>3. n \in 0..Window /\ total(n) # c[n]
    OBVIOUS
  <2>4. n # 0
    BY <1>1, <1>5, <2>3
  <2>5. n - 1 \in Ages /\ n - 1 \in 0..Window /\ (n - 1) + 1 = n /\ n - 1 < n
    BY <2>3, <2>4, Numbers DEF Ages
  <2>6. n - 1 \notin Bad
    <3> HIDE DEF Bad
    <3> QED
      BY <2>2, <2>3, <2>5
  <2>7. total(n - 1) = c[n - 1]
    BY <2>5, <2>6
  <2>8. total((n - 1) + 1) = total(n - 1) + p[n - 1] /\ c[(n - 1) + 1] = c[n - 1] + p[n - 1]
    BY <1>1, <1>6, <2>5
  <2> HIDE DEF total
  <2> QED
    BY <2>3, <2>5, <2>7, <2>8
<1>8. total(Window) = c[Window]
  BY <1>7, Numbers
<1>9. Youngest(p, Window) = p
  BY <1>3 DEF Youngest
<1> QED
  BY <1>8, <1>9

-----------------------------------------------------------------------------
(* The limit *)

\* What the history and the table say of a key, at time t.
KeyAccount(table, p, k, t) ==
    IF Find(table, k) = 0 THEN p = NonePassed ELSE HasAccount(table[Find(table, k)], p, t)

Kept(lim, ps, t) ==
    /\ lim \in LimiterType
    /\ Len(lim.table) <= lim.capacity
    /\ ps \in [Keys -> [Ages -> Nat]]
    /\ \A k \in Keys : KeyAccount(lim.table, ps[k], k, t)

LimitInv == now \in Times /\ Kept(limiter, passes, now)

LEMMA PassedIs ==
  ASSUME NEW ps \in [Keys -> [Ages -> Nat]], NEW k \in Keys, NEW a, NEW b
  PROVE  /\ Passed(ps, k, a, b) \in [Keys -> [Ages -> Nat]]
         /\ Passed(ps, k, a, b)[k] = IF a /\ b THEN OneMore(ps[k]) ELSE ps[k]
         /\ \A j \in Keys \ {k} : Passed(ps, k, a, b)[j] = ps[j]
<1>1. ASSUME a /\ b
      PROVE  Passed(ps, k, a, b) = [ps EXCEPT ![k] = OneMore(ps[k])]
  BY <1>1, Zenon DEF Passed, OneMore
<1>2. ASSUME ~(a /\ b)
      PROVE  Passed(ps, k, a, b) = ps
  BY <1>2, Zenon DEF Passed
<1>3. OneMore(ps[k]) \in [Ages -> Nat]
  BY Numbers DEF OneMore
<1> QED
  BY <1>1, <1>2, <1>3

\* One call of check_rate_limit, with the history it makes.
LEMMA CheckKeeps ==
  ASSUME now \in Times, NEW lim, NEW ps, Kept(lim, ps, now),
         NEW k \in Keys, NEW grows \in BOOLEAN, NEW c,
         c = check_rate_limit(lim, k, grows)
  PROVE  Kept(c.limiter, Passed(ps, k, c.allowed, c.counted), now)
<1> DEFINE t == lim.table
           u == c.limiter.table
           qs == Passed(ps, k, c.allowed, c.counted)
<1>1. /\ lim \in LimiterType /\ Len(lim.table) <= lim.capacity
      /\ ps \in [Keys -> [Ages -> Nat]] /\ t \in Seq(Honest)
      /\ \A j \in Keys : KeyAccount(t, ps[j], j, now)
  BY DEF Kept, LimiterType
<1>2. /\ c.limiter \in LimiterType /\ Len(u) <= c.limiter.capacity
      /\ Untouched(t, u, k) /\ Outcomes(t, u, k, c)
  <2>1. CheckEffect(lim, k, c)
    BY <1>1, CheckDoes
  <2> QED
    BY <2>1 DEF CheckEffect
<1>3. /\ qs \in [Keys -> [Ages -> Nat]]
      /\ qs[k] = IF c.allowed /\ c.counted THEN OneMore(ps[k]) ELSE ps[k]
      /\ \A j \in Keys \ {k} : qs[j] = ps[j]
  <2> DEFINE a == c.allowed
             b == c.counted
  <2>1. ps \in [Keys -> [Ages -> Nat]] /\ k \in Keys
    BY <1>1
  <2> HIDE DEF a, b
  <2>2. /\ Passed(ps, k, a, b) \in [Keys -> [Ages -> Nat]]
        /\ Passed(ps, k, a, b)[k] = IF a /\ b THEN OneMore(ps[k]) ELSE ps[k]
        /\ \A j \in Keys \ {k} : Passed(ps, k, a, b)[j] = ps[j]
    BY <2>1, PassedIs
  <2> QED
    BY <2>2 DEF a, b
<1> HIDE DEF t, u, qs
<1>4. ASSUME NEW j \in Keys \ {k}
      PROVE  KeyAccount(u, qs[j], j, now)
  <2>1. KeyAccount(t, ps[j], j, now)
    BY <1>1
  <2>2. Find(u, j) = Find(t, j) /\ (Find(t, j) # 0 => u[Find(t, j)] = t[Find(t, j)])
    BY <1>2 DEF Untouched
  <2>3. qs[j] = ps[j]
    BY <1>3
  <2> QED
    BY <2>1, <2>2, <2>3, Zenon DEF KeyAccount
<1>5. KeyAccount(u, qs[k], k, now)
  <2>1. KeyAccount(t, ps[k], k, now) /\ ps[k] \in [Ages -> Nat]
    BY <1>1
  <2>2. CASE u = t /\ c.counted = FALSE
    BY <1>3, <2>1, <2>2
  <2>3. CASE /\ Find(t, k) # 0 /\ Find(u, k) = Find(t, k)
             /\ u[Find(t, k)] = Judge(t[Find(t, k)]).entry
             /\ c.allowed = Judge(t[Find(t, k)]).allowed /\ c.counted = TRUE
    <3> DEFINE e == t[Find(t, k)]
    <3>1. HasAccount(e, ps[k], now)
      BY <2>1, <2>3, Zenon DEF KeyAccount
    <3>2. e \in Honest
      BY <1>1, <2>3, Found, ElementOfSeq
    <3> HIDE DEF e
    <3>3. HasAccount(Judge(e).entry,
                     IF Judge(e).allowed THEN OneMore(ps[k]) ELSE ps[k], now)
      BY <2>1, <3>1, <3>2, JudgeAccounts
    <3>4. c.allowed = Judge(e).allowed /\ u[Find(u, k)] = Judge(e).entry
      BY <2>3 DEF e
    <3>5. qs[k] = IF Judge(e).allowed THEN OneMore(ps[k]) ELSE ps[k]
      BY <1>3, <2>3, <3>4, Zenon
    <3>6. HasAccount(u[Find(u, k)], qs[k], now)
      BY <3>3, <3>4, <3>5, Zenon
    <3> QED
      BY <2>3, <3>6, Zenon DEF KeyAccount
  <2>4. CASE Find(t, k) = 0 /\ Find(u, k) = 0 /\ c.counted = FALSE
    BY <1>3, <2>1, <2>4, Zenon DEF KeyAccount
  <2>5. CASE /\ Find(t, k) = 0 /\ Find(u, k) # 0 /\ u[Find(u, k)] = FirstEntry(k)
             /\ c.allowed = TRUE /\ c.counted = TRUE
    <3>1. ps[k] = NonePassed
      BY <2>1, <2>5, Zenon DEF KeyAccount
    <3>2. qs[k] = OneMore(NonePassed)
      BY <1>3, <2>5, <3>1, Zenon
    <3>3. HasAccount(FirstEntry(k), OneMore(NonePassed), now)
      BY FirstAccounts
    <3> QED
      BY <2>5, <3>2, <3>3, Zenon DEF KeyAccount
  <2> QED
    BY <1>2, <2>2, <2>3, <2>4, <2>5 DEF Outcomes
<1>6. \A j \in Keys : KeyAccount(u, qs[j], j, now)
  BY <1>4, <1>5
<1> QED
  BY <1>2, <1>3, <1>6 DEF Kept, u, qs

LEMMA EmptyKept ==
  ASSUME NEW lim, NEW n \in Nat \ {0}, lim = [table |-> <<>>, capacity |-> n], NEW t
  PROVE  Kept(lim, NoPasses, t)
<1>1. lim.table = <<>> /\ lim.capacity = n /\ <<>> \in Seq(Honest) /\ Len(<<>>) = 0
  BY EmptySeq
<1>2. lim \in LimiterType
  BY <1>1 DEF LimiterType
<1>3. \A k : Find(<<>>, k) = 0
  <2>1. \A k : Places(<<>>, k) = {}
    BY <1>1 DEF Places
  <2> QED
    BY <2>1, FindIsLeast
<1>4. /\ NoPasses \in [Keys -> [Ages -> Nat]]
      /\ \A k \in Keys : NoPasses[k] = NonePassed
  BY DEF NoPasses, NonePassed
<1>5. \A k \in Keys : KeyAccount(lim.table, NoPasses[k], k, t)
  BY <1>1, <1>3, <1>4, Zenon DEF KeyAccount
<1> QED
  BY <1>1, <1>2, <1>4, <1>5 DEF Kept

LEMMA LimitBegins == LimitInit => LimitInv
<1> SUFFICES ASSUME LimitInit PROVE LimitInv
  OBVIOUS
<1>1. now \in Times /\ Capacity \in Nat \ {0}
  BY LimitAssumption DEF LimitInit, Times
<1> QED
  BY <1>1, EmptyKept DEF LimitInit, LimitInv

LEMMA KeysAre ==
  Address \in Keys /\ (\A d \in DeviceKeys : d \in Keys) /\ \A s \in SessionKeys : s \in Keys
BY DEF Keys

LEMMA DeviceKeeps ==
  ASSUME LimitInv, NEW d \in DeviceKeys, NEW grows \in BOOLEAN,
         validate_device_token(d, grows)
  PROVE  LimitInv'
<1> DEFINE device == check_rate_limit(limiter, d, grows)
           address == check_rate_limit(device.limiter, Address, grows)
           once == Passed(passes, d, device.allowed, device.counted)
<1>1. /\ limiter' = IF device.allowed THEN address.limiter ELSE device.limiter
      /\ passes' = IF device.allowed
                   THEN Passed(once, Address, address.allowed, address.counted)
                   ELSE once
      /\ now' = now
  BY Zenon DEF validate_device_token
<1>2. now \in Times /\ Kept(limiter, passes, now) /\ d \in Keys /\ Address \in Keys
  BY KeysAre DEF LimitInv
<1>3. Kept(device.limiter, once, now)
  <2> HIDE DEF device
  <2>1. device = check_rate_limit(limiter, d, grows)
    BY DEF device
  <2> QED
    BY <1>2, <2>1, CheckKeeps
<1> HIDE DEF device, once
<1>4. Kept(address.limiter, Passed(once, Address, address.allowed, address.counted), now)
  <2> HIDE DEF address
  <2>1. address = check_rate_limit(device.limiter, Address, grows)
    BY DEF address
  <2> QED
    BY <1>2, <1>3, <2>1, CheckKeeps
<1> HIDE DEF address
<1>5. Kept(limiter', passes', now)
  BY <1>1, <1>3, <1>4, Zenon
<1>6. now' \in Times /\ Kept(limiter', passes', now')
  BY <1>1, <1>2, <1>5
<1> QED
  BY <1>6 DEF LimitInv

LEMMA SessionKeeps ==
  ASSUME LimitInv, NEW s \in SessionKeys, NEW grows \in BOOLEAN,
         validate_session_token_security(s, grows)
  PROVE  LimitInv'
<1> DEFINE c == check_rate_limit(limiter, s, grows)
<1>1. /\ limiter' = c.limiter /\ passes' = Passed(passes, s, c.allowed, c.counted)
      /\ now' = now
  BY Zenon DEF validate_session_token_security
<1>2. now \in Times /\ Kept(limiter, passes, now) /\ s \in Keys
  BY KeysAre DEF LimitInv
<1>3. Kept(c.limiter, Passed(passes, s, c.allowed, c.counted), now)
  <2> HIDE DEF c
  <2>1. c = check_rate_limit(limiter, s, grows)
    BY DEF c
  <2> QED
    BY <1>2, <2>1, CheckKeeps
<1> HIDE DEF c
<1>4. now' \in Times /\ Kept(limiter', passes', now')
  BY <1>1, <1>2, <1>3
<1> QED
  BY <1>4 DEF LimitInv

LEMMA ResetKeeps ==
  ASSUME LimitInv, security_reset_rate_limits
  PROVE  LimitInv'
<1>1. limiter' = [limiter EXCEPT !.table = <<>>] /\ passes' = NoPasses /\ now' = now
  BY DEF security_reset_rate_limits
<1>2. now \in Times /\ limiter \in LimiterType
  BY DEF LimitInv, Kept
<1>3. limiter' = [table |-> <<>>, capacity |-> limiter.capacity]
      /\ limiter.capacity \in Nat \ {0}
  BY <1>1, <1>2 DEF LimiterType
<1>4. Kept(limiter', NoPasses, now')
  BY <1>3, EmptyKept
<1>5. now' \in Times /\ Kept(limiter', passes', now')
  BY <1>1, <1>2, <1>4
<1> QED
  BY <1>5 DEF LimitInv

LEMMA TimeKeeps ==
  ASSUME LimitInv, TimePasses
  PROVE  LimitInv'
<1>1. /\ now < MaxTime /\ now' = now + 1 /\ limiter' = limiter
      /\ passes' = [k \in Keys |-> Older(passes[k])]
  BY DEF TimePasses, Older
<1>2. now \in Times /\ Kept(limiter, passes, now)
  BY DEF LimitInv
<1>3. now \in Nat /\ now' \in Times
  BY <1>1, <1>2, Numbers DEF Times
<1>4. /\ limiter \in LimiterType /\ Len(limiter.table) <= limiter.capacity
      /\ limiter.table \in Seq(Honest)
      /\ \A k \in Keys : passes[k] \in [Ages -> Nat]
      /\ \A k \in Keys : KeyAccount(limiter.table, passes[k], k, now)
  BY <1>2 DEF Kept, LimiterType
<1>5. ASSUME NEW k \in Keys
      PROVE  /\ Older(passes[k]) \in [Ages -> Nat]
             /\ KeyAccount(limiter.table, Older(passes[k]), k, now + 1)
  <2> DEFINE i == Find(limiter.table, k)
  <2>1. KeyAccount(limiter.table, passes[k], k, now) /\ passes[k] \in [Ages -> Nat]
    BY <1>4
  <2>2. CASE i = 0
    <3>1. passes[k] = NonePassed
      BY <2>1, <2>2, Zenon DEF KeyAccount
    <3>2. \A a \in Ages : a # 0 => a - 1 \in Ages
      BY Numbers DEF Ages
    <3>3. Older(NonePassed) = NonePassed /\ NonePassed \in [Ages -> Nat]
      BY <3>2 DEF Older, NonePassed
    <3> QED
      BY <2>2, <3>1, <3>3, Zenon DEF KeyAccount
  <2>3. CASE i # 0
    <3> DEFINE e == limiter.table[i]
    <3>1. HasAccount(e, passes[k], now)
      BY <2>1, <2>3, Zenon DEF KeyAccount
    <3>2. e \in Honest
      BY <1>4, <2>3, Found, ElementOfSeq
    <3> HIDE DEF e
    <3>3. Older(passes[k]) \in [Ages -> Nat] /\ HasAccount(e, Older(passes[k]), now + 1)
      BY <1>3, <2>1, <3>1, <3>2, TimeAccounts
    <3> QED
      BY <2>3, <3>3, Zenon DEF KeyAccount, e
  <2> QED
    BY <2>2, <2>3
<1>6. \A k \in Keys : passes'[k] = Older(passes[k])
  BY <1>1
<1>7. passes' \in [Keys -> [Ages -> Nat]]
  BY <1>1, <1>5
<1>8. ASSUME NEW k \in Keys
      PROVE  KeyAccount(limiter'.table, passes'[k], k, now')
  <2>1. passes'[k] = Older(passes[k])
    BY <1>6
  <2> QED
    BY <1>1, <1>5, <2>1, Zenon
<1>9. now' \in Times /\ Kept(limiter', passes', now')
  BY <1>1, <1>3, <1>4, <1>7, <1>8 DEF Kept
<1> QED
  BY <1>9 DEF LimitInv

LEMMA LimitStepKeeps ==
  ASSUME LimitInv, LimitNext
  PROVE  LimitInv'
<1>1. ASSUME NEW grows \in BOOLEAN, NEW d \in DeviceKeys, validate_device_token(d, grows)
      PROVE  LimitInv'
  BY <1>1, DeviceKeeps
<1>2. ASSUME NEW grows \in BOOLEAN, NEW s \in SessionKeys,
             validate_session_token_security(s, grows)
      PROVE  LimitInv'
  BY <1>2, SessionKeeps
<1>3. CASE security_reset_rate_limits
  BY <1>3, ResetKeeps
<1>4. CASE TimePasses
  BY <1>4, TimeKeeps
<1> QED
  BY <1>1, <1>2, <1>3, <1>4 DEF LimitNext

LEMMA LimitKept == Spec => []LimitInv
<1>1. Init => LimitInv
  BY LimitBegins DEF Init
<1>2. LimitInv /\ [Next]_vars => LimitInv'
  <2>1. CASE LimitInv /\ LimitNext
    BY <2>1, LimitStepKeeps
  <2>2. CASE LimitInv /\ UNCHANGED limitVars
    BY <2>2 DEF limitVars, LimitInv, Kept, KeyAccount
  <2> QED
    BY <2>1, <2>2 DEF Next, vars
<1> QED
  BY <1>1, <1>2, PTL DEF Spec

LEMMA LimitTyped == LimitInv => LimitTypeOK
<1> SUFFICES ASSUME LimitInv PROVE LimitTypeOK
  OBVIOUS
<1>1. /\ now \in Times /\ limiter \in LimiterType
      /\ Len(limiter.table) <= limiter.capacity
      /\ passes \in [Keys -> [Ages -> Nat]]
  BY DEF LimitInv, Kept
<1>2. limiter.table \in Seq(Honest) /\ limiter.capacity \in Nat
      /\ limiter = [table |-> limiter.table, capacity |-> limiter.capacity]
  BY <1>1 DEF LimiterType
<1>3. Honest \subseteq Entries
  BY DEF Honest
<1>4. limiter.table \in Seq(Entries)
  BY <1>2, <1>3, SeqMonotonic
<1>5. limiter \in [table : Seq(Entries), capacity : Nat]
  BY <1>2, <1>4
<1> QED
  BY <1>1, <1>5 DEF LimitTypeOK

\* Both parts of the control server keep their types: the table of limits never
\* has more entries than check_rate_limit has allocated, whichever requests
\* come and wherever realloc fails, and the queue of flags never more than it
\* has room for.
THEOREM ControlTypes == Spec => []TypeOK
BY LimitKept, TlsKept, LimitTyped, PTL DEF TypeOK

\* check_rate_limit never lets more than twice the limit through for one key
\* in any span as long as a window.
THEOREM LimitIsKept == Spec => []LimitHolds
<1>1. LimitInv => LimitHolds
  <2> SUFFICES ASSUME LimitInv, NEW k \in Keys
               PROVE  MapThenSumSet(LAMBDA a : passes[k][a], Ages) <= 2 * MaxRequests
    BY DEF LimitHolds
  <2>1. /\ now \in Nat /\ limiter.table \in Seq(Honest)
        /\ passes[k] \in [Ages -> Nat]
        /\ KeyAccount(limiter.table, passes[k], k, now)
    BY DEF LimitInv, Kept, LimiterType, Times
  <2> DEFINE i == Find(limiter.table, k)
             p == passes[k]
  <2>2. \E c : Cumulative(p, c) /\ c[Window] <= 2 * MaxRequests
    <3>1. CASE i = 0
      <4>1. p = NonePassed
        BY <2>1, <3>1, Zenon DEF KeyAccount
      <4> DEFINE zero == [n \in 0..Window |-> 0]
      <4>2. zero \in [0..Window -> Nat] /\ \A n \in 0..Window : zero[n] = 0
        OBVIOUS
      <4>3. \A a \in Ages : p[a] = 0 /\ a \in 0..Window /\ a + 1 \in 0..Window
        BY <4>1, Numbers DEF Ages, NonePassed
      <4> HIDE DEF zero, p
      <4>4. Cumulative(p, zero) /\ zero[Window] <= 2 * MaxRequests
        BY <4>2, <4>3, Numbers DEF Cumulative
      <4> QED
        BY <4>4
    <3>2. CASE i # 0
      <4>1. HasAccount(limiter.table[i], p, now)
        BY <2>1, <3>2, Zenon DEF KeyAccount
      <4>2. limiter.table[i] \in Honest
        BY <2>1, <3>2, Found, ElementOfSeq
      <4> HIDE DEF i, p
      <4> QED
        BY <2>1, <4>1, <4>2, TotalWithin
    <3> QED
      BY <3>1, <3>2
  <2>3. MapThenSumSet(LAMBDA a : passes[k][a], Ages) = Sums(passes[k], Ages)[Ages]
    BY SumIsMapThenSum
  <2>4. \A c : Cumulative(p, c) => Sums(p, Ages)[Ages] = c[Window]
    BY <2>1, CumulativeIsSum
  <2>5. Sums(p, Ages)[Ages] <= 2 * MaxRequests
    <3> HIDE DEF p
    <3> QED
      BY <2>2, <2>4
  <2> QED
    BY <2>3, <2>5
<1> QED
  BY <1>1, LimitKept, PTL

-----------------------------------------------------------------------------
(* The penalty *)

\* Until when a key is refused only changes when that time is over.
Unextended(t, u) ==
    \A j \in Keys : RefusedUntil(u, j) # RefusedUntil(t, j) => RefusedUntil(t, j) <= now

LEMMA RefusedTyped ==
  ASSUME NEW t \in Seq(Honest), NEW k
  PROVE  RefusedUntil(t, k) \in Nat
<1>1. CASE Find(t, k) = 0
  BY <1>1 DEF RefusedUntil
<1>2. CASE Find(t, k) # 0
  <2>1. t[Find(t, k)] \in Honest
    BY <1>2, Found, ElementOfSeq
  <2>2. t[Find(t, k)].until \in Nat
    BY <2>1, EntryFields
  <2> QED
    BY <1>2, <2>2 DEF RefusedUntil
<1> QED
  BY <1>1, <1>2

\* Judging an entry sets its penalty only when the last one is over.
LEMMA JudgeUntil ==
  ASSUME now \in Times, NEW e \in Honest
  PROVE  Judge(e).entry.until # e.until => e.until <= now
<1>1. e.until \in Nat /\ now \in Nat /\ e.start \in Nat /\ e.count \in Nat
  BY EntryFields DEF Times
<1>2. CASE Refused(e)
  <2>1. Judge(e).entry = e
    BY <1>2, JudgeCases
  <2> QED
    BY <2>1
<1>3. CASE ~Refused(e)
  BY <1>1, <1>3 DEF Refused
<1> QED
  BY <1>2, <1>3

LEMMA CheckUnextended ==
  ASSUME now \in Times, NEW lim \in LimiterType, Len(lim.table) <= lim.capacity,
         NEW k \in Keys, NEW grows \in BOOLEAN, NEW c,
         c = check_rate_limit(lim, k, grows)
  PROVE  Unextended(lim.table, c.limiter.table)
<1> DEFINE t == lim.table
           u == c.limiter.table
<1>1. t \in Seq(Honest) /\ now \in Nat
  BY DEF LimiterType, Times
<1>2. Untouched(t, u, k) /\ Outcomes(t, u, k, c)
  BY CheckDoes DEF CheckEffect
<1> HIDE DEF t, u
<1>3. ASSUME NEW j \in Keys \ {k}
      PROVE  RefusedUntil(u, j) = RefusedUntil(t, j)
  BY <1>2, Zenon DEF Untouched, RefusedUntil
<1>4. RefusedUntil(u, k) # RefusedUntil(t, k) => RefusedUntil(t, k) <= now
  <2>1. CASE Find(t, k) = 0
    <3>1. RefusedUntil(t, k) = 0
      BY <2>1 DEF RefusedUntil
    <3> QED
      BY <1>1, <3>1
  <2>2. CASE Find(t, k) # 0 /\ u = t
    BY <2>2
  <2>3. CASE /\ Find(t, k) # 0 /\ Find(u, k) = Find(t, k)
             /\ u[Find(t, k)] = Judge(t[Find(t, k)]).entry
    <3> DEFINE e == t[Find(t, k)]
    <3>1. e \in Honest
      BY <1>1, <2>3, Found, ElementOfSeq
    <3>2. RefusedUntil(t, k) = e.until /\ RefusedUntil(u, k) = Judge(e).entry.until
      BY <2>3, Zenon DEF RefusedUntil
    <3> HIDE DEF e
    <3> QED
      BY <3>1, <3>2, JudgeUntil
  <2> QED
    BY <1>2, <2>1, <2>2, <2>3 DEF Outcomes
<1> QED
  BY <1>3, <1>4, Zenon DEF Unextended, t, u

LEMMA UnextendedTwice ==
  ASSUME NEW t, NEW u, NEW v, Unextended(t, u), Unextended(u, v)
  PROVE  Unextended(t, v)
<1> SUFFICES ASSUME NEW j \in Keys, RefusedUntil(v, j) # RefusedUntil(t, j)
             PROVE  RefusedUntil(t, j) <= now
  BY DEF Unextended
<1>1. CASE RefusedUntil(u, j) = RefusedUntil(t, j)
  <2>1. RefusedUntil(v, j) # RefusedUntil(u, j)
    BY <1>1
  <2>2. RefusedUntil(u, j) <= now
    BY <2>1, Zenon DEF Unextended
  <2> QED
    BY <1>1, <2>2, Zenon
<1>2. CASE RefusedUntil(u, j) # RefusedUntil(t, j)
  BY <1>2, Zenon DEF Unextended
<1> QED
  BY <1>1, <1>2

\* No step of the control server makes a penalty longer: check_rate_limit sets
\* penalty_until only when it is over, for the device and for its address.
THEOREM PenaltiesEnd == Spec => PenaltyNotExtended
<1> DEFINE Step == \A k \in Keys :
              RefusedUntil(limiter'.table, k) > RefusedUntil(limiter.table, k)
                 => RefusedUntil(limiter.table, k) <= now
<1>1. ASSUME LimitInv, LimitNext
      PROVE  Step
  <2>1. /\ now \in Times /\ limiter \in LimiterType
        /\ Len(limiter.table) <= limiter.capacity /\ limiter.table \in Seq(Honest)
    BY <1>1 DEF LimitInv, Kept, LimiterType
  <2>2. LimitInv'
    BY <1>1, LimitStepKeeps
  <2>3. limiter'.table \in Seq(Honest)
    BY <2>2 DEF LimitInv, Kept, LimiterType
  <2>4. \A k : RefusedUntil(limiter.table, k) \in Nat
               /\ RefusedUntil(limiter'.table, k) \in Nat
    BY <2>1, <2>3, RefusedTyped
  <2>5. ASSUME Unextended(limiter.table, limiter'.table)
        PROVE  Step
    BY <2>4, <2>5 DEF Unextended
  <2>6. ASSUME NEW grows \in BOOLEAN, NEW d \in DeviceKeys,
               validate_device_token(d, grows)
        PROVE  Step
    <3> DEFINE device == check_rate_limit(limiter, d, grows)
               address == check_rate_limit(device.limiter, Address, grows)
    <3>1. limiter' = IF device.allowed THEN address.limiter ELSE device.limiter
      BY <2>6, Zenon DEF validate_device_token
    <3>2. d \in Keys /\ Address \in Keys
      BY KeysAre
    <3>3. CheckEffect(limiter, d, device)
      BY <2>1, <3>2, CheckDoes
    <3>4. Unextended(limiter.table, device.limiter.table)
      <4> HIDE DEF device
      <4>1. device = check_rate_limit(limiter, d, grows)
        BY DEF device
      <4> QED
        BY <2>1, <3>2, <4>1, CheckUnextended
    <3> HIDE DEF device
    <3>5. Unextended(device.limiter.table, address.limiter.table)
      <4> HIDE DEF address
      <4>1. address = check_rate_limit(device.limiter, Address, grows)
        BY DEF address
      <4>2. device.limiter \in LimiterType
            /\ Len(device.limiter.table) <= device.limiter.capacity
        BY <3>3 DEF CheckEffect
      <4> QED
        BY <2>1, <3>2, <4>1, <4>2, CheckUnextended
    <3> HIDE DEF address
    <3>6. Unextended(limiter.table, address.limiter.table)
      BY <3>4, <3>5, UnextendedTwice
    <3>7. Unextended(limiter.table, limiter'.table)
      BY <3>1, <3>4, <3>6, Zenon
    <3> QED
      BY <2>5, <3>7
  <2>7. ASSUME NEW grows \in BOOLEAN, NEW s \in SessionKeys,
               validate_session_token_security(s, grows)
        PROVE  Step
    <3> DEFINE c == check_rate_limit(limiter, s, grows)
    <3>1. limiter' = c.limiter
      BY <2>7, Zenon DEF validate_session_token_security
    <3>2. s \in Keys
      BY KeysAre
    <3>3. Unextended(limiter.table, c.limiter.table)
      <4> HIDE DEF c
      <4>1. c = check_rate_limit(limiter, s, grows)
        BY DEF c
      <4> QED
        BY <2>1, <3>2, <4>1, CheckUnextended
    <3> QED
      BY <2>5, <3>1, <3>3
  <2>8. CASE security_reset_rate_limits
    <3>1. limiter'.table = <<>>
      BY <2>1, <2>8 DEF security_reset_rate_limits, LimiterType
    <3>2. \A k : Places(<<>>, k) = {}
      BY EmptySeq DEF Places
    <3>3. \A k : Find(<<>>, k) = 0
      BY <3>2, FindIsLeast
    <3>4. \A k : RefusedUntil(limiter'.table, k) = 0
      BY <3>1, <3>3, Zenon DEF RefusedUntil
    <3> QED
      BY <2>4, <3>4
  <2>9. CASE TimePasses
    <3>1. limiter' = limiter
      BY <2>9 DEF TimePasses
    <3> QED
      BY <2>4, <3>1
  <2> QED
    BY <1>1, <2>6, <2>7, <2>8, <2>9 DEF LimitNext
<1>2. LimitInv /\ [Next]_vars => [Step]_limitVars
  BY <1>1 DEF Next, vars
<1> QED
  BY <1>2, LimitKept, PTL DEF Spec, PenaltyNotExtended
=============================================================================
