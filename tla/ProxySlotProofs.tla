--------------------------- MODULE ProxySlotProofs ---------------------------
(***************************************************************************)
(* Under the scheduling the listeners rely on, the slots of a server keep  *)
(* its handlers apart, for any number of slots, users and tunnels, and     *)
(* no tunnel carries the data of two users.                                *)
(***************************************************************************)
EXTENDS ProxySlot, FiniteSetTheorems, TLAPS

\* A handler that was started and has not left its slot for good.
Busy == Holding \cup {"flag1", "flag2"}

\* The handlers of users: each has a slot to itself, finds its connection
\* there, and from its first statement to its last the slot is marked.
UsersApart ==
    /\ \A u \in Users : user[u].pc \in Busy => user[u].at \in Slots
    /\ \A u, v \in Users :
          u # v /\ user[u].pc \in Busy /\ user[v].pc \in Busy =>
              user[u].at # user[v].at
    /\ \A u \in Users : user[u].pc \in Holding => slot[user[u].at].in = u
    /\ \A u \in Users :
          user[u].pc \in Busy \ {"start"} => slot[user[u].at].isIn
    /\ \A u \in Users :
          user[u].pc \in {"waitClose", "waitPeer", "send"} => user[u].data \in Users

\* The handlers of tunnels, which clear the mark one statement before they
\* are done with the slot.
TunnelsApart ==
    /\ \A t \in Tunnels : tunnel[t].pc \in Busy => tunnel[t].at \in Slots
    /\ \A t, v \in Tunnels :
          t # v /\ tunnel[t].pc \in Busy /\ tunnel[v].pc \in Busy =>
              tunnel[t].at # tunnel[v].at
    /\ \A t \in Tunnels : tunnel[t].pc \in Holding => slot[tunnel[t].at].out = t
    /\ \A t \in Tunnels :
          tunnel[t].pc \in Busy \ {"start", "flag2"} => slot[tunnel[t].at].isOut
    /\ \A t \in Tunnels :
          tunnel[t].pc \in {"waitPeer", "send"} => tunnel[t].data \in Tunnels

SlotInv == TypeOK /\ UsersApart /\ TunnelsApart

\* Assigning to a field of a slot or of a handler keeps its type.
LEMMA SlotFields ==
    ASSUME NEW r \in Slot
    PROVE  /\ \A u \in Users \cup {NoSocket} : [r EXCEPT !.in = u] \in Slot
           /\ \A t \in Tunnels \cup {NoSocket} : [r EXCEPT !.out = t] \in Slot
           /\ \A b \in BOOLEAN : /\ [r EXCEPT !.isIn = b] \in Slot
                               /\ [r EXCEPT !.isOut = b] \in Slot
                               /\ [r EXCEPT !.close = b] \in Slot
  BY DEF Slot

LEMMA HandlerFields ==
    ASSUME NEW S, NEW r \in Handler(S)
    PROVE  /\ \A c \in Busy \cup {"gone"} : [r EXCEPT !.pc = c] \in Handler(S)
           /\ \A d \in S \cup {NoSocket} : [r EXCEPT !.data = d] \in Handler(S)
           /\ \A b \in BOOLEAN : [r EXCEPT !.done = b] \in Handler(S)
  BY DEF Handler, Busy, Holding

\* The same for the arrays of slots and of handlers.
LEMMA SlotsTyped ==
    ASSUME slot \in [Slots -> Slot], NEW i \in Slots
    PROVE  /\ \A u \in Users \cup {NoSocket} : [slot EXCEPT ![i].in = u] \in [Slots -> Slot]
           /\ \A t \in Tunnels \cup {NoSocket} : [slot EXCEPT ![i].out = t] \in [Slots -> Slot]
           /\ \A b \in BOOLEAN : /\ [slot EXCEPT ![i].isIn = b] \in [Slots -> Slot]
                               /\ [slot EXCEPT ![i].isOut = b] \in [Slots -> Slot]
                               /\ [slot EXCEPT ![i].close = b] \in [Slots -> Slot]
           /\ [slot EXCEPT ![i].in = NoSocket, ![i].isIn = FALSE] \in [Slots -> Slot]
           /\ [slot EXCEPT ![i].out = NoSocket, ![i].isOut = FALSE] \in [Slots -> Slot]
  <1>1. \A r \in Slot : [slot EXCEPT ![i] = r] \in [Slots -> Slot]
    OBVIOUS
  <1>2. slot[i] \in Slot
    OBVIOUS
  <1>3. [[slot[i] EXCEPT !.in = NoSocket] EXCEPT !.isIn = FALSE] \in Slot
    BY <1>2, SlotFields
  <1>4. [[slot[i] EXCEPT !.out = NoSocket] EXCEPT !.isOut = FALSE] \in Slot
    BY <1>2, SlotFields
  <1>5. [slot EXCEPT ![i].in = NoSocket, ![i].isIn = FALSE]
          = [slot EXCEPT ![i] = [[slot[i] EXCEPT !.in = NoSocket] EXCEPT !.isIn = FALSE]]
    OBVIOUS
  <1>6. [slot EXCEPT ![i].out = NoSocket, ![i].isOut = FALSE]
          = [slot EXCEPT ![i] = [[slot[i] EXCEPT !.out = NoSocket] EXCEPT !.isOut = FALSE]]
    OBVIOUS
  <1> QED
    BY <1>1, <1>2, <1>3, <1>4, <1>5, <1>6, SlotFields

LEMMA PcTyped ==
    /\ "handshake" \in Busy \cup {"gone"} /\ "loop" \in Busy \cup {"gone"}
    /\ "select" \in Busy \cup {"gone"} /\ "waitClose" \in Busy \cup {"gone"}
    /\ "waitPeer" \in Busy \cup {"gone"} /\ "send" \in Busy \cup {"gone"}
    /\ "close" \in Busy \cup {"gone"} /\ "flag1" \in Busy \cup {"gone"}
    /\ "flag2" \in Busy \cup {"gone"} /\ "gone" \in Busy \cup {"gone"}
  BY DEF Busy, Holding

LEMMA PcAssigned ==
    ASSUME NEW S, NEW f \in [S -> Handler(S)], NEW x \in S, NEW c \in Busy \cup {"gone"}
    PROVE  [f EXCEPT ![x].pc = c] \in [S -> Handler(S)]
  <1>1. [f[x] EXCEPT !.pc = c] \in Handler(S)
    BY HandlerFields
  <1> QED
    BY <1>1

LEMMA PcAndDataAssigned ==
    ASSUME NEW S, NEW f \in [S -> Handler(S)], NEW x \in S, NEW c \in Busy \cup {"gone"},
           NEW d \in S \cup {NoSocket}
    PROVE  [f EXCEPT ![x].pc = c, ![x].data = d] \in [S -> Handler(S)]
  <1>1. [[f[x] EXCEPT !.pc = c] EXCEPT !.data = d] \in Handler(S)
    BY HandlerFields
  <1>2. [f EXCEPT ![x].pc = c, ![x].data = d]
          = [f EXCEPT ![x] = [[f[x] EXCEPT !.pc = c] EXCEPT !.data = d]]
    OBVIOUS
  <1> QED
    BY <1>1, <1>2

LEMMA PcAndDoneAssigned ==
    ASSUME NEW S, NEW f \in [S -> Handler(S)], NEW x \in S, NEW c \in Busy \cup {"gone"},
           NEW b \in BOOLEAN
    PROVE  [f EXCEPT ![x].pc = c, ![x].done = b] \in [S -> Handler(S)]
  <1>1. [[f[x] EXCEPT !.pc = c] EXCEPT !.done = b] \in Handler(S)
    BY HandlerFields
  <1>2. [f EXCEPT ![x].pc = c, ![x].done = b]
          = [f EXCEPT ![x] = [[f[x] EXCEPT !.pc = c] EXCEPT !.done = b]]
    OBVIOUS
  <1> QED
    BY <1>1, <1>2

\* What a handler of a user leaves alone cannot disturb the tunnels.
LEMMA TunnelsUndisturbed ==
    ASSUME TypeOK, TunnelsApart, tunnel' = tunnel,
           slot' \in [Slots -> Slot],
           \A i \in Slots : slot'[i].out = slot[i].out /\ slot'[i].isOut = slot[i].isOut
    PROVE  TunnelsApart'
  BY DEF TypeOK, TunnelsApart, Busy, Holding

\* And the other way round.
LEMMA UsersUndisturbed ==
    ASSUME TypeOK, UsersApart, user' = user,
           slot' \in [Slots -> Slot],
           \A i \in Slots : slot'[i].in = slot[i].in /\ slot'[i].isIn = slot[i].isIn
    PROVE  UsersApart'
  BY DEF TypeOK, UsersApart, Busy, Holding

\* A step of one handler within its slot keeps the handlers of users apart.
LEMMA UserMove ==
    ASSUME SlotInv, NEW u \in Users, user[u].pc \in Busy,
           user' \in [Users -> Handler(Users)], slot' \in [Slots -> Slot],
           user'[u].at = user[u].at,
           \A v \in Users \ {u} : user'[v] = user[v],
           \A i \in Slots \ {user[u].at} :
              slot'[i].in = slot[i].in /\ slot'[i].isIn = slot[i].isIn,
           user'[u].pc \in Holding => slot'[user[u].at].in = u,
           user'[u].pc \in Busy \ {"start"} => slot'[user[u].at].isIn,
           user'[u].pc \in {"waitClose", "waitPeer", "send"} => user'[u].data \in Users
    PROVE  UsersApart'
  <1>1. \A v \in Users : user'[v].at = user[v].at
    OBVIOUS
  <1>2. \A v \in Users : user'[v].pc \in Busy => user[v].pc \in Busy
    OBVIOUS
  <1>3. \A v \in Users \ {u} : user[v].pc \in Busy => user[v].at \in Slots \ {user[u].at}
    BY DEF SlotInv, UsersApart
  <1>4. user[u].at \in Slots
    BY DEF SlotInv, UsersApart
  <1>5. Holding \subseteq Busy
    BY DEF Busy
  <1>6. \A v \in Users : user'[v].pc \in Holding => slot'[user'[v].at].in = v
    BY <1>1, <1>3, <1>5 DEF SlotInv, UsersApart
  <1>7. \A v \in Users : user'[v].pc \in Busy \ {"start"} => slot'[user'[v].at].isIn
    BY <1>1, <1>3 DEF SlotInv, UsersApart
  <1>8. \A v \in Users : user'[v].pc \in {"waitClose", "waitPeer", "send"} => user'[v].data \in Users
    BY DEF SlotInv, UsersApart
  <1> QED
    BY <1>1, <1>2, <1>3, <1>4, <1>6, <1>7, <1>8 DEF SlotInv, UsersApart

\* A step of one handler within its slot keeps the handlers of tunnels apart.
LEMMA TunnelMove ==
    ASSUME SlotInv, NEW u \in Tunnels, tunnel[u].pc \in Busy,
           tunnel' \in [Tunnels -> Handler(Tunnels)], slot' \in [Slots -> Slot],
           tunnel'[u].at = tunnel[u].at,
           \A v \in Tunnels \ {u} : tunnel'[v] = tunnel[v],
           \A i \in Slots \ {tunnel[u].at} :
              slot'[i].out = slot[i].out /\ slot'[i].isOut = slot[i].isOut,
           tunnel'[u].pc \in Holding => slot'[tunnel[u].at].out = u,
           tunnel'[u].pc \in Busy \ {"start", "flag2"} => slot'[tunnel[u].at].isOut,
           tunnel'[u].pc \in {"waitPeer", "send"} => tunnel'[u].data \in Tunnels
    PROVE  TunnelsApart'
  <1>1. \A v \in Tunnels : tunnel'[v].at = tunnel[v].at
    OBVIOUS
  <1>2. \A v \in Tunnels : tunnel'[v].pc \in Busy => tunnel[v].pc \in Busy
    OBVIOUS
  <1>3. \A v \in Tunnels \ {u} : tunnel[v].pc \in Busy => tunnel[v].at \in Slots \ {tunnel[u].at}
    BY DEF SlotInv, TunnelsApart
  <1>4. tunnel[u].at \in Slots
    BY DEF SlotInv, TunnelsApart
  <1>5. Holding \subseteq Busy
    BY DEF Busy
  <1>6. \A v \in Tunnels : tunnel'[v].pc \in Holding => slot'[tunnel'[v].at].out = v
    BY <1>1, <1>3, <1>5 DEF SlotInv, TunnelsApart
  <1>7. \A v \in Tunnels : tunnel'[v].pc \in Busy \ {"start", "flag2"} => slot'[tunnel'[v].at].isOut
    BY <1>1, <1>3 DEF SlotInv, TunnelsApart
  <1>8. \A v \in Tunnels : tunnel'[v].pc \in {"waitPeer", "send"} => tunnel'[v].data \in Tunnels
    BY DEF SlotInv, TunnelsApart
  <1> QED
    BY <1>1, <1>2, <1>3, <1>4, <1>6, <1>7, <1>8 DEF SlotInv, TunnelsApart

\* A handler that goes on with its connection and leaves the slot as it is.
LEMMA UserGoesOn ==
    ASSUME SlotInv, NEW u \in Users, user[u].pc \in Holding \ {"start"},
           NEW c \in Holding \ {"start"}, user' = [user EXCEPT ![u].pc = c],
           c \in {"waitClose", "waitPeer", "send"} => user[u].pc \in {"waitClose", "waitPeer", "send"},
           slot' = slot, tunnel' = tunnel,
           carried' \in [Tunnels -> SUBSET Users], heard' \in [Users -> SUBSET Users]
    PROVE  SlotInv'
  <1>1. TypeOK /\ UsersApart /\ TunnelsApart
    BY DEF SlotInv
  <1>2. /\ slot \in [Slots -> Slot] /\ user \in [Users -> Handler(Users)]
        /\ tunnel \in [Tunnels -> Handler(Tunnels)]
    BY <1>1 DEF TypeOK
  <1>3. user[u].pc \in Busy /\ c \in Busy \cup {"gone"}
    BY DEF Busy
  <1>4. user' \in [Users -> Handler(Users)]
    BY <1>2, <1>3, PcAssigned
  <1>5. TypeOK'
    BY <1>2, <1>4 DEF TypeOK
  <1>6. /\ user'[u].at = user[u].at /\ user'[u].pc = c /\ user'[u].data = user[u].data
        /\ \A v \in Users \ {u} : user'[v] = user[v]
    BY <1>2 DEF Handler
  <1>7. /\ slot[user[u].at].in = u /\ slot[user[u].at].isIn
        /\ user[u].pc \in {"waitClose", "waitPeer", "send"} => user[u].data \in Users
    BY <1>1 DEF UsersApart, Busy, Holding
  <1>8. UsersApart'
    BY <1>2, <1>3, <1>4, <1>6, <1>7, UserMove
  <1>9. TunnelsApart'
    BY <1>1, <1>2, TunnelsUndisturbed
  <1> QED
    BY <1>5, <1>8, <1>9 DEF SlotInv

\* The same for the handlers of tunnels.
LEMMA TunnelGoesOn ==
    ASSUME SlotInv, NEW u \in Tunnels, tunnel[u].pc \in Holding \ {"start"},
           NEW c \in Holding \ {"start"}, tunnel' = [tunnel EXCEPT ![u].pc = c],
           c \in {"waitPeer", "send"} => tunnel[u].pc \in {"waitPeer", "send"},
           slot' = slot, user' = user,
           carried' \in [Tunnels -> SUBSET Users], heard' \in [Users -> SUBSET Users]
    PROVE  SlotInv'
  <1>1. TypeOK /\ UsersApart /\ TunnelsApart
    BY DEF SlotInv
  <1>2. /\ slot \in [Slots -> Slot] /\ tunnel \in [Tunnels -> Handler(Tunnels)]
        /\ user \in [Users -> Handler(Users)]
    BY <1>1 DEF TypeOK
  <1>3. tunnel[u].pc \in Busy /\ c \in Busy \cup {"gone"}
    BY DEF Busy
  <1>4. tunnel' \in [Tunnels -> Handler(Tunnels)]
    BY <1>2, <1>3, PcAssigned
  <1>5. TypeOK'
    BY <1>2, <1>4 DEF TypeOK
  <1>6. /\ tunnel'[u].at = tunnel[u].at /\ tunnel'[u].pc = c /\ tunnel'[u].data = tunnel[u].data
        /\ \A v \in Tunnels \ {u} : tunnel'[v] = tunnel[v]
    BY <1>2 DEF Handler
  <1>7. /\ slot[tunnel[u].at].out = u /\ slot[tunnel[u].at].isOut
        /\ tunnel[u].pc \in {"waitPeer", "send"} => tunnel[u].data \in Tunnels
    BY <1>1 DEF TunnelsApart, Busy, Holding
  <1>8. TunnelsApart'
    BY <1>2, <1>3, <1>4, <1>6, <1>7, TunnelMove
  <1>9. UsersApart'
    BY <1>1, <1>2, UsersUndisturbed
  <1> QED
    BY <1>5, <1>8, <1>9 DEF SlotInv

\* The steps of the input listener and of the users' handlers.
LEMMA UserStepsKeep ==
    ASSUME SlotInv, NEW u \in Users,
           \/ InputReady /\ (AcceptUser(u) \/ RefuseUser(u))
           \/ UserSteps(u)
    PROVE  SlotInv'
  <1>1. TypeOK /\ UsersApart /\ TunnelsApart
    BY DEF SlotInv
  <1>2. CASE InputReady /\ AcceptUser(u)
    <2>1. PICK i \in Slots :
             /\ ~slot[i].isIn
             /\ slot' = [slot EXCEPT ![i].in = u]
             /\ user' = [user EXCEPT ![u] = Started(i)]
      BY <1>2 DEF AcceptUser, IsFirst, get_input_socket_with_output
    <2>2. TypeOK'
      <3>1. slot' \in [Slots -> Slot]
        <4>1. slot \in [Slots -> Slot] /\ u \in Users \cup {NoSocket}
          BY <1>1 DEF TypeOK
        <4> QED
          BY <2>1, <4>1, SlotsTyped, Zenon
      <3>2. Started(i) \in Handler(Users)
        BY DEF Started, Handler
      <3>3. user' \in [Users -> Handler(Users)]
        BY <1>1, <2>1, <3>2 DEF TypeOK
      <3>4. UNCHANGED <<tunnel, carried, heard>>
        BY <1>2 DEF AcceptUser
      <3> QED
        BY <1>1, <3>1, <3>3, <3>4 DEF TypeOK
    <2>3. \A v \in Users \ {u} : user[v].pc \in Busy => user[v].at # i
      BY <1>1, <1>2, <2>1 DEF InputReady, UsersApart, Busy
    <2>4. /\ user'[u].at = i /\ user'[u].pc = "start"
          /\ slot'[i].in = u
          /\ \A v \in Users \ {u} : user'[v] = user[v]
          /\ \A j \in Slots \ {i} : slot'[j] = slot[j]
      BY <1>1, <2>1 DEF TypeOK, Slot, Started
    <2>5. UsersApart'
      BY <1>1, <2>3, <2>4 DEF UsersApart, Busy, Holding
    <2>6. \A j \in Slots : slot'[j].out = slot[j].out /\ slot'[j].isOut = slot[j].isOut
      BY <1>1, <2>1 DEF TypeOK, Slot
    <2>7. TunnelsApart'
      BY <1>1, <1>2, <2>2, <2>6, TunnelsUndisturbed DEF TypeOK, AcceptUser
    <2> QED
      BY <2>2, <2>5, <2>7 DEF SlotInv
  <1>3. CASE RefuseUser(u)
    <2>1. TypeOK'
      BY <1>1, <1>3 DEF TypeOK, RefuseUser, GoUser, Handler
    <2>2. /\ user'[u].pc = "gone" /\ slot' = slot /\ tunnel' = tunnel
          /\ \A v \in Users \ {u} : user'[v] = user[v]
      BY <1>1, <1>3 DEF TypeOK, RefuseUser, GoUser, Handler
    <2>3. UsersApart'
      BY <1>1, <2>2 DEF UsersApart, Busy, Holding
    <2>4. TunnelsApart'
      BY <1>1, <2>1, <2>2, TunnelsUndisturbed DEF TypeOK
    <2> QED
      BY <2>1, <2>3, <2>4 DEF SlotInv
  <1>4. ASSUME user[u].pc \in Busy, TypeOK', tunnel' = tunnel,
               user'[u].at = user[u].at,
               \A v \in Users \ {u} : user'[v] = user[v],
               \A i \in Slots \ {user[u].at} : slot'[i] = slot[i],
               \A i \in Slots : slot'[i].out = slot[i].out /\ slot'[i].isOut = slot[i].isOut,
               user'[u].pc \in Holding => slot'[user[u].at].in = u,
               user'[u].pc \in Busy \ {"start"} => slot'[user[u].at].isIn,
               user'[u].pc \in {"waitClose", "waitPeer", "send"} => user'[u].data \in Users
        PROVE  SlotInv'
    <2>1. UsersApart'
      BY <1>4, UserMove DEF TypeOK
    <2>2. TunnelsApart'
      BY <1>1, <1>4, TunnelsUndisturbed DEF TypeOK
    <2> QED
      BY <1>4, <2>1, <2>2 DEF SlotInv
  <1>5. ASSUME user[u].pc \in Busy
        PROVE  /\ user[u].at \in Slots
               /\ user[u].pc \in Holding => slot[user[u].at].in = u
               /\ user[u].pc \in Busy \ {"start"} => slot[user[u].at].isIn
               /\ user[u].pc \in {"waitClose", "waitPeer", "send"} => user[u].data \in Users
    BY <1>1, <1>5 DEF UsersApart
  <1>0. /\ slot \in [Slots -> Slot]
        /\ user \in [Users -> Handler(Users)] /\ tunnel \in [Tunnels -> Handler(Tunnels)]
        /\ carried \in [Tunnels -> SUBSET Users] /\ heard \in [Users -> SUBSET Users]
    BY <1>1 DEF TypeOK
  <1> USE DEF Busy, Holding, SlotOf, GoUser
  <1>6. CASE UserStart(u)
    <2>1. user[u].pc \in Busy /\ user[u].at \in Slots
      BY <1>5, <1>6 DEF UserStart
    <2>2. TypeOK'
      <3>1. slot' \in [Slots -> Slot]
        BY <1>0, <1>6, <2>1, SlotsTyped, Zenon DEF UserStart
      <3>2. user' \in [Users -> Handler(Users)]
        <4>1. user' = [user EXCEPT ![u].pc = "handshake"]
          BY <1>6 DEF UserStart
        <4> HIDE DEF Busy, Holding
        <4> QED
          BY <1>0, <4>1, PcTyped, PcAssigned
      <3>3. carried' \in [Tunnels -> SUBSET Users] /\ heard' \in [Users -> SUBSET Users]
        BY <1>0, <1>5, <1>6, <2>1 DEF UserStart
      <3> QED
        BY <1>0, <1>6, <3>1, <3>2, <3>3 DEF TypeOK, UserStart
    <2>3. /\ tunnel' = tunnel /\ user'[u].at = user[u].at
          /\ \A x \in Users \ {u} : user'[x] = user[x]
          /\ \A i \in Slots \ {user[u].at} : slot'[i] = slot[i]
          /\ \A i \in Slots : slot'[i].out = slot[i].out /\ slot'[i].isOut = slot[i].isOut
      BY <1>1, <1>6, <2>1 DEF TypeOK, UserStart, Handler, Slot
    <2>4. /\ user'[u].pc \in Holding => slot'[user[u].at].in = u
          /\ user'[u].pc \in Busy \ {"start"} => slot'[user[u].at].isIn
          /\ user'[u].pc \in {"waitClose", "waitPeer", "send"} => user'[u].data \in Users
      BY <1>1, <1>5, <1>6, <2>1 DEF TypeOK, UserStart, Handler, Slot
    <2> QED
      BY <1>4, <2>1, <2>2, <2>3, <2>4
  <1>7. CASE UserHandshake(u)
    <2>1. user[u].pc \in Holding \ {"start"} /\ user' = [user EXCEPT ![u].pc = "select"]
      BY <1>7 DEF UserHandshake
    <2>2. slot' = slot /\ tunnel' = tunnel /\ carried' = carried /\ heard' = heard
      BY <1>7 DEF UserHandshake
    <2>3. "select" \in Holding \ {"start"}
      OBVIOUS
    <2>4. "select" \in {"waitClose", "waitPeer", "send"} => user[u].pc \in {"waitClose", "waitPeer", "send"}
      BY <1>7 DEF UserHandshake
    <2> HIDE DEF Busy, Holding
    <2> QED
      BY <1>0, <2>1, <2>2, <2>3, <2>4, UserGoesOn
  <1>8. CASE UserHandshakeFails(u)
    <2>1. user[u].pc \in Busy /\ user[u].at \in Slots
      BY <1>5, <1>8 DEF UserHandshakeFails
    <2>2. user' = [user EXCEPT ![u].pc = "gone"] /\ tunnel' = tunnel /\ carried' = carried /\ heard' = heard
      BY <1>8 DEF UserHandshakeFails
    <2>3. slot' = [slot EXCEPT ![user[u].at].in = NoSocket, ![user[u].at].isIn = FALSE]
      BY <1>8 DEF UserHandshakeFails
    <2>4. slot' \in [Slots -> Slot]
      BY <1>0, <2>1, <2>3, SlotsTyped, Zenon
    <2>5. user' \in [Users -> Handler(Users)]
      <3> HIDE DEF Busy, Holding
      <3> QED
        BY <1>0, <2>2, PcTyped, PcAssigned
    <2>6. TypeOK'
      BY <1>0, <2>2, <2>4, <2>5 DEF TypeOK
    <2>7. /\ user'[u].at = user[u].at /\ user'[u].pc = "gone"
          /\ \A v \in Users \ {u} : user'[v] = user[v]
      BY <1>0, <2>2 DEF Handler
    <2>8. /\ \A i \in Slots \ {user[u].at} : slot'[i] = slot[i]
          /\ \A i \in Slots : slot'[i].out = slot[i].out /\ slot'[i].isOut = slot[i].isOut
      BY <1>0, <2>1, <2>3 DEF Slot
    <2> QED
      BY <1>4, <2>1, <2>2, <2>6, <2>7, <2>8
  <1>9. CASE UserData(u)
    <2>1. user[u].pc \in Busy /\ user[u].at \in Slots
      BY <1>5, <1>9 DEF UserData
    <2>2. TypeOK'
      <3>1. slot' \in [Slots -> Slot]
        BY <1>0, <1>9, <2>1, SlotsTyped, Zenon DEF UserData
      <3>2. user' \in [Users -> Handler(Users)]
        <4>1. user' = [user EXCEPT ![u].pc = "waitClose", ![u].data = slot[user[u].at].in]
          BY <1>9 DEF UserData
        <4>2. slot[user[u].at].in \in Users \cup {NoSocket}
          BY <1>0, <2>1 DEF Slot
        <4> HIDE DEF Busy, Holding
        <4>3. ASSUME NEW d \in Users \cup {NoSocket}
              PROVE  [user EXCEPT ![u].pc = "waitClose", ![u].data = d] \in [Users -> Handler(Users)]
          <5>1. user \in [Users -> Handler(Users)] /\ "waitClose" \in Busy \cup {"gone"}
            BY <1>0, PcTyped
          <5> QED
            BY <5>1, PcAndDataAssigned, Zenon
        <4> QED
          BY <4>1, <4>2, <4>3
      <3>3. carried' \in [Tunnels -> SUBSET Users] /\ heard' \in [Users -> SUBSET Users]
        BY <1>0, <1>5, <1>9, <2>1 DEF UserData
      <3> QED
        BY <1>0, <1>9, <3>1, <3>2, <3>3 DEF TypeOK, UserData
    <2>3. /\ tunnel' = tunnel /\ user'[u].at = user[u].at
          /\ \A x \in Users \ {u} : user'[x] = user[x]
          /\ \A i \in Slots \ {user[u].at} : slot'[i] = slot[i]
          /\ \A i \in Slots : slot'[i].out = slot[i].out /\ slot'[i].isOut = slot[i].isOut
      BY <1>1, <1>9, <2>1 DEF TypeOK, UserData, Handler, Slot
    <2>4. /\ user'[u].pc \in Holding => slot'[user[u].at].in = u
          /\ user'[u].pc \in Busy \ {"start"} => slot'[user[u].at].isIn
          /\ user'[u].pc \in {"waitClose", "waitPeer", "send"} => user'[u].data \in Users
      BY <1>1, <1>5, <1>9, <2>1 DEF TypeOK, UserData, Handler, Slot
    <2> QED
      BY <1>4, <2>1, <2>2, <2>3, <2>4
  <1>10. CASE UserLeaves(u)
    <2>1. user[u].pc \in Holding \ {"start"} /\ user' = [user EXCEPT ![u].pc = "close"]
      BY <1>10 DEF UserLeaves
    <2>2. slot' = slot /\ tunnel' = tunnel /\ carried' = carried /\ heard' = heard
      BY <1>10 DEF UserLeaves
    <2>3. "close" \in Holding \ {"start"}
      OBVIOUS
    <2>4. "close" \in {"waitClose", "waitPeer", "send"} => user[u].pc \in {"waitClose", "waitPeer", "send"}
      BY <1>10 DEF UserLeaves
    <2> HIDE DEF Busy, Holding
    <2> QED
      BY <1>0, <2>1, <2>2, <2>3, <2>4, UserGoesOn
  <1>11. CASE UserSeesClosed(u)
    <2>1. user[u].pc \in Holding \ {"start"} /\ user' = [user EXCEPT ![u].pc = "waitPeer"]
      BY <1>11 DEF UserSeesClosed
    <2>2. slot' = slot /\ tunnel' = tunnel /\ carried' = carried /\ heard' = heard
      BY <1>11 DEF UserSeesClosed
    <2>3. "waitPeer" \in Holding \ {"start"}
      OBVIOUS
    <2>4. "waitPeer" \in {"waitClose", "waitPeer", "send"} => user[u].pc \in {"waitClose", "waitPeer", "send"}
      BY <1>11 DEF UserSeesClosed
    <2> HIDE DEF Busy, Holding
    <2> QED
      BY <1>0, <2>1, <2>2, <2>3, <2>4, UserGoesOn
  <1>12. CASE UserCloseTimeout(u)
    <2>1. user[u].pc \in Busy /\ user[u].at \in Slots
      BY <1>5, <1>12 DEF UserCloseTimeout
    <2>2. TypeOK'
      <3>1. slot' \in [Slots -> Slot]
        BY <1>0, <1>12, <2>1, SlotsTyped, Zenon DEF UserCloseTimeout
      <3>2. user' \in [Users -> Handler(Users)]
        <4>1. user' = [user EXCEPT ![u].pc = "waitPeer", ![u].done = TRUE]
          BY <1>12 DEF UserCloseTimeout
        <4>2. (TRUE) \in BOOLEAN
          OBVIOUS
        <4> HIDE DEF Busy, Holding
        <4>3. "waitPeer" \in Busy \cup {"gone"}
          BY PcTyped
        <4>4. \A c \in Busy \cup {"gone"}, d \in BOOLEAN :
                 [user EXCEPT ![u].pc = c, ![u].done = d] \in [Users -> Handler(Users)]
          BY <1>0, PcAndDoneAssigned, Zenon
        <4> QED
          BY <4>1, <4>2, <4>3, <4>4, Zenon
      <3>3. carried' \in [Tunnels -> SUBSET Users] /\ heard' \in [Users -> SUBSET Users]
        BY <1>0, <1>5, <1>12, <2>1 DEF UserCloseTimeout
      <3> QED
        BY <1>0, <1>12, <3>1, <3>2, <3>3 DEF TypeOK, UserCloseTimeout
    <2>3. /\ tunnel' = tunnel /\ user'[u].at = user[u].at
          /\ \A x \in Users \ {u} : user'[x] = user[x]
          /\ \A i \in Slots \ {user[u].at} : slot'[i] = slot[i]
          /\ \A i \in Slots : slot'[i].out = slot[i].out /\ slot'[i].isOut = slot[i].isOut
      BY <1>1, <1>12, <2>1 DEF TypeOK, UserCloseTimeout, Handler, Slot
    <2>4. /\ user'[u].pc \in Holding => slot'[user[u].at].in = u
          /\ user'[u].pc \in Busy \ {"start"} => slot'[user[u].at].isIn
          /\ user'[u].pc \in {"waitClose", "waitPeer", "send"} => user'[u].data \in Users
      BY <1>1, <1>5, <1>12, <2>1 DEF TypeOK, UserCloseTimeout, Handler, Slot
    <2> QED
      BY <1>4, <2>1, <2>2, <2>3, <2>4
  <1>13. CASE UserSeesTunnel(u)
    <2>1. user[u].pc \in Holding \ {"start"} /\ user' = [user EXCEPT ![u].pc = "send"]
      BY <1>13 DEF UserSeesTunnel
    <2>2. slot' = slot /\ tunnel' = tunnel /\ carried' = carried /\ heard' = heard
      BY <1>13 DEF UserSeesTunnel
    <2>3. "send" \in Holding \ {"start"}
      OBVIOUS
    <2>4. "send" \in {"waitClose", "waitPeer", "send"} => user[u].pc \in {"waitClose", "waitPeer", "send"}
      BY <1>13 DEF UserSeesTunnel
    <2> HIDE DEF Busy, Holding
    <2> QED
      BY <1>0, <2>1, <2>2, <2>3, <2>4, UserGoesOn
  <1>14. CASE UserTunnelTimeout(u)
    <2>1. user[u].pc \in Busy /\ user[u].at \in Slots
      BY <1>5, <1>14 DEF UserTunnelTimeout
    <2>2. TypeOK'
      <3>1. slot' \in [Slots -> Slot]
        BY <1>0, <1>14, <2>1, SlotsTyped, Zenon DEF UserTunnelTimeout
      <3>2. user' \in [Users -> Handler(Users)]
        <4>1. user' = [user EXCEPT ![u].pc = "send", ![u].done = TRUE]
          BY <1>14 DEF UserTunnelTimeout
        <4>2. (TRUE) \in BOOLEAN
          OBVIOUS
        <4> HIDE DEF Busy, Holding
        <4>3. "send" \in Busy \cup {"gone"}
          BY PcTyped
        <4>4. \A c \in Busy \cup {"gone"}, d \in BOOLEAN :
                 [user EXCEPT ![u].pc = c, ![u].done = d] \in [Users -> Handler(Users)]
          BY <1>0, PcAndDoneAssigned, Zenon
        <4> QED
          BY <4>1, <4>2, <4>3, <4>4, Zenon
      <3>3. carried' \in [Tunnels -> SUBSET Users] /\ heard' \in [Users -> SUBSET Users]
        BY <1>0, <1>5, <1>14, <2>1 DEF UserTunnelTimeout
      <3> QED
        BY <1>0, <1>14, <3>1, <3>2, <3>3 DEF TypeOK, UserTunnelTimeout
    <2>3. /\ tunnel' = tunnel /\ user'[u].at = user[u].at
          /\ \A x \in Users \ {u} : user'[x] = user[x]
          /\ \A i \in Slots \ {user[u].at} : slot'[i] = slot[i]
          /\ \A i \in Slots : slot'[i].out = slot[i].out /\ slot'[i].isOut = slot[i].isOut
      BY <1>1, <1>14, <2>1 DEF TypeOK, UserTunnelTimeout, Handler, Slot
    <2>4. /\ user'[u].pc \in Holding => slot'[user[u].at].in = u
          /\ user'[u].pc \in Busy \ {"start"} => slot'[user[u].at].isIn
          /\ user'[u].pc \in {"waitClose", "waitPeer", "send"} => user'[u].data \in Users
      BY <1>1, <1>5, <1>14, <2>1 DEF TypeOK, UserTunnelTimeout, Handler, Slot
    <2> QED
      BY <1>4, <2>1, <2>2, <2>3, <2>4
  <1>15. ASSUME NEW more \in BOOLEAN, UserSend(u, more) PROVE SlotInv'
    <2>1. user[u].pc \in Holding \ {"start"} /\ slot' = slot /\ tunnel' = tunnel
      BY <1>15 DEF UserSend
    <2>2. PICK c \in {"send", "close", "select"} : user' = [user EXCEPT ![u].pc = c]
      BY <1>15 DEF UserSend
    <2>3. carried' \in [Tunnels -> SUBSET Users] /\ heard' \in [Users -> SUBSET Users]
      <3>1. user[u].data \in Users
        BY <1>5, <1>15 DEF UserSend
      <3> QED
        BY <1>0, <1>15, <3>1 DEF UserSend
    <2>4. c \in Holding \ {"start"}
      BY <2>2
    <2>5. c \in {"waitClose", "waitPeer", "send"} => user[u].pc \in {"waitClose", "waitPeer", "send"}
      BY <1>15, <2>2 DEF UserSend
    <2> HIDE DEF Busy, Holding
    <2> QED
      BY <2>1, <2>2, <2>3, <2>4, <2>5, UserGoesOn
  <1>16. CASE UserSendFails(u)
    <2>1. user[u].pc \in Holding \ {"start"} /\ slot' = slot /\ tunnel' = tunnel
      BY <1>16 DEF UserSendFails
    <2>2. PICK c \in {"close", "select"} : user' = [user EXCEPT ![u].pc = c]
      BY <1>16 DEF UserSendFails
    <2>3. carried' \in [Tunnels -> SUBSET Users] /\ heard' \in [Users -> SUBSET Users]
      BY <1>0, <1>16 DEF UserSendFails
    <2>4. c \in Holding \ {"start"}
      BY <2>2
    <2>5. c \in {"waitClose", "waitPeer", "send"} => user[u].pc \in {"waitClose", "waitPeer", "send"}
      BY <1>16, <2>2 DEF UserSendFails
    <2> HIDE DEF Busy, Holding
    <2> QED
      BY <2>1, <2>2, <2>3, <2>4, <2>5, UserGoesOn
  <1>17. CASE UserClose(u)
    <2>1. user[u].pc \in Busy /\ user[u].at \in Slots
      BY <1>5, <1>17 DEF UserClose
    <2>2. TypeOK'
      <3>1. slot' \in [Slots -> Slot]
        BY <1>0, <1>17, <2>1, SlotsTyped, Zenon DEF UserClose
      <3>2. user' \in [Users -> Handler(Users)]
        <4>1. user' = [user EXCEPT ![u].pc = "flag1"]
          BY <1>17 DEF UserClose
        <4> HIDE DEF Busy, Holding
        <4> QED
          BY <1>0, <4>1, PcTyped, PcAssigned
      <3>3. carried' \in [Tunnels -> SUBSET Users] /\ heard' \in [Users -> SUBSET Users]
        BY <1>0, <1>5, <1>17, <2>1 DEF UserClose
      <3> QED
        BY <1>0, <1>17, <3>1, <3>2, <3>3 DEF TypeOK, UserClose
    <2>3. /\ tunnel' = tunnel /\ user'[u].at = user[u].at
          /\ \A x \in Users \ {u} : user'[x] = user[x]
          /\ \A i \in Slots \ {user[u].at} : slot'[i] = slot[i]
          /\ \A i \in Slots : slot'[i].out = slot[i].out /\ slot'[i].isOut = slot[i].isOut
      BY <1>1, <1>17, <2>1 DEF TypeOK, UserClose, Handler, Slot
    <2>4. /\ user'[u].pc \in Holding => slot'[user[u].at].in = u
          /\ user'[u].pc \in Busy \ {"start"} => slot'[user[u].at].isIn
          /\ user'[u].pc \in {"waitClose", "waitPeer", "send"} => user'[u].data \in Users
      BY <1>1, <1>5, <1>17, <2>1 DEF TypeOK, UserClose, Handler, Slot
    <2> QED
      BY <1>4, <2>1, <2>2, <2>3, <2>4
  <1>18. CASE UserFlag1(u)
    <2>1. user[u].pc \in Busy /\ user[u].at \in Slots
      BY <1>5, <1>18 DEF UserFlag1
    <2>2. TypeOK'
      <3>1. slot' \in [Slots -> Slot]
        BY <1>0, <1>18, <2>1, SlotsTyped, Zenon DEF UserFlag1
      <3>2. user' \in [Users -> Handler(Users)]
        <4>1. user' = [user EXCEPT ![u].pc = "flag2"]
          BY <1>18 DEF UserFlag1
        <4> HIDE DEF Busy, Holding
        <4> QED
          BY <1>0, <4>1, PcTyped, PcAssigned
      <3>3. carried' \in [Tunnels -> SUBSET Users] /\ heard' \in [Users -> SUBSET Users]
        BY <1>0, <1>5, <1>18, <2>1 DEF UserFlag1
      <3> QED
        BY <1>0, <1>18, <3>1, <3>2, <3>3 DEF TypeOK, UserFlag1
    <2>3. /\ tunnel' = tunnel /\ user'[u].at = user[u].at
          /\ \A x \in Users \ {u} : user'[x] = user[x]
          /\ \A i \in Slots \ {user[u].at} : slot'[i] = slot[i]
          /\ \A i \in Slots : slot'[i].out = slot[i].out /\ slot'[i].isOut = slot[i].isOut
      BY <1>1, <1>18, <2>1 DEF TypeOK, UserFlag1, Handler, Slot
    <2>4. /\ user'[u].pc \in Holding => slot'[user[u].at].in = u
          /\ user'[u].pc \in Busy \ {"start"} => slot'[user[u].at].isIn
          /\ user'[u].pc \in {"waitClose", "waitPeer", "send"} => user'[u].data \in Users
      BY <1>1, <1>5, <1>18, <2>1 DEF TypeOK, UserFlag1, Handler, Slot
    <2> QED
      BY <1>4, <2>1, <2>2, <2>3, <2>4
  <1>19. CASE UserFlag2(u)
    <2>1. user[u].pc \in Busy /\ user[u].at \in Slots
      BY <1>5, <1>19 DEF UserFlag2
    <2>2. TypeOK'
      <3>1. slot' \in [Slots -> Slot]
        BY <1>0, <1>19, <2>1, SlotsTyped, Zenon DEF UserFlag2
      <3>2. user' \in [Users -> Handler(Users)]
        <4>1. user' = [user EXCEPT ![u].pc = "gone"]
          BY <1>19 DEF UserFlag2
        <4> HIDE DEF Busy, Holding
        <4> QED
          BY <1>0, <4>1, PcTyped, PcAssigned
      <3>3. carried' \in [Tunnels -> SUBSET Users] /\ heard' \in [Users -> SUBSET Users]
        BY <1>0, <1>5, <1>19, <2>1 DEF UserFlag2
      <3> QED
        BY <1>0, <1>19, <3>1, <3>2, <3>3 DEF TypeOK, UserFlag2
    <2>3. /\ tunnel' = tunnel /\ user'[u].at = user[u].at
          /\ \A x \in Users \ {u} : user'[x] = user[x]
          /\ \A i \in Slots \ {user[u].at} : slot'[i] = slot[i]
          /\ \A i \in Slots : slot'[i].out = slot[i].out /\ slot'[i].isOut = slot[i].isOut
      BY <1>1, <1>19, <2>1 DEF TypeOK, UserFlag2, Handler, Slot
    <2>4. /\ user'[u].pc \in Holding => slot'[user[u].at].in = u
          /\ user'[u].pc \in Busy \ {"start"} => slot'[user[u].at].isIn
          /\ user'[u].pc \in {"waitClose", "waitPeer", "send"} => user'[u].data \in Users
      BY <1>1, <1>5, <1>19, <2>1 DEF TypeOK, UserFlag2, Handler, Slot
    <2> QED
      BY <1>4, <2>1, <2>2, <2>3, <2>4
  <1> QED
    BY <1>2, <1>3, <1>6, <1>7, <1>8, <1>9, <1>10, <1>11, <1>12, <1>13, <1>14, <1>15, <1>16, <1>17, <1>18, <1>19 DEF UserSteps

\* The steps of the output listener and of the tunnels' handlers.
LEMMA TunnelStepsKeep ==
    ASSUME SlotInv, NEW t \in Tunnels,
           \/ OutputReady /\ (AcceptTunnel(t) \/ RefuseTunnel(t))
           \/ TunnelSteps(t)
    PROVE  SlotInv'
  <1>1. TypeOK /\ TunnelsApart /\ UsersApart
    BY DEF SlotInv
  <1>2. CASE OutputReady /\ AcceptTunnel(t)
    <2>1. PICK i \in Slots :
             /\ ~slot[i].isOut
             /\ slot' = [slot EXCEPT ![i].out = t]
             /\ tunnel' = [tunnel EXCEPT ![t] = Started(i)]
      BY <1>2 DEF AcceptTunnel, IsFirst, get_free_output_socket
    <2>2. TypeOK'
      <3>1. slot' \in [Slots -> Slot]
        <4>1. slot \in [Slots -> Slot] /\ t \in Tunnels \cup {NoSocket}
          BY <1>1 DEF TypeOK
        <4> QED
          BY <2>1, <4>1, SlotsTyped, Zenon
      <3>2. Started(i) \in Handler(Tunnels)
        BY DEF Started, Handler
      <3>3. tunnel' \in [Tunnels -> Handler(Tunnels)]
        BY <1>1, <2>1, <3>2 DEF TypeOK
      <3>4. UNCHANGED <<user, carried, heard>>
        BY <1>2 DEF AcceptTunnel
      <3> QED
        BY <1>1, <3>1, <3>3, <3>4 DEF TypeOK
    <2>3. \A v \in Tunnels \ {t} : tunnel[v].pc \in Busy => tunnel[v].at # i
      BY <1>1, <1>2, <2>1 DEF OutputReady, TunnelsApart, Busy
    <2>4. /\ tunnel'[t].at = i /\ tunnel'[t].pc = "start"
          /\ slot'[i].out = t
          /\ \A v \in Tunnels \ {t} : tunnel'[v] = tunnel[v]
          /\ \A j \in Slots \ {i} : slot'[j] = slot[j]
      BY <1>1, <2>1 DEF TypeOK, Slot, Started
    <2>5. TunnelsApart'
      BY <1>1, <2>3, <2>4 DEF TunnelsApart, Busy, Holding
    <2>6. \A j \in Slots : slot'[j].in = slot[j].in /\ slot'[j].isIn = slot[j].isIn
      BY <1>1, <2>1 DEF TypeOK, Slot
    <2>7. UsersApart'
      BY <1>1, <1>2, <2>2, <2>6, UsersUndisturbed DEF TypeOK, AcceptTunnel
    <2> QED
      BY <2>2, <2>5, <2>7 DEF SlotInv
  <1>3. CASE RefuseTunnel(t)
    <2>1. TypeOK'
      BY <1>1, <1>3 DEF TypeOK, RefuseTunnel, GoTunnel, Handler
    <2>2. /\ tunnel'[t].pc = "gone" /\ slot' = slot /\ user' = user
          /\ \A v \in Tunnels \ {t} : tunnel'[v] = tunnel[v]
      BY <1>1, <1>3 DEF TypeOK, RefuseTunnel, GoTunnel, Handler
    <2>3. TunnelsApart'
      BY <1>1, <2>2 DEF TunnelsApart, Busy, Holding
    <2>4. UsersApart'
      BY <1>1, <2>1, <2>2, UsersUndisturbed DEF TypeOK
    <2> QED
      BY <2>1, <2>3, <2>4 DEF SlotInv
  <1>4. ASSUME tunnel[t].pc \in Busy, TypeOK', user' = user,
               tunnel'[t].at = tunnel[t].at,
               \A v \in Tunnels \ {t} : tunnel'[v] = tunnel[v],
               \A i \in Slots \ {tunnel[t].at} : slot'[i] = slot[i],
               \A i \in Slots : slot'[i].in = slot[i].in /\ slot'[i].isIn = slot[i].isIn,
               tunnel'[t].pc \in Holding => slot'[tunnel[t].at].out = t,
               tunnel'[t].pc \in Busy \ {"start", "flag2"} => slot'[tunnel[t].at].isOut,
               tunnel'[t].pc \in {"waitPeer", "send"} => tunnel'[t].data \in Tunnels
        PROVE  SlotInv'
    <2>1. TunnelsApart'
      BY <1>4, TunnelMove DEF TypeOK
    <2>2. UsersApart'
      BY <1>1, <1>4, UsersUndisturbed DEF TypeOK
    <2> QED
      BY <1>4, <2>1, <2>2 DEF SlotInv
  <1>5. ASSUME tunnel[t].pc \in Busy
        PROVE  /\ tunnel[t].at \in Slots
               /\ tunnel[t].pc \in Holding => slot[tunnel[t].at].out = t
               /\ tunnel[t].pc \in Busy \ {"start", "flag2"} => slot[tunnel[t].at].isOut
               /\ tunnel[t].pc \in {"waitPeer", "send"} => tunnel[t].data \in Tunnels
    BY <1>1, <1>5 DEF TunnelsApart
  <1>0. /\ slot \in [Slots -> Slot]
        /\ user \in [Users -> Handler(Users)] /\ tunnel \in [Tunnels -> Handler(Tunnels)]
        /\ carried \in [Tunnels -> SUBSET Users] /\ heard \in [Users -> SUBSET Users]
    BY <1>1 DEF TypeOK
  <1> USE DEF Busy, Holding, SlotOf, GoTunnel
  <1>6. CASE TunnelStart(t)
    <2>1. tunnel[t].pc \in Busy /\ tunnel[t].at \in Slots
      BY <1>5, <1>6 DEF TunnelStart
    <2>2. TypeOK'
      <3>1. slot' \in [Slots -> Slot]
        BY <1>0, <1>6, <2>1, SlotsTyped, Zenon DEF TunnelStart
      <3>2. tunnel' \in [Tunnels -> Handler(Tunnels)]
        <4>1. tunnel' = [tunnel EXCEPT ![t].pc = "handshake"]
          BY <1>6 DEF TunnelStart
        <4> HIDE DEF Busy, Holding
        <4> QED
          BY <1>0, <4>1, PcTyped, PcAssigned
      <3>3. carried' \in [Tunnels -> SUBSET Users] /\ heard' \in [Users -> SUBSET Users]
        BY <1>0, <1>5, <1>6, <2>1 DEF TunnelStart
      <3> QED
        BY <1>0, <1>6, <3>1, <3>2, <3>3 DEF TypeOK, TunnelStart
    <2>3. /\ user' = user /\ tunnel'[t].at = tunnel[t].at
          /\ \A x \in Tunnels \ {t} : tunnel'[x] = tunnel[x]
          /\ \A i \in Slots \ {tunnel[t].at} : slot'[i] = slot[i]
          /\ \A i \in Slots : slot'[i].in = slot[i].in /\ slot'[i].isIn = slot[i].isIn
      BY <1>1, <1>6, <2>1 DEF TypeOK, TunnelStart, Handler, Slot
    <2>4. /\ tunnel'[t].pc \in Holding => slot'[tunnel[t].at].out = t
          /\ tunnel'[t].pc \in Busy \ {"start", "flag2"} => slot'[tunnel[t].at].isOut
          /\ tunnel'[t].pc \in {"waitPeer", "send"} => tunnel'[t].data \in Tunnels
      BY <1>1, <1>5, <1>6, <2>1 DEF TypeOK, TunnelStart, Handler, Slot
    <2> QED
      BY <1>4, <2>1, <2>2, <2>3, <2>4
  <1>7. CASE TunnelHandshake(t)
    <2>1. tunnel[t].pc \in Holding \ {"start"} /\ tunnel' = [tunnel EXCEPT ![t].pc = "loop"]
      BY <1>7 DEF TunnelHandshake
    <2>2. slot' = slot /\ user' = user /\ carried' = carried /\ heard' = heard
      BY <1>7 DEF TunnelHandshake
    <2>3. "loop" \in Holding \ {"start"}
      OBVIOUS
    <2>4. "loop" \in {"waitPeer", "send"} => tunnel[t].pc \in {"waitPeer", "send"}
      BY <1>7 DEF TunnelHandshake
    <2> HIDE DEF Busy, Holding
    <2> QED
      BY <1>0, <2>1, <2>2, <2>3, <2>4, TunnelGoesOn
  <1>8. CASE TunnelHandshakeFails(t)
    <2>1. tunnel[t].pc \in Busy /\ tunnel[t].at \in Slots
      BY <1>5, <1>8 DEF TunnelHandshakeFails
    <2>2. tunnel' = [tunnel EXCEPT ![t].pc = "gone"] /\ user' = user /\ carried' = carried /\ heard' = heard
      BY <1>8 DEF TunnelHandshakeFails
    <2>3. slot' = [slot EXCEPT ![tunnel[t].at].out = NoSocket, ![tunnel[t].at].isOut = FALSE]
      BY <1>8 DEF TunnelHandshakeFails
    <2>4. slot' \in [Slots -> Slot]
      BY <1>0, <2>1, <2>3, SlotsTyped, Zenon
    <2>5. tunnel' \in [Tunnels -> Handler(Tunnels)]
      <3> HIDE DEF Busy, Holding
      <3> QED
        BY <1>0, <2>2, PcTyped, PcAssigned
    <2>6. TypeOK'
      BY <1>0, <2>2, <2>4, <2>5 DEF TypeOK
    <2>7. /\ tunnel'[t].at = tunnel[t].at /\ tunnel'[t].pc = "gone"
          /\ \A v \in Tunnels \ {t} : tunnel'[v] = tunnel[v]
      BY <1>0, <2>2 DEF Handler
    <2>8. /\ \A i \in Slots \ {tunnel[t].at} : slot'[i] = slot[i]
          /\ \A i \in Slots : slot'[i].in = slot[i].in /\ slot'[i].isIn = slot[i].isIn
      BY <1>0, <2>1, <2>3 DEF Slot
    <2> QED
      BY <1>4, <2>1, <2>2, <2>6, <2>7, <2>8
  <1>9. CASE TunnelLoop(t)
    <2>1. tunnel[t].pc \in Holding \ {"start"} /\ slot' = slot /\ user' = user
      BY <1>9 DEF TunnelLoop
    <2>2. PICK c \in {"close", "select"} : tunnel' = [tunnel EXCEPT ![t].pc = c]
      BY <1>9 DEF TunnelLoop
    <2>3. carried' \in [Tunnels -> SUBSET Users] /\ heard' \in [Users -> SUBSET Users]
      BY <1>0, <1>9 DEF TunnelLoop
    <2>4. c \in Holding \ {"start"}
      BY <2>2
    <2>5. c \in {"waitPeer", "send"} => tunnel[t].pc \in {"waitPeer", "send"}
      BY <1>9, <2>2 DEF TunnelLoop
    <2> HIDE DEF Busy, Holding
    <2> QED
      BY <2>1, <2>2, <2>3, <2>4, <2>5, TunnelGoesOn
  <1>10. CASE TunnelIdle(t)
    <2>1. tunnel[t].pc \in Holding \ {"start"} /\ tunnel' = [tunnel EXCEPT ![t].pc = "loop"]
      BY <1>10 DEF TunnelIdle
    <2>2. slot' = slot /\ user' = user /\ carried' = carried /\ heard' = heard
      BY <1>10 DEF TunnelIdle
    <2>3. "loop" \in Holding \ {"start"}
      OBVIOUS
    <2>4. "loop" \in {"waitPeer", "send"} => tunnel[t].pc \in {"waitPeer", "send"}
      BY <1>10 DEF TunnelIdle
    <2> HIDE DEF Busy, Holding
    <2> QED
      BY <1>0, <2>1, <2>2, <2>3, <2>4, TunnelGoesOn
  <1>11. CASE TunnelData(t)
    <2>1. tunnel[t].pc \in Busy /\ tunnel[t].at \in Slots
      BY <1>5, <1>11 DEF TunnelData
    <2>2. TypeOK'
      <3>1. slot' \in [Slots -> Slot]
        BY <1>0, <1>11, <2>1, SlotsTyped, Zenon DEF TunnelData
      <3>2. tunnel' \in [Tunnels -> Handler(Tunnels)]
        <4>1. tunnel' = [tunnel EXCEPT ![t].pc = "waitPeer", ![t].data = slot[tunnel[t].at].out]
          BY <1>11 DEF TunnelData
        <4>2. slot[tunnel[t].at].out \in Tunnels \cup {NoSocket}
          BY <1>0, <2>1 DEF Slot
        <4> HIDE DEF Busy, Holding
        <4>3. ASSUME NEW d \in Tunnels \cup {NoSocket}
              PROVE  [tunnel EXCEPT ![t].pc = "waitPeer", ![t].data = d] \in [Tunnels -> Handler(Tunnels)]
          <5>1. tunnel \in [Tunnels -> Handler(Tunnels)] /\ "waitPeer" \in Busy \cup {"gone"}
            BY <1>0, PcTyped
          <5> QED
            BY <5>1, PcAndDataAssigned, Zenon
        <4> QED
          BY <4>1, <4>2, <4>3
      <3>3. carried' \in [Tunnels -> SUBSET Users] /\ heard' \in [Users -> SUBSET Users]
        BY <1>0, <1>5, <1>11, <2>1 DEF TunnelData
      <3> QED
        BY <1>0, <1>11, <3>1, <3>2, <3>3 DEF TypeOK, TunnelData
    <2>3. /\ user' = user /\ tunnel'[t].at = tunnel[t].at
          /\ \A x \in Tunnels \ {t} : tunnel'[x] = tunnel[x]
          /\ \A i \in Slots \ {tunnel[t].at} : slot'[i] = slot[i]
          /\ \A i \in Slots : slot'[i].in = slot[i].in /\ slot'[i].isIn = slot[i].isIn
      BY <1>1, <1>11, <2>1 DEF TypeOK, TunnelData, Handler, Slot
    <2>4. /\ tunnel'[t].pc \in Holding => slot'[tunnel[t].at].out = t
          /\ tunnel'[t].pc \in Busy \ {"start", "flag2"} => slot'[tunnel[t].at].isOut
          /\ tunnel'[t].pc \in {"waitPeer", "send"} => tunnel'[t].data \in Tunnels
      BY <1>1, <1>5, <1>11, <2>1 DEF TypeOK, TunnelData, Handler, Slot
    <2> QED
      BY <1>4, <2>1, <2>2, <2>3, <2>4
  <1>12. CASE TunnelLeaves(t)
    <2>1. tunnel[t].pc \in Holding \ {"start"} /\ tunnel' = [tunnel EXCEPT ![t].pc = "close"]
      BY <1>12 DEF TunnelLeaves
    <2>2. slot' = slot /\ user' = user /\ carried' = carried /\ heard' = heard
      BY <1>12 DEF TunnelLeaves
    <2>3. "close" \in Holding \ {"start"}
      OBVIOUS
    <2>4. "close" \in {"waitPeer", "send"} => tunnel[t].pc \in {"waitPeer", "send"}
      BY <1>12 DEF TunnelLeaves
    <2> HIDE DEF Busy, Holding
    <2> QED
      BY <1>0, <2>1, <2>2, <2>3, <2>4, TunnelGoesOn
  <1>13. CASE TunnelWaits(t)
    <2>1. tunnel[t].pc \in Busy /\ tunnel[t].at \in Slots
      BY <1>5, <1>13 DEF TunnelWaits
    <2>2. TypeOK'
      <3>1. slot' \in [Slots -> Slot]
        BY <1>0, <1>13, <2>1, SlotsTyped, Zenon DEF TunnelWaits
      <3>2. tunnel' \in [Tunnels -> Handler(Tunnels)]
        <4>1. tunnel' = [tunnel EXCEPT ![t].pc = "send", ![t].done = ~slot[tunnel[t].at].isIn]
          BY <1>13 DEF TunnelWaits
        <4>2. (~slot[tunnel[t].at].isIn) \in BOOLEAN
          OBVIOUS
        <4> HIDE DEF Busy, Holding
        <4>3. "send" \in Busy \cup {"gone"}
          BY PcTyped
        <4>4. \A c \in Busy \cup {"gone"}, d \in BOOLEAN :
                 [tunnel EXCEPT ![t].pc = c, ![t].done = d] \in [Tunnels -> Handler(Tunnels)]
          BY <1>0, PcAndDoneAssigned, Zenon
        <4> QED
          BY <4>1, <4>2, <4>3, <4>4, Zenon
      <3>3. carried' \in [Tunnels -> SUBSET Users] /\ heard' \in [Users -> SUBSET Users]
        BY <1>0, <1>5, <1>13, <2>1 DEF TunnelWaits
      <3> QED
        BY <1>0, <1>13, <3>1, <3>2, <3>3 DEF TypeOK, TunnelWaits
    <2>3. /\ user' = user /\ tunnel'[t].at = tunnel[t].at
          /\ \A x \in Tunnels \ {t} : tunnel'[x] = tunnel[x]
          /\ \A i \in Slots \ {tunnel[t].at} : slot'[i] = slot[i]
          /\ \A i \in Slots : slot'[i].in = slot[i].in /\ slot'[i].isIn = slot[i].isIn
      BY <1>1, <1>13, <2>1 DEF TypeOK, TunnelWaits, Handler, Slot
    <2>4. /\ tunnel'[t].pc \in Holding => slot'[tunnel[t].at].out = t
          /\ tunnel'[t].pc \in Busy \ {"start", "flag2"} => slot'[tunnel[t].at].isOut
          /\ tunnel'[t].pc \in {"waitPeer", "send"} => tunnel'[t].data \in Tunnels
      BY <1>1, <1>5, <1>13, <2>1 DEF TypeOK, TunnelWaits, Handler, Slot
    <2> QED
      BY <1>4, <2>1, <2>2, <2>3, <2>4
  <1>14. ASSUME NEW more \in BOOLEAN, TunnelSend(t, more) PROVE SlotInv'
    <2>1. tunnel[t].pc \in Holding \ {"start"} /\ slot' = slot /\ user' = user
      BY <1>14 DEF TunnelSend
    <2>2. PICK c \in {"send", "close", "loop"} : tunnel' = [tunnel EXCEPT ![t].pc = c]
      BY <1>14 DEF TunnelSend
    <2>3. carried' \in [Tunnels -> SUBSET Users] /\ heard' \in [Users -> SUBSET Users]
      <3>1. tunnel[t].data \in Tunnels
        BY <1>5, <1>14 DEF TunnelSend
      <3> QED
        BY <1>0, <1>14, <3>1 DEF TunnelSend
    <2>4. c \in Holding \ {"start"}
      BY <2>2
    <2>5. c \in {"waitPeer", "send"} => tunnel[t].pc \in {"waitPeer", "send"}
      BY <1>14, <2>2 DEF TunnelSend
    <2> HIDE DEF Busy, Holding
    <2> QED
      BY <2>1, <2>2, <2>3, <2>4, <2>5, TunnelGoesOn
  <1>15. CASE TunnelSendFails(t)
    <2>1. tunnel[t].pc \in Holding \ {"start"} /\ slot' = slot /\ user' = user
      BY <1>15 DEF TunnelSendFails
    <2>2. PICK c \in {"close", "loop"} : tunnel' = [tunnel EXCEPT ![t].pc = c]
      BY <1>15 DEF TunnelSendFails
    <2>3. carried' \in [Tunnels -> SUBSET Users] /\ heard' \in [Users -> SUBSET Users]
      BY <1>0, <1>15 DEF TunnelSendFails
    <2>4. c \in Holding \ {"start"}
      BY <2>2
    <2>5. c \in {"waitPeer", "send"} => tunnel[t].pc \in {"waitPeer", "send"}
      BY <1>15, <2>2 DEF TunnelSendFails
    <2> HIDE DEF Busy, Holding
    <2> QED
      BY <2>1, <2>2, <2>3, <2>4, <2>5, TunnelGoesOn
  <1>16. CASE TunnelClose(t)
    <2>1. tunnel[t].pc \in Busy /\ tunnel[t].at \in Slots
      BY <1>5, <1>16 DEF TunnelClose
    <2>2. TypeOK'
      <3>1. slot' \in [Slots -> Slot]
        BY <1>0, <1>16, <2>1, SlotsTyped, Zenon DEF TunnelClose
      <3>2. tunnel' \in [Tunnels -> Handler(Tunnels)]
        <4>1. tunnel' = [tunnel EXCEPT ![t].pc = "flag1"]
          BY <1>16 DEF TunnelClose
        <4> HIDE DEF Busy, Holding
        <4> QED
          BY <1>0, <4>1, PcTyped, PcAssigned
      <3>3. carried' \in [Tunnels -> SUBSET Users] /\ heard' \in [Users -> SUBSET Users]
        BY <1>0, <1>5, <1>16, <2>1 DEF TunnelClose
      <3> QED
        BY <1>0, <1>16, <3>1, <3>2, <3>3 DEF TypeOK, TunnelClose
    <2>3. /\ user' = user /\ tunnel'[t].at = tunnel[t].at
          /\ \A x \in Tunnels \ {t} : tunnel'[x] = tunnel[x]
          /\ \A i \in Slots \ {tunnel[t].at} : slot'[i] = slot[i]
          /\ \A i \in Slots : slot'[i].in = slot[i].in /\ slot'[i].isIn = slot[i].isIn
      BY <1>1, <1>16, <2>1 DEF TypeOK, TunnelClose, Handler, Slot
    <2>4. /\ tunnel'[t].pc \in Holding => slot'[tunnel[t].at].out = t
          /\ tunnel'[t].pc \in Busy \ {"start", "flag2"} => slot'[tunnel[t].at].isOut
          /\ tunnel'[t].pc \in {"waitPeer", "send"} => tunnel'[t].data \in Tunnels
      BY <1>1, <1>5, <1>16, <2>1 DEF TypeOK, TunnelClose, Handler, Slot
    <2> QED
      BY <1>4, <2>1, <2>2, <2>3, <2>4
  <1>17. CASE TunnelFlag1(t)
    <2>1. tunnel[t].pc \in Busy /\ tunnel[t].at \in Slots
      BY <1>5, <1>17 DEF TunnelFlag1
    <2>2. TypeOK'
      <3>1. slot' \in [Slots -> Slot]
        BY <1>0, <1>17, <2>1, SlotsTyped, Zenon DEF TunnelFlag1
      <3>2. tunnel' \in [Tunnels -> Handler(Tunnels)]
        <4>1. tunnel' = [tunnel EXCEPT ![t].pc = "flag2"]
          BY <1>17 DEF TunnelFlag1
        <4> HIDE DEF Busy, Holding
        <4> QED
          BY <1>0, <4>1, PcTyped, PcAssigned
      <3>3. carried' \in [Tunnels -> SUBSET Users] /\ heard' \in [Users -> SUBSET Users]
        BY <1>0, <1>5, <1>17, <2>1 DEF TunnelFlag1
      <3> QED
        BY <1>0, <1>17, <3>1, <3>2, <3>3 DEF TypeOK, TunnelFlag1
    <2>3. /\ user' = user /\ tunnel'[t].at = tunnel[t].at
          /\ \A x \in Tunnels \ {t} : tunnel'[x] = tunnel[x]
          /\ \A i \in Slots \ {tunnel[t].at} : slot'[i] = slot[i]
          /\ \A i \in Slots : slot'[i].in = slot[i].in /\ slot'[i].isIn = slot[i].isIn
      BY <1>1, <1>17, <2>1 DEF TypeOK, TunnelFlag1, Handler, Slot
    <2>4. /\ tunnel'[t].pc \in Holding => slot'[tunnel[t].at].out = t
          /\ tunnel'[t].pc \in Busy \ {"start", "flag2"} => slot'[tunnel[t].at].isOut
          /\ tunnel'[t].pc \in {"waitPeer", "send"} => tunnel'[t].data \in Tunnels
      BY <1>1, <1>5, <1>17, <2>1 DEF TypeOK, TunnelFlag1, Handler, Slot
    <2> QED
      BY <1>4, <2>1, <2>2, <2>3, <2>4
  <1>18. CASE TunnelFlag2(t)
    <2>1. tunnel[t].pc \in Busy /\ tunnel[t].at \in Slots
      BY <1>5, <1>18 DEF TunnelFlag2
    <2>2. TypeOK'
      <3>1. slot' \in [Slots -> Slot]
        BY <1>0, <1>18, <2>1, SlotsTyped, Zenon DEF TunnelFlag2
      <3>2. tunnel' \in [Tunnels -> Handler(Tunnels)]
        <4>1. tunnel' = [tunnel EXCEPT ![t].pc = "gone"]
          BY <1>18 DEF TunnelFlag2
        <4> HIDE DEF Busy, Holding
        <4> QED
          BY <1>0, <4>1, PcTyped, PcAssigned
      <3>3. carried' \in [Tunnels -> SUBSET Users] /\ heard' \in [Users -> SUBSET Users]
        BY <1>0, <1>5, <1>18, <2>1 DEF TunnelFlag2
      <3> QED
        BY <1>0, <1>18, <3>1, <3>2, <3>3 DEF TypeOK, TunnelFlag2
    <2>3. /\ user' = user /\ tunnel'[t].at = tunnel[t].at
          /\ \A x \in Tunnels \ {t} : tunnel'[x] = tunnel[x]
          /\ \A i \in Slots \ {tunnel[t].at} : slot'[i] = slot[i]
          /\ \A i \in Slots : slot'[i].in = slot[i].in /\ slot'[i].isIn = slot[i].isIn
      BY <1>1, <1>18, <2>1 DEF TypeOK, TunnelFlag2, Handler, Slot
    <2>4. /\ tunnel'[t].pc \in Holding => slot'[tunnel[t].at].out = t
          /\ tunnel'[t].pc \in Busy \ {"start", "flag2"} => slot'[tunnel[t].at].isOut
          /\ tunnel'[t].pc \in {"waitPeer", "send"} => tunnel'[t].data \in Tunnels
      BY <1>1, <1>5, <1>18, <2>1 DEF TypeOK, TunnelFlag2, Handler, Slot
    <2> QED
      BY <1>4, <2>1, <2>2, <2>3, <2>4
  <1> QED
    BY <1>2, <1>3, <1>6, <1>7, <1>8, <1>9, <1>10, <1>11, <1>12, <1>13, <1>14, <1>15, <1>16, <1>17, <1>18 DEF TunnelSteps

\* If handlers mark their slot before the next accept, the three parts of
\* SlotInv hold whatever users, devices and handlers do.
THEOREM SlotsKept == Init /\ [][PromptNext]_vars => []SlotInv
  <1>1. Init => SlotInv
    BY SlotsAssumption DEF Init, SlotInv, TypeOK, UsersApart, TunnelsApart, Absent,
       Handler, Slot, Busy, Holding, Slots
  <1>2. SlotInv /\ [PromptNext]_vars => SlotInv'
    <2> SUFFICES ASSUME SlotInv, [PromptNext]_vars PROVE SlotInv'
      OBVIOUS
    <2>1. CASE InputReady /\ ListenInput
      BY <2>1, UserStepsKeep DEF ListenInput
    <2>2. CASE OutputReady /\ ListenOutput
      BY <2>2, TunnelStepsKeep DEF ListenOutput
    <2>3. CASE Handlers
      BY <2>3, UserStepsKeep, TunnelStepsKeep DEF Handlers
    <2>4. CASE UNCHANGED vars
      BY <2>4 DEF vars, SlotInv, TypeOK, UsersApart, TunnelsApart
    <2> QED
      BY <2>1, <2>2, <2>3, <2>4 DEF PromptNext
  <1> QED
    BY <1>1, <1>2, PTL

\* If a handler at work ever finds another connection than its own in its
\* slot, a listener had accepted again before the handler it started last
\* marked its slot, or between the last two assignments of an output handler
\* (get_input_socket_with_output, get_free_output_socket).  Nothing in the
\* code excludes that race; the theorem says that it is the only cause, for
\* any number of slots and connections: no timeout, failed handshake or early
\* close is another.
THEOREM SlotsOwned == Spec /\ NoRacingAccept => []HandlerOwnsSlot
  <1>1. SlotInv => HandlerOwnsSlot
    BY DEF SlotInv, UsersApart, TunnelsApart, HandlerOwnsSlot, SlotOf
  <1>2. /\ [Next]_vars
        /\ [(ListenInput => InputReady) /\ (ListenOutput => OutputReady)]_vars
        => [PromptNext]_vars
    BY DEF Next, PromptNext
  <1> QED
    BY <1>1, <1>2, SlotsKept, PTL DEF Spec, NoRacingAccept

-----------------------------------------------------------------------------
(* What goes into a tunnel.                                                *)
(*                                                                         *)
(* That a tunnel carries the data of one user is not inductive: it rests   *)
(* on the handshake between the two handlers of a slot.  A user who leaves *)
(* asks for the tunnel to be closed before the slot is offered to another  *)
(* user, and the request stays until the tunnel's own handler withdraws it *)
(* with its last statement (CloseAsked); a user gets past its wait for the *)
(* request only if the tunnel in the slot is one that nobody else has used *)
(* (PastTheWait).                                                          *)

\* A tunnel that no byte can have gone into, a user that has sent nothing.
Fresh == {"away", "start", "handshake"}

\* A tunnel that is up, or that is being taken down.
Used == Busy \ {"start", "handshake"}

\* A socket in a slot belongs to a handler that is at work there.
OutOwned ==
    \A i \in Slots : slot[i].out # NoSocket =>
        tunnel[slot[i].out].pc \in Holding /\ tunnel[slot[i].out].at = i

FreshIsEmpty == \A t \in Tunnels : tunnel[t].pc \in Fresh => carried[t] = {}

SenderHasStarted ==
    \A t \in Tunnels : \A u \in carried[t] : user[u].pc \notin Fresh

SenderIsNear ==
    \A t \in Tunnels : \A u \in carried[t] :
        tunnel[t].pc \in Used /\ user[u].pc \notin {"flag2", "gone"} =>
            user[u].at = tunnel[t].at

CloseAsked ==
    \A t \in Tunnels : \A u \in carried[t] :
        tunnel[t].pc \in Used /\ user[u].pc \in {"flag2", "gone"} =>
            slot[tunnel[t].at].close

PastTheWait ==
    \A v \in Users, t \in Tunnels :
        /\ user[v].pc \in {"waitPeer", "send"}
        /\ tunnel[t].pc \in Used
        /\ user[v].at = tunnel[t].at
        => carried[t] \subseteq {v}

OwnData ==
    \A v \in Users :
        user[v].pc \in {"waitClose", "waitPeer", "send"} => user[v].data = v

OneSender == \A t \in Tunnels : \A u, w \in carried[t] : u = w

\* The inductive invariant, on top of SlotInv.
CarriedInv ==
    /\ OutOwned
    /\ FreshIsEmpty
    /\ SenderHasStarted
    /\ SenderIsNear
    /\ CloseAsked
    /\ PastTheWait
    /\ OwnData
    /\ OneSender

\* What a step of a user's handler does to others, and to its own slot.
UserEffect(u) ==
    /\ tunnel' = tunnel
    /\ user[u].pc \in Busy
    /\ user'[u].at = user[u].at
    /\ \A v \in Users \ {u} : user'[v] = user[v]
    /\ \A i \in Slots : slot'[i].out = slot[i].out
    /\ \A i \in Slots : slot[i].close => slot'[i].close
    /\ user[u].pc \notin Fresh => user'[u].pc \notin Fresh
    /\ user'[u].pc \in {"flag2", "gone"} =>
           user[u].pc \in Fresh \cup {"flag2"} \/ slot'[user[u].at].close
    /\ user'[u].pc \in {"waitPeer", "send"} =>
           \/ user[u].pc \in {"waitPeer", "send"}
           \/ ~slot[user[u].at].close
           \/ \A t \in Tunnels : tunnel[t].at = user[u].at =>
                  tunnel[t].pc \in {"start", "handshake", "gone"}
    /\ user'[u].pc \in {"waitClose", "waitPeer", "send"} =>
           \/ /\ user[u].pc \in {"waitClose", "waitPeer", "send"}
              /\ user'[u].data = user[u].data
           \/ user[u].pc = "select" /\ user'[u].data = slot[user[u].at].in

\* What a step of a tunnel's handler does.
TunnelEffect(t) ==
    /\ user' = user /\ carried' = carried
    /\ tunnel[t].pc \in Busy
    /\ tunnel'[t].at = tunnel[t].at
    /\ \A v \in Tunnels \ {t} : tunnel'[v] = tunnel[v]
    /\ \A i \in Slots \ {tunnel[t].at} : slot'[i] = slot[i]
    /\ IF tunnel'[t].pc \in Holding
       THEN tunnel[t].pc \in Holding /\ slot'[tunnel[t].at].out = slot[tunnel[t].at].out
       ELSE slot'[tunnel[t].at].out = NoSocket \/ tunnel[t].pc \notin Holding
    /\ tunnel[t].pc \notin Holding => slot'[tunnel[t].at].out = slot[tunnel[t].at].out
    /\ tunnel'[t].pc # "gone" => slot'[tunnel[t].at].close = slot[tunnel[t].at].close
    /\ tunnel'[t].pc \in Fresh => tunnel[t].pc \in Fresh
    /\ tunnel'[t].pc \in Used => tunnel[t].pc \in Used \cup {"handshake"}

\* Every step of a user's handler has that effect.
LEMMA UserStepsEffect ==
    ASSUME SlotInv, NEW u \in Users, UserSteps(u)
    PROVE  UserEffect(u)
<1>1. /\ slot \in [Slots -> Slot]
      /\ user \in [Users -> Handler(Users)]
      /\ user[u] \in Handler(Users)
  BY DEF SlotInv, TypeOK
<1>2. user[u].pc \in Busy => user[u].at \in Slots
  BY DEF SlotInv, UsersApart
<1>3. CASE UserStart(u)
  BY <1>1, <1>2, <1>3
  DEF UserStart, GoUser, SlotOf, UserEffect, Handler, Slot, Busy, Holding, Fresh
<1>4. CASE UserHandshake(u)
  BY <1>1, <1>2, <1>4
  DEF UserHandshake, GoUser, SlotOf, UserEffect, Handler, Slot, Busy, Holding, Fresh
<1>5. CASE UserHandshakeFails(u)
  BY <1>1, <1>2, <1>5
  DEF UserHandshakeFails, GoUser, SlotOf, UserEffect, Handler, Slot, Busy, Holding, Fresh
<1>6. CASE UserData(u)
  BY <1>1, <1>2, <1>6
  DEF UserData, GoUser, SlotOf, UserEffect, Handler, Slot, Busy, Holding, Fresh
<1>7. CASE UserLeaves(u)
  BY <1>1, <1>2, <1>7
  DEF UserLeaves, GoUser, SlotOf, UserEffect, Handler, Slot, Busy, Holding, Fresh
<1>8. CASE UserSeesClosed(u)
  BY <1>1, <1>2, <1>8
  DEF UserSeesClosed, GoUser, SlotOf, UserEffect, Handler, Slot, Busy, Holding, Fresh
<1>9. CASE UserCloseTimeout(u)
  BY <1>1, <1>2, <1>9
  DEF UserCloseTimeout, GoUser, SlotOf, UserEffect, Handler, Slot, Busy, Holding, Fresh
<1>10. CASE UserSeesTunnel(u)
  BY <1>1, <1>2, <1>10
  DEF UserSeesTunnel, GoUser, SlotOf, UserEffect, Handler, Slot, Busy, Holding, Fresh
<1>11. CASE UserTunnelTimeout(u)
  BY <1>1, <1>2, <1>11
  DEF UserTunnelTimeout, GoUser, SlotOf, UserEffect, Handler, Slot, Busy, Holding, Fresh
<1>12. ASSUME NEW more \in BOOLEAN, UserSend(u, more)
      PROVE  UserEffect(u)
  BY <1>1, <1>2, <1>12
  DEF UserSend, GoUser, SlotOf, UserEffect, Handler, Slot, Busy, Holding, Fresh
<1>13. CASE UserSendFails(u)
  BY <1>1, <1>2, <1>13
  DEF UserSendFails, GoUser, SlotOf, UserEffect, Handler, Slot, Busy, Holding, Fresh
<1>14. CASE UserClose(u)
  BY <1>1, <1>2, <1>14
  DEF UserClose, GoUser, SlotOf, UserEffect, Handler, Slot, Busy, Holding, Fresh
<1>15. CASE UserFlag1(u)
  BY <1>1, <1>2, <1>15
  DEF UserFlag1, GoUser, SlotOf, UserEffect, Handler, Slot, Busy, Holding, Fresh
<1>16. CASE UserFlag2(u)
  BY <1>1, <1>2, <1>16
  DEF UserFlag2, GoUser, SlotOf, UserEffect, Handler, Slot, Busy, Holding, Fresh
<1> QED
  BY <1>3, <1>4, <1>5, <1>6, <1>7, <1>8, <1>9,
     <1>10, <1>11, <1>12, <1>13, <1>14, <1>15, <1>16 DEF UserSteps

\* And of a tunnel's handler.
LEMMA TunnelStepsEffect ==
    ASSUME SlotInv, NEW t \in Tunnels, TunnelSteps(t)
    PROVE  TunnelEffect(t)
<1>1. /\ slot \in [Slots -> Slot]
      /\ tunnel \in [Tunnels -> Handler(Tunnels)]
      /\ tunnel[t] \in Handler(Tunnels)
  BY DEF SlotInv, TypeOK
<1>2. tunnel[t].pc \in Busy => tunnel[t].at \in Slots
  BY DEF SlotInv, TunnelsApart
<1>3. CASE TunnelStart(t)
  BY <1>1, <1>2, <1>3
  DEF TunnelStart, GoTunnel, SlotOf, TunnelEffect, Handler, Slot, Busy, Holding, Fresh, Used
<1>4. CASE TunnelHandshake(t)
  BY <1>1, <1>2, <1>4
  DEF TunnelHandshake, GoTunnel, SlotOf, TunnelEffect, Handler, Slot, Busy, Holding, Fresh, Used
<1>5. CASE TunnelHandshakeFails(t)
  BY <1>1, <1>2, <1>5
  DEF TunnelHandshakeFails, GoTunnel, SlotOf, TunnelEffect, Handler, Slot, Busy, Holding, Fresh, Used
<1>6. CASE TunnelLoop(t)
  BY <1>1, <1>2, <1>6
  DEF TunnelLoop, GoTunnel, SlotOf, TunnelEffect, Handler, Slot, Busy, Holding, Fresh, Used
<1>7. CASE TunnelIdle(t)
  BY <1>1, <1>2, <1>7
  DEF TunnelIdle, GoTunnel, SlotOf, TunnelEffect, Handler, Slot, Busy, Holding, Fresh, Used
<1>8. CASE TunnelData(t)
  BY <1>1, <1>2, <1>8
  DEF TunnelData, GoTunnel, SlotOf, TunnelEffect, Handler, Slot, Busy, Holding, Fresh, Used
<1>9. CASE TunnelLeaves(t)
  BY <1>1, <1>2, <1>9
  DEF TunnelLeaves, GoTunnel, SlotOf, TunnelEffect, Handler, Slot, Busy, Holding, Fresh, Used
<1>10. CASE TunnelWaits(t)
  BY <1>1, <1>2, <1>10
  DEF TunnelWaits, GoTunnel, SlotOf, TunnelEffect, Handler, Slot, Busy, Holding, Fresh, Used
<1>11. ASSUME NEW more \in BOOLEAN, TunnelSend(t, more)
      PROVE  TunnelEffect(t)
  BY <1>1, <1>2, <1>11
  DEF TunnelSend, GoTunnel, SlotOf, TunnelEffect, Handler, Slot, Busy, Holding, Fresh, Used
<1>12. CASE TunnelSendFails(t)
  BY <1>1, <1>2, <1>12
  DEF TunnelSendFails, GoTunnel, SlotOf, TunnelEffect, Handler, Slot, Busy, Holding, Fresh, Used
<1>13. CASE TunnelClose(t)
  BY <1>1, <1>2, <1>13
  DEF TunnelClose, GoTunnel, SlotOf, TunnelEffect, Handler, Slot, Busy, Holding, Fresh, Used
<1>14. CASE TunnelFlag1(t)
  BY <1>1, <1>2, <1>14
  DEF TunnelFlag1, GoTunnel, SlotOf, TunnelEffect, Handler, Slot, Busy, Holding, Fresh, Used
<1>15. CASE TunnelFlag2(t)
  BY <1>1, <1>2, <1>15
  DEF TunnelFlag2, GoTunnel, SlotOf, TunnelEffect, Handler, Slot, Busy, Holding, Fresh, Used
<1> QED
  BY <1>3, <1>4, <1>5, <1>6, <1>7, <1>8, <1>9,
     <1>10, <1>11, <1>12, <1>13, <1>14, <1>15 DEF TunnelSteps

\* Bytes get into a tunnel only from the user in its slot, and only if that
\* user is the one that has used the tunnel before.
LEMMA CarriedGrows ==
    ASSUME SlotInv, CarriedInv, NEW u \in Users, UserSteps(u),
           NEW x \in Tunnels, NEW w \in carried'[x]
    PROVE  \/ w \in carried[x]
           \/ /\ w = u
              /\ user[u].pc = "send"
              /\ tunnel[x].pc \in Used
              /\ tunnel[x].at = user[u].at
              /\ carried[x] \subseteq {u}
<1>1. CASE carried' = carried
  BY <1>1
<1>2. ASSUME NEW more \in BOOLEAN, UserSend(u, more), w \notin carried[x]
      PROVE  /\ w = u
             /\ user[u].pc = "send"
             /\ tunnel[x].pc \in Used
             /\ tunnel[x].at = user[u].at
             /\ carried[x] \subseteq {u}
  <2> DEFINE t == slot[user[u].at].out
  <2>1. /\ user[u].pc = "send"
        /\ t # NoSocket
        /\ tunnel[t].pc \notin {"start", "handshake"}
        /\ carried' = [carried EXCEPT ![t] = @ \cup {user[u].data}]
    BY <1>2 DEF UserSend, SlotOf
  <2>2. user[u].at \in Slots
    BY <2>1 DEF SlotInv, UsersApart, Busy, Holding
  <2>3. tunnel[t].pc \in Holding /\ tunnel[t].at = user[u].at
    BY <2>1, <2>2 DEF CarriedInv, OutOwned
  <2>4. tunnel[t].pc \in Used
    BY <2>1, <2>3 DEF Used, Busy
  <2>5. user[u].data = u
    BY <2>1 DEF CarriedInv, OwnData
  <2>6. carried \in [Tunnels -> SUBSET Users]
    BY DEF SlotInv, TypeOK
  <2>7. x = t /\ w = u
    <3> HIDE DEF t
    <3> QED
      BY <1>2, <2>1, <2>5, <2>6
  <2>8. carried[x] \subseteq {u}
    BY <2>1, <2>3, <2>4, <2>7 DEF CarriedInv, PastTheWait
  <2> QED
    BY <2>1, <2>3, <2>4, <2>7, <2>8
<1>3. CASE \/ UserStart(u) \/ UserHandshake(u) \/ UserHandshakeFails(u)
           \/ UserData(u) \/ UserLeaves(u)
           \/ UserSeesClosed(u) \/ UserCloseTimeout(u)
           \/ UserSeesTunnel(u) \/ UserTunnelTimeout(u) \/ UserSendFails(u)
           \/ UserClose(u) \/ UserFlag1(u) \/ UserFlag2(u)
  <2>1. carried' = carried
    BY <1>3 DEF UserStart, UserHandshake, UserHandshakeFails, UserData, UserLeaves,
                UserSeesClosed, UserCloseTimeout, UserSeesTunnel, UserTunnelTimeout,
                UserSendFails, UserClose, UserFlag1, UserFlag2
  <2> QED
    BY <1>1, <2>1
<1> QED
  BY <1>2, <1>3 DEF UserSteps

\* A user at work who has sent something is past its handshake.
LEMMA SenderPc ==
    ASSUME SlotInv, CarriedInv, NEW t \in Tunnels, NEW u \in carried[t],
           user[u].pc # "gone"
    PROVE  u \in Users /\ user[u].pc \in Busy
<1>1. u \in Users /\ user[u] \in Handler(Users)
  BY DEF SlotInv, TypeOK
<1>2. user[u].pc \notin Fresh
  BY DEF CarriedInv, SenderHasStarted
<1> QED
  BY <1>1, <1>2 DEF Handler, Fresh, Busy, Holding

\* The handlers of users keep the invariant.
LEMMA UserKeepsCarried ==
    ASSUME SlotInv, SlotInv', CarriedInv, NEW u \in Users, UserSteps(u)
    PROVE  CarriedInv'
<1>1. UserEffect(u)
  BY UserStepsEffect
<1>2. \A x \in Tunnels : \A w \in carried'[x] :
          \/ w \in carried[x]
          \/ /\ w = u
             /\ user[u].pc = "send"
             /\ tunnel[x].pc \in Used
             /\ tunnel[x].at = user[u].at
             /\ carried[x] \subseteq {u}
  BY CarriedGrows
<1>3. /\ tunnel' = tunnel
      /\ user'[u].at = user[u].at
      /\ \A v \in Users \ {u} : user'[v] = user[v]
  BY <1>1 DEF UserEffect
<1>4. \A v \in Users \ {u} : user[v].pc \in Busy => user[v].at # user[u].at
  BY <1>1 DEF UserEffect, SlotInv, UsersApart
<1>5. \A x \in Tunnels : carried'[x] \subseteq Users /\ carried[x] \subseteq Users
  BY DEF SlotInv, TypeOK
<1>6. \A x \in Tunnels : tunnel[x].pc \in Used => tunnel[x].at \in Slots
  BY DEF SlotInv, TunnelsApart, Used
<1>7. OutOwned'
  BY <1>1, <1>3 DEF UserEffect, CarriedInv, OutOwned
<1>8. FreshIsEmpty'
  <2> SUFFICES ASSUME NEW x \in Tunnels, tunnel[x].pc \in Fresh, NEW w \in carried'[x]
               PROVE  FALSE
    BY <1>3 DEF FreshIsEmpty
  <2>1. carried[x] = {} /\ tunnel[x].pc \notin Used
    BY DEF CarriedInv, FreshIsEmpty, Fresh, Used, Busy, Holding
  <2> QED
    BY <1>2, <2>1
<1>9. SenderHasStarted'
  <2> SUFFICES ASSUME NEW x \in Tunnels, NEW w \in carried'[x]
               PROVE  user'[w].pc \notin Fresh
    BY DEF SenderHasStarted
  <2>1. user[w].pc \notin Fresh
    BY <1>2 DEF CarriedInv, SenderHasStarted, Fresh
  <2> QED
    BY <1>1, <1>5, <2>1 DEF UserEffect
<1>10. SenderIsNear'
  <2> SUFFICES ASSUME NEW x \in Tunnels, NEW w \in carried'[x],
                      tunnel[x].pc \in Used, user'[w].pc \notin {"flag2", "gone"}
               PROVE  user'[w].at = tunnel[x].at
    BY <1>3 DEF SenderIsNear
  <2>1. CASE w \notin carried[x]
    BY <1>2, <1>3, <2>1
  <2>2. CASE w \in carried[x] /\ user[w].pc \notin {"flag2", "gone"}
    <3>1. user[w].at = tunnel[x].at
      BY <2>2 DEF CarriedInv, SenderIsNear
    <3> QED
      BY <1>3, <1>5, <3>1
  <2>3. CASE w \in carried[x] /\ user[w].pc \in {"flag2", "gone"}
    <3>1. w = u
      BY <1>3, <1>5, <2>3
    <3>2. user[u].pc = "flag2"
      BY <1>1, <2>3, <3>1 DEF UserEffect, Busy, Holding
    <3>3. UserFlag2(u)
      BY <3>2 DEF UserSteps, UserStart, UserHandshake, UserHandshakeFails, UserData,
         UserLeaves, UserSeesClosed, UserCloseTimeout, UserSeesTunnel,
         UserTunnelTimeout, UserSend, UserSendFails, UserClose, UserFlag1
    <3>4. user'[u].pc = "gone"
      BY <3>3 DEF UserFlag2, GoUser, SlotInv, TypeOK, Handler
    <3> QED
      BY <3>1, <3>4
  <2> QED
    BY <2>1, <2>2, <2>3
<1>11. CloseAsked'
  <2> SUFFICES ASSUME NEW x \in Tunnels, NEW w \in carried'[x],
                      tunnel[x].pc \in Used, user'[w].pc \in {"flag2", "gone"}
               PROVE  slot'[tunnel[x].at].close
    BY <1>3 DEF CloseAsked
  <2>1. tunnel[x].at \in Slots
    BY <1>6
  <2>2. CASE user[w].pc \in {"flag2", "gone"}
    <3>1. w \in carried[x]
      BY <1>2, <2>2
    <3>2. slot[tunnel[x].at].close
      BY <2>2, <3>1 DEF CarriedInv, CloseAsked
    <3> QED
      BY <1>1, <2>1, <3>2 DEF UserEffect
  <2>3. CASE user[w].pc \notin {"flag2", "gone"}
    <3>1. w = u
      BY <1>3, <1>5, <2>3
    <3>2. user[u].at = tunnel[x].at /\ user[u].pc \notin Fresh
      BY <1>2, <2>3, <3>1 DEF CarriedInv, SenderIsNear, SenderHasStarted, Fresh
    <3>3. slot'[user[u].at].close
      BY <1>1, <2>3, <3>1, <3>2 DEF UserEffect
    <3> QED
      BY <3>2, <3>3
  <2> QED
    BY <2>2, <2>3
<1>12. PastTheWait'
  <2> SUFFICES ASSUME NEW v \in Users, NEW x \in Tunnels, NEW w \in carried'[x],
                      user'[v].pc \in {"waitPeer", "send"},
                      tunnel[x].pc \in Used, user'[v].at = tunnel[x].at
               PROVE  w = v
    BY <1>3 DEF PastTheWait
  <2>1. CASE v # u
    <3>1. user'[v] = user[v]
      BY <1>3, <2>1
    <3>2. user[v].at # user[u].at
      BY <1>4, <2>1, <3>1 DEF Busy, Holding
    <3>3. w \in carried[x]
      BY <1>2, <3>1, <3>2
    <3> QED
      BY <3>1, <3>3 DEF CarriedInv, PastTheWait
  <2>2. CASE v = u /\ user[u].pc \in {"waitPeer", "send"}
    <3>1. carried[x] \subseteq {u}
      BY <1>3, <2>2 DEF CarriedInv, PastTheWait
    <3> QED
      BY <1>2, <2>2, <3>1
  <2>3. CASE v = u /\ ~slot[user[u].at].close
    <3> SUFFICES ASSUME w # u PROVE FALSE
      BY <2>3
    <3>1. w \in carried[x]
      BY <1>2
    <3>2. user[w].pc \notin {"flag2", "gone"}
      BY <1>3, <2>3, <3>1 DEF CarriedInv, CloseAsked
    <3>3. user[w].at = user[u].at
      BY <1>3, <2>3, <3>1, <3>2 DEF CarriedInv, SenderIsNear
    <3>4. w \in Users /\ user[w].pc \in Busy
      BY <3>1, <3>2, SenderPc
    <3> QED
      BY <1>4, <3>3, <3>4
  <2>4. CASE /\ v = u
             /\ \A t \in Tunnels : tunnel[t].at = user[u].at =>
                    tunnel[t].pc \in {"start", "handshake", "gone"}
    BY <1>3, <2>4 DEF Used, Busy, Holding
  <2> QED
    BY <1>1, <2>1, <2>2, <2>3, <2>4 DEF UserEffect
<1>13. OwnData'
  <2> SUFFICES ASSUME NEW v \in Users,
                      user'[v].pc \in {"waitClose", "waitPeer", "send"}
               PROVE  user'[v].data = v
    BY DEF OwnData
  <2>1. CASE v # u
    BY <1>3, <2>1 DEF CarriedInv, OwnData
  <2>2. CASE v = u /\ user[u].pc = "select" /\ user'[u].data = slot[user[u].at].in
    BY <2>2 DEF SlotInv, UsersApart, Holding
  <2>3. CASE /\ v = u
             /\ user[u].pc \in {"waitClose", "waitPeer", "send"}
             /\ user'[u].data = user[u].data
    BY <2>3 DEF CarriedInv, OwnData
  <2> QED
    BY <1>1, <2>1, <2>2, <2>3 DEF UserEffect
<1>14. OneSender'
  <2> SUFFICES ASSUME NEW x \in Tunnels, NEW v \in carried'[x], NEW w \in carried'[x]
               PROVE  v = w
    BY DEF OneSender
  <2> QED
    BY <1>2 DEF CarriedInv, OneSender
<1> QED
  BY <1>7, <1>8, <1>9, <1>10, <1>11, <1>12, <1>13, <1>14 DEF CarriedInv

\* The handlers of tunnels keep it.
LEMMA TunnelKeepsCarried ==
    ASSUME SlotInv, CarriedInv, NEW t \in Tunnels, TunnelSteps(t)
    PROVE  CarriedInv'
<1>1. TunnelEffect(t)
  BY TunnelStepsEffect
<1>2. user' = user /\ carried' = carried
  BY <1>1 DEF TunnelEffect
<1>3. /\ tunnel[t].at \in Slots
      /\ tunnel'[t].at = tunnel[t].at
      /\ \A x \in Tunnels \ {t} : tunnel'[x] = tunnel[x]
  BY <1>1 DEF TunnelEffect, SlotInv, TunnelsApart
<1>4. \A x \in Tunnels \ {t} :
          tunnel[x].pc \in Busy => tunnel[x].at \in Slots \ {tunnel[t].at}
  BY <1>1 DEF TunnelEffect, SlotInv, TunnelsApart
<1>5. carried[t] # {} => tunnel[t].pc \notin Fresh
  BY DEF CarriedInv, FreshIsEmpty
<1>6. OutOwned'
  <2> SUFFICES ASSUME NEW i \in Slots, slot'[i].out # NoSocket
               PROVE  /\ tunnel'[slot'[i].out].pc \in Holding
                      /\ tunnel'[slot'[i].out].at = i
    BY DEF OutOwned
  <2> DEFINE x == slot[i].out
  <2>1. x \in Tunnels \cup {NoSocket}
    BY DEF SlotInv, TypeOK, Slot
  <2>2. x # NoSocket => tunnel[x].pc \in Holding /\ tunnel[x].at = i
    BY DEF CarriedInv, OutOwned
  <2>3. CASE i # tunnel[t].at
    <3>1. slot'[i].out = x
      BY <1>1, <2>3 DEF TunnelEffect
    <3>2. x # t
      BY <2>2, <2>3, <3>1
    <3> QED
      BY <1>3, <2>1, <2>2, <3>1, <3>2
  <2>4. CASE i = tunnel[t].at /\ tunnel'[t].pc \in Holding
    <3>1. slot'[i].out = x
      BY <1>1, <2>4 DEF TunnelEffect
    <3> QED
      BY <1>3, <2>1, <2>2, <2>4, <3>1
  <2>5. CASE i = tunnel[t].at /\ tunnel'[t].pc \notin Holding
    <3>1. tunnel[t].pc \notin Holding /\ slot'[i].out = x
      BY <1>1, <2>5 DEF TunnelEffect
    <3>2. x # t
      BY <2>2, <3>1
    <3> QED
      BY <1>3, <2>1, <2>2, <3>1, <3>2
  <2> QED
    BY <2>3, <2>4, <2>5
<1>7. FreshIsEmpty'
  <2> SUFFICES ASSUME NEW x \in Tunnels, tunnel'[x].pc \in Fresh
               PROVE  carried[x] = {}
    BY <1>2 DEF FreshIsEmpty
  <2>1. tunnel[x].pc \in Fresh
    BY <1>1, <1>3 DEF TunnelEffect
  <2> QED
    BY <2>1 DEF CarriedInv, FreshIsEmpty
<1>8. SenderHasStarted' /\ OwnData' /\ OneSender'
  BY <1>2 DEF CarriedInv, SenderHasStarted, OwnData, OneSender
<1>9. \A x \in Tunnels : carried[x] # {} /\ tunnel'[x].pc \in Used =>
          tunnel[x].pc \in Used /\ tunnel'[x].at = tunnel[x].at
  BY <1>1, <1>3, <1>5 DEF TunnelEffect, Fresh
<1>10. SenderIsNear'
  BY <1>2, <1>9 DEF CarriedInv, SenderIsNear
<1>11. CloseAsked'
  <2> SUFFICES ASSUME NEW x \in Tunnels, NEW w \in carried[x],
                      tunnel'[x].pc \in Used, user[w].pc \in {"flag2", "gone"}
               PROVE  slot'[tunnel'[x].at].close
    BY <1>2 DEF CloseAsked
  <2>1. tunnel[x].pc \in Used /\ tunnel'[x].at = tunnel[x].at
    BY <1>9
  <2>2. slot[tunnel[x].at].close
    BY <2>1 DEF CarriedInv, CloseAsked
  <2>3. CASE x = t
    <3>1. tunnel'[t].pc # "gone"
      BY <2>3 DEF Used, Busy, Holding
    <3>2. slot'[tunnel[t].at].close = slot[tunnel[t].at].close
      BY <1>1, <3>1 DEF TunnelEffect
    <3> QED
      BY <2>1, <2>2, <2>3, <3>2
  <2>4. CASE x # t
    <3>1. tunnel[x].at \in Slots \ {tunnel[t].at}
      BY <1>4, <2>1, <2>4 DEF Used
    <3>2. slot'[tunnel[x].at] = slot[tunnel[x].at]
      BY <1>1, <3>1 DEF TunnelEffect
    <3> QED
      BY <2>1, <2>2, <3>2
  <2> QED
    BY <2>3, <2>4
<1>12. PastTheWait'
  <2> SUFFICES ASSUME NEW v \in Users, NEW x \in Tunnels, NEW w \in carried[x],
                      user[v].pc \in {"waitPeer", "send"},
                      tunnel'[x].pc \in Used, user[v].at = tunnel'[x].at
               PROVE  w = v
    BY <1>2 DEF PastTheWait
  <2>1. tunnel[x].pc \in Used /\ tunnel'[x].at = tunnel[x].at
    BY <1>9
  <2> QED
    BY <2>1 DEF CarriedInv, PastTheWait
<1> QED
  BY <1>6, <1>7, <1>8, <1>10, <1>11, <1>12 DEF CarriedInv

\* So does a new user, which is put in a slot nobody is at work in.
LEMMA AcceptUserKeepsCarried ==
    ASSUME SlotInv, CarriedInv, NEW u \in Users, AcceptUser(u) \/ RefuseUser(u)
    PROVE  CarriedInv'
<1>1. user[u].pc = "away" /\ tunnel' = tunnel /\ carried' = carried
  BY DEF AcceptUser, RefuseUser
<1>2. user'[u].pc \in {"start", "gone"} /\ \A v \in Users \ {u} : user'[v] = user[v]
  BY DEF AcceptUser, RefuseUser, GoUser, Started, SlotInv, TypeOK, Handler
<1>3. \A i \in Slots : slot'[i].out = slot[i].out /\ slot'[i].close = slot[i].close
  BY DEF AcceptUser, RefuseUser, SlotInv, TypeOK, Slot
<1>4. \A x \in Tunnels : carried[x] \subseteq Users \ {u}
  <2>1. \A x \in Tunnels : carried[x] \subseteq Users
    BY DEF SlotInv, TypeOK
  <2> QED
    BY <1>1, <2>1 DEF CarriedInv, SenderHasStarted, Fresh
<1>5. OutOwned' /\ FreshIsEmpty'
  BY <1>1, <1>3 DEF CarriedInv, OutOwned, FreshIsEmpty
<1>6. SenderHasStarted' /\ SenderIsNear'
  BY <1>1, <1>2, <1>4 DEF CarriedInv, SenderHasStarted, SenderIsNear
<1>7. CloseAsked'
  <2>1. \A x \in Tunnels : tunnel[x].pc \in Used => tunnel[x].at \in Slots
    BY DEF SlotInv, TunnelsApart, Used
  <2> QED
    BY <1>1, <1>2, <1>3, <1>4, <2>1 DEF CarriedInv, CloseAsked
<1>8. PastTheWait' /\ OwnData' /\ OneSender'
  BY <1>1, <1>2 DEF CarriedInv, PastTheWait, OwnData, OneSender
<1> QED
  BY <1>5, <1>6, <1>7, <1>8 DEF CarriedInv

\* And a new tunnel, into which nothing has gone yet.
LEMMA AcceptTunnelKeepsCarried ==
    ASSUME SlotInv, CarriedInv, OutputReady,
           NEW t \in Tunnels, AcceptTunnel(t) \/ RefuseTunnel(t)
    PROVE  CarriedInv'
<1>1. tunnel[t].pc = "away" /\ user' = user /\ carried' = carried
  BY DEF AcceptTunnel, RefuseTunnel
<1>2. /\ tunnel'[t].pc \in {"start", "gone"}
      /\ \A x \in Tunnels \ {t} : tunnel'[x] = tunnel[x]
  BY DEF AcceptTunnel, RefuseTunnel, GoTunnel, Started, SlotInv, TypeOK, Handler
<1>3. \A i \in Slots : slot'[i].close = slot[i].close
  BY DEF AcceptTunnel, RefuseTunnel, SlotInv, TypeOK, Slot
<1>4. carried[t] = {}
  BY <1>1 DEF CarriedInv, FreshIsEmpty, Fresh
<1>5. OutOwned'
  <2>1. \A i \in Slots : slot[i].out # t
    BY <1>1, SocketsAssumption DEF CarriedInv, OutOwned, Holding
  <2>2. \A i \in Slots : slot[i].out \in Tunnels \cup {NoSocket}
    BY DEF SlotInv, TypeOK, Slot
  <2>3. CASE RefuseTunnel(t)
    <3>1. slot' = slot
      BY <2>3 DEF RefuseTunnel
    <3> QED
      BY <1>2, <2>1, <2>2, <3>1 DEF CarriedInv, OutOwned
  <2>4. CASE AcceptTunnel(t)
    <3>1. PICK i \in Slots : /\ slot' = [slot EXCEPT ![i].out = t]
                             /\ tunnel' = [tunnel EXCEPT ![t] = Started(i)]
      BY <2>4 DEF AcceptTunnel
    <3>2. /\ slot'[i].out = t
          /\ \A j \in Slots \ {i} : slot'[j].out = slot[j].out
      BY <3>1 DEF SlotInv, TypeOK, Slot
    <3>3. tunnel'[t].pc \in Holding /\ tunnel'[t].at = i
      BY <3>1 DEF SlotInv, TypeOK, Started, Holding
    <3> QED
      BY <1>2, <2>1, <2>2, <3>2, <3>3 DEF CarriedInv, OutOwned
  <2> QED
    BY <2>3, <2>4
<1>6. FreshIsEmpty' /\ SenderHasStarted' /\ SenderIsNear'
  BY <1>1, <1>2, <1>4 DEF CarriedInv, FreshIsEmpty, SenderHasStarted, SenderIsNear
<1>7. CloseAsked'
  <2>1. \A x \in Tunnels : tunnel[x].pc \in Used => tunnel[x].at \in Slots
    BY DEF SlotInv, TunnelsApart, Used
  <2> QED
    BY <1>1, <1>2, <1>3, <1>4, <2>1 DEF CarriedInv, CloseAsked
<1>8. PastTheWait' /\ OwnData' /\ OneSender'
  BY <1>1, <1>2, <1>4 DEF CarriedInv, PastTheWait, OwnData, OneSender
<1> QED
  BY <1>5, <1>6, <1>7, <1>8 DEF CarriedInv

\* The handshake of the handlers works for any number of slots, users and
\* tunnels, with every timeout, failed handshake and early close.
THEOREM TrafficKept == PromptSpec => [](SlotInv /\ CarriedInv)
<1>1. Init => CarriedInv
  BY DEF Init, CarriedInv, OutOwned, FreshIsEmpty, SenderHasStarted, SenderIsNear,
         CloseAsked, PastTheWait, OwnData, OneSender, Absent
<1>2. SlotInv /\ SlotInv' /\ CarriedInv /\ [PromptNext]_vars => CarriedInv'
  <2> SUFFICES ASSUME SlotInv, SlotInv', CarriedInv, [PromptNext]_vars
               PROVE  CarriedInv'
    OBVIOUS
  <2>1. CASE InputReady /\ ListenInput
    BY <2>1, AcceptUserKeepsCarried DEF ListenInput
  <2>2. CASE OutputReady /\ ListenOutput
    BY <2>2, AcceptTunnelKeepsCarried DEF ListenOutput
  <2>3. CASE Handlers
    BY <2>3, UserKeepsCarried, TunnelKeepsCarried DEF Handlers
  <2>4. CASE UNCHANGED vars
    BY <2>4 DEF vars, CarriedInv, OutOwned, FreshIsEmpty, SenderHasStarted,
       SenderIsNear, CloseAsked, PastTheWait, OwnData, OneSender
  <2> QED
    BY <2>1, <2>2, <2>3, <2>4 DEF PromptNext
<1> QED
  BY <1>1, <1>2, SlotsKept, PTL DEF PromptSpec

\* No tunnel connection ever carries the data of two users: the slot's flags
\* and the two waits of connection_input_handler are enough.
THEOREM OneUserEach == PromptSpec => []OneUserPerTunnel
<1>1. SlotInv /\ CarriedInv => OneUserPerTunnel
  <2> SUFFICES ASSUME SlotInv, CarriedInv, NEW t \in Tunnels
               PROVE  Cardinality(carried[t]) <= 1
    BY DEF OneUserPerTunnel
  <2>1. CASE carried[t] = {}
    BY <2>1, FS_EmptySet
  <2>2. CASE carried[t] # {}
    <3>1. PICK u : u \in carried[t]
      BY <2>2
    <3>2. carried[t] = {u}
      BY <3>1 DEF CarriedInv, OneSender
    <3>3. Cardinality({u}) = 1
      BY FS_Singleton, Zenon
    <3> QED
      BY <3>2, <3>3
  <2> QED
    BY <2>1, <2>2
<1> QED
  BY <1>1, TrafficKept, PTL

\* The request of a user who has left to close the tunnel is never lost while
\* the tunnel is up.
THEOREM CloseRequestsKept == PromptSpec => []CloseRequestKept
<1>1. SlotInv /\ CarriedInv => CloseRequestKept
  BY DEF CarriedInv, CloseAsked, CloseRequestKept, SlotOf, Used, Busy, Holding
<1> QED
  BY <1>1, TrafficKept, PTL
=============================================================================
