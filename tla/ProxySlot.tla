------------------------------ MODULE ProxySlot ------------------------------
(***************************************************************************)
(* The forwarding half of the C server (proxy_server.c): one server has a  *)
(* fixed array of slots; its output listener puts each tunnel connection   *)
(* of the device in a slot and starts connection_output_handler for it,    *)
(* its input listener puts each user in a slot that has a tunnel and       *)
(* starts connection_input_handler.  The two handlers of a slot share the  *)
(* slot's sockets and three flags, without a lock.                         *)
(*                                                                         *)
(* A handler is named after the connection it was started for, but it      *)
(* always uses the sockets the slot holds at that moment.  A step is what  *)
(* a thread does between two accesses to shared data; the bytes of a       *)
(* buffer are reduced to the connection they came from.                    *)
(***************************************************************************)
EXTENDS Naturals, FiniteSets

CONSTANTS Users,    \* connections to the input port
          Tunnels,  \* connections of the device to the output port
          N,        \* COUNT_SOCKET_THREAD
          NoSocket  \* -1

ASSUME SlotsAssumption == N \in Nat \ {0}

ASSUME SocketsAssumption == NoSocket \notin Users \cup Tunnels

Slots == 1..N

VARIABLES slot,    \* local_sockets: sockets and flags
          user,    \* the input handler of each user connection
          tunnel,  \* the output handler of each tunnel connection
          carried, \* whose data has gone into each tunnel connection
          heard    \* whose answers each user connection has been sent

vars == <<slot, user, tunnel, carried, heard>>

Slot == [in  : Users \cup {NoSocket},     \* input_local
         out : Tunnels \cup {NoSocket},   \* output_local
         isIn : BOOLEAN,                  \* is_input_connected
         isOut : BOOLEAN,                 \* is_output_connected
         close : BOOLEAN]                 \* close_output_socket

Handler(from) ==
    [pc : {"away", "start", "handshake", "loop", "select", "waitClose",
           "waitPeer", "send", "close", "flag1", "flag2", "gone"},
     at : Slots \cup {0},
     data : from \cup {NoSocket},   \* whose bytes are in the buffer
     done : BOOLEAN]                \* done_output_connection

Absent == [pc |-> "away", at |-> 0, data |-> NoSocket, done |-> FALSE]

Started(i) == [pc |-> "start", at |-> i, data |-> NoSocket, done |-> FALSE]

TypeOK ==
    /\ slot \in [Slots -> Slot]
    /\ user \in [Users -> Handler(Users)]
    /\ tunnel \in [Tunnels -> Handler(Tunnels)]
    /\ carried \in [Tunnels -> SUBSET Users]
    /\ heard \in [Users -> SUBSET Users]

Init ==
    /\ slot = [i \in Slots |-> [in |-> NoSocket, out |-> NoSocket,
                                isIn |-> FALSE, isOut |-> FALSE,
                                close |-> FALSE]]
    /\ user = [u \in Users |-> Absent]
    /\ tunnel = [t \in Tunnels |-> Absent]
    /\ carried = [t \in Tunnels |-> {}]
    /\ heard = [u \in Users |-> {}]

SlotOf(h) == slot[h.at]

\* The loops over the slots take the first that will do.
IsFirst(i, S) == i \in S /\ \A j \in S : i <= j

GoUser(u, pc) == user' = [user EXCEPT ![u].pc = pc]

GoTunnel(t, pc) == tunnel' = [tunnel EXCEPT ![t].pc = pc]

-----------------------------------------------------------------------------
(* serverInputThread *)

\* Mutant: a slot that has a user is offered to the next one.
slot_with_output == {i \in Slots : slot[i].isOut}

get_input_socket_with_output == {i \in Slots : slot[i].isOut /\ ~slot[i].isIn}

\* A user connects.  The slot is marked only when the handler runs.
AcceptUser(u) ==
    /\ user[u].pc = "away"
    /\ \E i \in Slots :
          /\ IsFirst(i, get_input_socket_with_output)
          /\ slot' = [slot EXCEPT ![i].in = u]
          /\ user' = [user EXCEPT ![u] = Started(i)]
    /\ UNCHANGED <<tunnel, carried, heard>>

\* No slot has a tunnel to spare: the connection is closed.
RefuseUser(u) ==
    /\ user[u].pc = "away"
    /\ get_input_socket_with_output = {}
    /\ GoUser(u, "gone")
    /\ UNCHANGED <<slot, tunnel, carried, heard>>

(* serverOutputThread *)

get_free_output_socket == {i \in Slots : ~slot[i].isOut}

AcceptTunnel(t) ==
    /\ tunnel[t].pc = "away"
    /\ \E i \in Slots :
          /\ IsFirst(i, get_free_output_socket)
          /\ slot' = [slot EXCEPT ![i].out = t]
          /\ tunnel' = [tunnel EXCEPT ![t] = Started(i)]
    /\ UNCHANGED <<user, carried, heard>>

RefuseTunnel(t) ==
    /\ tunnel[t].pc = "away"
    /\ get_free_output_socket = {}
    /\ GoTunnel(t, "gone")
    /\ UNCHANGED <<slot, user, carried, heard>>

-----------------------------------------------------------------------------
(* connection_input_handler *)

UserStart(u) ==
    /\ user[u].pc = "start"
    /\ slot' = [slot EXCEPT ![user[u].at].isIn = TRUE]
    /\ GoUser(u, "handshake")
    /\ UNCHANGED <<tunnel, carried, heard>>

\* No TLS on the input port, or SSL_accept succeeds.
UserHandshake(u) ==
    /\ user[u].pc = "handshake"
    /\ GoUser(u, "select")
    /\ UNCHANGED <<slot, tunnel, carried, heard>>

\* The handler gives up without a word to the tunnel, which it has not used.
UserHandshakeFails(u) ==
    /\ user[u].pc = "handshake"
    /\ slot' = [slot EXCEPT ![user[u].at].in = NoSocket,
                            ![user[u].at].isIn = FALSE]
    /\ GoUser(u, "gone")
    /\ UNCHANGED <<tunnel, carried, heard>>

UserData(u) ==
    /\ user[u].pc = "select"
    /\ SlotOf(user[u]).in # NoSocket
    /\ user' = [user EXCEPT ![u].pc = "waitClose", ![u].data = SlotOf(user[u]).in]
    /\ UNCHANGED <<slot, tunnel, carried, heard>>

\* The user has closed the connection, or select or recv fails.
UserLeaves(u) ==
    /\ user[u].pc = "select"
    /\ GoUser(u, "close")
    /\ UNCHANGED <<slot, tunnel, carried, heard>>

\* Mutant: does not wait.
UserIgnoresClose(u) ==
    /\ user[u].pc = "waitClose"
    /\ GoUser(u, "waitPeer")
    /\ UNCHANGED <<slot, tunnel, carried, heard>>

\* while (close_output_socket): the tunnel of the user before is going down.
UserSeesClosed(u) ==
    /\ user[u].pc = "waitClose"
    /\ ~SlotOf(user[u]).close
    /\ GoUser(u, "waitPeer")
    /\ UNCHANGED <<slot, tunnel, carried, heard>>

\* 120 seconds.  An output handler looks at close_output_socket within a few
\* seconds once its handshake is over, so the wait is this long only if the
\* slot has no handler that got so far.
UserCloseTimeout(u) ==
    /\ user[u].pc = "waitClose"
    /\ SlotOf(user[u]).close
    /\ \A t \in Tunnels : tunnel[t].at = user[u].at =>
           tunnel[t].pc \in {"start", "handshake", "gone"}
    /\ user' = [user EXCEPT ![u].pc = "waitPeer", ![u].done = TRUE]
    /\ UNCHANGED <<slot, tunnel, carried, heard>>

\* while (!is_output_connected), at most 120 seconds.
UserSeesTunnel(u) ==
    /\ user[u].pc = "waitPeer"
    /\ SlotOf(user[u]).isOut
    /\ GoUser(u, "send")
    /\ UNCHANGED <<slot, tunnel, carried, heard>>

\* Mutant: the wait ends only if there is a tunnel.
UserWaitsOn(u) ==
    /\ user[u].pc = "waitPeer"
    /\ SlotOf(user[u]).isOut
    /\ user' = [user EXCEPT ![u].pc = "send", ![u].done = TRUE]
    /\ UNCHANGED <<slot, tunnel, carried, heard>>

UserTunnelTimeout(u) ==
    /\ user[u].pc = "waitPeer"
    /\ ~SlotOf(user[u]).isOut
    /\ user' = [user EXCEPT ![u].pc = "send", ![u].done = TRUE]
    /\ UNCHANGED <<slot, tunnel, carried, heard>>

\* The user's bytes go into whatever tunnel the slot holds now, all of them
\* (more is FALSE) or a part, after which the handler sends again.  Bytes
\* written while SSL_accept is still running do not reach the device.
UserSend(u, more) ==
    /\ user[u].pc = "send"
    /\ SlotOf(user[u]).out # NoSocket
    /\ tunnel[SlotOf(user[u]).out].pc \notin {"start", "handshake"}
    /\ carried' = [carried EXCEPT ![SlotOf(user[u]).out] = @ \cup {user[u].data}]
    /\ GoUser(u, IF more THEN "send"
                 ELSE IF user[u].done THEN "close" ELSE "select")
    /\ UNCHANGED <<slot, tunnel, heard>>

\* The tunnel is gone or broken: the rest of the buffer is dropped.
UserSendFails(u) ==
    /\ user[u].pc = "send"
    /\ GoUser(u, IF user[u].done THEN "close" ELSE "select")
    /\ UNCHANGED <<slot, tunnel, carried, heard>>

\* The end of the handler: the socket, the request to close the tunnel, and
\* only then the flag that makes the slot available to another user.
UserClose(u) ==
    /\ user[u].pc = "close"
    /\ slot' = [slot EXCEPT ![user[u].at].in = NoSocket]
    /\ GoUser(u, "flag1")
    /\ UNCHANGED <<tunnel, carried, heard>>

\* Mutant: the tunnel is not asked to close.
UserForgetsTunnel(u) ==
    /\ user[u].pc = "flag1"
    /\ GoUser(u, "flag2")
    /\ UNCHANGED <<slot, tunnel, carried, heard>>

UserFlag1(u) ==
    /\ user[u].pc = "flag1"
    /\ slot' = [slot EXCEPT ![user[u].at].close = TRUE]
    /\ GoUser(u, "flag2")
    /\ UNCHANGED <<tunnel, carried, heard>>

UserFlag2(u) ==
    /\ user[u].pc = "flag2"
    /\ slot' = [slot EXCEPT ![user[u].at].isIn = FALSE]
    /\ GoUser(u, "gone")
    /\ UNCHANGED <<tunnel, carried, heard>>

-----------------------------------------------------------------------------
(* connection_output_handler *)

TunnelStart(t) ==
    /\ tunnel[t].pc = "start"
    /\ slot' = [slot EXCEPT ![tunnel[t].at].isOut = TRUE]
    /\ GoTunnel(t, "handshake")
    /\ UNCHANGED <<user, carried, heard>>

TunnelHandshake(t) ==
    /\ tunnel[t].pc = "handshake"
    /\ GoTunnel(t, "loop")
    /\ UNCHANGED <<slot, user, carried, heard>>

\* The tunnel is dropped; a pending close_output_socket stays.
TunnelHandshakeFails(t) ==
    /\ tunnel[t].pc = "handshake"
    /\ slot' = [slot EXCEPT ![tunnel[t].at].out = NoSocket,
                            ![tunnel[t].at].isOut = FALSE]
    /\ GoTunnel(t, "gone")
    /\ UNCHANGED <<user, carried, heard>>

\* Mutant: the flag is not looked at.
TunnelLoopsOn(t) ==
    /\ tunnel[t].pc = "loop"
    /\ GoTunnel(t, "select")
    /\ UNCHANGED <<slot, user, carried, heard>>

\* The head of the loop looks at close_output_socket.
TunnelLoop(t) ==
    /\ tunnel[t].pc = "loop"
    /\ GoTunnel(t, IF SlotOf(tunnel[t]).close THEN "close" ELSE "select")
    /\ UNCHANGED <<slot, user, carried, heard>>

\* Nothing to read for a second.
TunnelIdle(t) ==
    /\ tunnel[t].pc = "select"
    /\ GoTunnel(t, "loop")
    /\ UNCHANGED <<slot, user, carried, heard>>

TunnelData(t) ==
    /\ tunnel[t].pc = "select"
    /\ SlotOf(tunnel[t]).out # NoSocket
    /\ tunnel' = [tunnel EXCEPT ![t].pc = "waitPeer",
                                ![t].data = SlotOf(tunnel[t]).out]
    /\ UNCHANGED <<slot, user, carried, heard>>

\* The device has closed the tunnel, or select or recv fails.
TunnelLeaves(t) ==
    /\ tunnel[t].pc = "select"
    /\ GoTunnel(t, "close")
    /\ UNCHANGED <<slot, user, carried, heard>>

\* while (!is_input_connected), unless the tunnel is to be closed; even then
\* the data is sent once more.
TunnelWaits(t) ==
    /\ tunnel[t].pc = "waitPeer"
    /\ SlotOf(tunnel[t]).isIn \/ SlotOf(tunnel[t]).close
    /\ tunnel' = [tunnel EXCEPT ![t].pc = "send",
                                ![t].done = ~SlotOf(tunnel[t]).isIn]
    /\ UNCHANGED <<slot, user, carried, heard>>

\* The device's bytes go to whatever user the slot holds now.
TunnelSend(t, more) ==
    /\ tunnel[t].pc = "send"
    /\ SlotOf(tunnel[t]).in # NoSocket
    /\ heard' = [heard EXCEPT ![SlotOf(tunnel[t]).in] =
                     @ \cup carried[tunnel[t].data]]
    /\ GoTunnel(t, IF more THEN "send"
                   ELSE IF tunnel[t].done THEN "close" ELSE "loop")
    /\ UNCHANGED <<slot, user, carried>>

TunnelSendFails(t) ==
    /\ tunnel[t].pc = "send"
    /\ GoTunnel(t, IF tunnel[t].done THEN "close" ELSE "loop")
    /\ UNCHANGED <<slot, user, carried, heard>>

TunnelClose(t) ==
    /\ tunnel[t].pc = "close"
    /\ slot' = [slot EXCEPT ![tunnel[t].at].out = NoSocket]
    /\ GoTunnel(t, "flag1")
    /\ UNCHANGED <<user, carried, heard>>

TunnelFlag1(t) ==
    /\ tunnel[t].pc = "flag1"
    /\ slot' = [slot EXCEPT ![tunnel[t].at].isOut = FALSE]
    /\ GoTunnel(t, "flag2")
    /\ UNCHANGED <<user, carried, heard>>

TunnelFlag2(t) ==
    /\ tunnel[t].pc = "flag2"
    /\ slot' = [slot EXCEPT ![tunnel[t].at].close = FALSE]
    /\ GoTunnel(t, "gone")
    /\ UNCHANGED <<user, carried, heard>>

-----------------------------------------------------------------------------

ListenInput == \E u \in Users : AcceptUser(u) \/ RefuseUser(u)

ListenOutput == \E t \in Tunnels : AcceptTunnel(t) \/ RefuseTunnel(t)

UserSteps(u) ==
    \/ UserStart(u) \/ UserHandshake(u) \/ UserHandshakeFails(u)
    \/ UserData(u) \/ UserLeaves(u)
    \/ UserSeesClosed(u) \/ UserCloseTimeout(u)
    \/ UserSeesTunnel(u) \/ UserTunnelTimeout(u)
    \/ UserSend(u, TRUE) \/ UserSend(u, FALSE) \/ UserSendFails(u)
    \/ UserClose(u) \/ UserFlag1(u) \/ UserFlag2(u)

TunnelSteps(t) ==
    \/ TunnelStart(t) \/ TunnelHandshake(t) \/ TunnelHandshakeFails(t)
    \/ TunnelLoop(t) \/ TunnelIdle(t) \/ TunnelData(t) \/ TunnelLeaves(t)
    \/ TunnelWaits(t)
    \/ TunnelSend(t, TRUE) \/ TunnelSend(t, FALSE) \/ TunnelSendFails(t)
    \/ TunnelClose(t) \/ TunnelFlag1(t) \/ TunnelFlag2(t)

Handlers ==
    \/ \E u \in Users : UserSteps(u)
    \/ \E t \in Tunnels : TunnelSteps(t)

\* Every interleaving of listeners and handlers.
Next == ListenInput \/ ListenOutput \/ Handlers

Spec == Init /\ [][Next]_vars

\* The scheduling the code relies on: a listener does not accept again before
\* the handler it started has marked its slot (it sleeps a millisecond), nor
\* between the last two assignments of an output handler.
InputReady == \A u \in Users : user[u].pc # "start"

OutputReady == \A t \in Tunnels : tunnel[t].pc \notin {"start", "flag2"}

PromptNext ==
    \/ InputReady /\ ListenInput
    \/ OutputReady /\ ListenOutput
    \/ Handlers

\* The same, said of an execution of the program: nothing in the code makes a
\* listener wait, so this is what the load and the scheduler must grant.
NoRacingAccept ==
    [][(ListenInput => InputReady) /\ (ListenOutput => OutputReady)]_vars

\* The tests between two attempts to send, while the peer does not read: the
\* handler of a user looks only whether there is a tunnel, that of a tunnel
\* also whether it is to be closed.  A socket that is closed fails at once.
TunnelGone(u) ==
    /\ user[u].pc = "send"
    /\ ~SlotOf(user[u]).isOut \/ SlotOf(user[u]).out = NoSocket

UserGone(t) ==
    /\ tunnel[t].pc = "send"
    /\ \/ ~SlotOf(tunnel[t]).isIn \/ SlotOf(tunnel[t]).close
       \/ SlotOf(tunnel[t]).in = NoSocket

\* Threads run and selects time out; a handshake, a user or a device may take
\* for ever, and so may a send to one that does not read.
Fairness ==
    /\ \A u \in Users :
          /\ WF_vars(UserStart(u) \/ UserSeesClosed(u) \/ UserCloseTimeout(u))
          /\ WF_vars(UserSeesTunnel(u) \/ UserTunnelTimeout(u))
          /\ WF_vars(TunnelGone(u) /\ UserSendFails(u))
          /\ WF_vars(UserClose(u) \/ UserFlag1(u) \/ UserFlag2(u))
    /\ \A t \in Tunnels :
          /\ WF_vars(TunnelStart(t) \/ TunnelLoop(t))
          /\ WF_vars(TunnelIdle(t) \/ TunnelData(t) \/ TunnelLeaves(t))
          /\ WF_vars(TunnelWaits(t))
          /\ WF_vars(UserGone(t) /\ TunnelSendFails(t))
          /\ WF_vars(TunnelClose(t) \/ TunnelFlag1(t) \/ TunnelFlag2(t))

PromptSpec == Init /\ [][PromptNext]_vars /\ Fairness

-----------------------------------------------------------------------------

Holding == {"start", "handshake", "loop", "select", "waitClose", "waitPeer",
            "send", "close"}

\* A handler at work finds its own connection in its slot: no second handler
\* was given the slot, and no socket was overwritten and so never closed
\* (get_input_socket_with_output, get_free_output_socket).
HandlerOwnsSlot ==
    /\ \A u \in Users : user[u].pc \in Holding => SlotOf(user[u]).in = u
    /\ \A t \in Tunnels : tunnel[t].pc \in Holding => SlotOf(tunnel[t]).out = t

\* What one user sent and what another sent never meet in one tunnel
\* connection: the flags make the next user wait for a fresh one.
OneUserPerTunnel == \A t \in Tunnels : Cardinality(carried[t]) <= 1

\* A tunnel whose user has left stays marked for closing until its handler
\* takes it down: the request is never lost.
CloseRequestKept ==
    \A t \in Tunnels, u \in Users :
        /\ u \in carried[t]
        /\ user[u].pc \in {"flag2", "gone"}
        /\ tunnel[t].pc \in {"loop", "select", "waitPeer", "send"}
        => SlotOf(tunnel[t]).close

\* A tunnel connection that a user has used does not outlive the user.
UsedTunnelEnds ==
    \A t \in Tunnels, u \in Users :
        (u \in carried[t] /\ user[u].pc = "gone") ~> (tunnel[t].pc = "gone")

\* Data read from a user is forwarded or given up, or the device keeps a tunnel
\* from which it does not read: the only way to hold a user for ever is in the
\* send itself (connection_input_handler).
BufferedDataLeaves ==
    \A u \in Users :
        (user[u].pc \in {"waitClose", "waitPeer", "send"})
            ~> \/ user[u].pc \in {"select", "gone"}
               \/ [](user[u].pc = "send" /\ SlotOf(user[u]).isOut)

\* A user is sent answers to nobody's requests but its own.
AnswerToAsker == \A u \in Users : heard[u] \subseteq {u}
=============================================================================
