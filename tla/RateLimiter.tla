----------------------------- MODULE RateLimiter -----------------------------
(***************************************************************************)
(* The limit on requests to the control server                            *)
(* (server/proxy/server/security_features.c).                             *)
(*                                                                         *)
(* A table holds one entry per key it has seen: a device, a session or an  *)
(* address.  A key gets MaxRequests requests in a window; one more refuses *)
(* it and everything else for the length of the penalty.  Nothing is ever  *)
(* removed from the table except by security_reset_rate_limits.            *)
(*                                                                         *)
(* A registration is counted for its device and then for its address, a    *)
(* heartbeat for its session.  The lists of check_ip_access are empty in   *)
(* this build: nothing calls detect_port_scanning, the only code that      *)
(* fills one.  penalty_count and last_request are only logged.             *)
(***************************************************************************)
EXTENDS Naturals, SequencesExt, FiniteSetsExt

CONSTANTS DeviceKeys,   \* devices, all behind one address
          SessionKeys,  \* keys of heartbeats
          LongKeys,     \* keys of 64 characters: rate_limit_entry_t cuts them
          Window,       \* window_seconds
          MaxRequests,  \* max_requests
          Penalty,      \* penalty_seconds
          Capacity,     \* entries allocated at first, 1000 in the code
          MaxTime,      \* bound: the clock
          MaxTable      \* bound: entries

\* The values the server is built with, 60 and 300 seconds and room for 1000
\* entries, satisfy this.
ASSUME LimitAssumption ==
    /\ Window \in Nat \ {0} /\ MaxRequests \in Nat \ {0}
    /\ Penalty \in Nat /\ Penalty >= Window
    /\ Capacity \in Nat \ {0} /\ MaxTime \in Nat

VARIABLES now,       \* time(NULL)
          limiter,   \* g_rate_limit_table and its capacity
          passes     \* history: requests let through, by key and age in seconds

limitVars == <<now, limiter, passes>>

Address == "address"

Keys == DeviceKeys \cup SessionKeys \cup {Address}

Times == 0..MaxTime

\* rate_limit_entry_t.  A key that was cut is no longer equal to itself.
Entries == [key : Keys, cut : BOOLEAN, count : Nat, start : Times,
            until : 0..(MaxTime + Penalty)]

\* What is remembered of the past.
Ages == 0..(Window - 1)

NoPasses == [k \in Keys |-> [a \in Ages |-> 0]]

LimitTypeOK ==
    /\ now \in Times
    /\ limiter \in [table : Seq(Entries), capacity : Nat]
    /\ Len(limiter.table) <= limiter.capacity
    /\ passes \in [Keys -> [Ages -> Nat]]

\* security_features_init.
LimitInit ==
    /\ now = 0
    /\ limiter = [table |-> <<>>, capacity |-> Capacity]
    /\ passes = NoPasses

-----------------------------------------------------------------------------
(* check_rate_limit *)

NewEntry(k) ==
    [key |-> k, cut |-> k \in LongKeys, count |-> 0, start |-> now, until |-> 0]

\* The place of the key's entry, 0 if there is none.
Find(table, k) == SelectInSeq(table, LAMBDA e : e.key = k /\ ~e.cut)

\* Mutant: a request that comes during the penalty makes it longer.
JudgeHarder(entry) ==
    LET e == IF now - entry.start >= Window
             THEN [entry EXCEPT !.start = now, !.count = 0] ELSE entry
    IN IF entry.until > now \/ e.count >= MaxRequests
       THEN [entry |-> [e EXCEPT !.until = now + Penalty, !.count = 0, !.start = now],
             allowed |-> FALSE]
       ELSE [entry |-> [e EXCEPT !.count = @ + 1], allowed |-> TRUE]

\* Mutant: one request more than the limit.
JudgeOneMore(entry) ==
    LET e == IF now - entry.start >= Window
             THEN [entry EXCEPT !.start = now, !.count = 0] ELSE entry
    IN IF entry.until > now THEN [entry |-> entry, allowed |-> FALSE]
       ELSE IF e.count > MaxRequests
       THEN [entry |-> [e EXCEPT !.until = now + Penalty, !.count = 0, !.start = now],
             allowed |-> FALSE]
       ELSE [entry |-> [e EXCEPT !.count = @ + 1], allowed |-> TRUE]

\* What becomes of an entry and of the request that asks for it.
Judge(entry) ==
    LET e == IF now - entry.start >= Window
             THEN [entry EXCEPT !.start = now, !.count = 0] ELSE entry
    IN IF entry.until > now THEN [entry |-> entry, allowed |-> FALSE]
       ELSE IF e.count >= MaxRequests
       THEN [entry |-> [e EXCEPT !.until = now + Penalty, !.count = 0, !.start = now],
             allowed |-> FALSE]
       ELSE [entry |-> [e EXCEPT !.count = @ + 1], allowed |-> TRUE]

\* No room for a new entry.
IsFull(lim, k) == Find(lim.table, k) = 0 /\ Len(lim.table) >= lim.capacity

\* Mutant: the table is not enlarged, the entry is written anyway.
CheckNoGrowth(lim, k, grows) ==
    LET table == IF Find(lim.table, k) = 0 THEN Append(lim.table, NewEntry(k))
                 ELSE lim.table
        i == IF Find(lim.table, k) = 0 THEN Len(table) ELSE Find(lim.table, k)
        verdict == Judge(table[i])
    IN [limiter |-> [lim EXCEPT !.table = [table EXCEPT ![i] = verdict.entry]],
        allowed |-> verdict.allowed, counted |-> k \notin LongKeys]

\* grows is FALSE if realloc fails; the request then passes unrecorded.
check_rate_limit(lim, k, grows) ==
    LET found == Find(lim.table, k)
        table == IF found = 0 THEN Append(lim.table, NewEntry(k)) ELSE lim.table
        i == IF found = 0 THEN Len(table) ELSE found
        verdict == Judge(table[i])
    IN IF IsFull(lim, k) /\ ~grows THEN [limiter |-> lim, allowed |-> TRUE, counted |-> FALSE]
       ELSE [limiter |-> [table |-> [table EXCEPT ![i] = verdict.entry],
                          capacity |-> IF IsFull(lim, k) THEN 2 * lim.capacity
                                       ELSE lim.capacity],
             allowed |-> verdict.allowed, counted |-> k \notin LongKeys]

\* The history counts what the table has counted.
Passed(ps, k, allowed, counted) ==
    IF allowed /\ counted THEN [ps EXCEPT ![k][0] = @ + 1] ELSE ps

-----------------------------------------------------------------------------

\* validate_device_token: the device is counted even if its address is then
\* refused.
validate_device_token(d, grows) ==
    LET device == check_rate_limit(limiter, d, grows)
        address == check_rate_limit(device.limiter, Address, grows)
        once == Passed(passes, d, device.allowed, device.counted)
    IN /\ limiter' = IF device.allowed THEN address.limiter ELSE device.limiter
       /\ Len(limiter'.table) <= MaxTable
       /\ passes' = IF device.allowed
                    THEN Passed(once, Address, address.allowed, address.counted)
                    ELSE once
       /\ UNCHANGED now

\* validate_session_token_security.
validate_session_token_security(s, grows) ==
    LET session == check_rate_limit(limiter, s, grows)
    IN /\ limiter' = session.limiter
       /\ Len(limiter'.table) <= MaxTable
       /\ passes' = Passed(passes, s, session.allowed, session.counted)
       /\ UNCHANGED now

\* The table is emptied; it keeps its size.
security_reset_rate_limits ==
    /\ limiter' = [limiter EXCEPT !.table = <<>>]
    /\ passes' = NoPasses
    /\ UNCHANGED now

TimePasses ==
    /\ now < MaxTime
    /\ now' = now + 1
    /\ passes' = [k \in Keys |-> [a \in Ages |-> IF a = 0 THEN 0 ELSE passes[k][a - 1]]]
    /\ UNCHANGED limiter

LimitNext ==
    \/ \E grows \in BOOLEAN :
          \/ \E d \in DeviceKeys : validate_device_token(d, grows)
          \/ \E s \in SessionKeys : validate_session_token_security(s, grows)
    \/ security_reset_rate_limits
    \/ TimePasses

-----------------------------------------------------------------------------

\* However requests fall on the borders of windows and penalties, no span as
\* long as a window lets more than twice the limit through for one key (not
\* once that, because a window starts when the last one is over).  It needs a
\* penalty no shorter than the window.  Requests that pass unrecorded do not
\* count: those of a key too long for an entry, and those that come while the
\* table cannot be enlarged.
LimitHolds ==
    \A k \in Keys : MapThenSumSet(LAMBDA a : passes[k][a], Ages) <= 2 * MaxRequests

\* Until when a key is refused.
RefusedUntil(table, k) ==
    IF Find(table, k) = 0 THEN 0 ELSE table[Find(table, k)].until

\* A client that keeps asking while it is refused is not refused any longer
\* for that: a penalty is set anew only when the last one is over.
PenaltyNotExtended ==
    [][\A k \in Keys : RefusedUntil(limiter'.table, k) > RefusedUntil(limiter.table, k)
          => RefusedUntil(limiter.table, k) <= now]_limitVars
=============================================================================
