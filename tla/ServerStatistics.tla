--------------------------- MODULE ServerStatistics ---------------------------
(***************************************************************************)
(* The traffic totals of a fixed server (server/db/db_func.c and the       *)
(* handlers of proxy_server.c).                                            *)
(*                                                                         *)
(* A total lives in four places: the runtime's own copy of the server,     *)
(* which every connection handler adds to; the element of the array        *)
(* servers, to which a handler copies it and from which the saver thread   *)
(* reads it once a minute; the column total_bytes_* of the table servers;  *)
(* and the snapshots in the table statistic, of which the old ones are     *)
(* deleted.  A server that starts loads the largest of what it finds.      *)
(*                                                                         *)
(* statistics_semaphore is held only while the copy is made.  Adding to a  *)
(* counter is a read and a write, and handlers do it without the           *)
(* semaphore: one may overwrite what another has just added.               *)
(* Received and sent bytes are counted alike and seen here as one count of *)
(* units.                                                                  *)
(***************************************************************************)
EXTENDS Integers, FiniteSets

CONSTANTS Handlers,   \* connection handlers of the server
          MaxUnits,   \* bound: units of traffic forwarded
          MaxStarts,  \* bound: times the server is started again
          Width       \* values of the counter of connections, 2^32 in the code

ASSUME StatAssumption ==
    MaxUnits \in Nat /\ MaxStarts \in Nat /\ Width \in Nat \ {0}

VARIABLES
    runtime,   \* statistics in connections_data->data
    listed,    \* statistics in servers[i]
    handler,   \* what each handler does, and the value it has read
    stored,    \* the database: column total, snapshots new and old
    units,     \* units really forwarded since the server was set up
    starts

statVars == <<runtime, listed, handler, stored, units, starts>>

Counts == 0..MaxUnits

\* The counter of connections is unsigned and wraps around.
Unsigned(n) == n % Width

Statistics == [bytes : Counts, conns : 0..(Width - 1)]

Handler == [pc : {"off", "arrive", "on", "add", "leave"}, read : Nat]

NoHandler == [pc |-> "off", read |-> 0]

StatTypeOK ==
    /\ runtime \in Statistics
    /\ listed \in Statistics
    /\ handler \in [Handlers -> Handler]
    /\ stored \in [total : Counts, fresh : SUBSET Counts, old : SUBSET Counts]
    /\ units \in Counts
    /\ starts \in 0..MaxStarts

StatInit ==
    /\ runtime = [bytes |-> 0, conns |-> 0]
    /\ listed = runtime
    /\ handler = [h \in Handlers |-> NoHandler]
    /\ stored = [total |-> 0, fresh |-> {}, old |-> {}]
    /\ units = 0
    /\ starts = 0

Largest(S) == CHOOSE n \in S : \A m \in S : n >= m

-----------------------------------------------------------------------------
(* Connection handlers *)

\* The value of a counter is read ...
HandlerReads(h, from, to, value) ==
    /\ handler[h].pc = from
    /\ handler' = [handler EXCEPT ![h] = [pc |-> to, read |-> value]]
    /\ UNCHANGED <<runtime, listed, stored, units, starts>>

UserArrives(h) == HandlerReads(h, "off", "arrive", runtime.conns)

UserLeaves(h) == HandlerReads(h, "on", "leave", runtime.conns)

DataArrives(h) == units < MaxUnits /\ HandlerReads(h, "on", "add", runtime.bytes)

\* ... and written back, changed, and the statistics are copied.
HandlerWrites(h, statistics, to) ==
    /\ runtime' = statistics
    /\ listed' = runtime'
    /\ handler' = [handler EXCEPT ![h] = [NoHandler EXCEPT !.pc = to]]
    /\ UNCHANGED <<stored, starts>>

UserCounted(h) ==
    /\ handler[h].pc = "arrive"
    /\ HandlerWrites(h, [runtime EXCEPT !.conns = Unsigned(handler[h].read + 1)], "on")
    /\ UNCHANGED units

\* Mutant: the counter is signed and goes below 0.
UserUncountedSigned(h) ==
    /\ handler[h].pc = "leave"
    /\ HandlerWrites(h, [runtime EXCEPT !.conns = handler[h].read - 1], "off")
    /\ UNCHANGED units

UserUncounted(h) ==
    /\ handler[h].pc = "leave"
    /\ HandlerWrites(h, [runtime EXCEPT !.conns = Unsigned(handler[h].read - 1)], "off")
    /\ UNCHANGED units

\* update_server_statistics.
DataCounted(h) ==
    /\ handler[h].pc = "add"
    /\ units < MaxUnits
    /\ HandlerWrites(h, [runtime EXCEPT !.bytes = handler[h].read + 1], "on")
    /\ units' = units + 1

-----------------------------------------------------------------------------
(* The saver thread *)

Snapshots == stored.fresh \cup stored.old

\* What fetch_peak_statistic_totals_unlocked finds.
Peak == Largest(Snapshots \cup {0})

\* Mutant: the column is written as it is given.
PersistLatest(total, n) == n

\* persist_server_totals_unlocked: the column after writing n, with GREATEST.
Persisted(total, n) == Largest({total, n})

\* save_server_statistics.  found says what it could read: the column, the
\* snapshots, or neither; persisted and inserted, whether the column could be
\* written and the snapshot added.
Save(found, persisted, inserted) ==
    /\ listed.bytes # 0 \/ listed.conns # 0
    /\ LET known == IF found = "total" THEN stored.total
                    ELSE IF found = "peak" THEN Peak ELSE 0
           total == Largest({listed.bytes, known})
       IN /\ listed' = [listed EXCEPT !.bytes = total]
          /\ stored' = [stored EXCEPT
                !.total = IF persisted THEN Persisted(@, total) ELSE @,
                !.fresh = IF inserted THEN @ \cup {total} ELSE @]
    /\ UNCHANGED <<runtime, handler, units, starts>>

\* A snapshot is older than statistics_retention_period.
Age ==
    /\ stored.fresh # {}
    /\ stored' = [stored EXCEPT !.fresh = {}, !.old = Snapshots]
    /\ UNCHANGED <<runtime, listed, handler, units, starts>>

\* cleanup_old_statistics: sync_all_server_totals_from_statistics copies the
\* largest value to the column, and then the old snapshots are deleted, also
\* if the copy failed.
Cleanup(synced, deleted) ==
    /\ stored.old # {}
    /\ stored' = [stored EXCEPT
          !.total = IF synced THEN Largest({@, Peak}) ELSE @,
          !.old = IF deleted THEN {} ELSE @]
    /\ UNCHANGED <<runtime, listed, handler, units, starts>>

-----------------------------------------------------------------------------

\* Mutant: the total and the snapshots are added up.
LoadSum(totalRead, peakRead) ==
    (IF totalRead THEN stored.total ELSE 0) + (IF peakRead THEN Peak ELSE 0)

\* load_server_statistics: what it could read of the two.
Loaded(totalRead, peakRead) ==
    Largest({IF totalRead THEN stored.total ELSE 0,
             IF peakRead THEN Peak ELSE 0})

\* The server process ends and is started again (get_user_server_ports).
StartAgain(totalRead, peakRead, persisted) ==
    /\ starts < MaxStarts
    /\ starts' = starts + 1
    /\ runtime' = [bytes |-> Loaded(totalRead, peakRead), conns |-> 0]
    /\ listed' = runtime'
    /\ stored' = [stored EXCEPT
          !.total = IF persisted THEN Persisted(@, runtime'.bytes) ELSE @]
    /\ handler' = [h \in Handlers |-> NoHandler]
    /\ UNCHANGED units

StatNext ==
    \/ \E h \in Handlers :
          \/ UserArrives(h) \/ UserCounted(h)
          \/ DataArrives(h) \/ DataCounted(h)
          \/ UserLeaves(h) \/ UserUncounted(h)
    \/ \E found \in {"total", "peak", "none"}, persisted, inserted \in BOOLEAN :
          Save(found, persisted, inserted)
    \/ Age
    \/ \E synced, deleted \in BOOLEAN : Cleanup(synced, deleted)
    \/ \E totalRead, peakRead, persisted \in BOOLEAN :
          StartAgain(totalRead, peakRead, persisted)

-----------------------------------------------------------------------------

\* No place ever shows more traffic than there was, however handlers, saves
\* that fail half way, cleanups and restarts meet: totals are combined by
\* their maximum and nothing is counted twice.
NeverOvercounts ==
    /\ runtime.bytes <= units /\ listed.bytes <= units
    /\ stored.total <= units
    /\ \A n \in Snapshots : n <= units

\* What was once saved is found again by the next start, although the column
\* may not have been written, a start may have read nothing, and the snapshot
\* that showed it may have been deleted: the largest value in the database
\* never gets smaller.  The one way to lose it is a cleanup that deletes the
\* snapshots after its own copy to the column has failed
\* (cleanup_old_statistics).
SavedSurvives ==
    [][\/ Cleanup(FALSE, TRUE)
       \/ Largest(stored'.fresh \cup stored'.old \cup {stored'.total})
             >= Largest(Snapshots \cup {stored.total})]_statVars
=============================================================================
