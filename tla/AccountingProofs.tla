--------------------------- MODULE AccountingProofs ---------------------------
(***************************************************************************)
(* Proofs about how traffic is accounted for, of fixed servers and of      *)
(* devices: for any number of handlers, units, starts, requests and        *)
(* sessions, no total exceeds what was forwarded but for the causes the    *)
(* properties name, and what was saved is found again.                     *)
(***************************************************************************)
EXTENDS MCAccounting, FiniteSetTheorems, WellFoundedInduction, TLAPS

-----------------------------------------------------------------------------
(* The largest element of a set of counts *)

Less == {p \in Nat \X Nat : p[1] < p[2]}

LEMMA LessWellFounded == IsWellFoundedOn(Less, Nat)
<1>1. Less = OpToRel(<, Nat)
  BY DEF Less, OpToRel
<1> QED
  BY <1>1, NatLessThanWellFounded, Zenon

\* A set of natural numbers has a least element.
LEMMA HasLeast ==
  ASSUME NEW T, T \subseteq Nat, T # {}
  PROVE  \E x \in T : \A y \in T : x <= y
<1>1. PICK x \in T : \A y \in T : <<y, x>> \notin Less
  BY LessWellFounded, WFMin
<1>2. \A a, b \in Nat : a < b => <<a, b>> \in Less
  BY DEF Less
<1>3. ASSUME NEW y \in T
      PROVE  x <= y
  <2>1. x \in Nat /\ y \in Nat
    OBVIOUS
  <2>2. ~(y < x)
    BY <1>1, <1>2, <2>1
  <2> QED
    BY <2>1, <2>2
<1> QED
  BY <1>1, <1>3

\* A bounded one has a largest.
LEMMA HasLargest ==
  ASSUME NEW N \in Nat, NEW S, S \subseteq 0..N, S # {}
  PROVE  \E n \in S : \A m \in S : n >= m
<1> DEFINE T == {k \in 0..N : N - k \in S}
<1>1. ASSUME NEW m \in S
      PROVE  m \in 0..N /\ N - m \in T
  <2>1. m \in 0..N
    OBVIOUS
  <2>2. N - m \in 0..N /\ N - (N - m) = m
    BY <2>1
  <2> QED
    BY <2>1, <2>2
<1>2. T \subseteq 0..N
  OBVIOUS
<1>3. \A k \in T : N - k \in S
  OBVIOUS
<1> HIDE DEF T
<1>4. T \subseteq Nat
  BY <1>2
<1>5. T # {}
  BY <1>1
<1>6. PICK x \in T : \A y \in T : x <= y
  BY <1>4, <1>5, HasLeast
<1>7. N - x \in S /\ x \in Nat
  BY <1>3, <1>4
<1>8. ASSUME NEW m \in S
      PROVE  N - x >= m
  BY <1>1, <1>6, <1>7
<1> QED
  BY <1>7, <1>8

\* What Largest returns for a set of counts.
LEMMA LargestCount ==
  ASSUME NEW S, S \subseteq Counts, S # {}
  PROVE  Largest(S) \in S /\ \A m \in S : Largest(S) >= m
<1>1. \E n \in S : \A m \in S : n >= m
  BY HasLargest, StatAssumption DEF Counts
<1> QED
  BY <1>1, Zenon DEF Largest

-----------------------------------------------------------------------------
(* The totals of a fixed server *)

\* A handler that is about to add has read no more than there was.
StatInv ==
    /\ StatTypeOK
    /\ NeverOvercounts
    /\ \A h \in Handlers : handler[h].pc = "add" => handler[h].read <= units

\* The counter of connections wraps around within its width.
LEMMA UnsignedWraps == \A n \in Int : Unsigned(n) \in 0..(Width - 1)
  BY StatAssumption DEF Unsigned

LEMMA PeakBound ==
  ASSUME StatInv
  PROVE  Peak \in Counts /\ Peak <= units /\ \A n \in Snapshots : Peak >= n
<1>1. Snapshots \cup {0} \subseteq Counts
  BY StatAssumption DEF StatInv, StatTypeOK, Snapshots, Counts
<1>2. Peak \in Snapshots \cup {0} /\ \A m \in Snapshots \cup {0} : Peak >= m
  BY <1>1, LargestCount DEF Peak
<1> QED
  BY <1>1, <1>2 DEF StatInv, NeverOvercounts, StatTypeOK, Counts

LEMMA LargerOfTwo ==
  ASSUME NEW a \in Counts, NEW b \in Counts
  PROVE  /\ Largest({a, b}) \in {a, b}
         /\ Largest({a, b}) >= a /\ Largest({a, b}) >= b
  BY LargestCount

\* A handler reads.
LEMMA ReadsKeep ==
  ASSUME StatInv, NEW h \in Handlers,
         UserArrives(h) \/ UserLeaves(h) \/ DataArrives(h)
  PROVE  StatInv'
<1>1. PICK to \in {"arrive", "leave", "add"}, value \in Nat :
         /\ handler' = [handler EXCEPT ![h] = [pc |-> to, read |-> value]]
         /\ to = "add" => value <= units
         /\ UNCHANGED <<runtime, listed, stored, units, starts>>
  BY DEF UserArrives, UserLeaves, DataArrives, HandlerReads, StatInv,
         StatTypeOK, Statistics, NeverOvercounts, Counts
<1>2. handler' \in [Handlers -> Handler]
  BY <1>1 DEF StatInv, StatTypeOK, Handler
<1> QED
  BY <1>1, <1>2 DEF StatInv, StatTypeOK, NeverOvercounts, Snapshots

\* A handler writes.
LEMMA WritesKeep ==
  ASSUME StatInv, NEW h \in Handlers,
         UserCounted(h) \/ UserUncounted(h) \/ DataCounted(h)
  PROVE  StatInv'
<1>1. /\ runtime' \in Statistics /\ runtime'.bytes <= units'
      /\ units' \in Counts /\ units <= units'
  <2>1. handler[h].read \in Nat /\ units \in Counts /\ runtime \in Statistics
    BY DEF StatInv, StatTypeOK, Handler
  <2>2. CASE UserCounted(h) \/ UserUncounted(h)
    <3>1. PICK n \in 0..(Width - 1) : runtime' = [runtime EXCEPT !.conns = n]
      BY <2>1, <2>2, UnsignedWraps
         DEF UserCounted, UserUncounted, HandlerWrites
    <3> QED
      BY <2>1, <2>2, <3>1 DEF UserCounted, UserUncounted, Statistics, StatInv,
            NeverOvercounts, Counts
  <2>3. CASE DataCounted(h)
    BY <2>1, <2>3, StatAssumption
       DEF DataCounted, HandlerWrites, Statistics, StatInv, Counts
  <2> QED
    BY <2>2, <2>3
<1>2. PICK to \in {"on", "off"} :
         /\ listed' = runtime' /\ UNCHANGED <<stored, starts>>
         /\ handler' = [handler EXCEPT ![h] = [NoHandler EXCEPT !.pc = to]]
  BY DEF UserCounted, UserUncounted, DataCounted, HandlerWrites
<1>3. handler' \in [Handlers -> Handler]
  BY <1>2 DEF StatInv, StatTypeOK, Handler, NoHandler
<1>4. \A g \in Handlers : handler'[g].pc = "add" => handler'[g].read <= units'
  <2> SUFFICES ASSUME NEW g \in Handlers, handler'[g].pc = "add"
               PROVE  handler'[g].read <= units'
    OBVIOUS
  <2>1. g # h /\ handler'[g] = handler[g]
    BY <1>2 DEF StatInv, StatTypeOK, NoHandler
  <2> QED
    BY <1>1, <2>1 DEF StatInv, StatTypeOK, Handler, Counts
<1>5. StatTypeOK'
  BY <1>1, <1>2, <1>3 DEF StatInv, StatTypeOK
<1>6. NeverOvercounts'
  BY <1>1, <1>2 DEF StatInv, StatTypeOK, NeverOvercounts, Counts, Snapshots
<1> QED
  BY <1>4, <1>5, <1>6 DEF StatInv

\* What the saver thread and a start do: every value they write is one that
\* was there, so none is larger than the traffic.
LEMMA SaveEffect ==
  ASSUME StatInv, NEW found, NEW persisted \in BOOLEAN,
         NEW inserted \in BOOLEAN, Save(found, persisted, inserted)
  PROVE  \E total \in Counts, column \in Counts :
            /\ total <= units /\ column <= units /\ column >= stored.total
            /\ listed' = [listed EXCEPT !.bytes = total]
            /\ stored'.total = column
            /\ stored'.fresh = stored.fresh \cup (IF inserted THEN {total}
                                                             ELSE {})
            /\ stored'.old = stored.old
            /\ stored' = [total |-> stored'.total, fresh |-> stored'.fresh,
                          old |-> stored'.old]
            /\ UNCHANGED <<runtime, handler, units, starts>>
<1> DEFINE known == IF found = "total" THEN stored.total
                    ELSE IF found = "peak" THEN Peak ELSE 0
           total == Largest({listed.bytes, known})
           column == IF persisted THEN Persisted(stored.total, total)
                     ELSE stored.total
<1>1. known \in Counts /\ known <= units
  BY PeakBound, StatAssumption
     DEF StatInv, StatTypeOK, NeverOvercounts, Counts
<1>2. listed.bytes \in Counts /\ listed.bytes <= units
  BY DEF StatInv, StatTypeOK, NeverOvercounts, Statistics
<1>3. stored' = [stored EXCEPT
                   !.total = column,
                   !.fresh = IF inserted THEN @ \cup {total} ELSE @]
  BY DEF Save
<1>4. listed' = [listed EXCEPT !.bytes = total]
  BY DEF Save
<1> HIDE DEF known
<1>5. total \in Counts /\ total <= units
  BY <1>1, <1>2, LargerOfTwo
<1> HIDE DEF total
<1>6. column \in Counts /\ column <= units /\ column >= stored.total
  <2>1. stored.total \in Counts /\ stored.total <= units
    BY DEF StatInv, StatTypeOK, NeverOvercounts
  <2> QED
    BY <1>5, <2>1, LargerOfTwo DEF Persisted, Counts
<1> HIDE DEF column
<1>7. /\ stored'.total = column
      /\ stored'.fresh = stored.fresh \cup (IF inserted THEN {total} ELSE {})
      /\ stored'.old = stored.old
      /\ stored' = [total |-> stored'.total, fresh |-> stored'.fresh,
                    old |-> stored'.old]
  BY <1>3 DEF StatInv, StatTypeOK
<1>8. UNCHANGED <<runtime, handler, units, starts>>
  BY DEF Save
<1> QED
  BY <1>4, <1>5, <1>6, <1>7, <1>8

LEMMA SaveKeeps ==
  ASSUME StatInv, NEW found, NEW persisted \in BOOLEAN,
         NEW inserted \in BOOLEAN, Save(found, persisted, inserted)
  PROVE  StatInv'
<1>1. PICK total \in Counts, column \in Counts :
            /\ total <= units /\ column <= units /\ column >= stored.total
            /\ listed' = [listed EXCEPT !.bytes = total]
            /\ stored'.total = column
            /\ stored'.fresh = stored.fresh \cup (IF inserted THEN {total}
                                                             ELSE {})
            /\ stored'.old = stored.old
            /\ stored' = [total |-> stored'.total, fresh |-> stored'.fresh,
                          old |-> stored'.old]
            /\ UNCHANGED <<runtime, handler, units, starts>>
  BY SaveEffect
<1>2. listed' \in Statistics /\ listed'.bytes = total
  BY <1>1 DEF StatInv, StatTypeOK, Statistics
<1>3. stored' \in [total : Counts, fresh : SUBSET Counts, old : SUBSET Counts]
  <2>1. /\ stored'.total \in Counts
        /\ stored'.fresh \in SUBSET Counts /\ stored'.old \in SUBSET Counts
    BY <1>1 DEF StatInv, StatTypeOK
  <2> QED
    BY <1>1, <2>1
<1>4. StatTypeOK'
  BY <1>1, <1>2, <1>3 DEF StatInv, StatTypeOK
<1>5. NeverOvercounts'
  BY <1>1, <1>2 DEF StatInv, NeverOvercounts, Snapshots
<1> QED
  BY <1>1, <1>4, <1>5 DEF StatInv

LEMMA AgeKeeps ==
  ASSUME StatInv, Age
  PROVE  StatInv'
<1>1. /\ stored'.total = stored.total
      /\ stored'.fresh = {} /\ stored'.old = Snapshots
      /\ UNCHANGED <<runtime, listed, handler, units, starts>>
  BY DEF Age, StatInv, StatTypeOK
<1>2. stored' \in [total : Counts, fresh : SUBSET Counts, old : SUBSET Counts]
  BY DEF Age, StatInv, StatTypeOK, Snapshots
<1> QED
  BY <1>1, <1>2 DEF StatInv, StatTypeOK, NeverOvercounts, Snapshots

LEMMA CleanupEffect ==
  ASSUME StatInv, NEW synced \in BOOLEAN, NEW deleted \in BOOLEAN,
         Cleanup(synced, deleted)
  PROVE  /\ stored'.total \in Counts /\ stored'.total <= units
         /\ stored'.total >= stored.total
         /\ synced => \A n \in Snapshots : stored'.total >= n
         /\ stored'.fresh = stored.fresh
         /\ stored'.old = IF deleted THEN {} ELSE stored.old
         /\ stored' \in [total : Counts, fresh : SUBSET Counts,
                         old : SUBSET Counts]
         /\ UNCHANGED <<runtime, listed, handler, units, starts>>
<1> DEFINE column == IF synced THEN Largest({stored.total, Peak})
                     ELSE stored.total
<1>1. stored.total \in Counts /\ stored.total <= units
  BY DEF StatInv, StatTypeOK, NeverOvercounts
<1>2. /\ column \in Counts /\ column <= units /\ column >= stored.total
      /\ synced => column >= Peak
  BY <1>1, PeakBound, LargerOfTwo DEF Counts
<1>3. synced => \A n \in Snapshots : column >= n
  <2> SUFFICES ASSUME synced, NEW n \in Snapshots
               PROVE  column >= n
    OBVIOUS
  <2>1. n \in Counts /\ Peak \in Counts /\ Peak >= n
    BY PeakBound DEF Snapshots, StatInv, StatTypeOK
  <2> HIDE DEF column
  <2> QED
    BY <1>2, <2>1 DEF Counts
<1>4. stored' = [stored EXCEPT !.total = column,
                               !.old = IF deleted THEN {} ELSE @]
  BY DEF Cleanup
<1> HIDE DEF column
<1>5. /\ stored'.total = column /\ stored'.fresh = stored.fresh
      /\ stored'.old = IF deleted THEN {} ELSE stored.old
      /\ stored' \in [total : Counts, fresh : SUBSET Counts,
                      old : SUBSET Counts]
  BY <1>2, <1>4 DEF StatInv, StatTypeOK
<1> QED
  BY <1>2, <1>3, <1>5 DEF Cleanup

LEMMA CleanupKeeps ==
  ASSUME StatInv, NEW synced \in BOOLEAN, NEW deleted \in BOOLEAN,
         Cleanup(synced, deleted)
  PROVE  StatInv'
  BY CleanupEffect DEF StatInv, StatTypeOK, NeverOvercounts, Snapshots

LEMMA StartEffect ==
  ASSUME StatInv, NEW totalRead \in BOOLEAN, NEW peakRead \in BOOLEAN,
         NEW persisted \in BOOLEAN, StartAgain(totalRead, peakRead, persisted)
  PROVE  /\ runtime'.bytes \in Counts /\ runtime'.bytes <= units
         /\ runtime' = [bytes |-> runtime'.bytes, conns |-> 0]
         /\ stored'.total \in Counts /\ stored'.total <= units
         /\ stored'.total >= stored.total
         /\ stored'.fresh = stored.fresh /\ stored'.old = stored.old
         /\ stored' \in [total : Counts, fresh : SUBSET Counts,
                         old : SUBSET Counts]
<1>1. stored.total \in Counts /\ stored.total <= units /\ 0 \in Counts
  BY StatAssumption DEF StatInv, StatTypeOK, NeverOvercounts, Counts
<1>2. units \in Counts
  BY DEF StatInv, StatTypeOK
<1> DEFINE total == Loaded(totalRead, peakRead)
           column == IF persisted THEN Persisted(stored.total, total)
                     ELSE stored.total
<1>3. total \in Counts /\ total <= units
  <2> DEFINE a == IF totalRead THEN stored.total ELSE 0
             b == IF peakRead THEN Peak ELSE 0
  <2>1. a \in Counts /\ a <= units /\ b \in Counts /\ b <= units
    BY <1>1, <1>2, PeakBound DEF Counts
  <2>2. total = Largest({a, b})
    BY DEF Loaded
  <2> HIDE DEF a, b, total
  <2> QED
    BY <2>1, <2>2, LargerOfTwo
<1>4. runtime' = [bytes |-> total, conns |-> 0]
  BY DEF StartAgain
<1>5. runtime'.bytes = total
  BY <1>4
<1>6. stored' = [stored EXCEPT !.total = column]
  BY <1>5 DEF StartAgain
<1> HIDE DEF total
<1>7. column \in Counts /\ column <= units /\ column >= stored.total
  BY <1>1, <1>3, LargerOfTwo DEF Persisted, Counts
<1> HIDE DEF column
<1>8. /\ stored'.total = column
      /\ stored'.fresh = stored.fresh /\ stored'.old = stored.old
      /\ stored' \in [total : Counts, fresh : SUBSET Counts,
                      old : SUBSET Counts]
  BY <1>6, <1>7 DEF StatInv, StatTypeOK
<1> QED
  BY <1>3, <1>4, <1>5, <1>7, <1>8

LEMMA StartKeeps ==
  ASSUME StatInv, NEW totalRead \in BOOLEAN, NEW peakRead \in BOOLEAN,
         NEW persisted \in BOOLEAN, StartAgain(totalRead, peakRead, persisted)
  PROVE  StatInv'
<1>1. /\ listed' = runtime' /\ UNCHANGED units
      /\ starts' \in 0..MaxStarts
      /\ handler' = [h \in Handlers |-> NoHandler]
  BY StatAssumption DEF StartAgain, StatInv, StatTypeOK
<1>2. runtime' \in Statistics
  BY StartEffect, StatAssumption DEF Statistics
<1>3. handler' \in [Handlers -> Handler]
  BY <1>1 DEF NoHandler, Handler
<1>4. StatTypeOK'
  BY <1>1, <1>2, <1>3, StartEffect DEF StatInv, StatTypeOK
<1>5. NeverOvercounts'
  BY <1>1, StartEffect DEF StatInv, NeverOvercounts, Snapshots
<1>6. \A h \in Handlers : handler'[h].pc # "add"
  BY <1>1 DEF NoHandler
<1> QED
  BY <1>4, <1>5, <1>6 DEF StatInv

LEMMA StatStepKeeps == StatInv /\ StatNext => StatInv'
  BY ReadsKeep, WritesKeep, SaveKeeps, AgeKeeps, CleanupKeeps, StartKeeps
     DEF StatNext

LEMMA StatStutters == StatInv /\ UNCHANGED statVars => StatInv'
  BY DEF statVars, StatInv, StatTypeOK, NeverOvercounts, Snapshots

LEMMA StatBegins == StatInit => StatInv
<1> SUFFICES ASSUME StatInit PROVE StatInv
  OBVIOUS
<1>1. StatTypeOK
  BY StatAssumption DEF StatInit, StatTypeOK, Statistics, Handler, NoHandler,
                        Counts
<1> QED
  BY <1>1 DEF StatInit, StatInv, NeverOvercounts, Snapshots, NoHandler

\* The invariant of the totals of fixed servers.
THEOREM StatisticsKept == Spec => []StatInv
<1>1. Init => StatInv
  BY StatBegins DEF Init
<1>2. StatInv /\ [Next]_vars => StatInv'
  BY StatStepKeeps, StatStutters DEF Next, vars, statVars
<1> QED
  BY <1>1, <1>2, PTL DEF Spec

\* No place shows more traffic than there was, however handlers, saves that
\* fail half way, cleanups and starts meet.
THEOREM TotalsNeverOvercount == Spec => []NeverOvercounts
<1>1. StatInv => NeverOvercounts
  BY DEF StatInv
<1> QED
  BY <1>1, StatisticsKept, PTL

\* Every value in the database is matched by one at least as large afterwards.
Outlasted ==
    \A m \in Snapshots \cup {stored.total} :
        \E n \in stored'.fresh \cup stored'.old \cup {stored'.total} : n >= m

LEMMA OutlastedSurvives ==
  ASSUME StatInv, StatInv', Outlasted
  PROVE  Largest(stored'.fresh \cup stored'.old \cup {stored'.total})
            >= Largest(Snapshots \cup {stored.total})
<1> DEFINE before == Snapshots \cup {stored.total}
           after == stored'.fresh \cup stored'.old \cup {stored'.total}
<1>1. /\ before \subseteq Counts /\ before # {}
      /\ after \subseteq Counts /\ after # {}
  BY DEF StatInv, StatTypeOK, Snapshots
<1>2. \A m \in before : \E n \in after : n >= m
  BY DEF Outlasted
<1> HIDE DEF before, after
<1>3. Largest(before) \in before
  BY <1>1, LargestCount
<1>4. Largest(after) \in after /\ \A m \in after : Largest(after) >= m
  BY <1>1, LargestCount
<1>5. PICK n \in after : n >= Largest(before)
  BY <1>2, <1>3
<1>6. Counts \subseteq Nat
  BY DEF Counts
<1>7. Largest(after) >= Largest(before)
  <2>1. n \in Nat /\ Largest(after) \in Nat /\ Largest(before) \in Nat
    BY <1>1, <1>3, <1>4, <1>6
  <2> QED
    BY <1>4, <1>5, <2>1
<1> QED
  BY <1>7 DEF before, after

LEMMA StepOutlasts ==
  ASSUME StatInv, StatNext
  PROVE  Cleanup(FALSE, TRUE) \/ Outlasted
<1>0. /\ Snapshots \subseteq Nat /\ stored.total \in Nat
  BY DEF StatInv, StatTypeOK, Snapshots, Counts
<1>1. ASSUME stored'.total >= stored.total,
             Snapshots \subseteq stored'.fresh \cup stored'.old
      PROVE  Outlasted
  <2> SUFFICES ASSUME NEW m \in Snapshots \cup {stored.total}
               PROVE  \E n \in stored'.fresh \cup stored'.old
                                              \cup {stored'.total} : n >= m
    BY DEF Outlasted
  <2>1. CASE m = stored.total
    BY <1>1, <2>1
  <2>2. CASE m \in Snapshots
    <3>1. m >= m
      BY <1>0, <2>2
    <3> QED
      BY <1>1, <2>2, <3>1
  <2> QED
    BY <2>1, <2>2
<1>2. ASSUME NEW h \in Handlers,
             \/ UserArrives(h) \/ UserCounted(h)
             \/ DataArrives(h) \/ DataCounted(h)
             \/ UserLeaves(h) \/ UserUncounted(h)
      PROVE  Outlasted
  <2>1. stored' = stored
    BY <1>2 DEF UserArrives, UserCounted, DataArrives, DataCounted,
          UserLeaves, UserUncounted, HandlerReads, HandlerWrites
  <2>2. stored'.total >= stored.total
    BY <1>0, <2>1
  <2> QED
    BY <1>1, <2>1, <2>2 DEF Snapshots
<1>3. ASSUME NEW found, NEW persisted \in BOOLEAN, NEW inserted \in BOOLEAN,
             Save(found, persisted, inserted)
      PROVE  Outlasted
  <2>1. /\ stored'.total >= stored.total /\ stored'.old = stored.old
        /\ stored.fresh \subseteq stored'.fresh
    BY <1>3, SaveEffect
  <2> QED
    BY <1>1, <2>1 DEF Snapshots
<1>4. CASE Age
  <2>1. /\ stored'.total = stored.total /\ stored'.old = Snapshots
    BY <1>4 DEF Age, StatInv, StatTypeOK
  <2>2. stored'.total >= stored.total
    BY <1>0, <2>1
  <2> QED
    BY <1>1, <2>1, <2>2
<1>5. ASSUME NEW synced \in BOOLEAN, NEW deleted \in BOOLEAN,
             Cleanup(synced, deleted)
      PROVE  Cleanup(FALSE, TRUE) \/ Outlasted
  <2>1. CASE synced
    <3>1. /\ stored'.total >= stored.total
          /\ \A n \in Snapshots : stored'.total >= n
      BY <1>5, <2>1, CleanupEffect
    <3> QED
      BY <3>1 DEF Outlasted
  <2>2. CASE ~deleted
    <3>1. /\ stored'.total >= stored.total /\ stored'.old = stored.old
          /\ stored'.fresh = stored.fresh
      BY <1>5, <2>2, CleanupEffect
    <3> QED
      BY <1>1, <3>1 DEF Snapshots
  <2>3. CASE ~synced /\ deleted
    <3>1. synced = FALSE /\ deleted = TRUE
      BY <2>3
    <3> QED
      BY <1>5, <3>1
  <2> QED
    BY <2>1, <2>2, <2>3
<1>6. ASSUME NEW totalRead \in BOOLEAN, NEW peakRead \in BOOLEAN,
             NEW persisted \in BOOLEAN,
             StartAgain(totalRead, peakRead, persisted)
      PROVE  Outlasted
  <2>1. /\ stored'.total >= stored.total /\ stored'.old = stored.old
        /\ stored'.fresh = stored.fresh
    BY <1>6, StartEffect
  <2> QED
    BY <1>1, <2>1 DEF Snapshots
<1> QED
  BY <1>2, <1>3, <1>4, <1>5, <1>6 DEF StatNext

\* The largest value in the database never gets smaller, but by a cleanup
\* that deletes after its own copy has failed.
THEOREM SavedTotalsSurvive == Spec => SavedSurvives
<1> DEFINE Kept ==
      \/ Cleanup(FALSE, TRUE)
      \/ Largest(stored'.fresh \cup stored'.old \cup {stored'.total})
            >= Largest(Snapshots \cup {stored.total})
<1>1. StatInv /\ StatInv' /\ [Next]_vars => [Kept]_statVars
  <2> SUFFICES ASSUME StatInv, StatInv', [Next]_vars
               PROVE  Kept \/ UNCHANGED statVars
    OBVIOUS
  <2>1. CASE StatNext
    BY <2>1, StepOutlasts, OutlastedSurvives
  <2>2. CASE ~StatNext
    BY <2>2 DEF Next, vars
  <2> QED
    BY <2>1, <2>2
<1> QED
  BY <1>1, StatisticsKept, PTL DEF Spec, SavedSurvives

-----------------------------------------------------------------------------
(* Sums over a finite set.  MapThenSumSet is a recursive function on the    *)
(* subsets; that there is one, and what it returns, is shown by taking a    *)
(* least counterexample.                                                   *)

Pick(s) == CHOOSE x \in s : TRUE

\* What the sum of a set is, if g has the sums of smaller ones.
SumStep(f, s, g) ==
    IF s = {} THEN 0 ELSE f[Pick(s)] + g[s \ {Pick(s)}]

Sums(f, T) == CHOOSE g : g = [s \in SUBSET T |-> SumStep(f, s, g)]

LEMMA PickSmaller ==
  ASSUME NEW T, IsFiniteSet(T), NEW s \in SUBSET T
  PROVE  /\ Cardinality(s) \in Nat
         /\ s # {} => /\ Pick(s) \in s
                      /\ s \ {Pick(s)} \in SUBSET T
                      /\ Cardinality(s \ {Pick(s)}) = Cardinality(s) - 1
         /\ s = {} <=> Cardinality(s) = 0
<1>1. IsFiniteSet(s)
  BY FS_Subset
<1>2. Cardinality(s) \in Nat
  BY <1>1, FS_CardinalityType
<1>3. s # {} => Pick(s) \in s
  BY DEF Pick
<1>4. s # {} => Cardinality(s \ {Pick(s)}) = Cardinality(s) - 1
  BY <1>1, <1>3, FS_RemoveElement
<1>5. s = {} <=> Cardinality(s) = 0
  BY <1>1, FS_EmptySet
<1> QED
  BY <1>2, <1>3, <1>4, <1>5

\* A function satisfies the equation for sets up to a size.
HasSums(f, T, n) ==
    \E g \in [SUBSET T -> Nat] : \A s \in SUBSET T :
        Cardinality(s) <= n => g[s] = SumStep(f, s, g)

LEMMA SumsUpTo ==
  ASSUME NEW T, IsFiniteSet(T), NEW f \in [T -> Nat], NEW n \in Nat
  PROVE  HasSums(f, T, n)
<1> DEFINE Bad == {k \in Nat : ~HasSums(f, T, k)}
<1>1. HasSums(f, T, 0)
  <2> DEFINE g == [s \in SUBSET T |-> 0]
  <2>1. g \in [SUBSET T -> Nat]
    OBVIOUS
  <2>2. ASSUME NEW s \in SUBSET T, Cardinality(s) <= 0
        PROVE  g[s] = SumStep(f, s, g)
    <3>1. Cardinality(s) \in Nat /\ (s = {} <=> Cardinality(s) = 0)
      BY PickSmaller
    <3>2. s = {}
      BY <2>2, <3>1
    <3> QED
      BY <3>2 DEF SumStep
  <2> QED
    BY <2>1, <2>2 DEF HasSums
<1>2. ASSUME NEW k \in Nat, HasSums(f, T, k)
      PROVE  HasSums(f, T, k + 1)
  <2>1. PICK g \in [SUBSET T -> Nat] : \A s \in SUBSET T :
               Cardinality(s) <= k => g[s] = SumStep(f, s, g)
    BY <1>2 DEF HasSums
  <2> DEFINE h == [s \in SUBSET T |->
                     IF Cardinality(s) <= k THEN g[s] ELSE SumStep(f, s, g)]
  <2>2. \A s \in SUBSET T : SumStep(f, s, g) \in Nat
    BY PickSmaller DEF SumStep
  <2>3. h \in [SUBSET T -> Nat]
    BY <2>2
  <2>4. \A s \in SUBSET T : Cardinality(s) <= k => h[s] = g[s]
    OBVIOUS
  <2>5. \A s \in SUBSET T : h[s] = SumStep(f, s, g)
    BY <2>1
  <2> HIDE DEF h
  <2>6. ASSUME NEW s \in SUBSET T, Cardinality(s) <= k + 1
        PROVE  h[s] = SumStep(f, s, h)
    <3>1. CASE s = {}
      BY <2>5, <3>1 DEF SumStep
    <3>2. CASE s # {}
      <4>1. h[s \ {Pick(s)}] = g[s \ {Pick(s)}]
        BY <2>4, <2>6, <3>2, PickSmaller
      <4> QED
        BY <2>5, <4>1 DEF SumStep
    <3> QED
      BY <3>1, <3>2
  <2> QED
    BY <2>3, <2>6 DEF HasSums
<1>3. Bad = {}
  <2> SUFFICES ASSUME Bad # {} PROVE FALSE
    OBVIOUS
  <2>1. PICK k \in Bad : \A j \in Bad : k <= j
    BY HasLeast
  <2>2. k \in Nat /\ k # 0 /\ ~HasSums(f, T, k)
    BY <1>1
  <2>3. k - 1 \in Nat /\ k - 1 \notin Bad
    BY <2>1, <2>2
  <2>4. HasSums(f, T, k - 1)
    BY <2>3
  <2>5. HasSums(f, T, (k - 1) + 1)
    BY <1>2, <2>3, <2>4
  <2> QED
    BY <2>2, <2>5
<1> QED
  BY <1>3

\* So MapThenSumSet satisfies its equation.
LEMMA SumsEquation ==
  ASSUME NEW T, IsFiniteSet(T), NEW f \in [T -> Nat]
  PROVE  \A s \in SUBSET T : Sums(f, T)[s] = SumStep(f, s, Sums(f, T))
<1> DEFINE n == Cardinality(T)
<1>1. n \in Nat /\ \A s \in SUBSET T : Cardinality(s) <= n
  BY FS_CardinalityType, FS_Subset
<1> HIDE DEF n
<1>2. PICK g \in [SUBSET T -> Nat] : \A s \in SUBSET T :
               Cardinality(s) <= n => g[s] = SumStep(f, s, g)
  <2>1. HasSums(f, T, n)
    BY <1>1, SumsUpTo
  <2> QED
    BY <2>1 DEF HasSums
<1>3. g = [s \in SUBSET T |-> SumStep(f, s, g)]
  BY <1>1, <1>2
<1>4. Sums(f, T) = [s \in SUBSET T |-> SumStep(f, s, Sums(f, T))]
  BY <1>3, Zenon DEF Sums
<1> QED
  BY <1>4

LEMMA SumsNatural ==
  ASSUME NEW T, IsFiniteSet(T), NEW f \in [T -> Nat]
  PROVE  \A s \in SUBSET T : Sums(f, T)[s] \in Nat
<1> DEFINE Bad == {Cardinality(s) : s \in {r \in SUBSET T :
                                             Sums(f, T)[r] \notin Nat}}
<1>1. SUFFICES Bad = {}
  OBVIOUS
<1>2. SUFFICES ASSUME Bad # {} PROVE FALSE
  OBVIOUS
<1>3. Bad \subseteq Nat
  <2>1. \A r \in SUBSET T : Cardinality(r) \in Nat
    BY PickSmaller
  <2> QED
    BY <2>1
<1>4. PICK k \in Bad : \A j \in Bad : k <= j
  <2> HIDE DEF Bad
  <2> QED
    BY <1>2, <1>3, HasLeast
<1>5. PICK s \in SUBSET T : Sums(f, T)[s] \notin Nat /\ Cardinality(s) = k
  OBVIOUS
<1>6. s # {} /\ Sums(f, T)[s] = f[Pick(s)] + Sums(f, T)[s \ {Pick(s)}]
  BY <1>5, SumsEquation DEF SumStep
<1>7. /\ Pick(s) \in s /\ s \ {Pick(s)} \in SUBSET T
      /\ Cardinality(s \ {Pick(s)}) = k - 1 /\ k \in Nat
  BY <1>5, <1>6, PickSmaller
<1>8. Sums(f, T)[s \ {Pick(s)}] \in Nat
  <2>1. k - 1 \notin Bad
    BY <1>4, <1>7
  <2> QED
    BY <1>7, <2>1
<1> QED
  BY <1>5, <1>6, <1>7, <1>8

\* Adding to one number adds to the sum of every set that has it.
LEMMA SumsAdd ==
  ASSUME NEW T, IsFiniteSet(T), NEW f \in [T -> Nat], NEW t \in T,
         NEW a \in Nat, NEW h \in [T -> Nat],
         h[t] = f[t] + a, \A x \in T \ {t} : h[x] = f[x]
  PROVE  Sums(h, T)[T] = Sums(f, T)[T] + a
<1> DEFINE more(s) == IF t \in s THEN a ELSE 0
           Bad == {Cardinality(s) : s \in {r \in SUBSET T :
                      Sums(h, T)[r] # Sums(f, T)[r] + more(r)}}
<1>1. SUFFICES Bad = {}
  <2>1. Sums(h, T)[T] = Sums(f, T)[T] + more(T)
    BY <1>1
  <2> QED
    BY <2>1
<1>2. SUFFICES ASSUME Bad # {} PROVE FALSE
  OBVIOUS
<1>3. Bad \subseteq Nat
  <2>1. \A r \in SUBSET T : Cardinality(r) \in Nat
    BY PickSmaller
  <2> QED
    BY <2>1
<1>4. PICK k \in Bad : \A j \in Bad : k <= j
  <2> HIDE DEF Bad
  <2> QED
    BY <1>2, <1>3, HasLeast
<1>5. PICK s \in SUBSET T :
         Sums(h, T)[s] # Sums(f, T)[s] + more(s) /\ Cardinality(s) = k
  OBVIOUS
<1>6. s # {}
  BY <1>5, SumsEquation DEF SumStep
<1>7. /\ Pick(s) \in s /\ s \ {Pick(s)} \in SUBSET T
      /\ Cardinality(s \ {Pick(s)}) = k - 1 /\ k \in Nat
  BY <1>5, <1>6, PickSmaller
<1> DEFINE r == s \ {Pick(s)}
<1>8. Sums(h, T)[r] = Sums(f, T)[r] + more(r)
  <2>1. k - 1 \notin Bad
    BY <1>4, <1>7
  <2> QED
    BY <1>7, <2>1
<1>9. /\ Sums(h, T)[s] = h[Pick(s)] + Sums(h, T)[r]
      /\ Sums(f, T)[s] = f[Pick(s)] + Sums(f, T)[r]
  BY <1>6, SumsEquation DEF SumStep
<1>10. Sums(h, T)[r] \in Nat /\ Sums(f, T)[r] \in Nat
  BY <1>7, SumsNatural
<1>11. f[Pick(s)] \in Nat /\ h[Pick(s)] \in Nat
  BY <1>7
<1>12. CASE Pick(s) = t
  <2>1. more(s) = a /\ more(r) = 0 /\ h[Pick(s)] = f[Pick(s)] + a
    BY <1>7, <1>12
  <2> HIDE DEF more, r
  <2> QED
    BY <1>5, <1>8, <1>9, <1>10, <1>11, <2>1
<1>13. CASE Pick(s) # t
  <2>1. more(s) = more(r) /\ h[Pick(s)] = f[Pick(s)] /\ more(r) \in Nat
    BY <1>7, <1>13
  <2> HIDE DEF more, r
  <2> QED
    BY <1>5, <1>8, <1>9, <1>10, <1>11, <2>1
<1> QED
  BY <1>12, <1>13

\* MapThenSumSet as it is used for the sessions of a device.
LEMMA SumIsMapThenSum ==
  ASSUME NEW S, NEW T
  PROVE  MapThenSumSet(LAMBDA t : S[t].bytes, T)
            = Sums([t \in T |-> S[t].bytes], T)[T]
<1> DEFINE f == [t \in T |-> S[t].bytes]
           G(g) == [s \in SUBSET T |->
                      IF s = {} THEN 0 ELSE S[Pick(s)].bytes + g[s \ {Pick(s)}]]
<1>1. MapThenSumSet(LAMBDA t : S[t].bytes, T) = (CHOOSE g : g = G(g))[T]
  BY Zenon DEF MapThenSumSet, MapThenFoldSet, Pick
<1>2. ASSUME NEW g
      PROVE  G(g) = [s \in SUBSET T |-> SumStep(f, s, g)]
  <2>1. \A s \in SUBSET T : s # {} => f[Pick(s)] = S[Pick(s)].bytes
    BY DEF Pick
  <2> HIDE DEF f
  <2> QED
    BY <2>1 DEF SumStep
<1>3. (CHOOSE g : g = G(g))
         = (CHOOSE g : g = [s \in SUBSET T |-> SumStep(f, s, g)])
  <2> HIDE DEF f, G
  <2> QED
    BY <1>2, Zenon
<1> QED
  BY <1>1, <1>3 DEF Sums

-----------------------------------------------------------------------------
(* The traffic of a device *)

\* The types, without a bound on what is booked.
Loose ==
    /\ forwarded \in 0..MaxTraffic
    /\ client \in [counter : 0..MaxTraffic, token : Tokens,
                   waits : 0..MaxRequests]
    /\ sent \in 0..MaxRequests
    /\ requests \in Seq(Requests)
    /\ serving \in {"idle"} \cup Statements
    /\ session \in [Tokens -> [status : {"none", "active", "ended"},
                               bytes : Nat]]
    /\ ledger \in [device : Nat, hour : Nat, samples : Nat]
    /\ history \in [overlap : BOOLEAN, unanswered : BOOLEAN, failed : BOOLEAN]

\* Requests were sent by the client with a token it has or had, only the last
\* one can be waited for, and while nothing fails the one being served belongs
\* to an active session.
Queued ==
    /\ serving # "idle" => requests # <<>>
    /\ Len(requests) <= sent
    /\ \A k \in 1..Len(requests) : /\ requests[k].id <= sent
                                   /\ requests[k].token <= client.token
    /\ client.waits \in {0, sent}
    /\ client.counter <= forwarded
    /\ ~history.failed /\ serving # "idle" => IsActive(Request.token)

\* How many requests have been served, the one for which a statement was
\* executed included.
Slots(S) == sent - Len(requests) + (IF serving \in S THEN 1 ELSE 0)

\* Each request books at most MaxTraffic in each place.
Bounded ==
    /\ \A t \in Tokens :
          session[t].bytes
              <= MaxTraffic * Slots({"device", "hour", "sample", "answer"})
    /\ ledger.device <= MaxTraffic * Slots({"hour", "sample", "answer"})
    /\ ledger.hour <= MaxTraffic * Slots({"sample", "answer"})
    /\ ledger.samples <= MaxTraffic * Slots({"answer"})

\* What the request being served has brought the device so far, if nothing
\* failed.
Booked == IF serving \in {"hour", "sample", "answer"} THEN Request.amount ELSE 0

\* While every request is answered, there is at most the one the client waits
\* for, and what it has booked is still in the client's counter.
NoExcess ==
    ~history.unanswered =>
        /\ client.waits = 0 => requests = <<>>
        /\ client.waits # 0 => /\ Len(requests) = 1
                               /\ Request.id = client.waits
                               /\ Request.amount <= client.counter
        /\ ledger.device + client.counter <= forwarded + Booked

\* While nothing is forwarded during a heartbeat, the answer clears exactly
\* what its request has booked.
NoLoss ==
    ~history.overlap =>
        /\ \A k \in 1..Len(requests) :
              requests[k].id = client.waits
                  => requests[k].amount = client.counter
        /\ ~history.failed =>
              ledger.device + client.counter >= forwarded + Booked

SessionTotal == MapThenSumSet(LAMBDA t : session[t].bytes, Tokens)

\* What the device will be credited with, the session has already.
Covered ==
    ledger.device + (IF serving = "device" /\ IsActive(Request.token)
                     THEN Request.amount ELSE 0) <= SessionTotal

TrafficInv ==
    Loose /\ Queued /\ Bounded /\ NoExcess /\ NoLoss /\ Covered

LEMMA HeadTyped ==
  ASSUME Loose, requests # <<>>
  PROVE  /\ Request \in Requests /\ Request = requests[1]
         /\ Len(requests) \in Nat \ {0}
  BY DEF Loose, Request

LEMMA Types == ASSUME Loose
  PROVE  /\ forwarded \in Nat /\ client.counter \in Nat /\ sent \in Nat
         /\ ledger.device \in Nat /\ ledger.hour \in Nat
         /\ ledger.samples \in Nat
         /\ Len(requests) \in Nat
         /\ \A t \in Tokens : session[t].bytes \in Nat
  BY TrafficAssumption DEF Loose

LEMMA QueueTyped ==
  ASSUME Loose, NEW k \in 1..Len(requests)
  PROVE  /\ requests[k] \in Requests
         /\ requests[k].id \in Nat /\ requests[k].id # 0
         /\ requests[k].token \in Tokens
         /\ requests[k].amount \in 0..MaxTraffic
<1>1. requests[k] \in Requests
  BY DEF Loose
<1> QED
  BY <1>1, TrafficAssumption DEF Requests

LEMMA BookedTyped ==
  ASSUME Loose, Queued
  PROVE  Booked \in Nat
  BY HeadTyped, TrafficAssumption DEF Booked, Queued, Requests

\* What the sessions of the device show together.
Bytes == [t \in Tokens |-> session[t].bytes]

LEMMA TotalIsSum == SessionTotal = Sums(Bytes, Tokens)[Tokens]
  BY SumIsMapThenSum, Zenon DEF SessionTotal, Bytes

LEMMA SameBytes ==
  ASSUME Bytes' = Bytes
  PROVE  SessionTotal' = SessionTotal
<1>1. (SessionTotal = Sums(Bytes, Tokens)[Tokens])'
  BY TotalIsSum, PTL
<1> QED
  BY <1>1, TotalIsSum DEF Sums, SumStep
\* The client forwards.
LEMMA ForwardKeeps ==
  ASSUME TrafficInv, Forward
  PROVE  TrafficInv'
<1>0. /\ Booked \in Nat /\ forwarded \in Nat /\ client.counter \in Nat
      /\ ledger.device \in Nat
  BY BookedTyped, Types DEF TrafficInv
<1>1. /\ forwarded < MaxTraffic /\ forwarded' = forwarded + 1
      /\ client'.counter = client.counter + 1
      /\ client'.token = client.token /\ client'.waits = client.waits
      /\ history'.overlap = (history.overlap \/ client.waits # 0)
      /\ history'.unanswered = history.unanswered
      /\ history'.failed = history.failed
      /\ UNCHANGED <<sent, requests, serving, session, ledger>>
  BY DEF Forward, TrafficInv, Loose
<1>2. Booked' = Booked /\ Request' = Request
  BY <1>1 DEF Booked, Request
<1>3. Loose'
  <2>1. forwarded + 1 \in 0..MaxTraffic /\ client.counter + 1 \in 0..MaxTraffic
    BY <1>0, <1>1, TrafficAssumption DEF TrafficInv, Queued
  <2>2. client' = [client EXCEPT !.counter = client.counter + 1]
    BY DEF Forward
  <2>3. client' \in [counter : 0..MaxTraffic, token : Tokens,
                     waits : 0..MaxRequests]
    BY <2>1, <2>2 DEF TrafficInv, Loose
  <2>4. history' \in [overlap : BOOLEAN, unanswered : BOOLEAN,
                      failed : BOOLEAN]
    BY DEF Forward, TrafficInv, Loose
  <2> QED
    BY <1>1, <2>1, <2>3, <2>4 DEF TrafficInv, Loose
<1>4. Queued'
  BY <1>0, <1>1, <1>2 DEF TrafficInv, Queued, IsActive
<1>5. Bounded'
  BY <1>1 DEF TrafficInv, Bounded, Slots
<1>6. NoExcess'
  <2> SUFFICES ASSUME ~history.unanswered PROVE NoExcess'
    BY <1>1 DEF NoExcess
  <2>1. ledger.device + client.counter <= forwarded + Booked
    BY DEF TrafficInv, NoExcess
  <2>2. ledger'.device + client'.counter <= forwarded' + Booked'
    BY <1>0, <1>1, <1>2, <2>1
  <2>3. ASSUME client.waits # 0
        PROVE  Request.amount <= client.counter + 1
    <3>1. Len(requests) = 1 /\ Request.amount <= client.counter
      BY <2>3 DEF TrafficInv, NoExcess
    <3>2. Request.amount \in 0..MaxTraffic
      BY <3>1, QueueTyped DEF TrafficInv, Loose, Request
    <3> QED
      BY <1>0, <3>1, <3>2
  <2> QED
    BY <1>1, <1>2, <2>2, <2>3 DEF TrafficInv, NoExcess
<1>7. NoLoss'
  <2> SUFFICES ASSUME ~history.overlap, client.waits = 0 PROVE NoLoss'
    BY <1>1 DEF NoLoss
  <2>1. \A k \in 1..Len(requests) : requests[k].id # 0
    BY QueueTyped DEF TrafficInv
  <2>2. ~history.failed => ledger.device + client.counter >= forwarded + Booked
    BY DEF TrafficInv, NoLoss
  <2>3. ~history.failed
           => ledger'.device + client'.counter >= forwarded' + Booked'
    BY <1>0, <1>1, <1>2, <2>2
  <2> QED
    BY <1>1, <2>1, <2>3 DEF NoLoss
<1>8. Covered'
  <2>1. Bytes' = Bytes
    BY <1>1 DEF Bytes
  <2> QED
    BY <1>1, <1>2, <2>1, SameBytes DEF TrafficInv, Covered, IsActive
<1> QED
  BY <1>3, <1>4, <1>5, <1>6, <1>7, <1>8 DEF TrafficInv

\* A request is sent.
LEMMA SendKeeps ==
  ASSUME TrafficInv, NEW kind \in {"heartbeat", "statistics"}, Send(kind)
  PROVE  TrafficInv'
<1> DEFINE r == [id |-> sent + 1, token |-> client.token,
                 amount |-> client.counter, kind |-> kind]
           n == Len(requests)
<1>0. /\ Booked \in Nat /\ forwarded \in Nat /\ client.counter \in Nat
      /\ ledger.device \in Nat /\ sent \in Nat /\ n \in Nat
      /\ requests \in Seq(Requests)
  BY BookedTyped, Types DEF TrafficInv, Loose
<1>1. r \in Requests /\ sent + 1 \in 0..MaxRequests
  BY TrafficAssumption DEF Send, TrafficInv, Loose, Requests
<1>2. /\ requests' = Append(requests, r) /\ sent' = sent + 1
      /\ client.waits = 0 /\ client'.waits = sent + 1
      /\ client'.counter = client.counter /\ client'.token = client.token
      /\ UNCHANGED <<forwarded, serving, session, ledger, history>>
  BY DEF Send, TrafficInv, Loose
<1>3. /\ Len(requests') = n + 1 /\ requests'[n + 1] = r
      /\ \A k \in 1..n : requests'[k] = requests[k]
      /\ requests' \in Seq(Requests)
  BY <1>0, <1>1, <1>2
<1>4. requests # <<>> => Request' = Request
  BY <1>0, <1>3, HeadTyped DEF Request, TrafficInv
<1>5. Booked' = Booked
  BY <1>2, <1>4 DEF TrafficInv, Queued, Booked
<1>6. r.id = sent + 1 /\ r.token = client.token /\ r.amount = client.counter
  OBVIOUS
<1> HIDE DEF r
<1>7. Loose'
  BY <1>1, <1>2, <1>3 DEF Send, TrafficInv, Loose
<1>8. Queued'
  <2>1. \A k \in 1..(n + 1) : /\ requests'[k].id <= sent + 1
                              /\ requests'[k].token <= client.token
    <3> SUFFICES ASSUME NEW k \in 1..(n + 1)
                 PROVE  /\ requests'[k].id <= sent + 1
                        /\ requests'[k].token <= client.token
      OBVIOUS
    <3>1. client.token \in Nat
      BY DEF TrafficInv, Loose, Tokens
    <3>2. CASE k = n + 1
      BY <1>0, <1>3, <1>6, <3>1, <3>2
    <3>3. CASE k \in 1..n
      <4>1. requests[k].id \in Nat /\ requests[k].id <= sent
        BY <3>3, QueueTyped DEF TrafficInv, Queued
      <4> QED
        BY <1>0, <1>3, <3>3, <4>1 DEF TrafficInv, Queued
    <3> QED
      BY <1>0, <3>2, <3>3
  <2> QED
    BY <1>0, <1>2, <1>3, <1>4, <2>1 DEF TrafficInv, Queued, IsActive
<1>9. Bounded'
  <2>1. \A S : (Slots(S))' = Slots(S)
    BY <1>0, <1>2, <1>3 DEF Slots
  <2> QED
    BY <1>2, <2>1 DEF TrafficInv, Bounded
<1>10. NoExcess'
  <2> SUFFICES ASSUME ~history.unanswered PROVE NoExcess'
    BY <1>2 DEF NoExcess
  <2>1. requests = <<>> /\ n = 0
    BY <1>2 DEF TrafficInv, NoExcess
  <2>2. Len(requests') = 1 /\ Request' = r
    BY <1>3, <2>1 DEF Request
  <2> QED
    BY <1>0, <1>2, <1>5, <1>6, <2>2 DEF TrafficInv, NoExcess
<1>11. NoLoss'
  <2>1. \A k \in 1..n : requests[k].id # sent + 1
    BY <1>0 DEF TrafficInv, Queued
  <2> QED
    BY <1>0, <1>2, <1>3, <1>5, <1>6, <2>1 DEF TrafficInv, NoLoss
<1>12. Covered'
  <2>1. Bytes' = Bytes
    BY <1>2 DEF Bytes
  <2> QED
    BY <1>2, <1>4, <2>1, SameBytes DEF TrafficInv, Covered, IsActive, Queued
<1> QED
  BY <1>7, <1>8, <1>9, <1>10, <1>11, <1>12 DEF TrafficInv

LEMMA TokensFinite == IsFiniteSet(Tokens)
  BY FS_Interval, TrafficAssumption DEF Tokens

LEMMA TotalTyped ==
  ASSUME Loose
  PROVE  SessionTotal \in Nat /\ Bytes \in [Tokens -> Nat]
<1>1. Bytes \in [Tokens -> Nat]
  BY DEF Loose, Bytes
<1> QED
  BY <1>1, TotalIsSum, TokensFinite, SumsNatural

\* The number of requests served only grows, and with it what may be booked.
LEMMA MoreRoom ==
  ASSUME NEW a \in Nat, NEW b \in Nat, a <= b, NEW n \in Nat,
         n <= MaxTraffic * a
  PROVE  n <= MaxTraffic * b
<1>1. PICK c \in Nat : b = a + c
  <2>1. b - a \in Nat /\ b = a + (b - a)
    OBVIOUS
  <2> QED
    BY <2>1
<1>2. MaxTraffic * b = MaxTraffic * a + MaxTraffic * c
  BY <1>1, TrafficAssumption
<1>3. MaxTraffic * c \in Nat /\ MaxTraffic * a \in Nat
  BY TrafficAssumption
<1> QED
  BY <1>2, <1>3

LEMMA OneMore ==
  ASSUME NEW a \in Nat, NEW n \in Nat, NEW m \in 0..MaxTraffic,
         n <= MaxTraffic * a
  PROVE  n + m <= MaxTraffic * (a + 1)
<1>1. MaxTraffic * (a + 1) = MaxTraffic * a + MaxTraffic
  BY TrafficAssumption
<1>2. MaxTraffic * a \in Nat
  BY TrafficAssumption
<1> QED
  BY <1>1, <1>2, TrafficAssumption

LEMMA SlotsTyped ==
  ASSUME Loose, Queued, NEW S
  PROVE  Slots(S) \in Nat
  BY Types DEF Queued, Slots

LEMMA BoundedStays ==
  ASSUME Loose, Queued, Loose', Queued', Bounded,
         \A S : Slots(S) <= (Slots(S))',
         UNCHANGED ledger, Bytes' = Bytes
  PROVE  Bounded'
<1>1. \A S : Slots(S) \in Nat
  BY SlotsTyped
<1>2. \A S : (Slots(S))' \in Nat
  <2>1. sent' \in Nat /\ Len(requests') \in Nat /\ Len(requests') <= sent'
    BY TrafficAssumption DEF Loose, Queued
  <2> QED
    BY <2>1 DEF Slots
<1>3. /\ ledger.device \in Nat /\ ledger.hour \in Nat
      /\ ledger.samples \in Nat
      /\ \A t \in Tokens : session[t].bytes \in Nat
  BY Types
<1>4. \A t \in Tokens : session'[t].bytes = session[t].bytes
  BY DEF Bytes
<1>5. ASSUME NEW S, NEW n \in Nat, n <= MaxTraffic * Slots(S)
      PROVE  n <= MaxTraffic * (Slots(S))'
  <2> DEFINE a == Slots(S)
             b == (Slots(S))'
  <2>1. a \in Nat /\ b \in Nat /\ a <= b /\ n <= MaxTraffic * a
    BY <1>1, <1>2, <1>5
  <2> HIDE DEF a, b
  <2>2. n <= MaxTraffic * b
    BY <2>1, MoreRoom
  <2> QED
    BY <2>2 DEF b
<1> QED
  BY <1>3, <1>4, <1>5 DEF Bounded

LEMMA TailFacts ==
  ASSUME Loose, requests # <<>>, requests' = Tail(requests)
  PROVE  /\ Len(requests) \in Nat \ {0} /\ Len(requests') = Len(requests) - 1
         /\ \A k \in 1..Len(requests') :
               k + 1 \in 1..Len(requests) /\ requests'[k] = requests[k + 1]
         /\ requests' \in Seq(Requests)
  BY DEF Loose

\* The answer: "ok" after the last statement, an error before the first.
LEMMA AnswerKeeps ==
  ASSUME TrafficInv, NEW ok \in BOOLEAN, Answer(ok), requests # <<>>,
         ok => serving = "answer", ~ok => serving = "idle",
         UNCHANGED <<forwarded, sent, session, ledger, history>>
  PROVE  TrafficInv'
<1> DEFINE n == Len(requests)
<1>0. /\ forwarded \in Nat /\ client.counter \in Nat /\ sent \in Nat
      /\ ledger.device \in Nat /\ n \in Nat \ {0}
      /\ Request = requests[1] /\ 1 \in 1..n /\ Request.amount \in Nat
      /\ Request.id \in Nat /\ Request.id # 0
  BY Types, HeadTyped, QueueTyped DEF TrafficInv
<1>1. /\ Len(requests') = n - 1 /\ requests' \in Seq(Requests)
      /\ \A k \in 1..Len(requests') :
            k + 1 \in 1..n /\ requests'[k] = requests[k + 1]
      /\ serving' = "idle"
  BY TailFacts DEF Answer, TrafficInv
<1>2. /\ client'.token = client.token
      /\ client'.waits = IF client.waits = Request.id THEN 0 ELSE client.waits
      /\ client'.counter = IF client.waits = Request.id /\ ok THEN 0
                           ELSE client.counter
      /\ client' \in [counter : 0..MaxTraffic, token : Tokens,
                      waits : 0..MaxRequests]
  <2>1. CASE client.waits = Request.id
    <3>1. PICK c : /\ c = IF ok THEN 0 ELSE client.counter
                   /\ client' = [client EXCEPT !.waits = 0, !.counter = c]
      BY <2>1 DEF Answer
    <3>2. c \in 0..MaxTraffic
      BY <3>1, TrafficAssumption DEF TrafficInv, Loose
    <3>3. /\ client'.counter = c /\ client'.waits = 0
          /\ client'.token = client.token
      BY <3>1 DEF TrafficInv, Loose
    <3>4. client' \in [counter : 0..MaxTraffic, token : Tokens,
                       waits : 0..MaxRequests]
      <4> DEFINE half == [client EXCEPT !.waits = 0]
                 C == [counter : 0..MaxTraffic, token : Tokens,
                       waits : 0..MaxRequests]
      <4>1. 0 \in 0..MaxRequests
        BY TrafficAssumption
      <4>2. half \in C
        BY <4>1 DEF TrafficInv, Loose
      <4>3. client' = [half EXCEPT !.counter = c]
        BY <3>1, Zenon
      <4> HIDE DEF half
      <4> QED
        BY <3>2, <4>2, <4>3
    <3> QED
      BY <2>1, <3>1, <3>3, <3>4
  <2>2. CASE client.waits # Request.id
    BY <2>2 DEF Answer, TrafficInv, Loose
  <2> QED
    BY <2>1, <2>2
<1>3. Booked = IF ok THEN Request.amount ELSE 0
  BY DEF Booked
<1>4. Booked' = 0
  BY <1>1 DEF Booked
<1>5. Loose'
  BY <1>1, <1>2 DEF TrafficInv, Loose, Statements
<1>6. Queued'
  <2>1. \A k \in 1..Len(requests') : /\ requests'[k].id <= sent
                                     /\ requests'[k].token <= client.token
    BY <1>1 DEF TrafficInv, Queued
  <2>2. n - 1 <= sent
    BY <1>0 DEF TrafficInv, Queued
  <2> QED
    BY <1>0, <1>1, <1>2, <2>1, <2>2 DEF TrafficInv, Queued
<1>7. Bounded'
  <2>1. \A S : Slots(S) <= (Slots(S))'
    BY <1>0, <1>1 DEF Slots
  <2>2. Bytes' = Bytes
    BY DEF Bytes
  <2> QED
    BY <1>5, <1>6, <2>1, <2>2, BoundedStays DEF TrafficInv
<1>8. NoExcess'
  <2> SUFFICES ASSUME ~history.unanswered PROVE NoExcess'
    BY DEF NoExcess
  <2>1. /\ n = 1 /\ Request.id = client.waits
        /\ Request.amount <= client.counter
        /\ ledger.device + client.counter <= forwarded + Booked
    BY DEF TrafficInv, NoExcess
  <2>2. requests' = <<>> /\ client'.waits = 0
    BY <1>0, <1>1, <1>2, <2>1
  <2>3. ledger.device + client'.counter <= forwarded
    BY <1>0, <1>2, <1>3, <2>1
  <2> QED
    BY <1>0, <1>4, <2>2, <2>3 DEF NoExcess
<1>9. NoLoss'
  <2> SUFFICES ASSUME ~history.overlap PROVE NoLoss'
    BY DEF NoLoss
  <2>1. ASSUME NEW k \in 1..Len(requests'), requests'[k].id = client'.waits
        PROVE  requests'[k].amount = client'.counter
    <3>1. requests[k + 1].id # 0 /\ k + 1 \in 1..n
          /\ requests'[k] = requests[k + 1]
      BY <1>1, QueueTyped DEF TrafficInv
    <3>2. client.waits # Request.id
      BY <1>2, <2>1, <3>1
    <3> QED
      BY <1>2, <2>1, <3>1, <3>2 DEF TrafficInv, NoLoss
  <2>2. ASSUME ~history.failed
        PROVE  ledger.device + client'.counter >= forwarded
    <3>1. ledger.device + client.counter >= forwarded + Booked
      BY <2>2 DEF TrafficInv, NoLoss
    <3>2. client.waits = Request.id => Request.amount = client.counter
      BY <1>0 DEF TrafficInv, NoLoss
    <3> QED
      BY <1>0, <1>2, <1>3, <3>1, <3>2
  <2> QED
    BY <1>0, <1>4, <2>1, <2>2 DEF NoLoss
<1>10. Covered'
  <2>1. Bytes' = Bytes
    BY DEF Bytes
  <2>2. ledger.device <= SessionTotal
    BY <1>0, TotalTyped DEF TrafficInv, Covered
  <2> QED
    BY <1>0, <1>1, <2>1, <2>2, SameBytes DEF Covered
<1> QED
  BY <1>5, <1>6, <1>7, <1>8, <1>9, <1>10 DEF TrafficInv

\* No answer in time.
LEMMA TimeoutKeeps ==
  ASSUME TrafficInv, NEW lost \in BOOLEAN, Timeout(lost)
  PROVE  TrafficInv'
<1> DEFINE n == Len(requests)
<1>0. /\ forwarded \in Nat /\ client.counter \in Nat /\ sent \in Nat
      /\ ledger.device \in Nat /\ n \in Nat /\ Booked \in Nat
  BY Types, BookedTyped DEF TrafficInv
<1>1. /\ client'.token = client.token /\ client'.waits = 0
      /\ client'.counter = client.counter
      /\ client' \in [counter : 0..MaxTraffic, token : Tokens,
                      waits : 0..MaxRequests]
      /\ client.waits # 0
      /\ UNCHANGED <<forwarded, sent, serving, session, ledger>>
  <2>1. /\ client' = [client EXCEPT !.waits = 0] /\ client.waits # 0
        /\ UNCHANGED <<forwarded, sent, serving, session, ledger>>
    BY DEF Timeout
  <2>2. 0 \in 0..MaxRequests
    BY TrafficAssumption
  <2>3. client \in [counter : 0..MaxTraffic, token : Tokens,
                    waits : 0..MaxRequests]
    BY DEF TrafficInv, Loose
  <2> QED
    BY <2>1, <2>2, <2>3
<1>2. /\ history'.overlap = history.overlap
      /\ history'.failed = history.failed
      /\ ~history'.unanswered => ~history.unanswered /\ lost
      /\ history' \in [overlap : BOOLEAN, unanswered : BOOLEAN,
                       failed : BOOLEAN]
  <2>1. /\ history' = [history EXCEPT !.unanswered = @ \/ ~lost]
        /\ history \in [overlap : BOOLEAN, unanswered : BOOLEAN, failed : BOOLEAN]
    BY DEF Timeout, TrafficInv, Loose
  <2> QED
    BY <2>1
<1>3. /\ requests' \in Seq(Requests)
      /\ Len(requests') = IF lost THEN n - 1 ELSE n
      /\ lost => n > 0
      /\ \A k \in 1..Len(requests') :
            k \in 1..n /\ requests'[k] = requests[k]
  <2>1. /\ requests \in Seq(Requests)
        /\ requests' = IF lost THEN SubSeq(requests, 1, n - 1) ELSE requests
        /\ lost => n > 0
    BY DEF Timeout, TrafficInv, Loose
  <2> QED
    BY <1>0, <2>1
<1>4. serving # "idle" =>
         Len(requests') # 0 /\ requests' # <<>> /\ Request' = Request
  <2> SUFFICES ASSUME serving # "idle"
               PROVE  /\ Len(requests') # 0 /\ requests' # <<>>
                      /\ Request' = Request
    OBVIOUS
  <2>1. requests # <<>> /\ Request = requests[1] /\ n # 0
    BY HeadTyped DEF TrafficInv, Queued
  <2>2. lost => n # 1
    BY DEF Timeout
  <2>3. Len(requests') # 0 /\ 1 \in 1..Len(requests')
    <3> DEFINE m == Len(requests')
    <3>1. n \in Nat /\ n # 0 /\ m = IF lost THEN n - 1 ELSE n
      BY <1>0, <1>3, <2>1
    <3> HIDE DEF n, m
    <3>2. m # 0 /\ 1 \in 1..m
      BY <2>2, <3>1
    <3> QED
      BY <3>2 DEF m
  <2>4. requests' # <<>>
    BY <2>3
  <2>5. Request' = requests'[1]
    BY <1>3, <2>4 DEF Request
  <2> QED
    BY <1>3, <2>1, <2>3, <2>4, <2>5
<1>5. Booked' = Booked
  BY <1>1, <1>4 DEF Booked
<1>6. Loose'
  BY <1>1, <1>2, <1>3 DEF TrafficInv, Loose
<1>7. Queued'
  BY <1>0, <1>1, <1>2, <1>3, <1>4 DEF TrafficInv, Queued, IsActive
<1>8. Bounded'
  <2>1. \A S : Slots(S) <= (Slots(S))'
    BY <1>0, <1>1, <1>3 DEF Slots
  <2>2. Bytes' = Bytes
    BY <1>1 DEF Bytes
  <2> QED
    BY <1>1, <1>6, <1>7, <2>1, <2>2, BoundedStays DEF TrafficInv
<1>9. NoExcess'
  <2> SUFFICES ASSUME ~history.unanswered, lost PROVE NoExcess'
    BY <1>2 DEF NoExcess
  <2>1. n = 1 /\ ledger.device + client.counter <= forwarded + Booked
    BY <1>1 DEF TrafficInv, NoExcess
  <2>2. requests' = <<>>
    BY <1>3, <2>1
  <2> QED
    BY <1>1, <1>5, <2>1, <2>2 DEF NoExcess
<1>10. NoLoss'
  <2>1. \A k \in 1..Len(requests') : requests'[k].id # 0
    BY <1>3, QueueTyped DEF TrafficInv
  <2> QED
    BY <1>1, <1>2, <1>5, <2>1 DEF TrafficInv, NoLoss
<1>11. Covered'
  <2>1. Bytes' = Bytes
    BY <1>1 DEF Bytes
  <2> QED
    BY <1>1, <1>4, <2>1, SameBytes DEF TrafficInv, Covered, IsActive
<1> QED
  BY <1>6, <1>7, <1>8, <1>9, <1>10, <1>11 DEF TrafficInv

-----------------------------------------------------------------------------
(* The statements of the control thread *)

\* What may be booked with b statements executed, if it was a before.
LEMMA Room ==
  ASSUME NEW a \in Nat, NEW b \in Nat, NEW n \in Nat, NEW k \in Nat,
         n <= MaxTraffic * a,
         \/ k = n /\ a <= b
         \/ b = a + 1 /\ \E m \in 0..MaxTraffic : k = n + m
  PROVE  k <= MaxTraffic * b
<1>1. CASE k = n /\ a <= b
  BY <1>1, MoreRoom
<1>2. CASE b = a + 1 /\ \E m \in 0..MaxTraffic : k = n + m
  <2>1. PICK m \in 0..MaxTraffic : k = n + m
    BY <1>2
  <2>2. n + m <= MaxTraffic * (a + 1)
    BY OneMore
  <2> QED
    BY <1>2, <2>1, <2>2
<1> QED
  BY <1>1, <1>2

\* Whatever a statement adds to, these are the conjuncts it leaves alone.
LEMMA StatementKeeps ==
  ASSUME TrafficInv, NEW fails \in BOOLEAN, serving # "idle",
         serving' \in Statements,
         UNCHANGED <<forwarded, client, sent, requests>>,
         history' = [history EXCEPT !.failed = @ \/ fails],
         Loose', Bounded', Covered',
         \A t \in Tokens : session'[t].status = session[t].status,
         ledger'.device + Booked <= ledger.device + Booked',
         ~fails /\ IsActive(Request.token)
            => ledger'.device + Booked = ledger.device + Booked'
  PROVE  TrafficInv'
<1>0. /\ forwarded \in Nat /\ client.counter \in Nat /\ ledger.device \in Nat
      /\ Booked \in Nat
  BY Types, BookedTyped DEF TrafficInv
<1>1. requests # <<>> /\ Request \in Requests /\ Request' = Request
  BY HeadTyped DEF TrafficInv, Queued, Request
<1>2. Request.amount \in Nat /\ Request.token \in Tokens
  BY <1>1, TrafficAssumption DEF Requests
<1>3. ledger'.device \in Nat /\ Booked' \in Nat
  BY <1>1, <1>2 DEF Loose, Booked
<1>4. /\ history'.overlap = history.overlap
      /\ history'.unanswered = history.unanswered
      /\ history'.failed = (history.failed \/ fails)
  BY DEF TrafficInv, Loose
<1>5. (IsActive(Request.token))' <=> IsActive(Request.token)
  BY <1>1, <1>2 DEF IsActive
<1>6. Queued'
  BY <1>1, <1>4, <1>5 DEF TrafficInv, Queued
<1>7. NoExcess'
  <2> SUFFICES ASSUME ~history.unanswered PROVE NoExcess'
    BY <1>4 DEF NoExcess
  <2>1. ledger.device + client.counter <= forwarded + Booked
    BY DEF TrafficInv, NoExcess
  <2>2. ledger'.device + client.counter <= forwarded + Booked'
    BY <1>0, <1>3, <2>1
  <2> QED
    BY <1>1, <2>2 DEF TrafficInv, NoExcess
<1>8. NoLoss'
  <2> SUFFICES ASSUME ~history.overlap PROVE NoLoss'
    BY <1>4 DEF NoLoss
  <2>1. ASSUME ~history'.failed
        PROVE  ledger'.device + client.counter >= forwarded + Booked'
    <3>1. ~history.failed /\ ~fails
      BY <1>4, <2>1
    <3>2. IsActive(Request.token)
      BY <3>1 DEF TrafficInv, Queued
    <3>3. ledger.device + client.counter >= forwarded + Booked
      BY <3>1 DEF TrafficInv, NoLoss
    <3>4. ledger'.device + Booked = ledger.device + Booked'
      BY <3>1, <3>2
    <3> QED
      BY <1>0, <1>3, <3>3, <3>4
  <2> QED
    BY <2>1 DEF TrafficInv, NoLoss
<1> QED
  BY <1>6, <1>7, <1>8 DEF TrafficInv

\* What the steps below know of the request being served.
LEMMA Served ==
  ASSUME TrafficInv, serving # "idle"
  PROVE  /\ requests # <<>> /\ Request.amount \in 0..MaxTraffic
         /\ Request.amount \in Nat /\ Request.token \in Tokens
         /\ sent - Len(requests) \in Nat
<1>1. requests # <<>>
  BY DEF TrafficInv, Queued
<1>2. Request \in Requests
  BY <1>1, HeadTyped DEF TrafficInv
<1>3. Request.amount \in 0..MaxTraffic /\ Request.token \in Tokens
  BY <1>2 DEF Requests
<1>4. sent - Len(requests) \in Nat
  BY Types DEF TrafficInv, Queued
<1> QED
  BY <1>1, <1>3, <1>4, TrafficAssumption

\* update_device_statistics, first statement.
LEMMA AddToSessionKeeps ==
  ASSUME TrafficInv, NEW fails \in BOOLEAN, AddToSession(fails)
  PROVE  TrafficInv'
<1> DEFINE m == Request.amount
           adds == ~fails /\ IsActive(Request.token)
           base == sent - Len(requests)
<1>0. /\ serving = "session"
      /\ UNCHANGED <<forwarded, client, sent, requests, ledger>>
      /\ history' = [history EXCEPT !.failed = @ \/ fails]
      /\ serving' \in {"device", "hour", "answer"}
      /\ serving' = "device" => ~fails
      /\ fails => serving' # "device"
  BY DEF AddToSession
<1>1. /\ requests # <<>> /\ m \in 0..MaxTraffic /\ m \in Nat
      /\ Request.token \in Tokens /\ base \in Nat
  BY <1>0, Served
<1>2. Request' = Request
  BY <1>0 DEF Request
<1>3. /\ ledger.device \in Nat /\ ledger.hour \in Nat /\ ledger.samples \in Nat
      /\ \A t \in Tokens : session[t].bytes \in Nat
  BY Types DEF TrafficInv
<1>4. session' = IF adds
                 THEN [session EXCEPT ![Request.token].bytes = @ + m]
                 ELSE session
  BY DEF AddToSession
<1>5. /\ \A t \in Tokens : session'[t].status = session[t].status
      /\ \A t \in Tokens :
            session'[t].bytes = IF adds /\ t = Request.token
                                THEN session[t].bytes + m ELSE session[t].bytes
      /\ session' \in [Tokens -> [status : {"none", "active", "ended"},
                                  bytes : Nat]]
  <2> DEFINE row == [session[Request.token] EXCEPT
                       !.bytes = session[Request.token].bytes + m]
             R == [status : {"none", "active", "ended"}, bytes : Nat]
  <2>1. session \in [Tokens -> R]
    BY DEF TrafficInv, Loose
  <2>2. CASE ~adds
    BY <1>3, <1>4, <2>1, <2>2
  <2>3. CASE adds
    <3>1. session[Request.token].bytes + m \in Nat
      BY <1>1, <1>3
    <3>2. /\ row \in R /\ row.status = session[Request.token].status
          /\ row.bytes = session[Request.token].bytes + m
      BY <1>1, <2>1, <3>1
    <3>3. session' = [session EXCEPT ![Request.token] = row]
      BY <1>4, <2>3, Zenon
    <3> HIDE DEF row, m, adds
    <3> QED
      BY <1>1, <2>1, <2>3, <3>2, <3>3
  <2> QED
    BY <2>2, <2>3
<1> HIDE DEF adds
<1>6. Loose'
  <2>1. history' \in [overlap : BOOLEAN, unanswered : BOOLEAN,
                      failed : BOOLEAN]
    BY <1>0 DEF TrafficInv, Loose
  <2> QED
    BY <1>0, <1>5, <2>1 DEF TrafficInv, Loose, Statements
<1>7. Bounded'
  <2> DEFINE S1 == {"device", "hour", "sample", "answer"}
             S2 == {"hour", "sample", "answer"}
             S3 == {"sample", "answer"}
             S4 == {"answer"}
  <2>1. /\ Slots(S1) = base /\ Slots(S2) = base /\ Slots(S3) = base
        /\ Slots(S4) = base
    BY <1>0, <1>1 DEF Slots
  <2>2. /\ (Slots(S1))' = base + 1
        /\ (Slots(S2))' \in {base, base + 1}
        /\ (Slots(S3))' \in {base, base + 1}
        /\ (Slots(S4))' \in {base, base + 1}
    BY <1>0, <1>1 DEF Slots
  <2>3. ASSUME NEW t \in Tokens
        PROVE  session'[t].bytes <= MaxTraffic * (base + 1)
    <3> DEFINE n == session[t].bytes
               k == session'[t].bytes
    <3>1. n \in Nat /\ k \in Nat /\ n <= MaxTraffic * base
      BY <1>1, <1>3, <1>5, <2>1 DEF TrafficInv, Bounded
    <3>2. k = n \/ \E x \in 0..MaxTraffic : k = n + x
      BY <1>1, <1>5
    <3> HIDE DEF n, k, base
    <3>3. k <= MaxTraffic * (base + 1)
      BY <1>1, <3>1, <3>2, Room
    <3> QED
      BY <3>3 DEF k
  <2>4. ASSUME NEW n \in Nat, n <= MaxTraffic * base, NEW b,
               b \in {base, base + 1}
        PROVE  n <= MaxTraffic * b
    <3> HIDE DEF base
    <3>1. b \in Nat /\ base <= b
      BY <1>1, <2>4
    <3> QED
      BY <1>1, <2>4, <3>1, MoreRoom
  <2>5. /\ ledger.device <= MaxTraffic * base
        /\ ledger.hour <= MaxTraffic * base
        /\ ledger.samples <= MaxTraffic * base
    BY <2>1 DEF TrafficInv, Bounded
  <2>6. /\ ledger.device <= MaxTraffic * (Slots(S2))'
        /\ ledger.hour <= MaxTraffic * (Slots(S3))'
        /\ ledger.samples <= MaxTraffic * (Slots(S4))'
    BY <1>3, <2>2, <2>4, <2>5
  <2> QED
    BY <1>0, <2>2, <2>3, <2>6 DEF Bounded
<1>8. Covered'
  <2>1. ledger.device <= SessionTotal /\ SessionTotal \in Nat
    BY <1>0, <1>3, TotalTyped DEF TrafficInv, Covered
  <2>2. CASE ~adds
    <3>1. Bytes' = Bytes
      BY <1>5, <2>2 DEF Bytes
    <3>2. ~(serving' = "device" /\ IsActive(Request.token)')
      BY <1>0, <1>1, <1>2, <1>5, <2>2 DEF IsActive, adds
    <3> QED
      BY <1>0, <1>3, <2>1, <3>1, <3>2, SameBytes DEF Covered
  <2>3. CASE adds
    <3>1. /\ Bytes \in [Tokens -> Nat]
          /\ Bytes' \in [Tokens -> Nat]
          /\ Bytes'[Request.token] = Bytes[Request.token] + m
          /\ \A x \in Tokens \ {Request.token} : Bytes'[x] = Bytes[x]
      BY <1>1, <1>3, <1>5, <2>3 DEF Bytes
    <3>2. Sums(Bytes', Tokens)[Tokens] = Sums(Bytes, Tokens)[Tokens] + m
      <4>1. PICK f, h, t, a : /\ f = Bytes /\ h = Bytes' /\ a = m
                              /\ t = Request.token
        OBVIOUS
      <4>2. /\ f \in [Tokens -> Nat] /\ h \in [Tokens -> Nat] /\ a \in Nat
            /\ t \in Tokens /\ h[t] = f[t] + a
            /\ \A x \in Tokens \ {t} : h[x] = f[x]
        BY <1>1, <3>1, <4>1
      <4>3. Sums(h, Tokens)[Tokens] = Sums(f, Tokens)[Tokens] + a
        BY <4>2, TokensFinite, SumsAdd
      <4> QED
        BY <4>1, <4>3
    <3>3. (SessionTotal = Sums(Bytes, Tokens)[Tokens])'
      BY TotalIsSum, PTL
    <3>4. SessionTotal' = SessionTotal + m
      BY <3>2, <3>3, TotalIsSum DEF Sums, SumStep
    <3>5. m' = m
      BY <1>2
    <3> QED
      BY <1>0, <1>1, <1>3, <2>1, <3>4, <3>5 DEF Covered
  <2> QED
    BY <2>2, <2>3
<1>9. /\ ledger'.device + Booked <= ledger.device + Booked'
      /\ ~fails /\ IsActive(Request.token)
            => ledger'.device + Booked = ledger.device + Booked'
  <2>1. Booked = 0 /\ (~fails => serving' = "device")
    BY <1>0 DEF Booked, AddToSession
  <2>2. Booked' \in Nat /\ (serving' = "device" => Booked' = 0)
    BY <1>1, <1>2 DEF Booked
  <2> QED
    BY <1>0, <1>3, <2>1, <2>2
<1> QED
  <2>1. serving # "idle" /\ serving' \in Statements
    BY <1>0 DEF Statements
  <2> QED
    BY <1>0, <1>5, <1>6, <1>7, <1>8, <1>9, <2>1, StatementKeeps

\* A sum n for which the statements in S count becomes k.
Fits(n, k, S) ==
    \/ k = n /\ (serving \in S => serving' \in S)
    \/ /\ serving \notin S /\ serving' \in S
       /\ \E x \in 0..MaxTraffic : k = n + x

\* A statement that leaves the sessions alone adds at most MaxTraffic to one
\* sum, and counts as a further one there.
LEMMA LedgerBounded ==
  ASSUME TrafficInv, UNCHANGED <<sent, requests, session>>, Loose',
         serving # "idle",
         serving \in {"device", "hour", "sample", "answer"},
         serving' \in {"device", "hour", "sample", "answer"},
         Fits(ledger.device, ledger'.device, {"hour", "sample", "answer"}),
         Fits(ledger.hour, ledger'.hour, {"sample", "answer"}),
         Fits(ledger.samples, ledger'.samples, {"answer"})
  PROVE  Bounded'
<1> DEFINE base == sent - Len(requests)
<1>1. base \in Nat
  BY Served
<1>2. /\ ledger.device \in Nat /\ ledger.hour \in Nat /\ ledger.samples \in Nat
      /\ ledger'.device \in Nat /\ ledger'.hour \in Nat
      /\ ledger'.samples \in Nat
  BY DEF TrafficInv, Loose
<1>3. ASSUME NEW S
      PROVE  /\ Slots(S) = base + (IF serving \in S THEN 1 ELSE 0)
             /\ (Slots(S))' = base + (IF serving' \in S THEN 1 ELSE 0)
  BY DEF Slots
<1>4. ASSUME NEW S, NEW n \in Nat, NEW k \in Nat, Fits(n, k, S),
             n <= MaxTraffic * Slots(S)
      PROVE  k <= MaxTraffic * (Slots(S))'
  <2> DEFINE a == base + (IF serving \in S THEN 1 ELSE 0)
             b == base + (IF serving' \in S THEN 1 ELSE 0)
  <2>1. a \in Nat /\ b \in Nat
    BY <1>1
  <2>2. n <= MaxTraffic * a
    BY <1>3, <1>4
  <2>3. \/ k = n /\ a <= b
        \/ b = a + 1 /\ \E m \in 0..MaxTraffic : k = n + m
    <3> HIDE DEF base
    <3> QED
      BY <1>1, <1>4 DEF Fits
  <2> HIDE DEF a, b
  <2>4. k <= MaxTraffic * b
    BY <2>1, <2>2, <2>3, Room
  <2> QED
    BY <1>3, <2>4 DEF b
<1>5. \A t \in Tokens :
         session'[t].bytes
            <= MaxTraffic * (Slots({"device", "hour", "sample", "answer"}))'
  <2>1. (Slots({"device", "hour", "sample", "answer"}))'
           = Slots({"device", "hour", "sample", "answer"})
    BY <1>3
  <2> QED
    BY <2>1 DEF TrafficInv, Bounded
<1>6. ledger'.device <= MaxTraffic * (Slots({"hour", "sample", "answer"}))'
  BY <1>2, <1>4 DEF TrafficInv, Bounded
<1>7. ledger'.hour <= MaxTraffic * (Slots({"sample", "answer"}))'
  BY <1>2, <1>4 DEF TrafficInv, Bounded
<1>8. ledger'.samples <= MaxTraffic * (Slots({"answer"}))'
  BY <1>2, <1>4 DEF TrafficInv, Bounded
<1> QED
  BY <1>5, <1>6, <1>7, <1>8 DEF Bounded

\* update_device_statistics, second statement.
LEMMA AddToDeviceKeeps ==
  ASSUME TrafficInv, NEW fails \in BOOLEAN, AddToDevice(fails)
  PROVE  TrafficInv'
<1> DEFINE m == Request.amount
           adds == ~fails /\ IsActive(Request.token)
<1>0. /\ serving = "device"
      /\ UNCHANGED <<forwarded, client, sent, requests, session>>
      /\ history' = [history EXCEPT !.failed = @ \/ fails]
      /\ serving' \in {"hour", "answer"}
      /\ ledger' = IF adds THEN [ledger EXCEPT !["device"] = @ + m] ELSE ledger
  BY DEF AddToDevice, Add
<1>1. /\ requests # <<>> /\ m \in 0..MaxTraffic /\ m \in Nat
      /\ Request.token \in Tokens
  BY <1>0, Served
<1>2. ledger.device \in Nat
  BY Types DEF TrafficInv
<1>3. /\ ledger'.device = IF adds THEN ledger.device + m ELSE ledger.device
      /\ ledger'.hour = ledger.hour /\ ledger'.samples = ledger.samples
      /\ ledger' \in [device : Nat, hour : Nat, samples : Nat]
  <2>1. ledger \in [device : Nat, hour : Nat, samples : Nat]
    BY DEF TrafficInv, Loose
  <2>2. CASE ~adds
    BY <1>0, <2>1, <2>2
  <2>3. CASE adds
    <3>1. ledger' = [ledger EXCEPT !.device = ledger.device + m]
      BY <1>0, <2>3
    <3>2. ledger.device + m \in Nat
      BY <1>1, <1>2
    <3> QED
      BY <2>1, <2>3, <3>1, <3>2
  <2> QED
    BY <2>2, <2>3
<1> HIDE DEF adds
<1>4. Loose'
  <2>1. history' \in [overlap : BOOLEAN, unanswered : BOOLEAN,
                      failed : BOOLEAN]
    BY <1>0 DEF TrafficInv, Loose
  <2> QED
    BY <1>0, <1>3, <2>1 DEF TrafficInv, Loose, Statements
<1>5. Bounded'
  <2>1. /\ Fits(ledger.device, ledger'.device, {"hour", "sample", "answer"})
        /\ Fits(ledger.hour, ledger'.hour, {"sample", "answer"})
        /\ Fits(ledger.samples, ledger'.samples, {"answer"})
    <3>1. \E x \in 0..MaxTraffic : ledger'.device = ledger.device + x
      <4>1. 0 \in 0..MaxTraffic /\ ledger.device + 0 = ledger.device
        BY <1>2, TrafficAssumption
      <4> QED
        BY <1>1, <1>3, <4>1
    <3> QED
      BY <1>0, <1>3, <3>1 DEF Fits
  <2> QED
    BY <1>0, <1>4, <2>1, LedgerBounded
<1>6. Covered'
  <2>1. Bytes' = Bytes
    BY <1>0 DEF Bytes
  <2>2. ledger.device + (IF IsActive(Request.token) THEN m ELSE 0)
           <= SessionTotal /\ SessionTotal \in Nat
    BY <1>0, TotalTyped DEF TrafficInv, Covered
  <2>3. ledger'.device <= SessionTotal
    BY <1>1, <1>2, <1>3, <2>2 DEF adds
  <2> QED
    BY <1>0, <1>2, <1>1, <1>3, <2>1, <2>3, SameBytes DEF Covered
<1>7. /\ ledger'.device + Booked <= ledger.device + Booked'
      /\ ~fails /\ IsActive(Request.token)
            => ledger'.device + Booked = ledger.device + Booked'
  <2>1. Booked = 0 /\ Booked' = m
    BY <1>0 DEF Booked, Request
  <2> QED
    BY <1>1, <1>2, <1>3, <2>1 DEF adds
<1> QED
  <2>1. /\ serving # "idle" /\ serving' \in Statements
        /\ \A t \in Tokens : session'[t].status = session[t].status
    BY <1>0 DEF Statements
  <2> QED
    BY <1>0, <1>4, <1>5, <1>6, <1>7, <2>1, StatementKeeps

\* The statements after update_device_statistics leave the device alone.
LEMMA LaterKeeps ==
  ASSUME TrafficInv, NEW fails \in BOOLEAN,
         serving \in {"hour", "sample"}, serving' \in {"sample", "answer"},
         UNCHANGED <<forwarded, client, sent, requests, session>>,
         history' = [history EXCEPT !.failed = @ \/ fails],
         ledger' \in [device : Nat, hour : Nat, samples : Nat],
         ledger'.device = ledger.device,
         Fits(ledger.hour, ledger'.hour, {"sample", "answer"}),
         Fits(ledger.samples, ledger'.samples, {"answer"})
  PROVE  TrafficInv'
<1>0. ledger.device \in Nat /\ Booked \in Nat
  BY Types, BookedTyped DEF TrafficInv
<1>1. Loose'
  <2>1. history' \in [overlap : BOOLEAN, unanswered : BOOLEAN,
                      failed : BOOLEAN]
    BY DEF TrafficInv, Loose
  <2> QED
    BY <2>1 DEF TrafficInv, Loose, Statements
<1>2. Bounded'
  <2>1. Fits(ledger.device, ledger'.device, {"hour", "sample", "answer"})
    BY DEF Fits
  <2> QED
    BY <1>1, <2>1, LedgerBounded
<1>3. Covered'
  <2>1. Bytes' = Bytes
    BY DEF Bytes
  <2> QED
    BY <1>0, <2>1, SameBytes DEF TrafficInv, Covered
<1>4. Booked' = Booked
  BY DEF Booked, Request
<1> QED
  <2>1. /\ serving # "idle" /\ serving' \in Statements
        /\ \A t \in Tokens : session'[t].status = session[t].status
        /\ ledger'.device + Booked <= ledger.device + Booked'
        /\ ledger'.device + Booked = ledger.device + Booked'
    BY <1>0, <1>4 DEF Statements
  <2> QED
    BY <1>1, <1>2, <1>3, <2>1, StatementKeeps

\* A number in the ledger stays or grows by the amount of the request.
LEMMA Grows ==
  ASSUME NEW n \in Nat, NEW m \in 0..MaxTraffic, NEW k, k \in {n, n + m}
  PROVE  k \in Nat /\ \E x \in 0..MaxTraffic : k = n + x
<1>1. 0 \in 0..MaxTraffic /\ n + 0 = n /\ m \in Nat
  BY TrafficAssumption
<1> QED
  BY <1>1

LEMMA AddToHourKeeps ==
  ASSUME TrafficInv, NEW fails \in BOOLEAN, AddToHour(fails)
  PROVE  TrafficInv'
<1> DEFINE m == Request.amount
<1>0. /\ serving = "hour" /\ serving' = "sample"
      /\ UNCHANGED <<forwarded, client, sent, requests, session>>
      /\ history' = [history EXCEPT !.failed = @ \/ fails]
      /\ \/ ledger' = ledger
         \/ ledger' = [ledger EXCEPT !.hour = ledger.hour + m]
  BY DEF AddToHour, Add
<1>1. m \in 0..MaxTraffic /\ m \in Nat
  BY <1>0, Served
<1>2. ledger.hour \in Nat /\ ledger \in [device : Nat, hour : Nat, samples : Nat]
  BY DEF TrafficInv, Loose
<1>3. /\ ledger'.hour \in {ledger.hour, ledger.hour + m}
      /\ ledger'.device = ledger.device /\ ledger'.samples = ledger.samples
      /\ ledger' \in [device : Nat, hour : Nat, samples : Nat]
  <2>1. ledger.hour + m \in Nat
    BY <1>1, <1>2
  <2> HIDE DEF m
  <2> QED
    BY <1>0, <1>2, <2>1
<1>4. \E x \in 0..MaxTraffic : ledger'.hour = ledger.hour + x
  <2> HIDE DEF m
  <2> QED
    BY <1>1, <1>2, <1>3, Grows
<1> QED
  <2>1. /\ Fits(ledger.hour, ledger'.hour, {"sample", "answer"})
        /\ Fits(ledger.samples, ledger'.samples, {"answer"})
    BY <1>0, <1>3, <1>4 DEF Fits
  <2> QED
    BY <1>0, <1>3, <2>1, LaterKeeps

LEMMA AddSampleKeeps ==
  ASSUME TrafficInv, NEW fails \in BOOLEAN, AddSample(fails)
  PROVE  TrafficInv'
<1> DEFINE m == Request.amount
<1>0. /\ serving = "sample" /\ serving' = "answer"
      /\ UNCHANGED <<forwarded, client, sent, requests, session>>
      /\ history' = [history EXCEPT !.failed = @ \/ fails]
      /\ \/ ledger' = ledger
         \/ ledger' = [ledger EXCEPT !.samples = ledger.samples + m]
  BY DEF AddSample, Add
<1>1. m \in 0..MaxTraffic /\ m \in Nat
  BY <1>0, Served
<1>2. /\ ledger.samples \in Nat
      /\ ledger \in [device : Nat, hour : Nat, samples : Nat]
  BY DEF TrafficInv, Loose
<1>3. /\ ledger'.samples \in {ledger.samples, ledger.samples + m}
      /\ ledger'.device = ledger.device /\ ledger'.hour = ledger.hour
      /\ ledger' \in [device : Nat, hour : Nat, samples : Nat]
  <2>1. ledger.samples + m \in Nat
    BY <1>1, <1>2
  <2> HIDE DEF m
  <2> QED
    BY <1>0, <1>2, <2>1
<1>4. \E x \in 0..MaxTraffic : ledger'.samples = ledger.samples + x
  <2> HIDE DEF m
  <2> QED
    BY <1>1, <1>2, <1>3, Grows
<1> QED
  <2>1. /\ Fits(ledger.hour, ledger'.hour, {"sample", "answer"})
        /\ Fits(ledger.samples, ledger'.samples, {"answer"})
    BY <1>0, <1>3, <1>4 DEF Fits
  <2> QED
    BY <1>0, <1>3, <2>1, LaterKeeps

LEMMA AnswersKeeps ==
  ASSUME TrafficInv, Answers
  PROVE  TrafficInv'
<1>1. requests # <<>>
  BY DEF Answers, TrafficInv, Queued
<1> QED
  BY <1>1, AnswerKeeps DEF Answers

\* The request is refused, or its first statement comes next.
LEMMA ServeKeeps ==
  ASSUME TrafficInv, NEW limited \in BOOLEAN, Serve(limited)
  PROVE  TrafficInv'
<1>1. CASE limited \/ ~IsActive(Request.token)
  BY <1>1, AnswerKeeps DEF Serve
<1>2. CASE ~(limited \/ ~IsActive(Request.token))
  <2>1. /\ serving = "idle" /\ requests # <<>> /\ serving' = "session"
        /\ IsActive(Request.token)
        /\ UNCHANGED <<forwarded, client, sent, requests, session, ledger,
                       history>>
    BY <1>2 DEF Serve
  <2>2. Request' = Request /\ Booked' = Booked
    BY <2>1 DEF Request, Booked
  <2>3. Loose'
    BY <2>1 DEF TrafficInv, Loose, Statements
  <2>4. Queued'
    BY <2>1, <2>2 DEF TrafficInv, Queued, IsActive
  <2>5. Bounded'
    BY <2>1 DEF TrafficInv, Bounded, Slots
  <2>6. NoExcess' /\ NoLoss'
    BY <2>1, <2>2 DEF TrafficInv, NoExcess, NoLoss
  <2>7. Covered'
    <3>1. Bytes' = Bytes
      BY <2>1 DEF Bytes
    <3> QED
      BY <2>1, <3>1, SameBytes DEF TrafficInv, Covered
  <2> QED
    BY <2>3, <2>4, <2>5, <2>6, <2>7 DEF TrafficInv
<1> QED
  BY <1>1, <1>2

-----------------------------------------------------------------------------
(* Sessions that begin and end, and the theorems *)

\* A session's status changes, and nothing of what is accounted for.
LEMMA StatusKeeps ==
  ASSUME TrafficInv, NEW t \in Tokens, NEW v \in {"active", "ended"},
         session' = [session EXCEPT ![t].status = v],
         UNCHANGED <<forwarded, sent, requests, serving, ledger>>,
         client'.counter = client.counter, client'.waits = client.waits,
         client \in [counter : 0..MaxTraffic, token : Tokens,
                     waits : 0..MaxRequests]
            => client' \in [counter : 0..MaxTraffic, token : Tokens,
                            waits : 0..MaxRequests],
         client'.token >= client.token,
         history' \in [overlap : BOOLEAN, unanswered : BOOLEAN,
                       failed : BOOLEAN],
         history'.overlap = history.overlap,
         history'.unanswered = history.unanswered,
         ~history'.failed => ~history.failed,
         v = "active" => t > client.token,
         v = "ended" /\ serving # "idle" => history'.failed
  PROVE  TrafficInv'
<1> DEFINE row == [session[t] EXCEPT !.status = v]
           R == [status : {"none", "active", "ended"}, bytes : Nat]
<1>0. /\ session \in [Tokens -> R] /\ client.token \in Nat
      /\ client'.token \in Nat /\ t \in Nat /\ ledger.device \in Nat
      /\ Request' = Request /\ Booked' = Booked
  BY Types DEF TrafficInv, Loose, Tokens, Request, Booked
<1>1. /\ row \in R /\ row.status = v /\ row.bytes = session[t].bytes
  BY <1>0
<1>2. session' = [session EXCEPT ![t] = row]
  BY Zenon
<1> HIDE DEF row
<1>3. /\ session' \in [Tokens -> R] /\ session'[t].status = v
      /\ \A x \in Tokens : session'[x].bytes = session[x].bytes
      /\ \A x \in Tokens \ {t} : session'[x] = session[x]
  BY <1>0, <1>1, <1>2
<1>4. Bytes' = Bytes
  BY <1>3 DEF Bytes
<1>5. Loose'
  BY <1>3 DEF TrafficInv, Loose
<1>6. serving # "idle" => /\ Request.token \in Tokens /\ Request.token \in Nat
                          /\ Request.token <= client.token
                          /\ Request.amount \in Nat
  <2> SUFFICES ASSUME serving # "idle"
               PROVE  /\ Request.token \in Tokens /\ Request.token \in Nat
                      /\ Request.token <= client.token
                      /\ Request.amount \in Nat
    OBVIOUS
  <2>1. requests # <<>> /\ Request.token \in Tokens /\ Request.amount \in Nat
    BY Served
  <2>2. Request = requests[1] /\ 1 \in 1..Len(requests)
    BY <2>1, HeadTyped DEF TrafficInv
  <2> QED
    BY <2>1, <2>2 DEF TrafficInv, Queued, Tokens
<1>7. ASSUME serving # "idle", v = "active"
      PROVE  (IsActive(Request.token))' <=> IsActive(Request.token)
  <2>1. Request.token # t
    BY <1>0, <1>6, <1>7
  <2> QED
    BY <1>0, <1>3, <1>6, <1>7, <2>1 DEF IsActive
<1>8. ASSUME serving # "idle", v = "ended", (IsActive(Request.token))'
      PROVE  IsActive(Request.token)
  <2>1. Request.token # t
    BY <1>0, <1>3, <1>8 DEF IsActive
  <2> QED
    BY <1>0, <1>3, <1>6, <1>8, <2>1 DEF IsActive
<1>9. Queued'
  <2>1. \A k \in 1..Len(requests) : requests[k].token <= client'.token
    <3> SUFFICES ASSUME NEW k \in 1..Len(requests)
                 PROVE  requests[k].token <= client'.token
      OBVIOUS
    <3>1. requests[k].token \in Nat /\ requests[k].token <= client.token
      BY QueueTyped DEF TrafficInv, Queued, Tokens
    <3> QED
      BY <1>0, <3>1
  <2>2. ~history'.failed /\ serving # "idle" => (IsActive(Request.token))'
    BY <1>7 DEF TrafficInv, Queued
  <2> QED
    BY <2>1, <2>2 DEF TrafficInv, Queued
<1>10. Bounded'
  <2>1. \A S : (Slots(S))' = Slots(S)
    BY DEF Slots
  <2> QED
    BY <1>3, <2>1 DEF TrafficInv, Bounded
<1>11. NoExcess' /\ NoLoss'
  BY <1>0 DEF TrafficInv, NoExcess, NoLoss
<1>12. Covered'
  <2>1. serving = "device" /\ (IsActive(Request.token))'
           => IsActive(Request.token)
    BY <1>7, <1>8
  <2>2. SessionTotal' = SessionTotal /\ SessionTotal \in Nat
    BY <1>4, SameBytes, TotalTyped DEF TrafficInv
  <2> QED
    BY <1>0, <1>6, <2>1, <2>2 DEF TrafficInv, Covered
<1> QED
  BY <1>5, <1>9, <1>10, <1>11, <1>12 DEF TrafficInv

LEMMA ReregisterKeeps ==
  ASSUME TrafficInv, Reregister
  PROVE  TrafficInv'
<1> DEFINE C == [counter : 0..MaxTraffic, token : Tokens,
                 waits : 0..MaxRequests]
<1>1. client \in C /\ client.token \in Nat /\ client.token < MaxTokens
  BY DEF TrafficInv, Loose, Reregister, Tokens
<1>2. client.token + 1 \in Tokens
  BY <1>1, TrafficAssumption DEF Tokens
<1>3. client' = [client EXCEPT !.token = client.token + 1]
  BY DEF Reregister
<1>4. /\ client'.counter = client.counter /\ client'.waits = client.waits
      /\ client'.token = client.token + 1 /\ client' \in C
  BY <1>1, <1>2, <1>3
<1>5. client'.token >= client.token /\ client.token + 1 > client.token
  BY <1>1, <1>4
<1>6. /\ session' = [session EXCEPT ![client.token + 1].status = "active"]
      /\ UNCHANGED <<forwarded, sent, requests, serving, ledger, history>>
      /\ history \in [overlap : BOOLEAN, unanswered : BOOLEAN,
                      failed : BOOLEAN]
  BY DEF Reregister, TrafficInv, Loose
<1> QED
  BY <1>2, <1>4, <1>5, <1>6, StatusKeeps

LEMMA EndSessionKeeps ==
  ASSUME TrafficInv, EndSession
  PROVE  TrafficInv'
<1>1. PICK t \in Tokens :
         /\ session' = [session EXCEPT ![t].status = "ended"]
         /\ history' = [history EXCEPT !.failed = @ \/ serving # "idle"]
         /\ UNCHANGED <<forwarded, client, sent, requests, serving, ledger>>
  BY DEF EndSession
<1>2. /\ history' \in [overlap : BOOLEAN, unanswered : BOOLEAN,
                       failed : BOOLEAN]
      /\ history'.overlap = history.overlap
      /\ history'.unanswered = history.unanswered
      /\ history'.failed = (history.failed \/ serving # "idle")
  BY <1>1 DEF TrafficInv, Loose
<1>3. client'.token >= client.token
  BY <1>1 DEF TrafficInv, Loose, Tokens
<1> QED
  BY <1>1, <1>2, <1>3, StatusKeeps

LEMMA TrafficStart == TrafficInit => TrafficInv
<1> SUFFICES ASSUME TrafficInit PROVE TrafficInv
  OBVIOUS
<1>1. Loose
  BY TrafficAssumption DEF TrafficInit, Loose, Tokens
<1>2. Queued /\ Booked = 0
  BY DEF TrafficInit, Queued, Booked
<1>3. Bounded
  BY TrafficAssumption DEF TrafficInit, Bounded, Slots
<1>4. NoExcess /\ NoLoss
  BY <1>2 DEF TrafficInit, NoExcess, NoLoss
<1>5. Covered
  BY <1>1, TotalTyped DEF TrafficInit, Covered
<1> QED
  BY <1>1, <1>2, <1>3, <1>4, <1>5 DEF TrafficInv

LEMMA TrafficStep == TrafficInv /\ TrafficNext => TrafficInv'
  BY ForwardKeeps, SendKeeps, TimeoutKeeps, ReregisterKeeps, ServeKeeps,
     AddToSessionKeeps, AddToDeviceKeeps, AddToHourKeeps, AddSampleKeeps,
     AnswersKeeps, EndSessionKeeps
  DEF TrafficNext

LEMMA TrafficStutter == TrafficInv /\ UNCHANGED trafficVars => TrafficInv'
<1> SUFFICES ASSUME TrafficInv, UNCHANGED trafficVars PROVE TrafficInv'
  OBVIOUS
<1>1. /\ UNCHANGED <<forwarded, client, sent, requests, serving, session,
                     ledger, history>>
      /\ Request' = Request /\ Booked' = Booked /\ Bytes' = Bytes
  BY DEF trafficVars, Request, Booked, Bytes
<1>2. Loose' /\ Queued' /\ NoExcess' /\ NoLoss'
  BY <1>1 DEF TrafficInv, Loose, Queued, NoExcess, NoLoss, IsActive
<1>3. Bounded'
  BY <1>1 DEF TrafficInv, Bounded, Slots
<1>4. Covered'
  BY <1>1, SameBytes DEF TrafficInv, Covered, IsActive
<1> QED
  BY <1>2, <1>3, <1>4 DEF TrafficInv

\* What is booked for a device, what its client still counts and the requests
\* between them stay in the relation TrafficInv states, for every number of
\* units, requests and sessions.
THEOREM TrafficAccounted == Spec => []TrafficInv
<1>1. Init => TrafficInv
  BY TrafficStart DEF Init
<1>2. TrafficInv /\ [Next]_vars => TrafficInv'
  BY TrafficStep, TrafficStutter DEF Next, vars
<1> QED
  BY <1>1, <1>2, PTL DEF Spec

\* No more requests are served than were sent.
LEMMA FewSlots ==
  ASSUME TrafficInv, NEW S, "idle" \notin S
  PROVE  Slots(S) \in Nat /\ Slots(S) <= MaxRequests
<1>1. /\ sent \in Nat /\ sent <= MaxRequests /\ Len(requests) \in Nat
      /\ Len(requests) <= sent /\ MaxRequests \in Nat
  BY Types, TrafficAssumption DEF TrafficInv, Loose, Queued
<1>2. CASE serving \in S
  <2>1. Len(requests) # 0
    BY <1>2, HeadTyped DEF TrafficInv, Queued
  <2> QED
    BY <1>1, <1>2, <2>1 DEF Slots
<1>3. CASE serving \notin S
  BY <1>1, <1>3 DEF Slots
<1> QED
  BY <1>2, <1>3

\* Every count in the tables stays within what the requests can have carried:
\* both parts keep their types.
THEOREM AccountingTyped == Spec => []TypeOK
<1>1. TrafficInv => TrafficTypeOK
  <2> SUFFICES ASSUME TrafficInv PROVE TrafficTypeOK
    OBVIOUS
  <2>1. MaxTraffic * MaxRequests \in Nat
    BY TrafficAssumption
  <2>2. ASSUME NEW S, "idle" \notin S, NEW n \in Nat,
               n <= MaxTraffic * Slots(S)
        PROVE  n \in Amounts
    <3>1. PICK a : a = Slots(S)
      OBVIOUS
    <3>2. a \in Nat /\ a <= MaxRequests /\ n <= MaxTraffic * a
      BY <2>2, <3>1, FewSlots
    <3>3. n <= MaxTraffic * MaxRequests
      BY <3>2, MoreRoom, TrafficAssumption
    <3> QED
      BY <2>1, <3>3 DEF Amounts
  <2>3. /\ ledger.device \in Amounts /\ ledger.hour \in Amounts
        /\ ledger.samples \in Amounts
        /\ \A t \in Tokens : session[t].bytes \in Amounts
    BY <2>2, Types DEF TrafficInv, Bounded
  <2>4. ledger \in [device : Amounts, hour : Amounts, samples : Amounts]
    BY <2>3 DEF TrafficInv, Loose
  <2>5. session \in [Tokens -> [status : {"none", "active", "ended"},
                                bytes : Amounts]]
    BY <2>3 DEF TrafficInv, Loose
  <2> QED
    BY <2>4, <2>5 DEF TrafficInv, Loose, TrafficTypeOK
<1>2. StatInv => StatTypeOK
  BY DEF StatInv
<1> QED
  BY <1>1, <1>2, StatisticsKept, TrafficAccounted, PTL DEF TypeOK

\* A device is credited with more than its tunnel forwarded only after an
\* answer that did not come in time, with less only if the tunnel forwarded
\* during a heartbeat or a statement did not take effect, and never with more
\* than its sessions show.
THEOREM TrafficExplained == Spec => []TotalsExplained
<1>1. TrafficInv => TotalsExplained
  <2> SUFFICES ASSUME TrafficInv PROVE TotalsExplained
    OBVIOUS
  <2>0. /\ forwarded \in Nat /\ client.counter \in Nat
        /\ ledger.device \in Nat /\ Booked \in Nat
    BY Types, BookedTyped DEF TrafficInv
  <2>1. OvercountedOnlyUnanswered
    <3> SUFFICES ASSUME ~history.unanswered PROVE ledger.device <= forwarded
      BY DEF OvercountedOnlyUnanswered
    <3>1. ledger.device + client.counter <= forwarded + Booked
      BY DEF TrafficInv, NoExcess
    <3>2. Booked <= client.counter
      <4>1. CASE serving = "idle"
        BY <2>0, <4>1 DEF Booked
      <4>2. CASE serving # "idle"
        <5>1. requests # <<>>
          BY <4>2 DEF TrafficInv, Queued
        <5>2. Request.amount <= client.counter
          BY <5>1 DEF TrafficInv, NoExcess
        <5> QED
          BY <2>0, <5>2 DEF Booked
      <4> QED
        BY <4>1, <4>2
    <3> QED
      BY <2>0, <3>1, <3>2
  <2>2. MissingOnlyOverlapped
    <3> SUFFICES ASSUME ~history.overlap, ~history.failed
                 PROVE  ledger.device + client.counter >= forwarded
      BY DEF MissingOnlyOverlapped
    <3>1. ledger.device + client.counter >= forwarded + Booked
      BY DEF TrafficInv, NoLoss
    <3> QED
      BY <2>0, <3>1
  <2>3. TotalsOrdered
    <3>1. SessionTotal \in Nat
      BY TotalTyped DEF TrafficInv
    <3>2. serving # "idle" => Request.amount \in Nat
      BY Served
    <3>3. ledger.device <= SessionTotal
      BY <2>0, <3>1, <3>2 DEF TrafficInv, Covered
    <3> QED
      BY <3>3 DEF TotalsOrdered, SessionTotal
  <2> QED
    BY <2>1, <2>2, <2>3 DEF TotalsExplained
<1> QED
  BY <1>1, TrafficAccounted, PTL
=============================================================================
