----------------------- MODULE SessionAdmissionProofs -----------------------
(***************************************************************************)
(* Proofs about SessionAdmission, about StatsReport, which reads its       *)
(* counters, and about the computations of Delay.                          *)
(***************************************************************************)
EXTENDS StatsReport, FiniteSetTheorems, SequenceTheorems, TLAPS

(* The delay stays between its bounds, never shrinks, and grows until it   *)
(* has reached the upper one (delay.go 28-31).                             *)
THEOREM NextValueBounds ==
    ASSUME NEW min \in Nat \ {0}, NEW max \in Nat, min <= max,
           NEW value \in {0} \cup min..max
    PROVE  /\ NextValue(value, min, max) \in min..max
           /\ NextValue(value, min, max) >= value
           /\ NextValue(value, min, max) = value => value = max
BY DEF NextValue, MinMaxInt

(* The number of processors stays between its bounds; below the upper one  *)
(* a busy second adds at least one (main.go 163-191).                      *)
THEOREM ProcsBounds ==
    ASSUME NEW min \in Nat, NEW max \in Nat, NEW ncpu \in min..max
    PROVE  /\ MoreProcs(ncpu, max) \in min..max
           /\ ncpu < max => MoreProcs(ncpu, max) > ncpu
           /\ ncpu > min => FewerProcs(ncpu) \in min..max
BY DEF MoreProcs, FewerProcs

-----------------------------------------------------------------------------
(* The types of what Session.Start works on.                               *)
CountTypeOK ==
    /\ acceptor \in {"accept", "admit"}
    /\ sess \in [Conns -> {"none", "tooMany", "counted", "rejected",
                           "rejecting", "away", "running", "ending", "over"}]
    /\ alive \in Nat

Held == Serving \cup Admitting
WithinLimit == Serving \cup {c \in Conns : sess[c] = "counted"}

(* The inductive invariant: the acceptor admits one session at a time, and *)
(* whoever passed the test is within the limit, before it is served, too.  *)
CountInv ==
    /\ CountTypeOK
    /\ alive = Cardinality(Held)
    /\ acceptor = "accept" => Admitting = {}
    /\ \A c, d \in Admitting : c = d
    /\ Cardinality(WithinLimit) <= MaxClients

(* Every set of connections is finite.                                     *)
LEMMA SomeConnsFinite ==
    ASSUME NEW S \in SUBSET Conns
    PROVE  IsFiniteSet(S) /\ Cardinality(S) \in Nat
BY AdmissionAssumption, FS_Subset, FS_CardinalityType DEF AdmissionAssumption

(* A step that leaves every session in its class keeps the invariant.      *)
LEMMA SameClasses ==
    ASSUME CountInv, CountTypeOK', alive' = alive, acceptor' = acceptor,
           Held' = Held, WithinLimit' = WithinLimit, Admitting' = Admitting
    PROVE  CountInv'
BY DEF CountInv

LEMMA AcceptCounts ==
    ASSUME CountInv, NEW c \in Conns, Accept(c)
    PROVE  CountInv'
<1> USE DEF CountInv, CountTypeOK
<1>1. /\ sess[c] = "none" /\ alive' = alive + 1 /\ acceptor' = "admit"
      /\ sess' = [sess EXCEPT ![c] = IF alive + 1 > MaxClients THEN "tooMany"
                                                              ELSE "counted"]
      /\ Admitting = {}
  BY DEF Accept, At, TooMany
<1>2. CountTypeOK'
  BY <1>1
<1>3. /\ Held' = Held \cup {c} /\ c \notin Held
      /\ Admitting' = {c}
  BY <1>1 DEF Held, Serving, Admitting
<1>4. Held \in SUBSET Conns
  BY DEF Held, Serving, Admitting
<1>5. alive' = Cardinality(Held')
  BY <1>1, <1>3, <1>4, SomeConnsFinite, FS_AddElement
<1>6. Cardinality(WithinLimit') <= MaxClients
  <2>1. CASE alive + 1 > MaxClients
    <3>1. WithinLimit' = WithinLimit
      BY <1>1, <2>1 DEF WithinLimit, Serving
    <3> QED
      BY <3>1
  <2>2. CASE ~(alive + 1 > MaxClients)
    <3>1. WithinLimit' \in SUBSET Held'
      BY <1>1 DEF WithinLimit, Held, Serving, Admitting
    <3>2. Held' \in SUBSET Conns
      BY DEF Held, Serving, Admitting
    <3>3. Cardinality(WithinLimit') <= Cardinality(Held')
      BY <3>1, <3>2, SomeConnsFinite, FS_Subset
    <3>4. WithinLimit' \in SUBSET Conns
      BY <3>1, <3>2
    <3>5. Cardinality(WithinLimit') \in Nat /\ Cardinality(Held') \in Nat
      BY <3>2, <3>4, SomeConnsFinite
    <3> QED
      BY <1>1, <1>5, <2>2, <3>3, <3>5, AdmissionAssumption
         DEF AdmissionAssumption
  <2> QED
    BY <2>1, <2>2
<1> QED
  BY <1>1, <1>2, <1>3, <1>5, <1>6

(* A session leaves: the count goes down with it.                          *)
LEMMA LeavingCounts ==
    ASSUME CountInv, NEW c \in Held, CountTypeOK', alive' = alive - 1,
           Held' = Held \ {c}, WithinLimit' \in SUBSET WithinLimit,
           Admitting' \in SUBSET Admitting,
           acceptor' = "accept" => Admitting' = {}
    PROVE  CountInv'
<1> USE DEF CountInv
<1>1. Held \in SUBSET Conns /\ WithinLimit \in SUBSET Conns
  BY DEF Held, WithinLimit, Serving, Admitting
<1>2. alive' = Cardinality(Held')
  BY <1>1, SomeConnsFinite, FS_RemoveElement
<1>3. Cardinality(WithinLimit') <= Cardinality(WithinLimit)
  BY <1>1, SomeConnsFinite, FS_Subset
<1>4. WithinLimit' \in SUBSET Conns
  BY <1>1
<1>5. Cardinality(WithinLimit') \in Nat /\ Cardinality(WithinLimit) \in Nat
  BY <1>1, <1>4, SomeConnsFinite
<1>6. Cardinality(WithinLimit') <= MaxClients
  BY <1>3, <1>5, AdmissionAssumption DEF AdmissionAssumption
<1> QED
  BY <1>2, <1>6

LEMMA AdmitCounts ==
    ASSUME CountInv, NEW c \in Conns, Admit(c)
    PROVE  CountInv'
<1>1. /\ sess[c] \in {"tooMany", "counted"} /\ acceptor' = "accept"
      /\ Admitting = {c} /\ c \in Held
  BY DEF Admit, CountInv, Held, Admitting
<1>2. CASE sess[c] = "counted" /\ router = "online"
  <2>1. sess' = [sess EXCEPT ![c] = "running"] /\ alive' = alive
    BY <1>2 DEF Admit, At
  <2>2. Held' = Held /\ WithinLimit' = WithinLimit /\ Admitting' = {}
    BY <1>1, <1>2, <2>1
       DEF Held, WithinLimit, Serving, Admitting, CountInv, CountTypeOK
  <2> QED
    BY <1>1, <2>1, <2>2 DEF CountInv, CountTypeOK
<1>3. CASE ~(sess[c] = "counted" /\ router = "online")
  <2>1. sess' = [sess EXCEPT ![c] = "rejected"] /\ alive' = alive - 1
    BY <1>3 DEF Admit, At, Uncount
  <2>2. Admitting' = {}
    BY <1>1, <2>1 DEF Admitting, CountInv, CountTypeOK
  <2>3. Held' = Held \ {c} /\ WithinLimit' \in SUBSET WithinLimit
    BY <1>1, <2>1
       DEF Held, WithinLimit, Serving, Admitting, CountInv, CountTypeOK
  <2>4. alive' \in Nat
    <3>1. Held \in SUBSET Conns
      BY DEF Held, Serving, Admitting
    <3>2. Cardinality(Held \ {c}) = Cardinality(Held) - 1
          /\ Cardinality(Held \ {c}) \in Nat
      BY <1>1, <3>1, SomeConnsFinite, FS_RemoveElement
    <3> QED
      BY <2>1, <3>2 DEF CountInv
  <2>5. CountTypeOK'
    BY <1>1, <2>1, <2>4 DEF CountInv, CountTypeOK
  <2> QED
    BY <1>1, <2>1, <2>2, <2>3, <2>5, LeavingCounts
<1> QED
  BY <1>2, <1>3

LEMMA SessionEndsCounts ==
    ASSUME CountInv, NEW c \in Conns, SessionEnds(c)
    PROVE  CountInv'
<1>1. acceptor' = acceptor
  BY DEF SessionEnds, acceptVars
<1>2. CASE sess[c] = "ending"
  <2>1. sess' = [sess EXCEPT ![c] = "over"] /\ alive' = alive - 1
    BY <1>2 DEF SessionEnds, At
  <2>2. c \in Held /\ Held' = Held \ {c} /\ Admitting' = Admitting
        /\ WithinLimit' \in SUBSET WithinLimit
    BY <1>2, <2>1
       DEF Held, WithinLimit, Serving, Admitting, CountInv, CountTypeOK
  <2>3. alive' \in Nat
    <3>1. Held \in SUBSET Conns
      BY DEF Held, Serving, Admitting
    <3>2. Cardinality(Held \ {c}) = Cardinality(Held) - 1
          /\ Cardinality(Held \ {c}) \in Nat
      BY <2>2, <3>1, SomeConnsFinite, FS_RemoveElement
    <3> QED
      BY <2>1, <3>2 DEF CountInv
  <2>4. CountTypeOK'
    BY <1>1, <2>1, <2>3 DEF CountInv, CountTypeOK
  <2>5. acceptor' = "accept" => Admitting' = {}
    BY <1>1, <2>2 DEF CountInv
  <2> QED
    BY <2>1, <2>2, <2>4, <2>5, LeavingCounts
<1>3. CASE sess[c] = "rejecting"
  <2>1. sess' = [sess EXCEPT ![c] = "away"] /\ alive' = alive
    BY <1>3 DEF SessionEnds, At
  <2>2. Held' = Held /\ WithinLimit' = WithinLimit /\ Admitting' = Admitting
    BY <1>3, <2>1
       DEF Held, WithinLimit, Serving, Admitting, CountInv, CountTypeOK
  <2>3. CountTypeOK'
    BY <1>1, <2>1 DEF CountInv, CountTypeOK
  <2> QED
    BY <1>1, <2>1, <2>2, <2>3, SameClasses
<1> QED
  BY <1>2, <1>3 DEF SessionEnds

LEMMA CountStep == CountInv /\ [Next]_vars => CountInv'
<1> SUFFICES ASSUME CountInv, [Next]_vars PROVE CountInv'
  OBVIOUS
<1>1. CASE UNCHANGED <<sess, alive, acceptor>>
  BY <1>1 DEF CountInv, CountTypeOK, Held, WithinLimit, Serving, Admitting
<1>2. ASSUME NEW c \in Conns, Reject(c) \/ LastFlush(c) PROVE CountInv'
  <2>1. \/ sess[c] = "rejected" /\ sess' = [sess EXCEPT ![c] = "rejecting"]
        \/ sess[c] = "running" /\ sess' = [sess EXCEPT ![c] = "ending"]
    BY <1>2 DEF Reject, LastFlush, At
  <2>2. alive' = alive /\ acceptor' = acceptor
    BY <1>2 DEF Reject, LastFlush, acceptVars
  <2>3. Held' = Held /\ WithinLimit' = WithinLimit /\ Admitting' = Admitting
    BY <2>1
       DEF Held, WithinLimit, Serving, Admitting, CountInv, CountTypeOK
  <2>4. CountTypeOK'
    BY <2>1, <2>2 DEF CountInv, CountTypeOK
  <2> QED
    BY <2>2, <2>3, <2>4, SameClasses
<1>3. CASE RouterMoves \/ AcceptAgain
  BY <1>1, <1>3 DEF RouterMoves, AcceptAgain, countVars
<1>4. ASSUME NEW c \in Conns, Decode(c) \/ ReaderEnds(c) \/ Count(c) \/ Flush(c)
      PROVE  CountInv'
  BY <1>1, <1>4 DEF Decode, ReaderEnds, Count, Flush, FlushTotal, FlushFails,
                    FlushEntry, FlushCalls, FlushOpFails, acceptVars, countVars
<1> QED
  BY <1>1, <1>2, <1>3, <1>4, AcceptCounts, AdmitCounts, SessionEndsCounts
     DEF Next, vars, acceptVars, countVars

THEOREM CountInvariant == Spec => []CountInv
<1>1. Init => CountInv
  <2> SUFFICES ASSUME Init PROVE CountInv
    OBVIOUS
  <2>1. CountTypeOK /\ acceptor = "accept" /\ alive = 0
    BY DEF Init, CountTypeOK
  <2>2. Held = {} /\ WithinLimit = {} /\ Admitting = {}
    BY DEF Init, Held, WithinLimit, Serving, Admitting
  <2>3. Cardinality(Held) = 0 /\ Cardinality(WithinLimit) = 0
    BY <2>2, FS_EmptySet
  <2> QED
    BY <2>1, <2>2, <2>3, AdmissionAssumption DEF CountInv, AdmissionAssumption
<1> QED
  BY <1>1, CountStep, PTL DEF Spec

(* The number of sessions is exact and what is served is within the limit  *)
(* (session.go 72-105).                                                    *)
THEOREM CountsExactly == Spec => []AliveExact
<1>1. CountInv => AliveExact
  <2> SUFFICES ASSUME CountInv PROVE AliveExact
    OBVIOUS
  <2>1. Serving \in SUBSET WithinLimit /\ WithinLimit \in SUBSET Conns
    BY DEF WithinLimit, Serving
  <2>2. Cardinality(Serving) <= Cardinality(WithinLimit)
    BY <2>1, SomeConnsFinite, FS_Subset
  <2>3. Serving \in SUBSET Conns
    BY <2>1
  <2>4. Cardinality(Serving) \in Nat /\ Cardinality(WithinLimit) \in Nat
    BY <2>1, <2>3, SomeConnsFinite
  <2> QED
    BY <2>2, <2>4, AdmissionAssumption
       DEF AliveExact, CountInv, Held, AdmissionAssumption
<1> QED
  BY <1>1, CountInvariant, PTL

(* Nobody is told that there are too many clients while there are not      *)
(* (session.go 74-82).                                                     *)
THEOREM RejectsOnlyWhenFull == Spec => RejectedOnlyWhenFull
<1>1. CountInv /\ AliveExact /\ [Next]_vars =>
        [\A c \in Conns : sess[c] = "none" /\ sess'[c] = "tooMany" =>
            Cardinality(Serving) = MaxClients]_vars
  <2> SUFFICES ASSUME CountInv, AliveExact, Next, NEW c \in Conns,
                      sess[c] = "none", sess'[c] = "tooMany"
               PROVE  Cardinality(Serving) = MaxClients
    OBVIOUS
  <2>1. Accept(c)
    <3>1. ASSUME NEW d \in Conns, Accept(d) PROVE c = d
      BY <3>1 DEF Accept, At, CountInv, CountTypeOK
    <3>2. ASSUME NEW d \in Conns,
                 Admit(d) \/ Reject(d) \/ LastFlush(d) \/ SessionEnds(d)
          PROVE  FALSE
      BY <3>2 DEF Admit, Reject, LastFlush, SessionEnds, At, CountInv, CountTypeOK
    <3>3. ASSUME NEW d \in Conns,
                 Decode(d) \/ ReaderEnds(d) \/ Count(d) \/ Flush(d)
          PROVE  FALSE
      BY <3>3 DEF Decode, ReaderEnds, Count, Flush, FlushTotal, FlushFails,
                  FlushEntry, FlushCalls, FlushOpFails, countVars
    <3>4. ~RouterMoves /\ ~AcceptAgain
      BY DEF RouterMoves, AcceptAgain, countVars
    <3> QED
      BY <3>1, <3>2, <3>3, <3>4 DEF Next
  <2>2. alive + 1 > MaxClients
    BY <2>1 DEF Accept, At, TooMany, CountInv, CountTypeOK
  <2>3. Admitting = {} /\ alive = Cardinality(Serving)
    BY <2>1 DEF Accept, CountInv, Held
  <2> QED
    BY <2>2, <2>3, AdmissionAssumption
       DEF AliveExact, CountInv, CountTypeOK, AdmissionAssumption
<1> QED
  BY <1>1, CountInvariant, CountsExactly, PTL DEF Spec, RejectedOnlyWhenFull

-----------------------------------------------------------------------------
(* The types of the rest.                                                  *)

Stats == [total : Nat, fails : Nat, calls : Nat, failed : Nat]
OpEntry == [calls : Nat, fails : Nat]

BackoffTyped == backoff \in {0} \cup DelayMin..DelayMax

(* What is queued was decoded.                                             *)
QueueTyped ==
    /\ reader \in [Conns -> {"decode", "end"}]
    /\ decoded \in [Conns -> Nat]
    /\ queued \in [Conns -> Nat]
    /\ \A c \in Conns : queued[c] <= decoded[c]
StatsTyped ==
    /\ flush \in [Conns -> {"none", "total", "fails", "lookup", "create",
                            "calls", "opfails"}]
    /\ local \in [Conns -> Stats]
    /\ op \in [total : Nat, fails : Nat]

(* A flush adds its counts to an entry that was made.                      *)
EntryTyped ==
    /\ entries \in Seq(OpEntry) /\ opmap \in 0..Len(entries)
    /\ entry \in [Conns -> 0..Len(entries)]
    /\ \A c \in Conns : flush[c] \in {"calls", "opfails"} => entry[c] # 0

Typed ==
    /\ router \in {"starting", "online", "closed"}
    /\ CountTypeOK /\ BackoffTyped /\ QueueTyped /\ StatsTyped /\ EntryTyped

LEMMA InitTyped == Init => Typed
<1> SUFFICES ASSUME Init PROVE Typed
  OBVIOUS
<1>1. CountTypeOK /\ BackoffTyped
  BY DEF Init, CountTypeOK, BackoffTyped
<1>2. QueueTyped
  BY AdmissionAssumption DEF Init, QueueTyped, AdmissionAssumption
<1>3. StatsTyped
  BY DEF Init, StatsTyped, Stats, NoStats
<1>4. EntryTyped
  BY DEF Init, EntryTyped
<1> QED
  BY <1>1, <1>2, <1>3, <1>4 DEF Init, Typed

(* Who changes which of them.                                              *)
LEMMA WhoCounts ==
    ASSUME [Next]_vars
    PROVE  /\ \/ UNCHANGED <<router, backoff>>
              \/ RouterMoves \/ AcceptAgain \/ \E c \in Conns : Accept(c)
           /\ \/ UNCHANGED queueVars
              \/ \E c \in Conns : Decode(c) \/ ReaderEnds(c) \/ Count(c)
           /\ \/ UNCHANGED <<flush, local, op>>
              \/ \E c \in Conns : \/ Reject(c) \/ Decode(c) \/ Count(c)
                                  \/ LastFlush(c) \/ Flush(c)
           /\ \/ UNCHANGED <<opmap, entries, entry>>
              \/ \E c \in Conns : \/ FlushEntry(c) \/ FlushCalls(c)
                                  \/ FlushOpFails(c)
<1>1. CASE RouterMoves \/ AcceptAgain \/ UNCHANGED vars
  BY <1>1 DEF RouterMoves, AcceptAgain, vars, acceptVars, queueVars, opVars
<1>2. ASSUME NEW c \in Conns,
             Accept(c) \/ Admit(c) \/ Reject(c) \/ LastFlush(c) \/ SessionEnds(c)
      PROVE  /\ UNCHANGED <<queueVars, opVars>>
             /\ UNCHANGED <<router, backoff>> \/ Accept(c)
             /\ UNCHANGED <<flush, local>> \/ Reject(c) \/ LastFlush(c)
  BY <1>2 DEF Accept, Admit, Reject, LastFlush, SessionEnds, acceptVars
<1>3. ASSUME NEW c \in Conns, Decode(c) \/ ReaderEnds(c) \/ Count(c)
      PROVE  UNCHANGED <<router, backoff, opVars>>
             /\ (UNCHANGED <<flush, local>> \/ Decode(c) \/ Count(c))
  BY <1>3 DEF Decode, ReaderEnds, Count, acceptVars
<1>4. ASSUME NEW c \in Conns, Flush(c)
      PROVE  /\ UNCHANGED <<router, backoff, queueVars>>
             /\ \/ UNCHANGED <<opmap, entries, entry>>
                \/ FlushEntry(c) \/ FlushCalls(c) \/ FlushOpFails(c)
  BY <1>4 DEF Flush, FlushTotal, FlushFails, FlushEntry, FlushCalls,
              FlushOpFails, acceptVars
<1> QED
  BY <1>1, <1>2, <1>3, <1>4 DEF Next, opVars

LEMMA StepRouter ==
    ASSUME Typed, [Next]_vars
    PROVE  router' \in {"starting", "online", "closed"} /\ BackoffTyped'
<1>1. CASE UNCHANGED <<router, backoff>>
  BY <1>1 DEF Typed, BackoffTyped
<1>2. CASE RouterMoves \/ \E c \in Conns : Accept(c)
  BY <1>2 DEF RouterMoves, Accept, Typed, BackoffTyped
<1>3. CASE AcceptAgain
  <2>1. NextValue(backoff, DelayMin, DelayMax) \in DelayMin..DelayMax
    BY NextValueBounds, AdmissionAssumption
       DEF Typed, BackoffTyped, AdmissionAssumption
  <2> QED
    BY <1>3, <2>1 DEF AcceptAgain, Typed, BackoffTyped
<1> QED
  BY <1>1, <1>2, <1>3, WhoCounts

LEMMA StepQueue ==
    ASSUME Typed, [Next]_vars
    PROVE  QueueTyped'
<1>1. QueueTyped
  BY DEF Typed
<1>2. CASE UNCHANGED queueVars
  BY <1>1, <1>2 DEF queueVars, QueueTyped
<1>3. ASSUME NEW c \in Conns, Decode(c) PROVE QueueTyped'
  <2>1. decoded[c] \in Nat /\ queued[c] \in Nat /\ queued[c] <= decoded[c]
        /\ decoded[c] + 1 \in Nat /\ queued[c] + 1 \in Nat
    BY <1>1, <1>3 DEF Decode, QueueTyped
  <2> QED
    BY <1>1, <1>3, <2>1 DEF Decode, At, QueueTyped
<1>4. ASSUME NEW c \in Conns, ReaderEnds(c) PROVE QueueTyped'
  BY <1>1, <1>4 DEF ReaderEnds, At, QueueTyped
<1>5. ASSUME NEW c \in Conns, Count(c) PROVE QueueTyped'
  <2>1. /\ decoded[c] \in Nat /\ queued[c] \in Nat /\ queued[c] <= decoded[c]
        /\ queued[c] - 1 \in Nat
    BY <1>1, <1>5 DEF Count, QueueTyped
  <2> QED
    BY <1>1, <1>5, <2>1 DEF Count, At, QueueTyped
<1> QED
  BY <1>2, <1>3, <1>4, <1>5, WhoCounts

LEMMA StepStats ==
    ASSUME Typed, [Next]_vars
    PROVE  StatsTyped'
<1>1. StatsTyped
  BY DEF Typed
<1>2. CASE UNCHANGED <<flush, local, op>>
  BY <1>1, <1>2 DEF StatsTyped
<1>3. ASSUME NEW c \in Conns,
             Reject(c) \/ Decode(c) \/ Count(c) \/ LastFlush(c) \/ Flush(c)
      PROVE  StatsTyped'
  <2>1. /\ local[c] \in Stats /\ op \in [total : Nat, fails : Nat]
        /\ local[c].total \in Nat /\ local[c].fails \in Nat
        /\ local[c].calls \in Nat /\ local[c].failed \in Nat
    BY <1>1 DEF StatsTyped, Stats
  <2>2. CASE Reject(c)
    BY <1>1, <2>1, <2>2 DEF Reject, At, StatsTyped, Stats, opVars
  <2>3. CASE Decode(c)
    BY <1>1, <2>1, <2>3 DEF Decode, At, StatsTyped, Stats, opVars
  <2>4. CASE Count(c)
    BY <1>1, <2>1, <2>4 DEF Count, At, StatsTyped, Stats, opVars
  <2>5. CASE LastFlush(c)
    BY <1>1, <2>5 DEF LastFlush, At, StatsTyped, opVars
  <2>6. CASE FlushTotal(c)
    BY <1>1, <2>1, <2>6 DEF FlushTotal, At, StatsTyped, Stats
  <2>7. CASE FlushFails(c)
    BY <1>1, <2>1, <2>7 DEF FlushFails, At, StatsTyped, Stats
  <2>8. CASE FlushEntry(c)
    BY <1>1, <2>8 DEF FlushEntry, GetOpStats, At, StatsTyped
  <2>9. CASE FlushCalls(c)
    BY <1>1, <2>1, <2>9 DEF FlushCalls, At, StatsTyped, Stats
  <2>10. CASE FlushOpFails(c)
    BY <1>1, <2>1, <2>10 DEF FlushOpFails, At, StatsTyped, Stats
  <2> QED
    BY <1>3, <2>2, <2>3, <2>4, <2>5, <2>6, <2>7, <2>8, <2>9, <2>10 DEF Flush
<1> QED
  BY <1>2, <1>3, WhoCounts

(* Counts are added to an entry that is there.                             *)
LEMMA AddToEntry ==
    ASSUME EntryTyped, NEW i \in 1..Len(entries), NEW e \in OpEntry,
           entries' = [entries EXCEPT ![i] = e], UNCHANGED <<opmap, entry>>,
           \A c \in Conns : flush'[c] \in {"calls", "opfails"} => entry[c] # 0
    PROVE  EntryTyped'
<1>1. entries' \in Seq(OpEntry) /\ Len(entries') = Len(entries)
  BY ExceptSeq DEF EntryTyped
<1> QED
  BY <1>1 DEF EntryTyped

LEMMA StepEntry ==
    ASSUME Typed, [Next]_vars
    PROVE  EntryTyped'
<1>1. /\ EntryTyped /\ StatsTyped /\ Len(entries) \in Nat
      /\ \A i \in 1..Len(entries) : entries[i] \in OpEntry
  BY LenProperties, ElementOfSeq DEF Typed, EntryTyped
<1>2. ASSUME NEW c \in Conns, FlushEntry(c) PROVE EntryTyped'
  <2>1. CASE flush[c] = "lookup"
    BY <1>1, <1>2, <2>1 DEF FlushEntry, GetOpStats, At, EntryTyped, StatsTyped
  <2>2. CASE flush[c] = "create" /\ opmap # 0
    <3>1. /\ UNCHANGED <<opmap, entries>>
          /\ entry' = [entry EXCEPT ![c] = opmap]
          /\ flush' = [flush EXCEPT ![c] = "calls"]
      BY <1>2, <2>2 DEF FlushEntry, GetOpStats, At
    <3> QED
      BY <1>1, <2>2, <3>1 DEF EntryTyped, StatsTyped
  <2>3. CASE flush[c] = "create" /\ opmap = 0
    <3>1. /\ entries' = Append(entries, [calls |-> 0, fails |-> 0])
          /\ opmap' = Len(entries) + 1
          /\ entry' = [entry EXCEPT ![c] = opmap']
          /\ flush' = [flush EXCEPT ![c] = "calls"]
      BY <1>2, <2>3 DEF FlushEntry, GetOpStats, At
    <3>2. [calls |-> 0, fails |-> 0] \in OpEntry
      BY DEF OpEntry
    <3>3. entries' \in Seq(OpEntry) /\ Len(entries') = Len(entries) + 1
      BY <1>1, <3>1, <3>2, AppendProperties DEF EntryTyped
    <3> QED
      BY <1>1, <3>1, <3>3 DEF EntryTyped, StatsTyped
  <2> QED
    BY <1>2, <2>1, <2>2, <2>3 DEF FlushEntry, GetOpStats
<1>3. ASSUME NEW c \in Conns, FlushCalls(c) \/ FlushOpFails(c)
      PROVE  EntryTyped'
  <2>1. entry[c] \in 1..Len(entries) /\ local[c] \in Stats
    BY <1>1, <1>3 DEF FlushCalls, FlushOpFails, EntryTyped, StatsTyped
  <2>2. entries[entry[c]] \in OpEntry
    BY <1>1, <2>1
  <2>3. PICK e \in OpEntry : entries' = [entries EXCEPT ![entry[c]] = e]
    <3>1. /\ [entries[entry[c]] EXCEPT !.calls = @ + local[c].calls] \in OpEntry
          /\ [entries[entry[c]] EXCEPT !.fails = @ + local[c].failed] \in OpEntry
      <4> DEFINE e == entries[entry[c]]
                 s == local[c]
      <4>1. s.calls \in Nat /\ s.failed \in Nat
        BY <2>1 DEF Stats
      <4>2. e \in OpEntry
        BY <2>2
      <4> HIDE DEF e, s
      <4>3. /\ [e EXCEPT !.calls = @ + s.calls] \in OpEntry
            /\ [e EXCEPT !.fails = @ + s.failed] \in OpEntry
        BY <4>1, <4>2 DEF OpEntry
      <4> QED
        BY <4>3 DEF e, s
    <3> QED
      BY <1>3, <3>1 DEF FlushCalls, FlushOpFails
  <2>4. \A d \in Conns : flush'[d] \in {"calls", "opfails"} => entry[d] # 0
    BY <1>1, <1>3, <2>1 DEF FlushCalls, FlushOpFails, At, EntryTyped, StatsTyped
  <2>5. UNCHANGED <<opmap, entry>>
    BY <1>3 DEF FlushCalls, FlushOpFails
  <2> QED
    BY <1>1, <2>1, <2>3, <2>4, <2>5, AddToEntry
<1>4. CASE UNCHANGED <<opmap, entries, entry>>
  <2>1. ASSUME NEW c \in Conns, flush'[c] \in {"calls", "opfails"},
               flush'[c] # flush[c]
        PROVE  \E d \in Conns : FlushEntry(d) \/ FlushCalls(d) \/ FlushOpFails(d)
    <3>1. ~UNCHANGED <<flush, local, op>>
      BY <2>1
    <3>2. ASSUME NEW d \in Conns,
                 \/ Reject(d) \/ Decode(d) \/ Count(d) \/ LastFlush(d)
                 \/ FlushTotal(d) \/ FlushFails(d)
          PROVE  FALSE
      BY <1>1, <2>1, <3>2 DEF Reject, Decode, Count, LastFlush, FlushTotal,
                              FlushFails, At, StatsTyped
    <3> QED
      BY <3>1, <3>2, WhoCounts DEF Flush
  <2> QED
    BY <1>1, <1>2, <1>3, <1>4, <2>1 DEF EntryTyped
<1> QED
  BY <1>2, <1>3, <1>4, WhoCounts

THEOREM TypedInvariant == Spec => []Typed
<1>1. Typed /\ CountTypeOK' /\ [Next]_vars => Typed'
  BY StepRouter, StepQueue, StepStats, StepEntry DEF Typed
<1>2. CountInv => CountTypeOK
  BY DEF CountInv
<1> QED
  BY InitTyped, <1>1, <1>2, CountInvariant, PTL DEF Spec

(* Every variable has its type: no counter is ever negative, and no flush  *)
(* adds to an entry nobody made (stats.go 93-110, session.go 260-276).     *)
THEOREM TypeCorrect == Spec => []TypeOK
<1>1. Typed => TypeOK
  BY DEF Typed, TypeOK, CountTypeOK, BackoffTyped, QueueTyped, StatsTyped,
         EntryTyped, Stats, OpEntry
<1> QED
  BY <1>1, TypedInvariant, PTL

-----------------------------------------------------------------------------
(* Sums over the connections.  f stands for a bag of tokens, f[c] of them  *)
(* with connection c: their number is the sum of f, and a step of one      *)
(* session changes it by what changes at that session.                     *)

Tokens(f) == UNION {{c} \X (1..f[c]) : c \in Conns}
SumOf(f) == Cardinality(Tokens(f))

TotalOf == [c \in Conns |-> local[c].total]
FailsOf == [c \in Conns |-> local[c].fails]

(* Commands that are queued, or counted and not flushed yet.               *)
OpenOf == [c \in Conns |-> queued[c] + local[c].calls + local[c].failed]

Unflushed == SumOf(TotalOf)
FailsLeft == SumOf(FailsOf)
StillOpen == SumOf(OpenOf)
Received == SumOf(decoded)

TurnedAway == {c \in Conns : sess[c] \in {"rejecting", "away"}}

(* One entry is made for the command, and every flush adds to it.          *)
OneEntry ==
    /\ Len(entries) = opmap
    /\ \A c \in Conns : flush[c] \in {"calls", "opfails"} => entry[c] = opmap

(* A session that does not run has nothing queued, and its counters are    *)
(* zero, each after its step of the flush.                                 *)
Drained ==
    \A c \in Conns : sess[c] # "running" =>
        /\ queued[c] = 0
        /\ sess[c] \notin {"ending", "rejecting"} => flush[c] = "none"
        /\ flush[c] # "total" => local[c].total = 0
        /\ flush[c] \notin {"total", "fails"} => local[c].fails = 0
        /\ flush[c] \in {"none", "opfails"} => local[c].calls = 0
        /\ flush[c] = "none" => local[c].failed = 0

(* G are the sessions whose loopReader gave up with a command that it had  *)
(* counted and not queued.  A total that is not flushed is at most what is *)
(* not flushed of the rest, and less once it was flushed before the rest.  *)
GaveUp(G) ==
    \A c \in Conns :
        /\ c \in G => reader[c] = "end"
        /\ local[c].total <=
              queued[c] + (IF c \in G THEN 1 ELSE 0)
              + (IF flush[c] \in {"none", "total"}
                 THEN local[c].calls + local[c].failed ELSE 0)

(* Every command is in the total or about to be flushed; it is counted as  *)
(* ended, is open, or was given up; and a failure is one of the entry, of  *)
(* a loopReader that gave up, or of a client that was turned away.         *)
Balance(G) ==
    /\ op.total + Unflushed = Received
    /\ Calls + Failed + Cardinality(G) + StillOpen = Received
    /\ op.fails + FailsLeft =
          Failed + Cardinality(G) + Cardinality(TurnedAway)

StatsInv ==
    /\ OneEntry /\ Drained
    /\ \E G \in SUBSET Conns : GaveUp(G) /\ Balance(G)

(* The tokens of one connection.                                           *)
LEMMA TokensOfOne ==
    ASSUME NEW c, NEW n \in Nat
    PROVE  IsFiniteSet({c} \X (1..n)) /\ Cardinality({c} \X (1..n)) = n
<1>1. IsFiniteSet({c}) /\ Cardinality({c}) = 1
  BY FS_Singleton
<1>2. IsFiniteSet(1..n) /\ Cardinality(1..n) = n
  BY FS_Interval
<1>3. Cardinality({c} \X (1..n)) = 1 * n
  BY <1>1, <1>2, FS_Product
<1> QED
  BY <1>1, <1>2, <1>3, FS_Product

LEMMA SumType ==
    ASSUME NEW f \in [Conns -> Nat]
    PROVE  IsFiniteSet(Tokens(f)) /\ SumOf(f) \in Nat
<1> DEFINE g == [c \in Conns |-> {c} \X (1..f[c])]
           S == {{c} \X (1..f[c]) : c \in Conns}
<1>1. g \in Surjection(Conns, S)
  BY DEF Surjection
<1>2. IsFiniteSet(S)
  BY <1>1, FS_Surjection, AdmissionAssumption DEF AdmissionAssumption
<1>3. ASSUME NEW c \in Conns PROVE IsFiniteSet({c} \X (1..f[c]))
  BY TokensOfOne
<1> QED
  BY <1>2, <1>3, FS_UNION, FS_CardinalityType DEF Tokens, SumOf

(* What one connection changes, the sum changes.                           *)
LEMMA SumChanges ==
    ASSUME NEW f \in [Conns -> Nat], NEW g \in [Conns -> Nat], NEW c \in Conns,
           \A d \in Conns \ {c} : g[d] = f[d]
    PROVE  SumOf(g) + f[c] = SumOf(f) + g[c]
<1> DEFINE Rest == UNION {{d} \X (1..f[d]) : d \in Conns \ {c}}
<1>1. Tokens(f) = Rest \cup ({c} \X (1..f[c]))
  BY DEF Tokens
<1>2. Tokens(g) = Rest \cup ({c} \X (1..g[c]))
  BY DEF Tokens
<1>3. IsFiniteSet(Rest) /\ Cardinality(Rest) \in Nat
  <2>1. Rest \in SUBSET Tokens(f)
    BY <1>1
  <2> QED
    BY <2>1, SumType, FS_Subset, FS_CardinalityType
<1>4. ASSUME NEW n \in Nat
      PROVE  Cardinality(Rest \cup ({c} \X (1..n))) = Cardinality(Rest) + n
  <2>1. Rest \cap ({c} \X (1..n)) = {}
    OBVIOUS
  <2>2. Cardinality(Rest \cap ({c} \X (1..n))) = 0
    BY <2>1, FS_EmptySet
  <2> QED
    <3> DEFINE New == {c} \X (1..n)
    <3>1. IsFiniteSet(New) /\ Cardinality(New) = n
      BY TokensOfOne
    <3>2. Cardinality(Rest \cap New) = 0
      BY <2>2
    <3> HIDE DEF Rest, New
    <3>3. Cardinality(Rest \cup New) =
            Cardinality(Rest) + Cardinality(New) - Cardinality(Rest \cap New)
      BY <1>3, <3>1, FS_Union
    <3>4. Cardinality(Rest \cup New) = Cardinality(Rest) + n
      BY <1>3, <3>1, <3>2, <3>3
    <3> QED
      BY <3>4 DEF New
<1> HIDE DEF Rest
<1> QED
  BY <1>1, <1>2, <1>3, <1>4 DEF SumOf

(* What is at most g, and one more in G, adds up to no more than that.     *)
LEMMA SumBounded ==
    ASSUME NEW f \in [Conns -> Nat], NEW g \in [Conns -> Nat],
           NEW G \in SUBSET Conns,
           \A c \in Conns : f[c] <= g[c] + (IF c \in G THEN 1 ELSE 0)
    PROVE  SumOf(f) <= SumOf(g) + Cardinality(G)
<1> DEFINE More == {<<c, g[c] + 1>> : c \in G}
           h == [c \in G |-> <<c, g[c] + 1>>]
<1>1. h \in Surjection(G, More)
  BY DEF Surjection
<1>2. IsFiniteSet(More) /\ Cardinality(More) <= Cardinality(G)
  BY <1>1, FS_Surjection, SomeConnsFinite
<1>3. Tokens(f) \in SUBSET (Tokens(g) \cup More)
  <2>1. SUFFICES ASSUME NEW c \in Conns, NEW i \in 1..f[c]
                 PROVE  <<c, i>> \in Tokens(g) \cup More
    BY DEF Tokens
  <2>2. CASE i \in 1..g[c]
    BY <2>2 DEF Tokens
  <2>3. CASE i \notin 1..g[c]
    <3>1. c \in G /\ i = g[c] + 1
      BY <2>3
    <3> QED
      BY <3>1
  <2> QED
    BY <2>2, <2>3
<1>4. /\ IsFiniteSet(Tokens(f)) /\ IsFiniteSet(Tokens(g))
      /\ SumOf(f) \in Nat /\ SumOf(g) \in Nat
  BY SumType
<1> HIDE DEF More
<1>5. /\ IsFiniteSet(Tokens(g) \cup More)
      /\ Cardinality(Tokens(g) \cup More) =
            SumOf(g) + Cardinality(More) - Cardinality(Tokens(g) \cap More)
  BY <1>2, <1>4, FS_Union DEF SumOf
<1>6. /\ Cardinality(Tokens(g) \cap More) \in Nat /\ Cardinality(More) \in Nat
      /\ Cardinality(G) \in Nat
  BY <1>2, <1>4, FS_Intersection, FS_CardinalityType, SomeConnsFinite
<1>7. SumOf(f) <= Cardinality(Tokens(g) \cup More)
  BY <1>3, <1>5, FS_Subset DEF SumOf
<1> QED
  BY <1>2, <1>4, <1>5, <1>6, <1>7

(* Nothing adds up to zero.                                                *)
LEMMA SumOfNothing ==
    ASSUME NEW f, \A c \in Conns : f[c] = 0
    PROVE  SumOf(f) = 0
<1>1. Tokens(f) = {}
  BY DEF Tokens
<1> QED
  BY <1>1, FS_EmptySet DEF SumOf

(* One session's step, and what it leaves alone: every other session.      *)
Acts(c) ==
    \/ Accept(c) \/ Admit(c) \/ Reject(c) \/ Decode(c) \/ ReaderEnds(c)
    \/ Count(c) \/ LastFlush(c) \/ SessionEnds(c) \/ Flush(c)

Elsewhere(c) ==
    \A d \in Conns \ {c} :
        /\ sess'[d] = sess[d] /\ flush'[d] = flush[d] /\ local'[d] = local[d]
        /\ reader'[d] = reader[d] /\ queued'[d] = queued[d]
        /\ decoded'[d] = decoded[d] /\ entry'[d] = entry[d]

LEMMA OthersRest ==
    ASSUME Typed, NEW c \in Conns, Acts(c)
    PROVE  Elsewhere(c)
<1> USE DEF Typed, CountTypeOK, QueueTyped, StatsTyped, EntryTyped, Elsewhere, At,
            countVars, queueVars, opVars
<1>1. CASE Accept(c) \/ Admit(c) \/ Reject(c) \/ LastFlush(c) \/ SessionEnds(c)
  BY <1>1 DEF Accept, Admit, Reject, LastFlush, SessionEnds
<1>2. CASE Decode(c) \/ ReaderEnds(c)
  BY <1>2 DEF Decode, ReaderEnds
<1>3. CASE Count(c)
  BY <1>3 DEF Count
<1>4. CASE FlushTotal(c) \/ FlushFails(c) \/ FlushCalls(c) \/ FlushOpFails(c)
  BY <1>4 DEF FlushTotal, FlushFails, FlushCalls, FlushOpFails
<1>5. CASE FlushEntry(c)
  BY <1>5 DEF FlushEntry, GetOpStats
<1> QED
  BY <1>1, <1>2, <1>3, <1>4, <1>5 DEF Acts, Flush

(* What the process reports are natural numbers.                           *)
LEMMA ReportTyped ==
    ASSUME Typed
    PROVE  op.total \in Nat /\ op.fails \in Nat /\ Calls \in Nat /\ Failed \in Nat
<1>1. op \in [total : Nat, fails : Nat]
  BY DEF Typed, StatsTyped
<1>2. opmap # 0 => entries[opmap] \in OpEntry
  BY ElementOfSeq, LenProperties DEF Typed, EntryTyped
<1> QED
  BY <1>1, <1>2 DEF OpEntry, Calls, Failed

(* What a session's counters are.                                          *)
LEMMA CountersTyped ==
    ASSUME Typed, NEW c \in Conns
    PROVE  /\ local[c] \in Stats
           /\ local[c].total \in Nat /\ local[c].fails \in Nat
           /\ local[c].calls \in Nat /\ local[c].failed \in Nat
           /\ queued[c] \in Nat /\ decoded[c] \in Nat
           /\ op.total \in Nat /\ op.fails \in Nat
           /\ Calls \in Nat /\ Failed \in Nat
<1>1. local[c] \in Stats
  BY DEF Typed, StatsTyped
<1> QED
  BY <1>1, ReportTyped DEF Typed, Stats, QueueTyped

(* The same after a step.                                                  *)
LEMMA CountersNext ==
    ASSUME Typed', NEW c \in Conns
    PROVE  /\ local'[c].total \in Nat /\ local'[c].fails \in Nat
           /\ local'[c].calls \in Nat /\ local'[c].failed \in Nat
           /\ queued'[c] \in Nat /\ decoded'[c] \in Nat
           /\ op'.total \in Nat /\ op'.fails \in Nat
           /\ Calls' \in Nat /\ Failed' \in Nat
<1>1. local'[c] \in Stats /\ op' \in [total : Nat, fails : Nat]
  BY DEF Typed, StatsTyped
<1>2. opmap' # 0 => entries'[opmap'] \in OpEntry
  <2>1. entries' \in Seq(OpEntry) /\ opmap' \in 0..Len(entries')
    BY DEF Typed, EntryTyped
  <2> QED
    BY <2>1, ElementOfSeq, LenProperties
<1> QED
  BY <1>1, <1>2 DEF Typed, Stats, OpEntry, QueueTyped, Calls, Failed

(* So the sums move by what the session's counters do.                     *)
LEMMA SumsMove ==
    ASSUME Typed, Typed', NEW c \in Conns, Elsewhere(c)
    PROVE  /\ Unflushed' + local[c].total = Unflushed + local'[c].total
           /\ FailsLeft' + local[c].fails = FailsLeft + local'[c].fails
           /\ StillOpen' + (queued[c] + local[c].calls + local[c].failed) =
                StillOpen + (queued'[c] + local'[c].calls + local'[c].failed)
           /\ Received' + decoded[c] = Received + decoded'[c]
           /\ Unflushed' \in Nat /\ FailsLeft' \in Nat
           /\ StillOpen' \in Nat /\ Received' \in Nat
<1>1. /\ TotalOf \in [Conns -> Nat] /\ FailsOf \in [Conns -> Nat]
      /\ OpenOf \in [Conns -> Nat] /\ decoded \in [Conns -> Nat]
  BY CountersTyped DEF TotalOf, FailsOf, OpenOf, Typed, QueueTyped
<1>2. /\ TotalOf' \in [Conns -> Nat] /\ FailsOf' \in [Conns -> Nat]
      /\ OpenOf' \in [Conns -> Nat] /\ decoded' \in [Conns -> Nat]
  BY CountersNext DEF TotalOf, FailsOf, OpenOf, Typed, QueueTyped
<1>3. ASSUME NEW d \in Conns \ {c}
      PROVE  /\ TotalOf'[d] = TotalOf[d] /\ FailsOf'[d] = FailsOf[d]
             /\ OpenOf'[d] = OpenOf[d] /\ decoded'[d] = decoded[d]
  BY DEF Elsewhere, TotalOf, FailsOf, OpenOf
<1>4. /\ SumOf(TotalOf') + TotalOf[c] = SumOf(TotalOf) + TotalOf'[c]
      /\ SumOf(FailsOf') + FailsOf[c] = SumOf(FailsOf) + FailsOf'[c]
      /\ SumOf(OpenOf') + OpenOf[c] = SumOf(OpenOf) + OpenOf'[c]
      /\ SumOf(decoded') + decoded[c] = SumOf(decoded) + decoded'[c]
  <2>1. SumOf(TotalOf') + TotalOf[c] = SumOf(TotalOf) + TotalOf'[c]
    BY <1>1, <1>2, <1>3, SumChanges
  <2>2. SumOf(FailsOf') + FailsOf[c] = SumOf(FailsOf) + FailsOf'[c]
    BY <1>1, <1>2, <1>3, SumChanges
  <2>3. SumOf(OpenOf') + OpenOf[c] = SumOf(OpenOf) + OpenOf'[c]
    BY <1>1, <1>2, <1>3, SumChanges
  <2>4. SumOf(decoded') + decoded[c] = SumOf(decoded) + decoded'[c]
    BY <1>1, <1>2, <1>3, SumChanges
  <2> QED
    BY <2>1, <2>2, <2>3, <2>4
<1>5. /\ SumOf(TotalOf') = Unflushed' /\ SumOf(FailsOf') = FailsLeft'
      /\ SumOf(OpenOf') = StillOpen' /\ SumOf(decoded') = Received'
  BY DEF SumOf, Tokens, Unflushed, FailsLeft, StillOpen, Received
<1>6. /\ SumOf(TotalOf') \in Nat /\ SumOf(FailsOf') \in Nat
      /\ SumOf(OpenOf') \in Nat /\ SumOf(decoded') \in Nat
  BY <1>2, SumType
<1> QED
  BY <1>4, <1>5, <1>6
     DEF TotalOf, FailsOf, OpenOf, Unflushed, FailsLeft, StillOpen, Received

(* They are natural numbers.                                               *)
LEMMA SumsTyped ==
    ASSUME Typed
    PROVE  /\ Unflushed \in Nat /\ FailsLeft \in Nat
           /\ StillOpen \in Nat /\ Received \in Nat
<1>1. /\ TotalOf \in [Conns -> Nat] /\ FailsOf \in [Conns -> Nat]
      /\ OpenOf \in [Conns -> Nat] /\ decoded \in [Conns -> Nat]
  BY CountersTyped DEF TotalOf, FailsOf, OpenOf, Typed, QueueTyped
<1> QED
  BY <1>1, SumType DEF Unflushed, FailsLeft, StillOpen, Received

(* A sum a + x = y stays one when a becomes b, x becomes v and y becomes   *)
(* w, by changes that balance.                                             *)
Sides(a, x, y, b, v, w, l, m, d, e) ==
    /\ a + x = y /\ b + l + d = a + m + e
    /\ v + m = x + l /\ w + d = y + e

LEMMA SidesMove ==
    \A a, x, y, b, v, w, l, m, d, e \in Nat :
        Sides(a, x, y, b, v, w, l, m, d, e) => b + v = w
BY DEF Sides

(* The session's own counters balance; H takes the place of G.             *)
OwnBalance(c, G, H) ==
    /\ op'.total + local'[c].total + decoded[c] =
          op.total + local[c].total + decoded'[c]
    /\ Calls' + Failed' + Cardinality(H)
          + (queued'[c] + local'[c].calls + local'[c].failed) + decoded[c] =
       Calls + Failed + Cardinality(G)
          + (queued[c] + local[c].calls + local[c].failed) + decoded'[c]
    /\ op'.fails + local'[c].fails
          + (Failed + Cardinality(G) + Cardinality(TurnedAway)) =
       op.fails + local[c].fails
          + (Failed' + Cardinality(H) + Cardinality(TurnedAway)')

(* Then the balance is kept.                                               *)
LEMMA BalanceMoves ==
    ASSUME Typed, Typed', NEW c \in Conns, Elsewhere(c),
           NEW G \in SUBSET Conns, NEW H \in SUBSET Conns, Balance(G),
           OwnBalance(c, G, H)
    PROVE  Balance(H)'
<1>1. /\ local[c].total \in Nat /\ local[c].fails \in Nat
      /\ local[c].calls \in Nat /\ local[c].failed \in Nat
      /\ queued[c] \in Nat /\ decoded[c] \in Nat
      /\ op.total \in Nat /\ op.fails \in Nat /\ Calls \in Nat /\ Failed \in Nat
  BY CountersTyped
<1>2. /\ local'[c].total \in Nat /\ local'[c].fails \in Nat
      /\ local'[c].calls \in Nat /\ local'[c].failed \in Nat
      /\ queued'[c] \in Nat /\ decoded'[c] \in Nat
      /\ op'.total \in Nat /\ op'.fails \in Nat /\ Calls' \in Nat /\ Failed' \in Nat
  BY CountersNext
<1>3. /\ Cardinality(G) \in Nat /\ Cardinality(H) \in Nat
      /\ Cardinality(TurnedAway) \in Nat /\ Cardinality(TurnedAway)' \in Nat
  BY SomeConnsFinite DEF TurnedAway
<1>4. /\ Unflushed \in Nat /\ FailsLeft \in Nat
      /\ StillOpen \in Nat /\ Received \in Nat
  BY SumsTyped
<1>5. /\ Unflushed' \in Nat /\ FailsLeft' \in Nat
      /\ StillOpen' \in Nat /\ Received' \in Nat
  BY SumsMove
<1>6. /\ Unflushed' + local[c].total = Unflushed + local'[c].total
      /\ FailsLeft' + local[c].fails = FailsLeft + local'[c].fails
      /\ StillOpen' + (queued[c] + local[c].calls + local[c].failed) =
           StillOpen + (queued'[c] + local'[c].calls + local'[c].failed)
      /\ Received' + decoded[c] = Received + decoded'[c]
  BY SumsMove
<1>7. op'.total + Unflushed' = Received'
  <2>1. Sides(op.total, Unflushed, Received, op'.total, Unflushed', Received',
              local'[c].total, local[c].total, decoded[c], decoded'[c])
    BY <1>6, Zenon DEF Sides, Balance, OwnBalance
  <2> QED
    BY <1>1, <1>2, <1>4, <1>5, <2>1, SidesMove
<1>8. Calls' + Failed' + Cardinality(H) + StillOpen' = Received'
  <2> DEFINE a == Calls + Failed + Cardinality(G)
             b == Calls' + Failed' + Cardinality(H)
             m == queued[c] + local[c].calls + local[c].failed
             l == queued'[c] + local'[c].calls + local'[c].failed
  <2>1. a \in Nat /\ b \in Nat /\ m \in Nat /\ l \in Nat
    <3>1. \A i, j, k \in Nat : i + j + k \in Nat
      OBVIOUS
    <3> QED
      BY <1>1, <1>2, <1>3, <3>1, Zenon
  <2>2. Sides(a, StillOpen, Received, b, StillOpen', Received',
              l, m, decoded[c], decoded'[c])
    BY <1>6, Zenon DEF Sides, Balance, OwnBalance
  <2> HIDE DEF a, b, m, l
  <2>3. b + StillOpen' = Received'
    BY <1>1, <1>2, <1>4, <1>5, <2>1, <2>2, SidesMove
  <2> QED
    BY <2>3, Zenon DEF b
<1>9. op'.fails + FailsLeft' =
          Failed' + Cardinality(H) + Cardinality(TurnedAway)'
  <2> DEFINE p == Failed + Cardinality(G) + Cardinality(TurnedAway)
             q == Failed' + Cardinality(H) + Cardinality(TurnedAway)'
  <2>1. p \in Nat /\ q \in Nat
    <3>1. \A i, j, k \in Nat : i + j + k \in Nat
      OBVIOUS
    <3> QED
      BY <1>1, <1>2, <1>3, <3>1, Zenon
  <2>2. q + p = p + q
    <3>1. \A i, j \in Nat : i + j = j + i
      OBVIOUS
    <3> HIDE DEF p, q
    <3> QED
      BY <2>1, <3>1, Zenon
  <2>3. Sides(op.fails, FailsLeft, p, op'.fails, FailsLeft', q,
              local'[c].fails, local[c].fails, p, q)
    BY <1>6, <2>2, Zenon DEF Sides, Balance, OwnBalance
  <2> HIDE DEF p, q
  <2>4. op'.fails + FailsLeft' = q
    BY <1>1, <1>2, <1>4, <1>5, <2>1, <2>3, SidesMove
  <2> QED
    BY <2>4, Zenon DEF q
<1> QED
  BY <1>7, <1>8, <1>9 DEF Balance

(* One entry is made, whoever comes first.                                 *)
LEMMA StepOneEntry ==
    ASSUME Typed, OneEntry, NEW c \in Conns, Acts(c)
    PROVE  OneEntry'
<1> USE DEF OneEntry
<1>1. /\ Elsewhere(c) /\ Len(entries) \in Nat /\ entries \in Seq(OpEntry)
      /\ c \in DOMAIN flush /\ c \in DOMAIN entry
      /\ flush \in [Conns -> {"none", "total", "fails", "lookup", "create",
                              "calls", "opfails"}]
      /\ entry \in [Conns -> 0..Len(entries)]
  BY OthersRest, LenProperties DEF Typed, EntryTyped, StatsTyped
<1>2. CASE UNCHANGED <<opmap, entries, entry>>
           /\ flush'[c] \in {flush[c], "none", "total", "fails", "lookup"}
  BY <1>1, <1>2 DEF Elsewhere
<1>3. CASE FlushEntry(c) /\ flush[c] = "lookup"
  BY <1>1, <1>3 DEF FlushEntry, GetOpStats, At
<1>4. CASE FlushEntry(c) /\ flush[c] = "create" /\ opmap # 0
  BY <1>1, <1>4 DEF FlushEntry, GetOpStats, At
<1>5. CASE FlushEntry(c) /\ flush[c] = "create" /\ opmap = 0
  <2>1. /\ entries' = Append(entries, [calls |-> 0, fails |-> 0])
        /\ opmap' = 1
        /\ entry' = [entry EXCEPT ![c] = opmap']
    BY <1>5 DEF FlushEntry, GetOpStats, At
  <2>2. [calls |-> 0, fails |-> 0] \in OpEntry
    BY DEF OpEntry
  <2>3. Len(entries') = 1
    BY <1>1, <1>5, <2>1, <2>2, AppendProperties
  <2>4. \A d \in Conns : flush[d] \notin {"calls", "opfails"}
    BY <1>5 DEF Typed, EntryTyped
  <2> QED
    BY <1>1, <2>1, <2>3, <2>4 DEF Elsewhere
<1>6. CASE FlushCalls(c) \/ FlushOpFails(c)
  <2>1. entry[c] \in 1..Len(entries) /\ local[c] \in Stats
    BY <1>1, <1>6, CountersTyped DEF FlushCalls, FlushOpFails, Typed, EntryTyped
  <2>2. Len(entries') = Len(entries)
    BY <1>1, <1>6, <2>1 DEF FlushCalls, FlushOpFails
  <2> QED
    BY <1>1, <1>6, <2>2 DEF FlushCalls, FlushOpFails, Elsewhere, At
<1>7. CASE Accept(c) \/ Admit(c) \/ ReaderEnds(c) \/ SessionEnds(c) \/ Decode(c)
  BY <1>2, <1>7 DEF Accept, Admit, ReaderEnds, SessionEnds, Decode, opVars
<1>8. CASE Reject(c) \/ LastFlush(c) \/ Count(c) \/ FlushTotal(c) \/ FlushFails(c)
  BY <1>1, <1>2, <1>8
     DEF Reject, LastFlush, Count, FlushTotal, FlushFails, At, opVars
<1> QED
  BY <1>3, <1>4, <1>5, <1>6, <1>7, <1>8 DEF Acts, Flush, FlushEntry, GetOpStats

(* What is left to count at a session that does not run.                   *)
LEMMA StepDrained ==
    ASSUME Typed, Drained, NEW c \in Conns, Acts(c)
    PROVE  Drained'
<1>1. /\ Elsewhere(c) /\ local[c] \in Stats
      /\ sess \in [Conns -> {"none", "tooMany", "counted", "rejected",
                           "rejecting", "away", "running", "ending", "over"}]
      /\ flush \in [Conns -> {"none", "total", "fails", "lookup", "create",
                              "calls", "opfails"}]
      /\ local \in [Conns -> Stats] /\ queued \in [Conns -> Nat]
  BY OthersRest, CountersTyped DEF Typed, CountTypeOK, StatsTyped, QueueTyped
<1> DEFINE Own(d) ==
        sess[d] # "running" =>
            /\ queued[d] = 0
            /\ sess[d] \notin {"ending", "rejecting"} => flush[d] = "none"
            /\ flush[d] # "total" => local[d].total = 0
            /\ flush[d] \notin {"total", "fails"} => local[d].fails = 0
            /\ flush[d] \in {"none", "opfails"} => local[d].calls = 0
            /\ flush[d] = "none" => local[d].failed = 0
<1>2. Own(c)
  BY DEF Drained
<1>3. SUFFICES Own(c)'
  BY <1>1 DEF Drained, Elsewhere
<1> USE DEF At
<1>4. CASE Accept(c) \/ Admit(c) \/ SessionEnds(c)
  BY <1>1, <1>2, <1>4 DEF Accept, Admit, SessionEnds, queueVars
<1>5. CASE Reject(c)
  BY <1>1, <1>2, <1>5 DEF Reject, queueVars
<1>6. CASE LastFlush(c)
  BY <1>1, <1>2, <1>6 DEF LastFlush, queueVars
<1>7. CASE Decode(c) \/ ReaderEnds(c) \/ Count(c)
  BY <1>1, <1>7 DEF Decode, ReaderEnds, Count, countVars
<1>8. CASE FlushTotal(c)
  BY <1>1, <1>2, <1>8 DEF FlushTotal, countVars, queueVars, Stats
<1>9. CASE FlushFails(c)
  BY <1>1, <1>2, <1>9 DEF FlushFails, countVars, queueVars, Stats
<1>10. CASE FlushEntry(c)
  BY <1>1, <1>2, <1>10 DEF FlushEntry, GetOpStats, countVars, queueVars
<1>11. CASE FlushCalls(c)
  BY <1>1, <1>2, <1>11 DEF FlushCalls, countVars, queueVars, Stats
<1>12. CASE FlushOpFails(c)
  BY <1>1, <1>2, <1>12 DEF FlushOpFails, countVars, queueVars, Stats
<1> QED
  BY <1>4, <1>5, <1>6, <1>7, <1>8, <1>9, <1>10, <1>11, <1>12 DEF Acts, Flush

(* What a step does to the counters and to the sets of the balance.        *)
LEMMA SameEntry ==
    ASSUME UNCHANGED <<opmap, entries>>
    PROVE  Calls' = Calls /\ Failed' = Failed
BY DEF Calls, Failed

LEMMA SameAway ==
    ASSUME UNCHANGED sess
    PROVE  TurnedAway' = TurnedAway
BY DEF TurnedAway

(* A session's own part of GaveUp.                                         *)
OwnGaveUp(c, G) ==
    /\ c \in G => reader[c] = "end"
    /\ local[c].total <=
          queued[c] + (IF c \in G THEN 1 ELSE 0)
          + (IF flush[c] \in {"none", "total"}
             THEN local[c].calls + local[c].failed ELSE 0)

LEMMA GaveUpMoves ==
    ASSUME NEW c \in Conns, Elsewhere(c), NEW G, NEW H,
           GaveUp(G), \A d \in Conns \ {c} : d \in H <=> d \in G,
           OwnGaveUp(c, H)'
    PROVE  GaveUp(H)'
BY DEF GaveUp, OwnGaveUp, Elsewhere

(* What the numbers are that are weighed.                                  *)
LEMMA WeightsTyped ==
    ASSUME Typed, NEW c \in Conns, NEW G \in SUBSET Conns
    PROVE  /\ Cardinality(G) \in Nat /\ Cardinality(TurnedAway) \in Nat
           /\ c \in DOMAIN local /\ c \in DOMAIN queued /\ c \in DOMAIN decoded
           /\ c \in DOMAIN reader /\ c \in DOMAIN flush /\ c \in DOMAIN sess
           /\ flush[c] \in {"none", "total", "fails", "lookup", "create",
                            "calls", "opfails"}
BY SomeConnsFinite DEF TurnedAway, Typed, CountTypeOK, StatsTyped, QueueTyped

LEMMA DecodeWeighs ==
    ASSUME Typed, NEW c \in Conns, Decode(c), NEW G \in SUBSET Conns, GaveUp(G)
    PROVE  \E H \in SUBSET Conns :
              /\ \A d \in Conns \ {c} : d \in H <=> d \in G
              /\ OwnGaveUp(c, H)' /\ OwnBalance(c, G, H)
<1>1. /\ local[c] \in Stats
      /\ local[c].total \in Nat /\ local[c].fails \in Nat
      /\ local[c].calls \in Nat /\ local[c].failed \in Nat
      /\ queued[c] \in Nat /\ decoded[c] \in Nat
      /\ op.total \in Nat /\ op.fails \in Nat /\ Calls \in Nat /\ Failed \in Nat
      /\ c \in DOMAIN local /\ c \in DOMAIN queued /\ c \in DOMAIN decoded
      /\ c \in DOMAIN reader
  BY CountersTyped DEF Typed, StatsTyped, QueueTyped
<1>2. /\ Cardinality(G) \in Nat /\ Cardinality(TurnedAway) \in Nat
  BY SomeConnsFinite DEF TurnedAway
<1>3. /\ Calls' = Calls /\ Failed' = Failed /\ TurnedAway' = TurnedAway
      /\ op' = op /\ flush' = flush /\ decoded'[c] = decoded[c] + 1
  BY <1>1, SameEntry, SameAway DEF Decode, At, opVars, countVars
<1>4. OwnGaveUp(c, G) /\ reader[c] = "decode" /\ c \notin G
  BY DEF Decode, GaveUp, OwnGaveUp
<1>5. CASE /\ queued'[c] = queued[c] + 1
           /\ local' = [local EXCEPT ![c].total = @ + 1]
           /\ UNCHANGED reader
  <2>1. /\ local'[c].total = local[c].total + 1
        /\ local'[c].fails = local[c].fails
        /\ local'[c].calls = local[c].calls /\ local'[c].failed = local[c].failed
    BY <1>1, <1>5 DEF Stats
  <2>2. OwnGaveUp(c, G)'
    BY <1>1, <1>3, <1>4, <1>5, <2>1 DEF OwnGaveUp
  <2>3. OwnBalance(c, G, G)
    BY <1>1, <1>2, <1>3, <1>5, <2>1 DEF OwnBalance
  <2> QED
    BY <2>2, <2>3
<1>6. CASE /\ queued'[c] = queued[c] /\ reader'[c] = "end"
           /\ local' = [local EXCEPT ![c].total = @ + 1, ![c].fails = @ + 1]
  <2>1. /\ local'[c].total = local[c].total + 1
        /\ local'[c].fails = local[c].fails + 1
        /\ local'[c].calls = local[c].calls /\ local'[c].failed = local[c].failed
    BY <1>1, <1>6 DEF Stats
  <2> DEFINE H == G \cup {c}
  <2>2. Cardinality(H) = Cardinality(G) + 1
    BY <1>4, SomeConnsFinite, FS_AddElement
  <2>3. OwnGaveUp(c, H)'
    BY <1>1, <1>3, <1>4, <1>6, <2>1 DEF OwnGaveUp
  <2>4. OwnBalance(c, G, H)
    BY <1>1, <1>2, <1>3, <1>6, <2>1, <2>2 DEF OwnBalance
  <2>5. H \in SUBSET Conns /\ \A d \in Conns \ {c} : d \in H <=> d \in G
    OBVIOUS
  <2> QED
    BY <2>3, <2>4, <2>5
<1> QED
  BY <1>1, <1>5, <1>6 DEF Decode, At

LEMMA CountWeighs ==
    ASSUME Typed, NEW c \in Conns, Count(c), NEW G \in SUBSET Conns, GaveUp(G)
    PROVE  OwnGaveUp(c, G)' /\ OwnBalance(c, G, G)
<1>1. /\ local[c] \in Stats
      /\ local[c].total \in Nat /\ local[c].fails \in Nat
      /\ local[c].calls \in Nat /\ local[c].failed \in Nat
      /\ queued[c] \in Nat /\ decoded[c] \in Nat
      /\ op.total \in Nat /\ op.fails \in Nat /\ Calls \in Nat /\ Failed \in Nat
  BY CountersTyped
<1>2. /\ Calls' = Calls /\ Failed' = Failed /\ TurnedAway' = TurnedAway
      /\ op' = op /\ decoded' = decoded /\ reader' = reader
      /\ queued[c] > 0 /\ queued'[c] = queued[c] - 1
      /\ flush[c] = "none" /\ flush'[c] \in {"none", "total"}
  BY WeightsTyped, SameEntry, SameAway DEF Count, At, opVars, countVars
<1>3. OwnGaveUp(c, G)
  BY DEF GaveUp, OwnGaveUp
<1>4. /\ local'[c].total = local[c].total /\ local'[c].fails = local[c].fails
      /\ \/ /\ local'[c].calls = local[c].calls + 1
            /\ local'[c].failed = local[c].failed
         \/ /\ local'[c].calls = local[c].calls
            /\ local'[c].failed = local[c].failed + 1
  BY <1>1, WeightsTyped DEF Count, Stats
<1>5. OwnGaveUp(c, G)'
  BY <1>1, <1>2, <1>3, <1>4 DEF OwnGaveUp
<1>6. OwnBalance(c, G, G)
  BY <1>1, <1>2, <1>4, WeightsTyped DEF OwnBalance
<1> QED
  BY <1>5, <1>6

LEMMA RejectWeighs ==
    ASSUME Typed, Drained, NEW c \in Conns, Reject(c),
           NEW G \in SUBSET Conns, GaveUp(G)
    PROVE  OwnGaveUp(c, G)' /\ OwnBalance(c, G, G)
<1>1. /\ local[c] \in Stats
      /\ local[c].total \in Nat /\ local[c].fails \in Nat
      /\ local[c].calls \in Nat /\ local[c].failed \in Nat
      /\ queued[c] \in Nat /\ decoded[c] \in Nat
      /\ op.total \in Nat /\ op.fails \in Nat /\ Calls \in Nat /\ Failed \in Nat
  BY CountersTyped
<1>2. /\ Calls' = Calls /\ Failed' = Failed /\ op' = op /\ decoded' = decoded
      /\ reader' = reader /\ queued' = queued /\ flush'[c] = "total"
  BY WeightsTyped, SameEntry DEF Reject, At, opVars, queueVars
<1>3. Cardinality(TurnedAway)' = Cardinality(TurnedAway) + 1
  <2>1. TurnedAway' = TurnedAway \cup {c} /\ c \notin TurnedAway
    BY DEF Reject, At, TurnedAway, Typed, CountTypeOK
  <2>2. TurnedAway \in SUBSET Conns
    BY DEF TurnedAway
  <2> QED
    BY <2>1, <2>2, SomeConnsFinite, FS_AddElement
<1>4. OwnGaveUp(c, G) /\ local[c].total = 0
  BY DEF GaveUp, OwnGaveUp, Drained, Reject
<1>5. /\ local'[c].total = local[c].total /\ local'[c].fails = local[c].fails + 1
      /\ local'[c].calls = local[c].calls /\ local'[c].failed = local[c].failed
  BY <1>1, WeightsTyped DEF Reject, Stats
<1>6. OwnGaveUp(c, G)'
  BY <1>1, <1>2, <1>4, <1>5 DEF OwnGaveUp
<1>7. OwnBalance(c, G, G)
  BY <1>1, <1>2, <1>3, <1>5, WeightsTyped DEF OwnBalance
<1> QED
  BY <1>6, <1>7

(* Steps that count nothing.                                               *)
LEMMA OthersWeighNothing ==
    ASSUME Typed, NEW c \in Conns, NEW G \in SUBSET Conns, GaveUp(G),
           \/ Accept(c) \/ Admit(c) \/ ReaderEnds(c) \/ LastFlush(c)
           \/ SessionEnds(c)
    PROVE  OwnGaveUp(c, G)' /\ OwnBalance(c, G, G)
<1>1. /\ UNCHANGED <<local, op, opmap, entries, queued, decoded>>
      /\ reader'[c] \in {reader[c], "end"} /\ TurnedAway' = TurnedAway
      /\ \/ flush'[c] = flush[c]
         \/ flush'[c] \in {"none", "total"} /\ flush[c] \in {"none", "total"}
  <2>1. CASE Accept(c) \/ Admit(c)
    BY <2>1 DEF Accept, Admit, At, queueVars, opVars, TurnedAway, Typed, CountTypeOK
  <2>2. CASE ReaderEnds(c)
    BY <2>2, WeightsTyped DEF ReaderEnds, At, countVars, opVars, TurnedAway
  <2>3. CASE LastFlush(c)
    BY <2>3, WeightsTyped
       DEF LastFlush, At, queueVars, opVars, TurnedAway, Typed, CountTypeOK
  <2>4. CASE SessionEnds(c)
    BY <2>4 DEF SessionEnds, At, queueVars, opVars, TurnedAway, Typed, CountTypeOK
  <2> QED
    BY <2>1, <2>2, <2>3, <2>4
<1>2. OwnGaveUp(c, G)'
  BY <1>1 DEF GaveUp, OwnGaveUp
<1>3. OwnBalance(c, G, G)
  BY <1>1, SameEntry DEF OwnBalance
<1> QED
  BY <1>2, <1>3

LEMMA FlushTotalWeighs ==
    ASSUME Typed, NEW c \in Conns, NEW G \in SUBSET Conns, GaveUp(G),
           FlushTotal(c) \/ FlushFails(c)
    PROVE  OwnGaveUp(c, G)' /\ OwnBalance(c, G, G)
<1>1. /\ local[c] \in Stats /\ op \in [total : Nat, fails : Nat]
      /\ local[c].total \in Nat /\ local[c].fails \in Nat
      /\ local[c].calls \in Nat /\ local[c].failed \in Nat
      /\ queued[c] \in Nat /\ decoded[c] \in Nat
      /\ op.total \in Nat /\ op.fails \in Nat /\ Calls \in Nat /\ Failed \in Nat
  BY CountersTyped DEF Typed, StatsTyped
<1>2. /\ Calls' = Calls /\ Failed' = Failed /\ TurnedAway' = TurnedAway
      /\ decoded' = decoded /\ reader' = reader /\ queued' = queued
  BY SameEntry, SameAway DEF FlushTotal, FlushFails, queueVars, countVars
<1>3. OwnGaveUp(c, G)
  BY DEF GaveUp, OwnGaveUp
<1>4. local'[c].calls = local[c].calls /\ local'[c].failed = local[c].failed
  BY <1>1, WeightsTyped DEF FlushTotal, FlushFails, Stats
<1>5. CASE FlushTotal(c)
  <2>1. /\ flush'[c] = "fails" /\ local'[c].total = 0
        /\ local'[c].fails = local[c].fails
        /\ op'.total = op.total + local[c].total /\ op'.fails = op.fails
    BY <1>1, <1>5, WeightsTyped DEF FlushTotal, At, Stats
  <2>2. OwnGaveUp(c, G)'
    BY <1>1, <1>2, <1>3, <2>1 DEF OwnGaveUp
  <2>3. OwnBalance(c, G, G)
    BY <1>1, <1>2, <1>4, <2>1, WeightsTyped DEF OwnBalance
  <2> QED
    BY <2>2, <2>3
<1>6. CASE FlushFails(c)
  <2>1. /\ flush[c] = "fails" /\ flush'[c] \in {"none", "lookup"}
        /\ local'[c].fails = 0 /\ local'[c].total = local[c].total
        /\ op'.fails = op.fails + local[c].fails /\ op'.total = op.total
    BY <1>1, <1>6, WeightsTyped DEF FlushFails, At, Stats
  <2>2. OwnGaveUp(c, G)'
    BY <1>1, <1>2, <1>3, <1>4, <2>1 DEF OwnGaveUp
  <2>3. OwnBalance(c, G, G)
    BY <1>1, <1>2, <1>4, <2>1, WeightsTyped DEF OwnBalance
  <2> QED
    BY <2>2, <2>3
<1> QED
  BY <1>5, <1>6

(* An entry is made with nothing counted.                                  *)
LEMMA FlushEntryWeighs ==
    ASSUME Typed, OneEntry, NEW c \in Conns, FlushEntry(c),
           NEW G \in SUBSET Conns, GaveUp(G)
    PROVE  OwnGaveUp(c, G)' /\ OwnBalance(c, G, G)
<1>1. /\ UNCHANGED <<local, op, queued, decoded, reader>>
      /\ TurnedAway' = TurnedAway
  BY SameAway DEF FlushEntry, queueVars, countVars
<1>2. Calls' = Calls /\ Failed' = Failed
  <2>1. CASE UNCHANGED <<opmap, entries>>
    BY <2>1, SameEntry
  <2>2. CASE /\ opmap = 0 /\ opmap' = Len(entries) + 1
             /\ entries' = Append(entries, [calls |-> 0, fails |-> 0])
    <3>1. /\ Len(entries) = 0 /\ entries \in Seq(OpEntry)
          /\ [calls |-> 0, fails |-> 0] \in OpEntry
      BY <2>2 DEF OneEntry, Typed, EntryTyped, OpEntry
    <3>2. entries'[1] = [calls |-> 0, fails |-> 0] /\ opmap' = 1
      BY <2>2, <3>1, AppendProperties
    <3> QED
      BY <2>2, <3>2 DEF Calls, Failed
  <2> QED
    BY <2>1, <2>2 DEF FlushEntry, GetOpStats
<1>3. /\ flush[c] \in {"lookup", "create"}
      /\ flush'[c] \in {"lookup", "create", "calls"}
  BY WeightsTyped DEF FlushEntry, GetOpStats, At
<1>4. OwnGaveUp(c, G)'
  BY <1>1, <1>3 DEF GaveUp, OwnGaveUp
<1>5. OwnBalance(c, G, G)
  BY <1>1, <1>2 DEF OwnBalance
<1> QED
  BY <1>4, <1>5

(* The counts of the command go to its entry, and its failures to the      *)
(* total of the failures, too.                                             *)
LEMMA FlushCountsWeighs ==
    ASSUME Typed, OneEntry, NEW c \in Conns, FlushCalls(c) \/ FlushOpFails(c),
           NEW G \in SUBSET Conns, GaveUp(G)
    PROVE  OwnGaveUp(c, G)' /\ OwnBalance(c, G, G)
<1>1. /\ local[c] \in Stats /\ op \in [total : Nat, fails : Nat]
      /\ local[c].total \in Nat /\ local[c].fails \in Nat
      /\ local[c].calls \in Nat /\ local[c].failed \in Nat
      /\ queued[c] \in Nat /\ decoded[c] \in Nat
      /\ op.total \in Nat /\ op.fails \in Nat /\ Calls \in Nat /\ Failed \in Nat
  BY CountersTyped DEF Typed, StatsTyped
<1>2. /\ TurnedAway' = TurnedAway /\ opmap' = opmap
      /\ decoded' = decoded /\ reader' = reader /\ queued' = queued
  BY SameAway DEF FlushCalls, FlushOpFails, queueVars, countVars
<1>3. OwnGaveUp(c, G)
  BY DEF GaveUp, OwnGaveUp
<1>4. /\ flush[c] \in {"calls", "opfails"} /\ entry[c] = opmap /\ opmap # 0
      /\ opmap \in DOMAIN entries /\ entries[opmap] \in OpEntry
  <2>1. flush[c] \in {"calls", "opfails"}
    BY DEF FlushCalls, FlushOpFails
  <2>2. entry[c] = opmap /\ opmap \in 1..Len(entries) /\ entries \in Seq(OpEntry)
    BY <2>1 DEF OneEntry, Typed, EntryTyped
  <2> QED
    BY <2>1, <2>2, ElementOfSeq, LenProperties
<1>5. Calls = entries[opmap].calls /\ Failed = entries[opmap].fails
  BY <1>4 DEF Calls, Failed
<1>6. Calls' = entries'[opmap].calls /\ Failed' = entries'[opmap].fails
  BY <1>2, <1>4 DEF Calls, Failed
<1>7. /\ local'[c].total = local[c].total /\ local'[c].fails = local[c].fails
  BY <1>1, WeightsTyped DEF FlushCalls, FlushOpFails, Stats
<1>8. CASE FlushCalls(c)
  <2>1. /\ flush'[c] = "opfails" /\ local'[c].calls = 0
        /\ local'[c].failed = local[c].failed /\ op' = op
    BY <1>1, <1>8, WeightsTyped DEF FlushCalls, At, Stats
  <2>2. Calls' = Calls + local[c].calls /\ Failed' = Failed
    BY <1>4, <1>5, <1>6, <1>8 DEF FlushCalls, OpEntry
  <2>3. OwnGaveUp(c, G)'
    BY <1>1, <1>2, <1>3, <1>4, <1>7, <2>1 DEF OwnGaveUp
  <2>4. OwnBalance(c, G, G)
    BY <1>1, <1>2, <1>7, <2>1, <2>2, WeightsTyped DEF OwnBalance
  <2> QED
    BY <2>3, <2>4
<1>9. CASE FlushOpFails(c)
  <2>1. /\ flush'[c] = "none" /\ local'[c].failed = 0
        /\ local'[c].calls = local[c].calls
        /\ op'.total = op.total /\ op'.fails = op.fails + local[c].failed
    BY <1>1, <1>9, WeightsTyped DEF FlushOpFails, At, Stats
  <2>2. Calls' = Calls /\ Failed' = Failed + local[c].failed
    BY <1>4, <1>5, <1>6, <1>9 DEF FlushOpFails, OpEntry
  <2>3. OwnGaveUp(c, G)'
    BY <1>1, <1>2, <1>3, <1>4, <1>7, <2>1 DEF OwnGaveUp
  <2>4. OwnBalance(c, G, G)
    BY <1>1, <1>2, <1>7, <2>1, <2>2, WeightsTyped DEF OwnBalance
  <2> QED
    BY <2>3, <2>4
<1> QED
  BY <1>8, <1>9

LEMMA InitStats == Init => StatsInv
<1> SUFFICES ASSUME Init PROVE StatsInv
  OBVIOUS
<1>1. OneEntry /\ Drained /\ GaveUp({})
  BY DEF Init, OneEntry, Drained, GaveUp, NoStats
<1>2. \A c \in Conns : TotalOf[c] = 0 /\ FailsOf[c] = 0 /\ OpenOf[c] = 0
  BY DEF Init, TotalOf, FailsOf, OpenOf, NoStats
<1>3. Unflushed = 0 /\ FailsLeft = 0 /\ StillOpen = 0 /\ Received = 0
  BY <1>2, SumOfNothing DEF Init, Unflushed, FailsLeft, StillOpen, Received
<1>4. TurnedAway = {} /\ Cardinality({}) = 0
  BY FS_EmptySet DEF Init, TurnedAway
<1>5. Calls = 0 /\ Failed = 0 /\ op.total = 0 /\ op.fails = 0
  BY DEF Init, Calls, Failed
<1>6. Balance({})
  BY <1>3, <1>4, <1>5 DEF Balance
<1> QED
  BY <1>1, <1>6 DEF StatsInv

(* Every step of a session weighs the same on both sides.                  *)
LEMMA ActsWeigh ==
    ASSUME Typed, OneEntry, Drained, NEW c \in Conns, Acts(c),
           NEW G \in SUBSET Conns, GaveUp(G)
    PROVE  \E H \in SUBSET Conns :
              /\ \A d \in Conns \ {c} : d \in H <=> d \in G
              /\ OwnGaveUp(c, H)' /\ OwnBalance(c, G, H)
BY DecodeWeighs, CountWeighs, RejectWeighs, OthersWeighNothing,
   FlushTotalWeighs, FlushEntryWeighs, FlushCountsWeighs DEF Acts, Flush

LEMMA StepStatsInv ==
    ASSUME Typed, Typed', StatsInv, [Next]_vars
    PROVE  StatsInv'
<1>1. OneEntry /\ Drained
  BY DEF StatsInv
<1>2. PICK G \in SUBSET Conns : GaveUp(G) /\ Balance(G)
  BY DEF StatsInv
<1>3. CASE UNCHANGED <<countVars, queueVars, flush, local, opVars>>
  <2>1. UNCHANGED <<sess, reader, decoded, queued, flush, local, op, opmap,
                    entries, entry>>
    BY <1>3 DEF countVars, queueVars, opVars
  <2>2. OneEntry' /\ Drained' /\ GaveUp(G)'
    BY <1>1, <1>2, <2>1 DEF OneEntry, Drained, GaveUp
  <2>3. /\ TotalOf' = TotalOf /\ FailsOf' = FailsOf /\ OpenOf' = OpenOf
        /\ Calls' = Calls /\ Failed' = Failed /\ TurnedAway' = TurnedAway
    BY <2>1 DEF TotalOf, FailsOf, OpenOf, Calls, Failed, TurnedAway
  <2>4. /\ Unflushed' = Unflushed /\ FailsLeft' = FailsLeft
        /\ StillOpen' = StillOpen /\ Received' = Received
    BY <2>1, <2>3
       DEF Unflushed, FailsLeft, StillOpen, Received, SumOf, Tokens
  <2>5. Balance(G)'
    BY <1>2, <2>1, <2>3, <2>4 DEF Balance
  <2> QED
    BY <2>2, <2>5 DEF StatsInv
<1>4. ASSUME NEW c \in Conns, Acts(c)
      PROVE  StatsInv'
  <2>1. Elsewhere(c) /\ OneEntry' /\ Drained'
    BY <1>1, <1>4, OthersRest, StepOneEntry, StepDrained
  <2>2. PICK H \in SUBSET Conns :
               /\ \A d \in Conns \ {c} : d \in H <=> d \in G
               /\ OwnGaveUp(c, H)' /\ OwnBalance(c, G, H)
    BY <1>1, <1>2, <1>4, ActsWeigh
  <2>3. GaveUp(H)'
    BY <1>2, <2>1, <2>2, GaveUpMoves
  <2>4. Balance(H)'
    BY <1>2, <2>1, <2>2, BalanceMoves
  <2> QED
    BY <2>1, <2>3, <2>4 DEF StatsInv
<1> QED
  BY <1>3, <1>4 DEF Next, Acts, RouterMoves, AcceptAgain, vars

THEOREM StatsInvariant == Spec => []StatsInv
BY InitStats, StepStatsInv, TypedInvariant, PTL DEF Spec

(* Nothing is lost between the sessions and the process: when every        *)
(* session is over, every command was counted once as received and once as *)
(* ended (session.go 153-160, 260-276, stats.go 93-110, 156-168).          *)
THEOREM CountsEveryCommand == Spec => []StatisticsComplete
<1>1. Typed /\ StatsInv => StatisticsComplete
  <2> SUFFICES ASSUME Typed, StatsInv,
                      \A c \in Conns : sess[c] \in {"none", "away", "over"}
               PROVE  /\ op.total = Cardinality(Commands)
                      /\ op.total + Cardinality({c \in Conns : sess[c] = "away"}) =
                            Calls + op.fails
    BY DEF StatisticsComplete
  <2>1. PICK G \in SUBSET Conns : Balance(G)
    BY DEF StatsInv
  <2>2. \A c \in Conns : TotalOf[c] = 0 /\ FailsOf[c] = 0 /\ OpenOf[c] = 0
    BY DEF StatsInv, Drained, TotalOf, FailsOf, OpenOf
  <2>3. Unflushed = 0 /\ FailsLeft = 0 /\ StillOpen = 0
    BY <2>2, SumOfNothing DEF Unflushed, FailsLeft, StillOpen
  <2>4. TurnedAway = {c \in Conns : sess[c] = "away"}
    BY DEF TurnedAway
  <2>5. /\ Cardinality(G) \in Nat /\ Cardinality(TurnedAway) \in Nat
        /\ Received \in Nat
    BY SomeConnsFinite, SumsTyped DEF TurnedAway
  <2>6. op.total \in Nat /\ op.fails \in Nat /\ Calls \in Nat /\ Failed \in Nat
    BY ReportTyped
  <2>7. Received = Cardinality(Commands)
    BY DEF Received, SumOf, Tokens, Commands
  <2> QED
    BY <2>1, <2>3, <2>4, <2>5, <2>6, <2>7 DEF Balance
<1> QED
  BY <1>1, TypedInvariant, StatsInvariant, PTL

-----------------------------------------------------------------------------
(* What a report reads of the counters.                                    *)

(* Totals are flushed before what they are the total of.                   *)
LEMMA EndedWereReceived ==
    ASSUME Typed, StatsInv
    PROVE  Calls + Failed <= op.total
<1>1. PICK G \in SUBSET Conns : GaveUp(G) /\ Balance(G)
  BY DEF StatsInv
<1>2. Unflushed <= StillOpen + Cardinality(G)
  <2>1. TotalOf \in [Conns -> Nat] /\ OpenOf \in [Conns -> Nat]
    BY CountersTyped DEF TotalOf, OpenOf
  <2>2. ASSUME NEW c \in Conns
        PROVE  TotalOf[c] <= OpenOf[c] + (IF c \in G THEN 1 ELSE 0)
    BY <1>1, CountersTyped DEF GaveUp, TotalOf, OpenOf
  <2> QED
    BY <2>1, <2>2, SumBounded DEF Unflushed, StillOpen
<1>3. /\ Cardinality(G) \in Nat
      /\ Unflushed \in Nat /\ StillOpen \in Nat /\ Received \in Nat
  BY SomeConnsFinite, SumsTyped
<1>4. op.total \in Nat /\ Calls \in Nat /\ Failed \in Nat
  BY ReportTyped
<1> QED
  BY <1>1, <1>2, <1>3, <1>4 DEF Balance

(* No step takes anything back from the counters that a report reads.      *)
LEMMA CountersGrow ==
    ASSUME Typed, OneEntry, [Next]_vars
    PROVE  /\ op'.total >= op.total
           /\ Calls' >= Calls /\ Failed' >= Failed
           /\ opmap # 0 => opmap' # 0
<1>1. op \in [total : Nat, fails : Nat] /\ Calls \in Nat /\ Failed \in Nat
  BY ReportTyped DEF Typed, StatsTyped
<1>2. CASE UNCHANGED <<op, opmap, entries>>
  BY <1>1, <1>2, SameEntry
<1>3. ASSUME NEW c \in Conns, FlushTotal(c) \/ FlushFails(c)
      PROVE  op'.total >= op.total /\ UNCHANGED <<opmap, entries>>
  BY <1>1, <1>3, CountersTyped DEF FlushTotal, FlushFails
<1>4. ASSUME NEW c \in Conns, FlushEntry(c)
      PROVE  /\ Calls' = Calls /\ Failed' = Failed /\ op' = op
             /\ opmap # 0 => opmap' # 0
  <2>1. op' = op
    BY <1>4 DEF FlushEntry
  <2>2. CASE UNCHANGED <<opmap, entries>>
    BY <2>1, <2>2, SameEntry
  <2>3. CASE /\ opmap = 0 /\ opmap' = Len(entries) + 1
             /\ entries' = Append(entries, [calls |-> 0, fails |-> 0])
    <3>1. /\ Len(entries) = 0 /\ entries \in Seq(OpEntry)
          /\ [calls |-> 0, fails |-> 0] \in OpEntry
      BY <2>3 DEF OneEntry, Typed, EntryTyped, OpEntry
    <3>2. entries'[1] = [calls |-> 0, fails |-> 0] /\ opmap' = 1
      BY <2>3, <3>1, AppendProperties
    <3> QED
      BY <2>1, <2>3, <3>2 DEF Calls, Failed
  <2> QED
    BY <1>4, <2>2, <2>3 DEF FlushEntry, GetOpStats
<1>5. ASSUME NEW c \in Conns, FlushCalls(c) \/ FlushOpFails(c)
      PROVE  /\ Calls' >= Calls /\ Failed' >= Failed /\ opmap' = opmap
             /\ op'.total = op.total
  <2>1. /\ opmap' = opmap /\ op'.total = op.total
        /\ flush[c] \in {"calls", "opfails"}
    BY <1>1, <1>5 DEF FlushCalls, FlushOpFails
  <2>2. entry[c] = opmap /\ opmap \in 1..Len(entries) /\ entries \in Seq(OpEntry)
    BY <2>1 DEF OneEntry, Typed, EntryTyped
  <2>3. opmap # 0 /\ opmap \in DOMAIN entries /\ entries[opmap] \in OpEntry
    BY <2>2, ElementOfSeq, LenProperties
  <2>4. /\ Calls = entries[opmap].calls /\ Failed = entries[opmap].fails
        /\ Calls' = entries'[opmap].calls /\ Failed' = entries'[opmap].fails
    BY <2>1, <2>3 DEF Calls, Failed
  <2>5. local[c].calls \in Nat /\ local[c].failed \in Nat
    BY CountersTyped
  <2>6. CASE FlushCalls(c)
    <3>1. Calls' = Calls + local[c].calls /\ Failed' = Failed
      BY <2>2, <2>3, <2>4, <2>6 DEF FlushCalls, OpEntry
    <3> QED
      BY <1>1, <2>1, <2>5, <3>1
  <2>7. CASE FlushOpFails(c)
    <3>1. Calls' = Calls /\ Failed' = Failed + local[c].failed
      BY <2>2, <2>3, <2>4, <2>7 DEF FlushOpFails, OpEntry
    <3> QED
      BY <1>1, <2>1, <2>5, <3>1
  <2> QED
    BY <1>5, <2>1, <2>6, <2>7
<1>6. ASSUME NEW c \in Conns, FlushTotal(c) \/ FlushFails(c)
      PROVE  /\ Calls' = Calls /\ Failed' = Failed
             /\ op'.total >= op.total /\ opmap' = opmap
  BY <1>3, <1>6, SameEntry
<1>7. ASSUME NEW c \in Conns, ~Flush(c), Acts(c)
      PROVE  UNCHANGED <<op, opmap, entries>>
  BY <1>7 DEF Acts, Accept, Admit, Reject, Decode, ReaderEnds, Count,
              LastFlush, SessionEnds, opVars
<1>8. CASE UNCHANGED vars \/ RouterMoves \/ AcceptAgain
  BY <1>2, <1>8 DEF RouterMoves, AcceptAgain, vars, opVars
<1>9. ASSUME NEW c \in Conns, Flush(c)
      PROVE  /\ op'.total >= op.total
             /\ Calls' >= Calls /\ Failed' >= Failed
             /\ opmap # 0 => opmap' # 0
  BY <1>1, <1>4, <1>5, <1>6, <1>9 DEF Flush
<1> QED
  BY <1>2, <1>7, <1>8, <1>9 DEF Next, Acts

ReportTypeOK ==
    /\ stats \in {"idle", "calls", "fails", "shown"}
    /\ report \in [total : Nat, calls : Nat, fails : Nat]

(* What was read is not more than the counter is now.                      *)
ReportInv ==
    /\ ReportTypeOK
    /\ report.total <= op.total
    /\ stats = "fails" => opmap # 0 /\ report.calls <= Calls
    /\ stats # "shown" => report.fails = 0
    /\ stats \in {"idle", "calls"} => report.calls = 0
    /\ stats = "shown" => report.calls <= Calls /\ report.fails <= Failed

LEMMA InitReport == ReportInit => ReportInv
<1> SUFFICES ASSUME ReportInit PROVE ReportInv
  OBVIOUS
<1>1. Calls = 0 /\ Failed = 0 /\ op.total = 0
  BY DEF ReportInit, Init, Calls, Failed
<1> QED
  BY <1>1 DEF ReportInit, ReportInv, ReportTypeOK, NoReport

(* The sessions only add to what the reports have read.                    *)
LEMMA SessionsReport ==
    ASSUME Typed, Typed', OneEntry, ReportInv, [Next]_vars, UNCHANGED statsVars
    PROVE  ReportInv'
<1>1. /\ op.total \in Nat /\ Calls \in Nat /\ Failed \in Nat
  BY ReportTyped
<1>2. op'.total \in Nat /\ Calls' \in Nat /\ Failed' \in Nat
  <2>1. op' \in [total : Nat, fails : Nat]
    BY DEF Typed, StatsTyped
  <2>2. (opmap # 0 => entries[opmap] \in OpEntry)'
    <3>1. entries' \in Seq(OpEntry) /\ opmap' \in 0..Len(entries')
      BY DEF Typed, EntryTyped
    <3> QED
      BY <3>1, ElementOfSeq, LenProperties
  <2> QED
    BY <2>1, <2>2 DEF OpEntry, Calls, Failed
<1>3. /\ op'.total >= op.total /\ Calls' >= Calls /\ Failed' >= Failed
      /\ opmap # 0 => opmap' # 0
  BY CountersGrow
<1>4. /\ report.total \in Nat /\ report.calls \in Nat /\ report.fails \in Nat
  BY DEF ReportInv, ReportTypeOK
<1> QED
  BY <1>1, <1>2, <1>3, <1>4 DEF ReportInv, ReportTypeOK, statsVars

(* Each reading takes what the counter is at that moment.                  *)
LEMMA ReadingReports ==
    ASSUME Typed, ReportInv, ReadTotal \/ ReadCalls \/ ReadFails \/ Answered
    PROVE  ReportInv'
<1>1. /\ op.total \in Nat /\ Calls \in Nat /\ Failed \in Nat
      /\ UNCHANGED <<op, opmap, entries>>
  BY ReportTyped DEF ReadTotal, ReadCalls, ReadFails, Answered, vars, opVars
<1>2. op' = op /\ opmap' = opmap /\ Calls' = Calls /\ Failed' = Failed
  BY <1>1, SameEntry
<1>3. report \in [total : Nat, calls : Nat, fails : Nat]
  BY DEF ReportInv, ReportTypeOK
<1>4. CASE ReadTotal
  <2>1. /\ stats = "idle" /\ stats' = "calls"
        /\ report' = [total |-> op.total, calls |-> 0, fails |-> 0]
    BY <1>4 DEF ReadTotal, NoReport
  <2> QED
    BY <1>1, <1>2, <1>3, <2>1 DEF ReportInv, ReportTypeOK
<1>5. CASE ReadCalls
  <2>1. CASE opmap = 0
    <3>1. /\ stats = "calls" /\ stats' = "shown"
          /\ report' = report /\ Calls = 0 /\ Failed = 0
      BY <1>5, <2>1 DEF ReadCalls, Calls, Failed
    <3> QED
      BY <1>1, <1>2, <1>3, <3>1 DEF ReportInv, ReportTypeOK
  <2>2. CASE opmap # 0
    <3>1. /\ stats = "calls" /\ stats' = "fails"
          /\ report' = [report EXCEPT !.calls = Calls]
      BY <1>5, <2>2 DEF ReadCalls, Calls
    <3> QED
      BY <1>1, <1>2, <1>3, <2>2, <3>1 DEF ReportInv, ReportTypeOK
  <2> QED
    BY <2>1, <2>2
<1>6. CASE ReadFails
  <2>1. /\ stats = "fails" /\ stats' = "shown"
        /\ report' = [report EXCEPT !.fails = Failed]
    BY <1>6 DEF ReadFails, Failed, ReportInv
  <2> QED
    BY <1>1, <1>2, <1>3, <2>1 DEF ReportInv, ReportTypeOK
<1>7. CASE Answered
  <2>1. /\ stats = "shown" /\ stats' = "idle"
        /\ report' = [total |-> 0, calls |-> 0, fails |-> 0]
    BY <1>7 DEF Answered, NoReport
  <2> QED
    BY <1>1, <1>2, <1>3, <2>1 DEF ReportInv, ReportTypeOK
<1> QED
  BY <1>4, <1>5, <1>6, <1>7

(* Reading changes nothing for the sessions.                               *)
LEMMA ReportsRefine == ReportSpec => Spec
<1>1. ReportInit => Init
  BY DEF ReportInit
<1>2. [ReportNext]_reportVars => [Next]_vars
  BY DEF ReportNext, ReadTotal, ReadCalls, ReadFails, Answered, reportVars
<1> QED
  BY <1>1, <1>2, PTL DEF ReportSpec, Spec

THEOREM ReportInvariant == ReportSpec => []ReportInv
<1>1. Typed /\ Typed' /\ StatsInv /\ ReportInv /\ [ReportNext]_reportVars
      => ReportInv'
  <2> SUFFICES ASSUME Typed, Typed', StatsInv, ReportInv,
                      [ReportNext]_reportVars
               PROVE  ReportInv'
    OBVIOUS
  <2>1. OneEntry
    BY DEF StatsInv
  <2>2. CASE (Next /\ UNCHANGED statsVars) \/ UNCHANGED reportVars
    BY <2>1, <2>2, SessionsReport DEF reportVars
  <2>3. CASE ReadTotal \/ ReadCalls \/ ReadFails \/ Answered
    BY <2>3, ReadingReports
  <2> QED
    BY <2>2, <2>3 DEF ReportNext
<1> QED
  BY InitReport, <1>1, ReportsRefine, TypedInvariant, StatsInvariant, PTL
     DEF ReportSpec

(* What a report shows as ended was received by the time it is complete:   *)
(* however the sessions flush between its readings, it exceeds its own     *)
(* total at most by what came since (session.go 260-271, proxy.go 399-406).*)
THEOREM EndsOnlyWhatCame == ReportSpec => []ReportedWereReceived
<1>1. Typed /\ StatsInv /\ ReportInv => ReportedWereReceived
  <2> SUFFICES ASSUME Typed, StatsInv, ReportInv, stats = "shown"
               PROVE  report.calls + report.fails <= op.total
    BY DEF ReportedWereReceived
  <2>1. /\ op.total \in Nat /\ Calls \in Nat /\ Failed \in Nat
        /\ report.calls \in Nat /\ report.fails \in Nat
    BY ReportTyped DEF ReportInv, ReportTypeOK
  <2>2. report.calls <= Calls /\ report.fails <= Failed
    BY DEF ReportInv
  <2>3. Calls + Failed <= op.total
    BY EndedWereReceived
  <2> QED
    BY <2>1, <2>2, <2>3
<1> QED
  BY <1>1, ReportsRefine, TypedInvariant, StatsInvariant, ReportInvariant, PTL

=============================================================================
