----------------------- MODULE SnapshotManagerProofs -----------------------
(***************************************************************************)
(* Safety of SnapshotManager for any set of readers, any set of writers of *)
(* which at most one can have a candidate accepted, and any offers.        *)
(*                                                                         *)
(* CounterTrailsPointer is not inductive alone: that a store keeps it      *)
(* depends on the accepted candidate still being newer than the pointer    *)
(* when it is stored, which holds because no second writer can stand       *)
(* between its check and its stores (SoleWriter), and on the pointer being *)
(* the newest generation ever active (PointerIsNewest).                    *)
(***************************************************************************)
EXTENDS SnapshotManager, TLAPS

\* A writer past the checks holds one of its own offers, newer than the
\* bootstrap policy.
Active(w) == writer_pc[w] # "idle"

HoldsOwnOffer ==
    \A w \in Writers : Active(w) =>
        /\ candidate[w] \in Offers[w]
        /\ candidate[w].generation > Bootstrap.generation
        /\ HasVersionHash(candidate[w])

SoleWriter == \A v, w \in Writers : Active(v) /\ Active(w) => v = w

\* Between the check and the first store the candidate stays newer than the
\* pointer; between the stores the candidate is the pointer.
CandidateFresh ==
    \A w \in Writers :
        /\ writer_pc[w] = "store_snapshot" =>
               candidate[w].generation > active_snapshot.generation
        /\ writer_pc[w] = "store_generation" =>
               candidate[w] = active_snapshot

PointerIsNewest ==
    /\ Bootstrap.generation <= global_generation
    /\ \A g \in installed : g <= active_snapshot.generation

\* A reader between its two loads: the pointer it holds is at most one
\* policy ahead of the counter it is about to load.
ReaderBetweenLoads ==
    \A r \in Readers :
        /\ snapshot[r].generation <= active_snapshot.generation
        /\ reader_pc[r] = "snapshot_loaded" =>
               Adjacent(global_generation, snapshot[r].generation)

IInv ==
    /\ TypeOK
    /\ HoldsOwnOffer
    /\ SoleWriter
    /\ CandidateFresh
    /\ PointerIsNewest
    /\ CounterTrailsPointer
    /\ ReaderBetweenLoads
    /\ ReaderSkewBounded

-----------------------------------------------------------------------------
\* Generations of everything a variable can hold are natural numbers, and
\* every offer is a snapshot.
LEMMA OfferFacts ==
    /\ \A w \in Writers : Offers[w] \subseteq Snapshots
    /\ Bootstrap \in Snapshots
    /\ \A s \in Snapshots : s.generation \in Nat
BY SnapshotAssumption DEF Snapshots, AllOffers

LEMMA NothingBetween ==
    ASSUME installed \in SUBSET Nat, NEW lo \in Nat, NEW hi \in Nat, hi <= lo
    PROVE  Adjacent(lo, hi)
BY DEF Adjacent

\* The initial state satisfies the inductive invariant.
LEMMA InitIInv == Init => IInv
<1> SUFFICES ASSUME Init PROVE IInv
    OBVIOUS
<1> USE OfferFacts DEF Init
<1>1. TypeOK
    BY DEF TypeOK
<1>2. HoldsOwnOffer /\ SoleWriter
    BY DEF HoldsOwnOffer, SoleWriter, Active
<1>3. CandidateFresh
    BY DEF CandidateFresh
<1>4. PointerIsNewest /\ CounterTrailsPointer
    BY DEF PointerIsNewest, CounterTrailsPointer, Adjacent
<1>5. ReaderBetweenLoads /\ ReaderSkewBounded
    BY DEF ReaderBetweenLoads, ReaderSkewBounded, Adjacent
<1> QED
    BY <1>1, <1>2, <1>3, <1>4, <1>5 DEF IInv

\* Only the one effective writer can have a candidate accepted.
LEMMA AcceptedWriterIsSole ==
    ASSUME IInv, NEW w \in Writers, NEW c \in Offers[w],
           Acceptable(c), writer_pc[w] = "idle"
    PROVE  /\ c.generation > Bootstrap.generation
           /\ c.generation > global_generation
           /\ \A v \in Writers : ~Active(v)
<1>1. /\ c.generation \in Nat
      /\ global_generation \in Nat
      /\ Bootstrap.generation \in Nat
      /\ Bootstrap.generation <= global_generation
    BY OfferFacts DEF IInv, TypeOK, PointerIsNewest
<1>2. c.generation > global_generation /\ c.generation > Bootstrap.generation
    BY <1>1 DEF Acceptable
<1>3. ASSUME NEW v \in Writers, Active(v) PROVE FALSE
    <2>1. /\ candidate[v] \in Offers[v]
          /\ candidate[v].generation > Bootstrap.generation
        BY <1>3 DEF IInv, HoldsOwnOffer
    <2>2. v # w
        BY <1>3 DEF Active
    <2>3. candidate[v].generation \in Nat
        BY <2>1, OfferFacts
    <2> QED
        BY <1>1, <1>2, <2>1, <2>2, <2>3, OneEffectiveWriter
<1> QED
    BY <1>2, <1>3

-----------------------------------------------------------------------------
LEMMA AcceptKeepsIInv ==
    ASSUME IInv, NEW w \in Writers, NEW c \in Offers[w], AcceptCandidate(w, c)
    PROVE  IInv'
<1> USE OfferFacts DEF AcceptCandidate, manager_vars, reader_vars
<1>1. /\ c.generation > Bootstrap.generation
      /\ c.generation > global_generation
      /\ \A v \in Writers : ~Active(v)
      /\ HasVersionHash(c)
    BY AcceptedWriterIsSole DEF Acceptable
<1>2. TypeOK'
    BY DEF IInv, TypeOK
<1>3. HoldsOwnOffer' /\ SoleWriter'
    BY <1>1 DEF IInv, TypeOK, HoldsOwnOffer, SoleWriter, Active
<1>4. global_generation = active_snapshot.generation
    BY <1>1 DEF IInv, CounterTrailsPointer, Active
<1>5. CandidateFresh'
    BY <1>1, <1>4 DEF IInv, TypeOK, CandidateFresh, Active
<1>6. PointerIsNewest' /\ CounterTrailsPointer'
    BY <1>4 DEF IInv, TypeOK, PointerIsNewest, CounterTrailsPointer, Adjacent
<1>7. ReaderBetweenLoads' /\ ReaderSkewBounded'
    BY DEF IInv, ReaderBetweenLoads, ReaderSkewBounded, Adjacent
<1> QED
    BY <1>2, <1>3, <1>5, <1>6, <1>7 DEF IInv

LEMMA RejectKeepsIInv ==
    ASSUME IInv, NEW w \in Writers, NEW c \in Offers[w], RejectCandidate(w, c)
    PROVE  IInv'
<1> USE DEF RejectCandidate, manager_vars, reader_vars
<1>1. TypeOK'
    BY DEF IInv, TypeOK
<1>2. HoldsOwnOffer' /\ SoleWriter' /\ CandidateFresh'
    BY DEF IInv, HoldsOwnOffer, SoleWriter, CandidateFresh, Active
<1>3. PointerIsNewest' /\ CounterTrailsPointer'
    BY DEF IInv, PointerIsNewest, CounterTrailsPointer, Adjacent
<1>4. ReaderBetweenLoads' /\ ReaderSkewBounded'
    BY DEF IInv, ReaderBetweenLoads, ReaderSkewBounded, Adjacent
<1> QED
    BY <1>1, <1>2, <1>3, <1>4 DEF IInv

LEMMA StoreSnapshotKeepsIInv ==
    ASSUME IInv, NEW w \in Writers, StoreSnapshot(w)
    PROVE  IInv'
<1> USE OfferFacts DEF StoreSnapshot, reader_vars
<1>1. /\ candidate[w] \in Snapshots
      /\ candidate[w].generation \in Nat
      /\ active_snapshot.generation \in Nat
      /\ global_generation \in Nat
      /\ Bootstrap.generation \in Nat
      /\ candidate[w].generation > active_snapshot.generation
    BY DEF IInv, TypeOK, CandidateFresh
<1>2. \A v \in Writers : Active(v) <=> v = w
    BY DEF IInv, SoleWriter, Active
<1>3. global_generation = active_snapshot.generation
    BY <1>2 DEF IInv, CounterTrailsPointer, Active
<1>4. TypeOK'
    BY <1>1 DEF IInv, TypeOK
<1>5. HoldsOwnOffer' /\ SoleWriter'
    BY <1>2 DEF IInv, TypeOK, HoldsOwnOffer, SoleWriter, Active
<1>6. CandidateFresh'
    BY <1>2 DEF IInv, TypeOK, CandidateFresh, Active
<1>7. PointerIsNewest'
    BY <1>1 DEF IInv, TypeOK, PointerIsNewest
<1>8. CounterTrailsPointer'
    BY <1>1, <1>3 DEF IInv, TypeOK, PointerIsNewest, CounterTrailsPointer, Adjacent
<1>9. ASSUME NEW r \in Readers
      PROVE  /\ (snapshot[r].generation <= active_snapshot.generation)'
             /\ (reader_pc[r] = "snapshot_loaded" =>
                     Adjacent(global_generation, snapshot[r].generation))'
             /\ (reader_pc[r] = "both_loaded" =>
                     Adjacent(current_gen[r], snapshot[r].generation))'
    <2>1. /\ snapshot[r].generation \in Nat
          /\ current_gen[r] \in Nat
          /\ installed \in SUBSET Nat
          /\ snapshot[r].generation <= active_snapshot.generation
        BY DEF IInv, TypeOK, ReaderBetweenLoads
    <2>2. snapshot[r].generation < candidate[w].generation
        BY <1>1, <2>1
    <2>3. ASSUME NEW lo \in Nat, Adjacent(lo, snapshot[r].generation)
          PROVE  Adjacent(lo, snapshot[r].generation)'
        BY <1>1, <2>1, <2>2, <2>3 DEF Adjacent
    <2>4. reader_pc[r] = "snapshot_loaded" =>
              Adjacent(global_generation, snapshot[r].generation)
        BY DEF IInv, ReaderBetweenLoads
    <2>5. reader_pc[r] = "both_loaded" =>
              Adjacent(current_gen[r], snapshot[r].generation)
        BY DEF IInv, ReaderSkewBounded
    <2> QED
        BY <1>1, <2>1, <2>2, <2>3, <2>4, <2>5 DEF Adjacent
<1>10. ReaderBetweenLoads' /\ ReaderSkewBounded'
    BY <1>9 DEF ReaderBetweenLoads, ReaderSkewBounded
<1> QED
    BY <1>4, <1>5, <1>6, <1>7, <1>8, <1>10 DEF IInv

LEMMA StoreGenerationKeepsIInv ==
    ASSUME IInv, NEW w \in Writers, StoreGeneration(w)
    PROVE  IInv'
<1> USE OfferFacts DEF StoreGeneration, reader_vars
<1>1. /\ candidate[w] = active_snapshot
      /\ active_snapshot.generation \in Nat
      /\ global_generation \in Nat
      /\ Bootstrap.generation \in Nat
      /\ global_generation <= active_snapshot.generation
    BY DEF IInv, TypeOK, CandidateFresh, CounterTrailsPointer
<1>2. \A v \in Writers : Active(v) <=> v = w
    BY DEF IInv, SoleWriter, Active
<1>3. TypeOK'
    BY <1>1 DEF IInv, TypeOK
<1>4. HoldsOwnOffer' /\ SoleWriter' /\ CandidateFresh'
    BY <1>2 DEF IInv, TypeOK, HoldsOwnOffer, SoleWriter, CandidateFresh, Active
<1>5. PointerIsNewest' /\ CounterTrailsPointer'
    BY <1>1 DEF IInv, TypeOK, PointerIsNewest, CounterTrailsPointer, Adjacent
<1>6. ASSUME NEW r \in Readers
      PROVE  Adjacent(active_snapshot.generation, snapshot[r].generation)
    <2>1. /\ snapshot[r].generation \in Nat
          /\ installed \in SUBSET Nat
          /\ snapshot[r].generation <= active_snapshot.generation
        BY DEF IInv, TypeOK, ReaderBetweenLoads
    <2> QED
        BY <1>1, <2>1, NothingBetween
<1>7. ReaderBetweenLoads' /\ ReaderSkewBounded'
    BY <1>1, <1>6
    DEF IInv, ReaderBetweenLoads, ReaderSkewBounded, Adjacent
<1> QED
    BY <1>3, <1>4, <1>5, <1>7 DEF IInv

LEMMA LoadSnapshotKeepsIInv ==
    ASSUME IInv, NEW r \in Readers, LoadSnapshot(r)
    PROVE  IInv'
<1> USE OfferFacts DEF LoadSnapshot, manager_vars, writer_vars
<1>1. TypeOK'
    BY DEF IInv, TypeOK
<1>2. HoldsOwnOffer' /\ SoleWriter' /\ CandidateFresh'
    BY DEF IInv, HoldsOwnOffer, SoleWriter, CandidateFresh, Active
<1>3. PointerIsNewest' /\ CounterTrailsPointer'
    BY DEF IInv, PointerIsNewest, CounterTrailsPointer, Adjacent
<1>4. ReaderBetweenLoads'
    BY DEF IInv, TypeOK, ReaderBetweenLoads, CounterTrailsPointer, Adjacent
<1>5. ReaderSkewBounded'
    BY DEF IInv, TypeOK, ReaderSkewBounded, Adjacent
<1> QED
    BY <1>1, <1>2, <1>3, <1>4, <1>5 DEF IInv

LEMMA LoadGenerationKeepsIInv ==
    ASSUME IInv, NEW r \in Readers, LoadGeneration(r)
    PROVE  IInv'
<1> USE DEF LoadGeneration, manager_vars, writer_vars
<1>1. TypeOK'
    BY DEF IInv, TypeOK
<1>2. HoldsOwnOffer' /\ SoleWriter' /\ CandidateFresh'
    BY DEF IInv, HoldsOwnOffer, SoleWriter, CandidateFresh, Active
<1>3. PointerIsNewest' /\ CounterTrailsPointer'
    BY DEF IInv, PointerIsNewest, CounterTrailsPointer, Adjacent
<1>4. ReaderBetweenLoads' /\ ReaderSkewBounded'
    BY DEF IInv, TypeOK, ReaderBetweenLoads, ReaderSkewBounded, Adjacent
<1> QED
    BY <1>1, <1>2, <1>3, <1>4 DEF IInv

LEMMA NextIInv == IInv /\ [Next]_vars => IInv'
<1> SUFFICES ASSUME IInv, [Next]_vars PROVE IInv'
    OBVIOUS
<1>1. CASE \E w \in Writers : \E c \in Offers[w] : AcceptCandidate(w, c)
    BY <1>1, AcceptKeepsIInv
<1>2. CASE \E w \in Writers : \E c \in Offers[w] : RejectCandidate(w, c)
    BY <1>2, RejectKeepsIInv
<1>3. CASE \E w \in Writers : StoreSnapshot(w)
    BY <1>3, StoreSnapshotKeepsIInv
<1>4. CASE \E w \in Writers : StoreGeneration(w)
    BY <1>4, StoreGenerationKeepsIInv
<1>5. CASE \E r \in Readers : LoadSnapshot(r)
    BY <1>5, LoadSnapshotKeepsIInv
<1>6. CASE \E r \in Readers : LoadGeneration(r)
    BY <1>6, LoadGenerationKeepsIInv
<1>7. CASE UNCHANGED vars
    BY <1>7 DEF vars, manager_vars, writer_vars, reader_vars, IInv, TypeOK,
        HoldsOwnOffer, SoleWriter, Active, CandidateFresh, PointerIsNewest,
        CounterTrailsPointer, ReaderBetweenLoads, ReaderSkewBounded, Adjacent
<1> QED
    BY <1>1, <1>2, <1>3, <1>4, <1>5, <1>6, <1>7 DEF Next, Publish

LEMMA InductiveInvariant == Spec => []IInv
BY InitIInv, NextIInv, PTL DEF Spec

-----------------------------------------------------------------------------
\* Every variable keeps its type, whatever the interleaving.
THEOREM TypeCorrect == Spec => []TypeOK
<1>1. IInv => TypeOK
    BY DEF IInv
<1> QED
    BY <1>1, InductiveInvariant, PTL

\* The counter never overtakes the pointer and lags it by at most the one
\* policy being published (the two stores of atomic_snapshot.cpp:50-53).
THEOREM CounterTrails == Spec => []CounterTrailsPointer
<1>1. IInv => CounterTrailsPointer
    BY DEF IInv
<1> QED
    BY <1>1, InductiveInvariant, PTL

\* The unlocked pair of loads of main.cpp:158-159 is off by one policy at
\* most in the dangerous direction, for any number of readers.
THEOREM SkewBounded == Spec => []ReaderSkewBounded
<1>1. IInv => ReaderSkewBounded
    BY DEF IInv
<1> QED
    BY <1>1, InductiveInvariant, PTL

LEMMA StepMonotone ==
    ASSUME IInv, [Next]_vars
    PROVE  /\ global_generation' >= global_generation
           /\ active_snapshot' # active_snapshot
                => /\ \E w \in Writers : candidate[w] \in Offers[w]
                                       /\ active_snapshot' = candidate[w]
                   /\ active_snapshot'.generation > active_snapshot.generation
                   /\ HasVersionHash(active_snapshot')
<1>1. global_generation \in Nat /\ global_generation >= global_generation
    BY DEF IInv, TypeOK
<1>2. CASE \E w \in Writers : StoreSnapshot(w)
    <2>1. PICK w \in Writers : StoreSnapshot(w)
        BY <1>2
    <2>2. /\ candidate[w] \in Offers[w]
          /\ candidate[w].generation > active_snapshot.generation
          /\ HasVersionHash(candidate[w])
        BY <2>1 DEF IInv, HoldsOwnOffer, CandidateFresh, StoreSnapshot, Active
    <2> QED
        BY <1>1, <2>1, <2>2 DEF StoreSnapshot
<1>3. CASE \E w \in Writers : StoreGeneration(w)
    <2>1. PICK w \in Writers : StoreGeneration(w)
        BY <1>3
    <2>2. /\ candidate[w] = active_snapshot
          /\ global_generation <= active_snapshot.generation
          /\ active_snapshot.generation \in Nat
        BY <2>1, OfferFacts
        DEF IInv, TypeOK, CandidateFresh, CounterTrailsPointer, StoreGeneration
    <2> QED
        BY <1>1, <2>1, <2>2 DEF StoreGeneration
<1>4. CASE UNCHANGED manager_vars
    BY <1>1, <1>4 DEF manager_vars
<1> QED
    BY <1>2, <1>3, <1>4
    DEF Next, Publish, AcceptCandidate, RejectCandidate, LoadSnapshot,
        LoadGeneration, vars, manager_vars

\* A replaced or rejected policy never becomes active and the counter never
\* goes back (ADR-002).
THEOREM NoRollback == Spec => NeverRollsBack
<1>1. IInv /\ [Next]_vars =>
        [/\ global_generation' >= global_generation
         /\ active_snapshot' # active_snapshot
              => active_snapshot'.generation > active_snapshot.generation]_vars
    BY StepMonotone
<1> QED
    BY <1>1, InductiveInvariant, PTL DEF Spec, NeverRollsBack

\* The two-atomic publication implements the one-register abstraction: every
\* step of it, seen through the pointer, is an install or a stutter.
THEOREM RegisterRefined == Spec => ImplementsRegister
<1>1. Init => Register!Init
    BY DEF Init, Register!Init
<1>2. IInv /\ [Next]_vars => [Register!Next]_active_snapshot
    <2> SUFFICES ASSUME IInv, [Next]_vars, active_snapshot' # active_snapshot
                 PROVE  Register!Next
        OBVIOUS
    <2>1. PICK w \in Writers :
            /\ candidate[w] \in Offers[w]
            /\ active_snapshot' = candidate[w]
            /\ active_snapshot'.generation > active_snapshot.generation
            /\ HasVersionHash(active_snapshot')
        BY StepMonotone
    <2>2. candidate[w] \in AllOffers
        BY <2>1 DEF AllOffers
    <2>3. Register!Install(candidate[w])
        BY <2>1
        DEF Register!Install, Register!Supersedes, Register!HasVersionHash,
            HasVersionHash
    <2> QED
        BY <2>2, <2>3 DEF Register!Next
<1> QED
    BY <1>1, <1>2, InductiveInvariant, PTL DEF Spec, ImplementsRegister, Register!Spec

=============================================================================
