-------------------------- MODULE RoundStateProofs --------------------------
(***************************************************************************)
(* The invariants of RoundState, for every finite set of outpoints, every   *)
(* pair of participant bounds that the configuration admits and any number  *)
(* of rounds.                                                               *)
(***************************************************************************)
EXTENDS RoundState, FiniteSetTheorems, TLAPS

-----------------------------------------------------------------------------
(* Sets of outpoints.                                                      *)

\* Registrations, outputs and signatures are finite sets with a size.
LEMMA UtxoSetsAreFinite ==
    ASSUME NEW S \in SUBSET Utxos
    PROVE  IsFiniteSet(S) /\ Cardinality(S) \in Nat
BY RoundAssumption, FS_Subset, FS_CardinalityType

\* A set inside another and at least as large is the other: what the size
\* comparisons of the early advances and of has_missing_outputs establish.
LEMMA FullSubset ==
    ASSUME NEW T \in SUBSET Utxos, NEW S \in SUBSET T,
           Cardinality(S) >= Cardinality(T)
    PROVE  S = T
<1>1. IsFiniteSet(T)
  BY UtxoSetsAreFinite
<1>2. /\ Cardinality(S) <= Cardinality(T)
      /\ Cardinality(T) = Cardinality(S) => T = S
  BY <1>1, FS_Subset
<1>3. Cardinality(S) \in Nat /\ Cardinality(T) \in Nat
  BY UtxoSetsAreFinite
<1> QED
  BY <1>2, <1>3

\* RegisterInput adds one coin to the inputs, and one to their number.
LEMMA OneMoreInput ==
    ASSUME TypeOK, NEW u \in Utxos \ Inputs, NEW k \in Nat \ {0},
           registered' = [registered EXCEPT ![u] = k]
    PROVE  /\ Inputs' = Inputs \cup {u}
           /\ Cardinality(Inputs') = Cardinality(Inputs) + 1
<1>1. Inputs' = Inputs \cup {u}
  BY DEF Inputs, TypeOK, None
<1>2. IsFiniteSet(Inputs)
  BY UtxoSetsAreFinite DEF Inputs
<1> QED
  BY <1>1, <1>2, FS_AddElement

-----------------------------------------------------------------------------
(* Ways a step can change the round.                                       *)

\* An emptied round satisfies the invariant: transition_to(Idle) and a restart.
LEMMA ResetKeepsInv ==
    ASSUME RoundInv, Reset, roundId <= MaxRounds
    PROVE  RoundInv'
<1>1. Inputs' = {}
  BY DEF Reset, Inputs
<1>2. TypeOK'
  BY RoundAssumption DEF RoundInv, TypeOK, Reset, Phases, None
<1>3. CountIsInputs'
  BY <1>1, FS_EmptySet DEF CountIsInputs, Reset
<1> QED
  BY <1>1, <1>2, <1>3 DEF RoundInv, Reset, MaterialIsTheRounds, OpenRoundInBound,
     QuorumReached, ClosedByCount, OutputsAreRedeemed, SigsAreInputs,
     SealedIsBalanced, BroadcastIsFullySigned, Sealed

\* Ending a round, with or without Blame, is a Reset of a round within the bound.
LEMMA EndsAreResets ==
    ASSUME RoundInv, EndRound \/ EndRoundViaBlame
    PROVE  Reset /\ roundId <= MaxRounds
<1>1. ~CanTransition("Idle", "Idle") /\ ~CanTransition("Idle", "Blame")
  BY DEF CanTransition, Edges
<1> QED
  BY <1>1 DEF RoundInv, OpenRoundInBound, EndRound, EndRoundViaBlame

\* Closing input registration on a quorum keeps the invariant.
LEMMA CloseInputsKeepsInv ==
    ASSUME RoundInv, phase = "InputReg", participantCount >= MinParticipants,
           Advance("OutputReg")
    PROVE  RoundInv'
<1>1. Inputs' = Inputs
  BY DEF Advance, Inputs
<1>2. ClosedByCount'
  BY FS_EmptySet, RoundAssumption DEF RoundInv, TypeOK, OutputsAreRedeemed, Advance,
     ClosedByCount
<1> QED
  BY <1>1, <1>2 DEF RoundInv, Advance, TypeOK, Phases, CountIsInputs,
     MaterialIsTheRounds, OpenRoundInBound, QuorumReached, OutputsAreRedeemed,
     SigsAreInputs, SealedIsBalanced, BroadcastIsFullySigned, Sealed

-----------------------------------------------------------------------------
(* One lemma for each critical section.                                    *)

LEMMA InstallKeepsInv ==
    ASSUME RoundInv, roundId <= MaxRounds, InstallRound(roundId)
    PROVE  RoundInv'
<1>1. Inputs' = {} /\ Inputs = {}
  BY DEF InstallRound, Inputs, RoundInv, MaterialIsTheRounds
<1>2. TypeOK'
  BY RoundAssumption DEF RoundInv, TypeOK, InstallRound, Phases, None
<1>3. CountIsInputs'
  BY <1>1 DEF CountIsInputs, InstallRound, RoundInv
<1>4. ClosedByCount'
  BY <1>1, FS_EmptySet, RoundAssumption DEF ClosedByCount, RoomForOne, CountIsInputs,
     InstallRound, RoundInv
<1> QED
  BY <1>1, <1>2, <1>3, <1>4 DEF RoundInv, InstallRound, MaterialIsTheRounds,
     OpenRoundInBound, QuorumReached, OutputsAreRedeemed, SigsAreInputs,
     SealedIsBalanced, BroadcastIsFullySigned, Sealed

LEMMA RegisterKeepsInv ==
    ASSUME RoundInv, NEW u \in Utxos, NEW k \in 1..roundId, RegisterInput(u, k)
    PROVE  RoundInv'
<1>1. roundId \in Nat /\ roundId <= MaxRounds /\ MaxRounds \in Nat
  BY RoundAssumption DEF RoundInv, TypeOK, OpenRoundInBound, RegisterInput
<1>2. k \in Nat \ {0} /\ k \in 0..MaxRounds
  BY <1>1
<1>3. /\ Inputs' = Inputs \cup {u}
      /\ Cardinality(Inputs') = Cardinality(Inputs) + 1
  BY <1>2, OneMoreInput DEF RoundInv, RegisterInput
<1>4. TypeOK'
  BY <1>2, RoundAssumption DEF RoundInv, TypeOK, RegisterInput, RoomForOne, Phases
<1>5. CountIsInputs'
  BY <1>3 DEF RoundInv, CountIsInputs, RegisterInput
<1>6. QuorumReached'
  BY RoundAssumption DEF RoundInv, QuorumReached, RegisterInput, TypeOK
<1>7. OutputsAreRedeemed'
  BY DEF RoundInv, OutputsAreRedeemed, RegisterInput
<1>8. SigsAreInputs' /\ BroadcastIsFullySigned' /\ SealedIsBalanced'
  BY <1>3 DEF RoundInv, SigsAreInputs, BroadcastIsFullySigned, SealedIsBalanced,
     RegisterInput, Sealed
<1>9. MaterialIsTheRounds' /\ OpenRoundInBound'
  BY DEF RoundInv, MaterialIsTheRounds, OpenRoundInBound, RegisterInput
<1>10. ClosedByCount'
  BY FS_EmptySet, RoundAssumption DEF RoundInv, TypeOK, OutputsAreRedeemed,
     RegisterInput, ClosedByCount, RoomForOne
<1> QED
  BY <1>4, <1>5, <1>6, <1>7, <1>8, <1>9, <1>10 DEF RoundInv

LEMMA OutputKeepsInv ==
    ASSUME RoundInv, NEW u \in Utxos, HoldsToken(u), RecordOutput(u)
    PROVE  RoundInv'
<1>1. Inputs' = Inputs
  BY DEF RecordOutput, Inputs
<1>2. u \in Inputs /\ (u \in Blinding => registered[u] = roundId)
  BY DEF HoldsToken, Inputs, RoundInv, MaterialIsTheRounds, RecordOutput
<1>3. TypeOK'
  BY DEF RoundInv, TypeOK, RecordOutput, Phases
<1>4. OutputsAreRedeemed'
  BY <1>1, <1>2 DEF RoundInv, OutputsAreRedeemed, RecordOutput
<1>5. ASSUME phase' = "Signing"
      PROVE  outputs' = Inputs /\ Cardinality(Inputs) >= MinParticipants
  <2>1. Cardinality(outputs') >= Cardinality(Inputs)
    BY <1>5 DEF RecordOutput, AllOutputsIn, RoundInv, CountIsInputs
  <2>2. outputs' \subseteq Inputs /\ Inputs \subseteq Utxos
    BY <1>2 DEF RoundInv, OutputsAreRedeemed, RecordOutput, Inputs
  <2>3. outputs' = Inputs
    BY <2>1, <2>2, FullSubset
  <2> QED
    BY <2>3 DEF RoundInv, CountIsInputs, QuorumReached, RecordOutput
<1>6. SealedIsBalanced'
  BY <1>1, <1>5 DEF SealedIsBalanced, Sealed, RecordOutput
<1>7. SigsAreInputs' /\ BroadcastIsFullySigned'
  BY <1>1 DEF RoundInv, SigsAreInputs, BroadcastIsFullySigned, RecordOutput, Sealed
<1>8. /\ CountIsInputs' /\ MaterialIsTheRounds'
      /\ OpenRoundInBound' /\ QuorumReached'
  BY <1>1 DEF RoundInv, CountIsInputs, MaterialIsTheRounds, OpenRoundInBound,
     QuorumReached, RecordOutput
<1>9. ClosedByCount'
  <2>1. Cardinality(outputs') \in Nat
    BY <1>3, UtxoSetsAreFinite DEF TypeOK
  <2> QED
    BY <2>1, RoundAssumption DEF RoundInv, TypeOK, QuorumReached, RecordOutput,
       AllOutputsIn, ClosedByCount
<1> QED
  BY <1>3, <1>4, <1>6, <1>7, <1>8, <1>9 DEF RoundInv

\* on_output_reg_timeout advances only when no output is missing.
LEMMA OutputTimeoutKeepsInv ==
    ASSUME RoundInv, OutputRegTimeout
    PROVE  RoundInv'
<1>1. CASE HasMissingOutputs
  BY <1>1, EndsAreResets, ResetKeepsInv DEF OutputRegTimeout
<1>2. CASE ~HasMissingOutputs
  <2>1. Inputs' = Inputs /\ Inputs \subseteq Utxos
    BY <1>2 DEF OutputRegTimeout, Advance, Inputs
  <2>2. outputs \subseteq Inputs
    BY DEF RoundInv, OutputsAreRedeemed
  <2>3. Cardinality(outputs) \in Nat /\ Cardinality(Inputs) \in Nat
    BY <2>1, <2>2, UtxoSetsAreFinite
  <2>4. outputs = Inputs
    BY <1>2, <2>1, <2>2, <2>3, FullSubset DEF HasMissingOutputs
  <2>5. SealedIsBalanced'
    BY <1>2, <2>1, <2>4 DEF SealedIsBalanced, OutputRegTimeout, Advance,
       RoundInv, CountIsInputs, QuorumReached
  <2> QED
    BY <1>2, <2>1, <2>5 DEF OutputRegTimeout, Advance, RoundInv, TypeOK, Phases,
       CountIsInputs, MaterialIsTheRounds, OpenRoundInBound, QuorumReached,
       ClosedByCount, OutputsAreRedeemed, SigsAreInputs, BroadcastIsFullySigned,
       Sealed
<1> QED
  BY <1>1, <1>2

LEMMA SignatureKeepsInv ==
    ASSUME RoundInv, NEW u \in Utxos, NEW assembled \in BOOLEAN,
           RecordSignature(u, assembled)
    PROVE  RoundInv'
<1>1. Inputs' = Inputs /\ Inputs \subseteq Utxos
  BY DEF RecordSignature, Inputs
<1>2. sigs' \subseteq Inputs
  BY DEF RecordSignature, RoundInv, SigsAreInputs
<1>3. ASSUME phase' = "Broadcast"
      PROVE  sigs' = Inputs
  <2>1. Cardinality(sigs') >= Cardinality(Inputs)
    BY <1>3 DEF RecordSignature, AllSigned, RoundInv, CountIsInputs
  <2> QED
    BY <1>1, <1>2, <2>1, FullSubset
<1>4. BroadcastIsFullySigned' /\ SigsAreInputs'
  BY <1>1, <1>2, <1>3 DEF BroadcastIsFullySigned, SigsAreInputs, Sealed,
     RecordSignature
<1>5. SealedIsBalanced' /\ OutputsAreRedeemed'
  BY <1>1 DEF RoundInv, SealedIsBalanced, OutputsAreRedeemed, Sealed, RecordSignature
<1>6. TypeOK'
  BY DEF RoundInv, TypeOK, RecordSignature, Phases
<1>7. /\ CountIsInputs' /\ MaterialIsTheRounds'
      /\ OpenRoundInBound' /\ QuorumReached' /\ ClosedByCount'
  BY <1>1 DEF RoundInv, CountIsInputs, MaterialIsTheRounds, OpenRoundInBound,
     QuorumReached, ClosedByCount, RecordSignature
<1> QED
  BY <1>4, <1>5, <1>6, <1>7 DEF RoundInv

-----------------------------------------------------------------------------
(* The theorems.                                                           *)

\* The invariant holds of the round RoundState::new_idle makes.
LEMMA InitInv == RoundInit => RoundInv
<1> SUFFICES ASSUME RoundInit PROVE RoundInv
  OBVIOUS
<1>1. Inputs = {}
  BY DEF RoundInit, Inputs
<1>2. TypeOK
  BY RoundAssumption DEF RoundInit, TypeOK, Phases, None
<1>3. CountIsInputs
  BY <1>1, FS_EmptySet DEF CountIsInputs, RoundInit
<1> QED
  BY <1>1, <1>2, <1>3 DEF RoundInv, RoundInit, MaterialIsTheRounds,
     OpenRoundInBound, QuorumReached, ClosedByCount, OutputsAreRedeemed, SigsAreInputs,
     SealedIsBalanced, BroadcastIsFullySigned, Sealed

\* Every critical section keeps the invariant.
LEMMA NextKeepsInv == RoundInv /\ [RoundNext]_roundVars => RoundInv'
<1> SUFFICES ASSUME RoundInv, [RoundNext]_roundVars PROVE RoundInv'
  OBVIOUS
<1>1. CASE roundId <= MaxRounds /\ InstallRound(roundId)
  BY <1>1, InstallKeepsInv
<1>2. ASSUME NEW u \in Utxos, NEW k \in 1..roundId, RegisterInput(u, k)
      PROVE  RoundInv'
  BY <1>2, RegisterKeepsInv
<1>3. CASE InputRegTimeout
  BY <1>3, CloseInputsKeepsInv, EndsAreResets, ResetKeepsInv DEF InputRegTimeout
<1>4. ASSUME NEW u \in Utxos, HoldsToken(u), RecordOutput(u)
      PROVE  RoundInv'
  BY <1>4, OutputKeepsInv
<1>5. CASE OutputRegTimeout
  BY <1>5, OutputTimeoutKeepsInv
<1>6. ASSUME NEW u \in Utxos, NEW assembled \in BOOLEAN,
             RecordSignature(u, assembled)
      PROVE  RoundInv'
  BY <1>6, SignatureKeepsInv
<1>7. CASE SigningTimeout
  BY <1>7, EndsAreResets, ResetKeepsInv DEF SigningTimeout
<1>8. CASE BroadcastEnds
  BY <1>8, EndsAreResets, ResetKeepsInv DEF BroadcastEnds
<1>9. CASE Restart
  BY <1>9, ResetKeepsInv DEF Restart
<1>10. CASE UNCHANGED roundVars
  BY <1>10 DEF roundVars, RoundInv, TypeOK, CountIsInputs, MaterialIsTheRounds,
     OpenRoundInBound, QuorumReached, ClosedByCount, RoomForOne, OutputsAreRedeemed,
     SigsAreInputs, SealedIsBalanced, BroadcastIsFullySigned, Sealed, Inputs
<1> QED
  BY <1>1, <1>2, <1>3, <1>4, <1>5, <1>6, <1>7, <1>8, <1>9, <1>10 DEF RoundNext

\* In every reachable state the round satisfies its invariant.
THEOREM RoundInvariant == RoundSpec => []RoundInv
<1>1. RoundInit => RoundInv
  BY InitInv
<1>2. RoundInv /\ [RoundNext]_roundVars => RoundInv'
  BY NextKeepsInv
<1> QED
  BY <1>1, <1>2, PTL DEF RoundSpec

\* The state of a round has its type, whatever the bounds on participants.
THEOREM RoundTypeCorrect == RoundSpec => []TypeOK
<1>1. RoundInv => TypeOK
  BY DEF RoundInv
<1> QED
  BY <1>1, RoundInvariant, PTL

\* The count that the early advances and the quorum test read is the size of the map
\* that the transaction and the blame paths read.
THEOREM RoundCountIsInputs == RoundSpec => []CountIsInputs
<1>1. RoundInv => CountIsInputs
  BY DEF RoundInv
<1> QED
  BY <1>1, RoundInvariant, PTL

\* No key, secret or registration outlives its round.
THEOREM MaterialEndsWithItsRound == RoundSpec => []MaterialIsTheRounds
<1>1. RoundInv => MaterialIsTheRounds
  BY DEF RoundInv
<1> QED
  BY <1>1, RoundInvariant, PTL

\* Nobody is asked to sign a transaction in which some input has no output, or
\* with fewer than min_participants inputs.
THEOREM SealedRoundsBalance == RoundSpec => []SealedIsBalanced
<1>1. RoundInv => SealedIsBalanced
  BY DEF RoundInv
<1> QED
  BY <1>1, RoundInvariant, PTL

\* A registration that was validated, and blinded, for an earlier round is never signed.
THEOREM SealedRoundsAreFresh == RoundSpec => []SealedIsThisRounds
<1>1. RoundInv => SealedIsThisRounds
  BY DEF RoundInv, SealedIsThisRounds, SealedIsBalanced, OutputsAreRedeemed
<1> QED
  BY <1>1, RoundInvariant, PTL

\* Every input of a transaction handed to the network carries a signature.
THEOREM BroadcastsAreSigned == RoundSpec => []BroadcastIsFullySigned
<1>1. RoundInv => BroadcastIsFullySigned
  BY DEF RoundInv
<1> QED
  BY <1>1, RoundInvariant, PTL

\* A round that is being signed or broadcast does not change who is in it or what it
\* pays.
THEOREM SealedRoundsAreFrozen == RoundSpec => SealedIsFrozen
<1>1. ASSUME RoundInv, RoundNext, Sealed, UNCHANGED roundId
      PROVE  UNCHANGED <<registered, outputs>>
  <2>1. roundId \in Int
    BY <1>1, RoundAssumption DEF RoundInv, TypeOK
  <2>2. ~Reset
    BY <1>1, <2>1 DEF Reset
  <2> QED
    BY <1>1, <2>2 DEF RoundNext, Sealed, InstallRound, RegisterInput, InputRegTimeout,
       RecordOutput, OutputRegTimeout, RecordSignature, SigningTimeout, BroadcastEnds,
       Restart, EndRound, EndRoundViaBlame
<1>2. RoundInv /\ [RoundNext]_roundVars
      => [Sealed /\ roundId' = roundId => UNCHANGED <<registered, outputs>>]_roundVars
  BY <1>1
<1> QED
  BY <1>2, RoundInvariant, PTL DEF RoundSpec, SealedIsFrozen

=============================================================================
