----------------------------- MODULE FeesProofs -----------------------------
(***************************************************************************)
(* Registration demands enough: for every number of participants, every mix *)
(* of scripts, every value and every fee rate, the transaction of a round   *)
(* can be built from the coins that were let into it.                       *)
(***************************************************************************)
EXTENDS Fees, FiniteSetTheorems, WellFoundedInduction, TLAPS

\* A product is monotonic in either factor.
LEMMA TimesMonotone ==
    ASSUME NEW a \in Nat, NEW b \in Nat, NEW c \in Nat, a <= b
    PROVE  a * c <= b * c
  BY SMT

\* The quotient is the greatest q with q * n <= x.
LEMMA DivBounds ==
    ASSUME NEW x \in Nat, NEW n \in Nat \ {0}
    PROVE  /\ x \div n \in Nat
           /\ (x \div n) * n <= x
           /\ x < (x \div n + 1) * n
  BY SMT

LEMMA DivIsGreatest ==
    ASSUME NEW x \in Nat, NEW n \in Nat \ {0}, NEW q \in Nat, q * n <= x
    PROVE  q <= x \div n
<1>1. SUFFICES ASSUME x \div n < q PROVE FALSE
  BY DivBounds
<1>2. x \div n + 1 <= q
  BY <1>1, DivBounds
<1>3. (x \div n + 1) * n <= q * n
  BY <1>2, DivBounds, TimesMonotone
<1> QED
  BY <1>3, DivBounds

\* A fixed cost c shared by n and a cost k for each: the share does not grow
\* with the number of those who share.
LEMMA ShareDoesNotGrow ==
    ASSUME NEW c \in Nat, NEW k \in Nat, NEW x \in Nat,
           NEW m \in Nat \ {0}, NEW n \in Nat \ {0},
           m <= n, x <= c + k * n
    PROVE  x \div n <= (c + k * m) \div m
<1> DEFINE a == x \div n
<1>1. a \in Nat /\ a * n <= x
  BY DivBounds
<1>2. CASE a <= k
  <2>1. a * m <= k * m
    BY <1>1, <1>2, TimesMonotone
  <2>2. a * m <= c + k * m
    BY <2>1, <1>1
  <2> QED
    BY <2>2, <1>1, DivIsGreatest
<1>3. CASE k < a
  <2>1. (a - k) \in Nat
    BY <1>1, <1>3
  <2>2. (a - k) * n <= c
    <3>1. (a - k) * n = a * n - k * n
      BY <1>1
    <3> QED
      BY <3>1, <1>1
  <2>3. m * (a - k) <= n * (a - k)
    BY <2>1, TimesMonotone
  <2>4. (a - k) * m <= c
    BY <2>1, <2>2, <2>3
  <2>5. a * m <= c + k * m
    <3>1. (a - k) * m = a * m - k * m
      BY <1>1
    <3> QED
      BY <3>1, <2>4, <1>1
  <2> QED
    BY <2>5, <1>1, DivIsGreatest
<1> QED
  BY <1>1, <1>2, <1>3

-----------------------------------------------------------------------------
(* The estimate covers the transaction.                                    *)

LEMMA WeightsAreNat ==
    ASSUME NEW t
    PROVE  /\ ScriptInputVbytes(t) \in Nat
           /\ ScriptOutputVbytes(t) \in Nat
  BY DEF ScriptInputVbytes, ScriptOutputVbytes

\* The worst input of the configuration is one, and no allowed one is heavier.
LEMMA WorstIsWorst ==
    /\ WorstInput \in Nat
    /\ \A t \in Allowed : ScriptInputVbytes(t) <= WorstInput
<1> DEFINE W == {ScriptInputVbytes(t) : t \in Allowed}
           IsWorst(w) == \A t \in Allowed : ScriptInputVbytes(t) <= w
<1>1. \E w \in W : IsWorst(w)
  <2>1. PICK t \in Allowed : TRUE
    BY FeesAssumption
  <2>2. CASE "P2shP2wpkh" \in Allowed
    BY <2>2, FeesAssumption DEF ScriptInputVbytes, ScriptTypes
  <2>3. CASE "P2shP2wpkh" \notin Allowed /\ "P2wpkh" \in Allowed
    BY <2>3, FeesAssumption DEF ScriptInputVbytes, ScriptTypes
  <2>4. CASE "P2shP2wpkh" \notin Allowed /\ "P2wpkh" \notin Allowed
    BY <2>1, <2>4, FeesAssumption DEF ScriptInputVbytes, ScriptTypes
  <2> QED
    BY <2>2, <2>3, <2>4
<1>2. WorstInput \in W /\ IsWorst(WorstInput)
  BY <1>1 DEF WorstInput
<1> QED
  BY <1>2, WeightsAreNat

\* The coins are those of finitely many people, each of an allowed type.
CoinsOK ==
    /\ DOMAIN coins \subseteq People
    /\ \A p \in DOMAIN coins : coins[p] \in Coins

\* Each registered input is of exactly one script type.
LEMMA TypesPartition ==
    ASSUME CoinsOK
    PROVE  /\ \A t \in ScriptTypes : Cardinality(OfType(t)) \in Nat
           /\ N = Cardinality(OfType("P2wpkh")) + Cardinality(OfType("P2tr"))
                    + Cardinality(OfType("P2shP2wpkh"))
           /\ \A t \in ScriptTypes \ Allowed : Cardinality(OfType(t)) = 0
<1> DEFINE A == OfType("P2wpkh")
           B == OfType("P2tr")
           C == OfType("P2shP2wpkh")
<1>1. IsFiniteSet(DOMAIN coins)
  BY FS_Subset, FeesAssumption DEF CoinsOK
<1>2. \A t \in ScriptTypes : IsFiniteSet(OfType(t))
  BY <1>1, FS_Subset DEF OfType
<1>3. IsFiniteSet(A) /\ IsFiniteSet(B) /\ IsFiniteSet(C)
  BY <1>2 DEF ScriptTypes
<1>4. DOMAIN coins = (A \cup B) \cup C
  BY FeesAssumption DEF OfType, CoinsOK, Coins, ScriptTypes
<1>5. A \cap B = {} /\ (A \cup B) \cap C = {}
  BY DEF OfType
<1>6. /\ IsFiniteSet(A \cup B)
      /\ Cardinality(A \cup B) = Cardinality(A) + Cardinality(B) - Cardinality(A \cap B)
  BY <1>3, FS_Union
<1>7. Cardinality((A \cup B) \cup C) = Cardinality(A \cup B) + Cardinality(C)
                                       - Cardinality((A \cup B) \cap C)
  BY <1>3, <1>6, FS_Union
<1>8. Cardinality(A \cap B) = 0 /\ Cardinality((A \cup B) \cap C) = 0
  BY <1>5, FS_EmptySet
<1>9. \A t \in ScriptTypes : Cardinality(OfType(t)) \in Nat
  BY <1>2, FS_CardinalityType
<1>10. N = Cardinality(A) + Cardinality(B) + Cardinality(C)
  BY <1>4, <1>6, <1>7, <1>8, <1>9 DEF N, ScriptTypes
<1>11. \A t \in ScriptTypes \ Allowed : OfType(t) = {}
  BY DEF OfType, CoinsOK, Coins
<1> QED
  BY <1>9, <1>10, <1>11, FS_EmptySet

\* The inputs of the round weigh no more than that many of the worst.
LEMMA InputsAreBounded ==
    ASSUME CoinsOK
    PROVE  /\ N \in Nat
           /\ InputVbytes \in Nat
           /\ InputVbytes <= WorstInput * N
<1> DEFINE Count(t) == Cardinality(OfType(t))
           Weighs(t) == ScriptInputVbytes(t) * Count(t)
<1>1. \A t \in ScriptTypes : Count(t) \in Nat
  BY TypesPartition
<1>2. ASSUME NEW t \in ScriptTypes
      PROVE  Weighs(t) \in Nat /\ Weighs(t) <= WorstInput * Count(t)
  <2>1. CASE t \in Allowed
    BY <2>1, <1>1, WeightsAreNat, WorstIsWorst, TimesMonotone
  <2>2. CASE t \notin Allowed
    <3>1. Count(t) = 0
      BY <2>2, TypesPartition
    <3> QED
      BY <3>1, WeightsAreNat, WorstIsWorst
  <2> QED
    BY <2>1, <2>2
<1>3. /\ Weighs("P2wpkh") \in Nat
      /\ Weighs("P2wpkh") <= WorstInput * Count("P2wpkh")
  BY <1>2 DEF ScriptTypes
<1>4. /\ Weighs("P2tr") \in Nat
      /\ Weighs("P2tr") <= WorstInput * Count("P2tr")
  BY <1>2 DEF ScriptTypes
<1>5. /\ Weighs("P2shP2wpkh") \in Nat
      /\ Weighs("P2shP2wpkh") <= WorstInput * Count("P2shP2wpkh")
  BY <1>2 DEF ScriptTypes
<1>6. InputVbytes = Weighs("P2wpkh") + Weighs("P2tr") + Weighs("P2shP2wpkh")
  BY DEF InputVbytes
<1>7. Count("P2wpkh") \in Nat /\ Count("P2tr") \in Nat /\ Count("P2shP2wpkh") \in Nat
  BY <1>1 DEF ScriptTypes
<1>8. N = Count("P2wpkh") + Count("P2tr") + Count("P2shP2wpkh")
  BY TypesPartition
<1>9. WorstInput * N = WorstInput * Count("P2wpkh") + WorstInput * Count("P2tr")
                        + WorstInput * Count("P2shP2wpkh")
  <2> HIDE DEF Count
  <2> QED BY <1>7, <1>8, WorstIsWorst
<1> HIDE DEF Count, Weighs
<1>10. WorstInput * Count("P2wpkh") \in Nat /\ WorstInput * Count("P2tr") \in Nat
       /\ WorstInput * Count("P2shP2wpkh") \in Nat
  BY <1>7, WorstIsWorst
<1> QED
  BY <1>3, <1>4, <1>5, <1>6, <1>7, <1>8, <1>9, <1>10

\* What a round of N charges is no more than what was asked for at the quorum.
LEMMA GateCoversFeeShare ==
    ASSUME CoinsOK, N >= MinParticipants
    PROVE  /\ FeeShare \in Nat
           /\ Gate \in Nat
           /\ FeeShare <= Gate
<1> DEFINE o == ScriptOutputVbytes(OutputScriptType)
           m == MinParticipants
           v == InputVbytes
           w == WorstInput
           r == FeeRate
           c == TxOverhead * r
           k == (w + 2 * o) * r
           x == (TxOverhead + v + (N + N) * o) * r
<1>1. o \in Nat /\ w \in Nat /\ v \in Nat /\ r \in Nat
  BY WeightsAreNat, WorstIsWorst, InputsAreBounded, FeesAssumption
<1>2. m \in Nat \ {0} /\ N \in Nat \ {0} /\ m <= N
  BY InputsAreBounded, FeesAssumption
<1>3. v <= w * N
  BY InputsAreBounded
<1>4. FeeShare = x \div N
  BY DEF FeeShare
<1>5. Gate = ((TxOverhead + w * m + o * 2 * m) * r) \div m
  BY DEF Gate, EstimateFeeShare
<1> HIDE DEF o, m, v, w, r
<1>6. c \in Nat /\ k \in Nat /\ x \in Nat
  BY <1>1, <1>2 DEF TxOverhead
<1>7. (TxOverhead + w * m + o * 2 * m) * r = c + k * m
  BY <1>1, <1>2 DEF TxOverhead
<1>8. x <= c + k * N
  <2> DEFINE y == TxOverhead + w * N + (N + N) * o
             z == TxOverhead + v + (N + N) * o
  <2>1. y \in Nat /\ z \in Nat /\ z <= y
    BY <1>1, <1>2, <1>3 DEF TxOverhead
  <2>2. z * r <= y * r
    <3> HIDE DEF y, z
    <3> QED BY <2>1, <1>1, TimesMonotone
  <2>3. y * r = c + k * N
    BY <1>1, <1>2 DEF TxOverhead
  <2> QED
    BY <2>2, <2>3
<1> HIDE DEF c, k, x
<1>9. x \div N <= (c + k * m) \div m
  BY <1>2, <1>6, <1>8, ShareDoesNotGrow
<1>10. (x \div N) \in Nat
  BY <1>2, <1>6, DivBounds
<1>11. (c + k * m) \in Nat
  BY <1>2, <1>6
<1>12. ((c + k * m) \div m) \in Nat
  BY <1>2, <1>11, DivBounds
<1> QED
  BY <1>4, <1>5, <1>7, <1>9, <1>10, <1>12

-----------------------------------------------------------------------------
(* Registered participants can pay, and their clients sign.                *)

\* A cap with room for the advertised share and for a change that is dust.
CapIsFair ==
    /\ MinAnonymitySet <= MinParticipants
    /\ MaxFee >= Gate + DustThreshold - 1

\* The inductive invariant: every coin of the round passed the gate, and a
\* transaction is only built for a quorum.
FeesInv ==
    /\ CoinsOK
    /\ \A p \in DOMAIN coins : coins[p].value >= Denomination + Gate
    /\ stage = "built" => N >= MinParticipants
    /\ RegisteredCanPay
    /\ CapIsFair => \A p \in DOMAIN verdict : verdict[p] = "signs"

\* A participant pays its share, and at most a change that is dust besides.
LEMMA PaidIsBounded ==
    ASSUME CoinsOK, N >= MinParticipants, NEW p \in DOMAIN coins
    PROVE  Paid(p) \in Int /\ Paid(p) <= Gate + DustThreshold - 1
<1>1. FeeShare \in Nat /\ Gate \in Nat /\ FeeShare <= Gate
  BY GateCoversFeeShare
<1>2. coins[p].value \in Nat /\ Denomination \in Nat
  BY FeesAssumption DEF CoinsOK, Coins
<1>3. CASE HasChange(p)
  BY <1>1, <1>2, <1>3 DEF Paid, Received, Change, DustThreshold
<1>4. CASE ~HasChange(p)
  BY <1>1, <1>2, <1>4 DEF Paid, Received, HasChange, Change, DustThreshold
<1> QED
  BY <1>3, <1>4

LEMMA EveryoneHasADenomination ==
    ASSUME CoinsOK
    PROVE  DenominationOutputs \in Nat /\ N <= DenominationOutputs
<1> DEFINE extra == {p \in DOMAIN coins : HasChange(p) /\ Change(p) = Denomination}
<1>1. IsFiniteSet(extra)
  BY FS_Subset, FeesAssumption DEF CoinsOK
<1>2. Cardinality(extra) \in Nat
  BY <1>1, FS_CardinalityType
<1> QED
  BY <1>2, InputsAreBounded DEF DenominationOutputs

LEMMA FeesInvInit == FeesInit => FeesInv
  BY DEF FeesInit, FeesInv, CoinsOK, RegisteredCanPay

LEMMA FeesInvNext == FeesInv /\ [FeesNext]_feeVars => FeesInv'
<1> SUFFICES ASSUME FeesInv, [FeesNext]_feeVars
             PROVE  FeesInv'
  OBVIOUS
<1> USE DEF FeesInv, CoinsOK, RegisteredCanPay
<1>0. Gate' = Gate /\ CapIsFair' = CapIsFair
  BY DEF Gate, EstimateFeeShare, CapIsFair
<1>1. CASE \E p \in People, c \in Coins : Register(p, c)
  <2>1. PICK p \in People, c \in Coins : Register(p, c)
    BY <1>1
  <2> QED
    BY <2>1, <1>0 DEF Register
<1>2. CASE Build
  <2>1. N >= MinParticipants /\ UNCHANGED <<coins, verdict>>
    BY <1>2 DEF Build
  <2>2. FeeShare \in Nat /\ Gate \in Nat /\ FeeShare <= Gate
    BY <2>1, GateCoversFeeShare
  <2>3. ASSUME NEW p \in DOMAIN coins
        PROVE  ~(coins[p].value < Denomination + FeeShare)
    <3>1. coins[p].value \in Nat
      BY FeesAssumption DEF Coins
    <3> QED
      BY <3>1, <2>2, FeesAssumption
  <2>4. stage' = "built"
    BY <1>2, <2>3 DEF Build
  <2>5. N' = N
    BY <2>1 DEF N
  <2> QED
    BY <2>1, <2>4, <2>5, <1>0
<1>3. CASE \E p \in People : Verify(p)
  <2>1. PICK p \in People : Verify(p)
    BY <1>3
  <2>2. N >= MinParticipants /\ p \in DOMAIN coins /\ UNCHANGED <<coins, stage>>
    BY <2>1 DEF Verify
  <2>3. N' = N
    BY <2>2 DEF N
  <2>4. ASSUME CapIsFair
        PROVE  DenominationOutputs >= MinAnonymitySet /\ Paid(p) <= MaxFee
    <3>1. DenominationOutputs \in Nat /\ N \in Nat /\ N <= DenominationOutputs
      BY EveryoneHasADenomination, InputsAreBounded
    <3>2. DenominationOutputs >= MinAnonymitySet
      BY <3>1, <2>2, <2>4, FeesAssumption DEF CapIsFair
    <3>3. Gate \in Nat /\ FeeShare \in Nat
      BY <2>2, GateCoversFeeShare
    <3>4. Paid(p) \in Int /\ Paid(p) <= Gate + DustThreshold - 1
      BY <2>2, PaidIsBounded
    <3>5. Paid(p) <= MaxFee
      BY <3>3, <3>4, <2>4, FeesAssumption DEF CapIsFair, DustThreshold
    <3> QED
      BY <3>2, <3>5
  <2>5. CapIsFair => \A q \in DOMAIN verdict' : verdict'[q] = "signs"
    BY <2>1, <2>4 DEF Verify
  <2> QED
    BY <2>2, <2>3, <2>5, <1>0
<1>4. CASE UNCHANGED feeVars
  BY <1>4, <1>0 DEF feeVars, N
<1> QED
  BY <1>1, <1>2, <1>3, <1>4 DEF FeesNext

\* For every configuration that starts, and every round: build_coinjoin_psbt does
\* not fail for want of funds on coins that registration accepted.
THEOREM RegisteredAlwaysCanPay == FeesSpec => []RegisteredCanPay
<1>1. FeesInv => RegisteredCanPay
  BY DEF FeesInv
<1> QED
  BY <1>1, FeesInvInit, FeesInvNext, PTL DEF FeesSpec

\* For every configuration whose fee cap leaves room for it, no client refuses the
\* transaction of an honest coordinator (verify_and_sign).
THEOREM HonestClientsAlwaysSign == FeesSpec => []HonestClientsSign
<1>1. FeesInv => HonestClientsSign
  BY DEF FeesInv, CapIsFair, HonestClientsSign
<1> QED
  BY <1>1, FeesInvInit, FeesInvNext, PTL DEF FeesSpec

\* Registrations stay within max_participants, and only who registered decides.
THEOREM FeesTypeCorrect == FeesSpec => []FeesTypeOK
<1>1. FeesInit => FeesTypeOK
  BY FS_EmptySet, FeesAssumption DEF FeesInit, FeesTypeOK, N
<1>2. ASSUME FeesTypeOK, [FeesNext]_feeVars
      PROVE  FeesTypeOK'
  <2>1. ASSUME UNCHANGED coins, stage' \in {"open", "built", "short"},
               DOMAIN verdict' \subseteq DOMAIN coins
        PROVE  FeesTypeOK'
    BY <1>2, <2>1 DEF FeesTypeOK, N
  <2>2. ASSUME NEW p \in People, NEW c \in Coins, Register(p, c)
        PROVE  FeesTypeOK'
    <3>1. DOMAIN coins' = DOMAIN coins \cup {p} /\ p \notin DOMAIN coins
      BY <2>2 DEF Register
    <3>2. \A q \in DOMAIN coins' : coins'[q] \in Coins
      BY <1>2, <2>2 DEF Register, FeesTypeOK
    <3>3. IsFiniteSet(DOMAIN coins)
      BY <1>2, FS_Subset, FeesAssumption DEF FeesTypeOK
    <3>4. N' = N + 1 /\ N \in Nat
      BY <3>1, <3>3, FS_AddElement, FS_CardinalityType DEF N
    <3>5. N' <= MaxParticipants
      BY <2>2, <3>4, FeesAssumption DEF Register
    <3> QED
      BY <1>2, <2>2, <3>1, <3>2, <3>5 DEF Register, FeesTypeOK
  <2>3. Build => FeesTypeOK'
    BY <1>2, <2>1 DEF Build, FeesTypeOK
  <2>4. ASSUME NEW p \in People, Verify(p)
        PROVE  FeesTypeOK'
    <3>1. UNCHANGED <<coins, stage>> /\ DOMAIN verdict' \subseteq DOMAIN verdict \cup {p}
          /\ p \in DOMAIN coins
      BY <2>4 DEF Verify
    <3> QED
      BY <1>2, <2>1, <3>1 DEF FeesTypeOK
  <2>5. CASE UNCHANGED feeVars
    BY <1>2, <2>1, <2>5 DEF feeVars, FeesTypeOK
  <2> QED
    BY <1>2, <2>2, <2>3, <2>4, <2>5 DEF FeesNext
<1> QED
  BY <1>1, <1>2, PTL DEF FeesSpec

-----------------------------------------------------------------------------
(* The sum of what everybody paid.  MapThenSumSet recurses over subsets: its *)
(* equation has a solution, and what holds of each term bounds the sum.      *)

\* Of finitely many subsets one contains no other: induction over finite sets.
LEMMA MinimalSubset ==
    ASSUME NEW S, IsFiniteSet(S), NEW T \in SUBSET (SUBSET S), T # {}
    PROVE  \E U \in T : \A V \in T : V \subseteq U => V = U
<1> DEFINE R == StrictSubsetOrdering(S)
<1>1. IsWellFoundedOn(R, SUBSET S)
  BY FS_StrictSubsetOrderingWellFounded, FS_FiniteSubsetsOfFinite
<1>2. PICK U \in T : \A V \in T : <<V, U>> \notin R
  <2> HIDE DEF R
  <2> QED BY <1>1, WFMin, Zenon
<1>3. ASSUME NEW V \in T, V \subseteq U, V # U
      PROVE  <<V, U>> \in R
  BY <1>3 DEF StrictSubsetOrdering
<1>4. \A V \in T : V \subseteq U => V = U
  <2> HIDE DEF R
  <2> QED BY <1>2, <1>3
<1> QED
  BY <1>4

\* What the recursion of MapThenSumSet says of one set, given g for the smaller.
SumStep(g, s) ==
    IF s = {} THEN 0
    ELSE LET p == CHOOSE p \in s : TRUE
         IN  Paid(p) + g[s \ {p}]

\* The sets of registered participants that are no larger than U.
UpTo(U) == {s \in SUBSET DOMAIN coins : Cardinality(s) <= Cardinality(U)}

LEMMA SumExists ==
    ASSUME CoinsOK
    PROVE  \E g : g = [s \in SUBSET DOMAIN coins |-> SumStep(g, s)]
<1> DEFINE D == DOMAIN coins
           Solved(U) == \E g : g = [s \in UpTo(U) |-> SumStep(g, s)]
           Bad == {U \in SUBSET D : ~ Solved(U)}
<1>1. IsFiniteSet(D)
  BY FS_Subset, FeesAssumption DEF CoinsOK
<1>2. \A s \in SUBSET D : IsFiniteSet(s) /\ Cardinality(s) \in Nat
                          /\ Cardinality(s) <= Cardinality(D)
  BY <1>1, FS_Subset, FS_CardinalityType
<1>3. Solved({})
  <2>1. UpTo({}) = {{}}
    BY <1>2, FS_EmptySet DEF UpTo
  <2> DEFINE g == [s \in UpTo({}) |-> 0]
  <2>2. g = [s \in UpTo({}) |-> SumStep(g, s)]
    BY <2>1 DEF SumStep
  <2> QED
    BY <2>2
<1>4. ASSUME NEW U \in SUBSET D, NEW q \in U, Solved(U \ {q})
      PROVE  Solved(U)
  <2> DEFINE V == U \ {q}
  <2>1. Cardinality(U) = Cardinality(V) + 1 /\ Cardinality(V) \in Nat
    BY <1>2, FS_RemoveElement
  <2>2. PICK g : g = [s \in UpTo(V) |-> SumStep(g, s)]
    BY <1>4
  <2> DEFINE h == [s \in UpTo(U) |-> IF s \in UpTo(V) THEN g[s] ELSE SumStep(g, s)]
  <2> HIDE DEF V
  <2>3. \A s \in UpTo(V) : s \in UpTo(U)
    BY <2>1, <1>2 DEF UpTo
  <2>4. ASSUME NEW s \in UpTo(U), NEW p \in s
        PROVE  s \ {p} \in UpTo(V)
    <3>1. /\ s \in SUBSET D
          /\ Cardinality(s) <= Cardinality(U)
      BY DEF UpTo
    <3>2. Cardinality(s \ {p}) = Cardinality(s) - 1
      BY <3>1, <1>2, FS_RemoveElement
    <3> QED
      BY <3>1, <3>2, <2>1, <1>2 DEF UpTo
  <2>5. ASSUME NEW s \in UpTo(U)
        PROVE  SumStep(h, s) = SumStep(g, s)
    <3>1. CASE s = {}
      BY <3>1 DEF SumStep
    <3>2. CASE s # {}
      <4> DEFINE p == CHOOSE p \in s : TRUE
      <4>1. p \in s
        BY <3>2
      <4>2. s \ {p} \in UpTo(V) /\ s \ {p} \in UpTo(U)
        <5> HIDE DEF p
        <5> QED BY <4>1, <2>3, <2>4
      <4>3. h[s \ {p}] = g[s \ {p}]
        <5> HIDE DEF p
        <5> QED BY <4>2
      <4> QED
        BY <4>3, <3>2 DEF SumStep
    <3> QED
      BY <3>1, <3>2
  <2>6. \A s \in UpTo(V) : g[s] = SumStep(g, s)
    BY <2>2
  <2>7. h = [s \in UpTo(U) |-> SumStep(g, s)]
    BY <2>6
  <2>8. h = [s \in UpTo(U) |-> SumStep(h, s)]
    <3> HIDE DEF h
    <3> QED BY <2>5, <2>7
  <2> QED
    <3> HIDE DEF h
    <3> QED BY <2>8
<1>5. Solved(D)
  <2> SUFFICES ASSUME ~ Solved(D)
               PROVE  FALSE
    OBVIOUS
  <2>1. Bad # {} /\ Bad \in SUBSET (SUBSET D)
    OBVIOUS
  <2>2. PICK U \in Bad : \A V \in Bad : V \subseteq U => V = U
    <3> HIDE DEF Bad
    <3> QED BY <2>1, <1>1, MinimalSubset
  <2> HIDE DEF Solved
  <2>3. PICK q \in U : TRUE
    BY <1>3, <2>2
  <2>4. Solved(U \ {q})
    BY <2>2, <2>3
  <2> QED
    BY <2>2, <2>3, <2>4, <1>4
<1>6. UpTo(D) = SUBSET D
  BY <1>2 DEF UpTo
<1> QED
  BY <1>5, <1>6

\* The sum over the participants satisfies the recursion.
LEMMA PaidSum ==
    ASSUME CoinsOK
    PROVE  \E g : /\ MapThenSumSet(Paid, DOMAIN coins) = g[DOMAIN coins]
                  /\ g = [s \in SUBSET DOMAIN coins |-> SumStep(g, s)]
<1> DEFINE S == DOMAIN coins
           iter == CHOOSE iter :
                     iter = [s \in SUBSET S |->
                               IF s = {} THEN 0
                               ELSE LET x == CHOOSE x \in s : TRUE
                                    IN  Paid(x) + iter[s \ {x}]]
<1>1. MapThenSumSet(Paid, S) = iter[S]
  BY DEF MapThenSumSet, MapThenFoldSet
<1>2. \E g : g = [s \in SUBSET S |->
                    IF s = {} THEN 0
                    ELSE LET x == CHOOSE x \in s : TRUE
                         IN  Paid(x) + g[s \ {x}]]
  BY SumExists DEF SumStep
<1>3. iter = [s \in SUBSET S |->
                IF s = {} THEN 0
                ELSE LET x == CHOOSE x \in s : TRUE
                     IN  Paid(x) + iter[s \ {x}]]
  BY <1>2, Zenon
<1>4. iter = [s \in SUBSET S |-> SumStep(iter, s)]
  BY <1>3 DEF SumStep
<1> HIDE DEF iter
<1> QED
  BY <1>1, <1>4

\* If nobody pays less than a share, all together pay as many shares.
LEMMA SumOfShares ==
    ASSUME CoinsOK, NEW share \in Nat,
           \A p \in DOMAIN coins : Paid(p) \in Int /\ Paid(p) >= share
    PROVE  /\ MapThenSumSet(Paid, DOMAIN coins) \in Int
           /\ MapThenSumSet(Paid, DOMAIN coins) >= N * share
<1> DEFINE D == DOMAIN coins
<1>1. PICK g : /\ MapThenSumSet(Paid, D) = g[D]
               /\ g = [s \in SUBSET D |-> SumStep(g, s)]
  BY PaidSum
<1> DEFINE Holds(s) == g[s] \in Int /\ g[s] >= Cardinality(s) * share
           Bad == {s \in SUBSET D : ~ Holds(s)}
<1>2. IsFiniteSet(D)
  BY FS_Subset, FeesAssumption DEF CoinsOK
<1>3. Holds({})
  BY <1>1, FS_EmptySet DEF SumStep
<1>4. ASSUME NEW s \in SUBSET D, s # {}, \A p \in s : Holds(s \ {p})
      PROVE  Holds(s)
  <2> DEFINE p == CHOOSE p \in s : TRUE
  <2>1. p \in s
    BY <1>4
  <2>2. g[s] = Paid(p) + g[s \ {p}]
    BY <1>1, <1>4 DEF SumStep
  <2> HIDE DEF p
  <2>3. IsFiniteSet(s) /\ Cardinality(s) \in Nat
    BY <1>2, FS_Subset, FS_CardinalityType
  <2>4. Cardinality(s \ {p}) = Cardinality(s) - 1
    BY <2>1, <2>3, FS_RemoveElement
  <2>5. Holds(s \ {p}) /\ Paid(p) \in Int /\ Paid(p) >= share
    BY <1>4, <2>1
  <2>6. (Cardinality(s) - 1) * share = Cardinality(s) * share - share
    BY <2>3
  <2> QED
    BY <2>2, <2>3, <2>4, <2>5, <2>6
<1>5. Holds(D)
  <2> SUFFICES ASSUME ~ Holds(D)
               PROVE  FALSE
    OBVIOUS
  <2>1. Bad # {} /\ Bad \in SUBSET (SUBSET D)
    OBVIOUS
  <2>2. PICK s \in Bad : \A t \in Bad : t \subseteq s => t = s
    <3> HIDE DEF Bad
    <3> QED BY <2>1, <1>2, MinimalSubset
  <2> HIDE DEF Holds
  <2>3. s # {}
    BY <1>3, <2>2
  <2>4. \A p \in s : Holds(s \ {p})
    BY <2>2
  <2> QED
    BY <2>2, <2>3, <2>4, <1>4
<1> QED
  BY <1>1, <1>5 DEF N

-----------------------------------------------------------------------------
(* The signed transaction weighs no more than it was charged for.           *)

\* A vbyte more than the estimate at most, for the marker and the rounding up.
LEMMA VsizeIsCharged ==
    ASSUME CoinsOK
    PROVE  /\ Vsize \in Nat
           /\ Vsize - 1 <= TxOverhead + InputVbytes
                             + (N + N) * ScriptOutputVbytes(OutputScriptType)
<1> DEFINE a == Cardinality(OfType("P2wpkh"))
           b == Cardinality(OfType("P2tr"))
           c == Cardinality(OfType("P2shP2wpkh"))
           o == ScriptOutputVbytes(OutputScriptType)
           withChange == {p \in DOMAIN coins : HasChange(p)}
           k == Cardinality(withChange)
           inputs == 272 * a + 230 * b + 364 * c
           x == 4 * TxOverhead + 2 + inputs + 4 * (N + k) * o + 3
           y == TxOverhead + InputVbytes + (N + N) * o
<1>1. a \in Nat /\ b \in Nat /\ c \in Nat
  BY TypesPartition DEF ScriptTypes
<1>2. o \in Nat /\ N \in Nat
  BY WeightsAreNat, InputsAreBounded
<1>3. k \in Nat /\ k <= N
  <2>1. IsFiniteSet(DOMAIN coins)
    BY FS_Subset, FeesAssumption DEF CoinsOK
  <2>2. withChange \in SUBSET DOMAIN coins
    OBVIOUS
  <2> HIDE DEF withChange
  <2> QED
    BY <2>1, <2>2, FS_Subset, FS_CardinalityType DEF N
<1>4. InputVbytes = 68 * a + 58 * b + 91 * c
  BY DEF InputVbytes, ScriptInputVbytes
<1>5. Vsize = x \div 4
  BY DEF Vsize, InputWeight
<1>6. (N + k) * o <= (N + N) * o /\ (N + k) * o \in Nat /\ (N + N) * o \in Nat
  <2> HIDE DEF o, k
  <2> QED BY <1>2, <1>3, TimesMonotone
<1> HIDE DEF a, b, c, o, k
<1>7. 4 * (N + k) * o = 4 * ((N + k) * o)
  BY <1>2, <1>3
<1>8. x \in Nat /\ y \in Nat /\ x <= 4 * y + 5
  BY <1>1, <1>2, <1>4, <1>6, <1>7 DEF TxOverhead
<1> HIDE DEF x, y
<1>9. x \div 4 \in Nat /\ x \div 4 <= y + 1
  BY <1>8
<1> QED
  BY <1>5, <1>8, <1>9 DEF y, o

\* Nobody pays less than a share: change that is folded is more than that.
LEMMA EveryoneIsCharged ==
    ASSUME FeesInv, stage = "built", NEW p \in DOMAIN coins
    PROVE  Paid(p) \in Int /\ Paid(p) >= FeeShare
<1>1. FeeShare \in Nat /\ Gate \in Nat /\ FeeShare <= Gate
  BY GateCoversFeeShare DEF FeesInv
<1>2. coins[p].value \in Nat /\ Denomination \in Nat
      /\ coins[p].value >= Denomination + Gate
  BY FeesAssumption DEF FeesInv, CoinsOK, Coins
<1>3. CASE HasChange(p)
  BY <1>1, <1>2, <1>3 DEF Paid, Received, Change
<1>4. CASE ~HasChange(p)
  BY <1>1, <1>2, <1>4 DEF Paid, Received
<1> QED
  BY <1>3, <1>4

\* For every fee rate, every mix of scripts and values, and every number of
\* participants, the transaction that build_coinjoin_psbt builds pays for its size.
THEOREM FeeRateIsAlwaysMet == FeesSpec => []FeeRateIsMet
<1>1. FeesInv => FeeRateIsMet
  <2> SUFFICES ASSUME FeesInv, stage = "built"
               PROVE  MapThenSumSet(Paid, DOMAIN coins)
                        >= (Vsize - 1) * FeeRate - (N - 1)
    BY DEF FeeRateIsMet
  <2> DEFINE y == TxOverhead + InputVbytes
                    + (N + N) * ScriptOutputVbytes(OutputScriptType)
             x == y * FeeRate
             total == MapThenSumSet(Paid, DOMAIN coins)
  <2>1. CoinsOK /\ N >= MinParticipants
    BY DEF FeesInv
  <2>2. N \in Nat \ {0} /\ FeeRate \in Nat
    BY <2>1, InputsAreBounded, FeesAssumption
  <2>3. FeeShare = x \div N /\ FeeShare \in Nat
    BY <2>1, GateCoversFeeShare DEF FeeShare
  <2>4. total \in Int /\ total >= N * FeeShare
    BY <2>1, <2>3, EveryoneIsCharged, SumOfShares
  <2>5. y \in Nat
    BY <2>1, <2>2, InputsAreBounded, WeightsAreNat DEF TxOverhead
  <2>6. Vsize \in Nat /\ Vsize - 1 <= y
    BY <2>1, VsizeIsCharged
  <2> HIDE DEF y, total
  <2>7. x \in Nat
    BY <2>2, <2>5
  <2>8. (Vsize - 1) * FeeRate <= x
    <3>1. CASE Vsize = 0
      <4>1. (Vsize - 1) * FeeRate = 0 - FeeRate
        BY <3>1, <2>2
      <4> QED
        BY <4>1, <2>2, <2>7
    <3>2. CASE Vsize # 0
      BY <3>2, <2>2, <2>5, <2>6, TimesMonotone
    <3> QED
      BY <3>1, <3>2
  <2> HIDE DEF x
  <2>9. x < (FeeShare + 1) * N
    BY <2>2, <2>3, <2>7, DivBounds
  <2>10. (FeeShare + 1) * N = N * FeeShare + N /\ N * FeeShare \in Nat
    BY <2>2, <2>3
  <2>11. (Vsize - 1) * FeeRate \in Int
    BY <2>2, <2>6
  <2> QED
    BY <2>2, <2>4, <2>7, <2>8, <2>9, <2>10, <2>11 DEF total
<1> QED
  BY <1>1, FeesInvInit, FeesInvNext, PTL DEF FeesSpec

=============================================================================
