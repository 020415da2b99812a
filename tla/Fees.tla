-------------------------------- MODULE Fees --------------------------------
(***************************************************************************)
(* The money of one round: the value that input registration demands        *)
(* (bitcoin/fee.rs, bitcoin/utxo.rs), the fee share and the change that      *)
(* build_coinjoin_psbt computes (bitcoin/tx.rs), and the checks a client     *)
(* makes on that transaction before it signs (client round/sign.rs).        *)
(*                                                                         *)
(* Registration demands a value before it is known who else will register,  *)
(* and the transaction charges for who did: the two must agree for every    *)
(* number of participants and every mix of their script types.              *)
(***************************************************************************)
EXTENDS Integers, FiniteSets, FiniteSetsExt

CONSTANTS
    People,            \* participants
    Values,            \* values of the coins they bring, in sats
    Allowed,           \* BipConfig::allowed_set
    OutputScriptType,  \* bip.output_script_type
    Denomination,      \* coordinator.denomination_sats
    FeeRate,           \* coordinator.fee_rate_sat_per_vbyte
    MinParticipants,   \* coordinator.min_participants
    MaxParticipants,   \* coordinator.max_participants
    MinAnonymitySet,   \* client: --min-anonymity-set
    MaxFee             \* client: --max-fee-sats, or denomination / 10

ScriptTypes == {"P2wpkh", "P2tr", "P2shP2wpkh"}

\* CoordinatorConfig::validate and BipConfig::validate.
ASSUME FeesAssumption ==
    /\ IsFiniteSet(People)
    /\ Values \subseteq Nat
    /\ Allowed \subseteq ScriptTypes
    /\ OutputScriptType \in Allowed
    /\ Denomination \in Nat
    /\ FeeRate \in Nat
    /\ MinParticipants \in Nat
    /\ MaxParticipants \in Nat
    /\ 2 <= MinParticipants
    /\ MinParticipants <= MaxParticipants
    /\ MinAnonymitySet \in Nat
    /\ MaxFee \in Nat

VARIABLES
    coins,      \* registered participant -> the value and type of its coin
    stage,      \* "open", then "built", or "short": InsufficientFunds
    verdict     \* participant -> whether its client signs or refuses

feeVars == <<coins, stage, verdict>>

Coins == [value : Values, type : Allowed]

N == Cardinality(DOMAIN coins)

-----------------------------------------------------------------------------
(* Weights and fees.                                                       *)

TxOverhead == 10

ScriptInputVbytes_FloorsP2tr(t) ==
    CASE t = "P2wpkh" -> 68
      [] t = "P2tr" -> 57
      [] OTHER -> 91

ScriptInputVbytes(t) ==
    CASE t = "P2wpkh" -> 68
      [] t = "P2tr" -> 58
      [] OTHER -> 91

ScriptOutputVbytes(t) ==
    CASE t = "P2wpkh" -> 31
      [] t = "P2tr" -> 43
      [] OTHER -> 32

\* The heaviest input that the configuration allows.
WorstInput ==
    CHOOSE w \in {ScriptInputVbytes(t) : t \in Allowed} :
        \A t \in Allowed : ScriptInputVbytes(t) <= w

EstimateFeeShare(n) ==
    ((TxOverhead + WorstInput * n + ScriptOutputVbytes(OutputScriptType) * 2 * n)
        * FeeRate) \div n

Gate_AtMax == EstimateFeeShare(MaxParticipants)

\* What registration asks for on top of the denomination.
Gate == EstimateFeeShare(MinParticipants)

OfType(t) == {p \in DOMAIN coins : coins[p].type = t}

InputVbytes ==
    ScriptInputVbytes("P2wpkh") * Cardinality(OfType("P2wpkh"))
    + ScriptInputVbytes("P2tr") * Cardinality(OfType("P2tr"))
    + ScriptInputVbytes("P2shP2wpkh") * Cardinality(OfType("P2shP2wpkh"))

\* The fee share of build_coinjoin_psbt, as if everybody got change.
FeeShare ==
    ((TxOverhead + InputVbytes + (N + N) * ScriptOutputVbytes(OutputScriptType))
        * FeeRate) \div N

DustThreshold == 294

Change(p) == coins[p].value - Denomination - FeeShare

HasChange_FoldsMore(p) == Change(p) > DustThreshold

\* Less change than this gets no output: it is left to the fee.
HasChange(p) == Change(p) >= DustThreshold

-----------------------------------------------------------------------------
(* Registration, the transaction, the clients.                             *)

\* validate_utxo's value check, and the registration of the input.
Register(p, c) ==
    /\ stage = "open"
    /\ N < MaxParticipants
    /\ p \notin DOMAIN coins
    /\ c.value >= Denomination + Gate
    /\ coins' = [q \in DOMAIN coins \cup {p} |-> IF q = p THEN c ELSE coins[q]]
    /\ UNCHANGED <<stage, verdict>>

\* build_coinjoin_psbt, for a round that registration closed with a quorum.
Build ==
    /\ stage = "open"
    /\ N >= MinParticipants
    /\ stage' = IF \E p \in DOMAIN coins :
                      coins[p].value < Denomination + FeeShare
                THEN "short" ELSE "built"
    /\ UNCHANGED <<coins, verdict>>

\* What p's scripts receive: its own denomination output, and its change.
Received(p) == Denomination + (IF HasChange(p) THEN Change(p) ELSE 0)

Paid(p) == coins[p].value - Received(p)

\* Change may happen to be worth a denomination, and is then counted as one.
DenominationOutputs ==
    N + Cardinality({p \in DOMAIN coins : HasChange(p) /\ Change(p) = Denomination})

\* verify_and_sign on the transaction of an honest coordinator.
Verify(p) ==
    /\ stage = "built"
    /\ p \in DOMAIN coins \ DOMAIN verdict
    /\ LET signs == /\ DenominationOutputs >= MinAnonymitySet
                    /\ Paid(p) <= MaxFee
       IN  verdict' = [q \in DOMAIN verdict \cup {p} |->
                          IF q # p THEN verdict[q]
                          ELSE IF signs THEN "signs" ELSE "refuses"]
    /\ UNCHANGED <<coins, stage>>

FeesInit ==
    /\ coins = [p \in {} |-> <<>>]
    /\ stage = "open"
    /\ verdict = [p \in {} |-> "signs"]

FeesNext ==
    \/ \E p \in People, c \in Coins : Register(p, c)
    \/ Build
    \/ \E p \in People : Verify(p)

FeesSpec == FeesInit /\ [][FeesNext]_feeVars

-----------------------------------------------------------------------------
(* Properties.                                                             *)

\* Registrations stay within People, Coins and max_participants, and only those
\* who registered decide (register_input).
FeesTypeOK ==
    /\ DOMAIN coins \subseteq People
    /\ \A p \in DOMAIN coins : coins[p] \in Coins
    /\ N <= MaxParticipants
    /\ stage \in {"open", "built", "short"}
    /\ DOMAIN verdict \subseteq DOMAIN coins

\* Whoever was let into the round can pay its share of the transaction, however
\* many others and with whatever scripts came in (handlers.rs's gate at
\* min_participants against build_coinjoin_psbt).  Otherwise nobody could sign,
\* and everybody would be banned at the signing timeout.
RegisteredCanPay == stage # "short"

\* A client refuses an honest coordinator's transaction for no other reason than
\* too small a round, if its fee cap leaves room for the advertised share and a
\* change that is dust.  A refusal costs the client a ban.
HonestClientsSign ==
    MinAnonymitySet <= MinParticipants /\ MaxFee >= Gate + DustThreshold - 1
        => \A p \in DOMAIN verdict : verdict[p] = "signs"

\* Weight units of a signed input, by BIP 141, with a 72-byte ECDSA signature.
InputWeight(t) ==
    CASE t = "P2wpkh" -> 4 * 41 + 108
      [] t = "P2tr" -> 4 * 41 + 66
      [] OTHER -> 4 * 64 + 108

\* Virtual size of the signed transaction, with the segwit marker and flag.
Vsize ==
    LET inputs == InputWeight("P2wpkh") * Cardinality(OfType("P2wpkh"))
                  + InputWeight("P2tr") * Cardinality(OfType("P2tr"))
                  + InputWeight("P2shP2wpkh") * Cardinality(OfType("P2shP2wpkh"))
        outs == N + Cardinality({p \in DOMAIN coins : HasChange(p)})
    IN  (4 * TxOverhead + 2 + inputs
            + 4 * outs * ScriptOutputVbytes(OutputScriptType) + 3) \div 4

\* The transaction pays at least its share for its real size, whatever the mix of
\* scripts and whoever's change is folded, up to what the code rounds away: the
\* half vbyte of the segwit marker, and the remainder of the division.
FeeRateIsMet ==
    stage = "built" =>
        MapThenSumSet(Paid, DOMAIN coins) >= (Vsize - 1) * FeeRate - (N - 1)

=============================================================================
