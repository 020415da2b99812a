----------------------------- MODULE RoundState -----------------------------
(***************************************************************************)
(* The round the coordinator keeps behind `round: Arc<RwLock<RoundState>>`: *)
(* the phase machine of coordinator/src/round/state.rs and every critical   *)
(* section that changes it.  An action is what one holder of the write lock *)
(* does between taking the lock and dropping it.  Who takes the lock, and   *)
(* when, is the business of module Coordinator, which refines RoundSpec.    *)
(*                                                                         *)
(* `inner: Option<RoundStateInner>` is None exactly when material = None;  *)
(* its maps are registered, outputs (redeemed_tokens and the pushed        *)
(* registered_outputs, one per token) and sigs.  A round's RSA key and HMAC *)
(* secret are one value, `material`, named by the round it was made for.   *)
(***************************************************************************)
EXTENDS Naturals, FiniteSets

CONSTANTS
    Utxos,            \* outpoints that participants may register
    Blinding,         \* those whose owners blind their token for a round's key
    MinParticipants,  \* coordinator.min_participants
    MaxParticipants,  \* coordinator.max_participants
    MaxRounds         \* bound: rounds after this one are not started

\* CoordinatorConfig::validate refuses any other pair of participant bounds.
ASSUME RoundAssumption ==
    /\ IsFiniteSet(Utxos)
    /\ Blinding \subseteq Utxos
    /\ MinParticipants \in Nat
    /\ MaxParticipants \in Nat
    /\ 2 <= MinParticipants
    /\ MinParticipants <= MaxParticipants
    /\ MaxRounds \in Nat

VARIABLES
    phase,             \* RoundState.phase
    roundId,           \* RoundState.round_id: uuids are fresh, so a counter
    material,          \* round whose key and secret are installed, or None
    registered,        \* utxo -> round its ownership proof names, or None
    participantCount,  \* RoundState.participant_count
    outputs,           \* owners of the tokens redeemed for an output
    sigs               \* utxos with a partial signature

roundVars == <<phase, roundId, material, registered, participantCount,
               outputs, sigs>>

None == 0

Phases == {"Idle", "InputReg", "OutputReg", "Signing", "Broadcast"}

Inputs == {u \in Utxos : registered[u] # None}

-----------------------------------------------------------------------------
(* Phase::can_transition_to and RoundState::transition_to.                 *)

Edges ==
    { <<"Idle", "InputReg">>, <<"InputReg", "OutputReg">>,
      <<"InputReg", "Idle">>, <<"OutputReg", "Signing">>,
      <<"OutputReg", "Blame">>, <<"Signing", "Broadcast">>,
      <<"Signing", "Blame">>, <<"Broadcast", "Idle">>,
      <<"Broadcast", "Blame">>, <<"Blame", "Idle">> }

CanTransition(p, q) == <<p, q>> \in Edges

Reset_KeepsMaterial ==
    /\ phase' = "Idle"
    /\ roundId' = roundId + 1
    /\ participantCount' = 0
    /\ UNCHANGED <<material, registered, outputs, sigs>>

\* RoundState::new_idle, and what transition_to(Idle) leaves behind.
Reset ==
    /\ phase' = "Idle"
    /\ roundId' = roundId + 1
    /\ material' = None
    /\ registered' = [u \in Utxos |-> None]
    /\ participantCount' = 0
    /\ outputs' = {}
    /\ sigs' = {}

EndRound ==
    /\ CanTransition(phase, "Idle")
    /\ Reset

\* transition_to(Blame); transition_to(Idle), under one hold of the lock.
EndRoundViaBlame ==
    /\ CanTransition(phase, "Blame")
    /\ CanTransition("Blame", "Idle")
    /\ Reset

Advance(q) ==
    /\ CanTransition(phase, q)
    /\ phase' = q
    /\ UNCHANGED <<roundId, material, registered, participantCount,
                   outputs, sigs>>

-----------------------------------------------------------------------------
(* The critical sections.                                                  *)

\* manager::install_round with the material generated for round m.
InstallRound(m) ==
    /\ phase = "Idle"
    /\ CanTransition(phase, "InputReg")
    /\ phase' = "InputReg"
    /\ material' = m
    /\ registered' = [u \in Utxos |-> None]
    /\ outputs' = {}
    /\ sigs' = {}
    /\ UNCHANGED <<roundId, participantCount>>

RoomForOne == participantCount < MaxParticipants

RegisterInput_AnyPhase(u, k) ==
    /\ RoomForOne
    /\ material # None
    /\ u \notin Inputs
    /\ registered' = [registered EXCEPT ![u] = k]
    /\ participantCount' = participantCount + 1
    /\ UNCHANGED <<phase, roundId, material, outputs, sigs>>

\* The locked half of post_input: register_input, then the early advance.
\* k is the round that the request's ownership proof names.
RegisterInput(u, k) ==
    /\ phase = "InputReg"
    /\ RoomForOne
    /\ material # None
    /\ u \notin Inputs
    /\ registered' = [registered EXCEPT ![u] = k]
    /\ participantCount' = participantCount + 1
    /\ phase' = IF participantCount' >= MaxParticipants THEN "OutputReg"
                                                        ELSE phase
    /\ UNCHANGED <<roundId, material, outputs, sigs>>

InputRegTimeout_NoQuorum ==
    /\ phase = "InputReg"
    /\ IF participantCount > 0 THEN Advance("OutputReg") ELSE EndRound

\* The input_reg timer of run.rs, once it holds the lock.
InputRegTimeout ==
    /\ phase = "InputReg"
    /\ IF participantCount >= MinParticipants THEN Advance("OutputReg")
                                              ELSE EndRound

HasMissingOutputs_Never == participantCount = 0

\* blame::has_missing_outputs, on the sizes of the two maps.
HasMissingOutputs == Cardinality(outputs) < Cardinality(Inputs)

AllOutputsIn_OffByOne(outs) ==
    /\ Cardinality(outs) > participantCount
    /\ participantCount > 0

AllOutputsIn(outs) ==
    /\ Cardinality(outs) >= participantCount
    /\ participantCount > 0

\* The locked half of post_output, given a token whose signature verifies
\* under the installed key: register_output_logic, push, early advance.
RecordOutput(u) ==
    /\ phase = "OutputReg"
    /\ material # None
    /\ u \notin outputs
    /\ outputs' = outputs \cup {u}
    /\ phase' = IF AllOutputsIn(outputs') THEN "Signing" ELSE phase
    /\ UNCHANGED <<roundId, material, registered, participantCount, sigs>>

\* output_reg::on_output_reg_timeout.
OutputRegTimeout ==
    /\ phase = "OutputReg"
    /\ IF HasMissingOutputs THEN EndRoundViaBlame ELSE Advance("Signing")

AllSigned_OffByOne(s) == Cardinality(s) + 1 >= participantCount

AllSigned(s) == Cardinality(s) >= participantCount

\* signing::process_sign, given a signature that verifies.  assemble_final_tx_hex
\* may fail after the signature is recorded: the round then stays in Signing.
RecordSignature(u, assembled) ==
    /\ phase = "Signing"
    /\ material # None
    /\ u \in Inputs \ sigs
    /\ sigs' = sigs \cup {u}
    /\ phase' = IF AllSigned(sigs') /\ assembled THEN "Broadcast" ELSE phase
    /\ UNCHANGED <<roundId, material, registered, participantCount, outputs>>

\* The state half of blame::on_signing_timeout.
SigningTimeout ==
    /\ phase = "Signing"
    /\ EndRoundViaBlame

\* How a round leaves Broadcast: Broadcast -> Idle (accepted, or watchdog)
\* or Broadcast -> Blame -> Idle.  The two leave the same state behind.
BroadcastEnds ==
    /\ phase = "Broadcast"
    /\ EndRound \/ EndRoundViaBlame

-----------------------------------------------------------------------------
(* The specification.                                                      *)

\* The coordinator process ends and starts again with a new round.
Restart ==
    /\ roundId <= MaxRounds
    /\ Reset

RoundInit ==
    /\ phase = "Idle"
    /\ roundId = 1
    /\ material = None
    /\ registered = [u \in Utxos |-> None]
    /\ participantCount = 0
    /\ outputs = {}
    /\ sigs = {}

HoldsToken_AnyKey(u) == registered[u] # None

\* register_input signs whatever bytes a request carries with the installed key.  What
\* was blinded for that key, or for no key at all, unblinds to a token that
\* register_output_logic takes; what was blinded for an earlier round's key does not.
HoldsToken(u) ==
    /\ registered[u] # None
    /\ u \in Blinding => registered[u] = material

RoundNext ==
    \/ roundId <= MaxRounds /\ InstallRound(roundId)
    \/ \E u \in Utxos, k \in 1..roundId : RegisterInput(u, k)
    \/ InputRegTimeout
    \/ \E u \in Utxos : HoldsToken(u) /\ RecordOutput(u)
    \/ OutputRegTimeout
    \/ \E u \in Utxos, assembled \in BOOLEAN : RecordSignature(u, assembled)
    \/ SigningTimeout
    \/ BroadcastEnds
    \/ Restart

RoundSpec == RoundInit /\ [][RoundNext]_roundVars

-----------------------------------------------------------------------------
(* Properties.                                                             *)

Sealed == phase \in {"Signing", "Broadcast"}

\* The state of the round stays in these bounds; in particular no more inputs
\* are admitted than max_participants, by whichever path (register_input).
TypeOK ==
    /\ phase \in Phases
    /\ roundId \in 1..(MaxRounds + 1)
    /\ material \in 0..MaxRounds
    /\ registered \in [Utxos -> 0..MaxRounds]
    /\ participantCount \in 0..MaxParticipants
    /\ outputs \subseteq Utxos
    /\ sigs \subseteq Utxos

\* participant_count, which the early advances and the quorum test read, is the
\* size of registered_inputs, which the PSBT and the blame paths read.
CountIsInputs == participantCount = Cardinality(Inputs)

\* No key, secret or registration outlives the round it was made for: an Idle
\* round holds none, and any other round holds exactly its own (transition_to).
MaterialIsTheRounds ==
    /\ phase = "Idle" => /\ material = None
                          /\ Inputs = {}
                          /\ outputs = {}
                          /\ sigs = {}
    /\ phase # "Idle" => material = roundId

\* Nobody is asked to sign a transaction with an input that has no output, an
\* output that no input paid for, or fewer inputs than the anonymity floor
\* (post_output's early advance, on_output_reg_timeout).
SealedIsBalanced ==
    Sealed => /\ outputs = Inputs
              /\ Cardinality(Inputs) >= MinParticipants

\* An input whose request was validated for an earlier round may be admitted to
\* this one (post_input checks the proof's round id only before the lock).  If its
\* owner blinded the token for the earlier key, as the client does, the new key's
\* signature on it is of no use, and the round is never signed: nobody who blinds is
\* carried into a transaction of a round other than the one that they proved their
\* coin to.  An owner who blinded for no key may be.
SealedIsThisRounds ==
    Sealed => \A u \in Inputs \cap Blinding : registered[u] = roundId

\* A transaction goes to the network only with everybody's signature on it
\* (process_sign); a signature is only ever recorded on a sealed round.
BroadcastIsFullySigned ==
    /\ phase = "Broadcast" => sigs = Inputs
    /\ sigs # {} => Sealed

\* A round that is being signed or broadcast does not change who is in it or
\* what it pays (input and output registration are closed by phase).
SealedIsFrozen ==
    [][Sealed /\ roundId' = roundId => UNCHANGED <<registered, outputs>>]_roundVars

-----------------------------------------------------------------------------
(* The inductive invariant: the properties above, and what they rest on.   *)

\* A round past input registration had its quorum when registration closed.
QuorumReached ==
    phase \in {"OutputReg", "Signing", "Broadcast"} =>
        participantCount >= MinParticipants

\* A phase that a count closes is closed by it: the early advances of post_input and
\* post_output leave nobody waiting for a timer once everybody is in.
ClosedByCount ==
    /\ phase = "InputReg" => RoomForOne
    /\ phase = "OutputReg" => Cardinality(outputs) < participantCount

\* Every redeemed token belongs to an input of this round; if its owner blinded it,
\* to one that was validated for this round.
OutputsAreRedeemed ==
    /\ outputs \subseteq Inputs
    /\ \A u \in outputs \cap Blinding : registered[u] = roundId
    /\ phase \in {"Idle", "InputReg"} => outputs = {}

SigsAreInputs == sigs \subseteq Inputs

\* Only rounds within the bound are ever opened.
OpenRoundInBound == phase # "Idle" => roundId <= MaxRounds

\* What a round is, at every moment: inductive for RoundNext.  Each conjunct is
\* kept by every critical section that takes the round's lock.
RoundInv ==
    /\ TypeOK
    /\ CountIsInputs
    /\ MaterialIsTheRounds
    /\ OpenRoundInBound
    /\ QuorumReached
    /\ ClosedByCount
    /\ OutputsAreRedeemed
    /\ SigsAreInputs
    /\ SealedIsBalanced
    /\ BroadcastIsFullySigned

=============================================================================
