-------------------------- MODULE DiscoveryProofs --------------------------
(***************************************************************************)
(* Proofs about Discovery, for any clients, wallets, coins on chain and      *)
(* configurations: who is admitted, that those can sign, and that what they  *)
(* sign can be spent.                                                      *)
(***************************************************************************)
EXTENDS Discovery, TLAPS

-----------------------------------------------------------------------------
(* What the operators of Ownership promise.                                *)

\* A witness that verifies for a script was made by the key of the script, over the
\* message: the only key that a wallet signs a proof of its own script with.
LEMMA WitnessBindsOwner ==
    ASSUME NEW w \in Wallets, WalletOK(w), NEW script \in Scripts, NEW m, NEW n,
           NEW type \in ScriptTypes, Detects(type, script),
           type = w.type \/ w.type = "p2wpkh",
           VerifySimple(type, script, SignBip322(w, m), n)
    PROVE  type = w.type /\ w.script = script /\ m = n /\ Controls(w, script)
<1> DEFINE wit == SignBip322(w, m)
<1>1. /\ wit.by = script.key
      /\ wit.over = Digest(type, script.key, ToSign(script, n))
  BY DEF VerifySimple, VerifyViaCrate, SignedBy
<1>2. wit # NoWitness
  BY <1>1 DEF NoWitness, Digest
<1>3. CASE w.wif \/ HasLeaf(w)
  <2>1. wit = Witness(w.type, w.script, w.first, ToSign(w.script, m))
    BY <1>2, <1>3 DEF SignBip322, SignSimple
  <2>2. w.script = script /\ m = n /\ w.first = script.key
    BY <2>1, <1>1 DEF Witness, Digest, ToSign
  <2>3. w.type = "p2wpkh" => script.form = "p2wpkh"
    BY <1>2, <1>3, <2>2 DEF SignBip322, SignSimple
  <2>4. type = w.type
    BY <2>3 DEF Detects, Form, ScriptTypes
  <2>5. script = ScriptOf(w.type, w.first)
    BY <2>2, <2>4 DEF Detects, ScriptOf, Scripts
  <2> QED BY <2>2, <2>4, <2>5 DEF Controls, WalletOK
<1>4. CASE ~(w.wif \/ HasLeaf(w))
  <2>1. wit = BdkWitness(w, w.script, ToSign(w.script, m))
    BY <1>4 DEF SignBip322
  <2>2. CASE Controls(w, w.script)
    <3>1. wit = Witness(w.type, w.script, w.script.key, ToSign(w.script, m))
      BY <1>2, <2>1, <2>2 DEF BdkWitness, SignSimple
    <3>2. w.script = script /\ m = n
      BY <3>1, <1>1 DEF Witness, Digest, ToSign
    <3>3. w.type = "p2wpkh" => script.form = "p2wpkh"
      BY <2>2, <3>2 DEF Controls, ScriptOf, Form
    <3> QED BY <2>2, <3>2, <3>3 DEF Detects, Form, ScriptTypes
  <2>3. CASE ~Controls(w, w.script)
    <3>1. /\ w.type = "p2wpkh" /\ w.script.form = "p2wpkh"
          /\ wit = Witness("p2wpkh", w.script, w.first, ToSign(w.script, m))
      BY <1>2, <2>1, <2>3 DEF BdkWitness, SignSimple
    <3>2. w.script = script /\ w.first = script.key
      BY <3>1, <1>1 DEF Witness, Digest, ToSign
    <3>3. w.script = ScriptOf(w.type, w.first)
      BY <3>1, <3>2 DEF ScriptOf, Form, Scripts
    <3> QED BY <2>3, <3>3 DEF Controls, WalletOK
  <2> QED BY <2>2, <2>3
<1> QED BY <1>3, <1>4

\* An envelope that dispatch_ownership_proof takes comes from a wallet that has the
\* key, and is for the message that the coordinator expects.
LEMMA EnvelopeBindsOwner ==
    ASSUME NEW w \in Wallets, WalletOK(w), NEW script \in Scripts, NEW m, NEW n,
           NEW bip, NEW legacy \in BOOLEAN, legacy => w.type = "p2wpkh",
           NEW type \in ScriptTypes,
           Dispatch(FromWire(ToWire(BuildProof(legacy, w, SignBip322(w, m)))),
                    script, bip, n, type)
    PROVE  /\ type = w.type /\ w.script = script /\ m = n
           /\ Controls(w, script)
           /\ Detects(type, script)
           /\ type \in bip.allowed
<1> DEFINE proof == BuildProof(legacy, w, SignBip322(w, m))
           received == FromWire(ToWire(proof))
<1>1. CASE legacy
  <2>1. proof = [version |-> 1, stack |-> SignBip322(w, m), psbt |-> NoWitness,
                 type |-> None]
    BY <1>1 DEF BuildProof
  <2>2. received = proof
    BY <2>1 DEF FromWire, ToWire
  <2>3. VerifySimple(type, script, SignBip322(w, m), n) /\ Detects(type, script)
        /\ type \in bip.allowed
    BY <2>1, <2>2 DEF Dispatch
  <2> QED BY <1>1, <2>3, WitnessBindsOwner
<1>2. CASE ~legacy
  <2>1. proof = [version |-> 2, stack |-> SignBip322(w, m), psbt |-> SignBip322(w, m),
                 type |-> w.type]
    BY <1>2 DEF BuildProof
  <2>2. received = proof
    BY <2>1 DEF FromWire, ToWire
  <2>3. VerifySimple(type, script, SignBip322(w, m), n) /\ Detects(type, script)
        /\ type \in bip.allowed /\ type = w.type
    BY <2>1, <2>2 DEF Dispatch
  <2> QED BY <2>3, WitnessBindsOwner
<1> QED BY <1>1, <1>2

\* The proof of a wallet that has the key of the script it was launched for verifies,
\* whichever of the wallet's signers makes it.
LEMMA OwnerProves ==
    ASSUME NEW w \in Wallets, WalletOK(w), Controls(w, w.script), NEW m
    PROVE  /\ SignBip322(w, m) # NoWitness
           /\ VerifySimple(w.type, w.script, SignBip322(w, m), m)
           /\ Detects(w.type, w.script)
<1>1. PICK k \in w.keys : w.script = ScriptOf(w.type, k)
  BY DEF Controls
<1>2. SignBip322(w, m) = Witness(w.type, w.script, k, ToSign(w.script, m))
  <2>1. CASE w.wif
    <3>1. w.type = "p2wpkh" /\ w.script = ScriptOf("p2wpkh", w.first)
      BY <2>1 DEF WalletOK, FromWif
    <3>2. w.first = k
      BY <1>1, <3>1 DEF ScriptOf
    <3> QED BY <2>1, <3>1, <3>2 DEF SignBip322, SignSimple, ScriptOf, Form
  <2>2. CASE ~w.wif /\ HasLeaf(w)
    <3>1. w.first = k
      BY <1>1, <2>2 DEF HasLeaf, ScriptOf
    <3> QED BY <1>1, <2>2, <3>1 DEF SignBip322, SignSimple, ScriptOf, Form
  <2>3. CASE ~(w.wif \/ HasLeaf(w))
    BY <1>1, <2>3 DEF SignBip322, BdkWitness, SignSimple, ScriptOf, Form
  <2> QED BY <2>1, <2>2, <2>3
<1>3. w.type \in ScriptTypes
  BY DEF Wallets
<1>4. SignBip322(w, m) # NoWitness
  BY <1>2 DEF Witness, NoWitness
<1> QED BY <1>1, <1>2, <1>3, <1>4 DEF VerifySimple, VerifyViaCrate, SignedBy, Witness,
           ScriptOf, Detects

\* A wallet that has the key of an input signs it acceptably, whatever other inputs
\* the transaction has, and with its public key compressed.
LEMMA OwnerSigns ==
    ASSUME NEW w \in Wallets, NEW o \in Outpoints, NEW inputs, o \in inputs,
           NEW subject, Controls(w, Chain[o])
    PROVE  LET signature == SignPsbtInput(w, o, inputs, subject) IN
           /\ VerifyInputSignature(w.type, Chain[o], signature, subject)
           /\ signature.items = 2 => signature.keyLen = 33
<1>1. PICK k \in w.keys : Chain[o] = ScriptOf(w.type, k)
  BY DEF Controls
<1>2. SignPsbtInput(w, o, inputs, subject) = Witness(w.type, Chain[o], k, subject)
  BY <1>1 DEF SignPsbtInput, BdkWitness, SignSimple, ScriptOf, Form
<1> QED BY <1>1, <1>2 DEF VerifyInputSignature, KeyLengths, Witness, SignedBy, ScriptOf, Detects,
           Digest, Wallets, ScriptTypes

\* A signature that verify_input_signature takes can be spent once it is assembled,
\* whoever made it, if its public key is compressed.
LEMMA VerifiedSpends ==
    ASSUME NEW type \in ScriptTypes, NEW script \in Scripts, NEW w, NEW subject,
           VerifyInputSignature(type, script, w, subject),
           w.items = 2 => w.keyLen = 33
    PROVE  Spends(script, Assembled(script, w), subject)
<1>1. CASE type = "p2tr"
  BY <1>1 DEF VerifyInputSignature, Spends, Assembled, Detects, Form
<1>2. CASE type # "p2tr"
  BY <1>2 DEF VerifyInputSignature, Spends, Assembled, ScriptOf, Form, SignedBy, Digest,
     ScriptTypes
<1> QED BY <1>1, <1>2

-----------------------------------------------------------------------------
(* The inductive invariant.                                                *)

\* An old envelope is only ever made by a p2wpkh wallet: register_input's
\* debug_assert, which rests on the check that the resolver made earlier.
LegacyIsP2wpkh ==
    \A c \in Clients :
        client[c].caps.legacy =>
            /\ client[c].at \notin {"off", "launched"}
            /\ client[c].launch.wallet.type = "p2wpkh"

\* Whoever is registered in the round has the key of the coin, and the coin is there
\* under the wallet's type.
RegisteredOwn ==
    \A c \in Clients :
        client[c].at = "registered" /\ client[c].info = round =>
            LET l == client[c].launch IN
            /\ admitted[l.outpoint] = l.wallet.type
            /\ Controls(l.wallet, Chain[l.outpoint])

\* What is recorded was verified for the type that the coin is there under.
RecordedVerified ==
    \A o \in Outpoints :
        witnesses[o] # NoWitness =>
            /\ admitted[o] # None
            /\ VerifyInputSignature(admitted[o], Chain[o], witnesses[o], Tx(round))

\* Past discovery, a client's wallet fits what it was told of the coordinator.
ResolvedFits ==
    \A c \in Clients :
        client[c].at \in {"resolved", "informed", "registered", "signed"} =>
            Fits(client[c].launch.wallet.type, client[c].caps)

\* BipConfig::validate let the configuration pass.
RunsValidated == Up /\ config.release = "v1.4" => ValidBip(config.bip)

DiscoveryInv ==
    /\ DiscoveryTypeOK
    /\ ResolvedFits
    /\ RunsValidated
    /\ LegacyIsP2wpkh
    /\ RegisteredOwn
    /\ RecordedVerified

LEMMA OptionFacts ==
    ASSUME NEW c \in Clients, NEW l \in Options[c]
    PROVE  /\ l \in LaunchSpace
           /\ l.wallet \in Wallets /\ WalletOK(l.wallet)
           /\ l.outpoint \in Outpoints
           /\ l.wallet.type \in ScriptTypes
           /\ Chain[l.outpoint] \in Scripts
BY OwnershipAssumption, DiscoveryAssumption DEF LaunchSpace, Wallets

\* None names no script type.
LEMMA NoneIsNoType == None \notin ScriptTypes
BY DEF None, ScriptTypes

LEMMA CapabilitiesFacts ==
    /\ Malformed \in Capabilities
    /\ \A c \in Configs : CapabilitiesOf(RecordOf(c)) \in Capabilities
    /\ \A type \in ScriptTypes : ManualCapabilities(type) \in Capabilities
<1>1. \A c \in Configs : c.bip.allowed \in SUBSET ScriptTypes /\ c.bip.output \in ScriptTypes
  BY DiscoveryAssumption DEF ConfigurationSpace, BipConfigs
<1>2. ASSUME NEW c \in Configs PROVE CapabilitiesOf(RecordOf(c)) \in Capabilities
  BY <1>1 DEF CapabilitiesOf, RecordOf, Malformed, Capabilities, ScriptTypes
<1> QED BY <1>2 DEF Capabilities, Malformed, ManualCapabilities, ScriptTypes

\* A launch that is under way is one of its owner's options.
LEMMA LaunchFacts ==
    ASSUME DiscoveryTypeOK, NEW c \in Clients, client[c].at # "off"
    PROVE  /\ client[c].launch \in LaunchSpace
           /\ client[c].launch.wallet \in Wallets /\ WalletOK(client[c].launch.wallet)
           /\ client[c].launch.outpoint \in Outpoints
           /\ client[c].launch.wallet.type \in ScriptTypes
           /\ Chain[client[c].launch.outpoint] \in Scripts
           /\ client[c].caps \in Capabilities
           /\ client[c].caps.legacy \in BOOLEAN
BY OptionFacts DEF DiscoveryTypeOK, ClientSpace, Capabilities

LEMMA InitEstablishesInv == Init => DiscoveryInv
<1> SUFFICES ASSUME Init PROVE DiscoveryInv
  OBVIOUS
<1>1. DiscoveryTypeOK
  <2>1. Idle \in ClientSpace
    BY CapabilitiesFacts DEF ClientSpace, Idle
  <2>2. client \in [Clients -> ClientSpace]
    BY <2>1 DEF Init
  <2>3. \A c \in Clients : client[c].at = "off" /\ client[c].info <= round
    BY DEF Init, Idle
  <2>4. /\ config \in Configs \cup {Down}
        /\ {keyFile, identity} \subseteq 0..identities
        /\ identities \in 0..MaxIdentities
        /\ round \in 0..MaxRounds
    BY DiscoveryAssumption DEF Init
  <2>5. /\ record \in {RecordOf(c) : c \in Configs} \cup {NoRecord}
        /\ signing \in BOOLEAN
        /\ admitted \in [Outpoints -> ScriptTypes \cup {None}]
        /\ DOMAIN witnesses = Outpoints
    BY DEF Init
  <2> QED BY <2>2, <2>3, <2>4, <2>5 DEF DiscoveryTypeOK
<1>2. LegacyIsP2wpkh /\ RegisteredOwn /\ ResolvedFits /\ RunsValidated
  BY DEF Init, LegacyIsP2wpkh, RegisteredOwn, Idle, Malformed, ResolvedFits,
     RunsValidated, Up
<1>3. RecordedVerified
  BY DEF Init, RecordedVerified
<1> QED BY <1>1, <1>2, <1>3 DEF DiscoveryInv

\* Steps of the coordinator's process and of the DHT that leave the round alone.
LEMMA OutsideRoundPreserves ==
    ASSUME DiscoveryInv, Stop \/ KeyFileLost \/ Heartbeat \/ RecordExpires
    PROVE  DiscoveryInv'
<1>1. UNCHANGED <<roundVars, client>>
  BY DEF Stop, KeyFileLost, Heartbeat, RecordExpires, roundVars
<1>2. DiscoveryTypeOK'
  <2>1. /\ config' \in Configs \cup {Down}
        /\ {keyFile', identity'} \subseteq 0..identities'
        /\ identities' \in 0..MaxIdentities
    BY DEF DiscoveryInv, DiscoveryTypeOK, Stop, KeyFileLost, Heartbeat, RecordExpires
  <2>2. record' \in {RecordOf(c) : c \in Configs} \cup {NoRecord}
    BY DEF DiscoveryInv, DiscoveryTypeOK, Stop, KeyFileLost, Heartbeat, RecordExpires,
       Publish, Up
  <2> QED BY <1>1, <2>1, <2>2 DEF DiscoveryInv, DiscoveryTypeOK, roundVars
<1>3. LegacyIsP2wpkh' /\ RegisteredOwn' /\ RecordedVerified' /\ ResolvedFits'
  BY <1>1 DEF DiscoveryInv, LegacyIsP2wpkh, RegisteredOwn, RecordedVerified, roundVars,
     ResolvedFits, Tx
<1>4. RunsValidated'
  BY DEF DiscoveryInv, RunsValidated, Up, Stop, KeyFileLost, Heartbeat, RecordExpires
<1> QED BY <1>2, <1>3, <1>4 DEF DiscoveryInv

\* A new round has nobody in it.
LEMMA NewRoundPreserves ==
    ASSUME DiscoveryInv, NewRound, UNCHANGED client,
           config' \in Configs \cup {Down}, {keyFile', identity'} \subseteq 0..identities',
           identities' \in 0..MaxIdentities, UNCHANGED record, RunsValidated'
    PROVE  DiscoveryInv'
<1>1. round' \in 0..MaxRounds /\ round' > round /\ round \in Nat
  BY DiscoveryAssumption DEF NewRound, DiscoveryInv, DiscoveryTypeOK
<1>2. \A c \in Clients : client[c].info \in Nat /\ client[c].info <= round
  BY DEF DiscoveryInv, DiscoveryTypeOK, ClientSpace
<1>3. DiscoveryTypeOK'
  <2>1. \A c \in Clients : client'[c].info <= round'
    BY <1>1, <1>2
  <2> QED BY <1>1, <2>1 DEF DiscoveryInv, DiscoveryTypeOK, NewRound
<1>4. LegacyIsP2wpkh' /\ ResolvedFits'
  BY DEF DiscoveryInv, LegacyIsP2wpkh, ResolvedFits
<1>5. RegisteredOwn'
  BY <1>1, <1>2 DEF RegisteredOwn
<1>6. RecordedVerified'
  BY DEF NewRound, RecordedVerified
<1> QED BY <1>3, <1>4, <1>5, <1>6 DEF DiscoveryInv

LEMMA StartPreserves ==
    ASSUME DiscoveryInv, NEW c \in Configs, Start(c)
    PROVE  DiscoveryInv'
<1>1. {keyFile', identity'} \subseteq 0..identities' /\ identities' \in 0..MaxIdentities
  BY DiscoveryAssumption DEF Start, LoadKey, DiscoveryInv, DiscoveryTypeOK
<1>2. RunsValidated'
  BY DEF Start, RunsValidated
<1> QED BY <1>1, <1>2, NewRoundPreserves DEF Start

LEMMA NextRoundPreserves ==
    ASSUME DiscoveryInv, NextRound
    PROVE  DiscoveryInv'
<1>1. UNCHANGED coordinatorVars /\ UNCHANGED client /\ NewRound
  BY DEF NextRound
<1> QED BY <1>1, NewRoundPreserves
        DEF coordinatorVars, DiscoveryInv, DiscoveryTypeOK, RunsValidated, Up

LEMMA CloseRegistrationPreserves ==
    ASSUME DiscoveryInv, CloseRegistration
    PROVE  DiscoveryInv'
BY DEF CloseRegistration, DiscoveryInv, DiscoveryTypeOK, LegacyIsP2wpkh, RegisteredOwn,
   RecordedVerified, ResolvedFits, RunsValidated, Up, coordinatorVars, Tx

\* A step of one client that leaves the round alone and does not register it.
LEMMA ClientStepPreserves ==
    ASSUME DiscoveryInv, NEW c \in Clients, NEW next \in ClientSpace,
           client' = [client EXCEPT ![c] = next],
           UNCHANGED <<coordinatorVars, roundVars>>,
           next.at # "off" => next.launch \in Options[c],
           next.info <= round,
           next.at # "registered",
           next.caps.legacy =>
               next.at \notin {"off", "launched"} /\ next.launch.wallet.type = "p2wpkh",
           next.at \in {"resolved", "informed", "signed"} =>
               Fits(next.launch.wallet.type, next.caps)
    PROVE  DiscoveryInv'
<1>1. /\ client'[c] = next
      /\ \A d \in Clients \ {c} : client'[d] = client[d]
  BY DEF DiscoveryInv, DiscoveryTypeOK
<1>2. DiscoveryTypeOK'
  BY <1>1 DEF DiscoveryInv, DiscoveryTypeOK, coordinatorVars, roundVars
<1>3. LegacyIsP2wpkh'
  BY <1>1 DEF DiscoveryInv, LegacyIsP2wpkh
<1>4. RegisteredOwn'
  BY <1>1 DEF DiscoveryInv, RegisteredOwn, roundVars
<1>5. RecordedVerified' /\ RunsValidated'
  BY DEF DiscoveryInv, RecordedVerified, RunsValidated, Up, roundVars, coordinatorVars, Tx
<1>6. ResolvedFits'
  BY <1>1 DEF DiscoveryInv, ResolvedFits
<1> QED BY <1>2, <1>3, <1>4, <1>5, <1>6 DEF DiscoveryInv

LEMMA LaunchPreserves ==
    ASSUME DiscoveryInv, NEW c \in Clients, NEW l \in Options[c], Launch(c, l)
    PROVE  DiscoveryInv'
<1>1. client[c] \in ClientSpace /\ client[c].info <= round
  BY DEF DiscoveryInv, DiscoveryTypeOK
<1>2. ~client[c].caps.legacy
  BY DEF Launch, DiscoveryInv, LegacyIsP2wpkh
<1>3. PICK where \in {"launched", "refused"} :
        client' = [client EXCEPT ![c] = [client[c] EXCEPT !.launch = l, !.at = where]]
  <2>1. CASE l.wallet.wif \/ DescriptorAccepted(l.wallet.type, l.flag, l.shape)
    BY <2>1, <1>1 DEF Launch, ClientSpace, DiscoveryInv, DiscoveryTypeOK
  <2>2. CASE ~(l.wallet.wif \/ DescriptorAccepted(l.wallet.type, l.flag, l.shape))
    BY <2>2, <1>1 DEF Launch, ClientSpace, DiscoveryInv, DiscoveryTypeOK
  <2> QED BY <2>1, <2>2
<1> DEFINE next == [client[c] EXCEPT !.launch = l, !.at = where]
<1>4. /\ next \in ClientSpace
      /\ next.at = where /\ next.launch = l
      /\ next.info = client[c].info /\ next.caps = client[c].caps
  BY <1>1, OptionFacts DEF ClientSpace
<1> HIDE DEF next
<1> QED BY <1>1, <1>2, <1>3, <1>4, ClientStepPreserves DEF Launch, next

LEMMA ResolvePreserves ==
    ASSUME DiscoveryInv, NEW c \in Clients, Resolve(c)
    PROVE  DiscoveryInv'
<1> DEFINE l == client[c].launch
           type == l.wallet.type
           caps == IF l.manual THEN ManualCapabilities(type) ELSE CapabilitiesOf(record)
<1>1. /\ client[c] \in ClientSpace /\ client[c].info <= round
      /\ client[c].at = "launched" /\ l \in Options[c]
  BY DEF Resolve, DiscoveryInv, DiscoveryTypeOK
<1>2. type \in ScriptTypes
  BY <1>1, OptionFacts
<1>3. ~client[c].caps.legacy
  BY <1>1 DEF DiscoveryInv, LegacyIsP2wpkh
<1>6. UNCHANGED <<coordinatorVars, roundVars>>
  BY DEF Resolve
<1>4. CASE ~l.manual /\ (record = NoRecord \/ ~Fits(type, caps))
  <2> DEFINE next == [client[c] EXCEPT !.at = "refused"]
  <2>1. client' = [client EXCEPT ![c] = next]
    BY <1>4, <1>1 DEF Resolve, DiscoveryInv, DiscoveryTypeOK, ClientSpace
  <2>2. /\ next \in ClientSpace
        /\ next.at = "refused" /\ next.launch = l
        /\ next.info = client[c].info /\ next.caps = client[c].caps
    BY <1>1 DEF ClientSpace
  <2>3. /\ next.launch \in Options[c]
        /\ next.info <= round
        /\ next.at # "registered"
        /\ ~next.caps.legacy
    BY <1>1, <1>3, <2>2
  <2> HIDE DEF next
  <2> QED BY <1>6, <2>1, <2>2, <2>3, ClientStepPreserves
<1>5. CASE l.manual \/ (record # NoRecord /\ Fits(type, caps))
  <2> DEFINE next == [client[c] EXCEPT !.at = "resolved", !.caps = caps]
  <2>1. caps \in Capabilities
    <3>1. CASE l.manual
      BY <3>1, <1>2, CapabilitiesFacts
    <3>2. CASE ~l.manual
      BY <3>2, <1>5, CapabilitiesFacts DEF DiscoveryInv, DiscoveryTypeOK
    <3> QED BY <3>1, <3>2
  <2>2. caps.legacy => type = "p2wpkh"
    <3>1. CASE l.manual
      BY <3>1 DEF ManualCapabilities
    <3>2. CASE ~l.manual
      BY <3>2, <1>5 DEF Fits, CapabilitiesOf, Malformed
    <3> QED BY <3>1, <3>2
  <2> HIDE DEF caps
  <2>3. client' = [client EXCEPT ![c] = next]
    BY <1>5, <1>1 DEF Resolve, caps, DiscoveryInv, DiscoveryTypeOK, ClientSpace
  <2>5. Fits(type, caps)
    BY <1>2, <1>5 DEF caps, Fits, ManualCapabilities
  <2>4. /\ next \in ClientSpace
        /\ next.at = "resolved" /\ next.launch = l
        /\ next.info = client[c].info /\ next.caps = caps
    BY <1>1, <2>1 DEF ClientSpace
  <2> HIDE DEF next
  <2> QED BY <1>1, <1>6, <2>2, <2>3, <2>4, <2>5, ClientStepPreserves
<1> QED BY <1>4, <1>5

LEMMA PollInfoPreserves ==
    ASSUME DiscoveryInv, NEW c \in Clients, PollInfo(c)
    PROVE  DiscoveryInv'
<1> DEFINE next == [client[c] EXCEPT !.at = "informed", !.info = round]
<1>1. /\ client[c] \in ClientSpace /\ round \in Nat
      /\ client[c].at = "resolved" /\ client[c].launch \in Options[c]
  BY DiscoveryAssumption DEF PollInfo, DiscoveryInv, DiscoveryTypeOK
<1>2. /\ client[c].caps.legacy => client[c].launch.wallet.type = "p2wpkh"
      /\ Fits(client[c].launch.wallet.type, client[c].caps)
  BY <1>1 DEF DiscoveryInv, LegacyIsP2wpkh, ResolvedFits
<1>5. UNCHANGED <<coordinatorVars, roundVars>>
  BY DEF PollInfo
<1>3. client' = [client EXCEPT ![c] = next]
  BY <1>1 DEF PollInfo, DiscoveryInv, DiscoveryTypeOK, ClientSpace
<1>4. /\ next \in ClientSpace
      /\ next.at = "informed" /\ next.launch = client[c].launch
      /\ next.info = round /\ next.caps = client[c].caps
  BY <1>1 DEF ClientSpace
<1>6. round <= round
  BY <1>1
<1> HIDE DEF next
<1> QED BY <1>1, <1>2, <1>3, <1>4, <1>5, <1>6, ClientStepPreserves

\* A client that moved to `where` and changed nothing else.
LEMMA MovePreserves ==
    ASSUME DiscoveryInv, NEW c \in Clients, client[c].at # "off", client[c].at # "launched",
           NEW where \in {"refused", "signed"},
           where = "signed" => client[c].at = "registered",
           client' = [client EXCEPT ![c].at = where],
           UNCHANGED <<coordinatorVars, roundVars>>
    PROVE  DiscoveryInv'
<1> DEFINE next == [client[c] EXCEPT !.at = where]
<1>1. /\ client[c] \in ClientSpace /\ client[c].info <= round
      /\ client[c].launch \in Options[c]
  BY DEF DiscoveryInv, DiscoveryTypeOK
<1>2. /\ client[c].caps.legacy => client[c].launch.wallet.type = "p2wpkh"
      /\ where = "signed" => Fits(client[c].launch.wallet.type, client[c].caps)
  BY DEF DiscoveryInv, LegacyIsP2wpkh, ResolvedFits
<1>3. client' = [client EXCEPT ![c] = next]
  BY <1>1 DEF DiscoveryInv, DiscoveryTypeOK, ClientSpace
<1>4. /\ next \in ClientSpace
      /\ next.at = where /\ next.launch = client[c].launch
      /\ next.info = client[c].info /\ next.caps = client[c].caps
  BY <1>1 DEF ClientSpace
<1> HIDE DEF next
<1> QED BY <1>1, <1>2, <1>3, <1>4, ClientStepPreserves

LEMMA RegisterRefusedPreserves ==
    ASSUME DiscoveryInv, NEW c \in Clients, RegisterRefused(c)
    PROVE  DiscoveryInv'
BY MovePreserves DEF RegisterRefused

\* What an accepted registration shows of the client.
LEMMA AcceptedFacts ==
    ASSUME DiscoveryInv, NEW c \in Clients, client[c].at = "informed",
           NEW type \in ScriptTypes, Registrable(c, type)
    PROVE  LET l == client[c].launch IN
           /\ l.outpoint \in Outpoints
           /\ admitted[l.outpoint] = None
           /\ type = l.wallet.type
           /\ Controls(l.wallet, Chain[l.outpoint])
           /\ Detects(type, Chain[l.outpoint])
           /\ type \in config.bip.allowed
           /\ client[c].info = round
<1> DEFINE l == client[c].launch
           m == Message(client[c].info, l.outpoint)
           n == Message(round, l.outpoint)
<1>1. /\ l.wallet \in Wallets /\ WalletOK(l.wallet)
      /\ l.outpoint \in Outpoints
      /\ Chain[l.outpoint] \in Scripts
      /\ client[c].caps.legacy \in BOOLEAN
  BY LaunchFacts DEF DiscoveryInv
<1>2. client[c].caps.legacy => l.wallet.type = "p2wpkh"
  BY DEF DiscoveryInv, LegacyIsP2wpkh
<1>3. Dispatch(FromWire(ToWire(BuildProof(client[c].caps.legacy, l.wallet,
                                          SignBip322(l.wallet, m)))),
               Chain[l.outpoint], config.bip, n, type)
  BY DEF Registrable, Admits, ProofOf
<1>4. /\ type = l.wallet.type /\ m = n
      /\ Controls(l.wallet, Chain[l.outpoint])
      /\ Detects(type, Chain[l.outpoint])
      /\ type \in config.bip.allowed
  BY <1>1, <1>2, <1>3, EnvelopeBindsOwner
<1>5. client[c].info = round
  BY <1>4 DEF Message
<1> QED BY <1>1, <1>4, <1>5 DEF Registrable

LEMMA RegisterAcceptedPreserves ==
    ASSUME DiscoveryInv, NEW c \in Clients, RegisterAccepted(c)
    PROVE  DiscoveryInv'
<1> DEFINE o == client[c].launch.outpoint
<1>1. PICK type \in ScriptTypes :
         Registrable(c, type) /\ admitted' = [admitted EXCEPT ![o] = type]
  BY DEF RegisterAccepted
<1>2. /\ client[c].at = "informed"
      /\ client' = [client EXCEPT ![c].at = "registered"]
      /\ UNCHANGED <<coordinatorVars, round, signing, witnesses>>
  BY DEF RegisterAccepted
<1>3. /\ o \in Outpoints /\ admitted[o] = None
      /\ type = client[c].launch.wallet.type
      /\ Controls(client[c].launch.wallet, Chain[o])
  BY <1>1, <1>2, AcceptedFacts
<1>4. /\ client \in [Clients -> ClientSpace]
      /\ admitted \in [Outpoints -> ScriptTypes \cup {None}]
  BY DEF DiscoveryInv, DiscoveryTypeOK
<1>5. /\ client' \in [Clients -> ClientSpace]
      /\ \A d \in Clients : /\ client'[d].launch = client[d].launch
                            /\ client'[d].info = client[d].info
                            /\ client'[d].caps = client[d].caps
      /\ \A d \in Clients \ {c} : client'[d] = client[d]
      /\ client'[c].at = "registered"
  BY <1>2, <1>4 DEF ClientSpace
<1>6. /\ admitted'[o] = type
      /\ \A p \in Outpoints \ {o} : admitted'[p] = admitted[p]
      /\ admitted' \in [Outpoints -> ScriptTypes \cup {None}]
  BY <1>1, <1>3, <1>4
<1>7. DiscoveryTypeOK'
  <2>1. \A d \in Clients : client'[d].at # "off" => client[d].at # "off"
    BY <1>2, <1>5
  <2> QED BY <1>2, <1>5, <1>6, <2>1 DEF DiscoveryInv, DiscoveryTypeOK, coordinatorVars
<1>8. LegacyIsP2wpkh' /\ ResolvedFits' /\ RunsValidated'
  BY <1>2, <1>5 DEF DiscoveryInv, LegacyIsP2wpkh, ResolvedFits, RunsValidated, Up,
     coordinatorVars
<1>9. RegisteredOwn'
  <2> SUFFICES ASSUME NEW d \in Clients, client'[d].at = "registered",
                      client'[d].info = round'
               PROVE  /\ admitted'[client'[d].launch.outpoint] = client'[d].launch.wallet.type
                      /\ Controls(client'[d].launch.wallet, Chain[client'[d].launch.outpoint])
    BY DEF RegisteredOwn
  <2>1. CASE d = c
    BY <2>1, <1>3, <1>5, <1>6
  <2>2. CASE d # c
    <3> DEFINE p == client[d].launch.outpoint
    <3>1. /\ client[d].at = "registered" /\ client[d].info = round
          /\ client'[d].launch = client[d].launch
      BY <2>2, <1>2, <1>5
    <3>2. /\ admitted[p] = client[d].launch.wallet.type
          /\ Controls(client[d].launch.wallet, Chain[p])
      BY <3>1 DEF DiscoveryInv, RegisteredOwn
    <3>3. p \in Outpoints /\ client[d].launch.wallet.type \in ScriptTypes
      BY <3>1, LaunchFacts DEF DiscoveryInv
    <3>4. p # o
      BY <1>3, <3>2, <3>3, NoneIsNoType
    <3> QED BY <1>6, <3>1, <3>2, <3>3, <3>4
  <2> QED BY <2>1, <2>2
<1>10. RecordedVerified'
  <2> SUFFICES ASSUME NEW p \in Outpoints, witnesses'[p] # NoWitness
               PROVE  /\ admitted'[p] # None
                      /\ VerifyInputSignature(admitted'[p], Chain[p], witnesses'[p],
                                              Tx(round'))
    BY DEF RecordedVerified
  <2>1. /\ admitted[p] # None
        /\ VerifyInputSignature(admitted[p], Chain[p], witnesses[p], Tx(round))
    BY <1>2 DEF DiscoveryInv, RecordedVerified
  <2>2. p # o
    BY <1>3, <2>1
  <2> QED BY <1>2, <1>6, <2>1, <2>2
<1> QED BY <1>7, <1>8, <1>9, <1>10 DEF DiscoveryInv

LEMMA SignTxPreserves ==
    ASSUME DiscoveryInv, NEW c \in Clients, SignTx(c)
    PROVE  DiscoveryInv'
<1> DEFINE o == client[c].launch.outpoint
<1>1. client[c].at = "registered" /\ UNCHANGED <<coordinatorVars, round, signing, admitted>>
  BY DEF SignTx
<1>2. CASE client' = [client EXCEPT ![c].at = "refused"] /\ UNCHANGED witnesses
  BY <1>1, <1>2, MovePreserves DEF roundVars
<1>3. ASSUME NEW w, Signable(c, w),
             witnesses' = [witnesses EXCEPT ![o] = w],
             client' = [client EXCEPT ![c].at = "signed"]
      PROVE  DiscoveryInv'
  <2>1. /\ witnesses' = [witnesses EXCEPT ![o] = w]
        /\ client' = [client EXCEPT ![c].at = "signed"]
    BY <1>3
  <2>2. /\ client \in [Clients -> ClientSpace]
        /\ DOMAIN witnesses = Outpoints
    BY DEF DiscoveryInv, DiscoveryTypeOK
  <2>3. o \in Outpoints /\ client[c].launch.wallet.type \in ScriptTypes
    BY <1>1, LaunchFacts DEF DiscoveryInv
  <2>4. /\ admitted[o] = client[c].launch.wallet.type
        /\ VerifyInputSignature(admitted[o], Chain[o], w, Tx(round))
    BY <1>1, <1>3 DEF DiscoveryInv, RegisteredOwn, Signable
  <2>5. /\ client' \in [Clients -> ClientSpace]
        /\ \A d \in Clients : /\ client'[d].launch = client[d].launch
                              /\ client'[d].info = client[d].info
                              /\ client'[d].caps = client[d].caps
        /\ \A d \in Clients \ {c} : client'[d] = client[d]
        /\ client'[c].at = "signed"
    BY <2>1, <2>2 DEF ClientSpace
  <2>6. DOMAIN witnesses' = Outpoints
    BY <2>1, <2>2
  <2>7. DiscoveryTypeOK'
    <3>1. \A d \in Clients : client'[d].at # "off" => client[d].at # "off"
      BY <1>1, <2>5
    <3> QED BY <1>1, <2>5, <2>6, <3>1 DEF DiscoveryInv, DiscoveryTypeOK, coordinatorVars
  <2>8. LegacyIsP2wpkh' /\ ResolvedFits' /\ RunsValidated'
    BY <1>1, <2>5 DEF DiscoveryInv, LegacyIsP2wpkh, ResolvedFits, RunsValidated, Up,
       coordinatorVars
  <2>9. RegisteredOwn'
    BY <1>1, <2>5 DEF DiscoveryInv, RegisteredOwn
  <2>10. RecordedVerified'
    BY <1>1, <2>1, <2>2, <2>3, <2>4, NoneIsNoType DEF DiscoveryInv, RecordedVerified
  <2> QED BY <2>7, <2>8, <2>9, <2>10 DEF DiscoveryInv
<1> QED BY <1>2, <1>3 DEF SignTx

-----------------------------------------------------------------------------
(* The theorems.                                                           *)

\* Every step keeps the invariant.
LEMMA NextPreservesInv == DiscoveryInv /\ [Next]_vars => DiscoveryInv'
<1> SUFFICES ASSUME DiscoveryInv, [Next]_vars PROVE DiscoveryInv'
  OBVIOUS
<1>1. CASE CoordinatorNext
  BY <1>1, StartPreserves, OutsideRoundPreserves, NextRoundPreserves,
     CloseRegistrationPreserves DEF CoordinatorNext
<1>2. ASSUME NEW c \in Clients, ClientNext(c) PROVE DiscoveryInv'
  BY <1>2, LaunchPreserves, ResolvePreserves, PollInfoPreserves,
     RegisterAcceptedPreserves, RegisterRefusedPreserves, SignTxPreserves
     DEF ClientNext
<1>3. CASE UNCHANGED vars
  BY <1>3 DEF vars, coordinatorVars, roundVars, DiscoveryInv, DiscoveryTypeOK,
     LegacyIsP2wpkh, RegisteredOwn, RecordedVerified, ResolvedFits, RunsValidated, Up, Tx
<1> QED BY <1>1, <1>2, <1>3 DEF Next

\* The strengthened invariant, which holds the type of every variable.
THEOREM DiscoveryInvariant == Spec => []DiscoveryInv
BY InitEstablishesInv, NextPreservesInv, PTL DEF Spec

\* Launches, records and tables are always what the types say.
THEOREM DiscoveryTypeCorrect == Spec => []DiscoveryTypeOK
<1>1. DiscoveryInv => DiscoveryTypeOK
  BY DEF DiscoveryInv
<1> QED BY <1>1, DiscoveryInvariant, PTL

\* register_input's debug_assert never fires: no release and no record brings a
\* client with another type to the old envelope.
THEOREM LegacyEnvelopeIsP2wpkh == Spec => []LegacyIsP2wpkh
<1>1. DiscoveryInv => LegacyIsP2wpkh
  BY DEF DiscoveryInv
<1> QED BY <1>1, DiscoveryInvariant, PTL

\* Whoever proved a coin can sign for it, and the network takes the signature
\* (register_input, sign_psbt_input, verify_input_signature and assemble_final_tx_hex
\* together), for any mix of coins and wallets.
THEOREM ProversSign == Spec => []ProversCanSign
<1>1. ASSUME DiscoveryInv, NEW c \in Clients,
             client[c].at = "registered", client[c].info = round
      PROVE  LET o == client[c].launch.outpoint IN
             /\ admitted[o] # None
             /\ VerifyInputSignature(admitted[o], Chain[o], Signature(c), Tx(round))
             /\ Spends(Chain[o], Assembled(Chain[o], Signature(c)), Tx(round))
  <2> DEFINE o == client[c].launch.outpoint
             w == client[c].launch.wallet
  <2>1. admitted[o] = w.type /\ Controls(w, Chain[o])
    BY <1>1 DEF DiscoveryInv, RegisteredOwn
  <2>2. /\ w \in Wallets /\ w.type \in ScriptTypes /\ o \in Outpoints
        /\ Chain[o] \in Scripts
    BY <1>1, LaunchFacts DEF DiscoveryInv
  <2>3. admitted[o] # None
    BY <2>1, <2>2, NoneIsNoType
  <2>4. o \in Registered
    BY <2>2, <2>3 DEF Registered
  <2>5. /\ VerifyInputSignature(w.type, Chain[o], Signature(c), Tx(round))
        /\ Signature(c).items = 2 => Signature(c).keyLen = 33
    BY <2>1, <2>2, <2>4, OwnerSigns DEF Signature
  <2>6. Spends(Chain[o], Assembled(Chain[o], Signature(c)), Tx(round))
    BY <2>2, <2>5, VerifiedSpends
  <2> QED BY <2>1, <2>3, <2>5, <2>6
<1>2. DiscoveryInv => ProversCanSign
  BY <1>1 DEF ProversCanSign
<1> QED BY <1>2, DiscoveryInvariant, PTL

\* Whatever was posted and recorded as a signature, with its public key compressed,
\* makes a valid input (verify_input_signature, assemble_final_tx_hex and consensus
\* together), although it was checked alone and for the type kept from registration.
THEOREM AssemblyIsValid == Spec => []AssembledIsValid
<1>1. ASSUME DiscoveryInv, NEW o \in Outpoints, witnesses[o] # NoWitness,
             witnesses[o].items = 2 => witnesses[o].keyLen = 33
      PROVE  Spends(Chain[o], Assembled(Chain[o], witnesses[o]), Tx(round))
  <2>1. /\ admitted[o] # None
        /\ VerifyInputSignature(admitted[o], Chain[o], witnesses[o], Tx(round))
    BY <1>1 DEF DiscoveryInv, RecordedVerified
  <2>2. admitted[o] \in ScriptTypes /\ Chain[o] \in Scripts
    BY <1>1, <2>1, OwnershipAssumption DEF DiscoveryInv, DiscoveryTypeOK
  <2> QED BY <1>1, <2>1, <2>2, VerifiedSpends
<1>2. DiscoveryInv => AssembledIsValid
  BY <1>1 DEF AssembledIsValid
<1> QED BY <1>2, DiscoveryInvariant, PTL

\* A coin enters a round only with a proof of this round by a wallet that has its
\* key, and under the type of its script (validate_utxo), for any chain.
THEOREM AdmissionIsByOwners == Spec => OnlyOwnersAdmitted
<1>1. ASSUME DiscoveryInv, [Next]_vars, NEW o \in Outpoints,
             admitted[o] = None, admitted'[o] # None
      PROVE  /\ Detects(admitted'[o], Chain[o])
             /\ admitted'[o] \in config.bip.allowed
             /\ \E c \in Clients :
                   /\ client[c].at = "informed" /\ client'[c].at = "registered"
                   /\ client[c].launch.outpoint = o
                   /\ client[c].info = round
                   /\ Controls(client[c].launch.wallet, Chain[o])
  <2>1. PICK c \in Clients : RegisterAccepted(c)
    <3>1. ~UNCHANGED admitted /\ ~NewRound
      BY <1>1 DEF NewRound
    <3>2. ~UNCHANGED vars /\ ~CoordinatorNext
      BY <3>1 DEF vars, roundVars, CoordinatorNext, Start, Stop, KeyFileLost, Heartbeat,
         RecordExpires, NextRound, CloseRegistration
    <3>3. PICK c \in Clients : ClientNext(c)
      BY <1>1, <3>2 DEF Next
    <3>4. ASSUME NEW l \in Options[c] PROVE ~Launch(c, l)
      BY <3>1 DEF Launch, roundVars
    <3>5. ~Resolve(c) /\ ~PollInfo(c) /\ ~RegisterRefused(c) /\ ~SignTx(c)
      BY <3>1 DEF Resolve, PollInfo, RegisterRefused, SignTx, roundVars
    <3> QED BY <3>3, <3>4, <3>5 DEF ClientNext
  <2> DEFINE p == client[c].launch.outpoint
  <2>2. PICK type \in ScriptTypes :
           Registrable(c, type) /\ admitted' = [admitted EXCEPT ![p] = type]
    BY <2>1 DEF RegisterAccepted
  <2>3. /\ client[c].at = "informed"
        /\ client' = [client EXCEPT ![c].at = "registered"]
        /\ client \in [Clients -> ClientSpace]
        /\ admitted \in [Outpoints -> ScriptTypes \cup {None}]
    BY <1>1, <2>1 DEF RegisterAccepted, DiscoveryInv, DiscoveryTypeOK
  <2>4. client'[c].at = "registered"
    BY <2>3 DEF ClientSpace
  <2>5. p = o /\ admitted'[o] = type
    BY <1>1, <2>2, <2>3
  <2>6. /\ Controls(client[c].launch.wallet, Chain[p])
        /\ Detects(type, Chain[p])
        /\ type \in config.bip.allowed
        /\ client[c].info = round
    BY <1>1, <2>2, <2>3, AcceptedFacts
  <2> QED BY <2>3, <2>4, <2>5, <2>6
<1>2. DiscoveryInv /\ [Next]_vars =>
         [\A o \in Outpoints :
             admitted[o] = None /\ admitted'[o] # None =>
                /\ Detects(admitted'[o], Chain[o])
                /\ admitted'[o] \in config.bip.allowed
                /\ \E c \in Clients :
                      /\ client[c].at = "informed" /\ client'[c].at = "registered"
                      /\ client[c].launch.outpoint = o
                      /\ client[c].info = round
                      /\ Controls(client[c].launch.wallet, Chain[o])]_vars
  BY <1>1
<1> QED BY <1>2, DiscoveryInvariant, PTL DEF Spec, OnlyOwnersAdmitted

\* A client is turned away only for a reason of its own or of time; never by a
\* coordinator that it has the current record of (discover_coordinator,
\* register_input and dispatch_ownership_proof together), for any configurations.
THEOREM RefusalsAreCaused == Spec => RefusalsHaveCause
<1> DEFINE Cause(c) ==
      LET w == client[c].launch.wallet
          o == client[c].launch.outpoint
          caps == client[c].caps
      IN \/ client[c].info # round \/ signing
         \/ admitted[o] # None
         \/ w.script # Chain[o] \/ ~Controls(w, Chain[o])
         \/ /\ caps # CapabilitiesOf(RecordOf(config))
            /\ \/ w.type \notin config.bip.allowed
               \/ ~caps.legacy /\ config.release = "v1.3"
<1>1. ASSUME DiscoveryInv, NEW c \in Clients, Up, client[c].at = "informed", ~Cause(c)
      PROVE  Registrable(c, client[c].launch.wallet.type)
  <2> DEFINE w == client[c].launch.wallet
             o == client[c].launch.outpoint
             caps == client[c].caps
             m == Message(round, o)
             proof == BuildProof(caps.legacy, w, SignBip322(w, m))
  <2>1. /\ client[c].info = round /\ ~signing /\ admitted[o] = None
        /\ w.script = Chain[o] /\ Controls(w, Chain[o])
    BY <1>1
  <2>2. w \in Wallets /\ WalletOK(w) /\ w.type \in ScriptTypes /\ caps.legacy \in BOOLEAN
    BY <1>1, LaunchFacts DEF DiscoveryInv
  <2>3. /\ SignBip322(w, m) # NoWitness
        /\ VerifySimple(w.type, Chain[o], SignBip322(w, m), m)
        /\ Detects(w.type, Chain[o])
    BY <2>1, <2>2, OwnerProves
  <2>4. /\ Fits(w.type, caps)
        /\ caps.legacy => w.type = "p2wpkh"
        /\ config \in Configs
        /\ config.release = "v1.4" => ValidBip(config.bip)
    BY <1>1 DEF DiscoveryInv, ResolvedFits, LegacyIsP2wpkh, RunsValidated,
       DiscoveryTypeOK, Up
  <2>5. /\ config.release \in {"v1.3", "v1.4"}
        /\ config.release = "v1.3" => config.bip.allowed = {"p2wpkh"}
    BY <2>4, DiscoveryAssumption DEF ConfigurationSpace
  <2>6. w.type \in config.bip.allowed /\ (config.release = "v1.3" => caps.legacy)
    <3>1. CASE caps = CapabilitiesOf(RecordOf(config))
      <4>1. CASE config.release = "v1.3"
        BY <3>1, <4>1, <2>4, <2>5 DEF RecordOf, CapabilitiesOf, Fits
      <4>2. CASE config.release = "v1.4"
        <5>1. config.bip.allowed # {} /\ config.bip.output # None
          BY <4>2, <2>4, DiscoveryAssumption, NoneIsNoType
             DEF ValidBip, ConfigurationSpace, BipConfigs
        <5> QED BY <3>1, <4>2, <5>1, <2>4 DEF RecordOf, CapabilitiesOf, Fits
      <4> QED BY <4>1, <4>2, <2>5
    <3>2. CASE caps # CapabilitiesOf(RecordOf(config))
      BY <3>2, <1>1, <2>2, <2>5
    <3> QED BY <3>1, <3>2
  <2>7. /\ Dispatch(FromWire(ToWire(proof)), Chain[o], config.bip, m, w.type)
        /\ config.release = "v1.3" => ToWire(proof).shape = "array"
    <3>1. CASE caps.legacy
      <4>1. proof = [version |-> 1, stack |-> SignBip322(w, m), psbt |-> NoWitness,
                     type |-> None]
        BY <3>1 DEF BuildProof
      <4>2. FromWire(ToWire(proof)) = proof /\ ToWire(proof).shape = "array"
        BY <4>1 DEF FromWire, ToWire
      <4> QED BY <4>1, <4>2, <2>3, <2>6 DEF Dispatch
    <3>2. CASE ~caps.legacy
      <4>1. proof = [version |-> 2, stack |-> SignBip322(w, m),
                     psbt |-> SignBip322(w, m), type |-> w.type]
        BY <3>2 DEF BuildProof
      <4>2. FromWire(ToWire(proof)) = proof
        BY <4>1 DEF FromWire, ToWire
      <4> QED BY <3>2, <4>1, <4>2, <2>3, <2>6 DEF Dispatch
    <3> QED BY <3>1, <3>2
  <2> QED BY <2>1, <2>7 DEF Registrable, Admits, ProofOf
<1>2. ASSUME DiscoveryInv, [Next]_vars, NEW c \in Clients,
             client[c].at = "informed", client'[c].at = "refused"
      PROVE  Cause(c)
  <2>1. client \in [Clients -> ClientSpace]
    BY <1>2 DEF DiscoveryInv, DiscoveryTypeOK
  <2>2. ~UNCHANGED vars /\ ~CoordinatorNext
    BY <1>2 DEF vars, CoordinatorNext, Start, Stop, KeyFileLost, Heartbeat,
       RecordExpires, NextRound, CloseRegistration
  <2>3. PICK d \in Clients : ClientNext(d)
    BY <1>2, <2>2 DEF Next
  <2>4. d = c
    <3>1. SUFFICES ASSUME d # c PROVE client'[c] = client[c]
      BY <1>2
    <3>2. ASSUME NEW l \in Options[d], Launch(d, l) PROVE client'[c] = client[c]
      BY <3>1, <3>2, <2>1 DEF Launch
    <3>3. ASSUME Resolve(d) PROVE client'[c] = client[c]
      BY <3>1, <3>3, <2>1 DEF Resolve
    <3>4. ASSUME PollInfo(d) \/ RegisterAccepted(d) \/ RegisterRefused(d)
          PROVE client'[c] = client[c]
      BY <3>1, <3>4, <2>1 DEF PollInfo, RegisterAccepted, RegisterRefused
    <3>5. ASSUME SignTx(d) PROVE client'[c] = client[c]
      BY <3>1, <3>5, <2>1 DEF SignTx
    <3> QED BY <2>3, <3>2, <3>3, <3>4, <3>5 DEF ClientNext
  <2>5. RegisterRefused(c)
    <3>1. ~Resolve(c) /\ ~PollInfo(c) /\ ~SignTx(c) /\ \A l \in Options[c] : ~Launch(c, l)
      BY <1>2 DEF Resolve, PollInfo, SignTx, Launch
    <3>2. ~RegisterAccepted(c)
      BY <1>2, <2>1 DEF RegisterAccepted, ClientSpace
    <3> QED BY <2>3, <2>4, <3>1, <3>2 DEF ClientNext
  <2>6. client[c].launch.wallet.type \in ScriptTypes
    BY <1>2, LaunchFacts DEF DiscoveryInv
  <2> QED BY <1>1, <1>2, <2>5, <2>6 DEF RegisterRefused
<1>3. DiscoveryInv /\ [Next]_vars =>
         [\A c \in Clients :
             client[c].at = "informed" /\ client'[c].at = "refused" => Cause(c)]_vars
  BY <1>2
<1> QED BY <1>3, DiscoveryInvariant, PTL DEF Spec, RefusalsHaveCause
=============================================================================
