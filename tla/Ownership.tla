----------------------------- MODULE Ownership -----------------------------
(***************************************************************************)
(* Who can prove that a coin is theirs, and who can spend it: the wallets of *)
(* client/src/wallet.rs, the BIP-322 proofs of shared/src/bip322, the two    *)
(* envelopes they travel in (shared/src/protocol.rs), the checks of the      *)
(* coordinator (bitcoin/utxo.rs, bitcoin/sig_verify.rs) and the assembly of  *)
(* the witnesses it recorded (round/signing.rs).                             *)
(*                                                                         *)
(* A script names the one key that it commits to.  A signature is the key    *)
(* that made it and the digest it was made over; a digest names the script   *)
(* and the subject it commits to.  A public key may be encoded in two ways,  *)
(* and scripts commit to one.  Nothing else is known of the mathematics:     *)
(* a signature verifies under its own key and digest and under no other.     *)
(***************************************************************************)
EXTENDS Naturals, FiniteSets

CONSTANTS
    Keys,        \* secret keys, each standing for its public key too
    Outpoints,
    Chain        \* outpoint -> script that gettxout answers with

ScriptTypes == {"p2wpkh", "p2tr", "p2sh-p2wpkh"}

NoKey == "no single key"

\* A p2sh script may commit to a redeem script that is no key's p2wpkh program.
Scripts == [form: {"p2wpkh", "p2tr", "p2sh", "other"}, key: Keys \cup {NoKey}]

ASSUME OwnershipAssumption ==
    /\ NoKey \notin Keys
    /\ Chain \in [Outpoints -> Scripts]

Form(type) == IF type = "p2sh-p2wpkh" THEN "p2sh" ELSE type

ScriptOf(type, key) == [form |-> Form(type), key |-> key]

\* detect_script_type: any p2sh counts as p2sh-p2wpkh, anything else is refused.
Detects(type, script) == script.form = Form(type)

-----------------------------------------------------------------------------
(* Signatures: bip322/p2wpkh.rs, p2tr.rs, p2sh_p2wpkh.rs.                  *)

\* What a signature is made over: the scheme, the key that the script code or the
\* prevout commits to, and the transaction.
Digest(type, key, subject) ==
    [scheme |-> IF type = "p2tr" THEN "schnorr" ELSE "ecdsa",
     code |-> key, subject |-> subject]

\* build_bip322_to_spend commits to the script and the message, to_sign spends it.
ToSign(script, message) == [script |-> script, message |-> message]

\* Bytes that a public key takes in a witness: 33 if it is compressed, as scripts
\* commit to it, 65 if it is not.
KeyLengths == {33, 65}

NoWitness == [items |-> 0, pubkey |-> NoKey, keyLen |-> 0, by |-> NoKey,
              over |-> [scheme |-> "none"]]

Witness(type, script, key, subject) ==
    [items |-> IF type = "p2tr" THEN 1 ELSE 2,
     pubkey |-> IF type = "p2tr" THEN NoKey ELSE key,
     keyLen |-> IF type = "p2tr" THEN 0 ELSE 33,
     by |-> key,
     over |-> Digest(type, script.key, subject)]

\* sign_simple: p2tr and p2sh-p2wpkh refuse a key that is not the script's; p2wpkh
\* refuses only what is no p2wpkh script.
SignSimple(type, script, key, subject) ==
    IF \/ type = "p2wpkh" /\ script.form # "p2wpkh"
       \/ type # "p2wpkh" /\ script # ScriptOf(type, key)
    THEN NoWitness
    ELSE Witness(type, script, key, subject)

\* The signature of w is over the script's digest and by the script's key.
SignedBy(key, type, w, subject) ==
    w.by = key /\ w.over = Digest(type, key, subject)

-----------------------------------------------------------------------------
(* The client's wallet.                                                    *)

\* What the options of a launch amount to: the wrapper and keys of a descriptor, or
\* one key; `keys` are the ones the wallet derives, `first` the one of index 0.
FromWif(key) ==
    [wif |-> TRUE, single |-> TRUE, type |-> "p2wpkh", first |-> key,
     keys |-> {key}, script |-> ScriptOf("p2wpkh", key)]

\* from_descriptor: the address is taken as it is; only its key may be compared.
FromDescriptor(type, first, keys, single, address) ==
    [wif |-> FALSE, single |-> single, type |-> type, first |-> first,
     keys |-> keys, script |-> address]

\* generate: the descriptor that it writes down, and the address that it tells its
\* owner to fund, the first external one.
Generated(type, first, keys) ==
    FromDescriptor(type, first, keys, FALSE, ScriptOf(type, first))

Wallets ==
    [wif: BOOLEAN, single: BOOLEAN, type: ScriptTypes, first: Keys,
     keys: SUBSET Keys, script: Scripts]

\* What the constructors can return.
WalletOK(w) ==
    /\ w \in Wallets
    /\ w.first \in w.keys
    /\ w.single => w.keys = {w.first}
    /\ w.wif => w = FromWif(w.first)

\* from_descriptor compares the wrapper with --type, and refuses shapes of which it
\* could not derive the change keychain.
DescriptorAccepted(wrapper, type, shape) ==
    wrapper = type /\ shape \notin {"checksum", "multipath", "unknown"}

Controls(w, script) == \E k \in w.keys : script = ScriptOf(w.type, k)

\* ecdsa_leaf_controls_script, for a leaf that derive_external_leaf_sk found.
HasLeaf(w) ==
    /\ ~w.single
    /\ w.type # "p2tr"
    /\ w.script = ScriptOf(w.type, w.first)

\* bdk finalizes an input that the wallet derives the script of.  A wallet of one
\* ECDSA key leaves a partial signature on other p2wpkh scripts as well, and the
\* client takes it.  bdk's signature is the one of sign_simple (the parity tests).
BdkWitness(w, script, subject) ==
    IF Controls(w, script)
    THEN SignSimple(w.type, script, script.key, subject)
    ELSE IF w.single /\ w.type = "p2wpkh" /\ script.form = "p2wpkh"
    THEN SignSimple("p2wpkh", script, w.first, subject)
    ELSE NoWitness

\* sign_bip322 signs for the script that the launch named.
SignBip322(w, message) ==
    IF w.wif \/ HasLeaf(w)
    THEN SignSimple(w.type, w.script, w.first, ToSign(w.script, message))
    ELSE BdkWitness(w, w.script, ToSign(w.script, message))

\* bdk's ECDSA signer fails on a taproot input, and its finalizer on a p2sh input
\* that the wallet does not own.
BdkFailsOn(w, script) ==
    \/ script.form = "p2tr" /\ w.type # "p2tr"
    \/ script.form = "p2sh" /\ ~Controls(w, script)

SignPsbtInput_NoMarkers(w, o, inputs, subject) ==
    IF \E i \in inputs \ {o} : BdkFailsOn(w, Chain[i])
    THEN NoWitness
    ELSE BdkWitness(w, Chain[o], subject)

\* sign_psbt_input: the other inputs are marked as final while bdk signs, so it does
\* not look at them; the script is the one in the coordinator's witness_utxo.
SignPsbtInput(w, o, inputs, subject) ==
    IF o \notin inputs THEN NoWitness ELSE BdkWitness(w, Chain[o], subject)

-----------------------------------------------------------------------------
(* The envelope of an ownership proof.                                     *)

None == "none"

BuildProof_AlwaysV2(legacy, w, witness) ==
    [version |-> 2, stack |-> witness, psbt |-> witness, type |-> w.type]

\* register_input: version 1 for a legacy coordinator, version 2 with the PSBT and
\* the wallet's type for any other.
BuildProof(legacy, w, witness) ==
    IF legacy
    THEN [version |-> 1, stack |-> witness, psbt |-> NoWitness, type |-> None]
    ELSE [version |-> 2, stack |-> witness, psbt |-> witness, type |-> w.type]

\* to_json_hex_str: a plain version 1 becomes the array of v1.3, which has only the
\* witness; anything else the flat struct.
ToWire(proof) ==
    IF proof.version = 1 /\ proof.psbt = NoWitness /\ proof.type = None
    THEN [shape |-> "array", proof |-> proof]
    ELSE [shape |-> "struct", proof |-> proof]

\* from_json_hex_str: an array is version 1.
FromWire(wire) ==
    IF wire.shape = "array"
    THEN [version |-> 1, stack |-> wire.proof.stack, psbt |-> NoWitness,
          type |-> None]
    ELSE wire.proof

-----------------------------------------------------------------------------
(* The coordinator's side of registration: bitcoin/utxo.rs.                *)

\* verify_via_bip322_crate: the public key in the witness has to be compressed and is
\* bound to the script, then the crate verifies the signature.
VerifyViaCrate(type, script, w, message) ==
    /\ type # "p2tr" => w.items = 2 /\ w.keyLen = 33 /\ w.pubkey = script.key
    /\ SignedBy(script.key, type, w, ToSign(script, message))

\* verify_simple: the number of items, then the crate.
VerifySimple(type, script, w, message) ==
    /\ w.items = (IF type = "p2tr" THEN 1 ELSE 2)
    /\ VerifyViaCrate(type, script, w, message)

\* BipConfig::allows, of a configuration that BipConfig::validate accepts.
BipConfigs == [allowed: SUBSET ScriptTypes, output: ScriptTypes]

ValidBip(bip) == bip.allowed # {} /\ bip.output \in bip.allowed

Dispatch_DeclaredType(proof, script, bip, message, type) ==
    LET witness == IF proof.version = 1 THEN proof.stack ELSE proof.psbt IN
    /\ proof.version \in {1, 2}
    /\ proof.version = 2 => proof.psbt # NoWitness
    /\ type = IF proof.version = 2 THEN proof.type ELSE "p2wpkh"
    /\ VerifySimple(type, script, witness, message)

\* dispatch_ownership_proof returns `type`: the type is the one of the script on
\* chain, which a version 2 envelope has to declare.
Dispatch(proof, script, bip, message, type) ==
    LET witness == IF proof.version = 1 THEN proof.stack ELSE proof.psbt IN
    /\ proof.version \in {1, 2}
    /\ proof.version = 2 => proof.psbt # NoWitness /\ proof.type = type
    /\ Detects(type, script)
    /\ type \in bip.allowed
    /\ VerifySimple(type, script, witness, message)

-----------------------------------------------------------------------------
(* The coordinator's side of signing: sig_verify.rs and the assembly.      *)

VerifyInputSignature_AnyKey(type, script, w, subject) ==
    IF type = "p2tr"
    THEN w.items = 1 /\ Detects(type, script) /\ SignedBy(script.key, type, w, subject)
    ELSE /\ w.items = 2 /\ w.keyLen \in KeyLengths
         /\ w.by = w.pubkey /\ w.over = Digest(type, script.key, subject)

\* verify_input_signature, with the type recorded at registration: the scheme's arity
\* and sighash type, and the signature itself.  An ECDSA key is taken from the witness,
\* in either encoding; its compressed form has to hash to the script.
VerifyInputSignature(type, script, w, subject) ==
    IF type = "p2tr"
    THEN w.items = 1 /\ Detects(type, script) /\ SignedBy(script.key, type, w, subject)
    ELSE /\ w.items = 2 /\ w.keyLen \in KeyLengths
         /\ script = ScriptOf(type, w.pubkey)
         /\ w.by = w.pubkey /\ w.over = Digest(type, script.key, subject)

\* assemble_final_tx_hex: the witness is used as it came; a p2sh input also gets the
\* push of the p2wpkh program of the key in it as script_sig, if that has 33 bytes.
Assembled(script, w) ==
    [witness |-> w,
     redeem |-> IF script.form = "p2sh" /\ w.items = 2 /\ w.keyLen = 33
                THEN w.pubkey ELSE NoKey]

\* What the network accepts as a spend of the script by the subject transaction: it
\* hashes the key as it stands in the witness.
Spends(script, input, subject) ==
    LET w == input.witness IN
    \/ /\ script.form = "p2tr"
       /\ w.items = 1 /\ input.redeem = NoKey
       /\ SignedBy(script.key, "p2tr", w, subject)
    \/ /\ script.form \in {"p2wpkh", "p2sh"}
       /\ w.items = 2 /\ w.keyLen = 33 /\ w.pubkey = script.key
       /\ input.redeem = (IF script.form = "p2sh" THEN script.key ELSE NoKey)
       /\ SignedBy(script.key, "p2wpkh", w, subject)

=============================================================================
