----------------------------- MODULE Discovery -----------------------------
(***************************************************************************)
(* How a client and a coordinator that were configured apart come to agree:  *)
(* the coordinator publishes what it accepts under its key in the DHT and    *)
(* refreshes it (coordinator/src/discovery, run.rs), the client resolves the *)
(* record once, before it connects, refuses a coordinator that its wallet    *)
(* does not fit (client/src/discover.rs), chooses the envelope of its proof  *)
(* by the record (client/src/round/input.rs), and is admitted or not, and    *)
(* later signs, by what the running coordinator is configured to accept.     *)
(*                                                                         *)
(* The record may be missing, of another configuration, of the previous      *)
(* release or never refreshed again; clients act on it at any later time.    *)
(* Of a round only its registrations and signatures are kept here: its       *)
(* phases, timers and bans are the module Coordinator's.                     *)
(***************************************************************************)
EXTENDS Ownership

CONSTANTS
    Clients,       \* launches of the client
    Options,       \* client -> what its owner may launch it with
    Configs,       \* configurations that the coordinator may be started with
    MaxRounds,     \* bound: rounds, over all starts of the coordinator
    MaxIdentities  \* bound: pkarr keys the coordinator has had

\* A configuration: the release of the binary, [bip], and whether the record fits
\* one TXT string (255 bytes, of which the address takes most).
ConfigurationSpace == [release: {"v1.3", "v1.4"}, bip: BipConfigs, fits: BOOLEAN]

\* A launch: the wallet, the outpoint, the --type and shape of a descriptor, and
\* whether --coordinator-url names the coordinator.
LaunchSpace == [wallet: {w \in Wallets : WalletOK(w)}, outpoint: Outpoints,
                flag: ScriptTypes, shape: {"template", "single", "checksum",
                "multipath", "unknown"}, manual: BOOLEAN]

ASSUME DiscoveryAssumption ==
    /\ Configs \subseteq ConfigurationSpace
    /\ \A c \in Configs : c.release = "v1.3" => c.bip.allowed = {"p2wpkh"}
    /\ Options \in [Clients -> SUBSET LaunchSpace]
    /\ MaxRounds \in Nat
    /\ MaxIdentities \in Nat \ {0}

VARIABLES
    config,      \* what the running coordinator was started with, or Down
    keyFile,     \* the identity that pkarr_key_file holds, or 0 if unreadable
    identities,  \* identities generated so far
    identity,    \* the keypair the running coordinator publishes with
    record,      \* what the DHT answers for the first identity, or NoRecord
    round,       \* round_id, numbered
    signing,     \* the round is past its registrations
    admitted,    \* registered_inputs: outpoint -> script type, or None
    witnesses,   \* partial_sigs
    client       \* the launches

coordinatorVars == <<config, keyFile, identities, identity, record>>
roundVars == <<round, signing, admitted, witnesses>>
vars == <<coordinatorVars, roundVars, client>>

Down == [release |-> "down"]

Up == config # Down

\* The identity that clients were told of (--pkarr-pubkey).
Pinned == 1

-----------------------------------------------------------------------------
(* The record.                                                             *)

NoRecord == [v |-> "nothing"]

\* build_coordinator_packet, as far as clients read it; v1.3 had no sst and no ost.
RecordOf(c) ==
    IF c.release = "v1.3" THEN [v |-> "0.1.0", sst |-> {}, ost |-> None]
    ELSE [v |-> "0.2.0", sst |-> c.bip.allowed, ost |-> c.bip.output]

Malformed == [legacy |-> FALSE, supported |-> {}, output |-> None]

\* capabilities_from_record_v: an older version, or a record without sst, is of a
\* legacy coordinator; a newer one without ost is malformed.
CapabilitiesOf(r) ==
    IF r.v # "0.2.0" \/ r.sst = {}
    THEN [legacy |-> TRUE, supported |-> {"p2wpkh"}, output |-> "p2wpkh"]
    ELSE IF r.ost = None THEN Malformed
    ELSE [legacy |-> FALSE, supported |-> r.sst, output |-> r.ost]

\* The synthetic CoordinatorInfo of --coordinator-url.
ManualCapabilities(type) ==
    [legacy |-> FALSE, supported |-> ScriptTypes, output |-> type]

\* discover_coordinator refuses a coordinator that the wallet's type does not fit.
Fits(type, caps) == type \in caps.supported /\ type = caps.output

-----------------------------------------------------------------------------
(* The coordinator's process.                                              *)

NewRound ==
    /\ round < MaxRounds
    /\ round' = round + 1
    /\ signing' = FALSE
    /\ admitted' = [o \in Outpoints |-> None]
    /\ witnesses' = [o \in Outpoints |-> NoWitness]

\* load_or_generate_keypair: any error of reading makes a new key.
LoadKey ==
    IF keyFile # 0
    THEN identity' = keyFile /\ UNCHANGED <<keyFile, identities>>
    ELSE /\ identities < MaxIdentities
         /\ identities' = identities + 1
         /\ identity' = identities + 1
         /\ keyFile' = identities + 1

\* run(): validate, the key, a new round, and the server.
Start(c) ==
    /\ ~Up
    /\ c.release = "v1.4" => ValidBip(c.bip)
    /\ config' = c
    /\ LoadKey
    /\ NewRound
    /\ UNCHANGED <<record, client>>

\* The process ends; the record stays in the DHT.
Stop ==
    /\ Up
    /\ config' = Down
    /\ UNCHANGED <<keyFile, identities, identity, record, roundVars, client>>

KeyFileLost ==
    /\ ~Up
    /\ keyFile # 0
    /\ keyFile' = 0
    /\ UNCHANGED <<config, identities, identity, record, roundVars, client>>

Publish ==
    record' = IF identity = Pinned THEN RecordOf(config) ELSE record

Heartbeat_IfMissing ==
    /\ Up
    /\ config.fits
    /\ record = NoRecord
    /\ Publish
    /\ UNCHANGED <<config, keyFile, identities, identity, roundVars, client>>

\* The initial publish and each tick of the heartbeat task (the first tick comes at
\* once).  A record that does not fit is skipped without a word, and a publish that
\* fails is a warning: both change nothing.
Heartbeat ==
    /\ Up
    /\ config.fits
    /\ Publish
    /\ UNCHANGED <<config, keyFile, identities, identity, roundVars, client>>

\* Nobody refreshed the record for long enough.
RecordExpires ==
    /\ record # NoRecord
    /\ record' = NoRecord
    /\ UNCHANGED <<config, keyFile, identities, identity, roundVars, client>>

NextRound ==
    /\ Up
    /\ NewRound
    /\ UNCHANGED <<coordinatorVars, client>>

CloseRegistration ==
    /\ Up
    /\ ~signing
    /\ signing' = TRUE
    /\ UNCHANGED <<coordinatorVars, round, admitted, witnesses, client>>

-----------------------------------------------------------------------------
(* The client's process: main(), register_input, verify_and_sign.          *)

NoLaunch == [shape |-> "not launched"]

Idle == [at |-> "off", launch |-> NoLaunch, caps |-> Malformed, info |-> 0]

\* The constructors of the wallet come first; --generate-wallet ends here too.
Launch(c, l) ==
    /\ client[c].at = "off"
    /\ client' = [client EXCEPT ![c].launch = l, ![c].at =
                     IF l.wallet.wif \/ DescriptorAccepted(l.wallet.type, l.flag, l.shape)
                     THEN "launched" ELSE "refused"]
    /\ UNCHANGED <<coordinatorVars, roundVars>>

\* discover_coordinator, or the coordinator that the operator vouches for.
Resolve(c) ==
    LET l == client[c].launch
        type == l.wallet.type
        caps == IF l.manual THEN ManualCapabilities(type) ELSE CapabilitiesOf(record)
    IN
    /\ client[c].at = "launched"
    /\ client' =
          IF ~l.manual /\ (record = NoRecord \/ ~Fits(type, caps))
          THEN [client EXCEPT ![c].at = "refused"]
          ELSE [client EXCEPT ![c].at = "resolved", ![c].caps = caps]
    /\ UNCHANGED <<coordinatorVars, roundVars>>

\* poll_until_phase("input_reg").
PollInfo(c) ==
    /\ Up
    /\ ~signing
    /\ client[c].at = "resolved"
    /\ client' = [client EXCEPT ![c].at = "informed", ![c].info = round]
    /\ UNCHANGED <<coordinatorVars, roundVars>>

Message(r, o) == <<r, o>>

\* register_input, up to the request.
ProofOf(c) ==
    LET w == client[c].launch.wallet
        message == Message(client[c].info, client[c].launch.outpoint)
    IN ToWire(BuildProof(client[c].caps.legacy, w, SignBip322(w, message)))

\* What the running release does with an envelope: v1.3 knew the array only.
Admits(wire, script, message, type) ==
    /\ config.release = "v1.3" => wire.shape = "array"
    /\ Dispatch(FromWire(wire), script, config.bip, message, type)

\* The coin is not in the round, its proof is for this round and this coin.
Registrable(c, type) ==
    LET o == client[c].launch.outpoint IN
    /\ ~signing
    /\ admitted[o] = None
    /\ Admits(ProofOf(c), Chain[o], Message(round, o), type)

RegisterAccepted(c) ==
    /\ Up
    /\ client[c].at = "informed"
    /\ \E type \in ScriptTypes :
          /\ Registrable(c, type)
          /\ admitted' = [admitted EXCEPT ![client[c].launch.outpoint] = type]
    /\ client' = [client EXCEPT ![c].at = "registered"]
    /\ UNCHANGED <<coordinatorVars, round, signing, witnesses>>

\* The wallet cannot sign, or post_input answers with an error: the client ends.
RegisterRefused(c) ==
    /\ Up
    /\ client[c].at = "informed"
    /\ \A type \in ScriptTypes : ~Registrable(c, type)
    /\ client' = [client EXCEPT ![c].at = "refused"]
    /\ UNCHANGED <<coordinatorVars, roundVars>>

Registered == {o \in Outpoints : admitted[o] # None}

\* The round's transaction, from build_canonical_psbt.
Tx(r) == [tx |-> r]

Signature(c) ==
    SignPsbtInput(client[c].launch.wallet, client[c].launch.outpoint, Registered,
                  Tx(round))

\* What may be posted for the coin of c: the client's signature, or what other
\* software with the wallet's keys makes of the round's transaction, with any of the
\* keys, under any scheme and with the key in either encoding.
Submissions(c) ==
    LET l == client[c].launch
        made == {Witness(type, Chain[l.outpoint], key, Tx(round)) :
                     type \in ScriptTypes, key \in l.wallet.keys}
        long == {[w EXCEPT !.keyLen = 65] : w \in {v \in made : v.items = 2}}
    IN {Signature(c)} \cup made \cup long

\* process_sign's checks: the session is of this round, the input is registered and
\* not signed yet, and the signature is good for the type it was registered with.
Signable(c, w) ==
    LET o == client[c].launch.outpoint IN
    /\ client[c].info = round
    /\ witnesses[o] = NoWitness
    /\ VerifyInputSignature(admitted[o], Chain[o], w, Tx(round))

SignTx(c) ==
    /\ Up
    /\ signing
    /\ client[c].at = "registered"
    /\ \E w \in Submissions(c) :
          IF Signable(c, w)
          THEN /\ witnesses' = [witnesses EXCEPT ![client[c].launch.outpoint] = w]
               /\ client' = [client EXCEPT ![c].at = "signed"]
          ELSE /\ client' = [client EXCEPT ![c].at = "refused"]
               /\ UNCHANGED witnesses
    /\ UNCHANGED <<coordinatorVars, round, signing, admitted>>

-----------------------------------------------------------------------------
(* Specification.                                                          *)

Init ==
    /\ config = Down
    /\ keyFile = 0
    /\ identities = 0
    /\ identity = 0
    /\ record = NoRecord
    /\ round = 0
    /\ signing = FALSE
    /\ admitted = [o \in Outpoints |-> None]
    /\ witnesses = [o \in Outpoints |-> NoWitness]
    /\ client = [c \in Clients |-> Idle]

CoordinatorNext ==
    \/ \E c \in Configs : Start(c)
    \/ Stop
    \/ KeyFileLost
    \/ Heartbeat
    \/ RecordExpires
    \/ NextRound
    \/ CloseRegistration

ClientNext(c) ==
    \/ \E l \in Options[c] : Launch(c, l)
    \/ Resolve(c)
    \/ PollInfo(c)
    \/ RegisterAccepted(c)
    \/ RegisterRefused(c)
    \/ SignTx(c)

Next == CoordinatorNext \/ \E c \in Clients : ClientNext(c)

Spec == Init /\ [][Next]_vars

\* The heartbeat task ticks for as long as the process runs, and the DHT does not
\* refuse every publish.
FairSpec == Spec /\ WF_vars(Heartbeat)

-----------------------------------------------------------------------------
(* Properties.                                                             *)

Capabilities == [legacy: BOOLEAN, supported: SUBSET ScriptTypes,
                 output: ScriptTypes \cup {None}]

ClientSpace ==
    [at: {"off", "launched", "resolved", "informed", "registered", "signed", "refused"},
     launch: LaunchSpace \cup {NoLaunch}, caps: Capabilities, info: Nat]

\* A launch is what its owner could start, what it knows of rounds is of one that
\* was; a round's table holds types.
DiscoveryTypeOK ==
    /\ config \in Configs \cup {Down}
    /\ {keyFile, identity} \subseteq 0..identities
    /\ identities \in 0..MaxIdentities
    /\ record \in {RecordOf(c) : c \in Configs} \cup {NoRecord}
    /\ round \in 0..MaxRounds
    /\ signing \in BOOLEAN
    /\ admitted \in [Outpoints -> ScriptTypes \cup {None}]
    /\ DOMAIN witnesses = Outpoints
    /\ client \in [Clients -> ClientSpace]
    /\ \A c \in Clients :
          /\ client[c].at # "off" => client[c].launch \in Options[c]
          /\ client[c].info <= round

\* A client that resolved the record of the configuration that is running is never
\* turned away at registration for what it is: only because the round moved on, the
\* coin is in it already, or the wallet was launched for a coin that it has no key
\* of.  A client that acts on another record may also be turned away for its type,
\* or because it sends a new envelope to the previous release, and for nothing else
\* (the fail-fast of discover_coordinator, the shim of register_input and
\* dispatch_ownership_proof agree).
RefusalsHaveCause ==
    [][\A c \in Clients :
          client[c].at = "informed" /\ client'[c].at = "refused" =>
             LET w == client[c].launch.wallet
                 o == client[c].launch.outpoint
                 caps == client[c].caps
             IN \/ client[c].info # round \/ signing
                \/ admitted[o] # None
                \/ w.script # Chain[o] \/ ~Controls(w, Chain[o])
                \/ /\ caps # CapabilitiesOf(RecordOf(config))
                   /\ \/ w.type \notin config.bip.allowed
                      \/ ~caps.legacy /\ config.release = "v1.3"]_vars

\* Whatever options a client is launched with and whatever it believes of the
\* coordinator, a coin enters a round only with a proof for this very round by a
\* wallet that has the key of the coin, and is kept there under the type of its
\* script on chain, an allowed one (validate_utxo, CRIT-01 in dispatch).
OnlyOwnersAdmitted ==
    [][\A o \in Outpoints :
          admitted[o] = None /\ admitted'[o] # None =>
             /\ Detects(admitted'[o], Chain[o])
             /\ admitted'[o] \in config.bip.allowed
             /\ \E c \in Clients :
                   /\ client[c].at = "informed" /\ client'[c].at = "registered"
                   /\ client[c].launch.outpoint = o
                   /\ client[c].info = round
                   /\ Controls(client[c].launch.wallet, Chain[o])]_vars

\* Whoever was admitted can also sign: in a round of any mix of script types, the
\* wallet that proved a coin produces a signature of the transaction that
\* verify_input_signature takes for that coin and that the network takes once it is
\* assembled (register_input against sign_psbt_input; a participant that could not
\* would be blamed and banned, or would spoil the round).
ProversCanSign ==
    \A c \in Clients :
        client[c].at = "registered" /\ client[c].info = round =>
            LET o == client[c].launch.outpoint IN
            /\ admitted[o] # None
            /\ VerifyInputSignature(admitted[o], Chain[o], Signature(c), Tx(round))
            /\ Spends(Chain[o], Assembled(Chain[o], Signature(c)), Tx(round))

\* Every witness that the coordinator recorded, whoever made it, makes an input that
\* the network takes, with the script_sig that assembly gives it, if the public key in
\* it is compressed: checks made one by one when the signatures come agree with the
\* assembly by the script on chain (sig_verify.rs, assemble_final_tx_hex, consensus).
AssembledIsValid ==
    \A o \in Outpoints :
        LET w == witnesses[o] IN
        w # NoWitness /\ (w.items = 2 => w.keyLen = 33) =>
            Spends(Chain[o], Assembled(Chain[o], w), Tx(round))

\* The same without the condition on the key, which sig_verify.rs claims: "An invalid
\* submission is rejected at the door, so the sender stays unsigned and becomes a
\* bannable non-signer at the signing deadline."  The code does not keep it.
AcceptedSpends ==
    \A o \in Outpoints :
        witnesses[o] # NoWitness =>
            Spends(Chain[o], Assembled(Chain[o], witnesses[o]), Tx(round))

\* What the DHT says of a running coordinator becomes what it runs with, and stays
\* wrong only until the next heartbeat, whatever record an earlier start left and
\* however often the record is lost (the heartbeat task of run.rs).
RecordIsRefreshed ==
    Up /\ config.fits /\ identity = Pinned ~> ~Up \/ record = RecordOf(config)

=============================================================================
