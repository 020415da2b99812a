------------------------------- MODULE Client -------------------------------
(***************************************************************************)
(* Client processes (client/src/main.rs and round/*.rs) composed with the   *)
(* coordinator: each one polls /info for input_reg, registers its coin,     *)
(* polls for output_reg, redeems its token, polls for signing, checks the   *)
(* transaction and signs it, and ends.  What it keeps between calls is      *)
(* InputRegState.  Any error ends the process.                              *)
(*                                                                         *)
(* A call is answered in the step in which the coordinator handles it; the  *)
(* client may act on the answer at any later time, or never get it.  The    *)
(* two calls that the coordinator awaits in are two steps: POST /round/input *)
(* (gettxout) and the last POST /round/sign (the finalize task).            *)
(*                                                                         *)
(* A handler of Coordinator is the request that a client has in flight.     *)
(***************************************************************************)
EXTENDS Coordinator

CONSTANTS
    Wallet,       \* client -> coins its owner may launch it with; the client blinds
                  \* its token for the key that /info showed it
    Floor,        \* client -> min_anonymity_set
    MaxRetries,   \* MAX_429_RETRIES
    Mishaps       \* bound: the events of MishapKinds that an instance explores

MishapKinds == {"interrupted", "answer lost", "busy"}

Clients == Handlers

ASSUME ClientAssumption ==
    /\ Wallet \in [Clients -> SUBSET Blinding]
    /\ \A c, d \in Clients : c # d => Wallet[c] \cap Wallet[d] = {}
    /\ Floor \in [Clients -> Nat]
    /\ MaxRetries \in Nat
    /\ Mishaps \subseteq MishapKinds

VARIABLES
    at,        \* where the client is in main()
    coin,      \* wallet.utxo_outpoint, or None
    info,      \* round of the /info it blinded its token for
    session,   \* InputRegState: round that its session and signature are of
    attempt    \* attempts of the call under way that were answered 429

clientVars == <<at, coin, info, session, attempt>>
partyVars == <<vars, clientVars>>

coordinatorVars == vars

\* poll_until_phase waits for a round_state; the calls in between.
Polling == [awaitInput |-> "InputReg", awaitOutput |-> "OutputReg",
            awaitSigning |-> "Signing"]

Calling == {"register", "recheck", "redeem", "fetch", "sign"}

Awaiting == {"registering", "broadcasting"}

Running == DOMAIN Polling \cup Calling \cup Awaiting

Ended == {"off", "done"}

GoTo(c, where) ==
    /\ at' = [at EXCEPT ![c] = where]
    /\ attempt' = [attempt EXCEPT ![c] = 0]

Keeps == UNCHANGED <<coin, info, session>>

\* The process ends without having signed, and with it what it remembered.
GivesUp(c) ==
    /\ at' = [at EXCEPT ![c] = "off"]
    /\ coin' = [coin EXCEPT ![c] = None]
    /\ info' = [info EXCEPT ![c] = None]
    /\ session' = [session EXCEPT ![c] = None]
    /\ attempt' = [attempt EXCEPT ![c] = 0]

-----------------------------------------------------------------------------
(* main(): launch, polls and the end of the process.                       *)

Launch(c, u) ==
    /\ at[c] \in Ended
    /\ handler[c] = NoRequest
    /\ GoTo(c, "awaitInput")
    /\ coin' = [coin EXCEPT ![c] = u]
    /\ info' = [info EXCEPT ![c] = None]
    /\ session' = [session EXCEPT ![c] = None]
    /\ UNCHANGED coordinatorVars

\* poll_until_phase returns: the phase is compared, the round is not.  Only the
\* first poll's answer is used, by register_input.
PollMatches(c) ==
    /\ at[c] \in DOMAIN Polling
    /\ phase = Polling[at[c]]
    /\ CASE at[c] = "awaitInput" -> GoTo(c, "register")
         [] at[c] = "awaitOutput" -> GoTo(c, "recheck")
         [] at[c] = "awaitSigning" -> GoTo(c, "fetch")
    /\ info' = IF at[c] = "awaitInput" THEN [info EXCEPT ![c] = roundId] ELSE info
    /\ UNCHANGED <<coordinatorVars, coin, session>>

\* max_wait is over.
PollTimesOut(c) ==
    /\ at[c] \in DOMAIN Polling
    /\ GivesUp(c)
    /\ UNCHANGED coordinatorVars

\* The process is killed, a transport error, or no answer within
\* CLIENT_REQUEST_TIMEOUT: a request it has in flight stays in flight.
Interrupted(c) ==
    /\ "interrupted" \in Mishaps
    /\ at[c] \in Running
    /\ GivesUp(c)
    /\ UNCHANGED coordinatorVars

Busy_RetriesForever(c) ==
    /\ "busy" \in Mishaps
    /\ at[c] \in Calling
    /\ attempt' = [attempt EXCEPT ![c] = 1 - @]
    /\ UNCHANGED <<coordinatorVars, at, coin, info, session>>

\* send_with_429_retry: 429 is retried MaxRetries times, then returned as it is.
Busy(c) ==
    /\ "busy" \in Mishaps
    /\ at[c] \in Calling
    /\ IF attempt[c] < MaxRetries
       THEN /\ attempt' = [attempt EXCEPT ![c] = @ + 1]
            /\ UNCHANGED at
            /\ Keeps
       ELSE GivesUp(c)
    /\ UNCHANGED coordinatorVars

Refused(c, from) ==
    /\ at[c] = from
    /\ GivesUp(c)
    /\ UNCHANGED coordinatorVars

\* An answer arrives, or only its work on the coordinator is done.
MayBeLost(answered) == answered \/ "answer lost" \in Mishaps

-----------------------------------------------------------------------------
(* round/input.rs register_input.                                          *)

\* The proof names the round of the client's /info, and the snapshot's round id
\* is what it is verified against.
CanRegister(c) ==
    /\ phase = "InputReg"
    /\ info[c] = roundId
    /\ coin[c] \notin banned \cup Inputs
    /\ spentBy[coin[c]] = "nobody"

Register(c) ==
    /\ at[c] = "register"
    /\ CanRegister(c)
    /\ InputValidate(c, coin[c])
    /\ GoTo(c, "registering")
    /\ Keeps

RegisterRefused(c) ==
    /\ ~CanRegister(c)
    /\ Refused(c, "register")

\* pk.finalize with the key of the client's /info.
BlindSignatureIsValid_Unchecked(c) == TRUE

BlindSignatureIsValid(c) == material = info[c]

\* The coin is registered; if the client is still there it gets the answer.
Registered(c, answered) ==
    /\ MayBeLost(answered)
    /\ InputCommit(c)
    /\ IF at[c] # "registering"
       THEN UNCHANGED clientVars
       ELSE IF answered /\ BlindSignatureIsValid(c)
       THEN /\ GoTo(c, "awaitOutput")
            /\ session' = [session EXCEPT ![c] = roundId]
            /\ UNCHANGED <<coin, info>>
       ELSE GivesUp(c)

RegisteringFails(c) ==
    /\ InputFails(c)
    /\ IF at[c] = "registering" THEN GivesUp(c) ELSE UNCHANGED clientVars

-----------------------------------------------------------------------------
(* round/output.rs register_output.                                        *)

\* /info again: the key is still the one of the registration.
KeyIsUnchanged(c) == material # None /\ material = info[c]

Recheck(c) ==
    /\ at[c] = "recheck"
    /\ KeyIsUnchanged(c)
    /\ GoTo(c, "redeem")
    /\ Keeps
    /\ UNCHANGED coordinatorVars

RecheckRefused(c) ==
    /\ ~KeyIsUnchanged(c)
    /\ Refused(c, "recheck")

\* The token verifies under the installed key, and was not redeemed before.
CanRedeem(c) ==
    /\ phase = "OutputReg"
    /\ material = info[c]
    /\ coin[c] \notin outputs

Redeem(c, answered) ==
    /\ MayBeLost(answered)
    /\ at[c] = "redeem"
    /\ CanRedeem(c)
    /\ PostOutput(coin[c])
    /\ IF answered THEN GoTo(c, "awaitSigning") /\ Keeps ELSE GivesUp(c)

RedeemRefused(c) ==
    /\ ~CanRedeem(c)
    /\ Refused(c, "redeem")

-----------------------------------------------------------------------------
(* round/sign.rs verify_and_sign.                                          *)

\* The transaction that GET /round/tx serves has the client's input, its output,
\* and as many denomination outputs as its floor asks for.
Acceptable(c) ==
    /\ phase = "Signing"
    /\ coin[c] \in outputs \cap Inputs
    /\ Cardinality(outputs) >= Floor[c]

Fetch(c) ==
    /\ at[c] = "fetch"
    /\ Acceptable(c)
    /\ GoTo(c, "sign")
    /\ Keeps
    /\ UNCHANGED coordinatorVars

FetchRefused(c) ==
    /\ ~Acceptable(c)
    /\ Refused(c, "fetch")

\* process_sign: the session token is of the installed secret.
CanSign(c) ==
    /\ phase = "Signing"
    /\ session[c] = material
    /\ coin[c] \in Inputs \ sigs

\* post_sign answers at once, unless this signature completes the set.
Sign(c, answered, assembled) ==
    /\ MayBeLost(answered)
    /\ at[c] = "sign"
    /\ CanSign(c)
    /\ PostSign(coin[c], assembled)
    /\ IF ~answered \/ (AllSigned(sigs') /\ ~assembled)
       THEN GivesUp(c)
       ELSE /\ GoTo(c, IF phase' = "Broadcast" THEN "broadcasting" ELSE "done")
            /\ Keeps

SignRefused(c) ==
    /\ ~CanSign(c)
    /\ Refused(c, "sign")

\* The client whose call waits for the finalize task of round r: the last signer,
\* even when the watchdog ended the round meanwhile.
Waits(c, r) == at[c] = "broadcasting" /\ session[c] = r

\* tx.send(outcome), to the one that waits for it, if anybody still does.
Told(r, relayed) ==
    \/ \E c \in Clients :
          /\ Waits(c, r)
          /\ IF relayed THEN GoTo(c, "done") /\ Keeps ELSE GivesUp(c)
    \/ (\A c \in Clients : ~Waits(c, r)) /\ UNCHANGED clientVars

BroadcastAnswered(r) ==
    \/ FinalizeSuccess(r) /\ Told(r, TRUE)
    \/ (FinalizeFailure(r) \/ TaskDies(r)) /\ Told(r, FALSE)

\* The request timeout answers 408.
BroadcastTimesOut(c) == Refused(c, "broadcasting")

-----------------------------------------------------------------------------
(* The coordinator's own steps, and what a client sees of them.            *)

FinalizeProceeds(r) ==
    \/ TestAccepted(r)
    \/ TestRefused(r)
    \/ \E replied \in BOOLEAN : SendAccepted(r, replied)
    \/ SendRefused(r)
    \/ \E u \in Utxos, ok \in BOOLEAN : Revalidate(r, u, ok)

CoordinatorSteps ==
    /\ \/ Monitor
       \/ \E r \in Rounds : TimerFires(r) \/ FinalizeProceeds(r)
       \/ PauseLapses
       \/ \E u \in Utxos : BanExpires(u) \/ OwnerSpends(u)
    /\ UNCHANGED clientVars

\* Connections break: whoever waits for an answer gets an error.
CoordinatorCrashes ==
    /\ Crash
    /\ LET stays == {c \in Clients : at[c] \notin Awaiting} IN
        /\ at' = [c \in Clients |-> IF c \in stays THEN at[c] ELSE "off"]
        /\ coin' = [c \in Clients |-> IF c \in stays THEN coin[c] ELSE None]
        /\ info' = [c \in Clients |-> IF c \in stays THEN info[c] ELSE None]
        /\ session' = [c \in Clients |-> IF c \in stays THEN session[c] ELSE None]
        /\ UNCHANGED attempt

\* What a client that is not disturbed does next, whatever it is told.
ClientStep(c) ==
    \/ PollMatches(c)
    \/ Register(c)
    \/ RegisterRefused(c)
    \/ Registered(c, TRUE)
    \/ RegisteringFails(c)
    \/ Recheck(c)
    \/ RecheckRefused(c)
    \/ Redeem(c, TRUE)
    \/ RedeemRefused(c)
    \/ Fetch(c)
    \/ FetchRefused(c)
    \/ \E assembled \in BOOLEAN : Sign(c, TRUE, assembled)
    \/ SignRefused(c)
    \/ BroadcastTimesOut(c)
    \/ PollTimesOut(c)
    \/ Busy(c)

ClientMishap(c) ==
    \/ Interrupted(c)
    \/ Registered(c, FALSE)
    \/ Redeem(c, FALSE)
    \/ \E assembled \in BOOLEAN : Sign(c, FALSE, assembled)

ClientInit ==
    /\ Init
    /\ at = [c \in Clients |-> "off"]
    /\ coin = [c \in Clients |-> None]
    /\ info = [c \in Clients |-> None]
    /\ session = [c \in Clients |-> None]
    /\ attempt = [c \in Clients |-> 0]

-----------------------------------------------------------------------------
(* Properties.                                                             *)

ClientTypeOK ==
    /\ at \in [Clients -> Running \cup Ended]
    /\ coin \in [Clients -> Utxos \cup {None}]
    /\ \A c \in Clients : coin[c] \in Wallet[c] \cup {None}
    /\ info \in [Clients -> 0..MaxRounds]
    /\ session \in [Clients -> 0..MaxRounds]
    /\ attempt \in [Clients -> 0..MaxRetries]

\* The round that a client took part in is still the coordinator's.
InItsRound(c) == session[c] = roundId /\ phase # "Idle"

\* What a client was told is so: as long as its round lasts, its coin is registered
\* for that round, its output is recorded once it was told so, and so is its
\* signature (register_input's finalize, post_output, post_sign).
ToldIsTrue ==
    \A c \in Clients : InItsRound(c) =>
        /\ registered[coin[c]] = session[c]
        /\ at[c] \in {"awaitSigning", "fetch", "sign", "broadcasting", "done"} =>
              coin[c] \in outputs
        /\ at[c] \in {"broadcasting", "done"} => coin[c] \in sigs

\* A signing timeout bans nobody whose client was told that it signed, and nobody
\* who never redeemed an output, such as a client whose answer to the registration
\* was lost (http.rs post_input, blame.rs on_signing_timeout).
SilentSignersOnly ==
    [][phase = "Signing" =>
          \A u \in banned' \ banned :
              /\ u \in outputs
              /\ \A c \in Clients : coin[c] = u /\ InItsRound(c) =>
                     at[c] \notin {"broadcasting", "done"}]_partyVars

\* The client's call goes through, or what it waits for has come or is under way:
\* no timer, fault or refusal is needed for its next step.
CanGoOn(c) ==
    \/ at[c] \in DOMAIN Polling /\ phase = Polling[at[c]]
    \/ at[c] = "register" /\ handler[c] = NoRequest /\ CanRegister(c)
    \/ /\ at[c] = "registering"
       /\ handler[c] = <<coin[c], roundId>>
       /\ phase = "InputReg" /\ RoomForOne /\ coin[c] \notin Inputs
       /\ BlindSignatureIsValid(c)
    \/ at[c] = "recheck" /\ KeyIsUnchanged(c)
    \/ at[c] = "redeem" /\ CanRedeem(c) /\ HoldsToken(coin[c])
    \/ at[c] = "fetch" /\ Acceptable(c)
    \/ at[c] = "sign" /\ CanSign(c)
    \/ at[c] = "broadcasting" /\ task[session[c]].pc # "none"

\* The client is in the current round, and nothing refuses its coin.
TakesPart(c) ==
    /\ coin[c] \notin banned \cup {None}
    /\ spentBy[coin[c]] = "nobody"
    /\ \/ at[c] = "awaitInput" /\ phase = "InputReg"
       \/ at[c] \in {"register", "registering"}
          /\ info[c] = roundId
          /\ coin[c] \notin Inputs
       \/ at[c] \in Running /\ InItsRound(c)
       \/ at[c] = "done" /\ InItsRound(c)

\* Clients and coordinator never wait for each other: as long as the round has room
\* for exactly the clients that take part in it, none of which asks for more than the
\* quorum's anonymity, one of them can go on before any timer fires (poll_until_phase
\* waits for a phase that only the other clients' calls bring about).
NoMutualWait ==
    (/\ Cardinality(Clients) = MaxParticipants
     /\ \A c \in Clients : TakesPart(c) /\ Floor[c] <= MinParticipants
     /\ Inputs \subseteq {coin[c] : c \in Clients})
    => \E c \in Clients : CanGoOn(c)

\* A client process ends, whatever the coordinator does: polls and retries are
\* bounded, and every call is answered (http.rs).
ClientsEnd == \A c \in Clients : at[c] \in Running ~> at[c] \in Ended

=============================================================================
