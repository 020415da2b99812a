# A TLA+ model of blindjoin

blindjoin is a CoinJoin coordinator with blind-signed output tokens, a client
and a liquidity bot, in Rust. This directory holds TLA+ modules of its core, TLC
configurations that check them on small instances, and TLAPS proofs of what
matters most. `PROJECT.json` maps every definition to the source lines it models.

Check a module with `tlc -config CoordinatorRestarts.cfg MCCoordinator.tla`, a
proof with `tlapm RoundStateProofs.tla`.

## The system

A **round** goes Idle → InputReg → OutputReg → Signing → Broadcast → Idle. A
participant registers a coin with an ownership proof and a blinded token
(`POST /round/input`), redeems the unblinded token for an output under another
identity (`POST /round/output`), and signs the transaction (`POST /round/sign`).
Who spoils a round after that is banned.

| Part | State | Operations | Hard behaviour | What makes it correct |
|---|---|---|---|---|
| Round state (`coordinator/src/round/state.rs`, `manager.rs`) | phase, round id, participant count, `Option` of key, secret, inputs, redeemed tokens, outputs, signatures | `transition_to`, `install_round` | every way out of a phase must pass the reset | nothing of a round outlives it; phases follow the table |
| Handlers (`api/handlers.rs`, `round/input_reg.rs`, `output_reg.rs`, `signing.rs`) | requests in flight with a snapshot of the round | `post_input`, `post_output`, `post_sign`; `get_info`, `get_tx` only read | `post_input` awaits `gettxout` between its check and its lock | what is signed is balanced, frozen, of this round, and signed by all |
| Phase monitor (`run.rs`) | five cells "last round acted on in this phase", key generation awaited, timers spawned | a poll every 500 ms; timers per phase; Broadcast watchdog | stale timers, failing key generation, the pause | every round ends, by its own timer or task; another one opens |
| Finalize task (`round/signing.rs`, `bitcoin/rpc.rs`) | transaction and outpoints of one round | `testmempoolaccept`, `sendrawtransaction`, re-validation, terminal transition | runs without the lock; replies are lost; the watchdog may overtake it | blame hits who is to blame, and only in its own round |
| Blame (`round/blame.rs`, `signing.rs`) | ban list, ban file, consecutive-blame count, pause | two blame paths, one counter, append, load, compaction | crashes and short writes between memory and file; two paths to one cap | bans are enforced after a restart; failing rounds are slowed down |
| Fees and transaction (`bitcoin/fee.rs`, `tx.rs`, `utxo.rs`) | none | value gate, fee share, change, dust | the gate is computed before it is known who comes | whoever was admitted can pay; honest clients sign |
| Client (`client/src/main.rs`, `round/`, `http.rs`) | its coin, the round of its `/info`, session token and signature between calls | poll for three phases, register, re-check the key, redeem, verify, sign | 429, lost answers and kills while the coordinator's timers run; polls compare the phase, not the round | what it was told is true; it is not banned for what it did; clients and coordinator do not wait for each other |
| Ownership (`client/src/wallet.rs`, `shared/src/bip322`, `shared/src/protocol.rs`, `bitcoin/utxo.rs`, `sig_verify.rs`) | none | build and verify proofs in two envelopes, sign and verify inputs, assemble witnesses | three script types, two releases, four wallet constructors must agree | who proves a coin can sign for it; a signature that was accepted spends |
| Discovery (`discovery/`, `client/src/discover.rs`) | PKARR record, key file | publish, heartbeat, resolve, fail-fast | the record may be missing, stale, of another configuration or release | nobody is turned away without cause; the record comes right again |
| Transport (`network/tor.rs`, `api/middleware.rs`) | connection permits, request timeout | accept loop | a permit lost on a path; a handler dropped at an await | streams are accepted; the cap holds |
| Locks (`run.rs`, `api/handlers.rs`, `round/signing.rs`) | `round` and `ban_list` | read and write guards over awaits | two locks, one call that waits for another task | every call ends |
| Liquidity bot (`liquidity-bot/src`) | counter file | rotate, run the client, bump | killed between signature and bump | the counter follows signatures |

The parts of the coordinator share one `Arc<RwLock<RoundState>>`, one
`Arc<RwLock<BanList>>` (always taken after the round's lock) and two atomics, the
blame count and the end of the pause. Handlers and monitor run as tasks of one
runtime; timers and finalize tasks are detached. The coordinator calls the Bitcoin
node; clients poll the coordinator.

## Modules

**`RoundState`** is the round behind its lock. An action is one hold of the write
lock. `material` names the round whose key and HMAC secret are installed;
`registered[u]` is the round that the ownership proof of `u` names, since
`post_input` may commit a request that was validated for an earlier round;
`outputs` is the set of owners of redeemed tokens; `sigs` the inputs that signed.
`HoldsToken` says when a participant has a token that verifies. `register_input` signs
whatever bytes a request carries with the installed key, so it depends on what the
owner sent: a message blinded for a round's key, as the client sends it, is worth
something in that round only; one that depends on no key is worth something in any.
The constant `Blinding` is the set of coins whose owners do the former.

**`Coordinator`** extends it with the tasks. `InputValidate`/`InputCommit` split
`post_input` at its await; `MonitorStart`/`MonitorInstall` split the monitor at key
generation; `task[r]` is the finalize task of round `r`, with one action per RPC
and per outcome, `Revalidate` taking the coins in any order (they come from a hash
map). `banned`, `banFile`, `blameCount` and `paused` are the blame state; `spentBy`
is the node's view of each coin. `Crash` loses everything but the file and the node.

**`CoinJoin`** is the abstract specification: coins join, a quorum is sealed, all
consent, and then the transaction may settle, all coins at once or none, possibly
after the round was given up. `Coordinator` implements it under the mapping in
`CJ`: `Stage` from the phase, `Unsettled` from the tasks that may still send.

**`BanFile`** refines what `Coordinator` takes as one step: the file is a sequence
of records, torn records and newlines; an append is the writes of `writeln!`
(record, then newline) and `sync_all`; load and compaction read lines as the code
does. `PowerLoss` may drop any unsynced tail.

**`Fees`** is the money of one round: gate, fee share, change, and the client's
`verify_and_sign` on the transaction of an honest coordinator.

**`Client`** composes client processes with `Coordinator`, whose request handlers
are the clients' requests in flight. `at[c]` is where `main()` is; `info`,
`session` and `coin` are what `InputRegState` keeps. A call is answered in the step
in which the coordinator handles it, except the two that the coordinator awaits in:
`Register`/`Registered` for `post_input`, and `Sign`/`BroadcastAnswered` for the last
signature, whose answer is the finalize task's. `Interrupted` kills the client or
breaks its connection, leaving its request in flight; the second argument of
`Registered`, `Redeem` and `Sign` says whether the answer arrives; `Busy` is a 429.

**`Bot`** adds the liquidity bot to `Client`: one of the clients is launched with the
coin that the counter file points at and adds one to the file after it signed.

**`Ownership`** (constants and operators only) is what wallets, proofs, verifiers and
the assembly of witnesses do with scripts, keys and digests, per script type:
`SignBip322`, `BuildProof`, `ToWire`/`FromWire`, `Dispatch`, `SignPsbtInput`,
`VerifyInputSignature`, `Assembled`, and `Spends` for what the network takes.

**`Discovery`** is the coordinator's record in the DHT over restarts, configurations,
releases and lost key files, and a client's launch against it: fail-fast, choice of
envelope, admission, signature. What is posted as a signature need not be the client's:
`Submissions` has what any software makes of the wallet's keys, with the public key in
either encoding. It uses `Ownership`; of a round it keeps only who was admitted and
which witnesses were recorded.

**`Server`** is the way of a call through connection permits, request timeout and the
two locks. A call is the list of its awaits (`Program`); the locks are tokio's fair
queues; a dropped future gives back its guards and its place. What is done under a
lock is `Coordinator`'s.

`MC*` modules add symmetry sets and values. The theorems are in `RoundStateProofs`,
`CoordinatorProofs`, `TaskProofs`, `ClientProofs`, `BanFileProofs`, `FeesProofs`,
`DiscoveryProofs` and `ServerProofs`.

```
CoinJoin <- Coordinator -> RoundState        BanFile    (Coordinator's banFile)
                ^                            Fees       (the sums)
                Client                       Discovery -> Ownership
                ^                            Server     (Coordinator's locks)
                Bot
```

### What was abstracted, and why it is sound

- *Time* is not measured. A timer fires at any moment after it was armed, a pause
  lapses and a ban expires at any moment: more orders than the delays allow.
- *`post_input` before its lock* is one step, although it takes three read locks
  (phase, ban list, snapshot). The proof in a request names a round id that was
  known when the request was made, so not later than the phase check; it verifies
  only if the snapshot sees the same id. Phase check, ban check and snapshot of a
  request that goes on are thus all made within one round, and bans are added only
  as a round ends.
- *The monitor* reads the phase under the lock and arms a timer after dropping it.
  Nothing else reads or writes its cells, so arming commutes back to the read.
- *Cryptography*: a proof is valid for one round or not; a signature on a message that
  was blinded for a key unblinds to a token only if that key made it, and one on a
  message that was blinded for none is a token under whichever key made it; each
  registration yields one signature and so one token at most; session tokens are not forged (so a signer
  is a registered input); a signature is valid or refused. Two participants who
  commit to the same output share one token: the second cannot redeem it, which
  `RoundState` has as an input without an output.
- *The file system*: a rename is durable when it returns. `compact_ban_file` syncs the
  temporary file and not the directory, so a power loss soon after a start could, on a
  file system that does not order the two, bring the old file back; `BanFile` leaves
  this out, and `EachInterruptCostsOneBan` and its theorem rest on it.
- *The node*: `spentBy` is what `gettxout` with the mempool says. A spend stays;
  replacement and reorganisation are left out.
- *`Faults`* and *`Mishaps`* name which failures an instance explores, so that each
  question can be asked with the failures that matter to it: crash, a finalize task
  that dies, key generation or assembly that fails, an append to the ban file that
  fails, a node that errs or whose answer is lost, owners who spend, bans that expire;
  for clients kills, lost answers and 429. With a fault left out the system is a
  restriction of the real one, never another system.
- *Clients* call the coordinator of the same model, and the transaction they check is
  the one it builds: what is checked of it is input, output and floor in `Client`, the
  sums in `Fees`. A dishonest coordinator is not modelled. `Client` launches each coin
  from one wallet, and all of its coins are in `Blinding`.
- *`Ownership`*: a signature is its key and the digest it was made over and verifies for
  nothing else; a public key in a witness is the key and its length, 33 bytes or 65.
  bdk's signing is modelled by which inputs it signs with the keys and
  markers it is given. The release before this one is `external`: from its tests and
  comments here, it knows the array envelope and P2WPKH only.
- *`Server`*: a call may return early at each of its awaits, whatever it finds. One
  finalize task runs at a time. The rate limiter is `Busy`.
- *Fees* uses unbounded integers. With `denomination_sats`, rate and participant
  bounds of any real configuration the products stay far below 2^64. The own
  denomination output is always there when the coordinator is honest; wallets with
  one script for output and change receive the same sum.

## Runs

| Run | Question | Bounds | Result |
|---|---|---|---|
| `CoordinatorRequests` | the round's invariants, and requests that span the await | 3 outpoints, of which 2 in `Blinding`, quorum 2, room 3, 2 requests in flight, 2 rounds; node and assembly fail | holds, 0.9 M states |
| `CoordinatorRestarts` | crashes and every other fault; who is banned; the abstract CoinJoin; rounds end and others open; the cap and the pause | 2 outpoints, of which 1 in `Blinding`, 1 request, 2 rounds, cap 1, all eight faults, fair specification | holds, 0.5 M states |
| `BanFile` | file against memory | 2 coins, 3 appends, 2 cut short, clock 0..3, bans of 2 ticks | holds, 0.22 M states |
| `Fees` | gate against share, clients | 5 people, room 4, three scripts, values on both sides of each threshold | holds, 22 k states |
| `Bot` | clients, bot and coordinator together | a person with one coin, the bot with two, 2 rounds, every mishap, crashes, dying tasks, failing assembly | holds, 0.14 M states |
| `Discovery` | record, release and wallet mismatches | 3 coins, 12 launches of 2 clients, 5 configurations, 2 releases, 3 rounds, 2 keys; every submission | holds, 0.61 M states |
| `Server` | permits and locks | 2 streams for 1 permit, 2 tasks, the finalize task | holds, 0.12 M states |
| `LostReply` | "only a participant who spent their registered coin ... appears here" (signing.rs:171) | 1 round | **violated** |
| `CapWithoutPause` | "both agree on when the round re-armer should be paused" (blame.rs:212) | 2 rounds | **violated** |
| `StaleBanCheck` | "Reject any UTXO present on the persisted ban list" (PROTOCOL.md:151) | 2 rounds, 2 requests | **violated** |
| `TornAppend` | "so the entry survives" (blame.rs:113) | 2 appends | **violated** |
| `LongKeys` | "An invalid submission is rejected at the door" (sig_verify.rs:14) | 1 round, every submission | **violated** |

Why the bounds suffice. A *second round* is where a stale timer, task, request, ban
or key meets something it was not made for; a third adds nothing that the second
does not have, except to the blame count, which reaches a cap of 1 in two rounds by
either path and is proved to stay within any other cap (`BlameIsCapped`). *Two
participants* are the least quorum; a third lets a round close early or at its
timeout, and leaves one outside. *Two requests* can race for one coin and for the
last place. `MaxLate` bounds how many timers and tasks of earlier rounds are still
pending when the monitor starts a round; at 1, in the run about restarts, each kind of
late actor occurs; the run about requests has it at 0, where actors are late only
while the coordinator is Idle. One owner outside `Blinding` is enough for a round in
which an older request redeems, next to owners whose older requests do not. In `Bot` the bot's two coins make it return to
a round with another coin; room for two makes each client's absence felt. In `Server`
two streams for one permit make one wait for the other, and two tasks beside the
finalize task are the holder of one lock, of the other, and a third in the queue.
`Discovery` has for each check of the client and of the coordinator a launch that
passes and one that fails, and three rounds so that a proof can be one or two rounds
late. In
`BanFile`, three appends are a torn one, its victim and one more; bans of two ticks
in a clock of three expire in some runs and not in others. In `Fees` the
interesting cases are at the gate, one below it, and at both sides of dust.
Deadlock checking is off where the bound on rounds, or a finished round, stops the
system.

The five violations are the places where the code does something else than a
comment or document of the repository says; `findings` in `PROJECT.json` quotes
both. In particular a request that was validated for one round *can* be registered
in the next one (the proof's round id is checked only before the lock). It then
depends on the owner's message. If it was blinded for the earlier key, no token comes
of it and the round is never signed: a participant who blinds, as the client does, is
not carried into a transaction of another round (`SealedIsThisRounds`, which is also
proved), but the round it enters fails. If it depends on no key, the coin takes part in
the later round like any other, and it may be a banned one (`StaleBanCheck`).

`LongKeys` shows a signature that `verify_input_signature` takes and the network does
not: its public key is in the 65-byte encoding, whose compressed form hashes to the
script. Registration refuses such a key, signing does not. `AssembledIsValid` is what
does hold: every recorded signature with a compressed key spends, whoever made it, and
`ProversCanSign` adds that those of the client do.

`FeeRateIsMet` states the rate with the slack that the code leaves: the half vbyte
of the segwit marker that the 10 vbytes of overhead omit, and the remainder of the
division by the number of participants.

### Fairness

`FairSpec` is fair to what the runtime schedules without anybody's help: the
monitor's poll (weak fairness of `MonitorStart` and `ArmTimer`), each armed timer
(weak fairness: a `sleep` ends and the lock, which is fair in tokio, is granted),
and the lapse of the pause. `MonitorInstall` has strong fairness: key generation
may fail, and is tried again, but does not fail forever. Nothing is assumed of
participants, of the node, or of the finalize tasks, which may hang or die: that a
round ends in spite of them is the point of `EveryRoundEnds`. Crashes are bounded by
the rounds they use up.

`BotFairSpec` adds weak fairness of each client's step: a client that is not disturbed
goes on, is answered, or runs into a limit of its own (`max_wait`, the retries, the
request timeout). With nothing assumed of the coordinator, `ClientsEnd` says that the
client's own limits suffice.

`Discovery`'s heartbeat has weak fairness: the task ticks while the process runs, and
the DHT does not refuse every publish. In `Server` calls are polled, the first in a
lock's queue is let in (tokio's lock is fair), and the accept loop runs; an idle
connection is closed at some time, with strong fairness because requests interrupt
the idleness. No fairness of `TimesOut`: `EveryCallEnds` does not rest on the timeout.

### Remarks

Met while modelling, and no disagreement that a run refutes:

- `liquidity-bot/src/lib.rs:153` bumps the counter "ONLY on successful round
  completion". A signer who is not the last is answered when its signature is
  recorded, so the counter may move in a round that is not broadcast afterwards.
- `strategy.rs:48`: a bot that is killed between its signature and the rename, or
  answered 408 while the finalize task runs, repeats the same coin, which may be spent.
- `client/src/config.rs:97` calls the outputs of the anonymity floor distinct; the client
  counts every output of the denomination's value, change that happens to be worth it
  included (`Fees!DenominationOutputs`).

## Proofs

`RoundStateProofs` proves `RoundInv` of `RoundSpec` for every set of outpoints, all
participant bounds with 2 <= min <= max, and any number of rounds. The properties
are not inductive alone: that a sealed round is balanced needs that each redeemed
token belongs to an input of this round (`OutputsAreRedeemed`, which also says that it
was validated for this round if its owner blinds) and that
the quorum was reached when input registration closed (`QuorumReached`), together
with `CountIsInputs`, because handler and timer count differently. From
`outputs \subseteq Inputs` and equal sizes follows `outputs = Inputs`, and from that
`SealedIsThisRounds`: whoever was admitted with a request that was blinded for an older
round keeps this one from being sealed. Of owners outside `Blinding` it says nothing,
and balance, quorum and signatures do not depend on who blinds. That a phase which a count closes is not open once the count is reached
(`ClosedByCount`) is what the clients' proofs take from here.

`CoordinatorProofs` proves that `Coordinator` implements `RoundSpec`, action by
action, so that every theorem on the round holds of the coordinator with all its
tasks and crashes, for any number of requests; the invariant it needs
(`MemoryInv`) is that whatever is remembered between two holds of the lock names a
round that has been. It also proves `FileBansAreEnforced`.

It also proves the types, `BlameCountIsCapped`, and the monitor's invariant
`MonitorInv`: the key being generated is for the Idle round and was started outside a
pause (`KeygenIsCurrent`), no cell names a later round, and no cell of a phase still
ahead names this round (`MemoIsPast`). The last is what makes one memory cell per phase
enough: when a phase begins its cell differs from the round, so the timer will be armed
(`NoPhaseUnattended`); when a round begins all cells do (`IdleIsRevisited`).
`NoRoundWhilePaused` follows since nothing pauses the re-armer in an Idle round.

`TaskProofs` proves that a finalize task belongs to a round that is over or to the one
in Broadcast (`TasksArePast`), that it works on this round's inputs
(`TaskMatchesRound`), and that what it has found spent stays spent. From these,
`BansAreAttributed` and `RoundsEndThemselves`, and the refinement
`CoinJoinBehaviour`: a round's step is one of Join, Seal, Consent and Abandon or a
stutter (`RoundStepsAbstractly`), only the completing signature adds a transaction that
may settle (`UnsettledSteps`), and the ledger changes only by settling one or by an
owner (`LedgerSteps`).

`ClientProofs` proves that the composition of `Bot` implements `Coordinator`, so the
above holds with clients; then `ToldIsTrue`, whose inductive form says where a client
may be for its registration, output and signature to be recorded, and holds across
rounds because the round's id only grows: a client of an earlier round can never be in
its round again. `SilentSignersOnly` follows from it with `BansAreAttributed` and
`SealedIsBalanced`. `RotationFollowsSignatures` needs that a pending bump belongs to the
coin the bot was launched with.

`NoMutualWait` says that as many clients as fit in the round, all with a part in it,
never all wait for each other. `CanGoOn` stands for ENABLED in it: it states the guards
of the clients' own actions, and that whoever broadcasts has a finalize task under way.
A client whose floor is above the quorum is left out because it refuses a small round
instead of waiting, and then the others do wait for their timer. The proof takes phase
by phase. In input registration the coins of the clients are exactly as many as the
round has places, so if all of them were inputs `ClosedByCount` would have closed the
phase: one client is still to register. In output registration an input has no output
yet, and `WaitInv` says where its owner may be (`PlaceOK`). In signing a signature is
missing or the last signer is still broadcasting, and there is only one
(`OneBroadcaster`, `SomebodyWasLast`).

`BanFileProofs` proves that what a restart reads is what memory enforces, for any
number of coins, appends and interrupts. In the file expiries grow with the place and
none is further off than a ban that starts now (`FileInv`); the compacted file holds
the same unexpired records, each on a line of its own (`TmpInv`); the ban that is being
appended is in memory already, is later than any in the file, and what was written of
it is the end of the file (`AppendInv`). From these, `FileBansAreInMemory` and
`CompactionKeepsBans`. `EachInterruptCostsOneBan` is inductive as `LossInv`: the bans
lost, and one more while a partial line waits for the next record to join it, are no
more than the interrupts. Load and compaction run over the file; their results are
characterised by the least or greatest place with a property, which is the induction
the library's theorems allow.

`FeesProofs` proves that the gate is never below the share, `FeesInv`: with a fixed
cost shared by all and a cost per head bounded by the worst allowed script, the
share does not grow with the number of participants (`ShareDoesNotGrow`), and rounding
down keeps the order (`DivIsGreatest`). From this `RegisteredCanPay` and
`HonestClientsSign`, for every value, rate and mix. `FeeRateIsMet` speaks of a sum over
the participants; that the sum exists and splits into the shares (`SumExists`,
`PaidSum`, `SumOfShares`) is shown on a minimal set of participants for which it would
fail (`MinimalSubset`).

`DiscoveryProofs` proves, for any wallets, configurations and chain, that a wallet
past the fail-fast fits what it resolved, that who is registered proved its coin with
a key of it, and that what is recorded verified, whoever made it; from these
`ProversCanSign`, `AssembledIsValid`, `OnlyOwnersAdmitted` and `RefusalsHaveCause`. That
a verified signature spends (`VerifiedSpends`) needs its key to be compressed, which
verification does not ask for.

`ServerProofs` proves that permits are conserved, free ones and those of streams being
accepted or open together, and so `ConnectionsAreCapped` for any number of streams.
For the locks, `LockInv` says that what is left of a call is a legal rest of one
(`CallsAreCalls`: right after it was let in a call drops its guards or asks for the
bans under the round's write guard), that the queue of a lock holds exactly its
waiters, once each (`QueuesAreWaiters`), and that a reply is awaited only while the
finalize task runs (`ReplyIsComing`). With `LockOrder`, a theorem of its own, that a
holder of the bans waits for nothing and a holder of the round only for the bans,
`NobodyIsStuck` follows for any number of streams and tasks.

The assumptions are the named ASSUMEs: what `CoordinatorConfig::validate`,
`BipConfig::validate` and the wallets' constructors enforce, and finiteness. TLC
evaluates them in every run.

Only model-checked are the liveness properties, which need fairness and ENABLED, out of
the prover's reach: `EveryRoundEnds`, `CoordinatorRearms`, `ClientsEnd`,
`RecordIsRefreshed`, `EveryCallEnds` and `StreamsAreAccepted`. Every other property of
the runs that hold is stated by a theorem.

## Not modelled, and the plan

Left out for good: the mathematics of BIP-322, blind RSA and sighashes, and the bytes
of tokens; parsing of files, flags and environment; the derivation of keys and texts
of descriptors; the rate limiter's arithmetic (a library's); the clearnet listener for
development and the client's Tor bootstrap, which keep no state of a round.

What could be added:

1. **FinalizeTiming**: the serial calls of the failure path against the watchdog delay
   that `config.rs:486` derives, for all participant bounds; a theorem on sums.
2. **BanFile** with a line that is not UTF-8, where the load ends with an error and
   `run.rs:98` starts with no bans.
3. **Client** against a coordinator that is not honest: which of its checks stand
   between a forged transaction and a signature.
