---------------------------- MODULE Coordinator ----------------------------
(***************************************************************************)
(* The coordinator process: who takes the round's lock, in which order, and *)
(* what is remembered between two critical sections.                        *)
(*                                                                         *)
(*   - in-flight POST /round/input requests, which hold a snapshot of the   *)
(*     round while gettxout is awaited (api/handlers.rs);                   *)
(*   - the phase monitor, its memory of the rounds it acted on, the key     *)
(*     generation it awaits and the timers it spawns (run.rs);              *)
(*   - the detached finalize tasks, which broadcast and re-validate without *)
(*     the lock (round/signing.rs), and the node they talk to;              *)
(*   - the ban list and its file, the consecutive-blame count and the pause *)
(*     of the re-armer (round/blame.rs);                                    *)
(*   - the crash of the process, which loses all of it but the file.        *)
(*                                                                         *)
(* Time is not measured: a timer may fire at any moment after it was armed, *)
(* so every order of a timer and what races it is explored.                 *)
(***************************************************************************)
EXTENDS RoundState

CONSTANTS
    Handlers,   \* POST /round/input requests in flight at a time (bound)
    BlameCap,   \* CONSECUTIVE_BLAME_CAP
    Backoff,    \* whether blame_full_abort_backoff_secs > 0
    MaxLate,    \* bound: timers and tasks of earlier rounds still pending
                \* when the monitor starts a round
    Faults      \* bound: the events of FaultKinds that an instance explores

FaultKinds == {"crash", "task dies", "keygen fails", "assembly fails",
               "append fails", "node fails", "owner spends", "ban expires"}

ASSUME CoordinatorAssumption ==
    /\ BlameCap \in Nat \ {0}
    /\ Backoff \in BOOLEAN
    /\ MaxLate \in Nat
    /\ Faults \subseteq FaultKinds

VARIABLES
    handler,     \* request in flight: <<utxo, round of its snapshot>>
    keygen,      \* round the monitor is generating material for, or None
    memo,        \* phase -> last round the monitor acted on in that phase
    timers,      \* armed timers that have not fired: <<phase, round>>
    task,        \* round -> its finalize task
    banned,      \* BanList.entries: unexpired bans in memory
    banFile,     \* unexpired records a restart reads from the ban file
    blameCount,  \* blame_round_count
    paused,      \* now < round_paused_until
    spentBy      \* node: who spent the coin, mempool included

blameVars == <<banned, banFile, blameCount, paused>>
monitorVars == <<keygen, memo, timers>>
vars == <<roundVars, monitorVars, blameVars, handler, task, spentBy>>

Rounds == 1..MaxRounds

TimedPhases == Phases \ {"Idle"}

NoRequest == <<>>

NoTask == [pc |-> "none", todo |-> {}, errors |-> 0, spent |-> {}]

\* finalize_broadcast as it is spawned, with the outpoints of its round.
NewTask(inputs) == [pc |-> "test", todo |-> inputs, errors |-> 0, spent |-> {}]

\* `round_id == r && phase == p`, checked again under the lock by every timer
\* and by finalize_broadcast.
IsCurrent_PhaseOnly(p, r) == phase = p

IsCurrent(p, r) == phase = p /\ roundId = r

\* What earlier rounds have left running.
Late == {t \in timers : t[2] < roundId}
            \cup {<<"task", r>> : r \in {q \in Rounds :
                                        q < roundId /\ task[q].pc # "none"}}

-----------------------------------------------------------------------------
(* POST /round/input: api/handlers.rs post_input.                          *)

\* Phase check, ban check and snapshot, up to the gettxout that is awaited.  The
\* ownership proof is later verified against the round id of this snapshot.
InputValidate(h, u) ==
    /\ handler[h] = NoRequest
    /\ phase = "InputReg"
    /\ u \notin banned
    /\ u \notin Inputs
    /\ handler' = [handler EXCEPT ![h] = <<u, roundId>>]
    /\ UNCHANGED <<roundVars, monitorVars, blameVars, task, spentBy>>

\* gettxout answered and the proof verified; the write lock is granted.
InputCommit(h) ==
    /\ handler[h] # NoRequest
    /\ RegisterInput(handler[h][1], handler[h][2])
    /\ handler' = [handler EXCEPT ![h] = NoRequest]
    /\ UNCHANGED <<monitorVars, blameVars, task, spentBy>>

\* The RPC, the proof or a check under the lock refuses the request, or the
\* request timeout drops it at its await.
InputFails(h) ==
    /\ handler[h] # NoRequest
    /\ handler' = [handler EXCEPT ![h] = NoRequest]
    /\ UNCHANGED <<roundVars, monitorVars, blameVars, task, spentBy>>

-----------------------------------------------------------------------------
(* POST /round/output and POST /round/sign.                                *)

PostOutput_NoSignatureCheck(u) ==
    /\ RecordOutput(u)
    /\ UNCHANGED <<handler, monitorVars, blameVars, task, spentBy>>

PostOutput(u) ==
    /\ HoldsToken(u)
    /\ RecordOutput(u)
    /\ UNCHANGED <<handler, monitorVars, blameVars, task, spentBy>>

\* assemble_final_tx_hex builds the transaction again and finalizes every input;
\* any step of it may fail.
MayAssemble(assembled) == assembled \/ "assembly fails" \in Faults

\* post_sign: the signature that completes the set assembles the transaction,
\* enters Broadcast and spawns finalize_broadcast with the round's inputs.
PostSign(u, assembled) ==
    /\ MayAssemble(assembled)
    /\ RecordSignature(u, assembled)
    /\ task' = IF phase' = "Broadcast"
               THEN [task EXCEPT ![roundId] = NewTask(Inputs)]
               ELSE task
    /\ UNCHANGED <<handler, monitorVars, blameVars, spentBy>>

-----------------------------------------------------------------------------
(* The phase monitor of run.rs, one branch per tick.                       *)

MonitorStart_IgnoresPause ==
    /\ keygen = None
    /\ phase = "Idle"
    /\ roundId <= MaxRounds /\ Cardinality(Late) <= MaxLate
    /\ memo["Idle"] # roundId
    /\ memo' = [memo EXCEPT !["Idle"] = roundId]
    /\ keygen' = roundId
    /\ UNCHANGED <<roundVars, timers, blameVars, handler, task, spentBy>>

MonitorStart_MarksWhilePaused ==
    /\ keygen = None
    /\ phase = "Idle"
    /\ roundId <= MaxRounds /\ Cardinality(Late) <= MaxLate
    /\ memo["Idle"] # roundId
    /\ memo' = [memo EXCEPT !["Idle"] = roundId]
    /\ keygen' = IF paused THEN None ELSE roundId
    /\ UNCHANGED <<roundVars, timers, blameVars, handler, task, spentBy>>

\* Idle branch, up to the key generation that is awaited.
MonitorStart ==
    /\ keygen = None
    /\ phase = "Idle"
    /\ roundId <= MaxRounds /\ Cardinality(Late) <= MaxLate
    /\ memo["Idle"] # roundId
    /\ ~paused
    /\ memo' = [memo EXCEPT !["Idle"] = roundId]
    /\ keygen' = roundId
    /\ UNCHANGED <<roundVars, timers, blameVars, handler, task, spentBy>>

MonitorInstall ==
    /\ keygen # None
    /\ IF IsCurrent("Idle", keygen) THEN InstallRound(keygen)
                                    ELSE UNCHANGED roundVars
    /\ keygen' = None
    /\ UNCHANGED <<memo, timers, blameVars, handler, task, spentBy>>

KeygenFails_KeepsMemo ==
    /\ "keygen fails" \in Faults
    /\ keygen # None
    /\ keygen' = None
    /\ UNCHANGED <<roundVars, memo, timers, blameVars, handler, task, spentBy>>

KeygenFails ==
    /\ "keygen fails" \in Faults
    /\ keygen # None
    /\ keygen' = None
    /\ memo' = [memo EXCEPT !["Idle"] = None]
    /\ UNCHANGED <<roundVars, timers, blameVars, handler, task, spentBy>>

ArmTimer_OncePerPhase(p) ==
    /\ keygen = None
    /\ phase = p
    /\ memo[p] = None
    /\ memo' = [memo EXCEPT ![p] = roundId]
    /\ timers' = timers \cup {<<p, roundId>>}
    /\ UNCHANGED <<roundVars, keygen, blameVars, handler, task, spentBy>>

ArmTimer_OneCell(p) ==
    /\ keygen = None
    /\ phase = p
    /\ memo[p] # roundId
    /\ memo' = [q \in Phases |-> roundId]
    /\ timers' = timers \cup {<<p, roundId>>}
    /\ UNCHANGED <<roundVars, keygen, blameVars, handler, task, spentBy>>

\* The branches of the other phases: each (round, phase) arms one timer.
ArmTimer(p) ==
    /\ keygen = None
    /\ phase = p
    /\ memo[p] # roundId
    /\ memo' = [memo EXCEPT ![p] = roundId]
    /\ timers' = timers \cup {<<p, roundId>>}
    /\ UNCHANGED <<roundVars, keygen, blameVars, handler, task, spentBy>>

\* A timer task wakes up and takes the lock; a stale one changes nothing.
Fires(p, r) ==
    /\ <<p, r>> \in timers
    /\ timers' = timers \ {<<p, r>>}
    /\ UNCHANGED <<keygen, memo, handler, task, spentBy>>

StaleTimer(p, r) ==
    /\ Fires(p, r)
    /\ ~IsCurrent(p, r)
    /\ UNCHANGED <<roundVars, blameVars>>

InputRegTimer(r) ==
    /\ Fires("InputReg", r)
    /\ IsCurrent("InputReg", r)
    /\ InputRegTimeout
    /\ UNCHANGED blameVars

OutputRegTimer(r) ==
    /\ Fires("OutputReg", r)
    /\ IsCurrent("OutputReg", r)
    /\ OutputRegTimeout
    /\ UNCHANGED blameVars

\* broadcast_watchdog_force_idle.
WatchdogTimer(r) ==
    /\ Fires("Broadcast", r)
    /\ IsCurrent("Broadcast", r)
    /\ EndRound
    /\ UNCHANGED blameVars

-----------------------------------------------------------------------------
(* Blame.                                                                  *)

\* BanList::ban and append_ban_entry for each coin; an append may fail, which
\* is logged and ignored.
Ban(coins) ==
    /\ banned' = banned \cup coins
    /\ \E written \in SUBSET coins :
          /\ written = coins \/ "append fails" \in Faults
          /\ banFile' = banFile \cup written

\* round_paused_until := now + backoff, when there is a backoff.
Pause == paused' = (paused \/ Backoff)

\* blame::detect_non_signers.
NonSigners == Inputs \ sigs

CountSigningBlame_OffByOne ==
    IF blameCount > BlameCap \/ NonSigners = {}
    THEN /\ Pause
         /\ blameCount' = 0
    ELSE /\ blameCount' = blameCount + 1
         /\ UNCHANGED paused

\* The BlameOutcome of on_signing_timeout, and what run.rs does with it.
CountSigningBlame ==
    IF blameCount >= BlameCap \/ NonSigners = {}
    THEN /\ Pause
         /\ blameCount' = 0
    ELSE /\ blameCount' = blameCount + 1
         /\ UNCHANGED paused

SigningTimer(r) ==
    /\ Fires("Signing", r)
    /\ IsCurrent("Signing", r)
    /\ Ban(NonSigners)
    /\ CountSigningBlame
    /\ SigningTimeout

\* The counter half of signing::apply_broadcast_failure_blame.
CountBroadcastBlame(coins) ==
    IF coins # {}
    THEN /\ blameCount' = 0
         /\ UNCHANGED paused
    ELSE IF blameCount + 1 >= BlameCap /\ Backoff
    THEN /\ blameCount' = 0
         /\ Pause
    ELSE /\ blameCount' = blameCount + 1
         /\ UNCHANGED paused

-----------------------------------------------------------------------------
(* The finalize task: signing::finalize_broadcast, one step per await.     *)

TaskStep(r, from, to) ==
    /\ task[r].pc = from
    /\ task' = [task EXCEPT ![r].pc = to]
    /\ UNCHANGED <<monitorVars, handler>>

TaskOnly == UNCHANGED <<roundVars, blameVars, spentBy>>

\* The node refuses what spends a spent coin; it may also refuse for another reason
\* (a fee), not answer, or its answer may be lost.
NodeRefuses(r) ==
    "node fails" \in Faults \/ \E u \in task[r].todo : spentBy[u] # "nobody"

\* testmempoolaccept allows only a transaction whose coins are all unspent.
TestAccepted(r) ==
    /\ TaskStep(r, "test", "send")
    /\ \A u \in task[r].todo : spentBy[u] = "nobody"
    /\ TaskOnly

TestRefused(r) ==
    /\ NodeRefuses(r)
    /\ TaskStep(r, "test", "revalidate")
    /\ TaskOnly

\* sendrawtransaction reaches the node, and its reply the coordinator or not.
SendAccepted(r, replied) ==
    /\ replied \/ "node fails" \in Faults
    /\ TaskStep(r, "send", IF replied THEN "won" ELSE "revalidate")
    /\ \A u \in task[r].todo : spentBy[u] = "nobody"
    /\ spentBy' = [u \in Utxos |->
                      IF u \in task[r].todo THEN "coinjoin" ELSE spentBy[u]]
    /\ UNCHANGED <<roundVars, blameVars>>

SendRefused(r) ==
    /\ NodeRefuses(r)
    /\ TaskStep(r, "send", "revalidate")
    /\ TaskOnly

\* revalidate_spent_inputs: the outcome after the loop has seen u.  Two errors
\* in a row end the loop.
Revalidated_ErrorIsSpent(t, u, answered) ==
    IF ~answered /\ t.errors = 1
    THEN [t EXCEPT !.todo = {}, !.spent = @ \cup {u}]
    ELSE [t EXCEPT !.todo = @ \ {u},
                   !.errors = IF answered THEN 0 ELSE 1,
                   !.spent = IF answered /\ spentBy[u] = "nobody"
                             THEN @ ELSE @ \cup {u}]

Revalidated_NeverStops(t, u, answered) ==
    [t EXCEPT !.todo = @ \ {u},
              !.errors = IF answered THEN 0 ELSE @ + 1,
              !.spent = IF answered /\ spentBy[u] # "nobody"
                        THEN @ \cup {u} ELSE @]

Revalidated(t, u, answered) ==
    IF ~answered /\ t.errors = 1
    THEN [t EXCEPT !.todo = {}]
    ELSE [pc |-> t.pc,
          todo |-> t.todo \ {u},
          errors |-> IF answered THEN 0 ELSE 1,
          spent |-> IF answered /\ spentBy[u] # "nobody"
                    THEN t.spent \cup {u} ELSE t.spent]

Revalidate(r, u, answered) ==
    /\ answered \/ "node fails" \in Faults
    /\ task[r].pc = "revalidate"
    /\ u \in task[r].todo
    /\ task' = [task EXCEPT ![r] = Revalidated(@, u, answered)]
    /\ UNCHANGED <<roundVars, monitorVars, blameVars, handler, spentBy>>

TaskReturns(r) ==
    /\ task' = [task EXCEPT ![r] = NoTask]
    /\ UNCHANGED <<monitorVars, handler, spentBy>>

FinalizeSuccess(r) ==
    /\ task[r].pc = "won"
    /\ TaskReturns(r)
    /\ IF IsCurrent("Broadcast", r)
       THEN /\ EndRound
            /\ blameCount' = 0
            /\ UNCHANGED <<banned, banFile, paused>>
       ELSE UNCHANGED <<roundVars, blameVars>>

\* The round is still in Broadcast: apply_broadcast_failure_blame.
FinalizeFailure(r) ==
    /\ task[r].pc = "revalidate"
    /\ task[r].todo = {}
    /\ TaskReturns(r)
    /\ IF IsCurrent("Broadcast", r)
       THEN /\ Ban(task[r].spent)
            /\ CountBroadcastBlame(task[r].spent)
            /\ EndRoundViaBlame
       ELSE UNCHANGED <<roundVars, blameVars>>

\* The task panics or is aborted; the watchdog is there for this.
TaskDies(r) ==
    /\ "task dies" \in Faults
    /\ task[r].pc # "none"
    /\ TaskReturns(r)
    /\ UNCHANGED <<roundVars, blameVars>>

-----------------------------------------------------------------------------
(* Time, coin owners, and the process.                                     *)

PauseLapses ==
    /\ paused
    /\ paused' = FALSE
    /\ UNCHANGED <<roundVars, monitorVars, banned, banFile, blameCount,
                   handler, task, spentBy>>

\* now reaches expires_at, in BanList::is_banned and in a restart's reading.
BanExpires(u) ==
    /\ "ban expires" \in Faults
    /\ u \in banned
    /\ banned' = banned \ {u}
    /\ banFile' = banFile \ {u}
    /\ UNCHANGED <<roundVars, monitorVars, blameCount, paused, handler, task,
                   spentBy>>

OwnerSpends(u) ==
    /\ "owner spends" \in Faults
    /\ spentBy[u] = "nobody"
    /\ spentBy' = [spentBy EXCEPT ![u] = "owner"]
    /\ UNCHANGED <<roundVars, monitorVars, blameVars, handler, task>>

LoadBans_None == {}

\* load_unexpired_entries and BanList::load_entry at startup.
LoadBans == banFile

\* The process ends at any point and run() starts again.
Crash ==
    /\ "crash" \in Faults
    /\ Restart
    /\ handler' = [h \in Handlers |-> NoRequest]
    /\ keygen' = None
    /\ memo' = [p \in Phases |-> None]
    /\ timers' = {}
    /\ task' = [r \in Rounds |-> NoTask]
    /\ banned' = LoadBans
    /\ blameCount' = 0
    /\ paused' = FALSE
    /\ UNCHANGED <<banFile, spentBy>>

-----------------------------------------------------------------------------
(* The specification.                                                      *)

Init ==
    /\ RoundInit
    /\ handler = [h \in Handlers |-> NoRequest]
    /\ keygen = None
    /\ memo = [p \in Phases |-> None]
    /\ timers = {}
    /\ task = [r \in Rounds |-> NoTask]
    /\ banned = {}
    /\ banFile = {}
    /\ blameCount = 0
    /\ paused = FALSE
    /\ spentBy = [u \in Utxos |-> "nobody"]

Requests ==
    \/ \E h \in Handlers, u \in Utxos : InputValidate(h, u)
    \/ \E h \in Handlers : InputCommit(h)
    \/ \E h \in Handlers : InputFails(h)
    \/ \E u \in Utxos : PostOutput(u)
    \/ \E u \in Utxos, assembled \in BOOLEAN : PostSign(u, assembled)

Monitor ==
    \/ MonitorStart
    \/ MonitorInstall
    \/ KeygenFails
    \/ \E p \in TimedPhases : ArmTimer(p)

TimerFires(r) ==
    \/ \E p \in TimedPhases : StaleTimer(p, r)
    \/ InputRegTimer(r)
    \/ OutputRegTimer(r)
    \/ SigningTimer(r)
    \/ WatchdogTimer(r)

Finalize(r) ==
    \/ TestAccepted(r)
    \/ TestRefused(r)
    \/ \E replied \in BOOLEAN : SendAccepted(r, replied)
    \/ SendRefused(r)
    \/ \E u \in Utxos, answered \in BOOLEAN : Revalidate(r, u, answered)
    \/ FinalizeSuccess(r)
    \/ FinalizeFailure(r)

Environment ==
    \/ PauseLapses
    \/ \E u \in Utxos : BanExpires(u)
    \/ \E u \in Utxos : OwnerSpends(u)
    \/ \E r \in Rounds : TaskDies(r)
    \/ Crash

Next ==
    \/ Requests
    \/ Monitor
    \/ \E r \in Rounds : TimerFires(r) \/ Finalize(r)
    \/ Environment

Spec == Init /\ [][Next]_vars

\* What is scheduled is eventually run: the monitor ticks, an armed timer fires,
\* a pause lapses, and key generation does not fail forever.  Participants, the
\* node and the finalize tasks are owed nothing.
Fairness ==
    /\ WF_vars(MonitorStart)
    /\ SF_vars(MonitorInstall)
    /\ \A p \in TimedPhases : WF_vars(ArmTimer(p))
    /\ \A p \in TimedPhases, r \in Rounds : WF_vars(StaleTimer(p, r))
    /\ \A r \in Rounds : WF_vars(InputRegTimer(r))
    /\ \A r \in Rounds : WF_vars(OutputRegTimer(r))
    /\ \A r \in Rounds : WF_vars(SigningTimer(r))
    /\ \A r \in Rounds : WF_vars(WatchdogTimer(r))
    /\ WF_vars(PauseLapses)

FairSpec == Spec /\ Fairness

-----------------------------------------------------------------------------
(* Properties that hold.                                                   *)

Requested == {NoRequest} \cup (Utxos \X Rounds)

TaskRecords ==
    [pc: {"none", "test", "send", "won", "revalidate"},
     todo: SUBSET Utxos, errors: 0..1, spent: SUBSET Utxos]

\* Every variable of the coordinator stays in its type.
CoordinatorTypeOK ==
    /\ TypeOK
    /\ handler \in [Handlers -> Requested]
    /\ keygen \in 0..MaxRounds
    /\ memo \in [Phases -> 0..MaxRounds]
    /\ timers \subseteq TimedPhases \X Rounds
    /\ task \in [Rounds -> TaskRecords]
    /\ banned \subseteq Utxos
    /\ banFile \subseteq Utxos
    /\ blameCount \in Nat
    /\ paused \in BOOLEAN
    /\ spentBy \in [Utxos -> {"nobody", "owner", "coinjoin"}]

\* The handlers, the monitor, its timers, the finalize tasks and crashes change
\* the round only as RoundState allows (every write under the round's lock).
RoundBehaviour == RoundSpec

\* The stage of the abstract CoinJoin that a phase is.
Stage ==
    CASE phase = "Signing" -> "sealed"
      [] phase = "Broadcast" -> "handed"
      [] OTHER -> "open"

\* The transactions that a finalize task may still get relayed.
Unsettled == {task[r].todo : r \in {q \in Rounds : task[q].pc \in {"test", "send"}}}

CJ == INSTANCE CoinJoin WITH
    Coins <- Utxos, Quorum <- MinParticipants, stage <- Stage,
    members <- Inputs, consents <- sigs, pending <- Unsettled, ledger <- spentBy

\* Coins are spent all together or not at all, and only when every member of a
\* sealed quorum signed for them, whatever is lost, late or restarted between
\* process_sign and sendrawtransaction.
CoinJoinBehaviour == CJ!CJSpec

\* No phase is left without something that will end it: its timer is armed, or
\* the monitor has yet to arm one for this round and is free to (run.rs).
NoPhaseUnattended ==
    phase \in TimedPhases =>
        \/ <<phase, roundId>> \in timers
        \/ memo[phase] # roundId /\ keygen = None

\* An Idle round is never forgotten: the monitor is generating its material, or
\* will look at this round again (last_idle_start_round is cleared on failure
\* and not set while paused).
IdleIsRevisited ==
    phase = "Idle" => keygen = roundId \/ memo["Idle"] # roundId

\* While a round is in Broadcast, its finalize task works on exactly the inputs
\* the round still holds, so the blame it applies is about this round.
TaskMatchesRound ==
    LET t == task[roundId] IN
    phase = "Broadcast" /\ t.pc # "none" =>
        /\ t.todo \cup t.spent \subseteq Inputs
        /\ t.pc \in {"test", "send", "won"} => t.todo = Inputs

\* A restart forgets no ban that reached the file and invents none: what is in
\* the file is banned in memory (append_ban_entry after BanList::ban, and
\* load_unexpired_entries).
FileBansAreEnforced == banFile \subseteq banned

\* With a backoff configured, rounds do not fail in a row without end: however
\* signing timeouts and failed broadcasts alternate, the count that leads to a
\* pause never passes the cap (on_signing_timeout, apply_broadcast_failure_blame).
BlameCountIsCapped == Backoff => blameCount <= BlameCap

\* A ban is put on a coin of the round being blamed, and only when its owner
\* withheld the signature or the node reports the coin spent; a late timer or a
\* late finalize task of another round bans nobody.
BansAreAttributed ==
    [][\A u \in banned' \ banned :
          /\ u \in Inputs
          /\ \/ phase = "Signing" /\ u \notin sigs
             \/ phase = "Broadcast" /\ spentBy[u] # "nobody"]_vars

\* A round is ended by its own timer or its own finalize task, or by a restart:
\* a timer or a task that belongs to an earlier round never ends a later one.
RoundsEndThemselves ==
    [][roundId' # roundId =>
          \/ \E p \in TimedPhases : <<p, roundId>> \in timers \ timers'
          \/ /\ phase = "Broadcast"
             /\ task[roundId].pc # "none"
             /\ task'[roundId].pc = "none"
          \/ memo' = [p \in Phases |-> None]]_vars

\* The backoff of a FullAbort is honoured: no round opens for registration
\* before round_paused_until, although the pause is read before key generation.
NoRoundWhilePaused ==
    [][phase = "Idle" /\ phase' = "InputReg" => ~paused]_vars

\* Whatever the participants and the node do, a round ends.
EveryRoundEnds == phase # "Idle" ~> phase = "Idle"

\* The coordinator never stays Idle (run.rs): another round opens, up to the
\* bound on rounds.
CoordinatorRearms ==
    phase = "Idle" /\ roundId <= MaxRounds ~> phase # "Idle" \/ roundId > MaxRounds

-----------------------------------------------------------------------------
(* Statements of the repository that the code does not meet.               *)

\* "Reject any UTXO present on the persisted ban list."
NoBannedInputAdmitted ==
    [][\A u \in Utxos : u \notin Inputs /\ u \in Inputs' => u \notin banned]_vars

\* "Only a participant who spent their registered coin out from under the round
\* appears here": a failed broadcast bans only owners who spent their coin.
OnlySpendersBanned ==
    [][phase = "Broadcast" =>
          \A u \in banned' \ banned : spentBy[u] = "owner"]_vars

\* "If it reaches 2, triggers FullAbort": both blame paths pause the re-armer
\* when the count of consecutive blame rounds reaches the cap.
CapPausesRearmer == Backoff /\ blameCount >= BlameCap => paused

=============================================================================
