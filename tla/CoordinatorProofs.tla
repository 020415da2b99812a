------------------------- MODULE CoordinatorProofs -------------------------
(***************************************************************************)
(* Coordinator implements RoundState, so what RoundStateProofs shows of the *)
(* round holds whatever handlers, timers, finalize tasks and crashes do.    *)
(* Then its types, the count of consecutive blames, and the phase monitor:  *)
(* what it remembers is of the rounds it acted on, so no phase and no Idle  *)
(* round is left alone, and no round opens during a pause.                  *)
(***************************************************************************)
EXTENDS Coordinator, RoundStateProofs

-----------------------------------------------------------------------------
(* What the refinement rests on: what is remembered between two holds of    *)
(* the lock names a round that has been, and that is within the bound.      *)

RequestsAreOld ==
    \A h \in Handlers : handler[h] # NoRequest =>
        handler[h][1] \in Utxos /\ handler[h][2] \in 1..roundId

KeygenInBound == keygen \in 0..MaxRounds

MemoryInv ==
    /\ roundId \in Nat \ {0}
    /\ handler \in [Handlers -> Requested]
    /\ RequestsAreOld
    /\ KeygenInBound

\* A step changes the round's id only by adding one to it.
LEMMA RoundIdsIncrease ==
    ASSUME MemoryInv, [RoundNext]_roundVars
    PROVE  roundId' \in Nat \ {0} /\ roundId <= roundId'
<1>1. roundId' \in {roundId, roundId + 1}
  BY DEF RoundNext, roundVars, InstallRound, RegisterInput, InputRegTimeout,
     RecordOutput, OutputRegTimeout, RecordSignature, SigningTimeout,
     BroadcastEnds, Restart, Advance, EndRound, EndRoundViaBlame, Reset
<1> QED
  BY <1>1 DEF MemoryInv

-----------------------------------------------------------------------------
(* Every step of the coordinator is a critical section of the round, or     *)
(* leaves the round alone.                                                  *)

LEMMA RequestsImplement ==
    ASSUME MemoryInv, Requests
    PROVE  [RoundNext]_roundVars
<1>1. ASSUME NEW h \in Handlers, NEW u \in Utxos, InputValidate(h, u)
      PROVE  UNCHANGED roundVars
  BY <1>1 DEF InputValidate, roundVars
<1>2. ASSUME NEW h \in Handlers, InputCommit(h)
      PROVE  RoundNext
  <2>1. handler[h][1] \in Utxos /\ handler[h][2] \in 1..roundId
    BY <1>2 DEF InputCommit, MemoryInv, RequestsAreOld
  <2> QED
    BY <1>2, <2>1 DEF InputCommit, RoundNext
<1>3. ASSUME NEW h \in Handlers, InputFails(h)
      PROVE  UNCHANGED roundVars
  BY <1>3 DEF InputFails, roundVars
<1>4. ASSUME NEW u \in Utxos, PostOutput(u)
      PROVE  RoundNext
  BY <1>4 DEF PostOutput, RoundNext
<1>5. ASSUME NEW u \in Utxos, NEW assembled \in BOOLEAN, PostSign(u, assembled)
      PROVE  RoundNext
  BY <1>5 DEF PostSign, RoundNext
<1> QED
  BY <1>1, <1>2, <1>3, <1>4, <1>5 DEF Requests

LEMMA MonitorImplements ==
    ASSUME MemoryInv, Monitor
    PROVE  [RoundNext]_roundVars
<1>1. CASE MonitorStart
  BY <1>1 DEF MonitorStart, roundVars
<1>2. CASE MonitorInstall
  <2>1. CASE IsCurrent("Idle", keygen)
    <3>1. roundId = keygen /\ roundId <= MaxRounds
      BY <2>1, RoundAssumption DEF IsCurrent, MemoryInv, KeygenInBound
    <3> QED
      BY <1>2, <2>1, <3>1 DEF MonitorInstall, RoundNext
  <2>2. CASE ~IsCurrent("Idle", keygen)
    BY <1>2, <2>2 DEF MonitorInstall
  <2> QED
    BY <2>1, <2>2
<1>3. CASE KeygenFails
  BY <1>3 DEF KeygenFails, roundVars
<1>4. ASSUME NEW p \in TimedPhases, ArmTimer(p)
      PROVE  UNCHANGED roundVars
  BY <1>4 DEF ArmTimer, roundVars
<1> QED
  BY <1>1, <1>2, <1>3, <1>4 DEF Monitor

LEMMA TimersImplement ==
    ASSUME NEW r \in Rounds, TimerFires(r)
    PROVE  [RoundNext]_roundVars
<1>1. ASSUME NEW p \in TimedPhases, StaleTimer(p, r)
      PROVE  UNCHANGED roundVars
  BY <1>1 DEF StaleTimer
<1>2. CASE InputRegTimer(r)
  BY <1>2 DEF InputRegTimer, RoundNext
<1>3. CASE OutputRegTimer(r)
  BY <1>3 DEF OutputRegTimer, RoundNext
<1>4. CASE SigningTimer(r)
  BY <1>4 DEF SigningTimer, RoundNext
<1>5. CASE WatchdogTimer(r)
  BY <1>5 DEF WatchdogTimer, IsCurrent, BroadcastEnds, RoundNext
<1> QED
  BY <1>1, <1>2, <1>3, <1>4, <1>5 DEF TimerFires

LEMMA FinalizeImplements ==
    ASSUME NEW r \in Rounds, Finalize(r)
    PROVE  [RoundNext]_roundVars
<1>1. TestAccepted(r) \/ TestRefused(r) \/ SendRefused(r) => UNCHANGED roundVars
  BY DEF TestAccepted, TestRefused, SendRefused, TaskOnly
<1>2. ASSUME NEW replied \in BOOLEAN, SendAccepted(r, replied)
      PROVE  UNCHANGED roundVars
  BY <1>2 DEF SendAccepted
<1>3. ASSUME NEW u \in Utxos, NEW answered \in BOOLEAN, Revalidate(r, u, answered)
      PROVE  UNCHANGED roundVars
  BY <1>3 DEF Revalidate
<1>4. FinalizeSuccess(r) => [RoundNext]_roundVars
  BY DEF FinalizeSuccess, IsCurrent, BroadcastEnds, RoundNext
<1>5. FinalizeFailure(r) => [RoundNext]_roundVars
  BY DEF FinalizeFailure, IsCurrent, BroadcastEnds, RoundNext
<1> QED
  BY <1>1, <1>2, <1>3, <1>4, <1>5 DEF Finalize

LEMMA EnvironmentImplements ==
    ASSUME Environment
    PROVE  [RoundNext]_roundVars
<1>1. PauseLapses => UNCHANGED roundVars
  BY DEF PauseLapses
<1>2. \A u \in Utxos : BanExpires(u) \/ OwnerSpends(u) => UNCHANGED roundVars
  BY DEF BanExpires, OwnerSpends
<1>3. \A r \in Rounds : TaskDies(r) => UNCHANGED roundVars
  BY DEF TaskDies
<1>4. Crash => RoundNext
  BY DEF Crash, RoundNext
<1> QED
  BY <1>1, <1>2, <1>3, <1>4 DEF Environment

\* The step half of the refinement.
LEMMA StepImplements ==
    ASSUME MemoryInv, [Next]_vars
    PROVE  [RoundNext]_roundVars
<1>1. CASE UNCHANGED vars
  BY <1>1 DEF vars
<1> QED
  BY <1>1, RequestsImplement, MonitorImplements, TimersImplement,
     FinalizeImplements, EnvironmentImplements DEF Next

-----------------------------------------------------------------------------
(* MemoryInv is inductive.                                                 *)

LEMMA InitMemory == Init => MemoryInv
BY RoundAssumption DEF Init, RoundInit, MemoryInv, Requested, RequestsAreOld,
   KeygenInBound, None

\* A step starts one request, ends one or all of them, or leaves them alone.
LEMMA HandlerSteps ==
    ASSUME [Next]_vars
    PROVE  \/ UNCHANGED handler
           \/ \E h \in Handlers, u \in Utxos : InputValidate(h, u)
           \/ \E h \in Handlers : handler' = [handler EXCEPT ![h] = NoRequest]
           \/ handler' = [h \in Handlers |-> NoRequest]
<1>1. CASE UNCHANGED vars
  BY <1>1 DEF vars
<1>2. CASE Requests
  BY <1>2 DEF Requests, InputCommit, InputFails, PostOutput, PostSign
<1>3. CASE Monitor
  BY <1>3 DEF Monitor, MonitorStart, MonitorInstall, KeygenFails, ArmTimer
<1>4. ASSUME NEW r \in Rounds, TimerFires(r)
      PROVE  UNCHANGED handler
  BY <1>4 DEF TimerFires, StaleTimer, InputRegTimer, OutputRegTimer, SigningTimer,
     WatchdogTimer, Fires
<1>5. ASSUME NEW r \in Rounds, Finalize(r)
      PROVE  UNCHANGED handler
  BY <1>5 DEF Finalize, TestAccepted, TestRefused, SendAccepted, SendRefused,
     Revalidate, FinalizeSuccess, FinalizeFailure, TaskStep, TaskReturns
<1>6. CASE Environment
  BY <1>6 DEF Environment, PauseLapses, BanExpires, OwnerSpends, TaskDies, Crash,
     TaskReturns
<1> QED
  BY <1>1, <1>2, <1>3, <1>4, <1>5, <1>6 DEF Next

\* A step keeps keygen, clears it, or sets it to a round within the bound.
LEMMA KeygenSteps ==
    ASSUME [Next]_vars
    PROVE  \/ UNCHANGED keygen
           \/ keygen' = None
           \/ keygen' = roundId /\ roundId <= MaxRounds
<1>1. CASE UNCHANGED vars
  BY <1>1 DEF vars, monitorVars
<1>2. CASE Requests
  BY <1>2 DEF Requests, InputValidate, InputCommit, InputFails, PostOutput,
     PostSign, monitorVars
<1>3. CASE Monitor
  BY <1>3 DEF Monitor, MonitorStart, MonitorInstall, KeygenFails, ArmTimer
<1>4. ASSUME NEW r \in Rounds, TimerFires(r)
      PROVE  UNCHANGED keygen
  BY <1>4 DEF TimerFires, StaleTimer, InputRegTimer, OutputRegTimer, SigningTimer,
     WatchdogTimer, Fires
<1>5. ASSUME NEW r \in Rounds, Finalize(r)
      PROVE  UNCHANGED keygen
  BY <1>5 DEF Finalize, TestAccepted, TestRefused, SendAccepted, SendRefused,
     Revalidate, FinalizeSuccess, FinalizeFailure, TaskStep, TaskReturns,
     monitorVars
<1>6. CASE Environment
  BY <1>6 DEF Environment, PauseLapses, BanExpires, OwnerSpends, TaskDies, Crash,
     TaskReturns, monitorVars
<1> QED
  BY <1>1, <1>2, <1>3, <1>4, <1>5, <1>6 DEF Next

LEMMA NextMemory ==
    ASSUME RoundInv, MemoryInv, [Next]_vars
    PROVE  MemoryInv'
<1>1. roundId' \in Nat \ {0} /\ roundId <= roundId'
  BY StepImplements, RoundIdsIncrease
<1>2. roundId \in Nat \ {0}
  BY DEF MemoryInv
<1>3. KeygenInBound'
  BY <1>2, RoundAssumption, KeygenSteps DEF MemoryInv, KeygenInBound, None
<1>4. handler' \in [Handlers -> Requested] /\ RequestsAreOld'
  <2>1. CASE UNCHANGED handler
    BY <1>1, <1>2, <2>1 DEF MemoryInv, RequestsAreOld
  <2>2. ASSUME NEW h \in Handlers, NEW u \in Utxos, InputValidate(h, u)
        PROVE  handler' \in [Handlers -> Requested] /\ RequestsAreOld'
    <3>1. roundId \in Rounds
      BY <1>2, <2>2, RoundAssumption DEF InputValidate, RoundInv, OpenRoundInBound,
         Rounds
    <3>2. handler' = [handler EXCEPT ![h] = <<u, roundId>>]
      BY <2>2 DEF InputValidate
    <3>3. <<u, roundId>> \in Requested
      BY <3>1 DEF Requested
    <3> QED
      BY <1>1, <1>2, <3>2, <3>3 DEF MemoryInv, RequestsAreOld
  <2>3. ASSUME NEW h \in Handlers, handler' = [handler EXCEPT ![h] = NoRequest]
        PROVE  handler' \in [Handlers -> Requested] /\ RequestsAreOld'
    BY <1>1, <1>2, <2>3 DEF MemoryInv, RequestsAreOld, Requested
  <2>4. CASE handler' = [h \in Handlers |-> NoRequest]
    BY <2>4 DEF RequestsAreOld, Requested
  <2> QED
    BY <2>1, <2>2, <2>3, <2>4, HandlerSteps
<1> QED
  BY <1>1, <1>3, <1>4 DEF MemoryInv

-----------------------------------------------------------------------------
(* The theorems.                                                           *)

\* Both invariants hold of the coordinator.
LEMMA CoordinatorInvariant == Spec => [](RoundInv /\ MemoryInv)
<1>1. Init => RoundInv /\ MemoryInv
  BY InitInv, InitMemory DEF Init
<1>2. RoundInv /\ MemoryInv /\ [Next]_vars => (RoundInv /\ MemoryInv)'
  BY StepImplements, NextKeepsInv, NextMemory
<1> QED
  BY <1>1, <1>2, PTL DEF Spec

\* The coordinator implements RoundState: its handlers, monitor, timers, finalize
\* tasks and restarts change the round only by RoundState's critical sections.
THEOREM CoordinatorRefinesRound == Spec => RoundBehaviour
<1>1. Init => RoundInit
  BY DEF Init
<1>2. MemoryInv /\ [Next]_vars => [RoundNext]_roundVars
  BY StepImplements
<1> QED
  BY <1>1, <1>2, CoordinatorInvariant, PTL DEF Spec, RoundSpec, RoundBehaviour

\* What the coordinator hands to the network carries the signature of every
\* input of the round, under every interleaving and every restart.
THEOREM CoordinatorBroadcastsAreSigned == Spec => []BroadcastIsFullySigned
BY CoordinatorRefinesRound, BroadcastsAreSigned, PTL DEF RoundBehaviour

\* No signature is asked for in a round that admitted an input validated and blinded
\* for another one, although post_input does admit such an input.
THEOREM CoordinatorSealsFreshInputs == Spec => []SealedIsThisRounds
BY CoordinatorRefinesRound, SealedRoundsAreFresh, PTL DEF RoundBehaviour

-----------------------------------------------------------------------------
(* Bans.                                                                   *)

\* A step adds to the file only what it adds to memory, and drops from memory
\* only what it drops from the file.
LEMMA NextKeepsFileBans ==
    ASSUME FileBansAreEnforced, [Next]_vars
    PROVE  FileBansAreEnforced'
<1>1. ASSUME UNCHANGED <<banned, banFile>>
      PROVE  FileBansAreEnforced'
  BY <1>1 DEF FileBansAreEnforced
<1>2. ASSUME NEW coins, Ban(coins)
      PROVE  FileBansAreEnforced'
  BY <1>2 DEF Ban, FileBansAreEnforced
<1>3. CASE UNCHANGED vars
  BY <1>1, <1>3 DEF vars, blameVars
<1>4. CASE Requests
  BY <1>1, <1>4 DEF Requests, InputValidate, InputCommit, InputFails, PostOutput,
     PostSign, blameVars
<1>5. CASE Monitor
  BY <1>1, <1>5 DEF Monitor, MonitorStart, MonitorInstall, KeygenFails, ArmTimer,
     blameVars
<1>6. ASSUME NEW r \in Rounds, TimerFires(r)
      PROVE  FileBansAreEnforced'
  BY <1>1, <1>2, <1>6 DEF TimerFires, StaleTimer, InputRegTimer, OutputRegTimer,
     SigningTimer, WatchdogTimer, blameVars
<1>7. ASSUME NEW r \in Rounds, Finalize(r)
      PROVE  FileBansAreEnforced'
  <2>1. FinalizeFailure(r) => FileBansAreEnforced'
    BY <1>1, <1>2 DEF FinalizeFailure, blameVars
  <2>2. FinalizeSuccess(r) => FileBansAreEnforced'
    BY <1>1 DEF FinalizeSuccess, blameVars
  <2> QED
    BY <1>1, <1>7, <2>1, <2>2 DEF Finalize, TestAccepted, TestRefused, SendAccepted,
       SendRefused, Revalidate, TaskOnly, blameVars
<1>8. CASE Environment
  <2>1. \A u \in Utxos : BanExpires(u) => FileBansAreEnforced'
    BY DEF BanExpires, FileBansAreEnforced
  <2>2. Crash => FileBansAreEnforced'
    BY DEF Crash, LoadBans, FileBansAreEnforced
  <2> QED
    BY <1>1, <1>8, <2>1, <2>2 DEF Environment, PauseLapses, OwnerSpends, TaskDies,
       blameVars
<1> QED
  BY <1>3, <1>4, <1>5, <1>6, <1>7, <1>8 DEF Next

\* A restart brings back every ban that is in the file and no other.
THEOREM FileBansSurvive == Spec => []FileBansAreEnforced
<1>1. Init => FileBansAreEnforced
  BY DEF Init, FileBansAreEnforced
<1>2. FileBansAreEnforced /\ [Next]_vars => FileBansAreEnforced'
  BY NextKeepsFileBans
<1> QED
  BY <1>1, <1>2, PTL DEF Spec

-----------------------------------------------------------------------------
(* Types.                                                                  *)

LEMMA FaultsAndTimers ==
    /\ TimedPhases = {"InputReg", "OutputReg", "Signing", "Broadcast"}
    /\ BlameCap \in Nat \ {0} /\ Backoff \in BOOLEAN
BY CoordinatorAssumption DEF TimedPhases, Phases

\* A round that is open is one of Rounds.
LEMMA OpenRoundsAreRounds ==
    ASSUME RoundInv, phase # "Idle"
    PROVE  roundId \in Rounds
BY RoundAssumption DEF RoundInv, TypeOK, OpenRoundInBound, Rounds

LEMMA InputsAreUtxos == Inputs \in SUBSET Utxos /\ NonSigners \in SUBSET Utxos
BY DEF Inputs, NonSigners

\* The types of what the round does not hold.
TasksTypeOK ==
    /\ memo \in [Phases -> 0..MaxRounds]
    /\ timers \subseteq TimedPhases \X Rounds
    /\ task \in [Rounds -> TaskRecords]

BlameTypeOK ==
    /\ banned \subseteq Utxos
    /\ banFile \subseteq Utxos
    /\ blameCount \in Nat
    /\ paused \in BOOLEAN
    /\ spentBy \in [Utxos -> {"nobody", "owner", "coinjoin"}]

LEMMA NoTaskTyped == NoTask \in TaskRecords
BY DEF NoTask, TaskRecords

LEMMA RevalidatedTyped ==
    ASSUME NEW t \in TaskRecords, NEW u \in Utxos, NEW answered \in BOOLEAN
    PROVE  Revalidated(t, u, answered) \in TaskRecords
BY DEF TaskRecords, Revalidated

LEMMA TasksTyped ==
    ASSUME RoundInv, MemoryInv, TasksTypeOK, [Next]_vars
    PROVE  TasksTypeOK'
<1>1. ASSUME UNCHANGED <<memo, timers, task>>
      PROVE  TasksTypeOK'
  BY <1>1 DEF TasksTypeOK
<1>2. CASE UNCHANGED vars
  BY <1>1, <1>2 DEF vars, monitorVars
<1>3. CASE Requests
  <2>1. ASSUME NEW u \in Utxos, NEW assembled \in BOOLEAN, PostSign(u, assembled)
        PROVE  TasksTypeOK'
    <3>1. roundId \in Rounds
      BY <2>1, OpenRoundsAreRounds DEF PostSign, RecordSignature
    <3>2. NewTask(Inputs) \in TaskRecords
      BY InputsAreUtxos DEF NewTask, TaskRecords
    <3>3. task' \in [Rounds -> TaskRecords]
      BY <2>1, <3>1, <3>2 DEF PostSign, TasksTypeOK
    <3> QED
      BY <2>1, <3>3 DEF PostSign, monitorVars, TasksTypeOK
  <2> QED
    BY <1>1, <1>3, <2>1 DEF Requests, InputValidate, InputCommit, InputFails,
       PostOutput, monitorVars
<1>4. CASE Monitor
  <2>1. CASE MonitorStart \/ KeygenFails
    <3>1. roundId <= MaxRounds => roundId \in 0..MaxRounds
      BY RoundAssumption DEF RoundInv, TypeOK
    <3>2. None \in 0..MaxRounds
      BY RoundAssumption DEF None
    <3>3. MonitorStart => memo' \in [Phases -> 0..MaxRounds]
      BY <3>1 DEF MonitorStart, TasksTypeOK
    <3>4. KeygenFails => memo' \in [Phases -> 0..MaxRounds]
      BY <3>2 DEF KeygenFails, TasksTypeOK
    <3> QED
      BY <2>1, <3>3, <3>4 DEF MonitorStart, KeygenFails, TasksTypeOK
  <2>2. ASSUME NEW p \in TimedPhases, ArmTimer(p)
        PROVE  TasksTypeOK'
    <3>1. roundId \in Rounds /\ roundId \in 0..MaxRounds
      BY <2>2, OpenRoundsAreRounds, RoundAssumption DEF ArmTimer, TimedPhases, Rounds
    <3> QED
      BY <2>2, <3>1 DEF ArmTimer, TasksTypeOK, TimedPhases
  <2> QED
    BY <1>1, <1>4, <2>1, <2>2 DEF Monitor, MonitorInstall
<1>5. ASSUME NEW r \in Rounds, TimerFires(r)
      PROVE  TasksTypeOK'
  BY <1>5 DEF TimerFires, StaleTimer, InputRegTimer, OutputRegTimer, SigningTimer,
     WatchdogTimer, Fires, TasksTypeOK
<1>6. ASSUME NEW r \in Rounds, Finalize(r)
      PROVE  TasksTypeOK'
  <2>1. ASSUME NEW to \in {"send", "won", "revalidate"}, NEW from, TaskStep(r, from, to)
        PROVE  TasksTypeOK'
    <3>1. [task[r] EXCEPT !.pc = to] \in TaskRecords
      BY DEF TasksTypeOK, TaskRecords
    <3> QED
      BY <2>1, <3>1 DEF TaskStep, monitorVars, TasksTypeOK
  <2>2. ASSUME NEW u \in Utxos, NEW answered \in BOOLEAN, Revalidate(r, u, answered)
        PROVE  TasksTypeOK'
    BY <2>2, RevalidatedTyped DEF Revalidate, monitorVars, TasksTypeOK
  <2>3. TaskReturns(r) => TasksTypeOK'
    BY NoTaskTyped DEF TaskReturns, monitorVars, TasksTypeOK
  <2> QED
    BY <1>6, <2>1, <2>2, <2>3 DEF Finalize, TestAccepted, TestRefused, SendAccepted,
       SendRefused, FinalizeSuccess, FinalizeFailure
<1>7. CASE Environment
  <2>1. \A r \in Rounds : TaskDies(r) => TasksTypeOK'
    BY NoTaskTyped DEF TaskDies, TaskReturns, monitorVars, TasksTypeOK
  <2>2. Crash => TasksTypeOK'
    BY NoTaskTyped, RoundAssumption DEF Crash, TasksTypeOK, None
  <2> QED
    BY <1>1, <1>7, <2>1, <2>2 DEF Environment, PauseLapses, BanExpires, OwnerSpends,
       monitorVars
<1> QED
  BY <1>2, <1>3, <1>4, <1>5, <1>6, <1>7 DEF Next

LEMMA BlameTyped ==
    ASSUME RoundInv, TasksTypeOK, BlameTypeOK, [Next]_vars
    PROVE  BlameTypeOK'
<1>1. ASSUME UNCHANGED <<blameVars, spentBy>>
      PROVE  BlameTypeOK'
  BY <1>1 DEF blameVars, BlameTypeOK
<1>2. ASSUME NEW coins \in SUBSET Utxos, Ban(coins)
      PROVE  banned' \subseteq Utxos /\ banFile' \subseteq Utxos
  BY <1>2 DEF Ban, BlameTypeOK
<1>3. CASE UNCHANGED vars
  BY <1>1, <1>3 DEF vars
<1>4. CASE Requests
  BY <1>1, <1>4 DEF Requests, InputValidate, InputCommit, InputFails, PostOutput,
     PostSign
<1>5. CASE Monitor
  BY <1>1, <1>5 DEF Monitor, MonitorStart, MonitorInstall, KeygenFails, ArmTimer
<1>6. ASSUME NEW r \in Rounds, TimerFires(r)
      PROVE  BlameTypeOK'
  <2>1. CASE SigningTimer(r)
    <3>1. banned' \subseteq Utxos /\ banFile' \subseteq Utxos
      BY <1>2, <2>1, InputsAreUtxos DEF SigningTimer
    <3>2. blameCount' \in Nat /\ paused' \in BOOLEAN
      BY <2>1, FaultsAndTimers DEF SigningTimer, CountSigningBlame, Pause, BlameTypeOK
    <3> QED
      BY <2>1, <3>1, <3>2 DEF SigningTimer, Fires, BlameTypeOK
  <2> QED
    BY <1>1, <1>6, <2>1 DEF TimerFires, StaleTimer, InputRegTimer, OutputRegTimer,
       WatchdogTimer, Fires
<1>7. ASSUME NEW r \in Rounds, Finalize(r)
      PROVE  BlameTypeOK'
  <2>1. CASE FinalizeFailure(r)
    <3>1. task[r].spent \in SUBSET Utxos
      BY DEF TasksTypeOK, TaskRecords
    <3>2. CASE IsCurrent("Broadcast", r)
      <4>1. banned' \subseteq Utxos /\ banFile' \subseteq Utxos
        BY <1>2, <2>1, <3>1, <3>2 DEF FinalizeFailure
      <4>2. blameCount' \in Nat /\ paused' \in BOOLEAN
        BY <2>1, <3>2, FaultsAndTimers DEF FinalizeFailure, CountBroadcastBlame, Pause,
           BlameTypeOK
      <4> QED
        BY <2>1, <4>1, <4>2 DEF FinalizeFailure, TaskReturns, BlameTypeOK
    <3> QED
      BY <1>1, <2>1, <3>2 DEF FinalizeFailure, TaskReturns
  <2>2. CASE FinalizeSuccess(r)
    BY <1>1, <2>2 DEF FinalizeSuccess, TaskReturns, blameVars, BlameTypeOK
  <2>3. ASSUME NEW replied \in BOOLEAN, SendAccepted(r, replied)
        PROVE  BlameTypeOK'
    BY <2>3 DEF SendAccepted, blameVars, BlameTypeOK
  <2> QED
    BY <1>1, <1>7, <2>1, <2>2, <2>3 DEF Finalize, TestAccepted, TestRefused,
       SendRefused, Revalidate, TaskOnly
<1>8. CASE Environment
  <2>1. PauseLapses => BlameTypeOK'
    BY DEF PauseLapses, BlameTypeOK
  <2>2. \A u \in Utxos : BanExpires(u) \/ OwnerSpends(u) => BlameTypeOK'
    BY DEF BanExpires, OwnerSpends, blameVars, BlameTypeOK
  <2>3. CASE Crash
    <3>1. /\ banned' = banFile /\ blameCount' = 0 /\ paused' = FALSE
          /\ UNCHANGED <<banFile, spentBy>>
      BY <2>3 DEF Crash, LoadBans
    <3> QED
      BY <3>1 DEF BlameTypeOK
  <2>4. \A r \in Rounds : TaskDies(r) => BlameTypeOK'
    BY <1>1 DEF TaskDies, TaskReturns
  <2> QED
    BY <1>8, <2>1, <2>2, <2>3, <2>4 DEF Environment
<1> QED
  BY <1>3, <1>4, <1>5, <1>6, <1>7, <1>8 DEF Next

\* The types of what the round does not hold, with what they rest on.
TypesInv == RoundInv /\ MemoryInv /\ TasksTypeOK /\ BlameTypeOK

LEMMA TypesInvariant == Spec => []TypesInv
<1>1. Init => TasksTypeOK /\ BlameTypeOK
  <2>1. Init => TasksTypeOK
    BY NoTaskTyped, RoundAssumption DEF Init, TasksTypeOK, None
  <2>2. ASSUME Init
        PROVE  BlameTypeOK
    <3>1. /\ banned = {} /\ banFile = {} /\ blameCount = 0 /\ paused = FALSE
          /\ spentBy = [u \in Utxos |-> "nobody"]
      BY <2>2 DEF Init
    <3>2. spentBy \in [Utxos -> {"nobody", "owner", "coinjoin"}]
      BY <3>1
    <3> QED
      BY <3>1, <3>2 DEF BlameTypeOK
  <2> QED
    BY <2>1, <2>2
<1>2. RoundInv /\ MemoryInv /\ TasksTypeOK /\ BlameTypeOK /\ [Next]_vars
      => TasksTypeOK' /\ BlameTypeOK'
  BY TasksTyped, BlameTyped
<1> QED
  BY <1>1, <1>2, CoordinatorInvariant, PTL DEF Spec, TypesInv

\* Every variable of the coordinator stays in its type.
THEOREM CoordinatorTypeCorrect == Spec => []CoordinatorTypeOK
<1>1. TypesInv => CoordinatorTypeOK
  BY DEF TypesInv, RoundInv, MemoryInv, KeygenInBound, TasksTypeOK, BlameTypeOK,
     CoordinatorTypeOK
<1> QED
  BY <1>1, TypesInvariant, PTL

-----------------------------------------------------------------------------
(* The count of consecutive blames.                                        *)

LEMMA NextKeepsBlameCount ==
    ASSUME BlameTypeOK, BlameCountIsCapped, [Next]_vars
    PROVE  BlameCountIsCapped'
<1> USE FaultsAndTimers DEF BlameTypeOK
<1>1. ASSUME blameCount' \in {0, blameCount}
      PROVE  BlameCountIsCapped'
  BY <1>1 DEF BlameCountIsCapped
<1>2. CASE UNCHANGED vars
  BY <1>1, <1>2 DEF vars, blameVars
<1>3. CASE Requests
  BY <1>1, <1>3 DEF Requests, InputValidate, InputCommit, InputFails, PostOutput,
     PostSign, blameVars
<1>4. CASE Monitor
  BY <1>1, <1>4 DEF Monitor, MonitorStart, MonitorInstall, KeygenFails, ArmTimer,
     blameVars
<1>5. ASSUME NEW r \in Rounds, TimerFires(r)
      PROVE  BlameCountIsCapped'
  <2>1. SigningTimer(r) => BlameCountIsCapped'
    BY DEF SigningTimer, CountSigningBlame, BlameCountIsCapped
  <2> QED
    BY <1>1, <1>5, <2>1 DEF TimerFires, StaleTimer, InputRegTimer, OutputRegTimer,
       WatchdogTimer, blameVars
<1>6. ASSUME NEW r \in Rounds, Finalize(r)
      PROVE  BlameCountIsCapped'
  <2>1. FinalizeFailure(r) => BlameCountIsCapped'
    BY DEF FinalizeFailure, CountBroadcastBlame, BlameCountIsCapped, blameVars
  <2> QED
    BY <1>1, <1>6, <2>1 DEF Finalize, TestAccepted, TestRefused, SendAccepted,
       SendRefused, Revalidate, FinalizeSuccess, TaskOnly, blameVars
<1>7. CASE Environment
  BY <1>1, <1>7 DEF Environment, PauseLapses, BanExpires, OwnerSpends, TaskDies,
     Crash, blameVars
<1> QED
  BY <1>2, <1>3, <1>4, <1>5, <1>6, <1>7 DEF Next

\* However signing timeouts and failed broadcasts alternate, with a backoff
\* configured the count that leads to a pause never passes the cap.
THEOREM BlameIsCapped == Spec => []BlameCountIsCapped
<1>1. Init => BlameCountIsCapped
  BY FaultsAndTimers DEF Init, BlameCountIsCapped
<1>2. TypesInv /\ BlameCountIsCapped /\ [Next]_vars => BlameCountIsCapped'
  BY NextKeepsBlameCount DEF TypesInv
<1> QED
  BY <1>1, <1>2, TypesInvariant, PTL DEF Spec

-----------------------------------------------------------------------------
(* The phase monitor.                                                      *)

\* The phases that a round may still go through.
Ahead(p) ==
    {q \in TimedPhases :
        \/ p = "Idle"
        \/ p = "InputReg" /\ q # "InputReg"
        \/ p = "OutputReg" /\ q \in {"Signing", "Broadcast"}
        \/ p = "Signing" /\ q = "Broadcast"}

\* The round whose material is awaited is the one that is Idle, and the pause was
\* read before: nothing but a restart touches an Idle round meanwhile.
KeygenIsCurrent ==
    keygen # None => phase = "Idle" /\ keygen = roundId /\ ~paused

\* The monitor remembers rounds that have been, and of this one only the phases
\* that it has gone through.
MemoIsPast ==
    /\ \A p \in Phases : memo[p] <= roundId
    /\ \A p \in Ahead(phase) : memo[p] # roundId

MonitorInv ==
    /\ KeygenIsCurrent
    /\ MemoIsPast
    /\ NoPhaseUnattended
    /\ IdleIsRevisited

\* A step leaves the round where it is, moves it forward, or ends it.
LEMMA PhaseSteps ==
    ASSUME RoundInv, MemoryInv, [Next]_vars
    PROVE  /\ phase' \in Phases
           /\ \/ roundId' = roundId /\ phase' = phase
              \/ roundId' = roundId /\ phase' \in Ahead(phase)
              \/ roundId' = roundId + 1 /\ phase' = "Idle"
<1>1. phase' \in Phases
  BY StepImplements, NextKeepsInv DEF RoundInv, TypeOK
<1>2. CASE UNCHANGED roundVars
  BY <1>1, <1>2 DEF roundVars
<1>3. CASE RoundNext
  <2> USE <1>1 DEF Ahead, TimedPhases, Phases
  <2>1. (\E m \in Nat : InstallRound(m)) =>
           roundId' = roundId /\ phase' \in Ahead(phase)
    BY DEF InstallRound
  <2>2. \A u \in Utxos, k \in 1..roundId : RegisterInput(u, k) =>
           roundId' = roundId /\ (phase' = phase \/ phase' \in Ahead(phase))
    BY DEF RegisterInput
  <2>3. InputRegTimeout =>
           \/ roundId' = roundId /\ phase' \in Ahead(phase)
           \/ roundId' = roundId + 1 /\ phase' = "Idle"
    BY DEF InputRegTimeout, Advance, EndRound, Reset
  <2>4. \A u \in Utxos : RecordOutput(u) =>
           roundId' = roundId /\ (phase' = phase \/ phase' \in Ahead(phase))
    BY DEF RecordOutput
  <2>5. OutputRegTimeout =>
           \/ roundId' = roundId /\ phase' \in Ahead(phase)
           \/ roundId' = roundId + 1 /\ phase' = "Idle"
    BY DEF OutputRegTimeout, Advance, EndRoundViaBlame, Reset
  <2>6. \A u \in Utxos, assembled \in BOOLEAN : RecordSignature(u, assembled) =>
           roundId' = roundId /\ (phase' = phase \/ phase' \in Ahead(phase))
    BY DEF RecordSignature
  <2>7. SigningTimeout \/ BroadcastEnds \/ Restart =>
           roundId' = roundId + 1 /\ phase' = "Idle"
    BY DEF SigningTimeout, BroadcastEnds, Restart, EndRound, EndRoundViaBlame, Reset
  <2>8. roundId \in Nat
    BY DEF MemoryInv
  <2> QED
    BY <1>3, <2>1, <2>2, <2>3, <2>4, <2>5, <2>6, <2>7, <2>8 DEF RoundNext
<1> QED
  BY <1>2, <1>3, StepImplements

\* A step keeps what the monitor remembers, adds the current round at its phase,
\* or forgets: one failed key generation, or all at a restart.
LEMMA MemoSteps ==
    ASSUME [Next]_vars
    PROVE  \/ UNCHANGED memo
           \/ UNCHANGED roundVars /\ memo' = [memo EXCEPT ![phase] = roundId]
           \/ UNCHANGED roundVars /\ memo' = [memo EXCEPT !["Idle"] = None]
           \/ memo' = [p \in Phases |-> None]
<1>1. CASE UNCHANGED vars
  BY <1>1 DEF vars, monitorVars
<1>2. CASE Requests
  BY <1>2 DEF Requests, InputValidate, InputCommit, InputFails, PostOutput,
     PostSign, monitorVars
<1>3. CASE Monitor
  BY <1>3 DEF Monitor, MonitorStart, MonitorInstall, KeygenFails, ArmTimer
<1>4. ASSUME NEW r \in Rounds, TimerFires(r)
      PROVE  UNCHANGED memo
  BY <1>4 DEF TimerFires, StaleTimer, InputRegTimer, OutputRegTimer, SigningTimer,
     WatchdogTimer, Fires
<1>5. ASSUME NEW r \in Rounds, Finalize(r)
      PROVE  UNCHANGED memo
  BY <1>5 DEF Finalize, TestAccepted, TestRefused, SendAccepted, SendRefused,
     Revalidate, FinalizeSuccess, FinalizeFailure, TaskStep, TaskReturns,
     monitorVars
<1>6. CASE Environment
  BY <1>6 DEF Environment, PauseLapses, BanExpires, OwnerSpends, TaskDies, Crash,
     TaskReturns, monitorVars
<1> QED
  BY <1>1, <1>2, <1>3, <1>4, <1>5, <1>6 DEF Next

LEMMA MemoStaysPast ==
    ASSUME TypesInv, MemoIsPast, [Next]_vars
    PROVE  MemoIsPast'
<1>1. /\ roundId \in Nat \ {0} /\ phase \in Phases /\ None = 0
      /\ memo \in [Phases -> 0..MaxRounds] /\ MaxRounds \in Nat
  BY RoundAssumption DEF TypesInv, RoundInv, TypeOK, MemoryInv, TasksTypeOK, None
<1>2. Ahead(phase) \subseteq Phases /\ phase \notin Ahead(phase) /\ "Idle" \notin Ahead(phase)
  BY DEF Ahead, TimedPhases, Phases
<1>3. ASSUME UNCHANGED roundVars,
             \/ memo' = [memo EXCEPT ![phase] = roundId]
             \/ memo' = [memo EXCEPT !["Idle"] = None]
      PROVE  MemoIsPast'
  <2>1. \A p \in Phases : memo'[p] \in {memo[p], roundId, 0}
    BY <1>1, <1>3
  <2>2. \A p \in Phases : memo'[p] <= roundId
    BY <1>1, <2>1 DEF MemoIsPast
  <2>3. \A p \in Ahead(phase) : memo'[p] = memo[p]
    BY <1>1, <1>2, <1>3
  <2>4. UNCHANGED <<phase, roundId>>
    BY <1>3 DEF roundVars
  <2> QED
    BY <2>2, <2>3, <2>4 DEF MemoIsPast, Ahead
<1>4. ASSUME \A p \in Phases : memo'[p] \in {memo[p], 0}
      PROVE  MemoIsPast'
  <2>1. Ahead(phase') \subseteq Phases
    BY DEF Ahead, TimedPhases
  <2>2. roundId' = roundId => Ahead(phase') \subseteq Ahead(phase)
    BY <1>1, PhaseSteps DEF TypesInv, Ahead, TimedPhases, Phases
  <2>3. roundId' \in {roundId, roundId + 1}
    BY PhaseSteps DEF TypesInv
  <2>4. \A p \in Phases : memo'[p] <= roundId
    BY <1>1, <1>4 DEF MemoIsPast
  <2>5. \A p \in Ahead(phase') : memo'[p] # roundId'
    BY <1>1, <1>2, <1>4, <2>1, <2>2, <2>3, <2>4 DEF MemoIsPast
  <2>6. \A p \in Phases : memo'[p] <= roundId'
    BY <1>1, <1>4, <2>3 DEF MemoIsPast
  <2> QED
    BY <2>5, <2>6 DEF MemoIsPast, Ahead
<1> QED
  BY <1>1, <1>3, <1>4, MemoSteps

\* An Idle round is touched only by the end of the key generation or a restart,
\* and nobody pauses the re-armer meanwhile.
LEMMA IdleSteps ==
    ASSUME phase = "Idle", [Next]_vars
    PROVE  \/ UNCHANGED <<phase, roundId>> /\ (paused' => paused)
           \/ MonitorInstall
           \/ Crash
<1> USE DEF roundVars, blameVars
<1>1. CASE UNCHANGED vars
  BY <1>1 DEF vars
<1>2. CASE Requests
  BY <1>2 DEF Requests, InputValidate, InputCommit, InputFails, PostOutput,
     PostSign, RegisterInput, RecordOutput, RecordSignature
<1>3. CASE Monitor
  BY <1>3 DEF Monitor, MonitorStart, KeygenFails, ArmTimer
<1>4. ASSUME NEW r \in Rounds, TimerFires(r)
      PROVE  UNCHANGED <<phase, roundId>> /\ (paused' => paused)
  BY <1>4 DEF TimerFires, StaleTimer, InputRegTimer, OutputRegTimer, SigningTimer,
     WatchdogTimer, IsCurrent
<1>5. ASSUME NEW r \in Rounds, Finalize(r)
      PROVE  UNCHANGED <<phase, roundId>> /\ (paused' => paused)
  BY <1>5 DEF Finalize, TestAccepted, TestRefused, SendAccepted, SendRefused,
     Revalidate, FinalizeSuccess, FinalizeFailure, IsCurrent, TaskOnly
<1>6. CASE Environment
  BY <1>6 DEF Environment, PauseLapses, BanExpires, OwnerSpends, TaskDies
<1> QED
  BY <1>1, <1>2, <1>3, <1>4, <1>5, <1>6 DEF Next

LEMMA KeygenStaysCurrent ==
    ASSUME KeygenIsCurrent, [Next]_vars
    PROVE  KeygenIsCurrent'
<1>1. CASE keygen' = None
  BY <1>1 DEF KeygenIsCurrent
<1>2. CASE MonitorStart
  BY <1>2 DEF MonitorStart, KeygenIsCurrent, roundVars, blameVars
<1>3. CASE keygen' = keygen /\ keygen # None
  <2>1. ~MonitorInstall /\ ~Crash
    BY <1>3 DEF MonitorInstall, Crash
  <2> QED
    BY <1>3, <2>1, IdleSteps DEF KeygenIsCurrent
<1>4. UNCHANGED keygen \/ keygen' = None \/ MonitorStart
  <2>1. CASE UNCHANGED vars
    BY <2>1 DEF vars, monitorVars
  <2>2. CASE Requests
    BY <2>2 DEF Requests, InputValidate, InputCommit, InputFails, PostOutput,
       PostSign, monitorVars
  <2>3. CASE Monitor
    BY <2>3 DEF Monitor, MonitorInstall, KeygenFails, ArmTimer
  <2>4. ASSUME NEW r \in Rounds, TimerFires(r)
        PROVE  UNCHANGED keygen
    BY <2>4 DEF TimerFires, StaleTimer, InputRegTimer, OutputRegTimer, SigningTimer,
       WatchdogTimer, Fires
  <2>5. ASSUME NEW r \in Rounds, Finalize(r)
        PROVE  UNCHANGED keygen
    BY <2>5 DEF Finalize, TestAccepted, TestRefused, SendAccepted, SendRefused,
       Revalidate, FinalizeSuccess, FinalizeFailure, TaskStep, TaskReturns, monitorVars
  <2>6. CASE Environment
    BY <2>6 DEF Environment, PauseLapses, BanExpires, OwnerSpends, TaskDies, Crash,
       TaskReturns, monitorVars
  <2> QED
    BY <2>1, <2>2, <2>3, <2>4, <2>5, <2>6 DEF Next
<1> QED
  BY <1>1, <1>2, <1>3, <1>4

\* When the round has changed, the monitor has not acted on it yet.
LEMMA NewRoundIsUnseen ==
    ASSUME TypesInv, MemoIsPast, [Next]_vars, roundId' = roundId + 1
    PROVE  \A p \in Phases : memo'[p] # roundId'
<1>1. /\ roundId \in Nat \ {0} /\ phase \in Phases /\ None = 0
      /\ memo \in [Phases -> 0..MaxRounds] /\ MaxRounds \in Nat
  BY RoundAssumption DEF TypesInv, RoundInv, TypeOK, MemoryInv, TasksTypeOK, None
<1>2. \A p \in Phases : memo'[p] \in {memo[p], 0}
  BY <1>1, MemoSteps DEF roundVars
<1> QED
  BY <1>1, <1>2 DEF MemoIsPast

LEMMA IdleStaysRevisited ==
    ASSUME TypesInv, MonitorInv, [Next]_vars
    PROVE  IdleIsRevisited'
<1>1. /\ roundId \in Nat \ {0} /\ phase \in Phases /\ None = 0 /\ "Idle" \in Phases
      /\ memo \in [Phases -> 0..MaxRounds]
  BY RoundAssumption DEF TypesInv, RoundInv, TypeOK, MemoryInv, TasksTypeOK, None,
     Phases
<1>2. CASE roundId' = roundId + 1
  BY <1>1, <1>2, NewRoundIsUnseen DEF MonitorInv, IdleIsRevisited
<1>3. CASE roundId' = roundId /\ phase' = "Idle"
  <2>1. phase = "Idle"
    BY <1>1, <1>3, PhaseSteps DEF TypesInv, Ahead, TimedPhases
  <2>2. ~MonitorInstall
    BY <1>3, <2>1 DEF MonitorInstall, IsCurrent, InstallRound, MonitorInv,
       KeygenIsCurrent
  <2>3. CASE UNCHANGED <<keygen, memo>>
    BY <1>3, <2>1, <2>3 DEF MonitorInv, IdleIsRevisited
  <2>4. CASE MonitorStart
    BY <1>3, <2>4 DEF MonitorStart, IdleIsRevisited
  <2>5. CASE KeygenFails
    BY <1>1, <1>3, <2>5 DEF KeygenFails, IdleIsRevisited
  <2>6. CASE Crash
    BY <1>1, <1>3, <2>6 DEF Crash, IdleIsRevisited
  <2>7. CASE UNCHANGED vars
    BY <2>3, <2>7 DEF vars, monitorVars
  <2>8. CASE Requests
    BY <2>3, <2>8 DEF Requests, InputValidate, InputCommit, InputFails, PostOutput,
       PostSign, monitorVars
  <2>9. \A p \in TimedPhases : ~ArmTimer(p)
    BY <2>1 DEF ArmTimer, TimedPhases
  <2>10. ASSUME NEW r \in Rounds, TimerFires(r)
         PROVE  UNCHANGED <<keygen, memo>>
    BY <2>10 DEF TimerFires, StaleTimer, InputRegTimer, OutputRegTimer, SigningTimer,
       WatchdogTimer, Fires
  <2>11. ASSUME NEW r \in Rounds, Finalize(r)
         PROVE  UNCHANGED <<keygen, memo>>
    BY <2>11 DEF Finalize, TestAccepted, TestRefused, SendAccepted, SendRefused,
       Revalidate, FinalizeSuccess, FinalizeFailure, TaskStep, TaskReturns, monitorVars
  <2>12. Environment => UNCHANGED <<keygen, memo>> \/ Crash
    BY DEF Environment, PauseLapses, BanExpires, OwnerSpends, TaskDies, TaskReturns,
       monitorVars
  <2> QED
    BY <2>2, <2>3, <2>4, <2>5, <2>6, <2>7, <2>8, <2>9, <2>10, <2>11, <2>12
       DEF Next, Monitor
<1> QED
  BY <1>2, <1>3, PhaseSteps DEF TypesInv, IdleIsRevisited

\* While the round stays in its phase, its timer stays armed: a timer that fires
\* on the round and phase it was armed for ends that phase.
LEMMA TimerStays ==
    ASSUME phase \in TimedPhases, UNCHANGED <<phase, roundId>>, [Next]_vars
    PROVE  timers \subseteq timers' \cup {t \in timers : t # <<phase, roundId>>}
<1>1. ASSUME timers \subseteq timers'
      PROVE  timers \subseteq timers' \cup {t \in timers : t # <<phase, roundId>>}
  BY <1>1
<1>2. CASE UNCHANGED vars
  BY <1>1, <1>2 DEF vars, monitorVars
<1>3. CASE Requests
  BY <1>1, <1>3 DEF Requests, InputValidate, InputCommit, InputFails, PostOutput,
     PostSign, monitorVars
<1>4. CASE Monitor
  BY <1>1, <1>4 DEF Monitor, MonitorStart, MonitorInstall, KeygenFails, ArmTimer
<1>5. ASSUME NEW r \in Rounds, TimerFires(r)
      PROVE  timers \subseteq timers' \cup {t \in timers : t # <<phase, roundId>>}
  <2>1. \A p \in TimedPhases : StaleTimer(p, r) =>
           timers \subseteq timers' \cup {t \in timers : t # <<phase, roundId>>}
    BY DEF StaleTimer, Fires, IsCurrent
  <2>2. ~InputRegTimer(r)
    BY DEF InputRegTimer, InputRegTimeout, Advance, EndRound, Reset
  <2>3. ~OutputRegTimer(r)
    BY DEF OutputRegTimer, OutputRegTimeout, Advance, EndRoundViaBlame, Reset
  <2>4. ~SigningTimer(r)
    BY DEF SigningTimer, SigningTimeout, EndRoundViaBlame, Reset
  <2>5. ~WatchdogTimer(r)
    BY DEF WatchdogTimer, EndRound, Reset, IsCurrent
  <2> QED
    BY <1>5, <2>1, <2>2, <2>3, <2>4, <2>5 DEF TimerFires
<1>6. ASSUME NEW r \in Rounds, Finalize(r)
      PROVE  UNCHANGED timers
  BY <1>6 DEF Finalize, TestAccepted, TestRefused, SendAccepted, SendRefused,
     Revalidate, FinalizeSuccess, FinalizeFailure, TaskStep, TaskReturns, monitorVars
<1>7. CASE Environment
  <2>1. ~Crash
    BY DEF Crash, Restart, Reset, TimedPhases
  <2> QED
    BY <1>1, <1>7, <2>1 DEF Environment, PauseLapses, BanExpires, OwnerSpends,
       TaskDies, TaskReturns, monitorVars
<1> QED
  BY <1>1, <1>2, <1>3, <1>4, <1>5, <1>6, <1>7 DEF Next

LEMMA PhasesStayAttended ==
    ASSUME TypesInv, MonitorInv, [Next]_vars
    PROVE  NoPhaseUnattended'
<1>1. /\ roundId \in Nat \ {0} /\ phase \in Phases /\ None = 0
      /\ memo \in [Phases -> 0..MaxRounds] /\ TimedPhases \subseteq Phases
  BY RoundAssumption DEF TypesInv, RoundInv, TypeOK, MemoryInv, TasksTypeOK, None,
     TimedPhases
<1>2. KeygenIsCurrent' /\ MemoIsPast'
  BY KeygenStaysCurrent, MemoStaysPast DEF MonitorInv
<1>3. CASE roundId' = roundId + 1 /\ phase' = "Idle"
  BY <1>3 DEF NoPhaseUnattended, TimedPhases
<1>4. CASE roundId' = roundId /\ phase' \in Ahead(phase)
  <2>1. phase' \in TimedPhases
    BY <1>4 DEF Ahead
  <2>2. memo[phase'] # roundId
    BY <1>4 DEF MonitorInv, MemoIsPast
  <2>3. phase' # phase /\ "Idle" # phase'
    BY <2>1, <1>4 DEF Ahead, TimedPhases
  <2>4. memo'[phase'] \in {memo[phase'], 0}
    BY <1>1, <2>1, <2>3, MemoSteps DEF roundVars
  <2>5. keygen' = None
    BY <1>2, <2>3 DEF KeygenIsCurrent
  <2> QED
    BY <1>1, <1>4, <2>2, <2>4, <2>5 DEF NoPhaseUnattended
<1>5. CASE UNCHANGED <<phase, roundId>> /\ phase \in TimedPhases
  <2>1. keygen' = None
    BY <1>2, <1>5 DEF KeygenIsCurrent, TimedPhases
  <2>2. CASE <<phase, roundId>> \in timers
    BY <1>5, <2>2, TimerStays DEF NoPhaseUnattended
  <2>3. CASE memo[phase] # roundId
    <3>1. CASE ArmTimer(phase)
      BY <1>5, <3>1 DEF ArmTimer, NoPhaseUnattended
    <3>2. CASE memo'[phase] # roundId
      BY <1>5, <2>1, <3>2 DEF NoPhaseUnattended
    <3>3. ArmTimer(phase) \/ memo'[phase] # roundId
      <4>1. CASE UNCHANGED memo
        BY <2>3, <4>1
      <4>2. CASE Monitor
        BY <1>1, <1>5, <2>3, <4>2 DEF Monitor, MonitorStart, MonitorInstall,
           KeygenFails, ArmTimer, TimedPhases
      <4>3. CASE Crash
        BY <1>1, <4>3 DEF Crash
      <4>4. Requests \/ UNCHANGED vars => UNCHANGED memo
        BY DEF Requests, InputValidate, InputCommit, InputFails, PostOutput,
           PostSign, vars, monitorVars
      <4>5. ASSUME NEW r \in Rounds, TimerFires(r)
            PROVE  UNCHANGED memo
        BY <4>5 DEF TimerFires, StaleTimer, InputRegTimer, OutputRegTimer, SigningTimer,
           WatchdogTimer, Fires
      <4>6. ASSUME NEW r \in Rounds, Finalize(r)
            PROVE  UNCHANGED memo
        BY <4>6 DEF Finalize, TestAccepted, TestRefused, SendAccepted, SendRefused,
           Revalidate, FinalizeSuccess, FinalizeFailure, TaskStep, TaskReturns,
           monitorVars
      <4>7. Environment => UNCHANGED memo \/ Crash
        BY DEF Environment, PauseLapses, BanExpires, OwnerSpends, TaskDies,
           TaskReturns, monitorVars
      <4> QED
        BY <4>1, <4>2, <4>3, <4>4, <4>5, <4>6, <4>7 DEF Next
    <3> QED
      BY <3>1, <3>2, <3>3
  <2> QED
    BY <1>5, <2>2, <2>3 DEF MonitorInv, NoPhaseUnattended
<1>6. CASE UNCHANGED <<phase, roundId>> /\ phase = "Idle"
  BY <1>6 DEF NoPhaseUnattended, TimedPhases
<1> QED
  BY <1>1, <1>3, <1>4, <1>5, <1>6, PhaseSteps DEF TypesInv, TimedPhases

LEMMA MonitorInvariant == Spec => [](TypesInv /\ MonitorInv)
<1>1. ASSUME Init
      PROVE  MonitorInv
  <2>1. /\ phase = "Idle" /\ roundId = 1 /\ keygen = None /\ None = 0
        /\ memo = [p \in Phases |-> None]
    BY <1>1 DEF Init, RoundInit, None
  <2>2. \A p \in Phases : memo[p] = 0
    BY <2>1
  <2>3. "Idle" \in Phases /\ Ahead(phase) \subseteq Phases
    BY DEF Ahead, TimedPhases, Phases
  <2>4. phase \notin TimedPhases
    BY <2>1 DEF TimedPhases
  <2> QED
    BY <2>1, <2>2, <2>3, <2>4 DEF MonitorInv, KeygenIsCurrent, MemoIsPast,
       NoPhaseUnattended, IdleIsRevisited
<1>2. TypesInv /\ MonitorInv /\ [Next]_vars => MonitorInv'
  BY KeygenStaysCurrent, MemoStaysPast, PhasesStayAttended, IdleStaysRevisited
     DEF MonitorInv
<1> QED
  BY <1>1, <1>2, TypesInvariant, PTL DEF Spec

\* No phase is left without something that will end it: its timer is armed, or the
\* monitor has yet to arm one for this round, and is not busy.
THEOREM PhasesAreAttended == Spec => []NoPhaseUnattended
<1>1. MonitorInv => NoPhaseUnattended
  BY DEF MonitorInv
<1> QED
  BY <1>1, MonitorInvariant, PTL

\* An Idle round is never forgotten: its material is being generated, or the monitor
\* will look at it again, whatever failed or was paused before.
THEOREM IdleIsNotForgotten == Spec => []IdleIsRevisited
<1>1. MonitorInv => IdleIsRevisited
  BY DEF MonitorInv
<1> QED
  BY <1>1, MonitorInvariant, PTL

\* No round opens for registration during a pause, although the pause is read before
\* the key generation that is awaited.
THEOREM PauseIsHonoured == Spec => NoRoundWhilePaused
<1>1. ASSUME TypesInv, MonitorInv, [Next]_vars, phase = "Idle", phase' = "InputReg"
      PROVE  ~paused
  <2>1. ~UNCHANGED <<phase, roundId>> /\ ~Crash
    BY <1>1 DEF Crash, Restart, Reset
  <2>2. MonitorInstall
    BY <1>1, <2>1, IdleSteps
  <2> QED
    BY <1>1, <2>2 DEF MonitorInstall, MonitorInv, KeygenIsCurrent
<1>2. TypesInv /\ MonitorInv /\ [Next]_vars
      => [phase = "Idle" /\ phase' = "InputReg" => ~paused]_vars
  BY <1>1
<1> QED
  BY <1>2, MonitorInvariant, PTL DEF Spec, NoRoundWhilePaused

=============================================================================
