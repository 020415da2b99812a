------------------------------ MODULE TaskProofs ------------------------------
(***************************************************************************)
(* The finalize tasks and timers: what each remembers is of the round it     *)
(* works for, so no round is ended or blamed by another round's timer or     *)
(* task, and the coordinator implements CoinJoin.                            *)
(***************************************************************************)
EXTENDS CoordinatorProofs

-----------------------------------------------------------------------------
(* The finalize tasks.                                                     *)

\* A finalize task works for a round that is over, or for the one in Broadcast.
TasksArePast ==
    \A r \in Rounds : task[r].pc # "none" =>
        r < roundId \/ (r = roundId /\ phase = "Broadcast")

\* What a task has found spent is spent.
SpentIsSpent ==
    \A r \in Rounds, u \in Utxos : u \in task[r].spent => spentBy[u] # "nobody"

TaskInv == TasksArePast /\ SpentIsSpent /\ TaskMatchesRound

\* What the steps of a task keep of it.
LEMMA RevalidatedKeeps ==
    ASSUME NEW t \in TaskRecords, NEW u \in Utxos, NEW answered \in BOOLEAN,
           u \in t.todo
    PROVE  /\ Revalidated(t, u, answered).pc = t.pc
           /\ Revalidated(t, u, answered).todo \subseteq t.todo
           /\ Revalidated(t, u, answered).spent \subseteq t.spent \cup {u}
           /\ u \in Revalidated(t, u, answered).spent
              => u \in t.spent \/ spentBy[u] # "nobody"
BY DEF TaskRecords, Revalidated

\* A task is spawned, drops a coin while it re-validates, moves on with its coins, or
\* ends.
LEMMA TaskSteps ==
    ASSUME RoundInv, TasksTypeOK, [Next]_vars
    PROVE  \/ UNCHANGED task
           \/ /\ phase = "Signing" /\ phase' = "Broadcast"
              /\ UNCHANGED <<roundId, registered>>
              /\ task' = [task EXCEPT ![roundId] = NewTask(Inputs)]
           \/ /\ UNCHANGED roundVars
              /\ \E r \in Rounds, to \in {"send", "won", "revalidate"} :
                    /\ task[r].pc \in {"test", "send"}
                    /\ to = "send" => task[r].pc = "test"
                    /\ task' = [task EXCEPT ![r].pc = to]
           \/ /\ UNCHANGED roundVars
              /\ \E r \in Rounds, u \in Utxos, answered \in BOOLEAN :
                    Revalidate(r, u, answered)
           \/ \E r \in Rounds : /\ task' = [task EXCEPT ![r] = NoTask]
                                /\ UNCHANGED roundVars \/ phase' = "Idle"
           \/ task' = [r \in Rounds |-> NoTask] /\ phase' = "Idle"
<1>1. CASE UNCHANGED vars
  BY <1>1 DEF vars
<1>2. CASE Requests
  <2>1. ASSUME NEW u \in Utxos, NEW assembled \in BOOLEAN, PostSign(u, assembled),
               phase' = "Broadcast"
        PROVE  /\ phase = "Signing" /\ phase' = "Broadcast"
               /\ UNCHANGED <<roundId, registered>>
               /\ task' = [task EXCEPT ![roundId] = NewTask(Inputs)]
    BY <2>1 DEF PostSign, RecordSignature
  <2> QED
    BY <1>2, <2>1 DEF Requests, InputValidate, InputCommit, InputFails, PostOutput,
       PostSign
<1>3. CASE Monitor
  BY <1>3 DEF Monitor, MonitorStart, MonitorInstall, KeygenFails, ArmTimer
<1>4. ASSUME NEW r \in Rounds, TimerFires(r)
      PROVE  UNCHANGED task
  BY <1>4 DEF TimerFires, StaleTimer, InputRegTimer, OutputRegTimer, SigningTimer,
     WatchdogTimer, Fires
<1>5. ASSUME NEW r \in Rounds, TestAccepted(r) \/ TestRefused(r) \/ SendRefused(r)
      PROVE  /\ UNCHANGED roundVars
             /\ \E to \in {"send", "won", "revalidate"} :
                    /\ task[r].pc \in {"test", "send"}
                    /\ to = "send" => task[r].pc = "test"
                    /\ task' = [task EXCEPT ![r].pc = to]
  BY <1>5 DEF TestAccepted, TestRefused, SendRefused, TaskStep, TaskOnly
<1>6. ASSUME NEW r \in Rounds, NEW replied \in BOOLEAN, SendAccepted(r, replied)
      PROVE  /\ UNCHANGED roundVars
             /\ \E to \in {"send", "won", "revalidate"} :
                    /\ task[r].pc \in {"test", "send"}
                    /\ to = "send" => task[r].pc = "test"
                    /\ task' = [task EXCEPT ![r].pc = to]
  BY <1>6 DEF SendAccepted, TaskStep
<1>7. ASSUME NEW r \in Rounds, NEW u \in Utxos, NEW answered \in BOOLEAN,
             Revalidate(r, u, answered)
      PROVE  UNCHANGED roundVars
  BY <1>7 DEF Revalidate
<1>8. ASSUME NEW r \in Rounds, FinalizeSuccess(r) \/ FinalizeFailure(r) \/ TaskDies(r)
      PROVE  /\ task' = [task EXCEPT ![r] = NoTask]
             /\ UNCHANGED roundVars \/ phase' = "Idle"
  BY <1>8 DEF FinalizeSuccess, FinalizeFailure, TaskDies, TaskReturns, EndRound,
     EndRoundViaBlame, Reset
<1>9. CASE Environment
  <2>1. Crash => task' = [r \in Rounds |-> NoTask] /\ phase' = "Idle"
    BY DEF Crash, Restart, Reset
  <2> QED
    BY <1>8, <1>9, <2>1 DEF Environment, PauseLapses, BanExpires, OwnerSpends
<1>10. ASSUME NEW r \in Rounds, Finalize(r)
       PROVE  \/ TestAccepted(r) \/ TestRefused(r) \/ SendRefused(r)
              \/ \E replied \in BOOLEAN : SendAccepted(r, replied)
              \/ \E u \in Utxos, answered \in BOOLEAN : Revalidate(r, u, answered)
              \/ FinalizeSuccess(r) \/ FinalizeFailure(r)
  BY <1>10 DEF Finalize
<1> QED
  BY <1>1, <1>2, <1>3, <1>4, <1>5, <1>6, <1>7, <1>8, <1>9, <1>10 DEF Next

\* A spent coin stays spent.
LEMMA SpentStays ==
    ASSUME BlameTypeOK, [Next]_vars
    PROVE  \A u \in Utxos : spentBy[u] # "nobody" => spentBy'[u] # "nobody"
<1>1. CASE UNCHANGED spentBy
  BY <1>1
<1>2. ASSUME NEW r \in Rounds, NEW replied \in BOOLEAN, SendAccepted(r, replied)
      PROVE  \A u \in Utxos : spentBy[u] # "nobody" => spentBy'[u] # "nobody"
  BY <1>2 DEF SendAccepted
<1>3. ASSUME NEW v \in Utxos, OwnerSpends(v)
      PROVE  \A u \in Utxos : spentBy[u] # "nobody" => spentBy'[u] # "nobody"
  BY <1>3 DEF OwnerSpends, BlameTypeOK
<1>4. Requests \/ Monitor \/ UNCHANGED vars => UNCHANGED spentBy
  BY DEF Requests, InputValidate, InputCommit, InputFails, PostOutput, PostSign,
     Monitor, MonitorStart, MonitorInstall, KeygenFails, ArmTimer, vars
<1>5. ASSUME NEW r \in Rounds, TimerFires(r)
      PROVE  UNCHANGED spentBy
  BY <1>5 DEF TimerFires, StaleTimer, InputRegTimer, OutputRegTimer, SigningTimer,
     WatchdogTimer, Fires
<1>6. ASSUME NEW r \in Rounds, Finalize(r)
      PROVE  UNCHANGED spentBy \/ \E replied \in BOOLEAN : SendAccepted(r, replied)
  BY <1>6 DEF Finalize, TestAccepted, TestRefused, SendRefused, Revalidate,
     FinalizeSuccess, FinalizeFailure, TaskReturns, TaskOnly
<1>7. Environment => UNCHANGED spentBy \/ \E u \in Utxos : OwnerSpends(u)
  BY DEF Environment, PauseLapses, BanExpires, TaskDies, TaskReturns, Crash
<1> QED
  BY <1>1, <1>2, <1>3, <1>4, <1>5, <1>6, <1>7 DEF Next

\* Who is in a round does not change while it is in Broadcast.
LEMMA BroadcastIsFrozen ==
    ASSUME RoundInv, MemoryInv, [Next]_vars, phase = "Broadcast", phase' = "Broadcast"
    PROVE  UNCHANGED Inputs
<1>1. UNCHANGED registered
  BY StepImplements DEF RoundNext, roundVars, InstallRound, RegisterInput,
     InputRegTimeout, RecordOutput, OutputRegTimeout, RecordSignature, SigningTimeout,
     BroadcastEnds, Restart, EndRound, EndRoundViaBlame, Reset
<1> QED
  BY <1>1 DEF Inputs

\* A task that starts in a step starts for the round in Broadcast.
LEMMA TasksStart ==
    ASSUME TypesInv, [Next]_vars,
           NEW r \in Rounds, task'[r].pc # "none", task[r].pc = "none"
    PROVE  r = roundId' /\ phase' = "Broadcast"
<1>1. task \in [Rounds -> TaskRecords] /\ task[r] \in TaskRecords
  BY DEF TypesInv, TasksTypeOK
<1>2. NoTask.pc = "none"
  BY DEF NoTask
<1>3. task' # task
  OBVIOUS
<1>4. ASSUME NEW q \in Rounds, NEW to, task[q].pc # "none", task' = [task EXCEPT ![q].pc = to]
      PROVE  FALSE
  BY <1>1, <1>4
<1>5. ASSUME NEW q \in Rounds, NEW u \in Utxos, NEW answered \in BOOLEAN,
             Revalidate(q, u, answered)
      PROVE  FALSE
  BY <1>1, <1>5 DEF Revalidate
<1>6. ASSUME NEW q \in Rounds, task' = [task EXCEPT ![q] = NoTask]
      PROVE  FALSE
  BY <1>1, <1>2, <1>6
<1>7. task' # [q \in Rounds |-> NoTask]
  BY <1>2
<1>8. CASE /\ phase = "Signing" /\ phase' = "Broadcast"
           /\ UNCHANGED <<roundId, registered>>
           /\ task' = [task EXCEPT ![roundId] = NewTask(Inputs)]
  BY <1>1, <1>8
<1> QED
  BY <1>3, <1>4, <1>5, <1>6, <1>7, <1>8, TaskSteps DEF TypesInv

LEMMA TasksStayPast ==
    ASSUME TypesInv, TasksArePast, [Next]_vars
    PROVE  TasksArePast'
<1> SUFFICES ASSUME NEW r \in Rounds, task'[r].pc # "none"
             PROVE  r < roundId' \/ (r = roundId' /\ phase' = "Broadcast")
  BY DEF TasksArePast
<1>1. roundId \in Nat /\ Rounds \subseteq Nat
  BY RoundAssumption DEF TypesInv, MemoryInv, Rounds
<1>2. CASE task[r].pc = "none"
  BY <1>2, TasksStart
<1>3. CASE task[r].pc # "none"
  <2>1. r < roundId \/ (r = roundId /\ phase = "Broadcast")
    BY <1>3 DEF TasksArePast
  <2>2. phase = "Broadcast" => Ahead(phase) = {}
    BY DEF Ahead, TimedPhases
  <2> QED
    BY <1>1, <2>1, <2>2, PhaseSteps DEF TypesInv
<1> QED
  BY <1>2, <1>3

LEMMA SpentStaysSpent ==
    ASSUME TypesInv, SpentIsSpent, [Next]_vars
    PROVE  SpentIsSpent'
<1> SUFFICES ASSUME NEW r \in Rounds, NEW v \in Utxos, v \in task'[r].spent
             PROVE  spentBy'[v] # "nobody"
  BY DEF SpentIsSpent
<1> USE DEF TypesInv
<1>1. task \in [Rounds -> TaskRecords] /\ \A q \in Rounds : task[q] \in TaskRecords
  BY DEF TasksTypeOK
<1>2. NoTask.spent = {} /\ NewTask(Inputs).spent = {}
  BY DEF NoTask, NewTask
<1>3. CASE v \in task[r].spent
  BY <1>3, SpentStays DEF SpentIsSpent
<1>4. ASSUME NEW q \in Rounds, NEW to, task' = [task EXCEPT ![q].pc = to]
      PROVE  v \in task[r].spent
  BY <1>1, <1>4
<1>5. ASSUME NEW q \in Rounds, NEW u \in Utxos, NEW answered \in BOOLEAN,
             Revalidate(q, u, answered)
      PROVE  v \in task[r].spent \/ spentBy'[v] # "nobody"
  <2>1. CASE q = r
    <3>1. task'[r] = Revalidated(task[r], u, answered) /\ u \in task[r].todo
          /\ UNCHANGED spentBy
      BY <1>1, <1>5, <2>1 DEF Revalidate
    <3> QED
      BY <1>1, <3>1, RevalidatedKeeps
  <2>2. CASE q # r
    BY <1>1, <1>5, <2>2 DEF Revalidate
  <2> QED
    BY <2>1, <2>2
<1>6. ASSUME NEW q \in Rounds, task' = [task EXCEPT ![q] = NoTask]
      PROVE  v \in task[r].spent
  BY <1>1, <1>2, <1>6
<1>7. task' # [q \in Rounds |-> NoTask]
  BY <1>2
<1>8. task' = [task EXCEPT ![roundId] = NewTask(Inputs)] => v \in task[r].spent
  BY <1>1, <1>2
<1>9. UNCHANGED task => v \in task[r].spent
  OBVIOUS
<1> QED
  BY <1>3, <1>4, <1>5, <1>6, <1>7, <1>8, <1>9, TaskSteps

LEMMA TasksStayMatched ==
    ASSUME TypesInv, TaskInv, [Next]_vars
    PROVE  TaskMatchesRound'
<1> SUFFICES ASSUME phase' = "Broadcast", task'[roundId'].pc # "none"
             PROVE  /\ task'[roundId'].todo \cup task'[roundId'].spent \subseteq Inputs'
                    /\ task'[roundId'].pc \in {"test", "send", "won"}
                       => task'[roundId'].todo = Inputs'
  BY DEF TaskMatchesRound
<1> USE DEF TypesInv
<1>1. task \in [Rounds -> TaskRecords] /\ \A q \in Rounds : task[q] \in TaskRecords
  BY DEF TasksTypeOK
<1>2. UNCHANGED roundId
  BY PhaseSteps
<1>3. roundId \in Rounds
  <2>1. RoundInv'
    BY StepImplements, NextKeepsInv
  <2> QED
    BY <1>2, <2>1, RoundAssumption DEF RoundInv, TypeOK, OpenRoundInBound, Rounds
<1> DEFINE t == task[roundId]
<1>4. t.pc # "none" => phase = "Broadcast" /\ UNCHANGED Inputs
  BY <1>3, BroadcastIsFrozen, RoundAssumption DEF TaskInv, TasksArePast, MemoryInv
<1>5. t.pc # "none" => /\ t.todo \cup t.spent \subseteq Inputs
                       /\ t.pc \in {"test", "send", "won"} => t.todo = Inputs
  BY <1>4 DEF TaskInv, TaskMatchesRound
<1>6. NoTask.pc = "none"
  BY DEF NoTask
<1>7. CASE UNCHANGED task
  BY <1>2, <1>4, <1>5, <1>7
<1>8. CASE /\ UNCHANGED registered
           /\ task' = [task EXCEPT ![roundId] = NewTask(Inputs)]
  <2>1. task'[roundId'] = NewTask(Inputs) /\ UNCHANGED Inputs
    BY <1>1, <1>2, <1>3, <1>8 DEF Inputs
  <2> QED
    BY <2>1 DEF NewTask
<1>9. ASSUME NEW r \in Rounds, NEW to \in {"send", "won", "revalidate"},
             task[r].pc \in {"test", "send"}, task' = [task EXCEPT ![r].pc = to]
      PROVE  /\ task'[roundId'].todo \cup task'[roundId'].spent \subseteq Inputs'
             /\ task'[roundId'].pc \in {"test", "send", "won"}
                => task'[roundId'].todo = Inputs'
  <2>1. CASE r = roundId
    <3>1. t.pc \in {"test", "send"} /\ task'[roundId'].todo = t.todo
          /\ task'[roundId'].spent = t.spent
      BY <1>1, <1>2, <1>3, <1>9, <2>1
    <3> QED
      BY <1>4, <1>5, <3>1
  <2>2. CASE r # roundId
    <3>1. task'[roundId'] = t
      BY <1>1, <1>2, <1>3, <1>9, <2>2
    <3> QED
      BY <1>4, <1>5, <3>1
  <2> QED
    BY <2>1, <2>2
<1>10. ASSUME NEW r \in Rounds, NEW u \in Utxos, NEW answered \in BOOLEAN,
              Revalidate(r, u, answered)
       PROVE  /\ task'[roundId'].todo \cup task'[roundId'].spent \subseteq Inputs'
              /\ task'[roundId'].pc \in {"test", "send", "won"}
                 => task'[roundId'].todo = Inputs'
  <2>1. CASE r = roundId
    <3>1. t.pc = "revalidate" /\ u \in t.todo
          /\ task'[roundId'] = Revalidated(t, u, answered)
      BY <1>1, <1>2, <1>3, <1>10, <2>1 DEF Revalidate
    <3>2. t \in TaskRecords
      BY <1>1, <1>3
    <3> QED
      BY <1>4, <1>5, <3>1, <3>2, RevalidatedKeeps
  <2>2. CASE r # roundId
    <3>1. task'[roundId'] = t
      BY <1>1, <1>2, <1>3, <1>10, <2>2 DEF Revalidate
    <3> QED
      BY <1>4, <1>5, <3>1
  <2> QED
    BY <2>1, <2>2
<1>11. ASSUME NEW r \in Rounds, task' = [task EXCEPT ![r] = NoTask]
       PROVE  /\ task'[roundId'].todo \cup task'[roundId'].spent \subseteq Inputs'
              /\ task'[roundId'].pc \in {"test", "send", "won"}
                 => task'[roundId'].todo = Inputs'
  <2>1. r # roundId
    BY <1>1, <1>2, <1>3, <1>6, <1>11
  <2>2. task'[roundId'] = t
    BY <1>1, <1>2, <1>3, <1>11, <2>1
  <2> QED
    BY <1>4, <1>5, <2>2
<1> QED
  BY <1>7, <1>8, <1>9, <1>10, <1>11, TaskSteps

LEMMA TaskInvariant == Spec => [](TypesInv /\ TaskInv)
<1>1. ASSUME Init
      PROVE  TaskInv
  <2>1. task = [r \in Rounds |-> NoTask] /\ phase = "Idle"
    BY <1>1 DEF Init, RoundInit
  <2>2. NoTask.pc = "none" /\ NoTask.spent = {}
    BY DEF NoTask
  <2> QED
    BY <2>1, <2>2 DEF TaskInv, TasksArePast, SpentIsSpent, TaskMatchesRound
<1>2. TypesInv /\ TaskInv /\ [Next]_vars => TaskInv'
  BY TasksStayPast, SpentStaysSpent, TasksStayMatched DEF TaskInv
<1> QED
  BY <1>1, <1>2, TypesInvariant, PTL DEF Spec

\* While a round is in Broadcast its finalize task works on exactly the inputs that
\* the round holds.
THEOREM TasksMatchTheirRound == Spec => []TaskMatchesRound
<1>1. TaskInv => TaskMatchesRound
  BY DEF TaskInv
<1> QED
  BY <1>1, TaskInvariant, PTL

\* A ban is put on a coin of the round being blamed, and only when its owner withheld
\* the signature or the node reports the coin spent.
THEOREM BansHaveACause == Spec => BansAreAttributed
<1> DEFINE Attributed(u) == /\ u \in Inputs
                            /\ \/ phase = "Signing" /\ u \notin sigs
                               \/ phase = "Broadcast" /\ spentBy[u] # "nobody"
<1>1. ASSUME TypesInv, TaskInv, FileBansAreEnforced, [Next]_vars,
             NEW u \in banned' \ banned
      PROVE  Attributed(u)
  <2>1. banned' # banned
    OBVIOUS
  <2>2. ~UNCHANGED vars /\ ~Requests /\ ~Monitor
    BY <2>1 DEF vars, blameVars, Requests, InputValidate, InputCommit, InputFails,
       PostOutput, PostSign, Monitor, MonitorStart, MonitorInstall, KeygenFails,
       ArmTimer
  <2>3. ASSUME NEW r \in Rounds, TimerFires(r)
        PROVE  Attributed(u)
    <3>1. SigningTimer(r)
      BY <2>1, <2>3 DEF TimerFires, StaleTimer, InputRegTimer, OutputRegTimer,
         WatchdogTimer, blameVars
    <3> QED
      BY <1>1, <3>1 DEF SigningTimer, IsCurrent, Ban, NonSigners
  <2>4. ASSUME NEW r \in Rounds, Finalize(r)
        PROVE  Attributed(u)
    <3>1. FinalizeFailure(r)
      BY <2>1, <2>4 DEF Finalize, TestAccepted, TestRefused, SendAccepted,
         SendRefused, Revalidate, FinalizeSuccess, TaskOnly, blameVars
    <3>2. phase = "Broadcast" /\ r = roundId
      BY <2>1, <3>1 DEF FinalizeFailure, IsCurrent, blameVars
    <3>3. u \in task[r].spent
      BY <1>1, <3>1, <3>2 DEF FinalizeFailure, IsCurrent, Ban
    <3>4. u \in Inputs
      BY <1>1, <3>1, <3>2, <3>3 DEF FinalizeFailure, TaskInv, TaskMatchesRound
    <3>5. u \in Utxos
      BY <3>4, InputsAreUtxos
    <3> QED
      BY <1>1, <3>2, <3>3, <3>4, <3>5 DEF TaskInv, SpentIsSpent
  <2>5. ~Environment
    <3>1. ~Crash
      BY <1>1 DEF Crash, LoadBans, FileBansAreEnforced
    <3>2. \A v \in Utxos : ~BanExpires(v)
      BY <1>1 DEF BanExpires
    <3> QED
      BY <2>1, <3>1, <3>2 DEF Environment, PauseLapses, OwnerSpends, TaskDies, blameVars
  <2> QED
    BY <1>1, <2>2, <2>3, <2>4, <2>5 DEF Next
<1>2. TypesInv /\ TaskInv /\ FileBansAreEnforced /\ [Next]_vars
      => [\A u \in banned' \ banned : Attributed(u)]_vars
  BY <1>1
<1> QED
  BY <1>2, TaskInvariant, FileBansSurvive, PTL DEF Spec, BansAreAttributed

\* A round is ended by its own timer or its own finalize task, or by a restart.
THEOREM RoundsEndByTheirOwn == Spec => RoundsEndThemselves
<1> DEFINE Own ==
       \/ \E p \in TimedPhases : <<p, roundId>> \in timers \ timers'
       \/ /\ phase = "Broadcast"
          /\ task[roundId].pc # "none"
          /\ task'[roundId].pc = "none"
       \/ memo' = [p \in Phases |-> None]
<1>1. ASSUME TypesInv, [Next]_vars, roundId' # roundId
      PROVE  Own
  <2>1. ~UNCHANGED vars /\ ~Requests /\ ~Monitor
    BY <1>1 DEF vars, roundVars, Requests, InputValidate, InputCommit, InputFails,
       PostOutput, PostSign, RegisterInput, RecordOutput, RecordSignature, Monitor,
       MonitorStart, MonitorInstall, InstallRound, KeygenFails, ArmTimer
  <2>2. ASSUME NEW r \in Rounds, TimerFires(r)
        PROVE  Own
    <3>1. \A p \in TimedPhases : ~StaleTimer(p, r)
      BY <1>1 DEF StaleTimer, roundVars
    <3>2. ASSUME NEW p \in TimedPhases, Fires(p, r), r = roundId
          PROVE  Own
      BY <3>2 DEF Fires
    <3> QED
      BY <2>2, <3>1, <3>2, FaultsAndTimers DEF TimerFires, InputRegTimer, OutputRegTimer,
         SigningTimer, WatchdogTimer, IsCurrent
  <2>3. ASSUME NEW r \in Rounds, Finalize(r)
        PROVE  Own
    <3>1. FinalizeSuccess(r) \/ FinalizeFailure(r)
      BY <1>1, <2>3 DEF Finalize, TestAccepted, TestRefused, SendAccepted, SendRefused,
         Revalidate, TaskOnly, roundVars
    <3>2. phase = "Broadcast" /\ r = roundId
      BY <1>1, <3>1 DEF FinalizeSuccess, FinalizeFailure, IsCurrent, roundVars
    <3>3. task' = [task EXCEPT ![r] = NoTask] /\ task[r].pc # "none"
      BY <3>1 DEF FinalizeSuccess, FinalizeFailure, TaskReturns
    <3>4. task'[r].pc = "none"
      BY <1>1, <3>3 DEF NoTask, TypesInv, TasksTypeOK
    <3> QED
      BY <3>2, <3>3, <3>4
  <2>4. Environment => Own
    BY <1>1 DEF Environment, PauseLapses, BanExpires, OwnerSpends, TaskDies, Crash,
       roundVars
  <2> QED
    BY <1>1, <2>1, <2>2, <2>3, <2>4 DEF Next
<1>2. TypesInv /\ [Next]_vars => [roundId' # roundId => Own]_vars
  BY <1>1
<1> QED
  BY <1>2, TypesInvariant, PTL DEF Spec, RoundsEndThemselves

-----------------------------------------------------------------------------
(* The coordinator implements CoinJoin.                                    *)

\* A round that enters Broadcast is given its finalize task in the same step.
LEMMA BroadcastIsHandedOver ==
    ASSUME [Next]_vars, phase = "Signing", phase' = "Broadcast"
    PROVE  task' = [task EXCEPT ![roundId] = NewTask(Inputs)]
<1>1. ASSUME UNCHANGED phase \/ phase' = "Idle"
      PROVE  FALSE
  BY <1>1
<1>2. ~UNCHANGED vars /\ ~Monitor
  BY DEF vars, roundVars, Monitor, MonitorStart, MonitorInstall, IsCurrent,
     InstallRound, KeygenFails, ArmTimer
<1>3. ASSUME NEW r \in Rounds, TimerFires(r)
      PROVE  FALSE
  BY <1>3 DEF TimerFires, StaleTimer, InputRegTimer, OutputRegTimer, SigningTimer,
     WatchdogTimer, SigningTimeout, EndRoundViaBlame, Reset, IsCurrent, roundVars
<1>4. ASSUME NEW r \in Rounds, Finalize(r)
      PROVE  FALSE
  BY <1>4 DEF Finalize, TestAccepted, TestRefused, SendAccepted, SendRefused,
     Revalidate, FinalizeSuccess, FinalizeFailure, IsCurrent, TaskOnly, roundVars
<1>5. ~Environment
  BY DEF Environment, PauseLapses, BanExpires, OwnerSpends, TaskDies, Crash, Restart,
     Reset, roundVars
<1>6. Requests
  BY <1>2, <1>3, <1>4, <1>5 DEF Next
<1> QED
  BY <1>6 DEF Requests, InputValidate, InputCommit, InputFails, PostOutput, PostSign,
     RegisterInput, RecordOutput, roundVars

\* Only the signature that completes a round adds a transaction that may settle, and
\* one is given up by its task, or when a round ends.
LEMMA UnsettledSteps ==
    ASSUME TypesInv, TaskInv, [Next]_vars
    PROVE  \/ UNCHANGED Unsettled /\ ~(phase = "Signing" /\ phase' = "Broadcast")
           \/ /\ Unsettled' \subseteq Unsettled
              /\ UNCHANGED roundVars \/ phase' = "Idle"
           \/ /\ phase = "Signing" /\ phase' = "Broadcast"
              /\ Unsettled' = Unsettled \cup {Inputs}
<1> USE DEF TypesInv
<1> DEFINE Live == {"test", "send"}
<1>1. task \in [Rounds -> TaskRecords] /\ \A q \in Rounds : task[q] \in TaskRecords
  BY DEF TasksTypeOK
<1>2. NoTask.pc = "none" /\ NewTask(Inputs).pc = "test" /\ NewTask(Inputs).todo = Inputs
  BY DEF NoTask, NewTask
<1>3. ASSUME \A q \in Rounds : task'[q].pc \in Live =>
                 task[q].pc \in Live /\ task'[q].todo = task[q].todo
      PROVE  Unsettled' \subseteq Unsettled
  BY <1>3 DEF Unsettled
<1>4. CASE UNCHANGED task /\ ~(phase = "Signing" /\ phase' = "Broadcast")
  BY <1>4 DEF Unsettled
<1>5. CASE phase = "Signing" /\ phase' = "Broadcast"
  <2>1. roundId \in Rounds
    BY <1>5, OpenRoundsAreRounds
  <2>2. task[roundId].pc = "none"
    BY <1>5, <2>1, RoundAssumption DEF TaskInv, TasksArePast, MemoryInv
  <2>3. task'[roundId] = NewTask(Inputs) /\ \A q \in Rounds \ {roundId} : task'[q] = task[q]
    BY <1>1, <1>5, <2>1, BroadcastIsHandedOver
  <2>4. Unsettled' = Unsettled \cup {Inputs}
    BY <1>2, <2>1, <2>2, <2>3 DEF Unsettled
  <2> QED
    BY <1>5, <2>4
<1>6. ASSUME NEW r \in Rounds, NEW to \in {"send", "won", "revalidate"},
             task[r].pc \in Live, task' = [task EXCEPT ![r].pc = to]
      PROVE  Unsettled' \subseteq Unsettled
  <2>1. ASSUME NEW q \in Rounds, task'[q].pc \in Live
        PROVE  task[q].pc \in Live /\ task'[q].todo = task[q].todo
    BY <1>1, <1>6, <2>1
  <2> QED
    BY <1>3, <2>1
<1>7. ASSUME NEW r \in Rounds, NEW u \in Utxos, NEW answered \in BOOLEAN,
             Revalidate(r, u, answered)
      PROVE  Unsettled' \subseteq Unsettled
  <2>1. task' = [task EXCEPT ![r] = Revalidated(task[r], u, answered)]
        /\ task[r].pc = "revalidate" /\ u \in task[r].todo
    BY <1>7 DEF Revalidate
  <2>2. Revalidated(task[r], u, answered).pc = "revalidate"
    BY <1>1, <2>1, RevalidatedKeeps
  <2>3. task'[r].pc = "revalidate" /\ \A q \in Rounds \ {r} : task'[q] = task[q]
    BY <1>1, <2>1, <2>2
  <2> QED
    BY <1>3, <2>3
<1>8. ASSUME NEW r \in Rounds, task' = [task EXCEPT ![r] = NoTask]
      PROVE  Unsettled' \subseteq Unsettled
  <2>1. task'[r].pc = "none" /\ \A q \in Rounds \ {r} : task'[q] = task[q]
    BY <1>1, <1>2, <1>8
  <2> QED
    BY <1>3, <2>1
<1>9. CASE task' = [r \in Rounds |-> NoTask] /\ phase' = "Idle"
  BY <1>2, <1>3, <1>9
<1> QED
  BY <1>4, <1>5, <1>6, <1>7, <1>8, <1>9, TaskSteps

\* The round's part of a step, in the abstract specification.
LEMMA RoundStepsAbstractly ==
    ASSUME RoundInv, RoundInv', [RoundNext]_roundVars
    PROVE  \/ UNCHANGED <<Stage, Inputs, sigs>>
           \/ \E u \in Utxos : /\ Stage = "open" /\ u \notin Inputs
                               /\ Inputs' = Inputs \cup {u}
                               /\ UNCHANGED <<Stage, sigs>>
           \/ /\ Stage = "open" /\ Stage' = "sealed"
              /\ Cardinality(Inputs) >= MinParticipants
              /\ UNCHANGED <<Inputs, sigs>>
           \/ \E u \in Utxos : /\ phase = "Signing" /\ u \in Inputs \ sigs
                               /\ sigs' = sigs \cup {u}
                               /\ UNCHANGED Inputs
                               /\ \/ UNCHANGED phase
                                  \/ phase' = "Broadcast" /\ sigs' = Inputs
           \/ Stage' = "open" /\ Inputs' = {} /\ sigs' = {} /\ phase' = "Idle"
<1>1. ASSUME Reset
      PROVE  Stage' = "open" /\ Inputs' = {} /\ sigs' = {} /\ phase' = "Idle"
  BY <1>1 DEF Reset, Stage, Inputs
<1>2. CASE UNCHANGED roundVars
  BY <1>2 DEF roundVars, Stage, Inputs
<1>3. ASSUME NEW m \in Nat, InstallRound(m)
      PROVE  UNCHANGED <<Stage, Inputs, sigs>>
  BY <1>3 DEF InstallRound, Stage, Inputs, RoundInv, MaterialIsTheRounds
<1>4. ASSUME NEW u \in Utxos, NEW k \in 1..roundId, RegisterInput(u, k)
      PROVE  /\ Stage = "open" /\ u \notin Inputs
             /\ Inputs' = Inputs \cup {u}
             /\ UNCHANGED <<Stage, sigs>>
  <2>1. Stage = "open" /\ Stage' = "open" /\ u \notin Inputs /\ UNCHANGED sigs
    BY <1>4 DEF RegisterInput, Stage
  <2>2. registered' = [registered EXCEPT ![u] = k] /\ k # None
    BY <1>4 DEF RegisterInput, None
  <2>3. registered \in [Utxos -> 0..MaxRounds]
    BY DEF RoundInv, TypeOK
  <2>4. Inputs' = Inputs \cup {u}
    BY <2>2, <2>3 DEF Inputs
  <2> QED
    BY <2>1, <2>4
<1>5. ASSUME InputRegTimeout, ~Reset
      PROVE  UNCHANGED <<Stage, Inputs, sigs>>
  BY <1>5 DEF InputRegTimeout, Advance, EndRound, Stage, Inputs
<1>6. ASSUME \/ \E u \in Utxos : RecordOutput(u)
             \/ OutputRegTimeout /\ ~Reset
      PROVE  \/ UNCHANGED <<Stage, Inputs, sigs>>
             \/ /\ Stage = "open" /\ Stage' = "sealed"
                /\ Cardinality(Inputs) >= MinParticipants
                /\ UNCHANGED <<Inputs, sigs>>
  <2>1. UNCHANGED <<registered, sigs>> /\ phase = "OutputReg"
        /\ phase' \in {"OutputReg", "Signing"}
    BY <1>6 DEF RecordOutput, OutputRegTimeout, Advance, EndRoundViaBlame
  <2>2. UNCHANGED Inputs
    BY <2>1 DEF Inputs
  <2>3. phase' = "Signing" => Cardinality(Inputs) >= MinParticipants
    BY <2>2 DEF RoundInv, SealedIsBalanced, Sealed
  <2> QED
    BY <2>1, <2>2, <2>3 DEF Stage
<1>7. ASSUME NEW u \in Utxos, NEW assembled \in BOOLEAN, RecordSignature(u, assembled)
      PROVE  /\ phase = "Signing" /\ u \in Inputs \ sigs
             /\ sigs' = sigs \cup {u}
             /\ UNCHANGED Inputs
             /\ \/ UNCHANGED phase
                \/ phase' = "Broadcast" /\ sigs' = Inputs
  <2>1. /\ phase = "Signing" /\ u \in Inputs \ sigs /\ sigs' = sigs \cup {u}
        /\ UNCHANGED registered /\ phase' \in {phase, "Broadcast"}
    BY <1>7 DEF RecordSignature
  <2>2. UNCHANGED Inputs
    BY <2>1 DEF Inputs
  <2>3. phase' = "Broadcast" => sigs' = Inputs'
    BY DEF RoundInv, BroadcastIsFullySigned
  <2> QED
    BY <2>1, <2>2, <2>3
<1>8. SigningTimeout \/ BroadcastEnds \/ Restart => Reset
  BY DEF SigningTimeout, BroadcastEnds, Restart, EndRound, EndRoundViaBlame
<1>9. roundId \in Nat
  BY RoundAssumption DEF RoundInv, TypeOK
<1> QED
  BY <1>1, <1>2, <1>3, <1>4, <1>5, <1>6, <1>7, <1>8, <1>9 DEF RoundNext

\* A step that spends a coin settles a transaction, or is its owner's.
LEMMA LedgerSteps ==
    ASSUME TypesInv, [Next]_vars
    PROVE  \/ UNCHANGED spentBy
           \/ /\ UNCHANGED roundVars
              /\ \E coins \in Unsettled :
                    /\ \A u \in coins : spentBy[u] = "nobody"
                    /\ spentBy' = [u \in Utxos |->
                          IF u \in coins THEN "coinjoin" ELSE spentBy[u]]
           \/ /\ UNCHANGED <<roundVars, task>>
              /\ \E u \in Utxos : /\ spentBy[u] = "nobody"
                                  /\ spentBy' = [spentBy EXCEPT ![u] = "owner"]
<1>1. ASSUME NEW r \in Rounds, NEW replied \in BOOLEAN, SendAccepted(r, replied)
      PROVE  /\ UNCHANGED roundVars
             /\ \E coins \in Unsettled :
                    /\ \A u \in coins : spentBy[u] = "nobody"
                    /\ spentBy' = [u \in Utxos |->
                          IF u \in coins THEN "coinjoin" ELSE spentBy[u]]
  <2>1. task[r].todo \in Unsettled
    BY <1>1 DEF SendAccepted, TaskStep, Unsettled
  <2> QED
    BY <1>1, <2>1 DEF SendAccepted
<1>2. ASSUME NEW u \in Utxos, OwnerSpends(u)
      PROVE  /\ UNCHANGED <<roundVars, task>>
             /\ spentBy[u] = "nobody"
             /\ spentBy' = [spentBy EXCEPT ![u] = "owner"]
  BY <1>2 DEF OwnerSpends
<1>4. Requests \/ Monitor \/ UNCHANGED vars => UNCHANGED spentBy
  BY DEF Requests, InputValidate, InputCommit, InputFails, PostOutput, PostSign,
     Monitor, MonitorStart, MonitorInstall, KeygenFails, ArmTimer, vars
<1>5. ASSUME NEW r \in Rounds, TimerFires(r)
      PROVE  UNCHANGED spentBy
  BY <1>5 DEF TimerFires, StaleTimer, InputRegTimer, OutputRegTimer, SigningTimer,
     WatchdogTimer, Fires
<1>6. ASSUME NEW r \in Rounds, Finalize(r)
      PROVE  UNCHANGED spentBy \/ \E replied \in BOOLEAN : SendAccepted(r, replied)
  BY <1>6 DEF Finalize, TestAccepted, TestRefused, SendRefused, Revalidate,
     FinalizeSuccess, FinalizeFailure, TaskReturns, TaskOnly
<1>7. Environment => UNCHANGED spentBy \/ \E u \in Utxos : OwnerSpends(u)
  BY DEF Environment, PauseLapses, BanExpires, TaskDies, TaskReturns, Crash
<1> QED
  BY <1>1, <1>2, <1>4, <1>5, <1>6, <1>7 DEF Next

LEMMA StepsAreAbstract ==
    ASSUME TypesInv, TypesInv', TaskInv, [Next]_vars
    PROVE  CJ!CJNext
<1> DEFINE Shrinks == Unsettled' \subseteq Unsettled
<1>1. [RoundNext]_roundVars
  BY StepImplements DEF TypesInv
<1>2. RoundInv /\ RoundInv'
  BY DEF TypesInv
<1>3. UNCHANGED roundVars => UNCHANGED <<Stage, Inputs, sigs, phase>>
  BY DEF roundVars, Stage, Inputs
<1>4. phase' # "Broadcast" \/ phase # "Signing" => Shrinks
  BY UnsettledSteps
<1>5. CASE UNCHANGED <<Stage, Inputs, sigs, spentBy>>
  <2>1. ~(phase = "Signing" /\ phase' = "Broadcast")
    BY <1>5 DEF Stage
  <2>2. CJ!Forget
    BY <1>4, <1>5, <2>1 DEF CJ!Forget
  <2> QED
    BY <2>2 DEF CJ!CJNext
<1>6. CASE UNCHANGED roundVars /\ ~UNCHANGED spentBy
  <2>1. UNCHANGED <<Stage, Inputs, sigs, phase>> /\ Shrinks
    BY <1>3, <1>4, <1>6
  <2>2. ASSUME NEW coins \in Unsettled,
               \A u \in coins : spentBy[u] = "nobody",
               spentBy' = [u \in Utxos |->
                              IF u \in coins THEN "coinjoin" ELSE spentBy[u]]
        PROVE  CJ!Settle(coins)
    BY <2>1, <2>2 DEF CJ!Settle
  <2>3. ASSUME UNCHANGED task, NEW u \in Utxos, spentBy[u] = "nobody",
               spentBy' = [spentBy EXCEPT ![u] = "owner"]
        PROVE  CJ!SpendElsewhere(u)
    BY <2>1, <2>3 DEF CJ!SpendElsewhere, Unsettled
  <2> QED
    BY <1>6, <2>2, <2>3, LedgerSteps DEF CJ!CJNext
<1>7. CASE UNCHANGED spentBy /\ ~UNCHANGED roundVars
  <2>1. phase' # "Idle" /\ ~(phase = "Signing" /\ phase' = "Broadcast")
        => UNCHANGED Unsettled
    BY <1>7, UnsettledSteps
  <2>2. ASSUME NEW u \in Utxos, Stage = "open", u \notin Inputs,
               Inputs' = Inputs \cup {u}, UNCHANGED <<Stage, sigs>>
        PROVE  CJ!Join(u)
    <3>1. phase' # "Idle" /\ ~(phase = "Signing" /\ phase' = "Broadcast")
      BY <1>2, <2>2 DEF RoundInv, MaterialIsTheRounds, Stage
    <3> QED
      BY <1>7, <2>1, <2>2, <3>1 DEF CJ!Join
  <2>3. ASSUME Stage = "open", Stage' = "sealed",
               Cardinality(Inputs) >= MinParticipants, UNCHANGED <<Inputs, sigs>>
        PROVE  CJ!Seal
    <3>1. phase' # "Idle" /\ ~(phase = "Signing" /\ phase' = "Broadcast")
      BY <2>3 DEF Stage
    <3>2. CJ!Cardinality(Inputs) = Cardinality(Inputs)
      BY DEF CJ!Cardinality, Cardinality, CJ!IsFiniteSet, IsFiniteSet
    <3> QED
      BY <1>7, <2>1, <2>3, <3>1, <3>2 DEF CJ!Seal
  <2>4. ASSUME NEW u \in Utxos, phase = "Signing", u \in Inputs \ sigs,
               sigs' = sigs \cup {u}, UNCHANGED Inputs,
               \/ UNCHANGED phase
               \/ phase' = "Broadcast" /\ sigs' = Inputs
        PROVE  CJ!Consent(u)
    <3>1. CASE UNCHANGED phase
      <4>1. UNCHANGED <<Stage, Unsettled>> /\ Stage = "sealed"
        BY <2>1, <2>4, <3>1 DEF Stage
      <4> QED
        BY <1>7, <2>4, <4>1 DEF CJ!Consent
    <3>2. CASE phase' = "Broadcast"
      <4>1. Stage = "sealed" /\ Stage' = "handed"
        BY <2>4, <3>2 DEF Stage
      <4>2. Unsettled' = Unsettled \cup {Inputs}
        BY <1>7, <2>4, <3>2, UnsettledSteps
      <4>3. sigs' = Inputs
        BY <2>4, <3>2
      <4> QED
        BY <1>7, <2>4, <4>1, <4>2, <4>3 DEF CJ!Consent
    <3> QED
      BY <2>4, <3>1, <3>2
  <2>5. ASSUME Stage' = "open", Inputs' = {}, sigs' = {}, phase' = "Idle"
        PROVE  CJ!Abandon
    <3>1. Shrinks
      BY <1>4, <2>5
    <3> QED
      BY <1>7, <2>5, <3>1 DEF CJ!Abandon
  <2> QED
    BY <1>1, <1>2, <1>5, <1>7, <2>2, <2>3, <2>4, <2>5, RoundStepsAbstractly
       DEF CJ!CJNext
<1> QED
  BY <1>3, <1>5, <1>6, <1>7, LedgerSteps

\* Coins are spent all together or not at all, and only when every member of a sealed
\* quorum signed for them, whatever is lost, late or restarted.
THEOREM CoordinatorIsACoinJoin == Spec => CoinJoinBehaviour
<1>1. ASSUME Init
      PROVE  CJ!CJInit
  <2>1. Stage = "open" /\ Inputs = {} /\ sigs = {}
    BY <1>1 DEF Init, RoundInit, Stage, Inputs
  <2>2. task = [r \in Rounds |-> NoTask] /\ spentBy = [u \in Utxos |-> "nobody"]
    BY <1>1 DEF Init
  <2>3. Unsettled = {}
    BY <2>2 DEF Unsettled, NoTask
  <2> QED
    BY <2>1, <2>2, <2>3 DEF CJ!CJInit
<1>2. TypesInv /\ TypesInv' /\ TaskInv /\ [Next]_vars => [CJ!CJNext]_(CJ!cjVars)
  BY StepsAreAbstract
<1> QED
  BY <1>1, <1>2, TaskInvariant, PTL DEF Spec, CoinJoinBehaviour, CJ!CJSpec

=============================================================================
