---------------------------- MODULE ClientProofs ----------------------------
(***************************************************************************)
(* Clients and bot together with the coordinator: what they do to it is what *)
(* Coordinator allows its participants, so every theorem about the           *)
(* coordinator holds in their presence; what a client was told stays true as *)
(* long as its round lasts; and nobody waits for what nobody brings about.   *)
(***************************************************************************)
EXTENDS Bot, TaskProofs

-----------------------------------------------------------------------------
(* The invariant of one client.                                            *)

Redeemed == {"awaitSigning", "fetch", "sign", "broadcasting", "done"}

\* What ToldIsTrue says of c.
ToldTrue(c) ==
    InItsRound(c) =>
        /\ registered[coin[c]] = session[c]
        /\ at[c] \in Redeemed => coin[c] \in outputs
        /\ at[c] \in {"broadcasting", "done"} => coin[c] \in sigs

\* Its request in flight is the one it waits for, and its session is of a round that
\* was opened.
ClientOK(c) ==
    /\ at[c] = "off" => session[c] = None
    /\ at[c] # "off" => coin[c] \in Wallet[c]
    /\ at[c] = "registering" => handler[c] = <<coin[c], info[c]>>
    /\ at[c] \in {"awaitOutput", "recheck", "redeem"} \cup Redeemed => session[c] # None
    /\ session[c] <= roundId
    /\ phase = "Idle" => session[c] # roundId
    /\ ToldTrue(c)

ClientInv == ClientTypeOK /\ \A c \in Clients : ClientOK(c)

\* The bot bumps past the coin that it was launched with.
BotOK ==
    /\ counter \in Nat
    /\ unbumped \in BOOLEAN
    /\ unbumped => at[Robot] = "done"
    /\ at[Robot] \in Running \/ unbumped => coin[Robot] = PickScriptType

BotInv == RoundInv /\ MemoryInv /\ ClientInv /\ BotOK

-----------------------------------------------------------------------------
(* Within a round nothing that a client was told is taken back.            *)

\* A step of the round ends it, opens it, or adds to it.
RoundGrows ==
    \/ phase' = "Idle" /\ roundId' = roundId + 1
    \/ phase = "Idle" /\ phase' # "Idle" /\ roundId' = roundId
    \/ /\ roundId' = roundId
       /\ phase = "Idle" <=> phase' = "Idle"
       /\ \A u \in Utxos : registered[u] # None => registered'[u] = registered[u]
       /\ outputs \subseteq outputs'
       /\ sigs \subseteq sigs'

LEMMA RoundOnlyGrows ==
    ASSUME RoundInv, [RoundNext]_roundVars
    PROVE  RoundGrows
<1>1. CASE roundId <= MaxRounds /\ InstallRound(roundId)
  BY <1>1 DEF InstallRound, RoundGrows
<1>2. ASSUME NEW u \in Utxos, NEW k \in 1..roundId, RegisterInput(u, k)
      PROVE  RoundGrows
  BY <1>2 DEF RegisterInput, RoundGrows, RoundInv, TypeOK, Inputs
<1>3. CASE InputRegTimeout
  BY <1>3 DEF InputRegTimeout, RoundGrows, Advance, EndRound, Reset
<1>4. ASSUME NEW u \in Utxos, HoldsToken(u), RecordOutput(u)
      PROVE  RoundGrows
  BY <1>4 DEF RecordOutput, RoundGrows
<1>5. CASE OutputRegTimeout
  BY <1>5 DEF OutputRegTimeout, RoundGrows, Advance, EndRoundViaBlame, Reset
<1>6. ASSUME NEW u \in Utxos, NEW assembled \in BOOLEAN,
             RecordSignature(u, assembled)
      PROVE  RoundGrows
  BY <1>6 DEF RecordSignature, RoundGrows
<1>7. CASE SigningTimeout \/ BroadcastEnds \/ Restart
  BY <1>7 DEF SigningTimeout, BroadcastEnds, Restart, RoundGrows, EndRound,
     EndRoundViaBlame, Reset
<1>8. CASE UNCHANGED roundVars
  BY <1>8 DEF roundVars, RoundGrows
<1> QED
  BY <1>1, <1>2, <1>3, <1>4, <1>5, <1>6, <1>7, <1>8 DEF RoundNext

\* A client that does nothing keeps its invariant, whatever happens to the round, if
\* its request stays in flight or it does not wait for it.
LEMMA BystanderKept ==
    ASSUME RoundInv, RoundGrows, ClientTypeOK, NEW c \in Clients, ClientOK(c),
           at'[c] = at[c], coin'[c] = coin[c], info'[c] = info[c],
           session'[c] = session[c],
           at[c] = "registering" => handler'[c] = handler[c]
    PROVE  ClientOK(c)'
<1>1. at[c] # "off" => coin[c] \in Utxos
  BY ClientAssumption, RoundAssumption DEF ClientOK
<1>2. roundId \in Nat \ {0} /\ roundId' \in Nat /\ session[c] \in Nat
  BY RoundAssumption DEF RoundInv, TypeOK, RoundGrows, ClientTypeOK
<1>3. session[c] <= roundId' /\ (phase' = "Idle" => session[c] # roundId')
  BY <1>2 DEF RoundGrows, ClientOK
<1>4. ToldTrue(c)'
  <2> SUFFICES ASSUME session[c] = roundId', phase' # "Idle"
               PROVE  /\ registered'[coin[c]] = session[c]
                      /\ at[c] \in Redeemed => coin[c] \in outputs'
                      /\ at[c] \in {"broadcasting", "done"} => coin[c] \in sigs'
    BY DEF ToldTrue, InItsRound, Redeemed
  <2>1. /\ roundId' = roundId /\ phase # "Idle"
        /\ \A u \in Utxos : registered[u] # None => registered'[u] = registered[u]
        /\ outputs \subseteq outputs' /\ sigs \subseteq sigs'
    BY <1>2 DEF RoundGrows, ClientOK
  <2>2. /\ registered[coin[c]] = session[c]
        /\ at[c] \in Redeemed => coin[c] \in outputs
        /\ at[c] \in {"broadcasting", "done"} => coin[c] \in sigs
    BY <2>1 DEF ClientOK, ToldTrue, InItsRound
  <2>3. coin[c] \in Utxos /\ session[c] # None
    BY <1>1, <1>2, <2>1 DEF ClientOK, None
  <2> QED
    BY <2>1, <2>2, <2>3
<1> QED
  BY <1>3, <1>4 DEF ClientOK

-----------------------------------------------------------------------------
(* What a client's own step does to it and to the others.                  *)

OnlyMoves(c) ==
    \A d \in Clients \ {c} :
        /\ at'[d] = at[d] /\ coin'[d] = coin[d]
        /\ info'[d] = info[d] /\ session'[d] = session[d]

\* The process ends.
LEMMA GivesUpKept ==
    ASSUME RoundInv, RoundGrows, ClientTypeOK, NEW c \in Clients, GivesUp(c)
    PROVE  ClientTypeOK' /\ OnlyMoves(c) /\ ClientOK(c)'
<1>1. roundId' \in Nat \ {0}
  BY RoundAssumption DEF RoundInv, TypeOK, RoundGrows
<1>2. at'[c] = "off" /\ session'[c] = None
  BY DEF GivesUp, ClientTypeOK
<1>3. ClientTypeOK'
  BY ClientAssumption, RoundAssumption DEF GivesUp, ClientTypeOK, Ended, None
<1>4. OnlyMoves(c)
  BY DEF GivesUp, ClientTypeOK, OnlyMoves
<1>5. ClientOK(c)'
  BY <1>1, <1>2 DEF ClientOK, ToldTrue, InItsRound, Redeemed, None
<1> QED
  BY <1>3, <1>4, <1>5

\* It goes on with what it knows, to a place that it has what it takes for.
LEMMA MovesOnKept ==
    ASSUME RoundInv, RoundGrows, ClientTypeOK, NEW c \in Clients, ClientOK(c),
           NEW where \in (Running \cup Ended) \ {"off", "registering"},
           GoTo(c, where), Keeps, at[c] # "off",
           where \in {"awaitOutput", "recheck", "redeem"} \cup Redeemed =>
               session[c] # None,
           where \in Redeemed => at[c] \in Redeemed \/ coin[c] \in outputs',
           where \in {"broadcasting", "done"} =>
               at[c] \in {"broadcasting", "done"} \/ coin[c] \in sigs'
    PROVE  ClientTypeOK' /\ OnlyMoves(c) /\ ClientOK(c)'
<1>1. /\ at'[c] = where /\ coin'[c] = coin[c] /\ session'[c] = session[c]
      /\ coin[c] \in Wallet[c] /\ coin[c] \in Utxos
  BY ClientAssumption, RoundAssumption DEF GoTo, Keeps, ClientTypeOK, ClientOK
<1>2. ClientTypeOK'
  BY ClientAssumption DEF GoTo, Keeps, ClientTypeOK
<1>3. OnlyMoves(c)
  BY DEF GoTo, Keeps, ClientTypeOK, OnlyMoves
<1>4. roundId \in Nat \ {0} /\ roundId' \in Nat /\ session[c] \in Nat
  BY RoundAssumption DEF RoundInv, TypeOK, RoundGrows, ClientTypeOK
<1>5. session[c] <= roundId' /\ (phase' = "Idle" => session[c] # roundId')
  BY <1>4 DEF RoundGrows, ClientOK
<1>6. ToldTrue(c)'
  <2> SUFFICES ASSUME session[c] = roundId', phase' # "Idle"
               PROVE  /\ registered'[coin[c]] = session[c]
                      /\ where \in Redeemed => coin[c] \in outputs'
                      /\ where \in {"broadcasting", "done"} => coin[c] \in sigs'
    BY <1>1 DEF ToldTrue, InItsRound
  <2>1. /\ roundId' = roundId /\ phase # "Idle"
        /\ \A u \in Utxos : registered[u] # None => registered'[u] = registered[u]
        /\ outputs \subseteq outputs' /\ sigs \subseteq sigs'
    BY <1>4 DEF RoundGrows, ClientOK
  <2>2. /\ registered[coin[c]] = session[c]
        /\ at[c] \in Redeemed => coin[c] \in outputs
        /\ at[c] \in {"broadcasting", "done"} => coin[c] \in sigs
    BY <2>1 DEF ClientOK, ToldTrue, InItsRound
  <2>3. session[c] # None
    BY <1>4, <2>1 DEF None
  <2> QED
    BY <1>1, <2>1, <2>2, <2>3
<1>7. ClientOK(c)'
  BY <1>1, <1>5, <1>6 DEF ClientOK
<1> QED
  BY <1>2, <1>3, <1>7

-----------------------------------------------------------------------------
(* Clients do to the coordinator what Coordinator allows.                  *)

\* The requests in flight of all others stay in flight.
OthersWait(c) == \A d \in Clients \ {c} : handler'[d] = handler[d]

LEMMA ClientStepImplements ==
    ASSUME MemoryInv, ClientInv, NEW c \in Clients, ClientStep(c) \/ ClientMishap(c)
    PROVE  [Next]_vars /\ OthersWait(c)
<1>1. at[c] # "off" => coin[c] \in Utxos
  BY ClientAssumption, RoundAssumption DEF ClientInv, ClientOK
<1>2. c \in Handlers /\ handler \in [Clients -> Requested]
  BY DEF Clients, MemoryInv
<1>3. UNCHANGED vars => [Next]_vars /\ OthersWait(c)
  BY DEF vars, OthersWait
<1>4. CASE Register(c)
  <2>1. InputValidate(c, coin[c]) /\ coin[c] \in Utxos
    BY <1>1, <1>4 DEF Register
  <2>2. OthersWait(c)
    BY <1>2, <2>1 DEF InputValidate, OthersWait
  <2> QED
    BY <1>2, <2>1, <2>2 DEF Requests, Next
<1>5. ASSUME InputCommit(c) \/ InputFails(c)
      PROVE  [Next]_vars /\ OthersWait(c)
  <2>1. OthersWait(c)
    BY <1>2, <1>5 DEF InputCommit, InputFails, OthersWait
  <2> QED
    BY <1>2, <1>5, <2>1 DEF Requests, Next
<1>6. ASSUME NEW answered \in BOOLEAN, Redeem(c, answered)
      PROVE  [Next]_vars /\ OthersWait(c)
  <2>1. PostOutput(coin[c]) /\ coin[c] \in Utxos
    BY <1>1, <1>6 DEF Redeem
  <2>2. UNCHANGED handler
    BY <2>1 DEF PostOutput
  <2> QED
    BY <2>1, <2>2 DEF Requests, Next, OthersWait
<1>7. ASSUME NEW answered \in BOOLEAN, NEW assembled \in BOOLEAN,
             Sign(c, answered, assembled)
      PROVE  [Next]_vars /\ OthersWait(c)
  <2>1. PostSign(coin[c], assembled) /\ coin[c] \in Utxos
    BY <1>1, <1>7 DEF Sign
  <2>2. UNCHANGED handler
    BY <2>1 DEF PostSign
  <2> QED
    BY <2>1, <2>2 DEF Requests, Next, OthersWait
<1> QED
  <2>1. ClientStep(c) => [Next]_vars /\ OthersWait(c)
    BY <1>3, <1>4, <1>5, <1>6, <1>7 DEF ClientStep, PollMatches, RegisterRefused,
       Registered, RegisteringFails, Recheck, RecheckRefused, RedeemRefused, Fetch,
       FetchRefused, SignRefused, BroadcastTimesOut, PollTimesOut, Busy, Refused,
       coordinatorVars
  <2>2. ClientMishap(c) => [Next]_vars /\ OthersWait(c)
    BY <1>3, <1>5, <1>6, <1>7 DEF ClientMishap, Interrupted, Registered, coordinatorVars
  <2> QED
    BY <2>1, <2>2

\* The coordinator's own steps touch no request in flight.
LEMMA CoordinatorStepImplements ==
    ASSUME CoordinatorSteps
    PROVE  Next /\ UNCHANGED <<handler, clientVars>>
<1>1. Monitor => UNCHANGED handler
  BY DEF Monitor, MonitorStart, MonitorInstall, KeygenFails, ArmTimer
<1>2. ASSUME NEW r \in Rounds, TimerFires(r)
      PROVE  UNCHANGED handler
  BY <1>2 DEF TimerFires, StaleTimer, InputRegTimer, OutputRegTimer, SigningTimer,
     WatchdogTimer, Fires
<1>3. ASSUME NEW r \in Rounds, FinalizeProceeds(r)
      PROVE  Finalize(r) /\ UNCHANGED handler
  BY <1>3 DEF FinalizeProceeds, Finalize, TestAccepted, TestRefused, SendAccepted,
     SendRefused, Revalidate, TaskStep
<1>4. PauseLapses \/ (\E u \in Utxos : BanExpires(u) \/ OwnerSpends(u)) =>
          Environment /\ UNCHANGED handler
  BY DEF Environment, PauseLapses, BanExpires, OwnerSpends
<1> QED
  BY <1>1, <1>2, <1>3, <1>4 DEF CoordinatorSteps, Next

LEMMA BroadcastImplements ==
    ASSUME NEW r \in Rounds, BroadcastAnswered(r)
    PROVE  Next /\ UNCHANGED handler
BY DEF BroadcastAnswered, FinalizeSuccess, FinalizeFailure, TaskDies, TaskReturns,
   Finalize, Environment, Next

\* Every step of clients, bot and coordinator is one of the coordinator's, or leaves
\* it alone.
LEMMA BotStepImplements ==
    ASSUME MemoryInv, ClientInv, [BotNext]_allVars
    PROVE  [Next]_vars
<1>1. CASE UNCHANGED allVars
  BY <1>1 DEF allVars, partyVars
<1>2. CASE BotLaunch \/ BumpCounter \/ BotKilledUnbumped
  BY <1>2 DEF BotLaunch, BumpCounter, BotKilledUnbumped, Launch, partyVars,
     coordinatorVars
<1>3. ASSUME NEW p \in People, PersonLaunch(p)
      PROVE  [Next]_vars
  BY <1>3 DEF PersonLaunch, Launch, coordinatorVars
<1>4. ASSUME NEW c \in Clients, ClientStep(c) \/ ClientMishap(c)
      PROVE  [Next]_vars
  BY <1>4, ClientStepImplements
<1>5. ASSUME NEW r \in Rounds, BroadcastAnswered(r)
      PROVE  [Next]_vars
  BY <1>5, BroadcastImplements
<1>6. CASE CoordinatorSteps
  BY <1>6, CoordinatorStepImplements
<1>7. CASE CoordinatorCrashes
  BY <1>7 DEF CoordinatorCrashes, Environment, Next
<1> QED
  BY <1>1, <1>2, <1>3, <1>4, <1>5, <1>6, <1>7 DEF BotNext

-----------------------------------------------------------------------------
(* ClientInv is inductive.                                                 *)

\* One client moves as it may, the others are bystanders.
LEMMA OneMoves ==
    ASSUME RoundInv, RoundGrows, ClientInv, NEW c \in Clients,
           ClientTypeOK', OnlyMoves(c), ClientOK(c)', OthersWait(c)
    PROVE  ClientInv'
<1>1. ASSUME NEW d \in Clients \ {c}
      PROVE  ClientOK(d)'
  BY BystanderKept DEF ClientInv, OnlyMoves, OthersWait
<1> QED
  BY <1>1 DEF ClientInv

LEMMA PollingNames == DOMAIN Polling = {"awaitInput", "awaitOutput", "awaitSigning"}
BY DEF Polling

LEMMA PlacesOfClients ==
    Running = {"awaitInput", "awaitOutput", "awaitSigning", "register", "recheck",
               "redeem", "fetch", "sign", "registering", "broadcasting"}
BY PollingNames DEF Running, Calling, Awaiting

\* A client goes to a place and learns at most a round, or its coin.
LEMMA MoveTyped ==
    ASSUME ClientTypeOK, NEW c \in Clients, NEW where \in Running \cup Ended,
           GoTo(c, where), NEW u \in Wallet[c], NEW i \in 0..MaxRounds,
           NEW r \in 0..MaxRounds,
           coin' = coin \/ coin' = [coin EXCEPT ![c] = u],
           info' = info \/ info' = [info EXCEPT ![c] = i],
           session' = session \/ session' = [session EXCEPT ![c] = r]
    PROVE  ClientTypeOK' /\ OnlyMoves(c)
<1>1. at' \in [Clients -> Running \cup Ended]
  BY DEF GoTo, ClientTypeOK
<1>2. attempt' \in [Clients -> 0..MaxRetries]
  BY ClientAssumption DEF GoTo, ClientTypeOK
<1>3. /\ coin' \in [Clients -> Utxos \cup {None}]
      /\ \A d \in Clients : coin'[d] \in Wallet[d] \cup {None}
  BY ClientAssumption, RoundAssumption DEF ClientTypeOK
<1>4. info' \in [Clients -> 0..MaxRounds] /\ session' \in [Clients -> 0..MaxRounds]
  BY DEF ClientTypeOK
<1>5. OnlyMoves(c)
  BY DEF GoTo, ClientTypeOK, OnlyMoves
<1> QED
  BY <1>1, <1>2, <1>3, <1>4, <1>5 DEF ClientTypeOK

\* A launch forgets the round before.
LEMMA LaunchKept ==
    ASSUME RoundInv, ClientInv, NEW c \in Clients, NEW u \in Wallet[c], Launch(c, u)
    PROVE  ClientInv'
<1>1. RoundGrows /\ OthersWait(c)
  BY DEF Launch, coordinatorVars, vars, roundVars, RoundGrows, OthersWait
<1>2. ClientTypeOK' /\ OnlyMoves(c)
  <2>1. "awaitInput" \in Running \cup Ended /\ None \in 0..MaxRounds
    BY PlacesOfClients, RoundAssumption DEF None
  <2> QED
    BY <2>1, MoveTyped DEF Launch, ClientInv
<1>3. at'[c] = "awaitInput" /\ session'[c] = None /\ coin'[c] = u
  BY DEF Launch, GoTo, ClientInv, ClientTypeOK
<1>4. roundId' \in Nat \ {0}
  BY RoundAssumption DEF Launch, coordinatorVars, vars, roundVars, RoundInv, TypeOK
<1>5. ClientOK(c)'
  BY <1>3, <1>4 DEF ClientOK, ToldTrue, InItsRound, Redeemed, None
<1> QED
  BY <1>1, <1>2, <1>5, OneMoves

\* The steps that change more than the place of a client.
LEMMA PollKept ==
    ASSUME RoundInv, RoundGrows, ClientInv, NEW c \in Clients, PollMatches(c)
    PROVE  ClientTypeOK' /\ OnlyMoves(c) /\ ClientOK(c)'
<1>1. UNCHANGED roundVars
  BY DEF PollMatches, coordinatorVars, vars
<1>2. CASE at[c] = "awaitInput"
  <2>1. GoTo(c, "register") /\ info' = [info EXCEPT ![c] = roundId]
        /\ UNCHANGED <<coin, session>>
    BY <1>2 DEF PollMatches
  <2>2. roundId \in 0..MaxRounds
    BY <1>2, RoundAssumption DEF PollMatches, Polling, RoundInv, TypeOK,
       OpenRoundInBound
  <2>3. ClientTypeOK' /\ OnlyMoves(c) /\ at'[c] = "register"
    <3>1. "register" \in Running \cup Ended /\ coin[c] \in Wallet[c]
      BY <1>2, PlacesOfClients DEF ClientInv, ClientOK
    <3> QED
      BY <2>1, <2>2, <3>1, MoveTyped DEF GoTo, ClientInv, ClientTypeOK
  <2>4. ClientOK(c)'
    BY <1>1, <1>2, <2>1, <2>3 DEF ClientInv, ClientOK, ToldTrue, InItsRound,
       Redeemed, roundVars
  <2> QED
    BY <2>3, <2>4
<1>3. CASE at[c] = "awaitOutput"
  <2>1. GoTo(c, "recheck") /\ Keeps
    BY <1>3 DEF PollMatches, Keeps
  <2> QED
    BY <1>3, <2>1, MovesOnKept, PlacesOfClients DEF ClientInv, ClientOK, Redeemed
<1>4. CASE at[c] = "awaitSigning"
  <2>1. GoTo(c, "fetch") /\ Keeps
    BY <1>4 DEF PollMatches, Keeps
  <2> QED
    BY <1>4, <2>1, MovesOnKept, PlacesOfClients DEF ClientInv, ClientOK, Redeemed
<1> QED
  BY <1>2, <1>3, <1>4, PollingNames DEF PollMatches

LEMMA RegisterKept ==
    ASSUME RoundInv, MemoryInv, RoundGrows, ClientInv, NEW c \in Clients, Register(c)
    PROVE  ClientTypeOK' /\ OnlyMoves(c) /\ ClientOK(c)'
<1>1. UNCHANGED roundVars /\ handler'[c] = <<coin[c], info[c]>>
  BY DEF Register, InputValidate, CanRegister, MemoryInv, Clients
<1>2. at'[c] = "registering" /\ coin'[c] = coin[c] /\ info'[c] = info[c]
      /\ session'[c] = session[c]
  BY DEF Register, GoTo, Keeps, ClientInv, ClientTypeOK
<1>3. ClientTypeOK' /\ OnlyMoves(c)
  <2>1. "registering" \in Running \cup Ended /\ coin[c] \in Wallet[c]
    BY PlacesOfClients DEF Register, ClientInv, ClientOK
  <2> QED
    BY <2>1, MoveTyped DEF Register, Keeps, ClientInv, ClientTypeOK
<1>4. ClientOK(c)'
  BY <1>1, <1>2 DEF Register, ClientInv, ClientOK, ToldTrue, InItsRound, Redeemed,
     roundVars
<1> QED
  BY <1>3, <1>4

\* The blind signature is of the installed key only if the coin was registered with
\* the request for this round.
LEMMA RegisteredKept ==
    ASSUME RoundInv, MemoryInv, RoundGrows, ClientInv, NEW c \in Clients,
           NEW answered \in BOOLEAN, Registered(c, answered)
    PROVE  ClientTypeOK' /\ OnlyMoves(c) /\ ClientOK(c)'
<1>1. CASE at[c] # "registering"
  <2>1. UNCHANGED clientVars
    BY <1>1 DEF Registered
  <2>2. ClientTypeOK' /\ OnlyMoves(c)
    BY <2>1 DEF clientVars, ClientInv, ClientTypeOK, OnlyMoves
  <2> QED
    BY <1>1, <2>1, <2>2, BystanderKept DEF clientVars, ClientInv
<1>2. CASE at[c] = "registering" /\ ~(answered /\ BlindSignatureIsValid(c))
  BY <1>2, GivesUpKept DEF Registered, ClientInv
<1>3. CASE at[c] = "registering" /\ answered /\ BlindSignatureIsValid(c)
  <2>1. GoTo(c, "awaitOutput") /\ session' = [session EXCEPT ![c] = roundId]
        /\ UNCHANGED <<coin, info>>
    BY <1>3 DEF Registered
  <2>2. RegisterInput(coin[c], info[c])
    BY <1>3 DEF Registered, InputCommit, ClientInv, ClientOK
  <2>3. phase = "InputReg" /\ info[c] = roundId /\ roundId \in 1..MaxRounds
    BY <1>3, <2>2, RoundAssumption DEF RegisterInput, BlindSignatureIsValid, RoundInv,
       MaterialIsTheRounds, OpenRoundInBound, TypeOK
  <2>4. coin[c] \in Utxos
    BY <1>3, ClientAssumption, RoundAssumption DEF ClientInv, ClientOK
  <2>5. registered'[coin[c]] = roundId /\ roundId' = roundId /\ phase' # "Idle"
    BY <2>2, <2>3, <2>4 DEF RegisterInput, RoundInv, TypeOK
  <2>6. ClientTypeOK' /\ OnlyMoves(c)
    <3>1. /\ "awaitOutput" \in Running \cup Ended
          /\ coin[c] \in Wallet[c]
          /\ roundId \in 0..MaxRounds
      BY <1>3, <2>3, PlacesOfClients, RoundAssumption DEF ClientInv, ClientOK
    <3> QED
      BY <2>1, <3>1, MoveTyped DEF ClientInv
  <2>7. at'[c] = "awaitOutput" /\ session'[c] = roundId /\ coin'[c] = coin[c]
    BY <2>1 DEF GoTo, ClientInv, ClientTypeOK
  <2>8. ClientOK(c)'
    BY <1>3, <2>3, <2>5, <2>7 DEF ClientInv, ClientOK, ToldTrue, InItsRound,
       Redeemed, None
  <2> QED
    BY <2>6, <2>8
<1> QED
  BY <1>1, <1>2, <1>3

LEMMA RedeemKept ==
    ASSUME RoundInv, RoundGrows, ClientInv, NEW c \in Clients,
           NEW answered \in BOOLEAN, Redeem(c, answered)
    PROVE  ClientTypeOK' /\ OnlyMoves(c) /\ ClientOK(c)'
<1>1. CASE ~answered
  BY <1>1, GivesUpKept DEF Redeem, ClientInv
<1>2. CASE answered
  <2>1. GoTo(c, "awaitSigning") /\ Keeps /\ coin[c] \in outputs' /\ at[c] = "redeem"
    BY <1>2 DEF Redeem, PostOutput, RecordOutput
  <2> QED
    BY <2>1, MovesOnKept, PlacesOfClients DEF ClientInv, ClientOK, Redeemed
<1> QED
  BY <1>1, <1>2

LEMMA SignKept ==
    ASSUME RoundInv, RoundGrows, ClientInv, NEW c \in Clients,
           NEW answered \in BOOLEAN, NEW assembled \in BOOLEAN,
           Sign(c, answered, assembled)
    PROVE  ClientTypeOK' /\ OnlyMoves(c) /\ ClientOK(c)'
<1>1. CASE GivesUp(c)
  BY <1>1, GivesUpKept DEF ClientInv
<1>2. ASSUME NEW where \in {"broadcasting", "done"}, GoTo(c, where), Keeps
      PROVE  ClientTypeOK' /\ OnlyMoves(c) /\ ClientOK(c)'
  <2>1. at[c] = "sign" /\ coin[c] \in sigs'
    BY DEF Sign, PostSign, RecordSignature
  <2> QED
    BY <1>2, <2>1, MovesOnKept, PlacesOfClients DEF ClientInv, ClientOK, Redeemed, Ended
<1> QED
  BY <1>1, <1>2 DEF Sign

LEMMA BusyKept ==
    ASSUME RoundInv, RoundGrows, ClientInv, NEW c \in Clients, Busy(c)
    PROVE  ClientTypeOK' /\ OnlyMoves(c) /\ ClientOK(c)'
<1>1. CASE attempt[c] < MaxRetries
  <2>1. UNCHANGED <<vars, at, coin, info, session>>
        /\ attempt' = [attempt EXCEPT ![c] = @ + 1]
    BY <1>1 DEF Busy, Keeps, coordinatorVars
  <2>2. attempt' \in [Clients -> 0..MaxRetries]
    BY <1>1, <2>1, ClientAssumption DEF ClientInv, ClientTypeOK
  <2>3. ClientTypeOK' /\ OnlyMoves(c)
    BY <2>1, <2>2 DEF ClientInv, ClientTypeOK, OnlyMoves
  <2>4. ClientOK(c)'
    BY <2>1, BystanderKept DEF ClientInv, vars
  <2> QED
    BY <2>3, <2>4
<1>2. CASE ~(attempt[c] < MaxRetries)
  BY <1>2, GivesUpKept DEF Busy, ClientInv
<1> QED
  BY <1>1, <1>2

LEMMA ClientStepMoves ==
    ASSUME RoundInv, MemoryInv, RoundGrows, ClientInv, NEW c \in Clients,
           ClientStep(c) \/ ClientMishap(c)
    PROVE  ClientTypeOK' /\ OnlyMoves(c) /\ ClientOK(c)'
<1>1. ASSUME GivesUp(c)
      PROVE  ClientTypeOK' /\ OnlyMoves(c) /\ ClientOK(c)'
  BY <1>1, GivesUpKept DEF ClientInv
<1>2. RegisteringFails(c) => ClientTypeOK' /\ OnlyMoves(c) /\ ClientOK(c)'
  <2>1. CASE UNCHANGED clientVars /\ at[c] # "registering"
    <3>1. ClientTypeOK' /\ OnlyMoves(c)
      BY <2>1 DEF clientVars, ClientInv, ClientTypeOK, OnlyMoves
    <3> QED
      BY <2>1, <3>1, BystanderKept DEF clientVars, ClientInv
  <2> QED
    BY <1>1, <2>1 DEF RegisteringFails
<1>3. Recheck(c) => ClientTypeOK' /\ OnlyMoves(c) /\ ClientOK(c)'
  BY MovesOnKept, PlacesOfClients DEF Recheck, ClientInv, ClientOK, Redeemed
<1>4. Fetch(c) => ClientTypeOK' /\ OnlyMoves(c) /\ ClientOK(c)'
  BY MovesOnKept, PlacesOfClients DEF Fetch, ClientInv, ClientOK, Redeemed
<1>5. ClientStep(c) => ClientTypeOK' /\ OnlyMoves(c) /\ ClientOK(c)'
  BY <1>1, <1>2, <1>3, <1>4, PollKept, RegisterKept, RegisteredKept, RedeemKept,
     SignKept, BusyKept
     DEF ClientStep, RegisterRefused, RecheckRefused, RedeemRefused, FetchRefused,
         SignRefused, BroadcastTimesOut, PollTimesOut, Refused
<1>6. ClientMishap(c) => ClientTypeOK' /\ OnlyMoves(c) /\ ClientOK(c)'
  BY <1>1, RegisteredKept, RedeemKept, SignKept DEF ClientMishap, Interrupted
<1> QED
  BY <1>5, <1>6

LEMMA ClientStepKept ==
    ASSUME RoundInv, MemoryInv, RoundGrows, ClientInv, NEW c \in Clients,
           ClientStep(c) \/ ClientMishap(c)
    PROVE  ClientInv'
BY ClientStepMoves, ClientStepImplements, OneMoves

\* The answer to the last signer.
LEMMA BroadcastKept ==
    ASSUME RoundInv, RoundGrows, ClientInv, NEW r \in Rounds, BroadcastAnswered(r)
    PROVE  ClientInv'
<1>1. UNCHANGED handler
  BY BroadcastImplements
<1>2. CASE UNCHANGED clientVars
  <2>1. \A c \in Clients : ClientOK(c)'
    BY <1>1, <1>2, BystanderKept DEF clientVars, ClientInv
  <2> QED
    BY <1>2, <2>1 DEF clientVars, ClientInv, ClientTypeOK
<1>3. ASSUME NEW c \in Clients, at[c] = "broadcasting",
             (GoTo(c, "done") /\ Keeps) \/ GivesUp(c)
      PROVE  ClientInv'
  <2>1. ClientTypeOK' /\ OnlyMoves(c) /\ ClientOK(c)'
    BY <1>3, GivesUpKept, MovesOnKept DEF ClientInv, ClientOK, Redeemed, Ended
  <2> QED
    BY <1>1, <2>1, OneMoves DEF OthersWait
<1> QED
  BY <1>2, <1>3 DEF BroadcastAnswered, Told, Waits

\* Whoever waits for an answer when the coordinator crashes is gone.
LEMMA CrashKept ==
    ASSUME RoundInv, RoundGrows, ClientInv, CoordinatorCrashes
    PROVE  ClientInv'
<1>1. ClientTypeOK'
  BY RoundAssumption DEF CoordinatorCrashes, ClientInv, ClientTypeOK, Ended, None
<1>2. ASSUME NEW c \in Clients, at[c] \in Awaiting
      PROVE  ClientOK(c)'
  <2>1. at'[c] = "off" /\ session'[c] = None
    BY <1>2 DEF CoordinatorCrashes
  <2>2. roundId' \in Nat \ {0}
    BY RoundAssumption DEF RoundInv, TypeOK, RoundGrows
  <2> QED
    BY <2>1, <2>2 DEF ClientOK, ToldTrue, InItsRound, Redeemed, None
<1>3. ASSUME NEW c \in Clients, at[c] \notin Awaiting
      PROVE  ClientOK(c)'
  BY <1>3, BystanderKept DEF CoordinatorCrashes, ClientInv, Awaiting
<1> QED
  BY <1>1, <1>2, <1>3 DEF ClientInv

-----------------------------------------------------------------------------
(* The rotation of the bot.                                                *)

LEMMA RemainderBound ==
    ASSUME NEW n \in Nat, NEW d \in Nat \ {0}
    PROVE  n % d \in 0..(d - 1)
OBVIOUS

\* The counter always points at a coin of the bot's.
LEMMA PickIsOwn ==
    ASSUME counter \in Nat
    PROVE  PickScriptType \in Wallet[Robot]
<1>1. Rotation \in Seq(Wallet[Robot]) /\ Len(Rotation) \in Nat \ {0}
  BY BotAssumption
<1>2. counter % Len(Rotation) \in 0..(Len(Rotation) - 1)
  BY <1>1, RemainderBound
<1>3. (counter % Len(Rotation)) + 1 \in 1..Len(Rotation)
  BY <1>1, <1>2
<1> QED
  BY <1>1, <1>3 DEF PickScriptType

\* A client that runs goes on with its coin, or ends without it.
Moves(c) ==
    /\ at[c] \in Running
    /\ \/ \E where \in Running \cup Ended :
              at' = [at EXCEPT ![c] = where] /\ coin' = coin
       \/ at' = [at EXCEPT ![c] = "off"] /\ coin' = [coin EXCEPT ![c] = None]

LEMMA OnlyRunnersMove ==
    ASSUME NEW c \in Clients, ClientStep(c) \/ ClientMishap(c)
    PROVE  UNCHANGED <<at, coin>> \/ Moves(c)
<1>1. ASSUME at[c] \in Running, GivesUp(c)
      PROVE  Moves(c)
  BY <1>1 DEF GivesUp, Moves
<1>2. ASSUME at[c] \in Running, NEW where \in Running \cup Ended, GoTo(c, where),
             coin' = coin
      PROVE  Moves(c)
  BY <1>2 DEF GoTo, Moves
<1>3. PollMatches(c) => Moves(c)
  <2> SUFFICES ASSUME PollMatches(c) PROVE Moves(c)
    OBVIOUS
  <2>1. CASE at[c] = "awaitInput"
    BY <1>2, <2>1, PlacesOfClients DEF PollMatches
  <2>2. CASE at[c] = "awaitOutput"
    BY <1>2, <2>2, PlacesOfClients DEF PollMatches
  <2>3. CASE at[c] = "awaitSigning"
    BY <1>2, <2>3, PlacesOfClients DEF PollMatches
  <2> QED
    BY <2>1, <2>2, <2>3, PollingNames DEF PollMatches
<1>4. Register(c) \/ Recheck(c) \/ Fetch(c) => Moves(c)
  BY <1>2, PlacesOfClients DEF Register, Recheck, Fetch, Keeps
<1>5. \A answered \in BOOLEAN : Registered(c, answered) =>
          UNCHANGED <<at, coin>> \/ Moves(c)
  BY <1>1, <1>2, PlacesOfClients DEF Registered, clientVars
<1>6. \A answered \in BOOLEAN : Redeem(c, answered) => Moves(c)
  BY <1>1, <1>2, PlacesOfClients DEF Redeem, Keeps
<1>7. \A answered, assembled \in BOOLEAN : Sign(c, answered, assembled) => Moves(c)
  <2> SUFFICES ASSUME NEW answered \in BOOLEAN, NEW assembled \in BOOLEAN,
                      Sign(c, answered, assembled)
               PROVE  Moves(c)
    OBVIOUS
  <2>1. at[c] \in Running
    BY PlacesOfClients DEF Sign
  <2>2. \/ GivesUp(c)
        \/ \E where \in {"broadcasting", "done"} : GoTo(c, where) /\ Keeps
    BY DEF Sign
  <2> QED
    BY <1>1, <1>2, <2>1, <2>2, PlacesOfClients DEF Ended, Keeps
<1>8. Busy(c) => UNCHANGED <<at, coin>> \/ Moves(c)
  BY <1>1, PlacesOfClients DEF Busy, Calling, Keeps
<1>9. RegisteringFails(c) => UNCHANGED <<at, coin>> \/ Moves(c)
  BY <1>1, PlacesOfClients DEF RegisteringFails, clientVars
<1>10. \/ RegisterRefused(c) \/ RecheckRefused(c) \/ RedeemRefused(c)
       \/ FetchRefused(c) \/ SignRefused(c) \/ BroadcastTimesOut(c)
       => Moves(c)
  BY <1>1, PlacesOfClients DEF RegisterRefused, RecheckRefused, RedeemRefused,
     FetchRefused, SignRefused, BroadcastTimesOut, Refused
<1>11. PollTimesOut(c) \/ Interrupted(c) => Moves(c)
  BY <1>1, PlacesOfClients, PollingNames DEF PollTimesOut, Interrupted
<1> QED
  <2>1. ClientStep(c) => UNCHANGED <<at, coin>> \/ Moves(c)
    BY <1>3, <1>4, <1>5, <1>6, <1>7, <1>8, <1>9, <1>10, <1>11 DEF ClientStep
  <2>2. ClientMishap(c) => UNCHANGED <<at, coin>> \/ Moves(c)
    BY <1>5, <1>6, <1>7, <1>11 DEF ClientMishap
  <2> QED
    BY <2>1, <2>2

\* So do the two steps of the coordinator that end a wait.
LEMMA AnswersMoveRunners ==
    ASSUME NEW r \in Rounds, BroadcastAnswered(r)
    PROVE  UNCHANGED <<at, coin>> \/ \E c \in Clients : Moves(c)
<1>1. ASSUME NEW c \in Clients, at[c] = "broadcasting",
             (GoTo(c, "done") /\ Keeps) \/ GivesUp(c)
      PROVE  Moves(c)
  BY <1>1, PlacesOfClients DEF GoTo, Keeps, GivesUp, Moves, Ended
<1> QED
  BY <1>1 DEF BroadcastAnswered, Told, Waits, clientVars

\* What the bot has to be told for its counter to move.
LEMMA BotFollowed ==
    ASSUME ClientTypeOK, BotOK, BotFollows,
           UNCHANGED <<at, coin>> \/ \E c \in Clients : Moves(c)
    PROVE  BotOK'
<1>1. Robot \in Clients /\ PickScriptType' = PickScriptType
  BY BotAssumption DEF BotFollows, PickScriptType
<1>2. "done" \notin Running /\ "off" \notin Running
  BY PlacesOfClients
<1>3. CASE UNCHANGED <<at, coin>>
  BY <1>1, <1>3 DEF BotOK, BotFollows
<1>4. ASSUME NEW c \in Clients \ {Robot}, Moves(c)
      PROVE  BotOK'
  <2>1. at'[Robot] = at[Robot] /\ coin'[Robot] = coin[Robot]
    BY <1>1, <1>4 DEF Moves, ClientTypeOK
  <2> QED
    BY <1>1, <2>1 DEF BotOK, BotFollows
<1>5. CASE Moves(Robot)
  <2>1. ~unbumped /\ coin[Robot] = PickScriptType
    BY <1>2, <1>5 DEF Moves, BotOK
  <2>2. at'[Robot] = "off" \/ coin'[Robot] = coin[Robot]
    BY <1>1, <1>5 DEF Moves, ClientTypeOK
  <2> QED
    BY <1>1, <1>2, <2>1, <2>2 DEF BotOK, BotFollows
<1> QED
  BY <1>3, <1>4, <1>5

\* Whoever is launched, the bot's rotation is not disturbed.
LEMMA LaunchesFollowed ==
    ASSUME ClientTypeOK, BotOK,
           BotLaunch \/ \E p \in People : PersonLaunch(p)
    PROVE  BotOK'
<1>1. Robot \in Clients /\ PickScriptType' = PickScriptType
  BY BotAssumption DEF BotLaunch, PersonLaunch, botVars, PickScriptType
<1>2. CASE BotLaunch
  BY <1>1, <1>2 DEF BotLaunch, Launch, GoTo, botVars, BotOK, ClientTypeOK
<1>3. ASSUME NEW p \in People, PersonLaunch(p)
      PROVE  BotOK'
  <2>1. at'[Robot] = at[Robot] /\ coin'[Robot] = coin[Robot]
    BY <1>1, <1>3 DEF PersonLaunch, Launch, GoTo, People, ClientTypeOK
  <2> QED
    BY <1>1, <1>3, <2>1 DEF PersonLaunch, botVars, BotOK
<1> QED
  BY <1>2, <1>3

\* Between the signature and the rename nothing else is under way.
LEMMA BumpFollowed ==
    ASSUME BotOK, BumpCounter \/ BotKilledUnbumped
    PROVE  BotOK'
<1>1. "done" \notin Running
  BY PlacesOfClients
<1>2. at[Robot] = "done" /\ UNCHANGED <<at, coin>> /\ unbumped' = FALSE
  BY DEF BumpCounter, BotKilledUnbumped, BotOK, partyVars, clientVars
<1>3. counter' \in Nat
  BY DEF BumpCounter, BotKilledUnbumped, BotOK
<1> QED
  BY <1>1, <1>2, <1>3 DEF BotOK

LEMMA CrashMoves ==
    ASSUME ClientTypeOK, BotOK, CoordinatorCrashes, BotFollows
    PROVE  BotOK'
<1>1. Robot \in Clients /\ PickScriptType' = PickScriptType
  BY BotAssumption DEF BotFollows, PickScriptType
<1>2. "done" \notin Running /\ "off" \notin Running /\ Awaiting \subseteq Running
  BY PlacesOfClients DEF Awaiting
<1>3. CASE at[Robot] \in Awaiting
  <2>1. at'[Robot] = "off" /\ ~unbumped
    BY <1>1, <1>2, <1>3 DEF CoordinatorCrashes, BotOK
  <2> QED
    BY <1>1, <1>2, <2>1 DEF BotOK, BotFollows
<1>4. CASE at[Robot] \notin Awaiting
  <2>1. at'[Robot] = at[Robot] /\ coin'[Robot] = coin[Robot]
    BY <1>1, <1>4 DEF CoordinatorCrashes
  <2> QED
    BY <1>1, <2>1 DEF BotOK, BotFollows
<1> QED
  BY <1>3, <1>4

-----------------------------------------------------------------------------
(* The invariant of the composition.                                       *)

LEMMA BotInitInv == BotInit => BotInv
<1> SUFFICES ASSUME BotInit PROVE BotInv
  OBVIOUS
<1>1. RoundInv /\ MemoryInv
  BY InitInv, InitMemory DEF BotInit, ClientInit, Init
<1>2. "off" \in Ended /\ "off" \notin Running
  BY PlacesOfClients DEF Ended
<1>3. ClientTypeOK
  BY <1>2, ClientAssumption, RoundAssumption DEF BotInit, ClientInit, ClientTypeOK, None
<1>4. ASSUME NEW c \in Clients PROVE ClientOK(c)
  BY DEF BotInit, ClientInit, Init, RoundInit, ClientOK, ToldTrue, InItsRound,
     Redeemed, None
<1>5. BotOK
  BY <1>2, BotAssumption DEF BotInit, ClientInit, BotOK
<1> QED
  BY <1>1, <1>3, <1>4, <1>5 DEF BotInv, ClientInv

LEMMA BotNextClients ==
    ASSUME BotInv, RoundGrows, [BotNext]_allVars
    PROVE  ClientInv'
<1>1. RoundInv /\ MemoryInv /\ ClientInv /\ BotOK
  BY DEF BotInv
<1>2. ASSUME UNCHANGED <<handler, clientVars>>
      PROVE  ClientInv'
  <2>1. \A c \in Clients : ClientOK(c)'
    BY <1>1, <1>2, BystanderKept DEF clientVars, ClientInv
  <2> QED
    BY <1>1, <1>2, <2>1 DEF clientVars, ClientInv, ClientTypeOK
<1>3. CASE UNCHANGED allVars \/ BumpCounter \/ BotKilledUnbumped
  BY <1>2, <1>3 DEF allVars, partyVars, vars, BumpCounter, BotKilledUnbumped
<1>4. CASE BotLaunch
  <2>1. Launch(Robot, PickScriptType) /\ Robot \in Clients
    BY <1>4, BotAssumption DEF BotLaunch
  <2>2. PickScriptType \in Wallet[Robot]
    BY <1>1, PickIsOwn DEF BotOK
  <2> QED
    BY <1>1, <2>1, <2>2, LaunchKept
<1>5. ASSUME NEW p \in People, PersonLaunch(p)
      PROVE  ClientInv'
  BY <1>1, <1>5, LaunchKept DEF PersonLaunch, People
<1>6. ASSUME NEW c \in Clients, ClientStep(c) \/ ClientMishap(c)
      PROVE  ClientInv'
  BY <1>1, <1>6, ClientStepKept
<1>7. ASSUME NEW r \in Rounds, BroadcastAnswered(r)
      PROVE  ClientInv'
  BY <1>1, <1>7, BroadcastKept
<1>8. CASE CoordinatorSteps
  BY <1>2, <1>8, CoordinatorStepImplements
<1>9. CASE CoordinatorCrashes
  BY <1>1, <1>9, CrashKept
<1> QED
  BY <1>3, <1>4, <1>5, <1>6, <1>7, <1>8, <1>9 DEF BotNext

LEMMA BotNextRotation ==
    ASSUME BotInv, [BotNext]_allVars
    PROVE  BotOK'
<1>1. ClientTypeOK /\ BotOK
  BY DEF BotInv, ClientInv
<1>2. CASE UNCHANGED allVars
  <2>1. PickScriptType' = PickScriptType
    BY <1>2 DEF allVars, botVars, PickScriptType
  <2> QED
    BY <1>1, <1>2, <2>1 DEF allVars, botVars, partyVars, clientVars, BotOK
<1>3. ASSUME NEW c \in Clients, ClientStep(c) \/ ClientMishap(c), BotFollows
      PROVE  BotOK'
  BY <1>1, <1>3, OnlyRunnersMove, BotFollowed
<1>4. ASSUME NEW r \in Rounds, BroadcastAnswered(r), BotFollows
      PROVE  BotOK'
  BY <1>1, <1>4, AnswersMoveRunners, BotFollowed
<1>5. CASE CoordinatorSteps /\ BotFollows
  <2>1. UNCHANGED <<at, coin>>
    BY <1>5, CoordinatorStepImplements DEF clientVars
  <2> QED
    BY <1>1, <1>5, <2>1, BotFollowed
<1> QED
  BY <1>1, <1>2, <1>3, <1>4, <1>5, LaunchesFollowed, BumpFollowed, CrashMoves DEF BotNext

LEMMA BotNextInv ==
    ASSUME BotInv, [BotNext]_allVars
    PROVE  BotInv'
<1>1. [Next]_vars /\ [RoundNext]_roundVars
  BY BotStepImplements, StepImplements DEF BotInv
<1>2. RoundInv' /\ MemoryInv' /\ RoundGrows
  BY <1>1, NextKeepsInv, NextMemory, RoundOnlyGrows DEF BotInv
<1> QED
  BY <1>2, BotNextClients, BotNextRotation DEF BotInv

LEMMA BotInvariant == BotSpec => []BotInv
<1>1. BotInit => BotInv
  BY BotInitInv
<1>2. BotInv /\ [BotNext]_allVars => BotInv'
  BY BotNextInv
<1> QED
  BY <1>1, <1>2, PTL DEF BotSpec

\* People, bot and mishaps do to the coordinator only what Coordinator allows:
\* whatever is proved of it holds with these clients.
THEOREM ClientsImplementCoordinator == BotSpec => Spec
<1>1. BotInit => Init
  BY DEF BotInit, ClientInit
<1>2. BotInv /\ [BotNext]_allVars => [Next]_vars
  BY BotStepImplements DEF BotInv
<1> QED
  BY <1>1, <1>2, BotInvariant, PTL DEF BotSpec, Spec

-----------------------------------------------------------------------------
(* Who waits for whom: what NoMutualWait rests on.                         *)

\* What a client knows agrees with where it is: until its registration is answered
\* it has no session, and the round of its /info is the one of its session; until
\* it has redeemed its token, nobody has; and it waits for a broadcast only of a
\* round in Broadcast.
PlaceOK(c) ==
    /\ at[c] \in {"awaitInput", "register"} => handler[c] = NoRequest
    /\ info[c] <= roundId
    /\ phase = "Idle" => info[c] # roundId
    /\ session[c] # None => info[c] = session[c]
    /\ at[c] \in {"awaitInput", "register", "registering"} => session[c] = None
    /\ at[c] \in {"awaitOutput", "recheck", "redeem"} /\ InItsRound(c) =>
          coin[c] \notin outputs
    /\ at[c] = "broadcasting" /\ InItsRound(c) => phase = "Broadcast"

\* Only one client's signature was the last.
OneBroadcaster ==
    \A c, d \in Clients :
        /\ at[c] = "broadcasting" /\ InItsRound(c)
        /\ at[d] = "broadcasting" /\ InItsRound(d)
        => c = d

\* The owner of u is gone, or waits for the finalize task.
GoneOrWaiting(u) ==
    \A c \in Clients : coin[c] = u /\ InItsRound(c) =>
        /\ at[c] = "broadcasting"
        /\ phase = "Broadcast"
        /\ task[roundId].pc # "none"

\* Once everybody signed, somebody did it last.
SomebodyWasLast ==
    Sealed /\ sigs = Inputs => \E u \in Inputs : GoneOrWaiting(u)

WaitInv ==
    /\ \A c \in Clients : PlaceOK(c)
    /\ OneBroadcaster
    /\ SomebodyWasLast

\* A round in Broadcast goes nowhere but back to Idle, and the outputs of a round
\* change only with a token that is redeemed.
LEMMA BroadcastGoesIdle ==
    ASSUME RoundInv, [RoundNext]_roundVars, phase = "Broadcast"
    PROVE  phase' \in {"Broadcast", "Idle"}
BY DEF RoundNext, roundVars, InstallRound, RegisterInput, InputRegTimeout, RecordOutput,
   OutputRegTimeout, RecordSignature, SigningTimeout, BroadcastEnds, Restart, EndRound,
   EndRoundViaBlame, Reset

\* Whoever is in his round after a step that leaves his session alone was in it.
LEMMA WasInItsRound ==
    ASSUME RoundInv, RoundGrows, ClientTypeOK, NEW c \in Clients, ClientOK(c),
           session'[c] = session[c], InItsRound(c)'
    PROVE  /\ InItsRound(c) /\ roundId' = roundId /\ session[c] # None
           /\ phase # "Idle" /\ phase' # "Idle"
<1>1. roundId \in Nat \ {0} /\ session[c] \in Nat
  BY RoundAssumption DEF RoundInv, TypeOK, ClientTypeOK
<1> QED
  BY <1>1 DEF RoundGrows, ClientOK, InItsRound, None

\* A client that does nothing stays where it may be.
LEMMA BystanderPlaced ==
    ASSUME RoundInv, [RoundNext]_roundVars, RoundGrows, ClientTypeOK,
           NEW c \in Clients, ClientOK(c), PlaceOK(c),
           at'[c] = at[c], coin'[c] = coin[c], info'[c] = info[c],
           session'[c] = session[c],
           handler'[c] \in {handler[c], NoRequest},
           coin[c] \in outputs' /\ at[c] \in {"awaitOutput", "recheck", "redeem"} =>
               coin[c] \in outputs
    PROVE  PlaceOK(c)'
<1>1. roundId \in Nat /\ roundId' \in Nat /\ info[c] \in Nat
  BY RoundAssumption DEF RoundInv, TypeOK, RoundGrows, ClientTypeOK
<1>2. info[c] <= roundId' /\ (phase' = "Idle" => info[c] # roundId')
  BY <1>1 DEF RoundGrows, PlaceOK
<1>3. InItsRound(c)' /\ at[c] = "broadcasting" => phase' = "Broadcast"
  BY WasInItsRound, BroadcastGoesIdle DEF PlaceOK
<1>4. InItsRound(c)' /\ at[c] \in {"awaitOutput", "recheck", "redeem"} =>
          coin[c] \notin outputs'
  BY WasInItsRound DEF PlaceOK
<1>5. at[c] \in {"awaitInput", "register"} => handler'[c] = NoRequest
  BY DEF PlaceOK
<1> QED
  BY <1>2, <1>3, <1>4, <1>5 DEF PlaceOK

\* A process that ends waits for nobody.
LEMMA LeaverPlaced ==
    ASSUME RoundInv, RoundGrows, ClientTypeOK, NEW c \in Clients, GivesUp(c)
    PROVE  PlaceOK(c)'
<1>1. at'[c] = "off" /\ info'[c] = None /\ session'[c] = None
  BY DEF GivesUp, ClientTypeOK
<1>2. roundId' \in Nat \ {0}
  BY RoundAssumption DEF RoundInv, TypeOK, RoundGrows
<1> QED
  BY <1>1, <1>2 DEF PlaceOK, None

\* One that goes on with what it knows.
LEMMA MoverPlaced ==
    ASSUME RoundInv, RoundGrows, ClientTypeOK, NEW c \in Clients, ClientOK(c),
           PlaceOK(c), NEW where \in (Running \cup Ended) \ {"awaitInput", "register"},
           GoTo(c, where), Keeps,
           where = "registering" => at[c] = "register",
           where \in {"awaitOutput", "recheck", "redeem"} =>
               at[c] \in {"awaitOutput", "recheck", "redeem"} /\ outputs' = outputs,
           where = "broadcasting" => phase' = "Broadcast"
    PROVE  PlaceOK(c)'
<1>1. /\ at'[c] = where /\ coin'[c] = coin[c] /\ info'[c] = info[c]
      /\ session'[c] = session[c]
  BY DEF GoTo, Keeps, ClientTypeOK
<1>2. roundId \in Nat /\ roundId' \in Nat /\ info[c] \in Nat
  BY RoundAssumption DEF RoundInv, TypeOK, RoundGrows, ClientTypeOK
<1>3. info[c] <= roundId' /\ (phase' = "Idle" => info[c] # roundId')
  BY <1>2 DEF RoundGrows, PlaceOK
<1>4. InItsRound(c)' /\ where \in {"awaitOutput", "recheck", "redeem"} =>
          coin[c] \notin outputs'
  BY <1>1, WasInItsRound DEF PlaceOK
<1> QED
  BY <1>1, <1>3, <1>4 DEF PlaceOK

\* The steps that tell a client a round.
LEMMA PollPlaced ==
    ASSUME RoundInv, RoundGrows, ClientInv, NEW c \in Clients, PlaceOK(c),
           PollMatches(c)
    PROVE  PlaceOK(c)'
<1>1. UNCHANGED <<roundVars, handler>>
  BY DEF PollMatches, coordinatorVars, vars
<1>2. CASE at[c] = "awaitInput"
  <2>1. GoTo(c, "register") /\ info' = [info EXCEPT ![c] = roundId]
        /\ UNCHANGED <<coin, session>> /\ phase = "InputReg"
    BY <1>2 DEF PollMatches, Polling
  <2>2. at'[c] = "register" /\ info'[c] = roundId /\ session'[c] = session[c]
    BY <2>1 DEF GoTo, ClientInv, ClientTypeOK
  <2>3. roundId \in Nat
    BY RoundAssumption DEF RoundInv, TypeOK
  <2> QED
    BY <1>1, <1>2, <2>1, <2>2, <2>3 DEF PlaceOK, roundVars
<1>3. CASE at[c] = "awaitOutput"
  <2>1. GoTo(c, "recheck") /\ Keeps
    BY <1>3 DEF PollMatches, Keeps
  <2> QED
    BY <1>1, <1>3, <2>1, MoverPlaced, PlacesOfClients DEF ClientInv, roundVars
<1>4. CASE at[c] = "awaitSigning"
  <2>1. GoTo(c, "fetch") /\ Keeps
    BY <1>4 DEF PollMatches, Keeps
  <2> QED
    BY <1>1, <1>4, <2>1, MoverPlaced, PlacesOfClients DEF ClientInv, roundVars
<1> QED
  BY <1>2, <1>3, <1>4, PollingNames DEF PollMatches

\* A registration that is answered: the round has no outputs yet.
LEMMA RegisteredPlaced ==
    ASSUME RoundInv, MemoryInv, [RoundNext]_roundVars, RoundGrows, ClientInv,
           NEW c \in Clients, PlaceOK(c), NEW answered \in BOOLEAN,
           Registered(c, answered)
    PROVE  PlaceOK(c)'
<1>1. InputCommit(c)
  BY DEF Registered
<1>2. CASE at[c] # "registering"
  <2>1. UNCHANGED clientVars
    BY <1>2 DEF Registered
  <2>2. handler'[c] = NoRequest /\ outputs' = outputs
    BY <1>1 DEF InputCommit, RegisterInput, MemoryInv, Clients
  <2> QED
    BY <2>1, <2>2, BystanderPlaced DEF clientVars, ClientInv
<1>3. CASE at[c] = "registering" /\ ~(answered /\ BlindSignatureIsValid(c))
  BY <1>3, LeaverPlaced DEF Registered, ClientInv
<1>4. CASE at[c] = "registering" /\ answered /\ BlindSignatureIsValid(c)
  <2>1. GoTo(c, "awaitOutput") /\ session' = [session EXCEPT ![c] = roundId]
        /\ UNCHANGED <<coin, info>>
    BY <1>4 DEF Registered
  <2>2. RegisterInput(coin[c], info[c])
    BY <1>4 DEF Registered, InputCommit, ClientInv, ClientOK
  <2>3. /\ phase = "InputReg" /\ phase' # "Idle" /\ roundId' = roundId
        /\ outputs' = {} /\ info[c] = roundId
    BY <1>4, <2>2 DEF RegisterInput, BlindSignatureIsValid, RoundInv,
       MaterialIsTheRounds, OutputsAreRedeemed
  <2>4. at'[c] = "awaitOutput" /\ session'[c] = roundId /\ info'[c] = info[c]
    BY <2>1 DEF GoTo, ClientInv, ClientTypeOK
  <2>5. roundId \in Nat
    BY RoundAssumption DEF RoundInv, TypeOK
  <2> QED
    BY <2>3, <2>4, <2>5 DEF PlaceOK
<1> QED
  BY <1>2, <1>3, <1>4

LEMMA SignPlaced ==
    ASSUME RoundInv, RoundGrows, ClientInv, NEW c \in Clients, PlaceOK(c),
           NEW answered \in BOOLEAN, NEW assembled \in BOOLEAN,
           Sign(c, answered, assembled)
    PROVE  PlaceOK(c)'
<1>1. CASE GivesUp(c)
  BY <1>1, LeaverPlaced DEF ClientInv
<1>2. CASE GoTo(c, IF phase' = "Broadcast" THEN "broadcasting" ELSE "done") /\ Keeps
  BY <1>2, MoverPlaced, PlacesOfClients DEF ClientInv, Ended
<1> QED
  BY <1>1, <1>2 DEF Sign

LEMMA ClientStepPlaced ==
    ASSUME RoundInv, MemoryInv, [RoundNext]_roundVars, RoundGrows, ClientInv,
           NEW c \in Clients, PlaceOK(c), ClientStep(c) \/ ClientMishap(c)
    PROVE  PlaceOK(c)'
<1>1. ClientTypeOK /\ ClientOK(c)
  BY DEF ClientInv
<1>2. GivesUp(c) => PlaceOK(c)'
  BY <1>1, LeaverPlaced
<1>3. Register(c) => PlaceOK(c)'
  BY <1>1, MoverPlaced, PlacesOfClients DEF Register
<1>4. Recheck(c) => PlaceOK(c)'
  BY <1>1, MoverPlaced, PlacesOfClients DEF Recheck, coordinatorVars, vars, roundVars
<1>5. Fetch(c) => PlaceOK(c)'
  BY <1>1, MoverPlaced, PlacesOfClients DEF Fetch
<1>6. \A answered \in BOOLEAN : Redeem(c, answered) => PlaceOK(c)'
  BY <1>1, <1>2, MoverPlaced, PlacesOfClients DEF Redeem
<1>7. RegisteringFails(c) => PlaceOK(c)'
  <2>1. CASE UNCHANGED clientVars /\ InputFails(c)
    <3>1. handler'[c] = NoRequest /\ outputs' = outputs
      BY <2>1 DEF InputFails, roundVars, MemoryInv, Clients
    <3> QED
      BY <1>1, <2>1, <3>1, BystanderPlaced DEF clientVars
  <2> QED
    BY <1>2, <2>1 DEF RegisteringFails
<1>8. Busy(c) => PlaceOK(c)'
  <2>1. CASE UNCHANGED <<vars, at, coin, info, session>>
    BY <1>1, <2>1, BystanderPlaced DEF vars, roundVars
  <2> QED
    BY <1>2, <2>1 DEF Busy, Keeps, coordinatorVars
<1>9. ClientStep(c) => PlaceOK(c)'
  BY <1>2, <1>3, <1>4, <1>5, <1>6, <1>7, <1>8, PollPlaced, RegisteredPlaced, SignPlaced
     DEF ClientStep, RegisterRefused, RecheckRefused, RedeemRefused, FetchRefused,
         SignRefused, BroadcastTimesOut, PollTimesOut, Refused
<1>10. ClientMishap(c) => PlaceOK(c)'
  BY <1>2, <1>6, RegisteredPlaced, SignPlaced DEF ClientMishap, Interrupted
<1> QED
  BY <1>9, <1>10

\* Only the client that redeems its token adds an output, and it is its own; only one
\* that signs adds a signature.
LEMMA ClientAdds ==
    ASSUME NEW c \in Clients, ClientStep(c) \/ ClientMishap(c)
    PROVE  /\ \/ outputs' = outputs
              \/ at[c] = "redeem" /\ outputs' = outputs \cup {coin[c]}
           /\ \/ sigs' = sigs /\ task' = task
              \/ \E answered, assembled \in BOOLEAN : Sign(c, answered, assembled)
<1> DEFINE Quiet == outputs' = outputs /\ sigs' = sigs /\ task' = task
<1>1. UNCHANGED vars => Quiet
  BY DEF vars, roundVars
<1>2. Register(c) => Quiet
  BY DEF Register, InputValidate, roundVars
<1>3. \A answered \in BOOLEAN : Registered(c, answered) => Quiet
  BY DEF Registered, InputCommit, RegisterInput
<1>4. RegisteringFails(c) => Quiet
  BY DEF RegisteringFails, InputFails, roundVars
<1>5. \A answered \in BOOLEAN : Redeem(c, answered) =>
          /\ at[c] = "redeem" /\ outputs' = outputs \cup {coin[c]}
          /\ sigs' = sigs /\ task' = task
  BY DEF Redeem, PostOutput, RecordOutput
<1>6. \A answered, assembled \in BOOLEAN : Sign(c, answered, assembled) =>
          outputs' = outputs
  BY DEF Sign, PostSign, RecordSignature
<1> HIDE DEF Quiet
<1>7. ClientStep(c) =>
          \/ Quiet
          \/ \E answered \in BOOLEAN : Redeem(c, answered)
          \/ \E answered, assembled \in BOOLEAN : Sign(c, answered, assembled)
  BY <1>1, <1>2, <1>3, <1>4 DEF ClientStep, PollMatches, RegisterRefused,
     Recheck, RecheckRefused, RedeemRefused, Fetch, FetchRefused, SignRefused,
     BroadcastTimesOut, PollTimesOut, Busy, Refused, coordinatorVars
<1>8. ClientMishap(c) =>
          \/ Quiet
          \/ \E answered \in BOOLEAN : Redeem(c, answered)
          \/ \E answered, assembled \in BOOLEAN : Sign(c, answered, assembled)
  BY <1>1, <1>3 DEF ClientMishap, Interrupted, coordinatorVars
<1> QED
  BY <1>5, <1>6, <1>7, <1>8 DEF Quiet

\* The coordinator's own steps add none.
LEMMA CoordinatorAdds ==
    ASSUME \/ CoordinatorSteps \/ CoordinatorCrashes
           \/ \E r \in Rounds : BroadcastAnswered(r)
    PROVE  outputs' \subseteq outputs /\ sigs' \subseteq sigs
<1> DEFINE Quiet == outputs' \subseteq outputs /\ sigs' \subseteq sigs
<1>1. Reset => Quiet
  BY DEF Reset
<1>2. UNCHANGED roundVars => Quiet
  BY DEF roundVars
<1>3. (\E q \in Phases : Advance(q)) \/ InstallRound(keygen) => Quiet
  BY DEF Advance, InstallRound
<1> HIDE DEF Quiet
<1>4. EndRound \/ EndRoundViaBlame \/ Restart => Quiet
  BY <1>1 DEF EndRound, EndRoundViaBlame, Restart
<1>5. Monitor => Quiet
  BY <1>2, <1>3 DEF Monitor, MonitorStart, MonitorInstall, KeygenFails, ArmTimer
<1>6. ASSUME NEW r \in Rounds, TimerFires(r)
      PROVE  Quiet
  <2>1. (\E p \in TimedPhases : StaleTimer(p, r)) => Quiet
    BY <1>2 DEF StaleTimer
  <2>2. InputRegTimer(r) \/ OutputRegTimer(r) => Quiet
    BY <1>3, <1>4 DEF InputRegTimer, InputRegTimeout, OutputRegTimer, OutputRegTimeout,
       Phases
  <2>3. SigningTimer(r) \/ WatchdogTimer(r) => Quiet
    BY <1>4 DEF SigningTimer, SigningTimeout, WatchdogTimer
  <2> QED
    BY <1>6, <2>1, <2>2, <2>3 DEF TimerFires
<1>7. ASSUME NEW r \in Rounds, FinalizeProceeds(r)
      PROVE  Quiet
  BY <1>2, <1>7 DEF FinalizeProceeds, TestAccepted, TestRefused, SendAccepted,
     SendRefused, Revalidate, TaskOnly
<1>8. ASSUME NEW r \in Rounds, BroadcastAnswered(r)
      PROVE  Quiet
  BY <1>2, <1>4, <1>8 DEF BroadcastAnswered, FinalizeSuccess, FinalizeFailure, TaskDies
<1>9. PauseLapses \/ (\E u \in Utxos : BanExpires(u) \/ OwnerSpends(u)) => Quiet
  BY <1>2 DEF PauseLapses, BanExpires, OwnerSpends
<1>10. CoordinatorCrashes => Quiet
  BY <1>4 DEF CoordinatorCrashes, Crash
<1>11. Quiet
  BY <1>5, <1>6, <1>7, <1>8, <1>9, <1>10 DEF CoordinatorSteps
<1> QED
  BY <1>11 DEF Quiet

\* No coin belongs to two.
LEMMA CoinsAreOwn ==
    ASSUME NEW c \in Clients, NEW d \in Clients, NEW u \in Wallet[c], u \in Wallet[d]
    PROVE  c = d
BY ClientAssumption

\* One moves, the others stay where they may be.
LEMMA OthersPlaced ==
    ASSUME RoundInv, [RoundNext]_roundVars, RoundGrows, ClientInv, NEW c \in Clients,
           \A d \in Clients : PlaceOK(d), OnlyMoves(c), OthersWait(c),
           \/ outputs' \subseteq outputs
           \/ at[c] = "redeem" /\ outputs' = outputs \cup {coin[c]},
           PlaceOK(c)'
    PROVE  \A d \in Clients : PlaceOK(d)'
<1> SUFFICES ASSUME NEW d \in Clients \ {c} PROVE PlaceOK(d)'
  OBVIOUS
<1>1. coin[d] \in outputs' /\ at[d] \in {"awaitOutput", "recheck", "redeem"} =>
          coin[d] \in outputs
  BY CoinsAreOwn DEF ClientInv, ClientOK
<1> QED
  BY <1>1, BystanderPlaced DEF ClientInv, OnlyMoves, OthersWait

LEMMA LaunchPlaced ==
    ASSUME RoundInv, [RoundNext]_roundVars, RoundGrows, ClientInv, NEW c \in Clients,
           \A d \in Clients : PlaceOK(d), NEW u \in Wallet[c], Launch(c, u)
    PROVE  \A d \in Clients : PlaceOK(d)'
<1>1. UNCHANGED <<roundVars, handler>>
  BY DEF Launch, coordinatorVars, vars
<1>2. OnlyMoves(c) /\ OthersWait(c)
  BY <1>1 DEF Launch, GoTo, ClientInv, ClientTypeOK, OnlyMoves, OthersWait
<1>3. at'[c] = "awaitInput" /\ info'[c] = None /\ session'[c] = None
  BY DEF Launch, GoTo, ClientInv, ClientTypeOK
<1>4. roundId \in Nat \ {0}
  BY RoundAssumption DEF RoundInv, TypeOK
<1>5. PlaceOK(c)'
  BY <1>1, <1>3, <1>4 DEF Launch, PlaceOK, None, roundVars
<1> QED
  BY <1>1, <1>2, <1>5, OthersPlaced DEF roundVars

LEMMA ClientsStayPlaced ==
    ASSUME BotInv, [RoundNext]_roundVars, RoundGrows, \A d \in Clients : PlaceOK(d),
           [BotNext]_allVars
    PROVE  \A d \in Clients : PlaceOK(d)'
<1>1. RoundInv /\ MemoryInv /\ ClientInv /\ BotOK
  BY DEF BotInv
<1>2. ASSUME UNCHANGED <<handler, clientVars>>, outputs' \subseteq outputs
      PROVE  \A d \in Clients : PlaceOK(d)'
  BY <1>1, <1>2, BystanderPlaced DEF ClientInv, clientVars
<1>3. CASE UNCHANGED allVars \/ BumpCounter \/ BotKilledUnbumped
  BY <1>2, <1>3 DEF allVars, partyVars, vars, roundVars, BumpCounter, BotKilledUnbumped
<1>4. CASE BotLaunch
  <2>1. Launch(Robot, PickScriptType) /\ Robot \in Clients
    BY <1>4, BotAssumption DEF BotLaunch
  <2>2. PickScriptType \in Wallet[Robot]
    BY <1>1, PickIsOwn DEF BotOK
  <2> QED
    BY <1>1, <2>1, <2>2, LaunchPlaced
<1>5. ASSUME NEW p \in People, PersonLaunch(p)
      PROVE  \A d \in Clients : PlaceOK(d)'
  BY <1>1, <1>5, LaunchPlaced DEF PersonLaunch, People
<1>6. ASSUME NEW c \in Clients, ClientStep(c) \/ ClientMishap(c)
      PROVE  \A d \in Clients : PlaceOK(d)'
  <2>1. OnlyMoves(c) /\ OthersWait(c) /\ PlaceOK(c)'
    BY <1>1, <1>6, ClientStepMoves, ClientStepImplements, ClientStepPlaced
  <2> QED
    BY <1>1, <1>6, <2>1, ClientAdds, OthersPlaced
<1>7. ASSUME NEW r \in Rounds, BroadcastAnswered(r)
      PROVE  \A d \in Clients : PlaceOK(d)'
  <2>1. UNCHANGED handler /\ outputs' \subseteq outputs
    BY <1>7, BroadcastImplements, CoordinatorAdds
  <2>2. ASSUME NEW c \in Clients, at[c] = "broadcasting",
               (GoTo(c, "done") /\ Keeps) \/ GivesUp(c)
        PROVE  \A d \in Clients : PlaceOK(d)'
    <3>1. OnlyMoves(c)
      BY <1>1, <2>2 DEF GoTo, Keeps, GivesUp, ClientInv, ClientTypeOK, OnlyMoves
    <3>2. PlaceOK(c)'
      BY <1>1, <2>2, LeaverPlaced, MoverPlaced DEF ClientInv, Ended
    <3> QED
      BY <1>1, <2>1, <3>1, <3>2, OthersPlaced DEF OthersWait
  <2>3. CASE UNCHANGED clientVars
    BY <1>2, <2>1, <2>3
  <2> QED
    BY <1>7, <2>2, <2>3 DEF BroadcastAnswered, Told, Waits
<1>8. CASE CoordinatorSteps
  BY <1>2, <1>8, CoordinatorStepImplements, CoordinatorAdds
<1>9. CASE CoordinatorCrashes
  <2>1. /\ outputs' \subseteq outputs
        /\ \A d \in Clients : handler'[d] = NoRequest
        /\ roundId' \in Nat \ {0}
    <3>1. handler' = [h \in Clients |-> NoRequest]
      BY <1>9 DEF CoordinatorCrashes, Crash, Clients
    <3>2. roundId' \in Nat \ {0}
      BY <1>1, RoundAssumption DEF RoundInv, TypeOK, RoundGrows
    <3> QED
      BY <1>9, <3>1, <3>2, CoordinatorAdds
  <2>2. ASSUME NEW d \in Clients, at[d] \in Awaiting
        PROVE  PlaceOK(d)'
    <3>1. at'[d] = "off" /\ info'[d] = None /\ session'[d] = None
      BY <1>9, <2>2 DEF CoordinatorCrashes
    <3> QED
      BY <2>1, <3>1 DEF PlaceOK, None
  <2>3. ASSUME NEW d \in Clients, at[d] \notin Awaiting
        PROVE  PlaceOK(d)'
    BY <1>1, <1>9, <2>1, <2>3, BystanderPlaced DEF CoordinatorCrashes, ClientInv
  <2> QED
    BY <2>2, <2>3
<1> QED
  BY <1>3, <1>4, <1>5, <1>6, <1>7, <1>8, <1>9 DEF BotNext

\* A client's session is over after the step, or it waits for a broadcast of the same
\* session exactly when it did before.
Remains(c) ==
    \/ session'[c] = None
    \/ /\ session'[c] = session[c] /\ coin'[c] = coin[c]
       /\ at'[c] = "broadcasting" <=> at[c] = "broadcasting"

LEMMA ClientRemains ==
    ASSUME ClientInv, NEW c \in Clients, ClientStep(c) \/ ClientMishap(c)
    PROVE  \/ Remains(c)
           \/ phase = "InputReg" /\ at'[c] = "awaitOutput"
           \/ \E answered, assembled \in BOOLEAN : Sign(c, answered, assembled)
<1>1. GivesUp(c) => Remains(c)
  BY DEF GivesUp, Remains, ClientInv, ClientTypeOK
<1>2. UNCHANGED <<at, coin, session>> => Remains(c)
  BY DEF Remains
<1>3. ASSUME NEW where \in (Running \cup Ended) \ {"broadcasting"}, GoTo(c, where),
             UNCHANGED <<coin, session>>, at[c] # "broadcasting"
      PROVE  Remains(c)
  BY <1>3 DEF GoTo, Remains, ClientInv, ClientTypeOK
<1>4. PollMatches(c) => Remains(c)
  <2> SUFFICES ASSUME PollMatches(c) PROVE Remains(c)
    OBVIOUS
  <2>1. CASE at[c] = "awaitInput"
    BY <1>3, <2>1, PlacesOfClients DEF PollMatches
  <2>2. CASE at[c] = "awaitOutput"
    BY <1>3, <2>2, PlacesOfClients DEF PollMatches
  <2>3. CASE at[c] = "awaitSigning"
    BY <1>3, <2>3, PlacesOfClients DEF PollMatches
  <2> QED
    BY <2>1, <2>2, <2>3, PollingNames DEF PollMatches
<1>5. Register(c) \/ Recheck(c) \/ Fetch(c) => Remains(c)
  BY <1>3, PlacesOfClients DEF Register, Recheck, Fetch, Keeps
<1>6. \A answered \in BOOLEAN : Redeem(c, answered) => Remains(c)
  BY <1>1, <1>3, PlacesOfClients DEF Redeem, Keeps
<1>7. \A answered \in BOOLEAN : Registered(c, answered) =>
          \/ Remains(c)
          \/ phase = "InputReg" /\ at'[c] = "awaitOutput"
  <2>1. GoTo(c, "awaitOutput") => at'[c] = "awaitOutput"
    BY DEF GoTo, ClientInv, ClientTypeOK
  <2>2. InputCommit(c) => phase = "InputReg"
    BY DEF InputCommit, RegisterInput
  <2>3. UNCHANGED clientVars => Remains(c)
    BY <1>2 DEF clientVars
  <2> QED
    BY <1>1, <2>1, <2>2, <2>3 DEF Registered
<1>8. Busy(c) \/ RegisteringFails(c) => Remains(c)
  BY <1>1, <1>2 DEF Busy, Keeps, RegisteringFails, clientVars
<1>9. \/ RegisterRefused(c) \/ RecheckRefused(c) \/ RedeemRefused(c)
      \/ FetchRefused(c) \/ SignRefused(c) \/ BroadcastTimesOut(c)
      \/ PollTimesOut(c) \/ Interrupted(c)
      => Remains(c)
  BY <1>1 DEF RegisterRefused, RecheckRefused, RedeemRefused, FetchRefused,
     SignRefused, BroadcastTimesOut, Refused, PollTimesOut, Interrupted
<1> QED
  BY <1>4, <1>5, <1>6, <1>7, <1>8, <1>9 DEF ClientStep, ClientMishap

\* Whoever remains and waits for the broadcast of his round after a step did before.
LEMMA WaitedBefore ==
    ASSUME RoundInv, RoundGrows, ClientInv, NEW c \in Clients, Remains(c),
           InItsRound(c)'
    PROVE  /\ InItsRound(c) /\ coin'[c] = coin[c]
           /\ at'[c] = "broadcasting" <=> at[c] = "broadcasting"
<1>1. roundId' \in Nat \ {0}
  BY RoundAssumption DEF RoundInv, TypeOK, RoundGrows
<1>2. session'[c] # None
  BY <1>1 DEF InItsRound, None
<1> QED
  BY <1>2, WasInItsRound DEF Remains, ClientInv

LEMMA NobodyElseBroadcasts ==
    ASSUME RoundInv, RoundGrows, ClientInv, OneBroadcaster,
           \A c \in Clients : Remains(c) \/ at'[c] # "broadcasting"
    PROVE  OneBroadcaster'
BY WaitedBefore DEF OneBroadcaster

LEMMA OneSigns ==
    ASSUME RoundInv, RoundGrows, ClientInv, \A c \in Clients : PlaceOK(c),
           NEW c \in Clients, NEW answered \in BOOLEAN, NEW assembled \in BOOLEAN,
           Sign(c, answered, assembled), OnlyMoves(c)
    PROVE  OneBroadcaster'
<1>1. phase = "Signing"
  BY DEF Sign, CanSign
<1>2. \A d \in Clients \ {c} : Remains(d)
  BY DEF OnlyMoves, Remains
<1>3. \A d \in Clients \ {c} : ~(at'[d] = "broadcasting" /\ InItsRound(d)')
  BY <1>1, <1>2, WaitedBefore DEF PlaceOK
<1> QED
  BY <1>3 DEF OneBroadcaster

\* A round whose members all signed is not touched until it ends.
LEMMA SignedRoundStands ==
    ASSUME RoundInv, RoundInv', [RoundNext]_roundVars, sigs' \subseteq sigs,
           Sealed', sigs' = Inputs'
    PROVE  UNCHANGED roundVars /\ Sealed /\ sigs = Inputs
<1>1. Inputs' # {}
  BY FS_EmptySet, RoundAssumption DEF RoundInv, SealedIsBalanced
<1>2. sigs # {}
  BY <1>1
<1>3. Sealed
  BY <1>2 DEF RoundInv, BroadcastIsFullySigned
<1>4. ~(\E u \in Utxos, assembled \in BOOLEAN : RecordSignature(u, assembled))
  BY DEF RecordSignature
<1>5. UNCHANGED roundVars
  BY <1>3, <1>4 DEF RoundNext, InstallRound, RegisterInput, InputRegTimeout, RecordOutput,
     OutputRegTimeout, SigningTimeout, BroadcastEnds, Restart, EndRound,
     EndRoundViaBlame, Reset, Sealed
<1> QED
  BY <1>3, <1>5 DEF roundVars, Inputs

\* Neither the clients nor the other steps of the coordinator end a finalize task.
LEMMA TasksGoOn ==
    ASSUME TasksTypeOK, CoordinatorSteps, NEW r \in Rounds, task[r].pc # "none"
    PROVE  task'[r].pc # "none"
<1>1. ASSUME NEW q \in Rounds, NEW from, NEW to \in {"send", "won", "revalidate"},
             TaskStep(q, from, to)
      PROVE  task'[r].pc # "none"
  BY <1>1 DEF TaskStep, TasksTypeOK, TaskRecords
<1>2. ASSUME NEW q \in Rounds, NEW u \in Utxos, NEW ok \in BOOLEAN, Revalidate(q, u, ok)
      PROVE  task'[r].pc # "none"
  <2>1. Revalidated(task[q], u, ok).pc = task[q].pc
    BY <1>2, RevalidatedKeeps DEF Revalidate, TasksTypeOK
  <2> QED
    BY <1>2, <2>1 DEF Revalidate, TasksTypeOK
<1>3. ASSUME NEW q \in Rounds, FinalizeProceeds(q)
      PROVE  task'[r].pc # "none"
  BY <1>1, <1>2, <1>3 DEF FinalizeProceeds, TestAccepted, TestRefused, SendAccepted,
     SendRefused
<1>4. Monitor => task' = task
  BY DEF Monitor, MonitorStart, MonitorInstall, KeygenFails, ArmTimer
<1>5. ASSUME NEW q \in Rounds, TimerFires(q)
      PROVE  task' = task
  BY <1>5 DEF TimerFires, StaleTimer, InputRegTimer, OutputRegTimer, SigningTimer,
     WatchdogTimer, Fires
<1>6. PauseLapses \/ (\E u \in Utxos : BanExpires(u) \/ OwnerSpends(u)) => task' = task
  BY DEF PauseLapses, BanExpires, OwnerSpends
<1> QED
  BY <1>3, <1>4, <1>5, <1>6 DEF CoordinatorSteps

\* The owner of u, if it is still there, waits as before.
LEMMA OwnerStillWaits ==
    ASSUME RoundInv, RoundGrows, ClientInv, UNCHANGED roundVars, NEW u,
           GoneOrWaiting(u),
           task[roundId].pc # "none" => task'[roundId].pc # "none",
           \A c \in Clients : Remains(c)
    PROVE  GoneOrWaiting(u)'
<1> SUFFICES ASSUME NEW c \in Clients, coin'[c] = u, InItsRound(c)'
             PROVE  /\ at'[c] = "broadcasting"
                    /\ phase' = "Broadcast"
                    /\ task'[roundId'].pc # "none"
  BY DEF GoneOrWaiting
<1>1. /\ at[c] = "broadcasting" /\ phase = "Broadcast" /\ task[roundId].pc # "none"
      /\ at'[c] = "broadcasting"
  BY WaitedBefore DEF GoneOrWaiting
<1> QED
  BY <1>1 DEF roundVars

\* The answer to the one that waits: it is gone, or the round is.
LEMMA AnsweredOwner ==
    ASSUME RoundInv, ClientInv, UNCHANGED roundVars, Sealed, OneBroadcaster, TasksTypeOK,
           NEW r \in Rounds, BroadcastAnswered(r), NEW u, GoneOrWaiting(u)
    PROVE  GoneOrWaiting(u)'
<1> SUFFICES ASSUME NEW c \in Clients, coin'[c] = u, InItsRound(c)'
             PROVE  /\ at'[c] = "broadcasting"
                    /\ phase' = "Broadcast"
                    /\ task'[roundId'].pc # "none"
  BY DEF GoneOrWaiting
<1>1. task' = [task EXCEPT ![r] = NoTask]
  BY DEF BroadcastAnswered, FinalizeSuccess, FinalizeFailure, TaskDies, TaskReturns
<1>2. roundId' = roundId /\ phase' = phase /\ phase # "Idle" /\ roundId \in Nat \ {0}
  BY RoundAssumption DEF roundVars, Sealed, RoundInv, TypeOK
<1>3. session'[c] = roundId
  BY <1>2 DEF InItsRound
<1>4. ASSUME at'[c] = at[c], coin'[c] = coin[c], session'[c] = session[c], r # roundId
      PROVE  /\ at'[c] = "broadcasting"
             /\ phase' = "Broadcast"
             /\ task'[roundId'].pc # "none"
  <2>1. /\ at[c] = "broadcasting" /\ phase = "Broadcast" /\ task[roundId].pc # "none"
    BY <1>2, <1>3, <1>4 DEF GoneOrWaiting, InItsRound
  <2>2. roundId \in Rounds
    BY <1>2, OpenRoundsAreRounds
  <2> QED
    BY <1>1, <1>2, <1>4, <2>1, <2>2 DEF TasksTypeOK
<1>5. CASE UNCHANGED clientVars /\ \A d \in Clients : ~Waits(d, r)
  <2>1. at'[c] = at[c] /\ coin'[c] = coin[c] /\ session'[c] = session[c]
    BY <1>5 DEF clientVars
  <2>2. r # roundId
    BY <1>2, <1>3, <1>5, <2>1 DEF GoneOrWaiting, InItsRound, Waits
  <2> QED
    BY <1>4, <2>1, <2>2
<1>6. ASSUME NEW d \in Clients, Waits(d, r),
             \/ GoTo(d, "done") /\ Keeps /\ FinalizeSuccess(r)
             \/ GivesUp(d)
      PROVE  /\ at'[c] = "broadcasting"
             /\ phase' = "Broadcast"
             /\ task'[roundId'].pc # "none"
  <2>1. OnlyMoves(d)
    BY <1>6 DEF GoTo, Keeps, GivesUp, ClientInv, ClientTypeOK, OnlyMoves
  <2>2. c # d
    <3>1. CASE GivesUp(d)
      BY <1>2, <1>3, <3>1 DEF GivesUp, ClientInv, ClientTypeOK, None
    <3>2. CASE Keeps /\ FinalizeSuccess(r)
      <4> SUFFICES ASSUME c = d PROVE FALSE
        OBVIOUS
      <4>1. coin[c] = u /\ session[c] = roundId /\ r = roundId
        BY <1>3, <1>6, <3>2 DEF Keeps, Waits
      <4>2. phase = "Broadcast"
        BY <1>2, <4>1 DEF GoneOrWaiting, InItsRound
      <4>3. roundId' = roundId + 1
        BY <3>2, <4>1, <4>2 DEF FinalizeSuccess, IsCurrent, EndRound, Reset
      <4> QED
        BY <1>2, <4>3
    <3> QED
      BY <1>6, <3>1, <3>2
  <2>3. at'[c] = at[c] /\ coin'[c] = coin[c] /\ session'[c] = session[c]
    BY <2>1, <2>2 DEF OnlyMoves
  <2>4. at[c] = "broadcasting" /\ InItsRound(c)
    BY <1>2, <1>3, <2>3 DEF GoneOrWaiting, InItsRound
  <2>5. r # roundId
    BY <1>2, <1>6, <2>2, <2>4 DEF OneBroadcaster, InItsRound, Waits
  <2> QED
    BY <1>4, <2>3, <2>5
<1> QED
  <2>1. \/ FinalizeSuccess(r) /\ Told(r, TRUE)
        \/ Told(r, FALSE)
    BY DEF BroadcastAnswered
  <2> QED
    BY <1>5, <1>6, <2>1 DEF Told

\* The last signer waits for the task that its signature spawned, unless it is told
\* of no success: then it is gone.
LEMMA LastSignerWaits ==
    ASSUME RoundInv, RoundInv', ClientInv, TasksTypeOK, NEW c \in Clients,
           NEW answered \in BOOLEAN, NEW assembled \in BOOLEAN,
           Sign(c, answered, assembled), OnlyMoves(c), sigs' = Inputs',
           NEW u, u = coin[c]
    PROVE  u \in Inputs' /\ GoneOrWaiting(u)'
<1>1. /\ RecordSignature(coin[c], assembled) /\ phase = "Signing"
      /\ coin[c] \in Inputs /\ at[c] = "sign"
      /\ task' = IF phase' = "Broadcast"
                 THEN [task EXCEPT ![roundId] = NewTask(Inputs)] ELSE task
  BY DEF Sign, CanSign, PostSign
<1>2. Inputs' = Inputs /\ roundId' = roundId /\ phase' \in {"Signing", "Broadcast"}
  BY <1>1 DEF RecordSignature, Inputs
<1>3. roundId \in Nat \ {0}
  BY RoundAssumption DEF RoundInv, TypeOK
<1> SUFFICES ASSUME NEW d \in Clients, coin'[d] = u, InItsRound(d)'
             PROVE  /\ at'[d] = "broadcasting"
                    /\ phase' = "Broadcast"
                    /\ task'[roundId'].pc # "none"
  BY <1>1, <1>2 DEF GoneOrWaiting
<1>4. session'[d] = roundId
  BY <1>2 DEF InItsRound
<1>5. CASE d # c
  <2>1. coin[d] = coin[c] /\ session[d] = roundId
    BY <1>4, <1>5 DEF OnlyMoves
  <2>2. at[d] # "off" /\ at[c] # "off"
    BY <1>1, <1>3, <2>1 DEF ClientInv, ClientOK, None
  <2> QED
    BY <1>5, <2>1, <2>2, CoinsAreOwn DEF ClientInv, ClientOK
<1>6. CASE d = c
  <2>1. ~GivesUp(c)
    BY <1>3, <1>4, <1>6 DEF GivesUp, ClientInv, ClientTypeOK, None
  <2>2. AllSigned(sigs')
    <3>1. participantCount' = Cardinality(Inputs') /\ participantCount' \in Nat
      BY RoundAssumption DEF RoundInv, CountIsInputs, TypeOK
    <3>2. participantCount' = participantCount
      BY <1>1 DEF RecordSignature
    <3> QED
      BY <3>1, <3>2 DEF AllSigned
  <2>3. assembled /\ GoTo(c, IF phase' = "Broadcast" THEN "broadcasting" ELSE "done")
    BY <2>1, <2>2 DEF Sign
  <2>4. phase' = "Broadcast"
    BY <1>1, <2>2, <2>3 DEF RecordSignature
  <2>5. at'[c] = "broadcasting"
    BY <2>3, <2>4 DEF GoTo, ClientInv, ClientTypeOK
  <2>6. roundId \in Rounds
    BY <1>1, OpenRoundsAreRounds
  <2> QED
    BY <1>1, <1>2, <1>6, <2>4, <2>5, <2>6 DEF NewTask, TasksTypeOK
<1> QED
  BY <1>5, <1>6

\* What a step is to those who wait.
LEMMA WhoMoves ==
    ASSUME BotInv, TasksTypeOK, RoundGrows, [BotNext]_allVars
    PROVE  \/ /\ \A c \in Clients : Remains(c)
              /\ \/ phase' = "Idle"
                 \/ /\ sigs' \subseteq sigs
                    /\ \A r \in Rounds : task[r].pc # "none" => task'[r].pc # "none"
           \/ \E c \in Clients :
                 /\ OnlyMoves(c)
                 /\ phase = "InputReg" /\ at'[c] = "awaitOutput" /\ sigs' = sigs
           \/ \E c \in Clients, answered, assembled \in BOOLEAN :
                 OnlyMoves(c) /\ Sign(c, answered, assembled)
           \/ \E r \in Rounds : BroadcastAnswered(r)
<1>1. RoundInv /\ MemoryInv /\ ClientInv /\ BotOK
  BY DEF BotInv
<1>2. UNCHANGED clientVars => \A c \in Clients : Remains(c)
  BY DEF clientVars, Remains
<1>3. UNCHANGED vars => sigs' = sigs /\ task' = task
  BY DEF vars, roundVars
<1>4. CASE UNCHANGED allVars \/ BumpCounter \/ BotKilledUnbumped
  <2>1. UNCHANGED <<vars, clientVars>>
    BY <1>4 DEF allVars, partyVars, BumpCounter, BotKilledUnbumped
  <2> QED
    BY <1>2, <1>3, <2>1
<1>5. ASSUME NEW c \in Clients, NEW u, Launch(c, u)
      PROVE  (\A d \in Clients : Remains(d)) /\ sigs' = sigs /\ task' = task
  BY <1>1, <1>3, <1>5 DEF Launch, GoTo, coordinatorVars, Remains, ClientInv, ClientTypeOK
<1>6. CASE BotLaunch \/ \E p \in People : PersonLaunch(p)
  <2>1. \E c \in Clients, u \in Utxos : Launch(c, u)
    <3>1. PickScriptType \in Wallet[Robot] /\ Robot \in Clients
      BY <1>1, PickIsOwn, BotAssumption DEF BotOK
    <3> QED
      BY <1>6, <3>1, ClientAssumption, RoundAssumption DEF BotLaunch, PersonLaunch, People
  <2> QED
    BY <1>5, <2>1
<1>7. ASSUME NEW c \in Clients, ClientStep(c) \/ ClientMishap(c)
      PROVE  \/ /\ \A d \in Clients : Remains(d)
                /\ sigs' = sigs /\ task' = task
             \/ /\ OnlyMoves(c)
                /\ phase = "InputReg" /\ at'[c] = "awaitOutput" /\ sigs' = sigs
             \/ \E answered, assembled \in BOOLEAN :
                   OnlyMoves(c) /\ Sign(c, answered, assembled)
  <2>1. OnlyMoves(c)
    BY <1>1, <1>7, ClientStepMoves
  <2>2. \A d \in Clients \ {c} : Remains(d)
    BY <2>1 DEF OnlyMoves, Remains
  <2> QED
    BY <1>1, <1>7, <2>1, <2>2, ClientRemains, ClientAdds
<1>8. CASE CoordinatorSteps
  <2>1. \A r \in Rounds : task[r].pc # "none" => task'[r].pc # "none"
    BY <1>8, TasksGoOn
  <2> QED
    BY <1>2, <1>8, <2>1, CoordinatorStepImplements, CoordinatorAdds
<1>9. CASE CoordinatorCrashes
  <2>1. phase' = "Idle"
    BY <1>9 DEF CoordinatorCrashes, Crash, Restart, Reset
  <2>2. \A c \in Clients : Remains(c)
    BY <1>9 DEF CoordinatorCrashes, Remains
  <2> QED
    BY <2>1, <2>2
<1> QED
  BY <1>4, <1>6, <1>7, <1>8, <1>9 DEF BotNext

LEMMA WaitersMove ==
    ASSUME RoundInv, RoundGrows, ClientInv, OneBroadcaster,
           NEW r \in Rounds, BroadcastAnswered(r)
    PROVE  OneBroadcaster'
<1>1. ASSUME UNCHANGED clientVars
      PROVE  OneBroadcaster'
  BY <1>1, NobodyElseBroadcasts DEF clientVars, Remains
<1>2. ASSUME NEW d \in Clients, (GoTo(d, "done") /\ Keeps) \/ GivesUp(d)
      PROVE  OneBroadcaster'
  <2>1. OnlyMoves(d) /\ at'[d] # "broadcasting"
    BY <1>2 DEF GoTo, Keeps, GivesUp, ClientInv, ClientTypeOK, OnlyMoves
  <2> QED
    BY <2>1, NobodyElseBroadcasts DEF OnlyMoves, Remains
<1> QED
  BY <1>1, <1>2 DEF BroadcastAnswered, Told

LEMMA WaitNext ==
    ASSUME BotInv, BotInv', TasksTypeOK, WaitInv, [RoundNext]_roundVars, RoundGrows,
           [BotNext]_allVars
    PROVE  WaitInv'
<1>1. RoundInv /\ RoundInv' /\ ClientInv /\ OneBroadcaster
      /\ \A c \in Clients : PlaceOK(c)
  BY DEF BotInv, WaitInv
<1>2. \A c \in Clients : PlaceOK(c)'
  BY <1>1, ClientsStayPlaced
<1>3. OneBroadcaster'
  <2>1. ASSUME NEW c \in Clients, OnlyMoves(c), at'[c] = "awaitOutput"
        PROVE  OneBroadcaster'
    BY <1>1, <2>1, NobodyElseBroadcasts DEF OnlyMoves, Remains
  <2>2. (\A c \in Clients : Remains(c)) => OneBroadcaster'
    BY <1>1, NobodyElseBroadcasts
  <2> QED
    BY <1>1, <2>1, <2>2, WhoMoves, OneSigns, WaitersMove
<1>4. SomebodyWasLast'
  <2> SUFFICES ASSUME Sealed', sigs' = Inputs'
               PROVE  \E u \in Inputs' : GoneOrWaiting(u)'
    BY DEF SomebodyWasLast
  <2>1. ASSUME sigs' \subseteq sigs
        PROVE  /\ UNCHANGED roundVars /\ Sealed /\ Inputs' = Inputs
               /\ \E u \in Inputs : GoneOrWaiting(u)
    BY <1>1, <2>1, SignedRoundStands DEF WaitInv, SomebodyWasLast, roundVars, Inputs
  <2>2. CASE /\ \A c \in Clients : Remains(c)
             /\ sigs' \subseteq sigs
             /\ \A r \in Rounds : task[r].pc # "none" => task'[r].pc # "none"
    <3>1. PICK u \in Inputs : GoneOrWaiting(u)
      BY <2>1, <2>2
    <3>2. roundId \in Rounds
      BY <1>1, <2>1, <2>2, OpenRoundsAreRounds DEF Sealed
    <3>3. GoneOrWaiting(u)'
      BY <1>1, <2>1, <2>2, <3>1, <3>2, OwnerStillWaits
    <3> QED
      BY <2>1, <2>2, <3>3
  <2>3. ASSUME NEW c \in Clients, NEW answered \in BOOLEAN, NEW assembled \in BOOLEAN,
               OnlyMoves(c), Sign(c, answered, assembled)
        PROVE  \E u \in Inputs' : GoneOrWaiting(u)'
    <3>1. PICK u : u = coin[c]
      OBVIOUS
    <3> QED
      BY <1>1, <2>3, <3>1, LastSignerWaits
  <2>4. ASSUME NEW r \in Rounds, BroadcastAnswered(r)
        PROVE  \E u \in Inputs' : GoneOrWaiting(u)'
    <3>1. sigs' \subseteq sigs
      BY <2>4, CoordinatorAdds
    <3>2. PICK u \in Inputs : GoneOrWaiting(u)
      BY <2>1, <3>1
    <3>3. GoneOrWaiting(u)'
      BY <1>1, <2>1, <2>4, <3>1, <3>2, AnsweredOwner
    <3> QED
      BY <2>1, <3>1, <3>3
  <2>5. phase' # "Idle" /\ (sigs' \subseteq sigs => phase # "InputReg")
    BY <2>1 DEF Sealed
  <2> QED
    BY <2>2, <2>3, <2>4, <2>5, WhoMoves
<1> QED
  BY <1>2, <1>3, <1>4 DEF WaitInv

LEMMA WaitInit == BotInit => WaitInv
<1> SUFFICES ASSUME BotInit PROVE WaitInv
  OBVIOUS
<1>1. /\ phase = "Idle" /\ roundId = 1
      /\ \A c \in Clients : at[c] = "off" /\ info[c] = None /\ session[c] = None
  BY DEF BotInit, ClientInit, Init, RoundInit
<1> QED
  BY <1>1 DEF WaitInv, PlaceOK, OneBroadcaster, SomebodyWasLast, Sealed, None

LEMMA WaitInvariant == BotSpec => [](BotInv /\ WaitInv)
<1>1. BotInit => WaitInv
  BY WaitInit
<1>2. /\ BotInv /\ BotInv' /\ TypesInv /\ WaitInv /\ [BotNext]_allVars
      => WaitInv'
  <2> SUFFICES ASSUME BotInv, BotInv', TypesInv, WaitInv, [BotNext]_allVars
               PROVE  WaitInv'
    OBVIOUS
  <2>1. [RoundNext]_roundVars
    BY BotStepImplements, StepImplements DEF BotInv
  <2>2. RoundGrows
    BY <2>1, RoundOnlyGrows DEF BotInv
  <2> QED
    BY <2>1, <2>2, WaitNext DEF TypesInv
<1>3. BotSpec => []TypesInv
  BY ClientsImplementCoordinator, TypesInvariant, PTL
<1> QED
  BY <1>1, <1>2, <1>3, BotInvariant, PTL DEF BotSpec

\* When all take part, a registered coin past registration is of a client that is in
\* the round, with the key and the session of the round.
LEMMA OwnersAreIn ==
    ASSUME BotInv, WaitInv, phase \notin {"Idle", "InputReg"},
           \A c \in Clients : TakesPart(c), Inputs \subseteq {coin[c] : c \in Clients},
           NEW u \in Inputs
    PROVE  \E c \in Clients :
              /\ coin[c] = u /\ InItsRound(c)
              /\ session[c] = material /\ info[c] = material /\ material # None
              /\ registered[u] = material
              /\ at[c] \in {"awaitOutput", "recheck", "redeem"} \cup Redeemed
<1>1. PICK c \in Clients : coin[c] = u
  OBVIOUS
<1>2. InItsRound(c) /\ at[c] \in Running \cup {"done"}
  BY <1>1 DEF TakesPart
<1>3. session[c] = roundId /\ material = roundId /\ roundId # None
  BY <1>2, RoundAssumption DEF InItsRound, BotInv, RoundInv, TypeOK,
     MaterialIsTheRounds, None
<1>4. info[c] = material /\ at[c] \notin {"awaitInput", "register", "registering"}
  BY <1>3 DEF WaitInv, PlaceOK
<1>5. registered[u] = material
  BY <1>1, <1>2, <1>3 DEF BotInv, ClientInv, ClientOK, ToldTrue
<1>6. at[c] \in {"awaitOutput", "recheck", "redeem"} \cup Redeemed
  BY <1>2, <1>4, PlacesOfClients DEF Redeemed
<1> QED
  BY <1>1, <1>2, <1>3, <1>4, <1>5, <1>6

\* While registration is open, either everybody is in, and then it is not open any
\* more, or the one that is missing can go on.
LEMMA RegistrationGoesOn ==
    ASSUME BotInv, WaitInv, phase = "InputReg", \A c \in Clients : TakesPart(c),
           Cardinality(Clients) = MaxParticipants
    PROVE  \E c \in Clients : CanGoOn(c)
<1>1. RoomForOne /\ material = roundId /\ roundId \in Nat \ {0}
  BY RoundAssumption DEF BotInv, RoundInv, ClosedByCount, MaterialIsTheRounds, TypeOK
<1>2. ASSUME NEW c \in Clients, ~InItsRound(c)
      PROVE  CanGoOn(c)
  <2>1. CASE at[c] = "awaitInput"
    BY <2>1, PollingNames DEF CanGoOn, Polling
  <2>2. CASE at[c] = "register" /\ info[c] = roundId /\ coin[c] \notin Inputs
    <3>1. handler[c] = NoRequest
      BY <2>2 DEF WaitInv, PlaceOK
    <3> QED
      BY <2>2, <3>1 DEF CanGoOn, CanRegister, TakesPart
  <2>3. CASE at[c] = "registering" /\ info[c] = roundId /\ coin[c] \notin Inputs
    <3>1. handler[c] = <<coin[c], roundId>>
      BY <2>3 DEF BotInv, ClientInv, ClientOK
    <3> QED
      BY <1>1, <2>3, <3>1 DEF CanGoOn, BlindSignatureIsValid
  <2> QED
    BY <1>2, <2>1, <2>2, <2>3 DEF TakesPart
<1>3. CASE \A c \in Clients : InItsRound(c)
  <2>1. \A c \in Clients : coin[c] \in Inputs
    <3> SUFFICES ASSUME NEW c \in Clients PROVE coin[c] \in Inputs
      OBVIOUS
    <3>1. registered[coin[c]] # None
      BY <1>1, <1>3 DEF BotInv, ClientInv, ClientOK, ToldTrue, InItsRound, None
    <3>2. coin[c] \in Utxos
      BY DEF TakesPart, BotInv, ClientInv, ClientTypeOK
    <3> QED
      BY <3>1, <3>2 DEF Inputs
  <2>2. \A c, d \in Clients : coin[c] = coin[d] => c = d
    BY CoinsAreOwn DEF TakesPart, BotInv, ClientInv, ClientTypeOK
  <2>3. [c \in Clients |-> coin[c]] \in Injection(Clients, Inputs)
    BY <2>1, <2>2 DEF Injection, IsInjective
  <2>4. IsFiniteSet(Inputs) /\ Cardinality(Inputs) \in Nat
    BY UtxoSetsAreFinite DEF Inputs
  <2>5. Cardinality(Clients) <= Cardinality(Inputs)
    BY <2>3, <2>4, FS_Injection
  <2>6. Cardinality(Inputs) < MaxParticipants
    BY <1>1 DEF BotInv, RoundInv, CountIsInputs, RoomForOne
  <2> QED
    BY <2>4, <2>5, <2>6, RoundAssumption
<1> QED
  BY <1>2, <1>3

\* While outputs are collected, the one whose output is missing can go on.
LEMMA CollectionGoesOn ==
    ASSUME BotInv, WaitInv, phase = "OutputReg", \A c \in Clients : TakesPart(c),
           Inputs \subseteq {coin[c] : c \in Clients}
    PROVE  \E c \in Clients : CanGoOn(c)
<1>1. PICK u \in Inputs : u \notin outputs
  <2>1. Cardinality(outputs) < Cardinality(Inputs)
    BY DEF BotInv, RoundInv, ClosedByCount, CountIsInputs
  <2>2. Cardinality(outputs) \in Nat /\ outputs \subseteq Inputs
    BY UtxoSetsAreFinite DEF BotInv, RoundInv, TypeOK, OutputsAreRedeemed
  <2>3. outputs # Inputs
    BY <2>1, <2>2
  <2> QED
    BY <2>2, <2>3
<1>2. PICK c \in Clients :
         /\ coin[c] = u /\ InItsRound(c)
         /\ session[c] = material /\ info[c] = material /\ material # None
         /\ registered[u] = material
         /\ at[c] \in {"awaitOutput", "recheck", "redeem"} \cup Redeemed
  BY OwnersAreIn
<1>3. at[c] \notin Redeemed
  BY <1>1, <1>2 DEF BotInv, ClientInv, ClientOK, ToldTrue
<1> QED
  BY <1>1, <1>2, <1>3, PollingNames DEF CanGoOn, Polling, KeyIsUnchanged, CanRedeem,
     HoldsToken

\* While signatures are collected, the one whose signature is missing can go on; when
\* none is missing, the last signer is gone or its transaction is under way.
LEMMA SigningGoesOn ==
    ASSUME BotInv, WaitInv, Sealed,
           \A c \in Clients : TakesPart(c) /\ Floor[c] <= MinParticipants,
           Inputs \subseteq {coin[c] : c \in Clients}
    PROVE  \E c \in Clients : CanGoOn(c)
<1>1. RoundInv /\ phase \notin {"Idle", "InputReg"}
  BY DEF BotInv, Sealed
<1>2. CASE sigs = Inputs
  <2>1. PICK u \in Inputs : GoneOrWaiting(u)
    BY <1>2 DEF WaitInv, SomebodyWasLast
  <2>2. PICK c \in Clients : coin[c] = u /\ InItsRound(c)
    BY <1>1, OwnersAreIn
  <2>3. at[c] = "broadcasting" /\ task[session[c]].pc # "none"
    BY <2>1, <2>2 DEF GoneOrWaiting, InItsRound
  <2> QED
    BY <2>3 DEF CanGoOn
<1>3. CASE sigs # Inputs
  <2>1. PICK u \in Inputs : u \notin sigs
    BY <1>1, <1>3 DEF RoundInv, SigsAreInputs
  <2>2. phase = "Signing" /\ outputs = Inputs
    BY <1>1, <1>3 DEF RoundInv, BroadcastIsFullySigned, SealedIsBalanced, Sealed
  <2>3. PICK c \in Clients :
           /\ coin[c] = u /\ InItsRound(c)
           /\ session[c] = material /\ info[c] = material /\ material # None
           /\ registered[u] = material
           /\ at[c] \in {"awaitOutput", "recheck", "redeem"} \cup Redeemed
    BY <1>1, OwnersAreIn
  <2>4. at[c] \notin {"awaitOutput", "recheck", "redeem"}
    BY <2>2, <2>3 DEF WaitInv, PlaceOK
  <2>5. at[c] \notin {"broadcasting", "done"}
    BY <2>1, <2>3 DEF BotInv, ClientInv, ClientOK, ToldTrue
  <2>6. Cardinality(outputs) >= Floor[c]
    <3>1. Cardinality(outputs) \in Nat /\ Cardinality(outputs) >= MinParticipants
      BY <1>1, <2>2, UtxoSetsAreFinite DEF RoundInv, TypeOK, SealedIsBalanced
    <3>2. Floor[c] \in Nat /\ Floor[c] <= MinParticipants
      BY ClientAssumption
    <3> QED
      BY <3>1, <3>2, RoundAssumption
  <2>7. CASE at[c] = "awaitSigning"
    BY <2>2, <2>7, PollingNames DEF CanGoOn, Polling
  <2>8. CASE at[c] = "fetch"
    BY <2>2, <2>3, <2>6, <2>8 DEF CanGoOn, Acceptable
  <2>9. CASE at[c] = "sign"
    BY <2>1, <2>2, <2>3, <2>9 DEF CanGoOn, CanSign
  <2> QED
    BY <2>3, <2>4, <2>5, <2>7, <2>8, <2>9 DEF Redeemed
<1> QED
  BY <1>2, <1>3

-----------------------------------------------------------------------------
(* The theorems.                                                           *)

\* Every variable of a client stays in its type: in particular a client only ever
\* has a coin of its own, and never tries more often than it may.
THEOREM ClientTypeCorrect == BotSpec => []ClientTypeOK
<1>1. BotInv => ClientTypeOK
  BY DEF BotInv, ClientInv
<1> QED
  BY <1>1, BotInvariant, PTL

\* As long as its round lasts, what a client was told is so: for any number of
\* clients, coins and rounds, and whatever answers are lost.
THEOREM WhatIsToldIsTrue == BotSpec => []ToldIsTrue
<1>1. BotInv => ToldIsTrue
  BY DEF BotInv, ClientInv, ClientOK, ToldTrue, ToldIsTrue, Redeemed
<1> QED
  BY <1>1, BotInvariant, PTL

\* Clients and coordinator never wait for each other: for any number of clients and
\* coins, and whatever was lost, refused or restarted on the way to such a round.
THEOREM ClientsNeverWaitForEachOther == BotSpec => []NoMutualWait
<1>1. ASSUME BotInv, WaitInv
      PROVE  NoMutualWait
  <2> SUFFICES ASSUME Cardinality(Clients) = MaxParticipants,
                      \A c \in Clients : TakesPart(c) /\ Floor[c] <= MinParticipants,
                      Inputs \subseteq {coin[c] : c \in Clients}
               PROVE  \E c \in Clients : CanGoOn(c)
    BY DEF NoMutualWait
  <2>1. phase # "Idle"
    <3>1. Clients # {}
      BY FS_EmptySet, RoundAssumption
    <3>2. PICK c \in Clients : TakesPart(c) /\ PlaceOK(c)
      BY <1>1, <3>1 DEF WaitInv
    <3> QED
      BY <3>2 DEF TakesPart, PlaceOK, InItsRound
  <2>2. phase \in Phases
    BY <1>1 DEF BotInv, RoundInv, TypeOK
  <2> QED
    BY <1>1, <2>1, <2>2, RegistrationGoesOn, CollectionGoesOn, SigningGoesOn
       DEF Phases, Sealed
<1> QED
  BY <1>1, WaitInvariant, PTL

\* The counter file moves only past a coin that the coordinator has the signature of.
THEOREM RotationIsBySignatures == BotSpec => RotationFollowsSignatures
<1>1. ASSUME BotInv, [BotNext]_allVars, counter' # counter
      PROVE  /\ counter' = counter + 1
             /\ coin[Robot] = PickScriptType
             /\ session[Robot] # None
             /\ InItsRound(Robot) => coin[Robot] \in sigs
  <2>1. BumpCounter
    BY <1>1 DEF BotNext, BotLaunch, BotKilledUnbumped, PersonLaunch, BotFollows,
       allVars, botVars
  <2>2. Robot \in Clients /\ at[Robot] = "done" /\ unbumped
    BY <1>1, <2>1, BotAssumption DEF BumpCounter, BotInv, BotOK
  <2>3. ClientOK(Robot)
    BY <1>1, <2>2 DEF BotInv, ClientInv
  <2> QED
    BY <1>1, <2>1, <2>2, <2>3 DEF BumpCounter, BotInv, BotOK, ClientOK, ToldTrue,
       Redeemed
<1>2. BotInv /\ [BotNext]_allVars =>
         [counter' # counter =>
            /\ counter' = counter + 1
            /\ coin[Robot] = PickScriptType
            /\ session[Robot] # None
            /\ InItsRound(Robot) => coin[Robot] \in sigs]_allVars
  BY <1>1
<1> QED
  BY <1>2, BotInvariant, PTL DEF BotSpec, RotationFollowsSignatures

\* A signing timeout bans nobody whose client was told that it signed, and nobody
\* who never redeemed an output.
THEOREM OnlySilentSignersAreBanned == BotSpec => SilentSignersOnly
<1> DEFINE Attributed(u) == /\ u \in Inputs
                            /\ \/ phase = "Signing" /\ u \notin sigs
                               \/ phase = "Broadcast" /\ spentBy[u] # "nobody"
           Silent(u) == /\ u \in outputs
                        /\ \A c \in Clients : coin[c] = u /\ InItsRound(c) =>
                               at[c] \notin {"broadcasting", "done"}
<1>1. ASSUME RoundInv, ToldIsTrue, phase = "Signing", NEW u, Attributed(u)
      PROVE  Silent(u)
  <2>1. u \in Inputs /\ u \notin sigs
    BY <1>1
  <2>2. u \in outputs
    BY <1>1, <2>1 DEF RoundInv, SealedIsBalanced, Sealed
  <2> QED
    BY <1>1, <2>1, <2>2 DEF ToldIsTrue
<1>2. /\ RoundInv /\ ToldIsTrue
      /\ [\A u \in banned' \ banned : Attributed(u)]_vars
      => [phase = "Signing" => \A u \in banned' \ banned : Silent(u)]_partyVars
  <2>1. UNCHANGED vars => banned' \ banned = {}
    BY DEF vars, blameVars
  <2> QED
    BY <1>1, <2>1
<1>3. Spec => [][\A u \in banned' \ banned : Attributed(u)]_vars
  BY BansHaveACause DEF BansAreAttributed
<1>4. Spec => []RoundInv
  BY CoordinatorInvariant, PTL
<1> QED
  BY <1>2, <1>3, <1>4, ClientsImplementCoordinator, WhatIsToldIsTrue, PTL
     DEF SilentSignersOnly

=============================================================================
