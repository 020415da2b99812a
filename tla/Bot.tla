-------------------------------- MODULE Bot --------------------------------
(***************************************************************************)
(* The participants of a round: people who run the client, and the          *)
(* liquidity bot (liquidity-bot/src), which runs the same round flow with    *)
(* one fixed coin per script type.  It launches with the coin that the       *)
(* counter file points at, adds one to the file after it signed, and exits; *)
(* Docker starts it again.                                                   *)
(***************************************************************************)
EXTENDS Client, Sequences

CONSTANTS
    Robot,        \* the client that is the bot
    Rotation,     \* enabled_types: the coin configured for each type, in order
    MaxCounter    \* bound: counter values

ASSUME BotAssumption ==
    /\ Robot \in Clients
    /\ Rotation \in Seq(Wallet[Robot]) \ {<<>>}
    /\ MaxCounter \in Nat

VARIABLES
    counter,      \* counter_file: missing reads as 0
    unbumped      \* run() is between verify_and_sign and the rename

botVars == <<counter, unbumped>>
allVars == <<partyVars, botVars>>

People == Clients \ {Robot}

\* RotationState::pick_script_type and the coin that is configured for the type.
PickScriptType == Rotation[(counter % Len(Rotation)) + 1]

BotLaunch ==
    /\ ~unbumped
    /\ Launch(Robot, PickScriptType)
    /\ UNCHANGED botVars

PersonLaunch(p) ==
    /\ \E u \in Wallet[p] : Launch(p, u)
    /\ UNCHANGED botVars

BotFollows_BumpsAnyhow ==
    /\ counter' = IF at[Robot] \notin Ended /\ at'[Robot] \in Ended
                  THEN counter + 1 ELSE counter
    /\ UNCHANGED unbumped

\* When verify_and_sign returns Ok, the rest of run() is the bump.
BotFollows ==
    /\ unbumped' = (unbumped \/ (at[Robot] # "done" /\ at'[Robot] = "done"))
    /\ UNCHANGED counter

\* bump_counter: read, write the temporary file, rename it over the counter file.
BumpCounter ==
    /\ unbumped
    /\ counter < MaxCounter
    /\ counter' = counter + 1
    /\ unbumped' = FALSE
    /\ UNCHANGED partyVars

\* The bot ends before the rename: a temporary file is left, which nobody reads.
BotKilledUnbumped ==
    /\ "interrupted" \in Mishaps
    /\ unbumped
    /\ unbumped' = FALSE
    /\ UNCHANGED <<partyVars, counter>>

BotInit ==
    /\ ClientInit
    /\ counter = 0
    /\ unbumped = FALSE

BotNext ==
    \/ BotLaunch
    \/ BumpCounter
    \/ BotKilledUnbumped
    \/ \E p \in People : PersonLaunch(p)
    \/ \E c \in Clients : (ClientStep(c) \/ ClientMishap(c)) /\ BotFollows
    \/ \E r \in Rounds : BroadcastAnswered(r) /\ BotFollows
    \/ (CoordinatorSteps \/ CoordinatorCrashes) /\ BotFollows

BotSpec == BotInit /\ [][BotNext]_allVars

\* A client's own next step, an answer to it, and the end of a wait always come.
BotFairSpec == BotSpec /\ \A c \in Clients : WF_allVars(ClientStep(c) /\ BotFollows)

-----------------------------------------------------------------------------
(* Properties.                                                             *)

\* The rotation is about what happened: the counter moves by one, and only past
\* the coin that this run was launched with and that the coordinator recorded the
\* signature of; a run that failed anywhere is repeated with the same type
\* (run, bump_counter).
RotationFollowsSignatures ==
    [][counter' # counter =>
          /\ counter' = counter + 1
          /\ coin[Robot] = PickScriptType
          /\ session[Robot] # None
          /\ InItsRound(Robot) => coin[Robot] \in sigs]_allVars

=============================================================================
