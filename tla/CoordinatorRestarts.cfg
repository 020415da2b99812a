\* Two rounds of two participants, with crashes and every other fault; one of the two
\* owners does not blind.  The cap is reached by one failure.
\* No symmetry: temporal properties.
CONSTANTS
    u1 = u1
    u2 = u2
    h1 = h1
    Utxos = {u1, u2}
    Blinding = {u1}
    Handlers = {h1}
    MinParticipants = 2
    MaxParticipants = 2
    MaxRounds = 2
    BlameCap = 1
    Backoff = TRUE
    MaxLate = 1
    Faults = {"crash", "task dies", "keygen fails", "assembly fails", "append fails",
              "node fails", "owner spends", "ban expires"}
SPECIFICATION FairSpec
INVARIANTS
    NoPhaseUnattended
    FileBansAreEnforced
    BlameCountIsCapped
    IdleIsRevisited
PROPERTIES
    RoundsEndThemselves
    CoinJoinBehaviour
    EveryRoundEnds
    CoordinatorRearms
    NoRoundWhilePaused
    BansAreAttributed
\* The round after the last one (MaxRounds) is not started.
CHECK_DEADLOCK FALSE
