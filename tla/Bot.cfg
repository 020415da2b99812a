\* One person with a coin and the bot with two, two rounds, every client mishap.
CONSTANTS
    alice = alice
    bot = bot
    a1 = a1
    b1 = b1
    b2 = b2
    Utxos = {a1, b1, b2}
    Blinding = {a1, b1, b2}
    Handlers = {alice, bot}
    MinParticipants = 2
    MaxParticipants = 2
    MaxRounds = 2
    BlameCap = 2
    Backoff = FALSE
    MaxLate = 0
    Faults = {"crash", "task dies", "assembly fails"}
    Wallet <- MCWallet
    Floor <- MCFloor
    MaxRetries = 1
    Mishaps = {"interrupted", "answer lost", "busy"}
    Robot = bot
    Rotation <- MCRotation
    MaxCounter = 2
SPECIFICATION BotFairSpec
INVARIANTS
    ToldIsTrue
    NoMutualWait
PROPERTIES
    SilentSignersOnly
    RotationFollowsSignatures
    ClientsEnd
\* The round after the last one (MaxRounds) is not started.
CHECK_DEADLOCK FALSE
