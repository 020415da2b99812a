\* Two coins, three appends of which two are cut short, bans of two ticks.
CONSTANTS
    c1 = c1
    c2 = c2
    Coins = {c1, c2}
    BanDuration = 2
    MaxClock = 3
    MaxAppends = 3
    MaxInterrupts = 2
SPECIFICATION BanSpec
SYMMETRY CoinSymmetry
INVARIANTS
    BanTypeOK
    FileBansAreInMemory
    EachInterruptCostsOneBan
PROPERTY CompactionKeepsBans
