\* One coin, one append cut short and one that returns Ok.
CONSTANTS
    c1 = c1
    c2 = c2
    Coins = {c1, c2}
    BanDuration = 2
    MaxClock = 1
    MaxAppends = 2
    MaxInterrupts = 1
SPECIFICATION BanSpec
SYMMETRY CoinSymmetry
INVARIANT AckedBansSurvive
