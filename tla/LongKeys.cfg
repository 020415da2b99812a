\* One round of one start of the coordinator, and the launches of Discovery.cfg.
CONSTANTS
    k1 = k1
    k2 = k2
    tap = tap
    nested = nested
    plain = plain
    alice = alice
    bob = bob
    Keys = {k1, k2}
    Outpoints = {tap, nested, plain}
    Chain <- MCChain
    Clients = {alice, bob}
    Options <- MCOptions
    Configs <- MCConfigs
    MaxRounds = 1
    MaxIdentities = 1
SPECIFICATION Spec
INVARIANT AcceptedSpends
\* The last round (MaxRounds) closed and every client is done.
CHECK_DEADLOCK FALSE
