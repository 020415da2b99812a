\* Two clients, five configurations of two releases, three rounds, a lost key file.
CONSTANTS
    k1 = k1
    k2 = k2
    tap = tap
    nested = nested
    plain = plain
    alice = alice
    bob = bob
    Keys = {k1, k2}
    Outpoints = {tap, nested, plain}
    Chain <- MCChain
    Clients = {alice, bob}
    Options <- MCOptions
    Configs <- MCConfigs
    MaxRounds = 3
    MaxIdentities = 2
SPECIFICATION FairSpec
INVARIANTS
    ProversCanSign
    AssembledIsValid
PROPERTIES
    
    RefusalsHaveCause
    RecordIsRefreshed
\* The last round (MaxRounds) closed and every client is done.
CHECK_DEADLOCK FALSE
