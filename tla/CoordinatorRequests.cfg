\* Two rounds of two or three participants, two requests in flight; two of the three
\* owners blind their tokens.
CONSTANTS
    u1 = u1
    u2 = u2
    u3 = u3
    h1 = h1
    h2 = h2
    Utxos = {u1, u2, u3}
    Blinding = {u1, u2}
    Handlers = {h1, h2}
    MinParticipants = 2
    MaxParticipants = 3
    MaxRounds = 2
    BlameCap = 2
    Backoff = TRUE
    MaxLate = 0
    Faults = {"node fails", "assembly fails"}
SPECIFICATION Spec
SYMMETRY Symmetric
INVARIANTS
    CoordinatorTypeOK
    TaskMatchesRound
    RoundInv
    MaterialIsTheRounds
    SealedIsBalanced
    SealedIsThisRounds
    BroadcastIsFullySigned
PROPERTIES
    RoundBehaviour
    SealedIsFrozen
\* The round after the last one (MaxRounds) is not started.
CHECK_DEADLOCK FALSE
