\* Two rounds that fail; a third outpoint takes the place of the one banned first.
CONSTANTS
    u1 = u1
    u2 = u2
    u3 = u3
    h1 = h1
    Utxos = {u1, u2, u3}
    Blinding = {u1, u2, u3}
    Handlers = {h1}
    MinParticipants = 2
    MaxParticipants = 2
    MaxRounds = 2
    BlameCap = 2
    Backoff = TRUE
    MaxLate = 0
    Faults = {"append fails", "node fails"}
SPECIFICATION Spec
SYMMETRY Symmetric
INVARIANTS
    CapPausesRearmer
\* The round after the last one (MaxRounds) is not started.
CHECK_DEADLOCK FALSE
