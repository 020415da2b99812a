\* Two requests for one coin, and two rounds.
CONSTANTS
    u1 = u1
    u2 = u2
    h1 = h1
    h2 = h2
    Utxos = {u1, u2}
    Blinding = {u1, u2}
    Handlers = {h1, h2}
    MinParticipants = 2
    MaxParticipants = 2
    MaxRounds = 2
    BlameCap = 2
    Backoff = TRUE
    MaxLate = 0
    Faults = {"append fails", "node fails"}
SPECIFICATION Spec
SYMMETRY Symmetric
PROPERTIES
    NoBannedInputAdmitted
\* The round after the last one (MaxRounds) is not started.
CHECK_DEADLOCK FALSE
