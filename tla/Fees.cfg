\* Rounds of two to four of five people, with every mix of the three script types.
CONSTANTS
    p1 = p1
    p2 = p2
    p3 = p3
    p4 = p4
    p5 = p5
    People = {p1, p2, p3, p4, p5}
    Values <- MCValues
    Allowed = {"P2wpkh", "P2tr", "P2shP2wpkh"}
    OutputScriptType = "P2wpkh"
    Denomination = 100000
    FeeRate = 2
    MinParticipants = 2
    MaxParticipants = 4
    MinAnonymitySet = 2
    MaxFee = 609
SPECIFICATION FeesSpec
SYMMETRY PeopleSymmetry
INVARIANTS
    RegisteredCanPay
    HonestClientsSign
    FeeRateIsMet
\* A round is over when every client has decided.
CHECK_DEADLOCK FALSE
