\* The creator sends Start twice, at the same time.
CONSTANTS
    u1 = u1
    r1 = r1
    q1 = q1
    q2 = q2
    Users = {u1}
    Races = {r1}
    UsedIds = {}
    Requests = {q1, q2}
    MaxParticipants = 1
    MaxCreateRaceAttempts = 1
    MaxFaults = 0
SYMMETRY Symmetry
SPECIFICATION Spec
INVARIANTS
    OnePromptPerRace
CHECK_DEADLOCK FALSE
