\* Two handlers at a time, three users for a race of two, a second race id that is
\* in use, and one fault.  A behaviour may end with the race.
CONSTANTS
    u1 = u1
    u2 = u2
    u3 = u3
    r1 = r1
    r2 = r2
    q1 = q1
    q2 = q2
    Users = {u1, u2, u3}
    Races = {r1, r2}
    UsedIds = {r2}
    Requests = {q1, q2}
    MaxParticipants = 2
    MaxCreateRaceAttempts = 2
    MaxFaults = 1
SYMMETRY Symmetry
SPECIFICATION Spec
INVARIANTS
    TypeOK
    OvershootBounded
    OpenRaceHasRoom
    TokenHasRow
    StartedInPostgresFirst
CHECK_DEADLOCK FALSE
