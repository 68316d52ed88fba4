\* Three races of three players, three FinishRace calls, one fault, pages of one
\* line, and a week that may pass for one race at a time.  When every race has ended and
\* the reader is answered nothing is left to do.
CONSTANTS
    a = a
    b = b
    c = c
    x = x
    y = y
    z = z
    Users = {a, b, c}
    Races = {x, y, z}
    Results <- MCResults
    Rows <- MCRows
    PageSize = 1
    MaxCalls = 3
    MaxFaults = 1
    MaxAged = 1
    MaxPage = 2
SPECIFICATION FairSpec
INVARIANTS
    TypeOK
    CountedOnce
    WeeklyWinsCounted
    FinishedShownWithRanks
    ListedPagesFilled
PROPERTIES
    ImplementsScoreboard
    ReconcileChangesNothing
    FinishRaceReturns
CHECK_DEADLOCK FALSE
