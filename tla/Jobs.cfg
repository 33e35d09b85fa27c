CONSTANTS
    j1 = j1
    j2 = j2
    r1 = r1
    server = server
    None = None
    Request = {r1}
    RequestOf <- MCRequestOf
    HomeOf <- OneServer
    MaxJobs = 1
    Job = {j1, j2}
    Process = {server}
    Server = {server}
    Canceller = {c1}
    Faults = TRUE
    Crashes = TRUE
SPECIFICATION LiveSpec
CHECK_DEADLOCK FALSE
INVARIANTS
    RecordsAreSound
PROPERTIES
    SettledIsFinal
    CancelStopsTheChild
    PlacesAreKept
