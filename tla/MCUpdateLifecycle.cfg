SPECIFICATION FairSpec
CONSTANTS
    Releases = {r1, r2}
    Manual = {}
    Checks = {c1, c2}
    StartupCheck = c1
    Downloads = {d1}
    Dismissals = {x1}
    Chunks = 2
    Absent = Absent
INVARIANTS TypeOK CheckingIsLive LaunchedMatches ReadyHasInstaller
PROPERTIES CheckingEnds TasksEnd
