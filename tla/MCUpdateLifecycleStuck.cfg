SPECIFICATION Spec
CONSTANTS
    Releases = {r1}
    Manual = {}
    Checks = {c1}
    StartupCheck = c1
    Downloads = {d1}
    Dismissals = {}
    Chunks = 1
    Absent = Absent
INVARIANT DownloadingIsLive
