\* Scans that compete for one permit, three tasks and two reports.
CONSTANTS
    Profiles = {p1}
    Endpoints = {e1}
    Fingerprints = {f1}
    Scans = {x1, x2}
    MaxScans = 1
    Interval = 1
    CacheTtl = 1
    MaxTime = 1
    None = None
    Tasks <- MCTasks
    TaskInterval <- MCTaskInterval
    Networked = {"renewal", "reports"}
    ByHand = {"repair"}
    ReportsTask = "reports"
    Reports <- MCReports
    Cycle = 2
    MaxRestarts = 1
SPECIFICATION BackgroundSpec
INVARIANTS
    PermitsAccounted
    ReportOnce
PROPERTIES
    PermitsReturn
    SchedulerRecurs
CHECK_DEADLOCK FALSE
