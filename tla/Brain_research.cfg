SPECIFICATION Spec
CONSTANTS
    Nodes <- MCNodes
    Researchers <- MCResearchers
    Projects <- MCProjects
    Metrics <- MCMetrics
    Workloads <- MCWorkloads
    Clients <- MCClients
INVARIANTS
    ResearchTypeOK
    BestSurvives
    RunsKeepTheirFiles
    UnsyncedKeepsBest
    RowsWereSaved
PROPERTIES
    SyncSpreads
CHECK_DEADLOCK FALSE
