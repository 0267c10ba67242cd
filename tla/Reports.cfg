SPECIFICATION ReportSpec
CONSTANTS
    MaxClicks = 2
    MaxNow = 4
    Visits <- MCVisits
    HasProxy = FALSE
    Granularities = {"1m", "1d"}
    BucketSize <- MCSize
    MaxSpan <- MCMaxSpan
    Windows = {"24h", "all"}
    Duration <- MCDuration
    Bounds = {5}
    TopN = 1
    Nothing = Nothing
INVARIANTS
    ReportTypeOK
    ReportsAddUp
    SummaryIsSound
CHECK_DEADLOCK FALSE
