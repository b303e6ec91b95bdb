CONSTANTS
    p1 = p1
    p2 = p2
    Pipeline <- MCPipeline
    OutputOf <- MCOutputs
    ReportOf <- MCReports
    MaxStarts = 3
    MaxChanges = 1
    BatchLevels <- MCLevels
    MaxFaults = 3
    Cycles = 4
    MinGainPercent = 10
    Latencies <- MCLatencies
    Drifts <- MCDrifts
    MaxBuilds = 2
SPECIFICATION FairReleaseSpec
INVARIANTS
    WheelsSound
    BatchesWhole
    ComparisonSound
PROPERTIES
    ToolsEnd
\* The tool has ended.
CHECK_DEADLOCK FALSE
