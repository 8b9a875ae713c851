\* Two jobs, their metrics, and no failure that makes a task run twice.
SPECIFICATION MetricsSpec
CONSTANTS
    Jobs = {j1, j2}
    Workers = {w1, w2}
    NoMsg = NoMsg
    Faults <- OrderlyFaults
    Outputs <- TwoOutputs
    CallRetries = 1
    MaxRetries = 1
    MaxRedeliveries = 0
INVARIANTS
    SingleRun
    ObjectBudget
    RefusedNeverRuns
    CountsMatchOutcome
    InProgressIsExact
PROPERTY
    KeepsContract
