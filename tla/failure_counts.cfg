\* One job whose media cannot be processed.
SPECIFICATION MetricsSpec
CONSTANTS
    Jobs = {j1}
    Workers = {w1}
    NoMsg = NoMsg
    Faults <- OnlyProcessing
    Outputs <- OneOutput
    CallRetries = 0
    MaxRetries = 0
    MaxRedeliveries = 0
INVARIANT
    FailedCountedOnce
