\* Redis is away, or the time is over, when the failure is recorded.
SPECIFICATION Spec
CONSTANTS
    Jobs = {j1}
    Workers = {w1}
    NoMsg = NoMsg
    Faults <- CutShortFaults
    Outputs <- OneOutput
    CallRetries = 0
    MaxRetries = 1
    MaxRedeliveries = 0
PROPERTY
    NotStuckProcessing
