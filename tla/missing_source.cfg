\* The source disappears before the download.
SPECIFICATION Spec
CONSTANTS
    Jobs = {j1}
    Workers = {w1}
    NoMsg = NoMsg
    Faults <- OnlySourceDeleted
    Outputs <- OneOutput
    CallRetries = 0
    MaxRetries = 1
    MaxRedeliveries = 0
INVARIANT
    MissingSourceNotRetried
