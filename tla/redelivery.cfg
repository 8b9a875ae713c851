\* A worker dies after it has marked its job.
SPECIFICATION Spec
CONSTANTS
    Jobs = {j1}
    Workers = {w1}
    NoMsg = NoMsg
    Faults <- OnlyCrash
    Outputs <- OneOutput
    CallRetries = 0
    MaxRetries = 1
    MaxRedeliveries = 1
PROPERTY
    TerminalIsFinal
