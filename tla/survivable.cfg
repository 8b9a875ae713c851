\* The failures the service is built to survive.
SPECIFICATION Spec
CONSTANTS
    Jobs = {j1}
    Workers = {w1, w2}
    NoMsg = NoMsg
    Faults <- SurvivableFaults
    Outputs <- OneOutput
    CallRetries = 1
    MaxRetries = 1
    MaxRedeliveries = 1
INVARIANTS
    NoJobForgotten
    FailureExplained
    CompletedIsReported
PROPERTY
    Settles
