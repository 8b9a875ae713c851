\* The same failures, every error of a task final, and a client that polls.
SPECIFICATION PollingSpec
CONSTANTS
    Jobs = {j1}
    Workers = {w1, w2}
    NoMsg = NoMsg
    Faults <- SingleDispatchFaults
    Outputs <- TwoOutputs
    CallRetries = 1
    MaxRetries = 0
    MaxRedeliveries = 1
SYMMETRY WorkerSymmetry
INVARIANTS
    CompletedPollHasResult
    LinkLeadsSomewhere
