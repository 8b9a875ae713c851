\* Every failure of a job that is dispatched once, calls and tasks repeated.
SPECIFICATION Spec
CONSTANTS
    Jobs = {j1}
    Workers = {w1, w2}
    NoMsg = NoMsg
    Faults <- SingleDispatchFaults
    Outputs <- TwoOutputs
    CallRetries = 1
    MaxRetries = 1
    MaxRedeliveries = 1
SYMMETRY WorkerSymmetry
INVARIANTS
    TypeOK
    CompletedIsReported
    WorkIsRegistered
