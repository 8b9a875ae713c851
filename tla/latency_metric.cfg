\* Redis is away when the latency is observed.
SPECIFICATION Spec
CONSTANTS
    Jobs = {j1}
    Workers = {w1}
    NoMsg = NoMsg
    Faults <- OnlyRedis
    Outputs <- OneOutput
    CallRetries = 0
    MaxRetries = 1
    MaxRedeliveries = 0
PROPERTY
    MetricsNeverBreakJob
