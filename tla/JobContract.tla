----------------------------- MODULE JobContract -----------------------------
(***************************************************************************)
(* What the service promises a client about one job, whatever goes on      *)
(* inside: the lifecycle of README.md ("Job Lifecycle").  A job is         *)
(* registered as pending, is taken up, and ends completed or failed for    *)
(* good; a job whose submission was answered 202 is not left undecided.    *)
(***************************************************************************)
CONSTANT Jobs

VARIABLES
    phase,     \* phase[j]: the status a poll of j returns
    promised   \* the jobs whose submission was answered 202

contractVars == <<phase, promised>>

ContractInit ==
    /\ phase = [j \in Jobs |-> "absent"]
    /\ promised = {}

Move(j, from, to) ==
    /\ phase[j] \in from
    /\ phase' = [phase EXCEPT ![j] = to]
    /\ UNCHANGED promised

Register(j) == Move(j, {"absent"}, "pending")

Start(j) == Move(j, {"pending"}, "processing")

Complete(j) == Move(j, {"processing"}, "completed")

Fail(j) == Move(j, {"pending", "processing"}, "failed")

\* The promise is made to the client at any time after the registration:
\* the answer to the submission may come after the job has ended.
Promise(j) ==
    /\ phase[j] # "absent"
    /\ promised' = promised \union {j}
    /\ UNCHANGED phase

Progress(j) == Start(j) \/ Complete(j) \/ Fail(j)

ContractNext == \E j \in Jobs : Register(j) \/ Promise(j) \/ Progress(j)

ContractFairness ==
    \A j \in Jobs : WF_contractVars(j \in promised /\ Progress(j))

ContractSpec == ContractInit /\ [][ContractNext]_contractVars /\ ContractFairness

=============================================================================
