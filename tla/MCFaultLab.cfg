SPECIFICATION FairSpec
CONSTANTS
    Scenarios = {"container_cpu_spike", "request_latency", "http_5xx"}
    Cpu = "container_cpu_spike"
    MaxTicks = 4
    Reqs = {r1, r2}
    MaxPlans = 2
    MaxLost = 1
    MaxCrashes = 1
    r1 = r1
    r2 = r2
INVARIANTS
    OneWorker
    ResetPending
PROPERTIES
    FaultsExpire
    ContainersRecover
CHECK_DEADLOCK FALSE
