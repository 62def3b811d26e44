SPECIFICATION Spec
CONSTANTS
    service = service  paper = paper
    None = None
    Procs = {service, paper}
    Autonomous = {service}
    Words = {"kill", "disarm", "engine"}
    Troubles = {"UNHEALTHY"}
    Interval = 1
    MaxLag = 0
    FreshFor = 1
    MaxAlive = 2
    MaxActs = 4
INVARIANTS HandledAsWritten StatusIsHonest StopMarkIsOwn DisarmStands
CHECK_DEADLOCK FALSE
