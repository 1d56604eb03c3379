CONSTANTS
    Sensor = {s1, s2}
    Cluster = {temp, hum, power}
    BIND_CLUSTER_NUM = 3
    NoSensor = none
    Timeout = 4
    MaxClears = 2
    Near = {"parent"}
    Rows = 2
    MaxPending = 2
    Fast = 3
    Slow = 5
    MaxTransit = 2
    MaxMissed = 3
    MaxHours = 14
SPECIFICATION ServicesSpec
INVARIANTS
    OneSensorShown
    SilentIsErased
    ClockInStep
PROPERTIES
    ErasedOnlyWhenSilent
    LinkFollows
    ClockSet
    LifetimeKept
