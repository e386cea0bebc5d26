SPECIFICATION FairSpec
CONSTANTS
    Fleet = {3}
    Device <- MCDevice
    Eligible <- MCDevice
    Binary <- MCBinary
    Hold <- MCHold
    PluginHold <- MCPluginHold
    Rank <- MCRank
    Effect <- MCEffect
    TargetsOf <- MCTargetsOf
    Caller = {web, venus, slack}
    SlackLoop = slack
    Limit = {0, 60}
    Reading <- NoReading
    DeadTime = 0
    Cooldown = 3
    OwnDeadTime = 0
    StartupDelay = 1
    MaxLatency = 1
    Fault = {"refuse", "disconnect"}
INVARIANTS TypeOK
PROPERTIES RelayRest Converges
