SPECIFICATION Spec
CONSTANTS
    Fleet = {2}
    Device <- MCDevice
    Eligible <- MCDevice
    Binary <- MCBinary
    Hold <- MCHold
    PluginHold <- MCPluginHold
    Rank <- MCRank
    Effect <- MCEffect
    TargetsOf <- MCTargetsOf
    Caller = {web, slack}
    SlackLoop = slack
    Limit = {20}
    Reading <- NoReading
    DeadTime = 0
    Cooldown = 2
    OwnDeadTime = 2
    StartupDelay = 1
    MaxLatency = 1
    Fault = {}
INVARIANTS ReleasedWhenQuiet
