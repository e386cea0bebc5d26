SPECIFICATION FairSpec
CONSTANTS
    Fleet = {2}
    Device <- MCDevice
    Eligible <- MCDevice
    Binary <- MCBinary
    Hold <- MCHold
    PluginHold <- MCPluginHold
    Rank <- MCRank
    Effect <- MCEffect
    TargetsOf <- MCTargetsOf
    Caller = {web, slack}
    SlackLoop = slack
    Limit = {0, 60}
    Reading <- NoReading
    DeadTime = 1
    Cooldown = 2
    OwnDeadTime = 2
    StartupDelay = 1
    MaxLatency = 1
    Fault = {"refuse", "loseReply", "unmanage", "bypass"}
PROPERTIES Converges
