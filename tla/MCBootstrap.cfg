CONSTANTS
    Destinations = {d1, d2}
    BootstrapURL = d1
    MaxAttempts = 2
SPECIFICATION HostFairSpec
INVARIANTS HostTypeOK FlagMatches SnapshotUndisturbed LdbComplete
PROPERTIES ReflectorResumes ShutsDown HostComesUp
