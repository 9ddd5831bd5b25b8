SPECIFICATION FairSpec
CONSTANTS
    Pods = {p1, p2}
    PodStates <- MCPodStates
    RestartThreshold = 3
    ScanRequests = {r1}
    Loop = loop
    MaxFaults = 2
INVARIANTS TypeOK OneJobPerCooldown SilencedHasJob
PROPERTIES PersistingIsSubmitted
