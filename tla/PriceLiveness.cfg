SPECIFICATION FairSpec
CONSTANTS
    j1 = j1
    j2 = j2
    r1 = r1
    t1 = t1
    t2 = t2
    Jobs = {j1, j2}
    Workers = 2
    Requests = {r1}
    Targets = {t1}
    Times <- MCTimes
    Versions <- MCVersions
    Frames <- MCFramesLiveness
    NoBar = NoBar
    NoFrame = NoFrame
    NoTarget = NoTarget
PROPERTIES
    StartedJobsEnd
