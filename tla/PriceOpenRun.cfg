SPECIFICATION Spec
CONSTANTS
    j1 = j1
    j2 = j2
    r1 = r1
    t1 = t1
    t2 = t2
    Jobs = {j1, j2}
    Workers = 2
    Requests = {}
    Targets = {t1, t2}
    Times <- MCTimes
    Versions <- MCVersions
    Frames <- MCFrames
    NoBar = NoBar
    NoFrame = NoFrame
    NoTarget = NoTarget
INVARIANTS
    EndedRunsAreClosed
