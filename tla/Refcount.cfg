SPECIFICATION FairSpec
CONSTANTS
    t1 = t1
    t2 = t2
    r1 = r1
    r2 = r2
    r3 = r3
    r4 = r4
    r5 = r5
    Threads <- TwoThreads
    Refs <- FiveRefs
    NoThread = NoThread
    NoRef = NoRef
    Limit = 2
    Wrap = 5
CHECK_DEADLOCK FALSE
INVARIANTS
    RefcountExact
    NoUseAfterFree
    UniqueIsExclusive
    DestroyIsExclusive
    NeverWraps
PROPERTIES
    SharedNodeKept
    NoLeak
