SPECIFICATION MCSpec
CONSTANTS
    None = None
    Waiters = {"health", "sampler", "sweeper"}
    Interval = 2
    BackgroundInterval = 3
    Lazy = TRUE
INVARIANT SizeExact
PROPERTIES ResizeKeepsAll LookupLegal CallsReturn
PROPERTIES SpacedChecks LoopFollowsMode SamplerPublishes UnusedSessionClosed
PROPERTIES Converges
CHECK_DEADLOCK FALSE
