SPECIFICATION MCSpec
CONSTANTS
    p1 = p1  p2 = p2  c1 = c1  c2 = c2  fs1 = fs1  fs2 = fs2  fs3 = fs3
    l1 = l1  l2 = l2  t1 = t1  t2 = t2  t3 = t3
    ChargerMas <- MCMas
    ChargerDefaultMa = 500
    ChargerMaxMa = 500
    ChargerGives <- MCGives
    ChargerProbeCode = 34
    ChargerMaxFaults = 1
    Vipis <- MCVipis
    EventLimit = 2
    I2cTransfers <- MCTransfers
    FifoChunk = 2
    StrayLens <- MCStrayLens
    Z2MaxReads = 4
    Z2MaxFrames = 2
    Fingers <- MCFingers
    RingSize = 8
    RenderLens <- MCLens
    RenderMax = 3
    BltLen = 3
    KernelCcb = 2
    Pages <- MCPages
    MaxRemaps = 2
    Nothing = Nothing
    Ctxs <- MCCtxs
    Progs <- MCProgs
    Owner <- MCOwner
    Places <- MCPlaces
    Targets <- MCTargets
    MaxEot = 2
    MaxQueued = 2
    Vacant = Vacant
    FbW = 3
    FbH = 4
    Garbage = Garbage
INVARIANTS DriversTypeOK NoFlagAlone LineKept RightEntry  NoFrameAlone ReadsAlive NoPhantomTap NextFits RingsWhole RenderSeesTables CodeStays EotStays MoveExact
PROPERTIES SagRemembered SettlesUnderSource HotComesDown DisarmRestores DoneIsWhole NothingSticks
CHECK_DEADLOCK FALSE
