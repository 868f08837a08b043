SPECIFICATION Spec
CONSTANTS
    f1 = f1  f2 = f2  j1 = j1  j2 = j2  d1 = d1  kpbo = kpbo  upb = upb
    None = None
    Files <- TwoFiles
    Jobs <- TwoJobs
    Shapes <- MCShapes
    Pbs <- TwoPbs
    Dets <- OneDet
    KernelPb <- kpbo
    Autoboot = TRUE
    MaxRekicks = 1
    MaxLost = 1
    MaxDebugBoots = 2
    GpuHangs = TRUE
    BootFails = TRUE
    TimeoutFires = TRUE
    SlowRun = TRUE
SYMMETRY JobSymmetry
VIEW View
INVARIANTS TypeOK FenceHonest RenderAlone BuffersHeld
PROPERTIES PbFresh KpbImage KeepsPromise
CHECK_DEADLOCK FALSE
