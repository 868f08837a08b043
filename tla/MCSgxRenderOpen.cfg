SPECIFICATION Spec
CONSTANTS
    f1 = f1  f2 = f2  j1 = j1  j2 = j2  d1 = d1  kpbo = kpbo  upb = upb
    None = None
    Files <- TwoFiles
    Jobs <- TwoJobs
    Shapes <- MCShapes
    Pbs <- TwoPbs
    Dets <- OneDet
    KernelPb <- kpbo
    Autoboot = FALSE
    MaxRekicks = 1
    MaxLost = 1
    MaxDebugBoots = 0
    GpuHangs = FALSE
    BootFails = FALSE
    TimeoutFires = FALSE
    SlowRun = FALSE
CHECK_DEADLOCK FALSE
PROPERTY OpenSparesRenders
