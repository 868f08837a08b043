SPECIFICATION Spec
CONSTANTS
    fb1 = fb1  fb2 = fb2  ov1 = ov1
    None = None
    Fbs <- TwoFbs
    Overlays <- OneOverlay
    Drawers = {"fbcon", "debugfs"}
    MaxRects = 1
    MaxJobs = 3
    MaxBoots = 1
    Hangs = TRUE
    TakenLate = FALSE
    JobsLate = TRUE
    FailsEarly = FALSE
INVARIANT ReadsHeld
CHECK_DEADLOCK FALSE
