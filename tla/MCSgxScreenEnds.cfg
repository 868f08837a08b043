SPECIFICATION Spec
CONSTANTS
    fb1 = fb1  fb2 = fb2  ov1 = ov1
    None = None
    Fbs <- OneFb
    Overlays <- OneOverlay
    Drawers = {"fbcon"}
    MaxRects = 2
    MaxJobs = 2
    MaxBoots = 1
    Hangs = TRUE
    TakenLate = TRUE
    JobsLate = FALSE
    FailsEarly = TRUE
PROPERTIES DrawsReturn OldOnesGo
CHECK_DEADLOCK FALSE
