SPECIFICATION MCSpec
CONSTANTS
    c1 = c1  c2 = c2  vb = vb  tx = tx  ty = ty  b1 = b1  b2 = b2  b3 = b3
    None = None
    Ctxs <- TwoCtxs
    Bufs <- OneBuf
    Texs <- NoTex
    Uses <- Everything
    Bos <- ThreeBos
    Reads <- SomeOrAll
    Failing <- OneBuf
    MaxWrites = 1
    MaxDraws = 2
    MaxQueued = 2
    MaxTemps = 6
    ColourLen = 2
    TexelLen = 2
    Outlines <- Shapes
    MaxValues = 4
    UboOffsets = TRUE
    Machines = {"regs"}
INVARIANT ReadsItsValue
CHECK_DEADLOCK FALSE
