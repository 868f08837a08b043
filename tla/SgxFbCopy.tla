----------------------------- MODULE SgxFbCopy -----------------------------
(***************************************************************************)
(* fbcon's moves of rectangles over themselves, by the 2D engine: in one   *)
(* job, or in bands no taller or wider than the distance.                  *)
(* Source: devices/a5/patches/files/drivers/gpu/drm/apple-sgx/             *)
(* apple_sgx_hw.c (sgx_fbcon_copyarea, sgx_fb_copy_safe).                  *)
(***************************************************************************)
EXTENDS Integers

CONSTANTS FbW, FbH,   \* the framebuffer
          Garbage     \* what a job leaves that reads what it has written

ASSUME FbConstants == FbW \in Nat \ {0} /\ FbH \in Nat \ {0}

VARIABLES fb,    \* [Pixels -> what they show: the pixel it was at first, or Garbage]
          move,  \* the move asked for: sx, sy, dx, dy, w, h, fast (fast_scroll)
          band,  \* the next band
          end    \* "no"; "done"; "late": the CPU did it after some bands

fbVars == <<fb, move, band, end>>

Pixels == (0..FbW - 1) \X (0..FbH - 1)
Moves ==
    {m \in [sx : 0..FbW - 1, dx : 0..FbW - 1, w : 1..FbW,
            sy : 0..FbH - 1, dy : 0..FbH - 1, h : 1..FbH, fast : BOOLEAN] :
        /\ m.sx + m.w <= FbW /\ m.dx + m.w <= FbW
        /\ m.sy + m.h <= FbH /\ m.dy + m.h <= FbH
        /\ <<m.sx, m.sy>> # <<m.dx, m.dy>>}     \* (fbcon moves nothing onto itself)

FbInit ==
    /\ fb = [p \in Pixels |-> p]
    /\ move \in Moves
    /\ band = 0 /\ end = "no"

In(p, x, y, w, h) == p[1] \in x..x + w - 1 /\ p[2] \in y..y + h - 1

(* A rectangle moved as fbcon means it: what was there, at its new place.  *)
Moved(m, was) ==
    [p \in Pixels |-> IF In(p, m.dx, m.dy, m.w, m.h)
                      THEN was[<<p[1] - m.dx + m.sx, p[2] - m.dy + m.sy>>] ELSE was[p]]

Overlaps(m) ==
    /\ m.sx < m.dx + m.w /\ m.dx < m.sx + m.w
    /\ m.sy < m.dy + m.h /\ m.dy < m.sy + m.h

(* One job (sgx_fb_copy).  Straight up it reads each region before the     *)
(* rows below are written; else what it reads may be written already.      *)
Up(m) == m.dx = m.sx /\ m.dy < m.sy
Job(m, was) ==
    IF ~Overlaps(m) \/ Up(m) THEN Moved(m, was)
    ELSE [p \in Pixels |->
             IF In(p, m.dx, m.dy, m.w, m.h) /\ In(p, m.sx, m.sy, m.w, m.h)
             THEN Garbage ELSE Moved(m, was)[p]]

Distance(a, b) == IF a > b THEN a - b ELSE b - a
OneJob(m) == ~Overlaps(m) \/ (m.fast /\ Up(m))
Bands(m) ==
    LET d == IF m.dy # m.sy THEN Distance(m.dy, m.sy) ELSE Distance(m.dx, m.sx)
        long == IF m.dy # m.sy THEN m.h ELSE m.w
    IN  IF OneJob(m) THEN 1 ELSE (long + d - 1) \div d

(* The i-th band, of those the last comes first when down or right.        *)
FirstFirst(m, i) == i                                                \* mutant
Which(m, i) ==
    IF (m.dy # m.sy /\ m.dy > m.sy) \/ (m.dy = m.sy /\ m.dx > m.sx) THEN Bands(m) - 1 - i ELSE i

Least(a, b) == IF a < b THEN a ELSE b
Band(m, i) ==
    LET vert == m.dy # m.sy
        d == IF vert THEN Distance(m.dy, m.sy) ELSE Distance(m.dx, m.sx)
        o == Which(m, i) * d
    IN  IF OneJob(m) THEN m
        ELSE IF vert
             THEN [m EXCEPT !.sy = @ + o, !.dy = @ + o, !.h = Least(d, @ - o)]
             ELSE [m EXCEPT !.sx = @ + o, !.dx = @ + o, !.w = Least(d, @ - o)]

CopyBand ==
    /\ end = "no"
    /\ fb' = Job(Band(move, band), fb)
    /\ band' = band + 1
    /\ end' = IF band + 1 = Bands(move) THEN "done" ELSE "no"
    /\ UNCHANGED move

(* The engine does not take a job: the CPU moves the whole rectangle.      *)
CpuCopies ==
    /\ end = "no"
    /\ fb' = Moved(move, fb)
    /\ end' = IF band = 0 THEN "done" ELSE "late"
    /\ UNCHANGED <<move, band>>

FbNext == CopyBand \/ CpuCopies

FbSpec == FbInit /\ [][FbNext]_fbVars

-----------------------------------------------------------------------------
(* A move that is done has moved every pixel and spoiled none: the bands   *)
(* are taken "in the order that never reads a written band".               *)
MoveExact == end = "done" => fb = Moved(move, [p \in Pixels |-> p])
=============================================================================
