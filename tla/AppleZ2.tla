------------------------------- MODULE AppleZ2 -------------------------------
(***************************************************************************)
(* The A5's touch screen, the Z2: who reads its frames, and when.  Source: *)
(* devices/a5/patches/files-sandcastle-port/drivers/input/touchscreen/     *)
(*     apple-z2.c                                                          *)
(*                                                                         *)
(* ATTN is low while the chip has a frame; the interrupt is on its falling *)
(* edge, threaded.  The daemon that loads the firmware has the device      *)
(* open: it resets the chip, waits for an ATTN of the chip's boot, and     *)
(* says READY, from when on the interrupt thread reads frames.             *)
(* hxt->mutex keeps the reads, RESET and READY apart; close takes no lock. *)
(***************************************************************************)
EXTENDS Naturals

CONSTANTS
    Z2MaxReads,  \* reads in one go: 16, scaled down
    Z2MaxFrames  \* bound: frames the chip holds

ASSUME Z2Constants == Z2MaxReads \in Nat \ {0} /\ Z2MaxFrames \in Nat \ {0}

VARIABLES
    hxt,     \* struct hx_touch_data: [open, closing, irqOn, ready, done];
             \* open is misc_dev_inuse, done irq_done
    z2,      \* the chip: [power, reset, frames, edge]; edge is an ATTN the
             \* CPU has not taken yet
    thread,  \* the interrupt thread: "none", "woken", "reading"
    z2Read,  \* the loop of read_all_reports: [by, left, line]: "none",
             \* "thread", "ready"; reads left; ATTN yet to be looked at
    spent    \* a loop used up its reads with ATTN low

z2Vars == <<hxt, z2, thread, z2Read, spent>>

NoRead == [by |-> "none", left |-> 0, line |-> FALSE]

Z2Init ==
    /\ hxt = [open |-> FALSE, closing |-> FALSE, irqOn |-> FALSE, ready |-> FALSE,
              done |-> FALSE]
    /\ z2 = [power |-> FALSE, reset |-> TRUE, frames |-> 0, edge |-> FALSE]
    /\ thread = "none" /\ z2Read = NoRead /\ spent = FALSE

MutexFree == z2Read.by = "none"
InUse == hxt.open /\ ~hxt.closing
ReadAll(by) == [by |-> by, left |-> Z2MaxReads, line |-> FALSE]

-----------------------------------------------------------------------------
(* hx_touch_misc_dev_open, when every supply comes up. *)
Z2Open ==
    /\ ~hxt.open
    /\ hxt' = [hxt EXCEPT !.open = TRUE, !.irqOn = TRUE]
    /\ z2' = [z2 EXCEPT !.power = TRUE]
    /\ UNCHANGED <<thread, z2Read, spent>>

(* hx_touch_misc_dev_release: disable_irq, which waits for the thread ... *)
Z2CloseNoSync ==                                                     \* mutant
    /\ InUse /\ z2Read.by # "ready"
    /\ hxt' = [hxt EXCEPT !.closing = TRUE, !.irqOn = FALSE]
    /\ UNCHANGED <<z2, thread, z2Read, spent>>

Z2Close ==
    /\ InUse /\ z2Read.by # "ready" /\ thread = "none"
    /\ hxt' = [hxt EXCEPT !.closing = TRUE, !.irqOn = FALSE]
    /\ UNCHANGED <<z2, thread, z2Read, spent>>

(* ... and the chip in reset and without power. *)
Z2Off ==
    /\ hxt.closing
    /\ hxt' = [hxt EXCEPT !.open = FALSE, !.closing = FALSE, !.ready = FALSE]
    /\ z2' = [z2 EXCEPT !.power = FALSE, !.reset = TRUE, !.frames = 0]
    /\ spent' = FALSE
    /\ UNCHANGED <<thread, z2Read>>

(* HXT_IOC_RESET.  The daemon does one before READY. *)
Z2Reset ==
    /\ InUse /\ MutexFree
    /\ hxt' = [hxt EXCEPT !.ready = FALSE]
    /\ z2' = [z2 EXCEPT !.reset = FALSE, !.frames = 0]
    /\ spent' = FALSE
    /\ UNCHANGED <<thread, z2Read>>

Z2ReadyQuiet ==                                                      \* mutant
    /\ InUse /\ MutexFree /\ ~hxt.ready /\ ~z2.reset
    /\ hxt' = [hxt EXCEPT !.ready = TRUE]
    /\ UNCHANGED <<z2, thread, z2Read, spent>>

(* HXT_IOC_READY: reads at once what came before. *)
Z2Ready ==
    /\ InUse /\ MutexFree /\ ~hxt.ready /\ ~z2.reset
    /\ hxt' = [hxt EXCEPT !.ready = TRUE]
    /\ z2Read' = ReadAll("ready")
    /\ UNCHANGED <<z2, thread, spent>>

(* HXT_IOC_SETUP_IRQ forgets a completion, HXT_IOC_WAIT_IRQ takes one. *)
Z2SetupIrq ==
    /\ InUse /\ ~hxt.ready /\ hxt.done
    /\ hxt' = [hxt EXCEPT !.done = FALSE]
    /\ UNCHANGED <<z2, thread, z2Read, spent>>

-----------------------------------------------------------------------------
(* hx_touch_irq_handler: the primary handler wakes the thread (ONESHOT),   *)
(* which takes the mutex.                                                  *)
Z2Irq ==
    /\ hxt.irqOn /\ z2.edge /\ thread = "none"
    /\ thread' = "woken"
    /\ z2' = [z2 EXCEPT !.edge = FALSE]
    /\ UNCHANGED <<hxt, z2Read, spent>>

Z2Thread ==
    /\ thread = "woken" /\ MutexFree
    /\ IF hxt.ready
       THEN thread' = "reading" /\ z2Read' = ReadAll("thread") /\ UNCHANGED hxt
       ELSE thread' = "none" /\ hxt' = [hxt EXCEPT !.done = TRUE] /\ UNCHANGED z2Read
    /\ UNCHANGED <<z2, spent>>

(* hx_touch_read_report: a frame, nothing, or an error (four tries, a bad  *)
(* header or checksum) that leaves the frame in the chip.                  *)
ReadReport ==
    /\ z2Read.by # "none" /\ ~z2Read.line
    /\ z2' \in {z2, [z2 EXCEPT !.frames = IF @ = 0 THEN 0 ELSE @ - 1]}
    /\ z2Read' = [z2Read EXCEPT !.left = @ - 1, !.line = TRUE]
    /\ UNCHANGED <<hxt, thread, spent>>

(* hx_touch_read_all_reports: again while ATTN is low. *)
ReadAgain ==
    /\ z2Read.by # "none" /\ z2Read.line
    /\ IF z2.frames > 0 /\ z2Read.left > 0
       THEN z2Read' = [z2Read EXCEPT !.line = FALSE] /\ UNCHANGED <<thread, spent>>
       ELSE /\ z2Read' = NoRead
            /\ thread' = IF z2Read.by = "thread" THEN "none" ELSE thread
            /\ spent' = (z2.frames > 0)
    /\ UNCHANGED <<hxt, z2>>

-----------------------------------------------------------------------------
(* The chip (external): a frame, with an edge if ATTN was high; an ATTN of *)
(* its boot.                                                               *)
Z2Frame ==
    /\ ~z2.reset /\ z2.frames < Z2MaxFrames
    /\ z2' = [z2 EXCEPT !.frames = @ + 1, !.edge = @ \/ z2.frames = 0]
    /\ UNCHANGED <<hxt, thread, z2Read, spent>>

Z2Boots ==
    /\ ~z2.reset /\ ~hxt.ready /\ ~z2.edge
    /\ z2' = [z2 EXCEPT !.edge = TRUE]
    /\ UNCHANGED <<hxt, thread, z2Read, spent>>

Z2Next ==
    \/ Z2Open \/ Z2Close \/ Z2Off \/ Z2Reset \/ Z2Ready \/ Z2SetupIrq
    \/ Z2Irq \/ Z2Thread \/ ReadReport \/ ReadAgain
    \/ Z2Frame \/ Z2Boots

Z2Spec == Z2Init /\ [][Z2Next]_z2Vars

-----------------------------------------------------------------------------
Z2TypeOK ==
    /\ hxt \in [open : BOOLEAN, closing : BOOLEAN, irqOn : BOOLEAN,
                ready : BOOLEAN, done : BOOLEAN]
    /\ z2 \in [power : BOOLEAN, reset : BOOLEAN, frames : 0 .. Z2MaxFrames,
               edge : BOOLEAN]
    /\ thread \in {"none", "woken", "reading"}
    /\ z2Read \in [by : {"none", "thread", "ready"}, left : 0 .. Z2MaxReads,
                   line : BOOLEAN]
    /\ spent \in BOOLEAN

(* "A frame left unread leaves the line low with no edge to come": a frame *)
(* of a chip that is ready always has an interrupt coming or a loop that   *)
(* will see the line -- a frame that came before READY, one in the middle  *)
(* of a read, one whose read failed -- unless a loop used up its reads.    *)
NoFrameAlone ==
    (hxt.ready /\ InUse /\ z2.frames > 0) =>
        z2.edge \/ thread = "woken" \/ z2Read.by # "none" \/ spent

(* The chip is read only with its power on and out of reset, while a close *)
(* may come at any moment.                                                 *)
ReadsAlive == (z2Read.by # "none") => (z2.power /\ ~z2.reset /\ hxt.ready)
=============================================================================
