------------------------------ MODULE SgxScreen ------------------------------
(***************************************************************************)
(* The A5's screen: the copies the 2D engine makes onto it, and who waits  *)
(* for them.  Source: the 2D engine in apple_sgx_hw.c and apple_sgx_kms.c  *)
(* (devices/a5/patches/files/drivers/gpu/drm/apple-sgx/).                  *)
(*                                                                         *)
(* Processes, interleaved at sgx->blt_lock:                                *)
(*   - the commit worker: a framebuffer's copy, the flip's event, and then *)
(*     the old framebuffer, which goes once nothing reads it -- while the  *)
(*     next commit's copy may be under way already;                        *)
(*   - the overlay ioctl, under the modeset locks;                         *)
(*   - fbcon, which cannot sleep, and debugfs, which waits for its job;    *)
(*   - a start of the microkernel (the render node's, after a timeout);    *)
(*   - the microkernel's transfer queue and the 2D engine (external).      *)
(***************************************************************************)
EXTENDS Naturals, Sequences, FiniteSets

CONSTANTS
    Fbs,          \* framebuffers, the render node's buffers
    Overlays,     \* buffers the overlay may show
    None,
    Drawers,      \* who draws besides the two: fbcon, debugfs
    MaxRects,     \* bound: rectangles a commit or an overlay change redraws
    MaxJobs,      \* bound: no new job from this many on
    MaxBoots,     \* bound: starts of the microkernel
    Hangs,        \* the microkernel may stop answering
    TakenLate,    \* one that runs may take a command after the 500 ms
    JobsLate,     \* a job past blt_timeout_ms may be done after all
    FailsEarly    \* a start may fail before it resets the GPU

Showers == {"commit", "overlay"}
Callers == Showers \cup Drawers

ASSUME ScreenConstants ==
    /\ None \notin Fbs /\ None \notin Overlays /\ Fbs \cap Overlays = {}
    /\ Drawers \subseteq {"fbcon", "debugfs"}
    /\ MaxRects \in Nat /\ MaxJobs \in Nat /\ MaxBoots \in Nat
    /\ {Hangs, TakenLate, JobsLate, FailsEarly} \subseteq BOOLEAN

VARIABLES
    \* struct apple_sgx
    boot,         \* boot_result: "starting" (0), "up" (1), "failed" (< 0)
    bootpc,       \* the start's progress: "none", "begun", "reset"
    boots,        \* how many starts there were
    seq,          \* blt_seq
    pending,      \* blt_pending: the job queued and not seen done, 0 = none
    old,          \* blt_timeout_ms have passed since blt_since
    broken,       \* blt_broken
    call,         \* [Callers -> where in sgx_blt_run: "idle", "sync", "run", "wait"]
    \* struct apple_sgx_kms and the commits
    fb,           \* the plane state's framebuffer, or None
    commit,       \* the commit worker: [pc, from, drew]: the framebuffer before,
                  \* whether it had a copy to make
    letgo,        \* framebuffers that a commit's tail waits to let go of
    ov,           \* ov_obj, or None
    ioctl,        \* the overlay ioctl: [pc, new]
    ov_lock,      \* who holds it: "commit", "overlay", "free"
    left,         \* the rectangles its holder has yet to show
    \* fbcon
    mySeq,        \* the job fbcon spins for, 0 = none
    \* the engine
    alive,        \* the microkernel runs
    tq,           \* the transfer queue: jobs [n, reads], the first of them running
    scratch       \* the completion word

bltVars == <<boot, bootpc, boots, seq, pending, old, broken, call>>
kmsVars == <<fb, commit, letgo, ov, ioctl, ov_lock, left>>
gpuVars == <<alive, tq, scratch>>
vars == <<bltVars, kmsVars, mySeq, gpuVars>>

Init ==
    /\ boot = "up" /\ bootpc = "none" /\ boots = 0
    /\ seq = 0 /\ pending = 0 /\ old = FALSE /\ broken = FALSE
    /\ call = [t \in Callers |-> "idle"]
    /\ fb = None /\ letgo = {}
    /\ commit = [pc |-> "idle", from |-> None, drew |-> FALSE]
    /\ ov = None /\ ioctl = [pc |-> "idle", new |-> None]
    /\ ov_lock = "free" /\ left = 0
    /\ mySeq = 0
    /\ alive = TRUE /\ tq = <<>> /\ scratch = 0

(* What the engine reads or will read: the jobs queued for a microkernel   *)
(* that is up.                                                             *)
Jobs == {tq[i] : i \in DOMAIN tq}
Reading == IF alive THEN UNION {j.reads : j \in Jobs} ELSE {}

-----------------------------------------------------------------------------
(* sgx_blt_reap, under blt_lock: the job queued last, if it is done now -- *)
(* even one that ran out of time -- or out of time.                        *)

SeenDone == pending # 0 /\ scratch = pending

NeverExpired == FALSE                               \* mutant
ExpiredAtOnce == pending # 0 /\ ~SeenDone           \* mutant
Expired == pending # 0 /\ ~SeenDone /\ old

ReapedPending == IF SeenDone THEN 0 ELSE pending
ReapedBroken == IF SeenDone THEN FALSE ELSE broken \/ Expired

Reap ==
    /\ pending' = ReapedPending /\ broken' = ReapedBroken
    /\ old' = (old /\ pending' # 0)

(* apple_sgx_blt_sync: one round of its loop, and what it says then.       *)
SyncAgain == ~ReapedBroken /\ ReapedPending # 0

(* The clock: blt_timeout_ms are over for the job queued. *)
Overdue ==
    /\ pending # 0 /\ ~old
    /\ ~SeenDone
    /\ JobsLate \/ ~alive
    /\ old' = TRUE
    /\ UNCHANGED <<boot, bootpc, boots, seq, pending, broken, call, kmsVars, mySeq, gpuVars>>

-----------------------------------------------------------------------------
(* sgx_blt_run.  Where each caller goes from there is in Return.           *)

(* sgx_blt_run returns; a copy that failed is logged, and the next         *)
(* rectangle shown; after the last, ov_lock is let go.                     *)
NeverLast(t) == t \notin Showers                    \* mutant
Last(t) == t \notin Showers \/ left = 1

Return(t) ==
    /\ call' = [call EXCEPT ![t] = IF Last(t) THEN "idle" ELSE "sync"]
    /\ left' = IF t \in Showers THEN left - 1 ELSE left
    /\ ov_lock' = IF t \in Showers /\ Last(t) THEN "free" ELSE ov_lock
    /\ commit' = IF t = "commit" /\ Last(t) THEN [commit EXCEPT !.pc = "event"] ELSE commit
    /\ ioctl' = IF t = "overlay" /\ Last(t) THEN [ioctl EXCEPT !.pc = "idle"] ELSE ioctl

(* What a copy reads; sgx_kms_over may leave the overlay out.              *)
Reads(t) == IF t \in Showers THEN {fb, ov} \ {None} ELSE {}

(* The job before waited for, sleeping. *)
BltSync(t) ==
    /\ call[t] = "sync"
    /\ Reap
    /\ \/ /\ SyncAgain
          /\ UNCHANGED <<call, commit, ioctl, ov_lock, left>>
       \/ /\ ~SyncAgain /\ ~ReapedBroken
          /\ call' = [call EXCEPT ![t] = "run"]
          /\ UNCHANGED <<commit, ioctl, ov_lock, left>>
       \/ /\ ReapedBroken
          /\ Return(t)
    /\ UNCHANGED <<boot, bootpc, boots, seq, fb, letgo, ov, mySeq, gpuVars>>

NeverRaced == FALSE                                 \* mutant
Raced == ~ReapedBroken /\ ReapedPending # 0

(* Another's job got in between (fbcon does not wait for it), or the       *)
(* engine is out of service.                                               *)
BltRefused(t) ==
    /\ call[t] = "run"
    /\ Raced \/ ReapedBroken
    /\ Reap
    /\ IF Raced /\ t # "fbcon"
       THEN /\ call' = [call EXCEPT ![t] = "sync"]
            /\ UNCHANGED <<commit, ioctl, ov_lock, left>>
       ELSE Return(t)
    /\ UNCHANGED <<boot, bootpc, boots, seq, fb, letgo, ov, mySeq, gpuVars>>

(* __sgx_blt_submit, no microkernel that is up: -ENODEV *)
BltNoDevice(t) ==
    /\ call[t] = "run"
    /\ ~Raced /\ ~ReapedBroken
    /\ boot # "up"
    /\ Reap
    /\ Return(t)
    /\ UNCHANGED <<boot, bootpc, boots, seq, fb, letgo, ov, mySeq, gpuVars>>

(* sgx_send_cmd: whether the microkernel takes the command in time. *)
Taken == {alive} \cup IF TakenLate THEN {FALSE} ELSE {}

(* __sgx_blt_submit: the pages built, the command queued and kicked.  One  *)
(* that is not taken in time stays queued and is not pending; a            *)
(* microkernel that runs takes it all the same, later.                     *)
BltSubmit(t) ==
    /\ call[t] = "run"
    /\ ~Raced /\ ~ReapedBroken
    /\ boot = "up"
    /\ seq < MaxJobs
    /\ seq' = seq + 1
    /\ scratch' = 0
    /\ tq' = Append(tq, [n |-> seq', reads |-> Reads(t)])
    /\ broken' = ReapedBroken /\ old' = FALSE
    /\ \E taken \in Taken :
       IF taken
       THEN /\ pending' = seq'
            /\ mySeq' = IF t = "fbcon" THEN seq' ELSE mySeq
            /\ IF t \in Showers                        \* BLT_ASYNC
               THEN Return(t)
               ELSE /\ call' = [call EXCEPT ![t] = "wait"]
                    /\ UNCHANGED <<commit, ioctl, ov_lock, left>>
       ELSE /\ pending' = ReapedPending
            /\ Return(t)
            /\ UNCHANGED mySeq
    /\ UNCHANGED <<boot, bootpc, boots, fb, letgo, ov, alive>>

(* BLT_SYNC *)
BltWaited ==
    /\ "debugfs" \in Drawers /\ call["debugfs"] = "wait"
    /\ Reap
    /\ call' = [call EXCEPT !["debugfs"] = IF SyncAgain THEN "wait" ELSE "idle"]
    /\ UNCHANGED <<boot, bootpc, boots, seq, kmsVars, mySeq, gpuVars>>

(* BLT_ATOMIC: spins on the completion word, 200 ms at most. *)
FbconDone ==
    /\ "fbcon" \in Drawers /\ call["fbcon"] = "wait"
    /\ scratch = mySeq
    /\ Reap
    /\ call' = [call EXCEPT !["fbcon"] = "idle"]
    /\ mySeq' = 0
    /\ UNCHANGED <<boot, bootpc, boots, seq, kmsVars, gpuVars>>

(* ... after which it puts the engine out of service, unless its job is    *)
(* done by then, and draws on the CPU.                                     *)
FbconGivesUp ==
    /\ "fbcon" \in Drawers /\ call["fbcon"] = "wait"
    /\ pending' = ReapedPending /\ old' = (old /\ pending' # 0)
    /\ broken' = (ReapedBroken \/ ReapedPending = mySeq)
    /\ call' = [call EXCEPT !["fbcon"] = "idle"]
    /\ mySeq' = 0
    /\ UNCHANGED <<boot, bootpc, boots, seq, kmsVars, gpuVars>>

FbconDraw ==
    /\ "fbcon" \in Drawers /\ call["fbcon"] = "idle"
    /\ call' = [call EXCEPT !["fbcon"] = "run"]
    /\ UNCHANGED <<boot, bootpc, boots, seq, pending, old, broken, kmsVars, mySeq, gpuVars>>

(* debugfs' "fill" and "copy", under sgx->lock: no start meanwhile. *)
DebugDraw ==
    /\ "debugfs" \in Drawers /\ call["debugfs"] = "idle"
    /\ bootpc = "none"
    /\ call' = [call EXCEPT !["debugfs"] = "sync"]
    /\ UNCHANGED <<boot, bootpc, boots, seq, pending, old, broken, kmsVars, mySeq, gpuVars>>

-----------------------------------------------------------------------------
(* sgx_boot, with sgx->lock held throughout: in the middle the GPU is      *)
(* reset and the queue and the completion word are made anew.  A start     *)
(* that fails before that leaves the engine as it was.                     *)

BootBegin ==
    /\ bootpc = "none" /\ boots < MaxBoots
    /\ "debugfs" \in Drawers => call["debugfs"] = "idle"
    /\ bootpc' = "begun" /\ boot' = "starting"
    /\ UNCHANGED <<boots, seq, pending, old, broken, call, kmsVars, mySeq, gpuVars>>

BootReset ==
    /\ bootpc = "begun"
    /\ bootpc' = "reset"
    /\ alive' = FALSE /\ tq' = <<>> /\ scratch' = 0
    /\ UNCHANGED <<boot, boots, seq, pending, old, broken, call, kmsVars, mySeq>>

BootEnd ==
    /\ \/ bootpc = "reset" /\ boot' = "up" /\ alive' = TRUE
       \/ bootpc = "reset" /\ boot' = "failed" /\ alive' = FALSE
       \/ bootpc = "begun" /\ FailsEarly /\ boot' = "failed" /\ alive' = alive
    /\ bootpc' = "none" /\ boots' = boots + 1
    /\ broken' = FALSE /\ pending' = 0 /\ old' = FALSE
    /\ UNCHANGED <<seq, call, kmsVars, mySeq, tq, scratch>>

-----------------------------------------------------------------------------
(* Commits.  The plane's state is swapped under the modeset locks; the     *)
(* tail runs after that, and the next commit may begin when its event is   *)
(* gone, while it still waits to let go of the old framebuffer -- at most  *)
(* one commit before the newest may (drm_atomic_helper, external).         *)

Commit(f) ==
    /\ commit.pc = "idle" /\ ioctl.pc = "idle"
    /\ Cardinality(letgo) < 2
    /\ fb' = f
    /\ commit' = [pc |-> IF f = None THEN "event" ELSE "begin", from |-> fb, drew |-> FALSE]
    /\ UNCHANGED <<letgo, ov, ioctl, ov_lock, left, bltVars, mySeq, gpuVars>>

(* sgx_kms_update: n rectangles of damage to show, under ov_lock. *)
Update(n) ==
    /\ commit.pc = "begin" /\ ov_lock = "free"
    /\ left' = n
    /\ IF n = 0
       THEN commit' = [commit EXCEPT !.pc = "event"] /\ UNCHANGED <<ov_lock, call>>
       ELSE /\ ov_lock' = "commit"
            /\ commit' = [commit EXCEPT !.pc = "copy", !.drew = TRUE]
            /\ call' = [call EXCEPT !["commit"] = "sync"]
    /\ UNCHANGED <<boot, bootpc, boots, seq, pending, old, broken,
                   fb, letgo, ov, ioctl, mySeq, gpuVars>>

Event ==
    /\ commit.pc = "event"
    /\ letgo' = IF commit.from \in {None, fb} THEN letgo ELSE letgo \cup {commit.from}
    /\ commit' = [pc |-> "idle", from |-> None, drew |-> FALSE]
    /\ UNCHANGED <<fb, ov, ioctl, ov_lock, left, bltVars, mySeq, gpuVars>>

(* apple_sgx_blt_sync before memory goes: its -EIO is not looked at.       *)
GoesAnyway == TRUE                                  \* mutant
GoesIfDone == ReapedPending = 0                     \* mutant
MayGo == ~SyncAgain

CommitLetsGo(f) ==
    /\ f \in letgo
    /\ Reap
    /\ MayGo
    /\ letgo' = letgo \ {f}
    /\ UNCHANGED <<boot, bootpc, boots, seq, call, fb, commit, ov, ioctl, ov_lock, left,
                   mySeq, gpuVars>>

(* The memory that somebody holds: the plane, the states of a commit under *)
(* way, a commit's tail, the overlay and its ioctl -- the client's own     *)
(* handles left out, as if it closed them at once.                         *)
Live == (letgo \cup {fb, commit.from, ov, ioctl.new}) \ {None}

-----------------------------------------------------------------------------
(* The overlay ioctl: set, changed or taken away (o = None), under the     *)
(* modeset locks (pc) and ov_lock.                                         *)

OverlayBegin(o) ==
    /\ ioctl.pc = "idle" /\ (o = None => ov # None)
    /\ ioctl' = [pc |-> "lock", new |-> o]
    /\ UNCHANGED <<fb, commit, letgo, ov, ov_lock, left, bltVars, mySeq, gpuVars>>

OverlayLock ==
    /\ ioctl.pc = "lock" /\ ov_lock = "free"
    /\ ov_lock' = "overlay"
    /\ ioctl' = [ioctl EXCEPT !.pc = "drop"]
    /\ UNCHANGED <<fb, commit, letgo, ov, left, bltVars, mySeq, gpuVars>>

(* sgx_kms_overlay_drop, the new one in its place, and n rectangles to     *)
(* show again, unless no framebuffer is shown.                             *)
OverlayDrop(n) ==
    /\ ioctl.pc = "drop"
    /\ IF ov = None THEN UNCHANGED <<pending, broken, old>> ELSE Reap /\ MayGo
    /\ ov' = ioctl.new
    /\ left' = n
    /\ IF n = 0
       THEN ov_lock' = "free" /\ ioctl' = [pc |-> "idle", new |-> None] /\ UNCHANGED call
       ELSE /\ fb # None
            /\ ioctl' = [pc |-> "redraw", new |-> None]
            /\ call' = [call EXCEPT !["overlay"] = "sync"]
            /\ UNCHANGED ov_lock
    /\ UNCHANGED <<boot, bootpc, boots, seq, fb, commit, letgo, mySeq, gpuVars>>

-----------------------------------------------------------------------------
(* The microkernel's transfer queue and the engine (external). *)

UkEnd ==
    /\ alive /\ tq # <<>>
    /\ scratch' = Head(tq).n
    /\ tq' = Tail(tq)
    /\ UNCHANGED <<alive, bltVars, kmsVars, mySeq>>

UkHang ==
    /\ Hangs /\ alive
    /\ alive' = FALSE
    /\ UNCHANGED <<tq, scratch, bltVars, kmsVars, mySeq>>

-----------------------------------------------------------------------------

CallerNext(t) == BltSync(t) \/ BltRefused(t) \/ BltNoDevice(t) \/ BltSubmit(t)
FbconNext == FbconDone \/ FbconGivesUp
CommitNext == (\E n \in 0 .. MaxRects : Update(n)) \/ Event
OverlayNext == OverlayLock \/ \E n \in 0 .. MaxRects : OverlayDrop(n)
BootNext == BootReset \/ BootEnd

Next ==
    \/ \E t \in Callers : CallerNext(t)
    \/ BltWaited \/ FbconNext \/ CommitNext \/ OverlayNext \/ BootNext \/ UkEnd
    \/ Overdue \/ FbconDraw \/ DebugDraw \/ BootBegin \/ UkHang
    \/ \E f \in Fbs \cup {None} : Commit(f)
    \/ \E f \in Fbs : CommitLetsGo(f)
    \/ \E o \in Overlays \cup {None} : OverlayBegin(o)

(* The kernel's threads run on; jiffies go on; a microkernel that is up    *)
(* takes its queue and ends its jobs.                                      *)
Fairness ==
    /\ \A t \in Callers : WF_vars(CallerNext(t))
    /\ WF_vars(BltWaited) /\ WF_vars(FbconNext) /\ WF_vars(CommitNext)
    /\ WF_vars(OverlayNext) /\ WF_vars(BootNext) /\ WF_vars(UkEnd) /\ WF_vars(Overdue)
    /\ \A f \in Fbs : WF_vars(CommitLetsGo(f))

Spec == Init /\ [][Next]_vars /\ Fairness

-----------------------------------------------------------------------------

JobNos == 0 .. MaxJobs
Job == [n : JobNos, reads : SUBSET (Fbs \cup Overlays)]

(* Every variable keeps its type; a caller waits in the ways it can.       *)
TypeOK ==
    /\ boot \in {"starting", "up", "failed"} /\ bootpc \in {"none", "begun", "reset"}
    /\ boots \in 0 .. MaxBoots
    /\ {seq, pending, mySeq, scratch} \subseteq JobNos
    /\ {old, broken, alive} \subseteq BOOLEAN
    /\ call \in [Callers -> {"idle", "sync", "run", "wait"}]
    /\ fb \in Fbs \cup {None} /\ ov \in Overlays \cup {None}
    /\ letgo \subseteq Fbs
    /\ commit \in [pc : {"idle", "begin", "copy", "event"}, from : Fbs \cup {None},
                   drew : BOOLEAN]
    /\ ioctl \in [pc : {"idle", "lock", "drop", "redraw"}, new : Overlays \cup {None}]
    /\ ov_lock \in {"commit", "overlay", "free"} /\ left \in 0 .. MaxRects
    /\ tq \in Seq(Job)

(* The engine draws each job from the block and parameter pages built for  *)
(* it, which are those of the job built last: __sgx_blt_submit is called   *)
(* "with no job of the engine's still running", across hangs, starts and   *)
(* fbcon's giving up.                                                      *)
OwnParams == alive => \A j \in Jobs : j.n = seq

(* What the engine reads is held: "An old framebuffer goes once no copy    *)
(* reads it" (sgx_kms_commit_tail), and the overlay before another takes   *)
(* its place, "a copy queued may still be reading it".                     *)
ReadsHeld == Reading \subseteq Live

(* The event of a commit that drew says that the old framebuffer can be    *)
(* drawn into: no copy reads it any more, although the event does not wait *)
(* for the commit's own copy.                                              *)
EventUnread == [][Event /\ commit.drew /\ commit.from # fb => commit.from \notin Reading]_vars

(* Whoever draws comes back, and every old framebuffer is let go of,       *)
(* whatever the microkernel does; for a draw, as long as the bound on jobs *)
(* leaves one for it.                                                      *)
DrawsReturn == \A t \in Callers : call[t] # "idle" ~> call[t] = "idle" \/ seq = MaxJobs
OldOnesGo == \A f \in Fbs : f \in letgo ~> f \notin letgo
=============================================================================
