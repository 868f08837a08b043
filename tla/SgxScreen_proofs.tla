-------------------------- MODULE SgxScreen_proofs --------------------------
(***************************************************************************)
(* What SgxScreen promises, proved for any number of framebuffers,         *)
(* overlays, rectangles, jobs and starts.                                  *)
(*                                                                         *)
(* The inductive invariant has four parts: the types; LockInv, who holds   *)
(* ov_lock; QueueInv, that a microkernel that is up, and takes commands in *)
(* time or never, has at most one job, the last, and that blt_pending      *)
(* names it; and, for an engine whose jobs besides are never late and      *)
(* whose starts reset it, HeldInv, what that job reads.                    *)
(***************************************************************************)
EXTENDS SgxScreen, TLAPS

(* Who shows rectangles has ov_lock, and a rectangle left to show. *)
LockInv ==
    /\ ov_lock = "commit" <=> commit.pc = "copy"
    /\ ov_lock = "overlay" <=> ioctl.pc \in {"drop", "redraw"}
    /\ call["commit"] # "idle" => commit.pc = "copy"
    /\ call["overlay"] # "idle" => ioctl.pc = "redraw"
    /\ \A t \in Showers : call[t] # "idle" => left > 0
    /\ commit.pc = "idle" => commit.from = None
    /\ commit.pc = "begin" => ~commit.drew
    /\ ioctl.pc \in {"idle", "redraw"} => ioctl.new = None

(* A job that a running microkernel has is the last one, alone and not     *)
(* seen done; only a start that fails early may have forgotten it.         *)
QueueInv ==
    /\ boot = "up" => bootpc = "none"
    /\ bootpc # "none" => boots < MaxBoots
    /\ bootpc = "reset" => ~alive /\ tq = <<>>
    /\ pending <= seq /\ mySeq <= seq
    /\ ~TakenLate /\ alive /\ tq # <<>> =>
           /\ Len(tq) = 1 /\ Head(tq).n = seq
           /\ seq > 0 /\ scratch # seq
           /\ boot = "up" => pending = seq

(* No command and no job is late, and a start that begins resets the GPU.  *)
Punctual == ~TakenLate /\ ~JobsLate /\ ~FailsEarly

(* The engine is out of service while a job may still run only when that   *)
(* is fbcon's, which reads no memory of anybody's.                         *)
HeldInv ==
    /\ alive /\ tq # <<>> =>
           /\ pending = seq /\ ~old
           /\ broken \/ mySeq = seq => Head(tq).reads = {}
           /\ Head(tq).reads \subseteq Live
    /\ alive /\ tq # <<>> /\ commit.pc = "event" /\ commit.drew /\ commit.from # fb =>
           commit.from \notin Head(tq).reads

Inv == TypeOK /\ LockInv /\ QueueInv /\ (Punctual => HeldInv)

-----------------------------------------------------------------------------

(* A job that blt_pending names and that is not done stays pending when    *)
(* the engine's state is brought up to date (sgx_blt_reap).                *)
LEMMA Unseen ==
    ASSUME Inv, ~TakenLate, alive, tq # <<>>, pending = seq
    PROVE  ~SeenDone /\ ReapedPending = seq /\ seq # 0 /\ ReapedBroken = (broken \/ old)
BY DEF Inv, TypeOK, QueueInv, JobNos, SeenDone, ReapedPending, ReapedBroken, Expired

(* Who finds the engine in service and free finds no job in the queue.     *)
LEMMA FreeEngine ==
    ASSUME Inv, ~TakenLate, ~Raced, ~ReapedBroken, alive, boot = "up" \/ Punctual
    PROVE  tq = <<>> /\ ReapedPending = 0
<1>1. ReapedPending = 0
    BY DEF Raced
<1>2. tq # <<>> => pending = seq
    BY DEF Inv, QueueInv, HeldInv
<1> QED
    BY <1>1, <1>2, Unseen

(* sgx_blt_reap keeps the types of what it changes, and what is pending. *)
LEMMA ReapTypes ==
    ASSUME Inv, Reap
    PROVE  /\ pending' \in {0, pending} /\ pending' \in JobNos /\ pending' <= seq
           /\ broken' \in BOOLEAN /\ old' \in BOOLEAN
           /\ old' => old
           /\ ~TakenLate /\ alive /\ tq # <<>> /\ pending = seq =>
                  pending' = seq /\ old' = old /\ broken' = (broken \/ old)
<1> USE ScreenConstants
<1>1. pending' \in {0, pending} /\ pending' \in JobNos /\ pending' <= seq
    BY DEF Inv, TypeOK, QueueInv, JobNos, Reap, ReapedPending
<1>2. broken' \in BOOLEAN /\ old' \in BOOLEAN /\ (old' => old)
    BY DEF Inv, TypeOK, Reap, ReapedBroken, SeenDone, Expired
<1>3. ~TakenLate /\ alive /\ tq # <<>> /\ pending = seq =>
          pending' = seq /\ old' = old /\ broken' = (broken \/ old)
    BY Unseen DEF Reap, Inv, TypeOK
<1> QED
    BY <1>1, <1>2, <1>3

(* What Return leaves alone of a commit and of the ioctl. *)
LEMMA ReturnStep ==
    ASSUME Inv, NEW t \in Callers, call[t] # "idle", Return(t)
    PROVE  /\ call' \in [Callers -> {"idle", "sync", "run", "wait"}]
           /\ commit' \in [pc : {"idle", "begin", "copy", "event"},
                           from : Fbs \cup {None}, drew : BOOLEAN]
           /\ ioctl' \in [pc : {"idle", "lock", "drop", "redraw"}, new : Overlays \cup {None}]
           /\ ov_lock' \in {"commit", "overlay", "free"} /\ left' \in 0 .. MaxRects
           /\ LockInv'
           /\ commit'.from = commit.from /\ commit'.drew = commit.drew
           /\ ioctl'.new = ioctl.new
           /\ commit'.pc = "event" => commit.pc = "event" \/ t = "commit"
<1> USE ScreenConstants DEF Inv, TypeOK, Callers, Showers
<1>1. CASE t = "commit"
    <2>1. commit.pc = "copy" /\ left > 0 /\ ov_lock = "commit" /\ call["overlay"] = "idle"
        BY <1>1 DEF LockInv
    <2>2. /\ call' = [call EXCEPT !["commit"] = IF left = 1 THEN "idle" ELSE "sync"]
          /\ left' = left - 1 /\ ioctl' = ioctl
          /\ ov_lock' = IF left = 1 THEN "free" ELSE ov_lock
          /\ commit' = IF left = 1 THEN [commit EXCEPT !.pc = "event"] ELSE commit
        BY <1>1 DEF Return, Last
    <2> QED
        BY <1>1, <2>1, <2>2 DEF LockInv
<1>2. CASE t = "overlay"
    <2>1. ioctl.pc = "redraw" /\ left > 0 /\ ov_lock = "overlay" /\ call["commit"] = "idle"
        BY <1>2 DEF LockInv
    <2>2. /\ call' = [call EXCEPT !["overlay"] = IF left = 1 THEN "idle" ELSE "sync"]
          /\ left' = left - 1 /\ commit' = commit
          /\ ov_lock' = IF left = 1 THEN "free" ELSE ov_lock
          /\ ioctl' = IF left = 1 THEN [ioctl EXCEPT !.pc = "idle"] ELSE ioctl
        BY <1>2 DEF Return, Last
    <2> QED
        BY <1>2, <2>1, <2>2 DEF LockInv
<1>3. CASE t \notin Showers
    <2>1. /\ call' = [call EXCEPT ![t] = "idle"]
          /\ left' = left /\ ov_lock' = ov_lock /\ commit' = commit /\ ioctl' = ioctl
        BY <1>3 DEF Return, Last
    <2> QED
        BY <1>3, <2>1 DEF LockInv
<1> QED
    BY <1>1, <1>2, <1>3

(* A caller's steps, seen from the locks: it comes back, or goes on to     *)
(* wait with everything as it was.                                         *)
LEMMA CallerCases ==
    ASSUME NEW t \in Callers, CallerNext(t)
    PROVE  /\ call[t] # "idle"
           /\ \/ Return(t)
              \/ /\ \E v \in {"sync", "run", "wait"} : call' = [call EXCEPT ![t] = v]
                 /\ UNCHANGED <<commit, ioctl, ov_lock, left>>
              \/ UNCHANGED <<call, commit, ioctl, ov_lock, left>>
<1>1. CASE BltSync(t)
    BY <1>1 DEF BltSync
<1>2. CASE BltRefused(t)
    BY <1>2 DEF BltRefused
<1>3. CASE BltNoDevice(t)
    BY <1>3 DEF BltNoDevice
<1>4. CASE BltSubmit(t)
    BY <1>4 DEF BltSubmit
<1> QED
    BY <1>1, <1>2, <1>3, <1>4 DEF CallerNext

(* Every step keeps who has ov_lock. *)
LEMMA LockStep == Inv /\ [Next]_vars => LockInv'
<1> SUFFICES ASSUME Inv, [Next]_vars PROVE LockInv'
    OBVIOUS
<1> USE DEF Inv
<1>1. ASSUME NEW t \in Callers, CallerNext(t) PROVE LockInv'
    <2>1. CASE Return(t)
        BY <1>1, <2>1, CallerCases, ReturnStep
    <2>2. CASE /\ \E v \in {"sync", "run", "wait"} : call' = [call EXCEPT ![t] = v]
               /\ UNCHANGED <<commit, ioctl, ov_lock, left>>
        BY <1>1, <2>2, CallerCases DEF LockInv, TypeOK, Callers, Showers
    <2>3. CASE UNCHANGED <<call, commit, ioctl, ov_lock, left>>
        BY <2>3 DEF LockInv
    <2> QED
        BY <1>1, <2>1, <2>2, <2>3, CallerCases
<1>2. CASE BltWaited \/ FbconNext \/ FbconDraw \/ DebugDraw
    <2>1. \E t \in Callers \ Showers, v \in {"idle", "sync", "run", "wait"} :
              call' = [call EXCEPT ![t] = v]
        BY <1>2, ScreenConstants
           DEF BltWaited, FbconNext, FbconDone, FbconGivesUp, FbconDraw, DebugDraw, Callers, Showers
    <2>2. UNCHANGED <<commit, ioctl, ov_lock, left>>
        BY <1>2 DEF BltWaited, FbconNext, FbconDone, FbconGivesUp, FbconDraw, DebugDraw, kmsVars
    <2> QED
        BY <2>1, <2>2 DEF LockInv, TypeOK, Callers, Showers
<1>3. ASSUME NEW n \in 0 .. MaxRects, Update(n) PROVE LockInv'
    <2>1. call["commit"] = "idle" /\ call["overlay"] = "idle" /\ ioctl' = ioctl
        BY <1>3 DEF Update, LockInv
    <2>2. CASE n = 0
        BY <1>3, <2>1, <2>2 DEF Update, LockInv, TypeOK, Showers
    <2>3. CASE n # 0
        <3>1. commit'.pc = "copy" /\ commit'.from = commit.from
            BY <1>3, <2>3 DEF Update, TypeOK
        <3>2. n > 0 /\ left' = n /\ ov_lock' = "commit"
            BY <1>3, <2>3, ScreenConstants DEF Update
        <3>3. call' = [call EXCEPT !["commit"] = "sync"] /\ call'["overlay"] = "idle"
            BY <1>3, <2>1, <2>3 DEF Update, TypeOK, Callers, Showers
        <3> QED
            BY <1>3, <2>1, <3>1, <3>2, <3>3 DEF Update, LockInv, Showers
    <2> QED
        BY <2>2, <2>3
<1>9. CASE Event
    BY <1>9 DEF Event, bltVars, LockInv, TypeOK, Callers, Showers
<1>4. CASE OverlayNext
    BY <1>4 DEF OverlayNext, OverlayLock, OverlayDrop, bltVars, LockInv, TypeOK, Callers, Showers
<1>5. CASE BootNext \/ UkEnd \/ Overdue \/ BootBegin \/ UkHang \/ UNCHANGED vars
    BY <1>5 DEF BootNext, BootReset, BootEnd, UkEnd, Overdue, BootBegin, UkHang,
                vars, bltVars, kmsVars, LockInv
<1>6. CASE \E f \in Fbs \cup {None} : Commit(f)
    BY <1>6 DEF Commit, bltVars, LockInv, TypeOK
<1>7. CASE \E f \in Fbs : CommitLetsGo(f)
    BY <1>7 DEF CommitLetsGo, LockInv
<1>8. CASE \E o \in Overlays \cup {None} : OverlayBegin(o)
    BY <1>8 DEF OverlayBegin, bltVars, LockInv, TypeOK
<1> QED
    BY <1>1, <1>2, <1>3, <1>4, <1>5, <1>6, <1>7, <1>8, <1>9
       DEF Next, CommitNext

(* Every step keeps the types. *)
LEMMA TypeStep == Inv /\ [Next]_vars => TypeOK'
<1> SUFFICES ASSUME Inv, [Next]_vars PROVE TypeOK'
    OBVIOUS
<1> USE ScreenConstants DEF Inv
<1>1. ASSUME NEW t \in Callers, CallerNext(t) PROVE TypeOK'
    <2>1. /\ call' \in [Callers -> {"idle", "sync", "run", "wait"}]
          /\ commit' \in [pc : {"idle", "begin", "copy", "event"},
                          from : Fbs \cup {None}, drew : BOOLEAN]
          /\ ioctl' \in [pc : {"idle", "lock", "drop", "redraw"}, new : Overlays \cup {None}]
          /\ ov_lock' \in {"commit", "overlay", "free"} /\ left' \in 0 .. MaxRects
        BY <1>1, CallerCases, ReturnStep DEF TypeOK
    <2>2. CASE BltSubmit(t)
        <3>1. seq' \in JobNos /\ scratch' \in JobNos /\ mySeq' \in JobNos /\ pending' \in JobNos
            BY <2>2 DEF BltSubmit, Taken, TypeOK, JobNos, ReapedPending
        <3>2. Reads(t) \in SUBSET (Fbs \cup Overlays)
            BY DEF Reads, TypeOK
        <3>3. tq' \in Seq(Job)
            <4>1. [n |-> seq', reads |-> Reads(t)] \in Job
                BY <3>1, <3>2 DEF Job
            <4> QED
                BY <2>2, <4>1 DEF BltSubmit, TypeOK
        <3>4. broken' \in BOOLEAN /\ old' \in BOOLEAN
            BY <2>2 DEF BltSubmit, ReapedBroken, SeenDone, Expired, TypeOK
        <3> QED
            BY <2>1, <2>2, <3>1, <3>3, <3>4 DEF BltSubmit, TypeOK
    <2>3. CASE BltSync(t) \/ BltRefused(t) \/ BltNoDevice(t)
        <3>1. Reap /\ UNCHANGED <<boot, bootpc, boots, seq, fb, letgo, ov, mySeq, alive, tq, scratch>>
            BY <2>3 DEF BltSync, BltRefused, BltNoDevice, gpuVars
        <3> QED
            BY <2>1, <3>1, ReapTypes DEF TypeOK
    <2> QED
        BY <1>1, <2>2, <2>3 DEF CallerNext
<1>2. CASE BltWaited \/ FbconNext
    <2>1. /\ pending' \in JobNos /\ broken' \in BOOLEAN /\ old' \in BOOLEAN
          /\ mySeq' \in {0, mySeq}
        <3>1. CASE Reap
            BY <1>2, <3>1, ReapTypes DEF BltWaited, FbconNext, FbconDone, FbconGivesUp
        <3>2. CASE FbconGivesUp
            BY <3>2 DEF FbconGivesUp, ReapedPending, ReapedBroken, SeenDone, Expired, TypeOK, JobNos
        <3> QED
            BY <1>2, <3>1, <3>2 DEF BltWaited, FbconNext, FbconDone
    <2>2. call' \in [Callers -> {"idle", "sync", "run", "wait"}]
        BY <1>2 DEF BltWaited, FbconNext, FbconDone, FbconGivesUp, TypeOK
    <2>3. UNCHANGED <<boot, bootpc, boots, seq, kmsVars, gpuVars>>
        BY <1>2 DEF BltWaited, FbconNext, FbconDone, FbconGivesUp
    <2> QED
        BY <2>1, <2>2, <2>3 DEF TypeOK, kmsVars, gpuVars, JobNos
<1>3. CASE FbconDraw \/ DebugDraw
    BY <1>3 DEF FbconDraw, DebugDraw, TypeOK, kmsVars, gpuVars
<1>4. CASE CommitNext \/ \E f \in Fbs \cup {None} : Commit(f)
    <2>1. ASSUME NEW n \in 0 .. MaxRects, Update(n) PROVE TypeOK'
        <3>1. /\ commit' \in [pc : {"idle", "begin", "copy", "event"},
                              from : Fbs \cup {None}, drew : BOOLEAN]
              /\ call' \in [Callers -> {"idle", "sync", "run", "wait"}]
            <4>1. commit' = [commit EXCEPT !.pc = "event"]
                  \/ commit' = [[commit EXCEPT !.pc = "copy"] EXCEPT !.drew = TRUE]
                <5>1. CASE n = 0
                    BY <2>1, <5>1, Zenon DEF Update
                <5>2. CASE n # 0
                    BY <2>1, <5>2 DEF Update, TypeOK
                <5> QED
                    BY <5>1, <5>2
            <4>2. call' = call \/ call' = [call EXCEPT !["commit"] = "sync"]
                BY <2>1 DEF Update
            <4>3. commit' \in [pc : {"idle", "begin", "copy", "event"},
                               from : Fbs \cup {None}, drew : BOOLEAN]
                <5>1. commit \in [pc : {"idle", "begin", "copy", "event"},
                                  from : Fbs \cup {None}, drew : BOOLEAN]
                    BY DEF TypeOK
                <5> QED
                    BY <4>1, <5>1
            <4>4. call' \in [Callers -> {"idle", "sync", "run", "wait"}]
                BY <4>2 DEF TypeOK
            <4> QED
                BY <4>3, <4>4
        <3> QED
            BY <2>1, <3>1 DEF Update, TypeOK, gpuVars
    <2>2. CASE Event
        BY <2>2 DEF Event, TypeOK, bltVars, gpuVars
    <2>3. CASE \E f \in Fbs \cup {None} : Commit(f)
        BY <2>3 DEF Commit, TypeOK, bltVars, gpuVars
    <2> QED
        BY <1>4, <2>1, <2>2, <2>3 DEF CommitNext
<1>5. CASE \E f \in Fbs : CommitLetsGo(f)
    BY <1>5, ReapTypes DEF CommitLetsGo, TypeOK, gpuVars
<1>6. CASE OverlayNext \/ \E o \in Overlays \cup {None} : OverlayBegin(o)
    <2>1. ASSUME NEW n \in 0 .. MaxRects, OverlayDrop(n) PROVE TypeOK'
        <3>1. pending' \in JobNos /\ broken' \in BOOLEAN /\ old' \in BOOLEAN
            BY <2>1, ReapTypes DEF OverlayDrop, TypeOK
        <3>2. /\ call' \in [Callers -> {"idle", "sync", "run", "wait"}]
              /\ ioctl' \in [pc : {"idle", "lock", "drop", "redraw"}, new : Overlays \cup {None}]
              /\ ov' \in Overlays \cup {None} /\ left' \in 0 .. MaxRects
              /\ ov_lock' \in {"commit", "overlay", "free"}
            BY <2>1 DEF OverlayDrop, TypeOK
        <3> QED
            BY <2>1, <3>1, <3>2 DEF OverlayDrop, TypeOK, gpuVars
    <2> QED
        BY <1>6, <2>1 DEF OverlayNext, OverlayLock, OverlayBegin, TypeOK, bltVars, gpuVars
<1>7. CASE BootNext \/ BootBegin
    <2>1. boots' \in 0 .. MaxBoots
        BY <1>7 DEF BootNext, BootReset, BootEnd, BootBegin, TypeOK, QueueInv
    <2> QED
        <3>1. CASE BootReset
            <4>1. {seq', pending', mySeq', scratch'} \subseteq JobNos
                BY <3>1 DEF BootReset, TypeOK, JobNos
            <4>2. {old', broken', alive'} \subseteq BOOLEAN
                BY <3>1 DEF BootReset, TypeOK
            <4>3. tq' \in Seq(Job)
                BY <3>1 DEF BootReset
            <4> QED
                BY <2>1, <3>1, <4>1, <4>2, <4>3 DEF BootReset, TypeOK, kmsVars
        <3>2. CASE BootEnd
            <4>1. {seq', pending', mySeq', scratch'} \subseteq JobNos
                BY <3>2 DEF BootEnd, TypeOK, JobNos
            <4>2. {old', broken', alive'} \subseteq BOOLEAN
                BY <3>2 DEF BootEnd, TypeOK
            <4> QED
                BY <2>1, <3>2, <4>1, <4>2 DEF BootEnd, TypeOK, kmsVars
        <3>3. CASE BootBegin
            BY <2>1, <3>3 DEF BootBegin, TypeOK, kmsVars, gpuVars
        <3> QED
            BY <1>7, <3>1, <3>2, <3>3 DEF BootNext
<1>8. CASE UkEnd
    <2>1. Head(tq) \in Job /\ tq' \in Seq(Job)
        BY <1>8 DEF UkEnd, TypeOK
    <2> QED
        BY <1>8, <2>1 DEF UkEnd, Job, TypeOK, bltVars, kmsVars
<1>9. CASE Overdue \/ UkHang
    <2>1. CASE Overdue
        <3>1. {old', broken', alive'} \subseteq BOOLEAN
            BY <2>1 DEF Overdue, TypeOK, gpuVars
        <3> QED
            BY <2>1, <3>1 DEF Overdue, TypeOK, kmsVars, gpuVars
    <2>2. CASE UkHang
        <3>1. {old', broken', alive'} \subseteq BOOLEAN
            BY <2>2 DEF UkHang, TypeOK, bltVars
        <3> QED
            BY <2>2, <3>1 DEF UkHang, TypeOK, bltVars, kmsVars
    <2> QED
        BY <1>9, <2>1, <2>2
<1>10. CASE UNCHANGED vars
    BY <1>10 DEF TypeOK, vars, bltVars, kmsVars, gpuVars
<1> QED
    BY <1>1, <1>2, <1>3, <1>4, <1>5, <1>6, <1>7, <1>8, <1>9, <1>10 DEF Next

(* Every step keeps the queue and blt_pending together: a caller queues a  *)
(* job only when nothing is pending, a start leaves an empty queue, and    *)
(* nothing but the end of the last job, or a start, clears blt_pending.    *)
LEMMA QueueStep == Inv /\ [Next]_vars => QueueInv'
<1> SUFFICES ASSUME Inv, [Next]_vars PROVE QueueInv'
    OBVIOUS
<1> USE ScreenConstants DEF Inv
<1>1. ASSUME Reap, mySeq' \in {0, mySeq},
             UNCHANGED <<boot, bootpc, boots, seq, alive, tq, scratch>>
      PROVE  QueueInv'
    BY <1>1, ReapTypes DEF QueueInv, TypeOK, JobNos
<1>2. ASSUME NEW t \in Callers, BltSubmit(t) PROVE QueueInv'
    <2>1. boot = "up" /\ seq' = seq + 1 /\ seq \in Nat /\ scratch' = 0
          /\ UNCHANGED <<boot, bootpc, boots, alive>>
        BY <1>2 DEF BltSubmit, TypeOK, JobNos
    <2>2. pending' <= seq' /\ mySeq' <= seq' /\ (~TakenLate /\ alive => pending' = seq')
        <3>1. /\ pending' \in {seq', ReapedPending} /\ mySeq' \in {seq', mySeq}
              /\ ~TakenLate /\ alive => pending' = seq'
            BY <1>2 DEF BltSubmit, Taken
        <3>2. ReapedPending <= seq /\ ReapedPending \in Nat /\ mySeq <= seq /\ mySeq \in Nat
            BY DEF QueueInv, TypeOK, JobNos, ReapedPending
        <3> QED
            BY <2>1, <3>1, <3>2
    <2>3. ~TakenLate /\ alive => tq = <<>>
        BY <1>2, FreeEngine DEF BltSubmit
    <2>4. ~TakenLate /\ alive => Len(tq') = 1 /\ Head(tq').n = seq'
        BY <1>2, <2>3 DEF BltSubmit
    <2> QED
        BY <2>1, <2>2, <2>4 DEF QueueInv
<1>3. CASE \E t \in Callers : CallerNext(t)
    <2> SUFFICES ASSUME NEW t \in Callers, BltSync(t) \/ BltRefused(t) \/ BltNoDevice(t)
                 PROVE  QueueInv'
        BY <1>2, <1>3 DEF CallerNext
    <2> QED
        BY <1>1 DEF BltSync, BltRefused, BltNoDevice, gpuVars
<1>4. CASE BltWaited \/ FbconDone
    BY <1>4, <1>1 DEF BltWaited, FbconDone, gpuVars
<1>5. CASE FbconGivesUp
    <2>1. UNCHANGED <<boot, bootpc, boots, seq, alive, tq, scratch>> /\ mySeq' = 0
        BY <1>5 DEF FbconGivesUp, gpuVars
    <2>2. pending' <= seq /\ (~TakenLate /\ alive /\ tq # <<>> /\ pending = seq => pending' = seq)
        BY <1>5, Unseen DEF FbconGivesUp, ReapedPending, QueueInv, TypeOK, JobNos
    <2> QED
        BY <2>1, <2>2 DEF QueueInv, TypeOK, JobNos
<1>6. CASE (\E f \in Fbs : CommitLetsGo(f)) \/ (\E n \in 0 .. MaxRects : OverlayDrop(n))
    <2>1. UNCHANGED <<boot, bootpc, boots, seq, mySeq, alive, tq, scratch>>
        BY <1>6 DEF CommitLetsGo, OverlayDrop, gpuVars
    <2>2. Reap \/ UNCHANGED <<pending, broken, old>>
        BY <1>6 DEF CommitLetsGo, OverlayDrop
    <2> QED
        BY <1>1, <2>1, <2>2 DEF QueueInv
<1>7. CASE UkEnd
    <2>1. ~TakenLate => tq' = <<>>
        BY <1>7 DEF UkEnd, QueueInv, TypeOK
    <2> QED
        BY <1>7, <2>1 DEF UkEnd, QueueInv, bltVars
<1>8. CASE BootNext \/ BootBegin
    BY <1>8 DEF BootNext, BootReset, BootEnd, BootBegin, QueueInv, TypeOK, JobNos, gpuVars
<1>9. CASE \/ FbconDraw \/ DebugDraw \/ CommitNext \/ OverlayLock \/ Overdue \/ UkHang
           \/ (\E f \in Fbs \cup {None} : Commit(f))
           \/ (\E o \in Overlays \cup {None} : OverlayBegin(o))
           \/ UNCHANGED vars
    <2>1. /\ UNCHANGED <<boot, bootpc, boots, seq, pending, mySeq, tq, scratch>>
          /\ alive' => alive
        BY <1>9 DEF FbconDraw, DebugDraw, CommitNext, Update, Event, OverlayLock, Overdue, UkHang,
                    Commit, OverlayBegin, vars, bltVars, gpuVars
    <2> QED
        BY <2>1 DEF QueueInv
<1> QED
    BY <1>3, <1>4, <1>5, <1>6, <1>7, <1>8, <1>9 DEF Next, FbconNext, OverlayNext

(* Where the engine and what is held stay as they are, but for a commit    *)
(* that may send its event now, the job's memory stays held.               *)
LEMMA HeldStays ==
    ASSUME Inv, Punctual, Reap, mySeq' \in {0, mySeq},
           UNCHANGED <<seq, alive, tq, fb, letgo, ov>>,
           commit'.from = commit.from, commit'.drew = commit.drew, ioctl'.new = ioctl.new,
           \/ commit'.pc = "event" => commit.pc = "event"
           \/ ReapedBroken
    PROVE  HeldInv'
<1> SUFFICES ASSUME alive, tq # <<>> PROVE HeldInv'
    BY DEF HeldInv
<1> USE DEF Inv, Punctual
<1>1. pending = seq /\ ~old /\ seq # 0
    BY Unseen DEF HeldInv
<1>2. pending' = seq /\ old' = old /\ broken' = broken /\ ReapedBroken = broken
    <2>1. old = FALSE
        BY <1>1 DEF TypeOK
    <2>2. broken' = (broken \/ old) /\ ReapedBroken = (broken \/ old)
        BY <1>1, ReapTypes, Unseen
    <2> QED
        BY <1>1, <2>1, <2>2, ReapTypes DEF TypeOK
<1>3. Live' = Live
    BY DEF Live
<1>4. mySeq' = seq => mySeq = seq
    BY <1>1
<1>5. ReapedBroken => Head(tq).reads = {}
    BY <1>2 DEF HeldInv
<1> QED
    BY <1>1, <1>2, <1>3, <1>4, <1>5 DEF HeldInv

(* The job that a caller queues reads what is shown, which is held, and    *)
(* neither fbcon's memory nor the framebuffer of a commit that waits for   *)
(* its event.                                                              *)
LEMMA HeldBySubmit ==
    ASSUME Inv, TypeOK', Punctual, NEW t \in Callers, BltSubmit(t)
    PROVE  HeldInv'
<1> SUFFICES ASSUME alive PROVE HeldInv'
    BY DEF HeldInv, BltSubmit
<1> USE DEF Inv, Punctual
<1>1. tq = <<>> /\ seq' = seq + 1 /\ pending' = seq' /\ old' = FALSE /\ broken' = FALSE
    <2>1. broken' = FALSE
        BY DEF BltSubmit, ReapedBroken, SeenDone, Expired, TypeOK
    <2> QED
        BY <2>1, FreeEngine DEF BltSubmit, Taken
<1>2. Head(tq').reads = Reads(t)
    BY <1>1 DEF BltSubmit
<1>3. Reads(t) \subseteq Live'
    BY DEF BltSubmit, Reads, Live
<1>4. mySeq' = seq' => Reads(t) = {}
    <2>1. mySeq <= seq /\ mySeq \in Nat /\ seq \in Nat
        BY DEF QueueInv, TypeOK, JobNos
    <2>2. mySeq' = seq' => t = "fbcon"
        BY <1>1, <2>1 DEF BltSubmit, Taken
    <2> QED
        BY <2>2 DEF Reads, Showers
<1>5. commit'.from # fb' => commit'.from \notin Reads(t)
    BY ScreenConstants DEF BltSubmit, Reads, TypeOK
<1> QED
    BY <1>1, <1>2, <1>3, <1>4, <1>5 DEF HeldInv

(* Every step of an engine that is never late keeps its last job's memory. *)
LEMMA HeldStep == Inv /\ [Next]_vars /\ Punctual => HeldInv'
<1> SUFFICES ASSUME Inv, [Next]_vars, Punctual PROVE HeldInv'
    OBVIOUS
<1> USE DEF Inv, Punctual
<1>1. ASSUME NEW t \in Callers, CallerNext(t) PROVE HeldInv'
    <2>1. CASE BltSubmit(t)
        BY <2>1, TypeStep, HeldBySubmit
    <2>2. CASE BltSync(t) \/ BltRefused(t)
        <3>1. Reap /\ UNCHANGED <<seq, alive, tq, fb, letgo, ov, mySeq>>
            BY <2>2 DEF BltSync, BltRefused, gpuVars
        <3>2. call[t] # "idle"
            BY <1>1, CallerCases
        <3>3. CASE Return(t)
            <4>1. commit'.pc = "event" => commit.pc = "event" \/ ReapedBroken
                <5>1. commit'.pc = "event" => commit.pc = "event" \/ t = "commit"
                    BY <3>2, <3>3, ReturnStep
                <5>2. t = "commit" => ReapedBroken \/ commit' = commit
                    BY <2>2 DEF BltSync, BltRefused
                <5> QED
                    BY <5>1, <5>2
            <4> QED
                BY <3>1, <3>2, <3>3, <4>1, ReturnStep, HeldStays
        <3>4. CASE commit' = commit /\ ioctl' = ioctl
            BY <3>1, <3>4, HeldStays
        <3> QED
            BY <1>1, <3>3, <3>4, CallerCases
    <2>3. CASE BltNoDevice(t)
        BY <2>3, FreeEngine DEF BltNoDevice, HeldInv, gpuVars
    <2> QED
        BY <1>1, <2>1, <2>2, <2>3 DEF CallerNext
<1>2. CASE BltWaited \/ FbconDone
    BY <1>2, HeldStays DEF BltWaited, FbconDone, kmsVars, gpuVars
<1>3. CASE FbconGivesUp
    <2> SUFFICES ASSUME alive, tq # <<>> PROVE HeldInv'
        BY <1>3 DEF HeldInv, FbconGivesUp, gpuVars
    <2>1. pending = seq /\ ~old /\ ReapedPending = seq /\ seq # 0
        BY Unseen DEF HeldInv
    <2>2. ReapedBroken = broken
        <3>1. old = FALSE
            BY <2>1 DEF TypeOK
        <3> QED
            BY <2>1, <3>1, Unseen DEF TypeOK
    <2>3. broken' => Head(tq).reads = {}
        BY <1>3, <2>1, <2>2 DEF FbconGivesUp, HeldInv
    <2>4. pending' = seq /\ ~old' /\ mySeq' # seq
        BY <1>3, <2>1 DEF FbconGivesUp
    <2>5. UNCHANGED <<seq, alive, tq, kmsVars>> /\ Live' = Live
        BY <1>3 DEF FbconGivesUp, gpuVars, kmsVars, Live
    <2> QED
        BY <2>3, <2>4, <2>5 DEF HeldInv, kmsVars
<1>4. CASE (\E f \in Fbs : CommitLetsGo(f)) \/ (\E n \in 0 .. MaxRects : OverlayDrop(n) /\ ov # None)
    <2> SUFFICES ASSUME alive, tq # <<>> PROVE HeldInv'
        BY <1>4 DEF HeldInv, CommitLetsGo, OverlayDrop, gpuVars
    <2>1. Reap /\ MayGo /\ UNCHANGED <<seq, mySeq, alive, tq, commit, fb>>
        BY <1>4 DEF CommitLetsGo, OverlayDrop, gpuVars
    <2>2. pending = seq /\ ~old /\ ReapedPending = seq /\ seq # 0
        BY Unseen DEF HeldInv
    <2>3. broken
        BY <2>1, <2>2, Unseen DEF MayGo, SyncAgain
    <2>4. Head(tq).reads = {}
        BY <2>3 DEF HeldInv
    <2>5. pending' = seq /\ ~old'
        BY <2>1, <2>2, ReapTypes
    <2> QED
        BY <2>1, <2>4, <2>5 DEF HeldInv
<1>5. CASE \E n \in 0 .. MaxRects : OverlayDrop(n) /\ ov = None
    BY <1>5 DEF OverlayDrop, HeldInv, Live, gpuVars
<1>6. CASE UkEnd
    <2>1. tq' = <<>>
        BY <1>6 DEF UkEnd, QueueInv, TypeOK
    <2> QED
        BY <2>1 DEF HeldInv
<1>7. CASE BootReset \/ BootEnd \/ Overdue \/ UkHang
    <2>1. ~alive' \/ tq' = <<>>
        BY <1>7 DEF BootReset, BootEnd, Overdue, UkHang, Punctual, QueueInv, gpuVars
    <2> QED
        BY <2>1 DEF HeldInv
<1>8. ASSUME UNCHANGED <<pending, old, broken, seq, mySeq, alive, tq, fb>>,
             Live \subseteq Live',
             commit'.from = commit.from \/ ~commit'.drew,
             commit'.pc = "event" /\ commit'.drew => commit.pc = "event" /\ commit.drew
      PROVE  HeldInv'
    BY <1>8 DEF HeldInv
<1>9. CASE FbconDraw \/ DebugDraw \/ BootBegin \/ OverlayLock \/ UNCHANGED vars
           \/ \E o \in Overlays \cup {None} : OverlayBegin(o)
    <2>1. /\ UNCHANGED <<pending, old, broken, seq, mySeq, alive, tq, fb, commit>>
          /\ Live \subseteq Live'
        <3>1. CASE FbconDraw \/ DebugDraw \/ BootBegin \/ UNCHANGED vars
            BY <3>1 DEF FbconDraw, DebugDraw, BootBegin, vars, bltVars, kmsVars, gpuVars, Live
        <3>2. CASE OverlayLock
            BY <3>2 DEF OverlayLock, TypeOK, bltVars, gpuVars, Live
        <3>3. CASE \E o \in Overlays \cup {None} : OverlayBegin(o)
            BY <3>3 DEF OverlayBegin, LockInv, bltVars, gpuVars, Live
        <3> QED
            BY <1>9, <3>1, <3>2, <3>3
    <2> QED
        BY <1>8, <2>1
<1>10. CASE Event
    BY <1>10, <1>8 DEF Event, Live, bltVars, gpuVars
<1>11. CASE \E f \in Fbs \cup {None} : Commit(f)
    BY <1>11 DEF Commit, HeldInv, LockInv, Live, bltVars, gpuVars
<1>12. CASE \E n \in 0 .. MaxRects : Update(n)
    <2>1. /\ commit'.from = commit.from
          /\ commit'.pc = "copy" \/ ~commit'.drew
        BY <1>12 DEF Update, LockInv, TypeOK
    <2>2. Live' = Live
        BY <1>12, <2>1 DEF Update, Live
    <2> QED
        BY <1>12, <1>8, <2>1, <2>2 DEF Update, gpuVars
<1> QED
    BY <1>1, <1>2, <1>3, <1>4, <1>5, <1>6, <1>7, <1>9, <1>10, <1>11, <1>12
       DEF Next, FbconNext, CommitNext, OverlayNext, BootNext

-----------------------------------------------------------------------------

(* Every reachable state of the screen satisfies the invariant: the types, *)
(* the locks, the one job and, with an engine that is never late, its      *)
(* memory.                                                                 *)
THEOREM ScreenInvariance == Spec => []Inv
<1>1. Init => Inv
    <2> SUFFICES ASSUME Init PROVE Inv
        OBVIOUS
    <2> USE ScreenConstants DEF Init
    <2>1. TypeOK
        <3>1. tq \in Seq(Job)
            OBVIOUS
        <3>2. commit \in [pc : {"idle", "begin", "copy", "event"}, from : Fbs \cup {None},
                         drew : BOOLEAN]
            OBVIOUS
        <3>3. ioctl \in [pc : {"idle", "lock", "drop", "redraw"}, new : Overlays \cup {None}]
            OBVIOUS
        <3>4. {seq, pending, mySeq, scratch} \subseteq JobNos
            BY DEF JobNos
        <3>5. {old, broken, alive} \subseteq BOOLEAN
            OBVIOUS
        <3> QED
            BY <3>1, <3>2, <3>3, <3>4, <3>5 DEF TypeOK
    <2>2. LockInv
        BY DEF LockInv, Callers, Showers
    <2>3. QueueInv /\ HeldInv
        BY DEF QueueInv, HeldInv
    <2> QED
        BY <2>1, <2>2, <2>3 DEF Inv
<1>2. Inv /\ [Next]_vars => Inv'
    <2> SUFFICES ASSUME Inv, [Next]_vars PROVE Inv'
        OBVIOUS
    <2>1. TypeOK' /\ LockInv' /\ QueueInv'
        BY TypeStep, LockStep, QueueStep
    <2>2. Punctual' = Punctual
        BY DEF Punctual
    <2> QED
        BY <2>1, <2>2, HeldStep DEF Inv
<1> QED
    BY <1>1, <1>2, PTL DEF Spec

(* The type invariant of the screen, for any number of jobs. *)
THEOREM ScreenTypes == Spec => []TypeOK
BY ScreenInvariance, PTL DEF Inv

(* A running microkernel finds the pages of its job as __sgx_blt_submit    *)
(* left them, late jobs and failing starts included, when it takes a       *)
(* command within the 500 ms of sgx_send_cmd or not at all.                *)
THEOREM PagesAreTheJobs == ASSUME ~TakenLate PROVE Spec => []OwnParams
<1>1. Inv => OwnParams
    <2> SUFFICES ASSUME Inv, alive, NEW i \in DOMAIN tq PROVE tq[i].n = seq
        BY DEF OwnParams, Jobs
    <2>1. Len(tq) = 1 /\ Head(tq).n = seq /\ tq \in Seq(Job)
        BY DEF Inv, QueueInv, TypeOK
    <2> QED
        BY <2>1
<1> QED
    BY <1>1, ScreenInvariance, PTL

(* What the 2D engine reads is held by the plane, a commit or the overlay  *)
(* until the engine is done with it, when no command is later than 500 ms, *)
(* no job later than blt_timeout_ms, and a start that begins resets the    *)
(* GPU.                                                                    *)
THEOREM WhatItReadsIsHeld == ASSUME Punctual PROVE Spec => []ReadsHeld
<1>1. Inv => ReadsHeld
    <2> SUFFICES ASSUME Inv, alive, NEW i \in DOMAIN tq PROVE tq[i].reads \subseteq Live
        BY DEF ReadsHeld, Reading, Jobs
    <2>1. Len(tq) = 1 /\ Head(tq).reads \subseteq Live /\ tq \in Seq(Job)
        BY DEF Inv, QueueInv, HeldInv, TypeOK, Punctual
    <2> QED
        BY <2>1
<1> QED
    BY <1>1, ScreenInvariance, PTL

(* Under the same assumptions the event of a commit that drew goes when no *)
(* copy reads the old framebuffer any more (sgx_kms_commit_tail).          *)
THEOREM EventsUnread == ASSUME Punctual PROVE Spec => EventUnread
<1>1. Inv /\ [Next]_vars =>
          [Event /\ commit.drew /\ commit.from # fb => commit.from \notin Reading]_vars
    <2> SUFFICES ASSUME Inv, Event, commit.drew, commit.from # fb, alive, NEW i \in DOMAIN tq
                 PROVE  commit.from \notin tq[i].reads
        BY DEF Reading, Jobs
    <2>1. Len(tq) = 1 /\ commit.from \notin Head(tq).reads /\ tq \in Seq(Job)
        BY DEF Inv, QueueInv, HeldInv, TypeOK, Punctual, Event
    <2> QED
        BY <2>1
<1> QED
    BY <1>1, ScreenInvariance, PTL DEF Spec, EventUnread
=============================================================================
