-------------------------- MODULE SgxRender_proofs --------------------------
(***************************************************************************)
(* What SgxRender promises, proved for any number of files, renders and    *)
(* parameter buffers, any number of rekicks and lost commands, and every   *)
(* setting of its switches.                                                *)
(*                                                                         *)
(* The inductive invariant has five parts, each proved from the ones       *)
(* before it: the types; LockInv, who holds sgx->lock and how far a start  *)
(* got; SchedInv, the renders and the scheduler; GpuInv, what the          *)
(* microkernel may still have to do; PbInv, the parameter buffers.         *)
(***************************************************************************)
EXTENDS SgxRender, TLAPS

(* boot_result is "off" as long as a start holds the lock, which is why no *)
(* render reaches the queue of a microkernel about to be reset.            *)
LockInv ==
    /\ lock = None <=> bootpc = "none"
    /\ lock # None => boot_result = "off"
    /\ bootpc = "reset" => uk = FreshUk
    /\ lock = "run_job" <=> run = "boot"
    /\ lock = "timedout" <=> tdr.pc = "boot"

Queueing == {"check", "restart", "boot", "queue"}
Restarting == {"take", "restart", "boot", "start"}

(* A render on its way into the queue or on the GPU. *)
RendersInv ==
    /\ \A j \in Jobs : num[j] = 0 \/ j \in queued =>
           fence[j] = "none" /\ fin[j] = "none" /\ j \notin pending /\ j \notin parent
    /\ \A j \in Jobs : num[j] # 0 => shape[j] \in Shapes
    /\ \A j \in queued : num[j] # 0 /\ j \in held
    /\ current # None =>
           num[current] # 0 /\ current \notin queued /\ fin[current] = "none" /\ current \in held

(* The run worker, the poller and the timeout agree on whose fence can     *)
(* still signal: nobody signals a fence twice, and the scheduler hears of  *)
(* the current render's fence alone.                                       *)
FencesInv ==
    /\ run # "idle" => current # None /\ current \notin parent /\ ~stopped
    /\ run \in Queueing => fence[current] = "none"
    /\ run = "fence" => fence[current] # "none"
    /\ ~stopped /\ run = "idle" /\ current # None =>
           current \in parent /\ fence[current] = "pending"
    /\ \A j \in parent : fence[j] = "pending" => j = current /\ ~stopped
    /\ active # None => fence[active] = "pending"
    /\ polled # None => fence[polled] = "pending" /\ polled # active

TimeoutInv ==
    /\ stopped <=> tdr.pc \in Restarting
    /\ tdr.pc # "idle" => tdr.job \in Jobs \ queued /\ num[tdr.job] # 0
    /\ stopped => pending \subseteq {current} /\ (current # None => current \in pending)
    /\ tdr.pc = "stop" /\ current # None => current \in pending \cup {tdr.job}
    /\ tdr.hw => tdr.pc \in {"restart", "boot", "start"} /\ tdr.job \notin {active, polled}

SchedInv == RendersInv /\ FencesInv /\ TimeoutInv

UnreadAt == (uk.rd + 1)..Len(uk.ring)

(* Each render is in the queue once, and what ended is out of it. *)
RingInv ==
    /\ uk.rd <= Len(uk.ring)
    /\ \A i, k \in 1..Len(uk.ring) : uk.ring[i] = uk.ring[k] => i = k
    /\ \A i \in 1..Len(uk.ring) : fence[uk.ring[i]] # "none"
    /\ uk.gpu # None => uk.rd >= 1 /\ uk.gpu = uk.ring[uk.rd] /\ uk.gpu \notin ended
    /\ \A i \in UnreadAt : uk.ring[i] \notin ended
    /\ \A j \in ended : fence[j] # "none"

(* A microkernel that is up has the current render alone; one that is not  *)
(* up, and runs all the same until its reset, has at most the render the   *)
(* poller looks at.                                                        *)
AloneInv ==
    /\ Up /\ ~uk.stopped =>
           \A i \in UnreadAt : uk.ring[i] = current /\ fence[current] = "pending"
    /\ Up /\ uk.gpu # None => uk.gpu = current /\ fence[current] = "pending"
    /\ tdr.pc = "start" /\ Up => uk.gpu = None /\ uk.rd = Len(uk.ring)
    /\ ~uk.stopped /\ active # None => \A i \in UnreadAt : uk.ring[i] = active
    /\ ~uk.stopped /\ active # None /\ uk.gpu # None => uk.gpu = active

(* +0x24 is set while the GPU works on the render, so the TA's completion  *)
(* value and a cleared +0x24 say that the 3D pass ended.                   *)
EndedInv ==
    /\ uk.gpu # None => d24[shape[uk.gpu].det]
    /\ active # None /\ TaSeen => active \in ended \/ d24[shape[active].det]
    /\ polled # None => polled \in ended
    /\ \A j \in Jobs : fence[j] = "ok" \/ fin[j] = "ok" => j \in ended

GpuInv == RingInv /\ AloneInv /\ EndedInv

(* pb_serial is the parameter buffer of the microkernel's queue, and the   *)
(* check for another one outlives the lock it is made without.             *)
PbInv ==
    /\ pb.boots <= boots
    /\ kpb.boots # None => kpb.boots <= boots
    /\ ~uk.stopped => \A i \in UnreadAt : shape[uk.ring[i]].pb = pb.serial
    /\ ~uk.stopped /\ uk.pb # None => uk.pb = pb.serial
    /\ Up /\ ~uk.stopped /\ (uk.pb # None \/ Unread) => pb.boots = boots
    /\ Up /\ ~uk.stopped /\ uk.pb # None /\ run = "queue" => uk.pb = shape[current].pb
    /\ ~uk.stopped /\ uk.pb = None =>
           \A i \in UnreadAt : shape[uk.ring[i]].pb = KernelPb => kpb.img = "fresh"
    /\ Up /\ ~uk.stopped /\ uk.pb = None /\ kpb.boots = boots => kpb.img = "fresh"

IInv == TypeOK /\ LockInv /\ SchedInv /\ GpuInv /\ PbInv

-----------------------------------------------------------------------------
USE RenderConstants DEF bootVars, jobVars, drmVars, gpuVars

(* The types, one group of variables after the other. *)
LEMMA BootTypesStep == ASSUME IInv, [Next]_vars PROVE BootTypes'
<1> USE DEF IInv
<1>1. UNCHANGED <<lock, boot_result, boots, bootpc, bootwork, files>> => BootTypes'
    BY DEF TypeOK, BootTypes
<1>2. CASE Probe
    BY <1>2 DEF Probe, TypeOK, BootTypes
<1>3. CASE BootWork
    BY <1>3 DEF BootWork, TypeOK, BootTypes, BeginBoot, Owners
<1>4. CASE BootReset
    BY <1>4 DEF BootReset, TypeOK, BootTypes
<1>5. ASSUME NEW ok \in BOOLEAN, BootDone(ok) PROVE BootTypes'
    BY <1>5 DEF BootDone, TypeOK, BootTypes
<1>6. CASE DebugBoot
    BY <1>6 DEF DebugBoot, TypeOK, BootTypes, BeginBoot, Owners
<1>7. CASE DebugPowerOff
    BY <1>7 DEF DebugPowerOff, TypeOK, BootTypes
<1>8. ASSUME NEW f \in Files, Open(f) PROVE BootTypes'
    BY <1>8 DEF Open, TypeOK, BootTypes
<1>9. ASSUME NEW f \in Files, OpenBoot(f) PROVE BootTypes'
    BY <1>9 DEF OpenBoot, TypeOK, BootTypes, BeginBoot, Owners
<1>10. ASSUME NEW f \in Files, Close(f) PROVE BootTypes'
    BY <1>10 DEF Close, TypeOK, BootTypes
<1>11. CASE RunRestart
    BY <1>11 DEF RunRestart, TypeOK, BootTypes, BeginBoot, Owners
<1>12. CASE TdrRestart
    BY <1>12 DEF TdrRestart, TypeOK, BootTypes, BeginBoot, Owners
<1> QED
    BY <1>1, <1>2, <1>3, <1>4, <1>5, <1>6, <1>7, <1>8, <1>9, <1>10, <1>11, <1>12
    DEF Submit, InSync, RunPop, RunCheck, RunQueue, RunFence, FreeJob,
        PollTa, PollDone, PollRekick, PollSignal, Rekick, TdrFire, TdrStop, TdrTake,
        TdrStart, UkStart, UkTaDone, UkEnd, UkLose, UkHang, Next, Boot, Debug, File,
        Run, Poll, Timeout, Uk, vars

(* The variables of the renders and the scheduler's queue. *)
LEMMA JobTypesStep == ASSUME IInv, [Next]_vars PROVE JobTypes'
<1> USE DEF IInv
<1>1. UNCHANGED <<submitted, num, shape, queued, current, fin, waits, fence, parent, pending, held>> => JobTypes'
    BY DEF TypeOK, JobTypes
<1>2. ASSUME NEW f \in Files, Close(f) PROVE JobTypes'
    BY <1>2 DEF Close, TypeOK, JobTypes
<1>3. ASSUME NEW j \in Jobs, NEW s \in Shapes, Submit(j, s) PROVE JobTypes'
    BY <1>3 DEF Submit, TypeOK, JobTypes
<1>4. ASSUME NEW j \in Jobs, InSync(j) PROVE JobTypes'
    BY <1>4 DEF InSync, TypeOK, JobTypes
<1>5. ASSUME NEW j \in Jobs, RunPop(j) PROVE JobTypes'
    BY <1>5 DEF RunPop, TypeOK, JobTypes
<1>6. CASE RunQueue
    BY <1>6 DEF RunQueue, TypeOK, JobTypes
<1>7. CASE RunFence
    BY <1>7 DEF RunFence, TypeOK, JobTypes, FencesInv, SchedInv, FenceSignalled
<1>8. ASSUME NEW j \in Jobs, FreeJob(j) PROVE JobTypes'
    BY <1>8 DEF FreeJob, TypeOK, JobTypes
<1>9. CASE PollSignal
    BY <1>9 DEF PollSignal, TypeOK, JobTypes, DrmTypes
<1>10. ASSUME NEW j \in Jobs, TdrFire(j) PROVE JobTypes'
    BY <1>10 DEF TdrFire, TypeOK, JobTypes
<1>11. CASE TdrStop
    BY <1>11 DEF TdrStop, TypeOK, JobTypes, SchedTypes, SchedInv, TimeoutInv
<1>12. CASE TdrStart
    BY <1>12 DEF TdrStart, TypeOK, JobTypes, SchedTypes
<1> QED
    BY <1>1, <1>2, <1>3, <1>4, <1>5, <1>6, <1>7, <1>8, <1>9, <1>10, <1>11, <1>12
    DEF Probe, BootWork, BootReset, BootDone, DebugBoot, DebugPowerOff, Open, OpenBoot,
        RunCheck, RunRestart, PollTa, PollDone, PollRekick, Rekick, TdrTake,
        TdrRestart, UkStart, UkTaDone, UkEnd, UkLose, UkHang, Next, Boot, Debug, File,
        Run, Poll, Timeout, Uk, vars

(* The phases of the run worker and of the timeout. *)
LEMMA SchedTypesStep == ASSUME IInv, [Next]_vars PROVE SchedTypes'
<1> USE DEF IInv
<1>1. UNCHANGED <<stopped, run, tdr>> => SchedTypes'
    BY DEF TypeOK, SchedTypes, Phases, TdrPhases
<1>2. ASSUME NEW ok \in BOOLEAN, BootDone(ok) PROVE SchedTypes'
    BY <1>2 DEF BootDone, TypeOK, SchedTypes, Phases, TdrPhases
<1>3. ASSUME NEW j \in Jobs, RunPop(j) PROVE SchedTypes'
    BY <1>3 DEF RunPop, TypeOK, SchedTypes, Phases, TdrPhases
<1>4. CASE RunCheck
    BY <1>4 DEF RunCheck, TypeOK, SchedTypes, Phases, TdrPhases
<1>5. CASE RunRestart
    BY <1>5 DEF RunRestart, TypeOK, SchedTypes, Phases, TdrPhases
<1>6. CASE RunQueue
    BY <1>6 DEF RunQueue, TypeOK, SchedTypes, Phases, TdrPhases
<1>7. CASE RunFence
    BY <1>7 DEF RunFence, TypeOK, SchedTypes, Phases, TdrPhases
<1>8. ASSUME NEW j \in Jobs, TdrFire(j) PROVE SchedTypes'
    BY <1>8 DEF TdrFire, TypeOK, SchedTypes, Phases, TdrPhases
<1>9. CASE TdrStop
    BY <1>9 DEF TdrStop, TypeOK, SchedTypes, Phases, TdrPhases
<1>10. CASE TdrTake
    BY <1>10 DEF TdrTake, TypeOK, SchedTypes, Phases, TdrPhases
<1>11. CASE TdrRestart
    BY <1>11 DEF TdrRestart, TypeOK, SchedTypes, Phases, TdrPhases
<1>12. CASE TdrStart
    BY <1>12 DEF TdrStart, TypeOK, SchedTypes, Phases, TdrPhases, NoTdr
<1> QED
    BY <1>1, <1>2, <1>3, <1>4, <1>5, <1>6, <1>7, <1>8, <1>9, <1>10, <1>11, <1>12
    DEF Probe, BootWork, BootReset, DebugBoot, DebugPowerOff, Open, OpenBoot, Close,
        Submit, InSync, FreeJob, PollTa, PollDone, PollRekick, PollSignal,
        Rekick, UkStart, UkTaDone, UkEnd, UkLose, UkHang, Next, Boot, Debug, File, Run,
        Poll, Timeout, Uk, vars

(* The fields of struct apple_sgx_drm. *)
LEMMA DrmTypesStep == ASSUME IInv, [Next]_vars PROVE DrmTypes'
<1> USE DEF IInv
<1>1. UNCHANGED <<active, watch, timer, polled, rekick, pb, kpb>> => DrmTypes'
    BY DEF TypeOK, DrmTypes
<1>2. CASE RunQueue
    BY <1>2 DEF RunQueue, TypeOK, DrmTypes, SchedInv, FencesInv, RendersInv, JobTypes,
        GpuTypes, Uks, BootTypes
<1>3. CASE PollTa
    BY <1>3 DEF PollTa, TypeOK, DrmTypes
<1>4. CASE PollDone
    <2>1. NoWatch \in [ta : BOOLEAN, rekicks : 0..MaxRekicks, at : Nat]
        BY DEF NoWatch
    <2> QED
        BY <1>4, <2>1 DEF PollDone, TypeOK, DrmTypes
<1>5. CASE PollRekick
    BY <1>5 DEF PollRekick, TypeOK, DrmTypes, RekickLeft
<1>6. CASE PollSignal
    BY <1>6 DEF PollSignal, TypeOK, DrmTypes
<1>7. CASE Rekick
    BY <1>7 DEF Rekick, TypeOK, DrmTypes
<1>8. CASE TdrTake
    <2>1. NoWatch \in [ta : BOOLEAN, rekicks : 0..MaxRekicks, at : Nat]
        BY DEF NoWatch
    <2> QED
        BY <1>8, <2>1 DEF TdrTake, TypeOK, DrmTypes
<1>9. CASE UkStart
    BY <1>9 DEF UkStart, TypeOK, DrmTypes
<1> QED
    BY <1>1, <1>2, <1>3, <1>4, <1>5, <1>6, <1>7, <1>8, <1>9
    DEF Probe, BootWork, BootReset, BootDone, DebugBoot, DebugPowerOff, Open, OpenBoot,
        Close, Submit, InSync, RunPop, RunCheck, RunRestart, RunFence, FreeJob,
        TdrFire, TdrStop, TdrRestart, TdrStart, UkTaDone, UkEnd, UkLose, UkHang, Next,
        Boot, Debug, File, Run, Poll, Timeout, Uk, vars

(* The microkernel's record and the words the GPU writes. *)
LEMMA GpuTypesStep == ASSUME IInv, [Next]_vars PROVE GpuTypes'
<1> USE DEF IInv
<1>1. UNCHANGED <<done, d24, uk, ended>> => GpuTypes'
    BY DEF TypeOK, GpuTypes, Uks
<1>2. CASE BootReset
    BY <1>2 DEF BootReset, TypeOK, GpuTypes, Uks, FreshUk
<1>3. ASSUME NEW ok \in BOOLEAN, BootDone(ok) PROVE GpuTypes'
    BY <1>3 DEF BootDone, TypeOK, GpuTypes, Uks
<1>4. CASE DebugPowerOff
    BY <1>4 DEF DebugPowerOff, TypeOK, GpuTypes, Uks
<1>5. CASE RunQueue
    <2>1. current \in Jobs /\ Append(uk.ring, current) \in Seq(Jobs)
        BY <1>5 DEF RunQueue, SchedInv, FencesInv, TypeOK, JobTypes, GpuTypes, Uks
    <2>2. uk' = uk \/ \E k \in BOOLEAN :
              uk' = [ring |-> Append(uk.ring, current), rd |-> uk.rd, kick |-> k, gpu |-> uk.gpu,
                     ta |-> uk.ta, stopped |-> uk.stopped, pb |-> uk.pb, lost |-> uk.lost]
        BY <1>5 DEF RunQueue, TypeOK, GpuTypes, Uks
    <2> QED
        BY <1>5, <2>1, <2>2 DEF RunQueue, TypeOK, GpuTypes, Uks
<1>6. CASE Rekick
    <2>1. Unread \in BOOLEAN
        BY DEF Unread
    <2>2. uk' = uk \/ uk' = [uk EXCEPT !.kick = Unread]
        BY <1>6 DEF Rekick
    <2> QED
        BY <1>6, <2>1, <2>2 DEF Rekick, TypeOK, GpuTypes, Uks
<1>7. CASE UkStart
    <2> DEFINE j == uk.ring[uk.rd + 1]
    <2>1. uk.rd + 1 \in 1..Len(uk.ring) /\ uk.ring \in Seq(Jobs)
        BY <1>7 DEF UkStart, UkReady, Unread, TypeOK, GpuTypes, Uks
    <2>2. j \in Jobs
        BY <2>1
    <2>3. shape[j].pb \in Pbs
        BY <2>1, <2>2 DEF GpuInv, RingInv, SchedInv, RendersInv
    <2>4. uk' = [ring |-> uk.ring, rd |-> uk.rd + 1, kick |-> uk.rd + 1 < Len(uk.ring), gpu |-> j,
                 ta |-> FALSE, stopped |-> uk.stopped, pb |-> shape[j].pb, lost |-> uk.lost]
        BY <1>7 DEF UkStart, TypeOK, GpuTypes, Uks
    <2>5. uk' \in Uks
        BY <2>2, <2>3, <2>4 DEF TypeOK, GpuTypes, Uks
    <2> QED
        BY <1>7, <2>5 DEF UkStart, TypeOK, GpuTypes, Uks
<1>8. CASE UkTaDone
    BY <1>8 DEF UkTaDone, TypeOK, GpuTypes, Uks
<1>9. CASE UkEnd
    BY <1>9 DEF UkEnd, TypeOK, GpuTypes, Uks
<1>10. CASE UkLose
    <2>1. uk' = [uk EXCEPT !.kick = FALSE, !.lost = @ + 1] /\ uk.lost + 1 \in 0..MaxLost
        BY <1>10 DEF UkLose, TypeOK, GpuTypes, Uks
    <2>2. uk' = [ring |-> uk.ring, rd |-> uk.rd, kick |-> FALSE, gpu |-> uk.gpu, ta |-> uk.ta,
                 stopped |-> uk.stopped, pb |-> uk.pb, lost |-> uk.lost + 1]
        BY <2>1 DEF TypeOK, GpuTypes, Uks
    <2> QED
        BY <1>10, <2>1, <2>2 DEF UkLose, TypeOK, GpuTypes, Uks
<1>11. CASE UkHang
    BY <1>11 DEF UkHang, TypeOK, GpuTypes, Uks
<1> QED
    BY <1>1, <1>2, <1>3, <1>4, <1>5, <1>6, <1>7, <1>8, <1>9, <1>10, <1>11
    DEF Probe, BootWork, DebugBoot, Open, OpenBoot, Close, Submit, InSync, RunPop,
        RunCheck, RunRestart, RunFence, FreeJob, PollTa, PollDone,
        PollRekick, PollSignal, TdrFire, TdrStop, TdrTake, TdrRestart, TdrStart, Next,
        Boot, Debug, File, Run, Poll, Timeout, Uk, vars

(* A start is under the lock from BeginBoot to BootDone. *)
LEMMA LockStep == ASSUME IInv, [Next]_vars PROVE LockInv'
<1> USE DEF IInv
<1>1. UNCHANGED <<lock, bootpc, boot_result, uk, run, tdr>> => LockInv'
    BY DEF LockInv
<1>2. CASE BootWork
    BY <1>2 DEF BootWork, LockInv, BeginBoot, TypeOK, BootTypes, Owners
<1>3. CASE BootReset
    BY <1>3 DEF BootReset, LockInv
<1>4. ASSUME NEW ok \in BOOLEAN, BootDone(ok) PROVE LockInv'
    BY <1>4 DEF BootDone, LockInv, TypeOK, SchedTypes, BootTypes, Owners
<1>5. CASE DebugBoot
    BY <1>5 DEF DebugBoot, LockInv, BeginBoot, TypeOK, BootTypes, Owners
<1>6. CASE DebugPowerOff
    BY <1>6 DEF DebugPowerOff, LockInv
<1>7. ASSUME NEW f \in Files, OpenBoot(f) PROVE LockInv'
    BY <1>7 DEF OpenBoot, LockInv, BeginBoot, TypeOK, BootTypes, Owners
<1>8. ASSUME NEW j \in Jobs, RunPop(j) PROVE LockInv'
    BY <1>8 DEF RunPop, LockInv
<1>9. CASE RunCheck
    BY <1>9 DEF RunCheck, LockInv
<1>10. CASE RunRestart
    BY <1>10 DEF RunRestart, LockInv, BeginBoot, TypeOK, BootTypes, Owners
<1>11. CASE RunQueue
    BY <1>11 DEF RunQueue, LockInv
<1>12. CASE RunFence
    BY <1>12 DEF RunFence, LockInv
<1>13. CASE Rekick
    BY <1>13 DEF Rekick, LockInv
<1>14. ASSUME NEW j \in Jobs, TdrFire(j) PROVE LockInv'
    BY <1>14 DEF TdrFire, LockInv, TypeOK, SchedTypes
<1>15. CASE TdrStop
    BY <1>15 DEF TdrStop, LockInv, TypeOK, SchedTypes
<1>16. CASE TdrTake
    BY <1>16 DEF TdrTake, LockInv, TypeOK, SchedTypes
<1>17. CASE TdrRestart
    BY <1>17 DEF TdrRestart, LockInv, BeginBoot, TypeOK, SchedTypes, BootTypes, Owners
<1>18. CASE TdrStart
    BY <1>18 DEF TdrStart, LockInv, NoTdr
<1>19. CASE UkStart
    BY <1>19 DEF UkStart, LockInv, UkReady, FreshUk
<1>20. CASE UkTaDone
    BY <1>20 DEF UkTaDone, LockInv, FreshUk
<1>21. CASE UkEnd
    BY <1>21 DEF UkEnd, LockInv, FreshUk
<1>22. CASE UkLose
    BY <1>22 DEF UkLose, LockInv, UkReady, FreshUk
<1>23. CASE UkHang
    BY <1>23 DEF UkHang, LockInv, FreshUk
<1> QED
    BY <1>1, <1>2, <1>3, <1>4, <1>5, <1>6, <1>7, <1>8, <1>9, <1>10, <1>11, <1>12,
       <1>13, <1>14, <1>15, <1>16, <1>17, <1>18, <1>19, <1>20, <1>21, <1>22, <1>23
    DEF Probe, Open, Close, Submit, InSync, FreeJob, PollTa, PollDone,
        PollRekick, PollSignal, Next, Boot, Debug, File, Run, Poll, Timeout, Uk, vars

(* A render leaves its file's queue once, and is current until it ends. *)
LEMMA RendersStep == ASSUME IInv, [Next]_vars PROVE RendersInv'
<1> USE DEF IInv
<1>1. UNCHANGED <<num, queued, fence, fin, pending, parent, shape, held, current>> => RendersInv'
    BY DEF SchedInv, RendersInv
<1>2. ASSUME NEW f \in Files, Close(f) PROVE RendersInv'
    BY <1>2 DEF Close, SchedInv, RendersInv, TypeOK, JobTypes
<1>3. ASSUME NEW j \in Jobs, NEW s \in Shapes, Submit(j, s) PROVE RendersInv'
    BY <1>3 DEF Submit, SchedInv, RendersInv, TypeOK, JobTypes
<1>4. ASSUME NEW j \in Jobs, RunPop(j) PROVE RendersInv'
    BY <1>4 DEF RunPop, SchedInv, RendersInv, TypeOK, JobTypes, Ready
<1>5. CASE RunQueue
    BY <1>5 DEF RunQueue, SchedInv, RendersInv, TypeOK, JobTypes, FencesInv, Queueing
<1>6. CASE RunFence
    BY <1>6 DEF RunFence, SchedInv, RendersInv, TypeOK, JobTypes, FencesInv
<1>7. ASSUME NEW j \in Jobs, FreeJob(j) PROVE RendersInv'
    BY <1>7 DEF FreeJob, SchedInv, RendersInv, TypeOK, JobTypes
<1>8. CASE PollSignal
    BY <1>8 DEF PollSignal, SchedInv, RendersInv, TypeOK, JobTypes, FencesInv, DrmTypes
<1>9. ASSUME NEW j \in Jobs, TdrFire(j) PROVE RendersInv'
    BY <1>9 DEF TdrFire, SchedInv, RendersInv, TypeOK, JobTypes
<1>10. CASE TdrStop
    BY <1>10 DEF TdrStop, SchedInv, RendersInv, TypeOK, JobTypes, FencesInv,
        TimeoutInv, Restarting, SchedTypes
<1>11. CASE TdrStart
    BY <1>11 DEF TdrStart, SchedInv, RendersInv, TypeOK, JobTypes, FencesInv,
        TimeoutInv, Restarting, SchedTypes
<1> QED
    BY <1>1, <1>2, <1>3, <1>4, <1>5, <1>6, <1>7, <1>8, <1>9, <1>10, <1>11
    DEF Probe, BootWork, BootReset, BootDone, DebugBoot, DebugPowerOff, Open, OpenBoot,
        InSync, RunCheck, RunRestart, PollTa, PollDone, PollRekick, Rekick,
        TdrTake, TdrRestart, UkStart, UkTaDone, UkEnd, UkLose, UkHang, Next, Boot,
        Debug, File, Run, Poll, Timeout, Uk, vars

(* The poller and the timeout never signal the same fence. *)
LEMMA FencesStep == ASSUME IInv, [Next]_vars PROVE FencesInv'
<1> USE DEF IInv
<1>1. UNCHANGED <<run, current, stopped, fence, parent, active, polled>> => FencesInv'
    BY DEF SchedInv, FencesInv
<1>2. ASSUME NEW ok \in BOOLEAN, BootDone(ok) PROVE FencesInv'
    BY <1>2 DEF BootDone, SchedInv, FencesInv, TypeOK, JobTypes, SchedTypes, DrmTypes,
        RendersInv, LockInv, Queueing
<1>3. ASSUME NEW j \in Jobs, RunPop(j) PROVE FencesInv'
    BY <1>3 DEF RunPop, SchedInv, FencesInv, TypeOK, JobTypes, SchedTypes, DrmTypes,
        RendersInv, Queueing, Ready
<1>4. CASE RunCheck
    BY <1>4 DEF RunCheck, SchedInv, FencesInv, TypeOK, JobTypes, SchedTypes, DrmTypes,
        RendersInv, Queueing
<1>5. CASE RunRestart
    BY <1>5 DEF RunRestart, SchedInv, FencesInv, TypeOK, JobTypes, SchedTypes,
        DrmTypes, RendersInv, Queueing
<1>6. CASE RunQueue
    BY <1>6 DEF RunQueue, SchedInv, FencesInv, TypeOK, JobTypes, SchedTypes, DrmTypes,
        RendersInv, Queueing
<1>7. CASE RunFence
    BY <1>7 DEF RunFence, SchedInv, FencesInv, TypeOK, JobTypes, SchedTypes, DrmTypes,
        RendersInv, FenceSignalled, Queueing
<1>8. CASE PollDone
    BY <1>8 DEF PollDone, SchedInv, FencesInv, TypeOK, JobTypes, SchedTypes, DrmTypes,
        RendersInv
<1>9. CASE PollSignal
    BY <1>9 DEF PollSignal, SchedInv, FencesInv, TypeOK, JobTypes, SchedTypes,
        DrmTypes, RendersInv, Queueing, Phases
<1>10. CASE TdrStop
    BY <1>10 DEF TdrStop, SchedInv, FencesInv, TypeOK, JobTypes, SchedTypes, DrmTypes,
        RendersInv, TimeoutInv, Restarting, Queueing
<1>11. CASE TdrTake
    BY <1>11 DEF TdrTake, SchedInv, FencesInv, TypeOK, JobTypes, SchedTypes, DrmTypes,
        RendersInv
<1>12. CASE TdrStart
    BY <1>12 DEF TdrStart, SchedInv, FencesInv, TypeOK, JobTypes, SchedTypes, DrmTypes,
        RendersInv, TimeoutInv, Restarting, Queueing
<1> QED
    BY <1>1, <1>2, <1>3, <1>4, <1>5, <1>6, <1>7, <1>8, <1>9, <1>10, <1>11, <1>12
    DEF Probe, BootWork, BootReset, DebugBoot, DebugPowerOff, Open, OpenBoot, Close,
        Submit, InSync, FreeJob, PollTa, PollRekick, Rekick, TdrFire,
        TdrRestart, UkStart, UkTaDone, UkEnd, UkLose, UkHang, Next, Boot, Debug, File,
        Run, Poll, Timeout, Uk, vars

(* While the scheduler is stopped, its list holds at most the current render. *)
LEMMA TimeoutStep == ASSUME IInv, [Next]_vars PROVE TimeoutInv'
<1> USE DEF IInv
<1>1. UNCHANGED <<stopped, tdr, pending, current, active, polled, queued, num>> => TimeoutInv'
    BY DEF SchedInv, TimeoutInv
<1>2. ASSUME NEW ok \in BOOLEAN, BootDone(ok) PROVE TimeoutInv'
    BY <1>2 DEF BootDone, SchedInv, TimeoutInv, TypeOK, JobTypes, SchedTypes, DrmTypes,
        FencesInv, LockInv, Restarting
<1>3. ASSUME NEW f \in Files, Close(f) PROVE TimeoutInv'
    BY <1>3 DEF Close, SchedInv, TimeoutInv, TypeOK, JobTypes, SchedTypes, DrmTypes,
        FencesInv
<1>4. ASSUME NEW j \in Jobs, NEW s \in Shapes, Submit(j, s) PROVE TimeoutInv'
    BY <1>4 DEF Submit, SchedInv, TimeoutInv, TypeOK, JobTypes, SchedTypes, DrmTypes,
        FencesInv, RendersInv
<1>5. ASSUME NEW j \in Jobs, RunPop(j) PROVE TimeoutInv'
    BY <1>5 DEF RunPop, SchedInv, TimeoutInv, TypeOK, JobTypes, SchedTypes, DrmTypes,
        FencesInv, Restarting
<1>6. CASE RunQueue
    BY <1>6 DEF RunQueue, SchedInv, TimeoutInv, TypeOK, JobTypes, SchedTypes, DrmTypes,
        FencesInv, Queueing, Restarting
<1>7. CASE RunFence
    BY <1>7 DEF RunFence, SchedInv, TimeoutInv, TypeOK, JobTypes, SchedTypes, DrmTypes,
        FencesInv, Restarting
<1>8. ASSUME NEW j \in Jobs, FreeJob(j) PROVE TimeoutInv'
    BY <1>8 DEF FreeJob, SchedInv, TimeoutInv, TypeOK, JobTypes, SchedTypes, DrmTypes,
        FencesInv, RendersInv
<1>9. CASE PollDone
    BY <1>9 DEF PollDone, SchedInv, TimeoutInv, TypeOK, JobTypes, SchedTypes, DrmTypes,
        FencesInv
<1>10. CASE PollSignal
    BY <1>10 DEF PollSignal, SchedInv, TimeoutInv, TypeOK, JobTypes, SchedTypes,
        DrmTypes, FencesInv, Restarting
<1>11. ASSUME NEW j \in Jobs, TdrFire(j) PROVE TimeoutInv'
    BY <1>11 DEF TdrFire, SchedInv, TimeoutInv, TypeOK, JobTypes, SchedTypes, DrmTypes,
        FencesInv, RendersInv, Restarting
<1>12. CASE TdrStop
    BY <1>12 DEF TdrStop, SchedInv, TimeoutInv, TypeOK, JobTypes, SchedTypes, DrmTypes,
        FencesInv, Restarting
<1>13. CASE TdrTake
    BY <1>13 DEF TdrTake, SchedInv, TimeoutInv, TypeOK, JobTypes, SchedTypes, DrmTypes,
        FencesInv, Restarting
<1>14. CASE TdrRestart
    BY <1>14 DEF TdrRestart, SchedInv, TimeoutInv, TypeOK, JobTypes, SchedTypes,
        DrmTypes, FencesInv, Restarting
<1>15. CASE TdrStart
    BY <1>15 DEF TdrStart, SchedInv, TimeoutInv, TypeOK, JobTypes, SchedTypes,
        DrmTypes, FencesInv, NoTdr, Restarting
<1> QED
    BY <1>1, <1>2, <1>3, <1>4, <1>5, <1>6, <1>7, <1>8, <1>9, <1>10, <1>11, <1>12,
       <1>13, <1>14, <1>15
    DEF Probe, BootWork, BootReset, DebugBoot, DebugPowerOff, Open, OpenBoot, InSync,
        RunCheck, RunRestart, PollTa, PollRekick, Rekick, UkStart, UkTaDone,
        UkEnd, UkLose, UkHang, Next, Boot, Debug, File, Run, Poll, Timeout, Uk, vars

(* What the next render of the queue does to the microkernel's record. *)
LEMMA UkStartRecord ==
    ASSUME IInv, UkStart
    PROVE  /\ uk.rd + 1 \in 1..Len(uk.ring) /\ uk.rd + 1 \in UnreadAt
           /\ uk.ring[uk.rd + 1] \in Jobs /\ shape[uk.ring[uk.rd + 1]] \in Shapes
           /\ uk'.ring = uk.ring /\ uk'.rd = uk.rd + 1 /\ uk'.gpu = uk.ring[uk.rd + 1]
           /\ uk'.stopped = uk.stopped /\ uk'.pb = shape[uk.ring[uk.rd + 1]].pb
<1>1. uk.rd \in Nat /\ Len(uk.ring) \in Nat /\ uk.rd + 1 \in 1..Len(uk.ring) /\ uk.ring \in Seq(Jobs)
    BY DEF UkStart, UkReady, Unread, IInv, TypeOK, GpuTypes, Uks
<1>2. uk.ring[uk.rd + 1] \in Jobs
    BY <1>1
<1>3. shape[uk.ring[uk.rd + 1]] \in Shapes
    BY <1>1, <1>2 DEF IInv, GpuInv, RingInv, SchedInv, RendersInv
<1>4. /\ uk'.ring = uk.ring /\ uk'.rd = uk.rd + 1 /\ uk'.gpu = uk.ring[uk.rd + 1]
      /\ uk'.stopped = uk.stopped /\ uk'.pb = shape[uk.ring[uk.rd + 1]].pb
    BY DEF UkStart, IInv, TypeOK, GpuTypes, Uks
<1> QED
    BY <1>1, <1>2, <1>3, <1>4 DEF UnreadAt

(* The render that sgx_job_run queues is new to the queue. *)
LEMMA RunQueueRecord ==
    ASSUME IInv, RunQueue
    PROVE  /\ current \in Jobs /\ fence[current] = "none" /\ ~stopped
           /\ fence' = [fence EXCEPT ![current] = IF Up /\ ~uk.stopped THEN "pending" ELSE "failed"]
           /\ uk'.rd = uk.rd /\ uk'.gpu = uk.gpu /\ uk'.stopped = uk.stopped /\ uk'.pb = uk.pb
           /\ ~Up => uk'.ring = uk.ring
           /\ Up => /\ Len(uk'.ring) = Len(uk.ring) + 1
                    /\ uk'.ring[Len(uk.ring) + 1] = current
                    /\ \A i \in 1..Len(uk.ring) : uk'.ring[i] = uk.ring[i]
<1>1. current \in Jobs /\ fence[current] = "none" /\ ~stopped
    BY DEF RunQueue, IInv, SchedInv, FencesInv, Queueing, TypeOK, JobTypes
<1>2. /\ fence' = [fence EXCEPT ![current] = IF Up /\ ~uk.stopped THEN "pending" ELSE "failed"]
      /\ uk'.rd = uk.rd /\ uk'.gpu = uk.gpu /\ uk'.stopped = uk.stopped /\ uk'.pb = uk.pb
      /\ ~Up => uk'.ring = uk.ring
      /\ Up => uk'.ring = Append(uk.ring, current)
    BY DEF RunQueue, IInv, TypeOK, GpuTypes, Uks
<1>3. uk.ring \in Seq(Jobs)
    BY DEF IInv, TypeOK, GpuTypes, Uks
<1> QED
    BY <1>1, <1>2, <1>3

(* No render is queued twice, none that ended is still in the queue. *)
LEMMA RingStep == ASSUME IInv, [Next]_vars PROVE RingInv'
<1> USE DEF IInv
<1>1. UNCHANGED <<uk, fence, ended>> => RingInv'
    BY DEF GpuInv, RingInv, UnreadAt
<1>2. CASE BootReset
    BY <1>2 DEF BootReset, GpuInv, RingInv, UnreadAt, TypeOK, JobTypes, GpuTypes, Uks,
        FreshUk
<1>3. ASSUME NEW ok \in BOOLEAN, BootDone(ok) PROVE RingInv'
    BY <1>3 DEF BootDone, GpuInv, RingInv, UnreadAt, TypeOK, JobTypes, GpuTypes, Uks
<1>4. CASE DebugPowerOff
    BY <1>4 DEF DebugPowerOff, GpuInv, RingInv, UnreadAt, TypeOK, JobTypes, GpuTypes, Uks
<1>5. CASE RunQueue
    <2>1. uk.rd <= Len(uk.ring) /\ Len(uk.ring) \in Nat /\ uk.rd \in Nat
        BY DEF GpuInv, RingInv, TypeOK, GpuTypes, Uks
    <2>2. \A i \in 1..Len(uk.ring) : uk.ring[i] \in Jobs /\ uk.ring[i] # current
        BY <1>5, RunQueueRecord DEF GpuInv, RingInv, TypeOK, GpuTypes, Uks
    <2>3. \A j \in Jobs : fence[j] # "none" => fence'[j] # "none"
        BY <1>5, RunQueueRecord DEF TypeOK, JobTypes
    <2>4. fence'[current] # "none" /\ current \notin ended
        BY <1>5, RunQueueRecord DEF GpuInv, RingInv, TypeOK, JobTypes
    <2>5. CASE Up
        <3>1. \A i \in 1..Len(uk'.ring) : \/ i \in 1..Len(uk.ring) /\ uk'.ring[i] = uk.ring[i]
                                          \/ i = Len(uk.ring) + 1 /\ uk'.ring[i] = current
            BY <1>5, <2>1, <2>5, RunQueueRecord
        <3>2. ended' = ended /\ uk'.rd = uk.rd /\ uk'.gpu = uk.gpu /\ Len(uk'.ring) = Len(uk.ring) + 1
            BY <1>5, <2>5, RunQueueRecord DEF RunQueue
        <3>3. \A i, k \in 1..Len(uk'.ring) : uk'.ring[i] = uk'.ring[k] => i = k
            BY <2>2, <3>1 DEF GpuInv, RingInv
        <3>4. \A i \in 1..Len(uk'.ring) : fence'[uk'.ring[i]] # "none"
            BY <2>2, <2>3, <2>4, <3>1 DEF GpuInv, RingInv
        <3>5. uk'.gpu # None => uk'.rd >= 1 /\ uk'.gpu = uk'.ring[uk'.rd] /\ uk'.gpu \notin ended'
            BY <1>5, <2>1, <2>5, <3>2, RunQueueRecord DEF GpuInv, RingInv
        <3>6. \A i \in UnreadAt' : i \in UnreadAt \/ i = Len(uk.ring) + 1
            BY <2>1, <3>2 DEF UnreadAt
        <3>7. \A i \in UnreadAt' : uk'.ring[i] \notin ended'
            <4>1. \A i \in UnreadAt : i \in 1..Len(uk.ring)
                BY <2>1 DEF UnreadAt
            <4>2. \A i \in UnreadAt : uk'.ring[i] \notin ended
                BY <1>5, <2>5, <4>1, RunQueueRecord DEF GpuInv, RingInv
            <4>3. uk'.ring[Len(uk.ring) + 1] \notin ended
                BY <1>5, <2>4, <2>5, RunQueueRecord
            <4> QED
                BY <3>2, <3>6, <4>2, <4>3
        <3>8. \A j \in ended' : fence'[j] # "none"
            BY <2>3, <3>2 DEF GpuInv, RingInv, TypeOK, GpuTypes, Uks
        <3> QED
            BY <2>1, <3>2, <3>3, <3>4, <3>5, <3>7, <3>8 DEF RingInv
    <2>6. CASE ~Up
        <3>1. uk'.ring = uk.ring /\ ended' = ended /\ uk'.rd = uk.rd /\ uk'.gpu = uk.gpu
            BY <1>5, <2>6, RunQueueRecord DEF RunQueue
        <3> QED
            BY <2>1, <2>2, <2>3, <3>1 DEF GpuInv, RingInv, UnreadAt, TypeOK, GpuTypes, Uks
    <2> QED
        BY <2>5, <2>6
<1>6. CASE PollSignal
    <2>1. \A j \in Jobs : fence[j] # "none" => fence'[j] # "none"
        BY <1>6 DEF PollSignal, TypeOK, JobTypes
    <2>2. uk' = uk /\ ended' = ended
        BY <1>6 DEF PollSignal
    <2>3. \A i \in 1..Len(uk.ring) : uk.ring[i] \in Jobs
        BY DEF TypeOK, GpuTypes, Uks
    <2> QED
        BY <2>1, <2>2, <2>3 DEF GpuInv, RingInv, UnreadAt, TypeOK, GpuTypes, Uks
<1>7. CASE Rekick
    BY <1>7 DEF Rekick, GpuInv, RingInv, UnreadAt, TypeOK, JobTypes, GpuTypes, Uks
<1>8. CASE TdrStart
    <2>1. \A j \in Jobs : fence[j] # "none" => fence'[j] # "none"
        BY <1>8 DEF TdrStart, TypeOK, JobTypes
    <2>2. uk' = uk /\ ended' = ended
        BY <1>8 DEF TdrStart
    <2>3. \A i \in 1..Len(uk.ring) : uk.ring[i] \in Jobs
        BY DEF TypeOK, GpuTypes, Uks
    <2> QED
        BY <2>1, <2>2, <2>3 DEF GpuInv, RingInv, UnreadAt, TypeOK, GpuTypes, Uks
<1>9. CASE UkStart
    <2>1. ended' = ended /\ fence' = fence
        BY <1>9 DEF UkStart
    <2>2. uk.rd \in Nat /\ Len(uk.ring) \in Nat /\ uk.rd < Len(uk.ring)
        BY <1>9 DEF UkStart, UkReady, Unread, TypeOK, GpuTypes, Uks
    <2>3. uk'.ring = uk.ring /\ uk'.rd = uk.rd + 1 /\ uk'.gpu = uk.ring[uk.rd + 1]
        BY <1>9 DEF UkStart, TypeOK, GpuTypes, Uks
    <2>4. uk.rd + 1 \in UnreadAt /\ \A i \in UnreadAt' : i \in UnreadAt
        BY <2>2, <2>3 DEF UnreadAt
    <2>5. uk'.rd <= Len(uk'.ring) /\ uk'.rd >= 1
        BY <2>2, <2>3
    <2> QED
        BY <2>1, <2>3, <2>4, <2>5 DEF GpuInv, RingInv
<1>10. CASE UkTaDone
    BY <1>10 DEF UkTaDone, GpuInv, RingInv, UnreadAt, TypeOK, JobTypes, GpuTypes, Uks
<1>11. CASE UkEnd
    <2>1. uk'.ring = uk.ring /\ uk'.rd = uk.rd /\ uk'.gpu = None /\ ended' = ended \cup {uk.gpu}
          /\ fence' = fence
        BY <1>11 DEF UkEnd, TypeOK, GpuTypes, Uks
    <2>2. uk.rd \in 1..Len(uk.ring) /\ uk.gpu = uk.ring[uk.rd] /\ uk.rd \in Nat /\ Len(uk.ring) \in Nat
        BY <1>11 DEF UkEnd, GpuInv, RingInv, TypeOK, GpuTypes, Uks
    <2>3. \A i \in UnreadAt : i \in 1..Len(uk.ring) /\ uk.ring[i] # uk.gpu
        BY <2>2 DEF GpuInv, RingInv, UnreadAt
    <2> QED
        BY <2>1, <2>2, <2>3 DEF GpuInv, RingInv, UnreadAt
<1>12. CASE UkLose
    BY <1>12 DEF UkLose, GpuInv, RingInv, UnreadAt, TypeOK, JobTypes, GpuTypes, Uks
<1>13. CASE UkHang
    BY <1>13 DEF UkHang, GpuInv, RingInv, UnreadAt, TypeOK, JobTypes, GpuTypes, Uks
<1> QED
    BY <1>1, <1>2, <1>3, <1>4, <1>5, <1>6, <1>7, <1>8, <1>9, <1>10, <1>11, <1>12, <1>13
    DEF Probe, BootWork, DebugBoot, Open, OpenBoot, Close, Submit, InSync, RunPop,
        RunCheck, RunRestart, RunFence, FreeJob, PollTa, PollDone,
        PollRekick, TdrFire, TdrStop, TdrTake, TdrRestart, Next, Boot, Debug, File,
        Run, Poll, Timeout, Uk, vars

(* What the microkernel may still have to do is the current render. *)
LEMMA AloneStep == ASSUME IInv, [Next]_vars PROVE AloneInv'
<1> USE DEF IInv
<1>1. UNCHANGED <<uk, current, fence, tdr, boot_result, active>> => AloneInv'
    BY DEF GpuInv, AloneInv, UnreadAt, Up
<1>2. CASE BootWork
    BY <1>2 DEF BootWork, GpuInv, AloneInv, UnreadAt, Up, TypeOK, JobTypes, GpuTypes, Uks,
        RingInv, BeginBoot
<1>3. CASE BootReset
    BY <1>3 DEF BootReset, GpuInv, AloneInv, UnreadAt, Up, TypeOK, JobTypes, GpuTypes, Uks,
        RingInv, FreshUk
<1>4. ASSUME NEW ok \in BOOLEAN, BootDone(ok) PROVE AloneInv'
    <2>1. /\ uk'.ring = uk.ring /\ uk'.rd = uk.rd /\ uk'.gpu = uk.gpu
          /\ uk'.stopped = (uk.stopped /\ ~ok)
        BY <1>4 DEF BootDone, TypeOK, GpuTypes, Uks
    <2>2. /\ current' = current /\ fence' = fence /\ active' = active
          /\ boot_result' = IF ok THEN "up" ELSE "failed"
        BY <1>4 DEF BootDone
    <2>3. CASE ok
        <3>1. uk = FreshUk
            BY <1>4, <2>3 DEF BootDone, LockInv
        <3>2. uk'.rd = 0 /\ Len(uk'.ring) = 0 /\ uk'.gpu = None
            BY <2>1, <3>1 DEF FreshUk
        <3>3. UnreadAt' = {}
            BY <3>2 DEF UnreadAt
        <3> QED
            BY <3>2, <3>3 DEF AloneInv
    <2>4. CASE ~ok
        <3>1. ~Up' /\ uk'.stopped = uk.stopped /\ UnreadAt' = UnreadAt
            BY <2>1, <2>2, <2>4 DEF Up, UnreadAt, TypeOK, GpuTypes, Uks
        <3> QED
            BY <2>1, <2>2, <3>1 DEF GpuInv, AloneInv
    <2> QED
        BY <2>3, <2>4
<1>5. CASE DebugBoot
    BY <1>5 DEF DebugBoot, GpuInv, AloneInv, UnreadAt, Up, TypeOK, JobTypes, GpuTypes, Uks,
        RingInv, BeginBoot
<1>6. CASE DebugPowerOff
    BY <1>6 DEF DebugPowerOff, GpuInv, AloneInv, UnreadAt, Up, TypeOK, JobTypes,
        GpuTypes, Uks, RingInv
<1>7. ASSUME NEW f \in Files, OpenBoot(f) PROVE AloneInv'
    BY <1>7 DEF OpenBoot, GpuInv, AloneInv, UnreadAt, Up, TypeOK, JobTypes, GpuTypes, Uks,
        RingInv, BeginBoot
<1>8. ASSUME NEW j \in Jobs, RunPop(j) PROVE AloneInv'
    BY <1>8 DEF RunPop, GpuInv, AloneInv, UnreadAt, Up, TypeOK, JobTypes, GpuTypes, Uks,
        RingInv
<1>9. CASE RunRestart
    BY <1>9 DEF RunRestart, GpuInv, AloneInv, UnreadAt, Up, TypeOK, JobTypes, GpuTypes, Uks,
        RingInv, BeginBoot
<1>10. CASE RunQueue
    <2>1. uk.rd <= Len(uk.ring) /\ Len(uk.ring) \in Nat /\ uk.rd \in Nat
        BY DEF GpuInv, RingInv, TypeOK, GpuTypes, Uks
    <2>2. tdr.pc # "start" /\ tdr' = tdr /\ boot_result' = boot_result /\ current' = current
        BY <1>10, RunQueueRecord DEF RunQueue, SchedInv, TimeoutInv, Restarting
    <2>3. Up => uk.gpu = None /\ (~uk.stopped => UnreadAt = {})
        BY <1>10, RunQueueRecord DEF GpuInv, AloneInv
    <2>4. CASE Up /\ ~uk.stopped
        <3>1. uk.rd = Len(uk.ring)
            <4>1. uk.rd < Len(uk.ring) => uk.rd + 1 \in UnreadAt
                BY <2>1 DEF UnreadAt
            <4> QED
                BY <2>1, <2>3, <2>4, <4>1
        <3>2. \A i \in UnreadAt' : i = Len(uk.ring) + 1
            BY <1>10, <2>1, <2>4, <3>1, RunQueueRecord DEF UnreadAt
        <3>3. fence'[current] = "pending" /\ active' = current
            BY <1>10, <2>4, RunQueueRecord DEF RunQueue, TypeOK, JobTypes
        <3> QED
            BY <1>10, <2>2, <2>3, <2>4, <3>2, <3>3, RunQueueRecord DEF AloneInv, Up
    <2>5. CASE Up /\ uk.stopped
        BY <1>10, <2>2, <2>3, <2>5, RunQueueRecord DEF AloneInv, Up
    <2>6. CASE ~Up
        <3>1. UnreadAt' = UnreadAt /\ active' = active
            BY <1>10, <2>6, RunQueueRecord DEF RunQueue, UnreadAt
        <3> QED
            BY <1>10, <2>2, <2>6, <3>1, RunQueueRecord DEF GpuInv, AloneInv, Up
    <2> QED
        BY <2>4, <2>5, <2>6
<1>11. CASE RunFence
    BY <1>11 DEF RunFence, GpuInv, AloneInv, UnreadAt, Up, TypeOK, JobTypes, GpuTypes, Uks,
        RingInv, FenceSignalled
<1>12. CASE PollDone
    BY <1>12 DEF PollDone, GpuInv, AloneInv, UnreadAt, Up, TypeOK, JobTypes, GpuTypes, Uks,
        RingInv, DrmTypes
<1>13. CASE PollSignal
    <2>1. /\ uk' = uk /\ active' = active /\ tdr' = tdr /\ boot_result' = boot_result
          /\ fence' = [fence EXCEPT ![polled] = "ok"]
          /\ polled \notin parent => current' = current
          /\ polled \in ended /\ polled \in Jobs
        BY <1>13 DEF PollSignal, GpuInv, EndedInv, TypeOK, DrmTypes
    <2>2. UnreadAt' = UnreadAt /\ Up' = Up
        BY <2>1 DEF UnreadAt, Up
    <2>3. polled \in parent => polled = current
        BY <1>13 DEF PollSignal, SchedInv, FencesInv
    <2>4. current # polled => current' = current /\ fence'[current] = fence[current]
        BY <2>1, <2>3 DEF TypeOK, JobTypes
    <2>5. Up /\ ~uk.stopped => \A i \in UnreadAt : uk.ring[i] = current /\ current # polled
        BY <2>1 DEF GpuInv, AloneInv, RingInv
    <2>6. Up /\ uk.gpu # None => uk.gpu = current /\ current # polled
        BY <2>1 DEF GpuInv, AloneInv, RingInv
    <2>7. Up /\ ~uk.stopped => \A i \in UnreadAt : fence[current] = "pending"
        BY DEF GpuInv, AloneInv
    <2>8. Up /\ uk.gpu # None => fence[current] = "pending"
        BY DEF GpuInv, AloneInv
    <2> QED
        BY <2>1, <2>2, <2>4, <2>5, <2>6, <2>7, <2>8 DEF GpuInv, AloneInv
<1>14. CASE Rekick
    BY <1>14 DEF Rekick, GpuInv, AloneInv, UnreadAt, Up, TypeOK, JobTypes, GpuTypes, Uks,
        RingInv
<1>15. ASSUME NEW j \in Jobs, TdrFire(j) PROVE AloneInv'
    BY <1>15 DEF TdrFire, GpuInv, AloneInv, UnreadAt, Up, TypeOK, JobTypes, GpuTypes, Uks,
        RingInv
<1>16. CASE TdrStop
    BY <1>16 DEF TdrStop, GpuInv, AloneInv, UnreadAt, Up, TypeOK, JobTypes, GpuTypes, Uks,
        RingInv
<1>17. CASE TdrTake
    BY <1>17 DEF TdrTake, GpuInv, AloneInv, UnreadAt, Up, TypeOK, JobTypes, GpuTypes, Uks,
        RingInv, DrmTypes, SchedTypes
<1>18. CASE TdrRestart
    BY <1>18 DEF TdrRestart, GpuInv, AloneInv, UnreadAt, Up, TypeOK, JobTypes,
        GpuTypes, Uks, RingInv, BeginBoot, SchedTypes
<1>19. CASE TdrStart
    BY <1>19 DEF TdrStart, GpuInv, AloneInv, UnreadAt, Up, TypeOK, JobTypes, GpuTypes, Uks,
        RingInv, SchedTypes, NoTdr, SchedInv, TimeoutInv
<1>20. CASE UkStart
    <2>1. \A i \in UnreadAt' : i \in UnreadAt
        BY <1>20, UkStartRecord DEF UnreadAt, TypeOK, GpuTypes, Uks
    <2>2. current' = current /\ fence' = fence /\ tdr' = tdr /\ boot_result' = boot_result
          /\ active' = active /\ ~uk.stopped
        BY <1>20 DEF UkStart, UkReady
    <2>3. uk.rd # Len(uk.ring)
        BY <1>20 DEF UkStart, UkReady, Unread
    <2> QED
        BY <1>20, <2>1, <2>2, <2>3, UkStartRecord DEF GpuInv, AloneInv, Up
<1>21. CASE UkTaDone
    BY <1>21 DEF UkTaDone, GpuInv, AloneInv, UnreadAt, Up, TypeOK, JobTypes, GpuTypes, Uks,
        RingInv
<1>22. CASE UkEnd
    BY <1>22 DEF UkEnd, GpuInv, AloneInv, UnreadAt, Up, TypeOK, JobTypes, GpuTypes, Uks,
        RingInv
<1>23. CASE UkLose
    BY <1>23 DEF UkLose, GpuInv, AloneInv, UnreadAt, Up, TypeOK, JobTypes, GpuTypes, Uks,
        RingInv
<1>24. CASE UkHang
    BY <1>24 DEF UkHang, GpuInv, AloneInv, UnreadAt, Up, TypeOK, JobTypes, GpuTypes, Uks,
        RingInv
<1> QED
    BY <1>1, <1>2, <1>3, <1>4, <1>5, <1>6, <1>7, <1>8, <1>9, <1>10, <1>11, <1>12,
       <1>13, <1>14, <1>15, <1>16, <1>17, <1>18, <1>19, <1>20, <1>21, <1>22, <1>23,
       <1>24
    DEF Probe, Open, Close, Submit, InSync, RunCheck, FreeJob, PollTa,
        PollRekick, Next, Boot, Debug, File, Run, Poll, Timeout, Uk, vars

(* The TA's value and a cleared +0x24 never speak of a render that runs on. *)
LEMMA EndedStep == ASSUME IInv, [Next]_vars PROVE EndedInv'
<1> USE DEF IInv
<1>1. UNCHANGED <<uk, d24, shape, active, watch, done, ended, polled, fence, fin>> => EndedInv'
    BY DEF GpuInv, EndedInv, TaSeen
<1>2. CASE BootReset
    BY <1>2 DEF BootReset, GpuInv, EndedInv, TaSeen, TypeOK, JobTypes, GpuTypes, Uks,
        DrmTypes, FreshUk
<1>3. ASSUME NEW ok \in BOOLEAN, BootDone(ok) PROVE EndedInv'
    BY <1>3 DEF BootDone, GpuInv, EndedInv, TaSeen, TypeOK, JobTypes, GpuTypes, Uks,
        DrmTypes
<1>4. CASE DebugPowerOff
    BY <1>4 DEF DebugPowerOff, GpuInv, EndedInv, TaSeen, TypeOK, JobTypes, GpuTypes, Uks,
        DrmTypes
<1>5. ASSUME NEW f \in Files, Close(f) PROVE EndedInv'
    BY <1>5 DEF Close, GpuInv, EndedInv, TaSeen, TypeOK, JobTypes, GpuTypes, Uks, DrmTypes
<1>6. ASSUME NEW j \in Jobs, NEW s \in Shapes, Submit(j, s) PROVE EndedInv'
    <2>1. /\ shape' = [shape EXCEPT ![j] = s] /\ num[j] = 0
          /\ uk' = uk /\ d24' = d24 /\ active' = active /\ watch' = watch /\ done' = done
          /\ ended' = ended /\ polled' = polled /\ fence' = fence /\ fin' = fin
        BY <1>6 DEF Submit
    <2>2. \A i \in Jobs : i # j => shape'[i] = shape[i]
        BY <2>1 DEF TypeOK, JobTypes
    <2>3. uk.gpu # None => uk.gpu \in Jobs /\ fence[uk.gpu] # "none"
        BY DEF GpuInv, RingInv, TypeOK, GpuTypes, Uks
    <2>4. active # None => active \in Jobs /\ fence[active] # "none"
        BY DEF SchedInv, FencesInv, TypeOK, DrmTypes
    <2>5. fence[j] = "none"
        BY <2>1 DEF SchedInv, RendersInv
    <2> QED
        BY <2>1, <2>2, <2>3, <2>4, <2>5 DEF GpuInv, EndedInv, TaSeen
<1>7. CASE RunQueue
    BY <1>7 DEF RunQueue, GpuInv, EndedInv, TaSeen, TypeOK, JobTypes, GpuTypes, Uks,
        DrmTypes, SchedInv, FencesInv, Queueing
<1>8. CASE RunFence
    BY <1>8 DEF RunFence, GpuInv, EndedInv, TaSeen, TypeOK, JobTypes, GpuTypes, Uks,
        DrmTypes, FenceSignalled
<1>9. CASE PollTa
    BY <1>9 DEF PollTa, GpuInv, EndedInv, TaSeen, TypeOK, JobTypes, GpuTypes, Uks, DrmTypes,
        DetailsClear
<1>10. CASE PollDone
    BY <1>10 DEF PollDone, GpuInv, EndedInv, TaSeen, TypeOK, JobTypes, GpuTypes, Uks,
        DrmTypes, DetailsClear, NoWatch
<1>11. CASE PollRekick
    BY <1>11 DEF PollRekick, GpuInv, EndedInv, TaSeen, TypeOK, JobTypes, GpuTypes, Uks,
        DrmTypes
<1>12. CASE PollSignal
    BY <1>12 DEF PollSignal, GpuInv, EndedInv, TaSeen, TypeOK, JobTypes, GpuTypes, Uks,
        DrmTypes
<1>13. CASE Rekick
    BY <1>13 DEF Rekick, GpuInv, EndedInv, TaSeen, TypeOK, JobTypes, GpuTypes, Uks, DrmTypes
<1>14. CASE TdrTake
    BY <1>14 DEF TdrTake, GpuInv, EndedInv, TaSeen, TypeOK, JobTypes, GpuTypes, Uks,
        DrmTypes, NoWatch
<1>15. CASE TdrStart
    BY <1>15 DEF TdrStart, GpuInv, EndedInv, TaSeen, TypeOK, JobTypes, GpuTypes, Uks,
        DrmTypes, SchedTypes
<1>16. CASE UkStart
    <2>1. /\ active' = active /\ watch' = watch /\ done' = done /\ ended' = ended /\ polled' = polled
          /\ fence' = fence /\ fin' = fin /\ shape' = shape
        BY <1>16 DEF UkStart
    <2>2. d24' = [d24 EXCEPT ![shape[uk.ring[uk.rd + 1]].det] = TRUE]
        BY <1>16 DEF UkStart
    <2>3. shape[uk.ring[uk.rd + 1]].det \in Dets
        BY <1>16, UkStartRecord
    <2>4. d24'[shape[uk.ring[uk.rd + 1]].det] /\ \A d \in Dets : d24[d] => d24'[d]
        BY <2>2, <2>3 DEF TypeOK, GpuTypes, Uks
    <2>5. active # None => shape[active].det \in Dets
        BY DEF SchedInv, RendersInv, FencesInv, TypeOK, DrmTypes, JobTypes
    <2> QED
        BY <1>16, <2>1, <2>4, <2>5, UkStartRecord DEF GpuInv, EndedInv, TaSeen
<1>17. CASE UkTaDone
    BY <1>17 DEF UkTaDone, GpuInv, EndedInv, TaSeen, TypeOK, JobTypes, GpuTypes, Uks,
        DrmTypes, RingInv
<1>18. CASE UkEnd
    BY <1>18 DEF UkEnd, GpuInv, EndedInv, TaSeen, TypeOK, JobTypes, GpuTypes, Uks, DrmTypes,
        AloneInv, RingInv, SchedInv, RendersInv
<1>19. CASE UkLose
    BY <1>19 DEF UkLose, GpuInv, EndedInv, TaSeen, TypeOK, JobTypes, GpuTypes, Uks, DrmTypes
<1>20. CASE UkHang
    BY <1>20 DEF UkHang, GpuInv, EndedInv, TaSeen, TypeOK, JobTypes, GpuTypes, Uks, DrmTypes
<1> QED
    BY <1>1, <1>2, <1>3, <1>4, <1>5, <1>6, <1>7, <1>8, <1>9, <1>10, <1>11, <1>12,
       <1>13, <1>14, <1>15, <1>16, <1>17, <1>18, <1>19, <1>20
    DEF Probe, BootWork, DebugBoot, Open, OpenBoot, InSync, RunPop, RunCheck,
        RunRestart, FreeJob, TdrFire, TdrStop, TdrRestart, Next, Boot, Debug,
        File, Run, Poll, Timeout, Uk, vars

(* The queue's parameter buffer is the one pb_serial names. *)
LEMMA PbStep == ASSUME IInv, [Next]_vars PROVE PbInv'
<1> USE DEF IInv
<1>1. UNCHANGED <<uk, shape, pb, kpb, boots, boot_result, run, current>> => PbInv'
    BY DEF PbInv, UnreadAt, Up, Unread
<1>2. CASE BootWork
    BY <1>2 DEF BootWork, PbInv, UnreadAt, Up, Unread, TypeOK, DrmTypes, GpuTypes, Uks,
        BeginBoot
<1>3. CASE BootReset
    BY <1>3 DEF BootReset, PbInv, UnreadAt, Up, Unread, TypeOK, DrmTypes, GpuTypes, Uks,
        FreshUk
<1>4. ASSUME NEW ok \in BOOLEAN, BootDone(ok) PROVE PbInv'
    <2>1. /\ uk'.ring = uk.ring /\ uk'.rd = uk.rd /\ uk'.pb = uk.pb
          /\ uk'.stopped = (uk.stopped /\ ~ok)
        BY <1>4 DEF BootDone, TypeOK, GpuTypes, Uks
    <2>2. /\ shape' = shape /\ pb' = pb /\ kpb' = kpb /\ boots' = boots + 1
          /\ boot_result' = IF ok THEN "up" ELSE "failed"
        BY <1>4 DEF BootDone
    <2>3. /\ boots \in Nat /\ pb.boots \in Nat /\ kpb.boots \in Nat \cup {None}
          /\ pb.boots <= boots /\ (kpb.boots # None => kpb.boots <= boots)
        BY DEF PbInv, TypeOK, BootTypes, DrmTypes
    <2>4. /\ boots' \in Nat /\ pb'.boots <= boots' /\ (kpb'.boots # None => kpb'.boots <= boots')
          /\ kpb'.boots # boots'
        BY <2>2, <2>3
    <2>5. CASE ok
        <3>1. uk = FreshUk
            BY <1>4, <2>5 DEF BootDone, LockInv
        <3>2. uk'.rd = 0 /\ Len(uk'.ring) = 0 /\ uk'.pb = None
            BY <2>1, <3>1 DEF FreshUk
        <3>3. UnreadAt' = {} /\ ~Unread'
            BY <3>2 DEF UnreadAt, Unread
        <3> QED
            BY <2>4, <3>2, <3>3 DEF PbInv
    <2>6. CASE ~ok
        <3>1. ~Up' /\ uk'.stopped = uk.stopped /\ UnreadAt' = UnreadAt
            BY <2>1, <2>2, <2>6 DEF Up, UnreadAt, TypeOK, GpuTypes, Uks
        <3> QED
            BY <2>1, <2>2, <2>4, <3>1 DEF PbInv
    <2> QED
        BY <2>5, <2>6
<1>5. CASE DebugBoot
    BY <1>5 DEF DebugBoot, PbInv, UnreadAt, Up, Unread, TypeOK, DrmTypes, GpuTypes, Uks,
        BeginBoot
<1>6. CASE DebugPowerOff
    BY <1>6 DEF DebugPowerOff, PbInv, UnreadAt, Up, Unread, TypeOK, DrmTypes, GpuTypes, Uks
<1>7. ASSUME NEW f \in Files, OpenBoot(f) PROVE PbInv'
    BY <1>7 DEF OpenBoot, PbInv, UnreadAt, Up, Unread, TypeOK, DrmTypes, GpuTypes, Uks,
        BeginBoot
<1>8. ASSUME NEW j \in Jobs, NEW s \in Shapes, Submit(j, s) PROVE PbInv'
    <2>1. shape' = [shape EXCEPT ![j] = s] /\ num[j] = 0 /\ fence[j] = "none"
        BY <1>8 DEF Submit, SchedInv, RendersInv
    <2>2. \A i \in UnreadAt : i \in 1..Len(uk.ring) /\ uk.ring[i] # j
        BY <2>1 DEF UnreadAt, TypeOK, GpuTypes, Uks, GpuInv, RingInv
    <2>3. \A i \in UnreadAt : shape'[uk.ring[i]] = shape[uk.ring[i]]
        BY <2>1, <2>2 DEF TypeOK, JobTypes, GpuTypes, Uks
    <2>4. run = "queue" => shape'[current] = shape[current]
        BY <2>1 DEF SchedInv, RendersInv, FencesInv, TypeOK, JobTypes
    <2>5. /\ uk' = uk /\ pb' = pb /\ kpb' = kpb /\ boots' = boots /\ boot_result' = boot_result
          /\ run' = run /\ current' = current
        BY <1>8 DEF Submit
    <2> QED
        BY <2>3, <2>4, <2>5 DEF PbInv, UnreadAt, Up, Unread
<1>9. ASSUME NEW j \in Jobs, RunPop(j) PROVE PbInv'
    BY <1>9 DEF RunPop, PbInv, UnreadAt, Up, Unread, TypeOK, DrmTypes, GpuTypes, Uks
<1>10. CASE RunCheck
    BY <1>10 DEF RunCheck, PbInv, UnreadAt, Up, Unread, TypeOK, DrmTypes, GpuTypes, Uks,
        NewPb
<1>11. CASE RunRestart
    BY <1>11 DEF RunRestart, PbInv, UnreadAt, Up, Unread, TypeOK, DrmTypes, GpuTypes, Uks,
        BeginBoot
<1>12. CASE RunQueue
    <2>1. uk.rd <= Len(uk.ring) /\ Len(uk.ring) \in Nat /\ uk.rd \in Nat
        BY DEF GpuInv, RingInv, TypeOK, GpuTypes, Uks
    <2>2. Up /\ ~uk.stopped => uk.rd = Len(uk.ring)
        <3>1. Up /\ ~uk.stopped => UnreadAt = {}
            BY <1>12, RunQueueRecord DEF GpuInv, AloneInv
        <3>2. uk.rd < Len(uk.ring) => uk.rd + 1 \in UnreadAt
            BY <2>1 DEF UnreadAt
        <3> QED
            BY <2>1, <3>1, <3>2
    <2>3. /\ shape' = shape /\ boots' = boots /\ boot_result' = boot_result /\ current' = current
          /\ run = "queue" /\ run' = "fence"
        BY <1>12 DEF RunQueue
    <2>4. CASE Up /\ ~uk.stopped
        <3>1. pb' = [serial |-> shape[current].pb, boots |-> boots]
            BY <1>12, <2>4 DEF RunQueue
        <3>2. \A i \in UnreadAt' : uk'.ring[i] = current
            BY <1>12, <2>1, <2>2, <2>4, RunQueueRecord DEF UnreadAt
        <3>3. uk.pb # None => uk.pb = shape[current].pb
            BY <2>3, <2>4 DEF PbInv
        <3>4. kpb' = IF shape[current].pb = KernelPb /\ KpbStale
                     THEN [boots |-> boots, img |-> "fresh"] ELSE kpb
            BY <1>12, <2>4 DEF RunQueue
        <3>5. boots \in Nat /\ (kpb.boots # None => kpb.boots \in Nat)
            BY DEF TypeOK, BootTypes, DrmTypes
        <3>6. kpb'.boots # None => kpb'.boots <= boots
            BY <3>4, <3>5 DEF PbInv, TypeOK, BootTypes
        <3>7. uk.pb = None =>
                /\ shape[current].pb = KernelPb => kpb'.img = "fresh"
                /\ kpb'.boots = boots => kpb'.img = "fresh"
            BY <2>4, <3>4 DEF PbInv, KpbStale
        <3>8. pb'.boots <= boots /\ pb'.serial = shape[current].pb /\ pb'.boots = boots
            BY <3>1 DEF TypeOK, BootTypes
        <3> QED
            BY <1>12, <2>3, <2>4, <3>2, <3>3, <3>6, <3>7, <3>8, RunQueueRecord DEF PbInv, Up
    <2>5. CASE uk.stopped
        <3>1. pb' = pb
            BY <1>12, <2>5 DEF RunQueue
        <3>2. kpb' = kpb \/ kpb' = [boots |-> boots, img |-> "fresh"]
            BY <1>12 DEF RunQueue
        <3>3. kpb'.boots # None => kpb'.boots <= boots
            BY <3>2 DEF PbInv, TypeOK, BootTypes
        <3> QED
            BY <1>12, <2>3, <2>5, <3>1, <3>3, RunQueueRecord DEF PbInv
    <2>6. CASE ~Up
        <3>1. pb' = pb /\ kpb' = kpb
            BY <1>12, <2>6 DEF RunQueue
        <3>2. uk'.ring = uk.ring /\ UnreadAt' = UnreadAt
            BY <1>12, <2>6, RunQueueRecord DEF UnreadAt
        <3> QED
            BY <1>12, <2>3, <2>6, <3>1, <3>2, RunQueueRecord DEF PbInv, Up
    <2> QED
        BY <2>4, <2>5, <2>6
<1>13. CASE RunFence
    BY <1>13 DEF RunFence, PbInv, UnreadAt, Up, Unread, TypeOK, DrmTypes, GpuTypes, Uks,
        SchedInv, FencesInv
<1>14. CASE PollSignal
    BY <1>14 DEF PollSignal, PbInv, UnreadAt, Up, Unread, TypeOK, DrmTypes, GpuTypes, Uks,
        SchedInv, FencesInv, Queueing, JobTypes
<1>15. CASE Rekick
    BY <1>15 DEF Rekick, PbInv, UnreadAt, Up, Unread, TypeOK, DrmTypes, GpuTypes, Uks
<1>16. CASE TdrRestart
    BY <1>16 DEF TdrRestart, PbInv, UnreadAt, Up, Unread, TypeOK, DrmTypes, GpuTypes, Uks,
        BeginBoot
<1>17. CASE TdrStart
    BY <1>17 DEF TdrStart, PbInv, UnreadAt, Up, Unread, TypeOK, DrmTypes, GpuTypes, Uks,
        SchedInv, FencesInv, TimeoutInv, Restarting
<1>18. CASE UkStart
    <2>1. \A i \in UnreadAt' : i \in UnreadAt
        BY <1>18, UkStartRecord DEF UnreadAt, TypeOK, GpuTypes, Uks
    <2>2. /\ shape' = shape /\ boots' = boots /\ boot_result' = boot_result /\ current' = current
          /\ run' = run /\ pb' = pb /\ ~uk.stopped /\ Unread /\ kpb'.boots = kpb.boots
        BY <1>18 DEF UkStart, UkReady, TypeOK, DrmTypes
    <2>3. uk'.pb = pb.serial /\ uk'.pb # None
        BY <1>18, <2>2, UkStartRecord DEF PbInv
    <2>4. Up => run # "queue"
        BY <1>18, <2>2, UkStartRecord DEF GpuInv, AloneInv, SchedInv, FencesInv, Queueing
    <2> QED
        BY <1>18, <2>1, <2>2, <2>3, <2>4, UkStartRecord DEF PbInv, Up
<1>19. CASE UkTaDone
    BY <1>19 DEF UkTaDone, PbInv, UnreadAt, Up, Unread, TypeOK, DrmTypes, GpuTypes, Uks
<1>20. CASE UkEnd
    BY <1>20 DEF UkEnd, PbInv, UnreadAt, Up, Unread, TypeOK, DrmTypes, GpuTypes, Uks
<1>21. CASE UkLose
    BY <1>21 DEF UkLose, PbInv, UnreadAt, Up, Unread, TypeOK, DrmTypes, GpuTypes, Uks
<1>22. CASE UkHang
    BY <1>22 DEF UkHang, PbInv, UnreadAt, Up, Unread, TypeOK, DrmTypes, GpuTypes, Uks
<1> QED
    BY <1>1, <1>2, <1>3, <1>4, <1>5, <1>6, <1>7, <1>8, <1>9, <1>10, <1>11, <1>12,
       <1>13, <1>14, <1>15, <1>16, <1>17, <1>18, <1>19, <1>20, <1>21, <1>22
    DEF Probe, Open, Close, InSync, FreeJob, PollTa, PollDone, PollRekick,
        TdrFire, TdrStop, TdrTake, Next, Boot, Debug, File, Run, Poll, Timeout, Uk,
        vars

-----------------------------------------------------------------------------
(* The microkernel keeps a parameter buffer's state until its reset.       *)
LEMMA UkPbStep == ASSUME IInv, [Next]_vars PROVE uk'.pb = uk.pb \/ BootReset \/ UkStart
<1> USE DEF IInv
<1>1. UNCHANGED <<uk>> => uk'.pb = uk.pb \/ BootReset \/ UkStart
    OBVIOUS
<1>2. CASE BootReset
    BY <1>2
<1>3. ASSUME NEW ok \in BOOLEAN, BootDone(ok) PROVE uk'.pb = uk.pb \/ BootReset \/ UkStart
    BY <1>3 DEF BootDone, TypeOK, GpuTypes, Uks
<1>4. CASE DebugPowerOff
    BY <1>4 DEF DebugPowerOff, TypeOK, GpuTypes, Uks
<1>5. CASE RunQueue
    BY <1>5, RunQueueRecord
<1>6. CASE Rekick
    BY <1>6 DEF Rekick, TypeOK, GpuTypes, Uks
<1>7. CASE UkStart
    BY <1>7
<1>8. CASE UkTaDone
    BY <1>8 DEF UkTaDone, TypeOK, GpuTypes, Uks
<1>9. CASE UkEnd
    BY <1>9 DEF UkEnd, TypeOK, GpuTypes, Uks
<1>10. CASE UkLose
    BY <1>10 DEF UkLose, TypeOK, GpuTypes, Uks
<1>11. CASE UkHang
    BY <1>11 DEF UkHang, TypeOK, GpuTypes, Uks
<1> QED
    BY <1>1, <1>2, <1>3, <1>4, <1>5, <1>6, <1>7, <1>8, <1>9, <1>10, <1>11
    DEF Probe, BootWork, DebugBoot, Open, OpenBoot, Close, Submit, InSync, RunPop,
        RunCheck, RunRestart, RunFence, FreeJob, PollTa, PollDone,
        PollRekick, PollSignal, TdrFire, TdrStop, TdrTake, TdrRestart, TdrStart, Next,
        Boot, Debug, File, Run, Poll, Timeout, Uk, vars

(* Only sgx_job_run and the GPU touch the kernel's parameter buffer. *)
LEMMA KpbStep == ASSUME IInv, [Next]_vars PROVE kpb' = kpb \/ RunQueue \/ UkStart
<1> USE DEF IInv
<1>1. UNCHANGED <<kpb>> => kpb' = kpb \/ RunQueue \/ UkStart
    OBVIOUS
<1>2. CASE RunQueue
    BY <1>2
<1>3. CASE UkStart
    BY <1>3
<1> QED
    BY <1>1, <1>2, <1>3
    DEF Probe, BootWork, BootReset, BootDone, DebugBoot, DebugPowerOff, Open, OpenBoot,
        Close, Submit, InSync, RunPop, RunCheck, RunRestart, RunFence, FreeJob,
        PollTa, PollDone, PollRekick, PollSignal, Rekick, TdrFire, TdrStop,
        TdrTake, TdrRestart, TdrStart, UkTaDone, UkEnd, UkLose, UkHang, Next, Boot,
        Debug, File, Run, Poll, Timeout, Uk, vars

(* Every step of the driver is one of the promise's, or none.              *)
LEMMA PromiseStep == ASSUME IInv, [Next]_vars PROVE [RenderQueue!Next]_(RenderQueue!vars)
<1> USE DEF IInv
<1>1. UNCHANGED <<submitted, num, shape, queued, current, fin>> => [RenderQueue!Next]_(RenderQueue!vars)
    BY DEF RenderQueue!vars
<1>2. ASSUME NEW f \in Files, Close(f) PROVE [RenderQueue!Next]_(RenderQueue!vars)
    <2>1. RenderQueue!Drop({j \in queued : shape[j].file = f})
        BY <1>2 DEF Close, RenderQueue!Drop
    <2> QED
        BY <2>1 DEF RenderQueue!Next
<1>3. ASSUME NEW j \in Jobs, NEW s \in Shapes, Submit(j, s) PROVE [RenderQueue!Next]_(RenderQueue!vars)
    <2>1. RenderQueue!Submit(j, s)
        BY <1>3 DEF Submit, RenderQueue!Submit
    <2> QED
        BY <2>1 DEF RenderQueue!Next
<1>4. ASSUME NEW j \in Jobs, RunPop(j) PROVE [RenderQueue!Next]_(RenderQueue!vars)
    <2>1. RenderQueue!Start(j)
        BY <1>4 DEF RunPop, Ready, Conflict, RenderQueue!Start, RenderQueue!Conflict
    <2> QED
        BY <2>1 DEF RenderQueue!Next
<1>5. CASE RunFence
    <2>1. CASE FenceSignalled
        <3>1. current # None /\ fence[current] \in {"ok", "failed"}
            BY <1>5, <2>1 DEF RunFence, FenceSignalled, SchedInv, FencesInv, TypeOK, JobTypes
        <3>2. RenderQueue!End(fence[current])
            BY <1>5, <2>1, <3>1 DEF RunFence, RenderQueue!End
        <3> QED
            BY <3>1, <3>2 DEF RenderQueue!Next
    <2>2. CASE ~FenceSignalled
        BY <1>5, <2>2 DEF RunFence, RenderQueue!vars
    <2> QED
        BY <2>1, <2>2
<1>6. CASE PollSignal
    <2>1. CASE polled \in parent
        <3>1. current = polled /\ current # None
            BY <1>6, <2>1 DEF PollSignal, SchedInv, FencesInv
        <3>2. RenderQueue!End("ok")
            BY <1>6, <2>1, <3>1 DEF PollSignal, RenderQueue!End
        <3> QED
            BY <3>2 DEF RenderQueue!Next
    <2>2. CASE polled \notin parent
        BY <1>6, <2>2 DEF PollSignal, RenderQueue!vars
    <2> QED
        BY <2>1, <2>2
<1>7. CASE TdrStart
    <2>1. pending \subseteq {current} /\ (current # None => current \in pending)
        BY <1>7 DEF TdrStart, SchedInv, TimeoutInv, Restarting
    <2>2. CASE current # None
        <3>1. fin' = [fin EXCEPT ![current] = "failed"] /\ current' = None
            <4>1. pending = {current}
                BY <2>1, <2>2
            <4>2. fin' = [j \in Jobs |-> IF j = current THEN "failed" ELSE fin[j]]
                BY <1>7, <4>1 DEF TdrStart
            <4>3. fin \in [Jobs -> {"none", "ok", "failed"}]
                BY DEF TypeOK, JobTypes
            <4>4. fin' = [fin EXCEPT ![current] = "failed"]
                BY <4>2, <4>3
            <4> QED
                BY <1>7, <4>1, <4>4 DEF TdrStart
        <3>2. RenderQueue!End("failed")
            BY <1>7, <2>2, <3>1 DEF TdrStart, RenderQueue!End
        <3> QED
            BY <3>2 DEF RenderQueue!Next
    <2>3. CASE current = None
        <3>1. pending = {}
            BY <2>1, <2>3 DEF TypeOK, JobTypes
        <3>2. fin' = fin /\ current' = current
            BY <1>7, <2>3, <3>1 DEF TdrStart, TypeOK, JobTypes
        <3> QED
            BY <1>7, <3>2 DEF TdrStart, RenderQueue!vars
    <2> QED
        BY <2>2, <2>3
<1> QED
    BY <1>1, <1>2, <1>3, <1>4, <1>5, <1>6, <1>7
    DEF Probe, BootWork, BootReset, BootDone, DebugBoot, DebugPowerOff, Open, OpenBoot,
        InSync, RunCheck, RunRestart, RunQueue, FreeJob, PollTa, PollDone,
        PollRekick, Rekick, TdrFire, TdrStop, TdrTake, TdrRestart, UkStart, UkTaDone,
        UkEnd, UkLose, UkHang, Next, Boot, Debug, File, Run, Poll, Timeout, Uk, vars

-----------------------------------------------------------------------------
(* Nothing started yet. *)
LEMMA InitInv == Init => IInv
<1> SUFFICES ASSUME Init PROVE IInv
    OBVIOUS
<1>1. TypeOK
    <2>1. FreshUk \in Uks /\ NoWatch \in [ta : BOOLEAN, rekicks : 0..MaxRekicks, at : Nat]
        BY DEF FreshUk, NoWatch, Uks
    <2>2. NoTdr \in [pc : TdrPhases, job : Jobs \cup {None}, hw : BOOLEAN, guilty : BOOLEAN]
        BY DEF NoTdr, TdrPhases
    <2>3. BootTypes /\ JobTypes
        BY DEF Init, BootTypes, JobTypes
    <2>4. SchedTypes
        BY <2>2 DEF Init, SchedTypes, Phases
    <2>5. DrmTypes
        BY <2>1 DEF Init, DrmTypes
    <2>6. GpuTypes
        BY <2>1 DEF Init, GpuTypes, Uks
    <2> QED
        BY <2>3, <2>4, <2>5, <2>6 DEF TypeOK
<1>2. LockInv
    BY DEF Init, LockInv, NoTdr, Owners
<1>3. SchedInv
    BY DEF Init, SchedInv, RendersInv, FencesInv, TimeoutInv, Queueing, Restarting, NoTdr
<1>4. GpuInv
    BY DEF Init, GpuInv, RingInv, AloneInv, EndedInv, UnreadAt, FreshUk, Up
<1>5. PbInv
    BY DEF Init, PbInv, UnreadAt, FreshUk, Up
<1> QED
    BY <1>1, <1>2, <1>3, <1>4, <1>5 DEF IInv

(* Each part of the invariant, from all of them. *)
LEMMA StepInv == IInv /\ [Next]_vars => IInv'
<1> SUFFICES ASSUME IInv, [Next]_vars PROVE IInv'
    OBVIOUS
<1>1. TypeOK'
    BY BootTypesStep, JobTypesStep, SchedTypesStep, DrmTypesStep, GpuTypesStep DEF TypeOK
<1>2. SchedInv'
    BY RendersStep, FencesStep, TimeoutStep DEF SchedInv
<1>3. GpuInv'
    BY RingStep, AloneStep, EndedStep DEF GpuInv
<1> QED
    BY <1>1, <1>2, <1>3, LockStep, PbStep DEF IInv

(* The invariant holds in every reachable state: sgx->lock, the scheduler, *)
(* the poller, the timeout and the microkernel agree at every step.        *)
THEOREM Invariance == Spec => []IInv
    BY InitInv, StepInv, PTL DEF Spec

(* Every variable keeps its type. *)
THEOREM TypeCorrect == Spec => []TypeOK
<1>1. IInv => TypeOK
    BY DEF IInv
<1> QED
    BY <1>1, Invariance, PTL

(* A fence signals without an error only when the render's 3D pass ended,  *)
(* whatever the microkernel lost, hung on or was reset in the middle of    *)
(* (sgx_poll, sgx_job_timedout).                                           *)
THEOREM FencesHonest == Spec => []FenceHonest
<1>1. IInv => FenceHonest
    BY DEF IInv, GpuInv, EndedInv, FenceHonest
<1> QED
    BY <1>1, Invariance, PTL

(* A microkernel that is up has the scheduler's current render alone: the  *)
(* kernel's parameter buffer and the completion word need no lock.         *)
THEOREM RendersAlone == Spec => []RenderAlone
<1>1. IInv => RenderAlone
    BY DEF IInv, GpuInv, AloneInv, UnreadAt, OnGpu, RenderAlone
<1> QED
    BY <1>1, Invariance, PTL

(* What a microkernel that is up works on has its buffers. *)
THEOREM BuffersAreHeld == Spec => []BuffersHeld
<1>1. IInv => BuffersHeld
    BY DEF IInv, GpuInv, AloneInv, SchedInv, RendersInv, BuffersHeld, TypeOK, GpuTypes, Uks
<1> QED
    BY <1>1, Invariance, PTL

(* Between two resets the microkernel meets one parameter buffer, although *)
(* sgx_job_run looks at pb_serial before it takes the lock.                *)
THEOREM PbsFresh == Spec => PbFresh
<1> DEFINE Fresh == uk'.pb = uk.pb \/ uk.pb = None \/ uk'.pb = None
<1>1. IInv /\ [Next]_vars => [Fresh]_vars
    <2> SUFFICES ASSUME IInv, Next PROVE Fresh
        OBVIOUS
    <2>1. CASE BootReset
        BY <2>1 DEF BootReset, FreshUk
    <2>2. CASE UkStart
        <3>1. ~uk.stopped
            BY <2>2 DEF UkStart, UkReady
        <3>2. uk'.pb = pb.serial
            BY <2>2, <3>1, UkStartRecord DEF IInv, PbInv
        <3> QED
            BY <3>1, <3>2 DEF IInv, PbInv
    <2> QED
        BY <2>1, <2>2, UkPbStep
<1> QED
    BY <1>1, Invariance, PTL DEF Spec, PbFresh

(* The kernel's parameter buffer is as new when a started microkernel      *)
(* meets it, and is not written under a render (sgx_kpb_get).              *)
THEOREM KpbImages == Spec => KpbImage
<1> DEFINE Image == /\ uk.pb = None /\ uk'.pb = KernelPb => kpb.img = "fresh"
                    /\ kpb.img = "used" /\ kpb'.img = "fresh" => uk.gpu = None
<1>1. IInv /\ [Next]_vars => [Image]_vars
    <2> SUFFICES ASSUME IInv, Next PROVE Image
        OBVIOUS
    <2>1. uk.pb = None /\ uk'.pb = KernelPb => kpb.img = "fresh"
        <3>1. CASE UkStart
            <4>1. ~uk.stopped
                BY <3>1 DEF UkStart, UkReady
            <4> QED
                BY <3>1, <4>1, UkStartRecord DEF IInv, PbInv
        <3>2. CASE BootReset
            BY <3>2 DEF BootReset, FreshUk
        <3> QED
            BY <3>1, <3>2, UkPbStep
    <2>2. kpb.img = "used" /\ kpb'.img = "fresh" => uk.gpu = None
        <3>1. CASE RunQueue
            <4>1. kpb' # kpb => Up
                BY <3>1 DEF RunQueue
            <4> QED
                BY <3>1, <4>1, RunQueueRecord DEF IInv, GpuInv, AloneInv
        <3>2. CASE UkStart
            BY <3>2 DEF UkStart, IInv, TypeOK, DrmTypes
        <3> QED
            BY <3>1, <3>2, KpbStep
    <2> QED
        BY <2>1, <2>2
<1> QED
    BY <1>1, Invariance, PTL DEF Spec, KpbImage

(* The driver implements the order and the outcomes of SgxRenderQueue:     *)
(* renders start one at a time, those of a file or with a common buffer in *)
(* the order of submission, and no render gets a second outcome, however   *)
(* the poller, the timeout and the scheduler interleave.                   *)
THEOREM PromiseKept == Spec => KeepsPromise
<1>1. Init => RenderQueue!Init
    BY DEF Init, RenderQueue!Init
<1>2. IInv /\ [Next]_vars => [RenderQueue!Next]_(RenderQueue!vars)
    BY PromiseStep
<1> QED
    BY <1>1, <1>2, Invariance, PTL DEF Spec, KeepsPromise, RenderQueue!Spec
=============================================================================
