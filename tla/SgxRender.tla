------------------------------ MODULE SgxRender ------------------------------
(***************************************************************************)
(* The render node of the A5's PowerVR SGX543MP2: how a submitted render   *)
(* gets to the GPU, how the driver learns that it ended, and what happens  *)
(* when it does not.  Source: apple_sgx_drm.c and the start of the         *)
(* microkernel in apple_sgx_hw.c                                           *)
(* (devices/a5/patches/files/drivers/gpu/drm/apple-sgx/).                  *)
(*                                                                         *)
(* Processes, interleaved at their lock boundaries:                        *)
(*   - the files: open (which may start the microkernel), submit, close;   *)
(*   - the DRM scheduler's run worker, which calls sgx_job_run;            *)
(*   - the poller, a soft hrtimer (sgx_poll), and the rekick work;         *)
(*   - the scheduler's timeout worker, which calls sgx_job_timedout;       *)
(*   - the scheduler's free worker (sgx_job_free);                         *)
(*   - the boot work of the probe, and debugfs's "boot" and "power";       *)
(*   - the microkernel and the GPU (external).                             *)
(*                                                                         *)
(* A start of the microkernel is three steps under sgx->lock, because the  *)
(* rest of the driver reads boot_result and boots without that lock.       *)
(***************************************************************************)
EXTENDS Naturals, Sequences

CONSTANTS
    Files,        \* the DRM files (each is opened once)
    Jobs,         \* the renders that may be submitted
    Shapes,       \* what a submit may say: records [file, pb, det, bos, sync]
    Pbs, Dets,    \* parameter buffer objects; render details words
    KernelPb,     \* the kernel's own parameter buffer
    None,
    Autoboot,     \* module parameter: start the microkernel at probe
    MaxRekicks,   \* SGX_MAX_REKICKS
    MaxLost,      \* bound: TA commands a microkernel start leaves unread
    MaxDebugBoots,\* bound: no debugfs boot from this many starts on
    GpuHangs,     \* the microkernel may stop answering
    BootFails,    \* a start of the microkernel may fail
    TimeoutFires, \* the scheduler's timeout may fire
    SlowRun       \* ... while sgx_job_run still runs

Owners == Files \cup {"boot_work", "run_job", "timedout", "debugfs"}

ASSUME RenderConstants ==
    /\ Shapes \subseteq [file : Files, pb : Pbs, det : Dets, bos : SUBSET Dets, sync : BOOLEAN]
    /\ KernelPb \in Pbs
    /\ None \notin Jobs /\ None \notin Pbs /\ None \notin Owners /\ None \notin Nat
    /\ None \notin Shapes
    /\ Files \cap {"boot_work", "run_job", "timedout", "debugfs"} = {}
    /\ MaxRekicks \in Nat /\ MaxLost \in Nat /\ MaxDebugBoots \in Nat
    /\ {Autoboot, GpuHangs, BootFails, TimeoutFires, SlowRun} \subseteq BOOLEAN

VARIABLES
    \* the microkernel's start (apple_sgx_hw.c)
    lock,         \* who holds sgx->lock across a start, or None
    boot_result,  \* "off" (0), "up" (1), "failed" (< 0)
    boots,        \* sgx->boots
    bootpc,       \* where the start under the lock is: "none", "begun", "reset"
    bootwork,     \* the probe's work: "no", "queued", "running", "done"
    files,        \* [Files -> {"closed", "booting", "open", "gone"}]
    \* renders and the scheduler
    submitted, num, shape, queued, current, fin,   \* as in SgxRenderQueue
    waits,        \* submitted renders whose in_syncs have not signalled
    fence,        \* [Jobs -> {"none", "pending", "ok", "failed"}], what run_job returned
    parent,       \* renders whose s_fence->parent is set: the scheduler hears of the fence
    pending,      \* the scheduler's pending_list
    held,         \* renders not released: their buffers are held
    stopped,      \* between drm_sched_stop and drm_sched_start
    run,          \* the run worker: "idle", "check", "restart", "boot", "queue", "fence"
    tdr,          \* the timeout worker: [pc, job, hw, guilty]
    \* struct apple_sgx_drm
    active,       \* sdrm->active
    watch,        \* its fields [ta, rekicks, at]: ta_done, rekicks, ccb_at
    timer,        \* the poll hrtimer is armed
    polled,       \* the render whose fence the poller took and has not signalled
    rekick,       \* the rekick work is queued
    pb,           \* [serial, boots]: pb_serial (None = 0), pb_boots
    kpb,          \* [boots, img]: kpb_boots (None = UINT_MAX), the image in memory
    \* the GPU's side
    done,         \* the scratch word: the render whose completion value it holds
    d24,          \* [Dets -> BOOLEAN], the word at +0x24 is not 0
    uk,           \* the microkernel (FreshUk)
    ended         \* renders whose 3D pass ended

bootVars == <<lock, boot_result, boots, bootpc, bootwork, files>>
jobVars == <<submitted, num, shape, queued, current, fin, waits, fence, parent, pending, held>>
drmVars == <<active, watch, timer, polled, rekick, pb, kpb>>
gpuVars == <<done, d24, uk, ended>>
vars == <<bootVars, jobVars, stopped, run, tdr, drmVars, gpuVars>>

NoTdr == [pc |-> "idle", job |-> None, hw |-> FALSE, guilty |-> FALSE]
NoWatch == [ta |-> FALSE, rekicks |-> 0, at |-> 0]

(* A reset GPU, its microkernel not started: the render queue is empty.    *)
(* ring: what was queued since, rd: how many of it the microkernel read,   *)
(* kick: a TA command was taken and the queue not looked at yet, gpu: the  *)
(* render it works on, ta: its TA is done, pb: the parameter buffer whose  *)
(* state the microkernel keeps, lost: TA commands it forgot.               *)
FreshUk == [ring |-> <<>>, rd |-> 0, kick |-> FALSE, gpu |-> None, ta |-> FALSE,
            stopped |-> TRUE, pb |-> None, lost |-> 0]

Init ==
    /\ lock = None /\ boot_result = "off" /\ boots = 0 /\ bootpc = "none"
    /\ bootwork = "no" /\ files = [f \in Files |-> "closed"]
    /\ submitted = 0 /\ num = [j \in Jobs |-> 0] /\ shape = [j \in Jobs |-> None]
    /\ queued = {} /\ current = None /\ fin = [j \in Jobs |-> "none"]
    /\ waits = {} /\ fence = [j \in Jobs |-> "none"] /\ parent = {} /\ pending = {}
    /\ held = {} /\ stopped = FALSE /\ run = "idle" /\ tdr = NoTdr
    /\ active = None /\ watch = NoWatch /\ timer = FALSE /\ polled = None /\ rekick = FALSE
    /\ pb = [serial |-> None, boots |-> 0] /\ kpb = [boots |-> None, img |-> "used"]
    /\ done = None /\ d24 = [d \in Dets |-> FALSE] /\ uk = FreshUk /\ ended = {}

Up == boot_result = "up"
OpenFiles == {f \in Files : files[f] = "open"}      \* sdrm->clients counts them
Unread == uk.rd < Len(uk.ring)

-----------------------------------------------------------------------------
(* sgx_boot, with sgx->lock held from the first step to the last. *)

BeginBoot(owner) ==
    /\ lock = None
    /\ lock' = owner
    /\ boot_result' = "off"
    /\ bootpc' = "begun"

(* sgx_init and sgx_uk_fill: the GPU reset, every queue and the scratch    *)
(* buffer as new.  The render details are in the clients' buffers: kept.   *)
BootReset ==
    /\ bootpc = "begun"
    /\ bootpc' = "reset"
    /\ uk' = FreshUk
    /\ done' = None
    /\ UNCHANGED <<lock, boot_result, boots, bootwork, files, jobVars, stopped, run, tdr,
                   drmVars, d24, ended>>

(* The end of sgx_boot, and the caller's next step.  A start may fail      *)
(* before the reset (no firmware file, no memory) or after it (no answer). *)
BootDone(ok) ==
    /\ bootpc = "reset" \/ (bootpc = "begun" /\ ~ok)
    /\ BootFails \/ ok
    /\ bootpc' = "none"
    /\ lock' = None
    /\ boot_result' = IF ok THEN "up" ELSE "failed"
    /\ boots' = boots + 1
    /\ uk' = [uk EXCEPT !.stopped = @ /\ ~ok]
    /\ run' = IF lock = "run_job" THEN "queue" ELSE run
    /\ tdr' = IF lock = "timedout" THEN [tdr EXCEPT !.pc = "start"] ELSE tdr
    /\ files' = IF lock \in Files THEN [files EXCEPT ![lock] = "open"] ELSE files
    /\ bootwork' = IF lock = "boot_work" THEN "done" ELSE bootwork
    /\ UNCHANGED <<jobVars, stopped, drmVars, done, d24, ended>>

(* The end of apple_sgx_probe: the render node is there already. *)
Probe ==
    /\ Autoboot
    /\ bootwork = "no"
    /\ bootwork' = "queued"
    /\ UNCHANGED <<lock, boot_result, boots, bootpc, files, jobVars, stopped, run, tdr,
                   drmVars, gpuVars>>

BootWork ==
    /\ bootwork = "queued"
    /\ BeginBoot("boot_work")
    /\ bootwork' = "running"
    /\ UNCHANGED <<boots, files, jobVars, stopped, run, tdr, drmVars, gpuVars>>

(* debugfs "boot": refused while the render node has clients *)
DebugBoot ==
    /\ OpenFiles = {}
    /\ boots < MaxDebugBoots
    /\ BeginBoot("debugfs")
    /\ UNCHANGED <<boots, bootwork, files, jobVars, stopped, run, tdr, drmVars, gpuVars>>

(* debugfs "power 1": the microkernel stops, until its next start *)
DebugPowerOff ==
    /\ OpenFiles = {}
    /\ boots < MaxDebugBoots
    /\ lock = None
    /\ Up /\ ~uk.stopped
    /\ boot_result' = "off"
    /\ uk' = [uk EXCEPT !.stopped = TRUE]
    /\ UNCHANGED <<lock, boots, bootpc, bootwork, files, jobVars, stopped, run, tdr, drmVars,
                   done, d24, ended>>

-----------------------------------------------------------------------------
(* The files. *)

(* sgx_open: with the boot work done or never queued, the microkernel is   *)
(* started if boot_result says that nothing ever did.                      *)
Open(f) ==
    /\ files[f] = "closed"
    /\ bootwork \notin {"queued", "running"}
    /\ files' = [files EXCEPT ![f] = IF boot_result = "off" THEN "booting" ELSE "open"]
    /\ UNCHANGED <<lock, boot_result, boots, bootpc, bootwork, jobVars, stopped, run, tdr,
                   drmVars, gpuVars>>

OpenBoot(f) ==
    /\ files[f] = "booting"
    /\ BeginBoot(f)
    /\ UNCHANGED <<boots, bootwork, files, jobVars, stopped, run, tdr, drmVars, gpuVars>>

(* sgx_ioctl_submit and sgx_job_push *)
Submit(j, s) ==
    /\ files[s.file] = "open"
    /\ Up
    /\ num[j] = 0
    /\ submitted' = submitted + 1
    /\ num' = [num EXCEPT ![j] = submitted']
    /\ shape' = [shape EXCEPT ![j] = s]
    /\ queued' = queued \cup {j}
    /\ waits' = IF s.sync THEN waits \cup {j} ELSE waits
    /\ held' = held \cup {j}
    /\ UNCHANGED <<bootVars, current, fin, fence, parent, pending, stopped, run, tdr,
                   drmVars, gpuVars>>

(* An in_sync that is no render's (a page flip's, another driver's). *)
InSync(j) ==
    /\ j \in waits
    /\ waits' = waits \ {j}
    /\ UNCHANGED <<bootVars, submitted, num, shape, queued, current, fin, fence, parent, pending,
                   held, stopped, run, tdr, drmVars, gpuVars>>

(* sgx_postclose.  drm_sched_entity_destroy waits for a run_job of the     *)
(* file's that is under way, and fails what is queued; it does not wait    *)
(* for the render on the GPU.                                              *)
Close(f) ==
    /\ files[f] = "open"
    /\ run # "idle" => shape[current].file # f
    /\ files' = [files EXCEPT ![f] = "gone"]
    /\ LET js == {j \in queued : shape[j].file = f} IN
       /\ queued' = queued \ js
       /\ waits' = waits \ js
       /\ held' = held \ js
       /\ fin' = [j \in Jobs |-> IF j \in js THEN "failed" ELSE fin[j]]
    /\ UNCHANGED <<lock, boot_result, boots, bootpc, bootwork, submitted, num, shape, current,
                   fence, parent, pending, stopped, run, tdr, drmVars, gpuVars>>

-----------------------------------------------------------------------------
(* The run worker: the DRM scheduler has room for one render. *)

ConflictByFile(s, t) == s.file = t.file              \* mutant
Conflict(s, t) == s.file = t.file \/ s.bos \cap t.bos # {}

(* At the head of its file's queue, and no dependency is left. *)
Ready(j) ==
    /\ j \in queued \ waits
    /\ \A i \in queued : num[i] < num[j] => ~Conflict(shape[i], shape[j])

RunPop(j) ==
    /\ ~stopped
    /\ run = "idle"
    /\ current = None
    /\ Ready(j)
    /\ \A i \in queued : Ready(i) => num[j] <= num[i]
    /\ queued' = queued \ {j}
    /\ current' = j
    /\ pending' = pending \cup {j}
    /\ run' = "check"
    /\ UNCHANGED <<bootVars, submitted, num, shape, fin, waits, fence, parent, held, stopped,
                   tdr, drmVars, gpuVars>>

NewPbOldStart(j) == pb.serial # None /\ pb.serial # shape[j].pb /\ pb.boots # boots  \* mutant

(* pb_restart: another parameter buffer than the one this start saw last *)
NewPb(j) ==
    /\ pb.serial # None
    /\ pb.serial # shape[j].pb
    /\ pb.boots = boots

RunCheck ==
    /\ run = "check"
    /\ run' = IF NewPb(current) THEN "restart" ELSE "queue"
    /\ UNCHANGED <<bootVars, jobVars, stopped, tdr, drmVars, gpuVars>>

RunRestart ==
    /\ run = "restart"
    /\ BeginBoot("run_job")
    /\ run' = "boot"
    /\ UNCHANGED <<boots, bootwork, files, jobVars, stopped, tdr, drmVars, gpuVars>>

KpbNeverMade == kpb.boots = None                    \* mutant
KpbStale == kpb.boots # boots

(* The rest of sgx_job_run, under sgx->lock, with apple_sgx_render_queue.  *)
(* A stopped microkernel does not take the TA command: the render is in    *)
(* its queue all the same.                                                 *)
RunQueue ==
    /\ run = "queue"
    /\ lock = None
    /\ run' = "fence"
    /\ LET taken == Up /\ ~uk.stopped IN
       /\ fence' = [fence EXCEPT ![current] = IF taken THEN "pending" ELSE "failed"]
       /\ kpb' = IF Up /\ shape[current].pb = KernelPb /\ KpbStale
                 THEN [boots |-> boots, img |-> "fresh"] ELSE kpb
       /\ done' = IF Up THEN None ELSE done
       /\ uk' = IF Up THEN [uk EXCEPT !.ring = Append(@, current), !.kick = taken] ELSE uk
       /\ pb' = IF taken THEN [serial |-> shape[current].pb, boots |-> boots] ELSE pb
       /\ active' = IF taken THEN current ELSE active
       /\ watch' = IF taken THEN [ta |-> FALSE, rekicks |-> 0, at |-> Len(uk.ring)] ELSE watch
       /\ timer' = (timer \/ taken)
    /\ UNCHANGED <<bootVars, submitted, num, shape, queued, current, fin, waits, parent, pending,
                   held, stopped, tdr, polled, rekick, d24, ended>>

FenceSignalled == fence[current] # "pending"

(* The scheduler takes the fence: it hears when it signals, or sees that   *)
(* it has.                                                                 *)
RunFence ==
    /\ run = "fence"
    /\ run' = "idle"
    /\ parent' = parent \cup {current}
    /\ IF FenceSignalled
       THEN /\ fin' = [fin EXCEPT ![current] = fence[current]]
            /\ current' = None
       ELSE UNCHANGED <<current, fin>>
    /\ UNCHANGED <<bootVars, submitted, num, shape, queued, waits, fence, pending, held, stopped,
                   tdr, drmVars, gpuVars>>

(* The scheduler's free worker: sgx_job_free *)
FreeJob(j) ==
    /\ ~stopped
    /\ j \in pending
    /\ fin[j] # "none"
    /\ pending' = pending \ {j}
    /\ held' = held \ {j}
    /\ UNCHANGED <<bootVars, submitted, num, shape, queued, current, fin, waits, fence, parent,
                   stopped, run, tdr, drmVars, gpuVars>>

-----------------------------------------------------------------------------
(* The poller and the rekick work. *)

TaIgnored == TRUE                                   \* mutant: +0x24 alone
TaSeen == watch.ta \/ done = active

DetailsIgnored == TRUE                              \* mutant: the TA's value alone
DetailsClear == ~d24[shape[active].det]

RekickOnceMore == watch.rekicks <= MaxRekicks       \* mutant
RekickLeft == watch.rekicks < MaxRekicks

WaitingRead == uk.rd # watch.at /\ DetailsClear     \* mutant
(* apple_sgx_render_waiting: not read, and not started *)
Waiting == uk.rd = watch.at /\ DetailsClear

(* A timer that is armed has a render to look at: sgx_poll never takes     *)
(* its way out without one.                                                *)
PollTa ==
    /\ timer /\ polled = None
    /\ active # None
    /\ TaSeen /\ ~DetailsClear
    /\ watch' = [watch EXCEPT !.ta = TRUE]
    /\ UNCHANGED <<bootVars, jobVars, stopped, run, tdr, active, timer, polled, rekick, pb, kpb,
                   gpuVars>>

PollDone ==
    /\ timer /\ polled = None
    /\ active # None
    /\ TaSeen /\ DetailsClear
    /\ watch' = NoWatch
    /\ polled' = active
    /\ active' = None
    /\ timer' = FALSE
    /\ UNCHANGED <<bootVars, jobVars, stopped, run, tdr, rekick, pb, kpb, gpuVars>>

(* Only once rekick_ms have passed since the last TA, which a microkernel  *)
(* that answers has looked at long before.                                 *)
PollRekick ==
    /\ timer /\ polled = None
    /\ active # None
    /\ ~TaSeen
    /\ uk.kick => uk.stopped
    /\ RekickLeft
    /\ Waiting
    /\ watch' = [watch EXCEPT !.rekicks = @ + 1]
    /\ rekick' = TRUE
    /\ UNCHANGED <<bootVars, jobVars, stopped, run, tdr, active, timer, polled, pb, kpb, gpuVars>>

(* dma_fence_signal, out of the lock: the scheduler's callback, if it is   *)
(* on the fence, finishes the render.                                      *)
PollSignal ==
    /\ polled # None
    /\ fence' = [fence EXCEPT ![polled] = "ok"]
    /\ polled' = None
    /\ IF polled \in parent
       THEN /\ fin' = [fin EXCEPT ![polled] = "ok"]
            /\ current' = None
       ELSE UNCHANGED <<fin, current>>
    /\ UNCHANGED <<bootVars, submitted, num, shape, queued, waits, parent, pending, held, stopped,
                   run, tdr, active, watch, timer, rekick, pb, kpb, gpuVars>>

(* sgx_rekick_work, and apple_sgx_render_rekick *)
Rekick ==
    /\ rekick
    /\ lock = None
    /\ rekick' = FALSE
    /\ uk' = IF active # None /\ ~watch.ta /\ Waiting /\ Up /\ ~uk.stopped
             THEN [uk EXCEPT !.kick = Unread] ELSE uk
    /\ UNCHANGED <<bootVars, jobVars, stopped, run, tdr, active, watch, timer, polled, pb, kpb,
                   done, d24, ended>>

-----------------------------------------------------------------------------
(* The timeout worker. *)

(* drm_sched_job_timedout takes the first pending render off the list --   *)
(* one that finished and is not freed yet comes before the current one --  *)
(* and sgx_job_timedout returns at once if its fence is not there or has   *)
(* signalled; nobody puts it back then.                                    *)
TdrFire(j) ==
    /\ TimeoutFires
    /\ SlowRun \/ run = "idle"
    /\ tdr.pc = "idle" /\ ~stopped
    /\ j \in pending
    /\ fin[j] = "none" => \A i \in pending : fin[i] = "none"
    /\ pending' = pending \ {j}
    /\ tdr' = IF j \in parent /\ fence[j] = "pending"
              THEN [tdr EXCEPT !.pc = "stop", !.job = j] ELSE tdr
    /\ UNCHANGED <<bootVars, submitted, num, shape, queued, current, fin, waits, fence, parent,
                   held, stopped, run, drmVars, gpuVars>>

(* drm_sched_stop: the workers stand still, the render goes back on the    *)
(* list, and the scheduler lets go of every fence that has not signalled;  *)
(* renders whose fence has are freed, the timed-out one later ("guilty").  *)
TdrStop ==
    /\ tdr.pc = "stop"
    /\ run = "idle"
    /\ LET list == pending \cup {tdr.job}
           detached == {j \in list : j \in parent /\ fence[j] = "pending"} IN
       /\ parent' = parent \ detached
       /\ pending' = detached
       /\ held' = held \ (list \ (detached \cup {tdr.job}))
       /\ tdr' = [tdr EXCEPT !.pc = "take", !.guilty = tdr.job \notin detached]
    /\ stopped' = TRUE
    /\ UNCHANGED <<bootVars, submitted, num, shape, queued, current, fin, waits, fence, run,
                   drmVars, gpuVars>>

(* hrtimer_cancel waits for the poller; then the render is taken from it. *)
TdrTake ==
    /\ tdr.pc = "take"
    /\ polled = None
    /\ timer' = FALSE
    /\ tdr' = [tdr EXCEPT !.pc = "restart", !.hw = (active = tdr.job)]
    /\ active' = IF active = tdr.job THEN None ELSE active
    /\ watch' = IF active = tdr.job THEN NoWatch ELSE watch
    /\ UNCHANGED <<bootVars, jobVars, stopped, run, polled, rekick, pb, kpb, gpuVars>>

TdrNoRestart ==                                     \* mutant
    /\ tdr.pc = "restart"
    /\ tdr' = [tdr EXCEPT !.pc = "start"]
    /\ UNCHANGED <<bootVars, jobVars, stopped, run, drmVars, gpuVars>>

TdrRestart ==
    /\ tdr.pc = "restart"
    /\ BeginBoot("timedout")
    /\ tdr' = [tdr EXCEPT !.pc = "boot"]
    /\ UNCHANGED <<boots, bootwork, files, jobVars, stopped, run, drmVars, gpuVars>>

TdrNoStart ==                                       \* mutant
    /\ tdr.pc = "start"
    /\ fence' = IF tdr.hw THEN [fence EXCEPT ![tdr.job] = "failed"] ELSE fence
    /\ tdr' = NoTdr
    /\ UNCHANGED <<bootVars, submitted, num, shape, queued, current, fin, waits, parent, pending,
                   held, stopped, run, drmVars, gpuVars>>

(* The fence fails; drm_sched_start cancels what drm_sched_stop detached. *)
TdrStart ==
    /\ tdr.pc = "start"
    /\ fence' = IF tdr.hw THEN [fence EXCEPT ![tdr.job] = "failed"] ELSE fence
    /\ fin' = [j \in Jobs |-> IF j \in pending THEN "failed" ELSE fin[j]]
    /\ current' = IF current \in pending THEN None ELSE current
    /\ held' = IF tdr.guilty THEN held \ {tdr.job} ELSE held
    /\ stopped' = FALSE
    /\ tdr' = NoTdr
    /\ UNCHANGED <<bootVars, submitted, num, shape, queued, waits, parent, pending, run, drmVars,
                   gpuVars>>

-----------------------------------------------------------------------------
(* The microkernel and the GPU. *)

UkReady == ~uk.stopped /\ uk.gpu = None /\ uk.kick /\ Unread

UkStart ==
    /\ UkReady
    /\ LET j == uk.ring[uk.rd + 1] IN
       /\ uk' = [uk EXCEPT !.rd = @ + 1, !.gpu = j, !.ta = FALSE, !.pb = shape[j].pb,
                           !.kick = uk.rd + 1 < Len(uk.ring)]
       /\ d24' = [d24 EXCEPT ![shape[j].det] = TRUE]
       /\ kpb' = IF shape[j].pb = KernelPb THEN [kpb EXCEPT !.img = "used"] ELSE kpb
    /\ UNCHANGED <<bootVars, jobVars, stopped, run, tdr, active, watch, timer, polled, rekick,
                   pb, done, ended>>

UkTaDone ==
    /\ ~uk.stopped /\ uk.gpu # None /\ ~uk.ta
    /\ uk' = [uk EXCEPT !.ta = TRUE]
    /\ done' = uk.gpu
    /\ UNCHANGED <<bootVars, jobVars, stopped, run, tdr, drmVars, d24, ended>>

UkEnd ==
    /\ ~uk.stopped /\ uk.gpu # None /\ uk.ta
    /\ uk' = [uk EXCEPT !.gpu = None]
    /\ d24' = [d24 EXCEPT ![shape[uk.gpu].det] = FALSE]
    /\ ended' = ended \cup {uk.gpu}
    /\ UNCHANGED <<bootVars, jobVars, stopped, run, tdr, drmVars, done>>

(* Now and then it takes the TA command and leaves the render unread. *)
UkLose ==
    /\ UkReady
    /\ uk.lost < MaxLost
    /\ uk' = [uk EXCEPT !.kick = FALSE, !.lost = @ + 1]
    /\ UNCHANGED <<bootVars, jobVars, stopped, run, tdr, drmVars, done, d24, ended>>

UkHang ==
    /\ GpuHangs
    /\ ~uk.stopped
    /\ uk' = [uk EXCEPT !.stopped = TRUE]
    /\ UNCHANGED <<bootVars, jobVars, stopped, run, tdr, drmVars, done, d24, ended>>

-----------------------------------------------------------------------------
Boot == BootReset \/ \E ok \in BOOLEAN : BootDone(ok)
Debug == DebugBoot \/ DebugPowerOff
File(f) == Open(f) \/ OpenBoot(f) \/ Close(f)
Run == (\E j \in Jobs : RunPop(j)) \/ RunCheck \/ RunRestart \/ RunQueue \/ RunFence
Poll == PollTa \/ PollDone \/ PollRekick \/ PollSignal
Timeout == (\E j \in Jobs : TdrFire(j)) \/ TdrStop \/ TdrTake \/ TdrRestart \/ TdrStart
Uk == UkStart \/ UkTaDone \/ UkEnd

Next ==
    \/ Probe \/ BootWork \/ Boot \/ Debug
    \/ \E f \in Files : File(f)
    \/ \E j \in Jobs, s \in Shapes : Submit(j, s)
    \/ \E j \in Jobs : InSync(j)
    \/ Run
    \/ \E j \in Jobs : FreeJob(j)
    \/ Poll \/ Rekick
    \/ Timeout
    \/ Uk \/ UkLose \/ UkHang

Spec == Init /\ [][Next]_vars

-----------------------------------------------------------------------------
Phases == {"idle", "check", "restart", "boot", "queue", "fence"}
TdrPhases == {"idle", "stop", "take", "restart", "boot", "start"}

BootTypes ==
    /\ lock \in Owners \cup {None} /\ boot_result \in {"off", "up", "failed"} /\ boots \in Nat
    /\ bootpc \in {"none", "begun", "reset"} /\ bootwork \in {"no", "queued", "running", "done"}
    /\ files \in [Files -> {"closed", "booting", "open", "gone"}]

JobTypes ==
    /\ submitted \in Nat /\ num \in [Jobs -> Nat] /\ shape \in [Jobs -> Shapes \cup {None}]
    /\ queued \subseteq Jobs /\ current \in Jobs \cup {None} /\ waits \subseteq Jobs
    /\ fin \in [Jobs -> {"none", "ok", "failed"}]
    /\ fence \in [Jobs -> {"none", "pending", "ok", "failed"}]
    /\ parent \subseteq Jobs /\ pending \subseteq Jobs /\ held \subseteq Jobs

SchedTypes ==
    /\ stopped \in BOOLEAN /\ run \in Phases
    /\ tdr \in [pc : TdrPhases, job : Jobs \cup {None}, hw : BOOLEAN, guilty : BOOLEAN]

DrmTypes ==
    /\ active \in Jobs \cup {None} /\ polled \in Jobs \cup {None}
    /\ watch \in [ta : BOOLEAN, rekicks : 0..MaxRekicks, at : Nat]
    /\ timer \in BOOLEAN /\ rekick \in BOOLEAN
    /\ pb \in [serial : Pbs \cup {None}, boots : Nat]
    /\ kpb \in [boots : Nat \cup {None}, img : {"fresh", "used"}]

Uks == [ring : Seq(Jobs), rd : Nat, kick : BOOLEAN, gpu : Jobs \cup {None}, ta : BOOLEAN,
        stopped : BOOLEAN, pb : Pbs \cup {None}, lost : 0..MaxLost]

GpuTypes ==
    /\ done \in Jobs \cup {None} /\ d24 \in [Dets -> BOOLEAN] /\ ended \subseteq Jobs
    /\ uk \in Uks

TypeOK == BootTypes /\ JobTypes /\ SchedTypes /\ DrmTypes /\ GpuTypes

(* A render's fence signals without an error only after its 3D pass ended: *)
(* sgx_poll asks for the TA's completion value AND the cleared +0x24.      *)
FenceHonest == \A j \in Jobs : fin[j] = "ok" => j \in ended

(* What the microkernel has to do, read or not. *)
OnGpu == {uk.ring[i] : i \in (uk.rd + 1)..Len(uk.ring)} \cup ({uk.gpu} \ {None})

(* The kernel's parameter buffer and the completion word are shared with   *)
(* no lock against the GPU: that is sound because a running microkernel    *)
(* only ever has the render that the scheduler believes is running.        *)
RenderAlone == Up /\ ~uk.stopped => OnGpu \subseteq {current}

(* A microkernel that is up works on no render whose buffers were let go   *)
(* (sgx_job_timedout restarts it before the fence fails).                  *)
BuffersHeld == Up /\ uk.gpu # None => uk.gpu \in held

(* pb_restart: between two starts the microkernel works with one parameter *)
(* buffer object (sgx_job_run looks at pb_serial and pb_boots before it    *)
(* takes the lock, and boots counts the starts that failed too).           *)
PbFresh == [][uk'.pb = uk.pb \/ uk.pb = None \/ uk'.pb = None]_vars

(* A microkernel start that first meets the kernel's parameter buffer      *)
(* finds its image as new, and the image is never written under a render.  *)
KpbImage ==
    [][/\ uk.pb = None /\ uk'.pb = KernelPb => kpb.img = "fresh"
       /\ kpb.img = "used" /\ kpb'.img = "fresh" => uk.gpu = None]_vars

RenderQueue == INSTANCE SgxRenderQueue

(* The driver keeps the promise of the uAPI: order, and one outcome. *)
KeepsPromise == RenderQueue!Spec

(* A render that was submitted gets an outcome, whatever the GPU does: one *)
(* that does not finish in time restarts the microkernel and fails         *)
(* (sgx_job_timedout).                                                     *)
EveryRenderEnds == \A j \in Jobs : num[j] # 0 ~> fin[j] # "none"

(* A render the microkernel left unread is kicked again: when nothing      *)
(* times out, hangs or fails to start, and the GPU gets on with what it    *)
(* reads, every started render ends well (sgx_poll, sgx_rekick_work).      *)
LostKickRecovered == \A j \in Jobs : current = j ~> fin[j] = "ok"

(* sgx_open starts the microkernel for the first client, when nothing runs *)
(* yet: its start never takes the queue from under a render.               *)
OpenSparesRenders ==
    [][bootpc = "begun" /\ bootpc' = "reset" /\ lock \in Files => OnGpu = {}]_vars

(* "active" is the render on the GPU: never one that was released.         *)
ActiveHeld == active # None => active \in held

(* The buffers a render lists stay until the GPU is done with it.          *)
BuffersStay == uk.gpu # None => uk.gpu \in held
=============================================================================
