# Cascadia in TLA+

A verification project for Project Cascadia (Linux on iPads with the A5, A12 and
A13 chips): TLA+ specifications of its drivers, translated from their source,
checked by TLC on small instances and proved about with TLAPS. Paths below are
those of the repository; `apple-sgx/` stands for
`devices/a5/patches/files/drivers/gpu/drm/apple-sgx/`.

## The system

What Cascadia adds to the kernels it builds is a set of drivers, most of them for
the A5 (a dual Cortex-A9 with a PowerVR SGX543MP2), with a Mesa driver, boot loader
patches and host scripts around them.

| Part | State | Operations | Interacts through | What is hard |
|---|---|---|---|---|
| SGX render node, `apple_sgx_drm.c` | `active`, `poll`, `rekick`, `pb_serial`/`pb_boots`, `kpb_boots`, clients, the scheduler's jobs | open, submit, run, poll, rekick, time out, free, close | `sgx->lock`, `job_lock`, the DRM scheduler, the microkernel's render ring and words it writes | a timeout against a completion, restarts under renders, lost kicks, a start that fails |
| SGX core, `apple_sgx_hw.c` | `boot_result`, `boots`, rings, page tables, `mmu_dirty`, `blt_*`, `irq_on` | start, restart, send a command, queue a render or a copy, map, interrupt, debugfs | `sgx->lock`, `ccb_lock`, `blt_lock`, shared memory | the 2D engine shared by four callers, one of which cannot sleep; invalidations; offsets that wrap |
| SGX screen, `apple_sgx_kms.c` | the plane's framebuffer, the overlay (`ov_*`), the vblank timer | commit, overlay ioctl, vblank | `apple_sgx_fb_show`, `apple_sgx_blt_sync`, `ov_lock` | the flip's event goes before its copy is done; memory must outlive the copy |
| AIC1, `irq-apple-aic1.c` | masks, virtual IPI flags | event loop, send and handle an IPI, timer | `ipi_mux`, two CPUs | an acknowledge that lands late loses an IPI for good |
| CPU1, `platsmp.c` | one trampoline word | start, idle power-down, die, kill | the reset page, the PMGR | one word with three writers |
| I2C, `i2c-s5l8940x.c` | `msg`, `tx_ptr`, `compl_ptr`, `done`, `error` | transfer (polled), interrupt | `i2c->lock`, the controller | poller and interrupt run one handler, which looks at `msg` before it has the lock |
| Z2 touch, `apple-z2.c` | `ready`, `read_tag`, `misc_dev_inuse` | open, boot, read frames, release | SPI, an edge-triggered line | a line left low has no edge to come |
| HID over SPI touch (A12, A13) | `down`, `prev`, slots | poll, report | SPI | taps that fall between two polls |
| USB charger, `apple-pmu-charger.c` | `req_ma`, `ceiling`, `last_written`, `was_armed`, `hot` | poll and ramp, set the limit, arm | the PMU's register, the battery gauge | a sag found late, a write that fails |
| Battery, audio | cached values, DMA pointers | refresh, property, trigger | their locks | values read after an unlock |
| NAND, clocks, pins, PMU, PHY, backlight | registers | read-modify-write | one lock each | little order to check |
| Mesa driver, `gallium/drivers/sgx/` | GPU copies, the cache of buffers, batches, places of programs, a shader's temporaries | map, draw, flush, delete, compile | the render node's ioctls, contexts that share a screen | memory written, reused or let go while renders read it |
| Screenpad | command streams | overlay | the overlay's ioctl | a client: inputs here |
| Host scripts, boot tools, loader patches | files, USB | sequential | an external device | no concurrency |

What makes each part correct: a fence that signals means that the render ended and
its buffers may be used or freed; the GPU never works on memory that went; every
render and every draw comes back; a job's parameters are its own (SGX). No IPI is
lost, each event read is handled (AIC1). CPU1 wakes where it was sent (SMP). Each
transfer completes with its own message's result (I2C; the code keeps this from every
handler but a late one). Every frame is read in the
end (Z2), no tap reported twice and none left down (HID). The limit ends at what the
source gives (charger). The not-modelled components, with reasons,
are listed in `PROJECT.json` beside the modelled ones; so are the hazards, each at
its line with the properties that cover it.

## Modules

| Module | What |
|---|---|
| `SgxRenderQueue` | What the render node promises: order and outcome of renders |
| `SgxRender` | The driver that keeps it: render node, start of the microkernel, DRM scheduler, microkernel |
| `SgxScreen` | Copies onto the screen: 2D engine, commits, overlay, fbcon, debugfs, starts |
| `SgxKick` | How work reaches the microkernel: both rings, the kernel CCB, the MMU's invalidation |
| `SgxFbCopy` | fbcon's moves of rectangles over themselves |
| `SgxDraws` | What a gallium driver promises of what draws read |
| `SgxBuffers` | The driver that keeps it: GPU copies, the cache, batches |
| `SgxPlaces` | The places of programs in GPU memory, end-of-tile slots |
| `SgxRegs` | The compiler's temporaries |
| `AppleAic1` | IPIs over posted writes, and a device's line |
| `AppleSmp` | CPU1's trampoline |
| `AppleI2c` | I2C messages, polled and by interrupt, and combined reads |
| `AppleZ2` | The Z2's frames and its edge |
| `HidSpiTouch` | Taps against polls |
| `AppleCharger` | The charger's limit |
| `SgxRender_proofs`, `SgxScreen_proofs`, `SgxKick_proofs`, `SgxBuffers_proofs`, `SgxPlaces_proofs`, `SgxRegs_proofs`, `AppleAic1_proofs` | Theorems about the module of that name |
| `AppleDrivers_proofs` | Theorems about `AppleSmp`, `AppleZ2`, `HidSpiTouch`, `AppleCharger`, `AppleI2c`, and about `MCDrivers`, which runs the drivers together |
| `MCSgxRender`, `MCSgxRenderLive`, `MCSgxScreen`, `MCSgxMesa`, `MCDrivers` | Small instances |

A definition marked `\* mutant` is a plausible bug of the definition after it, named
in `PROJECT.json` beside the property that catches it; no model uses it.

### SgxRender

One action per lock-protected stretch of the code, so that other threads interleave
where they can. `lock` is `sgx->lock` and says who holds it; `boot_result`, `boots`
and `bootpc` are a start (`sgx_boot`, whose reset in the middle empties the ring);
`files`, `queued`, `current`, `pending`, `held`, `fence`, `parent`, `waits` are the
scheduler's view of the jobs; `run` and `tdr` are where `sgx_job_run` and
`sgx_job_timedout` are; `active`, `watch`, `timer`, `polled`, `rekick`, `pb`, `kpb`
are the fields of `struct apple_sgx_drm`; `done`, `d24` are the words the GPU writes
(the TA's completion value and the render details' +0x24); `uk` is the microkernel:
its ring, what it reads and runs, and which parameter buffer it has worked with.

`Submit`/`InSync`/`Close` are the client's ioctls; `RunPop` to `RunFence` and
`FreeJob` the scheduler around `sgx_job_run`; `Poll*` the timer `sgx_poll`;
`Rekick` its work item; `Tdr*` the timeout, between whose steps a render can end.
The DRM scheduler is external (`Ready`, `RunPop`, `FenceSignalled`, `RunFence`,
`TdrStop`): modelled as this code uses it, with the semantics of Linux 6.12, which is
the kernel the patches are for.

`KeepsPromise` is refinement: with the identity mapping `SgxRender` implements
`SgxRenderQueue`. The order it promises is that of one file's renders and of renders
that list a common buffer. `include/uapi/drm/apple_sgx_drm.h:35` says more, "in
submission order across all clients"; the scheduler has a queue per file and passes
over one whose first render waits for an `in_sync`, so the abstract specification
promises what `sgx_job_push` arranges.

Left out: buffer objects and their GPU addresses, removal of the device, failures of
allocations, the early return of `sgx_job_run` for a job with
an error, `apple_sgx_render_queue`'s -EBUSY and -EIO, the wrap of `render_seq`.
`pb_restart` and `rekick_ms` are on, as they are by default. debugfs's `rkick` is
left out (it is refused while the node has clients).

### SgxScreen

The 2D engine as its four callers see it. `call[t]` is where caller `t` is in
`sgx_blt_run` (`sync`: waiting for the job before; `run`: about to take `blt_lock`
again; `wait`: for its own job); `seq`, `pending`, `old`, `broken` are `blt_seq`,
`blt_pending`, whether `blt_timeout_ms` passed since `blt_since`, and `blt_broken`.
`Reap` is `sgx_blt_reap`, which every step under the lock begins with. `commit`,
`letgo`, `fb` are the commit worker's tail, the framebuffers its earlier tails wait
to let go of, and the plane's state; `ov`, `ioctl`, `ov_lock`, `left` the overlay.
`bootpc # "none"` is a start, which holds `sgx->lock` throughout, as debugfs' draws
do. The transfer queue `tq` (external) holds the jobs the microkernel has, with the
memory each reads; `scratch` is the completion word.

`Taken` is `sgx_send_cmd`'s wait of 500 ms. With `TakenLate` a microkernel that runs may
take the command after it: the job is in `tq` then and not pending, and the next caller
builds its own in the same pages. `OwnParams` and `ReadsHeld` fail with that (TLC needs
five states), so the run `screen` and the theorems about it take commands to be taken in
time or by no microkernel before a start; the run `screenends` does not.

What is held is counted as if clients dropped their own handles at once, the worst
case. At most one commit older than the newest may wait to let go, which is what
`drm_atomic_helper_setup_commit`'s stall allows.

Left out: geometry, -EINVAL, a full ring (-EBUSY), the vblank timer, modes, the power
command of debugfs. fbcon's moves in bands are `SgxFbCopy`.

### SgxKick

The path of one command: `rings[q]` are the transfer queue and the render CCB with
their write and read offsets; `kccb` the kernel CCB, whose commands (`to`, `inval`)
make the microkernel look at a ring; `call[q]` where the thread is between building a
command (`PutRender`, `PutBlt`), taking `mmu_dirty` (`TakeDirty`), and
`sgx_send_cmd` (`Sending`, `ReadyToSend`, `KickTaken`, `Fails`, which also stands for
500 ms without an answer). `Remap` and `Remapped` are the two halves of
`apple_sgx_mmu_map`/`unmap` under `mmu_lock`; `mmu.seen` is what the GPU's caches hold
(`Looks` fills them, `Forgets` is the invalidation a taken render command carries).
`Wrap`, `Stretch` and `HasRoom` are the offset arithmetic. Left out: the contents of
commands, the 2D job's reads (its kick carries no invalidation, by choice in the
code), the interrupt.

### SgxFbCopy

`move` is what fbcon asks of `sgx_fbcon_copyarea`; `CopyBand` is one pass of the loop
of `sgx_fb_copy_safe`, `OneJob` the move that needs no bands. `Job` is one copy of the
engine, with `Garbage` where it reads what it has written; `Moved` is the reference
move. `CpuCopies` is fbcon's fall-back after a band that failed.

### SgxDraws, SgxBuffers, SgxPlaces

`SgxDraws` is gallium's promise: a render shows each draw what the resource held when
the draw was made. `SgxBuffers` implements it with GPU copies: `copy[r]` are a
resource's fields (`bo`, dirty parts, `dirty_sync`, `tw_writes`, `tw_cpu`), `pool` the
buffer objects and the cache (`refs`, the stamp `batch_ctx`/`batch_seq`, `busy`, what
the memory holds), `batch`, `marks`, `last` a context's gathered draws, the buffers of
a flush that are not marked and let go of yet (`Mark` does it one by one, without
the lock), and its last fence. `Write` to `Unmap` are the transfers,
`GetBuffer` and `GetTexture` the first half of a draw (`sgx_buffer_bo`,
`copy_texture`), `Add` its second, `Submit`, `Mark`, `SubmitFails` the flush. Fences
and `busy` are places in the queue of renders. `Uses` says which resources each context
works with: all, or its own. `DrawsKept` is the refinement:
`Draws == INSTANCE SgxDraws WITH content <- data, gathered <- ..., sent <- ...`.

`SgxPlaces` is `struct sgx_frame`'s code heap: `at` a program's place, `retired` the
places that wait for a fence, `buried` the deleted programs that gathered draws may
use, and the end-of-tile slots. `Flush` and its `FlushBuries` are two steps since
`frame_lock` is let go of between.

### SgxRegs

Writes any shader of an outline, instruction by instruction (`Write...`), then
translates it as `sgx_compiler.c` does and runs the code along any branch. `LastUse`
is the liveness walk (`for_each_read`, `note_use`); `temps` the allocation (`used`,
`loc`, `owned`, the colour's base); each `Translate` step is one instruction of the
code walk, with its releases after it. `regs` is what the temporaries hold: the name
of the value, so that reading a value means finding its name. One instruction stands
for its family: `fmul` (`binary`), `fcsel` (`select_`, whose temporary is written
before its last read), `word` (`define_word`), `tex`, `ubo`, the phi's register
(`decl`, `keep`, `copy`), the colour (`out`), ifs and loops with breaks. Encodings,
modifiers, constants and predicates' values are left out.

### AppleAic1

`mux` is `ipi_mux` (external: the flag of each kind, and which are enabled); `aic` the
controller's two IPIs per CPU with their masks; `posted[c]` the writes that CPU c's
store buffer holds until a barrier or a read (`Drain` lets one out at any time).
`task` is a CPU's sender (`MuxSend` to `Sent`), `irq` where it is in
`aic1_handle_irq`: `ReadIpi`, `IpiAck`, `IpiProcess`, `IpiOpen`. `line` is one device's
line through delivery (which masks it), the kernel's fasteoi flow (`LineRefuse` for a
disabled line; `LineHandle`, `LineEoi` around the device's handler), disable and enable,
and the boot's clearing of targets. `OtherEvent` is an event of the timer or of another
line. Every event ends in `Handled`, the loop's test: at the limit `Stuck` masks the line
that this entry handled last (`line.last` for `last_hw`), whatever the events after it.

The code loses an enabled line in two ways, which two facts of `line` record and
`LineKept` names: `stuck`, masked by an entry at its limit, also when the line fired once
and IPIs or timer events made up the rest; and `cut`, disabled while its handler ran, so
that `aic1_irq_eoi` leaves it masked and `enable_irq`, for which the kernel never masked
it, does too (`disable_irq_nosync` in the SGX's handler does this in a storm). Both end
when the line is unmasked again. `LineKept` says that there is no third way. Left out:
what the timer's handler does, affinities set by the user, FIQs.

### AppleSmp

`tramp` is `TRAMP_TARGET`; `cpu1` where CPU1 is; `hotplug` what CPU0 believes.
`BootSecondary`, `IdleTarget`/`IdleSave`, `CpuDie`, `CpuKill` are `platsmp.c`;
`PmgrOff`, `PmgrOn`, `SmpIrq` the power manager and interrupts. The kernel reports
CPU1 dead before `apple_cpu_die` runs (`TearDown`), so `CpuKill` may come first.

### AppleI2c, AppleZ2, HidSpiTouch, AppleCharger

`AppleI2c`: `xfer` is the caller's loop, `i2cIrq` the interrupt, both of which run
`Service` (`apple_s5l8940x_i2c_irq` under the lock); `bus` is the controller. The
interrupt reads `i2c->msg` in `I2cIrqMsg` and has the lock in `I2cIrqService`, with any
steps of the caller in between, which nothing in the code forbids: the end of the
message, the next one armed, a timeout, another transfer, a combined read. `Service` has
both messages, m that the handler read and c that `continue_read` and `continue_write`
find in `i2c->msg`; a pointer to a transfer that is over (`Gone`) finds anything
(`Stray`, with lengths from `StrayLens`). `XferCombined` to `CombinedTimeout` are the
polled register read, which takes MRXFIFO byte by byte and leaves `i2c->msg` alone, so
that an interrupt left over may drain the FIFO under it.

`late` is a history variable: since the transfer began, a handler has served the
controller with a message that `i2c->msg` was no longer, or that was gone. `DoneIsWhole`
and `NeverStalls` hold until then, and not after: such a handler takes a write's XEN
without counting a byte, and the message waits out its 100 ms, against the comment at
`i2c-s5l8940x.c:323` ("the other finds nothing to do"). A handler that merely waits for
the lock, or comes second, is not late. Messages of no bytes are left out, and the bus's
clock and recovery.

`AppleZ2`: `hxt` is the driver's struct, `thread` the interrupt's, `z2Read` the loop of
`hx_touch_read_all_reports`, taken by either; `z2` the chip and its edge. Left out:
open's failing supplies and its race with another open (see the hazards), the
firmware's words.

`HidSpiTouch`: `frame` is the firmware's last frame, `ts` the driver's bits, `slots`
the input core's; `HsPoll` is `hs_poll` with `report_touches` and its `sync_frame`s.

`AppleCharger`: `chgWork` is the poll, with the ramp's sleeps as places where others
act; `pmu` the register, the cable and what its source gives.

## Runs

| Run | Instance | Shows |
|---|---|---|
| `render` | 2 files, 2 renders, 2 parameter buffers (one the kernel's), one shared buffer; one rekick, one lost kick, the probe's start of the microkernel racing the opens, a debugfs boot and a power-off; hangs, failing starts, timeouts at any moment | all safety properties of `SgxRender`, and the refinement |
| `live` | 1 file, 2 renders, in two worlds: troubled (hangs, failing starts, timeouts) and sound (one lost kick, no hang, no timeout) | every render gets an outcome; in the sound world a render left unread is kicked again and ends well |
| `open` | 2 files | counterexample: an open restarts the microkernel under a render |
| `timeout` | 1 file, 2 renders | counterexample: a timeout that lost its race leaves a freed job in `active` |
| `restart` | 1 file, 2 renders, failing starts | counterexample: buffers freed under a GPU that was not reset |
| `screen` | 2 framebuffers, 1 overlay, fbcon and debugfs, 3 jobs, 1 start, 1 rectangle, hangs, commands taken in time | all safety properties of `SgxScreen` |
| `screenends` | 1 framebuffer, 1 overlay, fbcon, 2 jobs, 2 rectangles, 1 start, hangs, failing starts, commands taken late | draws return, old framebuffers go |
| `late` | as `screen`, smaller, with late jobs | counterexample: a framebuffer goes under a late copy |
| `drivers` | `MCDrivers`: one machine of nine at a time, each over all its behaviours | the properties of `SgxKick`, `SgxPlaces`, `SgxFbCopy` and the `Apple*` and `Hid*` modules |
| `mesa` | `MCSgxMesa`: a buffer, a texture, two contexts with a texture each, or the compiler; 3 pieces of memory, 2 draws a batch (1 with two contexts), 2 renders queued | `SgxBuffers` implements `SgxDraws`, the cache is safe, `SgxRegs`' values survive to their reads and no temporary is left |
| `shared` | as `mesa`'s buffer, 2 contexts | counterexample: a stamp overwritten by another context |
| `ubo` | as `mesa`'s compiler, offsets that the shader computes | counterexample: a temporary given back before a load reads it |

`MCDrivers` puts machines together that meet only through hardware: a behaviour
chooses one and leaves the others at rest, so that a run is their sum and not their
product. The AIC runs as IPIs without a device and as a line with one CPU's IPIs in
between; `SgxKick` as page tables (renders alone, taken in time) and as rings (both
queues, commands taken late).

What the properties say, and the code they are about:

| Property | Says |
|---|---|
| `NextFits`, `RingsWhole` | no command is written past a ring or over one not read, however late the microkernel is; the stretched last command leaves the next at 0 |
| `RenderSeesTables` | a running render never translates through entries older than those it was queued with |
| `MoveExact` | the bands of `sgx_fb_copy_safe` give the move fbcon asked for, for every rectangle, distance and direction |
| `CacheUnread`, `DrawsKept` | memory the cache may hand out is read by nothing; a render shows draws what was there when they were made |
| `CodeStays`, `EotStays` | code and end-of-tile programs are not overwritten under a draw or a render that runs them |
| `ReadsItsValue`, `NoTempLeft` | every read of a shader finds its value, on every branch and iteration; all temporaries come back |
| `NoFlagAlone` | no kind of IPI is lost for good |
| `LineKept` | an enabled line is unmasked and routed outside its handler, unless an entry at its limit masked it or it was disabled in its handler |
| `RightEntry` | whatever wakes CPU1 finds the trampoline pointing where CPU1 belongs |
| `DoneIsWhole`, `NeverStalls` | a message that ends well moved all its bytes; one not done, or a combined read, has something to wait for; both until a late handler served the transfer |
| `NoFrameAlone`, `ReadsAlive` | a frame never waits with no edge or loop to come; the chip is read only powered and ready |
| `NoPhantomTap`, `NothingSticks` | a touch is reported once; a finger that left is let go of |
| `SagRemembered`, `SettlesUnderSource`, `HotComesDown`, `DisarmRestores` | the charger's limit after sags, heat, failures and disarming |

Why the bounds are enough. A render interferes with the one before and the one
after, and all the driver's memory is of one render (`active`, `pb`) or one start
(`kpb`): two renders of different files and buffers show each pair, and restarts
come from the timeouts, which are not bounded apart from the renders. Three jobs
let a copy queue behind another after a third was lost; two framebuffers are what a
flip alternates between. Submissions (`JobSymmetry`), framebuffers (`FbSymmetry`)
and pieces of memory (`BoSymmetry`) are interchangeable, and symmetry is used in runs
of safety properties only. The run `render` also has a `VIEW`: the model compares
`boots` only with the bound on debugfs and, for being equal, with the starts of the two
parameter buffers, so states that agree on these comparisons have the same future, and
starts without end need no bound. The run `mesa` has one that leaves out `shown`, which
every step of the buffers writes and none reads. Bounds on what the environment does: `MaxLost`,
`MaxDebugBoots`, `MaxJobs`, `MaxBoots`, `MaxRects`, `MaxRemaps` (changes of a page's
entry), `MaxWrites` (of a part of a resource: old and new content), `Z2MaxFrames`,
`ChargerMaxFaults`. Numbers of the code made smaller: `MaxRekicks`
(`SGX_MAX_REKICKS`), `RingSize` 8 with commands of 2 and 3 (every alignment at the
ring's end occurs), `KernelCcb` 2 (one command fills it), `MaxEot` 2 with three
targets, `MaxQueued` 2, `MaxDraws` 2, `EventLimit` 2, `FifoChunk` 2, `StrayLens` 0 and 2 (memory let go of reads as a message that is over at
once, or one that is not), `Z2MaxReads` 4,
`MaxTemps` 6 with colours and texels of 2 (a pair and two singles fill it),
`FbW` x `FbH` 3 x 4 (moves with one, two and three bands and a short last one). The
compiler's outlines are a straight shader, an if with both sides, a loop with a break,
a loop in a loop, and a phi's register around a loop, with the instructions that may
stand at each place; `MaxValues` 4. `MaxJobs` stops new draws, so `DrawsReturn` ends
at it.

Deadlock is not checked: the renders of an instance, its jobs or its shader's
instructions run out, and the system rests.

### Fairness

`WorldFairness` (`MCSgxRenderLive`): the kernel's own threads, timers and work items
run: start, run, poll, timeout, rekick, free. Nothing is assumed of the GPU in the
troubled world; in the sound one it works through its queue. A timer that stays armed
fires, a runnable thread runs: that is what weak fairness says here. Both worlds take
a run of `sgx_job_run` to be shorter than `render_timeout_ms` (2000; a start's
handshake ends after 500 ms): `SlowRun = FALSE`. With `SlowRun = TRUE` the
scheduler's timeout can come before the parent fence is there, be answered NOMINAL,
and not be armed again; safety is checked with `TRUE`.

`Fairness` (`SgxScreen`): callers, the commit worker, the ioctl and starts go on,
jiffies go on (`Overdue`), and a microkernel that is up takes its queue.

`Fairness` (`MCDrivers`): the charger's work, which queues itself again at its end,
runs, and the PMU drops a limit that its source cannot give; the touch driver polls
and its release timer fires, and a panel with a finger on it goes on making frames.
Users, cables, fingers and failures are never assumed to do anything.

## Findings

Each is a run that TLC must find violated; `PROJECT.json` quotes the lines.

1. `open`: `sgx_open` reads `boot_result` without the lock; 0 also means that a
   start is under way, so the second of two first clients restarts the microkernel
   under the first one's render.
2. `timeout`: `sgx_job_timedout` looks at its fence before `drm_sched_stop`. When
   the render ends in between, the next render is cancelled while it stays in
   `active`.
3. `restart`: the result of the restart after a timeout is ignored; when it failed
   before the reset, the render's buffers go while the GPU may work on them.
4. `late`: so is the -EIO of `apple_sgx_blt_sync` before a framebuffer or the overlay
   goes, although the job may be "done after all".
5. `shared`: one stamp per buffer object says which context's gathered draws read it;
   a second context's draw takes the first one's away, whose next write to the buffer
   may then change what its own earlier draws show.
6. `ubo`: the liveness walk does not know that a uniform buffer's load reads its
   offset, whose temporary is then free before the load.

More are in the list of hazards with no run of their own: an I2C handler that looked at
`i2c->msg` too early (`i2c-s5l8940x.c:134`), a line masked for the events of others
(`irq-apple-aic1.c:606`) or left masked after a disable in its handler (`:518`), a 2D
command taken after its 500 ms (`apple_sgx_hw.c:1803`), a
texture's shadow that is never filled when the copy's memory is refused
(`sgx_resource.c:531`; `DrawsKept` fails with `Failing` set to the texture), and the
scheduler's timeout during a slow `sgx_job_run`.

## Proofs

TLAPS proves these for every value of the constants that the `ASSUME`s allow (any
number of files, renders, buffers, framebuffers, rectangles, starts, kinds of IPI, any
ring size).

`SgxRender_proofs`: `Invariance` is the inductive invariant `IInv`. The safety
properties are not inductive: that a fence is honest needs that the words the poller
reads belong to `active`, which needs that the microkernel's ring holds at most the
scheduler's current render and has been emptied by each start, which needs to know
what each thread holds while it is between two of its steps. `IInv` says that in
named parts, one per piece of shared state, and the proof has a lemma per group of
actions. From it: `TypeCorrect`, `FencesHonest`, `RendersAlone`, `BuffersAreHeld`,
the action properties `PbsFresh` and `KpbImages`, and the refinement `PromiseKept`.

`SgxScreen_proofs`: `ScreenInvariance` proves `Inv`. Its core is that a job in the
engine of a live microkernel is the last one built, and is pending unless fbcon gave
it up: then the engine is out of service and stays so until the job is seen done.
`ScreenTypes` holds whatever the constants; `PagesAreTheJobs` with late jobs and early
failures, but not with commands taken late (`~TakenLate`).
`WhatItReadsIsHeld` and `EventsUnread` assume `Punctual`: no command is taken late, a job
past its time never ends (`~JobsLate`; the run `late` shows the other case) and a start resets the GPU
(`~FailsEarly`: `sgx_boot` clears `blt_pending` after a failed start too, so the next
wait would not wait for a job that still runs).

`SgxKick_proofs`: `KickTypeCorrect`, `KickNextFits`, `KickRingsWhole`,
`KickRenderSeesTables`. The invariant says what the occupied part of a ring is: the
commands not read lie one after another from the read offset to the write offset,
around the end at most once, and the next always has room for the longest before the
end. "No command over another" alone is not inductive: two commands that are apart say
nothing of the next one's place. For the page tables it follows an entry that changed:
as long as the GPU's caches may hold the old one, either the map's second half is still
to come, or `mmu_dirty` is set, or a command on its way to the microkernel carries the
invalidation, ahead of every render queued since.

`AppleDrivers_proofs`, `SgxFbCopy`: `FbMoveExact`. The moves are bands of rows or columns, done from
the end that the move goes towards. The invariant says that the pixels of the bands
done are what they shall be, and that those of the bands to come, with the place each
reads from, are as they were; it holds since a band is no longer than the distance of
the move, so what it writes is read by no band after it.

`AppleDrivers_proofs`, `AppleSmp`: `SmpInvariance`, `RightEntries`. Beside `RightEntry`
the invariant says where CPU1 can be in each of CPU0's views, and that its state is
saved wherever the trampoline says "resume" and CPU1 may be reset.

`AppleAic1_proofs`: `Aic1Invariance`, `NoIpiLost`, `LinesKept`. That a flag is never
alone needs to know, for each CPU, what its store buffer may hold at each place of its
handler (an acknowledgement only between `IpiAck` and `IpiProcess`, an opening only
after), that the order of the buffer is the order of the posts, and that a CPU which
masked its IPIs is on its way to open them. `LinesKept` needs that what `stuck` and `cut`
do not record was unmasked by the event that masked it, for any limit and any events.

`SgxPlaces_proofs`: `PlacesInvariance`, `PlacesTypeCorrect`, `CodeStaysThere`,
`EotStaysThere`. `CodeStays`
alone is not inductive: a step that gives a place to another program must know that no
draw still runs what was there. The invariant says who holds a place (at most one
program, or one retired entry, and never the heap too), that a gathered draw's program
has not moved, and that a queued render's program is either still placed or retired
with a fence at or behind that render, so `RenderDone` frees the place no sooner than
the render is done. A slot's fence is, in the same way, at or behind every render that
uses it. The proof needs `Owner` to be a function: the code's `shareable_shaders` is
false, and with shared shaders a context could bury what another had gathered. That no
place is lost, which `PlacesTypeCorrect` adds, is a second invariant (`NoneLost`): what
leaves a program goes to `retired`, and what leaves `retired` to the heap.

`SgxBuffers_proofs`: `BuffersTypeCorrect`, `BuffersInvariance`, `CacheStaysUnread`,
`DrawsInvariance`, `DrawsAreKept`. The types hold for any contexts. `CacheUnread` needs
to know who holds a buffer (a resource's copy and a batch's or a flush's list, which
`refs` counts), that a batch's stamps are its list, and how the busy mark stands to the
queue (`BusyTold`): a render that lists a buffer is at or before the buffer's mark, or
the mark is still to be set by the flush. From this a buffer that is idle and in the
cache is read by nobody. `KeptInv` is about contents: what a gathered or queued draw is
to show lies in its buffer, which its batch or render lists (so nobody else gets it); a
copy may be written in place only if no such draw reads it, or if what they read did
not change (`Unchanged`, where `dirty_sync` and the stamp are what the code has to
tell); a texture's shadow is its copy's content outside the dirty boxes. `DrawsAreKept`
is the refinement of `SgxDraws`: `RenderRuns` is its `Show`, `Add` its `Draw`, `Submit`
its `Send`, `SubmitFails` its `Lose`, the writes its `Change`, the rest stutter.

Contexts share the memory, the cache and the queue, so a step of one must leave what
another relies on. `Apart` says that at most one context reaches a buffer, by its draw,
its list, its renders in the queue or a resource it uses, until the buffer is cached and
idle, which by `BusyTold` means that no render reads it: only then may another context
get it. `LastTold` says that a context was told of its newest render, which is therefore
behind all of its own when the flush marks its buffers with that number (the marks of
other contexts' renders do not matter to it: they read other buffers).

Two hypotheses are needed, and the code breaks the theorems without them. `Private`: no
two contexts use one resource. `sgx_buffer_bo` (`sgx_resource.c:1162`) gives a draw the
buffer without a reference of
its own; before `add_handles` takes one, another context's draw from the same resource
may let go of the buffer, which is then in the cache and in a batch (TLC finds
`CacheUnread` violated with two contexts that share a buffer, and the run `shared`
shows what the one stamp per buffer object does). `TexturesGet`: a texture's shadow is
made before the memory of its copy is there (`sgx_resource.c:531`).

`SgxRegs_proofs`: `RegsAlways`, `NoTempIsLeft`, `EveryReadFindsItsValue`, for every
shader of every outline, any number of temporaries and values, any length of the colour
and of a texel. The invariant `RegsInv` has four parts, and the properties are
inductive only with all of them:

- `ShaderInv`, what NIR gives: values are made once and in order, marks close or leave
  what they belong to, and what an instruction may read (`sees`) has been made on every
  way there. It is kept by each step that writes an instruction, with the stack of open
  constructs.
- `LastUses`, what the liveness walk notes. Its one hard case is a loop: what is seen
  at a loop's start and is still to be read anywhere in it lives to the loop's end, and
  for a value made before several nested loops that is the end of the outermost, so
  `note_use` must look at all of them (the mutant `NoteUseInner` looks at the inner one).
- `Allocated`: the temporaries taken are those of the values still to be read, each its
  own, the colour's row and the declared register's, which do not meet (`Tidy`); and
  every value that was made and is still to be read has one (`Homed`). `NoTempLeft`
  follows by counting.
- `Coded`, about the moves that instructions became: each reads what an earlier move of
  the same instruction wrote last, or, where none wrote there, a value that was wanted
  when the instruction started (`Finds`); none disturbs a temporary that is wanted
  (`Keeps`); the last one leaves what the instruction makes (`Gives`). That a row given
  to a new value is not one of a value still read is `TakeOf`, for scratch as well.

While the code runs, `Kept` says that what the next instruction wants is in its
temporary, and `Ran` that what its moves wrote is there; `FollowWanted` shows for each
kind of branch that the next instruction wants nothing but what this one wanted or
made. `EveryReadFindsItsValue` assumes `~UboOffsets`, used in one place only: a uniform
buffer's load must find its reads wanted when it starts, which the walk was never told.

`AppleDrivers_proofs`, `AppleZ2`: `Z2Invariance`, `ReadsStayAlive`, `FramesAreSeen`.
`ReadsAlive` is not inductive: close takes no lock, and it is `disable_irq`, which waits
for the thread, that keeps the power on under a read. The invariant says that nothing of
the driver runs without a user, and whose loop it is that reads.

`AppleDrivers_proofs`, `HidSpiTouch`: `TouchNoPhantomTap`. What the driver makes up for
between two polls is decided from the last frame's bits; the invariant ties those bits,
and what was reported, to the touches the panel has counted since the poll before.

`AppleDrivers_proofs`, `AppleCharger`: `ChargerTypeCorrect`, `ChargerSagRemembered`, an
action property: the ceiling is lowered by a sag only, forgotten at a new session only,
and every write in between (the ramp's, the owner's, a cool battery's) is cut by it.

`AppleDrivers_proofs`, `AppleI2c`: `I2cInvariance`, `I2cDoneIsWhole`, `I2cNeverStalls`,
`I2cTypeCorrect`.
A service by the interrupt may fall anywhere between the caller's steps; one lemma
(`ServiceKeeps`) covers both. The invariant assumes nothing of who has the lock when: it
speaks of a transfer that no late handler has served (`~late`), and the one step which
could break it, a service with another message than `i2c->msg`, sets `late`. What is
left to prove is that a service with the current message is right wherever it falls,
which needs that the controller is still between two messages (`Calm`), so that a status
left over cannot end the next one, and that the bytes add up (`Bytes`, `Whole`). A
combined read has its own count: bytes had, in MRXFIFO and to come.

`AppleDrivers_proofs`, `MCDrivers`: `DriversTypeCorrect`. A behaviour of the drivers
together is a behaviour of each (`MachinesStart`, `MachinesMove`: a step of another
machine is a stutter), so each machine's type theorem holds of it, whatever the
constants; the fairness of `MCSpec` is not used.

Only model-checked: the liveness properties (`EveryRenderEnds`,
`LostKicksRecovered`, `DrawsReturn`, `OldOnesGo`, `NothingSticks`,
`SettlesUnderSource`, `HotComesDown`, `DisarmRestores`) and the counterexamples, since
fairness and ENABLED are beyond the prover. Every invariant and every action property
that a passing run checks is the subject of a theorem; these are under hypotheses that
the code needs, not that the proof would like to have:
`LineKept` but for its two named ways, `DoneIsWhole` and `NeverStalls` until a late
handler, the screen's for commands taken in time,
`ReadsItsValue` for constant offsets (the run `ubo` shows the other case), and
`CacheUnread` and `DrawsKept` for contexts that use no resource in common (the run `shared`
shows the other case, the run `mesa` two contexts of the theorem's kind).

## Not modelled, and next

`PROJECT.json` lists every component with its status. Left out for a reason: register
sequences of one caller under one lock (clocks, pins, PMU, PHY, backlight, SPI),
conversions of files and host scripts, which are sequential, the vendored decoders
under `tools/`, and what Mesa encodes (instructions, state words), where there is data
and little control.

What would come next: the interrupt storm handler against a start (`irq_on` and the
depth of `disable_irq`); Mesa's queries and the vertex shader's passes; `SgxBuffers` with
two contexts that write one resource in turn; GEM objects and
the allocator of GPU addresses, so that `SgxKick`'s page tables and `SgxRender`'s
`held` meet.
