------------------------------ MODULE SgxKick ------------------------------
(***************************************************************************)
(* How work reaches the SGX microkernel: the rings of commands (the render *)
(* CCB and the transfer queue), the kernel CCB whose commands make it look *)
(* at a ring, and the invalidation of the GPU's MMU caches that rides on a *)
(* render's command after the page tables changed.                         *)
(* Source: devices/a5/patches/files/drivers/gpu/drm/apple-sgx/             *)
(* apple_sgx_hw.c.                                                         *)
(*                                                                         *)
(* One thread queues renders (sgx->lock) and one 2D jobs (blt_lock); each  *)
(* has one at a time on the GPU (SgxRender, SgxScreen).  Both send through *)
(* the kernel CCB, under ccb_lock until the microkernel takes the command  *)
(* or 500 ms are over.  Anyone may change the page tables meanwhile.       *)
(***************************************************************************)
EXTENDS Naturals, Sequences, FiniteSets

CONSTANTS
    RingSize,   \* SGX_TQ_CCB_SIZE, of both rings
    RenderLens, \* the sizes a render's command may have (apple_sgx_drm.h)
    RenderMax,  \* SGX_R_CMD_MAX
    BltLen,     \* SGX_TQ_CMD_SIZE
    KernelCcb,  \* SGX_CCB_SIZE
    Pages,      \* pages of the GPU's address space
    MaxRemaps,  \* bound: changes of one page's entry
    Nothing

Queues == {"render", "blt"}
Longest == [render |-> RenderMax, blt |-> BltLen]

ASSUME KickConstants ==
    /\ RingSize \in Nat /\ RenderMax \in 1..RingSize /\ BltLen \in 1..RingSize
    /\ RenderLens \subseteq 1..RenderMax
    /\ KernelCcb \in Nat \ {0, 1} /\ MaxRemaps \in Nat
    /\ Nothing \notin Pages \cup [at : Nat, size : Nat, pages : SUBSET Pages]

VARIABLES
    rings,  \* [Queues -> [wo, ro, cmds]]: the offsets, the commands put and not read
    kccb,   \* the kernel CCB's commands that are not taken: [to, inval]
    call,   \* [Queues -> [at, inval]]: where the thread is
    active, \* [Queues -> the command on the GPU, for its owner, or Nothing]
    mmu,    \* [pte, dirty, lock, seen]: page tables, mmu_dirty, mmu_lock's holder, the GPU's caches
    uk      \* [up, asked, run, late]: boot_result, the microkernel; see KickInit

kickVars == <<rings, kccb, call, active, mmu, uk>>

EmptyRing == [wo |-> 0, ro |-> 0, cmds |-> {}]
Idle == [at |-> "idle", inval |-> FALSE]

(* uk.asked: the queues it was told to look at; uk.run: the command it     *)
(* runs; uk.late: a command was given up on after 500 ms, or found the     *)
(* kernel CCB full, since the start.                                       *)
KickInit ==
    /\ rings = [q \in Queues |-> EmptyRing]
    /\ kccb = <<>>
    /\ call = [q \in Queues |-> Idle]
    /\ active = [q \in Queues |-> Nothing]
    /\ mmu = [pte |-> [p \in Pages |-> 0], dirty |-> FALSE, lock |-> Nothing,
              seen |-> [p \in Pages |-> Nothing]]
    /\ uk = [up |-> "no", asked |-> {}, run |-> Nothing, late |-> FALSE]

-----------------------------------------------------------------------------
(* apple_sgx_mmu_map, apple_sgx_mmu_unmap: the entry, then mmu_dirty, under*)
(* mmu_lock; never of a page a render uses (its job holds the buffers).    *)
UsedByRender(p) == active["render"] # Nothing /\ p \in active["render"].pages

Remap(p) ==
    /\ mmu.lock = Nothing /\ ~UsedByRender(p) /\ mmu.pte[p] < MaxRemaps
    /\ mmu' = [mmu EXCEPT !.pte[p] = @ + 1, !.lock = p]
    /\ UNCHANGED <<rings, kccb, call, active, uk>>

Remapped ==
    /\ mmu.lock # Nothing
    /\ mmu' = [mmu EXCEPT !.dirty = TRUE, !.lock = Nothing]
    /\ UNCHANGED <<rings, kccb, call, active, uk>>

-----------------------------------------------------------------------------
(* The rings: 16-bit offsets (x & (size - 1), of an x below twice the size)*)
WrapLate(x) == IF x > RingSize THEN x - RingSize ELSE x               \* mutant
Wrap(x) == IF x >= RingSize THEN x - RingSize ELSE x

StretchIfShort(q, wo, len) == RingSize - wo - len < len              \* mutant
Stretch(q, wo, len) == RingSize - wo - len < Longest[q]

(* The room a command takes: one after which the longest would not fit     *)
(* goes to the end.                                                        *)
Taking(q, wo, len) == IF Stretch(q, wo, len) THEN RingSize - wo ELSE len

RoomAssumed(r, size) == TRUE                                         \* mutant
HasRoom(r, size) == Wrap(r.ro + RingSize - 1 - r.wo) > size

(* apple_sgx_render_queue, __sgx_blt_submit: the command into the ring.    *)
(* (-EBUSY and -EIO change nothing.)                                       *)
Put(q, len, pages) ==
    LET r == rings[q]
        size == Taking(q, r.wo, len)
        c == [at |-> r.wo, size |-> size, pages |-> pages]
    IN  /\ uk.up = "yes" /\ call[q].at = "idle" /\ active[q] = Nothing
        /\ r.wo + len <= RingSize
        /\ HasRoom(r, size)
        /\ rings' = [rings EXCEPT ![q] =
                        [wo |-> Wrap(r.wo + size), ro |-> r.ro, cmds |-> r.cmds \cup {c}]]
        /\ call' = [call EXCEPT ![q].at = "put"]
        /\ active' = [active EXCEPT ![q] = c]
        /\ UNCHANGED <<kccb, mmu, uk>>

(* A render uses pages mapped before.                                      *)
PutRender ==
    \E len \in RenderLens, pages \in SUBSET {p \in Pages : mmu.pte[p] > 0 /\ mmu.lock # p} :
        Put("render", len, pages)
PutBlt == Put("blt", BltLen, {})

(* mmu_dirty taken for this kick, a render's (atomic_xchg).                *)
TakeDirty ==
    /\ call["render"].at = "put"
    /\ call' = [call EXCEPT !["render"] = [at |-> "ready", inval |-> mmu.dirty]]
    /\ mmu' = [mmu EXCEPT !.dirty = FALSE]
    /\ UNCHANGED <<rings, kccb, active, uk>>

(* apple_sgx_render_rekick, while its render is not done. *)
Rekick ==
    /\ uk.up = "yes" /\ call["render"].at = "idle" /\ active["render"] # Nothing
    /\ call' = [call EXCEPT !["render"].at = "ready"]
    /\ UNCHANGED <<rings, kccb, active, mmu, uk>>

(* sgx_send_cmd: ccb_lock is held from here until it is taken. *)
Sending(q) == call[q].at = "sent"
ReadyToSend(q) ==
    /\ call[q].at = "ready" \/ (q = "blt" /\ call[q].at = "put")
    /\ \A o \in Queues : ~Sending(o)

Send(q) ==
    /\ ReadyToSend(q) /\ Len(kccb) < KernelCcb - 1
    /\ kccb' = Append(kccb, [to |-> q, inval |-> call[q].inval])
    /\ call' = [call EXCEPT ![q].at = "sent"]
    /\ UNCHANGED <<rings, active, mmu, uk>>

(* Full: -EBUSY; not taken in 500 ms: -ETIMEDOUT.  The render fails, a     *)
(* rekick's goes on; the command stays in its ring.                        *)
Fails(q) ==
    /\ \/ ReadyToSend(q) /\ Len(kccb) = KernelCcb - 1
       \/ Sending(q) /\ kccb # <<>>
    /\ call' = [call EXCEPT ![q] = Idle]
    /\ active' = [active EXCEPT ![q] = Nothing]
    /\ uk' = [uk EXCEPT !.late = TRUE]
    /\ UNCHANGED <<rings, kccb, mmu>>

KickTakenClears(q) ==                                                \* mutant
    /\ Sending(q) /\ kccb = <<>>
    /\ call' = [call EXCEPT ![q] = Idle]
    /\ mmu' = [mmu EXCEPT !.dirty = FALSE]
    /\ UNCHANGED <<rings, kccb, active, uk>>

(* Taken. *)
KickTaken(q) ==
    /\ Sending(q) /\ kccb = <<>>
    /\ call' = [call EXCEPT ![q] = Idle]
    /\ UNCHANGED <<rings, kccb, active, mmu, uk>>

-----------------------------------------------------------------------------
(* sgx_boot (sgx->lock, blt_lock at its ends), sgx_boot_ukernel: the rings *)
(* empty, mmu_dirty cleared, then the caches invalidated; it may fail.     *)
Boot ==
    /\ uk.up # "starting" /\ \A q \in Queues : call[q].at = "idle"
    /\ uk' = [uk EXCEPT !.up = "starting"]
    /\ UNCHANGED <<rings, kccb, call, active, mmu>>

Reset ==
    /\ uk.up = "starting"
    /\ rings' = [q \in Queues |-> EmptyRing]
    /\ kccb' = <<>>
    /\ active' = [q \in Queues |-> Nothing]
    /\ mmu' = [mmu EXCEPT !.dirty = FALSE]
    /\ uk' = [up |-> "reset", asked |-> {}, run |-> Nothing, late |-> FALSE]
    /\ UNCHANGED call

BootUp ==
    /\ uk.up = "reset"
    /\ mmu' = [mmu EXCEPT !.seen = [p \in Pages |-> Nothing]]
    /\ uk' = [uk EXCEPT !.up = "yes"]
    /\ UNCHANGED <<rings, kccb, call, active>>

BootFails ==
    /\ uk.up \in {"starting", "reset"}
    /\ uk' = [uk EXCEPT !.up = "no"]
    /\ active' = [q \in Queues |-> Nothing]
    /\ UNCHANGED <<rings, kccb, call, mmu>>

-----------------------------------------------------------------------------
(* The microkernel and the GPU (external): a kernel command makes it look  *)
(* at a ring, which it then works through; it looks entries up whenever it *)
(* likes.                                                                  *)
UkRuns == uk.up \in {"yes", "starting"}

Takes ==
    /\ UkRuns /\ kccb # <<>>
    /\ kccb' = Tail(kccb)
    /\ uk' = [uk EXCEPT !.asked = @ \cup {q \in {Head(kccb).to} : rings[q].cmds # {}}]
    /\ mmu' = IF Head(kccb).inval THEN [mmu EXCEPT !.seen = [p \in Pages |-> Nothing]] ELSE mmu
    /\ UNCHANGED <<rings, call, active>>

Starts(q) ==
    LET r == rings[q]
    IN  /\ UkRuns /\ q \in uk.asked /\ uk.run = Nothing
        /\ \E c \in r.cmds :
              /\ c.at = r.ro
              /\ rings' = [rings EXCEPT ![q] = [wo |-> r.wo, ro |-> Wrap(r.ro + c.size),
                                                cmds |-> r.cmds \ {c}]]
              /\ uk' = [uk EXCEPT !.run = [q |-> q, cmd |-> c]]
        /\ UNCHANGED <<kccb, call, active, mmu>>

(* It leaves what the command names in the ring (apple_sgx_render_rekick). *)
Forgets(q) ==
    /\ UkRuns /\ q \in uk.asked /\ uk' = [uk EXCEPT !.asked = @ \ {q}]
    /\ UNCHANGED <<rings, kccb, call, active, mmu>>

Looks(p) ==
    /\ UkRuns /\ mmu.pte[p] > 0
    /\ mmu' = [mmu EXCEPT !.seen[p] = IF @ = Nothing THEN mmu.pte[p] ELSE @]
    /\ UNCHANGED <<rings, kccb, call, active, uk>>

(* Done, and its owner knows. *)
Done ==
    /\ UkRuns /\ uk.run # Nothing /\ call[uk.run.q].at = "idle"
    /\ uk' = [uk EXCEPT !.run = Nothing, !.asked = {q \in @ : rings[q].cmds # {}}]
    /\ active' = [active EXCEPT ![uk.run.q] = IF @ = uk.run.cmd THEN Nothing ELSE @]
    /\ UNCHANGED <<rings, kccb, call, mmu>>

KickNext ==
    \/ \E p \in Pages : Remap(p) \/ Looks(p)
    \/ \E q \in Queues : Send(q) \/ KickTaken(q) \/ Fails(q) \/ Starts(q) \/ Forgets(q)
    \/ Remapped \/ PutRender \/ PutBlt \/ TakeDirty \/ Rekick
    \/ Boot \/ Reset \/ BootUp \/ BootFails \/ Takes \/ Done

KickSpec == KickInit /\ [][KickNext]_kickVars

-----------------------------------------------------------------------------
KickTypeOK ==
    /\ \A q \in Queues :
          /\ rings[q].wo \in 0..RingSize - 1 /\ rings[q].ro \in 0..RingSize - 1
          /\ call[q].at \in {"idle", "put", "ready", "sent"} /\ call[q].inval \in BOOLEAN
    /\ Len(kccb) < KernelCcb
    /\ mmu.lock \in Pages \cup {Nothing} /\ mmu.dirty \in BOOLEAN
    /\ uk.up \in {"no", "starting", "reset", "yes"} /\ uk.asked \subseteq Queues

(* After every command that is put, one as long as any fits before the end *)
(* (a stretched one makes the next start at 0): nothing is ever written    *)
(* past the ring, and "the last command did not wrap" (-EIO) never happens.*)
NextFits == \A q \in Queues : rings[q].wo + Longest[q] <= RingSize

(* What the microkernel has not read is whole: no command lies over        *)
(* another, however far behind it is, the next it reads is where its read  *)
(* offset is, and with nothing to read the offsets meet.                   *)
Apart(c, d) == c.at + c.size <= d.at \/ d.at + d.size <= c.at
RingsWhole ==
    \A q \in Queues :
        LET r == rings[q]
        IN  /\ \A c, d \in r.cmds : c = d \/ Apart(c, d)
            /\ r.ro = r.wo <=> r.cmds = {}
            /\ r.cmds # {} => \E c \in r.cmds : c.at = r.ro

(* A render that runs sees the page tables as they were when it was        *)
(* queued: the GPU's caches hold nothing older of its pages.  (A command   *)
(* given up on takes an invalidation with it: uk.late.)                    *)
RenderSeesTables ==
    (uk.up = "yes" /\ ~uk.late /\ uk.run # Nothing) =>
        \A p \in uk.run.cmd.pages : mmu.seen[p] \in {Nothing, mmu.pte[p]}
=============================================================================
