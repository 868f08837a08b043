----------------------------- MODULE SgxBuffers -----------------------------
(***************************************************************************)
(* Mesa's SGX driver: the GPU's copies of buffers and textures, the cache  *)
(* their memory comes from, and the batches of draws that read them.       *)
(* Source: devices/a5/mesa/files/src/gallium/drivers/sgx/ (sgx_device.c,   *)
(* sgx_resource.c, sgx_draw.c).                                            *)
(*                                                                         *)
(* The CPU writes a copy of its own; a draw brings the GPU's up to date    *)
(* (sgx_buffer_bo, copy_texture): in place if no render reads it, in a     *)
(* buffer from the cache if one does.  Draws are gathered; a flush submits *)
(* them as one render, which reads the memory when it runs.  Memory is let *)
(* go while renders that read it are queued; the cache hands it out again  *)
(* when the last render marked on it (busy) is done.                       *)
(*                                                                         *)
(* A render runs when those before it have (SgxRender), and the kernel     *)
(* keeps a closed buffer's memory for the renders that list it (BuffersHeld*)
(* there).                                                                 *)
(***************************************************************************)
EXTENDS Naturals, Sequences, Functions

CONSTANTS
    Ctxs,       \* contexts, which share the memory and the queue
    Bufs,       \* buffers
    Texs,       \* textures, sampled through their copies
    Uses,       \* [Ctxs -> SUBSET (Bufs \cup Texs)], those that each context uses
    Bos,        \* the memory there is, in buffers of one size class
    None,
    Reads,      \* the parts a draw may read of a buffer
    Failing,    \* resources whose GEM_CREATE may fail
    MaxWrites,  \* bound: writes of a part of a resource
    MaxDraws,   \* sgx_frame_max_draws
    MaxQueued   \* MAX_QUEUED

Res == Bufs \cup Texs
Parts == {1, 2}
Undefined == MaxWrites + 1       \* what malloc returned
Contents == [Parts -> 0..MaxWrites]

ASSUME BufferConstants ==
    /\ Bufs \cap Texs = {} /\ Reads \subseteq SUBSET Parts /\ Failing \subseteq Res
    /\ Uses \in [Ctxs -> SUBSET Res]
    /\ None \notin Bos \cup Ctxs \cup Contents
    /\ MaxWrites \in Nat /\ MaxDraws \in Nat \ {0} /\ MaxQueued \in Nat \ {0}

VARIABLES
    data,    \* [Res -> Contents], the CPU's copy
    copy,    \* [Res -> the fields of struct sgx_resource about the GPU's copy]
    maps,    \* buffers with a persistent map (live_maps > 0)
    pool,    \* the buffer objects and the cache: a record, see NewPool
    batch,   \* [Ctxs -> [draws, bos]], struct sgx_batch
    want,    \* [Ctxs -> the draw being made: [res, bo, parts], or None]
    marks,   \* [Ctxs -> a flushed batch's buffers, not let go yet, and whether it was sent]
    last,    \* [Ctxs -> ctx->last, as a place in queue (0: done)]
    queue,   \* renders submitted and not done, in their order
    shown    \* what the render that runs reads for its draws (<<>>: none runs)

bufferVars == <<data, copy, maps, pool, batch, want, marks, last, queue, shown>>

(* Buffer objects: where they are, bo->refs, bo->batch_ctx (None too if    *)
(* batch_seq is not the batch's any more), bo->busy as a place in queue    *)
(* (0: done), their memory; the cache, the longest in it first.            *)
NewPool ==
    [at |-> [b \in Bos |-> "free"], refs |-> [b \in Bos |-> 0],
     stamp |-> [b \in Bos |-> None], busy |-> [b \in Bos |-> 0],
     mem |-> [b \in Bos |-> [p \in Parts |-> 0]], cache |-> <<>>]

(* bo (res->bo or res->tw); dirty: the parts written since it was made;    *)
(* sync (dirty_sync); boxes: all of them level 0's boxes (tw_writes);      *)
(* shadow: tw_cpu.                                                         *)
NewCopy == [bo |-> None, dirty |-> {}, sync |-> FALSE, boxes |-> TRUE, shadow |-> None]

NewBatch == [draws |-> <<>>, bos |-> <<>>]
NoMarks == [bos |-> <<>>, sent |-> FALSE]

BuffersInit ==
    /\ data = [r \in Res |-> [p \in Parts |-> 0]]
    /\ copy = [r \in Res |-> NewCopy]
    /\ maps = {}
    /\ pool = NewPool
    /\ batch = [c \in Ctxs |-> NewBatch]
    /\ want = [c \in Ctxs |-> None]
    /\ marks = [c \in Ctxs |-> NoMarks]
    /\ last = [c \in Ctxs |-> 0]
    /\ queue = <<>>
    /\ shown = <<>>

-----------------------------------------------------------------------------
(* sgx_device.c: the buffers. *)

Idle(p, b) == p.busy[b] = 0

(* sgx_bo_destroy, by one of its holders; cache_trim is CacheGet's. *)
BoDestroy(p, b) ==
    IF p.refs[b] > 0 THEN [p EXCEPT !.refs[b] = @ - 1]
    ELSE [p EXCEPT !.at[b] = "cache", !.stamp[b] = None, !.cache = Append(@, b)]

(* cache_trim: those kept longest are closed, as many as time and size say *)
Trim(p, n) ==
    [p EXCEPT !.at = [b \in Bos |-> IF \E i \in 1..n : p.cache[i] = b THEN "free" ELSE @[b]],
              !.cache = SubSeq(@, n + 1, Len(@))]

(* sgx_bo_cache_get: the first idle one of two, or a new one -- of memory  *)
(* the kernel does not keep for a render.                                  *)
Kept(b) == \E i \in DOMAIN queue : b \in Range(queue[i].bos)

IdleOf(p) == {i \in DOMAIN p.cache : i <= 2 /\ Idle(p, p.cache[i])}

Created(p) ==
    {[pool |-> [p EXCEPT !.at[b] = "used", !.busy[b] = 0], bo |-> b] :
        b \in {b \in Bos : p.at[b] = "free" /\ ~Kept(b)}}

CacheGet(p) ==
    UNION {LET t == Trim(p, n)
           IN  IF IdleOf(t) = {} THEN Created(t)
               ELSE LET i == CHOOSE i \in IdleOf(t) : \A j \in IdleOf(t) : i <= j
                        b == t.cache[i]
                    IN  {[pool |-> [t EXCEPT !.at[b] = "used",
                                             !.cache = SubSeq(@, 1, i - 1)
                                                       \o SubSeq(@, i + 1, Len(@))],
                          bo |-> b]} :
              n \in 0..Len(p.cache)}

(* Bound: there is memory for the next one. *)
HasMemory == \E b \in Bos : pool.at[b] = "free" /\ ~Kept(b)

-----------------------------------------------------------------------------
(* sgx_context.h: whether the gathered draws read b. *)
BatchReads(c, b) == batch[c].draws # <<>> /\ pool.stamp[b] = c

(* What the application must not do: write a part unsynchronized while a   *)
(* draw that reads it is not done, or a resource while another context's   *)
(* is not.                                                                 *)
Pending(c) ==
    {batch[c].draws[i] : i \in DOMAIN batch[c].draws}
    \cup UNION {{queue[i].draws[k] : k \in DOMAIN queue[i].draws} :
                   i \in {i \in DOMAIN queue : queue[i].ctx = c}}
ReadsPart(c, r, p) == \E d \in Pending(c) : d.res = r /\ p \in DOMAIN d.saw
MayWrite(c, r) ==
    \A o \in Ctxs \ {c} : /\ \A p \in Parts : ~ReadsPart(o, r, p)
                          /\ want[o] # None => want[o].res # r
MayPoke(c, r, p) == MayWrite(c, r) /\ ~ReadsPart(c, r, p)

Change(r, parts) ==
    /\ \A p \in parts : data[r][p] < MaxWrites
    /\ data' = [data EXCEPT ![r] = [p \in Parts |-> @[p] + IF p \in parts THEN 1 ELSE 0]]

(* Between two calls of a context's thread. *)
Ready(c) == want[c] = None /\ marks[c] = NoMarks

(* sgx_transfer_map to unmap of a part of a buffer (buffer_written), or of *)
(* a box of a texture of one level.                                        *)
Write(c, r, p) ==
    /\ Ready(c) /\ MayWrite(c, r)
    /\ Change(r, {p})
    /\ copy' = [copy EXCEPT ![r].dirty = @ \cup {p}, ![r].sync = TRUE]
    /\ shown' = <<>>
    /\ UNCHANGED <<maps, pool, batch, want, marks, last, queue>>

(* ... of a part of a buffer, PIPE_MAP_UNSYNCHRONIZED. *)
WriteUnsync(c, r, p) ==
    /\ Ready(c) /\ r \in Bufs /\ MayPoke(c, r, p)
    /\ Change(r, {p})
    /\ copy' = [copy EXCEPT ![r].dirty = @ \cup {p}]
    /\ shown' = <<>>
    /\ UNCHANGED <<maps, pool, batch, want, marks, last, queue>>

(* ... of all of a texture, not as one box (its mipmaps too). *)
WriteAll(c, r) ==
    /\ Ready(c) /\ r \in Texs /\ MayWrite(c, r)
    /\ Change(r, Parts)
    /\ copy' = [copy EXCEPT ![r].dirty = Parts, ![r].boxes = FALSE]
    /\ shown' = <<>>
    /\ UNCHANGED <<maps, pool, batch, want, marks, last, queue>>

(* A map kept while draws are made (glthread's uploads), writes through    *)
(* it, its end.                                                            *)
Map(c, r) ==
    /\ Ready(c) /\ r \in Bufs \ maps
    /\ maps' = maps \cup {r}
    /\ shown' = <<>>
    /\ UNCHANGED <<data, copy, pool, batch, want, marks, last, queue>>

Poke(c, r, p) ==
    /\ Ready(c) /\ r \in maps /\ MayPoke(c, r, p)
    /\ Change(r, {p})
    /\ shown' = <<>>
    /\ UNCHANGED <<copy, maps, pool, batch, want, marks, last, queue>>

Unmap(c, r) ==
    /\ Ready(c) /\ r \in maps
    /\ maps' = maps \ {r}
    /\ \E sync \in BOOLEAN :
          copy' = [copy EXCEPT ![r].dirty = Parts, ![r].sync = @ \/ sync]
    /\ shown' = <<>>
    /\ UNCHANGED <<data, pool, batch, want, marks, last, queue>>

-----------------------------------------------------------------------------
(* A draw needs the GPU's copy: the pool, the copy's fields and the parts  *)
(* of OUT written into it; the draw goes on with it.                       *)
Bring(c, r, parts, p, fields, out, range) ==
    LET b == fields.bo
    IN  /\ pool' = [p EXCEPT !.mem[b] = [q \in Parts |-> IF q \in range THEN out[q] ELSE @[q]]]
        /\ copy' = [copy EXCEPT ![r] = fields]
        /\ want' = [want EXCEPT ![c] = [res |-> r, bo |-> b, parts |-> parts]]
        /\ shown' = <<>>
        /\ UNCHANGED <<data, maps, batch, marks, last, queue>>

(* No memory: the draw is dropped. *)
NoCopy(r, p, fields) ==
    /\ r \in Failing
    /\ pool' = p
    /\ copy' = [copy EXCEPT ![r] = fields]
    /\ shown' = <<>>
    /\ UNCHANGED <<data, maps, batch, want, marks, last, queue>>

(* sgx_buffer_bo. *)
InUseByGpu(c, b) == ~Idle(pool, b)                                   \* mutant
InUse(c, b) == BatchReads(c, b) \/ ~Idle(pool, b)

BufferBo(c, r, parts) ==
    LET f == copy[r]
        dirty == f.dirty \cup (IF r \in maps THEN parts ELSE {})
        clean == [f EXCEPT !.dirty = {}, !.sync = FALSE]
        away == f.bo # None /\ f.sync /\ InUse(c, f.bo)
    IN  IF f.bo # None /\ ~away
        THEN Bring(c, r, parts, pool, IF dirty = {} THEN f ELSE clean, data[r], dirty)
        ELSE LET p == IF away THEN BoDestroy(pool, f.bo) ELSE pool
             IN  \/ /\ HasMemory
                    /\ \E g \in CacheGet(p) :
                          Bring(c, r, parts, g.pool, [clean EXCEPT !.bo = g.bo], data[r], Parts)
                 \/ NoCopy(r, p, [f EXCEPT !.bo = None, !.dirty = dirty])

GetBuffer(c, r, parts) ==
    /\ Ready(c) /\ r \in Bufs /\ Len(queue) < MaxQueued
    /\ BufferBo(c, r, parts)

(* sgx_resource_texture, copy_texture: boxes into the old copy are written *)
(* from a shadow of it in the CPU's memory, made at the first.  (With a    *)
(* small box of a big texture the renders that read it are waited for,     *)
(* which only makes the copy idle.)                                        *)
CopyTexture(c, r) ==
    LET f == copy[r]
        boxed == f.bo # None /\ f.boxes /\ f.dirty # {}
        partial == boxed /\ f.shadow # None
        shadow == CASE ~boxed -> None
                    [] partial -> f.shadow
                    [] OTHER -> [p \in Parts |-> Undefined]
        out == [p \in Parts |-> IF ~partial \/ p \in f.dirty THEN data[r][p] ELSE shadow[p]]
        done == [f EXCEPT !.dirty = {}, !.sync = FALSE, !.boxes = TRUE,
                          !.shadow = IF boxed THEN out ELSE None]
        fresh == f.bo = None \/ InUse(c, f.bo)
    IN  IF ~fresh
        THEN Bring(c, r, Parts, pool, done, out, IF partial THEN f.dirty ELSE Parts)
        ELSE \/ /\ HasMemory
                /\ \E g \in CacheGet(pool) :
                      Bring(c, r, Parts,
                            IF f.bo = None THEN g.pool ELSE BoDestroy(g.pool, f.bo),
                            [done EXCEPT !.bo = g.bo], out, Parts)
             \/ NoCopy(r, pool, [f EXCEPT !.shadow = shadow])

GetTexture(c, r) ==
    /\ Ready(c) /\ r \in Texs /\ Len(queue) < MaxQueued
    /\ IF copy[r].bo = None \/ copy[r].dirty # {} THEN CopyTexture(c, r)
       ELSE Bring(c, r, Parts, pool, copy[r], data[r], {})

(* submit, add_vs_draw: the draw into the batch, its buffer listed, after  *)
(* a flush if there is no room (add_handles).                              *)
RoomForOneMore(c) == Len(batch[c].draws) <= MaxDraws                 \* mutant
HasRoom(c) == Len(batch[c].draws) < MaxDraws

Add(c) ==
    /\ want[c] # None /\ marks[c] = NoMarks /\ HasRoom(c)
    /\ LET w == want[c]
           listed == pool.stamp[w.bo] = c
           draw == [res |-> w.res, bo |-> w.bo, saw |-> [p \in w.parts |-> data[w.res][p]]]
       IN  /\ batch' = [batch EXCEPT ![c].draws = Append(@, draw),
                                     ![c].bos = IF listed THEN @ ELSE Append(@, w.bo)]
           /\ pool' = IF listed THEN pool
                      ELSE [pool EXCEPT !.refs[w.bo] = @ + 1, !.stamp[w.bo] = c]
    /\ want' = [want EXCEPT ![c] = None]
    /\ shown' = <<>>
    /\ UNCHANGED <<data, copy, maps, marks, last, queue>>

-----------------------------------------------------------------------------
(* sgx_batch_flush_at: the render (under frame_lock), then, without the    *)
(* lock, its buffers marked and let go one by one; an application's flush, *)
(* or a draw that finds no room.                                           *)
MayFlush(c) ==
    /\ marks[c] = NoMarks /\ batch[c].draws # <<>>
    /\ want[c] = None \/ ~HasRoom(c)

Submit(c) ==
    /\ MayFlush(c) /\ Len(queue) < MaxQueued
    /\ queue' = Append(queue, [ctx |-> c, draws |-> batch[c].draws, bos |-> batch[c].bos])
    /\ last' = [last EXCEPT ![c] = Len(queue) + 1]
    /\ marks' = [marks EXCEPT ![c] = [bos |-> batch[c].bos, sent |-> TRUE]]
    /\ batch' = [batch EXCEPT ![c] = NewBatch]
    /\ shown' = <<>>
    /\ UNCHANGED <<data, copy, maps, pool, want>>

(* The kernel or the frame refuses the render: its buffers are let go too. *)
SubmitFails(c) ==
    /\ MayFlush(c)
    /\ marks' = [marks EXCEPT ![c] = [bos |-> batch[c].bos, sent |-> FALSE]]
    /\ batch' = [batch EXCEPT ![c] = NewBatch]
    /\ shown' = <<>>
    /\ UNCHANGED <<data, copy, maps, pool, want, last, queue>>

(* The next of them: marked, if its render was sent, and let go.  After    *)
(* the last the batch's stamps are of a batch that was (batch.seq).        *)
Marked(p, c, b) == IF marks[c].sent THEN [p EXCEPT !.busy[b] = last[c]] ELSE p
Unstamp(p, c) == [p EXCEPT !.stamp = [b \in Bos |-> IF @[b] = c THEN None ELSE @[b]]]
Rest(c) == Tail(marks[c].bos)

LetsGo(c, p) ==
    /\ pool' = IF Rest(c) = <<>> THEN Unstamp(p, c) ELSE p
    /\ marks' = [marks EXCEPT ![c] = IF Rest(c) = <<>> THEN NoMarks ELSE [@ EXCEPT !.bos = Rest(c)]]
    /\ shown' = <<>>
    /\ UNCHANGED <<data, copy, maps, batch, want, last, queue>>

Unmarked(c) ==                                                       \* mutant
    marks[c].bos # <<>> /\ LetsGo(c, BoDestroy(pool, Head(marks[c].bos)))

Mark(c) ==
    /\ marks[c].bos # <<>>
    /\ LET b == Head(marks[c].bos) IN LetsGo(c, BoDestroy(Marked(pool, c, b), b))

(* The GPU runs the next render: it reads the memory. *)
Sooner(n) == IF n = 0 THEN 0 ELSE n - 1
RenderRuns ==
    /\ queue # <<>>
    /\ LET ds == Head(queue).draws
       IN  shown' = [i \in DOMAIN ds |-> [p \in DOMAIN ds[i].saw |-> pool.mem[ds[i].bo][p]]]
    /\ queue' = Tail(queue)
    /\ pool' = [pool EXCEPT !.busy = [b \in Bos |-> Sooner(@[b])]]
    /\ last' = [c \in Ctxs |-> Sooner(last[c])]
    /\ UNCHANGED <<data, copy, maps, batch, want, marks>>

(* A step of the contexts with the resources rs, or of the GPU. *)
BuffersStep(rs) ==
    \/ \E c \in Ctxs : Add(c) \/ Submit(c) \/ Mark(c) \/ SubmitFails(c)
    \/ \E c \in Ctxs : \E r \in Uses[c] \cap rs :
          \/ WriteAll(c, r) \/ Map(c, r) \/ Unmap(c, r) \/ GetTexture(c, r)
          \/ \E p \in Parts : Write(c, r, p) \/ WriteUnsync(c, r, p) \/ Poke(c, r, p)
          \/ \E parts \in Reads : GetBuffer(c, r, parts)
    \/ RenderRuns

BuffersNext == BuffersStep(Res)

BuffersSpec == BuffersInit /\ [][BuffersNext]_bufferVars

-----------------------------------------------------------------------------
BuffersTypeOK ==
    /\ data \in [Res -> Contents]
    /\ \A r \in Res : /\ copy[r].bo \in Bos \cup {None} /\ copy[r].dirty \subseteq Parts
                      /\ {copy[r].sync, copy[r].boxes} \subseteq BOOLEAN
    /\ maps \subseteq Bufs
    /\ pool.at \in [Bos -> {"free", "used", "cache"}] /\ pool.refs \in [Bos -> Nat]
    /\ pool.stamp \in [Bos -> Ctxs \cup {None}] /\ pool.busy \in [Bos -> 0..MaxQueued]
    /\ \A c \in Ctxs : /\ Len(batch[c].draws) <= MaxDraws /\ Range(batch[c].bos) \subseteq Bos
                       /\ Range(marks[c].bos) \subseteq Bos /\ last[c] \in 0..MaxQueued
    /\ Len(queue) <= MaxQueued

(* A buffer that the cache may hand out next is read by no gathered draw   *)
(* and by no render that is not done: sgx_bo_idle of what was let go of    *)
(* is all that sgx_bo_cache_get asks.                                      *)
CacheUnread ==
    \A i \in DOMAIN pool.cache :
        LET b == pool.cache[i]
        IN  /\ \A c \in Ctxs : b \notin Range(batch[c].bos \o marks[c].bos)
            /\ Idle(pool, b) => ~Kept(b)

(* The driver keeps the promise of SgxDraws: each render shows its draws   *)
(* what the resources held when the draws were made ("a render reads the   *)
(* old content: the gathered draws or the kernel keep the old copy for     *)
(* it", sgx_resource.c).                                                   *)
Saws(ds) == [i \in DOMAIN ds |-> ds[i].saw]

Draws == INSTANCE SgxDraws WITH
    Values <- 0..MaxWrites,
    content <- data,
    gathered <- [c \in Ctxs |-> Saws(batch[c].draws)],
    sent <- [i \in DOMAIN queue |-> Saws(queue[i].draws)]

DrawsKept == Draws!Spec

(* "whether the gathered draws read bo" (sgx_context.h): a context finds   *)
(* its own gathered draws' buffers stamped.                                *)
StampTold == \A c \in Ctxs : marks[c] = NoMarks => \A b \in Range(batch[c].bos) : BatchReads(c, b)
=============================================================================
