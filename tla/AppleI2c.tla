------------------------------ MODULE AppleI2c ------------------------------
(***************************************************************************)
(* The A5's I2C controller.  Source:                                       *)
(* devices/a5/patches/files-sandcastle-port/drivers/i2c/busses/            *)
(*     i2c-s5l8940x.c                                                      *)
(*                                                                         *)
(* One transfer at a time (i2c->mtx); the caller polls, and calls the      *)
(* interrupt handler itself when the controller has something; the         *)
(* interrupt runs the same handler, on any CPU.  What i2c->lock encloses   *)
(* is one action each.  The handler reads i2c->msg before it has the lock: *)
(* by then the caller may have armed its next message, or returned, and    *)
(* nothing holds the handler off from whatever comes then.                 *)
(*                                                                         *)
(* A message is its direction and its number of bytes, a pointer to one    *)
(* its place in the transfer under way.                                    *)
(***************************************************************************)
EXTENDS Naturals, Sequences

CONSTANTS
    I2cTransfers,  \* what callers ask for: sequences of messages [rd, len]
    FifoChunk,     \* MTXFIFO_CHUNK, scaled down
    StrayLens      \* lengths that memory let go of may read as

(* The I2C core refuses a transfer of no messages.                         *)
ASSUME I2cConstants ==
    /\ I2cTransfers \subseteq Seq([rd : BOOLEAN, len : Nat \ {0}]) \ {<<>>}
    /\ FifoChunk \in Nat \ {0, 1}
    /\ StrayLens \subseteq Nat

Gone == 0    \* a pointer to a message whose transfer is over

VARIABLES
    i2c,    \* struct apple_s5l8940x_i2c: [msg, tx, ptr, error, done]
    bus,    \* the controller: [mask, st, out, toread, rx]: IRQMASK, SMSTA,
            \* words of MTXFIFO, bytes to read, bytes in MRXFIFO
    xfer,   \* the caller: [pc, msgs, n, got, res]: its n-th message, the
            \* bytes a combined read has
    i2cIrq, \* the interrupt: [pc, msg], "event" once the CPU has taken it
    late    \* since the last transfer began, a handler served the controller
            \* with a message that i2c->msg was no longer, or that was gone

i2cVars == <<i2c, bus, xfer, i2cIrq, late>>

Quiet == [mask |-> {}, st |-> {}, out |-> 0, toread |-> 0, rx |-> 0]

I2cInit ==
    /\ i2c = [msg |-> Gone, tx |-> 0, ptr |-> 0, error |-> "ok", done |-> FALSE]
    /\ bus = Quiet
    /\ xfer = [pc |-> "idle", msgs |-> <<>>, n |-> 0, got |-> 0, res |-> "ok"]
    /\ i2cIrq = [pc |-> "none", msg |-> Gone]
    /\ late = FALSE

Smaller(a, b) == IF a <= b THEN a ELSE b
Left(all, some) == IF some < all THEN all - some ELSE 0
Msg(n) == xfer.msgs[n]

(* What a pointer to a message finds. *)
Stray == [rd : BOOLEAN, len : StrayLens]
Found(p) == IF p = Gone THEN Stray ELSE {Msg(p)}

ReadBits == {"MTN", "RXDONE", "ERROR"}
WriteBits == {"MTN", "XEN", "ERROR"}

-----------------------------------------------------------------------------
(* apple_s5l8940x_i2c_do_xfer: the controller is reset; a register read is *)
(* one combined transaction, polled, with i2c->msg left alone.             *)
Combined(msgs) == Len(msgs) = 2 /\ ~msgs[1].rd /\ msgs[2].rd

ResetBus == [Quiet EXCEPT !.st = bus.st \cap {"RXDONE"}]

DoXfer ==
    /\ xfer.pc = "idle"
    /\ \E t \in I2cTransfers :
          xfer' = [pc |-> IF Combined(t) THEN "combined" ELSE "start",
                   msgs |-> t, n |-> 1, got |-> 0, res |-> "ok"]
    /\ bus' = ResetBus
    /\ late' = FALSE
    /\ UNCHANGED <<i2c, i2cIrq>>

(* The transfer returns, and its messages go. *)
Over(res, done) ==
    /\ xfer' = [xfer EXCEPT !.pc = "idle", !.res = res]
    /\ i2c' = [i2c EXCEPT !.msg = Gone, !.done = done]
    /\ i2cIrq' = [i2cIrq EXCEPT !.msg = Gone]

(* apple_s5l8940x_i2c_xfer_combined: START and the bytes to write, START   *)
(* and the read, all queued ...                                            *)
XferCombined ==
    /\ xfer.pc = "combined"
    /\ bus' = [bus EXCEPT !.st = @ \ {"XEN", "MTN"}, !.out = @ + Msg(1).len + 3,
                          !.toread = @ + Msg(2).len]
    /\ xfer' = [xfer EXCEPT !.pc = "bytes"]
    /\ UNCHANGED <<i2c, i2cIrq, late>>

(* ... then each byte from MRXFIFO as it comes ...                         *)
CombinedByte ==
    /\ xfer.pc = "bytes" /\ bus.rx > 0
    /\ bus' = [bus EXCEPT !.rx = @ - 1]
    /\ IF xfer.got + 1 < Msg(2).len
       THEN xfer' = [xfer EXCEPT !.got = @ + 1] /\ UNCHANGED <<i2c, i2cIrq>>
       ELSE Over("ok", i2c.done)
    /\ UNCHANGED late

(* ... unless the device does not answer ...                               *)
CombinedNak ==
    /\ xfer.pc = "bytes" /\ bus.rx = 0 /\ "MTN" \in bus.st
    /\ bus' = [bus EXCEPT !.st = @ \ {"MTN"}]
    /\ Over("nak", i2c.done)
    /\ UNCHANGED late

(* ... or 100 ms pass without a byte; the controller goes on.              *)
CombinedTimeout ==
    /\ xfer.pc = "bytes" /\ bus.rx = 0
    /\ Over("timeout", i2c.done)
    /\ UNCHANGED <<bus, late>>

StartUndone == i2c.done                                              \* mutant
Reinit == FALSE    \* reinit_completion

(* apple_s5l8940x_i2c_xfer_msg, under the lock. *)
XferMsg ==
    LET m == Msg(xfer.n)
        first == IF m.rd THEN 0 ELSE Smaller(m.len, FifoChunk - 1)
    IN  /\ xfer.pc = "start"
        /\ i2c' = [msg |-> xfer.n, tx |-> first, ptr |-> 0, error |-> "ok", done |-> Reinit]
        /\ bus' = [bus EXCEPT !.mask = IF m.rd THEN ReadBits ELSE WriteBits,
                              !.out = @ + 1 + first,
                              !.toread = @ + IF m.rd THEN m.len ELSE 0]
        /\ xfer' = [xfer EXCEPT !.pc = "poll"]
        /\ UNCHANGED <<i2cIrq, late>>

-----------------------------------------------------------------------------
(* apple_s5l8940x_i2c_irq under the lock, m being what it read of i2c->msg *)
(* before, and c what i2c->msg is now: continue_read and continue_write    *)
(* look again.                                                             *)
ContinueWriteShort(c) ==                                             \* mutant
    Smaller(Left(c.len - 1, i2c.tx), FifoChunk)
ContinueWrite(c) == Smaller(Left(c.len, i2c.tx), FifoChunk)
ContinueRead(c) == Smaller(bus.rx, Left(c.len, i2c.ptr))

Complete(err) == i2c' = [i2c EXCEPT !.error = err, !.done = TRUE]

(* The message is complete, or the bits it waits for are enabled. *)
Goes(m, now, b, bits) ==
    /\ i2c' = [now EXCEPT !.done = @ \/ now.ptr >= m.len]
    /\ bus' = [b EXCEPT !.mask = IF now.ptr < m.len THEN bits ELSE {}]

Service(m, c) ==
    LET acked == [bus EXCEPT !.st = {}, !.mask = {}]
        more == IF i2c.tx < m.len THEN ContinueWrite(c) ELSE 0
    IN  \/ "ERROR" \in bus.st /\ Complete("io") /\ bus' = acked
        \/ "ERROR" \notin bus.st /\ "MTN" \in bus.st /\ Complete("nak") /\ bus' = acked
        \/ /\ bus.st \cap {"ERROR", "MTN"} = {}
           /\ IF m.rd
              THEN Goes(m, [i2c EXCEPT !.ptr = @ + ContinueRead(c)],
                        [acked EXCEPT !.rx = 0], ReadBits)
              ELSE IF "XEN" \in bus.st
              THEN Goes(m, [i2c EXCEPT !.ptr = i2c.tx, !.tx = @ + more],
                        [acked EXCEPT !.out = @ + more], WriteBits)
              ELSE Goes(m, i2c, acked, WriteBits)

(* The caller's poll: it sees a status, and serves it once it has the lock *)
(* -- or the interrupt has by then.                                        *)
PollSees ==
    /\ xfer.pc = "poll" /\ bus.st # {}
    /\ xfer' = [xfer EXCEPT !.pc = "serve"]
    /\ UNCHANGED <<i2c, bus, i2cIrq, late>>

PollService ==
    /\ xfer.pc = "serve"
    /\ Service(Msg(xfer.n), Msg(xfer.n))
    /\ xfer' = [xfer EXCEPT !.pc = "try"]
    /\ UNCHANGED <<i2cIrq, late>>

(* try_wait_for_completion: the message is over: the next one, or the      *)
(* transfer's end.                                                         *)
TryWait ==
    /\ xfer.pc \in {"poll", "try"}
    /\ IF ~i2c.done
       THEN xfer' = [xfer EXCEPT !.pc = "poll"] /\ UNCHANGED <<i2c, i2cIrq>>
       ELSE IF i2c.error = "ok" /\ xfer.n < Len(xfer.msgs)
       THEN /\ xfer' = [xfer EXCEPT !.pc = "start", !.n = @ + 1]
            /\ i2c' = [i2c EXCEPT !.done = FALSE]
            /\ UNCHANGED i2cIrq
       ELSE Over(i2c.error, FALSE)
    /\ UNCHANGED <<bus, late>>

(* 100 ms: the controller is reset. *)
PollTimeout ==
    /\ xfer.pc = "poll"
    /\ bus' = ResetBus
    /\ Over("timeout", i2c.done)
    /\ UNCHANGED late

(* The interrupt: taken; at some later point the message is read; and      *)
(* later still the lock is had.                                            *)
I2cIrqEvent ==
    /\ i2cIrq.pc = "none" /\ bus.st \cap bus.mask # {}
    /\ i2cIrq' = [i2cIrq EXCEPT !.pc = "event"]
    /\ UNCHANGED <<i2c, bus, xfer, late>>

I2cIrqMsg ==
    /\ i2cIrq.pc = "event"
    /\ i2cIrq' = [pc |-> "lock", msg |-> i2c.msg]
    /\ UNCHANGED <<i2c, bus, xfer, late>>

I2cIrqService ==
    /\ i2cIrq.pc = "lock"
    /\ \E m \in Found(i2cIrq.msg), c \in Found(i2c.msg) :
          /\ i2cIrq.msg = i2c.msg => m = c
          /\ Service(m, c)
    /\ i2cIrq' = [pc |-> "none", msg |-> Gone]
    /\ late' = (late \/ i2cIrq.msg # i2c.msg \/ i2c.msg = Gone)
    /\ UNCHANGED xfer

-----------------------------------------------------------------------------
(* The controller and the devices (external): a word goes out, a byte      *)
(* comes in, a device does not answer, the bus fails.                      *)
BusOut ==
    /\ bus.out > 0
    /\ bus' = [bus EXCEPT !.out = 0,
                  !.st = @ \cup IF bus.toread = 0 THEN {"XEN"} ELSE {}]
    /\ UNCHANGED <<i2c, xfer, i2cIrq, late>>

BusIn ==
    /\ bus.out = 0 /\ bus.toread > 0
    /\ bus' = [bus EXCEPT !.toread = @ - 1, !.rx = @ + 1,
                  !.st = @ \cup IF bus.toread = 1 THEN {"RXDONE"} ELSE {}]
    /\ UNCHANGED <<i2c, xfer, i2cIrq, late>>

BusFails ==
    /\ bus.out > 0
    /\ \E bit \in {"MTN", "ERROR"} :
          bus' = [bus EXCEPT !.out = 0, !.toread = 0, !.st = @ \cup {bit}]
    /\ UNCHANGED <<i2c, xfer, i2cIrq, late>>

BusStep == BusOut \/ BusIn \/ BusFails

I2cNext ==
    \/ DoXfer \/ XferCombined \/ CombinedByte \/ CombinedNak \/ CombinedTimeout
    \/ XferMsg \/ PollSees \/ PollService \/ TryWait \/ PollTimeout
    \/ I2cIrqEvent \/ I2cIrqMsg \/ I2cIrqService
    \/ BusStep

I2cSpec == I2cInit /\ [][I2cNext]_i2cVars

-----------------------------------------------------------------------------
I2cTypeOK ==
    /\ i2c.msg \in Nat /\ i2c.tx \in Nat /\ i2c.ptr \in Nat
    /\ i2c.error \in {"ok", "io", "nak"} /\ i2c.done \in BOOLEAN
    /\ bus.mask \in {{}, ReadBits, WriteBits}
    /\ bus.st \subseteq ReadBits \cup WriteBits
    /\ {bus.out, bus.toread, bus.rx} \subseteq Nat
    /\ xfer.pc \in {"idle", "combined", "bytes", "start", "poll", "serve", "try"}
    /\ i2cIrq.pc \in {"none", "event", "lock"} /\ i2cIrq.msg \in Nat
    /\ late \in BOOLEAN

(* A message that ends well has all its bytes in its own buffer, or out of *)
(* it, whatever the poll and the interrupt did of it in which order: "a    *)
(* second complete() is undone ... at the next message".  The code does    *)
(* not keep this from a handler that read i2c->msg before the message was  *)
(* armed, or after its transfer was over (late).                           *)
DoneIsWhole ==
    [][(xfer.pc \in {"poll", "try"} /\ i2c.done /\ ~i2c'.done /\ i2c.error = "ok" /\ ~late)
          => IF Msg(xfer.n).rd THEN i2c.ptr = Msg(xfer.n).len /\ bus.toread + bus.rx = 0
             ELSE i2c.tx = Msg(xfer.n).len /\ bus.out = 0]_i2cVars

(* A message never waits for nothing: while it is not done, the controller *)
(* has more to send or to receive, or a status or bytes the poll will see. *)
(* The 100 ms pass only for a device that holds the bus -- or when a late  *)
(* handler took the status, or a combined read's bytes, for its own.       *)
NeverStalls ==
    ~late =>
        /\ (xfer.pc \in {"poll", "try"} /\ ~i2c.done) =>
              bus.out > 0 \/ bus.toread > 0 \/ bus.st # {}
        /\ xfer.pc = "bytes" =>
              bus.out > 0 \/ bus.toread > 0 \/ bus.rx > 0 \/ bus.st \cap {"MTN", "ERROR"} # {}
=============================================================================
