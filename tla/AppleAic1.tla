------------------------------ MODULE AppleAic1 ------------------------------
(***************************************************************************)
(* The A5's interrupt controller, AIC,1: interrupts between the two CPUs,  *)
(* and a device's line.                                                    *)
(* Source: devices/a5/patches/files/drivers/irqchip/irq-apple-aic1.c       *)
(*                                                                         *)
(* The kernel multiplexes its kinds of IPI over the controller's two       *)
(* (ipi_mux, external): a flag per kind in memory, and a controller IPI    *)
(* sent only when the flag was clear.  The flag must never be left set     *)
(* with no IPI on its way, or that kind is gone for good.  The writes to   *)
(* the controller are posted: they sit in the L2's store buffer until a    *)
(* barrier, or a read of the controller, pushes them.                      *)
(***************************************************************************)
EXTENDS Naturals, Sequences

CONSTANTS
    Vipis,       \* the kernel's kinds of IPI (AIC1_NR_SWIPI of them)
    EventLimit   \* events one entry handles: nr_irq * 2 + 16, scaled down

Cpus == {0, 1}
Sides == {"SELF", "OTHER"}   \* AIC1_IPI_SELF, AIC1_IPI_OTHER

ASSUME Aic1Constants == EventLimit \in Nat \ {0}

VARIABLES
    mux,     \* ipi_mux: [bits, enable], each [Cpus -> SUBSET Vipis]
    aic,     \* the controller's IPIs: [pend, mask], each [Cpus -> SUBSET Sides]
    posted,  \* [Cpus -> sequence of writes the store buffer holds]
    task,    \* [Cpus -> [pc, to, k]]: what the CPU runs outside interrupts
    irq,     \* [Cpus -> where in aic1_handle_irq, "none" outside it]
    taken,   \* [Cpus -> events handled in this entry]
    online,  \* the CPUs that are up
    line     \* a device's line: [up, masked, routed, disabled, off, last,
             \* stuck, cut]: asserted, AIC mask, a target CPU set; the kernel's
             \* disabled and masked state; last_hw of CPU0's entry; and two
             \* facts of how an entry left it masked: at the limit of events,
             \* or disabled while its handler ran

aicVars == <<mux, aic, posted, task, irq, taken, online, line>>

IdleTask == [pc |-> "idle", to |-> 0, k |-> ""]

Aic1Init ==
    /\ mux = [bits |-> [c \in Cpus |-> {}],
              enable |-> [c \in Cpus |-> IF c = 0 THEN Vipis ELSE {}]]
    /\ aic = [pend |-> [c \in Cpus |-> {}], mask |-> [c \in Cpus |-> {}]]
    /\ posted = [c \in Cpus |-> <<>>]
    /\ task = [c \in Cpus |-> IdleTask]
    /\ irq = [c \in Cpus |-> "none"]
    /\ taken = [c \in Cpus |-> 0]
    /\ online = {0}
    /\ line = [up |-> FALSE, masked |-> TRUE, routed |-> FALSE,
               disabled |-> TRUE, off |-> TRUE, last |-> FALSE,
               stuck |-> FALSE, cut |-> FALSE]

-----------------------------------------------------------------------------
(* Posted writes. *)
Ack(c) == [op |-> "ack", cpu |-> c, side |-> "OTHER"]
Open(c) == [op |-> "open", cpu |-> c, side |-> "OTHER"]
SendIpi(c, side) == [op |-> "send", cpu |-> c, side |-> side]

Landed(w) ==
    CASE w.op = "ack" -> [aic EXCEPT !.pend[w.cpu] = {}]
      [] w.op = "open" -> [aic EXCEPT !.mask[w.cpu] = {}]
      [] w.op = "send" -> [aic EXCEPT !.pend[w.cpu] = @ \cup {w.side}]

Drain(c) ==
    /\ posted[c] # <<>>
    /\ aic' = Landed(Head(posted[c]))
    /\ posted' = [posted EXCEPT ![c] = Tail(@)]
    /\ UNCHANGED <<mux, task, irq, taken, online, line>>

Post(c, w) == posted' = [posted EXCEPT ![c] = Append(@, w)]

(* wmb(), or a read of the controller: what was posted is out. *)
Barrier(c) == posted[c] = <<>>

-----------------------------------------------------------------------------
(* ipi_mux: the sender sets the flag, and asks for an IPI if it was clear  *)
(* and the receiver has that kind enabled.                                 *)
Running(c) == c \in online /\ irq[c] = "none"

MuxSend(c, d, k) ==
    /\ Running(c) /\ task[c].pc = "idle"
    /\ mux' = [mux EXCEPT !.bits[d] = @ \cup {k}]
    /\ task' = IF k \in mux.bits[d] THEN task
               ELSE [task EXCEPT ![c] = [pc |-> "enabled", to |-> d, k |-> k]]
    /\ UNCHANGED <<aic, posted, irq, taken, online, line>>

MuxEnabled(c) ==
    /\ Running(c) /\ task[c].pc = "enabled"
    /\ task' = [task EXCEPT ![c] =
          IF task[c].k \in mux.enable[task[c].to] THEN [@ EXCEPT !.pc = "send"] ELSE IdleTask]
    /\ UNCHANGED <<mux, aic, posted, irq, taken, online, line>>

(* A CPU unmasks a kind of its own, and sends itself one that is pending. *)
MuxUnmask(c, k) ==
    /\ Running(c) /\ task[c].pc = "idle" /\ k \notin mux.enable[c]
    /\ mux' = [mux EXCEPT !.enable[c] = @ \cup {k}]
    /\ task' = [task EXCEPT ![c] = [pc |-> "pending", to |-> c, k |-> k]]
    /\ UNCHANGED <<aic, posted, irq, taken, online, line>>

MuxPending(c) ==
    /\ Running(c) /\ task[c].pc = "pending"
    /\ task' = [task EXCEPT ![c] =
          IF task[c].k \in mux.bits[c] THEN [@ EXCEPT !.pc = "send"] ELSE IdleTask]
    /\ UNCHANGED <<mux, aic, posted, irq, taken, online, line>>

(* aic1_ipi_send_single: a barrier, the write, a barrier. *)
SendSide(c, d) == IF d = c THEN "SELF" ELSE "OTHER"

SendSingle(c) ==
    /\ Running(c) /\ task[c].pc = "send" /\ Barrier(c)
    /\ Post(c, SendIpi(task[c].to, SendSide(c, task[c].to)))
    /\ task' = [task EXCEPT ![c] = [@ EXCEPT !.pc = "sent"]]
    /\ UNCHANGED <<mux, aic, irq, taken, online, line>>

Sent(c) ==
    /\ Running(c) /\ task[c].pc = "sent" /\ Barrier(c)
    /\ task' = [task EXCEPT ![c] = IdleTask]
    /\ UNCHANGED <<mux, aic, posted, irq, taken, online, line>>

-----------------------------------------------------------------------------
(* aic1_handle_irq.  Only CPU0 takes the line's events.  The events of the *)
(* local timer and of other lines come at any time.                        *)
IpiEvent(c) == aic.pend[c] \ aic.mask[c]
LineEvent(c) == c = 0 /\ line.up /\ line.routed /\ ~line.masked

Enter(c) ==
    /\ Running(c)
    /\ irq' = [irq EXCEPT ![c] = "event"]
    /\ taken' = [taken EXCEPT ![c] = 0]
    /\ line' = IF c = 0 THEN [line EXCEPT !.last = FALSE] ELSE line
    /\ UNCHANGED <<mux, aic, posted, task, online>>

(* aic1_read_event: the controller masks what it delivers. *)
ReadIpi(c) ==
    /\ irq[c] = "event" /\ Barrier(c)
    /\ \E side \in IpiEvent(c) : aic' = [aic EXCEPT !.mask[c] = @ \cup {side}]
    /\ irq' = [irq EXCEPT ![c] = "ipi"]
    /\ UNCHANGED <<mux, posted, task, taken, online, line>>

ReadLine(c) ==
    /\ irq[c] = "event" /\ Barrier(c) /\ LineEvent(c)
    /\ line' = [line EXCEPT !.masked = TRUE, !.last = TRUE]
    /\ irq' = [irq EXCEPT ![c] = "line"]
    /\ UNCHANGED <<mux, aic, posted, task, taken, online>>

ReadNothing(c) ==
    /\ irq[c] = "event" /\ Barrier(c) /\ IpiEvent(c) = {} /\ ~LineEvent(c)
    /\ irq' = [irq EXCEPT ![c] = "none"]
    /\ UNCHANGED <<mux, aic, posted, task, taken, online, line>>

(* The loop's end, l being what the event made of the line: at the limit   *)
(* the line handled last is masked, whatever the events after it were.     *)
Stuck(c, l) ==
    IF c = 0 /\ l.last THEN [l EXCEPT !.masked = TRUE, !.stuck = TRUE] ELSE l

Handled(c, l) ==
    /\ taken' = [taken EXCEPT ![c] = @ + 1]
    /\ irq' = [irq EXCEPT ![c] = IF taken[c] + 1 < EventLimit THEN "event" ELSE "none"]
    /\ line' = IF taken[c] + 1 < EventLimit THEN l ELSE Stuck(c, l)

(* An event of the timer, or of another line, which is last_hw from then.  *)
OtherEvent(c) ==
    /\ irq[c] = "event" /\ Barrier(c)
    /\ \E last \in {line.last, FALSE} :
          Handled(c, IF c = 0 THEN [line EXCEPT !.last = last] ELSE line)
    /\ UNCHANGED <<mux, aic, posted, task, online>>

IpiAckLate(c) ==                                                     \* mutant
    /\ irq[c] = "acked"
    /\ mux' = [mux EXCEPT !.bits[c] = @ \ mux.enable[c]]
    /\ irq' = [irq EXCEPT ![c] = "done"]
    /\ UNCHANGED <<aic, posted, task, taken, online, line>>

(* aic1_handle_ipi: acknowledge both kinds, and a barrier before ... *)
IpiAck(c) ==
    /\ irq[c] = "ipi"
    /\ Post(c, Ack(c))
    /\ irq' = [irq EXCEPT ![c] = "acked"]
    /\ UNCHANGED <<mux, aic, task, taken, online, line>>

(* ... the flags are taken (ipi_mux_process) and their handlers run ... *)
IpiProcess(c) ==
    /\ irq[c] = "acked" /\ Barrier(c)
    /\ mux' = [mux EXCEPT !.bits[c] = @ \ mux.enable[c]]
    /\ irq' = [irq EXCEPT ![c] = "done"]
    /\ UNCHANGED <<aic, posted, task, taken, online, line>>

(* ... and both are opened again. *)
IpiOpen(c) ==
    /\ irq[c] = "done"
    /\ Post(c, Open(c))
    /\ Handled(c, line)
    /\ UNCHANGED <<mux, aic, task, online>>

UnmaskedOnly(l) ==                                                   \* mutant
    [l EXCEPT !.masked = FALSE, !.stuck = FALSE, !.cut = FALSE]

(* aic1_irq_unmask: routed to CPU0 again, and unmasked. *)
Unmasked(l) ==
    [l EXCEPT !.masked = FALSE, !.routed = TRUE, !.stuck = FALSE, !.cut = FALSE]

(* handle_fasteoi_irq: a disabled line is masked by the kernel too, and    *)
(* aic1_irq_eoi leaves it so ...                                           *)
LineRefuse(c) ==
    /\ irq[c] = "line" /\ line.disabled
    /\ Handled(c, [line EXCEPT !.off = TRUE])
    /\ UNCHANGED <<mux, aic, posted, task, online>>

(* ... or the device's handler runs, without the descriptor's lock ...     *)
LineHandle(c) ==
    /\ irq[c] = "line" /\ ~line.disabled
    /\ irq' = [irq EXCEPT ![c] = "handler"]
    /\ UNCHANGED <<mux, aic, posted, task, taken, online, line>>

(* ... and aic1_irq_eoi unmasks the line, unless it is disabled by then.   *)
(* The device may have more at once.                                       *)
LineEoi(c) ==
    /\ irq[c] = "handler"
    /\ \E more \in BOOLEAN :
          LET l == [line EXCEPT !.up = more]
          IN  Handled(c, IF line.disabled THEN [l EXCEPT !.cut = TRUE] ELSE Unmasked(l))
    /\ UNCHANGED <<mux, aic, posted, task, online>>

-----------------------------------------------------------------------------
(* The kernel and the device. *)
LineAssert ==
    /\ ~line.up
    /\ line' = [line EXCEPT !.up = TRUE]
    /\ UNCHANGED <<mux, aic, posted, task, irq, taken, online>>

(* disable_irq, by either CPU, or disable_irq_nosync by the handler, does  *)
(* not touch the chip; enable_irq unmasks what the kernel masked.          *)
LineDisable ==
    /\ (\E c \in Cpus : Running(c)) \/ irq[0] = "handler"
    /\ ~line.disabled
    /\ line' = [line EXCEPT !.disabled = TRUE]
    /\ UNCHANGED <<mux, aic, posted, task, irq, taken, online>>

LineEnable ==
    /\ \E c \in Cpus : Running(c)
    /\ line.disabled
    /\ LET l == [line EXCEPT !.disabled = FALSE, !.off = FALSE]
       IN  line' = IF line.off THEN Unmasked(l) ELSE l
    /\ UNCHANGED <<mux, aic, posted, task, irq, taken, online>>

(* apple_aic1_secondary_init: CPU1 up, its IPIs opened.  The timer set up  *)
(* right after it pushes these writes.                                     *)
SecondaryInit ==
    /\ 1 \notin online
    /\ online' = {0, 1}
    /\ aic' = [aic EXCEPT !.mask[1] = {}]
    /\ UNCHANGED <<mux, posted, task, irq, taken, line>>

(* CPU1 down: the kernel disables its kinds of IPI before it stops. *)
SecondaryDown ==
    /\ Running(1) /\ 1 \in online /\ task[1].pc = "idle" /\ Barrier(1)
    /\ online' = {0}
    /\ mux' = [mux EXCEPT !.enable[1] = {}]
    /\ UNCHANGED <<aic, posted, task, irq, taken, line>>

IrqStep(c) ==
    \/ Enter(c) \/ ReadIpi(c) \/ ReadLine(c) \/ ReadNothing(c)
    \/ IpiAck(c) \/ IpiProcess(c) \/ IpiOpen(c) \/ OtherEvent(c)
    \/ LineRefuse(c) \/ LineHandle(c) \/ LineEoi(c)
TaskStep(c) == MuxEnabled(c) \/ MuxPending(c) \/ SendSingle(c) \/ Sent(c)

CpuStep(c) == Drain(c) \/ IrqStep(c) \/ TaskStep(c)

IpiNext ==
    \/ \E c \in Cpus : CpuStep(c)
    \/ \E c, d \in Cpus, k \in Vipis : MuxSend(c, d, k)
    \/ \E c \in Cpus, k \in Vipis : MuxUnmask(c, k)
    \/ SecondaryInit \/ SecondaryDown

LineNext == LineAssert \/ LineDisable \/ LineEnable

Aic1Next == IpiNext \/ LineNext

Aic1Spec == Aic1Init /\ [][Aic1Next]_aicVars

-----------------------------------------------------------------------------
Aic1TypeOK ==
    /\ mux \in [bits : [Cpus -> SUBSET Vipis], enable : [Cpus -> SUBSET Vipis]]
    /\ aic \in [pend : [Cpus -> SUBSET Sides], mask : [Cpus -> SUBSET Sides]]
    /\ posted \in [Cpus -> Seq([op : {"ack", "open", "send"}, cpu : Cpus, side : Sides])]
    /\ task \in [Cpus -> [pc : {"idle", "enabled", "pending", "send", "sent"}, to : Cpus,
                         k : Vipis \cup {""}]]
    /\ irq \in [Cpus -> {"none", "event", "ipi", "acked", "done", "line", "handler"}]
    /\ taken \in [Cpus -> 0 .. EventLimit]
    /\ online \in {{0}, {0, 1}}
    /\ line \in [up : BOOLEAN, masked : BOOLEAN, routed : BOOLEAN,
                 disabled : BOOLEAN, off : BOOLEAN, last : BOOLEAN,
                 stuck : BOOLEAN, cut : BOOLEAN]

Posted(c, op) == \E i \in DOMAIN posted[c] : posted[c][i].op = op
InFlight(c, d) == \E i \in DOMAIN posted[c] : posted[c][i].op = "send" /\ posted[c][i].cpu = d

(* A sender that has yet to send an IPI for kind k to d. *)
OnItsWay(c, d, k) ==
    \/ task[c].pc \in {"enabled", "pending", "send"} /\ task[c].to = d /\ task[c].k = k
    \/ InFlight(c, d)

(* An IPI that is pending at d, which no posted acknowledgement will wipe, *)
(* and which d takes: not masked, or to be opened.                         *)
Delivers(d) ==
    /\ aic.pend[d] # {} /\ ~Posted(d, "ack")
    /\ ~(aic.pend[d] \subseteq aic.mask[d]) \/ irq[d] = "done" \/ Posted(d, "open")

(* No kind of IPI is gone for good: a flag set and enabled at a CPU that   *)
(* is up always has a controller IPI that it takes, or one on its way, or  *)
(* a handler that has yet to take the flags ("The ack has to land before   *)
(* the vIPI flags are read").                                              *)
NoFlagAlone ==
    \A d \in online : \A k \in mux.bits[d] \cap mux.enable[d] :
        \/ \E c \in Cpus : OnItsWay(c, d, k)
        \/ irq[d] \in {"ipi", "acked"}
        \/ Delivers(d)

(* An enabled line is unmasked and routed outside its handler, whatever it *)
(* went through: the AIC's mask on delivery, disables in any order, the    *)
(* targets cleared at boot.  The code loses a line in two ways, and in no  *)
(* other: to the limit of events, which masks the line an entry handled    *)
(* last (stuck), and to a disable while its handler runs, after which      *)
(* neither aic1_irq_eoi nor enable_irq unmasks it (cut).                   *)
LineKept ==
    (~line.disabled /\ ~line.stuck /\ ~line.cut) =>
        (~line.masked /\ line.routed) \/ irq[0] \in {"line", "handler"}
=============================================================================
