-------------------------- MODULE AppleAic1_proofs --------------------------
(***************************************************************************)
(* No kind of IPI and no line is lost, for any kinds of IPI and any limit  *)
(* of events.                                                              *)
(***************************************************************************)
EXTENDS AppleAic1, TLAPS

Writes == [op : {"ack", "open", "send"}, cpu : Cpus, side : Sides]

(* The barriers leave one posted write at a time, and where it was posted  *)
(* tells what it is.                                                       *)
Store(c) ==
    \/ posted[c] = <<>>
    \/ posted[c] = <<Ack(c)>> /\ irq[c] = "acked"
    \/ posted[c] = <<Open(c)>> /\ irq[c] \in {"none", "event"}
    \/ \E d \in Cpus : \E s \in Sides : posted[c] = <<SendIpi(d, s)>> /\ irq[c] \in {"none", "event"}

(* What the controller masked on delivery is being handled, or an opening  *)
(* write is on its way.                                                    *)
MaskOwned(c) ==
    aic.mask[c] = {} \/ irq[c] \in {"ipi", "acked", "done"} \/ posted[c] = <<Open(c)>>

(* A CPU that is down has nothing enabled and nothing masked. *)
Down(c) ==
    c \notin online =>
        /\ mux.enable[c] = {} /\ aic.mask[c] = {}
        /\ irq[c] = "none" /\ posted[c] = <<>> /\ task[c].pc = "idle"

(* Inside a handler there is an event left to handle. *)
Counting(c) == irq[c] # "none" => taken[c] < EventLimit

(* A CPU that unmasked a kind of IPI looks at its own flags. *)
Asking(c) == task[c].pc = "pending" => task[c].to = c

LineStates == [up : BOOLEAN, masked : BOOLEAN, routed : BOOLEAN, disabled : BOOLEAN,
          off : BOOLEAN, last : BOOLEAN, stuck : BOOLEAN, cut : BOOLEAN]

(* A line that neither the kernel nor an entry's end left masked goes on,  *)
(* and only a disabled line is masked by the kernel.                       *)
Safe(l, handled) ==
    /\ ~l.off /\ ~l.stuck /\ ~l.cut => (~l.masked /\ l.routed) \/ handled
    /\ ~l.disabled => ~l.off

LineOpen == Safe(line, irq[0] \in {"line", "handler"})

Aic1Inv ==
    /\ Aic1TypeOK
    /\ \A c \in Cpus : Store(c) /\ MaskOwned(c) /\ Down(c) /\ Counting(c) /\ Asking(c)
    /\ NoFlagAlone
    /\ LineOpen

(* A flag that is not alone. *)
Served(d, k) ==
    \/ \E c \in Cpus : OnItsWay(c, d, k)
    \/ irq[d] \in {"ipi", "acked"}
    \/ Delivers(d)

USE Aic1Constants

LEMMA Aic1Start == Aic1Init => Aic1Inv
<1> SUFFICES ASSUME Aic1Init PROVE Aic1Inv
  OBVIOUS
<1>1. Aic1TypeOK
  <2>1. /\ mux \in [bits : [Cpus -> SUBSET Vipis], enable : [Cpus -> SUBSET Vipis]]
        /\ aic \in [pend : [Cpus -> SUBSET Sides], mask : [Cpus -> SUBSET Sides]]
    BY DEF Aic1Init
  <2>2. posted \in [Cpus -> Seq(Writes)]
    BY DEF Aic1Init
  <2>3. task \in [Cpus -> [pc : {"idle", "enabled", "pending", "send", "sent"}, to : Cpus,
                          k : Vipis \cup {""}]]
    BY DEF Aic1Init, IdleTask, Cpus
  <2>4. /\ irq \in [Cpus -> {"none", "event", "ipi", "acked", "done", "line", "handler"}]
        /\ taken \in [Cpus -> 0 .. EventLimit]
        /\ online \in {{0}, {0, 1}}
    BY DEF Aic1Init
  <2>5. line \in LineStates
    BY DEF Aic1Init, LineStates
  <2> QED
    BY <2>1, <2>2, <2>3, <2>4, <2>5 DEF Aic1TypeOK, Writes, LineStates
<1>2. \A c \in Cpus : Store(c) /\ MaskOwned(c) /\ Down(c) /\ Counting(c) /\ Asking(c)
  BY DEF Aic1Init, Store, MaskOwned, Down, Counting, Asking, Cpus, IdleTask
<1>3. NoFlagAlone
  BY DEF Aic1Init, NoFlagAlone, Cpus
<1>4. LineOpen
  BY DEF Aic1Init, LineOpen, Safe, Cpus
<1> QED
  BY <1>1, <1>2, <1>3, <1>4 DEF Aic1Inv

-----------------------------------------------------------------------------
(* What a store buffer says: empty, with one write, or unchanged. *)
LEMMA PostedNone ==
    ASSUME NEW c, posted[c] = <<>>
    PROVE  /\ \A op : ~Posted(c, op)
           /\ \A d : ~InFlight(c, d)
BY DEF Posted, InFlight

LEMMA PostedOne ==
    ASSUME NEW c, NEW w, posted[c] = <<w>>
    PROVE  /\ \A op : Posted(c, op) <=> w.op = op
           /\ \A d : InFlight(c, d) <=> w.op = "send" /\ w.cpu = d
<1>1. DOMAIN posted[c] = {1} /\ posted[c][1] = w
  OBVIOUS
<1> QED
  BY <1>1 DEF Posted, InFlight

LEMMA PostedNext ==
    ASSUME NEW c, NEW w, posted'[c] = <<w>>
    PROVE  /\ \A op : Posted(c, op)' <=> w.op = op
           /\ \A d : InFlight(c, d)' <=> w.op = "send" /\ w.cpu = d
<1>1. DOMAIN (posted'[c]) = {1} /\ posted'[c][1] = w
  OBVIOUS
<1> QED
  BY <1>1 DEF Posted, InFlight

LEMMA PostedGone ==
    ASSUME NEW c, posted'[c] = <<>>
    PROVE  /\ \A op : ~Posted(c, op)'
           /\ \A d : ~InFlight(c, d)'
BY DEF Posted, InFlight

LEMMA PostedSame ==
    ASSUME NEW c, posted'[c] = posted[c]
    PROVE  /\ \A op : Posted(c, op)' <=> Posted(c, op)
           /\ \A d : InFlight(c, d)' <=> InFlight(c, d)
BY DEF Posted, InFlight

LEMMA PostOne ==
    ASSUME Aic1TypeOK, NEW c \in Cpus, NEW w \in Writes, Post(c, w), posted[c] = <<>>
    PROVE  /\ posted' \in [Cpus -> Seq(Writes)]
           /\ posted'[c] = <<w>>
           /\ \A f \in Cpus \ {c} : posted'[f] = posted[f]
<1>1. posted \in [Cpus -> Seq(Writes)]
  BY DEF Aic1TypeOK, Writes
<1>2. posted' = [posted EXCEPT ![c] = <<w>>]
  <2>1. Append(<<>>, w) = <<w>>
    OBVIOUS
  <2> QED
    BY <1>1, <2>1 DEF Post
<1>3. <<w>> \in Seq(Writes)
  OBVIOUS
<1> QED
  BY <1>1, <1>2, <1>3

(* Task c still has to send an IPI for kind k to d. *)
Asks(c, d, k) ==
    task[c].pc \in {"enabled", "pending", "send"} /\ task[c].to = d /\ task[c].k = k

(* A flag stays served by a step that posts nothing, leaves the receiver's *)
(* IPIs and its handler's place, and takes no sender away.                 *)
LEMMA ServedStays ==
    ASSUME NEW d \in Cpus, NEW k, Served(d, k), UNCHANGED posted,
           \A c \in Cpus : Asks(c, d, k) => Asks(c, d, k)',
           aic'.pend[d] = aic.pend[d], aic'.mask[d] = aic.mask[d],
           irq[d] \in {"ipi", "acked", "done"} => irq'[d] = irq[d]
    PROVE  Served(d, k)'
<1>1. \A c \in Cpus : OnItsWay(c, d, k) => OnItsWay(c, d, k)'
  BY PostedSame DEF OnItsWay, Asks
<1>2. Delivers(d) => Delivers(d)'
  <2>1. \A op : Posted(d, op)' <=> Posted(d, op)
    BY PostedSame
  <2> QED
    BY <2>1 DEF Delivers
<1> QED
  BY <1>1, <1>2 DEF Served

-----------------------------------------------------------------------------
(* A step of a CPU keeps the invariant. *)
LEMMA MuxSendKeeps ==
    ASSUME NEW c \in Cpus, NEW e \in Cpus, NEW k \in Vipis, Aic1Inv, MuxSend(c, e, k)
    PROVE  Aic1Inv'
<1>1. Aic1TypeOK'
  BY DEF MuxSend, Running, Aic1Inv, Aic1TypeOK, Cpus, Sides
<1>2. \A f \in Cpus : Store(f)' /\ MaskOwned(f)' /\ Down(f)' /\ Counting(f)' /\ Asking(f)'
  <2>1. c \in online
    BY DEF MuxSend, Running, Aic1Inv, Down
  <2>2. \A f \in Cpus \ {c} : task'[f] = task[f] /\ irq'[f] = irq[f] /\ taken'[f] = taken[f]
    BY DEF MuxSend, Aic1Inv, Aic1TypeOK
  <2>0. \A f \in Cpus : mux'.enable[f] = mux.enable[f]
    BY DEF MuxSend, Aic1Inv, Aic1TypeOK
  <2>3. ASSUME NEW f \in Cpus \ {c}
        PROVE  Store(f)' /\ MaskOwned(f)' /\ Down(f)' /\ Counting(f)' /\ Asking(f)'
    BY <2>0, <2>2 DEF MuxSend, Aic1Inv, Store, MaskOwned, Down, Counting, Asking
  <2>4. task'[c].pc # "pending"
    BY DEF MuxSend, Aic1Inv, Aic1TypeOK
  <2>5. Store(c)' /\ MaskOwned(c)' /\ Down(c)' /\ Counting(c)' /\ Asking(c)'
    BY <2>0, <2>1, <2>4 DEF MuxSend, Aic1Inv, Store, MaskOwned, Down, Counting, Asking
  <2> QED
    BY <2>3, <2>5
<1>3. NoFlagAlone'
  <2> SUFFICES ASSUME NEW d \in online', NEW j \in (mux.bits[d] \cap mux.enable[d])'
               PROVE  Served(d, j)'
    BY DEF NoFlagAlone, Served
  <2>1. d \in Cpus
    BY <1>1 DEF Aic1TypeOK, Cpus
  <2>2. CASE d = e /\ j = k /\ k \notin mux.bits[e]
    <3>1. Asks(c, d, j)'
      BY <2>1, <2>2 DEF MuxSend, Aic1Inv, Aic1TypeOK, Asks
    <3> QED
      BY <3>1 DEF Asks, Served, OnItsWay
  <2>3. CASE ~(d = e /\ j = k /\ k \notin mux.bits[e])
    <3>1. Served(d, j)
      BY <2>1, <2>3 DEF MuxSend, Aic1Inv, Aic1TypeOK, NoFlagAlone, Served
    <3> QED
      BY <2>1, <3>1, ServedStays DEF MuxSend, Aic1Inv, Aic1TypeOK, Asks
  <2> QED
    BY <2>2, <2>3
<1>4. LineOpen'
  BY DEF MuxSend, Running, Aic1Inv, Aic1TypeOK, LineOpen, Safe, Cpus
<1> QED
  BY <1>1, <1>2, <1>3, <1>4 DEF Aic1Inv

LEMMA MuxEnabledKeeps ==
    ASSUME NEW c \in Cpus, Aic1Inv, MuxEnabled(c)
    PROVE  Aic1Inv'
<1>1. Aic1TypeOK'
  <2>1. task \in [Cpus -> [pc : {"idle", "enabled", "pending", "send", "sent"}, to : Cpus,
                           k : Vipis \cup {""}]]
    BY DEF Aic1Inv, Aic1TypeOK
  <2>2. IdleTask \in [pc : {"idle", "enabled", "pending", "send", "sent"}, to : Cpus,
                      k : Vipis \cup {""}]
    BY DEF IdleTask, Cpus
  <2>3. task' \in [Cpus -> [pc : {"idle", "enabled", "pending", "send", "sent"}, to : Cpus,
                           k : Vipis \cup {""}]]
    BY <2>1, <2>2 DEF MuxEnabled
  <2> QED
    BY <2>3 DEF MuxEnabled, Aic1Inv, Aic1TypeOK
<1>2. \A f \in Cpus : Store(f)' /\ MaskOwned(f)' /\ Down(f)' /\ Counting(f)' /\ Asking(f)'
  <2>1. c \in online
    BY DEF MuxEnabled, Running, Aic1Inv, Down
  <2>2. \A f \in Cpus \ {c} : task'[f] = task[f] /\ irq'[f] = irq[f] /\ taken'[f] = taken[f]
    BY DEF MuxEnabled, Aic1Inv, Aic1TypeOK
  <2>3. ASSUME NEW f \in Cpus \ {c}
        PROVE  Store(f)' /\ MaskOwned(f)' /\ Down(f)' /\ Counting(f)' /\ Asking(f)'
    BY <2>2 DEF MuxEnabled, Aic1Inv, Store, MaskOwned, Down, Counting, Asking
  <2>4. task'[c].pc # "pending"
    BY DEF MuxEnabled, Aic1Inv, Aic1TypeOK, IdleTask
  <2>5. Store(c)' /\ MaskOwned(c)' /\ Down(c)' /\ Counting(c)' /\ Asking(c)'
    BY <2>1, <2>4 DEF MuxEnabled, Aic1Inv, Store, MaskOwned, Down, Counting, Asking
  <2> QED
    BY <2>3, <2>5
<1>3. NoFlagAlone'
  <2> SUFFICES ASSUME NEW d \in online', NEW j \in (mux.bits[d] \cap mux.enable[d])'
               PROVE  Served(d, j)'
    BY DEF NoFlagAlone, Served
  <2>1. d \in Cpus
    BY <1>1 DEF Aic1TypeOK, Cpus
  <2>2. Served(d, j)
    BY <2>1 DEF MuxEnabled, Aic1Inv, Aic1TypeOK, NoFlagAlone, Served
  <2>3. Asks(c, d, j) => Asks(c, d, j)'
    BY <2>1 DEF MuxEnabled, Aic1Inv, Aic1TypeOK, Asks
  <2>4. \A f \in Cpus \ {c} : task'[f] = task[f]
    BY DEF MuxEnabled, Aic1Inv, Aic1TypeOK
  <2>5. \A f \in Cpus : Asks(f, d, j) => Asks(f, d, j)'
    BY <2>3, <2>4 DEF Asks
  <2> QED
    BY <2>1, <2>2, <2>5, ServedStays DEF MuxEnabled
<1>4. LineOpen'
  BY DEF MuxEnabled, Running, Aic1Inv, Aic1TypeOK, LineOpen, Safe, Cpus, IdleTask
<1> QED
  BY <1>1, <1>2, <1>3, <1>4 DEF Aic1Inv

LEMMA MuxUnmaskKeeps ==
    ASSUME NEW c \in Cpus, NEW k \in Vipis, Aic1Inv, MuxUnmask(c, k)
    PROVE  Aic1Inv'
<1>1. Aic1TypeOK'
  BY DEF MuxUnmask, Running, Aic1Inv, Aic1TypeOK, Cpus, Sides
<1>2. \A f \in Cpus : Store(f)' /\ MaskOwned(f)' /\ Down(f)' /\ Counting(f)' /\ Asking(f)'
  BY DEF MuxUnmask, Running, Aic1Inv, Aic1TypeOK, Store, MaskOwned, Down, Counting, Asking, Cpus, Sides
<1>3. NoFlagAlone'
  <2> SUFFICES ASSUME NEW d \in online', NEW j \in (mux.bits[d] \cap mux.enable[d])'
               PROVE  Served(d, j)'
    BY DEF NoFlagAlone, Served
  <2>1. d \in Cpus
    BY <1>1 DEF Aic1TypeOK, Cpus
  <2>2. CASE d = c /\ j = k
    <3>1. Asks(c, d, j)'
      BY <2>1, <2>2 DEF MuxUnmask, Aic1Inv, Aic1TypeOK, Asks
    <3> QED
      BY <3>1 DEF Asks, Served, OnItsWay
  <2>3. CASE ~(d = c /\ j = k)
    <3>1. Served(d, j)
      BY <2>1, <2>3 DEF MuxUnmask, Aic1Inv, Aic1TypeOK, NoFlagAlone, Served
    <3> QED
      BY <2>1, <3>1, ServedStays DEF MuxUnmask, Aic1Inv, Aic1TypeOK, Asks
  <2> QED
    BY <2>2, <2>3
<1>4. LineOpen'
  BY DEF MuxUnmask, Running, Aic1Inv, Aic1TypeOK, LineOpen, Safe, Cpus
<1> QED
  BY <1>1, <1>2, <1>3, <1>4 DEF Aic1Inv

LEMMA MuxPendingKeeps ==
    ASSUME NEW c \in Cpus, Aic1Inv, MuxPending(c)
    PROVE  Aic1Inv'
<1>1. Aic1TypeOK'
  <2>1. task \in [Cpus -> [pc : {"idle", "enabled", "pending", "send", "sent"}, to : Cpus,
                           k : Vipis \cup {""}]]
    BY DEF Aic1Inv, Aic1TypeOK
  <2>2. IdleTask \in [pc : {"idle", "enabled", "pending", "send", "sent"}, to : Cpus,
                      k : Vipis \cup {""}]
    BY DEF IdleTask, Cpus
  <2>3. task' \in [Cpus -> [pc : {"idle", "enabled", "pending", "send", "sent"}, to : Cpus,
                           k : Vipis \cup {""}]]
    BY <2>1, <2>2 DEF MuxPending
  <2> QED
    BY <2>3 DEF MuxPending, Aic1Inv, Aic1TypeOK
<1>2. \A f \in Cpus : Store(f)' /\ MaskOwned(f)' /\ Down(f)' /\ Counting(f)' /\ Asking(f)'
  <2>1. c \in online
    BY DEF MuxPending, Running, Aic1Inv, Down
  <2>2. \A f \in Cpus \ {c} : task'[f] = task[f] /\ irq'[f] = irq[f] /\ taken'[f] = taken[f]
    BY DEF MuxPending, Aic1Inv, Aic1TypeOK
  <2>3. ASSUME NEW f \in Cpus \ {c}
        PROVE  Store(f)' /\ MaskOwned(f)' /\ Down(f)' /\ Counting(f)' /\ Asking(f)'
    BY <2>2 DEF MuxPending, Aic1Inv, Store, MaskOwned, Down, Counting, Asking
  <2>4. task'[c].pc # "pending"
    BY DEF MuxPending, Aic1Inv, Aic1TypeOK, IdleTask
  <2>5. Store(c)' /\ MaskOwned(c)' /\ Down(c)' /\ Counting(c)' /\ Asking(c)'
    BY <2>1, <2>4 DEF MuxPending, Aic1Inv, Store, MaskOwned, Down, Counting, Asking
  <2> QED
    BY <2>3, <2>5
<1>3. NoFlagAlone'
  <2> SUFFICES ASSUME NEW d \in online', NEW j \in (mux.bits[d] \cap mux.enable[d])'
               PROVE  Served(d, j)'
    BY DEF NoFlagAlone, Served
  <2>1. d \in Cpus
    BY <1>1 DEF Aic1TypeOK, Cpus
  <2>2. Served(d, j)
    BY <2>1 DEF MuxPending, Aic1Inv, Aic1TypeOK, NoFlagAlone, Served
  <2>3. Asks(c, d, j) => Asks(c, d, j)'
    <3>1. HAVE Asks(c, d, j)
    <3>2. task[c].to = d /\ task[c].k = j
      BY <3>1 DEF Asks
    <3>3. d = c
      BY <3>2 DEF MuxPending, Aic1Inv, Asking
    <3>4. task[c].k \in mux.bits[c]
      BY <3>2, <3>3 DEF MuxPending
    <3>5. task'[c] = [task[c] EXCEPT !.pc = "send"]
      BY <3>4 DEF MuxPending, Aic1Inv, Aic1TypeOK
    <3>6. task'[c].pc = "send" /\ task'[c].to = task[c].to /\ task'[c].k = task[c].k
      <4>1. task[c] \in [pc : {"idle", "enabled", "pending", "send", "sent"}, to : Cpus,
                         k : Vipis \cup {""}]
        BY DEF Aic1Inv, Aic1TypeOK
      <4> QED
        BY <3>5, <4>1
    <3> QED
      BY <3>2, <3>6 DEF Asks
  <2>4. \A f \in Cpus \ {c} : task'[f] = task[f]
    BY DEF MuxPending, Aic1Inv, Aic1TypeOK
  <2>5. \A f \in Cpus : Asks(f, d, j) => Asks(f, d, j)'
    BY <2>3, <2>4 DEF Asks
  <2> QED
    BY <2>1, <2>2, <2>5, ServedStays DEF MuxPending
<1>4. LineOpen'
  BY DEF MuxPending, Running, Aic1Inv, Aic1TypeOK, LineOpen, Safe, Cpus, IdleTask
<1> QED
  BY <1>1, <1>2, <1>3, <1>4 DEF Aic1Inv

LEMMA SendSingleKeeps ==
    ASSUME NEW c \in Cpus, Aic1Inv, SendSingle(c)
    PROVE  Aic1Inv'
<1>1. /\ posted[c] = <<>>
      /\ posted' \in [Cpus -> Seq(Writes)]
      /\ posted'[c] = <<SendIpi(task[c].to, SendSide(c, task[c].to))>>
      /\ \A f \in Cpus \ {c} : posted'[f] = posted[f]
  <2>1. SendIpi(task[c].to, SendSide(c, task[c].to)) \in Writes
    BY DEF Aic1Inv, Aic1TypeOK, SendIpi, SendSide, Writes, Sides
  <2>2. Aic1TypeOK /\ Post(c, SendIpi(task[c].to, SendSide(c, task[c].to))) /\ posted[c] = <<>>
    BY DEF SendSingle, Barrier, Aic1Inv
  <2> QED
    BY <2>1, <2>2, PostOne
<1>2. Aic1TypeOK'
  <2>1. task' \in [Cpus -> [pc : {"idle", "enabled", "pending", "send", "sent"}, to : Cpus,
                           k : Vipis \cup {""}]]
    <3>1. task \in [Cpus -> [pc : {"idle", "enabled", "pending", "send", "sent"}, to : Cpus,
                             k : Vipis \cup {""}]]
      BY DEF Aic1Inv, Aic1TypeOK
    <3> QED
      BY <3>1 DEF SendSingle
  <2> QED
    BY <1>1, <2>1 DEF SendSingle, Aic1Inv, Aic1TypeOK, Writes
<1>3. \A f \in Cpus : Store(f)' /\ MaskOwned(f)' /\ Down(f)' /\ Counting(f)' /\ Asking(f)'
  <2>1. task[c].to \in Cpus /\ SendSide(c, task[c].to) \in Sides
    BY DEF Aic1Inv, Aic1TypeOK, SendSide, Sides
  <2>2. \A f \in Cpus \ {c} : task'[f] = task[f]
    BY DEF SendSingle, Aic1Inv, Aic1TypeOK
  <2>3. Store(c)'
    BY <1>1, <2>1 DEF SendSingle, Running, Store
  <2>4. MaskOwned(c)' /\ Down(c)' /\ Counting(c)' /\ Asking(c)'
    BY <1>1 DEF SendSingle, Running, Aic1Inv, MaskOwned, Down, Counting, Asking
  <2>5. ASSUME NEW f \in Cpus \ {c} PROVE Store(f)' /\ MaskOwned(f)' /\ Down(f)' /\ Counting(f)' /\ Asking(f)'
    BY <1>1, <2>2 DEF SendSingle, Aic1Inv, Store, MaskOwned, Down, Counting, Asking
  <2> QED
    BY <2>3, <2>4, <2>5
<1>4. NoFlagAlone'
  <2> SUFFICES ASSUME NEW d \in online', NEW j \in (mux.bits[d] \cap mux.enable[d])'
               PROVE  Served(d, j)'
    BY DEF NoFlagAlone, Served
  <2>1. d \in Cpus
    BY <1>2 DEF Aic1TypeOK, Cpus
  <2>2. Served(d, j)
    BY <2>1 DEF SendSingle, Running, Aic1Inv, Aic1TypeOK, NoFlagAlone, Served
  <2>3. PICK e \in Cpus : e = task[c].to
    BY DEF Aic1Inv, Aic1TypeOK
  <2>4. InFlight(c, e)' /\ ~Posted(c, "ack")' /\ ~Posted(c, "open") /\ \A f : ~InFlight(c, f)
    <3> DEFINE w == SendIpi(e, SendSide(c, e))
    <3>1. w.op = "send" /\ w.cpu = e
      BY DEF SendIpi
    <3>2. /\ \A op : Posted(c, op)' <=> w.op = op
          /\ \A f : InFlight(c, f)' <=> w.op = "send" /\ w.cpu = f
      <4>1. posted'[c] = <<w>>
        BY <1>1, <2>3
      <4> HIDE DEF w
      <4> QED
        BY <4>1, PostedNext
    <3> HIDE DEF w
    <3> QED
      BY <1>1, <3>1, <3>2, PostedNone
  <2>5. \A f \in Cpus \ {c} : task'[f] = task[f]
    BY DEF SendSingle, Aic1Inv, Aic1TypeOK
  <2>6. \A f \in Cpus \ {c} : OnItsWay(f, d, j) => OnItsWay(f, d, j)'
    BY <1>1, <2>5, PostedSame DEF OnItsWay
  <2>7. OnItsWay(c, d, j) => OnItsWay(c, d, j)'
    <3>1. OnItsWay(c, d, j) => d = e
      BY <2>3, <2>4 DEF OnItsWay
    <3> QED
      BY <2>4, <3>1 DEF OnItsWay
  <2>8. Delivers(d) => Delivers(d)'
    BY <1>1, <2>1, <2>4, PostedSame DEF Delivers, SendSingle
  <2> QED
    BY <2>2, <2>6, <2>7, <2>8 DEF Served, SendSingle
<1>5. LineOpen'
  BY DEF SendSingle, Running, Aic1Inv, Aic1TypeOK, LineOpen, Safe, Cpus, Post, SendIpi, SendSide, Barrier
<1> QED
  BY <1>2, <1>3, <1>4, <1>5 DEF Aic1Inv

LEMMA SentKeeps ==
    ASSUME NEW c \in Cpus, Aic1Inv, Sent(c)
    PROVE  Aic1Inv'
<1>1. Aic1TypeOK'
  BY DEF Sent, Running, Aic1Inv, Aic1TypeOK, Cpus, Sides, IdleTask, Barrier
<1>2. \A f \in Cpus : Store(f)' /\ MaskOwned(f)' /\ Down(f)' /\ Counting(f)' /\ Asking(f)'
  BY DEF Sent, Running, Aic1Inv, Aic1TypeOK, Store, MaskOwned, Down, Counting, Asking, Cpus, Sides, IdleTask, Barrier
<1>3. NoFlagAlone'
  <2> SUFFICES ASSUME NEW d \in online', NEW j \in (mux.bits[d] \cap mux.enable[d])'
               PROVE  Served(d, j)'
    BY DEF NoFlagAlone, Served
  <2>1. d \in Cpus
    BY <1>1 DEF Aic1TypeOK, Cpus
  <2>2. Served(d, j)
    BY <2>1 DEF Sent, Aic1Inv, Aic1TypeOK, NoFlagAlone, Served, Running, IdleTask
  <2> QED
    BY <2>1, <2>2, ServedStays DEF Sent, Aic1Inv, Aic1TypeOK, Cpus, Asks, Running, IdleTask
<1>4. LineOpen'
  BY DEF Sent, Running, Aic1Inv, Aic1TypeOK, LineOpen, Safe, Cpus, IdleTask, Barrier
<1> QED
  BY <1>1, <1>2, <1>3, <1>4 DEF Aic1Inv

LEMMA DrainKeeps ==
    ASSUME NEW c \in Cpus, Aic1Inv, Drain(c)
    PROVE  Aic1Inv'
<1>1. PICK w \in Writes :
         /\ posted[c] = <<w>>
         /\ \/ w = Ack(c) /\ irq[c] = "acked"
            \/ w = Open(c) /\ irq[c] \in {"none", "event"}
            \/ \E e \in Cpus : \E s \in Sides : w = SendIpi(e, s) /\ irq[c] \in {"none", "event"}
  <2>1. Ack(c) \in Writes /\ Open(c) \in Writes
    BY DEF Ack, Open, Writes, Sides
  <2>2. \A e \in Cpus : \A s \in Sides : SendIpi(e, s) \in Writes
    BY DEF SendIpi, Writes
  <2> QED
    BY <2>1, <2>2 DEF Drain, Aic1Inv, Store
<1>2. /\ aic' = Landed(w)
      /\ posted' \in [Cpus -> Seq(Writes)] /\ posted'[c] = <<>>
      /\ \A f \in Cpus \ {c} : posted'[f] = posted[f]
  <2>1. Head(posted[c]) = w /\ Tail(posted[c]) = <<>>
    BY <1>1
  <2>2. posted' = [posted EXCEPT ![c] = <<>>] /\ aic' = Landed(w)
    BY <2>1 DEF Drain
  <2>3. posted \in [Cpus -> Seq(Writes)] 
    BY DEF Aic1Inv, Aic1TypeOK, Writes
  <2>4. <<>> \in Seq(Writes)
    OBVIOUS
  <2> QED
    BY <2>2, <2>3, <2>4
<1>3. /\ aic \in [pend : [Cpus -> SUBSET Sides], mask : [Cpus -> SUBSET Sides]]
      /\ w.cpu \in Cpus /\ w.side \in Sides
  BY DEF Aic1Inv, Aic1TypeOK, Writes
<1>4. \/ w.op = "ack" /\ w.cpu = c /\ irq[c] = "acked" /\ aic' = [aic EXCEPT !.pend[c] = {}]
      \/ w.op = "open" /\ w.cpu = c /\ irq[c] # "acked" /\ aic' = [aic EXCEPT !.mask[c] = {}]
      \/ w.op = "send" /\ irq[c] # "acked" /\ aic' = [aic EXCEPT !.pend[w.cpu] = @ \cup {w.side}]
  <2>1. CASE w = Ack(c) /\ irq[c] = "acked"
    <3>1. w.op = "ack" /\ w.cpu = c
      BY <2>1 DEF Ack
    <3> QED
      BY <2>1, <3>1, <1>2 DEF Landed
  <2>2. CASE w = Open(c) /\ irq[c] \in {"none", "event"}
    <3>1. w.op = "open" /\ w.cpu = c
      BY <2>2 DEF Open
    <3> QED
      BY <2>2, <3>1, <1>2 DEF Landed
  <2>3. CASE \E e \in Cpus : \E s \in Sides : w = SendIpi(e, s) /\ irq[c] \in {"none", "event"}
    <3>1. w.op = "send"
      BY <2>3 DEF SendIpi
    <3> QED
      BY <2>3, <3>1, <1>2 DEF Landed
  <2> QED
    BY <1>1, <2>1, <2>2, <2>3
<1>5. aic' \in [pend : [Cpus -> SUBSET Sides], mask : [Cpus -> SUBSET Sides]]
  BY <1>4, <1>3
<1>6. Aic1TypeOK'
  BY <1>2, <1>5 DEF Drain, Aic1Inv, Aic1TypeOK, Writes
<1>7. \A f \in Cpus : Store(f)' /\ MaskOwned(f)' /\ Down(f)' /\ Counting(f)' /\ Asking(f)'
  <2>1. \A f \in Cpus : aic'.mask[f] = aic.mask[f] \/ aic'.mask[f] = {}
    BY <1>4, <1>3
  <2>2. posted[c] = <<Open(c)>> => aic'.mask[c] = {}
    <3>1. HAVE posted[c] = <<Open(c)>>
    <3>2. w = Open(c)
      BY <1>1, <3>1
    <3>3. w.op = "open"
      BY <3>2 DEF Open
    <3> QED
      BY <3>3, <1>4, <1>3
  <2>3. Store(c)' /\ MaskOwned(c)'
    BY <2>1, <2>2, <1>2 DEF Drain, Aic1Inv, Store, MaskOwned
  <2>4. Down(c)' /\ Counting(c)' /\ Asking(c)'
    BY <2>1, <1>2 DEF Drain, Aic1Inv, Down, Counting, Asking
  <2>5. ASSUME NEW f \in Cpus \ {c}
        PROVE  Store(f)' /\ MaskOwned(f)' /\ Down(f)' /\ Counting(f)' /\ Asking(f)'
    <3>1. Store(f)' /\ MaskOwned(f)'
      BY <2>1, <1>2 DEF Drain, Aic1Inv, Store, MaskOwned
    <3>2. Down(f)' /\ Counting(f)' /\ Asking(f)'
      BY <2>1, <1>2 DEF Drain, Aic1Inv, Down, Counting, Asking
    <3> QED
      BY <3>1, <3>2
  <2> QED
    BY <2>3, <2>4, <2>5
<1>8. NoFlagAlone'
  <2> SUFFICES ASSUME NEW d \in online', NEW j \in (mux.bits[d] \cap mux.enable[d])'
               PROVE  Served(d, j)'
    BY DEF NoFlagAlone, Served
  <2>1. d \in Cpus
    BY <1>6 DEF Aic1TypeOK, Cpus
  <2>2. Served(d, j)
    BY <2>1 DEF Drain, Running, Aic1Inv, Aic1TypeOK, NoFlagAlone, Served
  <2>3. \A f \in Cpus \ {c} : /\ OnItsWay(f, d, j) => OnItsWay(f, d, j)'
                              /\ \A op : Posted(f, op)' <=> Posted(f, op)
    BY <1>2, PostedSame DEF OnItsWay, Drain
  <2>4. \A op : ~Posted(c, op)'
    BY <1>2, PostedGone
  <2>5. OnItsWay(c, d, j) => OnItsWay(c, d, j)' \/ (w.op = "send" /\ w.cpu = d)
    BY <1>1, PostedOne DEF OnItsWay, Drain
  <2>6. (w.op # "send" \/ w.cpu # d) /\ irq[d] # "acked" /\ Delivers(d) => Delivers(d)'
    <3>1. HAVE (w.op # "send" \/ w.cpu # d) /\ irq[d] # "acked" /\ Delivers(d)
    <3>2. aic'.pend[d] = aic.pend[d]
      BY <3>1, <2>1, <1>4, <1>3
    <3>3. ~Posted(d, "ack")'
      BY <3>1, <2>1, <2>3, <2>4 DEF Delivers
    <3>4. CASE d = c /\ w.op = "open"
      BY <3>1, <3>2, <3>3, <3>4, <1>4, <1>3 DEF Delivers
    <3>5. CASE ~(d = c /\ w.op = "open")
      <4>1. aic'.mask[d] = aic.mask[d]
        BY <3>5, <2>1, <1>4, <1>3
      <4>2. Posted(d, "open") => Posted(d, "open")'
        BY <3>5, <2>1, <2>3, <1>1, PostedOne
      <4> QED
        BY <3>1, <3>2, <3>3, <4>1, <4>2 DEF Delivers, Drain
    <3> QED
      BY <3>4, <3>5
  <2>7. w.op = "send" /\ w.cpu = d /\ irq[d] \notin {"ipi", "acked"} => Delivers(d)'
    <3>1. HAVE w.op = "send" /\ w.cpu = d /\ irq[d] \notin {"ipi", "acked"}
    <3>2. aic'.pend[d] # {} /\ aic'.mask[d] = aic.mask[d]
      BY <3>1, <2>1, <1>4, <1>3
    <3>3. ~Posted(d, "ack")'
      <4>1. CASE d = c
        BY <2>4, <4>1
      <4>2. CASE d # c
        <5>1. Store(d) /\ irq[d] # "acked"
          BY <2>1, <3>1 DEF Aic1Inv, Store
        <5>2. ~Posted(d, "ack")
          <6>1. Open(d).op = "open" /\ \A e \in Cpus : \A s \in Sides : SendIpi(e, s).op = "send"
            BY DEF Open, SendIpi
          <6>2. CASE posted[d] = <<>>
            BY <6>2, PostedNone
          <6>3. CASE posted[d] = <<Open(d)>>
            BY <6>1, <6>3, PostedOne
          <6>4. CASE \E e \in Cpus : \E s \in Sides : posted[d] = <<SendIpi(e, s)>>
            BY <6>1, <6>4, PostedOne
          <6> QED
            BY <5>1, <6>2, <6>3, <6>4 DEF Store
        <5> QED
          BY <2>1, <2>3, <4>2, <5>2
      <4> QED
        BY <4>1, <4>2
    <3>4. CASE aic.mask[d] = {}
      BY <3>2, <3>3, <3>4 DEF Delivers
    <3>5. CASE irq[d] = "done"
      BY <3>2, <3>3, <3>5 DEF Delivers, Drain
    <3>6. CASE posted[d] = <<Open(d)>>
      <4>1. Open(d).op = "open"
        BY DEF Open
      <4>2. Posted(d, "open")
        BY <3>6, <4>1, PostedOne
      <4>3. d # c
        BY <3>1, <4>2, <1>1, PostedOne
      <4> QED
        BY <2>1, <2>3, <3>2, <3>3, <4>2, <4>3 DEF Delivers
    <3> QED
      BY <2>1, <3>1, <3>4, <3>5, <3>6 DEF Aic1Inv, MaskOwned
  <2> QED
    BY <2>1, <2>2, <2>3, <2>5, <2>6, <2>7 DEF Served, Drain
<1>9. LineOpen'
  BY DEF Drain, Running, Aic1Inv, Aic1TypeOK, LineOpen, Safe, Cpus, Landed, Barrier
<1> QED
  BY <1>6, <1>7, <1>8, <1>9 DEF Aic1Inv

LEMMA EnterKeeps ==
    ASSUME NEW c \in Cpus, Aic1Inv, Enter(c)
    PROVE  Aic1Inv'
<1>1. Aic1TypeOK'
  <2>1. taken' \in [Cpus -> 0 .. EventLimit]
    <3>1. 0 \in 0 .. EventLimit
      OBVIOUS
    <3> QED
      BY <3>1 DEF Enter, Aic1Inv, Aic1TypeOK
  <2>2. line' \in LineStates
    BY DEF Enter, LineStates, Aic1Inv, Aic1TypeOK
  <2> QED
    BY <2>1, <2>2 DEF Enter, LineStates, Aic1Inv, Aic1TypeOK
<1>2. \A f \in Cpus : Store(f)' /\ MaskOwned(f)' /\ Down(f)' /\ Counting(f)' /\ Asking(f)'
  <2>1. c \in online
    BY DEF Enter, Running, Aic1Inv, Down
  <2>2. \A f \in Cpus \ {c} : task'[f] = task[f] /\ irq'[f] = irq[f] /\ taken'[f] = taken[f]
    BY DEF Enter, Aic1Inv, Aic1TypeOK
  <2>3. ASSUME NEW f \in Cpus \ {c}
        PROVE  Store(f)' /\ MaskOwned(f)' /\ Down(f)' /\ Counting(f)' /\ Asking(f)'
    BY <2>2 DEF Enter, Aic1Inv, Store, MaskOwned, Down, Counting, Asking
  <2>4. irq'[c] = "event" /\ taken'[c] = 0 /\ irq[c] = "none"
    BY DEF Enter, Running, Aic1Inv, Aic1TypeOK
  <2>5. Store(c)' /\ MaskOwned(c)' /\ Down(c)' /\ Counting(c)' /\ Asking(c)'
    BY <2>1, <2>4 DEF Enter, Aic1Inv, Store, MaskOwned, Down, Counting, Asking
  <2> QED
    BY <2>3, <2>5
<1>3. NoFlagAlone'
  <2> SUFFICES ASSUME NEW d \in online', NEW j \in (mux.bits[d] \cap mux.enable[d])'
               PROVE  Served(d, j)'
    BY DEF NoFlagAlone, Served
  <2>1. d \in Cpus
    BY <1>1 DEF Aic1TypeOK, Cpus
  <2>2. Served(d, j)
    BY <2>1 DEF Enter, Aic1Inv, Aic1TypeOK, NoFlagAlone, Served, Running
  <2> QED
    BY <2>1, <2>2, ServedStays DEF Enter, Aic1Inv, Aic1TypeOK, Cpus, Asks, Running
<1>4. LineOpen'
  BY DEF Enter, Running, Aic1Inv, Aic1TypeOK, LineOpen, Safe, Cpus
<1> QED
  BY <1>1, <1>2, <1>3, <1>4 DEF Aic1Inv

LEMMA ReadIpiKeeps ==
    ASSUME NEW c \in Cpus, Aic1Inv, ReadIpi(c)
    PROVE  Aic1Inv'
<1>1. PICK side \in IpiEvent(c) : aic' = [aic EXCEPT !.mask[c] = @ \cup {side}]
  BY DEF ReadIpi
<1>2. side \in Sides
  BY DEF IpiEvent, Aic1Inv, Aic1TypeOK
<1>3. Aic1TypeOK'
  <2>1. aic' \in [pend : [Cpus -> SUBSET Sides], mask : [Cpus -> SUBSET Sides]]
    BY <1>1, <1>2 DEF Aic1Inv, Aic1TypeOK
  <2> QED
    BY <2>1 DEF ReadIpi, Aic1Inv, Aic1TypeOK
<1>4. \A f \in Cpus : Store(f)' /\ MaskOwned(f)' /\ Down(f)' /\ Counting(f)' /\ Asking(f)'
  <2>1. \A f \in Cpus \ {c} : aic'.mask[f] = aic.mask[f] /\ irq'[f] = irq[f]
    BY <1>1 DEF ReadIpi, Aic1Inv, Aic1TypeOK
  <2>2. irq'[c] = "ipi" /\ c \in online
    BY DEF ReadIpi, Aic1Inv, Aic1TypeOK, Down
  <2>3. Store(c)' /\ MaskOwned(c)' /\ Down(c)' /\ Counting(c)' /\ Asking(c)'
    BY <2>2 DEF ReadIpi, Barrier, Aic1Inv, Store, MaskOwned, Down, Counting, Asking
  <2>4. ASSUME NEW f \in Cpus \ {c} PROVE Store(f)' /\ MaskOwned(f)' /\ Down(f)' /\ Counting(f)' /\ Asking(f)'
    BY <2>1 DEF ReadIpi, Aic1Inv, Store, MaskOwned, Down, Counting, Asking
  <2> QED
    BY <2>3, <2>4
<1>5. NoFlagAlone'
  <2> SUFFICES ASSUME NEW d \in online', NEW j \in (mux.bits[d] \cap mux.enable[d])'
               PROVE  Served(d, j)'
    BY DEF NoFlagAlone, Served
  <2>1. d \in Cpus
    BY <1>3 DEF Aic1TypeOK, Cpus
  <2>2. Served(d, j)
    BY <2>1 DEF ReadIpi, Running, Aic1Inv, Aic1TypeOK, NoFlagAlone, Served
  <2>3. CASE d = c
    BY <2>3, <2>1 DEF ReadIpi, Aic1Inv, Aic1TypeOK, Served
  <2>4. CASE d # c
    <3>1. aic'.pend[d] = aic.pend[d] /\ aic'.mask[d] = aic.mask[d] /\ irq'[d] = irq[d]
      BY <1>1, <2>1, <2>4 DEF ReadIpi, Aic1Inv, Aic1TypeOK
    <3> QED
      BY <2>1, <2>2, <3>1, ServedStays DEF ReadIpi, Asks
  <2> QED
    BY <2>3, <2>4
<1>6. LineOpen'
  BY DEF ReadIpi, Running, Aic1Inv, Aic1TypeOK, LineOpen, Safe, Cpus, Barrier, IpiEvent
<1> QED
  BY <1>3, <1>4, <1>5, <1>6 DEF Aic1Inv

LEMMA ReadLineKeeps ==
    ASSUME NEW c \in Cpus, Aic1Inv, ReadLine(c)
    PROVE  Aic1Inv'
<1>1. Aic1TypeOK'
  BY DEF ReadLine, Running, Aic1Inv, Aic1TypeOK, Cpus, Sides, Barrier, LineEvent
<1>2. \A f \in Cpus : Store(f)' /\ MaskOwned(f)' /\ Down(f)' /\ Counting(f)' /\ Asking(f)'
  BY DEF ReadLine, Running, Aic1Inv, Aic1TypeOK, Store, MaskOwned, Down, Counting, Asking, Cpus, Sides, Barrier, LineEvent
<1>3. NoFlagAlone'
  <2> SUFFICES ASSUME NEW d \in online', NEW j \in (mux.bits[d] \cap mux.enable[d])'
               PROVE  Served(d, j)'
    BY DEF NoFlagAlone, Served
  <2>1. d \in Cpus
    BY <1>1 DEF Aic1TypeOK, Cpus
  <2>2. Served(d, j)
    BY <2>1 DEF ReadLine, Aic1Inv, Aic1TypeOK, NoFlagAlone, Served, Barrier
  <2> QED
    BY <2>1, <2>2, ServedStays DEF ReadLine, Aic1Inv, Aic1TypeOK, Cpus, Asks, Barrier
<1>4. LineOpen'
  BY DEF ReadLine, Running, Aic1Inv, Aic1TypeOK, LineOpen, Safe, Cpus, Barrier, LineEvent
<1> QED
  BY <1>1, <1>2, <1>3, <1>4 DEF Aic1Inv

LEMMA ReadNothingKeeps ==
    ASSUME NEW c \in Cpus, Aic1Inv, ReadNothing(c)
    PROVE  Aic1Inv'
<1>1. Aic1TypeOK'
  BY DEF ReadNothing, Running, Aic1Inv, Aic1TypeOK, Cpus, Sides, Barrier
<1>2. \A f \in Cpus : Store(f)' /\ MaskOwned(f)' /\ Down(f)' /\ Counting(f)' /\ Asking(f)'
  BY DEF ReadNothing, Running, Aic1Inv, Aic1TypeOK, Store, MaskOwned, Down, Counting, Asking, Cpus, Sides, Barrier
<1>3. NoFlagAlone'
  <2> SUFFICES ASSUME NEW d \in online', NEW j \in (mux.bits[d] \cap mux.enable[d])'
               PROVE  Served(d, j)'
    BY DEF NoFlagAlone, Served
  <2>1. d \in Cpus
    BY <1>1 DEF Aic1TypeOK, Cpus
  <2>2. Served(d, j)
    BY <2>1 DEF ReadNothing, Aic1Inv, Aic1TypeOK, NoFlagAlone, Served, Barrier
  <2> QED
    BY <2>1, <2>2, ServedStays DEF ReadNothing, Aic1Inv, Aic1TypeOK, Cpus, Asks, Barrier
<1>4. LineOpen'
  BY DEF ReadNothing, Running, Aic1Inv, Aic1TypeOK, LineOpen, Safe, Cpus, Barrier
<1> QED
  BY <1>1, <1>2, <1>3, <1>4 DEF Aic1Inv

LEMMA IpiAckKeeps ==
    ASSUME NEW c \in Cpus, Aic1Inv, IpiAck(c)
    PROVE  Aic1Inv'
<1>1. /\ posted[c] = <<>>
      /\ posted' \in [Cpus -> Seq(Writes)]
      /\ posted'[c] = <<Ack(c)>>
      /\ \A f \in Cpus \ {c} : posted'[f] = posted[f]
  <2>1. Ack(c) \in Writes
    BY DEF Aic1Inv, Aic1TypeOK, Ack, Writes, Sides
  <2>2. Aic1TypeOK /\ Post(c, Ack(c)) /\ posted[c] = <<>>
    BY DEF IpiAck, Store, MaskOwned, Aic1Inv
  <2> QED
    BY <2>1, <2>2, PostOne
<1>2. Aic1TypeOK'
  <2>1. irq' \in [Cpus -> {"none", "event", "ipi", "acked", "done", "line", "handler"}]
    BY DEF IpiAck, Aic1Inv, Aic1TypeOK
  <2>2. taken' \in [Cpus -> 0 .. EventLimit]
    BY DEF IpiAck, Aic1Inv, Aic1TypeOK
  <2> QED
    BY <1>1, <2>1, <2>2 DEF IpiAck, Aic1Inv, Aic1TypeOK, Writes
<1>3. \A f \in Cpus : Store(f)' /\ MaskOwned(f)' /\ Down(f)' /\ Counting(f)' /\ Asking(f)'
  <2>1. \A f \in Cpus \ {c} : irq'[f] = irq[f] /\ taken'[f] = taken[f]
    BY DEF IpiAck, Aic1Inv, Aic1TypeOK
  <2>2. Store(c)' /\ MaskOwned(c)' /\ Down(c)' /\ Counting(c)' /\ Asking(c)'
    <3>1. irq'[c] = "acked"
      BY DEF IpiAck, Aic1Inv, Aic1TypeOK
    <3>2. c \in online
      BY DEF IpiAck, Aic1Inv, Down
    <3> QED
      BY <1>1, <3>1, <3>2 DEF IpiAck, Aic1Inv, Store, MaskOwned, Down, Counting, Asking
  <2>3. ASSUME NEW f \in Cpus \ {c} PROVE Store(f)' /\ MaskOwned(f)' /\ Down(f)' /\ Counting(f)' /\ Asking(f)'
    <3>1. Store(f)' /\ MaskOwned(f)'
      BY <1>1, <2>1 DEF IpiAck, Aic1Inv, Store, MaskOwned
    <3>2. Down(f)' /\ Counting(f)' /\ Asking(f)'
      BY <1>1, <2>1 DEF IpiAck, Aic1Inv, Down, Counting, Asking
    <3> QED
      BY <3>1, <3>2
  <2> QED
    BY <2>2, <2>3
<1>4. NoFlagAlone'
  <2> SUFFICES ASSUME NEW d \in online', NEW j \in (mux.bits[d] \cap mux.enable[d])'
               PROVE  Served(d, j)'
    BY DEF NoFlagAlone, Served
  <2>1. d \in Cpus
    BY <1>2 DEF Aic1TypeOK, Cpus
  <2>2. Served(d, j)
    BY <2>1 DEF IpiAck, Running, Aic1Inv, Aic1TypeOK, NoFlagAlone, Served
  <2>3. \A f \in Cpus \ {c} : irq'[f] = irq[f]
    BY DEF IpiAck, Aic1Inv, Aic1TypeOK
  <2>4. \A f \in Cpus : OnItsWay(f, d, j) => OnItsWay(f, d, j)'
    BY <1>1, PostedNone, PostedSame DEF OnItsWay, IpiAck
  <2>5. d # c /\ Delivers(d) => Delivers(d)'
    BY <1>1, <2>1, <2>3, PostedSame DEF Delivers, IpiAck
  <2>6. irq'[c] = "acked"
    BY DEF IpiAck, Aic1Inv, Aic1TypeOK
  <2> QED
    BY <2>1, <2>2, <2>3, <2>4, <2>5, <2>6 DEF Served
<1>5. LineOpen'
  BY DEF IpiAck, Running, Aic1Inv, Aic1TypeOK, LineOpen, Safe, Cpus, Post, Ack
<1> QED
  BY <1>2, <1>3, <1>4, <1>5 DEF Aic1Inv

LEMMA IpiProcessKeeps ==
    ASSUME NEW c \in Cpus, Aic1Inv, IpiProcess(c)
    PROVE  Aic1Inv'
<1>1. Aic1TypeOK'
  BY DEF IpiProcess, Running, Aic1Inv, Aic1TypeOK, Cpus, Sides, Barrier
<1>2. \A f \in Cpus : Store(f)' /\ MaskOwned(f)' /\ Down(f)' /\ Counting(f)' /\ Asking(f)'
  BY DEF IpiProcess, Running, Aic1Inv, Aic1TypeOK, Store, MaskOwned, Down, Counting, Asking, Cpus, Sides, Barrier
<1>3. NoFlagAlone'
  <2> SUFFICES ASSUME NEW d \in online', NEW j \in (mux.bits[d] \cap mux.enable[d])'
               PROVE  Served(d, j)'
    BY DEF NoFlagAlone, Served
  <2>1. d \in Cpus
    BY <1>1 DEF Aic1TypeOK, Cpus
  <2>2. d # c
    <3>1. mux'.bits[c] = mux.bits[c] \ mux.enable[c] /\ mux'.enable = mux.enable
      BY DEF IpiProcess, Aic1Inv, Aic1TypeOK
    <3> QED
      BY <3>1
  <2>3. Served(d, j)
    BY <2>1, <2>2 DEF IpiProcess, Aic1Inv, Aic1TypeOK, NoFlagAlone, Served
  <2> QED
    BY <2>1, <2>2, <2>3, ServedStays DEF IpiProcess, Aic1Inv, Aic1TypeOK, Asks
<1>4. LineOpen'
  BY DEF IpiProcess, Running, Aic1Inv, Aic1TypeOK, LineOpen, Safe, Cpus, Barrier
<1> QED
  BY <1>1, <1>2, <1>3, <1>4 DEF Aic1Inv

(* What the end of the loop does, and to the line.                         *)
LEMMA HandledIs ==
    ASSUME Aic1Inv, NEW c \in Cpus, irq[c] # "none", NEW l \in LineStates, Handled(c, l)
    PROVE  /\ irq' \in [Cpus -> {"none", "event", "ipi", "acked", "done", "line", "handler"}]
           /\ taken' \in [Cpus -> 0 .. EventLimit]
           /\ line' \in LineStates
           /\ irq'[c] \in {"none", "event"}
           /\ irq'[c] = "event" => taken'[c] < EventLimit
           /\ \A f \in Cpus \ {c} : irq'[f] = irq[f] /\ taken'[f] = taken[f]
<1>1. taken[c] \in 0 .. EventLimit /\ taken[c] < EventLimit
  BY DEF Aic1Inv, Aic1TypeOK, Counting
<1>2. taken[c] + 1 \in 0 .. EventLimit
  BY <1>1, Aic1Constants
<1>3. line' \in LineStates
  BY DEF Handled, Stuck, LineStates
<1>4. irq \in [Cpus -> {"none", "event", "ipi", "acked", "done", "line", "handler"}]
      /\ taken \in [Cpus -> 0 .. EventLimit]
  BY DEF Aic1Inv, Aic1TypeOK
<1>5. irq' \in [Cpus -> {"none", "event", "ipi", "acked", "done", "line", "handler"}]
      /\ irq'[c] \in {"none", "event"}
  BY <1>4 DEF Handled
<1>6. taken' \in [Cpus -> 0 .. EventLimit] /\ taken'[c] = taken[c] + 1
  BY <1>2, <1>4 DEF Handled
<1>7. irq'[c] = "event" => taken'[c] < EventLimit
  BY <1>4, <1>6 DEF Handled
<1>8. \A f \in Cpus \ {c} : irq'[f] = irq[f] /\ taken'[f] = taken[f]
  BY <1>4 DEF Handled
<1> QED
  BY <1>3, <1>5, <1>6, <1>7, <1>8

LEMMA HandledLine ==
    ASSUME Aic1Inv, NEW c \in Cpus, irq[c] # "none", NEW l \in LineStates, Handled(c, l),
           Safe(l, c # 0 /\ irq[0] \in {"line", "handler"})
    PROVE  LineOpen'
<1>1. irq'[c] \in {"none", "event"} /\ \A f \in Cpus \ {c} : irq'[f] = irq[f]
  BY HandledIs
<1>2. \A h \in BOOLEAN : Safe(l, h) => Safe(Stuck(c, l), h)
  BY DEF Safe, Stuck, LineStates
<1>3. line' = l \/ line' = Stuck(c, l)
  BY DEF Handled
<1>4. Safe(line', c # 0 /\ irq[0] \in {"line", "handler"})
  BY <1>2, <1>3
<1>5. irq'[0] \in {"line", "handler"} <=> (c # 0 /\ irq[0] \in {"line", "handler"})
  BY <1>1 DEF Cpus
<1> QED
  BY <1>4, <1>5 DEF LineOpen, Safe

(* An event that leaves the IPIs alone.                                    *)
LEMMA HandledKeeps ==
    ASSUME Aic1Inv, NEW c \in Cpus, irq[c] \in {"event", "line", "handler"}, NEW l \in LineStates,
           Handled(c, l), Safe(l, c # 0 /\ irq[0] \in {"line", "handler"}),
           irq[c] = "event" => posted[c] = <<>>,
           UNCHANGED <<mux, aic, posted, task, online>>
    PROVE  Aic1Inv'
<1>1. /\ irq' \in [Cpus -> {"none", "event", "ipi", "acked", "done", "line", "handler"}]
      /\ taken' \in [Cpus -> 0 .. EventLimit]
      /\ line' \in LineStates
      /\ irq'[c] \in {"none", "event"}
      /\ irq'[c] = "event" => taken'[c] < EventLimit
      /\ \A f \in Cpus \ {c} : irq'[f] = irq[f] /\ taken'[f] = taken[f]
  BY HandledIs
<1>2. Aic1TypeOK'
  BY <1>1 DEF Aic1Inv, Aic1TypeOK, LineStates
<1>3. \A f \in Cpus : Store(f)' /\ MaskOwned(f)' /\ Down(f)' /\ Counting(f)' /\ Asking(f)'
  <2>1. c \in online
    BY DEF Aic1Inv, Down
  <2>2. ASSUME NEW f \in Cpus \ {c}
        PROVE  Store(f)' /\ MaskOwned(f)' /\ Down(f)' /\ Counting(f)' /\ Asking(f)'
    BY <1>1 DEF Aic1Inv, Store, MaskOwned, Down, Counting, Asking
  <2>3. Store(c)' /\ MaskOwned(c)' /\ Down(c)' /\ Counting(c)' /\ Asking(c)'
    BY <1>1, <2>1 DEF Aic1Inv, Store, MaskOwned, Down, Counting, Asking
  <2> QED
    BY <2>2, <2>3
<1>4. NoFlagAlone'
  <2> SUFFICES ASSUME NEW d \in online', NEW j \in (mux.bits[d] \cap mux.enable[d])'
               PROVE  Served(d, j)'
    BY DEF NoFlagAlone, Served
  <2>1. d \in Cpus
    BY <1>2 DEF Aic1TypeOK, Cpus
  <2>2. Served(d, j)
    BY <2>1 DEF Aic1Inv, NoFlagAlone, Served
  <2>3. irq[d] \in {"ipi", "acked", "done"} => irq'[d] = irq[d]
    BY <1>1, <2>1
  <2> QED
    BY <2>1, <2>2, <2>3, ServedStays DEF Asks
<1>5. LineOpen'
  BY HandledLine
<1> QED
  BY <1>2, <1>3, <1>4, <1>5 DEF Aic1Inv

LEMMA OtherEventKeeps ==
    ASSUME NEW c \in Cpus, Aic1Inv, OtherEvent(c)
    PROVE  Aic1Inv'
<1>1. PICK last \in {line.last, FALSE} :
         Handled(c, IF c = 0 THEN [line EXCEPT !.last = last] ELSE line)
  BY DEF OtherEvent
<1>2. PICK l \in LineStates : Handled(c, l) /\ Safe(l, c # 0 /\ irq[0] \in {"line", "handler"})
  <2> DEFINE m == IF c = 0 THEN [line EXCEPT !.last = last] ELSE line
  <2>1. line \in LineStates /\ Safe(line, irq[0] \in {"line", "handler"})
    BY DEF Aic1Inv, Aic1TypeOK, LineStates, LineOpen
  <2>2. m \in LineStates
    BY <2>1 DEF LineStates
  <2>3. Safe(m, c # 0 /\ irq[0] \in {"line", "handler"})
    BY <2>1 DEF OtherEvent, Safe, LineStates
  <2> QED
    BY <1>1, <2>2, <2>3
<1> QED
  BY <1>2, HandledKeeps DEF OtherEvent, Barrier

LEMMA LineRefuseKeeps ==
    ASSUME NEW c \in Cpus, Aic1Inv, LineRefuse(c)
    PROVE  Aic1Inv'
<1> DEFINE l == [line EXCEPT !.off = TRUE]
<1>1. l \in LineStates
  BY DEF Aic1Inv, Aic1TypeOK, LineStates
<1>2. Safe(l, c # 0 /\ irq[0] \in {"line", "handler"})
  BY DEF Aic1Inv, Aic1TypeOK, LineRefuse, Safe
<1>3. Handled(c, l)
  BY DEF LineRefuse
<1> HIDE DEF l
<1> QED
  BY <1>1, <1>2, <1>3, HandledKeeps DEF LineRefuse

LEMMA LineEoiKeeps ==
    ASSUME NEW c \in Cpus, Aic1Inv, LineEoi(c)
    PROVE  Aic1Inv'
<1>1. PICK more \in BOOLEAN :
         LET l == [line EXCEPT !.up = more]
         IN  Handled(c, IF line.disabled THEN [l EXCEPT !.cut = TRUE] ELSE Unmasked(l))
  BY DEF LineEoi
<1> DEFINE m == [line EXCEPT !.up = more]
           l == IF line.disabled THEN [m EXCEPT !.cut = TRUE] ELSE Unmasked(m)
<1>2. line \in LineStates /\ (~line.disabled => ~line.off)
  BY DEF Aic1Inv, Aic1TypeOK, LineStates, LineOpen, Safe
<1>3. l \in LineStates
  BY <1>2 DEF LineStates, Unmasked
<1>4. Safe(l, c # 0 /\ irq[0] \in {"line", "handler"})
  BY <1>2 DEF LineStates, Safe, Unmasked
<1>5. Handled(c, l)
  BY <1>1
<1> HIDE DEF l
<1> QED
  BY <1>3, <1>4, <1>5, HandledKeeps DEF LineEoi

LEMMA IpiOpenKeeps ==
    ASSUME NEW c \in Cpus, Aic1Inv, IpiOpen(c)
    PROVE  Aic1Inv'
<1>1. /\ posted[c] = <<>>
      /\ posted' \in [Cpus -> Seq(Writes)]
      /\ posted'[c] = <<Open(c)>>
      /\ \A f \in Cpus \ {c} : posted'[f] = posted[f]
  <2>1. Open(c) \in Writes
    BY DEF Aic1Inv, Aic1TypeOK, Open, Writes, Sides
  <2>2. Aic1TypeOK /\ Post(c, Open(c)) /\ posted[c] = <<>>
    BY DEF IpiOpen, Store, MaskOwned, Aic1Inv
  <2> QED
    BY <2>1, <2>2, PostOne
<1>6. /\ irq' \in [Cpus -> {"none", "event", "ipi", "acked", "done", "line", "handler"}]
      /\ taken' \in [Cpus -> 0 .. EventLimit]
      /\ line' \in LineStates
      /\ irq'[c] \in {"none", "event"}
      /\ irq'[c] = "event" => taken'[c] < EventLimit
      /\ \A f \in Cpus \ {c} : irq'[f] = irq[f] /\ taken'[f] = taken[f]
  <2>1. line \in LineStates /\ irq[c] # "none" /\ Handled(c, line)
    BY DEF IpiOpen, Aic1Inv, Aic1TypeOK, LineStates
  <2> QED
    BY <2>1, HandledIs
<1>2. Aic1TypeOK'
  BY <1>1, <1>6 DEF IpiOpen, Aic1Inv, Aic1TypeOK, Writes, LineStates
<1>3. \A f \in Cpus : Store(f)' /\ MaskOwned(f)' /\ Down(f)' /\ Counting(f)' /\ Asking(f)'
  <2>1. \A f \in Cpus \ {c} : irq'[f] = irq[f] /\ taken'[f] = taken[f]
    BY <1>6
  <2>2. Store(c)' /\ MaskOwned(c)' /\ Down(c)' /\ Counting(c)' /\ Asking(c)'
    <3>1. /\ irq'[c] \in {"event", "none"}
          /\ irq'[c] = "event" => taken'[c] < EventLimit
      BY <1>6
    <3>2. c \in online
      BY DEF IpiOpen, Aic1Inv, Down
    <3>3. Store(c)' /\ MaskOwned(c)'
      BY <1>1, <3>1 DEF Store, MaskOwned
    <3>4. Down(c)' /\ Counting(c)' /\ Asking(c)'
      BY <3>1, <3>2 DEF IpiOpen, Aic1Inv, Down, Counting, Asking
    <3> QED
      BY <3>3, <3>4
  <2>3. ASSUME NEW f \in Cpus \ {c} PROVE Store(f)' /\ MaskOwned(f)' /\ Down(f)' /\ Counting(f)' /\ Asking(f)'
    <3>1. Store(f)' /\ MaskOwned(f)'
      BY <1>1, <2>1 DEF IpiOpen, Aic1Inv, Store, MaskOwned
    <3>2. Down(f)' /\ Counting(f)' /\ Asking(f)'
      BY <1>1, <2>1 DEF IpiOpen, Aic1Inv, Down, Counting, Asking
    <3> QED
      BY <3>1, <3>2
  <2> QED
    BY <2>2, <2>3
<1>4. NoFlagAlone'
  <2> SUFFICES ASSUME NEW d \in online', NEW j \in (mux.bits[d] \cap mux.enable[d])'
               PROVE  Served(d, j)'
    BY DEF NoFlagAlone, Served
  <2>1. d \in Cpus
    BY <1>2 DEF Aic1TypeOK, Cpus
  <2>2. Served(d, j)
    BY <2>1 DEF IpiOpen, Running, Aic1Inv, Aic1TypeOK, NoFlagAlone, Served
  <2>3. \A f \in Cpus \ {c} : irq'[f] = irq[f]
    BY <1>6
  <2>4. \A f \in Cpus : OnItsWay(f, d, j) => OnItsWay(f, d, j)'
    BY <1>1, PostedNone, PostedSame DEF OnItsWay, IpiOpen
  <2>5. d # c /\ Delivers(d) => Delivers(d)'
    BY <1>1, <2>1, <2>3, PostedSame DEF Delivers, IpiOpen
  <2>6. Posted(c, "open")' /\ ~Posted(c, "ack")'
    <3>1. Open(c).op = "open"
      BY DEF Open
    <3>2. \A op : Posted(c, op)' <=> Open(c).op = op
      BY <1>1, PostedNext
    <3> QED
      BY <3>1, <3>2
  <2>7. Delivers(c) => Delivers(c)'
    BY <2>6 DEF Delivers, IpiOpen
  <2>8. irq[c] = "done"
    BY DEF IpiOpen
  <2> QED
    BY <2>1, <2>2, <2>3, <2>4, <2>5, <2>7, <2>8 DEF Served
<1>5. LineOpen'
  <2>1. line \in LineStates /\ irq[c] # "none" /\ Handled(c, line)
    BY DEF IpiOpen, Aic1Inv, Aic1TypeOK, LineStates
  <2>2. Safe(line, c # 0 /\ irq[0] \in {"line", "handler"})
    BY DEF IpiOpen, Aic1Inv, LineOpen, Safe
  <2> QED
    BY <2>1, <2>2, HandledLine
<1> QED
  BY <1>2, <1>3, <1>4, <1>5 DEF Aic1Inv

LEMMA LineHandleKeeps ==
    ASSUME NEW c \in Cpus, Aic1Inv, LineHandle(c)
    PROVE  Aic1Inv'
<1>0. /\ irq[c] = "line" /\ irq'[c] = "handler"
      /\ \A f \in Cpus \ {c} : irq'[f] = irq[f]
  BY DEF LineHandle, Aic1Inv, Aic1TypeOK
<1>1. Aic1TypeOK'
  BY DEF LineHandle, Aic1Inv, Aic1TypeOK
<1>2. \A f \in Cpus : Store(f)' /\ MaskOwned(f)' /\ Down(f)' /\ Counting(f)' /\ Asking(f)'
  BY <1>0 DEF LineHandle, Aic1Inv, Store, MaskOwned, Down, Counting, Asking
<1>3. NoFlagAlone'
  <2> SUFFICES ASSUME NEW d \in online', NEW j \in (mux.bits[d] \cap mux.enable[d])'
               PROVE  Served(d, j)'
    BY DEF NoFlagAlone, Served
  <2>1. d \in Cpus
    BY <1>1 DEF Aic1TypeOK, Cpus
  <2>2. Served(d, j)
    BY <2>1 DEF LineHandle, Aic1Inv, NoFlagAlone, Served
  <2> QED
    BY <1>0, <2>1, <2>2, ServedStays DEF LineHandle, Asks
<1>4. LineOpen'
  BY <1>0 DEF LineHandle, Aic1Inv, LineOpen, Safe, Cpus
<1> QED
  BY <1>1, <1>2, <1>3, <1>4 DEF Aic1Inv

LEMMA LineAssertKeeps ==
    ASSUME Aic1Inv, LineAssert
    PROVE  Aic1Inv'
<1>1. Aic1TypeOK'
  BY DEF LineAssert, Running, Aic1Inv, Aic1TypeOK, Cpus, Sides
<1>2. \A f \in Cpus : Store(f)' /\ MaskOwned(f)' /\ Down(f)' /\ Counting(f)' /\ Asking(f)'
  BY DEF LineAssert, Running, Aic1Inv, Aic1TypeOK, Store, MaskOwned, Down, Counting, Asking, Cpus, Sides
<1>3. NoFlagAlone'
  <2> SUFFICES ASSUME NEW d \in online', NEW j \in (mux.bits[d] \cap mux.enable[d])'
               PROVE  Served(d, j)'
    BY DEF NoFlagAlone, Served
  <2>1. d \in Cpus
    BY <1>1 DEF Aic1TypeOK, Cpus
  <2>2. Served(d, j)
    BY <2>1 DEF LineAssert, Aic1Inv, Aic1TypeOK, NoFlagAlone, Served
  <2> QED
    BY <2>1, <2>2, ServedStays DEF LineAssert, Aic1Inv, Aic1TypeOK, Cpus, Asks
<1>4. LineOpen'
  BY DEF LineAssert, Running, Aic1Inv, Aic1TypeOK, LineOpen, Safe, Cpus
<1> QED
  BY <1>1, <1>2, <1>3, <1>4 DEF Aic1Inv

LEMMA LineDisableKeeps ==
    ASSUME Aic1Inv, LineDisable
    PROVE  Aic1Inv'
<1>1. Aic1TypeOK'
  BY DEF LineDisable, Running, Aic1Inv, Aic1TypeOK, Cpus, Sides
<1>2. \A f \in Cpus : Store(f)' /\ MaskOwned(f)' /\ Down(f)' /\ Counting(f)' /\ Asking(f)'
  BY DEF LineDisable, Running, Aic1Inv, Aic1TypeOK, Store, MaskOwned, Down, Counting, Asking, Cpus, Sides
<1>3. NoFlagAlone'
  <2> SUFFICES ASSUME NEW d \in online', NEW j \in (mux.bits[d] \cap mux.enable[d])'
               PROVE  Served(d, j)'
    BY DEF NoFlagAlone, Served
  <2>1. d \in Cpus
    BY <1>1 DEF Aic1TypeOK, Cpus
  <2>2. Served(d, j)
    BY <2>1 DEF LineDisable, Aic1Inv, Aic1TypeOK, NoFlagAlone, Served
  <2> QED
    BY <2>1, <2>2, ServedStays DEF LineDisable, Aic1Inv, Aic1TypeOK, Cpus, Asks
<1>4. LineOpen'
  BY DEF LineDisable, Running, Aic1Inv, Aic1TypeOK, LineOpen, Safe, Cpus
<1> QED
  BY <1>1, <1>2, <1>3, <1>4 DEF Aic1Inv

LEMMA LineEnableKeeps ==
    ASSUME Aic1Inv, LineEnable
    PROVE  Aic1Inv'
<1>1. Aic1TypeOK'
  BY DEF LineEnable, Running, Aic1Inv, Aic1TypeOK, Cpus, Sides, Unmasked
<1>2. \A f \in Cpus : Store(f)' /\ MaskOwned(f)' /\ Down(f)' /\ Counting(f)' /\ Asking(f)'
  BY DEF LineEnable, Running, Aic1Inv, Aic1TypeOK, Store, MaskOwned, Down, Counting, Asking, Cpus, Sides, Unmasked
<1>3. NoFlagAlone'
  <2> SUFFICES ASSUME NEW d \in online', NEW j \in (mux.bits[d] \cap mux.enable[d])'
               PROVE  Served(d, j)'
    BY DEF NoFlagAlone, Served
  <2>1. d \in Cpus
    BY <1>1 DEF Aic1TypeOK, Cpus
  <2>2. Served(d, j)
    BY <2>1 DEF LineEnable, Aic1Inv, Aic1TypeOK, NoFlagAlone, Served
  <2> QED
    BY <2>1, <2>2, ServedStays DEF LineEnable, Aic1Inv, Aic1TypeOK, Cpus, Asks
<1>4. LineOpen'
  BY DEF LineEnable, Running, Aic1Inv, Aic1TypeOK, LineOpen, Safe, Cpus, Unmasked
<1> QED
  BY <1>1, <1>2, <1>3, <1>4 DEF Aic1Inv

LEMMA SecondaryInitKeeps ==
    ASSUME Aic1Inv, SecondaryInit
    PROVE  Aic1Inv'
<1>1. Aic1TypeOK'
  BY DEF SecondaryInit, Running, Aic1Inv, Aic1TypeOK, Cpus, Sides
<1>2. \A f \in Cpus : Store(f)' /\ MaskOwned(f)' /\ Down(f)' /\ Counting(f)' /\ Asking(f)'
  BY DEF SecondaryInit, Running, Aic1Inv, Aic1TypeOK, Store, MaskOwned, Down, Counting, Asking, Cpus, Sides
<1>3. NoFlagAlone'
  <2> SUFFICES ASSUME NEW d \in online', NEW j \in (mux.bits[d] \cap mux.enable[d])'
               PROVE  Served(d, j)'
    BY DEF NoFlagAlone, Served
  <2>1. d \in Cpus
    BY <1>1 DEF Aic1TypeOK, Cpus
  <2>2. d \in online
    BY <2>1 DEF SecondaryInit, Aic1Inv, Down, Aic1TypeOK, Cpus
  <2>3. Served(d, j)
    BY <2>2 DEF SecondaryInit, Aic1Inv, NoFlagAlone, Served
  <2> QED
    BY <2>1, <2>2, <2>3, ServedStays DEF SecondaryInit, Aic1Inv, Aic1TypeOK, Cpus, Asks
<1>4. LineOpen'
  BY DEF SecondaryInit, Running, Aic1Inv, Aic1TypeOK, LineOpen, Safe, Cpus
<1> QED
  BY <1>1, <1>2, <1>3, <1>4 DEF Aic1Inv

LEMMA SecondaryDownKeeps ==
    ASSUME Aic1Inv, SecondaryDown
    PROVE  Aic1Inv'
<1>1. Aic1TypeOK'
  BY DEF SecondaryDown, Running, Aic1Inv, Aic1TypeOK, Cpus, Sides, Barrier
<1>2. \A f \in Cpus : Store(f)' /\ MaskOwned(f)' /\ Down(f)' /\ Counting(f)' /\ Asking(f)'
  <2>1. /\ irq[1] = "none" /\ posted[1] = <<>> /\ task[1].pc = "idle"
        /\ 1 \in Cpus /\ online' = {0} /\ mux'.enable[1] = {}
    BY DEF SecondaryDown, Running, Barrier, Cpus, Aic1Inv, Aic1TypeOK
  <2>2. aic.mask[1] = {}
    BY <2>1 DEF Aic1Inv, MaskOwned
  <2>3. Down(1)'
    BY <2>1, <2>2 DEF SecondaryDown, Down
  <2>4. Down(0)'
    BY <2>1 DEF Down
  <2>5. \A f \in Cpus : Store(f)' /\ MaskOwned(f)' /\ Counting(f)' /\ Asking(f)'
    BY DEF SecondaryDown, Aic1Inv, Store, MaskOwned, Counting, Asking
  <2> QED
    BY <2>3, <2>4, <2>5 DEF Cpus
<1>3. NoFlagAlone'
  <2> SUFFICES ASSUME NEW d \in online', NEW j \in (mux.bits[d] \cap mux.enable[d])'
               PROVE  Served(d, j)'
    BY DEF NoFlagAlone, Served
  <2>1. d \in Cpus
    BY <1>1 DEF Aic1TypeOK, Cpus
  <2>2. Served(d, j)
    BY <2>1 DEF SecondaryDown, Aic1Inv, Aic1TypeOK, NoFlagAlone, Served, Running, Cpus
  <2> QED
    BY <2>1, <2>2, ServedStays DEF SecondaryDown, Aic1Inv, Aic1TypeOK, Asks, Running, Cpus
<1>4. LineOpen'
  BY DEF SecondaryDown, Running, Aic1Inv, Aic1TypeOK, LineOpen, Safe, Cpus, Barrier
<1> QED
  BY <1>1, <1>2, <1>3, <1>4 DEF Aic1Inv

-----------------------------------------------------------------------------
LEMMA CpuStepKeeps ==
    ASSUME NEW c \in Cpus, Aic1Inv, CpuStep(c)
    PROVE  Aic1Inv'
BY MuxEnabledKeeps, MuxPendingKeeps, SendSingleKeeps, SentKeeps, DrainKeeps, EnterKeeps, ReadIpiKeeps, ReadLineKeeps, ReadNothingKeeps, IpiAckKeeps, IpiProcessKeeps, IpiOpenKeeps,
   OtherEventKeeps, LineRefuseKeeps, LineHandleKeeps, LineEoiKeeps
   DEF CpuStep, IrqStep, TaskStep

LEMMA Aic1NextKeeps ==
    ASSUME Aic1Inv, Aic1Next
    PROVE  Aic1Inv'
<1>1. CASE \E c \in Cpus : CpuStep(c)
  BY <1>1, CpuStepKeeps
<1>2. CASE \E c, e \in Cpus, k \in Vipis : MuxSend(c, e, k)
  BY <1>2, MuxSendKeeps
<1>3. CASE \E c \in Cpus, k \in Vipis : MuxUnmask(c, k)
  BY <1>3, MuxUnmaskKeeps
<1>4. CASE SecondaryInit \/ SecondaryDown
  BY <1>4, SecondaryInitKeeps, SecondaryDownKeeps
<1>5. CASE LineNext
  BY <1>5, LineAssertKeeps, LineDisableKeeps, LineEnableKeeps DEF LineNext
<1> QED
  BY <1>1, <1>2, <1>3, <1>4, <1>5 DEF Aic1Next, IpiNext

LEMMA Aic1Stutters == Aic1Inv /\ UNCHANGED aicVars => Aic1Inv'
<1> SUFFICES ASSUME Aic1Inv, UNCHANGED aicVars
             PROVE  Aic1Inv'
  OBVIOUS
<1>1. Aic1TypeOK' /\ LineOpen'
  BY DEF aicVars, Aic1Inv, Aic1TypeOK, LineOpen
<1>2. \A f \in Cpus : Store(f)' /\ MaskOwned(f)' /\ Down(f)' /\ Counting(f)' /\ Asking(f)'
  BY DEF aicVars, Aic1Inv, Store, MaskOwned, Down, Counting, Asking
<1>3. NoFlagAlone'
  BY DEF aicVars, Aic1Inv, NoFlagAlone, OnItsWay, InFlight, Delivers, Posted
<1> QED
  BY <1>1, <1>2, <1>3 DEF Aic1Inv

(* The invariant of the controller and its two CPUs, for any kinds of IPI  *)
(* and any limit of events: stores, barriers, masks and flags agree.       *)
THEOREM Aic1Invariance == Aic1Spec => []Aic1Inv
BY Aic1Start, Aic1NextKeeps, Aic1Stutters, PTL DEF Aic1Spec

(* No kind of IPI is lost: aic1_handle_ipi's acknowledgement lands before  *)
(* the flags are taken, so a flag that is set keeps an IPI on its way.     *)
THEOREM NoIpiLost == Aic1Spec => []NoFlagAlone
<1>1. Aic1Inv => NoFlagAlone
  BY DEF Aic1Inv
<1> QED
  BY Aic1Invariance, <1>1, PTL

(* No line is lost but to the limit of events and to a disable while its   *)
(* handler runs: whatever else masks or misroutes an enabled line is       *)
(* undone by the handler's end, or by the next enable.                     *)
THEOREM LinesKept == Aic1Spec => []LineKept
<1>1. Aic1Inv => LineKept
  BY DEF Aic1Inv, LineOpen, Safe, LineKept
<1> QED
  BY Aic1Invariance, <1>1, PTL
=============================================================================
