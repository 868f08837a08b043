--------------------------- MODULE SgxKick_proofs ---------------------------
(***************************************************************************)
(* The rings of SgxKick for every size of the rings, every size of the     *)
(* commands up to the longest and any number of commands not read; and the *)
(* page tables, which a render reads as they were when it was queued.      *)
(***************************************************************************)
EXTENDS SgxKick, TLAPS

Commands == [at : Nat, size : Nat \ {0}, pages : SUBSET Pages]

(* The inductive invariant of one ring: the commands are apart, lie in     *)
(* what is between the read and the write offset, and each is followed by  *)
(* another or by the write offset.                                         *)
Offsets(wo, ro) == wo \in 0..RingSize - 1 /\ ro \in 0..RingSize - 1
InRing(c) == c.at + c.size <= RingSize
Unread(wo, ro, c) ==
    IF ro <= wo THEN ro <= c.at /\ c.at + c.size <= wo
    ELSE ro <= c.at \/ c.at + c.size <= wo
Followed(wo, cmds, c) ==
    LET end == Wrap(c.at + c.size)
    IN  end = wo \/ \E d \in cmds : d.at = end
Ring(wo, ro, cmds, longest) ==
    /\ Offsets(wo, ro)
    /\ wo + longest <= RingSize
    /\ cmds \in SUBSET Commands
    /\ \A c \in cmds : InRing(c) /\ Unread(wo, ro, c) /\ Followed(wo, cmds, c)
    /\ \A c, d \in cmds : c = d \/ Apart(c, d)
    /\ ro # wo => \E c \in cmds : c.at = ro

RingsInv ==
    /\ rings \in [Queues -> [wo : Nat, ro : Nat, cmds : SUBSET Commands]]
    /\ \A q \in Queues : Ring(rings[q].wo, rings[q].ro, rings[q].cmds, Longest[q])

LEMMA LongestFits == \A q \in Queues : Longest[q] \in 1..RingSize
  BY KickConstants DEF Queues, Longest

(* What lies between two offsets that meet is nothing. *)
LEMMA MeetEmpty ==
    ASSUME NEW wo, NEW ro, NEW cmds, NEW longest, Ring(wo, ro, cmds, longest)
    PROVE  ro = wo <=> cmds = {}
  <1>1. ASSUME ro = wo, NEW c \in cmds PROVE FALSE
    <2>1. c \in Commands /\ Unread(wo, ro, c) BY DEF Ring
    <2>2. c.at \in Nat /\ c.size \in Nat \ {0} BY <2>1 DEF Commands
    <2>3. wo \in Nat /\ ro \in Nat BY KickConstants DEF Ring, Offsets
    <2> QED BY <1>1, <2>1, <2>2, <2>3 DEF Unread
  <1>2. cmds = {} => ro = wo BY DEF Ring
  <1> QED BY <1>1, <1>2

(* A command put where the code puts it, with the room it asks for, leaves *)
(* the ring whole, and the longest fits after it.                          *)
LEMMA PutKeepsRing ==
    ASSUME NEW wo, NEW ro, NEW cmds, NEW longest \in 1..RingSize, Ring(wo, ro, cmds, longest),
           NEW size \in Nat \ {0}, wo + size <= RingSize,
           Wrap(ro + RingSize - 1 - wo) > size,
           wo + size = RingSize \/ wo + size + longest <= RingSize,
           NEW new \in Commands, new.at = wo, new.size = size
    PROVE  Ring(Wrap(wo + size), ro, cmds \cup {new}, longest)
  <1> DEFINE end == Wrap(wo + size)
             all == cmds \cup {new}
  <1>1. RingSize \in Nat /\ wo \in Nat /\ ro \in Nat /\ wo < RingSize /\ ro < RingSize
    BY KickConstants DEF Ring, Offsets
  <1>2. \A c \in cmds : /\ c.at \in Nat /\ c.size \in Nat \ {0} /\ c \in Commands
                        /\ InRing(c) /\ Unread(wo, ro, c) /\ Followed(wo, cmds, c)
    BY DEF Ring, Commands
  <1>3. IF wo + size = RingSize THEN end = 0 ELSE end = wo + size
    BY <1>1 DEF Wrap
  <1>4. IF ro > wo THEN wo + size < ro ELSE (end = 0 => ro > 0)
    BY <1>1, <1>3 DEF Wrap
  <1>5. Offsets(end, ro) /\ end + longest <= RingSize
    BY <1>1, <1>3 DEF Offsets
  <1>6. \A c \in all : InRing(c)
    BY <1>2 DEF InRing
  <1>7. \A c \in all : Unread(end, ro, c)
    BY <1>1, <1>2, <1>3, <1>4 DEF Unread, InRing
  <1>8. \A c \in all : Followed(end, all, c)
    BY <1>2 DEF Followed
  <1>9. \A c \in cmds : Apart(c, new)
    BY <1>1, <1>2, <1>4 DEF Unread, Apart
  <1>10. \A c, d \in all : c = d \/ Apart(c, d)
    BY <1>9 DEF Ring, Apart
  <1>11. \E c \in all : c.at = ro
    BY DEF Ring
  <1> QED BY <1>5, <1>6, <1>7, <1>8, <1>10, <1>11 DEF Ring

(* The microkernel reads the command at its offset. *)
LEMMA ReadKeepsRing ==
    ASSUME NEW wo, NEW ro, NEW cmds, NEW longest, Ring(wo, ro, cmds, longest),
           NEW old \in cmds, old.at = ro
    PROVE  Ring(wo, Wrap(ro + old.size), cmds \ {old}, longest)
  <1> DEFINE next == Wrap(ro + old.size)
             left == cmds \ {old}
  <1>1. RingSize \in Nat /\ wo \in Nat /\ ro \in Nat /\ wo < RingSize /\ ro < RingSize
    BY KickConstants DEF Ring, Offsets
  <1>2. \A c \in cmds : /\ c.at \in Nat /\ c.size \in Nat \ {0} /\ c \in Commands
                        /\ InRing(c) /\ Unread(wo, ro, c) /\ Followed(wo, cmds, c)
    BY DEF Ring, Commands
  <1>3. IF ro + old.size = RingSize THEN next = 0 ELSE next = ro + old.size /\ next < RingSize
    BY <1>1, <1>2 DEF Wrap, InRing
  <1>4. \A c \in left : Apart(c, old)
    BY DEF Ring
  <1>5. Offsets(wo, next)
    BY <1>1, <1>2, <1>3 DEF Offsets
  <1>6. \A c \in left : Unread(wo, next, c)
    <2> SUFFICES ASSUME NEW c \in left PROVE Unread(wo, next, c)
      OBVIOUS
    <2>1. c.at >= ro => c.at >= ro + old.size
      BY <1>1, <1>2, <1>4 DEF Apart
    <2>2. c.at + c.size <= RingSize /\ Unread(wo, ro, c) /\ Unread(wo, ro, old)
      BY <1>2 DEF InRing
    <2> QED BY <1>1, <1>2, <1>3, <2>1, <2>2 DEF Unread
  <1>7. \A c \in left : Followed(wo, left, c)
    <2> SUFFICES ASSUME NEW c \in left PROVE Followed(wo, left, c)
      OBVIOUS
    <2>1. Wrap(c.at + c.size) = ro => ro = wo
      <3> SUFFICES ASSUME Wrap(c.at + c.size) = ro, ro # wo PROVE FALSE
        OBVIOUS
      <3>1. c.at >= ro => c.at >= ro + old.size
        BY <1>1, <1>2, <1>4 DEF Apart
      <3>2. c.at + c.size <= RingSize /\ Unread(wo, ro, c) /\ Unread(wo, ro, old)
        BY <1>2 DEF InRing
      <3> QED BY <1>1, <1>2, <3>1, <3>2 DEF Unread, Wrap
    <2>2. Wrap(c.at + c.size) = wo \/ \E d \in cmds : d.at = Wrap(c.at + c.size)
      BY <1>2 DEF Followed
    <2> QED BY <2>1, <2>2 DEF Followed
  <1>8. next # wo => \E c \in left : c.at = next
    <2>1. Followed(wo, cmds, old) BY <1>2
    <2>2. next # ro BY <1>1, <1>2, <1>3 DEF Unread
    <2> QED BY <2>1, <2>2 DEF Followed
  <1> QED BY <1>2, <1>5, <1>6, <1>7, <1>8 DEF Ring

LEMMA InitRings == KickInit => RingsInv
  <1> SUFFICES ASSUME KickInit PROVE RingsInv OBVIOUS
  <1>1. \A q \in Queues : Ring(0, 0, {}, Longest[q])
    BY KickConstants, LongestFits DEF Ring, Offsets
  <1>2. \A q \in Queues : rings[q] = EmptyRing BY DEF KickInit
  <1> QED BY <1>1, <1>2 DEF RingsInv, KickInit, EmptyRing

LEMMA PutRings ==
    ASSUME RingsInv, NEW q \in Queues, NEW len \in 1..Longest[q],
           NEW pages \in SUBSET Pages, Put(q, len, pages)
    PROVE  RingsInv'
  <1> DEFINE r == rings[q]
             size == Taking(q, r.wo, len)
             new == [at |-> r.wo, size |-> size, pages |-> pages]
  <1>1. Longest[q] \in 1..RingSize /\ RingSize \in Nat BY LongestFits, KickConstants
  <1>2. Ring(r.wo, r.ro, r.cmds, Longest[q]) BY DEF RingsInv
  <1>3. r.wo \in Nat /\ r.wo < RingSize /\ r.wo + len <= RingSize
    BY <1>1, <1>2 DEF Ring, Offsets, Put
  <1>4. /\ size \in Nat \ {0} /\ r.wo + size <= RingSize
        /\ r.wo + size = RingSize \/ r.wo + size + Longest[q] <= RingSize
    BY <1>1, <1>3 DEF Taking, Stretch
  <1>5. Wrap(r.ro + RingSize - 1 - r.wo) > size BY DEF Put, HasRoom
  <1>6. new \in Commands BY <1>3, <1>4 DEF Commands
  <1>7. Ring(Wrap(r.wo + size), r.ro, r.cmds \cup {new}, Longest[q])
    BY <1>1, <1>2, <1>4, <1>5, <1>6, PutKeepsRing
  <1>8. rings' = [rings EXCEPT ![q] = [wo |-> Wrap(r.wo + size), ro |-> r.ro,
                                       cmds |-> r.cmds \cup {new}]]
    BY Zenon DEF Put
  <1>9. Wrap(r.wo + size) \in Nat BY <1>7 DEF Ring, Offsets
  <1> QED BY <1>6, <1>7, <1>8, <1>9 DEF RingsInv

LEMMA StartRings ==
    ASSUME RingsInv, NEW q \in Queues, Starts(q)
    PROVE  RingsInv'
  <1> DEFINE r == rings[q]
  <1>1. PICK c \in r.cmds :
            /\ c.at = r.ro
            /\ rings' = [rings EXCEPT ![q] = [wo |-> r.wo, ro |-> Wrap(r.ro + c.size),
                                              cmds |-> r.cmds \ {c}]]
    BY DEF Starts
  <1>2. Ring(r.wo, r.ro, r.cmds, Longest[q]) BY DEF RingsInv
  <1>3. Ring(r.wo, Wrap(r.ro + c.size), r.cmds \ {c}, Longest[q])
    BY <1>1, <1>2, ReadKeepsRing
  <1>4. Wrap(r.ro + c.size) \in Nat BY <1>3 DEF Ring, Offsets
  <1> QED BY <1>1, <1>3, <1>4 DEF RingsInv

LEMMA NextRings == RingsInv /\ [KickNext]_kickVars => RingsInv'
  <1> SUFFICES ASSUME RingsInv, [KickNext]_kickVars PROVE RingsInv' OBVIOUS
  <1>1. CASE PutRender
    <2>1. RenderLens \subseteq 1..Longest["render"] /\ "render" \in Queues
      BY KickConstants DEF Longest, Queues
    <2> QED BY <1>1, <2>1, PutRings DEF PutRender
  <1>2. CASE PutBlt
    <2>1. BltLen \in 1..Longest["blt"] /\ "blt" \in Queues
      BY KickConstants DEF Longest, Queues
    <2> QED BY <1>2, <2>1, PutRings DEF PutBlt
  <1>3. CASE \E q \in Queues : Starts(q)
    BY <1>3, StartRings
  <1>4. CASE Reset
    <2>1. \A q \in Queues : Ring(0, 0, {}, Longest[q])
      BY KickConstants, LongestFits DEF Ring, Offsets
    <2>2. rings' = [q \in Queues |-> EmptyRing] BY <1>4 DEF Reset
    <2> QED BY <2>1, <2>2 DEF RingsInv, EmptyRing
  <1>5. CASE UNCHANGED rings
    BY <1>5 DEF RingsInv
  <1>6. ASSUME NEW p \in Pages, Remap(p) \/ Looks(p) PROVE UNCHANGED rings
    BY <1>6 DEF Remap, Looks
  <1>7. ASSUME NEW q \in Queues, Send(q) \/ KickTaken(q) \/ Fails(q) \/ Forgets(q) PROVE UNCHANGED rings
    BY <1>7 DEF Send, KickTaken, Fails, Forgets
  <1>8. Remapped \/ TakeDirty \/ Rekick \/ Boot \/ BootUp \/ BootFails \/ Takes \/ Done => UNCHANGED rings
    BY DEF Remapped, TakeDirty, Rekick, Boot, BootUp, BootFails, Takes, Done
  <1> QED BY <1>1, <1>2, <1>3, <1>4, <1>5, <1>6, <1>7, <1>8 DEF KickNext, kickVars

LEMMA RingsInvariant == KickSpec => []RingsInv
  BY InitRings, NextRings, PTL DEF KickSpec

(* The next command always fits before the end of its ring (see NextFits): *)
(* neither queue writes past its ring, whatever the sizes.                 *)
THEOREM KickNextFits == KickSpec => []NextFits
  <1>1. RingsInv => NextFits BY DEF RingsInv, Ring, NextFits
  <1> QED BY <1>1, RingsInvariant, PTL

(* The commands that are not read are whole, in both rings (RingsWhole).   *)
THEOREM KickRingsWhole == KickSpec => []RingsWhole
  <1>1. RingsInv => RingsWhole
    <2> SUFFICES ASSUME RingsInv, NEW q \in Queues
                 PROVE  /\ \A c, d \in rings[q].cmds : c = d \/ Apart(c, d)
                        /\ rings[q].ro = rings[q].wo <=> rings[q].cmds = {}
                        /\ rings[q].cmds # {} => \E c \in rings[q].cmds : c.at = rings[q].ro
      BY DEF RingsWhole
    <2>1. Ring(rings[q].wo, rings[q].ro, rings[q].cmds, Longest[q]) BY DEF RingsInv
    <2> QED BY <2>1, MeetEmpty DEF Ring
  <1> QED BY <1>1, RingsInvariant, PTL
-----------------------------------------------------------------------------
(* What the rest of the state is. *)
States == {"idle", "put", "ready", "sent"}
Calls == [at : States, inval : BOOLEAN]
KernelCommands == [to : Queues, inval : BOOLEAN]
Runs == [q : Queues, cmd : Commands] \cup {Nothing}

KernelType == kccb \in Seq(KernelCommands) /\ Len(kccb) < KernelCcb
CallType == call \in [Queues -> Calls]
ActiveType == active \in [Queues -> Commands \cup {Nothing}]
MmuType == mmu \in [pte : [Pages -> Nat], dirty : BOOLEAN, lock : Pages \cup {Nothing},
                    seen : [Pages -> Nat \cup {Nothing}]]
UkType == uk \in [up : {"no", "starting", "reset", "yes"}, asked : SUBSET Queues,
                  run : Runs, late : BOOLEAN]
KickTypes == KernelType /\ CallType /\ ActiveType /\ MmuType /\ UkType

(* Only a render's first kick carries an invalidation, and no 2D command   *)
(* names pages.                                                            *)
RenderCarries ==
    /\ \A q \in Queues : call[q].at \in {"idle", "put"} => ~call[q].inval
    /\ ~call["blt"].inval
    /\ \A c \in rings["blt"].cmds : c.pages = {}
    /\ uk.run # Nothing /\ uk.run.q = "blt" => uk.run.cmd.pages = {}

(* The start finds nobody in a call, and leaves nothing to do.             *)
StartAlone ==
    /\ uk.up # "yes" => \A q \in Queues : call[q].at = "idle"
    /\ uk.up = "reset" =>
          /\ kccb = <<>> /\ uk.asked = {} /\ uk.run = Nothing
          /\ \A q \in Queues : rings[q].cmds = {} /\ active[q] = Nothing

(* While no command was given up on: the kernel CCB has the command that   *)
(* is being sent and no other, and the render ring and the microkernel     *)
(* have the render its owner knows of and no other.                        *)
OnTime == uk.up = "yes" /\ ~uk.late
SentAlone ==
    /\ kccb # <<>> => /\ Len(kccb) = 1
                      /\ Sending(kccb[1].to) /\ kccb[1].inval = call[kccb[1].to].inval
    /\ ~(Sending("render") /\ Sending("blt"))
RenderAlone ==
    /\ rings["render"].cmds \subseteq {active["render"]}
    /\ uk.run # Nothing /\ uk.run.q = "render" =>
          uk.run.cmd = active["render"] /\ rings["render"].cmds = {}
    /\ "render" \in uk.asked => active["render"] # Nothing

(* A cached entry that is older than the page tables is about to be        *)
(* invalidated: mmu_dirty says so, or will when mmu_lock is let go of, or  *)
(* a kick that was not taken carries it.                                   *)
Stale(p) == mmu.seen[p] \notin {Nothing, mmu.pte[p]}
Carried ==
    \/ call["render"].at = "ready" /\ call["render"].inval
    \/ kccb # <<>> /\ kccb[1].inval
StaleIsKnown == \A p \in Pages : Stale(p) => mmu.dirty \/ mmu.lock = p \/ Carried

(* ... of a page of the queued render before that render is looked at.     *)
RenderUntold ==
    call["render"].at = "put" \/ Carried =>
        /\ "render" \notin uk.asked
        /\ uk.run = Nothing \/ uk.run.q # "render"
RenderFresh ==
    active["render"] # Nothing => \A p \in active["render"].pages :
        /\ mmu.lock # p
        /\ Stale(p) => (call["render"].at = "put" /\ mmu.dirty) \/ Carried

KickInv ==
    /\ RenderCarries /\ StartAlone
    /\ OnTime => SentAlone /\ RenderAlone /\ StaleIsKnown /\ RenderUntold /\ RenderFresh

-----------------------------------------------------------------------------
(* The command that Put writes. *)
Written(q, len, pages) ==
    [at |-> rings[q].wo, size |-> Taking(q, rings[q].wo, len), pages |-> pages]

LEMMA WrittenType ==
    ASSUME RingsInv, NEW q \in Queues, NEW len \in 1..Longest[q],
           NEW pages \in SUBSET Pages, Put(q, len, pages)
    PROVE  Written(q, len, pages) \in Commands
  <1>1. Longest[q] \in 1..RingSize /\ RingSize \in Nat BY LongestFits, KickConstants
  <1>2. Ring(rings[q].wo, rings[q].ro, rings[q].cmds, Longest[q]) BY DEF RingsInv
  <1>3. rings[q].wo \in Nat /\ rings[q].wo + len <= RingSize
    BY <1>1, <1>2 DEF Ring, Offsets, Put
  <1>4. Taking(q, rings[q].wo, len) \in Nat \ {0}
    BY <1>1, <1>3 DEF Taking, Stretch
  <1> QED BY <1>3, <1>4 DEF Written, Commands

LEMMA InitKick == KickInit => KickTypes /\ KickInv
  <1> SUFFICES ASSUME KickInit PROVE KickTypes /\ KickInv OBVIOUS
  <1> USE DEF KickInit, Queues
  <1>1. KernelType BY KickConstants DEF KernelType, KernelCommands
  <1>2. CallType /\ ActiveType BY DEF CallType, ActiveType, Calls, States, Idle
  <1>3. MmuType BY DEF MmuType
  <1>4. UkType BY DEF UkType, Runs
  <1>5. RenderCarries BY DEF RenderCarries, Idle, EmptyRing
  <1>6. StartAlone BY DEF StartAlone, Idle, EmptyRing
  <1>7. ~OnTime BY DEF OnTime
  <1> QED BY <1>1, <1>2, <1>3, <1>4, <1>5, <1>6, <1>7 DEF KickTypes, KickInv

(* The types, action by action. *)
LEMMA PutTypes ==
    ASSUME KickTypes, RingsInv, NEW q \in Queues, NEW len \in 1..Longest[q],
           NEW pages \in SUBSET Pages, Put(q, len, pages)
    PROVE  KickTypes'
  <1>1. Written(q, len, pages) \in Commands BY WrittenType
  <1>2. /\ call' = [call EXCEPT ![q].at = "put"]
        /\ active' = [active EXCEPT ![q] = Written(q, len, pages)]
        /\ UNCHANGED <<kccb, mmu, uk>>
    BY DEF Put, Written
  <1>3. CallType' BY <1>2 DEF KickTypes, CallType, Calls, States
  <1>4. ActiveType' BY <1>1, <1>2 DEF KickTypes, ActiveType
  <1> QED BY <1>2, <1>3, <1>4 DEF KickTypes, KernelType, MmuType, UkType

LEMMA TakesTypes == ASSUME KickTypes, Takes PROVE KickTypes'
  <1>1. kccb # <<>> /\ kccb \in Seq(KernelCommands) BY DEF KickTypes, KernelType, Takes
  <1>2. Tail(kccb) \in Seq(KernelCommands) /\ Len(Tail(kccb)) < KernelCcb
    BY <1>1, KickConstants DEF KickTypes, KernelType
  <1>3. Head(kccb).to \in Queues
    <2>1. Head(kccb) \in KernelCommands BY <1>1
    <2> QED BY <2>1 DEF KernelCommands
  <1>4. KernelType' BY <1>2 DEF KernelType, Takes
  <1>5. MmuType' BY DEF KickTypes, MmuType, Takes
  <1>6. UkType' BY <1>3 DEF KickTypes, UkType, Takes
  <1> QED BY <1>4, <1>5, <1>6 DEF KickTypes, CallType, ActiveType, Takes

LEMMA NextTypes == KickTypes /\ RingsInv /\ [KickNext]_kickVars => KickTypes'
  <1> SUFFICES ASSUME KickTypes, RingsInv, [KickNext]_kickVars PROVE KickTypes' OBVIOUS
  <1> USE DEF KickTypes
  <1>1. CASE PutRender
    <2>1. RenderLens \subseteq 1..Longest["render"] /\ "render" \in Queues
      BY KickConstants DEF Longest, Queues
    <2> QED BY <1>1, <2>1, PutTypes DEF PutRender
  <1>2. CASE PutBlt
    <2>1. BltLen \in 1..Longest["blt"] /\ "blt" \in Queues
      BY KickConstants DEF Longest, Queues
    <2> QED BY <1>2, <2>1, PutTypes DEF PutBlt
  <1>3. ASSUME NEW p \in Pages, Remap(p) PROVE KickTypes'
    <2>1. mmu.pte[p] + 1 \in Nat BY DEF MmuType
    <2>2. MmuType' BY <1>3, <2>1 DEF Remap, MmuType
    <2> QED BY <1>3, <2>2 DEF Remap, KernelType, CallType, ActiveType, UkType
  <1>4. ASSUME NEW p \in Pages, Looks(p) PROVE KickTypes'
    BY <1>4 DEF Looks, KernelType, CallType, ActiveType, MmuType, UkType
  <1>5. ASSUME NEW q \in Queues, Send(q) PROVE KickTypes'
    <2>1. [to |-> q, inval |-> call[q].inval] \in KernelCommands
      BY DEF CallType, Calls, KernelCommands
    <2>2. KernelType' BY <1>5, <2>1, KickConstants DEF Send, KernelType
    <2>3. CallType' BY <1>5 DEF Send, CallType, Calls, States
    <2> QED BY <1>5, <2>2, <2>3 DEF Send, ActiveType, MmuType, UkType
  <1>6. ASSUME NEW q \in Queues, KickTaken(q) PROVE KickTypes'
    BY <1>6 DEF KickTaken, Idle, States, Calls, KernelType, CallType, ActiveType, MmuType, UkType
  <1>7. ASSUME NEW q \in Queues, Fails(q) PROVE KickTypes'
    BY <1>7 DEF Fails, Idle, States, Calls, KernelType, CallType, ActiveType, MmuType, UkType
  <1>8. ASSUME NEW q \in Queues, Starts(q) PROVE KickTypes'
    <2>1. PICK c \in rings[q].cmds : uk' = [uk EXCEPT !.run = [q |-> q, cmd |-> c]]
      BY <1>8 DEF Starts
    <2>2. c \in Commands BY DEF RingsInv
    <2>3. UkType' BY <2>1, <2>2 DEF UkType, Runs
    <2> QED BY <1>8, <2>3 DEF Starts, KernelType, CallType, ActiveType, MmuType
  <1>9. ASSUME NEW q \in Queues, Forgets(q) PROVE KickTypes'
    BY <1>9 DEF Forgets, KernelType, CallType, ActiveType, MmuType, UkType
  <1>10. CASE Remapped
    BY <1>10 DEF Remapped, KernelType, CallType, ActiveType, MmuType, UkType
  <1>11. CASE TakeDirty
    BY <1>11 DEF TakeDirty, Queues, States, Calls, KernelType, CallType, ActiveType, MmuType, UkType
  <1>12. CASE Rekick
    BY <1>12 DEF Rekick, Queues, States, Calls, KernelType, CallType, ActiveType, MmuType, UkType
  <1>13. CASE Boot
    BY <1>13 DEF Boot, KernelType, CallType, ActiveType, MmuType, UkType
  <1>14. CASE Reset
    <2>1. KernelType' BY <1>14, KickConstants DEF Reset, KernelType
    <2>2. ActiveType' BY <1>14 DEF Reset, ActiveType
    <2>3. MmuType' BY <1>14 DEF Reset, MmuType
    <2>4. UkType' BY <1>14 DEF Reset, UkType, Runs
    <2> QED BY <1>14, <2>1, <2>2, <2>3, <2>4 DEF Reset, CallType
  <1>15. CASE BootUp
    BY <1>15 DEF BootUp, KernelType, CallType, ActiveType, MmuType, UkType
  <1>16. CASE BootFails
    BY <1>16 DEF BootFails, KernelType, CallType, ActiveType, MmuType, UkType
  <1>17. CASE Takes
    BY <1>17, TakesTypes
  <1>18. CASE Done
    <2>1. UkType' BY <1>18 DEF Done, UkType, Runs
    <2>2. ActiveType' BY <1>18 DEF Done, ActiveType, UkType, Runs
    <2> QED BY <1>18, <2>1, <2>2 DEF Done, KernelType, CallType, MmuType
  <1>19. CASE UNCHANGED kickVars
    BY <1>19 DEF kickVars, KernelType, CallType, ActiveType, MmuType, UkType
  <1> QED BY <1>1, <1>2, <1>3, <1>4, <1>5, <1>6, <1>7, <1>8, <1>9, <1>10, <1>11, <1>12,
             <1>13, <1>14, <1>15, <1>16, <1>17, <1>18, <1>19 DEF KickNext
-----------------------------------------------------------------------------
(* The invariant, action by action.                                        *)
OnTimeInv == SentAlone /\ RenderAlone /\ StaleIsKnown /\ RenderUntold /\ RenderFresh

LEMMA NothingIsNoCommand == Nothing \notin Commands /\ Nothing \notin Pages
  BY KickConstants DEF Commands

LEMMA ActivePages ==
    ASSUME KickTypes, active["render"] # Nothing
    PROVE  active["render"].pages \subseteq Pages
  <1>1. active["render"] \in Commands BY DEF KickTypes, ActiveType, Queues
  <1> QED BY <1>1 DEF Commands

LEMMA OneSent ==
    ASSUME KickTypes, Len(kccb) = 1
    PROVE  kccb[1].to \in Queues /\ kccb[1].inval \in BOOLEAN
  <1>1. kccb[1] \in KernelCommands BY DEF KickTypes, KernelType
  <1> QED BY <1>1 DEF KernelCommands

LEMMA PutKick ==
    ASSUME KickTypes, RingsInv, KickInv, NEW q \in Queues, NEW len \in 1..Longest[q],
           NEW pages \in SUBSET Pages, Put(q, len, pages),
           q = "render" => \A p \in pages : mmu.lock # p,
           q = "blt" => pages = {}
    PROVE  KickInv'
  <1> DEFINE c == Written(q, len, pages)
  <1>1. c \in Commands /\ c # Nothing /\ c.pages = pages
    BY WrittenType, NothingIsNoCommand DEF Written
  <1>2. /\ uk.up = "yes" /\ call[q].at = "idle" /\ active[q] = Nothing
        /\ call' = [call EXCEPT ![q].at = "put"]
        /\ active' = [active EXCEPT ![q] = c]
        /\ UNCHANGED <<kccb, mmu, uk>>
    BY DEF Put, Written
  <1>3. /\ \A o \in Queues : o # q => rings'[o] = rings[o]
        /\ rings'[q].cmds = rings[q].cmds \cup {c}
    BY DEF Put, Written, RingsInv
  <1>4. /\ \A o \in Queues : o # q => call'[o] = call[o]
        /\ call'[q].at = "put" /\ call'[q].inval = call[q].inval
        /\ \A o \in Queues : active'[o] = IF o = q THEN c ELSE active[o]
    BY <1>2 DEF KickTypes, CallType, Calls, ActiveType
  <1> USE DEF Queues
  <1>5. RenderCarries' BY <1>1, <1>2, <1>3, <1>4 DEF KickInv, RenderCarries
  <1>6. StartAlone' BY <1>2, <1>4 DEF KickInv, StartAlone
  <1>7. ASSUME OnTime' PROVE OnTimeInv'
    <2>1. OnTimeInv BY <1>2, <1>7 DEF KickInv, OnTime, OnTimeInv
    <2>2. SentAlone' BY <1>2, <1>4, <2>1 DEF OnTimeInv, SentAlone, Sending
    <2>3. RenderAlone'
      BY <1>1, <1>2, <1>3, <1>4, <2>1, NothingIsNoCommand
      DEF OnTimeInv, RenderAlone, RingsInv, KickTypes, UkType, Runs
    <2>4. StaleIsKnown' BY <1>2, <1>4, <2>1 DEF OnTimeInv, StaleIsKnown, Stale, Carried
    <2>5. RenderUntold'
      BY <1>2, <1>4, <2>1, NothingIsNoCommand
      DEF OnTimeInv, RenderUntold, Carried, RenderAlone, KickTypes, UkType, Runs
    <2>6. RenderFresh'
      BY <1>1, <1>2, <1>4, <2>1 DEF OnTimeInv, RenderFresh, StaleIsKnown, Stale, Carried
    <2> QED BY <2>2, <2>3, <2>4, <2>5, <2>6 DEF OnTimeInv
  <1> QED BY <1>5, <1>6, <1>7 DEF KickInv, OnTimeInv

LEMMA SendKick ==
    ASSUME KickTypes, KickInv, NEW q \in Queues, Send(q)
    PROVE  KickInv'
  <1> USE DEF Queues
  <1>1. /\ kccb' = Append(kccb, [to |-> q, inval |-> call[q].inval])
        /\ \A o \in Queues : o # q => call'[o] = call[o]
        /\ call'[q].at = "sent" /\ call'[q].inval = call[q].inval
        /\ UNCHANGED <<rings, active, mmu, uk>>
    BY DEF Send, KickTypes, CallType, Calls
  <1>2. /\ call[q].at = "ready" \/ (q = "blt" /\ call[q].at = "put")
        /\ \A o \in Queues : call[o].at # "sent"
    BY DEF Send, ReadyToSend, Sending
  <1>3. RenderCarries' BY <1>1 DEF KickInv, RenderCarries
  <1>4. StartAlone' BY <1>1, <1>2 DEF KickInv, StartAlone
  <1>5. ASSUME OnTime' PROVE OnTimeInv'
    <2>1. OnTimeInv BY <1>1, <1>5 DEF KickInv, OnTime, OnTimeInv
    <2>2. kccb = <<>>
      <3>1. kccb # <<>> => Len(kccb) = 1 /\ kccb[1].to \in Queues
        BY <2>1, OneSent DEF OnTimeInv, SentAlone
      <3> QED BY <1>2, <2>1, <3>1 DEF OnTimeInv, SentAlone, Sending
    <2>3. kccb' # <<>> /\ Len(kccb') = 1 /\ kccb'[1] = [to |-> q, inval |-> call[q].inval]
      BY <1>1, <2>2
    <2>4. SentAlone' BY <1>1, <1>2, <2>3 DEF SentAlone, Sending
    <2>5. RenderAlone' BY <1>1, <2>1 DEF OnTimeInv, RenderAlone
    <2>6. Carried => Carried' BY <1>1, <1>2, <2>2, <2>3 DEF Carried
    <2>7. StaleIsKnown' BY <1>1, <2>1, <2>6 DEF OnTimeInv, StaleIsKnown, Stale
    <2>8. Carried' => Carried
      BY <1>1, <1>2, <2>3 DEF Carried, KickInv, RenderCarries
    <2>9. RenderUntold' BY <1>1, <1>2, <2>1, <2>8 DEF OnTimeInv, RenderUntold
    <2>10. RenderFresh' BY <1>1, <1>2, <2>1, <2>6 DEF OnTimeInv, RenderFresh, Stale
    <2> QED BY <2>4, <2>5, <2>7, <2>9, <2>10 DEF OnTimeInv
  <1> QED BY <1>3, <1>4, <1>5 DEF KickInv, OnTimeInv

LEMMA TakesKick ==
    ASSUME KickTypes, RingsInv, KickInv, Takes
    PROVE  KickInv'
  <1> USE DEF Queues
  <1>1. /\ kccb # <<>> /\ kccb' = Tail(kccb) /\ UNCHANGED <<rings, call, active>>
        /\ uk'.up = uk.up /\ uk'.late = uk.late /\ uk'.run = uk.run
        /\ uk'.asked = uk.asked \cup {q \in {Head(kccb).to} : rings[q].cmds # {}}
        /\ mmu' = IF Head(kccb).inval THEN [mmu EXCEPT !.seen = [p \in Pages |-> Nothing]]
                  ELSE mmu
        /\ UkRuns
    BY DEF Takes, KickTypes, UkType
  <1>2. RenderCarries' BY <1>1 DEF KickInv, RenderCarries
  <1>3. StartAlone' BY <1>1 DEF KickInv, StartAlone, UkRuns
  <1>4. ASSUME OnTime' PROVE OnTimeInv'
    <2>1. OnTimeInv BY <1>1, <1>4 DEF KickInv, OnTime, OnTimeInv
    <2>2. /\ Len(kccb) = 1 /\ Head(kccb) = kccb[1] /\ kccb' = <<>>
          /\ kccb[1].to \in Queues /\ kccb[1].inval \in BOOLEAN
      BY <1>1, <2>1, OneSent DEF OnTimeInv, SentAlone, KickTypes, KernelType
    <2>3. call[kccb[1].to].at = "sent" /\ kccb[1].inval = call[kccb[1].to].inval
      BY <1>1, <2>1 DEF OnTimeInv, SentAlone, Sending
    <2>4. SentAlone' BY <1>1, <2>1, <2>2 DEF OnTimeInv, SentAlone, Sending
    <2>5. rings["render"].cmds # {} => active["render"] # Nothing
      BY <2>1, NothingIsNoCommand DEF OnTimeInv, RenderAlone, KickTypes, ActiveType, RingsInv
    <2>6. RenderAlone' BY <1>1, <2>1, <2>2, <2>5 DEF OnTimeInv, RenderAlone
    <2>7. \A p \in Pages : /\ mmu'.pte = mmu.pte /\ mmu'.dirty = mmu.dirty
                           /\ mmu'.lock = mmu.lock
                           /\ mmu'.seen[p] = IF kccb[1].inval THEN Nothing ELSE mmu.seen[p]
      BY <1>1, <2>2 DEF KickTypes, MmuType
    <2>8. /\ \A p \in Pages : Stale(p)' => Stale(p) /\ ~kccb[1].inval
          /\ Carried /\ ~kccb[1].inval => Carried'
          /\ Carried' => Carried /\ call["render"].at = "ready"
      BY <1>1, <2>2, <2>7 DEF Stale, Carried
    <2>9. StaleIsKnown' BY <2>1, <2>7, <2>8 DEF OnTimeInv, StaleIsKnown
    <2>10. RenderUntold' BY <1>1, <2>1, <2>2, <2>3, <2>8 DEF OnTimeInv, RenderUntold
    <2>11. RenderFresh'
      BY <1>1, <2>1, <2>7, <2>8 DEF OnTimeInv, RenderFresh, KickTypes, ActiveType, Commands
    <2> QED BY <2>4, <2>6, <2>9, <2>10, <2>11 DEF OnTimeInv
  <1> QED BY <1>2, <1>3, <1>4 DEF KickInv, OnTimeInv
(* The page tables and the GPU's look-ups. *)
LEMMA TablesKick ==
    ASSUME KickTypes, KickInv, NEW p \in Pages, Remap(p) \/ Looks(p) \/ Remapped
    PROVE  KickInv'
  <1>1. UNCHANGED <<rings, kccb, call, active, uk>> BY DEF Remap, Looks, Remapped
  <1>2. RenderCarries' /\ StartAlone'
    BY <1>1 DEF KickInv, RenderCarries, StartAlone
  <1>3. ASSUME OnTime' PROVE OnTimeInv'
    <2>1. OnTimeInv BY <1>1, <1>3 DEF KickInv, OnTime, OnTimeInv
    <2>2. SentAlone' /\ RenderAlone' BY <1>1, <2>1 DEF OnTimeInv, SentAlone, RenderAlone, Sending
    <2>3. Carried' = Carried BY <1>1 DEF Carried
    <2>4. RenderUntold' BY <1>1, <2>1, <2>3 DEF OnTimeInv, RenderUntold
    <2>5. CASE Remap(p)
      <3>1. /\ mmu.lock = Nothing /\ mmu'.lock = p /\ mmu'.dirty = mmu.dirty
            /\ mmu'.seen = mmu.seen /\ \A o \in Pages : o # p => mmu'.pte[o] = mmu.pte[o]
        BY <2>5 DEF Remap, KickTypes, MmuType
      <3>2. StaleIsKnown' BY <2>1, <2>3, <3>1, NothingIsNoCommand DEF OnTimeInv, StaleIsKnown, Stale
      <3>3. ~UsedByRender(p) BY <2>5 DEF Remap
      <3>4. RenderFresh'
        BY <1>1, <2>1, <2>3, <3>1, <3>3, ActivePages
        DEF OnTimeInv, RenderFresh, Stale, UsedByRender
      <3> QED BY <2>2, <2>4, <3>2, <3>4 DEF OnTimeInv
    <2>6. CASE Looks(p)
      <3>1. /\ mmu'.lock = mmu.lock /\ mmu'.dirty = mmu.dirty /\ mmu'.pte = mmu.pte
            /\ \A o \in Pages : o # p => mmu'.seen[o] = mmu.seen[o]
            /\ mmu'.seen[p] = IF mmu.seen[p] = Nothing THEN mmu.pte[p] ELSE mmu.seen[p]
        BY <2>6 DEF Looks, KickTypes, MmuType
      <3>2. \A o \in Pages : Stale(o)' => Stale(o) BY <3>1 DEF Stale
      <3>3. StaleIsKnown' BY <2>1, <2>3, <3>1, <3>2 DEF OnTimeInv, StaleIsKnown
      <3>4. RenderFresh'
        BY <1>1, <2>1, <2>3, <3>1, <3>2, ActivePages DEF OnTimeInv, RenderFresh
      <3> QED BY <2>2, <2>4, <3>3, <3>4 DEF OnTimeInv
    <2>7. CASE Remapped
      <3>1. /\ mmu'.lock = Nothing /\ mmu'.dirty = TRUE /\ mmu'.pte = mmu.pte
            /\ mmu'.seen = mmu.seen
        BY <2>7 DEF Remapped, KickTypes, MmuType
      <3>2. StaleIsKnown' BY <3>1 DEF StaleIsKnown
      <3>3. RenderFresh'
        BY <1>1, <2>1, <2>3, <3>1, ActivePages, NothingIsNoCommand
        DEF OnTimeInv, RenderFresh, Stale
      <3> QED BY <2>2, <2>4, <3>2, <3>3 DEF OnTimeInv
    <2> QED BY <2>5, <2>6, <2>7
  <1> QED BY <1>2, <1>3 DEF KickInv, OnTimeInv

(* The render thread takes mmu_dirty, or kicks again. *)
LEMMA TakeDirtyKick == ASSUME KickTypes, KickInv, TakeDirty PROVE KickInv'
  <1> USE DEF Queues
  <1>1. /\ call["render"].at = "put" /\ UNCHANGED <<rings, kccb, active, uk>>
        /\ call'["blt"] = call["blt"]
        /\ call'["render"].at = "ready" /\ call'["render"].inval = mmu.dirty
        /\ mmu'.dirty = FALSE /\ mmu'.pte = mmu.pte /\ mmu'.seen = mmu.seen
        /\ mmu'.lock = mmu.lock
    BY DEF TakeDirty, KickTypes, CallType, Calls, MmuType
  <1>2. RenderCarries' BY <1>1 DEF KickInv, RenderCarries
  <1>3. StartAlone' BY <1>1 DEF KickInv, StartAlone
  <1>4. ASSUME OnTime' PROVE OnTimeInv'
    <2>1. OnTimeInv BY <1>1, <1>4 DEF KickInv, OnTime, OnTimeInv
    <2>2. SentAlone'
      <3>1. kccb # <<>> => Len(kccb) = 1 /\ kccb[1].to \in Queues
        BY <2>1, OneSent DEF OnTimeInv, SentAlone
      <3> QED BY <1>1, <2>1, <3>1 DEF OnTimeInv, SentAlone, Sending
    <2>3. RenderAlone' BY <1>1, <2>1 DEF OnTimeInv, RenderAlone
    <2>4. (Carried \/ mmu.dirty) => Carried' BY <1>1 DEF Carried
    <2>5. StaleIsKnown' BY <1>1, <2>1, <2>4 DEF OnTimeInv, StaleIsKnown, Stale
    <2>6. RenderUntold' BY <1>1, <2>1 DEF OnTimeInv, RenderUntold
    <2>7. RenderFresh' BY <1>1, <2>1, <2>4 DEF OnTimeInv, RenderFresh, Stale
    <2> QED BY <2>2, <2>3, <2>5, <2>6, <2>7 DEF OnTimeInv
  <1> QED BY <1>2, <1>3, <1>4 DEF KickInv, OnTimeInv

LEMMA RekickKick == ASSUME KickTypes, KickInv, Rekick PROVE KickInv'
  <1> USE DEF Queues
  <1>1. /\ call["render"].at = "idle" /\ UNCHANGED <<rings, kccb, active, mmu, uk>>
        /\ call'["blt"] = call["blt"] /\ uk.up = "yes"
        /\ call'["render"].at = "ready" /\ call'["render"].inval = call["render"].inval
    BY DEF Rekick, KickTypes, CallType, Calls
  <1>2. ~call["render"].inval BY <1>1 DEF KickInv, RenderCarries
  <1>3. RenderCarries' BY <1>1 DEF KickInv, RenderCarries
  <1>4. StartAlone' BY <1>1 DEF KickInv, StartAlone
  <1>5. ASSUME OnTime' PROVE OnTimeInv'
    <2>1. OnTimeInv BY <1>1, <1>5 DEF KickInv, OnTime, OnTimeInv
    <2>2. SentAlone'
      <3>1. kccb # <<>> => Len(kccb) = 1 /\ kccb[1].to \in Queues
        BY <2>1, OneSent DEF OnTimeInv, SentAlone
      <3> QED BY <1>1, <2>1, <3>1 DEF OnTimeInv, SentAlone, Sending
    <2>3. RenderAlone' BY <1>1, <2>1 DEF OnTimeInv, RenderAlone
    <2>4. Carried' <=> Carried BY <1>1, <1>2 DEF Carried
    <2>5. StaleIsKnown' BY <1>1, <2>1, <2>4 DEF OnTimeInv, StaleIsKnown, Stale
    <2>6. RenderUntold' BY <1>1, <2>1, <2>4 DEF OnTimeInv, RenderUntold
    <2>7. RenderFresh' BY <1>1, <2>1, <2>4 DEF OnTimeInv, RenderFresh, Stale
    <2> QED BY <2>2, <2>3, <2>5, <2>6, <2>7 DEF OnTimeInv
  <1> QED BY <1>3, <1>4, <1>5 DEF KickInv, OnTimeInv

LEMMA KickTakenKick ==
    ASSUME KickTypes, KickInv, NEW q \in Queues, KickTaken(q)
    PROVE  KickInv'
  <1> USE DEF Queues
  <1>1. /\ call[q].at = "sent" /\ kccb = <<>> /\ UNCHANGED <<rings, kccb, active, mmu, uk>>
        /\ \A o \in Queues : o # q => call'[o] = call[o]
        /\ call'[q].at = "idle" /\ call'[q].inval = FALSE
    BY DEF KickTaken, Sending, KickTypes, CallType, Calls, Idle
  <1>2. RenderCarries' BY <1>1 DEF KickInv, RenderCarries
  <1>3. StartAlone' BY <1>1 DEF KickInv, StartAlone
  <1>4. ASSUME OnTime' PROVE OnTimeInv'
    <2>1. OnTimeInv BY <1>1, <1>4 DEF KickInv, OnTime, OnTimeInv
    <2>2. SentAlone' BY <1>1, <2>1 DEF OnTimeInv, SentAlone, Sending
    <2>3. RenderAlone' BY <1>1, <2>1 DEF OnTimeInv, RenderAlone
    <2>4. Carried' <=> Carried BY <1>1 DEF Carried
    <2>5. StaleIsKnown' BY <1>1, <2>1, <2>4 DEF OnTimeInv, StaleIsKnown, Stale
    <2>6. RenderUntold' BY <1>1, <2>1, <2>4 DEF OnTimeInv, RenderUntold
    <2>7. RenderFresh' BY <1>1, <2>1, <2>4 DEF OnTimeInv, RenderFresh, Stale
    <2> QED BY <2>2, <2>3, <2>5, <2>6, <2>7 DEF OnTimeInv
  <1> QED BY <1>2, <1>3, <1>4 DEF KickInv, OnTimeInv

LEMMA FailsKick ==
    ASSUME KickTypes, KickInv, NEW q \in Queues, Fails(q)
    PROVE  KickInv'
  <1> USE DEF Queues
  <1>1. /\ UNCHANGED <<rings, kccb, mmu>> /\ call[q].at # "idle"
        /\ \A o \in Queues : o # q => call'[o] = call[o]
        /\ call'[q].at = "idle" /\ call'[q].inval = FALSE
        /\ uk'.up = uk.up /\ uk'.run = uk.run /\ uk'.asked = uk.asked /\ uk'.late = TRUE
    BY DEF Fails, Sending, ReadyToSend, KickTypes, CallType, Calls, Idle, UkType
  <1>2. RenderCarries' BY <1>1 DEF KickInv, RenderCarries
  <1>3. StartAlone' BY <1>1 DEF KickInv, StartAlone
  <1>4. ~OnTime' BY <1>1 DEF OnTime
  <1> QED BY <1>2, <1>3, <1>4 DEF KickInv

(* The start. *)
LEMMA StartKick ==
    ASSUME KickTypes, KickInv, Boot \/ Reset \/ BootUp \/ BootFails
    PROVE  KickInv'
  <1> USE DEF Queues
  <1>1. CASE Boot
    <2>1. uk' = [uk EXCEPT !.up = "starting"] /\ UNCHANGED <<rings, kccb, call, active, mmu>>
          /\ \A q \in Queues : call[q].at = "idle"
      BY <1>1 DEF Boot
    <2>2. uk'.up = "starting" /\ uk'.run = uk.run BY <2>1 DEF KickTypes, UkType
    <2> QED BY <2>1, <2>2 DEF KickInv, RenderCarries, StartAlone, OnTime
  <1>2. CASE Reset
    <2>1. /\ \A q \in Queues : call[q].at = "idle" /\ call'[q] = call[q]
          /\ uk'.up = "reset" /\ uk'.run = Nothing /\ uk'.asked = {} /\ kccb' = <<>>
          /\ \A q \in Queues : rings'[q].cmds = {} /\ active'[q] = Nothing
      BY <1>2 DEF Reset, EmptyRing, KickInv, StartAlone
    <2> QED BY <2>1 DEF KickInv, RenderCarries, StartAlone, OnTime
  <1>3. CASE BootUp
    <2>1. /\ UNCHANGED <<rings, kccb, call, active>> /\ uk.up = "reset" /\ uk'.up = "yes"
          /\ uk'.run = uk.run /\ uk'.asked = uk.asked
          /\ \A p \in Pages : mmu'.seen[p] = Nothing
      BY <1>3 DEF BootUp, KickTypes, UkType, MmuType
    <2>2. /\ kccb = <<>> /\ uk.asked = {} /\ uk.run = Nothing
          /\ \A q \in Queues : /\ rings[q].cmds = {} /\ active[q] = Nothing
                               /\ call[q].at = "idle"
      BY <2>1 DEF KickInv, StartAlone
    <2>3. OnTimeInv'
      BY <2>1, <2>2 DEF OnTimeInv, SentAlone, Sending, RenderAlone, StaleIsKnown, Stale,
         RenderUntold, RenderFresh, Carried
    <2> QED BY <2>1, <2>2, <2>3 DEF KickInv, OnTimeInv, RenderCarries, StartAlone
  <1>4. CASE BootFails
    <2>1. /\ UNCHANGED <<rings, kccb, call, mmu>> /\ uk.up # "yes" /\ uk'.up = "no"
          /\ uk'.run = uk.run
      BY <1>4 DEF BootFails, KickTypes, UkType
    <2> QED BY <2>1 DEF KickInv, RenderCarries, StartAlone, OnTime
  <1> QED BY <1>1, <1>2, <1>3, <1>4

(* The microkernel. *)
LEMMA StartsKick ==
    ASSUME KickTypes, RingsInv, KickInv, NEW q \in Queues, Starts(q)
    PROVE  KickInv'
  <1> USE DEF Queues
  <1>1. PICK c \in rings[q].cmds :
            /\ rings'[q].cmds = rings[q].cmds \ {c}
            /\ uk' = [uk EXCEPT !.run = [q |-> q, cmd |-> c]]
            /\ \A o \in Queues : o # q => rings'[o] = rings[o]
    BY DEF Starts, RingsInv
  <1>2. /\ uk'.up = uk.up /\ uk'.late = uk.late /\ uk'.asked = uk.asked
        /\ uk'.run.q = q /\ uk'.run.cmd = c /\ uk.run = Nothing
        /\ q \in uk.asked /\ UNCHANGED <<kccb, call, active, mmu>> /\ UkRuns
    BY <1>1 DEF Starts, KickTypes, UkType
  <1>3. RenderCarries' BY <1>1, <1>2 DEF KickInv, RenderCarries
  <1>4. StartAlone' BY <1>2 DEF KickInv, StartAlone, UkRuns
  <1>5. ASSUME OnTime' PROVE OnTimeInv'
    <2>1. OnTimeInv BY <1>2, <1>5 DEF KickInv, OnTime, OnTimeInv
    <2>2. SentAlone' BY <1>2, <2>1 DEF OnTimeInv, SentAlone, Sending
    <2>3. RenderAlone' BY <1>1, <1>2, <2>1 DEF OnTimeInv, RenderAlone
    <2>4. Carried' = Carried BY <1>2 DEF Carried
    <2>5. StaleIsKnown' BY <1>2, <2>1, <2>4 DEF OnTimeInv, StaleIsKnown, Stale
    <2>6. RenderUntold' BY <1>2, <2>1, <2>4 DEF OnTimeInv, RenderUntold
    <2>7. RenderFresh' BY <1>2, <2>1, <2>4 DEF OnTimeInv, RenderFresh, Stale
    <2> QED BY <2>2, <2>3, <2>5, <2>6, <2>7 DEF OnTimeInv
  <1> QED BY <1>3, <1>4, <1>5 DEF KickInv, OnTimeInv

LEMMA ForgetsKick ==
    ASSUME KickTypes, KickInv, NEW q \in Queues, Forgets(q)
    PROVE  KickInv'
  <1>1. /\ uk'.up = uk.up /\ uk'.late = uk.late /\ uk'.asked = uk.asked \ {q}
        /\ uk'.run = uk.run /\ UNCHANGED <<rings, kccb, call, active, mmu>>
    BY DEF Forgets, KickTypes, UkType
  <1>2. RenderCarries' BY <1>1 DEF KickInv, RenderCarries
  <1>3. StartAlone' BY <1>1 DEF KickInv, StartAlone
  <1>4. ASSUME OnTime' PROVE OnTimeInv'
    <2>1. OnTimeInv BY <1>1, <1>4 DEF KickInv, OnTime, OnTimeInv
    <2> QED BY <1>1, <2>1 DEF OnTimeInv, SentAlone, Sending, RenderAlone, StaleIsKnown, Stale,
                              Carried, RenderUntold, RenderFresh
  <1> QED BY <1>2, <1>3, <1>4 DEF KickInv, OnTimeInv

LEMMA DoneKick == ASSUME KickTypes, KickInv, Done PROVE KickInv'
  <1> USE DEF Queues
  <1> DEFINE r == uk.run
  <1>1. /\ uk'.up = uk.up /\ uk'.late = uk.late /\ uk'.run = Nothing
        /\ uk'.asked = {q \in uk.asked : rings[q].cmds # {}}
        /\ UNCHANGED <<rings, kccb, call, mmu>> /\ UkRuns
        /\ r # Nothing /\ call[r.q].at = "idle"
        /\ active' = [active EXCEPT ![r.q] = IF @ = r.cmd THEN Nothing ELSE @]
    BY DEF Done, KickTypes, UkType
  <1>2. r.q \in Queues BY <1>1 DEF KickTypes, UkType, Runs
  <1>3. \A q \in Queues :
            active'[q] = IF q = r.q /\ active[q] = r.cmd THEN Nothing ELSE active[q]
    BY <1>1, <1>2 DEF KickTypes, ActiveType
  <1>4. RenderCarries' BY <1>1 DEF KickInv, RenderCarries
  <1>5. StartAlone' BY <1>1 DEF KickInv, StartAlone, UkRuns
  <1>6. ASSUME OnTime' PROVE OnTimeInv'
    <2>1. OnTimeInv BY <1>1, <1>6 DEF KickInv, OnTime, OnTimeInv
    <2>2. SentAlone' BY <1>1, <2>1 DEF OnTimeInv, SentAlone, Sending
    <2>3. RenderAlone' BY <1>1, <1>2, <1>3, <2>1 DEF OnTimeInv, RenderAlone
    <2>4. Carried' = Carried BY <1>1 DEF Carried
    <2>5. StaleIsKnown' BY <1>1, <2>1, <2>4 DEF OnTimeInv, StaleIsKnown, Stale
    <2>6. RenderUntold' BY <1>1, <2>1, <2>4 DEF OnTimeInv, RenderUntold
    <2>7. RenderFresh' BY <1>1, <1>3, <2>1, <2>4 DEF OnTimeInv, RenderFresh, Stale
    <2> QED BY <2>2, <2>3, <2>5, <2>6, <2>7 DEF OnTimeInv
  <1> QED BY <1>4, <1>5, <1>6 DEF KickInv, OnTimeInv

LEMMA NextKick == KickTypes /\ RingsInv /\ KickInv /\ [KickNext]_kickVars => KickInv'
  <1> SUFFICES ASSUME KickTypes, RingsInv, KickInv, [KickNext]_kickVars PROVE KickInv'
    OBVIOUS
  <1>1. CASE PutRender
    <2>1. RenderLens \subseteq 1..Longest["render"] /\ "render" \in Queues
      BY KickConstants DEF Longest, Queues
    <2>2. PICK len \in RenderLens, pages \in SUBSET {p \in Pages : mmu.pte[p] > 0 /\ mmu.lock # p} :
            Put("render", len, pages)
      BY <1>1 DEF PutRender
    <2> QED BY <2>1, <2>2, PutKick
  <1>2. CASE PutBlt
    <2>1. BltLen \in 1..Longest["blt"] /\ "blt" \in Queues
      BY KickConstants DEF Longest, Queues
    <2> QED BY <1>2, <2>1, PutKick DEF PutBlt
  <1>3. ASSUME NEW p \in Pages, Remap(p) \/ Looks(p) PROVE KickInv'
    BY <1>3, TablesKick
  <1>4. CASE Remapped
    <2>1. mmu.lock \in Pages BY <1>4 DEF Remapped, KickTypes, MmuType
    <2> QED BY <1>4, <2>1, TablesKick
  <1>5. ASSUME NEW q \in Queues, Send(q) \/ KickTaken(q) \/ Fails(q) \/ Starts(q) \/ Forgets(q)
        PROVE  KickInv'
    BY <1>5, SendKick, KickTakenKick, FailsKick, StartsKick, ForgetsKick
  <1>6. CASE UNCHANGED kickVars
    BY <1>6 DEF kickVars, KickInv, RenderCarries, StartAlone, OnTime, SentAlone, Sending,
       RenderAlone, StaleIsKnown, Stale, Carried, RenderUntold, RenderFresh
  <1> QED
    BY <1>1, <1>2, <1>3, <1>4, <1>5, <1>6, TakeDirtyKick, RekickKick, StartKick, TakesKick, DoneKick
    DEF KickNext

LEMMA KickInvariant == KickSpec => [](KickTypes /\ RingsInv /\ KickInv)
  <1>1. KickInit => KickTypes /\ RingsInv /\ KickInv BY InitKick, InitRings
  <1>2. KickTypes /\ RingsInv /\ KickInv /\ [KickNext]_kickVars
            => (KickTypes /\ RingsInv /\ KickInv)'
    BY NextTypes, NextRings, NextKick
  <1> QED BY <1>1, <1>2, PTL DEF KickSpec

(* The state of the rings, the callers and the microkernel stays what the  *)
(* code's types say (see KickTypeOK): the offsets inside their rings and   *)
(* the kernel CCB never full to the last place.                            *)
THEOREM KickTypeCorrect == KickSpec => []KickTypeOK
  <1>1. KickTypes /\ RingsInv => KickTypeOK
    <2> SUFFICES ASSUME KickTypes, RingsInv PROVE KickTypeOK OBVIOUS
    <2>1. \A q \in Queues : rings[q].wo \in 0..RingSize - 1 /\ rings[q].ro \in 0..RingSize - 1
      BY DEF RingsInv, Ring, Offsets
    <2>2. \A q \in Queues : call[q].at \in States /\ call[q].inval \in BOOLEAN
      BY DEF KickTypes, CallType, Calls
    <2> QED BY <2>1, <2>2 DEF KickTypeOK, KickTypes, KernelType, MmuType, UkType, States
  <1> QED BY <1>1, KickInvariant, PTL

(* A render that runs sees the page tables as they were when it was queued *)
(* (see RenderSeesTables), however the changes of entries, the kicks of    *)
(* both threads, the rekicks and the GPU's look-ups interleave.            *)
THEOREM KickRenderSeesTables == KickSpec => []RenderSeesTables
  <1>1. KickTypes /\ KickInv => RenderSeesTables
    <2> SUFFICES ASSUME KickTypes, KickInv, OnTime, uk.run # Nothing,
                        NEW p \in uk.run.cmd.pages, Stale(p)
                 PROVE  FALSE
      BY DEF RenderSeesTables, OnTime, Stale
    <2>1. RenderCarries /\ OnTimeInv BY DEF KickInv, OnTimeInv
    <2>2. uk.run.q = "render" BY <2>1 DEF RenderCarries, KickTypes, UkType, Runs, Queues
    <2>3. uk.run.cmd = active["render"] /\ active["render"] # Nothing
      BY <2>1, <2>2, NothingIsNoCommand DEF OnTimeInv, RenderAlone, KickTypes, UkType, Runs
    <2> QED BY <2>1, <2>2, <2>3 DEF OnTimeInv, RenderFresh, RenderUntold
  <1> QED BY <1>1, KickInvariant, PTL
=============================================================================
