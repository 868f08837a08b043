------------------------- MODULE AppleDrivers_proofs -------------------------
(***************************************************************************)
(* What the smaller drivers keep, for every value of their constants: the  *)
(* start and the end of CPU1, the A5's touch screen, the touch screens of  *)
(* the A12 and A13, the charger, the I2C controller, and fbcon's moves by  *)
(* the 2D engine; and, with the theorems of SgxKick, SgxPlaces and         *)
(* AppleAic1, all of them together.                                        *)
(***************************************************************************)
EXTENDS MCDrivers, SgxKick_proofs, SgxPlaces_proofs, AppleAic1_proofs, FiniteSetTheorems, TLAPS

(***************************************************************************)
(* AppleSmp: CPU1 always comes out of reset where it was meant to.         *)
(***************************************************************************)
(* What CPU0 believes of CPU1, where CPU1 then is, and what the trampoline *)
(* and the saved state are there.  RightEntry alone is not inductive: it   *)
(* says nothing of a core that runs, and the word that the next reset      *)
(* reads is written while it does.                                         *)
Downs == hotplug = "down" <=> cpu1 = "stopped"
Booting ==
    hotplug = "booting" => cpu1 \in {"reset", "start"} /\ tramp = "startup"
CpuUp ==
    hotplug = "up" =>
        /\ cpu1 \in {"run", "entered", "wfi", "off", "reset", "resume"}
        /\ cpu1 # "run" => tramp = "resume"
        /\ cpu1 \notin {"run", "entered"} => context
Dying ==
    hotplug = "dying" =>
        /\ cpu1 \in {"reported", "parked", "off", "reset"}
        /\ cpu1 # "reported" => tramp = "park"

SmpInv == SmpTypeOK /\ Downs /\ Booting /\ CpuUp /\ Dying

LEMMA SmpStart == SmpInit => SmpInv
BY DEF SmpInit, SmpInv, SmpTypeOK, Downs, Booting, CpuUp, Dying

(* CPU0's steps and the PMGR's. *)
LEMMA CpuZeroSteps ==
    ASSUME SmpInv,
           BootSecondary \/ CpuKill \/ PmgrOff \/ PmgrOn \/ SmpIrq \/ ParkedAgain
    PROVE  SmpInv'
<1>1. CASE BootSecondary
  BY <1>1 DEF BootSecondary, SmpInv, SmpTypeOK, Downs, Booting, CpuUp, Dying
<1>2. CASE CpuKill
  BY <1>2 DEF CpuKill, SmpInv, SmpTypeOK, Downs, Booting, CpuUp, Dying
<1>3. CASE PmgrOff
  BY <1>3 DEF PmgrOff, SmpInv, SmpTypeOK, Downs, Booting, CpuUp, Dying
<1>4. CASE PmgrOn
  BY <1>4 DEF PmgrOn, SmpInv, SmpTypeOK, Downs, Booting, CpuUp, Dying
<1>5. CASE SmpIrq
  BY <1>5 DEF SmpIrq, SmpInv, SmpTypeOK, Downs, Booting, CpuUp, Dying
<1>6. CASE ParkedAgain
  BY <1>6 DEF ParkedAgain, SmpInv, SmpTypeOK, Downs, Booting, CpuUp, Dying
<1> QED
  BY <1>1, <1>2, <1>3, <1>4, <1>5, <1>6

(* CPU1 from its reset until it runs. *)
LEMMA ComesUp ==
    ASSUME SmpInv, FromReset \/ SecondaryStart \/ Resume \/ WfiReturns
    PROVE  SmpInv'
<1>1. CASE FromReset
  BY <1>1 DEF FromReset, SmpInv, SmpTypeOK, Downs, Booting, CpuUp, Dying
<1>2. CASE SecondaryStart
  BY <1>2 DEF SecondaryStart, SmpInv, SmpTypeOK, Downs, Booting, CpuUp, Dying
<1>3. CASE Resume
  BY <1>3 DEF Resume, SmpInv, SmpTypeOK, Downs, Booting, CpuUp, Dying
<1>4. CASE WfiReturns
  BY <1>4 DEF WfiReturns, SmpInv, SmpTypeOK, Downs, Booting, CpuUp, Dying
<1> QED
  BY <1>1, <1>2, <1>3, <1>4

(* CPU1 idle, and CPU1 going down. *)
LEMMA GoesDown ==
    ASSUME SmpInv, TakeIrq \/ IdleTarget \/ IdleSave \/ TearDown \/ CpuDie
    PROVE  SmpInv'
<1>1. CASE TakeIrq
  BY <1>1 DEF TakeIrq, SmpInv, SmpTypeOK, Downs, Booting, CpuUp, Dying
<1>2. CASE IdleTarget
  BY <1>2 DEF IdleTarget, SmpInv, SmpTypeOK, Downs, Booting, CpuUp, Dying
<1>3. CASE IdleSave
  BY <1>3 DEF IdleSave, SmpInv, SmpTypeOK, Downs, Booting, CpuUp, Dying
<1>4. CASE TearDown
  BY <1>4 DEF TearDown, SmpInv, SmpTypeOK, Downs, Booting, CpuUp, Dying
<1>5. CASE CpuDie
  BY <1>5 DEF CpuDie, SmpInv, SmpTypeOK, Downs, Booting, CpuUp, Dying
<1> QED
  BY <1>1, <1>2, <1>3, <1>4, <1>5

(* The invariant of CPU1: every step of either core and of the power       *)
(* manager keeps the trampoline's word right for the next reset.           *)
THEOREM SmpInvariance == SmpSpec => []SmpInv
<1>1. SmpInv /\ UNCHANGED smpVars => SmpInv'
  BY DEF smpVars, SmpInv, SmpTypeOK, Downs, Booting, CpuUp, Dying
<1>2. SmpInv /\ SmpNext => SmpInv'
  BY CpuZeroSteps, ComesUp, GoesDown DEF SmpNext
<1> QED
  BY SmpStart, <1>1, <1>2, PTL DEF SmpSpec

(* Wherever an interrupt may power CPU1 on, the trampoline sends it where  *)
(* it belongs: the start that CPU0 asked for, its saved state, or the      *)
(* parking loop of a dead core.                                            *)
THEOREM RightEntries == SmpSpec => []RightEntry
<1>1. SmpInv => RightEntry
  BY DEF SmpInv, SmpTypeOK, Downs, Booting, CpuUp, Dying, RightEntry
<1> QED
  BY SmpInvariance, <1>1, PTL

-----------------------------------------------------------------------------
(***************************************************************************)
(* AppleZ2, for any limit of reads in one go and any number of frames the  *)
(* chip may hold.                                                          *)
(*                                                                         *)
(* That a frame is never left alone is an invariant by itself of the       *)
(* driver that is in use; that no read outlives a close is what disable_irq*)
(* gives, which waits for the thread: the invariant says that without a    *)
(* user there is no thread, no interrupt and no read, so that READY is the *)
(* word of a chip that has power and is out of reset.                      *)
(***************************************************************************)
(* Nothing of the driver runs without a user. *)
QuietUnused ==
    ~InUse => ~hxt.irqOn /\ thread = "none" /\ z2Read.by = "none"

(* The interrupt thread is in the loop exactly when the loop is its own. *)
OneReader == thread = "reading" <=> z2Read.by = "thread"

(* The chip has power for as long as somebody has the device open; READY   *)
(* is said to a chip out of reset, and a read comes after READY.           *)
ChipReady ==
    /\ hxt.closing => hxt.open
    /\ hxt.open => z2.power
    /\ hxt.ready => hxt.open /\ ~z2.reset
    /\ z2Read.by # "none" => hxt.ready

(* The loop goes round only with a read left. *)
ReadLeft == z2Read.by # "none" /\ ~z2Read.line => z2Read.left > 0

Z2Inv == Z2TypeOK /\ ReadLeft /\ QuietUnused /\ OneReader /\ ChipReady /\ NoFrameAlone

-----------------------------------------------------------------------------
LEMMA Z2Ends ==
    0 \in 0..Z2MaxFrames /\ 0 \in 0..Z2MaxReads /\ Z2MaxReads \in 0..Z2MaxReads
BY Z2Constants

LEMMA Z2Start == Z2Init => Z2Inv
<1>1. Z2Init => Z2TypeOK
    <2> SUFFICES ASSUME Z2Init PROVE Z2TypeOK
        OBVIOUS
    <2>1. z2 \in [power : BOOLEAN, reset : BOOLEAN, frames : 0..Z2MaxFrames, edge : BOOLEAN]
        BY Z2Ends DEF Z2Init
    <2>2. z2Read \in [by : {"none", "thread", "ready"}, left : 0..Z2MaxReads, line : BOOLEAN]
        BY Z2Ends DEF Z2Init, NoRead
    <2> QED
        BY <2>1, <2>2 DEF Z2Init, Z2TypeOK
<1>2. Z2Init => ReadLeft /\ QuietUnused /\ OneReader /\ ChipReady /\ NoFrameAlone
    BY DEF Z2Init, ReadLeft, QuietUnused, OneReader, ChipReady, NoFrameAlone, NoRead, InUse
<1> QED
    BY <1>1, <1>2 DEF Z2Inv

(* The types. *)
LEMMA Z2TypesStep == ASSUME Z2TypeOK, ReadLeft, Z2Next PROVE Z2TypeOK'
<1> USE DEF Z2TypeOK
<1>1. CASE Z2Open
    BY <1>1 DEF Z2Open
<1>2. CASE Z2Close
    BY <1>2 DEF Z2Close
<1>3. CASE Z2Off
    BY <1>3, Z2Ends DEF Z2Off
<1>4. CASE Z2Reset
    BY <1>4, Z2Ends DEF Z2Reset
<1>5. CASE Z2Ready
    BY <1>5, Z2Ends DEF Z2Ready, ReadAll
<1>6. CASE Z2SetupIrq
    BY <1>6 DEF Z2SetupIrq
<1>7. CASE Z2Irq
    BY <1>7 DEF Z2Irq
<1>8. CASE Z2Thread
    <2>1. ReadAll("thread") \in [by : {"none", "thread", "ready"}, left : 0..Z2MaxReads,
                                 line : BOOLEAN]
        BY Z2Ends DEF ReadAll
    <2>2. hxt' \in [open : BOOLEAN, closing : BOOLEAN, irqOn : BOOLEAN, ready : BOOLEAN,
                    done : BOOLEAN]
        BY <1>8 DEF Z2Thread
    <2> QED
        BY <1>8, <2>1, <2>2 DEF Z2Thread
<1>9. CASE ReadReport
    <2>1. z2Read.left - 1 \in 0..Z2MaxReads
        BY <1>9, Z2Constants DEF ReadReport, ReadLeft
    <2>2. (IF z2.frames = 0 THEN 0 ELSE z2.frames - 1) \in 0..Z2MaxFrames
        BY Z2Constants
    <2> QED
        BY <1>9, <2>1, <2>2 DEF ReadReport
<1>10. CASE ReadAgain
    <2> DEFINE low == z2.frames > 0
    <2>1. low \in BOOLEAN
        OBVIOUS
    <2> HIDE DEF low
    <2>2. spent' \in BOOLEAN
        BY <1>10, <2>1 DEF ReadAgain, low
    <2>3. NoRead \in [by : {"none", "thread", "ready"}, left : 0..Z2MaxReads, line : BOOLEAN]
        BY Z2Ends DEF NoRead
    <2>4. z2Read' \in [by : {"none", "thread", "ready"}, left : 0..Z2MaxReads, line : BOOLEAN]
        BY <1>10, <2>3 DEF ReadAgain
    <2>5. thread' \in {"none", "woken", "reading"}
        BY <1>10 DEF ReadAgain
    <2> QED
        BY <1>10, <2>2, <2>4, <2>5 DEF ReadAgain
<1>11. CASE Z2Frame
    <2> DEFINE edge == z2.edge \/ z2.frames = 0
    <2>1. z2' = [z2 EXCEPT !.frames = @ + 1, !.edge = edge]
        BY <1>11 DEF Z2Frame
    <2>2. z2.frames + 1 \in 0..Z2MaxFrames /\ edge \in BOOLEAN
        BY <1>11, Z2Constants DEF Z2Frame
    <2> HIDE DEF edge
    <2> QED
        BY <1>11, <2>1, <2>2 DEF Z2Frame
<1>12. CASE Z2Boots
    BY <1>12 DEF Z2Boots
<1> QED
    BY <1>1, <1>2, <1>3, <1>4, <1>5, <1>6, <1>7, <1>8, <1>9, <1>10, <1>11, <1>12 DEF Z2Next
(* The driver's own state: each step keeps who may run and who may read.   *)
LEMMA Z2RunsStep ==
    ASSUME Z2Inv, Z2Next
    PROVE  ReadLeft' /\ QuietUnused' /\ OneReader' /\ ChipReady'
<1> USE Z2Constants DEF Z2Inv, Z2TypeOK, ReadLeft, QuietUnused, OneReader, ChipReady, InUse,
                        MutexFree
<1>1. CASE Z2Open
    BY <1>1 DEF Z2Open
<1>2. CASE Z2Close
    BY <1>2 DEF Z2Close
<1>3. CASE Z2Off
    BY <1>3 DEF Z2Off
<1>4. CASE Z2Reset
    BY <1>4 DEF Z2Reset
<1>5. CASE Z2Ready
    BY <1>5 DEF Z2Ready, ReadAll
<1>6. CASE Z2SetupIrq
    BY <1>6 DEF Z2SetupIrq
<1>7. CASE Z2Irq
    BY <1>7 DEF Z2Irq
<1>8. CASE Z2Thread
    BY <1>8 DEF Z2Thread, ReadAll
<1>9. CASE ReadReport
    BY <1>9 DEF ReadReport
<1>10. CASE ReadAgain
    BY <1>10 DEF ReadAgain, NoRead
<1>11. CASE Z2Frame
    BY <1>11 DEF Z2Frame
<1>12. CASE Z2Boots
    BY <1>12 DEF Z2Boots
<1> QED
    BY <1>1, <1>2, <1>3, <1>4, <1>5, <1>6, <1>7, <1>8, <1>9, <1>10, <1>11, <1>12 DEF Z2Next

(* A frame stays seen: what took its edge is awake or reads.               *)
LEMMA Z2FramesStep == ASSUME Z2Inv, Z2Next PROVE NoFrameAlone'
<1> USE DEF Z2Inv, Z2TypeOK, ReadLeft, QuietUnused, OneReader, ChipReady, NoFrameAlone, InUse,
            MutexFree
<1>1. CASE Z2Open
    BY <1>1 DEF Z2Open
<1>2. CASE Z2Close
    BY <1>2 DEF Z2Close
<1>3. CASE Z2Off
    BY <1>3 DEF Z2Off
<1>4. CASE Z2Reset
    BY <1>4 DEF Z2Reset
<1>5. CASE Z2Ready
    BY <1>5 DEF Z2Ready, ReadAll
<1>6. CASE Z2SetupIrq
    BY <1>6 DEF Z2SetupIrq
<1>7. CASE Z2Irq
    BY <1>7 DEF Z2Irq
<1>8. CASE Z2Thread
    BY <1>8 DEF Z2Thread, ReadAll
<1>9. CASE ReadReport
    BY <1>9 DEF ReadReport
<1>10. CASE ReadAgain
    BY <1>10 DEF ReadAgain, NoRead
<1>11. CASE Z2Frame
    BY <1>11 DEF Z2Frame
<1>12. CASE Z2Boots
    BY <1>12 DEF Z2Boots
<1> QED
    BY <1>1, <1>2, <1>3, <1>4, <1>5, <1>6, <1>7, <1>8, <1>9, <1>10, <1>11, <1>12 DEF Z2Next

-----------------------------------------------------------------------------
(* The invariant of the touch screen's driver: who may run without a user, *)
(* whose loop reads, and that READY is the word of a chip that can answer. *)
THEOREM Z2Invariance == Z2Spec => []Z2Inv
<1>1. Z2Inv /\ UNCHANGED z2Vars => Z2Inv'
    BY DEF z2Vars, Z2Inv, Z2TypeOK, ReadLeft, QuietUnused, OneReader, ChipReady,
           NoFrameAlone, InUse
<1>2. Z2Inv /\ Z2Next => Z2Inv'
    BY Z2TypesStep, Z2RunsStep, Z2FramesStep DEF Z2Inv
<1> QED
    BY Z2Start, <1>1, <1>2, PTL DEF Z2Spec

(* The Z2 is read only with its power on, out of reset and after READY,    *)
(* however close, reset and the interrupt thread interleave                *)
(* (hx_touch_misc_dev_release, which takes no lock).                       *)
THEOREM ReadsStayAlive == Z2Spec => []ReadsAlive
<1>1. Z2Inv => ReadsAlive
    BY DEF Z2Inv, ChipReady, ReadsAlive
<1> QED
    BY Z2Invariance, <1>1, PTL

(* A frame never waits with the line low and neither an edge to come, a    *)
(* thread on its way nor a loop that will look, unless a loop used up its  *)
(* reads (hx_touch_read_all_reports).                                      *)
THEOREM FramesAreSeen == Z2Spec => []NoFrameAlone
<1>1. Z2Inv => NoFrameAlone
    BY DEF Z2Inv
<1> QED
    BY Z2Invariance, <1>1, PTL

-----------------------------------------------------------------------------
(***************************************************************************)
(* HidSpiTouch: no touch is reported down twice, for any number of fingers.*)
(***************************************************************************)
(* What the driver knows of a touch that was reported: its slot while its  *)
(* frames say down; then, that the finger is down in ts.down, or was in    *)
(* the last frame that was read.                                           *)
FrameIsGlass ==
    held => \/ frame = glass
            \/ \A f \in Fingers : glass[f] = "none" /\ frame[f] \in {"gone", "none"}
ReportedOnce ==
    \A f \in Fingers :
        /\ downs[f] \in {0, 1}
        /\ downs[f] = 1 /\ ~dead =>
              /\ glass[f] = "down" => f \in slots
              /\ glass[f] = "lift" => f \in ts.down \cup ts.prev
              /\ held /\ frame[f] \in {"lift", "gone"} =>
                    f \in ts.down \/ (frame[f] = "gone" /\ f \in ts.prev)
TouchInv ==
    /\ dead => ~held
    /\ slots \subseteq ts.down
    /\ FrameIsGlass /\ ReportedOnce

LEMMA InitTouch == TouchInit => TouchTypeOK /\ TouchInv
  <1> SUFFICES ASSUME TouchInit PROVE TouchTypeOK /\ TouchInv OBVIOUS
  <1>1. /\ glass = [f \in Fingers |-> "none"] /\ frame = glass /\ held = FALSE /\ dead = FALSE
        /\ ts = [down |-> {}, prev |-> {}] /\ slots = {} /\ downs = [f \in Fingers |-> 0]
    BY DEF TouchInit
  <1>2. TouchTypeOK
    <2>1. glass \in [Fingers -> {"none", "down", "lift", "gone"}] BY <1>1
    <2>2. downs \in [Fingers -> Nat] /\ ts \in [down : SUBSET Fingers, prev : SUBSET Fingers]
      BY <1>1
    <2> QED BY <1>1, <2>1, <2>2 DEF TouchTypeOK
  <1> QED BY <1>1, <1>2 DEF TouchInv, FrameIsGlass, ReportedOnce

(* One finger's count in a set. *)
LEMMA CountOne ==
    \A f, S : Cardinality({f} \cap S) = IF f \in S THEN 1 ELSE 0
  <1> TAKE f, S
  <1>1. CASE f \in S
    <2>1. {f} \cap S = {f} BY <1>1
    <2> QED BY <1>1, <2>1, FS_Singleton
  <1>2. CASE f \notin S
    <2>1. {f} \cap S = {} BY <1>2
    <2> QED BY <1>2, <2>1, FS_EmptySet
  <1> QED BY <1>1, <1>2

(* What a poll reports of one finger. *)
LEMMA PollCounts ==
    ASSUME TouchTypeOK, TouchInv, HsPoll, NEW f \in Fingers
    PROVE  downs'[f] = IF f \notin slots /\ f \in Touching \cup Missed
                       THEN downs[f] + 1 ELSE downs[f]
  <1> DEFINE first == IF Missed = {} THEN slots ELSE Touching \cup Missed
  <1>1. downs'[f] = downs[f] + Cardinality({f} \cap (first \ slots))
                             + Cardinality({f} \cap (Touching \ first))
    BY DEF HsPoll
  <1>2. /\ Cardinality({f} \cap (first \ slots)) = IF f \in first \ slots THEN 1 ELSE 0
        /\ Cardinality({f} \cap (Touching \ first)) = IF f \in Touching \ first THEN 1 ELSE 0
    BY CountOne
  <1>3. downs[f] \in Nat BY DEF TouchTypeOK
  <1> HIDE DEF first
  <1>4. CASE Missed = {}
    <2>1. first = slots BY <1>4 DEF first
    <2> QED BY <1>1, <1>2, <1>3, <1>4, <2>1
  <1>5. CASE Missed # {}
    <2>1. first = Touching \cup Missed BY <1>5 DEF first
    <2> QED BY <1>1, <1>2, <1>3, <1>5, <2>1
  <1> QED BY <1>4, <1>5

(* A finger that a poll reports down was not reported before. *)
LEMMA ReportsTheFirst ==
    ASSUME TouchTypeOK, TouchInv, HsPoll, NEW f \in (Touching \cup Missed) \ slots
    PROVE  downs[f] = 0
  <1>1. held /\ ~dead /\ f \in Fingers /\ f \in InFrame
    BY DEF HsPoll, Touching, Missed, InFrame
  <1>2. CASE f \in Touching
    <2>1. frame[f] = "down" BY <1>2 DEF Touching, IsDown
    <2>2. glass[f] = "down" BY <1>1, <2>1 DEF TouchInv, FrameIsGlass
    <2> QED BY <1>1, <2>2 DEF TouchInv, ReportedOnce
  <1>3. CASE f \in Missed
    <2>1. /\ frame[f] \in {"lift", "gone"} /\ f \notin ts.down
          /\ frame[f] = "gone" => f \notin ts.prev
      BY <1>1, <1>3 DEF Missed, IsDown, InFrame, TouchTypeOK
    <2> QED BY <1>1, <2>1 DEF TouchInv, ReportedOnce
  <1> QED BY <1>2, <1>3

LEMMA PollTouch == ASSUME TouchTypeOK, TouchInv, HsPoll PROVE TouchTypeOK' /\ TouchInv'
  <1>1. /\ held /\ ~dead /\ held' = FALSE /\ dead' = dead /\ glass' = glass /\ frame' = frame
        /\ slots' = Touching /\ Touching \subseteq InFrame /\ InFrame \subseteq Fingers
        /\ ts'.down = (ts.down \cup Touching) \ (InFrame \ Touching)
        /\ ts'.prev = InFrame
        /\ ts' = [down |-> ts'.down, prev |-> ts'.prev]
        /\ DOMAIN downs' = Fingers
        /\ downs' = [f \in Fingers |-> downs'[f]]
    BY DEF HsPoll, TouchTypeOK, Touching, InFrame
  <1>2. \A f \in Fingers : downs'[f] \in {0, 1}
    BY PollCounts, ReportsTheFirst DEF TouchInv, ReportedOnce
  <1>3. downs' \in [Fingers -> Nat] BY <1>1, <1>2
  <1>4. TouchTypeOK'
    <2>1. ts'.down \subseteq Fingers /\ ts'.prev \subseteq Fingers BY <1>1 DEF TouchTypeOK
    <2>2. ts' \in [down : SUBSET Fingers, prev : SUBSET Fingers] BY <1>1, <2>1
    <2> QED BY <1>1, <1>3, <2>2 DEF TouchTypeOK
  <1>5. \A f \in Fingers :
            /\ glass[f] = "down" /\ downs'[f] = 1 => f \in slots'
            /\ glass[f] = "lift" => f \in ts'.prev
    BY <1>1 DEF Touching, InFrame, IsDown, TouchInv, FrameIsGlass
  <1> QED BY <1>1, <1>2, <1>4, <1>5 DEF TouchInv, FrameIsGlass, ReportedOnce

LEMMA FrameTouch == ASSUME TouchTypeOK, TouchInv, PanelFrame PROVE TouchTypeOK' /\ TouchInv'
  <1>1. PICK g \in [Fingers -> {"none", "down", "lift", "gone"}] :
            /\ \A f \in Fingers : g[f] \in After(glass[f])
            /\ glass' = g /\ frame' = g
            /\ downs' = [f \in Fingers |-> IF glass[f] = "none" THEN 0 ELSE downs[f]]
    BY DEF PanelFrame
  <1>2. held' = TRUE /\ ~dead /\ dead' = dead /\ ts' = ts /\ slots' = slots
    BY DEF PanelFrame
  <1>3. TouchTypeOK' BY <1>1, <1>2 DEF TouchTypeOK
  <1>4. \A f \in Fingers :
            /\ g[f] = "down" => glass[f] \in {"none", "down"}
            /\ g[f] = "lift" => glass[f] = "down"
            /\ g[f] = "gone" => glass[f] = "lift"
    BY <1>1 DEF After, TouchTypeOK
  <1>5. FrameIsGlass' BY <1>1 DEF FrameIsGlass
  <1>6. ReportedOnce' BY <1>1, <1>2, <1>4 DEF TouchInv, ReportedOnce
  <1> QED BY <1>2, <1>3, <1>5, <1>6 DEF TouchInv

LEMMA NextTouch == TouchTypeOK /\ TouchInv /\ [TouchNext]_touchVars => TouchTypeOK' /\ TouchInv'
  <1> SUFFICES ASSUME TouchTypeOK, TouchInv, [TouchNext]_touchVars PROVE TouchTypeOK' /\ TouchInv'
    OBVIOUS
  <1>1. CASE PanelQuiet
    BY <1>1 DEF PanelQuiet, TouchTypeOK, TouchInv, FrameIsGlass, ReportedOnce
  <1>2. CASE PanelDies
    BY <1>2 DEF PanelDies, TouchTypeOK, TouchInv, FrameIsGlass, ReportedOnce
  <1>3. CASE Release
    BY <1>3 DEF Release, Silent, TouchTypeOK, TouchInv, FrameIsGlass, ReportedOnce
  <1>4. CASE Reload
    BY <1>4 DEF Reload, TouchTypeOK, TouchInv, FrameIsGlass, ReportedOnce
  <1>5. CASE UNCHANGED touchVars
    BY <1>5 DEF touchVars, TouchTypeOK, TouchInv, FrameIsGlass, ReportedOnce
  <1> QED BY <1>1, <1>2, <1>3, <1>4, <1>5, FrameTouch, PollTouch DEF TouchNext

LEMMA TouchInvariant == TouchSpec => [](TouchTypeOK /\ TouchInv)
  BY InitTouch, NextTouch, PTL DEF TouchSpec

(* One touch is reported down once at most (see NoPhantomTap), for any     *)
(* number of fingers and however the polls fall between the frames.        *)
THEOREM TouchNoPhantomTap == TouchSpec => []NoPhantomTap
  <1>1. TouchInv => NoPhantomTap BY DEF TouchInv, ReportedOnce, NoPhantomTap
  <1> QED BY <1>1, TouchInvariant, PTL

-----------------------------------------------------------------------------
(***************************************************************************)
(* AppleCharger: a sag is remembered, for any requests, sources and faults.*)
(***************************************************************************)
(* What a sag taught binds what is written later: the last write was at    *)
(* most a ramp's step above the ceiling, and a ramp under way goes up to a *)
(* target that the ceiling allows.                                         *)
UnderCeiling ==
    /\ chg.ceiling \in MinCode .. NoCeiling
    /\ chg.last <= NoCeiling /\ SagCeiling(chg.last) <= chg.ceiling
    /\ chgWork.pc \in {"ramp", "back"} =>
          chgWork.cur <= chgWork.target /\ chgWork.target <= chg.ceiling
    /\ chgWork.pc = "back" => chg.last = chgWork.cur

ChargerInv == ChargerTypeOK /\ UnderCeiling

LEMMA CodeIsNat == \A ma \in Nat : ChargerCode(ma) \in Nat
  <1> TAKE ma \in Nat
  <1>1. LeastOf(ma, 2100) \in Nat /\ LeastOf(ma, 2100) <= 2100 BY DEF LeastOf
  <1> DEFINE raw == (8 * LeastOf(ma, 2100) - 600) \div 100
  <1>2. raw \in Int BY <1>1
  <1>3. ma >= 100 => raw >= 2 BY <1>1 DEF LeastOf
  <1> HIDE DEF raw
  <1>4. ChargerCode(ma) = CASE ma < 100 -> MinCode
          [] raw >= 115 -> raw - 4
          [] raw \in 111 .. 114 -> 110
          [] raw \in 75 .. 110 -> raw - 2
          [] raw \in 73 .. 74 -> 72
          [] OTHER -> raw
    BY DEF ChargerCode, raw
  <1> QED BY <1>2, <1>3, <1>4 DEF MinCode

LEMMA TargetIsNat ==
    ASSUME NEW c, c.req \in Nat, c.ceiling \in Nat
    PROVE  ChargerTarget(c) \in Nat
  <1>1. LeastOf(c.req, ChargerMaxMa) \in Nat BY ChargerConstants DEF LeastOf
  <1>2. ChargerCode(LeastOf(c.req, ChargerMaxMa)) \in Nat BY <1>1, CodeIsNat
  <1> QED BY <1>2 DEF ChargerTarget, LeastOf, MinCode

LEMMA SagCeilingRange ==
    \A step \in 0 .. NoCeiling : SagCeiling(step) \in MinCode .. NoCeiling
  BY DEF SagCeiling, MinCode, RampStep, NoCeiling

LEMMA InitCharger == ChargerInit => ChargerInv
  <1> SUFFICES ASSUME ChargerInit PROVE ChargerInv OBVIOUS
  <1>1. ChargerProbeCode \in Nat /\ ChargerDefaultMa \in Nat /\ ChargerMaxFaults \in Nat
    BY ChargerConstants DEF MinCode
  <1>2. ChargerTypeOK BY <1>1 DEF ChargerInit, ChargerTypeOK, NoCeiling
  <1>3. UnderCeiling
    BY DEF ChargerInit, UnderCeiling, SagCeiling, MinCode, NoCeiling, RampStep
  <1> QED BY <1>2, <1>3 DEF ChargerInv

(* What the types say of the state, in the terms of the actions. *)
LEMMA ChargerState ==
    ASSUME ChargerInv
    PROVE  /\ chg.last \in 0 .. NoCeiling /\ chg.ceiling \in MinCode .. NoCeiling
           /\ chg.req \in Nat /\ {chg.armed, chg.online, chg.wasArmed, chg.hot} \subseteq BOOLEAN
           /\ chgWork.cur \in Nat /\ chgWork.target \in Nat /\ chgWork.online \in BOOLEAN
           /\ pmu.ilim \in Nat /\ pmu.vbus \in BOOLEAN
  BY DEF ChargerInv, ChargerTypeOK, UnderCeiling, NoCeiling, MinCode

LEMMA IoTypes ==
    ASSUME ChargerTypeOK, NEW ok \in BOOLEAN, ChargerIo(ok)
    PROVE  chgFaults' \in 0 .. ChargerMaxFaults
  BY ChargerConstants DEF ChargerTypeOK, ChargerIo

LEMMA WroteTypes ==
    ASSUME ChargerTypeOK, NEW raw \in Nat
    PROVE  Wrote(raw) \in [vbus : BOOLEAN, gives : Nat, ilim : Nat, wrote : Nat]
  BY DEF ChargerTypeOK, Wrote

(* A session's state, with the driver's view of the cable. *)
LEMMA SessionKeeps ==
    ASSUME ChargerInv, NEW cable \in BOOLEAN
    PROVE  LET s == Session(cable)
           IN  /\ s \in [armed : BOOLEAN, req : Nat, last : Nat, ceiling : Nat,
                         online : BOOLEAN, wasArmed : BOOLEAN, hot : BOOLEAN]
               /\ s.online = cable /\ s.req = chg.req
               /\ s.ceiling \in MinCode .. NoCeiling /\ s.last \in 0 .. NoCeiling
               /\ SagCeiling(s.last) <= s.ceiling
               /\ chg.online /\ cable => s.ceiling = chg.ceiling
  <1> DEFINE s == Session(cable)
  <1> DEFINE ceiling == IF cable = chg.online THEN chg.ceiling ELSE NoCeiling
             last == IF cable /\ ~chg.online THEN 0 ELSE chg.last
  <1>0. ceiling \in Nat /\ last \in Nat BY DEF ChargerInv, ChargerTypeOK, NoCeiling
  <1>1. /\ s.online = cable /\ s.req = chg.req /\ s.ceiling = ceiling /\ s.last = last
        /\ s \in [armed : BOOLEAN, req : Nat, last : Nat, ceiling : Nat,
                  online : BOOLEAN, wasArmed : BOOLEAN, hot : BOOLEAN]
    <2>1. s = [chg EXCEPT !.online = cable, !.ceiling = ceiling, !.last = last]
      BY Zenon DEF Session
    <2> HIDE DEF s, ceiling, last
    <2> QED BY <1>0, <2>1 DEF ChargerInv, ChargerTypeOK
  <1>2. /\ chg.ceiling \in MinCode .. NoCeiling /\ chg.last \in 0 .. NoCeiling
        /\ SagCeiling(chg.last) <= chg.ceiling /\ chg.online \in BOOLEAN
    BY ChargerState DEF ChargerInv, UnderCeiling
  <1> HIDE DEF s
  <1>3. s.ceiling \in MinCode .. NoCeiling /\ s.last \in 0 .. NoCeiling
    BY <1>1, <1>2 DEF MinCode, NoCeiling
  <1>4. SagCeiling(s.last) <= s.ceiling
    BY <1>1, <1>2 DEF SagCeiling, MinCode, NoCeiling, RampStep
  <1>5. chg.online /\ cable => s.ceiling = chg.ceiling BY <1>1, <1>2
  <1> QED BY <1>1, <1>3, <1>4, <1>5 DEF s
ChargerFields == [armed : BOOLEAN, req : Nat, last : Nat, ceiling : Nat,
                  online : BOOLEAN, wasArmed : BOOLEAN, hot : BOOLEAN]
Under(c) == c.ceiling \in MinCode .. NoCeiling /\ c.last \in 0 .. NoCeiling
            /\ SagCeiling(c.last) <= c.ceiling

LEMMA HotBoolean == ChargerInv => BatteryHot \in BOOLEAN
  BY DEF ChargerInv, ChargerTypeOK, BatteryHot

(* ... and after the poll has looked for a sag. *)
LEMMA ArmedKeeps ==
    ASSUME ChargerInv
    PROVE  LET c == Armed(Session(TRUE))
           IN  /\ c \in ChargerFields /\ Under(c)
               /\ c.online = TRUE
               /\ chg.online => c.ceiling <= chg.ceiling
  <1> DEFINE s == Session(TRUE)
             hot == BatteryHot
             ceiling == IF Dropped(s) THEN SagCeiling(s.last) ELSE s.ceiling
             c == Armed(s)
  <1>1. /\ s \in ChargerFields /\ Under(s) /\ s.online = TRUE
        /\ chg.online => s.ceiling = chg.ceiling
    BY SessionKeeps DEF ChargerFields, Under
  <1>2. c = [s EXCEPT !.wasArmed = TRUE, !.hot = hot, !.ceiling = ceiling]
    BY Zenon DEF Armed
  <1>3. hot \in BOOLEAN BY HotBoolean
  <1> HIDE DEF s, hot, c
  <1>4. ceiling \in MinCode .. NoCeiling /\ ceiling <= s.ceiling /\ SagCeiling(s.last) <= ceiling
    <2>1. s.last \in 0 .. NoCeiling /\ s.ceiling \in MinCode .. NoCeiling
          /\ SagCeiling(s.last) <= s.ceiling
      BY <1>1 DEF Under
    <2>2. SagCeiling(s.last) \in MinCode .. NoCeiling BY <2>1, SagCeilingRange
    <2>3. CASE Dropped(s)
      <3>1. ceiling = SagCeiling(s.last) BY <2>3
      <3> QED BY <2>1, <2>2, <3>1 DEF MinCode, NoCeiling
    <2>4. CASE ~Dropped(s)
      <3>1. ceiling = s.ceiling BY <2>4
      <3> QED BY <2>1, <3>1 DEF MinCode, NoCeiling
    <2> QED BY <2>3, <2>4
  <1> HIDE DEF ceiling
  <1>5. c \in ChargerFields /\ c.online = s.online /\ c.ceiling = ceiling /\ c.last = s.last
    <2>1. ceiling \in Nat BY <1>4 DEF MinCode, NoCeiling
    <2> QED BY <1>1, <1>2, <1>3, <2>1 DEF ChargerFields
  <1>6. chg.online => c.ceiling <= chg.ceiling
    BY <1>1, <1>4, <1>5
  <1>7. Under(c) BY <1>1, <1>4, <1>5 DEF Under
  <1> QED BY <1>1, <1>5, <1>6, <1>7 DEF s, c

(* What a step keeps: the invariant and the promise of SagRemembered.      *)
SagKept ==
    /\ chg.online /\ chg'.online => chg'.ceiling <= chg.ceiling
    /\ (chg.online /\ chg'.online /\ chg.ceiling # NoCeiling /\ pmu'.wrote # pmu.wrote)
          => pmu'.wrote <= chg'.ceiling \/ pmu'.wrote = ChargerProbeCode

WorkFields == [pc : {"due", "armed", "unarmed", "ramp", "back"},
               online : BOOLEAN, cur : Nat, target : Nat]
PmuFields == [vbus : BOOLEAN, gives : Nat, ilim : Nat, wrote : Nat]

LEMMA ChargerFrom ==
    ASSUME ChargerInv, chg' \in ChargerFields, Under(chg'), chgWork' \in WorkFields,
           pmu' \in PmuFields, batteryTemp' \in {"cool", "warm", "hot", "none"},
           chgFaults' \in 0 .. ChargerMaxFaults,
           chgWork'.pc \in {"ramp", "back"} =>
               chgWork'.cur <= chgWork'.target /\ chgWork'.target <= chg'.ceiling,
           chgWork'.pc = "back" => chg'.last = chgWork'.cur
    PROVE  ChargerInv'
  BY DEF ChargerInv, ChargerTypeOK, UnderCeiling, ChargerFields, Under, WorkFields, PmuFields

LEMMA ChargerNow ==
    ASSUME ChargerInv
    PROVE  /\ chg \in ChargerFields /\ Under(chg) /\ chgWork \in WorkFields /\ pmu \in PmuFields
           /\ batteryTemp \in {"cool", "warm", "hot", "none"}
           /\ chgFaults \in 0 .. ChargerMaxFaults
           /\ chgWork.pc \in {"ramp", "back"} =>
                 chgWork.cur <= chgWork.target /\ chgWork.target <= chg.ceiling
           /\ chgWork.pc = "back" => chg.last = chgWork.cur
  BY ChargerState
  DEF ChargerInv, ChargerTypeOK, UnderCeiling, ChargerFields, Under, WorkFields, PmuFields

LEMMA SleepTypes ==
    ASSUME ChargerInv, ChargerSleep PROVE chgWork' \in WorkFields /\ chgWork'.pc = "due"
  BY ChargerNow DEF ChargerSleep, WorkFields

LEMMA DisarmKeeps == ASSUME ChargerInv, ChargerDisarm PROVE ChargerInv' /\ SagKept
  <1>1. PICK ok \in BOOLEAN :
            /\ ChargerIo(ok) /\ chgWork.pc = "due"
            /\ pmu' = IF ok THEN Wrote(ChargerProbeCode) ELSE pmu
            /\ chg' = IF ok THEN [chg EXCEPT !.last = 0, !.wasArmed = FALSE] ELSE chg
            /\ chgWork' = chgWork /\ batteryTemp' = batteryTemp
    BY DEF ChargerDisarm
  <1>2. chgFaults' \in 0 .. ChargerMaxFaults BY <1>1, IoTypes DEF ChargerInv
  <1>3. pmu' \in PmuFields /\ (ok => pmu'.wrote = ChargerProbeCode)
    <2>1. ChargerProbeCode \in Nat BY ChargerConstants DEF MinCode
    <2>2. /\ Wrote(ChargerProbeCode) \in PmuFields
          /\ Wrote(ChargerProbeCode).wrote = ChargerProbeCode
      BY <2>1, ChargerNow DEF Wrote, PmuFields
    <2> QED BY <1>1, <2>2, ChargerNow
  <1>4. /\ chg' \in ChargerFields /\ chg'.ceiling = chg.ceiling /\ chg'.last \in {0, chg.last}
    BY <1>1, ChargerNow DEF ChargerFields
  <1>5. Under(chg')
    BY <1>4, ChargerNow DEF Under, SagCeiling, MinCode, NoCeiling, RampStep
  <1>6. ChargerInv' BY <1>1, <1>2, <1>3, <1>4, <1>5, ChargerNow, ChargerFrom
  <1>7. SagKept BY <1>1, <1>3, <1>4, ChargerNow DEF SagKept, Under, MinCode, NoCeiling
  <1> QED BY <1>6, <1>7

LEMMA StatusKeeps == ASSUME ChargerInv, ChargerStatus PROVE ChargerInv' /\ SagKept
  <1>1. PICK ok \in BOOLEAN :
            /\ ChargerIo(ok) /\ chgWork.pc = "due"
            /\ chgWork' = IF ok THEN [pc |-> IF chg.armed THEN "armed" ELSE "unarmed",
                                      online |-> pmu.vbus, cur |-> 0, target |-> 0]
                          ELSE chgWork
            /\ UNCHANGED <<chg, pmu, batteryTemp>>
    BY DEF ChargerStatus
  <1>2. chgFaults' \in 0 .. ChargerMaxFaults BY <1>1, IoTypes DEF ChargerInv
  <1>3. chgWork' \in WorkFields /\ chgWork'.pc \in {"due", "armed", "unarmed"}
    BY <1>1, ChargerNow DEF WorkFields, PmuFields
  <1>4. ChargerInv' BY <1>1, <1>2, <1>3, ChargerNow, ChargerFrom
  <1>5. SagKept BY <1>1, ChargerNow DEF SagKept, Under, MinCode, NoCeiling
  <1> QED BY <1>4, <1>5

LEMMA NothingKeeps ==
    ASSUME ChargerInv, ChargerLimitFails \/ ChargerNothing PROVE ChargerInv' /\ SagKept
  <1>1. CASE ChargerLimitFails
    <2>1. ChargerIo(FALSE) /\ ChargerSleep /\ UNCHANGED <<chg, pmu, batteryTemp>>
      BY <1>1 DEF ChargerLimitFails
    <2>2. chgFaults' \in 0 .. ChargerMaxFaults BY <2>1, IoTypes DEF ChargerInv
    <2>3. ChargerInv' BY <2>1, <2>2, SleepTypes, ChargerNow, ChargerFrom
    <2>4. SagKept BY <2>1, ChargerNow DEF SagKept, Under, MinCode, NoCeiling
    <2> QED BY <2>3, <2>4
  <1>2. CASE ChargerNothing
    <2> DEFINE s == Session(chgWork.online)
               hot == IF chgWork.online THEN BatteryHot ELSE s.hot
    <2>1. chg' = [s EXCEPT !.hot = hot] /\ ChargerSleep
          /\ UNCHANGED <<pmu, batteryTemp, chgFaults>>
      BY <1>2 DEF ChargerNothing
    <2>2. chgWork.online \in BOOLEAN BY ChargerNow DEF WorkFields
    <2>3. /\ s \in ChargerFields /\ Under(s) /\ s.online = chgWork.online
          /\ chg.online /\ chgWork.online => s.ceiling = chg.ceiling
      BY <2>2, SessionKeeps DEF ChargerFields, Under
    <2>4. hot \in BOOLEAN BY <2>3, HotBoolean DEF ChargerFields
    <2> HIDE DEF s, hot
    <2>5. /\ chg' \in ChargerFields /\ chg'.ceiling = s.ceiling /\ chg'.last = s.last
          /\ chg'.online = s.online
      BY <2>1, <2>3, <2>4 DEF ChargerFields
    <2>6. Under(chg') BY <2>3, <2>5 DEF Under
    <2>7. ChargerInv' BY <2>1, <2>5, <2>6, SleepTypes, ChargerNow, ChargerFrom
    <2>8. SagKept BY <2>1, <2>3, <2>5, ChargerNow DEF SagKept, Under, MinCode, NoCeiling
    <2> QED BY <2>7, <2>8
  <1> QED BY <1>1, <1>2
LEMMA MoveKeeps == ASSUME ChargerInv, ChargerMove PROVE ChargerInv' /\ SagKept
  <1> DEFINE c == Armed(Session(TRUE))
             target == LeastOf(ChargerTarget(Session(TRUE)), c.ceiling)
  <1>1. \/ /\ pmu.ilim = target /\ chg' = c /\ ChargerSleep
           /\ UNCHANGED <<pmu, chgFaults>>
        \/ /\ pmu.ilim > target
           /\ \E ok \in BOOLEAN :
                 /\ ChargerIo(ok)
                 /\ pmu' = IF ok THEN Wrote(target) ELSE pmu
                 /\ chg' = IF ok THEN [c EXCEPT !.last = target] ELSE c
           /\ ChargerSleep
        \/ /\ pmu.ilim < target /\ chg' = c
           /\ chgWork' = [chgWork EXCEPT !.pc = "ramp", !.cur = pmu.ilim, !.target = target]
           /\ UNCHANGED <<pmu, chgFaults>>
    BY DEF ChargerMove
  <1>2. batteryTemp' = batteryTemp BY DEF ChargerMove
  <1>3. /\ c \in ChargerFields /\ Under(c) /\ c.online = TRUE
        /\ chg.online => c.ceiling <= chg.ceiling
    BY ArmedKeeps
  <1>4. target \in Nat /\ target <= NoCeiling /\ target <= c.ceiling
    <2>1. Session(TRUE).req \in Nat /\ Session(TRUE).ceiling \in Nat
      BY SessionKeeps DEF MinCode, NoCeiling
    <2>2. ChargerTarget(Session(TRUE)) \in Nat BY <2>1, TargetIsNat
    <2>3. c.ceiling \in MinCode .. NoCeiling BY <1>3 DEF Under
    <2> DEFINE t == ChargerTarget(Session(TRUE))
    <2>4. t \in Nat BY <2>2
    <2> HIDE DEF c, t
    <2>5. LeastOf(t, c.ceiling) \in Nat /\ LeastOf(t, c.ceiling) <= NoCeiling
          /\ LeastOf(t, c.ceiling) <= c.ceiling
      BY <2>3, <2>4 DEF LeastOf, MinCode, NoCeiling
    <2> QED BY <2>5 DEF t
  <1> HIDE DEF c, target
  <1>5. CASE chg' = c /\ ChargerSleep /\ UNCHANGED <<pmu, chgFaults>>
    <2>1. ChargerInv' BY <1>2, <1>3, <1>5, SleepTypes, ChargerNow, ChargerFrom
    <2>2. SagKept BY <1>3, <1>5 DEF SagKept
    <2> QED BY <2>1, <2>2
  <1>6. ASSUME NEW ok \in BOOLEAN, ChargerIo(ok), ChargerSleep,
               pmu' = IF ok THEN Wrote(target) ELSE pmu,
               chg' = IF ok THEN [c EXCEPT !.last = target] ELSE c
        PROVE  ChargerInv' /\ SagKept
    <2>1. /\ pmu' \in PmuFields /\ (pmu'.wrote # pmu.wrote => pmu'.wrote = target)
      BY <1>4, <1>6, ChargerNow DEF Wrote, PmuFields
    <2>2. chgFaults' \in 0 .. ChargerMaxFaults BY <1>6, IoTypes DEF ChargerInv
    <2>3. /\ chg' \in ChargerFields /\ chg'.ceiling = c.ceiling
          /\ chg'.last \in {c.last, target}
      BY <1>3, <1>4, <1>6 DEF ChargerFields, NoCeiling
    <2>4. Under(chg')
      BY <1>3, <1>4, <2>3 DEF Under, SagCeiling, MinCode, NoCeiling, RampStep
    <2>5. ChargerInv' BY <1>2, <1>6, <2>1, <2>2, <2>3, <2>4, SleepTypes, ChargerNow, ChargerFrom
    <2>6. SagKept BY <1>3, <1>4, <2>1, <2>3 DEF SagKept
    <2> QED BY <2>5, <2>6
  <1>7. CASE /\ pmu.ilim < target /\ chg' = c /\ UNCHANGED <<pmu, chgFaults>>
             /\ chgWork' = [chgWork EXCEPT !.pc = "ramp", !.cur = pmu.ilim, !.target = target]
    <2>1. /\ chgWork' \in WorkFields /\ chgWork'.pc = "ramp"
          /\ chgWork'.cur = pmu.ilim /\ chgWork'.target = target
      BY <1>4, <1>7, ChargerNow DEF WorkFields, PmuFields
    <2>2. pmu.ilim <= target BY <1>4, <1>7, ChargerNow DEF PmuFields, NoCeiling
    <2>3. ChargerInv' BY <1>2, <1>3, <1>4, <1>7, <2>1, <2>2, ChargerNow, ChargerFrom
    <2>4. SagKept BY <1>3, <1>7 DEF SagKept
    <2> QED BY <2>3, <2>4
  <1> QED BY <1>1, <1>5, <1>6, <1>7

LEMMA RampWriteKeeps == ASSUME ChargerInv, RampWrite PROVE ChargerInv' /\ SagKept
  <1> DEFINE next == LeastOf(chgWork.cur + RampStep, chgWork.target)
  <1>1. PICK ok \in BOOLEAN :
            /\ ChargerIo(ok) /\ chgWork.pc = "ramp"
            /\ pmu' = IF ok THEN Wrote(next) ELSE pmu
            /\ chg' = IF ok THEN [chg EXCEPT !.last = next] ELSE chg
            /\ chgWork' = IF ok THEN [chgWork EXCEPT !.pc = "back", !.cur = next]
                          ELSE [chgWork EXCEPT !.pc = "due"]
            /\ batteryTemp' = batteryTemp
    BY DEF RampWrite
  <1>2. next \in Nat /\ next <= chgWork.target /\ chgWork.target <= chg.ceiling
        /\ chg.ceiling \in MinCode .. NoCeiling
    BY <1>1, ChargerNow DEF LeastOf, RampStep, WorkFields, Under
  <1> HIDE DEF next
  <1>3. chgFaults' \in 0 .. ChargerMaxFaults BY <1>1, IoTypes DEF ChargerInv
  <1>4. pmu' \in PmuFields /\ (pmu'.wrote # pmu.wrote => pmu'.wrote = next)
    BY <1>1, <1>2, ChargerNow DEF Wrote, PmuFields
  <1>5. /\ chg' \in ChargerFields /\ chg'.ceiling = chg.ceiling /\ chg'.online = chg.online
        /\ chg'.last = IF ok THEN next ELSE chg.last
    BY <1>1, <1>2, ChargerNow DEF ChargerFields
  <1>6. /\ chgWork' \in WorkFields /\ chgWork'.pc = (IF ok THEN "back" ELSE "due")
        /\ chgWork'.target = chgWork.target /\ (ok => chgWork'.cur = next)
    BY <1>1, <1>2, ChargerNow DEF WorkFields
  <1>7. chgWork.target \in Nat BY ChargerNow DEF WorkFields
  <1>8. Under(chg')
    <2>1. SagCeiling(next) <= chg.ceiling /\ next <= NoCeiling
      BY <1>2, <1>7 DEF SagCeiling, MinCode, NoCeiling, RampStep
    <2> QED BY <1>2, <1>5, <2>1, ChargerNow DEF Under, MinCode, NoCeiling
  <1>9. ChargerInv' BY <1>1, <1>2, <1>3, <1>4, <1>5, <1>6, <1>8, ChargerNow, ChargerFrom
  <1>10. SagKept BY <1>2, <1>4, <1>5, <1>7 DEF SagKept, MinCode, NoCeiling
  <1> QED BY <1>9, <1>10

LEMMA RampBackKeeps == ASSUME ChargerInv, RampBack PROVE ChargerInv' /\ SagKept
  <1>1. chgWork.pc = "back" /\ batteryTemp' = batteryTemp BY DEF RampBack
  <1>2. /\ chgWork.cur <= chgWork.target /\ chgWork.target <= chg.ceiling
        /\ chg.last = chgWork.cur /\ chgWork.cur \in Nat /\ chgWork.target \in Nat
        /\ chg.ceiling \in MinCode .. NoCeiling /\ chgWork.cur \in 0 .. NoCeiling
    BY <1>1, ChargerNow DEF WorkFields, Under
  <1>3. CASE /\ \E ok \in BOOLEAN : ChargerIo(ok)
             /\ ChargerSleep /\ UNCHANGED <<chg, pmu>>
    <2>1. chgFaults' \in 0 .. ChargerMaxFaults BY <1>3, IoTypes DEF ChargerInv
    <2>2. ChargerInv' BY <1>1, <1>3, <2>1, SleepTypes, ChargerNow, ChargerFrom
    <2>3. SagKept BY <1>2, <1>3 DEF SagKept, MinCode, NoCeiling
    <2> QED BY <2>2, <2>3
  <1>4. CASE /\ chgWork' = [chgWork EXCEPT
                    !.pc = IF chgWork.cur < chgWork.target THEN "ramp" ELSE "due"]
             /\ UNCHANGED <<chg, pmu, chgFaults>>
    <2>1. /\ chgWork' \in WorkFields /\ chgWork'.pc \in {"ramp", "due"}
          /\ chgWork'.cur = chgWork.cur /\ chgWork'.target = chgWork.target
      BY <1>4, ChargerNow DEF WorkFields
    <2>2. ChargerInv' BY <1>1, <1>2, <1>4, <2>1, ChargerNow, ChargerFrom
    <2>3. SagKept BY <1>2, <1>4 DEF SagKept, MinCode, NoCeiling
    <2> QED BY <2>2, <2>3
  <1>5. ASSUME NEW ok \in BOOLEAN, ChargerIo(ok), ChargerSleep,
               LET c == [chg EXCEPT !.ceiling = SagCeiling(chgWork.cur)]
               IN  /\ chg' = IF ok /\ c.ceiling < chgWork.cur
                             THEN [c EXCEPT !.last = c.ceiling] ELSE c
                   /\ pmu' = IF ok /\ c.ceiling < chgWork.cur
                             THEN Wrote(c.ceiling) ELSE pmu,
               chgWork.cur > MinCode
        PROVE  ChargerInv' /\ SagKept
    <2> DEFINE low == SagCeiling(chgWork.cur)
               writes == ok /\ low < chgWork.cur
    <2>1. low \in MinCode .. NoCeiling /\ low <= chg.ceiling /\ SagCeiling(low) <= low
      BY <1>2, <1>5 DEF SagCeiling, MinCode, NoCeiling, RampStep
    <2>2. writes \in BOOLEAN OBVIOUS
    <2>3. [chg EXCEPT !.ceiling = low].ceiling = low BY ChargerNow DEF ChargerFields
    <2>4. /\ chg' = IF writes THEN [[chg EXCEPT !.ceiling = low] EXCEPT !.last = low]
                    ELSE [chg EXCEPT !.ceiling = low]
          /\ pmu' = IF writes THEN Wrote(low) ELSE pmu
      BY <1>5, <2>3
    <2>5. low \in Nat BY <2>1 DEF MinCode, NoCeiling
    <2> HIDE DEF low, writes
    <2>6. /\ chg' \in ChargerFields /\ chg'.ceiling = low /\ chg'.online = chg.online
          /\ chg'.last \in {low, chg.last}
      BY <2>2, <2>4, <2>5, ChargerNow DEF ChargerFields
    <2>7. pmu' \in PmuFields /\ (pmu'.wrote # pmu.wrote => pmu'.wrote = low)
      BY <2>2, <2>4, <2>5, ChargerNow DEF PmuFields, Wrote
    <2>8. chgFaults' \in 0 .. ChargerMaxFaults BY <1>5, IoTypes DEF ChargerInv
    <2>9. SagCeiling(chg.last) = low BY <1>2 DEF low
    <2>10. Under(chg') BY <1>2, <2>1, <2>6, <2>9 DEF Under, MinCode, NoCeiling
    <2>11. ChargerInv' BY <1>1, <1>5, <2>6, <2>7, <2>8, <2>10, SleepTypes, ChargerNow, ChargerFrom
    <2>12. SagKept BY <2>1, <2>6, <2>7 DEF SagKept, MinCode, NoCeiling
    <2> QED BY <2>11, <2>12
  <1>6. CASE ChargerSleep /\ UNCHANGED <<chg, pmu, chgFaults>>
    <2>1. ChargerInv' BY <1>1, <1>6, SleepTypes, ChargerNow, ChargerFrom
    <2>2. SagKept BY <1>2, <1>6 DEF SagKept, MinCode, NoCeiling
    <2> QED BY <2>1, <2>2
  <1> QED BY <1>3, <1>4, <1>5, <1>6 DEF RampBack

(* The owner, the cable, the source and the battery. *)
LEMMA WorldKeeps ==
    ASSUME ChargerInv, ChargerSet \/ ChargerArm \/ Cable \/ PmuSag \/ Warm
    PROVE  ChargerInv' /\ SagKept
  <1>1. chg.ceiling \in MinCode .. NoCeiling BY ChargerNow DEF Under
  <1>2. CASE ChargerSet
    <2>1. PICK ma \in ChargerMas : chg' = [chg EXCEPT !.req = ma] BY <1>2 DEF ChargerSet
    <2>2. ma \in Nat BY ChargerConstants
    <2>3. UNCHANGED <<chgWork, pmu, batteryTemp, chgFaults>> BY <1>2 DEF ChargerSet
    <2>4. /\ chg' \in ChargerFields /\ chg'.last = chg.last /\ chg'.ceiling = chg.ceiling
      BY <2>1, <2>2, ChargerNow DEF ChargerFields
    <2>5. ChargerInv' BY <2>3, <2>4, ChargerNow, ChargerFrom DEF Under
    <2>6. SagKept BY <1>1, <2>3, <2>4 DEF SagKept, MinCode, NoCeiling
    <2> QED BY <2>5, <2>6
  <1>3. CASE ChargerArm
    <2>1. chg' = [chg EXCEPT !.armed = ~@] /\ UNCHANGED <<chgWork, pmu, batteryTemp, chgFaults>>
      BY <1>3 DEF ChargerArm
    <2>2. /\ chg' \in ChargerFields /\ chg'.last = chg.last /\ chg'.ceiling = chg.ceiling
      BY <2>1, ChargerNow DEF ChargerFields
    <2>3. ChargerInv' BY <2>1, <2>2, ChargerNow, ChargerFrom DEF Under
    <2>4. SagKept BY <1>1, <2>1, <2>2 DEF SagKept, MinCode, NoCeiling
    <2> QED BY <2>3, <2>4
  <1>4. CASE Cable \/ PmuSag
    <2>1. UNCHANGED <<chg, chgWork, batteryTemp, chgFaults>> BY <1>4 DEF Cable, PmuSag
    <2>2. \A g \in ChargerGives : g \in Nat BY ChargerConstants DEF MinCode
    <2>3. pmu' \in PmuFields /\ pmu'.wrote = pmu.wrote
      <3>1. NoCeiling \in Nat /\ MinCode \in Nat BY DEF NoCeiling, MinCode
      <3> QED BY <1>4, <2>2, <3>1, ChargerNow DEF Cable, PmuSag, PmuFields
    <2>4. ChargerInv' BY <2>1, <2>3, ChargerNow, ChargerFrom
    <2>5. SagKept BY <1>1, <2>1, <2>3 DEF SagKept, MinCode, NoCeiling
    <2> QED BY <2>4, <2>5
  <1>5. CASE Warm
    <2>1. batteryTemp' \in {"cool", "warm", "hot", "none"} /\ UNCHANGED <<chg, chgWork, pmu, chgFaults>>
      BY <1>5 DEF Warm
    <2>2. ChargerInv' BY <2>1, ChargerNow, ChargerFrom
    <2>3. SagKept BY <1>1, <2>1 DEF SagKept, MinCode, NoCeiling
    <2> QED BY <2>2, <2>3
  <1> QED BY <1>2, <1>3, <1>4, <1>5

LEMMA NextCharger ==
    ASSUME ChargerInv, [ChargerNext]_chargerVars
    PROVE  ChargerInv' /\ (SagKept \/ UNCHANGED chargerVars)
  <1>1. CASE UNCHANGED chargerVars
    BY <1>1 DEF chargerVars, ChargerInv, ChargerTypeOK, UnderCeiling
  <1> QED BY <1>1, DisarmKeeps, StatusKeeps, NothingKeeps, MoveKeeps, RampWriteKeeps, RampBackKeeps,
             WorldKeeps DEF ChargerNext, ChargerStep

LEMMA ChargerInvariant == ChargerSpec => []ChargerInv
  BY InitCharger, NextCharger, PTL DEF ChargerSpec

(* The register's codes, the request and the poll's state stay in their    *)
(* types (see ChargerTypeOK), whatever is asked for and given.             *)
THEOREM ChargerTypeCorrect == ChargerSpec => []ChargerTypeOK
  BY ChargerInvariant, PTL DEF ChargerInv

(* A session's ceiling never rises and no write goes over it (see          *)
(* SagRemembered), for every request, every source and any number of       *)
(* transfers that fail.                                                    *)
THEOREM ChargerSagRemembered == ChargerSpec => SagRemembered
  <1>1. ChargerInv /\ [ChargerNext]_chargerVars => [SagKept]_chargerVars
    BY NextCharger
  <1>2. [SagKept]_chargerVars =>
          [/\ chg.online /\ chg'.online => chg'.ceiling <= chg.ceiling
           /\ (chg.online /\ chg'.online /\ chg.ceiling # NoCeiling /\ pmu'.wrote # pmu.wrote)
                 => pmu'.wrote <= chg'.ceiling \/ pmu'.wrote = ChargerProbeCode]_chargerVars
    BY DEF SagKept
  <1> QED BY <1>1, <1>2, ChargerInvariant, PTL DEF ChargerSpec, SagRemembered

(***************************************************************************)
(* AppleI2c: no message ends before its bytes are where they belong, and   *)
(* none waits for nothing, for any transfers and any size of the FIFO.     *)
(*                                                                         *)
(* The interrupt may service the controller at any place of the caller,    *)
(* with any message.  A service with the current message, whoever makes    *)
(* it, leaves it as far from its end as its words and bytes are; one       *)
(* between two messages finds a controller that is calm.  Nothing is said  *)
(* of a transfer in which a late handler served another message: only the  *)
(* types and the pointers are kept then.                                   *)
(***************************************************************************)
Messages == [rd : BOOLEAN, len : Nat]
Asked == [rd : BOOLEAN, len : Nat \ {0}]
Bits == ReadBits \cup WriteBits

DriverTypes ==
    /\ i2c \in [msg : Nat, tx : Nat, ptr : Nat, error : {"ok", "io", "nak"}, done : BOOLEAN]
    /\ late \in BOOLEAN
BusTypes ==
    bus \in [mask : {{}, ReadBits, WriteBits}, st : SUBSET Bits, out : Nat, toread : Nat, rx : Nat]
XferTypes ==
    /\ xfer \in [pc : {"idle", "combined", "bytes", "start", "poll", "serve", "try"},
                 msgs : Seq(Asked), n : Nat, got : Nat, res : {"ok", "io", "nak", "timeout"}]
    /\ xfer.pc # "idle" => xfer.n \in 1..Len(xfer.msgs)
    /\ xfer.pc \in {"combined", "bytes"} => Combined(xfer.msgs)
    /\ xfer.pc = "combined" => xfer.got = 0
IrqTypes == i2cIrq \in [pc : {"none", "event", "lock"}, msg : Nat]

(* A pointer that is not Gone is to a message of the transfer under way;   *)
(* the one the caller waits for is the current one.                        *)
Waits == xfer.pc \in {"poll", "serve", "try"}
Cur == Msg(xfer.n)
Points(p) == p # Gone => (Waits \/ xfer.pc = "start") /\ p \in 1..Len(xfer.msgs)
Pointers ==
    /\ Points(i2c.msg) /\ Points(i2cIrq.msg)
    /\ Waits => i2c.msg = xfer.n

(* Between two messages the controller does nothing. *)
Still == bus.out = 0 /\ bus.toread = 0 /\ bus.rx = 0 /\ bus.st \subseteq {"RXDONE"}
Calm == ~late /\ xfer.pc \in {"combined", "start"} => Still

(* A message that is not done: its words go out or their end is seen;      *)
(* every byte of a read is taken, in the FIFO or to come.                  *)
Failed == "MTN" \in bus.st \/ "ERROR" \in bus.st
Works == ~late /\ Waits /\ ~i2c.done /\ ~Failed
Writing ==
    Works /\ ~Cur.rd =>
        /\ bus.toread = 0 /\ bus.rx = 0
        /\ i2c.ptr < Cur.len /\ i2c.tx <= Cur.len
        /\ "XEN" \in bus.st <=> bus.out = 0
Reads ==
    Works /\ Cur.rd =>
        /\ i2c.ptr + bus.rx + bus.toread = Cur.len
        /\ i2c.ptr < Cur.len
        /\ bus.toread < Cur.len => bus.out = 0
        /\ bus.toread = 0 => "RXDONE" \in bus.st
        /\ "XEN" \notin bus.st
Whole ==
    ~late /\ Waits /\ i2c.done /\ i2c.error = "ok" =>
        /\ Still /\ i2c.ptr = Cur.len
        /\ ~Cur.rd => i2c.tx = Cur.len

(* A combined read: likewise, and the caller takes the bytes itself.       *)
Bytes ==
    ~late /\ xfer.pc = "bytes" /\ ~Failed =>
        /\ xfer.got + bus.rx + bus.toread = Msg(2).len
        /\ xfer.got < Msg(2).len

I2cTypes == DriverTypes /\ BusTypes /\ XferTypes /\ IrqTypes
I2cInv == I2cTypes /\ Pointers /\ Calm /\ Writing /\ Reads /\ Whole /\ Bytes

-----------------------------------------------------------------------------
LEMMA I2cStart == I2cInit => I2cInv
<1> SUFFICES ASSUME I2cInit PROVE I2cInv
    OBVIOUS
<1>1. DriverTypes
    BY DEF I2cInit, DriverTypes, Gone
<1>2. BusTypes
    BY DEF I2cInit, BusTypes, Quiet
<1>3. XferTypes
    BY DEF I2cInit, XferTypes
<1>4. IrqTypes
    BY DEF I2cInit, IrqTypes, Gone
<1> QED
    BY <1>1, <1>2, <1>3, <1>4
    DEF I2cInit, I2cInv, I2cTypes, Pointers, Points, Calm, Writing, Reads, Whole, Bytes, Waits,
        Works

(* What a transfer may ask for, and what a pointer may find.               *)
LEMMA AskedFor ==
    ASSUME NEW t \in I2cTransfers
    PROVE  /\ t \in Seq(Asked) /\ 1 \in 1..Len(t)
           /\ Combined(t) => t[1] \in Asked /\ t[2] \in Asked
<1>1. t \in Seq(Asked) /\ Len(t) \in Nat /\ Len(t) # 0
    BY I2cConstants DEF Asked
<1>2. \A i \in 1..Len(t) : t[i] \in Asked
    BY <1>1
<1> QED
    BY <1>1, <1>2 DEF Combined

LEMMA CurIs ==
    ASSUME XferTypes, xfer.pc # "idle"
    PROVE  /\ Cur \in Asked /\ Cur \in Messages
           /\ Cur.rd \in BOOLEAN /\ Cur.len \in Nat /\ Cur.len > 0
<1>1. Cur \in Asked
    BY DEF XferTypes, Cur, Msg
<1> QED
    BY <1>1 DEF Asked, Messages

LEMMA SecondIs ==
    ASSUME XferTypes, xfer.pc \in {"combined", "bytes"}
    PROVE  /\ Msg(1).len \in Nat /\ Msg(2).len \in Nat /\ Msg(2).len > 0
<1>1. xfer.msgs \in Seq(Asked) /\ Len(xfer.msgs) = 2
    BY DEF XferTypes, Combined
<1>2. Msg(1) \in Asked /\ Msg(2) \in Asked
    BY <1>1 DEF Msg
<1> QED
    BY <1>2 DEF Asked

LEMMA FoundIs ==
    ASSUME XferTypes, NEW p \in Nat, Points(p), NEW m \in Found(p)
    PROVE  m \in Messages
<1>1. CASE p = Gone
    BY <1>1, I2cConstants DEF Found, Stray, Messages
<1>2. CASE p # Gone
    <2>1. xfer.msgs \in Seq(Asked) /\ p \in 1..Len(xfer.msgs)
        BY <1>2 DEF Points, XferTypes
    <2>2. m = Msg(p) /\ Msg(p) \in Asked
        BY <1>2, <2>1 DEF Found, Msg
    <2> QED
        BY <2>2 DEF Asked, Messages
<1> QED
    BY <1>1, <1>2

(* What continue_write sends and continue_read takes.                      *)
LEMMA SmallerIs ==
    ASSUME NEW a \in Nat, NEW b \in Nat
    PROVE  /\ Smaller(a, b) \in Nat /\ Smaller(a, b) <= a /\ Smaller(a, b) <= b
           /\ Smaller(a, b) = a \/ Smaller(a, b) = b
BY DEF Smaller

LEMMA LeftIs ==
    ASSUME NEW a \in Nat, NEW b \in Nat
    PROVE  /\ Left(a, b) \in Nat
           /\ b <= a => Left(a, b) + b = a
           /\ b >= a => Left(a, b) = 0
BY DEF Left

LEMMA ContinueReadIs ==
    ASSUME DriverTypes, BusTypes, NEW c \in Messages
    PROVE  /\ ContinueRead(c) \in Nat /\ ContinueRead(c) <= bus.rx
           /\ ContinueRead(c) = bus.rx \/ ContinueRead(c) = Left(c.len, i2c.ptr)
           /\ ContinueRead(c) <= Left(c.len, i2c.ptr)
<1>1. bus.rx \in Nat /\ i2c.ptr \in Nat /\ c.len \in Nat
    BY DEF DriverTypes, BusTypes, Messages
<1>2. Left(c.len, i2c.ptr) \in Nat
    BY <1>1, LeftIs
<1> QED
    BY <1>1, <1>2, SmallerIs DEF ContinueRead

LEMMA ContinueWriteIs ==
    ASSUME DriverTypes, NEW c \in Messages
    PROVE  /\ ContinueWrite(c) \in Nat
           /\ i2c.tx < c.len => ContinueWrite(c) > 0 /\ i2c.tx + ContinueWrite(c) <= c.len
<1>1. i2c.tx \in Nat /\ c.len \in Nat /\ FifoChunk \in Nat /\ FifoChunk > 0
    BY I2cConstants DEF DriverTypes, Messages
<1> DEFINE left == Left(c.len, i2c.tx)
<1>2. left \in Nat /\ (i2c.tx <= c.len => left + i2c.tx = c.len)
    BY <1>1, LeftIs
<1>3. ContinueWrite(c) = Smaller(left, FifoChunk)
    BY DEF ContinueWrite
<1> HIDE DEF left
<1>4. /\ ContinueWrite(c) \in Nat /\ ContinueWrite(c) <= left
      /\ ContinueWrite(c) = left \/ ContinueWrite(c) = FifoChunk
    BY <1>1, <1>2, <1>3, SmallerIs
<1> QED
    BY <1>1, <1>2, <1>4

-----------------------------------------------------------------------------
(* The handler's branches, for any message m it holds and any c that       *)
(* i2c->msg is by now: an error or a NAK ends the message ...              *)
LEMMA ServiceFailed ==
    ASSUME DriverTypes, BusTypes, NEW m \in Messages, NEW c \in Messages, Service(m, c), Failed,
           late' \in BOOLEAN
    PROVE  /\ DriverTypes' /\ BusTypes' /\ i2c'.msg = i2c.msg
           /\ i2c'.done /\ i2c'.error # "ok"
<1>1. \E err \in {"io", "nak"} :
         /\ i2c' = [i2c EXCEPT !.error = err, !.done = TRUE]
         /\ bus' = [bus EXCEPT !.st = {}, !.mask = {}]
    BY DEF Service, Failed, Complete
<1> QED
    BY <1>1 DEF DriverTypes, BusTypes

(* ... a read takes what is in the FIFO ...                                *)
LEMMA ServiceRead ==
    ASSUME DriverTypes, BusTypes, NEW m \in Messages, NEW c \in Messages, Service(m, c), ~Failed,
           m.rd, NEW in, in = ContinueRead(c), late' \in BOOLEAN
    PROVE  /\ DriverTypes' /\ BusTypes' /\ i2c'.msg = i2c.msg /\ i2c'.error = i2c.error
           /\ i2c'.tx = i2c.tx /\ i2c'.ptr = i2c.ptr + in
           /\ i2c'.done <=> i2c.done \/ i2c.ptr + in >= m.len
           /\ bus'.st = {} /\ bus'.rx = 0 /\ bus'.out = bus.out /\ bus'.toread = bus.toread
<1>1. in \in Nat
    BY ContinueReadIs
<1> DEFINE over == i2c.done \/ i2c.ptr + in >= m.len
           open == IF i2c.ptr + in < m.len THEN ReadBits ELSE {}
<1>2. /\ i2c' = [[i2c EXCEPT !.ptr = @ + in] EXCEPT !.done = over]
      /\ bus' = [[bus EXCEPT !.st = {}, !.mask = {}] EXCEPT !.rx = 0, !.mask = open]
    BY DEF Service, Failed, DriverTypes, Goes
<1>3. over \in BOOLEAN /\ open \in {{}, ReadBits}
    BY DEF DriverTypes
<1>4. over <=> i2c.done \/ i2c.ptr + in >= m.len
    OBVIOUS
<1> HIDE DEF over, open
<1>5. i2c.ptr + in \in Nat
    BY <1>1 DEF DriverTypes
<1>6. /\ DriverTypes' /\ i2c'.msg = i2c.msg /\ i2c'.error = i2c.error
      /\ i2c'.tx = i2c.tx /\ i2c'.ptr = i2c.ptr + in /\ i2c'.done = over
    BY <1>2, <1>3, <1>5 DEF DriverTypes
<1>7. /\ BusTypes' /\ bus'.st = {} /\ bus'.rx = 0 /\ bus'.out = bus.out
      /\ bus'.toread = bus.toread
    BY <1>2, <1>3 DEF BusTypes
<1> QED
    BY <1>4, <1>6, <1>7

(* ... a write whose words are out refills the FIFO ...                    *)
LEMMA ServiceWrite ==
    ASSUME DriverTypes, BusTypes, NEW m \in Messages, NEW c \in Messages, Service(m, c), ~Failed,
           ~m.rd, "XEN" \in bus.st, late' \in BOOLEAN,
           NEW more, more = IF i2c.tx < m.len THEN ContinueWrite(c) ELSE 0
    PROVE  /\ DriverTypes' /\ BusTypes' /\ i2c'.msg = i2c.msg /\ i2c'.error = i2c.error
           /\ i2c'.tx = i2c.tx + more /\ i2c'.ptr = i2c.tx
           /\ i2c'.done <=> i2c.done \/ i2c.tx >= m.len
           /\ bus'.st = {} /\ bus'.rx = bus.rx /\ bus'.out = bus.out + more
           /\ bus'.toread = bus.toread
<1>1. more \in Nat
    BY ContinueWriteIs
<1> DEFINE over == i2c.done \/ i2c.tx >= m.len
           open == IF i2c.tx < m.len THEN WriteBits ELSE {}
<1>2. /\ i2c' = [[i2c EXCEPT !.ptr = i2c.tx, !.tx = @ + more] EXCEPT !.done = over]
      /\ bus' = [[bus EXCEPT !.st = {}, !.mask = {}] EXCEPT !.out = @ + more, !.mask = open]
    BY DEF Service, Failed, DriverTypes, Goes
<1>3. over \in BOOLEAN /\ open \in {{}, WriteBits}
    BY DEF DriverTypes
<1>4. over <=> i2c.done \/ i2c.tx >= m.len
    OBVIOUS
<1> HIDE DEF over, open
<1>5. i2c.tx + more \in Nat /\ bus.out + more \in Nat
    BY <1>1 DEF DriverTypes, BusTypes
<1>6. /\ DriverTypes' /\ i2c'.msg = i2c.msg /\ i2c'.error = i2c.error
      /\ i2c'.tx = i2c.tx + more /\ i2c'.ptr = i2c.tx /\ i2c'.done = over
    BY <1>2, <1>3, <1>5 DEF DriverTypes
<1>7. /\ BusTypes' /\ bus'.st = {} /\ bus'.rx = bus.rx /\ bus'.out = bus.out + more
      /\ bus'.toread = bus.toread
    BY <1>2, <1>3, <1>5 DEF BusTypes
<1> QED
    BY <1>4, <1>6, <1>7

(* ... and one whose words are not out has nothing to do.                  *)
LEMMA ServiceNothing ==
    ASSUME DriverTypes, BusTypes, NEW m \in Messages, NEW c \in Messages, Service(m, c), ~Failed,
           ~m.rd, "XEN" \notin bus.st, late' \in BOOLEAN
    PROVE  /\ DriverTypes' /\ BusTypes' /\ i2c'.msg = i2c.msg /\ i2c'.error = i2c.error
           /\ i2c'.tx = i2c.tx /\ i2c'.ptr = i2c.ptr
           /\ i2c'.done <=> i2c.done \/ i2c.ptr >= m.len
           /\ bus'.st = {} /\ bus'.rx = bus.rx /\ bus'.out = bus.out
           /\ bus'.toread = bus.toread
<1> DEFINE over == i2c.done \/ i2c.ptr >= m.len
           open == IF i2c.ptr < m.len THEN WriteBits ELSE {}
<1>2. /\ i2c' = [i2c EXCEPT !.done = over]
      /\ bus' = [[bus EXCEPT !.st = {}, !.mask = {}] EXCEPT !.mask = open]
    BY DEF Service, Failed, DriverTypes, Goes
<1>3. over \in BOOLEAN /\ open \in {{}, WriteBits}
    BY DEF DriverTypes
<1>4. over <=> i2c.done \/ i2c.ptr >= m.len
    OBVIOUS
<1> HIDE DEF over, open
<1>6. /\ DriverTypes' /\ i2c'.msg = i2c.msg /\ i2c'.error = i2c.error
      /\ i2c'.tx = i2c.tx /\ i2c'.ptr = i2c.ptr /\ i2c'.done = over
    BY <1>2, <1>3 DEF DriverTypes
<1>7. /\ BusTypes' /\ bus'.st = {} /\ bus'.rx = bus.rx /\ bus'.out = bus.out
      /\ bus'.toread = bus.toread
    BY <1>2, <1>3 DEF BusTypes
<1> QED
    BY <1>4, <1>6, <1>7

(* Whatever it holds, it keeps the types and the pointer.                  *)
LEMMA ServiceTypes ==
    ASSUME DriverTypes, BusTypes, NEW m \in Messages, NEW c \in Messages, Service(m, c),
           late' \in BOOLEAN
    PROVE  DriverTypes' /\ BusTypes' /\ i2c'.msg = i2c.msg
<1>1. CASE Failed
    BY <1>1, ServiceFailed
<1>2. CASE ~Failed /\ m.rd
    BY <1>2, ServiceRead
<1>3. CASE ~Failed /\ ~m.rd /\ "XEN" \in bus.st
    BY <1>3, ServiceWrite
<1>4. CASE ~Failed /\ ~m.rd /\ "XEN" \notin bus.st
    BY <1>4, ServiceNothing
<1> QED
    BY <1>1, <1>2, <1>3, <1>4

-----------------------------------------------------------------------------
(* A service of the current message, by the caller or by the interrupt,    *)
(* while the caller waits for it.                                          *)
LEMMA ServiceKeeps ==
    ASSUME I2cInv, ~late, Waits, Service(Cur, Cur), UNCHANGED <<xfer.n, xfer.msgs>>, Waits',
           late' \in BOOLEAN
    PROVE  Writing' /\ Reads' /\ Whole'
<1> USE DEF I2cInv, I2cTypes
<1>1. /\ Cur \in Messages /\ Cur.rd \in BOOLEAN /\ Cur.len \in Nat /\ Cur' = Cur
      /\ DriverTypes /\ BusTypes
    BY CurIs DEF Waits, Cur, Msg
<1>2. CASE Failed
    <2>1. i2c'.done /\ i2c'.error # "ok"
        BY <1>1, <1>2, ServiceFailed
    <2> QED
        BY <2>1 DEF Writing, Reads, Whole, Works
<1>3. CASE ~Failed /\ Cur.rd
    <2> DEFINE in == ContinueRead(Cur)
    <2>1. /\ i2c'.error = i2c.error /\ i2c'.tx = i2c.tx /\ i2c'.ptr = i2c.ptr + in
          /\ i2c'.done <=> i2c.done \/ i2c.ptr + in >= Cur.len
          /\ bus'.st = {} /\ bus'.rx = 0 /\ bus'.out = bus.out /\ bus'.toread = bus.toread
        BY <1>1, <1>3, ServiceRead
    <2>2. /\ in \in Nat /\ in <= bus.rx
          /\ in = bus.rx \/ in = Left(Cur.len, i2c.ptr)
          /\ in <= Left(Cur.len, i2c.ptr)
        BY <1>1, ContinueReadIs
    <2> HIDE DEF in
    <2>3. i2c.ptr \in Nat /\ i2c.tx \in Nat /\ bus.rx \in Nat /\ bus.toread \in Nat
        BY DEF DriverTypes, BusTypes
    <2>4. i2c.ptr <= Cur.len => Left(Cur.len, i2c.ptr) = Cur.len - i2c.ptr
        BY <1>1, <2>3 DEF Left
    <2>5. Writing'
        BY <1>1, <1>3 DEF Writing
    <2>6. Reads'
        <3> SUFFICES ASSUME Works' PROVE Reads'
            BY DEF Reads
        <3>1. Works /\ i2c.ptr + in < Cur.len
            BY <1>1, <1>3, <2>1, <2>2, <2>3 DEF Works
        <3>2. in = bus.rx
            BY <1>1, <2>2, <2>3, <2>4, <3>1
        <3> QED
            BY <1>1, <1>3, <2>1, <2>3, <3>1, <3>2 DEF Reads
    <2>7. Whole'
        <3> SUFFICES ASSUME i2c'.done, i2c.error = "ok"
                     PROVE  Still' /\ i2c'.ptr = Cur.len
            BY <1>1, <1>3, <2>1 DEF Whole
        <3>1. CASE i2c.done
            <4>1. bus.out = 0 /\ bus.toread = 0 /\ bus.rx = 0 /\ i2c.ptr = Cur.len
                BY <3>1 DEF Whole, Still
            <4>2. in = 0
                BY <2>2, <4>1
            <4> QED
                BY <2>1, <2>3, <4>1, <4>2 DEF Still
        <3>2. CASE ~i2c.done
            <4>1. Works /\ i2c.ptr + in >= Cur.len
                BY <1>3, <2>1, <3>2 DEF Works
            <4>2. in = Cur.len - i2c.ptr
                BY <1>1, <1>3, <2>2, <2>3, <2>4, <4>1 DEF Reads
            <4>3. bus.toread = 0 /\ bus.out = 0
                BY <1>1, <1>3, <2>2, <2>3, <4>1, <4>2 DEF Reads
            <4> QED
                BY <1>1, <2>1, <2>3, <4>2, <4>3 DEF Still
        <3> QED
            BY <3>1, <3>2
    <2> QED
        BY <2>5, <2>6, <2>7
<1>4. CASE ~Failed /\ ~Cur.rd /\ "XEN" \in bus.st
    <2> DEFINE more == IF i2c.tx < Cur.len THEN ContinueWrite(Cur) ELSE 0
    <2>1. /\ i2c'.error = i2c.error /\ i2c'.tx = i2c.tx + more /\ i2c'.ptr = i2c.tx
          /\ i2c'.done <=> i2c.done \/ i2c.tx >= Cur.len
          /\ bus'.st = {} /\ bus'.rx = bus.rx /\ bus'.out = bus.out + more
          /\ bus'.toread = bus.toread
        BY <1>1, <1>4, ServiceWrite
    <2>2. /\ more \in Nat
          /\ i2c.tx < Cur.len => more > 0 /\ i2c.tx + more <= Cur.len
          /\ i2c.tx = Cur.len => more = 0
        BY <1>1, ContinueWriteIs
    <2> HIDE DEF more
    <2>3. i2c.tx \in Nat
        BY DEF DriverTypes
    <2>4. ~i2c.done \/ i2c.error # "ok"
        BY <1>4 DEF Whole, Still
    <2>5. Works => bus.toread = 0 /\ bus.rx = 0 /\ bus.out = 0 /\ i2c.tx <= Cur.len
        BY <1>4 DEF Writing
    <2>6. Writing'
        <3> SUFFICES ASSUME Works' PROVE Writing'
            BY DEF Writing
        <3>1. Works /\ i2c.tx < Cur.len
            BY <1>1, <1>4, <2>1, <2>3 DEF Works
        <3>2. more > 0 /\ bus'.out = 0 + more /\ i2c.tx + more <= Cur.len
            BY <2>1, <2>2, <2>5, <3>1
        <3>3. bus'.out # 0
            BY <2>2, <3>2
        <3> QED
            BY <1>1, <2>1, <2>5, <3>1, <3>2, <3>3 DEF Writing
    <2>7. Whole'
        <3> SUFFICES ASSUME i2c'.done, i2c.error = "ok"
                     PROVE  Still' /\ i2c'.ptr = Cur.len /\ i2c'.tx = Cur.len
            BY <1>1, <2>1 DEF Whole
        <3>1. Works /\ i2c.tx = Cur.len
            BY <1>1, <1>4, <2>1, <2>3, <2>4, <2>5 DEF Works
        <3> QED
            BY <1>1, <2>1, <2>2, <2>5, <3>1 DEF Still
    <2> QED
        BY <1>1, <1>4, <2>6, <2>7 DEF Reads
<1>5. CASE ~Failed /\ ~Cur.rd /\ "XEN" \notin bus.st
    <2>1. /\ i2c'.error = i2c.error /\ i2c'.tx = i2c.tx /\ i2c'.ptr = i2c.ptr
          /\ i2c'.done <=> i2c.done \/ i2c.ptr >= Cur.len
          /\ bus'.st = {} /\ bus'.rx = bus.rx /\ bus'.out = bus.out
          /\ bus'.toread = bus.toread
        BY <1>1, <1>5, ServiceNothing
    <2>2. i2c.ptr \in Nat
        BY DEF DriverTypes
    <2>3. i2c'.done /\ i2c.error = "ok" => i2c.done
        BY <1>1, <1>5, <2>1, <2>2 DEF Writing, Works
    <2>4. Whole'
        BY <1>1, <2>1, <2>3 DEF Whole, Still
    <2>5. Writing'
        BY <1>1, <1>5, <2>1 DEF Writing, Works
    <2> QED
        BY <1>1, <1>5, <2>4, <2>5 DEF Reads
<1> QED
    BY <1>2, <1>3, <1>4, <1>5

(* A service between two messages finds nothing to count.                  *)
LEMMA ServiceCalm ==
    ASSUME DriverTypes, BusTypes, Still, NEW m \in Messages, NEW c \in Messages, Service(m, c),
           late' \in BOOLEAN
    PROVE  Still'
<1>1. ~Failed /\ "XEN" \notin bus.st
    BY DEF Still, Failed
<1>2. CASE m.rd
    BY <1>1, <1>2, ServiceRead DEF Still
<1>3. CASE ~m.rd
    BY <1>1, <1>3, ServiceNothing DEF Still
<1> QED
    BY <1>2, <1>3

-----------------------------------------------------------------------------
(* The caller: the controller is reset, the next message is started.       *)
LEMMA ResetIs ==
    ASSUME BusTypes, bus' = ResetBus
    PROVE  BusTypes' /\ Still'
<1>1. bus.st \cap {"RXDONE"} \in SUBSET Bits
    BY DEF Bits, ReadBits
<1> QED
    BY <1>1 DEF ResetBus, Quiet, BusTypes, Still

(* A transfer that returns leaves nothing to keep but the types.           *)
LEMMA OverKeeps ==
    ASSUME I2cInv, NEW res \in {"ok", "io", "nak", "timeout"}, NEW done \in BOOLEAN,
           Over(res, done), BusTypes', late' = late
    PROVE  I2cInv'
<1> USE DEF I2cInv, I2cTypes
<1>1. XferTypes' /\ xfer'.pc = "idle"
    BY DEF Over, XferTypes
<1>2. DriverTypes' /\ i2c'.msg = Gone
    BY DEF Over, DriverTypes, Gone
<1>3. IrqTypes' /\ i2cIrq'.msg = Gone
    BY DEF Over, IrqTypes, Gone
<1> QED
    BY <1>1, <1>2, <1>3
    DEF Pointers, Points, Calm, Writing, Reads, Whole, Bytes, Works, Waits

LEMMA DoXferKeeps == ASSUME I2cInv, DoXfer PROVE I2cInv'
<1> USE DEF I2cInv, I2cTypes
<1>1. PICK t \in I2cTransfers :
        xfer' = [pc |-> IF Combined(t) THEN "combined" ELSE "start",
                 msgs |-> t, n |-> 1, got |-> 0, res |-> "ok"]
    BY DEF DoXfer
<1>2. t \in Seq(Asked) /\ 1 \in 1..Len(t)
    BY AskedFor
<1>3. XferTypes' /\ xfer'.pc \in {"combined", "start"}
    BY <1>1, <1>2 DEF XferTypes
<1>4. BusTypes' /\ Still'
    BY ResetIs DEF DoXfer
<1>5. i2c' = i2c /\ i2cIrq' = i2cIrq /\ late' = FALSE /\ xfer.pc = "idle"
    BY DEF DoXfer
<1>6. DriverTypes' /\ IrqTypes'
    BY <1>5 DEF DriverTypes, IrqTypes
<1>7. i2c.msg = Gone /\ i2cIrq.msg = Gone
    BY <1>5 DEF Pointers, Points, Waits
<1> QED
    BY <1>3, <1>4, <1>5, <1>6, <1>7
    DEF Pointers, Points, Calm, Writing, Reads, Whole, Bytes, Works, Waits

(* A combined read: all of it queued ...                                   *)
LEMMA XferCombinedKeeps == ASSUME I2cInv, XferCombined PROVE I2cInv'
<1> USE DEF I2cInv, I2cTypes
<1>1. /\ xfer.pc = "combined" /\ xfer' = [xfer EXCEPT !.pc = "bytes"]
      /\ i2c' = i2c /\ i2cIrq' = i2cIrq /\ late' = late
    BY DEF XferCombined
<1>2. Msg(1).len \in Nat /\ Msg(2).len \in Nat /\ Msg(2).len > 0
    BY <1>1, SecondIs
<1>3. XferTypes' /\ xfer'.pc = "bytes" /\ xfer'.got = 0 /\ Msg(2)' = Msg(2)
    BY <1>1 DEF XferTypes, Msg
<1>4. bus' = [bus EXCEPT !.st = @ \ {"XEN", "MTN"}, !.out = @ + Msg(1).len + 3,
                 !.toread = @ + Msg(2).len]
    BY DEF XferCombined
<1>5. bus.out + Msg(1).len + 3 \in Nat /\ bus.toread + Msg(2).len \in Nat
    BY <1>2 DEF BusTypes
<1>6. BusTypes' /\ bus'.toread = bus.toread + Msg(2).len /\ bus'.rx = bus.rx
    BY <1>4, <1>5 DEF BusTypes
<1>7. Bytes'
    BY <1>1, <1>2, <1>3, <1>6 DEF Bytes, Calm, Still, BusTypes
<1>8. DriverTypes' /\ IrqTypes' /\ Pointers'
    BY <1>1, <1>3 DEF DriverTypes, IrqTypes, Pointers, Points, Waits
<1> QED
    BY <1>3, <1>6, <1>7, <1>8 DEF Calm, Writing, Reads, Whole, Works, Waits

(* ... and each byte taken as it comes.                                    *)
LEMMA CombinedByteKeeps == ASSUME I2cInv, CombinedByte PROVE I2cInv'
<1> USE DEF I2cInv, I2cTypes
<1>1. /\ xfer.pc = "bytes" /\ bus.rx > 0 /\ bus' = [bus EXCEPT !.rx = @ - 1] /\ late' = late
    BY DEF CombinedByte
<1>2. bus.rx \in Nat /\ bus.toread \in Nat /\ xfer.got \in Nat /\ bus.rx - 1 \in Nat
    BY <1>1 DEF BusTypes, XferTypes
<1>3. /\ BusTypes' /\ bus'.rx = bus.rx - 1 /\ bus'.toread = bus.toread /\ bus'.st = bus.st
    BY <1>1, <1>2 DEF BusTypes
<1>4. CASE xfer.got + 1 < Msg(2).len
    <2>1. xfer' = [xfer EXCEPT !.got = @ + 1] /\ i2c' = i2c /\ i2cIrq' = i2cIrq
        BY <1>4 DEF CombinedByte
    <2>2. /\ xfer'.pc = "bytes" /\ xfer'.got = xfer.got + 1 /\ Msg(2)' = Msg(2)
          /\ xfer'.msgs = xfer.msgs /\ xfer'.n = xfer.n /\ xfer'.res = xfer.res
          /\ xfer' \in [pc : {"bytes"}, msgs : Seq(Asked), n : Nat, got : Nat,
                         res : {"ok", "io", "nak", "timeout"}]
        <3>1. xfer.got + 1 \in Nat
            BY <1>2
        <3> QED
            BY <1>1, <2>1, <3>1 DEF XferTypes, Msg
    <2>3. XferTypes'
        BY <1>1, <2>2 DEF XferTypes
    <2>4. Msg(2).len \in Nat
        BY <1>1, SecondIs
    <2>5. Bytes'
        BY <1>1, <1>2, <1>3, <1>4, <2>2, <2>4 DEF Bytes, Failed
    <2>6. DriverTypes' /\ IrqTypes' /\ Pointers'
        BY <1>1, <2>1, <2>2 DEF DriverTypes, IrqTypes, Pointers, Points, Waits
    <2> QED
        BY <1>3, <2>2, <2>3, <2>5, <2>6 DEF Calm, Writing, Reads, Whole, Works, Waits
<1>5. CASE ~(xfer.got + 1 < Msg(2).len)
    <2>1. Over("ok", i2c.done) /\ i2c.done \in BOOLEAN
        BY <1>5 DEF CombinedByte, DriverTypes
    <2> QED
        BY <1>1, <1>3, <2>1, OverKeeps
<1> QED
    BY <1>4, <1>5

LEMMA CombinedFailsKeeps ==
    ASSUME I2cInv, CombinedNak \/ CombinedTimeout
    PROVE  I2cInv'
<1>1. i2c.done \in BOOLEAN /\ BusTypes /\ late' = late
    BY DEF I2cInv, I2cTypes, DriverTypes, CombinedNak, CombinedTimeout
<1>2. BusTypes'
    BY <1>1 DEF CombinedNak, CombinedTimeout, BusTypes
<1>3. \E res \in {"nak", "timeout"} : Over(res, i2c.done)
    BY DEF CombinedNak, CombinedTimeout
<1> QED
    BY <1>1, <1>2, <1>3, OverKeeps

LEMMA XferMsgKeeps == ASSUME I2cInv, XferMsg PROVE I2cInv'
<1> USE DEF I2cInv, I2cTypes
<1> DEFINE m == Msg(xfer.n)
           first == IF m.rd THEN 0 ELSE Smaller(m.len, FifoChunk - 1)
           ends == IF m.rd THEN ReadBits ELSE WriteBits
           bytes == IF m.rd THEN m.len ELSE 0
<1>1. /\ xfer.pc = "start" /\ xfer' = [xfer EXCEPT !.pc = "poll"] /\ i2cIrq' = i2cIrq
      /\ late' = late
      /\ i2c' = [msg |-> xfer.n, tx |-> first, ptr |-> 0, error |-> "ok", done |-> FALSE]
      /\ bus' = [bus EXCEPT !.mask = ends, !.out = @ + 1 + first, !.toread = @ + bytes]
    BY DEF XferMsg, Reinit
<1>2. m.len \in Nat /\ m.len > 0 /\ m.rd \in BOOLEAN /\ m = Cur
    BY <1>1, CurIs DEF Cur
<1>3. first \in Nat /\ first <= m.len
    <2>1. FifoChunk - 1 \in Nat
        BY I2cConstants
    <2>2. CASE m.rd
        BY <1>2, <2>2
    <2>3. CASE ~m.rd
        <3>1. first = Smaller(m.len, FifoChunk - 1)
            BY <2>3
        <3> HIDE DEF m, first
        <3> QED
            BY <1>2, <2>1, <3>1, SmallerIs
    <2> QED
        BY <2>2, <2>3
<1>4. ends \in {ReadBits, WriteBits} /\ bytes \in Nat /\ bytes = (IF m.rd THEN m.len ELSE 0)
    BY <1>2
<1>5. Cur' = m /\ xfer.n \in 1..Len(xfer.msgs) /\ xfer'.n = xfer.n /\ xfer'.msgs = xfer.msgs
    BY <1>1 DEF Cur, Msg, XferTypes
<1> HIDE DEF m, first, ends, bytes
<1>6. /\ DriverTypes' /\ i2c'.msg = xfer.n /\ i2c'.tx = first /\ i2c'.ptr = 0 /\ ~i2c'.done
    BY <1>1, <1>3, <1>5 DEF DriverTypes
<1>7. bus.out + 1 + first \in Nat /\ bus.out + 1 + first # 0 /\ bus.toread + bytes \in Nat
    BY <1>3, <1>4 DEF BusTypes
<1>8. /\ BusTypes' /\ bus'.out # 0 /\ bus'.toread = bus.toread + bytes
      /\ bus'.rx = bus.rx /\ bus'.st = bus.st
    BY <1>1, <1>4, <1>7 DEF BusTypes
<1>9. XferTypes' /\ IrqTypes' /\ xfer'.pc = "poll"
    BY <1>1 DEF XferTypes, IrqTypes
<1>10. Pointers'
    <2>1. Points(i2c.msg)'
        BY <1>5, <1>6, <1>9 DEF Points, Waits
    <2>2. Points(i2cIrq.msg)'
        BY <1>1, <1>5, <1>9 DEF Pointers, Points, Waits
    <2> QED
        BY <1>5, <1>6, <2>1, <2>2 DEF Pointers
<1>11. ~late => bus.rx = 0 /\ bus.toread = 0 /\ bus.st \subseteq {"RXDONE"}
    BY <1>1 DEF Calm, Still
<1>12. Calm' /\ Whole' /\ Bytes'
    BY <1>6, <1>9 DEF Calm, Whole, Bytes
<1>13. Writing'
    BY <1>1, <1>2, <1>3, <1>4, <1>5, <1>6, <1>8, <1>11 DEF Writing, Works
<1>14. Reads'
    BY <1>1, <1>2, <1>4, <1>5, <1>6, <1>8, <1>11 DEF Reads, Works
<1> QED
    BY <1>6, <1>8, <1>9, <1>10, <1>12, <1>13, <1>14

(* The poll. *)
LEMMA TryWaitKeeps == ASSUME I2cInv, TryWait PROVE I2cInv'
<1> USE DEF I2cInv, I2cTypes
<1>1. bus' = bus /\ late' = late /\ Waits /\ BusTypes'
    BY DEF TryWait, Waits, BusTypes
<1>2. CASE ~i2c.done
    <2>1. xfer' = [xfer EXCEPT !.pc = "poll"] /\ UNCHANGED <<i2c, i2cIrq>>
        BY <1>2 DEF TryWait
    <2>2. XferTypes' /\ xfer'.pc = "poll" /\ xfer'.msgs = xfer.msgs /\ xfer'.n = xfer.n
        BY <1>1, <2>1 DEF XferTypes, Waits
    <2> QED
        BY <1>1, <2>1, <2>2
        DEF DriverTypes, IrqTypes, Pointers, Points, Calm, Still, Writing, Reads, Whole, Bytes,
            Works, Waits, Failed, Cur, Msg
<1>3. CASE i2c.done /\ i2c.error = "ok" /\ xfer.n < Len(xfer.msgs)
    <2>1. /\ xfer' = [xfer EXCEPT !.pc = "start", !.n = @ + 1]
          /\ i2c' = [i2c EXCEPT !.done = FALSE] /\ i2cIrq' = i2cIrq
        BY <1>3 DEF TryWait
    <2>2. xfer.n + 1 \in Nat /\ xfer.n + 1 \in 1..Len(xfer.msgs)
        BY <1>1, <1>3 DEF XferTypes, Waits
    <2>3. XferTypes' /\ xfer'.pc = "start" /\ xfer'.msgs = xfer.msgs
        BY <2>1, <2>2 DEF XferTypes
    <2>4. DriverTypes' /\ i2c'.msg = i2c.msg /\ IrqTypes'
        BY <1>1, <2>1 DEF DriverTypes, IrqTypes
    <2>5. Pointers'
        BY <1>1, <2>1, <2>3, <2>4 DEF Pointers, Points, Waits
    <2>6. Calm'
        BY <1>1, <1>3 DEF Calm, Whole, Still
    <2> QED
        BY <1>1, <2>3, <2>4, <2>5, <2>6 DEF Writing, Reads, Whole, Bytes, Works, Waits
<1>4. CASE i2c.done /\ ~(i2c.error = "ok" /\ xfer.n < Len(xfer.msgs))
    <2>1. Over(i2c.error, FALSE) /\ i2c.error \in {"ok", "io", "nak", "timeout"}
        BY <1>4 DEF TryWait, DriverTypes
    <2> QED
        BY <1>1, <2>1, OverKeeps
<1> QED
    BY <1>2, <1>3, <1>4

LEMMA PollTimeoutKeeps == ASSUME I2cInv, PollTimeout PROVE I2cInv'
<1>1. BusTypes'
    BY ResetIs DEF PollTimeout, I2cInv, I2cTypes
<1>2. Over("timeout", i2c.done) /\ i2c.done \in BOOLEAN /\ late' = late
    BY DEF PollTimeout, I2cInv, I2cTypes, DriverTypes
<1> QED
    BY <1>1, <1>2, OverKeeps

LEMMA PollKeeps == ASSUME I2cInv, PollSees \/ PollService PROVE I2cInv'
<1> USE DEF I2cInv, I2cTypes
<1>1. /\ Waits /\ i2cIrq' = i2cIrq /\ late' = late
      /\ \E pc \in {"serve", "try"} : xfer' = [xfer EXCEPT !.pc = pc]
    BY DEF PollSees, PollService, Waits
<1>2. /\ XferTypes' /\ Waits' /\ ~(xfer'.pc \in {"combined", "start", "bytes"})
      /\ xfer'.n = xfer.n /\ xfer'.msgs = xfer.msgs
    BY <1>1 DEF XferTypes, Waits
<1>3. /\ DriverTypes' /\ BusTypes' /\ i2c'.msg = i2c.msg /\ Writing' /\ Reads' /\ Whole'
    <2>1. CASE PollSees
        BY <1>1, <1>2, <2>1
        DEF PollSees, DriverTypes, BusTypes, Writing, Reads, Whole, Still, Works, Failed, Cur, Msg
    <2>2. CASE PollService
        <3>1. Service(Cur, Cur) /\ Cur \in Messages /\ late' \in BOOLEAN
            BY <1>1, <2>2, CurIs DEF PollService, Cur, Waits, DriverTypes
        <3>2. DriverTypes' /\ BusTypes' /\ i2c'.msg = i2c.msg
            BY <3>1, ServiceTypes
        <3>3. CASE ~late
            BY <1>1, <1>2, <3>1, <3>2, <3>3, ServiceKeeps
        <3>4. CASE late
            BY <1>1, <3>2, <3>4 DEF Writing, Reads, Whole, Works
        <3> QED
            BY <3>2, <3>3, <3>4
    <2> QED
        BY <2>1, <2>2
<1>4. IrqTypes' /\ Pointers'
    BY <1>1, <1>2, <1>3 DEF IrqTypes, Pointers, Points
<1> QED
    BY <1>2, <1>3, <1>4 DEF Calm, Bytes

-----------------------------------------------------------------------------
(* The interrupt: with the message that i2c->msg still is it keeps what    *)
(* the poll keeps; with another the transfer is late.                      *)
LEMMA IrqWaitsKeeps ==
    ASSUME I2cInv, I2cIrqEvent \/ I2cIrqMsg
    PROVE  I2cInv'
<1> USE DEF I2cInv, I2cTypes
<1>1. UNCHANGED <<i2c, bus, xfer, late>>
    BY DEF I2cIrqEvent, I2cIrqMsg
<1>2. IrqTypes' /\ Points(i2cIrq.msg)'
    BY <1>1 DEF I2cIrqEvent, I2cIrqMsg, IrqTypes, DriverTypes, Pointers, Points, Waits
<1> QED
    BY <1>1, <1>2
    DEF DriverTypes, BusTypes, XferTypes, Pointers, Points, Calm, Still, Writing, Reads, Whole,
        Bytes, Works, Waits, Failed, Cur, Msg

LEMMA IrqServiceKeeps == ASSUME I2cInv, I2cIrqService PROVE I2cInv'
<1> USE DEF I2cInv, I2cTypes
<1>1. PICK m \in Found(i2cIrq.msg), c \in Found(i2c.msg) :
        /\ i2cIrq.msg = i2c.msg => m = c
        /\ Service(m, c)
    BY DEF I2cIrqService
<1>2. /\ i2cIrq' = [pc |-> "none", msg |-> Gone] /\ xfer' = xfer
      /\ late' = (late \/ i2cIrq.msg # i2c.msg \/ i2c.msg = Gone)
    BY DEF I2cIrqService
<1>3. m \in Messages /\ c \in Messages
    BY FoundIs DEF Pointers, DriverTypes, IrqTypes
<1>4. late' \in BOOLEAN
    BY <1>2 DEF DriverTypes
<1>5. DriverTypes' /\ BusTypes' /\ i2c'.msg = i2c.msg
    BY <1>1, <1>3, <1>4, ServiceTypes
<1>6. XferTypes' /\ IrqTypes' /\ Pointers'
    BY <1>2, <1>5 DEF XferTypes, IrqTypes, Pointers, Points, Gone, Waits
<1>7. CASE late'
    BY <1>5, <1>6, <1>7 DEF Calm, Writing, Reads, Whole, Bytes, Works
<1>8. CASE ~late'
    <2>1. ~late /\ i2cIrq.msg = i2c.msg /\ i2c.msg # Gone /\ m = c
        BY <1>1, <1>2, <1>8 DEF DriverTypes
    <2>2. ~(xfer'.pc \in {"combined", "bytes"})
        BY <1>2, <2>1 DEF Pointers, Points, Waits
    <2>3. CASE Waits
        <3>1. m = Cur /\ Service(Cur, Cur)
            BY <1>1, <2>1, <2>3 DEF Pointers, Found, Cur
        <3>2. Waits' /\ UNCHANGED <<xfer.n, xfer.msgs>>
            BY <1>2, <2>3 DEF Waits
        <3>3. Writing' /\ Reads' /\ Whole'
            BY <1>4, <2>1, <2>3, <3>1, <3>2, ServiceKeeps
        <3> QED
            BY <1>2, <1>5, <1>6, <2>2, <2>3, <3>3 DEF Calm, Bytes, Waits
    <2>4. CASE ~Waits
        <3>1. xfer.pc = "start"
            BY <2>1, <2>4 DEF Pointers, Points
        <3>2. Still'
            BY <1>1, <1>3, <1>4, <2>1, <3>1, ServiceCalm DEF Calm
        <3> QED
            BY <1>2, <1>5, <1>6, <3>1, <3>2 DEF Calm, Writing, Reads, Whole, Bytes, Works, Waits
    <2> QED
        BY <2>3, <2>4
<1> QED
    BY <1>7, <1>8

(* The bus: it moves only for a message that is not done.                  *)
LEMMA BusKeeps == ASSUME I2cInv, BusStep PROVE I2cInv'
<1> USE DEF I2cInv, I2cTypes
<1>1. /\ UNCHANGED <<i2c, xfer, i2cIrq, late>>
      /\ bus.out > 0 \/ bus.toread > 0
    BY DEF BusStep, BusOut, BusIn, BusFails
<1>2. ~late => ~(xfer.pc \in {"combined", "start"})
    BY <1>1 DEF Calm, Still
<1>3. ~late => ~(Waits /\ i2c.done /\ i2c.error = "ok")
    BY <1>1 DEF Whole, Still
<1>4. /\ bus.out \in Nat /\ bus.toread \in Nat /\ bus.rx \in Nat /\ i2c.ptr \in Nat
      /\ xfer.got \in Nat /\ (Waits' <=> Waits) /\ Cur' = Cur /\ Msg(2)' = Msg(2)
      /\ (Waits => Cur.len \in Nat)
      /\ (xfer.pc = "bytes" => Msg(2).len \in Nat)
    BY <1>1, CurIs, SecondIs DEF BusTypes, DriverTypes, XferTypes, Waits, Cur, Msg
<1>5. BusTypes' /\ Writing' /\ Reads' /\ Bytes'
    <2>1. CASE BusOut
        <3>1. /\ BusTypes' /\ bus'.out = 0 /\ bus'.toread = bus.toread /\ bus'.rx = bus.rx
              /\ bus'.st = bus.st \cup IF bus.toread = 0 THEN {"XEN"} ELSE {}
            BY <2>1 DEF BusOut, BusTypes, Bits, WriteBits
        <3>2. (Works' <=> Works) /\ (Failed' <=> Failed) /\ bus.out > 0
            BY <1>1, <1>4, <2>1, <3>1 DEF BusOut, Works, Failed
        <3>3. Writing'
            BY <1>1, <1>4, <3>1, <3>2 DEF Writing
        <3>4. Reads'
            BY <1>1, <1>4, <3>1, <3>2 DEF Reads, Works
        <3>5. Bytes'
            BY <1>1, <1>4, <3>1, <3>2 DEF Bytes
        <3> QED
            BY <3>1, <3>3, <3>4, <3>5
    <2>2. CASE BusIn
        <3>1. bus.toread - 1 \in Nat /\ bus.rx + 1 \in Nat /\ bus.out = 0 /\ bus.toread > 0
            BY <1>4, <2>2 DEF BusIn
        <3>2. /\ BusTypes' /\ bus'.out = bus.out /\ bus'.toread = bus.toread - 1
              /\ bus'.rx = bus.rx + 1
              /\ bus'.st = bus.st \cup IF bus.toread = 1 THEN {"RXDONE"} ELSE {}
            BY <2>2, <3>1 DEF BusIn, BusTypes, Bits, ReadBits
        <3>3. (Works' <=> Works) /\ (Failed' <=> Failed)
            BY <1>1, <1>4, <3>2 DEF Works, Failed
        <3>4. Writing'
            BY <1>1, <1>4, <3>1, <3>2, <3>3 DEF Writing
        <3>5. Reads'
            BY <1>1, <1>4, <3>1, <3>2, <3>3 DEF Reads, Works
        <3>6. Bytes'
            BY <1>1, <1>4, <3>1, <3>2, <3>3 DEF Bytes
        <3> QED
            BY <3>2, <3>4, <3>5, <3>6
    <2>3. CASE BusFails
        <3>1. PICK bit \in {"MTN", "ERROR"} :
                bus' = [bus EXCEPT !.out = 0, !.toread = 0, !.st = @ \cup {bit}]
            BY <2>3 DEF BusFails
        <3>2. bus.st \cup {bit} \in SUBSET Bits
            BY DEF BusTypes, Bits, ReadBits
        <3>3. BusTypes' /\ bus'.st = bus.st \cup {bit}
            BY <3>1, <3>2 DEF BusTypes
        <3>4. Failed'
            BY <3>3 DEF Failed
        <3> QED
            BY <3>3, <3>4 DEF Writing, Reads, Works, Bytes
    <2> QED
        BY <2>1, <2>2, <2>3 DEF BusStep
<1>6. DriverTypes' /\ XferTypes' /\ IrqTypes' /\ Pointers'
    BY <1>1 DEF DriverTypes, XferTypes, IrqTypes, Pointers, Points, Waits
<1> QED
    BY <1>1, <1>2, <1>3, <1>5, <1>6 DEF Calm, Whole, Waits

-----------------------------------------------------------------------------
(* The invariant of a transfer: what a message that is not done still has  *)
(* to come, what one that is done has, and the calm between two -- as long *)
(* as no handler serves a message that is no longer the current one.       *)
THEOREM I2cInvariance == I2cSpec => []I2cInv
<1>1. I2cInv /\ UNCHANGED i2cVars => I2cInv'
    BY DEF i2cVars, I2cInv, I2cTypes, DriverTypes, BusTypes, XferTypes, IrqTypes, Pointers, Points,
           Calm, Still, Writing, Reads, Whole, Bytes, Works, Waits, Failed, Cur, Msg
<1>2. I2cInv /\ I2cNext => I2cInv'
    BY DoXferKeeps, XferCombinedKeeps, CombinedByteKeeps, CombinedFailsKeeps, XferMsgKeeps,
       PollKeeps, TryWaitKeeps, PollTimeoutKeeps, IrqWaitsKeeps, IrqServiceKeeps, BusKeeps
    DEF I2cNext
<1> QED
    BY I2cStart, <1>1, <1>2, PTL DEF I2cSpec

(* A message never waits for nothing: while it is not done the controller  *)
(* has something to send, to receive or to tell the poll, and while a      *)
(* combined read has bytes to get they come                                *)
(* (apple_s5l8940x_i2c_xfer_msg, apple_s5l8940x_i2c_irq,                   *)
(* apple_s5l8940x_i2c_xfer_combined); unless a handler served late.        *)
THEOREM I2cNeverStalls == I2cSpec => []NeverStalls
<1>1. I2cInv => NeverStalls
    <2> SUFFICES ASSUME I2cInv, ~late PROVE NeverStalls
        BY DEF NeverStalls
    <2> USE DEF I2cInv, I2cTypes
    <2>1. bus.out \in Nat /\ bus.toread \in Nat /\ bus.rx \in Nat
        BY DEF BusTypes
    <2>2. ASSUME xfer.pc \in {"poll", "try"}, ~i2c.done
          PROVE  bus.out > 0 \/ bus.toread > 0 \/ bus.st # {}
        <3>1. Failed \/ Works
            BY <2>2 DEF Works, Waits
        <3>2. Cur.rd \in BOOLEAN /\ Cur.len \in Nat /\ Cur.len > 0
            BY <2>2, CurIs
        <3>3. CASE Failed
            BY <3>3 DEF Failed
        <3>4. CASE Works /\ Cur.rd
            BY <2>1, <3>2, <3>4 DEF Reads
        <3>5. CASE Works /\ ~Cur.rd
            BY <2>1, <3>5 DEF Writing
        <3> QED
            BY <3>1, <3>2, <3>3, <3>4, <3>5
    <2>3. ASSUME xfer.pc = "bytes"
          PROVE  bus.out > 0 \/ bus.toread > 0 \/ bus.rx > 0 \/ bus.st \cap {"MTN", "ERROR"} # {}
        <3>1. Msg(2).len \in Nat /\ xfer.got \in Nat
            BY <2>3, SecondIs DEF XferTypes
        <3> QED
            BY <2>1, <2>3, <3>1 DEF Bytes, Failed
    <2> QED
        BY <2>2, <2>3 DEF NeverStalls
<1> QED
    BY I2cInvariance, <1>1, PTL

(* A message that ends well has all its bytes in its own buffer, or out of *)
(* it, whoever of the caller and the interrupt services it; unless a       *)
(* handler served late.                                                    *)
THEOREM I2cDoneIsWhole == I2cSpec => DoneIsWhole
<1> DEFINE Taken ==
        (xfer.pc \in {"poll", "try"} /\ i2c.done /\ ~i2c'.done /\ i2c.error = "ok" /\ ~late)
          => IF Msg(xfer.n).rd THEN i2c.ptr = Msg(xfer.n).len /\ bus.toread + bus.rx = 0
             ELSE i2c.tx = Msg(xfer.n).len /\ bus.out = 0
<1>1. I2cInv => [Taken]_i2cVars
    BY DEF I2cInv, Whole, Still, Waits, Cur
<1> QED
    BY I2cInvariance, <1>1, PTL DEF DoneIsWhole

(* Every field of a transfer keeps its type, whatever a late handler does: *)
(* offsets below zero, a mask of the wrong message or an unknown error     *)
(* never come up (apple_s5l8940x_i2c_irq, apple_s5l8940x_i2c_xfer_msg).    *)
THEOREM I2cTypeCorrect == I2cSpec => []I2cTypeOK
<1>1. I2cInv => I2cTypeOK
    BY DEF I2cInv, I2cTypes, DriverTypes, BusTypes, XferTypes, IrqTypes, Bits, I2cTypeOK
<1> QED
    BY I2cInvariance, <1>1, PTL

(***************************************************************************)
(* SgxFbCopy: the bands of fbcon's moves are exact.  A band is no longer   *)
(* than the distance, so a job never reads what it writes; and it lies     *)
(* next to the strips that are moved, on the side from which their sources *)
(* are taken, so none of what it reads is written.                         *)
(***************************************************************************)
(* The direction the bands follow, the distance and the length along it.   *)
Vertical(m) == m.dy # m.sy
Gap(m) == IF Vertical(m) THEN Distance(m.dy, m.sy) ELSE Distance(m.dx, m.sx)
Length(m) == IF Vertical(m) THEN m.h ELSE m.w
Backwards(m) == (m.dy # m.sy /\ m.dy > m.sy) \/ (m.dy = m.sy /\ m.dx > m.sx)

(* A rectangle whose pixels from lo to hi along the direction are moved.   *)
Origin(m, p) == <<p[1] - m.dx + m.sx, p[2] - m.dy + m.sy>>
Along(m, p) == IF Vertical(m) THEN p[2] - m.dy ELSE p[1] - m.dx
InStrip(m, p, lo, hi) ==
    In(p, m.dx, m.dy, m.w, m.h) /\ lo <= Along(m, p) /\ Along(m, p) < hi
Partly(m, lo, hi) ==
    [p \in Pixels |-> IF InStrip(m, p, lo, hi) THEN Origin(m, p) ELSE p]

First == [p \in Pixels |-> p]

(* What is moved after n bands. *)
Low(m, n) == IF Backwards(m) THEN (Bands(m) - n) * Gap(m) ELSE 0
High(m, n) == IF Backwards(m) THEN Length(m) ELSE Least(n * Gap(m), Length(m))

FbInv ==
    /\ move \in Moves /\ end \in {"no", "done", "late"}
    /\ end = "no" => /\ band \in 0..Bands(move) - 1
                     /\ fb = IF OneJob(move) THEN First
                             ELSE Partly(move, Low(move, band), High(move, band))
                     /\ band = 0 => fb = First
    /\ end = "done" => fb = Moved(move, First)

(* Numbers. *)
LEMMA Cover ==
    ASSUME NEW long \in Nat \ {0}, NEW d \in Nat \ {0}, NEW b, b = (long + d - 1) \div d
    PROVE  b \in Nat \ {0} /\ b * d >= long /\ (b - 1) * d < long
  <1>1. b \in Int BY SMT
  <1>2. b * d <= long + d - 1 BY SMT
  <1>3. long + d - 1 < (b + 1) * d BY SMT
  <1>4. (b + 1) * d = b * d + d BY <1>1, SMT
  <1>5. (b - 1) * d = b * d - d BY <1>1, SMT
  <1>6. b >= 1
    <2> SUFFICES ASSUME b <= 0 PROVE FALSE BY <1>1
    <2>1. b * d <= 0 BY <1>1, SMT
    <2> QED BY <1>3, <1>4, <2>1, <1>1
  <1> QED BY <1>1, <1>2, <1>3, <1>4, <1>5, <1>6

LEMMA Times ==
    ASSUME NEW a \in Int, NEW b \in Int, NEW d \in Nat, a <= b
    PROVE  a * d \in Int /\ a * d <= b * d /\ (a + 1) * d = a * d + d
  BY SMT

LEMMA MoveTypes ==
    ASSUME NEW m \in Moves
    PROVE  /\ {m.sx, m.dx, m.sy, m.dy} \subseteq Nat /\ m.w \in Nat \ {0} /\ m.h \in Nat \ {0}
           /\ m.sx + m.w <= FbW /\ m.dx + m.w <= FbW /\ m.sy + m.h <= FbH /\ m.dy + m.h <= FbH
           /\ Length(m) \in Nat \ {0} /\ Gap(m) \in Nat \ {0}
           /\ FbW \in Nat /\ FbH \in Nat
  <1>1. FbW \in Nat /\ FbH \in Nat BY FbConstants
  <1>2. /\ m.sx \in 0..FbW - 1 /\ m.dx \in 0..FbW - 1 /\ m.w \in 1..FbW
        /\ m.sy \in 0..FbH - 1 /\ m.dy \in 0..FbH - 1 /\ m.h \in 1..FbH
        /\ m.sx + m.w <= FbW /\ m.dx + m.w <= FbW /\ m.sy + m.h <= FbH /\ m.dy + m.h <= FbH
        /\ <<m.sx, m.sy>> # <<m.dx, m.dy>>
    BY DEF Moves
  <1>3. /\ {m.sx, m.dx, m.sy, m.dy} \subseteq Nat /\ m.w \in Nat \ {0} /\ m.h \in Nat \ {0}
    BY <1>1, <1>2
  <1>4. Length(m) \in Nat \ {0} BY <1>3 DEF Length
  <1>5. Gap(m) \in Nat \ {0} BY <1>2, <1>3 DEF Gap, Vertical, Distance
  <1> QED BY <1>1, <1>2, <1>3, <1>4, <1>5

LEMMA BandCount ==
    ASSUME NEW m \in Moves
    PROVE  /\ Bands(m) \in Nat \ {0}
           /\ OneJob(m) => Bands(m) = 1
           /\ ~OneJob(m) => /\ Bands(m) * Gap(m) >= Length(m)
                            /\ (Bands(m) - 1) * Gap(m) < Length(m)
  <1>1. Length(m) \in Nat \ {0} /\ Gap(m) \in Nat \ {0} BY MoveTypes
  <1>2. Bands(m) = IF OneJob(m) THEN 1 ELSE (Length(m) + Gap(m) - 1) \div Gap(m)
    BY DEF Bands, Length, Gap, Vertical
  <1>3. CASE OneJob(m) BY <1>2, <1>3
  <1>4. CASE ~OneJob(m)
    <2>1. Bands(m) = (Length(m) + Gap(m) - 1) \div Gap(m) BY <1>2, <1>4
    <2>2. /\ Bands(m) \in Nat \ {0} /\ Bands(m) * Gap(m) >= Length(m)
          /\ (Bands(m) - 1) * Gap(m) < Length(m)
      BY <1>1, <2>1, Cover
    <2> QED BY <1>4, <2>2
  <1> QED BY <1>3, <1>4

(* A band is a strip no longer than the distance, so it does not overlap   *)
(* what it moves.                                                          *)
LEMMA BandIsStrip ==
    ASSUME NEW m \in Moves, ~OneJob(m), NEW i \in Nat, NEW o \in Nat, o = Which(m, i) * Gap(m),
           o < Length(m), NEW len, len = Least(Gap(m), Length(m) - o)
    PROVE  LET b == Band(m, i)
           IN  /\ len \in Nat \ {0} /\ len <= Gap(m) /\ o + len <= Length(m)
               /\ ~Overlaps(b)
               /\ \A p \in Pixels : /\ In(p, b.dx, b.dy, b.w, b.h) <=> InStrip(m, p, o, o + len)
                                    /\ <<p[1] - b.dx + b.sx, p[2] - b.dy + b.sy>> = Origin(m, p)
  <1> DEFINE b == Band(m, i)
  <1>1. /\ {m.sx, m.dx, m.sy, m.dy} \subseteq Nat /\ m.w \in Nat \ {0} /\ m.h \in Nat \ {0}
        /\ Length(m) \in Nat \ {0} /\ Gap(m) \in Nat \ {0}
    BY MoveTypes
  <1>2. len \in Nat \ {0} /\ len <= Gap(m) /\ o + len <= Length(m)
    BY <1>1 DEF Least
  <1>3. b = IF Vertical(m) THEN [m EXCEPT !.sy = @ + o, !.dy = @ + o, !.h = Least(Gap(m), @ - o)]
            ELSE [m EXCEPT !.sx = @ + o, !.dx = @ + o, !.w = Least(Gap(m), @ - o)]
    BY DEF Band, Gap, Vertical
  <1>4. CASE Vertical(m)
    <2>1. /\ b.sy = m.sy + o /\ b.dy = m.dy + o /\ b.h = len
          /\ b.sx = m.sx /\ b.dx = m.dx /\ b.w = m.w
      BY <1>3, <1>4 DEF Moves, Length
    <2> HIDE DEF b
    <2>2. ~Overlaps(b)
      <3>1. Gap(m) = Distance(m.dy, m.sy) BY <1>4 DEF Gap
      <3> QED BY <1>1, <1>2, <2>1, <3>1 DEF Overlaps, Distance
    <2>3. ASSUME NEW p \in Pixels
          PROVE  /\ In(p, b.dx, b.dy, b.w, b.h) <=> InStrip(m, p, o, o + len)
                 /\ <<p[1] - b.dx + b.sx, p[2] - b.dy + b.sy>> = Origin(m, p)
      <3>1. p[1] \in Int /\ p[2] \in Int BY DEF Pixels
      <3>2. Along(m, p) = p[2] - m.dy BY <1>4 DEF Along
      <3>3. Length(m) = m.h BY <1>4 DEF Length
      <3> QED BY <1>1, <1>2, <2>1, <3>1, <3>2, <3>3 DEF In, InStrip, Origin
    <2> QED BY <1>2, <2>2, <2>3 DEF b
  <1>5. CASE ~Vertical(m)
    <2>1. /\ b.sx = m.sx + o /\ b.dx = m.dx + o /\ b.w = len
          /\ b.sy = m.sy /\ b.dy = m.dy /\ b.h = m.h
      BY <1>3, <1>5 DEF Moves, Length
    <2> HIDE DEF b
    <2>2. ~Overlaps(b)
      <3>1. Gap(m) = Distance(m.dx, m.sx) BY <1>5 DEF Gap
      <3> QED BY <1>1, <1>2, <2>1, <3>1 DEF Overlaps, Distance
    <2>3. ASSUME NEW p \in Pixels
          PROVE  /\ In(p, b.dx, b.dy, b.w, b.h) <=> InStrip(m, p, o, o + len)
                 /\ <<p[1] - b.dx + b.sx, p[2] - b.dy + b.sy>> = Origin(m, p)
      <3>1. p[1] \in Int /\ p[2] \in Int BY DEF Pixels
      <3>2. Along(m, p) = p[1] - m.dx BY <1>5 DEF Along
      <3>3. Length(m) = m.w BY <1>5 DEF Length
      <3> QED BY <1>1, <1>2, <2>1, <3>1, <3>2, <3>3 DEF In, InStrip, Origin
    <2> QED BY <1>2, <2>2, <2>3 DEF b
  <1> QED BY <1>4, <1>5
(* The strips of what is moved grow by the next band's, whose source no    *)
(* band has written.                                                       *)
LEMMA StripGrows ==
    ASSUME NEW m \in Moves, ~OneJob(m), NEW i \in Nat, NEW o \in Nat, o = Which(m, i) * Gap(m),
           o < Length(m), NEW len, len = Least(Gap(m), Length(m) - o),
           NEW lo \in Nat, NEW hi \in Nat, hi <= Length(m),
           IF Backwards(m) THEN lo >= hi \/ lo = o + len ELSE lo = 0 /\ hi = o,
           NEW newLo \in Nat, NEW newHi \in Nat,
           IF Backwards(m) THEN newLo = o /\ newHi = (IF lo >= hi THEN o + len ELSE hi)
           ELSE newLo = 0 /\ newHi = o + len
    PROVE  Job(Band(m, i), Partly(m, lo, hi)) = Partly(m, newLo, newHi)
  <1> DEFINE b == Band(m, i)
             was == Partly(m, lo, hi)
  <1>1. /\ len \in Nat \ {0} /\ len <= Gap(m) /\ o + len <= Length(m) /\ ~Overlaps(b)
        /\ \A p \in Pixels : /\ In(p, b.dx, b.dy, b.w, b.h) <=> InStrip(m, p, o, o + len)
                             /\ <<p[1] - b.dx + b.sx, p[2] - b.dy + b.sy>> = Origin(m, p)
    BY BandIsStrip
  <1>2. Job(b, was) = Moved(b, was) BY <1>1 DEF Job
  <1>3. Moved(b, was) = [p \in Pixels |-> IF InStrip(m, p, o, o + len)
                                          THEN was[Origin(m, p)] ELSE was[p]]
    BY <1>1 DEF Moved
  <1> HIDE DEF b
  <1>4. /\ {m.sx, m.dx, m.sy, m.dy} \subseteq Nat /\ m.w \in Nat \ {0} /\ m.h \in Nat \ {0}
        /\ m.sx + m.w <= FbW /\ m.dx + m.w <= FbW /\ m.sy + m.h <= FbH /\ m.dy + m.h <= FbH
        /\ Length(m) \in Nat \ {0} /\ Gap(m) \in Nat \ {0} /\ FbW \in Nat /\ FbH \in Nat
    BY MoveTypes
  <1>5. ASSUME NEW p \in Pixels, InStrip(m, p, o, o + len)
        PROVE  was[Origin(m, p)] = Origin(m, p)
    <2> DEFINE s == Origin(m, p)
    <2>1. p[1] \in Int /\ p[2] \in Int BY DEF Pixels
    <2>2. s[1] = p[1] - m.dx + m.sx /\ s[2] = p[2] - m.dy + m.sy BY DEF Origin
    <2>3. s[1] \in 0..FbW - 1 /\ s[2] \in 0..FbH - 1
      BY <1>4, <1>5, <2>1, <2>2 DEF InStrip, In
    <2>4. s \in Pixels BY <2>3 DEF Origin, Pixels
    <2>5. Along(m, p) \in Int /\ o <= Along(m, p) /\ Along(m, p) < o + len
      BY <1>4, <1>5, <2>1 DEF InStrip, Along
    <2>6. Along(m, s) = IF Backwards(m) THEN Along(m, p) - Gap(m) ELSE Along(m, p) + Gap(m)
      BY <1>4, <2>1, <2>2 DEF Along, Gap, Vertical, Backwards, Distance
    <2> HIDE DEF s
    <2>7. ~InStrip(m, s, lo, hi)
      <3>1. CASE Backwards(m)
        <4>1. Along(m, s) < o + len /\ Along(m, s) \in Int BY <1>1, <1>4, <2>5, <2>6, <3>1
        <4>2. lo >= hi \/ lo = o + len BY <3>1
        <4> QED BY <1>1, <4>1, <4>2 DEF InStrip
      <3>2. CASE ~Backwards(m)
        <4>1. Along(m, s) >= o /\ Along(m, s) \in Int BY <1>1, <1>4, <2>5, <2>6, <3>2
        <4>2. hi = o BY <3>2
        <4> QED BY <4>1, <4>2 DEF InStrip
      <3> QED BY <3>1, <3>2
    <2> QED BY <2>4, <2>7 DEF Partly, s
  <1>6. ASSUME NEW p \in Pixels
        PROVE  (IF InStrip(m, p, o, o + len) THEN Origin(m, p) ELSE was[p])
                    = (IF InStrip(m, p, newLo, newHi) THEN Origin(m, p) ELSE p)
    <2>1. p[1] \in Int /\ p[2] \in Int BY DEF Pixels
    <2>2. Along(m, p) \in Int BY <1>4, <2>1 DEF Along
    <2>3. was[p] = IF InStrip(m, p, lo, hi) THEN Origin(m, p) ELSE p BY DEF Partly
    <2>4. CASE Backwards(m)
      <3>1. lo >= hi \/ lo = o + len BY <2>4
      <3>2. newLo = o /\ newHi = (IF lo >= hi THEN o + len ELSE hi) BY <2>4
      <3>3. InStrip(m, p, newLo, newHi) <=> InStrip(m, p, o, o + len) \/ InStrip(m, p, lo, hi)
        BY <1>1, <2>2, <3>1, <3>2 DEF InStrip
      <3> QED BY <2>3, <3>3
    <2>5. CASE ~Backwards(m)
      <3>1. lo = 0 /\ hi = o /\ newLo = 0 /\ newHi = o + len BY <2>5
      <3>2. InStrip(m, p, newLo, newHi) <=> InStrip(m, p, o, o + len) \/ InStrip(m, p, lo, hi)
        BY <1>1, <2>2, <3>1 DEF InStrip
      <3> QED BY <2>3, <3>2
    <2> QED BY <2>4, <2>5
  <1> HIDE DEF was
  <1>7. Moved(b, was) = Partly(m, newLo, newHi)
    BY <1>3, <1>5, <1>6 DEF Partly
  <1> QED BY <1>2, <1>7 DEF b, was
(* A rectangle with all of its strips moved, and with none. *)
LEMMA StripOfAll ==
    ASSUME NEW m \in Moves, NEW lo \in Int, lo <= 0, NEW hi \in Int, hi >= Length(m)
    PROVE  Partly(m, lo, hi) = Moved(m, First)
  <1>1. /\ {m.sx, m.dx, m.sy, m.dy} \subseteq Nat /\ m.w \in Nat \ {0} /\ m.h \in Nat \ {0}
        /\ m.sx + m.w <= FbW /\ m.dx + m.w <= FbW /\ m.sy + m.h <= FbH /\ m.dy + m.h <= FbH
        /\ FbW \in Nat /\ FbH \in Nat
    BY MoveTypes
  <1>2. ASSUME NEW p \in Pixels
        PROVE  (IF InStrip(m, p, lo, hi) THEN Origin(m, p) ELSE p)
                  = (IF In(p, m.dx, m.dy, m.w, m.h) THEN First[Origin(m, p)] ELSE First[p])
    <2>1. p[1] \in Int /\ p[2] \in Int BY DEF Pixels
    <2>2. InStrip(m, p, lo, hi) <=> In(p, m.dx, m.dy, m.w, m.h)
      BY <1>1, <2>1 DEF InStrip, In, Along, Length
    <2>3. In(p, m.dx, m.dy, m.w, m.h) => Origin(m, p) \in Pixels
      <3> SUFFICES ASSUME In(p, m.dx, m.dy, m.w, m.h) PROVE Origin(m, p) \in Pixels
        OBVIOUS
      <3>1. /\ p[1] - m.dx + m.sx \in 0..FbW - 1
            /\ p[2] - m.dy + m.sy \in 0..FbH - 1
        BY <1>1, <2>1 DEF In
      <3> QED BY <3>1 DEF Origin, Pixels
    <2>4. \A q \in Pixels : First[q] = q BY DEF First
    <2> QED BY <2>2, <2>3, <2>4
  <1>3. Moved(m, First) = [p \in Pixels |-> IF In(p, m.dx, m.dy, m.w, m.h)
                                            THEN First[Origin(m, p)] ELSE First[p]]
    BY DEF Moved, Origin
  <1> QED BY <1>2, <1>3 DEF Partly

LEMMA StripOfNone ==
    ASSUME NEW m \in Moves, NEW lo \in Int, NEW hi \in Int, hi <= lo
    PROVE  Partly(m, lo, hi) = First
  <1>1. ASSUME NEW p \in Pixels PROVE ~InStrip(m, p, lo, hi)
    <2>1. p[1] \in Int /\ p[2] \in Int BY DEF Pixels
    <2>2. Along(m, p) \in Int BY <2>1, MoveTypes DEF Along
    <2> QED BY <2>2 DEF InStrip
  <1> QED BY <1>1 DEF Partly, First

(* The next band follows the strips that are moved. *)
LEMMA BandFollows ==
    ASSUME NEW m \in Moves, ~OneJob(m), NEW n \in 0..Bands(m) - 1
    PROVE  /\ Job(Band(m, n), Partly(m, Low(m, n), High(m, n)))
                  = Partly(m, Low(m, n + 1), High(m, n + 1))
           /\ n = 0 => Low(m, n) >= High(m, n)
           /\ n + 1 = Bands(m) => Low(m, n + 1) <= 0 /\ High(m, n + 1) >= Length(m)
           /\ {Low(m, n), High(m, n), Low(m, n + 1), High(m, n + 1)} \subseteq Nat
  <1> DEFINE d == Gap(m)
             long == Length(m)
             count == Bands(m)
             w == Which(m, n)
             o == w * d
             len == Least(d, long - o)
  <1>1. /\ d \in Nat \ {0} /\ long \in Nat \ {0} /\ count \in Nat \ {0}
        /\ count * d >= long /\ (count - 1) * d < long
    BY MoveTypes, BandCount
  <1>2. w = IF Backwards(m) THEN count - 1 - n ELSE n BY DEF Which, Backwards
  <1>3. w \in 0..count - 1 BY <1>1, <1>2
  <1> HIDE DEF d, long, count, w
  <1>4. o \in Nat /\ o <= (count - 1) * d /\ (w + 1) * d = o + d
    BY <1>1, <1>3, Times
  <1>5. o < long BY <1>1, <1>4, Times
  <1> HIDE DEF o
  <1>6. len \in Nat \ {0} /\ len <= d /\ o + len <= long
        /\ o + len = Least(o + d, long)
    BY <1>1, <1>4, <1>5 DEF Least
  <1>7. CASE Backwards(m)
    <2>1. /\ Low(m, n) = o + d /\ Low(m, n + 1) = o
          /\ High(m, n) = long /\ High(m, n + 1) = long
      <3>1. count - n = w + 1 /\ count - (n + 1) = w BY <1>1, <1>2, <1>7
      <3> QED BY <1>4, <1>7, <3>1 DEF Low, High, o, d, count, long
    <2>2. n = 0 => Low(m, n) >= High(m, n)
      <3>1. n = 0 => w + 1 = count BY <1>1, <1>2, <1>7
      <3> QED BY <1>1, <1>4, <2>1, <3>1
    <2>3. n + 1 = count => o = 0
      <3>1. n + 1 = count => w = 0 BY <1>1, <1>2, <1>7
      <3> QED BY <1>1, <3>1 DEF o
    <2>4. o + d >= long \/ o + d = o + len BY <1>1, <1>4, <1>5 DEF Least
    <2>5. long = IF o + d >= long THEN o + len ELSE long BY <1>1, <1>4, <1>5 DEF Least
    <2>6. Job(Band(m, n), Partly(m, o + d, long)) = Partly(m, o, long)
      <3>1. /\ n \in Nat /\ o \in Nat /\ o = Which(m, n) * Gap(m) /\ o < Length(m)
            /\ len = Least(Gap(m), Length(m) - o) /\ o + d \in Nat /\ long \in Nat
            /\ long <= Length(m)
        BY <1>1, <1>4, <1>5 DEF o, w, d, long
      <3> HIDE DEF len
      <3> QED BY <1>7, <2>4, <2>5, <3>1, StripGrows
    <2>7. o + d \in Nat BY <1>1, <1>4
    <2> QED BY <1>1, <1>4, <2>1, <2>2, <2>3, <2>6, <2>7 DEF count, long
  <1>8. CASE ~Backwards(m)
    <2>1. w = n BY <1>2, <1>8
    <2>2. /\ Low(m, n) = 0 /\ Low(m, n + 1) = 0 /\ High(m, n) = o
          /\ High(m, n + 1) = o + len
      <3>1. Least(o, long) = o BY <1>1, <1>4, <1>5 DEF Least
      <3>2. High(m, n) = Least(n * d, long) /\ High(m, n + 1) = Least((n + 1) * d, long)
        BY <1>8 DEF High, d, long
      <3>3. n * d = o /\ (n + 1) * d = o + d BY <1>4, <2>1 DEF o
      <3> QED BY <1>6, <1>8, <3>1, <3>2, <3>3 DEF Low
    <2>3. n = 0 => o = 0 BY <1>1, <2>1 DEF o
    <2>4. n + 1 = count => o + len >= long
      <3>1. n + 1 = count => (w + 1) * d = count * d BY <2>1
      <3>2. n + 1 = count => o + d >= long BY <1>1, <1>4, <3>1
      <3> QED BY <1>1, <1>4, <1>6, <3>2 DEF Least
    <2>5. Job(Band(m, n), Partly(m, 0, o)) = Partly(m, 0, o + len)
      <3>1. /\ n \in Nat /\ o \in Nat /\ o = Which(m, n) * Gap(m) /\ o < Length(m)
            /\ len = Least(Gap(m), Length(m) - o) /\ o + len \in Nat /\ o <= Length(m)
        BY <1>1, <1>4, <1>5, <1>6 DEF o, w, d, long
      <3> HIDE DEF len
      <3> QED BY <1>8, <3>1, StripGrows
    <2> HIDE DEF len
    <2> QED BY <1>1, <1>4, <1>6, <2>2, <2>3, <2>4, <2>5 DEF count, long
  <1> QED BY <1>7, <1>8

LEMMA InitFb == FbInit => FbInv
  <1> SUFFICES ASSUME FbInit PROVE FbInv OBVIOUS
  <1>1. move \in Moves /\ end = "no" /\ band = 0 /\ fb = First BY DEF FbInit, First
  <1>2. Bands(move) \in Nat \ {0} BY <1>1, BandCount
  <1>3. ~OneJob(move) => Partly(move, Low(move, 0), High(move, 0)) = First
    <2> SUFFICES ASSUME ~OneJob(move)
                 PROVE  Partly(move, Low(move, 0), High(move, 0)) = First
      OBVIOUS
    <2>1. 0 \in 0..Bands(move) - 1 BY <1>2
    <2>2. /\ Low(move, 0) >= High(move, 0)
          /\ {Low(move, 0), High(move, 0)} \subseteq Nat
      BY <1>1, <2>1, BandFollows
    <2> QED BY <1>1, <2>2, StripOfNone
  <1> QED BY <1>1, <1>2, <1>3 DEF FbInv

LEMMA NextFb == FbInv /\ [FbNext]_fbVars => FbInv'
  <1> SUFFICES ASSUME FbInv, [FbNext]_fbVars PROVE FbInv' OBVIOUS
  <1>1. CASE UNCHANGED fbVars BY <1>1 DEF fbVars, FbInv
  <1>2. CASE CpuCopies
    <2>1. /\ end = "no" /\ fb' = Moved(move, fb) /\ UNCHANGED <<move, band>>
          /\ end' = IF band = 0 THEN "done" ELSE "late"
      BY <1>2 DEF CpuCopies
    <2>2. move \in Moves /\ (band = 0 => fb = First) BY <2>1 DEF FbInv
    <2> QED BY <2>1, <2>2 DEF FbInv
  <1>3. CASE CopyBand
    <2>1. /\ end = "no" /\ fb' = Job(Band(move, band), fb) /\ band' = band + 1 /\ move' = move
          /\ end' = IF band + 1 = Bands(move) THEN "done" ELSE "no"
      BY <1>3 DEF CopyBand
    <2>2. /\ move \in Moves /\ band \in 0..Bands(move) - 1
          /\ fb = IF OneJob(move) THEN First
                  ELSE Partly(move, Low(move, band), High(move, band))
      BY <2>1 DEF FbInv
    <2>3. Bands(move) \in Nat \ {0} BY <2>2, BandCount
    <2>4. band + 1 # Bands(move) => band + 1 \in 0..Bands(move) - 1 BY <2>2, <2>3
    <2>5. CASE OneJob(move)
      <3>1. Bands(move) = 1 /\ band = 0 BY <2>2, <2>5, BandCount
      <3>2. Band(move, 0) = move BY <2>5 DEF Band
      <3>3. Job(move, First) = Moved(move, First) BY <2>5 DEF OneJob, Job
      <3> QED BY <2>1, <2>2, <2>5, <3>1, <3>2, <3>3 DEF FbInv
    <2>6. CASE ~OneJob(move)
      <3>1. /\ fb' = Partly(move, Low(move, band + 1), High(move, band + 1))
            /\ band + 1 = Bands(move) => /\ Low(move, band + 1) <= 0
                                         /\ High(move, band + 1) >= Length(move)
            /\ {Low(move, band + 1), High(move, band + 1)} \subseteq Nat
        BY <2>1, <2>2, <2>6, BandFollows
      <3>2. band + 1 = Bands(move) => fb' = Moved(move, First)
        BY <2>2, <3>1, StripOfAll
      <3>3. band + 1 # 0 BY <2>2
      <3> QED BY <2>1, <2>2, <2>4, <2>6, <3>1, <3>2, <3>3 DEF FbInv
    <2> QED BY <2>5, <2>6
  <1> QED BY <1>1, <1>2, <1>3 DEF FbNext

LEMMA FbInvariant == FbSpec => []FbInv
  BY InitFb, NextFb, PTL DEF FbSpec

(* A move that is done has moved every pixel of its rectangle and no other *)
(* (see MoveExact), for every framebuffer, every rectangle and every       *)
(* direction and distance: no band reads what another has written.         *)
THEOREM FbMoveExact == FbSpec => []MoveExact
  <1>1. FbInv => MoveExact BY DEF FbInv, MoveExact, First
  <1> QED BY <1>1, FbInvariant, PTL

(***************************************************************************)
(* The drivers together (MCDrivers): a behaviour of the composition is one *)
(* of each machine, which moves or rests.                                  *)
(***************************************************************************)
LEMMA MachinesStart ==
    MCInit => /\ ChargerInit /\ Aic1Init /\ SmpInit /\ I2cInit /\ Z2Init /\ TouchInit
              /\ KickInit /\ PlacesInit
BY DEF MCInit

LEMMA LinesAreAic1 == Ipis \/ Lines => Aic1Next
<1>1. Ipis => Aic1Next
    BY DEF Ipis, Aic1Next
<1>2. Lines => Aic1Next
    BY DEF Lines, Aic1Next, IpiNext, Cpus
<1> QED
    BY <1>1, <1>2

LEMMA MachinesMove ==
    [MCNext]_AllVars =>
        /\ [ChargerNext]_chargerVars /\ [Aic1Next]_aicVars /\ [SmpNext]_smpVars
        /\ [I2cNext]_i2cVars /\ [Z2Next]_z2Vars /\ [TouchNext]_touchVars
        /\ [KickNext]_kickVars /\ [PlacesNext]_placesVars
<1>1. ASSUME UNCHANGED AllVars
      PROVE  UNCHANGED <<chargerVars, aicVars, smpVars, i2cVars, z2Vars, touchVars, kickVars,
                         placesVars>>
    BY <1>1 DEF AllVars
<1>2. Tables \/ Rings => KickNext
    BY DEF Tables, Rings
<1> QED
    BY <1>1, <1>2, LinesAreAic1
    DEF MCNext, NotCharger, NotAic, NotSmp, NotI2c, NotZ2, NotTouch, NotKick, NotPlaces, NotFb

(* Every variable of every machine keeps its type, among them the rings'   *)
(* offsets and the places' numbers, and no place is lost.                  *)
THEOREM DriversTypeCorrect == MCSpec => []DriversTypeOK
<1>1. SmpInv => SmpTypeOK
    BY DEF SmpInv
<1>2. Z2Inv => Z2TypeOK
    BY DEF Z2Inv
<1>3. Aic1Inv => Aic1TypeOK
    BY DEF Aic1Inv
<1>4. ChargerTypeOK /\ Aic1TypeOK /\ SmpTypeOK /\ I2cTypeOK /\ Z2TypeOK /\ TouchTypeOK
        /\ KickTypeOK /\ PlacesTypeOK => DriversTypeOK
    BY DEF DriversTypeOK
<1> HIDE DEF Fairness
<1> QED
    BY MachinesStart, MachinesMove, ChargerTypeCorrect, Aic1Invariance, SmpInvariance,
       I2cTypeCorrect, Z2Invariance, TouchInvariant, KickTypeCorrect, PlacesTypeCorrect,
       <1>1, <1>2, <1>3, <1>4, PTL
    DEF MCSpec, ChargerSpec, Aic1Spec, SmpSpec, I2cSpec, Z2Spec, TouchSpec, KickSpec, PlacesSpec
=============================================================================
