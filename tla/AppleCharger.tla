---------------------------- MODULE AppleCharger ----------------------------
(***************************************************************************)
(* The USB input current limit of the iPad mini 1's PMU.                   *)
(* Source: devices/a5/patches/files/drivers/power/supply/                  *)
(*         apple-pmu-charger.c                                             *)
(*                                                                         *)
(* A poll every second reads whether VBUS is there and the limit register, *)
(* 0x3d, and moves the register to a target; on the way up it writes eight *)
(* codes at a time and reads back after 10 ms.  Meanwhile the cable comes  *)
(* and goes, the battery warms and cools, the PMU drops the register to    *)
(* its lowest code when the source sags, an I2C transfer fails, and the    *)
(* owner writes input_current_limit and the parameter "armed".             *)
(*                                                                         *)
(* Codes are the register's own.  The poll's period and the ramp's sleeps  *)
(* are not timed: each is a point where the others may act.                *)
(***************************************************************************)
EXTENDS Integers

CONSTANTS
    ChargerMas,      \* what input_current_limit is set to, in mA
    ChargerDefaultMa,\* ILIM_DEFAULT_MA
    ChargerMaxMa,    \* max_input_ma
    ChargerGives,    \* what sources give: the highest code that does not sag
    ChargerProbeCode,\* 0x3d as iBEC left it
    ChargerMaxFaults \* bound: I2C transfers that fail

MinCode == 2         \* ILIM_MIN_CODE
RampStep == 8        \* ILIM_STEP
NoCeiling == 255

ASSUME ChargerConstants ==
    /\ ChargerMas \subseteq 100 .. ChargerMaxMa
    /\ ChargerDefaultMa \in Nat /\ ChargerMaxMa \in 100 .. 2100
    /\ ChargerGives \subseteq MinCode .. 254
    /\ ChargerProbeCode \in MinCode .. 254
    /\ ChargerMaxFaults \in Nat

VARIABLES
    chg,         \* struct pmu_chg, and the parameter armed
    chgWork,     \* the poll: [pc, online, cur, target]; cur is also the ramp's
                 \* last code written
    pmu,         \* [vbus, gives, ilim, wrote]: the cable, what its source
                 \* gives, the register, and the driver's last write to it
    batteryTemp, \* what the gauge says: "cool" (< 40 C), "warm", "hot" (> 45 C),
                 \* "none" (no gauge, or no answer)
    chgFaults    \* transfers that failed

chargerVars == <<chg, chgWork, pmu, batteryTemp, chgFaults>>

ChargerInit ==
    /\ chg = [armed |-> FALSE, req |-> ChargerDefaultMa, last |-> 0,
              ceiling |-> NoCeiling, online |-> FALSE, wasArmed |-> FALSE,
              hot |-> FALSE]
    /\ chgWork = [pc |-> "due", online |-> FALSE, cur |-> 0, target |-> 0]
    /\ pmu = [vbus |-> FALSE, gives |-> NoCeiling, ilim |-> ChargerProbeCode,
              wrote |-> 0]
    /\ batteryTemp = "cool"
    /\ chgFaults = 0

-----------------------------------------------------------------------------
(* pmu_chg_ma_to_code: iBEC's encoding. *)
LeastOf(a, b) == IF a <= b THEN a ELSE b

ChargerCode(ma) ==
    LET code == (8 * LeastOf(ma, 2100) - 600) \div 100
    IN  CASE ma < 100 -> MinCode
          [] code >= 115 -> code - 4
          [] code \in 111 .. 114 -> 110
          [] code \in 75 .. 110 -> code - 2
          [] code \in 73 .. 74 -> 72
          [] OTHER -> code

(* An I2C transfer works (ok) or fails. *)
ChargerIo(ok) ==
    /\ ok \/ chgFaults < ChargerMaxFaults
    /\ chgFaults' = IF ok THEN chgFaults ELSE chgFaults + 1

(* pmu_chg_battery_hot: hysteresis; no answer counts as hot. *)
BatteryHotIfKnown ==                                                 \* mutant
    batteryTemp = "hot" \/ (chg.hot /\ batteryTemp # "cool")
BatteryHot == batteryTemp \in {"hot", "none"} \/ (chg.hot /\ batteryTemp = "warm")

(* pmu_chg_target, of the state c. *)
ChargerTarget(c) ==
    IF BatteryHot THEN MinCode
    ELSE LeastOf(ChargerCode(LeastOf(c.req, ChargerMaxMa)), c.ceiling)

(* pmu_chg_sagged: the ceiling after a sag at a code. *)
SagCeilingKept(at) == at                                            \* mutant
SagCeiling(at) == IF at - RampStep < MinCode THEN MinCode ELSE at - RampStep

(* pmu_chg_write, when it works. *)
Wrote(code) == [pmu EXCEPT !.ilim = code, !.wrote = code]

ChargerSleep == chgWork' = [chgWork EXCEPT !.pc = "due"]

-----------------------------------------------------------------------------
ChargerDisarmOnce ==                                                 \* mutant
    /\ chgWork.pc = "due" /\ chg.wasArmed /\ ~chg.armed
    /\ \E ok \in BOOLEAN :
          /\ ChargerIo(ok)
          /\ pmu' = IF ok THEN Wrote(ChargerProbeCode) ELSE pmu
          /\ chg' = [chg EXCEPT !.last = 0, !.wasArmed = FALSE]
    /\ UNCHANGED <<chgWork, batteryTemp>>

(* pmu_chg_work, to the read of PMU_STATUS0.  A disarmed driver first puts *)
(* back what it found at probe; the restoration stays pending if the write *)
(* fails.                                                                  *)
ChargerDisarm ==
    /\ chgWork.pc = "due" /\ chg.wasArmed /\ ~chg.armed
    /\ \E ok \in BOOLEAN :
          /\ ChargerIo(ok)
          /\ pmu' = IF ok THEN Wrote(ChargerProbeCode) ELSE pmu
          /\ chg' = IF ok THEN [chg EXCEPT !.last = 0, !.wasArmed = FALSE] ELSE chg
    /\ UNCHANGED <<chgWork, batteryTemp>>

ChargerStatus ==
    /\ chgWork.pc = "due" /\ ~(chg.wasArmed /\ ~chg.armed)
    /\ \E ok \in BOOLEAN :
          /\ ChargerIo(ok)
          /\ chgWork' = IF ok THEN [pc |-> IF chg.armed THEN "armed" ELSE "unarmed",
                                    online |-> pmu.vbus, cur |-> 0, target |-> 0]
                        ELSE chgWork
    /\ UNCHANGED <<chg, pmu, batteryTemp>>

(* A new cable's session starts afresh. *)
Session(online) ==
    [chg EXCEPT !.online = online,
                !.ceiling = IF online = chg.online THEN @ ELSE NoCeiling,
                !.last = IF online /\ ~chg.online THEN 0 ELSE @]

(* The rest of pmu_chg_work, from the read of 0x3d to the ramp's first     *)
(* write.                                                                  *)
ChargerLimitFails ==
    /\ chgWork.pc \in {"armed", "unarmed"}
    /\ ChargerIo(FALSE)
    /\ ChargerSleep
    /\ UNCHANGED <<chg, pmu, batteryTemp>>

ChargerNothing ==
    /\ chgWork.pc \in {"armed", "unarmed"}
    /\ chgWork.pc = "armed" => ~chgWork.online
    /\ chg' = [Session(chgWork.online) EXCEPT !.hot = IF chgWork.online THEN BatteryHot ELSE @]
    /\ ChargerSleep
    /\ UNCHANGED <<pmu, batteryTemp, chgFaults>>

(* The PMU dropped what was set: the source sagged since the last poll. *)
Dropped(c) == pmu.ilim = MinCode /\ c.last > MinCode
Armed(c) == [c EXCEPT !.wasArmed = TRUE, !.hot = BatteryHot,
                      !.ceiling = IF Dropped(c) THEN SagCeiling(c.last) ELSE @]

ChargerMove ==
    /\ chgWork.pc = "armed" /\ chgWork.online
    /\ LET c == Armed(Session(TRUE))
           target == LeastOf(ChargerTarget(Session(TRUE)), c.ceiling)
       IN  \/ /\ pmu.ilim = target
              /\ chg' = c
              /\ ChargerSleep
              /\ UNCHANGED <<pmu, chgFaults>>
           \/ /\ pmu.ilim > target
              /\ \E ok \in BOOLEAN :
                    /\ ChargerIo(ok)
                    /\ pmu' = IF ok THEN Wrote(target) ELSE pmu
                    /\ chg' = IF ok THEN [c EXCEPT !.last = target] ELSE c
              /\ ChargerSleep
           \/ /\ pmu.ilim < target
              /\ chg' = c
              /\ chgWork' = [chgWork EXCEPT !.pc = "ramp", !.cur = pmu.ilim,
                                            !.target = target]
              /\ UNCHANGED <<pmu, chgFaults>>
    /\ UNCHANGED batteryTemp

(* pmu_chg_ramp: write eight codes more and sleep ... *)
RampWrite ==
    /\ chgWork.pc = "ramp"
    /\ LET next == LeastOf(chgWork.cur + RampStep, chgWork.target)
       IN  \E ok \in BOOLEAN :
              /\ ChargerIo(ok)
              /\ pmu' = IF ok THEN Wrote(next) ELSE pmu
              /\ chg' = IF ok THEN [chg EXCEPT !.last = next] ELSE chg
              /\ chgWork' = IF ok THEN [chgWork EXCEPT !.pc = "back", !.cur = next]
                            ELSE [chgWork EXCEPT !.pc = "due"]
    /\ UNCHANGED batteryTemp

(* ... and read it back: it took, the source sagged, or something else     *)
(* moved it, which stops the ramp.                                         *)
RampBack ==
    /\ chgWork.pc = "back"
    /\ \/ /\ ChargerIo(FALSE)
          /\ ChargerSleep
          /\ UNCHANGED <<chg, pmu>>
       \/ /\ pmu.ilim = chgWork.cur
          /\ chgWork' = [chgWork EXCEPT
                !.pc = IF chgWork.cur < chgWork.target THEN "ramp" ELSE "due"]
          /\ UNCHANGED <<chg, pmu, chgFaults>>
       \/ /\ pmu.ilim = MinCode /\ chgWork.cur > MinCode
          /\ \E ok \in BOOLEAN :
                LET c == [chg EXCEPT !.ceiling = SagCeiling(chgWork.cur)]
                IN  /\ ChargerIo(ok)
                    /\ c.ceiling < chgWork.cur \/ ok
                    /\ chg' = IF ok /\ c.ceiling < chgWork.cur
                              THEN [c EXCEPT !.last = c.ceiling] ELSE c
                    /\ pmu' = IF ok /\ c.ceiling < chgWork.cur
                              THEN Wrote(c.ceiling) ELSE pmu
          /\ ChargerSleep
       \/ /\ pmu.ilim \notin {MinCode, chgWork.cur}
          /\ ChargerSleep
          /\ UNCHANGED <<chg, pmu, chgFaults>>
    /\ UNCHANGED batteryTemp

ChargerStep ==
    \/ ChargerDisarm \/ ChargerStatus
    \/ ChargerLimitFails \/ ChargerNothing \/ ChargerMove
    \/ RampWrite \/ RampBack

-----------------------------------------------------------------------------
ChargerSetFresh ==                                                   \* mutant
    /\ chgWork.pc = "due"
    /\ \E ma \in ChargerMas : chg' = [chg EXCEPT !.req = ma, !.ceiling = NoCeiling]
    /\ UNCHANGED <<chgWork, pmu, batteryTemp, chgFaults>>

(* pmu_chg_set: under the mutex, so not while the poll works. *)
ChargerSet ==
    /\ chgWork.pc = "due"
    /\ \E ma \in ChargerMas : chg' = [chg EXCEPT !.req = ma]
    /\ UNCHANGED <<chgWork, pmu, batteryTemp, chgFaults>>

(* The parameter is written at any moment. *)
ChargerArm ==
    /\ chg' = [chg EXCEPT !.armed = ~@]
    /\ UNCHANGED <<chgWork, pmu, batteryTemp, chgFaults>>

(* The cable; without VBUS the PMU has its register at the lowest code. *)
Cable ==
    /\ \/ \E g \in ChargerGives :
             /\ ~pmu.vbus
             /\ pmu' = [pmu EXCEPT !.vbus = TRUE, !.gives = g]
       \/ /\ pmu.vbus
          /\ pmu' = [pmu EXCEPT !.vbus = FALSE, !.gives = NoCeiling, !.ilim = MinCode]
    /\ UNCHANGED <<chg, chgWork, batteryTemp, chgFaults>>

(* The source cannot give what the register asks for. *)
PmuSag ==
    /\ pmu.vbus /\ pmu.ilim > pmu.gives
    /\ pmu' = [pmu EXCEPT !.ilim = MinCode]
    /\ UNCHANGED <<chg, chgWork, batteryTemp, chgFaults>>

Warm ==
    /\ \E t \in {"cool", "warm", "hot", "none"} \ {batteryTemp} : batteryTemp' = t
    /\ UNCHANGED <<chg, chgWork, pmu, chgFaults>>

ChargerNext == ChargerStep \/ ChargerSet \/ ChargerArm \/ Cable \/ PmuSag \/ Warm

ChargerSpec == ChargerInit /\ [][ChargerNext]_chargerVars

-----------------------------------------------------------------------------
ChargerTypeOK ==
    /\ chg \in [armed : BOOLEAN, req : Nat, last : Nat, ceiling : Nat,
                online : BOOLEAN, wasArmed : BOOLEAN, hot : BOOLEAN]
    /\ chgWork \in [pc : {"due", "armed", "unarmed", "ramp", "back"},
                    online : BOOLEAN, cur : Nat, target : Nat]
    /\ pmu \in [vbus : BOOLEAN, gives : Nat, ilim : Nat, wrote : Nat]
    /\ batteryTemp \in {"cool", "warm", "hot", "none"}
    /\ chgFaults \in 0 .. ChargerMaxFaults

(* While the driver sees one session, a sag's ceiling never rises -- what  *)
(* the owner asks for, a disarm and a sag found later included -- and no   *)
(* ramp or poll writes over it ("limiting USB input current until          *)
(* unplugged").                                                            *)
SagRemembered ==
    [][/\ chg.online /\ chg'.online => chg'.ceiling <= chg.ceiling
       /\ (chg.online /\ chg'.online /\ chg.ceiling # NoCeiling /\ pmu'.wrote # pmu.wrote)
             => pmu'.wrote <= chg'.ceiling \/ pmu'.wrote = ChargerProbeCode]_chargerVars

(* With the owner, the cable and the battery left alone, the register ends *)
(* at a code the source gives, for good: no sag and ramp for ever.         *)
SettlesUnderSource ==
    (<>[][chg'.armed = chg.armed /\ chg'.req = chg.req /\ pmu'.vbus = pmu.vbus
          /\ batteryTemp' = batteryTemp]_chargerVars)
        => <>[](pmu.ilim <= pmu.gives)

(* A battery that stays hot, or stays unknown, brings an armed driver's    *)
(* limit down to 100 mA for good, transfers that fail on the way included. *)
HotComesDown ==
    <>[](chg.armed /\ pmu.vbus /\ batteryTemp \in {"hot", "none"})
        => <>[](pmu.ilim = MinCode)

(* "Disarming puts back the value it found at probe": after a disarm for   *)
(* good the last write is that value, even if the first tries failed.      *)
DisarmRestores == <>[](~chg.armed) => <>[](pmu.wrote \in {0, ChargerProbeCode})
=============================================================================
