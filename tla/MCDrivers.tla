----------------------------- MODULE MCDrivers -----------------------------
(* The smaller machines on small instances, for TLC: one at a time, the    *)
(* others at rest.  (They meet only through the hardware; all their states *)
(* at once would be a product that says nothing.)                          *)
EXTENDS AppleCharger, AppleAic1, AppleSmp, AppleI2c, AppleZ2, HidSpiTouch,
        SgxKick, SgxPlaces, SgxFbCopy

CONSTANTS p1, p2, c1, c2, fs1, fs2, fs3, l1, l2, t1, t2, t3

VARIABLE machine

WriteOf(n) == [rd |-> FALSE, len |-> n]
ReadOf(n) == [rd |-> TRUE, len |-> n]
MCTransfers ==
    {<<WriteOf(1)>>, <<WriteOf(3)>>, <<ReadOf(2)>>, <<WriteOf(1), WriteOf(3)>>,
     <<ReadOf(2), WriteOf(1)>>, <<WriteOf(1), ReadOf(2)>>}
MCStrayLens == {0, 2}
MCMas == {300, 500}
MCGives == {4, 200}
MCVipis == {"call"}
MCFingers == {1, 2}
MCLens == {2, 3}
MCPages == {p1, p2}
MCCtxs == {c1, c2}
MCProgs == {fs1, fs2, fs3}
MCOwner == [p \in MCProgs |-> IF p = fs3 THEN c2 ELSE c1]
MCPlaces == {l1, l2}
MCTargets == {t1, t2, t3}

AllVars == <<chargerVars, aicVars, smpVars, i2cVars, z2Vars, touchVars, kickVars, placesVars,
             fbVars, machine>>

(* The controller's IPIs, with no device; its lines, with one core taking  *)
(* them while the other's IPI comes in between.                            *)
Ipis == IpiNext
Lines == LineNext \/ CpuStep(0) \/ \E k \in Vipis : MuxSend(0, 0, k)

(* Page tables, with renders that the microkernel takes in time; the       *)
(* rings, with any it takes late.                                          *)
Tables == KickNext /\ active'["blt"] = Nothing /\ ~uk'.late
Rings == KickNext /\ mmu'.lock = Nothing

NotCharger == UNCHANGED <<aicVars, smpVars, i2cVars, z2Vars, touchVars, kickVars, placesVars, fbVars, machine>>
NotAic == UNCHANGED <<chargerVars, smpVars, i2cVars, z2Vars, touchVars, kickVars, placesVars, fbVars, machine>>
NotSmp == UNCHANGED <<chargerVars, aicVars, i2cVars, z2Vars, touchVars, kickVars, placesVars, fbVars, machine>>
NotI2c == UNCHANGED <<chargerVars, aicVars, smpVars, z2Vars, touchVars, kickVars, placesVars, fbVars, machine>>
NotZ2 == UNCHANGED <<chargerVars, aicVars, smpVars, i2cVars, touchVars, kickVars, placesVars, fbVars, machine>>
NotTouch == UNCHANGED <<chargerVars, aicVars, smpVars, i2cVars, z2Vars, kickVars, placesVars, fbVars, machine>>
NotKick == UNCHANGED <<chargerVars, aicVars, smpVars, i2cVars, z2Vars, touchVars, placesVars, fbVars, machine>>
NotPlaces == UNCHANGED <<chargerVars, aicVars, smpVars, i2cVars, z2Vars, touchVars, kickVars, fbVars, machine>>
NotFb == UNCHANGED <<chargerVars, aicVars, smpVars, i2cVars, z2Vars, touchVars, kickVars, placesVars, machine>>

FbAtRest ==
    /\ fb = <<>> /\ band = 0 /\ end = "no"
    /\ move = [sx |-> 0, sy |-> 0, dx |-> 0, dy |-> 1, w |-> 1, h |-> 1, fast |-> FALSE]

(* Only the machine of the behaviour has a choice of initial states.       *)
MCInit ==
    /\ machine \in {"charger", "ipis", "lines", "smp", "i2c", "z2", "touch", "tables", "rings",
                    "places", "fb"}
    /\ ChargerInit /\ Aic1Init /\ SmpInit /\ I2cInit /\ Z2Init /\ TouchInit /\ KickInit
    /\ PlacesInit
    /\ IF machine = "fb" THEN FbInit ELSE FbAtRest

MCNext ==
    \/ machine = "charger" /\ ChargerNext /\ NotCharger
    \/ machine = "ipis" /\ Ipis /\ NotAic
    \/ machine = "lines" /\ Lines /\ NotAic
    \/ machine = "smp" /\ SmpNext /\ NotSmp
    \/ machine = "i2c" /\ I2cNext /\ NotI2c
    \/ machine = "z2" /\ Z2Next /\ NotZ2
    \/ machine = "touch" /\ TouchNext /\ NotTouch
    \/ machine = "tables" /\ Tables /\ NotKick
    \/ machine = "rings" /\ Rings /\ NotKick
    \/ machine = "places" /\ PlacesNext /\ NotPlaces
    \/ machine = "fb" /\ FbNext /\ NotFb

(* The charger's worker runs and the PMU shows its input's sag; the touch  *)
(* thread polls and tells of lifted fingers, and the panel goes on.        *)
Fairness ==
    /\ WF_AllVars(machine = "charger" /\ ChargerStep /\ NotCharger)
    /\ WF_AllVars(machine = "charger" /\ PmuSag /\ NotCharger)
    /\ WF_AllVars(machine = "touch" /\ HsPoll /\ NotTouch)
    /\ WF_AllVars(machine = "touch" /\ Release /\ NotTouch)
    /\ WF_AllVars(machine = "touch" /\ PanelStep /\ NotTouch)

MCSpec == MCInit /\ [][MCNext]_AllVars /\ Fairness

(* Every variable of every machine keeps its type: among them the rings'   *)
(* offsets and the places' numbers, which the code never bounds itself.    *)
DriversTypeOK ==
    /\ ChargerTypeOK
    /\ Aic1TypeOK
    /\ SmpTypeOK
    /\ I2cTypeOK
    /\ Z2TypeOK
    /\ TouchTypeOK
    /\ KickTypeOK
    /\ PlacesTypeOK
=============================================================================
