----------------------------- MODULE HidSpiTouch -----------------------------
(***************************************************************************)
(* The A12 and A13 touch screens: taps against polls.                      *)
(* Source: devices/a12/linux/extras/apple_hidspi_touch.c                   *)
(*                                                                         *)
(* The firmware makes a frame of the fingers on the glass about every 8 ms *)
(* and holds it until the next; the driver polls.  What the polls miss the *)
(* driver makes up for: a finger first seen when it is up already is       *)
(* reported down and then up, and with no frame for release_ms every       *)
(* finger is let go.                                                       *)
(*                                                                         *)
(* A finger's states: "down" (3 and 4), "lift" (7), "gone" (0, its last    *)
(* frame), "none".                                                         *)
(***************************************************************************)
EXTENDS FiniteSets, Naturals

CONSTANTS Fingers   \* finger ids

VARIABLES
    glass,   \* [Fingers -> state]: the firmware's view
    frame,   \* [Fingers -> state]: the firmware's last frame
    held,    \* it was not read yet
    dead,    \* the firmware stopped answering
    ts,      \* struct ahtouch: [down, prev], sets of finger ids
    slots,   \* the input layer's slots: fingers that are down for user space
    downs    \* [Fingers -> how often this touch was reported down]

touchVars == <<glass, frame, held, dead, ts, slots, downs>>

TouchInit ==
    /\ glass = [f \in Fingers |-> "none"]
    /\ frame = glass
    /\ held = FALSE /\ dead = FALSE
    /\ ts = [down |-> {}, prev |-> {}]
    /\ slots = {}
    /\ downs = [f \in Fingers |-> 0]

-----------------------------------------------------------------------------
(* The panel and its firmware (external): a finger's next state.  A frame  *)
(* of all the fingers is made, over one that was not read.                 *)
After(state) ==
    CASE state = "none" -> {"none", "down"}
      [] state = "down" -> {"down", "lift"}
      [] state = "lift" -> {"gone"}
      [] state = "gone" -> {"none"}

PanelFrame ==
    /\ ~dead
    /\ \E g \in [Fingers -> {"none", "down", "lift", "gone"}] :
          /\ \A f \in Fingers : g[f] \in After(glass[f])
          /\ \E f \in Fingers : g[f] # "none"
          /\ glass' = g /\ frame' = g
          /\ downs' = [f \in Fingers |-> IF glass[f] = "none" THEN 0 ELSE downs[f]]
    /\ held' = TRUE
    /\ UNCHANGED <<dead, ts, slots>>

(* The last finger is gone: no more frames. *)
PanelQuiet ==
    /\ ~dead /\ \E f \in Fingers : glass[f] # "none"
    /\ \A f \in Fingers : glass[f] \in {"gone", "none"}
    /\ glass' = [f \in Fingers |-> "none"]
    /\ UNCHANGED <<frame, held, dead, ts, slots, downs>>

(* With a finger on the glass the frames go on. *)
PanelStep == (\E f \in Fingers : glass[f] # "none") /\ (PanelFrame \/ PanelQuiet)

PanelDies ==
    /\ ~dead
    /\ dead' = TRUE /\ held' = FALSE
    /\ UNCHANGED <<glass, frame, ts, slots, downs>>

-----------------------------------------------------------------------------
(* hs_poll reads the frame that is held. *)
InFrame == {f \in Fingers : frame[f] # "none"}
IsDown(f) == frame[f] = "down"

(* Up already, and never reported down: its down frames were missed.  A    *)
(* finger in its last frame was missed only if the frame before had none.  *)
MissedDown == {f \in InFrame : ~IsDown(f) /\ f \notin ts.down}     \* mutant
Missed ==
    {f \in InFrame : /\ ~IsDown(f) /\ f \notin ts.down
                     /\ frame[f] = "gone" => f \notin ts.prev}

(* report_touches and both its sync_frames; a slot that a frame does not   *)
(* report is dropped (INPUT_MT_DROP_UNUSED).                               *)
Touching == {f \in InFrame : IsDown(f)}

HsPoll ==
    /\ ~dead /\ held
    /\ LET first == IF Missed = {} THEN slots ELSE Touching \cup Missed
       IN  downs' = [f \in Fingers |->
                        downs[f] + Cardinality({f} \cap (first \ slots))
                                 + Cardinality({f} \cap (Touching \ first))]
    /\ slots' = Touching
    /\ ts' = [down |-> (ts.down \cup Touching) \ (InFrame \ Touching),
              prev |-> InFrame]
    /\ held' = FALSE
    /\ UNCHANGED <<glass, frame, dead>>

(* No frame for release_ms, which is longer than the 8 ms a finger on the  *)
(* glass leaves between two: let go of all.                                *)
Silent == dead \/ (~held /\ \A f \in Fingers : glass[f] = "none")

ReleaseEmpty ==                                                      \* mutant
    /\ Silent /\ ts.down # {}
    /\ ts' = [down |-> {}, prev |-> {}]
    /\ UNCHANGED <<glass, frame, held, dead, slots, downs>>

Release ==
    /\ Silent /\ ts.down # {}
    /\ slots' = {}
    /\ ts' = [down |-> {}, prev |-> {}]
    /\ UNCHANGED <<glass, frame, held, dead, downs>>

(* 20 reads in a row fail, which takes longer than release_ms: boot.  The  *)
(* firmware starts over with the fingers that are on the glass.            *)
Reload ==
    /\ dead /\ ts.down = {}
    /\ ts' = [down |-> {}, prev |-> {}]
    /\ glass' = [f \in Fingers |-> "none"] /\ frame' = glass'
    /\ dead' = FALSE
    /\ UNCHANGED <<held, slots, downs>>

TouchNext == PanelFrame \/ PanelQuiet \/ PanelDies \/ HsPoll \/ Release \/ Reload

TouchSpec == TouchInit /\ [][TouchNext]_touchVars

-----------------------------------------------------------------------------
TouchTypeOK ==
    /\ {glass, frame} \subseteq [Fingers -> {"none", "down", "lift", "gone"}]
    /\ held \in BOOLEAN /\ dead \in BOOLEAN
    /\ ts \in [down : SUBSET Fingers, prev : SUBSET Fingers]
    /\ slots \subseteq Fingers
    /\ downs \in [Fingers -> Nat]

(* No tap is made up: one touch of the glass is reported down once at      *)
(* most, whichever of its frames the polls see ("Not if it was in the      *)
(* frame before -- then it is the normal end of a touch already            *)
(* reported").                                                             *)
NoPhantomTap == \A f \in Fingers : downs[f] <= 1

(* A finger off the glass does not stay down for user space: a missed lift *)
(* is made up for, by the other fingers' frames or by the release.         *)
NothingSticks == \A f \in Fingers : (glass[f] = "none") ~> (f \notin slots \/ glass[f] # "none")
=============================================================================
