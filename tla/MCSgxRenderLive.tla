-------------------------- MODULE MCSgxRenderLive --------------------------
(* Liveness of SgxRender, for TLC, in two worlds: one where the GPU may    *)
(* hang, a start may fail and the scheduler may time out, and a sound one  *)
(* where nothing of this happens and the GPU gets on with what it reads.   *)
EXTENDS MCSgxRender

VARIABLE world

worldVars == <<vars, world>>

(* Kicks are lost, and sent again, in the sound world alone.               *)
Sound == ~UkHang /\ boot_result' # "failed" /\ tdr'.pc = "idle" /\ ~Probe
Troubled == uk'.lost = 0 /\ ~rekick'

WorldNext ==
    /\ Next
    /\ IF world = "sound" THEN Sound ELSE Troubled
    /\ UNCHANGED world

SoundBoot == BootReset \/ BootDone(TRUE)

(* The driver's threads run when they can, a start of the microkernel ends *)
(* (its waits are bounded), in_syncs signal, and the scheduler's timeout   *)
(* fires for a render that stays pending; in the sound world the GPU       *)
(* renders what its microkernel looks at.  Nothing is assumed of clients,  *)
(* of debugfs, or of a GPU in trouble.                                     *)
WorldFairness ==
    /\ WF_worldVars(world = "troubled" /\ Probe /\ UNCHANGED world)
    /\ WF_worldVars(world = "troubled" /\ Boot /\ UNCHANGED world)
    /\ WF_worldVars(world = "sound" /\ SoundBoot /\ UNCHANGED world)
    /\ WF_worldVars(world = "troubled" /\ Timeout /\ UNCHANGED world)
    /\ WF_worldVars(world = "sound" /\ Uk /\ UNCHANGED world)
    /\ WF_worldVars(BootWork /\ UNCHANGED world)
    /\ \A f \in Files : WF_worldVars(OpenBoot(f) /\ UNCHANGED world)
    /\ \A j \in Jobs : WF_worldVars(InSync(j) /\ UNCHANGED world)
    /\ WF_worldVars(Run /\ UNCHANGED world)
    /\ WF_worldVars(PollDone /\ UNCHANGED world)
    /\ WF_worldVars(PollSignal /\ UNCHANGED world)
    /\ WF_worldVars(world = "sound" /\ PollRekick /\ UNCHANGED world)
    /\ WF_worldVars(Rekick /\ UNCHANGED world)
    /\ WF_worldVars((\E j \in Jobs : FreeJob(j)) /\ UNCHANGED world)

WorldSpec == Init /\ world \in {"sound", "troubled"} /\ [][WorldNext]_worldVars /\ WorldFairness

(* A render the microkernel left unread is kicked again: in the sound      *)
(* world every started render ends well (sgx_poll, sgx_rekick_work).       *)
LostKicksRecovered == world = "sound" => LostKickRecovered
=============================================================================
