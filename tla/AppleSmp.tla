------------------------------ MODULE AppleSmp ------------------------------
(***************************************************************************)
(* The A5's second core: started, idle, and taken down.                    *)
(* Source: devices/a5/patches/files/arch/arm/mach-apple/platsmp.c          *)
(*                                                                         *)
(* The power manager (PMGR, external) turns CPU1 off whenever it sits in   *)
(* WFI, and on again, through reset, when an interrupt comes for it.  Out  *)
(* of reset it jumps to the one address that the trampoline page holds.    *)
(* Three writers share that word: CPU0 starting the core, and CPU1 going   *)
(* idle and going down.                                                    *)
(*                                                                         *)
(* apple_cpu_die runs after the kernel has told CPU0 that CPU1 is dead, so *)
(* apple_cpu_kill may come before its first write.                         *)
(***************************************************************************)
VARIABLES
    tramp,    \* TRAMP_TARGET: "park", "startup", "resume"
    cpu1,     \* where CPU1 is:
              \*   "stopped" (by START/STOP), "off" (by WFI), "reset",
              \*   "start", "run", "entered", "wfi", "resume",
              \*   "reported", "parked"
    context,  \* cpu_suspend's saved state is there
    hotplug,  \* CPU0's view: "down", "booting", "up", "dying"
    smpIrq    \* an interrupt is pending for CPU1

smpVars == <<tramp, cpu1, context, hotplug, smpIrq>>

(* From apple_smp_prepare_cpus. *)
SmpInit ==
    /\ tramp = "park" /\ cpu1 = "stopped" /\ context = FALSE
    /\ hotplug = "down" /\ smpIrq = FALSE

-----------------------------------------------------------------------------
(* CPU0: apple_boot_secondary, apple_cpu_kill. *)
BootSecondary ==
    /\ hotplug = "down"
    /\ hotplug' = "booting"
    /\ tramp' = "startup"
    /\ cpu1' = "reset"
    /\ UNCHANGED <<context, smpIrq>>

CpuKill ==
    /\ hotplug = "dying" /\ cpu1 \in {"reported", "parked", "off", "reset"}
    /\ hotplug' = "down"
    /\ cpu1' = "stopped"
    /\ smpIrq' = FALSE
    /\ UNCHANGED <<tramp, context>>

-----------------------------------------------------------------------------
(* CPU1 out of reset, through the trampoline. *)
FromReset ==
    /\ cpu1 = "reset"
    /\ cpu1' = CASE tramp = "park" -> "parked"
                 [] tramp = "startup" -> "start"
                 [] tramp = "resume" -> "resume"
    /\ UNCHANGED <<tramp, context, hotplug, smpIrq>>

(* secondary_startup, then apple_secondary_init (AppleAic1). *)
SecondaryStart ==
    /\ cpu1 = "start"
    /\ cpu1' = "run"
    /\ hotplug' = "up"
    /\ UNCHANGED <<tramp, context, smpIrq>>

(* apple_s5l_cpu_resume, and the rest of apple_s5l_idle. *)
Resume ==
    /\ cpu1 = "resume"
    /\ cpu1' = "run"
    /\ context' = FALSE
    /\ UNCHANGED <<tramp, hotplug, smpIrq>>

TakeIrq ==
    /\ cpu1 = "run" /\ smpIrq
    /\ smpIrq' = FALSE
    /\ UNCHANGED <<tramp, cpu1, context, hotplug>>

(* apple_s5l_idle, interrupts off: the target, then cpu_suspend saves the  *)
(* state and apple_s5l_powerdown leaves coherency for WFI.  cpu_pm_enter   *)
(* may refuse, which is like polling (idle_mode 1), and idle_mode 2, a     *)
(* plain WFI, "breaks it; for experiments": neither is here.               *)
IdleTarget ==
    /\ cpu1 = "run" /\ ~smpIrq
    /\ tramp' = "resume"
    /\ cpu1' = "entered"
    /\ UNCHANGED <<context, hotplug, smpIrq>>

IdleSave ==
    /\ cpu1 = "entered"
    /\ context' = TRUE
    /\ cpu1' = "wfi"
    /\ UNCHANGED <<tramp, hotplug, smpIrq>>

(* An interrupt already pending: WFI falls through. *)
WfiReturns ==
    /\ cpu1 = "wfi" /\ smpIrq
    /\ cpu1' = "run"
    /\ context' = FALSE
    /\ UNCHANGED <<tramp, hotplug, smpIrq>>

(* The generic code reports CPU1 dead; then apple_cpu_die. *)
TearDown ==
    /\ cpu1 = "run" /\ hotplug = "up"
    /\ hotplug' = "dying"
    /\ cpu1' = "reported"
    /\ UNCHANGED <<tramp, context, smpIrq>>

CpuDieUnparked ==                                                    \* mutant
    /\ cpu1 = "reported"
    /\ cpu1' = "parked"
    /\ UNCHANGED <<tramp, context, hotplug, smpIrq>>

CpuDie ==
    /\ cpu1 = "reported"
    /\ tramp' = "park"
    /\ cpu1' = "parked"
    /\ UNCHANGED <<context, hotplug, smpIrq>>

-----------------------------------------------------------------------------
(* PMGR. *)
PmgrOff ==
    /\ cpu1 \in {"wfi", "parked"} /\ ~smpIrq
    /\ cpu1' = "off"
    /\ UNCHANGED <<tramp, context, hotplug, smpIrq>>

PmgrOn ==
    /\ cpu1 = "off" /\ smpIrq
    /\ cpu1' = "reset"
    /\ UNCHANGED <<tramp, context, hotplug, smpIrq>>

(* An interrupt for CPU1; a stray one finds it going down. *)
SmpIrq ==
    /\ ~smpIrq /\ cpu1 # "stopped" /\ hotplug # "booting"
    /\ smpIrq' = TRUE
    /\ UNCHANGED <<tramp, cpu1, context, hotplug>>

(* A parked core does not take its interrupt: the PMGR resets it, or not,  *)
(* and the loop goes on.                                                   *)
ParkedAgain ==
    /\ cpu1 = "parked" /\ smpIrq
    /\ smpIrq' = FALSE
    /\ UNCHANGED <<tramp, cpu1, context, hotplug>>

SmpNext ==
    \/ BootSecondary \/ CpuKill
    \/ FromReset \/ SecondaryStart \/ Resume \/ TakeIrq
    \/ IdleTarget \/ IdleSave \/ WfiReturns \/ TearDown \/ CpuDie
    \/ PmgrOff \/ PmgrOn \/ SmpIrq \/ ParkedAgain

SmpSpec == SmpInit /\ [][SmpNext]_smpVars

-----------------------------------------------------------------------------
SmpTypeOK ==
    /\ tramp \in {"park", "startup", "resume"}
    /\ cpu1 \in {"stopped", "off", "reset", "start", "run", "entered", "wfi",
                 "resume", "reported", "parked"}
    /\ context \in BOOLEAN /\ smpIrq \in BOOLEAN
    /\ hotplug \in {"down", "booting", "up", "dying"}

(* Wherever an interrupt may power CPU1 on, the trampoline holds what CPU1 *)
(* is there for: its saved state, the start CPU0 asked for, or the parking *)
(* loop of a core that was reported dead ("the trampoline sends it to the  *)
(* WFI loop rather than anywhere in the kernel").                          *)
RightEntry ==
    /\ cpu1 \in {"wfi", "off", "reset", "parked", "resume", "start"} =>
          tramp = CASE hotplug = "booting" -> "startup"
                    [] hotplug = "up" -> "resume"
                    [] hotplug = "dying" -> "park"
    /\ cpu1 = "resume" => context
    /\ cpu1 = "start" => hotplug = "booting"
=============================================================================
