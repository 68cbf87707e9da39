----------------------------- MODULE SilentMode -----------------------------
(***************************************************************************)
(* The silent boot mode (silent_boot.c) and the driver that watches its    *)
(* GPIO (silent-mode-hw-monitoring.c): the boot argument, the interrupt    *)
(* and its delayed work, suspend and resume, user space writing to sysfs,  *)
(* and the drivers that register for a change of the mode.                 *)
(*                                                                         *)
(* The mode is the atomic_t pm_silent_mode_enable: 1 is MODE_SILENT.  One  *)
(* step is one access to an atomic_t, or one pass under a lock.            *)
(***************************************************************************)
EXTENDS Naturals, FiniteSets

CONSTANTS
    Params,       \* boot arguments to look at
    UserVals,     \* what user space writes to pm_silentmode_kernel_state
    Drivers,      \* callers of register_pm_silentmode_notifier
    Faults,       \* {"probe"} if the GPIO or its interrupt may be missing
    MaxEdges,     \* bound on the changes of the GPIO
    MaxSuspends,  \* bound on the suspends
    MaxWrites     \* bound on the writes of user space

Words == {"forcednonsilent", "forcedsilent", "nonsilent", "silent"}

ASSUME SilentAssumption ==
    /\ Params \subseteq Words \cup {"other"}
    /\ UserVals \subseteq Nat
    /\ Faults \subseteq {"probe"}

Bit == {0, 1}

VARIABLES
    param,        \* silent_boot.mode= of the command line
    silent_mode,  \* the mode it stands for, and if it is negative (forced)
    cntrl,        \* pm_silentmode_userspace_cntrl
    enable,       \* pm_silent_mode_enable
    hw_state,     \* pm_silentmode_hw_state
    gpio,         \* the level of the GPIO
    probe,        \* what silent_mode_probe came to
    pm,           \* suspend_late ran and resume_early did not
    depth,        \* how often the interrupt is disabled
    latched,      \* an edge came while it was disabled
    timer,        \* info->work is pending
    work,         \* where silent_mode_handler_work_func is
    trig,         \* its irq_trig
    user,         \* pm_silentmode_user_update is between its two writes
    uval,         \* the value written last
    reg,          \* where register_pm_silentmode_notifier is
    chain,        \* pm_silentmode_chain
    view,         \* the mode each driver knows of
    oops,         \* a NULL info was dereferenced
    raced,        \* history: user space took control after the kernel looked
    late,         \* history: the mode changed under a driver that registers
    seen,         \* history: an interrupt came
    left          \* what is left of the bounds

mode == <<cntrl, enable>>

irq == <<gpio, depth, latched, timer>>

worker == <<work, trig>>

usr == <<user, uval>>

clients == <<reg, chain, view>>

hist == <<raced, late, seen>>

fixed == <<param, silent_mode, oops>>

silentVars == <<fixed, mode, hw_state, irq, probe, pm, worker, usr, clients,
                hist, left>>

-----------------------------------------------------------------------------
(***************************************************************************)
(* The boot argument.                                                      *)
(***************************************************************************)

\* The words strnstr finds in it.
Found(p) ==
    CASE p = "forcednonsilent" -> {"forcednonsilent", "nonsilent", "silent"}
      [] p = "forcedsilent" -> {"forcedsilent", "silent"}
      [] p = "nonsilent" -> {"nonsilent", "silent"}
      [] p = "silent" -> {"silent"}
      [] OTHER -> {}

\* Wrong: the shorter words are looked for first.
ParamSet_Shorter(p) ==
    CASE "silent" \in Found(p) -> [mode |-> 1, forced |-> FALSE]
      [] "nonsilent" \in Found(p) -> [mode |-> 0, forced |-> FALSE]
      [] "forcedsilent" \in Found(p) -> [mode |-> 1, forced |-> TRUE]
      [] OTHER -> [mode |-> 0, forced |-> FALSE]

\* silent_mode_param_set: the first of the tests that succeeds.
ParamSet(p) ==
    IF "forcednonsilent" \in Found(p) THEN [mode |-> 0, forced |-> TRUE]
    ELSE IF "forcedsilent" \in Found(p) THEN [mode |-> 1, forced |-> TRUE]
    ELSE IF "nonsilent" \in Found(p) THEN [mode |-> 0, forced |-> FALSE]
    ELSE IF "silent" \in Found(p) THEN [mode |-> 1, forced |-> FALSE]
    ELSE [mode |-> 0, forced |-> FALSE]

\* After pm_silentmode_init.
SilentInit ==
    /\ param \in Params
    /\ silent_mode = ParamSet(param)
    /\ cntrl = FALSE
    /\ enable = silent_mode.mode
    /\ hw_state = silent_mode.mode
    /\ gpio \in Bit
    /\ probe = "none"
    /\ pm = "awake"
    /\ depth = 0
    /\ latched = FALSE
    /\ timer = FALSE
    /\ work = "idle"
    /\ trig = 0
    /\ user = "idle"
    /\ uval = 0
    /\ reg = [d \in Drivers |-> "out"]
    /\ chain = {}
    /\ view = [d \in Drivers |-> 0]
    /\ oops = FALSE
    /\ raced = FALSE
    /\ late = {}
    /\ seen = FALSE
    /\ left = [edges |-> MaxEdges, suspends |-> MaxSuspends, writes |-> MaxWrites]

-----------------------------------------------------------------------------
(***************************************************************************)
(* The monitor: probe, edges, suspend and resume.                          *)
(***************************************************************************)

ForcedModeEnforced == silent_mode.forced

\* In a forced mode there is no interrupt and no info.
Probe ==
    /\ probe = "none"
    /\ \/ ForcedModeEnforced /\ probe' = "forced"
       \/ ~ForcedModeEnforced /\ probe' = "monitor"
       \/ ~ForcedModeEnforced /\ "probe" \in Faults /\ probe' = "failed"
    /\ UNCHANGED <<fixed, mode, hw_state, irq, pm, worker, usr, clients, hist,
                   left>>

\* silent_mode_irq: mod_delayed_work.  A disabled interrupt is kept for later.
Edge ==
    /\ left.edges > 0
    /\ left' = [left EXCEPT !.edges = @ - 1]
    /\ gpio' = 1 - gpio
    /\ timer' = (timer \/ (probe = "monitor" /\ depth = 0))
    /\ latched' = (latched \/ (probe = "monitor" /\ depth > 0))
    /\ seen' = (seen \/ probe = "monitor")
    /\ UNCHANGED <<fixed, mode, hw_state, probe, pm, depth, worker, usr,
                   clients, raced, late>>

\* The callbacks of the pm core, of a driver that is bound.  They use
\* info->pdev before they look at info.
PmCallback(from, to) ==
    /\ pm = from
    /\ probe \in {"monitor", "forced"}
    /\ pm' = to
    /\ oops' = (probe = "forced")

\* silent_mode_disable_monitor.
DisableIrq == depth' = IF probe = "monitor" THEN depth + 1 ELSE depth

Suspend ==
    /\ ~oops
    /\ left.suspends > 0
    /\ user = "idle"
    /\ PmCallback("awake", "suspended")
    /\ left' = [left EXCEPT !.suspends = @ - 1]
    /\ DisableIrq
    /\ UNCHANGED <<param, silent_mode, mode, hw_state, gpio, latched, timer,
                   probe, worker, usr, clients, hist>>

\* Wrong: a disabled edge is dropped.
EnableIrq_Drops ==
    /\ depth' = depth - 1
    /\ latched' = FALSE
    /\ UNCHANGED timer

\* enable_irq replays an edge it has kept.
EnableIrq ==
    /\ depth' = depth - 1
    /\ latched' = (latched /\ depth > 1)
    /\ timer' = (timer \/ (latched /\ depth = 1))

\* silent_mode_enable_monitor: "-EEXIST" when the GPIO reads 0.
Resume ==
    /\ ~oops
    /\ PmCallback("suspended", "awake")
    /\ IF probe = "monitor" /\ gpio # 0
       THEN EnableIrq
       ELSE UNCHANGED <<depth, latched, timer>>
    /\ UNCHANGED <<param, silent_mode, mode, hw_state, gpio, probe, worker, usr,
                   clients, hist, left>>

-----------------------------------------------------------------------------
(***************************************************************************)
(* silent_mode_handler_work_func and pm_silentmode_update(irq_trig, ...).  *)
(***************************************************************************)

WorkRead ==
    /\ timer
    /\ work = "idle"
    /\ timer' = FALSE
    /\ trig' = gpio
    /\ work' = "check"
    /\ UNCHANGED <<fixed, mode, hw_state, gpio, depth, latched, probe, pm, usr,
                   clients, hist, left>>

\* Wrong: user space is not asked.
KernelCheck_Always == work' = "set"

\* pm_silentmode_kernel_set: "if (!atomic_read(&...userspace_cntrl))" ...
KernelCheck == work' = IF cntrl THEN "hw" ELSE "set"

WorkCheck ==
    /\ work = "check"
    /\ KernelCheck
    /\ UNCHANGED <<fixed, mode, hw_state, irq, probe, pm, trig, usr, clients,
                   hist, left>>

\* Drivers that have read the mode and are not on the chain yet.
Registering == {d \in Drivers : reg[d] = "saw"}

\* ... "atomic_set(&pm_silent_mode_enable, val)".
WorkSet ==
    /\ work = "set"
    /\ enable' = 1 - trig
    /\ late' = late \cup Registering
    /\ work' = "hw"
    /\ UNCHANGED <<fixed, cntrl, hw_state, irq, probe, pm, trig, usr, clients,
                   raced, seen, left>>

WorkHw ==
    /\ work = "hw"
    /\ hw_state' = 1 - trig
    /\ work' = "tell"
    /\ UNCHANGED <<fixed, mode, irq, probe, pm, trig, usr, clients, hist, left>>

\* Wrong: the chain is called for a change to the silent mode only.
CallChain_Silent ==
    view' = [d \in Drivers |-> IF d \in chain /\ enable = 1 THEN 1 ELSE view[d]]

\* blocking_notifier_call_chain: the callbacks look at the mode.
CallChain == view' = [d \in Drivers |-> IF d \in chain THEN enable ELSE view[d]]

WorkTell ==
    /\ work = "tell"
    /\ CallChain
    /\ work' = "idle"
    /\ UNCHANGED <<fixed, mode, hw_state, irq, probe, pm, trig, usr, reg, chain,
                   hist, left>>

-----------------------------------------------------------------------------
(***************************************************************************)
(* User space and other drivers.                                           *)
(***************************************************************************)

\* pm_silentmode_kernel_state_store: first the control ...
UserTake(v) ==
    /\ pm = "awake"
    /\ left.writes > 0
    /\ user = "idle"
    /\ left' = [left EXCEPT !.writes = @ - 1]
    /\ cntrl' = TRUE
    /\ uval' = v
    /\ user' = "set"
    /\ raced' = (raced \/ work = "set")
    /\ UNCHANGED <<fixed, enable, hw_state, irq, probe, pm, worker, clients,
                   late, seen>>

\* ... then the mode.  The chain is not called.
UserSet ==
    /\ user = "set"
    /\ enable' = uval
    /\ user' = "idle"
    /\ late' = late \cup Registering
    /\ UNCHANGED <<fixed, cntrl, hw_state, irq, probe, pm, worker, uval, clients,
                   raced, seen, left>>

\* register_pm_silentmode_notifier: the mode is read ...
RegisterRead(d) ==
    /\ reg[d] = "out"
    /\ view' = [view EXCEPT ![d] = enable]
    /\ reg' = [reg EXCEPT ![d] = IF enable = 1 THEN "saw" ELSE "done"]
    /\ UNCHANGED <<fixed, mode, hw_state, irq, probe, pm, worker, usr, chain,
                   hist, left>>

\* ... and the callback registered, not while the chain is being called.
RegisterAdd(d) ==
    /\ reg[d] = "saw"
    /\ reg' = [reg EXCEPT ![d] = "in"]
    /\ chain' = chain \cup {d}
    /\ UNCHANGED <<fixed, mode, hw_state, irq, probe, pm, worker, usr, view,
                   hist, left>>

\* unregister_pm_silentmode_notifier.
Unregister(d) ==
    /\ reg[d] = "in"
    /\ reg' = [reg EXCEPT ![d] = "done"]
    /\ chain' = chain \ {d}
    /\ UNCHANGED <<fixed, mode, hw_state, irq, probe, pm, worker, usr, view,
                   hist, left>>

-----------------------------------------------------------------------------

Work == WorkRead \/ WorkCheck \/ WorkSet \/ WorkHw \/ WorkTell

SilentNext ==
    \/ Probe
    \/ Edge
    \/ Suspend
    \/ Resume
    \/ Work
    \/ \E v \in UserVals : UserTake(v)
    \/ UserSet
    \/ \E d \in Drivers : RegisterRead(d) \/ RegisterAdd(d) \/ Unregister(d)

SilentSpec == SilentInit /\ [][SilentNext]_silentVars

\* Delayed work runs when its time has come, and once begun goes on.
SilentFairSpec == SilentSpec /\ WF_silentVars(Work)

-----------------------------------------------------------------------------
(***************************************************************************)
(* Properties.                                                             *)
(***************************************************************************)

SilentTypeOK ==
    /\ param \in Params
    /\ silent_mode \in [mode: Bit, forced: BOOLEAN]
    /\ cntrl \in BOOLEAN
    /\ enable \in Bit \cup UserVals
    /\ hw_state \in Bit
    /\ gpio \in Bit
    /\ probe \in {"none", "monitor", "forced", "failed"}
    /\ pm \in {"awake", "suspended"}
    /\ depth \in Nat
    /\ latched \in BOOLEAN
    /\ timer \in BOOLEAN
    /\ work \in {"idle", "check", "set", "hw", "tell"}
    /\ trig \in Bit
    /\ user \in {"idle", "set"}
    /\ uval \in UserVals \cup {0}
    /\ reg \in [Drivers -> {"out", "saw", "in", "done"}]
    /\ chain \subseteq Drivers
    /\ view \in [Drivers -> Bit \cup UserVals]
    /\ oops \in BOOLEAN
    /\ raced \in BOOLEAN
    /\ late \subseteq Drivers
    /\ seen \in BOOLEAN

\* Once user space has written the mode the kernel leaves it alone, whatever
\* the GPIO does, unless the write fell between the test and the assignment
\* of pm_silentmode_kernel_set.
UserControls == cntrl /\ user = "idle" /\ ~raced => enable = uval

\* A forced mode of the command line holds until user space changes it: no
\* change of the GPIO reaches the mode or the hardware state.
ForcedHolds ==
    LET holds(m) == hw_state = m /\ (cntrl \/ enable = m)
    IN  /\ param = "forcedsilent" => holds(1)
        /\ param = "forcednonsilent" => holds(0)

\* A driver that registered while the mode stood still knows the mode, when no
\* update is under way and user space has not taken over.
DriversTold ==
    work = "idle" /\ ~cntrl => \A d \in chain \ late : view[d] = enable

\* The hardware state comes to be that of the GPIO after its last edge: the
\* delayed work reads the level late enough, however the interrupts, the work
\* and the suspends fall.  The one exception is an edge that waits for an
\* interrupt that is disabled.
GpioFollowed ==
    <>[](seen => hw_state = 1 - gpio \/ (latched /\ depth > 0))

=============================================================================
