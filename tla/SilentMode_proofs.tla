------------------------- MODULE SilentMode_proofs --------------------------
(***************************************************************************)
(* The kernel, user space and the drivers agree about the silent mode, for *)
(* every number of drivers, edges, suspends and writes.                    *)
(***************************************************************************)
EXTENDS SilentMode, TLAPS

\* Most leaves are first-order; the ones that need more say so.
USE ZenonT(120)

\* The work has looked at the control before user space took it, if it is
\* about to set the mode; and the mode is what was written otherwise.
UserInv ==
    /\ user \in {"idle", "set"}
    /\ user = "set" => cntrl
    /\ work = "set" /\ cntrl => raced
    /\ UserControls

\* In a forced mode nothing that leads to a change of the mode ever begins.
ForcedInv ==
    /\ silent_mode = ParamSet(param)
    /\ user \in {"idle", "set"}
    /\ user = "set" => cntrl
    /\ timer \/ latched \/ work # "idle" => probe = "monitor"
    /\ silent_mode.forced =>
           /\ probe # "monitor"
           /\ hw_state = silent_mode.mode
           /\ cntrl \/ enable = silent_mode.mode

\* A driver knows the mode from when it has read it on, but for the time from
\* a change to the call of the chain.
ToldInv ==
    /\ view = [d \in Drivers |-> view[d]]
    /\ reg \in [Drivers -> {"out", "saw", "in", "done"}]
    /\ chain = {d \in Drivers : reg[d] = "in"}
    /\ user = "set" => cntrl
    /\ ~cntrl =>
           \A d \in Drivers \ late :
               /\ reg[d] = "saw" => view[d] = enable
               /\ reg[d] = "in" /\ work \notin {"hw", "tell"} => view[d] = enable

\* No step of the kernel changes the mode under user space.
LEMMA UserInvStep ==
    UserInv /\ [SilentNext]_silentVars => UserInv'
<1> SUFFICES ASSUME UserInv, [SilentNext]_silentVars PROVE UserInv'
  OBVIOUS
<1>1. CASE Probe \/ Edge \/ Suspend \/ Resume
  <2>1. UNCHANGED <<mode, worker, usr, raced>>
    BY <1>1, Zenon DEF Probe, Edge, Suspend, Resume, hist
  <2> QED
    BY <2>1 DEF UserInv, UserControls, mode, worker, usr
<1>2. CASE WorkRead \/ WorkHw \/ WorkTell
  <2>1. UNCHANGED <<mode, usr, raced>> /\ work' # "set"
    BY <1>2, Zenon DEF WorkRead, WorkHw, WorkTell, hist
  <2> QED
    BY <2>1 DEF UserInv, UserControls, mode, usr
<1>3. CASE WorkCheck
  BY <1>3 DEF UserInv, UserControls, WorkCheck, KernelCheck, mode, usr, hist
<1>4. CASE WorkSet
  BY <1>4 DEF UserInv, UserControls, WorkSet, usr
<1>5. ASSUME NEW v \in UserVals, UserTake(v) PROVE UserInv'
  BY <1>5 DEF UserInv, UserControls, UserTake, worker
<1>6. CASE UserSet
  BY <1>6 DEF UserInv, UserControls, UserSet, worker
<1>7. ASSUME NEW d \in Drivers, RegisterRead(d) \/ RegisterAdd(d) \/ Unregister(d)
      PROVE  UserInv'
  <2>1. UNCHANGED <<mode, worker, usr, raced>>
    BY <1>7, Zenon DEF RegisterRead, RegisterAdd, Unregister, hist
  <2> QED
    BY <2>1 DEF UserInv, UserControls, mode, worker, usr
<1>8. CASE UNCHANGED silentVars
  BY <1>8 DEF UserInv, UserControls, silentVars, mode, worker, usr, hist
<1> QED
  BY <1>1, <1>2, <1>3, <1>4, <1>5, <1>6, <1>7, <1>8 DEF SilentNext, Work

\* What user space has written stays, unless it was written between the test
\* and the assignment of pm_silentmode_kernel_set.
THEOREM UserIsInControl == SilentSpec => []UserControls
<1>1. SilentInit => UserInv
  BY DEF SilentInit, UserInv, UserControls
<1>2. UserInv => UserControls
  BY DEF UserInv
<1> QED
  BY <1>1, <1>2, UserInvStep, PTL DEF SilentSpec

\* The GPIO does not reach a forced mode.
LEMMA ForcedInvStep ==
    ForcedInv /\ [SilentNext]_silentVars => ForcedInv'
<1> SUFFICES ASSUME ForcedInv, [SilentNext]_silentVars PROVE ForcedInv'
  OBVIOUS
<1>0. UNCHANGED <<param, silent_mode>>
  BY Zenon DEF SilentNext, Work, Probe, Edge, Suspend, Resume, WorkRead, WorkCheck,
    WorkSet, WorkHw, WorkTell, UserTake, UserSet, RegisterRead, RegisterAdd,
    Unregister, fixed, silentVars
<1>0a. ParamSet(param)' = ParamSet(param)
  BY <1>0 DEF ParamSet, Found
<1>1. CASE Probe
  BY <1>0, <1>0a, <1>1 DEF ForcedInv, Probe, ForcedModeEnforced, mode, irq, worker, usr
<1>2. CASE Edge
  BY <1>0, <1>0a, <1>2 DEF ForcedInv, Edge, mode, worker, usr
<1>2a. CASE Suspend
  BY <1>0, <1>0a, <1>2a DEF ForcedInv, Suspend, PmCallback, mode, worker, usr
<1>3. CASE Resume
  BY <1>0, <1>0a, <1>3 DEF ForcedInv, Resume, PmCallback, EnableIrq, mode, worker, usr
<1>4. CASE WorkRead \/ WorkCheck
  BY <1>0, <1>0a, <1>4 DEF ForcedInv, WorkRead, WorkCheck, KernelCheck, mode, irq, usr
<1>5. CASE WorkSet
  BY <1>0, <1>0a, <1>5 DEF ForcedInv, WorkSet, irq, usr
<1>5a. CASE WorkHw \/ WorkTell
  BY <1>0, <1>0a, <1>5a DEF ForcedInv, WorkHw, WorkTell, mode, irq, usr
<1>6. ASSUME NEW v \in UserVals, UserTake(v) PROVE ForcedInv'
  BY <1>0, <1>0a, <1>6 DEF ForcedInv, UserTake, irq, worker
<1>7. CASE UserSet
  BY <1>0, <1>0a, <1>7 DEF ForcedInv, UserSet, irq, worker
<1>8. ASSUME NEW d \in Drivers, RegisterRead(d) \/ RegisterAdd(d) \/ Unregister(d)
      PROVE  ForcedInv'
  BY SMT, <1>0, <1>0a, <1>8 DEF ForcedInv, RegisterRead, RegisterAdd, Unregister, mode,
    irq, worker, usr
<1>9. CASE UNCHANGED silentVars
  BY <1>0, <1>0a, <1>9 DEF ForcedInv, silentVars, mode, irq, worker, usr
<1> QED
  BY <1>1, <1>2, <1>2a, <1>3, <1>4, <1>5, <1>5a, <1>6, <1>7, <1>8, <1>9
  DEF SilentNext, Work

\* A mode that the command line forces stays until user space changes it.
THEOREM ForcedModeHolds == SilentSpec => []ForcedHolds
<1>1. SilentInit => ForcedInv
  BY DEF SilentInit, ForcedInv
<1>2. ForcedInv => ForcedHolds
  BY SMT DEF ForcedInv, ForcedHolds, ParamSet, Found
<1> QED
  BY <1>1, <1>2, ForcedInvStep, PTL DEF SilentSpec

\* A change of the mode marks the drivers that register, and comes with a call
\* of the chain for the others.
LEMMA ToldInvStep ==
    ToldInv /\ [SilentNext]_silentVars => ToldInv'
<1> SUFFICES ASSUME ToldInv, [SilentNext]_silentVars PROVE ToldInv'
  OBVIOUS
<1>1. CASE Probe \/ Edge \/ Suspend \/ Resume
  <2>1. UNCHANGED <<mode, worker, usr, clients, late>>
    BY <1>1, Zenon DEF Probe, Edge, Suspend, Resume, hist
  <2> QED
    BY <2>1 DEF ToldInv, mode, worker, usr, clients
<1>2. CASE WorkRead \/ WorkHw
  <2>1. UNCHANGED <<mode, usr, clients, late>>
    BY <1>2, Zenon DEF WorkRead, WorkHw, hist
  <2>2. work' \notin {"hw", "tell"} => work \notin {"hw", "tell"}
    BY <1>2 DEF WorkRead, WorkHw
  <2> QED
    BY <2>1, <2>2 DEF ToldInv, mode, usr, clients
<1>3. CASE WorkCheck
  BY <1>3 DEF ToldInv, WorkCheck, KernelCheck, mode, usr, clients, hist
<1>4. CASE WorkSet
  BY <1>4 DEF ToldInv, WorkSet, Registering, usr, clients
<1>5. CASE WorkTell
  BY <1>5 DEF ToldInv, WorkTell, CallChain, mode, usr, hist
<1>6. ASSUME NEW v \in UserVals, UserTake(v) PROVE ToldInv'
  BY <1>6 DEF ToldInv, UserTake, worker, clients
<1>7. CASE UserSet
  BY <1>7 DEF ToldInv, UserSet, worker, clients
<1>8. ASSUME NEW d \in Drivers, RegisterRead(d) PROVE ToldInv'
  BY <1>8 DEF ToldInv, RegisterRead, mode, worker, usr, hist
<1>9. ASSUME NEW d \in Drivers, RegisterAdd(d) PROVE ToldInv'
  BY <1>9 DEF ToldInv, RegisterAdd, mode, worker, usr, hist
<1>10. ASSUME NEW d \in Drivers, Unregister(d) PROVE ToldInv'
  BY <1>10 DEF ToldInv, Unregister, mode, worker, usr, hist
<1>11. CASE UNCHANGED silentVars
  BY <1>11 DEF ToldInv, silentVars, mode, worker, usr, clients, hist
<1> QED
  BY <1>1, <1>2, <1>3, <1>4, <1>5, <1>6, <1>7, <1>8, <1>9, <1>10, <1>11
  DEF SilentNext, Work

\* A driver that registered while the mode stood still knows the mode.
THEOREM DriversAreTold == SilentSpec => []DriversTold
<1>1. SilentInit => ToldInv
  BY DEF SilentInit, ToldInv, ParamSet, Found
<1>2. ToldInv => DriversTold
  BY DEF ToldInv, DriversTold
<1> QED
  BY <1>1, <1>2, ToldInvStep, PTL DEF SilentSpec

-----------------------------------------------------------------------------
\* The interrupt that a resume enables has been disabled by the suspend before,
\* so the depth of enable_irq and disable_irq never gets below zero.
DepthInv ==
    /\ SilentTypeOK
    /\ probe = "monitor" /\ pm = "suspended" => depth > 0
    /\ probe = "none" => pm = "awake"

\* Every step of the monitor, the timer and the power manager keeps DepthInv.
LEMMA DepthInvStep == DepthInv /\ [SilentNext]_silentVars => DepthInv'
<1> SUFFICES ASSUME DepthInv, [SilentNext]_silentVars PROVE DepthInv'
  OBVIOUS
<1> USE SilentAssumption DEF Bit
<1>1. CASE Probe
  BY SMT, <1>1 DEF DepthInv, SilentTypeOK, Probe, fixed, mode, irq, worker, usr, clients,
    hist
<1>2. CASE Edge
  BY SMT, <1>2 DEF DepthInv, SilentTypeOK, Edge, fixed, mode, worker, usr, clients
<1>3. CASE Suspend
  BY SMT, <1>3 DEF DepthInv, SilentTypeOK, Suspend, PmCallback, DisableIrq, mode, worker,
    usr, clients, hist
<1>4. CASE Resume
  BY SMT, <1>4 DEF DepthInv, SilentTypeOK, Resume, PmCallback, EnableIrq, mode, worker,
    usr, clients, hist
<1>5. CASE WorkRead \/ WorkCheck
  <2>1. CASE WorkRead
    <3>1. timer' \in BOOLEAN /\ trig' \in Bit /\ work' = "check"
      BY <2>1, Zenon DEF DepthInv, SilentTypeOK, WorkRead
    <3>2. UNCHANGED <<fixed, mode, hw_state, gpio, depth, latched, probe, pm, usr,
                      clients, hist, left>>
      BY <2>1, Zenon DEF WorkRead
    <3> QED
      BY SMT, <3>1, <3>2 DEF DepthInv, SilentTypeOK, fixed, mode, usr, clients, hist
  <2>2. CASE WorkCheck
    BY SMT, <2>2 DEF DepthInv, SilentTypeOK, WorkCheck, KernelCheck, fixed, mode, irq, usr,
      clients, hist
  <2> QED
    BY <1>5, <2>1, <2>2
<1>6. CASE WorkSet \/ WorkHw
  BY SMT, <1>6 DEF DepthInv, SilentTypeOK, WorkSet, WorkHw, Registering, fixed, mode, irq,
    usr, clients, hist
<1>7. CASE WorkTell
  BY SMT, <1>7 DEF DepthInv, SilentTypeOK, WorkTell, CallChain, fixed, mode, irq, usr, hist
<1>8. ASSUME NEW v \in UserVals, UserTake(v) PROVE DepthInv'
  BY SMT, <1>8 DEF DepthInv, SilentTypeOK, UserTake, fixed, irq, worker, clients
<1>9. CASE UserSet
  BY SMT, <1>9 DEF DepthInv, SilentTypeOK, UserSet, Registering, fixed, irq, worker,
    clients
<1>10. ASSUME NEW d \in Drivers, RegisterRead(d) \/ RegisterAdd(d) \/ Unregister(d)
       PROVE  DepthInv'
  BY SMT, <1>10 DEF DepthInv, SilentTypeOK, RegisterRead, RegisterAdd, Unregister, fixed,
    mode, irq, worker, usr, hist
<1>11. CASE UNCHANGED silentVars
  BY SMT, <1>11 DEF DepthInv, SilentTypeOK, silentVars, fixed, mode, irq, worker, usr,
    clients, hist
<1> QED
  BY <1>1, <1>2, <1>3, <1>4, <1>5, <1>6, <1>7, <1>8, <1>9, <1>10, <1>11
  DEF SilentNext, Work

\* The type invariant, of which the depth of the disabled interrupt is the part
\* that could fail: enable_irq is never called more often than disable_irq.
THEOREM SilentTypeCorrect == SilentSpec => []SilentTypeOK
<1>1. SilentInit => DepthInv
  <2> SUFFICES ASSUME SilentInit PROVE DepthInv
    OBVIOUS
  <2>1. ParamSet(param) \in [mode: Bit, forced: BOOLEAN]
    BY DEF ParamSet, Bit
  <2>2. silent_mode.mode \in Bit /\ gpio \in Bit
    BY <2>1 DEF SilentInit
  <2>3. reg \in [Drivers -> {"out", "saw", "in", "done"}]
    BY Zenon DEF SilentInit
  <2>4. view \in [Drivers -> Bit \cup UserVals]
    BY Zenon DEF SilentInit, Bit
  <2> QED
    BY <2>1, <2>2, <2>3, <2>4 DEF SilentInit, DepthInv, SilentTypeOK, Bit
<1>2. DepthInv => SilentTypeOK
  BY DEF DepthInv
<1> QED
  BY <1>1, <1>2, DepthInvStep, PTL DEF SilentSpec

=============================================================================
