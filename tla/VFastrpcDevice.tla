--------------------------- MODULE VFastrpcDevice ---------------------------
(***************************************************************************)
(* The life of the device with that of a file on it: the file can be used  *)
(* as soon as probe has made a device node, and probe decides whether the  *)
(* file has a debugfs directory.  Nothing in the driver keeps the device   *)
(* while a file is open; what a file does after remove, or after a probe   *)
(* that fails, is not modelled: the nodes of a file in use stay.           *)
(***************************************************************************)
EXTENDS VFastrpcProbe, VFastrpcSession

deviceVars == <<probeVars, sessionVars>>

DeviceInit == ProbeInit /\ SessionInit

\* A device node, with which vfastrpc_open can be called.
HasNode == <<"dev", 0>> \in held

\* me->debugfs_root.
HasDirectory == <<"debugfs", 0>> \in held

\* The file is not opened yet, or is released.
Unused == file = "free" \/ (file = "open" /\ calls = 0)

ProbeStep ==
    /\ ProbeNext
    /\ Unused \/ ~HasNode \/ HasNode'
    /\ UNCHANGED sessionVars

\* The calls of a file and its release.  The back end opens and closes a session
\* only once it may use the virtqueues.
FileStep ==
    /\ HasNode
    /\ \/ \E t \in Threads : \/ ThreadStep(t)
                             \/ HasDirectory /\ Attempt(t)
                             \/ ~HasDirectory /\ NoDirectory(t)
       \/ ReleaseStep
    /\ ready \/ UNCHANGED sessions
    /\ UNCHANGED probeVars

DeviceNext == ProbeStep \/ FileStep

DeviceSpec == DeviceInit /\ [][DeviceNext]_deviceVars

=============================================================================
