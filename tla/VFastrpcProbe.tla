--------------------------- MODULE VFastrpcProbe ----------------------------
(***************************************************************************)
(* virt_fastrpc_probe and virt_fastrpc_remove: what is acquired, in which  *)
(* order, what each error label gives back, and the virtio device that     *)
(* writes to the receive buffers it was given.                             *)
(***************************************************************************)
EXTENDS Naturals

CONSTANTS
    NumBufs,   \* me->num_bufs, the size of the vrings
    Failing    \* steps of probe that may fail

ASSUME ProbeAssumption == NumBufs \in Nat \ {0}

Rx == {<<"rx", i>> : i \in 1 .. NumBufs}

Tx == {<<"tx", i>> : i \in 1 .. NumBufs}

\* Resources there is one of.
One(names) == names \X {0}

\* The arrays and the pages of init_vqs.
Buffers == One({"rbufs", "sbufs"}) \cup Rx \cup Tx

Nodes == One({"dev", "secure_dev", "class", "cdev", "chrdev", "debugfs"})

Resources == One({"vqs", "channel"}) \cup Buffers \cup Nodes

VARIABLES
    at,        \* the step of probe or remove that is next
    num,       \* pages of the array that are there
    held,      \* resources acquired and not released
    twice,     \* resources released that were not held
    ready,     \* DRIVER_OK: the device may use the virtqueues
    posted,    \* receive buffers the device may write to
    lied       \* history: an error label was taken with err = 0

probeVars == <<at, num, held, twice, ready, posted, lied>>

ProbeInit ==
    /\ at = "vqs"
    /\ num = 0
    /\ held = {}
    /\ twice = {}
    /\ ready = FALSE
    /\ posted = {}
    /\ lied = FALSE

\* Resources given back, whether they are held or not.
Give(R) ==
    /\ held' = held \ R
    /\ twice' = twice \cup (R \ held)

-----------------------------------------------------------------------------
(***************************************************************************)
(* Probe.                                                                  *)
(***************************************************************************)

\* What is acquired one after the other, besides the pages.
After ==
    [vqs |-> "rbufs", rbufs |-> "sbufs", sbufs |-> "rx",
     channel |-> "debugfs", debugfs |-> "chrdev", chrdev |-> "cdev",
     cdev |-> "class", class |-> "dev", dev |-> "secure_dev",
     secure_dev |-> "ready"]

Acquire ==
    /\ at \in DOMAIN After
    /\ held' = held \cup One({at})
    /\ at' = After[at]
    /\ UNCHANGED <<num, twice, ready, posted, lied>>

\* Wrong: the loop makes one round more.
LastRound_Late == num = NumBufs

\* "i < me->num_bufs" will not hold after this round.
LastRound == num + 1 = NumBufs

\* A round of a loop over the buffers, and what comes after the last.
Round(next) ==
    /\ num' = IF LastRound THEN 0 ELSE num + 1
    /\ at' = IF LastRound THEN next ELSE at

\* The loops of init_vqs over the pages.
AcquirePage ==
    /\ at \in {"rx", "tx"}
    /\ held' = held \cup {<<at, num + 1>>}
    /\ Round(IF at = "rx" THEN "tx" ELSE "channel")
    /\ UNCHANGED <<twice, ready, posted, lied>>

\* Wrong: the pages are freed after the array that names them.
InitBail_ArrayOnly(step) ==
    CASE step = "rbufs" -> One({"vqs"})
      [] step = "sbufs" -> One({"vqs", "rbufs"})
      [] OTHER -> One({"vqs", "rbufs", "sbufs"})

\* The labels of init_vqs: vqs_del, rbuf_del and sbuf_del, which free the pages
\* that are not NULL.
InitBail(step) ==
    CASE step = "rbufs" -> One({"vqs"})
      [] step = "sbufs" -> One({"vqs", "rbufs"})
      [] OTHER -> One({"vqs", "rbufs", "sbufs"}) \cup (held \cap (Rx \cup Tx))

\* The labels of virt_fastrpc_probe, from the one of the step on.
ProbeBail(step) ==
    CASE step = "channel" -> One({"vqs"})
      [] step = "chrdev" -> One({"vqs", "channel"}) \cup (held \cap One({"debugfs"}))
      [] step = "cdev" -> One({"vqs", "channel", "chrdev"}) \cup (held \cap One({"debugfs"}))
      [] step = "class" ->
             One({"vqs", "channel", "chrdev", "cdev"}) \cup (held \cap One({"debugfs"}))
      [] OTHER -> One({"vqs", "channel", "chrdev", "cdev", "class"})
                  \cup (held \cap One({"debugfs", "dev"}))

InitSteps == {"rbufs", "sbufs", "rx", "tx"}

\* Steps whose error is not in err: it is the 0 of cdev_add.
Silent == {"class", "dev", "secure_dev"}

\* The step fails and probe returns.  With err = 0 the device is bound.
ProbeFails ==
    /\ at \in (DOMAIN After \cup {"rx", "tx"}) \ {"debugfs"}
    /\ at \in Failing
    /\ IF at = "vqs" THEN UNCHANGED <<held, twice>>
       ELSE Give(IF at \in InitSteps THEN InitBail(at) ELSE ProbeBail(at))
    /\ at' = IF at \in Silent THEN "bound" ELSE "failed"
    /\ lied' = (at \in Silent)
    /\ UNCHANGED <<num, ready, posted>>

\* Without a debugfs directory probe goes on.
NoDebugfs ==
    /\ at = "debugfs" /\ "debugfs" \in Failing
    /\ at' = After[at]
    /\ UNCHANGED <<num, held, twice, ready, posted, lied>>

\* virtio_device_ready.
DeviceReady ==
    /\ at = "ready"
    /\ ready' = TRUE
    /\ at' = "post"
    /\ UNCHANGED <<num, held, twice, posted, lied>>

\* virtqueue_add_inbuf, once for each receive buffer.
PostBuf ==
    /\ at = "post"
    /\ posted' = posted \cup {<<"rx", num + 1>>}
    /\ Round("bound")
    /\ UNCHANGED <<held, twice, ready, lied>>

-----------------------------------------------------------------------------
(***************************************************************************)
(* Remove, and the device.                                                 *)
(***************************************************************************)

\* The device nodes, the class, the cdev and its region, debugfs, the channels.
RemoveNodes ==
    /\ at = "bound"
    /\ Give((Nodes \ One({"debugfs"})) \cup (held \cap One({"debugfs"}))
            \cup One({"channel"}))
    /\ at' = "reset"
    /\ UNCHANGED <<num, ready, posted, lied>>

\* Wrong: the device is not reset.
ResetDevice_Not == UNCHANGED <<ready, posted>>

\* vdev->config->reset: the device forgets the buffers.
ResetDevice == ready' = FALSE /\ posted' = {}

Reset ==
    /\ at = "reset"
    /\ ResetDevice
    /\ at' = "del_vqs"
    /\ UNCHANGED <<num, held, twice, lied>>

DelVqs ==
    /\ at = "del_vqs"
    /\ Give(One({"vqs"}))
    /\ at' = "free_rx"
    /\ UNCHANGED <<num, ready, posted, lied>>

\* The loops that free the pages.
FreePage ==
    /\ at \in {"free_rx", "free_tx"}
    /\ Give({<<IF at = "free_rx" THEN "rx" ELSE "tx", num + 1>>})
    /\ Round(IF at = "free_rx" THEN "free_tx" ELSE "free_arrays")
    /\ UNCHANGED <<ready, posted, lied>>

FreeArrays == Give(One({"sbufs", "rbufs"}))

Removed ==
    /\ at = "free_arrays"
    /\ FreeArrays
    /\ at' = "removed"
    /\ UNCHANGED <<num, ready, posted, lied>>

\* The back end uses a buffer it was given.
DeviceWrite(b) ==
    /\ ready
    /\ posted' = posted \ {b}
    /\ UNCHANGED <<at, num, held, twice, ready, lied>>

ProbeNext ==
    \/ Acquire
    \/ AcquirePage
    \/ ProbeFails
    \/ NoDebugfs
    \/ DeviceReady
    \/ PostBuf
    \/ RemoveNodes
    \/ Reset
    \/ DelVqs
    \/ FreePage
    \/ Removed
    \/ \E b \in posted : DeviceWrite(b)

ProbeSpec == ProbeInit /\ [][ProbeNext]_probeVars

-----------------------------------------------------------------------------
(***************************************************************************)
(* Properties.                                                             *)
(***************************************************************************)

ProbeTypeOK ==
    /\ at \in DOMAIN After \cup
              {"rx", "tx", "ready", "post", "bound", "failed", "reset", "del_vqs",
               "free_rx", "free_tx", "free_arrays", "removed"}
    /\ num \in 0 .. NumBufs - 1
    /\ held \subseteq Resources
    /\ twice \subseteq Resources
    /\ ready \in BOOLEAN
    /\ posted \subseteq Rx
    /\ lied \in BOOLEAN

\* A probe that fails, wherever it fails, gives back what it acquired, but for
\* the buffers when it fails after init_vqs: no label frees those.  Nothing is
\* given back that is not there, and remove leaves nothing, unless probe had
\* taken an error label and returned 0.
ResourcesBalanced ==
    /\ at = "failed" => held \in {{}, Buffers}
    /\ lied \/ (twice = {} /\ (at = "removed" => held = {}))

\* A buffer that the device may write to is allocated, and so are the virtqueues
\* while the device may use them.
DeviceMemoryHeld == posted \subseteq held /\ (ready => <<"vqs", 0>> \in held)

=============================================================================
