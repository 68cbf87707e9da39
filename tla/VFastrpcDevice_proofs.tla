------------------------ MODULE VFastrpcDevice_proofs -----------------------
(***************************************************************************)
(* The life of the device and of a file on it: the probe and the removal   *)
(* of the driver for every number of buffers and every failing step; the   *)
(* debugfs file, the sessions and the domain of a file for every number of *)
(* threads and calls; and the two together.                                *)
(***************************************************************************)
EXTENDS VFastrpcDevice, TLAPS

\* Most leaves are first-order; the ones that need more say so.
USE ZenonT(120)

(***************************************************************************)
(* VFastrpcProbe.                                                          *)
(***************************************************************************)

\* The first n pages of an array.
Pages(k, n) == {<<k, i>> : i \in 1 .. n}

Arrays == One({"rbufs", "sbufs"})

Vqs == One({"vqs"})

\* What probe and remove hold at each step, the debugfs directory aside.
HeldInv ==
    /\ at = "vqs" => held = {}
    /\ at = "rbufs" => held = Vqs
    /\ at = "sbufs" => held = Vqs \cup One({"rbufs"})
    /\ at = "rx" => held = Vqs \cup Arrays \cup Pages("rx", num)
    /\ at = "tx" => held = Vqs \cup Arrays \cup Rx \cup Pages("tx", num)
    /\ at = "channel" => held = Vqs \cup Buffers
    /\ at = "debugfs" => held = Vqs \cup Buffers \cup One({"channel"})
    /\ at \in {"chrdev", "cdev", "class", "dev", "secure_dev", "ready", "post", "bound"} =>
        /\ Vqs \cup Buffers \cup One({"channel"}) \subseteq held
        /\ held \subseteq Resources
        /\ <<"chrdev", 0>> \in held <=> at # "chrdev"
        /\ <<"cdev", 0>> \in held <=> at \notin {"chrdev", "cdev"}
        /\ <<"class", 0>> \in held <=> at \notin {"chrdev", "cdev", "class"}
        /\ <<"dev", 0>> \in held <=> at \in {"secure_dev", "ready", "post", "bound"}
        /\ <<"secure_dev", 0>> \in held <=> at \in {"ready", "post", "bound"}
    /\ at \in {"reset", "del_vqs"} => held = Vqs \cup Buffers
    /\ at = "free_rx" => held = Buffers \ Pages("rx", num)
    /\ at = "free_tx" => held = Buffers \ (Rx \cup Pages("tx", num))
    /\ at = "free_arrays" => held = Arrays
    /\ at = "removed" => held = {}

ProbeInv ==
    /\ ProbeTypeOK
    /\ at \notin {"rx", "tx", "post", "free_rx", "free_tx", "failed"} => num = 0
    /\ at = "failed" => held \in {{}, Buffers}
    /\ lied => at \in {"bound", "reset", "del_vqs", "free_rx", "free_tx", "free_arrays",
                       "removed"}
    /\ ready => at \in {"post", "bound", "reset"} /\ ~lied
    /\ at = "post" => ready
    /\ ~ready => posted = {}
    /\ ~lied => twice = {} /\ HeldInv

\* The resources probe takes, by their names and numbers.
LEMMA OneFacts ==
    /\ \A S, x : x \in One(S) <=> \E s \in S : x = <<s, 0>>
    /\ \A x : x \in Rx <=> \E i \in 1 .. NumBufs : x = <<"rx", i>>
    /\ \A x : x \in Tx <=> \E i \in 1 .. NumBufs : x = <<"tx", i>>
    /\ \A k, n, x : x \in Pages(k, n) <=> \E i \in 1 .. n : x = <<k, i>>
BY SMT DEF One, Rx, Tx, Pages

\* Every step of probe, of its error paths and of remove keeps ProbeInv.
LEMMA ProbeInvStep == ProbeInv /\ [ProbeNext]_probeVars => ProbeInv'
<1> SUFFICES ASSUME ProbeInv, [ProbeNext]_probeVars PROVE ProbeInv'
  OBVIOUS
<1> USE ProbeAssumption
<1>a. DOMAIN After = {"vqs", "rbufs", "sbufs", "channel", "debugfs", "chrdev", "cdev",
                      "class", "dev", "secure_dev"}
  BY DEF After
<1>1. ASSUME Acquire PROVE ProbeInv'
  <2>1. /\ held' = held \cup One({at}) /\ UNCHANGED <<num, twice, ready, posted, lied>>
        /\ at \in DOMAIN After /\ at' = After[at] /\ num = 0 /\ ~lied /\ ~ready
    BY <1>1, <1>a DEF Acquire, ProbeInv
  <2>2. HeldInv'
    <3>1. CASE at \in {"vqs", "rbufs"}
      BY SMT, <2>1, <3>1, OneFacts DEF After, HeldInv, ProbeInv, Vqs
    <3>2. CASE at = "sbufs"
      BY SMT, <2>1, <3>2, OneFacts DEF After, HeldInv, ProbeInv, Vqs, Arrays, Pages
    <3>3. CASE at = "channel"
      BY <2>1, <3>3, OneFacts DEF After, HeldInv, ProbeInv, Vqs
    <3>4. CASE at \in {"debugfs", "chrdev", "cdev", "class", "dev", "secure_dev"}
      BY SMTT(30), <2>1, <3>4, OneFacts DEF After, HeldInv, ProbeInv, Vqs, Buffers, Resources, Nodes
    <3> QED
      BY <1>a, <2>1, <3>1, <3>2, <3>3, <3>4
  <2>3. ProbeTypeOK'
    BY SMT, <1>a, <2>1, OneFacts DEF ProbeInv, ProbeTypeOK, After, Resources, Nodes, Buffers
  <2> QED
    BY SMT, <1>a, <2>1, <2>2, <2>3 DEF ProbeInv, After
<1>2. ASSUME AcquirePage PROVE ProbeInv'
  <2>1. /\ held' = held \cup {<<at, num + 1>>} /\ UNCHANGED <<twice, ready, posted, lied>>
        /\ at \in {"rx", "tx"} /\ num \in 0 .. NumBufs - 1 /\ ~lied /\ ~ready /\ posted = {}
        /\ num' = IF num + 1 = NumBufs THEN 0 ELSE num + 1
        /\ at' = IF num + 1 = NumBufs THEN (IF at = "rx" THEN "tx" ELSE "channel") ELSE at
    BY <1>2 DEF AcquirePage, Round, LastRound, ProbeInv, ProbeTypeOK
  <2>2. HeldInv'
    <3>1. CASE at = "rx"
      BY SMT, <2>1, <3>1, OneFacts DEF HeldInv, ProbeInv
    <3>2. CASE at = "tx"
      BY SMT, <2>1, <3>2, OneFacts DEF HeldInv, ProbeInv, Buffers, Arrays
    <3> QED
      BY <2>1, <3>1, <3>2
  <2>3. ProbeTypeOK'
    BY SMT, <1>a, <2>1, OneFacts DEF ProbeInv, ProbeTypeOK, Resources, Buffers
  <2> QED
    BY <1>a, <2>1, <2>2, <2>3 DEF ProbeInv
<1>3. ASSUME ProbeFails PROVE ProbeInv'
  <2>1. /\ at \in {"vqs", "rbufs", "sbufs", "rx", "tx", "channel", "chrdev", "cdev", "class",
                   "dev", "secure_dev"}
        /\ UNCHANGED <<num, ready, posted>> /\ ~lied /\ ~ready /\ posted = {} /\ HeldInv
        /\ twice = {}
        /\ at' = IF at \in Silent THEN "bound" ELSE "failed"
        /\ lied' = (at \in Silent)
    BY <1>3, <1>a DEF ProbeFails, ProbeInv
  <2>2. at \in Silent => num = 0
    BY <2>1 DEF ProbeInv, Silent
  <2>3. ASSUME at \in {"rbufs", "sbufs", "rx", "tx"} PROVE held' = {} /\ twice' = {}
    <3>1. Give(InitBail(at))
      BY <1>3, <2>3 DEF ProbeFails, InitSteps
    <3>2. InitBail(at) = held
      <4>0. One({"vqs", "rbufs"}) = Vqs \cup One({"rbufs"})
        BY SMT, OneFacts DEF Vqs
      <4>1. CASE at \in {"rbufs", "sbufs"}
        BY <2>1, <4>0, <4>1 DEF InitBail, HeldInv, Vqs
      <4>2. CASE at \in {"rx", "tx"}
        <5>1. InitBail(at) = Vqs \cup Arrays \cup (held \cap (Rx \cup Tx))
          BY SMTT(30), <4>2, OneFacts DEF InitBail, Vqs, Arrays
        <5>2. Vqs \cup Arrays \subseteq held /\ held \subseteq Vqs \cup Arrays \cup Rx \cup Tx
          BY SMT, <2>1, <4>2, OneFacts DEF HeldInv, ProbeInv, ProbeTypeOK
        <5> QED
          BY <5>1, <5>2
      <4> QED
        BY <2>3, <4>1, <4>2
    <3> QED
      BY <2>1, <3>1, <3>2 DEF Give
  <2>4. ASSUME at \in {"channel", "chrdev", "cdev"} PROVE held' = Buffers /\ twice' = {}
    <3>1. Give(ProbeBail(at))
      BY <1>3, <2>4 DEF ProbeFails, InitSteps
    <3>2. ProbeBail(at) = held \ Buffers /\ Buffers \subseteq held
      BY SMT, <2>1, <2>4, OneFacts DEF ProbeBail, HeldInv, Vqs, Buffers, Resources, Nodes
    <3> QED
      BY <2>1, <3>1, <3>2 DEF Give
  <2>5. ASSUME at \in Silent PROVE held' \subseteq Resources /\ twice' \subseteq Resources
    <3>1. Give(ProbeBail(at))
      BY <1>3, <2>5 DEF ProbeFails, InitSteps, Silent
    <3>2. ProbeBail(at) \subseteq Resources
      BY SMT, <2>5, OneFacts DEF ProbeBail, Silent, Resources, Nodes, ProbeInv, ProbeTypeOK
    <3> QED
      BY <2>1, <3>1, <3>2 DEF Give, ProbeInv, ProbeTypeOK
  <2>6. ASSUME at = "vqs" PROVE held' = {} /\ twice' = {}
    BY <1>3, <2>1, <2>6 DEF ProbeFails, HeldInv
  <2>7. Buffers \subseteq Resources
    BY DEF Resources
  <2>8. at \in Silent => ProbeInv'
    BY <2>1, <2>2, <2>5 DEF ProbeInv, ProbeTypeOK
  <2>9. at \notin Silent => ProbeInv'
    BY SMT, <2>1, <2>3, <2>4, <2>6, <2>7 DEF ProbeInv, ProbeTypeOK, Silent, HeldInv
  <2> QED
    BY <2>8, <2>9
<1>4. ASSUME NoDebugfs PROVE ProbeInv'
  <2>1. /\ at = "debugfs" /\ at' = "chrdev" /\ UNCHANGED <<num, held, twice, ready, posted, lied>>
        /\ num = 0 /\ ~lied /\ ~ready /\ posted = {} /\ HeldInv
    BY <1>4 DEF NoDebugfs, After, ProbeInv
  <2>2. HeldInv'
    BY SMT, <2>1, OneFacts DEF HeldInv, Vqs, Buffers, Resources, Nodes
  <2> QED
    BY <1>a, <2>1, <2>2 DEF ProbeInv, ProbeTypeOK
<1>5. ASSUME DeviceReady PROVE ProbeInv'
  BY <1>5 DEF DeviceReady, ProbeInv, ProbeTypeOK, HeldInv
<1>6. ASSUME PostBuf PROVE ProbeInv'
  <2>1. /\ at = "post" /\ ~lied /\ UNCHANGED <<held, twice, ready, lied>>
        /\ num \in 0 .. NumBufs - 1 /\ posted' = posted \cup {<<"rx", num + 1>>}
        /\ \/ at' = "post" /\ num' = num + 1 /\ num + 1 # NumBufs
           \/ at' = "bound" /\ num' = 0
    BY <1>6 DEF PostBuf, Round, LastRound, ProbeInv, ProbeTypeOK
  <2>2. posted' \subseteq Rx
    BY SMT, <2>1, OneFacts DEF ProbeInv, ProbeTypeOK
  <2>3. HeldInv'
    BY <2>1 DEF ProbeInv, HeldInv
  <2>4. ready
    BY <2>1 DEF ProbeInv
  <2> QED
    BY SMT, <2>1, <2>2, <2>3, <2>4 DEF ProbeInv, ProbeTypeOK
<1>7. ASSUME RemoveNodes PROVE ProbeInv'
  <2>1. /\ at = "bound" /\ at' = "reset" /\ UNCHANGED <<num, ready, posted, lied>>
        /\ num = 0
        /\ Give((Nodes \ One({"debugfs"})) \cup (held \cap One({"debugfs"}))
                \cup One({"channel"}))
    BY <1>7 DEF RemoveNodes, ProbeInv
  <2>2. held' \subseteq Resources /\ twice' \subseteq Resources
    BY SMT, <2>1, OneFacts DEF Give, ProbeInv, ProbeTypeOK, Resources, Nodes
  <2>3. ~lied => twice' = {} /\ held' = Vqs \cup Buffers
    BY SMT, <2>1, OneFacts DEF Give, ProbeInv, HeldInv, Resources, Nodes, Vqs, Buffers
  <2> QED
    BY <2>1, <2>2, <2>3 DEF ProbeInv, ProbeTypeOK, HeldInv
<1>8. ASSUME Reset PROVE ProbeInv'
  BY <1>8 DEF Reset, ResetDevice, ProbeInv, ProbeTypeOK, HeldInv
<1>9. ASSUME DelVqs PROVE ProbeInv'
  <2>1. /\ at = "del_vqs" /\ at' = "free_rx" /\ UNCHANGED <<num, ready, posted, lied>>
        /\ num = 0 /\ Give(Vqs)
    BY <1>9 DEF DelVqs, ProbeInv, Vqs
  <2>2. held' \subseteq Resources /\ twice' \subseteq Resources
    BY SMT, <2>1, OneFacts DEF Give, ProbeInv, ProbeTypeOK, Resources, Vqs
  <2>3. ~lied => twice' = {} /\ held' = Buffers \ Pages("rx", 0)
    BY SMT, <2>1, OneFacts DEF Give, ProbeInv, HeldInv, Vqs, Buffers
  <2> QED
    BY <2>1, <2>2, <2>3 DEF ProbeInv, ProbeTypeOK, HeldInv
<1>10. ASSUME FreePage PROVE ProbeInv'
  <2>1. /\ at \in {"free_rx", "free_tx"} /\ UNCHANGED <<ready, posted, lied>>
        /\ num \in 0 .. NumBufs - 1 /\ ~ready /\ posted = {}
        /\ num' = IF num + 1 = NumBufs THEN 0 ELSE num + 1
        /\ at' = IF num + 1 = NumBufs
                 THEN (IF at = "free_rx" THEN "free_tx" ELSE "free_arrays") ELSE at
    BY <1>10 DEF FreePage, Round, LastRound, ProbeInv, ProbeTypeOK
  <2>2. ASSUME at = "free_rx"
        PROVE  /\ held' \subseteq Resources /\ twice' \subseteq Resources
               /\ ~lied => twice' = {} /\ HeldInv'
    <3>1. held' = held \ {<<"rx", num + 1>>} /\ twice' = twice \cup ({<<"rx", num + 1>>} \ held)
      BY <1>10, <2>2 DEF FreePage, Give
    <3>2. <<"rx", num + 1>> \in Rx /\ <<"rx", num + 1>> \notin Pages("rx", num)
      BY SMT, <2>1, OneFacts
    <3>3. Pages("rx", num + 1) = Pages("rx", num) \cup {<<"rx", num + 1>>}
      BY SMT, <2>1, OneFacts
    <3>4. Pages("rx", NumBufs) = Rx /\ Pages("tx", 0) = {}
      BY SMT DEF Pages, Rx
    <3>5. Rx \subseteq Buffers /\ Buffers \subseteq Resources
      BY DEF Buffers, Resources
    <3> QED
      BY SMT, <2>1, <2>2, <3>1, <3>2, <3>3, <3>4, <3>5 DEF ProbeInv, ProbeTypeOK, HeldInv
  <2>3. ASSUME at = "free_tx"
        PROVE  /\ held' \subseteq Resources /\ twice' \subseteq Resources
               /\ ~lied => twice' = {} /\ HeldInv'
    <3>1. held' = held \ {<<"tx", num + 1>>} /\ twice' = twice \cup ({<<"tx", num + 1>>} \ held)
      BY <1>10, <2>3 DEF FreePage, Give
    <3>2. /\ <<"tx", num + 1>> \in Tx /\ <<"tx", num + 1>> \notin Pages("tx", num)
          /\ <<"tx", num + 1>> \notin Rx
      BY SMT, <2>1, OneFacts
    <3>3. Pages("tx", num + 1) = Pages("tx", num) \cup {<<"tx", num + 1>>}
      BY SMT, <2>1, OneFacts
    <3>4. Pages("tx", NumBufs) = Tx /\ Buffers \ (Rx \cup Tx) = Arrays
      <4>1. Pages("tx", NumBufs) = Tx
        BY DEF Pages, Tx
      <4>2. Buffers = Arrays \cup Rx \cup Tx
        BY DEF Buffers, Arrays
      <4>3. \A x \in Arrays : x \notin Rx \cup Tx
        BY SMT, OneFacts DEF Arrays
      <4> QED
        BY <4>1, <4>2, <4>3
    <3>5. Tx \subseteq Buffers /\ Buffers \subseteq Resources
      BY DEF Buffers, Resources
    <3> QED
      BY SMT, <2>1, <2>3, <3>1, <3>2, <3>3, <3>4, <3>5 DEF ProbeInv, ProbeTypeOK, HeldInv
  <2> QED
    BY SMT, <2>1, <2>2, <2>3 DEF ProbeInv, ProbeTypeOK
<1>11. ASSUME Removed PROVE ProbeInv'
  <2>1. /\ at = "free_arrays" /\ at' = "removed" /\ UNCHANGED <<num, ready, posted, lied>>
        /\ Give(Arrays)
    <3>1. One({"sbufs", "rbufs"}) = Arrays
      BY DEF Arrays, One
    <3> QED
      BY <1>11, <3>1 DEF Removed, FreeArrays
  <2>2. Arrays \subseteq Resources
    BY DEF Arrays, Resources, Buffers
  <2>3. /\ held' \subseteq Resources /\ twice' \subseteq Resources
        /\ ~lied => twice' = {} /\ held' = {}
    BY <2>1, <2>2 DEF Give, ProbeInv, ProbeTypeOK, HeldInv
  <2> QED
    BY <2>1, <2>3 DEF ProbeInv, ProbeTypeOK, HeldInv
<1>12. ASSUME NEW b \in posted, DeviceWrite(b) PROVE ProbeInv'
  BY <1>12 DEF DeviceWrite, ProbeInv, ProbeTypeOK, HeldInv
<1>13. ASSUME UNCHANGED probeVars PROVE ProbeInv'
  BY SMT, <1>13 DEF probeVars, ProbeInv, ProbeTypeOK, HeldInv
<1> QED
  BY <1>1, <1>2, <1>3, <1>4, <1>5, <1>6, <1>7, <1>8, <1>9, <1>10, <1>11, <1>12, <1>13
     DEF ProbeNext

\* ProbeInv holds in every state.
LEMMA ProbeInvHolds == ProbeSpec => []ProbeInv
<1>1. ProbeInit => ProbeInv
  <2>1. 0 \in 0 .. NumBufs - 1 /\ "vqs" \in DOMAIN After
    BY SMT, ProbeAssumption DEF After
  <2> QED
    BY <2>1 DEF ProbeInit, ProbeInv, ProbeTypeOK, HeldInv
<1> QED
  BY <1>1, ProbeInvStep, PTL DEF ProbeSpec

\* The state of probe and remove is well typed: the loop counter stays below
\* num_bufs, and only receive pages are given to the device.
THEOREM ProbeTypesAreKept == ProbeSpec => []ProbeTypeOK
<1>1. ProbeInv => ProbeTypeOK
  BY DEF ProbeInv
<1> QED
  BY <1>1, ProbeInvHolds, PTL

\* However many buffers there are and whichever step of probe fails: the error
\* labels give back what was acquired (but for the buffers of init_vqs), nothing
\* is given back twice, and remove leaves nothing, unless probe took an error
\* label and returned 0.
THEOREM ProbeBalancesResources == ProbeSpec => []ResourcesBalanced
<1>1. ProbeInv => ResourcesBalanced
  BY DEF ProbeInv, HeldInv, ResourcesBalanced
<1> QED
  BY <1>1, ProbeInvHolds, PTL

\* The device only writes to receive pages that are allocated, and only uses
\* virtqueues that exist: remove resets it before it frees either.
THEOREM DeviceMemoryIsHeld == ProbeSpec => []DeviceMemoryHeld
<1>1. ProbeInv => DeviceMemoryHeld
  <2> SUFFICES ASSUME ProbeInv PROVE DeviceMemoryHeld
    OBVIOUS
  <2>1. CASE ready
    <3>1. at \in {"post", "bound", "reset"} /\ ~lied
      BY <2>1 DEF ProbeInv
    <3>2. Vqs \subseteq held /\ Rx \subseteq held
      BY <3>1 DEF ProbeInv, HeldInv, Buffers
    <3>3. <<"vqs", 0>> \in Vqs
      BY DEF Vqs, One
    <3> QED
      BY <3>2, <3>3 DEF DeviceMemoryHeld, ProbeInv, ProbeTypeOK
  <2>2. CASE ~ready
    BY <2>2 DEF DeviceMemoryHeld, ProbeInv
  <2> QED
    BY <2>1, <2>2
<1> QED
  BY <1>1, ProbeInvHolds, PTL

-----------------------------------------------------------------------------
(***************************************************************************)
(* VFastrpcSession.                                                        *)
(***************************************************************************)

\* No debug buffer and no debugfs file.
NoDebug == debug_buf = NULL /\ bufs = {} /\ debugfs_file = NULL /\ dentries = {}

\* The thread that set debug_buf_alloced_attempted is the one that works on the
\* buffer and the debugfs file until both exist or the flag is cleared.
DebugInv ==
    /\ debug_buf \in Threads \cup {NULL} /\ debugfs_file \in Threads \cup {NULL}
    /\ bufs = {debug_buf} \ {NULL}
    /\ dentries = {debugfs_file} \ {NULL}
    /\ \A t, u \in Threads :
           pc[t] \in {"alloc", "create", "clear"} /\ pc[u] \in {"alloc", "create", "clear"}
               => t = u
    /\ \A t \in Threads :
           /\ pc[t] \in {"alloc", "create", "clear"} => attempted
           /\ pc[t] \in {"alloc", "clear"} => NoDebug
           /\ pc[t] = "create" => debugfs_file = NULL
    /\ ~attempted => NoDebug
    /\ file \in {"close", "free"} => NoDebug

\* Nothing runs when the file is released.
ReleaseInv == file # "open" => \A t \in Threads : pc[t] = "idle"

\* A session has the channel id of the file, one it had, or one that a thread is
\* about to store; and with a channel id comes dsp_proc_init.
OpenInv ==
    /\ ans \in [Threads -> Cids \cup {NULL}]
    /\ \A s \in sessions :
           \/ s.cid # NULL /\ s.cid = cid
           \/ s.cid \in overwritten
           \/ s.cid # NULL /\ \E t \in Threads : pc[t] = "opened" /\ ans[t] = s.cid
    /\ cid # NULL => dsp_proc_init \/ \E t \in Threads : pc[t] = "proc"
    /\ SessionsClosed

\* Unless there was a race, a thread that chooses the domain is alone.
DomainInv ==
    /\ \A t \in Threads : pc[t] = "choose" => arg[t] \in Domains
    /\ sessions # {} => domain # NULL
    /\ ~raced => /\ \A t \in Threads : pc[t] = "choose" => domain = NULL
                 /\ \A t, u \in Threads : pc[t] = "choose" /\ pc[u] = "choose" => t = u
                 /\ \A s \in sessions : s.domain = domain

SessionInv ==
    /\ pc \in [Threads -> Points]
    /\ DebugInv
    /\ ReleaseInv
    /\ OpenInv
    /\ DomainInv

\* A file opens with SessionInv.
LEMMA SessionInvInit == SessionInit => SessionInv
BY SessionAssumption DEF SessionInit, SessionInv, DebugInv, ReleaseInv, OpenInv,
  DomainInv, NoDebug, Points, SessionsClosed

\* The step of a thread on the debug buffer and the debugfs file.
DebugStep(t) ==
    \/ Attempt(t) \/ AllocDebug(t) \/ AllocDebugFails(t) \/ CreateDebug(t)
    \/ CreateDebugFails(t) \/ ClearAttempted(t) \/ NoDirectory(t)

\* The steps that create the debugfs file keep SessionInv.
LEMMA DebugSteps ==
    ASSUME SessionInv, NEW t \in Threads, DebugStep(t)
    PROVE  SessionInv'
<1>0. /\ pc \in [Threads -> Points]
      /\ DebugInv /\ ReleaseInv /\ OpenInv /\ DomainInv
  BY DEF SessionInv
<1>1. /\ UNCHANGED <<file, domain, openVars, arg, raced, unclosed>>
      /\ pc[t] \in {"attempt", "alloc", "create", "clear"}
      /\ \E p \in {"idle", "domain", "alloc", "create", "clear"} :
            pc' = [pc EXCEPT ![t] = p]
  BY DEF DebugStep, Attempt, AllocDebug, AllocDebugFails, CreateDebug,
    CreateDebugFails, ClearAttempted, NoDirectory, Go
<1>2. pc' \in [Threads -> Points] /\ ReleaseInv'
  BY <1>0, <1>1 DEF Points, ReleaseInv
<1>3. OpenInv'
  BY <1>0, <1>1 DEF OpenInv, openVars, SessionsClosed
<1>4. DomainInv'
  BY <1>0, <1>1 DEF DomainInv, openVars
<1>5. file = "open"
  BY <1>0, <1>1 DEF ReleaseInv
<1>6. DebugInv'
  <2>1. CASE Attempt(t)
    BY <1>0, <1>5, <2>1 DEF DebugInv, NoDebug, Attempt, Go
  <2>2. CASE AllocDebug(t)
    BY <1>0, <1>5, <2>2, SessionAssumption DEF DebugInv, NoDebug, AllocDebug, Go
  <2>3. CASE AllocDebugFails(t)
    BY <1>0, <1>5, <2>3 DEF DebugInv, NoDebug, AllocDebugFails, Go
  <2>4. CASE CreateDebug(t)
    BY <1>0, <1>5, <2>4, SessionAssumption DEF DebugInv, NoDebug, CreateDebug, Go
  <2>5. CASE CreateDebugFails(t)
    BY <1>0, <1>5, <2>5 DEF DebugInv, NoDebug, CreateDebugFails, Go
  <2>6. CASE ClearAttempted(t)
    BY <1>0, <1>5, <2>6 DEF DebugInv, NoDebug, ClearAttempted, Go
  <2>7. CASE NoDirectory(t)
    BY <1>0, <1>5, <2>7 DEF DebugInv, NoDebug, NoDirectory, Go, debugVars
  <2> QED
    BY <2>1, <2>2, <2>3, <2>4, <2>5, <2>6, <2>7 DEF DebugStep
<1> QED
  BY <1>2, <1>3, <1>4, <1>6 DEF SessionInv

\* A step that does not touch the debug buffer leaves DebugInv alone.
LEMMA DebugFrame ==
    ASSUME SessionInv, NEW t \in Threads, NEW p \in Points,
           UNCHANGED <<file, debugVars>>, pc' = [pc EXCEPT ![t] = p],
           p \notin {"alloc", "create", "clear"}
    PROVE  DebugInv'
BY DEF SessionInv, DebugInv, NoDebug, debugVars

\* The steps of GETINFO on the domain.
LEMMA DomainSteps ==
    ASSUME SessionInv, NEW t \in Threads,
           \/ \E d \in Domains \cup OtherDomains : GetInfo(t, d)
           \/ CheckDomain(t) \/ ChooseDomain(t)
    PROVE  SessionInv'
<1>0. /\ pc \in [Threads -> Points]
      /\ ReleaseInv /\ OpenInv /\ DomainInv
  BY DEF SessionInv
<1>1. PICK p \in {"attempt", "choose", "idle"} : pc' = [pc EXCEPT ![t] = p]
  BY DEF GetInfo, Begin, CheckDomain, ChooseDomain, Go
<1>2. /\ UNCHANGED <<file, debugVars, openVars, unclosed>>
      /\ pc[t] \in {"idle", "domain", "choose"}
      /\ p # "idle" => file = "open" \/ pc[t] # "idle"
  BY <1>0, <1>1 DEF GetInfo, Begin, CheckDomain, ChooseDomain, Go
<1>3. pc' \in [Threads -> Points] /\ ReleaseInv'
  BY <1>0, <1>1, <1>2 DEF Points, ReleaseInv
<1>4. DebugInv'
  BY <1>1, <1>2, DebugFrame DEF Points
<1>5. OpenInv'
  BY <1>0, <1>1, <1>2 DEF OpenInv, openVars, SessionsClosed
<1>6. DomainInv'
  <2>1. ASSUME NEW d \in Domains \cup OtherDomains, GetInfo(t, d)
        PROVE  DomainInv'
    <3>1. \A u \in Threads : pc[u] = "choose" => u # t
      BY <2>1 DEF GetInfo, Begin, Go
    <3>2. \A u \in Threads : u # t => arg'[u] = arg[u]
      BY SMT, <2>1 DEF GetInfo
    <3> QED
      BY <1>0, <2>1, <3>1, <3>2 DEF DomainInv, GetInfo, Begin, Go, openVars
  <2>2. CASE CheckDomain(t)
    BY <1>0, <2>2 DEF DomainInv, CheckDomain, Unset, Valid, Go, openVars
  <2>3. CASE ChooseDomain(t)
    <3>1. arg[t] \in Domains /\ arg[t] # NULL
      BY <1>0, <2>3, SessionAssumption DEF DomainInv, ChooseDomain, Go
    <3> QED
      BY <1>0, <2>3, <3>1 DEF DomainInv, ChooseDomain, Go, openVars
  <2> QED
    BY <2>1, <2>2, <2>3
<1> QED
  BY <1>3, <1>4, <1>5, <1>6 DEF SessionInv

\* The steps of INIT.
LEMMA OpenSteps ==
    ASSUME SessionInv, NEW t \in Threads,
           InitProcess(t) \/ OpenSession(t) \/ OpenFails(t) \/ Opened(t) \/ ProcInit(t)
    PROVE  SessionInv'
<1>0. /\ pc \in [Threads -> Points]
      /\ ReleaseInv /\ OpenInv /\ DomainInv
  BY DEF SessionInv
<1>1. PICK p \in {"open", "opened", "proc", "idle"} : pc' = [pc EXCEPT ![t] = p]
  BY DEF InitProcess, Begin, OpenSession, OpenFails, Opened, ProcInit, Go
<1>2. /\ UNCHANGED <<file, debugVars, domain, arg, raced, unclosed>>
      /\ pc[t] \in {"idle", "open", "opened", "proc"}
      /\ file = "open"
  BY <1>0, <1>1 DEF InitProcess, Begin, OpenSession, OpenFails, Opened, ProcInit, Go,
    ReleaseInv
<1>3. pc' \in [Threads -> Points] /\ ReleaseInv'
  BY <1>0, <1>1, <1>2 DEF Points, ReleaseInv
<1>4. DebugInv'
  BY <1>1, <1>2, DebugFrame DEF Points
<1>5. DomainInv'
  <2>1. CASE InitProcess(t)
    BY <1>0, <2>1 DEF DomainInv, InitProcess, Begin, Go, openVars
  <2>2. CASE OpenSession(t)
    BY SMT, <1>0, <2>2 DEF DomainInv, OpenSession, Go
  <2>3. CASE OpenFails(t) \/ Opened(t) \/ ProcInit(t)
    BY <1>0, <2>3 DEF DomainInv, OpenFails, Opened, ProcInit, Go, openVars
  <2> QED
    BY <2>1, <2>2, <2>3
<1>6. OpenInv'
  <2>1. CASE InitProcess(t) \/ OpenFails(t)
    BY <1>0, <1>2, <2>1 DEF OpenInv, InitProcess, Begin, OpenFails, Go, openVars,
      SessionsClosed
  <2>2. CASE OpenSession(t)
    <3>1. PICK c \in Cids :
            /\ sessions' = sessions \cup {[cid |-> c, domain |-> domain]}
            /\ ans' = [ans EXCEPT ![t] = c]
      BY <2>2 DEF OpenSession
    <3>2. c # NULL /\ ans'[t] = c /\ pc'[t] = "opened"
      BY <1>0, <2>2, <3>1, SessionAssumption DEF OpenInv, OpenSession, Go
    <3>3. \A u \in Threads : pc[u] = "opened" => pc'[u] = "opened" /\ ans'[u] = ans[u]
      BY <1>0, <2>2, <3>1 DEF OpenInv, OpenSession, Go
    <3>4. \A u \in Threads : pc[u] = "proc" => pc'[u] = "proc"
      BY <1>0, <2>2 DEF OpenSession, Go
    <3>5. UNCHANGED <<cid, dsp_proc_init, overwritten>>
      BY <2>2 DEF OpenSession
    <3> QED
      BY SMT, <1>0, <1>2, <3>1, <3>2, <3>3, <3>4, <3>5 DEF OpenInv, SessionsClosed
  <2>3. CASE Opened(t)
    BY <1>0, <1>2, <2>3 DEF OpenInv, Opened, TakeCid, Go, SessionsClosed
  <2>4. CASE ProcInit(t)
    BY <1>0, <1>2, <2>4 DEF OpenInv, ProcInit, Go, SessionsClosed
  <2> QED
    BY <2>1, <2>2, <2>3, <2>4
<1> QED
  BY <1>3, <1>4, <1>5, <1>6 DEF SessionInv

\* The release.
LEMMA ReleaseSteps ==
    ASSUME SessionInv, Release \/ ReleaseDebug \/ Close
    PROVE  SessionInv'
<1>0. /\ pc \in [Threads -> Points]
      /\ DebugInv /\ ReleaseInv /\ OpenInv /\ DomainInv
  BY DEF SessionInv
<1>1. UNCHANGED <<pc, domain, cid, dsp_proc_init, ans, overwritten, arg, raced>>
  BY DEF Release, ReleaseDebug, Close, openVars
<1>2. ReleaseInv' /\ \A t \in Threads : pc[t] = "idle"
  BY <1>0, <1>1 DEF ReleaseInv, Release, ReleaseDebug, Close
<1>3. DebugInv'
  <2>1. CASE Release
    BY <1>0, <2>1 DEF DebugInv, NoDebug, Release, debugVars
  <2>2. CASE ReleaseDebug
    BY <1>0, <1>1, <1>2, <2>2 DEF DebugInv, NoDebug, ReleaseDebug, RemoveDebug
  <2>3. CASE Close
    BY <1>0, <2>3 DEF DebugInv, NoDebug, Close, debugVars
  <2> QED
    BY <2>1, <2>2, <2>3
<1>4. OpenInv'
  <2>1. CASE Release \/ ReleaseDebug
    BY <1>0, <1>1, <2>1 DEF OpenInv, Release, ReleaseDebug, openVars, SessionsClosed
  <2>2. CASE Close
    BY SMT, <1>0, <1>1, <1>2, <2>2 DEF OpenInv, Close, SessionsClosed
  <2> QED
    BY <2>1, <2>2
<1>5. DomainInv'
  BY <1>0, <1>1 DEF DomainInv, Release, ReleaseDebug, Close, openVars
<1> QED
  BY <1>0, <1>1, <1>2, <1>3, <1>4, <1>5 DEF SessionInv

\* Every step of the ioctls that set a file up, and of its release, keeps
\* SessionInv.
LEMMA SessionInvStep == SessionInv /\ [SessionNext]_sessionVars => SessionInv'
<1>1. CASE SessionInv /\ SessionNext
  BY <1>1, DebugSteps, DomainSteps, OpenSteps, ReleaseSteps, Zenon
  DEF SessionNext, ThreadStep, ReleaseStep, DebugStep
<1>2. CASE SessionInv /\ UNCHANGED sessionVars
  BY <1>2 DEF SessionInv, DebugInv, ReleaseInv, OpenInv, DomainInv, NoDebug,
    SessionsClosed, sessionVars, debugVars, openVars
<1> QED
  BY <1>1, <1>2

\* SessionInv holds in every state.
LEMMA SessionInvHolds == SessionSpec => []SessionInv
BY SessionInvInit, SessionInvStep, PTL DEF SessionSpec

\* One debug buffer and one debugfs file, which the release removes, although
\* the flag is all that the lock guards.
THEOREM DebugIsAccounted == SessionSpec => []DebugAccounted
<1>1. SessionInv => DebugAccounted
  BY DEF SessionInv, DebugInv, NoDebug, DebugAccounted
<1> QED
  BY <1>1, SessionInvHolds, PTL

\* The release closes the session of the last INIT.
THEOREM SessionsAreClosed == SessionSpec => []SessionsClosed
<1>1. SessionInv => SessionsClosed
  BY DEF SessionInv, OpenInv
<1> QED
  BY <1>1, SessionInvHolds, PTL

\* Without a race of two GETINFOs, sessions are of the domain of the file.
THEOREM SessionsAreOfDomain == SessionSpec => []SessionsOfDomain
<1>1. SessionInv => SessionsOfDomain
  BY DEF SessionInv, DomainInv, SessionsOfDomain
<1> QED
  BY <1>1, SessionInvHolds, PTL

-----------------------------------------------------------------------------

\* Every step of a file keeps the types.
LEMMA SessionTypeStep ==
    SessionInv /\ SessionTypeOK /\ [SessionNext]_sessionVars => SessionTypeOK'
<1> SUFFICES ASSUME SessionInv, SessionTypeOK, [SessionNext]_sessionVars
             PROVE  SessionTypeOK'
  OBVIOUS
<1> USE SessionAssumption
<1>1. ASSUME NEW t \in Threads, NEW d \in Domains \cup OtherDomains, GetInfo(t, d)
      PROVE  SessionTypeOK'
  BY SMT, <1>1 DEF SessionTypeOK, GetInfo, Begin, Go, Points, debugVars, openVars
<1>2. ASSUME NEW t \in Threads, DebugStep(t) PROVE SessionTypeOK'
  <2>1. CASE Attempt(t)
    BY <2>1 DEF SessionTypeOK, Attempt, Go, Points, openVars
  <2>2. CASE AllocDebug(t) \/ AllocDebugFails(t)
    <3>1. CASE AllocDebug(t)
      BY <3>1 DEF SessionTypeOK, AllocDebug, Go, Points, openVars
    <3>2. CASE AllocDebugFails(t)
      BY <3>2 DEF SessionTypeOK, AllocDebugFails, Go, Points, openVars
    <3> QED
      BY <2>2, <3>1, <3>2
  <2>3. CASE CreateDebug(t) \/ CreateDebugFails(t)
    BY SMT, <2>3 DEF SessionTypeOK, CreateDebug, CreateDebugFails, Go, Points, openVars
  <2>4. CASE ClearAttempted(t)
    BY <2>4 DEF SessionTypeOK, ClearAttempted, Go, Points, openVars
  <2>5. CASE NoDirectory(t)
    BY <2>5 DEF SessionTypeOK, NoDirectory, Go, Points, debugVars, openVars
  <2> QED
    BY <1>2, <2>1, <2>2, <2>3, <2>4, <2>5 DEF DebugStep
<1>3. ASSUME NEW t \in Threads, CheckDomain(t) PROVE SessionTypeOK'
  BY SMT, <1>3 DEF SessionTypeOK, CheckDomain, Go, Points, debugVars, openVars
<1>4. ASSUME NEW t \in Threads, ChooseDomain(t) PROVE SessionTypeOK'
  BY <1>4 DEF SessionTypeOK, SessionInv, DomainInv, ChooseDomain, Go, Points,
    debugVars, openVars
<1>5. ASSUME NEW t \in Threads, InitProcess(t) \/ OpenFails(t) PROVE SessionTypeOK'
  BY SMT, <1>5 DEF SessionTypeOK, InitProcess, Begin, OpenFails, Go, Points, debugVars,
    openVars
<1>6. ASSUME NEW t \in Threads, OpenSession(t) PROVE SessionTypeOK'
  BY SMT, <1>6 DEF SessionTypeOK, OpenSession, Go, Points, debugVars
<1>7. ASSUME NEW t \in Threads, Opened(t) \/ ProcInit(t) PROVE SessionTypeOK'
  <2>1. CASE Opened(t)
    BY <2>1 DEF SessionTypeOK, Opened, TakeCid, Go, Points, debugVars
  <2>2. CASE ProcInit(t)
    BY <2>2 DEF SessionTypeOK, ProcInit, Go, Points, debugVars
  <2> QED
    BY <1>7, <2>1, <2>2
<1>8. CASE Release \/ ReleaseDebug \/ Close
  BY <1>8 DEF SessionTypeOK, Release, ReleaseDebug, RemoveDebug, Close, debugVars,
    openVars
<1>9. CASE UNCHANGED sessionVars
  BY <1>9 DEF SessionTypeOK, sessionVars, debugVars, openVars
<1> QED
  BY <1>1, <1>2, <1>3, <1>4, <1>5, <1>6, <1>7, <1>8, <1>9, Zenon
  DEF SessionNext, ThreadStep, ReleaseStep, DebugStep

\* The type invariant: in particular the domain of a file is always one of the
\* channels, whichever numbers GETINFO was given.
THEOREM SessionTypeCorrect == SessionSpec => []SessionTypeOK
<1>1. SessionInit => SessionTypeOK
  <2>1. SessionInit => /\ pc \in [Threads -> Points]
                       /\ arg \in [Threads -> Domains \cup OtherDomains \cup {NULL}]
                       /\ ans \in [Threads -> Cids \cup {NULL}]
    BY Zenon DEF SessionInit, Points
  <2>2. SessionInit => calls \in 0 .. MaxCalls
    BY SMT, SessionAssumption DEF SessionInit
  <2> QED
    BY <2>1, <2>2, Zenon DEF SessionInit, SessionTypeOK
<1> QED
  BY <1>1, SessionTypeStep, SessionInvHolds, PTL DEF SessionSpec

(***************************************************************************)
(* VFastrpcDevice.                                                         *)
(***************************************************************************)

\* Every step of the device with a file on it is a step of virt_fastrpc_probe,
\* virt_fastrpc_remove or the device, or one of the file, that leaves the other
\* alone.
THEOREM DeviceImplementsParts == DeviceSpec => ProbeSpec /\ SessionSpec
<1>1. DeviceInit => ProbeInit /\ SessionInit
  BY DEF DeviceInit
<1>2. [DeviceNext]_deviceVars => [ProbeNext]_probeVars /\ [SessionNext]_sessionVars
  BY DEF DeviceNext, ProbeStep, FileStep, SessionNext, deviceVars
<1> QED
  BY <1>1, <1>2, PTL DEF DeviceSpec, ProbeSpec, SessionSpec

\* So what is proved of probe, remove and the ioctls of a file holds of the
\* device with a file on it.
THEOREM DeviceInherits ==
    DeviceSpec => [](/\ ResourcesBalanced /\ DeviceMemoryHeld
                     /\ DebugAccounted /\ SessionsClosed /\ SessionsOfDomain)
BY DeviceImplementsParts, ProbeBalancesResources, DeviceMemoryIsHeld,
   DebugIsAccounted, SessionsAreClosed, SessionsAreOfDomain, PTL

=============================================================================
