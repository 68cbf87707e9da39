------------------------ MODULE VFastrpcInvoke_proofs -----------------------
(***************************************************************************)
(* The ioctls, the release and the interrupt of VFastrpcInvoke only ever   *)
(* use messages the way VirtFastrpcMsg allows, so every invariant proved   *)
(* of the message layer holds of the whole.  On top of that every context  *)
(* and command has one owner, the release leaves none behind, the queue of *)
(* asynchronous answers is sound, and a restarted system call resumes its  *)
(* own context.                                                            *)
(***************************************************************************)
EXTENDS VFastrpcInvoke, VirtFastrpcMsg_proofs

\* Most leaves are first-order; the ones that need more say so.
USE ZenonT(120)

\* What an actor has in its hands, and what is queued for it, is a message.
HandsOK ==
    /\ cur \in [Actors -> Ptr(Msgs)]
    /\ asyncq \in [Files -> Seq(Msgs)]

HandsInv == TypeInv /\ HandsOK

\* What a thread does before and after a message leaves the messages alone.
LEMMA UserStepMsg ==
    ASSUME NEW t \in Threads, UserStep(t) \/ AsyncStep(t) PROVE UNCHANGED msgVars
BY DEF UserStep, AsyncStep, InvokeBegin, InvokeResume, MunmapFdBegin,
       MunmapFdResume, ControlBegin, OpenBegin, MapBegin, Command, AsyncWait,
       AsyncSignalled, Signalled, SaveFails, AsyncWakes, AsyncTake, Dequeue

\* A step of a thread on its message is a step of VirtFastrpcMsg.
LEMMA KernelStepMsg ==
    ASSUME HandsInv, NEW a \in Actors, KernelStep(a) PROVE [MsgNext]_msgVars
<1> USE ConstAssumption DEF HandsInv, HandsOK, Ptr, MsgNext, Client
<1>1. AllocMsg(a) => MsgNext
  BY DEF AllocMsg, AllocSlot
<1>2. AllocFails(a) => UNCHANGED msgVars
  BY DEF AllocFails
<1>3. AllocTx(a) => MsgNext
  BY DEF AllocTx
<1>4. SendMsg(a) \/ SendFails(a) \/ Woken(a) => MsgNext
  BY DEF SendMsg, SendFails, Woken
<1>5. HandBack(a) \/ Free(a) => MsgNext
  BY DEF HandBack, Free
<1> QED
  BY <1>1, <1>2, <1>3, <1>4, <1>5 DEF KernelStep

\* A step of open or release is a step of VirtFastrpcMsg or leaves it alone.
LEMMA FileStepMsg ==
    ASSUME NEW f \in Files, OpenFile(f) \/ Release(f) \/ ReleaseStep(f)
    PROVE  [MsgNext]_msgVars
<1>1. OpenFile(f) \/ Release(f) \/ ContextsFreed(f) \/ FileFreed(f)
         => UNCHANGED msgVars
  BY DEF OpenFile, Release, ContextsFreed, FileFreed
<1>2. ASSUME NEW m \in Msgs PROVE CloseBegin(f, m) => UNCHANGED msgVars
  BY DEF CloseBegin
<1>3. ASSUME NEW m \in Msgs, FreeContext(f, m) \/ FreeCmd(f, m) PROVE MsgNext
  BY <1>3 DEF FreeContext, FreeCmd, MsgNext, Client
<1> QED
  BY <1>1, <1>2, <1>3 DEF ReleaseStep

\* A step of the interrupt handler or the back end is a step of VirtFastrpcMsg.
LEMMA EnvironmentMsg == Environment => MsgNext
BY DEF Environment, RecvSignalOrQueue, QueueJob, MsgNext, Interrupt

\* Every step of the invoke path is a step of VirtFastrpcMsg or leaves it alone.
LEMMA InvokeStepMsg == HandsInv /\ [InvokeNext]_vars => [MsgNext]_msgVars
<1>1. UNCHANGED vars => UNCHANGED msgVars
  BY DEF vars
<1> QED
  BY <1>1, UserStepMsg, KernelStepMsg, FileStepMsg, EnvironmentMsg DEF InvokeNext

\* Every step leaves messages in the hands of the threads and in the queues.
LEMMA HandsStep == HandsInv /\ [InvokeNext]_vars => HandsInv'
<1> SUFFICES ASSUME HandsInv, [InvokeNext]_vars PROVE HandsInv'
  OBVIOUS
<1>1. TypeInv'
  BY InvokeStepMsg, TypeStep DEF HandsInv
<1> USE InvokeAssumption DEF HandsInv, HandsOK, Ptr, Actors
<1>2. ASSUME NEW t \in Threads, UserStep(t) PROVE HandsOK'
  <2>1. ASSUME NEW m \in Msgs, NEW k \in AllKinds, NEW x \in Args,
               \/ InvokeBegin(t, m, k, x) \/ InvokeResume(t, m, x)
               \/ MunmapFdBegin(t, m, x)
        PROVE HandsOK'
    <3>1. cur' = [cur EXCEPT ![t] = m] /\ UNCHANGED async
      BY <2>1, Zenon DEF InvokeBegin, InvokeResume, MunmapFdBegin, Takes
    <3> QED
      BY <3>1 DEF async
  <2>2. ASSUME NEW m \in Msgs, MunmapFdResume(t, m) PROVE HandsOK'
    BY <2>2 DEF MunmapFdResume, Takes, async
  <2>3. ASSUME NEW m \in Msgs, ControlBegin(t, m) \/ OpenBegin(t, m) \/ MapBegin(t, m)
        PROVE HandsOK'
    <3>1. cur' = [cur EXCEPT ![t] = m] /\ UNCHANGED async
      BY <2>3, Zenon DEF ControlBegin, OpenBegin, MapBegin, Command, Takes
    <3> QED
      BY <3>1 DEF async
  <2>4. ASSUME AsyncWait(t) \/ AsyncSignalled(t) \/ Signalled(t) \/ SaveFails(t)
        PROVE HandsOK'
    BY <2>4 DEF AsyncWait, AsyncSignalled, Signalled, SaveFails, Finish, async
  <2>5. AllKinds # {}
    BY DEF AllKinds
  <2> QED
    BY <1>2, <2>1, <2>2, <2>3, <2>4, <2>5 DEF UserStep
<1>3. ASSUME NEW t \in Threads, AsyncStep(t) PROVE HandsOK'
  <2>1. FileOf[t] \in Files
    OBVIOUS
  <2>2. asyncq[FileOf[t]] # <<>> =>
          /\ Head(asyncq[FileOf[t]]) \in Msgs
          /\ Tail(asyncq[FileOf[t]]) \in Seq(Msgs)
    BY <2>1, SMT
  <2>3. CASE AsyncWakes(t)
    BY <2>3 DEF AsyncWakes, async
  <2>4. CASE AsyncTake(t) /\ asyncq[FileOf[t]] = <<>>
    BY <2>4 DEF AsyncTake, Dequeue, async
  <2>5. CASE AsyncTake(t) /\ asyncq[FileOf[t]] # <<>>
    <3>1. /\ asyncq' = [asyncq EXCEPT ![FileOf[t]] = Tail(@)]
          /\ cur' = [cur EXCEPT ![t] = Head(asyncq[FileOf[t]])]
      BY <2>5 DEF AsyncTake, Dequeue, Takes
    <3> QED
      BY <2>1, <2>2, <2>5, <3>1
  <2> QED
    BY <1>3, <2>3, <2>4, <2>5 DEF AsyncStep
<1>4. ASSUME NEW a \in Actors, KernelStep(a) PROVE HandsOK'
  BY <1>4 DEF KernelStep, AllocMsg, AllocFails, AllocTx, SendMsg, SendFails, Woken,
              HandBack, Free, Finish, invVars, async
<1>5. ASSUME NEW f \in Files, OpenFile(f) \/ Release(f) \/ ReleaseStep(f)
      PROVE HandsOK'
  <2>1. ASSUME NEW m \in Msgs, CloseBegin(f, m) \/ FreeContext(f, m) \/ FreeCmd(f, m)
        PROVE HandsOK'
    <3>1. cur' = [cur EXCEPT ![f] = m] /\ UNCHANGED async
      BY <2>1, Zenon DEF CloseBegin, FreeContext, FreeCmd, Takes
    <3> QED
      BY <3>1 DEF async
  <2>2. ASSUME OpenFile(f) \/ Release(f) \/ ContextsFreed(f)
        PROVE HandsOK'
    BY <2>2 DEF OpenFile, Release, ContextsFreed, async
  <2>3. ASSUME FileFreed(f) PROVE HandsOK'
    <3>1. << >> \in Seq(Msgs)
      BY SMT
    <3> QED
      BY <2>3, <3>1 DEF FileFreed
  <2> QED
    BY <1>5, <2>1, <2>2, <2>3 DEF ReleaseStep
<1>6. ASSUME Environment PROVE HandsOK'
  <2>1. CASE RecvSignalOrQueue
    <3>1. imsg \in Msgs
      BY <2>1 DEF RecvSignalOrQueue, QueueJob, RecvSignal, TypeInv, PointersOK
    <3>2. /\ cur' = cur
          /\ \/ asyncq' = asyncq
             \/ \E f : asyncq' = [asyncq EXCEPT ![f] = Append(@, imsg)]
      BY <2>1, Zenon DEF RecvSignalOrQueue, QueueJob, async
    <3>3. ASSUME NEW f \in Files PROVE Append(asyncq[f], imsg) \in Seq(Msgs)
      BY <3>1, SMT
    <3>4. CASE asyncq' = asyncq
      BY <3>2, <3>4
    <3>5. ASSUME NEW f, asyncq' = [asyncq EXCEPT ![f] = Append(@, imsg)]
          PROVE HandsOK'
      BY <3>2, <3>3, <3>5
    <3> QED
      BY <3>2, <3>4, <3>5
  <2>2. CASE UNCHANGED invVars
    BY <2>2 DEF invVars, async
  <2> QED
    BY <1>6, <2>1, <2>2 DEF Environment
<1>7. ASSUME UNCHANGED vars PROVE HandsOK'
  BY <1>7 DEF vars, invVars, async
<1> QED
  BY <1>1, <1>2, <1>3, <1>4, <1>5, <1>6, <1>7 DEF InvokeNext

\* At first no thread has a message.
LEMMA HandsInit == InvokeInit => HandsInv
BY TypeInit, SMT DEF InvokeInit, HandsInv, HandsOK, Ptr

\* Whatever the threads, the signals and the release do, they use the message
\* layer as VirtFastrpcMsg specifies it.
THEOREM InvokeImplementsMsg == InvokeSpec => MsgSpec
<1>1. InvokeInit => MsgInit
  BY DEF InvokeInit
<1> QED
  BY <1>1, HandsInit, HandsStep, InvokeStepMsg, PTL DEF InvokeSpec, MsgSpec

\* So the safety of the message layer is that of the driver as a whole.
THEOREM InvokeInherits ==
    InvokeSpec => [](/\ TableSound /\ AnswerAddressed /\ BuffersExclusive
                     /\ OwnAnswer /\ RxConserved)
BY InvokeImplementsMsg, TableIsSound, AnswersAreAddressed, BuffersAreExclusive,
   OwnAnswerHolds, RxIsConserved, PTL

\* The ioctls, with their signals, restarts and releases, keep the promise of
\* RemoteCall to whoever sends a message.
THEOREM InvokeImplementsCall == InvokeSpec => CallSpec
BY InvokeImplementsMsg, MsgImplementsCall, PTL

-----------------------------------------------------------------------------
(***************************************************************************)
(* Who has a context or command.  Every message with a call is, for a      *)
(* reason its call gives, in the hands of one actor or on one list, or a   *)
(* command that could not be saved.                                        *)
(***************************************************************************)

CallTypes ==
    /\ pc \in [Actors -> ThreadStates \cup FileStates]
    /\ \A t \in Threads : pc[t] \in ThreadStates
    /\ \A f \in Files : pc[f] \in FileStates
    /\ call \in [Msgs -> Ptr(Calls)]
    /\ pending \in [Files -> SUBSET Msgs]
    /\ interrupted \in [Files -> SUBSET Msgs]
    /\ cmds \in [Files -> SUBSET Msgs]

InNoHands(m) == \A a \in Actors : cur[a] # m

OnNoList(m) ==
    \A f \in Files : m \notin pending[f] /\ m \notin interrupted[f] /\ m \notin cmds[f]

\* An asynchronous invoke on its way out.
Unsent(m) == call[m].kind = "async" /\ st[m] \in {"free", "slot", "built"}

\* Actor a has m: nobody else has, and it is a call of the file of a.  A thread
\* has what it called itself, or an asynchronous job of any thread.
Holder(a, m) ==
    /\ \A b \in Actors : cur[b] = m => b = a
    /\ FileUsed(a) = call[m].file
    /\ \A f \in Files : m \notin interrupted[f] /\ m \notin cmds[f]
    /\ a \in Threads /\ call[m].kind # "async" => call[m].pid = a
    /\ a \in Files => call[m].arg \notin {"open", "opened"}
    /\ Unsent(m) => a \in Threads /\ m \in pending[call[m].file]

\* The lists m may be on.
Listed(m) ==
    \A f \in Files :
        /\ m \in interrupted[f] =>
            /\ f = call[m].file /\ call[m].kind = "invoke"
            /\ m \notin pending[f] /\ m \notin cmds[f]
        /\ m \in cmds[f] => f = call[m].file /\ call[m].kind = "munmap_fd"
        /\ m \in pending[f] => f = call[m].file /\ call[m].kind \in {"invoke", "async"}

\* Where a message nobody has in hands is kept.
Kept(m) ==
    \/ m \in interrupted[call[m].file]
    \/ m \in cmds[call[m].file]
    \/ call[m].kind = "async" /\ m \in pending[call[m].file] /\ st[m] = "sent"

Sensible(m) ==
    /\ call[m].pid # NULL => call[m].file = FileOf[call[m].pid]
    /\ call[m].arg \in {"open", "opened"} => call[m].kind = "cmd"
    /\ call[m].kind \in {"invoke", "async"} => call[m].pid # NULL
    /\ st[m] # "free" => kind[m] = call[m].kind

\* A command that could not be saved is with nobody, and its message is sent.
Nobodys(m) == st[m] = "sent" /\ InNoHands(m) /\ OnNoList(m)

Owner(m) ==
    /\ call[m] = NULL => st[m] = "free" /\ InNoHands(m) /\ OnNoList(m)
    /\ call[m] # NULL =>
        /\ \A a \in Actors : cur[a] = m => Holder(a, m)
        /\ Listed(m)
        /\ InNoHands(m) => Kept(m) \/ Lost(m)
        /\ Lost(m) => Nobodys(m)
        /\ Sensible(m)

OwnerInv == \A m \in Msgs : Owner(m)

\* A thread in an ioctl keeps its file open, a file has something in its hands
\* only while it is released, and what the release has emptied stays empty.
PcInv ==
    /\ \A t \in Threads :
        /\ cur[t] # NULL <=> pc[t] = "call"
        /\ pc[t] # "user" => IsOpen(FileOf[t])
    /\ \A f \in Files :
        /\ cur[f] # NULL => pc[f] \in {"close", "ctxs", "cmds"}
        /\ pc[f] \in {"cmds", "none"} => pending[f] = {} /\ interrupted[f] = {}
        /\ pc[f] = "none" => /\ cmds[f] = {}
                             /\ \A m \in Msgs : call[m] # NULL =>
                                   call[m].file # f \/ Lost(m)

CallSafe == CallTypes /\ OwnerInv /\ PcInv

CallInv == HandsInv /\ CallSafe

\* Owner(n) depends on what is said of n only.
LEMMA OwnerKeeps ==
    ASSUME CallTypes, NEW n \in Msgs, Owner(n),
           call'[n] = call[n], st'[n] = st[n], kind'[n] = kind[n],
           \A a \in Actors : cur'[a] = n <=> cur[a] = n,
           \A f \in Files : /\ n \in pending'[f] <=> n \in pending[f]
                            /\ n \in interrupted'[f] <=> n \in interrupted[f]
                            /\ n \in cmds'[f] <=> n \in cmds[f]
    PROVE  Owner(n)'
<1>1. call[n] # NULL => call[n].file \in Files
  BY DEF CallTypes, Ptr, Calls
<1>2. InNoHands(n)' <=> InNoHands(n)
  BY DEF InNoHands
<1>3. OnNoList(n)' <=> OnNoList(n)
  BY DEF OnNoList
<1>4. ASSUME call[n] # NULL, NEW a \in Actors PROVE Holder(a, n)' <=> Holder(a, n)
  BY <1>1, <1>4 DEF Holder, FileUsed, Unsent
<1>5. Listed(n)' <=> Listed(n)
  BY DEF Listed
<1>6. call[n] # NULL => (Kept(n)' <=> Kept(n))
  BY <1>1 DEF Kept
<1>7. Sensible(n)' <=> Sensible(n)
  BY DEF Sensible
<1>8. (Lost(n)' <=> Lost(n)) /\ (Nobodys(n)' <=> Nobodys(n))
  BY <1>2, <1>3 DEF Lost, Nobodys
<1> QED
  BY <1>2, <1>3, <1>4, <1>5, <1>6, <1>7, <1>8 DEF Owner

\* What a step that concerns m leaves alone.
Others(m) ==
    \A n \in Msgs \ {m} :
        /\ call'[n] = call[n] /\ st'[n] = st[n] /\ kind'[n] = kind[n]
        /\ \A f \in Files : /\ n \in pending'[f] <=> n \in pending[f]
                            /\ n \in interrupted'[f] <=> n \in interrupted[f]
                            /\ n \in cmds'[f] <=> n \in cmds[f]

\* A step that only concerns m leaves the others where they are.
LEMMA OwnerFrame ==
    ASSUME CallTypes, OwnerInv, NEW m \in Msgs, Others(m), Owner(m)',
           \A n \in Msgs \ {m}, a \in Actors : cur'[a] = n <=> cur[a] = n
    PROVE  OwnerInv'
<1> SUFFICES ASSUME NEW n \in Msgs \ {m} PROVE Owner(n)'
  BY DEF OwnerInv
<1> QED
  BY OwnerKeeps DEF OwnerInv, Others

ListTypes ==
    /\ pending \in [Files -> SUBSET Msgs]
    /\ interrupted \in [Files -> SUBSET Msgs]
    /\ cmds \in [Files -> SUBSET Msgs]

\* K is the list L but for what it says of m and f.
OnlyAt(L, K, f, m) ==
    /\ K \in [Files -> SUBSET Msgs]
    /\ \A g \in Files \ {f} : K[g] = L[g]
    /\ \A g \in Files, n \in Msgs \ {m} : n \in K[g] <=> n \in L[g]

\* A list that does not change says the same of everything.
LEMMA ListSame ==
    ASSUME NEW L \in [Files -> SUBSET Msgs], NEW f \in Files, NEW m \in Msgs
    PROVE  OnlyAt(L, L, f, m)
BY DEF OnlyAt

\* hlist_add_head concerns one message and the list of one file.
LEMMA ListAdd ==
    ASSUME NEW L \in [Files -> SUBSET Msgs], NEW f \in Files, NEW m \in Msgs
    PROVE  LET K == [L EXCEPT ![f] = @ \cup {m}] IN OnlyAt(L, K, f, m) /\ m \in K[f]
BY SMT DEF OnlyAt

\* hlist_del_init likewise.
LEMMA ListDel ==
    ASSUME NEW L \in [Files -> SUBSET Msgs], NEW f \in Files, NEW m \in Msgs
    PROVE  LET K == [L EXCEPT ![f] = @ \ {m}] IN OnlyAt(L, K, f, m) /\ m \notin K[f]
BY SMT DEF OnlyAt

\* A context goes from one list of its file to the other.
LEMMA ContextMoves ==
    ASSUME ListTypes, NEW f \in Files, NEW m \in Msgs, UNCHANGED cmds,
           \/ Relink(f, m)
           \/ /\ interrupted' = [interrupted EXCEPT ![f] = @ \cup {m}]
              /\ pending' = [pending EXCEPT ![f] = @ \ {m}]
           \/ /\ interrupted' = [interrupted EXCEPT ![f] = @ \ {m}]
              /\ pending' = [pending EXCEPT ![f] = @ \ {m}]
    PROVE  /\ OnlyAt(pending, pending', f, m) /\ OnlyAt(interrupted, interrupted', f, m)
           /\ OnlyAt(cmds, cmds', f, m)
           /\ Relink(f, m) => m \notin interrupted'[f]
           /\ interrupted' = [interrupted EXCEPT ![f] = @ \ {m}] => m \notin interrupted'[f]
           /\ interrupted' = [interrupted EXCEPT ![f] = @ \cup {m}] => m \in interrupted'[f]
           /\ pending' = [pending EXCEPT ![f] = @ \ {m}] => m \notin pending'[f]
BY SMT, ListSame, ListAdd, ListDel DEF ListTypes, Relink

\* A command is put on the list of interrupted ones or taken off it.
LEMMA CmdMoves ==
    ASSUME ListTypes, NEW f \in Files, NEW m \in Msgs, UNCHANGED <<pending, interrupted>>,
           \/ cmds' = [cmds EXCEPT ![f] = @ \cup {m}]
           \/ cmds' = [cmds EXCEPT ![f] = @ \ {m}]
    PROVE  /\ OnlyAt(pending, pending', f, m) /\ OnlyAt(interrupted, interrupted', f, m)
           /\ OnlyAt(cmds, cmds', f, m)
           /\ cmds' = [cmds EXCEPT ![f] = @ \ {m}] => m \notin cmds'[f]
           /\ cmds' = [cmds EXCEPT ![f] = @ \cup {m}] => m \in cmds'[f]
BY SMT, ListSame, ListAdd, ListDel DEF ListTypes

\* Such a step leaves the other messages alone.
LEMMA OthersKept ==
    ASSUME NEW f \in Files, NEW m \in Msgs,
           OnlyAt(pending, pending', f, m), OnlyAt(interrupted, interrupted', f, m),
           OnlyAt(cmds, cmds', f, m),
           \A n \in Msgs \ {m} : call'[n] = call[n] /\ st'[n] = st[n] /\ kind'[n] = kind[n]
    PROVE  Others(m) /\ ListTypes'
BY DEF OnlyAt, Others, ListTypes

\* Lists without messages stay so when the step puts none on them.
LEMMA ListsStayEmpty ==
    ASSUME NEW m \in Msgs, Others(m), ListTypes', NEW f \in Files,
           pending[f] = {}, interrupted[f] = {},
           m \notin pending'[f], m \notin interrupted'[f]
    PROVE  pending'[f] = {} /\ interrupted'[f] = {}
BY SMT DEF Others, ListTypes

\* The first job of a queue is a message.
LEMMA HeadOfQueue ==
    ASSUME NEW q \in Seq(Msgs), q # <<>> PROVE Head(q) \in Msgs
BY SMT

\* Taking something in hands: a new call, an interrupted one, a job, or what the
\* release finds on a list.
LEMMA HoldInv ==
    ASSUME CallInv, NEW a \in Actors, NEW m \in Msgs,
           cur[a] = NULL, InNoHands(m), Takes(a, m), Others(m),
           call' \in [Msgs -> Ptr(Calls)], ListTypes',
           call'[m] # NULL, call'[m].file = FileUsed(a), Sensible(m)', ~Lost(m)',
           \A f \in Files :
               /\ m \notin interrupted'[f] /\ m \notin cmds'[f]
               /\ m \in pending'[f] =>
                    /\ a \in Threads /\ f = FileOf[a]
                    /\ call'[m].kind \in {"invoke", "async"},
           a \in Threads => /\ IsOpen(FileOf[a])
                            /\ call'[m].kind # "async" => call'[m].pid = a,
           a \in Files => /\ pc[a] \in {"close", "ctxs", "cmds"}
                          /\ call'[m].arg \notin {"open", "opened"},
           Unsent(m)' => a \in Threads /\ m \in pending'[FileUsed(a)]
    PROVE  CallSafe'
<1> USE ConstAssumption, InvokeAssumption DEF CallInv, CallSafe, Actors
<1>a. /\ cur \in [Actors -> Ptr(Msgs)]
      /\ pc \in [Actors -> ThreadStates \cup FileStates]
      /\ FileUsed(a) \in Files
  BY DEF HandsInv, HandsOK, CallTypes, FileUsed
<1>1. /\ cur' = [cur EXCEPT ![a] = m]
      /\ pc' = [pc EXCEPT ![a] = IF a \in Threads THEN "call" ELSE @]
  BY DEF Takes
<1>2. CallTypes'
  BY <1>a, <1>1 DEF CallTypes, ListTypes, ThreadStates
<1>3. ASSUME NEW n \in Msgs \ {m}, NEW b \in Actors PROVE cur'[b] = n <=> cur[b] = n
  BY <1>a, <1>1
<1>4. Owner(m)'
  <2>1. \A b \in Actors : cur'[b] = m <=> b = a
    BY <1>a, <1>1 DEF InNoHands
  <2>2. Holder(a, m)'
    BY <2>1 DEF Holder, FileUsed
  <2>3. Listed(m)'
    BY DEF Listed, FileUsed
  <2>4. ~InNoHands(m)'
    BY <2>1 DEF InNoHands
  <2> QED
    BY <2>1, <2>2, <2>3, <2>4 DEF Owner
<1>5. OwnerInv'
  BY <1>3, <1>4, OwnerFrame
<1>6. PcInv'
  <2>1. ASSUME NEW t \in Threads
        PROVE  /\ cur'[t] # NULL <=> pc'[t] = "call"
               /\ pc'[t] # "user" => IsOpen(FileOf[t])'
    BY <1>a, <1>1, SMT DEF PcInv, IsOpen
  <2>2. ASSUME NEW f \in Files
        PROVE  /\ pc'[f] = pc[f]
               /\ cur'[f] # NULL => pc'[f] \in {"close", "ctxs", "cmds"}
    <3>1. pc'[f] = pc[f] /\ cur'[f] = IF f = a THEN m ELSE cur[f]
      BY <1>a, <1>1
    <3> QED
      BY <3>1 DEF PcInv
  <2>3. ASSUME NEW f \in Files, pc[f] \in {"cmds", "none"}
        PROVE  pending'[f] = {} /\ interrupted'[f] = {}
    <3>1. pending[f] = {} /\ interrupted[f] = {}
      BY <2>3 DEF PcInv
    <3>2. m \notin pending'[f]
      BY <2>3 DEF IsOpen
    <3> QED
      BY <3>1, <3>2, SMT DEF Others, ListTypes
  <2>4. ASSUME NEW f \in Files, pc[f] = "none"
        PROVE  /\ cmds'[f] = {}
               /\ \A n \in Msgs : call'[n] # NULL => call'[n].file # f \/ Lost(n)'
    <3>1. /\ cmds[f] = {}
          /\ \A n \in Msgs : call[n] # NULL => call[n].file # f \/ Lost(n)
      BY <2>4 DEF PcInv
    <3>2. FileUsed(a) # f
      BY <2>4 DEF FileUsed, IsOpen
    <3>3. cmds'[f] = {}
      BY <3>1, SMT DEF Others, ListTypes
    <3>4. ASSUME NEW n \in Msgs, call'[n] # NULL PROVE call'[n].file # f \/ Lost(n)'
      <4>1. CASE n = m
        BY <3>2, <4>1
      <4>2. CASE n # m
        <5>1. call'[n] = call[n]
          BY <4>2 DEF Others
        <5> QED
          BY <3>1, <3>4, <5>1 DEF Lost
      <4> QED
        BY <4>1, <4>2
    <3> QED
      BY <3>3, <3>4
  <2> QED
    BY <2>1, <2>2, <2>3, <2>4 DEF PcInv
<1> QED
  BY <1>2, <1>5, <1>6

\* Finish takes an actor out of its call.  The only other thing it may do is to
\* make an open file an initialised one.
LEMMA FinishEffect ==
    ASSUME CallInv, NEW a \in Actors, cur[a] # NULL, Finish(a)
    PROVE  /\ cur' = [cur EXCEPT ![a] = NULL]
           /\ pc' \in [Actors -> ThreadStates \cup FileStates]
           /\ a \in Threads => pc'[a] = "user"
           /\ a \in Files => pc'[a] = IF pc[a] = "close" THEN "ctxs" ELSE pc[a]
           /\ \A b \in Actors \ {a} :
                pc'[b] = pc[b] \/ (b \in Files /\ IsOpen(b) /\ pc'[b] = "init")
<1> USE ConstAssumption, InvokeAssumption DEF CallInv, CallSafe, Actors
<1>a. /\ cur \in [Actors -> Ptr(Msgs)]
      /\ pc \in [Actors -> ThreadStates \cup FileStates]
      /\ FileUsed(a) \in Files
      /\ cur[a] \in Msgs
  BY DEF HandsInv, HandsOK, CallTypes, FileUsed, Ptr
<1>b. Holder(a, cur[a])
  BY <1>a DEF OwnerInv, Owner, InNoHands
<1>1. CASE a \in Threads
  <2>1. /\ FileUsed(a) = FileOf[a] /\ a # FileOf[a] /\ a \notin Files
        /\ IsOpen(FileOf[a]) /\ pc[a] = "call"
    BY <1>1, SMT DEF PcInv, FileUsed
  <2>2. /\ pc' \in [Actors -> ThreadStates \cup FileStates]
        /\ pc'[a] = "user"
        /\ pc'[FileOf[a]] \in {"init", pc[FileOf[a]]}
        /\ \A b \in Actors \ {a, FileOf[a]} : pc'[b] = pc[b]
    BY <1>1, <1>a, <2>1 DEF Finish, ThreadStates, FileStates
  <2> QED
    BY <1>1, <1>a, <2>1, <2>2 DEF Finish, ThreadStates, FileStates
<1>2. CASE a \in Files
  <2>1. FileUsed(a) = a /\ a \notin Threads /\ call[cur[a]].arg # "opened"
    BY <1>2, <1>b DEF FileUsed, Holder
  <2>2. /\ pc' \in [Actors -> ThreadStates \cup FileStates]
        /\ pc'[a] = IF pc[a] = "close" THEN "ctxs" ELSE pc[a]
        /\ \A b \in Actors \ {a} : pc'[b] = pc[b]
    BY <1>2, <1>a, <2>1, SMT DEF Finish, FileStates
  <2> QED
    BY <1>2, <2>1, <2>2 DEF Finish
<1> QED
  BY <1>1, <1>2

\* Letting go of m: it is freed, or the thread leaves it where it is kept, or
\* loses it.
LEMMA DropInv ==
    ASSUME CallInv, NEW a \in Actors, NEW m \in Msgs,
           cur[a] = m, Finish(a), Others(m),
           call' \in [Msgs -> Ptr(Calls)], ListTypes',
           \/ call'[m] = NULL /\ st'[m] = "free" /\ OnNoList(m)'
           \/ /\ call'[m] # NULL /\ a \in Threads /\ call'[m].file = FileOf[a]
              /\ Listed(m)' /\ Sensible(m)'
              /\ \/ Kept(m)' /\ ~Lost(m)'
                 \/ Lost(m)' /\ st'[m] = "sent" /\ OnNoList(m)'
    PROVE  CallSafe'
<1> USE ConstAssumption, InvokeAssumption DEF CallInv, CallSafe, Actors
<1>a. /\ cur \in [Actors -> Ptr(Msgs)]
      /\ pc \in [Actors -> ThreadStates \cup FileStates]
      /\ m # NULL
  BY DEF HandsInv, HandsOK, CallTypes
<1>1. /\ cur' = [cur EXCEPT ![a] = NULL]
      /\ pc' \in [Actors -> ThreadStates \cup FileStates]
      /\ a \in Threads => pc'[a] = "user"
      /\ a \in Files => pc'[a] = IF pc[a] = "close" THEN "ctxs" ELSE pc[a]
      /\ \A b \in Actors \ {a} :
           pc'[b] = pc[b] \/ (b \in Files /\ IsOpen(b) /\ pc'[b] = "init")
  BY <1>a, FinishEffect
<1>2. CallTypes'
  BY <1>a, <1>1 DEF CallTypes, ListTypes, ThreadStates, FileStates
<1>3. ASSUME NEW n \in Msgs \ {m}, NEW b \in Actors PROVE cur'[b] = n <=> cur[b] = n
  BY <1>a, <1>1
<1>4. Owner(m)'
  <2>1. \A b \in Actors : cur[b] = m => b = a
    BY <1>a DEF OwnerInv, Owner, Holder, InNoHands
  <2>2. InNoHands(m)'
    BY <1>a, <1>1, <2>1 DEF InNoHands
  <2>3. \A b \in Actors : cur'[b] # m
    BY <2>2 DEF InNoHands
  <2>4. CASE call'[m] = NULL /\ st'[m] = "free" /\ OnNoList(m)'
    BY <2>2, <2>3, <2>4 DEF Owner
  <2>5. CASE call'[m] # NULL /\ Listed(m)' /\ Sensible(m)' /\ Kept(m)' /\ ~Lost(m)'
    BY <2>2, <2>3, <2>5 DEF Owner
  <2>6. CASE /\ call'[m] # NULL /\ Listed(m)' /\ Sensible(m)'
             /\ Lost(m)' /\ st'[m] = "sent" /\ OnNoList(m)'
    BY <2>2, <2>3, <2>6 DEF Owner, Nobodys
  <2> QED
    BY <2>4, <2>5, <2>6
<1>5. OwnerInv'
  BY <1>3, <1>4, OwnerFrame
<1>6. PcInv'
  <2>0. \A f \in Files : IsOpen(f) => IsOpen(f)'
    BY <1>1, <1>a DEF PcInv, IsOpen
  <2>1. ASSUME NEW t \in Threads
        PROVE  /\ cur'[t] # NULL <=> pc'[t] = "call"
               /\ pc'[t] # "user" => IsOpen(FileOf[t])'
    <3>1. CASE t = a
      BY <1>a, <1>1, <3>1
    <3>2. CASE t # a
      <4>1. cur'[t] = cur[t] /\ pc'[t] = pc[t]
        BY <1>a, <1>1, <3>2
      <4> QED
        BY <2>0, <4>1 DEF PcInv
    <3> QED
      BY <3>1, <3>2
  <2>2. ASSUME NEW f \in Files
        PROVE  cur'[f] # NULL => pc'[f] \in {"close", "ctxs", "cmds"}
    BY <1>a, <1>1 DEF PcInv, IsOpen
  <2>3. ASSUME NEW f \in Files, pc'[f] \in {"cmds", "none"}
        PROVE  pc[f] = pc'[f] /\ m \notin pending'[f] /\ m \notin interrupted'[f]
    <3>1. pc[f] = pc'[f]
      BY <1>1, <2>3
    <3>2. a \in Threads => IsOpen(FileOf[a])
      BY <1>a DEF PcInv
    <3> QED
      BY <2>3, <3>1, <3>2 DEF Listed, OnNoList, IsOpen
  <2>4. ASSUME NEW f \in Files, pc'[f] \in {"cmds", "none"}
        PROVE  pending'[f] = {} /\ interrupted'[f] = {}
    <3>1. pending[f] = {} /\ interrupted[f] = {}
      BY <2>3, <2>4 DEF PcInv
    <3> QED
      BY <2>3, <2>4, <3>1, ListsStayEmpty
  <2>5. ASSUME NEW f \in Files, pc'[f] = "none"
        PROVE  /\ cmds'[f] = {}
               /\ \A n \in Msgs : call'[n] # NULL => call'[n].file # f \/ Lost(n)'
    <3>1. /\ cmds[f] = {}
          /\ \A n \in Msgs : call[n] # NULL => call[n].file # f \/ Lost(n)
      BY <2>3, <2>5 DEF PcInv
    <3>2. m \notin cmds'[f] /\ (call'[m] # NULL => call'[m].file # f)
      <4>1. a \in Threads => f # FileOf[a]
        BY <1>a, <2>3, <2>5, SMT DEF PcInv, IsOpen
      <4> QED
        BY <4>1 DEF OnNoList, Listed
    <3>3. cmds'[f] = {}
      BY <3>1, <3>2, SMT DEF Others, ListTypes
    <3>4. ASSUME NEW n \in Msgs, call'[n] # NULL PROVE call'[n].file # f \/ Lost(n)'
      <4>1. CASE n = m
        BY <3>2, <3>4, <4>1
      <4>2. CASE n # m
        <5>1. call'[n] = call[n]
          BY <4>2 DEF Others
        <5> QED
          BY <3>1, <3>4, <5>1 DEF Lost
      <4> QED
        BY <4>1, <4>2
    <3> QED
      BY <3>3, <3>4
  <2> QED
    BY <2>1, <2>2, <2>4, <2>5 DEF PcInv
<1> QED
  BY <1>2, <1>5, <1>6

\* Going on with m.
LEMMA WorkInv ==
    ASSUME CallInv, NEW a \in Actors, NEW m \in Msgs, cur[a] = m,
           UNCHANGED <<pc, cur, interrupted, cmds>>, Others(m),
           call' \in [Msgs -> Ptr(Calls)], ListTypes',
           \A f \in Files : pending'[f] \subseteq pending[f],
           call'[m] # NULL, Sensible(m)',
           call'[m].file = call[m].file, call'[m].kind = call[m].kind,
           call'[m].pid = call[m].pid,
           call'[m].arg = call[m].arg \/ call[m].arg = "open",
           Unsent(m)' => Unsent(m) /\ pending' = pending
    PROVE  CallSafe'
<1> USE ConstAssumption, InvokeAssumption DEF CallInv, CallSafe
<1>1. CallTypes'
  BY DEF CallTypes, ListTypes
<1>a. Owner(m) /\ call[m] # NULL /\ Holder(a, m)
  BY DEF OwnerInv, Owner, InNoHands
<1>2. Owner(m)'
  <2>1. Holder(a, m)'
    BY <1>a DEF Holder, FileUsed
  <2>2. \A b \in Actors : cur'[b] = m => b = a
    BY <1>a DEF Holder
  <2>3. Listed(m)'
    BY <1>a DEF Owner, Listed
  <2>4. ~InNoHands(m)'
    BY DEF InNoHands
  <2>5. ~Lost(m)'
    BY <1>a DEF Owner, Lost, Nobodys, InNoHands
  <2> QED
    BY <2>1, <2>2, <2>3, <2>4, <2>5 DEF Owner
<1>3. OwnerInv'
  BY <1>2, OwnerFrame
<1>4. PcInv'
  <2>1. \A n \in Msgs : call'[n] # NULL =>
          call[n] # NULL /\ call'[n].file = call[n].file /\ (Lost(n) => Lost(n)')
    BY <1>a DEF Others, Lost
  <2>2. ASSUME NEW f \in Files, pc[f] \in {"cmds", "none"} PROVE pending'[f] = {}
    <3>1. pending[f] = {} /\ pending'[f] \subseteq pending[f]
      BY <2>2 DEF PcInv
    <3> QED
      BY <3>1
  <2>3. pc' = pc /\ cur' = cur /\ interrupted' = interrupted /\ cmds' = cmds
    OBVIOUS
  <2>4. \A f \in Files : IsOpen(f)' <=> IsOpen(f)
    BY <2>3 DEF IsOpen
  <2>5. ASSUME NEW t \in Threads
        PROVE  /\ cur'[t] # NULL <=> pc'[t] = "call"
               /\ pc'[t] # "user" => IsOpen(FileOf[t])'
    <3>1. cur'[t] = cur[t] /\ pc'[t] = pc[t]
      BY <2>3
    <3> QED
      BY <2>4, <3>1 DEF PcInv
  <2>6. ASSUME NEW f \in Files
        PROVE  /\ cur'[f] # NULL => pc'[f] \in {"close", "ctxs", "cmds"}
               /\ pc'[f] \in {"cmds", "none"} => interrupted'[f] = {}
               /\ pc'[f] = "none" => cmds'[f] = {}
    BY <2>3 DEF PcInv
  <2>7. ASSUME NEW f \in Files, pc'[f] = "none", NEW n \in Msgs, call'[n] # NULL
        PROVE  call'[n].file # f \/ Lost(n)'
    <3>1. call[n] # NULL /\ call'[n].file = call[n].file /\ (Lost(n) => Lost(n)')
      BY <2>1, <2>7
    <3>2. pc[f] = "none"
      BY <2>3, <2>7
    <3>3. call[n].file # f \/ Lost(n)
      BY <3>1, <3>2 DEF PcInv
    <3> QED
      BY <3>1, <3>3
  <2> QED
    BY <2>2, <2>3, <2>5, <2>6, <2>7 DEF PcInv
<1> QED
  BY <1>1, <1>3, <1>4

\* Nothing of a call changes: the back end, the interrupt, and what only moves
\* the control of a thread that has no message.
LEMMA IdleInv ==
    ASSUME CallInv, UNCHANGED <<cur, call, lists, st, kind>>,
           \/ pc' = pc
           \/ \E t \in Threads, s \in {"user", "await", "take"} :
                /\ pc' = [pc EXCEPT ![t] = s]
                /\ cur[t] = NULL
                /\ IsOpen(FileOf[t])
    PROVE  CallSafe'
<1> USE ConstAssumption, InvokeAssumption DEF CallInv, CallSafe, Actors
<1>1. /\ pc \in [Actors -> ThreadStates \cup FileStates]
      /\ \A f \in Files : pc'[f] = pc[f]
  BY DEF CallTypes
<1>2. CallTypes'
  BY <1>1, SMT DEF CallTypes, lists, ThreadStates
<1>3. OwnerInv'
  <2> SUFFICES ASSUME NEW n \in Msgs PROVE Owner(n)'
    BY DEF OwnerInv
  <2>1. UNCHANGED <<cur, call, pending, interrupted, cmds, st, kind>>
    BY DEF lists
  <2> QED
    BY <2>1, OwnerKeeps DEF OwnerInv
<1>4. PcInv'
  BY <1>1, SMT DEF PcInv, IsOpen, lists, Lost
<1> QED
  BY <1>2, <1>3, <1>4

\* The entries of the ioctls.
LEMMA BeginCall ==
    ASSUME CallInv, NEW t \in Threads, NEW m \in Msgs, NEW k \in AllKinds,
           NEW x \in Args \cup AllCommands,
           MayCall(t), call[m] = NULL, Takes(t, m),
           call' = [call EXCEPT ![m] = [file |-> FileOf[t], pid |-> t,
                                        kind |-> k, arg |-> x]],
           x = "open" => k = "cmd",
           \/ pending' = pending /\ k # "async"
           \/ /\ k \in {"invoke", "async"}
              /\ pending' = [pending EXCEPT ![FileOf[t]] = @ \cup {m}],
           UNCHANGED <<msgVars, interrupted, cmds>>
    PROVE  CallSafe'
<1> USE ConstAssumption, InvokeAssumption
<1> DEFINE c == [file |-> FileOf[t], pid |-> t, kind |-> k, arg |-> x]
<1>a. /\ Owner(m) /\ ListTypes /\ call \in [Msgs -> Ptr(Calls)] /\ PcInv
      /\ t \in Actors /\ FileOf[t] \in Files /\ FileUsed(t) = FileOf[t]
  BY DEF CallInv, CallSafe, OwnerInv, CallTypes, ListTypes, Actors, FileUsed
<1>b. c \in Calls /\ c.file = FileOf[t] /\ c.pid = t /\ c.kind = k /\ c.arg = x
  BY <1>a DEF Calls, Ptr, CallArgs
<1>1. call'[m] = c /\ call' \in [Msgs -> Ptr(Calls)] /\ c # NULL
  BY <1>a, <1>b DEF Ptr
<1>2. cur[t] = NULL /\ IsOpen(FileOf[t])
  BY <1>a DEF MayCall, PcInv
<1>3. InNoHands(m) /\ OnNoList(m) /\ st[m] = "free"
  BY <1>a DEF Owner
<1>4. Others(m) /\ ListTypes'
  BY <1>a, SMT DEF Others, ListTypes, msgVars, owner
<1>5. Sensible(m)'
  <2>1. st'[m] = "free"
    BY <1>3 DEF msgVars, owner
  <2>2. x # "opened"
    BY DEF AllCommands
  <2> QED
    BY <1>1, <1>b, <2>1, <2>2 DEF Sensible
<1>6. ASSUME NEW f \in Files
      PROVE  /\ m \notin interrupted'[f] /\ m \notin cmds'[f]
             /\ m \in pending'[f] => f = FileOf[t] /\ k \in {"invoke", "async"}
  BY <1>a, <1>3 DEF OnNoList, ListTypes
<1>7. t \notin Files
  OBVIOUS
<1>8. Unsent(m)' => m \in pending'[FileOf[t]]
  BY <1>a, <1>b, <1>1, SMT DEF Unsent, ListTypes
<1>9. ~Lost(m)'
  BY <1>b, <1>1 DEF Lost
<1> HIDE DEF c
<1> QED
  BY <1>a, <1>b, <1>1, <1>2, <1>3, <1>4, <1>5, <1>6, <1>7, <1>8, <1>9, HoldInv

\* The resumption of what a signal interrupted.
LEMMA ResumeCall ==
    ASSUME CallInv, NEW t \in Threads, NEW m \in Msgs, MayCall(t), Takes(t, m),
           call[m].pid = t, m \in interrupted[FileOf[t]] \/ m \in cmds[FileOf[t]],
           \/ Relink(FileOf[t], m) /\ m \in interrupted[FileOf[t]] /\ UNCHANGED cmds
           \/ /\ cmds' = [cmds EXCEPT ![FileOf[t]] = @ \ {m}]
              /\ m \in cmds[FileOf[t]]
              /\ UNCHANGED <<pending, interrupted>>,
           UNCHANGED <<msgVars, call>>
    PROVE  CallSafe'
<1> USE ConstAssumption, InvokeAssumption
<1>a. /\ Owner(m) /\ ListTypes /\ call \in [Msgs -> Ptr(Calls)] /\ PcInv
      /\ t \in Actors /\ FileOf[t] \in Files /\ FileUsed(t) = FileOf[t] /\ t \notin Files
  BY DEF CallInv, CallSafe, OwnerInv, CallTypes, ListTypes, Actors, FileUsed
<1>1. cur[t] = NULL /\ IsOpen(FileOf[t])
  BY <1>a DEF MayCall, PcInv
<1>2. /\ call[m] # NULL /\ InNoHands(m) /\ Listed(m) /\ Sensible(m)
      /\ call[m].file = FileOf[t] /\ call[m].kind \in {"invoke", "munmap_fd"}
  BY <1>a DEF Owner, OnNoList, InNoHands, Holder, Listed
<1>3. Others(m) /\ ListTypes'
  <2>0. UNCHANGED <<call, st, kind>>
    BY DEF msgVars, owner
  <2>1. CASE Relink(FileOf[t], m) /\ UNCHANGED cmds
    BY <1>a, <2>0, <2>1, ContextMoves, OthersKept
  <2>2. CASE /\ cmds' = [cmds EXCEPT ![FileOf[t]] = @ \ {m}]
             /\ UNCHANGED <<pending, interrupted>>
    BY <1>a, <2>0, <2>2, CmdMoves, OthersKept
  <2> QED
    BY <2>1, <2>2
<1>4. Sensible(m)'
  BY <1>2, Zenon DEF Sensible, msgVars, owner
<1>5. ASSUME NEW f \in Files
      PROVE  /\ m \notin interrupted'[f] /\ m \notin cmds'[f]
             /\ m \in pending'[f] => f = FileOf[t] /\ call[m].kind \in {"invoke", "async"}
  <2>1. CASE m \in interrupted[FileOf[t]]
    <3>1. Relink(FileOf[t], m) /\ UNCHANGED cmds
      BY <1>2, <2>1 DEF Listed
    <3>2. /\ m \notin interrupted'[FileOf[t]]
          /\ \A g \in Files \ {FileOf[t]} :
                interrupted'[g] = interrupted[g] /\ pending'[g] = pending[g]
      BY <1>a, <3>1, ContextMoves DEF OnlyAt
    <3> QED
      BY <1>2, <2>1, <3>1, <3>2 DEF Listed
  <2>2. CASE m \in cmds[FileOf[t]]
    <3>1. /\ cmds' = [cmds EXCEPT ![FileOf[t]] = @ \ {m}]
          /\ UNCHANGED <<pending, interrupted>>
      BY <1>2, <2>2 DEF Listed
    <3>2. /\ m \notin cmds'[FileOf[t]]
          /\ \A g \in Files \ {FileOf[t]} : cmds'[g] = cmds[g]
      BY <1>a, <3>1, CmdMoves DEF OnlyAt
    <3> QED
      BY <1>2, <2>2, <3>1, <3>2 DEF Listed
  <2> QED
    BY <2>1, <2>2
<1>6. ~Unsent(m)' /\ ~Lost(m)'
  BY <1>2 DEF Unsent, Lost
<1> QED
  BY <1>a, <1>1, <1>2, <1>3, <1>4, <1>5, <1>6, HoldInv

\* A signal: the thread leaves m on the list for its kind.
LEMMA SignalledCall ==
    ASSUME CallInv, NEW t \in Threads, Signalled(t) PROVE CallSafe'
<1> USE ConstAssumption, InvokeAssumption
<1> PICK m \in Msgs : m = cur[t]
  BY DEF Signalled, Interrupted, CallInv, CallSafe, HandsInv, HandsOK, Ptr, Actors
<1> PICK f \in Files : f = FileOf[t]
  OBVIOUS
<1>a. /\ Owner(m) /\ ListTypes /\ call \in [Msgs -> Ptr(Calls)]
      /\ t \in Actors /\ FileUsed(t) = f
  BY DEF CallInv, CallSafe, OwnerInv, CallTypes, ListTypes, Actors, FileUsed
<1>b. /\ Finish(t) /\ UNCHANGED <<msgVars, call>> /\ st[m] = "sent"
      /\ \/ /\ kind[m] = "invoke"
            /\ pending' = [pending EXCEPT ![f] = @ \ {m}]
            /\ interrupted' = [interrupted EXCEPT ![f] = @ \cup {m}]
            /\ UNCHANGED cmds
         \/ /\ kind[m] = "munmap_fd"
            /\ cmds' = [cmds EXCEPT ![f] = @ \cup {m}]
            /\ UNCHANGED <<pending, interrupted>>
  BY DEF Signalled, Interrupted
<1>1. /\ call[m] # NULL /\ Holder(t, m) /\ Listed(m) /\ Sensible(m)
      /\ call[m].file = f /\ call[m].kind = kind[m]
  BY <1>a, <1>b DEF Owner, InNoHands, Holder, Sensible
<1>2. Others(m) /\ ListTypes'
  <2>1. UNCHANGED <<call, st, kind>>
    BY <1>b DEF msgVars, owner
  <2>2. /\ OnlyAt(pending, pending', f, m) /\ OnlyAt(interrupted, interrupted', f, m)
        /\ OnlyAt(cmds, cmds', f, m)
    BY <1>a, <1>b, ContextMoves, CmdMoves
  <2> QED
    BY <2>1, <2>2, OthersKept
<1>3. Sensible(m)' /\ call'[m] = call[m] /\ ~Lost(m)'
  <2>1. call[m].pid = t /\ t # NULL
    BY <1>1, <1>b DEF Holder
  <2> QED
    BY <1>1, <1>b, <2>1, Zenon DEF Sensible, Lost, msgVars, owner
<1>4. Listed(m)' /\ Kept(m)'
  <2>1. CASE kind[m] = "invoke"
    <3>1. /\ pending' = [pending EXCEPT ![f] = @ \ {m}]
          /\ interrupted' = [interrupted EXCEPT ![f] = @ \cup {m}]
          /\ cmds' = cmds
      BY <1>b, <2>1
    <3>2. /\ OnlyAt(pending, pending', f, m) /\ OnlyAt(interrupted, interrupted', f, m)
          /\ m \notin pending'[f] /\ m \in interrupted'[f]
      BY <1>a, <3>1, ContextMoves
    <3>3. m \notin cmds'[f]
      BY <1>1, <3>1 DEF Holder
    <3>4. \A g \in Files \ {f} : /\ pending'[g] = pending[g]
                                 /\ interrupted'[g] = interrupted[g]
                                 /\ cmds'[g] = cmds[g]
      BY <3>1, <3>2 DEF OnlyAt
    <3> QED
      BY <1>1, <1>3, <2>1, <3>2, <3>3, <3>4 DEF Listed, Kept
  <2>2. CASE kind[m] = "munmap_fd"
    <3>1. /\ cmds' = [cmds EXCEPT ![f] = @ \cup {m}]
          /\ UNCHANGED <<pending, interrupted>>
      BY <1>b, <2>2
    <3>2. m \in cmds'[f] /\ \A g \in Files \ {f} : cmds'[g] = cmds[g]
      BY <1>a, <3>1, CmdMoves DEF OnlyAt
    <3>3. \A g \in Files : m \notin pending[g] /\ m \notin interrupted[g]
      BY <1>1, <2>2 DEF Listed, Holder
    <3> QED
      BY <1>1, <1>3, <2>2, <3>1, <3>2, <3>3 DEF Listed, Kept, Holder
  <2> QED
    BY <1>b, <2>1, <2>2
<1>5. call' \in [Msgs -> Ptr(Calls)]
  BY <1>a, <1>b
<1> QED
  BY <1>a, <1>b, <1>1, <1>2, <1>3, <1>4, <1>5, DropInv

\* A signal, and no memory to save the command: the thread loses m.
LEMMA SaveFailsCall ==
    ASSUME CallInv, NEW t \in Threads, SaveFails(t)
    PROVE  /\ CallSafe'
           /\ \E m \in Msgs :
                /\ cur[t] = m /\ Finish(t) /\ UNCHANGED lists
                /\ call[m].kind = "munmap_fd" /\ call'[m].kind = "munmap_fd"
                /\ call'[m].pid = NULL
                /\ \A n \in Msgs \ {m} : call'[n] = call[n]
<1> USE ConstAssumption, InvokeAssumption
<1> PICK m \in Msgs : m = cur[t]
  BY DEF SaveFails, Interrupted, CallInv, CallSafe, HandsInv, HandsOK, Ptr, Actors
<1>a. /\ Owner(m) /\ ListTypes /\ call \in [Msgs -> Ptr(Calls)]
      /\ t \in Actors /\ FileUsed(t) = FileOf[t]
  BY DEF CallInv, CallSafe, OwnerInv, CallTypes, ListTypes, Actors, FileUsed
<1>b. /\ Finish(t) /\ UNCHANGED <<msgVars, lists>> /\ st[m] = "sent"
      /\ kind[m] = "munmap_fd" /\ call' = [call EXCEPT ![m].pid = NULL]
  BY DEF SaveFails, Interrupted
<1>c. UNCHANGED <<pending, interrupted, cmds, st, kind>>
  BY <1>b DEF lists, msgVars, owner
<1>1. /\ call[m] # NULL /\ Holder(t, m) /\ Listed(m) /\ Sensible(m)
      /\ call[m].file = FileOf[t] /\ call[m].kind = "munmap_fd"
  BY <1>a, <1>b DEF Owner, InNoHands, Holder, Sensible
<1>2. PICK c \in Calls : c = call[m]
  BY <1>a, <1>1 DEF Ptr
<1>3. /\ call' = [call EXCEPT ![m] = [c EXCEPT !.pid = NULL]]
      /\ [c EXCEPT !.pid = NULL] \in Calls
      /\ [c EXCEPT !.pid = NULL].file = c.file /\ [c EXCEPT !.pid = NULL].kind = c.kind
      /\ [c EXCEPT !.pid = NULL].arg = c.arg /\ [c EXCEPT !.pid = NULL].pid = NULL
  BY <1>b, <1>2, SMT DEF Calls, Ptr
<1>4. /\ call' \in [Msgs -> Ptr(Calls)] /\ call'[m] # NULL /\ call'[m].file = FileOf[t]
      /\ call'[m].kind = "munmap_fd" /\ call'[m].pid = NULL /\ call'[m].arg = call[m].arg
      /\ \A n \in Msgs \ {m} : call'[n] = call[n]
  <2>1. PICK d \in Calls : /\ call' = [call EXCEPT ![m] = d] /\ d.file = c.file
                           /\ d.kind = c.kind /\ d.arg = c.arg /\ d.pid = NULL
    BY <1>3
  <2> QED
    BY <1>a, <1>1, <1>2, <2>1 DEF Ptr
<1>5. Others(m) /\ ListTypes'
  BY <1>a, <1>c, <1>4 DEF Others, ListTypes
<1>6. OnNoList(m)' /\ Listed(m)'
  BY <1>1, <1>c DEF OnNoList, Listed, Holder
<1>7. Sensible(m)' /\ Lost(m)'
  BY <1>1, <1>b, <1>c, <1>4 DEF Sensible, Lost
<1>8. CallSafe'
  BY <1>a, <1>b, <1>c, <1>4, <1>5, <1>6, <1>7, DropInv
<1> QED
  BY <1>b, <1>1, <1>4, <1>8

\* The beginning of an ioctl keeps CallSafe.
LEMMA UserStepCall ==
    ASSUME CallInv, NEW t \in Threads, UserStep(t) PROVE CallSafe'
<1> USE InvokeAssumption
<1>1. ASSUME NEW m \in Msgs, NEW k \in AllKinds, NEW x \in Args, InvokeBegin(t, m, k, x)
      PROVE  CallSafe'
  <2>1. k \in {"invoke", "async"} /\ x \in Args \cup AllCommands /\ x # "open"
    BY <1>1 DEF InvokeBegin, AllCommands
  <2> QED
    BY <1>1, <2>1, BeginCall DEF InvokeBegin
<1>2. ASSUME NEW m \in Msgs, NEW x \in Args, InvokeResume(t, m, x) PROVE CallSafe'
  BY <1>2, ResumeCall DEF InvokeResume, InterruptedBy
<1>3. ASSUME NEW m \in Msgs, NEW x \in Args, MunmapFdBegin(t, m, x) PROVE CallSafe'
  <2>1. "munmap_fd" \in AllKinds /\ x \in Args \cup AllCommands /\ x # "open"
    BY DEF AllKinds, AllCommands
  <2> QED
    BY <1>3, <2>1, BeginCall DEF MunmapFdBegin, MayMap, lists
<1>4. ASSUME NEW m \in Msgs, MunmapFdResume(t, m) PROVE CallSafe'
  BY <1>4, ResumeCall DEF MunmapFdResume, MayMap, InterruptedBy
<1>5. ASSUME NEW m \in Msgs, NEW c \in AllCommands, MayCall(t), Command(t, m, c)
      PROVE  CallSafe'
  <2>1. "cmd" \in AllKinds
    BY DEF AllKinds
  <2> QED
    BY <1>5, <2>1, BeginCall DEF Command, lists
<1>6. ASSUME NEW m \in Msgs, ControlBegin(t, m) \/ OpenBegin(t, m) \/ MapBegin(t, m)
      PROVE  CallSafe'
  BY <1>5, <1>6 DEF ControlBegin, OpenBegin, MapBegin, MayMap, AllCommands
<1>7. ASSUME AsyncWait(t) \/ AsyncSignalled(t) PROVE CallSafe'
  <2>1. cur[t] = NULL /\ IsOpen(FileOf[t])
    BY <1>7 DEF AsyncWait, AsyncSignalled, MayCall, CallInv, CallSafe, PcInv
  <2>2. /\ UNCHANGED <<cur, call, lists, st, kind>>
        /\ \E s \in {"user", "await"} : pc' = [pc EXCEPT ![t] = s]
    BY <1>7 DEF AsyncWait, AsyncSignalled, msgVars, owner
  <2> QED
    BY <2>1, <2>2, IdleInv
<1> QED
  BY <1>1, <1>2, <1>3, <1>4, <1>6, <1>7, SignalledCall, SaveFailsCall DEF UserStep

\* What holds of the message an actor has in its hands.
LEMMA InHandsFacts ==
    ASSUME CallInv, NEW a \in Actors, NEW m \in Msgs, cur[a] = m
    PROVE  /\ Owner(m) /\ call[m] \in Calls /\ call[m] # NULL /\ call[m].file \in Files
           /\ Holder(a, m) /\ Listed(m) /\ Sensible(m)
           /\ ListTypes /\ call \in [Msgs -> Ptr(Calls)]
           /\ st \in [Msgs -> Stages] /\ kind \in [Msgs -> AllKinds]
<1>1. Owner(m) /\ call[m] # NULL
  BY DEF CallInv, CallSafe, OwnerInv, Owner, InNoHands
<1>2. ListTypes /\ call \in [Msgs -> Ptr(Calls)]
  BY DEF CallInv, CallSafe, CallTypes, ListTypes
<1>3. call[m] \in Calls /\ call[m].file \in Files
  BY <1>1, <1>2 DEF Ptr, Calls
<1>4. st \in [Msgs -> Stages] /\ kind \in [Msgs -> AllKinds]
  BY DEF CallInv, HandsInv, TypeInv, MsgTypeOK
<1> QED
  BY <1>1, <1>2, <1>3, <1>4 DEF Owner

\* Allocating the message or its buffer and handing the answer back keep
\* CallSafe.
LEMMA WorkCall ==
    ASSUME CallInv, NEW a \in Actors, AllocMsg(a) \/ AllocTx(a) \/ HandBack(a)
    PROVE  CallSafe'
<1> PICK m \in Msgs : m = cur[a]
  BY DEF AllocMsg, AllocTx, HandBack, CallInv, HandsInv, HandsOK, Ptr
<1>a. /\ Owner(m) /\ call[m] # NULL /\ Sensible(m) /\ ListTypes
      /\ call \in [Msgs -> Ptr(Calls)]
      /\ st \in [Msgs -> Stages] /\ kind \in [Msgs -> AllKinds]
  BY InHandsFacts
<1>1. UNCHANGED <<pc, cur, call, pending, interrupted, cmds>>
  BY DEF AllocMsg, AllocTx, HandBack, invVars, lists
<1>2. /\ \A n \in Msgs \ {m} : st'[n] = st[n] /\ kind'[n] = kind[n]
      /\ kind'[m] = call[m].kind
      /\ \/ st[m] = "free" /\ st'[m] = "slot"
         \/ st[m] = "slot" /\ st'[m] \in {"built", "nobuf"}
         \/ st[m] = "reply" /\ st'[m] = "drop"
  <2>1. CASE AllocMsg(a)
    BY <1>a, <2>1 DEF AllocMsg, AllocSlot
  <2>2. CASE AllocTx(a)
    BY <1>a, <2>2 DEF AllocTx, GetTxBuf, NoTxBuf, Sensible
  <2>3. CASE HandBack(a)
    BY <1>a, <2>3 DEF HandBack, RxbufSend, Sensible
  <2> QED
    BY <2>1, <2>2, <2>3
<1>3. Others(m)
  BY <1>1, <1>2 DEF Others
<1>4. Sensible(m)'
  BY <1>a, <1>1, <1>2 DEF Sensible
<1>5. Unsent(m)' => Unsent(m)
  BY <1>1, <1>2 DEF Unsent
<1>6. ListTypes'
  BY <1>a, <1>1 DEF ListTypes
<1> QED
  BY <1>a, <1>1, <1>3, <1>4, <1>5, <1>6, WorkInv

\* A message that is unlinked is on no list of pending contexts.
LEMMA UnlinkEffect ==
    ASSUME ListTypes, NEW m \in Msgs, Unlink(m)
    PROVE  /\ pending' \in [Files -> SUBSET Msgs]
           /\ \A f \in Files : pending'[f] = pending[f] \ {m}
BY DEF ListTypes, Unlink

\* A send that fails and a waiter that wakes keep CallSafe.
LEMMA CollectCall ==
    ASSUME CallInv, NEW a \in Actors, SendFails(a) \/ Woken(a)
    PROVE  CallSafe'
<1> PICK m \in Msgs : m = cur[a]
  BY DEF SendFails, Woken, CallInv, HandsInv, HandsOK, Ptr
<1>a. /\ Owner(m) /\ call[m] # NULL /\ Sensible(m) /\ ListTypes
      /\ call[m] \in Calls /\ call \in [Msgs -> Ptr(Calls)]
      /\ st \in [Msgs -> Stages] /\ kind \in [Msgs -> AllKinds]
  BY InHandsFacts
<1>1. UNCHANGED <<pc, cur, interrupted, cmds, kind>> /\ Unlink(m)
  BY DEF SendFails, Woken, GiveUpUnsent, Collect
<1>2. /\ \A n \in Msgs \ {m} : st'[n] = st[n]
      /\ st'[m] \in {"reply", "drop"} /\ st[m] \in {"built", "sent"}
  <2>1. CASE SendFails(a)
    BY <1>a, <2>1 DEF SendFails, GiveUpUnsent, ReadRxbuf
  <2>2. CASE Woken(a)
    BY <1>a, <2>2 DEF Woken, Collect, ReadRxbuf
  <2> QED
    BY <2>1, <2>2
<1>3. \/ call' = call
      \/ call[m].arg = "open" /\ call' = [call EXCEPT ![m].arg = "opened"]
  BY DEF SendFails, Woken, Judge
<1>4. /\ call' \in [Msgs -> Ptr(Calls)] /\ call'[m] \in Calls
      /\ call'[m].file = call[m].file /\ call'[m].kind = call[m].kind
      /\ call'[m].pid = call[m].pid
      /\ call'[m].arg = call[m].arg \/ call[m].arg = "open"
      /\ \A n \in Msgs \ {m} : call'[n] = call[n]
  BY <1>a, <1>3, SMT DEF Calls, Ptr, CallArgs
<1>5. pending' \in [Files -> SUBSET Msgs] /\ \A f \in Files : pending'[f] = pending[f] \ {m}
  BY <1>a, <1>1, UnlinkEffect
<1>6. Others(m) /\ ListTypes'
  BY <1>a, <1>1, <1>2, <1>4, <1>5 DEF Others, ListTypes
<1>7. Sensible(m)'
  <2>1. call'[m].arg \in {"open", "opened"} => call[m].arg \in {"open", "opened"}
    BY <1>4
  <2>2. kind[m] = call[m].kind
    BY <1>a, <1>2 DEF Sensible
  <2> QED
    BY <1>a, <1>1, <1>4, <2>1, <2>2 DEF Sensible
<1>8. ~Unsent(m)' /\ call'[m] # NULL
  BY <1>2, <1>4, InvokeAssumption DEF Unsent
<1> QED
  BY <1>1, <1>4, <1>5, <1>6, <1>7, <1>8, WorkInv

\* Sending the message keeps CallSafe.
LEMMA SendCall ==
    ASSUME CallInv, NEW a \in Actors, SendMsg(a) PROVE CallSafe'
<1> PICK m \in Msgs : m = cur[a]
  BY DEF SendMsg, CallInv, HandsInv, HandsOK, Ptr
<1>a. /\ call[m] # NULL /\ Sensible(m) /\ ListTypes /\ Holder(a, m) /\ Listed(m)
      /\ call[m].file \in Files /\ call \in [Msgs -> Ptr(Calls)]
      /\ st \in [Msgs -> Stages] /\ kind \in [Msgs -> AllKinds]
  BY InHandsFacts
<1>1. /\ UNCHANGED <<call, pending, interrupted, cmds, kind>>
      /\ st[m] = "built" /\ st' = [st EXCEPT ![m] = "sent"]
  BY DEF SendMsg, TxbufSend, lists
<1>2. Others(m) /\ ListTypes'
  BY <1>a, <1>1 DEF Others, ListTypes
<1>3. Sensible(m)'
  BY <1>a, <1>1 DEF Sensible
<1>4. CASE call[m].kind = "async"
  <2>1. Finish(a) /\ a \in Threads /\ m \in pending[call[m].file]
    BY <1>a, <1>1, <1>4 DEF SendMsg, Holder, Unsent
  <2>2. call[m].file = FileOf[a]
    BY <1>a, <2>1 DEF Holder, FileUsed
  <2>3. Listed(m)' /\ Kept(m)' /\ ~Lost(m)'
    BY <1>a, <1>1, <1>4, <2>1 DEF Listed, Kept, Lost
  <2> QED
    BY <1>a, <1>1, <1>2, <1>3, <2>1, <2>2, <2>3, DropInv
<1>5. CASE call[m].kind # "async"
  <2>1. UNCHANGED <<pc, cur>> /\ ~Unsent(m)'
    BY <1>1, <1>5 DEF SendMsg, Unsent
  <2> QED
    BY <1>a, <1>1, <1>2, <1>3, <2>1, WorkInv
<1> QED
  BY <1>4, <1>5

\* Freeing the context or the message keeps CallSafe.
LEMMA FreeCall ==
    ASSUME CallInv, NEW a \in Actors, AllocFails(a) \/ Free(a) PROVE CallSafe'
<1> PICK m \in Msgs : m = cur[a]
  BY DEF AllocFails, Free, CallInv, HandsInv, HandsOK, Ptr
<1>a. /\ call[m] # NULL /\ ListTypes /\ Holder(a, m)
      /\ call \in [Msgs -> Ptr(Calls)]
      /\ st \in [Msgs -> Stages] /\ kind \in [Msgs -> AllKinds]
  BY InHandsFacts
<1>1. /\ UNCHANGED <<interrupted, cmds>> /\ Unlink(m) /\ Finish(a)
      /\ call' = [call EXCEPT ![m] = NULL]
  BY DEF AllocFails, Free
<1>2. st'[m] = "free" /\ \A n \in Msgs \ {m} : st'[n] = st[n] /\ kind'[n] = kind[n]
  <2>1. CASE AllocFails(a)
    BY <2>1 DEF AllocFails, msgVars, owner
  <2>2. CASE Free(a)
    BY <1>a, <2>2 DEF Free, FreeMsg
  <2> QED
    BY <2>1, <2>2
<1>3. pending' \in [Files -> SUBSET Msgs] /\ \A f \in Files : pending'[f] = pending[f] \ {m}
  BY <1>a, <1>1, UnlinkEffect
<1>4. /\ call' \in [Msgs -> Ptr(Calls)] /\ call'[m] = NULL
      /\ \A n \in Msgs \ {m} : call'[n] = call[n]
  BY <1>a, <1>1 DEF Ptr
<1>5. Others(m) /\ ListTypes'
  <2>1. ListTypes'
    BY <1>a, <1>1, <1>3 DEF ListTypes
  <2>2. ASSUME NEW n \in Msgs \ {m}, NEW f \in Files
        PROVE  /\ n \in pending'[f] <=> n \in pending[f]
               /\ interrupted'[f] = interrupted[f] /\ cmds'[f] = cmds[f]
    BY <1>1, <1>3
  <2> QED
    BY <1>2, <1>4, <2>1, <2>2 DEF Others
<1>6. OnNoList(m)'
  BY <1>a, <1>1, <1>3 DEF OnNoList, Holder
<1> QED
  BY <1>1, <1>2, <1>4, <1>5, <1>6, DropInv

\* Every step of a thread on its message keeps CallSafe.
LEMMA KernelStepCall ==
    ASSUME CallInv, NEW a \in Actors, KernelStep(a) PROVE CallSafe'
BY WorkCall, CollectCall, SendCall, FreeCall DEF KernelStep

\* A job of the queue that may be taken.
Job(f, m) ==
    /\ call[m] # NULL /\ call[m].file = f /\ call[m].kind = "async"
    /\ st[m] = "sent" /\ done[m] /\ m \in pending[f] /\ InNoHands(m)

\* A context that waits to be taken is one.
LEMMA ReadyIsJob ==
    ASSUME NEW f, NEW m, Ready(f, m) PROVE Job(f, m)
BY DEF Ready, Job, InHands, InNoHands

\* Taking a job from the queue of answered asynchronous calls keeps CallSafe.
LEMMA AsyncStepCall ==
    ASSUME CallInv, NEW t \in Threads, AsyncStep(t),
           asyncq[FileOf[t]] # <<>> /\ Head(asyncq[FileOf[t]]) \notin alien
               => Job(FileOf[t], Head(asyncq[FileOf[t]]))
    PROVE  CallSafe'
<1> USE ConstAssumption, InvokeAssumption
<1>a. /\ PcInv /\ OwnerInv /\ ListTypes /\ call \in [Msgs -> Ptr(Calls)]
      /\ t \in Actors /\ FileOf[t] \in Files /\ FileUsed(t) = FileOf[t] /\ t \notin Files
      /\ asyncq[FileOf[t]] \in Seq(Msgs)
  BY DEF CallInv, CallSafe, CallTypes, ListTypes, HandsInv, HandsOK, Actors, FileUsed
<1>1. UNCHANGED <<msgVars, call, lists>> /\ cur[t] = NULL /\ IsOpen(FileOf[t])
  BY <1>a DEF AsyncStep, AsyncWakes, AsyncTake, PcInv
<1>2. CASE AsyncWakes(t) \/ (AsyncTake(t) /\ asyncq[FileOf[t]] = <<>>)
  <2>1. cur' = cur /\ \E s \in {"await", "take"} : pc' = [pc EXCEPT ![t] = s]
    BY <1>2 DEF AsyncWakes, AsyncTake
  <2> QED
    BY <1>1, <2>1, IdleInv DEF msgVars, owner
<1>3. CASE AsyncTake(t) /\ asyncq[FileOf[t]] # <<>>
  <2> PICK m \in Msgs : m = Head(asyncq[FileOf[t]])
    BY <1>a, <1>3, HeadOfQueue
  <2>1. Takes(t, m) /\ Job(FileOf[t], m)
    <3>1. m \in alien => Ready(FileOf[t], m)
      BY <1>3 DEF AsyncTake
    <3> QED
      BY <1>3, <3>1, ReadyIsJob DEF AsyncTake
  <2>2. call[m] # NULL /\ InNoHands(m) /\ Listed(m) /\ Sensible(m)
    BY <1>a, <2>1 DEF Job, OwnerInv, Owner
  <2>3. Others(m) /\ ListTypes' /\ UNCHANGED <<call, pending, interrupted, cmds, st, kind>>
    BY <1>a, <1>1 DEF Others, ListTypes, msgVars, owner, lists
  <2>4. Sensible(m)' /\ ~Unsent(m)' /\ ~Lost(m)'
    BY <2>1, <2>2, <2>3 DEF Sensible, Unsent, Lost, Job
  <2>5. ASSUME NEW f \in Files
        PROVE  /\ m \notin interrupted'[f] /\ m \notin cmds'[f]
               /\ m \in pending'[f] => f = FileOf[t]
    BY <2>1, <2>2, <2>3 DEF Listed, Job
  <2> QED
    BY <1>a, <1>1, <2>1, <2>2, <2>3, <2>4, <2>5, HoldInv DEF Job
<1> QED
  BY <1>2, <1>3 DEF AsyncStep

\* The release takes a context or command off its list.
LEMMA ReleaseTakes ==
    ASSUME CallInv, NEW f \in Files, NEW m \in Msgs, FreeContext(f, m) \/ FreeCmd(f, m)
    PROVE  CallSafe'
<1> USE ConstAssumption, InvokeAssumption
<1>a. /\ PcInv /\ Owner(m) /\ ListTypes /\ call \in [Msgs -> Ptr(Calls)]
      /\ f \in Actors /\ FileUsed(f) = f /\ f \notin Threads
      /\ st \in [Msgs -> Stages] /\ kind \in [Msgs -> AllKinds]
  BY DEF CallInv, CallSafe, CallTypes, ListTypes, HandsInv, TypeInv, MsgTypeOK, Actors,
         FileUsed, OwnerInv
<1>1. /\ cur[f] = NULL /\ Takes(f, m) /\ Collect(m) /\ UNCHANGED call
      /\ pc[f] \in {"ctxs", "cmds"}
  BY DEF FreeContext, FreeCmd
<1>2. \/ /\ m \in interrupted[f] \/ m \in pending[f]
         /\ interrupted' = [interrupted EXCEPT ![f] = @ \ {m}]
         /\ pending' = [pending EXCEPT ![f] = @ \ {m}]
         /\ UNCHANGED cmds
      \/ /\ m \in cmds[f]
         /\ cmds' = [cmds EXCEPT ![f] = @ \ {m}]
         /\ UNCHANGED <<pending, interrupted>>
  BY DEF FreeContext, FreeCmd
<1>3. /\ UNCHANGED kind /\ st[m] = "sent"
      /\ st'[m] \in {"reply", "drop"} /\ \A n \in Msgs \ {m} : st'[n] = st[n]
  BY <1>a, <1>1 DEF Collect, ReadRxbuf
<1>4. /\ call[m] # NULL /\ Listed(m) /\ Sensible(m)
      /\ call[m].file = f /\ call[m].kind # "cmd"
  BY <1>a, <1>2 DEF Owner, OnNoList, Listed
<1>5. InNoHands(m) /\ (m \in cmds[f] => pc[f] = "cmds")
  <2>1. ASSUME NEW a \in Actors, cur[a] = m PROVE FALSE
    <3>1. Holder(a, m) /\ m # NULL
      BY <1>a, <1>4, <2>1 DEF Owner
    <3>2. a \in Files
      BY <1>a, <1>1, <1>4, <2>1, <3>1 DEF Holder, FileUsed, PcInv, IsOpen, Actors
    <3> QED
      BY <1>1, <1>4, <2>1, <3>1, <3>2 DEF Holder, FileUsed
  <2>2. m \in cmds[f] => pc[f] = "cmds"
    BY <1>a, <1>4 DEF FreeContext, FreeCmd, Listed
  <2> QED
    BY <2>1, <2>2 DEF InNoHands
<1>6. Others(m) /\ ListTypes'
  <2>1. \A n \in Msgs \ {m} : call'[n] = call[n] /\ st'[n] = st[n] /\ kind'[n] = kind[n]
    BY <1>1, <1>3
  <2>2. /\ OnlyAt(pending, pending', f, m) /\ OnlyAt(interrupted, interrupted', f, m)
        /\ OnlyAt(cmds, cmds', f, m)
    BY <1>a, <1>2, ContextMoves, CmdMoves
  <2> QED
    BY <2>1, <2>2, OthersKept
<1>7. /\ Sensible(m)' /\ ~Unsent(m)' /\ ~Lost(m)'
      /\ call'[m].arg \notin {"open", "opened"}
  <2>1. ~Lost(m)
    BY <1>a, <1>2, <1>4 DEF Owner, Nobodys, OnNoList
  <2> QED
    BY <1>1, <1>3, <1>4, <2>1 DEF Sensible, Unsent, Lost
<1>8. ASSUME NEW g \in Files
      PROVE  m \notin interrupted'[g] /\ m \notin cmds'[g] /\ m \notin pending'[g]
  <2>1. CASE m \in cmds[f]
    <3>1. pending[f] = {} /\ interrupted[f] = {}
      BY <1>a, <1>5, <2>1 DEF PcInv
    <3> QED
      BY <1>a, <1>2, <1>4, <2>1, <3>1, SMT DEF Listed, ListTypes
  <2>2. CASE m \notin cmds[f]
    BY <1>a, <1>2, <1>4, <2>2, SMT DEF Listed, ListTypes
  <2> QED
    BY <2>1, <2>2
<1>9. call' \in [Msgs -> Ptr(Calls)] /\ call'[m] # NULL /\ call'[m].file = f
  BY <1>a, <1>1, <1>4
<1> QED
  BY <1>a, <1>1, <1>5, <1>6, <1>7, <1>8, <1>9, HoldInv

\* The release command that vfastrpc_file_free sends keeps CallSafe.
LEMMA CloseCall ==
    ASSUME CallInv, NEW f \in Files, NEW m \in Msgs, CloseBegin(f, m) PROVE CallSafe'
<1> USE ConstAssumption, InvokeAssumption
<1> DEFINE c == [file |-> f, pid |-> NULL, kind |-> "cmd", arg |-> NULL]
<1>a. /\ Owner(m) /\ ListTypes /\ call \in [Msgs -> Ptr(Calls)]
      /\ f \in Actors /\ FileUsed(f) = f /\ f \notin Threads
  BY DEF CallInv, CallSafe, CallTypes, ListTypes, Actors, FileUsed, OwnerInv
<1>b. /\ c \in Calls /\ c.file = f /\ c.pid = NULL /\ c.kind = "cmd" /\ c.arg = NULL
      /\ NULL \notin {"open", "opened"}
  BY DEF Calls, Ptr, AllKinds, CallArgs, AllCommands
<1>1. /\ cur[f] = NULL /\ Takes(f, m) /\ call[m] = NULL /\ pc[f] = "close"
      /\ call' = [call EXCEPT ![m] = c]
      /\ UNCHANGED <<pending, interrupted, cmds, st, kind>>
  BY DEF CloseBegin, lists, msgVars, owner
<1>2. call'[m] = c /\ call' \in [Msgs -> Ptr(Calls)] /\ c # NULL
  BY <1>a, <1>b, <1>1 DEF Ptr
<1>3. InNoHands(m) /\ OnNoList(m) /\ st[m] = "free"
  BY <1>a, <1>1 DEF Owner
<1>4. Others(m) /\ ListTypes'
  BY <1>a, <1>1 DEF Others, ListTypes
<1>5. Sensible(m)' /\ ~Unsent(m)' /\ ~Lost(m)'
  BY <1>b, <1>1, <1>2, <1>3 DEF Sensible, Unsent, Lost
<1>6. ASSUME NEW g \in Files
      PROVE  m \notin interrupted'[g] /\ m \notin cmds'[g] /\ m \notin pending'[g]
  BY <1>1, <1>3 DEF OnNoList
<1> HIDE DEF c
<1> QED
  BY <1>a, <1>b, <1>1, <1>2, <1>3, <1>4, <1>5, <1>6, HoldInv

\* The steps of a file that only move its control.
LEMMA FilePc ==
    ASSUME CallInv, NEW f \in Files,
           OpenFile(f) \/ Release(f) \/ ContextsFreed(f) \/ FileFreed(f)
    PROVE  CallSafe'
<1> USE ConstAssumption, InvokeAssumption DEF CallInv, CallSafe, Actors
<1>a. pc \in [Actors -> ThreadStates \cup FileStates]
  BY DEF CallTypes
<1>1. UNCHANGED <<cur, call, pending, interrupted, cmds, st, kind>>
  BY DEF OpenFile, Release, ContextsFreed, FileFreed, msgVars, owner, lists
<1>2. \/ pc[f] = "none" /\ pc' = [pc EXCEPT ![f] = "open"]
      \/ /\ IsOpen(f) /\ \A t \in Threads : FileOf[t] = f => pc[t] = "user"
         /\ \E s \in {"close", "ctxs"} : pc' = [pc EXCEPT ![f] = s]
      \/ /\ pc[f] = "ctxs" /\ cur[f] = NULL /\ pc' = [pc EXCEPT ![f] = "cmds"]
         /\ interrupted[f] = {} /\ pending[f] = {}
      \/ /\ pc[f] = "cmds" /\ cur[f] = NULL /\ pc' = [pc EXCEPT ![f] = "none"]
         /\ cmds[f] = {}
  BY <1>a DEF OpenFile, Release, ContextsFreed, AllFreed, FileFreed
<1>3. CallTypes'
  BY <1>1, <1>2, SMT DEF CallTypes, ThreadStates, FileStates
<1>4. OwnerInv'
  <2> SUFFICES ASSUME NEW n \in Msgs PROVE Owner(n)'
    BY DEF OwnerInv
  <2> QED
    BY <1>1, OwnerKeeps DEF OwnerInv
<1>5. ASSUME pc'[f] = "none", NEW m \in Msgs, call[m] # NULL
      PROVE  call[m].file # f \/ Lost(m)
  <2> SUFFICES ASSUME call[m].file = f, ~Lost(m) PROVE FALSE
    OBVIOUS
  <2>1. pc[f] = "cmds" /\ cur[f] = NULL /\ cmds[f] = {}
    BY <1>a, <1>2, <1>5
  <2>2. interrupted[f] = {} /\ pending[f] = {}
    BY <2>1 DEF PcInv
  <2>3. ~InNoHands(m)
    BY <1>5, <2>1, <2>2 DEF OwnerInv, Owner, Kept
  <2>4. PICK a \in Actors : cur[a] = m /\ Holder(a, m)
    BY <1>5, <2>3 DEF OwnerInv, Owner, InNoHands
  <2> QED
    BY <2>1, <2>4 DEF Holder, FileUsed, PcInv, IsOpen
<1>6. PcInv'
  <2>1. ASSUME NEW t \in Threads
        PROVE  /\ cur'[t] # NULL <=> pc'[t] = "call"
               /\ pc'[t] # "user" => IsOpen(FileOf[t])'
    BY <1>a, <1>1, <1>2, SMT DEF PcInv, IsOpen
  <2>2. ASSUME NEW g \in Files
        PROVE  cur'[g] # NULL => pc'[g] \in {"close", "ctxs", "cmds"}
    BY <1>a, <1>1, <1>2, SMTT(60) DEF PcInv, IsOpen
  <2>3. ASSUME NEW g \in Files, pc'[g] \in {"cmds", "none"}
        PROVE  pending'[g] = {} /\ interrupted'[g] = {}
    BY <1>a, <1>1, <1>2, <2>3, SMT DEF PcInv
  <2>4. ASSUME NEW g \in Files, pc'[g] = "none"
        PROVE  /\ cmds'[g] = {}
               /\ \A n \in Msgs : call'[n] # NULL => call'[n].file # g \/ Lost(n)'
    <3>1. \A n \in Msgs : Lost(n)' <=> Lost(n)
      BY <1>1 DEF Lost
    <3> QED
      BY <1>a, <1>1, <1>2, <1>5, <2>4, <3>1 DEF PcInv
  <2> QED
    BY <2>1, <2>2, <2>3, <2>4 DEF PcInv
<1> QED
  BY <1>3, <1>4, <1>6

\* Open and release keep CallSafe.
LEMMA FileStepCall ==
    ASSUME CallInv, NEW f \in Files, OpenFile(f) \/ Release(f) \/ ReleaseStep(f)
    PROVE  CallSafe'
BY FilePc, CloseCall, ReleaseTakes DEF ReleaseStep

\* The interrupt handler and the back end keep CallSafe.
LEMMA EnvironmentCall ==
    ASSUME CallInv, Environment PROVE CallSafe'
<1>1. UNCHANGED <<pc, cur, call, lists>>
  BY DEF Environment, RecvSignalOrQueue, QueueJob, invVars
<1>2. UNCHANGED <<st, kind>>
  BY DEF Environment, RecvSignalOrQueue, Backend, BackendFetch, BackendAnswer, owner,
         RecvSignal, RecvDone, RecvLookup, RecvStore, RecvNext
<1> QED
  BY <1>1, <1>2, IdleInv

-----------------------------------------------------------------------------
(***************************************************************************)
(* The queue of completed asynchronous jobs.  A message that has only been *)
(* touched by its own answer is signalled once: nothing is under way for   *)
(* it any more when it is done.                                            *)
(***************************************************************************)

Away == {"sent", "reply", "drop"}

\* The request or the answer of m is somewhere between its sender and the
\* signal.
Under(m) ==
    \/ \E q \in Outstanding : q.origin = m
    \/ irq = "stored" /\ irsp.origin = m

\* The handler has found the message it has the answer of.
HandlerInv ==
    /\ irq \in {"found", "stored"} /\ irsp.origin # NULL => imsg = irsp.origin
    /\ irq = "stored" /\ irsp.origin # NULL =>
         \A q \in Outstanding : q.origin # irsp.origin

AnswerInv ==
    /\ HandlerInv
    /\ \A m \in Msgs : Under(m) => st[m] \in Away
    /\ \A m \in Msgs \ alien : done[m] => st[m] \in Away /\ ~Under(m)


\* Every step of the messages keeps AnswerInv.
LEMMA AnswerStep ==
    TypeInv /\ TableSound /\ AddrInv /\ AnswerInv /\ [MsgNext]_msgVars => AnswerInv'
<1> SUFFICES ASSUME TypeInv, TableSound, AddrInv, AnswerInv, [MsgNext]_msgVars
             PROVE  AnswerInv'
  OBVIOUS
<1>0. /\ \A q \in svq : q \in Requests
      /\ \A q \in be : q \in Jobs
      /\ \A q \in rvq_used \cup InHandler : q \in Answers
      /\ irq # "idle" => irsp \in Answers
  BY DEF TypeInv, MsgTypeOK, PointersOK, InHandler
<1>a. /\ st \in [Msgs -> Stages]
      /\ done \in [Msgs -> BOOLEAN]
      /\ irq \in {"found", "stored", "signalled"} => imsg \in Msgs
      /\ NULL \notin Msgs
      /\ \A q \in Outstanding : q.origin \in Ptr(Msgs)
      /\ irq # "idle" => irsp.origin \in Ptr(Msgs)
  BY <1>0, ConstAssumption, SMTT(30)
     DEF TypeInv, MsgTypeOK, PointersOK, Outstanding, Requests, Jobs, Answers
<1>1. ASSUME NEW m \in Msgs, NEW k \in AllKinds,
             \/ AllocSlot(m, k) \/ GetTxBuf(m) \/ NoTxBuf(m) \/ GiveUpUnsent(m)
             \/ Collect(m) \/ RxbufSend(m)
      PROVE AnswerInv'
  <2>1. /\ UNCHANGED <<svq, be, rvq_used, irq, irsp, imsg, done, alien>>
        /\ \A n \in Msgs \ {m} : st'[n] = st[n]
        /\ st[m] \in Away => st'[m] \in Away
    <3>1. CASE AllocSlot(m, k)
      BY <1>a, <3>1 DEF AllocSlot, sendq, recvq, handler, history, Away
    <3>2. CASE GetTxBuf(m)
      BY <1>a, <3>2 DEF GetTxBuf, recvq, handler, history, Away
    <3>3. CASE NoTxBuf(m)
      BY <1>a, <3>3 DEF NoTxBuf, sendq, recvq, handler, history, Away
    <3>4. CASE GiveUpUnsent(m)
      BY <1>a, <3>4 DEF GiveUpUnsent, ReadRxbuf, sendq, recvq, handler, history, Away
    <3>5. CASE Collect(m)
      BY <1>a, <3>5 DEF Collect, ReadRxbuf, sendq, recvq, handler, Away
    <3>6. CASE RxbufSend(m)
      BY <1>a, <3>6 DEF RxbufSend, sendq, handler, history, Away
    <3> QED
      BY <1>1, <3>1, <3>2, <3>3, <3>4, <3>5, <3>6
  <2>2. Outstanding' = Outstanding /\ HandlerInv'
    BY <2>1 DEF Outstanding, InHandler, AnswerInv, HandlerInv
  <2>3. \A n \in Msgs : Under(n)' <=> Under(n)
    BY <2>1, <2>2 DEF Under
  <2>4. \A n \in Msgs : st[n] \in Away => st'[n] \in Away
    BY <2>1
  <2> QED
    BY <2>1, <2>2, <2>3, <2>4 DEF AnswerInv
<1>2. ASSUME NEW m \in Msgs, TxbufSend(m) PROVE AnswerInv'
  <2>1. /\ UNCHANGED <<be, rvq_used, irq, irsp, imsg, done, alien>>
        /\ st' = [st EXCEPT ![m] = "sent"]
        /\ st[m] = "built"
        /\ svq' = svq \cup {Request(m)}
    BY <1>2 DEF TxbufSend, recvq, handler, history
  <2>2. \A q \in Outstanding' : q \in Outstanding \/ q.origin = m
    BY <2>1, SMTT(30) DEF Request, Outstanding, InHandler
  <2>3. /\ \A n \in Msgs : st[n] \in Away \/ n = m => st'[n] \in Away
        /\ st[m] \notin Away
    BY <1>a, <2>1 DEF Away
  <2>4. ~Under(m) /\ (m \notin alien => ~done[m])
    BY <2>3 DEF AnswerInv
  <2>5. \A n \in Msgs : Under(n)' => Under(n) \/ n = m
    BY <2>1, <2>2 DEF Under
  <2>6. HandlerInv'
    BY <1>a, <2>1, <2>2, <2>4 DEF AnswerInv, HandlerInv, Under
  <2> QED
    BY <2>1, <2>3, <2>4, <2>5, <2>6 DEF AnswerInv
<1>3. ASSUME NEW m \in Msgs, FreeMsg(m) PROVE AnswerInv'
  <2>1. /\ UNCHANGED <<irq, imsg, alien>>
        /\ st' = [st EXCEPT ![m] = "free"]
        /\ done' = [done EXCEPT ![m] = FALSE]
        /\ irq # "idle" => irsp' = Orphan(irsp, m)
    BY <1>3 DEF FreeMsg, history
  <2>2. \A q \in Outstanding' : \E p \in Outstanding : q = Orphan(p, m)
    BY <1>3, SMTT(30) DEF FreeMsg, Disown, Outstanding, InHandler
  <2>3. \A p \in Outstanding : Orphan(p, m).origin = IF p.origin = m THEN NULL ELSE p.origin
    BY <1>0, OrphanFields, SMTT(30) DEF Outstanding
  <2>4. irq # "idle" => irsp'.origin = IF irsp.origin = m THEN NULL ELSE irsp.origin
    BY <1>0, <2>1, OrphanFields, SMTT(30)
  <2>5. \A q \in Outstanding' : q.origin # NULL =>
            \E p \in Outstanding : q.origin = p.origin /\ p.origin # m
    BY <2>2, <2>3
  <2>6. \A n \in Msgs : Under(n)' => Under(n) /\ n # m
    BY <1>a, <2>1, <2>4, <2>5 DEF Under
  <2>7. HandlerInv'
    BY <1>a, <2>1, <2>4, <2>5 DEF AnswerInv, HandlerInv
  <2>8. \A n \in Msgs : n # m => st'[n] = st[n] /\ done'[n] = done[n]
    BY <1>a, <2>1
  <2>9. ~done'[m]
    BY <1>a, <2>1
  <2> QED
    BY <2>1, <2>6, <2>7, <2>8, <2>9 DEF AnswerInv
<1>4. ASSUME NEW w \in Workers, Backend(w) PROVE AnswerInv'
  <2>1. UNCHANGED <<irq, irsp, imsg, st, done, alien>>
    BY <1>4 DEF Backend, BackendFetch, BackendAnswer, owner, handler, history
  <2>2. \A q \in Outstanding' : \E p \in Outstanding : q.origin = p.origin
    <3>1. CASE BackendFetch(w)
      BY <3>1, SMT DEF BackendFetch, handler, Outstanding, InHandler
    <3>2. CASE BackendAnswer(w)
      BY <3>2, SMTT(30) DEF BackendAnswer, sendq, handler, Outstanding, InHandler
    <3> QED
      BY <1>4, <3>1, <3>2 DEF Backend
  <2>3. \A n \in Msgs : Under(n)' => Under(n)
    BY <2>1, <2>2 DEF Under
  <2>4. HandlerInv'
    BY <2>1, <2>2 DEF AnswerInv, HandlerInv
  <2> QED
    BY <2>1, <2>3, <2>4 DEF AnswerInv
<1>5. ASSUME RecvDone \/ RecvNext PROVE AnswerInv'
  <2>1. UNCHANGED <<st, done, alien, svq, be>> /\ GetUsedBuf
    BY <1>5 DEF RecvDone, RecvNext, owner, sendq, history
  <2>2. irq' \in {"idle", "got"} /\ Outstanding' \subseteq Outstanding
    BY <2>1, SMTT(30) DEF GetUsedBuf, Outstanding, InHandler
  <2>3. \A n \in Msgs : Under(n)' => Under(n)
    BY <2>2 DEF Under
  <2>4. HandlerInv'
    BY <2>2 DEF HandlerInv
  <2> QED
    BY <2>1, <2>3, <2>4 DEF AnswerInv
<1>6. ASSUME RecvLookup PROVE AnswerInv'
  <2>1. /\ UNCHANGED <<st, done, alien, svq, be, rvq_used>>
        /\ irq = "got"
        /\ \/ irq' = "found" /\ irsp' = irsp /\ imsg' = msgtable[irsp.msgid]
           \/ irq' = "idle"
    BY <1>6 DEF RecvLookup, owner, sendq, recvq, history
  <2>2. irsp \in Outstanding /\ Outstanding' \subseteq Outstanding
    BY <2>1 DEF Outstanding, InHandler
  <2>3. irsp.origin # NULL => irsp.origin = msgtable[irsp.msgid]
    BY <2>2, SMTT(30) DEF AddrInv
  <2>4. \A n \in Msgs : Under(n)' => Under(n)
    BY <2>1, <2>2 DEF Under
  <2>5. HandlerInv'
    BY <2>1, <2>3 DEF HandlerInv
  <2> QED
    BY <2>1, <2>4, <2>5 DEF AnswerInv
<1>7. ASSUME RecvStore PROVE AnswerInv'
  <2>1. /\ UNCHANGED <<st, done, svq, be, rvq_used, irsp, imsg>>
        /\ irq = "found" /\ irq' = "stored" /\ alien \subseteq alien'
    BY <1>7 DEF RecvStore, Touch, sendq, recvq
  <2>2. InHandler = {irsp} /\ InHandler' = {}
    BY <2>1 DEF InHandler
  <2>3. irsp \in Outstanding /\ Outstanding' = svq \cup be \cup rvq_used
    BY <2>1, <2>2 DEF Outstanding
  <2>4. Outstanding' \subseteq Outstanding
    BY <2>3 DEF Outstanding
  <2>5. \A n \in Msgs : Under(n)' => Under(n)
    BY <2>1, <2>3, <2>4 DEF Under
  <2>6. irsp.origin # NULL => \A q \in Outstanding' : q.origin # irsp.origin
    BY <2>2, <2>3, SMTT(30) DEF AddrInv
  <2>7. HandlerInv'
    BY <2>1, <2>6 DEF AnswerInv, HandlerInv
  <2> QED
    BY <2>1, <2>5, <2>7 DEF AnswerInv
<1>8. ASSUME RecvSignal PROVE AnswerInv'
  <2>1. /\ UNCHANGED <<st, svq, be, rvq_used>>
        /\ irq = "stored" /\ irq' = "signalled"
        /\ done' = IF st[imsg] = "free" THEN done ELSE [done EXCEPT ![imsg] = TRUE]
        /\ alien' = IF st[imsg] = "free" \/ irsp.origin = imsg
                    THEN alien ELSE alien \cup {imsg}
    BY <1>8 DEF RecvSignal, Touch, sendq, recvq
  <2>2. Outstanding' = Outstanding
    BY <2>1 DEF Outstanding, InHandler
  <2>3. \A n \in Msgs : Under(n)' => Under(n)
    BY <2>1, <2>2 DEF Under
  <2>4. HandlerInv'
    BY <2>1 DEF HandlerInv
  <2>5. ASSUME NEW n \in Msgs \ alien', done'[n], ~done[n]
        PROVE  n = imsg /\ irsp.origin = imsg
    BY <1>a, <2>1, <2>5
  <2>6. ASSUME NEW n \in Msgs, n = imsg, irsp.origin = n
        PROVE  st[n] \in Away /\ ~Under(n)'
    <3>1. Under(n) /\ \A q \in Outstanding : q.origin # n
      BY <1>a, <2>1, <2>6 DEF Under, AnswerInv, HandlerInv
    <3>2. ~Under(n)'
      BY <2>1, <2>2, <3>1 DEF Under
    <3> QED
      BY <3>1, <3>2 DEF AnswerInv
  <2>7. alien \subseteq alien'
    BY <2>1
  <2>8. ASSUME NEW n \in Msgs \ alien', done'[n] PROVE st'[n] \in Away /\ ~Under(n)'
    <3>1. CASE done[n]
      BY <2>1, <2>3, <2>7, <3>1 DEF AnswerInv
    <3>2. CASE ~done[n]
      BY <2>1, <2>5, <2>6, <2>8, <3>2
    <3> QED
      BY <3>1, <3>2
  <2> QED
    BY <2>1, <2>3, <2>4, <2>8 DEF AnswerInv
<1>9. ASSUME UNCHANGED msgVars PROVE AnswerInv'
  <2>1. /\ UNCHANGED <<st, done, irq, irsp, imsg, alien>>
        /\ Outstanding' = Outstanding
    BY <1>9 DEF msgVars, owner, sendq, recvq, handler, history, Outstanding, InHandler
  <2> QED
    BY <2>1 DEF AnswerInv, HandlerInv, Under
<1>10. "cmd" \in AllKinds
  BY DEF AllKinds
<1> QED
  BY <1>10, <1>1, <1>2, <1>3, <1>4, <1>5, <1>6, <1>7, <1>8, <1>9, SMTT(30)
     DEF MsgNext, Client, Interrupt

\* At first no answer is under way.
LEMMA AnswerInit == MsgInit => AnswerInv
BY DEF MsgInit, AnswerInv, HandlerInv, Under, Outstanding, InHandler

\* What a step of the sender of m does to the other messages.
LEMMA ClientBeside ==
    ASSUME TypeInv, NEW m \in Msgs, Client(m)
    PROVE  /\ alien' = alien
           /\ \A n \in Msgs \ {m} : done'[n] = done[n] /\ (Under(n)' => Under(n))
           /\ Under(m)' => Under(m) \/ TxbufSend(m)
<1>0. /\ \A q \in svq : q \in Requests
      /\ \A q \in be : q \in Jobs
      /\ \A q \in rvq_used \cup InHandler : q \in Answers
      /\ irq # "idle" => irsp \in Answers
  BY DEF TypeInv, MsgTypeOK, PointersOK, InHandler
<1>a. done \in [Msgs -> BOOLEAN] /\ NULL \notin Msgs
  BY ConstAssumption DEF TypeInv, MsgTypeOK
<1>1. CASE ~TxbufSend(m) /\ ~FreeMsg(m)
  <2>1. UNCHANGED <<svq, be, rvq_used, irq, irsp, done, alien>>
    BY <1>1 DEF Client, AllocSlot, GetTxBuf, NoTxBuf, GiveUpUnsent, Collect,
       RxbufSend, sendq, recvq, handler, history
  <2>2. Outstanding' = Outstanding
    BY <2>1 DEF Outstanding, InHandler
  <2> QED
    BY <2>1, <2>2 DEF Under
<1>2. CASE TxbufSend(m)
  <2>1. UNCHANGED <<be, rvq_used, irq, irsp, done, alien>> /\ svq' = svq \cup {Request(m)}
    BY <1>2 DEF TxbufSend, recvq, handler, history
  <2>2. \A q \in Outstanding' : q \in Outstanding \/ q.origin = m
    BY <2>1, SMTT(30) DEF Request, Outstanding, InHandler
  <2> QED
    BY <1>2, <2>1, <2>2 DEF Under
<1>3. CASE FreeMsg(m)
  <2>1. /\ UNCHANGED <<irq, alien>>
        /\ done' = [done EXCEPT ![m] = FALSE]
        /\ irq # "idle" => irsp' = Orphan(irsp, m)
    BY <1>3 DEF FreeMsg, history
  <2>2. \A q \in Outstanding' : \E p \in Outstanding : q = Orphan(p, m)
    BY <1>3, SMTT(30) DEF FreeMsg, Disown, Outstanding, InHandler
  <2>3. \A p \in Outstanding : Orphan(p, m).origin = IF p.origin = m THEN NULL ELSE p.origin
    BY <1>0, OrphanFields, SMTT(30) DEF Outstanding
  <2>4. irq # "idle" => irsp'.origin = IF irsp.origin = m THEN NULL ELSE irsp.origin
    BY <1>0, <2>1, OrphanFields, SMTT(30)
  <2>5. \A n \in Msgs : Under(n)' => Under(n)
    BY <1>a, <2>1, <2>2, <2>3, <2>4 DEF Under
  <2> QED
    BY <1>a, <2>1, <2>5
<1> QED
  BY <1>1, <1>2, <1>3

\* An asynchronous invoke of an open file that is on its way is with nobody.
Flight(m) ==
    /\ m \notin alien /\ Under(m)
    /\ call[m] # NULL /\ call[m].kind = "async" /\ IsOpen(call[m].file)
    => st[m] = "sent" /\ InNoHands(m)

FlightInv == \A m \in Msgs : Flight(m)

\* The queue of an open file holds its answered asynchronous contexts, and each
\* of them once, but for what an answer of somebody else has touched.
QueueOf(f) ==
    /\ job_count[f] = Len(asyncq[f])
    /\ \A i \in 1 .. Len(asyncq[f]) : asyncq[f][i] \notin alien =>
        /\ Job(f, asyncq[f][i])
        /\ \A j \in 1 .. Len(asyncq[f]) : asyncq[f][j] = asyncq[f][i] => j = i

QueueInv ==
    /\ job_count \in [Files -> Nat]
    /\ \A f \in Files :
        /\ pc[f] = "none" => asyncq[f] = <<>> /\ job_count[f] = 0
        /\ IsOpen(f) => QueueOf(f)

AsyncInv == FlightInv /\ QueueInv

\* What a step that concerns m leaves alone, as far as the queues see it.
Beside(m) ==
    \A n \in Msgs \ {m} :
        /\ call'[n] = call[n] /\ st'[n] = st[n] /\ done'[n] = done[n]
        /\ Under(n)' => Under(n)
        /\ \A f \in Files : n \in pending[f] => n \in pending'[f]
        /\ \A a \in Actors : cur'[a] = n => cur[a] = n

\* A step that neither adds to the queue of an open file nor takes from it.
LEMMA QuietStep ==
    ASSUME CallInv, AsyncInv, NEW m, Beside(m), alien \subseteq alien',
           m \in Msgs => /\ \/ call[m] = NULL \/ ~InNoHands(m)
                            \/ call[m].kind # "async" \/ ~IsOpen(call[m].file)
                         /\ Flight(m)',
           job_count' \in [Files -> Nat],
           \A f \in Files :
               /\ IsOpen(f)' =>
                    /\ IsOpen(f) \/ pc[f] = "none"
                    /\ asyncq'[f] = asyncq[f] /\ job_count'[f] = job_count[f]
               /\ pc'[f] = "none" =>
                    \/ /\ pc[f] = "none"
                       /\ asyncq'[f] = asyncq[f] /\ job_count'[f] = job_count[f]
                    \/ asyncq'[f] = <<>> /\ job_count'[f] = 0
    PROVE  AsyncInv'
<1> USE DEF CallInv, CallSafe, AsyncInv
<1>a. asyncq \in [Files -> Seq(Msgs)] /\ \A n \in Msgs : call[n] # NULL => call[n].file \in Files
  BY DEF HandsInv, HandsOK, CallTypes, Ptr, Calls
<1>1. ASSUME NEW n \in Msgs \ {m}, n \notin alien PROVE Flight(n)'
  <2>1. Flight(n)
    BY DEF FlightInv
  <2>2. call[n] # NULL /\ call[n].kind = "async" => pc[call[n].file] # "none"
    BY <1>a DEF PcInv, Lost
  <2>3. InNoHands(n) => InNoHands(n)'
    BY DEF InNoHands, Beside
  <2> QED
    BY <1>a, <2>1, <2>2, <2>3, <1>1 DEF Flight, Beside
<1>2. FlightInv'
  BY <1>1 DEF FlightInv, Flight
<1>3. ASSUME NEW f \in Files, IsOpen(f)' PROVE QueueOf(f)'
  <2>1. asyncq'[f] = asyncq[f] /\ job_count'[f] = job_count[f]
    BY <1>3
  <2>2. CASE pc[f] = "none"
    <3>1. asyncq'[f] = <<>> /\ job_count'[f] = 0
      BY <2>1, <2>2 DEF QueueInv
    <3>2. Len(<<>>) = 0 /\ 1 .. 0 = {}
      BY SMT
    <3> QED
      BY <3>1, <3>2 DEF QueueOf
  <2>3. CASE IsOpen(f)
    <3>1. QueueOf(f)
      BY <2>3 DEF QueueInv
    <3>2. ASSUME NEW n \in Msgs, n \notin alien, Job(f, n) PROVE Job(f, n)'
      <4>1. n # m
        BY <2>3, <3>2 DEF Job
      <4>2. InNoHands(n)'
        BY <3>2, <4>1 DEF InNoHands, Beside, Job
      <4> QED
        BY <3>2, <4>1, <4>2 DEF Job, Beside
    <3>3. \A i \in 1 .. Len(asyncq[f]) : asyncq[f][i] \in Msgs
      BY <1>a, SMT
    <3> QED
      BY <2>1, <3>1, <3>2, <3>3 DEF QueueOf
  <2> QED
    BY <1>3, <2>2, <2>3
<1>4. QueueInv'
  BY <1>3 DEF QueueInv
<1> QED
  BY <1>2, <1>4

\* A step that leaves the messages alone leaves what is under way alone.
LEMMA MsgStutter ==
    ASSUME UNCHANGED msgVars
    PROVE  /\ UNCHANGED <<alien, st, kind, done, rxbuf>>
           /\ \A n \in Msgs : Under(n)' <=> Under(n)
<1>1. /\ UNCHANGED <<alien, st, kind, done, rxbuf, irq, irsp>>
      /\ Outstanding' = Outstanding
  BY DEF msgVars, owner, sendq, recvq, handler, history, Outstanding, InHandler
<1> QED
  BY <1>1 DEF Under

\* A thread that takes message m leaves the files and the other messages alone.
LEMMA TakesEffect ==
    ASSUME CallInv, NEW a \in Actors, NEW m \in Msgs, Takes(a, m)
    PROVE  /\ \A f \in Files : pc'[f] = pc[f]
           /\ \A n \in Msgs \ {m}, b \in Actors : cur'[b] = n => cur[b] = n
<1> USE ConstAssumption, InvokeAssumption
<1>1. cur \in [Actors -> Ptr(Msgs)] /\ pc \in [Actors -> ThreadStates \cup FileStates]
  BY DEF CallInv, CallSafe, HandsInv, HandsOK, CallTypes
<1> QED
  BY <1>1 DEF Takes, Actors

\* A thread that is done with its message opens no file and takes no message.
LEMMA FinishFiles ==
    ASSUME CallInv, NEW a \in Actors, cur[a] # NULL, Finish(a)
    PROVE  /\ \A f \in Files : /\ pc'[f] = "none" => pc[f] = "none"
                               /\ IsOpen(f)' => IsOpen(f)
           /\ \A n \in Msgs, b \in Actors : cur'[b] = n => cur[b] = n
           /\ a \in Files /\ pc[a] = "close" => pc'[a] = "ctxs"
<1> USE ConstAssumption, InvokeAssumption
<1>1. cur \in [Actors -> Ptr(Msgs)]
  BY DEF CallInv, HandsInv, HandsOK
<1>2. /\ cur' = [cur EXCEPT ![a] = NULL]
      /\ a \in Files => pc'[a] = IF pc[a] = "close" THEN "ctxs" ELSE pc[a]
      /\ \A b \in Actors \ {a} :
           pc'[b] = pc[b] \/ (b \in Files /\ IsOpen(b) /\ pc'[b] = "init")
  BY FinishEffect
<1> QED
  BY <1>1, <1>2 DEF Actors, IsOpen

\* The beginning of an ioctl keeps the queue of asynchronous jobs sound.
LEMMA UserAsync ==
    ASSUME CallInv, AnswerInv, AsyncInv, NEW t \in Threads, UserStep(t)
    PROVE  AsyncInv'
<1> USE ConstAssumption, InvokeAssumption
<1>a. /\ UNCHANGED <<alien, st, done, async>>
      /\ \A n \in Msgs : Under(n)' <=> Under(n)
  <2>1. UNCHANGED async
    BY DEF UserStep, InvokeBegin, InvokeResume, MunmapFdBegin, MunmapFdResume, ControlBegin,
           OpenBegin, MapBegin, Command, AsyncWait, AsyncSignalled, Signalled, SaveFails
  <2> QED
    BY <2>1, UserStepMsg, MsgStutter
<1>b. UNCHANGED <<asyncq, job_count>> /\ job_count \in [Files -> Nat]
  BY <1>a DEF async, AsyncInv, QueueInv
<1>c. /\ PcInv /\ OwnerInv /\ ListTypes /\ call \in [Msgs -> Ptr(Calls)] /\ t \in Actors
      /\ pc \in [Actors -> ThreadStates \cup FileStates]
  BY DEF CallInv, CallSafe, CallTypes, ListTypes, Actors
<1>1. ASSUME NEW m \in Msgs, Takes(t, m), call[m] = NULL,
             \A n \in Msgs \ {m} : call'[n] = call[n],
             \A f \in Files : pending[f] \subseteq pending'[f]
      PROVE  AsyncInv'
  <2>1. Beside(m)
    BY <1>1, <1>a, <1>c, TakesEffect DEF Beside
  <2>2. st[m] = "free"
    BY <1>1, <1>c DEF OwnerInv, Owner
  <2>3. ~Under(m)'
    BY <1>a, <2>2 DEF AnswerInv, Away
  <2>4. Flight(m)'
    BY <2>3 DEF Flight
  <2>5. \A f \in Files : pc'[f] = pc[f]
    BY <1>1, <1>c, TakesEffect
  <2> QED
    BY <1>1, <1>a, <1>b, <2>1, <2>4, <2>5, QuietStep DEF IsOpen
<1>2. ASSUME NEW m \in Msgs, call[m].kind # "async", call'[m].kind # "async",
             \A n \in Msgs \ {m} : call'[n] = call[n],
             \A f \in Files, n \in Msgs \ {m} : n \in pending[f] => n \in pending'[f],
             \/ Takes(t, m)
             \/ cur[t] = m /\ Finish(t)
      PROVE  AsyncInv'
  <2>1. /\ \A f \in Files : /\ pc'[f] = "none" => pc[f] = "none"
                            /\ IsOpen(f)' => IsOpen(f)
        /\ \A n \in Msgs \ {m}, b \in Actors : cur'[b] = n => cur[b] = n
    <3>1. CASE Takes(t, m)
      BY <1>c, <3>1, TakesEffect DEF IsOpen
    <3>2. CASE cur[t] = m /\ Finish(t)
      BY <1>c, <3>2, FinishFiles
    <3> QED
      BY <1>2, <3>1, <3>2
  <2>2. Beside(m)
    BY <1>2, <1>a, <2>1 DEF Beside
  <2>3. Flight(m)'
    BY <1>2 DEF Flight
  <2> QED
    BY <1>2, <1>a, <1>b, <2>1, <2>2, <2>3, QuietStep
<1>3. ASSUME NEW m \in Msgs, NEW k \in AllKinds, NEW x \in Args, InvokeBegin(t, m, k, x)
      PROVE  AsyncInv'
  BY <1>1, <1>3, <1>c DEF InvokeBegin, ListTypes
<1>4. ASSUME NEW m \in Msgs, NEW x \in Args, MunmapFdBegin(t, m, x) PROVE AsyncInv'
  BY <1>1, <1>4, <1>c DEF MunmapFdBegin, lists
<1>5. ASSUME NEW m \in Msgs, ControlBegin(t, m) \/ OpenBegin(t, m) \/ MapBegin(t, m)
      PROVE  AsyncInv'
  BY <1>1, <1>5, <1>c DEF ControlBegin, OpenBegin, MapBegin, Command, lists
<1>6. ASSUME NEW m \in Msgs, NEW x \in Args, InvokeResume(t, m, x) PROVE AsyncInv'
  <2>1. m \in interrupted[FileOf[t]] /\ Takes(t, m) /\ call' = call /\ Relink(FileOf[t], m)
    BY <1>6 DEF InvokeResume, InterruptedBy
  <2>2. call[m].kind = "invoke"
    BY <1>c, <2>1 DEF OwnerInv, Owner, Listed, OnNoList
  <2> QED
    BY <1>2, <1>c, <2>1, <2>2 DEF Relink, ListTypes
<1>7. ASSUME NEW m \in Msgs, MunmapFdResume(t, m) PROVE AsyncInv'
  <2>1. m \in cmds[FileOf[t]] /\ Takes(t, m) /\ call' = call /\ pending' = pending
    BY <1>7 DEF MunmapFdResume, InterruptedBy
  <2>2. call[m].kind = "munmap_fd"
    BY <1>c, <2>1 DEF OwnerInv, Owner, Listed, OnNoList
  <2> QED
    BY <1>2, <1>c, <2>1, <2>2
<1>8. ASSUME Signalled(t) PROVE AsyncInv'
  <2> PICK m \in Msgs : m = cur[t]
    BY <1>8, <1>c DEF Signalled, Interrupted, CallInv, HandsInv, HandsOK, Ptr
  <2>1. /\ Finish(t) /\ call' = call /\ st[m] = "sent" /\ kind[m] # "async"
        /\ \A f \in Files, n \in Msgs \ {m} : n \in pending[f] => n \in pending'[f]
    BY <1>8, <1>c, SMT DEF Signalled, Interrupted, ListTypes
  <2>2. call[m].kind # "async"
    BY <1>c, <2>1, InHandsFacts DEF Sensible
  <2> QED
    BY <1>2, <2>1, <2>2
<1>10. ASSUME SaveFails(t) PROVE AsyncInv'
  <2> PICK m \in Msgs :
        /\ cur[t] = m /\ Finish(t) /\ UNCHANGED lists
        /\ call[m].kind = "munmap_fd" /\ call'[m].kind = "munmap_fd"
        /\ \A n \in Msgs \ {m} : call'[n] = call[n]
    BY <1>10, SaveFailsCall
  <2>1. UNCHANGED pending
    BY DEF lists
  <2> QED
    BY <1>2, <2>1
<1>9. ASSUME AsyncWait(t) \/ AsyncSignalled(t) PROVE AsyncInv'
  <2>1. /\ UNCHANGED <<cur, call, pending>>
        /\ \A f \in Files : pc'[f] = pc[f]
    BY <1>9, <1>c DEF AsyncWait, AsyncSignalled, lists, Actors
  <2>2. Beside(NULL)
    BY <1>a, <2>1 DEF Beside
  <2> QED
    BY <1>a, <1>b, <2>1, <2>2, QuietStep DEF IsOpen
<1> QED
  BY <1>3, <1>4, <1>5, <1>6, <1>7, <1>8, <1>9, <1>10 DEF UserStep

\* A step of a thread on its message keeps the queue of asynchronous jobs sound.
LEMMA KernelAsync ==
    ASSUME CallInv, AsyncInv, NEW a \in Actors, KernelStep(a)
    PROVE  AsyncInv'
<1> USE ConstAssumption, InvokeAssumption
<1> PICK m \in Msgs : m = cur[a]
  BY DEF KernelStep, AllocMsg, AllocFails, AllocTx, SendMsg, SendFails, Woken, HandBack,
         Free, CallInv, HandsInv, HandsOK, Ptr
<1>a. /\ call[m] # NULL /\ ListTypes /\ Holder(a, m)
      /\ call[m] \in Calls /\ call \in [Msgs -> Ptr(Calls)]
      /\ st \in [Msgs -> Stages]
  BY InHandsFacts
<1>b. /\ cur[a] # NULL /\ ~InNoHands(m) /\ job_count \in [Files -> Nat] /\ TypeInv
      /\ pc \in [Actors -> ThreadStates \cup FileStates] /\ PcInv
  BY DEF InNoHands, AsyncInv, QueueInv, CallInv, CallSafe, CallTypes, HandsInv
<1>1. \/ Client(m)
      \/ UNCHANGED msgVars
  <2>1. "cmd" \in AllKinds /\ call[m].kind \in AllKinds
    BY <1>a DEF AllKinds, Calls
  <2> QED
    BY <2>1 DEF KernelStep, AllocMsg, AllocFails, AllocTx, SendMsg, SendFails, Woken,
                HandBack, Free, Client
<1>2. /\ alien' = alien
      /\ \A n \in Msgs \ {m} : done'[n] = done[n] /\ (Under(n)' => Under(n))
      /\ Under(m)' => Under(m) \/ TxbufSend(m)
  BY <1>1, <1>b, ClientBeside, MsgStutter
<1>3. \A n \in Msgs \ {m} : st'[n] = st[n]
  BY <1>1, <1>a, MsgStutter DEF Client, AllocSlot, GetTxBuf, NoTxBuf, TxbufSend, GiveUpUnsent,
     Collect, RxbufSend, FreeMsg, ReadRxbuf
<1>4. \/ UNCHANGED <<pc, cur>>
      \/ Finish(a)
  BY DEF KernelStep, AllocMsg, AllocFails, AllocTx, SendMsg, SendFails, Woken, HandBack,
         Free, invVars
<1>5. /\ \A f \in Files : /\ pc'[f] = "none" => pc[f] = "none"
                          /\ IsOpen(f)' => IsOpen(f)
      /\ \A n \in Msgs, b \in Actors : cur'[b] = n => cur[b] = n
  BY <1>4, <1>b, FinishFiles DEF IsOpen
<1>6. /\ \A n \in Msgs \ {m} : call'[n] = call[n]
      /\ call'[m] # NULL => call'[m].kind = call[m].kind /\ call'[m].file = call[m].file
  <2>1. \/ call' = call
        \/ call' = [call EXCEPT ![m].arg = "opened"]
        \/ call' = [call EXCEPT ![m] = NULL]
    BY DEF KernelStep, AllocMsg, AllocFails, AllocTx, SendMsg, SendFails, Woken, HandBack,
           Free, Judge, invVars
  <2> QED
    BY <1>a, <2>1, SMT DEF Calls
<1>7. \A f \in Files, n \in Msgs \ {m} : n \in pending[f] => n \in pending'[f]
  <2>1. UNCHANGED pending \/ Unlink(m)
    BY DEF KernelStep, AllocMsg, AllocFails, AllocTx, SendMsg, SendFails, Woken, HandBack,
           Free, invVars, lists
  <2> QED
    BY <1>a, <2>1, UnlinkEffect, SMT
<1>8. Beside(m)
  BY <1>2, <1>3, <1>5, <1>6, <1>7 DEF Beside
<1>9. Flight(m)'
  <2>1. CASE TxbufSend(m) /\ call[m].kind = "async"
    <3>1. Finish(a) /\ st' = [st EXCEPT ![m] = "sent"]
      <4>1. st[m] = "built" /\ st' = [st EXCEPT ![m] = "sent"]
        BY <2>1 DEF TxbufSend
      <4>2. st'[m] = "sent"
        BY <1>a, <4>1
      <4>3. SendMsg(a)
        BY <1>a, <4>1, <4>2 DEF KernelStep, AllocMsg, AllocFails, AllocTx, SendFails, Woken,
           HandBack, Free, GetTxBuf, NoTxBuf, AllocSlot, GiveUpUnsent, Collect, RxbufSend,
           FreeMsg, ReadRxbuf, msgVars, owner
      <4> QED
        BY <2>1, <4>1, <4>3 DEF SendMsg
    <3>2. cur' = [cur EXCEPT ![a] = NULL]
      BY <1>b, <3>1, FinishEffect
    <3>3. InNoHands(m)'
      BY <1>a, <3>2 DEF InNoHands, Holder, CallInv, HandsInv, HandsOK
    <3> QED
      BY <1>a, <3>1, <3>3 DEF Flight
  <2>2. CASE ~TxbufSend(m)
    <3>1. Flight(m)
      BY DEF AsyncInv, FlightInv
    <3>2. call[m].file \in Files
      BY <1>a DEF Calls
    <3> QED
      BY <1>a, <1>b, <1>2, <1>5, <1>6, <2>2, <3>1, <3>2 DEF Flight
  <2>3. CASE call[m].kind # "async"
    BY <1>6, <2>3 DEF Flight
  <2> QED
    BY <2>1, <2>2, <2>3
<1>10. UNCHANGED asyncq /\ (UNCHANGED job_count \/ (DummyJob(a) /\ Finish(a)))
  BY DEF KernelStep, AllocMsg, AllocFails, AllocTx, SendMsg, SendFails, Woken, HandBack,
         Free, invVars, async
<1>11. /\ job_count' \in [Files -> Nat]
       /\ \A f \in Files : IsOpen(f)' \/ pc'[f] = "none" => job_count'[f] = job_count[f]
  <2>1. CASE DummyJob(a) /\ Finish(a) /\ pc[a] = "close"
    <3>1. a \in Files
      BY <1>b, <2>1 DEF PcInv, Actors
    <3>2. pc'[a] = "ctxs"
      BY <1>b, <2>1, <3>1, FinishFiles
    <3>3. job_count' = [job_count EXCEPT ![a] = @ + 1]
      BY <2>1 DEF DummyJob
    <3> QED
      BY <1>b, <3>1, <3>2, <3>3, SMT DEF IsOpen
  <2> QED
    BY <1>b, <1>10, <2>1 DEF DummyJob
<1> QED
  BY <1>b, <1>2, <1>5, <1>8, <1>9, <1>10, <1>11, QuietStep

\* A job of the queue stays one while another message moves.
LEMMA JobKeeps ==
    ASSUME NEW m, Beside(m), NEW n \in Msgs \ {m}, NEW f \in Files, Job(f, n)
    PROVE  Job(f, n)'
<1>1. InNoHands(n)'
  BY DEF InNoHands, Beside, Job
<1> QED
  BY <1>1 DEF Job, Beside

\* An asynchronous call under way stays so while another message moves.
LEMMA FlightKeeps ==
    ASSUME CallInv, FlightInv, NEW m, Beside(m), alien \subseteq alien',
           \A f \in Files : IsOpen(f)' => IsOpen(f),
           NEW n \in Msgs \ {m}
    PROVE  Flight(n)'
<1>1. call[n] # NULL => call[n].file \in Files
  BY DEF CallInv, CallSafe, CallTypes, Ptr, Calls
<1>2. InNoHands(n) => InNoHands(n)'
  BY DEF InNoHands, Beside
<1> QED
  BY <1>1, <1>2 DEF FlightInv, Flight, Beside

\* The first job is taken.
LEMMA TakeAsync ==
    ASSUME CallInv, AnswerInv, AsyncInv, NEW t \in Threads, AsyncTake(t),
           asyncq[FileOf[t]] # <<>>
    PROVE  AsyncInv'
<1> USE ConstAssumption, InvokeAssumption
<1> PICK f \in Files : f = FileOf[t]
  OBVIOUS
<1>a. /\ asyncq \in [Files -> Seq(Msgs)] /\ job_count \in [Files -> Nat] /\ t \in Actors
      /\ IsOpen(f) /\ QueueOf(f)
  BY DEF AsyncTake, AsyncInv, QueueInv, CallInv, CallSafe, PcInv, HandsInv, HandsOK, Actors
<1> PICK m \in Msgs : m = Head(asyncq[f])
  BY <1>a, SMT
<1>b. /\ m \in alien => Ready(f, m)
      /\ Dequeue(f) /\ Takes(t, m)
      /\ UNCHANGED <<msgVars, call, lists>>
  BY DEF AsyncTake
<1>c. /\ UNCHANGED <<alien, st, done>>
      /\ \A n \in Msgs : Under(n)' <=> Under(n)
  BY <1>b, MsgStutter
<1>1. /\ Len(asyncq[f]) \in Nat \ {0} /\ asyncq[f][1] = m
      /\ Tail(asyncq[f]) \in Seq(Msgs)
      /\ Len(Tail(asyncq[f])) = Len(asyncq[f]) - 1
      /\ \A i \in 1 .. Len(Tail(asyncq[f])) :
           i + 1 \in 1 .. Len(asyncq[f]) /\ Tail(asyncq[f])[i] = asyncq[f][i + 1]
  BY <1>a, SMT
<1>2. Job(f, m)
  <2>1. 1 \in 1 .. Len(asyncq[f])
    BY <1>1, SMT
  <2>2. CASE m \notin alien
    <3>1. \A i \in 1 .. Len(asyncq[f]) : asyncq[f][i] \notin alien => Job(f, asyncq[f][i])
      BY <1>a DEF QueueOf
    <3>2. asyncq[f][1] \notin alien
      BY <1>1, <2>2
    <3>3. Job(f, asyncq[f][1])
      BY <2>1, <3>1, <3>2
    <3> QED
      BY <1>1, <3>3
  <2>3. CASE m \in alien
    BY <1>b, <2>3, ReadyIsJob
  <2> QED
    BY <2>2, <2>3
<1>3. Beside(m)
  BY <1>a, <1>b, <1>c, TakesEffect, SMT DEF Beside, lists
<1>4. \A g \in Files : pc'[g] = pc[g]
  BY <1>a, <1>b, TakesEffect
<1>5. FlightInv'
  <2>1. m \in alien' \/ ~Under(m)'
    BY <1>c, <1>2 DEF Job, AnswerInv
  <2>2. \A g \in Files : IsOpen(g)' => IsOpen(g)
    BY <1>4 DEF IsOpen
  <2>3. ASSUME NEW n \in Msgs \ {m} PROVE Flight(n)'
    BY <1>3, <1>c, <2>2, FlightKeeps DEF AsyncInv
  <2> QED
    BY <2>1, <2>3 DEF FlightInv, Flight
<1>6. /\ asyncq' = [asyncq EXCEPT ![f] = Tail(@)]
      /\ job_count' = [job_count EXCEPT ![f] = @ - 1]
  BY <1>b DEF Dequeue
<1>7. job_count'[f] = Len(asyncq[f]) - 1 /\ job_count' \in [Files -> Nat]
  <2>1. job_count \in [Files -> Nat] /\ job_count[f] = Len(asyncq[f])
    BY <1>a DEF QueueOf
  <2>2. PICK n \in Nat \ {0} : n = Len(asyncq[f])
    BY <1>1
  <2>3. n - 1 \in Nat
    BY SMTT(30)
  <2> QED
    BY <1>6, <2>1, <2>2, <2>3
<1>8. QueueOf(f)'
  <2>1. PICK q \in Seq(Msgs) : q = Tail(asyncq[f])
    BY <1>1
  <2>2. asyncq'[f] = q /\ job_count'[f] = Len(q)
    BY <1>a, <1>1, <1>6, <1>7, <2>1
  <2>3. ASSUME NEW i \in 1 .. Len(q), q[i] \notin alien'
        PROVE  Job(f, q[i])' /\ \A j \in 1 .. Len(q) : q[j] = q[i] => j = i
    <3> PICK n \in Msgs : n = q[i]
      BY <2>1, SMT
    <3>1. PICK k \in 1 .. Len(asyncq[f]) : k = i + 1 /\ asyncq[f][k] = n
      BY <1>1, <2>1
    <3>2. Job(f, n) /\ \A j \in 1 .. Len(asyncq[f]) : asyncq[f][j] = n => j = k
      <4>1. asyncq[f][k] \notin alien
        BY <1>c, <2>3, <3>1
      <4>2. /\ Job(f, asyncq[f][k])
            /\ \A j \in 1 .. Len(asyncq[f]) : asyncq[f][j] = asyncq[f][k] => j = k
        BY <1>a, <4>1 DEF QueueOf
      <4> QED
        BY <3>1, <4>2
    <3>3. n # m
      BY <1>1, <3>1, <3>2, SMT
    <3>4. Job(f, n)'
      BY <1>3, <3>2, <3>3, JobKeeps
    <3>5. ASSUME NEW j \in 1 .. Len(q), q[j] = n PROVE j = i
      <4>1. j + 1 \in 1 .. Len(asyncq[f]) /\ asyncq[f][j + 1] = n
        BY <1>1, <2>1, <3>5
      <4>2. j + 1 = i + 1
        BY <3>1, <3>2, <4>1
      <4> QED
        BY <4>2, SMT
    <3> QED
      BY <3>4, <3>5
  <2> QED
    BY <2>2, <2>3, SMT DEF QueueOf, Job, InNoHands
<1>9. ASSUME NEW g \in Files \ {f}, IsOpen(g) PROVE QueueOf(g)'
  <2>1. asyncq'[g] = asyncq[g] /\ job_count'[g] = job_count[g]
    BY <1>a, <1>6
  <2>2. QueueOf(g)
    BY <1>9 DEF AsyncInv, QueueInv
  <2>3. ASSUME NEW n \in Msgs, Job(g, n) PROVE Job(g, n)'
    <3>1. n # m
      BY <1>2, <2>3 DEF Job
    <3> QED
      BY <1>3, <2>3, <3>1, JobKeeps
  <2>4. \A i \in 1 .. Len(asyncq[g]) : asyncq[g][i] \in Msgs
    BY <1>a, SMT
  <2> QED
    BY <1>c, <2>1, <2>2, <2>3, <2>4 DEF QueueOf
<1>10. QueueInv'
  <2>1. \A g \in Files : pc[g] = "none" => g # f
    BY <1>a DEF IsOpen
  <2>2. \A g \in Files : pc'[g] = "none" => asyncq'[g] = <<>> /\ job_count'[g] = 0
    BY <1>a, <1>4, <1>6, <2>1 DEF AsyncInv, QueueInv
  <2>3. \A g \in Files : IsOpen(g)' => IsOpen(g)
    BY <1>4 DEF IsOpen
  <2> QED
    BY <1>7, <1>8, <1>9, <2>2, <2>3 DEF QueueInv
<1> QED
  BY <1>5, <1>10 DEF AsyncInv

\* Waiting for and taking a job keep the queue of asynchronous jobs sound.
LEMMA AsyncAsync ==
    ASSUME CallInv, AnswerInv, AsyncInv, NEW t \in Threads, AsyncStep(t)
    PROVE  AsyncInv'
<1> USE ConstAssumption, InvokeAssumption
<1>1. CASE AsyncWakes(t) \/ (AsyncTake(t) /\ asyncq[FileOf[t]] = <<>>)
  <2>1. /\ UNCHANGED <<msgVars, cur, call, pending, asyncq, job_count>>
        /\ \A f \in Files : pc'[f] = pc[f]
    BY <1>1 DEF AsyncWakes, AsyncTake, lists, async, Actors, CallInv, CallSafe, CallTypes
  <2>2. Beside(NULL)
    BY <2>1, MsgStutter DEF Beside
  <2>3. alien' = alien /\ job_count \in [Files -> Nat]
    BY <2>1, MsgStutter DEF AsyncInv, QueueInv
  <2> QED
    BY <2>1, <2>2, <2>3, QuietStep DEF IsOpen
<1> QED
  BY <1>1, TakeAsync DEF AsyncStep

\* Open and release keep the queue of asynchronous jobs sound.
LEMMA FileAsync ==
    ASSUME CallInv, AnswerInv, AsyncInv, NEW f \in Files,
           OpenFile(f) \/ Release(f) \/ ReleaseStep(f)
    PROVE  AsyncInv'
<1> USE ConstAssumption, InvokeAssumption
<1>a. /\ pc \in [Actors -> ThreadStates \cup FileStates] /\ PcInv /\ OwnerInv /\ ListTypes
      /\ call \in [Msgs -> Ptr(Calls)] /\ st \in [Msgs -> Stages] /\ TypeInv /\ f \in Actors
      /\ asyncq \in [Files -> Seq(Msgs)] /\ job_count \in [Files -> Nat]
  BY DEF CallInv, CallSafe, CallTypes, ListTypes, HandsInv, HandsOK, TypeInv, MsgTypeOK,
         AsyncInv, QueueInv, Actors
<1>1. CASE OpenFile(f) \/ Release(f) \/ ContextsFreed(f) \/ FileFreed(f)
  <2>1. UNCHANGED <<msgVars, cur, call, pending>>
    BY <1>1 DEF OpenFile, Release, ContextsFreed, FileFreed, lists
  <2>2. Beside(NULL) /\ alien' = alien
    BY <2>1, MsgStutter DEF Beside
  <2>3. /\ \A g \in Files \ {f} : pc'[g] = pc[g] /\ asyncq'[g] = asyncq[g]
                                  /\ job_count'[g] = job_count[g]
        /\ job_count' \in [Files -> Nat]
        /\ \/ /\ pc[f] = "none" /\ pc'[f] = "open"
              /\ asyncq'[f] = asyncq[f] /\ job_count'[f] = job_count[f]
           \/ pc'[f] \in {"close", "ctxs", "cmds"}
           \/ pc'[f] = "none" /\ asyncq'[f] = <<>> /\ job_count'[f] = 0
    <3>1. CASE OpenFile(f)
      BY <1>a, <3>1, SMTT(30) DEF OpenFile, async
    <3>2. CASE Release(f)
      BY <1>a, <3>2, SMT DEF Release
    <3>3. CASE ContextsFreed(f)
      BY <1>a, <3>3, SMTT(30) DEF ContextsFreed, async
    <3>4. CASE FileFreed(f)
      BY <1>a, <3>4, SMT DEF FileFreed
    <3> QED
      BY <1>1, <3>1, <3>2, <3>3, <3>4
  <2> QED
    BY <2>2, <2>3, QuietStep DEF IsOpen
<1>2. ASSUME NEW m \in Msgs, CloseBegin(f, m) PROVE AsyncInv'
  <2>1. /\ UNCHANGED <<msgVars, pending, asyncq, job_count>> /\ Takes(f, m)
        /\ call[m] = NULL /\ \A n \in Msgs \ {m} : call'[n] = call[n]
    BY <1>2, <1>a DEF CloseBegin, lists, async
  <2>2. /\ UNCHANGED <<alien, st, done>>
        /\ \A n \in Msgs : Under(n)' <=> Under(n)
    BY <2>1, MsgStutter
  <2>3. Beside(m) /\ \A g \in Files : pc'[g] = pc[g]
    BY <1>a, <2>1, <2>2, TakesEffect DEF Beside
  <2>4. st[m] = "free"
    BY <1>a, <2>1 DEF OwnerInv, Owner
  <2>5. ~Under(m)'
    BY <2>2, <2>4 DEF AnswerInv, Away
  <2>6. Flight(m)'
    BY <2>5 DEF Flight
  <2> QED
    BY <1>a, <2>1, <2>2, <2>3, <2>6, QuietStep DEF IsOpen
<1>3. ASSUME NEW m \in Msgs, FreeContext(f, m) \/ FreeCmd(f, m) PROVE AsyncInv'
  <2>1. /\ Collect(m) /\ Takes(f, m) /\ pc[f] \in {"ctxs", "cmds"}
        /\ UNCHANGED <<call, asyncq, job_count>>
        /\ m \in interrupted[f] \/ m \in pending[f] \/ m \in cmds[f]
    BY <1>3 DEF FreeContext, FreeCmd, async
  <2>2. \A n \in Msgs \ {m}, g \in Files : n \in pending[g] => n \in pending'[g]
    <3>1. pending' = [pending EXCEPT ![f] = @ \ {m}] \/ pending' = pending
      BY <1>3 DEF FreeContext, FreeCmd
    <3>2. pending \in [Files -> SUBSET Msgs]
      BY <1>a DEF ListTypes
    <3>3. \A g \in Files : pending'[g] = pending[g] \/ pending'[g] = pending[g] \ {m}
      BY <3>1, <3>2
    <3> QED
      BY <3>3
  <2>3. Client(m) /\ ~TxbufSend(m)
    BY <2>1 DEF Client, Collect, TxbufSend
  <2>4. /\ alien' = alien
        /\ \A n \in Msgs \ {m} : done'[n] = done[n] /\ (Under(n)' => Under(n))
    BY <1>a, <2>3, ClientBeside
  <2>5. \A n \in Msgs \ {m} : st'[n] = st[n]
    BY <1>a, <2>1 DEF Collect, ReadRxbuf
  <2>6. Beside(m) /\ \A g \in Files : pc'[g] = pc[g]
    BY <1>a, <2>1, <2>2, <2>4, <2>5, TakesEffect DEF Beside
  <2>7. call[m] # NULL /\ call[m].file = f
    BY <1>a, <2>1 DEF OwnerInv, Owner, Listed, OnNoList
  <2>8. ~IsOpen(call[m].file) /\ Flight(m)'
    BY <2>1, <2>6, <2>7 DEF IsOpen, Flight
  <2> QED
    BY <1>a, <2>1, <2>4, <2>6, <2>8, QuietStep DEF IsOpen
<1> QED
  BY <1>1, <1>2, <1>3 DEF ReleaseStep

\* A job is queued.
LEMMA QueueAsync ==
    ASSUME CallInv, AnswerInv, AsyncInv, RecvSignalOrQueue,
           st[imsg] \notin {"free", "slot", "nobuf"}, call[imsg].kind = "async"
    PROVE  QueueInv'
<1> USE ConstAssumption, InvokeAssumption
<1>a. /\ asyncq \in [Files -> Seq(Msgs)] /\ job_count \in [Files -> Nat]
      /\ done \in [Msgs -> BOOLEAN] /\ irq = "stored"
      /\ call \in [Msgs -> Ptr(Calls)] /\ OwnerInv /\ PcInv
  BY DEF RecvSignalOrQueue, RecvSignal, CallInv, CallSafe, CallTypes, HandsInv, HandsOK,
         TypeInv, MsgTypeOK, AsyncInv, QueueInv
<1> PICK m \in Msgs : m = imsg
  BY <1>a DEF CallInv, HandsInv, TypeInv, MsgTypeOK, PointersOK
<1>b. call[m] # NULL /\ call[m].file \in Files
  BY <1>a DEF OwnerInv, Owner, Ptr, Calls
<1> PICK f \in Files : f = call[m].file
  BY <1>b
<1>c. /\ asyncq' = [asyncq EXCEPT ![f] = Append(@, m)]
      /\ job_count' = [job_count EXCEPT ![f] = @ + 1]
      /\ done' = [done EXCEPT ![m] = TRUE]
      /\ alien' = IF irsp.origin = m THEN alien ELSE alien \cup {m}
      /\ UNCHANGED <<pc, cur, call, pending, st>>
  BY DEF RecvSignalOrQueue, RecvSignal, QueueJob, Touch, lists
<1>1. ASSUME NEW g \in Files, NEW n \in Msgs, Job(g, n) PROVE Job(g, n)'
  <2>1. done'[n]
    BY <1>a, <1>c, <1>1 DEF Job
  <2> QED
    BY <1>1, <1>c, <2>1 DEF Job, InNoHands
<1>2. alien \subseteq alien'
  BY <1>c
<1>3. ASSUME IsOpen(f), m \notin alien' PROVE Job(f, m)' /\ ~done[m]
  <2>1. irsp.origin = m /\ m \notin alien
    BY <1>c, <1>3
  <2>2. Under(m) /\ ~done[m]
    BY <1>a, <2>1 DEF Under, AnswerInv
  <2>3. st[m] = "sent" /\ InNoHands(m)
    BY <1>b, <1>3, <2>1, <2>2 DEF AsyncInv, FlightInv, Flight
  <2>4. m \in pending[f]
    BY <1>a, <1>b, <2>3 DEF OwnerInv, Owner, Kept, Lost, Listed
  <2>5. done'[m] /\ call'[m] = call[m] /\ call[m].kind = "async"
    BY <1>a, <1>c
  <2> QED
    BY <1>b, <1>c, <2>2, <2>3, <2>4, <2>5 DEF Job, InNoHands
<1>4. ASSUME IsOpen(f) PROVE QueueOf(f)'
  <2>1. PICK q \in Seq(Msgs) : q = asyncq[f]
    BY <1>a
  <2>2. QueueOf(f)
    BY <1>4 DEF AsyncInv, QueueInv
  <2>3. /\ asyncq'[f] = Append(q, m) /\ job_count'[f] = Len(q) + 1
        /\ Len(Append(q, m)) = Len(q) + 1
        /\ \A i \in 1 .. Len(q) : Append(q, m)[i] = q[i] /\ q[i] \in Msgs
        /\ Append(q, m)[Len(q) + 1] = m
    BY <1>a, <1>c, <2>1, <2>2, SMT DEF QueueOf
  <2>4. ASSUME NEW i \in 1 .. Len(q), q[i] \notin alien'
        PROVE  /\ Job(f, q[i])'
               /\ q[i] # m
               /\ \A j \in 1 .. Len(q) : q[j] = q[i] => j = i
    <3> PICK n \in Msgs : n = q[i]
      BY <2>3
    <3>1. Job(f, n) /\ \A j \in 1 .. Len(q) : q[j] = n => j = i
      BY <1>2, <2>1, <2>2, <2>4 DEF QueueOf
    <3>2. n # m
      BY <1>3, <1>4, <2>4, <3>1 DEF Job
    <3> QED
      BY <1>1, <3>1, <3>2
  <2>5. ASSUME NEW i \in 1 .. Len(q) + 1, Append(q, m)[i] \notin alien'
        PROVE  /\ Job(f, Append(q, m)[i])'
               /\ \A j \in 1 .. Len(q) + 1 : Append(q, m)[j] = Append(q, m)[i] => j = i
    <3>0. \A j \in 1 .. Len(q) + 1 : j \in 1 .. Len(q) \/ j = Len(q) + 1
      BY SMT
    <3>1. CASE i = Len(q) + 1
      <4>1. ASSUME NEW j \in 1 .. Len(q) PROVE Append(q, m)[j] # m
        BY <2>3, <2>4, <2>5, <3>1
      <4>2. Job(f, m)'
        BY <1>3, <1>4, <2>3, <2>5, <3>1
      <4> QED
        BY <2>3, <3>0, <3>1, <4>1, <4>2
    <3>2. CASE i # Len(q) + 1
      <4>1. i \in 1 .. Len(q) /\ Append(q, m)[i] = q[i] /\ q[i] \notin alien'
        BY <2>3, <2>5, <3>0, <3>2
      <4>2. /\ Job(f, q[i])' /\ q[i] # m
            /\ \A j \in 1 .. Len(q) : q[j] = q[i] => j = i
        BY <2>4, <4>1
      <4>3. Job(f, Append(q, m)[i])'
        BY <4>1, <4>2
      <4>4. ASSUME NEW j \in 1 .. Len(q) + 1, Append(q, m)[j] = Append(q, m)[i]
            PROVE  j = i
        <5>1. j # Len(q) + 1
          BY <2>3, <4>1, <4>2, <4>4
        <5> QED
          BY <2>3, <3>0, <4>1, <4>2, <4>4, <5>1
      <4> QED
        BY <4>3, <4>4
    <3> QED
      BY <3>1, <3>2
  <2>6. PICK r : r = Append(q, m)
    OBVIOUS
  <2>7. asyncq'[f] = r /\ job_count'[f] = Len(r) /\ Len(r) = Len(q) + 1
    BY <2>3, <2>6
  <2>8. ASSUME NEW i \in 1 .. Len(r), r[i] \notin alien'
        PROVE  Job(f, r[i])' /\ \A j \in 1 .. Len(r) : r[j] = r[i] => j = i
    BY <2>5, <2>6, <2>7, <2>8
  <2> QED
    BY <2>7, <2>8, SMT DEF QueueOf, Job, InNoHands
<1>5. ASSUME NEW g \in Files \ {f}, IsOpen(g) PROVE QueueOf(g)'
  <2>1. asyncq'[g] = asyncq[g] /\ job_count'[g] = job_count[g]
    BY <1>a, <1>c
  <2>2. QueueOf(g)
    BY <1>5 DEF AsyncInv, QueueInv
  <2>3. \A i \in 1 .. Len(asyncq[g]) : asyncq[g][i] \in Msgs
    BY <1>a, SMT
  <2> QED
    BY <1>1, <1>2, <2>1, <2>2, <2>3 DEF QueueOf
<1>6. pc[f] # "none"
  BY <1>a, <1>b DEF PcInv, Lost
<1>7. job_count' \in [Files -> Nat]
  BY <1>a, <1>c, SMT
<1>8. \A g \in Files : pc'[g] = "none" => asyncq'[g] = <<>> /\ job_count'[g] = 0
  BY <1>a, <1>c, <1>6 DEF AsyncInv, QueueInv
<1>9. \A g \in Files : IsOpen(g)' => IsOpen(g)
  BY <1>c DEF IsOpen
<1> QED
  BY <1>4, <1>5, <1>7, <1>8, <1>9 DEF QueueInv

\* The interrupt handler, which queues the jobs, keeps the queue sound.
LEMMA EnvironmentAsync ==
    ASSUME CallInv, AnswerInv, AsyncInv, Environment
    PROVE  AsyncInv'
<1> USE ConstAssumption, InvokeAssumption
<1>a. /\ UNCHANGED <<pc, cur, call, pending, st>> /\ alien \subseteq alien'
      /\ job_count \in [Files -> Nat] /\ done \in [Msgs -> BOOLEAN] /\ OwnerInv
  <2>1. UNCHANGED <<pc, cur, call, pending>>
    BY DEF Environment, RecvSignalOrQueue, QueueJob, invVars, lists
  <2>2. UNCHANGED st /\ alien \subseteq alien'
    BY DEF Environment, RecvSignalOrQueue, Backend, BackendFetch, BackendAnswer, owner,
           RecvSignal, RecvDone, RecvLookup, RecvStore, RecvNext, Touch, history
  <2> QED
    BY <2>1, <2>2 DEF AsyncInv, QueueInv, CallInv, CallSafe, HandsInv, TypeInv, MsgTypeOK
<1>b. \A n \in Msgs : Under(n)' => Under(n)
  <2>1. ASSUME NEW w \in Workers, Backend(w) PROVE \A n \in Msgs : Under(n)' => Under(n)
    <3>1. UNCHANGED <<irq, irsp>>
      BY <2>1 DEF Backend, BackendFetch, BackendAnswer, handler
    <3>2. \A q \in Outstanding' : \E p \in Outstanding : q.origin = p.origin
      <4>1. CASE BackendFetch(w)
        BY <4>1, SMTT(30) DEF BackendFetch, handler, Outstanding, InHandler
      <4>2. CASE BackendAnswer(w)
        BY <4>2, SMTT(30) DEF BackendAnswer, sendq, handler, Outstanding, InHandler
      <4> QED
        BY <2>1, <4>1, <4>2 DEF Backend
    <3> QED
      BY <3>1, <3>2 DEF Under
  <2>2. ASSUME RecvDone \/ RecvNext PROVE \A n \in Msgs : Under(n)' => Under(n)
    <3>1. UNCHANGED <<svq, be>> /\ GetUsedBuf
      BY <2>2 DEF RecvDone, RecvNext, sendq
    <3>2. irq' \in {"idle", "got"} /\ Outstanding' \subseteq Outstanding
      BY <3>1, SMTT(30) DEF GetUsedBuf, Outstanding, InHandler
    <3> QED
      BY <3>2 DEF Under
  <2>3. ASSUME RecvLookup \/ RecvStore \/ RecvSignal
        PROVE  \A n \in Msgs : Under(n)' => Under(n)
    <3>1. /\ UNCHANGED <<svq, be, rvq_used>> /\ Outstanding' \subseteq Outstanding
          /\ irq' = "stored" => irq = "found" /\ irsp' = irsp
      BY <2>3, SMTT(30) DEF RecvLookup, RecvStore, RecvSignal, sendq, recvq, Outstanding,
         InHandler
    <3>2. irq = "found" => irsp \in Outstanding
      BY DEF Outstanding, InHandler
    <3> QED
      BY <3>1, <3>2 DEF Under
  <2> QED
    BY <2>1, <2>2, <2>3 DEF Environment, RecvSignalOrQueue
<1>1. \A n \in Msgs : Flight(n) => Flight(n)'
  BY <1>a, <1>b DEF Flight, IsOpen, InNoHands
<1>2. CASE RecvSignalOrQueue
  <2> PICK m \in Msgs : m = imsg
    BY <1>2 DEF RecvSignalOrQueue, RecvSignal, CallInv, HandsInv, TypeInv, MsgTypeOK, PointersOK
  <2>1. CASE st[m] \notin {"free", "slot", "nobuf"} /\ call[m].kind = "async"
    BY <1>1, <1>2, <2>1, QueueAsync DEF AsyncInv, FlightInv
  <2>2. CASE ~(st[m] \notin {"free", "slot", "nobuf"} /\ call[m].kind = "async")
    <3>1. UNCHANGED <<asyncq, job_count>> /\ \A n \in Msgs \ {m} : done'[n] = done[n]
      BY <1>2, <1>a, <2>2 DEF RecvSignalOrQueue, RecvSignal, async
    <3>2. Beside(m)
      BY <1>a, <1>b, <3>1 DEF Beside
    <3>3. call[m] = NULL \/ ~InNoHands(m) \/ call[m].kind # "async"
      <4>1. call[m] # NULL => call[m].file \in Files
        BY DEF CallInv, CallSafe, CallTypes, Ptr, Calls
      <4> QED
        BY <1>a, <2>2, <4>1 DEF OwnerInv, Owner, Kept, Lost, Listed
    <3>4. Flight(m)'
      BY <1>1 DEF AsyncInv, FlightInv
    <3> QED
      BY <1>a, <3>1, <3>2, <3>3, <3>4, QuietStep DEF IsOpen
  <2> QED
    BY <2>1, <2>2
<1>3. CASE ~RecvSignalOrQueue
  <2>1. UNCHANGED <<asyncq, job_count, done>>
    BY <1>3 DEF Environment, Backend, BackendFetch, BackendAnswer, owner, RecvDone, RecvLookup,
       RecvStore, RecvNext, invVars, async
  <2>2. Beside(NULL)
    BY <1>a, <1>b, <2>1 DEF Beside
  <2> QED
    BY <1>a, <2>1, <2>2, QuietStep DEF IsOpen
<1> QED
  BY <1>2, <1>3

-----------------------------------------------------------------------------
(***************************************************************************)
(* The inductive invariant of the ioctls and the release.                  *)
(***************************************************************************)

InvokeInv ==
    /\ CallInv
    /\ TableSound /\ AddrInv /\ OwnInv
    /\ AnswerInv
    /\ AsyncInv

\* Before the first open InvokeInv holds.
LEMMA InvokeInvInit == InvokeInit => InvokeInv
<1> SUFFICES ASSUME InvokeInit PROVE InvokeInv
  OBVIOUS
<1> USE ConstAssumption, InvokeAssumption
<1>1. HandsInv /\ MsgInit
  BY HandsInit DEF InvokeInit
<1>2. TableSound /\ AddrInv /\ OwnInv /\ AnswerInv
  BY <1>1, AddrInit, OwnInit, AnswerInit DEF MsgInit, TableSound
<1>3. /\ st = [m \in Msgs |-> "free"] /\ \A m \in Msgs : ~Under(m)
  BY <1>1 DEF MsgInit, Under, Outstanding, InHandler
<1>4. CallSafe
  BY <1>3 DEF InvokeInit, CallSafe, CallTypes, OwnerInv, Owner, PcInv, InNoHands, OnNoList,
     ThreadStates, FileStates, Actors, Ptr
<1>5. AsyncInv
  BY <1>3 DEF InvokeInit, AsyncInv, FlightInv, Flight, QueueInv, IsOpen, Actors
<1> QED
  BY <1>1, <1>2, <1>4, <1>5 DEF InvokeInv, CallInv

\* Every step of the invoke path keeps InvokeInv.
LEMMA InvokeInvStep == InvokeInv /\ [InvokeNext]_vars => InvokeInv'
<1> SUFFICES ASSUME InvokeInv, [InvokeNext]_vars PROVE InvokeInv'
  OBVIOUS
<1> USE DEF InvokeInv
<1>a. HandsInv /\ TypeInv
  BY DEF CallInv, HandsInv
<1>1. [MsgNext]_msgVars /\ HandsInv'
  BY <1>a, InvokeStepMsg, HandsStep
<1>2. TableSound' /\ AddrInv' /\ OwnInv' /\ AnswerInv'
  BY <1>a, <1>1, TableStep, AddrStep, OwnStep, AnswerStep
<1>3. ASSUME NEW t \in Threads, UserStep(t) PROVE CallSafe' /\ AsyncInv'
  BY <1>3, UserStepCall, UserAsync
<1>4. ASSUME NEW t \in Threads, AsyncStep(t) PROVE CallSafe' /\ AsyncInv'
  <2>1. ASSUME asyncq[FileOf[t]] # <<>>, Head(asyncq[FileOf[t]]) \notin alien
        PROVE  Job(FileOf[t], Head(asyncq[FileOf[t]]))
    <3>1. /\ FileOf[t] \in Files /\ IsOpen(FileOf[t])
          /\ asyncq[FileOf[t]] \in Seq(Msgs)
      BY <1>4, <1>a, InvokeAssumption
         DEF AsyncStep, AsyncWakes, AsyncTake, CallInv, CallSafe, PcInv, HandsInv, HandsOK
    <3>2. QueueOf(FileOf[t])
      BY <3>1 DEF AsyncInv, QueueInv
    <3>3. Head(asyncq[FileOf[t]]) = asyncq[FileOf[t]][1] /\ 1 \in 1 .. Len(asyncq[FileOf[t]])
      BY <2>1, <3>1, SMT
    <3> QED
      BY <2>1, <3>2, <3>3 DEF QueueOf
  <2> QED
    BY <1>4, <2>1, AsyncStepCall, AsyncAsync
<1>5. ASSUME NEW a \in Actors, KernelStep(a) PROVE CallSafe' /\ AsyncInv'
  BY <1>5, KernelStepCall, KernelAsync
<1>6. ASSUME NEW f \in Files, OpenFile(f) \/ Release(f) \/ ReleaseStep(f)
      PROVE  CallSafe' /\ AsyncInv'
  BY <1>6, FileStepCall, FileAsync
<1>7. ASSUME Environment PROVE CallSafe' /\ AsyncInv'
  BY <1>2, <1>7, EnvironmentCall, EnvironmentAsync
<1>8. ASSUME UNCHANGED vars PROVE CallSafe' /\ AsyncInv'
  <2>1. UNCHANGED <<msgVars, pc, cur, call, lists, asyncq, job_count>>
    BY <1>8 DEF vars, invVars, async
  <2>2. UNCHANGED <<st, kind, done, alien>> /\ Beside(NULL)
    BY <2>1, MsgStutter DEF Beside, lists
  <2>3. CallSafe'
    BY <2>1, <2>2, IdleInv
  <2>4. job_count \in [Files -> Nat] /\ NULL \notin Msgs
    BY ConstAssumption DEF AsyncInv, QueueInv
  <2>5. AsyncInv'
    BY <2>1, <2>2, <2>4, QuietStep DEF IsOpen
  <2> QED
    BY <2>3, <2>5
<1> QED
  BY <1>1, <1>2, <1>3, <1>4, <1>5, <1>6, <1>7, <1>8 DEF InvokeNext, CallInv

\* InvokeInv holds in every state.
LEMMA InvokeInvHolds == InvokeSpec => []InvokeInv
BY InvokeInvInit, InvokeInvStep, PTL DEF InvokeSpec

-----------------------------------------------------------------------------
(***************************************************************************)
(* What follows for the calls of VFastrpcInvoke.                           *)
(***************************************************************************)

\* The state of the ioctls is well typed: what a thread or a release has in its
\* hands is a message, the lists and the job queue hold messages, and
\* async_queue_job_count is never negative.
THEOREM InvokeTypesAreKept == InvokeSpec => []InvokeTypeOK
<1>1. InvokeInv => InvokeTypeOK
  <2> SUFFICES ASSUME InvokeInv PROVE InvokeTypeOK
    OBVIOUS
  <2>1. MsgTypeOK
    BY DEF InvokeInv, CallInv, HandsInv, TypeInv
  <2>2. /\ \A t \in Threads : pc[t] \in ThreadStates
        /\ \A f \in Files : pc[f] \in FileStates
        /\ call \in [Msgs -> Ptr(Calls)]
        /\ pending \in [Files -> SUBSET Msgs]
        /\ interrupted \in [Files -> SUBSET Msgs]
        /\ cmds \in [Files -> SUBSET Msgs]
    BY DEF InvokeInv, CallInv, CallSafe, CallTypes
  <2>3. cur \in [Actors -> Ptr(Msgs)] /\ \A f \in Files : asyncq[f] \in Seq(Msgs)
    BY DEF InvokeInv, CallInv, HandsInv, HandsOK
  <2>4. \A f \in Files : job_count[f] \in Nat
    BY DEF InvokeInv, AsyncInv, QueueInv
  <2> QED
    BY <2>1, <2>2, <2>3, <2>4 DEF InvokeTypeOK
<1> QED
  BY <1>1, InvokeInvHolds, PTL

\* A context or command is with one actor or kept on one list of its own file,
\* so context_free, a resumed call and vfastrpc_file_free never work on the same
\* one, and nothing but a command save_interrupted_cmds could not save is with
\* nobody.
THEOREM EveryCallHasOneOwner == InvokeSpec => []OneOwner
<1>1. ASSUME InvokeInv, NEW m \in Msgs, call[m] # NULL
      PROVE  \/ /\ ~Lost(m) /\ KeptOn(m) = {}
                /\ \E a \in Actors : InHands(m) = {a}
             \/ /\ ~Lost(m) /\ InHands(m) = {}
                /\ \E l \in {"intr", "cmd", "async"} : KeptOn(m) = {l}
             \/ Lost(m) /\ InHands(m) = {} /\ KeptOn(m) = {}
  <2>a. Owner(m) /\ call[m].file \in Files
    BY <1>1 DEF InvokeInv, CallInv, CallSafe, CallTypes, OwnerInv, Ptr, Calls
  <2>3. CASE Lost(m)
    <3>1. InNoHands(m) /\ OnNoList(m)
      BY <1>1, <2>a, <2>3 DEF Owner, Nobodys
    <3>2. InHands(m) = {} /\ KeptOn(m) = {}
      BY <2>a, <3>1 DEF InHands, InNoHands, KeptOn, OnNoList
    <3> QED
      BY <2>3, <3>2
  <2>1. CASE InNoHands(m) /\ ~Lost(m)
    <3>1. InHands(m) = {}
      BY <2>1 DEF InHands, InNoHands
    <3>2. Listed(m) /\ Kept(m)
      BY <1>1, <2>a, <2>1 DEF Owner
    <3>3. \E l \in {"intr", "cmd", "async"} : KeptOn(m) = {l}
      <4>1. CASE m \in interrupted[call[m].file]
        <5>1. KeptOn(m) = {"intr"}
          BY <2>a, <3>2, <4>1 DEF KeptOn, Listed
        <5> QED
          BY <5>1
      <4>2. CASE m \in cmds[call[m].file]
        <5>1. KeptOn(m) = {"cmd"}
          BY <2>a, <3>2, <4>2 DEF KeptOn, Listed
        <5> QED
          BY <5>1
      <4>3. CASE m \notin interrupted[call[m].file] /\ m \notin cmds[call[m].file]
        <5>1. KeptOn(m) = {"async"}
          BY <3>1, <3>2, <4>3 DEF KeptOn, Kept
        <5> QED
          BY <5>1
      <4> QED
        BY <4>1, <4>2, <4>3
    <3> QED
      BY <2>1, <3>1, <3>3
  <2>2. CASE ~InNoHands(m) /\ ~Lost(m)
    <3>1. PICK a \in Actors : cur[a] = m
      BY <2>2 DEF InNoHands
    <3>2. Holder(a, m)
      BY <1>1, <2>a, <3>1 DEF Owner
    <3>3. InHands(m) = {a}
      BY <3>1, <3>2 DEF InHands, Holder
    <3>4. KeptOn(m) = {}
      BY <2>a, <3>2, <3>3 DEF KeptOn, Holder
    <3> QED
      BY <2>2, <3>3, <3>4
  <2> QED
    BY <2>1, <2>2, <2>3
<1>2. InvokeInv => OneOwner
  BY <1>1 DEF OneOwner
<1> QED
  BY <1>2, InvokeInvHolds, PTL

\* When vfastrpc_file_free is through with the interrupted commands nothing is
\* left of the file: no context, no command and no slot of the message table,
\* but the commands save_interrupted_cmds could not save.
THEOREM ReleaseLeavesNothing == InvokeSpec => []ReleaseReclaims
<1>1. InvokeInv => ReleaseReclaims
  BY DEF InvokeInv, CallInv, CallSafe, OwnerInv, Owner, Nobodys, PcInv, ReleaseReclaims
<1> QED
  BY <1>1, InvokeInvHolds, PTL

\* vfastrpc_wait_on_async_queue may collect m, the i-th of the queue of file f.
Collectable(f, i, m) ==
    /\ call[m] # NULL /\ call[m].file = f /\ call[m].kind = "async"
    /\ st[m] = "sent" /\ rxbuf[m] # NULL /\ m \in pending[f]
    /\ InHands(m) = {}
    /\ \A j \in 1 .. Len(asyncq[f]) : asyncq[f][j] = m => j = i

\* async_queue_job_count is the length of the queue of an open file, and with
\* nothing abandoned the queue holds answered contexts of that file nobody else
\* has in hands, each of them once.
THEOREM JobQueueIsSound == InvokeSpec => []AsyncQueueSound
<1>1. ASSUME InvokeInv, NEW f \in Files, IsOpen(f), ~abandoned,
             NEW i \in 1 .. Len(asyncq[f]), NEW m, m = asyncq[f][i]
      PROVE  Collectable(f, i, m)
  <2>1. m \in Msgs /\ alien = {}
    BY <1>1, SMT DEF InvokeInv, CallInv, HandsInv, HandsOK, OwnInv
  <2>2. Job(f, m) /\ \A j \in 1 .. Len(asyncq[f]) : asyncq[f][j] = m => j = i
    BY <1>1, <2>1 DEF InvokeInv, AsyncInv, QueueInv, QueueOf
  <2>3. rxbuf[m] # NULL
    BY <1>1, <2>1, <2>2 DEF InvokeInv, OwnInv, Job
  <2>4. InHands(m) = {}
    BY <2>2 DEF Job, InHands, InNoHands
  <2> QED
    BY <2>2, <2>3, <2>4 DEF Job, Collectable
<1>2. ASSUME InvokeInv, NEW f \in Files, IsOpen(f) PROVE job_count[f] = Len(asyncq[f])
  BY <1>2 DEF InvokeInv, AsyncInv, QueueInv, QueueOf
<1>3. ASSUME InvokeInv, NEW f \in Files, IsOpen(f), ~abandoned,
             NEW i \in 1 .. Len(asyncq[f])
      PROVE  Collectable(f, i, asyncq[f][i])
  BY <1>1, <1>3
<1>4. InvokeInv => AsyncQueueSound
  BY <1>2, <1>3 DEF AsyncQueueSound, Collectable
<1> QED
  BY <1>4, InvokeInvHolds, PTL

\* Only a thread that has nothing under way begins a new call of a kind: what it
\* had begun is in nobody's hands and the lookup of interrupted calls found none.
LEMMA BeginsFresh ==
    ASSUME CallInv, NEW t \in Threads, MayCall(t), NEW n \in Msgs, call[n] # NULL,
           call[n].pid = t, call[n].kind # "async",
           call[n].kind = "invoke" => InterruptedBy(t, interrupted) = {},
           call[n].kind = "munmap_fd" => InterruptedBy(t, cmds) = {}
    PROVE  FALSE
<1> USE ConstAssumption, InvokeAssumption
<1>1. Owner(n) /\ PcInv /\ t # NULL /\ FileOf[t] \in Files
  BY DEF CallInv, CallSafe, OwnerInv
<1>2. Listed(n) /\ call[n].file = FileOf[t] /\ (InNoHands(n) => Kept(n))
  BY <1>1 DEF Owner, Sensible, Lost
<1>3. ASSUME NEW a \in Actors, cur[a] = n PROVE FALSE
  <2>1. Holder(a, n) /\ n # NULL
    BY <1>1, <1>3 DEF Owner
  <2>2. a \in Threads => a = t
    BY <2>1 DEF Holder
  <2>3. a \in Files => a = FileOf[t]
    BY <1>2, <2>1 DEF Holder, FileUsed
  <2>4. CASE a \in Threads
    BY <1>1, <1>3, <2>1, <2>2, <2>4 DEF PcInv, MayCall
  <2>5. CASE a \in Files
    <3>1. pc[a] \in {"open", "init"} /\ pc[a] \in {"close", "ctxs", "cmds"}
      BY <1>1, <1>3, <2>1, <2>3, <2>5 DEF PcInv, MayCall, IsOpen
    <3> QED
      BY <3>1
  <2> QED
    BY <2>4, <2>5 DEF Actors
<1>4. Kept(n)
  BY <1>2, <1>3 DEF InNoHands
<1> QED
  BY <1>1, <1>2, <1>4 DEF Kept, Listed, InterruptedBy

\* Every step keeps that an interrupted call is resumed by the same arguments.
LEMMA RestartStep == InvokeInv /\ RestartResumes /\ [InvokeNext]_vars => RestartResumes'
<1> SUFFICES ASSUME CallInv, RestartResumes, [InvokeNext]_vars PROVE RestartResumes'
  BY DEF InvokeInv
<1> USE ConstAssumption, InvokeAssumption
<1>a. call \in [Msgs -> Ptr(Calls)]
  BY DEF CallInv, CallSafe, CallTypes
<1>1. ASSUME NEW m \in Msgs, \A n \in Msgs \ {m} : call'[n] = call[n],
             \/ call'[m] = NULL \/ call'[m].kind = "async" \/ call'[m].pid = NULL
             \/ /\ call[m] # NULL
                /\ call'[m].pid = call[m].pid /\ call'[m].kind = call[m].kind
             \/ \A n \in Msgs : ~(/\ call[n] # NULL /\ call[n].pid = call'[m].pid
                                  /\ call[n].kind = call'[m].kind)
      PROVE  RestartResumes'
  BY <1>1, SMT DEF RestartResumes
<1>2. ASSUME call' = call PROVE RestartResumes'
  BY <1>2 DEF RestartResumes
<1>3. ASSUME NEW t \in Threads, NEW m \in Msgs, NEW k \in AllKinds,
             NEW x \in Args \cup AllCommands, MayCall(t),
             call' = [call EXCEPT ![m] = [file |-> FileOf[t], pid |-> t, kind |-> k, arg |-> x]],
             k = "invoke" => InterruptedBy(t, interrupted) = {},
             k = "munmap_fd" => InterruptedBy(t, cmds) = {}
      PROVE  RestartResumes'
  <2>1. call'[m].pid = t /\ call'[m].kind = k
    BY <1>3, <1>a
  <2>2. k # "async" => \A n \in Msgs : ~(call[n] # NULL /\ call[n].pid = t /\ call[n].kind = k)
    BY <1>3, BeginsFresh
  <2>3. \A n \in Msgs \ {m} : call'[n] = call[n]
    BY <1>3, <1>a
  <2> QED
    BY <1>1, <2>1, <2>2, <2>3
<1>4. ASSUME NEW t \in Threads, UserStep(t) PROVE RestartResumes'
  <2>1. ASSUME NEW m \in Msgs, NEW k \in AllKinds, NEW x \in Args, InvokeBegin(t, m, k, x)
        PROVE  RestartResumes'
    <3>1. k # "munmap_fd"
      BY <2>1 DEF InvokeBegin
    <3> QED
      BY <1>3, <2>1, <3>1 DEF InvokeBegin
  <2>2. ASSUME NEW m \in Msgs, NEW x \in Args, MunmapFdBegin(t, m, x) PROVE RestartResumes'
    <3>1. "munmap_fd" \in AllKinds
      BY DEF AllKinds
    <3> QED
      BY <1>3, <2>2, <3>1 DEF MunmapFdBegin, MayMap
  <2>3. ASSUME NEW m \in Msgs, NEW c \in AllCommands, MayCall(t), Command(t, m, c)
        PROVE  RestartResumes'
    <3>1. "cmd" \in AllKinds
      BY DEF AllKinds
    <3> QED
      BY <1>3, <2>3, <3>1 DEF Command
  <2>4. ASSUME NEW m \in Msgs, ControlBegin(t, m) \/ OpenBegin(t, m) \/ MapBegin(t, m)
        PROVE  RestartResumes'
    BY <2>3, <2>4 DEF ControlBegin, OpenBegin, MapBegin, MayMap, AllCommands
  <2>5. ASSUME SaveFails(t) PROVE RestartResumes'
    BY <1>1, <2>5, SaveFailsCall
  <2> QED
    BY <1>2, <1>4, <2>1, <2>2, <2>4, <2>5
       DEF UserStep, InvokeResume, MunmapFdResume, AsyncWait, AsyncSignalled, Signalled
<1>5. ASSUME NEW a \in Actors, KernelStep(a) PROVE RestartResumes'
  <2> PICK m \in Msgs : m = cur[a]
    BY <1>5 DEF KernelStep, AllocMsg, AllocFails, AllocTx, SendMsg, SendFails, Woken,
       HandBack, Free, CallInv, HandsInv, HandsOK, Ptr
  <2>1. call[m] \in Calls /\ call[m] # NULL
    BY InHandsFacts
  <2>2. \/ call' = call
        \/ call' = [call EXCEPT ![m].arg = "opened"]
        \/ call' = [call EXCEPT ![m] = NULL]
    BY <1>5 DEF KernelStep, AllocMsg, AllocFails, AllocTx, SendMsg, SendFails, Woken,
       HandBack, Free, Judge, invVars
  <2>3. /\ \A n \in Msgs \ {m} : call'[n] = call[n]
        /\ call'[m] = NULL \/ (call'[m].pid = call[m].pid /\ call'[m].kind = call[m].kind)
    BY <1>a, <2>1, <2>2, SMT DEF Calls
  <2> QED
    BY <1>1, <2>1, <2>3
<1>6. ASSUME NEW f \in Files, NEW m \in Msgs, CloseBegin(f, m) PROVE RestartResumes'
  <2>1. call' = [call EXCEPT ![m] = [file |-> f, pid |-> NULL, kind |-> "cmd", arg |-> NULL]]
    BY <1>6 DEF CloseBegin
  <2>2. call'[m].pid = NULL /\ \A n \in Msgs \ {m} : call'[n] = call[n]
    BY <1>a, <2>1
  <2> QED
    BY <1>1, <2>2
<1>7. ASSUME \/ \E t \in Threads : AsyncStep(t)
             \/ \E f \in Files : \/ OpenFile(f) \/ Release(f) \/ ContextsFreed(f) \/ FileFreed(f)
                                 \/ \E m \in Msgs : FreeContext(f, m) \/ FreeCmd(f, m)
             \/ Environment
             \/ UNCHANGED vars
      PROVE  RestartResumes'
  BY <1>2, <1>7 DEF AsyncStep, AsyncWakes, AsyncTake, OpenFile, Release, ContextsFreed,
     FileFreed, FreeContext, FreeCmd, Environment, RecvSignalOrQueue, vars, invVars
<1> QED
  BY <1>4, <1>5, <1>6, <1>7 DEF InvokeNext, ReleaseStep

\* A thread never has two invokes, two munmap_fd it can come back for or two
\* uninterruptible commands under way: a restarted invoke, and the next
\* munmap_fd, resume what the signal interrupted.
THEOREM RestartsResume == InvokeSpec => []RestartResumes
<1>1. InvokeInit => RestartResumes
  BY DEF InvokeInit, RestartResumes
<1> QED
  BY <1>1, InvokeInvHolds, RestartStep, PTL DEF InvokeSpec

=============================================================================
