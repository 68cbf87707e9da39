--------------------------- MODULE VFastrpcInvoke ---------------------------
(***************************************************************************)
(* Who sends the messages of VirtFastrpcMsg: the ioctls of the threads of  *)
(* a process (invoke, asynchronous invoke and its response, munmap_fd) and *)
(* the release of its file.  Signals interrupt the waits; the context or   *)
(* command is kept on a list of the file and the next call of the same     *)
(* thread resumes it.                                                      *)
(*                                                                         *)
(* A context and the message it is sent in are named by the same element   *)
(* of Msgs.  The argument maps and buffers of a context are modelled in    *)
(* VFastrpcMmap.                                                           *)
(***************************************************************************)
EXTENDS VirtFastrpcMsg, Sequences

CONSTANTS
    Threads,   \* user threads, by pid
    Files,     \* open files of the device
    FileOf,    \* the file a thread uses
    Args,      \* the scalars of an invoke, the fd of a munmap_fd
    Commands,  \* which of AllCommands the threads send
    MaxOpens   \* bound: how often a file is opened

\* The uninterruptible commands: OPEN; those sent with internal_map_mutex held
\* (mmap, munmap, mem_map, mem_unmap); CONTROL and GET_DSP_INFO.
AllCommands == {"open", "map", "control"}

\* "opened" is an OPEN the back end has answered well.
CallArgs == Args \cup AllCommands \cup {"opened"}

\* What a context or command is for and whose it is.
Calls == [file: Files, pid: Ptr(Threads), kind: AllKinds, arg: Ptr(CallArgs)]

ASSUME InvokeAssumption ==
    /\ Commands \subseteq AllCommands
    /\ FileOf \in [Threads -> Files]
    /\ Threads \cap Files = {}
    /\ Args \cap (AllCommands \cup {"opened"}) = {}
    /\ NULL \notin Threads \cup CallArgs \cup Calls
    /\ MaxOpens \in Nat

Actors == Threads \cup Files

VARIABLES
    pc,          \* what a thread is doing; the life of a file
    cur,         \* the context or message an actor has in its hands
    call,        \* what a context or command is for and whose it is
    pending,     \* fl->clst.pending
    interrupted, \* fl->clst.interrupted
    cmds,        \* vfl->interrupted_cmds
    asyncq,      \* fl->clst.async_queue
    job_count,   \* fl->async_queue_job_count
    opens        \* how often a file has been opened

lists == <<pending, interrupted, cmds>>

async == <<asyncq, job_count>>

invVars == <<pc, cur, call, lists, async, opens>>

vars == <<msgVars, invVars>>

(***************************************************************************)
(* A thread is in "user" mode, in a "call" that has a message or context   *)
(* in its hands (st says how far it is), or waiting for a job: "await" is  *)
(* wait_event_interruptible, "take" is after it.  A file is "none" (not    *)
(* open), "open", "init" (dsp_proc_init is set), or in vfastrpc_file_free: *)
(* "close" is virt_fastrpc_close, "ctxs" the context lists, "cmds" the     *)
(* interrupted commands.                                                   *)
(***************************************************************************)
ThreadStates == {"user", "call", "await", "take"}

FileStates == {"none", "open", "init", "close", "ctxs", "cmds"}

IsOpen(f) == pc[f] \in {"open", "init"}

FileUsed(a) == IF a \in Threads THEN FileOf[a] ELSE a

InvokeInit ==
    /\ MsgInit
    /\ pc = [a \in Actors |-> IF a \in Threads THEN "user" ELSE "none"]
    /\ cur = [a \in Actors |-> NULL]
    /\ call = [m \in Msgs |-> NULL]
    /\ pending = [f \in Files |-> {}]
    /\ interrupted = [f \in Files |-> {}]
    /\ cmds = [f \in Files |-> {}]
    /\ asyncq = [f \in Files |-> <<>>]
    /\ job_count = [f \in Files |-> 0]
    /\ opens = [f \in Files |-> 0]

-----------------------------------------------------------------------------
(***************************************************************************)
(* The entry of the ioctls.                                                *)
(***************************************************************************)

\* An actor starts on m, or goes on with it.
Takes(a, m) ==
    /\ pc' = [pc EXCEPT ![a] = IF a \in Threads THEN "call" ELSE @]
    /\ cur' = [cur EXCEPT ![a] = m]

\* Wrong: a restarted call is a new one.
InterruptedBy_Nobody(t, list) == {}

\* The contexts and commands of thread t that a signal has interrupted.
InterruptedBy(t, list) == {m \in list[FileOf[t]] : call[m].pid = t}

MayCall(t) == pc[t] = "user" /\ IsOpen(FileOf[t])

\* vfastrpc_internal_invoke: context_restore_interrupted finds nothing and
\* context_alloc makes a context.
InvokeBegin(t, m, k, sc) ==
    LET f == FileOf[t] IN
    /\ MayCall(t)
    /\ k \in Kinds \cap {"invoke", "async"}
    /\ InterruptedBy(t, interrupted) = {}
    /\ call[m] = NULL
    /\ call' = [call EXCEPT ![m] =
                  [file |-> f, pid |-> t, kind |-> k, arg |-> sc]]
    /\ pending' = [pending EXCEPT ![f] = @ \cup {m}]
    /\ Takes(t, m)
    /\ UNCHANGED <<msgVars, interrupted, cmds, async, opens>>

\* Wrong: the context stays on the list of interrupted ones.
Relink_Both(f, m) ==
    /\ pending' = [pending EXCEPT ![f] = @ \cup {m}]
    /\ UNCHANGED interrupted

\* From the list of interrupted contexts to that of pending ones.
Relink(f, m) ==
    /\ interrupted' = [interrupted EXCEPT ![f] = @ \ {m}]
    /\ pending' = [pending EXCEPT ![f] = @ \cup {m}]

\* Wrong: the restarted call sends its request again.
InvokeResume_SendsAgain(t, m, sc) ==
    /\ MayCall(t)
    /\ m \in InterruptedBy(t, interrupted)
    /\ Relink(FileOf[t], m)
    /\ svq' = svq \cup {[buf |-> 0, msgid |-> msgid[m], origin |-> m]}
    /\ Takes(t, m)
    /\ UNCHANGED <<owner, last_sbuf, svq_used, recvq, handler, history, call,
                   cmds, async, opens>>

\* context_restore_interrupted finds the context of this thread.  With other
\* scalars the call fails and changes nothing.
InvokeResume(t, m, sc) ==
    /\ MayCall(t)
    /\ m \in InterruptedBy(t, interrupted)
    /\ call[m].arg = sc
    /\ Relink(FileOf[t], m)
    /\ Takes(t, m)
    /\ UNCHANGED <<msgVars, call, cmds, async, opens>>

\* The ioctls that map and unmap hold internal_map_mutex until they return, and
\* need an initialised file.
MayMap(t) ==
    /\ MayCall(t)
    /\ pc[FileOf[t]] = "init"
    /\ \A u \in Threads : FileOf[u] = FileOf[t] /\ cur[u] # NULL =>
          ~(call[cur[u]].kind = "munmap_fd" \/ call[cur[u]].arg = "map")

\* A thread sends a command and waits for the completion, uninterruptibly.
Command(t, m, c) ==
    /\ c \in Commands
    /\ call[m] = NULL
    /\ call' = [call EXCEPT ![m] =
                  [file |-> FileOf[t], pid |-> t, kind |-> "cmd", arg |-> c]]
    /\ Takes(t, m)
    /\ UNCHANGED <<msgVars, lists, async, opens>>

ControlBegin(t, m) == MayCall(t) /\ Command(t, m, "control")

OpenBegin(t, m) == MayCall(t) /\ Command(t, m, "open")

MapBegin(t, m) == MayMap(t) /\ Command(t, m, "map")

\* vfastrpc_internal_munmap_fd and virt_fastrpc_munmap_fd, nothing saved.
MunmapFdBegin(t, m, fd) ==
    /\ MayMap(t)
    /\ "munmap_fd" \in Kinds
    /\ InterruptedBy(t, cmds) = {}
    /\ call[m] = NULL
    /\ call' = [call EXCEPT ![m] =
           [file |-> FileOf[t], pid |-> t, kind |-> "munmap_fd", arg |-> fd]]
    /\ Takes(t, m)
    /\ UNCHANGED <<msgVars, lists, async, opens>>

\* vfastrpc_find_interrupted_cmds finds a command of this thread: it waits
\* for that one, whatever fd it was for.
MunmapFdResume(t, m) ==
    /\ MayMap(t)
    /\ m \in InterruptedBy(t, cmds)
    /\ cmds' = [cmds EXCEPT ![FileOf[t]] = @ \ {m}]
    /\ Takes(t, m)
    /\ UNCHANGED <<msgVars, call, pending, interrupted, async, opens>>

-----------------------------------------------------------------------------
(***************************************************************************)
(* A message from virt_alloc_msg to virt_free_msg.                         *)
(***************************************************************************)

Unlink(m) == pending' = [f \in Files |-> pending[f] \ {m}]

\* The actor is done with its message: back to user mode, where an INIT has
\* set dsp_proc_init, or on with the release of the file.
Finish(a) ==
    /\ pc' = [pc EXCEPT ![a] = CASE a \in Threads -> "user"
                                 [] @ = "close" -> "ctxs"
                                 [] OTHER -> @,
                        ![FileUsed(a)] =
                            IF call[cur[a]].arg = "opened" THEN "init" ELSE @]
    /\ cur' = [cur EXCEPT ![a] = NULL]

\* The dummy wake up that follows virt_fastrpc_close.
DummyJob(a) ==
    job_count' = IF pc[a] = "close"
                 THEN [job_count EXCEPT ![a] = @ + 1] ELSE job_count

AllocMsg(a) ==
    /\ cur[a] # NULL
    /\ st[cur[a]] = "free"
    /\ AllocSlot(cur[a], call[cur[a]].kind)
    /\ UNCHANGED invVars

\* get_args fails before its message is allocated, or virt_alloc_msg finds
\* the table full.
AllocFails(a) ==
    LET m == cur[a] IN
    /\ m # NULL
    /\ st[m] = "free"
    /\ \/ \A i \in Slots : msgtable[i] # NULL
       \/ "marshal" \in Faults /\ call[m].kind \in {"invoke", "async"}
    /\ call' = [call EXCEPT ![m] = NULL]
    /\ Unlink(m)
    /\ Finish(a)
    /\ DummyJob(a)
    /\ UNCHANGED <<msgVars, interrupted, cmds, asyncq, opens>>

AllocTx(a) ==
    /\ cur[a] # NULL
    /\ GetTxBuf(cur[a]) \/ NoTxBuf(cur[a])
    /\ UNCHANGED invVars

\* virt_fastrpc_invoke and the sends of the commands.  An asynchronous invoke
\* returns to user mode and leaves its context on the pending list.
SendMsg(a) ==
    /\ cur[a] # NULL
    /\ TxbufSend(cur[a])
    /\ IF call[cur[a]].kind = "async" THEN Finish(a) ELSE UNCHANGED <<pc, cur>>
    /\ UNCHANGED <<call, lists, async, opens>>

\* An error between virt_alloc_msg and the send.
SendFails(a) ==
    /\ cur[a] # NULL
    /\ GiveUpUnsent(cur[a])
    /\ Unlink(cur[a])
    /\ UNCHANGED <<pc, cur, call, interrupted, cmds, async, opens>>

\* virt_fastrpc_open looks at the result and the cid of the answer.
Judge(m) ==
    \/ call[m].arg = "open" /\ call' = [call EXCEPT ![m].arg = "opened"]
    \/ UNCHANGED call

\* The wait returns: put_args, then context_free unlinks the context and
\* reads msg->rxbuf.
Woken(a) ==
    /\ cur[a] # NULL
    /\ done[cur[a]]
    /\ Collect(cur[a])
    /\ Judge(cur[a])
    /\ Unlink(cur[a])
    /\ UNCHANGED <<pc, cur, interrupted, cmds, async, opens>>

\* wait_for_completion_interruptible has returned -ERESTARTSYS.
Interrupted(m) == m # NULL /\ st[m] = "sent" /\ ~done[m]

\* context_save_interrupted, or save_interrupted_cmds.
Signalled(t) ==
    LET m == cur[t]
        f == FileOf[t] IN
    /\ Interrupted(m)
    /\ IF kind[m] = "invoke"
       THEN /\ pending' = [pending EXCEPT ![f] = @ \ {m}]
            /\ interrupted' = [interrupted EXCEPT ![f] = @ \cup {m}]
            /\ UNCHANGED cmds
       ELSE /\ kind[m] = "munmap_fd"
            /\ cmds' = [cmds EXCEPT ![f] = @ \cup {m}]
            /\ UNCHANGED <<pending, interrupted>>
    /\ Finish(t)
    /\ UNCHANGED <<msgVars, call, async, opens>>

\* save_interrupted_cmds finds no memory for the struct virt_fastrpc_cmd that
\* would keep the command and its tid: the message is neither listed nor freed.
SaveFails(t) ==
    LET m == cur[t] IN
    /\ Interrupted(m)
    /\ kind[m] = "munmap_fd"
    /\ "save" \in Faults
    /\ call' = [call EXCEPT ![m].pid = NULL]
    /\ Finish(t)
    /\ UNCHANGED <<msgVars, lists, async, opens>>

HandBack(a) ==
    /\ cur[a] # NULL
    /\ RxbufSend(cur[a])
    /\ UNCHANGED invVars

Free(a) ==
    /\ cur[a] # NULL
    /\ FreeMsg(cur[a])
    /\ call' = [call EXCEPT ![cur[a]] = NULL]
    /\ Unlink(cur[a])
    /\ Finish(a)
    /\ DummyJob(a)
    /\ UNCHANGED <<interrupted, cmds, asyncq, opens>>

-----------------------------------------------------------------------------
(***************************************************************************)
(* vfastrpc_wait_on_async_queue.                                           *)
(***************************************************************************)

AsyncWait(t) ==
    /\ MayCall(t)
    /\ "async" \in Kinds
    /\ pc' = [pc EXCEPT ![t] = "await"]
    /\ UNCHANGED <<msgVars, cur, call, lists, async, opens>>

\* wait_event_interruptible returns: there is a job, or a signal.
AsyncWakes(t) ==
    /\ pc[t] = "await"
    /\ job_count[FileOf[t]] > 0
    /\ pc' = [pc EXCEPT ![t] = "take"]
    /\ UNCHANGED <<msgVars, cur, call, lists, async, opens>>

AsyncSignalled(t) ==
    /\ pc[t] = "await"
    /\ job_count[FileOf[t]] = 0
    /\ pc' = [pc EXCEPT ![t] = "user"]
    /\ UNCHANGED <<msgVars, cur, call, lists, async, opens>>

\* Wrong: async_queue_job_count is not decremented.
Dequeue_Uncounted(f) ==
    /\ asyncq' = [asyncq EXCEPT ![f] = Tail(@)]
    /\ UNCHANGED job_count

\* list_del_init of the first job, atomic_sub of the count.
Dequeue(f) ==
    /\ asyncq' = [asyncq EXCEPT ![f] = Tail(@)]
    /\ job_count' = [job_count EXCEPT ![f] = @ - 1]

InHands(m) == {a \in Actors : cur[a] = m}

\* m is an asynchronous context of f that waits to be taken, and is linked into
\* the queue once.
Ready(f, m) ==
    /\ call[m] # NULL /\ call[m].file = f /\ call[m].kind = "async"
    /\ st[m] = "sent" /\ done[m] /\ m \in pending[f]
    /\ InHands(m) = {}
    /\ \A i, j \in 1 .. Len(asyncq[f]) :
          asyncq[f][i] = m /\ asyncq[f][j] = m => i = j

\* The first job of the queue, or "Invalid async job wake up" and again.  The
\* answer of an abandoned message queues the context that has its slot now
\* (alien), which may still be being sent, freed, or on the queue already: the
\* list and the memory are then corrupt, and what follows is not modelled.
AsyncTake(t) ==
    LET f == FileOf[t] IN
    /\ pc[t] = "take"
    /\ \/ /\ asyncq[f] = <<>>
          /\ pc' = [pc EXCEPT ![t] = "await"]
          /\ UNCHANGED <<cur, async>>
       \/ /\ asyncq[f] # <<>>
          /\ Head(asyncq[f]) \in alien => Ready(f, Head(asyncq[f]))
          /\ Dequeue(f)
          /\ Takes(t, Head(asyncq[f]))
    /\ UNCHANGED <<msgVars, call, lists, opens>>

-----------------------------------------------------------------------------
(***************************************************************************)
(* Open and release.  The release of a file runs when no thread is in an   *)
(* ioctl on it.                                                            *)
(***************************************************************************)

OpenFile(f) ==
    /\ pc[f] = "none"
    /\ opens[f] < MaxOpens
    /\ opens' = [opens EXCEPT ![f] = @ + 1]
    /\ pc' = [pc EXCEPT ![f] = "open"]
    /\ UNCHANGED <<msgVars, cur, call, lists, async>>

\* vfastrpc_file_free up to virt_fastrpc_close, which is skipped if
\* dsp_proc_init is not set.
Release(f) ==
    /\ IsOpen(f)
    /\ \A t \in Threads : FileOf[t] = f => pc[t] = "user"
    /\ pc' = [pc EXCEPT ![f] = IF @ = "init" THEN "close" ELSE "ctxs"]
    /\ job_count' = IF pc[f] = "init" THEN job_count
                    ELSE [job_count EXCEPT ![f] = @ + 1]
    /\ UNCHANGED <<msgVars, cur, call, lists, asyncq, opens>>

CloseBegin(f, m) ==
    /\ pc[f] = "close"
    /\ cur[f] = NULL
    /\ call[m] = NULL
    /\ call' = [call EXCEPT ![m] =
                  [file |-> f, pid |-> NULL, kind |-> "cmd", arg |-> NULL]]
    /\ Takes(f, m)
    /\ UNCHANGED <<msgVars, lists, async, opens>>

\* vfastrpc_context_list_dtor: interrupted contexts, then pending ones, each
\* given to context_free.
FreeContext(f, m) ==
    /\ pc[f] = "ctxs"
    /\ cur[f] = NULL
    /\ m \in IF interrupted[f] # {} THEN interrupted[f] ELSE pending[f]
    /\ interrupted' = [interrupted EXCEPT ![f] = @ \ {m}]
    /\ pending' = [pending EXCEPT ![f] = @ \ {m}]
    /\ Collect(m)
    /\ Takes(f, m)
    /\ UNCHANGED <<call, cmds, async, opens>>

\* Wrong: the interrupted contexts are not looked at ...
AllFreed_Pending(f) == pending[f] = {}

\* ... or somebody has to take the completed jobs first.
AllFreed_Drained(f) ==
    interrupted[f] = {} /\ pending[f] = {} /\ asyncq[f] = <<>>

\* Both loops of vfastrpc_context_list_dtor end when their list is empty.
AllFreed(f) == interrupted[f] = {} /\ pending[f] = {}

ContextsFreed(f) ==
    /\ pc[f] = "ctxs"
    /\ cur[f] = NULL
    /\ AllFreed(f)
    /\ pc' = [pc EXCEPT ![f] = "cmds"]
    /\ UNCHANGED <<msgVars, cur, call, lists, async, opens>>

\* vfastrpc_interrupted_cmd_list_free.
FreeCmd(f, m) ==
    /\ pc[f] = "cmds"
    /\ cur[f] = NULL
    /\ m \in cmds[f]
    /\ cmds' = [cmds EXCEPT ![f] = @ \ {m}]
    /\ Collect(m)
    /\ Takes(f, m)
    /\ UNCHANGED <<call, pending, interrupted, async, opens>>

\* The end of the part of vfastrpc_file_free that deals with messages.  The
\* maps (VFastrpcMmap) and the buffers (VFastrpcBuf) follow, and kfree(fl).
FileFreed(f) ==
    /\ pc[f] = "cmds"
    /\ cur[f] = NULL
    /\ cmds[f] = {}
    /\ pc' = [pc EXCEPT ![f] = "none"]
    /\ asyncq' = [asyncq EXCEPT ![f] = <<>>]
    /\ job_count' = [job_count EXCEPT ![f] = 0]
    /\ UNCHANGED <<msgVars, cur, call, lists, opens>>

-----------------------------------------------------------------------------
(***************************************************************************)
(* The receive interrupt.  recv_single queues the job of an asynchronous   *)
(* invoke instead of completing its message; msg->ctx is set once          *)
(* virt_alloc_msg has returned.                                            *)
(***************************************************************************)

\* Wrong: the job is not counted.
QueueJob_Uncounted(f, m) ==
    /\ asyncq' = [asyncq EXCEPT ![f] = Append(@, m)]
    /\ UNCHANGED job_count

\* vfastrpc_queue_completed_async_job.
QueueJob(f, m) ==
    /\ asyncq' = [asyncq EXCEPT ![f] = Append(@, m)]
    /\ job_count' = [job_count EXCEPT ![f] = @ + 1]

RecvSignalOrQueue ==
    /\ RecvSignal
    /\ IF st[imsg] \notin {"free", "slot", "nobuf"} /\ call[imsg].kind = "async"
       THEN QueueJob(call[imsg].file, imsg)
       ELSE UNCHANGED async
    /\ UNCHANGED <<pc, cur, call, lists, opens>>

Environment ==
    \/ \E w \in Workers : Backend(w) /\ UNCHANGED invVars
    \/ RecvSignalOrQueue
    \/ (RecvDone \/ RecvLookup \/ RecvStore \/ RecvNext) /\ UNCHANGED invVars

\* The steps a process asks for, and signals.
UserStep(t) ==
    \/ \E m \in Msgs, k \in AllKinds, sc \in Args : InvokeBegin(t, m, k, sc)
    \/ \E m \in Msgs, sc \in Args : InvokeResume(t, m, sc)
    \/ \E m \in Msgs, fd \in Args : MunmapFdBegin(t, m, fd)
    \/ \E m \in Msgs : MunmapFdResume(t, m)
    \/ \E m \in Msgs : ControlBegin(t, m) \/ OpenBegin(t, m) \/ MapBegin(t, m)
    \/ AsyncWait(t)
    \/ AsyncSignalled(t)
    \/ Signalled(t)
    \/ SaveFails(t)

\* The steps the kernel takes by itself.
KernelStep(a) ==
    \/ AllocMsg(a) \/ AllocFails(a) \/ AllocTx(a)
    \/ SendMsg(a) \/ SendFails(a)
    \/ Woken(a) \/ HandBack(a) \/ Free(a)

AsyncStep(t) == AsyncWakes(t) \/ AsyncTake(t)

ReleaseStep(f) ==
    \/ \E m \in Msgs : CloseBegin(f, m) \/ FreeContext(f, m) \/ FreeCmd(f, m)
    \/ ContextsFreed(f)
    \/ FileFreed(f)

InvokeNext ==
    \/ \E t \in Threads : UserStep(t) \/ AsyncStep(t)
    \/ \E a \in Actors : KernelStep(a)
    \/ \E f \in Files : OpenFile(f) \/ Release(f) \/ ReleaseStep(f)
    \/ Environment

InvokeSpec == InvokeInit /\ [][InvokeNext]_vars

(***************************************************************************)
(* What runs in the kernel goes on: the threads inside an ioctl, the       *)
(* release, the back end and the interrupt.  The queues are sets here but  *)
(* first-in first-out in virtio, so no request and no answer is overtaken  *)
(* for ever: strong fairness per message id.  No process has to make a     *)
(* call and no signal has to come.                                         *)
(***************************************************************************)
InvokeFairness ==
    /\ \A a \in Actors : WF_vars(KernelStep(a))
    /\ \A t \in Threads : WF_vars(AsyncStep(t))
    /\ \A f \in Files : WF_vars(ReleaseStep(f))
    /\ \A i \in Slots : /\ SF_vars(Fetches(i) /\ UNCHANGED invVars)
                        /\ SF_vars(AnswersTo(i) /\ UNCHANGED invVars)
                        /\ SF_vars(Receives(i) /\ UNCHANGED invVars)
    /\ WF_vars(RecvSignalOrQueue)
    /\ WF_vars((RecvDone \/ RecvLookup \/ RecvStore \/ RecvNext)
                  /\ UNCHANGED invVars)

InvokeFairSpec == InvokeSpec /\ InvokeFairness

-----------------------------------------------------------------------------
(***************************************************************************)
(* Properties.                                                             *)
(***************************************************************************)

InvokeTypeOK ==
    /\ MsgTypeOK
    /\ \A t \in Threads : pc[t] \in ThreadStates
    /\ \A f \in Files : pc[f] \in FileStates
    /\ cur \in [Actors -> Ptr(Msgs)]
    /\ call \in [Msgs -> Ptr(Calls)]
    /\ pending \in [Files -> SUBSET Msgs]
    /\ interrupted \in [Files -> SUBSET Msgs]
    /\ cmds \in [Files -> SUBSET Msgs]
    /\ \A f \in Files : asyncq[f] \in Seq(Msgs) /\ job_count[f] \in Nat

\* The lists that keep m for later.
KeptOn(m) ==
    LET f == call[m].file IN
    {l \in {"intr", "cmd", "async"} :
        \/ l = "intr" /\ m \in interrupted[f]
        \/ l = "cmd" /\ m \in cmds[f]
        \/ l = "async" /\ call[m].kind = "async"
                       /\ m \in pending[f] /\ InHands(m) = {}}

\* A munmap_fd command that save_interrupted_cmds could not save: no thread
\* will come back for it.
Lost(m) == call[m].kind = "munmap_fd" /\ call[m].pid = NULL

\* A context or command is with one actor, or kept for later on one list of
\* its own file: context_free, the resume of an interrupted call and the
\* release never work on the same one, and only a command whose
\* save_interrupted_cmds failed is with nobody.
OneOwner ==
    \A m \in Msgs : call[m] # NULL =>
        \/ /\ ~Lost(m) /\ KeptOn(m) = {}
           /\ \E a \in Actors : InHands(m) = {a}
        \/ /\ ~Lost(m) /\ InHands(m) = {}
           /\ \E l \in {"intr", "cmd", "async"} : KeptOn(m) = {l}
        \/ Lost(m) /\ InHands(m) = {} /\ KeptOn(m) = {}

\* A thread whose invoke is restarted, or that calls munmap_fd after one was
\* interrupted (which returns 0 and is not restarted), goes on with what it had
\* sent: it never has two invokes, or two munmap_fd commands, under way on a
\* file.  A command that could not be saved has no thread: the next munmap_fd
\* sends another one.
RestartResumes ==
    \A m, n \in Msgs :
        /\ call[m] # NULL /\ call[n] # NULL
        /\ call[m].kind # "async"
        /\ call[m].pid # NULL
        /\ call[m].pid = call[n].pid /\ call[m].kind = call[n].kind
        => m = n

\* While the file is open async_queue_job_count is the length of the queue,
\* and the queue holds answered asynchronous contexts, each of them once:
\* vfastrpc_wait_on_async_queue reads ctx->msg->rxbuf without a check.
AsyncQueueSound ==
    \A f \in Files : IsOpen(f) =>
        /\ job_count[f] = Len(asyncq[f])
        /\ ~abandoned => \A i \in 1 .. Len(asyncq[f]) :
            LET m == asyncq[f][i] IN
            /\ call[m] # NULL /\ call[m].file = f /\ call[m].kind = "async"
            /\ st[m] = "sent" /\ rxbuf[m] # NULL /\ m \in pending[f]
            /\ InHands(m) = {}
            /\ \A j \in 1 .. Len(asyncq[f]) : asyncq[f][j] = m => j = i

\* When vfastrpc_file_free is through with the interrupted commands, no
\* context, no command and no slot of the message table is left behind for the
\* file, but the slots of the commands save_interrupted_cmds could not save.
ReleaseReclaims ==
    /\ \A m \in Msgs : st[m] # "free" => call[m] # NULL
    /\ \A f \in Files : pc[f] = "none" =>
        /\ pending[f] = {} /\ interrupted[f] = {} /\ cmds[f] = {}
        /\ \A m \in Msgs : call[m] # NULL /\ call[m].file = f =>
              Lost(m) /\ st[m] = "sent"

\* Every rx buffer holds an answer nobody is about to collect: an interrupted
\* call that was not resumed or could not be saved, or an asynchronous job
\* nobody asked for.
RxStarved ==
    \A r \in RxBufs : \E m \in Msgs : r \in Held(m) /\ InHands(m) = {}

\* A call or a release that has a message in its hands finishes with it, unless
\* a message was given up before its answer or all rx buffers are held by
\* answers nobody collects.
CallsReturn ==
    \A a \in Actors :
        cur[a] # NULL ~> cur[a] = NULL \/ abandoned \/ RxStarved

\* Under the same conditions vfastrpc_file_free gets through CLOSE, the contexts
\* and the interrupted commands; the loop over the maps that follows is in
\* VFastrpcMmap.
ReleaseEnds ==
    \A f \in Files :
        pc[f] = "close" ~> pc[f] = "none" \/ abandoned \/ RxStarved

\* A thread does not sleep in wait_event_interruptible on a queue that stays
\* non-empty.
AsyncNoLostWakeup ==
    \A t \in Threads :
        pc[t] = "await" ~> pc[t] # "await" \/ asyncq[FileOf[t]] = <<>>

=============================================================================
