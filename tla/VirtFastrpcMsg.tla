--------------------------- MODULE VirtFastrpcMsg ---------------------------
(***************************************************************************)
(* The message layer of the virtual fastrpc front end: the message table   *)
(* (virt_alloc_msg, virt_free_msg), the transmit and receive buffers       *)
(* (virtio_fastrpc_queue.c), and the receive interrupt (recv_done,         *)
(* recv_single).                                                           *)
(*                                                                         *)
(* The clients are the functions that send one message and look at its     *)
(* answer.  This module lets a client take any path those functions have:  *)
(* give up after an error, wait for the completion, or - for the kinds     *)
(* that wait interruptibly or do not wait at all - be cleaned up by        *)
(* vfastrpc_file_free before the answer is there.                          *)
(*                                                                         *)
(* One step is one critical section or one access to shared memory.        *)
(***************************************************************************)
EXTENDS Naturals, FiniteSets

CONSTANTS
    Msgs,      \* the struct virt_fastrpc_msg objects the allocator hands out
    MsgMax,    \* FASTRPC_MSG_MAX
    NumBufs,   \* num_bufs, the number of tx buffers
    RxBufs,    \* the rx buffers: as many, and interchangeable
    Workers,   \* requests the back end can work on at a time
    Kinds,     \* which of AllKinds the clients send
    Faults,    \* which of AllFaults the environment may cause
    NULL

AllKinds == {"cmd", "invoke", "async", "munmap_fd"}

AllFaults == {"marshal", "tx", "rx", "len", "save"}

ASSUME ConstAssumption ==
    /\ MsgMax \in Nat \ {0}
    /\ NumBufs \in Nat \ {0}
    /\ NULL \notin Msgs
    /\ NULL \notin RxBufs
    /\ NULL \notin Nat
    /\ Kinds \subseteq AllKinds
    /\ Faults \subseteq AllFaults

Slots == 0 .. MsgMax - 1

TxBufs == 0 .. NumBufs - 1

VARIABLES
    msgtable,   \* me->msgtable
    msgid,      \* msg->msgid
    kind,       \* what the message is for
    st,         \* where its owner is, see Stages
    txbuf,      \* msg->txbuf
    rxbuf,      \* msg->rxbuf
    rsp,        \* the owner's local copy of msg->rxbuf
    done,       \* msg->work is complete, or the async job is queued
    last_sbuf,  \* me->last_sbuf
    svq,        \* requests in the send queue the back end has not taken
    svq_used,   \* tx buffers the back end has handed back
    be,         \* requests the back end is working on
    rvq_avail,  \* rx buffers the back end may fill
    rvq_used,   \* answers the driver has not taken out of the receive queue
    irq,        \* where recv_done is
    irsp,       \* recv_done's rsp
    imsg,       \* recv_single's msg
    irq_pending,\* a receive interrupt is raised
    alien,      \* history: messages acted on for another one's answer
    abandoned   \* history: a sent message was given up before its answer

owner == <<msgtable, msgid, kind, st, txbuf, rxbuf, rsp, done>>

sendq == <<last_sbuf, svq, svq_used>>

recvq == <<be, rvq_avail, rvq_used, irq_pending>>

handler == <<irq, irsp, imsg>>

history == <<alien, abandoned>>

msgVars == <<owner, sendq, recvq, handler, history>>

(***************************************************************************)
(* A message is "free" (not allocated), has a "slot" of the table, finds   *)
(* no tx buffer ("nobuf") or is "built" in one, and is "sent"; then its    *)
(* owner is about to hand the rx buffer back ("reply") and about to free   *)
(* the message ("drop").                                                   *)
(***************************************************************************)
Stages == {"free", "slot", "nobuf", "built", "sent", "reply", "drop"}

Ptr(S) == S \cup {NULL}

\* The request in a tx buffer.  msgid is virt_msg_hdr.msgid; origin is not in
\* the message: it names the message asking, or NULL once that one is freed.
Requests == [buf: TxBufs, msgid: Slots, origin: Ptr(Msgs)]

Jobs == [worker: Workers, msgid: Slots, origin: Ptr(Msgs)]

Answers == [buf: RxBufs, msgid: Slots, origin: Ptr(Msgs), len_ok: BOOLEAN]

\* A message that waits uninterruptibly is given up only after its answer.
Waits(m) == kind[m] = "cmd"

HasCtx(m) == kind[m] \in {"invoke", "async"}

Bufs(S) == {q.buf : q \in S}

MsgInit ==
    /\ msgtable = [i \in Slots |-> NULL]
    /\ msgid = [m \in Msgs |-> 0]
    /\ kind = [m \in Msgs |-> "cmd"]
    /\ st = [m \in Msgs |-> "free"]
    /\ txbuf = [m \in Msgs |-> NULL]
    /\ rxbuf = [m \in Msgs |-> NULL]
    /\ rsp = [m \in Msgs |-> NULL]
    /\ done = [m \in Msgs |-> FALSE]
    /\ last_sbuf = 0
    /\ svq = {}
    /\ svq_used = {}
    /\ be = {}
    /\ rvq_avail = RxBufs
    /\ rvq_used = {}
    /\ irq = "idle"
    /\ irsp = NULL
    /\ imsg = NULL
    /\ irq_pending = FALSE
    /\ alien = {}
    /\ abandoned = FALSE

-----------------------------------------------------------------------------
(***************************************************************************)
(* The clients.                                                            *)
(***************************************************************************)

\* virt_alloc_msg, first critical section: the lowest free slot of the table.
AllocSlot(m, k) ==
    /\ st[m] = "free"
    /\ k \in Kinds
    /\ \E i \in Slots :
        /\ msgtable[i] = NULL
        /\ \A j \in Slots : msgtable[j] = NULL => i <= j
        /\ msgtable' = [msgtable EXCEPT ![i] = m]
        /\ msgid' = [msgid EXCEPT ![m] = i]
    /\ kind' = [kind EXCEPT ![m] = k]
    /\ st' = [st EXCEPT ![m] = "slot"]
    /\ UNCHANGED <<txbuf, rxbuf, rsp, done, sendq, recvq, handler, history>>

\* Wrong: one buffer too many.
UnusedBuf_OffByOne(m) ==
    /\ last_sbuf <= NumBufs
    /\ txbuf' = [txbuf EXCEPT ![m] = last_sbuf]
    /\ last_sbuf' = last_sbuf + 1
    /\ UNCHANGED svq_used

\* get_a_tx_buf: the next tx buffer never used ...
UnusedBuf(m) ==
    /\ last_sbuf < NumBufs
    /\ txbuf' = [txbuf EXCEPT ![m] = last_sbuf]
    /\ last_sbuf' = last_sbuf + 1
    /\ UNCHANGED svq_used

\* ... or else one the back end has handed back.
RecycledBuf(m) ==
    /\ last_sbuf = NumBufs
    /\ \E b \in svq_used :
          /\ txbuf' = [txbuf EXCEPT ![m] = b]
          /\ svq_used' = svq_used \ {b}
    /\ UNCHANGED last_sbuf

GetTxBuf(m) ==
    /\ st[m] = "slot"
    /\ UnusedBuf(m) \/ RecycledBuf(m)
    /\ st' = [st EXCEPT ![m] = "built"]
    /\ UNCHANGED <<msgtable, msgid, kind, rxbuf, rsp, done, svq, recvq,
                   handler, history>>

\* virt_alloc_msg when get_a_tx_buf returns NULL: the message is freed.
NoTxBuf(m) ==
    /\ st[m] = "slot"
    /\ last_sbuf = NumBufs
    /\ svq_used = {}
    /\ st' = [st EXCEPT ![m] = "nobuf"]
    /\ UNCHANGED <<msgtable, msgid, kind, txbuf, rxbuf, rsp, done, sendq,
                   recvq, handler, history>>

\* Wrong: the header is sent without the id of the message.
Request_NoId(m) == [buf |-> txbuf[m], msgid |-> 0, origin |-> m]

\* The header every sender fills in: "vmsg->hdr.msgid = msg->msgid".
Request(m) == [buf |-> txbuf[m], msgid |-> msgid[m], origin |-> m]

\* vfastrpc_txbuf_send.  msg->txbuf is not read again.
TxbufSend(m) ==
    /\ st[m] = "built"
    /\ svq' = svq \cup {Request(m)}
    /\ txbuf' = [txbuf EXCEPT ![m] = NULL]
    /\ st' = [st EXCEPT ![m] = "sent"]
    /\ UNCHANGED <<msgtable, msgid, kind, rxbuf, rsp, done, last_sbuf,
                   svq_used, recvq, handler, history>>

\* Wrong: nobody looks at msg->rxbuf.
ReadRxbuf_Forgets(m) ==
    /\ st' = [st EXCEPT ![m] = "drop"]
    /\ UNCHANGED rsp

\* context_free and the bail labels: "rsp = msg->rxbuf; if (rsp) ...".
ReadRxbuf(m) ==
    /\ rsp' = [rsp EXCEPT ![m] = rxbuf[m]]
    /\ st' = [st EXCEPT ![m] = IF rxbuf[m] = NULL THEN "drop" ELSE "reply"]

\* An error after virt_alloc_msg: get_args fails to copy an argument, or
\* virtqueue_add_outbuf fails.  An invoke is cleaned up by context_free, a
\* command jumps to its bail label with rsp = NULL.  The tx buffer stays out
\* of the send queue.
GiveUpUnsent(m) ==
    /\ st[m] = "built"
    /\ \/ "tx" \in Faults
       \/ "marshal" \in Faults /\ HasCtx(m)
    /\ IF HasCtx(m) THEN ReadRxbuf(m)
       ELSE st' = [st EXCEPT ![m] = "drop"] /\ UNCHANGED rsp
    /\ UNCHANGED <<msgtable, msgid, kind, txbuf, rxbuf, done, sendq, recvq,
                   handler, history>>

\* The owner of a sent message goes on: it was woken, or it is the release
\* of the file cleaning up a message nobody waits for any more.
Collect(m) ==
    /\ st[m] = "sent"
    /\ done[m] \/ ~Waits(m)
    /\ ReadRxbuf(m)
    /\ abandoned' = (abandoned \/ ~done[m])
    /\ UNCHANGED <<msgtable, msgid, kind, txbuf, rxbuf, done, sendq, recvq,
                   handler, alien>>

\* Wrong: the buffer is not added.
AddInbuf_Forgets(b) == UNCHANGED rvq_avail

\* virtqueue_add_inbuf: it adds the buffer or fails.
AddInbuf(b) ==
    \/ rvq_avail' = rvq_avail \cup {b}
    \/ "rx" \in Faults /\ UNCHANGED rvq_avail

\* vfastrpc_rxbuf_send: the rx buffer goes back to the receive queue.
RxbufSend(m) ==
    /\ st[m] = "reply"
    /\ AddInbuf(rsp[m])
    /\ st' = [st EXCEPT ![m] = "drop"]
    /\ rsp' = [rsp EXCEPT ![m] = NULL]
    /\ UNCHANGED <<msgtable, msgid, kind, txbuf, rxbuf, done, sendq, be,
                   rvq_used, irq_pending, handler, history>>

\* What is still under way for m answers to nobody once m is freed.
Orphan(q, m) == [q EXCEPT !.origin = IF @ = m THEN NULL ELSE @]

Disown(S, m) == {Orphan(q, m) : q \in S}

\* "if (me->msgtable[msg->msgid] == msg) ... = NULL".
ClearSlot(m) ==
    msgtable' = [msgtable EXCEPT ![msgid[m]] = IF @ = m THEN NULL ELSE @]

\* virt_free_msg, and with kfree the fields the next kzalloc clears.
FreeMsg(m) ==
    /\ st[m] \in {"nobuf", "drop"}
    /\ ClearSlot(m)
    /\ msgid' = [msgid EXCEPT ![m] = 0]
    /\ kind' = [kind EXCEPT ![m] = "cmd"]
    /\ st' = [st EXCEPT ![m] = "free"]
    /\ txbuf' = [txbuf EXCEPT ![m] = NULL]
    /\ rxbuf' = [rxbuf EXCEPT ![m] = NULL]
    /\ rsp' = [rsp EXCEPT ![m] = NULL]
    /\ done' = [done EXCEPT ![m] = FALSE]
    /\ svq' = Disown(svq, m)
    /\ be' = Disown(be, m)
    /\ rvq_used' = Disown(rvq_used, m)
    /\ irsp' = IF irq = "idle" THEN NULL ELSE Orphan(irsp, m)
    /\ UNCHANGED <<last_sbuf, svq_used, rvq_avail, irq_pending, irq, imsg,
                   history>>

-----------------------------------------------------------------------------
(***************************************************************************)
(* The back end: it takes requests out of the send queue, works on them    *)
(* in any order, and answers each of them once.                            *)
(***************************************************************************)

BackendFetch(w) ==
    /\ \A j \in be : j.worker # w
    /\ \E q \in svq :
        /\ svq' = svq \ {q}
        /\ svq_used' = svq_used \cup {q.buf}
        /\ be' = be \cup
               {[worker |-> w, msgid |-> q.msgid, origin |-> q.origin]}
    /\ UNCHANGED <<owner, last_sbuf, rvq_avail, rvq_used, irq_pending,
                   handler, history>>

BackendAnswer(w) ==
    /\ \E j \in be, r \in rvq_avail, ok \in BOOLEAN :
        /\ j.worker = w
        /\ ok \/ "len" \in Faults
        /\ be' = be \ {j}
        /\ rvq_avail' = rvq_avail \ {r}
        /\ rvq_used' = rvq_used \cup
               {[buf |-> r, msgid |-> j.msgid, origin |-> j.origin,
                 len_ok |-> ok]}
    /\ irq_pending' = TRUE
    /\ UNCHANGED <<owner, sendq, handler, history>>

-----------------------------------------------------------------------------
(***************************************************************************)
(* The receive interrupt.  It is never run by two CPUs at a time.          *)
(***************************************************************************)

\* virtqueue_get_buf on the receive queue; recv_done returns if it is empty.
GetUsedBuf ==
    \/ /\ rvq_used = {}
       /\ irq' = "idle"
       /\ irsp' = NULL
       /\ UNCHANGED rvq_used
    \/ \E q \in rvq_used :
        /\ rvq_used' = rvq_used \ {q}
        /\ irq' = "got"
        /\ irsp' = q

RecvDone ==
    /\ irq = "idle"
    /\ irq_pending
    /\ irq_pending' = FALSE
    /\ GetUsedBuf
    /\ UNCHANGED <<owner, sendq, be, rvq_avail, imsg, history>>

\* recv_single up to "if (!msg)".  On an error recv_done breaks out of its
\* loop: the buffer is not handed back, the rest of the queue not looked at.
RecvLookup ==
    /\ irq = "got"
    /\ IF irsp.len_ok /\ msgtable[irsp.msgid] # NULL
       THEN /\ imsg' = msgtable[irsp.msgid]
            /\ irq' = "found"
            /\ UNCHANGED irsp
       ELSE /\ irq' = "idle"
            /\ irsp' = NULL
            /\ UNCHANGED imsg
    /\ UNCHANGED <<owner, sendq, recvq, history>>

\* recv_single acts on imsg.  Writing to a message that has been freed in the
\* meantime is lost, or hits the message that now lives in the same memory.
Touch == alien' = IF st[imsg] = "free" \/ irsp.origin = imsg
                  THEN alien ELSE alien \cup {imsg}

\* Wrong: the message never gets its rx buffer.
StoreRxbuf_Forgets == UNCHANGED rxbuf

\* "msg->rxbuf = rsp".
StoreRxbuf == rxbuf' = IF st[imsg] = "free" THEN rxbuf
                       ELSE [rxbuf EXCEPT ![imsg] = irsp.buf]

\* Wrong: the rx buffer is queued again before its answer has been read.
RecvStore_HandsBack ==
    /\ irq = "found"
    /\ StoreRxbuf
    /\ rvq_avail' = rvq_avail \cup {irsp.buf}
    /\ Touch
    /\ irq' = "stored"
    /\ UNCHANGED <<msgtable, msgid, kind, st, txbuf, rsp, done, sendq, be,
                   rvq_used, irq_pending, irsp, imsg, abandoned>>

RecvStore ==
    /\ irq = "found"
    /\ StoreRxbuf
    /\ Touch
    /\ irq' = "stored"
    /\ UNCHANGED <<msgtable, msgid, kind, st, txbuf, rsp, done, sendq, recvq,
                   irsp, imsg, abandoned>>

\* "complete(&msg->work)" or vfastrpc_queue_completed_async_job.
RecvSignal ==
    /\ irq = "stored"
    /\ done' = IF st[imsg] = "free" THEN done ELSE [done EXCEPT ![imsg] = TRUE]
    /\ Touch
    /\ irq' = "signalled"
    /\ UNCHANGED <<msgtable, msgid, kind, st, txbuf, rxbuf, rsp, sendq, recvq,
                   irsp, imsg, abandoned>>

\* "if (msg->ctx) trace_recv_single_end(msg->ctx)", then the next buffer.
RecvNext ==
    /\ irq = "signalled"
    /\ GetUsedBuf
    /\ imsg' = NULL
    /\ UNCHANGED <<owner, sendq, be, rvq_avail, irq_pending, history>>

-----------------------------------------------------------------------------

Client(m) ==
    \/ \E k \in AllKinds : AllocSlot(m, k)
    \/ GetTxBuf(m)
    \/ NoTxBuf(m)
    \/ TxbufSend(m)
    \/ GiveUpUnsent(m)
    \/ Collect(m)
    \/ RxbufSend(m)
    \/ FreeMsg(m)

Backend(w) == BackendFetch(w) \/ BackendAnswer(w)

Interrupt ==
    \/ RecvDone
    \/ RecvLookup
    \/ RecvStore
    \/ RecvSignal
    \/ RecvNext

MsgNext ==
    \/ \E m \in Msgs : Client(m)
    \/ \E w \in Workers : Backend(w)
    \/ Interrupt

MsgSpec == MsgInit /\ [][MsgNext]_msgVars

\* The back end takes, the back end answers, recv_done takes the one with msgid i.
Fetches(i) == /\ \E w \in Workers : BackendFetch(w)
              /\ \E q \in svq : q.msgid = i /\ svq' = svq \ {q}

AnswersTo(i) == /\ \E w \in Workers : BackendAnswer(w)
                /\ \E j \in be : j.msgid = i /\ be' = be \ {j}

Receives(i) == /\ RecvDone \/ RecvNext
               /\ \E q \in rvq_used : q.msgid = i /\ rvq_used' = rvq_used \ {q}

-----------------------------------------------------------------------------
(***************************************************************************)
(* Properties.                                                             *)
(***************************************************************************)

MsgTypeOK ==
    /\ msgtable \in [Slots -> Ptr(Msgs)]
    /\ msgid \in [Msgs -> Slots]
    /\ kind \in [Msgs -> AllKinds]
    /\ st \in [Msgs -> Stages]
    /\ txbuf \in [Msgs -> Ptr(TxBufs)]
    /\ rxbuf \in [Msgs -> Ptr(RxBufs)]
    /\ rsp \in [Msgs -> Ptr(RxBufs)]
    /\ done \in [Msgs -> BOOLEAN]
    /\ last_sbuf \in 0 .. NumBufs
    /\ svq \subseteq Requests
    /\ svq_used \subseteq TxBufs
    /\ be \subseteq Jobs
    /\ rvq_avail \subseteq RxBufs
    /\ rvq_used \subseteq Answers
    /\ irq \in {"idle", "got", "found", "stored", "signalled"}
    /\ irsp \in Ptr(Answers)
    /\ imsg \in Ptr(Msgs)
    /\ irq_pending \in BOOLEAN
    /\ alien \subseteq Msgs
    /\ abandoned \in BOOLEAN

\* The rx buffer the owner of m is still going to hand back.
Held(m) ==
    CASE st[m] \in {"slot", "built", "sent"} -> {rxbuf[m]} \ {NULL}
      [] st[m] = "reply" -> {rsp[m]} \ {NULL}
      [] OTHER -> {}

\* The answer recv_done has in its hands.
InHandler == IF irq \in {"got", "found"} THEN {irsp} ELSE {}

Outstanding == svq \cup be \cup rvq_used \cup InHandler

\* msgtable and the live messages agree: an allocated message has one slot,
\* the one its msgid names, and no slot names a freed message.  This is what
\* lets recv_single trust msgtable[rsp->msgid].
TableSound ==
    /\ \A m \in Msgs : st[m] # "free" => msgtable[msgid[m]] = m
    /\ \A i \in Slots : msgtable[i] # NULL =>
          st[msgtable[i]] # "free" /\ msgid[msgtable[i]] = i

\* A request or answer whose message is alive carries the id of the slot that
\* message has, and a message has at most one of them under way: virt_free_msg
\* followed by virt_alloc_msg never redirects the answer of a live message.
AnswerAddressed ==
    \A p, q \in Outstanding :
        p.origin # NULL =>
            /\ msgtable[p.msgid] = p.origin
            /\ q.origin = p.origin => q = p

\* A tx buffer is in one place only: being filled for one message, in the send
\* queue for one request, or handed back.  Two senders never fill the same
\* buffer and virtqueue_add_outbuf always finds a free descriptor.
TxExclusive ==
    /\ \A p, q \in svq : p.buf = q.buf => p = q
    /\ \A q \in svq : q.buf \notin svq_used /\ q.buf < last_sbuf
    /\ \A b \in svq_used : b < last_sbuf
    /\ \A m \in Msgs : st[m] = "built" =>
        /\ txbuf[m] # NULL
        /\ txbuf[m] < last_sbuf
        /\ txbuf[m] \notin svq_used \cup Bufs(svq)
        /\ \A n \in Msgs : st[n] = "built" /\ txbuf[n] = txbuf[m] => n = m

\* An rx buffer is in one place only: the back end never writes to a buffer
\* whose answer is still to be read, and no buffer is added to the receive
\* queue twice.
RxExclusive ==
    /\ \A p, q \in rvq_used \cup InHandler : p.buf = q.buf => p = q
    /\ \A q \in rvq_used \cup InHandler : q.buf \notin rvq_avail
    /\ InHandler \cap rvq_used = {}
    /\ \A m \in Msgs :
        /\ Held(m) \cap (rvq_avail \cup Bufs(rvq_used \cup InHandler)) = {}
        /\ \A n \in Msgs \ {m} : Held(m) \cap Held(n) = {}

\* Two senders never fill the same tx buffer, and two answers, or an answer and
\* the back end, never share an rx buffer, whatever is given up, lost or failed.
BuffersExclusive == TxExclusive /\ RxExclusive

\* As long as no sent message is given up before its answer, a message is
\* completed only by its own answer, its owner finds an rx buffer when it
\* wakes up (the "if (!rsp)" branches are dead), and recv_single has not
\* touched freed memory up to complete().
OwnAnswer ==
    ~abandoned =>
        /\ alien = {}
        /\ \A m \in Msgs : done[m] /\ st[m] = "sent" => rxbuf[m] # NULL
        /\ irq \in {"found", "stored"} => st[imsg] = "sent" /\ irsp.origin = imsg

\* ... and no rx buffer is ever lost, unless the queue or the back end fails.
RxConserved ==
    ~abandoned /\ Faults \cap {"rx", "len"} = {} =>
        RxBufs = rvq_avail \cup Bufs(rvq_used \cup InHandler)
                   \cup UNION {Held(m) : m \in Msgs}

-----------------------------------------------------------------------------
(***************************************************************************)
(* The message layer implements RemoteCall, a message being one call: the  *)
(* back end executes it when it takes the request out of the send queue.   *)
(***************************************************************************)

Unfetched(m) == \E q \in svq : q.origin = m

\* The owner of a message past "sent" has an answer if it has an rx buffer.
Phase(m) ==
    CASE st[m] = "free" -> "idle"
      [] st[m] \in {"slot", "built"} -> "called"
      [] st[m] = "sent" -> IF Unfetched(m) THEN "called" ELSE "executed"
      [] st[m] = "nobuf" -> "failed"
      [] OTHER -> IF rxbuf[m] = NULL THEN "failed" ELSE "returned"

Promise == INSTANCE RemoteCall WITH
    Calls <- Msgs, phase <- [m \in Msgs |-> Phase(m)], lost <- abandoned

\* A call is executed at most once; as long as no call was given up before its
\* answer, whoever gets an answer was executed and whoever gets an error
\* from the front end was not, whatever recv_single, the retries of the
\* ioctls and the message table do in between.
CallSpec == Promise!CallSpec

(***************************************************************************)
(* What a comment of the code says, and the code does not do.              *)
(***************************************************************************)

\* "u16 msgid; /* unique message id */": no two requests under way have the
\* same id.
UniqueMsgid ==
    \A p, q \in Outstanding : p.msgid = q.msgid => p = q

=============================================================================
