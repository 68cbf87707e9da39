------------------------ MODULE VirtFastrpcMsg_proofs -----------------------
(***************************************************************************)
(* The invariants of VirtFastrpcMsg, for any table size, any number of     *)
(* messages, buffers and back-end workers, any kinds and any faults.       *)
(***************************************************************************)
EXTENDS VirtFastrpcMsg, TLAPS

\* Most leaves are first-order; the ones that need more say so.
USE ZenonT(120)

\* FreeMsg relabels what is under way and keeps the rest of it.
LEMMA OrphanFields ==
    ASSUME NEW m \in Msgs
    PROVE  /\ \A q \in Requests :
                /\ Orphan(q, m) \in Requests
                /\ Orphan(q, m).buf = q.buf
                /\ Orphan(q, m).msgid = q.msgid
                /\ Orphan(q, m).origin = IF q.origin = m THEN NULL ELSE q.origin
           /\ \A q \in Jobs :
                /\ Orphan(q, m) \in Jobs
                /\ Orphan(q, m).worker = q.worker
                /\ Orphan(q, m).msgid = q.msgid
                /\ Orphan(q, m).origin = IF q.origin = m THEN NULL ELSE q.origin
           /\ \A q \in Answers :
                /\ Orphan(q, m) \in Answers
                /\ Orphan(q, m).buf = q.buf
                /\ Orphan(q, m).msgid = q.msgid
                /\ Orphan(q, m).len_ok = q.len_ok
                /\ Orphan(q, m).origin = IF q.origin = m THEN NULL ELSE q.origin
<1>1. ASSUME NEW q \in Requests
      PROVE  /\ Orphan(q, m) \in Requests
             /\ Orphan(q, m).buf = q.buf
             /\ Orphan(q, m).msgid = q.msgid
             /\ Orphan(q, m).origin = IF q.origin = m THEN NULL ELSE q.origin
  BY DEF Orphan, Requests, Ptr
<1>2. ASSUME NEW q \in Jobs
      PROVE  /\ Orphan(q, m) \in Jobs
             /\ Orphan(q, m).worker = q.worker
             /\ Orphan(q, m).msgid = q.msgid
             /\ Orphan(q, m).origin = IF q.origin = m THEN NULL ELSE q.origin
  BY DEF Orphan, Jobs, Ptr
<1>3. ASSUME NEW q \in Answers
      PROVE  /\ Orphan(q, m) \in Answers
             /\ Orphan(q, m).buf = q.buf
             /\ Orphan(q, m).msgid = q.msgid
             /\ Orphan(q, m).len_ok = q.len_ok
             /\ Orphan(q, m).origin = IF q.origin = m THEN NULL ELSE q.origin
  BY DEF Orphan, Answers, Ptr
<1> QED
  BY <1>1, <1>2, <1>3

\* The pointers the code follows without a check are not NULL: recv_done has
\* an answer in its hands and recv_single a message, a message that is built
\* has a tx buffer, and one whose owner has read an rx buffer has that one.
PointersOK ==
    /\ irq # "idle" => irsp \in Answers
    /\ irq \in {"found", "stored", "signalled"} => imsg \in Msgs
    /\ \A m \in Msgs : st[m] = "built" => txbuf[m] \in TxBufs
    /\ \A m \in Msgs : st[m] = "reply" => rsp[m] \in RxBufs

TypeInv == MsgTypeOK /\ PointersOK

\* At first the types hold.
LEMMA TypeInit == MsgInit => TypeInv
<1> SUFFICES ASSUME MsgInit PROVE TypeInv
  OBVIOUS
<1>1. 0 \in Slots /\ 0 \in 0 .. NumBufs
  BY SMT, ConstAssumption DEF Slots
<1> QED
  BY <1>1, ConstAssumption
     DEF MsgInit, TypeInv, MsgTypeOK, PointersOK, Ptr, AllKinds, Stages

\* Every step keeps the types.
LEMMA TypeStep == TypeInv /\ [MsgNext]_msgVars => TypeInv'
<1> SUFFICES ASSUME TypeInv, [MsgNext]_msgVars PROVE TypeInv'
  OBVIOUS
<1> USE ConstAssumption DEF TypeInv, MsgTypeOK, PointersOK, Ptr
<1>1. ASSUME NEW m \in Msgs, NEW k \in AllKinds, AllocSlot(m, k) PROVE TypeInv'
  BY SMT, <1>1 DEF AllocSlot, sendq, recvq, handler, history, Stages
<1>2. ASSUME NEW m \in Msgs, GetTxBuf(m) PROVE TypeInv'
  <2>1. /\ last_sbuf' \in 0 .. NumBufs
        /\ svq_used' \subseteq TxBufs
        /\ \E b \in TxBufs : txbuf' = [txbuf EXCEPT ![m] = b]
    <3>1. last_sbuf < NumBufs => last_sbuf \in TxBufs
      BY SMT DEF TxBufs
    <3> QED
      BY SMT, <1>2, <3>1 DEF GetTxBuf, UnusedBuf, RecycledBuf
  <2> QED
    BY SMT, <1>2, <2>1 DEF GetTxBuf, UnusedBuf, RecycledBuf, recvq, handler, history, Stages
<1>3. ASSUME NEW m \in Msgs, NoTxBuf(m) PROVE TypeInv'
  BY <1>3 DEF NoTxBuf, sendq, recvq, handler, history, Stages
<1>4. ASSUME NEW m \in Msgs, TxbufSend(m) PROVE TypeInv'
  BY SMT, <1>4 DEF TxbufSend, Request, recvq, handler, history, Stages, Requests
<1>5. ASSUME NEW m \in Msgs, GiveUpUnsent(m) PROVE TypeInv'
  BY SMT, <1>5 DEF GiveUpUnsent, ReadRxbuf, sendq, recvq, handler, history, Stages
<1>6. ASSUME NEW m \in Msgs, Collect(m) PROVE TypeInv'
  BY <1>6 DEF Collect, ReadRxbuf, sendq, recvq, handler, history, Stages
<1>7. ASSUME NEW m \in Msgs, RxbufSend(m) PROVE TypeInv'
  BY <1>7 DEF RxbufSend, AddInbuf, sendq, handler, history, Stages
<1>8. ASSUME NEW m \in Msgs, FreeMsg(m) PROVE TypeInv'
  <2>1. /\ svq' \in SUBSET Requests
        /\ be' \in SUBSET Jobs
        /\ rvq_used' \in SUBSET Answers
        /\ irsp' \in Ptr(Answers)
        /\ irq # "idle" => irsp' \in Answers
    BY SMT, <1>8, OrphanFields DEF FreeMsg, ClearSlot, Disown
  <2>2. 0 \in Slots
    BY SMT DEF Slots
  <2> QED
    BY <1>8, <2>1, <2>2 DEF FreeMsg, ClearSlot, history, Stages, AllKinds
<1>9. ASSUME NEW w \in Workers, BackendFetch(w) PROVE TypeInv'
  BY SMT, <1>9 DEF BackendFetch, owner, handler, history, Requests, Jobs
<1>10. ASSUME NEW w \in Workers, BackendAnswer(w) PROVE TypeInv'
  BY SMT, <1>10 DEF BackendAnswer, owner, sendq, handler, history, Answers, Jobs
<1>11. CASE RecvDone
  <2>1. ASSUME UNCHANGED rvq_used, irq' = "idle", irsp' = NULL PROVE TypeInv'
    BY <1>11, <2>1 DEF RecvDone, owner, sendq, history
  <2>2. ASSUME NEW q \in rvq_used, rvq_used' = rvq_used \ {q}, irq' = "got", irsp' = q
        PROVE  TypeInv'
    BY <1>11, <2>2 DEF RecvDone, owner, sendq, history
  <2> QED
    BY <1>11, <2>1, <2>2 DEF RecvDone, GetUsedBuf
<1>12. CASE RecvLookup
  BY <1>12 DEF RecvLookup, owner, sendq, recvq, history, Answers
<1>13. CASE RecvStore
  BY <1>13 DEF RecvStore, StoreRxbuf, Touch, sendq, recvq, Answers
<1>14. CASE RecvSignal
  BY <1>14 DEF RecvSignal, Touch, sendq, recvq
<1>15. CASE RecvNext
  <2>1. ASSUME UNCHANGED rvq_used, irq' = "idle", irsp' = NULL PROVE TypeInv'
    BY <1>15, <2>1 DEF RecvNext, owner, sendq, history
  <2>2. ASSUME NEW q \in rvq_used, rvq_used' = rvq_used \ {q}, irq' = "got", irsp' = q
        PROVE  TypeInv'
    BY <1>15, <2>2 DEF RecvNext, owner, sendq, history
  <2> QED
    BY <1>15, <2>1, <2>2 DEF RecvNext, GetUsedBuf
<1>16. CASE UNCHANGED msgVars
  BY <1>16 DEF msgVars, owner, sendq, recvq, handler, history
<1> HIDE DEF TypeInv, MsgTypeOK, PointersOK, Ptr
<1> QED
  BY <1>1, <1>2, <1>3, <1>4, <1>5, <1>6, <1>7, <1>8, <1>9, <1>10, <1>11,
     <1>12, <1>13, <1>14, <1>15, <1>16
     DEF MsgNext, Client, Backend, Interrupt

\* The types of the message layer, and what recv_done has in its hands.
THEOREM MsgTypeCorrect == MsgSpec => []MsgTypeOK
<1>1. MsgSpec => []TypeInv
  BY TypeInit, TypeStep, PTL DEF MsgSpec
<1>2. TypeInv => MsgTypeOK
  BY DEF TypeInv
<1> QED
  BY <1>1, <1>2, PTL

-----------------------------------------------------------------------------
(***************************************************************************)
(* The message table and the tx buffers: both invariants are inductive     *)
(* once the types are known.                                               *)
(***************************************************************************)

\* Every step keeps msgtable sound.
LEMMA TableStep == TypeInv /\ TableSound /\ [MsgNext]_msgVars => TableSound'
<1> SUFFICES ASSUME TypeInv, TableSound, [MsgNext]_msgVars PROVE TableSound'
  OBVIOUS
<1>a. /\ msgtable \in [Slots -> Ptr(Msgs)]
      /\ msgid \in [Msgs -> Slots]
      /\ st \in [Msgs -> Stages]
      /\ NULL \notin Msgs
  BY ConstAssumption DEF TypeInv, MsgTypeOK
<1> USE DEF TableSound
<1>1. ASSUME NEW m \in Msgs, NEW k \in AllKinds, AllocSlot(m, k) PROVE TableSound'
  BY SMT, <1>a, <1>1 DEF AllocSlot, Ptr
<1>2. ASSUME NEW m \in Msgs, FreeMsg(m) PROVE TableSound'
  BY SMT, <1>a, <1>2 DEF FreeMsg, ClearSlot, Ptr
<1>3. ASSUME NEW m \in Msgs, st[m] # "free", UNCHANGED <<msgtable, msgid>>,
             \E s \in Stages \ {"free"} : st' = [st EXCEPT ![m] = s]
      PROVE TableSound'
  BY SMT, <1>a, <1>3 DEF Ptr
<1>4. ASSUME NEW m \in Msgs,
             \/ GetTxBuf(m) \/ NoTxBuf(m) \/ TxbufSend(m)
             \/ GiveUpUnsent(m) \/ Collect(m) \/ RxbufSend(m)
      PROVE TableSound'
  <2>1. /\ st[m] # "free"
        /\ UNCHANGED <<msgtable, msgid>>
        /\ \E s \in Stages \ {"free"} : st' = [st EXCEPT ![m] = s]
    BY <1>4 DEF GetTxBuf, NoTxBuf, TxbufSend, GiveUpUnsent, Collect, RxbufSend,
                ReadRxbuf, Stages
  <2> QED
    BY <1>3, <2>1
<1>5. CASE UNCHANGED <<msgtable, msgid, st>>
  BY <1>5
<1>6. (\E w \in Workers : Backend(w)) \/ Interrupt \/ UNCHANGED msgVars
         => UNCHANGED <<msgtable, msgid, st>>
  BY DEF Backend, BackendFetch, BackendAnswer, Interrupt, RecvDone, RecvLookup,
         RecvStore, RecvSignal, RecvNext, msgVars, owner
<1> HIDE DEF TableSound
<1> QED
  BY <1>1, <1>2, <1>4, <1>5, <1>6 DEF MsgNext, Client

\* The table is empty at first, and no message is alive.
LEMMA TableInit == MsgInit => TableSound
BY SMT DEF MsgInit, TableSound

\* Every slot of msgtable names a live message whose msgid it is, and every
\* live message has its slot, whatever the clients, the back end and the
\* interrupt do.
THEOREM TableIsSound == MsgSpec => []TableSound
<1>1. MsgInit => TableSound
  BY TableInit
<1>2. MsgSpec => [](TypeInv /\ TableSound)
  BY TypeInit, TypeStep, TableStep, <1>1, PTL DEF MsgSpec
<1> QED
  BY <1>2, PTL

\* Every step leaves a tx buffer one sender.
LEMMA TxStep == TypeInv /\ TxExclusive /\ [MsgNext]_msgVars => TxExclusive'
<1> SUFFICES ASSUME TypeInv, TxExclusive, [MsgNext]_msgVars PROVE TxExclusive'
  OBVIOUS
<1>a. /\ st \in [Msgs -> Stages]
      /\ txbuf \in [Msgs -> Ptr(TxBufs)]
      /\ last_sbuf \in 0 .. NumBufs /\ NumBufs \in Nat /\ NULL \notin Nat
      /\ svq \subseteq Requests
      /\ svq_used \subseteq TxBufs
      /\ \A m \in Msgs : st[m] = "built" => txbuf[m] \in TxBufs
  BY ConstAssumption DEF TypeInv, MsgTypeOK, PointersOK
<1>1. ASSUME NEW m \in Msgs, GetTxBuf(m) PROVE TxExclusive'
  <2>1. CASE last_sbuf < NumBufs /\ txbuf' = [txbuf EXCEPT ![m] = last_sbuf]
             /\ last_sbuf' = last_sbuf + 1 /\ UNCHANGED svq_used
    <3>1. /\ UNCHANGED svq
          /\ txbuf'[m] = last_sbuf
          /\ \A n \in Msgs \ {m} : st'[n] = st[n] /\ txbuf'[n] = txbuf[n]
      BY <1>a, <1>1, <2>1 DEF GetTxBuf
    <3>2. /\ last_sbuf \in Nat
          /\ \A q \in svq : q.buf \in Nat
          /\ \A b \in svq_used : b \in Nat
          /\ \A n \in Msgs : st[n] = "built" => txbuf[n] \in Nat
      BY SMT, <1>a DEF TxBufs, Requests
    <3>3. last_sbuf \notin svq_used \cup Bufs(svq)
      BY SMT, <3>2 DEF TxExclusive, Bufs
    <3>4. \A n \in Msgs \ {m} : st[n] = "built" => txbuf[n] # last_sbuf
      BY SMT, <3>2 DEF TxExclusive
    <3>5. /\ \A q \in svq : q.buf < last_sbuf'
          /\ \A b \in svq_used : b < last_sbuf'
          /\ \A n \in Msgs : st'[n] = "built" =>
                txbuf'[n] \in Nat /\ txbuf'[n] < last_sbuf'
      BY SMT, <2>1, <3>1, <3>2 DEF TxExclusive
    <3>6. \A n \in Msgs : st'[n] = "built" =>
            /\ txbuf'[n] \notin svq_used \cup Bufs(svq)
            /\ \A l \in Msgs : st'[l] = "built" /\ txbuf'[l] = txbuf'[n] => l = n
      BY <3>1, <3>3, <3>4 DEF TxExclusive
    <3>7. Bufs(svq)' = Bufs(svq)
      BY <3>1 DEF Bufs
    <3> QED
      BY <1>a, <2>1, <3>1, <3>5, <3>6, <3>7 DEF TxExclusive
  <2>2. ASSUME NEW b \in svq_used, txbuf' = [txbuf EXCEPT ![m] = b],
               svq_used' = svq_used \ {b}, UNCHANGED last_sbuf
        PROVE TxExclusive'
    <3>1. /\ UNCHANGED svq
          /\ txbuf'[m] = b
          /\ \A n \in Msgs \ {m} : st'[n] = st[n] /\ txbuf'[n] = txbuf[n]
      BY <1>a, <1>1, <2>2 DEF GetTxBuf
    <3>2. b # NULL /\ b < last_sbuf /\ b \notin Bufs(svq)
      BY SMT, <1>a, <2>2 DEF TxExclusive, Bufs, TxBufs
    <3>3. \A n \in Msgs : st[n] = "built" => txbuf[n] # b
      BY <2>2 DEF TxExclusive
    <3>4. ASSUME NEW n \in Msgs, st'[n] = "built"
          PROVE  /\ txbuf'[n] # NULL
                 /\ txbuf'[n] < last_sbuf
                 /\ txbuf'[n] \notin svq_used' \cup Bufs(svq)
                 /\ \A l \in Msgs : st'[l] = "built" /\ txbuf'[l] = txbuf'[n] => l = n
      <4>1. CASE n = m
        BY SMT, <2>2, <3>1, <3>2, <3>3, <4>1
      <4>2. CASE n # m
        BY SMT, <2>2, <3>1, <3>3, <3>4, <4>2 DEF TxExclusive
      <4> QED
        BY <4>1, <4>2
    <3>5. Bufs(svq)' = Bufs(svq)
      BY <3>1 DEF Bufs
    <3> QED
      BY <2>2, <3>1, <3>4, <3>5 DEF TxExclusive
  <2> QED
    BY <1>1, <2>1, <2>2 DEF GetTxBuf, UnusedBuf, RecycledBuf
<1>2. ASSUME NEW m \in Msgs, TxbufSend(m) PROVE TxExclusive'
  <2>1. /\ UNCHANGED <<svq_used, last_sbuf>>
        /\ svq' = svq \cup {Request(m)}
        /\ st[m] = "built" /\ st'[m] # "built"
        /\ \A n \in Msgs \ {m} : st'[n] = st[n] /\ txbuf'[n] = txbuf[n]
    BY <1>a, <1>2 DEF TxbufSend
  <2>2. Request(m).buf = txbuf[m]
    BY SMT DEF Request
  <2>3. txbuf[m] < last_sbuf /\ txbuf[m] \notin svq_used \cup Bufs(svq)
    BY <2>1 DEF TxExclusive
  <2>4. Bufs(svq') = Bufs(svq) \cup {txbuf[m]}
    BY <2>1, <2>2 DEF Bufs
  <2>5. \A p, q \in svq' : p.buf = q.buf => p = q
    <3>1. \A q \in svq : q.buf # Request(m).buf
      BY <2>2, <2>3 DEF Bufs
    <3> QED
      BY <2>1, <3>1 DEF TxExclusive
  <2>6. \A q \in svq' : q.buf \notin svq_used /\ q.buf < last_sbuf
    BY <2>1, <2>2, <2>3 DEF TxExclusive
  <2>7. ASSUME NEW n \in Msgs, st'[n] = "built"
        PROVE  /\ txbuf'[n] # NULL /\ txbuf'[n] < last_sbuf
               /\ txbuf'[n] \notin svq_used \cup Bufs(svq')
               /\ \A l \in Msgs : st'[l] = "built" /\ txbuf'[l] = txbuf'[n] => l = n
    <3>1. /\ n \in Msgs \ {m} /\ st[n] = "built" /\ txbuf'[n] = txbuf[n]
          /\ \A l \in Msgs : st'[l] = "built" =>
                st[l] = "built" /\ txbuf'[l] = txbuf[l]
      BY <2>1, <2>7
    <3>2. /\ txbuf[n] # NULL /\ txbuf[n] < last_sbuf
          /\ txbuf[n] \notin svq_used \cup Bufs(svq)
          /\ \A l \in Msgs : st[l] = "built" /\ txbuf[l] = txbuf[n] => l = n
      BY <3>1 DEF TxExclusive
    <3> QED
      BY <2>1, <2>4, <3>1, <3>2
  <2> QED
    BY <2>1, <2>5, <2>6, <2>7 DEF TxExclusive, Bufs
<1>3. ASSUME NEW m \in Msgs, FreeMsg(m) PROVE TxExclusive'
  <2>1. svq \in SUBSET Requests /\ svq' = Disown(svq, m)
    BY <1>a, <1>3 DEF FreeMsg
  <2>2. /\ Bufs(svq') = Bufs(svq)
        /\ \A q \in svq' : \E p \in svq : q.buf = p.buf /\ q = Orphan(p, m)
    BY SMT, <2>1, OrphanFields DEF Disown, Bufs
  <2>3. \A p, q \in svq' : p.buf = q.buf => p = q
    BY SMT, <2>2 DEF TxExclusive
  <2> QED
    BY <1>a, <1>3, <2>2, <2>3 DEF FreeMsg, TxExclusive
<1>4. ASSUME NEW w \in Workers, BackendFetch(w) PROVE TxExclusive'
  <2>1. /\ UNCHANGED <<st, txbuf, last_sbuf>>
        /\ svq' \subseteq svq
        /\ \E q \in svq : svq' = svq \ {q} /\ svq_used' = svq_used \cup {q.buf}
    BY <1>4 DEF BackendFetch, owner
  <2>2. PICK q \in svq : svq' = svq \ {q} /\ svq_used' = svq_used \cup {q.buf}
    BY <2>1
  <2>3. svq_used' \cup Bufs(svq') \subseteq svq_used \cup Bufs(svq)
    BY <2>2 DEF Bufs
  <2>4. /\ \A p \in svq' : p.buf \notin svq_used' /\ p.buf < last_sbuf
        /\ \A b \in svq_used' : b < last_sbuf
    BY <2>2 DEF TxExclusive
  <2> QED
    BY <2>1, <2>3, <2>4 DEF TxExclusive, Bufs
<1>5. ASSUME UNCHANGED sendq,
             \A n \in Msgs : st'[n] = "built" =>
                               st[n] = "built" /\ txbuf'[n] = txbuf[n]
      PROVE TxExclusive'
  BY <1>5 DEF sendq, TxExclusive
<1>6. ASSUME NEW m \in Msgs, NEW k \in AllKinds,
             \/ AllocSlot(m, k) \/ NoTxBuf(m) \/ GiveUpUnsent(m)
             \/ Collect(m) \/ RxbufSend(m)
      PROVE TxExclusive'
  <2>1. /\ UNCHANGED sendq
        /\ \A n \in Msgs : st'[n] = "built" =>
                             st[n] = "built" /\ txbuf'[n] = txbuf[n]
    BY <1>a, <1>6 DEF AllocSlot, NoTxBuf, GiveUpUnsent, Collect, RxbufSend, ReadRxbuf
  <2> QED
    BY <1>5, <2>1
<1>7. ASSUME NEW w \in Workers, BackendAnswer(w) PROVE TxExclusive'
  BY <1>5, <1>7 DEF BackendAnswer, owner
<1>8. Interrupt \/ UNCHANGED msgVars => TxExclusive'
  <2>1. Interrupt \/ UNCHANGED msgVars => UNCHANGED <<sendq, st, txbuf>>
    BY DEF Interrupt, RecvDone, RecvLookup, RecvStore, RecvSignal, RecvNext,
           msgVars, owner
  <2> QED
    BY <1>5, <2>1
<1>9. "cmd" \in AllKinds
  BY DEF AllKinds
<1> QED
  BY <1>9, <1>1, <1>2, <1>3, <1>4, <1>6, <1>7, <1>8 DEF MsgNext, Client, Backend

\* A tx buffer is filled for one message at a time, and is out of the send
\* queue while it is.
THEOREM TxIsExclusive == MsgSpec => []TxExclusive
<1>1. MsgInit => TxExclusive
  BY DEF MsgInit, TxExclusive
<1>2. MsgSpec => [](TypeInv /\ TxExclusive)
  BY TypeInit, TypeStep, TxStep, <1>1, PTL DEF MsgSpec
<1> QED
  BY <1>2, PTL

-----------------------------------------------------------------------------
(***************************************************************************)
(* What is under way for a live message.                                   *)
(***************************************************************************)

OnePerOrigin(S) ==
    \A p, q \in S : p.origin # NULL /\ q.origin = p.origin => q = p

Apart(S, T) == \A p \in S, q \in T : p.origin # NULL => q.origin # p.origin

\* AnswerAddressed, made inductive: what is under way for a live message is in
\* one of the four places, and that message has been sent.
AddrInv ==
    /\ OnePerOrigin(svq) /\ OnePerOrigin(be) /\ OnePerOrigin(rvq_used)
    /\ Apart(svq, be) /\ Apart(svq, rvq_used) /\ Apart(be, rvq_used)
    /\ \A q \in InHandler :
        q.origin # NULL => \A p \in svq \cup be \cup rvq_used : p.origin # q.origin
    /\ \A q \in Outstanding : q.origin # NULL =>
        /\ msgtable[q.msgid] = q.origin
        /\ st[q.origin] \in {"sent", "reply", "drop"}

\* RxExclusive needs that a freed message has no rx buffer.
RxInv ==
    /\ RxExclusive
    /\ \A m \in Msgs : st[m] = "free" => rxbuf[m] = NULL

\* OwnAnswer, made inductive: while nothing has been abandoned, the message of
\* everything under way is still waiting and has no answer yet.
Waiting(m) == m \in Msgs /\ st[m] = "sent" /\ ~done[m] /\ rxbuf[m] = NULL

OwnInv ==
    ~abandoned =>
        /\ alien = {}
        /\ \A q \in Outstanding : Waiting(q.origin)
        /\ \A m \in Msgs :
            /\ st[m] \in {"free", "slot", "nobuf", "built"} =>
                 ~done[m] /\ rxbuf[m] = NULL
            /\ st[m] = "sent" /\ done[m] => rxbuf[m] # NULL
        /\ irq = "found" => irsp.origin = imsg
        /\ irq = "stored" =>
            /\ irsp.origin = imsg /\ st[imsg] = "sent"
            /\ ~done[imsg] /\ rxbuf[imsg] # NULL
            /\ \A q \in Outstanding : q.origin # imsg

\* With no length errors every answer passes the test of recv_single.
LenOK == "len" \notin Faults => \A q \in rvq_used \cup InHandler : q.len_ok

-----------------------------------------------------------------------------

\* A step that moves nothing, and leaves the messages under way sent and in
\* their slots, keeps AddrInv.
LEMMA AddrFrame ==
    ASSUME TypeInv, AddrInv, UNCHANGED <<svq, be, rvq_used>>,
           InHandler' \subseteq InHandler,
           \A q \in Outstanding : q.origin # NULL =>
               /\ msgtable'[q.msgid] = msgtable[q.msgid]
               /\ st'[q.origin] \in {"sent", "reply", "drop"}
    PROVE  AddrInv'
BY DEF AddrInv, OnePerOrigin, Apart, Outstanding

\* Every step keeps requests and answers addressed to their senders.
LEMMA AddrStep ==
    TypeInv /\ TableSound /\ AddrInv /\ [MsgNext]_msgVars => AddrInv'
<1> SUFFICES ASSUME TypeInv, TableSound, AddrInv, [MsgNext]_msgVars
             PROVE  AddrInv'
  OBVIOUS
<1>a. /\ msgtable \in [Slots -> Ptr(Msgs)]
      /\ msgid \in [Msgs -> Slots]
      /\ st \in [Msgs -> Stages]
      /\ NULL \notin Msgs
  BY ConstAssumption DEF TypeInv, MsgTypeOK
<1>0. /\ \A q \in svq : q \in Requests /\ q.msgid \in Slots /\ q.origin \in Ptr(Msgs)
      /\ \A q \in be : q \in Jobs /\ q.msgid \in Slots /\ q.origin \in Ptr(Msgs)
      /\ \A q \in rvq_used \cup InHandler :
            q \in Answers /\ q.msgid \in Slots /\ q.origin \in Ptr(Msgs)
  BY DEF TypeInv, MsgTypeOK, PointersOK, Requests, Jobs, Answers, InHandler
<1>1. ASSUME NEW m \in Msgs, NEW k \in AllKinds, AllocSlot(m, k) PROVE AddrInv'
  <2>1. /\ UNCHANGED <<svq, be, rvq_used, irq, irsp>>
        /\ \A q \in Outstanding : q.origin # NULL =>
               /\ msgtable'[q.msgid] = msgtable[q.msgid]
               /\ st'[q.origin] \in {"sent", "reply", "drop"}
    BY <1>a, <1>0, <1>1 DEF AllocSlot, sendq, recvq, handler, AddrInv, Outstanding, Ptr
  <2> QED
    BY <2>1, AddrFrame DEF InHandler
<1>2. ASSUME NEW m \in Msgs,
             \/ GetTxBuf(m) \/ NoTxBuf(m) \/ GiveUpUnsent(m)
             \/ Collect(m) \/ RxbufSend(m)
      PROVE AddrInv'
  <2>1. /\ UNCHANGED <<msgtable, svq, be, rvq_used, irq, irsp>>
        /\ \E s \in Stages : st' = [st EXCEPT ![m] = s]
        /\ st[m] \in {"sent", "reply", "drop"} => st'[m] \in {"sent", "reply", "drop"}
    <3>1. CASE GetTxBuf(m)
      BY <1>a, <3>1 DEF GetTxBuf, recvq, handler, Stages
    <3>2. CASE NoTxBuf(m)
      BY <1>a, <3>2 DEF NoTxBuf, sendq, recvq, handler, Stages
    <3>3. CASE GiveUpUnsent(m)
      BY <1>a, <3>3 DEF GiveUpUnsent, ReadRxbuf, sendq, recvq, handler, Stages
    <3>4. CASE Collect(m)
      BY <1>a, <3>4 DEF Collect, ReadRxbuf, sendq, recvq, handler, Stages
    <3>5. CASE RxbufSend(m)
      BY <1>a, <3>5 DEF RxbufSend, sendq, handler, Stages
    <3> QED
      BY <1>2, <3>1, <3>2, <3>3, <3>4, <3>5
  <2>2. \A q \in Outstanding : q.origin # NULL =>
               /\ msgtable'[q.msgid] = msgtable[q.msgid]
               /\ st'[q.origin] \in {"sent", "reply", "drop"}
    BY <1>a, <1>0, <2>1 DEF AddrInv, Outstanding, Ptr
  <2> QED
    BY <2>1, <2>2, AddrFrame DEF InHandler
<1>3. ASSUME NEW m \in Msgs, TxbufSend(m) PROVE AddrInv'
  <2>1. \A q \in Outstanding : q.origin # m
    BY <1>a, <1>3 DEF TxbufSend, AddrInv
  <2>2. InHandler' = InHandler
    BY <1>3 DEF TxbufSend, handler, InHandler
  <2>3. msgtable[msgid[m]] = m
    BY <1>3 DEF TxbufSend, TableSound
  <2>4. /\ svq' = svq \cup {Request(m)}
        /\ UNCHANGED <<msgtable, be, rvq_used>>
        /\ Request(m).msgid = msgid[m] /\ Request(m).origin = m
    BY <1>3 DEF TxbufSend, Request, recvq
  <2>5. \A n \in Msgs : st[n] \in {"sent", "reply", "drop"} \/ n = m =>
            st'[n] \in {"sent", "reply", "drop"}
    BY <1>a, <1>3 DEF TxbufSend
  <2>6. Outstanding' = Outstanding \cup {Request(m)}
    BY <2>2, <2>4 DEF Outstanding
  <2>7. \A q \in Outstanding' : q.origin # NULL =>
            /\ msgtable'[q.msgid] = q.origin
            /\ st'[q.origin] \in {"sent", "reply", "drop"}
    BY <1>0, <2>3, <2>4, <2>5, <2>6 DEF AddrInv, Outstanding, Ptr
  <2>8. /\ \A q \in svq \cup be \cup rvq_used \cup InHandler : q.origin # m
        /\ \A q \in svq' : q \in svq \/ (q = Request(m) /\ q.origin = m)
    BY <2>1, <2>4 DEF Outstanding
  <2>9. OnePerOrigin(svq)'
    BY <2>8 DEF AddrInv, OnePerOrigin
  <2>10. Apart(svq, be)' /\ Apart(svq, rvq_used)'
    BY <2>4, <2>8 DEF AddrInv, Apart
  <2>11. \A q \in InHandler' : q.origin # NULL =>
            \A p \in svq' \cup be' \cup rvq_used' : p.origin # q.origin
    BY <2>2, <2>4, <2>8 DEF AddrInv
  <2> QED
    BY <2>4, <2>7, <2>9, <2>10, <2>11 DEF AddrInv, OnePerOrigin, Apart
<1>4. ASSUME NEW m \in Msgs, FreeMsg(m) PROVE AddrInv'
  <2>1. /\ \A q \in svq' : \E p \in svq : q = Orphan(p, m)
        /\ \A q \in be' : \E p \in be : q = Orphan(p, m)
        /\ \A q \in rvq_used' : \E p \in rvq_used : q = Orphan(p, m)
        /\ \A q \in InHandler' : \E p \in InHandler : q = Orphan(p, m)
    BY <1>4 DEF FreeMsg, Disown, InHandler
  <2>2. \A p \in Outstanding :
            /\ Orphan(p, m).msgid = p.msgid
            /\ Orphan(p, m).origin = IF p.origin = m THEN NULL ELSE p.origin
    BY SMT, <1>0, OrphanFields DEF Outstanding
  <2>3. \A p \in Outstanding : p.origin # NULL /\ p.origin # m =>
            /\ msgtable'[p.msgid] = p.origin
            /\ st'[p.origin] \in {"sent", "reply", "drop"}
    BY <1>a, <1>0, <1>4 DEF FreeMsg, ClearSlot, AddrInv, Outstanding, Ptr
  <2>4. \A q \in Outstanding' : \E p \in Outstanding : q = Orphan(p, m)
    BY <2>1 DEF Outstanding
  <2>5. \A q \in Outstanding' : q.origin # NULL =>
            /\ msgtable'[q.msgid] = q.origin
            /\ st'[q.origin] \in {"sent", "reply", "drop"}
    BY <2>2, <2>3, <2>4
  <2>6. /\ OnePerOrigin(svq)' /\ OnePerOrigin(be)' /\ OnePerOrigin(rvq_used)'
        /\ Apart(svq, be)' /\ Apart(svq, rvq_used)' /\ Apart(be, rvq_used)'
    BY SMT, <2>1, <2>2 DEF AddrInv, OnePerOrigin, Apart, Outstanding
  <2>7. \A q \in InHandler' : q.origin # NULL =>
            \A p \in svq' \cup be' \cup rvq_used' : p.origin # q.origin
    BY SMT, <2>1, <2>2 DEF AddrInv, Outstanding
  <2> QED
    BY <2>5, <2>6, <2>7 DEF AddrInv
<1>5. ASSUME NEW w \in Workers, BackendFetch(w) PROVE AddrInv'
  <2>1. InHandler' = InHandler
    BY <1>5 DEF BackendFetch, handler, InHandler
  <2> QED
    BY SMT, <1>0, <1>5, <2>1
       DEF BackendFetch, owner, AddrInv, OnePerOrigin, Apart, Outstanding
<1>6. ASSUME NEW w \in Workers, BackendAnswer(w) PROVE AddrInv'
  <2>1. InHandler' = InHandler
    BY <1>6 DEF BackendAnswer, handler, InHandler
  <2> QED
    BY SMT, <1>0, <1>6, <2>1
       DEF BackendAnswer, owner, sendq, AddrInv, OnePerOrigin, Apart, Outstanding
<1>7. ASSUME RecvDone \/ RecvNext PROVE AddrInv'
  <2>1. /\ UNCHANGED <<msgtable, st, svq, be>>
        /\ \/ UNCHANGED rvq_used /\ InHandler' = {}
           \/ \E q \in rvq_used : rvq_used' = rvq_used \ {q} /\ InHandler' = {q}
    BY <1>7 DEF RecvDone, RecvNext, GetUsedBuf, owner, sendq, InHandler
  <2>2. rvq_used' \subseteq rvq_used /\ Outstanding' \subseteq Outstanding
    BY <2>1 DEF Outstanding
  <2>3. \A q \in InHandler' : q \in rvq_used /\ q \notin rvq_used'
    BY <2>1
  <2>4. \A q \in InHandler' : q.origin # NULL =>
            \A p \in svq' \cup be' \cup rvq_used' : p.origin # q.origin
    BY <2>1, <2>2, <2>3 DEF AddrInv, OnePerOrigin, Apart
  <2>5. /\ OnePerOrigin(svq)' /\ OnePerOrigin(be)' /\ OnePerOrigin(rvq_used)'
        /\ Apart(svq, be)' /\ Apart(svq, rvq_used)' /\ Apart(be, rvq_used)'
    BY <2>1, <2>2 DEF AddrInv, OnePerOrigin, Apart
  <2> QED
    BY <2>1, <2>2, <2>4, <2>5 DEF AddrInv
<1>8. ASSUME RecvLookup \/ RecvStore \/ RecvSignal \/ UNCHANGED msgVars
      PROVE AddrInv'
  <2>1. /\ UNCHANGED <<msgtable, st, svq, be, rvq_used>>
        /\ InHandler' \subseteq InHandler
    BY <1>8 DEF RecvLookup, RecvStore, RecvSignal, msgVars, owner, sendq, recvq,
                handler, InHandler
  <2> QED
    BY <2>1, AddrFrame DEF AddrInv
<1> QED
  BY <1>1, <1>2, <1>3, <1>4, <1>5, <1>6, <1>7, <1>8
     DEF MsgNext, Client, Backend, Interrupt

\* At first nothing is under way.
LEMMA AddrInit == MsgInit => AddrInv
BY DEF MsgInit, AddrInv, OnePerOrigin, Apart, Outstanding, InHandler

\* The answer to a live message always finds that message in the table, and a
\* live message has at most one request or answer under way.
THEOREM AnswersAreAddressed == MsgSpec => []AnswerAddressed
<1>1. MsgInit => TableSound
  BY TableInit
<1>2. MsgSpec => [](TypeInv /\ TableSound /\ AddrInv)
  BY TypeInit, TypeStep, TableStep, AddrInit, AddrStep, <1>1, PTL DEF MsgSpec
<1>3. AddrInv => AnswerAddressed
  <2>1. SUFFICES ASSUME AddrInv, NEW p \in Outstanding, NEW q \in Outstanding,
                        p.origin # NULL, q.origin = p.origin
                 PROVE  q = p
    BY DEF AddrInv, AnswerAddressed
  <2>2. CASE p \in InHandler \/ q \in InHandler
    BY <2>1, <2>2 DEF AddrInv, Outstanding, InHandler
  <2>3. CASE p \notin InHandler /\ q \notin InHandler
    BY <2>1, <2>3 DEF AddrInv, Outstanding, OnePerOrigin, Apart
  <2> QED
    BY <2>2, <2>3
<1> QED
  BY <1>2, <1>3, PTL

-----------------------------------------------------------------------------
(***************************************************************************)
(* The rx buffers.                                                         *)
(***************************************************************************)

\* A step that moves no answer and hands no buffer back keeps RxInv if nobody
\* comes to hold another buffer.
LEMMA RxFrame ==
    ASSUME RxInv, UNCHANGED <<rvq_avail, rvq_used>>, InHandler' = InHandler,
           \A n \in Msgs : Held(n)' \subseteq Held(n),
           \A n \in Msgs : st'[n] = "free" => rxbuf'[n] = NULL
    PROVE  RxInv'
BY DEF RxInv, RxExclusive

\* Every step leaves an rx buffer one reader.
LEMMA RxStep == TypeInv /\ RxInv /\ [MsgNext]_msgVars => RxInv'
<1> SUFFICES ASSUME TypeInv, RxInv, [MsgNext]_msgVars PROVE RxInv'
  OBVIOUS
<1>a. /\ st \in [Msgs -> Stages]
      /\ rxbuf \in [Msgs -> Ptr(RxBufs)]
      /\ rsp \in [Msgs -> Ptr(RxBufs)]
      /\ irq # "idle" => irsp \in Answers
      /\ irq \in {"found", "stored", "signalled"} => imsg \in Msgs
      /\ \A m \in Msgs : st[m] = "reply" => rsp[m] \in RxBufs
      /\ NULL \notin RxBufs
  BY ConstAssumption DEF TypeInv, MsgTypeOK, PointersOK
<1>0. \A q \in rvq_used \cup InHandler : q \in Answers /\ q.buf \in RxBufs
  BY DEF TypeInv, MsgTypeOK, PointersOK, Answers, InHandler
<1>1. ASSUME NEW m \in Msgs, NEW k \in AllKinds,
             \/ AllocSlot(m, k) \/ GetTxBuf(m) \/ NoTxBuf(m) \/ TxbufSend(m)
             \/ GiveUpUnsent(m) \/ Collect(m)
      PROVE RxInv'
  <2> DEFINE Frame == /\ UNCHANGED <<rxbuf, rvq_avail, rvq_used, irq, irsp>>
                      /\ st'[m] # "free"
                      /\ \A n \in Msgs \ {m} : st'[n] = st[n] /\ rsp'[n] = rsp[n]
                      /\ Held(m)' \subseteq Held(m)
  <2>1. Frame
    <3>1. ASSUME AllocSlot(m, k) PROVE Frame
      <4>1. rxbuf[m] = NULL
        BY <3>1 DEF AllocSlot, RxInv
      <4> QED
        BY <1>a, <3>1, <4>1 DEF AllocSlot, recvq, handler, Held
    <3>2. ASSUME GetTxBuf(m) PROVE Frame
      BY <1>a, <3>2 DEF GetTxBuf, recvq, handler, Held
    <3>3. ASSUME NoTxBuf(m) PROVE Frame
      BY <1>a, <3>3 DEF NoTxBuf, recvq, handler, Held
    <3>4. ASSUME TxbufSend(m) PROVE Frame
      BY <1>a, <3>4 DEF TxbufSend, recvq, handler, Held
    <3>5. ASSUME GiveUpUnsent(m) PROVE Frame
      BY <1>a, <3>5 DEF GiveUpUnsent, ReadRxbuf, recvq, handler, Held
    <3>6. ASSUME Collect(m) PROVE Frame
      BY <1>a, <3>6 DEF Collect, ReadRxbuf, recvq, handler, Held
    <3> QED
      BY <1>1, <3>1, <3>2, <3>3, <3>4, <3>5, <3>6
  <2>4. \A n \in Msgs : Held(n)' \subseteq Held(n)
    BY <2>1 DEF Held
  <2>5. \A n \in Msgs : st'[n] = "free" => rxbuf'[n] = NULL
    BY <2>1 DEF RxInv
  <2> QED
    BY <2>1, <2>4, <2>5, RxFrame DEF InHandler
<1>2. ASSUME NEW m \in Msgs, RxbufSend(m) PROVE RxInv'
  <2>1. /\ UNCHANGED <<rvq_used, irq, irsp, rxbuf>>
        /\ st[m] = "reply" /\ st'[m] = "drop"
        /\ \A n \in Msgs \ {m} : st'[n] = st[n] /\ rsp'[n] = rsp[n]
        /\ rvq_avail \subseteq rvq_avail' /\ rvq_avail' \subseteq rvq_avail \cup {rsp[m]}
    BY <1>a, <1>2 DEF RxbufSend, AddInbuf, handler
  <2>2. InHandler' = InHandler
    BY <2>1 DEF InHandler
  <2>3. Held(m)' = {} /\ rsp[m] \in Held(m)
    BY <1>a, <2>1 DEF Held
  <2>4. \A n \in Msgs \ {m} : Held(n)' = Held(n) /\ rsp[m] \notin Held(n)
    <3>1. \A n \in Msgs \ {m} : Held(n)' = Held(n)
      BY <2>1 DEF Held
    <3>2. \A n \in Msgs \ {m} : Held(n) \cap Held(m) = {}
      BY DEF RxInv, RxExclusive
    <3> QED
      BY <2>3, <3>1, <3>2
  <2>5. rsp[m] \notin Bufs(rvq_used \cup InHandler)
    BY <2>3 DEF RxInv, RxExclusive
  <2>6. \A q \in rvq_used \cup InHandler : q.buf # rsp[m]
    BY <2>5 DEF Bufs
  <2>7. \A n \in Msgs : st'[n] = "free" => rxbuf'[n] = NULL
    BY <2>1 DEF RxInv
  <2>8. \A n \in Msgs :
          /\ Held(n)' \cap (rvq_avail \cup Bufs(rvq_used \cup InHandler))' = {}
          /\ \A l \in Msgs \ {n} : Held(n)' \cap Held(l)' = {}
    <3> TAKE n \in Msgs
    <3>1. /\ Held(n) \cap (rvq_avail \cup Bufs(rvq_used \cup InHandler)) = {}
          /\ \A l \in Msgs \ {n} : Held(n) \cap Held(l) = {}
      BY DEF RxInv, RxExclusive
    <3>2. Bufs(rvq_used \cup InHandler)' = Bufs(rvq_used \cup InHandler)
      BY <2>1, <2>2 DEF Bufs
    <3>3. CASE n = m
      BY <2>3, <3>3
    <3>4. CASE n # m
      <4>1. Held(n)' = Held(n) /\ rsp[m] \notin Held(n)
        BY <2>4, <3>4
      <4>2. \A l \in Msgs : Held(l)' \subseteq Held(l)
        BY <2>3, <2>4
      <4> QED
        BY <2>1, <3>1, <3>2, <4>1, <4>2
    <3> QED
      BY <3>3, <3>4
  <2>9. /\ \A p, q \in rvq_used' \cup InHandler' : p.buf = q.buf => p = q
        /\ InHandler' \cap rvq_used' = {}
        /\ \A q \in rvq_used' \cup InHandler' : q.buf \notin rvq_avail'
    BY <2>1, <2>2, <2>6 DEF RxInv, RxExclusive
  <2> QED
    BY <2>7, <2>8, <2>9 DEF RxInv, RxExclusive
<1>3. ASSUME NEW m \in Msgs, FreeMsg(m) PROVE RxInv'
  <2>1. /\ \A q \in rvq_used' : \E p \in rvq_used : q = Orphan(p, m)
        /\ \A q \in InHandler' : \E p \in InHandler : q = Orphan(p, m)
    BY <1>3 DEF FreeMsg, Disown, InHandler
  <2>2. \A p \in rvq_used \cup InHandler : Orphan(p, m).buf = p.buf
    <3>1. \A q \in Answers : Orphan(q, m).buf = q.buf
      BY OrphanFields
    <3> QED
      BY <1>0, <3>1
  <2>3. \A n \in Msgs : Held(n)' \subseteq Held(n)
    BY <1>a, <1>3 DEF FreeMsg, Held
  <2>4. \A p \in rvq_used, q \in InHandler : p.buf # q.buf
    BY DEF RxInv, RxExclusive
  <2>5. InHandler' \cap rvq_used' = {}
    BY SMT, <2>1, <2>2, <2>4
  <2>6. \A p, q \in rvq_used' \cup InHandler' : p.buf = q.buf => p = q
    BY SMT, <2>1, <2>2 DEF RxInv, RxExclusive
  <2>7. /\ Bufs(rvq_used \cup InHandler)' \subseteq Bufs(rvq_used \cup InHandler)
        /\ \A q \in rvq_used' \cup InHandler' : q.buf \notin rvq_avail
    BY SMT, <2>1, <2>2 DEF Bufs, RxInv, RxExclusive
  <2>8. \A n \in Msgs : st'[n] = "free" => rxbuf'[n] = NULL
    BY <1>a, <1>3 DEF FreeMsg, RxInv
  <2>9. UNCHANGED rvq_avail
    BY <1>3 DEF FreeMsg
  <2>10. \A n \in Msgs :
          /\ Held(n)' \cap (rvq_avail \cup Bufs(rvq_used \cup InHandler))' = {}
          /\ \A l \in Msgs \ {n} : Held(n)' \cap Held(l)' = {}
    <3> TAKE n \in Msgs
    <3>1. Held(n) \cap (rvq_avail \cup Bufs(rvq_used \cup InHandler)) = {}
      BY DEF RxInv, RxExclusive
    <3>2. Held(n)' \cap (rvq_avail \cup Bufs(rvq_used \cup InHandler))' = {}
      BY <2>3, <2>7, <2>9, <3>1
    <3>3. ASSUME NEW l \in Msgs \ {n} PROVE Held(n)' \cap Held(l)' = {}
      <4>1. Held(n) \cap Held(l) = {}
        BY DEF RxInv, RxExclusive
      <4> QED
        BY <2>3, <4>1
    <3> QED
      BY <3>2, <3>3
  <2> QED
    BY <2>5, <2>6, <2>7, <2>8, <2>9, <2>10 DEF RxInv, RxExclusive
<1>4. ASSUME NEW w \in Workers, BackendAnswer(w) PROVE RxInv'
  <2>1. InHandler' = InHandler /\ \A n \in Msgs : Held(n)' = Held(n)
    BY <1>4 DEF BackendAnswer, handler, owner, InHandler, Held
  <2>2. PICK j \in be, x \in rvq_avail, ok \in BOOLEAN :
            /\ rvq_avail' = rvq_avail \ {x}
            /\ rvq_used' = rvq_used \cup
                 {[buf |-> x, msgid |-> j.msgid, origin |-> j.origin, len_ok |-> ok]}
    BY <1>4 DEF BackendAnswer
  <2> DEFINE a == [buf |-> x, msgid |-> j.msgid, origin |-> j.origin, len_ok |-> ok]
  <2>3. rvq_used' = rvq_used \cup {a} /\ a.buf = x
    BY <2>2
  <2> HIDE DEF a
  <2>4. \A q \in rvq_used \cup InHandler : q.buf # x
    BY DEF RxInv, RxExclusive
  <2>5. /\ \A p, q \in rvq_used' \cup InHandler' : p.buf = q.buf => p = q
        /\ InHandler' \cap rvq_used' = {}
        /\ \A q \in rvq_used' \cup InHandler' : q.buf \notin rvq_avail'
    BY <2>1, <2>2, <2>3, <2>4 DEF RxInv, RxExclusive
  <2>6. rvq_avail' \cup Bufs(rvq_used \cup InHandler)'
           \subseteq rvq_avail \cup Bufs(rvq_used \cup InHandler)
    BY <2>1, <2>2, <2>3 DEF Bufs
  <2>7. UNCHANGED <<st, rxbuf>>
    BY <1>4 DEF BackendAnswer, owner
  <2>8. \A n \in Msgs :
          /\ Held(n)' \cap (rvq_avail \cup Bufs(rvq_used \cup InHandler))' = {}
          /\ \A l \in Msgs \ {n} : Held(n)' \cap Held(l)' = {}
    <3>1. \A n \in Msgs :
            /\ Held(n) \cap (rvq_avail \cup Bufs(rvq_used \cup InHandler)) = {}
            /\ \A l \in Msgs \ {n} : Held(n) \cap Held(l) = {}
      BY DEF RxInv, RxExclusive
    <3> QED
      BY <2>1, <2>6, <3>1
  <2> QED
    BY <2>5, <2>7, <2>8 DEF RxInv, RxExclusive
<1>5. ASSUME RecvDone \/ RecvNext PROVE RxInv'
  <2>1. /\ UNCHANGED <<st, rxbuf, rvq_avail>>
        /\ \A n \in Msgs : Held(n)' = Held(n)
        /\ \/ UNCHANGED rvq_used /\ InHandler' = {}
           \/ \E q \in rvq_used : rvq_used' = rvq_used \ {q} /\ InHandler' = {q}
    BY <1>5 DEF RecvDone, RecvNext, GetUsedBuf, owner, InHandler, Held
  <2> QED
    <3>1. /\ rvq_used' \cup InHandler' \subseteq rvq_used \cup InHandler
          /\ InHandler' \cap rvq_used' = {}
      BY <2>1
    <3>2. Bufs(rvq_used \cup InHandler)' \subseteq Bufs(rvq_used \cup InHandler)
      BY <3>1 DEF Bufs
    <3>3. ASSUME NEW n \in Msgs
          PROVE  /\ Held(n)' \cap (rvq_avail \cup Bufs(rvq_used \cup InHandler))' = {}
                 /\ \A l \in Msgs \ {n} : Held(n)' \cap Held(l)' = {}
      <4>1. /\ Held(n) \cap (rvq_avail \cup Bufs(rvq_used \cup InHandler)) = {}
            /\ \A l \in Msgs \ {n} : Held(n) \cap Held(l) = {}
        BY DEF RxInv, RxExclusive
      <4> QED
        BY <2>1, <3>2, <4>1
    <3>4. \A p, q \in (rvq_used \cup InHandler)' : p.buf = q.buf => p = q
      BY <3>1 DEF RxInv, RxExclusive
    <3> QED
      BY <2>1, <3>1, <3>3, <3>4 DEF RxInv, RxExclusive
<1>6. ASSUME RecvLookup PROVE RxInv'
  <2>1. /\ UNCHANGED <<st, rxbuf, rvq_avail, rvq_used>>
        /\ \A n \in Msgs : Held(n)' = Held(n)
        /\ InHandler' \subseteq InHandler
    BY <1>6 DEF RecvLookup, owner, recvq, InHandler, Held
  <2> QED
    BY SMT, <1>0, <2>1 DEF RxInv, RxExclusive, Bufs
<1>7. ASSUME RecvStore PROVE RxInv'
  <2>1. /\ UNCHANGED <<st, rvq_avail, rvq_used, imsg>>
        /\ InHandler = {irsp}
        /\ InHandler' = {}
        /\ imsg \in Msgs
        /\ irsp.buf \in RxBufs
    BY <1>a, <1>0, <1>7 DEF RecvStore, recvq, InHandler
  <2>2. /\ \A n \in Msgs \ {imsg} : Held(n)' = Held(n)
        /\ Held(imsg)' \subseteq Held(imsg) \cup {irsp.buf}
        /\ \A n \in Msgs : st'[n] = "free" => rxbuf'[n] = NULL
    BY <1>a, <1>7, <2>1 DEF RecvStore, StoreRxbuf, Held, RxInv
  <2>3. /\ irsp.buf \notin rvq_avail \cup Bufs(rvq_used)
        /\ \A n \in Msgs : irsp.buf \notin Held(n)
    BY SMT, <2>1 DEF RxInv, RxExclusive, Bufs
  <2>4. \A n \in Msgs :
          /\ Held(n)' \cap (rvq_avail \cup Bufs(rvq_used \cup InHandler))' = {}
          /\ \A l \in Msgs \ {n} : Held(n)' \cap Held(l)' = {}
    <3> TAKE n \in Msgs
    <3>1. Bufs(rvq_used \cup InHandler)' = Bufs(rvq_used)
      BY <2>1
    <3>2. Held(n) \cap (rvq_avail \cup Bufs(rvq_used)) = {}
      <4>1. Bufs(rvq_used) \subseteq Bufs(rvq_used \cup InHandler)
        BY DEF Bufs
      <4> QED
        BY <4>1 DEF RxInv, RxExclusive
    <3>3. Held(n)' \subseteq Held(n) \cup {irsp.buf}
      BY <2>1, <2>2
    <3>4. Held(n)' \cap (rvq_avail \cup Bufs(rvq_used)) = {}
      BY <2>3, <3>2, <3>3
    <3>5. ASSUME NEW l \in Msgs \ {n} PROVE Held(n)' \cap Held(l)' = {}
      <4>1. Held(n) \cap Held(l) = {} /\ irsp.buf \notin Held(n) \cup Held(l)
        BY <2>3 DEF RxInv, RxExclusive
      <4>2. CASE n = imsg
        BY <2>1, <2>2, <4>1, <4>2
      <4>3. CASE n # imsg
        BY SMT, <2>1, <2>2, <3>3, <4>1, <4>3
      <4> QED
        BY <4>2, <4>3
    <3> QED
      BY <2>1, <3>1, <3>4, <3>5
  <2>5. /\ \A p, q \in rvq_used : p.buf = q.buf => p = q
        /\ \A q \in rvq_used : q.buf \notin rvq_avail
    BY DEF RxInv, RxExclusive
  <2> QED
    BY <2>1, <2>2, <2>4, <2>5 DEF RxInv, RxExclusive
<1>8. ASSUME NEW w \in Workers, BackendFetch(w) PROVE RxInv'
  BY <1>8, RxFrame DEF BackendFetch, owner, handler, InHandler, Held, RxInv
<1>9. ASSUME RecvSignal \/ UNCHANGED msgVars PROVE RxInv'
  <2>1. /\ UNCHANGED <<st, rxbuf, rsp, rvq_avail, rvq_used>>
        /\ InHandler' = InHandler
    BY <1>9 DEF RecvSignal, msgVars, owner, recvq, handler, InHandler
  <2> QED
    BY <2>1, RxFrame DEF Held, RxInv
<1>10. "cmd" \in AllKinds
  BY DEF AllKinds
<1> QED
  BY <1>10, <1>1, <1>2, <1>3, <1>4, <1>5, <1>6, <1>7, <1>8, <1>9
     DEF MsgNext, Client, Backend, Interrupt

\* At first every rx buffer is with the device.
LEMMA RxInit == MsgInit => RxInv
BY DEF MsgInit, RxInv, RxExclusive, InHandler, Held, Bufs

\* The back end never writes into an rx buffer whose answer is still to be
\* read, and no rx buffer is queued twice - also after messages were abandoned,
\* answers misdelivered and buffers lost.
THEOREM RxIsExclusive == MsgSpec => []RxExclusive
<1>1. MsgSpec => [](TypeInv /\ RxInv)
  BY TypeInit, TypeStep, RxInit, RxStep, PTL DEF MsgSpec
<1>2. RxInv => RxExclusive
  BY DEF RxInv
<1> QED
  BY <1>1, <1>2, PTL

\* Both at once: no tx buffer has two senders and no rx buffer two readers.
THEOREM BuffersAreExclusive == MsgSpec => []BuffersExclusive
<1>1. TxExclusive /\ RxExclusive => BuffersExclusive
  BY DEF BuffersExclusive
<1> QED
  BY <1>1, TxIsExclusive, RxIsExclusive, PTL

-----------------------------------------------------------------------------
(***************************************************************************)
(* A message is completed by its own answer.                               *)
(***************************************************************************)

\* Every step keeps a message apart from the answers of others.
LEMMA OwnStep ==
    TypeInv /\ TableSound /\ AddrInv /\ OwnInv /\ [MsgNext]_msgVars => OwnInv'
<1> SUFFICES ASSUME TypeInv, TableSound, AddrInv, OwnInv, [MsgNext]_msgVars,
                    ~abandoned'
             PROVE  OwnInv'
  BY DEF OwnInv
<1>0. /\ \A q \in svq : q \in Requests
      /\ \A q \in be : q \in Jobs
      /\ \A q \in rvq_used \cup InHandler : q \in Answers
      /\ irq # "idle" => irsp \in Answers
  BY DEF TypeInv, MsgTypeOK, PointersOK, InHandler
<1>a. /\ st \in [Msgs -> Stages]
      /\ rxbuf \in [Msgs -> Ptr(RxBufs)]
      /\ done \in [Msgs -> BOOLEAN]
      /\ irq \in {"found", "stored", "signalled"} => imsg \in Msgs
      /\ NULL \notin Msgs /\ NULL \notin RxBufs
  BY ConstAssumption DEF TypeInv, MsgTypeOK, PointersOK
<1>1. ASSUME NEW m \in Msgs, NEW k \in AllKinds,
             \/ AllocSlot(m, k) \/ GetTxBuf(m) \/ NoTxBuf(m) \/ GiveUpUnsent(m)
             \/ Collect(m) \/ RxbufSend(m)
      PROVE OwnInv'
  <2>1. /\ UNCHANGED <<svq, be, rvq_used, irq, irsp, imsg, rxbuf, done, alien>>
        /\ \A n \in Msgs \ {m} : st'[n] = st[n]
        /\ st[m] = "sent" => done[m]
        /\ st'[m] # "sent"
        /\ st'[m] \in {"free", "slot", "nobuf", "built"} =>
             st[m] \in {"free", "slot", "nobuf", "built"}
        /\ ~abandoned
    <3>1. CASE AllocSlot(m, k)
      BY <1>a, <3>1 DEF AllocSlot, sendq, recvq, handler, history
    <3>2. CASE GetTxBuf(m)
      BY <1>a, <3>2 DEF GetTxBuf, recvq, handler, history
    <3>3. CASE NoTxBuf(m)
      BY <1>a, <3>3 DEF NoTxBuf, sendq, recvq, handler, history
    <3>4. CASE GiveUpUnsent(m)
      BY <1>a, <3>4 DEF GiveUpUnsent, ReadRxbuf, sendq, recvq, handler, history
    <3>5. CASE Collect(m)
      <4>1. ~abandoned /\ done[m]
        BY <3>5, Zenon DEF Collect
      <4> QED
        BY <1>a, <3>5, <4>1 DEF Collect, ReadRxbuf, sendq, recvq, handler
    <3>6. CASE RxbufSend(m)
      BY <1>a, <3>6 DEF RxbufSend, sendq, handler, history
    <3> QED
      BY <1>1, <3>1, <3>2, <3>3, <3>4, <3>5, <3>6
  <2>2. Outstanding' = Outstanding
    BY <2>1 DEF Outstanding, InHandler
  <2>3. \A n \in Msgs : Waiting(n) => Waiting(n)'
    BY <2>1 DEF Waiting
  <2> QED
    BY <1>a, <2>1, <2>2, <2>3 DEF OwnInv, Waiting
<1>2. ASSUME NEW m \in Msgs, TxbufSend(m) PROVE OwnInv'
  <2>1. /\ UNCHANGED <<be, rvq_used, irq, irsp, imsg, rxbuf, done, alien, abandoned>>
        /\ st' = [st EXCEPT ![m] = "sent"]
        /\ st[m] = "built"
        /\ svq' = svq \cup {Request(m)}
    BY <1>2 DEF TxbufSend, recvq, handler, history
  <2>2. \A q \in Outstanding' : q \in Outstanding \/ q.origin = m
    <3>1. Request(m).origin = m
      BY DEF Request
    <3>2. InHandler' = InHandler
      BY <2>1 DEF InHandler
    <3> QED
      BY <2>1, <3>1, <3>2 DEF Outstanding
  <2>3. Waiting(m)' /\ \A n \in Msgs : Waiting(n) => Waiting(n)'
    BY <1>a, <2>1 DEF OwnInv, Waiting
  <2>4. \A q \in Outstanding' : Waiting(q.origin)'
    BY <2>1, <2>2, <2>3 DEF OwnInv, Waiting
  <2>5. irq = "stored" => imsg # m
    BY <2>1 DEF OwnInv
  <2> QED
    BY <1>a, <2>1, <2>2, <2>4, <2>5 DEF OwnInv
<1>3. ASSUME NEW m \in Msgs, FreeMsg(m) PROVE OwnInv'
  <2>1. /\ UNCHANGED <<irq, imsg, alien, abandoned>>
        /\ st[m] \in {"nobuf", "drop"}
        /\ st' = [st EXCEPT ![m] = "free"]
        /\ rxbuf' = [rxbuf EXCEPT ![m] = NULL]
        /\ done' = [done EXCEPT ![m] = FALSE]
        /\ irq # "idle" => irsp' = Orphan(irsp, m)
    BY <1>3 DEF FreeMsg, history
  <2>2. \A q \in Outstanding' : \E p \in Outstanding : q = Orphan(p, m)
    BY <1>3 DEF FreeMsg, Disown, Outstanding, InHandler
  <2>3. \A p \in Outstanding : Waiting(p.origin) /\ p.origin # m
    BY <2>1 DEF OwnInv, Waiting
  <2>4. \A p \in Outstanding : Orphan(p, m).origin = p.origin
    <3>1. \A q \in Requests \cup Jobs \cup Answers :
            q.origin # m => Orphan(q, m).origin = q.origin
      BY OrphanFields
    <3>2. Outstanding \subseteq Requests \cup Jobs \cup Answers
      BY <1>0 DEF Outstanding
    <3> QED
      BY <2>3, <3>1, <3>2
  <2>5. irq \in {"found", "stored"} => irsp'.origin = irsp.origin /\ imsg # m
    <3>1. irq \in {"found", "stored"} => irsp.origin = imsg /\ imsg # m
      BY <2>1, <2>3 DEF OwnInv, Outstanding, InHandler
    <3>2. irq \in {"found", "stored"} => irsp \in Answers /\ irsp' = Orphan(irsp, m)
      BY <1>0, <2>1
    <3>3. \A q \in Answers : q.origin # m => Orphan(q, m).origin = q.origin
      BY OrphanFields
    <3> QED
      BY <3>1, <3>2, <3>3
  <2>6. \A q \in Outstanding' : \E p \in Outstanding : q.origin = p.origin
    BY <2>2, <2>4
  <2>7. \A n \in Msgs : Waiting(n) => Waiting(n)'
    BY <1>a, <2>1 DEF Waiting
  <2>8. \A q \in Outstanding' : Waiting(q.origin)'
    BY SMT, <2>3, <2>6, <2>7 DEF Waiting
  <2> QED
    BY <1>a, <2>1, <2>5, <2>6, <2>8 DEF OwnInv
<1>4. ASSUME NEW w \in Workers, Backend(w) PROVE OwnInv'
  <2>1. UNCHANGED <<irq, irsp, imsg, st, rxbuf, done, alien, abandoned>>
    BY <1>4 DEF Backend, BackendFetch, BackendAnswer, owner, handler, history
  <2>2. \A q \in Outstanding' : \E p \in Outstanding : q.origin = p.origin
    <3>1. InHandler' = InHandler
      BY <2>1 DEF InHandler
    <3>2. CASE BackendFetch(w)
      <4>1. PICK q \in svq :
              /\ svq' = svq \ {q}
              /\ be' = be \cup {[worker |-> w, msgid |-> q.msgid, origin |-> q.origin]}
              /\ rvq_used' = rvq_used
        BY <3>2 DEF BackendFetch
      <4>2. \A p \in be' : p \in be \/ p.origin = q.origin
        BY SMT, <4>1
      <4> QED
        BY <3>1, <4>1, <4>2 DEF Outstanding
    <3>3. CASE BackendAnswer(w)
      <4>1. PICK j \in be, r \in rvq_avail, ok \in BOOLEAN :
              /\ be' = be \ {j}
              /\ rvq_used' = rvq_used \cup
                    {[buf |-> r, msgid |-> j.msgid, origin |-> j.origin, len_ok |-> ok]}
              /\ svq' = svq
        BY <3>3 DEF BackendAnswer, sendq
      <4>2. \A p \in rvq_used' : p \in rvq_used \/ p.origin = j.origin
        BY SMT, <4>1
      <4> QED
        BY <3>1, <4>1, <4>2 DEF Outstanding
    <3> QED
      BY <1>4, <3>2, <3>3 DEF Backend
  <2> QED
    BY <2>1, <2>2 DEF OwnInv, Waiting
<1>5. ASSUME RecvDone \/ RecvNext PROVE OwnInv'
  <2>1. /\ UNCHANGED <<st, rxbuf, done, alien, abandoned, svq, be>>
        /\ GetUsedBuf
    BY <1>5 DEF RecvDone, RecvNext, owner, sendq, history
  <2>2. irq' \in {"idle", "got"} /\ Outstanding' \subseteq Outstanding
    BY <2>1 DEF GetUsedBuf, Outstanding, InHandler
  <2> QED
    BY <2>1, <2>2 DEF OwnInv, Waiting
<1>6. ASSUME RecvLookup PROVE OwnInv'
  <2>1. /\ UNCHANGED <<st, rxbuf, done, alien, abandoned, svq, be, rvq_used>>
        /\ irq = "got"
        /\ \/ irq' = "found" /\ irsp' = irsp /\ imsg' = msgtable[irsp.msgid]
           \/ irq' = "idle"
    BY <1>6 DEF RecvLookup, owner, sendq, recvq, history
  <2>2. irsp \in Outstanding /\ Outstanding' \subseteq Outstanding
    BY <2>1 DEF Outstanding, InHandler
  <2>3. Waiting(irsp.origin)
    BY <2>1, <2>2 DEF OwnInv
  <2>4. irsp.origin = msgtable[irsp.msgid]
    BY <1>a, <2>2, <2>3 DEF AddrInv, Waiting
  <2> QED
    BY <2>1, <2>2, <2>4 DEF OwnInv, Waiting
<1>7. ASSUME RecvStore PROVE OwnInv'
  <2>1. /\ UNCHANGED <<st, done, svq, be, rvq_used, irsp, imsg, abandoned>>
        /\ irq = "found" /\ irq' = "stored"
    BY <1>7 DEF RecvStore, sendq, recvq
  <2>2. /\ irsp \in Outstanding /\ irsp.buf \in RxBufs
        /\ InHandler = {irsp} /\ InHandler' = {}
    BY <1>0, <2>1 DEF Outstanding, InHandler, Answers
  <2>3. irsp.origin = imsg /\ Waiting(imsg)
    BY <2>1, <2>2 DEF OwnInv
  <2>4. rxbuf' = [rxbuf EXCEPT ![imsg] = irsp.buf] /\ alien' = alien
    BY <1>7, <2>3 DEF RecvStore, StoreRxbuf, Touch, Waiting
  <2>5. /\ Outstanding' \subseteq Outstanding
        /\ \A q \in Outstanding' : q.origin # imsg
    BY <1>a, <2>1, <2>2, <2>3 DEF Outstanding, AddrInv, Waiting
  <2>6. \A n \in Msgs : n # imsg /\ Waiting(n) => Waiting(n)'
    BY <1>a, <2>1, <2>4 DEF Waiting
  <2>7. \A q \in Outstanding' : Waiting(q.origin)'
    BY <2>1, <2>5, <2>6 DEF OwnInv, Waiting
  <2>8. \A n \in Msgs \ {imsg} : rxbuf'[n] = rxbuf[n]
    BY <1>a, <2>4
  <2>9. rxbuf'[imsg] # NULL
    BY <1>a, <2>2, <2>3, <2>4 DEF Waiting
  <2> QED
    BY <1>a, <2>1, <2>3, <2>4, <2>5, <2>7, <2>8, <2>9 DEF OwnInv, Waiting
<1>8. ASSUME RecvSignal PROVE OwnInv'
  <2>1. /\ irsp.origin = imsg /\ st[imsg] = "sent" /\ rxbuf[imsg] # NULL
        /\ \A q \in Outstanding : q.origin # imsg
    BY <1>8 DEF RecvSignal, OwnInv
  <2>2. /\ UNCHANGED <<st, rxbuf, alien, abandoned, svq, be, rvq_used>>
        /\ done' = [done EXCEPT ![imsg] = TRUE]
        /\ irq = "stored" /\ irq' = "signalled"
    BY <1>8, <2>1 DEF RecvSignal, Touch, sendq, recvq
  <2>3. Outstanding' = Outstanding
    BY <2>2 DEF Outstanding, InHandler
  <2>4. \A q \in Outstanding' : Waiting(q.origin)'
    BY <1>a, <2>1, <2>2, <2>3 DEF OwnInv, Waiting
  <2> QED
    BY <1>a, <2>1, <2>2, <2>4 DEF OwnInv
<1>9. ASSUME UNCHANGED msgVars PROVE OwnInv'
  <2>1. /\ UNCHANGED <<st, rxbuf, done, irq, irsp, imsg, alien, abandoned>>
        /\ Outstanding' = Outstanding
    BY <1>9 DEF msgVars, owner, sendq, recvq, handler, history, Outstanding, InHandler
  <2> QED
    BY <2>1 DEF OwnInv, Waiting
<1>10. "cmd" \in AllKinds
  BY DEF AllKinds
<1> QED
  BY <1>10, <1>1, <1>2, <1>3, <1>4, <1>5, <1>6, <1>7, <1>8, <1>9
     DEF MsgNext, Client, Interrupt

\* At first no message has an answer.
LEMMA OwnInit == MsgInit => OwnInv
BY DEF MsgInit, OwnInv, Outstanding, InHandler

\* As long as no sent message is given up before its answer, a message is
\* completed only by the answer to its own request, with the rx buffer stored
\* before the completion; recv_single acts on waiting messages only.
THEOREM OwnAnswerHolds == MsgSpec => []OwnAnswer
<1>1. MsgInit => TableSound
  BY TableInit
<1>2. MsgSpec => [](TypeInv /\ TableSound /\ AddrInv /\ OwnInv)
  BY TypeInit, TypeStep, TableStep, AddrInit, AddrStep, OwnInit, OwnStep, <1>1,
     PTL DEF MsgSpec
<1>3. TypeInv /\ OwnInv => OwnAnswer
  BY DEF OwnInv, OwnAnswer, Waiting, Outstanding, InHandler
<1> QED
  BY <1>2, <1>3, PTL

-----------------------------------------------------------------------------
(***************************************************************************)
(* No rx buffer is lost.                                                   *)
(***************************************************************************)

\* Without a wrong length from the device, every answer has the right length.
LEMMA LenStep == TypeInv /\ LenOK /\ [MsgNext]_msgVars => LenOK'
<1> SUFFICES ASSUME TypeInv, LenOK, [MsgNext]_msgVars, "len" \notin Faults
             PROVE  LenOK'
  BY DEF LenOK
<1>a. rvq_used \subseteq Answers /\ (irq # "idle" => irsp \in Answers)
  BY DEF TypeInv, MsgTypeOK, PointersOK
<1>1. ASSUME NEW m \in Msgs, FreeMsg(m) PROVE LenOK'
  <2>1. \A q \in (rvq_used \cup InHandler)' : \E p \in rvq_used \cup InHandler :
            q = Orphan(p, m)
    BY <1>1 DEF FreeMsg, Disown, InHandler
  <2>2. \A p \in rvq_used \cup InHandler : Orphan(p, m).len_ok = p.len_ok
    BY SMT, <1>a, OrphanFields DEF InHandler
  <2> QED
    BY <2>1, <2>2 DEF LenOK
<1>2. ASSUME NEW w \in Workers, BackendAnswer(w) PROVE LenOK'
  BY SMT, <1>2 DEF BackendAnswer, handler, InHandler, LenOK
<1>3. ASSUME (rvq_used \cup InHandler)' \subseteq rvq_used \cup InHandler
      PROVE  LenOK'
  BY <1>3 DEF LenOK
<1>4. ASSUME NEW m \in Msgs, NEW k \in AllKinds,
             \/ AllocSlot(m, k) \/ GetTxBuf(m) \/ NoTxBuf(m) \/ TxbufSend(m)
             \/ GiveUpUnsent(m) \/ Collect(m) \/ RxbufSend(m)
      PROVE  LenOK'
  <2>1. UNCHANGED <<rvq_used, irq, irsp>>
    BY <1>4 DEF AllocSlot, GetTxBuf, NoTxBuf, TxbufSend, GiveUpUnsent, Collect,
                RxbufSend, recvq, handler
  <2> QED
    BY <1>3, <2>1 DEF InHandler
<1>5. ASSUME NEW w \in Workers, BackendFetch(w) PROVE LenOK'
  BY <1>3, <1>5 DEF BackendFetch, handler, InHandler
<1>6. ASSUME Interrupt \/ UNCHANGED msgVars PROVE LenOK'
  <2>1. (rvq_used \cup InHandler)' \subseteq rvq_used \cup InHandler
    BY <1>6
       DEF Interrupt, RecvDone, RecvLookup, RecvStore, RecvSignal, RecvNext, GetUsedBuf,
           msgVars, recvq, handler, InHandler
  <2> QED
    BY <1>3, <2>1
<1>7. "cmd" \in AllKinds
  BY DEF AllKinds
<1> QED
  BY <1>7, <1>1, <1>2, <1>4, <1>5, <1>6 DEF MsgNext, Client, Backend

\* Where RxConserved looks for an rx buffer.
Accounted(r) ==
    \/ r \in rvq_avail
    \/ \E q \in rvq_used \cup InHandler : q.buf = r
    \/ \E m \in Msgs : r \in Held(m)

RxKept ==
    ~abandoned /\ Faults \cap {"rx", "len"} = {} => \A r \in RxBufs : Accounted(r)

\* Every step leaves every rx buffer accounted for.
LEMMA RxKeptStep ==
    TypeInv /\ AddrInv /\ RxInv /\ OwnInv /\ LenOK /\ RxKept /\ [MsgNext]_msgVars
       => RxKept'
<1> SUFFICES ASSUME TypeInv, AddrInv, RxInv, OwnInv, LenOK, RxKept,
                    [MsgNext]_msgVars,
                    ~abandoned', Faults \cap {"rx", "len"} = {},
                    NEW r \in RxBufs
             PROVE  Accounted(r)'
  BY DEF RxKept
<1>a. /\ st \in [Msgs -> Stages]
      /\ rxbuf \in [Msgs -> Ptr(RxBufs)]
      /\ rsp \in [Msgs -> Ptr(RxBufs)]
      /\ rvq_used \subseteq Answers
      /\ irq # "idle" => irsp \in Answers
      /\ irq \in {"found", "stored", "signalled"} => imsg \in Msgs
      /\ \A m \in Msgs : st[m] = "reply" => rsp[m] \in RxBufs
      /\ NULL \notin Msgs /\ NULL \notin RxBufs
  BY ConstAssumption DEF TypeInv, MsgTypeOK, PointersOK
<1>0. ~abandoned /\ Accounted(r)
  <2>1. ~abandoned
    BY DEF MsgNext, Client, Backend, Interrupt, AllocSlot, GetTxBuf, NoTxBuf,
           TxbufSend, GiveUpUnsent, Collect, RxbufSend, FreeMsg, BackendFetch,
           BackendAnswer, RecvDone, RecvLookup, RecvStore, RecvSignal, RecvNext,
           msgVars, history
  <2> QED
    BY <2>1 DEF RxKept
<1>1. ASSUME UNCHANGED <<rvq_avail, rvq_used, irq, irsp>>,
             \A n \in Msgs : Held(n) \subseteq Held(n)'
      PROVE Accounted(r)'
  <2>1. InHandler' = InHandler
    BY <1>1 DEF InHandler
  <2> QED
    BY <1>0, <1>1, <2>1 DEF Accounted
<1>2. ASSUME NEW m \in Msgs, NEW k \in AllKinds,
             \/ AllocSlot(m, k) \/ GetTxBuf(m) \/ NoTxBuf(m) \/ TxbufSend(m)
             \/ GiveUpUnsent(m) \/ Collect(m)
      PROVE Accounted(r)'
  <2> DEFINE Frame == /\ UNCHANGED <<rxbuf, rvq_avail, rvq_used, irq, irsp>>
                      /\ \A n \in Msgs \ {m} : st'[n] = st[n] /\ rsp'[n] = rsp[n]
                      /\ Held(m) \subseteq Held(m)'
  <2>1. ASSUME AllocSlot(m, k) PROVE Frame
    BY <1>a, <2>1 DEF AllocSlot, recvq, handler, Held
  <2>2. ASSUME GetTxBuf(m) PROVE Frame
    BY <1>a, <2>2 DEF GetTxBuf, recvq, handler, Held
  <2>3. ASSUME NoTxBuf(m) PROVE Frame
    <3>1. rxbuf[m] = NULL
      BY <1>0, <2>3 DEF NoTxBuf, OwnInv
    <3> QED
      BY <1>a, <2>3, <3>1 DEF NoTxBuf, recvq, handler, Held
  <2>4. ASSUME TxbufSend(m) PROVE Frame
    BY <1>a, <2>4 DEF TxbufSend, recvq, handler, Held
  <2>5. ASSUME GiveUpUnsent(m) PROVE Frame
    <3>1. rxbuf[m] = NULL
      BY <1>0, <2>5 DEF GiveUpUnsent, OwnInv
    <3> QED
      BY <1>a, <2>5, <3>1 DEF GiveUpUnsent, ReadRxbuf, recvq, handler, Held
  <2>6. ASSUME Collect(m) PROVE Frame
    BY <1>a, <2>6 DEF Collect, ReadRxbuf, recvq, handler, Held
  <2>7. Frame
    BY <1>2, <2>1, <2>2, <2>3, <2>4, <2>5, <2>6
  <2>8. \A n \in Msgs : Held(n) \subseteq Held(n)'
    BY <2>7 DEF Held
  <2> QED
    BY <1>1, <2>7, <2>8
<1>3. ASSUME NEW m \in Msgs, RxbufSend(m) PROVE Accounted(r)'
  <2>1. /\ UNCHANGED <<rvq_used, irq, irsp>>
        /\ rvq_avail' = rvq_avail \cup {rsp[m]}
        /\ st[m] = "reply"
        /\ rxbuf' = rxbuf
        /\ \A n \in Msgs \ {m} : st'[n] = st[n] /\ rsp'[n] = rsp[n]
    BY <1>a, <1>3 DEF RxbufSend, AddInbuf, handler
  <2>2. Held(m) \subseteq {rsp[m]} /\ \A n \in Msgs \ {m} : Held(n)' = Held(n)
    BY <2>1 DEF Held
  <2>3. InHandler' = InHandler
    BY <2>1 DEF InHandler
  <2> QED
    BY <1>0, <2>1, <2>2, <2>3 DEF Accounted
<1>4. ASSUME NEW m \in Msgs, FreeMsg(m) PROVE Accounted(r)'
  <2>1. \A p \in rvq_used \cup InHandler : \E q \in (rvq_used \cup InHandler)' :
            q.buf = p.buf
    <3>1. \A p \in rvq_used \cup InHandler : Orphan(p, m).buf = p.buf
      BY SMT, <1>a, OrphanFields DEF InHandler
    <3>2. \A p \in rvq_used \cup InHandler :
            Orphan(p, m) \in (rvq_used \cup InHandler)'
      BY <1>4 DEF FreeMsg, Disown, InHandler
    <3> QED
      BY <3>1, <3>2
  <2>2. UNCHANGED rvq_avail /\ \A n \in Msgs : Held(n) \subseteq Held(n)'
    BY <1>a, <1>4 DEF FreeMsg, Held
  <2> QED
    BY <1>0, <2>1, <2>2 DEF Accounted
<1>5. ASSUME NEW w \in Workers, BackendFetch(w) PROVE Accounted(r)'
  <2>1. UNCHANGED <<rvq_avail, rvq_used, irq, irsp, st, rxbuf, rsp>>
    BY <1>5 DEF BackendFetch, owner, handler
  <2>2. \A n \in Msgs : Held(n)' = Held(n)
    BY <2>1 DEF Held
  <2> QED
    BY <1>1, <2>1, <2>2
<1>6. ASSUME NEW w \in Workers, BackendAnswer(w) PROVE Accounted(r)'
  <2>1. InHandler' = InHandler /\ \A n \in Msgs : Held(n)' = Held(n)
    BY <1>6 DEF BackendAnswer, owner, handler, InHandler, Held
  <2>2. PICK j \in be, x \in rvq_avail, ok \in BOOLEAN :
            /\ rvq_avail' = rvq_avail \ {x}
            /\ rvq_used' = rvq_used \cup
                 {[buf |-> x, msgid |-> j.msgid, origin |-> j.origin, len_ok |-> ok]}
    BY <1>6 DEF BackendAnswer
  <2>3. CASE r = x
    <3> DEFINE a == [buf |-> x, msgid |-> j.msgid, origin |-> j.origin, len_ok |-> ok]
    <3>1. a \in rvq_used' /\ a.buf = r
      BY <2>2, <2>3
    <3> HIDE DEF a
    <3> QED
      BY <3>1 DEF Accounted
  <2>4. CASE r # x
    <3>1. CASE r \in rvq_avail
      BY <2>2, <2>4, <3>1 DEF Accounted
    <3>2. CASE \E q \in rvq_used \cup InHandler : q.buf = r
      <4>1. PICK q \in rvq_used \cup InHandler : q.buf = r
        BY <3>2
      <4>2. q \in (rvq_used \cup InHandler)'
        BY <2>1, <2>2
      <4> QED
        BY <4>1, <4>2 DEF Accounted
    <3>3. CASE \E n \in Msgs : r \in Held(n)
      BY <2>1, <3>3 DEF Accounted
    <3> QED
      BY <1>0, <3>1, <3>2, <3>3 DEF Accounted
  <2> QED
    BY <2>3, <2>4
<1>7. ASSUME RecvDone \/ RecvNext PROVE Accounted(r)'
  <2>1. /\ UNCHANGED rvq_avail
        /\ \A n \in Msgs : Held(n)' = Held(n)
        /\ rvq_used \cup InHandler \subseteq (rvq_used \cup InHandler)'
    BY <1>7 DEF RecvDone, RecvNext, GetUsedBuf, owner, InHandler, Held
  <2> QED
    BY <1>0, <2>1 DEF Accounted
<1>8. ASSUME RecvLookup PROVE Accounted(r)'
  <2>1. irsp \in InHandler /\ irsp \in Outstanding
    BY <1>8 DEF RecvLookup, InHandler, Outstanding
  <2>2. irsp.len_ok /\ msgtable[irsp.msgid] # NULL
    <3>1. irsp.len_ok
      BY <2>1 DEF LenOK
    <3>2. irsp.origin \in Msgs
      BY <1>0, <2>1 DEF OwnInv, Waiting
    <3>3. msgtable[irsp.msgid] = irsp.origin
      BY <1>a, <2>1, <3>2 DEF AddrInv
    <3> QED
      BY <1>a, <3>1, <3>2, <3>3
  <2>3. /\ UNCHANGED <<rvq_avail, rvq_used>>
        /\ InHandler' = InHandler
        /\ \A n \in Msgs : Held(n)' = Held(n)
    BY <1>8, <2>2 DEF RecvLookup, owner, recvq, InHandler, Held
  <2> QED
    BY <1>0, <2>3 DEF Accounted
<1>9. ASSUME RecvStore PROVE Accounted(r)'
  <2>1. /\ InHandler = {irsp}
        /\ UNCHANGED <<rvq_avail, rvq_used, st, imsg, rsp>>
        /\ imsg \in Msgs
        /\ irsp.buf \in RxBufs
    BY <1>a, <1>9 DEF RecvStore, recvq, InHandler, Answers
  <2>2. st[imsg] = "sent" /\ rxbuf[imsg] = NULL
    BY <1>0, <1>9, <2>1 DEF RecvStore, OwnInv, Waiting, Outstanding
  <2>3. /\ rxbuf' = [rxbuf EXCEPT ![imsg] = irsp.buf]
        /\ irsp.buf \in Held(imsg)'
        /\ Held(imsg) = {}
        /\ \A n \in Msgs \ {imsg} : Held(n)' = Held(n)
    BY <1>a, <1>9, <2>1, <2>2 DEF RecvStore, StoreRxbuf, Held
  <2> QED
    BY <1>0, <2>1, <2>3 DEF Accounted
<1>10. ASSUME RecvSignal \/ UNCHANGED msgVars PROVE Accounted(r)'
  <2>1. UNCHANGED <<st, rxbuf, rsp, rvq_avail, rvq_used>> /\ InHandler' = InHandler
    BY <1>10 DEF RecvSignal, msgVars, owner, recvq, handler, InHandler
  <2> QED
    BY <1>0, <2>1 DEF Accounted, Held
<1>11. "cmd" \in AllKinds
  BY DEF AllKinds
<1> QED
  BY <1>11, <1>2, <1>3, <1>4, <1>5, <1>6, <1>7, <1>8, <1>9, <1>10
     DEF MsgNext, Client, Backend, Interrupt

\* At first every rx buffer is accounted for.
LEMMA RxKeptInit == MsgInit => LenOK /\ RxKept
BY DEF MsgInit, LenOK, RxKept, Accounted, InHandler

\* Every rx buffer the driver queued at probe is queued, filled or with an owner
\* who is going to hand it back, as long as no message is abandoned and neither
\* the queue nor the back end fails.
THEOREM RxIsConserved == MsgSpec => []RxConserved
<1>1. MsgInit => TableSound
  BY TableInit
<1>2. MsgSpec => [](/\ TypeInv /\ TableSound /\ AddrInv /\ RxInv /\ OwnInv
                    /\ LenOK /\ RxKept)
  BY TypeInit, TypeStep, TableStep, AddrInit, AddrStep, RxInit, RxStep, OwnInit,
     OwnStep, LenStep, RxKeptInit, RxKeptStep, <1>1, PTL DEF MsgSpec
<1>3. TypeInv /\ RxKept => RxConserved
  <2> SUFFICES ASSUME TypeInv, RxKept, ~abandoned, Faults \cap {"rx", "len"} = {}
               PROVE  RxBufs = rvq_avail \cup Bufs(rvq_used \cup InHandler)
                                 \cup UNION {Held(m) : m \in Msgs}
    BY DEF RxConserved
  <2>1. \A m \in Msgs : Held(m) \subseteq RxBufs
    BY DEF TypeInv, MsgTypeOK, Ptr, Held
  <2>2. rvq_avail \subseteq RxBufs /\ Bufs(rvq_used \cup InHandler) \subseteq RxBufs
    BY SMT DEF TypeInv, MsgTypeOK, PointersOK, InHandler, Bufs, Answers
  <2>3. \A r \in RxBufs : Accounted(r)
    BY DEF RxKept
  <2> QED
    BY <2>1, <2>2, <2>3 DEF Accounted, Bufs
<1> QED
  BY <1>2, <1>3, PTL

-----------------------------------------------------------------------------
(***************************************************************************)
(* The message layer implements RemoteCall.                                *)
(***************************************************************************)

\* The step of one call, in terms of the message layer.
PhaseStep(m) ==
    \/ Phase(m) = "idle" /\ Phase(m)' = "called" /\ abandoned' = abandoned
    \/ Phase(m) = "called" /\ Phase(m)' = "executed" /\ abandoned' = abandoned
    \/ Phase(m) = "executed" /\ Phase(m)' = "returned" /\ (abandoned => abandoned')
    \/ /\ Phase(m) \in {"called", "failed"} /\ Phase(m)' = "returned"
       /\ abandoned /\ abandoned'
    \/ Phase(m) = "called" /\ Phase(m)' = "failed" /\ (abandoned => abandoned')
    \/ Phase(m) = "executed" /\ Phase(m)' = "failed" /\ abandoned'
    \/ /\ Phase(m) \in {"returned", "failed"} /\ Phase(m)' = "idle"
       /\ abandoned' = abandoned

Same(S) == \A n \in S : Phase(n)' = Phase(n)

\* One call moves and the others stay: a step of RemoteCall.
LEMMA OneMoves ==
    ASSUME NEW m \in Msgs, PhaseStep(m), Same(Msgs \ {m})
    PROVE  Promise!CallNext
<1> DEFINE ph == [n \in Msgs |-> Phase(n)]
<1>1. ASSUME NEW v, Phase(m)' = v PROVE ph' = [ph EXCEPT ![m] = v]
  BY <1>1, Zenon DEF Same
<1>2. ph[m] = Phase(m)
  OBVIOUS
<1> HIDE DEF ph
<1> QED
  BY <1>1, <1>2
     DEF PhaseStep, Promise!CallNext, Promise!Call, Promise!Execute, Promise!Return,
         Promise!Fail, Promise!GiveUp, Promise!Forget, Promise!Move, ph

\* No call moves: a stuttering step of RemoteCall.
LEMMA NoneMoves ==
    ASSUME Same(Msgs), UNCHANGED abandoned
    PROVE  UNCHANGED <<[m \in Msgs |-> Phase(m)], abandoned>>
BY Zenon DEF Same

\* The phase of a message depends on its stage, its rx buffer and its request.
LEMMA PhaseFrame ==
    ASSUME NEW S \in SUBSET Msgs,
           \A n \in S : /\ st'[n] = st[n]
                        /\ rxbuf'[n] = rxbuf[n]
                        /\ Unfetched(n)' <=> Unfetched(n)
    PROVE  Same(S)
BY DEF Same, Phase

\* Every step of the messages is a step of RemoteCall, or a stuttering one.
LEMMA CallStep ==
    TypeInv /\ AddrInv /\ OwnInv /\ [MsgNext]_msgVars
        => [Promise!CallNext]_<<[m \in Msgs |-> Phase(m)], abandoned>>
<1> SUFFICES ASSUME TypeInv, AddrInv, OwnInv, [MsgNext]_msgVars
             PROVE  \/ Same(Msgs) /\ UNCHANGED abandoned
                    \/ \E m \in Msgs : PhaseStep(m) /\ Same(Msgs \ {m})
  BY OneMoves, NoneMoves
<1>0. /\ \A q \in svq : q \in Requests
      /\ st \in [Msgs -> Stages]
      /\ rxbuf \in [Msgs -> Ptr(RxBufs)]
      /\ rsp \in [Msgs -> Ptr(RxBufs)]
      /\ done \in [Msgs -> BOOLEAN]
      /\ abandoned \in BOOLEAN
      /\ irq # "idle" => irsp \in Answers
      /\ irq \in {"found", "stored", "signalled"} => imsg \in Msgs
      /\ NULL \notin Msgs /\ NULL \notin RxBufs
  BY ConstAssumption DEF TypeInv, MsgTypeOK, PointersOK
<1>1. ASSUME NEW m \in Msgs, NEW k \in AllKinds, AllocSlot(m, k)
      PROVE  PhaseStep(m) /\ Same(Msgs \ {m})
  <2>1. Same(Msgs \ {m})
    BY <1>0, <1>1, PhaseFrame DEF AllocSlot, Unfetched, sendq
  <2>2. Phase(m) = "idle" /\ Phase(m)' = "called" /\ abandoned' = abandoned
    BY <1>0, <1>1 DEF AllocSlot, Phase, history
  <2> QED
    BY <2>1, <2>2 DEF PhaseStep
<1>2. ASSUME NEW m \in Msgs, GetTxBuf(m) PROVE Same(Msgs) /\ UNCHANGED abandoned
  <2>1. Same(Msgs \ {m})
    BY <1>0, <1>2, PhaseFrame DEF GetTxBuf, Unfetched
  <2>2. Phase(m) = "called" /\ Phase(m)' = "called" /\ abandoned' = abandoned
    BY <1>0, <1>2 DEF GetTxBuf, Phase, history
  <2> QED
    BY <2>1, <2>2 DEF Same
<1>3. ASSUME NEW m \in Msgs, NoTxBuf(m) PROVE PhaseStep(m) /\ Same(Msgs \ {m})
  <2>1. Same(Msgs \ {m})
    BY <1>0, <1>3, PhaseFrame DEF NoTxBuf, Unfetched, sendq
  <2>2. Phase(m) = "called" /\ Phase(m)' = "failed" /\ abandoned' = abandoned
    BY <1>0, <1>3 DEF NoTxBuf, Phase, history
  <2> QED
    BY <2>1, <2>2 DEF PhaseStep
<1>4. ASSUME NEW m \in Msgs, TxbufSend(m) PROVE Same(Msgs) /\ UNCHANGED abandoned
  <2>1. Request(m).origin = m /\ svq' = svq \cup {Request(m)}
    BY <1>4 DEF TxbufSend, Request
  <2>2. Same(Msgs \ {m})
    BY <1>0, <1>4, <2>1, PhaseFrame DEF TxbufSend, Unfetched
  <2>3. Unfetched(m)'
    BY <2>1 DEF Unfetched
  <2>4. Phase(m) = "called" /\ Phase(m)' = "called" /\ abandoned' = abandoned
    BY <1>0, <1>4, <2>3 DEF TxbufSend, Phase, history
  <2> QED
    BY <2>2, <2>4 DEF Same
<1>5. ASSUME NEW m \in Msgs, GiveUpUnsent(m) PROVE PhaseStep(m) /\ Same(Msgs \ {m})
  <2>1. Same(Msgs \ {m})
    BY <1>0, <1>5, PhaseFrame DEF GiveUpUnsent, ReadRxbuf, Unfetched, sendq
  <2>2. Phase(m) = "called" /\ abandoned' = abandoned
    BY <1>0, <1>5 DEF GiveUpUnsent, Phase, history
  <2>3. Phase(m)' = IF rxbuf[m] = NULL THEN "failed" ELSE "returned"
    BY <1>0, <1>5 DEF GiveUpUnsent, ReadRxbuf, Phase
  <2>4. rxbuf[m] # NULL => abandoned
    BY <1>5 DEF GiveUpUnsent, OwnInv
  <2> QED
    BY <1>0, <2>1, <2>2, <2>3, <2>4 DEF PhaseStep
<1>6. ASSUME NEW m \in Msgs, Collect(m) PROVE PhaseStep(m) /\ Same(Msgs \ {m})
  <2>1. Same(Msgs \ {m})
    BY <1>0, <1>6, PhaseFrame DEF Collect, ReadRxbuf, Unfetched, sendq
  <2>2. /\ st[m] = "sent"
        /\ Phase(m) = IF Unfetched(m) THEN "called" ELSE "executed"
        /\ abandoned' = (abandoned \/ ~done[m])
    BY <1>0, <1>6 DEF Collect, Phase
  <2>3. Phase(m)' = IF rxbuf[m] = NULL THEN "failed" ELSE "returned"
    BY <1>0, <1>6 DEF Collect, ReadRxbuf, Phase
  <2>4. ~abandoned /\ Unfetched(m) => ~done[m] /\ rxbuf[m] = NULL
    BY DEF Unfetched, OwnInv, Outstanding, Waiting
  <2>5. ~abandoned /\ rxbuf[m] = NULL => ~done[m]
    BY <1>0, <2>2 DEF OwnInv
  <2> QED
    BY <1>0, <2>1, <2>2, <2>3, <2>4, <2>5 DEF PhaseStep
<1>7. ASSUME NEW m \in Msgs, RxbufSend(m) PROVE Same(Msgs) /\ UNCHANGED abandoned
  <2>1. Same(Msgs \ {m})
    BY <1>0, <1>7, PhaseFrame DEF RxbufSend, Unfetched, sendq
  <2>2. Phase(m)' = Phase(m) /\ abandoned' = abandoned
    BY <1>0, <1>7 DEF RxbufSend, Phase, history
  <2> QED
    BY <2>1, <2>2 DEF Same
<1>8. ASSUME NEW m \in Msgs, FreeMsg(m) PROVE PhaseStep(m) /\ Same(Msgs \ {m})
  <2>1. svq' = {Orphan(q, m) : q \in svq}
    BY <1>8 DEF FreeMsg, Disown
  <2>2. ASSUME NEW n \in Msgs \ {m} PROVE Unfetched(n)' <=> Unfetched(n)
    BY SMT, <1>0, <2>1, OrphanFields DEF Unfetched
  <2>3. Same(Msgs \ {m})
    BY <1>0, <1>8, <2>2, PhaseFrame DEF FreeMsg
  <2>4. Phase(m) \in {"returned", "failed"}
    BY <1>0, <1>8 DEF FreeMsg, Phase
  <2>5. Phase(m)' = "idle" /\ abandoned' = abandoned
    BY <1>0, <1>8 DEF FreeMsg, Phase, history
  <2> QED
    BY <2>3, <2>4, <2>5 DEF PhaseStep
<1>9. ASSUME NEW w \in Workers, BackendFetch(w)
      PROVE  \/ Same(Msgs) /\ UNCHANGED abandoned
             \/ \E m \in Msgs : PhaseStep(m) /\ Same(Msgs \ {m})
  <2>1. /\ st' = st /\ rxbuf' = rxbuf /\ abandoned' = abandoned
    BY <1>9 DEF BackendFetch, owner, history
  <2>2. PICK q \in svq : svq' = svq \ {q}
    BY <1>9 DEF BackendFetch
  <2>3. ASSUME NEW n \in Msgs, n # q.origin PROVE Unfetched(n)' <=> Unfetched(n)
    BY <2>2, <2>3 DEF Unfetched
  <2>4. CASE q.origin = NULL
    BY <1>0, <2>1, <2>3, <2>4, PhaseFrame
  <2>5. CASE q.origin # NULL
    <3> DEFINE m == q.origin
    <3>1. m \in Msgs
      BY <1>0, <2>5 DEF Requests, Ptr
    <3>2. Same(Msgs \ {m})
      BY <2>1, <2>3, PhaseFrame
    <3>3. Unfetched(m) /\ ~Unfetched(m)'
      BY <2>2, <2>5 DEF Unfetched, AddrInv, OnePerOrigin
    <3>4. st[m] \in {"sent", "reply", "drop"}
      BY <2>5 DEF AddrInv, Outstanding
    <3>5. CASE st[m] = "sent"
      <4>1. Phase(m) = "called" /\ Phase(m)' = "executed"
        BY <2>1, <3>3, <3>5 DEF Phase
      <4> QED
        BY <2>1, <3>1, <3>2, <4>1 DEF PhaseStep
    <3>6. CASE st[m] # "sent"
      <4>1. Phase(m)' = Phase(m)
        BY <2>1, <3>4, <3>6 DEF Phase
      <4> QED
        BY <2>1, <3>2, <4>1 DEF Same
    <3> QED
      BY <3>5, <3>6
  <2> QED
    BY <2>4, <2>5
<1>10. ASSUME NEW w \in Workers, BackendAnswer(w) PROVE Same(Msgs) /\ UNCHANGED abandoned
  <2>1. UNCHANGED <<st, rxbuf, svq, abandoned>>
    BY <1>10 DEF BackendAnswer, owner, sendq, history
  <2> QED
    BY <2>1, PhaseFrame DEF Unfetched
<1>11. ASSUME RecvDone \/ RecvLookup \/ RecvSignal \/ RecvNext
       PROVE  Same(Msgs) /\ UNCHANGED abandoned
  <2>1. UNCHANGED <<st, rxbuf, svq, abandoned>>
    BY <1>11 DEF RecvDone, RecvLookup, RecvSignal, RecvNext, owner, sendq, history
  <2> QED
    BY <2>1, PhaseFrame DEF Unfetched
<1>12. ASSUME RecvStore
       PROVE  \/ Same(Msgs) /\ UNCHANGED abandoned
              \/ \E m \in Msgs : PhaseStep(m) /\ Same(Msgs \ {m})
  <2>1. UNCHANGED <<st, svq, abandoned>> /\ irq = "found"
    BY <1>12 DEF RecvStore, sendq
  <2>2. irsp.buf \in RxBufs
    BY <1>0, <2>1 DEF Answers
  <2> PICK m \in Msgs : m = imsg
    BY <1>0, <2>1
  <2>3. Same(Msgs \ {m})
    BY <1>0, <1>12, <2>1, PhaseFrame DEF RecvStore, StoreRxbuf, Unfetched
  <2>4. CASE st[m] \in {"reply", "drop"} /\ rxbuf[m] = NULL
    <3>1. Phase(m) = "failed"
      BY <2>4 DEF Phase
    <3>2. Phase(m)' = "returned"
      BY <1>0, <1>12, <2>1, <2>2, <2>4 DEF RecvStore, StoreRxbuf, Phase
    <3>3. abandoned
      <4>1. ~abandoned => Waiting(m)
        BY <2>1 DEF OwnInv, Outstanding, InHandler
      <4> QED
        BY <1>0, <2>4, <4>1 DEF Waiting
    <3> QED
      BY <2>1, <2>2, <2>3, <3>1, <3>2, <3>3 DEF PhaseStep
  <2>5. CASE ~(st[m] \in {"reply", "drop"} /\ rxbuf[m] = NULL)
    <3>1. Unfetched(m)' <=> Unfetched(m)
      BY <2>1 DEF Unfetched
    <3>2. Phase(m)' = Phase(m)
      BY <1>0, <1>12, <2>1, <2>2, <2>5, <3>1
         DEF RecvStore, StoreRxbuf, Phase, Stages
    <3> QED
      BY <2>1, <2>3, <3>2 DEF Same
  <2> QED
    BY <2>4, <2>5
<1>13. CASE UNCHANGED msgVars
  <2>1. UNCHANGED <<st, rxbuf, svq, abandoned>>
    BY <1>13 DEF msgVars, owner, sendq, history
  <2> QED
    BY <2>1, PhaseFrame DEF Unfetched
<1> QED
  BY <1>1, <1>2, <1>3, <1>4, <1>5, <1>6, <1>7, <1>8, <1>9, <1>10, <1>11, <1>12, <1>13
     DEF MsgNext, Client, Backend, Interrupt

\* At first no call is under way.
LEMMA CallInitHolds == MsgInit => Promise!CallInit
BY DEF MsgInit, Promise!CallInit, Phase

\* The message layer keeps the promise of RemoteCall, for any number of
\* messages, buffers and workers, and whatever faults occur: a call is
\* executed at most once, and so on.
THEOREM MsgImplementsCall == MsgSpec => CallSpec
<1>1. MsgInit => TableSound
  BY TableInit
<1>2. MsgSpec => [](TypeInv /\ TableSound /\ AddrInv /\ OwnInv)
  BY TypeInit, TypeStep, TableStep, AddrInit, AddrStep, OwnInit, OwnStep, <1>1,
     PTL DEF MsgSpec
<1> QED
  BY <1>2, CallInitHolds, CallStep, PTL DEF MsgSpec, CallSpec, Promise!CallSpec

=============================================================================
