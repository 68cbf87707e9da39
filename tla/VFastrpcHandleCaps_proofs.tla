--------------------- MODULE VFastrpcHandleCaps_proofs ----------------------
(***************************************************************************)
(* The capabilities: what a cache without a lock still promises, for every *)
(* number of threads and domains.                                          *)
(*                                                                         *)
(* And the references of the maps of DMA handles: a handle stays mapped    *)
(* while the DSP has it, and a reference that nobody answers for is one    *)
(* the code loses, for any number of invokes, fds and handles.             *)
(*                                                                         *)
(* The two components have no state in common; they share this module and  *)
(* no more.                                                                *)
(***************************************************************************)
EXTENDS VFastrpcCaps, VFastrpcHandle, FiniteSetTheorems, TLAPS

\* Most leaves are first-order; the ones that need more say so.
USE ZenonT(120)

-----------------------------------------------------------------------------
(***************************************************************************)
(* The capabilities.                                                       *)
(***************************************************************************)

\* t has filled channel d and not yet marked it; At(t, d, P) if it is at one of
\* the points P of that.
At(t, d, P) == dom[t] = d /\ pc[t] \in P

\* The override is made, or the thread that undid it will make it again.
Overridden(d) ==
    caps[d].async \/ \E t \in Threads : At(t, d, {"unsigned", "set", "async"})

\* What a channel has once it is filled, overridden and marked.
ChannelInv(d) ==
    /\ is_cached[d] => caps[d].of # NULL
    /\ \A t \in Threads : t \in Filling(d) => caps[d].of # NULL
    /\ is_cached[d] => Overridden(d)
    /\ \A t \in Threads : At(t, d, {"copy", "cached"}) => Overridden(d)

\* As long as no file of another domain fills it.
OwnInv(d) ==
    d \notin foreign =>
        /\ caps[d].of \in {NULL, d}
        /\ \A t \in Threads : At(t, d, {"set"}) => val[t] = dsp[d]
        /\ is_cached[d] => unsigned[d] = dsp[d]
        /\ \A t \in Threads :
               At(t, d, {"async", "copy", "cached"}) => unsigned[d] = dsp[d]

\* As long as it is filled once.
OnceInv(d) ==
    d \notin refilled =>
        /\ is_cached[d] => Filling(d) = {}
        /\ \A t, u \in Filling(d) : t = u

AnswerInv(t) ==
    /\ pc[t] = "read" => is_cached[dom[t]]
    /\ res[t] # NULL => \/ res[t].of = dom[t]
                        \/ dom[t] \in foreign /\ res[t].of # NULL
    /\ res[t] # NULL => res[t].async \/ dom[t] \in refilled

CapsInv ==
    /\ CapsTypeOK
    /\ \A d \in Domains : ChannelInv(d) /\ OwnInv(d) /\ OnceInv(d)
    /\ \A t \in Threads : AnswerInv(t)

\* Before the first query CapsInv holds.
LEMMA CapsInvInit == CapsInit => CapsInv
<1> SUFFICES ASSUME CapsInit PROVE CapsInv
  OBVIOUS
<1>1. CapsTypeOK
  BY SMT, CapsAssumption DEF CapsInit, CapsTypeOK, Attributes
<1>2. ASSUME NEW d \in Domains PROVE ChannelInv(d) /\ OwnInv(d) /\ OnceInv(d)
  BY <1>2 DEF CapsInit, ChannelInv, OwnInv, OnceInv, At, Filling, Overridden
<1>3. ASSUME NEW t \in Threads PROVE AnswerInv(t)
  BY <1>3 DEF CapsInit, AnswerInv
<1> QED
  BY <1>1, <1>2, <1>3 DEF CapsInv

\* Every step of a thread in vfastrpc_get_dsp_info keeps the types.
LEMMA CapsTypeStep ==
    ASSUME CapsInv, NEW t \in Threads,
           \/ \E d \in Domains : Ask(t, d)
           \/ Query(t) \/ QueryFails(t) \/ ReadUnsigned(t) \/ SetUnsigned(t)
           \/ SetAsync(t) \/ CopyOut(t) \/ SetCached(t) \/ ReadCached(t)
    PROVE  CapsTypeOK'
<1>0. CapsTypeOK /\ (pc[t] # "idle" => dom[t] \in Domains)
  BY DEF CapsInv, CapsTypeOK
<1>1. ASSUME NEW d \in Domains, Ask(t, d) PROVE CapsTypeOK'
  BY SMT, <1>0, <1>1, CapsAssumption DEF CapsTypeOK, Ask, Go, shared, hist
<1>2. CASE Query(t)
  BY <1>0, <1>2 DEF CapsTypeOK, Query, Queried, Go, Attributes
<1>3. CASE QueryFails(t) \/ SetCached(t)
  BY <1>0, <1>3 DEF CapsTypeOK, QueryFails, SetCached, Go, shared, hist
<1>4. CASE ReadUnsigned(t)
  <2>1. caps[dom[t]].of # NULL
    BY <1>0, <1>4 DEF CapsInv, CapsTypeOK, ChannelInv, Filling, ReadUnsigned, Go
  <2>2. dsp[caps[dom[t]].of] \in BOOLEAN
    BY <1>0, <1>4, <2>1 DEF CapsTypeOK, Attributes, ReadUnsigned, Go
  <2> QED
    BY <1>0, <1>4, <2>2 DEF CapsTypeOK, ReadUnsigned, Go, shared, hist
<1>5. CASE SetUnsigned(t)
  BY <1>0, <1>5 DEF CapsTypeOK, SetUnsigned, Go, hist
<1>6. CASE SetAsync(t)
  <2>1. /\ caps \in [Domains -> Attributes] /\ dom[t] \in Domains
        /\ caps' = [caps EXCEPT ![dom[t]].async = TRUE]
    BY <1>0, <1>6 DEF CapsTypeOK, SetAsync, Go
  <2>2. ASSUME NEW a \in Attributes PROVE [a EXCEPT !.async = TRUE] \in Attributes
    BY DEF Attributes
  <2>3. caps' \in [Domains -> Attributes]
    BY <2>1, <2>2
  <2> QED
    BY <1>0, <1>6, <2>3 DEF CapsTypeOK, SetAsync, Go, hist
<1>7. CASE CopyOut(t) \/ ReadCached(t)
  BY <1>0, <1>7 DEF CapsTypeOK, CopyOut, ReadCached, Go, shared, hist
<1> QED
  BY <1>1, <1>2, <1>3, <1>4, <1>5, <1>6, <1>7

\* Channels.
LEMMA ChannelStep ==
    ASSUME CapsInv, NEW t \in Threads, NEW d \in Domains,
           \/ \E e \in Domains : Ask(t, e)
           \/ Query(t) \/ QueryFails(t) \/ ReadUnsigned(t) \/ SetUnsigned(t)
           \/ SetAsync(t) \/ CopyOut(t) \/ SetCached(t) \/ ReadCached(t)
    PROVE  ChannelInv(d)' /\ OwnInv(d)' /\ OnceInv(d)'
<1>0. /\ CapsTypeOK /\ (pc[t] # "idle" => dom[t] \in Domains)
      /\ ChannelInv(d) /\ OwnInv(d) /\ OnceInv(d)
  BY DEF CapsInv, CapsTypeOK
<1> DEFINE Goal == ChannelInv(d)' /\ OwnInv(d)' /\ OnceInv(d)'
<1>1. ASSUME NEW e \in Domains, Ask(t, e) PROVE Goal
  <2>1. ChannelInv(d)'
    BY <1>0, <1>1 DEF CapsTypeOK, Ask, Go, shared, hist, ChannelInv, At,
      Filling, Overridden
  <2>2. OwnInv(d)'
    BY <1>0, <1>1 DEF CapsTypeOK, Ask, Go, shared, hist, ChannelInv, OwnInv, At,
      Filling
  <2>3. OnceInv(d)'
    BY SMT, <1>0, <1>1 DEF CapsTypeOK, Ask, Go, shared, hist, OnceInv, Filling
  <2> QED
    BY <2>1, <2>2, <2>3
<1>2. CASE Query(t)
  <2>1. ChannelInv(d)'
    BY <1>0, <1>2, CapsAssumption DEF CapsTypeOK, Query, Queried, Go,
      Attributes, ChannelInv, At, Filling, Overridden
  <2>2. OwnInv(d)'
    BY <1>0, <1>2, CapsAssumption DEF CapsTypeOK, Query, Queried, Go,
      Attributes, ChannelInv, OwnInv, At, Filling
  <2>3. OnceInv(d)'
    BY SMT, <1>0, <1>2, CapsAssumption DEF CapsTypeOK, Query, Queried, Go,
      Attributes, OnceInv, Filling
  <2> QED
    BY <2>1, <2>2, <2>3
<1>3. CASE QueryFails(t)
  <2>1. ChannelInv(d)'
    BY <1>0, <1>3 DEF CapsTypeOK, QueryFails, Go, shared, hist, ChannelInv, At,
      Filling, Overridden
  <2>2. OwnInv(d)'
    BY <1>0, <1>3 DEF CapsTypeOK, QueryFails, Go, shared, hist, ChannelInv,
      OwnInv, At, Filling
  <2>3. OnceInv(d)'
    BY <1>0, <1>3 DEF CapsTypeOK, QueryFails, Go, shared, hist, OnceInv, Filling
  <2> QED
    BY <2>1, <2>2, <2>3
<1>4. CASE ReadUnsigned(t)
  <2>1. ChannelInv(d)'
    BY <1>0, <1>4 DEF CapsTypeOK, ReadUnsigned, Go, shared, hist, ChannelInv,
      At, Filling, Overridden
  <2>2. OwnInv(d)'
    BY <1>0, <1>4 DEF CapsTypeOK, ReadUnsigned, Go, shared, hist, ChannelInv,
      OwnInv, At, Filling
  <2>3. OnceInv(d)'
    BY SMT, <1>0, <1>4 DEF CapsTypeOK, ReadUnsigned, Go, shared, hist, OnceInv,
      Filling
  <2> QED
    BY <2>1, <2>2, <2>3
<1>5. CASE SetUnsigned(t)
  <2>1. ChannelInv(d)'
    BY <1>0, <1>5 DEF CapsTypeOK, SetUnsigned, Go, hist, ChannelInv, At,
      Filling, Overridden
  <2>2. OwnInv(d)'
    BY <1>0, <1>5 DEF CapsTypeOK, SetUnsigned, Go, hist, ChannelInv, OwnInv, At,
      Filling
  <2>3. OnceInv(d)'
    BY SMTT(30), <1>0, <1>5 DEF CapsTypeOK, SetUnsigned, Go, hist, OnceInv, Filling
  <2> QED
    BY <2>1, <2>2, <2>3
<1>6. CASE SetAsync(t)
  <2>1. ChannelInv(d)'
    BY SMT, <1>0, <1>6 DEF CapsTypeOK, SetAsync, Go, hist, Attributes, ChannelInv,
      At, Filling, Overridden
  <2>2. OwnInv(d)'
    BY <1>0, <1>6 DEF CapsTypeOK, SetAsync, Go, hist, Attributes, ChannelInv,
      OwnInv, At, Filling
  <2>3. OnceInv(d)'
    BY SMT, <1>0, <1>6 DEF CapsTypeOK, SetAsync, Go, hist, Attributes, OnceInv,
      Filling
  <2> QED
    BY <2>1, <2>2, <2>3
<1>7. CASE CopyOut(t)
  <2>1. ChannelInv(d)'
    BY <1>0, <1>7 DEF CapsTypeOK, CopyOut, Go, shared, hist, ChannelInv, At,
      Filling, Overridden
  <2>2. OwnInv(d)'
    BY <1>0, <1>7 DEF CapsTypeOK, CopyOut, Go, shared, hist, ChannelInv, OwnInv,
      At, Filling
  <2>3. OnceInv(d)'
    BY SMT, <1>0, <1>7 DEF CapsTypeOK, CopyOut, Go, shared, hist, OnceInv, Filling
  <2> QED
    BY <2>1, <2>2, <2>3
<1>8. CASE SetCached(t)
  <2>1. ChannelInv(d)'
    BY <1>0, <1>8 DEF CapsTypeOK, SetCached, Go, hist, ChannelInv, At, Filling,
      Overridden
  <2>2. OwnInv(d)'
    BY <1>0, <1>8 DEF CapsTypeOK, SetCached, Go, hist, ChannelInv, OwnInv, At,
      Filling
  <2>3. OnceInv(d)'
    BY SMTT(30), <1>0, <1>8 DEF CapsTypeOK, SetCached, Go, hist, OnceInv, Filling
  <2> QED
    BY <2>1, <2>2, <2>3
<1>9. CASE ReadCached(t)
  <2>1. ChannelInv(d)'
    BY <1>0, <1>9 DEF CapsTypeOK, ReadCached, Go, shared, hist, ChannelInv, At,
      Filling, Overridden
  <2>2. OwnInv(d)'
    BY <1>0, <1>9 DEF CapsTypeOK, ReadCached, Go, shared, hist, ChannelInv,
      OwnInv, At, Filling
  <2>3. OnceInv(d)'
    BY <1>0, <1>9 DEF CapsTypeOK, ReadCached, Go, shared, hist, OnceInv, Filling
  <2> QED
    BY <2>1, <2>2, <2>3
<1> QED
  BY <1>1, <1>2, <1>3, <1>4, <1>5, <1>6, <1>7, <1>8, <1>9

\* What t finds in the channel when it copies an attribute for its caller.
LEMMA ChannelGood ==
    ASSUME CapsInv, NEW t \in Threads, pc[t] \in {"copy", "read"}
    PROVE  LET d == dom[t]
           IN  /\ d \in Domains
               /\ caps[d] \in Attributes
               /\ caps[d].of # NULL
               /\ caps[d].of = d \/ d \in foreign
               /\ caps[d].async \/ d \in refilled
<1> DEFINE d == dom[t]
<1>0. d \in Domains /\ caps[d] \in Attributes
  BY DEF CapsInv, CapsTypeOK
<1>1. ChannelInv(d) /\ OwnInv(d) /\ OnceInv(d) /\ AnswerInv(t)
  BY <1>0 DEF CapsInv
<1>2. CASE pc[t] = "copy"
  <2>1. t \in Filling(d) /\ At(t, d, {"copy", "cached"})
    BY <1>2 DEF Filling, At
  <2>2. caps[d].of # NULL /\ (caps[d].of = d \/ d \in foreign)
    BY <1>0, <1>1, <2>1 DEF ChannelInv, OwnInv
  <2>3. ASSUME NEW u \in Threads, At(u, d, {"unsigned", "set", "async"})
        PROVE  d \in refilled
    BY <1>1, <1>2, <2>1, <2>3 DEF OnceInv, Filling, At
  <2> QED
    BY <1>0, <1>1, <2>1, <2>2, <2>3 DEF ChannelInv, Overridden
<1>3. CASE pc[t] = "read"
  <2>1. is_cached[d]
    BY <1>1, <1>3 DEF AnswerInv
  <2>2. caps[d].of # NULL /\ (caps[d].of = d \/ d \in foreign)
    BY <1>0, <1>1, <2>1 DEF ChannelInv, OwnInv
  <2>3. ASSUME NEW u \in Threads, At(u, d, {"unsigned", "set", "async"})
        PROVE  d \in refilled
    BY <1>1, <2>1, <2>3 DEF OnceInv, Filling, At
  <2> QED
    BY <1>0, <1>1, <2>1, <2>2, <2>3 DEF ChannelInv, Overridden
<1> QED
  BY <1>2, <1>3

\* A step of thread t keeps what thread u is going to answer.
LEMMA AnswerStep ==
    ASSUME CapsInv, NEW t \in Threads, NEW u \in Threads,
           \/ \E d \in Domains : Ask(t, d)
           \/ Query(t) \/ QueryFails(t) \/ ReadUnsigned(t) \/ SetUnsigned(t)
           \/ SetAsync(t) \/ CopyOut(t) \/ SetCached(t) \/ ReadCached(t)
    PROVE  AnswerInv(u)'
<1>0. CapsTypeOK /\ AnswerInv(u)
  BY DEF CapsInv
<1>1. ASSUME NEW d \in Domains, Ask(t, d) PROVE AnswerInv(u)'
  BY <1>0, <1>1 DEF CapsTypeOK, Ask, Go, shared, hist, AnswerInv
<1>2. CASE Query(t)
  BY <1>0, <1>2 DEF CapsTypeOK, Query, Go, AnswerInv
<1>3. CASE QueryFails(t) \/ ReadUnsigned(t)
  BY <1>0, <1>3
  DEF CapsTypeOK, QueryFails, ReadUnsigned, Go, shared, hist, AnswerInv
<1>4. CASE SetUnsigned(t) \/ SetAsync(t)
  BY <1>0, <1>4 DEF CapsTypeOK, SetUnsigned, SetAsync, Go, hist, AnswerInv
<1>5. CASE SetCached(t)
  BY <1>0, <1>5 DEF CapsTypeOK, SetCached, Go, hist, AnswerInv
<1>6. CASE CopyOut(t) \/ ReadCached(t)
  <2>1. pc[t] \in {"copy", "read"}
    BY <1>6 DEF CopyOut, ReadCached, Go
  <2>2. /\ UNCHANGED <<dom, is_cached, foreign, refilled>>
        /\ res' = [res EXCEPT ![t] = caps[dom[t]]]
    BY <1>6 DEF CopyOut, ReadCached, shared, hist
  <2>3. pc'[u] = "read" => pc[u] = "read"
    BY <1>0, <1>6 DEF CapsTypeOK, CopyOut, ReadCached, Go
  <2>4. CASE u = t
    <3>1. res'[t] = caps[dom[t]]
      BY <1>0, <2>2 DEF CapsTypeOK
    <3> QED
      BY <1>0, <2>1, <2>2, <2>3, <2>4, <3>1, ChannelGood DEF AnswerInv
  <2>5. CASE u # t
    <3>1. res'[u] = res[u]
      BY <1>0, <2>2, <2>5 DEF CapsTypeOK
    <3> QED
      BY <1>0, <2>2, <2>3, <3>1 DEF AnswerInv
  <2> QED
    BY <2>4, <2>5
<1> QED
  BY <1>1, <1>2, <1>3, <1>4, <1>5, <1>6

\* Every step of vfastrpc_get_dsp_info keeps CapsInv.
LEMMA CapsInvStep == CapsInv /\ [CapsNext]_capsVars => CapsInv'
<1>1. CASE CapsInv /\ CapsNext
  <2>1. PICK t \in Threads :
          \/ \E d \in Domains : Ask(t, d)
          \/ Query(t) \/ QueryFails(t) \/ ReadUnsigned(t) \/ SetUnsigned(t)
          \/ SetAsync(t) \/ CopyOut(t) \/ SetCached(t) \/ ReadCached(t)
    BY <1>1 DEF CapsNext
  <2>2. CapsTypeOK'
    BY <1>1, <2>1, CapsTypeStep
  <2>3. \A d \in Domains : ChannelInv(d)' /\ OwnInv(d)' /\ OnceInv(d)'
    BY <1>1, <2>1, ChannelStep
  <2>4. \A u \in Threads : AnswerInv(u)'
    BY <1>1, <2>1, AnswerStep
  <2> QED
    BY <2>2, <2>3, <2>4 DEF CapsInv
<1>2. CASE CapsInv /\ UNCHANGED capsVars
  <2>1. UNCHANGED <<dsp, own, caps, is_cached, unsigned, pc, dom, val, res, foreign,
                    refilled, asks>>
    BY <1>2 DEF capsVars, shared, hist
  <2>2. CapsTypeOK'
    BY <1>2, <2>1 DEF CapsInv, CapsTypeOK
  <2>3. ASSUME NEW d \in Domains PROVE ChannelInv(d)' /\ OwnInv(d)' /\ OnceInv(d)'
    <3>1. ChannelInv(d)'
      BY <1>2, <2>1 DEF CapsInv, ChannelInv, Overridden, At, Filling
    <3>2. OwnInv(d)'
      BY <1>2, <2>1 DEF CapsInv, OwnInv, At
    <3>3. OnceInv(d)'
      BY SMT, <1>2, <2>1 DEF CapsInv, OnceInv, Filling
    <3> QED
      BY <3>1, <3>2, <3>3
  <2>4. \A t \in Threads : AnswerInv(t)'
    BY <1>2, <2>1 DEF CapsInv, AnswerInv
  <2> QED
    BY <2>2, <2>3, <2>4 DEF CapsInv
<1> QED
  BY <1>1, <1>2

\* CapsInv holds in every state.
LEMMA CapsInvHolds == CapsSpec => []CapsInv
BY CapsInvInit, CapsInvStep, PTL DEF CapsSpec

\* Callers are given attributes of the right DSP, with the override, but for the
\* two cases the property names.
THEOREM AnswersAreGood == CapsSpec => []AnswerGood
<1>1. CapsInv => AnswerGood
  BY DEF CapsInv, AnswerInv, AnswerGood
<1> QED
  BY <1>1, CapsInvHolds, PTL

\* The last thread to fill a channel leaves it as one thread alone would.
THEOREM CacheDoesSettle == CapsSpec => []CacheSettles
<1>1. CapsInv => CacheSettles
  BY SMT DEF CapsInv, ChannelInv, OwnInv, Overridden, At, Filling, CacheSettles
<1> QED
  BY <1>1, CapsInvHolds, PTL

-----------------------------------------------------------------------------
(***************************************************************************)
(* DMA handles: what holds of every state.                                 *)
(***************************************************************************)

\* An invoke has handles while it is not sent, and a list while it is answered.
InvokeInv(c) ==
    /\ ctx[c] # "args" => held[c] = <<>>
    /\ ctx[c] # "answered" => answer[c] = <<>>
    /\ file # "open" => ctx[c] \in {"idle", "sent", "answered"}
    /\ file \in {"maps", "closed"} => ctx[c] = "idle"

\* A map m of which due references are due.
Backed(d, due, m) ==
    /\ file # "closed" => due <= m.refs
    /\ file = "open" /\ d \notin lost => due = m.refs
    /\ file = "closed" => m.refs = 0

FileInv ==
    /\ file = "open" => ~orphaned
    /\ file # "open" /\ ~orphaned => \A d \in Fds : uses[d] = 0

HandleInv ==
    /\ HandleTypeOK
    /\ \A c \in Ctxs : InvokeInv(c)
    /\ \A d \in Fds : map[d].refs = map[d].ctx_refs
    /\ \A d \in Fds : Backed(d, Due(d), map[d])
    /\ FileInv

-----------------------------------------------------------------------------
(***************************************************************************)
(* Counting.                                                               *)
(***************************************************************************)

\* How often d is among the first n of list.
Among(list, n, d) == Cardinality({k \in 1 .. n : list[k] = d})

\* A list of fds is a sequence.
LEMMA ListIsSeq ==
    ASSUME NEW n \in Int, NEW list \in FdLists(n)
    PROVE  list \in Seq(Fds) /\ Len(list) \in 0 .. n /\ list \in [1 .. Len(list) -> Fds]
<1>1. PICK m \in 0 .. n : list \in [1 .. m -> Fds]
  BY DEF FdLists
<1>2. list \in Seq(Fds) /\ Len(list) = m
  BY SMT, <1>1
<1> QED
  BY <1>1, <1>2

\* No list is too short.
LEMMA EmptyIsList ==
    ASSUME NEW n \in Nat
    PROVE  <<>> \in FdLists(n)
<1>1. <<>> \in [1 .. 0 -> Fds] /\ 0 \in 0 .. n
  BY SMT
<1> QED
  BY <1>1 DEF FdLists

\* The count over the first n entries is a number, and grows by one where the
\* next entry is d.
LEMMA AmongGrows ==
    ASSUME NEW list, NEW n \in Nat, NEW d
    PROVE  /\ Among(list, n, d) \in Nat
           /\ Among(list, 0, d) = 0
           /\ n > 0 => Among(list, n, d) =
                 Among(list, n - 1, d) + IF list[n] = d THEN 1 ELSE 0
<1>1. ASSUME NEW m \in Nat
      PROVE  /\ IsFiniteSet({k \in 1 .. m : list[k] = d})
             /\ Among(list, m, d) \in Nat
  <2>1. IsFiniteSet(1 .. m)
    BY SMT, FS_Interval
  <2>2. IsFiniteSet({k \in 1 .. m : list[k] = d})
    BY <2>1, FS_Subset
  <2> QED
    BY <2>2, FS_CardinalityType DEF Among
<1>2. Among(list, 0, d) = 0
  <2>1. {k \in 1 .. 0 : list[k] = d} = {}
    BY SMT
  <2> QED
    BY <2>1, FS_EmptySet DEF Among
<1>3. ASSUME n > 0, list[n] = d
      PROVE  Among(list, n, d) = Among(list, n - 1, d) + 1
  <2> DEFINE S == {k \in 1 .. n - 1 : list[k] = d}
  <2>1. {k \in 1 .. n : list[k] = d} = S \cup {n} /\ n \notin S
    BY SMT, <1>3
  <2>2. IsFiniteSet(S)
    BY SMT, <1>1, <1>3, n - 1 \in Nat
  <2> QED
    BY <2>1, <2>2, FS_AddElement DEF Among
<1>4. ASSUME n > 0, list[n] # d
      PROVE  Among(list, n, d) = Among(list, n - 1, d)
  <2>1. {k \in 1 .. n : list[k] = d} = {k \in 1 .. n - 1 : list[k] = d}
    BY SMT, <1>4
  <2> QED
    BY <2>1 DEF Among
<1>5. n > 0 => Among(list, n - 1, d) \in Nat
  <2>1. n > 0 => n - 1 \in Nat
    BY SMT
  <2> QED
    BY <1>1, <2>1
<1> QED
  BY SMT, <1>1, <1>2, <1>3, <1>4, <1>5

\* Times counts to the end of the list.
LEMMA TimesIs ==
    ASSUME NEW list, NEW d
    PROVE  Times(list, d) = Among(list, Len(list), d)
BY DEF Times, Among

PlacesOf(c, list, d) == {c} \X {k \in 1 .. Len(list) : list[k] = d}

\* The places of an invoke are as many as its list has entries for d.
LEMMA PlacesOfCount ==
    ASSUME NEW c, NEW list, NEW d, Len(list) \in Nat
    PROVE  /\ IsFiniteSet(PlacesOf(c, list, d))
           /\ Cardinality(PlacesOf(c, list, d)) = Times(list, d)
           /\ Times(list, d) \in Nat
<1> DEFINE S == {k \in 1 .. Len(list) : list[k] = d}
<1>1. IsFiniteSet(S)
  <2>1. IsFiniteSet(1 .. Len(list))
    BY SMT, FS_Interval
  <2> QED
    BY <2>1, FS_Subset
<1>2. Times(list, d) = Cardinality(S) /\ Cardinality(S) \in Nat
  BY <1>1, FS_CardinalityType DEF Times
<1>3. IsFiniteSet({c}) /\ Cardinality({c}) = 1
  BY FS_Singleton
<1> HIDE DEF S
<1>4. IsFiniteSet({c} \X S) /\ Cardinality({c} \X S) = Cardinality({c}) * Cardinality(S)
  BY <1>1, <1>3, FS_Product
<1>5. PlacesOf(c, list, d) = {c} \X S
  BY DEF PlacesOf, S
<1> QED
  BY SMT, <1>2, <1>3, <1>4, <1>5

Others(lists, c, d) == UNION {PlacesOf(b, lists[b], d) : b \in Ctxs \ {c}}

\* What the invokes other than c have.
LEMMA PlacesSplit ==
    ASSUME NEW lists, NEW c \in Ctxs, NEW d
    PROVE  /\ Places(lists, d) = Others(lists, c, d) \cup PlacesOf(c, lists[c], d)
           /\ Others(lists, c, d) \cap PlacesOf(c, lists[c], d) = {}
<1>1. Places(lists, d) = UNION {PlacesOf(b, lists[b], d) : b \in Ctxs}
  BY DEF Places, PlacesOf
<1>2. Places(lists, d) = Others(lists, c, d) \cup PlacesOf(c, lists[c], d)
  BY <1>1 DEF Others
<1>3. ASSUME NEW u \in Others(lists, c, d), u \in PlacesOf(c, lists[c], d) PROVE FALSE
  <2>1. PICK b \in Ctxs \ {c} : u \in PlacesOf(b, lists[b], d)
    BY DEF Others
  <2> QED
    BY <1>3, <2>1 DEF PlacesOf
<1> QED
  BY <1>2, <1>3

Bounded(lists) ==
    /\ lists = [c \in Ctxs |-> lists[c]]
    /\ \E n \in Nat : \A c \in Ctxs : Len(lists[c]) \in 0 .. n

\* There are finitely many places.
LEMMA PlacesFinite ==
    ASSUME NEW lists, Bounded(lists), NEW d
    PROVE  IsFiniteSet(Places(lists, d)) /\ Cardinality(Places(lists, d)) \in Nat
<1>1. PICK n \in Nat : \A c \in Ctxs : Len(lists[c]) \in 0 .. n
  BY DEF Bounded
<1>2. IsFiniteSet(1 .. n)
  BY SMT, FS_Interval
<1>3. IsFiniteSet(Ctxs \X (1 .. n))
  BY <1>2, HandleAssumption, FS_Product
<1>4. Places(lists, d) \in SUBSET (Ctxs \X (1 .. n))
  BY SMT, <1>1 DEF Places
<1>5. IsFiniteSet(Places(lists, d))
  BY <1>3, <1>4, FS_Subset
<1> QED
  BY <1>5, FS_CardinalityType

Replaced(lists, new, c, list) == new = [lists EXCEPT ![c] = list]

\* The count of d goes from that of lists to that of new.
Recounted(lists, new, c, list, d) ==
    /\ Cardinality(Places(new, d)) \in Nat
    /\ Cardinality(Places(lists, d)) \in Nat
    /\ Cardinality(Places(new, d)) + Times(lists[c], d)
       = Cardinality(Places(lists, d)) + Times(list, d)

\* A list that changes takes its entries out of the count and puts those of the
\* new one in.
LEMMA PlacesChange ==
    ASSUME NEW lists, Bounded(lists), NEW c \in Ctxs,
           NEW list, Len(list) \in Nat, NEW new, Replaced(lists, new, c, list), NEW d
    PROVE  Recounted(lists, new, c, list, d)
<1> DEFINE O == Others(lists, c, d)
           P == PlacesOf(c, lists[c], d)
           Q == PlacesOf(c, list, d)
<1>1. Len(lists[c]) \in Nat
  BY SMT DEF Bounded
<1>2. new[c] = list /\ \A b \in Ctxs \ {c} : new[b] = lists[b]
  BY DEF Bounded, Replaced
<1>3. Others(new, c, d) = O
  BY <1>2 DEF Others
<1>4. /\ Places(lists, d) = O \cup P /\ O \cap P = {}
      /\ Places(new, d) = O \cup Q /\ O \cap Q = {}
  BY <1>2, <1>3, PlacesSplit
<1>5. /\ IsFiniteSet(P) /\ Cardinality(P) = Times(lists[c], d) /\ Times(lists[c], d) \in Nat
      /\ IsFiniteSet(Q) /\ Cardinality(Q) = Times(list, d) /\ Times(list, d) \in Nat
  BY <1>1, PlacesOfCount
<1>6. IsFiniteSet(O) /\ Cardinality(O) \in Nat
  <2>1. O \in SUBSET Places(lists, d)
    BY <1>4
  <2>2. IsFiniteSet(O)
    BY <2>1, PlacesFinite, FS_Subset
  <2> QED
    BY <2>2, FS_CardinalityType
<1>7. Cardinality({}) = 0
  BY FS_EmptySet
<1> HIDE DEF O, P, Q
<1>8. Cardinality(Places(lists, d)) = Cardinality(O) + Cardinality(P) - 0
  <2>1. Cardinality(O \cup P) = Cardinality(O) + Cardinality(P) - Cardinality(O \cap P)
    BY <1>5, <1>6, FS_Union
  <2> QED
    BY <1>4, <1>7, <2>1
<1>9. Cardinality(Places(new, d)) = Cardinality(O) + Cardinality(Q) - 0
  <2>1. Cardinality(O \cup Q) = Cardinality(O) + Cardinality(Q) - Cardinality(O \cap Q)
    BY <1>5, <1>6, FS_Union
  <2> QED
    BY <1>4, <1>7, <2>1
<1> QED
  BY SMT, <1>5, <1>6, <1>8, <1>9 DEF Recounted

-----------------------------------------------------------------------------
(***************************************************************************)
(* The loops over the handles of an invoke and over the fdlist.            *)
(***************************************************************************)

Counters == [Fds -> [refs: Nat, ctx_refs: Nat]]

Pair(r, s) == [refs |-> r, ctx_refs |-> s]

Less(a, b) == IF a > b THEN a - b ELSE 0

\* The counters stay naturals when they grow.
LEMMA SumIsNat ==
    ASSUME NEW a \in Nat, NEW b \in Nat PROVE a + b \in Nat
BY SMT

\* Taking b and then one off is taking b + 1 off.
LEMMA LessTwice ==
    ASSUME NEW a \in Nat, NEW b \in Nat PROVE Less(Less(a, b), 1) = Less(a, b + 1)
BY SMT DEF Less

\* The maps after n rounds of either loop.
Taken(M, hs, n) ==
    [d \in Fds |-> Pair(M[d].refs + Among(hs, n, d), M[d].ctx_refs + Among(hs, n, d))]

Dropped(M, hs, n) ==
    [d \in Fds |-> Pair(Less(M[d].refs, Among(hs, n, d)), Less(M[d].ctx_refs, Among(hs, n, d)))]

\* What a round does to the counters of each map.
LEMMA RoundIs ==
    ASSUME NEW M \in Counters, NEW d \in Fds
    PROVE  /\ Take(M, d) = [e \in Fds |-> IF e = d THEN Pair(M[e].refs + 1, M[e].ctx_refs + 1)
                                          ELSE M[e]]
           /\ Put(M, d) = [e \in Fds |-> IF e = d THEN Pair(Less(M[e].refs, 1), Less(M[e].ctx_refs, 1))
                                         ELSE M[e]]
<1>1. Take(M, d) = [M EXCEPT ![d] = Pair(M[d].refs + 1, M[d].ctx_refs + 1)]
  BY DEF Take, Pair, Counters
<1>2. Put(M, d) = [M EXCEPT ![d] = Pair(Less(M[d].refs, 1), Less(M[d].ctx_refs, 1))]
  <2>1. ASSUME NEW n \in Nat
        PROVE  Less(n, 1) = IF n > 0 THEN n - 1 ELSE 0
    BY SMT DEF Less
  <2>2. M[d].refs \in Nat /\ M[d].ctx_refs \in Nat
    BY DEF Counters
  <2> QED
    BY <2>1, <2>2 DEF Put, Pair
<1> QED
  BY <1>1, <1>2 DEF Counters

\* A round adds one entry of the list to what is taken.
LEMMA TakenGrows ==
    ASSUME NEW M \in Counters, NEW hs, NEW n \in Nat, n > 0, hs[n] \in Fds
    PROVE  Taken(M, hs, n) = Take(Taken(M, hs, n - 1), hs[n])
<1> DEFINE P == Taken(M, hs, n - 1)
<1>1. n - 1 \in Nat
  BY SMT
<1>2. ASSUME NEW d \in Fds
      PROVE  /\ M[d].refs \in Nat /\ M[d].ctx_refs \in Nat
             /\ Among(hs, n - 1, d) \in Nat
             /\ Among(hs, n, d) = Among(hs, n - 1, d) + IF hs[n] = d THEN 1 ELSE 0
             /\ P[d] = Pair(M[d].refs + Among(hs, n - 1, d), M[d].ctx_refs + Among(hs, n - 1, d))
  BY SMT, <1>1, AmongGrows DEF Taken, Counters
<1>3. P \in Counters
  BY SMT, <1>2 DEF Taken, Counters, Pair
<1>4. ASSUME NEW d \in Fds
      PROVE  Pair(M[d].refs + Among(hs, n, d), M[d].ctx_refs + Among(hs, n, d))
             = IF d = hs[n] THEN Pair(P[d].refs + 1, P[d].ctx_refs + 1) ELSE P[d]
  <2> HIDE DEF P
  <2>0. P[d] = Pair(M[d].refs + Among(hs, n - 1, d), M[d].ctx_refs + Among(hs, n - 1, d))
    BY <1>2
  <2>1. P[d].refs = M[d].refs + Among(hs, n - 1, d)
        /\ P[d].ctx_refs = M[d].ctx_refs + Among(hs, n - 1, d)
    BY SMT, <2>0 DEF Pair
  <2>2. CASE d = hs[n]
    <3>1. /\ M[d].refs + Among(hs, n, d) = P[d].refs + 1
          /\ M[d].ctx_refs + Among(hs, n, d) = P[d].ctx_refs + 1
      BY SMT, <1>2, <2>1, <2>2
    <3> QED
      BY <2>2, <3>1
  <2>3. CASE d # hs[n]
    <3>1. Among(hs, n, d) = Among(hs, n - 1, d)
      BY SMT, <1>2, <2>3
    <3> QED
      BY <1>2, <2>3, <3>1
  <2> QED
    BY <2>2, <2>3
<1> HIDE DEF P
<1>5. Take(P, hs[n]) = [d \in Fds |-> IF d = hs[n] THEN Pair(P[d].refs + 1, P[d].ctx_refs + 1)
                                      ELSE P[d]]
  BY <1>3, RoundIs
<1> QED
  BY <1>4, <1>5 DEF Taken, P

\* A round takes one entry of the list from what is left.
LEMMA DroppedGrows ==
    ASSUME NEW M \in Counters, NEW hs, NEW n \in Nat, n > 0, hs[n] \in Fds
    PROVE  Dropped(M, hs, n) = Put(Dropped(M, hs, n - 1), hs[n])
<1> DEFINE P == Dropped(M, hs, n - 1)
<1>1. n - 1 \in Nat
  BY SMT
<1>2. ASSUME NEW d \in Fds
      PROVE  /\ M[d].refs \in Nat /\ M[d].ctx_refs \in Nat
             /\ Among(hs, n - 1, d) \in Nat
             /\ Among(hs, n, d) = Among(hs, n - 1, d) + IF hs[n] = d THEN 1 ELSE 0
             /\ P[d] = Pair(Less(M[d].refs, Among(hs, n - 1, d)),
                            Less(M[d].ctx_refs, Among(hs, n - 1, d)))
  BY SMT, <1>1, AmongGrows DEF Dropped, Counters
<1>3. ASSUME NEW a \in Nat, NEW b \in Nat
      PROVE  Less(a, b) \in Nat
  BY SMT DEF Less
<1>4. P \in Counters
  BY <1>2, <1>3 DEF Dropped, Counters, Pair
<1>5. ASSUME NEW d \in Fds
      PROVE  Pair(Less(M[d].refs, Among(hs, n, d)), Less(M[d].ctx_refs, Among(hs, n, d)))
             = IF d = hs[n] THEN Pair(Less(P[d].refs, 1), Less(P[d].ctx_refs, 1)) ELSE P[d]
  <2> HIDE DEF P
  <2>0. /\ P[d] = Pair(Less(M[d].refs, Among(hs, n - 1, d)),
                       Less(M[d].ctx_refs, Among(hs, n - 1, d)))
        /\ M[d].refs \in Nat /\ M[d].ctx_refs \in Nat /\ Among(hs, n - 1, d) \in Nat
    BY <1>2
  <2>1. P[d].refs = Less(M[d].refs, Among(hs, n - 1, d))
        /\ P[d].ctx_refs = Less(M[d].ctx_refs, Among(hs, n - 1, d))
    BY SMT, <2>0 DEF Pair
  <2>2. CASE d = hs[n]
    <3>1. Among(hs, n, d) = Among(hs, n - 1, d) + 1
      BY <1>2, <2>2
    <3> QED
      <4>1. Less(P[d].refs, 1) = Less(M[d].refs, Among(hs, n, d))
        BY <2>0, <2>1, <3>1, LessTwice
      <4>2. Less(P[d].ctx_refs, 1) = Less(M[d].ctx_refs, Among(hs, n, d))
        BY <2>0, <2>1, <3>1, LessTwice
      <4> QED
        BY <2>2, <4>1, <4>2
  <2>3. CASE d # hs[n]
    <3>1. Among(hs, n, d) = Among(hs, n - 1, d)
      BY SMT, <1>2, <2>3
    <3> QED
      BY <1>2, <2>3, <3>1
  <2> QED
    BY <2>2, <2>3
<1> HIDE DEF P
<1>6. Put(P, hs[n]) = [d \in Fds |-> IF d = hs[n] THEN Pair(Less(P[d].refs, 1), Less(P[d].ctx_refs, 1))
                                     ELSE P[d]]
  BY <1>4, RoundIs
<1> QED
  BY <1>5, <1>6 DEF Dropped, P

\* A set of natural numbers has a least one.
LEMMA LeastNatural ==
    ASSUME NEW T \in SUBSET Nat, T # {}
    PROVE  \E x \in T : \A y \in T : x <= y
<1> DEFINE R == {s \in Nat \X Nat : s[1] < s[2]}
<1>1. IsWellFoundedOn(R, Nat)
  BY NatLessThanWellFounded DEF OpToRel
<1>2. PICK x \in T : \A y \in T : <<y, x>> \notin R
  <2> HIDE DEF R
  <2> QED
    BY <1>1, WFMin
<1>3. ASSUME NEW y \in T, y < x PROVE FALSE
  <2>1. <<y, x>> \in R
    BY <1>3
  <2> QED
    BY <1>2, <2>1
<1>4. ASSUME NEW y \in T PROVE x <= y
  BY SMT, <1>3
<1> QED
  BY <1>4

\* Before the first round nothing is taken or put back.
LEMMA NoRounds ==
    ASSUME NEW M \in Counters, NEW hs
    PROVE  Taken(M, hs, 0) = M /\ Dropped(M, hs, 0) = M
<1>1. ASSUME NEW d \in Fds
      PROVE  /\ Pair(M[d].refs + Among(hs, 0, d), M[d].ctx_refs + Among(hs, 0, d)) = M[d]
             /\ Pair(Less(M[d].refs, Among(hs, 0, d)), Less(M[d].ctx_refs, Among(hs, 0, d))) = M[d]
  <2>1. Among(hs, 0, d) = 0
    BY AmongGrows
  <2>2. /\ M[d] = Pair(M[d].refs, M[d].ctx_refs)
        /\ M[d].refs \in Nat /\ M[d].ctx_refs \in Nat
    BY DEF Counters, Pair
  <2>3. ASSUME NEW n \in Nat
        PROVE  n + 0 = n /\ Less(n, 0) = n
    BY SMT DEF Less
  <2> QED
    BY <2>1, <2>2, <2>3
<1>2. M = [d \in Fds |-> M[d]]
  BY DEF Counters
<1> QED
  BY <1>1, <1>2 DEF Taken, Dropped

TakeRounds(M, hs, f) ==
    [n \in 0 .. Len(hs) |-> IF n = 0 THEN M ELSE Take(f[n - 1], hs[n])]

PutRounds(M, hs, f) ==
    [n \in 0 .. Len(hs) |-> IF n = 0 THEN M ELSE Put(f[n - 1], hs[n])]

\* get_args takes one reference for each time an fd is among the handles.
LEMMA TakeAllIs ==
    ASSUME NEW M \in Counters, NEW hs \in Seq(Fds)
    PROVE  TakeAll(M, hs) = Taken(M, hs, Len(hs))
<1> DEFINE N == Len(hs)
           g == [n \in 0 .. N |-> Taken(M, hs, n)]
           f == CHOOSE h : h = TakeRounds(M, hs, h)
<1>1. N \in Nat /\ \A n \in 1 .. N : hs[n] \in Fds
  BY SMT
<1> HIDE DEF N
<1>2. ASSUME NEW n \in 0 .. N
      PROVE  g[n] = IF n = 0 THEN M ELSE Take(g[n - 1], hs[n])
  <2>1. CASE n = 0
    BY <2>1, NoRounds
  <2>2. CASE n > 0
    <3>1. g[n] = Taken(M, hs, n) /\ g[n - 1] = Taken(M, hs, n - 1) /\ n \in Nat /\ hs[n] \in Fds
      BY SMT, <1>1, <2>2
    <3>2. g[n] = Take(g[n - 1], hs[n])
      BY <2>2, <3>1, TakenGrows
    <3> QED
      BY SMT, <2>2, <3>2
  <2> QED
    BY SMT, <1>1, <2>1, <2>2
<1>3. f = TakeRounds(M, hs, f)
  <2>1. g = TakeRounds(M, hs, g)
    <3> HIDE DEF g
    <3>1. g = [n \in 0 .. N |-> g[n]]
      BY DEF g
    <3> QED
      BY <1>2, <3>1 DEF TakeRounds, N
  <2> HIDE DEF g, f
  <2> QED
    BY <2>1 DEF f
<1>4. TakeAll(M, hs) = f[N]
  BY DEF TakeAll, TakeRounds, N
<1> HIDE DEF f, g
<1>5. \A n \in 0 .. N : f[n] = IF n = 0 THEN M ELSE Take(f[n - 1], hs[n])
  BY <1>3 DEF TakeRounds, N
<1> DEFINE T == {n \in 0 .. N : f[n] # g[n]}
<1>6. SUFFICES ASSUME T # {} PROVE FALSE
  <2>1. N \in 0 .. N
    BY SMT, <1>1
  <2>2. g[N] = Taken(M, hs, N)
    BY <2>1 DEF g
  <2> QED
    BY <1>4, <2>1, <2>2 DEF N
<1>7. PICK x \in T : \A y \in T : x <= y
  <2>1. T \in SUBSET Nat
    BY SMT, <1>1
  <2> HIDE DEF T
  <2> QED
    BY <1>6, <2>1, LeastNatural
<1>8. x # 0
  BY <1>2, <1>5, <1>7
<1>9. x - 1 \in 0 .. N /\ x - 1 \notin T
  BY SMT, <1>1, <1>7, <1>8
<1>10. f[x - 1] = g[x - 1]
  BY <1>9
<1> QED
  BY <1>2, <1>5, <1>7, <1>8, <1>10

\* The loop that puts references back does so once for each time an fd is in the
\* list, as long as there are any.
LEMMA PutAllIs ==
    ASSUME NEW M \in Counters, NEW hs \in Seq(Fds)
    PROVE  PutAll(M, hs) = Dropped(M, hs, Len(hs))
<1> DEFINE N == Len(hs)
           g == [n \in 0 .. N |-> Dropped(M, hs, n)]
           f == CHOOSE h : h = PutRounds(M, hs, h)
<1>1. N \in Nat /\ \A n \in 1 .. N : hs[n] \in Fds
  BY SMT
<1> HIDE DEF N
<1>2. ASSUME NEW n \in 0 .. N
      PROVE  g[n] = IF n = 0 THEN M ELSE Put(g[n - 1], hs[n])
  <2>1. CASE n = 0
    BY <2>1, NoRounds
  <2>2. CASE n > 0
    <3>1. g[n] = Dropped(M, hs, n) /\ g[n - 1] = Dropped(M, hs, n - 1) /\ n \in Nat /\ hs[n] \in Fds
      BY SMT, <1>1, <2>2
    <3>2. g[n] = Put(g[n - 1], hs[n])
      BY <2>2, <3>1, DroppedGrows
    <3> QED
      BY SMT, <2>2, <3>2
  <2> QED
    BY SMT, <1>1, <2>1, <2>2
<1>3. f = PutRounds(M, hs, f)
  <2>1. g = PutRounds(M, hs, g)
    <3> HIDE DEF g
    <3>1. g = [n \in 0 .. N |-> g[n]]
      BY DEF g
    <3> QED
      BY <1>2, <3>1 DEF PutRounds, N
  <2> HIDE DEF g, f
  <2> QED
    BY <2>1 DEF f
<1>4. PutAll(M, hs) = f[N]
  BY DEF PutAll, PutRounds, N
<1> HIDE DEF f, g
<1>5. \A n \in 0 .. N : f[n] = IF n = 0 THEN M ELSE Put(f[n - 1], hs[n])
  BY <1>3 DEF PutRounds, N
<1> DEFINE T == {n \in 0 .. N : f[n] # g[n]}
<1>6. SUFFICES ASSUME T # {} PROVE FALSE
  <2>1. N \in 0 .. N
    BY SMT, <1>1
  <2>2. g[N] = Dropped(M, hs, N)
    BY <2>1 DEF g
  <2> QED
    BY <1>4, <2>1, <2>2 DEF N
<1>7. PICK x \in T : \A y \in T : x <= y
  <2>1. T \in SUBSET Nat
    BY SMT, <1>1
  <2> HIDE DEF T
  <2> QED
    BY <1>6, <2>1, LeastNatural
<1>8. x # 0
  BY <1>2, <1>5, <1>7
<1>9. x - 1 \in 0 .. N /\ x - 1 \notin T
  BY SMT, <1>1, <1>7, <1>8
<1>10. f[x - 1] = g[x - 1]
  BY <1>9
<1> QED
  BY <1>2, <1>5, <1>7, <1>8, <1>10

\* A map with two numbers.
LEMMA PairType ==
    ASSUME NEW r \in Nat, NEW t \in Nat
    PROVE  Pair(r, t) \in [refs: Nat, ctx_refs: Nat]
BY DEF Pair

\* What get_args takes when all goes well.
LEMMA TakeAllCounts ==
    ASSUME NEW M \in Counters, NEW hs \in Seq(Fds)
    PROVE  /\ TakeAll(M, hs) \in Counters
           /\ \A d \in Fds : /\ Times(hs, d) \in Nat
                             /\ TakeAll(M, hs)[d].refs = M[d].refs + Times(hs, d)
                             /\ TakeAll(M, hs)[d].ctx_refs = M[d].ctx_refs + Times(hs, d)
<1>1. TakeAll(M, hs) = Taken(M, hs, Len(hs)) /\ Len(hs) \in Nat
  BY SMT, TakeAllIs
<1>2. ASSUME NEW d \in Fds
      PROVE  /\ Times(hs, d) = Among(hs, Len(hs), d) /\ Times(hs, d) \in Nat
             /\ M[d].refs \in Nat /\ M[d].ctx_refs \in Nat
             /\ TakeAll(M, hs)[d] = Pair(M[d].refs + Times(hs, d), M[d].ctx_refs + Times(hs, d))
  BY <1>1, TimesIs, AmongGrows DEF Taken, Counters
<1>3. TakeAll(M, hs) \in Counters
  <2>1. TakeAll(M, hs) = [d \in Fds |-> TakeAll(M, hs)[d]]
    BY <1>1 DEF Taken
  <2>2. ASSUME NEW d \in Fds PROVE TakeAll(M, hs)[d] \in [refs: Nat, ctx_refs: Nat]
    <3>0. M[d].refs \in Nat /\ M[d].ctx_refs \in Nat /\ Times(hs, d) \in Nat
      BY <1>2
    <3>1. M[d].refs + Times(hs, d) \in Nat /\ M[d].ctx_refs + Times(hs, d) \in Nat
      BY <3>0, SumIsNat
    <3>2. Pair(M[d].refs + Times(hs, d), M[d].ctx_refs + Times(hs, d))
          \in [refs: Nat, ctx_refs: Nat]
      BY <3>1, PairType
    <3> QED
      BY <1>2, <3>2
  <2> QED
    BY <2>1, <2>2 DEF Counters
<1>4. ASSUME NEW d \in Fds
      PROVE  /\ TakeAll(M, hs)[d].refs = M[d].refs + Times(hs, d)
             /\ TakeAll(M, hs)[d].ctx_refs = M[d].ctx_refs + Times(hs, d)
  <2>1. TakeAll(M, hs)[d] = Pair(M[d].refs + Times(hs, d), M[d].ctx_refs + Times(hs, d))
    BY <1>2
  <2> QED
    BY SMT, <2>1 DEF Pair
<1> QED
  BY <1>2, <1>3, <1>4

\* What is put back when there is as much to put back.
LEMMA PutAllCounts ==
    ASSUME NEW M \in Counters, NEW hs \in Seq(Fds),
           \A d \in Fds : Times(hs, d) <= M[d].refs /\ Times(hs, d) <= M[d].ctx_refs
    PROVE  /\ PutAll(M, hs) \in Counters
           /\ \A d \in Fds : /\ PutAll(M, hs)[d].refs = M[d].refs - Times(hs, d)
                             /\ PutAll(M, hs)[d].ctx_refs = M[d].ctx_refs - Times(hs, d)
<1>1. PutAll(M, hs) = Dropped(M, hs, Len(hs)) /\ Len(hs) \in Nat
  BY SMT, PutAllIs
<1>2. ASSUME NEW d \in Fds
      PROVE  /\ Times(hs, d) = Among(hs, Len(hs), d) /\ Times(hs, d) \in Nat
             /\ M[d].refs \in Nat /\ M[d].ctx_refs \in Nat
  BY <1>1, TimesIs, AmongGrows DEF Counters
<1>3. ASSUME NEW a \in Nat, NEW b \in Nat, b <= a
      PROVE  Less(a, b) = a - b
  BY SMT, <1>3 DEF Less
<1>4. ASSUME NEW d \in Fds
      PROVE  PutAll(M, hs)[d] = Pair(M[d].refs - Times(hs, d), M[d].ctx_refs - Times(hs, d))
  <2>1. PutAll(M, hs)[d] = Pair(Less(M[d].refs, Times(hs, d)), Less(M[d].ctx_refs, Times(hs, d)))
    BY <1>1, <1>2 DEF Dropped
  <2>2. /\ Less(M[d].refs, Times(hs, d)) = M[d].refs - Times(hs, d)
        /\ Less(M[d].ctx_refs, Times(hs, d)) = M[d].ctx_refs - Times(hs, d)
    BY <1>2, <1>3
  <2> QED
    BY <2>1, <2>2
<1>5. ASSUME NEW d \in Fds
      PROVE  /\ PutAll(M, hs)[d].refs = M[d].refs - Times(hs, d)
             /\ PutAll(M, hs)[d].ctx_refs = M[d].ctx_refs - Times(hs, d)
             /\ PutAll(M, hs)[d] \in [refs: Nat, ctx_refs: Nat]
  <2>1. /\ M[d].refs - Times(hs, d) \in Nat
        /\ M[d].ctx_refs - Times(hs, d) \in Nat
    BY SMT, <1>2
  <2>2. PutAll(M, hs)[d] = Pair(M[d].refs - Times(hs, d), M[d].ctx_refs - Times(hs, d))
    BY <1>4
  <2>3. PutAll(M, hs)[d] \in [refs: Nat, ctx_refs: Nat]
    BY <2>1, <2>2, PairType
  <2> QED
    BY SMT, <2>2, <2>3 DEF Pair
<1>6. PutAll(M, hs) \in Counters
  <2>1. PutAll(M, hs) = [d \in Fds |-> PutAll(M, hs)[d]]
    BY <1>1 DEF Dropped
  <2> QED
    BY <1>5, <2>1 DEF Counters
<1> QED
  BY <1>5, <1>6

\* The error path of get_args gives back what it took.
LEMMA PutBack ==
    ASSUME NEW M \in Counters, NEW hs \in Seq(Fds)
    PROVE  PutAll(TakeAll(M, hs), hs) = M
<1> DEFINE P == TakeAll(M, hs)
           Q == PutAll(P, hs)
<1>1. /\ P \in Counters
      /\ \A d \in Fds : /\ Times(hs, d) \in Nat
                        /\ P[d].refs = M[d].refs + Times(hs, d)
                        /\ P[d].ctx_refs = M[d].ctx_refs + Times(hs, d)
  BY TakeAllCounts
<1>2. ASSUME NEW d \in Fds
      PROVE  M[d].refs \in Nat /\ M[d].ctx_refs \in Nat /\ M[d] = Pair(M[d].refs, M[d].ctx_refs)
  BY DEF Counters, Pair
<1> HIDE DEF P
<1>3. \A d \in Fds : Times(hs, d) <= P[d].refs /\ Times(hs, d) <= P[d].ctx_refs
  BY SMT, <1>1, <1>2
<1>4. /\ Q \in Counters
      /\ \A d \in Fds : /\ Q[d].refs = P[d].refs - Times(hs, d)
                        /\ Q[d].ctx_refs = P[d].ctx_refs - Times(hs, d)
  BY <1>1, <1>3, PutAllCounts
<1> HIDE DEF Q
<1>5. ASSUME NEW d \in Fds PROVE Q[d] = M[d]
  <2>1. Q[d].refs = M[d].refs /\ Q[d].ctx_refs = M[d].ctx_refs
    BY SMTT(30), <1>1, <1>2, <1>4
  <2>2. Q[d] = Pair(Q[d].refs, Q[d].ctx_refs)
    BY <1>4 DEF Counters, Pair
  <2> QED
    BY <1>2, <2>1, <2>2
<1>6. Q = [d \in Fds |-> Q[d]] /\ M = [d \in Fds |-> M[d]]
  BY <1>4 DEF Counters
<1>7. Q = M
  BY <1>5, <1>6
<1> QED
  BY <1>7 DEF P, Q

\* A set of numbers up to n has a greatest one.
LEMMA MaxIsIn ==
    ASSUME NEW n \in Nat, NEW S \in SUBSET (0 .. n), S # {}
    PROVE  Max(S) \in S
<1> DEFINE T == {k \in Nat : k <= n /\ n - k \in S}
<1>1. T \in SUBSET Nat /\ T # {}
  <2>1. PICK x \in S : TRUE
    OBVIOUS
  <2>2. n - x \in T
    BY SMT, <2>1
  <2> QED
    BY <2>2
<1>2. PICK k \in T : \A l \in T : k <= l
  <2> HIDE DEF T
  <2> QED
    BY <1>1, LeastNatural
<1>3. n - k \in S /\ \A x \in S : n - k >= x
  <2>1. ASSUME NEW x \in S PROVE n - k >= x
    <3>1. n - x \in T
      BY SMT
    <3>2. k <= n - x /\ k \in Nat /\ x \in Nat
      <4>1. k \in Nat /\ x \in Nat
        BY SMT
      <4> HIDE DEF T
      <4> QED
        BY <1>2, <3>1, <4>1
    <3> QED
      BY SMT, <3>2
  <2> QED
    BY <1>2, <2>1
<1> QED
  BY <1>3 DEF Max

\* put_args reads a first part of the list.
LEMMA ListedIs ==
    ASSUME NEW list \in Seq(Fds)
    PROVE  /\ Listed(list) \in Seq(Fds) /\ Len(Listed(list)) \in 0 .. Len(list)
           /\ \A k \in 1 .. Len(Listed(list)) : Listed(list)[k] = list[k]
<1> DEFINE read == {n \in 0 .. Len(list) : \A k \in 1 .. n : list[k] # 0}
           m == Max(read)
<1>1. m \in read
  <2>1. 0 \in read
    BY SMT
  <2>2. Len(list) \in Nat /\ read \in SUBSET (0 .. Len(list)) /\ read # {}
    BY SMT, <2>1
  <2> HIDE DEF read
  <2> QED
    BY <2>2, MaxIsIn
<1>2. m \in 0 .. Len(list) /\ Listed(list) = SubSeq(list, 1, m)
  BY <1>1 DEF Listed
<1> HIDE DEF m
<1> QED
  BY SMT, <1>2

\* It drops a reference for each entry of it, so no more than the list has, and
\* all of an fd that is not in the rest.
LEMMA ListedCounts ==
    ASSUME NEW list \in Seq(Fds), NEW d
    PROVE  /\ Times(list, d) \in Nat /\ Times(Listed(list), d) \in Nat
           /\ Times(Listed(list), d) <= Times(list, d)
           /\ d \notin {list[k] : k \in Len(Listed(list)) + 1 .. Len(list)} =>
                  Times(Listed(list), d) = Times(list, d)
<1> DEFINE S == {k \in 1 .. Len(list) : list[k] = d}
           R == {k \in 1 .. Len(Listed(list)) : Listed(list)[k] = d}
<1>1. /\ Len(Listed(list)) \in 0 .. Len(list)
      /\ \A k \in 1 .. Len(Listed(list)) : Listed(list)[k] = list[k]
  BY ListedIs
<1>2. R \in SUBSET S
  BY SMT, <1>1
<1>3. IsFiniteSet(S)
  <2>1. IsFiniteSet(1 .. Len(list))
    BY SMT, FS_Interval
  <2> QED
    BY <2>1, FS_Subset
<1>4. d \notin {list[k] : k \in Len(Listed(list)) + 1 .. Len(list)} => R = S
  BY SMT, <1>1
<1>5. Times(list, d) = Cardinality(S) /\ Times(Listed(list), d) = Cardinality(R)
  BY DEF Times
<1> HIDE DEF S, R
<1>6. IsFiniteSet(R) /\ Cardinality(R) <= Cardinality(S)
  BY <1>2, <1>3, FS_Subset
<1>7. Cardinality(R) \in Nat /\ Cardinality(S) \in Nat
  BY <1>3, <1>6, FS_CardinalityType
<1> QED
  BY <1>4, <1>5, <1>6, <1>7

-----------------------------------------------------------------------------
(***************************************************************************)
(* The invariant.                                                          *)
(***************************************************************************)

HeldAt(d) == Cardinality(Places(held, d))

AnsweredAt(d) == Cardinality(Places(answer, d))

\* The lists of all invokes have few places when each of them is bounded.
LEMMA BoundedLists ==
    ASSUME NEW n \in Nat, NEW lists \in [Ctxs -> FdLists(n)]
    PROVE  /\ Bounded(lists)
           /\ \A c \in Ctxs : lists[c] \in Seq(Fds) /\ Len(lists[c]) \in Nat
<1>1. ASSUME NEW c \in Ctxs
      PROVE  lists[c] \in Seq(Fds) /\ Len(lists[c]) \in 0 .. n
  <2>1. lists[c] \in FdLists(n)
    OBVIOUS
  <2> QED
    BY SMT, <2>1, ListIsSeq
<1> QED
  BY SMT, <1>1 DEF Bounded

\* What the type of the state says about the lists and the counts.
LEMMA HandleTypes ==
    ASSUME HandleTypeOK
    PROVE  /\ Bounded(held) /\ Bounded(answer)
           /\ \A c \in Ctxs : /\ held[c] \in Seq(Fds) /\ Len(held[c]) \in Nat
                              /\ answer[c] \in Seq(Fds) /\ Len(answer[c]) \in Nat
           /\ map \in Counters
           /\ \A d \in Fds : /\ uses[d] \in Nat /\ HeldAt(d) \in Nat /\ AnsweredAt(d) \in Nat
                             /\ map[d].refs \in 0 .. MaxRefs /\ map[d].ctx_refs \in 0 .. MaxRefs
<1>1. /\ Bounded(held)
      /\ \A c \in Ctxs : held[c] \in Seq(Fds) /\ Len(held[c]) \in Nat
  BY HandleAssumption, BoundedLists DEF HandleTypeOK
<1>2. /\ Bounded(answer)
      /\ \A c \in Ctxs : answer[c] \in Seq(Fds) /\ Len(answer[c]) \in Nat
  BY HandleAssumption, BoundedLists DEF HandleTypeOK
<1>3. /\ map \in Counters
      /\ \A d \in Fds : /\ uses[d] \in Nat
                        /\ map[d].refs \in 0 .. MaxRefs /\ map[d].ctx_refs \in 0 .. MaxRefs
  BY SMT, HandleAssumption DEF HandleTypeOK, Counters
<1>4. ASSUME NEW d \in Fds PROVE HeldAt(d) \in Nat /\ AnsweredAt(d) \in Nat
  BY <1>1, <1>2, PlacesFinite DEF HeldAt, AnsweredAt
<1> QED
  BY <1>1, <1>2, <1>3, <1>4

\* No entry, no count.
LEMMA NoEntries ==
    ASSUME NEW d
    PROVE  Times(<<>>, d) = 0 /\ Len(<<>>) \in Nat
<1>1. Len(<<>>) = 0
  OBVIOUS
<1> QED
  BY <1>1, TimesIs, AmongGrows

\* The counts of an invoke that gets or loses its list.
LEMMA HeldChange ==
    ASSUME HandleTypeOK, NEW c \in Ctxs, NEW list \in Seq(Fds), NEW d \in Fds,
           held' = [held EXCEPT ![c] = list]
    PROVE  /\ HeldAt(d)' + Times(held[c], d) = HeldAt(d) + Times(list, d)
           /\ HeldAt(d)' \in Nat /\ Times(held[c], d) \in Nat /\ Times(list, d) \in Nat
<1>1. Bounded(held) /\ Len(held[c]) \in Nat /\ Len(list) \in Nat
  BY SMT, HandleTypes
<1>2. Times(held[c], d) \in Nat /\ Times(list, d) \in Nat
  BY <1>1, PlacesOfCount
<1>3. Replaced(held, held', c, list)
  BY DEF Replaced
<1>4. Recounted(held, held', c, list, d)
  BY <1>1, <1>3, PlacesChange
<1> QED
  BY <1>2, <1>4 DEF Recounted, HeldAt

\* The same for the answers.
LEMMA AnswerChange ==
    ASSUME HandleTypeOK, NEW c \in Ctxs, NEW list \in Seq(Fds), NEW d \in Fds,
           answer' = [answer EXCEPT ![c] = list]
    PROVE  /\ AnsweredAt(d)' + Times(answer[c], d) = AnsweredAt(d) + Times(list, d)
           /\ AnsweredAt(d)' \in Nat /\ Times(answer[c], d) \in Nat /\ Times(list, d) \in Nat
<1>1. Bounded(answer) /\ Len(answer[c]) \in Nat /\ Len(list) \in Nat
  BY SMT, HandleTypes
<1>2. Times(answer[c], d) \in Nat /\ Times(list, d) \in Nat
  BY <1>1, PlacesOfCount
<1>3. Replaced(answer, answer', c, list)
  BY DEF Replaced
<1>4. Recounted(answer, answer', c, list, d)
  BY <1>1, <1>3, PlacesChange
<1> QED
  BY <1>2, <1>4 DEF Recounted, AnsweredAt

\* What is due of d.
LEMMA DueIs ==
    ASSUME NEW d
    PROVE  Due(d) = uses[d] + HeldAt(d) + AnsweredAt(d)
BY DEF Due, HeldAt, AnsweredAt

\* GetHandles keeps HandleInv.
LEMMA GetHandlesKeeps ==
    ASSUME HandleInv, NEW c \in Ctxs, NEW hs \in FdLists(MaxHandles), GetHandles(c, hs)
    PROVE  HandleInv'
<1>1. /\ HandleTypeOK /\ held[c] = <<>> /\ hs \in Seq(Fds) /\ hs \in FdLists(MaxHandles)
      /\ map \in Counters
  BY SMT, HandleAssumption, ListIsSeq, HandleTypes
  DEF HandleInv, InvokeInv, GetHandles
<1>2. /\ file = "open" /\ map' = TakeAll(map, hs) /\ held' = [held EXCEPT ![c] = hs]
      /\ \A d \in Fds : map'[d].refs <= MaxRefs
      /\ UNCHANGED <<answer, uses, file, lost, orphaned>>
  BY DEF GetHandles
<1>3. ASSUME NEW d \in Fds
      PROVE  /\ map[d].refs \in Nat /\ map[d].refs = map[d].ctx_refs /\ Times(hs, d) \in Nat
             /\ map'[d].refs = map[d].refs + Times(hs, d)
             /\ map'[d].ctx_refs = map[d].ctx_refs + Times(hs, d)
  BY <1>1, <1>2, TakeAllCounts DEF HandleInv, Counters
<1>4. HandleTypeOK'
  <2>1. map' \in Counters
    BY <1>1, <1>2, TakeAllCounts
  <2>2. map' \in [Fds -> [refs: 0 .. MaxRefs, ctx_refs: 0 .. MaxRefs]]
    BY SMT, <1>2, <1>3, <2>1, HandleAssumption DEF Counters
  <2>3. ctx' \in [Ctxs -> {"idle", "args", "sent", "answered", "free"}]
    BY DEF HandleInv, HandleTypeOK, GetHandles
  <2>4. held' \in [Ctxs -> FdLists(MaxHandles)]
    BY <1>1, <1>2 DEF HandleTypeOK
  <2> QED
    BY <1>1, <1>2, <2>2, <2>3, <2>4 DEF HandleTypeOK
<1>5. ASSUME NEW b \in Ctxs PROVE InvokeInv(b)'
  BY <1>2 DEF HandleInv, HandleTypeOK, InvokeInv, GetHandles
<1>6. ASSUME NEW d \in Fds PROVE Backed(d, Due(d), map[d])'
  <2>1. HeldAt(d)' = HeldAt(d) + Times(hs, d) /\ AnsweredAt(d)' = AnsweredAt(d)
    <3>1. HeldAt(d)' + Times(held[c], d) = HeldAt(d) + Times(hs, d) /\ HeldAt(d)' \in Nat
      BY <1>1, <1>2, HeldChange
    <3>2. Times(held[c], d) = 0
      BY <1>1, NoEntries
    <3>3. AnsweredAt(d)' = AnsweredAt(d)
      BY <1>2 DEF AnsweredAt
    <3> QED
      BY SMT, <3>1, <3>2, <3>3
  <2>2. Due(d)' = Due(d) + Times(hs, d) /\ Due(d) \in Nat
    <3>1. HeldAt(d) \in Nat /\ AnsweredAt(d) \in Nat /\ uses[d] \in Nat
      BY <1>1, HandleTypes
    <3> QED
      BY SMT, <1>2, <1>3, <2>1, <3>1 DEF Due, HeldAt, AnsweredAt
  <2> QED
    BY SMT, <1>2, <1>3, <2>2 DEF HandleInv, Backed
<1>7. FileInv'
  BY <1>2 DEF HandleInv, FileInv
<1>8. \A d \in Fds : map'[d].refs = map'[d].ctx_refs
  BY <1>3
<1> QED
  BY <1>4, <1>5, <1>6, <1>7, <1>8 DEF HandleInv

\* GetFails keeps HandleInv: the maps are as before.
LEMMA GetFailsKeeps ==
    ASSUME HandleInv, NEW c \in Ctxs, NEW hs \in FdLists(MaxHandles - 1), NEW d \in Fds,
           GetFails(c, hs, d)
    PROVE  HandleInv'
<1>1. HandleTypeOK /\ map \in Counters /\ hs \in Seq(Fds)
  BY SMT, HandleAssumption, ListIsSeq, HandleTypes DEF HandleInv
<1>2. map' = map
  BY <1>1, PutBack DEF GetFails
<1>3. /\ file = "open" /\ ctx[c] = "idle" /\ ctx' = [ctx EXCEPT ![c] = "free"]
      /\ UNCHANGED <<held, answer, uses, file, lost, orphaned>>
  BY DEF GetFails
<1>4. HandleTypeOK'
  BY <1>1, <1>2, <1>3 DEF HandleTypeOK
<1>5. ASSUME NEW b \in Ctxs PROVE InvokeInv(b)'
  BY <1>1, <1>3 DEF HandleInv, HandleTypeOK, InvokeInv
<1>6. ASSUME NEW e \in Fds PROVE Backed(e, Due(e), map[e])'
  BY <1>2, <1>3 DEF HandleInv, Backed, Due
<1>7. FileInv'
  BY <1>3 DEF HandleInv, FileInv
<1> QED
  BY <1>2, <1>4, <1>5, <1>6, <1>7 DEF HandleInv

\* SendInvoke keeps HandleInv: what the invoke held the DSP has now.
LEMMA SendInvokeKeeps ==
    ASSUME HandleInv, NEW c \in Ctxs, SendInvoke(c)
    PROVE  HandleInv'
<1>1. /\ HandleTypeOK /\ ctx[c] = "args" /\ ctx' = [ctx EXCEPT ![c] = "sent"]
      /\ uses' = [d \in Fds |-> uses[d] + Times(held[c], d)]
      /\ held' = [held EXCEPT ![c] = <<>>]
      /\ UNCHANGED <<map, answer, file, lost, orphaned>>
  BY DEF SendInvoke, HandleInv
<1>2. file = "open"
  BY <1>1 DEF HandleInv, InvokeInv
<1>3. ASSUME NEW d \in Fds
      PROVE  /\ HeldAt(d)' + Times(held[c], d) = HeldAt(d) /\ HeldAt(d)' \in Nat
             /\ Times(held[c], d) \in Nat
             /\ AnsweredAt(d)' = AnsweredAt(d)
             /\ uses[d] \in Nat /\ AnsweredAt(d) \in Nat /\ map[d].refs \in 0 .. MaxRefs
             /\ uses'[d] = uses[d] + Times(held[c], d)
             /\ Backed(d, Due(d), map[d])
             /\ Due(d) = uses[d] + HeldAt(d) + AnsweredAt(d)
             /\ Due(d)' = uses'[d] + HeldAt(d)' + AnsweredAt(d)'
  <2>1. <<>> \in Seq(Fds)
    BY SMT
  <2>2. /\ HeldAt(d)' + Times(held[c], d) = HeldAt(d) + Times(<<>>, d)
        /\ HeldAt(d)' \in Nat /\ Times(held[c], d) \in Nat
    BY <1>1, <2>1, HeldChange
  <2>3. Times(<<>>, d) = 0
    BY NoEntries
  <2>4. /\ uses[d] \in Nat /\ HeldAt(d) \in Nat /\ AnsweredAt(d) \in Nat
        /\ map[d].refs \in 0 .. MaxRefs
    BY <1>1, HandleTypes
  <2>5. AnsweredAt(d)' = AnsweredAt(d)
    BY <1>1 DEF AnsweredAt
  <2>6. /\ Due(d) = uses[d] + HeldAt(d) + AnsweredAt(d)
        /\ Due(d)' = uses'[d] + HeldAt(d)' + AnsweredAt(d)'
    BY DEF Due, HeldAt, AnsweredAt
  <2>7. Backed(d, Due(d), map[d])
    BY DEF HandleInv
  <2>8. uses'[d] = uses[d] + Times(held[c], d)
    BY <1>1
  <2> QED
    BY SMT, <2>2, <2>3, <2>4, <2>5, <2>6, <2>7, <2>8
<1>4. ASSUME NEW d \in Fds
      PROVE  Due(d)' = Due(d) /\ uses'[d] \in 0 .. MaxRefs
  <2>1. Due(d)' = Due(d)
    BY SMT, <1>3
  <2>2. Due(d) <= map[d].refs
    BY <1>2, <1>3 DEF Backed
  <2>3. MaxRefs \in Nat
    BY HandleAssumption
  <2> QED
    BY SMTT(30), <1>3, <2>1, <2>2, <2>3
<1>5. HandleTypeOK'
  <2>1. <<>> \in FdLists(MaxHandles)
    BY HandleAssumption, EmptyIsList
  <2>2. held' \in [Ctxs -> FdLists(MaxHandles)]
    BY <1>1, <2>1 DEF HandleTypeOK
  <2>3. uses' \in [Fds -> 0 .. MaxRefs]
    BY <1>1, <1>4
  <2>4. ctx' \in [Ctxs -> {"idle", "args", "sent", "answered", "free"}]
    BY <1>1 DEF HandleTypeOK
  <2> QED
    BY <1>1, <2>2, <2>3, <2>4 DEF HandleTypeOK
<1>6. ASSUME NEW b \in Ctxs PROVE InvokeInv(b)'
  BY <1>1, <1>2 DEF HandleInv, HandleTypeOK, InvokeInv
<1>7. ASSUME NEW d \in Fds PROVE Backed(d, Due(d), map[d])'
  BY <1>1, <1>3, <1>4 DEF Backed
<1>8. FileInv'
  BY <1>1, <1>2 DEF HandleInv, FileInv
<1> QED
  BY <1>1, <1>5, <1>6, <1>7, <1>8 DEF HandleInv

\* SendFails keeps HandleInv: what the invoke held is lost.
LEMMA SendFailsKeeps ==
    ASSUME HandleInv, NEW c \in Ctxs, SendFails(c)
    PROVE  HandleInv'
<1>1. /\ HandleTypeOK /\ ctx[c] = "args" /\ ctx' = [ctx EXCEPT ![c] = "free"]
      /\ held' = [held EXCEPT ![c] = <<>>]
      /\ lost' = lost \cup Range(held[c])
      /\ UNCHANGED <<map, answer, uses, file, orphaned>>
  BY DEF SendFails, HandleInv
<1>2. file = "open"
  BY <1>1 DEF HandleInv, InvokeInv
<1>3. held[c] \in Seq(Fds) /\ held[c] \in [1 .. Len(held[c]) -> Fds]
  BY SMT, <1>1, HandleTypes
<1>4. ASSUME NEW d \in Fds
      PROVE  Backed(d, Due(d), map[d])'
  <2>1. <<>> \in Seq(Fds)
    BY SMT
  <2>2. /\ HeldAt(d)' + Times(held[c], d) = HeldAt(d) + Times(<<>>, d)
        /\ HeldAt(d)' \in Nat /\ Times(held[c], d) \in Nat
    BY <1>1, <2>1, HeldChange
  <2>3. Times(<<>>, d) = 0
    BY NoEntries
  <2>4. /\ uses[d] \in Nat /\ HeldAt(d) \in Nat /\ AnsweredAt(d) \in Nat
        /\ map[d].refs \in Nat
    BY SMT, <1>1, HandleTypes
  <2>5. AnsweredAt(d)' = AnsweredAt(d)
    BY <1>1 DEF AnsweredAt
  <2>6. /\ Due(d) = uses[d] + HeldAt(d) + AnsweredAt(d)
        /\ Due(d)' = uses'[d] + HeldAt(d)' + AnsweredAt(d)'
    BY DEF Due, HeldAt, AnsweredAt
  <2>7. Backed(d, Due(d), map[d])
    BY DEF HandleInv
  <2>8. Due(d)' + Times(held[c], d) = Due(d) /\ Due(d)' \in Nat /\ Due(d) \in Nat
    <3>1. uses'[d] = uses[d]
      BY <1>1
    <3>2. HeldAt(d)' + Times(held[c], d) = HeldAt(d)
      BY SMT, <2>2, <2>3, <2>4
    <3> QED
      BY SMTT(30), <2>2, <2>4, <2>5, <2>6, <3>1, <3>2
  <2>9. d \notin lost' => Times(held[c], d) = 0 /\ d \notin lost
    <3>1. SUFFICES ASSUME d \notin lost' PROVE Times(held[c], d) = 0 /\ d \notin lost
      OBVIOUS
    <3>2. {k \in 1 .. Len(held[c]) : held[c][k] = d} = {}
      BY <1>1, <1>3, <3>1 DEF Range
    <3>3. Times(held[c], d) = 0
      BY <3>2, FS_EmptySet DEF Times
    <3> QED
      BY <1>1, <3>1, <3>3
  <2> QED
    BY SMT, <1>1, <1>2, <2>2, <2>4, <2>7, <2>8, <2>9 DEF Backed
<1>5. HandleTypeOK'
  <2>1. <<>> \in FdLists(MaxHandles)
    BY HandleAssumption, EmptyIsList
  <2>2. held' \in [Ctxs -> FdLists(MaxHandles)]
    BY <1>1, <2>1 DEF HandleTypeOK
  <2>3. lost' \subseteq Fds
    <3>1. Range(held[c]) \subseteq Fds
      BY <1>3 DEF Range
    <3> QED
      BY <1>1, <3>1 DEF HandleTypeOK
  <2>4. ctx' \in [Ctxs -> {"idle", "args", "sent", "answered", "free"}]
    BY <1>1 DEF HandleTypeOK
  <2> QED
    BY <1>1, <2>2, <2>3, <2>4 DEF HandleTypeOK
<1>6. ASSUME NEW b \in Ctxs PROVE InvokeInv(b)'
  BY <1>1, <1>2 DEF HandleInv, HandleTypeOK, InvokeInv
<1>7. FileInv'
  BY <1>1, <1>2 DEF HandleInv, FileInv
<1> QED
  BY <1>1, <1>4, <1>5, <1>6, <1>7 DEF HandleInv

\* Answer keeps HandleInv: what the DSP had is in the list now.
LEMMA AnswerKeeps ==
    ASSUME HandleInv, NEW c \in Ctxs, NEW list \in FdLists(MaxFdList), Answer(c, list)
    PROVE  HandleInv'
<1>1. /\ HandleTypeOK /\ ctx[c] = "sent" /\ ctx' = [ctx EXCEPT ![c] = "answered"]
      /\ \A d \in Fds : Times(list, d) <= uses[d]
      /\ uses' = [d \in Fds |-> uses[d] - Times(list, d)]
      /\ answer' = [answer EXCEPT ![c] = list]
      /\ UNCHANGED <<map, held, file, lost, orphaned>>
  BY DEF Answer, HandleInv
<1>2. list \in Seq(Fds) /\ answer[c] = <<>>
  BY SMT, <1>1, HandleAssumption, ListIsSeq DEF HandleInv, InvokeInv
<1>3. ASSUME NEW d \in Fds
      PROVE  /\ Due(d)' = Due(d) /\ uses[d] \in 0 .. MaxRefs /\ uses'[d] \in 0 .. MaxRefs
             /\ uses'[d] <= uses[d]
  <2>1. /\ AnsweredAt(d)' + Times(answer[c], d) = AnsweredAt(d) + Times(list, d)
        /\ AnsweredAt(d)' \in Nat /\ Times(list, d) \in Nat
    BY <1>1, <1>2, AnswerChange
  <2>2. Times(answer[c], d) = 0
    BY <1>2, NoEntries
  <2>3. /\ uses[d] \in Nat /\ HeldAt(d) \in Nat /\ AnsweredAt(d) \in Nat
    BY <1>1, HandleTypes
  <2>4. HeldAt(d)' = HeldAt(d)
    BY <1>1 DEF HeldAt
  <2>5. /\ Due(d) = uses[d] + HeldAt(d) + AnsweredAt(d)
        /\ Due(d)' = uses'[d] + HeldAt(d)' + AnsweredAt(d)'
    BY DEF Due, HeldAt, AnsweredAt
  <2>6. uses'[d] = uses[d] - Times(list, d) /\ Times(list, d) <= uses[d]
    BY <1>1
  <2>7. uses[d] \in 0 .. MaxRefs /\ MaxRefs \in Nat
    BY <1>1, HandleAssumption DEF HandleTypeOK
  <2> QED
    BY SMT, <2>1, <2>2, <2>3, <2>4, <2>5, <2>6, <2>7
<1>4. HandleTypeOK'
  <2>1. answer' \in [Ctxs -> FdLists(MaxFdList)]
    BY <1>1 DEF HandleTypeOK
  <2>2. uses' \in [Fds -> 0 .. MaxRefs]
    BY <1>1, <1>3
  <2>3. ctx' \in [Ctxs -> {"idle", "args", "sent", "answered", "free"}]
    BY <1>1 DEF HandleTypeOK
  <2> QED
    BY <1>1, <2>1, <2>2, <2>3 DEF HandleTypeOK
<1>5. ASSUME NEW b \in Ctxs PROVE InvokeInv(b)'
  BY <1>1 DEF HandleInv, HandleTypeOK, InvokeInv
<1>6. ASSUME NEW d \in Fds PROVE Backed(d, Due(d), map[d])'
  BY <1>1, <1>3 DEF HandleInv, Backed
<1>7. FileInv'
  BY SMT, <1>1, <1>3 DEF HandleInv, FileInv
<1> QED
  BY <1>1, <1>4, <1>5, <1>6, <1>7 DEF HandleInv

\* What an invoke whose answer is dropped does to what is due.
LEMMA AnswerDropped ==
    ASSUME HandleInv, NEW c \in Ctxs, NEW d \in Fds,
           answer' = [answer EXCEPT ![c] = <<>>], UNCHANGED <<held, uses>>
    PROVE  /\ Due(d)' + Times(answer[c], d) = Due(d)
           /\ Due(d)' \in Nat /\ Due(d) \in Nat /\ Times(answer[c], d) \in Nat
<1>1. HandleTypeOK /\ <<>> \in Seq(Fds)
  BY SMT DEF HandleInv
<1>2. /\ AnsweredAt(d)' + Times(answer[c], d) = AnsweredAt(d) + Times(<<>>, d)
      /\ AnsweredAt(d)' \in Nat /\ Times(answer[c], d) \in Nat
  BY <1>1, AnswerChange
<1>3. Times(<<>>, d) = 0
  BY NoEntries
<1>4. uses[d] \in Nat /\ HeldAt(d) \in Nat /\ AnsweredAt(d) \in Nat
  BY <1>1, HandleTypes
<1>5. HeldAt(d)' = HeldAt(d) /\ uses'[d] = uses[d]
  BY DEF HeldAt
<1>6. /\ Due(d) = uses[d] + HeldAt(d) + AnsweredAt(d)
      /\ Due(d)' = uses'[d] + HeldAt(d)' + AnsweredAt(d)'
  BY DEF Due, HeldAt, AnsweredAt
<1> QED
  BY SMTT(30), <1>2, <1>3, <1>4, <1>5, <1>6

\* Collect keeps HandleInv: the references put_args drops are those of the list,
\* up to a 0, and the rest is lost.
LEMMA CollectKeeps ==
    ASSUME HandleInv, NEW c \in Ctxs, Collect(c)
    PROVE  HandleInv'
<1> DEFINE list == answer[c]
           rest == {list[k] : k \in Len(Listed(list)) + 1 .. Len(list)}
<1>1. /\ HandleTypeOK /\ ctx[c] = "answered" /\ ctx' = [ctx EXCEPT ![c] = "free"]
      /\ file = "open" /\ map' = PutAll(map, Listed(list))
      /\ lost' = lost \cup rest
      /\ answer' = [answer EXCEPT ![c] = <<>>]
      /\ UNCHANGED <<held, uses, file, orphaned>>
  BY DEF Collect, HandleInv
<1>2. list \in Seq(Fds) /\ map \in Counters
  BY <1>1, HandleTypes
<1>3. Listed(list) \in Seq(Fds)
  BY <1>2, ListedIs
<1>4. ASSUME NEW d \in Fds
      PROVE  /\ Times(Listed(list), d) \in Nat
             /\ Times(Listed(list), d) <= Times(list, d)
             /\ d \notin rest => Times(Listed(list), d) = Times(list, d)
  BY <1>2, ListedCounts
<1>5. ASSUME NEW d \in Fds
      PROVE  /\ Due(d)' + Times(list, d) = Due(d)
             /\ Due(d)' \in Nat /\ Due(d) \in Nat /\ Times(list, d) \in Nat
  BY <1>1, AnswerDropped
<1> HIDE DEF list, rest
<1>6. ASSUME NEW d \in Fds
      PROVE  /\ Due(d) <= map[d].refs /\ (d \notin lost => Due(d) = map[d].refs)
             /\ map[d].refs = map[d].ctx_refs /\ map[d].refs \in 0 .. MaxRefs
  BY <1>1, HandleTypes DEF HandleInv, Backed
<1>7. \A d \in Fds : /\ Times(Listed(list), d) <= map[d].refs
                     /\ Times(Listed(list), d) <= map[d].ctx_refs
  <2>1. ASSUME NEW d \in Fds
        PROVE  /\ Times(Listed(list), d) <= map[d].refs
               /\ Times(Listed(list), d) <= map[d].ctx_refs
    <3>1. map[d].refs \in Nat
      BY SMT, <1>6
    <3> QED
      BY SMT, <1>4, <1>5, <1>6, <3>1
  <2> QED
    BY <2>1
<1>8. /\ map' \in Counters
      /\ \A d \in Fds : /\ map'[d].refs = map[d].refs - Times(Listed(list), d)
                        /\ map'[d].ctx_refs = map[d].ctx_refs - Times(Listed(list), d)
  BY <1>1, <1>2, <1>3, <1>7, PutAllCounts
<1>9. HandleTypeOK'
  <2>1. <<>> \in FdLists(MaxFdList)
    BY HandleAssumption, EmptyIsList
  <2>2. answer' \in [Ctxs -> FdLists(MaxFdList)]
    BY <1>1, <2>1 DEF HandleTypeOK
  <2>3. lost' \subseteq Fds
    <3>1. rest \subseteq Fds
      BY SMT, <1>2, <1>3 DEF rest
    <3> QED
      BY <1>1, <3>1 DEF HandleTypeOK
  <2>4. ctx' \in [Ctxs -> {"idle", "args", "sent", "answered", "free"}]
    BY <1>1 DEF HandleTypeOK
  <2>5. ASSUME NEW d \in Fds PROVE map'[d].refs \in 0 .. MaxRefs /\ map'[d].ctx_refs \in 0 .. MaxRefs
    <3>1. MaxRefs \in Nat
      BY HandleAssumption
    <3> QED
      BY SMT, <1>4, <1>6, <1>7, <1>8, <3>1
  <2>6. map' \in [Fds -> [refs: 0 .. MaxRefs, ctx_refs: 0 .. MaxRefs]]
    BY <1>8, <2>5 DEF Counters
  <2> QED
    BY <1>1, <2>2, <2>3, <2>4, <2>6 DEF HandleTypeOK
<1>10. ASSUME NEW b \in Ctxs PROVE InvokeInv(b)'
  BY <1>1 DEF HandleInv, HandleTypeOK, InvokeInv
<1>11. ASSUME NEW d \in Fds PROVE Backed(d, Due(d), map[d])' /\ map'[d].refs = map'[d].ctx_refs
  <2>1. /\ map'[d].refs = map[d].refs - Times(Listed(list), d)
        /\ map'[d].ctx_refs = map[d].ctx_refs - Times(Listed(list), d)
        /\ map[d].refs \in Nat
    BY SMT, <1>6, <1>8
  <2>2. Due(d)' <= map'[d].refs
    BY SMTT(30), <1>4, <1>5, <1>6, <2>1
  <2>3. d \notin lost' => Due(d)' = map'[d].refs
    BY SMT, <1>1, <1>4, <1>5, <1>6, <2>1
  <2> QED
    BY <1>1, <1>6, <2>1, <2>2, <2>3 DEF Backed
<1>12. FileInv'
  BY <1>1 DEF HandleInv, FileInv
<1> QED
  BY <1>9, <1>10, <1>11, <1>12 DEF HandleInv

\* CollectFails keeps HandleInv: the references of the whole list are lost.
LEMMA CollectFailsKeeps ==
    ASSUME HandleInv, NEW c \in Ctxs, CollectFails(c)
    PROVE  HandleInv'
<1>1. /\ HandleTypeOK /\ ctx[c] = "answered" /\ ctx' = [ctx EXCEPT ![c] = "free"]
      /\ file = "open" /\ lost' = lost \cup Range(answer[c])
      /\ answer' = [answer EXCEPT ![c] = <<>>]
      /\ UNCHANGED <<map, held, uses, file, orphaned>>
  BY DEF CollectFails, HandleInv
<1>2. answer[c] \in Seq(Fds) /\ answer[c] \in [1 .. Len(answer[c]) -> Fds]
  BY SMT, <1>1, HandleTypes
<1>3. ASSUME NEW d \in Fds PROVE Backed(d, Due(d), map[d])'
  <2>1. /\ Due(d)' + Times(answer[c], d) = Due(d)
        /\ Due(d)' \in Nat /\ Due(d) \in Nat /\ Times(answer[c], d) \in Nat
    BY <1>1, AnswerDropped
  <2>2. d \notin lost' => Times(answer[c], d) = 0 /\ d \notin lost
    <3>1. SUFFICES ASSUME d \notin lost' PROVE Times(answer[c], d) = 0 /\ d \notin lost
      OBVIOUS
    <3>2. {k \in 1 .. Len(answer[c]) : answer[c][k] = d} = {}
      BY <1>1, <1>2, <3>1 DEF Range
    <3>3. Times(answer[c], d) = 0
      BY <3>2, FS_EmptySet DEF Times
    <3> QED
      BY <1>1, <3>1, <3>3
  <2>3. Backed(d, Due(d), map[d]) /\ map[d].refs \in Nat
    BY SMT, <1>1, HandleTypes DEF HandleInv
  <2> QED
    BY SMT, <1>1, <2>1, <2>2, <2>3 DEF Backed
<1>4. HandleTypeOK'
  <2>1. <<>> \in FdLists(MaxFdList)
    BY HandleAssumption, EmptyIsList
  <2>2. answer' \in [Ctxs -> FdLists(MaxFdList)]
    BY <1>1, <2>1 DEF HandleTypeOK
  <2>3. lost' \subseteq Fds
    <3>1. Range(answer[c]) \subseteq Fds
      BY <1>2 DEF Range
    <3> QED
      BY <1>1, <3>1 DEF HandleTypeOK
  <2>4. ctx' \in [Ctxs -> {"idle", "args", "sent", "answered", "free"}]
    BY <1>1 DEF HandleTypeOK
  <2> QED
    BY <1>1, <2>2, <2>3, <2>4 DEF HandleTypeOK
<1>5. ASSUME NEW b \in Ctxs PROVE InvokeInv(b)'
  BY <1>1 DEF HandleInv, HandleTypeOK, InvokeInv
<1>6. FileInv'
  BY <1>1 DEF HandleInv, FileInv
<1> QED
  BY <1>1, <1>3, <1>4, <1>5, <1>6 DEF HandleInv

\* CloseFile keeps HandleInv: the DSP has no handle afterwards, or some of those
\* it had.
LEMMA CloseFileKeeps ==
    ASSUME HandleInv, CloseFile
    PROVE  HandleInv'
<1>1. /\ HandleTypeOK /\ file = "open" /\ file' = "ctxs" /\ ~orphaned
      /\ \A c \in Ctxs : ctx[c] \in {"idle", "sent", "answered"}
      /\ UNCHANGED <<map, ctx, held, answer, lost>>
  BY DEF CloseFile, HandleInv, FileInv
<1>2. \/ uses' = [d \in Fds |-> 0] /\ orphaned' = orphaned
      \/ /\ orphaned' = TRUE
         /\ \E stay \in SUBSET Fds :
                uses' = [d \in Fds |-> IF d \in stay THEN uses[d] ELSE 0]
  BY DEF CloseFile
<1>3. ASSUME NEW d \in Fds PROVE Backed(d, Due(d), map[d])'
  <2>1. uses[d] \in Nat /\ HeldAt(d) \in Nat /\ AnsweredAt(d) \in Nat /\ map[d].refs \in Nat
    BY SMT, <1>1, HandleTypes
  <2>2. HeldAt(d)' = HeldAt(d) /\ AnsweredAt(d)' = AnsweredAt(d)
    BY <1>1 DEF HeldAt, AnsweredAt
  <2>3. /\ Due(d) = uses[d] + HeldAt(d) + AnsweredAt(d)
        /\ Due(d)' = uses'[d] + HeldAt(d)' + AnsweredAt(d)'
    BY DEF Due, HeldAt, AnsweredAt
  <2>4. uses'[d] \in {0, uses[d]}
    BY <1>2
  <2>5. Due(d) <= map[d].refs
    BY <1>1 DEF HandleInv, Backed
  <2>6. Due(d)' <= map[d].refs
    BY SMT, <2>1, <2>2, <2>3, <2>4, <2>5
  <2> QED
    BY <1>1, <2>6 DEF Backed
<1>4. HandleTypeOK'
  <2>1. uses' \in [Fds -> 0 .. MaxRefs]
    BY SMT, <1>1, <1>2, HandleAssumption DEF HandleTypeOK
  <2>2. orphaned' \in BOOLEAN
    BY <1>1, <1>2 DEF HandleTypeOK
  <2> QED
    BY <1>1, <2>1, <2>2 DEF HandleTypeOK
<1>5. ASSUME NEW b \in Ctxs PROVE InvokeInv(b)'
  BY <1>1 DEF HandleInv, InvokeInv
<1>6. FileInv'
  BY <1>1, <1>2 DEF FileInv
<1> QED
  BY <1>1, <1>3, <1>4, <1>5, <1>6 DEF HandleInv

\* ContextFree keeps HandleInv: an answer it throws away is one of a file that
\* is being released.
LEMMA ContextFreeKeeps ==
    ASSUME HandleInv, NEW c \in Ctxs, ContextFree(c)
    PROVE  HandleInv'
<1>1. /\ HandleTypeOK /\ ctx' = [ctx EXCEPT ![c] = "idle"]
      /\ ctx[c] = "free" \/ (file = "ctxs" /\ ctx[c] \in {"sent", "answered"})
      /\ answer' = [answer EXCEPT ![c] = <<>>]
      /\ UNCHANGED <<map, held, uses, file, lost, orphaned>>
  BY DEF ContextFree, HandleInv
<1>2. ctx[c] = "free" => answer[c] = <<>>
  BY DEF HandleInv, InvokeInv
<1>3. ASSUME NEW d \in Fds PROVE Backed(d, Due(d), map[d])'
  <2>1. /\ Due(d)' + Times(answer[c], d) = Due(d)
        /\ Due(d)' \in Nat /\ Due(d) \in Nat /\ Times(answer[c], d) \in Nat
    BY <1>1, AnswerDropped
  <2>2. ctx[c] = "free" => Times(answer[c], d) = 0
    BY <1>2, NoEntries
  <2>3. Backed(d, Due(d), map[d]) /\ map[d].refs \in Nat
    BY SMT, <1>1, HandleTypes DEF HandleInv
  <2> QED
    BY SMT, <1>1, <2>1, <2>2, <2>3 DEF Backed
<1>4. HandleTypeOK'
  <2>1. <<>> \in FdLists(MaxFdList)
    BY HandleAssumption, EmptyIsList
  <2>2. answer' \in [Ctxs -> FdLists(MaxFdList)]
    BY <1>1, <2>1 DEF HandleTypeOK
  <2>3. ctx' \in [Ctxs -> {"idle", "args", "sent", "answered", "free"}]
    BY <1>1 DEF HandleTypeOK
  <2> QED
    BY <1>1, <2>2, <2>3 DEF HandleTypeOK
<1>5. ASSUME NEW b \in Ctxs PROVE InvokeInv(b)'
  BY <1>1 DEF HandleInv, HandleTypeOK, InvokeInv
<1>6. FileInv'
  BY <1>1 DEF HandleInv, FileInv
<1> QED
  BY <1>1, <1>3, <1>4, <1>5, <1>6 DEF HandleInv

\* ContextsFreed keeps HandleInv.
LEMMA ContextsFreedKeeps ==
    ASSUME HandleInv, ContextsFreed
    PROVE  HandleInv'
<1>1. /\ HandleTypeOK /\ file = "ctxs" /\ file' = "maps"
      /\ \A c \in Ctxs : ctx[c] = "idle"
      /\ UNCHANGED <<map, ctx, held, answer, uses, lost, orphaned>>
  BY DEF ContextsFreed, HandleInv
<1>2. HandleTypeOK'
  BY <1>1 DEF HandleTypeOK
<1>3. ASSUME NEW c \in Ctxs PROVE InvokeInv(c)'
  BY <1>1 DEF HandleInv, InvokeInv
<1>4. ASSUME NEW d \in Fds PROVE Backed(d, Due(d), map[d])'
  <2>1. Due(d)' = Due(d) /\ Backed(d, Due(d), map[d])
    BY <1>1 DEF HandleInv, Due
  <2> QED
    BY <1>1, <2>1 DEF Backed
<1>5. FileInv'
  BY <1>1 DEF HandleInv, FileInv
<1> QED
  BY <1>1, <1>2, <1>3, <1>4, <1>5 DEF HandleInv

\* FreeMaps keeps HandleInv: no map is left.
LEMMA FreeMapsKeeps ==
    ASSUME HandleInv, FreeMaps
    PROVE  HandleInv'
<1>1. /\ HandleTypeOK /\ file = "maps" /\ file' = "closed"
      /\ map' = [d \in Fds |-> ForceFree(map[d])]
      /\ UNCHANGED <<ctx, held, answer, uses, lost, orphaned>>
  BY DEF FreeMaps, HandleInv
<1>2. ASSUME NEW d \in Fds PROVE map'[d] = [refs |-> 0, ctx_refs |-> 0]
  <2>1. /\ map'[d] = ForceFree(map[d]) /\ map[d].refs = map[d].ctx_refs
        /\ map[d] \in [refs: Nat, ctx_refs: Nat]
    BY <1>1, HandleTypes DEF HandleInv, Counters
  <2> QED
    BY SMT, <2>1 DEF ForceFree
<1>3. ASSUME NEW d \in Fds PROVE map'[d].refs = 0 /\ map'[d].ctx_refs = 0
  BY SMT, <1>2
<1>4. HandleTypeOK'
  <2>1. map' \in [Fds -> [refs: 0 .. MaxRefs, ctx_refs: 0 .. MaxRefs]]
    BY SMT, <1>1, <1>2, HandleAssumption
  <2> QED
    BY <1>1, <2>1 DEF HandleTypeOK
<1>5. ASSUME NEW c \in Ctxs PROVE InvokeInv(c)'
  BY <1>1 DEF HandleInv, InvokeInv
<1>6. ASSUME NEW d \in Fds PROVE Backed(d, Due(d), map[d])'
  BY <1>1, <1>3 DEF Backed
<1>7. FileInv'
  BY <1>1 DEF HandleInv, FileInv
<1> QED
  BY <1>3, <1>4, <1>5, <1>6, <1>7 DEF HandleInv

\* Lists without entries have no places.
LEMMA NoPlaces ==
    ASSUME NEW lists, \A c \in Ctxs : lists[c] = <<>>, NEW d
    PROVE  Cardinality(Places(lists, d)) = 0
<1>1. Places(lists, d) = {}
  BY SMT DEF Places
<1> QED
  BY <1>1, FS_EmptySet

\* A file that has just been opened has no handle.
LEMMA HandleInvInit == HandleInit => HandleInv
<1> SUFFICES ASSUME HandleInit PROVE HandleInv
  OBVIOUS
<1>1. HandleTypeOK
  <2>1. \A n \in Nat : <<>> \in FdLists(n)
    BY EmptyIsList
  <2>2. /\ held \in [Ctxs -> FdLists(MaxHandles)]
        /\ answer \in [Ctxs -> FdLists(MaxFdList)]
    BY <2>1, HandleAssumption DEF HandleInit
  <2>3. /\ map \in [Fds -> [refs: 0 .. MaxRefs, ctx_refs: 0 .. MaxRefs]]
        /\ uses \in [Fds -> 0 .. MaxRefs]
    BY SMT, HandleAssumption DEF HandleInit
  <2> QED
    BY <2>2, <2>3 DEF HandleInit, HandleTypeOK
<1>2. ASSUME NEW c \in Ctxs PROVE InvokeInv(c)
  BY DEF HandleInit, InvokeInv
<1>3. ASSUME NEW d \in Fds
      PROVE  Backed(d, Due(d), map[d]) /\ map[d].refs = map[d].ctx_refs
  <2>1. Cardinality(Places(held, d)) = 0 /\ Cardinality(Places(answer, d)) = 0
    <3>1. \A c \in Ctxs : held[c] = <<>> /\ answer[c] = <<>>
      BY DEF HandleInit
    <3> QED
      BY <3>1, NoPlaces
  <2>2. uses[d] = 0 /\ map[d].refs = 0 /\ map[d].ctx_refs = 0
    BY DEF HandleInit
  <2>3. Due(d) = 0
    BY SMT, <2>1, <2>2 DEF Due
  <2> QED
    BY SMT, <2>2, <2>3 DEF Backed, HandleInit
<1>4. FileInv
  BY DEF HandleInit, FileInv
<1> QED
  BY <1>1, <1>2, <1>3, <1>4 DEF HandleInv

\* Every step keeps HandleInv.
LEMMA HandleInvNext == HandleInv /\ [HandleNext]_handleVars => HandleInv'
<1> SUFFICES ASSUME HandleInv, [HandleNext]_handleVars PROVE HandleInv'
  OBVIOUS
<1>1. ASSUME NEW c \in Ctxs, NEW hs \in FdLists(MaxHandles), GetHandles(c, hs) PROVE HandleInv'
  BY <1>1, GetHandlesKeeps
<1>2. ASSUME NEW c \in Ctxs, NEW hs \in FdLists(MaxHandles - 1), NEW d \in Fds,
             GetFails(c, hs, d)
      PROVE  HandleInv'
  BY <1>2, GetFailsKeeps
<1>3. ASSUME NEW c \in Ctxs, SendInvoke(c) PROVE HandleInv'
  BY <1>3, SendInvokeKeeps
<1>4. ASSUME NEW c \in Ctxs, SendFails(c) PROVE HandleInv'
  BY <1>4, SendFailsKeeps
<1>5. ASSUME NEW c \in Ctxs, NEW list \in FdLists(MaxFdList), Answer(c, list)
      PROVE  HandleInv'
  BY <1>5, AnswerKeeps
<1>6. ASSUME NEW c \in Ctxs, Collect(c) PROVE HandleInv'
  BY <1>6, CollectKeeps
<1>7. ASSUME NEW c \in Ctxs, CollectFails(c) PROVE HandleInv'
  BY <1>7, CollectFailsKeeps
<1>8. ASSUME NEW c \in Ctxs, ContextFree(c) PROVE HandleInv'
  BY <1>8, ContextFreeKeeps
<1>9. CASE CloseFile
  BY <1>9, CloseFileKeeps
<1>10. CASE ContextsFreed
  BY <1>10, ContextsFreedKeeps
<1>11. CASE FreeMaps
  BY <1>11, FreeMapsKeeps
<1>12. CASE UNCHANGED handleVars
  BY <1>12 DEF handleVars, HandleInv, HandleTypeOK, InvokeInv, Backed, Due, FileInv
<1> QED
  BY <1>1, <1>2, <1>3, <1>4, <1>5, <1>6, <1>7, <1>8, <1>9, <1>10, <1>11, <1>12
  DEF HandleNext

\* HandleInv holds in every reachable state.
THEOREM HandleInvHolds == HandleSpec => []HandleInv
<1> QED
  BY HandleInvInit, HandleInvNext, PTL DEF HandleSpec

\* The variables stay in their ranges; no count of references goes below 0.
THEOREM HandleTypesAreKept == HandleSpec => []HandleTypeOK
<1>1. HandleInv => HandleTypeOK
  BY DEF HandleInv
<1> QED
  BY <1>1, HandleInvHolds, PTL

\* A handle stays mapped while the DSP has it or an invoke is about to pass it
\* on, however many invokes passed it and whatever failed in between, as long
\* as the DSP is told of the end of the process (get_args, put_args,
\* vfastrpc_file_free).
THEOREM HandlesStayMapped == HandleSpec => []HandleKept
<1>1. HandleInv => HandleKept
  <2>1. SUFFICES ASSUME HandleInv, ~orphaned, NEW d \in Fds
                 PROVE  uses[d] + HeldAt(d) <= map[d].refs
    BY DEF HandleKept, HeldAt
  <2>2. /\ uses[d] \in Nat /\ HeldAt(d) \in Nat /\ AnsweredAt(d) \in Nat
        /\ map[d].refs \in Nat
    BY SMT, <2>1, HandleTypes DEF HandleInv
  <2>3. CASE file = "closed"
    <3>1. \A c \in Ctxs : held[c] = <<>>
      BY <2>1, <2>3 DEF HandleInv, InvokeInv
    <3>2. HeldAt(d) = 0
      BY <3>1, NoPlaces DEF HeldAt
    <3>3. uses[d] = 0
      BY <2>1, <2>3 DEF HandleInv, FileInv
    <3> QED
      BY SMT, <2>2, <3>2, <3>3
  <2>4. CASE file # "closed"
    <3>1. Due(d) <= map[d].refs
      BY <2>1, <2>4 DEF HandleInv, Backed
    <3> QED
      BY SMT, <2>2, <3>1, DueIs
  <2> QED
    BY <2>3, <2>4
<1> QED
  BY <1>1, HandleInvHolds, PTL

\* refs and ctx_refs of a handle move together; while the file is open they count
\* what the DSP, the invokes and the answers still have, but for the references
\* the code loses; and the release leaves no handle mapped (put_args,
\* vfastrpc_file_free).
THEOREM HandlesAreExact == HandleSpec => []HandlesExact
<1>1. HandleInv => HandlesExact
  <2>1. SUFFICES ASSUME HandleInv, NEW d \in Fds
                 PROVE  /\ map[d].refs = map[d].ctx_refs
                        /\ file = "open" /\ d \notin lost => map[d].refs = Due(d)
                        /\ file = "closed" => ~Mapped(map, d)
    BY DEF HandlesExact
  <2>2. Backed(d, Due(d), map[d]) /\ map[d].refs = map[d].ctx_refs
    BY <2>1 DEF HandleInv
  <2> QED
    BY SMT, <2>2 DEF Backed, Mapped
<1> QED
  BY <1>1, HandleInvHolds, PTL

=============================================================================
