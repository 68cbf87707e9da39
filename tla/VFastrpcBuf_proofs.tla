------------------------- MODULE VFastrpcBuf_proofs -------------------------
(***************************************************************************)
(* The invariants of VFastrpcBuf, for any number of buffers, invokes and   *)
(* descriptors, any sizes and limits, and any faults.                      *)
(***************************************************************************)
EXTENDS VFastrpcBuf, FiniteSetTheorems, TLAPS

\* Most leaves are first-order; the ones that need more say so.
USE ZenonT(120)

Holds(c, i, b) == desc[c][i] = b

Held(b) == \E c \in Ctxs, i \in Descs : Holds(c, i, b)

\* BufAccounted, buffer by buffer.
Places ==
    /\ \A c, d \in Ctxs : \A i, j \in Descs :
          desc[c][i] # NULL /\ desc[c][i] = desc[d][j] => c = d /\ i = j
    /\ \A b \in Bufs :
        /\ b \in cached_bufs => ~Held(b)
        /\ b \in remote_bufs => ~Held(b)
        /\ ~(b \in cached_bufs /\ b \in remote_bufs)
        /\ size[b] # 0 <=> b \in cached_bufs \/ b \in remote_bufs \/ Held(b)

CacheInv == IsFiniteSet(cached_bufs) /\ CacheCounted

\* What is over at each stage of the release.
Stages ==
    /\ \A c \in Ctxs : ctx[c] = "idle" => \A i \in Descs : desc[c][i] = NULL
    /\ file # "open" => op = NULL /\ \A c \in Ctxs : ctx[c] # "args"
    /\ file \in {"cached", "remote", "closed"} => \A c \in Ctxs : ctx[c] = "idle"
    /\ file \in {"remote", "closed"} => cached_bufs = {}
    /\ file = "closed" => remote_bufs = {}

\* What munmap can find is what the DSP process has mapped, until the release.
HeapInv ==
    /\ raddr \subseteq remote_bufs
    /\ op # NULL => op.buf \in remote_bufs
    /\ op # NULL => (op.kind = "unmap" <=> op.buf \in raddr)
    /\ orphaned => file # "open"
    /\ ~orphaned => /\ \A c \in be : ctx[c] = "sent"
                    /\ file = "open" => dsp = raddr
                    /\ file # "open" => dsp = {} /\ be = {}

BufInv ==
    /\ BufTypeOK
    /\ Places
    /\ CacheInv
    /\ BufFits
    /\ Stages
    /\ HeapInv

-----------------------------------------------------------------------------

\* A file opens with no buffer and an empty cache.
LEMMA BufInvInit == BufInit => BufInv
<1> SUFFICES ASSUME BufInit PROVE BufInv
  OBVIOUS
<1>1. BufTypeOK
  BY BufAssumption DEF BufInit, BufTypeOK
<1>2. Places
  BY BufAssumption DEF BufInit, Places, Held, Holds
<1>3. CacheInv
  BY SMT, BufAssumption, FS_EmptySet DEF BufInit, CacheInv, CacheCounted
<1>4. BufFits /\ Stages /\ HeapInv
  BY BufAssumption DEF BufInit, BufFits, Stages, HeapInv
<1> QED
  BY <1>1, <1>2, <1>3, <1>4 DEF BufInv

\* Allocating, freeing, mapping and unmapping keep the types.
LEMMA TypeStep == BufInv /\ [BufNext]_bufVars => BufTypeOK'
<1> SUFFICES ASSUME BufTypeOK, CacheCounted, BufNext \/ UNCHANGED bufVars,
                    IsFiniteSet(cached_bufs)
             PROVE  BufTypeOK'
  BY DEF BufInv, CacheInv
<1> USE BufAssumption DEF BufTypeOK
<1>1. ASSUME NEW b \in cached_bufs PROVE num_cached_buf - 1 \in Nat
  BY SMT, FS_EmptySet DEF CacheCounted
<1>2. ASSUME NEW c \in Ctxs, BeginInvoke(c) \/ Collect(c) \/ FreeCtx(c) \/ DropCtx(c)
      PROVE  BufTypeOK'
  BY <1>2 DEF BeginInvoke, Collect, FreeCtx, DropCtx, lists, remote
<1>3. ASSUME NEW c \in Ctxs, NEW i \in Descs, NEW n \in Sizes, GetInternal(c, i, n)
      PROVE  BufTypeOK'
  <2>1. /\ size' \in [Bufs -> Sizes \cup {0}]
        /\ cached_bufs' \subseteq Bufs
        /\ num_cached_buf' \in Nat
    BY SMT, <1>1, <1>3
       DEF GetInternal, BufAlloc, FromCache, NewBuf, Fitting
  <2>2. /\ desc' \in [Ctxs -> [Descs -> Bufs \cup {NULL}]]
        /\ need' \in [Ctxs -> [Descs -> Sizes \cup {0}]]
        /\ ctx' \in [Ctxs -> {"idle", "args", "sent", "free"}]
    <3>1. ASSUME NEW b \in Bufs, desc' = [desc EXCEPT ![c][i] = b],
                 need' = [need EXCEPT ![c][i] = n], UNCHANGED ctx
          PROVE  /\ desc' \in [Ctxs -> [Descs -> Bufs \cup {NULL}]]
                 /\ need' \in [Ctxs -> [Descs -> Sizes \cup {0}]]
                 /\ ctx' \in [Ctxs -> {"idle", "args", "sent", "free"}]
      BY <3>1
    <3>2. ASSUME ctx' = [ctx EXCEPT ![c] = "free"], UNCHANGED <<desc, need>>
          PROVE  /\ desc' \in [Ctxs -> [Descs -> Bufs \cup {NULL}]]
                 /\ need' \in [Ctxs -> [Descs -> Sizes \cup {0}]]
                 /\ ctx' \in [Ctxs -> {"idle", "args", "sent", "free"}]
      BY <3>2
    <3> QED
      BY <1>3, <3>1, <3>2 DEF GetInternal
  <2> QED
    BY <1>3, <2>1, <2>2 DEF GetInternal, remote
<1>4. ASSUME NEW c \in Ctxs, SendInvoke(c) \/ Answer(c) PROVE BufTypeOK'
  BY <1>4 DEF SendInvoke, Answer, lists, invokes
<1>5. ASSUME NEW c \in Ctxs, NEW i \in Descs, FreeDesc(c, i) PROVE BufTypeOK'
  BY SMT, <1>5 DEF FreeDesc, BufCache, remote
<1>6. ASSUME NEW b \in Bufs, NEW n \in Sizes, AddPages(b, n) PROVE BufTypeOK'
  BY <1>6 DEF AddPages, NewBuf, invokes, remote
<1>7. ASSUME NEW b \in Bufs, RemovePages(b) PROVE BufTypeOK'
  BY <1>7 DEF RemovePages, lists, invokes, remote
<1>8. ASSUME PagesAdded \/ PagesRemoved PROVE BufTypeOK'
  BY <1>8 DEF PagesAdded, PagesRemoved, BufFree, invokes
<1>9. ASSUME CloseFile \/ CtxsDropped \/ UNCHANGED bufVars PROVE BufTypeOK'
  BY <1>9 DEF CloseFile, CtxsDropped, bufVars, lists, invokes, remote
<1>10. ASSUME DropCached \/ DropRemote PROVE BufTypeOK'
  BY <1>1, <1>10 DEF DropCached, DropRemote, BufFree, lists, invokes, remote
<1> HIDE DEF BufTypeOK
<1> QED
  BY <1>2, <1>3, <1>4, <1>5, <1>6, <1>7, <1>8, <1>9, <1>10
     DEF BufNext, Invoke, Heap, Release

-----------------------------------------------------------------------------
(***************************************************************************)
(* Where the buffers are.                                                  *)
(***************************************************************************)

\* Nothing of this moves a buffer.
LEMMA PlacesFrame ==
    ASSUME Places, UNCHANGED <<size, cached_bufs, remote_bufs, desc>>
    PROVE  Places'
BY SMT DEF Places, Held, Holds

\* A buffer nobody holds is put into a descriptor that is empty.
LEMMA PlacesGet ==
    ASSUME BufTypeOK, Places, NEW c \in Ctxs, NEW i \in Descs, NEW b \in Bufs,
           desc[c][i] = NULL, ~Held(b), b \notin remote_bufs,
           desc' = [desc EXCEPT ![c][i] = b],
           cached_bufs' = cached_bufs \ {b},
           remote_bufs' = remote_bufs,
           size'[b] # 0,
           \A a \in Bufs \ {b} : size'[a] = size[a]
    PROVE  Places'
<1>1. \A d \in Ctxs, j \in Descs :
        desc'[d][j] = IF d = c /\ j = i THEN b ELSE desc[d][j]
  BY DEF BufTypeOK
<1>2. \A a \in Bufs : Held(a)' <=> a = b \/ Held(a)
  BY SMT, <1>1, BufAssumption DEF Held, Holds
<1>3. \A d, e \in Ctxs : \A j, k \in Descs :
        desc'[d][j] # NULL /\ desc'[d][j] = desc'[e][k] => d = e /\ j = k
  BY SMT, <1>1 DEF Places, Held, Holds
<1> QED
  BY <1>2, <1>3 DEF Places

\* A descriptor is emptied, and its buffer cached or freed.
LEMMA PlacesPut ==
    ASSUME BufTypeOK, Places, NEW c \in Ctxs, NEW i \in Descs,
           desc[c][i] # NULL,
           desc' = [desc EXCEPT ![c][i] = NULL],
           remote_bufs' = remote_bufs,
           \/ /\ cached_bufs' = cached_bufs \cup {desc[c][i]}
              /\ size' = size
           \/ /\ cached_bufs' = cached_bufs
              /\ size' = [size EXCEPT ![desc[c][i]] = 0]
    PROVE  Places'
<1> DEFINE b == desc[c][i]
<1>0. b \in Bufs
  BY SMT DEF BufTypeOK
<1>1. \A d \in Ctxs, j \in Descs :
        desc'[d][j] = IF d = c /\ j = i THEN NULL ELSE desc[d][j]
  BY DEF BufTypeOK
<1>2. \A a \in Bufs : Held(a)' <=> a # b /\ Held(a)
  BY SMT, <1>1, BufAssumption DEF Held, Holds, Places
<1>3. Held(b) /\ b \notin cached_bufs /\ b \notin remote_bufs
  BY <1>0 DEF Held, Holds, Places
<1>4. \A d, e \in Ctxs : \A j, k \in Descs :
        desc'[d][j] # NULL /\ desc'[d][j] = desc'[e][k] => d = e /\ j = k
  BY SMT, <1>1 DEF Places
<1>5. \A a \in Bufs : size'[a] = IF a = b /\ b \notin cached_bufs' THEN 0 ELSE size[a]
  <2>1. CASE b \in cached_bufs'
    BY <1>3, <2>1
  <2>2. CASE b \notin cached_bufs'
    <3>1. size' = [size EXCEPT ![b] = 0]
      BY <2>2
    <3>2. size'[b] = 0 /\ \A a \in Bufs \ {b} : size'[a] = size[a]
      BY <1>0, <3>1 DEF BufTypeOK
    <3> QED
      BY <2>2, <3>2
  <2> QED
    BY <2>1, <2>2
<1>6. \A a \in Bufs : a \in cached_bufs' <=> a \in cached_bufs \/ (a = b /\ size'[b] # 0)
  <2>1. CASE cached_bufs' = cached_bufs \cup {b}
    <3>1. size'[b] = size[b] /\ size[b] # 0
      BY <1>0, <1>3, <1>5, <2>1 DEF Places
    <3> QED
      BY <2>1, <3>1
  <2>2. CASE cached_bufs' = cached_bufs
    <3>1. size'[b] = 0
      BY <1>0, <1>3, <1>5, <2>2
    <3> QED
      BY <2>2, <3>1
  <2> QED
    BY <2>1, <2>2
<1> HIDE DEF b
<1> QED
  BY <1>0, <1>2, <1>3, <1>4, <1>5, <1>6 DEF Places

\* vfastrpc_buf_free(buf, 0) of a buffer on one of the lists.
LEMMA PlacesFree ==
    ASSUME BufTypeOK, Places, NEW b \in Bufs, ~Held(b), UNCHANGED desc,
           cached_bufs' = cached_bufs \ {b},
           remote_bufs' = remote_bufs \ {b},
           size' = [size EXCEPT ![b] = 0]
    PROVE  Places'
<1>1. \A a \in Bufs : Held(a)' <=> Held(a)
  BY DEF Held, Holds
<1> QED
  BY SMT, <1>1 DEF Places, BufTypeOK

\* Every operation on buffers leaves a buffer on at most one list.
LEMMA PlacesStep == BufInv /\ [BufNext]_bufVars => Places'
<1> SUFFICES ASSUME BufInv, BufNext \/ UNCHANGED bufVars PROVE Places'
  OBVIOUS
<1>0. BufTypeOK /\ Places
  BY DEF BufInv
<1>1. ASSUME NEW c \in Ctxs,
             \/ BeginInvoke(c) \/ SendInvoke(c) \/ Answer(c) \/ Collect(c)
             \/ FreeCtx(c) \/ DropCtx(c)
      PROVE  Places'
  <2>1. UNCHANGED <<size, cached_bufs, remote_bufs, desc>>
    BY <1>1, Zenon DEF BeginInvoke, SendInvoke, Answer, Collect, FreeCtx, DropCtx,
                lists, invokes
  <2> QED
    BY <1>0, <2>1, PlacesFrame
<1>2. ASSUME NEW c \in Ctxs, NEW i \in Descs, NEW n \in Sizes, GetInternal(c, i, n)
      PROVE  Places'
  <2>1. CASE UNCHANGED <<size, cached_bufs, desc>>
    BY <1>0, <1>2, <2>1, PlacesFrame DEF GetInternal
  <2>2. ASSUME NEW b \in Bufs, BufAlloc(b, n), desc' = [desc EXCEPT ![c][i] = b]
        PROVE  Places'
    <3>1. desc[c][i] = NULL /\ remote_bufs' = remote_bufs
      BY <1>2 DEF GetInternal
    <3>2. n # 0
      BY BufAssumption
    <3>3. CASE FromCache(b, n)
      <4>1. b \in cached_bufs /\ cached_bufs' = cached_bufs \ {b} /\ size' = size
        BY <3>3 DEF FromCache, Fitting
      <4>2. ~Held(b) /\ b \notin remote_bufs /\ size[b] # 0
        BY <1>0, <4>1 DEF Places
      <4> QED
        BY <1>0, <2>2, <3>1, <4>1, <4>2, PlacesGet
    <3>4. CASE NewBuf(b, n) /\ UNCHANGED cached_bufs
      <4>1. ~Held(b) /\ b \notin remote_bufs /\ b \notin cached_bufs
        BY <1>0, <3>4 DEF Places, NewBuf
      <4>2. size'[b] # 0 /\ \A a \in Bufs \ {b} : size'[a] = size[a]
        BY <1>0, <3>2, <3>4 DEF NewBuf, BufTypeOK
      <4> QED
        BY <1>0, <2>2, <3>1, <3>4, <4>1, <4>2, PlacesGet
    <3> QED
      BY <2>2, <3>3, <3>4 DEF BufAlloc
  <2> QED
    BY <1>2, <2>1, <2>2 DEF GetInternal
<1>3. ASSUME NEW c \in Ctxs, NEW i \in Descs, FreeDesc(c, i) PROVE Places'
  BY <1>0, <1>3, PlacesPut DEF FreeDesc, BufCache
<1>4. ASSUME NEW b \in Bufs, NEW n \in Sizes, AddPages(b, n) PROVE Places'
  <2>1. \A a \in Bufs : Held(a)' <=> Held(a)
    BY <1>4 DEF AddPages, Held, Holds, invokes
  <2>2. n # 0
    BY BufAssumption
  <2>3. \A a \in Bufs : size'[a] = IF a = b THEN n ELSE size[a]
    BY <1>0, <1>4 DEF AddPages, NewBuf, BufTypeOK
  <2> QED
    BY SMT, <1>0, <1>4, <2>1, <2>2, <2>3 DEF AddPages, NewBuf, Places, invokes
<1>5. ASSUME NEW b \in Bufs, RemovePages(b) PROVE Places'
  BY <1>0, <1>5, PlacesFrame DEF RemovePages, lists, invokes
<1>6. CASE PagesAdded \/ CloseFile \/ CtxsDropped \/ UNCHANGED bufVars
  <2>1. UNCHANGED <<size, cached_bufs, remote_bufs, desc>>
    BY <1>6 DEF PagesAdded, CloseFile, CtxsDropped, bufVars, lists, invokes
  <2> QED
    BY <1>0, <2>1, PlacesFrame
<1>7. CASE PagesRemoved
  <2>1. CASE UNCHANGED <<size, remote_bufs>>
    BY <1>0, <1>7, <2>1, PlacesFrame DEF PagesRemoved, invokes
  <2>2. CASE BufFree(op.buf)
    <3>1. op.buf \in Bufs /\ op.buf \in remote_bufs
      BY <1>7 DEF BufInv, HeapInv, BufTypeOK, PagesRemoved
    <3>2. ~Held(op.buf) /\ op.buf \notin cached_bufs
      BY <1>0, <3>1 DEF Places
    <3> QED
      BY <1>0, <1>7, <2>2, <3>1, <3>2, PlacesFree DEF PagesRemoved, BufFree, invokes
  <2> QED
    BY <1>7, <2>1, <2>2 DEF PagesRemoved
<1>8. CASE DropCached
  <2>1. CASE UNCHANGED <<size, lists>>
    BY <1>0, <1>8, <2>1, PlacesFrame DEF DropCached, lists, invokes
  <2>2. ASSUME NEW b \in cached_bufs, cached_bufs' = cached_bufs \ {b}, BufFree(b)
        PROVE  Places'
    <3>1. b \in Bufs /\ ~Held(b)
      BY <1>0 DEF Places, BufTypeOK
    <3> QED
      BY <1>0, <1>8, <2>2, <3>1, PlacesFree DEF DropCached, BufFree, invokes
  <2> QED
    BY <1>8, <2>1, <2>2 DEF DropCached
<1>9. CASE DropRemote
  <2>1. CASE UNCHANGED <<size, remote_bufs, raddr>>
    BY <1>0, <1>9, <2>1, PlacesFrame DEF DropRemote, invokes
  <2>2. ASSUME NEW b \in remote_bufs, BufFree(b) PROVE Places'
    <3>1. b \in Bufs /\ ~Held(b) /\ b \notin cached_bufs
      BY <1>0 DEF Places, BufTypeOK
    <3> QED
      BY <1>0, <1>9, <2>2, <3>1, PlacesFree DEF DropRemote, BufFree, invokes
  <2> QED
    BY <1>9, <2>1, <2>2 DEF DropRemote
<1> QED
  BY <1>1, <1>2, <1>3, <1>4, <1>5, <1>6, <1>7, <1>8, <1>9
     DEF BufNext, Invoke, Heap, Release

-----------------------------------------------------------------------------
(***************************************************************************)
(* The limit of the cache.                                                 *)
(***************************************************************************)

\* An operation that leaves the cached buffers alone keeps the limits of the
\* cache.
LEMMA CacheFrame ==
    ASSUME CacheInv, UNCHANGED <<cached_bufs, num_cached_buf>>,
           \A b \in cached_bufs : size'[b] = size[b]
    PROVE  CacheInv'
BY DEF CacheInv, CacheCounted

\* Taking a buffer out of the cache in vfastrpc_buf_alloc keeps its count.
LEMMA CacheTake ==
    ASSUME BufTypeOK, CacheInv, NEW b \in cached_bufs,
           cached_bufs' = cached_bufs \ {b},
           num_cached_buf' = num_cached_buf - 1,
           \A a \in cached_bufs \ {b} : size'[a] = size[a]
    PROVE  CacheInv'
<1>1. /\ IsFiniteSet(cached_bufs \ {b})
      /\ Cardinality(cached_bufs \ {b}) = Cardinality(cached_bufs) - 1
  BY FS_RemoveElement DEF CacheInv
<1> QED
  BY SMT, <1>1, BufAssumption DEF CacheInv, CacheCounted, BufTypeOK

\* Every operation on buffers keeps the limits of the cache.
LEMMA CacheStep == BufInv /\ [BufNext]_bufVars => CacheInv'
<1> SUFFICES ASSUME BufInv, BufNext \/ UNCHANGED bufVars PROVE CacheInv'
  OBVIOUS
<1>0. BufTypeOK /\ Places /\ CacheInv
  BY DEF BufInv
<1>1. ASSUME NEW c \in Ctxs,
             \/ BeginInvoke(c) \/ SendInvoke(c) \/ Answer(c) \/ Collect(c)
             \/ FreeCtx(c) \/ DropCtx(c)
      PROVE  CacheInv'
  <2>1. UNCHANGED <<size, cached_bufs, num_cached_buf>>
    BY <1>1, Zenon DEF BeginInvoke, SendInvoke, Answer, Collect, FreeCtx, DropCtx,
                       lists
  <2> QED
    BY <1>0, <2>1, CacheFrame
<1>2. ASSUME NEW c \in Ctxs, NEW i \in Descs, NEW n \in Sizes, GetInternal(c, i, n)
      PROVE  CacheInv'
  <2>1. ASSUME NEW b \in Bufs, FromCache(b, n) PROVE CacheInv'
    BY <1>0, <2>1, CacheTake DEF FromCache, Fitting
  <2>2. ASSUME NEW b \in Bufs, NewBuf(b, n), UNCHANGED <<cached_bufs, num_cached_buf>>
        PROVE  CacheInv'
    <3>1. b \notin cached_bufs
      BY <1>0, <2>2 DEF NewBuf, Places
    <3> QED
      BY <1>0, <2>2, <3>1, CacheFrame DEF NewBuf, BufTypeOK
  <2>3. CASE UNCHANGED <<size, cached_bufs, num_cached_buf>>
    BY <1>0, <2>3, CacheFrame
  <2> QED
    BY <1>2, <2>1, <2>2, <2>3 DEF GetInternal, BufAlloc
<1>3. ASSUME NEW c \in Ctxs, NEW i \in Descs, FreeDesc(c, i) PROVE CacheInv'
  <2> DEFINE b == desc[c][i]
  <2>1. b \in Bufs /\ b \notin cached_bufs
    BY SMT, <1>0, <1>3 DEF FreeDesc, BufTypeOK, Places, Held, Holds
  <2>2. CASE /\ CanCache(b) /\ UNCHANGED size
             /\ cached_bufs' = cached_bufs \cup {b}
             /\ num_cached_buf' = num_cached_buf + 1
    <3>1. /\ IsFiniteSet(cached_bufs \cup {b})
          /\ Cardinality(cached_bufs \cup {b}) = Cardinality(cached_bufs) + 1
      BY <1>0, <2>1, FS_AddElement DEF CacheInv
    <3> QED
      BY SMT, <1>0, <2>2, <3>1, BufAssumption DEF CacheInv, CacheCounted, CanCache, BufTypeOK
  <2>3. CASE /\ size' = [size EXCEPT ![b] = 0]
             /\ UNCHANGED <<cached_bufs, num_cached_buf>>
    BY <1>0, <2>1, <2>3, CacheFrame DEF BufTypeOK
  <2> QED
    BY <1>3, <2>2, <2>3 DEF FreeDesc, BufCache
<1>4. ASSUME NEW b \in Bufs, NEW n \in Sizes, AddPages(b, n) PROVE CacheInv'
  <2>1. b \notin cached_bufs
    BY <1>0, <1>4 DEF AddPages, NewBuf, Places
  <2> QED
    BY <1>0, <1>4, <2>1, CacheFrame DEF AddPages, NewBuf, BufTypeOK
<1>5. ASSUME NEW b \in Bufs, RemovePages(b) PROVE CacheInv'
  BY <1>0, <1>5, CacheFrame DEF RemovePages, lists
<1>6. CASE PagesAdded \/ CloseFile \/ CtxsDropped \/ UNCHANGED bufVars
  <2>1. UNCHANGED <<size, cached_bufs, num_cached_buf>>
    BY <1>6 DEF PagesAdded, CloseFile, CtxsDropped, bufVars, lists
  <2> QED
    BY <1>0, <2>1, CacheFrame
<1>7. CASE PagesRemoved
  <2>1. CASE UNCHANGED size
    BY <1>0, <1>7, <2>1, CacheFrame DEF PagesRemoved
  <2>2. CASE BufFree(op.buf)
    <3>1. op.buf \in Bufs /\ op.buf \in remote_bufs
      BY <1>7 DEF BufInv, HeapInv, BufTypeOK, PagesRemoved
    <3>2. op.buf \notin cached_bufs
      BY <1>0, <3>1 DEF Places
    <3> QED
      BY <1>0, <1>7, <2>2, <3>1, <3>2, CacheFrame DEF PagesRemoved, BufFree, BufTypeOK
  <2> QED
    BY <1>7, <2>1, <2>2 DEF PagesRemoved
<1>8. CASE DropCached
  <2>1. CASE UNCHANGED <<size, lists>>
    BY <1>0, <2>1, CacheFrame DEF lists
  <2>2. ASSUME NEW b \in cached_bufs, cached_bufs' = cached_bufs \ {b},
               num_cached_buf' = num_cached_buf - 1, BufFree(b)
        PROVE  CacheInv'
    <3>1. \A a \in cached_bufs \ {b} : size'[a] = size[a]
      BY <1>0, <2>2 DEF BufFree, BufTypeOK
    <3> QED
      BY <1>0, <2>2, <3>1, CacheTake
  <2> QED
    BY <1>8, <2>1, <2>2 DEF DropCached
<1>9. CASE DropRemote
  <2>1. CASE UNCHANGED size
    BY <1>0, <1>9, <2>1, CacheFrame DEF DropRemote
  <2>2. ASSUME NEW b \in remote_bufs, BufFree(b) PROVE CacheInv'
    <3>1. b \in Bufs /\ b \notin cached_bufs
      BY <1>0 DEF Places, BufTypeOK
    <3> QED
      BY <1>0, <1>9, <2>2, <3>1, CacheFrame DEF DropRemote, BufFree, BufTypeOK
  <2> QED
    BY <1>9, <2>1, <2>2 DEF DropRemote
<1> QED
  BY <1>1, <1>2, <1>3, <1>4, <1>5, <1>6, <1>7, <1>8, <1>9
     DEF BufNext, Invoke, Heap, Release

-----------------------------------------------------------------------------
(***************************************************************************)
(* Sizes, stages of the release, and the memory of the DSP.                *)
(***************************************************************************)

\* The size of a buffer in a descriptor does not change.
LEMMA FitsStep == BufInv /\ [BufNext]_bufVars => BufFits'
<1> SUFFICES ASSUME BufInv, BufNext \/ UNCHANGED bufVars PROVE BufFits'
  OBVIOUS
<1>0. BufTypeOK /\ Places /\ BufFits
  BY DEF BufInv
<1>1. ASSUME UNCHANGED <<desc, need>>,
             \A b \in Bufs : Held(b) => size'[b] = size[b]
      PROVE  BufFits'
  <2>1. \A c \in Ctxs, i \in Descs : desc[c][i] # NULL =>
          desc[c][i] \in Bufs /\ Held(desc[c][i])
    BY SMT, <1>0 DEF BufTypeOK, Held, Holds
  <2> QED
    BY <1>0, <1>1, <2>1 DEF BufFits
<1>2. ASSUME NEW c \in Ctxs,
             \/ BeginInvoke(c) \/ SendInvoke(c) \/ Answer(c) \/ Collect(c)
             \/ FreeCtx(c) \/ DropCtx(c)
      PROVE  BufFits'
  <2>1. UNCHANGED <<size, desc, need>>
    BY <1>2, Zenon DEF BeginInvoke, SendInvoke, Answer, Collect, FreeCtx, DropCtx,
                       invokes
  <2> QED
    BY <1>1, <2>1
<1>3. ASSUME NEW c \in Ctxs, NEW i \in Descs, NEW n \in Sizes, GetInternal(c, i, n)
      PROVE  BufFits'
  <2>1. CASE UNCHANGED <<size, desc, need>>
    BY <1>1, <2>1
  <2>2. ASSUME NEW b \in Bufs, BufAlloc(b, n), desc' = [desc EXCEPT ![c][i] = b],
               need' = [need EXCEPT ![c][i] = n]
        PROVE  BufFits'
    <3>1. ~Held(b) /\ size'[b] >= n /\ \A a \in Bufs \ {b} : size'[a] = size[a]
      BY SMT, <1>0, <2>2, BufAssumption
         DEF BufAlloc, FromCache, NewBuf, Fitting, Places, BufTypeOK
    <3>2. \A d \in Ctxs, j \in Descs :
            /\ desc'[d][j] = IF d = c /\ j = i THEN b ELSE desc[d][j]
            /\ need'[d][j] = IF d = c /\ j = i THEN n ELSE need[d][j]
      BY <1>0, <2>2 DEF BufTypeOK
    <3>3. \A d \in Ctxs, j \in Descs : desc[d][j] # NULL =>
            desc[d][j] \in Bufs \ {b}
      BY SMT, <1>0, <3>1 DEF BufTypeOK, Held, Holds
    <3>4. n \in Nat /\ size'[b] \in Nat
      <4>1. BufTypeOK'
        BY TypeStep
      <4>2. size'[b] \in Sizes \cup {0}
        BY <4>1 DEF BufTypeOK
      <4>3. n \in Nat
        BY BufAssumption
      <4>4. ASSUME NEW k \in Sizes \cup {0} PROVE k \in Nat
        BY SMT, BufAssumption
      <4> QED
        BY <4>2, <4>3, <4>4, Zenon
    <3>5. \A d \in Ctxs, j \in Descs : desc'[d][j] # NULL =>
            need'[d][j] <= size'[desc'[d][j]]
      <4> TAKE d \in Ctxs, j \in Descs
      <4>1. CASE d = c /\ j = i
        BY <3>1, <3>2, <3>4, <4>1
      <4>2. CASE ~(d = c /\ j = i)
        BY <1>0, <3>1, <3>2, <3>3, <4>2 DEF BufFits
      <4> QED
        BY <4>1, <4>2
    <3> QED
      BY <3>5 DEF BufFits
  <2> QED
    BY <1>3, <2>1, <2>2 DEF GetInternal
<1>4. ASSUME NEW c \in Ctxs, NEW i \in Descs, FreeDesc(c, i) PROVE BufFits'
  <2> DEFINE b == desc[c][i]
  <2>1. b \in Bufs /\ \A a \in Bufs \ {b} : size'[a] = size[a]
    BY SMT, <1>0, <1>4 DEF FreeDesc, BufCache, BufTypeOK
  <2>2. \A d \in Ctxs, j \in Descs :
            /\ desc'[d][j] = IF d = c /\ j = i THEN NULL ELSE desc[d][j]
            /\ need'[d][j] = IF d = c /\ j = i THEN 0 ELSE need[d][j]
    BY <1>0, <1>4 DEF FreeDesc, BufTypeOK
  <2>3. \A d \in Ctxs, j \in Descs : desc'[d][j] # NULL =>
            desc[d][j] \in Bufs \ {b} /\ desc'[d][j] = desc[d][j]
                /\ need'[d][j] = need[d][j]
    BY SMT, <1>0, <1>4, <2>2 DEF BufTypeOK, Places, FreeDesc
  <2> QED
    BY SMT, <1>0, <2>1, <2>3 DEF BufFits
<1>5. ASSUME NEW b \in Bufs, NEW n \in Sizes, AddPages(b, n) PROVE BufFits'
  BY <1>0, <1>1, <1>5 DEF AddPages, NewBuf, Places, BufTypeOK, invokes
<1>6. ASSUME NEW b \in Bufs, RemovePages(b) PROVE BufFits'
  BY <1>1, <1>6 DEF RemovePages, invokes
<1>7. CASE PagesAdded \/ CloseFile \/ CtxsDropped \/ UNCHANGED bufVars
  BY <1>1, <1>7 DEF PagesAdded, CloseFile, CtxsDropped, bufVars, invokes
<1>8. CASE PagesRemoved \/ DropCached \/ DropRemote
  <2>1. UNCHANGED <<desc, need>>
    BY <1>8 DEF PagesRemoved, DropCached, DropRemote, invokes
  <2>2. CASE UNCHANGED size
    BY <1>1, <2>1, <2>2
  <2>3. ASSUME NEW b \in cached_bufs \cup remote_bufs, BufFree(b) PROVE BufFits'
    BY <1>0, <1>1, <2>1, <2>3 DEF BufFree, Places, BufTypeOK
  <2>4. PagesRemoved => op.buf \in remote_bufs
    BY DEF BufInv, HeapInv, PagesRemoved
  <2> QED
    BY <1>8, <2>2, <2>3, <2>4 DEF PagesRemoved, DropCached, DropRemote
<1> QED
  BY <1>2, <1>3, <1>4, <1>5, <1>6, <1>7, <1>8 DEF BufNext, Invoke, Heap, Release

\* Every operation keeps what is over at each stage of the release.
LEMMA StagesStep == BufInv /\ [BufNext]_bufVars => Stages'
<1> SUFFICES ASSUME BufTypeOK, Stages, BufNext \/ UNCHANGED bufVars PROVE Stages'
  BY DEF BufInv
<1> USE DEF Stages, BufTypeOK
<1>1. ASSUME NEW c \in Ctxs,
             \/ BeginInvoke(c) \/ SendInvoke(c) \/ Answer(c) \/ Collect(c)
             \/ FreeCtx(c) \/ DropCtx(c)
      PROVE  Stages'
  BY <1>1 DEF BeginInvoke, SendInvoke, Answer, Collect, FreeCtx, DropCtx, lists,
              invokes
<1>2. ASSUME NEW c \in Ctxs, NEW i \in Descs, NEW n \in Sizes, GetInternal(c, i, n)
      PROVE  Stages'
  <2>1. file = "open" /\ file' = file
    BY <1>2 DEF GetInternal
  <2>2. \A d \in Ctxs : ctx'[d] = "idle" => d # c /\ ctx[d] = "idle"
    BY <1>2 DEF GetInternal
  <2>3. \A d \in Ctxs \ {c} : desc'[d] = desc[d]
    BY <1>2, Zenon DEF GetInternal
  <2> QED
    BY SMT, <2>1, <2>2, <2>3
<1>3. ASSUME NEW c \in Ctxs, NEW i \in Descs, FreeDesc(c, i) PROVE Stages'
  <2>1. file \in {"open", "ctxs"} /\ file' = file /\ ctx' = ctx /\ op' = op
    BY <1>3 DEF FreeDesc
  <2>2. \A d \in Ctxs \ {c} : desc'[d] = desc[d]
    BY <1>3, Zenon DEF FreeDesc
  <2> QED
    BY <1>3, <2>1, <2>2 DEF FreeDesc
<1>4. ASSUME NEW b \in Bufs, NEW n \in Sizes, AddPages(b, n) PROVE Stages'
  BY <1>4 DEF AddPages, invokes
<1>5. CASE PagesAdded \/ PagesRemoved
  <2>1. file = "open" /\ file' = file /\ UNCHANGED <<ctx, desc>>
    BY <1>5 DEF PagesAdded, PagesRemoved, invokes
  <2> QED
    BY <2>1
<1>6. CASE CloseFile \/ CtxsDropped \/ UNCHANGED bufVars
  BY <1>6 DEF CloseFile, CtxsDropped, bufVars, lists, invokes
<1>7. CASE DropCached
  BY <1>7 DEF DropCached, lists, invokes
<1>8. CASE DropRemote
  BY <1>8 DEF DropRemote, BufFree, invokes
<1>9. ASSUME NEW b \in Bufs, RemovePages(b) PROVE Stages'
  BY <1>9 DEF RemovePages, lists, invokes
<1> HIDE DEF Stages, BufTypeOK
<1> QED
  BY <1>1, <1>2, <1>3, <1>4, <1>5, <1>6, <1>7, <1>8, <1>9
     DEF BufNext, Invoke, Heap, Release

\* Every operation keeps what munmap can find the same as what the DSP has
\* mapped.
LEMMA HeapStep == BufInv /\ [BufNext]_bufVars => HeapInv'
<1> SUFFICES ASSUME BufInv, BufNext \/ UNCHANGED bufVars PROVE HeapInv'
  OBVIOUS
<1>0. BufTypeOK /\ Places /\ Stages /\ HeapInv
  BY DEF BufInv
<1>1. ASSUME NEW c \in Ctxs,
             \/ BeginInvoke(c) \/ SendInvoke(c) \/ Answer(c) \/ Collect(c)
             \/ FreeCtx(c) \/ DropCtx(c)
      PROVE  HeapInv'
  BY SMT, <1>0, <1>1 DEF BeginInvoke, SendInvoke, Answer, Collect, FreeCtx, DropCtx,
                    lists, remote, invokes, HeapInv, Stages, BufTypeOK
<1>2. ASSUME NEW c \in Ctxs, NEW i \in Descs, NEW n \in Sizes, GetInternal(c, i, n)
      PROVE  HeapInv'
  <2>1. \A d \in Ctxs : ctx[d] = "sent" => ctx'[d] = "sent"
    BY <1>0, <1>2 DEF GetInternal, BufTypeOK
  <2>2. UNCHANGED <<raddr, remote_bufs, op, be, dsp, file, orphaned>>
    BY <1>2 DEF GetInternal, remote
  <2> QED
    BY <1>0, <2>1, <2>2 DEF HeapInv, BufTypeOK
<1>3. ASSUME NEW c \in Ctxs, NEW i \in Descs, FreeDesc(c, i) PROVE HeapInv'
  BY <1>0, <1>3 DEF FreeDesc, remote, HeapInv
<1>4. ASSUME NEW b \in Bufs, NEW n \in Sizes, AddPages(b, n) PROVE HeapInv'
  <2>1. b \notin remote_bufs
    BY <1>0, <1>4 DEF AddPages, NewBuf, Places
  <2> QED
    BY <1>0, <1>4, <2>1, BufAssumption DEF AddPages, HeapInv, remote, invokes
<1>5. ASSUME NEW b \in Bufs, RemovePages(b) PROVE HeapInv'
  BY <1>0, <1>5, BufAssumption DEF RemovePages, HeapInv, lists, remote, invokes
<1>6. CASE PagesAdded \/ PagesRemoved
  BY SMT, <1>0, <1>6 DEF PagesAdded, PagesRemoved, BufFree, HeapInv, Stages, invokes
<1>7. CASE CloseFile \/ CtxsDropped
  BY <1>0, <1>7 DEF CloseFile, CtxsDropped, HeapInv, Stages, lists, invokes, remote
<1>8. CASE DropCached
  <2>1. op = NULL /\ file # "open" /\ file' # "open"
    BY <1>0, <1>8 DEF DropCached, Stages
  <2> QED
    BY <1>0, <1>8, <2>1 DEF DropCached, BufFree, HeapInv, lists, invokes, remote
<1>9. CASE DropRemote
  <2>1. op = NULL /\ file # "open" /\ file' # "open"
    BY <1>0, <1>9 DEF DropRemote, Stages
  <2> QED
    BY <1>0, <1>9, <2>1 DEF DropRemote, BufFree, HeapInv, invokes, remote
<1>10. CASE UNCHANGED bufVars
  BY <1>0, <1>10 DEF bufVars, lists, invokes, remote, HeapInv
<1> QED
  BY <1>1, <1>2, <1>3, <1>4, <1>5, <1>6, <1>7, <1>8, <1>9, <1>10
     DEF BufNext, Invoke, Heap, Release

\* BufInv holds in every state.
LEMMA BufInvariant == BufSpec => []BufInv
<1>1. BufInv /\ [BufNext]_bufVars => BufInv'
  BY TypeStep, PlacesStep, CacheStep, FitsStep, StagesStep, HeapStep DEF BufInv
<1> QED
  BY BufInvInit, <1>1, PTL DEF BufSpec

\* Every allocated buffer of the file is in exactly one place, whatever number
\* of invokes and mmaps run at a time and wherever they fail, and in none after
\* the release.
THEOREM BufsAreAccounted == BufSpec => []BufAccounted
<1>1. BufInv => BufAccounted
  <2> SUFFICES ASSUME BufInv PROVE BufAccounted
    OBVIOUS
  <2>1. \A b \in Bufs : Held(b) <=> b \in UNION {HeldBy(c) : c \in Ctxs}
    BY SMT, BufAssumption DEF Held, Holds, HeldBy
  <2>2. \A c \in Ctxs : HeldBy(c) \subseteq Bufs /\ \A b \in HeldBy(c) : Held(b)
    BY SMT DEF BufInv, BufTypeOK, HeldBy, Held, Holds
  <2>3. cached_bufs \subseteq Bufs /\ remote_bufs \subseteq Bufs
    BY DEF BufInv, BufTypeOK
  <2>4. file = "closed" => \A b \in Bufs : size[b] = 0
    BY SMT, BufAssumption DEF BufInv, Stages, Places, Held, Holds
  <2> QED
    BY <2>1, <2>2, <2>3, <2>4, SMTT(30) DEF BufInv, Places, BufAccounted
<1> QED
  BY BufInvariant, <1>1, PTL

\* num_cached_buf, which vfastrpc_buf_free compares with MAX_CACHED_BUFS, is the
\* length of the cache, and no buffer in it exceeds MAX_CACHE_BUF_SIZE.
THEOREM CacheIsCounted == BufSpec => []CacheCounted
<1>1. BufInv => CacheCounted
  BY DEF BufInv, CacheInv
<1> QED
  BY BufInvariant, <1>1, PTL

\* Memory the back end may write to stays where it is, and munmap finds what
\* the DSP process has mapped.
THEOREM DspMemoryIsKept == BufSpec => []DspMemoryKept
<1>1. BufInv => DspMemoryKept
  BY DEF BufInv, HeapInv, Places, BufTypeOK, DspMemoryKept
<1> QED
  BY BufInvariant, <1>1, PTL

\* A buffer holds the argument it was taken for, from the cache or new.
THEOREM BufsFit == BufSpec => []BufFits
<1>1. BufInv => BufFits
  BY DEF BufInv
<1> QED
  BY BufInvariant, <1>1, PTL

=============================================================================
