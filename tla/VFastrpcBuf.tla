---------------------------- MODULE VFastrpcBuf -----------------------------
(***************************************************************************)
(* The buffers of one open file (virtio_fastrpc_mem.c): the internal       *)
(* buffers an invoke copies large arguments into, the cache they go back   *)
(* to, the pages added to the DSP heap by ADSP_MMAP_ADD_PAGES, and what    *)
(* vfastrpc_file_free does with all of them.                               *)
(*                                                                         *)
(* One step is one section under fl->hlock, or one exchange with the back  *)
(* end.  Several invokes run at a time; internal_map_mutex lets one mmap   *)
(* or munmap run.                                                          *)
(***************************************************************************)
EXTENDS Naturals, FiniteSets

CONSTANTS
    Bufs,          \* the struct vfastrpc_buf objects kzalloc hands out
    Ctxs,          \* invokes under way at a time
    Descs,         \* indices of ctx->desc
    Sizes,         \* sizes asked for, in pages
    MaxCached,     \* MAX_CACHED_BUFS
    MaxCacheSize,  \* MAX_CACHE_BUF_SIZE
    Faults,        \* which of AllFaults the environment may cause
    NULL

AllFaults == {"mem", "msg", "be", "close"}

ASSUME BufAssumption ==
    /\ Sizes \subseteq Nat \ {0}
    /\ MaxCached \in Nat
    /\ MaxCacheSize \in Nat
    /\ NULL \notin Bufs
    /\ Faults \subseteq AllFaults

VARIABLES
    size,            \* buf->size, 0 when there is no such buffer
    cached_bufs,     \* fl->cached_bufs
    num_cached_buf,  \* fl->num_cached_buf
    remote_bufs,     \* fl->remote_bufs
    raddr,           \* those with buf->raddr # 0
    desc,            \* ctx->desc[i].buf
    need,            \* history: the length asked for desc[i]
    ctx,             \* where each invoke is
    op,              \* the mmap or munmap under way, and its buffer
    be,              \* invokes the back end is working on
    dsp,             \* pages mapped into the DSP process
    file,            \* where vfastrpc_file_free is
    orphaned         \* history: the release has not ended all that runs on the DSP

lists == <<cached_bufs, num_cached_buf, remote_bufs, raddr>>

invokes == <<desc, need, ctx>>

remote == <<be, dsp>>

bufVars == <<size, lists, invokes, op, remote, file, orphaned>>

BufInit ==
    /\ size = [b \in Bufs |-> 0]
    /\ cached_bufs = {}
    /\ num_cached_buf = 0
    /\ remote_bufs = {}
    /\ raddr = {}
    /\ desc = [c \in Ctxs |-> [i \in Descs |-> NULL]]
    /\ need = [c \in Ctxs |-> [i \in Descs |-> 0]]
    /\ ctx = [c \in Ctxs |-> "idle"]
    /\ op = NULL
    /\ be = {}
    /\ dsp = {}
    /\ file = "open"
    /\ orphaned = FALSE

-----------------------------------------------------------------------------
(***************************************************************************)
(* vfastrpc_buf_alloc and vfastrpc_buf_free.                               *)
(***************************************************************************)

\* Wrong: any cached buffer will do.
Fitting_Any(n) == cached_bufs

Fitting(n) == {b \in cached_bufs : size[b] >= n}

\* Wrong: the count of cached buffers is not decremented.
FromCache_NoCount(b, n) ==
    /\ b \in Fitting(n)
    /\ \A a \in Fitting(n) : size[b] <= size[a]
    /\ cached_bufs' = cached_bufs \ {b}
    /\ UNCHANGED <<size, num_cached_buf>>

\* Wrong: the buffer is used but stays in the cache.
FromCache_Stays(b, n) ==
    /\ b \in Fitting(n)
    /\ \A a \in Fitting(n) : size[b] <= size[a]
    /\ UNCHANGED <<size, cached_bufs, num_cached_buf>>

\* "find the smallest buffer that fits in the cache": it keeps its own size.
FromCache(b, n) ==
    /\ b \in Fitting(n)
    /\ \A a \in Fitting(n) : size[b] <= size[a]
    /\ cached_bufs' = cached_bufs \ {b}
    /\ num_cached_buf' = num_cached_buf - 1
    /\ UNCHANGED size

\* kzalloc and vfastrpc_alloc_buffer.
NewBuf(b, n) ==
    /\ size[b] = 0
    /\ size' = [size EXCEPT ![b] = n]

\* A local buffer: from the cache or new.
BufAlloc(b, n) ==
    \/ FromCache(b, n)
    \/ /\ Fitting(n) = {}
       /\ NewBuf(b, n)
       /\ UNCHANGED <<cached_bufs, num_cached_buf>>

\* vfastrpc_alloc_pages, sg_alloc_table_from_pages or vmap fails: what was
\* allocated so far is freed.
AllocFails(n) == "mem" \in Faults /\ Fitting(n) = {}

\* "buf->size < MAX_CACHE_BUF_SIZE" and "num_cached_buf > MAX_CACHED_BUFS".
CanCache(b) == size[b] < MaxCacheSize /\ num_cached_buf <= MaxCached

\* vfastrpc_buf_free(buf, 1).
BufCache(b) ==
    \/ /\ CanCache(b)
       /\ cached_bufs' = cached_bufs \cup {b}
       /\ num_cached_buf' = num_cached_buf + 1
       /\ UNCHANGED size
    \/ /\ ~CanCache(b)
       /\ size' = [size EXCEPT ![b] = 0]
       /\ UNCHANGED <<cached_bufs, num_cached_buf>>

\* vfastrpc_buf_free(buf, 0).
BufFree(b) ==
    /\ remote_bufs' = remote_bufs \ {b}
    /\ raddr' = raddr \ {b}
    /\ size' = [size EXCEPT ![b] = 0]

-----------------------------------------------------------------------------
(***************************************************************************)
(* Invokes whose arguments do not fit in a virtio buffer.                  *)
(***************************************************************************)

BeginInvoke(c) ==
    /\ file = "open"
    /\ ctx[c] = "idle"
    /\ ctx' = [ctx EXCEPT ![c] = "args"]
    /\ UNCHANGED <<size, lists, desc, need, op, remote, file, orphaned>>

\* get_args: desc[i].buf for an argument of n pages.
GetInternal(c, i, n) ==
    /\ ctx[c] = "args"
    /\ desc[c][i] = NULL
    /\ \/ \E b \in Bufs :
            /\ BufAlloc(b, n)
            /\ desc' = [desc EXCEPT ![c][i] = b]
            /\ need' = [need EXCEPT ![c][i] = n]
            /\ UNCHANGED ctx
       \/ /\ AllocFails(n)
          /\ ctx' = [ctx EXCEPT ![c] = "free"]
          /\ UNCHANGED <<size, cached_bufs, num_cached_buf, desc, need>>
    /\ UNCHANGED <<remote_bufs, raddr, op, remote, file, orphaned>>

\* The message is sent, or cannot be allocated, filled in or queued.
SendInvoke(c) ==
    /\ ctx[c] = "args"
    /\ \/ /\ ctx' = [ctx EXCEPT ![c] = "sent"]
          /\ be' = be \cup {c}
       \/ /\ "msg" \in Faults
          /\ ctx' = [ctx EXCEPT ![c] = "free"]
          /\ UNCHANGED be
    /\ UNCHANGED <<size, lists, desc, need, op, dsp, file, orphaned>>

\* The back end answers; after that it does not use the buffers any more.
Answer(c) ==
    /\ c \in be
    /\ be' = be \ {c}
    /\ UNCHANGED <<size, lists, invokes, op, dsp, file, orphaned>>

\* Wrong: an invoke interrupted by a signal is freed at once.
Collect_Interrupted(c) ==
    /\ file = "open"
    /\ ctx[c] = "sent"
    /\ ctx' = [ctx EXCEPT ![c] = "free"]
    /\ UNCHANGED <<size, lists, desc, need, op, remote, file, orphaned>>

\* put_args copies out of the buffers: the thread was woken, restarted after a
\* signal, or asks for the answer of an asynchronous invoke.
Collect(c) ==
    /\ file = "open"
    /\ ctx[c] = "sent"
    /\ c \notin be
    /\ ctx' = [ctx EXCEPT ![c] = "free"]
    /\ UNCHANGED <<size, lists, desc, need, op, remote, file, orphaned>>

\* context_free: "if (ctx->desc[i].buf) vfastrpc_buf_free(..., 1)".
FreeDesc(c, i) ==
    /\ ctx[c] = "free"
    /\ desc[c][i] # NULL
    /\ BufCache(desc[c][i])
    /\ desc' = [desc EXCEPT ![c][i] = NULL]
    /\ need' = [need EXCEPT ![c][i] = 0]
    /\ UNCHANGED <<remote_bufs, raddr, ctx, op, remote, file, orphaned>>

FreeCtx(c) ==
    /\ ctx[c] = "free"
    /\ \A i \in Descs : desc[c][i] = NULL
    /\ ctx' = [ctx EXCEPT ![c] = "idle"]
    /\ UNCHANGED <<size, lists, desc, need, op, remote, file, orphaned>>

-----------------------------------------------------------------------------
(***************************************************************************)
(* Pages for the DSP heap, under internal_map_mutex.                       *)
(***************************************************************************)

\* vfastrpc_internal_mmap: a remote buffer does not come from the cache.
AddPages(b, n) ==
    /\ file = "open"
    /\ op = NULL
    /\ NewBuf(b, n)
    /\ remote_bufs' = remote_bufs \cup {b}
    /\ op' = [kind |-> "map", buf |-> b]
    /\ UNCHANGED <<cached_bufs, num_cached_buf, raddr, invokes, remote, file,
                   orphaned>>

\* The answer to MMAP.  After an error the buffer stays on remote_bufs.
PagesAdded ==
    /\ op # NULL
    /\ op.kind = "map"
    /\ \/ /\ dsp' = dsp \cup {op.buf}
          /\ raddr' = raddr \cup {op.buf}
       \/ /\ Faults \cap {"be", "msg"} # {}
          /\ UNCHANGED <<dsp, raddr>>
    /\ op' = NULL
    /\ UNCHANGED <<size, cached_bufs, num_cached_buf, remote_bufs, invokes, be,
                   file, orphaned>>

\* vfastrpc_internal_munmap finds the remote buffer with that raddr and size.
RemovePages(b) ==
    /\ file = "open"
    /\ op = NULL
    /\ b \in remote_bufs \cap raddr
    /\ op' = [kind |-> "unmap", buf |-> b]
    /\ UNCHANGED <<size, lists, invokes, remote, file, orphaned>>

\* The answer to MUNMAP.  After an error nothing changes.
PagesRemoved ==
    /\ op # NULL
    /\ op.kind = "unmap"
    /\ \/ dsp' = dsp \ {op.buf} /\ BufFree(op.buf)
       \/ /\ Faults \cap {"be", "msg"} # {}
          /\ UNCHANGED <<dsp, size, remote_bufs, raddr>>
    /\ op' = NULL
    /\ UNCHANGED <<cached_bufs, num_cached_buf, invokes, be, file, orphaned>>

-----------------------------------------------------------------------------
(***************************************************************************)
(* vfastrpc_file_free, when no ioctl is running: what is left are invokes  *)
(* interrupted by a signal, and asynchronous ones.                         *)
(***************************************************************************)

\* virt_fastrpc_close ends the process of the last INIT on the DSP.  Some of what
\* the DSP works on stays when it fails, is left out because dsp_proc_init is not
\* set, or an earlier INIT has a process of its own.
CloseFile ==
    /\ file = "open"
    /\ op = NULL
    /\ \A c \in Ctxs : ctx[c] \in {"idle", "sent"}
    /\ file' = "ctxs"
    /\ \/ /\ be' = {}
          /\ dsp' = {}
          /\ UNCHANGED orphaned
       \/ /\ "close" \in Faults
          /\ orphaned' = TRUE
          /\ be' \in SUBSET be
          /\ dsp' \in SUBSET dsp
    /\ UNCHANGED <<size, lists, invokes, op>>

\* vfastrpc_context_list_dtor: one context at a time.
DropCtx(c) ==
    /\ file = "ctxs"
    /\ ctx[c] = "sent"
    /\ \A d \in Ctxs : ctx[d] # "free"
    /\ ctx' = [ctx EXCEPT ![c] = "free"]
    /\ UNCHANGED <<size, lists, desc, need, op, remote, file, orphaned>>

CtxsDropped ==
    /\ file = "ctxs"
    /\ \A c \in Ctxs : ctx[c] = "idle"
    /\ file' = "cached"
    /\ UNCHANGED <<size, lists, invokes, op, remote, orphaned>>

\* vfastrpc_cached_buf_list_free.
DropCached ==
    /\ file = "cached"
    /\ \/ \E b \in cached_bufs :
            /\ cached_bufs' = cached_bufs \ {b}
            /\ num_cached_buf' = num_cached_buf - 1
            /\ BufFree(b)
            /\ UNCHANGED file
       \/ /\ cached_bufs = {}
          /\ file' = "remote"
          /\ UNCHANGED <<size, lists>>
    /\ UNCHANGED <<invokes, op, remote, orphaned>>

\* vfastrpc_remote_buf_list_free.
DropRemote ==
    /\ file = "remote"
    /\ \/ \E b \in remote_bufs : BufFree(b) /\ UNCHANGED file
       \/ /\ remote_bufs = {}
          /\ file' = "closed"
          /\ UNCHANGED <<size, remote_bufs, raddr>>
    /\ UNCHANGED <<cached_bufs, num_cached_buf, invokes, op, remote, orphaned>>

-----------------------------------------------------------------------------

Invoke(c) ==
    \/ BeginInvoke(c)
    \/ \E i \in Descs, n \in Sizes : GetInternal(c, i, n)
    \/ SendInvoke(c)
    \/ Answer(c)
    \/ Collect(c)
    \/ \E i \in Descs : FreeDesc(c, i)
    \/ FreeCtx(c)

Heap ==
    \/ \E b \in Bufs, n \in Sizes : AddPages(b, n)
    \/ PagesAdded
    \/ \E b \in Bufs : RemovePages(b)
    \/ PagesRemoved

Release ==
    \/ \E c \in Ctxs : DropCtx(c)
    \/ CtxsDropped
    \/ DropCached
    \/ DropRemote

BufNext ==
    \/ \E c \in Ctxs : Invoke(c)
    \/ Heap
    \/ CloseFile
    \/ Release

BufSpec == BufInit /\ [][BufNext]_bufVars

-----------------------------------------------------------------------------
(***************************************************************************)
(* Properties.                                                             *)
(***************************************************************************)

BufTypeOK ==
    /\ size \in [Bufs -> Sizes \cup {0}]
    /\ cached_bufs \subseteq Bufs
    /\ num_cached_buf \in Nat
    /\ remote_bufs \subseteq Bufs
    /\ raddr \subseteq Bufs
    /\ desc \in [Ctxs -> [Descs -> Bufs \cup {NULL}]]
    /\ need \in [Ctxs -> [Descs -> Sizes \cup {0}]]
    /\ ctx \in [Ctxs -> {"idle", "args", "sent", "free"}]
    /\ op \in [kind: {"map", "unmap"}, buf: Bufs] \cup {NULL}
    /\ be \subseteq Ctxs
    /\ dsp \subseteq Bufs
    /\ file \in {"open", "ctxs", "cached", "remote", "closed"}
    /\ orphaned \in BOOLEAN

HeldBy(c) == {desc[c][i] : i \in Descs} \ {NULL}

\* An allocated buffer is in exactly one place - the cache, one descriptor of
\* one invoke, or the list of remote buffers - and a freed one in none: two
\* invokes never copy into the same buffer, and none is lost.  The release of
\* the file leaves none behind.
BufAccounted ==
    /\ \A c, d \in Ctxs : \A i, j \in Descs :
          desc[c][i] # NULL /\ desc[c][i] = desc[d][j] => c = d /\ i = j
    /\ \A c \in Ctxs : HeldBy(c) \cap (cached_bufs \cup remote_bufs) = {}
    /\ cached_bufs \cap remote_bufs = {}
    /\ {b \in Bufs : size[b] # 0} =
          cached_bufs \cup remote_bufs \cup UNION {HeldBy(c) : c \in Ctxs}
    /\ file = "closed" => \A b \in Bufs : size[b] = 0

\* The count that limits the cache is the length of the list, through all the
\* interleavings of vfastrpc_buf_alloc and vfastrpc_buf_free, and a cached
\* buffer is one the size limit lets in.
CacheCounted ==
    /\ num_cached_buf = Cardinality(cached_bufs)
    /\ \A b \in cached_bufs : size[b] < MaxCacheSize

\* MAX_CACHED_BUFS is the "Maximum buffers cached in cached buffer list", as the
\* comment at its definition says.
CacheLimit == Cardinality(cached_bufs) <= MaxCached

\* A buffer from the cache holds the argument it is used for.
BufFits ==
    \A c \in Ctxs, i \in Descs :
        desc[c][i] # NULL => need[c][i] <= size[desc[c][i]]

\* Memory the back end may write to is not given to anybody else: the buffers
\* of an invoke it is working on stay with that invoke, and pages mapped into
\* the DSP process stay on remote_bufs, where munmap finds them by their raddr.
\* The release frees them only after the process on the DSP is closed; a process
\* it does not close is the exception.
DspMemoryKept ==
    ~orphaned =>
        /\ \A c \in be : ctx[c] = "sent"
        /\ \A b \in dsp : b \in remote_bufs /\ size[b] # 0
        /\ file = "open" => dsp = remote_bufs \cap raddr

=============================================================================
