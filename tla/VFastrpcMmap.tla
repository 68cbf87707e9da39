---------------------------- MODULE VFastrpcMmap ----------------------------
(***************************************************************************)
(* The dma-buf maps of one open file (virtio_fastrpc_mem.c): the list      *)
(* fl->maps with the two counters of a map, refs and ctx_refs, and the     *)
(* operations that count them: the contexts of the invokes (get_args,      *)
(* put_args, context_free), mmap, munmap, mem_map, mem_unmap and           *)
(* munmap_fd, and the release of the file.                                 *)
(*                                                                         *)
(* What runs under map_mutex is one step.  The ioctls that map and unmap   *)
(* hold internal_map_mutex from their first step to their last, across     *)
(* the message to the back end; invokes do not take it.  The messages are  *)
(* those of VirtFastrpcMsg: here a message is answered well or fails.      *)
(*                                                                         *)
(* A range of addresses is abstracted to the fd it belongs to, so one fd   *)
(* is one buffer.  The file is initialised (dsp_proc_init = 1).  DMA       *)
(* handles are in VFastrpcHandle, the pages of ADSP_MMAP_ADD_PAGES in      *)
(* VFastrpcBuf.                                                            *)
(***************************************************************************)
EXTENDS Naturals, Sequences, FiniteSetsExt

CONSTANTS
    Maps,      \* the struct vfastrpc_mmap objects the allocator hands out
    Ctxs,      \* invoke contexts
    Fds,       \* dma-buf file descriptors
    Keeps,     \* the values of FASTRPC_ATTR_KEEP_MAP the callers use
    MaxArgs,   \* bound: the buffers of an invoke
    MaxUses,   \* bound: the buffers of all the invokes under way
    MaxRefs,   \* bound: the references of a map
    Faults,    \* which of {"dmabuf", "be"} the environment may cause
    NULL

\* struct vfastrpc_mmap; table and raddr say that it has an sg table and that
\* its raddr is not 0.  Two counters are not in the code.  owed counts the
\* references that belong to no context and that munmap, mem_unmap and munmap_fd
\* are to give back: the one of FASTRPC_ATTR_KEEP_MAP, those of mmap and mem_map,
\* and that of an object vfastrpc_mmap_create could not free.  missing counts
\* those of them that refs has lost to a munmap the back end refused.
MapRecs == [fd: Fds, keep: BOOLEAN, table: BOOLEAN, raddr: BOOLEAN,
            refs: Nat, ctx_refs: Nat, owed: Nat, missing: Nat]

\* An entry of ctx->maps, and whether its buffer is an output.
Args == [map: Maps, out: BOOLEAN]

MapKinds == {"mmap", "mem_map"}

UnmapKinds == {"munmap", "mem_unmap"}

Ops == [kind: MapKinds \cup UnmapKinds \cup {"munmap_fd"}, map: Maps \cup {NULL}]

ASSUME MmapAssumption ==
    /\ IsFiniteSet(Ctxs)
    /\ NULL \notin Maps \cup MapRecs \cup Args \cup Ops
    /\ Keeps \subseteq BOOLEAN
    /\ MaxArgs \in Nat /\ MaxUses \in Nat /\ MaxRefs \in Nat

VARIABLES
    mem,      \* the allocated maps
    maps,     \* fl->maps, head first
    ctx,      \* the contexts: how far they are and ctx->maps, with the buffers
              \* put_args gives the user marked out
    op,       \* the holder of internal_map_mutex and its map
    file,     \* the life of the file
    abnormal, \* history: vfastrpc_mmap_free met a map with refs <= 0
    over      \* history: munmap_fd took a reference a context had

vars == <<mem, maps, ctx, op, file, abnormal, over>>

MmapInit ==
    /\ mem = [i \in Maps |-> NULL]
    /\ maps = <<>>
    /\ ctx = [c \in Ctxs |-> [st |-> "idle", args |-> <<>>]]
    /\ op = NULL
    /\ file = "open"
    /\ abnormal = FALSE
    /\ over = FALSE

-----------------------------------------------------------------------------
(***************************************************************************)
(* virtio_fastrpc_mem.c, as functions on the state M of the maps.          *)
(***************************************************************************)

Allocated == {i \in Maps : mem[i] # NULL}

State == [mem |-> mem, maps |-> maps, abnormal |-> abnormal]

Becomes(M) == mem' = M.mem /\ maps' = M.maps /\ abnormal' = M.abnormal

\* Wrong: the contexts that refer to the map are not looked at.
Unreferenced_Refs(refs, ctx_refs) == refs = 0

\* "if (!map->refs && !map->ctx_refs)".
Unreferenced(refs, ctx_refs) == refs = 0 /\ ctx_refs = 0

OnList(list, i) == \E k \in 1 .. Len(list) : list[k] = i

\* Wrong: the map stays on the list.
Unlinked_Not(list, i) == list

\* hlist_del_init.
Unlinked(list, i) ==
    LET k == CHOOSE j \in DOMAIN list : list[j] = i IN
    IF OnList(list, i) THEN SubSeq(list, 1, k - 1) \o SubSeq(list, k + 1, Len(list))
    ELSE list

\* vfastrpc_mmap_free.
MmapFree(M, i, force) ==
    LET m == M.mem[i]
        refs == IF force THEN 0 ELSE m.refs - 1
        ctx_refs == IF force THEN 0 ELSE m.ctx_refs IN
    IF m.refs <= 0 THEN [M EXCEPT !.abnormal = TRUE]
    ELSE IF Unreferenced(refs, ctx_refs)
    THEN [M EXCEPT !.mem[i] = NULL, !.maps = Unlinked(@, i)]
    ELSE [M EXCEPT !.mem[i].refs = refs]

\* The places of the maps for fd on the list.
Matching(M, fd) == {k \in DOMAIN M.maps : M.mem[M.maps[k]].fd = fd}

\* vfastrpc_mmap_find: the first of them.
Found(M, fd) == M.maps[Min(Matching(M, fd))]

\* vfastrpc_mmap_create, which also takes the reference of vfastrpc_mmap_find.
\* A new object is not one the holder of internal_map_mutex still points to.
MmapCreate(M, fd, keep) ==
    IF Matching(M, fd) # {}
    THEN LET i == Found(M, fd) IN {<<[M EXCEPT !.mem[i].refs = @ + 1], i>>}
    ELSE {<<[M EXCEPT !.mem[i] = [fd |-> fd, keep |-> keep,
                                  table |-> TRUE, raddr |-> FALSE,
                                  refs |-> IF keep THEN 2 ELSE 1,
                                  ctx_refs |-> 0,
                                  owed |-> IF keep THEN 1 ELSE 0,
                                  missing |-> 0],
                      !.maps = <<i>> \o @], i>> :
             i \in {j \in Maps : mem[j] = NULL /\ (op # NULL => op.map # j)}}

\* vfastrpc_mmap_create when the dma-buf cannot be attached, or for the flags of
\* a heap, which are not supported.  vfastrpc_mmap_free takes one of the two
\* references of a map that is to be kept, and none of a heap: the new object is
\* left, on no list.
MmapCreateFails(M, fd, keep, heap) ==
    IF ~keep /\ ~heap THEN {M}
    ELSE {[M EXCEPT !.mem[i] = [fd |-> fd, keep |-> keep,
                                table |-> FALSE, raddr |-> FALSE,
                                refs |-> 1, ctx_refs |-> 0,
                                owed |-> 1, missing |-> 0]] :
             i \in {j \in Maps : mem[j] = NULL /\ (op # NULL => op.map # j)}}

\* The references of map m, those refs has lost included, are within the bound.
Bounded(m) == m.refs + m.missing <= MaxRefs /\ m.owed < MaxRefs

\* Wrong: the contexts that refer to the map are not looked at.
Removable_Refs(i) ==
    mem[i].refs = 1 \/ (mem[i].refs = 2 /\ mem[i].keep)

\* vfastrpc_mmap_remove finds map i, whose raddr may be 0.
Removable(i) ==
    /\ mem[i].refs = 1 \/ (mem[i].refs = 2 /\ mem[i].keep)
    /\ mem[i].ctx_refs = 0

-----------------------------------------------------------------------------
(***************************************************************************)
(* The contexts.                                                           *)
(***************************************************************************)

\* "maps[i]->ctx_refs++".
CtxGet(M, i) == [M EXCEPT !.mem[i].ctx_refs = @ + 1]

\* "if (maps[i]->ctx_refs) maps[i]->ctx_refs--" and vfastrpc_mmap_free.
CtxPut(M, i) ==
    MmapFree([M EXCEPT !.mem[i].ctx_refs = IF @ > 0 THEN @ - 1 ELSE 0], i, FALSE)

\* The loop of context_free over ctx->maps.
CtxPutAll(M, args) ==
    LET put[n \in 0 .. Len(args)] ==
            IF n = 0 THEN M
            ELSE IF args[n] = NULL THEN put[n - 1]
            ELSE CtxPut(put[n - 1], args[n].map)
    IN put[Len(args)]

\* The buffers of all the contexts.
Uses == {u \in Ctxs \X (1 .. MaxArgs) : u[2] <= Len(ctx[u[1]].args)}

\* get_args maps the next buffer.  Output buffers follow the inputs.
GetArg(c, fd, keep, out) ==
    /\ file = "open"
    /\ ctx[c].st \in {"idle", "args"}
    /\ Len(ctx[c].args) < MaxArgs /\ Cardinality(Uses) < MaxUses
    /\ \A k \in DOMAIN ctx[c].args : ctx[c].args[k].out => out
    /\ \E r \in MmapCreate(State, fd, keep) :
        /\ Bounded(r[1].mem[r[2]])
        /\ Becomes(CtxGet(r[1], r[2]))
        /\ ctx' = [ctx EXCEPT ![c] =
              [st |-> "args", args |-> Append(@.args, [map |-> r[2], out |-> out])]]
    /\ UNCHANGED <<op, file, over>>

GetArgFails(c, fd, keep) ==
    /\ "dmabuf" \in Faults
    /\ file = "open"
    /\ ctx[c].st \in {"idle", "args"}
    /\ Len(ctx[c].args) < MaxArgs
    /\ Matching(State, fd) = {}
    /\ \E M \in MmapCreateFails(State, fd, keep, FALSE) : Becomes(M)
    /\ ctx' = [ctx EXCEPT ![c].st = "free"]
    /\ UNCHANGED <<op, file, over>>

\* virt_fastrpc_invoke, or an error before it.
Invoke(c) ==
    /\ ctx[c].st = "args"
    /\ \E s \in {"sent", "free"} : ctx' = [ctx EXCEPT ![c].st = s]
    /\ UNCHANGED <<mem, maps, op, file, abnormal, over>>

\* The answer: put_args goes on unless its result is an error.
Answered(c) ==
    /\ ctx[c].st = "sent"
    /\ file = "open"
    /\ \E s \in {"put", "free"} : ctx' = [ctx EXCEPT ![c].st = s]
    /\ UNCHANGED <<mem, maps, op, file, abnormal, over>>

\* put_args is done with the next output buffer, or with all of them, or it
\* fails to copy one that is not mapped.
PutArg(c) ==
    /\ ctx[c].st = "put"
    /\ LET args == ctx[c].args
           outs == {k \in DOMAIN args : args[k] # NULL /\ args[k].out} IN
       \/ /\ ctx' = [ctx EXCEPT ![c].st = "free"]
          /\ UNCHANGED <<mem, maps, abnormal>>
       \/ /\ outs # {}
          /\ LET k == Min(outs) IN
             /\ Becomes(CtxPut(State, args[k].map))
             /\ ctx' = [ctx EXCEPT ![c].args[k] = NULL]
    /\ UNCHANGED <<op, file, over>>

\* context_free, called at the end of the invoke or by the release for a
\* context that is interrupted or was never collected.
ContextFree(c) ==
    /\ ctx[c].st = "free" \/ (ctx[c].st = "sent" /\ file = "ctxs")
    /\ Becomes(CtxPutAll(State, ctx[c].args))
    /\ ctx' = [ctx EXCEPT ![c] = [st |-> "idle", args |-> <<>>]]
    /\ UNCHANGED <<op, file, over>>

-----------------------------------------------------------------------------
(***************************************************************************)
(* The ioctls that hold internal_map_mutex.                                *)
(***************************************************************************)

\* vfastrpc_internal_mmap and vfastrpc_internal_mem_map up to the message.
\* Only mem_map passes the attributes of the caller.
MapBegin(kind, fd, keep) ==
    /\ file = "open"
    /\ op = NULL
    /\ kind = "mmap" => ~keep
    /\ \E r \in MmapCreate(State, fd, keep) :
        /\ Bounded(r[1].mem[r[2]])
        /\ Becomes(r[1])
        /\ op' = [kind |-> kind, map |-> r[2]]
    /\ UNCHANGED <<ctx, file, over>>

\* The flags are those of the caller; vfastrpc_mmap_find finds nothing for the
\* flags of a heap.
MapCreateFails(kind, fd, keep, heap) ==
    /\ file = "open"
    /\ op = NULL
    /\ kind = "mmap" => ~keep
    /\ heap \/ ("dmabuf" \in Faults /\ Matching(State, fd) = {})
    /\ \E M \in MmapCreateFails(State, fd, keep, heap) : Becomes(M)
    /\ UNCHANGED <<ctx, op, file, over>>

\* The back end has mapped the buffer: map->raddr is set.  A context may have
\* freed the map meanwhile: then the write hits memory nobody reads any more.
MapDone(i) ==
    /\ op # NULL /\ op.kind \in MapKinds /\ op.map = i
    /\ i \in Allocated => (op.kind = "mem_map" => ~mem[i].raddr)
    /\ mem' = IF i \in Allocated
              THEN [mem EXCEPT ![i] = [mem[i] EXCEPT !.raddr = TRUE, !.owed = @ + 1]]
              ELSE mem
    /\ op' = NULL
    /\ UNCHANGED <<maps, ctx, file, abnormal, over>>

\* The back end has failed, or mem_map finds that map->raddr is set (-EEXIST).
MapRefused(i) ==
    /\ op # NULL /\ op.kind \in MapKinds /\ op.map = i
    /\ \/ "be" \in Faults
       \/ op.kind = "mem_map" /\ (i \in Allocated => mem[i].raddr)

\* Wrong: the reference of vfastrpc_mmap_create is kept.
MapFails_Keeps(i) ==
    /\ MapRefused(i)
    /\ op' = NULL
    /\ UNCHANGED <<mem, maps, abnormal, ctx, file, over>>

\* The reference is given back.  If the map has been freed meanwhile the memory
\* still has its last refs, 0.
MapFails(i) ==
    /\ MapRefused(i)
    /\ Becomes(IF i \in Allocated THEN MmapFree(State, i, FALSE)
               ELSE [State EXCEPT !.abnormal = TRUE])
    /\ op' = NULL
    /\ UNCHANGED <<ctx, file, over>>

\* vfastrpc_internal_munmap and vfastrpc_internal_mem_unmap up to the message:
\* vfastrpc_mmap_remove takes the map off the list.
UnmapBegin(kind, i) ==
    /\ file = "open"
    /\ op = NULL
    /\ OnList(maps, i)
    /\ Removable(i)
    /\ mem' = IF mem[i].keep
              THEN [mem EXCEPT ![i] = [mem[i] EXCEPT !.refs = @ - 1,
                                          !.owed = IF @ > mem[i].missing
                                                   THEN @ - 1 ELSE @]]
              ELSE mem
    /\ maps' = Unlinked(maps, i)
    /\ op' = [kind |-> kind, map |-> i]
    /\ UNCHANGED <<ctx, file, abnormal, over>>

\* Wrong: the map is not freed.
UnmapDone_Forgets(i) ==
    /\ op # NULL /\ op.kind \in UnmapKinds /\ op.map = i
    /\ op' = NULL
    /\ UNCHANGED <<mem, maps, abnormal, ctx, file, over>>

\* The back end has unmapped the buffer.
UnmapDone(i) ==
    /\ op # NULL /\ op.kind \in UnmapKinds /\ op.map = i
    /\ Becomes(MmapFree(State, i, FALSE))
    /\ op' = NULL
    /\ UNCHANGED <<ctx, file, over>>

\* The back end fails, or mem_unmap finds a map of vfastrpc_internal_mmap: the
\* map is added again, by mem_unmap with the reference vfastrpc_mmap_remove took,
\* by munmap without it.
UnmapFails(i) ==
    /\ op # NULL /\ op.kind \in UnmapKinds /\ op.map = i
    /\ "be" \in Faults \/ op.kind = "mem_unmap"
    /\ mem' = IF ~mem[i].keep THEN mem
              ELSE IF op.kind = "mem_unmap"
              THEN [mem EXCEPT ![i] = [mem[i] EXCEPT !.refs = @ + 1, !.owed = @ + 1]]
              ELSE [mem EXCEPT ![i] = [mem[i] EXCEPT !.missing = @ + 1, !.owed = @ + 1]]
    /\ maps' = <<i>> \o maps
    /\ op' = NULL
    /\ UNCHANGED <<ctx, file, abnormal, over>>

\* vfastrpc_mmap_remove_fd frees map i.
Kept(fd, i) == mem[i].fd = fd /\ mem[i].keep

TakeOwed(M, i) == IF M.mem[i].refs > 0 /\ M.mem[i].owed > M.mem[i].missing
                  THEN [M EXCEPT !.mem[i].owed = @ - 1] ELSE M

\* The loop of vfastrpc_mmap_remove_fd over fl->maps.
RemoveFd(M, fd) ==
    LET free[n \in 0 .. Len(maps)] ==
            IF n = 0 THEN M
            ELSE IF ~Kept(fd, maps[n]) THEN free[n - 1]
            ELSE MmapFree(TakeOwed(free[n - 1], maps[n]), maps[n], FALSE)
    IN free[Len(maps)]

MunmapFd(fd) ==
    /\ file = "open"
    /\ op = NULL
    /\ \E i \in Range(maps) : Kept(fd, i)
    /\ Becomes(RemoveFd(State, fd))
    /\ over' = (over \/ \E i \in Range(maps) :
                            /\ Kept(fd, i) /\ mem[i].refs > 0
                            /\ mem[i].owed = mem[i].missing)
    /\ op' = [kind |-> "munmap_fd", map |-> NULL]
    /\ UNCHANGED <<ctx, file>>

\* The answer to virt_fastrpc_munmap_fd, or a signal.
MunmapFdDone ==
    /\ op # NULL /\ op.kind = "munmap_fd"
    /\ op' = NULL
    /\ UNCHANGED <<mem, maps, ctx, file, abnormal, over>>

-----------------------------------------------------------------------------
(***************************************************************************)
(* vfastrpc_file_free, when no thread is in an ioctl.                      *)
(***************************************************************************)

Release ==
    /\ file = "open"
    /\ op = NULL
    /\ \A c \in Ctxs : ctx[c].st \in {"idle", "sent"}
    /\ file' = "ctxs"
    /\ UNCHANGED <<mem, maps, ctx, op, abnormal, over>>

ContextsFreed ==
    /\ file = "ctxs"
    /\ \A c \in Ctxs : ctx[c].st = "idle"
    /\ file' = "maps"
    /\ UNCHANGED <<mem, maps, ctx, op, abnormal, over>>

\* vfastrpc_mmap_free(vfl, lmap, 1) for the head of the list, until it is empty.
FreeMaps ==
    /\ file = "maps"
    /\ \/ /\ maps # <<>>
          /\ Becomes(MmapFree(State, Head(maps), TRUE))
          /\ UNCHANGED file
       \/ /\ maps = <<>>
          /\ file' = "closed"
          /\ UNCHANGED <<mem, maps, abnormal>>
    /\ UNCHANGED <<ctx, op, over>>

-----------------------------------------------------------------------------

Context(c) ==
    \/ \E fd \in Fds, keep \in Keeps, out \in BOOLEAN : GetArg(c, fd, keep, out)
    \/ \E fd \in Fds, keep \in Keeps : GetArgFails(c, fd, keep)
    \/ Invoke(c)
    \/ Answered(c)
    \/ PutArg(c)
    \/ ContextFree(c)

Mapping ==
    \/ \E kind \in MapKinds, fd \in Fds, keep \in Keeps :
            \/ MapBegin(kind, fd, keep)
            \/ \E heap \in BOOLEAN : MapCreateFails(kind, fd, keep, heap)
    \/ \E i \in Maps : MapDone(i) \/ MapFails(i)
    \/ \E kind \in UnmapKinds, i \in Maps : UnmapBegin(kind, i)
    \/ \E i \in Maps : UnmapDone(i) \/ UnmapFails(i)
    \/ \E fd \in Fds : MunmapFd(fd)
    \/ MunmapFdDone

MmapNext ==
    \/ \E c \in Ctxs : Context(c)
    \/ Mapping
    \/ Release
    \/ ContextsFreed
    \/ FreeMaps

MmapSpec == MmapInit /\ [][MmapNext]_vars

-----------------------------------------------------------------------------
(***************************************************************************)
(* Properties.                                                             *)
(***************************************************************************)

MmapTypeOK ==
    /\ mem \in [Maps -> MapRecs \cup {NULL}]
    /\ maps \in Seq(Allocated)
    /\ IsInjective(maps)
    /\ \A c \in Ctxs :
        /\ ctx[c].st \in {"idle", "args", "sent", "put", "free"}
        /\ ctx[c].args \in Seq(Args \cup {NULL})
    /\ op \in Ops \cup {NULL}
    /\ file \in {"open", "ctxs", "maps", "closed"}
    /\ abnormal \in BOOLEAN /\ over \in BOOLEAN

\* The references of the contexts to map i.
CtxUses(i) ==
    {u \in Uses :
        /\ ctx[u[1]].args[u[2]] # NULL
        /\ ctx[u[1]].args[u[2]].map = i}

\* get_args, put_args and context_free follow ctx->maps[i] without holding a
\* lock in between: a map a context refers to is never freed under it, whatever
\* munmap, munmap_fd and other invokes do, and ctx_refs counts these references.
CtxMapsLive ==
    \A i \in Maps :
        IF i \in Allocated THEN mem[i].ctx_refs = Cardinality(CtxUses(i))
        ELSE CtxUses(i) = {}

\* While the back end unmaps a buffer no invoke uses it, and none can find it.
UnmapExclusive ==
    op # NULL /\ op.kind \in UnmapKinds =>
        /\ op.map \in Allocated
        /\ ~OnList(maps, op.map)
        /\ CtxUses(op.map) = {}

\* Unless munmap_fd has taken the reference of an invoke under way, refs counts
\* the references there are but for the ones a refused munmap of a kept map has
\* lost, which are never more than those owed: however many are lost, none is
\* that of a context, and the map that mmap or mem_map goes on with after the
\* back end has answered is still there.
RefsExact ==
    ~over =>
        /\ op # NULL /\ op.kind \in MapKinds => op.map \in Allocated
        /\ \A i \in Allocated :
            /\ mem[i].missing <= mem[i].owed
            /\ mem[i].refs + mem[i].missing = mem[i].ctx_refs + mem[i].owed
                + IF op # NULL /\ op.kind \in MapKinds /\ op.map = i THEN 1 ELSE 0

\* The release frees every map, if vfastrpc_mmap_free never met one without
\* references, but for those vfastrpc_mmap_create made no sg table for and put
\* on no list.
MapsReclaimed ==
    file = "closed" /\ ~abnormal => \A i \in Allocated : ~mem[i].table

=============================================================================
