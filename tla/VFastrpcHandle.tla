--------------------------- MODULE VFastrpcHandle ---------------------------
(***************************************************************************)
(* The DMA handles an invoke passes to the DSP.  get_args maps a handle    *)
(* with address 0 and length 0, so its map is found by its fd alone and is *)
(* no map of a buffer (VFastrpcMmap).  The DSP keeps a handle beyond the   *)
(* invoke that passed it: context_free leaves the map, and the fdlist of   *)
(* some later answer says that the DSP is done with it.                    *)
(*                                                                         *)
(* What runs under map_mutex is one step.  KEEP_MAP is cleared for a       *)
(* handle, so every reference of its map is one of a context.              *)
(***************************************************************************)
EXTENDS Naturals, Sequences, FiniteSets, FiniteSetsExt, Functions

CONSTANTS
    Ctxs,        \* invokes under way at a time
    Fds,         \* fds of the dma-bufs; 0 is one like any other
    MaxHandles,  \* bound: the handles of an invoke
    MaxFdList,   \* M_FDLIST
    MaxRefs,     \* bound: the references of a map
    Failing      \* which of AllFaults the environment may cause

AllFaults == {"dmabuf", "msg", "result", "close"}

ASSUME HandleAssumption ==
    /\ IsFiniteSet(Ctxs) /\ Fds \subseteq Nat
    /\ MaxHandles \in Nat /\ MaxFdList \in Nat /\ MaxRefs \in Nat
    /\ Failing \subseteq AllFaults

VARIABLES
    map,       \* refs and ctx_refs of the map of each fd, 0 when there is none
    ctx,       \* where each invoke is
    held,      \* the handles it has mapped and not yet sent
    answer,    \* fdlist of the answer to it
    uses,      \* external: how often the DSP has each fd
    file,      \* where vfastrpc_file_free is
    lost,      \* history: fds of which a reference can no longer be dropped
    orphaned   \* history: the release has not ended all that runs on the DSP

handleVars == <<map, ctx, held, answer, uses, file, lost, orphaned>>

HandleInit ==
    /\ map = [d \in Fds |-> [refs |-> 0, ctx_refs |-> 0]]
    /\ ctx = [c \in Ctxs |-> "idle"]
    /\ held = [c \in Ctxs |-> <<>>]
    /\ answer = [c \in Ctxs |-> <<>>]
    /\ uses = [d \in Fds |-> 0]
    /\ file = "open"
    /\ lost = {}
    /\ orphaned = FALSE

Times(list, d) == Cardinality({k \in 1 .. Len(list) : list[k] = d})

\* Lists of up to n fds.
FdLists(n) == UNION {[1 .. m -> Fds] : m \in 0 .. n}

Mapped(M, d) == M[d].refs > 0 \/ M[d].ctx_refs > 0

-----------------------------------------------------------------------------
(***************************************************************************)
(* The counters, as functions on the maps M.                               *)
(***************************************************************************)

\* Wrong: the reference is taken only when the map is made.
Take_First(M, d) ==
    IF Mapped(M, d) THEN M
    ELSE [M EXCEPT ![d] = [refs |-> @.refs + 1, ctx_refs |-> @.ctx_refs + 1]]

\* vfastrpc_mmap_create finds the map or makes one; then "ctx_refs++".
Take(M, d) ==
    [M EXCEPT ![d] = [refs |-> @.refs + 1, ctx_refs |-> @.ctx_refs + 1]]

\* "if (maps[j] && maps[j]->ctx_refs) maps[j]->ctx_refs--" and
\* vfastrpc_mmap_free(vfl, map, 0), which leaves a map without refs alone.
Put(M, d) ==
    [M EXCEPT ![d] = [refs |-> IF @.refs > 0 THEN @.refs - 1 ELSE 0,
                      ctx_refs |-> IF @.ctx_refs > 0 THEN @.ctx_refs - 1 ELSE 0]]

TakeAll(M, hs) ==
    LET taken[n \in 0 .. Len(hs)] ==
            IF n = 0 THEN M ELSE Take(taken[n - 1], hs[n])
    IN  taken[Len(hs)]

PutAll(M, hs) ==
    LET left[n \in 0 .. Len(hs)] ==
            IF n = 0 THEN M ELSE Put(left[n - 1], hs[n])
    IN  left[Len(hs)]

-----------------------------------------------------------------------------
(***************************************************************************)
(* The invokes.                                                            *)
(***************************************************************************)

\* get_args maps the handles in one section.
GetHandles(c, hs) ==
    /\ file = "open"
    /\ ctx[c] = "idle"
    /\ \A d \in Fds : TakeAll(map, hs)[d].refs <= MaxRefs
    /\ map' = TakeAll(map, hs)
    /\ held' = [held EXCEPT ![c] = hs]
    /\ ctx' = [ctx EXCEPT ![c] = "args"]
    /\ UNCHANGED <<answer, uses, file, lost, orphaned>>

\* Wrong: the references taken before the error are kept.
GetFails_Keeps(c, hs, d) ==
    /\ "dmabuf" \in Failing
    /\ file = "open"
    /\ ctx[c] = "idle"
    /\ ~Mapped(TakeAll(map, hs), d)
    /\ map' = TakeAll(map, hs)
    /\ ctx' = [ctx EXCEPT ![c] = "free"]
    /\ UNCHANGED <<held, answer, uses, file, lost, orphaned>>

\* The dma-buf of d cannot be mapped: the handles hs before it are put back.
GetFails(c, hs, d) ==
    /\ "dmabuf" \in Failing
    /\ file = "open"
    /\ ctx[c] = "idle"
    /\ ~Mapped(TakeAll(map, hs), d)
    /\ map' = PutAll(TakeAll(map, hs), hs)
    /\ ctx' = [ctx EXCEPT ![c] = "free"]
    /\ UNCHANGED <<held, answer, uses, file, lost, orphaned>>

\* The message has the pages of each handle and is sent; the DSP has them now.
SendInvoke(c) ==
    /\ ctx[c] = "args"
    /\ ctx' = [ctx EXCEPT ![c] = "sent"]
    /\ uses' = [d \in Fds |-> uses[d] + Times(held[c], d)]
    /\ held' = [held EXCEPT ![c] = <<>>]
    /\ UNCHANGED <<map, answer, file, lost, orphaned>>

\* The message cannot be allocated, filled in or queued: nobody puts the
\* handles back.
SendFails(c) ==
    /\ "msg" \in Failing
    /\ ctx[c] = "args"
    /\ ctx' = [ctx EXCEPT ![c] = "free"]
    /\ held' = [held EXCEPT ![c] = <<>>]
    /\ lost' = lost \cup Range(held[c])
    /\ UNCHANGED <<map, answer, uses, file, orphaned>>

\* External: the answer lists handles the DSP is done with, whoever passed them.
Answer(c, list) ==
    /\ ctx[c] = "sent"
    /\ \A d \in Fds : Times(list, d) <= uses[d]
    /\ uses' = [d \in Fds |-> uses[d] - Times(list, d)]
    /\ answer' = [answer EXCEPT ![c] = list]
    /\ ctx' = [ctx EXCEPT ![c] = "answered"]
    /\ UNCHANGED <<map, held, file, lost, orphaned>>

\* "if (!fdlist[i]) break": an entry for fd 0 ends the list.
Listed(list) ==
    LET read == {n \in 0 .. Len(list) : \A k \in 1 .. n : list[k] # 0}
    IN  SubSeq(list, 1, Max(read))

\* put_args: the maps of the fds listed lose a reference.
Collect(c) ==
    /\ file = "open"
    /\ ctx[c] = "answered"
    /\ map' = PutAll(map, Listed(answer[c]))
    /\ lost' = lost \cup
          {answer[c][k] : k \in Len(Listed(answer[c])) + 1 .. Len(answer[c])}
    /\ answer' = [answer EXCEPT ![c] = <<>>]
    /\ ctx' = [ctx EXCEPT ![c] = "free"]
    /\ UNCHANGED <<held, uses, file, orphaned>>

\* The result is an error, or a buffer cannot be copied out: put_args does not
\* get to the list.
CollectFails(c) ==
    /\ "result" \in Failing
    /\ file = "open"
    /\ ctx[c] = "answered"
    /\ lost' = lost \cup Range(answer[c])
    /\ answer' = [answer EXCEPT ![c] = <<>>]
    /\ ctx' = [ctx EXCEPT ![c] = "free"]
    /\ UNCHANGED <<map, held, uses, file, orphaned>>

-----------------------------------------------------------------------------
(***************************************************************************)
(* vfastrpc_file_free, when no ioctl is running.                           *)
(***************************************************************************)

\* virt_fastrpc_close ends the process of the last INIT on the DSP.  Some of what
\* the DSP has stays when it fails, is left out because dsp_proc_init is not set,
\* or an earlier INIT has a process of its own.
CloseFile ==
    /\ file = "open"
    /\ \A c \in Ctxs : ctx[c] \in {"idle", "sent", "answered"}
    /\ file' = "ctxs"
    /\ \/ uses' = [d \in Fds |-> 0] /\ UNCHANGED orphaned
       \/ /\ "close" \in Failing
          /\ orphaned' = TRUE
          /\ \E stay \in SUBSET Fds :
                uses' = [d \in Fds |-> IF d \in stay THEN uses[d] ELSE 0]
    /\ UNCHANGED <<map, ctx, held, answer, lost>>

\* context_free, at the end of the invoke or by the release: it puts back the
\* maps of the nbufs buffers, and none of a handle.
ContextFree(c) ==
    /\ ctx[c] = "free" \/ (file = "ctxs" /\ ctx[c] \in {"sent", "answered"})
    /\ answer' = [answer EXCEPT ![c] = <<>>]
    /\ ctx' = [ctx EXCEPT ![c] = "idle"]
    /\ UNCHANGED <<map, held, uses, file, lost, orphaned>>

ContextsFreed ==
    /\ file = "ctxs"
    /\ \A c \in Ctxs : ctx[c] = "idle"
    /\ file' = "maps"
    /\ UNCHANGED <<map, ctx, held, answer, uses, lost, orphaned>>

\* vfastrpc_mmap_free(vfl, map, 1): it leaves a map without refs alone, too.
ForceFree(m) == IF m.refs > 0 THEN [refs |-> 0, ctx_refs |-> 0] ELSE m

FreeMaps ==
    /\ file = "maps"
    /\ map' = [d \in Fds |-> ForceFree(map[d])]
    /\ file' = "closed"
    /\ UNCHANGED <<ctx, held, answer, uses, lost, orphaned>>

-----------------------------------------------------------------------------

HandleNext ==
    \/ \E c \in Ctxs :
        \/ \E hs \in FdLists(MaxHandles) \ {<<>>} : GetHandles(c, hs)
        \/ \E hs \in FdLists(MaxHandles - 1), d \in Fds : GetFails(c, hs, d)
        \/ SendInvoke(c)
        \/ SendFails(c)
        \/ \E list \in FdLists(MaxFdList) : Answer(c, list)
        \/ Collect(c)
        \/ CollectFails(c)
        \/ ContextFree(c)
    \/ CloseFile
    \/ ContextsFreed
    \/ FreeMaps

HandleSpec == HandleInit /\ [][HandleNext]_handleVars

-----------------------------------------------------------------------------
(***************************************************************************)
(* Properties.                                                             *)
(***************************************************************************)

HandleTypeOK ==
    /\ map \in [Fds -> [refs: 0 .. MaxRefs, ctx_refs: 0 .. MaxRefs]]
    /\ ctx \in [Ctxs -> {"idle", "args", "sent", "answered", "free"}]
    /\ held \in [Ctxs -> FdLists(MaxHandles)]
    /\ answer \in [Ctxs -> FdLists(MaxFdList)]
    /\ uses \in [Fds -> 0 .. MaxRefs]
    /\ file \in {"open", "ctxs", "maps", "closed"}
    /\ lost \subseteq Fds
    /\ orphaned \in BOOLEAN

\* The places of the lists of all invokes where fd d is.
Places(lists, d) ==
    UNION {{c} \X {k \in 1 .. Len(lists[c]) : lists[c][k] = d} : c \in Ctxs}

\* The references to fd d somebody still answers for: those the DSP has, those
\* of an invoke that is not sent yet, and those an answer under way gives back.
Due(d) ==
    uses[d] + Cardinality(Places(held, d)) + Cardinality(Places(answer, d))

\* A handle stays mapped while the DSP has it, however many invokes passed it
\* and whichever of them are over, and while get_args copies its pages into the
\* message without map_mutex.
HandleKept ==
    ~orphaned =>
        \A d \in Fds :
            uses[d] + Cardinality(Places(held, d)) <= map[d].refs

\* A reference outlives its use only where the code loses it: an invoke that
\* fails after the handles are mapped, an answer put_args does not read to its
\* end, an fd 0 in the list.  refs and ctx_refs move together all the same (a
\* difference would keep the map or free it early), and the release frees the
\* maps of all handles, the lost ones too.
HandlesExact ==
    \A d \in Fds :
        /\ map[d].refs = map[d].ctx_refs
        /\ file = "open" /\ d \notin lost => map[d].refs = Due(d)
        /\ file = "closed" => ~Mapped(map, d)

=============================================================================
