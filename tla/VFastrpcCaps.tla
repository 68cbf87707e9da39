---------------------------- MODULE VFastrpcCaps ----------------------------
(***************************************************************************)
(* The DSP capabilities that the front end keeps for each channel:         *)
(* vfastrpc_get_info_from_kernel asks the back end at most until is_cached *)
(* is set, and takes no lock.  Each thread has a file of its own, whose    *)
(* GETINFO has set vfl->domain; the domain it asks about is another        *)
(* argument.                                                               *)
(*                                                                         *)
(* Two of the attributes are told apart: UNSIGNED_PD_SUPPORT, which sets   *)
(* unsigned_support of the channel, and ASYNC_FASTRPC_CAP, which the front *)
(* end overrides.  The others are as good as the domain they come from.    *)
(***************************************************************************)
EXTENDS Naturals

CONSTANTS
    Threads,
    Domains,    \* indices of me->channel
    Faults,     \* {"be"} if the query may fail
    MaxAsks,    \* bound on the requests
    NULL

ASSUME CapsAssumption ==
    /\ NULL \notin Domains
    /\ Faults \subseteq {"be"}
    /\ MaxAsks \in Nat

VARIABLES
    dsp,        \* unsigned support of each DSP, as the back end reports it
    own,        \* vfl->domain of each thread's file
    caps,       \* dsp_attributes of each channel
    is_cached,
    unsigned,   \* unsigned_support of each channel
    pc,
    dom,        \* cap->domain
    val,        \* the attribute read for unsigned_support
    res,        \* cap->capability of the last request that succeeded
    foreign,    \* history: domains that a file of another domain filled
    refilled,   \* history: domains filled while another thread used them
    asks        \* requests so far

shared == <<caps, is_cached, unsigned>>

hist == <<foreign, refilled>>

capsVars == <<dsp, own, shared, pc, dom, val, res, hist, asks>>

Attributes == [of: Domains \cup {NULL}, async: BOOLEAN]

\* The channels are zeroed, but for unsigned_support of some.
CapsInit ==
    /\ dsp \in [Domains -> BOOLEAN]
    /\ own \in [Threads -> Domains]
    /\ caps = [d \in Domains |-> [of |-> NULL, async |-> FALSE]]
    /\ is_cached = [d \in Domains |-> FALSE]
    /\ unsigned \in [Domains -> BOOLEAN]
    /\ pc = [t \in Threads |-> "idle"]
    /\ dom = [t \in Threads |-> NULL]
    /\ val = [t \in Threads |-> FALSE]
    /\ res = [t \in Threads |-> NULL]
    /\ foreign = {}
    /\ refilled = {}
    /\ asks = 0

-----------------------------------------------------------------------------

Go(t, from, to) == pc[t] = from /\ pc' = [pc EXCEPT ![t] = to]

\* The request begins: "else if (!dsp_cap_ptr->is_cached)".
Ask(t, d) ==
    /\ asks < MaxAsks
    /\ Go(t, "idle", IF is_cached[d] THEN "read" ELSE "query")
    /\ asks' = asks + 1
    /\ dom' = [dom EXCEPT ![t] = d]
    /\ res' = [res EXCEPT ![t] = NULL]
    /\ UNCHANGED <<dsp, own, shared, val, hist>>

\* Threads past the test of is_cached that are still to set it.
Filling(d) ==
    {t \in Threads : dom[t] = d /\ pc[t] \in {"unsigned", "set", "async", "copy", "cached"}}

\* virt_fastrpc_get_dsp_info asks for vfl->domain ...
Queried(t) == own[t]

\* Wrong: the channel is marked as cached before the override.
Query_Cached(t) ==
    /\ Go(t, "query", "unsigned")
    /\ caps' = [caps EXCEPT ![dom[t]] = [of |-> Queried(t), async |-> FALSE]]
    /\ is_cached' = [is_cached EXCEPT ![dom[t]] = TRUE]
    /\ UNCHANGED <<dsp, own, unsigned, dom, val, res, hist, asks>>

\* ... and copies the answer into the channel of cap->domain.
Query(t) ==
    /\ Go(t, "query", "unsigned")
    /\ LET d == dom[t]
       IN  /\ caps' = [caps EXCEPT ![d] = [of |-> Queried(t), async |-> FALSE]]
           /\ foreign' = IF own[t] = d THEN foreign ELSE foreign \cup {d}
           /\ refilled' = IF is_cached[d] \/ Filling(d) # {}
                          THEN refilled \cup {d} ELSE refilled
    /\ UNCHANGED <<dsp, own, is_cached, unsigned, dom, val, res, asks>>

\* "if (err) goto bail".
QueryFails(t) ==
    /\ "be" \in Faults
    /\ Go(t, "query", "idle")
    /\ UNCHANGED <<dsp, own, shared, dom, val, res, hist, asks>>

\* unsigned_support = !!dsp_attributes[UNSIGNED_PD_SUPPORT]: a read ...
ReadUnsigned(t) ==
    /\ Go(t, "unsigned", "set")
    /\ val' = [val EXCEPT ![t] = dsp[caps[dom[t]].of]]
    /\ UNCHANGED <<dsp, own, shared, dom, res, hist, asks>>

\* Wrong: support is only ever withdrawn.
SetUnsigned_Withdraws(t) ==
    /\ Go(t, "set", "async")
    /\ unsigned' = [unsigned EXCEPT ![dom[t]] = @ /\ val[t]]
    /\ UNCHANGED <<dsp, own, caps, is_cached, dom, val, res, hist, asks>>

\* ... and a write.
SetUnsigned(t) ==
    /\ Go(t, "set", "async")
    /\ unsigned' = [unsigned EXCEPT ![dom[t]] = val[t]]
    /\ UNCHANGED <<dsp, own, caps, is_cached, dom, val, res, hist, asks>>

\* dsp_attributes[ASYNC_FASTRPC_CAP] = 1.
SetAsync(t) ==
    /\ Go(t, "async", "copy")
    /\ caps' = [caps EXCEPT ![dom[t]].async = TRUE]
    /\ UNCHANGED <<dsp, own, is_cached, unsigned, dom, val, res, hist, asks>>

CopyOut(t) ==
    /\ Go(t, "copy", "cached")
    /\ res' = [res EXCEPT ![t] = caps[dom[t]]]
    /\ UNCHANGED <<dsp, own, shared, dom, val, hist, asks>>

SetCached(t) ==
    /\ Go(t, "cached", "idle")
    /\ is_cached' = [is_cached EXCEPT ![dom[t]] = TRUE]
    /\ UNCHANGED <<dsp, own, caps, unsigned, dom, val, res, hist, asks>>

\* "Information on Kernel, pass it to user".
ReadCached(t) ==
    /\ Go(t, "read", "idle")
    /\ res' = [res EXCEPT ![t] = caps[dom[t]]]
    /\ UNCHANGED <<dsp, own, shared, dom, val, hist, asks>>

CapsNext ==
    \E t \in Threads :
        \/ \E d \in Domains : Ask(t, d)
        \/ Query(t)
        \/ QueryFails(t)
        \/ ReadUnsigned(t)
        \/ SetUnsigned(t)
        \/ SetAsync(t)
        \/ CopyOut(t)
        \/ SetCached(t)
        \/ ReadCached(t)

CapsSpec == CapsInit /\ [][CapsNext]_capsVars

-----------------------------------------------------------------------------
(***************************************************************************)
(* Properties.                                                             *)
(***************************************************************************)

CapsTypeOK ==
    /\ dsp \in [Domains -> BOOLEAN]
    /\ own \in [Threads -> Domains]
    /\ caps \in [Domains -> Attributes]
    /\ is_cached \in [Domains -> BOOLEAN]
    /\ unsigned \in [Domains -> BOOLEAN]
    /\ pc \in [Threads -> {"idle", "read", "query", "unsigned", "set", "async",
                           "copy", "cached"}]
    /\ dom \in [Threads -> Domains \cup {NULL}]
    /\ \A t \in Threads : pc[t] # "idle" => dom[t] # NULL
    /\ val \in [Threads -> BOOLEAN]
    /\ res \in [Threads -> Attributes \cup {NULL}]
    /\ foreign \subseteq Domains
    /\ refilled \subseteq Domains
    /\ asks \in 0 .. MaxAsks

\* A caller is given attributes of the DSP it asked about, as long as no file of
\* another domain has filled the channel, and never those of an empty channel,
\* whichever of the queries fail.  It is told of the asynchronous invokes, unless
\* two threads filled the channel and the second undid the override of the first.
AnswerGood ==
    \A t \in Threads :
        res[t] # NULL =>
            /\ res[t].of = dom[t] \/ (dom[t] \in foreign /\ res[t].of # NULL)
            /\ res[t].async \/ dom[t] \in refilled

\* A channel that is cached and that nobody is filling has the override, and
\* its unsigned_support is that of its DSP, however many threads filled it.
CacheSettles ==
    \A d \in Domains :
        is_cached[d] /\ Filling(d) = {} =>
            /\ caps[d].async
            /\ d \notin foreign => unsigned[d] = dsp[d]

=============================================================================
