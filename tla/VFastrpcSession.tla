-------------------------- MODULE VFastrpcSession ---------------------------
(***************************************************************************)
(* The life of a file before and after its invokes: GETINFO, which makes   *)
(* the debugfs file and chooses the domain, INIT, which opens a session on *)
(* the DSP, and the release, which undoes both.  The threads of a process  *)
(* may make these calls at the same time; only debug_buf_alloced_attempted *)
(* is guarded by a lock (fl->hlock).                                       *)
(*                                                                         *)
(* The checks of attributes and device nodes only refuse a call: they are  *)
(* the fault "refuse".  Whether the driver has its debugfs directory is    *)
(* for probe to say, in VFastrpcDevice.                                    *)
(***************************************************************************)
EXTENDS Naturals, FiniteSets

CONSTANTS
    Threads,
    Domains,    \* numbers below me->num_channels
    OtherDomains,  \* and others user space may ask for
    Cids,       \* channel ids the back end hands out, each once
    Faults,     \* which of "mem", "debugfs", "refuse", "msg" may happen
    MaxCalls,   \* bound on the calls of GETINFO and INIT
    NULL

ASSUME SessionAssumption ==
    /\ NULL \notin Threads \cup Domains \cup OtherDomains \cup Cids
    /\ Domains \cap OtherDomains = {}
    /\ Faults \subseteq {"mem", "debugfs", "refuse", "msg"}
    /\ MaxCalls \in Nat

VARIABLES
    file,          \* "open", the steps of vfastrpc_file_free, and "free"
    attempted,     \* debug_buf_alloced_attempted
    debug_buf,     \* the thread whose buffer it is
    debugfs_file,  \* the thread whose debugfs file it is
    domain,        \* vfl->domain
    cid,           \* fl->cid
    dsp_proc_init,
    bufs,          \* debug buffers allocated
    dentries,      \* debugfs files in the directory of the driver
    sessions,      \* sessions of the file at the back end
    pc,
    arg,           \* domain GETINFO was given
    ans,           \* channel id in the answer to OPEN
    raced,         \* history: two threads found that the domain was not set
    overwritten,   \* history: values fl->cid had before the last
    unclosed,      \* history: CLOSE failed
    calls          \* GETINFO and INIT so far

debugVars == <<attempted, debug_buf, debugfs_file, bufs, dentries>>

openVars == <<cid, dsp_proc_init, sessions, ans, overwritten>>

sessionVars == <<file, debugVars, domain, openVars, pc, arg, raced, unclosed,
                 calls>>

\* After vfastrpc_file_alloc.
SessionInit ==
    /\ file = "open"
    /\ attempted = FALSE
    /\ debug_buf = NULL
    /\ debugfs_file = NULL
    /\ domain = NULL
    /\ cid = NULL
    /\ dsp_proc_init = FALSE
    /\ bufs = {}
    /\ dentries = {}
    /\ sessions = {}
    /\ pc = [t \in Threads |-> "idle"]
    /\ arg = [t \in Threads |-> NULL]
    /\ ans = [t \in Threads |-> NULL]
    /\ raced = FALSE
    /\ overwritten = {}
    /\ unclosed = FALSE
    /\ calls = 0

Go(t, from, to) == pc[t] = from /\ pc' = [pc EXCEPT ![t] = to]

\* An ioctl begins: the file is not being released.
Begin(t, to) ==
    /\ file = "open"
    /\ calls < MaxCalls
    /\ calls' = calls + 1
    /\ Go(t, "idle", to)

-----------------------------------------------------------------------------
(***************************************************************************)
(* GETINFO: vfastrpc_set_process_info.                                     *)
(***************************************************************************)

GetInfo(t, d) ==
    /\ Begin(t, "attempt")
    /\ arg' = [arg EXCEPT ![t] = d]
    /\ UNCHANGED <<file, debugVars, domain, openVars, raced, unclosed>>

\* Wrong: the flag is set once the buffer is there.
Attempt_Late(t) ==
    /\ Go(t, "attempt", IF attempted THEN "domain" ELSE "alloc")
    /\ attempted' = (debug_buf # NULL)
    /\ UNCHANGED <<file, debug_buf, debugfs_file, bufs, dentries, domain,
                   openVars, arg, raced, unclosed, calls>>

\* Under hlock: one thread at a time makes the file.
Attempt(t) ==
    /\ Go(t, "attempt", IF attempted THEN "domain" ELSE "alloc")
    /\ attempted' = TRUE
    /\ UNCHANGED <<file, debug_buf, debugfs_file, bufs, dentries, domain,
                   openVars, arg, raced, unclosed, calls>>

\* There is no debugfs_root, and nothing to make.
NoDirectory(t) ==
    /\ Go(t, "attempt", "domain")
    /\ UNCHANGED <<file, debugVars, domain, openVars, arg, raced, unclosed, calls>>

AllocDebug(t) ==
    /\ Go(t, "alloc", "create")
    /\ debug_buf' = t
    /\ bufs' = bufs \cup {t}
    /\ UNCHANGED <<file, attempted, debugfs_file, dentries, domain, openVars,
                   arg, raced, unclosed, calls>>

\* No memory: GETINFO fails, and may be tried again.
AllocDebugFails(t) ==
    /\ "mem" \in Faults
    /\ Go(t, "alloc", "idle")
    /\ debug_buf' = NULL
    /\ attempted' = FALSE
    /\ UNCHANGED <<file, debugfs_file, bufs, dentries, domain, openVars, arg,
                   raced, unclosed, calls>>

CreateDebug(t) ==
    /\ Go(t, "create", "domain")
    /\ debugfs_file' = t
    /\ dentries' = dentries \cup {t}
    /\ UNCHANGED <<file, attempted, debug_buf, bufs, domain, openVars, arg,
                   raced, unclosed, calls>>

\* No debugfs file: the buffer is freed, then the flag cleared.
CreateDebugFails(t) ==
    /\ "debugfs" \in Faults
    /\ Go(t, "create", "clear")
    /\ debugfs_file' = NULL
    /\ bufs' = bufs \ {debug_buf}
    /\ debug_buf' = NULL
    /\ UNCHANGED <<file, attempted, dentries, domain, openVars, arg, raced,
                   unclosed, calls>>

ClearAttempted(t) ==
    /\ Go(t, "clear", "domain")
    /\ attempted' = FALSE
    /\ UNCHANGED <<file, debug_buf, debugfs_file, bufs, dentries, domain,
                   openVars, arg, raced, unclosed, calls>>

-----------------------------------------------------------------------------
(***************************************************************************)
(* GETINFO: vfastrpc_internal_get_info.                                    *)
(***************************************************************************)

\* Wrong: the last call chooses the domain.
Unset_Always == TRUE

\* "if (vfl->domain == -1)".
Unset == domain = NULL

\* "VERIFY(err, domain < vfl->apps->num_channels)".
Valid(d) == d \in Domains

CheckDomain(t) ==
    /\ \/ Unset /\ Valid(arg[t]) /\ Go(t, "domain", "choose")
       \/ ~Unset /\ Go(t, "domain", "idle")
       \/ Unset /\ ~Valid(arg[t]) /\ Go(t, "domain", "idle")
       \/ Unset /\ "refuse" \in Faults /\ Go(t, "domain", "idle")
    /\ raced' = (raced \/ \E u \in Threads : u # t /\ pc[u] = "choose")
    /\ UNCHANGED <<file, debugVars, domain, openVars, arg, unclosed, calls>>

\* "vfl->domain = domain".
ChooseDomain(t) ==
    /\ Go(t, "choose", "idle")
    /\ domain' = arg[t]
    /\ UNCHANGED <<file, debugVars, openVars, arg, raced, unclosed, calls>>

-----------------------------------------------------------------------------
(***************************************************************************)
(* INIT: vfastrpc_internal_init_process and virt_fastrpc_open.             *)
(***************************************************************************)

\* A call that passes the checks.  Before the domain is set they are made on
\* whatever channel[-1] is, and so may be passed too.
InitProcess(t) ==
    /\ Begin(t, "open")
    /\ UNCHANGED <<file, debugVars, domain, openVars, arg, raced, unclosed>>

\* OPEN is answered: the back end has a session with a new channel id.  It has
\* none for the domain -1.
OpenSession(t) ==
    /\ Go(t, "open", "opened")
    /\ domain # NULL
    /\ \E c \in Cids \ ({s.cid : s \in sessions} \cup overwritten) :
           /\ sessions' = sessions \cup {[cid |-> c, domain |-> domain]}
           /\ ans' = [ans EXCEPT ![t] = c]
    /\ UNCHANGED <<file, debugVars, domain, cid, dsp_proc_init, overwritten,
                   arg, raced, unclosed, calls>>

\* No message, no answer or an answer with an error.
OpenFails(t) ==
    /\ "msg" \in Faults \/ domain = NULL
    /\ Go(t, "open", "idle")
    /\ UNCHANGED <<file, debugVars, domain, openVars, arg, raced, unclosed,
                   calls>>

\* Wrong: the first channel id is kept.
TakeCid_First(t) == IF cid = NULL THEN ans[t] ELSE cid

\* "fl->cid = rsp->hdr.cid".
TakeCid(t) == ans[t]

Opened(t) ==
    /\ Go(t, "opened", "proc")
    /\ cid' = TakeCid(t)
    /\ overwritten' = overwritten \cup ({cid} \ {NULL})
    /\ UNCHANGED <<file, debugVars, domain, dsp_proc_init, sessions, ans, arg,
                   raced, unclosed, calls>>

ProcInit(t) ==
    /\ Go(t, "proc", "idle")
    /\ dsp_proc_init' = TRUE
    /\ UNCHANGED <<file, debugVars, domain, cid, sessions, ans, overwritten,
                   arg, raced, unclosed, calls>>

-----------------------------------------------------------------------------
(***************************************************************************)
(* The release: vfastrpc_file_free, up to virt_fastrpc_close.              *)
(***************************************************************************)

\* The last reference to the file is gone: no call is running.
Release ==
    /\ file = "open"
    /\ \A t \in Threads : pc[t] = "idle"
    /\ file' = "debug"
    /\ UNCHANGED <<debugVars, domain, openVars, pc, arg, raced, unclosed, calls>>

\* debugfs_remove and kfree.
RemoveDebug ==
    /\ dentries' = dentries \ {debugfs_file}
    /\ bufs' = bufs \ {debug_buf}
    /\ debugfs_file' = NULL
    /\ debug_buf' = NULL

ReleaseDebug ==
    /\ file = "debug"
    /\ RemoveDebug
    /\ file' = "close"
    /\ UNCHANGED <<attempted, domain, openVars, pc, arg, raced, unclosed, calls>>

\* "This cmd is only required when PD is opened on DSP".
Close ==
    /\ file = "close"
    /\ file' = "free"
    /\ \/ dsp_proc_init /\ sessions' = {s \in sessions : s.cid # cid}
                        /\ UNCHANGED unclosed
       \/ dsp_proc_init /\ "msg" \in Faults
                        /\ unclosed' = TRUE /\ UNCHANGED sessions
       \/ ~dsp_proc_init /\ UNCHANGED <<sessions, unclosed>>
    /\ UNCHANGED <<debugVars, domain, cid, dsp_proc_init, ans, overwritten, pc,
                   arg, raced, calls>>

-----------------------------------------------------------------------------

\* The steps of a thread but the test of debugfs_root.
ThreadStep(t) ==
    \/ \E d \in Domains \cup OtherDomains : GetInfo(t, d)
    \/ AllocDebug(t)
    \/ AllocDebugFails(t)
    \/ CreateDebug(t)
    \/ CreateDebugFails(t)
    \/ ClearAttempted(t)
    \/ CheckDomain(t)
    \/ ChooseDomain(t)
    \/ InitProcess(t)
    \/ OpenSession(t)
    \/ OpenFails(t)
    \/ Opened(t)
    \/ ProcInit(t)

ReleaseStep == Release \/ ReleaseDebug \/ Close

SessionNext ==
    \/ \E t \in Threads : ThreadStep(t) \/ Attempt(t) \/ NoDirectory(t)
    \/ ReleaseStep

SessionSpec == SessionInit /\ [][SessionNext]_sessionVars

-----------------------------------------------------------------------------
(***************************************************************************)
(* Properties.                                                             *)
(***************************************************************************)

Points == {"idle", "attempt", "alloc", "create", "clear", "domain", "choose",
           "open", "opened", "proc"}

SessionTypeOK ==
    /\ file \in {"open", "debug", "close", "free"}
    /\ attempted \in BOOLEAN
    /\ debug_buf \in Threads \cup {NULL}
    /\ debugfs_file \in Threads \cup {NULL}
    /\ domain \in Domains \cup {NULL}
    /\ cid \in Cids \cup {NULL}
    /\ dsp_proc_init \in BOOLEAN
    /\ bufs \subseteq Threads
    /\ dentries \subseteq Threads
    /\ sessions \subseteq [cid: Cids, domain: Domains]
    /\ pc \in [Threads -> Points]
    /\ arg \in [Threads -> Domains \cup OtherDomains \cup {NULL}]
    /\ ans \in [Threads -> Cids \cup {NULL}]
    /\ raced \in BOOLEAN
    /\ overwritten \subseteq Cids
    /\ unclosed \in BOOLEAN
    /\ calls \in 0 .. MaxCalls

\* However the calls of GETINFO overlap and fail, a file has one debug buffer
\* and one debugfs file at most, those its pointers name, so that the release
\* removes them before it frees what the debugfs file shows.
DebugAccounted ==
    /\ bufs = {debug_buf} \ {NULL}
    /\ dentries = {debugfs_file} \ {NULL}
    /\ file \in {"close", "free"} => bufs = {} /\ dentries = {}

\* After the release the back end has no session of the file, unless CLOSE
\* failed or INIT was called again and the channel id of the session before
\* overwritten.
SessionsClosed ==
    file = "free" /\ ~unclosed => \A s \in sessions : s.cid \in overwritten

\* The domain of a file is that of the sessions it has opened, unless two calls
\* of GETINFO both found that there was none.
SessionsOfDomain ==
    raced \/ \A s \in sessions : s.domain = domain

=============================================================================
