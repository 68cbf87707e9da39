# Verification of the virtual fastrpc front end and its companion drivers

TLA+ modules, TLC runs and TLAPS proofs for the drivers in `src/`.  The largest
of them is the virtio front end of fastrpc (`src/drivers/virtual_fastrpc/dsp`):
processes of a guest call functions of a DSP through a back end on the host.  Of
the other drivers those with concurrency are modelled too: the silent boot mode
with its GPIO monitor, and the restart notification of subsystems.

## The system

| Part | Source | Module |
|---|---|---|
| message table, tx and rx buffers | `virtio_fastrpc_queue.c`, `virt_alloc_msg`, `virt_free_msg` in `virtio_fastrpc_core.c` | `VirtFastrpcMsg` |
| receive interrupt | `recv_done`, `recv_single` in `virtio_fastrpc_base.c` | `VirtFastrpcMsg`, `VFastrpcInvoke` |
| ioctls that send a message, signals and restarts, asynchronous invokes, open and release | `virtio_fastrpc_core.c`, `virtio_fastrpc_base.c` | `VFastrpcInvoke` |
| what a call promises its user | the two above together | `RemoteCall` |
| dma-buf maps | `virtio_fastrpc_mem.c` and its callers in `virtio_fastrpc_core.c` | `VFastrpcMmap` |
| DMA handles | `get_args`, `put_args`, `vfastrpc_mmap_free` | `VFastrpcHandle` |
| internal buffers: cache and remote buffers | `vfastrpc_buf_alloc`, `vfastrpc_buf_free` and their callers | `VFastrpcBuf` |
| session: GETINFO, INIT, CLOSE | `virtio_fastrpc_core.c`, `virtio_fastrpc_base.c` | `VFastrpcSession` |
| capability cache | `vfastrpc_get_info_from_kernel` | `VFastrpcCaps` |
| probe and remove | `virtio_fastrpc_base.c` | `VFastrpcProbe` |
| the device with a file on it | the two above together | `VFastrpcDevice` |
| silent boot mode and its GPIO monitor | `silent_boot.c`, `silent-mode-hw-monitoring.c` | `SilentMode` |
| subsystem restart notification | `subsystem_notif_virt.c` | `SubsysNotif` |
| the rest | see "Not modelled" | none |

A call takes a slot of the message table and a tx buffer, fills in a request,
puts it in the send queue and waits for the completion of the message.  The back
end writes its answer into an rx buffer; the interrupt finds the message by the
id in the answer, stores the buffer in the message and completes it.  The caller
reads the answer, gives the rx buffer back and frees the message.  Around this:

* A signal ends the wait of an invoke or of munmap_fd.  The context or command
  is kept on a list of the file.  An invoke is restarted by the kernel and resumes
  its context; munmap_fd returns 0 (`virtio_fastrpc_core.c:1634`), and the next
  munmap_fd of the thread resumes the command.
* An asynchronous invoke does not wait: the interrupt queues its context and
  another ioctl collects it.
* The release of the file frees whatever is still on the lists, and does not
  wait for answers that are still to come.
* The buffers of an invoke are dma-buf maps, shared with other invokes and with
  the ioctls that map and unmap, and counted by `refs` and `ctx_refs`.  Handles
  are maps too, which the DSP gives back in the answer of any later invoke.
* Arguments that are no dma-bufs are copied to internal buffers, which are cached
  for the next invoke; other buffers are added to the heap of the DSP process.
* Before its first invoke a process calls GETINFO, which chooses the DSP, and
  INIT, which opens a session there; the release closes it.

## Modules

`VirtFastrpcMsg` is the message layer and the abstract view of its clients: a
message goes through the stages of `st` (`free`, `slot`, `built`, `sent`,
`reply`, `drop`), and a client may take every path the senders have.  One step
is one critical section or one access to shared memory, so the interrupt
interleaves with the owners everywhere it can in the code: `RecvLookup`,
`RecvStore`, `RecvSignal` and `RecvNext` are the accesses of `recv_single`.
`Collect` is the moment the owner reads `msg->rxbuf`, woken or - for the kinds
that can be given up - not.  The queues are sets: the back end may answer in any
order, and one interrupt may stand for several answers.  `alien` and `abandoned`
are history variables used in properties, as is the field `origin` of requests
and answers.  A write to a message that has been freed meanwhile is lost, or, if
the memory has been allocated again, hits the message that now lives there.

`VFastrpcInvoke` extends it with those who send the messages: threads and files.
Its actions are the ioctls and the release, each built from actions of
`VirtFastrpcMsg`, so that `MsgSpec` is a property of it.  `cur` is the context
or message an actor works on; `pending`, `interrupted`, `cmds` and `asyncq` are
the lists of a file.  `"cmd"` stands for every message that is waited for
uninterruptibly: OPEN (which sets `dsp_proc_init`), the map ioctls (which hold
`internal_map_mutex`), CONTROL, GET_DSP_INFO and CLOSE.  `Signalled` can happen
at every interruptible wait.  `SaveFails` is a signal during munmap_fd when there is
no memory for the list entry: the message keeps its slot, and the rx buffer of its
answer, and no thread comes back for it (`Lost`).  `FileFreed` ends the part of
`vfastrpc_file_free` that deals with messages (up to line 558); the loops over maps and
buffers are in the next modules.

`VFastrpcMmap` is the list of maps of one file with its counters.  What runs
under `map_mutex` is one step; `op` is the holder of `internal_map_mutex`, which
is held across a message to the back end.  Messages are abstracted to an answer
or a failure.  The `args` of a context are its array `ctx->maps`, with `NULL` where
`put_args` has already dropped the reference to an output buffer.  `owed` and
`missing` are history fields: the references that belong to no context and are to be
given back by an ioctl, and how many of these `refs` has lost, because munmap does not
restore the reference of a kept map that the back end refuses to unmap
(`virtio_fastrpc_core.c:1527`; mem_unmap does).

`RemoteCall` is the abstract specification of a call: the back end executes it
at most once, an answer is returned only for a call that was executed, and a call
that fails in the front end was not, as long as no call was given up while the
back end had it (`lost`).  The refinement mapping is in `VirtFastrpcMsg`: the
phase of a message is computed from its stage and from where its request is.

`VFastrpcHandle` has the counters of the map of each handle and what the DSP
holds (`uses`).  The order of an fdlist matters, since fd 0 ends it; `lost` are
the fds of references no answer can drop any more.  The loops of get_args and put_args
over a list are recursive functions, `TakeAll` and `PutAll`.  `Due(d)` counts the
places where a reference to fd d still is: with the DSP, in the handles of an invoke
that is not sent, in an answer that is not read.

`VFastrpcBuf` keeps each `struct vfastrpc_buf` with its size and place: cache,
list of remote buffers, descriptor of an invoke.  A section under `hlock` is one
step.  `be` and `dsp` are what the back end may still write to.  In this module and in
`VFastrpcHandle` CLOSE ends all that runs on the DSP, or (`orphaned`) only a part: it
may fail, it is not sent for a file without INIT (`virtio_fastrpc_core.c:546`), and it
ends the session of the last INIT only.

`VFastrpcSession` and `VFastrpcCaps` are GETINFO, INIT and GET_DSP_INFO called by
threads at the same time, one step for each access to what they share, since only
`debug_buf_alloced_attempted` has a lock.  `raced`, `overwritten`, `foreign` and
`refilled` are history variables that name the races the code does not exclude.

`VFastrpcProbe` lists what probe acquires and what each error label and remove
give back; `twice` collects what is given back without being held.

`VFastrpcDevice` puts `VFastrpcProbe` and `VFastrpcSession` together: a file can be
opened as soon as probe has made a device node, even before the device is ready, its
debugfs file needs the directory of probe, and its sessions a device that is ready.
The nodes are not removed while the file is in use (see "Not modelled").

`SilentMode` has one step for each access to an `atomic_t`, so the delayed work,
user space and registering drivers interleave.  The edge of a GPIO whose interrupt
is disabled is replayed by `enable_irq`, as the kernel does.  The values of
`linux/silent_mode.h`, which is not in the repository, are assumed: both modes are
positive, so that the forced ones are negative, and the GPIO is 1 when high.

`SubsysNotif` has the work queue as a sequence: `queue_work` of an item that is
queued does nothing, of one that runs it queues it again.  `Restart` is the back
end, `Devres` the driver core.  `missed` are subsystems whose last interrupt
found no work item or no queue.  `queue_work` on a queue that is already destroyed would
use freed memory; the model drops the item, and so says nothing of what follows.

`MC*` instantiate these modules for TLC where they need more than constants:
symmetry sets, the map of threads to the file, the steps of probe that may
fail.  `*_proofs` hold the theorems.  A definition `D_Something` directly before
`D` is a wrong version of `D`, used to make sure that a property notices.

External: `BackendFetch` and `BackendAnswer` are the back end and the virtio
queues, as far as the driver relies on them: each request is answered once, in
an available rx buffer, with the id it carried.  So are the `Answer` actions of
the DSP, `DeviceWrite`, `Restart` and `Devres`.

## What the runs check

`Faults` names what the environment may do wrong: `marshal` (an argument cannot be
copied or mapped), `tx` and `rx` (`virtqueue_add_*` fails), `len` (an answer with a
wrong length), `save` (no memory to keep an interrupted command), `be` (the back end
refuses), `dmabuf` (a buffer cannot be attached), `mem` (no memory), `msg` (no
message, or no answer), `result` (an answer with an error), `close` (the release does
not end all that runs on the DSP), `debugfs`, `refuse` (a check of attributes fails),
`probe`, `child`, `irq` (a resource is missing), `remove` (the driver is unbound).
In `VFastrpcHandle` the constant is called `Failing`; `Failing` of `VFastrpcProbe` are
the steps of probe that may fail.

| Run | Bounds | Shows |
|---|---|---|
| `msg_faults` | 2 messages of 3 kinds, 2 slots, 1 buffer each way, all faults | slots, ids and buffers are recycled but never shared, and answers not mixed up after any error; refinement of `RemoteCall` |
| `invoke_calls` | 2 threads, all kinds of calls and commands, 3 messages for 2 slots, 1 tx and 2 rx buffers, `marshal`, `save` | one owner for each context, a restart resumes, the queue of jobs and its count agree and hold answered contexts only, the release leaves nothing behind but the slots of commands that could not be saved |
| `invoke_live` | 2 threads, all kinds of calls and commands, 1 slot, 1 tx and 2 rx buffers, `marshal`, `save` | refinement of `MsgSpec`; no rx buffer is lost; calls and releases end, nobody sleeps on a queue that stays non-empty |
| `mmap_faults` | 2 invokes with two arguments in all, 1 buffer, 2 maps, up to 3 references, `be` and `dmabuf` | no map is freed or unmapped under an invoke, `refs` is exact but for what a refused munmap loses, and the release frees every map |
| `handle_faults` | 2 invokes, 3 fds with fd 0, 2 handles and 2 fdlist entries, 3 references | a handle is mapped as long as the DSP has it, its two counters agree, references are lost only where the property says, and the release reclaims all |
| `buf_faults` | 4 buffers of 3 sizes, 2 invokes with 2 descriptors, cache limit 1 | every buffer in one place, the count of the cache, no memory freed under the back end, no buffer left by the release |
| `caps_race` | 3 threads, 2 domains, 4 requests | answers are of the right domain and complete but for the two races, and the cache settles whoever filled it last |
| `device_life` | 2 buffers each way, every step of probe may fail; 3 threads, 2 valid domains and an invalid one, 4 calls | error labels and remove release what is held and nothing else, the device never writes to freed memory; one debugfs file, the sessions of one domain, and CLOSE of the last |
| `silent_live` | all boot arguments, 2 drivers, 3 values user space may write, 3 edges, 2 suspends, 1 write | user space keeps control, a forced mode holds, drivers know the mode, the hardware state follows the GPIO |
| `notif_live` | 2 virtual and 1 native subsystem, 4 changes, removal and failed probes | the last state is told, delivered and answered |
| `msgid_unique` | 2 threads, 1 file opened twice, 2 slots, 2 buffers each way | a violation: see below |
| `cache_limit` | 4 buffers of 1 size, 2 invokes with 2 descriptors, cache limit 1 | a violation: see below |

The bounds are small because what can go wrong needs few parties: two messages
compete for one slot, one buffer or one id.  `MsgMax` and `NumBufs` of 1 make
the table full and the queue empty; 2 slots make reuse out of order possible.
In `invoke_calls` a third message finds the table full.  Answers that come after
the release meet a message that is gone, or in `msgid_unique`, where the file is
opened twice, a message of its second life.  Two maps are enough for a map that
is off the list and its successor on the list.  `MaxUses` lets one invoke refer to a
buffer twice or two invokes once each.  `MaxRefs` lets two contexts and
KEEP_MAP or an ioctl have their references at the same time.  A third thread in
`caps_race` reads the cache while two others fill it; in `device_life` it
calls INIT between two that race in GETINFO.  The counters of calls, edges,
suspends, writes and changes let each happen before, during and after the
others, which is what the races need; the proofs do not use the bounds.

No run checks for deadlock, because everywhere the system may really stop: a
message that was given up can leave an rx buffer behind, a process need not open
its file again, the bounds of the counters are reached.  That what has begun ends
is stated by the liveness properties instead.

### What does not hold

`msgid_unique` shows that the code does not do what a comment says: "unique
message id" (`virtio_fastrpc_core.h:115`).  A signal ends a call, the release frees
its message while the back end has the request, and the next message gets the same
slot and so the same id; it can be completed by the answer of the first.

`cache_limit` shows the same of "Maximum buffers cached in cached buffer list"
(`virtio_fastrpc_mem.c:10`): `vfastrpc_buf_free` tests `num_cached_buf >
MAX_CACHED_BUFS` (`virtio_fastrpc_mem.c:117`) before it counts the buffer it adds, so
the cache takes `MAX_CACHED_BUFS + 1`.

Other properties hold with an exception, which names what the code does not
exclude.  Without its exception TLC finds each of them violated:

* `OwnAnswer`, `RxConserved` and `AsyncQueueSound` as long as no message was given up
  before its answer (`abandoned`), `RemoteCall` in the same way (`lost`).
* `OneOwner`, `ReleaseReclaims` and `RestartResumes` but for the commands
  `save_interrupted_cmds` found no memory for (`Lost`, `virtio_fastrpc_core.c:1564`):
  they belong to nobody, keep their slots for good, and the next munmap_fd of the thread
  sends another command.  `OneOwner` also rests on the guard of `AsyncTake`, which is not
  in the code: a job queued by the answer of an abandoned message that had its slot
  before (`alien`) is taken only if it is answered, pending and linked once.  Otherwise
  the code would free a context in use or follow a list linked to itself, and nothing
  can be said of the state after that.
* `CallsReturn` and `ReleaseEnds` except `RxStarved`: if every rx buffer holds the
  answer of an interrupted or asynchronous call that nobody collects, the next
  command waits for ever, the CLOSE of the release included.  `invoke_live` has more
  rx buffers than slots, so this never happens in it and the two properties are
  checked without that way out: in particular a release ends although a completed
  asynchronous job was never asked for.
* `RefsExact` until munmap_fd has taken the reference of an invoke (`over`):
  `vfastrpc_mmap_remove_fd` drops a reference even of a map it has just found to be in
  use; and but for the `missing` references, which a refused munmap of a kept map has
  lost: what holds is that they are never those of a context.  `MapsReclaimed` unless
  `vfastrpc_mmap_free` met a map it calls "abnormal" (`virtio_fastrpc_mem.c:295`),
  which two calls of munmap_fd during an invoke bring about, and but for maps whose
  creation failed.
* `HandlesExact` but for `lost`: the references no fdlist can name any more, because
  fd 0 ended it or the invoke failed.  `DspMemoryKept` and `HandleKept` unless the
  release left something running on the DSP (`orphaned`).
* `AnswerGood` but for `foreign` domains (asked is the domain of the file, cached the
  answer for the domain of the request, `virtio_fastrpc_core.c:2424`) and `refilled`
  ones (a second thread that found the cache empty undoes the override for
  asynchronous invokes, `virtio_fastrpc_core.c:2432`, and a reader comes in between).
* `SessionsClosed` but for `overwritten` channel ids, `SessionsOfDomain` unless two
  GETINFOs `raced`.
* `ResourcesBalanced` but for the buffers of `init_vqs`, which no error label frees,
  and unless probe had returned 0 from an error label (`lied`, when `class_create` or
  `device_create` fails, `virtio_fastrpc_base.c:993`): remove then undoes everything
  again.
* `UserControls` but for the window between the check and the update of
  `pm_silentmode_kernel_set` (`raced`, `silent_boot.c:86`), `DriversTold` but for
  drivers that registered during a change (`late`, `silent_boot.c:120`), `GpioFollowed`
  but for an edge that waits for the interrupt a resume with the GPIO at 0 left
  disabled (`silent-mode-hw-monitoring.c:134`).
* `LastStateTold` and `StateDelivered` but for `missed` interrupts, `NotifiersGone`
  unless a probe `failed`.

Four more are visible in the models and no property needs them: `recv_single` reads
`msg->ctx` after it has completed the message, when its owner may have freed it
(`virtio_fastrpc_base.c:738`, the step `RecvNext`); after an error between
`virt_alloc_msg` and the send the tx buffer is neither unused nor in the send queue,
for good (`GiveUpUnsent`); and a suspend in a forced mode uses `info`, which is NULL,
before the test (`silent-mode-hw-monitoring.c:144`, `oops`).  Objects that
`vfastrpc_mmap_create` could not free - of kept maps, and of the flags of a heap, which
`vfastrpc_mmap_free` does nothing for (`virtio_fastrpc_mem.c:289`) - are on no list, and
stay.

### Fairness

`InvokeFairSpec` assumes that a kernel thread that can run does run (weak
fairness of the steps of an actor inside an ioctl or the release), that a
pending interrupt is handled, and that no request or answer is overtaken for
ever (strong fairness for each message id, since the virtio queues are first-in
first-out and sets in the model).  Nothing makes a process call, a signal come
or a file be released, and no error has to happen.

`SilentFairSpec` has weak fairness of the delayed work (the timer fires and the
system work queue runs), `NotifFairSpec` of the work queue, of raised interrupts,
and of a probe or remove that has begun.
No edge, suspend, resume or restart has to happen.

## What is proved

`VirtFastrpcMsg_proofs`, for any number of messages, slots, buffers and workers
and any set of kinds and faults: `MsgTypeCorrect`, `TableIsSound`,
`TxIsExclusive`, `AnswersAreAddressed`, `RxIsExclusive`, `BuffersAreExclusive`,
`OwnAnswerHolds` and `RxIsConserved`.  The assumptions are those of
`ConstAssumption`: positive sizes, and `NULL` is none of the other values.

The argument is a chain of inductive invariants, each using the ones before it.

- `TypeInv` adds `PointersOK` to the type invariant: what recv_done holds in each
  state of its loop is an answer and a message, a built message has its tx buffer,
  a message to be replied for has its rx buffer.
- `TableSound` and `TxExclusive` are inductive with `TypeInv`: only the owner of a
  slot clears it, and a tx buffer below `last_sbuf` is in one of three places.
- `AddrInv` implies `AnswerAddressed`.  What is under way for a live message is in
  one of four places (send queue, back end, filled receive queue, handler), once,
  and that message is sent or being collected and is in the slot the id names.
  `AnswerAddressed` alone does not say in which stage the message is, so it would
  not exclude a second request being sent.
- `RxInv` is `RxExclusive` and that a freed message has no rx buffer; without the
  second part the next owner of the memory would come to hold an old buffer.
- `OwnInv` implies `OwnAnswer`.  While nothing has been abandoned, the message of
  everything under way is still waiting (sent, not completed, no rx buffer), and
  between the store and the completion the handler's message has its buffer and
  nothing else under way.
- `LenOK` (without length errors every answer passes the test of recv_single) and
  `RxKept` (every rx buffer is queued, filled, or held by an owner) give
  `RxConserved`, with `OwnInv`: recv_single then never drops an answer.

`MsgImplementsCall` is the refinement of `RemoteCall`, shown step by step from
`TypeInv`, `TableSound`, `AddrInv` and `OwnInv`: that a message is executed at most
once needs `AddrInv` (its request is in one place), that an answer is its own needs
`OwnInv`.

`VFastrpcInvoke_proofs`, for any number of threads, files, messages and arguments:

- `InvokeImplementsMsg`: every step of `VFastrpcInvoke` is a step of
  `VirtFastrpcMsg` or leaves it unchanged.  So the invariants above hold of the
  driver with all its callers (`InvokeInherits`), and so does the refinement of
  `RemoteCall` (`InvokeImplementsCall`).
- `InvokeTypesAreKept`, `EveryCallHasOneOwner`, `ReleaseLeavesNothing`,
  `JobQueueIsSound` and `RestartsResume`: the invariants of `invoke_calls`.

They follow from the inductive invariant `InvokeInv`, in three parts.  `CallInv` says
whose a context is: `Owner` that a context in somebody's hands belongs to that
thread or to a file being released, and that one in nobody's hands is kept on one of
the lists; `PcInv` that a thread in an ioctl keeps its file open and that a list the
release has emptied stays empty, without which an ioctl could add to it.
`AnswerInv` says of the interrupt handler that a message whose answer is still under
way is not completed: an asynchronous context is then queued at most once.
`AsyncInv` says that an asynchronous invoke under way is in nobody's hands
(`FlightInv`) and what the queue of an open file holds (`QueueInv`).  The last two
need the invariants of the message layer, which the refinement provides: a job is
queued for the context that was sent because `AddrInv` says whose answer it is.
A command that could not be saved is in nobody's hands and on no list, and stays sent:
`Owner` says that nothing else is.

`VFastrpcMmap_proofs`, for any number of maps, contexts, descriptors, arguments and
references and any faults: `MapTypesAreKept`, `ContextMapsLive`, `UnmapIsExclusive`,
`ReferencesAreExact` and `ReleaseFreesMaps`.  The inductive invariant `MmapInv` says
of each map on its own (`Counted`) what its counters count, `missing` included, given
the references of the contexts, whether the holder of `internal_map_mutex` is mapping
or unmapping it, and whether munmap_fd has taken a reference of a context.  Three
things have to be added to the properties of the run.

- A map that is being unmapped has at most one reference left and is off the list.
  Otherwise the end of munmap would not free it, and the release not find it.
- A map with an sg table is on the list unless it is being unmapped.
- The list has each map once, and only allocated ones, so that taking a map off the
  list takes it off for good.

Every operation touches one map (`Touches`), so `Counted` of the others is kept
whatever it did.  The two loops, of `context_free` over `ctx->maps` and of
`vfastrpc_mmap_remove_fd` over the list, are recursive functions in the model; that
they keep the invariant is shown round by round, from the least round that would
not.  The assumptions are those of `MmapAssumption`: there are finitely many contexts
(their references are counted by a `Cardinality`), `MaxArgs`, `MaxUses` and `MaxRefs` are
natural numbers, and `NULL` is no map, record or operation.

`VFastrpcDevice_proofs` has the theorems of `VFastrpcProbe` and `VFastrpcSession`.
For any number of buffers and any failing steps: `ProbeTypesAreKept`,
`ProbeBalancesResources` and `DeviceMemoryIsHeld`.  `HeldInv` says what is held at
each step of probe and remove, including the buffers the loops have got through so
far.  For any number of threads and calls: `DebugIsAccounted`, `SessionsAreClosed`,
`SessionsAreOfDomain` and `SessionTypeCorrect`.  `DebugInv` says that the thread that
set the flag is alone with the buffer and the file until it has cleared it; `OpenInv`
where the channel id of each session is.  `DeviceImplementsParts` shows that every step of
`VFastrpcDevice` is a step of one of the two that leaves the other alone, so that all this
holds of the device with a file on it (`DeviceInherits`).

`VFastrpcBuf_proofs`, for any buffers, invokes, sizes, limits and faults:
`BufsAreAccounted`, `CacheIsCounted`, `DspMemoryIsKept` and `BufsFit`.  The
invariant `BufInv` has `Places` (the accounting, buffer by buffer), `CacheInv` (the
cache is finite and counted), `Stages` (what each stage of the release has left
behind, without which nothing says that the cache stays empty) and `HeapInv` (what
munmap can find is what the DSP has mapped).

`SilentMode_proofs`, for any drivers, boot arguments and written values:
`UserIsInControl`, `ForcedModeHolds`, `DriversAreTold` and `SilentTypeCorrect`,
each from an invariant of its own.  `ForcedInv` says that in a forced mode no
timer, latched edge or work ever exists; `ToldInv` that a driver knows the mode
but between a change and the call of the chain; `DepthInv` that the interrupt a
resume enables has been disabled.

`SubsysNotif_proofs`: `LastStateIsTold` and `NotifiersAreGone`.  `Covered` says of
every subsystem that its state is known or that something under way - an interrupt,
an item in the queue, a work that has read this very state - will make it so.

`VFastrpcHandleCaps_proofs` has the theorems of `VFastrpcCaps` and `VFastrpcHandle`,
which share nothing else.

Of the capabilities, for any number of threads and domains: `AnswersAreGood` and
`CacheDoesSettle`.  `Overridden` is the point: the override is in place, or the thread
that undid it is still before its own.

Of the handles, for any invokes, fds, lengths of lists, references and faults:
`HandleTypesAreKept`, `HandlesStayMapped` and `HandlesAreExact`, from the inductive
invariant `HandleInv`.  The properties of the run are not inductive: when an answer is
collected, `HandleKept` does not say that the references it gives back are there
besides those the DSP still has, and the `uses` would exceed `refs`.  So `HandleInv`
compares `refs` with all that is due (`Backed`): never less than `Due(d)` until the
maps are freed, and equal to it while the file is open and no reference of d was lost.
`InvokeInv` says in which stage an invoke has handles and in which a list, without which
freeing a context could drop one that is due, and `FileInv` that nothing is with the
DSP after a CLOSE that ended all.  The rest is counting.

- What the loops compute has a closed form: after n rounds `refs` of d has grown, or
  gone down to zero at most, by how often d is among the first n of the list.  That the
  recursive function of the loop is this one is shown from the least round that would
  differ.  It follows that the error path of get_args restores every counter (`PutBack`),
  and that what put_args does not read of an answer (`Listed`) is what becomes `lost`.
- `Due` is a number of places in the lists of all invokes.  A step replaces the list of
  one invoke, so the count changes by the difference of how often d is in the two
  (`PlacesChange`).  This needs finitely many invokes (`HandleAssumption`).

The assumptions are those on the constants, named in each module: `NULL` is none of
the other values, sizes and bounds are naturals, `Faults` are those of the module.

Every invariant and every refinement a passing run checks is proved.  Only
model-checked is liveness under fairness, which is out of reach of the prover:
`CallsReturn`, `ReleaseEnds`, `AsyncNoLostWakeup`, `GpioFollowed` and `StateDelivered`.

## Not modelled

- Scatter lists, the layout of messages, CRC, performance counters, traces and
  compat ioctls: layout and copying of data, with no state of their own.  That
  they fail is the fault `marshal`.
- SETMODE, the session id, `tgid` and `pd`: they go into messages, and only the back
  end would tell their values apart.
- Remove, or a probe that fails after its first node, while files are open: nothing in the driver orders the two, and the model
  of what freed memory holds would be a guess.  For the same reason `SilentMode` has
  no removal, and `SubsysNotif` drops the work of an interrupt that comes after the
  queue is destroyed.
- `aop-set-ddr.c`: two writers share one static buffer without a lock; the result
  depends on single bytes, and nothing says what it should be.
- `adsp_vote_smp2p.c`, `socinfo_dt.c`, `dump_boot_log.c`, `wallpower_charger.c`: no
  state that changes after probe, or one register write for each call.
- Build and configuration files.

The hazards of `PROJECT.json` without a property are remove with open files, the NULL
`info`, a work queue used after it was destroyed, a freed context that is still linked
into `async_queue` while the interrupt adds another during the release
(`virtio_fastrpc_core.c:1183`) - of freed memory the models have no contents - and one
about a call for which the repository does not say what it should do
(`virtio_fastrpc_core.c:592`: another invoke of the thread with the same scalars is
taken for the restart of an interrupted one).
