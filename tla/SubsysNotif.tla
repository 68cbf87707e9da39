---------------------------- MODULE SubsysNotif -----------------------------
(***************************************************************************)
(* The virtual subsystem restart notification (subsystem_notif_virt.c).    *)
(* The back end writes the state of a virtual subsystem to a register and  *)
(* raises an interrupt; the handler queues a work item, which reads the    *)
(* register, tells the clients and writes their answer to a second         *)
(* register.  The state of a native subsystem goes the other way.          *)
(*                                                                         *)
(* queue_work does nothing for an item that is queued already, so one item *)
(* may stand for several interrupts.                                       *)
(***************************************************************************)
EXTENDS Naturals, Sequences, Functions

CONSTANTS
    Virtual,     \* children of the device node of type "virtual"
    Native,      \* and of type "native"
    States,      \* states of a subsystem
    Faults,      \* which of "child", "irq", "remove" may happen
    MaxEvents,   \* bound on the changes of state
    NULL

Subsys == Virtual \cup Native

ASSUME NotifAssumption ==
    /\ Virtual \cap Native = {}
    /\ NULL \notin Subsys \cup States
    /\ Faults \subseteq {"child", "irq", "remove"}
    /\ MaxEvents \in Nat

VARIABLES
    phase,         \* where probe or remove is
    todo,          \* children get_resources has not come to
    child,         \* child whose interrupt is requested, and no work made
    irqs,          \* subsystems whose interrupt is requested
    works,         \* subsystems whose work is initialised
    list,          \* subsystem_descriptor_list
    nbs,           \* subsystems whose nb is registered
    raised,        \* interrupts raised and not handled
    queue,         \* ssr_wq
    running,       \* subsystem of the work that runs
    step,          \* where that work is
    state,         \* its local variable
    reg,           \* the state registers of the virtual subsystems
    told,          \* the state the clients of each were told last
    client_state,  \* the state the register of the clients answers to
    subsys_state,  \* the state registers of the native subsystems
    missed,        \* history: subsystems whose last interrupt had no work
    failed,        \* history: a probe failed
    events         \* changes of state so far

bindVars == <<phase, todo, child, irqs, works, list, nbs, failed>>

workVars == <<queue, running, step, state, told, client_state>>

notifVars == <<bindVars, workVars, raised, reg, subsys_state, missed, events>>

NotifInit ==
    /\ phase = "none"
    /\ todo = {}
    /\ child = NULL
    /\ irqs = {}
    /\ works = {}
    /\ list = {}
    /\ nbs = {}
    /\ raised = {}
    /\ queue = <<>>
    /\ running = NULL
    /\ step = "idle"
    /\ state = NULL
    /\ reg \in [Virtual -> States]
    /\ told = [s \in Virtual |-> NULL]
    /\ client_state = [s \in Virtual |-> NULL]
    /\ subsys_state = [s \in Native |-> NULL]
    /\ missed = Virtual
    /\ failed = FALSE
    /\ events = 0

-----------------------------------------------------------------------------
(***************************************************************************)
(* Probe and remove.                                                       *)
(***************************************************************************)

\* create_singlethread_workqueue, and on to get_resources.  A device whose
\* probe failed is not tried again.
Probe ==
    /\ phase = "none"
    /\ ~failed
    /\ phase' = "probe"
    /\ todo' = Subsys
    /\ UNCHANGED <<child, irqs, works, list, nbs, failed, workVars, raised, reg,
                   subsys_state, missed, events>>

\* A native child: qcom_register_ssr_notifier and list_add_tail.
GetNative(s) ==
    /\ phase = "probe" /\ child = NULL
    /\ s \in todo \cap Native
    /\ todo' = todo \ {s}
    /\ nbs' = nbs \cup {s}
    /\ list' = list \cup {s}
    /\ UNCHANGED <<phase, child, irqs, works, failed, workVars, raised, reg,
                   subsys_state, missed, events>>

\* A virtual child: devm_request_threaded_irq, whose result is not looked at.
GetVirtual(s) ==
    /\ phase = "probe" /\ child = NULL
    /\ s \in todo \cap Virtual
    /\ todo' = todo \ {s}
    /\ child' = s
    /\ \/ irqs' = irqs \cup {s}
       \/ "irq" \in Faults /\ irqs' = irqs
    /\ UNCHANGED <<phase, works, list, nbs, failed, workVars, raised, reg,
                   subsys_state, missed, events>>

\* INIT_WORK.
InitWork ==
    /\ child # NULL
    /\ works' = works \cup {child}
    /\ child' = NULL
    /\ UNCHANGED <<phase, todo, irqs, list, nbs, failed, workVars, raised, reg,
                   subsys_state, missed, events>>

\* A child has a property missing, or its notifier cannot be registered.
GetFails ==
    /\ "child" \in Faults
    /\ phase = "probe" /\ child = NULL /\ todo # {}
    /\ phase' = "destroy"
    /\ failed' = TRUE
    /\ UNCHANGED <<todo, child, irqs, works, list, nbs, workVars, raised, reg,
                   subsys_state, missed, events>>

Probed ==
    /\ phase = "probe" /\ child = NULL /\ todo = {}
    /\ phase' = "bound"
    /\ UNCHANGED <<todo, child, irqs, works, list, nbs, failed, workVars, raised,
                   reg, subsys_state, missed, events>>

RemoveDriver ==
    /\ "remove" \in Faults
    /\ phase = "bound"
    /\ phase' = "destroy"
    /\ UNCHANGED <<todo, child, irqs, works, list, nbs, failed, workVars, raised,
                   reg, subsys_state, missed, events>>

\* destroy_workqueue waits for the work that is queued.
Destroyed ==
    /\ phase = "destroy"
    /\ queue = <<>> /\ running = NULL
    /\ phase' = IF failed THEN "devres" ELSE "release"
    /\ UNCHANGED <<todo, child, irqs, works, list, nbs, failed, workVars, raised,
                   reg, subsys_state, missed, events>>

ReleaseResources ==
    /\ list' = {}
    /\ nbs' = nbs \ list

Release ==
    /\ phase = "release"
    /\ ReleaseResources
    /\ phase' = "devres"
    /\ UNCHANGED <<todo, child, irqs, works, failed, workVars, raised, reg,
                   subsys_state, missed, events>>

\* The driver core releases the interrupts and the descriptors at last.
Devres ==
    /\ phase = "devres"
    /\ phase' = "none"
    /\ irqs' = {}
    /\ works' = {}
    /\ raised' = {}
    /\ missed' = missed \cup raised
    /\ UNCHANGED <<todo, child, list, nbs, failed, workVars, reg, subsys_state,
                   events>>

-----------------------------------------------------------------------------
(***************************************************************************)
(* States change, interrupts come and the work is done.                    *)
(***************************************************************************)

\* The back end: a new state and a rising edge.
Restart(s, v) ==
    /\ events < MaxEvents
    /\ events' = events + 1
    /\ v # reg[s]
    /\ reg' = [reg EXCEPT ![s] = v]
    /\ IF s \in irqs
       THEN raised' = raised \cup {s} /\ UNCHANGED missed
       ELSE missed' = missed \cup {s} /\ UNCHANGED raised
    /\ UNCHANGED <<bindVars, workVars, subsys_state>>

\* There is an item to queue and a queue that takes it.  A queue that is being
\* destroyed drops the item, and so does one given an item not initialised.
\* queue_work on a queue already destroyed uses freed memory: the model drops
\* the item there too, and says nothing of what else may happen.
CanQueue(s) == s \in works /\ phase \in {"probe", "bound"}

\* Wrong: an item that runs is not queued again.
QueueWork_NotRunning(s) ==
    IF s = running \/ s \in Range(queue) THEN queue ELSE Append(queue, s)

\* queue_work.
QueueWork(s) == IF s \in Range(queue) THEN queue ELSE Append(queue, s)

\* subsystem_restart_irq_handler.
Irq(s) ==
    /\ s \in raised
    /\ raised' = raised \ {s}
    /\ IF CanQueue(s)
       THEN queue' = QueueWork(s) /\ UNCHANGED missed
       ELSE missed' = missed \cup {s} /\ UNCHANGED queue
    /\ UNCHANGED <<bindVars, running, step, state, told, client_state, reg,
                   subsys_state, events>>

\* subsystem_notif_wq_func: the register is read, ...
WorkRead ==
    /\ step = "idle" /\ queue # <<>>
    /\ step' = "tell"
    /\ running' = Head(queue)
    /\ queue' = Tail(queue)
    /\ state' = reg[Head(queue)]
    /\ missed' = missed \ {Head(queue)}
    /\ UNCHANGED <<bindVars, raised, told, client_state, reg, subsys_state,
                   events>>

\* ... the clients are told, ...
WorkTell ==
    /\ step = "tell"
    /\ told' = [told EXCEPT ![running] = state]
    /\ step' = "answer"
    /\ UNCHANGED <<bindVars, raised, queue, running, state, client_state, reg,
                   subsys_state, missed, events>>

\* ... and what they return is written to their register.
WorkAnswer ==
    /\ step = "answer"
    /\ client_state' = [client_state EXCEPT ![running] = state]
    /\ step' = "idle"
    /\ running' = NULL
    /\ UNCHANGED <<bindVars, raised, queue, state, told, reg, subsys_state,
                   missed, events>>

\* subsystem_state_callback.
NativeState(s, v) ==
    /\ events < MaxEvents
    /\ s \in nbs
    /\ events' = events + 1
    /\ subsys_state' = [subsys_state EXCEPT ![s] = v]
    /\ UNCHANGED <<bindVars, workVars, raised, reg, missed>>

-----------------------------------------------------------------------------

Bind ==
    \/ Probe
    \/ \E s \in Native : GetNative(s)
    \/ \E s \in Virtual : GetVirtual(s)
    \/ InitWork
    \/ GetFails
    \/ Probed
    \/ RemoveDriver
    \/ Destroyed
    \/ Release
    \/ Devres

Work == WorkRead \/ WorkTell \/ WorkAnswer

NotifNext ==
    \/ Bind
    \/ Work
    \/ \E s \in Virtual : Irq(s) \/ \E v \in States : Restart(s, v)
    \/ \E s \in Native, v \in States : NativeState(s, v)

NotifSpec == NotifInit /\ [][NotifNext]_notifVars

\* The work queue runs, interrupts are handled, and a probe or remove that has
\* begun goes on.
NotifFairSpec ==
    /\ NotifSpec
    /\ WF_notifVars(Work)
    /\ \A s \in Virtual : WF_notifVars(Irq(s))
    /\ WF_notifVars(InitWork \/ Destroyed \/ Release \/ Devres)

-----------------------------------------------------------------------------
(***************************************************************************)
(* Properties.                                                             *)
(***************************************************************************)

NotifTypeOK ==
    /\ phase \in {"none", "probe", "bound", "destroy", "release", "devres"}
    /\ todo \subseteq Subsys
    /\ child \in Virtual \cup {NULL}
    /\ irqs \subseteq Virtual
    /\ works \subseteq Virtual
    /\ list \subseteq Native
    /\ nbs \subseteq Native
    /\ raised \subseteq irqs
    /\ queue \in Seq(works)
    /\ running \in works \cup {NULL}
    /\ step \in {"idle", "tell", "answer"}
    /\ state \in States \cup {NULL}
    /\ reg \in [Virtual -> States]
    /\ told \in [Virtual -> States \cup {NULL}]
    /\ client_state \in [Virtual -> States \cup {NULL}]
    /\ subsys_state \in [Native -> States \cup {NULL}]
    /\ missed \subseteq Virtual
    /\ failed \in BOOLEAN
    /\ events \in 0 .. MaxEvents

\* No interrupt of s waits, and no work.
Quiet(s) == s \notin raised /\ s \notin Range(queue) /\ running # s

\* When nothing is left to do for a subsystem, its clients know the state in
\* its register and have answered to that very state, however many interrupts
\* one work item stood for, unless the last one met no work item.
LastStateTold ==
    \A s \in Virtual :
        Quiet(s) => s \in missed \/ (told[s] = reg[s] /\ client_state[s] = reg[s])

\* After remove no notifier refers to a descriptor that is gone.  A probe that
\* fails leaves the notifiers of the children before.
NotifiersGone == phase = "none" => nbs = {} \/ failed

\* The state a subsystem ends in comes to its clients, and their answer to the
\* back end, unless the interrupt met no work item.
StateDelivered ==
    \A s \in Virtual :
        <>[](s \in missed \/ (told[s] = reg[s] /\ client_state[s] = reg[s]))

=============================================================================
