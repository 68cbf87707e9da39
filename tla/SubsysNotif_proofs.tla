------------------------- MODULE SubsysNotif_proofs -------------------------
(***************************************************************************)
(* The last state of a subsystem reaches its clients, for every number of  *)
(* subsystems, states and interrupts.                                      *)
(***************************************************************************)
EXTENDS SubsysNotif, TLAPS

\* Most leaves are first-order; the ones that need more say so.
USE ZenonT(120)

\* The state of s is known, or something that is under way will make it so: the
\* work that runs has read the state of now, or the work will run again.
Covered(s) ==
    \/ s \in missed
    \/ s \in raised
    \/ s \in Range(queue)
    \/ running = s /\ state = reg[s]
    \/ running # s /\ told[s] = reg[s] /\ client_state[s] = reg[s]

\* A work that has told the clients has told them what it read.
WorkSound ==
    /\ step = "idle" <=> running = NULL
    /\ running # NULL => state \in States
    /\ step = "answer" => told[running] = state

\* The queue is empty once it is destroyed, and the notifiers that are
\* registered are on the list.
BindSound ==
    /\ phase \in {"none", "release", "devres"} => queue = <<>> /\ running = NULL
    /\ child # NULL => phase = "probe"
    /\ nbs = list
    /\ phase \in {"none", "devres"} => nbs = {} \/ failed

NotifInv ==
    /\ NotifTypeOK
    /\ WorkSound
    /\ BindSound
    /\ \A s \in Virtual : Covered(s)

\* What queue_work does to a queue.
LEMMA QueueWorkAdds ==
    ASSUME NEW W, queue \in Seq(W), NEW s \in W
    PROVE  /\ QueueWork(s) \in Seq(W)
           /\ s \in Range(QueueWork(s))
           /\ \A x : x \in Range(queue) => x \in Range(QueueWork(s))
<1>1. CASE s \in Range(queue)
  BY <1>1 DEF QueueWork
<1>2. CASE s \notin Range(queue)
  <2>1. QueueWork(s) = Append(queue, s)
    BY <1>2 DEF QueueWork
  <2>2. /\ Append(queue, s) \in Seq(W)
        /\ Len(Append(queue, s)) = Len(queue) + 1
        /\ Append(queue, s)[Len(queue) + 1] = s
        /\ \A i \in 1 .. Len(queue) : Append(queue, s)[i] = queue[i]
    BY SMT
  <2>3. Len(queue) \in Nat
    BY SMT
  <2> QED
    BY SMT, <2>1, <2>2, <2>3 DEF Range
<1> QED
  BY <1>1, <1>2

\* Taking the first item off leaves the others.
LEMMA TailKeeps ==
    ASSUME NEW W, NEW q \in Seq(W), q # <<>>
    PROVE  /\ Head(q) \in W
           /\ Tail(q) \in Seq(W)
           /\ \A x : x \in Range(q) => x = Head(q) \/ x \in Range(Tail(q))
<1>1. /\ Len(q) \in Nat /\ Len(q) > 0
      /\ Head(q) = q[1] /\ Head(q) \in W
      /\ Tail(q) \in Seq(W)
      /\ DOMAIN q = 1 .. Len(q) /\ DOMAIN Tail(q) = 1 .. Len(q) - 1
      /\ \A i \in 1 .. Len(q) - 1 : Tail(q)[i] = q[i + 1]
  BY SMT
<1>2. ASSUME NEW x, NEW i \in 1 .. Len(q), q[i] = x, x # Head(q)
      PROVE  x \in Range(Tail(q))
  <2>1. i - 1 \in 1 .. Len(q) - 1 /\ Tail(q)[i - 1] = q[i]
    BY SMT, <1>1, <1>2
  <2> QED
    BY <1>1, <1>2, <2>1 DEF Range
<1> QED
  BY <1>1, <1>2 DEF Range

\* Before the first registration NotifInv holds.
LEMMA NotifInvInit == NotifInit => NotifInv
<1> SUFFICES ASSUME NotifInit PROVE NotifInv
  OBVIOUS
<1>1. NotifTypeOK
  <2>1. queue \in Seq(works)
    BY SMT DEF NotifInit
  <2>2. events \in 0 .. MaxEvents
    BY SMT, NotifAssumption DEF NotifInit
  <2> QED
    BY <2>1, <2>2, Zenon DEF NotifInit, NotifTypeOK
<1>2. WorkSound /\ BindSound /\ \A s \in Virtual : Covered(s)
  BY DEF NotifInit, WorkSound, BindSound, Covered
<1> QED
  BY <1>1, <1>2 DEF NotifInv

\* Types: a queue or a work that runs has its work initialised.
LEMMA NotifTypeStep ==
    ASSUME NotifInv, NotifNext PROVE NotifTypeOK'
<1>0. NotifTypeOK /\ WorkSound /\ BindSound
  BY DEF NotifInv
<1>1. CASE Probe \/ Probed \/ RemoveDriver \/ GetFails \/ Destroyed
  BY <1>0, <1>1 DEF NotifTypeOK, Probe, Probed, RemoveDriver, GetFails, Destroyed,
    bindVars, workVars
<1>2. ASSUME NEW s \in Native, GetNative(s) PROVE NotifTypeOK'
  BY <1>0, <1>2 DEF NotifTypeOK, GetNative, workVars
<1>3. ASSUME NEW s \in Virtual, GetVirtual(s) PROVE NotifTypeOK'
  BY <1>0, <1>3 DEF NotifTypeOK, GetVirtual, workVars
<1>4. CASE InitWork
  <2>1. works \subseteq works' /\ works' \subseteq Virtual /\ child' = NULL
    BY <1>0, <1>4 DEF NotifTypeOK, InitWork
  <2>2. queue' \in Seq(works')
    BY SMT, <1>0, <1>4, <2>1 DEF NotifTypeOK, InitWork, workVars
  <2> QED
    BY <1>0, <1>4, <2>1, <2>2 DEF NotifTypeOK, InitWork, workVars
<1>5. CASE Release
  BY <1>0, <1>5 DEF NotifTypeOK, Release, ReleaseResources, workVars
<1>6. CASE Devres
  BY SMT, <1>0, <1>6 DEF NotifTypeOK, BindSound, Devres, workVars
<1>7. CASE WorkRead
  <2>1. Head(queue) \in works /\ Tail(queue) \in Seq(works)
    BY <1>0, <1>7, TailKeeps DEF NotifTypeOK, WorkRead
  <2> QED
    BY <1>0, <1>7, <2>1 DEF NotifTypeOK, WorkRead, bindVars
<1>8. CASE WorkTell \/ WorkAnswer
  BY <1>0, <1>8 DEF NotifTypeOK, WorkSound, WorkTell, WorkAnswer, bindVars
<1>9. ASSUME NEW s \in Virtual, Irq(s) PROVE NotifTypeOK'
  <2>1. queue' \in Seq(works)
    BY <1>0, <1>9, QueueWorkAdds DEF NotifTypeOK, Irq, CanQueue
  <2> QED
    BY <1>0, <1>9, <2>1 DEF NotifTypeOK, Irq, bindVars
<1>10. ASSUME NEW s \in Virtual, NEW v \in States, Restart(s, v)
       PROVE  NotifTypeOK'
  BY SMT, <1>0, <1>10, NotifAssumption DEF NotifTypeOK, Restart, bindVars, workVars
<1>11. ASSUME NEW s \in Native, NEW v \in States, NativeState(s, v)
       PROVE  NotifTypeOK'
  BY SMT, <1>0, <1>11, NotifAssumption DEF NotifTypeOK, NativeState, bindVars, workVars
<1> QED
  BY <1>1, <1>2, <1>3, <1>4, <1>5, <1>6, <1>7, <1>8, <1>9, <1>10, <1>11
  DEF NotifNext, Bind, Work

\* The work, and what probe and remove leave.
LEMMA NotifSoundStep ==
    ASSUME NotifInv, NotifNext PROVE WorkSound' /\ BindSound'
<1>0. NotifTypeOK /\ WorkSound /\ BindSound
  BY DEF NotifInv
<1>1. CASE Bind
  BY <1>0, <1>1, NotifAssumption
  DEF NotifTypeOK, WorkSound, BindSound, Bind, Probe, GetNative, GetVirtual, InitWork, GetFails,
    Probed, RemoveDriver, Destroyed, Release, ReleaseResources, Devres,
    workVars, Subsys
<1>2. CASE WorkRead
  <2>1. Head(queue) \in works
    BY <1>0, <1>2, TailKeeps DEF NotifTypeOK, WorkRead
  <2>2. Head(queue) # NULL /\ reg[Head(queue)] \in States
    BY <1>0, <2>1, NotifAssumption DEF NotifTypeOK, Subsys
  <2> QED
    BY <1>0, <1>2, <2>2 DEF WorkSound, BindSound, WorkRead, bindVars
<1>3. CASE WorkTell \/ WorkAnswer
  BY <1>0, <1>3 DEF NotifTypeOK, WorkSound, BindSound, WorkTell, WorkAnswer, bindVars
<1>4. ASSUME NEW s \in Virtual, Irq(s) PROVE WorkSound' /\ BindSound'
  BY <1>0, <1>4 DEF WorkSound, BindSound, Irq, CanQueue, bindVars
<1>5. ASSUME NEW s \in Virtual, NEW v \in States, Restart(s, v)
      PROVE  WorkSound' /\ BindSound'
  BY <1>0, <1>5 DEF WorkSound, BindSound, Restart, bindVars, workVars
<1>6. ASSUME NEW s \in Native, NEW v \in States, NativeState(s, v)
      PROVE  WorkSound' /\ BindSound'
  BY <1>0, <1>6 DEF WorkSound, BindSound, NativeState, bindVars, workVars
<1> QED
  BY <1>1, <1>2, <1>3, <1>4, <1>5, <1>6 DEF NotifNext, Work

\* No step loses a state: an interrupt is raised with it, the handler queues
\* the work, and the work reads the register after it has left the queue.
LEMMA CoveredStep ==
    ASSUME NotifInv, NotifNext, NEW x \in Virtual PROVE Covered(x)'
<1>0. NotifTypeOK /\ WorkSound /\ BindSound /\ Covered(x)
  BY DEF NotifInv
<1>1. CASE Bind /\ ~Devres
  <2>1. UNCHANGED <<workVars, raised, reg, missed>>
    BY <1>1, Zenon DEF Bind, Probe, GetNative, GetVirtual, InitWork, GetFails,
      Probed, RemoveDriver, Destroyed, Release
  <2> QED
    BY <1>0, <2>1 DEF Covered, workVars
<1>2. CASE Devres
  BY <1>0, <1>2 DEF Covered, Devres, workVars
<1>3. CASE WorkRead
  <2>1. x \in Range(queue) => x = Head(queue) \/ x \in Range(Tail(queue))
    BY <1>0, <1>3, TailKeeps DEF NotifTypeOK, WorkRead
  <2>2. /\ running' = Head(queue) /\ queue' = Tail(queue)
        /\ state' = reg[Head(queue)] /\ missed' = missed \ {Head(queue)}
        /\ UNCHANGED <<raised, told, client_state, reg>>
    BY <1>3 DEF WorkRead
  <2>3. running # x
    BY <1>0, <1>3, NotifAssumption DEF WorkSound, WorkRead, Subsys
  <2>4. CASE x = Head(queue)
    BY <2>2, <2>4 DEF Covered
  <2>5. CASE x # Head(queue)
    BY <1>0, <2>1, <2>2, <2>3, <2>5 DEF Covered
  <2> QED
    BY <2>4, <2>5
<1>4. CASE WorkTell
  BY <1>0, <1>4 DEF NotifTypeOK, WorkSound, Covered, WorkTell
<1>5. CASE WorkAnswer
  BY <1>0, <1>5, NotifAssumption DEF NotifTypeOK, WorkSound, Covered, WorkAnswer, Subsys
<1>6. ASSUME NEW s \in Virtual, Irq(s) PROVE Covered(x)'
  <2>1. CASE CanQueue(s)
    <3>1. s \in Range(queue') /\ (x \in Range(queue) => x \in Range(queue'))
      BY <1>0, <1>6, <2>1, QueueWorkAdds DEF NotifTypeOK, Irq, CanQueue
    <3> QED
      BY <1>0, <1>6, <2>1, <3>1 DEF Covered, Irq
  <2>2. CASE ~CanQueue(s)
    BY <1>0, <1>6, <2>2 DEF Covered, Irq
  <2> QED
    BY <2>1, <2>2
<1>7. ASSUME NEW s \in Virtual, NEW v \in States, Restart(s, v)
      PROVE  Covered(x)'
  BY <1>0, <1>7 DEF NotifTypeOK, Covered, Restart, workVars
<1>8. ASSUME NEW s \in Native, NEW v \in States, NativeState(s, v)
      PROVE  Covered(x)'
  BY <1>0, <1>8 DEF Covered, NativeState, workVars
<1> QED
  BY <1>1, <1>2, <1>3, <1>4, <1>5, <1>6, <1>7, <1>8 DEF NotifNext, Work

\* Registering, queueing and calling back keep NotifInv.
LEMMA NotifInvStep == NotifInv /\ [NotifNext]_notifVars => NotifInv'
<1>1. CASE NotifInv /\ NotifNext
  BY <1>1, NotifTypeStep, NotifSoundStep, CoveredStep DEF NotifInv
<1>2. CASE NotifInv /\ UNCHANGED notifVars
  BY <1>2 DEF NotifInv, NotifTypeOK, WorkSound, BindSound, Covered, notifVars,
    bindVars, workVars
<1> QED
  BY <1>1, <1>2

\* NotifInv holds in every state.
LEMMA NotifInvHolds == NotifSpec => []NotifInv
BY NotifInvInit, NotifInvStep, PTL DEF NotifSpec

\* The clients of a subsystem know its last state when nothing is left to do:
\* queue_work of an item that is queued already loses nothing.
THEOREM LastStateIsTold == NotifSpec => []LastStateTold
<1>1. NotifInv => LastStateTold
  BY DEF NotifInv, Covered, LastStateTold, Quiet
<1> QED
  BY <1>1, NotifInvHolds, PTL

\* Types, and remove leaves no notifier behind.
THEOREM NotifiersAreGone == NotifSpec => [](NotifTypeOK /\ NotifiersGone)
<1>1. NotifInv => NotifTypeOK /\ NotifiersGone
  BY DEF NotifInv, BindSound, NotifiersGone
<1> QED
  BY <1>1, NotifInvHolds, PTL

=============================================================================
