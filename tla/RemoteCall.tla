----------------------------- MODULE RemoteCall -----------------------------
(***************************************************************************)
(* What the front end promises of one call to the DSP, with no queue,      *)
(* table, buffer, interrupt or signal in sight: the back end executes a    *)
(* call at most once, an answer is returned only for a call it executed,   *)
(* and a call that fails in the front end was not executed.                *)
(*                                                                         *)
(* The driver forgets a call it gave up (a file released while the call is *)
(* under way), and its late answer may reach another one.  From then on    *)
(* only "at most once" is left of the promise.                             *)
(***************************************************************************)
CONSTANT Calls

VARIABLES
    phase,   \* of each call
    lost     \* a call was given up while the back end had it, or might get it

Phases == {"idle", "called", "executed", "returned", "failed"}

CallInit ==
    /\ phase = [c \in Calls |-> "idle"]
    /\ lost = FALSE

Move(c, from, to) ==
    /\ phase[c] \in from
    /\ phase' = [phase EXCEPT ![c] = to]

Call(c) == Move(c, {"idle"}, "called") /\ UNCHANGED lost

Execute(c) == Move(c, {"called"}, "executed") /\ UNCHANGED lost

\* An answer for c, or after a loss perhaps that of another call.
Return(c) ==
    \/ Move(c, {"executed"}, "returned") /\ (lost => lost')
    \/ Move(c, {"called", "failed"}, "returned") /\ lost /\ lost'

Fail(c) == Move(c, {"called"}, "failed") /\ (lost => lost')

GiveUp(c) == Move(c, {"executed"}, "failed") /\ lost'

Forget(c) == Move(c, {"returned", "failed"}, "idle") /\ UNCHANGED lost

CallNext ==
    \E c \in Calls :
        \/ Call(c)
        \/ Execute(c)
        \/ Return(c)
        \/ Fail(c)
        \/ GiveUp(c)
        \/ Forget(c)

CallSpec == CallInit /\ [][CallNext]_<<phase, lost>>

=============================================================================
