---------------------------- MODULE OwnerLiveness ----------------------------
(***************************************************************************)
(* What the owner goroutine must eventually do.  The Go runtime schedules  *)
(* a runnable goroutine, so the owner's own steps are weakly fair.  At the *)
(* select it may prefer commands to a timer that fired for as long as      *)
(* commands keep coming, so a fired timer is only weakly fair too.  That   *)
(* time passes, or that workers finish, is assumed by name where needed.   *)
(***************************************************************************)
EXTENDS OwnerState

FairSpec == Spec /\ WF_vars(Run) /\ WF_vars(TimerFires)

TimePasses == WF_vars(Tick)

(* Workers finish their permits and the mailbox is first-in first-out, so a *)
(* finish that can be received again and again is received.                 *)
Finishes(r) == \E o \in Outcomes : Receive([op |-> "finish", id |-> r, outcome |-> o])
WorkersFinish == \A r \in Requests : SF_vars(Finishes(r))

AllLeave == \A r \in Requests : r \in expiry ~> r \notin expiry

(* Every queued request leaves its queue because its deadline passes and    *)
(* the timer is armed for it, even if no permit is ever released.           *)
LeavesByDeadline == TimePasses => AllLeave

(* Every queued request leaves its queue because deficit round robin        *)
(* reaches it, even if no deadline ever passes.                             *)
LeavesByService == WorkersFinish => AllLeave

(* The pump's nested loops end although heads keep dying and quanta smaller *)
(* than a head force sweep after sweep: the owner returns to its select,    *)
(* even if no deadline ever passes and no worker finishes.                  *)
PumpEnds == pc = "pump" ~> pc = "select"

(* Nobody is left in a queue, whichever of time and workers stands still,   *)
(* and no pump keeps the owner from its mailbox.                            *)
LeavesQueue == PumpEnds /\ LeavesByDeadline /\ LeavesByService

(* A drain that has begun completes once the workers have finished.         *)
DrainCompletes == WorkersFinish => (~accepting ~> drainNotified)
=============================================================================
