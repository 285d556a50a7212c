------------------------------ MODULE AsyncWait ------------------------------
(***************************************************************************)
(* rdma_async_wait_completion: how a thread waits for completions without  *)
(* spinning.                                                               *)
(*                                                                         *)
(* The completion queue (CQ) raises one event on its completion channel    *)
(* for the first completion that arrives after ibv_req_notify_cq has armed *)
(* it.  epoll_wait sleeps until the channel holds an event.  The thread    *)
(* takes completions also where it takes no event, so that events are left *)
(* over from earlier calls, and the adapter adds completions between any   *)
(* two steps of the thread.                                                *)
(*                                                                         *)
(* ScpPipeline uses what is shown here: a blocking poll of its sender goes *)
(* on when, and not before, the queue holds a completion.                  *)
(***************************************************************************)
EXTENDS Naturals

CONSTANTS CqSize,    \* CQ_MAX_SIZE
          MaxWc,     \* max_wc
          CallsFail  \* whether verbs and epoll_wait may return errors

ASSUME CqSizeAssumption == CqSize \in Nat \ {0}
ASSUME MaxWcAssumption == MaxWc \in Nat \ {0}
ASSUME CallsFailAssumption == CallsFail \in BOOLEAN

VARIABLES pc,       \* the step of the call, or where the caller is between calls
          cq,       \* completions in the queue
          armed,    \* the next completion raises an event
          events,   \* events in the channel
          unacked   \* events taken from the channel and not acknowledged

vars == <<pc, cq, armed, events, unacked>>

\* cq_create_async: the queue is empty and armed.
Init == /\ pc = "caller"
        /\ cq = 0 /\ armed = TRUE
        /\ events = 0 /\ unacked = 0

-----------------------------------------------------------------------------
\* Mistakes: a definition below in the form that a slip in the code would give
\* it.  Each violates a property; PROJECT.json says which.

\* the events in the channel are not drained before the queue is armed
DrainedLeavingEvents ==
  /\ pc = "drain"
  /\ unacked' = 0 /\ pc' = "arm"
  /\ UNCHANGED <<cq, armed, events>>

\* the events drained are not acknowledged
DrainedWithoutAck ==
  /\ pc = "drain" /\ events = 0
  /\ pc' = "arm"
  /\ UNCHANGED <<cq, armed, events, unacked>>

\* the queue is not armed again after the drain
ArmNothing == pc = "arm" /\ pc' = "repoll" /\ UNCHANGED <<cq, armed, events, unacked>>

\* the queue is not polled again after it has been armed
SleepAfterArm == pc = "repoll" /\ pc' = "epoll" /\ UNCHANGED <<cq, armed, events, unacked>>

-----------------------------------------------------------------------------
\* The adapter adds a completion.

Complete ==
  /\ cq < CqSize
  /\ cq' = cq + 1
  /\ armed' = FALSE
  /\ events' = IF armed THEN events + 1 ELSE events
  /\ UNCHANGED <<pc, unacked>>

-----------------------------------------------------------------------------
\* The call

Call == pc = "caller" /\ pc' = "poll" /\ UNCHANGED <<cq, armed, events, unacked>>

\* ibv_poll_cq at step p: completions end the call.
Poll(p, empty) ==
  /\ pc = p
  /\ cq' = IF cq <= MaxWc THEN 0 ELSE cq - MaxWc
  /\ pc' = IF cq > 0 THEN "caller" ELSE empty
  /\ UNCHANGED <<armed, events, unacked>>

PollFirst == Poll("poll", "drain")

\* The events in the channel are taken one by one and acknowledged together.
DrainEvent ==
  /\ pc = "drain" /\ events > 0
  /\ events' = events - 1 /\ unacked' = unacked + 1
  /\ UNCHANGED <<pc, cq, armed>>

Drained ==
  /\ pc = "drain" /\ events = 0
  /\ unacked' = 0 /\ pc' = "arm"
  /\ UNCHANGED <<cq, armed, events>>

\* ibv_req_notify_cq at step p.
ReqNotify(p, next) ==
  /\ pc = p /\ pc' = next
  /\ armed' = TRUE
  /\ UNCHANGED <<cq, events, unacked>>

Arm == ReqNotify("arm", "repoll")

\* What arrived before the queue was armed raises no event.
PollAgain == Poll("repoll", "epoll")

Wake == pc = "epoll" /\ events > 0 /\ pc' = "get" /\ UNCHANGED <<cq, armed, events, unacked>>

\* epoll_wait returns 0 or EINTR, and the call returns 0.
Timeout ==
  pc = "epoll" /\ events = 0 /\ pc' = "caller" /\ UNCHANGED <<cq, armed, events, unacked>>

\* ibv_get_cq_event and ibv_ack_cq_events.  The channel does not block: to take
\* an event that is not there is an error.
GetEvent ==
  /\ pc = "get"
  /\ events' = IF events > 0 THEN events - 1 ELSE 0
  /\ pc' = IF events > 0 THEN "rearm" ELSE "failed"
  /\ UNCHANGED <<cq, armed, unacked>>

ReArm == ReqNotify("rearm", "harvest")

Harvest == Poll("harvest", "caller")

CallFails ==
  /\ CallsFail
  /\ pc \in {"poll", "arm", "repoll", "epoll", "get", "rearm", "harvest"}
  /\ pc' = "failed"
  /\ UNCHANGED <<cq, armed, events, unacked>>

-----------------------------------------------------------------------------

\* The steps of a call that its thread takes without waiting for a timeout.
Step == \/ PollFirst \/ DrainEvent \/ Drained \/ Arm \/ PollAgain
        \/ Wake \/ GetEvent \/ ReArm \/ Harvest

Next == Complete \/ Call \/ Step \/ Timeout \/ CallFails

Spec == Init /\ [][Next]_vars

FairSpec == Spec /\ WF_vars(Step)

-----------------------------------------------------------------------------
\* Properties

\* Every variable has its type; the channel never holds more than two events,
\* since a call arms the queue only once before it looks at the queue again.
TypeOK ==
  /\ pc \in {"caller", "poll", "drain", "arm", "repoll", "epoll", "get", "rearm",
             "harvest", "failed"}
  /\ cq \in 0 .. CqSize
  /\ armed \in BOOLEAN
  /\ events \in 0 .. 2 /\ unacked \in 0 .. 2

\* The thread never sleeps on a completion: when epoll_wait is entered or
\* blocked and the queue holds something, the channel holds an event (the
\* comment of the function: the notification is armed before any epoll_wait,
\* otherwise it blocks for ever).
NoLostWakeup == pc = "epoll" => IF cq > 0 THEN events > 0 ELSE armed

\* A thread that is woken finds a completion: the events of completions that
\* earlier calls have taken wake nobody, and a call that returns 0 has timed
\* out.
NoStaleWakeup == pc \in {"get", "rearm", "harvest"} => cq > 0

\* What is in the channel at each step of the call; inductive.  The queue is
\* armed at most once for every event taken or drained, and between the drain
\* and the sleep an event belongs to a completion that is still in the queue.
WakeInv ==
  /\ TypeOK
  /\ armed => events + unacked <= 1
  /\ events + unacked <= 2
  /\ pc # "drain" => unacked = 0
  /\ pc = "arm" => events <= 1 /\ (armed => events = 0) /\ (events = 1 => cq > 0)
  /\ pc = "repoll" => cq > 0 \/ (armed /\ events = 0)
  /\ pc = "epoll" => IF cq > 0 THEN ~armed /\ events = 1 ELSE armed /\ events = 0
  /\ pc = "get" => cq > 0 /\ events = 1 /\ ~armed
  /\ pc = "rearm" => cq > 0 /\ events = 0 /\ ~armed
  /\ pc = "harvest" => cq > 0

\* Between calls no event is unacknowledged: ibv_destroy_cq waits for these.
EventsAcked == pc \in {"caller", "failed"} => unacked = 0

\* A call during which there is a completion returns without any timeout.
CallReturns == (pc # "caller" /\ cq > 0) ~> pc \in {"caller", "failed"}
=============================================================================
