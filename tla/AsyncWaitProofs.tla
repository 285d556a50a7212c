--------------------------- MODULE AsyncWaitProofs ---------------------------
(***************************************************************************)
(* The wait for completions loses no wakeup and is not woken for nothing,  *)
(* whatever the size of the queue and of the batches.                      *)
(***************************************************************************)
EXTENDS AsyncWait, TLAPS

\* Arithmetic of a poll: it leaves a queue of the same size or a smaller one.
LEMMA PollBound ==
  ASSUME cq \in 0 .. CqSize
  PROVE  (IF cq <= MaxWc THEN 0 ELSE cq - MaxWc) \in 0 .. CqSize
BY CqSizeAssumption, MaxWcAssumption

\* The queue that cq_create_async leaves satisfies the invariant.
LEMMA WakeInit == Init => WakeInv
BY CqSizeAssumption DEF Init, WakeInv, TypeOK

\* Every step of the adapter and of a call preserves the invariant.
LEMMA WakeNext == WakeInv /\ [Next]_vars => WakeInv'
<1> SUFFICES ASSUME WakeInv, [Next]_vars PROVE WakeInv'
  OBVIOUS
<1> USE CqSizeAssumption, MaxWcAssumption DEF WakeInv, TypeOK
<1>1. CASE Complete
  <2>1. cq' \in 0 .. CqSize /\ cq' > 0 /\ armed' = FALSE
    BY <1>1 DEF Complete
  <2>2. CASE armed
    <3>1. events' = events + 1 /\ pc' = pc /\ unacked' = unacked
      BY <1>1, <2>2 DEF Complete
    <3>2. events + unacked <= 1
      BY <2>2
    <3>3. pc \notin {"get", "rearm"}
      BY <2>2
    <3>4. /\ events' \in 0 .. 2 /\ unacked' \in 0 .. 2 /\ pc' = pc
          /\ events' + unacked' <= 2
      BY <3>1, <3>2
    <3>5. /\ pc = "arm" => events = 0
          /\ pc = "epoll" => events = 0
      BY <2>2
    <3>6. ~armed' /\ armed' \in BOOLEAN
      BY <2>1, Zenon
    <3> QED
      BY <2>1, <3>1, <3>3, <3>4, <3>5, <3>6
  <2>3. CASE ~armed
    <3>1. events' = events /\ pc' = pc /\ unacked' = unacked
      BY <1>1, <2>3 DEF Complete
    <3> QED
      BY <2>1, <2>3, <3>1
  <2> QED
    BY <2>2, <2>3
<1>2. CASE Call
  BY <1>2 DEF Call
<1>3. CASE PollFirst
  BY <1>3, PollBound DEF PollFirst, Poll
<1>4. CASE DrainEvent
  BY <1>4 DEF DrainEvent
<1>5. CASE Drained
  BY <1>5 DEF Drained
<1>6. CASE Arm
  BY <1>6 DEF Arm, ReqNotify
<1>7. CASE PollAgain
  BY <1>7, PollBound DEF PollAgain, Poll
<1>8. CASE Wake
  BY <1>8 DEF Wake
<1>9. CASE GetEvent
  BY <1>9 DEF GetEvent
<1>10. CASE ReArm
  BY <1>10 DEF ReArm, ReqNotify
<1>11. CASE Harvest
  BY <1>11, PollBound DEF Harvest, Poll
<1>12. CASE Timeout
  BY <1>12 DEF Timeout
<1>13. CASE CallFails
  BY <1>13 DEF CallFails
<1>14. CASE UNCHANGED vars
  BY <1>14 DEF vars
<1> QED
  BY <1>1, <1>2, <1>3, <1>4, <1>5, <1>6, <1>7, <1>8, <1>9, <1>10, <1>11, <1>12,
     <1>13, <1>14 DEF Next, Step

\* Every state of rdma_async_wait_completion satisfies the inductive invariant.
THEOREM WakeInvariance == Spec => []WakeInv
BY WakeInit, WakeNext, PTL DEF Spec

\* Every variable has its type, and the channel never holds more than two events.
THEOREM WaitTypes == Spec => []TypeOK
<1>1. WakeInv => TypeOK
  BY DEF WakeInv
<1> QED
  BY <1>1, WakeInvariance, PTL

\* The thread never sleeps in epoll_wait while a completion waits for it.
THEOREM WakeupsHold == Spec => []NoLostWakeup
<1>1. WakeInv => NoLostWakeup
  BY DEF WakeInv, NoLostWakeup
<1> QED
  BY <1>1, WakeInvariance, PTL

\* An event that is left over from an earlier call does not wake the thread.
THEOREM NoneStale == Spec => []NoStaleWakeup
<1>1. WakeInv => NoStaleWakeup
  BY DEF WakeInv, NoStaleWakeup
<1> QED
  BY <1>1, WakeInvariance, PTL

\* Whenever the caller has control, the queue can be destroyed: all events
\* taken from the channel have been acknowledged.
THEOREM AcksComplete == Spec => []EventsAcked
<1>1. WakeInv => EventsAcked
  BY DEF WakeInv, EventsAcked
<1> QED
  BY <1>1, WakeInvariance, PTL
=============================================================================
