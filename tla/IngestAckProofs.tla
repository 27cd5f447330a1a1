-------------------------- MODULE IngestAckProofs --------------------------
(***************************************************************************)
(* Proofs about IngestAck for every rotation count, every number of events *)
(* and every choice of zero-stamped events.  The inductive invariant IInv  *)
(* adds to the checked properties what relates the two tasks: how far the  *)
(* shared ack_time lags behind the store at each point of the receiver     *)
(* loop, and what the interval task's stale copy of it can still be worth. *)
(***************************************************************************)
EXTENDS IngestAck, TLAPS

\* Points between taking an event off the stream and counting it.
Uncounted == {"direct", "count"}

\* Points at which the counter may have reached the rotation count.
Counted == {"stamp", "check", "rotLock", "rotSend", "rotReset"}

\* Where the event in hand, the store and ack_time stand relative to each
\* other at each point of the receiver loop.
PhaseInv ==
    /\ recv = "append" => received = stored + 1 /\ ack_time = stored
    /\ recv \in {"direct", "count", "stamp"} =>
          received = stored /\ ack_time = stored - 1
    /\ recv \notin {"append", "direct", "count", "stamp", "failed"} =>
          received = stored /\ ack_time = stored
    /\ ack_time <= stored

\* What acknowledgements, sent or about to be sent, may name.
AckInv ==
    /\ covered <= ack_time /\ loaded <= ack_time /\ wire <= covered
    /\ itv \in {"lock", "send"} /\ wire < covered => covered <= loaded
    /\ itv = "reset" => loaded <= covered
    /\ recv = "rotReset" => covered = stored

CounterInv ==
    /\ recv \in Counted \cup {"failed"} => ack_cnt <= RotationCnt
    /\ recv \notin Counted \cup {"failed"} => ack_cnt < RotationCnt

\* Appended and counted events that no acknowledgement names yet.
Outstanding(upto) == (IF recv \in Uncounted THEN stored - 1 ELSE stored) - upto

\* The counter accounts for the outstanding events but for the ones a reset
\* by the interval task forgot; between its load of ack_time and its reset
\* the task has nothing to forget yet.
BacklogInv ==
    /\ recv # "failed" => Outstanding(covered) <= ack_cnt + RotationCnt + 1
    /\ recv # "failed" /\ itv \in {"lock", "send", "reset"} =>
          Outstanding(Larger(covered, loaded)) <= ack_cnt + 1
    /\ recv = "failed" => BacklogBounded

IInv == TypeOK /\ PhaseInv /\ AckInv /\ CounterInv /\ BacklogInv

\* Points of the loop at which the WAL is up to date.
FlushInv ==
    recv \in {"shutAbort", "errAbort", "returned"} => synced = stored

\* The initial values have their types.
LEMMA InitTypeOK == Init => TypeOK
<1> SUFFICES ASSUME Init PROVE TypeOK
  OBVIOUS
<1>1. /\ recv \in RecvPc /\ itv \in ItvPc
      /\ sender \in {"free", "rotation", "interval"}
  BY Zenon DEF Init, RecvPc, ItvPc
<1>2. /\ due \in BOOLEAN /\ permit \in BOOLEAN /\ aborted \in BOOLEAN
      /\ broken \in BOOLEAN /\ shutdown \in BOOLEAN
  BY Zenon DEF Init
<1>3. 0 \in Nat
  OBVIOUS
<1>4. /\ received \in Nat /\ stored \in Nat /\ synced \in Nat
      /\ ack_cnt \in Nat /\ ack_time \in Nat /\ loaded \in Nat
      /\ wire \in Nat /\ covered \in Nat
  BY <1>3, Zenon DEF Init, NO_TIMESTAMP
<1> QED BY <1>1, <1>2, <1>4 DEF TypeOK

\* Type correctness of every reachable state: Init establishes TypeOK and
\* every step of either task or of the environment keeps it.
THEOREM TypeCorrect == Spec => []TypeOK
<1>1. Init => TypeOK
  BY InitTypeOK
<1>2. TypeOK /\ [Next]_vars => TypeOK'
  <2> SUFFICES ASSUME TypeOK, [Next]_vars PROVE TypeOK'
    OBVIOUS
  <2> USE DEF TypeOK, RecvPc, ItvPc, recvVars, itvVars, shared, ackVars, envVars
  <2>1. CASE Receive
    <3>1. CASE RecvEvent
      BY <3>1 DEF RecvEvent, Goto
    <3>2. CASE RecvChannelDone
      BY <3>2 DEF RecvChannelDone, Goto
    <3>3. CASE RecvFinished
      BY <3>3 DEF RecvFinished, Goto
    <3>4. CASE RecvError
      BY <3>4 DEF RecvError, Goto
    <3> QED BY <2>1, <3>1, <3>2, <3>3, <3>4 DEF Receive
  <2>2. CASE Receiver
    <3>1. CASE Append
      BY <3>1 DEF Append, Goto
    <3>2. CASE AppendError
      BY <3>2 DEF AppendError, Fail, Goto
    <3>3. CASE DirectStream
      BY <3>3 DEF DirectStream, Goto
    <3>4. CASE DirectStreamError
      BY <3>4 DEF DirectStreamError, Fail, Goto
    <3>5. CASE CountEvent
      BY <3>5 DEF CountEvent, Goto
    <3>6. CASE StampEvent
      BY <3>6 DEF StampEvent, Goto
    <3>7. CASE CheckRotation
      BY <3>7 DEF CheckRotation
    <3>8. CASE RecvLock
      BY <3>8 DEF RecvLock, Goto
    <3>9. CASE RotationAck
      BY <3>9 DEF RotationAck, Goto, Larger
    <3>10. CASE RecvAckError
      BY <3>10 DEF RecvAckError
    <3>11. CASE RotationReset
      BY <3>11 DEF RotationReset, Goto
    <3>12. CASE RotationNotify
      BY <3>12 DEF RotationNotify, Goto
    <3>13. CASE RotationFlush
      BY <3>13 DEF RotationFlush, Goto
    <3>14. CASE DoneAck
      BY <3>14 DEF DoneAck, Goto
    <3>15. CASE CheckShutdown
      BY <3>15 DEF CheckShutdown
    <3>16. CASE ErrorFlush
      BY <3>16 DEF ErrorFlush, Goto
    <3>17. CASE Abort
      BY <3>17 DEF Abort, Goto
    <3>18. CASE LastFlush
      BY <3>18 DEF LastFlush, Goto
    <3>19. CASE FlushError
      BY <3>19 DEF FlushError, Fail, Goto
    <3> QED BY <2>2, <3>1, <3>2, <3>3, <3>4, <3>5, <3>6, <3>7, <3>8, <3>9, <3>10, <3>11, <3>12, <3>13, <3>14, <3>15, <3>16, <3>17, <3>18, <3>19 DEF Receiver
  <2>3. CASE Interval
    <3>1. CASE IntervalTick
      BY <3>1 DEF IntervalTick, IsNoTimestamp
    <3>2. CASE IntervalNotified
      BY <3>2 DEF IntervalNotified
    <3>3. CASE IntervalLock
      BY <3>3 DEF IntervalLock
    <3>4. CASE IntervalAck
      BY <3>4 DEF IntervalAck, Larger
    <3>5. CASE IntervalAckError
      BY <3>5 DEF IntervalAckError
    <3>6. CASE IntervalReset
      BY <3>6 DEF IntervalReset
    <3>7. CASE IntervalCancel
      BY <3>7 DEF IntervalCancel
    <3> QED BY <2>3, <3>1, <3>2, <3>3, <3>4, <3>5, <3>6, <3>7 DEF Interval
  <2>4. CASE Environment
    <3>1. CASE Elapse
      BY <3>1 DEF Elapse
    <3>2. CASE Break
      BY <3>2 DEF Break
    <3>3. CASE Shutdown
      BY <3>3 DEF Shutdown
    <3> QED BY <2>4, <3>1, <3>2, <3>3 DEF Environment
  <2>5. CASE UNCHANGED vars
    BY <2>5 DEF vars
  <2> QED BY <2>1, <2>2, <2>3, <2>4, <2>5 DEF Next
<1> QED BY <1>1, <1>2, PTL DEF Spec

\* The initial state satisfies the inductive invariant.
LEMMA InitIInv == Init => IInv
<1> SUFFICES ASSUME Init PROVE IInv
  OBVIOUS
<1>1. /\ recv = "recv" /\ itv = "select"
      /\ received = 0 /\ stored = 0 /\ ack_cnt = 0 /\ ack_time = 0
      /\ loaded = 0 /\ wire = 0 /\ covered = 0
  BY Zenon DEF Init, NO_TIMESTAMP
<1>2. PhaseInv /\ AckInv
  BY <1>1 DEF PhaseInv, AckInv
<1>3. CounterInv /\ BacklogInv
  BY <1>1, RotationCntAssumption
  DEF CounterInv, BacklogInv, Outstanding, Counted, Uncounted, Larger
<1> QED BY <1>2, <1>3, InitTypeOK DEF IInv

\* Every step keeps the inductive invariant.
LEMMA StepIInv == IInv /\ TypeOK' /\ [Next]_vars => IInv'
<1> SUFFICES ASSUME IInv, TypeOK', [Next]_vars
             PROVE PhaseInv' /\ AckInv' /\ CounterInv' /\ BacklogInv'
  BY DEF IInv
<1>1. PhaseInv' /\ AckInv' /\ CounterInv' /\ BacklogInv'
  <2> USE RotationCntAssumption
      DEF IInv, TypeOK, PhaseInv, AckInv, CounterInv, BacklogInv,
          Outstanding, Counted, Uncounted, Larger, BacklogBounded,
          recvVars, itvVars, shared, ackVars, envVars
  <2>1. CASE Receive
    <3>1. CASE RecvEvent
      BY <3>1 DEF RecvEvent, Goto
    <3>2. CASE RecvChannelDone
      BY <3>2 DEF RecvChannelDone, Goto
    <3>3. CASE RecvFinished
      BY <3>3 DEF RecvFinished, Goto
    <3>4. CASE RecvError
      BY <3>4 DEF RecvError, Goto
    <3> QED BY <2>1, <3>1, <3>2, <3>3, <3>4 DEF Receive
  <2>2. CASE Receiver
    <3>1. CASE Append
      BY <3>1 DEF Append, Goto
    <3>2. CASE AppendError
      BY <3>2 DEF AppendError, Fail, Goto
    <3>3. CASE DirectStream
      BY <3>3 DEF DirectStream, Goto
    <3>4. CASE DirectStreamError
      BY <3>4 DEF DirectStreamError, Fail, Goto
    <3>5. CASE CountEvent
      BY <3>5 DEF CountEvent, Goto
    <3>6. CASE StampEvent
      BY <3>6 DEF StampEvent, Goto
    <3>7. CASE CheckRotation
      BY <3>7 DEF CheckRotation
    <3>8. CASE RecvLock
      BY <3>8 DEF RecvLock, Goto
    <3>9. CASE RotationAck
      BY <3>9 DEF RotationAck, Goto, Larger
    <3>10. CASE RecvAckError
      BY <3>10 DEF RecvAckError
    <3>11. CASE RotationReset
      BY <3>11 DEF RotationReset, Goto
    <3>12. CASE RotationNotify
      BY <3>12 DEF RotationNotify, Goto
    <3>13. CASE RotationFlush
      BY <3>13 DEF RotationFlush, Goto
    <3>14. CASE DoneAck
      BY <3>14 DEF DoneAck, Goto
    <3>15. CASE CheckShutdown
      BY <3>15 DEF CheckShutdown
    <3>16. CASE ErrorFlush
      BY <3>16 DEF ErrorFlush, Goto
    <3>17. CASE Abort
      BY <3>17 DEF Abort, Goto
    <3>18. CASE LastFlush
      BY <3>18 DEF LastFlush, Goto
    <3>19. CASE FlushError
      <4>1. recv \in {"rotFlush", "errFlush", "lastFlush", "shutdown"}
        BY <3>19, Zenon DEF FlushError, Fail, Goto
      <4>2. /\ recv' = "failed"
            /\ UNCHANGED <<received, stored, itv, loaded, ack_cnt, ack_time,
                           wire, covered>>
        BY <3>19, Zenon DEF FlushError, Fail, Goto
      <4> QED BY <4>1, <4>2
    <3> QED BY <2>2, <3>1, <3>2, <3>3, <3>4, <3>5, <3>6, <3>7, <3>8, <3>9, <3>10, <3>11, <3>12, <3>13, <3>14, <3>15, <3>16, <3>17, <3>18, <3>19 DEF Receiver
  <2>3. CASE Interval
    <3>1. CASE IntervalTick
      BY <3>1 DEF IntervalTick, IsNoTimestamp
    <3>2. CASE IntervalNotified
      BY <3>2 DEF IntervalNotified
    <3>3. CASE IntervalLock
      BY <3>3 DEF IntervalLock
    <3>4. CASE IntervalAck
      BY <3>4 DEF IntervalAck, Larger
    <3>5. CASE IntervalAckError
      BY <3>5 DEF IntervalAckError
    <3>6. CASE IntervalReset
      BY <3>6 DEF IntervalReset
    <3>7. CASE IntervalCancel
      BY <3>7 DEF IntervalCancel
    <3> QED BY <2>3, <3>1, <3>2, <3>3, <3>4, <3>5, <3>6, <3>7 DEF Interval
  <2>4. CASE Environment
    <3>1. CASE Elapse
      BY <3>1 DEF Elapse
    <3>2. CASE Break
      BY <3>2 DEF Break
    <3>3. CASE Shutdown
      BY <3>3 DEF Shutdown
    <3> QED BY <2>4, <3>1, <3>2, <3>3 DEF Environment
  <2>5. CASE UNCHANGED vars
    BY <2>5 DEF vars
  <2> QED BY <2>1, <2>2, <2>3, <2>4, <2>5 DEF Next
<1> QED BY <1>1

\* The inductive invariant holds in every reachable state.
THEOREM Invariant == Spec => []IInv
<1>1. IInv /\ TypeOK /\ TypeOK' /\ [Next]_vars => IInv'
  BY StepIInv
<1> QED BY <1>1, InitIInv, TypeCorrect, PTL DEF Spec

\* No acknowledgement names an event that was not appended, for any rotation
\* count and any number of events.
THEOREM AckOnlyStoredHolds == Spec => []AckOnlyStored
<1>1. IInv => AckOnlyStored
  BY DEF IInv, TypeOK, PhaseInv, AckInv, AckOnlyStored
<1> QED BY <1>1, Invariant, PTL

\* The counter shared by the two tasks never passes the rotation count.
THEOREM CounterBoundedHolds == Spec => []CounterBounded
<1>1. IInv => CounterBounded
  BY RotationCntAssumption DEF IInv, TypeOK, CounterInv, CounterBounded
<1> QED BY <1>1, Invariant, PTL

\* The backlog of unacknowledged events never passes twice the rotation count
\* plus one, however the interval task's load, acknowledgement and reset
\* interleave with the receiver loop.
THEOREM BacklogBoundedHolds == Spec => []BacklogBounded
<1>1. IInv => BacklogBounded
  BY RotationCntAssumption
  DEF IInv, TypeOK, CounterInv, BacklogInv, Outstanding, Counted, Uncounted,
      BacklogBounded
<1> QED BY <1>1, Invariant, PTL

\* A stale acknowledgement is always followed by one that is not.
THEOREM StaleAckIsOvertakenHolds == Spec => StaleAckIsOvertaken
<1>1. IInv /\ [Next]_vars =>
        [wire < covered /\ SendsAck => wire' >= covered]_vars
  <2> SUFFICES ASSUME IInv, Next, wire < covered, SendsAck
               PROVE wire' >= covered
    OBVIOUS
  <2>1. RotationAck \/ IntervalAck
    BY DEF SendsAck, Goto, Next, Receive, Receiver, Interval, Environment, vars,
       recvVars, itvVars, shared, ackVars, envVars, RecvEvent, RecvChannelDone,
       RecvFinished, RecvError, Append, AppendError, DirectStream,
       DirectStreamError, CountEvent, StampEvent, CheckRotation, RecvLock,
       RecvAckError, RotationReset, RotationNotify, RotationFlush, DoneAck,
       CheckShutdown, ErrorFlush, Abort, LastFlush, FlushError, Fail,
       IntervalTick, IntervalNotified, IntervalLock, IntervalAckError,
       IntervalReset, IntervalCancel, Elapse, Break, Shutdown
  <2>2. CASE RotationAck
    BY <2>2 DEF RotationAck, Goto, IInv, TypeOK, PhaseInv, AckInv
  <2>3. CASE IntervalAck
    BY <2>3 DEF IntervalAck, IInv, TypeOK, AckInv
  <2> QED BY <2>1, <2>2, <2>3
<1> QED BY <1>1, Invariant, PTL DEF Spec, StaleAckIsOvertaken

\* Every return of the loop other than through `?` leaves all it appended in
\* the WAL file.
THEOREM ReturnedMeansFlushedHolds == Spec => []ReturnedMeansFlushed
<1>1. Init => FlushInv
  BY DEF Init, FlushInv
<1>2. FlushInv /\ [Next]_vars => FlushInv'
  <2> SUFFICES ASSUME FlushInv, [Next]_vars PROVE FlushInv'
    OBVIOUS
  <2> USE DEF FlushInv, recvVars, itvVars, shared, ackVars, envVars
  <2>1. CASE Receive
    <3>1. CASE RecvEvent
      BY <3>1 DEF RecvEvent, Goto
    <3>2. CASE RecvChannelDone
      BY <3>2 DEF RecvChannelDone, Goto
    <3>3. CASE RecvFinished
      BY <3>3 DEF RecvFinished, Goto
    <3>4. CASE RecvError
      BY <3>4 DEF RecvError, Goto
    <3> QED BY <2>1, <3>1, <3>2, <3>3, <3>4 DEF Receive
  <2>2. CASE Receiver
    <3>1. CASE Append
      BY <3>1 DEF Append, Goto
    <3>2. CASE AppendError
      BY <3>2 DEF AppendError, Fail, Goto
    <3>3. CASE DirectStream
      BY <3>3 DEF DirectStream, Goto
    <3>4. CASE DirectStreamError
      BY <3>4 DEF DirectStreamError, Fail, Goto
    <3>5. CASE CountEvent
      BY <3>5 DEF CountEvent, Goto
    <3>6. CASE StampEvent
      BY <3>6 DEF StampEvent, Goto
    <3>7. CASE CheckRotation
      BY <3>7 DEF CheckRotation
    <3>8. CASE RecvLock
      BY <3>8 DEF RecvLock, Goto
    <3>9. CASE RotationAck
      BY <3>9 DEF RotationAck, Goto, Larger
    <3>10. CASE RecvAckError
      BY <3>10 DEF RecvAckError
    <3>11. CASE RotationReset
      BY <3>11 DEF RotationReset, Goto
    <3>12. CASE RotationNotify
      BY <3>12 DEF RotationNotify, Goto
    <3>13. CASE RotationFlush
      BY <3>13 DEF RotationFlush, Goto
    <3>14. CASE DoneAck
      BY <3>14 DEF DoneAck, Goto
    <3>15. CASE CheckShutdown
      BY <3>15 DEF CheckShutdown
    <3>16. CASE ErrorFlush
      BY <3>16 DEF ErrorFlush, Goto
    <3>17. CASE Abort
      BY <3>17 DEF Abort, Goto
    <3>18. CASE LastFlush
      BY <3>18 DEF LastFlush, Goto
    <3>19. CASE FlushError
      BY <3>19 DEF FlushError, Fail, Goto
    <3> QED BY <2>2, <3>1, <3>2, <3>3, <3>4, <3>5, <3>6, <3>7, <3>8, <3>9, <3>10, <3>11, <3>12, <3>13, <3>14, <3>15, <3>16, <3>17, <3>18, <3>19 DEF Receiver
  <2>3. CASE Interval
    <3>1. CASE IntervalTick
      BY <3>1 DEF IntervalTick, IsNoTimestamp
    <3>2. CASE IntervalNotified
      BY <3>2 DEF IntervalNotified
    <3>3. CASE IntervalLock
      BY <3>3 DEF IntervalLock
    <3>4. CASE IntervalAck
      BY <3>4 DEF IntervalAck, Larger
    <3>5. CASE IntervalAckError
      BY <3>5 DEF IntervalAckError
    <3>6. CASE IntervalReset
      BY <3>6 DEF IntervalReset
    <3>7. CASE IntervalCancel
      BY <3>7 DEF IntervalCancel
    <3> QED BY <2>3, <3>1, <3>2, <3>3, <3>4, <3>5, <3>6, <3>7 DEF Interval
  <2>4. CASE Environment
    <3>1. CASE Elapse
      BY <3>1 DEF Elapse
    <3>2. CASE Break
      BY <3>2 DEF Break
    <3>3. CASE Shutdown
      BY <3>3 DEF Shutdown
    <3> QED BY <2>4, <3>1, <3>2, <3>3 DEF Environment
  <2>5. CASE UNCHANGED vars
    BY <2>5 DEF vars
  <2> QED BY <2>1, <2>2, <2>3, <2>4, <2>5 DEF Next
<1>3. FlushInv => ReturnedMeansFlushed
  BY DEF FlushInv, ReturnedMeansFlushed
<1> QED BY <1>1, <1>2, <1>3, PTL DEF Spec
=============================================================================
