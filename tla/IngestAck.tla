----------------------------- MODULE IngestAck -----------------------------
(***************************************************************************)
(* One ingest stream: `handle_data` of src/ingest.rs and the interval task *)
(* it spawns.  An agent sends raw events over a QUIC stream; the receiver  *)
(* loop appends each to RocksDB and acknowledges them in batches, either   *)
(* itself (the "rotation" acknowledgement, after ACK_ROTATION_CNT events)  *)
(* or through the interval task (every ACK_INTERVAL_TIME seconds).  The    *)
(* two run on different threads and share `ack_cnt`, `ack_time`, the send  *)
(* half of the stream behind a tokio Mutex, and a Notify.                  *)
(*                                                                         *)
(* Events are named by their arrival number 1, 2, 3, ...  Wherever the     *)
(* code keeps an event's timestamp the model keeps the arrival number; the *)
(* only thing the code ever asks of a timestamp here is whether it equals  *)
(* NO_TIMESTAMP, and ZeroStamped holds the events for which it does.       *)
(***************************************************************************)
EXTENDS Integers

CONSTANTS
    RotationCnt,   \* ACK_ROTATION_CNT (1024 in the code)
    MaxEvents,     \* bound: how many events the agent sends on the stream
    ZeroStamped    \* arrival numbers of the events whose timestamp is 0

ASSUME RotationCntAssumption == RotationCnt \in Nat \ {0}
ASSUME MaxEventsAssumption == MaxEvents \in Nat
ASSUME ZeroStampedAssumption == ZeroStamped \subseteq Nat \ {0}

VARIABLES
    recv,       \* program counter of the receiver loop
    received,   \* arrival number of the event last taken off the stream
    stored,     \* arrival number of the event last appended to the store
    synced,     \* events up to this one are in the WAL file (flush_wal)
    ack_cnt,    \* AtomicU16 shared by the two tasks
    ack_time,   \* AtomicI64 shared by the two tasks, 0 is NO_TIMESTAMP
    itv,        \* program counter of the interval task
    loaded,     \* last_timestamp, the interval task's local copy of ack_time
    due,        \* the interval's deadline has passed
    permit,     \* ack_time_notify holds a permit (or has woken the task)
    aborted,    \* handler.abort() has been called
    sender,     \* who holds the Mutex around the send stream
    wire,       \* event named by the acknowledgement last sent
    covered,    \* newest event ever named by an acknowledgement
    broken,     \* the peer reset the stream or the connection is gone
    shutdown    \* shutdown_signal

recvVars == <<recv, received, stored, synced>>
itvVars == <<itv, loaded, due>>
shared == <<ack_cnt, ack_time, permit, aborted>>
ackVars == <<sender, wire, covered>>
envVars == <<broken, shutdown>>
vars == <<recvVars, itvVars, shared, ackVars, envVars>>

RecvPc == {"recv", "append", "direct", "count", "stamp", "check",
           "rotLock", "rotSend", "rotReset", "rotNotify", "rotFlush",
           "doneLock", "doneSend", "shutdown", "shutAbort", "errFlush",
           "errAbort", "lastFlush", "returned", "failed"}
ItvPc == {"select", "lock", "send", "reset", "dead"}

NO_TIMESTAMP == 0

\* ack_time as the interval task sees it: no event yet, or a timestamp of 0.
IsNoTimestamp(e) == e = NO_TIMESTAMP \/ e \in ZeroStamped

Larger(a, b) == IF a < b THEN b ELSE a

Init ==
    /\ recv = "recv" /\ received = 0 /\ stored = 0 /\ synced = 0
    /\ ack_cnt = 0 /\ ack_time = NO_TIMESTAMP /\ permit = FALSE
    /\ aborted = FALSE
    /\ itv = "select" /\ loaded = NO_TIMESTAMP /\ due = FALSE
    /\ sender = "free" /\ wire = 0 /\ covered = 0
    /\ broken = FALSE /\ shutdown = FALSE

-----------------------------------------------------------------------------
(* The receiver loop.                                                      *)

Goto(from, to) == recv = from /\ recv' = to

\* An error returned with `?`: handle_data ends at once.  It neither aborts
\* the interval task nor flushes.
Fail(from) ==
    /\ Goto(from, "failed")
    /\ UNCHANGED <<received, stored, synced, itvVars, shared, ackVars, envVars>>

\* Mutant: ack_time is stored as soon as the event is received.
RecvEventStampsEarly ==
    /\ Goto("recv", "append")
    /\ received < MaxEvents
    /\ received' = received + 1
    /\ ack_time' = received + 1
    /\ UNCHANGED <<stored, synced, itvVars, ack_cnt, permit, aborted, ackVars,
                   envVars>>

\* receive_event yields an event.
RecvEvent ==
    /\ Goto("recv", "append")
    /\ received < MaxEvents
    /\ received' = received + 1
    /\ UNCHANGED <<stored, synced, itvVars, shared, ackVars, envVars>>

\* receive_event yields the "channel done" message of a reproduce agent.
RecvChannelDone ==
    /\ Goto("recv", "doneLock")
    /\ UNCHANGED <<received, stored, synced, itvVars, shared, ackVars, envVars>>

\* Mutant: the interval task is not aborted.
RecvFinishedNoAbort ==
    /\ Goto("recv", "lastFlush")
    /\ UNCHANGED <<received, stored, synced, itvVars, shared, ackVars, envVars>>

\* receive_event yields FinishedEarly: the agent closed its half cleanly.
RecvFinished ==
    /\ Goto("recv", "lastFlush")
    /\ aborted' = TRUE
    /\ UNCHANGED <<received, stored, synced, itvVars, ack_cnt, ack_time,
                   permit, ackVars, envVars>>

\* receive_event yields any other error.
RecvError ==
    /\ broken
    /\ Goto("recv", "errFlush")
    /\ UNCHANGED <<received, stored, synced, itvVars, shared, ackVars, envVars>>

\* The event decodes, its key is built and the store takes it.
Append ==
    /\ Goto("append", "direct")
    /\ stored' = received
    /\ UNCHANGED <<received, synced, itvVars, shared, ackVars, envVars>>

\* The event does not decode, or RocksDB refuses it.
AppendError == Fail("append")

\* send_direct_stream reaches every subscriber of the event's protocol, or
\* the kind of event has no subscribers at all.
DirectStream ==
    /\ Goto("direct", "count")
    /\ UNCHANGED <<received, stored, synced, itvVars, shared, ackVars, envVars>>

\* A subscriber's channel is closed.
DirectStreamError == Fail("direct")

CountEvent ==
    /\ Goto("count", "stamp")
    /\ ack_cnt' = ack_cnt + 1
    /\ UNCHANGED <<received, stored, synced, itvVars, ack_time, permit,
                   aborted, ackVars, envVars>>

StampEvent ==
    /\ Goto("stamp", "check")
    /\ ack_time' = received
    /\ UNCHANGED <<received, stored, synced, itvVars, ack_cnt, permit,
                   aborted, ackVars, envVars>>

\* Mutant: off by one.
CheckRotationLate ==
    /\ recv = "check"
    /\ recv' = IF RotationCnt < ack_cnt THEN "rotLock" ELSE "shutdown"
    /\ UNCHANGED <<received, stored, synced, itvVars, shared, ackVars, envVars>>

CheckRotation ==
    /\ recv = "check"
    /\ recv' = IF RotationCnt <= ack_cnt THEN "rotLock" ELSE "shutdown"
    /\ UNCHANGED <<received, stored, synced, itvVars, shared, ackVars, envVars>>

RecvLock ==
    /\ sender = "free"
    /\ sender' = "rotation"
    /\ \/ Goto("rotLock", "rotSend")
       \/ Goto("doneLock", "doneSend")
    /\ UNCHANGED <<received, stored, synced, itvVars, shared, wire, covered,
                   envVars>>

\* send_ack_timestamp for the event in hand; the guard is dropped with the
\* statement.
RotationAck ==
    /\ ~broken
    /\ Goto("rotSend", "rotReset")
    /\ sender' = "free"
    /\ wire' = received
    /\ covered' = Larger(covered, received)
    /\ UNCHANGED <<received, stored, synced, itvVars, shared, envVars>>

\* Either acknowledgement of the receiver loop fails to go out.
RecvAckError ==
    /\ broken
    /\ recv \in {"rotSend", "doneSend"}
    /\ recv' = "failed"
    /\ sender' = "free"
    /\ UNCHANGED <<received, stored, synced, itvVars, shared, wire, covered,
                   envVars>>

RotationReset ==
    /\ Goto("rotReset", "rotNotify")
    /\ ack_cnt' = 0
    /\ UNCHANGED <<received, stored, synced, itvVars, ack_time, permit,
                   aborted, ackVars, envVars>>

RotationNotify ==
    /\ Goto("rotNotify", "rotFlush")
    /\ permit' = TRUE
    /\ UNCHANGED <<received, stored, synced, itvVars, ack_cnt, ack_time,
                   aborted, ackVars, envVars>>

RotationFlush ==
    /\ Goto("rotFlush", "shutdown")
    /\ synced' = stored
    /\ UNCHANGED <<received, stored, itvVars, shared, ackVars, envVars>>

\* The "channel done" message is echoed and the loop continues.
DoneAck ==
    /\ ~broken
    /\ Goto("doneSend", "recv")
    /\ sender' = "free"
    /\ UNCHANGED <<received, stored, synced, itvVars, shared, wire, covered,
                   envVars>>

\* shutdown_signal is looked at after every event and at no other time.
CheckShutdown ==
    /\ recv = "shutdown"
    /\ \/ ~shutdown /\ recv' = "recv" /\ UNCHANGED synced
       \/ shutdown /\ recv' = "shutAbort" /\ synced' = stored
    /\ UNCHANGED <<received, stored, itvVars, shared, ackVars, envVars>>

\* The flush after a receive error; the abort follows it.
ErrorFlush ==
    /\ Goto("errFlush", "errAbort")
    /\ synced' = stored
    /\ UNCHANGED <<received, stored, itvVars, shared, ackVars, envVars>>

\* handler.abort(): the shutdown path then breaks out of the loop, the error
\* path returns.
Abort ==
    /\ \/ Goto("shutAbort", "lastFlush")
       \/ Goto("errAbort", "returned")
    /\ aborted' = TRUE
    /\ UNCHANGED <<received, stored, synced, itvVars, ack_cnt, ack_time,
                   permit, ackVars, envVars>>

\* Mutant: no flush on the way out.
LastFlushMissing ==
    /\ Goto("lastFlush", "returned")
    /\ UNCHANGED <<received, stored, synced, itvVars, shared, ackVars, envVars>>

LastFlush ==
    /\ Goto("lastFlush", "returned")
    /\ synced' = stored
    /\ UNCHANGED <<received, stored, itvVars, shared, ackVars, envVars>>

\* flush_wal fails.
FlushError ==
    \/ Fail("rotFlush")
    \/ Fail("errFlush")
    \/ Fail("lastFlush")
    \/ shutdown /\ Fail("shutdown")

-----------------------------------------------------------------------------
(* The interval task.                                                      *)

\* Mutant: ack_time is loaded once and for all.
IntervalTickLoadsOnce ==
    /\ itv = "select" /\ due /\ ~aborted
    /\ due' = FALSE
    /\ loaded' = IF IsNoTimestamp(loaded) THEN ack_time ELSE loaded
    /\ itv' = IF IsNoTimestamp(ack_time) THEN "select" ELSE "lock"
    /\ UNCHANGED <<recvVars, shared, ackVars, envVars>>

\* Mutant: with nothing to acknowledge the task ends.
IntervalTickGivesUp ==
    /\ itv = "select" /\ due /\ ~aborted
    /\ due' = FALSE
    /\ loaded' = ack_time
    /\ itv' = IF IsNoTimestamp(ack_time) THEN "dead" ELSE "lock"
    /\ UNCHANGED <<recvVars, shared, ackVars, envVars>>

\* itv.tick() fires and ack_time is loaded.
IntervalTick ==
    /\ itv = "select" /\ due /\ ~aborted
    /\ due' = FALSE
    /\ loaded' = ack_time
    /\ itv' = IF IsNoTimestamp(ack_time) THEN "select" ELSE "lock"
    /\ UNCHANGED <<recvVars, shared, ackVars, envVars>>

\* ack_time_notified fires: itv.reset() pushes the deadline back.
IntervalNotified ==
    /\ itv = "select" /\ permit /\ ~aborted
    /\ permit' = FALSE
    /\ due' = FALSE
    /\ UNCHANGED <<recvVars, itv, loaded, ack_cnt, ack_time, aborted, ackVars,
                   envVars>>

IntervalLock ==
    /\ itv = "lock" /\ sender = "free"
    /\ itv' = "send"
    /\ sender' = "interval"
    /\ UNCHANGED <<recvVars, loaded, due, shared, wire, covered, envVars>>

IntervalAck ==
    /\ itv = "send" /\ ~broken
    /\ itv' = "reset"
    /\ sender' = "free"
    /\ wire' = loaded
    /\ covered' = Larger(covered, loaded)
    /\ UNCHANGED <<recvVars, loaded, due, shared, envVars>>

\* Mutant: the error is ignored and the counter zeroed all the same.
IntervalAckErrorIgnored ==
    /\ itv = "send" /\ broken
    /\ itv' = "reset"
    /\ sender' = "free"
    /\ UNCHANGED <<recvVars, loaded, due, shared, wire, covered, envVars>>

\* The acknowledgement fails: the task breaks out of its loop.
IntervalAckError ==
    /\ itv = "send" /\ broken
    /\ itv' = "dead"
    /\ sender' = "free"
    /\ UNCHANGED <<recvVars, loaded, due, shared, wire, covered, envVars>>

IntervalReset ==
    /\ itv = "reset"
    /\ itv' = "select"
    /\ ack_cnt' = 0
    /\ UNCHANGED <<recvVars, loaded, due, ack_time, permit, aborted, ackVars,
                   envVars>>

\* An aborted task is dropped at the await point it is suspended at; a task
\* that was running when abort() was called first runs on to one.
IntervalCancel ==
    /\ aborted /\ itv \in {"select", "lock", "send"}
    /\ itv' = "dead"
    /\ sender' = IF itv = "send" THEN "free" ELSE sender
    /\ UNCHANGED <<recvVars, loaded, due, shared, wire, covered, envVars>>

-----------------------------------------------------------------------------
(* The environment: time, the network, the server's shutdown.              *)

Elapse ==
    /\ ~due /\ itv # "dead"
    /\ due' = TRUE
    /\ UNCHANGED <<recvVars, itv, loaded, shared, ackVars, envVars>>

Break ==
    /\ ~broken
    /\ broken' = TRUE
    /\ UNCHANGED <<recvVars, itvVars, shared, ackVars, shutdown>>

Shutdown ==
    /\ ~shutdown
    /\ shutdown' = TRUE
    /\ UNCHANGED <<recvVars, itvVars, shared, ackVars, broken>>

-----------------------------------------------------------------------------
\* Steps the receiver loop takes by itself once it holds a message.
Receiver ==
    \/ Append \/ AppendError
    \/ DirectStream \/ DirectStreamError
    \/ CountEvent \/ StampEvent \/ CheckRotation
    \/ RecvLock \/ RotationAck \/ RecvAckError
    \/ RotationReset \/ RotationNotify \/ RotationFlush
    \/ DoneAck
    \/ CheckShutdown \/ ErrorFlush \/ Abort \/ LastFlush \/ FlushError

\* What the agent's side of the stream makes receive_event return.
Receive == RecvEvent \/ RecvChannelDone \/ RecvFinished \/ RecvError

Interval ==
    \/ IntervalTick \/ IntervalNotified
    \/ IntervalLock \/ IntervalAck \/ IntervalAckError
    \/ IntervalReset \/ IntervalCancel

Environment == Elapse \/ Break \/ Shutdown

Next == Receive \/ Receiver \/ Interval \/ Environment

\* Both tasks are polled while they can run and time passes.  tokio's Mutex
\* hands the lock out in FIFO order, so a task that waits for it gets it.
Fairness ==
    /\ WF_vars(Receiver) /\ SF_vars(RecvLock)
    /\ WF_vars(Interval) /\ SF_vars(IntervalLock)
    /\ WF_vars(IntervalTick) /\ WF_vars(Elapse)

Spec == Init /\ [][Next]_vars
FairSpec == Spec /\ Fairness

-----------------------------------------------------------------------------
(* Properties.                                                             *)

\* Every variable keeps its type; in particular the loop stays within the
\* program points of handle_data and the interval task.
TypeOK ==
    /\ recv \in RecvPc /\ itv \in ItvPc
    /\ received \in Nat /\ stored \in Nat /\ synced \in Nat
    /\ ack_cnt \in Nat /\ ack_time \in Nat /\ loaded \in Nat
    /\ due \in BOOLEAN /\ permit \in BOOLEAN /\ aborted \in BOOLEAN
    /\ sender \in {"free", "rotation", "interval"}
    /\ wire \in Nat /\ covered \in Nat
    /\ broken \in BOOLEAN /\ shutdown \in BOOLEAN

\* No acknowledgement, not even one from an interval task that outlives its
\* receiver loop, names an event that was not appended to the store: an
\* agent may forget whatever it has seen acknowledged.
AckOnlyStored == covered <= stored

\* At most 2 * ACK_ROTATION_CNT + 1 appended events are unacknowledged at any
\* time.  ACK_ROTATION_CNT is not the bound: the interval task zeroes ack_cnt
\* some time after it loaded ack_time, and so forgets every event counted in
\* between; those events plus a full rotation may be outstanding.
BacklogBounded == stored - covered <= 2 * RotationCnt + 1

\* ack_cnt is an AtomicU16 and is compared with <=: it never passes
\* ACK_ROTATION_CNT, so it never wraps around and no rotation is missed,
\* whatever the interval task does to it.
CounterBounded == ack_cnt <= RotationCnt

\* The interval task may send an acknowledgement that is older than one the
\* receiver loop sent after the task loaded ack_time.  Such a stale one is
\* never followed by another: the next acknowledgement names the newest
\* acknowledged event or a later one.
SendsAck ==
    \/ itv = "send" /\ itv' = "reset"
    \/ recv = "rotSend" /\ recv' = "rotReset"
StaleAckIsOvertaken == [][wire < covered /\ SendsAck => wire' >= covered]_vars

\* When handle_data returns other than through `?`, everything it appended is
\* in the WAL file, whichever of the three ways out it took.
ReturnedMeansFlushed == recv = "returned" => synced = stored

\* An appended event is acknowledged in the end, by a later rotation or by
\* the interval task, unless the stream ends or breaks first.  The exception
\* at the end is the code's: with a timestamp of 0 in ack_time the interval
\* task takes it that nothing has arrived yet.
EventuallyAcked ==
    \A e \in 1..MaxEvents :
        (stored >= e) ~> \/ covered >= e
                         \/ recv = "failed" \/ aborted \/ broken
                         \/ ack_time \in ZeroStamped

\* The interval task does not outlive its stream for ever: it ends after a
\* return that aborted it, and after a failed loop once the connection is
\* gone and there is an event for it to acknowledge.
IntervalTaskEnds ==
    (\/ recv = "returned"
     \/ recv = "failed" /\ broken /\ ~IsNoTimestamp(ack_time))
        ~> (itv = "dead")
=============================================================================
