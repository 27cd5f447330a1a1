--------------------------- MODULE LifecycleProofs ---------------------------
(***************************************************************************)
(* Proofs about Lifecycle, for any number of servers, other tasks and      *)
(* connection handlers, and any number of reloads.                         *)
(***************************************************************************)
EXTENDS Lifecycle, FiniteSetTheorems, SequenceTheorems, TLAPS

\* The elements of a sequence.
Elements(s) == {s[i] : i \in 1..Len(s)}

\* Removing an element from a sequence without repetition removes that one
\* and no other.
LEMMA RemoveFacts ==
    ASSUME NEW S, NEW s \in Seq(S), IsInjective(s), NEW e
    PROVE  /\ RemoveFirst(s, e) \in Seq(S) /\ IsInjective(RemoveFirst(s, e))
           /\ Elements(RemoveFirst(s, e)) = Elements(s) \ {e}
<1> DEFINE r == RemoveFirst(s, e)
<1>1. CASE ~\E i \in 1..Len(s) : s[i] = e
  <2>1. r = s
    BY <1>1 DEF RemoveFirst
  <2> QED BY <1>1, <2>1 DEF Elements
<1>2. CASE \E i \in 1..Len(s) : s[i] = e
  <2>1. PICK k \in 1..Len(s) : s[k] = e
    BY <1>2
  <2>2. {i \in 1..Len(s) : s[i] = e} = {k}
    BY <2>1 DEF IsInjective
  <2>3. Min({k}) = k
    BY DEF Min
  <2>4. r = RemoveAt(s, k)
    BY <1>2, <2>2, <2>3 DEF RemoveFirst, SelectInSeq
  <2>5. /\ r \in Seq(S) /\ Len(r) = Len(s) - 1
        /\ \A i \in 1..Len(r) : r[i] = IF i < k THEN s[i] ELSE s[i + 1]
    <3> DEFINE a == SubSeq(s, 1, k - 1)  b == SubSeq(s, k + 1, Len(s))
    <3>1. k \in Nat /\ Len(s) \in Nat /\ 1 <= k /\ k <= Len(s)
      OBVIOUS
    <3>2. /\ a \in Seq(S) /\ Len(a) = k - 1
          /\ \A i \in 1..(k - 1) : a[i] = s[i]
      BY <3>1
    <3>3. /\ b \in Seq(S) /\ Len(b) = Len(s) - k
          /\ \A i \in 1..(Len(s) - k) : b[i] = s[k + i]
      BY <3>1, SubSeqProperties
    <3>4. r = a \o b
      BY <2>4 DEF RemoveAt
    <3> HIDE DEF a, b, r
    <3>5. /\ r \in Seq(S) /\ Len(r) = Len(a) + Len(b)
          /\ \A i \in 1..(Len(a) + Len(b)) : r[i] = IF i <= Len(a) THEN a[i] ELSE b[i - Len(a)]
      BY <3>2, <3>3, <3>4, ConcatProperties
    <3>6. /\ Len(r) = Len(s) - 1
          /\ \A i \in 1..Len(r) : r[i] = IF i < k THEN a[i] ELSE b[i - (k - 1)]
      BY <3>1, <3>2, <3>3, <3>5
    <3>7. \A i \in 1..Len(r) : i >= k => b[i - (k - 1)] = s[i + 1]
      <4> SUFFICES ASSUME NEW i \in 1..Len(r), i >= k PROVE b[i - (k - 1)] = s[i + 1]
        OBVIOUS
      <4>1. i - (k - 1) \in 1..(Len(s) - k) /\ k + (i - (k - 1)) = i + 1
        BY <3>1, <3>6
      <4> QED BY <3>3, <4>1
    <3> QED BY <3>1, <3>2, <3>5, <3>6, <3>7
  <2> HIDE DEF r
  <2>6. Len(s) \in Nat /\ DOMAIN s = 1..Len(s) /\ DOMAIN r = 1..Len(r)
    BY <2>5
  <2>7. \A i \in 1..Len(s) : i < k => i \in 1..Len(r) /\ r[i] = s[i]
    BY <2>1, <2>5, <2>6
  <2>8. \A i \in 1..Len(s) : i > k => i - 1 \in 1..Len(r) /\ r[i - 1] = s[i]
    BY <2>1, <2>5, <2>6
  <2>9. \A i \in 1..Len(r) : \E j \in 1..Len(s) : j # k /\ r[i] = s[j] /\ j = (IF i < k THEN i ELSE i + 1)
    BY <2>1, <2>5, <2>6
  <2>10. Elements(r) = Elements(s) \ {e}
    <3>1. ASSUME NEW x \in Elements(r) PROVE x \in Elements(s) \ {e}
      BY <2>1, <2>6, <2>9 DEF Elements, IsInjective
    <3>2. ASSUME NEW x \in Elements(s) \ {e} PROVE x \in Elements(r)
      <4>1. PICK i \in 1..Len(s) : s[i] = x
        BY DEF Elements
      <4>2. i < k \/ i > k
        BY <2>1, <2>6, <4>1
      <4> QED BY <2>7, <2>8, <4>1, <4>2 DEF Elements
    <3> QED BY <3>1, <3>2
  <2>11. IsInjective(r)
    <3> SUFFICES ASSUME NEW a \in 1..Len(r), NEW b \in 1..Len(r), r[a] = r[b] PROVE a = b
      BY <2>6 DEF IsInjective
    <3>1. (IF a < k THEN a ELSE a + 1) = (IF b < k THEN b ELSE b + 1)
      BY <2>6, <2>9 DEF IsInjective
    <3> QED BY <2>1, <2>6, <3>1
  <2> QED BY <2>5, <2>10, <2>11 DEF r
<1> QED BY <1>1, <1>2

\* A finite set as a sequence: each element once.
LEMMA SetToSeqFacts ==
    ASSUME NEW S, IsFiniteSet(S)
    PROVE  /\ SetToSeq(S) \in Seq(S) /\ IsInjective(SetToSeq(S))
           /\ Elements(SetToSeq(S)) = S
<1> DEFINE n == Cardinality(S)
<1>1. n \in Nat /\ \E f \in [1..n -> S] : IsInjective(f)
  BY FS_CardinalityType DEF ExistsBijection, Bijection, Injection
<1>2. SetToSeq(S) \in [1..n -> S] /\ IsInjective(SetToSeq(S))
  BY <1>1 DEF SetToSeq
<1>3. SetToSeq(S) \in Injection(1..n, S)
  BY <1>2 DEF Injection
<1>4. IsFiniteSet(1..n) /\ Cardinality(1..n) = n
  BY <1>1, FS_Interval
<1>5. SetToSeq(S) \in Surjection(1..n, S)
  BY <1>3, <1>4, FS_Injection
<1>6. SetToSeq(S) \in Seq(S) /\ Len(SetToSeq(S)) = n
  BY <1>1, <1>2
<1> QED BY <1>2, <1>5, <1>6 DEF Elements, Surjection
-----------------------------------------------------------------------------
(* Types and the queue of the Notify.                                      *)

Types ==
    /\ task \in [Tasks -> TaskPc] /\ main \in MainPc
    /\ waiters \in Seq(Tasks \cup {Main})
    /\ permit \in BOOLEAN /\ reload \in BOOLEAN /\ ctrlc \in BOOLEAN
    /\ reloads \in 0..MaxReloads
    /\ missed \subseteq Tasks /\ stolen \in BOOLEAN /\ lingering \subseteq Tasks

\* Those who wait for a notification.
Queued == {t \in Tasks : task[t] = "wait"} \cup {m \in {Main} : main = "await"}

\* The queue without the bound on its length, which follows.
QInv == Types /\ Elements(waiters) = Queued /\ IsInjective(waiters)

\* The tail of a sequence without repetition lacks its head and no other.
LEMMA TailFacts ==
    ASSUME NEW S, NEW s \in Seq(S), s # <<>>, IsInjective(s)
    PROVE  /\ Tail(s) \in Seq(S) /\ IsInjective(Tail(s)) /\ Head(s) \in Elements(s)
           /\ Elements(Tail(s)) = Elements(s) \ {Head(s)}
<1>1. /\ Tail(s) \in Seq(S) /\ Len(s) \in Nat \ {0} /\ Len(Tail(s)) = Len(s) - 1
      /\ \A i \in 1..Len(Tail(s)) : Tail(s)[i] = s[i + 1]
      /\ Head(s) = s[1] /\ DOMAIN s = 1..Len(s) /\ DOMAIN Tail(s) = 1..Len(Tail(s))
  OBVIOUS
<1>2. \A i \in 1..Len(Tail(s)) : i + 1 \in 1..Len(s) /\ i + 1 # 1
  BY <1>1
<1>3. \A i \in 1..Len(s) : i # 1 => i - 1 \in 1..Len(Tail(s)) /\ Tail(s)[i - 1] = s[i]
  BY <1>1
<1>4. IsInjective(Tail(s))
  <2> SUFFICES ASSUME NEW a \in 1..Len(Tail(s)), NEW b \in 1..Len(Tail(s)),
                      Tail(s)[a] = Tail(s)[b]
               PROVE  a = b
    BY <1>1 DEF IsInjective
  <2>1. a + 1 = b + 1
    BY <1>1, <1>2 DEF IsInjective
  <2> QED BY <2>1
<1>5. 1 \in 1..Len(s)
  BY <1>1
<1>6. Elements(Tail(s)) = Elements(s) \ {Head(s)}
  <2>1. ASSUME NEW x \in Elements(Tail(s)) PROVE x \in Elements(s) \ {Head(s)}
    BY <1>1, <1>2, <1>5 DEF Elements, IsInjective
  <2>2. ASSUME NEW x \in Elements(s) \ {Head(s)} PROVE x \in Elements(Tail(s))
    <3>1. PICK i \in 1..Len(s) : s[i] = x /\ i # 1
      BY <1>1 DEF Elements
    <3> QED BY <1>3, <3>1 DEF Elements
  <2> QED BY <2>1, <2>2
<1> QED BY <1>1, <1>4, <1>5, <1>6 DEF Elements

\* Appending one that is not there.
LEMMA AppendFacts ==
    ASSUME NEW S, NEW s \in Seq(S), NEW e \in S, IsInjective(s), e \notin Elements(s)
    PROVE  /\ Append(s, e) \in Seq(S) /\ IsInjective(Append(s, e))
           /\ Elements(Append(s, e)) = Elements(s) \cup {e}
<1> DEFINE r == Append(s, e)
<1>1. /\ r \in Seq(S) /\ Len(s) \in Nat /\ Len(r) = Len(s) + 1
      /\ \A i \in 1..Len(s) : r[i] = s[i]
      /\ r[Len(s) + 1] = e /\ DOMAIN s = 1..Len(s) /\ DOMAIN r = 1..Len(r)
  OBVIOUS
<1> HIDE DEF r
<1>2. \A i \in 1..Len(r) : i \in 1..Len(s) \/ i = Len(s) + 1
  BY <1>1
<1>3. 1..Len(s) \subseteq 1..Len(r) /\ Len(s) + 1 \in 1..Len(r)
  BY <1>1
<1>4. Elements(r) = Elements(s) \cup {e}
  BY <1>1, <1>2, <1>3 DEF Elements
<1>5. IsInjective(r)
  BY <1>1, <1>2 DEF IsInjective, Elements
<1> QED BY <1>1, <1>4, <1>5 DEF r

\* notify_one, with a task t that has just left its place for another one
\* without waiting: the first waiter is not queued any more and does not
\* wait any more.
LEMMA NotifyOneFacts ==
    ASSUME QInv, NEW t \in Tasks, NEW pc \in TaskPc \ {"wait"}, task[t] # "wait",
           NotifyOne(waiters, [task EXCEPT ![t] = pc], main)
    PROVE  /\ task' \in [Tasks -> TaskPc] /\ main' \in MainPc
           /\ waiters' \in Seq(Tasks \cup {Main}) /\ permit' \in BOOLEAN
           /\ Elements(waiters') = Queued' /\ IsInjective(waiters')
           /\ main' # main => main = "await" /\ main' = "chosen"
           /\ task'[t] = pc
           /\ \A u \in Tasks \ {t} :
                 task'[u] = task[u] \/ (task[u] = "wait" /\ task'[u] = "chosen")
           /\ permit' \/ main' = "chosen" \/ \E u \in Tasks : task'[u] = "chosen"
<1> DEFINE tk == [task EXCEPT ![t] = pc]
<1> USE DEF QInv, Types
<1>1. /\ tk \in [Tasks -> TaskPc] /\ tk[t] = pc /\ \A u \in Tasks \ {t} : tk[u] = task[u]
  OBVIOUS
<1>2. {u \in Tasks : tk[u] = "wait"} = {u \in Tasks : task[u] = "wait"}
  BY <1>1
<1>3. NotifyOne(waiters, tk, main)
  OBVIOUS
<1> HIDE DEF tk
<1>4. CASE waiters = <<>>
  <2>1. /\ permit' = TRUE /\ waiters' = waiters /\ task' = tk /\ main' = main
    BY <1>3, <1>4 DEF NotifyOne
  <2>2. Queued' = Queued
    BY <1>2, <2>1 DEF Queued
  <2> QED BY <1>1, <2>1, <2>2
<1>5. CASE waiters # <<>>
  <2> DEFINE h == Head(waiters)
  <2>1. /\ waiters' = Tail(waiters) /\ permit' = permit
        /\ task' = IF h = Main THEN tk ELSE [tk EXCEPT ![h] = "chosen"]
        /\ main' = IF h = Main THEN "chosen" ELSE main
    BY <1>3, <1>5 DEF NotifyOne
  <2>2. /\ Tail(waiters) \in Seq(Tasks \cup {Main}) /\ IsInjective(Tail(waiters))
        /\ h \in Queued /\ Elements(Tail(waiters)) = Queued \ {h}
    BY <1>5, TailFacts
  <2> HIDE DEF h
  <2>3. CASE h = Main
    <3>1. main = "await" /\ Main \notin Tasks
      BY <2>2, <2>3, MainAssumption DEF Queued
    <3>2. task' = tk /\ main' = "chosen"
      BY <2>1, <2>3
    <3>3. Queued' = Queued \ {h}
      BY <1>2, <2>3, <3>1, <3>2 DEF Queued
    <3> QED BY <1>1, <2>1, <2>2, <3>1, <3>2, <3>3 DEF MainPc
  <2>4. CASE h # Main
    <3>1. h \in Tasks /\ task[h] = "wait" /\ h # t
      BY <2>2, <2>4 DEF Queued
    <3>2. /\ task' = [tk EXCEPT ![h] = "chosen"] /\ main' = main
      BY <2>1, <2>4
    <3>3. /\ task' \in [Tasks -> TaskPc] /\ task'[h] = "chosen"
          /\ \A u \in Tasks \ {h} : task'[u] = tk[u]
      BY <1>1, <3>1, <3>2 DEF TaskPc
    <3>4. {u \in Tasks : task'[u] = "wait"} = {u \in Tasks : tk[u] = "wait"} \ {h}
      BY <3>3
    <3>5. Queued' = Queued \ {h}
      BY <1>2, <2>4, <3>2, <3>4 DEF Queued
    <3> QED BY <1>1, <2>1, <2>2, <3>1, <3>2, <3>3, <3>5
  <2> QED BY <2>3, <2>4
<1> QED BY <1>4, <1>5

\* Nobody is queued who does not wait, and nobody waits without being queued:
\* every step that creates, drops or wakes a Notified future keeps it so.
LEMMA QueueStep == QInv /\ [Next]_vars => QInv'
<1> SUFFICES ASSUME QInv, [Next]_vars PROVE QInv'
  OBVIOUS
<1> USE DEF notifyVars, signals, history
<1>0. Types /\ Elements(waiters) = Queued /\ IsInjective(waiters)
  BY DEF QInv
<1>1. ASSUME NEW t \in Tasks, NEW pc \in TaskPc \ {"wait"}, task[t] # "wait",
             NotifyOne(waiters, [task EXCEPT ![t] = pc], main),
             missed' \subseteq Tasks, UNCHANGED <<signals, stolen, lingering>>
      PROVE  QInv'
  BY <1>0, <1>1, NotifyOneFacts DEF QInv, Types
<1>2. ASSUME NEW t \in Tasks, NEW pc \in TaskPc \ {"wait"},
             task' = [task EXCEPT ![t] = pc], waiters' = RemoveFirst(waiters, t),
             missed' \subseteq Tasks, UNCHANGED <<permit, main, signals, stolen, lingering>>
      PROVE  QInv'
  <2>1. /\ waiters' \in Seq(Tasks \cup {Main}) /\ IsInjective(waiters')
        /\ Elements(waiters') = Queued \ {t}
    BY <1>0, <1>2, RemoveFacts DEF Types
  <2>2. t # Main
    BY MainAssumption
  <2>3. task' \in [Tasks -> TaskPc] /\ Queued' = Queued \ {t}
    BY <1>0, <1>2, <2>2 DEF Types, Queued
  <2> QED BY <1>0, <1>2, <2>1, <2>3 DEF QInv, Types
<1>3. ASSUME NEW t \in Tasks, NEW pc \in TaskPc \ {"wait"}, task[t] # "wait",
             task' = [task EXCEPT ![t] = pc], missed' \subseteq Tasks,
             stolen' \in BOOLEAN, UNCHANGED <<main, waiters, permit, signals, lingering>>
      PROVE  QInv'
  <2>1. task' \in [Tasks -> TaskPc] /\ Queued' = Queued
    BY <1>0, <1>3 DEF Types, Queued
  <2> QED BY <1>0, <1>3, <2>1 DEF QInv, Types
<1>4. ASSUME NEW t \in Tasks, TurnBusy(t) PROVE QInv'
  <2>1. missed' \subseteq Tasks /\ UNCHANGED <<signals, stolen, lingering>>
    BY <1>0, <1>4 DEF TurnBusy, Types
  <2>2. "busy" \in TaskPc \ {"wait"}
    BY DEF TaskPc
  <2>3. CASE task[t] = "chosen"
    BY <1>1, <1>4, <2>1, <2>2, <2>3 DEF TurnBusy
  <2>4. CASE task[t] # "chosen"
    BY <1>2, <1>4, <2>1, <2>2, <2>4 DEF TurnBusy
  <2> QED BY <2>3, <2>4
<1>5. ASSUME NEW t \in Tasks, TurnIdle(t) PROVE QInv'
  <2>1. task[t] = "busy" /\ Waiting(t) /\ UNCHANGED <<main, signals, history>>
    BY <1>5 DEF TurnIdle
  <2>2. CASE permit
    <3>1. "chosen" \in TaskPc \ {"wait"}
      BY DEF TaskPc
    <3>2. /\ permit' = FALSE /\ waiters' = waiters
          /\ task' = [task EXCEPT ![t] = "chosen"]
      BY <2>1, <2>2 DEF Waiting
    <3>3. task' \in [Tasks -> TaskPc] /\ Queued' = Queued
      BY <1>0, <2>1, <3>1, <3>2 DEF Types, Queued
    <3> QED BY <1>0, <2>1, <3>2, <3>3 DEF QInv, Types
  <2>3. CASE ~permit
    <3>1. /\ permit' = permit /\ waiters' = Append(waiters, t)
          /\ task' = [task EXCEPT ![t] = "wait"]
      BY <2>1, <2>3 DEF Waiting
    <3>2. t \notin Queued
      BY <2>1, MainAssumption DEF Queued
    <3>3. /\ waiters' \in Seq(Tasks \cup {Main}) /\ IsInjective(waiters')
          /\ Elements(waiters') = Queued \cup {t}
      BY <1>0, <3>1, <3>2, AppendFacts DEF Types
    <3>4. task' \in [Tasks -> TaskPc] /\ Queued' = Queued \cup {t}
      BY <1>0, <2>1, <3>1 DEF Types, Queued, TaskPc
    <3> QED BY <1>0, <2>1, <3>1, <3>3, <3>4 DEF QInv, Types
  <2> QED BY <2>2, <2>3
<1>6. ASSUME NEW t \in Tasks, HearShutdown(t) PROVE QInv'
  <2>1. "done" \in TaskPc \ {"wait"} /\ "closing" \in TaskPc \ {"wait"}
    BY DEF TaskPc
  <2>2. stolen' \in BOOLEAN /\ missed' \subseteq Tasks
    BY <1>0, <1>6 DEF HearShutdown, Types
  <2> QED BY <1>3, <1>6, <2>1, <2>2 DEF HearShutdown
<1>7. ASSUME NEW t \in Tasks, Close(t) PROVE QInv'
  <2>1. "done" \in TaskPc \ {"wait"}
    BY DEF TaskPc
  <2>2. missed' \subseteq Tasks /\ stolen' \in BOOLEAN
    BY <1>0, <1>7 DEF Close, Types
  <2>3. CASE t = Ingest
    BY <1>1, <1>7, <2>1, <2>2, <2>3 DEF Close
  <2>4. CASE t # Ingest
    BY <1>3, <1>7, <2>1, <2>2, <2>4 DEF Close
  <2> QED BY <2>3, <2>4
<1>8. ASSUME NEW h \in Handlers, SpawnHandler(h) PROVE QInv'
  <2>1. h \in Tasks /\ "busy" \in TaskPc \ {"wait"}
    BY DEF TaskPc, Tasks
  <2>2. missed' \subseteq Tasks /\ stolen' \in BOOLEAN
    BY <1>0, <1>8, <2>1 DEF SpawnHandler, Types
  <2> QED BY <1>3, <1>8, <2>1, <2>2 DEF SpawnHandler
<1>9. ASSUME NEW h \in Handlers, ConnectionLost(h) PROVE QInv'
  <2>1. h \in Tasks /\ "done" \in TaskPc \ {"wait"}
    BY DEF TaskPc, Tasks
  <2>2. missed' \subseteq Tasks /\ stolen' \in BOOLEAN
    BY <1>0, <1>9 DEF ConnectionLost, Types
  <2>3. CASE task[h] = "chosen"
    BY <1>1, <1>9, <2>1, <2>2, <2>3 DEF ConnectionLost
  <2>4. CASE task[h] # "chosen"
    BY <1>2, <1>9, <2>1, <2>2, <2>4 DEF ConnectionLost
  <2> QED BY <2>3, <2>4
<1>10. ASSUME main # "await", main' # "await", main' \in MainPc, UNCHANGED <<task, waiters>>,
              permit' \in BOOLEAN, reload' \in BOOLEAN, ctrlc' \in BOOLEAN,
              reloads' \in 0..MaxReloads, UNCHANGED history
       PROVE QInv'
  <2>1. Queued' = Queued
    BY <1>10 DEF Queued
  <2> QED BY <1>0, <1>10, <2>1 DEF QInv, Types
<1>11. CASE Reload \/ ReloadRefused \/ ShutdownComplete \/ Exit
  BY <1>0, <1>10, <1>11 DEF Reload, ReloadRefused, ShutdownComplete, Exit, Types, MainPc
<1>12. ASSUME NEW next \in MainPc \ {"await"}, NotifyWaiters(next), main # "await",
              reload' \in BOOLEAN, ctrlc' \in BOOLEAN, UNCHANGED reloads
       PROVE  QInv'
  <2>1. /\ main' = next /\ task' = [t \in Tasks |-> IF Woken(t) THEN "woken" ELSE task[t]]
        /\ waiters' = <<>> /\ missed' \subseteq Tasks
        /\ UNCHANGED <<permit, stolen, lingering>>
    BY <1>0, <1>12 DEF NotifyWaiters, Types
  <2>2. task' \in [Tasks -> TaskPc]
    BY <1>0, <2>1 DEF Types, TaskPc
  <2>3. Queued' = {}
    BY <2>1 DEF Queued, Woken
  <2>4. Elements(waiters') = {} /\ IsInjective(waiters')
    BY <2>1 DEF Elements, IsInjective
  <2>5. waiters' \in Seq(Tasks \cup {Main})
    BY <2>1
  <2> QED BY <1>0, <1>12, <2>1, <2>2, <2>3, <2>4, <2>5 DEF QInv, Types
<1>13. CASE SignalShutdown
  BY <1>0, <1>12, <1>13 DEF SignalShutdown, MainPc, Types
<1>14. CASE Terminate
  BY <1>0, <1>12, <1>14 DEF Terminate, MainPc, Types
<1>15. CASE AwaitShutdown
  <2>1. CASE permit
    BY <1>0, <1>10, <1>15, <2>1 DEF AwaitShutdown, Types, MainPc
  <2>2. CASE ~permit
    <3>1. /\ main = "register" /\ main' = "await" /\ waiters' = Append(waiters, Main)
          /\ UNCHANGED <<permit, task, signals, history>>
      BY <1>15, <2>2 DEF AwaitShutdown
    <3>2. Main \notin Queued
      BY <3>1, MainAssumption DEF Queued
    <3>3. /\ waiters' \in Seq(Tasks \cup {Main}) /\ IsInjective(waiters')
          /\ Elements(waiters') = Queued \cup {Main}
      BY <1>0, <3>1, <3>2, AppendFacts DEF Types
    <3>4. Queued' = Queued \cup {Main}
      BY <3>1 DEF Queued
    <3> QED BY <1>0, <3>1, <3>3, <3>4 DEF QInv, Types, MainPc
  <2> QED BY <2>1, <2>2
<1>16. CASE Restart
  <2>1. PICK dead \in SUBSET (lingering' \cap Servers) :
            task' = Start(dead) /\ waiters' = SetToSeq((Servers \cup Others) \ dead)
    BY <1>16 DEF Restart
  <2> DEFINE fresh == (Servers \cup Others) \ dead
  <2>2. fresh \in SUBSET Tasks /\ IsFiniteSet(fresh)
    BY FS_Subset, TasksAssumption DEF Tasks
  <2>3. /\ waiters' \in Seq(fresh) /\ IsInjective(waiters') /\ Elements(waiters') = fresh
    BY <2>1, <2>2, SetToSeqFacts
  <2>4. waiters' \in Seq(Tasks \cup {Main})
    BY <2>2, <2>3
  <2>5. task' \in [Tasks -> TaskPc] /\ main' = "serving"
    BY <1>16, <2>1 DEF Restart, Start, TaskPc
  <2>6. Queued' = fresh
    BY <2>1, <2>5, HandlersApartAssumption DEF Start, Queued, Tasks
  <2>7. lingering' \subseteq Tasks /\ missed' \subseteq Tasks
    BY <1>0, <1>16 DEF Restart, Types
  <2> QED BY <1>0, <1>16, <2>3, <2>4, <2>5, <2>6, <2>7 DEF QInv, Types, Restart, MainPc
<1>17. CASE AskReload
  <2>1. reloads' \in 0..MaxReloads
    BY <1>0, <1>17, MaxReloadsAssumption DEF AskReload, Types
  <2> QED BY <1>0, <1>10, <1>17, <2>1 DEF AskReload, Types
<1>18. CASE PressCtrlC \/ UNCHANGED vars
  <2>1. UNCHANGED <<task, main, waiters, permit, reload, reloads, history>> /\ ctrlc' \in BOOLEAN
    BY <1>0, <1>18 DEF PressCtrlC, vars, Types
  <2>2. Queued' = Queued
    BY <2>1 DEF Queued
  <2> QED BY <1>0, <2>1, <2>2 DEF QInv, Types
<1> QED
  BY <1>4, <1>5, <1>6, <1>7, <1>8, <1>9, <1>11, <1>13, <1>14, <1>15, <1>16, <1>17, <1>18
     DEF Next, Run, MainStep
\* The first generation queues up behind the Notify, each task once.
LEMMA QueueInit == Init => QInv
<1> SUFFICES ASSUME Init PROVE QInv
  OBVIOUS
<1> DEFINE fresh == Servers \cup Others
<1>1. fresh \in SUBSET Tasks /\ IsFiniteSet(fresh)
  BY FS_Subset, TasksAssumption DEF Tasks
<1>2. waiters \in Seq(fresh) /\ IsInjective(waiters) /\ Elements(waiters) = fresh
  BY <1>1, SetToSeqFacts DEF Init
<1>3. waiters \in Seq(Tasks \cup {Main})
  BY <1>1, <1>2
<1>4. task \in [Tasks -> TaskPc] /\ main = "serving"
  BY DEF Init, Start, TaskPc
<1>5. Queued = fresh
  BY <1>4, HandlersApartAssumption DEF Init, Start, Queued, Tasks
<1>6. /\ main \in MainPc /\ permit = FALSE /\ reload = FALSE /\ ctrlc = FALSE
      /\ reloads \in 0..MaxReloads
      /\ missed = {} /\ stolen = FALSE /\ lingering = {}
  BY MaxReloadsAssumption DEF Init, MainPc
<1> HIDE DEF fresh
<1>7. Types
  BY <1>3, <1>4, <1>6 DEF Types
<1> QED BY <1>2, <1>5, <1>7 DEF QInv

\* The queue holds those who wait, at all times.
LEMMA QueueAlways == Spec => []QInv
BY QueueInit, QueueStep, PTL DEF Spec

\* Every variable keeps its type; the queue is never longer than there are
\* tasks, main included, because nobody is queued twice.
THEOREM TypeCorrect == Spec => []TypeOK
<1>1. QInv => TypeOK
  <2> SUFFICES ASSUME QInv PROVE TypeOK
    OBVIOUS
  <2> DEFINE n == Len(waiters)  All == Tasks \cup {Main}
  <2>1. n \in Nat /\ waiters \in Injection(1..n, All)
    BY DEF QInv, Types, Injection
  <2>2. IsFiniteSet(All) /\ Cardinality(All) = Cardinality(Tasks) + 1
    BY FS_AddElement, TasksAssumption, MainAssumption
  <2>3. IsFiniteSet(1..n) /\ Cardinality(1..n) = n
    BY <2>1, FS_Interval
  <2>4. n <= Cardinality(All)
    BY <2>1, <2>2, <2>3, FS_Injection
  <2> QED BY <2>2, <2>4 DEF QInv, Types, TypeOK
<1> QED BY <1>1, QueueAlways, PTL
-----------------------------------------------------------------------------
(* Who is left over by a reload.                                           *)

\* From the signal until the next generation starts, whoever is still
\* waiting, or busy, or holds a wake-up that was meant for main, is one
\* whom the signal passed by.
Passed ==
    main \in {"register", "await", "chosen", "reboot"} =>
       \A t \in Tasks : task[t] \in {"wait", "chosen", "busy"} => t \in missed

\* A step lets no one but those whom the signal passed by go on.
LEMMA PassedStep == QInv /\ Passed /\ [Next]_vars => Passed'
<1> SUFFICES ASSUME QInv, Passed, [Next]_vars PROVE Passed'
  OBVIOUS
<1> USE DEF notifyVars, signals, history
<1> DEFINE Late == {"register", "await", "chosen", "reboot"}
<1>0. task \in [Tasks -> TaskPc] /\ main \in MainPc /\ missed \subseteq Tasks
  BY DEF QInv, Types
\* One task moves; the notification it may pass on wakes one that waited.
<1>1. ASSUME NEW t \in Tasks, NEW pc \in TaskPc \ {"wait"}, task[t] # "wait",
             NotifyOne(waiters, [task EXCEPT ![t] = pc], main),
             missed \subseteq missed',
             pc \in {"busy", "chosen"} /\ main \in Late => t \in missed'
      PROVE  Passed'
  <2>1. /\ main' \in Late => main \in Late
        /\ task'[t] = pc
        /\ \A u \in Tasks \ {t} : task'[u] = task[u] \/ (task[u] = "wait" /\ task'[u] = "chosen")
    BY <1>1, NotifyOneFacts
  <2> QED BY <1>1, <2>1 DEF Passed
<1>2. ASSUME NEW t \in Tasks, NEW pc \in TaskPc, task' = [task EXCEPT ![t] = pc],
             main' = main, missed \subseteq missed',
             pc \in {"wait", "busy", "chosen"} /\ main \in Late => t \in missed'
      PROVE  Passed'
  BY <1>0, <1>2 DEF Passed
<1>3. ASSUME NEW t \in Tasks, TurnBusy(t) PROVE Passed'
  <2>1. "busy" \in TaskPc \ {"wait"} /\ missed \subseteq missed'
    BY <1>3 DEF TaskPc, TurnBusy
  <2>2. main \in Late => t \in missed'
    BY <1>3 DEF TurnBusy, Passed
  <2>3. CASE task[t] = "chosen"
    BY <1>1, <1>3, <2>1, <2>2, <2>3 DEF TurnBusy
  <2>4. CASE task[t] # "chosen"
    BY <1>2, <1>3, <2>1, <2>2, <2>4 DEF TurnBusy
  <2> QED BY <2>3, <2>4
<1>4. ASSUME NEW t \in Tasks, TurnIdle(t) PROVE Passed'
  <2>1. "chosen" \in TaskPc /\ "wait" \in TaskPc
    BY DEF TaskPc
  <2>2. main \in Late => t \in missed
    BY <1>4 DEF TurnIdle, Passed
  <2> QED BY <1>2, <1>4, <2>1, <2>2 DEF TurnIdle, Waiting
<1>5. ASSUME NEW t \in Tasks, HearShutdown(t) PROVE Passed'
  <2>1. "done" \in TaskPc /\ "closing" \in TaskPc
    BY DEF TaskPc
  <2> QED BY <1>2, <1>5, <2>1 DEF HearShutdown
<1>6. ASSUME NEW t \in Tasks, Close(t) PROVE Passed'
  <2>1. "done" \in TaskPc \ {"wait"}
    BY DEF TaskPc
  <2>2. CASE t = Ingest
    BY <1>1, <1>6, <2>1, <2>2 DEF Close
  <2>3. CASE t # Ingest
    BY <1>2, <1>6, <2>1, <2>3 DEF Close
  <2> QED BY <2>2, <2>3
<1>7. ASSUME NEW h \in Handlers, SpawnHandler(h) PROVE Passed'
  <2>1. h \in Tasks /\ "busy" \in TaskPc
    BY DEF TaskPc, Tasks
  <2> QED BY <1>2, <1>7, <2>1 DEF SpawnHandler
<1>8. ASSUME NEW h \in Handlers, ConnectionLost(h) PROVE Passed'
  <2>1. h \in Tasks /\ "done" \in TaskPc \ {"wait"}
    BY DEF TaskPc, Tasks
  <2>2. CASE task[h] = "chosen"
    BY <1>1, <1>8, <2>1, <2>2 DEF ConnectionLost
  <2>3. CASE task[h] # "chosen"
    BY <1>2, <1>8, <2>1, <2>3 DEF ConnectionLost
  <2> QED BY <2>2, <2>3
<1>9. CASE SignalShutdown
  <2>1. /\ task' = [t \in Tasks |-> IF Woken(t) THEN "woken" ELSE task[t]]
        /\ missed' = missed \cup {t \in Tasks : task[t] \in {"busy", "chosen"}}
    BY <1>9 DEF SignalShutdown, NotifyWaiters
  <2> QED BY <1>0, <2>1 DEF Passed, Woken
<1>10. CASE Terminate \/ Reload \/ ReloadRefused \/ Restart \/ Exit
  BY <1>10 DEF Terminate, NotifyWaiters, Reload, ReloadRefused, Restart, Exit, Passed
<1>11. CASE AwaitShutdown \/ ShutdownComplete \/ AskReload \/ PressCtrlC \/ UNCHANGED vars
  BY <1>11 DEF AwaitShutdown, ShutdownComplete, AskReload, PressCtrlC, vars, Passed
<1> QED
  BY <1>3, <1>4, <1>5, <1>6, <1>7, <1>8, <1>9, <1>10, <1>11 DEF Next, Run, MainStep

\* A reload leaves behind no task that heard the signal: what runs on in the
\* next generation ran on before or is one the signal passed by.
THEOREM OnlyThePassedByLinger == Spec => OnlyTheDeafLinger
<1>1. Init => Passed
  BY DEF Init, Passed
<1>2. QInv /\ Passed /\ [Next]_vars
        => [main = "reboot" /\ main' = "serving" => lingering' \subseteq lingering \cup missed]_vars
  <2> SUFFICES ASSUME QInv, Passed, [Next]_vars, main = "reboot", main' = "serving"
               PROVE  lingering' \subseteq lingering \cup missed
    OBVIOUS
  <2> USE DEF notifyVars, signals, history
  <2>0. task \in [Tasks -> TaskPc]
    BY DEF QInv, Types
  <2>1. CASE Restart
    <3>1. \A t \in Tasks : task[t] \notin {"woken", "closing"}
      BY <2>1 DEF Restart, RebootDelayOver
    <3>2. \A t \in Tasks : task[t] \notin {"none", "done"} => t \in missed
      BY <2>0, <3>1 DEF Passed, TaskPc
    <3> QED BY <2>1, <3>2 DEF Restart
  \* No other step leads from the pause to a new generation.
  <2>2. ASSUME NEW ws, NEW tk, NotifyOne(ws, tk, main) PROVE FALSE
    BY <2>2 DEF NotifyOne
  <2>3. ASSUME NEW t \in Tasks, TurnBusy(t) PROVE FALSE
    BY <2>2, <2>3 DEF TurnBusy
  <2>4. ASSUME NEW t \in Tasks, Run(t) PROVE FALSE
    BY <2>2, <2>4 DEF Run, TurnIdle, HearShutdown, Close
  <2>5. ASSUME NEW h \in Handlers, SpawnHandler(h) \/ ConnectionLost(h) PROVE FALSE
    BY <2>2, <2>5 DEF SpawnHandler, ConnectionLost
  <2>6. CASE Reload \/ ReloadRefused \/ SignalShutdown \/ AwaitShutdown \/ ShutdownComplete
                \/ Terminate \/ Exit \/ AskReload \/ PressCtrlC \/ UNCHANGED vars
    BY <2>6 DEF Reload, ReloadRefused, SignalShutdown, AwaitShutdown, ShutdownComplete,
                Terminate, Exit, AskReload, PressCtrlC, vars
  <2> QED BY <2>1, <2>3, <2>4, <2>5, <2>6 DEF Next, MainStep
<1>3. QED
  BY <1>1, <1>2, PassedStep, QueueAlways, PTL DEF Spec, OnlyTheDeafLinger
-----------------------------------------------------------------------------
(* The answer main waits for.                                              *)

\* The ingest server's notify_one is on its way: kept as a permit, or held by
\* a task that was woken by it.
Travelling == permit \/ \E t \in Tasks : task[t] = "chosen"

\* Nothing travels before the ingest server has ended, and main goes on only
\* then, so that every generation has an ingest server that starts; and while
\* main waits its answer is due.
Answering ==
    /\ Travelling \/ main \in {"chosen", "reboot"} => task[Ingest] = "done"
    /\ main \in {"serving", "signal"} => task[Ingest] \in {"wait", "busy"}
    /\ Ingest \notin lingering
    /\ AnswerIsDue

\* A step keeps the answer on its way.
LEMMA AnsweringStep == QInv /\ Answering /\ [Next]_vars => Answering'
<1> SUFFICES ASSUME QInv, Answering, [Next]_vars PROVE Answering'
  OBVIOUS
<1> USE DEF notifyVars, signals, history
<1>0. /\ task \in [Tasks -> TaskPc] /\ main \in MainPc /\ Ingest \in Tasks
      /\ permit \in BOOLEAN /\ stolen \in BOOLEAN
  BY ServersAssumption DEF QInv, Types, Tasks
<1>a. /\ Travelling \/ main \in {"chosen", "reboot"} => task[Ingest] = "done"
      /\ main \in {"serving", "signal"} => task[Ingest] \in {"wait", "busy"}
      /\ Ingest \notin lingering
      /\ main \in {"register", "await"} /\ ~Unanswered
            => task[Ingest] \in {"woken", "closing"} \/ Travelling
  BY DEF Answering, AnswerIsDue, Travelling
<1>b. ASSUME Travelling' \/ main' \in {"chosen", "reboot"} => task'[Ingest] = "done",
             main' \in {"serving", "signal"} => task'[Ingest] \in {"wait", "busy"},
             Ingest \notin lingering',
             main' \in {"register", "await"} /\ ~Unanswered'
                => task'[Ingest] \in {"woken", "closing"} \/ Travelling'
      PROVE  Answering'
  BY <1>b DEF Answering, AnswerIsDue, Travelling
\* The notification is given by the ingest server as it ends, or passed on by
\* a task that held it.
<1>1. ASSUME NEW t \in Tasks, NEW pc \in {"busy", "done"}, task[t] # "wait",
             NotifyOne(waiters, [task EXCEPT ![t] = pc], main),
             (t = Ingest /\ pc = "done" /\ task[t] = "closing") \/ task[t] = "chosen",
             UNCHANGED lingering
      PROVE  Answering'
  <2>1. pc \in TaskPc \ {"wait"}
    BY DEF TaskPc
  <2>2. /\ main' # main => main' = "chosen"
        /\ task'[t] = pc
        /\ \A u \in Tasks \ {t} :
              task'[u] = task[u] \/ (task[u] = "wait" /\ task'[u] = "chosen")
        /\ permit' \/ main' = "chosen" \/ \E u \in Tasks : task'[u] = "chosen"
    BY <1>1, <2>1, NotifyOneFacts
  <2>3. task'[Ingest] = "done"
    <3>1. CASE t = Ingest /\ pc = "done"
      BY <2>2, <3>1
    <3>2. CASE task[t] = "chosen"
      <4>1. task[Ingest] = "done" /\ t # Ingest
        BY <1>a, <3>2 DEF Travelling
      <4> QED BY <1>0, <2>2, <4>1
    <3> QED BY <1>1, <3>1, <3>2
  <2>4. main' \notin {"serving", "signal"}
    <3>1. task[Ingest] \notin {"wait", "busy"}
      BY <1>1, <1>a DEF Travelling
    <3> QED BY <1>a, <2>2, <3>1
  <2>5. main' \in {"register", "await"} => Travelling'
    BY <2>2 DEF Travelling
  <2> QED BY <1>a, <1>b, <1>1, <2>3, <2>4, <2>5
\* A task moves and no notification does.
<1>2. ASSUME NEW t \in Tasks, NEW pc \in TaskPc \ {"chosen"}, task[t] # "chosen",
             task' = [task EXCEPT ![t] = pc], UNCHANGED <<permit, main, lingering>>,
             Unanswered => Unanswered',
             t = Ingest =>
                /\ task[t] # "done"
                /\ main \in {"serving", "signal"} => pc \in {"wait", "busy"}
                /\ main \in {"register", "await"} /\ ~Unanswered' => pc \in {"woken", "closing"}
      PROVE  Answering'
  <2>1. Travelling' <=> Travelling
    BY <1>0, <1>2 DEF Travelling
  <2>2. t # Ingest => task'[Ingest] = task[Ingest]
    BY <1>0, <1>2
  <2>3. t = Ingest => task'[Ingest] = pc
    BY <1>0, <1>2
  <2>4. CASE t # Ingest
    BY <1>a, <1>b, <1>2, <2>1, <2>2, <2>4
  <2>5. CASE t = Ingest
    BY <1>a, <1>b, <1>2, <2>1, <2>3, <2>5
  <2> QED BY <2>4, <2>5
<1>3. ASSUME NEW t \in Tasks, TurnBusy(t) PROVE Answering'
  <2>1. CASE task[t] = "chosen"
    BY <1>1, <1>3, <2>1 DEF TurnBusy
  <2>2. CASE task[t] # "chosen"
    <3>1. /\ task[t] \in {"wait", "woken"} /\ task' = [task EXCEPT ![t] = "busy"]
          /\ UNCHANGED <<permit, main, stolen, lingering>>
          /\ missed' = IF task[t] = "woken" THEN missed \cup {t} ELSE missed
      BY <1>3, <2>2 DEF TurnBusy
    <3>2. t = Ingest /\ main \in {"register", "await"} => Unanswered'
      BY <1>a, <3>1 DEF Unanswered
    <3>3. "busy" \in TaskPc \ {"chosen"} /\ (Unanswered => Unanswered')
      BY <3>1 DEF TaskPc, Unanswered
    <3> QED BY <1>2, <2>2, <3>1, <3>2, <3>3
  <2> QED BY <2>1, <2>2
<1>4. ASSUME NEW t \in Tasks, TurnIdle(t) PROVE Answering'
  <2>1. task[t] = "busy" /\ Waiting(t) /\ UNCHANGED <<main, signals, history>>
    BY <1>4 DEF TurnIdle
  <2>2. CASE permit
    <3>1. task[Ingest] = "done" /\ t # Ingest
      BY <1>a, <2>1, <2>2 DEF Travelling
    <3>2. permit' = FALSE /\ task' = [task EXCEPT ![t] = "chosen"]
      BY <2>1, <2>2 DEF Waiting
    <3>3. task'[Ingest] = "done" /\ task'[t] = "chosen"
      BY <1>0, <3>1, <3>2
    <3>4. Travelling'
      BY <3>3 DEF Travelling
    <3> QED BY <1>a, <1>b, <2>1, <3>1, <3>3, <3>4
  <2>3. CASE ~permit
    <3>1. UNCHANGED permit /\ task' = [task EXCEPT ![t] = "wait"]
      BY <2>1, <2>3 DEF Waiting
    <3>2. "wait" \in TaskPc \ {"chosen"} /\ (Unanswered' <=> Unanswered)
      BY <2>1 DEF TaskPc, Unanswered
    <3>3. t = Ingest /\ main \in {"register", "await"} => Unanswered
      BY <1>a, <2>1
    <3> QED BY <1>2, <2>1, <3>1, <3>2, <3>3
  <2> QED BY <2>2, <2>3
<1>5. ASSUME NEW t \in Tasks, HearShutdown(t) PROVE Answering'
  <2> DEFINE pc == IF t \in Others THEN "done" ELSE "closing"
  <2>1. /\ task[t] \in {"woken", "chosen"} /\ task' = [task EXCEPT ![t] = pc]
        /\ stolen' = (stolen \/ task[t] = "chosen")
        /\ UNCHANGED <<permit, main, missed, lingering>>
    BY <1>5 DEF HearShutdown
  <2>2. CASE task[t] = "chosen"
    <3>1. task[Ingest] = "done" /\ t # Ingest
      BY <1>a, <2>2 DEF Travelling
    <3>2. task'[Ingest] = "done" /\ Unanswered'
      BY <1>0, <2>1, <2>2, <3>1 DEF Unanswered
    <3> QED BY <1>a, <1>b, <2>1, <3>1, <3>2
  <2>3. CASE task[t] = "woken"
    <3>1. pc \in TaskPc \ {"chosen"} /\ (Unanswered' <=> Unanswered)
      BY <2>1, <2>3 DEF TaskPc, Unanswered
    <3>2. t = Ingest => main \notin {"serving", "signal"}
      BY <1>a, <2>3
    <3>3. t = Ingest /\ main \in {"register", "await"} /\ ~Unanswered' => pc = "closing"
      BY <1>5, <2>3, <3>1, ServersAssumption, ServersApartAssumption
    <3> HIDE DEF pc
    <3> QED BY <1>2, <2>1, <2>3, <3>1, <3>2, <3>3
  <2> QED BY <2>1, <2>2, <2>3
<1>6. ASSUME NEW t \in Tasks, Close(t) PROVE Answering'
  <2>1. CASE t = Ingest
    BY <1>1, <1>6, <2>1 DEF Close
  <2>2. CASE t # Ingest
    <3>1. /\ task[t] = "closing" /\ task' = [task EXCEPT ![t] = "done"]
          /\ UNCHANGED <<permit, main, missed, stolen, lingering>>
      BY <1>6, <2>2 DEF Close
    <3>2. "done" \in TaskPc \ {"chosen"} /\ (Unanswered' <=> Unanswered)
      BY <3>1 DEF TaskPc, Unanswered
    <3> QED BY <1>2, <2>2, <3>1, <3>2
  <2> QED BY <2>1, <2>2
<1>7. ASSUME NEW h \in Handlers, SpawnHandler(h) PROVE Answering'
  <2>1. h \in Tasks /\ h # Ingest /\ "busy" \in TaskPc \ {"chosen"}
    BY ServersAssumption, HandlersApartAssumption DEF TaskPc, Tasks
  <2>2. Unanswered => Unanswered'
    BY <1>7 DEF SpawnHandler, Unanswered
  <2> QED BY <1>2, <1>7, <2>1, <2>2 DEF SpawnHandler
<1>8. ASSUME NEW h \in Handlers, ConnectionLost(h) PROVE Answering'
  <2>1. h \in Tasks /\ h # Ingest /\ "done" \in TaskPc \ {"chosen"}
    BY ServersAssumption, HandlersApartAssumption DEF TaskPc, Tasks
  <2>2. (Unanswered' <=> Unanswered) /\ UNCHANGED lingering
    BY <1>8 DEF ConnectionLost, Unanswered
  <2>3. CASE task[h] = "chosen"
    BY <1>1, <1>8, <2>1, <2>2, <2>3 DEF ConnectionLost
  <2>4. CASE task[h] # "chosen"
    BY <1>2, <1>8, <2>1, <2>2, <2>4 DEF ConnectionLost
  <2> QED BY <2>3, <2>4
\* main moves on and the tasks stay where they are.
<1>9. ASSUME UNCHANGED <<task, permit, missed, stolen, lingering>>,
             main' \in {"chosen", "reboot"} => task[Ingest] = "done",
             main' \in {"serving", "signal"} => main \in {"serving", "signal"},
             main' \in {"register", "await"} => main \in {"register", "await"}
      PROVE  Answering'
  <2>1. (Travelling' <=> Travelling) /\ (Unanswered' <=> Unanswered)
    BY <1>9 DEF Travelling, Unanswered
  <2> QED BY <1>a, <1>b, <1>9, <2>1
<1>10. CASE Reload \/ ReloadRefused \/ ShutdownComplete \/ Exit
              \/ AskReload \/ PressCtrlC \/ UNCHANGED vars
  BY <1>a, <1>9, <1>10
     DEF Reload, ReloadRefused, ShutdownComplete, Exit, AskReload, PressCtrlC, vars
<1>11. ASSUME NEW next \in {"register", "exiting"}, NotifyWaiters(next),
              main \in {"serving", "signal"}
       PROVE  Answering'
  <2>1. /\ main' = next /\ task' = [t \in Tasks |-> IF Woken(t) THEN "woken" ELSE task[t]]
        /\ missed' = missed \cup {t \in Tasks : task[t] \in {"busy", "chosen"}}
        /\ UNCHANGED <<permit, stolen, lingering>>
    BY <1>11 DEF NotifyWaiters
  <2>2. ~Travelling /\ task[Ingest] \in {"wait", "busy"}
    BY <1>a, <1>11
  <2>3. ~Travelling'
    BY <2>1, <2>2 DEF Travelling
  <2>4. Unanswered' \/ task'[Ingest] = "woken"
    BY <1>0, <2>1, <2>2 DEF Unanswered, Woken
  <2> QED BY <1>a, <1>b, <1>11, <2>1, <2>3, <2>4
<1>12. CASE SignalShutdown \/ Terminate
  BY <1>11, <1>12 DEF SignalShutdown, Terminate
<1>13. CASE AwaitShutdown
  <2>1. CASE permit
    <3>1. main' = "chosen" /\ permit' = FALSE /\ UNCHANGED <<task, history>>
      BY <1>13, <2>1 DEF AwaitShutdown
    <3>2. task[Ingest] = "done"
      BY <1>a, <2>1 DEF Travelling
    <3> QED BY <1>a, <1>b, <3>1, <3>2
  <2>2. CASE ~permit
    BY <1>9, <1>13, <2>2 DEF AwaitShutdown
  <2> QED BY <2>1, <2>2
<1>14. CASE Restart
  <2>1. PICK dead \in SUBSET (lingering' \cap Servers) : task' = Start(dead)
    BY <1>14 DEF Restart
  <2>2. Ingest \notin lingering' /\ permit' = FALSE /\ main' = "serving"
    BY <1>a, <1>14 DEF Restart
  <2>3. task'[Ingest] = "wait" /\ ~\E t \in Tasks : task'[t] = "chosen"
    BY <1>0, <2>1, <2>2, ServersAssumption, HandlersApartAssumption DEF Start
  <2> QED BY <1>b, <2>2, <2>3 DEF Travelling
<1> QED
  BY <1>3, <1>4, <1>5, <1>6, <1>7, <1>8, <1>10, <1>12, <1>13, <1>14 DEF Next, Run, MainStep

\* While main waits for the ingest server, and the server did not miss the
\* signal nor another task take its answer, the answer is still due or on its
\* way: no interleaving of wake-ups, dropped futures and ending tasks loses it.
THEOREM AnswerIsNeverLost == Spec => []AnswerIsDue
<1>1. Init => Answering
  <2> SUFFICES ASSUME Init PROVE Answering
    OBVIOUS
  <2>1. task[Ingest] = "wait" /\ ~Travelling
    BY ServersAssumption, HandlersApartAssumption DEF Init, Start, Tasks, Travelling
  <2> QED BY <2>1 DEF Init, Answering, AnswerIsDue
<1>2. Answering => AnswerIsDue
  BY DEF Answering
<1> QED BY <1>1, <1>2, AnsweringStep, QueueAlways, PTL DEF Spec
=============================================================================
