------------------------- MODULE DirectStreamProofs -------------------------
(***************************************************************************)
(* Proofs about DirectStream, for any number of ingest streams, events,    *)
(* subscriptions and keys.                                                 *)
(***************************************************************************)
EXTENDS DirectStream, FiniteSetTheorems, SequenceTheorems, TLAPS

-----------------------------------------------------------------------------
(* Types, and the keys under which a subscription can be reached.          *)

\* How many keys a subscription has inserted or still to remove.
Keyed ==
    \A k \in Subs :
        /\ keyed[k] \in 0..Len(KeysOf[k])
        /\ sub[k] = "new" => keyed[k] < Len(KeysOf[k])
        /\ sub[k] \in {"start", "replay", "live"} => keyed[k] = Len(KeysOf[k])
        /\ sub[k] = "leave" => keyed[k] > 0

Types ==
    /\ db \subseteq Events
    /\ stream \in [Streams -> {"idle", "stored", "dead"}]
    /\ fed \in [Streams -> Nat]
    /\ \A w \in Streams : fed[w] <= Len(Feed[w]) /\ (stream[w] = "stored" => fed[w] > 0)
    /\ channels \in [Keys -> Subs \cup {NoSub}]
    /\ sub \in [Subs -> SubPc] /\ keyed \in [Subs -> Nat] /\ Keyed
    /\ queue \in [Subs -> Seq(Events)] /\ out \in [Subs -> Seq(Events)]
    /\ snapshot \in [Subs -> SUBSET Events]
    /\ last_ts \in [Subs -> Nat]
    /\ broken \subseteq Subs

\* The keys of a subscription that may be in the map: those it has inserted
\* and not yet removed, and none once its task has ended.
Held(k) ==
    {KeysOf[k][i] : i \in {j \in 1..Len(KeysOf[k]) :
        /\ sub[k] # "ended"
        /\ sub[k] = "new" => j <= keyed[k]
        /\ sub[k] = "leave" => j > Len(KeysOf[k]) - keyed[k]}}

\* A key in the map leads to a subscription that holds it.
Channels == \A q \in Keys, k \in Subs : channels[q] = k => q \in Held(k)

\* An ingest stream ended only where a subscription failed before its task
\* was spawned.
Failures == (\E w \in Streams : stream[w] = "dead") => \E k \in Subs : sub[k] = "failed"

\* What has been put in some order: a sequence of n times the same event.
Copies(e, n) == [i \in 1..n |-> e]

\* How many copies of an event a subscription is handed.
LEMMA CopiesFacts ==
    ASSUME NEW e \in Events, NEW qs \in SUBSET Keys, NEW k
    PROVE  LET hit == {q \in qs : channels[q] = k}
           IN  /\ IsFiniteSet(hit) /\ Cardinality(hit) \in Nat
               /\ Copies(e, Cardinality(hit)) \in Seq(Events)
               /\ Len(Copies(e, Cardinality(hit))) = Cardinality(hit)
<1> DEFINE hit == {q \in qs : channels[q] = k}
<1>1. IsFiniteSet(hit)
  BY FS_Subset, KeyAssumption
<1>2. Cardinality(hit) \in Nat
  BY <1>1, FS_CardinalityType
<1> HIDE DEF hit
<1>3. Copies(e, Cardinality(hit)) \in Seq(Events) /\ Len(Copies(e, Cardinality(hit))) = Cardinality(hit)
  BY <1>2 DEF Copies
<1> QED BY <1>1, <1>2, <1>3 DEF hit

\* An event is handed over to those whose channel a key leads to, behind what
\* is there already.
LEMMA DeliverFacts ==
    ASSUME Types, NEW e \in Events, NEW qs \in SUBSET Keys, Deliver(e, qs), NEW k \in Subs
    PROVE  LET hit == {q \in qs : channels[q] = k}
           IN  /\ queue' \in [Subs -> Seq(Events)]
               /\ queue'[k] = queue[k] \o Copies(e, Cardinality(hit))
<1>1. queue' = [j \in Subs |-> queue[j] \o Copies(e, Cardinality({q \in qs : channels[q] = j}))]
  BY DEF Deliver, Copies
<1>2. \A j \in Subs : queue[j] \o Copies(e, Cardinality({q \in qs : channels[q] = j})) \in Seq(Events)
  <2> TAKE j \in Subs
  <2>1. Copies(e, Cardinality({q \in qs : channels[q] = j})) \in Seq(Events)
    BY CopiesFacts
  <2> QED BY <2>1, ConcatProperties DEF Types
<1> QED BY <1>1, <1>2

\* The types and the keys at the start.
LEMMA TypesInit == Init => Types /\ Channels /\ Failures
<1> SUFFICES ASSUME Init PROVE Types /\ Channels /\ Failures
  OBVIOUS
<1>1. \A k \in Subs : Len(KeysOf[k]) \in Nat /\ Len(KeysOf[k]) > 0
  BY KeyAssumption
<1>2. Keyed
  BY <1>1 DEF Init, Keyed
<1>3. \A w \in Streams : Len(Feed[w]) \in Nat
  BY FeedAssumption
<1>4. /\ db = {} /\ stream = [w \in Streams |-> "idle"] /\ fed = [w \in Streams |-> 0]
      /\ channels = [q \in Keys |-> NoSub]
      /\ sub = [k \in Subs |-> "new"] /\ keyed = [k \in Subs |-> 0]
      /\ queue = [k \in Subs |-> <<>>] /\ snapshot = [k \in Subs |-> {}]
      /\ last_ts = [k \in Subs |-> 0] /\ out = [k \in Subs |-> <<>>] /\ broken = {}
  BY DEF Init
<1>5. queue \in [Subs -> Seq(Events)] /\ out \in [Subs -> Seq(Events)]
  BY <1>4
<1>6. Types
  BY <1>2, <1>3, <1>4, <1>5 DEF Types, SubPc
<1>7. Channels /\ Failures
  BY <1>4, NoSubAssumption DEF Channels, Failures
<1> QED BY <1>6, <1>7

\* Every step keeps the types.
LEMMA TypesStep == Types /\ [Next]_vars => Types'
<1> SUFFICES ASSUME Types, [Next]_vars PROVE Types'
  OBVIOUS
<1> USE DEF ingestVars, subVars
<1>0. \A k \in Subs : Len(KeysOf[k]) \in Nat /\ Len(KeysOf[k]) > 0
  BY KeyAssumption
<1>f. \A w \in Streams : Len(Feed[w]) \in Nat /\ \A i \in 1..Len(Feed[w]) : Feed[w][i] \in Events
  BY FeedAssumption
<1>1. ASSUME NEW w \in Streams, Store(w) PROVE Types'
  <2>1. /\ stream[w] = "idle" /\ fed[w] < Len(Feed[w])
        /\ db' = {d \in db : <<Src[d], Time[d]>> # <<Src[Feed[w][fed[w] + 1]], Time[Feed[w][fed[w] + 1]]>>}
                    \cup {Feed[w][fed[w] + 1]}
        /\ fed' = [fed EXCEPT ![w] = @ + 1] /\ stream' = [stream EXCEPT ![w] = "stored"]
        /\ UNCHANGED <<channels, subVars, broken>>
    BY <1>1 DEF Store
  <2>2. fed[w] + 1 \in 1..Len(Feed[w])
    BY <1>f, <2>1 DEF Types
  <2>3. db' \subseteq Events
    BY <1>f, <2>1, <2>2 DEF Types
  <2>4. /\ stream' \in [Streams -> {"idle", "stored", "dead"}] /\ fed' \in [Streams -> Nat]
        /\ \A v \in Streams : fed'[v] <= Len(Feed[v]) /\ (stream'[v] = "stored" => fed'[v] > 0)
    BY <1>f, <2>1, <2>2 DEF Types
  <2> QED BY <2>1, <2>3, <2>4 DEF Types, Keyed
<1>2. ASSUME NEW w \in Streams, Direct(w) \/ DirectError(w) PROVE Types'
  <2>1. /\ stream[w] = "stored" /\ UNCHANGED <<db, fed, channels, sub, keyed, snapshot, last_ts, out, broken>>
        /\ \E to \in {"idle", "dead"} : stream' = [stream EXCEPT ![w] = to]
    BY <1>2 DEF Direct, DirectError
  <2>2. Feed[w][fed[w]] \in Events
    BY <1>f, <2>1 DEF Types
  <2>3. PICK qs \in SUBSET Keys : Deliver(Feed[w][fed[w]], qs)
    BY <1>2 DEF Direct, DirectError, Matching
  <2>4. queue' \in [Subs -> Seq(Events)]
    <3>1. CASE \E k \in Subs : TRUE
      BY <2>2, <2>3, <3>1, DeliverFacts
    <3>2. CASE ~\E k \in Subs : TRUE
      BY <2>3, <3>2 DEF Deliver
    <3> QED BY <3>1, <3>2
  <2>5. /\ stream' \in [Streams -> {"idle", "stored", "dead"}]
        /\ \A v \in Streams : stream'[v] = "stored" => stream[v] = "stored"
    BY <2>1 DEF Types
  <2> QED BY <2>1, <2>4, <2>5 DEF Types, Keyed
\* A step of one subscription.
<1>3. ASSUME NEW k \in Subs, NEW to \in SubPc, NEW n \in Nat,
             sub' = [sub EXCEPT ![k] = to], keyed' = [keyed EXCEPT ![k] = n],
             n \in 0..Len(KeysOf[k]), to = "new" => n < Len(KeysOf[k]),
             to \in {"start", "replay", "live"} => n = Len(KeysOf[k]), to = "leave" => n > 0
      PROVE  sub' \in [Subs -> SubPc] /\ keyed' \in [Subs -> Nat] /\ Keyed'
  BY <1>3 DEF Types, Keyed
<1>4. ASSUME NEW k \in Subs, NEW from \in SubPc \ {"new"}, NEW to \in SubPc \ {"new"},
             sub[k] = from, sub' = [sub EXCEPT ![k] = to],
             to \in {"start", "replay", "live", "leave"} => from \in {"start", "replay", "live"},
             UNCHANGED keyed
      PROVE  sub' \in [Subs -> SubPc] /\ keyed' \in [Subs -> Nat] /\ Keyed'
  BY <1>0, <1>4 DEF Types, Keyed
<1>5. ASSUME NEW k \in Subs, Register(k) PROVE Types'
  <2> DEFINE to == IF keyed[k] + 1 = Len(KeysOf[k]) THEN "start" ELSE "new"
  <2>1. /\ sub[k] = "new" /\ sub' = [sub EXCEPT ![k] = to]
        /\ keyed' = [keyed EXCEPT ![k] = keyed[k] + 1]
        /\ channels' = [channels EXCEPT ![KeysOf[k][keyed[k] + 1]] = k]
        /\ UNCHANGED <<ingestVars, queue, snapshot, last_ts, out, broken>>
    BY <1>5 DEF Register, Step
  <2>2. keyed[k] \in Nat /\ keyed[k] < Len(KeysOf[k])
    BY <2>1 DEF Types, Keyed
  <2>3. /\ to \in SubPc /\ keyed[k] + 1 \in Nat /\ keyed[k] + 1 \in 0..Len(KeysOf[k])
        /\ to \in {"new", "start"} /\ (to = "new" => keyed[k] + 1 < Len(KeysOf[k]))
        /\ (to = "start" => keyed[k] + 1 = Len(KeysOf[k]))
    BY <1>0, <2>2 DEF SubPc
  <2> HIDE DEF to
  <2>4. sub' \in [Subs -> SubPc] /\ keyed' \in [Subs -> Nat] /\ Keyed'
    BY <1>3, <2>1, <2>3
  <2>5. channels' \in [Keys -> Subs \cup {NoSub}]
    BY <2>1 DEF Types
  <2> QED BY <2>1, <2>4, <2>5 DEF Types
<1>6. ASSUME NEW k \in Subs, StartStream(k) PROVE Types'
  <2>1. /\ sub[k] = "start" /\ sub' = [sub EXCEPT ![k] = IF k \in Crushers THEN "replay" ELSE "live"]
        /\ snapshot' = [snapshot EXCEPT ![k] = IF k \in Crushers THEN Stored(k) ELSE {}]
        /\ UNCHANGED <<ingestVars, channels, keyed, queue, last_ts, out, broken>>
    BY <1>6 DEF StartStream, Step
  <2>2. sub' \in [Subs -> SubPc] /\ keyed' \in [Subs -> Nat] /\ Keyed'
    BY <1>4, <2>1 DEF SubPc
  <2>3. snapshot' \in [Subs -> SUBSET Events]
    BY <2>1 DEF Types, Stored
  <2> QED BY <2>1, <2>2, <2>3 DEF Types
<1>7. ASSUME NEW k \in Subs, Replay(k) PROVE Types'
  <2>1. PICK e \in snapshot[k] :
          /\ snapshot' = [snapshot EXCEPT ![k] = @ \ {e}]
          /\ IF <<k, e>> \in Passes
             THEN /\ out' = [out EXCEPT ![k] = Append(@, e)]
                  /\ last_ts' = [last_ts EXCEPT ![k] = Time[e]]
             ELSE UNCHANGED <<out, last_ts>>
    BY <1>7 DEF Replay
  <2>2. UNCHANGED <<ingestVars, channels, sub, keyed, queue, broken>>
    BY <1>7 DEF Replay
  <2>3. e \in Events /\ Time[e] \in Nat
    BY TimeAssumption DEF Types
  <2>4. snapshot' \in [Subs -> SUBSET Events]
    BY <2>1 DEF Types
  <2>5. out' \in [Subs -> Seq(Events)] /\ last_ts' \in [Subs -> Nat]
    <3>1. Append(out[k], e) \in Seq(Events)
      BY <2>3 DEF Types
    <3>2. CASE <<k, e>> \in Passes
      BY <2>1, <2>3, <3>1, <3>2 DEF Types
    <3>3. CASE <<k, e>> \notin Passes
      BY <2>1, <3>3 DEF Types
    <3> QED BY <3>2, <3>3
  <2> QED BY <2>2, <2>4, <2>5 DEF Types, Keyed
<1>8. ASSUME NEW k \in Subs, ReplayDone(k) \/ ChannelClosed(k) PROVE Types'
  <2>1. sub' \in [Subs -> SubPc] /\ keyed' \in [Subs -> Nat] /\ Keyed'
    BY <1>4, <1>8 DEF ReplayDone, ChannelClosed, Step, SubPc
  <2> QED BY <1>8, <2>1 DEF Types, ReplayDone, ChannelClosed
<1>9. ASSUME NEW k \in Subs, SubscribeError(k) PROVE Types'
  <2>1. sub' \in [Subs -> SubPc] /\ keyed' \in [Subs -> Nat] /\ Keyed'
    BY <1>4, <1>9 DEF SubscribeError, Step, SubPc
  <2>2. queue' \in [Subs -> Seq(Events)]
    BY <1>9 DEF SubscribeError, Types
  <2> QED BY <1>9, <2>1, <2>2 DEF Types, SubscribeError
<1>10. ASSUME NEW k \in Subs, Relay(k) PROVE Types'
  <2>1. /\ queue[k] # <<>> /\ queue' = [queue EXCEPT ![k] = Tail(@)]
        /\ out' = out \/ out' = [out EXCEPT ![k] = Append(@, Head(queue[k]))]
        /\ UNCHANGED <<ingestVars, channels, sub, keyed, snapshot, last_ts, broken>>
    BY <1>10 DEF Relay
  <2>2. Head(queue[k]) \in Events /\ queue' \in [Subs -> Seq(Events)]
    BY <2>1 DEF Types
  <2>3. out' \in [Subs -> Seq(Events)]
    <3>1. Append(out[k], Head(queue[k])) \in Seq(Events)
      BY <2>2 DEF Types
    <3> QED BY <2>1, <3>1 DEF Types
  <2> QED BY <2>1, <2>2, <2>3 DEF Types, Keyed
<1>11. ASSUME NEW k \in Subs, RelayError(k) PROVE Types'
  <2>1. /\ queue[k] # <<>> /\ queue' = [queue EXCEPT ![k] = Tail(@)]
        /\ sub[k] = "live" /\ sub' = [sub EXCEPT ![k] = "leave"]
        /\ UNCHANGED <<ingestVars, channels, keyed, snapshot, last_ts, out, broken>>
    BY <1>11 DEF RelayError, Step
  <2>2. queue' \in [Subs -> Seq(Events)]
    BY <2>1 DEF Types
  <2>3. sub' \in [Subs -> SubPc] /\ keyed' \in [Subs -> Nat] /\ Keyed'
    BY <1>4, <2>1 DEF SubPc
  <2> QED BY <2>1, <2>2, <2>3 DEF Types
<1>12. ASSUME NEW k \in Subs, Unregister(k) PROVE Types'
  <2> DEFINE to == IF keyed[k] = 1 THEN "ended" ELSE "leave"
  <2>1. /\ sub[k] = "leave" /\ sub' = [sub EXCEPT ![k] = to]
        /\ keyed' = [keyed EXCEPT ![k] = keyed[k] - 1]
        /\ channels' = [channels EXCEPT ![KeysOf[k][Len(KeysOf[k]) + 1 - keyed[k]]] = NoSub]
        /\ queue' = [queue EXCEPT ![k] = IF keyed[k] = 1 THEN <<>> ELSE @]
        /\ UNCHANGED <<ingestVars, snapshot, last_ts, out, broken>>
    BY <1>12 DEF Unregister, Step
  <2>2. keyed[k] \in Nat /\ 0 < keyed[k] /\ keyed[k] <= Len(KeysOf[k])
    BY <1>0, <2>1 DEF Types, Keyed
  <2>3. to \in SubPc /\ keyed[k] - 1 \in Nat /\ keyed[k] - 1 \in 0..Len(KeysOf[k])
        /\ to \notin {"new", "start", "replay", "live"} /\ (to = "leave" => keyed[k] - 1 > 0)
    BY <1>0, <2>2 DEF SubPc
  <2> HIDE DEF to
  <2>4. sub' \in [Subs -> SubPc] /\ keyed' \in [Subs -> Nat] /\ Keyed'
    BY <1>3, <2>1, <2>3
  <2>5. channels' \in [Keys -> Subs \cup {NoSub}]
    BY <2>1 DEF Types
  <2>6. queue' \in [Subs -> Seq(Events)]
    <3>1. (IF keyed[k] = 1 THEN <<>> ELSE queue[k]) \in Seq(Events)
      BY DEF Types
    <3> QED BY <2>1, <3>1 DEF Types
  <2> QED BY <2>1, <2>4, <2>5, <2>6 DEF Types
<1>13. ASSUME NEW k \in Subs, Break(k) PROVE Types'
  BY <1>13 DEF Break, Types, Keyed
<1>14. CASE UNCHANGED vars
  BY <1>14 DEF vars, Types, Keyed
<1> QED
  BY <1>1, <1>2, <1>5, <1>6, <1>7, <1>8, <1>9, <1>10, <1>11, <1>12, <1>13, <1>14
     DEF Next, Ingest, Serve

\* Who drops out of the map: a subscription holds on to its keys unless it is
\* the one that moves.
LEMMA ChannelsStep == Types /\ Channels /\ [Next]_vars => Channels'
<1> SUFFICES ASSUME Types, Channels, [Next]_vars PROVE Channels'
  OBVIOUS
<1> USE DEF ingestVars, subVars
<1>0. /\ \A k \in Subs : Len(KeysOf[k]) \in Nat /\ Len(KeysOf[k]) > 0 /\ keyed[k] \in Nat
      /\ \A k \in Subs : \A i \in 1..Len(KeysOf[k]) : KeysOf[k][i] \in Keys
  BY KeyAssumption DEF Types
\* Nobody's keys change.
<1>1. ASSUME UNCHANGED <<channels, sub, keyed>> PROVE Channels'
  BY <1>1 DEF Channels, Held
\* The subscription k goes on without letting go of a key.
<1>2. ASSUME NEW k \in Subs, NEW to \in SubPc \ {"new", "leave", "ended"}, sub[k] # "ended",
             sub' = [sub EXCEPT ![k] = to], UNCHANGED <<channels, keyed>>
      PROVE  Channels'
  <2>1. /\ sub'[k] = to /\ \A j \in Subs \ {k} : sub'[j] = sub[j]
    BY <1>2 DEF Types
  <2>2. \A j \in Subs : Held(j) \subseteq Held(j)'
    BY <1>2, <2>1 DEF Held
  <2> QED BY <1>0, <1>2, <2>2 DEF Channels
<1>3. ASSUME NEW k \in Subs, Register(k) PROVE Channels'
  <2> DEFINE i == keyed[k] + 1  to == IF i = Len(KeysOf[k]) THEN "start" ELSE "new"
  <2>1. /\ sub[k] = "new" /\ sub' = [sub EXCEPT ![k] = to]
        /\ keyed' = [keyed EXCEPT ![k] = i]
        /\ channels' = [channels EXCEPT ![KeysOf[k][i]] = k]
    BY <1>3 DEF Register, Step
  <2>2. i \in 1..Len(KeysOf[k])
    BY <1>0, <2>1 DEF Types, Keyed
  <2>3. /\ sub'[k] = to /\ keyed'[k] = i
        /\ \A j \in Subs \ {k} : sub'[j] = sub[j] /\ keyed'[j] = keyed[j]
    BY <2>1 DEF Types
  <2>4. Held(k) \subseteq Held(k)' /\ KeysOf[k][i] \in Held(k)'
    BY <1>0, <2>1, <2>2, <2>3 DEF Held
  <2>5. \A j \in Subs \ {k} : Held(j)' = Held(j)
    BY <2>3 DEF Held
  <2>6. /\ channels'[KeysOf[k][i]] = k
        /\ \A q \in Keys \ {KeysOf[k][i]} : channels'[q] = channels[q]
    BY <1>0, <2>1, <2>2 DEF Types
  <2> HIDE DEF i, to
  <2>7. ASSUME NEW q \in Keys, NEW j \in Subs, channels'[q] = j PROVE q \in Held(j)'
    <3>1. CASE q = KeysOf[k][i]
      BY <2>4, <2>6, <2>7, <3>1
    <3>2. CASE q # KeysOf[k][i]
      <4>1. q \in Held(j)
        BY <2>6, <2>7, <3>2 DEF Channels
      <4> QED BY <2>4, <2>5, <4>1
    <3> QED BY <3>1, <3>2
  <2> QED BY <2>7 DEF Channels
<1>4. ASSUME NEW k \in Subs, Unregister(k) PROVE Channels'
  <2> DEFINE n == Len(KeysOf[k])  i == n + 1 - keyed[k]
             to == IF keyed[k] = 1 THEN "ended" ELSE "leave"
  <2>1. /\ sub[k] = "leave" /\ sub' = [sub EXCEPT ![k] = to]
        /\ keyed' = [keyed EXCEPT ![k] = keyed[k] - 1]
        /\ channels' = [channels EXCEPT ![KeysOf[k][i]] = NoSub]
    BY <1>4 DEF Unregister, Step
  <2>2. n \in Nat /\ keyed[k] \in 1..n /\ i \in 1..n
    BY <1>0, <2>1 DEF Types, Keyed
  <2>3. /\ sub'[k] = to /\ keyed'[k] = keyed[k] - 1
        /\ \A j \in Subs \ {k} : sub'[j] = sub[j] /\ keyed'[j] = keyed[j]
    BY <2>1 DEF Types
  <2>4. \A j \in Subs \ {k} : Held(j)' = Held(j)
    BY <2>3 DEF Held
  <2>5. /\ channels'[KeysOf[k][i]] = NoSub
        /\ \A q \in Keys \ {KeysOf[k][i]} : channels'[q] = channels[q]
    BY <1>0, <2>1, <2>2 DEF Types
  \* What is left of the keys of k is held on to.
  <2>6. \A q \in Held(k) : q # KeysOf[k][i] => q \in Held(k)'
    <3> SUFFICES ASSUME NEW q \in Held(k), q # KeysOf[k][i] PROVE q \in Held(k)'
      OBVIOUS
    <3>1. PICK j \in 1..n : q = KeysOf[k][j] /\ j > n - keyed[k]
      BY <2>1 DEF Held
    <3>2. j # i
      BY <3>1
    <3>3. j > n - (keyed[k] - 1) /\ keyed[k] # 1
      BY <2>2, <3>1, <3>2
    <3>4. sub'[k] = "leave"
      BY <2>3, <3>3
    <3> QED BY <2>3, <3>1, <3>3, <3>4 DEF Held
  <2> HIDE DEF i, to, n
  <2>7. ASSUME NEW q \in Keys, NEW j \in Subs, channels'[q] = j PROVE q \in Held(j)'
    <3>1. q # KeysOf[k][i]
      BY <2>5, <2>7, NoSubAssumption
    <3>2. q \in Held(j)
      BY <2>5, <2>7, <3>1 DEF Channels
    <3> QED BY <2>4, <2>6, <3>1, <3>2
  <2> QED BY <2>7 DEF Channels
\* The task of k is about to remove its keys; all of them may be there.
<1>5. ASSUME NEW k \in Subs, RelayError(k) PROVE Channels'
  <2>1. sub[k] = "live" /\ sub' = [sub EXCEPT ![k] = "leave"] /\ UNCHANGED <<channels, keyed>>
    BY <1>5 DEF RelayError, Step
  <2>2. sub'[k] = "leave" /\ \A j \in Subs \ {k} : sub'[j] = sub[j]
    BY <2>1 DEF Types
  <2>3. keyed[k] = Len(KeysOf[k])
    BY <2>1 DEF Types, Keyed
  <2>4. Held(k) \subseteq Held(k)'
    BY <1>0, <2>1, <2>2, <2>3 DEF Held
  <2>5. \A j \in Subs \ {k} : Held(j)' = Held(j)
    BY <2>1, <2>2 DEF Held
  <2> QED BY <1>0, <2>1, <2>4, <2>5 DEF Channels
\* The last sender of k is gone.
<1>6. ASSUME NEW k \in Subs, ChannelClosed(k) PROVE Channels'
  <2>1. sub' = [sub EXCEPT ![k] = "ended"] /\ UNCHANGED <<channels, keyed>>
        /\ \A q \in Keys : channels[q] # k
    BY <1>6 DEF ChannelClosed, Step
  <2>2. \A j \in Subs \ {k} : Held(j)' = Held(j)
    BY <2>1 DEF Types, Held
  <2> QED BY <1>0, <2>1, <2>2 DEF Channels
<1>7. ASSUME NEW k \in Subs, StartStream(k) \/ ReplayDone(k) \/ SubscribeError(k) PROVE Channels'
  BY <1>2, <1>7 DEF StartStream, ReplayDone, SubscribeError, Step, SubPc
<1>8. ASSUME NEW k \in Subs, Replay(k) \/ Relay(k) \/ Break(k) PROVE Channels'
  BY <1>1, <1>8 DEF Replay, Relay, Break
<1>9. ASSUME NEW w \in Streams, Ingest(w) PROVE Channels'
  BY <1>1, <1>9 DEF Ingest, Store, Direct, DirectError
<1>10. CASE UNCHANGED vars
  BY <1>1, <1>10 DEF vars
<1> QED
  BY <1>3, <1>4, <1>5, <1>6, <1>7, <1>8, <1>9, <1>10 DEF Next, Serve

\* An ingest stream ends only at a channel whose receiver is gone, and among
\* those that the map leads to these are the failed ones.
LEMMA FailuresStep == Types /\ Channels /\ Failures /\ [Next]_vars => Failures'
<1> SUFFICES ASSUME Types, Channels, Failures, [Next]_vars PROVE Failures'
  OBVIOUS
<1> USE DEF ingestVars, subVars
\* A failed subscription stays so.
<1>1. \A k \in Subs : sub[k] = "failed" => sub'[k] = "failed"
  <2>1. ASSUME NEW k \in Subs, NEW from, NEW to, Step(k, from, to), from # "failed"
        PROVE  \A j \in Subs : sub[j] = "failed" => sub'[j] = "failed"
    BY <2>1 DEF Step, Types
  <2>2. ASSUME NEW k \in Subs, Register(k) \/ StartStream(k) \/ ReplayDone(k) \/ SubscribeError(k)
                                 \/ RelayError(k) \/ Unregister(k) \/ ChannelClosed(k)
        PROVE  \A j \in Subs : sub[j] = "failed" => sub'[j] = "failed"
    BY <2>1, <2>2 DEF Register, StartStream, ReplayDone, SubscribeError, RelayError, Unregister,
                      ChannelClosed
  <2>3. ASSUME NEW k \in Subs, Replay(k) \/ Relay(k) \/ Break(k) PROVE sub' = sub
    BY <2>3 DEF Replay, Relay, Break
  <2>4. ASSUME NEW w \in Streams, Ingest(w) PROVE sub' = sub
    BY <2>4 DEF Ingest, Store, Direct, DirectError
  <2> QED BY <2>2, <2>3, <2>4 DEF Next, Serve, vars
<1>2. ASSUME NEW w \in Streams, DirectError(w) PROVE \E k \in Subs : sub[k] = "failed"
  <2>1. PICK q \in Keys : channels[q] # NoSub /\ ~Open(channels[q])
    BY <1>2 DEF DirectError, Matching
  <2>2. channels[q] \in Subs /\ q \in Held(channels[q])
    BY <2>1 DEF Types, Channels
  <2>3. sub[channels[q]] # "ended"
    BY <2>2 DEF Held
  <2> QED BY <2>1, <2>2, <2>3 DEF Open
<1>3. (\E w \in Streams : DirectError(w)) \/ (\A w \in Streams : stream'[w] = "dead" => stream[w] = "dead")
  <2>1. ASSUME NEW w \in Streams, Store(w) \/ Direct(w)
        PROVE  \A v \in Streams : stream'[v] = "dead" => stream[v] = "dead"
    BY <2>1 DEF Store, Direct, Types
  <2>2. ASSUME NEW k \in Subs, Register(k) \/ Serve(k) \/ Break(k) PROVE stream' = stream
    BY <2>2 DEF Register, Serve, StartStream, Replay, ReplayDone, SubscribeError, Relay, RelayError,
                Unregister, ChannelClosed, Break
  <2> QED BY <2>1, <2>2 DEF Next, Ingest, vars
<1> QED BY <1>1, <1>2, <1>3 DEF Failures

\* These three hold at all times.
LEMMA TypesAlways == Spec => [](Types /\ Channels /\ Failures)
BY TypesInit, TypesStep, ChannelsStep, FailuresStep, PTL DEF Spec

\* Every variable keeps its type.
THEOREM TypeCorrect == Spec => []TypeOK
<1>1. Types => TypeOK
  BY FeedAssumption DEF Types, Keyed, TypeOK
<1> QED BY <1>1, TypesAlways, PTL

\* A subscriber that goes away while its task serves it never takes an ingest
\* stream with it, whatever the other subscriptions do to its keys.
THEOREM LeavingIsHarmless == Spec => []OnlyFailedSetupKillsIngest
<1>1. Failures => OnlyFailedSetupKillsIngest
  BY DEF Failures, OnlyFailedSetupKillsIngest
<1> QED BY <1>1, TypesAlways, PTL

\* A sequence and what it holds, with one element more or less.
LEMMA RangeEmpty == Range(<<>>) = {} /\ IsInjective(<<>>)
BY DEF Range, IsInjective

\* What is in a sequence to which an element is added.
LEMMA RangeAppend ==
    ASSUME NEW S, NEW s \in Seq(S), NEW e \in S
    PROVE  /\ Range(Append(s, e)) = Range(s) \cup {e}
           /\ IsInjective(s) /\ e \notin Range(s) => IsInjective(Append(s, e))
           /\ Len(Append(s, e)) = Len(s) + 1 /\ Len(s) \in Nat
           /\ \A i \in 1..Len(s) : Append(s, e)[i] = s[i] /\ s[i] \in Range(s)
           /\ Append(s, e)[Len(s) + 1] = e
<1> DEFINE r == Append(s, e)
<1>1. /\ r \in Seq(S) /\ Len(s) \in Nat /\ Len(r) = Len(s) + 1
      /\ \A i \in 1..Len(s) : r[i] = s[i]
      /\ r[Len(s) + 1] = e /\ DOMAIN s = 1..Len(s) /\ DOMAIN r = 1..Len(r)
  OBVIOUS
<1> HIDE DEF r
<1>2. \A i \in 1..Len(r) : i \in 1..Len(s) \/ i = Len(s) + 1
  BY <1>1
<1>3. 1..Len(s) \subseteq 1..Len(r) /\ Len(s) + 1 \in 1..Len(r)
  BY <1>1
<1>4. Range(r) = Range(s) \cup {e}
  BY <1>1, <1>2, <1>3 DEF Range
<1>5. IsInjective(s) /\ e \notin Range(s) => IsInjective(r)
  BY <1>1, <1>2 DEF IsInjective, Range
<1>6. \A i \in 1..Len(s) : s[i] \in Range(s)
  BY <1>1 DEF Range
<1> QED BY <1>1, <1>4, <1>5, <1>6 DEF r

\* What is in a sequence whose first element is taken.
LEMMA RangeTail ==
    ASSUME NEW S, NEW s \in Seq(S), s # <<>>
    PROVE  /\ Head(s) \in S /\ Tail(s) \in Seq(S)
           /\ Range(s) = Range(Tail(s)) \cup {Head(s)}
           /\ IsInjective(s) => IsInjective(Tail(s)) /\ Head(s) \notin Range(Tail(s))
<1> DEFINE r == Tail(s)
<1>1. /\ r \in Seq(S) /\ Len(s) \in Nat \ {0} /\ Len(r) = Len(s) - 1 /\ Head(s) \in S
      /\ \A i \in 1..Len(r) : r[i] = s[i + 1]
      /\ Head(s) = s[1] /\ DOMAIN s = 1..Len(s) /\ DOMAIN r = 1..Len(r)
  OBVIOUS
<1> HIDE DEF r
<1>2. 1 \in 1..Len(s) /\ \A i \in 1..Len(r) : i + 1 \in 1..Len(s) /\ i + 1 # 1
  BY <1>1
<1>3. \A i \in 1..Len(s) : i # 1 => i - 1 \in 1..Len(r) /\ r[i - 1] = s[i]
  BY <1>1
<1>4. Range(s) = Range(r) \cup {Head(s)}
  <2>1. Range(r) \subseteq Range(s) /\ Head(s) \in Range(s)
    BY <1>1, <1>2 DEF Range
  <2>2. Range(s) \subseteq Range(r) \cup {Head(s)}
    BY <1>1, <1>3 DEF Range
  <2> QED BY <2>1, <2>2
<1>5. IsInjective(s) => Head(s) \notin Range(r)
  BY <1>1, <1>2 DEF IsInjective, Range
<1>6. IsInjective(s) => IsInjective(r)
  <2> SUFFICES ASSUME IsInjective(s), NEW a \in 1..Len(r), NEW b \in 1..Len(r), r[a] = r[b]
               PROVE  a = b
    BY <1>1 DEF IsInjective
  <2>1. \A i \in 1..Len(s), j \in 1..Len(s) : s[i] = s[j] => i = j
    BY <1>1 DEF IsInjective
  <2>2. s[a + 1] = s[b + 1] /\ a + 1 \in 1..Len(s) /\ b + 1 \in 1..Len(s)
    BY <1>1, <1>2
  <2>3. a + 1 = b + 1
    BY <2>1, <2>2, Zenon
  <2> QED BY <2>3
<1> QED BY <1>1, <1>4, <1>5, <1>6 DEF r

\* A channel behind whose contents an event is put n times.
With(s, e, n) == s \o Copies(e, n)

\* What is in a channel behind whose contents an event is put.
LEMMA RangeCopies ==
    ASSUME NEW s \in Seq(Events), NEW e \in Events, NEW n \in Nat
    PROVE  /\ Range(s) \subseteq Range(With(s, e, n))
           /\ Range(With(s, e, n)) \subseteq Range(s) \cup {e}
           /\ n = 0 => With(s, e, n) = s
           /\ n > 0 => e \in Range(With(s, e, n))
           /\ n <= 1 /\ IsInjective(s) /\ e \notin Range(s) => IsInjective(With(s, e, n))
<1> DEFINE c == Copies(e, n)  r == s \o c
<1>1. c \in Seq(Events) /\ Len(c) = n /\ \A i \in 1..n : c[i] = e
  BY DEF Copies
<1> HIDE DEF c
<1>r. /\ r \in Seq(Events) /\ Len(r) = Len(s) + Len(c)
      /\ \A i \in 1..(Len(s) + Len(c)) : r[i] = IF i <= Len(s) THEN s[i] ELSE c[i - Len(s)]
  BY <1>1, ConcatProperties
<1> HIDE DEF r
<1>2. /\ r \in Seq(Events) /\ Len(s) \in Nat /\ Len(r) = Len(s) + n
      /\ \A i \in 1..Len(r) : r[i] = IF i <= Len(s) THEN s[i] ELSE c[i - Len(s)]
  BY <1>1, <1>r
<1>3. DOMAIN s = 1..Len(s) /\ DOMAIN r = 1..Len(r) /\ 1..Len(s) \subseteq 1..Len(r)
  BY <1>2
<1>4. \A i \in 1..Len(s) : r[i] = s[i]
  BY <1>2
<1>5. \A i \in 1..Len(r) : i \notin 1..Len(s) => r[i] = e
  <2> SUFFICES ASSUME NEW i \in 1..Len(r), i \notin 1..Len(s) PROVE r[i] = e
    OBVIOUS
  <2>1. ~(i <= Len(s)) /\ i - Len(s) \in 1..n
    BY <1>2
  <2> QED BY <1>1, <1>2, <2>1
<1>6. Range(s) \subseteq Range(r) /\ Range(r) \subseteq Range(s) \cup {e}
  BY <1>3, <1>4, <1>5 DEF Range
<1>7. n > 0 => e \in Range(r)
  <2> SUFFICES ASSUME n > 0 PROVE e \in Range(r)
    OBVIOUS
  <2>1. Len(s) + 1 \in 1..Len(r) /\ Len(s) + 1 \notin 1..Len(s)
    BY <1>2
  <2> QED BY <1>3, <1>5, <2>1 DEF Range
<1>8. ASSUME n <= 1, IsInjective(s), e \notin Range(s) PROVE IsInjective(r)
  <2> SUFFICES ASSUME NEW a \in 1..Len(r), NEW b \in 1..Len(r), r[a] = r[b] PROVE a = b
    BY <1>3 DEF IsInjective
  <2>1. \A i \in 1..Len(r) : i \notin 1..Len(s) => i = Len(s) + 1
    BY <1>2, <1>8
  <2>2. CASE a \in 1..Len(s) /\ b \in 1..Len(s)
    BY <1>3, <1>4, <1>8, <2>2 DEF IsInjective
  <2>3. CASE a \notin 1..Len(s) /\ b \notin 1..Len(s)
    BY <2>1, <2>3
  <2>4. CASE a \in 1..Len(s) /\ b \notin 1..Len(s)
    BY <1>3, <1>4, <1>5, <1>8, <2>4 DEF Range
  <2>5. CASE a \notin 1..Len(s) /\ b \in 1..Len(s)
    BY <1>3, <1>4, <1>5, <1>8, <2>5 DEF Range
  <2> QED BY <2>2, <2>3, <2>4, <2>5
<1>9. ASSUME n = 0 PROVE r = s
  BY <1>2, <1>3, <1>4, <1>9
<1> QED BY <1>6, <1>7, <1>8, <1>9 DEF r, c, With

\* send_direct_stream: who is handed the event, and how often.
LEMMA HandOver ==
    ASSUME Types, Channels, NEW w \in Streams, Direct(w) \/ DirectError(w), NEW k \in Subs,
           NEW e, e = Feed[w][fed[w]]
    PROVE  /\ e \in Events /\ stream[w] = "stored" /\ fed[w] \in 1..Len(Feed[w])
           /\ Range(queue[k]) \subseteq Range(queue'[k])
           /\ Range(queue'[k]) \subseteq Range(queue[k]) \cup {e}
           /\ \/ queue'[k] = queue[k]
              \/ \E q \in Keys : channels[q] = k /\ Reaches(q, Src[e])
           /\ Direct(w) /\ (\E q \in Keys : channels[q] = k /\ Reaches(q, Src[e]))
                 => e \in Range(queue'[k])
           /\ k \in Crushers /\ IsInjective(queue[k]) /\ e \notin Range(queue[k])
                 => IsInjective(queue'[k])
<1>1. stream[w] = "stored" /\ fed[w] \in 1..Len(Feed[w]) /\ e \in Events
  BY FeedAssumption DEF Direct, DirectError, Types
<1>2. PICK qs \in SUBSET Matching(e) : Deliver(e, qs) /\ (Direct(w) => qs = Matching(e))
  <2>1. CASE Direct(w)
    BY <2>1 DEF Direct
  <2>2. CASE DirectError(w) /\ ~Direct(w)
    BY <2>2 DEF DirectError
  <2> QED BY <2>1, <2>2
<1> DEFINE hit == {q \in qs : channels[q] = k}  n == Cardinality(hit)
<1>3. qs \in SUBSET Keys
  BY <1>2 DEF Matching
<1>4. queue'[k] = With(queue[k], e, n)
  BY <1>1, <1>2, <1>3, DeliverFacts DEF With
<1>5. IsFiniteSet(hit) /\ n \in Nat
  BY <1>1, <1>3, CopiesFacts
<1>6. n = 0 <=> hit = {}
  BY <1>5, FS_EmptySet
<1>7. k \in Crushers => n <= 1
  <2> SUFFICES ASSUME k \in Crushers PROVE n <= 1
    OBVIOUS
  <2>1. hit \subseteq {KeysOf[k][1]}
    BY <1>3, CrusherAssumption DEF Channels, Held
  <2>2. IsFiniteSet({KeysOf[k][1]}) /\ Cardinality({KeysOf[k][1]}) = 1
    BY FS_Singleton
  <2> QED BY <2>1, <2>2, FS_Subset
<1>8. hit # {} => \E q \in Keys : channels[q] = k /\ Reaches(q, Src[e])
  BY <1>2, <1>3 DEF Matching
<1>9. Direct(w) /\ (\E q \in Keys : channels[q] = k /\ Reaches(q, Src[e])) => hit # {}
  BY <1>2, NoSubAssumption DEF Matching
<1>10. queue[k] \in Seq(Events)
  BY DEF Types
<1> HIDE DEF hit, n
<1>11. /\ Range(queue[k]) \subseteq Range(queue'[k])
       /\ Range(queue'[k]) \subseteq Range(queue[k]) \cup {e}
       /\ n = 0 => queue'[k] = queue[k]
       /\ n > 0 => e \in Range(queue'[k])
       /\ n <= 1 /\ IsInjective(queue[k]) /\ e \notin Range(queue[k]) => IsInjective(queue'[k])
  BY <1>1, <1>4, <1>5, <1>10, RangeCopies
<1> QED BY <1>1, <1>5, <1>6, <1>7, <1>8, <1>9, <1>11
-----------------------------------------------------------------------------
(* A step of a subscription.                                               *)

\* The step of k leaves the others and ingest alone, and turns no key to a
\* subscription that had not registered it.
Alone(k) ==
    /\ UNCHANGED ingestVars
    /\ \A j \in Subs \ {k} : /\ sub'[j] = sub[j] /\ queue'[j] = queue[j] /\ out'[j] = out[j]
                             /\ snapshot'[j] = snapshot[j] /\ last_ts'[j] = last_ts[j]
    /\ \A q \in Keys, j \in Subs :
          channels'[q] = j => channels[q] = j \/ (j = k /\ sub'[k] \in {"new", "start"})

\* The replay begins, goes on with e, and the channel is read.
Begins(k) ==
    /\ k \in Crushers /\ sub[k] = "start" /\ sub'[k] = "replay" /\ snapshot'[k] = Stored(k)
    /\ queue'[k] = queue[k] /\ out'[k] = out[k] /\ last_ts'[k] = last_ts[k]

Replays(k, e) ==
    /\ sub[k] = "replay" /\ sub'[k] = "replay" /\ queue'[k] = queue[k]
    /\ \A d \in snapshot[k] : Time[e] <= Time[d]
    /\ snapshot'[k] = snapshot[k] \ {e}
    /\ \/ <<k, e>> \in Passes /\ out'[k] = Append(out[k], e) /\ last_ts'[k] = Time[e]
       \/ <<k, e>> \notin Passes /\ out'[k] = out[k] /\ last_ts'[k] = last_ts[k]

Relays(k) ==
    /\ sub[k] = "live" /\ sub'[k] = "live" /\ queue[k] # <<>> /\ queue'[k] = Tail(queue[k])
    /\ snapshot'[k] = snapshot[k] /\ last_ts'[k] = last_ts[k]
    /\ \/ last_ts[k] > Time[Head(queue[k])] /\ out'[k] = out[k]
       \/ last_ts[k] <= Time[Head(queue[k])] /\ out'[k] = Append(out[k], Head(queue[k]))

\* The other steps send nothing.
SendsNothing(k) ==
    /\ out'[k] = out[k] /\ last_ts'[k] = last_ts[k]
    /\ snapshot'[k] = snapshot[k] \/ snapshot'[k] = {}
    /\ \/ queue'[k] = queue[k] \/ queue'[k] = <<>>
       \/ queue[k] # <<>> /\ queue'[k] = Tail(queue[k])
    /\ sub'[k] \in {"new", "start"} => sub[k] \in {"new", "start"}
    /\ sub'[k] = "replay" => sub[k] = "replay" /\ snapshot'[k] = snapshot[k] /\ queue'[k] = queue[k]
    /\ sub'[k] = "live" /\ k \in Crushers =>
          queue'[k] = queue[k] /\ snapshot'[k] = snapshot[k] /\ sub[k] \in {"replay", "live"}
    /\ sub'[k] \notin {"replay", "failed"} =>
          snapshot'[k] = {} \/ (sub[k] \notin {"replay", "failed"} /\ snapshot'[k] = snapshot[k])

\* A step of a subscription's task concerns it alone, and is one of four.
LEMMA SubStep ==
    ASSUME Types, NEW k \in Subs, Register(k) \/ Serve(k) \/ Break(k)
    PROVE  /\ Alone(k)
           /\ Begins(k) \/ (\E e \in snapshot[k] : Replays(k, e)) \/ Relays(k) \/ SendsNothing(k)
<1> USE DEF ingestVars, subVars
<1>0. /\ DOMAIN sub = Subs /\ DOMAIN queue = Subs /\ DOMAIN out = Subs /\ DOMAIN snapshot = Subs
      /\ DOMAIN last_ts = Subs /\ DOMAIN channels = Keys /\ sub[k] \in SubPc
  BY DEF Types
<1>s. ASSUME NEW from, NEW to, Step(k, from, to)
      PROVE  sub[k] = from /\ sub'[k] = to /\ \A j \in Subs \ {k} : sub'[j] = sub[j]
  BY <1>0, <1>s DEF Step
<1>1. CASE Register(k)
  <2>1. \E to \in {"new", "start"} : Step(k, "new", to)
    BY <1>1 DEF Register
  <2>2. sub[k] = "new" /\ sub'[k] \in {"new", "start"} /\ \A j \in Subs \ {k} : sub'[j] = sub[j]
    BY <1>s, <2>1
  <2>3. /\ channels' = [channels EXCEPT ![KeysOf[k][keyed[k] + 1]] = k]
        /\ UNCHANGED <<ingestVars, queue, snapshot, last_ts, out, broken>>
    BY <1>1 DEF Register
  <2>4. \A q \in Keys : channels'[q] = channels[q] \/ channels'[q] = k
    BY <1>0, <2>3
  <2>5. Alone(k)
    BY <2>2, <2>3, <2>4 DEF Alone
  <2>6. SendsNothing(k)
    BY <2>2, <2>3 DEF SendsNothing
  <2> QED BY <2>5, <2>6
<1>2. CASE StartStream(k)
  <2>1. /\ sub[k] = "start" /\ sub'[k] = (IF k \in Crushers THEN "replay" ELSE "live")
        /\ \A j \in Subs \ {k} : sub'[j] = sub[j]
    BY <1>2, <1>s DEF StartStream
  <2>2. /\ snapshot' = [snapshot EXCEPT ![k] = IF k \in Crushers THEN Stored(k) ELSE {}]
        /\ UNCHANGED <<ingestVars, channels, keyed, queue, last_ts, out, broken>>
    BY <1>2 DEF StartStream
  <2>3. /\ snapshot'[k] = (IF k \in Crushers THEN Stored(k) ELSE {})
        /\ \A j \in Subs \ {k} : snapshot'[j] = snapshot[j]
    BY <1>0, <2>2
  <2>4. Alone(k)
    BY <2>1, <2>2, <2>3 DEF Alone
  <2>5. CASE k \in Crushers
    BY <2>1, <2>2, <2>3, <2>4, <2>5 DEF Begins
  <2>6. CASE k \notin Crushers
    BY <2>1, <2>2, <2>3, <2>4, <2>6 DEF SendsNothing
  <2> QED BY <2>5, <2>6
<1>3. CASE Replay(k)
  <2>1. PICK e \in snapshot[k] :
          /\ \A d \in snapshot[k] : Time[e] <= Time[d]
          /\ snapshot' = [snapshot EXCEPT ![k] = @ \ {e}]
          /\ IF <<k, e>> \in Passes
             THEN /\ out' = [out EXCEPT ![k] = Append(@, e)]
                  /\ last_ts' = [last_ts EXCEPT ![k] = Time[e]]
             ELSE UNCHANGED <<out, last_ts>>
    BY <1>3 DEF Replay
  <2>2. sub[k] = "replay" /\ UNCHANGED <<ingestVars, channels, sub, keyed, queue, broken>>
    BY <1>3 DEF Replay
  <2>3. snapshot'[k] = snapshot[k] \ {e} /\ \A j \in Subs \ {k} : snapshot'[j] = snapshot[j]
    BY <1>0, <2>1
  <2>4. /\ \A j \in Subs \ {k} : out'[j] = out[j] /\ last_ts'[j] = last_ts[j]
        /\ \/ <<k, e>> \in Passes /\ out'[k] = Append(out[k], e) /\ last_ts'[k] = Time[e]
           \/ <<k, e>> \notin Passes /\ out'[k] = out[k] /\ last_ts'[k] = last_ts[k]
    BY <1>0, <2>1
  <2>5. Alone(k) /\ Replays(k, e)
    BY <2>1, <2>2, <2>3, <2>4 DEF Alone, Replays
  <2> QED BY <2>5
<1>4. CASE ReplayDone(k) \/ ChannelClosed(k)
  <2>1. /\ sub[k] \in {"replay", "live"} /\ sub'[k] \in {"live", "ended"}
        /\ sub[k] = "replay" => sub'[k] = "live" /\ snapshot[k] = {}
        /\ sub[k] = "live" => sub'[k] = "ended"
        /\ \A j \in Subs \ {k} : sub'[j] = sub[j]
    BY <1>4, <1>s DEF ReplayDone, ChannelClosed
  <2>2. UNCHANGED <<ingestVars, channels, keyed, queue, snapshot, last_ts, out, broken>>
    BY <1>4 DEF ReplayDone, ChannelClosed
  <2>3. Alone(k)
    BY <2>1, <2>2 DEF Alone
  <2>4. SendsNothing(k)
    BY <2>1, <2>2 DEF SendsNothing
  <2> QED BY <2>3, <2>4
<1>5. CASE SubscribeError(k)
  <2>1. sub'[k] = "failed" /\ \A j \in Subs \ {k} : sub'[j] = sub[j]
    BY <1>5, <1>s DEF SubscribeError
  <2>2. /\ queue' = [queue EXCEPT ![k] = <<>>]
        /\ UNCHANGED <<ingestVars, channels, keyed, snapshot, last_ts, out, broken>>
    BY <1>5 DEF SubscribeError
  <2>3. queue'[k] = <<>> /\ \A j \in Subs \ {k} : queue'[j] = queue[j]
    BY <1>0, <2>2
  <2>4. Alone(k)
    BY <2>1, <2>2, <2>3 DEF Alone
  <2>5. SendsNothing(k)
    BY <2>1, <2>2, <2>3 DEF SendsNothing
  <2> QED BY <2>4, <2>5
<1>6. CASE Relay(k)
  <2>1. /\ sub[k] = "live" /\ queue[k] # <<>> /\ queue' = [queue EXCEPT ![k] = Tail(@)]
        /\ \/ last_ts[k] > Time[Head(queue[k])] /\ out' = out
           \/ /\ last_ts[k] <= Time[Head(queue[k])]
              /\ out' = [out EXCEPT ![k] = Append(@, Head(queue[k]))]
        /\ UNCHANGED <<ingestVars, channels, sub, keyed, snapshot, last_ts, broken>>
    BY <1>6 DEF Relay
  <2>2. queue'[k] = Tail(queue[k]) /\ \A j \in Subs \ {k} : queue'[j] = queue[j]
    BY <1>0, <2>1
  <2>3. /\ \/ last_ts[k] > Time[Head(queue[k])] /\ out'[k] = out[k]
           \/ last_ts[k] <= Time[Head(queue[k])] /\ out'[k] = Append(out[k], Head(queue[k]))
        /\ \A j \in Subs \ {k} : out'[j] = out[j]
    BY <1>0, <2>1
  <2> QED BY <2>1, <2>2, <2>3 DEF Alone, Relays
<1>7. CASE RelayError(k)
  <2>1. sub[k] = "live" /\ sub'[k] = "leave" /\ \A j \in Subs \ {k} : sub'[j] = sub[j]
    BY <1>7, <1>s DEF RelayError
  <2>2. /\ queue[k] # <<>> /\ queue' = [queue EXCEPT ![k] = Tail(@)]
        /\ UNCHANGED <<ingestVars, channels, keyed, snapshot, last_ts, out, broken>>
    BY <1>7 DEF RelayError
  <2>3. queue'[k] = Tail(queue[k]) /\ \A j \in Subs \ {k} : queue'[j] = queue[j]
    BY <1>0, <2>2
  <2>4. Alone(k)
    BY <2>1, <2>2, <2>3 DEF Alone
  <2>5. SendsNothing(k)
    BY <2>1, <2>2, <2>3 DEF SendsNothing
  <2> QED BY <2>4, <2>5
<1>8. CASE Unregister(k)
  <2>1. \E to \in {"ended", "leave"} : Step(k, "leave", to)
    BY <1>8 DEF Unregister
  <2>2. sub[k] = "leave" /\ sub'[k] \in {"ended", "leave"} /\ \A j \in Subs \ {k} : sub'[j] = sub[j]
    BY <1>s, <2>1
  <2>3. /\ channels' = [channels EXCEPT ![KeysOf[k][Len(KeysOf[k]) + 1 - keyed[k]]] = NoSub]
        /\ queue' = [queue EXCEPT ![k] = IF keyed[k] = 1 THEN <<>> ELSE @]
        /\ UNCHANGED <<ingestVars, snapshot, last_ts, out, broken>>
    BY <1>8 DEF Unregister
  <2>4. \A q \in Keys : channels'[q] = channels[q] \/ channels'[q] = NoSub
    BY <1>0, <2>3
  <2>5. (queue'[k] = queue[k] \/ queue'[k] = <<>>) /\ \A j \in Subs \ {k} : queue'[j] = queue[j]
    BY <1>0, <2>3
  <2>6. Alone(k)
    BY <2>2, <2>3, <2>4, <2>5, NoSubAssumption DEF Alone
  <2>7. SendsNothing(k)
    BY <2>2, <2>3, <2>5 DEF SendsNothing
  <2> QED BY <2>6, <2>7
<1>9. CASE Break(k)
  <2>1. UNCHANGED <<ingestVars, channels, subVars>>
    BY <1>9 DEF Break
  <2>2. Alone(k)
    BY <2>1 DEF Alone
  <2>3. CASE sub[k] # "failed" /\ sub[k] # "replay"
    BY <2>1, <2>2, <2>3 DEF SendsNothing
  <2>4. CASE sub[k] = "failed" \/ sub[k] = "replay"
    BY <2>1, <2>2, <2>4 DEF SendsNothing
  <2> QED BY <2>3, <2>4
<1> QED
  BY <1>1, <1>2, <1>3, <1>4, <1>5, <1>6, <1>7, <1>8, <1>9 DEF Serve
-----------------------------------------------------------------------------
(* The seam between the replay and the channel.                            *)

\* An event that has not been stored, that is between being stored and being
\* handed over, or that was lost for the channels when its stream failed.
Future(e) == \E w \in Streams : \E i \in 1..Len(Feed[w]) : i > fed[w] /\ Feed[w][i] = e
At(e, pc) == \E w \in Streams : stream[w] = pc /\ fed[w] > 0 /\ Feed[w][fed[w]] = e
Pending(e) == Future(e) \/ At(e, "stored")

\* Before and during the replay: what was sent is older than what is still
\* in the snapshot, and is not repeated.
Replaying ==
    \A k \in Subs :
        /\ sub[k] \in {"new", "start"} => out[k] = <<>> /\ last_ts[k] = 0
        /\ sub[k] \notin {"replay", "failed"} => snapshot[k] = {}
        /\ sub[k] = "replay" =>
              /\ \A d \in snapshot[k] : last_ts[k] <= Time[d] /\ d \notin Range(out[k])
              /\ \A e \in Range(out[k]) : Time[e] <= last_ts[k]
              /\ IsInjective(out[k])

\* An event enters the channel of a Crusher once, and if it is there, or has
\* yet to come, and was sent already, then it was by the replay.
Once ==
    \A k \in Crushers :
        /\ IsInjective(queue[k])
        /\ \A e \in Range(queue[k]) : ~Pending(e)
        /\ \A e \in Range(out[k]) : Pending(e) \/ e \in Range(queue[k]) => Time[e] <= last_ts[k]

Seam == Replaying /\ Once /\ TwiceOnlyAtSeam

\* How events come to an end of their way through ingest.
LEMMA PendingSame ==
    ASSUME UNCHANGED ingestVars
    PROVE  \A e : /\ Pending(e)' <=> Pending(e)
                  /\ Future(e)' <=> Future(e)
                  /\ \A pc : At(e, pc)' <=> At(e, pc)
BY DEF Pending, Future, At, ingestVars

\* The events that are yet to come when one is appended to the store.
LEMMA PendingStore ==
    ASSUME Types, NEW w \in Streams, Store(w), NEW d, d = Feed[w][fed[w] + 1]
    PROVE  /\ \A e : (Pending(e)' => Pending(e)) /\ (Future(e)' => Future(e))
           /\ \A e, pc : pc # "idle" /\ At(e, pc) => At(e, pc)'
           /\ fed[w] + 1 \in 1..Len(Feed[w]) /\ d \in Events
           /\ Future(d) /\ At(d, "stored")'
<1>0. /\ fed[w] \in Nat /\ Len(Feed[w]) \in Nat /\ \A i \in 1..Len(Feed[w]) : Feed[w][i] \in Events
  BY FeedAssumption DEF Types
<1>1. /\ stream[w] = "idle" /\ fed[w] < Len(Feed[w])
      /\ fed' = [fed EXCEPT ![w] = fed[w] + 1] /\ stream' = [stream EXCEPT ![w] = "stored"]
  BY DEF Store
<1>2. /\ fed'[w] = fed[w] + 1 /\ stream'[w] = "stored"
      /\ \A v \in Streams \ {w} : fed'[v] = fed[v] /\ stream'[v] = stream[v]
  BY <1>1 DEF Types
<1>3. fed[w] + 1 \in 1..Len(Feed[w]) /\ d \in Events
  BY <1>0, <1>1
<1>4. Future(d) /\ At(d, "stored")'
  BY <1>0, <1>2, <1>3 DEF Future, At
<1>5. ASSUME NEW e, Future(e)' PROVE Future(e)
  <2>1. PICK v \in Streams : \E i \in 1..Len(Feed[v]) : i > fed'[v] /\ Feed[v][i] = e
    BY <1>5 DEF Future
  <2>2. fed'[v] >= fed[v] /\ fed[v] \in Nat /\ fed'[v] \in Nat
    <3>1. fed[v] \in Nat
      BY DEF Types
    <3>2. CASE v = w
      BY <1>0, <1>2, <3>2
    <3>3. CASE v # w
      BY <1>2, <3>1, <3>3
    <3> QED BY <3>1, <3>2, <3>3
  <2>3. \A i \in 1..Len(Feed[v]) : i > fed'[v] => i > fed[v]
    BY <2>2, FeedAssumption
  <2> QED BY <2>1, <2>3 DEF Future
<1>6. ASSUME NEW e, At(e, "stored")' PROVE Pending(e)
  <2>1. PICK v \in Streams : stream'[v] = "stored" /\ fed'[v] > 0 /\ Feed[v][fed'[v]] = e
    BY <1>6 DEF At
  <2>2. CASE v = w
    BY <1>2, <1>4, <2>1, <2>2 DEF Pending
  <2>3. CASE v # w
    BY <1>2, <2>1, <2>3 DEF Pending, At
  <2> QED BY <2>2, <2>3
<1>7. ASSUME NEW e, NEW pc, pc # "idle", At(e, pc) PROVE At(e, pc)'
  BY <1>1, <1>2, <1>7 DEF At
<1> QED BY <1>3, <1>4, <1>5, <1>6, <1>7 DEF Pending

\* The same when an event is handed to the subscribers.
LEMMA PendingDirect ==
    ASSUME Types, NEW w \in Streams, Direct(w) \/ DirectError(w), NEW d, d = Feed[w][fed[w]]
    PROVE  /\ Pending(d) /\ ~Pending(d)'
           /\ \A e : (Pending(e)' => Pending(e)) /\ (Future(e)' <=> Future(e))
           /\ \A e : /\ At(e, "dead") => At(e, "dead")'
                     /\ At(e, "stored") => e = d \/ At(e, "stored")'
           /\ Direct(w) \/ At(d, "dead")'
           /\ UNCHANGED <<db, fed, channels, sub, snapshot, last_ts, out>>
<1>1. /\ stream[w] = "stored" /\ UNCHANGED <<db, fed, channels, sub, snapshot, last_ts, out>>
      /\ \/ Direct(w) /\ stream' = [stream EXCEPT ![w] = "idle"]
         \/ stream' = [stream EXCEPT ![w] = "dead"]
  BY DEF Direct, DirectError
<1>2. /\ \A v \in Streams \ {w} : stream'[v] = stream[v]
      /\ stream'[w] = "dead" \/ (Direct(w) /\ stream'[w] = "idle")
  BY <1>1 DEF Types
<1>3. /\ fed[w] \in 1..Len(Feed[w]) /\ fed[w] > 0
      /\ \A v \in Streams : fed[v] \in Nat /\ fed[v] <= Len(Feed[v]) /\ Len(Feed[v]) \in Nat
  BY <1>1, FeedAssumption DEF Types
<1>4. Pending(d)
  BY <1>1, <1>3 DEF Pending, At
<1>5. \A e : Future(e)' <=> Future(e)
  BY <1>1 DEF Future
<1>6. \A e : At(e, "stored")' => At(e, "stored")
  BY <1>1, <1>2 DEF At
<1>7. ~Future(d)
  <2> SUFFICES ASSUME NEW v \in Streams, NEW i \in 1..Len(Feed[v]), i > fed[v], Feed[v][i] = d
               PROVE  FALSE
    BY DEF Future
  <2>1. v = w /\ i = fed[w]
    BY <1>3, FeedOnceAssumption
  <2> QED BY <1>3, <2>1
<1>8. ~At(d, "stored")'
  <2> SUFFICES ASSUME NEW v \in Streams, stream'[v] = "stored", fed[v] > 0, Feed[v][fed[v]] = d
               PROVE  FALSE
    BY <1>1 DEF At
  <2>1. v # w
    BY <1>2
  <2>2. fed[v] \in 1..Len(Feed[v])
    BY <1>3
  <2> QED BY <1>3, <2>1, <2>2, FeedOnceAssumption
<1>9. \A e : /\ At(e, "dead") => At(e, "dead")'
             /\ At(e, "stored") => e = d \/ At(e, "stored")'
  BY <1>1, <1>2 DEF At
<1>10. Direct(w) \/ At(d, "dead")'
  BY <1>1, <1>2, <1>3 DEF At
<1> QED BY <1>1, <1>4, <1>5, <1>6, <1>7, <1>8, <1>9, <1>10 DEF Pending

\* A step keeps the seam in order.
LEMMA SeamStep == Types /\ Types' /\ Channels /\ Seam /\ [Next]_vars => Seam'
<1> SUFFICES ASSUME Types, Types', Channels, Seam, [Next]_vars PROVE Seam'
  OBVIOUS
<1>0. \A j \in Subs : /\ queue[j] \in Seq(Events) /\ out[j] \in Seq(Events)
                      /\ snapshot[j] \subseteq Events /\ last_ts[j] \in Nat /\ sub[j] \in SubPc
  BY DEF Types
<1>t. \A e \in Events : Time[e] \in Nat
  BY TimeAssumption
<1>c. Crushers \subseteq Subs
  BY CrusherAssumption
<1>r. \A j \in Subs : Range(queue[j]) \subseteq Events /\ Range(out[j]) \subseteq Events
  BY <1>0 DEF Range
\* Ingest has no part in what was sent.
<1>1. ASSUME UNCHANGED <<sub, snapshot, last_ts, out>> PROVE Replaying' /\ TwiceOnlyAtSeam'
  BY <1>1 DEF Seam, Replaying, TwiceOnlyAtSeam
<1>2. ASSUME NEW w \in Streams, Store(w) PROVE Seam'
  <2>1. UNCHANGED <<sub, snapshot, last_ts, out, queue>>
    BY <1>2 DEF Store, subVars
  <2>2. \A e : Pending(e)' => Pending(e)
    <3>1. PICK d : d = Feed[w][fed[w] + 1]
      OBVIOUS
    <3> QED BY <1>2, <3>1, PendingStore
  <2>3. Once'
    BY <2>1, <2>2 DEF Seam, Once
  <2> QED BY <1>1, <2>1, <2>3 DEF Seam
<1>3. ASSUME NEW w \in Streams, Direct(w) \/ DirectError(w) PROVE Seam'
  <2>1. PICK d : d = Feed[w][fed[w]]
    OBVIOUS
  <2>2. /\ Pending(d) /\ ~Pending(d)' /\ \A e : Pending(e)' => Pending(e)
        /\ UNCHANGED <<sub, snapshot, last_ts, out>>
    BY <1>3, <2>1, PendingDirect
  <2>3. ASSUME NEW k \in Crushers
        PROVE  /\ IsInjective(queue'[k])
               /\ \A e \in Range(queue'[k]) : ~Pending(e)'
               /\ \A e \in Range(out'[k]) : Pending(e)' \/ e \in Range(queue'[k]) => Time[e] <= last_ts'[k]
    <3>1. d \notin Range(queue[k]) /\ IsInjective(queue[k])
      BY <2>2 DEF Seam, Once
    <3>2. Range(queue'[k]) \subseteq Range(queue[k]) \cup {d} /\ IsInjective(queue'[k])
      BY <1>3, <1>c, <2>1, <3>1, HandOver
    <3>3. \A e \in Range(queue'[k]) : ~Pending(e)'
      BY <2>2, <3>2 DEF Seam, Once
    <3>4. \A e \in Range(out'[k]) : Pending(e)' \/ e \in Range(queue'[k]) => Time[e] <= last_ts'[k]
      BY <2>2, <3>2 DEF Seam, Once
    <3> QED BY <3>2, <3>3, <3>4
  <2>4. Once'
    BY <2>3 DEF Once
  <2> QED BY <1>1, <2>2, <2>4 DEF Seam
<1>4. ASSUME NEW k \in Subs, Register(k) \/ Serve(k) \/ Break(k) PROVE Seam'
  <2>1. Alone(k) /\ (Begins(k) \/ (\E e \in snapshot[k] : Replays(k, e)) \/ Relays(k) \/ SendsNothing(k))
    BY <1>4, SubStep
  <2>2. \A e : Pending(e)' <=> Pending(e)
    BY <2>1, PendingSame DEF Alone
  \* It is enough to look at k itself.
  <2>3. ASSUME /\ sub'[k] \in {"new", "start"} => out'[k] = <<>> /\ last_ts'[k] = 0
               /\ sub'[k] \notin {"replay", "failed"} => snapshot'[k] = {}
               /\ sub'[k] = "replay" =>
                     /\ \A d \in snapshot'[k] : last_ts'[k] <= Time[d] /\ d \notin Range(out'[k])
                     /\ \A e \in Range(out'[k]) : Time[e] <= last_ts'[k]
                     /\ IsInjective(out'[k]),
               k \in Crushers =>
                  /\ IsInjective(queue'[k])
                  /\ \A e \in Range(queue'[k]) : ~Pending(e)
                  /\ \A e \in Range(out'[k]) :
                        Pending(e) \/ e \in Range(queue'[k]) => Time[e] <= last_ts'[k],
               k \in Crushers =>
                  \A a, b \in 1..Len(out'[k]) :
                     a < b /\ out'[k][a] = out'[k][b] => Time[out'[k][a]] = last_ts'[k]
        PROVE  Seam'
    <3>1. Replaying'
      BY <2>1, <2>3 DEF Seam, Replaying, Alone
    <3>2. Once'
      BY <1>c, <2>1, <2>2, <2>3 DEF Seam, Once, Alone
    <3>3. TwiceOnlyAtSeam'
      BY <1>c, <2>1, <2>3 DEF Seam, TwiceOnlyAtSeam, Alone
    <3> QED BY <3>1, <3>2, <3>3 DEF Seam
  <2>4. CASE Begins(k)
    <3>1. /\ k \in Crushers /\ sub'[k] = "replay" /\ out'[k] = <<>> /\ last_ts'[k] = 0
          /\ queue'[k] = queue[k] /\ snapshot'[k] = Stored(k)
      BY <2>4 DEF Begins, Seam, Replaying
    <3>2. Stored(k) \subseteq Events
      BY DEF Stored, Types
    <3>3. Range(out'[k]) = {} /\ IsInjective(out'[k]) /\ Len(out'[k]) = 0
      BY <3>1, RangeEmpty
    <3>4. \A d \in snapshot'[k] : last_ts'[k] <= Time[d]
      BY <1>t, <3>1, <3>2
    <3>5. IsInjective(queue'[k]) /\ \A e \in Range(queue'[k]) : ~Pending(e)
      BY <3>1 DEF Seam, Once
    <3>6. \A a, b \in 1..Len(out'[k]) : FALSE
      BY <3>3
    <3> QED BY <2>3, <3>1, <3>3, <3>4, <3>5, <3>6
  <2>5. CASE \E e \in snapshot[k] : Replays(k, e)
    <3>1. PICK e \in snapshot[k] : Replays(k, e)
      BY <2>5
    <3>2. /\ sub[k] = "replay" /\ sub'[k] = "replay" /\ queue'[k] = queue[k]
          /\ \A d \in snapshot[k] : Time[e] <= Time[d]
          /\ snapshot'[k] = snapshot[k] \ {e} /\ e \in Events
      BY <1>0, <3>1 DEF Replays
    <3>3. /\ \A d \in snapshot[k] : last_ts[k] <= Time[d] /\ d \notin Range(out[k])
          /\ \A x \in Range(out[k]) : Time[x] <= last_ts[k]
          /\ IsInjective(out[k])
      BY <3>2 DEF Seam, Replaying
    <3>4. IsInjective(out'[k]) /\ \A d \in snapshot'[k] : last_ts'[k] <= Time[d] /\ d \notin Range(out'[k])
      <4>1. CASE out'[k] = Append(out[k], e) /\ last_ts'[k] = Time[e]
        <5>1. Range(out'[k]) = Range(out[k]) \cup {e} /\ IsInjective(out'[k])
          BY <1>0, <3>2, <3>3, <4>1, RangeAppend
        <5> QED BY <3>2, <3>3, <4>1, <5>1
      <4>2. CASE out'[k] = out[k] /\ last_ts'[k] = last_ts[k]
        BY <3>2, <3>3, <4>2
      <4> QED BY <3>1, <4>1, <4>2 DEF Replays
    <3>5. \A x \in Range(out'[k]) : Time[x] <= last_ts'[k]
      <4>1. CASE out'[k] = Append(out[k], e) /\ last_ts'[k] = Time[e]
        <5>1. Range(out'[k]) = Range(out[k]) \cup {e}
          BY <1>0, <3>2, <4>1, RangeAppend
        <5>2. last_ts[k] <= Time[e] /\ last_ts[k] \in Nat /\ Time[e] \in Nat
          BY <1>0, <1>t, <3>2, <3>3
        <5>3. \A x \in Range(out[k]) : Time[x] \in Nat
          BY <1>r, <1>t
        <5> QED BY <3>3, <4>1, <5>1, <5>2, <5>3
      <4>2. CASE out'[k] = out[k] /\ last_ts'[k] = last_ts[k]
        BY <3>3, <4>2
      <4> QED BY <3>1, <4>1, <4>2 DEF Replays
    <3>6. k \in Crushers =>
             IsInjective(queue'[k]) /\ \A x \in Range(queue'[k]) : ~Pending(x)
      BY <3>2 DEF Seam, Once
    <3>7. \A a, b \in 1..Len(out'[k]) : ~(a < b /\ out'[k][a] = out'[k][b])
      <4>1. out'[k] \in Seq(Events)
        BY DEF Types
      <4>2. DOMAIN out'[k] = 1..Len(out'[k]) /\ Len(out'[k]) \in Nat
        BY <4>1
      <4> QED BY <3>4, <4>2 DEF IsInjective
    <3> QED BY <2>3, <3>2, <3>4, <3>5, <3>6, <3>7
  <2>6. CASE Relays(k)
    <3> DEFINE h == Head(queue[k])
    <3>1. /\ sub[k] = "live" /\ sub'[k] = "live" /\ queue[k] # <<>> /\ queue'[k] = Tail(queue[k])
          /\ snapshot'[k] = snapshot[k] /\ last_ts'[k] = last_ts[k]
          /\ out'[k] = out[k] \/ (last_ts[k] <= Time[h] /\ out'[k] = Append(out[k], h))
      BY <2>6 DEF Relays
    <3>2. /\ h \in Events /\ Range(queue[k]) = Range(Tail(queue[k])) \cup {h}
          /\ IsInjective(queue[k]) => IsInjective(Tail(queue[k])) /\ h \notin Range(Tail(queue[k]))
      BY <1>0, <3>1, RangeTail
    <3> HIDE DEF h
    <3>3. snapshot'[k] = {}
      BY <3>1 DEF Seam, Replaying
    <3>4. ASSUME k \in Crushers
          PROVE  /\ IsInjective(queue[k]) /\ \A e \in Range(queue[k]) : ~Pending(e)
                 /\ \A e \in Range(out[k]) : Pending(e) \/ e \in Range(queue[k]) => Time[e] <= last_ts[k]
                 /\ \A a, b \in 1..Len(out[k]) :
                       a < b /\ out[k][a] = out[k][b] => Time[out[k][a]] = last_ts[k]
      BY <3>4 DEF Seam, Once, TwiceOnlyAtSeam
    <3>5. CASE out'[k] = out[k]
      BY <2>3, <3>1, <3>2, <3>3, <3>4, <3>5
    <3>6. CASE last_ts[k] <= Time[h] /\ out'[k] = Append(out[k], h)
      <4>1. /\ Range(out'[k]) = Range(out[k]) \cup {h}
            /\ Len(out'[k]) = Len(out[k]) + 1 /\ Len(out[k]) \in Nat
            /\ \A a \in 1..Len(out[k]) : out'[k][a] = out[k][a] /\ out[k][a] \in Range(out[k])
            /\ out'[k][Len(out[k]) + 1] = h
        BY <1>0, <3>2, <3>6, RangeAppend
      <4>2. ASSUME k \in Crushers, h \in Range(out[k]) PROVE Time[h] = last_ts[k]
        <5>1. Time[h] <= last_ts[k] /\ last_ts[k] <= Time[h]
          BY <3>2, <3>4, <3>6, <4>2
        <5>2. Time[h] \in Nat /\ last_ts[k] \in Nat
          BY <1>0, <1>t, <3>2
        <5> QED BY <5>1, <5>2
      <4>3. ASSUME k \in Crushers, NEW a \in 1..Len(out'[k]), NEW b \in 1..Len(out'[k]),
                   a < b, out'[k][a] = out'[k][b]
            PROVE  Time[out'[k][a]] = last_ts'[k]
        <5>1. a \in 1..Len(out[k])
          BY <4>1, <4>3
        <5>2. CASE b \in 1..Len(out[k])
          BY <3>1, <3>4, <4>1, <4>3, <5>1, <5>2
        <5>3. CASE b \notin 1..Len(out[k])
          <6>1. b = Len(out[k]) + 1
            BY <4>1, <5>3
          <6>2. out'[k][a] = h /\ h \in Range(out[k])
            BY <4>1, <4>3, <5>1, <6>1
          <6> QED BY <3>1, <4>2, <4>3, <6>2
        <5> QED BY <5>2, <5>3
      <4>4. k \in Crushers =>
               /\ IsInjective(queue'[k]) /\ \A e \in Range(queue'[k]) : ~Pending(e)
               /\ \A e \in Range(out'[k]) : Pending(e) \/ e \in Range(queue'[k]) => Time[e] <= last_ts'[k]
        BY <3>1, <3>2, <3>4, <4>1
      <4> QED BY <2>3, <3>1, <3>3, <4>3, <4>4
    <3> QED BY <3>1, <3>5, <3>6
  <2>7. CASE SendsNothing(k)
    <3>1. out'[k] = out[k] /\ last_ts'[k] = last_ts[k]
      BY <2>7 DEF SendsNothing
    <3>2. Range(queue'[k]) \subseteq Range(queue[k]) /\ (IsInjective(queue[k]) => IsInjective(queue'[k]))
      <4>1. CASE queue[k] # <<>> /\ queue'[k] = Tail(queue[k])
        BY <1>0, <4>1, RangeTail
      <4>2. CASE queue'[k] = queue[k] \/ queue'[k] = <<>>
        BY <4>2, RangeEmpty
      <4> QED BY <2>7, <4>1, <4>2 DEF SendsNothing
    <3>3. /\ sub'[k] \in {"new", "start"} => out'[k] = <<>> /\ last_ts'[k] = 0
          /\ sub'[k] \notin {"replay", "failed"} => snapshot'[k] = {}
      BY <2>7 DEF SendsNothing, Seam, Replaying
    <3>4. sub'[k] = "replay" =>
             /\ \A d \in snapshot'[k] : last_ts'[k] <= Time[d] /\ d \notin Range(out'[k])
             /\ \A e \in Range(out'[k]) : Time[e] <= last_ts'[k]
             /\ IsInjective(out'[k])
      BY <2>7, <3>1 DEF SendsNothing, Seam, Replaying
    <3>5. k \in Crushers =>
             /\ IsInjective(queue'[k]) /\ \A e \in Range(queue'[k]) : ~Pending(e)
             /\ \A e \in Range(out'[k]) : Pending(e) \/ e \in Range(queue'[k]) => Time[e] <= last_ts'[k]
      BY <3>1, <3>2 DEF Seam, Once
    <3>6. k \in Crushers =>
             \A a, b \in 1..Len(out'[k]) :
                a < b /\ out'[k][a] = out'[k][b] => Time[out'[k][a]] = last_ts'[k]
      BY <3>1 DEF Seam, TwiceOnlyAtSeam
    <3> QED BY <2>3, <3>3, <3>4, <3>5, <3>6
  <2> QED BY <2>1, <2>4, <2>5, <2>6, <2>7
<1>5. CASE UNCHANGED vars
  <2>1. UNCHANGED <<sub, snapshot, last_ts, out, queue>> /\ UNCHANGED ingestVars
    BY <1>5 DEF vars, subVars
  <2>2. Once'
    BY <2>1, PendingSame DEF Seam, Once
  <2> QED BY <1>1, <2>1, <2>2 DEF Seam
<1> QED
  BY <1>2, <1>3, <1>4, <1>5 DEF Next, Ingest

\* The seam is in order at all times.
LEMMA SeamAlways == Spec => []Seam
<1>1. Init => Seam
  <2> SUFFICES ASSUME Init PROVE Seam
    OBVIOUS
  <2>1. \A k \in Subs : /\ out[k] = <<>> /\ queue[k] = <<>> /\ last_ts[k] = 0 /\ snapshot[k] = {}
                        /\ sub[k] = "new"
    BY DEF Init
  <2>2. Replaying
    BY <2>1 DEF Replaying
  <2>3. Once
    BY <2>1, CrusherAssumption, RangeEmpty DEF Once
  <2>4. TwiceOnlyAtSeam
    BY <2>1, CrusherAssumption DEF TwiceOnlyAtSeam
  <2> QED BY <2>2, <2>3, <2>4 DEF Seam
<1> QED BY <1>1, SeamStep, TypesAlways, PTL DEF Spec

\* A Crusher is sent an event a second time only at the seam, where the replay
\* and the channel meet at last_ts.
THEOREM RepeatsOnlyAtSeam == Spec => []TwiceOnlyAtSeam
<1>1. Seam => TwiceOnlyAtSeam
  BY DEF Seam
<1> QED BY <1>1, SeamAlways, PTL
-----------------------------------------------------------------------------
(* Nothing is missed.                                                      *)

Key(k) == KeysOf[k][1]
Wanted(k, e) == Src[e] = Target[Key(k)] /\ Time[e] >= Start[k] /\ <<k, e>> \in Passes

\* The database holds what has been fed.
Fed == \A d \in db : \E w \in Streams : \E i \in 1..Len(Feed[w]) : i <= fed[w] /\ Feed[w][i] = d

\* What the replay goes over is not younger than what is still to come.
Older ==
    \A k \in Crushers : \A e \in Events : Future(e) /\ Src[e] = Target[Key(k)] =>
        last_ts[k] <= Time[e] /\ \A d \in snapshot[k] : Time[d] <= Time[e]

\* What the replay does not go over is not older than what it goes over.
Younger ==
    \A k \in Crushers : sub[k] \in {"replay", "live"} =>
        \A e \in db : Wanted(k, e) =>
            \/ e \in snapshot[k] \cup Range(out[k])
            \/ last_ts[k] <= Time[e] /\ \A d \in snapshot[k] : Time[d] <= Time[e]

\* While its key leads to it, a Crusher has been sent what it asked for or
\* is going to be, unless the ingest stream fails.
Underway ==
    \A k \in Crushers : sub[k] \in {"replay", "live"} /\ channels[Key(k)] = k =>
        \A e \in db : Wanted(k, e) =>
            \/ e \in snapshot[k] \cup Range(out[k]) \cup Range(queue[k])
            \/ At(e, "stored") \/ At(e, "dead")

Complete == Fed /\ Older /\ Younger /\ Underway

\* The database holds nothing younger than what is still to come of a source.
LEMMA StoredInOrder ==
    ASSUME InOrder, Types, Fed, NEW d \in db, NEW e, Future(e), Src[d] = Src[e]
    PROVE  Time[d] <= Time[e]
<1>1. PICK v \in Streams : \E i \in 1..Len(Feed[v]) : i <= fed[v] /\ Feed[v][i] = d
  BY DEF Fed
<1>2. PICK i \in 1..Len(Feed[v]) : i <= fed[v] /\ Feed[v][i] = d
  BY <1>1
<1>3. PICK w \in Streams : \E j \in 1..Len(Feed[w]) : j > fed[w] /\ Feed[w][j] = e
  BY DEF Future
<1>4. PICK j \in 1..Len(Feed[w]) : j > fed[w] /\ Feed[w][j] = e
  BY <1>3
<1>5. v = w /\ (i <= j => Time[d] <= Time[e])
  BY <1>2, <1>4 DEF InOrder
<1>6. fed[w] \in Nat /\ Len(Feed[w]) \in Nat
  BY FeedAssumption DEF Types
<1> QED BY <1>2, <1>4, <1>5, <1>6

\* Every step keeps what has been promised to the Crushers.
LEMMA CompleteStep ==
    ASSUME InOrder, Types, Channels, Seam, Complete, [Next]_vars
    PROVE  Complete'
<1>0. \A j \in Subs : /\ queue[j] \in Seq(Events) /\ out[j] \in Seq(Events)
                      /\ snapshot[j] \subseteq Events /\ last_ts[j] \in Nat
  BY DEF Types
<1>t. \A e \in Events : Time[e] \in Nat
  BY TimeAssumption
<1>c. Crushers \subseteq Subs /\ \A k \in Crushers : Key(k) \in Keys /\ Reaches(Key(k), Target[Key(k)])
  BY CrusherAssumption, KeyAssumption, SuffixAssumption DEF Key, Reaches
<1>d. db \subseteq Events
  BY DEF Types
<1>2. ASSUME NEW w \in Streams, Store(w) PROVE Complete'
  <2>1. PICK d : d = Feed[w][fed[w] + 1]
    OBVIOUS
  <2>2. /\ UNCHANGED <<channels, sub, snapshot, last_ts, out, queue>>
        /\ db' \subseteq db \cup {d} /\ fed' = [fed EXCEPT ![w] = fed[w] + 1]
    BY <1>2, <2>1 DEF Store, subVars
  <2>3. /\ \A e : Future(e)' => Future(e)
        /\ \A e : At(e, "stored") => At(e, "stored")'
        /\ \A e : At(e, "dead") => At(e, "dead")'
        /\ fed[w] + 1 \in 1..Len(Feed[w]) /\ d \in Events /\ Future(d) /\ At(d, "stored")'
    BY <1>2, <2>1, PendingStore
  <2>4. \A v \in Streams : fed[v] \in Nat /\ fed'[v] \in Nat /\ fed[v] <= fed'[v]
    BY <2>2 DEF Types
  <2>5. fed'[w] = fed[w] + 1
    BY <2>2 DEF Types
  <2>6. Fed'
    <3> SUFFICES ASSUME NEW x \in db'
                 PROVE  \E v \in Streams : \E i \in 1..Len(Feed[v]) : i <= fed'[v] /\ Feed[v][i] = x
      BY DEF Fed
    <3>1. CASE x \in db
      <4>1. PICK v \in Streams : \E i \in 1..Len(Feed[v]) : i <= fed[v] /\ Feed[v][i] = x
        BY <3>1 DEF Complete, Fed
      <4>2. PICK i \in 1..Len(Feed[v]) : i <= fed[v] /\ Feed[v][i] = x
        BY <4>1
      <4>3. i <= fed'[v]
        BY <2>4, <4>2, FeedAssumption
      <4> QED BY <4>2, <4>3
    <3>2. CASE x = d
      <4>1. fed[w] + 1 <= fed'[w]
        BY <2>4, <2>5
      <4> QED BY <2>1, <2>3, <3>2, <4>1
    <3> QED BY <2>2, <3>1, <3>2
  <2>7. Older'
    BY <2>2, <2>3 DEF Complete, Older
  <2>8. Younger'
    <3> SUFFICES ASSUME NEW k \in Crushers, sub[k] \in {"replay", "live"}, NEW e \in db', Wanted(k, e)
                 PROVE  \/ e \in snapshot[k] \cup Range(out[k])
                        \/ last_ts[k] <= Time[e] /\ \A x \in snapshot[k] : Time[x] <= Time[e]
      BY <2>2 DEF Younger, Wanted
    <3>1. CASE e \in db
      BY <3>1 DEF Complete, Younger
    <3>2. CASE e = d
      BY <2>3, <3>2 DEF Complete, Older, Wanted
    <3> QED BY <2>2, <3>1, <3>2
  <2>9. Underway'
    BY <2>2, <2>3 DEF Complete, Underway, Wanted
  <2> QED BY <2>6, <2>7, <2>8, <2>9 DEF Complete
<1>3. ASSUME NEW w \in Streams, Direct(w) \/ DirectError(w) PROVE Complete'
  <2>1. PICK d : d = Feed[w][fed[w]]
    OBVIOUS
  <2>2. /\ \A e : Future(e)' <=> Future(e)
        /\ \A e : /\ At(e, "dead") => At(e, "dead")'
                  /\ At(e, "stored") => e = d \/ At(e, "stored")'
        /\ Direct(w) \/ At(d, "dead")'
        /\ UNCHANGED <<db, fed, channels, sub, snapshot, last_ts, out>>
    BY <1>3, <2>1, PendingDirect
  <2>3. Fed' /\ Older' /\ Younger'
    BY <2>2 DEF Complete, Fed, Older, Younger, Wanted
  <2>4. Underway'
    <3> SUFFICES ASSUME NEW k \in Crushers, sub[k] \in {"replay", "live"}, channels[Key(k)] = k,
                        NEW e \in db, Wanted(k, e)
                 PROVE  \/ e \in snapshot[k] \cup Range(out[k]) \cup Range(queue'[k])
                        \/ At(e, "stored")' \/ At(e, "dead")'
      BY <2>2 DEF Underway, Wanted
    <3>1. Range(queue[k]) \subseteq Range(queue'[k])
      BY <1>3, <1>c, <2>1, HandOver
    <3>2. Direct(w) /\ e = d => e \in Range(queue'[k])
      <4> SUFFICES ASSUME Direct(w), e = d PROVE d \in Range(queue'[k])
        OBVIOUS
      <4>1. Key(k) \in Keys /\ channels[Key(k)] = k /\ Reaches(Key(k), Src[d])
        BY <1>c DEF Wanted
      <4> QED BY <1>3, <1>c, <2>1, <4>1, HandOver
    <3>3. \/ e \in snapshot[k] \cup Range(out[k]) \cup Range(queue[k])
          \/ At(e, "stored") \/ At(e, "dead")
      BY DEF Complete, Underway
    <3> QED BY <2>2, <3>1, <3>2, <3>3
  <2> QED BY <2>3, <2>4 DEF Complete
<1>4. ASSUME NEW k \in Subs, Register(k) \/ Serve(k) \/ Break(k) PROVE Complete'
  <2>1. Alone(k) /\ (Begins(k) \/ (\E e \in snapshot[k] : Replays(k, e)) \/ Relays(k) \/ SendsNothing(k))
    BY <1>4, SubStep
  <2>2. /\ \A e : Future(e)' <=> Future(e)
        /\ \A e : (At(e, "stored")' <=> At(e, "stored")) /\ (At(e, "dead")' <=> At(e, "dead"))
    BY <2>1, PendingSame DEF Alone
  <2>3. Fed' /\ db' = db
    BY <2>1 DEF Complete, Fed, Alone, ingestVars
  \* It is enough to look at k itself.
  <2>4. ASSUME k \in Crushers => \A e \in Events : Future(e) /\ Src[e] = Target[Key(k)] =>
                  last_ts'[k] <= Time[e] /\ \A d \in snapshot'[k] : Time[d] <= Time[e],
               k \in Crushers /\ sub'[k] \in {"replay", "live"} => \A e \in db : Wanted(k, e) =>
                  \/ e \in snapshot'[k] \cup Range(out'[k])
                  \/ last_ts'[k] <= Time[e] /\ \A d \in snapshot'[k] : Time[d] <= Time[e],
               k \in Crushers /\ sub'[k] \in {"replay", "live"} /\ channels[Key(k)] = k =>
                  \A e \in db : Wanted(k, e) =>
                     \/ e \in snapshot'[k] \cup Range(out'[k]) \cup Range(queue'[k])
                     \/ At(e, "stored") \/ At(e, "dead")
        PROVE  Complete'
    <3>1. Older'
      BY <1>c, <2>1, <2>2, <2>4 DEF Complete, Older, Alone
    <3>2. Younger'
      BY <1>c, <2>1, <2>3, <2>4 DEF Complete, Younger, Alone, Wanted
    <3>3. ASSUME NEW j \in Crushers, sub'[j] \in {"replay", "live"}, channels'[Key(j)] = j
          PROVE  channels[Key(j)] = j
      BY <1>c, <2>1, <3>3 DEF Alone
    <3>4. Underway'
      <4> SUFFICES ASSUME NEW j \in Crushers, sub'[j] \in {"replay", "live"}, channels'[Key(j)] = j,
                          NEW e \in db, Wanted(j, e)
                   PROVE  \/ e \in snapshot'[j] \cup Range(out'[j]) \cup Range(queue'[j])
                          \/ At(e, "stored") \/ At(e, "dead")
        BY <2>2, <2>3 DEF Underway, Wanted
      <4>1. CASE j = k
        BY <2>4, <3>3, <4>1
      <4>2. CASE j # k
        BY <1>c, <2>1, <3>3, <4>2 DEF Complete, Underway, Alone
      <4> QED BY <4>1, <4>2
    <3> QED BY <2>3, <3>1, <3>2, <3>4 DEF Complete
  <2>5. CASE Begins(k)
    <3>1. /\ k \in Crushers /\ last_ts'[k] = 0 /\ snapshot'[k] = Stored(k)
      BY <2>5 DEF Begins, Seam, Replaying
    <3>2. \A d \in Stored(k) : d \in db /\ Src[d] = Target[Key(k)]
      BY DEF Stored, Key
    <3>3. ASSUME NEW e \in Events, Future(e), Src[e] = Target[Key(k)]
          PROVE  last_ts'[k] <= Time[e] /\ \A d \in snapshot'[k] : Time[d] <= Time[e]
      <4>1. \A d \in Stored(k) : Time[d] <= Time[e]
        BY <3>2, <3>3, StoredInOrder DEF Complete
      <4> QED BY <1>t, <3>1, <4>1
    <3>4. \A e \in db : Wanted(k, e) => e \in snapshot'[k]
      BY <3>1 DEF Stored, Wanted, Key
    <3> QED BY <2>4, <3>3, <3>4
  <2>6. CASE \E e \in snapshot[k] : Replays(k, e)
    <3>1. PICK x \in snapshot[k] : Replays(k, x)
      BY <2>6
    <3>2. /\ sub[k] = "replay" /\ queue'[k] = queue[k]
          /\ snapshot'[k] = snapshot[k] \ {x} /\ x \in Events
          /\ last_ts'[k] = Time[x] \/ last_ts'[k] = last_ts[k]
      BY <1>0, <3>1 DEF Replays
    <3>3. Range(out[k]) \subseteq Range(out'[k]) /\ (<<k, x>> \in Passes => x \in Range(out'[k]))
      <4>1. CASE out'[k] = Append(out[k], x)
        BY <1>0, <3>2, <4>1, RangeAppend
      <4>2. CASE <<k, x>> \notin Passes /\ out'[k] = out[k]
        BY <4>2
      <4> QED BY <3>1, <4>1, <4>2 DEF Replays
    <3>4. ASSUME k \in Crushers, NEW e \in Events, Future(e), Src[e] = Target[Key(k)]
          PROVE  last_ts'[k] <= Time[e] /\ \A d \in snapshot'[k] : Time[d] <= Time[e]
      BY <3>2, <3>4 DEF Complete, Older
    <3>5. ASSUME k \in Crushers, NEW e \in db, Wanted(k, e)
          PROVE  \/ e \in snapshot'[k] \cup Range(out'[k])
                 \/ last_ts'[k] <= Time[e] /\ \A d \in snapshot'[k] : Time[d] <= Time[e]
      <4>1. \/ e \in snapshot[k] \cup Range(out[k])
            \/ last_ts[k] <= Time[e] /\ \A d \in snapshot[k] : Time[d] <= Time[e]
        BY <3>2, <3>5 DEF Complete, Younger
      <4>2. e = x => e \in Range(out'[k])
        BY <3>3, <3>5 DEF Wanted
      <4> QED BY <3>2, <3>3, <4>1, <4>2
    <3>6. ASSUME k \in Crushers, channels[Key(k)] = k, NEW e \in db, Wanted(k, e)
          PROVE  \/ e \in snapshot'[k] \cup Range(out'[k]) \cup Range(queue'[k])
                 \/ At(e, "stored") \/ At(e, "dead")
      <4>1. \/ e \in snapshot[k] \cup Range(out[k]) \cup Range(queue[k])
            \/ At(e, "stored") \/ At(e, "dead")
        BY <3>2, <3>6 DEF Complete, Underway
      <4>2. e = x => e \in Range(out'[k])
        BY <3>3, <3>6 DEF Wanted
      <4> QED BY <3>2, <3>3, <4>1, <4>2
    <3> QED BY <2>4, <3>4, <3>5, <3>6
  <2>7. CASE Relays(k)
    <3>1. PICK h : h = Head(queue[k])
      OBVIOUS
    <3>2. /\ sub[k] = "live" /\ queue[k] # <<>> /\ queue'[k] = Tail(queue[k])
          /\ snapshot'[k] = snapshot[k] /\ last_ts'[k] = last_ts[k]
          /\ \/ last_ts[k] > Time[h] /\ out'[k] = out[k]
             \/ out'[k] = Append(out[k], h)
      BY <2>7, <3>1 DEF Relays
    <3>3. h \in Events /\ Range(queue[k]) = Range(queue'[k]) \cup {h}
      BY <1>0, <3>1, <3>2, RangeTail
    <3>4. snapshot[k] = {}
      BY <3>2 DEF Seam, Replaying
    <3>5. Range(out[k]) \subseteq Range(out'[k]) /\ (last_ts[k] > Time[h] \/ h \in Range(out'[k]))
      <4>1. CASE out'[k] = Append(out[k], h)
        BY <1>0, <3>3, <4>1, RangeAppend
      <4>2. CASE last_ts[k] > Time[h] /\ out'[k] = out[k]
        BY <4>2
      <4> QED BY <3>2, <4>1, <4>2
    <3>6. ASSUME k \in Crushers, NEW e \in db, Wanted(k, e)
          PROVE  \/ e \in snapshot[k] \cup Range(out[k])
                 \/ last_ts[k] <= Time[e] /\ \A d \in snapshot[k] : Time[d] <= Time[e]
      BY <3>2, <3>6 DEF Complete, Younger
    <3>7. ASSUME k \in Crushers, channels[Key(k)] = k, NEW e \in db, Wanted(k, e)
          PROVE  \/ e \in snapshot'[k] \cup Range(out'[k]) \cup Range(queue'[k])
                 \/ At(e, "stored") \/ At(e, "dead")
      <4>1. \/ e \in Range(out[k]) \cup Range(queue[k])
            \/ At(e, "stored") \/ At(e, "dead")
        BY <3>2, <3>4, <3>7 DEF Complete, Underway
      <4>2. e = h => e \in Range(out'[k])
        <5> SUFFICES ASSUME e = h PROVE h \in Range(out'[k])
          OBVIOUS
        <5>1. h \in Range(out[k]) \/ last_ts[k] <= Time[h]
          BY <3>4, <3>6, <3>7
        <5>2. last_ts[k] \in Nat /\ Time[h] \in Nat
          BY <1>0, <1>t, <3>3
        <5> QED BY <3>5, <5>1, <5>2
      <4> QED BY <3>3, <3>5, <4>1, <4>2
    <3>8. ASSUME k \in Crushers, NEW e \in Events, Future(e), Src[e] = Target[Key(k)]
          PROVE  last_ts'[k] <= Time[e] /\ \A d \in snapshot'[k] : Time[d] <= Time[e]
      BY <3>2, <3>8 DEF Complete, Older
    <3> QED BY <2>4, <3>2, <3>5, <3>6, <3>7, <3>8
  <2>8. CASE SendsNothing(k)
    <3>1. /\ out'[k] = out[k] /\ last_ts'[k] = last_ts[k]
          /\ snapshot'[k] = snapshot[k] \/ snapshot'[k] = {}
      BY <2>8 DEF SendsNothing
    <3>2. k \in Crushers /\ sub'[k] \in {"replay", "live"} =>
             sub[k] \in {"replay", "live"} /\ queue'[k] = queue[k] /\ snapshot'[k] = snapshot[k]
      BY <2>8 DEF SendsNothing
    <3>3. ASSUME k \in Crushers, NEW e \in Events, Future(e), Src[e] = Target[Key(k)]
          PROVE  last_ts'[k] <= Time[e] /\ \A d \in snapshot'[k] : Time[d] <= Time[e]
      BY <3>1, <3>3 DEF Complete, Older
    <3>4. ASSUME k \in Crushers, sub'[k] \in {"replay", "live"}, NEW e \in db, Wanted(k, e)
          PROVE  \/ e \in snapshot'[k] \cup Range(out'[k])
                 \/ last_ts'[k] <= Time[e] /\ \A d \in snapshot'[k] : Time[d] <= Time[e]
      BY <3>1, <3>2, <3>4 DEF Complete, Younger
    <3>5. ASSUME k \in Crushers, sub'[k] \in {"replay", "live"}, channels[Key(k)] = k,
                 NEW e \in db, Wanted(k, e)
          PROVE  \/ e \in snapshot'[k] \cup Range(out'[k]) \cup Range(queue'[k])
                 \/ At(e, "stored") \/ At(e, "dead")
      BY <3>1, <3>2, <3>5 DEF Complete, Underway
    <3> QED BY <2>4, <3>3, <3>4, <3>5
  <2> QED BY <2>1, <2>5, <2>6, <2>7, <2>8
<1>5. CASE UNCHANGED vars
  <2>1. /\ UNCHANGED <<sub, snapshot, last_ts, out, queue, channels>> /\ UNCHANGED ingestVars
        /\ db' = db /\ fed' = fed
    BY <1>5 DEF vars, subVars, ingestVars
  <2>2. /\ \A e : Future(e)' <=> Future(e)
        /\ \A e : (At(e, "stored")' <=> At(e, "stored")) /\ (At(e, "dead")' <=> At(e, "dead"))
    BY <2>1, PendingSame
  <2> QED BY <2>1, <2>2 DEF Complete, Fed, Older, Younger, Underway, Wanted
<1> QED
  BY <1>2, <1>3, <1>4, <1>5 DEF Next, Ingest

\* A Crusher that has caught up, and whose key still leads to it, has been
\* sent every stored event it asked for, if the events of each source come on
\* one stream in the order of their times.
THEOREM CrusherIsSentAll ==
    ASSUME InOrder
    PROVE  Spec => []CrusherMissesNothing
<1>1. Init => Complete
  <2> SUFFICES ASSUME Init PROVE Complete
    OBVIOUS
  <2>1. /\ db = {}
        /\ \A k \in Subs : last_ts[k] = 0 /\ snapshot[k] = {} /\ sub[k] = "new"
    BY DEF Init
  <2>2. Older
    BY <2>1, CrusherAssumption, TimeAssumption DEF Older
  <2> QED BY <2>1, <2>2 DEF Complete, Fed, Younger, Underway
<1>2. Types /\ Channels /\ Seam /\ Complete /\ [Next]_vars => Complete'
  BY CompleteStep
<1>3. Seam /\ Complete => CrusherMissesNothing
  <2> SUFFICES ASSUME Seam, Complete, NEW k \in Crushers,
                      sub[k] = "live", queue[k] = <<>>, channels[KeysOf[k][1]] = k,
                      \A w \in Streams : stream[w] = "idle",
                      NEW e \in Stored(k), <<k, e>> \in Passes
               PROVE  e \in Range(out[k])
    BY DEF CrusherMissesNothing
  <2>1. e \in db /\ Wanted(k, e) /\ channels[Key(k)] = k
    BY DEF Stored, Wanted, Key
  <2>2. snapshot[k] = {} /\ Range(queue[k]) = {}
    BY CrusherAssumption, RangeEmpty DEF Seam, Replaying
  <2>3. ~At(e, "stored") /\ ~At(e, "dead")
    BY DEF At
  <2> QED BY <2>1, <2>2, <2>3 DEF Complete, Underway
<1> QED BY <1>1, <1>2, <1>3, SeamAlways, TypesAlways, PTL DEF Spec
=============================================================================
