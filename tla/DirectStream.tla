---------------------------- MODULE DirectStream ----------------------------
(***************************************************************************)
(* Real-time publishing of one kind of network event: `send_stream` and    *)
(* `send_direct_stream` of src/publish.rs, with the part of the ingest     *)
(* loop (`handle_data` of src/ingest.rs) that feeds them.                  *)
(*                                                                         *)
(* A subscriber first registers a channel under its request key, then, if  *)
(* it is a Crusher, is sent what the database holds, and only then what    *)
(* has piled up in the channel in the meantime and keeps coming.  An       *)
(* ingest stream appends each event to the database first and then hands   *)
(* it to the channels of all matching keys.  The seam between the replay   *)
(* and the channel is closed by one comparison with `last_ts`.             *)
(*                                                                         *)
(* A request key is the text "node\0id\0target\0kind" and is matched with  *)
(* `contains`: with node, id and kind out of the way, what remains of that *)
(* is whether one source name is a suffix of another, which SuffixOf says. *)
(***************************************************************************)
EXTENDS Sequences, Integers, FiniteSets, SequencesExt

CONSTANTS
    Names,      \* source names, All among them
    All,        \* the name "all", which stands for every source
    SuffixOf,   \* pairs <<a, b>>: the name a is a suffix of the name b
    Events,     \* the events that may come in
    Src, Time,  \* the source and the timestamp of an event
    Streams,    \* ingest streams
    Feed,       \* the events an agent sends on a stream, in order
    Subs,       \* subscriptions
    MaxSubs,    \* bound: how many of them take place
    Keys,       \* request keys
    KeysOf,     \* the keys of a subscription, in order; a Crusher has one
    Target,     \* the source a key asks for
    Crushers,   \* subscriptions of Crushers; the others are Hogs
    Start,      \* start_time of a Crusher's request
    Passes,     \* pairs <<k, e>>: e passes filter_ip of subscription k
    NoSub       \* absence of a subscription

ASSUME SrcAssumption == Src \in [Events -> Names \ {All}]
ASSUME TimeAssumption == Time \in [Events -> Nat \ {0}]
ASSUME FeedAssumption == Feed \in [Streams -> Seq(Events)]
ASSUME FeedOnceAssumption ==   \* an event is one occurrence, with its own place in a feed
    \A v, w \in Streams : \A i \in 1..Len(Feed[v]) : \A j \in 1..Len(Feed[w]) :
        Feed[v][i] = Feed[w][j] => v = w /\ i = j
ASSUME KeyAssumption ==
    /\ IsFiniteSet(Keys) /\ Target \in [Keys -> Names]
    /\ KeysOf \in [Subs -> Seq(Keys)] /\ \A k \in Subs : KeysOf[k] # <<>>
ASSUME CrusherAssumption ==
    Crushers \subseteq Subs /\ \A k \in Crushers : Len(KeysOf[k]) = 1
ASSUME NoSubAssumption == NoSub \notin Subs
ASSUME SuffixAssumption ==
    SuffixOf \subseteq Names \X Names /\ \A n \in Names : <<n, n>> \in SuffixOf

\* The events of a source come on one stream, in the order of their times.
InOrder ==
    \A v, w \in Streams : \A i \in 1..Len(Feed[v]) : \A j \in 1..Len(Feed[w]) :
        Src[Feed[v][i]] = Src[Feed[w][j]] =>
            v = w /\ (i <= j => Time[Feed[v][i]] <= Time[Feed[w][j]])

VARIABLES
    db,        \* events in the column family of this kind
    stream,    \* where each ingest stream stands
    fed,       \* how many events of its feed each stream has stored
    channels,  \* stream_direct_channel: key -> the subscription it reaches
    sub,       \* where send_stream, or the task it spawns, stands
    keyed,     \* how many of its keys it has inserted or still to remove
    queue,     \* contents of the subscription's unbounded channel
    snapshot,  \* what the replay's iterator has still to return
    last_ts,   \* timestamp of the event last replayed, or 0
    out,       \* what the subscriber has been sent
    broken     \* subscriptions whose QUIC stream no longer takes data

ingestVars == <<db, stream, fed>>
subVars == <<sub, keyed, queue, snapshot, last_ts, out>>
vars == <<ingestVars, channels, subVars, broken>>

SubPc == {"new", "start", "replay", "live", "leave", "ended", "failed"}

\* The channel's receiver exists until send_stream fails or its task ends.
Open(k) == sub[k] \notin {"failed", "ended"}

\* req_key.contains(source_key) || req_key.contains(all_key)
Reaches(q, source) ==
    <<source, Target[q]>> \in SuffixOf \/ <<All, Target[q]>> \in SuffixOf

Init ==
    /\ db = {}
    /\ stream = [w \in Streams |-> "idle"] /\ fed = [w \in Streams |-> 0]
    /\ channels = [q \in Keys |-> NoSub]
    /\ sub = [k \in Subs |-> "new"] /\ keyed = [k \in Subs |-> 0]
    /\ queue = [k \in Subs |-> <<>>] /\ snapshot = [k \in Subs |-> {}]
    /\ last_ts = [k \in Subs |-> 0] /\ out = [k \in Subs |-> <<>>]
    /\ broken = {}

-----------------------------------------------------------------------------
(* An ingest stream.                                                       *)

\* store.append: an event under the same key (source and timestamp) goes.
Store(w) ==
    /\ stream[w] = "idle" /\ fed[w] < Len(Feed[w])
    /\ LET e == Feed[w][fed[w] + 1]
       IN  db' = {d \in db : <<Src[d], Time[d]>> # <<Src[e], Time[e]>>} \cup {e}
    /\ fed' = [fed EXCEPT ![w] = @ + 1]
    /\ stream' = [stream EXCEPT ![w] = "stored"]
    /\ UNCHANGED <<channels, subVars, broken>>

\* The keys in the map that send_direct_stream finds to match an event.
Matching(e) == {q \in Keys : channels[q] # NoSub /\ Reaches(q, Src[e])}

\* One copy of the event for each of the keys qs, into the key's channel.
Deliver(e, qs) ==
    queue' = [k \in Subs |->
                queue[k] \o [i \in 1..Cardinality({q \in qs : channels[q] = k}) |-> e]]

\* send_direct_stream, all of it under the read lock of the map.
Direct(w) ==
    /\ stream[w] = "stored"
    /\ LET e == Feed[w][fed[w]]
       IN  /\ \A q \in Matching(e) : Open(channels[q])
           /\ Deliver(e, Matching(e))
    /\ stream' = [stream EXCEPT ![w] = "idle"]
    /\ UNCHANGED <<db, fed, channels, sub, keyed, snapshot, last_ts, out, broken>>

\* A channel whose receiver is gone fails the call and with it the ingest
\* stream; the map is visited in no particular order, so any of the others
\* may have had the event before.
DirectError(w) ==
    /\ stream[w] = "stored"
    /\ LET e == Feed[w][fed[w]]
       IN  /\ \E q \in Matching(e) : ~Open(channels[q])
           /\ \E qs \in SUBSET {q \in Matching(e) : Open(channels[q])} : Deliver(e, qs)
    /\ stream' = [stream EXCEPT ![w] = "dead"]
    /\ UNCHANGED <<db, fed, channels, sub, keyed, snapshot, last_ts, out, broken>>

-----------------------------------------------------------------------------
(* A subscription.                                                         *)

Step(k, from, to) == sub[k] = from /\ sub' = [sub EXCEPT ![k] = to]

\* The channel is inserted under the next of the keys, each time under a
\* write lock of its own; one that was there under the key is replaced.
\* MaxSubs bounds the subscriptions of one behaviour.
Register(k) ==
    /\ Cardinality({j \in Subs \ {k} : keyed[j] > 0 \/ sub[j] # "new"}) < MaxSubs
    /\ Step(k, "new", IF keyed[k] + 1 = Len(KeysOf[k]) THEN "start" ELSE "new")
    /\ keyed' = [keyed EXCEPT ![k] = @ + 1]
    /\ channels' = [channels EXCEPT ![KeysOf[k][keyed[k] + 1]] = k]
    /\ UNCHANGED <<ingestVars, queue, snapshot, last_ts, out, broken>>

\* What boundary_iter returns for the request, fixed when it is created.
Stored(k) ==
    {e \in db : Src[e] = Target[KeysOf[k][1]] /\ Time[e] >= Start[k]}

\* The start message goes out; a Crusher's iterator is created.
StartStream(k) ==
    /\ k \notin broken
    /\ Step(k, "start", IF k \in Crushers THEN "replay" ELSE "live")
    /\ snapshot' = [snapshot EXCEPT ![k] = IF k \in Crushers THEN Stored(k) ELSE {}]
    /\ UNCHANGED <<ingestVars, channels, keyed, queue, last_ts, out, broken>>

\* One event of the replay, oldest first.
Replay(k) ==
    /\ sub[k] = "replay"
    /\ \E e \in snapshot[k] :
          /\ \A d \in snapshot[k] : Time[e] <= Time[d]
          /\ snapshot' = [snapshot EXCEPT ![k] = @ \ {e}]
          /\ IF <<k, e>> \in Passes
             THEN /\ k \notin broken
                  /\ out' = [out EXCEPT ![k] = Append(@, e)]
                  /\ last_ts' = [last_ts EXCEPT ![k] = Time[e]]
             ELSE UNCHANGED <<out, last_ts>>
    /\ UNCHANGED <<ingestVars, channels, sub, keyed, queue, broken>>

ReplayDone(k) ==
    /\ Step(k, "replay", "live")
    /\ snapshot[k] = {}
    /\ UNCHANGED <<ingestVars, channels, keyed, queue, snapshot, last_ts, out, broken>>

\* send_stream fails before it has spawned the task, because the subscriber
\* is gone or a stored event cannot be read: its receiver is dropped, the
\* channel stays registered.
SubscribeError(k) ==
    /\ \/ k \in broken /\ Step(k, "start", "failed")
       \/ snapshot[k] # {} /\ Step(k, "replay", "failed")
    /\ queue' = [queue EXCEPT ![k] = <<>>]
    /\ UNCHANGED <<ingestVars, channels, keyed, snapshot, last_ts, out, broken>>

\* Mutant: an event of the same time as the last replayed one is skipped.
RelaySkipsEqual(k) ==
    /\ sub[k] = "live" /\ queue[k] # <<>>
    /\ LET e == Head(queue[k])
       IN  \/ last_ts[k] >= Time[e] /\ UNCHANGED out
           \/ /\ last_ts[k] < Time[e] /\ k \notin broken
              /\ out' = [out EXCEPT ![k] = Append(@, e)]
    /\ queue' = [queue EXCEPT ![k] = Tail(@)]
    /\ UNCHANGED <<ingestVars, channels, sub, keyed, snapshot, last_ts, broken>>

\* Mutant: everything in the channel is passed on.
RelayAll(k) ==
    /\ sub[k] = "live" /\ queue[k] # <<>> /\ k \notin broken
    /\ out' = [out EXCEPT ![k] = Append(@, Head(queue[k]))]
    /\ queue' = [queue EXCEPT ![k] = Tail(@)]
    /\ UNCHANGED <<ingestVars, channels, sub, keyed, snapshot, last_ts, broken>>

\* The spawned task takes an event from the channel and passes it on, unless
\* the replay went past it.
Relay(k) ==
    /\ sub[k] = "live" /\ queue[k] # <<>>
    /\ LET e == Head(queue[k])
       IN  \/ last_ts[k] > Time[e] /\ UNCHANGED out
           \/ /\ last_ts[k] <= Time[e] /\ k \notin broken
              /\ out' = [out EXCEPT ![k] = Append(@, e)]
    /\ queue' = [queue EXCEPT ![k] = Tail(@)]
    /\ UNCHANGED <<ingestVars, channels, sub, keyed, snapshot, last_ts, broken>>

\* Mutant: the task ends without removing its keys.
RelayErrorLeavesKey(k) ==
    /\ k \in broken /\ queue[k] # <<>>
    /\ last_ts[k] <= Time[Head(queue[k])]
    /\ Step(k, "live", "ended")
    /\ queue' = [queue EXCEPT ![k] = <<>>]
    /\ UNCHANGED <<ingestVars, channels, keyed, snapshot, last_ts, out, broken>>

\* Mutant: the task tries the same event again and again.
RelayErrorRetries(k) ==
    /\ k \in broken /\ queue[k] # <<>> /\ sub[k] = "live"
    /\ UNCHANGED vars

\* The event cannot be sent: the task is about to remove its keys.
RelayError(k) ==
    /\ k \in broken /\ queue[k] # <<>>
    /\ last_ts[k] <= Time[Head(queue[k])]
    /\ Step(k, "live", "leave")
    /\ queue' = [queue EXCEPT ![k] = Tail(@)]
    /\ UNCHANGED <<ingestVars, channels, keyed, snapshot, last_ts, out, broken>>

\* The keys are removed one by one, whoever's channel they lead to by now,
\* and only then is the receiver dropped.
Unregister(k) ==
    /\ Step(k, "leave", IF keyed[k] = 1 THEN "ended" ELSE "leave")
    /\ keyed' = [keyed EXCEPT ![k] = @ - 1]
    /\ channels' = [channels EXCEPT ![KeysOf[k][Len(KeysOf[k]) + 1 - keyed[k]]] = NoSub]
    /\ queue' = [queue EXCEPT ![k] = IF keyed[k] = 1 THEN <<>> ELSE @]
    /\ UNCHANGED <<ingestVars, snapshot, last_ts, out, broken>>

\* Mutant: the task keeps a sender of its own, so that the channel never closes.
ChannelKeptOpen(k) == FALSE

\* The last sender is gone, because other subscriptions took the keys over or
\* removed them.
ChannelClosed(k) ==
    /\ queue[k] = <<>> /\ \A q \in Keys : channels[q] # k
    /\ Step(k, "live", "ended")
    /\ UNCHANGED <<ingestVars, channels, keyed, queue, snapshot, last_ts, out, broken>>

Break(k) ==
    /\ k \notin broken /\ sub[k] # "new" /\ Open(k)
    /\ broken' = broken \cup {k}
    /\ UNCHANGED <<ingestVars, channels, subVars>>

-----------------------------------------------------------------------------
Ingest(w) == Store(w) \/ Direct(w) \/ DirectError(w)

Serve(k) ==
    \/ StartStream(k) \/ Replay(k) \/ ReplayDone(k) \/ SubscribeError(k)
    \/ Relay(k) \/ RelayError(k) \/ Unregister(k) \/ ChannelClosed(k)

Next ==
    \/ \E w \in Streams : Ingest(w)
    \/ \E k \in Subs : Register(k) \/ Serve(k) \/ Break(k)

Spec == Init /\ [][Next]_vars

\* Ingest streams and subscriptions that have begun are run while they can.
FairSpec ==
    /\ Spec
    /\ \A w \in Streams : WF_vars(Direct(w) \/ DirectError(w))
    /\ \A k \in Subs : WF_vars(Serve(k) \/ (keyed[k] > 0 /\ Register(k)))

-----------------------------------------------------------------------------
(* Properties.                                                             *)

\* Every variable keeps its type; last_ts, which starts at 0, is compared with
\* timestamps of stored events, which are positive.
TypeOK ==
    /\ db \subseteq Events
    /\ stream \in [Streams -> {"idle", "stored", "dead"}]
    /\ \A w \in Streams : fed[w] \in 0..Len(Feed[w])
    /\ channels \in [Keys -> Subs \cup {NoSub}]
    /\ sub \in [Subs -> SubPc]
    /\ \A k \in Subs : keyed[k] \in 0..Len(KeysOf[k])
    /\ queue \in [Subs -> Seq(Events)] /\ out \in [Subs -> Seq(Events)]
    /\ snapshot \in [Subs -> SUBSET Events]
    /\ last_ts \in [Subs -> Nat]
    /\ broken \subseteq Subs

\* A Crusher that has caught up has been sent every event in the database
\* that it asked for: none falls between the replay and the channel.  It
\* takes that the source's events come in the order of their timestamps, as
\* in the feeds of the instance; last_ts drops late ones.
CrusherMissesNothing ==
    \A k \in Crushers :
        /\ sub[k] = "live" /\ queue[k] = <<>> /\ channels[KeysOf[k][1]] = k
        /\ \A w \in Streams : stream[w] = "idle"
        => \A e \in Stored(k) : <<k, e>> \in Passes => e \in Range(out[k])

\* A Crusher is sent an event twice only at the seam: once by the replay as
\* its last event and once more through the channel.
TwiceOnlyAtSeam ==
    \A k \in Crushers : \A i, j \in 1..Len(out[k]) :
        i < j /\ out[k][i] = out[k][j] => Time[out[k][i]] = last_ts[k]

\* A subscriber that goes away while it is served in real time never takes an
\* ingest stream with it: the task removes its keys before it drops the
\* receiver.  Only a subscription that fails before that point can.
OnlyFailedSetupKillsIngest ==
    (\E w \in Streams : stream[w] = "dead") => (\E k \in Subs : sub[k] = "failed")

\* No key leads to a subscription that is being served any more: others took
\* its keys over or removed them.
Overridden(k) == sub[k] = "live" /\ \A q \in Keys : channels[q] # k

\* What reaches a subscriber's channel is passed on or found to be replayed
\* already, unless the subscriber goes away; and a subscription whose keys are
\* lost to others is not left waiting in silence, its task comes to its end.
CatchesUpOrEnds ==
    \A k \in Subs : (queue[k] # <<>> \/ Overridden(k))
                       ~> ((queue[k] = <<>> /\ ~Overridden(k)) \/ ~Open(k))
=============================================================================
