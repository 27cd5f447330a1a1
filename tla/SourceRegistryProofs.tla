------------------------ MODULE SourceRegistryProofs ------------------------
(***************************************************************************)
(* Proofs about SourceRegistry, for any number of connections and sources  *)
(* and every capacity of the channel.                                      *)
(*                                                                         *)
(* What a map says of a source lags behind by what is in the channel and   *)
(* in the worker's hands.  The inductive invariants follow the last word   *)
(* about a source on its way: once no handler serves the source any more,  *)
(* it is a Disconnected, and while one serves it, a Connected.             *)
(***************************************************************************)
EXTENDS SourceRegistry, TLAPS

\* What the handlers of a source that registers itself send.
Up(s) == [source |-> s, state |-> "Connected", rep |-> FALSE]
Down(s) == [source |-> s, state |-> "Disconnected", rep |-> FALSE]

\* One message is in the channel and the other does not follow it.
LastWord(word, other) ==
    \E i \in 1..Len(channel) :
        channel[i] = word /\ \A j \in 1..Len(channel) : i < j => channel[j] # other

Absent(word) == \A i \in 1..Len(channel) : channel[i] # word

\* What the worker has in hand.
WorkerInv ==
    /\ worker # "idle" => msg \in SourceInfo /\ ~msg.rep
    /\ worker = "packets" => msg.state = "Disconnected"

\* A reproduce agent has no entry in packet_sources.
HandlerInv == \A c \in Reproduce : handler[c] # "packet"

\* No handler of the source is between its greeting and its end, and none
\* ended without a word.
Gone(s) == \A c \in Of(s) : handler[c] \in {"idle", "handshake", "closed"}

\* The end of a source is on its way to the maps, or has reached them.
Forgetting(s) ==
    \/ LastWord(Down(s), Up(s))
    \/ /\ Absent(Up(s))
       /\ \/ worker = "sources" /\ msg = Down(s)
          \/ worker = "packets" /\ msg = Down(s) /\ s \notin sources
          \/ /\ s \notin sources /\ packet_sources[s] = NoConn
             /\ ~(worker = "sources" /\ msg = Up(s))

GoneInv == \A s \in Sources : Gone(s) => Forgetting(s)

\* Connections of a source that exist at a time make it overlapped.
OverlapInv ==
    \A c \in Conns \ Reproduce : \A d \in Conns \ Reproduce :
        /\ c # d /\ SourceOf[c] = SourceOf[d]
        /\ handler[c] \in Registering /\ handler[d] \in Registering
        => SourceOf[c] \in overlapped

\* The arrival of a source is on its way to the list, or has reached it.
Listing(s) ==
    \/ LastWord(Up(s), Down(s))
    \/ /\ Absent(Down(s))
       /\ \/ worker = "sources" /\ msg = Up(s)
          \/ s \in sources /\ ~(worker = "sources" /\ msg = Down(s))

ServedInv ==
    \A c \in Conns \ Reproduce :
        handler[c] = "serving" /\ SourceOf[c] \notin overlapped
            => Listing(SourceOf[c])

\* Some peer task is still to read the list after the last change.
WakeUpDue ==
    \/ notify_source \/ worker \in {"packets", "notify"}
    \/ \E p \in Peers : peer[p] = "woken"

\* Otherwise the task that read last holds the present list, or it has sent
\* it, and then only one that read before can have sent another since.
AnnounceInv ==
    ~WakeUpDue =>
       IF newest \in Peers /\ peer[newest] = "send"
       THEN source_list[newest] = sources
       ELSE announced = sources \/ overtaken

-----------------------------------------------------------------------------
\* Steps that concern neither handlers, channel, worker nor maps: agents and
\* peers, pcap requests, the beginning of a shutdown.
Aside ==
    \/ \E c \in Conns : AgentLeaves(c)
    \/ (\E p \in Peers : Announce(p)) \/ (\E s \in Sources : PcapRequest(s)) \/ PcapAnswer
    \/ Shutdown \/ EndpointClose

\* The state that the invariants about handlers and worker are about.
registry == <<handler, overlapped, channel, worker, msg, sources, packet_sources>>

\* Such steps, and stuttering ones, leave that state alone.
LEMMA AsideKeepsRegistry == Aside \/ UNCHANGED vars => UNCHANGED registry
BY DEF Aside, AgentLeaves, Announce, Wake, ReadList, Broadcast, PcapRequest, PcapAnswer,
       Shutdown, EndpointClose, asideOfPeers, vars, registry, connVars, workerVars, peerVars

\* The steps there are, one name for each.
LEMMA NextCases ==
    ASSUME [Next]_vars
    PROVE  \/ \E c \in Conns : \/ Accept(c) \/ Refuse(c) \/ Greet(c)
                               \/ InsertPacketSource(c) \/ SendConnected(c)
                               \/ AcceptError(c) \/ SendDisconnected(c) \/ StopServing(c)
           \/ WorkerTake \/ WorkerSources \/ WorkerPackets \/ WorkerNotify
           \/ Aside \/ UNCHANGED vars
BY DEF Next, Handle, Worker, Aside

\* A message of a handler is well formed.
LEMMA InfoType == \A c \in Conns, s \in ConnState : Info(c, s) \in SourceInfo
BY SourceOfAssumption DEF Info, SourceInfo

\* Taking a message: the worker's is the first, the others move up by one.
LEMMA TakeFacts ==
    ASSUME TypeOK, WorkerTake
    PROVE  /\ msg' = channel[1] /\ msg' \in SourceInfo /\ Len(channel) > 0
           /\ Len(channel') = Len(channel) - 1 /\ channel' \in Seq(SourceInfo)
           /\ \A i \in 1..Len(channel') : channel'[i] = channel[i + 1]
           /\ worker' = IF msg'.rep THEN "idle" ELSE "sources"
BY DEF TypeOK, WorkerTake

\* Sending a message: it is the last one, the others stay.
LEMMA SendFacts ==
    ASSUME TypeOK, NEW c \in Conns, NEW s \in ConnState, SendInfo(c, s)
    PROVE  /\ Len(channel') = Len(channel) + 1 /\ channel' \in Seq(SourceInfo)
           /\ Len(channel') <= Capacity
           /\ channel'[Len(channel')] = Info(c, s)
           /\ \A i \in 1..Len(channel) : channel'[i] = channel[i]
BY InfoType, CapacityAssumption DEF TypeOK, SendInfo

TypeInv == TypeOK /\ WorkerInv /\ HandlerInv

\* Types and what the worker has in hand are kept by every step.
LEMMA TypeInvInvariant == Spec => []TypeInv
<1> USE DEF TypeInv, TypeOK, WorkerInv, HandlerInv, connVars, workerVars, peerVars, HandlerPc,
            Registering, WorkerPc
<1>1. Init => TypeInv
  <2> SUFFICES ASSUME Init PROVE TypeInv
    OBVIOUS
  <2>1. channel \in Seq(SourceInfo) /\ Len(channel) <= Capacity
    BY CapacityAssumption DEF Init
  <2>2. msg \in {NoInfo} /\ worker = "idle"
    BY DEF Init
  <2> QED BY <2>1, <2>2, ReproduceAssumption DEF Init, PeerPc
<1>2. TypeInv /\ [Next]_vars => TypeInv'
  <2> SUFFICES ASSUME TypeInv, [Next]_vars PROVE TypeInv'
    OBVIOUS
  <2> USE SourceOfAssumption, CapacityAssumption, ReproduceAssumption
  <2>1. ASSUME NEW c \in Conns,
               Accept(c) \/ Refuse(c) \/ AcceptError(c) \/ StopServing(c)
        PROVE TypeInv'
    BY <2>1 DEF Accept, Refuse, AcceptError, StopServing, Step
  <2>2. ASSUME NEW c \in Conns, Greet(c) PROVE TypeInv'
    BY <2>2 DEF Greet, Step
  <2>3. ASSUME NEW c \in Conns, InsertPacketSource(c) PROVE TypeInv'
    BY <2>3 DEF InsertPacketSource, Step
  <2>4. ASSUME NEW c \in Conns, SendConnected(c) PROVE TypeInv'
    BY <2>4, SendFacts DEF SendConnected, SendInfo, Step, ConnState
  <2>5. ASSUME NEW c \in Conns, SendDisconnected(c) PROVE TypeInv'
    BY <2>5, SendFacts DEF SendDisconnected, SendInfo, Step, ConnState
  <2>6. CASE WorkerTake
    <3>1. Head(channel) \in SourceInfo
      BY <2>6 DEF WorkerTake
    <3>2. Head(channel).source \in Sources
      BY <3>1 DEF SourceInfo
    <3>3. Len(channel') <= Capacity
      BY <2>6, TakeFacts
    <3> QED BY <2>6, <3>1, <3>2, <3>3, TakeFacts DEF WorkerTake
  <2>7. CASE WorkerSources
    <3>1. msg.source \in Sources
      BY <2>7 DEF WorkerSources, SourceInfo
    <3> QED BY <2>7, <3>1 DEF WorkerSources
  <2>8. CASE WorkerPackets \/ WorkerNotify
    BY <2>8 DEF WorkerPackets, WorkerNotify
  <2>9. CASE Aside
    <3>1. ASSUME NEW p \in Peers, Announce(p) PROVE TypeInv'
      BY <3>1 DEF Announce, Wake, ReadList, Broadcast, asideOfPeers, PeerPc
    <3> QED
      BY <2>9, <3>1 DEF Aside, AgentLeaves, PcapRequest, PcapAnswer, Shutdown, EndpointClose
  <2>10. CASE UNCHANGED vars
    BY <2>10 DEF vars
  <2> QED
    BY <2>1, <2>2, <2>3, <2>4, <2>5, <2>6, <2>7, <2>8, <2>9, <2>10, NextCases
<1> QED BY <1>1, <1>2, PTL DEF Spec

\* Type correctness, and with it the bound on the channel: each send of a
\* handler waits for room.
THEOREM TypeCorrect == Spec => []TypeOK
BY TypeInvInvariant, PTL DEF TypeInv
-----------------------------------------------------------------------------
(* The peers.                                                              *)

\* Any number of peer tasks wait for the same Notify, read the list and send it
\* in steps of their own.  notify_one comes after the change of the list and
\* keeps a permit while they are busy: when all is quiet the list broadcast
\* last is the present one, unless one that was read before it was sent after
\* it.
THEOREM BroadcastIsCurrent == Spec => []PeersAreCurrent
<1>1. Init => AnnounceInv
  BY DEF Init, AnnounceInv
<1>2. TypeInv /\ AnnounceInv /\ [Next]_vars => AnnounceInv'
  <2> SUFFICES ASSUME TypeInv, AnnounceInv, [Next]_vars PROVE AnnounceInv'
    OBVIOUS
  <2> USE DEF connVars, workerVars, peerVars
  <2>0. /\ peer \in [Peers -> PeerPc] /\ source_list \in [Peers -> SUBSET Sources]
        /\ NoPeer \notin Peers
    BY NoPeerAssumption DEF TypeInv, TypeOK
  <2>1. ASSUME UNCHANGED <<worker, sources, peerVars>> PROVE AnnounceInv'
    BY <2>1 DEF AnnounceInv, WakeUpDue
  <2>2. ASSUME NEW c \in Conns,
               \/ Accept(c) \/ Refuse(c) \/ Greet(c) \/ InsertPacketSource(c)
               \/ SendConnected(c) \/ AcceptError(c) \/ SendDisconnected(c)
               \/ StopServing(c)
        PROVE AnnounceInv'
    BY <2>1, <2>2 DEF Accept, Refuse, Greet, InsertPacketSource, SendConnected,
                SendDisconnected, SendInfo, AcceptError, StopServing
  <2>3. CASE WorkerTake
    BY <2>3 DEF WorkerTake, AnnounceInv, WakeUpDue
  \* The worker changes the list before it sets the permit.
  <2>4. CASE WorkerSources \/ WorkerPackets \/ WorkerNotify
    BY <2>4 DEF WorkerSources, WorkerPackets, WorkerNotify, AnnounceInv, WakeUpDue
  <2>5. ASSUME NEW p \in Peers, Wake(p) PROVE AnnounceInv'
    <3>1. peer'[p] = "woken"
      BY <2>0, <2>5 DEF Wake
    <3> QED BY <3>1 DEF AnnounceInv, WakeUpDue
  <2>6. ASSUME NEW p \in Peers, ReadList(p) PROVE AnnounceInv'
    <3>1. peer'[p] = "send" /\ source_list'[p] = sources' /\ newest' = p
      BY <2>0, <2>6 DEF ReadList, asideOfPeers
    <3> QED BY <3>1 DEF AnnounceInv
  <2>7. ASSUME NEW p \in Peers, Broadcast(p) PROVE AnnounceInv'
    <3>1. /\ peer[p] = "send" /\ peer' = [peer EXCEPT ![p] = "wait"]
          /\ announced' = source_list[p] /\ overtaken' = (p # newest)
          /\ source_list' = [source_list EXCEPT ![p] = {}]
          /\ UNCHANGED <<notify_source, newest, worker, sources>>
      BY <2>7 DEF Broadcast, asideOfPeers
    <3>2. WakeUpDue' <=> WakeUpDue
      BY <2>0, <3>1 DEF WakeUpDue
    <3>3. CASE p = newest
      BY <2>0, <3>1, <3>2, <3>3 DEF AnnounceInv
    <3>4. CASE p # newest
      BY <2>0, <3>1, <3>2, <3>4 DEF AnnounceInv
    <3> QED BY <3>3, <3>4
  <2>8. CASE Aside
    <3>1. CASE \E p \in Peers : Announce(p)
      BY <2>5, <2>6, <2>7, <3>1 DEF Announce
    <3>2. CASE ~\E p \in Peers : Announce(p)
      BY <2>1, <2>8, <3>2 DEF Aside, AgentLeaves, PcapRequest, PcapAnswer, Shutdown, EndpointClose
    <3> QED BY <3>1, <3>2
  <2>9. CASE UNCHANGED vars
    BY <2>1, <2>9 DEF vars
  <2> QED BY <2>2, <2>3, <2>4, <2>8, <2>9, NextCases
<1>3. AnnounceInv => PeersAreCurrent
  BY DEF AnnounceInv, PeersAreCurrent, WakeUpDue
<1> QED BY <1>1, <1>2, <1>3, TypeInvInvariant, PTL DEF Spec

-----------------------------------------------------------------------------
(* Words on their way.                                                     *)

\* A word that was the last stays so when another message is sent, unless it
\* is the opposite one; the opposite one stays absent likewise.
LEMMA SendKeepsWords ==
    ASSUME TypeOK, NEW c \in Conns, NEW t \in ConnState, SendInfo(c, t),
           NEW word, NEW other, Info(c, t) # other
    PROVE  /\ LastWord(word, other) => LastWord(word, other)'
           /\ Absent(other) => Absent(other)'
<1>1. /\ Len(channel) \in Nat /\ Len(channel') = Len(channel) + 1
      /\ \A i \in 1..Len(channel) : channel'[i] = channel[i]
      /\ channel'[Len(channel) + 1] = Info(c, t)
  BY SendFacts DEF TypeOK
<1>2. \A i \in 1..Len(channel') : i \in 1..Len(channel) \/ i = Len(channel) + 1
  BY <1>1
<1>3. \A i \in 1..Len(channel) : i \in 1..Len(channel')
  BY <1>1
<1> QED BY <1>1, <1>2, <1>3 DEF LastWord, Absent

\* The message sent is the last word.
LEMMA SentIsLastWord ==
    ASSUME TypeOK, NEW c \in Conns, NEW t \in ConnState, SendInfo(c, t), NEW other
    PROVE  LastWord(Info(c, t), other)'
<1>1. /\ Len(channel') \in Nat \ {0} /\ channel'[Len(channel')] = Info(c, t)
  BY SendFacts DEF TypeOK
<1>2. Len(channel') \in 1..Len(channel') /\ \A j \in 1..Len(channel') : ~(Len(channel') < j)
  BY <1>1
<1> QED BY <1>1, <1>2 DEF LastWord

\* The last word stays in the channel, or it is the one that was taken and
\* the opposite one is not there any more.
LEMMA TakeKeepsWords ==
    ASSUME TypeOK, WorkerTake, NEW word, NEW other
    PROVE  /\ LastWord(word, other) =>
                  LastWord(word, other)' \/ (msg' = word /\ Absent(other)')
           /\ Absent(other) => Absent(other)' /\ msg' # other
<1>1. /\ Len(channel) \in Nat \ {0} /\ Len(channel') = Len(channel) - 1
      /\ \A i \in 1..Len(channel') : channel'[i] = channel[i + 1]
      /\ msg' = channel[1]
  BY TakeFacts DEF TypeOK
<1>2. \A i \in 1..Len(channel') : i + 1 \in 1..Len(channel) /\ 1 < i + 1
  BY <1>1
<1>3. \A i \in 1..Len(channel) : i # 1 => i - 1 \in 1..Len(channel') /\ channel'[i - 1] = channel[i]
  BY <1>1
<1>4. Absent(other) => Absent(other)' /\ msg' # other
  BY <1>1, <1>2 DEF Absent
<1>5. ASSUME LastWord(word, other)
      PROVE  LastWord(word, other)' \/ (msg' = word /\ Absent(other)')
  <2>1. PICK i \in 1..Len(channel) :
            channel[i] = word /\ \A j \in 1..Len(channel) : i < j => channel[j] # other
    BY <1>5 DEF LastWord
  <2>2. CASE i = 1
    BY <1>1, <1>2, <2>1, <2>2 DEF Absent
  <2>3. CASE i # 1
    <3>1. \A j \in 1..Len(channel') : i - 1 < j => channel'[j] # other
      BY <1>1, <1>2, <2>1
    <3> QED BY <1>3, <2>1, <2>3, <3>1 DEF LastWord
  <2> QED BY <2>2, <2>3
<1> QED BY <1>4, <1>5

\* The words of a source, field by field.
LEMMA WordFields ==
    ASSUME NEW s
    PROVE  /\ Up(s).source = s /\ Up(s).state = "Connected" /\ Up(s).rep = FALSE
           /\ Down(s).source = s /\ Down(s).state = "Disconnected" /\ Down(s).rep = FALSE
           /\ Up(s) # Down(s)
BY DEF Up, Down

\* A message that is not of a reproduce agent is a word of its source.
LEMMA MessageIsWord ==
    ASSUME NEW m \in SourceInfo, ~m.rep
    PROVE  /\ m.state = "Connected" => m = Up(m.source)
           /\ m.state = "Disconnected" => m = Down(m.source)
<1>1. m = [source |-> m.source, state |-> m.state, rep |-> m.rep]
  BY DEF SourceInfo
<1>2. m.rep \in BOOLEAN
  BY DEF SourceInfo
<1>3. m.rep = FALSE
  BY <1>2
<1> QED BY <1>1, <1>3 DEF Up, Down

\* A handler's message is the word of a source only if it is that source's
\* own and not of a reproduce agent.
LEMMA SentWord ==
    ASSUME NEW c \in Conns, NEW s \in Sources
    PROVE  /\ Info(c, "Connected") # Down(s) /\ Info(c, "Disconnected") # Up(s)
           /\ c \notin Of(s) => Info(c, "Connected") # Up(s)
           /\ c \notin Of(s) => Info(c, "Disconnected") # Down(s)
           /\ c \in Of(s) => Info(c, "Connected") = Up(s)
           /\ c \in Of(s) => Info(c, "Disconnected") = Down(s)
<1>1. \A t : Info(c, t).source = SourceOf[c] /\ Info(c, t).state = t
  BY DEF Info
<1>2. Info(c, "Connected") # Down(s) /\ Info(c, "Disconnected") # Up(s)
  BY <1>1, WordFields
<1>3. ASSUME c \notin Of(s), NEW t, Info(c, t) = Up(s) \/ Info(c, t) = Down(s) PROVE FALSE
  <2>1. SourceOf[c] = s
    <3>1. Up(s).source = s /\ Down(s).source = s
      BY WordFields
    <3> QED BY <1>1, <1>3, <3>1
  <2>2. Info(c, t).rep = FALSE
    BY <1>3, WordFields
  <2>3. c \notin Reproduce
    BY <2>2 DEF Info
  <2> QED BY <1>3, <2>1, <2>3 DEF Of
<1>4. ASSUME c \in Of(s)
      PROVE  Info(c, "Connected") = Up(s) /\ Info(c, "Disconnected") = Down(s)
  <2>1. SourceOf[c] = s /\ (c \in Reproduce) = FALSE
    BY <1>4 DEF Of
  <2> QED BY <2>1 DEF Info, Up, Down
<1> QED BY <1>2, <1>3, <1>4
-----------------------------------------------------------------------------
(* Sources that are gone.                                                  *)

\* What is known of a source that is gone is on its way out, whatever the
\* step: handlers of the source that end leave a Disconnected behind, and no
\* other handler speaks for it.
LEMMA GoneStep == TypeInv /\ GoneInv /\ [Next]_vars => GoneInv'
<1> SUFFICES ASSUME TypeInv, GoneInv, [Next]_vars, NEW s \in Sources, Gone(s)'
             PROVE  Forgetting(s)'
  BY DEF GoneInv
<1> DEFINE words == <<channel, worker, msg, sources, packet_sources>>
<1>0. handler \in [Conns -> HandlerPc] /\ Of(s) \subseteq Conns /\ TypeOK
  BY DEF TypeInv, TypeOK, Of
<1>1. ASSUME Gone(s), UNCHANGED words PROVE Forgetting(s)'
  BY <1>1 DEF GoneInv, Forgetting, LastWord, Absent
<1>2. ASSUME NEW c \in Conns,
             Accept(c) \/ Refuse(c) \/ Greet(c) \/ AcceptError(c) \/ StopServing(c)
      PROVE Forgetting(s)'
  <2>1. Gone(s)
    BY <1>0, <1>2 DEF Gone, Accept, Refuse, Greet, AcceptError, StopServing, Step
  <2>2. UNCHANGED words
    BY <1>2 DEF Accept, Refuse, Greet, AcceptError, StopServing, workerVars
  <2> QED BY <1>1, <2>1, <2>2
<1>3. ASSUME NEW c \in Conns, InsertPacketSource(c) PROVE Forgetting(s)'
  <2>1. Gone(s)
    BY <1>0, <1>3 DEF Gone, InsertPacketSource, Step
  <2>2. c \notin Reproduce
    BY <1>3 DEF InsertPacketSource, Step, TypeInv, HandlerInv
  <2>3. SourceOf[c] # s
    BY <1>0, <1>3, <2>2 DEF Gone, InsertPacketSource, Step, Of
  <2>4. /\ packet_sources'[s] = packet_sources[s]
        /\ UNCHANGED <<channel, worker, msg, sources>>
    BY <1>0, <1>3, <2>3 DEF InsertPacketSource, TypeOK, workerVars
  <2> QED BY <2>1, <2>4 DEF GoneInv, Forgetting, LastWord, Absent
<1>4. ASSUME NEW c \in Conns, SendConnected(c) PROVE Forgetting(s)'
  <2>1. Gone(s) /\ c \notin Of(s)
    BY <1>0, <1>4 DEF Gone, SendConnected, Step
  <2>2. SendInfo(c, "Connected") /\ "Connected" \in ConnState
    BY <1>4 DEF SendConnected, ConnState
  <2>3. Info(c, "Connected") # Up(s)
    BY <2>1, SentWord
  <2>4. /\ LastWord(Down(s), Up(s)) => LastWord(Down(s), Up(s))'
        /\ Absent(Up(s)) => Absent(Up(s))'
    BY <1>0, <2>2, <2>3, SendKeepsWords
  <2>5. UNCHANGED <<worker, msg, sources, packet_sources>>
    BY <2>2 DEF SendInfo, workerVars
  <2> QED BY <2>1, <2>4, <2>5 DEF GoneInv, Forgetting
<1>5. ASSUME NEW c \in Conns, SendDisconnected(c) PROVE Forgetting(s)'
  <2>1. SendInfo(c, "Disconnected") /\ "Disconnected" \in ConnState
    BY <1>5 DEF SendDisconnected, ConnState
  <2>2. CASE c \in Of(s)
    <3>1. Info(c, "Disconnected") = Down(s)
      BY <2>2, SentWord
    <3> QED BY <1>0, <2>1, <3>1, SentIsLastWord DEF Forgetting
  <2>3. CASE c \notin Of(s)
    <3>1. Gone(s)
      BY <1>0, <1>5, <2>3 DEF Gone, SendDisconnected, Step
    <3>2. Info(c, "Disconnected") # Up(s)
      BY SentWord
    <3>3. /\ LastWord(Down(s), Up(s)) => LastWord(Down(s), Up(s))'
          /\ Absent(Up(s)) => Absent(Up(s))'
      BY <1>0, <2>1, <3>2, SendKeepsWords
    <3>4. UNCHANGED <<worker, msg, sources, packet_sources>>
      BY <2>1 DEF SendInfo, workerVars
    <3> QED BY <3>1, <3>3, <3>4 DEF GoneInv, Forgetting
  <2> QED BY <2>2, <2>3
<1>6. CASE WorkerTake
  <2>1. Forgetting(s)
    BY <1>6 DEF WorkerTake, connVars, Gone, GoneInv
  <2>2. worker = "idle" /\ UNCHANGED <<sources, packet_sources>>
    BY <1>6 DEF WorkerTake
  <2>3. worker' = IF msg'.rep THEN "idle" ELSE "sources"
    BY <1>0, <1>6, TakeFacts
  <2>4. CASE LastWord(Down(s), Up(s))
    <3>1. LastWord(Down(s), Up(s))' \/ (msg' = Down(s) /\ Absent(Up(s))')
      BY <1>0, <1>6, <2>4, TakeKeepsWords
    <3>2. msg' = Down(s) => worker' = "sources"
      BY <2>3, WordFields
    <3> QED BY <3>1, <3>2 DEF Forgetting
  <2>5. CASE ~LastWord(Down(s), Up(s))
    <3>1. Absent(Up(s)) /\ s \notin sources /\ packet_sources[s] = NoConn
      BY <2>1, <2>2, <2>5 DEF Forgetting
    <3>2. Absent(Up(s))' /\ msg' # Up(s)
      BY <1>0, <1>6, <3>1, TakeKeepsWords
    <3> QED BY <2>2, <3>1, <3>2 DEF Forgetting
  <2> QED BY <2>4, <2>5
<1>7. CASE WorkerSources
  <2>1. Forgetting(s)
    BY <1>7 DEF WorkerSources, connVars, Gone, GoneInv
  <2>2. worker = "sources" /\ UNCHANGED <<channel, msg, packet_sources>>
    BY <1>7 DEF WorkerSources
  <2>3. (LastWord(Down(s), Up(s)))' = LastWord(Down(s), Up(s)) /\ Absent(Up(s))' = Absent(Up(s))
    BY <2>2 DEF LastWord, Absent
  <2>4. msg \in SourceInfo /\ ~msg.rep /\ worker' # "sources"
    BY <1>7 DEF WorkerSources, TypeInv, WorkerInv
  <2>5. CASE msg = Down(s)
    <3>1. worker' = "packets" /\ s \notin sources'
      BY <1>7, <2>5, WordFields DEF WorkerSources
    <3> QED BY <2>1, <2>2, <2>3, <2>5, <3>1, WordFields DEF Forgetting
  <2>6. CASE msg # Down(s) /\ msg # Up(s)
    <3>1. msg.source # s
      BY <1>7, <2>4, <2>6, MessageIsWord DEF WorkerSources
    <3>2. s \in sources' <=> s \in sources
      BY <1>7, <3>1 DEF WorkerSources
    <3> QED BY <2>1, <2>2, <2>3, <2>4, <2>6, <3>2 DEF Forgetting
  <2>7. CASE msg = Up(s)
    BY <2>1, <2>2, <2>3, <2>7, WordFields DEF Forgetting
  <2> QED BY <2>5, <2>6, <2>7
<1>8. CASE WorkerPackets
  <2>1. Forgetting(s)
    BY <1>8 DEF WorkerPackets, connVars, Gone, GoneInv
  <2>2. /\ worker = "packets" /\ worker' = "notify" /\ UNCHANGED <<channel, msg, sources>>
        /\ packet_sources' = [packet_sources EXCEPT ![msg.source] = NoConn]
    BY <1>8 DEF WorkerPackets
  <2>3. (LastWord(Down(s), Up(s)))' = LastWord(Down(s), Up(s)) /\ Absent(Up(s))' = Absent(Up(s))
    BY <2>2 DEF LastWord, Absent
  <2>4. msg = Down(s) => packet_sources'[s] = NoConn
    BY <1>0, <2>2, WordFields DEF TypeOK
  <2>5. packet_sources[s] = NoConn => packet_sources'[s] = NoConn
    BY <1>0, <2>2 DEF TypeOK
  <2> QED BY <2>1, <2>2, <2>3, <2>4, <2>5 DEF Forgetting
<1>9. CASE WorkerNotify
  <2>1. Forgetting(s)
    BY <1>9 DEF WorkerNotify, connVars, Gone, GoneInv
  <2>2. /\ worker = "notify" /\ worker' = "idle"
        /\ UNCHANGED <<channel, msg, sources, packet_sources>>
    BY <1>9 DEF WorkerNotify
  <2> QED BY <2>1, <2>2 DEF Forgetting, LastWord, Absent
<1>10. CASE Aside \/ UNCHANGED vars
  BY <1>1, <1>10, AsideKeepsRegistry DEF registry, Gone
<1> QED
  BY <1>2, <1>3, <1>4, <1>5, <1>6, <1>7, <1>8, <1>9, <1>10, NextCases

\* Once the worker has caught up, a source all of whose handlers have ended
\* in order is in neither map, however its connections came and went.
THEOREM GoneSourcesAreForgotten == Spec => []GoneIsForgotten
<1>1. Init => GoneInv
  <2> SUFFICES ASSUME Init, NEW s \in Sources PROVE Forgetting(s)
    BY DEF GoneInv
  <2>1. Absent(Up(s))
    BY DEF Init, Absent
  <2> QED BY <2>1 DEF Init, Forgetting
<1>2. GoneInv => GoneIsForgotten
  <2> SUFFICES ASSUME GoneInv, NEW s \in Sources, Quiet, Gone(s)
               PROVE  s \notin sources /\ packet_sources[s] = NoConn
    BY DEF GoneIsForgotten, Gone
  <2>1. Forgetting(s) /\ worker = "idle" /\ 1..Len(channel) = {}
    BY DEF GoneInv, Quiet
  <2> QED BY <2>1 DEF Forgetting, LastWord
<1> QED BY <1>1, <1>2, GoneStep, TypeInvInvariant, PTL DEF Spec
-----------------------------------------------------------------------------
(* Sources that are served.                                                *)

\* Only a greeting makes a handler one that registers a source, and it counts
\* the others of that source.
LEMMA OverlapStep == TypeInv /\ OverlapInv /\ [Next]_vars => OverlapInv'
<1> SUFFICES ASSUME TypeInv, OverlapInv, [Next]_vars,
                    NEW c \in Conns \ Reproduce, NEW d \in Conns \ Reproduce,
                    c # d, SourceOf[c] = SourceOf[d],
                    handler'[c] \in Registering, handler'[d] \in Registering
             PROVE  SourceOf[c] \in overlapped'
  BY DEF OverlapInv
<1>0. handler \in [Conns -> HandlerPc]
  BY DEF TypeInv, TypeOK
<1>1. ASSUME overlapped \subseteq overlapped',
             handler[c] \in Registering, handler[d] \in Registering
      PROVE  SourceOf[c] \in overlapped'
  BY <1>1 DEF OverlapInv
<1>2. ASSUME NEW b \in Conns, Greet(b) PROVE SourceOf[c] \in overlapped'
  <2>1. \A a \in Conns : a # b => handler'[a] = handler[a]
    BY <1>0, <1>2 DEF Greet, Step
  <2>2. CASE b \notin {c, d}
    BY <1>1, <1>2, <2>1, <2>2 DEF Greet
  <2>3. CASE b = c
    <3>1. d \in Siblings(c)
      BY <2>1, <2>3 DEF Siblings
    <3> QED BY <1>2, <2>3, <3>1 DEF Greet
  <2>4. CASE b = d
    <3>1. c \in Siblings(d)
      BY <2>1, <2>4 DEF Siblings
    <3> QED BY <1>2, <2>4, <3>1 DEF Greet
  <2> QED BY <2>2, <2>3, <2>4
<1>3. ASSUME NEW b \in Conns,
             \/ Accept(b) \/ Refuse(b) \/ InsertPacketSource(b) \/ SendConnected(b)
             \/ AcceptError(b) \/ SendDisconnected(b) \/ StopServing(b)
      PROVE SourceOf[c] \in overlapped'
  <2>1. UNCHANGED overlapped
    BY <1>3 DEF Accept, Refuse, InsertPacketSource, SendConnected, AcceptError,
                SendDisconnected, StopServing, SendInfo
  <2>2. \A a \in Conns : handler'[a] \in Registering => handler[a] \in Registering
    BY <1>0, <1>3 DEF Accept, Refuse, InsertPacketSource, SendConnected, AcceptError,
                      SendDisconnected, StopServing, Step, Registering
  <2> QED BY <1>1, <2>1, <2>2
<1>4. CASE WorkerTake \/ WorkerSources \/ WorkerPackets \/ WorkerNotify
  BY <1>1, <1>4 DEF WorkerTake, WorkerSources, WorkerPackets, WorkerNotify, connVars
<1>5. CASE Aside \/ UNCHANGED vars
  BY <1>1, <1>5, AsideKeepsRegistry DEF registry
<1> QED BY <1>2, <1>3, <1>4, <1>5, NextCases

\* The last word about a source that is served by one handler alone is its
\* Connected: another handler that could say Disconnected would overlap.
LEMMA ServedStep ==
    TypeInv /\ OverlapInv /\ ServedInv /\ [Next]_vars => ServedInv'
<1> SUFFICES ASSUME TypeInv, OverlapInv, ServedInv, [Next]_vars,
                    NEW c \in Conns \ Reproduce, handler'[c] = "serving",
                    SourceOf[c] \notin overlapped'
             PROVE  Listing(SourceOf[c])'
  BY DEF ServedInv
<1> DEFINE s == SourceOf[c]
<1> DEFINE words == <<channel, worker, msg, sources>>
<1>0. /\ handler \in [Conns -> HandlerPc] /\ TypeOK /\ s \in Sources
      /\ c \in Of(s)
  BY SourceOfAssumption DEF TypeInv, TypeOK, Of
<1>1. ASSUME handler[c] = "serving", UNCHANGED overlapped PROVE Listing(s)
  BY <1>1 DEF ServedInv
<1>2. ASSUME Listing(s), UNCHANGED words PROVE Listing(s)'
  BY <1>2 DEF Listing, LastWord, Absent
<1>3. ASSUME NEW b \in Conns,
             \/ Accept(b) \/ Refuse(b) \/ Greet(b) \/ InsertPacketSource(b)
             \/ AcceptError(b) \/ StopServing(b)
      PROVE Listing(s)'
  <2>1. handler[c] = "serving"
    BY <1>0, <1>3 DEF Accept, Refuse, Greet, InsertPacketSource, AcceptError,
                      StopServing, Step
  <2>2. UNCHANGED words
    BY <1>3 DEF Accept, Refuse, Greet, InsertPacketSource, AcceptError, StopServing,
                workerVars
  <2>3. s \notin overlapped
    BY <1>3 DEF Accept, Refuse, Greet, InsertPacketSource, AcceptError, StopServing
  <2>4. Listing(s)
    BY <2>1, <2>3 DEF ServedInv
  <2> QED BY <1>2, <2>2, <2>4
<1>4. ASSUME NEW b \in Conns, SendConnected(b) PROVE Listing(s)'
  <2>1. SendInfo(b, "Connected") /\ "Connected" \in ConnState
    BY <1>4 DEF SendConnected, ConnState
  <2>2. CASE b = c
    <3>1. Info(b, "Connected") = Up(s)
      BY <1>0, <2>2, SentWord
    <3> QED BY <1>0, <2>1, <3>1, SentIsLastWord DEF Listing
  <2>3. CASE b # c
    <3>1. handler[c] = "serving" /\ UNCHANGED overlapped
      BY <1>0, <1>4, <2>3 DEF SendConnected, SendInfo, Step
    <3>2. Info(b, "Connected") # Down(s)
      BY <1>0, SentWord
    <3>3. /\ LastWord(Up(s), Down(s)) => LastWord(Up(s), Down(s))'
          /\ Absent(Down(s)) => Absent(Down(s))'
      BY <1>0, <2>1, <3>2, SendKeepsWords
    <3>4. UNCHANGED <<worker, msg, sources>>
      BY <2>1 DEF SendInfo, workerVars
    <3> QED BY <1>1, <3>1, <3>3, <3>4 DEF Listing
  <2> QED BY <2>2, <2>3
<1>5. ASSUME NEW b \in Conns, SendDisconnected(b) PROVE Listing(s)'
  <2>1. SendInfo(b, "Disconnected") /\ "Disconnected" \in ConnState
    BY <1>5 DEF SendDisconnected, ConnState
  <2>2. b # c /\ handler[c] = "serving" /\ UNCHANGED overlapped
    BY <1>0, <1>5 DEF SendDisconnected, SendInfo, Step
  <2>3. b \notin Of(s)
    <3>1. handler[b] \in Registering /\ handler[c] \in Registering /\ s \notin overlapped
      BY <1>5, <2>2 DEF SendDisconnected, Step, Registering
    <3> QED BY <2>2, <3>1 DEF OverlapInv, Of
  <2>4. Info(b, "Disconnected") # Down(s)
    BY <1>0, <2>3, SentWord
  <2>5. /\ LastWord(Up(s), Down(s)) => LastWord(Up(s), Down(s))'
        /\ Absent(Down(s)) => Absent(Down(s))'
    BY <1>0, <2>1, <2>4, SendKeepsWords
  <2>6. UNCHANGED <<worker, msg, sources>>
    BY <2>1 DEF SendInfo, workerVars
  <2> QED BY <1>1, <2>2, <2>5, <2>6 DEF Listing
<1>6. CASE WorkerTake
  <2>1. Listing(s)
    BY <1>1, <1>6 DEF WorkerTake, connVars
  <2>2. worker = "idle" /\ UNCHANGED sources
    BY <1>6 DEF WorkerTake
  <2>3. worker' = IF msg'.rep THEN "idle" ELSE "sources"
    BY <1>0, <1>6, TakeFacts
  <2>4. CASE LastWord(Up(s), Down(s))
    <3>1. LastWord(Up(s), Down(s))' \/ (msg' = Up(s) /\ Absent(Down(s))')
      BY <1>0, <1>6, <2>4, TakeKeepsWords
    <3>2. msg' = Up(s) => worker' = "sources"
      BY <2>3, WordFields
    <3> QED BY <3>1, <3>2 DEF Listing
  <2>5. CASE ~LastWord(Up(s), Down(s))
    <3>1. Absent(Down(s)) /\ s \in sources
      BY <2>1, <2>2, <2>5 DEF Listing
    <3>2. Absent(Down(s))' /\ msg' # Down(s)
      BY <1>0, <1>6, <3>1, TakeKeepsWords
    <3> QED BY <2>2, <3>1, <3>2 DEF Listing
  <2> QED BY <2>4, <2>5
<1>7. CASE WorkerSources
  <2>1. Listing(s)
    BY <1>1, <1>7 DEF WorkerSources, connVars
  <2>2. worker = "sources" /\ worker' # "sources" /\ UNCHANGED <<channel, msg>>
    BY <1>7 DEF WorkerSources
  <2>3. (LastWord(Up(s), Down(s)))' = LastWord(Up(s), Down(s)) /\ Absent(Down(s))' = Absent(Down(s))
    BY <2>2 DEF LastWord, Absent
  <2>4. msg \in SourceInfo /\ ~msg.rep
    BY <1>7 DEF WorkerSources, TypeInv, WorkerInv
  <2>5. CASE msg = Up(s)
    <3>1. s \in sources'
      BY <1>7, <2>5, WordFields DEF WorkerSources
    <3> QED BY <2>1, <2>2, <2>3, <2>5, <3>1, WordFields DEF Listing
  <2>6. CASE msg # Down(s) /\ msg # Up(s)
    <3>1. msg.source # s
      BY <1>7, <2>4, <2>6, MessageIsWord DEF WorkerSources
    <3>2. s \in sources' <=> s \in sources
      BY <1>7, <3>1 DEF WorkerSources
    <3> QED BY <2>1, <2>2, <2>3, <2>6, <3>2 DEF Listing
  <2>7. CASE msg = Down(s)
    BY <2>1, <2>2, <2>3, <2>7, WordFields DEF Listing
  <2> QED BY <2>5, <2>6, <2>7
<1>8. CASE WorkerPackets \/ WorkerNotify
  <2>1. Listing(s)
    BY <1>1, <1>8 DEF WorkerPackets, WorkerNotify, connVars
  <2>2. /\ worker # "sources" /\ worker' # "sources"
        /\ UNCHANGED <<channel, msg, sources>>
    BY <1>8 DEF WorkerPackets, WorkerNotify
  <2> QED BY <2>1, <2>2 DEF Listing, LastWord, Absent
<1>9. CASE Aside \/ UNCHANGED vars
  BY <1>1, <1>2, <1>9, AsideKeepsRegistry DEF registry
<1> QED
  BY <1>3, <1>4, <1>5, <1>6, <1>7, <1>8, <1>9, NextCases

\* A source whose connections never overlapped is listed while it is served
\* and the worker has caught up, whatever reproduce agents of the same name do.
THEOREM ServedSourcesAreListed == Spec => []SequentialIsListed
<1>1. Init => OverlapInv /\ ServedInv
  BY DEF Init, OverlapInv, ServedInv, Registering
<1>2. ServedInv => SequentialIsListed
  <2> SUFFICES ASSUME ServedInv, NEW c \in Conns \ Reproduce, Quiet,
                      handler[c] = "serving", SourceOf[c] \notin overlapped
               PROVE  SourceOf[c] \in sources
    BY DEF SequentialIsListed
  <2>1. Listing(SourceOf[c]) /\ worker = "idle" /\ 1..Len(channel) = {}
    BY DEF ServedInv, Quiet
  <2> QED BY <2>1 DEF Listing, LastWord
<1> QED BY <1>1, <1>2, OverlapStep, ServedStep, TypeInvInvariant, PTL DEF Spec
=============================================================================
