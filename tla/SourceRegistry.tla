--------------------------- MODULE SourceRegistry ---------------------------
(***************************************************************************)
(* Which sources are connected: `handle_connection` and                    *)
(* `check_sources_conn` of src/ingest.rs, the broadcast of the source list *)
(* to the peers (src/peer.rs) and the relay of pcap requests               *)
(* (`process_pcap_extract` of src/publish.rs).                             *)
(*                                                                         *)
(* Each QUIC connection of an agent has a handler task.  The handler puts  *)
(* the connection into `packet_sources` by itself, but `sources`, the list *)
(* shown to users and peers, is kept by a single worker task that hears of *)
(* connections through a bounded channel.  The worker also takes entries   *)
(* out of `packet_sources`.  So the two maps are written from two sides,   *)
(* one of which lags behind by the length of the channel.                  *)
(*                                                                         *)
(* Timestamps in the maps are left out: `sources` and `source_store` are   *)
(* sets of names.                                                          *)
(***************************************************************************)
EXTENDS Sequences, Naturals

CONSTANTS
    Conns,       \* connections; each is used once
    Sources,     \* names of sources, as found in the agents' certificates
    SourceOf,    \* the source a connection's certificate names
    Reproduce,   \* connections whose agent is called "reproduce"
    Peers,       \* tasks of peer connections that broadcast the source list
    Capacity,    \* capacity of the channel to the worker (100 in the code)
    NoConn,      \* absence of a connection
    NoPeer       \* absence of a peer task

ASSUME SourceOfAssumption == SourceOf \in [Conns -> Sources]
ASSUME ReproduceAssumption == Reproduce \subseteq Conns
ASSUME CapacityAssumption == Capacity \in Nat \ {0}
ASSUME NoConnAssumption == NoConn \notin Conns
ASSUME NoPeerAssumption == NoPeer \notin Peers

VARIABLES
    handler,         \* where the handler task of each connection stands
    alive,           \* connections that exist at the QUIC level
    channel,         \* SourceInfo messages on their way to the worker
    worker,          \* where check_sources_conn stands
    msg,             \* the message it is working on
    sources,         \* the connected sources
    packet_sources,  \* source -> connection pcap requests are relayed over
    source_store,    \* sources on record in the database
    notify_source,   \* the Notify holds a permit for a peer task
    peer,            \* where the peer tasks stand
    source_list,     \* what each has read of the list and not yet sent
    announced,       \* the list last broadcast to the peers
    newest,          \* history: the task that read the list last
    overtaken,       \* history: the list broadcast last was not read last
    reader,          \* a pcap request holds packet_sources' read lock for it
    shutdown,        \* wait_shutdown has been notified
    overlapped       \* history: sources that had two connections at a time

connVars == <<handler, alive, overlapped>>
workerVars == <<worker, msg, sources, source_store>>
peerVars == <<notify_source, peer, source_list, announced, newest, overtaken>>
vars == <<connVars, channel, workerVars, packet_sources, peerVars, reader,
          shutdown>>

Registering == {"packet", "sendUp", "serving", "sendDown"}
HandlerPc == {"idle", "handshake", "closed", "stopped"} \cup Registering
PeerPc == {"wait", "woken", "send"}
WorkerPc == {"idle", "sources", "packets", "notify"}
ConnState == {"Connected", "Disconnected"}
SourceInfo == [source : Sources, state : ConnState, rep : BOOLEAN]

Info(c, s) == [source |-> SourceOf[c], state |-> s, rep |-> c \in Reproduce]
NoInfo == <<>>

Init ==
    /\ handler = [c \in Conns |-> "idle"]
    /\ alive = {} /\ overlapped = {}
    /\ channel = <<>>
    /\ worker = "idle" /\ msg = NoInfo
    /\ sources = {} /\ source_store = {}
    /\ packet_sources = [s \in Sources |-> NoConn]
    /\ notify_source = FALSE
    /\ peer = [p \in Peers |-> "wait"] /\ source_list = [p \in Peers |-> {}]
    /\ announced = {} /\ newest = NoPeer /\ overtaken = FALSE
    /\ reader = NoConn
    /\ shutdown = FALSE

-----------------------------------------------------------------------------
(* The handler of a connection.                                            *)

Step(c, from, to) ==
    /\ handler[c] = from
    /\ handler' = [handler EXCEPT ![c] = to]

\* Server::run accepts a connection and spawns its handler.
Accept(c) ==
    /\ ~shutdown
    /\ Step(c, "idle", "handshake")
    /\ alive' = alive \cup {c}
    /\ UNCHANGED <<overlapped, channel, workerVars, packet_sources, peerVars,
                   reader, shutdown>>

\* The connection fails, the versions do not fit, or the certificate does
\* not name an agent and a source.
Refuse(c) ==
    /\ Step(c, "handshake", "closed")
    /\ alive' = alive \ {c}
    /\ UNCHANGED <<overlapped, channel, workerVars, packet_sources, peerVars,
                   reader, shutdown>>

\* Other handlers that serve the same source at this moment.
Siblings(c) == {d \in Conns \ {c} : /\ SourceOf[d] = SourceOf[c]
                                    /\ d \notin Reproduce
                                    /\ handler[d] \in Registering}

Greet(c) ==
    /\ Step(c, "handshake", IF c \in Reproduce THEN "sendUp" ELSE "packet")
    /\ overlapped' = IF c \notin Reproduce /\ Siblings(c) # {}
                     THEN overlapped \cup {SourceOf[c]}
                     ELSE overlapped
    /\ UNCHANGED <<alive, channel, workerVars, packet_sources, peerVars, reader,
                   shutdown>>

\* The write lock is free only while no pcap request is being relayed.
InsertPacketSource(c) ==
    /\ Step(c, "packet", "sendUp")
    /\ reader = NoConn
    /\ packet_sources' = [packet_sources EXCEPT ![SourceOf[c]] = c]
    /\ UNCHANGED <<alive, overlapped, channel, workerVars, peerVars, reader,
                   shutdown>>

\* Mutant: the channel is unbounded.
SendInfoUnbounded(c, s) ==
    /\ channel' = Append(channel, Info(c, s))
    /\ UNCHANGED <<alive, overlapped, workerVars, packet_sources, peerVars,
                   reader, shutdown>>

SendInfo(c, s) ==
    /\ Len(channel) < Capacity
    /\ channel' = Append(channel, Info(c, s))
    /\ UNCHANGED <<alive, overlapped, workerVars, packet_sources, peerVars,
                   reader, shutdown>>

SendConnected(c) == Step(c, "sendUp", "serving") /\ SendInfo(c, "Connected")

\* Mutant: a connection the agent closed ends the handler right away.
AcceptErrorReturns(c) ==
    /\ c \notin alive
    /\ Step(c, "serving", "closed")
    /\ UNCHANGED <<alive, overlapped, channel, workerVars, packet_sources,
                   peerVars, reader, shutdown>>

\* accept_bi fails: the agent closed the connection or it timed out.
AcceptError(c) ==
    /\ c \notin alive
    /\ Step(c, "serving", "sendDown")
    /\ UNCHANGED <<alive, overlapped, channel, workerVars, packet_sources,
                   peerVars, reader, shutdown>>

SendDisconnected(c) ==
    Step(c, "sendDown", "closed") /\ SendInfo(c, "Disconnected")

\* The handler hears of the shutdown, closes the connection and returns
\* without a word to the worker.
StopServing(c) ==
    /\ shutdown
    /\ Step(c, "serving", "stopped")
    /\ alive' = alive \ {c}
    /\ UNCHANGED <<overlapped, channel, workerVars, packet_sources, peerVars,
                   reader, shutdown>>

-----------------------------------------------------------------------------
(* The worker, check_sources_conn.                                         *)

\* Mutant: reproduce agents are not told apart.
WorkerTakeAll ==
    /\ worker = "idle" /\ channel # <<>>
    /\ msg' = Head(channel)
    /\ channel' = Tail(channel)
    /\ source_store' = source_store \cup {Head(channel).source}
    /\ worker' = "sources"
    /\ UNCHANGED <<connVars, sources, packet_sources, peerVars, reader, shutdown>>

WorkerTake ==
    /\ worker = "idle" /\ channel # <<>>
    /\ msg' = Head(channel)
    /\ channel' = Tail(channel)
    /\ source_store' = source_store \cup {Head(channel).source}
    /\ worker' = IF Head(channel).rep THEN "idle" ELSE "sources"
    /\ UNCHANGED <<connVars, sources, packet_sources, peerVars, reader, shutdown>>

WorkerSources ==
    /\ worker = "sources"
    /\ \/ /\ msg.state = "Connected"
          /\ sources' = sources \cup {msg.source}
          /\ worker' = "notify"
       \/ /\ msg.state = "Disconnected"
          /\ sources' = sources \ {msg.source}
          /\ worker' = "packets"
    /\ UNCHANGED <<connVars, channel, msg, source_store, packet_sources, peerVars,
                   reader, shutdown>>

WorkerPackets ==
    /\ worker = "packets" /\ reader = NoConn
    /\ packet_sources' = [packet_sources EXCEPT ![msg.source] = NoConn]
    /\ worker' = "notify"
    /\ UNCHANGED <<connVars, channel, msg, sources, source_store, peerVars,
                   reader, shutdown>>

\* Mutant: the peers hear of new sources only.
WorkerNotifyConnected ==
    /\ worker = "notify"
    /\ worker' = "idle"
    /\ notify_source' = (notify_source \/ msg.state = "Connected")
    /\ UNCHANGED <<connVars, channel, msg, sources, source_store, packet_sources,
                   peer, source_list, announced, newest, overtaken, reader, shutdown>>

WorkerNotify ==
    /\ worker = "notify"
    /\ worker' = "idle"
    /\ notify_source' = TRUE
    /\ UNCHANGED <<connVars, channel, msg, sources, source_store, packet_sources,
                   peer, source_list, announced, newest, overtaken, reader, shutdown>>

-----------------------------------------------------------------------------
(* The readers of the two maps.                                            *)

asideOfPeers == <<connVars, channel, workerVars, packet_sources, reader, shutdown>>

\* One of the peer tasks takes the permit, in its select!.
Wake(p) ==
    /\ peer[p] = "wait" /\ notify_source
    /\ notify_source' = FALSE
    /\ peer' = [peer EXCEPT ![p] = "woken"]
    /\ UNCHANGED <<source_list, announced, newest, overtaken, asideOfPeers>>

\* It reads the list, under the read lock of `sources`.
ReadList(p) ==
    /\ peer[p] = "woken"
    /\ peer' = [peer EXCEPT ![p] = "send"]
    /\ source_list' = [source_list EXCEPT ![p] = sources]
    /\ newest' = p
    /\ UNCHANGED <<notify_source, announced, overtaken, asideOfPeers>>

\* And, once it has the lock of peer_conn, sends it to all peers; a task that
\* read the list before may still have its own to send.
Broadcast(p) ==
    /\ peer[p] = "send"
    /\ peer' = [peer EXCEPT ![p] = "wait"]
    /\ announced' = source_list[p]
    /\ source_list' = [source_list EXCEPT ![p] = {}]
    /\ overtaken' = (p # newest)
    /\ UNCHANGED <<notify_source, newest, asideOfPeers>>

Announce(p) == Wake(p) \/ ReadList(p) \/ Broadcast(p)

\* A pcap request finds the source's connection and is relayed over it; the
\* read lock is held until the agent has answered.
PcapRequest(s) ==
    /\ reader = NoConn /\ packet_sources[s] # NoConn
    /\ reader' = packet_sources[s]
    /\ UNCHANGED <<connVars, channel, workerVars, packet_sources, peerVars, shutdown>>

\* The agent answers or its connection turns out to be gone.
PcapAnswer ==
    /\ reader # NoConn
    /\ reader' = NoConn
    /\ UNCHANGED <<connVars, channel, workerVars, packet_sources, peerVars, shutdown>>

-----------------------------------------------------------------------------
(* Agents and the server's shutdown.                                       *)

AgentLeaves(c) ==
    /\ c \in alive
    /\ alive' = alive \ {c}
    /\ UNCHANGED <<handler, overlapped, channel, workerVars, packet_sources,
                   peerVars, reader, shutdown>>

Shutdown ==
    /\ ~shutdown
    /\ shutdown' = TRUE
    /\ UNCHANGED <<connVars, channel, workerVars, packet_sources, peerVars, reader>>

\* endpoint.close(): handlers that missed the notification see an error.
EndpointClose ==
    /\ shutdown /\ alive # {}
    /\ alive' = {}
    /\ UNCHANGED <<handler, overlapped, channel, workerVars, packet_sources,
                   peerVars, reader, shutdown>>

-----------------------------------------------------------------------------
Handle(c) ==
    \/ InsertPacketSource(c) \/ SendConnected(c)
    \/ AcceptError(c) \/ SendDisconnected(c) \/ StopServing(c)

Worker == WorkerTake \/ WorkerSources \/ WorkerPackets \/ WorkerNotify

Next ==
    \/ \E c \in Conns : \/ Accept(c) \/ Refuse(c) \/ Greet(c)
                        \/ Handle(c) \/ AgentLeaves(c)
    \/ Worker
    \/ \E p \in Peers : Announce(p)
    \/ \E s \in Sources : PcapRequest(s)
    \/ PcapAnswer
    \/ Shutdown \/ EndpointClose

\* Tasks that can run are run: the worker and one or the other of the peer
\* tasks.  The channel and the RwLock serve waiters in FIFO order, so whoever
\* waits for the write lock gets it.  An agent is assumed to answer a relayed
\* request or to lose its connection: the code sets no timeout of its own.
\* Of the handlers nothing is assumed.
Fairness ==
    /\ SF_vars(Worker) /\ WF_vars(PcapAnswer)
    /\ WF_vars(\E p \in Peers : Announce(p))

Spec == Init /\ [][Next]_vars
FairSpec == Spec /\ Fairness

-----------------------------------------------------------------------------
(* Properties.                                                             *)

\* Every variable keeps its type, and the channel its capacity.
TypeOK ==
    /\ handler \in [Conns -> HandlerPc]
    /\ alive \subseteq Conns /\ overlapped \subseteq Sources
    /\ channel \in Seq(SourceInfo) /\ Len(channel) <= Capacity
    /\ worker \in WorkerPc /\ msg \in SourceInfo \cup {NoInfo}
    /\ sources \subseteq Sources /\ source_store \subseteq Sources
    /\ packet_sources \in [Sources -> Conns \cup {NoConn}]
    /\ notify_source \in BOOLEAN /\ announced \subseteq Sources
    /\ peer \in [Peers -> PeerPc] /\ source_list \in [Peers -> SUBSET Sources]
    /\ newest \in Peers \cup {NoPeer} /\ overtaken \in BOOLEAN
    /\ reader \in Conns \cup {NoConn}
    /\ shutdown \in BOOLEAN

\* The worker has nothing left to do.
Quiet == worker = "idle" /\ channel = <<>>

\* The connections through which a source registers itself.
Of(s) == {c \in Conns \ Reproduce : SourceOf[c] = s}

\* Once the worker has caught up, a source none of whose connections is left
\* is in neither map, whatever the order in which its connections came and
\* went: no pcap request is relayed over a connection that is long gone.
GoneIsForgotten ==
    \A s \in Sources :
        Quiet /\ (\A c \in Of(s) : handler[c] \in {"idle", "handshake", "closed"})
            => s \notin sources /\ packet_sources[s] = NoConn

\* The peers' copy of the list is left out of date in one way only: whenever
\* the worker is idle, no wake-up is pending and no peer task is at work, what
\* was broadcast last is the list, unless a task that had read the list before
\* another one sent it after that one.  notify_one keeps a permit while the
\* peer tasks are busy, and the worker sets it after the change.
PeersAreCurrent ==
    worker = "idle" /\ ~notify_source /\ (\A p \in Peers : peer[p] = "wait")
        => announced = sources \/ overtaken

\* A source whose connections never overlapped is listed while one of them is
\* served and the worker has caught up: the Disconnected of the old connection
\* is queued before the Connected of the new one, and a reproduce agent that
\* comes and goes under the same name does not take it off the list.
SequentialIsListed ==
    \A c \in Conns \ Reproduce :
        Quiet /\ handler[c] = "serving" /\ SourceOf[c] \notin overlapped
            => SourceOf[c] \in sources

\* A source that leaves for good is forgotten in the end, for good, by this
\* server, even with pcap requests coming in all the time, and by its peers
\* unless an older list overtook the last one.
GoneInTheEnd ==
    \A s \in Sources :
        (\A c \in Of(s) : handler[c] = "closed")
            ~> [](/\ s \notin sources /\ packet_sources[s] = NoConn
                  /\ s \in announced => overtaken)
=============================================================================
