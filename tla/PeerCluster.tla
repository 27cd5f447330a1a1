---------------------------- MODULE PeerCluster ----------------------------
(***************************************************************************)
(* The peers of a cluster (src/peer.rs): every Giganto dials the peers it  *)
(* knows, the two ends exchange their lists of peers and of sources, and   *)
(* whoever learns of a peer dials it and tells the others.  Both ends of a *)
(* pair dial, and each drops a connection to a host it has one to already. *)
(*                                                                         *)
(* A list of sources is a number that grows with each change.  A          *)
(* connection has two ends, "c" that dialled and "s", each of which is at  *)
(* one of these points: "hello" (the handshake is done), "init" (the check *)
(* for duplicates is passed and the own lists are read), "answer" (the     *)
(* server has the client's lists and sent its own), "merge" (the other's   *)
(* lists are taken over), "open" (it is in peer_conn) or "gone".           *)
(***************************************************************************)
EXTENDS Integers, Sequences, FiniteSets

CONSTANTS
    Nodes,        \* the Gigantos
    Starts,       \* how a behaviour may begin: the nodes that take part, the
                  \* peers in their configuration files, the pairs that have
                  \* connected already, those of them whose client is about to
                  \* hear of the server's peers, and bounds on the changes of
                  \* sources, the crashes, the shutdowns, the lost connections
                  \* and the failed writes of the file
    MaxConns,     \* bound: connections that one node has to another at a time
    Free          \* a place without a connection

ASSUME StartsAssumption ==
    \A start \in Starts :
        /\ start.members \subseteq Nodes /\ start.peers \in [Nodes -> SUBSET Nodes]
        /\ \A n \in Nodes : start.peers[n] \subseteq start.members \ {n}
        /\ \A n \in Nodes \ start.members : start.peers[n] = {}
        /\ \A pair \in start.joined : \E n \in start.members : \E m \in start.members \ {n} :
              pair = <<n, m>> /\ m \in start.peers[n] /\ n \in start.peers[m]
        /\ start.told \subseteq start.joined
ASSUME MaxConnsAssumption == MaxConns \in Nat \ {0}

VARIABLES
    up,            \* the nodes that run
    file,          \* node -> the peers in its configuration file
    peer_list,     \* node -> the peers it knows
    saves,         \* tasks that have learned of peers and will write the file
    dial,          \* node, node -> what the task client_connection does
    conns,         \* the connections, each in a place, and the free places
    peer_conn,     \* node, node -> the place of the connection to it, or Free
    peer_sources,  \* node, node -> the sources of that one, or -1
    sources,       \* node -> its own sources
    notify_source, \* node -> the permit of the Notify
    msgs,          \* updates that are on their way
    left,          \* what is left of the bounds
    spoiled,       \* history: a task gave up a host for a bad reason
    unsaved,       \* history: nodes whose file went without a peer they knew
    outdated,      \* history: pairs <<n, m>> where n missed a list of m
    late           \* history: pairs where n took one after it had lost m

vars == <<up, file, peer_list, saves, dial, conns, peer_conn, peer_sources, sources,
          notify_source, msgs, left, spoiled, unsaved, outdated, late>>
\* What has to do with the configuration file.
saving == <<file, saves, unsaved>>

Ends == {"c", "s"}
Other(e) == IF e = "c" THEN "s" ELSE "c"

\* The places of the connections that one node has to another.
Places == Nodes \X Nodes \X (1..MaxConns)
At(i, e) == IF e = "c" THEN i[1] ELSE i[2]       \* the node at an end
Remote(i, e) == At(i, Other(e))
EndOf(i, n) == IF At(i, "c") = n THEN "c" ELSE "s"
Pair(i) == {At(i, "c"), At(i, "s")}
Used == {i \in Places : conns[i] # Free}

\* A connection, with the lists that each of its ends read.
Connections ==
    [state : {"alive", "duplicate", "lost", "closed"},
     end : [Ends -> {"hello", "init", "answer", "merge", "open", "gone"}],
     peers : [Ends -> SUBSET Nodes], sources : [Ends -> Nat]]
ASSUME FreeAssumption == Free \notin Places /\ Free \notin Connections

\* A node has an end in its main loop.
InMainLoop(n) == \E i \in Used, e \in Ends : At(i, e) = n /\ conns[i].end[e] = "open"

\* An end gets to a point; a connection without ends leaves its place.
Moved(i, e, to) ==
    IF to = "gone" /\ conns[i].end[Other(e)] = "gone" THEN Free
    ELSE [conns[i] EXCEPT !.end[e] = to]
Move(i, e, to) == conns' = [conns EXCEPT ![i] = Moved(i, e, to)]

\* Peer::run and client_run: a task for every peer that is known.
Dialled(n, known) == [m \in Nodes |-> IF m \in known THEN "dial" ELSE "none"]

\* A connection of which both ends are at a point.
Conn(at) ==
    [state |-> "alive", end |-> [e \in Ends |-> at],
     peers |-> [e \in Ends |-> {}], sources |-> [e \in Ends |-> 0]]

\* The server of a pair that has connected has sent its peers to the client.
Update(p, list) ==
    [conn |-> <<p[1], p[2], 1>>, end |-> "c", from |-> p[2], to |-> p[1],
     what |-> "peers", peers |-> list, sources |-> 0]

\* In a pair <<n, m>> that has connected, n dialled and m gave up dialling.
Init ==
    /\ \E start \in Starts :
         LET Joined(n, m) == <<n, m>> \in start.joined
        IN  /\ up = start.members /\ file = start.peers /\ peer_list = start.peers
            /\ dial = [n \in Nodes |-> [m \in Nodes |->
                  IF Joined(n, m) THEN "busy" ELSE IF Joined(m, n) THEN "ended"
                  ELSE Dialled(n, start.peers[n])[m]]]
            /\ conns = [i \in Places |->
                  IF i[3] = 1 /\ Joined(i[1], i[2]) THEN Conn("open") ELSE Free]
            /\ peer_conn = [n \in Nodes |-> [m \in Nodes |->
                  IF Joined(n, m) THEN <<n, m, 1>>
                  ELSE IF Joined(m, n) THEN <<m, n, 1>> ELSE Free]]
            /\ peer_sources = [n \in Nodes |-> [m \in Nodes |->
                  IF Joined(n, m) \/ Joined(m, n) THEN 0 ELSE -1]]
            /\ msgs = {Update(p, start.peers[p[2]]) : p \in start.told}
            /\ left = start
    /\ sources = [n \in Nodes |-> 0]
    /\ notify_source = [n \in Nodes |-> FALSE]
    /\ saves = {} /\ spoiled = FALSE /\ unsaved = {} /\ outdated = {} /\ late = {}

-----------------------------------------------------------------------------
(* Setting up a connection.                                                *)

\* connect, which is tried again for as long as nobody answers.
Connect(n, m) ==
    /\ n \in up /\ m \in up /\ dial[n][m] = "dial"
    /\ \E g \in 1..MaxConns :
          /\ conns[<<n, m, g>>] = Free /\ \A h \in 1..(g - 1) : conns[<<n, m, h>>] # Free
          /\ conns' = [conns EXCEPT ![<<n, m, g>>] = Conn("hello")]
    /\ dial' = [dial EXCEPT ![n][m] = "busy"]
    /\ UNCHANGED <<up, saving, peer_list, peer_conn, peer_sources, sources,
                   notify_source, msgs, left, spoiled, outdated, late>>

MessagesTo(i, e) == {msg \in msgs : msg.conn = i /\ msg.end = e}

\* The task of an end returns before the connection is in peer_conn.
GiveUp(i, e) ==
    /\ dial' = IF e = "c" THEN [dial EXCEPT ![At(i, e)][Remote(i, e)] = "ended"] ELSE dial
    /\ msgs' = msgs \ MessagesTo(i, e)
    /\ UNCHANGED <<up, saving, peer_list, peer_conn, peer_sources, sources,
                   notify_source, left, outdated, late>>

\* check_for_duplicate_connections finds the host in peer_conn.
Duplicate(i, e) ==
    LET n == At(i, e)  m == Remote(i, e)
    IN  /\ conns[i].end[e] = "hello" /\ peer_conn[n][m] # Free
        /\ conns' = [conns EXCEPT ![i] =
              IF conns[i].end[Other(e)] = "gone" THEN Free
              ELSE [conns[i] EXCEPT !.end[e] = "gone", !.state = "duplicate"]]
        /\ spoiled' = (spoiled \/ conns[peer_conn[n][m]].state # "alive")
        /\ GiveUp(i, e)

\* It does not; the lists are read.  The client adds itself to its peers.
Check(i, e) ==
    LET n == At(i, e)  m == Remote(i, e)
        own == IF e = "c" THEN {n} ELSE {}
    IN  /\ conns[i].end[e] = "hello" /\ peer_conn[n][m] = Free
        /\ conns' = [conns EXCEPT ![i].end[e] = "init",
                                  ![i].peers[e] = peer_list[n] \cup own,
                                  ![i].sources[e] = sources[n]]
        /\ UNCHANGED <<up, saving, peer_list, dial, peer_conn, peer_sources, sources,
                       notify_source, msgs, left, spoiled, outdated, late>>

\* request_init_info or response_init_info fails, and so does the task.
SetupFails(i, e) ==
    /\ conns[i].end[e] \in {"hello", "init"} /\ conns[i].state # "alive"
    /\ Move(i, e, "gone")
    /\ spoiled' = (spoiled \/ conns[i].state # "duplicate")
    /\ GiveUp(i, e)

\* response_init_info: the server has the lists of the client, and answers.
Answer(i) ==
    /\ conns[i].state = "alive" /\ conns[i].end = [e \in Ends |-> "init"]
    /\ Move(i, "s", "answer")
    /\ UNCHANGED <<up, saving, peer_list, dial, peer_conn, peer_sources, sources,
                   notify_source, msgs, left, spoiled, outdated, late>>

\* Mutant: no task is started for a new peer.
LearnPeersUndialled(n, list, by) ==
    LET new == list \ (peer_list[n] \cup {n})
    IN  /\ peer_list' = [peer_list EXCEPT ![n] = @ \cup new]
        /\ saves' = IF new = {} THEN saves
                    ELSE saves \cup {[node |-> n, by |-> by, list |-> peer_list[n] \cup new]}
        /\ UNCHANGED <<dial, file, unsaved>>

\* Mutant: the file is not written.
LearnPeersUnsaved(n, list, by) ==
    LET new == list \ (peer_list[n] \cup {n})
    IN  /\ peer_list' = [peer_list EXCEPT ![n] = @ \cup new]
        /\ dial' = [dial EXCEPT ![n] = [m \in Nodes |-> IF m \in new THEN "dial" ELSE @[m]]]
        /\ UNCHANGED saving

\* update_to_new_peer_list up to its last send: a task for each new peer.  If
\* there is one the file is still to be written, by the task of an end of a
\* connection or by one that handles a request.
LearnPeers(n, list, by) ==
    LET new == list \ (peer_list[n] \cup {n})
    IN  /\ peer_list' = [peer_list EXCEPT ![n] = @ \cup new]
        /\ dial' = [dial EXCEPT ![n] = [m \in Nodes |-> IF m \in new THEN "dial" ELSE @[m]]]
        /\ saves' = IF new = {} THEN saves
                    ELSE saves \cup {[node |-> n, by |-> by, list |-> peer_list[n] \cup new]}
        /\ UNCHANGED <<file, unsaved>>

\* The rest of it.  The list that is written was read at some time since then:
\* of two tasks the one that writes last may have the shorter list.
Save(t) ==
    /\ \E list \in SUBSET peer_list[t.node] :
          /\ t.list \subseteq list
          /\ file' = [file EXCEPT ![t.node] = list]
          /\ unsaved' = IF file[t.node] \subseteq list THEN unsaved
                        ELSE unsaved \cup {t.node}
    /\ saves' = saves \ {t}
    /\ UNCHANGED <<up, peer_list, dial, conns, peer_conn, peer_sources, sources,
                   notify_source, msgs, left, spoiled, outdated, late>>

\* write_toml_file fails before or after it has emptied the file; the error
\* is logged and the task goes on.
SaveFails(t) ==
    /\ left.failures > 0 /\ left' = [left EXCEPT !.failures = @ - 1]
    /\ file' \in {file, [file EXCEPT ![t.node] = {}]}
    /\ unsaved' = unsaved \cup {t.node}
    /\ saves' = saves \ {t}
    /\ UNCHANGED <<up, peer_list, dial, conns, peer_conn, peer_sources, sources,
                   notify_source, msgs, spoiled, outdated, late>>

\* Mutant: the first list of a peer stays.
LearnSourcesOnce(n, m, list) ==
    /\ peer_sources' = [peer_sources EXCEPT ![n][m] = IF @ = -1 THEN list ELSE @]
    /\ UNCHANGED outdated

\* update_to_new_source_list; what is older than what was there is a loss.
LearnSources(n, m, list) ==
    /\ peer_sources' = [peer_sources EXCEPT ![n][m] = list]
    /\ outdated' = IF list < peer_sources[n][m] THEN outdated \cup {<<n, m>>} ELSE outdated

\* The client has the answer, or the server has sent it: the other's lists
\* are taken over.
Merge(i, e) ==
    LET n == At(i, e)  o == Other(e)
    IN  /\ IF e = "s" THEN conns[i].end[e] = "answer"
           ELSE /\ conns[i].state = "alive" /\ conns[i].end[e] = "init"
                /\ conns[i].end[o] \in {"answer", "merge", "open"}
        /\ LearnSources(n, Remote(i, e), conns[i].sources[o])
        /\ LearnPeers(n, conns[i].peers[o], <<i, e>>)
        /\ Move(i, e, "merge")
        /\ UNCHANGED <<up, peer_conn, sources, notify_source, msgs, left, spoiled, late>>

Connected(n) == {peer_conn[n][m] : m \in Nodes} \ {Free}

\* update_peer_info to each of the connections of n: a message for the far
\* end, on a stream of its own.
FarEnd(i, n) == Other(EndOf(i, n))

Tell(n, what, peers, list) ==
    {[conn |-> i, end |-> FarEnd(i, n), from |-> n, to |-> At(i, FarEnd(i, n)),
      what |-> what, peers |-> peers, sources |-> list] :
        i \in {i \in Connected(n) : conns[i].state = "alive"}}

\* update_to_new_peer_list has returned.  The peers are told of the list of
\* peers, and the connection joins them.
Join(i, e) ==
    LET n == At(i, e)  m == Remote(i, e)
    IN  /\ conns[i].end[e] = "merge" /\ \A t \in saves : t.by # <<i, e>>
        /\ msgs' = msgs \cup Tell(n, "peers", peer_list[n], 0)
        /\ peer_conn' = [peer_conn EXCEPT ![n][m] = i]
        /\ Move(i, e, "open")
        /\ outdated' = IF conns[i].sources[e] = sources[n] \/ notify_source[n] THEN outdated
                       ELSE outdated \cup {<<m, n>>}
        /\ UNCHANGED <<up, saving, peer_list, dial, peer_sources, sources, notify_source,
                       left, spoiled, late>>

-----------------------------------------------------------------------------
(* The main loop of a connection.                                          *)

\* handle_request, in a task of its own that may outlive the connection.
Receive(msg) ==
    LET n == msg.to  m == msg.from
    IN  /\ msg.conn # Free => conns[msg.conn].end[msg.end] = "open"
        /\ msgs' = msgs \ {msg}
        /\ IF msg.what = "peers"
           THEN LearnPeers(n, msg.peers, Free) /\ UNCHANGED <<peer_sources, outdated, late>>
           ELSE /\ LearnSources(n, m, msg.sources) /\ UNCHANGED <<peer_list, dial, saving>>
                /\ late' = IF msg.conn = Free THEN late \cup {<<n, m>>} ELSE late
        /\ UNCHANGED <<up, conns, peer_conn, sources, notify_source, left, spoiled>>

\* A source comes or goes, and check_sources_conn calls notify_one.
ChangeSources(n) ==
    /\ n \in up /\ left.changes > 0 /\ left' = [left EXCEPT !.changes = @ - 1]
    /\ sources' = [sources EXCEPT ![n] = @ + 1]
    /\ notify_source' = [notify_source EXCEPT ![n] = TRUE]
    /\ UNCHANGED <<up, saving, peer_list, dial, conns, peer_conn, peer_sources, msgs, spoiled, outdated, late>>

\* One of the tasks takes the permit and tells all peers of the sources.
Broadcast(n) ==
    /\ n \in up /\ notify_source[n] /\ InMainLoop(n)
    /\ notify_source' = [notify_source EXCEPT ![n] = FALSE]
    /\ msgs' = msgs \cup Tell(n, "sources", {}, sources[n])
    /\ UNCHANGED <<up, saving, peer_list, dial, conns, peer_conn, peer_sources, sources,
                   left, spoiled, outdated, late>>

\* Mutant: only peer_conn is cleared.
LostKeepingSources(i, e) ==
    LET n == At(i, e)  m == Remote(i, e)
    IN  /\ conns[i].end[e] = "open" /\ conns[i].state \in {"lost", "closed"}
        /\ peer_conn' = [peer_conn EXCEPT ![n][m] = Free]
        /\ dial' = IF e = "s" THEN dial ELSE [dial EXCEPT ![n][m] = "dial"]
        /\ Move(i, e, "gone")
        /\ msgs' = msgs \ MessagesTo(i, e)
        /\ UNCHANGED <<up, saving, peer_list, peer_sources, sources, notify_source, left,
                       spoiled, outdated, late>>

\* accept_bi fails: the entries of the host go, and the client dials again if
\* the peer did not close the connection.
\* The requests that were accepted by then are still handled.
Lost(i, e) ==
    LET n == At(i, e)  m == Remote(i, e)
    IN  /\ conns[i].end[e] = "open" /\ conns[i].state \in {"lost", "closed"}
        /\ peer_conn' = [peer_conn EXCEPT ![n][m] = Free]
        /\ peer_sources' = [peer_sources EXCEPT ![n][m] = -1]
        /\ spoiled' = (spoiled \/ \E j \in Used \ {i} :
                                    /\ Pair(j) = {n, m} /\ conns[j].state = "alive"
                                    /\ conns[j].end[EndOf(j, n)] \in {"merge", "open"})
        /\ dial' = IF e = "s" THEN dial
                   ELSE [dial EXCEPT ![n][m] = IF conns[i].state = "lost" THEN "dial" ELSE "ended"]
        /\ Move(i, e, "gone")
        /\ \E accepted \in SUBSET MessagesTo(i, e) :
              msgs' = (msgs \ MessagesTo(i, e)) \cup
                      {[msg EXCEPT !.conn = Free] : msg \in accepted}
        /\ UNCHANGED <<up, saving, peer_list, sources, notify_source, left, outdated, late>>

-----------------------------------------------------------------------------
(* Faults.                                                                 *)

\* A connection times out.
Drop(i) ==
    /\ left.drops > 0 /\ left' = [left EXCEPT !.drops = @ - 1]
    /\ conns[i].state = "alive"
    /\ conns' = [conns EXCEPT ![i].state = "lost"]
    /\ UNCHANGED <<up, saving, peer_list, dial, peer_conn, peer_sources, sources,
                   notify_source, msgs, spoiled, outdated, late>>

\* The ends that a node has are gone; how is what the far end will see.
Without(n, i, how) ==
    LET rest == Moved(i, EndOf(i, n), "gone")
    IN  IF n \notin Pair(i) THEN conns[i]
        ELSE IF rest # Free /\ rest.state = "alive" THEN [rest EXCEPT !.state = how]
        ELSE rest

\* What n knows and its file does not is forgotten: the list of a task that
\* has not written it, or a client that was answered and not yet merged and
\* that will not dial again.
Forgets(n, how) ==
    \/ \E t \in saves : t.node = n
    \/ \E i \in Used : At(i, "s") = n /\ conns[i].end["s"] = "answer" /\ how[i] = "closed"

Stop(n, how) ==
    /\ n \in up /\ up' = up \ {n}
    /\ saves' = {t \in saves : t.node # n}
    /\ unsaved' = IF Forgets(n, how) THEN unsaved \cup {n} ELSE unsaved
    /\ conns' = [i \in Places |-> IF i \in Used THEN Without(n, i, how[i]) ELSE Free]
    /\ peer_conn' = [peer_conn EXCEPT ![n] = [m \in Nodes |-> Free]]
    /\ peer_sources' = [peer_sources EXCEPT ![n] = [m \in Nodes |-> -1]]
    /\ peer_list' = [peer_list EXCEPT ![n] = {}]
    /\ dial' = [dial EXCEPT ![n] = [m \in Nodes |-> "none"]]
    /\ notify_source' = [notify_source EXCEPT ![n] = FALSE]
    /\ msgs' = {msg \in msgs : msg.to # n}
    /\ UNCHANGED <<file, sources, spoiled, outdated, late>>

Crash(n) ==
    /\ left.crashes > 0 /\ left' = [left EXCEPT !.crashes = @ - 1]
    /\ Stop(n, [i \in Used |-> "lost"])

\* wait_shutdown: the main loops and the server endpoint close theirs.
Shutdown(n) ==
    /\ left.shutdowns > 0 /\ left' = [left EXCEPT !.shutdowns = @ - 1]
    /\ Stop(n, [i \in Used |->
          IF EndOf(i, n) = "s" \/ conns[i].end["c"] = "open" THEN "closed" ELSE "lost"])

\* The process starts again, or a new generation does, with the peers of its configuration file.
Restart(n) ==
    /\ n \in left.members \ up /\ up' = up \cup {n}
    /\ peer_list' = [peer_list EXCEPT ![n] = file[n]]
    /\ dial' = [dial EXCEPT ![n] = Dialled(n, file[n])]
    /\ sources' = [sources EXCEPT ![n] = @ + 1]
    /\ UNCHANGED <<saving, conns, peer_conn, peer_sources, notify_source, msgs,
                   left, spoiled, outdated, late>>

-----------------------------------------------------------------------------
Step(i) ==
    \/ Answer(i)
    \/ \E e \in Ends :
          \/ Duplicate(i, e) \/ Check(i, e) \/ SetupFails(i, e)
          \/ Merge(i, e) \/ Join(i, e) \/ Lost(i, e)

\* What the tasks do, and the start of a node that has stopped.
Work ==
    \/ \E n \in Nodes, m \in Nodes : Connect(n, m)
    \/ \E i \in Used : Step(i)
    \/ \E msg \in msgs : Receive(msg)
    \/ \E t \in saves : Save(t) \/ SaveFails(t)
    \/ \E n \in Nodes : Broadcast(n) \/ Restart(n)

Next ==
    \/ Work
    \/ \E i \in Used : Drop(i)
    \/ \E n \in Nodes : ChangeSources(n) \/ Crash(n) \/ Shutdown(n)

Spec == Init /\ [][Next]_vars

\* Somebody goes on while somebody can: the tasks, the network, or whoever
\* starts a node again.
FairSpec == Spec /\ WF_vars(Work)

-----------------------------------------------------------------------------
(* Properties.                                                             *)

\* No connection of a pair is being set up or is dead, and one is there.
Steady(n, m) ==
    LET between == {i \in Used : Pair(i) = {n, m}}
    IN  /\ n \in up /\ m \in up /\ between # {}
        /\ \A i \in between : conns[i].state = "alive" /\ conns[i].end = [e \in Ends |-> "open"]

\* When a pair is connected and nothing is on its way, each has the list of
\* sources of the other.  The exceptions are what the code leaves open: a
\* list read before the sources change and the connection joined peer_conn,
\* and lists that overtake each other, both in `outdated'.
SourcesShared ==
    \A n \in Nodes, m \in Nodes :
        \/ n = m \/ spoiled \/ <<n, m>> \in outdated
        \/ ~Steady(n, m) \/ notify_source[m] \/ msgs # {}
        \/ peer_sources[n][m] = sources[m]

\* Giganto does not keep the sources of a peer to which it has no connection,
\* unless a request of that peer was handled after the connection had ended.
NoSourcesOfStrangers ==
    \A n \in Nodes, m \in Nodes :
        peer_sources[n][m] # -1 =>
            \/ <<n, m>> \in late
            \/ \E i \in Used : Pair(i) = {n, m} /\ n \in up

\* Something is left that will bring n, which runs, and m together: one of
\* them is about to dial, m is down and will dial n when it is started again,
\* or there is a connection that is alive, or of which the client has not yet
\* noticed that it is not.
WayBetween(n, m) ==
    \/ dial[n][m] = "dial" \/ dial[m][n] = "dial"
    \/ m \notin up /\ n \in file[m]
    \/ \E i \in Used :
          /\ Pair(i) = {n, m}
          /\ \/ conns[i].state = "alive"
             \/ conns[i].state = "lost" /\ conns[i].end["c"] # "gone"
             \/ conns[i].state = "closed" /\ conns[i].end["c"] \in {"hello", "init"}

\* The two ends of a pair never leave the connection to each other at the
\* same time.  Both dial, and check_for_duplicate_connections, the end of a
\* connection that the peer closed, and the end of one that a peer dialled,
\* each make a task return for good; then the other end has a task that
\* dials, or a connection is there, or the peer has this node in its file.
\* The exceptions are those of EveryoneMeets, and only for the one whose file
\* is without a peer: a peer that is not in `unsaved' comes back.
NoPairGivesUp ==
    spoiled \/ \A n \in up : \A m \in peer_list[n] : m \in unsaved \/ WayBetween(n, m)

AllConnected ==
    \A n \in left.members : \A m \in left.members \ {n} :
        n \in up /\ m \in peer_list[n] /\ peer_conn[n][m] # Free

\* In the end everyone knows everyone and is connected to everyone, whoever
\* dialled whom first and whoever crashed, with the exceptions that the code
\* has.  A task of client_connection gave up: at a duplicate of a connection
\* that was dead, at a connection lost while it was set up, or with the entry
\* of another connection removed (`spoiled').  Or a file is without a peer: a
\* write failed, an older list was written over a newer one, or the node
\* stopped before a write or between its answer and its merge (`unsaved').
EveryoneMeets == <>[](AllConnected \/ spoiled \/ unsaved # {})
=============================================================================
