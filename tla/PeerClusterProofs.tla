-------------------------- MODULE PeerClusterProofs --------------------------
(***************************************************************************)
(* Proofs about PeerCluster, for any number of nodes, whatever they know   *)
(* of each other at the start, and however many connections they have.     *)
(***************************************************************************)
EXTENDS PeerCluster, TLAPS

USE DEF saving

-----------------------------------------------------------------------------
(* Types.                                                                  *)

Messages ==
    [conn : Places \cup {Free}, end : Ends, from : Nodes, to : Nodes,
     what : {"peers", "sources"}, peers : SUBSET Nodes, sources : Nat]

\* Nobody dials itself, or has itself in its list or file.
Types ==
    /\ up \subseteq Nodes
    /\ file \in [Nodes -> SUBSET Nodes] /\ \A n \in Nodes : n \notin file[n]
    /\ peer_list \in [Nodes -> SUBSET Nodes] /\ \A n \in Nodes : n \notin peer_list[n]
    /\ dial \in [Nodes -> [Nodes -> {"none", "dial", "busy", "ended"}]]
    /\ \A n \in Nodes : dial[n][n] # "dial"
    /\ conns \in [Places -> Connections \cup {Free}]
    /\ \A i \in Used : i[1] # i[2]
    /\ peer_conn \in [Nodes -> [Nodes -> Places \cup {Free}]]
    /\ peer_sources \in [Nodes -> [Nodes -> Nat \cup {-1}]]
    /\ sources \in [Nodes -> Nat] /\ notify_source \in [Nodes -> BOOLEAN]
    /\ msgs \subseteq Messages
    /\ spoiled \in BOOLEAN
    /\ \A t \in saves : t.node \in Nodes

End(i, e) == conns[i].end[e]
State(i) == conns[i].state
Settled == {"merge", "open"}
Early == {"hello", "init", "answer"}   \* the other's lists are not taken over
Ahead == {"answer", "merge", "open"}   \* the server has the client's lists

\* A connection of which both ends are there is alive, only running nodes have
\* ends, and an end takes over the other's lists after that has read them.
Wired ==
    \A i \in Used, e \in Ends :
        /\ End(i, e) # "gone" => At(i, e) \in up
        /\ State(i) = "alive" => End(i, e) # "gone"
        /\ State(i) = "alive" /\ End(i, e) \in Ahead => End(i, Other(e)) # "hello"

\* What is in peer_conn is a connection to that node, in its main loop.
Entered ==
    \A n \in Nodes, m \in Nodes : \A i \in Places : peer_conn[n][m] = i =>
        /\ i \in Used
        /\ \E e \in Ends : At(i, e) = n /\ Remote(i, e) = m /\ End(i, e) = "open"

\* A message goes to an end that is there.
Addressed ==
    \A msg \in msgs : msg.conn # Free =>
        /\ msg.conn \in Used /\ At(msg.conn, msg.end) = msg.to
        /\ Remote(msg.conn, msg.end) = msg.from /\ End(msg.conn, msg.end) # "gone"

\* Sources are kept of those to whom there is a connection that got so far.
Kept ==
    \A n \in Nodes, m \in Nodes : peer_sources[n][m] # -1 /\ <<n, m>> \notin late =>
        \E i \in Used, e \in Ends : At(i, e) = n /\ Remote(i, e) = m /\ End(i, e) \in Settled

-----------------------------------------------------------------------------
(* Lemmas about the places and what is in them.                            *)

Points == {"hello", "init", "answer", "merge", "open", "gone"}
States == {"alive", "duplicate", "lost", "closed"}

\* The two ends of a connection and their nodes.
LEMMA EndFacts ==
    ASSUME NEW i \in Places, NEW e \in Ends
    PROVE  /\ Other(e) \in Ends /\ Other(e) # e /\ Other(Other(e)) = e
           /\ \A f \in Ends : f = e \/ f = Other(e)
           /\ At(i, e) \in Nodes /\ Remote(i, e) \in Nodes /\ Remote(i, Other(e)) = At(i, e)
           /\ Pair(i) = {At(i, e), Remote(i, e)}
           /\ i[1] # i[2] => At(i, e) # Remote(i, e)
           /\ i[1] # i[2] => EndOf(i, At(i, e)) = e
BY DEF Places, Ends, Other, At, Remote, Pair, EndOf

\* What a connection is made of.
LEMMA ConnFacts ==
    ASSUME Types, NEW i \in Used
    PROVE  /\ i \in Places /\ conns[i] \in Connections /\ conns[i] # Free
           /\ State(i) \in States /\ i[1] # i[2]
           /\ \A e \in Ends : End(i, e) \in Points /\ conns[i].sources[e] \in Nat
BY DEF Types, Used, Connections, State, End, Points, States

\* One place changes.
OnlyAt(i) ==
    /\ conns' \in [Places -> Connections \cup {Free}]
    /\ Used' \subseteq Used \cup {i} /\ Used \ {i} \subseteq Used'
    /\ \A j \in Places \ {i} : conns'[j] = conns[j]

\* An end gets to a point, or its connection leaves its place.
Moves(i, e, to) ==
    /\ i \in Used /\ OnlyAt(i)
    /\ i \in Used' =>
          /\ State(i)' = State(i) /\ \A f \in Ends : conns'[i].sources[f] = conns[i].sources[f]
          /\ End(i, e)' = to /\ End(i, Other(e))' = End(i, Other(e))
    /\ i \notin Used' => to = "gone" /\ End(i, Other(e)) = "gone"

\* A move of one end.
LEMMA MoveFacts ==
    ASSUME Types, NEW i \in Used, NEW e \in Ends, NEW to \in Points, Move(i, e, to)
    PROVE  Moves(i, e, to)
<1>0. /\ i \in Places /\ conns[i] \in Connections /\ conns[i] # Free
      /\ Other(e) \in Ends /\ Other(e) # e /\ conns \in [Places -> Connections \cup {Free}]
  BY ConnFacts, EndFacts DEF Types
<1> DEFINE r == Moved(i, e, to)
<1>1. conns' = [conns EXCEPT ![i] = r]
  BY DEF Move
<1>2. CASE to = "gone" /\ End(i, Other(e)) = "gone"
  <2>1. r = Free
    BY <1>2 DEF Moved, End
  <2> HIDE DEF r
  <2>2. conns'[i] = Free /\ conns' \in [Places -> Connections \cup {Free}]
    BY <1>0, <1>1, <2>1
  <2> QED BY <1>0, <1>1, <1>2, <2>2 DEF Moves, OnlyAt, Used
<1>3. CASE ~(to = "gone" /\ End(i, Other(e)) = "gone")
  <2>1. r = [conns[i] EXCEPT !.end[e] = to]
    BY <1>3 DEF Moved, End
  <2>2. /\ r \in Connections /\ r.state = conns[i].state /\ r.sources = conns[i].sources
        /\ r.end[e] = to /\ r.end[Other(e)] = conns[i].end[Other(e)]
    BY <1>0, <2>1 DEF Connections, Points
  <2> HIDE DEF r
  <2>3. conns'[i] = r /\ conns' \in [Places -> Connections \cup {Free}]
    BY <1>0, <1>1, <2>2
  <2>4. i \in Used'
    BY <1>0, <2>2, <2>3, FreeAssumption DEF Used
  <2> QED BY <1>0, <1>1, <2>2, <2>3, <2>4 DEF Moves, OnlyAt, Used, State, End
<1> QED BY <1>2, <1>3

\* check_for_duplicate_connections drops an end.
LEMMA DuplicateFacts ==
    ASSUME Types, NEW i \in Used, NEW e \in Ends, Duplicate(i, e)
    PROVE  /\ OnlyAt(i) /\ End(i, e) = "hello" /\ peer_conn[At(i, e)][Remote(i, e)] # Free
           /\ i \in Used' =>
                 /\ State(i)' = "duplicate" /\ \A f \in Ends : conns'[i].sources[f] = conns[i].sources[f]
                 /\ End(i, e)' = "gone" /\ End(i, Other(e))' = End(i, Other(e))
           /\ i \notin Used' => End(i, Other(e)) = "gone"
           /\ spoiled' \in BOOLEAN /\ (spoiled => spoiled')
           /\ GiveUp(i, e)
<1>0. /\ i \in Places /\ conns[i] \in Connections /\ conns[i] # Free
      /\ Other(e) \in Ends /\ Other(e) # e /\ conns \in [Places -> Connections \cup {Free}]
  BY ConnFacts, EndFacts DEF Types
<1> DEFINE r == IF conns[i].end[Other(e)] = "gone" THEN Free
                ELSE [conns[i] EXCEPT !.end[e] = "gone", !.state = "duplicate"]
<1>1. /\ conns' = [conns EXCEPT ![i] = r] /\ End(i, e) = "hello"
      /\ peer_conn[At(i, e)][Remote(i, e)] # Free /\ GiveUp(i, e)
  BY DEF Duplicate, End
<1>2. spoiled' \in BOOLEAN /\ (spoiled => spoiled')
  BY DEF Duplicate, Types
<1>3. CASE End(i, Other(e)) = "gone"
  <2>1. r = Free
    BY <1>3 DEF End
  <2> HIDE DEF r
  <2>2. conns'[i] = Free /\ conns' \in [Places -> Connections \cup {Free}]
    BY <1>0, <1>1, <2>1
  <2> QED BY <1>0, <1>1, <1>2, <1>3, <2>2 DEF OnlyAt, Used
<1>4. CASE End(i, Other(e)) # "gone"
  <2>1. r = [conns[i] EXCEPT !.end[e] = "gone", !.state = "duplicate"]
    BY <1>4 DEF End
  <2> DEFINE half == [conns[i] EXCEPT !.end[e] = "gone"]
  <2>a. /\ half \in Connections /\ half.sources = conns[i].sources
        /\ half.end[e] = "gone" /\ half.end[Other(e)] = conns[i].end[Other(e)]
    BY <1>0 DEF Connections
  <2>b. r = [half EXCEPT !.state = "duplicate"]
    BY <2>1
  <2> HIDE DEF half
  <2>2. /\ r \in Connections /\ r.state = "duplicate" /\ r.sources = conns[i].sources
        /\ r.end[e] = "gone" /\ r.end[Other(e)] = conns[i].end[Other(e)]
    BY <2>a, <2>b DEF Connections
  <2> HIDE DEF r
  <2>3. conns'[i] = r /\ conns' \in [Places -> Connections \cup {Free}]
    BY <1>0, <1>1, <2>2
  <2>4. i \in Used'
    BY <1>0, <2>2, <2>3, FreeAssumption DEF Used
  <2> QED BY <1>0, <1>1, <1>2, <2>2, <2>3, <2>4 DEF OnlyAt, Used, State, End
<1> QED BY <1>3, <1>4

\* The lists are read.
LEMMA CheckFacts ==
    ASSUME Types, NEW i \in Used, NEW e \in Ends, Check(i, e)
    PROVE  /\ OnlyAt(i) /\ End(i, e) = "hello" /\ peer_conn[At(i, e)][Remote(i, e)] = Free
           /\ i \in Used' /\ State(i)' = State(i)
           /\ End(i, e)' = "init" /\ End(i, Other(e))' = End(i, Other(e))
           /\ conns'[i].sources[e] = sources[At(i, e)]
           /\ conns'[i].sources[Other(e)] = conns[i].sources[Other(e)]
           /\ e = "c" => At(i, e) \in conns'[i].peers[e]
           /\ conns'[i].peers[Other(e)] = conns[i].peers[Other(e)]
           /\ UNCHANGED <<up, file, saves, unsaved, peer_list, dial, peer_conn, peer_sources, sources,
                          notify_source, msgs, left, spoiled, outdated, late>>
<1>0. /\ i \in Places /\ conns[i] \in Connections /\ conns[i] # Free
      /\ Other(e) \in Ends /\ Other(e) # e /\ conns \in [Places -> Connections \cup {Free}]
      /\ At(i, e) \in Nodes
  BY ConnFacts, EndFacts DEF Types
<1> DEFINE own == IF e = "c" THEN {At(i, e)} ELSE {}
<1>1. /\ conns' = [conns EXCEPT ![i].end[e] = "init",
                                ![i].peers[e] = peer_list[At(i, e)] \cup own,
                                ![i].sources[e] = sources[At(i, e)]]
      /\ End(i, e) = "hello" /\ peer_conn[At(i, e)][Remote(i, e)] = Free
      /\ UNCHANGED <<up, file, saves, unsaved, peer_list, dial, peer_conn, peer_sources, sources,
                     notify_source, msgs, left, spoiled, outdated, late>>
  BY DEF Check, End
<1>2. /\ peer_list[At(i, e)] \cup own \in SUBSET Nodes /\ sources[At(i, e)] \in Nat
      /\ e = "c" => At(i, e) \in own
  BY <1>0 DEF Types
<1> HIDE DEF own
<1>3. /\ conns'[i].state = conns[i].state /\ DOMAIN conns' = Places
      /\ conns'[i].end = [conns[i].end EXCEPT ![e] = "init"]
      /\ conns'[i].sources = [conns[i].sources EXCEPT ![e] = sources[At(i, e)]]
      /\ conns'[i].peers = [conns[i].peers EXCEPT ![e] = peer_list[At(i, e)] \cup own]
      /\ \A j \in Places \ {i} : conns'[j] = conns[j]
  BY <1>0, <1>1 DEF Connections
<1>4. conns'[i] \in Connections
  BY <1>0, <1>1, <1>2 DEF Connections
<1>5. conns' \in [Places -> Connections \cup {Free}]
  BY <1>0, <1>1, <1>3, <1>4
<1>6. i \in Used'
  BY <1>0, <1>4, FreeAssumption DEF Used
<1>7. OnlyAt(i)
  BY <1>0, <1>3, <1>5 DEF OnlyAt, Used
<1>8. /\ End(i, e)' = "init" /\ End(i, Other(e))' = End(i, Other(e)) /\ State(i)' = State(i)
      /\ conns'[i].sources[e] = sources[At(i, e)]
      /\ conns'[i].sources[Other(e)] = conns[i].sources[Other(e)]
  BY <1>0, <1>3 DEF State, End, Connections
<1>9. /\ e = "c" => At(i, e) \in conns'[i].peers[e]
      /\ conns'[i].peers[Other(e)] = conns[i].peers[Other(e)]
  BY <1>0, <1>2, <1>3 DEF Connections
<1> QED BY <1>1, <1>6, <1>7, <1>8, <1>9

\* A connection is made.
LEMMA ConnectFacts ==
    ASSUME Types, NEW n \in Nodes, NEW m \in Nodes, Connect(n, m)
    PROVE  /\ n \in up /\ m \in up /\ n # m
           /\ dial' = [dial EXCEPT ![n][m] = "busy"]
           /\ UNCHANGED <<up, file, saves, unsaved, peer_list, peer_conn, peer_sources, sources,
                          notify_source, msgs, left, spoiled, outdated, late>>
           /\ \E i \in Places :
                 /\ OnlyAt(i) /\ i \notin Used /\ i \in Used' /\ i[1] = n /\ i[2] = m
                 /\ State(i)' = "alive"
                 /\ \A e \in Ends : End(i, e)' = "hello" /\ conns'[i].sources[e] = 0
<1>1. /\ n \in up /\ m \in up /\ dial[n][m] = "dial" /\ dial' = [dial EXCEPT ![n][m] = "busy"]
      /\ UNCHANGED <<up, file, saves, unsaved, peer_list, peer_conn, peer_sources, sources,
                     notify_source, msgs, left, spoiled, outdated, late>>
  BY DEF Connect
<1>2. n # m
  BY <1>1 DEF Types
<1>3. PICK g \in 1..MaxConns :
          conns[<<n, m, g>>] = Free /\ conns' = [conns EXCEPT ![<<n, m, g>>] = Conn("hello")]
  BY DEF Connect
<1>4. PICK i : i = <<n, m, g>>
  OBVIOUS
<1>5. i \in Places /\ i[1] = n /\ i[2] = m
  BY <1>4 DEF Places
<1>6. conns[i] = Free /\ conns' = [conns EXCEPT ![i] = Conn("hello")]
  BY <1>3, <1>4
<1>7. /\ Conn("hello") \in Connections /\ Conn("hello").state = "alive"
      /\ \A e \in Ends : Conn("hello").end[e] = "hello" /\ Conn("hello").sources[e] = 0
  BY DEF Conn, Connections
<1>8. conns' \in [Places -> Connections \cup {Free}] /\ conns'[i] = Conn("hello")
  BY <1>5, <1>6, <1>7 DEF Types
<1>9. OnlyAt(i) /\ i \notin Used /\ i \in Used'
  BY <1>5, <1>6, <1>7, <1>8, FreeAssumption DEF OnlyAt, Used, Types
<1> QED BY <1>1, <1>2, <1>5, <1>7, <1>8, <1>9 DEF State, End

\* What a list of peers and a list of sources change.
LEMMA LearnPeersFacts ==
    ASSUME Types, NEW n \in Nodes, NEW list \in SUBSET Nodes, NEW by, LearnPeers(n, list, by)
    PROVE  /\ file' = file /\ unsaved' = unsaved
           /\ \A t \in saves' : t.node \in Nodes
           /\ peer_list' \in [Nodes -> SUBSET Nodes] /\ \A m \in Nodes : m \notin peer_list'[m]
           /\ dial' \in [Nodes -> [Nodes -> {"none", "dial", "busy", "ended"}]]
           /\ \A m \in Nodes : dial'[m][m] # "dial"
<1> DEFINE new == list \ (peer_list[n] \cup {n})
<1>1. /\ peer_list' = [peer_list EXCEPT ![n] = peer_list[n] \cup new]
      /\ dial' = [dial EXCEPT ![n] = [m \in Nodes |-> IF m \in new THEN "dial" ELSE dial[n][m]]]
      /\ saves' = (IF new = {} THEN saves
                   ELSE saves \cup {[node |-> n, by |-> by, list |-> peer_list[n] \cup new]})
      /\ UNCHANGED <<file, unsaved>>
  BY DEF LearnPeers
<1>2. peer_list[n] \cup new \in SUBSET Nodes /\ n \notin peer_list[n] \cup new /\ n \notin new
  BY DEF Types
<1> HIDE DEF new
<1>3. \A t \in saves' : t.node \in Nodes
  BY <1>1 DEF Types
<1>4. peer_list' \in [Nodes -> SUBSET Nodes] /\ \A m \in Nodes : m \notin peer_list'[m]
  BY <1>1, <1>2 DEF Types
<1>5. /\ dial' \in [Nodes -> [Nodes -> {"none", "dial", "busy", "ended"}]]
      /\ \A m \in Nodes : dial'[m][m] # "dial"
  <2> DEFINE d == [m \in Nodes |-> IF m \in new THEN "dial" ELSE dial[n][m]]
  <2>1. d \in [Nodes -> {"none", "dial", "busy", "ended"}] /\ d[n] # "dial"
    BY <1>2 DEF Types
  <2>2. dial' = [dial EXCEPT ![n] = d]
    BY <1>1
  <2> HIDE DEF d
  <2> QED BY <2>1, <2>2 DEF Types
<1> QED BY <1>1, <1>3, <1>4, <1>5

\* An entry of a table of nodes and nodes.
LEMMA EntryFacts ==
    ASSUME NEW S, NEW t \in [Nodes -> [Nodes -> S]], NEW n \in Nodes, NEW m \in Nodes, NEW v \in S,
           NEW u, u = [t EXCEPT ![n][m] = v]
    PROVE  /\ u \in [Nodes -> [Nodes -> S]] /\ u[n][m] = v
           /\ \A a \in Nodes, b \in Nodes : <<a, b>> # <<n, m>> => u[a][b] = t[a][b]
OBVIOUS

\* What taking over a peer's list of sources changes.
LEMMA LearnSourcesFacts ==
    ASSUME Types, NEW n \in Nodes, NEW m \in Nodes, NEW list \in Nat, LearnSources(n, m, list)
    PROVE  /\ peer_sources' \in [Nodes -> [Nodes -> Nat \cup {-1}]] /\ peer_sources'[n][m] = list
           /\ \A a \in Nodes, b \in Nodes : <<a, b>> # <<n, m>> => peer_sources'[a][b] = peer_sources[a][b]
           /\ outdated \subseteq outdated'
           /\ list < peer_sources[n][m] => <<n, m>> \in outdated'
<1>1. /\ peer_sources' = [peer_sources EXCEPT ![n][m] = list]
      /\ outdated' = IF list < peer_sources[n][m] THEN outdated \cup {<<n, m>>} ELSE outdated
  BY DEF LearnSources
<1>2. /\ peer_sources' \in [Nodes -> [Nodes -> Nat \cup {-1}]] /\ peer_sources'[n][m] = list
      /\ \A a \in Nodes, b \in Nodes : <<a, b>> # <<n, m>> => peer_sources'[a][b] = peer_sources[a][b]
  <2>1. peer_sources \in [Nodes -> [Nodes -> Nat \cup {-1}]] /\ list \in Nat \cup {-1}
    BY DEF Types
  <2> QED BY <1>1, <2>1, EntryFacts
<1> QED BY <1>1, <1>2

\* Whom update_peer_info tells of what.
LEMMA TellFacts ==
    ASSUME Types, Entered, NEW n \in Nodes, NEW what \in {"peers", "sources"},
           NEW peers \in SUBSET Nodes, NEW list \in Nat
    PROVE  /\ \A msg \in Tell(n, what, peers, list) :
                 /\ msg \in Messages /\ msg.conn \in Used /\ State(msg.conn) = "alive"
                 /\ msg.to = At(msg.conn, msg.end) /\ msg.from = n
                 /\ n = Remote(msg.conn, msg.end) /\ End(msg.conn, Other(msg.end)) = "open"
                 /\ msg.what = what /\ msg.sources = list
           /\ \A m \in Nodes : \A i \in Used : peer_conn[n][m] = i /\ State(i) = "alive" =>
                 \E msg \in Tell(n, what, peers, list) :
                    msg.from = n /\ msg.to = m /\ msg.what = what /\ msg.sources = list
                    /\ msg.conn = i /\ End(i, Other(msg.end)) = "open"
<1> DEFINE M(i) == [conn |-> i, end |-> FarEnd(i, n), from |-> n, to |-> At(i, FarEnd(i, n)),
                    what |-> what, peers |-> peers, sources |-> list]
<1>1. ASSUME NEW m \in Nodes, NEW i \in Used, peer_conn[n][m] = i
      PROVE  /\ FarEnd(i, n) \in Ends /\ At(i, FarEnd(i, n)) = m /\ Remote(i, FarEnd(i, n)) = n
             /\ End(i, Other(FarEnd(i, n))) = "open" /\ i \in Places
  <2>1. i \in Places /\ i[1] # i[2]
    BY ConnFacts
  <2>2. PICK e \in Ends : At(i, e) = n /\ Remote(i, e) = m /\ End(i, e) = "open"
    BY <1>1, <2>1 DEF Entered
  <2>3. FarEnd(i, n) = Other(e)
    BY <2>1, <2>2, EndFacts DEF FarEnd
  <2> QED BY <2>1, <2>2, <2>3, EndFacts DEF Remote
<1>2. Tell(n, what, peers, list) = {M(i) : i \in {j \in Connected(n) : State(j) = "alive"}}
  BY DEF Tell, State
<1>3. \A i \in Connected(n) : \E m \in Nodes : peer_conn[n][m] = i /\ i \in Used
  <2> SUFFICES ASSUME NEW i \in Connected(n) PROVE \E m \in Nodes : peer_conn[n][m] = i /\ i \in Used
    OBVIOUS
  <2>1. PICK m \in Nodes : peer_conn[n][m] = i /\ i # Free
    BY DEF Connected
  <2>2. i \in Places
    BY <2>1 DEF Types
  <2> QED BY <2>1, <2>2 DEF Entered
<1>4. ASSUME NEW msg \in Tell(n, what, peers, list)
      PROVE  /\ msg \in Messages /\ msg.conn \in Used /\ State(msg.conn) = "alive"
             /\ msg.to = At(msg.conn, msg.end) /\ msg.from = n
             /\ n = Remote(msg.conn, msg.end) /\ End(msg.conn, Other(msg.end)) = "open"
             /\ msg.what = what /\ msg.sources = list
  <2>1. PICK i \in Connected(n) : State(i) = "alive" /\ msg = M(i)
    BY <1>2, <1>4
  <2>2. PICK m \in Nodes : peer_conn[n][m] = i /\ i \in Used
    BY <1>3
  <2>3. /\ FarEnd(i, n) \in Ends /\ At(i, FarEnd(i, n)) = m /\ Remote(i, FarEnd(i, n)) = n
        /\ End(i, Other(FarEnd(i, n))) = "open" /\ i \in Places
    BY <1>1, <2>2
  <2>4. /\ msg.conn = i /\ msg.end = FarEnd(i, n) /\ msg.from = n /\ msg.to = At(i, FarEnd(i, n))
        /\ msg.what = what /\ msg.sources = list
    BY <2>1
  <2>5. msg \in Messages
    BY <2>1, <2>3 DEF Messages
  <2> QED BY <2>1, <2>2, <2>3, <2>4, <2>5
<1>5. ASSUME NEW m \in Nodes, NEW i \in Used, peer_conn[n][m] = i, State(i) = "alive"
      PROVE  \E msg \in Tell(n, what, peers, list) :
                    msg.from = n /\ msg.to = m /\ msg.what = what /\ msg.sources = list
                    /\ msg.conn = i /\ End(i, Other(msg.end)) = "open"
  <2>1. /\ At(i, FarEnd(i, n)) = m /\ End(i, Other(FarEnd(i, n))) = "open" /\ i \in Places
    BY <1>1, <1>5
  <2>2. i \in Connected(n)
    BY <1>5, <2>1, FreeAssumption DEF Connected
  <2>3. M(i) \in Tell(n, what, peers, list)
    BY <1>2, <1>5, <2>2
  <2>4. /\ M(i).from = n /\ M(i).to = m /\ M(i).what = what /\ M(i).sources = list
        /\ M(i).conn = i /\ M(i).end = FarEnd(i, n)
    BY <2>1
  <2> HIDE DEF M
  <2> QED BY <2>1, <2>3, <2>4
<1> QED BY <1>4, <1>5

\* Where a node has been that stopped.
Leaves(n) ==
    /\ conns' \in [Places -> Connections \cup {Free}] /\ Used' \subseteq Used
    /\ \A i \in Used' : /\ n \notin Pair(i) => conns'[i] = conns[i]
                        /\ n \in Pair(i) => State(i)' # "alive"
                        /\ State(i) # "alive" => State(i)' = State(i)
                        /\ State(i) = "alive" /\ n \in Pair(i) => State(i)' \in {"lost", "closed"}
                        /\ \A e \in Ends : conns'[i].sources[e] = conns[i].sources[e]
                        /\ \A e \in Ends : IF At(i, e) = n THEN End(i, e)' = "gone"
                                           ELSE End(i, e)' = End(i, e)
    /\ \A i \in Used \ Used' : \A e \in Ends : At(i, e) # n => End(i, e) = "gone"
    /\ \A i \in Used \ Used' : n \in Pair(i)

\* What the end of a node changes.
LEMMA StopFacts ==
    ASSUME Types, NEW n \in Nodes, NEW how, \A i \in Used : how[i] \in {"lost", "closed"}, Stop(n, how)
    PROVE  Leaves(n)
<1>1. conns' = [i \in Places |-> IF i \in Used THEN Without(n, i, how[i]) ELSE Free]
  BY DEF Stop
<1>2. ASSUME NEW i \in Used
      PROVE  /\ conns'[i] \in Connections \cup {Free}
             /\ conns'[i] # Free =>
                  /\ n \notin Pair(i) => conns'[i] = conns[i]
                  /\ n \in Pair(i) => conns'[i].state # "alive"
                  /\ conns[i].state # "alive" => conns'[i].state = conns[i].state
                  /\ conns[i].state = "alive" /\ n \in Pair(i) => conns'[i].state \in {"lost", "closed"}
                  /\ \A e \in Ends : conns'[i].sources[e] = conns[i].sources[e]
                  /\ \A e \in Ends : IF At(i, e) = n THEN conns'[i].end[e] = "gone"
                                     ELSE conns'[i].end[e] = conns[i].end[e]
             /\ conns'[i] = Free => /\ \A e \in Ends : At(i, e) # n => End(i, e) = "gone"
                                    /\ n \in Pair(i)
  <2>1. /\ i \in Places /\ conns[i] \in Connections /\ conns[i] # Free /\ State(i) \in States /\ i[1] # i[2]
    BY ConnFacts
  <2>2. conns'[i] = Without(n, i, how[i])
    BY <1>1, <2>1
  <2>3. CASE n \notin Pair(i)
    <3>1. conns'[i] = conns[i]
      BY <2>2, <2>3 DEF Without
    <3>2. \A e \in Ends : At(i, e) # n
      BY <2>1, <2>3, EndFacts
    <3> QED BY <2>1, <2>3, <3>1, <3>2
  <2>4. CASE n \in Pair(i)
    <3>1. PICK e \in Ends : At(i, e) = n
      BY <2>4 DEF Pair, Ends
    <3>2. /\ EndOf(i, n) = e /\ Other(e) \in Ends /\ Other(e) # e /\ At(i, Other(e)) # n
          /\ \A f \in Ends : f = e \/ f = Other(e)
      BY <2>1, <3>1, EndFacts DEF Remote
    <3> DEFINE rest == Moved(i, e, "gone")
    <3>3. conns'[i] = (IF rest # Free /\ rest.state = "alive" THEN [rest EXCEPT !.state = how[i]] ELSE rest)
      BY <2>2, <2>4, <3>2 DEF Without
    <3>4. CASE End(i, Other(e)) = "gone"
      <4>1. rest = Free
        BY <3>4 DEF Moved, End
      <4>2. conns'[i] = Free
        BY <3>3, <4>1
      <4> QED BY <2>4, <3>1, <3>2, <3>4, <4>2 DEF End
    <3>5. CASE End(i, Other(e)) # "gone"
      <4>1. rest = [conns[i] EXCEPT !.end[e] = "gone"]
        BY <3>5 DEF Moved, End
      <4>2. /\ rest \in Connections /\ rest.state = conns[i].state /\ rest.sources = conns[i].sources
            /\ rest.end[e] = "gone" /\ rest.end[Other(e)] = conns[i].end[Other(e)]
        BY <2>1, <3>2, <4>1 DEF Connections
      <4> HIDE DEF rest
      <4>3. rest # Free
        BY <4>2, FreeAssumption
      <4>4. CASE rest.state = "alive"
        <5>1. conns'[i] = [rest EXCEPT !.state = how[i]]
          BY <3>3, <4>3, <4>4
        <5>2. /\ conns'[i] \in Connections /\ conns'[i].state \in {"lost", "closed"} /\ conns'[i].sources = conns[i].sources
              /\ conns'[i].end[e] = "gone" /\ conns'[i].end[Other(e)] = conns[i].end[Other(e)]
          BY <4>2, <5>1 DEF Connections
        <5> QED BY <2>4, <3>1, <3>2, <4>2, <4>4, <5>2, FreeAssumption
      <4>5. CASE rest.state # "alive"
        <5>1. conns'[i] = rest
          BY <3>3, <4>5
        <5> QED BY <2>4, <3>1, <3>2, <4>2, <4>3, <4>5, <5>1
      <4> QED BY <4>4, <4>5
    <3> QED BY <3>4, <3>5
  <2> QED BY <2>3, <2>4
<1>3. \A i \in Places \ Used : conns'[i] = Free
  BY <1>1
<1>4. conns' \in [Places -> Connections \cup {Free}]
  <2>1. \A i \in Places : conns'[i] \in Connections \cup {Free}
    BY <1>2, <1>3
  <2> QED BY <1>1, <2>1
<1>5. Used' \subseteq Used /\ \A i \in Used' : conns'[i] # Free
  BY <1>3 DEF Used
<1>6. \A i \in Used \ Used' : conns'[i] = Free
  BY DEF Used
<1> QED BY <1>2, <1>4, <1>5, <1>6 DEF Leaves, State, End
-----------------------------------------------------------------------------
(* Types, and how connections, entries and messages belong together.       *)

\* The list of peers that an end has read.
LEMMA ConnPeersFacts ==
    ASSUME Types, NEW i \in Used
    PROVE  \A e \in Ends : conns[i].peers[e] \in SUBSET Nodes
BY ConnFacts DEF Connections

\* What giving up a connection changes.
LEMMA GiveUpFacts ==
    ASSUME Types, NEW i \in Used, NEW e \in Ends, GiveUp(i, e)
    PROVE  /\ dial' \in [Nodes -> [Nodes -> {"none", "dial", "busy", "ended"}]]
           /\ \A n \in Nodes : dial'[n][n] # "dial"
           /\ msgs' = msgs \ MessagesTo(i, e)
           /\ UNCHANGED <<up, file, saves, unsaved, peer_list, peer_conn, peer_sources, sources,
                          notify_source, left, outdated, late>>
<1>1. At(i, e) \in Nodes /\ Remote(i, e) \in Nodes
  BY ConnFacts, EndFacts
<1>2. /\ dial' = (IF e = "c" THEN [dial EXCEPT ![At(i, e)][Remote(i, e)] = "ended"] ELSE dial)
      /\ msgs' = msgs \ MessagesTo(i, e)
      /\ UNCHANGED <<up, file, saves, unsaved, peer_list, peer_conn, peer_sources, sources,
                     notify_source, left, outdated, late>>
  BY DEF GiveUp
<1>3. CASE e = "c"
  <2>1. dial' = [dial EXCEPT ![At(i, e)][Remote(i, e)] = "ended"]
    BY <1>2, <1>3
  <2>2. /\ dial \in [Nodes -> [Nodes -> {"none", "dial", "busy", "ended"}]]
        /\ "ended" \in {"none", "dial", "busy", "ended"} /\ \A n \in Nodes : dial[n][n] # "dial"
    BY DEF Types
  <2>3. /\ dial' \in [Nodes -> [Nodes -> {"none", "dial", "busy", "ended"}]]
        /\ dial'[At(i, e)][Remote(i, e)] = "ended"
        /\ \A a \in Nodes, b \in Nodes : <<a, b>> # <<At(i, e), Remote(i, e)>> => dial'[a][b] = dial[a][b]
    BY <1>1, <2>1, <2>2, EntryFacts
  <2>4. \A n \in Nodes : dial'[n][n] = dial[n][n] \/ dial'[n][n] = "ended"
    BY <2>3
  <2> QED BY <1>2, <2>2, <2>3, <2>4
<1>4. CASE e # "c"
  BY <1>2, <1>4 DEF Types
<1> QED BY <1>3, <1>4

\* Every step keeps the types.
LEMMA TypesStep == Types /\ Entered /\ [Next]_vars => Types'
<1> SUFFICES ASSUME Types, Entered, [Next]_vars PROVE Types'
  OBVIOUS
<1>1. ASSUME NEW n \in Nodes, NEW m \in Nodes, Connect(n, m) PROVE Types'
  <2>1. /\ n # m /\ dial' = [dial EXCEPT ![n][m] = "busy"]
        /\ UNCHANGED <<up, file, saves, unsaved, peer_list, peer_conn, peer_sources, sources,
                       notify_source, msgs, left, spoiled, outdated, late>>
        /\ \E i \in Places : OnlyAt(i) /\ i[1] = n /\ i[2] = m
    BY <1>1, ConnectFacts
  <2>2. conns' \in [Places -> Connections \cup {Free}] /\ \A j \in Used' : j[1] # j[2]
    BY <2>1 DEF OnlyAt, Types
  <2>3. /\ dial' \in [Nodes -> [Nodes -> {"none", "dial", "busy", "ended"}]]
        /\ \A a \in Nodes : dial'[a][a] # "dial"
    BY <2>1 DEF Types
  <2> QED BY <2>1, <2>2, <2>3 DEF Types
<1>2. ASSUME NEW i \in Used, NEW e \in Ends, Duplicate(i, e) \/ SetupFails(i, e) PROVE Types'
  <2>1. OnlyAt(i) /\ GiveUp(i, e) /\ spoiled' \in BOOLEAN
    <3>1. CASE Duplicate(i, e)
      BY <3>1, DuplicateFacts
    <3>2. CASE SetupFails(i, e)
      BY <3>2, MoveFacts DEF SetupFails, Moves, Points, Types
    <3> QED BY <1>2, <3>1, <3>2
  <2>2. conns' \in [Places -> Connections \cup {Free}] /\ \A j \in Used' : j[1] # j[2]
    BY <2>1 DEF OnlyAt, Types
  <2>3. /\ dial' \in [Nodes -> [Nodes -> {"none", "dial", "busy", "ended"}]]
        /\ \A n \in Nodes : dial'[n][n] # "dial"
        /\ msgs' \subseteq msgs
        /\ UNCHANGED <<up, file, saves, unsaved, peer_list, peer_conn, peer_sources, sources,
                       notify_source, left, outdated, late>>
    BY <2>1, GiveUpFacts
  <2> QED BY <2>1, <2>2, <2>3 DEF Types
<1>3. ASSUME NEW i \in Used, NEW e \in Ends, Check(i, e) PROVE Types'
  <2>1. /\ OnlyAt(i)
        /\ UNCHANGED <<up, file, saves, unsaved, peer_list, dial, peer_conn, peer_sources, sources,
                       notify_source, msgs, left, spoiled, outdated, late>>
    BY <1>3, CheckFacts
  <2>2. conns' \in [Places -> Connections \cup {Free}] /\ \A j \in Used' : j[1] # j[2]
    BY <2>1 DEF OnlyAt, Types
  <2> QED BY <2>1, <2>2 DEF Types
<1>15. ASSUME NEW i \in Used, Answer(i) PROVE Types'
  <2>1. /\ Move(i, "s", "answer")
        /\ UNCHANGED <<up, file, saves, unsaved, peer_list, dial, peer_conn, peer_sources, sources,
                       notify_source, msgs, left, spoiled, outdated, late>>
    BY <1>15 DEF Answer
  <2>2. OnlyAt(i)
    BY <2>1, MoveFacts DEF Moves, Points, Ends
  <2>3. conns' \in [Places -> Connections \cup {Free}] /\ \A j \in Used' : j[1] # j[2]
    BY <2>2 DEF OnlyAt, Types
  <2> QED BY <2>1, <2>3 DEF Types
<1>16. ASSUME NEW t \in saves, Save(t) \/ SaveFails(t) PROVE Types'
  <2>1. /\ saves' \subseteq saves
        /\ UNCHANGED <<up, peer_list, dial, conns, peer_conn, peer_sources, sources,
                       notify_source, msgs, spoiled, outdated, late>>
    BY <1>16 DEF Save, SaveFails
  <2>2. /\ file' \in [Nodes -> SUBSET Nodes] /\ \A n \in Nodes : n \notin file'[n]
    <3>1. PICK list \in SUBSET Nodes : t.node \notin list /\ (file' = file \/ file' = [file EXCEPT ![t.node] = list])
      <4>1. t.node \in Nodes /\ peer_list[t.node] \in SUBSET Nodes /\ t.node \notin peer_list[t.node]
        BY DEF Types
      <4>2. CASE Save(t)
        BY <4>1, <4>2 DEF Save
      <4>3. CASE SaveFails(t)
        BY <4>1, <4>3 DEF SaveFails
      <4> QED BY <1>16, <4>2, <4>3
    <3>2. CASE file' = file
      BY <3>2 DEF Types
    <3>3. CASE file' = [file EXCEPT ![t.node] = list]
      BY <3>1, <3>3 DEF Types
    <3> QED BY <3>1, <3>2, <3>3
  <2> QED BY <2>1, <2>2 DEF Types, Used
<1>4. ASSUME NEW i \in Used, NEW e \in Ends, Merge(i, e) PROVE Types'
  <2>1. /\ At(i, e) \in Nodes /\ Remote(i, e) \in Nodes /\ conns[i].sources[Other(e)] \in Nat
        /\ conns[i].peers[Other(e)] \in SUBSET Nodes
    BY ConnFacts, ConnPeersFacts, EndFacts
  <2>2. /\ LearnSources(At(i, e), Remote(i, e), conns[i].sources[Other(e)])
        /\ LearnPeers(At(i, e), conns[i].peers[Other(e)], <<i, e>>) /\ Move(i, e, "merge")
        /\ UNCHANGED <<up, peer_conn, sources, notify_source, msgs, left, spoiled, late>>
    BY <1>4 DEF Merge
  <2>3. peer_sources' \in [Nodes -> [Nodes -> Nat \cup {-1}]]
    BY <2>1, <2>2, LearnSourcesFacts
  <2>4. /\ file' = file /\ \A t \in saves' : t.node \in Nodes
        /\ peer_list' \in [Nodes -> SUBSET Nodes] /\ \A m \in Nodes : m \notin peer_list'[m]
        /\ dial' \in [Nodes -> [Nodes -> {"none", "dial", "busy", "ended"}]]
        /\ \A m \in Nodes : dial'[m][m] # "dial"
    BY <2>1, <2>2, LearnPeersFacts
  <2>5. OnlyAt(i)
    BY <2>2, MoveFacts DEF Moves, Points
  <2>6. conns' \in [Places -> Connections \cup {Free}] /\ \A j \in Used' : j[1] # j[2]
    BY <2>5 DEF OnlyAt, Types
  <2> QED BY <2>2, <2>3, <2>4, <2>6 DEF Types
<1>5. ASSUME NEW i \in Used, NEW e \in Ends, Join(i, e) PROVE Types'
  <2>1. At(i, e) \in Nodes /\ Remote(i, e) \in Nodes /\ i \in Places /\ peer_list[At(i, e)] \in SUBSET Nodes
    BY ConnFacts, EndFacts DEF Types
  <2>2. /\ msgs' = msgs \cup Tell(At(i, e), "peers", peer_list[At(i, e)], 0)
        /\ peer_conn' = [peer_conn EXCEPT ![At(i, e)][Remote(i, e)] = i] /\ Move(i, e, "open")
        /\ UNCHANGED <<up, file, saves, unsaved, peer_list, dial, peer_sources, sources, notify_source,
                       left, spoiled, late>>
    BY <1>5 DEF Join
  <2>3. msgs' \subseteq Messages
    BY <2>1, <2>2, TellFacts DEF Types
  <2>4. peer_conn' \in [Nodes -> [Nodes -> Places \cup {Free}]]
    BY <2>1, <2>2 DEF Types
  <2>5. OnlyAt(i)
    BY <2>2, MoveFacts DEF Moves, Points
  <2>6. conns' \in [Places -> Connections \cup {Free}] /\ \A j \in Used' : j[1] # j[2]
    BY <2>5 DEF OnlyAt, Types
  <2> QED BY <2>2, <2>3, <2>4, <2>6 DEF Types
<1>6. ASSUME NEW i \in Used, NEW e \in Ends, Lost(i, e) PROVE Types'
  <2>1. At(i, e) \in Nodes /\ Remote(i, e) \in Nodes /\ At(i, e) # Remote(i, e)
    BY ConnFacts, EndFacts
  <2>2. /\ peer_conn' = [peer_conn EXCEPT ![At(i, e)][Remote(i, e)] = Free] /\ Move(i, e, "gone")
        /\ peer_sources' = [peer_sources EXCEPT ![At(i, e)][Remote(i, e)] = -1]
        /\ \/ dial' = dial
           \/ \E d \in {"dial", "ended"} : dial' = [dial EXCEPT ![At(i, e)][Remote(i, e)] = d]
        /\ UNCHANGED <<up, file, saves, unsaved, peer_list, sources, notify_source, left, outdated, late>>
    BY <1>6 DEF Lost
  <2>3. peer_conn' \in [Nodes -> [Nodes -> Places \cup {Free}]]
    BY <2>1, <2>2 DEF Types
  <2>4. peer_sources' \in [Nodes -> [Nodes -> Nat \cup {-1}]]
    BY <2>1, <2>2 DEF Types
  <2>5. /\ dial' \in [Nodes -> [Nodes -> {"none", "dial", "busy", "ended"}]]
        /\ \A n \in Nodes : dial'[n][n] # "dial"
    <3>1. CASE dial' = dial
      BY <3>1 DEF Types
    <3>2. ASSUME NEW d \in {"dial", "ended"}, dial' = [dial EXCEPT ![At(i, e)][Remote(i, e)] = d]
          PROVE  /\ dial' \in [Nodes -> [Nodes -> {"none", "dial", "busy", "ended"}]]
                 /\ \A n \in Nodes : dial'[n][n] # "dial"
      <4>1. /\ dial \in [Nodes -> [Nodes -> {"none", "dial", "busy", "ended"}]]
            /\ d \in {"none", "dial", "busy", "ended"} /\ \A n \in Nodes : dial[n][n] # "dial"
        BY DEF Types
      <4>2. /\ dial' \in [Nodes -> [Nodes -> {"none", "dial", "busy", "ended"}]]
            /\ \A a \in Nodes, b \in Nodes : <<a, b>> # <<At(i, e), Remote(i, e)>> => dial'[a][b] = dial[a][b]
        BY <2>1, <3>2, <4>1, EntryFacts
      <4>3. \A n \in Nodes : dial'[n][n] = dial[n][n]
        BY <2>1, <4>2
      <4> QED BY <4>1, <4>2, <4>3
    <3> QED BY <2>2, <3>1, <3>2
  <2>6. msgs' \subseteq Messages
    <3>1. PICK accepted \in SUBSET MessagesTo(i, e) :
             msgs' = (msgs \ MessagesTo(i, e)) \cup {[msg EXCEPT !.conn = Free] : msg \in accepted}
      BY <1>6 DEF Lost
    <3>2. \A msg \in Messages : [msg EXCEPT !.conn = Free] \in Messages
      BY DEF Messages
    <3>3. MessagesTo(i, e) \subseteq Messages
      BY DEF MessagesTo, Types
    <3> QED BY <3>1, <3>2, <3>3 DEF Types
  <2>7. OnlyAt(i)
    BY <2>2, MoveFacts DEF Moves, Points
  <2>8. conns' \in [Places -> Connections \cup {Free}] /\ \A j \in Used' : j[1] # j[2]
    BY <2>7 DEF OnlyAt, Types
  <2>9. spoiled' \in BOOLEAN
    BY <1>6 DEF Lost, Types
  <2> QED BY <2>2, <2>3, <2>4, <2>5, <2>6, <2>8, <2>9 DEF Types
<1>7. ASSUME NEW i \in Used, Drop(i) PROVE Types'
  <2>1. /\ conns' = [conns EXCEPT ![i].state = "lost"]
        /\ UNCHANGED <<up, file, saves, unsaved, peer_list, dial, peer_conn, peer_sources, sources,
                       notify_source, msgs, spoiled, outdated, late>>
    BY <1>7 DEF Drop
  <2>2. conns[i] \in Connections /\ i \in Places /\ conns \in [Places -> Connections \cup {Free}]
    BY ConnFacts DEF Types
  <2>3. [conns[i] EXCEPT !.state = "lost"] \in Connections
    BY <2>2 DEF Connections
  <2>4. conns' \in [Places -> Connections \cup {Free}] /\ Used' \subseteq Used
    BY <2>1, <2>2, <2>3 DEF Used
  <2> QED BY <2>1, <2>4 DEF Types
<1>8. ASSUME NEW msg \in msgs, Receive(msg) PROVE Types'
  <2>1. /\ msg.to \in Nodes /\ msg.from \in Nodes /\ msg.peers \in SUBSET Nodes /\ msg.sources \in Nat
    BY DEF Types, Messages
  <2>2. msgs' \subseteq msgs /\ UNCHANGED <<up, conns, peer_conn, sources, notify_source, left, spoiled>>
    BY <1>8 DEF Receive
  <2>3. CASE msg.what = "peers"
    <3>1. LearnPeers(msg.to, msg.peers, Free) /\ UNCHANGED <<peer_sources, outdated, late>>
      BY <1>8, <2>3 DEF Receive
    <3>2. /\ file' = file /\ \A t \in saves' : t.node \in Nodes
          /\ peer_list' \in [Nodes -> SUBSET Nodes] /\ \A m \in Nodes : m \notin peer_list'[m]
          /\ dial' \in [Nodes -> [Nodes -> {"none", "dial", "busy", "ended"}]]
          /\ \A m \in Nodes : dial'[m][m] # "dial"
      BY <2>1, <3>1, LearnPeersFacts
    <3> QED BY <2>2, <3>1, <3>2 DEF Types, Used
  <2>4. CASE msg.what # "peers"
    <3>1. LearnSources(msg.to, msg.from, msg.sources) /\ UNCHANGED <<peer_list, dial, file, saves, unsaved>>
      BY <1>8, <2>4 DEF Receive
    <3>2. peer_sources' \in [Nodes -> [Nodes -> Nat \cup {-1}]]
      BY <2>1, <3>1, LearnSourcesFacts
    <3> QED BY <2>2, <3>1, <3>2 DEF Types, Used
  <2> QED BY <2>3, <2>4
<1>9. ASSUME NEW n \in Nodes, ChangeSources(n) PROVE Types'
  <2>1. /\ sources' = [sources EXCEPT ![n] = @ + 1] /\ notify_source' = [notify_source EXCEPT ![n] = TRUE]
        /\ UNCHANGED <<up, file, saves, unsaved, peer_list, dial, conns, peer_conn, peer_sources, msgs, spoiled, outdated, late>>
    BY <1>9 DEF ChangeSources
  <2>2. sources' \in [Nodes -> Nat] /\ notify_source' \in [Nodes -> BOOLEAN]
    BY <2>1 DEF Types
  <2> QED BY <2>1, <2>2 DEF Types, Used
<1>10. ASSUME NEW n \in Nodes, Broadcast(n) PROVE Types'
  <2>1. /\ notify_source' = [notify_source EXCEPT ![n] = FALSE]
        /\ msgs' = msgs \cup Tell(n, "sources", {}, sources[n])
        /\ UNCHANGED <<up, file, saves, unsaved, peer_list, dial, conns, peer_conn, peer_sources, sources,
                       left, spoiled, outdated, late>>
    BY <1>10 DEF Broadcast
  <2>2. notify_source' \in [Nodes -> BOOLEAN]
    BY <2>1 DEF Types
  <2>3. sources[n] \in Nat /\ {} \in SUBSET Nodes
    BY DEF Types
  <2>4. msgs' \subseteq Messages
    BY <2>1, <2>3, TellFacts DEF Types
  <2> QED BY <2>1, <2>2, <2>4 DEF Types, Used
<1>11. ASSUME NEW n \in Nodes, NEW how, \A i \in Used : how[i] \in {"lost", "closed"}, Stop(n, how)
       PROVE  Types'
  <2>1. Leaves(n)
    BY <1>11, StopFacts
  <2>2. /\ up' = up \ {n}
        /\ peer_conn' = [peer_conn EXCEPT ![n] = [m \in Nodes |-> Free]]
        /\ peer_sources' = [peer_sources EXCEPT ![n] = [m \in Nodes |-> -1]]
        /\ peer_list' = [peer_list EXCEPT ![n] = {}]
        /\ dial' = [dial EXCEPT ![n] = [m \in Nodes |-> "none"]]
        /\ notify_source' = [notify_source EXCEPT ![n] = FALSE]
        /\ msgs' \subseteq msgs /\ saves' \subseteq saves /\ UNCHANGED <<file, sources, spoiled, outdated, late>>
    BY <1>11 DEF Stop
  <2>3. conns' \in [Places -> Connections \cup {Free}] /\ \A j \in Used' : j[1] # j[2]
    BY <2>1 DEF Leaves, Types
  <2>4. /\ peer_conn' \in [Nodes -> [Nodes -> Places \cup {Free}]]
        /\ peer_sources' \in [Nodes -> [Nodes -> Nat \cup {-1}]]
    BY <2>2 DEF Types
  <2>5. /\ peer_list' \in [Nodes -> SUBSET Nodes] /\ \A m \in Nodes : m \notin peer_list'[m]
        /\ dial' \in [Nodes -> [Nodes -> {"none", "dial", "busy", "ended"}]]
        /\ \A m \in Nodes : dial'[m][m] # "dial"
    BY <2>2 DEF Types
  <2>6. notify_source' \in [Nodes -> BOOLEAN]
    BY <2>2 DEF Types
  <2> QED BY <2>2, <2>3, <2>4, <2>5, <2>6 DEF Types
<1>12. ASSUME NEW n \in Nodes, Crash(n) \/ Shutdown(n) PROVE Types'
  <2>1. CASE Crash(n)
    BY <1>11, <2>1 DEF Crash
  <2>2. CASE Shutdown(n)
    BY <1>11, <2>2 DEF Shutdown
  <2> QED BY <1>12, <2>1, <2>2
<1>13. ASSUME NEW n \in Nodes, Restart(n) PROVE Types'
  <2>1. /\ up' = up \cup {n} /\ peer_list' = [peer_list EXCEPT ![n] = file[n]]
        /\ dial' = [dial EXCEPT ![n] = Dialled(n, file[n])] /\ sources' = [sources EXCEPT ![n] = @ + 1]
        /\ UNCHANGED <<file, saves, unsaved, conns, peer_conn, peer_sources, notify_source, msgs,
                       left, spoiled, outdated, late>>
    BY <1>13 DEF Restart
  <2>2. Dialled(n, file[n]) \in [Nodes -> {"none", "dial", "busy", "ended"}] /\ Dialled(n, file[n])[n] # "dial"
    BY DEF Dialled, Types
  <2>3. /\ dial' \in [Nodes -> [Nodes -> {"none", "dial", "busy", "ended"}]]
        /\ \A m \in Nodes : dial'[m][m] # "dial"
    BY <2>1, <2>2 DEF Types
  <2>4. /\ peer_list' \in [Nodes -> SUBSET Nodes] /\ \A m \in Nodes : m \notin peer_list'[m]
        /\ sources' \in [Nodes -> Nat]
    BY <2>1 DEF Types
  <2> QED BY <2>1, <2>3, <2>4 DEF Types, Used
<1>14. CASE UNCHANGED vars
  BY <1>14 DEF vars, Types, Used
<1> QED
  BY <1>1, <1>2, <1>3, <1>4, <1>5, <1>6, <1>7, <1>8, <1>9, <1>10, <1>12, <1>13, <1>14, <1>15, <1>16 DEF Next, Work, Step

\* A step of one end of a connection, which leaves the other end as it is.
EndStep(i, e) ==
    /\ i \in Used /\ OnlyAt(i)
    /\ i \in Used' => /\ End(i, e)' # "hello" /\ End(i, Other(e))' = End(i, Other(e))
                      /\ conns'[i].sources[Other(e)] = conns[i].sources[Other(e)]
                      /\ State(i)' = "alive" => State(i) = "alive" /\ End(i, e)' # "gone"
    /\ i \notin Used' => End(i, Other(e)) = "gone"

\* Each action of an end moves it from one point to the next.
LEMMA EndStepFacts ==
    ASSUME Types, Wired, NEW i \in Used, NEW e \in Ends
    PROVE  /\ Duplicate(i, e) => EndStep(i, e) /\ End(i, e) = "hello" /\ (i \in Used' => End(i, e)' = "gone")
           /\ Check(i, e) => EndStep(i, e) /\ End(i, e) = "hello" /\ i \in Used' /\ End(i, e)' = "init"
           /\ SetupFails(i, e) => /\ EndStep(i, e) /\ End(i, e) \in {"hello", "init"}
                                  /\ (i \in Used' => End(i, e)' = "gone")
           /\ Merge(i, e) => /\ EndStep(i, e) /\ End(i, e) \in {"init", "answer"}
                             /\ i \in Used' /\ End(i, e)' = "merge"
                             /\ State(i) = "alive" => End(i, Other(e)) # "hello"
           /\ e = "s" /\ Answer(i) => /\ EndStep(i, e) /\ End(i, e) = "init" /\ i \in Used' /\ End(i, e)' = "answer"
                                      /\ End(i, Other(e)) = "init" /\ State(i)' = State(i)
           /\ Join(i, e) => EndStep(i, e) /\ End(i, e) = "merge" /\ i \in Used' /\ End(i, e)' = "open"
           /\ Lost(i, e) => /\ EndStep(i, e) /\ End(i, e) = "open" /\ State(i) # "alive"
                            /\ (i \in Used' => End(i, e)' = "gone")
<1>0. Other(e) \in Ends
  BY ConnFacts, EndFacts
<1>1. ASSUME Duplicate(i, e)
      PROVE  EndStep(i, e) /\ End(i, e) = "hello" /\ (i \in Used' => End(i, e)' = "gone")
  BY <1>0, <1>1, DuplicateFacts DEF EndStep
<1>2. ASSUME Check(i, e)
      PROVE  EndStep(i, e) /\ End(i, e) = "hello" /\ i \in Used' /\ End(i, e)' = "init"
  BY <1>2, CheckFacts DEF EndStep
<1>3. ASSUME NEW to \in Points \ {"hello"}, Move(i, e, to), to = "gone" => State(i) # "alive"
      PROVE  EndStep(i, e) /\ (i \in Used' => End(i, e)' = to) /\ (to # "gone" => i \in Used')
  <2>1. Moves(i, e, to)
    BY <1>3, MoveFacts
  <2> QED BY <1>0, <1>3, <2>1 DEF Moves, EndStep
<1>4. ASSUME SetupFails(i, e)
      PROVE  EndStep(i, e) /\ End(i, e) \in {"hello", "init"} /\ (i \in Used' => End(i, e)' = "gone")
  BY <1>3, <1>4 DEF SetupFails, Points, State, End
<1>5. ASSUME Merge(i, e)
      PROVE  /\ EndStep(i, e) /\ End(i, e) \in {"init", "answer"} /\ i \in Used' /\ End(i, e)' = "merge"
             /\ State(i) = "alive" => End(i, Other(e)) # "hello"
  <2>1. /\ Move(i, e, "merge") /\ End(i, e) \in {"init", "answer"}
        /\ End(i, e) = "answer" \/ End(i, Other(e)) \in Ahead
    BY <1>5 DEF Merge, End, Ahead
  <2>2. State(i) = "alive" => End(i, Other(e)) # "hello"
    BY <2>1 DEF Wired, Ahead
  <2> QED BY <1>3, <2>1, <2>2 DEF Points
<1>8. ASSUME e = "s", Answer(i)
      PROVE  /\ EndStep(i, e) /\ End(i, e) = "init" /\ i \in Used' /\ End(i, e)' = "answer"
             /\ End(i, Other(e)) = "init" /\ State(i)' = State(i)
  <2>1. Move(i, e, "answer") /\ End(i, e) = "init" /\ End(i, Other(e)) = "init"
    BY <1>0, <1>8 DEF Answer, End
  <2>2. State(i)' = State(i)
    BY <1>3, <2>1, MoveFacts DEF Moves, Points
  <2> QED BY <1>3, <2>1, <2>2 DEF Points
<1>6. ASSUME Join(i, e)
      PROVE  EndStep(i, e) /\ End(i, e) = "merge" /\ i \in Used' /\ End(i, e)' = "open"
  BY <1>3, <1>6 DEF Join, Points, State, End
<1>7. ASSUME Lost(i, e)
      PROVE  /\ EndStep(i, e) /\ End(i, e) = "open" /\ State(i) # "alive"
             /\ (i \in Used' => End(i, e)' = "gone")
  BY <1>3, <1>7 DEF Lost, Points, State, End
<1> QED BY <1>1, <1>2, <1>4, <1>5, <1>6, <1>7, <1>8

\* What a step of one end leaves alone.
LEMMA StillThere ==
    ASSUME Types, NEW i \in Used, NEW e \in Ends, EndStep(i, e)
    PROVE  /\ Used' \subseteq Used
           /\ \A j \in Used, f \in Ends : End(j, f) # "gone" /\ ~(j = i /\ f = e) => j \in Used'
           /\ \A j \in Used', f \in Ends : ~(j = i /\ f = e) => End(j, f)' = End(j, f)
           /\ \A j \in Used' : State(j)' = "alive" => State(j) = "alive"
           /\ \A j \in Used', f \in Ends : ~(j = i /\ f = e) => conns'[j].sources[f] = conns[j].sources[f]
           /\ \A j \in Used' \ {i} : State(j)' = State(j)
<1>1. \A f \in Ends : f = e \/ f = Other(e)
  BY ConnFacts, EndFacts
<1>2. \A j \in Used : j \in Places
  BY ConnFacts
<1>3. Used' \subseteq Used
  BY DEF EndStep, OnlyAt
<1>4. \A j \in Used \ {i} : j \in Used' /\ conns'[j] = conns[j]
  BY <1>2 DEF EndStep, OnlyAt
<1> QED BY <1>1, <1>3, <1>4 DEF EndStep, End, State

\* The steps of an end keep what Wired says.
LEMMA WiredByEnd ==
    ASSUME Types, Wired, NEW i \in Used, NEW e \in Ends, EndStep(i, e), up' = up,
           i \in Used' =>
              /\ End(i, e)' # "gone" => End(i, e) # "gone"
              /\ State(i) = "alive" /\ End(i, e)' \in Ahead => End(i, Other(e)) # "hello"
    PROVE  Wired'
<1> SUFFICES ASSUME NEW j \in Used', NEW f \in Ends
             PROVE  /\ End(j, f)' # "gone" => At(j, f) \in up
                    /\ State(j)' = "alive" => End(j, f)' # "gone"
                    /\ State(j)' = "alive" /\ End(j, f)' \in Ahead => End(j, Other(f))' # "hello"
  BY DEF Wired, At
<1>1. /\ Used' \subseteq Used /\ j \in Used
      /\ \A g \in Ends : ~(j = i /\ g = e) => End(j, g)' = End(j, g)
      /\ State(j)' = "alive" => State(j) = "alive"
  BY StillThere
<1>2. /\ Other(f) \in Ends /\ Other(f) # f /\ Other(Other(f)) = f
      /\ Other(e) \in Ends /\ Other(e) # e /\ (f = e \/ f = Other(e))
  BY <1>1, ConnFacts, EndFacts
<1>3. CASE j = i /\ f = e
  BY <1>1, <1>2, <1>3 DEF Wired, EndStep
<1>4. CASE j = i /\ f = Other(e)
  BY <1>1, <1>2, <1>4 DEF Wired, EndStep
<1>5. CASE j # i
  BY <1>1, <1>2, <1>5 DEF Wired
<1> QED BY <1>2, <1>3, <1>4, <1>5

\* Entries and messages that do not belong to the end that moves stay right.
LEMMA EntriesByEnd ==
    ASSUME Types, Entered, NEW i \in Used, NEW e \in Ends, EndStep(i, e),
           NEW a \in Nodes, NEW b \in Nodes, NEW j \in Places, peer_conn[a][b] = j,
           End(i, e) # "open" \/ <<a, b>> # <<At(i, e), Remote(i, e)>>
    PROVE  /\ j \in Used'
           /\ \E f \in Ends : At(j, f) = a /\ Remote(j, f) = b /\ End(j, f)' = "open"
<1>1. PICK f \in Ends : j \in Used /\ At(j, f) = a /\ Remote(j, f) = b /\ End(j, f) = "open"
  BY DEF Entered
<1>2. ~(j = i /\ f = e)
  BY <1>1
<1>3. j \in Used' /\ End(j, f)' = End(j, f)
  BY <1>1, <1>2, StillThere
<1> QED BY <1>1, <1>3

\* A step of an end leaves the messages of the others addressed.
LEMMA AddressedByEnd ==
    ASSUME Types, Addressed, NEW i \in Used, NEW e \in Ends, EndStep(i, e),
           NEW msg \in msgs, msg.conn # Free,
           msg \notin MessagesTo(i, e) \/ (i \in Used' /\ End(i, e)' # "gone")
    PROVE  /\ msg.conn \in Used' /\ At(msg.conn, msg.end) = msg.to
           /\ Remote(msg.conn, msg.end) = msg.from /\ End(msg.conn, msg.end)' # "gone"
<1>1. /\ msg.conn \in Used /\ At(msg.conn, msg.end) = msg.to /\ msg.end \in Ends
      /\ Remote(msg.conn, msg.end) = msg.from /\ End(msg.conn, msg.end) # "gone"
  BY DEF Addressed, Types, Messages
<1>2. CASE msg.conn = i /\ msg.end = e
  BY <1>1, <1>2 DEF MessagesTo
<1>3. CASE ~(msg.conn = i /\ msg.end = e)
  <2>1. msg.conn \in Used' /\ End(msg.conn, msg.end)' = End(msg.conn, msg.end)
    BY <1>1, <1>3, StillThere
  <2> QED BY <1>1, <2>1
<1> QED BY <1>2, <1>3

\* Sources of another pair, or from a connection that stays.
LEMMA KeptByEnd ==
    ASSUME Types, Kept, NEW i \in Used, NEW e \in Ends, EndStep(i, e),
           NEW a \in Nodes, NEW b \in Nodes, peer_sources[a][b] # -1, <<a, b>> \notin late,
           \/ End(i, e) \notin Settled \/ <<a, b>> # <<At(i, e), Remote(i, e)>>
           \/ i \in Used' /\ End(i, e)' \in Settled
    PROVE  \E j \in Used', f \in Ends : At(j, f) = a /\ Remote(j, f) = b /\ End(j, f)' \in Settled
<1>1. PICK j \in Used, f \in Ends : At(j, f) = a /\ Remote(j, f) = b /\ End(j, f) \in Settled
  BY DEF Kept
<1>2. CASE j = i /\ f = e
  BY <1>1, <1>2
<1>3. CASE ~(j = i /\ f = e)
  <2>1. j \in Used' /\ End(j, f)' = End(j, f)
    BY <1>1, <1>3, StillThere DEF Settled
  <2> QED BY <1>1, <2>1
<1> QED BY <1>2, <1>3

\* Connections, entries, messages and lists stay together.
Links == Wired /\ Entered /\ Addressed /\ Kept

\* Every step keeps the links.
LEMMA LinksStep == Types /\ Links /\ [Next]_vars => Links'
<1> SUFFICES ASSUME Types, Links, [Next]_vars PROVE Links'
  OBVIOUS
<1>l. Wired /\ Entered /\ Addressed /\ Kept
  BY DEF Links
<1>u. \A i \in Used : i \in Places
  BY ConnFacts
<1>1. ASSUME NEW n \in Nodes, NEW m \in Nodes, Connect(n, m) PROVE Links'
  <2>1. /\ n \in up /\ m \in up
        /\ UNCHANGED <<up, peer_conn, peer_sources, msgs, late>>
    BY <1>1, ConnectFacts
  <2>2. PICK i \in Places :
                 /\ OnlyAt(i) /\ i \notin Used /\ i \in Used' /\ i[1] = n /\ i[2] = m
                 /\ State(i)' = "alive"
                 /\ \A e \in Ends : End(i, e)' = "hello"
    BY <1>1, ConnectFacts
  <2>3. \A j \in Used : j \in Used' /\ j # i /\ State(j)' = State(j) /\ \A f \in Ends : End(j, f)' = End(j, f)
    BY <1>u, <2>2 DEF OnlyAt, State, End
  <2>4. \A j \in Used' : j = i \/ j \in Used
    BY <2>2 DEF OnlyAt
  <2>5. Wired'
    <3> SUFFICES ASSUME NEW j \in Used', NEW f \in Ends
                 PROVE  /\ End(j, f)' # "gone" => At(j, f) \in up
                        /\ State(j)' = "alive" => End(j, f)' # "gone"
                        /\ State(j)' = "alive" /\ End(j, f)' \in Ahead => End(j, Other(f))' # "hello"
      BY <2>1 DEF Wired, At
    <3>1. CASE j = i
      BY <2>1, <2>2, <3>1 DEF At, Ends, Ahead
    <3>2. CASE j \in Used
      <4>1. Other(f) \in Ends
        BY <3>2, <1>u, EndFacts
      <4> QED BY <1>l, <2>3, <3>2, <4>1 DEF Wired
    <3> QED BY <2>4, <3>1, <3>2
  <2>6. Entered'
    BY <1>l, <2>1, <2>3 DEF Entered, At, Remote
  <2>7. Addressed'
    <3> SUFFICES ASSUME NEW msg \in msgs, msg.conn # Free
                 PROVE  /\ msg.conn \in Used' /\ At(msg.conn, msg.end) = msg.to
                        /\ Remote(msg.conn, msg.end) = msg.from /\ End(msg.conn, msg.end)' # "gone"
      BY <2>1 DEF Addressed, At, Remote
    <3>1. msg.end \in Ends
      BY DEF Types, Messages
    <3> QED BY <1>l, <2>3, <3>1 DEF Addressed
  <2>8. Kept'
    BY <1>l, <2>1, <2>3 DEF Kept, At, Remote
  <2> QED BY <2>5, <2>6, <2>7, <2>8 DEF Links
\* The steps of an end.
<1>2. ASSUME NEW i \in Used, NEW e \in Ends, Duplicate(i, e) \/ SetupFails(i, e) PROVE Links'
  <2>1. /\ EndStep(i, e) /\ End(i, e) \in {"hello", "init"} /\ (i \in Used' => End(i, e)' = "gone")
        /\ GiveUp(i, e)
    BY <1>2, <1>l, EndStepFacts DEF Duplicate, SetupFails
  <2>2. /\ msgs' = msgs \ MessagesTo(i, e)
        /\ UNCHANGED <<up, peer_conn, peer_sources, late>>
    BY <2>1, GiveUpFacts
  <2>3. Wired'
    BY <1>l, <2>1, <2>2, WiredByEnd DEF Ahead
  <2>4. Entered'
    BY <1>l, <2>1, <2>2, EntriesByEnd DEF Entered, At, Remote
  <2>5. Addressed'
    BY <1>l, <2>1, <2>2, AddressedByEnd DEF Addressed, At, Remote
  <2>6. Kept'
    BY <1>l, <2>1, <2>2, KeptByEnd DEF Kept, At, Remote, Settled
  <2> QED BY <2>3, <2>4, <2>5, <2>6 DEF Links
<1>3. ASSUME NEW i \in Used, NEW e \in Ends, Check(i, e) PROVE Links'
  <2>1. EndStep(i, e) /\ End(i, e) = "hello" /\ i \in Used' /\ End(i, e)' = "init"
    BY <1>3, <1>l, EndStepFacts
  <2>2. UNCHANGED <<up, peer_conn, peer_sources, msgs, late>>
    BY <1>3, CheckFacts
  <2>3. Wired'
    BY <1>l, <2>1, <2>2, WiredByEnd DEF Ahead
  <2>4. Entered'
    BY <1>l, <2>1, <2>2, EntriesByEnd DEF Entered, At, Remote
  <2>5. Addressed'
    BY <1>l, <2>1, <2>2, AddressedByEnd DEF Addressed, At, Remote
  <2>6. Kept'
    BY <1>l, <2>1, <2>2, KeptByEnd DEF Kept, At, Remote, Settled
  <2> QED BY <2>3, <2>4, <2>5, <2>6 DEF Links
<1>14. ASSUME NEW i \in Used, Answer(i) PROVE Links'
  <2> DEFINE e == "s"
  <2>0. e \in Ends
    BY DEF Ends
  <2>1. /\ EndStep(i, e) /\ End(i, e) = "init" /\ i \in Used' /\ End(i, e)' = "answer"
        /\ End(i, Other(e)) = "init"
    BY <1>14, <1>l, <2>0, EndStepFacts
  <2>2. UNCHANGED <<up, peer_conn, peer_sources, msgs, late>>
    BY <1>14 DEF Answer
  <2> HIDE DEF e
  <2>3. Wired'
    BY <1>l, <2>0, <2>1, <2>2, WiredByEnd
  <2>4. Entered'
    BY <1>l, <2>0, <2>1, <2>2, EntriesByEnd DEF Entered, At, Remote
  <2>5. Addressed'
    BY <1>l, <2>0, <2>1, <2>2, AddressedByEnd DEF Addressed, At, Remote
  <2>6. Kept'
    BY <1>l, <2>0, <2>1, <2>2, KeptByEnd DEF Kept, At, Remote, Settled
  <2> QED BY <2>3, <2>4, <2>5, <2>6 DEF Links
<1>15. ASSUME NEW t \in saves, Save(t) \/ SaveFails(t) PROVE Links'
  <2>1. UNCHANGED <<up, conns, peer_conn, peer_sources, msgs, late>>
    BY <1>15 DEF Save, SaveFails
  <2> QED BY <1>l, <2>1 DEF Links, Wired, Entered, Addressed, Kept, At, Remote, Used, End, State
<1>4. ASSUME NEW i \in Used, NEW e \in Ends, Merge(i, e) PROVE Links'
  <2>1. /\ EndStep(i, e) /\ End(i, e) \in {"init", "answer"} /\ i \in Used' /\ End(i, e)' = "merge"
        /\ State(i) = "alive" => End(i, Other(e)) # "hello"
    BY <1>4, <1>l, EndStepFacts
  <2>2. /\ At(i, e) \in Nodes /\ Remote(i, e) \in Nodes /\ conns[i].sources[Other(e)] \in Nat
    BY ConnFacts, EndFacts
  <2>3. /\ LearnSources(At(i, e), Remote(i, e), conns[i].sources[Other(e)])
        /\ UNCHANGED <<up, peer_conn, msgs, late>>
    BY <1>4 DEF Merge
  <2>4. \A a \in Nodes, b \in Nodes :
           <<a, b>> # <<At(i, e), Remote(i, e)>> => peer_sources'[a][b] = peer_sources[a][b]
    BY <2>2, <2>3, LearnSourcesFacts
  <2>5. Wired'
    BY <1>l, <2>1, <2>3, WiredByEnd
  <2>6. Entered'
    BY <1>l, <2>1, <2>3, EntriesByEnd DEF Entered, At, Remote
  <2>7. Addressed'
    BY <1>l, <2>1, <2>3, AddressedByEnd DEF Addressed, At, Remote
  <2>8. Kept'
    <3> SUFFICES ASSUME NEW a \in Nodes, NEW b \in Nodes, peer_sources'[a][b] # -1, <<a, b>> \notin late
                 PROVE  \E j \in Used', f \in Ends :
                           At(j, f) = a /\ Remote(j, f) = b /\ End(j, f)' \in Settled
      BY <2>3 DEF Kept, At, Remote
    <3>1. CASE <<a, b>> = <<At(i, e), Remote(i, e)>>
      BY <2>1, <3>1 DEF Settled
    <3>2. CASE <<a, b>> # <<At(i, e), Remote(i, e)>>
      <4>1. peer_sources[a][b] # -1
        BY <2>4, <3>2
      <4> QED BY <1>l, <2>1, <3>2, <4>1, KeptByEnd
    <3> QED BY <3>1, <3>2
  <2> QED BY <2>5, <2>6, <2>7, <2>8 DEF Links
<1>5. ASSUME NEW i \in Used, NEW e \in Ends, Join(i, e) PROVE Links'
  <2>1. EndStep(i, e) /\ End(i, e) = "merge" /\ i \in Used' /\ End(i, e)' = "open"
    BY <1>5, <1>l, EndStepFacts
  <2>2. /\ At(i, e) \in Nodes /\ Remote(i, e) \in Nodes /\ peer_list[At(i, e)] \in SUBSET Nodes
        /\ i \in Places
    BY ConnFacts, EndFacts DEF Types
  <2>3. /\ msgs' = msgs \cup Tell(At(i, e), "peers", peer_list[At(i, e)], 0)
        /\ peer_conn' = [peer_conn EXCEPT ![At(i, e)][Remote(i, e)] = i]
        /\ UNCHANGED <<up, peer_sources, late>>
    BY <1>5 DEF Join
  <2>4. Wired'
    BY <1>l, <2>1, <2>3, WiredByEnd DEF Wired, Ahead
  <2>5. Entered'
    <3> SUFFICES ASSUME NEW a \in Nodes, NEW b \in Nodes, NEW j \in Places, peer_conn'[a][b] = j
                 PROVE  /\ j \in Used'
                        /\ \E f \in Ends : At(j, f) = a /\ Remote(j, f) = b /\ End(j, f)' = "open"
      BY DEF Entered, At, Remote
    <3>0. /\ peer_conn \in [Nodes -> [Nodes -> Places \cup {Free}]] /\ i \in Places \cup {Free}
      BY <2>2 DEF Types
    <3>1. /\ peer_conn'[At(i, e)][Remote(i, e)] = i
          /\ <<a, b>> # <<At(i, e), Remote(i, e)>> => peer_conn'[a][b] = peer_conn[a][b]
      BY <2>2, <2>3, <3>0, EntryFacts
    <3>2. CASE <<a, b>> = <<At(i, e), Remote(i, e)>>
      BY <2>1, <3>1, <3>2
    <3>3. CASE <<a, b>> # <<At(i, e), Remote(i, e)>>
      BY <1>l, <2>1, <3>1, <3>3, EntriesByEnd
    <3> QED BY <3>2, <3>3
  <2>6. Addressed'
    <3> SUFFICES ASSUME NEW msg \in msgs', msg.conn # Free
                 PROVE  /\ msg.conn \in Used' /\ At(msg.conn, msg.end) = msg.to
                        /\ Remote(msg.conn, msg.end) = msg.from /\ End(msg.conn, msg.end)' # "gone"
      BY DEF Addressed, At, Remote
    <3>1. CASE msg \in msgs
      BY <1>l, <2>1, <3>1, AddressedByEnd
    <3>2. CASE msg \in Tell(At(i, e), "peers", peer_list[At(i, e)], 0)
      <4>1. /\ msg \in Messages /\ msg.conn \in Used /\ State(msg.conn) = "alive"
            /\ msg.to = At(msg.conn, msg.end) /\ msg.from = Remote(msg.conn, msg.end)
        BY <1>l, <2>2, <3>2, TellFacts
      <4>2. msg.end \in Ends
        BY <4>1 DEF Messages
      <4>3. End(msg.conn, msg.end) # "gone"
        BY <1>l, <4>1, <4>2 DEF Wired
      <4>4. msg.conn \in Used' /\ End(msg.conn, msg.end)' # "gone"
        <5>1. CASE msg.conn = i /\ msg.end = e
          BY <2>1, <5>1
        <5>2. CASE ~(msg.conn = i /\ msg.end = e)
          <6>1. msg.conn \in Used' /\ End(msg.conn, msg.end)' = End(msg.conn, msg.end)
            BY <2>1, <4>1, <4>2, <4>3, <5>2, StillThere
          <6> QED BY <4>3, <6>1
        <5> QED BY <5>1, <5>2
      <4> QED BY <4>1, <4>4
    <3> QED BY <2>3, <3>1, <3>2
  <2>7. Kept'
    BY <1>l, <2>1, <2>3, KeptByEnd DEF Kept, At, Remote, Settled
  <2> QED BY <2>4, <2>5, <2>6, <2>7 DEF Links
<1>6. ASSUME NEW i \in Used, NEW e \in Ends, Lost(i, e) PROVE Links'
  <2>1. /\ EndStep(i, e) /\ End(i, e) = "open" /\ State(i) # "alive"
        /\ (i \in Used' => End(i, e)' = "gone")
    BY <1>6, <1>l, EndStepFacts
  <2>2. At(i, e) \in Nodes /\ Remote(i, e) \in Nodes
    BY ConnFacts, EndFacts
  <2>3. /\ peer_conn' = [peer_conn EXCEPT ![At(i, e)][Remote(i, e)] = Free]
        /\ peer_sources' = [peer_sources EXCEPT ![At(i, e)][Remote(i, e)] = -1]
        /\ UNCHANGED <<up, late>>
    BY <1>6 DEF Lost
  <2>4. PICK accepted \in SUBSET MessagesTo(i, e) :
             msgs' = (msgs \ MessagesTo(i, e)) \cup {[msg EXCEPT !.conn = Free] : msg \in accepted}
    BY <1>6 DEF Lost
  <2>5. Wired'
    BY <1>l, <2>1, <2>3, WiredByEnd DEF Ahead
  <2>6. Entered'
    <3> SUFFICES ASSUME NEW a \in Nodes, NEW b \in Nodes, NEW j \in Places, peer_conn'[a][b] = j
                 PROVE  /\ j \in Used'
                        /\ \E f \in Ends : At(j, f) = a /\ Remote(j, f) = b /\ End(j, f)' = "open"
      BY DEF Entered, At, Remote
    <3>0. /\ peer_conn \in [Nodes -> [Nodes -> Places \cup {Free}]] /\ Free \in Places \cup {Free}
      BY DEF Types
    <3>1. /\ peer_conn'[At(i, e)][Remote(i, e)] = Free
          /\ <<a, b>> # <<At(i, e), Remote(i, e)>> => peer_conn'[a][b] = peer_conn[a][b]
      BY <2>2, <2>3, <3>0, EntryFacts
    <3>2. <<a, b>> # <<At(i, e), Remote(i, e)>>
      BY <3>1, FreeAssumption
    <3> QED BY <1>l, <2>1, <3>1, <3>2, EntriesByEnd
  <2>7. Addressed'
    <3> SUFFICES ASSUME NEW msg \in msgs', msg.conn # Free
                 PROVE  /\ msg.conn \in Used' /\ At(msg.conn, msg.end) = msg.to
                        /\ Remote(msg.conn, msg.end) = msg.from /\ End(msg.conn, msg.end)' # "gone"
      BY DEF Addressed, At, Remote
    <3>1. msg \in msgs \ MessagesTo(i, e)
      <4>1. \A x \in accepted : [x EXCEPT !.conn = Free].conn = Free
        BY DEF MessagesTo, Types, Messages
      <4> QED BY <2>4, <4>1
    <3> QED BY <1>l, <2>1, <3>1, AddressedByEnd
  <2>8. Kept'
    <3> SUFFICES ASSUME NEW a \in Nodes, NEW b \in Nodes, peer_sources'[a][b] # -1, <<a, b>> \notin late
                 PROVE  \E j \in Used', f \in Ends :
                           At(j, f) = a /\ Remote(j, f) = b /\ End(j, f)' \in Settled
      BY <2>3 DEF Kept, At, Remote
    <3>0. /\ peer_sources \in [Nodes -> [Nodes -> Nat \cup {-1}]] /\ -1 \in Nat \cup {-1}
      BY DEF Types
    <3>1. /\ peer_sources'[At(i, e)][Remote(i, e)] = -1
          /\ <<a, b>> # <<At(i, e), Remote(i, e)>> => peer_sources'[a][b] = peer_sources[a][b]
      BY <2>2, <2>3, <3>0, EntryFacts
    <3>2. <<a, b>> # <<At(i, e), Remote(i, e)>>
      BY <3>1
    <3>3. peer_sources[a][b] # -1
      BY <3>1, <3>2
    <3> QED BY <1>l, <2>1, <3>2, <3>3, KeptByEnd
  <2> QED BY <2>5, <2>6, <2>7, <2>8 DEF Links
<1>7. ASSUME NEW i \in Used, Drop(i) PROVE Links'
  <2>1. /\ conns' = [conns EXCEPT ![i].state = "lost"]
        /\ UNCHANGED <<up, peer_conn, peer_sources, msgs, late>>
    BY <1>7 DEF Drop
  <2>2. conns[i] \in Connections /\ i \in Places /\ conns \in [Places -> Connections \cup {Free}]
    BY ConnFacts DEF Types
  <2>3. /\ [conns[i] EXCEPT !.state = "lost"] \in Connections
        /\ [conns[i] EXCEPT !.state = "lost"].state = "lost"
        /\ [conns[i] EXCEPT !.state = "lost"].end = conns[i].end
    BY <2>2 DEF Connections
  <2>4. conns'[i] = [conns[i] EXCEPT !.state = "lost"] /\ \A j \in Places \ {i} : conns'[j] = conns[j]
    BY <2>1, <2>2
  <2>5. Used' = Used
    BY <2>2, <2>3, <2>4, FreeAssumption DEF Used
  <2>6. /\ \A j \in Used : \A f : End(j, f)' = End(j, f)
        /\ \A j \in Used : State(j)' = "alive" => State(j) = "alive"
    BY <1>u, <2>3, <2>4 DEF End, State
  <2>7. Wired'
    BY <1>l, <2>1, <2>5, <2>6 DEF Wired, At
  <2>8. Entered' /\ Kept'
    BY <1>l, <2>1, <2>5, <2>6 DEF Entered, Kept, At, Remote
  <2>9. Addressed'
    BY <1>l, <2>1, <2>5, <2>6 DEF Addressed, At, Remote
  <2> QED BY <2>7, <2>8, <2>9 DEF Links
<1>8. ASSUME NEW msg \in msgs, Receive(msg) PROVE Links'
  <2>1. /\ msg.to \in Nodes /\ msg.from \in Nodes /\ msg.sources \in Nat /\ msg.end \in Ends
    BY DEF Types, Messages
  <2>2. /\ msg.conn # Free => End(msg.conn, msg.end) = "open"
        /\ msgs' \subseteq msgs /\ UNCHANGED <<up, conns, peer_conn>>
    BY <1>8 DEF Receive, End
  <2>3. Wired' /\ Entered' /\ Addressed'
    BY <1>l, <2>2 DEF Wired, Entered, Addressed, At, Remote, Used, End, State
  <2>4. Kept'
    <3>1. CASE msg.what = "peers"
      <4>1. UNCHANGED <<peer_sources, late, conns>>
        BY <1>8, <3>1 DEF Receive
      <4> QED BY <1>l, <4>1 DEF Kept, At, Remote, Used, End
    <3>2. CASE msg.what # "peers"
      <4>1. /\ LearnSources(msg.to, msg.from, msg.sources)
            /\ late' = IF msg.conn = Free THEN late \cup {<<msg.to, msg.from>>} ELSE late
        BY <1>8, <3>2 DEF Receive
      <4>2. \A a \in Nodes, b \in Nodes :
               <<a, b>> # <<msg.to, msg.from>> => peer_sources'[a][b] = peer_sources[a][b]
        BY <2>1, <4>1, LearnSourcesFacts
      <4> SUFFICES ASSUME NEW a \in Nodes, NEW b \in Nodes, peer_sources'[a][b] # -1, <<a, b>> \notin late'
                   PROVE  \E j \in Used, f \in Ends :
                             At(j, f) = a /\ Remote(j, f) = b /\ End(j, f) \in Settled
        BY <2>2 DEF Kept, At, Remote, Used, End
      <4>3. CASE <<a, b>> = <<msg.to, msg.from>>
        <5>1. msg.conn # Free
          BY <4>1, <4>3
        <5>2. /\ msg.conn \in Used /\ At(msg.conn, msg.end) = a /\ Remote(msg.conn, msg.end) = b
              /\ End(msg.conn, msg.end) \in Settled
          BY <1>l, <2>2, <4>3, <5>1 DEF Addressed, Settled
        <5> QED BY <2>1, <5>2
      <4>4. CASE <<a, b>> # <<msg.to, msg.from>>
        <5>1. peer_sources[a][b] # -1 /\ <<a, b>> \notin late
          BY <4>1, <4>2, <4>4
        <5> QED BY <1>l, <5>1 DEF Kept
      <4> QED BY <4>3, <4>4
    <3> QED BY <3>1, <3>2
  <2> QED BY <2>3, <2>4 DEF Links
<1>9. ASSUME NEW n \in Nodes, ChangeSources(n) \/ Restart(n) PROVE Links'
  <2>1. up \subseteq up' /\ UNCHANGED <<conns, peer_conn, peer_sources, msgs, late>>
    BY <1>9 DEF ChangeSources, Restart
  <2> QED BY <1>l, <2>1 DEF Links, Wired, Entered, Addressed, Kept, At, Remote, Used, End, State
<1>10. ASSUME NEW n \in Nodes, Broadcast(n) PROVE Links'
  <2>1. /\ msgs' = msgs \cup Tell(n, "sources", {}, sources[n])
        /\ UNCHANGED <<up, conns, peer_conn, peer_sources, late>>
    BY <1>10 DEF Broadcast
  <2>2. Wired' /\ Entered' /\ Kept'
    BY <1>l, <2>1 DEF Wired, Entered, Kept, At, Remote, Used, End, State
  <2>3. sources[n] \in Nat /\ {} \in SUBSET Nodes
    BY DEF Types
  <2>4. Addressed'
    <3> SUFFICES ASSUME NEW msg \in msgs', msg.conn # Free
                 PROVE  /\ msg.conn \in Used /\ At(msg.conn, msg.end) = msg.to
                        /\ Remote(msg.conn, msg.end) = msg.from /\ End(msg.conn, msg.end) # "gone"
      BY <2>1 DEF Addressed, At, Remote, Used, End
    <3>1. CASE msg \in msgs
      BY <1>l, <3>1 DEF Addressed
    <3>2. CASE msg \in Tell(n, "sources", {}, sources[n])
      <4>1. /\ msg \in Messages /\ msg.conn \in Used /\ State(msg.conn) = "alive"
            /\ msg.to = At(msg.conn, msg.end) /\ msg.from = Remote(msg.conn, msg.end)
        BY <1>l, <2>3, <3>2, TellFacts
      <4>2. msg.end \in Ends
        BY <4>1 DEF Messages
      <4> QED BY <1>l, <4>1, <4>2 DEF Wired
    <3> QED BY <2>1, <3>1, <3>2
  <2> QED BY <2>2, <2>4 DEF Links
<1>11. ASSUME NEW n \in Nodes, NEW how, \A i \in Used : how[i] \in {"lost", "closed"}, Stop(n, how)
       PROVE  Links'
  <2>1. Leaves(n)
    BY <1>11, StopFacts
  <2>2. /\ up' = up \ {n}
        /\ peer_conn' = [peer_conn EXCEPT ![n] = [m \in Nodes |-> Free]]
        /\ peer_sources' = [peer_sources EXCEPT ![n] = [m \in Nodes |-> -1]]
        /\ msgs' = {msg \in msgs : msg.to # n} /\ late' = late
    BY <1>11 DEF Stop
  <2>3. /\ \A b \in Nodes : peer_conn'[n][b] = Free /\ peer_sources'[n][b] = -1
        /\ \A a \in Nodes \ {n}, b \in Nodes :
              peer_conn'[a][b] = peer_conn[a][b] /\ peer_sources'[a][b] = peer_sources[a][b]
    BY <2>2 DEF Types
  \* An end that is there and not of n stays.
  <2>4. /\ Used' \subseteq Used
        /\ \A j \in Used, f \in Ends :
              At(j, f) # n /\ End(j, f) # "gone" => j \in Used' /\ End(j, f)' = End(j, f)
    BY <2>1 DEF Leaves
  <2>5. Wired'
    <3> SUFFICES ASSUME NEW j \in Used', NEW f \in Ends
                 PROVE  /\ End(j, f)' # "gone" => At(j, f) \in up'
                        /\ State(j)' = "alive" => End(j, f)' # "gone"
                        /\ State(j)' = "alive" /\ End(j, f)' \in Ahead => End(j, Other(f))' # "hello"
      BY DEF Wired, At
    <3>1. j \in Used
      BY <2>4
    <3>2. CASE n \in Pair(j)
      <4>1. State(j)' # "alive"
        BY <2>1, <3>2 DEF Leaves
      <4>2. CASE At(j, f) = n
        BY <2>1, <4>1, <4>2 DEF Leaves
      <4>3. CASE At(j, f) # n
        <5>1. End(j, f)' = End(j, f)
          BY <2>1, <4>3 DEF Leaves
        <5> QED BY <1>l, <2>2, <3>1, <4>1, <4>3, <5>1 DEF Wired
      <4> QED BY <4>2, <4>3
    <3>3. CASE n \notin Pair(j)
      <4>1. conns'[j] = conns[j]
        BY <2>1, <3>3 DEF Leaves
      <4>2. At(j, f) # n /\ Other(f) \in Ends
        BY <1>u, <3>1, <3>3, EndFacts
      <4>3. State(j)' = State(j) /\ End(j, f)' = End(j, f) /\ End(j, Other(f))' = End(j, Other(f))
        BY <4>1 DEF State, End
      <4> QED BY <1>l, <2>2, <3>1, <4>2, <4>3 DEF Wired
    <3> QED BY <3>2, <3>3
  <2>6. Entered'
    <3> SUFFICES ASSUME NEW a \in Nodes, NEW b \in Nodes, NEW j \in Places, peer_conn'[a][b] = j
                 PROVE  /\ j \in Used'
                        /\ \E f \in Ends : At(j, f) = a /\ Remote(j, f) = b /\ End(j, f)' = "open"
      BY DEF Entered, At, Remote
    <3>1. a # n /\ peer_conn[a][b] = j
      BY <2>3, FreeAssumption
    <3>2. PICK f \in Ends : j \in Used /\ At(j, f) = a /\ Remote(j, f) = b /\ End(j, f) = "open"
      BY <1>l, <3>1 DEF Entered
    <3> QED BY <2>4, <3>1, <3>2
  <2>7. Addressed'
    <3> SUFFICES ASSUME NEW msg \in msgs', msg.conn # Free
                 PROVE  /\ msg.conn \in Used' /\ At(msg.conn, msg.end) = msg.to
                        /\ Remote(msg.conn, msg.end) = msg.from /\ End(msg.conn, msg.end)' # "gone"
      BY DEF Addressed, At, Remote
    <3>1. /\ msg \in msgs /\ msg.to # n /\ msg.end \in Ends
      BY <2>2 DEF Types, Messages
    <3>2. /\ msg.conn \in Used /\ At(msg.conn, msg.end) = msg.to
          /\ Remote(msg.conn, msg.end) = msg.from /\ End(msg.conn, msg.end) # "gone"
      BY <1>l, <3>1 DEF Addressed
    <3>3. msg.conn \in Used' /\ End(msg.conn, msg.end)' = End(msg.conn, msg.end)
      BY <2>4, <3>1, <3>2
    <3> QED BY <3>2, <3>3
  <2>8. Kept'
    <3> SUFFICES ASSUME NEW a \in Nodes, NEW b \in Nodes, peer_sources'[a][b] # -1, <<a, b>> \notin late
                 PROVE  \E j \in Used', f \in Ends :
                           At(j, f) = a /\ Remote(j, f) = b /\ End(j, f)' \in Settled
      BY <2>2 DEF Kept, At, Remote
    <3>1. a # n /\ peer_sources[a][b] # -1
      BY <2>3
    <3>2. PICK j \in Used, f \in Ends : At(j, f) = a /\ Remote(j, f) = b /\ End(j, f) \in Settled
      BY <1>l, <3>1 DEF Kept
    <3> QED BY <2>4, <3>1, <3>2 DEF Settled
  <2> QED BY <2>5, <2>6, <2>7, <2>8 DEF Links
<1>12. ASSUME NEW n \in Nodes, Crash(n) \/ Shutdown(n) PROVE Links'
  <2>1. CASE Crash(n)
    BY <1>11, <2>1 DEF Crash
  <2>2. CASE Shutdown(n)
    BY <1>11, <2>2 DEF Shutdown
  <2> QED BY <1>12, <2>1, <2>2
<1>13. CASE UNCHANGED vars
  <2>1. UNCHANGED <<up, conns, peer_conn, peer_sources, msgs, late>>
    BY <1>13 DEF vars
  <2> QED BY <1>l, <2>1 DEF Links, Wired, Entered, Addressed, Kept, At, Remote, Used, End, State
<1> QED
  BY <1>1, <1>2, <1>3, <1>4, <1>5, <1>6, <1>7, <1>8, <1>9, <1>10, <1>12, <1>13, <1>14, <1>15 DEF Next, Work, Step

\* How a behaviour begins: pairs that have connected, each under one place.
LEMMA InitFacts ==
    ASSUME Init
    PROVE  \E start \in Starts :
              LET Joined(n, m) == <<n, m>> \in start.joined
              IN  /\ up = start.members /\ file = start.peers /\ peer_list = start.peers
                  /\ dial = [n \in Nodes |-> [m \in Nodes |->
                        IF Joined(n, m) THEN "busy" ELSE IF Joined(m, n) THEN "ended"
                        ELSE Dialled(n, start.peers[n])[m]]]
                  /\ conns = [i \in Places |->
                        IF i[3] = 1 /\ Joined(i[1], i[2]) THEN Conn("open") ELSE Free]
                  /\ peer_conn = [n \in Nodes |-> [m \in Nodes |->
                        IF Joined(n, m) THEN <<n, m, 1>>
                        ELSE IF Joined(m, n) THEN <<m, n, 1>> ELSE Free]]
                  /\ peer_sources = [n \in Nodes |-> [m \in Nodes |->
                        IF Joined(n, m) \/ Joined(m, n) THEN 0 ELSE -1]]
                  /\ msgs = {Update(p, start.peers[p[2]]) : p \in start.told}
BY DEF Init

\* Types and links at the start.
LEMMA TypesInit == Init => Types /\ Links
<1> SUFFICES ASSUME Init PROVE Types /\ Links
  OBVIOUS
<1>1. PICK start \in Starts :
        /\ up = start.members /\ file = start.peers /\ peer_list = start.peers
        /\ dial = [n \in Nodes |-> [m \in Nodes |->
              IF <<n, m>> \in start.joined THEN "busy" ELSE IF <<m, n>> \in start.joined THEN "ended"
              ELSE Dialled(n, start.peers[n])[m]]]
        /\ conns = [i \in Places |->
              IF i[3] = 1 /\ <<i[1], i[2]>> \in start.joined THEN Conn("open") ELSE Free]
        /\ peer_conn = [n \in Nodes |-> [m \in Nodes |->
              IF <<n, m>> \in start.joined THEN <<n, m, 1>>
              ELSE IF <<m, n>> \in start.joined THEN <<m, n, 1>> ELSE Free]]
        /\ peer_sources = [n \in Nodes |-> [m \in Nodes |->
              IF <<n, m>> \in start.joined \/ <<m, n>> \in start.joined THEN 0 ELSE -1]]
        /\ msgs = {Update(p, start.peers[p[2]]) : p \in start.told}
  BY InitFacts
<1> DEFINE Joined(n, m) == <<n, m>> \in start.joined
<1>2. /\ start.members \subseteq Nodes /\ start.peers \in [Nodes -> SUBSET Nodes]
      /\ \A n \in Nodes : start.peers[n] \subseteq start.members \ {n}
      /\ \A pair \in start.joined : \E n \in start.members : \E m \in start.members \ {n} :
            pair = <<n, m>>
      /\ start.told \subseteq start.joined
  BY StartsAssumption
<1>3. \A n, m : Joined(n, m) => n \in start.members /\ m \in start.members /\ n # m
  BY <1>2
<1>4. /\ sources = [n \in Nodes |-> 0] /\ notify_source = [n \in Nodes |-> FALSE]
      /\ saves = {} /\ spoiled = FALSE /\ unsaved = {} /\ outdated = {} /\ late = {}
  BY DEF Init
<1>5. /\ Conn("open") \in Connections /\ Conn("open").state = "alive" /\ Conn("open") # Free
      /\ \A e \in Ends : Conn("open").end[e] = "open"
  BY FreeAssumption DEF Conn, Connections
<1>6. \A i \in Places : i \in Used <=> i[3] = 1 /\ Joined(i[1], i[2])
  BY <1>1, <1>5 DEF Used
<1>7. Used \subseteq Places /\ \A i \in Used : /\ conns[i] = Conn("open") /\ State(i) = "alive"
                                               /\ \A e \in Ends : End(i, e) = "open"
  BY <1>1, <1>5, <1>6 DEF Used, State, End
<1>8. \A n \in Nodes, m \in Nodes : <<n, m, 1>> \in Places
  BY MaxConnsAssumption DEF Places
<1>m. ASSUME NEW msg \in msgs
      PROVE  \E n \in Nodes, m \in Nodes :
                /\ Joined(n, m) /\ msg = Update(<<n, m>>, start.peers[m])
                /\ start.peers[m] \in SUBSET Nodes
  <2>1. PICK p \in start.told : msg = Update(p, start.peers[p[2]])
    BY <1>1
  <2>2. PICK n \in start.members : \E m \in start.members \ {n} : p = <<n, m>>
    BY <1>2
  <2>3. PICK m \in start.members \ {n} : p = <<n, m>>
    BY <2>2
  <2>4. p[2] = m /\ Joined(n, m) /\ n \in Nodes /\ m \in Nodes
    BY <1>2, <2>3
  <2>5. start.peers[m] \in SUBSET Nodes
    BY <1>2, <2>4
  <2> QED BY <2>1, <2>3, <2>4, <2>5
<1>9. Types
  <2>1. /\ file \in [Nodes -> SUBSET Nodes] /\ \A n \in Nodes : n \notin file[n]
    <3>1. \A n \in Nodes : start.peers[n] \in SUBSET Nodes /\ n \notin start.peers[n]
      BY <1>2
    <3> QED BY <1>1, <1>2, <3>1
  <2>2. /\ dial \in [Nodes -> [Nodes -> {"none", "dial", "busy", "ended"}]]
        /\ \A n \in Nodes : dial[n][n] # "dial"
    <3>1. \A n \in Nodes, m \in Nodes : Dialled(n, start.peers[n])[m] \in {"none", "dial"}
      BY DEF Dialled
    <3>2. \A n \in Nodes : Dialled(n, start.peers[n])[n] = "none"
      BY <1>2 DEF Dialled
    <3> QED BY <1>1, <3>1, <3>2
  <2>3. conns \in [Places -> Connections \cup {Free}]
    BY <1>1, <1>5
  <2>4. peer_conn \in [Nodes -> [Nodes -> Places \cup {Free}]]
    BY <1>1, <1>8
  <2>5. peer_sources \in [Nodes -> [Nodes -> Nat \cup {-1}]]
    BY <1>1
  <2>6. \A i \in Used : i[1] # i[2]
    BY <1>3, <1>6 DEF Used
  <2>7. /\ peer_list \in [Nodes -> SUBSET Nodes] /\ \A n \in Nodes : n \notin peer_list[n]
    BY <1>1, <2>1
  <2>8. up \subseteq Nodes
    BY <1>1, <1>2
  <2>9. msgs \subseteq Messages
    <3> SUFFICES ASSUME NEW msg \in msgs PROVE msg \in Messages
      OBVIOUS
    <3>1. PICK n \in Nodes, m \in Nodes : /\ msg = Update(<<n, m>>, start.peers[m])
                                          /\ start.peers[m] \in SUBSET Nodes
      BY <1>m
    <3> QED BY <1>8, <3>1 DEF Update, Messages, Ends
  <2> QED BY <1>4, <2>1, <2>2, <2>3, <2>4, <2>5, <2>6, <2>7, <2>8, <2>9 DEF Types
<1>10. \A n \in Nodes, m \in Nodes : Joined(n, m) => <<n, m, 1>> \in Used
  BY <1>6, <1>8
<1>11. Wired
  <2> SUFFICES ASSUME NEW i \in Used, NEW e \in Ends PROVE At(i, e) \in up
    BY <1>7 DEF Wired, Ends, Other
  <2>1. Joined(i[1], i[2])
    BY <1>6, <1>7
  <2> QED BY <1>1, <1>3, <2>1 DEF At
<1>12. Entered
  <2> SUFFICES ASSUME NEW n \in Nodes, NEW m \in Nodes, NEW i \in Places, peer_conn[n][m] = i
               PROVE  i \in Used /\ \E e \in Ends : At(i, e) = n /\ Remote(i, e) = m /\ End(i, e) = "open"
    BY DEF Entered
  <2>1. CASE Joined(n, m)
    <3>1. i = <<n, m, 1>>
      BY <1>1, <2>1
    <3>2. At(i, "c") = n /\ Remote(i, "c") = m /\ "c" \in Ends
      BY <3>1 DEF At, Remote, Other, Ends
    <3> QED BY <1>7, <1>10, <2>1, <3>1, <3>2
  <2>2. CASE ~Joined(n, m)
    <3>1. Joined(m, n) /\ i = <<m, n, 1>>
      BY <1>1, <2>2, FreeAssumption
    <3>2. At(i, "s") = n /\ Remote(i, "s") = m /\ "s" \in Ends
      BY <3>1 DEF At, Remote, Other, Ends
    <3> QED BY <1>7, <1>10, <3>1, <3>2
  <2> QED BY <2>1, <2>2
<1>13. Kept
  <2> SUFFICES ASSUME NEW n \in Nodes, NEW m \in Nodes, peer_sources[n][m] # -1
               PROVE  \E i \in Used, e \in Ends : At(i, e) = n /\ Remote(i, e) = m /\ End(i, e) \in Settled
    BY DEF Kept
  <2>1. Joined(n, m) \/ Joined(m, n)
    BY <1>1
  <2>2. CASE Joined(n, m)
    <3>1. At(<<n, m, 1>>, "c") = n /\ Remote(<<n, m, 1>>, "c") = m /\ "c" \in Ends
      BY DEF At, Remote, Other, Ends
    <3> QED BY <1>7, <1>10, <2>2, <3>1 DEF Settled
  <2>3. CASE Joined(m, n)
    <3>1. At(<<m, n, 1>>, "s") = n /\ Remote(<<m, n, 1>>, "s") = m /\ "s" \in Ends
      BY DEF At, Remote, Other, Ends
    <3> QED BY <1>7, <1>10, <2>3, <3>1 DEF Settled
  <2> QED BY <2>1, <2>2, <2>3
<1>14. Addressed
  <2> SUFFICES ASSUME NEW msg \in msgs
               PROVE  /\ msg.conn \in Used /\ At(msg.conn, msg.end) = msg.to
                      /\ Remote(msg.conn, msg.end) = msg.from /\ End(msg.conn, msg.end) # "gone"
    BY DEF Addressed
  <2>1. PICK n \in Nodes, m \in Nodes : Joined(n, m) /\ msg = Update(<<n, m>>, start.peers[m])
    BY <1>m
  <2>2. msg.conn = <<n, m, 1>> /\ msg.end = "c" /\ msg.to = n /\ msg.from = m
    BY <2>1 DEF Update
  <2>3. msg.conn \in Used
    BY <1>10, <2>1, <2>2
  <2> QED BY <1>7, <2>2, <2>3 DEF At, Remote, Other, Ends
<1> QED BY <1>9, <1>11, <1>12, <1>13, <1>14 DEF Links

\* Types and links hold at all times.
LEMMA LinksAlways == Spec => [](Types /\ Links)
<1>1. Types /\ Links /\ [Next]_vars => Types' /\ Links'
  BY TypesStep, LinksStep DEF Links
<1> QED BY <1>1, TypesInit, PTL DEF Spec

\* Giganto keeps no sources of a peer to which it has no connection, except
\* those that a request still being handled brought after the connection ended.
THEOREM StrangersAreForgotten == Spec => []NoSourcesOfStrangers
<1>1. Types /\ Links => NoSourcesOfStrangers
  <2> SUFFICES ASSUME Types, Links, NEW n \in Nodes, NEW m \in Nodes,
                      peer_sources[n][m] # -1, <<n, m>> \notin late
               PROVE  \E i \in Used : Pair(i) = {n, m} /\ n \in up
    BY DEF NoSourcesOfStrangers
  <2>1. PICK i \in Used, e \in Ends : At(i, e) = n /\ Remote(i, e) = m /\ End(i, e) \in Settled
    BY DEF Links, Kept
  <2>2. Pair(i) = {n, m}
    BY <2>1, ConnFacts, EndFacts
  <2>3. n \in up
    BY <2>1 DEF Links, Wired, Settled
  <2> QED BY <2>2, <2>3
<1> QED BY <1>1, LinksAlways, PTL
-----------------------------------------------------------------------------
(* Who knows whose sources.                                                *)

\* Nobody has a list that is newer than the node's own.
Bounded ==
    /\ \A i \in Used, e \in Ends : conns[i].sources[e] <= sources[At(i, e)]
    /\ \A msg \in msgs : msg.what = "sources" => msg.sources <= sources[msg.from]
    /\ \A n \in Nodes, m \in Nodes : peer_sources[n][m] <= sources[m]

\* The entry for a connection in the main loop is there.
Listed ==
    \A i \in Used, e \in Ends :
        State(i) = "alive" /\ End(i, e) = "open" => peer_conn[At(i, e)][Remote(i, e)] # Free

\* What came with the exchange has not been replaced by something older.
Merged ==
    \A i \in Used, e \in Ends :
        State(i) = "alive" /\ End(i, e) \in Settled /\ <<At(i, e), Remote(i, e)>> \notin outdated =>
            conns[i].sources[Other(e)] <= peer_sources[At(i, e)][Remote(i, e)]

\* No connection that m has to n in its main loop is dead.
Healthy(m, n) ==
    \A j \in Used, f \in Ends :
        At(j, f) = m /\ Remote(j, f) = n /\ End(j, f) = "open" => State(j) = "alive"

\* One of them has got as far at the end of n.
Linked(m, n) ==
    \E j \in Used, f \in Ends :
        /\ At(j, f) = m /\ Remote(j, f) = n
        /\ End(j, f) = "open" /\ End(j, Other(f)) \in Settled

\* An update of m with its present sources is on its way to n.
Coming(m, n) ==
    \E msg \in msgs :
        /\ msg.from = m /\ msg.to = n /\ msg.what = "sources" /\ msg.sources = sources[m]
        /\ msg.conn # Free /\ End(msg.conn, Other(msg.end)) = "open"

\* The far end of a connection has the present sources or is going to.
Knows(i, e, m, n) ==
    \/ notify_source[m] \/ Coming(m, n)
    \/ peer_sources[n][m] = sources[m] /\ Linked(m, n)
    \/ End(i, Other(e)) \in Early /\ conns[i].sources[e] = sources[m]

Informed ==
    \A i \in Used, e \in Ends, m \in Nodes, n \in Nodes :
        /\ m = At(i, e) /\ n = Remote(i, e) /\ State(i) = "alive" /\ End(i, e) = "open"
        /\ Healthy(m, n) /\ <<n, m>> \notin outdated
        => Knows(i, e, m, n)

News == Listed /\ Merged /\ Informed

\* n has a list of m, and is behind if it had a newer one.
Learned(n, m, list) ==
    /\ peer_sources'[n][m] = list
    /\ \A a \in Nodes, b \in Nodes : a # n \/ b # m => peer_sources'[a][b] = peer_sources[a][b]
    /\ outdated \subseteq outdated'
    /\ list < peer_sources[n][m] => <<n, m>> \in outdated'

\* Taking over a peer's list of sources.
LEMMA LearnedFacts ==
    ASSUME Types, NEW n \in Nodes, NEW m \in Nodes, NEW list \in Nat, LearnSources(n, m, list)
    PROVE  Learned(n, m, list)
<1>1. /\ peer_sources'[n][m] = list
      /\ \A a \in Nodes, b \in Nodes : <<a, b>> # <<n, m>> => peer_sources'[a][b] = peer_sources[a][b]
      /\ outdated \subseteq outdated'
      /\ list < peer_sources[n][m] => <<n, m>> \in outdated'
  BY LearnSourcesFacts
<1>2. \A a \in Nodes, b \in Nodes : a # n \/ b # m => <<a, b>> # <<n, m>>
  OBVIOUS
<1> QED BY <1>1, <1>2 DEF Learned

\* What handle_request does with a list of sources.
LEMMA ReceiveFacts ==
    ASSUME Types, NEW msg \in msgs, Receive(msg)
    PROVE  /\ msgs' = msgs \ {msg} /\ Used' = Used
           /\ UNCHANGED <<up, conns, peer_conn, sources, notify_source, left, spoiled>>
           /\ msg.what = "peers" => UNCHANGED <<peer_sources, outdated>>
           /\ msg.what = "sources" => Learned(msg.to, msg.from, msg.sources)
           /\ msg.to \in Nodes /\ msg.from \in Nodes /\ msg.sources \in Nat
           /\ msg.what \in {"peers", "sources"}
<1>1. /\ msgs' = msgs \ {msg} /\ Used' = Used
      /\ UNCHANGED <<up, conns, peer_conn, sources, notify_source, left, spoiled>>
      /\ msg.what = "peers" => UNCHANGED <<peer_sources, outdated>>
  BY DEF Receive, Used
<1>2. /\ msg.to \in Nodes /\ msg.from \in Nodes /\ msg.sources \in Nat
      /\ msg.what \in {"peers", "sources"}
  BY DEF Types, Messages
<1>3. CASE msg.what = "sources"
  <2>1. LearnSources(msg.to, msg.from, msg.sources)
    BY <1>3 DEF Receive
  <2> QED BY <1>1, <1>2, <2>1, LearnedFacts
<1> QED BY <1>1, <1>2, <1>3

\* What the exchange does with the other's list of sources.
LEMMA MergeFacts ==
    ASSUME Types, NEW i \in Used, NEW e \in Ends, Merge(i, e)
    PROVE  /\ Moves(i, e, "merge")
           /\ Learned(At(i, e), Remote(i, e), conns[i].sources[Other(e)])
           /\ UNCHANGED <<up, peer_conn, sources, notify_source, msgs, left, spoiled, late>>
<1>1. /\ Move(i, e, "merge")
      /\ LearnSources(At(i, e), Remote(i, e), conns[i].sources[Other(e)])
      /\ UNCHANGED <<up, peer_conn, sources, notify_source, msgs, left, spoiled, late>>
  BY DEF Merge, State
<1>2. Moves(i, e, "merge")
  BY <1>1, MoveFacts DEF Points
<1>3. At(i, e) \in Nodes /\ Remote(i, e) \in Nodes /\ conns[i].sources[Other(e)] \in Nat
  BY ConnFacts, EndFacts
<1>4. Learned(At(i, e), Remote(i, e), conns[i].sources[Other(e)])
  BY <1>1, <1>3, LearnedFacts
<1> QED BY <1>1, <1>2, <1>4

\* Every step keeps what Bounded says.
LEMMA BoundedStep == Types /\ Types' /\ Links /\ Bounded /\ [Next]_vars => Bounded'
<1> SUFFICES ASSUME Types, Types', Links, Bounded, [Next]_vars PROVE Bounded'
  OBVIOUS
<1>l. Wired /\ Entered /\ Addressed
  BY DEF Links
<1>t. /\ \A n \in Nodes : sources[n] \in Nat /\ sources'[n] \in Nat
      /\ \A n \in Nodes, m \in Nodes : peer_sources[n][m] \in Nat \cup {-1}
      /\ \A msg \in msgs : msg \in Messages /\ msg.sources \in Nat /\ msg.from \in Nodes /\ msg.to \in Nodes
  BY DEF Types, Messages
<1>u. \A i \in Used : \A e \in Ends : /\ i \in Places /\ At(i, e) \in Nodes /\ Remote(i, e) \in Nodes
                                      /\ conns[i].sources[e] \in Nat /\ Other(e) \in Ends
                                      /\ \A f \in Ends : f = e \/ f = Other(e)
  BY ConnFacts, EndFacts
<1>s. ASSUME sources' = sources,
             \A j \in Used', f \in Ends : conns'[j].sources[f] <= sources[At(j, f)],
             \A msg \in msgs' : msg.what = "sources" => msg.sources <= sources[msg.from],
             \A n \in Nodes, m \in Nodes : peer_sources'[n][m] <= sources[m]
      PROVE  Bounded'
  BY <1>s DEF Bounded, At
<1>1. ASSUME NEW n \in Nodes, NEW m \in Nodes, Connect(n, m) PROVE Bounded'
  <2>1. UNCHANGED <<peer_sources, sources, msgs>>
    BY <1>1, ConnectFacts
  <2>2. PICK i \in Places : OnlyAt(i) /\ i \in Used' /\ \A e \in Ends : conns'[i].sources[e] = 0
    BY <1>1, ConnectFacts
  <2>3. ASSUME NEW j \in Used', NEW f \in Ends PROVE conns'[j].sources[f] <= sources[At(j, f)]
    <3>1. CASE j = i
      <4>1. At(i, f) \in Nodes
        BY EndFacts
      <4> QED BY <1>t, <2>2, <3>1, <4>1
    <3>2. CASE j # i
      <4>1. j \in Used /\ conns'[j] = conns[j]
        BY <1>u, <2>2, <3>2 DEF OnlyAt, Used
      <4> QED BY <4>1 DEF Bounded
    <3> QED BY <3>1, <3>2
  <2> QED BY <1>s, <2>1, <2>3 DEF Bounded
\* The lists that the ends have read stay, but for one that is read again.
<1>2. ASSUME NEW i \in Used, NEW e \in Ends, EndStep(i, e),
             i \in Used' => conns'[i].sources[e] \in {conns[i].sources[e], sources[At(i, e)]}
      PROVE  \A j \in Used', f \in Ends : conns'[j].sources[f] <= sources[At(j, f)]
  <2> SUFFICES ASSUME NEW j \in Used', NEW f \in Ends PROVE conns'[j].sources[f] <= sources[At(j, f)]
    OBVIOUS
  <2>1. j \in Used /\ (~(j = i /\ f = e) => conns'[j].sources[f] = conns[j].sources[f])
    BY <1>2, StillThere
  <2>2. sources[At(j, f)] \in Nat
    BY <1>t, <1>u, <2>1
  <2> QED BY <1>2, <2>1, <2>2 DEF Bounded
<1>3. ASSUME NEW i \in Used, NEW e \in Ends, NEW to \in Points, Move(i, e, to), i \in Used'
      PROVE  conns'[i].sources[e] = conns[i].sources[e]
  BY <1>3, MoveFacts DEF Moves
<1>4. ASSUME NEW i \in Used, NEW e \in Ends, Duplicate(i, e) \/ SetupFails(i, e) PROVE Bounded'
  <2>1. EndStep(i, e) /\ GiveUp(i, e)
    BY <1>4, <1>l, EndStepFacts DEF Duplicate, SetupFails
  <2>2. i \in Used' => conns'[i].sources[e] = conns[i].sources[e]
    <3>1. CASE Duplicate(i, e)
      BY <3>1, DuplicateFacts
    <3>2. CASE SetupFails(i, e)
      BY <1>3, <3>2 DEF SetupFails, Points
    <3> QED BY <1>4, <3>1, <3>2
  <2>3. msgs' \subseteq msgs /\ UNCHANGED <<peer_sources, sources>>
    BY <2>1, GiveUpFacts
  <2> QED BY <1>2, <1>s, <2>1, <2>2, <2>3 DEF Bounded
<1>5. ASSUME NEW i \in Used, NEW e \in Ends, Check(i, e) PROVE Bounded'
  <2>1. EndStep(i, e)
    BY <1>5, <1>l, EndStepFacts
  <2>2. conns'[i].sources[e] = sources[At(i, e)] /\ UNCHANGED <<peer_sources, sources, msgs>>
    BY <1>5, CheckFacts
  <2> QED BY <1>2, <1>s, <2>1, <2>2 DEF Bounded
<1>16. ASSUME NEW i \in Used, Answer(i) PROVE Bounded'
  <2>1. "s" \in Ends /\ Move(i, "s", "answer") /\ UNCHANGED <<peer_sources, sources, msgs>>
    BY <1>16 DEF Answer, Ends
  <2>2. EndStep(i, "s")
    BY <1>16, <1>l, <2>1, EndStepFacts
  <2>3. i \in Used' => conns'[i].sources["s"] = conns[i].sources["s"]
    BY <1>3, <2>1 DEF Points
  <2> QED BY <1>2, <1>s, <2>1, <2>2, <2>3 DEF Bounded
<1>17. ASSUME NEW t \in saves, Save(t) \/ SaveFails(t) PROVE Bounded'
  <2>1. UNCHANGED <<conns, peer_sources, sources, msgs>> /\ Used' = Used
    BY <1>17 DEF Save, SaveFails, Used
  <2> QED BY <1>s, <2>1 DEF Bounded
<1>6. ASSUME NEW i \in Used, NEW e \in Ends, Merge(i, e) PROVE Bounded'
  <2>1. EndStep(i, e)
    BY <1>6, <1>l, EndStepFacts
  <2>3. At(i, e) \in Nodes /\ Remote(i, e) \in Nodes /\ Other(e) \in Ends
    BY <1>u
  <2>4. /\ Moves(i, e, "merge") /\ UNCHANGED <<sources, msgs>>
        /\ Learned(At(i, e), Remote(i, e), conns[i].sources[Other(e)])
    BY <1>6, MergeFacts
  <2>5. conns[i].sources[Other(e)] <= sources[Remote(i, e)]
    BY <2>3 DEF Bounded, Remote
  <2>6. \A a \in Nodes, b \in Nodes : peer_sources'[a][b] <= sources[b]
    BY <2>4, <2>5 DEF Bounded, Learned
  <2>7. i \in Used' => conns'[i].sources[e] = conns[i].sources[e]
    BY <2>4 DEF Moves
  <2> QED BY <1>2, <1>s, <2>1, <2>4, <2>6, <2>7 DEF Bounded
<1>7. ASSUME NEW i \in Used, NEW e \in Ends, Join(i, e) PROVE Bounded'
  <2>1. EndStep(i, e)
    BY <1>7, <1>l, EndStepFacts
  <2>2. /\ msgs' = msgs \cup Tell(At(i, e), "peers", peer_list[At(i, e)], 0)
        /\ Move(i, e, "open") /\ UNCHANGED <<sources, peer_sources>>
    BY <1>7 DEF Join
  <2>3. At(i, e) \in Nodes /\ peer_list[At(i, e)] \in SUBSET Nodes
    BY <1>u DEF Types
  <2>4. \A msg \in Tell(At(i, e), "peers", peer_list[At(i, e)], 0) : msg.what = "peers"
    BY <1>l, <2>3, TellFacts
  <2>5. \A msg \in msgs' : msg.what = "sources" => msg.sources <= sources[msg.from]
    BY <2>2, <2>4 DEF Bounded
  <2>6. i \in Used' => conns'[i].sources[e] = conns[i].sources[e]
    BY <1>3, <2>2 DEF Points
  <2> QED BY <1>2, <1>s, <2>1, <2>2, <2>5, <2>6 DEF Bounded
<1>8. ASSUME NEW i \in Used, NEW e \in Ends, Lost(i, e) PROVE Bounded'
  <2>1. EndStep(i, e)
    BY <1>8, <1>l, EndStepFacts
  <2>2. /\ peer_sources' = [peer_sources EXCEPT ![At(i, e)][Remote(i, e)] = -1]
        /\ Move(i, e, "gone") /\ UNCHANGED sources
    BY <1>8 DEF Lost
  <2>3. PICK accepted \in SUBSET MessagesTo(i, e) :
             msgs' = (msgs \ MessagesTo(i, e)) \cup {[msg EXCEPT !.conn = Free] : msg \in accepted}
    BY <1>8 DEF Lost
  <2>4. At(i, e) \in Nodes /\ Remote(i, e) \in Nodes
    BY <1>u
  <2>5. \A n \in Nodes, m \in Nodes : peer_sources'[n][m] <= sources[m]
    <3>0. peer_sources \in [Nodes -> [Nodes -> Nat \cup {-1}]] /\ -1 \in Nat \cup {-1}
      BY DEF Types
    <3>1. \A n \in Nodes, m \in Nodes : peer_sources'[n][m] = -1 \/ peer_sources'[n][m] = peer_sources[n][m]
      BY <2>2, <2>4, <3>0, EntryFacts
    <3> QED BY <1>t, <3>1 DEF Bounded
  <2>6. \A msg \in msgs' : msg.what = "sources" => msg.sources <= sources[msg.from]
    <3>1. \A x \in accepted : x \in msgs
      BY DEF MessagesTo
    <3>2. \A x \in Messages : LET y == [x EXCEPT !.conn = Free]
                              IN  y.what = x.what /\ y.sources = x.sources /\ y.from = x.from
      BY DEF Messages
    <3>3. ASSUME NEW msg \in msgs'
          PROVE  \E x \in msgs : x.what = msg.what /\ x.sources = msg.sources /\ x.from = msg.from
      <4>1. CASE msg \in msgs
        BY <4>1
      <4>2. CASE msg \notin msgs
        <5>1. PICK x \in accepted : msg = [x EXCEPT !.conn = Free]
          BY <2>3, <4>2
        <5>2. x \in msgs /\ x \in Messages
          BY <1>t, <3>1
        <5> QED BY <3>2, <5>1, <5>2
      <4> QED BY <4>1, <4>2
    <3> QED BY <3>3 DEF Bounded
  <2>7. i \in Used' => conns'[i].sources[e] = conns[i].sources[e]
    BY <1>3, <2>2 DEF Points
  <2> QED BY <1>2, <1>s, <2>1, <2>2, <2>5, <2>6, <2>7 DEF Bounded
<1>9. ASSUME NEW i \in Used, Drop(i) PROVE Bounded'
  <2>1. conns' = [conns EXCEPT ![i].state = "lost"] /\ UNCHANGED <<peer_sources, sources, msgs>>
    BY <1>9 DEF Drop
  <2>2. conns[i] \in Connections /\ i \in Places /\ conns \in [Places -> Connections \cup {Free}]
    BY ConnFacts DEF Types
  <2>3. conns'[i].sources = conns[i].sources /\ \A j \in Places \ {i} : conns'[j] = conns[j]
    BY <2>1, <2>2 DEF Connections
  <2>4. Used' \subseteq Used /\ Used \subseteq Places
    BY <2>2, <2>3 DEF Used, Types
  <2>5. \A j \in Used', f \in Ends : conns'[j].sources[f] <= sources[At(j, f)]
    BY <2>3, <2>4 DEF Bounded
  <2> QED BY <1>s, <2>1, <2>5 DEF Bounded
<1>10. ASSUME NEW msg \in msgs, Receive(msg) PROVE Bounded'
  <2>1. msgs' \subseteq msgs /\ UNCHANGED <<conns, sources>> /\ Used' = Used
    BY <1>10, ReceiveFacts
  <2>2. \A n \in Nodes, m \in Nodes : peer_sources'[n][m] <= sources[m]
    <3>1. CASE msg.what = "peers"
      BY <1>10, <3>1, ReceiveFacts DEF Bounded
    <3>2. CASE msg.what = "sources"
      <4>1. Learned(msg.to, msg.from, msg.sources)
        BY <1>10, <3>2, ReceiveFacts
      <4>2. msg.sources <= sources[msg.from]
        BY <3>2 DEF Bounded
      <4> QED BY <4>1, <4>2 DEF Bounded, Learned
    <3> QED BY <1>10, <3>1, <3>2, ReceiveFacts
  <2> QED BY <1>s, <2>1, <2>2 DEF Bounded
<1>11. ASSUME NEW n \in Nodes, ChangeSources(n) \/ Restart(n) PROVE Bounded'
  <2>1. sources' = [sources EXCEPT ![n] = sources[n] + 1] /\ UNCHANGED <<conns, peer_sources, msgs>>
    BY <1>11 DEF ChangeSources, Restart
  <2>2. \A m \in Nodes : sources[m] <= sources'[m] /\ Used' = Used
    BY <1>t, <2>1 DEF Types, Used
  <2>3. \A i \in Used, e \in Ends : conns[i].sources[e] <= sources'[At(i, e)]
    BY <1>t, <1>u, <2>2 DEF Bounded
  <2>4. \A msg \in msgs : msg.what = "sources" => msg.sources <= sources'[msg.from]
    BY <1>t, <2>2 DEF Bounded
  <2>5. \A a \in Nodes, m \in Nodes : peer_sources[a][m] <= sources'[m]
    BY <1>t, <2>2 DEF Bounded
  <2> QED BY <2>1, <2>2, <2>3, <2>4, <2>5 DEF Bounded, At
<1>12. ASSUME NEW n \in Nodes, Broadcast(n) PROVE Bounded'
  <2>1. /\ msgs' = msgs \cup Tell(n, "sources", {}, sources[n])
        /\ UNCHANGED <<conns, peer_sources, sources>> /\ Used' = Used
    BY <1>12 DEF Broadcast, Used
  <2>2. sources[n] \in Nat /\ {} \in SUBSET Nodes
    BY <1>t
  <2>3. \A msg \in Tell(n, "sources", {}, sources[n]) : msg.from = n /\ msg.sources = sources[n]
    BY <1>l, <2>2, TellFacts
  <2>4. \A msg \in msgs' : msg.what = "sources" => msg.sources <= sources[msg.from]
    BY <2>1, <2>2, <2>3 DEF Bounded
  <2> QED BY <1>s, <2>1, <2>4 DEF Bounded
<1>13. ASSUME NEW n \in Nodes, NEW how, \A i \in Used : how[i] \in {"lost", "closed"}, Stop(n, how)
       PROVE  Bounded'
  <2>1. Leaves(n)
    BY <1>13, StopFacts
  <2>2. /\ peer_sources' = [peer_sources EXCEPT ![n] = [m \in Nodes |-> -1]]
        /\ msgs' \subseteq msgs /\ sources' = sources
    BY <1>13 DEF Stop
  <2>3. \A a \in Nodes, m \in Nodes : peer_sources'[a][m] = -1 \/ peer_sources'[a][m] = peer_sources[a][m]
    BY <2>2 DEF Types
  <2>4. \A a \in Nodes, m \in Nodes : peer_sources'[a][m] <= sources[m]
    BY <1>t, <2>3 DEF Bounded
  <2>5. \A j \in Used', f \in Ends : conns'[j].sources[f] <= sources[At(j, f)]
    BY <2>1 DEF Leaves, Bounded
  <2> QED BY <1>s, <2>2, <2>4, <2>5 DEF Bounded
<1>14. ASSUME NEW n \in Nodes, Crash(n) \/ Shutdown(n) PROVE Bounded'
  <2>1. CASE Crash(n)
    BY <1>13, <2>1 DEF Crash
  <2>2. CASE Shutdown(n)
    BY <1>13, <2>2 DEF Shutdown
  <2> QED BY <1>14, <2>1, <2>2
<1>15. CASE UNCHANGED vars
  BY <1>15 DEF vars, Bounded, Used, At
<1> QED
  BY <1>1, <1>4, <1>5, <1>6, <1>7, <1>8, <1>9, <1>10, <1>11, <1>12, <1>14, <1>15, <1>16, <1>17 DEF Next, Work, Step

\* What the definitions say of the next state.
LEMMA ListedNext ==
    ASSUME \A j \in Used', f \in Ends : State(j)' = "alive" /\ End(j, f)' = "open" =>
               peer_conn'[At(j, f)][Remote(j, f)] # Free
    PROVE  Listed'
BY DEF Listed, At, Remote

\* When Merged holds after a step: settled ends took the lists over.
LEMMA MergedNext ==
    ASSUME \A j \in Used', f \in Ends :
               State(j)' = "alive" /\ End(j, f)' \in Settled /\ <<At(j, f), Remote(j, f)>> \notin outdated' =>
               conns'[j].sources[Other(f)] <= peer_sources'[At(j, f)][Remote(j, f)]
    PROVE  Merged'
BY DEF Merged, At, Remote, Settled, Other

\* When a pair is healthy, every open end of it is alive.
LEMMA HealthyNext ==
    ASSUME NEW m \in Nodes, NEW n \in Nodes, Healthy(m, n)'
    PROVE  \A j \in Used', f \in Ends :
               At(j, f) = m /\ Remote(j, f) = n /\ End(j, f)' = "open" => State(j)' = "alive"
BY DEF Healthy, At, Remote

\* An open end whose other is settled links the pair.
LEMMA LinkedNext ==
    ASSUME NEW m \in Nodes, NEW n \in Nodes, NEW j \in Used', NEW f \in Ends,
           At(j, f) = m, Remote(j, f) = n, End(j, f)' = "open", End(j, Other(f))' \in Settled
    PROVE  Linked(m, n)'
BY DEF Linked, At, Remote, Settled, Other

\* A message with the current list, sent to an open end, is news on its way.
LEMMA ComingNext ==
    ASSUME NEW m \in Nodes, NEW n \in Nodes, NEW msg \in msgs',
           msg.from = m, msg.to = n, msg.what = "sources", msg.sources = sources'[m],
           msg.conn # Free, NEW k, k = msg.conn, NEW g, g = Other(msg.end), End(k, g)' = "open"
    PROVE  Coming(m, n)'
<1>1. \E x \in msgs' : /\ x.from = m /\ x.to = n /\ x.what = "sources" /\ x.sources = sources'[m]
                       /\ x.conn # Free /\ conns'[x.conn].end[Other(x.end)] = "open"
  BY DEF End
<1> QED BY <1>1 DEF Coming, End, Other

\* The ways in which a node knows, or will know, the sources of another.
LEMMA KnowsNext ==
    ASSUME NEW j \in Used', NEW f \in Ends, NEW m \in Nodes, NEW n \in Nodes,
           \/ notify_source'[m] \/ Coming(m, n)'
           \/ peer_sources'[n][m] = sources'[m] /\ Linked(m, n)'
           \/ End(j, Other(f))' \in Early /\ conns'[j].sources[f] = sources'[m]
    PROVE  Knows(j, f, m, n)'
BY DEF Knows, Other

\* When Informed holds after a step.
LEMMA InformedNext ==
    ASSUME \A j \in Used', f \in Ends, m \in Nodes, n \in Nodes :
               /\ m = At(j, f) /\ n = Remote(j, f) /\ State(j)' = "alive" /\ End(j, f)' = "open"
               /\ Healthy(m, n)' /\ <<n, m>> \notin outdated'
               => Knows(j, f, m, n)'
    PROVE  Informed'
BY DEF Informed, At, Remote

\* A step of an end, as far as Listed, Merged and Informed are concerned.
LEMMA ListedByEnd ==
    ASSUME Types, Listed, NEW i \in Used, NEW e \in Ends, EndStep(i, e),
           i \in Used' /\ End(i, e)' = "open" =>
               End(i, e) = "open" \/ peer_conn'[At(i, e)][Remote(i, e)] # Free,
           \A j \in Used', f \in Ends :
               State(j)' = "alive" /\ End(j, f) = "open" /\ peer_conn[At(j, f)][Remote(j, f)] # Free
               => peer_conn'[At(j, f)][Remote(j, f)] # Free
    PROVE  Listed'
<1> SUFFICES ASSUME NEW j \in Used', NEW f \in Ends, State(j)' = "alive", End(j, f)' = "open"
             PROVE  peer_conn'[At(j, f)][Remote(j, f)] # Free
  BY ListedNext
<1>1. j \in Used /\ State(j) = "alive" /\ (~(j = i /\ f = e) => End(j, f) = "open")
  BY StillThere
<1>2. CASE End(j, f) = "open"
  BY <1>1, <1>2 DEF Listed
<1>3. CASE End(j, f) # "open"
  BY <1>1, <1>3
<1> QED BY <1>2, <1>3

\* A step of an end keeps Merged.
LEMMA MergedByEnd ==
    ASSUME Types, Types', Merged, NEW i \in Used, NEW e \in Ends, EndStep(i, e), outdated \subseteq outdated',
           i \in Used' /\ State(i)' = "alive" =>
              /\ End(i, e)' \in Settled =>
                    End(i, e) \in Settled \/ conns[i].sources[Other(e)] <= peer_sources'[At(i, e)][Remote(i, e)]
              /\ End(i, Other(e)) \in Settled => conns'[i].sources[e] = conns[i].sources[e],
           \A j \in Used', f \in Ends :
              State(j)' = "alive" /\ End(j, f) \in Settled /\ <<At(j, f), Remote(j, f)>> \notin outdated' =>
              peer_sources[At(j, f)][Remote(j, f)] <= peer_sources'[At(j, f)][Remote(j, f)]
    PROVE  Merged'
<1> SUFFICES ASSUME NEW j \in Used', NEW f \in Ends, State(j)' = "alive", End(j, f)' \in Settled,
                    <<At(j, f), Remote(j, f)>> \notin outdated'
             PROVE  conns'[j].sources[Other(f)] <= peer_sources'[At(j, f)][Remote(j, f)]
  BY MergedNext
<1>1. /\ j \in Used /\ State(j) = "alive" /\ (~(j = i /\ f = e) => End(j, f)' = End(j, f))
      /\ \A g \in Ends : ~(j = i /\ g = e) => conns'[j].sources[g] = conns[j].sources[g]
  BY StillThere
<1>2. Other(f) \in Ends /\ Other(f) # f /\ Other(Other(f)) = f /\ At(j, f) \in Nodes /\ Remote(j, f) \in Nodes
  BY <1>1, ConnFacts, EndFacts
<1>3. CASE End(j, f) \in Settled
  <2>1. conns'[j].sources[Other(f)] = conns[j].sources[Other(f)]
    <3>1. CASE j = i /\ Other(f) = e
      <4>1. End(i, Other(e)) \in Settled
        BY <1>2, <1>3, <3>1
      <4> QED BY <3>1, <4>1
    <3>2. CASE ~(j = i /\ Other(f) = e)
      BY <1>1, <1>2, <3>2
    <3> QED BY <3>1, <3>2
  <2>2. conns[j].sources[Other(f)] <= peer_sources[At(j, f)][Remote(j, f)]
    BY <1>1, <1>3 DEF Merged
  <2>3. peer_sources[At(j, f)][Remote(j, f)] <= peer_sources'[At(j, f)][Remote(j, f)]
    BY <1>3
  <2>4. /\ conns[j].sources[Other(f)] \in Nat /\ peer_sources[At(j, f)][Remote(j, f)] \in Nat \cup {-1}
        /\ peer_sources'[At(j, f)][Remote(j, f)] \in Nat \cup {-1}
    BY <1>1, <1>2, ConnFacts DEF Types
  <2> QED BY <2>1, <2>2, <2>3, <2>4
<1>4. CASE End(j, f) \notin Settled
  <2>1. j = i /\ f = e
    BY <1>1, <1>4
  <2> QED BY <1>1, <1>2, <1>4, <2>1
<1> QED BY <1>3, <1>4

\* A step of an end leaves no one less informed.
LEMMA KnowsByEnd ==
    ASSUME Types, Links, Informed, NEW i \in Used, NEW e \in Ends, EndStep(i, e),
           UNCHANGED <<sources, notify_source>>, outdated \subseteq outdated',
           NEW j \in Used', NEW f \in Ends, NEW m \in Nodes, NEW n \in Nodes,
           m = At(j, f), n = Remote(j, f), State(j)' = "alive", End(j, f) = "open",
           Healthy(m, n)', <<n, m>> \notin outdated',
           End(i, e) # "open" \/ ~(m = At(i, e) /\ n = Remote(i, e)),
           \A msg \in msgs : msg.conn # Free =>
               msg \in msgs' \/ (msg.conn = i /\ msg.end = e /\ (i \in Used' => State(i)' # "alive")),
           Linked(m, n) /\ Healthy(m, n) /\ peer_sources[n][m] = sources[m] => peer_sources'[n][m] = sources[m],
           End(i, e) \in Settled /\ State(i) = "alive" => i \in Used' /\ End(i, e)' \in Settled,
           i \in Used' /\ State(i)' = "alive" /\ End(i, e) \in Early =>
               \/ End(i, e)' \in Early
               \/ /\ End(i, e)' = "merge"
                  /\ peer_sources'[At(i, e)][Remote(i, e)] = conns[i].sources[Other(e)],
           i \in Used' /\ End(i, e) = "open" => conns'[i].sources[e] = conns[i].sources[e]
    PROVE  Knows(j, f, m, n)'
<1>0. Wired /\ Addressed
  BY DEF Links
<1>1. /\ j \in Used /\ State(j) = "alive" /\ j \in Places
      /\ Other(f) \in Ends /\ Other(f) # f /\ Other(Other(f)) = f /\ m = Remote(j, Other(f)) /\ n = At(j, Other(f))
  BY StillThere, ConnFacts, EndFacts DEF Remote
\* The steps of other ends.
<1>2. \A k \in Used, g \in Ends : ~(k = i /\ g = e) /\ End(k, g) # "gone" => k \in Used' /\ End(k, g)' = End(k, g)
  BY StillThere
<1>3. \A k \in Used' : State(k)' = "alive" => State(k) = "alive"
  BY StillThere
<1>h. \A k \in Used', g \in Ends :
           At(k, g) = m /\ Remote(k, g) = n /\ End(k, g)' = "open" => State(k)' = "alive"
  BY HealthyNext
<1>4. Healthy(m, n)
  <2> SUFFICES ASSUME NEW k \in Used, NEW g \in Ends, At(k, g) = m, Remote(k, g) = n, End(k, g) = "open"
               PROVE  State(k) = "alive"
    BY DEF Healthy
  <2>1. ~(k = i /\ g = e)
    OBVIOUS
  <2>2. k \in Used' /\ End(k, g)' = "open"
    BY <1>2, <2>1
  <2> QED BY <1>3, <1>h, <2>2
<1>5. Knows(j, f, m, n)
  BY <1>1, <1>4 DEF Informed
<1>6. CASE notify_source[m]
  BY <1>6, KnowsNext
<1>7. CASE Coming(m, n)
  <2>1. PICK msg \in msgs :
           /\ msg.from = m /\ msg.to = n /\ msg.what = "sources" /\ msg.sources = sources[m]
           /\ msg.conn # Free /\ End(msg.conn, Other(msg.end)) = "open"
    BY <1>7 DEF Coming
  <2>2. PICK k, g, h : k = msg.conn /\ g = Other(msg.end) /\ h = msg.end
    OBVIOUS
  <2>3. h \in Ends /\ k \in Used /\ At(k, h) = n /\ Remote(k, h) = m
    BY <1>0, <2>1, <2>2 DEF Addressed, Types, Messages
  <2>4. g \in Ends /\ g = Other(h) /\ At(k, g) = m /\ Remote(k, g) = n /\ g # h /\ End(k, g) = "open"
    BY <2>1, <2>2, <2>3, ConnFacts, EndFacts DEF Remote
  <2>5. ~(k = i /\ g = e)
    BY <2>4
  <2>6. k \in Used' /\ End(k, g)' = "open"
    BY <1>2, <2>3, <2>4, <2>5
  <2>7. State(k)' = "alive"
    BY <1>h, <2>4, <2>6
  <2>8. msg \in msgs'
    BY <2>1, <2>2, <2>6, <2>7
  <2>9. Coming(m, n)'
    BY <2>1, <2>2, <2>6, <2>8, ComingNext
  <2> QED BY <2>9, KnowsNext
<1>8. CASE peer_sources[n][m] = sources[m] /\ Linked(m, n)
  <2>1. PICK k \in Used, g \in Ends :
           At(k, g) = m /\ Remote(k, g) = n /\ End(k, g) = "open" /\ End(k, Other(g)) \in Settled
    BY <1>8 DEF Linked
  <2>2. Other(g) \in Ends /\ Other(g) # g
    BY <2>1, ConnFacts, EndFacts
  <2>3. k \in Used' /\ End(k, g)' = "open" /\ State(k) = "alive"
    BY <1>2, <1>3, <1>h, <2>1
  <2>4. End(k, Other(g))' \in Settled
    <3>1. CASE k = i /\ Other(g) = e
      BY <2>1, <2>3, <3>1
    <3>2. CASE ~(k = i /\ Other(g) = e)
      BY <1>2, <2>1, <2>2, <3>2 DEF Settled
    <3> QED BY <3>1, <3>2
  <2>5. Linked(m, n)'
    BY <2>1, <2>3, <2>4, LinkedNext
  <2> QED BY <1>4, <1>8, <2>5, KnowsNext
<1>9. CASE End(j, Other(f)) \in Early /\ conns[j].sources[f] = sources[m]
  <2>1. CASE j = i /\ e = Other(f)
    <3>0. conns'[j].sources[f] = conns[j].sources[f] /\ f = Other(e) /\ ~(j = i /\ f = e)
      BY <1>1, <2>1 DEF EndStep
    <3>1. CASE End(i, e)' \in Early
      BY <1>9, <2>1, <3>0, <3>1, KnowsNext
    <3>2. CASE End(i, e)' = "merge" /\ peer_sources'[At(i, e)][Remote(i, e)] = conns[i].sources[Other(e)]
      <4>1. peer_sources'[n][m] = sources[m]
        BY <1>1, <1>9, <2>1, <3>0, <3>2
      <4>2. End(j, f)' = "open"
        BY <1>1, <1>2, <3>0
      <4>3. End(j, Other(f))' \in Settled
        BY <2>1, <3>2 DEF Settled
      <4>4. Linked(m, n)'
        BY <4>2, <4>3, LinkedNext
      <4> QED BY <4>1, <4>4, KnowsNext
    <3> QED BY <1>9, <2>1, <3>1, <3>2
  <2>2. CASE ~(j = i /\ e = Other(f))
    <3>1. End(j, Other(f))' = End(j, Other(f))
      BY <1>1, <1>2, <1>9, <2>2 DEF Early
    <3>2. conns'[j].sources[f] = conns[j].sources[f]
      <4>1. CASE j = i /\ f = e
        BY <4>1
      <4>2. CASE ~(j = i /\ f = e)
        BY <4>2, StillThere
      <4> QED BY <4>1, <4>2
    <3> QED BY <1>9, <3>1, <3>2, KnowsNext
  <2> QED BY <2>1, <2>2
<1> QED BY <1>5, <1>6, <1>7, <1>8, <1>9 DEF Knows

\* Steps that leave the ends where they are.
Still ==
    /\ Used \subseteq Used'
    /\ \A k \in Used : State(k)' = "alive" => State(k) = "alive"
    /\ \A k \in Used, g \in Ends :
          End(k, g)' = End(k, g) /\ conns'[k].sources[g] = conns[k].sources[g]
    /\ \A k \in Used' \ Used, g \in Ends : End(k, g)' = "hello"

\* A step that moves no end keeps Listed.
LEMMA ListedStill ==
    ASSUME Listed, Still, peer_conn' = peer_conn
    PROVE  Listed'
<1> SUFFICES ASSUME NEW j \in Used', NEW f \in Ends, State(j)' = "alive", End(j, f)' = "open"
             PROVE  peer_conn'[At(j, f)][Remote(j, f)] # Free
  BY ListedNext
<1>1. j \in Used /\ State(j) = "alive" /\ End(j, f) = "open"
  BY DEF Still
<1> QED BY <1>1 DEF Listed

\* A step that moves no end keeps Merged.
LEMMA MergedStill ==
    ASSUME Types, Types', Merged, Still, outdated \subseteq outdated',
           \A n \in Nodes, m \in Nodes : <<n, m>> \notin outdated' => peer_sources[n][m] <= peer_sources'[n][m]
    PROVE  Merged'
<1> SUFFICES ASSUME NEW j \in Used', NEW f \in Ends, State(j)' = "alive", End(j, f)' \in Settled,
                    <<At(j, f), Remote(j, f)>> \notin outdated'
             PROVE  conns'[j].sources[Other(f)] <= peer_sources'[At(j, f)][Remote(j, f)]
  BY MergedNext
<1>1. j \in Used /\ State(j) = "alive" /\ End(j, f) \in Settled
  BY DEF Still, Settled
<1>2. /\ Other(f) \in Ends /\ At(j, f) \in Nodes /\ Remote(j, f) \in Nodes
      /\ conns[j].sources[Other(f)] \in Nat
  BY <1>1, ConnFacts, EndFacts
<1>3. conns'[j].sources[Other(f)] = conns[j].sources[Other(f)]
  BY <1>1, <1>2 DEF Still
<1>4. conns[j].sources[Other(f)] <= peer_sources[At(j, f)][Remote(j, f)]
  BY <1>1 DEF Merged
<1>5. PICK a \in Nodes, b \in Nodes : a = At(j, f) /\ b = Remote(j, f)
  BY <1>2
<1>6. peer_sources[a][b] <= peer_sources'[a][b]
  BY <1>5
<1>7. peer_sources[a][b] \in Nat \cup {-1} /\ peer_sources'[a][b] \in Nat \cup {-1}
  BY DEF Types
<1> QED BY <1>2, <1>3, <1>4, <1>5, <1>6, <1>7

\* Who is to know something and has been heading there.
LEMMA KnewStill ==
    ASSUME Types, Informed, Still, outdated \subseteq outdated',
           NEW j \in Used', NEW f \in Ends, NEW m \in Nodes, NEW n \in Nodes,
           m = At(j, f), n = Remote(j, f), State(j)' = "alive", End(j, f)' = "open",
           Healthy(m, n)', <<n, m>> \notin outdated'
    PROVE  /\ j \in Used /\ State(j) = "alive" /\ End(j, f) = "open"
           /\ Healthy(m, n) /\ Knows(j, f, m, n)
<1>1. j \in Used /\ State(j) = "alive" /\ End(j, f) = "open"
  BY DEF Still
<1>2. Healthy(m, n)
  <2>1. \A k \in Used', g \in Ends :
           At(k, g) = m /\ Remote(k, g) = n /\ End(k, g)' = "open" => State(k)' = "alive"
    BY HealthyNext
  <2>2. ASSUME NEW k \in Used, NEW g \in Ends, At(k, g) = m, Remote(k, g) = n, End(k, g) = "open"
        PROVE  State(k) = "alive"
    BY <2>1, <2>2 DEF Still
  <2> QED BY <2>2 DEF Healthy
<1> QED BY <1>1, <1>2 DEF Informed

\* A step that moves no end keeps the pairs linked.
LEMMA LinkedStill ==
    ASSUME Types, Still, NEW m \in Nodes, NEW n \in Nodes, Linked(m, n)
    PROVE  Linked(m, n)'
<1>1. PICK k \in Used, g \in Ends :
         At(k, g) = m /\ Remote(k, g) = n /\ End(k, g) = "open" /\ End(k, Other(g)) \in Settled
  BY DEF Linked
<1>2. Other(g) \in Ends
  BY ConnFacts, EndFacts
<1>3. k \in Used' /\ End(k, g)' = "open" /\ End(k, Other(g))' \in Settled
  BY <1>1, <1>2 DEF Still
<1> QED BY <1>1, <1>3, LinkedNext

\* A step that moves no end leaves a node informed, or its message is taken.
LEMMA KnowsStill ==
    ASSUME Types, Links, Still, NEW j \in Used, NEW f \in Ends, NEW m \in Nodes, NEW n \in Nodes,
           Knows(j, f, m, n), sources'[m] = sources[m], notify_source[m] => notify_source'[m],
           \A msg \in msgs : msg.from = m /\ msg.to = n /\ msg.what = "sources" /\ msg.conn # Free
                             /\ msg.sources = sources[m] /\ End(msg.conn, Other(msg.end)) = "open" =>
               msg \in msgs' \/ (peer_sources'[n][m] = sources[m] /\ Linked(m, n)'),
           peer_sources[n][m] = sources[m] => peer_sources'[n][m] = sources[m]
    PROVE  Knows(j, f, m, n)'
<1>1. j \in Used' /\ j \in Places /\ Other(f) \in Ends
  BY ConnFacts, EndFacts DEF Still
<1>2. CASE notify_source[m]
  BY <1>1, <1>2, KnowsNext
<1>3. CASE Coming(m, n)
  <2>1. PICK msg \in msgs :
           /\ msg.from = m /\ msg.to = n /\ msg.what = "sources" /\ msg.sources = sources[m]
           /\ msg.conn # Free /\ End(msg.conn, Other(msg.end)) = "open"
    BY <1>3 DEF Coming
  <2>2. PICK k, g : k = msg.conn /\ g = Other(msg.end)
    OBVIOUS
  <2>3. k \in Used /\ g \in Ends
    <3>1. msg.end \in Ends /\ msg.conn \in Used
      BY <2>1 DEF Links, Addressed, Types, Messages
    <3> QED BY <2>2, <3>1 DEF Other, Ends
  <2>4. End(k, g)' = "open"
    BY <2>1, <2>2, <2>3 DEF Still
  <2>5. CASE msg \in msgs'
    <3>1. Coming(m, n)'
      BY <2>1, <2>2, <2>4, <2>5, ComingNext
    <3> QED BY <1>1, <3>1, KnowsNext
  <2>6. CASE peer_sources'[n][m] = sources[m] /\ Linked(m, n)'
    BY <1>1, <2>6, KnowsNext
  <2> QED BY <2>1, <2>5, <2>6
<1>4. CASE peer_sources[n][m] = sources[m] /\ Linked(m, n)
  <2>1. Linked(m, n)'
    BY <1>4, LinkedStill
  <2> QED BY <1>1, <1>4, <2>1, KnowsNext
<1>5. CASE End(j, Other(f)) \in Early /\ conns[j].sources[f] = sources[m]
  <2>1. End(j, Other(f))' \in Early /\ conns'[j].sources[f] = sources[m]
    BY <1>1, <1>5 DEF Still
  <2> QED BY <1>1, <2>1, KnowsNext
<1> QED BY <1>2, <1>3, <1>4, <1>5 DEF Knows

\* An end gives up before its connection is in peer_conn.
LEMMA NewsGiveUp ==
    ASSUME Types, Types', Links, News, NEW i \in Used, NEW e \in Ends, Duplicate(i, e) \/ SetupFails(i, e)
    PROVE  News'
<1>0. Wired /\ Listed /\ Merged /\ Informed
  BY DEF Links, News
<1>1. /\ EndStep(i, e) /\ GiveUp(i, e) /\ End(i, e) \in {"hello", "init"}
      /\ i \in Used' => End(i, e)' = "gone"
  BY <1>0, EndStepFacts DEF Duplicate, SetupFails
<1>2. /\ msgs' = msgs \ MessagesTo(i, e)
      /\ UNCHANGED <<peer_conn, peer_sources, sources, notify_source, outdated>>
  BY <1>1, GiveUpFacts
<1>3. i \in Used' => State(i)' # "alive"
  BY <1>1 DEF EndStep
<1>4. Listed'
  BY <1>0, <1>1, <1>2, ListedByEnd
<1>5. Merged'
  <2>1. ASSUME NEW a \in Nodes, NEW b \in Nodes PROVE peer_sources[a][b] <= peer_sources'[a][b]
    <3>1. peer_sources[a][b] \in Nat \cup {-1}
      BY DEF Types
    <3> QED BY <1>2, <3>1
  <2>2. \A j \in Used', f \in Ends : j \in Used /\ At(j, f) \in Nodes /\ Remote(j, f) \in Nodes
    BY <1>1, StillThere, ConnFacts, EndFacts
  <2>3. \A j \in Used', f \in Ends : peer_sources[At(j, f)][Remote(j, f)] <= peer_sources'[At(j, f)][Remote(j, f)]
    BY <2>1, <2>2
  <2> QED BY <1>0, <1>1, <1>2, <1>3, <2>3, MergedByEnd
<1>6. Informed'
  <2> SUFFICES ASSUME NEW j \in Used', NEW f \in Ends, NEW m \in Nodes, NEW n \in Nodes,
                      m = At(j, f), n = Remote(j, f), State(j)' = "alive", End(j, f)' = "open",
                      Healthy(m, n)', <<n, m>> \notin outdated'
               PROVE  Knows(j, f, m, n)'
    BY InformedNext
  <2>1. End(j, f) = "open" /\ j # i
    BY <1>1, <1>3, StillThere
  <2>2. \A msg \in msgs : msg \in msgs' \/ (msg.conn = i /\ msg.end = e /\ (i \in Used' => State(i)' # "alive"))
    BY <1>2, <1>3 DEF MessagesTo
  <2>3. End(i, e) # "open" /\ End(i, e) \notin Settled
    BY <1>1 DEF Settled
  <2> QED BY <1>0, <1>1, <1>2, <1>3, <2>1, <2>2, <2>3, KnowsByEnd
<1> QED BY <1>4, <1>5, <1>6 DEF News

\* An end reads its own lists.
LEMMA NewsCheck ==
    ASSUME Types, Types', Links, News, NEW i \in Used, NEW e \in Ends, Check(i, e)
    PROVE  News'
<1>0. Wired /\ Listed /\ Merged /\ Informed
  BY DEF Links, News
<1>1. EndStep(i, e) /\ End(i, e) = "hello" /\ i \in Used' /\ End(i, e)' = "init"
  BY <1>0, EndStepFacts
<1>2. UNCHANGED <<msgs, peer_conn, peer_sources, sources, notify_source, outdated>> /\ State(i)' = State(i)
  BY CheckFacts
<1>3. State(i)' = "alive" => End(i, Other(e)) \notin Settled
  <2>1. Other(e) \in Ends /\ Other(Other(e)) = e
    BY ConnFacts, EndFacts
  <2> QED BY <1>0, <1>1, <1>2, <2>1 DEF Wired, Settled, Ahead
<1>4. Listed'
  BY <1>0, <1>1, <1>2, ListedByEnd
<1>5. Merged'
  <2>1. ASSUME NEW a \in Nodes, NEW b \in Nodes PROVE peer_sources[a][b] <= peer_sources'[a][b]
    <3>1. peer_sources[a][b] \in Nat \cup {-1}
      BY DEF Types
    <3> QED BY <1>2, <3>1
  <2>2. \A j \in Used', f \in Ends : j \in Used /\ At(j, f) \in Nodes /\ Remote(j, f) \in Nodes
    BY <1>1, StillThere, ConnFacts, EndFacts
  <2>3. \A j \in Used', f \in Ends : peer_sources[At(j, f)][Remote(j, f)] <= peer_sources'[At(j, f)][Remote(j, f)]
    BY <2>1, <2>2
  <2>4. End(i, e)' \notin Settled
    BY <1>1 DEF Settled
  <2> QED BY <1>0, <1>1, <1>2, <1>3, <2>3, <2>4, MergedByEnd
<1>6. Informed'
  <2> SUFFICES ASSUME NEW j \in Used', NEW f \in Ends, NEW m \in Nodes, NEW n \in Nodes,
                      m = At(j, f), n = Remote(j, f), State(j)' = "alive", End(j, f)' = "open",
                      Healthy(m, n)', <<n, m>> \notin outdated'
               PROVE  Knows(j, f, m, n)'
    BY InformedNext
  <2>1. End(j, f) = "open"
    BY <1>1, StillThere
  <2>3. End(i, e) # "open" /\ End(i, e) \notin Settled /\ End(i, e)' \in Early
    BY <1>1 DEF Settled, Early
  <2> QED BY <1>0, <1>1, <1>2, <2>1, <2>3, KnowsByEnd
<1> QED BY <1>4, <1>5, <1>6 DEF News

\* The server answers.
LEMMA NewsAnswer ==
    ASSUME Types, Types', Links, News, NEW i \in Used, Answer(i)
    PROVE  News'
<1>0. Wired /\ Listed /\ Merged /\ Informed
  BY DEF Links, News
<1>e. PICK e \in Ends : e = "s"
  BY DEF Ends
<1>1. EndStep(i, e) /\ End(i, e) = "init" /\ i \in Used' /\ End(i, e)' = "answer"
  BY <1>0, <1>e, EndStepFacts
<1>2. UNCHANGED <<msgs, peer_conn, peer_sources, sources, notify_source, outdated>>
  BY DEF Answer
<1>3. conns'[i].sources[e] = conns[i].sources[e]
  <2>1. Moves(i, e, "answer")
    BY <1>e, MoveFacts DEF Answer, Points
  <2> QED BY <1>1, <2>1 DEF Moves
<1>4. Listed'
  BY <1>0, <1>1, <1>2, ListedByEnd
<1>5. Merged'
  <2>1. ASSUME NEW a \in Nodes, NEW b \in Nodes PROVE peer_sources[a][b] <= peer_sources'[a][b]
    <3>1. peer_sources[a][b] \in Nat \cup {-1}
      BY DEF Types
    <3> QED BY <1>2, <3>1
  <2>2. \A j \in Used', f \in Ends : j \in Used /\ At(j, f) \in Nodes /\ Remote(j, f) \in Nodes
    BY <1>1, StillThere, ConnFacts, EndFacts
  <2>3. \A j \in Used', f \in Ends : peer_sources[At(j, f)][Remote(j, f)] <= peer_sources'[At(j, f)][Remote(j, f)]
    BY <2>1, <2>2
  <2>4. End(i, e)' \notin Settled
    BY <1>1 DEF Settled
  <2> QED BY <1>0, <1>1, <1>2, <1>3, <2>3, <2>4, MergedByEnd
<1>6. Informed'
  <2> SUFFICES ASSUME NEW j \in Used', NEW f \in Ends, NEW m \in Nodes, NEW n \in Nodes,
                      m = At(j, f), n = Remote(j, f), State(j)' = "alive", End(j, f)' = "open",
                      Healthy(m, n)', <<n, m>> \notin outdated'
               PROVE  Knows(j, f, m, n)'
    BY InformedNext
  <2>1. End(j, f) = "open"
    BY <1>1, StillThere
  <2>3. End(i, e) # "open" /\ End(i, e) \notin Settled /\ End(i, e)' \in Early
    BY <1>1 DEF Settled, Early
  <2> QED BY <1>0, <1>1, <1>2, <2>1, <2>3, KnowsByEnd
<1> QED BY <1>4, <1>5, <1>6 DEF News

\* An end takes over the other's lists.
LEMMA NewsMerge ==
    ASSUME Types, Types', Links, Bounded, News, NEW i \in Used, NEW e \in Ends, Merge(i, e)
    PROVE  News'
<1>0. Wired /\ Listed /\ Merged /\ Informed
  BY DEF Links, News
<1>1. EndStep(i, e) /\ End(i, e) \in {"init", "answer"} /\ i \in Used' /\ End(i, e)' = "merge"
  BY <1>0, EndStepFacts
<1>2. /\ UNCHANGED <<msgs, peer_conn, sources, notify_source>> /\ Moves(i, e, "merge")
      /\ Learned(At(i, e), Remote(i, e), conns[i].sources[Other(e)])
  BY MergeFacts
<1>3. conns'[i].sources[e] = conns[i].sources[e]
  BY <1>1, <1>2 DEF Moves
<1>n. /\ At(i, e) \in Nodes /\ Remote(i, e) \in Nodes /\ Other(e) \in Ends /\ Remote(i, e) = At(i, Other(e))
      /\ conns[i].sources[Other(e)] \in Nat
  BY ConnFacts, EndFacts DEF Remote
<1>p. ASSUME NEW a \in Nodes, NEW b \in Nodes, <<a, b>> \notin outdated'
      PROVE  peer_sources[a][b] <= peer_sources'[a][b] /\ outdated \subseteq outdated'
  <2>1. peer_sources[a][b] \in Nat \cup {-1}
    BY DEF Types
  <2> QED BY <1>2, <1>n, <1>p, <2>1 DEF Learned
<1>o. outdated \subseteq outdated'
  BY <1>2 DEF Learned
<1>4. Listed'
  BY <1>0, <1>1, <1>2, ListedByEnd
<1>5. Merged'
  <2>2. \A j \in Used', f \in Ends : j \in Used /\ At(j, f) \in Nodes /\ Remote(j, f) \in Nodes
    BY <1>1, StillThere, ConnFacts, EndFacts
  <2>3. \A j \in Used', f \in Ends : <<At(j, f), Remote(j, f)>> \notin outdated' =>
             peer_sources[At(j, f)][Remote(j, f)] <= peer_sources'[At(j, f)][Remote(j, f)]
    BY <1>p, <2>2
  <2>4. conns[i].sources[Other(e)] <= peer_sources'[At(i, e)][Remote(i, e)]
    BY <1>2, <1>n DEF Learned
  <2> QED BY <1>0, <1>1, <1>3, <1>o, <2>3, <2>4, MergedByEnd
<1>6. Informed'
  <2> SUFFICES ASSUME NEW j \in Used', NEW f \in Ends, NEW m \in Nodes, NEW n \in Nodes,
                      m = At(j, f), n = Remote(j, f), State(j)' = "alive", End(j, f)' = "open",
                      Healthy(m, n)', <<n, m>> \notin outdated'
               PROVE  Knows(j, f, m, n)'
    BY InformedNext
  <2>1. End(j, f) = "open"
    BY <1>1, StillThere
  <2>2. peer_sources[n][m] = sources[m] => peer_sources'[n][m] = sources[m]
    <3>1. peer_sources[n][m] <= peer_sources'[n][m]
      BY <1>p
    <3>2. peer_sources'[n][m] <= sources[m] \/ peer_sources'[n][m] = peer_sources[n][m]
      <4>1. conns[i].sources[Other(e)] <= sources[Remote(i, e)]
        BY <1>n DEF Bounded
      <4> QED BY <1>2, <4>1 DEF Learned
    <3>3. /\ sources[m] \in Nat /\ peer_sources[n][m] \in Nat \cup {-1}
          /\ peer_sources'[n][m] \in Nat \cup {-1}
      BY DEF Types
    <3> QED BY <3>1, <3>2, <3>3
  <2>3. End(i, e) # "open" /\ End(i, e) \notin Settled
    BY <1>1 DEF Settled
  <2>4. peer_sources'[At(i, e)][Remote(i, e)] = conns[i].sources[Other(e)]
    BY <1>2 DEF Learned
  <2> QED BY <1>0, <1>1, <1>2, <1>o, <2>1, <2>2, <2>3, <2>4, KnowsByEnd
<1> QED BY <1>4, <1>5, <1>6 DEF News

\* An end enters its main loop.
LEMMA NewsJoin ==
    ASSUME Types, Types', Links, Bounded, News, NEW i \in Used, NEW e \in Ends, Join(i, e)
    PROVE  News'
<1>0. Wired /\ Listed /\ Merged /\ Informed
  BY DEF Links, News
<1>1. EndStep(i, e) /\ End(i, e) = "merge" /\ i \in Used' /\ End(i, e)' = "open"
  BY <1>0, EndStepFacts
<1>n. /\ At(i, e) \in Nodes /\ Remote(i, e) \in Nodes /\ i \in Places /\ i # Free
      /\ Other(e) \in Ends /\ Other(e) # e /\ Other(Other(e)) = e
      /\ At(i, Other(e)) = Remote(i, e) /\ Remote(i, Other(e)) = At(i, e)
  BY ConnFacts, EndFacts, FreeAssumption DEF Remote
<1>2. /\ peer_conn' = [peer_conn EXCEPT ![At(i, e)][Remote(i, e)] = i]
      /\ outdated' = IF conns[i].sources[e] = sources[At(i, e)] \/ notify_source[At(i, e)] THEN outdated
                     ELSE outdated \cup {<<Remote(i, e), At(i, e)>>}
      /\ msgs \subseteq msgs' /\ Move(i, e, "open") /\ UNCHANGED <<peer_sources, sources, notify_source>>
  BY DEF Join
<1>o. outdated \subseteq outdated'
  BY <1>2
<1>3. conns'[i].sources[e] = conns[i].sources[e] /\ State(i)' = State(i) /\ End(i, Other(e))' = End(i, Other(e))
  <2>1. Moves(i, e, "open")
    BY <1>2, MoveFacts DEF Points
  <2> QED BY <1>1, <2>1 DEF Moves
<1>4. Listed'
  <2>1. \A a \in Nodes, b \in Nodes : peer_conn[a][b] # Free => peer_conn'[a][b] # Free
    <3>1. peer_conn \in [Nodes -> [Nodes -> Places \cup {Free}]]
      BY DEF Types
    <3> QED BY <1>2, <1>n, <3>1
  <2>2. peer_conn'[At(i, e)][Remote(i, e)] # Free
    <3>1. peer_conn \in [Nodes -> [Nodes -> Places \cup {Free}]]
      BY DEF Types
    <3> QED BY <1>2, <1>n, <3>1
  <2>3. \A j \in Used', f \in Ends : At(j, f) \in Nodes /\ Remote(j, f) \in Nodes
    BY <1>1, StillThere, ConnFacts, EndFacts
  <2> QED BY <1>0, <1>1, <2>1, <2>2, <2>3, ListedByEnd
<1>5. Merged'
  <2>1. ASSUME NEW a \in Nodes, NEW b \in Nodes PROVE peer_sources[a][b] <= peer_sources'[a][b]
    <3>1. peer_sources[a][b] \in Nat \cup {-1}
      BY DEF Types
    <3> QED BY <1>2, <3>1
  <2>2. \A j \in Used', f \in Ends : At(j, f) \in Nodes /\ Remote(j, f) \in Nodes
    BY <1>1, StillThere, ConnFacts, EndFacts
  <2>3. \A j \in Used', f \in Ends : peer_sources[At(j, f)][Remote(j, f)] <= peer_sources'[At(j, f)][Remote(j, f)]
    BY <2>1, <2>2
  <2>4. End(i, e) \in Settled
    BY <1>1 DEF Settled
  <2> QED BY <1>0, <1>1, <1>3, <1>o, <2>3, <2>4, MergedByEnd
<1>6. Informed'
  <2> SUFFICES ASSUME NEW j \in Used', NEW f \in Ends, NEW m \in Nodes, NEW n \in Nodes,
                      m = At(j, f), n = Remote(j, f), State(j)' = "alive", End(j, f)' = "open",
                      Healthy(m, n)', <<n, m>> \notin outdated'
               PROVE  Knows(j, f, m, n)'
    BY InformedNext
  <2>1. CASE ~(j = i /\ f = e)
    <3>1. End(j, f) = "open"
      BY <1>1, <2>1, StillThere
    <3>2. End(i, e) # "open" /\ End(i, e)' \in Settled /\ End(i, e) \notin Early
      BY <1>1 DEF Settled, Early
    <3> QED BY <1>0, <1>1, <1>2, <1>3, <1>o, <3>1, <3>2, KnowsByEnd
  <2>2. CASE j = i /\ f = e /\ notify_source[m]
    BY <1>2, <2>2, KnowsNext
  <2>3. CASE j = i /\ f = e /\ ~notify_source[m]
    <3>1. conns[i].sources[e] = sources[m] /\ State(i) = "alive"
      BY <1>2, <1>3, <2>3
    <3>2. End(i, Other(e)) \in Early \cup Settled
      <4>1. End(i, Other(e)) \in Points
        BY <1>1, <1>n, ConnFacts
      <4> QED BY <1>0, <1>n, <3>1, <4>1 DEF Wired, Points, Early, Settled
    <3>3. CASE End(i, Other(e)) \in Early
      BY <1>2, <1>3, <2>3, <3>1, <3>3, KnowsNext
    <3>4. CASE End(i, Other(e)) \in Settled
      <4>1. conns[i].sources[e] <= peer_sources[n][m]
        BY <1>0, <1>n, <1>o, <2>3, <3>1, <3>4 DEF Merged
      <4>2. peer_sources[n][m] <= sources[m] /\ sources[m] \in Nat /\ peer_sources[n][m] \in Nat \cup {-1}
        BY DEF Bounded, Types
      <4>3. peer_sources'[n][m] = sources'[m]
        BY <1>2, <3>1, <4>1, <4>2
      <4>4. Linked(m, n)'
        BY <1>1, <1>3, <2>3, <3>4, LinkedNext
      <4> QED BY <4>3, <4>4, KnowsNext
    <3> QED BY <3>2, <3>3, <3>4
  <2> QED BY <2>1, <2>2, <2>3
<1> QED BY <1>4, <1>5, <1>6 DEF News

\* An end leaves its main loop.
LEMMA NewsLost ==
    ASSUME Types, Types', Links, News, NEW i \in Used, NEW e \in Ends, Lost(i, e), ~spoiled'
    PROVE  News'
<1>0. Wired /\ Listed /\ Merged /\ Informed
  BY DEF Links, News
<1>1. /\ EndStep(i, e) /\ End(i, e) = "open" /\ State(i) # "alive"
      /\ i \in Used' => End(i, e)' = "gone"
  BY <1>0, EndStepFacts
<1>2. PICK n0 \in Nodes, m0 \in Nodes : n0 = At(i, e) /\ m0 = Remote(i, e)
  BY ConnFacts, EndFacts
<1>3. /\ peer_conn' = [peer_conn EXCEPT ![n0][m0] = Free]
      /\ peer_sources' = [peer_sources EXCEPT ![n0][m0] = -1]
      /\ Move(i, e, "gone") /\ UNCHANGED <<sources, notify_source, outdated>>
      /\ ~\E j \in Used \ {i} : /\ Pair(j) = {n0, m0} /\ conns[j].state = "alive"
                                /\ conns[j].end[EndOf(j, n0)] \in {"merge", "open"}
      /\ \A msg \in msgs : msg \in msgs' \/ msg \in MessagesTo(i, e)
  BY <1>2 DEF Lost
\* What is gone does not matter to a connection that is alive.
<1>4. ASSUME NEW j \in Used, NEW f \in Ends, State(j) = "alive", End(j, f) \in Settled
      PROVE  ~(At(j, f) = n0 /\ Remote(j, f) = m0)
  <2>1. Pair(j) = {At(j, f), Remote(j, f)} /\ EndOf(j, At(j, f)) = f
    BY ConnFacts, EndFacts
  <2>2. j # i
    BY <1>1, <1>4
  <2> QED BY <1>3, <1>4, <2>1, <2>2 DEF State, End, Settled
<1>5. \A a \in Nodes, b \in Nodes : ~(a = n0 /\ b = m0) => peer_conn'[a][b] = peer_conn[a][b]
  BY <1>3 DEF Types
<1>6. \A a \in Nodes, b \in Nodes : ~(a = n0 /\ b = m0) => peer_sources'[a][b] = peer_sources[a][b]
  BY <1>3 DEF Types
<1>7. \A j \in Used', f \in Ends : /\ j \in Used /\ At(j, f) \in Nodes /\ Remote(j, f) \in Nodes
                                   /\ State(j)' = "alive" => State(j) = "alive"
  BY <1>1, StillThere, ConnFacts, EndFacts
<1>s. i \in Used' => State(i)' # "alive"
  BY <1>1, <1>7 DEF EndStep
<1>8. Listed'
  <2>1. \A j \in Used', f \in Ends : State(j)' = "alive" /\ End(j, f) = "open" =>
            peer_conn'[At(j, f)][Remote(j, f)] = peer_conn[At(j, f)][Remote(j, f)]
    BY <1>4, <1>5, <1>7 DEF Settled
  <2> QED BY <1>0, <1>1, <2>1, ListedByEnd
<1>9. Merged'
  <2>1. ASSUME NEW j \in Used', NEW f \in Ends, State(j)' = "alive", End(j, f) \in Settled
        PROVE  peer_sources[At(j, f)][Remote(j, f)] <= peer_sources'[At(j, f)][Remote(j, f)]
    <3>1. PICK a \in Nodes, b \in Nodes : a = At(j, f) /\ b = Remote(j, f)
      BY <1>7
    <3>2. peer_sources'[a][b] = peer_sources[a][b]
      BY <1>4, <1>6, <1>7, <2>1, <3>1
    <3>3. peer_sources[a][b] \in Nat \cup {-1}
      BY DEF Types
    <3> QED BY <3>1, <3>2, <3>3
  <2> QED BY <1>0, <1>1, <1>3, <1>s, <2>1, MergedByEnd
<1>10. Informed'
  <2> SUFFICES ASSUME NEW j \in Used', NEW f \in Ends, NEW m \in Nodes, NEW n \in Nodes,
                      m = At(j, f), n = Remote(j, f), State(j)' = "alive", End(j, f)' = "open",
                      Healthy(m, n)', <<n, m>> \notin outdated'
               PROVE  Knows(j, f, m, n)'
    BY InformedNext
  <2>1. End(j, f) = "open" /\ j # i
    BY <1>1, <1>s, StillThere
  <2>2. ~(m = At(i, e) /\ n = Remote(i, e))
    BY <1>2, <1>4, <1>7, <2>1 DEF Settled
  <2>3. \A msg \in msgs : msg \in msgs' \/ (msg.conn = i /\ msg.end = e /\ (i \in Used' => State(i)' # "alive"))
    BY <1>3, <1>s DEF MessagesTo
  <2>4. Linked(m, n) /\ Healthy(m, n) /\ peer_sources[n][m] = sources[m] => peer_sources'[n][m] = sources[m]
    <3> SUFFICES ASSUME Linked(m, n), Healthy(m, n) PROVE peer_sources'[n][m] = peer_sources[n][m]
      OBVIOUS
    <3>1. PICK k \in Used, g \in Ends :
             At(k, g) = m /\ Remote(k, g) = n /\ End(k, g) = "open" /\ End(k, Other(g)) \in Settled
      BY DEF Linked
    <3>2. Other(g) \in Ends /\ At(k, Other(g)) = n /\ Remote(k, Other(g)) = m
      BY <3>1, ConnFacts, EndFacts DEF Remote
    <3>3. State(k) = "alive"
      BY <3>1 DEF Healthy
    <3>4. ~(n = n0 /\ m = m0)
      BY <1>4, <3>1, <3>2, <3>3
    <3> QED BY <1>6, <3>4
  <2>5. i \in Used' => conns'[i].sources[e] = conns[i].sources[e]
    <3>1. Moves(i, e, "gone")
      BY <1>3, MoveFacts DEF Points
    <3> QED BY <3>1 DEF Moves
  <2>6. End(i, e) \notin Early /\ outdated \subseteq outdated'
    BY <1>1, <1>3 DEF Early
  <2> QED BY <1>0, <1>1, <1>3, <2>1, <2>2, <2>3, <2>4, <2>5, <2>6, KnowsByEnd
<1> QED BY <1>8, <1>9, <1>10 DEF News

\* A new connection, or one that is lost.
LEMMA NewsConns ==
    ASSUME Types, Types', Links, News, Still,
           UNCHANGED <<peer_conn, peer_sources, sources, notify_source, msgs, outdated>>
    PROVE  News'
<1>0. Listed /\ Merged /\ Informed
  BY DEF News
<1>1. Listed'
  BY <1>0, ListedStill
<1>2. Merged'
  <2>1. ASSUME NEW a \in Nodes, NEW b \in Nodes PROVE peer_sources[a][b] <= peer_sources'[a][b]
    <3>1. peer_sources[a][b] \in Nat \cup {-1}
      BY DEF Types
    <3> QED BY <3>1
  <2> QED BY <1>0, <2>1, MergedStill
<1>3. Informed'
  <2> SUFFICES ASSUME NEW j \in Used', NEW f \in Ends, NEW m \in Nodes, NEW n \in Nodes,
                      m = At(j, f), n = Remote(j, f), State(j)' = "alive", End(j, f)' = "open",
                      Healthy(m, n)', <<n, m>> \notin outdated'
               PROVE  Knows(j, f, m, n)'
    BY InformedNext
  <2>1. j \in Used /\ Knows(j, f, m, n)
    BY <1>0, KnewStill
  <2> QED BY <2>1, KnowsStill
<1> QED BY <1>1, <1>2, <1>3 DEF News

\* Steps that leave the connections alone.
LEMMA StillFacts ==
    ASSUME Types, conns' = conns
    PROVE  Still
BY DEF Still, Used, State, End

\* handle_request.
LEMMA NewsReceive ==
    ASSUME Types, Types', Links, Bounded, News, NEW msg \in msgs, Receive(msg)
    PROVE  News'
<1>0. Listed /\ Merged /\ Informed
  BY DEF News
<1>1. /\ msgs' = msgs \ {msg} /\ Used' = Used
      /\ UNCHANGED <<conns, peer_conn, sources, notify_source>>
      /\ msg.what = "peers" => UNCHANGED <<peer_sources, outdated>>
      /\ msg.what = "sources" => Learned(msg.to, msg.from, msg.sources)
      /\ msg.to \in Nodes /\ msg.from \in Nodes /\ msg.sources \in Nat
      /\ msg.what \in {"peers", "sources"}
  BY ReceiveFacts
<1>2. Still
  BY <1>1, StillFacts
<1>o. outdated \subseteq outdated'
  BY <1>1 DEF Learned
<1>p. ASSUME NEW a \in Nodes, NEW b \in Nodes, <<a, b>> \notin outdated'
      PROVE  peer_sources[a][b] <= peer_sources'[a][b]
  <2>1. peer_sources[a][b] \in Nat \cup {-1}
    BY DEF Types
  <2>2. CASE msg.what = "peers"
    BY <1>1, <2>1, <2>2
  <2>3. CASE msg.what = "sources"
    BY <1>1, <1>p, <2>1, <2>3 DEF Learned
  <2> QED BY <1>1, <2>2, <2>3
<1>3. Listed'
  BY <1>0, <1>1, <1>2, ListedStill
<1>4. Merged'
  BY <1>0, <1>2, <1>o, <1>p, MergedStill
<1>5. Informed'
  <2> SUFFICES ASSUME NEW j \in Used', NEW f \in Ends, NEW m \in Nodes, NEW n \in Nodes,
                      m = At(j, f), n = Remote(j, f), State(j)' = "alive", End(j, f)' = "open",
                      Healthy(m, n)', <<n, m>> \notin outdated'
               PROVE  Knows(j, f, m, n)'
    BY InformedNext
  <2>1. j \in Used /\ Knows(j, f, m, n)
    BY <1>0, <1>2, <1>o, KnewStill
  <2>2. peer_sources[n][m] = sources[m] => peer_sources'[n][m] = sources[m]
    <3>1. peer_sources[n][m] <= peer_sources'[n][m]
      BY <1>p
    <3>2. peer_sources'[n][m] <= sources[m] \/ peer_sources'[n][m] = peer_sources[n][m]
      <4>1. CASE msg.what = "peers"
        BY <1>1, <4>1
      <4>2. CASE msg.what = "sources"
        <5>1. msg.sources <= sources[msg.from]
          BY <4>2 DEF Bounded
        <5> QED BY <1>1, <4>2, <5>1 DEF Learned
      <4> QED BY <1>1, <4>1, <4>2
    <3>3. /\ sources[m] \in Nat /\ peer_sources[n][m] \in Nat \cup {-1}
          /\ peer_sources'[n][m] \in Nat \cup {-1}
      BY DEF Types
    <3> QED BY <3>1, <3>2, <3>3
  <2>3. ASSUME NEW x \in msgs, x.from = m, x.to = n, x.what = "sources", x.conn # Free, x.sources = sources[m],
               End(x.conn, Other(x.end)) = "open"
        PROVE  x \in msgs' \/ (peer_sources'[n][m] = sources[m] /\ Linked(m, n)')
    <3>1. CASE x # msg
      BY <1>1, <3>1
    <3>2. CASE x = msg
      <4>1. peer_sources'[n][m] = sources[m]
        BY <1>1, <2>3, <3>2 DEF Learned
      <4>2. PICK k, g, h : k = x.conn /\ g = Other(x.end) /\ h = x.end
        OBVIOUS
      <4>3. h \in Ends /\ k \in Used /\ At(k, h) = n /\ Remote(k, h) = m /\ End(k, h) = "open"
        BY <2>3, <3>2, <4>2 DEF Links, Addressed, Types, Messages, Receive, End
      <4>4. g \in Ends /\ g = Other(h) /\ h = Other(g) /\ At(k, g) = m /\ Remote(k, g) = n /\ End(k, g) = "open"
        BY <2>3, <4>2, <4>3, ConnFacts, EndFacts DEF Remote
      <4>5. Linked(m, n)
        BY <4>3, <4>4 DEF Linked, Settled
      <4> QED BY <1>2, <4>1, <4>5, LinkedStill
    <3> QED BY <3>1, <3>2
  <2> QED BY <1>1, <1>2, <2>1, <2>2, <2>3, KnowsStill
<1> QED BY <1>3, <1>4, <1>5 DEF News

\* The sources of a node change, or it starts again.
LEMMA NewsChange ==
    ASSUME Types, Types', Links, News, NEW n0 \in Nodes, ChangeSources(n0) \/ Restart(n0)
    PROVE  News'
<1>0. Listed /\ Merged /\ Informed /\ Wired
  BY DEF News, Links
<1>1. /\ UNCHANGED <<conns, peer_conn, peer_sources, msgs, outdated>>
      /\ sources' = [sources EXCEPT ![n0] = sources[n0] + 1]
      /\ notify_source' = [notify_source EXCEPT ![n0] = TRUE] \/ (notify_source' = notify_source /\ n0 \notin up)
  BY DEF ChangeSources, Restart
<1>2. Still /\ Used' = Used
  BY <1>1, StillFacts DEF Used
<1>3. Listed'
  BY <1>0, <1>1, <1>2, ListedStill
<1>4. Merged'
  <2>1. ASSUME NEW a \in Nodes, NEW b \in Nodes PROVE peer_sources[a][b] <= peer_sources'[a][b]
    <3>1. peer_sources[a][b] \in Nat \cup {-1}
      BY DEF Types
    <3> QED BY <1>1, <3>1
  <2> QED BY <1>0, <1>1, <1>2, <2>1, MergedStill
<1>5. Informed'
  <2> SUFFICES ASSUME NEW j \in Used', NEW f \in Ends, NEW m \in Nodes, NEW n \in Nodes,
                      m = At(j, f), n = Remote(j, f), State(j)' = "alive", End(j, f)' = "open",
                      Healthy(m, n)', <<n, m>> \notin outdated'
               PROVE  Knows(j, f, m, n)'
    BY InformedNext
  <2>1. j \in Used /\ End(j, f) = "open" /\ Knows(j, f, m, n)
    BY <1>0, <1>1, <1>2, KnewStill
  <2>2. m \in up
    BY <1>0, <2>1 DEF Wired
  <2>3. CASE m = n0
    <3>1. notify_source'[m]
      BY <1>1, <2>2, <2>3 DEF Types
    <3> QED BY <3>1, KnowsNext
  <2>4. CASE m # n0
    <3>1. sources'[m] = sources[m] /\ (notify_source[m] => notify_source'[m])
      BY <1>1, <2>4 DEF Types
    <3> QED BY <1>1, <1>2, <2>1, <3>1, KnowsStill
  <2> QED BY <2>3, <2>4
<1> QED BY <1>3, <1>4, <1>5 DEF News

\* A task tells all peers of the sources.
LEMMA NewsBroadcast ==
    ASSUME Types, Types', Links, News, NEW n0 \in Nodes, Broadcast(n0)
    PROVE  News'
<1>0. Listed /\ Merged /\ Informed /\ Entered
  BY DEF News, Links
<1>1. /\ UNCHANGED <<conns, peer_conn, peer_sources, sources, outdated>>
      /\ notify_source' = [notify_source EXCEPT ![n0] = FALSE]
      /\ msgs' = msgs \cup Tell(n0, "sources", {}, sources[n0])
  BY DEF Broadcast
<1>2. Still /\ Used' = Used
  BY <1>1, StillFacts DEF Used
<1>3. Listed'
  BY <1>0, <1>1, <1>2, ListedStill
<1>4. Merged'
  <2>1. ASSUME NEW a \in Nodes, NEW b \in Nodes PROVE peer_sources[a][b] <= peer_sources'[a][b]
    <3>1. peer_sources[a][b] \in Nat \cup {-1}
      BY DEF Types
    <3> QED BY <1>1, <3>1
  <2> QED BY <1>0, <1>1, <1>2, <2>1, MergedStill
<1>5. Informed'
  <2> SUFFICES ASSUME NEW j \in Used', NEW f \in Ends, NEW m \in Nodes, NEW n \in Nodes,
                      m = At(j, f), n = Remote(j, f), State(j)' = "alive", End(j, f)' = "open",
                      Healthy(m, n)', <<n, m>> \notin outdated'
               PROVE  Knows(j, f, m, n)'
    BY InformedNext
  <2>1. /\ j \in Used /\ State(j) = "alive" /\ End(j, f) = "open" /\ Healthy(m, n)
        /\ Knows(j, f, m, n)
    BY <1>0, <1>1, <1>2, KnewStill
  <2>2. CASE m = n0
    <3>1. PICK k : k = peer_conn[m][n]
      OBVIOUS
    <3>2. k \in Places
      BY <1>0, <2>1, <3>1 DEF Listed, Types
    <3>3. PICK g \in Ends : k \in Used /\ At(k, g) = m /\ Remote(k, g) = n /\ End(k, g) = "open"
      BY <1>0, <3>1, <3>2 DEF Entered
    <3>4. State(k) = "alive" /\ k # Free
      BY <2>1, <3>2, <3>3, FreeAssumption DEF Healthy
    <3>5. PICK msg \in Tell(m, "sources", {}, sources[m]) :
             /\ msg.from = m /\ msg.to = n /\ msg.what = "sources" /\ msg.sources = sources[m]
             /\ msg.conn = k /\ End(k, Other(msg.end)) = "open"
      <4>1. {} \in SUBSET Nodes /\ sources[m] \in Nat
        BY DEF Types
      <4> QED BY <1>0, <3>1, <3>3, <3>4, <4>1, TellFacts
    <3>6. PICK h : h = Other(msg.end)
      OBVIOUS
    <3>7. End(k, h)' = "open"
      BY <1>1, <3>5, <3>6 DEF End
    <3>8. msg \in msgs' /\ msg.sources = sources'[m]
      BY <1>1, <2>2, <3>5
    <3>9. Coming(m, n)'
      BY <3>4, <3>5, <3>6, <3>7, <3>8, ComingNext
    <3> QED BY <3>9, KnowsNext
  <2>3. CASE m # n0
    <3>1. notify_source[m] => notify_source'[m]
      BY <1>1, <2>3 DEF Types
    <3> QED BY <1>1, <1>2, <2>1, <3>1, KnowsStill
  <2> QED BY <2>2, <2>3
<1> QED BY <1>3, <1>4, <1>5 DEF News

\* A node stops.
LEMMA NewsStop ==
    ASSUME Types, Types', Links, News, NEW n0 \in Nodes, NEW how,
           \A i \in Used : how[i] \in {"lost", "closed"}, Stop(n0, how)
    PROVE  News'
<1>0. Listed /\ Merged /\ Informed /\ Addressed
  BY DEF News, Links
<1>1. Leaves(n0)
  BY StopFacts
<1>2. /\ \A a \in Nodes \ {n0} : /\ peer_conn'[a] = peer_conn[a] /\ peer_sources'[a] = peer_sources[a]
                                 /\ notify_source'[a] = notify_source[a]
      /\ msgs' = {msg \in msgs : msg.to # n0} /\ UNCHANGED <<sources, outdated>>
  BY DEF Stop, Types
\* The connections that the node has no part in.
<1>3. ASSUME NEW j \in Used', NEW f \in Ends, State(j)' = "alive"
      PROVE  /\ j \in Used /\ conns'[j] = conns[j] /\ Other(f) \in Ends
             /\ At(j, f) \in Nodes \ {n0} /\ Remote(j, f) \in Nodes \ {n0}
  <2>1. j \in Used /\ n0 \notin Pair(j) /\ conns'[j] = conns[j]
    BY <1>1, <1>3 DEF Leaves
  <2> QED BY <2>1, ConnFacts, EndFacts
<1>4. ASSUME NEW k \in Used, NEW g \in Ends, At(k, g) # n0, Remote(k, g) # n0
      PROVE  k \in Used' /\ conns'[k] = conns[k]
  <2>1. n0 \notin Pair(k)
    BY <1>4, ConnFacts, EndFacts
  <2> QED BY <1>1, <2>1 DEF Leaves
<1>5. Listed'
  <2> SUFFICES ASSUME NEW j \in Used', NEW f \in Ends, State(j)' = "alive", End(j, f)' = "open"
               PROVE  peer_conn'[At(j, f)][Remote(j, f)] # Free
    BY ListedNext
  <2>1. State(j) = "alive" /\ End(j, f) = "open"
    BY <1>3 DEF State, End
  <2> QED BY <1>0, <1>2, <1>3, <2>1 DEF Listed
<1>6. Merged'
  <2> SUFFICES ASSUME NEW j \in Used', NEW f \in Ends, State(j)' = "alive", End(j, f)' \in Settled,
                      <<At(j, f), Remote(j, f)>> \notin outdated'
               PROVE  conns'[j].sources[Other(f)] <= peer_sources'[At(j, f)][Remote(j, f)]
    BY MergedNext
  <2>1. State(j) = "alive" /\ End(j, f) \in Settled
    BY <1>3 DEF State, End
  <2> QED BY <1>0, <1>2, <1>3, <2>1 DEF Merged
<1>7. Informed'
  <2> SUFFICES ASSUME NEW j \in Used', NEW f \in Ends, NEW m \in Nodes, NEW n \in Nodes,
                      m = At(j, f), n = Remote(j, f), State(j)' = "alive", End(j, f)' = "open",
                      Healthy(m, n)', <<n, m>> \notin outdated'
               PROVE  Knows(j, f, m, n)'
    BY InformedNext
  <2>1. j \in Used /\ State(j) = "alive" /\ End(j, f) = "open" /\ m # n0 /\ n # n0 /\ Other(f) \in Ends
    BY <1>3 DEF State, End
  <2>2. Healthy(m, n)
    <3>1. \A k \in Used', g \in Ends :
             At(k, g) = m /\ Remote(k, g) = n /\ End(k, g)' = "open" => State(k)' = "alive"
      BY HealthyNext
    <3>2. ASSUME NEW k \in Used, NEW g \in Ends, At(k, g) = m, Remote(k, g) = n, End(k, g) = "open"
          PROVE  State(k) = "alive"
      BY <1>4, <2>1, <3>1, <3>2 DEF State, End
    <3> QED BY <3>2 DEF Healthy
  <2>3. Knows(j, f, m, n)
    BY <1>0, <1>2, <2>1, <2>2 DEF Informed
  <2>4. CASE notify_source[m]
    BY <1>2, <2>1, <2>4, KnowsNext
  <2>5. CASE Coming(m, n)
    <3>1. PICK msg \in msgs :
             /\ msg.from = m /\ msg.to = n /\ msg.what = "sources" /\ msg.sources = sources[m]
             /\ msg.conn # Free /\ End(msg.conn, Other(msg.end)) = "open"
      BY <2>5 DEF Coming
    <3>2. PICK k, g, h : k = msg.conn /\ g = Other(msg.end) /\ h = msg.end
      OBVIOUS
    <3>3. h \in Ends /\ k \in Used /\ At(k, h) = n /\ Remote(k, h) = m
      BY <1>0, <3>1, <3>2 DEF Addressed, Types, Messages
    <3>4. End(k, g)' = "open"
      BY <1>4, <2>1, <3>1, <3>2, <3>3 DEF End
    <3>5. msg \in msgs' /\ msg.sources = sources'[m]
      BY <1>2, <2>1, <3>1
    <3>6. Coming(m, n)'
      BY <3>1, <3>2, <3>4, <3>5, ComingNext
    <3> QED BY <3>6, KnowsNext
  <2>6. CASE peer_sources[n][m] = sources[m] /\ Linked(m, n)
    <3>1. PICK k \in Used, g \in Ends :
             At(k, g) = m /\ Remote(k, g) = n /\ End(k, g) = "open" /\ End(k, Other(g)) \in Settled
      BY <2>6 DEF Linked
    <3>2. k \in Used' /\ End(k, g)' = "open" /\ End(k, Other(g))' \in Settled
      BY <1>4, <2>1, <3>1 DEF End
    <3>3. Linked(m, n)'
      BY <3>1, <3>2, LinkedNext
    <3> QED BY <1>2, <2>1, <2>6, <3>3, KnowsNext
  <2>7. CASE End(j, Other(f)) \in Early /\ conns[j].sources[f] = sources[m]
    <3>1. End(j, Other(f))' \in Early /\ conns'[j].sources[f] = sources'[m]
      BY <1>2, <1>3, <2>7 DEF End
    <3> QED BY <3>1, KnowsNext
  <2> QED BY <2>3, <2>4, <2>5, <2>6, <2>7 DEF Knows
<1> QED BY <1>5, <1>6, <1>7 DEF News

\* Every step keeps what News says, unless a task gives up for a bad reason.
LEMMA NewsStep ==
    ASSUME Types, Types', Links, Bounded, News, [Next]_vars, ~spoiled'
    PROVE  News'
<1>1. ASSUME NEW n \in Nodes, NEW m \in Nodes, Connect(n, m) PROVE News'
  <2>1. UNCHANGED <<peer_conn, peer_sources, sources, notify_source, msgs, outdated>>
    BY <1>1, ConnectFacts
  <2>2. PICK i \in Places : OnlyAt(i) /\ i \notin Used /\ i \in Used' /\ \A e \in Ends : End(i, e)' = "hello"
    BY <1>1, ConnectFacts
  <2>3. \A k \in Used : k \in Used' /\ conns'[k] = conns[k]
    BY <2>2 DEF OnlyAt, Used
  <2>4. \A k \in Used' \ Used : k = i
    BY <2>2 DEF OnlyAt
  <2>5. Still
    BY <2>2, <2>3, <2>4 DEF Still, State, End
  <2> QED BY <2>1, <2>5, NewsConns
<1>2. ASSUME NEW i \in Used, Drop(i) PROVE News'
  <2>1. /\ conns' = [conns EXCEPT ![i].state = "lost"]
        /\ UNCHANGED <<peer_conn, peer_sources, sources, notify_source, msgs, outdated>>
    BY <1>2 DEF Drop
  <2>2. conns[i] \in Connections /\ i \in Places /\ conns \in [Places -> Connections \cup {Free}]
    BY ConnFacts DEF Types
  <2>3. /\ conns'[i].sources = conns[i].sources /\ conns'[i].end = conns[i].end /\ conns'[i].state = "lost"
        /\ conns'[i] \in Connections
        /\ \A j \in Places \ {i} : conns'[j] = conns[j]
    BY <2>1, <2>2 DEF Connections
  <2>4. Used' = Used /\ Used \subseteq Places
    BY <2>2, <2>3, FreeAssumption DEF Used
  <2>5. Still
    <3>1. ASSUME NEW k \in Used, k # i PROVE conns'[k] = conns[k]
      BY <2>3, <2>4, <3>1
    <3>2. ASSUME NEW k \in Used, NEW g \in Ends
          PROVE  /\ End(k, g)' = End(k, g) /\ conns'[k].sources[g] = conns[k].sources[g]
                 /\ State(k)' = "alive" => State(k) = "alive"
      BY <2>3, <3>1 DEF State, End
    <3>3. \A k \in Used : State(k)' = "alive" => State(k) = "alive"
      BY <2>3, <3>1 DEF State
    <3> QED BY <2>4, <3>2, <3>3 DEF Still
  <2> QED BY <2>1, <2>5, NewsConns
<1>3. ASSUME NEW n \in Nodes, Crash(n) \/ Shutdown(n) PROVE News'
  <2>1. CASE Crash(n)
    <3>1. PICK how : how = [i \in Used |-> "lost"]
      OBVIOUS
    <3>2. Stop(n, how) /\ \A i \in Used : how[i] \in {"lost", "closed"}
      BY <2>1, <3>1 DEF Crash
    <3> QED BY <3>2, NewsStop
  <2>2. CASE Shutdown(n)
    <3>1. PICK how : how = [i \in Used |->
             IF EndOf(i, n) = "s" \/ conns[i].end["c"] = "open" THEN "closed" ELSE "lost"]
      OBVIOUS
    <3>2. Stop(n, how) /\ \A i \in Used : how[i] \in {"lost", "closed"}
      BY <2>2, <3>1 DEF Shutdown
    <3> QED BY <3>2, NewsStop
  <2> QED BY <1>3, <2>1, <2>2
<1>4. CASE UNCHANGED vars
  <2>1. UNCHANGED <<conns, peer_conn, peer_sources, sources, notify_source, msgs, outdated>>
    BY <1>4 DEF vars
  <2>2. Still
    BY <2>1, StillFacts
  <2> QED BY <2>1, <2>2, NewsConns
<1>5. ASSUME NEW i \in Used, Step(i) PROVE News'
  BY <1>5, NewsGiveUp, NewsCheck, NewsAnswer, NewsMerge, NewsJoin, NewsLost DEF Step
<1>6. ASSUME NEW msg \in msgs, Receive(msg) PROVE News'
  BY <1>6, NewsReceive
<1>7. ASSUME NEW n \in Nodes, ChangeSources(n) \/ Broadcast(n) \/ Restart(n) PROVE News'
  BY <1>7, NewsChange, NewsBroadcast
<1>8. ASSUME NEW t \in saves, Save(t) \/ SaveFails(t) PROVE News'
  <2>1. UNCHANGED <<conns, peer_conn, peer_sources, sources, notify_source, msgs, outdated>>
    BY <1>8 DEF Save, SaveFails
  <2>2. Still
    BY <2>1, StillFacts
  <2> QED BY <2>1, <2>2, NewsConns
<1> QED BY <1>1, <1>2, <1>3, <1>4, <1>5, <1>6, <1>7, <1>8 DEF Next, Work

\* A history of bad reasons is not forgotten.
LEMMA SpoiledStays == spoiled /\ [Next]_vars => spoiled'
<1> SUFFICES ASSUME spoiled, [Next]_vars PROVE spoiled'
  OBVIOUS
<1>1. ASSUME NEW n \in Nodes, NEW m \in Nodes, Connect(n, m) PROVE spoiled'
  BY <1>1 DEF Connect
<1>2. ASSUME NEW i \in Used, NEW e \in Ends, Duplicate(i, e) \/ Check(i, e) \/ SetupFails(i, e) PROVE spoiled'
  BY <1>2 DEF Duplicate, Check, SetupFails
<1>3. ASSUME NEW i \in Used, NEW e \in Ends, Merge(i, e) \/ Join(i, e) \/ Lost(i, e) PROVE spoiled'
  BY <1>3 DEF Merge, Join, Lost
<1>4. ASSUME NEW i \in Used, Drop(i) PROVE spoiled'
  BY <1>4 DEF Drop
<1>5. ASSUME NEW msg \in msgs, Receive(msg) PROVE spoiled'
  BY <1>5 DEF Receive
<1>6. ASSUME NEW n \in Nodes, ChangeSources(n) \/ Broadcast(n) \/ Restart(n) PROVE spoiled'
  BY <1>6 DEF ChangeSources, Broadcast, Restart
<1>7. ASSUME NEW n \in Nodes, Crash(n) \/ Shutdown(n) PROVE spoiled'
  BY <1>7 DEF Crash, Shutdown, Stop
<1>8. CASE UNCHANGED vars
  BY <1>8 DEF vars
<1>9. ASSUME NEW t \in saves, Save(t) \/ SaveFails(t) PROVE spoiled'
  BY <1>9 DEF Save, SaveFails
<1>10. ASSUME NEW i \in Used, Answer(i) PROVE spoiled'
  BY <1>10 DEF Answer
<1> QED BY <1>1, <1>2, <1>3, <1>4, <1>5, <1>6, <1>7, <1>8, <1>9, <1>10 DEF Next, Work, Step

\* At the start there is no news to lose.
LEMMA NewsInit == Init => Bounded /\ News
<1> SUFFICES ASSUME Init PROVE Bounded /\ News
  OBVIOUS
<1>t. Types /\ Links
  BY TypesInit
<1>1. PICK start \in Starts :
        /\ conns = [i \in Places |->
              IF i[3] = 1 /\ <<i[1], i[2]>> \in start.joined THEN Conn("open") ELSE Free]
        /\ peer_conn = [n \in Nodes |-> [m \in Nodes |->
              IF <<n, m>> \in start.joined THEN <<n, m, 1>>
              ELSE IF <<m, n>> \in start.joined THEN <<m, n, 1>> ELSE Free]]
        /\ peer_sources = [n \in Nodes |-> [m \in Nodes |->
              IF <<n, m>> \in start.joined \/ <<m, n>> \in start.joined THEN 0 ELSE -1]]
        /\ msgs = {Update(p, start.peers[p[2]]) : p \in start.told}
  BY InitFacts
<1>2. sources = [n \in Nodes |-> 0]
  BY DEF Init
<1>m. \A msg \in msgs : msg.what = "peers"
  BY <1>1 DEF Update
<1>3. ASSUME NEW i \in Used, NEW e \in Ends
      PROVE  /\ conns[i] = Conn("open") /\ At(i, e) \in Nodes /\ Remote(i, e) \in Nodes /\ Other(e) \in Ends
             /\ i \in Places /\ <<At(i, "c"), At(i, "s")>> \in start.joined
             /\ peer_sources[At(i, e)][Remote(i, e)] = 0 /\ peer_conn[At(i, e)][Remote(i, e)] # Free
  <2>1. /\ At(i, e) \in Nodes /\ Remote(i, e) \in Nodes /\ Other(e) \in Ends /\ i \in Places
        /\ i[1] \in Nodes /\ i[2] \in Nodes
    <3>1. i \in Places
      BY <1>t, ConnFacts
    <3>2. i[1] \in Nodes /\ i[2] \in Nodes
      BY <3>1 DEF Places
    <3> QED BY <3>1, <3>2, EndFacts
  <2>2. conns[i] = Conn("open") /\ <<i[1], i[2]>> \in start.joined
    BY <1>1, <2>1 DEF Used
  <2>3. CASE e = "c"
    <3>1. At(i, e) = i[1] /\ Remote(i, e) = i[2]
      BY <2>3 DEF At, Remote, Other
    <3>2. <<i[1], i[2], 1>> \in Places
      BY <2>1, MaxConnsAssumption DEF Places
    <3> QED BY <1>1, <2>1, <2>2, <3>1, <3>2, FreeAssumption DEF At
  <2>4. CASE e = "s"
    <3>1. At(i, e) = i[2] /\ Remote(i, e) = i[1]
      BY <2>4 DEF At, Remote, Other
    <3>2. <<i[1], i[2], 1>> \in Places /\ <<i[2], i[1], 1>> \in Places
      BY <2>1, MaxConnsAssumption DEF Places
    <3> QED BY <1>1, <2>1, <2>2, <3>1, <3>2, FreeAssumption DEF At
  <2> QED BY <2>3, <2>4 DEF Ends
<1>4. /\ \A e \in Ends : Conn("open").sources[e] = 0 /\ Conn("open").end[e] = "open"
      /\ Conn("open").state = "alive"
  BY DEF Conn
<1>9. \A i \in Used, e \in Ends : conns[i].sources[e] = 0
  BY <1>3, <1>4
<1>5. Bounded
  <2>1. \A n \in Nodes, m \in Nodes : peer_sources[n][m] \in {0, -1} /\ sources[m] = 0
    BY <1>1, <1>2
  <2>2. ASSUME NEW i \in Used, NEW e \in Ends PROVE conns[i].sources[e] <= sources[At(i, e)]
    <3>1. sources[At(i, e)] = 0 /\ conns[i].sources[e] = 0
      BY <1>2, <1>3, <1>9
    <3> QED BY <3>1
  <2>3. ASSUME NEW n \in Nodes, NEW m \in Nodes PROVE peer_sources[n][m] <= sources[m]
    <3>1. sources[m] = 0 /\ (peer_sources[n][m] = 0 \/ peer_sources[n][m] = -1)
      BY <2>1
    <3> QED BY <3>1
  <2> QED BY <1>m, <2>2, <2>3 DEF Bounded
<1>6. Listed
  BY <1>3 DEF Listed
<1>7. Merged
  <2>1. \A i \in Used, e \in Ends : /\ conns[i].sources[Other(e)] = 0
                                   /\ peer_sources[At(i, e)][Remote(i, e)] = 0
    BY <1>3, <1>9
  <2> QED BY <2>1 DEF Merged
<1>8. Informed
  <2> SUFFICES ASSUME NEW i \in Used, NEW e \in Ends, NEW m \in Nodes, NEW n \in Nodes,
                      m = At(i, e), n = Remote(i, e)
               PROVE  Knows(i, e, m, n)
    BY DEF Informed
  <2>1. /\ Remote(i, Other(e)) = m /\ At(i, Other(e)) = n /\ Other(e) \in Ends
    BY <1>3, EndFacts DEF Remote
  <2>2. peer_sources[n][m] = sources[m]
    BY <1>2, <1>3, <2>1
  <2>3. Linked(m, n)
    BY <1>3, <1>4, <2>1 DEF Linked, End, Settled
  <2> QED BY <2>2, <2>3 DEF Knows
<1> QED BY <1>5, <1>6, <1>7, <1>8 DEF News

\* No news is lost, at all times, unless a task gave up.
LEMMA NewsAlways == Spec => [](Types /\ Links /\ Bounded /\ (spoiled \/ News))
<1> DEFINE I == Types /\ Links /\ Bounded /\ (spoiled \/ News)
<1>1. Init => I
  BY TypesInit, NewsInit
<1>2. I /\ [Next]_vars => I'
  <2> SUFFICES ASSUME Types, Links, Bounded, spoiled \/ News, [Next]_vars PROVE I'
    OBVIOUS
  <2>1. Types' /\ Links'
    BY TypesStep, LinksStep DEF Links
  <2>2. Bounded'
    BY <2>1, BoundedStep
  <2>3. spoiled' \/ News'
    <3>1. CASE spoiled
      BY <3>1, SpoiledStays
    <3>2. CASE News
      BY <2>1, <3>2, NewsStep
    <3> QED BY <3>1, <3>2
  <2> QED BY <2>1, <2>2, <2>3
<1> QED BY <1>1, <1>2, PTL DEF Spec

\* SourcesShared holds however many nodes there are: when a pair is connected
\* and nothing is on its way, each has the other's list of sources, because a
\* change leaves a permit of the Notify, the permit an update, and the update
\* the list (check_sources_conn, update_peer_info, handle_request).
THEOREM ConnectedKnowSources == Spec => []SourcesShared
<1>1. Types /\ Links /\ Bounded /\ (spoiled \/ News) => SourcesShared
  <2> SUFFICES ASSUME Types, Links, News, NEW n \in Nodes, NEW m \in Nodes, n # m, <<n, m>> \notin outdated,
                      Steady(n, m), ~notify_source[m], msgs = {}
               PROVE  peer_sources[n][m] = sources[m]
    BY DEF SourcesShared
  <2>1. PICK i \in Used : Pair(i) = {n, m}
    BY DEF Steady
  <2>2. \A j \in Used : Pair(j) = {n, m} => State(j) = "alive" /\ \A g \in Ends : End(j, g) = "open"
    BY DEF Steady, State, End
  <2>3. PICK e \in Ends : At(i, e) = m /\ Remote(i, e) = n
    <3>1. i \in Places /\ i[1] # i[2]
      BY ConnFacts
    <3> QED BY <2>1, <3>1 DEF Pair, At, Remote, Other, Ends
  <2>4. Healthy(m, n)
    <3>1. ASSUME NEW j \in Used, NEW f \in Ends, At(j, f) = m, Remote(j, f) = n PROVE State(j) = "alive"
      <4>1. Pair(j) = {m, n}
        BY <3>1, ConnFacts, EndFacts
      <4> QED BY <2>2, <4>1
    <3> QED BY <3>1 DEF Healthy
  <2>5. Knows(i, e, m, n)
    BY <2>1, <2>2, <2>3, <2>4 DEF News, Informed
  <2>6. Other(e) \in Ends
    BY <2>3, ConnFacts, EndFacts
  <2>7. End(i, Other(e)) = "open"
    BY <2>1, <2>2, <2>6
  <2> QED BY <2>5, <2>7 DEF Knows, Coming, Early
<1> QED BY <1>1, NewsAlways, PTL
-----------------------------------------------------------------------------
(* How the two nodes of a pair stay together.                              *)

\* What a running node knows is in its file, or a task has still to write it,
\* or the node is one of those whose file went without.  Only a running node
\* dials, and only peers it knows, and what is on its way has somewhere to go.
Known ==
    /\ \A n \in up \ unsaved : \A m \in peer_list[n] :
          m \in file[n] \/ \E t \in saves : t.node = n /\ m \in t.list
    /\ \A t \in saves : t.node \in up
    /\ \A n \in Nodes, m \in Nodes : dial[n][m] # "none" => n \in up /\ m \in peer_list[n]
    /\ \A msg \in msgs : msg.to \in up

\* A client has one connection to a peer, and its task is busy with it.
Clients ==
    \A i \in Used : End(i, "c") # "gone" =>
        /\ dial[i[1]][i[2]] = "busy"
        /\ \A j \in Used : j[1] = i[1] /\ j[2] = i[2] /\ End(j, "c") # "gone" => j = i

\* The client's list has its own name, by which the server gets to know it
\* when it merges, and the client goes on after the server has answered.
IntroducedAt(i) ==
    /\ End(i, "c") # "hello" /\ End(i, "s") \in Early => i[1] \in conns[i].peers["c"]
    /\ End(i, "s") \in Settled => i[1] \in peer_list[i[2]]
    /\ End(i, "c") \in Ahead => End(i, "s") \in Ahead

Introduced == \A i \in Used : State(i) = "alive" => IntroducedAt(i)

Met == Known /\ Clients /\ Introduced

\* A connection that is alive, or whose client has still to find out.
Hopeful(i) ==
    \/ State(i) = "alive"
    \/ State(i) = "lost" /\ End(i, "c") # "gone"
    \/ State(i) = "closed" /\ End(i, "c") \in {"hello", "init"}

Ways == \A n \in up : \A m \in peer_list[n] : m \in unsaved \/ WayBetween(n, m)

\* Ways in terms of the connections there is hope in.
LEMMA WayFacts ==
    ASSUME NEW n, NEW m
    PROVE  WayBetween(n, m) <=> \/ dial[n][m] = "dial" \/ dial[m][n] = "dial"
                                \/ m \notin up /\ n \in file[m]
                                \/ \E i \in Used : Pair(i) = {n, m} /\ Hopeful(i)
BY DEF WayBetween, Hopeful, State, End

\* The same after a step.
LEMMA WayNext ==
    ASSUME NEW n, NEW m
    PROVE  WayBetween(n, m)' <=> \/ dial'[n][m] = "dial" \/ dial'[m][n] = "dial"
                                 \/ m \notin up' /\ n \in file'[m]
                                 \/ \E i \in Used' : Pair(i) = {n, m} /\ Hopeful(i)'
BY DEF WayBetween, Hopeful, State, End, Pair, At

\* The ends of a place.
LEMMA PlaceFacts ==
    ASSUME Types, NEW i \in Used
    PROVE  /\ i \in Places /\ i[1] \in Nodes /\ i[2] \in Nodes /\ i[1] # i[2]
           /\ At(i, "c") = i[1] /\ At(i, "s") = i[2] /\ Remote(i, "c") = i[2] /\ Remote(i, "s") = i[1]
           /\ Pair(i) = {i[1], i[2]} /\ Other("c") = "s" /\ Other("s") = "c"
           /\ Ends = {"c", "s"} /\ State(i) \in States
           /\ End(i, "c") \in Points /\ End(i, "s") \in Points
<1>1. i \in Places /\ i[1] # i[2] /\ State(i) \in States /\ \A e \in Ends : End(i, e) \in Points
  BY ConnFacts
<1>2. i[1] \in Nodes /\ i[2] \in Nodes
  BY <1>1 DEF Places
<1> QED BY <1>1, <1>2 DEF At, Remote, Pair, Other, Ends

\* A list of peers adds to what a node knows; each new peer is dialled, and is
\* in a list that is to be written.
Grown ==
    /\ file' = file /\ unsaved' = unsaved
    /\ saves \subseteq saves' /\ \A t \in saves' \ saves : t.node \in up
    /\ \A a \in Nodes : peer_list[a] \subseteq peer_list'[a]
    /\ \A a \in Nodes : \A b \in peer_list'[a] :
          \/ b \in peer_list[a]
          \/ dial'[a][b] = "dial" /\ \E t \in saves' : t.node = a /\ b \in t.list
    /\ \A a \in Nodes, b \in Nodes :
          \/ dial'[a][b] = dial[a][b]
          \/ dial'[a][b] = "dial" /\ dial[a][b] = "none" /\ a \in up /\ b \in peer_list'[a]

\* What update_to_new_peer_list does.
LEMMA LearnGrown ==
    ASSUME Types, Known, NEW n \in up, NEW list \in SUBSET Nodes, NEW by, LearnPeers(n, list, by)
    PROVE  Grown /\ list \subseteq peer_list'[n] \cup {n}
<1> DEFINE new == list \ (peer_list[n] \cup {n})
           t == [node |-> n, by |-> by, list |-> peer_list[n] \cup new]
<1>0. /\ n \in Nodes /\ new \in SUBSET Nodes /\ list \subseteq new \cup peer_list[n] \cup {n}
      /\ new \cap peer_list[n] = {}
  BY DEF Types
<1>1. /\ peer_list' = [peer_list EXCEPT ![n] = peer_list[n] \cup new]
      /\ dial' = [dial EXCEPT ![n] = [m \in Nodes |-> IF m \in new THEN "dial" ELSE dial[n][m]]]
      /\ saves' = (IF new = {} THEN saves ELSE saves \cup {t})
      /\ UNCHANGED <<file, unsaved>>
  BY DEF LearnPeers
<1>2. t.node = n /\ new \subseteq t.list
  OBVIOUS
<1> HIDE DEF new, t
<1>3. /\ peer_list'[n] = peer_list[n] \cup new
      /\ \A a \in Nodes \ {n} : peer_list'[a] = peer_list[a]
  BY <1>0, <1>1 DEF Types
<1>4. /\ \A b \in Nodes : dial'[n][b] = IF b \in new THEN "dial" ELSE dial[n][b]
      /\ \A a \in Nodes \ {n}, b \in Nodes : dial'[a][b] = dial[a][b]
  BY <1>0, <1>1 DEF Types
<1>5. \A b \in new : dial[n][b] = "none" /\ b \in Nodes
  BY <1>0 DEF Known
<1>6. \A a \in Nodes, b \in Nodes :
          \/ dial'[a][b] = dial[a][b]
          \/ dial'[a][b] = "dial" /\ dial[a][b] = "none" /\ a \in up /\ b \in peer_list'[a]
  BY <1>0, <1>3, <1>4, <1>5
<1>7. /\ \A a \in Nodes : peer_list[a] \subseteq peer_list'[a]
      /\ saves \subseteq saves' /\ \A u \in saves' \ saves : u.node \in up
  BY <1>0, <1>1, <1>2, <1>3
<1>8. \A b \in new : dial'[n][b] = "dial" /\ t \in saves'
  BY <1>1, <1>4, <1>5
<1>9. \A a \in Nodes : \A b \in peer_list'[a] :
          \/ b \in peer_list[a]
          \/ dial'[a][b] = "dial" /\ \E u \in saves' : u.node = a /\ b \in u.list
  BY <1>0, <1>2, <1>3, <1>8
<1>10. list \subseteq peer_list'[n] \cup {n}
  BY <1>0, <1>3
<1> QED BY <1>1, <1>6, <1>7, <1>9, <1>10 DEF Grown

\* Ways stay while lists grow, if there is hope in the same connections.
LEMMA WaysGrown ==
    ASSUME Types, Ways, Grown, up' = up,
           \A j \in Used : Hopeful(j) => j \in Used' /\ Hopeful(j)'
    PROVE  Ways'
<1> SUFFICES ASSUME NEW a \in up, NEW b \in peer_list'[a] PROVE b \in unsaved' \/ WayBetween(a, b)'
  BY DEF Ways
<1>1. a \in Nodes
  BY DEF Types
<1>2. CASE dial'[a][b] = "dial"
  BY <1>2, WayNext
<1>3. CASE b \in peer_list[a]
  <2>1. b \in Nodes
    BY <1>1, <1>3 DEF Types
  <2>2. b \in unsaved \/ WayBetween(a, b)
    BY <1>3 DEF Ways
  <2>3. dial[a][b] = "dial" => dial'[a][b] = "dial"
    BY <1>1, <2>1 DEF Grown
  <2>4. dial[b][a] = "dial" => dial'[b][a] = "dial"
    BY <1>1, <2>1 DEF Grown
  <2>5. unsaved' = unsaved /\ file' = file
    BY DEF Grown
  <2> QED BY <2>2, <2>3, <2>4, <2>5, WayFacts, WayNext
<1> QED BY <1>1, <1>2, <1>3 DEF Grown

\* Nothing of the lists changes.
LEMMA SameGrown ==
    ASSUME UNCHANGED <<file, saves, unsaved, peer_list, dial>>
    PROVE  Grown
BY DEF Grown

\* Where nothing happens, hope stays.
LEMMA HopeElsewhere ==
    ASSUME Types, NEW i \in Places, OnlyAt(i), NEW j \in Used, j # i
    PROVE  /\ j \in Used' /\ conns'[j] = conns[j] /\ State(j)' = State(j)
           /\ \A e : End(j, e)' = End(j, e)
           /\ Hopeful(j)' <=> Hopeful(j)
<1>1. j \in Places
  BY ConnFacts
<1>2. j \in Used' /\ conns'[j] = conns[j]
  BY <1>1 DEF OnlyAt
<1> QED BY <1>2 DEF State, End, Hopeful

\* A task that gives up ends, if it is the client's.
LEMMA GiveUpDial ==
    ASSUME Types, NEW i \in Used, NEW e \in Ends, GiveUp(i, e)
    PROVE  \A a \in Nodes, b \in Nodes :
              dial'[a][b] = IF e = "c" /\ a = i[1] /\ b = i[2] THEN "ended" ELSE dial[a][b]
<1>1. dial' = IF e = "c" THEN [dial EXCEPT ![At(i, e)][Remote(i, e)] = "ended"] ELSE dial
  BY DEF GiveUp
<1>2. CASE e = "c"
  <2>1. dial' = [dial EXCEPT ![At(i, e)][Remote(i, e)] = "ended"]
    BY <1>1, <1>2
  <2>2. At(i, e) = i[1] /\ Remote(i, e) = i[2] /\ i[1] \in Nodes /\ i[2] \in Nodes
    BY <1>2, PlaceFacts
  <2>3. /\ dial \in [Nodes -> [Nodes -> {"none", "dial", "busy", "ended"}]]
        /\ "ended" \in {"none", "dial", "busy", "ended"} /\ At(i, e) \in Nodes /\ Remote(i, e) \in Nodes
    BY <2>2 DEF Types
  <2>4. /\ dial'[At(i, e)][Remote(i, e)] = "ended"
        /\ \A a \in Nodes, b \in Nodes : <<a, b>> # <<At(i, e), Remote(i, e)>> => dial'[a][b] = dial[a][b]
    BY <2>1, <2>3, EntryFacts
  <2> QED BY <1>2, <2>2, <2>4
<1>3. CASE e # "c"
  BY <1>1, <1>3
<1> QED BY <1>2, <1>3

\* A step of an end leaves each client with its one connection.
LEMMA ClientsByEnd ==
    ASSUME Types, Clients, NEW i \in Used, NEW e \in Ends, EndStep(i, e), End(i, e) # "gone",
           \A a \in Nodes, b \in Nodes : dial[a][b] = "busy" =>
              \/ dial'[a][b] = "busy"
              \/ e = "c" /\ a = i[1] /\ b = i[2] /\ (i \in Used' => End(i, "c")' = "gone")
    PROVE  Clients'
<1>1. ASSUME NEW j \in Used', End(j, "c")' # "gone" PROVE j \in Used /\ End(j, "c") # "gone"
  <2>1. j \in Used /\ "c" \in Ends
    BY StillThere DEF Ends
  <2>2. CASE j = i /\ e = "c"
    BY <2>1, <2>2
  <2>3. CASE ~(j = i /\ e = "c")
    BY <1>1, <2>1, <2>3, StillThere
  <2> QED BY <2>1, <2>2, <2>3
<1> SUFFICES ASSUME NEW j \in Used', End(j, "c")' # "gone"
             PROVE  /\ dial'[j[1]][j[2]] = "busy"
                    /\ \A k \in Used' : k[1] = j[1] /\ k[2] = j[2] /\ End(k, "c")' # "gone" => k = j
  BY DEF Clients
<1>2. j \in Used /\ End(j, "c") # "gone"
  BY <1>1
<1>3. /\ dial[j[1]][j[2]] = "busy" /\ j[1] \in Nodes /\ j[2] \in Nodes
      /\ \A k \in Used : k[1] = j[1] /\ k[2] = j[2] /\ End(k, "c") # "gone" => k = j
  BY <1>2, PlaceFacts DEF Clients
<1>4. dial'[j[1]][j[2]] = "busy"
  <2>1. SUFFICES ASSUME e = "c", j[1] = i[1], j[2] = i[2], i \in Used' => End(i, "c")' = "gone"
                 PROVE  FALSE
    BY <1>3
  <2>2. i = j
    BY <1>3, <2>1
  <2> QED BY <2>1, <2>2
<1> QED BY <1>1, <1>3, <1>4

\* A step of an end keeps the order of the introduction.
LEMMA IntroducedByEnd ==
    ASSUME Types, Introduced, NEW i \in Used, NEW e \in Ends, EndStep(i, e),
           \A a \in Nodes : peer_list[a] \subseteq peer_list'[a],
           i \in Used' /\ State(i)' = "alive" => IntroducedAt(i)'
    PROVE  Introduced'
<1> SUFFICES ASSUME NEW j \in Used', State(j)' = "alive" PROVE IntroducedAt(j)'
  BY DEF Introduced
<1>1. CASE j = i
  BY <1>1
<1>2. CASE j # i
  <2>1. j \in Used /\ i \in Places /\ OnlyAt(i)
    BY StillThere, ConnFacts DEF EndStep
  <2>2. /\ conns'[j] = conns[j] /\ State(j)' = State(j)
        /\ End(j, "c")' = End(j, "c") /\ End(j, "s")' = End(j, "s")
    BY <1>2, <2>1, HopeElsewhere
  <2>3. j[2] \in Nodes
    BY <2>1, PlaceFacts
  <2>4. IntroducedAt(j)
    BY <2>1, <2>2 DEF Introduced
  <2> QED BY <2>2, <2>3, <2>4 DEF IntroducedAt
<1> QED BY <1>1, <1>2

\* A step of an end takes no way from a pair of which it leaves another, or
\* for which it dials, or whose hope it does not touch.
LEMMA WaysByEnd ==
    ASSUME Types, Clients, Ways, NEW i \in Used, NEW e \in Ends, EndStep(i, e), End(i, e) # "gone",
           UNCHANGED <<up, file, saves, unsaved, peer_list>>,
           \A a \in Nodes, b \in Nodes : dial'[a][b] = dial[a][b] \/ (e = "c" /\ a = i[1] /\ b = i[2]),
           \/ \E k \in Used' : Pair(k) = Pair(i) /\ Hopeful(k)'
           \/ dial'[i[1]][i[2]] = "dial"
           \/ Hopeful(i) => i \in Used' /\ Hopeful(i)'
    PROVE  Ways'
<1> SUFFICES ASSUME NEW a \in up, NEW b \in peer_list[a] PROVE b \in unsaved \/ WayBetween(a, b)'
  BY DEF Ways
<1>1. a \in Nodes /\ b \in Nodes /\ i \in Places /\ Pair(i) = {i[1], i[2]} /\ OnlyAt(i)
  BY PlaceFacts DEF Types, EndStep
<1>2. b \in unsaved \/ WayBetween(a, b)
  BY DEF Ways
<1>3. CASE Pair(i) = {a, b} /\ \E k \in Used' : Pair(k) = Pair(i) /\ Hopeful(k)'
  BY <1>3, WayNext
<1>4. CASE Pair(i) = {a, b} /\ dial'[i[1]][i[2]] = "dial"
  <2>1. (i[1] = a /\ i[2] = b) \/ (i[1] = b /\ i[2] = a)
    BY <1>1, <1>4, PlaceFacts
  <2> QED BY <1>4, <2>1, WayNext
<1>5. CASE Pair(i) = {a, b} => (Hopeful(i) => i \in Used' /\ Hopeful(i)')
  <2>1. e = "c" => dial[i[1]][i[2]] # "dial"
    BY DEF Clients
  <2>2. dial[a][b] = "dial" => dial'[a][b] = "dial"
    BY <1>1, <2>1
  <2>3. dial[b][a] = "dial" => dial'[b][a] = "dial"
    BY <1>1, <2>1
  <2>4. \A j \in Used : Pair(j) = {a, b} /\ Hopeful(j) => j \in Used' /\ Hopeful(j)'
    BY <1>1, <1>5, HopeElsewhere
  <2> QED BY <1>2, <2>2, <2>3, <2>4, WayFacts, WayNext
<1> QED BY <1>3, <1>4, <1>5

\* The lists stay as they are, and no task begins to dial a stranger.
LEMMA KnownSame ==
    ASSUME Known, UNCHANGED <<up, file, saves, unsaved, peer_list>>,
           \A a \in Nodes, b \in Nodes : dial'[a][b] # "none" => dial[a][b] # "none",
           \A msg \in msgs' : msg.to \in up
    PROVE  Known'
BY DEF Known

\* The lists grow.
LEMMA KnownGrown ==
    ASSUME Types, Known, up' = up, Grown, \A msg \in msgs' : msg.to \in up
    PROVE  Known'
<1>1. \A n \in Nodes, m \in Nodes : dial'[n][m] # "none" => n \in up /\ m \in peer_list'[n]
  BY DEF Known, Grown
<1>2. \A t \in saves' : t.node \in up
  BY DEF Known, Grown
<1>3. ASSUME NEW n \in up \ unsaved, NEW m \in peer_list'[n]
      PROVE  m \in file[n] \/ \E t \in saves' : t.node = n /\ m \in t.list
  <2>1. CASE m \in peer_list[n]
    BY <2>1 DEF Known, Grown
  <2>2. CASE m \notin peer_list[n]
    BY <2>2 DEF Types, Grown
  <2> QED BY <2>1, <2>2
<1>4. file' = file /\ unsaved' = unsaved
  BY DEF Grown
<1> QED BY <1>1, <1>2, <1>3, <1>4 DEF Known

\* A move of an end leaves the lists that were read.
LEMMA MovePeers ==
    ASSUME Types, NEW i \in Used, NEW e \in Ends, NEW to, Move(i, e, to), to # "gone"
    PROVE  conns'[i].peers = conns[i].peers
<1>1. i \in Places /\ conns \in [Places -> Connections \cup {Free}] /\ conns[i] \in Connections
  BY ConnFacts DEF Types
<1>2. conns' = [conns EXCEPT ![i] = [conns[i] EXCEPT !.end[e] = to]]
  BY DEF Move, Moved
<1>3. [conns[i] EXCEPT !.end[e] = to].peers = conns[i].peers
  BY <1>1 DEF Connections
<1> QED BY <1>1, <1>2, <1>3

\* A connection is made.
LEMMA MetConnect ==
    ASSUME Types, Links, Met, NEW n \in Nodes, NEW m \in Nodes, Connect(n, m)
    PROVE  Met' /\ (Ways => Ways')
<1>1. /\ n \in up /\ m \in up /\ n # m /\ dial' = [dial EXCEPT ![n][m] = "busy"]
      /\ UNCHANGED <<up, file, saves, unsaved, peer_list, msgs>> /\ dial[n][m] = "dial"
  <2>1. dial[n][m] = "dial"
    BY DEF Connect
  <2> QED BY <2>1, ConnectFacts
<1>2. PICK i \in Places :
         /\ OnlyAt(i) /\ i \notin Used /\ i \in Used' /\ i[1] = n /\ i[2] = m
         /\ State(i)' = "alive"
         /\ \A e \in Ends : End(i, e)' = "hello"
  BY ConnectFacts
<1>3. \A a \in Nodes, b \in Nodes : dial'[a][b] = IF a = n /\ b = m THEN "busy" ELSE dial[a][b]
  <2>1. /\ dial \in [Nodes -> [Nodes -> {"none", "dial", "busy", "ended"}]]
        /\ "busy" \in {"none", "dial", "busy", "ended"}
    BY DEF Types
  <2>2. /\ dial'[n][m] = "busy"
        /\ \A a \in Nodes, b \in Nodes : <<a, b>> # <<n, m>> => dial'[a][b] = dial[a][b]
    BY <1>1, <2>1, EntryFacts
  <2> QED BY <2>2
<1>4. End(i, "c")' = "hello" /\ End(i, "s")' = "hello" /\ Pair(i) = {n, m}
  BY <1>2 DEF Ends, Pair, At
<1>5. \A j \in Used : /\ j \in Used' /\ conns'[j] = conns[j] /\ State(j)' = State(j)
                      /\ End(j, "c")' = End(j, "c") /\ End(j, "s")' = End(j, "s")
                      /\ (Hopeful(j)' <=> Hopeful(j)) /\ j[1] \in Nodes /\ j[2] \in Nodes
  BY <1>2, HopeElsewhere, PlaceFacts
<1>6. \A j \in Used' : j = i \/ j \in Used
  BY <1>2 DEF OnlyAt
<1>7. Known'
  BY <1>1, <1>3, KnownSame DEF Met, Known
<1>8. Clients'
  <2>1. \A j \in Used : End(j, "c") # "gone" => ~(j[1] = n /\ j[2] = m)
    BY <1>1 DEF Met, Clients
  <2> SUFFICES ASSUME NEW j \in Used', End(j, "c")' # "gone"
               PROVE  /\ dial'[j[1]][j[2]] = "busy"
                      /\ \A k \in Used' : k[1] = j[1] /\ k[2] = j[2] /\ End(k, "c")' # "gone" => k = j
    BY DEF Clients
  <2>2. CASE j = i
    BY <1>2, <1>3, <1>5, <1>6, <2>1, <2>2
  <2>3. CASE j \in Used
    <3>1. End(j, "c") # "gone" /\ ~(j[1] = n /\ j[2] = m) /\ dial[j[1]][j[2]] = "busy"
      BY <1>5, <2>1, <2>3 DEF Met, Clients
    <3>2. dial'[j[1]][j[2]] = "busy"
      BY <1>3, <1>5, <2>3, <3>1
    <3> QED BY <1>2, <1>5, <1>6, <2>3, <3>1, <3>2 DEF Met, Clients
  <2> QED BY <1>6, <2>2, <2>3
<1>9. Introduced'
  <2>1. ASSUME NEW j \in Used, State(j)' = "alive" PROVE IntroducedAt(j)'
    BY <1>1, <1>5, <2>1 DEF Met, Introduced, IntroducedAt
  <2>2. IntroducedAt(i)'
    BY <1>4 DEF IntroducedAt, Settled, Ahead
  <2> QED BY <1>6, <2>1, <2>2 DEF Introduced
<1>10. ASSUME Ways PROVE Ways'
  <2> SUFFICES ASSUME NEW a \in up, NEW b \in peer_list[a] PROVE b \in unsaved \/ WayBetween(a, b)'
    BY <1>1 DEF Ways
  <2>1. a \in Nodes /\ b \in Nodes
    BY DEF Types
  <2>2. b \in unsaved \/ WayBetween(a, b)
    BY <1>10 DEF Ways
  <2>3. CASE Pair(i) = {a, b}
    BY <1>2, <2>3, WayNext DEF Hopeful
  <2>4. CASE Pair(i) # {a, b}
    <3>1. dial'[a][b] = dial[a][b] /\ dial'[b][a] = dial[b][a]
      BY <1>3, <1>4, <2>1, <2>4
    <3> QED BY <1>1, <1>5, <2>2, <3>1, WayFacts, WayNext
  <2> QED BY <2>3, <2>4
<1> QED BY <1>7, <1>8, <1>9, <1>10 DEF Met

\* A task gives up: at a duplicate there is the other connection, and a
\* connection that the other end found to be one was no way any more.
LEMMA MetGiveUp ==
    ASSUME Types, Links, Met, NEW i \in Used, NEW e \in Ends, Duplicate(i, e) \/ SetupFails(i, e)
    PROVE  Met' /\ (Ways => spoiled' \/ Ways')
<1>1. /\ EndStep(i, e) /\ End(i, e) \in {"hello", "init"} /\ (i \in Used' => End(i, e)' = "gone")
      /\ GiveUp(i, e)
  <2>1. Wired
    BY DEF Links
  <2>2. GiveUp(i, e)
    BY DEF Duplicate, SetupFails
  <2> QED BY <2>1, <2>2, EndStepFacts
<1>2. /\ msgs' \subseteq msgs /\ UNCHANGED <<up, file, saves, unsaved, peer_list>>
  BY <1>1, GiveUpFacts
<1>3. \A a \in Nodes, b \in Nodes :
         dial'[a][b] = IF e = "c" /\ a = i[1] /\ b = i[2] THEN "ended" ELSE dial[a][b]
  BY <1>1, GiveUpDial
<1>4. e = "c" => dial[i[1]][i[2]] = "busy"
  BY <1>1 DEF Met, Clients
<1>5. Known'
  BY <1>2, <1>3, <1>4, KnownSame DEF Met, Known
<1>6. Clients'
  BY <1>1, <1>3, ClientsByEnd DEF Met
<1>7. Introduced'
  <2>1. i \in Used' => State(i)' # "alive"
    BY <1>1 DEF EndStep
  <2> QED BY <1>1, <1>2, <2>1, IntroducedByEnd DEF Met
<1>8. ASSUME Ways, ~spoiled' PROVE Ways'
  <2>1. CASE Duplicate(i, e)
    <3> DEFINE n == At(i, e)
               m == Remote(i, e)
    <3>0. PICK k : k = peer_conn[n][m]
      OBVIOUS
    <3>1. k # Free /\ conns[k].state = "alive" /\ End(i, e) = "hello"
      BY <1>8, <2>1, <3>0 DEF Duplicate, End
    <3>2. n \in Nodes /\ m \in Nodes /\ Pair(i) = {n, m} /\ EndOf(i, n) = e /\ i \in Places
          /\ \A f \in Ends : At(i, f) = n => f = e
      BY ConnFacts, EndFacts
    <3>3. k \in Places
      BY <3>0, <3>1, <3>2 DEF Types
    <3>4. k \in Used /\ \E f \in Ends : At(k, f) = n /\ Remote(k, f) = m /\ End(k, f) = "open"
      BY <3>0, <3>2, <3>3 DEF Links, Entered
    <3>5. k # i /\ Pair(k) = {n, m}
      BY <3>1, <3>2, <3>3, <3>4, EndFacts
    <3>6. k \in Used' /\ Hopeful(k)'
      <4>1. Hopeful(k)
        BY <3>1 DEF Hopeful, State
      <4>2. OnlyAt(i)
        BY <1>1 DEF EndStep
      <4> QED BY <3>2, <3>4, <3>5, <4>1, <4>2, HopeElsewhere
    <3> QED BY <1>1, <1>2, <1>3, <1>8, <3>2, <3>5, <3>6, WaysByEnd DEF Met
  <2>2. CASE SetupFails(i, e)
    <3>1. State(i) = "duplicate"
      BY <1>8, <2>2 DEF SetupFails, State
    <3>2. ~Hopeful(i)
      BY <3>1 DEF Hopeful
    <3> QED BY <1>1, <1>2, <1>3, <1>8, <3>2, WaysByEnd DEF Met
  <2> QED BY <2>1, <2>2
<1> QED BY <1>5, <1>6, <1>7, <1>8 DEF Met

\* The lists are read.
LEMMA MetCheck ==
    ASSUME Types, Links, Met, NEW i \in Used, NEW e \in Ends, Check(i, e)
    PROVE  Met' /\ (Ways => Ways')
<1>1. EndStep(i, e) /\ End(i, e) = "hello" /\ i \in Used' /\ End(i, e)' = "init"
  BY EndStepFacts DEF Links
<1>2. /\ State(i)' = State(i) /\ End(i, Other(e))' = End(i, Other(e))
      /\ e = "c" => At(i, e) \in conns'[i].peers[e]
      /\ conns'[i].peers[Other(e)] = conns[i].peers[Other(e)]
      /\ UNCHANGED <<up, file, saves, unsaved, peer_list, dial, msgs>>
  BY CheckFacts
<1>3. At(i, "c") = i[1] /\ Other("c") = "s" /\ Other("s") = "c" /\ (e = "c" \/ e = "s")
  BY PlaceFacts
<1>4. Known'
  BY <1>2, KnownSame DEF Met, Known
<1>5. Clients'
  BY <1>1, <1>2, ClientsByEnd DEF Met
<1>6. Introduced'
  <2>1. CASE e = "c"
    <3>1. /\ End(i, "c")' = "init" /\ i[1] \in conns'[i].peers["c"] /\ End(i, "s")' = End(i, "s")
      BY <1>1, <1>2, <1>3, <2>1
    <3>2. State(i)' = "alive" => IntroducedAt(i)'
      BY <1>2, <3>1 DEF Met, Introduced, IntroducedAt, Ahead
    <3> QED BY <1>1, <1>2, <3>2, IntroducedByEnd DEF Met
  <2>2. CASE e = "s"
    <3>1. /\ End(i, "s")' = "init" /\ conns'[i].peers["c"] = conns[i].peers["c"]
          /\ End(i, "c")' = End(i, "c") /\ End(i, "s") = "hello"
      BY <1>1, <1>2, <1>3, <2>2
    <3>2. State(i)' = "alive" => IntroducedAt(i)'
      BY <1>2, <3>1 DEF Met, Introduced, IntroducedAt, Ahead, Early, Settled
    <3> QED BY <1>1, <1>2, <3>2, IntroducedByEnd DEF Met
  <2> QED BY <1>3, <2>1, <2>2
<1>7. ASSUME Ways PROVE Ways'
  <2>1. Hopeful(i) => Hopeful(i)'
    BY <1>1, <1>2, <1>3 DEF Hopeful
  <2> QED BY <1>1, <1>2, <1>7, <2>1, WaysByEnd DEF Met
<1> QED BY <1>4, <1>5, <1>6, <1>7 DEF Met

\* The server answers: the client was at a point where its list has its name.
LEMMA MetAnswer ==
    ASSUME Types, Links, Met, NEW i \in Used, Answer(i)
    PROVE  Met' /\ (Ways => Ways')
<1>e. PICK e \in Ends : e = "s"
  BY DEF Ends
<1>1. /\ EndStep(i, e) /\ End(i, e) = "init" /\ i \in Used' /\ End(i, e)' = "answer"
      /\ End(i, Other(e)) = "init" /\ State(i)' = State(i)
  BY <1>e, EndStepFacts DEF Links
<1>2. Other("s") = "c" /\ End(i, "c")' = End(i, "c")
  BY <1>e, <1>1, PlaceFacts DEF EndStep
<1>3. /\ UNCHANGED <<up, file, saves, unsaved, peer_list, dial, msgs>>
      /\ conns'[i].peers = conns[i].peers
  BY MovePeers DEF Answer, Ends
<1>4. Known'
  BY <1>3, KnownSame DEF Met, Known
<1>5. Clients'
  BY <1>1, <1>3, ClientsByEnd DEF Met
<1>6. Introduced'
  <2>1. State(i)' = "alive" => IntroducedAt(i)'
    BY <1>e, <1>1, <1>2, <1>3 DEF Met, Introduced, IntroducedAt, Ahead, Early, Settled
  <2> QED BY <1>1, <1>3, <2>1, IntroducedByEnd DEF Met
<1>7. ASSUME Ways PROVE Ways'
  <2>1. Hopeful(i) => Hopeful(i)'
    BY <1>1, <1>2 DEF Hopeful
  <2> QED BY <1>1, <1>3, <1>7, <2>1, WaysByEnd DEF Met
<1> QED BY <1>4, <1>5, <1>6, <1>7 DEF Met

\* The lists are exchanged: the server gets to know the client.
LEMMA MetMerge ==
    ASSUME Types, Links, Met, NEW i \in Used, NEW e \in Ends, Merge(i, e)
    PROVE  Met' /\ (Ways => Ways')
<1>1. /\ EndStep(i, e) /\ i \in Used' /\ End(i, e)' = "merge"
      /\ End(i, e) \in {"init", "answer"}
  <2>1. Wired
    BY DEF Links
  <2> QED BY <2>1, EndStepFacts
<1>2. /\ Moves(i, e, "merge") /\ UNCHANGED <<up, msgs>> /\ conns'[i].peers = conns[i].peers
  <2>1. Move(i, e, "merge")
    BY DEF Merge
  <2> QED BY <2>1, MergeFacts, MovePeers
<1>3. State(i)' = State(i) /\ End(i, Other(e))' = End(i, Other(e))
  BY <1>1, <1>2 DEF Moves
<1>4. /\ At(i, "c") = i[1] /\ At(i, "s") = i[2] /\ i[1] # i[2] /\ i[2] \in Nodes
      /\ Other("c") = "s" /\ Other("s") = "c" /\ (e = "c" \/ e = "s")
  BY PlaceFacts
<1>5. /\ LearnPeers(At(i, e), conns[i].peers[Other(e)], <<i, e>>)
      /\ e = "s" => End(i, e) = "answer"
      /\ e = "c" => State(i) = "alive" /\ End(i, e) = "init" /\ End(i, Other(e)) \in Ahead
  BY <1>4 DEF Merge, End, State, Ahead
<1>6. At(i, e) \in up /\ conns[i].peers[Other(e)] \in SUBSET Nodes
  <2>1. Other(e) \in Ends
    BY ConnFacts, EndFacts
  <2>2. At(i, e) \in up
    BY <1>1 DEF Links, Wired
  <2> QED BY <2>1, <2>2, ConnPeersFacts
<1>7. Grown /\ conns[i].peers[Other(e)] \subseteq peer_list'[At(i, e)] \cup {At(i, e)}
  BY <1>5, <1>6, LearnGrown DEF Met
<1>8. Known'
  BY <1>2, <1>7, KnownGrown DEF Met, Known
<1>9. Clients'
  <2>1. \A a \in Nodes, b \in Nodes : dial[a][b] = "busy" => dial'[a][b] = "busy"
    BY <1>7 DEF Grown
  <2> QED BY <1>1, <2>1, ClientsByEnd DEF Met
<1>10. Introduced'
  <2>1. \A a \in Nodes : peer_list[a] \subseteq peer_list'[a]
    BY <1>7 DEF Grown
  <2>2. ASSUME State(i) = "alive" PROVE IntroducedAt(i)'
    <3>0. IntroducedAt(i) /\ End(i, "c") # "gone"
      BY <2>2 DEF Met, Introduced, Links, Wired, Ends
    <3>1. CASE e = "c"
      <4>1. End(i, "c")' = "merge" /\ End(i, "s")' = End(i, "s") /\ End(i, "s") \in Ahead /\ End(i, "c") = "init"
        BY <1>1, <1>3, <1>4, <1>5, <3>1
      <4>2. peer_list[i[2]] \subseteq peer_list'[i[2]]
        BY <1>4, <2>1
      <4> QED BY <1>2, <3>0, <4>1, <4>2 DEF IntroducedAt
    <3>2. CASE e = "s"
      <4>1. End(i, "s")' = "merge" /\ End(i, "c")' = End(i, "c") /\ End(i, "s") = "answer"
        BY <1>1, <1>3, <1>4, <1>5, <3>2
      <4>2. End(i, "c") # "hello"
        BY <1>4, <2>2, <4>1 DEF Links, Wired, Ends, Ahead
      <4>3. i[1] \in conns[i].peers["c"]
        BY <3>0, <4>1, <4>2 DEF IntroducedAt, Early
      <4>4. i[1] \in peer_list'[i[2]]
        BY <1>4, <1>7, <3>2, <4>3
      <4> QED BY <4>1, <4>4 DEF IntroducedAt, Settled, Ahead, Early
    <3> QED BY <1>4, <3>1, <3>2
  <2> QED BY <1>1, <1>3, <2>1, <2>2, IntroducedByEnd DEF Met
<1>11. ASSUME Ways PROVE Ways'
  <2>1. Hopeful(i) => Hopeful(i)'
    BY <1>1, <1>3, <1>4, <1>5 DEF Hopeful
  <2>2. i \in Places /\ OnlyAt(i)
    BY <1>1, ConnFacts DEF EndStep
  <2>3. \A j \in Used : Hopeful(j) => j \in Used' /\ Hopeful(j)'
    BY <1>1, <2>1, <2>2, HopeElsewhere
  <2> QED BY <1>2, <1>7, <1>11, <2>3, WaysGrown DEF Met
<1> QED BY <1>8, <1>9, <1>10, <1>11 DEF Met

\* The connection joins the others, who are told.
LEMMA MetJoin ==
    ASSUME Types, Links, Met, NEW i \in Used, NEW e \in Ends, Join(i, e)
    PROVE  Met' /\ (Ways => Ways')
<1>w. Wired /\ Entered
  BY DEF Links
<1>1. EndStep(i, e) /\ End(i, e) = "merge" /\ i \in Used' /\ End(i, e)' = "open"
  BY <1>w, EndStepFacts
<1>2. /\ msgs' = msgs \cup Tell(At(i, e), "peers", peer_list[At(i, e)], 0) /\ Move(i, e, "open")
      /\ UNCHANGED <<up, file, saves, unsaved, peer_list, dial>>
  BY DEF Join
<1>3. State(i)' = State(i) /\ End(i, Other(e))' = End(i, Other(e))
  <2>1. Moves(i, e, "open")
    BY <1>2, MoveFacts DEF Points
  <2> QED BY <1>1, <2>1 DEF Moves
<1>4. /\ Other("c") = "s" /\ Other("s") = "c" /\ (e = "c" \/ e = "s")
      /\ At(i, e) \in Nodes /\ peer_list[At(i, e)] \in SUBSET Nodes
  BY PlaceFacts, EndFacts DEF Types
<1>5. \A msg \in msgs' : msg.to \in up
  <2>1. ASSUME NEW msg \in Tell(At(i, e), "peers", peer_list[At(i, e)], 0) PROVE msg.to \in up
    <3>1. /\ msg \in Messages /\ msg.conn \in Used /\ State(msg.conn) = "alive"
          /\ msg.to = At(msg.conn, msg.end)
      BY <1>w, <1>4, <2>1, TellFacts
    <3>2. msg.end \in Ends
      BY <3>1 DEF Messages
    <3> QED BY <1>w, <3>1, <3>2 DEF Wired
  <2> QED BY <1>2, <2>1 DEF Met, Known
<1>6. Known'
  BY <1>2, <1>5, KnownSame DEF Met
<1>7. Clients'
  BY <1>1, <1>2, ClientsByEnd DEF Met
<1>8. Introduced'
  <2>1. ASSUME State(i) = "alive" PROVE IntroducedAt(i)'
    <3>0. IntroducedAt(i) /\ conns'[i].peers = conns[i].peers
      BY <1>2, <2>1, MovePeers DEF Met, Introduced
    <3>1. CASE e = "c"
      <4>1. End(i, "c") = "merge" /\ End(i, "c")' = "open" /\ End(i, "s")' = End(i, "s")
        BY <1>1, <1>3, <1>4, <3>1
      <4> QED BY <1>2, <3>0, <4>1 DEF IntroducedAt, Ahead
    <3>2. CASE e = "s"
      <4>1. End(i, "s") = "merge" /\ End(i, "s")' = "open" /\ End(i, "c")' = End(i, "c")
        BY <1>1, <1>3, <1>4, <3>2
      <4> QED BY <1>2, <3>0, <4>1 DEF IntroducedAt, Settled, Ahead, Early
    <3> QED BY <1>4, <3>1, <3>2
  <2> QED BY <1>1, <1>2, <1>3, <2>1, IntroducedByEnd DEF Met
<1>9. ASSUME Ways PROVE Ways'
  <2>1. Hopeful(i) => Hopeful(i)'
    BY <1>1, <1>3, <1>4 DEF Hopeful
  <2> QED BY <1>1, <1>2, <1>9, <2>1, WaysByEnd DEF Met
<1> QED BY <1>6, <1>7, <1>8, <1>9 DEF Met

\* A connection ends: a client whose peer did not close it dials again, and
\* in one that was closed there was no hope.
LEMMA MetLost ==
    ASSUME Types, Links, Met, NEW i \in Used, NEW e \in Ends, Lost(i, e)
    PROVE  Met' /\ (Ways => Ways')
<1>1. /\ EndStep(i, e) /\ End(i, e) = "open" /\ State(i) # "alive"
      /\ (i \in Used' => End(i, e)' = "gone")
  <2>1. Wired
    BY DEF Links
  <2> QED BY <2>1, EndStepFacts
<1>2. /\ State(i) \in {"lost", "closed"} /\ Move(i, e, "gone")
      /\ UNCHANGED <<up, file, saves, unsaved, peer_list>>
      /\ dial' = IF e = "s" THEN dial
                 ELSE [dial EXCEPT ![At(i, e)][Remote(i, e)] = IF conns[i].state = "lost" THEN "dial" ELSE "ended"]
  BY DEF Lost, State
<1>3. PICK accepted \in SUBSET MessagesTo(i, e) :
         msgs' = (msgs \ MessagesTo(i, e)) \cup {[msg EXCEPT !.conn = Free] : msg \in accepted}
  BY DEF Lost
<1>4. Moves(i, e, "gone")
  BY <1>2, MoveFacts DEF Points
<1>5. /\ Other("c") = "s" /\ Other("s") = "c" /\ (e = "c" \/ e = "s") /\ i[1] \in Nodes /\ i[2] \in Nodes
      /\ Remote(i, "c") = i[2] /\ At(i, "c") = i[1]
  BY PlaceFacts
<1>6. e = "c" => dial[i[1]][i[2]] = "busy"
  BY <1>1 DEF Met, Clients
<1>7. PICK v \in {"dial", "ended"} : v = IF State(i) = "lost" THEN "dial" ELSE "ended"
  OBVIOUS
<1>8. \A a \in Nodes, b \in Nodes :
         dial'[a][b] = IF e = "c" /\ a = i[1] /\ b = i[2] THEN v ELSE dial[a][b]
  <2>1. CASE e = "c"
    <3>1. dial' = [dial EXCEPT ![At(i, e)][Remote(i, e)] = v]
      BY <1>2, <1>7, <2>1 DEF State
    <3>2. /\ dial \in [Nodes -> [Nodes -> {"none", "dial", "busy", "ended"}]]
          /\ v \in {"none", "dial", "busy", "ended"} /\ At(i, e) \in Nodes /\ Remote(i, e) \in Nodes
      BY <1>5, <2>1 DEF Types
    <3>3. /\ dial'[At(i, e)][Remote(i, e)] = v
          /\ \A a \in Nodes, b \in Nodes : <<a, b>> # <<At(i, e), Remote(i, e)>> => dial'[a][b] = dial[a][b]
      BY <3>1, <3>2, EntryFacts
    <3> QED BY <1>5, <2>1, <3>3
  <2>2. CASE e = "s"
    BY <1>2, <2>2
  <2> QED BY <1>5, <2>1, <2>2
<1>9. Known'
  <2>1. \A msg \in msgs' : msg.to \in up
    <3>1. \A msg \in accepted : msg \in msgs /\ [msg EXCEPT !.conn = Free].to = msg.to
      BY DEF MessagesTo, Types, Messages
    <3>2. \A msg \in msgs : msg.to \in up
      BY DEF Met, Known
    <3> QED BY <1>3, <3>1, <3>2
  <2> QED BY <1>2, <1>6, <1>8, <2>1, KnownSame DEF Met
<1>10. Clients'
  BY <1>1, <1>8, ClientsByEnd DEF Met
<1>11. Introduced'
  <2>1. i \in Used' => State(i)' # "alive"
    BY <1>1 DEF EndStep
  <2> QED BY <1>1, <1>2, <2>1, IntroducedByEnd DEF Met
<1>12. ASSUME Ways PROVE Ways'
  <2>1. \/ dial'[i[1]][i[2]] = "dial"
        \/ Hopeful(i) => i \in Used' /\ Hopeful(i)'
    <3>1. CASE e = "c" /\ State(i) = "lost"
      BY <1>5, <1>7, <1>8, <3>1
    <3>2. CASE e = "c" /\ State(i) = "closed"
      BY <1>1, <3>2 DEF Hopeful
    <3>3. CASE e = "s"
      <4>1. Hopeful(i) => End(i, "c") # "gone"
        BY <1>1 DEF Hopeful
      <4>2. End(i, "c") # "gone" => i \in Used' /\ State(i)' = State(i) /\ End(i, "c")' = End(i, "c")
        BY <1>4, <1>5, <3>3 DEF Moves
      <4> QED BY <4>1, <4>2 DEF Hopeful
    <3> QED BY <1>2, <1>5, <3>1, <3>2, <3>3
  <2>2. \A a \in Nodes, b \in Nodes : dial'[a][b] = dial[a][b] \/ (e = "c" /\ a = i[1] /\ b = i[2])
    BY <1>8
  <2> QED BY <1>1, <1>2, <1>12, <2>1, <2>2, WaysByEnd DEF Met
<1> QED BY <1>9, <1>10, <1>11, <1>12 DEF Met

\* Connections, clients and lists stay as they are.
LEMMA MetSame ==
    ASSUME Types, Met, UNCHANGED <<up, file, saves, unsaved, peer_list, dial, conns>>,
           \A msg \in msgs' : msg.to \in up
    PROVE  Met' /\ (Ways => Ways')
<1>1. Known'
  BY KnownSame DEF Met
<1>2. Clients' /\ Introduced'
  BY DEF Met, Clients, Introduced, IntroducedAt, Used, State, End
<1>3. Ways => Ways'
  <2>1. \A j \in Used : Hopeful(j) => j \in Used' /\ Hopeful(j)'
    BY DEF Used, Hopeful, State, End
  <2> QED BY <2>1, SameGrown, WaysGrown
<1> QED BY <1>1, <1>2, <1>3 DEF Met

\* A connection times out, which its client will notice.
LEMMA MetDrop ==
    ASSUME Types, Links, Met, NEW i \in Used, Drop(i)
    PROVE  Met' /\ (Ways => Ways')
<1>1. /\ conns' = [conns EXCEPT ![i].state = "lost"] /\ State(i) = "alive"
      /\ UNCHANGED <<up, file, saves, unsaved, peer_list, dial, msgs>>
  BY DEF Drop, State
<1>2. conns[i] \in Connections /\ i \in Places /\ conns \in [Places -> Connections \cup {Free}]
  BY ConnFacts DEF Types
<1>3. /\ [conns[i] EXCEPT !.state = "lost"] \in Connections
      /\ [conns[i] EXCEPT !.state = "lost"].state = "lost"
      /\ [conns[i] EXCEPT !.state = "lost"].end = conns[i].end
  BY <1>2 DEF Connections
<1>4. conns'[i] = [conns[i] EXCEPT !.state = "lost"] /\ \A j \in Places \ {i} : conns'[j] = conns[j]
  BY <1>1, <1>2
<1>5. Used' = Used
  BY <1>2, <1>3, <1>4, FreeAssumption DEF Used
<1>6. /\ \A j \in Used : \A f : End(j, f)' = End(j, f)
      /\ \A j \in Used \ {i} : conns'[j] = conns[j] /\ State(j)' = State(j)
      /\ State(i)' = "lost"
  BY <1>3, <1>4, ConnFacts DEF End, State
<1>7. Known'
  BY <1>1, KnownSame DEF Met, Known
<1>8. Clients' /\ Introduced'
  BY <1>1, <1>5, <1>6 DEF Met, Clients, Introduced, IntroducedAt
<1>9. ASSUME Ways PROVE Ways'
  <2>1. Hopeful(i)'
    <3>1. End(i, "c") # "gone"
      BY <1>1 DEF Links, Wired, Ends
    <3> QED BY <1>6, <3>1 DEF Hopeful
  <2>2. \A j \in Used : Hopeful(j) => j \in Used' /\ Hopeful(j)'
    BY <1>5, <1>6, <2>1 DEF Hopeful
  <2> QED BY <1>1, <1>9, <2>2, SameGrown, WaysGrown
<1> QED BY <1>7, <1>8, <1>9 DEF Met

\* A request is handled.
LEMMA MetReceive ==
    ASSUME Types, Links, Met, NEW msg \in msgs, Receive(msg)
    PROVE  Met' /\ (Ways => Ways')
<1>1. msgs' \subseteq msgs /\ UNCHANGED <<up, conns>> /\ msg.to \in up
  BY DEF Receive, Met, Known
<1>2. \A other \in msgs' : other.to \in up
  BY <1>1 DEF Met, Known
<1>3. CASE msg.what # "peers"
  <2>1. UNCHANGED <<peer_list, dial, file, saves, unsaved>>
    BY <1>3 DEF Receive
  <2> QED BY <1>1, <1>2, <2>1, MetSame
<1>4. CASE msg.what = "peers"
  <2>1. LearnPeers(msg.to, msg.peers, Free) /\ msg.peers \in SUBSET Nodes
    BY <1>4 DEF Receive, Types, Messages
  <2>2. Grown
    BY <1>1, <2>1, LearnGrown DEF Met
  <2>3. Used' = Used /\ \A j : State(j)' = State(j) /\ (\A f : End(j, f)' = End(j, f)) /\ (Hopeful(j)' <=> Hopeful(j))
    BY <1>1 DEF Used, State, End, Hopeful
  <2>4. Known'
    BY <1>1, <1>2, <2>2, KnownGrown DEF Met
  <2>5. Clients'
    <3>1. \A i \in Used : i[1] \in Nodes /\ i[2] \in Nodes
      BY PlaceFacts
    <3>2. \A a \in Nodes, b \in Nodes : dial[a][b] = "busy" => dial'[a][b] = "busy"
      BY <2>2 DEF Grown
    <3> QED BY <2>3, <3>1, <3>2 DEF Met, Clients
  <2>6. Introduced'
    <3>1. \A i \in Used : i[2] \in Nodes
      BY PlaceFacts
    <3>2. \A a \in Nodes : peer_list[a] \subseteq peer_list'[a]
      BY <2>2 DEF Grown
    <3> QED BY <1>1, <2>3, <3>1, <3>2 DEF Met, Introduced, IntroducedAt
  <2>7. Ways => Ways'
    BY <1>1, <2>2, <2>3, WaysGrown
  <2> QED BY <2>4, <2>5, <2>6, <2>7 DEF Met
<1> QED BY <1>3, <1>4

\* The sources change, and the peers are told.
LEMMA MetSources ==
    ASSUME Types, Links, Met, NEW n \in Nodes, ChangeSources(n) \/ Broadcast(n)
    PROVE  Met' /\ (Ways => Ways')
<1>1. UNCHANGED <<up, file, saves, unsaved, peer_list, dial, conns>>
  BY DEF ChangeSources, Broadcast
<1>2. \A msg \in msgs' : msg.to \in up
  <2>1. CASE ChangeSources(n)
    BY <2>1 DEF ChangeSources, Met, Known
  <2>2. CASE Broadcast(n)
    <3>1. /\ msgs' = msgs \cup Tell(n, "sources", {}, sources[n])
          /\ sources[n] \in Nat /\ {} \in SUBSET Nodes
      BY <2>2 DEF Broadcast, Types
    <3>2. ASSUME NEW msg \in Tell(n, "sources", {}, sources[n]) PROVE msg.to \in up
      <4>1. /\ msg \in Messages /\ msg.conn \in Used /\ State(msg.conn) = "alive"
            /\ msg.to = At(msg.conn, msg.end)
        BY <3>1, <3>2, TellFacts DEF Links
      <4>2. msg.end \in Ends
        BY <4>1 DEF Messages
      <4> QED BY <4>1, <4>2 DEF Links, Wired
    <3> QED BY <3>1, <3>2 DEF Met, Known
  <2> QED BY <2>1, <2>2
<1> QED BY <1>1, <1>2, MetSame

\* A task has written the file, or failed to.  No way depends on the file of a
\* node that runs.
LEMMA MetSave ==
    ASSUME Types, Met, NEW t \in saves, Save(t) \/ SaveFails(t)
    PROVE  Met' /\ (Ways => Ways')
<1>1. /\ UNCHANGED <<up, peer_list, dial, conns, msgs>> /\ saves' = saves \ {t}
      /\ unsaved \subseteq unsaved'
  BY DEF Save, SaveFails
<1>2. t.node \in up /\ t.node \in Nodes
  BY DEF Met, Known, Types
<1>3. \A a \in Nodes \ {t.node} : file'[a] = file[a]
  <2>1. CASE Save(t)
    BY <1>2, <2>1 DEF Save, Types
  <2>2. CASE SaveFails(t)
    BY <1>2, <2>2 DEF SaveFails, Types
  <2> QED BY <2>1, <2>2
<1>4. t.node \in unsaved' \/ (file[t.node] \subseteq file'[t.node] /\ t.list \subseteq file'[t.node])
  <2>1. CASE Save(t)
    <3>1. PICK list \in SUBSET peer_list[t.node] :
             /\ t.list \subseteq list /\ file' = [file EXCEPT ![t.node] = list]
             /\ unsaved' = IF file[t.node] \subseteq list THEN unsaved ELSE unsaved \cup {t.node}
      BY <2>1 DEF Save
    <3>2. file'[t.node] = list
      BY <1>2, <3>1 DEF Types
    <3> QED BY <3>1, <3>2
  <2>2. CASE SaveFails(t)
    BY <2>2 DEF SaveFails
  <2> QED BY <2>1, <2>2
<1>5. Known'
  <2>1. ASSUME NEW n \in up \ unsaved', NEW m \in peer_list[n]
        PROVE  m \in file'[n] \/ \E u \in saves' : u.node = n /\ m \in u.list
    <3>1. m \in file[n] \/ \E u \in saves : u.node = n /\ m \in u.list
      BY <1>1 DEF Met, Known
    <3>2. n \in Nodes
      BY DEF Types
    <3>3. CASE n = t.node
      BY <1>1, <1>4, <3>1, <3>3
    <3>4. CASE n # t.node
      BY <1>1, <1>3, <3>1, <3>2, <3>4
    <3> QED BY <3>3, <3>4
  <2> QED BY <1>1, <2>1 DEF Met, Known
<1>6. Clients' /\ Introduced'
  BY <1>1 DEF Met, Clients, Introduced, IntroducedAt, Used, State, End
<1>7. ASSUME Ways PROVE Ways'
  <2> SUFFICES ASSUME NEW a \in up, NEW b \in peer_list[a] PROVE b \in unsaved' \/ WayBetween(a, b)'
    BY <1>1 DEF Ways
  <2>1. b \in unsaved \/ WayBetween(a, b)
    BY <1>7 DEF Ways
  <2>2. b \in Nodes
    BY DEF Types
  <2>3. b \notin up => file'[b] = file[b]
    BY <1>2, <1>3, <2>2
  <2> QED BY <1>1, <2>1, <2>3 DEF WayBetween, Used, Pair, At
<1> QED BY <1>5, <1>6, <1>7 DEF Met

\* What a far end sees of a connection that was alive.
LEMMA StopHow ==
    ASSUME Types, NEW n \in Nodes, NEW how, \A i \in Used : how[i] \in {"lost", "closed"}, Stop(n, how),
           NEW i \in Used, i \in Used', n \in Pair(i), State(i) = "alive"
    PROVE  State(i)' = how[i]
<1>1. i \in Places /\ conns[i] \in Connections /\ conns'[i] # Free
  BY ConnFacts DEF Used
<1> DEFINE rest == Moved(i, EndOf(i, n), "gone")
<1>2. conns'[i] = (IF rest # Free /\ rest.state = "alive" THEN [rest EXCEPT !.state = how[i]] ELSE rest)
  <2>1. conns'[i] = Without(n, i, how[i])
    BY <1>1 DEF Stop
  <2> QED BY <2>1 DEF Without
<1>3. rest = Free \/ rest = [conns[i] EXCEPT !.end[EndOf(i, n)] = "gone"]
  BY DEF Moved
<1> HIDE DEF rest
<1>4. rest # Free
  BY <1>1, <1>2
<1>5. rest \in Connections /\ rest.state = "alive"
  BY <1>1, <1>3, <1>4 DEF Connections, State
<1>6. conns'[i] = [rest EXCEPT !.state = how[i]]
  BY <1>2, <1>4, <1>5
<1> QED BY <1>5, <1>6 DEF State, Connections

\* A node stops: its peers have a client that will notice, or it has them in
\* its file, or it forgets what it knew.
LEMMA MetStop ==
    ASSUME Types, Links, Met, NEW n \in Nodes, NEW how, \A i \in Used : how[i] \in {"lost", "closed"},
           Stop(n, how)
    PROVE  Met' /\ (Ways => Ways')
<1>1. Leaves(n)
  BY StopFacts
<1>2. /\ n \in up /\ up' = up \ {n} /\ file' = file /\ msgs' = {msg \in msgs : msg.to # n}
      /\ peer_list' = [peer_list EXCEPT ![n] = {}]
      /\ dial' = [dial EXCEPT ![n] = [m \in Nodes |-> "none"]]
  BY DEF Stop
<1>3. /\ \A a \in Nodes \ {n} : peer_list'[a] = peer_list[a]
      /\ \A a \in Nodes \ {n}, b \in Nodes : dial'[a][b] = dial[a][b]
      /\ \A b \in Nodes : dial'[n][b] = "none"
  BY <1>2 DEF Types
<1>s. /\ saves' = {t \in saves : t.node # n} /\ unsaved \subseteq unsaved'
      /\ Forgets(n, how) => n \in unsaved'
  BY DEF Stop
<1>4. Known'
  <2>1. ASSUME NEW a \in up', NEW m \in peer_list'[a], a \notin unsaved'
        PROVE  m \in file'[a] \/ \E t \in saves' : t.node = a /\ m \in t.list
    <3>1. a # n /\ a \in up \ unsaved /\ m \in peer_list[a]
      BY <1>2, <1>3, <1>s, <2>1 DEF Types
    <3>2. m \in file[a] \/ \E t \in saves : t.node = a /\ m \in t.list
      BY <3>1 DEF Met, Known
    <3> QED BY <1>2, <1>s, <3>1, <3>2
  <2>2. \A t \in saves' : t.node \in up'
    BY <1>2, <1>s DEF Met, Known
  <2>3. \A a \in Nodes, b \in Nodes : dial'[a][b] # "none" => a \in up' /\ b \in peer_list'[a]
    BY <1>2, <1>3 DEF Met, Known
  <2>4. \A msg \in msgs' : msg.to \in up'
    BY <1>2 DEF Met, Known
  <2> QED BY <2>1, <2>2, <2>3, <2>4 DEF Known
<1>5. ASSUME NEW j \in Used'
      PROVE  /\ j \in Used /\ j[1] \in Nodes /\ j[2] \in Nodes
             /\ End(j, "c")' = IF j[1] = n THEN "gone" ELSE End(j, "c")
             /\ End(j, "s")' = IF j[2] = n THEN "gone" ELSE End(j, "s")
  <2>1. j \in Used
    BY <1>1 DEF Leaves
  <2> QED BY <1>1, <2>1, PlaceFacts DEF Leaves
<1>6. Clients'
  <2> SUFFICES ASSUME NEW j \in Used', End(j, "c")' # "gone"
               PROVE  /\ dial'[j[1]][j[2]] = "busy"
                      /\ \A k \in Used' : k[1] = j[1] /\ k[2] = j[2] /\ End(k, "c")' # "gone" => k = j
    BY DEF Clients
  <2>1. j \in Used /\ j[1] # n /\ End(j, "c") # "gone" /\ j[1] \in Nodes /\ j[2] \in Nodes
    BY <1>5
  <2>2. dial'[j[1]][j[2]] = "busy"
    BY <1>3, <2>1 DEF Met, Clients
  <2>3. ASSUME NEW k \in Used', k[1] = j[1], k[2] = j[2], End(k, "c")' # "gone" PROVE k = j
    <3>1. k \in Used /\ End(k, "c") # "gone"
      BY <1>5, <2>3
    <3> QED BY <2>1, <2>3, <3>1 DEF Met, Clients
  <2> QED BY <2>2, <2>3
<1>7. Introduced'
  <2> SUFFICES ASSUME NEW j \in Used', State(j)' = "alive" PROVE IntroducedAt(j)'
    BY DEF Introduced
  <2>1. n \notin Pair(j) /\ conns'[j] = conns[j] /\ j \in Used
    BY <1>1 DEF Leaves
  <2>2. j[2] # n /\ j[2] \in Nodes
    BY <2>1, PlaceFacts
  <2>3. State(j) = "alive" /\ End(j, "c")' = End(j, "c") /\ End(j, "s")' = End(j, "s")
    BY <2>1 DEF State, End
  <2> QED BY <1>3, <2>1, <2>2, <2>3 DEF Met, Introduced, IntroducedAt
<1>8. ASSUME Ways PROVE Ways'
  <2> SUFFICES ASSUME NEW a \in up \ {n}, NEW b \in peer_list[a], b \notin unsaved'
               PROVE  WayBetween(a, b)'
    BY <1>2, <1>3 DEF Ways, Types
  <2>1. a \in Nodes /\ b \in Nodes /\ a # n
    BY DEF Types
  <2>2. WayBetween(a, b)
    BY <1>8, <1>s DEF Ways
  <2>3. CASE b # n
    <3>1. dial'[a][b] = dial[a][b] /\ dial'[b][a] = dial[b][a] /\ (b \notin up => b \notin up')
      BY <1>2, <1>3, <2>1, <2>3
    <3>2. ASSUME NEW i \in Used, Pair(i) = {a, b}, Hopeful(i) PROVE i \in Used' /\ Hopeful(i)'
      <4>1. n \notin Pair(i)
        BY <2>1, <2>3, <3>2
      <4>2. i \in Used' /\ conns'[i] = conns[i]
        BY <1>1, <4>1 DEF Leaves
      <4> QED BY <3>2, <4>2 DEF Hopeful, State, End
    <3> QED BY <1>2, <2>2, <3>1, <3>2, WayFacts, WayNext
  <2>4. CASE b = n
    <3>1. n \notin up' /\ file' = file /\ ~Forgets(n, how) /\ n \notin unsaved
      BY <1>2, <1>s, <2>4
    <3>2. CASE a \in peer_list[n]
      <4>1. \A t \in saves : t.node # n
        BY <3>1 DEF Forgets
      <4>2. a \in file[n]
        BY <1>2, <3>1, <3>2, <4>1 DEF Met, Known
      <4> QED BY <2>4, <3>1, <4>2, WayNext
    <3>3. CASE a \notin peer_list[n]
      <4>1. dial[n][a] = "none"
        BY <2>1, <3>3 DEF Met, Known
      <4>2. CASE dial[a][n] = "dial"
        BY <1>3, <2>1, <2>4, <4>2, WayNext
      <4>3. ASSUME NEW i \in Used, Pair(i) = {a, n}, Hopeful(i) PROVE i \in Used' /\ Hopeful(i)'
        <5>1. End(i, "c") # "gone"
          BY <4>3 DEF Hopeful, Links, Wired, Ends
        <5>2. i[1] = a /\ i[2] = n /\ At(i, "c") = a /\ "c" \in Ends
          <6>1. ~(i[1] = n /\ i[2] = a)
            BY <4>1, <5>1 DEF Met, Clients
          <6> QED BY <4>3, <6>1, PlaceFacts
        <5>3. i \in Used' /\ End(i, "c")' = End(i, "c")
          BY <1>1, <2>1, <5>1, <5>2 DEF Leaves
        <5>4. CASE State(i) # "alive"
          <6>1. State(i)' = State(i)
            BY <1>1, <5>3, <5>4 DEF Leaves
          <6> QED BY <4>3, <5>3, <6>1 DEF Hopeful
        <5>5. CASE State(i) = "alive"
          <6>1. State(i)' = how[i] /\ how[i] \in {"lost", "closed"}
            BY <4>3, <5>3, <5>5, StopHow
          <6>2. CASE how[i] = "lost"
            BY <5>1, <5>3, <6>1, <6>2 DEF Hopeful
          <6>3. CASE how[i] = "closed"
            <7>1. End(i, "s") # "answer"
              <8>1. At(i, "s") = n
                BY <5>2, PlaceFacts
              <8> QED BY <3>1, <6>3, <8>1 DEF Forgets, End
            <7>2. IntroducedAt(i)
              BY <5>5 DEF Met, Introduced
            <7>3. End(i, "c") \notin Ahead
              BY <3>3, <5>2, <7>1, <7>2 DEF IntroducedAt, Ahead, Settled
            <7>4. End(i, "c") \in {"hello", "init"}
              BY <5>1, <7>3, PlaceFacts DEF Points, Ahead
            <7> QED BY <5>3, <6>1, <6>3, <7>4 DEF Hopeful
          <6> QED BY <6>1, <6>2, <6>3
        <5> QED BY <5>4, <5>5
      <4> QED BY <1>2, <2>2, <2>4, <4>1, <4>2, <4>3, WayFacts, WayNext
    <3> QED BY <3>2, <3>3
  <2> QED BY <2>3, <2>4
<1> QED BY <1>4, <1>6, <1>7, <1>8 DEF Met

\* A node starts, and dials the peers in its file.
LEMMA MetRestart ==
    ASSUME Types, Links, Met, NEW n \in Nodes, Restart(n)
    PROVE  Met' /\ (Ways => Ways')
<1>1. /\ n \notin up /\ up' = up \cup {n} /\ UNCHANGED <<file, saves, unsaved, conns, msgs>>
      /\ peer_list' = [peer_list EXCEPT ![n] = file[n]]
      /\ dial' = [dial EXCEPT ![n] = Dialled(n, file[n])]
  BY DEF Restart
<1>2. /\ \A a \in Nodes \ {n} : peer_list'[a] = peer_list[a]
      /\ \A a \in Nodes \ {n}, b \in Nodes : dial'[a][b] = dial[a][b]
      /\ peer_list'[n] = file[n]
      /\ \A b \in Nodes : dial'[n][b] = IF b \in file[n] THEN "dial" ELSE "none"
  BY <1>1 DEF Types, Dialled
<1>3. Known'
  <2>1. ASSUME NEW a \in up' \ unsaved, NEW m \in peer_list'[a]
        PROVE  m \in file[a] \/ \E t \in saves : t.node = a /\ m \in t.list
    <3>1. CASE a = n
      BY <1>2, <2>1, <3>1
    <3>2. CASE a # n
      BY <1>1, <1>2, <2>1, <3>2 DEF Met, Known, Types
    <3> QED BY <3>1, <3>2
  <2>2. (\A t \in saves : t.node \in up') /\ \A msg \in msgs : msg.to \in up'
    BY <1>1 DEF Met, Known
  <2>3. \A a \in Nodes, b \in Nodes : dial'[a][b] # "none" => a \in up' /\ b \in peer_list'[a]
    BY <1>1, <1>2 DEF Met, Known
  <2> QED BY <1>1, <2>1, <2>2, <2>3 DEF Known
<1>4. /\ Used' = Used
      /\ \A j : State(j)' = State(j) /\ (\A f : End(j, f)' = End(j, f)) /\ (Hopeful(j)' <=> Hopeful(j))
  BY <1>1 DEF Used, State, End, Hopeful
<1>5. Clients'
  <2>1. ASSUME NEW i \in Used, End(i, "c") # "gone" PROVE i[1] # n /\ i[1] \in Nodes /\ i[2] \in Nodes
    <3>1. At(i, "c") \in up
      BY <2>1 DEF Links, Wired, Ends
    <3> QED BY <1>1, <3>1, PlaceFacts
  <2>2. \A i \in Used : End(i, "c") # "gone" => dial'[i[1]][i[2]] = dial[i[1]][i[2]]
    BY <1>2, <2>1
  <2> QED BY <1>4, <2>2 DEF Met, Clients
<1>6. Introduced'
  <2>1. ASSUME NEW i \in Used, State(i) = "alive" PROVE i[2] # n /\ i[2] \in Nodes
    <3>1. At(i, "s") \in up
      BY <2>1 DEF Links, Wired, Ends
    <3> QED BY <1>1, <3>1, PlaceFacts
  <2>2. \A i \in Used : State(i) = "alive" => peer_list'[i[2]] = peer_list[i[2]]
    BY <1>2, <2>1
  <2> QED BY <1>1, <1>4, <2>2 DEF Met, Introduced, IntroducedAt
<1>7. ASSUME Ways PROVE Ways'
  <2> SUFFICES ASSUME NEW a \in up', NEW b \in peer_list'[a], b \notin unsaved PROVE WayBetween(a, b)'
    BY <1>1 DEF Ways
  <2>1. CASE a = n
    <3>1. b \in Nodes /\ b \in file[n]
      BY <1>2, <2>1 DEF Types
    <3> QED BY <1>2, <2>1, <3>1, WayNext
  <2>2. CASE a # n
    <3>1. a \in up /\ a \in Nodes /\ b \in peer_list[a] /\ b \in Nodes
      BY <1>1, <1>2, <2>2 DEF Types
    <3>2. WayBetween(a, b)
      BY <1>7, <3>1 DEF Ways
    <3>3. dial'[a][b] = dial[a][b]
      BY <1>2, <2>2, <3>1
    <3>4. CASE b # n
      <4>1. dial'[b][a] = dial[b][a] /\ (b \notin up => b \notin up')
        BY <1>1, <1>2, <3>1, <3>4
      <4> QED BY <1>1, <1>4, <3>2, <3>3, <4>1, WayFacts, WayNext
    <3>5. CASE b = n
      <4>1. dial[n][a] = "none"
        BY <1>1, <3>1 DEF Met, Known
      <4>2. a \in file[n] => dial'[n][a] = "dial"
        BY <1>2, <3>1
      <4> QED BY <1>4, <3>2, <3>3, <3>5, <4>1, <4>2, WayFacts, WayNext
    <3> QED BY <3>4, <3>5
  <2> QED BY <2>1, <2>2
<1> QED BY <1>3, <1>5, <1>6, <1>7 DEF Met

\* Every step keeps the pairs together, or a task gives up for a bad reason.
LEMMA MetStep == Types /\ Links /\ Met /\ [Next]_vars => Met' /\ (Ways => spoiled' \/ Ways')
<1> SUFFICES ASSUME Types, Links, Met, [Next]_vars PROVE Met' /\ (Ways => spoiled' \/ Ways')
  OBVIOUS
<1>1. ASSUME NEW n \in Nodes, NEW m \in Nodes, Connect(n, m) PROVE Met' /\ (Ways => Ways')
  BY <1>1, MetConnect
<1>2. ASSUME NEW i \in Used, NEW e \in Ends, Duplicate(i, e) \/ SetupFails(i, e)
      PROVE  Met' /\ (Ways => spoiled' \/ Ways')
  BY <1>2, MetGiveUp
<1>3. ASSUME NEW i \in Used, NEW e \in Ends, Check(i, e) \/ Merge(i, e) \/ Join(i, e) \/ Lost(i, e)
      PROVE  Met' /\ (Ways => Ways')
  BY <1>3, MetCheck, MetMerge, MetJoin, MetLost
<1>4. ASSUME NEW i \in Used, Drop(i) PROVE Met' /\ (Ways => Ways')
  BY <1>4, MetDrop
<1>5. ASSUME NEW msg \in msgs, Receive(msg) PROVE Met' /\ (Ways => Ways')
  BY <1>5, MetReceive
<1>6. ASSUME NEW n \in Nodes, ChangeSources(n) \/ Broadcast(n) PROVE Met' /\ (Ways => Ways')
  BY <1>6, MetSources
<1>7. ASSUME NEW n \in Nodes, Crash(n) PROVE Met' /\ (Ways => Ways')
  BY <1>7, MetStop DEF Crash
<1>8. ASSUME NEW n \in Nodes, Shutdown(n) PROVE Met' /\ (Ways => Ways')
  BY <1>8, MetStop DEF Shutdown
<1>9. ASSUME NEW n \in Nodes, Restart(n) PROVE Met' /\ (Ways => Ways')
  BY <1>9, MetRestart
<1>10. ASSUME NEW i \in Used, Answer(i) PROVE Met' /\ (Ways => Ways')
  BY <1>10, MetAnswer
<1>11. ASSUME NEW t \in saves, Save(t) \/ SaveFails(t) PROVE Met' /\ (Ways => Ways')
  BY <1>11, MetSave
<1>12. CASE UNCHANGED vars
  <2>1. UNCHANGED <<up, file, saves, unsaved, peer_list, dial, conns, msgs>>
    BY <1>12 DEF vars
  <2> QED BY <2>1, MetSame DEF Met, Known
<1> QED
  BY <1>1, <1>2, <1>3, <1>4, <1>5, <1>6, <1>7, <1>8, <1>9, <1>10, <1>11, <1>12 DEF Next, Work, Step

\* At the start everyone dials whom it knows, or is connected to it.
LEMMA MetInit == Init => Met /\ Ways
<1> SUFFICES ASSUME Init PROVE Met /\ Ways
  OBVIOUS
<1>t. Types
  BY TypesInit
<1>1. PICK start \in Starts :
        /\ up = start.members /\ file = start.peers /\ peer_list = start.peers
        /\ dial = [n \in Nodes |-> [m \in Nodes |->
              IF <<n, m>> \in start.joined THEN "busy" ELSE IF <<m, n>> \in start.joined THEN "ended"
              ELSE Dialled(n, start.peers[n])[m]]]
        /\ conns = [i \in Places |->
              IF i[3] = 1 /\ <<i[1], i[2]>> \in start.joined THEN Conn("open") ELSE Free]
        /\ msgs = {Update(p, start.peers[p[2]]) : p \in start.told}
  BY InitFacts
<1> DEFINE Joined(n, m) == <<n, m>> \in start.joined
<1>2. /\ start.members \subseteq Nodes /\ start.peers \in [Nodes -> SUBSET Nodes]
      /\ \A n \in Nodes : start.peers[n] \subseteq start.members \ {n}
      /\ \A n \in Nodes \ start.members : start.peers[n] = {}
      /\ \A pair \in start.joined : \E n \in start.members : \E m \in start.members \ {n} :
            pair = <<n, m>> /\ m \in start.peers[n] /\ n \in start.peers[m]
      /\ start.told \subseteq start.joined
  BY StartsAssumption
<1>3. \A n, m : Joined(n, m) => /\ n \in up /\ m \in up /\ n \in Nodes /\ m \in Nodes
                                /\ m \in peer_list[n] /\ n \in peer_list[m]
  BY <1>1, <1>2
<1>4. /\ Conn("open").state = "alive" /\ Conn("open") # Free
      /\ Conn("open").end["c"] = "open" /\ Conn("open").end["s"] = "open"
  BY FreeAssumption DEF Conn, Connections, Ends
<1>5. \A i \in Places : i \in Used <=> i[3] = 1 /\ Joined(i[1], i[2])
  <2>1. \A i \in Places : conns[i] = IF i[3] = 1 /\ Joined(i[1], i[2]) THEN Conn("open") ELSE Free
    BY <1>1
  <2> HIDE DEF Joined
  <2> QED BY <1>4, <2>1 DEF Used
<1>6. Used \subseteq Places /\ \A i \in Used : /\ State(i) = "alive"
                                               /\ End(i, "c") = "open" /\ End(i, "s") = "open"
  BY <1>1, <1>4, <1>5 DEF Used, State, End
<1>7. \A n \in Nodes, m \in Nodes :
         dial[n][m] = IF Joined(n, m) THEN "busy" ELSE IF Joined(m, n) THEN "ended"
                      ELSE IF m \in peer_list[n] THEN "dial" ELSE "none"
  BY <1>1 DEF Dialled
<1>8. Known
  <2>1. \A n \in Nodes, m \in Nodes : dial[n][m] # "none" => n \in up /\ m \in peer_list[n]
    BY <1>1, <1>2, <1>3, <1>7
  <2>2. ASSUME NEW msg \in msgs PROVE msg.to \in up
    <3>1. PICK p \in start.told : msg = Update(p, start.peers[p[2]])
      BY <1>1
    <3>2. p[1] \in start.members
      BY <1>2
    <3> QED BY <1>1, <3>1, <3>2 DEF Update
  <2>3. saves = {}
    BY DEF Init
  <2> QED BY <1>1, <2>1, <2>2, <2>3 DEF Known
<1>9. Clients
  <2> SUFFICES ASSUME NEW i \in Used
               PROVE  /\ dial[i[1]][i[2]] = "busy"
                      /\ \A j \in Used : j[1] = i[1] /\ j[2] = i[2] => j = i
    BY DEF Clients
  <2> HIDE DEF Joined
  <2>1. dial[i[1]][i[2]] = "busy"
    <3>1. i \in Places /\ Joined(i[1], i[2])
      BY <1>5, <1>6
    <3>2. i[1] \in Nodes /\ i[2] \in Nodes
      BY <1>3, <3>1
    <3> QED BY <1>7, <3>1, <3>2
  <2>2. \A j \in Used : j[1] = i[1] /\ j[2] = i[2] => j = i
    <3>1. \A j \in Places : j = <<j[1], j[2], j[3]>>
      BY DEF Places
    <3>2. \A j \in Used : j \in Places /\ j[3] = 1
      BY <1>5, <1>6
    <3> QED BY <3>1, <3>2
  <2> QED BY <2>1, <2>2
<1>10. Introduced
  BY <1>3, <1>5, <1>6 DEF Introduced, IntroducedAt, Early, Ahead
<1>11. Ways
  <2> SUFFICES ASSUME NEW n \in up, NEW m \in peer_list[n] PROVE WayBetween(n, m)
    BY DEF Ways
  <2>1. n \in Nodes /\ m \in Nodes /\ <<n, m, 1>> \in Places /\ <<m, n, 1>> \in Places
    BY <1>t, MaxConnsAssumption DEF Types, Places
  <2>2. ASSUME NEW a \in Nodes, NEW b \in Nodes, Joined(a, b), {a, b} = {n, m} PROVE WayBetween(n, m)
    <3>1. PICK i : i = <<a, b, 1>>
      OBVIOUS
    <3>2. i \in Places /\ i[1] = a /\ i[2] = b /\ i[3] = 1
      BY <3>1, MaxConnsAssumption DEF Places
    <3>3. i \in Used /\ Pair(i) = {n, m}
      BY <1>5, <2>2, <3>2 DEF Pair, At
    <3>4. Hopeful(i)
      BY <1>6, <3>3 DEF Hopeful
    <3> QED BY <3>3, <3>4, WayFacts
  <2>3. CASE Joined(n, m)
    BY <2>1, <2>2, <2>3
  <2>4. CASE Joined(m, n)
    BY <2>1, <2>2, <2>4
  <2>5. CASE ~Joined(n, m) /\ ~Joined(m, n)
    <3>1. dial[n][m] = "dial"
      BY <1>7, <2>1, <2>5
    <3> QED BY <3>1, WayFacts
  <2> QED BY <2>3, <2>4, <2>5
<1> QED BY <1>8, <1>9, <1>10, <1>11 DEF Met

\* NoPairGivesUp holds however many nodes there are and whatever fails: a task
\* of client_connection that returns leaves a task of the other node that
\* dials, another connection that is alive, or the name of this node in the
\* file of a peer that will start again, unless that file was written late, in
\* the wrong order or not at all.
THEOREM PairsStayTogether == Spec => []NoPairGivesUp
<1> DEFINE I == Types /\ Links /\ Met /\ (spoiled \/ Ways)
<1>1. Init => I
  BY TypesInit, MetInit
<1>2. I /\ [Next]_vars => I'
  <2> SUFFICES ASSUME Types, Links, Met, spoiled \/ Ways, [Next]_vars PROVE I'
    OBVIOUS
  <2>1. Types' /\ Links'
    BY TypesStep, LinksStep DEF Links
  <2>2. Met' /\ (spoiled' \/ Ways')
    BY SpoiledStays, MetStep
  <2> QED BY <2>1, <2>2
<1>3. I => NoPairGivesUp
  BY DEF NoPairGivesUp, Ways
<1> QED BY <1>1, <1>2, <1>3, PTL DEF Spec
=============================================================================
