--------------------------- MODULE MCPeerCluster ---------------------------
(* PeerCluster with two nodes that know each other and whose sources       *)
(* change, or whose connection breaks; with two of which one knows the     *)
(* other, and a crash, a lost connection, or a shutdown and a failed write *)
(* of the file; and with two nodes that have joined a third at the same    *)
(* time, one of which will hear of the other, and whose sources change.    *)
EXTENDS PeerCluster, TLC

CONSTANTS a, b, c

Pairwise == a :> {b} @@ b :> {a} @@ c :> {}
OneKnows == a :> {b} @@ b :> {} @@ c :> {}
Untroubled == [members |-> {a, b}, peers |-> OneKnows, joined |-> {}, told |-> {},
               changes |-> 0, crashes |-> 0, shutdowns |-> 0, drops |-> 0, failures |-> 0]
Changing == [Untroubled EXCEPT !.peers = Pairwise, !.changes = 2]
Crashing == [Untroubled EXCEPT !.crashes = 1]
Dropping == [Untroubled EXCEPT !.drops = 1]
Failing == [Untroubled EXCEPT !.shutdowns = 1, !.failures = 1]
Breaking == [Untroubled EXCEPT !.peers = Pairwise, !.joined = {<<a, b>>},
                               !.changes = 2, !.drops = 2]
\* b read its list for a before it had merged c's and has told c of a since.
Meeting == [Untroubled EXCEPT !.members = {a, b, c},
                              !.peers = a :> {b} @@ b :> {a, c} @@ c :> {b},
                              !.joined = {<<a, b>>, <<c, b>>},
                              !.told = {<<c, b>>}, !.changes = 1]
ThreeNodes == {a, b, c}
FewStarts == {Changing, Crashing, Dropping, Breaking, Failing, Meeting}
=============================================================================
