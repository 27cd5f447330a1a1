-------------------------- MODULE MCSourceRegistry --------------------------
(* Two connections of the source piglet, which overlap or follow each      *)
(* other, one of a reproduce agent under the same name, and a channel for  *)
(* a single message, so that handlers wait for room.  Two peer tasks       *)
(* broadcast the list.                                                     *)
EXTENDS SourceRegistry

CONSTANTS c1, c2, r1, piglet, p1, p2

MCConns == {c1, c2, r1}
MCSources == {piglet}
MCSourceOf == [c \in MCConns |-> piglet]
MCReproduce == {r1}
MCPeers == {p1, p2}
=============================================================================
