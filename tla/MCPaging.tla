------------------------------ MODULE MCPaging ------------------------------
(* Instances of Paging.  Two kinds of events, and a neighbour on either    *)
(* side of the source asked for.                                           *)
(*   Walk: five records of the source at the times 1 to 3, two of them     *)
(*     with the same key, one that does not pass the filter and one that   *)
(*     cannot be read, and one from before 1970; pages of one and of three *)
(*     records, where two is the maximum; retention up to time 2.          *)
(*   Twin: two records of different kinds with the same key.               *)
EXTENDS Paging

CONSTANTS conn, dns

Rec(k, s, t) == [kind |-> k, source |-> s, time |-> t]
MCKinds == <<conn, dns>>
Span(a, b) == [start |-> a, end |-> b]

WalkRecords ==
    {Rec(conn, 1, 1), Rec(conn, 1, 2), Rec(conn, 1, 3), Rec(conn, 2, 1),
     Rec(dns, 1, 1), Rec(dns, 1, 2), Rec(dns, 1, -1)}
WalkInvalid == {Rec(dns, 1, 1)}
WalkPassing == WalkRecords \ {Rec(conn, 1, 2)}
WalkRanges == {Span(None, None), Span(1, 3)}

TwinRecords == {Rec(conn, 1, 1), Rec(dns, 1, 1), Rec(dns, 1, 2)}
TwinRanges == {Span(None, None)}
=============================================================================
