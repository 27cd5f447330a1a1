--------------------------- MODULE MCDirectStream ---------------------------
(* An instance of DirectStream.  The source hall sends three events, two   *)
(* of them with equal timestamps, so that the later overwrites the earlier *)
(* in the database, and the source lab one.  The name hall ends in "all",  *)
(* so that those who ask for hall are sent the events of every source in   *)
(* real time, and the name oldlab in that of lab.  The first Crusher's     *)
(* filter does not let the second event pass, the second Crusher asks for  *)
(* events from time 2 on only.                                             *)
(* In every behaviour two subscriptions take place out of three: two       *)
(* Crushers under the same key, one after the other or at the same time,   *)
(* or one of them with a Hog that asks for lab and oldlab, so that it is   *)
(* sent lab's event twice.                                                 *)
EXTENDS DirectStream

CONSTANTS hall, lab, oldlab, all, wHall, wLab, crusher1, crusher2, hog, kCrusher, kOldLab, kLab

MCNames == {hall, lab, oldlab, all}
MCSuffixOf == {<<n, n>> : n \in MCNames} \cup {<<all, hall>>, <<lab, oldlab>>}

MCEvents == 1..4
MCSrc == [e \in MCEvents |-> IF e = 4 THEN lab ELSE hall]
MCTime == <<1, 2, 2, 1>>
MCKeys == {kCrusher, kOldLab, kLab}
MCKeysOf == [k \in Subs |-> IF k = hog THEN <<kLab, kOldLab>> ELSE <<kCrusher>>]
MCTarget == [q \in MCKeys |-> CASE q = kOldLab -> oldlab [] q = kLab -> lab [] OTHER -> hall]
MCCrushers == Subs \ {hog}
MCStart == [k \in Subs |-> IF k = crusher2 THEN 2 ELSE 0]
MCPasses == (Subs \X MCEvents) \ {<<crusher1, 2>>}

MCSubs == {crusher1, crusher2, hog}
MCStreams == {wHall, wLab}
MCFeed == [w \in MCStreams |-> IF w = wHall THEN <<1, 2, 3>> ELSE <<4>>]

\* What the theorem about what a Crusher misses takes.
ASSUME InstanceAssumption == InOrder
=============================================================================
