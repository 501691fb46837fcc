---------------------------- MODULE MCTraversal ----------------------------
(* An address and a host with an edge either way, two edges from the host to  *)
(* an account, and one on to a URL.                                           *)
EXTENDS Traversal

CONSTANTS ip, host, user, url, ab, ba, bc, ca, bc2, s1, s2

Ends ==
  [e \in {ab, ba, bc, ca, bc2} |->
     CASE e = ab -> <<ip, host>>
       [] e = ba -> <<host, ip>>
       [] e = bc -> <<host, user>>
       [] e = bc2 -> <<host, user>>
       [] e = ca -> <<user, url>>]
FromEnds == [e \in DOMAIN Ends |-> Ends[e][1]]
ToEnds   == [e \in DOMAIN Ends |-> Ends[e][2]]
BackedBy == [e \in DOMAIN Ends |-> IF e \in {ab, bc} THEN s1 ELSE s2]
=============================================================================
