----------------------------- MODULE MCServer -----------------------------
(***************************************************************************)
(* Instances of Server for TLC.                                            *)
(***************************************************************************)
EXTENDS Server, TLC

CONSTANTS n1, n2, s1, s2, s3, w1, w2

\* Two streams of one node (a reconnected agent whose old stream still has
\* messages in flight) and one of another.
MCThreeStreams == s1 :> n1 @@ s2 :> n1 @@ s3 :> n2

\* One stream of one node.
MCOneStream == s1 :> n1

\* All nodes hash to the same worker.
MCShardOf == [n \in Nodes |-> w1]
=============================================================================
