-------------------------- MODULE MCOutboundReply --------------------------
(* Small instances of OutboundReply.  In Spec nothing tells replicas,      *)
(* bodies or threads apart (FairSpec names a replica).                     *)
EXTENDS OutboundReply, TLC

SymmetryData == Permutations(Replicas) \cup Permutations(Bodies) \cup Permutations(Threads)
=============================================================================
