------------------------ MODULE MCContextProjection ------------------------
(* Two Events of one conversation, one of which is repointed.              *)
EXTENDS ContextProjection, TLC

CONSTANTS e1, e2, t1

OneThread == (e1 :> t1) @@ (e2 :> t1)
OneRepoint == (e1 :> 2) @@ (e2 :> 1)
=============================================================================
