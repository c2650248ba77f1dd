----------------------------- MODULE MCSyncRuns -----------------------------
(* SyncRuns with small sets of model values. *)
EXTENDS SyncRuns, TLC

CONSTANTS r1, r2, e1, e2, e3, daemon

TwoRuns == {r1, r2}
ThreeExecs == {e1, e2, e3}
OwnersOfThree == ThreeExecs \cup {daemon}
AllCommands == {"pause", "resume", "cancel"}
NoResume == {"pause", "cancel"}

\* Invocations draw their owners at random and are otherwise alike.
SymmetryRuns == Permutations(ThreeExecs) \cup Permutations(TwoRuns)
=============================================================================
