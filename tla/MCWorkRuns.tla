----------------------------- MODULE MCWorkRuns -----------------------------
(* Small instances of WorkRuns. *)
EXTENDS WorkRuns, TLC

(* The process stops, a human dismisses an item and runs one again, or an  *)
(* agent asks a human.                                                     *)
AllScenarios == {{"crash"}, {"dismiss", "rerun"}, {"prompt"}}
Prompt == {{"prompt"}}

SymmetryData == Permutations(Items) \cup Permutations(Runs)
=============================================================================
