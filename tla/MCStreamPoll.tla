---------------------------- MODULE MCStreamPoll ----------------------------
EXTENDS StreamPoll, TLC

AllCursors == [tail : Positions, head : Positions]
SymmetryPollers == Permutations(Pollers)
=============================================================================
