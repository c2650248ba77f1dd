------------------------------ MODULE MCIngest ------------------------------
(* Small instances of Ingest. *)
EXTENDS Ingest, TLC

(* Words with an attachment that has not been fetched, the same words with *)
(* it, and other words.                                                    *)
Bare(t) == [text |-> t, have |-> {}, lack |-> {}]
Unfetched(t) == [text |-> t, have |-> {}, lack |-> {"f"}]
Fetched(t) == [text |-> t, have |-> {"f"}, lack |-> {}]

CONSTANTS k1, k2, w1, w2

SomeContents == {Unfetched("t"), Fetched("t"), Bare("t"), Bare("u")}

Creates(K, C) == [key : K, op : {"create"}, content : C]
Revises(K, C) == [key : K, op : {"revise"}, content : C]
Tombstones(K) == [key : K, op : {"tombstone"}]

(* Every record of k1 alone, and pairs in which k2 is created first, or    *)
(* k1 is met twice, in the last case by a revision that would be refused   *)
(* if the create before it could be read.                                  *)
One == Creates({k1}, SomeContents) \cup Revises({k1}, SomeContents) \cup Tombstones({k1})
SomeBatches ==
    {<<r>> : r \in One}
      \cup {<<c, r>> : c \in Creates({k2}, {Bare("t")}), r \in One}
      \cup {<<c, r>> : c \in Creates({k1}, {Bare("t")}), r \in Tombstones({k1}) \cup Creates({k1}, {Bare("t")})}
      \cup {<<c, r>> : c \in Creates({k1}, {Fetched("t")}), r \in Revises({k1}, {Bare("u")})}

(* The tombstone of a record and its create. *)
DeletedFirst == {<<r>> : r \in Creates({k1}, {Bare("t")}) \cup Tombstones({k1})}

SymmetryWorkers == Permutations(Workers)
=============================================================================
