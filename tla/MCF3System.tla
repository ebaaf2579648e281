----------------------------- MODULE MCF3System -----------------------------
(* Small clusters for TLC.  Node w writes every file. *)
EXTENDS F3Inductive, TLC

CONSTANTS w

\* All files are written on w.
WriterIsW == [f \in Files |-> w]

\* The readers of all files run on the other nodes,
RemoteReaders == [f \in Files |-> Nodes \ {w}]

\* or on all nodes, next to the writer too.
AllReaders == [f \in Files |-> Nodes]

\* Files are alike, and so are the nodes other than w.
Symmetry == Permutations(Files) \cup Permutations(Nodes \ {w})
=============================================================================
