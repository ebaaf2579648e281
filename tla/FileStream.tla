----------------------------- MODULE FileStream -----------------------------
(***************************************************************************)
(* What F3 promises of an ID file that is written once, front to back: the *)
(* writer appends blocks and then closes the file; every other node has a  *)
(* copy that grows by the next block of the file; a copy is declared       *)
(* complete only when the file is closed and the copy is equal to it.      *)
(***************************************************************************)
EXTENDS Naturals, Sequences

CONSTANTS Nodes, Files, Blocks

VARIABLES
    file,     \* file[f]: the blocks the writer wrote
    closed,   \* the files whose writer is done
    copy,     \* copy[n][f]: the blocks node n has got
    complete  \* complete[n]: the files of which n knows it has them all

streamVars == <<file, closed, copy, complete>>

Init ==
    /\ file = [f \in Files |-> <<>>]
    /\ closed = {}
    /\ copy = [n \in Nodes |-> [f \in Files |-> <<>>]]
    /\ complete = [n \in Nodes |-> {}]

Extend(f) ==
    /\ f \notin closed
    /\ \E b \in Blocks : file' = [file EXCEPT ![f] = Append(@, b)]
    /\ UNCHANGED <<closed, copy, complete>>

Close(f) ==
    /\ closed' = closed \cup {f}
    /\ UNCHANGED <<file, copy, complete>>

Fetch(n, f) ==
    /\ Len(copy[n][f]) < Len(file[f])
    /\ copy' = [copy EXCEPT ![n][f] = Append(@, file[f][Len(@) + 1])]
    /\ UNCHANGED <<file, closed, complete>>

Finish(n, f) ==
    /\ f \in closed
    /\ copy[n][f] = file[f]
    /\ complete' = [complete EXCEPT ![n] = @ \cup {f}]
    /\ UNCHANGED <<file, closed, copy>>

Next == \E f \in Files :
            \/ Extend(f) \/ Close(f)
            \/ \E n \in Nodes : Fetch(n, f) \/ Finish(n, f)

Spec == Init /\ [][Next]_streamVars
=============================================================================
