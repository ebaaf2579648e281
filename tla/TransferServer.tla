--------------------------- MODULE TransferServer ---------------------------
(***************************************************************************)
(* The transfer server of each node (client-server/src/server/server.go).  *)
(* One goroutine reads from the driver's socket the names of the files     *)
(* that are completely written, and keeps them in writeComplete.  One      *)
(* goroutine per TCP connection sends a file while it grows, and closes    *)
(* the connection once the name is in writeComplete.                       *)
(*                                                                         *)
(* The connection of the download <<n, f>> is served on node srv[n][f].    *)
(* The two spellings of a name the code tries ("x" and "/x") are one name. *)
(***************************************************************************)
EXTENDS F3Base

VARIABLES
    writeComplete,  \* writeComplete[s]: the names in the map of node s
    spc             \* spc[n][f]: where handleConnection is for this connection

serverVars == <<writeComplete, spc>>

ServerStates ==
    {"none", "copy", "check", "final", "unmark", "ended"}

ServerTypeOK ==
    /\ writeComplete \in [Nodes -> SUBSET (Files \cup {NoPath})]
    /\ spc \in [Nodes -> [Files -> ServerStates]]

ServerInit ==
    /\ writeComplete = [s \in Nodes |-> {}]
    /\ spc = [n \in Nodes |-> [f \in Files |-> "none"]]

serverOthers == <<fsVars, idVars, serverFd, sock, reqs, req, srv, faults>>

-----------------------------------------------------------------------------
\* Bug: the line is read and the map left as it is.
HandleDoneDropped(s) ==
    /\ doneMsgs[s] # <<>>
    /\ writeComplete' = writeComplete
    /\ doneMsgs' = [doneMsgs EXCEPT ![s] = Tail(@)]
    /\ UNCHANGED <<spc, sent, tcp, serverOthers>>

\* fuseConnectionHandler: one round of its loop.  The round makes a new
\* buffered reader, which takes from the socket all the lines that are there
\* (some k of them), and uses the first; the others are lost with the reader.
HandleDone(s) ==
    /\ doneMsgs[s] # <<>>
    /\ \E k \in 1..Len(doneMsgs[s]) :
          doneMsgs' = [doneMsgs EXCEPT ![s] = SubSeq(@, k + 1, Len(@))]
    /\ writeComplete' = [writeComplete EXCEPT ![s] = @ \cup {Head(doneMsgs[s])}]
    /\ UNCHANGED <<spc, sent, tcp, serverOthers>>

\* handleConnection: reads the name and tries to open the file under temp_dir;
\* the empty name opens the directory itself.  On failure it answers false and
\* returns with the connection open.
Accept(n, f) ==
    LET found == Name(n, f) = NoPath \/ f \in placed[srv[n][f]]
    IN  /\ srv[n][f] # NoNode /\ spc[n][f] = "none"
        /\ spc' = [spc EXCEPT ![n][f] = IF found THEN "copy" ELSE "ended"]
        /\ tcp' = [tcp EXCEPT ![n][f] =
                      IF @ # "request" THEN @ ELSE IF found THEN "yes" ELSE "no"]
        /\ UNCHANGED <<writeComplete, doneMsgs, sent, serverOthers>>

\* What the open file holds now.  Reading a directory gives no bytes.
Source(n, f) == IF Name(n, f) = NoPath THEN <<>> ELSE idFile[srv[n][f]][f]

\* One block goes from the file, at the offset reached so far, into the
\* connection.
SendBlock(n, f) ==
    /\ tcp[n][f] = "yes"
    /\ Len(sent[n][f]) < Len(Source(n, f))
    /\ sent' = [sent EXCEPT ![n][f] = Append(@, Source(n, f)[Len(@) + 1])]

\* io.CopyBuffer returns: end of file, or a write to a dead connection fails.
CopyEnds(n, f) == tcp[n][f] # "yes" \/ Len(sent[n][f]) >= Len(Source(n, f))

\* The copy in the loop of handleConnection.
CopyBlock(n, f) ==
    /\ spc[n][f] = "copy"
    /\ SendBlock(n, f)
    /\ UNCHANGED <<writeComplete, spc, doneMsgs, tcp, serverOthers>>

CopyReturns(n, f) ==
    /\ spc[n][f] = "copy"
    /\ CopyEnds(n, f)
    /\ spc' = [spc EXCEPT ![n][f] = "check"]
    /\ UNCHANGED <<writeComplete, doneMsgs, sent, tcp, serverOthers>>

\* Bug: the connection is closed as soon as the name is found, without the
\* copy that follows the loop.
CheckAndClose(n, f) ==
    /\ spc[n][f] = "check"
    /\ LET done == Name(n, f) \in writeComplete[srv[n][f]]
       IN  /\ spc' = [spc EXCEPT ![n][f] = IF done THEN "unmark" ELSE "copy"]
           /\ tcp' = [tcp EXCEPT ![n][f] = IF done /\ @ = "yes" THEN "eof" ELSE @]
    /\ UNCHANGED <<writeComplete, doneMsgs, sent, serverOthers>>

\* The check of writeComplete under the read lock; when the name is not there
\* the goroutine sleeps a second and copies again.
Check(n, f) ==
    /\ spc[n][f] = "check"
    /\ LET done == Name(n, f) \in writeComplete[srv[n][f]]
       IN  spc' = [spc EXCEPT ![n][f] = IF done THEN "final" ELSE "copy"]
    /\ UNCHANGED <<writeComplete, doneMsgs, sent, tcp, serverOthers>>

\* The last io.Copy, after the loop.
FinalBlock(n, f) ==
    /\ spc[n][f] = "final"
    /\ SendBlock(n, f)
    /\ UNCHANGED <<writeComplete, spc, doneMsgs, tcp, serverOthers>>

\* It returns, and the connection is closed.
FinalReturns(n, f) ==
    /\ spc[n][f] = "final"
    /\ CopyEnds(n, f)
    /\ tcp' = [tcp EXCEPT ![n][f] = IF @ = "yes" THEN "eof" ELSE @]
    /\ spc' = [spc EXCEPT ![n][f] = "unmark"]
    /\ UNCHANGED <<writeComplete, doneMsgs, sent, serverOthers>>

\* The name is removed from the map.
Unmark(n, f) ==
    /\ spc[n][f] = "unmark"
    /\ writeComplete' = [writeComplete EXCEPT ![srv[n][f]] = @ \ {Name(n, f)}]
    /\ spc' = [spc EXCEPT ![n][f] = "ended"]
    /\ UNCHANGED <<doneMsgs, sent, tcp, serverOthers>>

-----------------------------------------------------------------------------
\* A connection of server s whose goroutine is in the given state.
At(s, state) ==
    \E n \in Nodes, f \in Files : srv[n][f] = s /\ spc[n][f] = state

\* The map is read without its lock by the handler's test for the name and by
\* the message of a goroutine that goes on waiting, and written by the handler
\* and by a goroutine that removes a name.
MapRace(s) ==
    LET waits == \E n \in Nodes, f \in Files :
                    /\ srv[n][f] = s /\ spc[n][f] = "check"
                    /\ Name(n, f) \notin writeComplete[s]
        handles == doneMsgs[s] # <<>>
    IN  \/ At(s, "unmark") /\ (waits \/ handles)
        \/ waits /\ handles

\* The Go runtime may stop the process when it meets such a race; the
\* container is then started again with an empty map.  The connections it
\* served are reset, the lines in its socket are lost, and the driver, which
\* connects only when it starts, has no reader for the next ones.
ServerCrash(s) ==
    /\ Fault
    /\ MapRace(s)
    /\ writeComplete' = [writeComplete EXCEPT ![s] = {}]
    /\ doneMsgs' = [doneMsgs EXCEPT ![s] = <<>>]
    /\ serverFd' = [serverFd EXCEPT ![s] = FALSE]
    /\ spc' = [n \in Nodes |-> [f \in Files |->
                  IF srv[n][f] = s THEN "ended" ELSE spc[n][f]]]
    /\ tcp' = [n \in Nodes |-> [f \in Files |->
                  IF srv[n][f] = s /\ tcp[n][f] \in {"request", "yes"}
                  THEN "reset" ELSE tcp[n][f]]]
    /\ UNCHANGED <<fsVars, idVars, sock, reqs, req, srv, sent>>

ConnectionStep(n, f) ==
    \/ Accept(n, f) \/ CopyBlock(n, f) \/ CopyReturns(n, f) \/ Check(n, f)
    \/ FinalBlock(n, f) \/ FinalReturns(n, f) \/ Unmark(n, f)
=============================================================================
