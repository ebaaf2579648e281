---------------------------- MODULE F3Inductive ----------------------------
(***************************************************************************)
(* The inductive invariant of F3System: what holds between the driver that *)
(* creates a file, the requests for it, its streams, its copies and its    *)
(* readers in every state, and makes the properties of F3System hold.      *)
(***************************************************************************)
EXTENDS F3System

Creating == {"create_id", "create_servers", "create_path"}

\* The attributes are set only by the node that creates the file, after the
\* file exists under its idroot; and the inode of the file on that node does
\* not need a download once they are set.
CreateInv ==
    /\ \A n \in Nodes :
          /\ op[n] # "idle" => cur[n] \in Files
          /\ op[n] \in Creating => n = Writer[cur[n]] /\ cur[n] \in fsFiles
          /\ op[n] \in {"create_servers", "create_path"} => cur[n] \in placed[n]
          /\ op[n] = "create_path" => xServers[cur[n]] = n
    /\ \A f \in Files :
          /\ xServers[f] # NoNode => /\ xServers[f] = Writer[f]
                                     /\ f \in placed[Writer[f]]
          /\ f \in xPath => xServers[f] # NoNode
          /\ f \in needsDownload[Writer[f]] =>
                /\ xServers[f] = NoNode /\ f \in fsFiles
                /\ op[Writer[f]] \in Creating => cur[Writer[f]] # f

\* A request names the writer of the file, and does not come from there.
GoodRequest(n, f, r) ==
    /\ r.server # NoNode => r.server = Writer[f] /\ n # Writer[f]
    /\ r.path => r.server # NoNode

RequestInv ==
    \A n \in Nodes, f \in Files :
        /\ \A r \in reqs[n][f] : GoodRequest(n, f, r)
        /\ GoodRequest(n, f, req[n][f])

\* How far client and server of a connection are agrees with its state.
ConnInv ==
    \A n \in Nodes, f \in Files :
        /\ hpc[n][f] \in {"idle", "lock", "dial"} => srv[n][f] = NoNode
        /\ srv[n][f] # NoNode => srv[n][f] = req[n][f].server
        /\ srv[n][f] = NoNode =>
              tcp[n][f] = "none" /\ spc[n][f] = "none" /\ sent[n][f] = <<>>
        /\ hpc[n][f] \in {"copy", "done"} => req[n][f].path
        /\ hpc[n][f] = "done" =>
              tcp[n][f] = "eof" /\ rcvd[n][f] = Len(sent[n][f])
        /\ sock[n][f] = "acked" => hpc[n][f] = "done"

\* A copy is what was received, and was sent before; what was sent is in the
\* file.
DataInv ==
    \A n \in Nodes, f \in Files :
        /\ n # Writer[f] => /\ rcvd[n][f] = Len(idFile[n][f])
                            /\ Prefix(idFile[n][f], sent[n][f])
        /\ f \in writeOnce => Prefix(sent[n][f], idFile[Writer[f]][f])

\* The server's map and socket hold only files whose driver sent a line; a
\* stream that is closing had its file in the map, one that is closed carries
\* all of the file.
DoneInv ==
    /\ \A f \in Files :
          /\ f \in writeComplete[Writer[f]] => f \in doneSent
          /\ \A i \in 1..Len(doneMsgs[Writer[f]]) :
                doneMsgs[Writer[f]][i] = f => f \in doneSent
    /\ \A n \in Nodes, f \in Files : req[n][f].path =>
          /\ spc[n][f] = "final" => f \in doneSent
          /\ tcp[n][f] = "eof" =>
                /\ f \in doneSent
                /\ f \in writeOnce => Len(sent[n][f]) = Len(idFile[Writer[f]][f])

\* A reader has seen an initial part of the file under the idroot of its node.
SeenInv ==
    \A n \in Nodes, f \in writeOnce : Prefix(seen[n][f], idFile[n][f])

\* Until a file is opened for writing it is empty; while its first writer has
\* it open, the inode knows its length and no size is published.
SizeInv ==
    \A f \in Files : LET m == Writer[f] IN
        /\ sess[f] = 0 => /\ idFile[m][f] = <<>> /\ size[m][f] = 0
                          /\ xSize[f] = 0 /\ wopen[f] = 0
        /\ sess[f] = 1 /\ wopen[f] # 0 =>
              wopen[f] = 1 /\ xSize[f] = 0 /\ size[m][f] = Len(idFile[m][f])
        /\ sess[f] = 1 /\ xSize[f] # 0 => xSize[f] = Len(idFile[m][f])

\* The inductive invariant.
IInv == /\ TypeOK /\ CreateInv /\ RequestInv /\ ConnInv
        /\ DataInv /\ DoneInv /\ SeenInv /\ SizeInv

-----------------------------------------------------------------------------
\* The workload FileStream is about: each file is written once, front to back, by a pod on a
\* node without readers.
WrittenOnce ==
    InOrder /\ MaxSessions = 1 /\ \A f \in Files : Writer[f] \notin Readers[f]

\* Then a file is opened for writing at most once, and not any more when its server has been told
\* of it, so all of them are only appended to; and a connection is made only for a file that is
\* put under idroot for it.
OnceInv ==
    /\ writeOnce = Files
    /\ \A n \in Nodes : /\ \A f \in ropen[n] : n \in Readers[f]
                        /\ inodes[n] \subseteq fsFiles
                        /\ op[n] \in Creating => sess[cur[n]] = 0
    /\ \A f \in Files : /\ f \notin fsFiles => sess[f] = 0
                        /\ sess[f] <= 1
                        /\ f \in doneSent => wopen[f] = 0 /\ sess[f] = 1
    /\ \A n \in Nodes, f \in Files : sock[n][f] # "none" => f \in placed[n]
=============================================================================
