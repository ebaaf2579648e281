------------------------------- MODULE F3Base -------------------------------
(***************************************************************************)
(* The media through which the processes of an F3 cluster share data: the  *)
(* source file system every node mounts, the local cache (idroot) of each  *)
(* node, the Unix sockets between a node's FUSE driver and its transfer    *)
(* client and server, and the TCP connections between clients and servers. *)
(*                                                                         *)
(* Files are the names of intermediate-data ("ID") files.  The content of  *)
(* a file is a sequence of blocks; a block is a number that tells apart    *)
(* the session and the place it was written at, 0 for a hole.  A pair      *)
(* <<n, f>> identifies the inode of file f in the driver of node n, and    *)
(* also the only download of f node n ever starts: a driver connects to    *)
(* its client once per inode.                                              *)
(***************************************************************************)
EXTENDS Integers, Sequences

CONSTANTS
    Nodes,        \* the nodes of the cluster, each with driver, client, server
    Files,        \* the ID files
    Writer,       \* Writer[f]: the node whose pods create and write f
    Readers,      \* Readers[f]: the nodes whose pods read f
    NoNode,       \* an unset user.f3.servers attribute
    NoPath,       \* an unset user.f3.filepath attribute: the empty name
    MaxLen,       \* bound: blocks in a file
    MaxSessions,  \* bound: times a file is opened for writing
    MaxQueue,     \* bound: lines waiting in the driver's socket to its server
    MaxFaults,    \* bound: crashes, kills and failed calls in a behaviour
    ReadTimeout,  \* times sfs_read polls before it gives up (24 in the code)
    ReadMax,      \* bound: blocks asked for in one read
    InOrder,      \* workload: applications write front to back
    OtherFiles    \* workload: applications also close files that are not ID

ASSUME BaseAssumption ==
    /\ Writer \in [Files -> Nodes]
    /\ Readers \in [Files -> SUBSET Nodes]
    /\ NoNode \notin Nodes
    /\ NoPath \notin Files
    /\ MaxLen \in Nat /\ MaxSessions \in Nat \ {0} /\ MaxQueue \in Nat \ {0}
    /\ MaxFaults \in Nat /\ ReadTimeout \in Nat /\ ReadMax \in Nat
    /\ InOrder \in BOOLEAN /\ OtherFiles \in BOOLEAN

VARIABLES
    fsFiles,   \* the files that exist in the source file system
    xServers,  \* xServers[f]: its user.f3.servers attribute
    xPath,     \* the files whose user.f3.filepath attribute is set
    xSize,     \* xSize[f]: its user.f3.size attribute, 0 when unset
    placed,    \* placed[n]: the files that exist under node n's idroot
    idFile,    \* idFile[n][f]: the content of f under node n's idroot
    doneMsgs,  \* doneMsgs[n]: lines in the driver's socket to its server
    serverFd,  \* serverFd[n]: that socket has a reader
    sock,      \* sock[n][f]: the inode's connection to the transfer client
    reqs,      \* reqs[n][f]: the request lines written on that connection
    req,       \* req[n][f]: the request the client took from that connection
    tcp,       \* tcp[n][f]: the TCP connection of the download
    srv,       \* srv[n][f]: the node at the other end of it
    sent,      \* sent[n][f]: all the blocks the server put in it
    faults     \* crashes, kills and failed calls so far

fsVars  == <<fsFiles, xServers, xPath, xSize>>
idVars  == <<placed, idFile>>
udsVars == <<doneMsgs, serverFd, sock, reqs, req>>
tcpVars == <<tcp, srv, sent>>

Contents == Seq(Nat)

\* "path,0,servers": whether the path was known, and the server named.
Requests == [path : BOOLEAN, server : Nodes \cup {NoNode}]

\* The name the client sends over TCP, and the server looks for.
Name(n, f) == IF req[n][f].path THEN f ELSE NoPath

\* "acked": "A,0" was written and the connection closed; "naked": "N" was
\* written and the connection left open; "closed": closed with no answer.
SockStates == {"none", "open", "acked", "naked", "closed"}

\* "request": connected, name sent; "yes", "no": the server's answer;
\* "eof": the server closed it; "reset": the server died; "gone": the client
\* closed it or died.
TcpStates == {"none", "request", "yes", "no", "eof", "reset", "gone"}

BaseTypeOK ==
    /\ fsFiles \subseteq Files
    /\ xServers \in [Files -> Nodes \cup {NoNode}]
    /\ xPath \subseteq Files
    /\ xSize \in [Files -> Nat]
    /\ placed \in [Nodes -> SUBSET Files]
    /\ idFile \in [Nodes -> [Files -> Contents]]
    /\ doneMsgs \in [Nodes -> Seq(Files \cup {NoPath})]
    /\ serverFd \in [Nodes -> BOOLEAN]
    /\ sock \in [Nodes -> [Files -> SockStates]]
    /\ reqs \in [Nodes -> [Files -> SUBSET Requests]]
    /\ req \in [Nodes -> [Files -> Requests]]
    /\ tcp \in [Nodes -> [Files -> TcpStates]]
    /\ srv \in [Nodes -> [Files -> Nodes \cup {NoNode}]]
    /\ sent \in [Nodes -> [Files -> Contents]]
    /\ faults \in Nat

BaseInit ==
    /\ fsFiles = {}
    /\ xServers = [f \in Files |-> NoNode]
    /\ xPath = {}
    /\ xSize = [f \in Files |-> 0]
    /\ placed = [n \in Nodes |-> {}]
    /\ idFile = [n \in Nodes |-> [f \in Files |-> <<>>]]
    /\ doneMsgs = [n \in Nodes |-> <<>>]
    /\ serverFd = [n \in Nodes |-> TRUE]
    /\ sock = [n \in Nodes |-> [f \in Files |-> "none"]]
    /\ reqs = [n \in Nodes |-> [f \in Files |-> {}]]
    /\ req = [n \in Nodes |-> [f \in Files |-> [path |-> FALSE, server |-> NoNode]]]
    /\ tcp = [n \in Nodes |-> [f \in Files |-> "none"]]
    /\ srv = [n \in Nodes |-> [f \in Files |-> NoNode]]
    /\ sent = [n \in Nodes |-> [f \in Files |-> <<>>]]
    /\ faults = 0

\* A step in which the environment or the machine lets a call fail.
Fault == faults < MaxFaults /\ faults' = faults + 1

\* s is an initial part of t.
Prefix(s, t) == Len(s) <= Len(t) /\ \A i \in 1..Len(s) : s[i] = t[i]
=============================================================================
