---------------------------- MODULE F3TypeProofs ----------------------------
(***************************************************************************)
(* Facts the proofs about F3System share (on initial parts of contents, on *)
(* updates of the state of one download, and on what a step leaves alone), *)
(* and its type correctness, for any cluster, workload and bounds: one     *)
(* lemma per component, with one case per action of the component.         *)
(***************************************************************************)
EXTENDS F3Inductive, TLAPS, SequenceTheorems

USE BaseAssumption, Zenon
USE DEF fsVars, idVars, udsVars, tcpVars, serverVars, serverOthers,
        clientVars, clientOthers, handlerVars, inodeVars, handleVars, history,
        driverVars, baseVars, vars

\* Content is an initial part of itself.
LEMMA PrefixRefl == ASSUME NEW s \in Contents PROVE Prefix(s, s)
BY SMT DEF Prefix, Contents

\* What was received was sent, and what was sent is in the file.
LEMMA PrefixTrans ==
    ASSUME NEW s \in Contents, NEW t \in Contents, NEW u \in Contents,
           Prefix(s, t), Prefix(t, u)
    PROVE  Prefix(s, u)
BY SMT DEF Prefix, Contents

\* An initial part that is as long as the whole is the whole.
LEMMA PrefixEqual ==
    ASSUME NEW s \in Contents, NEW t \in Contents, Prefix(s, t), Len(t) <= Len(s)
    PROVE  s = t
<1>1. Len(s) \in Nat /\ Len(t) \in Nat
  BY LenProperties DEF Contents
<1>2. Len(s) <= Len(t) /\ \A i \in 1..Len(s) : s[i] = t[i]
  BY DEF Prefix
<1>3. Len(s) = Len(t)
  BY <1>1, <1>2, SMT
<1> QED
  BY <1>2, <1>3, SeqEqual DEF Contents

\* A write at the end of a file keeps what was sent of it an initial part.
LEMMA PrefixAppend ==
    ASSUME NEW s \in Contents, NEW t \in Contents, NEW b \in Nat, Prefix(s, t)
    PROVE  Prefix(s, Append(t, b))
BY AppendProperties, SMT DEF Prefix, Contents

\* The next block of a stream continues the part before it.
LEMMA PrefixNext ==
    ASSUME NEW s \in Contents, NEW t \in Contents, Prefix(s, t), Len(s) < Len(t)
    PROVE  Prefix(Append(s, t[Len(s) + 1]), t)
<1>1. Len(s) + 1 \in 1..Len(t) /\ t[Len(s) + 1] \in Nat
  BY SMT DEF Contents
<1>2. /\ Len(Append(s, t[Len(s) + 1])) = Len(s) + 1
      /\ \A i \in 1..Len(s) : Append(s, t[Len(s) + 1])[i] = s[i]
      /\ Append(s, t[Len(s) + 1])[Len(s) + 1] = t[Len(s) + 1]
  BY <1>1, AppendProperties, SMT DEF Contents
<1> QED
  BY <1>2, SMT DEF Prefix, Contents

\* Nothing is an initial part of every content.
LEMMA PrefixEmpty == ASSUME NEW t \in Contents PROVE Prefix(<<>>, t)
BY SMT DEF Prefix, Contents

\* What a reader is given next continues what it was given so far.
LEMMA PrefixMore ==
    ASSUME NEW s \in Contents, NEW t \in Contents, Prefix(s, t),
           NEW last \in Nat, Len(s) <= last, last <= Len(t)
    PROVE  Prefix(s \o SubSeq(t, Len(s) + 1, last), t)
<1> DEFINE u == SubSeq(t, Len(s) + 1, last)
<1>1. Len(s) \in Nat /\ Len(t) \in Nat /\ \A i \in (Len(s) + 1)..last : t[i] \in Nat
  BY SMT DEF Contents
<1>2. /\ u \in Seq(Nat) /\ Len(u) = last - Len(s)
      /\ \A i \in 1..(last - Len(s)) : u[i] = t[Len(s) + i]
  <2>1. /\ u \in Seq(Nat)
        /\ Len(u) = IF Len(s) + 1 <= last THEN last - (Len(s) + 1) + 1 ELSE 0
        /\ \A i \in 1..(last - (Len(s) + 1) + 1) : u[i] = t[(Len(s) + 1) + i - 1]
    BY <1>1, SubSeqProperties, SMT
  <2> HIDE DEF u
  <2> QED BY <1>1, <2>1, SMT
<1> HIDE DEF u
<1>3. /\ Len(s \o u) = last
      /\ \A i \in 1..last : (s \o u)[i] = IF i <= Len(s) THEN s[i] ELSE u[i - Len(s)]
  BY <1>1, <1>2, ConcatProperties, SMT DEF Contents
<1> QED
  BY <1>1, <1>2, <1>3, SMT DEF Prefix, u

\* The content after a write is a content.
LEMMA WriteAtType ==
    ASSUME NEW c \in Contents, NEW off \in Nat, NEW b \in Nat
    PROVE  /\ WriteAt(c, off, b) \in Contents
           /\ Len(WriteAt(c, off, b)) = larger(Len(c), off + 1)
<1>1. larger(Len(c), off + 1) \in Nat
  BY SMT DEF larger, Contents
<1>2. \A i \in 1..larger(Len(c), off + 1) : i <= Len(c) => c[i] \in Nat
  BY <1>1, SMT DEF Contents
<1>3. WriteAt(c, off, b) \in [1..larger(Len(c), off + 1) -> Nat]
  BY <1>1, <1>2 DEF WriteAt
<1> QED
  BY <1>1, <1>3, SMT DEF Contents

\* An assignment to the entry of one download changes no other.
LEMMA Update ==
    ASSUME NEW S, NEW x \in [Nodes -> [Files -> S]], NEW n \in Nodes,
           NEW f \in Files, NEW v
    PROVE  \A m \in Nodes, g \in Files :
              [x EXCEPT ![n][f] = v][m][g] = IF m = n /\ g = f THEN v ELSE x[m][g]
OBVIOUS

\* An assignment to the entry of one node or file changes no other.
LEMMA UpdateOne ==
    ASSUME NEW D, NEW R, NEW x \in [D -> R], NEW d \in D, NEW v
    PROVE  \A e \in D : [x EXCEPT ![d] = v][e] = IF e = d THEN v ELSE x[e]
OBVIOUS

\* Goto sets the request in progress of one driver.
LEMMA GotoSets ==
    ASSUME TypeOK, NEW n \in Nodes, NEW o, NEW f, Goto(n, o, f)
    PROVE  \A m \in Nodes : /\ op'[m] = IF m = n THEN o ELSE op[m]
                            /\ cur'[m] = IF m = n THEN f ELSE cur[m]
BY SMT DEF Goto, TypeOK, DriverTypeOK

-----------------------------------------------------------------------------
\* What a step leaves alone, a conjunct of IInv that is about it keeps.

\* A step of no driver's create, lookup or read keeps CreateInv.
LEMMA CreateFrame ==
    CreateInv /\ UNCHANGED <<op, cur, fsFiles, xServers, xPath, placed, needsDownload>>
        => CreateInv'
BY DEF CreateInv, Creating

\* A step that sends and takes no request keeps RequestInv.
LEMMA RequestFrame == RequestInv /\ UNCHANGED <<reqs, req>> => RequestInv'
BY SMT DEF RequestInv, GoodRequest

\* A step of neither end of a connection keeps ConnInv.
LEMMA ConnFrame ==
    ConnInv /\ UNCHANGED <<hpc, srv, req, tcp, spc, sent, rcvd, sock>> => ConnInv'
BY SMT DEF ConnInv

\* A step that moves and writes no block keeps DataInv.
LEMMA DataFrame ==
    DataInv /\ UNCHANGED <<rcvd, idFile, sent, writeOnce>> => DataInv'
BY Zenon DEF DataInv

\* A step that sends, reads and uses no done line keeps DoneInv.
LEMMA DoneFrame ==
    DoneInv /\ UNCHANGED <<writeComplete, doneSent, doneMsgs, req, spc, tcp, sent,
                           idFile, writeOnce>> => DoneInv'
BY DEF DoneInv

\* A step that gives no reader data and writes no block keeps SeenInv.
LEMMA SeenFrame == SeenInv /\ UNCHANGED <<seen, idFile, writeOnce>> => SeenInv'
BY SMT DEF SeenInv, Prefix

\* A step that opens, writes and closes no file keeps SizeInv.
LEMMA SizeFrame ==
    SizeInv /\ UNCHANGED <<sess, idFile, size, xSize, wopen>> => SizeInv'
BY DEF SizeInv

-----------------------------------------------------------------------------
\* Type correctness.

\* The initial state of the four components is of the right type.
LEMMA InitTypes == Init => TypeOK
<1> SUFFICES ASSUME Init PROVE TypeOK
  OBVIOUS
<1>1. <<>> \in Contents /\ <<>> \in Seq(Files \cup {NoPath})
  BY SMT DEF Contents
<1>2. [path |-> FALSE, server |-> NoNode] \in Requests
  BY DEF Requests
<1>3. BaseTypeOK
  BY <1>1, <1>2 DEF Init, BaseInit, BaseTypeOK, SockStates, TcpStates
<1>4. ServerTypeOK
  BY DEF Init, ServerInit, ServerTypeOK, ServerStates
<1>5. ClientTypeOK
  BY DEF Init, ClientInit, ClientTypeOK, ClientStates
<1>6. DriverTypeOK
  BY <1>1 DEF Init, DriverInit, DriverTypeOK, Ops
<1> QED
  BY <1>3, <1>4, <1>5, <1>6 DEF TypeOK

\* A step of a handler of the transfer client keeps all types: it changes the
\* client's own state, the copy, and its ends of the two connections.
LEMMA ClientTypes ==
    ASSUME TypeOK, NEW n \in Nodes, NEW f \in Files,
           HandlerStep(n, f) \/ DialFails(n, f),
           UNCHANGED <<serverVars, driverVars>>
    PROVE  TypeOK'
<1>1. BaseTypeOK /\ ClientTypeOK
  BY DEF TypeOK
<1>2. ServerTypeOK' /\ DriverTypeOK'
  BY DEF TypeOK, ServerTypeOK, DriverTypeOK
<1> SUFFICES BaseTypeOK' /\ ClientTypeOK'
  BY <1>2 DEF TypeOK
<1>3. ASSUME Refuse(n, f)
      PROVE  /\ sock' \in [Nodes -> [Files -> SockStates]]
             /\ hpc' \in [Nodes -> [Files -> ClientStates]]
  BY <1>1, <1>3, SMT DEF Refuse, BaseTypeOK, ClientTypeOK, SockStates, ClientStates
<1>4. CASE TakeRequest(n, f)
  <2>1. req' \in [Nodes -> [Files -> Requests]]
    BY <1>1, <1>4, SMT DEF TakeRequest, BaseTypeOK
  <2>2. ClientTypeOK'
    BY <1>1, <1>4 DEF TakeRequest, ClientTypeOK, ClientStates
  <2> QED BY <1>1, <1>4, <2>1, <2>2 DEF TakeRequest, BaseTypeOK
<1>5. CASE Lock(n, f)
  BY <1>1, <1>5 DEF Lock, BaseTypeOK, ClientTypeOK, ClientStates
<1>6. CASE Dial(n, f)
  <2>1. /\ srv' \in [Nodes -> [Files -> Nodes \cup {NoNode}]]
        /\ tcp' \in [Nodes -> [Files -> TcpStates]]
    BY <1>1, <1>6, SMT DEF Dial, BaseTypeOK, Requests, TcpStates
  <2>2. ClientTypeOK'
    BY <1>1, <1>6 DEF Dial, ClientTypeOK, ClientStates
  <2> QED BY <1>1, <1>6, <2>1, <2>2 DEF Dial, BaseTypeOK
<1>7. CASE DialFails(n, f)
  BY <1>1, <1>3, <1>7, SMT DEF DialFails, Fault, BaseTypeOK, ClientTypeOK
<1>8. CASE Panic(n, f)
  <2>1. /\ sock' \in [Nodes -> [Files -> SockStates]]
        /\ tcp' \in [Nodes -> [Files -> TcpStates]]
    BY <1>1, <1>8, SMT DEF Panic, BaseTypeOK, SockStates, TcpStates
  <2>2. hpc' \in [Nodes -> [Files -> ClientStates]]
    BY <1>1, <1>8 DEF Panic, ClientTypeOK, ClientStates
  <2> QED BY <1>1, <1>8, <2>1, <2>2 DEF Panic, BaseTypeOK, ClientTypeOK
<1>9. CASE AckYes(n, f)
  <2>1. CASE req[n][f].path
    <3>1. /\ files' = [files EXCEPT ![n] = files[n] \cup {f}]
          /\ hpc' = [hpc EXCEPT ![n][f] = "copy"]
          /\ sock' = sock
      BY <1>9, <2>1, Zenon DEF AckYes
    <3>2. ClientTypeOK'
      BY <1>1, <1>9, <3>1 DEF AckYes, ClientTypeOK, ClientStates
    <3> QED BY <1>1, <1>9, <3>1, <3>2 DEF AckYes, BaseTypeOK
  <2>2. CASE ~req[n][f].path
    BY <1>1, <1>3, <1>9, <2>2 DEF AckYes, BaseTypeOK, ClientTypeOK
  <2> QED BY <2>1, <2>2
<1>10. CASE AckNo(n, f)
  <2>1. tcp' \in [Nodes -> [Files -> TcpStates]]
    BY <1>1, <1>10 DEF AckNo, BaseTypeOK, TcpStates
  <2> QED BY <1>1, <1>3, <1>10, <2>1 DEF AckNo, BaseTypeOK, ClientTypeOK
<1>11. CASE Receive(n, f)
  <2>1. sent[n][f] \in Seq(Nat) /\ idFile[n][f] \in Seq(Nat) /\ rcvd[n][f] \in Nat
    BY <1>1, SMT DEF BaseTypeOK, ClientTypeOK, Contents
  <2>2. sent[n][f][rcvd[n][f] + 1] \in Nat
    <3>1. rcvd[n][f] + 1 \in 1..Len(sent[n][f])
      <4>1. rcvd[n][f] < Len(sent[n][f])
        BY <1>11 DEF Receive
      <4> QED BY <2>1, <4>1, SMT
    <3> QED BY <2>1, <3>1, ElementOfSeq
  <2>3. Append(idFile[n][f], sent[n][f][rcvd[n][f] + 1]) \in Contents
    BY <2>1, <2>2, SMT DEF Contents
  <2>4. idFile' \in [Nodes -> [Files -> Contents]]
    BY <1>1, <1>11, <2>3 DEF Receive, BaseTypeOK
  <2>5. rcvd' \in [Nodes -> [Files -> Nat]]
    <3>1. rcvd \in [Nodes -> [Files -> Nat]] /\ rcvd' = [rcvd EXCEPT ![n][f] = rcvd[n][f] + 1]
      BY <1>1, <1>11 DEF ClientTypeOK, Receive
    <3> QED BY <2>1, <3>1, SMT
  <2> QED BY <1>1, <1>11, <2>4, <2>5 DEF Receive, BaseTypeOK, ClientTypeOK
<1>12. CASE ReceiveEof(n, f)
  BY <1>1, <1>12, SMT DEF ReceiveEof, BaseTypeOK, ClientTypeOK, SockStates, ClientStates
<1>13. CASE ReceiveError(n, f)
  BY <1>1, <1>13, SMT DEF ReceiveError, BaseTypeOK, ClientTypeOK, SockStates, ClientStates
<1> QED
  BY <1>4, <1>5, <1>6, <1>7, <1>8, <1>9, <1>10, <1>11, <1>12, <1>13 DEF HandlerStep

\* A block sent is a block of the file, so what was sent stays a content.
LEMMA SendTypes ==
    ASSUME TypeOK, NEW n \in Nodes, NEW f \in Files, SendBlock(n, f), srv[n][f] # NoNode
    PROVE  sent' \in [Nodes -> [Files -> Contents]]
<1> DEFINE b == Source(n, f)[Len(sent[n][f]) + 1]
<1>1. sent[n][f] \in Seq(Nat)
  BY SMT DEF TypeOK, BaseTypeOK, Contents
<1>2. Source(n, f) \in Seq(Nat)
  <2>1. srv[n][f] \in Nodes
    BY SMT DEF TypeOK, BaseTypeOK
  <2>2. idFile[srv[n][f]][f] \in Seq(Nat)
    BY <2>1, SMT DEF TypeOK, BaseTypeOK, Contents
  <2> QED BY <2>2, SMT DEF Source
<1>3. b \in Nat
  <2>1. Len(sent[n][f]) + 1 \in 1..Len(Source(n, f))
    BY <1>1, <1>2, SMT DEF SendBlock
  <2> QED BY <1>2, <2>1, SMT
<1>4. Append(sent[n][f], b) \in Contents
  BY <1>1, <1>3, SMT DEF Contents
<1> QED
  BY <1>4 DEF SendBlock, TypeOK, BaseTypeOK

\* A step of a connection of the transfer server keeps all types.
LEMMA ConnectionTypes ==
    ASSUME TypeOK, NEW n \in Nodes, NEW f \in Files, ConnectionStep(n, f),
           srv[n][f] = NoNode => spc[n][f] = "none",
           UNCHANGED <<clientVars, driverVars>>
    PROVE  TypeOK'
<1>1. BaseTypeOK /\ ServerTypeOK
  BY DEF TypeOK
<1>2. ClientTypeOK' /\ DriverTypeOK'
  BY DEF TypeOK, ClientTypeOK, DriverTypeOK
<1> SUFFICES BaseTypeOK' /\ ServerTypeOK'
  BY <1>2 DEF TypeOK
<1>3. CASE Accept(n, f)
  <2>1. tcp' \in [Nodes -> [Files -> TcpStates]]
    BY <1>1, <1>3, SMT DEF Accept, BaseTypeOK, TcpStates
  <2>2. ServerTypeOK'
    BY <1>1, <1>3 DEF Accept, ServerTypeOK, ServerStates
  <2> QED BY <1>1, <1>3, <2>1, <2>2 DEF Accept, BaseTypeOK
<1>4. CASE CopyBlock(n, f) \/ FinalBlock(n, f)
  <2>1. SendBlock(n, f) /\ srv[n][f] # NoNode
    BY <1>4 DEF CopyBlock, FinalBlock
  <2>2. sent' \in [Nodes -> [Files -> Contents]]
    BY <2>1, SendTypes
  <2> QED BY <1>1, <1>4, <2>2 DEF CopyBlock, FinalBlock, BaseTypeOK, ServerTypeOK
<1>5. CASE CopyReturns(n, f)
  BY <1>1, <1>5 DEF CopyReturns, BaseTypeOK, ServerTypeOK, ServerStates
<1>6. CASE Check(n, f)
  BY <1>1, <1>6 DEF Check, BaseTypeOK, ServerTypeOK, ServerStates
<1>7. CASE FinalReturns(n, f)
  <2>1. tcp' \in [Nodes -> [Files -> TcpStates]]
    BY <1>1, <1>7, SMT DEF FinalReturns, BaseTypeOK, TcpStates
  <2>2. ServerTypeOK'
    BY <1>1, <1>7 DEF FinalReturns, ServerTypeOK, ServerStates
  <2> QED BY <1>1, <1>7, <2>1, <2>2 DEF FinalReturns, BaseTypeOK
<1>8. CASE Unmark(n, f)
  BY <1>1, <1>8 DEF Unmark, BaseTypeOK, ServerTypeOK, ServerStates
<1> QED
  BY <1>3, <1>4, <1>5, <1>6, <1>7, <1>8 DEF ConnectionStep

\* A step of the goroutine that reads done lines, or a crash of the server,
\* keeps all types.
LEMMA ServerTypes ==
    ASSUME TypeOK, NEW s \in Nodes, HandleDone(s) \/ ServerCrash(s),
           UNCHANGED <<clientVars, driverVars>>
    PROVE  TypeOK'
<1>1. BaseTypeOK /\ ServerTypeOK
  BY DEF TypeOK
<1>2. ClientTypeOK' /\ DriverTypeOK'
  BY DEF TypeOK, ClientTypeOK, DriverTypeOK
<1> SUFFICES BaseTypeOK' /\ ServerTypeOK'
  BY <1>2 DEF TypeOK
<1>3. doneMsgs[s] \in Seq(Files \cup {NoPath})
  BY <1>1 DEF BaseTypeOK
<1>4. CASE HandleDone(s)
  <2>1. PICK k \in 1..Len(doneMsgs[s]) :
           doneMsgs' = [doneMsgs EXCEPT ![s] = SubSeq(@, k + 1, Len(@))]
    BY <1>4 DEF HandleDone
  <2>2. SubSeq(doneMsgs[s], k + 1, Len(doneMsgs[s])) \in Seq(Files \cup {NoPath})
    BY <1>3, SMT
  <2>3. doneMsgs' \in [Nodes -> Seq(Files \cup {NoPath})]
    BY <1>1, <2>1, <2>2 DEF BaseTypeOK
  <2>4. Head(doneMsgs[s]) \in Files \cup {NoPath}
    BY <1>3, <1>4, SMT DEF HandleDone
  <2> QED BY <1>1, <1>4, <2>3, <2>4, SMT DEF HandleDone, BaseTypeOK, ServerTypeOK
<1>5. CASE ServerCrash(s)
  <2>1. /\ tcp' \in [Nodes -> [Files -> TcpStates]]
        /\ doneMsgs' \in [Nodes -> Seq(Files \cup {NoPath})]
    BY <1>1, <1>5, SMT DEF ServerCrash, BaseTypeOK, TcpStates
  <2>2. ServerTypeOK'
    BY <1>1, <1>5 DEF ServerCrash, ServerTypeOK, ServerStates
  <2> QED BY <1>1, <1>5, <2>1, <2>2, SMT DEF ServerCrash, Fault, BaseTypeOK
<1> QED
  BY <1>4, <1>5

\* A changed file keeps the types of the files and of the history.
LEMMA RewriteTypes ==
    ASSUME TypeOK, NEW n \in Nodes, NEW f \in Files, NEW c \in Contents,
           Rewrite(n, f, c)
    PROVE  idFile' \in [Nodes -> [Files -> Contents]] /\ writeOnce' \subseteq Files
BY DEF Rewrite, TypeOK, BaseTypeOK, DriverTypeOK

\* A line to the server keeps the types of the socket and of the history.
LEMMA SendDoneTypes ==
    ASSUME TypeOK, NEW n \in Nodes, NEW name \in Files \cup {NoPath},
           SendDone(n, name)
    PROVE  /\ doneMsgs' \in [Nodes -> Seq(Files \cup {NoPath})]
           /\ doneSent' \subseteq Files
<1>1. CASE serverFd[n]
  <2>1. /\ doneMsgs' = [doneMsgs EXCEPT ![n] = Append(doneMsgs[n], name)]
        /\ doneSent' = doneSent \cup {f \in Files : f = name /\ Writer[f] = n}
    BY <1>1, Zenon DEF SendDone
  <2>2. Append(doneMsgs[n], name) \in Seq(Files \cup {NoPath})
    BY SMT DEF TypeOK, BaseTypeOK
  <2> QED BY <2>1, <2>2 DEF TypeOK, BaseTypeOK, DriverTypeOK
<1>2. CASE ~serverFd[n]
  <2>1. UNCHANGED <<doneMsgs, doneSent>>
    BY <1>2, Zenon DEF SendDone
  <2> QED BY <2>1 DEF TypeOK, BaseTypeOK, DriverTypeOK
<1> QED
  BY <1>1, <1>2

\* What the kernel asks of a driver keeps all types.
LEMMA AppTypes ==
    ASSUME TypeOK, NEW n \in Nodes, AppStep(n),
           UNCHANGED <<serverVars, clientVars>>
    PROVE  TypeOK'
<1>1. BaseTypeOK /\ DriverTypeOK
  BY DEF TypeOK
<1>2. ServerTypeOK' /\ ClientTypeOK'
  BY DEF TypeOK, ServerTypeOK, ClientTypeOK
<1> SUFFICES BaseTypeOK' /\ DriverTypeOK'
  BY <1>2 DEF TypeOK
<1>3. ASSUME NEW f \in Files, Create(n, f) PROVE BaseTypeOK' /\ DriverTypeOK'
  <2>1. BaseTypeOK'
    BY <1>1, <1>3 DEF Create, BaseTypeOK
  <2> QED BY <1>1, <1>3, <2>1 DEF Create, Goto, DriverTypeOK, Ops
<1>4. ASSUME NEW f \in Files, Lookup(n, f) PROVE BaseTypeOK' /\ DriverTypeOK'
  <2>1. /\ placed' \in [Nodes -> SUBSET Files]
        /\ sock' \in [Nodes -> [Files -> SockStates]]
        /\ faults' \in Nat
        /\ needsDownload' \in [Nodes -> SUBSET Files]
    <3>1. CASE f \in placed[n]
      <4>1. placed' = [placed EXCEPT ![n] = placed[n] \cup {f}] /\ UNCHANGED <<sock, faults, needsDownload>>
        BY <1>4, <3>1 DEF Lookup
      <4>2. /\ placed \in [Nodes -> SUBSET Files] /\ sock \in [Nodes -> [Files -> SockStates]]
            /\ faults \in Nat /\ needsDownload \in [Nodes -> SUBSET Files]
        BY <1>1 DEF BaseTypeOK, DriverTypeOK
      <4> QED BY <4>1, <4>2
    <3>2. CASE f \notin placed[n]
      <4>1. /\ needsDownload' = [needsDownload EXCEPT ![n] = needsDownload[n] \cup {f}]
            /\ \/ sock' = [sock EXCEPT ![n][f] = "open"] /\ faults' = faults
               \/ sock' = [sock EXCEPT ![n][f] = "closed"] /\ Fault
        BY <1>4, <3>2, Zenon DEF Lookup
      <4>2. \A v \in SockStates :
               [sock EXCEPT ![n][f] = v] \in [Nodes -> [Files -> SockStates]]
        BY <1>1 DEF BaseTypeOK
      <4>3. sock' \in [Nodes -> [Files -> SockStates]]
        BY <4>1, <4>2, Zenon DEF SockStates
      <4>4. needsDownload' \in [Nodes -> SUBSET Files]
        BY <1>1, <4>1 DEF DriverTypeOK
      <4>5. faults' \in Nat
        BY <1>1, <4>1, SMT DEF Fault, BaseTypeOK
      <4>6. placed' \in [Nodes -> SUBSET Files]
        BY <1>1, <1>4 DEF Lookup, BaseTypeOK
      <4> QED BY <4>3, <4>4, <4>5, <4>6
    <3> QED BY <3>1, <3>2
  <2>2. inodes' \in [Nodes -> SUBSET Files]
    BY <1>1, <1>4 DEF Lookup, DriverTypeOK
  <2> QED BY <1>1, <1>4, <2>1, <2>2 DEF Lookup, BaseTypeOK, DriverTypeOK
<1>5. ASSUME NEW f \in Files, OpenRead(n, f) PROVE BaseTypeOK' /\ DriverTypeOK'
  <2>1. reqs' \in [Nodes -> [Files -> SUBSET Requests]]
    <3>1. [path |-> f \in xPath, server |-> xServers[f]] \in Requests
      BY <1>1, SMT DEF BaseTypeOK, Requests
    <3>2. CASE f \in needsDownload[n] /\ sock[n][f] = "open"
      <4>1. reqs' = [reqs EXCEPT ![n][f] = reqs[n][f] \cup
                        {[path |-> f \in xPath, server |-> xServers[f]]}]
        BY <1>5, <3>2, Zenon DEF OpenRead
      <4> QED BY <1>1, <3>1, <4>1, SMT DEF BaseTypeOK
    <3>3. CASE ~(f \in needsDownload[n] /\ sock[n][f] = "open")
      BY <1>1, <1>5, <3>3 DEF OpenRead, BaseTypeOK
    <3> QED BY <3>2, <3>3
  <2>2. /\ dl' \in [Nodes -> [Files -> {"none", "wait", "done"}]]
        /\ targetSize' \in [Nodes -> [Files -> Nat]]
    <3>1. CASE f \in needsDownload[n]
      <4>1. /\ dl' = [dl EXCEPT ![n][f] = IF dl[n][f] = "none" THEN "wait" ELSE dl[n][f]]
            /\ targetSize' = [targetSize EXCEPT ![n][f] = xSize[f]]
        BY <1>5, <3>1, Zenon DEF OpenRead
      <4>2. /\ dl \in [Nodes -> [Files -> {"none", "wait", "done"}]]
            /\ targetSize \in [Nodes -> [Files -> Nat]] /\ xSize \in [Files -> Nat]
        BY <1>1 DEF BaseTypeOK, DriverTypeOK
      <4> QED BY <4>1, <4>2, SMT
    <3>2. CASE f \notin needsDownload[n]
      BY <1>1, <1>5, <3>2 DEF OpenRead, DriverTypeOK
    <3> QED BY <3>1, <3>2
  <2>3. seen' \in [Nodes -> [Files -> Contents]] /\ ropen' \in [Nodes -> SUBSET Files]
    <3>1. seen \in [Nodes -> [Files -> Contents]] /\ ropen \in [Nodes -> SUBSET Files]
      BY <1>1 DEF DriverTypeOK
    <3>2. seen' = [seen EXCEPT ![n][f] = <<>>] /\ ropen' = [ropen EXCEPT ![n] = ropen[n] \cup {f}]
      BY <1>5 DEF OpenRead
    <3> QED BY <3>1, <3>2, SMT DEF Contents
  <2>4. BaseTypeOK'
    BY <1>1, <1>5, <2>1 DEF OpenRead, BaseTypeOK
  <2> QED BY <1>1, <1>5, <2>2, <2>3, <2>4 DEF OpenRead, DriverTypeOK
<1>6. ASSUME NEW f \in Files, ReleaseWrite(n, f) PROVE BaseTypeOK' /\ DriverTypeOK'
  <2>1. /\ doneMsgs' \in [Nodes -> Seq(Files \cup {NoPath})]
        /\ doneSent' \subseteq Files
    BY <1>6, SendDoneTypes DEF ReleaseWrite, DoneName
  <2>2. xSize' \in [Files -> Nat] /\ wopen' \in [Files -> Nat]
    BY <1>1, <1>6, SMT DEF ReleaseWrite, BaseTypeOK, DriverTypeOK
  <2> QED BY <1>1, <1>6, <2>1, <2>2 DEF ReleaseWrite, BaseTypeOK, DriverTypeOK
<1>7. ASSUME NEW f \in Files, ReleaseRead(n, f) PROVE BaseTypeOK' /\ DriverTypeOK'
  <2>1. /\ doneMsgs' \in [Nodes -> Seq(Files \cup {NoPath})]
        /\ doneSent' \subseteq Files
    <3>1. CASE f \in needsDownload[n]
      BY <1>1, <1>7, <3>1 DEF ReleaseRead, BaseTypeOK, DriverTypeOK
    <3>2. CASE f \notin needsDownload[n]
      BY <1>7, <3>2, SendDoneTypes DEF ReleaseRead, DoneName
    <3> QED BY <3>1, <3>2
  <2> QED BY <1>1, <1>7, <2>1 DEF ReleaseRead, BaseTypeOK, DriverTypeOK
<1>8. ASSUME NEW f \in Files, NEW trunc \in BOOLEAN, OpenWrite(n, f, trunc)
      PROVE  BaseTypeOK' /\ DriverTypeOK'
  <2>1. (IF trunc THEN <<>> ELSE idFile[n][f]) \in Contents
    BY <1>1, SMT DEF BaseTypeOK, Contents
  <2>2. idFile' \in [Nodes -> [Files -> Contents]] /\ writeOnce' \subseteq Files
    BY <1>8, <2>1, RewriteTypes DEF OpenWrite
  <2>3. wopen' \in [Files -> Nat] /\ sess' \in [Files -> Nat]
    <3>1. wopen \in [Files -> Nat] /\ sess \in [Files -> Nat]
      BY <1>1 DEF DriverTypeOK
    <3>2. wopen' = [wopen EXCEPT ![f] = wopen[f] + 1] /\ sess' = [sess EXCEPT ![f] = sess[f] + 1]
      BY <1>8 DEF OpenWrite
    <3> QED BY <3>1, <3>2, SMT
  <2>4. BaseTypeOK'
    BY <1>1, <1>8, <2>2 DEF OpenWrite, BaseTypeOK
  <2> QED BY <1>1, <1>8, <2>2, <2>3, <2>4 DEF OpenWrite, DriverTypeOK
<1>9. ASSUME NEW f \in Files, NEW off \in 0..(MaxLen - 1), WriteBuf(n, f, off)
      PROVE  BaseTypeOK' /\ DriverTypeOK'
  <2>1. sess[f] * MaxLen + off \in Nat /\ off \in Nat
    <3>1. sess[f] \in Nat /\ off \in Nat
      BY <1>1, SMT DEF DriverTypeOK
    <3>2. sess[f] * MaxLen \in Nat
      BY <3>1, SMT
    <3> QED BY <3>1, <3>2, SMT
  <2>2. WriteAt(idFile[n][f], off, sess[f] * MaxLen + off) \in Contents
    <3>1. idFile[n][f] \in Contents
      BY <1>1, SMT DEF BaseTypeOK
    <3> QED BY <2>1, <3>1, WriteAtType
  <2>3. idFile' \in [Nodes -> [Files -> Contents]] /\ writeOnce' \subseteq Files
    BY <1>9, <2>2, RewriteTypes DEF WriteBuf
  <2>4. size' \in [Nodes -> [Files -> Nat]]
    <3>1. size \in [Nodes -> [Files -> Nat]] /\ size' = [size EXCEPT ![n][f] = larger(size[n][f], off + 1)]
      BY <1>1, <1>9 DEF DriverTypeOK, WriteBuf
    <3> QED BY <2>1, <3>1, SMT DEF larger
  <2> QED BY <1>1, <1>9, <2>3, <2>4 DEF WriteBuf, BaseTypeOK, DriverTypeOK
<1>10. ASSUME NEW f \in Files, NEW k \in 1..ReadMax, Read(n, f, k)
       PROVE  BaseTypeOK' /\ DriverTypeOK'
  <2>1. BaseTypeOK'
    BY <1>1, <1>10 DEF Read, BaseTypeOK
  <2> QED BY <1>1, <1>10, <2>1, SMT DEF Read, Goto, DriverTypeOK, Ops
<1>11. CASE ReleaseOther(n)
  <2>1. /\ doneMsgs' \in [Nodes -> Seq(Files \cup {NoPath})]
        /\ doneSent' \subseteq Files
    BY <1>11, SendDoneTypes DEF ReleaseOther
  <2> QED BY <1>1, <1>11, <2>1 DEF ReleaseOther, BaseTypeOK, DriverTypeOK
<1> QED
  BY <1>3, <1>4, <1>5, <1>6, <1>7, <1>8, <1>9, <1>10, <1>11 DEF AppStep

\* The rest of a request, a download thread, a failing call and a kill keep
\* all types.
LEMMA DriverTypes ==
    ASSUME TypeOK, NEW n \in Nodes, CreateInv,
           \/ DriverStep(n) \/ CreateIdFails(n) \/ Kill(n)
           \/ \E f \in Files : DownloadDone(n, f),
           UNCHANGED <<serverVars, clientVars>>
    PROVE  TypeOK'
<1>1. BaseTypeOK /\ DriverTypeOK
  BY DEF TypeOK
<1>2. ServerTypeOK' /\ ClientTypeOK'
  BY DEF TypeOK, ServerTypeOK, ClientTypeOK
<1>3. op[n] # "idle" => cur[n] \in Files
  BY DEF CreateInv
<1> SUFFICES BaseTypeOK' /\ DriverTypeOK'
  BY <1>2 DEF TypeOK
<1>4. CASE CreateId(n)
  <2>1. BaseTypeOK'
    BY <1>1, <1>3, <1>4 DEF CreateId, BaseTypeOK
  <2> QED BY <1>1, <1>4, <2>1 DEF CreateId, Goto, DriverTypeOK, Ops
<1>5. CASE MarkServers(n)
  <2>1. BaseTypeOK'
    BY <1>1, <1>3, <1>5 DEF MarkServers, BaseTypeOK
  <2> QED BY <1>1, <1>5, <2>1 DEF MarkServers, Goto, DriverTypeOK, Ops
<1>6. CASE MarkPath(n)
  <2>1. BaseTypeOK'
    BY <1>1, <1>3, <1>6 DEF MarkPath, BaseTypeOK
  <2>2. /\ inodes' \in [Nodes -> SUBSET Files]
        /\ wopen' \in [Files -> Nat] /\ sess' \in [Files -> Nat]
    BY <1>1, <1>3, <1>6, SMT DEF MarkPath, DriverTypeOK
  <2>3. op' \in [Nodes -> Ops] /\ cur' \in [Nodes -> Files \cup {NoPath}]
    BY <1>1, <1>6 DEF MarkPath, Goto, DriverTypeOK, Ops
  <2> QED BY <1>1, <1>6, <2>1, <2>2, <2>3 DEF MarkPath, DriverTypeOK
<1>7. CASE ReadPoll(n)
  <2>1. BaseTypeOK'
    BY <1>1, <1>7 DEF ReadPoll, BaseTypeOK
  <2>2. rd[n] \in [size : Nat, left : Nat] /\ rd[n].left > 0
    BY <1>1, <1>7 DEF ReadPoll, ReadWaits, DriverTypeOK
  <2>3. rd' \in [Nodes -> [size : Nat, left : Nat]]
    <3>1. [rd[n] EXCEPT !.left = rd[n].left - 1] \in [size : Nat, left : Nat]
      BY <2>2, SMT
    <3>2. rd' = [rd EXCEPT ![n] = [rd[n] EXCEPT !.left = rd[n].left - 1]]
      BY <1>7 DEF ReadPoll
    <3> QED BY <1>1, <3>1, <3>2 DEF DriverTypeOK
  <2> QED BY <1>1, <1>7, <2>1, <2>3 DEF ReadPoll, DriverTypeOK
<1>8. CASE ReadReply(n)
  <2> DEFINE f == cur[n]
             from == Len(seen[n][f])
             to == from + rd[n].size
             have == Len(idFile[n][f])
             new == SubSeq(idFile[n][f], from + 1, IF to < have THEN to ELSE have)
  <2>1. BaseTypeOK'
    BY <1>1, <1>8 DEF ReadReply, BaseTypeOK
  <2>2. f \in Files
    BY <1>3, <1>8 DEF ReadReply
  <2>3. /\ seen[n][f] \in Seq(Nat) /\ idFile[n][f] \in Seq(Nat)
        /\ rd[n].size \in Nat
    BY <1>1, <2>2, SMT DEF BaseTypeOK, DriverTypeOK, Contents
  <2>4. new \in Seq(Nat)
    <3> DEFINE last == IF to < have THEN to ELSE have
    <3>0. from \in Nat /\ to \in Nat /\ have \in Nat
      <4>1. from \in Nat /\ have \in Nat
         BY <2>3, LenProperties
      <4>2. to \in Nat
         <5> HIDE DEF from
         <5> QED BY <2>3, <4>1, SMT
      <4> QED BY <4>1, <4>2
    <3>1. last \in Nat /\ last <= have
      <4> HIDE DEF to, have
      <4> QED BY <3>0, SMT
    <3>2. SubSeq(idFile[n][f], from + 1, last) \in Seq(Nat)
      <4> HIDE DEF last, from
      <4> QED BY <2>3, <3>0, <3>1, SubSeqProperties, SMT
    <3> QED BY <3>2
  <2>5. seen[n][f] \o new \in Contents
    BY <2>3, <2>4, SMT DEF Contents
  <2>6. seen' \in [Nodes -> [Files -> Contents]]
    BY <1>1, <1>8, <2>2, <2>5 DEF ReadReply, DriverTypeOK
  <2>7. op' \in [Nodes -> Ops] /\ cur' \in [Nodes -> Files \cup {NoPath}]
    BY <1>1, <1>8 DEF ReadReply, Goto, DriverTypeOK, Ops
  <2> QED BY <1>1, <1>8, <2>1, <2>6, <2>7 DEF ReadReply, DriverTypeOK
<1>9. CASE CreateIdFails(n)
  <2>1. BaseTypeOK'
    BY <1>1, <1>9, SMT DEF CreateIdFails, Fault, BaseTypeOK
  <2> QED BY <1>1, <1>9, <2>1 DEF CreateIdFails, Goto, DriverTypeOK, Ops
<1>10. CASE Kill(n)
  <2>1. BaseTypeOK'
    BY <1>1, <1>10, SMT DEF Kill, Fault, BaseTypeOK
  <2>2. op' \in [Nodes -> Ops] /\ cur' \in [Nodes -> Files \cup {NoPath}]
    BY <1>1, <1>10 DEF Kill, Goto, DriverTypeOK, Ops
  <2>3. dl' \in [Nodes -> [Files -> {"none", "wait", "done"}]]
    BY <1>1, <1>10 DEF Kill, DriverTypeOK
  <2>4. /\ size' \in [Nodes -> [Files -> Nat]]
        /\ targetSize' \in [Nodes -> [Files -> Nat]]
        /\ wopen' \in [Files -> Nat]
    BY <1>1, <1>10 DEF Kill, DriverTypeOK
  <2> QED BY <1>1, <1>10, <2>1, <2>2, <2>3, <2>4 DEF Kill, DriverTypeOK
<1>11. ASSUME NEW f \in Files, DownloadDone(n, f) PROVE BaseTypeOK' /\ DriverTypeOK'
  <2>1. BaseTypeOK'
    BY <1>1, <1>11 DEF DownloadDone, BaseTypeOK
  <2> QED BY <1>1, <1>11, <2>1 DEF DownloadDone, DriverTypeOK
<1> QED
  BY <1>4, <1>5, <1>6, <1>7, <1>8, <1>9, <1>10, <1>11 DEF DriverStep

\* Every step keeps all types.
LEMMA TypeStep ==
    ASSUME TypeOK, CreateInv, ConnInv, [Next]_vars
    PROVE  TypeOK'
<1>1. ASSUME NEW n \in Nodes, DriverNext(n) PROVE TypeOK'
  <2>1. UNCHANGED <<serverVars, clientVars>>
    BY <1>1 DEF DriverNext
  <2>2. CASE AppStep(n)
    BY <2>1, <2>2, AppTypes
  <2>3. CASE DriverStep(n) \/ CreateIdFails(n) \/ Kill(n) \/ \E f \in Files : DownloadDone(n, f)
    BY <2>1, <2>3, DriverTypes
  <2> QED BY <1>1, <2>2, <2>3 DEF DriverNext
<1>2. ASSUME NEW n \in Nodes, ClientNext(n) PROVE TypeOK'
  BY <1>2, ClientTypes DEF ClientNext
<1>3. ASSUME NEW s \in Nodes, ServerNext(s) PROVE TypeOK'
  BY <1>3, ServerTypes DEF ServerNext
<1>4. ASSUME NEW n \in Nodes, ConnNext(n) PROVE TypeOK'
  BY <1>4, ConnectionTypes DEF ConnNext, ConnInv
<1>5. CASE UNCHANGED vars
  <2>1. BaseTypeOK' /\ ServerTypeOK'
    BY <1>5 DEF TypeOK, BaseTypeOK, ServerTypeOK
  <2>2. ClientTypeOK' /\ DriverTypeOK'
    BY <1>5 DEF TypeOK, ClientTypeOK, DriverTypeOK
  <2> QED BY <2>1, <2>2 DEF TypeOK
<1> QED
  BY <1>1, <1>2, <1>3, <1>4, <1>5 DEF Next
=============================================================================
