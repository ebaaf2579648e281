--------------------------- MODULE F3DriverProofs ---------------------------
(***************************************************************************)
(* The steps of the FUSE drivers keep IInv.  Every lemma has one step per  *)
(* conjunct of IInv that the action can disturb; the frame lemmas take     *)
(* care of the others.                                                     *)
(***************************************************************************)
EXTENDS F3TypeProofs

USE BaseAssumption, Zenon
USE DEF fsVars, idVars, udsVars, tcpVars, serverVars, serverOthers,
        clientVars, clientOthers, handlerVars, inodeVars, handleVars, history,
        driverVars, baseVars, vars

\* The steps of sfs_create disturb CreateInv only, but for the last one, which
\* opens the file for its first writer.
LEMMA CreateKeeps ==
    ASSUME IInv, TypeOK', NEW n \in Nodes,
           \/ CreateId(n) \/ MarkServers(n) \/ MarkPath(n) \/ CreateIdFails(n)
           \/ \E f \in Files : Create(n, f),
           UNCHANGED <<serverVars, clientVars>>
    PROVE  IInv'
<1> DEFINE c == cur[n]
<1>1. TypeOK /\ CreateInv
  BY DEF IInv
<1>2. RequestInv' /\ ConnInv' /\ DataInv' /\ DoneInv' /\ SeenInv'
  BY RequestFrame, ConnFrame, DataFrame, DoneFrame, SeenFrame
  DEF IInv, CreateId, MarkServers, MarkPath, CreateIdFails, Create
<1> SUFFICES CreateInv' /\ SizeInv'
  BY <1>2 DEF IInv
<1>3. ASSUME NEW f \in Files, Create(n, f) PROVE CreateInv' /\ SizeInv'
  <2>1. CreateInv'
    <3>1. /\ Goto(n, "create_id", f) /\ op[n] = "idle" /\ n = Writer[f]
          /\ fsFiles' = fsFiles \cup {f} /\ f \notin fsFiles
          /\ UNCHANGED <<xServers, xPath, placed, needsDownload>>
      BY <1>3 DEF Create, Idle
    <3> QED BY <1>1, <3>1, GotoSets, SMT DEF CreateInv, Creating
  <2> QED BY <1>3, <2>1, SizeFrame DEF Create, IInv
<1>4. CASE CreateId(n)
  <2>1. CreateInv'
    <3>1. /\ Goto(n, "create_servers", c) /\ op[n] = "create_id"
          /\ placed' = [placed EXCEPT ![n] = placed[n] \cup {c}]
          /\ UNCHANGED <<fsFiles, xServers, xPath, needsDownload>>
      BY <1>4 DEF CreateId
    <3>2. \A m \in Nodes : placed'[m] = IF m = n THEN placed[n] \cup {c} ELSE placed[m]
      <4>1. placed \in [Nodes -> SUBSET Files]
        BY <1>1 DEF TypeOK, BaseTypeOK
      <4> QED BY <3>1, <4>1, UpdateOne
    <3>3. c \in Files /\ n = Writer[c] /\ c \in fsFiles
      BY <1>1, <3>1 DEF CreateInv, Creating
    <3> QED BY <1>1, <3>1, <3>2, <3>3, GotoSets, SMT DEF CreateInv, Creating
  <2> QED BY <1>4, <2>1, SizeFrame DEF CreateId, IInv
  \* The file is under idroot, so no lookup has asked for a download.
<1>5. CASE MarkServers(n)
  <2>1. CreateInv'
    <3>1. /\ Goto(n, "create_path", c) /\ op[n] = "create_servers"
          /\ xServers' = [xServers EXCEPT ![c] = n]
          /\ UNCHANGED <<fsFiles, xPath, placed, needsDownload>>
      BY <1>5 DEF MarkServers
    <3>2. \A g \in Files : xServers'[g] = IF g = c THEN n ELSE xServers[g]
      BY <1>1, <3>1, SMT DEF TypeOK, BaseTypeOK
    <3>3. c \in Files /\ n = Writer[c] /\ c \in placed[n] /\ c \in fsFiles
      BY <1>1, <3>1 DEF CreateInv, Creating
    <3> QED BY <1>1, <3>1, <3>2, <3>3, GotoSets, SMT DEF CreateInv, Creating
  <2> QED BY <1>5, <2>1, SizeFrame DEF MarkServers, IInv
<1>6. CASE MarkPath(n)
  <2>1. /\ op[n] = "create_path" /\ Goto(n, "idle", NoPath)
        /\ xPath' = xPath \cup {c}
        /\ UNCHANGED <<fsFiles, xServers, placed, needsDownload>>
    BY <1>6 DEF MarkPath
  <2>2. c \in Files /\ n = Writer[c] /\ xServers[c] = n
    BY <1>1, <2>1 DEF CreateInv, Creating
  <2>3. CreateInv'
    BY <1>1, <2>1, <2>2, GotoSets, SMT DEF CreateInv, Creating
  <2>4. /\ sess' = [sess EXCEPT ![c] = sess[c] + 1]
        /\ wopen' = [wopen EXCEPT ![c] = wopen[c] + 1]
        /\ UNCHANGED <<idFile, size, xSize>>
    BY <1>6 DEF MarkPath
  <2>5. \A g \in Files : sess[g] \in Nat /\ wopen[g] \in Nat
    BY <1>1 DEF TypeOK, DriverTypeOK
  <2>6. \A g \in Files : /\ sess'[g] = IF g = c THEN sess[g] + 1 ELSE sess[g]
                         /\ wopen'[g] = IF g = c THEN wopen[g] + 1 ELSE wopen[g]
    BY <1>1, <2>4 DEF TypeOK, DriverTypeOK
  <2>7. SizeInv'
    <3> HIDE DEF c
    <3> QED BY <2>4, <2>5, <2>6, SMT DEF IInv, SizeInv
  <2> QED BY <2>3, <2>7
<1>7. CASE CreateIdFails(n)
  <2>1. CreateInv'
    <3>1. /\ Goto(n, "idle", NoPath)
          /\ UNCHANGED <<fsFiles, xServers, xPath, placed, needsDownload>>
      BY <1>7 DEF CreateIdFails
    <3> QED BY <1>1, <3>1, GotoSets, SMT DEF CreateInv, Creating
  <2> QED BY <1>7, <2>1, SizeFrame DEF CreateIdFails, IInv
<1> QED
  BY <1>2, <1>3, <1>4, <1>5, <1>6, <1>7 DEF IInv

\* A lookup on the node that creates the file asks for a download only before
\* the file is under idroot, when no server is named.
LEMMA LookupKeeps ==
    ASSUME IInv, TypeOK', NEW n \in Nodes, NEW f \in Files, Lookup(n, f),
           UNCHANGED <<serverVars, clientVars>>
    PROVE  IInv'
<1>1. TypeOK /\ CreateInv /\ ConnInv
  BY DEF IInv
<1>2. RequestInv' /\ DataInv' /\ DoneInv' /\ SeenInv' /\ SizeInv'
  BY RequestFrame, DataFrame, DoneFrame, SeenFrame, SizeFrame DEF IInv, Lookup
<1>3. CASE f \in placed[n]
  <2>1. needsDownload' = needsDownload /\ sock' = sock
    BY <1>3 DEF Lookup
  <2>2. ConnInv'
    BY <1>1, <2>1, ConnFrame DEF Lookup
  <2>3. CreateInv'
    <3>1. /\ placed' = [placed EXCEPT ![n] = placed[n] \cup {f}]
          /\ UNCHANGED <<fsFiles, xServers, xPath, op, cur>>
      BY DEF Lookup
    <3>2. \A m \in Nodes : placed'[m] = IF m = n THEN placed[n] \cup {f} ELSE placed[m]
      <4>1. placed \in [Nodes -> SUBSET Files]
        BY <1>1 DEF TypeOK, BaseTypeOK
      <4> QED BY <3>1, <4>1, UpdateOne
    <3> QED BY <1>1, <2>1, <3>1, <3>2, SMT DEF CreateInv, Creating
  <2> QED BY <1>2, <2>2, <2>3 DEF IInv
<1>4. CASE f \notin placed[n]
  <2>1. /\ needsDownload' = [needsDownload EXCEPT ![n] = needsDownload[n] \cup {f}]
        /\ \/ sock' = [sock EXCEPT ![n][f] = "open"]
           \/ sock' = [sock EXCEPT ![n][f] = "closed"]
    BY <1>4, Zenon DEF Lookup
  <2>2. ConnInv'
    <3>1. \A m \in Nodes, g \in Files : sock'[m][g] = "acked" => sock[m][g] = "acked"
      <4>1. CASE sock' = [sock EXCEPT ![n][f] = "open"]
        BY <1>1, <4>1 DEF TypeOK, BaseTypeOK
      <4>2. CASE sock' = [sock EXCEPT ![n][f] = "closed"]
        BY <1>1, <4>2 DEF TypeOK, BaseTypeOK
      <4> QED BY <2>1, <4>1, <4>2
    <3> QED BY <1>1, <3>1, SMT DEF Lookup, ConnInv
  <2>3. CreateInv'
    <3>1. \A m \in Nodes : /\ placed[m] \subseteq placed'[m]
                           /\ needsDownload'[m] \subseteq needsDownload[m] \cup {f}
                           /\ m # n => needsDownload'[m] = needsDownload[m]
      BY <1>1, <2>1, SMT DEF Lookup, TypeOK, BaseTypeOK, DriverTypeOK
    <3>2. op[n] = "idle" /\ f \in fsFiles
      BY DEF Lookup, Idle
    <3>3. n = Writer[f] => xServers[f] = NoNode
      BY <1>1, <1>4 DEF CreateInv
    <3> QED BY <1>1, <3>1, <3>2, <3>3, SMT DEF Lookup, CreateInv, Creating
  <2> QED BY <1>2, <2>2, <2>3 DEF IInv
<1> QED
  BY <1>3, <1>4

\* The request an open writes names the writer, and comes from another node.
LEMMA OpenReadKeeps ==
    ASSUME IInv, TypeOK', NEW n \in Nodes, NEW f \in Files, OpenRead(n, f),
           UNCHANGED <<serverVars, clientVars>>
    PROVE  IInv'
<1> DEFINE r == [path |-> f \in xPath, server |-> xServers[f]]
<1>1. TypeOK /\ CreateInv /\ RequestInv /\ SeenInv
  BY DEF IInv
<1>2. CreateInv' /\ ConnInv' /\ DataInv' /\ DoneInv' /\ SizeInv'
  BY CreateFrame, ConnFrame, DataFrame, DoneFrame, SizeFrame DEF IInv, OpenRead
<1>3. RequestInv'
  <2>1. CASE f \in needsDownload[n] /\ sock[n][f] = "open"
    <3>1. reqs' = [reqs EXCEPT ![n][f] = reqs[n][f] \cup {r}] /\ req' = req
      BY <2>1, Zenon DEF OpenRead
    <3>2. GoodRequest(n, f, r)
      BY <1>1, <2>1 DEF CreateInv, GoodRequest
    <3>3. \A m \in Nodes, g \in Files : \A q \in reqs'[m][g] :
             q \in reqs[m][g] \/ (m = n /\ g = f /\ q = r)
      BY <1>1, <3>1, SMT DEF TypeOK, BaseTypeOK
    <3> HIDE DEF r
    <3> QED BY <1>1, <3>1, <3>2, <3>3, SMT DEF RequestInv, GoodRequest
  <2>2. CASE ~(f \in needsDownload[n] /\ sock[n][f] = "open")
    BY <1>1, <2>2, RequestFrame DEF OpenRead
  <2> QED BY <2>1, <2>2
<1>4. SeenInv'
  <2>1. \A m \in Nodes, g \in Files :
           seen'[m][g] = IF m = n /\ g = f THEN <<>> ELSE seen[m][g]
    <3>1. seen' = [seen EXCEPT ![n][f] = <<>>]
      BY DEF OpenRead
    <3>2. seen \in [Nodes -> [Files -> Contents]]
      BY <1>1 DEF TypeOK, DriverTypeOK
    <3> QED BY <3>1, <3>2, Update, SMT
  <2>2. \A m \in Nodes, g \in Files : idFile[m][g] \in Contents
    BY <1>1, SMT DEF TypeOK, BaseTypeOK
  <2>3. writeOnce \subseteq Files
    BY <1>1 DEF TypeOK, DriverTypeOK
  <2> QED BY <1>1, <2>1, <2>2, <2>3, PrefixEmpty, SMT DEF OpenRead, SeenInv
<1> QED
  BY <1>2, <1>3, <1>4 DEF IInv

-----------------------------------------------------------------------------
\* A write by the node of the writer keeps what was sent and read an initial
\* part of the file, unless the file leaves writeOnce.
LEMMA RewriteKeeps ==
    ASSUME IInv, TypeOK', NEW n \in Nodes, NEW f \in Files, n = Writer[f],
           NEW c \in Contents, Rewrite(n, f, c),
           UNCHANGED <<rcvd, sent, doneSent, writeComplete, doneMsgs, req, spc,
                       tcp, seen>>
    PROVE  DataInv' /\ DoneInv' /\ SeenInv'
<1>1. TypeOK /\ DataInv /\ DoneInv /\ SeenInv
  BY DEF IInv
<1>2. \A m \in Nodes, g \in Files :
         /\ idFile[m][g] \in Contents /\ sent[m][g] \in Contents
         /\ seen[m][g] \in Contents /\ idFile'[m][g] \in Contents
  BY <1>1, SMT DEF TypeOK, BaseTypeOK, DriverTypeOK
<1>3. \A m \in Nodes, g \in Files :
         idFile'[m][g] = IF m = n /\ g = f THEN c ELSE idFile[m][g]
  BY <1>1 DEF Rewrite, TypeOK, BaseTypeOK
<1>4. writeOnce' \subseteq writeOnce /\ writeOnce \subseteq Files
  BY <1>1 DEF Rewrite, TypeOK, DriverTypeOK
<1>5. f \in writeOnce' => /\ Prefix(idFile[n][f], c)
                          /\ f \in doneSent => c = idFile[n][f]
  <2>1. Prefix(idFile[n][f], idFile[n][f])
    BY <1>2, PrefixRefl
  <2> QED BY <2>1, Zenon DEF Rewrite
<1>6. \A m \in Nodes, g \in writeOnce' :
         \A s \in Contents : Prefix(s, idFile[m][g]) => Prefix(s, idFile'[m][g])
  <2> TAKE m \in Nodes, g \in writeOnce'
  <2> TAKE s \in Contents
  <2>1. CASE m = n /\ g = f
    BY <1>2, <1>3, <1>4, <1>5, <2>1, PrefixTrans
  <2>2. CASE ~(m = n /\ g = f)
    BY <1>3, <1>4, <2>2
  <2> QED BY <2>1, <2>2
<1>7. DataInv'
  <2>1. ASSUME NEW m \in Nodes, NEW g \in Files, m # Writer[g]
        PROVE  rcvd[m][g] = Len(idFile'[m][g]) /\ Prefix(idFile'[m][g], sent[m][g])
    BY <1>1, <1>3, <2>1, SMT DEF DataInv
  <2>2. ASSUME NEW m \in Nodes, NEW g \in writeOnce'
        PROVE  Prefix(sent[m][g], idFile'[Writer[g]][g])
    <3>1. g \in Files /\ g \in writeOnce /\ Writer[g] \in Nodes
      BY <1>4
    <3> QED BY <1>1, <1>2, <1>6, <3>1 DEF DataInv
  <2> QED BY <2>1, <2>2 DEF DataInv
<1>8. DoneInv'
  <2>1. ASSUME NEW g \in writeOnce', g \in doneSent
        PROVE  idFile'[Writer[g]][g] = idFile[Writer[g]][g]
    BY <1>3, <1>4, <1>5, <2>1
  <2> QED BY <1>1, <1>4, <2>1, SMT DEF DoneInv
<1>9. SeenInv'
  <2>1. ASSUME NEW m \in Nodes, NEW g \in writeOnce' PROVE Prefix(seen[m][g], idFile'[m][g])
    <3>1. Prefix(seen[m][g], idFile[m][g]) /\ seen[m][g] \in Contents
      BY <1>1, <1>2, <1>4 DEF SeenInv
    <3> QED BY <1>6, <3>1
  <2> QED BY <2>1 DEF SeenInv
<1> QED
  BY <1>7, <1>8, <1>9

\* An open for writing leaves the file as it is or empties it.
LEMMA OpenWriteKeeps ==
    ASSUME IInv, TypeOK', NEW n \in Nodes, NEW f \in Files, NEW trunc \in BOOLEAN,
           OpenWrite(n, f, trunc), UNCHANGED <<serverVars, clientVars>>
    PROVE  IInv'
<1> DEFINE c == IF trunc THEN <<>> ELSE idFile[n][f]
<1>1. TypeOK /\ SizeInv
  BY DEF IInv
<1>2. CreateInv' /\ RequestInv' /\ ConnInv'
  BY CreateFrame, RequestFrame, ConnFrame DEF IInv, OpenWrite
<1>3. c \in Contents /\ n = Writer[f] /\ Rewrite(n, f, c)
  BY <1>1, SMT DEF OpenWrite, TypeOK, BaseTypeOK, Contents
<1>4. DataInv' /\ DoneInv' /\ SeenInv'
  <2> HIDE DEF c
  <2> QED BY <1>3, RewriteKeeps DEF OpenWrite
<1>5. SizeInv'
  <2>1. \A g \in Files :
           /\ idFile'[Writer[g]][g] = IF g = f THEN c ELSE idFile[Writer[g]][g]
           /\ sess'[g] = IF g = f THEN sess[g] + 1 ELSE sess[g]
           /\ wopen'[g] = IF g = f THEN wopen[g] + 1 ELSE wopen[g]
           /\ sess[g] \in Nat /\ wopen[g] \in Nat
    <3> HIDE DEF c
    <3>1. \A g \in Files :
             idFile'[Writer[g]][g] = IF g = f THEN c ELSE idFile[Writer[g]][g]
      BY <1>1, <1>3 DEF Rewrite, TypeOK, BaseTypeOK
    <3>2. /\ sess' = [sess EXCEPT ![f] = sess[f] + 1]
          /\ wopen' = [wopen EXCEPT ![f] = wopen[f] + 1]
      BY DEF OpenWrite
    <3> QED BY <1>1, <3>1, <3>2 DEF TypeOK, DriverTypeOK
  <2>2. sess[f] = 0 => c = <<>>
    BY <1>1, <1>3 DEF SizeInv
  <2>3. size' = size /\ xSize' = xSize
    BY DEF OpenWrite
  <2> HIDE DEF c
  <2> QED BY <1>1, <2>1, <2>2, <2>3, SMT DEF SizeInv
<1> QED
  BY <1>2, <1>4, <1>5 DEF IInv

\* A write extends the size of the inode together with the file.
LEMMA WriteBufKeeps ==
    ASSUME IInv, TypeOK', NEW n \in Nodes, NEW f \in Files,
           NEW off \in 0..(MaxLen - 1), WriteBuf(n, f, off),
           UNCHANGED <<serverVars, clientVars>>
    PROVE  IInv'
<1> DEFINE b == sess[f] * MaxLen + off
           c == WriteAt(idFile[n][f], off, b)
<1>1. TypeOK /\ SizeInv
  BY DEF IInv
<1>2. CreateInv' /\ RequestInv' /\ ConnInv'
  BY CreateFrame, RequestFrame, ConnFrame DEF IInv, WriteBuf
<1>3. n = Writer[f] /\ wopen[f] > 0 /\ Rewrite(n, f, c)
  BY DEF WriteBuf
<1>4. c \in Contents /\ Len(c) = larger(Len(idFile[n][f]), off + 1)
  <2>1. sess[f] \in Nat /\ off \in Nat /\ idFile[n][f] \in Contents
    BY <1>1, SMT DEF TypeOK, BaseTypeOK, DriverTypeOK
  <2>2. sess[f] * MaxLen \in Nat
    BY <2>1, SMT
  <2>3. b \in Nat
    BY <2>1, <2>2, SMT
  <2> HIDE DEF b
  <2> QED BY <2>1, <2>3, WriteAtType
<1> HIDE DEF c
<1>5. DataInv' /\ DoneInv' /\ SeenInv'
  BY <1>3, <1>4, RewriteKeeps DEF WriteBuf
<1>6. SizeInv'
  <2>1. \A g \in Files :
           /\ idFile'[Writer[g]][g] = IF g = f THEN c ELSE idFile[Writer[g]][g]
           /\ sess[g] \in Nat /\ wopen[g] \in Nat
    <3>1. idFile' = [idFile EXCEPT ![n][f] = c]
      BY <1>3 DEF Rewrite
    <3>2. sess \in [Files -> Nat] /\ wopen \in [Files -> Nat]
      BY <1>1 DEF TypeOK, DriverTypeOK
    <3> QED BY <1>1, <1>3, <3>1, <3>2, SMT DEF TypeOK, BaseTypeOK
  <2>2. \A g \in Files :
           size'[Writer[g]][g] = IF g = f THEN larger(size[n][f], off + 1)
                                 ELSE size[Writer[g]][g]
    BY <1>1, <1>3 DEF WriteBuf, TypeOK, DriverTypeOK
  <2>3. UNCHANGED <<sess, wopen, xSize>>
    BY DEF WriteBuf
  <2>4. sess[f] # 0
    BY <1>1, <1>3, SMT DEF SizeInv
  <2> QED BY <1>1, <1>3, <1>4, <2>1, <2>2, <2>3, <2>4, SMT DEF SizeInv
<1> QED
  BY <1>2, <1>5, <1>6 DEF IInv

-----------------------------------------------------------------------------
\* A line to the server names a file that is then in doneSent, if it names a
\* file of this node.
LEMMA SendDoneKeeps ==
    ASSUME IInv, TypeOK', NEW n \in Nodes, NEW name \in Files \cup {NoPath},
           SendDone(n, name),
           UNCHANGED <<writeComplete, req, spc, tcp, sent, idFile, writeOnce>>
    PROVE  DoneInv'
<1>1. TypeOK /\ DoneInv
  BY DEF IInv
<1>2. CASE serverFd[n]
  <2>1. /\ doneMsgs' = [doneMsgs EXCEPT ![n] = Append(doneMsgs[n], name)]
        /\ doneSent' = doneSent \cup {f \in Files : f = name /\ Writer[f] = n}
    BY <1>2, Zenon DEF SendDone
  <2>2. \A m \in Nodes : doneMsgs[m] \in Seq(Files \cup {NoPath})
    BY <1>1 DEF TypeOK, BaseTypeOK
  <2>3. ASSUME NEW f \in Files, NEW i \in 1..Len(doneMsgs'[Writer[f]]),
               doneMsgs'[Writer[f]][i] = f
        PROVE  f \in doneSent'
    <3>1. CASE Writer[f] # n
      <4>1. doneMsgs'[Writer[f]] = doneMsgs[Writer[f]]
        BY <1>1, <2>1, <3>1 DEF TypeOK, BaseTypeOK
      <4> QED BY <1>1, <2>1, <2>3, <4>1 DEF DoneInv
    <3>2. CASE Writer[f] = n
      <4>1. doneMsgs'[n] = Append(doneMsgs[n], name)
        BY <1>1, <2>1 DEF TypeOK, BaseTypeOK
      <4>2. CASE i = Len(doneMsgs[n]) + 1
        BY <2>1, <2>2, <2>3, <3>2, <4>1, <4>2, SMT
      <4>3. CASE i # Len(doneMsgs[n]) + 1
        <5>1. i \in 1..Len(doneMsgs[n]) /\ doneMsgs[n][i] = f
          BY <2>2, <2>3, <3>2, <4>1, <4>3, SMT
        <5> QED BY <1>1, <2>1, <3>2, <5>1 DEF DoneInv
      <4> QED BY <4>2, <4>3
    <3> QED BY <3>1, <3>2
  <2>4. doneSent \subseteq doneSent'
    BY <2>1
  <2> QED BY <1>1, <2>3, <2>4 DEF DoneInv
<1>3. CASE ~serverFd[n]
  <2>1. UNCHANGED <<doneMsgs, doneSent>>
    BY <1>3, Zenon DEF SendDone
  <2> QED BY <1>1, <2>1, DoneFrame
<1> QED
  BY <1>2, <1>3

\* The size published by the only writer is the length of the file.
LEMMA ReleaseWriteKeeps ==
    ASSUME IInv, TypeOK', NEW n \in Nodes, NEW f \in Files, ReleaseWrite(n, f),
           UNCHANGED <<serverVars, clientVars>>
    PROVE  IInv'
<1>1. TypeOK /\ SizeInv
  BY DEF IInv
<1>2. CreateInv' /\ RequestInv' /\ ConnInv' /\ DataInv' /\ SeenInv'
  BY CreateFrame, RequestFrame, ConnFrame, DataFrame, SeenFrame DEF IInv, ReleaseWrite
<1>3. DoneInv'
  <2>1. DoneName(f) \in Files \cup {NoPath}
    BY DEF DoneName
  <2> QED BY <2>1, SendDoneKeeps DEF ReleaseWrite
<1>4. SizeInv'
  <2>1. \A g \in Files :
           /\ xSize'[g] = IF g = f THEN size[Writer[g]][g] ELSE xSize[g]
           /\ wopen'[g] = IF g = f THEN wopen[g] - 1 ELSE wopen[g]
           /\ sess[g] \in Nat /\ wopen[g] \in Nat
    BY <1>1 DEF ReleaseWrite, TypeOK, BaseTypeOK, DriverTypeOK
  <2>2. wopen[f] > 0 /\ UNCHANGED <<sess, size, idFile>>
    BY DEF ReleaseWrite
  <2> QED BY <1>1, <2>1, <2>2, SMT DEF SizeInv
<1> QED
  BY <1>2, <1>3, <1>4 DEF IInv

\* The other closes send a line at most.
LEMMA ReleaseKeeps ==
    ASSUME IInv, TypeOK', NEW n \in Nodes,
           ReleaseOther(n) \/ \E f \in Files : ReleaseRead(n, f),
           UNCHANGED <<serverVars, clientVars>>
    PROVE  IInv'
<1>1. CreateInv' /\ RequestInv' /\ ConnInv' /\ DataInv' /\ SeenInv' /\ SizeInv'
  BY CreateFrame, RequestFrame, ConnFrame, DataFrame, SeenFrame, SizeFrame
  DEF IInv, ReleaseOther, ReleaseRead
<1> SUFFICES DoneInv'
  BY <1>1 DEF IInv
<1>2. CASE ReleaseOther(n)
  BY <1>2, SendDoneKeeps DEF ReleaseOther
<1>3. ASSUME NEW f \in Files, ReleaseRead(n, f) PROVE DoneInv'
  <2>1. CASE f \in needsDownload[n]
    BY <1>3, <2>1, DoneFrame DEF ReleaseRead, IInv
  <2>2. CASE f \notin needsDownload[n]
    <3>1. DoneName(f) \in Files \cup {NoPath} /\ SendDone(n, DoneName(f))
      BY <1>3, <2>2 DEF ReleaseRead, DoneName
    <3> QED BY <1>3, <3>1, SendDoneKeeps DEF ReleaseRead
  <2> QED BY <2>1, <2>2
<1> QED
  BY <1>2, <1>3

\* A read changes only what its reader has seen, at its end.
LEMMA ReadKeeps ==
    ASSUME IInv, TypeOK', NEW n \in Nodes,
           \/ ReadPoll(n) \/ ReadReply(n)
           \/ \E f \in Files, k \in 1..ReadMax : Read(n, f, k),
           UNCHANGED <<serverVars, clientVars>>
    PROVE  IInv'
<1>1. TypeOK /\ CreateInv /\ SeenInv
  BY DEF IInv
<1>2. RequestInv' /\ ConnInv' /\ DataInv' /\ DoneInv' /\ SizeInv'
  BY RequestFrame, ConnFrame, DataFrame, DoneFrame, SizeFrame
  DEF IInv, ReadPoll, ReadReply, Read
<1> SUFFICES CreateInv' /\ SeenInv'
  BY <1>2 DEF IInv
<1>3. CASE ReadPoll(n)
  BY <1>1, <1>3, CreateFrame, SeenFrame DEF ReadPoll
<1>4. ASSUME NEW f \in Files, NEW k \in 1..ReadMax, Read(n, f, k)
      PROVE  CreateInv' /\ SeenInv'
  <2>1. CreateInv'
    <3>1. /\ Goto(n, "read", f)
          /\ UNCHANGED <<fsFiles, xServers, xPath, placed, needsDownload>>
      BY <1>4 DEF Read
    <3> QED BY <1>1, <3>1, GotoSets, SMT DEF CreateInv, Creating
  <2> QED BY <1>1, <1>4, <2>1, SeenFrame DEF Read
<1>5. CASE ReadReply(n)
  <2> DEFINE f == cur[n]
             from == Len(seen[n][f])
             to == from + rd[n].size
             have == Len(idFile[n][f])
             last == IF to < have THEN to ELSE have
  <2>1. CreateInv'
    <3>1. /\ Goto(n, "idle", NoPath)
          /\ UNCHANGED <<fsFiles, xServers, xPath, placed, needsDownload>>
      BY <1>5 DEF ReadReply
    <3> QED BY <1>1, <3>1, GotoSets, SMT DEF CreateInv, Creating
  <2>2. f \in Files
    BY <1>1, <1>5 DEF ReadReply, CreateInv
  <2>3. seen[n][f] \in Contents /\ idFile[n][f] \in Contents /\ rd[n].size \in Nat
    BY <1>1, <2>2, SMT DEF TypeOK, BaseTypeOK, DriverTypeOK
  <2>4. from \in Nat /\ have \in Nat
    BY <2>3, LenProperties DEF Contents
  <2>5. f \in writeOnce => from <= last /\ last <= have /\ last \in Nat
    <3>1. f \in writeOnce => from <= have
      BY <1>1 DEF SeenInv, Prefix
    <3> HIDE DEF from, have, f
    <3> QED BY <2>3, <2>4, <3>1, SMT
  <2>6. seen' = [seen EXCEPT ![n][f] = seen[n][f] \o SubSeq(idFile[n][f], from + 1, last)]
    BY <1>5 DEF ReadReply
  <2>7. f \in writeOnce =>
           Prefix(seen[n][f] \o SubSeq(idFile[n][f], from + 1, last), idFile[n][f])
    <3> HIDE DEF last
    <3> QED BY <1>1, <2>3, <2>5, PrefixMore DEF SeenInv
  <2>8. SeenInv'
    <3> DEFINE new == seen[n][f] \o SubSeq(idFile[n][f], from + 1, last)
    <3> HIDE DEF new
    <3>1. \A m \in Nodes, g \in Files :
             seen'[m][g] = IF m = n /\ g = f THEN new ELSE seen[m][g]
      <4>1. seen' = [seen EXCEPT ![n][f] = new]
        BY <2>6 DEF new
      <4> HIDE DEF f
      <4> QED BY <1>1, <2>2, <4>1, Update, SMT DEF TypeOK, DriverTypeOK
    <3>2. f \in writeOnce => Prefix(new, idFile[n][f])
      BY <2>7 DEF new
    <3>3. writeOnce \subseteq Files /\ UNCHANGED <<idFile, writeOnce>>
      BY <1>1, <1>5 DEF ReadReply, TypeOK, DriverTypeOK
    <3> HIDE DEF f
    <3> QED BY <1>1, <3>1, <3>2, <3>3 DEF SeenInv
  <2> QED BY <2>1, <2>8
<1> QED
  BY <1>3, <1>4, <1>5

\* A killed driver forgets its inodes, and with them its downloads.
LEMMA KillKeeps ==
    ASSUME IInv, TypeOK', NEW n \in Nodes,
           Kill(n) \/ \E f \in Files : DownloadDone(n, f),
           UNCHANGED <<serverVars, clientVars>>
    PROVE  IInv'
<1>1. TypeOK /\ CreateInv /\ SizeInv
  BY DEF IInv
<1>2. RequestInv' /\ ConnInv' /\ DataInv' /\ DoneInv' /\ SeenInv'
  BY RequestFrame, ConnFrame, DataFrame, DoneFrame, SeenFrame DEF IInv, Kill, DownloadDone
<1> SUFFICES CreateInv' /\ SizeInv'
  BY <1>2 DEF IInv
<1>3. ASSUME NEW f \in Files, DownloadDone(n, f) PROVE CreateInv' /\ SizeInv'
  BY <1>1, <1>3, CreateFrame, SizeFrame DEF DownloadDone
<1>4. CASE Kill(n)
  <2>1. CreateInv'
    <3>1. /\ Goto(n, "idle", NoPath)
          /\ needsDownload' = [needsDownload EXCEPT ![n] = {}]
          /\ UNCHANGED <<fsFiles, xServers, xPath, placed>>
      BY <1>4 DEF Kill
    <3>2. \A m \in Nodes : needsDownload'[m] = IF m = n THEN {} ELSE needsDownload[m]
      BY <1>1, <3>1, SMT DEF TypeOK, DriverTypeOK
    <3> QED BY <1>1, <3>1, <3>2, GotoSets, SMT DEF CreateInv, Creating
  <2>2. \A g \in Files :
           /\ size'[Writer[g]][g] = IF Writer[g] = n THEN 0 ELSE size[Writer[g]][g]
           /\ wopen'[g] = IF Writer[g] = n THEN 0 ELSE wopen[g]
    BY <1>1, <1>4 DEF Kill, TypeOK, DriverTypeOK
  <2>3. UNCHANGED <<sess, idFile, xSize>>
    BY <1>4 DEF Kill
  <2> QED BY <1>1, <2>1, <2>2, <2>3 DEF SizeInv
<1> QED
  BY <1>3, <1>4
=============================================================================
