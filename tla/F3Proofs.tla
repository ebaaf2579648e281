------------------------------ MODULE F3Proofs ------------------------------
(***************************************************************************)
(* IInv is an invariant of F3System, for any cluster, workload and bounds, *)
(* and the safety properties follow from it.                               *)
(***************************************************************************)
EXTENDS F3DriverProofs, F3TransferProofs

USE BaseAssumption, Zenon
USE DEF fsVars, idVars, udsVars, tcpVars, serverVars, serverOthers,
        clientVars, clientOthers, handlerVars, inodeVars, handleVars, history,
        driverVars, baseVars, vars

\* The initial state has nothing open, sent or stored.
LEMMA InitInv == Init => IInv
<1> SUFFICES ASSUME Init PROVE IInv
  OBVIOUS
<1> USE DEF Init, BaseInit, ServerInit, ClientInit, DriverInit
<1>1. TypeOK
  BY InitTypes
<1>2. CreateInv
  BY DEF CreateInv, Creating
<1>3. RequestInv
  BY DEF RequestInv, GoodRequest
<1>4. ConnInv
  BY DEF ConnInv
<1>5. DataInv
  BY SMT DEF DataInv, Prefix
<1>6. DoneInv
  BY SMT DEF DoneInv
<1>7. SeenInv
  BY SMT DEF SeenInv, Prefix
<1>8. SizeInv
  BY DEF SizeInv
<1> QED
  BY <1>1, <1>2, <1>3, <1>4, <1>5, <1>6, <1>7, <1>8 DEF IInv

\* Every step of the system keeps IInv.
LEMMA StepKeeps ==
    ASSUME IInv, [Next]_vars
    PROVE  IInv'
<1>1. TypeOK'
  BY TypeStep DEF IInv
<1>2. ASSUME NEW n \in Nodes, DriverNext(n) PROVE IInv'
  <2>1. UNCHANGED <<serverVars, clientVars>>
    BY <1>2 DEF DriverNext
  <2>2. ASSUME NEW f \in Files, Lookup(n, f) PROVE IInv'
    BY <1>1, <2>1, <2>2, LookupKeeps
  <2>3. ASSUME NEW f \in Files, OpenRead(n, f) PROVE IInv'
    BY <1>1, <2>1, <2>3, OpenReadKeeps
  <2>4. ASSUME NEW f \in Files, ReleaseWrite(n, f) PROVE IInv'
    BY <1>1, <2>1, <2>4, ReleaseWriteKeeps
  <2>5. ASSUME NEW f \in Files, NEW trunc \in BOOLEAN, OpenWrite(n, f, trunc) PROVE IInv'
    BY <1>1, <2>1, <2>5, OpenWriteKeeps, SMT
  <2>6. ASSUME NEW f \in Files, NEW off \in 0..(MaxLen - 1), WriteBuf(n, f, off) PROVE IInv'
    BY <1>1, <2>1, <2>6, WriteBufKeeps
  <2>7. CASE \/ CreateId(n) \/ MarkServers(n) \/ MarkPath(n) \/ CreateIdFails(n)
             \/ \E f \in Files : Create(n, f)
    BY <1>1, <2>1, <2>7, CreateKeeps
  <2>8. CASE ReleaseOther(n) \/ \E f \in Files : ReleaseRead(n, f)
    BY <1>1, <2>1, <2>8, ReleaseKeeps
  <2>9. CASE \/ ReadPoll(n) \/ ReadReply(n)
             \/ \E f \in Files, k \in 1..ReadMax : Read(n, f, k)
    BY <1>1, <2>1, <2>9, ReadKeeps
  <2>10. CASE Kill(n) \/ \E f \in Files : DownloadDone(n, f)
    BY <1>1, <2>1, <2>10, KillKeeps
  <2> QED
    BY <1>2, <2>2, <2>3, <2>4, <2>5, <2>6, <2>7, <2>8, <2>9, <2>10
    DEF DriverNext, AppStep, DriverStep
<1>3. ASSUME NEW n \in Nodes, ClientNext(n) PROVE IInv'
  BY <1>1, <1>3, HandlerKeeps, ReceiveKeeps DEF ClientNext, HandlerStep
<1>4. ASSUME NEW s \in Nodes, ServerNext(s) PROVE IInv'
  BY <1>1, <1>4, ServerKeeps DEF ServerNext
<1>5. ASSUME NEW n \in Nodes, ConnNext(n) PROVE IInv'
  BY <1>1, <1>5, SendKeeps, ConnectionKeeps DEF ConnNext, ConnectionStep
<1>6. CASE UNCHANGED vars
  BY <1>1, <1>6, CreateFrame, RequestFrame, ConnFrame, DataFrame, DoneFrame, SeenFrame,
     SizeFrame, SMT DEF IInv
<1> QED
  BY <1>2, <1>3, <1>4, <1>5, <1>6 DEF Next

\* IInv holds in every reachable state of any cluster.
THEOREM Invariance == Spec => []IInv
<1>1. Init => IInv
  BY InitInv
<1>2. IInv /\ [Next]_vars => IInv'
  BY StepKeeps
<1> QED
  BY <1>1, <1>2, PTL DEF Spec

\* All state is of its type: what the driver, the client and the server do
\* never leaves the values their code handles.
THEOREM TypeCorrectness == Spec => []TypeOK
<1>1. IInv => TypeOK
  BY DEF IInv
<1> QED
  BY <1>1, Invariance, PTL

\* No node ever downloads a file from itself (do_lookup, f3_mark_as_id).
THEOREM NoSelfDownloads == Spec => []NoSelfDownload
<1>1. IInv => NoSelfDownload
  BY DEF IInv, CreateInv, NoSelfDownload
<1> QED
  BY <1>1, Invariance, PTL

\* Copy, stream and file form a chain of initial parts.
LEMMA CopyPrefix == IInv => CopyIsPrefix
<1> SUFFICES ASSUME IInv, NEW n \in Nodes, NEW f \in writeOnce
             PROVE  Prefix(idFile[n][f], idFile[Writer[f]][f])
  BY DEF CopyIsPrefix
<1>1. f \in Files /\ Writer[f] \in Nodes
  BY DEF IInv, TypeOK, DriverTypeOK
<1>2. /\ idFile[n][f] \in Contents /\ sent[n][f] \in Contents
      /\ idFile[Writer[f]][f] \in Contents
  BY <1>1, SMT DEF IInv, TypeOK, BaseTypeOK
<1>3. CASE n = Writer[f]
  BY <1>2, <1>3, PrefixRefl
<1>4. CASE n # Writer[f]
  <2>1. Prefix(idFile[n][f], sent[n][f]) /\ Prefix(sent[n][f], idFile[Writer[f]][f])
    BY <1>1, <1>4 DEF IInv, DataInv
  <2> QED BY <1>2, <2>1, PrefixTrans
<1> QED
  BY <1>3, <1>4

\* The copies of a file that is only appended to are always initial parts of
\* it (handleConnection's copy loop, the client's copying goroutine).
THEOREM CopiesArePrefixes == Spec => []CopyIsPrefix
BY CopyPrefix, Invariance, PTL

\* A copy for which all of a stream was received that the server closed is the whole file.
LEMMA EndMeansComplete ==
    ASSUME IInv, NEW n \in Nodes, NEW f \in writeOnce,
           hpc[n][f] \in {"copy", "done"}, tcp[n][f] = "eof", rcvd[n][f] = Len(sent[n][f])
    PROVE  idFile[n][f] = idFile[Writer[f]][f] /\ n # Writer[f] /\ f \in doneSent
<1>1. f \in Files /\ Writer[f] \in Nodes
  BY DEF IInv, TypeOK, DriverTypeOK
<1>2. idFile[n][f] \in Contents /\ idFile[Writer[f]][f] \in Contents
  BY <1>1, SMT DEF IInv, TypeOK, BaseTypeOK
<1>3. req[n][f].path /\ n # Writer[f]
  BY <1>1 DEF IInv, ConnInv, RequestInv, GoodRequest
<1>4. Len(idFile[n][f]) = Len(idFile[Writer[f]][f]) /\ f \in doneSent
  BY <1>1, <1>3 DEF IInv, DataInv, DoneInv
<1>5. Prefix(idFile[n][f], idFile[Writer[f]][f])
  BY CopyPrefix DEF CopyIsPrefix
<1>6. Len(idFile[Writer[f]][f]) <= Len(idFile[n][f])
  BY <1>2, <1>4, LenProperties, SMT DEF Contents
<1> QED BY <1>2, <1>3, <1>4, <1>5, <1>6, PrefixEqual

\* A download the client acknowledges is complete (handleConnection's copy after
\* its wait loop, fuseConnectionHandler's answer "A").
THEOREM AcksMeanComplete == Spec => []AckMeansComplete
<1>1. IInv => AckMeansComplete
  <2> SUFFICES ASSUME IInv, NEW n \in Nodes, NEW f \in writeOnce, sock[n][f] = "acked"
               PROVE  idFile[n][f] = idFile[Writer[f]][f]
    BY DEF AckMeansComplete
  <2>1. f \in Files
    BY DEF IInv, TypeOK, DriverTypeOK
  <2>2. hpc[n][f] = "done" /\ tcp[n][f] = "eof" /\ rcvd[n][f] = Len(sent[n][f])
    BY <2>1 DEF IInv, ConnInv
  <2> QED BY <2>2, EndMeansComplete
<1> QED
  BY <1>1, Invariance, PTL

\* A reader sees the writer's blocks, in order and from the first one on
\* (sfs_read, do_read).
THEOREM ReadersSeeWriterData == Spec => []ReaderSeesWriterData
<1>1. IInv => ReaderSeesWriterData
  <2> SUFFICES ASSUME IInv, NEW n \in Nodes, NEW f \in writeOnce
               PROVE  Prefix(seen[n][f], idFile[Writer[f]][f])
    BY DEF ReaderSeesWriterData
  <2>1. f \in Files /\ Writer[f] \in Nodes
    BY DEF IInv, TypeOK, DriverTypeOK
  <2>2. /\ seen[n][f] \in Contents /\ idFile[n][f] \in Contents
        /\ idFile[Writer[f]][f] \in Contents
    BY <2>1, SMT DEF IInv, TypeOK, BaseTypeOK, DriverTypeOK
  <2>3. Prefix(seen[n][f], idFile[n][f]) /\ Prefix(idFile[n][f], idFile[Writer[f]][f])
    BY CopyPrefix DEF IInv, SeenInv, CopyIsPrefix
  <2> QED BY <2>2, <2>3, PrefixTrans
<1> QED
  BY <1>1, Invariance, PTL

\* The size the only writer publishes is the length of the file
\* (do_write_buf, sfs_release).
THEOREM PublishedSizes == Spec => []PublishedSize
<1>1. IInv => PublishedSize
  BY DEF IInv, SizeInv, PublishedSize
<1> QED
  BY <1>1, Invariance, PTL

-----------------------------------------------------------------------------
(***************************************************************************)
(* Files that are written once: F3System implements FileStream.            *)
(***************************************************************************)

\* A write at the end of a file appends a block to it.
LEMMA WriteAtEnd ==
    ASSUME NEW c \in Contents, NEW b \in Nat
    PROVE  WriteAt(c, Len(c), b) = Append(c, b)
<1>1. Len(c) \in Nat /\ larger(Len(c), Len(c) + 1) = Len(c) + 1
  BY SMT DEF Contents, larger
<1>2. \A i \in 1..(Len(c) + 1) : i # Len(c) + 1 <=> i <= Len(c)
  BY <1>1, SMT
<1>3. WriteAt(c, Len(c), b) = [i \in 1..(Len(c) + 1) |-> IF i = Len(c) + 1 THEN b ELSE c[i]]
  BY <1>1, <1>2, SMT DEF WriteAt
<1>4. Append(c, b) = [i \in 1..(Len(c) + 1) |-> IF i = Len(c) + 1 THEN b ELSE c[i]]
  <2> DEFINE a == Append(c, b)
  <2>1. /\ a \in Seq(Nat) /\ Len(a) = Len(c) + 1
        /\ \A i \in 1..Len(c) : a[i] = c[i]
        /\ a[Len(c) + 1] = b
    BY AppendProperties, SMT DEF Contents
  <2> HIDE DEF a
  <2>2. a = [i \in 1..(Len(c) + 1) |-> a[i]]
    BY <2>1, SMT
  <2>3. \A i \in 1..(Len(c) + 1) : a[i] = IF i = Len(c) + 1 THEN b ELSE c[i]
    BY <1>2, <2>1, <1>1, SMT
  <2> QED BY <2>2, <2>3, SMT DEF a
<1> QED BY <1>3, <1>4

\* The client's steps move the driver's connections along: none appears, and only the end of
\* a stream is acknowledged.
LEMMA HandlerSock ==
    ASSUME TypeOK, NEW n \in Nodes, NEW f \in Files, HandlerStep(n, f) \/ DialFails(n, f)
    PROVE  /\ \A m \in Nodes, g \in Files : sock'[m][g] # "none" => sock[m][g] # "none"
           /\ ~ReceiveEof(n, f) => \A m \in Nodes, g \in Files : sock'[m][g] = "acked" <=> sock[m][g] = "acked"
           /\ ~Receive(n, f) => idFile' = idFile
           /\ placed' = placed /\ fsFiles' = fsFiles
<1>t. sock \in [Nodes -> [Files -> SockStates]]
  BY DEF TypeOK, BaseTypeOK
<1>1. ASSUME NEW v \in SockStates \ {"none", "acked"},
             sock' = [sock EXCEPT ![n][f] = IF sock[n][f] = "open" THEN v ELSE sock[n][f]]
      PROVE  \A m \in Nodes, g \in Files :
                /\ sock'[m][g] # "none" => sock[m][g] # "none"
                /\ sock'[m][g] = "acked" <=> sock[m][g] = "acked"
  BY <1>t, <1>1, SMT
<1>2. CASE TakeRequest(n, f) \/ Lock(n, f) \/ Dial(n, f) \/ Receive(n, f)
  BY <1>2 DEF TakeRequest, Lock, Dial, Receive
<1>3. CASE Panic(n, f)
  <2>1. sock' = [sock EXCEPT ![n] = [g \in Files |->
                   IF sock[n][g] \in {"open", "naked"} THEN "closed" ELSE sock[n][g]]]
    BY <1>3 DEF Panic
  <2>2. \A m \in Nodes, g \in Files :
           /\ sock'[m][g] # "none" => sock[m][g] # "none"
           /\ sock'[m][g] = "acked" <=> sock[m][g] = "acked"
    BY <1>t, <2>1, SMT
  <2> QED BY <1>3, <2>2 DEF Panic
<1>4. CASE DialFails(n, f) \/ AckNo(n, f)
  <2>1. sock' = [sock EXCEPT ![n][f] = IF sock[n][f] = "open" THEN "naked" ELSE sock[n][f]]
    BY <1>4 DEF DialFails, AckNo, Refuse
  <2>2. "naked" \in SockStates \ {"none", "acked"}
    BY DEF SockStates
  <2> QED BY <1>1, <1>4, <2>1, <2>2 DEF DialFails, AckNo
<1>5. CASE AckYes(n, f)
  <2>1. CASE req[n][f].path
    BY <1>5, <2>1 DEF AckYes
  <2>2. CASE ~req[n][f].path
    <3>1. sock' = [sock EXCEPT ![n][f] = IF sock[n][f] = "open" THEN "naked" ELSE sock[n][f]]
      BY <1>5, <2>2 DEF AckYes, Refuse
    <3>2. "naked" \in SockStates \ {"none", "acked"}
      BY DEF SockStates
    <3> QED BY <1>1, <1>5, <3>1, <3>2 DEF AckYes
  <2> QED BY <2>1, <2>2
<1>6. CASE ReceiveError(n, f)
  <2>1. sock' = [sock EXCEPT ![n][f] = IF sock[n][f] = "open" THEN "closed" ELSE sock[n][f]]
    BY <1>6 DEF ReceiveError
  <2>2. "closed" \in SockStates \ {"none", "acked"}
    BY DEF SockStates
  <2> QED BY <1>1, <1>6, <2>1, <2>2 DEF ReceiveError
<1>7. CASE ReceiveEof(n, f)
  <2>1. sock' = [sock EXCEPT ![n][f] = IF sock[n][f] = "open" THEN "acked" ELSE sock[n][f]]
    BY <1>7 DEF ReceiveEof
  <2>2. \A m \in Nodes, g \in Files : sock'[m][g] # "none" => sock[m][g] # "none"
    BY <1>t, <2>1, SMT
  <2> QED BY <1>7, <2>2 DEF ReceiveEof
<1> QED BY <1>2, <1>3, <1>4, <1>5, <1>6, <1>7 DEF HandlerStep

\* Without readers on the writer's node, closing a file for reading, or a file that is not an ID file,
\* adds no file to doneSent.
LEMMA ReleaseAddsNone ==
    ASSUME WrittenOnce, OnceInv, TypeOK, NEW n \in Nodes,
           ReleaseOther(n) \/ \E f \in Files : ReleaseRead(n, f)
    PROVE  doneSent' = doneSent
<1>1. ASSUME NEW name, SendDone(n, name), name = NoPath \/ (name \in Files /\ Writer[name] # n)
      PROVE  doneSent' = doneSent
  <2>1. {f \in Files : f = name /\ Writer[f] = n} = {}
    BY <1>1
  <2> QED BY <1>1, <2>1 DEF SendDone
<1>2. CASE ReleaseOther(n)
  BY <1>1, <1>2 DEF ReleaseOther
<1>3. ASSUME NEW f \in Files, ReleaseRead(n, f) PROVE doneSent' = doneSent
  <2>1. Writer[f] # n
    BY <1>3 DEF ReleaseRead, OnceInv, WrittenOnce
  <2>2. DoneName(f) = NoPath \/ (DoneName(f) \in Files /\ Writer[DoneName(f)] # n)
    BY <2>1 DEF DoneName
  <2>3. CASE f \in needsDownload[n]
    BY <1>3, <2>3 DEF ReleaseRead
  <2>4. CASE f \notin needsDownload[n]
    BY <1>1, <1>3, <2>2, <2>4 DEF ReleaseRead
  <2> QED BY <2>3, <2>4
<1> QED BY <1>2, <1>3

\* Opening a file that was never open for writing does not change it, and writing it at its end only
\* appends to it.
LEMMA OnceWrites ==
    ASSUME WrittenOnce, OnceInv, IInv, NEW n \in Nodes, NEW f \in Files
    PROVE  /\ \A trunc \in BOOLEAN : OpenWrite(n, f, trunc) =>
                 idFile' = idFile /\ writeOnce' = writeOnce /\ sess[f] = 0
           /\ \A off \in 0..(MaxLen - 1) : WriteBuf(n, f, off) =>
                 /\ idFile' = [idFile EXCEPT ![n][f] = Append(idFile[n][f], sess[f] * MaxLen + off)]
                 /\ writeOnce' = writeOnce /\ f \notin doneSent
<1>1. /\ idFile \in [Nodes -> [Files -> Contents]] /\ idFile[n][f] \in Contents
      /\ sess \in [Files -> Nat] /\ sess[f] \in Nat /\ wopen[f] \in Nat
  <2>1. idFile \in [Nodes -> [Files -> Contents]] /\ sess \in [Files -> Nat] /\ wopen \in [Files -> Nat]
    BY DEF IInv, TypeOK, BaseTypeOK, DriverTypeOK
  <2> QED BY <2>1, SMT
<1>2. ASSUME NEW trunc \in BOOLEAN, OpenWrite(n, f, trunc)
      PROVE  idFile' = idFile /\ writeOnce' = writeOnce /\ sess[f] = 0
  <2>1. sess[f] = 0
    <3>1. sess[f] < 1
      BY <1>2 DEF OpenWrite, WrittenOnce
    <3> QED BY <1>1, <3>1, SMT
  <2>2. idFile[n][f] = <<>>
    BY <1>2, <2>1 DEF OpenWrite, IInv, SizeInv
  <2>3. (IF trunc THEN <<>> ELSE idFile[n][f]) = idFile[n][f]
    BY <2>2
  <2>4. Rewrite(n, f, idFile[n][f])
    BY <1>2, <2>3 DEF OpenWrite
  <2>5. idFile' = [idFile EXCEPT ![n][f] = idFile[n][f]] /\ writeOnce' = writeOnce
    BY <2>4 DEF Rewrite
  <2>6. idFile' = idFile
    BY <1>1, <2>5, SMT
  <2> QED BY <2>1, <2>5, <2>6
<1>3. ASSUME NEW off \in 0..(MaxLen - 1), WriteBuf(n, f, off)
      PROVE  /\ idFile' = [idFile EXCEPT ![n][f] = Append(idFile[n][f], sess[f] * MaxLen + off)]
             /\ writeOnce' = writeOnce /\ f \notin doneSent
  <2> DEFINE b == sess[f] * MaxLen + off
  <2>1. off = Len(idFile[n][f]) /\ wopen[f] > 0 /\ Rewrite(n, f, WriteAt(idFile[n][f], off, b))
    BY <1>3 DEF WriteBuf, WrittenOnce
  <2>2. b \in Nat
    <3>1. sess[f] * MaxLen \in Nat /\ off \in Nat
      BY <1>1, SMT
    <3> QED BY <3>1, SMT
  <2> HIDE DEF b
  <2>3. Rewrite(n, f, Append(idFile[n][f], b))
    BY <1>1, <2>1, <2>2, WriteAtEnd
  <2>4. f \notin doneSent
    <3>1. wopen[f] # 0
      BY <1>1, <2>1, SMT
    <3> QED BY <3>1 DEF OnceInv
  <2>5. Prefix(idFile[n][f], Append(idFile[n][f], b))
    BY <1>1, <2>2, PrefixRefl, PrefixAppend
  <2> QED BY <2>3, <2>4, <2>5 DEF Rewrite, b
<1> QED BY <1>2, <1>3

\* A step that opens no file for writing, closes none and creates none keeps OnceInv, if new inodes are of
\* files that exist, new readers are of the workload, and a connection is made for a file that is placed.
LEMMA OnceQuiet ==
    ASSUME OnceInv, UNCHANGED <<writeOnce, doneSent, sess, wopen, fsFiles>>,
           \A m \in Nodes : /\ \A g \in ropen'[m] : g \in ropen[m] \/ m \in Readers[g]
                            /\ inodes'[m] \subseteq inodes[m] \cup fsFiles
                            /\ op'[m] \in Creating => op[m] \in Creating /\ cur'[m] = cur[m],
           \A m \in Nodes, g \in Files : /\ g \in placed[m] => g \in placed'[m]
                                         /\ sock'[m][g] # "none" => sock[m][g] # "none" \/ g \in placed'[m]
    PROVE  OnceInv'
<1>1. writeOnce' = Files
  BY DEF OnceInv
<1>2. \A m \in Nodes : /\ \A g \in ropen'[m] : m \in Readers[g]
                       /\ inodes'[m] \subseteq fsFiles'
                       /\ op'[m] \in Creating => sess'[cur'[m]] = 0
  BY DEF OnceInv
<1>3. \A g \in Files : /\ g \notin fsFiles' => sess'[g] = 0
                       /\ sess'[g] <= 1
                       /\ g \in doneSent' => wopen'[g] = 0 /\ sess'[g] = 1
  BY DEF OnceInv
<1>4. \A m \in Nodes, g \in Files : sock'[m][g] # "none" => g \in placed'[m]
  BY DEF OnceInv
<1> QED BY <1>1, <1>2, <1>3, <1>4 DEF OnceInv

\* The quiet steps of the driver.
LEMMA OnceQuietSteps ==
    ASSUME WrittenOnce, IInv, OnceInv, NEW n \in Nodes,
           \/ CreateId(n) \/ MarkServers(n) \/ CreateIdFails(n) \/ ReadPoll(n) \/ ReadReply(n)
           \/ ReleaseOther(n)
           \/ \E f \in Files :
                \/ Lookup(n, f) \/ OpenRead(n, f) \/ ReleaseRead(n, f) \/ DownloadDone(n, f)
                \/ \E off \in 0..(MaxLen - 1) : WriteBuf(n, f, off)
                \/ \E k \in 1..ReadMax : Read(n, f, k)
    PROVE  OnceInv'
<1>t. /\ op \in [Nodes -> Ops] /\ cur \in [Nodes -> Files \cup {NoPath}]
      /\ inodes \in [Nodes -> SUBSET Files] /\ ropen \in [Nodes -> SUBSET Files]
      /\ placed \in [Nodes -> SUBSET Files] /\ sock \in [Nodes -> [Files -> SockStates]]
  BY DEF IInv, TypeOK, BaseTypeOK, DriverTypeOK
<1>1. CASE CreateId(n) \/ MarkServers(n)
  <2>1. /\ op[n] \in Creating /\ cur'[n] = cur[n]
        /\ \A m \in Nodes \ {n} : op'[m] = op[m] /\ cur'[m] = cur[m]
    BY <1>t, <1>1, SMT DEF CreateId, MarkServers, Goto, Creating
  <2>2. UNCHANGED <<writeOnce, doneSent, sess, wopen, fsFiles, ropen, inodes, sock>>
    BY <1>1 DEF CreateId, MarkServers
  <2>3. \A m \in Nodes : placed[m] \subseteq placed'[m]
    <3>1. CASE CreateId(n)
      <4>1. placed' = [placed EXCEPT ![n] = placed[n] \cup {cur[n]}]
        BY <3>1 DEF CreateId
      <4> QED BY <1>t, <4>1, SMT
    <3>2. CASE MarkServers(n)
      BY <3>2 DEF MarkServers
    <3> QED BY <1>1, <3>1, <3>2
  <2>4. \A m \in Nodes : op'[m] \in Creating => op[m] \in Creating /\ cur'[m] = cur[m]
    BY <2>1
  <2> QED BY <2>2, <2>3, <2>4, OnceQuiet
<1>2. CASE CreateIdFails(n) \/ ReadReply(n) \/ ReadPoll(n) \/ \E f \in Files, k \in 1..ReadMax : Read(n, f, k)
  <2>1. UNCHANGED <<writeOnce, doneSent, sess, wopen, fsFiles, ropen, inodes, sock, placed>>
    BY <1>2 DEF CreateIdFails, ReadReply, ReadPoll, Read
  <2>2. \A m \in Nodes : op'[m] \in Creating => op[m] \in Creating /\ cur'[m] = cur[m]
    <3>1. ASSUME NEW o, o \notin Creating, NEW g, Goto(n, o, g)
          PROVE  \A m \in Nodes : op'[m] \in Creating => op[m] \in Creating /\ cur'[m] = cur[m]
      BY <1>t, <3>1, GotoSets DEF IInv
    <3>2. "idle" \notin Creating /\ "read" \notin Creating
      BY DEF Creating
    <3>3. CASE ReadPoll(n)
      BY <3>3 DEF ReadPoll
    <3>4. CASE CreateIdFails(n) \/ ReadReply(n) \/ \E f \in Files, k \in 1..ReadMax : Read(n, f, k)
      BY <3>1, <3>2, <3>4 DEF CreateIdFails, ReadReply, Read
    <3> QED BY <1>2, <3>3, <3>4
  <2> QED BY <2>1, <2>2, OnceQuiet
<1>3. ASSUME NEW f \in Files, Lookup(n, f) PROVE OnceInv'
  <2>1. /\ inodes' = [inodes EXCEPT ![n] = inodes[n] \cup {f}] /\ f \in fsFiles
        /\ placed' = [placed EXCEPT ![n] = placed[n] \cup {f}]
        /\ sock' = sock \/ \E v : sock' = [sock EXCEPT ![n][f] = v]
    BY <1>3 DEF Lookup
  <2>2. UNCHANGED <<writeOnce, doneSent, sess, wopen, fsFiles, ropen, op, cur>>
    BY <1>3 DEF Lookup
  <2>3. \A m \in Nodes : inodes'[m] \subseteq inodes[m] \cup fsFiles
    BY <1>t, <2>1, SMT
  <2>4. \A m \in Nodes, g \in Files : (g \in placed[m] => g \in placed'[m]) /\ f \in placed'[n]
    BY <1>t, <2>1, SMT
  <2>5. \A m \in Nodes, g \in Files : sock'[m][g] = sock[m][g] \/ (m = n /\ g = f)
    BY <1>t, <2>1, SMT
  <2>6. \A m \in Nodes, g \in Files : sock'[m][g] # "none" => sock[m][g] # "none" \/ g \in placed'[m]
    BY <2>4, <2>5
  <2> QED BY <2>2, <2>3, <2>4, <2>6, OnceQuiet
<1>4. ASSUME NEW f \in Files, OpenRead(n, f) \/ ReleaseRead(n, f) PROVE OnceInv'
  <2>1. doneSent' = doneSent
    <3>1. CASE OpenRead(n, f)
      BY <3>1 DEF OpenRead
    <3>2. CASE ReleaseRead(n, f)
      BY <3>2, ReleaseAddsNone DEF IInv
    <3> QED BY <1>4, <3>1, <3>2
  <2>2. UNCHANGED <<writeOnce, sess, wopen, fsFiles, op, cur, inodes, sock, placed>>
    BY <1>4 DEF OpenRead, ReleaseRead
  <2>3. \/ ropen' = [ropen EXCEPT ![n] = ropen[n] \cup {f}] /\ n \in Readers[f]
        \/ ropen' = [ropen EXCEPT ![n] = ropen[n] \ {f}]
    BY <1>4 DEF OpenRead, ReleaseRead
  <2>4. \A m \in Nodes : \A g \in ropen'[m] : g \in ropen[m] \/ m \in Readers[g]
    <3>1. ASSUME NEW v, ropen' = [ropen EXCEPT ![n] = v]
          PROVE  \A m \in Nodes : ropen'[m] = IF m = n THEN v ELSE ropen[m]
      BY <1>t, <3>1, SMT
    <3>2. CASE ropen' = [ropen EXCEPT ![n] = ropen[n] \cup {f}] /\ n \in Readers[f]
      <4>1. \A m \in Nodes : ropen'[m] = IF m = n THEN ropen[n] \cup {f} ELSE ropen[m]
        BY <3>1, <3>2
      <4> QED BY <3>2, <4>1, SMT
    <3>3. CASE ropen' = [ropen EXCEPT ![n] = ropen[n] \ {f}]
      <4>1. \A m \in Nodes : ropen'[m] = IF m = n THEN ropen[n] \ {f} ELSE ropen[m]
        BY <3>1, <3>3
      <4> QED BY <4>1
    <3> QED BY <2>3, <3>2, <3>3
  <2> QED BY <2>1, <2>2, <2>4, OnceQuiet
<1>5. ASSUME NEW f \in Files, DownloadDone(n, f) PROVE OnceInv'
  <2>1. UNCHANGED <<writeOnce, doneSent, sess, wopen, fsFiles, op, cur, inodes, ropen, sock, placed>>
    BY <1>5 DEF DownloadDone
  <2> QED BY <2>1, OnceQuiet
<1>6. ASSUME NEW f \in Files, NEW off \in 0..(MaxLen - 1), WriteBuf(n, f, off) PROVE OnceInv'
  <2>1. UNCHANGED <<doneSent, sess, wopen, fsFiles, op, cur, inodes, ropen, sock, placed>>
    BY <1>6 DEF WriteBuf
  <2>2. writeOnce' = writeOnce
    BY <1>6, OnceWrites
  <2> QED BY <2>1, <2>2, OnceQuiet
<1>7. CASE ReleaseOther(n)
  <2>1. UNCHANGED <<writeOnce, sess, wopen, fsFiles, op, cur, inodes, ropen, sock, placed>>
    BY <1>7 DEF ReleaseOther
  <2>2. doneSent' = doneSent
    BY <1>7, ReleaseAddsNone DEF IInv
  <2> QED BY <2>1, <2>2, OnceQuiet
<1> QED BY <1>1, <1>2, <1>3, <1>4, <1>5, <1>6, <1>7

\* The steps that create a file, and open, close or lose its write handle.
LEMMA OnceCreate ==
    ASSUME IInv, OnceInv, NEW n \in Nodes, NEW f \in Files, Create(n, f)
    PROVE  OnceInv'
<1>1. \A m \in Nodes : op'[m] = (IF m = n THEN "create_id" ELSE op[m]) /\ cur'[m] = IF m = n THEN f ELSE cur[m]
  BY GotoSets DEF Create, IInv
<1>2. /\ UNCHANGED <<writeOnce, doneSent, sess, wopen, ropen, inodes, sock, placed>>
      /\ fsFiles' = fsFiles \cup {f} /\ f \notin fsFiles
  BY DEF Create
<1>3. sess[f] = 0
  BY <1>2 DEF OnceInv
<1>4. \A m \in Nodes : op'[m] \in Creating => sess'[cur'[m]] = 0
  BY <1>1, <1>2, <1>3 DEF OnceInv
<1> QED BY <1>2, <1>4 DEF OnceInv

LEMMA OnceOpen ==
    ASSUME WrittenOnce, IInv, OnceInv, NEW n \in Nodes,
           MarkPath(n) \/ \E f \in Files, trunc \in BOOLEAN : OpenWrite(n, f, trunc)
    PROVE  OnceInv'
<1>1. PICK f \in Files :
         /\ f \in fsFiles /\ sess[f] = 0 /\ Writer[f] = n
         /\ inodes' = [inodes EXCEPT ![n] = inodes[n] \cup {f}]
         /\ wopen' = [wopen EXCEPT ![f] = wopen[f] + 1]
         /\ sess' = [sess EXCEPT ![f] = sess[f] + 1]
         /\ op'[n] = "idle"
  <2>t. inodes \in [Nodes -> SUBSET Files]
    BY DEF IInv, TypeOK, DriverTypeOK
  <2>1. CASE MarkPath(n)
    <3>1. op[n] = "create_path" /\ op[n] \in Creating
      BY <2>1 DEF MarkPath, Creating
    <3>2. cur[n] \in Files /\ cur[n] \in fsFiles /\ n = Writer[cur[n]]
      BY <3>1 DEF IInv, CreateInv
    <3>3. sess[cur[n]] = 0
      BY <3>1 DEF OnceInv
    <3>4. op'[n] = "idle"
      BY <2>1, GotoSets DEF MarkPath, IInv
    <3> QED BY <2>1, <3>2, <3>3, <3>4 DEF MarkPath
  <2>2. ASSUME NEW f \in Files, NEW trunc \in BOOLEAN, OpenWrite(n, f, trunc)
        PROVE  /\ f \in fsFiles /\ sess[f] = 0 /\ Writer[f] = n
               /\ inodes' = [inodes EXCEPT ![n] = inodes[n] \cup {f}]
               /\ wopen' = [wopen EXCEPT ![f] = wopen[f] + 1]
               /\ sess' = [sess EXCEPT ![f] = sess[f] + 1]
               /\ op'[n] = "idle"
    <3>1. f \in inodes[n] /\ inodes' = inodes /\ Writer[f] = n /\ op[n] = "idle" /\ op' = op
      BY <2>2 DEF OpenWrite, Idle
    <3>2. f \in fsFiles
      BY <3>1 DEF OnceInv
    <3>3. sess[f] = 0
      BY <2>2, OnceWrites
    <3>4. inodes' = [inodes EXCEPT ![n] = inodes[n] \cup {f}]
      BY <2>t, <3>1, SMT
    <3> QED BY <2>2, <3>1, <3>2, <3>3, <3>4 DEF OpenWrite
  <2> QED BY <2>1, <2>2
<1>t. /\ inodes \in [Nodes -> SUBSET Files] /\ wopen \in [Files -> Nat] /\ sess \in [Files -> Nat]
  BY DEF IInv, TypeOK, DriverTypeOK
<1>2. /\ UNCHANGED <<doneSent, fsFiles, ropen, sock, placed>> /\ writeOnce' = writeOnce
      /\ \A m \in Nodes \ {n} : op'[m] = op[m] /\ cur'[m] = cur[m]
  <2>1. CASE MarkPath(n)
    BY <2>1, GotoSets DEF MarkPath, IInv
  <2>2. ASSUME NEW g \in Files, NEW trunc \in BOOLEAN, OpenWrite(n, g, trunc)
        PROVE  UNCHANGED <<doneSent, fsFiles, ropen, sock, placed, op, cur>> /\ writeOnce' = writeOnce
    BY <2>2, OnceWrites DEF OpenWrite
  <2> QED BY <2>1, <2>2
<1>3. \A g \in Files : sess'[g] = (IF g = f THEN 1 ELSE sess[g]) /\ (g # f => wopen'[g] = wopen[g])
  BY <1>t, <1>1, SMT
<1>4. \A m \in Nodes : inodes'[m] \subseteq fsFiles'
  <2>1. \A m \in Nodes : inodes'[m] = IF m = n THEN inodes[n] \cup {f} ELSE inodes[m]
    BY <1>t, <1>1, UpdateOne
  <2>2. \A m \in Nodes : inodes[m] \subseteq fsFiles
    BY DEF OnceInv
  <2> QED BY <1>1, <1>2, <2>1, <2>2, SMT
<1>5. \A m \in Nodes : op'[m] \in Creating => sess'[cur'[m]] = 0
  <2> SUFFICES ASSUME NEW m \in Nodes, op'[m] \in Creating PROVE sess'[cur'[m]] = 0
    OBVIOUS
  <2>1. m # n /\ op[m] \in Creating /\ cur'[m] = cur[m]
    BY <1>1, <1>2 DEF Creating
  <2>2. Writer[cur[m]] = m /\ cur[m] \in Files
    BY <2>1 DEF IInv, CreateInv, Creating
  <2> QED BY <1>1, <1>3, <2>1, <2>2 DEF OnceInv
<1>6. \A g \in Files : /\ g \notin fsFiles' => sess'[g] = 0
                       /\ sess'[g] <= 1
                       /\ g \in doneSent' => wopen'[g] = 0 /\ sess'[g] = 1
  <2> SUFFICES ASSUME NEW g \in Files
               PROVE  /\ g \notin fsFiles' => sess'[g] = 0
                      /\ sess'[g] <= 1
                      /\ g \in doneSent' => wopen'[g] = 0 /\ sess'[g] = 1
    OBVIOUS
  <2>1. CASE g = f
    <3>1. g \notin doneSent
      <4>1. sess[g] # 1
        BY <1>1, <2>1, SMT
      <4> QED BY <4>1 DEF OnceInv
    <3>2. sess'[g] = 1 /\ sess'[g] <= 1
      BY <1>3, <2>1, SMT
    <3> QED BY <1>1, <1>2, <2>1, <3>1, <3>2
  <2>2. CASE g # f
    BY <1>2, <1>3, <2>2 DEF OnceInv
  <2> QED BY <2>1, <2>2
<1> QED BY <1>2, <1>4, <1>5, <1>6 DEF OnceInv

\* Closing a file for writing tells the server of it, if it has a path.
LEMMA OnceRelease ==
    ASSUME IInv, OnceInv, NEW n \in Nodes, NEW f \in Files, ReleaseWrite(n, f)
    PROVE  OnceInv' /\ (doneSent' = doneSent \/ doneSent' = doneSent \cup {f})
<1>t. wopen \in [Files -> Nat] /\ sess \in [Files -> Nat] /\ sess[f] \in Nat /\ wopen[f] \in Nat
  <2>1. wopen \in [Files -> Nat] /\ sess \in [Files -> Nat]
    BY DEF IInv, TypeOK, DriverTypeOK
  <2> QED BY <2>1, SMT
<1>1. UNCHANGED <<writeOnce, sess, fsFiles, op, cur, inodes, ropen, sock, placed>>
  BY DEF ReleaseWrite
<1>2. wopen[f] > 0 /\ wopen' = [wopen EXCEPT ![f] = wopen[f] - 1] /\ SendDone(n, DoneName(f))
  BY DEF ReleaseWrite
<1>3. sess[f] = 1 /\ wopen[f] = 1
  <2>1. sess[f] <= 1
    BY DEF OnceInv
  <2>2. wopen[f] # 0
    BY <1>t, <1>2, SMT
  <2>3. sess[f] # 0
    BY <2>2 DEF IInv, SizeInv
  <2>4. sess[f] = 1
    BY <1>t, <2>1, <2>3, SMT
  <2> QED BY <2>2, <2>4 DEF IInv, SizeInv
<1>4. \A g \in Files : wopen'[g] = IF g = f THEN 0 ELSE wopen[g]
  BY <1>t, <1>2, <1>3, SMT
<1>5. doneSent' = doneSent \/ doneSent' = doneSent \cup {f}
  <2>1. {g \in Files : g = DoneName(f) /\ Writer[g] = n} \in {{}, {f}}
    <3>1. CASE DoneName(f) = f /\ Writer[f] = n
      BY <3>1
    <3>2. CASE ~(DoneName(f) = f /\ Writer[f] = n)
      BY <3>2 DEF DoneName
    <3> QED BY <3>1, <3>2
  <2>2. doneSent' = doneSent \/ doneSent' = doneSent \cup {g \in Files : g = DoneName(f) /\ Writer[g] = n}
    BY <1>2 DEF SendDone
  <2> QED BY <2>1, <2>2
<1>6. \A g \in Files : /\ g \notin fsFiles' => sess'[g] = 0
                       /\ sess'[g] <= 1
                       /\ g \in doneSent' => wopen'[g] = 0 /\ sess'[g] = 1
  BY <1>1, <1>3, <1>4, <1>5 DEF OnceInv
<1> QED BY <1>1, <1>5, <1>6 DEF OnceInv

\* A driver that is killed loses its handles.
LEMMA OnceKill ==
    ASSUME IInv, OnceInv, NEW n \in Nodes, Kill(n)
    PROVE  OnceInv'
<1>t. inodes \in [Nodes -> SUBSET Files] /\ ropen \in [Nodes -> SUBSET Files]
  BY DEF IInv, TypeOK, DriverTypeOK
<1>1. UNCHANGED <<writeOnce, doneSent, sess, fsFiles, sock, placed>>
  BY DEF Kill
<1>2. \A m \in Nodes : op'[m] = (IF m = n THEN "idle" ELSE op[m]) /\ cur'[m] = IF m = n THEN NoPath ELSE cur[m]
  BY GotoSets DEF Kill, IInv
<1>3. inodes' = [inodes EXCEPT ![n] = {}] /\ ropen' = [ropen EXCEPT ![n] = {}]
      /\ wopen' = [f \in Files |-> IF Writer[f] = n THEN 0 ELSE wopen[f]]
  BY DEF Kill
<1>4. \A m \in Nodes : /\ inodes'[m] = IF m = n THEN {} ELSE inodes[m]
                       /\ ropen'[m] = IF m = n THEN {} ELSE ropen[m]
  BY <1>t, <1>3, SMT
<1>5. \A g \in Files : wopen'[g] = 0 \/ wopen'[g] = wopen[g]
  BY <1>3
<1>6. \A m \in Nodes : /\ \A g \in ropen'[m] : m \in Readers[g]
                       /\ inodes'[m] \subseteq fsFiles'
  BY <1>1, <1>4 DEF OnceInv
<1>7. \A m \in Nodes : op'[m] \in Creating => sess'[cur'[m]] = 0
  BY <1>1, <1>2 DEF OnceInv, Creating
<1>8. \A g \in Files : /\ g \notin fsFiles' => sess'[g] = 0
                       /\ sess'[g] <= 1
                       /\ g \in doneSent' => wopen'[g] = 0 /\ sess'[g] = 1
  BY <1>1, <1>5 DEF OnceInv
<1> QED BY <1>1, <1>6, <1>7, <1>8 DEF OnceInv

\* OnceInv is inductive, with IInv, for files that are written once.
LEMMA OnceStep ==
    ASSUME WrittenOnce, IInv, OnceInv, [Next]_vars
    PROVE  OnceInv'
<1>1. ASSUME NEW n \in Nodes, DriverNext(n) PROVE OnceInv'
  BY <1>1, OnceQuietSteps, OnceCreate, OnceOpen, OnceRelease, OnceKill DEF DriverNext, AppStep, DriverStep
<1>2. ASSUME NEW n \in Nodes, ClientNext(n) PROVE OnceInv'
  <2>1. PICK f \in Files : HandlerStep(n, f) \/ DialFails(n, f)
    BY <1>2 DEF ClientNext
  <2>2. /\ \A m \in Nodes, g \in Files : sock'[m][g] # "none" => sock[m][g] # "none"
        /\ placed' = placed /\ fsFiles' = fsFiles
    BY <2>1, HandlerSock DEF IInv
  <2>3. UNCHANGED driverVars
    BY <1>2 DEF ClientNext
  <2> QED BY <2>2, <2>3, OnceQuiet
<1>3. ASSUME NEW n \in Nodes, ServerNext(n) \/ ConnNext(n) PROVE OnceInv'
  <2>1. UNCHANGED <<driverVars, sock, placed, fsFiles>>
    BY <1>3 DEF ServerNext, HandleDone, ServerCrash, ConnNext, ConnectionStep, Accept, CopyBlock, CopyReturns,
                Check, FinalBlock, FinalReturns, Unmark
  <2> QED BY <2>1, OnceQuiet
<1>4. CASE UNCHANGED vars
  BY <1>4, OnceQuiet
<1> QED BY <1>1, <1>2, <1>3, <1>4 DEF Next

\* Each file is opened for writing at most once, and then only appended to until its server is told.
LEMMA OnceInit == Init => OnceInv
BY SMT DEF Init, BaseInit, ServerInit, ClientInit, DriverInit, OnceInv, Creating

\* What leaves the files, the lines to the servers and the acknowledgements alone is no step of FileStream.
LEMMA StreamStutter ==
    ASSUME UNCHANGED <<idFile, doneSent>>,
           \A m \in Nodes, g \in Files : sock'[m][g] = "acked" <=> sock[m][g] = "acked"
    PROVE  UNCHANGED Stream!streamVars
<1>1. \A m \in Nodes : {g \in Files : sock'[m][g] = "acked"} = {g \in Files : sock[m][g] = "acked"}
  OBVIOUS
<1>2. [m \in Nodes |-> {g \in Files : sock[m][g] = "acked"}]' = [m \in Nodes |-> {g \in Files : sock[m][g] = "acked"}]
  BY <1>1, SMT
<1>3. [f \in Files |-> idFile[Writer[f]][f]]' = [f \in Files |-> idFile[Writer[f]][f]]
  OBVIOUS
<1>4. Copies' = Copies
  BY DEF Copies
<1> QED BY <1>2, <1>3, <1>4 DEF Stream!streamVars

\* A function that differs from another in one place is that one, updated there.
LEMMA SameUpdateOne ==
    ASSUME NEW D, NEW R, NEW x \in [D -> R], NEW y \in [D -> R], NEW d \in D, NEW v,
           \A e \in D : y[e] = IF e = d THEN v ELSE x[e]
    PROVE  y = [x EXCEPT ![d] = v]
BY SMT

\* Two functions of nodes and files that agree everywhere are equal.
LEMMA SameUpdate ==
    ASSUME NEW S, NEW x \in [Nodes -> [Files -> S]], NEW y \in [Nodes -> [Files -> S]],
           NEW n \in Nodes, NEW f \in Files, NEW v,
           \A m \in Nodes, g \in Files : y[m][g] = IF m = n /\ g = f THEN v ELSE x[m][g]
    PROVE  y = [x EXCEPT ![n][f] = v]
<1>1. \A m \in Nodes : y[m] = [x EXCEPT ![n][f] = v][m]
  <2> SUFFICES ASSUME NEW m \in Nodes PROVE y[m] = [x EXCEPT ![n][f] = v][m]
    OBVIOUS
  <2>1. CASE m = n
    <3>1. [x EXCEPT ![n][f] = v][m] = [x[n] EXCEPT ![f] = v]
      BY <2>1, SMT
    <3>2. x[n] \in [Files -> S] /\ y[n] \in [Files -> S]
      BY SMT
    <3>3. y[n] = [x[n] EXCEPT ![f] = v]
      BY <3>2, SMT
    <3> QED BY <2>1, <3>1, <3>3
  <2>2. CASE m # n
    <3>1. [x EXCEPT ![n][f] = v][m] = x[m]
      BY <2>2, SMT
    <3>2. x[m] \in [Files -> S] /\ y[m] \in [Files -> S]
      BY SMT
    <3>3. y[m] = x[m]
      BY <2>2, <3>2, SMT
    <3> QED BY <3>1, <3>3
  <2> QED BY <2>1, <2>2
<1> QED BY <1>1, SMT

\* A write extends the file of the stream.
LEMMA StreamExtend ==
    ASSUME WrittenOnce, IInv, OnceInv, NEW n \in Nodes, NEW f \in Files,
           NEW off \in 0..(MaxLen - 1), WriteBuf(n, f, off)
    PROVE  Stream!Extend(f)
<1> DEFINE b == sess[f] * MaxLen + off
           c == Append(idFile[n][f], b)
<1>1. /\ idFile' = [idFile EXCEPT ![n][f] = c] /\ f \notin doneSent
      /\ n = Writer[f] /\ UNCHANGED <<doneSent, sock>>
  <2>1. \A o \in 0..(MaxLen - 1) : WriteBuf(n, f, o) =>
           /\ idFile' = [idFile EXCEPT ![n][f] = Append(idFile[n][f], sess[f] * MaxLen + o)]
           /\ f \notin doneSent
    BY OnceWrites
  <2> QED BY <2>1 DEF WriteBuf
<1>2. b \in 0..((MaxSessions + 1) * MaxLen)
  <2>1. sess[f] \in Nat /\ sess[f] <= 1
    <3>1. sess \in [Files -> Nat]
      BY DEF IInv, TypeOK, DriverTypeOK
    <3> QED BY <3>1 DEF OnceInv
  <2>2. sess[f] = 0 \/ sess[f] = 1
    BY <2>1, SMT
  <2>3. MaxSessions = 1 /\ MaxLen \in Nat
    BY DEF WrittenOnce
  <2>4. sess[f] * MaxLen \in {0, MaxLen}
    BY <2>2, <2>3, SMT
  <2>5. (MaxSessions + 1) * MaxLen = MaxLen + MaxLen
    BY <2>3, SMT
  <2> QED BY <2>3, <2>4, <2>5, SMT
<1>3. idFile \in [Nodes -> [Files -> Contents]]
  BY DEF IInv, TypeOK, BaseTypeOK
<1> HIDE DEF b
<1>4. \A m \in Nodes, g \in Files : idFile'[m][g] = IF m = n /\ g = f THEN c ELSE idFile[m][g]
  <2> HIDE DEF c
  <2> QED BY <1>1, <1>3, Update, SMT
<1>5. [g \in Files |-> idFile[Writer[g]][g]]' = [[g \in Files |-> idFile[Writer[g]][g]] EXCEPT ![f] = c]
  <2> HIDE DEF c
  <2>1. \A g \in Files : idFile'[Writer[g]][g] = IF g = f THEN c ELSE idFile[Writer[g]][g]
    <3> SUFFICES ASSUME NEW g \in Files PROVE idFile'[Writer[g]][g] = IF g = f THEN c ELSE idFile[Writer[g]][g]
      OBVIOUS
    <3>1. Writer[g] \in Nodes /\ (g = f => Writer[g] = n)
      BY <1>1
    <3> QED BY <1>4, <3>1
  <2>2. /\ [g \in Files |-> idFile[Writer[g]][g]] \in [Files -> {idFile[Writer[g]][g] : g \in Files} \cup {c}]
        /\ [g \in Files |-> idFile'[Writer[g]][g]] \in [Files -> {idFile[Writer[g]][g] : g \in Files} \cup {c}]
    BY <2>1, SMT
  <2> DEFINE F == [g \in Files |-> idFile[Writer[g]][g]]
             G == [g \in Files |-> idFile'[Writer[g]][g]]
  <2>3. \A g \in Files : G[g] = IF g = f THEN c ELSE F[g]
    BY <2>1
  <2> HIDE DEF F, G
  <2>4. F \in [Files -> {idFile[Writer[g]][g] : g \in Files} \cup {c}] /\ G \in [Files -> {idFile[Writer[g]][g] : g \in Files} \cup {c}]
    BY <2>2 DEF F, G
  <2>5. G = [F EXCEPT ![f] = c]
    BY <2>3, <2>4, SameUpdateOne, SMT
  <2> QED BY <2>5 DEF F, G
<1>6. Copies' = Copies
  <2>1. \A m \in Nodes, g \in Files : m # Writer[g] => idFile'[m][g] = idFile[m][g]
    <3> HIDE DEF c
    <3> SUFFICES ASSUME NEW m \in Nodes, NEW g \in Files, m # Writer[g] PROVE idFile'[m][g] = idFile[m][g]
      OBVIOUS
    <3>1. ~(m = n /\ g = f)
      BY <1>1
    <3> QED BY <1>4, <3>1
  <2>2. \A m \in Nodes : [g \in Files |-> IF m = Writer[g] THEN <<>> ELSE idFile'[m][g]] =
                         [g \in Files |-> IF m = Writer[g] THEN <<>> ELSE idFile[m][g]]
    BY <2>1, SMT
  <2> QED BY <2>2 DEF Copies
<1>7. [g \in Files |-> idFile[Writer[g]][g]][f] = idFile[n][f]
  BY <1>1
<1>8. [g \in Files |-> idFile[Writer[g]][g]]' =
        [[g \in Files |-> idFile[Writer[g]][g]] EXCEPT ![f] = Append([g \in Files |-> idFile[Writer[g]][g]][f], b)]
  BY <1>5, <1>7
<1> QED BY <1>1, <1>2, <1>6, <1>8 DEF Stream!Extend

\* A block that is received is the next one of the file.
LEMMA StreamFetch ==
    ASSUME IInv, OnceInv, NEW n \in Nodes, NEW f \in Files, TypeOK', Receive(n, f), UNCHANGED driverVars
    PROVE  Stream!Fetch(n, f)
<1>0. TypeOK'
  OBVIOUS
<1> DEFINE b == sent[n][f][rcvd[n][f] + 1]
           c == Append(idFile[n][f], b)
<1>1. /\ idFile' = [idFile EXCEPT ![n][f] = c] /\ UNCHANGED <<doneSent, sock>>
      /\ hpc[n][f] = "copy" /\ rcvd[n][f] < Len(sent[n][f]) /\ tcp[n][f] # "none"
  BY DEF Receive
<1>2. n # Writer[f]
  BY <1>1 DEF IInv, ConnInv, RequestInv, GoodRequest
<1>3. /\ idFile \in [Nodes -> [Files -> Contents]]
      /\ sent[n][f] \in Contents /\ idFile[n][f] \in Contents /\ idFile[Writer[f]][f] \in Contents
      /\ Writer[f] \in Nodes
  <2>1. idFile \in [Nodes -> [Files -> Contents]] /\ sent \in [Nodes -> [Files -> Contents]]
    BY DEF IInv, TypeOK, BaseTypeOK
  <2> QED BY <2>1, SMT
<1>4. rcvd[n][f] = Len(idFile[n][f]) /\ Prefix(sent[n][f], idFile[Writer[f]][f])
  BY <1>2 DEF IInv, DataInv, OnceInv
<1>r. rcvd[n][f] < Len(sent[n][f])
  BY <1>1
<1>5. Len(idFile[n][f]) < Len(idFile[Writer[f]][f]) /\ b = idFile[Writer[f]][f][Len(idFile[n][f]) + 1]
  <2>1. Len(idFile[n][f]) \in Nat /\ Len(sent[n][f]) \in Nat /\ Len(idFile[Writer[f]][f]) \in Nat
    BY <1>3, LenProperties DEF Contents
  <2>2. rcvd[n][f] + 1 \in 1..Len(sent[n][f]) /\ Len(sent[n][f]) <= Len(idFile[Writer[f]][f])
    <3>1. Len(sent[n][f]) <= Len(idFile[Writer[f]][f])
      BY <1>4 DEF Prefix
    <3>2. rcvd[n][f] \in Nat
      BY <1>4, <2>1
    <3> HIDE DEF b, c
    <3> QED BY <1>r, <2>1, <3>1, <3>2, SMT
  <2>3. b = idFile[Writer[f]][f][rcvd[n][f] + 1]
    BY <1>4, <2>2 DEF Prefix
  <2>4. Len(idFile[n][f]) < Len(idFile[Writer[f]][f])
    <3>1. Len(idFile[n][f]) < Len(sent[n][f])
      BY <1>r, <1>4
    <3> HIDE DEF b, c
    <3> QED BY <2>1, <2>2, <3>1, SMT
  <2> QED BY <1>4, <2>3, <2>4
<1> HIDE DEF b
<1>6. \A m \in Nodes, g \in Files : idFile'[m][g] = IF m = n /\ g = f THEN c ELSE idFile[m][g]
  <2> HIDE DEF c
  <2> QED BY <1>1, <1>3, Update, SMT
<1>7. [g \in Files |-> idFile[Writer[g]][g]]' = [g \in Files |-> idFile[Writer[g]][g]]
  <2>1. \A g \in Files : idFile'[Writer[g]][g] = idFile[Writer[g]][g]
    BY <1>2, <1>6
  <2> QED BY <2>1
<1>8. Copies[n][f] = idFile[n][f]
  BY <1>2 DEF Copies
<1>9. Copies' = [Copies EXCEPT ![n][f] = c]
  <2> HIDE DEF c
  <2>1. \A m \in Nodes, g \in Files :
           /\ Copies[m][g] = IF m = Writer[g] THEN <<>> ELSE idFile[m][g]
           /\ Copies'[m][g] = IF m = Writer[g] THEN <<>> ELSE idFile'[m][g]
    BY DEF Copies
  <2>2. \A m \in Nodes, g \in Files : Copies'[m][g] = IF m = n /\ g = f THEN c ELSE Copies[m][g]
    <3> SUFFICES ASSUME NEW m \in Nodes, NEW g \in Files
                 PROVE  Copies'[m][g] = IF m = n /\ g = f THEN c ELSE Copies[m][g]
      OBVIOUS
    <3>1. CASE m = n /\ g = f
      BY <1>2, <1>6, <2>1, <3>1
    <3>2. CASE ~(m = n /\ g = f)
      <4>1. idFile'[m][g] = idFile[m][g]
        BY <1>6, <3>2
      <4> QED BY <2>1, <3>2, <4>1
    <3> QED BY <3>1, <3>2
  <2>3. idFile' \in [Nodes -> [Files -> Contents]]
    BY <1>0 DEF TypeOK, BaseTypeOK
  <2>4. <<>> \in Contents
    BY SMT DEF Contents
  <2>5. Copies \in [Nodes -> [Files -> Contents]] /\ Copies' \in [Nodes -> [Files -> Contents]]
    BY <1>3, <2>3, <2>4, SMT DEF Copies
  <2> QED BY <2>2, <2>5, SameUpdate, SMT
<1>10. [g \in Files |-> idFile[Writer[g]][g]][f] = idFile[Writer[f]][f]
  OBVIOUS
<1> QED BY <1>1, <1>5, <1>7, <1>8, <1>9, <1>10 DEF Stream!Fetch

\* Closing the written file tells its server, or has no effect when that does not listen.
LEMMA StreamClose ==
    ASSUME IInv, OnceInv, NEW n \in Nodes, NEW f \in Files, ReleaseWrite(n, f)
    PROVE  Stream!Close(f) \/ UNCHANGED Stream!streamVars
<1>1. UNCHANGED <<idFile, sock>>
  BY DEF ReleaseWrite
<1>2. doneSent' = doneSent \/ doneSent' = doneSent \cup {f}
  BY OnceRelease
<1>3. CASE doneSent' = doneSent
  BY <1>1, <1>3, StreamStutter
<1>4. CASE doneSent' = doneSent \cup {f}
  <2>1. Copies' = Copies
    BY <1>1 DEF Copies
  <2> QED BY <1>1, <1>4, <2>1 DEF Stream!Close
<1> QED BY <1>2, <1>3, <1>4

\* The end of the stream is acknowledged when the copy is the whole file.
LEMMA StreamFinish ==
    ASSUME IInv, OnceInv, NEW n \in Nodes, NEW f \in Files, ReceiveEof(n, f), UNCHANGED driverVars
    PROVE  Stream!Finish(n, f) \/ UNCHANGED Stream!streamVars
<1>1. /\ sock' = [sock EXCEPT ![n][f] = IF sock[n][f] = "open" THEN "acked" ELSE sock[n][f]]
      /\ UNCHANGED <<idFile, doneSent>>
      /\ hpc[n][f] = "copy" /\ tcp[n][f] = "eof" /\ rcvd[n][f] = Len(sent[n][f])
  BY DEF ReceiveEof
<1>2. sock \in [Nodes -> [Files -> SockStates]]
  BY DEF IInv, TypeOK, BaseTypeOK
<1>3. CASE sock[n][f] # "open"
  <2>1. sock' = [sock EXCEPT ![n][f] = sock[n][f]]
    BY <1>1, <1>3
  <2>2. sock' = sock
    BY <1>2, <2>1, SMT
  <2> QED BY <1>1, <2>2, StreamStutter
<1>4. CASE sock[n][f] = "open"
  <2>1. sock' = [sock EXCEPT ![n][f] = "acked"]
    BY <1>1, <1>4
  <2>2. \A m \in Nodes, g \in Files : sock'[m][g] = IF m = n /\ g = f THEN "acked" ELSE sock[m][g]
    BY <1>2, <2>1, Update, SMT
  <2>3. idFile[n][f] = idFile[Writer[f]][f] /\ n # Writer[f] /\ f \in doneSent
    BY <1>1, EndMeansComplete DEF OnceInv
  <2>4. Copies[n][f] = [g \in Files |-> idFile[Writer[g]][g]][f]
    BY <2>3 DEF Copies
  <2>5. Copies' = Copies
    BY <1>1 DEF Copies
  <2> DEFINE A == [m \in Nodes |-> {g \in Files : sock[m][g] = "acked"}]
             B == [m \in Nodes |-> {g \in Files : sock'[m][g] = "acked"}]
  <2>6. A \in [Nodes -> SUBSET Files] /\ B \in [Nodes -> SUBSET Files]
    BY SMT
  <2>7. \A m \in Nodes : B[m] = IF m = n THEN A[n] \cup {f} ELSE A[m]
    <3> SUFFICES ASSUME NEW m \in Nodes PROVE B[m] = IF m = n THEN A[n] \cup {f} ELSE A[m]
      OBVIOUS
    <3>1. CASE m = n
      <4>1. \A g \in Files : sock'[n][g] = "acked" <=> sock[n][g] = "acked" \/ g = f
        BY <2>2
      <4> QED BY <3>1, <4>1
    <3>2. CASE m # n
      BY <2>2, <3>2
    <3> QED BY <3>1, <3>2
  <2> HIDE DEF A, B
  <2>8. B = [A EXCEPT ![n] = A[n] \cup {f}]
    BY <2>6, <2>7, SameUpdateOne, SMT
  <2>9. [m \in Nodes |-> {g \in Files : sock[m][g] = "acked"}]' =
           [[m \in Nodes |-> {g \in Files : sock[m][g] = "acked"}] EXCEPT
              ![n] = [m \in Nodes |-> {g \in Files : sock[m][g] = "acked"}][n] \cup {f}]
    BY <2>8 DEF A, B
  <2> QED BY <1>1, <2>3, <2>4, <2>5, <2>9 DEF Stream!Finish
<1> QED BY <1>3, <1>4

\* The other steps of the driver: none changes a file, and none acknowledges a download.
LEMMA StreamQuiet ==
    ASSUME WrittenOnce, IInv, OnceInv, NEW n \in Nodes,
           \/ CreateId(n) \/ MarkServers(n) \/ MarkPath(n) \/ CreateIdFails(n) \/ Kill(n)
           \/ ReadPoll(n) \/ ReadReply(n) \/ ReleaseOther(n)
           \/ \E f \in Files :
                \/ Create(n, f) \/ Lookup(n, f) \/ OpenRead(n, f) \/ ReleaseRead(n, f) \/ DownloadDone(n, f)
                \/ \E trunc \in BOOLEAN : OpenWrite(n, f, trunc)
                \/ \E k \in 1..ReadMax : Read(n, f, k)
    PROVE  UNCHANGED Stream!streamVars
<1>1. CASE \/ CreateId(n) \/ MarkServers(n) \/ MarkPath(n) \/ CreateIdFails(n) \/ Kill(n)
           \/ ReadPoll(n) \/ ReadReply(n)
           \/ \E f \in Files : \/ Create(n, f) \/ OpenRead(n, f) \/ DownloadDone(n, f)
                                \/ \E k \in 1..ReadMax : Read(n, f, k)
  <2>1. UNCHANGED <<idFile, doneSent, sock>>
    BY <1>1 DEF CreateId, MarkServers, MarkPath, CreateIdFails, Kill, ReadPoll, ReadReply, Create, OpenRead,
                DownloadDone, Read
  <2> QED BY <2>1, StreamStutter
<1>2. CASE ReleaseOther(n) \/ \E f \in Files : ReleaseRead(n, f)
  <2>1. doneSent' = doneSent
    BY <1>2, ReleaseAddsNone DEF IInv
  <2>2. UNCHANGED <<idFile, sock>>
    BY <1>2 DEF ReleaseOther, ReleaseRead
  <2> QED BY <2>1, <2>2, StreamStutter
<1>3. ASSUME NEW f \in Files, NEW trunc \in BOOLEAN, OpenWrite(n, f, trunc)
      PROVE  UNCHANGED Stream!streamVars
  <2>1. idFile' = idFile
    <3>1. \A t \in BOOLEAN : OpenWrite(n, f, t) => idFile' = idFile /\ writeOnce' = writeOnce /\ sess[f] = 0
      BY OnceWrites
    <3> QED BY <1>3, <3>1
  <2>2. UNCHANGED <<doneSent, sock>>
    BY <1>3 DEF OpenWrite
  <2> QED BY <2>1, <2>2, StreamStutter
<1>4. ASSUME NEW f \in Files, Lookup(n, f) PROVE UNCHANGED Stream!streamVars
  <2>1. UNCHANGED <<idFile, doneSent>>
    BY <1>4 DEF Lookup
  <2>2. sock \in [Nodes -> [Files -> SockStates]]
    BY DEF IInv, TypeOK, BaseTypeOK
  <2>3. CASE f \in placed[n]
    <3>1. sock' = sock
      BY <1>4, <2>3 DEF Lookup
    <3> QED BY <2>1, <3>1, StreamStutter
  <2>4. CASE f \notin placed[n]
    <3>1. PICK v \in {"open", "closed"} : sock' = [sock EXCEPT ![n][f] = v]
      BY <1>4, <2>4 DEF Lookup
    <3>2. sock[n][f] = "none"
      BY <2>4 DEF OnceInv
    <3>3. \A m \in Nodes, g \in Files : sock'[m][g] = "acked" <=> sock[m][g] = "acked"
      BY <2>2, <3>1, <3>2, SMT
    <3> QED BY <2>1, <3>3, StreamStutter
  <2> QED BY <2>3, <2>4
<1> QED BY <1>1, <1>2, <1>3, <1>4

\* Every step of the cluster is a step of FileStream, or none.
LEMMA StreamStep ==
    ASSUME WrittenOnce, IInv, OnceInv, [Next]_vars
    PROVE  [Stream!Next]_Stream!streamVars
<1>1. ASSUME NEW n \in Nodes, DriverNext(n) PROVE Stream!Next \/ UNCHANGED Stream!streamVars
  <2>1. CASE \E f \in Files : ReleaseWrite(n, f)
    BY <2>1, StreamClose DEF Stream!Next
  <2>2. CASE \E f \in Files, off \in 0..(MaxLen - 1) : WriteBuf(n, f, off)
    BY <2>2, StreamExtend DEF Stream!Next
  <2>3. CASE ~\E f \in Files : ReleaseWrite(n, f) \/ \E off \in 0..(MaxLen - 1) : WriteBuf(n, f, off)
    BY <1>1, <2>3, StreamQuiet DEF DriverNext, AppStep, DriverStep
  <2> QED BY <2>1, <2>2, <2>3
<1>2. ASSUME NEW n \in Nodes, ClientNext(n) PROVE Stream!Next \/ UNCHANGED Stream!streamVars
  <2>1. PICK f \in Files : HandlerStep(n, f) \/ DialFails(n, f)
    BY <1>2 DEF ClientNext
  <2>2. UNCHANGED driverVars
    BY <1>2 DEF ClientNext
  <2>3. CASE Receive(n, f)
    <3>1. TypeOK'
      BY TypeStep DEF IInv
    <3> QED BY <2>2, <2>3, <3>1, StreamFetch DEF Stream!Next
  <2>4. CASE ReceiveEof(n, f)
    BY <2>2, <2>4, StreamFinish DEF Stream!Next
  <2>5. CASE ~Receive(n, f) /\ ~ReceiveEof(n, f)
    BY <2>1, <2>2, <2>5, HandlerSock, StreamStutter DEF IInv
  <2> QED BY <2>3, <2>4, <2>5
<1>3. ASSUME NEW n \in Nodes, ServerNext(n) \/ ConnNext(n) PROVE UNCHANGED Stream!streamVars
  <2>1. UNCHANGED <<driverVars, sock, idFile>>
    BY <1>3 DEF ServerNext, HandleDone, ServerCrash, ConnNext, ConnectionStep, Accept, CopyBlock, CopyReturns,
                Check, FinalBlock, FinalReturns, Unmark
  <2> QED BY <2>1, StreamStutter
<1>4. CASE UNCHANGED vars
  BY <1>4, StreamStutter
<1> QED BY <1>1, <1>2, <1>3, <1>4 DEF Next

\* At first there are no blocks, no copies and no acknowledgements.
LEMMA StreamInit == Init => Stream!Init
<1> SUFFICES ASSUME Init PROVE Stream!Init
  OBVIOUS
<1>1. /\ \A m \in Nodes, g \in Files : idFile[m][g] = <<>> /\ sock[m][g] = "none"
      /\ doneSent = {}
  BY DEF Init, BaseInit, DriverInit
<1>2. [g \in Files |-> idFile[Writer[g]][g]] = [g \in Files |-> <<>>]
  BY <1>1
<1>3. Copies = [m \in Nodes |-> [g \in Files |-> <<>>]]
  <2>1. \A m \in Nodes : [g \in Files |-> IF m = Writer[g] THEN <<>> ELSE idFile[m][g]] = [g \in Files |-> <<>>]
    <3>1. \A m \in Nodes, g \in Files : (IF m = Writer[g] THEN <<>> ELSE idFile[m][g]) = <<>>
      BY <1>1
    <3> QED BY <3>1
  <2> QED BY <2>1 DEF Copies
<1>4. \A m \in Nodes : {g \in Files : sock[m][g] = "acked"} = {}
  BY <1>1
<1>5. [m \in Nodes |-> {g \in Files : sock[m][g] = "acked"}] = [m \in Nodes |-> {}]
  BY <1>4
<1> QED BY <1>1, <1>2, <1>3, <1>5 DEF Stream!Init

\* For files that are written once, front to back, on nodes without readers, drivers, clients and servers
\* implement FileStream, whatever crashes and fails: a copy grows by the next block of the file and is
\* acknowledged only when the file is closed and the copy equal to it (do_write_buf, sfs_release,
\* fuseConnectionHandler, handleConnection).
THEOREM StreamRefinement ==
    ASSUME WrittenOnce
    PROVE  Spec => StreamSpec
<1>1. Init => OnceInv
  BY OnceInit
<1>2. IInv /\ OnceInv /\ [Next]_vars => OnceInv'
  BY OnceStep
<1>3. Spec => []OnceInv
  BY <1>1, <1>2, Invariance, PTL DEF Spec
<1>4. IInv /\ OnceInv /\ [Next]_vars => [Stream!Next]_Stream!streamVars
  BY StreamStep
<1>5. Init => Stream!Init
  BY StreamInit
<1> QED
  BY <1>3, <1>4, <1>5, Invariance, PTL DEF Spec, StreamSpec, Stream!Spec
=============================================================================
