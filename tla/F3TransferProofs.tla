-------------------------- MODULE F3TransferProofs --------------------------
(***************************************************************************)
(* The steps of the transfer clients and servers keep IInv.                *)
(* Every lemma has one step per conjunct of IInv that the action can       *)
(* disturb; the frame lemmas take care of the others.                      *)
(***************************************************************************)
EXTENDS F3TypeProofs

USE BaseAssumption, Zenon
USE DEF fsVars, idVars, udsVars, tcpVars, serverVars, serverOthers,
        clientVars, clientOthers, handlerVars, inodeVars, handleVars, history,
        driverVars, baseVars, vars

\* The client's steps other than those that copy blocks: they move the handler
\* and its connections along.
LEMMA HandlerKeeps ==
    ASSUME IInv, TypeOK', NEW n \in Nodes, NEW f \in Files,
           \/ TakeRequest(n, f) \/ Lock(n, f) \/ Dial(n, f) \/ DialFails(n, f)
           \/ Panic(n, f) \/ AckYes(n, f) \/ AckNo(n, f)
           \/ ReceiveEof(n, f) \/ ReceiveError(n, f),
           UNCHANGED <<serverVars, driverVars>>
    PROVE  IInv'
<1>1. RequestInv /\ ConnInv /\ DoneInv
  BY DEF IInv
<1>2. CreateInv' /\ DataInv' /\ SeenInv' /\ SizeInv'
  <2>1. UNCHANGED <<fsVars, placed, idFile, rcvd, sent>>
    BY DEF TakeRequest, Lock, Dial, DialFails, Panic, AckYes, AckNo, ReceiveEof, ReceiveError
  <2> QED BY <2>1, CreateFrame, DataFrame, SeenFrame, SizeFrame DEF IInv
<1> SUFFICES RequestInv' /\ ConnInv' /\ DoneInv'
  BY <1>2 DEF IInv, TypeOK
<1>t. /\ hpc \in [Nodes -> [Files -> ClientStates]]
      /\ sock \in [Nodes -> [Files -> SockStates]]
      /\ req \in [Nodes -> [Files -> Requests]]
      /\ tcp \in [Nodes -> [Files -> TcpStates]]
      /\ srv \in [Nodes -> [Files -> Nodes \cup {NoNode}]]
  BY DEF IInv, TypeOK, BaseTypeOK, ClientTypeOK
<1>r. ASSUME Refuse(n, f)
      PROVE  \A m \in Nodes, g \in Files :
                /\ hpc'[m][g] = IF m = n /\ g = f THEN "failed" ELSE hpc[m][g]
                /\ sock'[m][g] = "acked" => sock[m][g] = "acked"
                /\ sock'[n][f] = "acked" => sock[n][f] = "acked"
  BY <1>t, <1>r, Update, SMT DEF Refuse
<1>3. CASE TakeRequest(n, f)
  <2>1. PICK r \in reqs[n][f] : req' = [req EXCEPT ![n][f] = r]
    BY <1>3 DEF TakeRequest
  <2>2. \A m \in Nodes, g \in Files :
           /\ req'[m][g] = IF m = n /\ g = f THEN r ELSE req[m][g]
           /\ hpc'[m][g] = IF m = n /\ g = f THEN "lock" ELSE hpc[m][g]
    BY <1>3, <1>t, <2>1, Update, SMT DEF TakeRequest
  <2>3. RequestInv'
    BY <1>1, <1>3, <2>2, SMT DEF TakeRequest, RequestInv, GoodRequest
  <2>4. srv[n][f] = NoNode /\ tcp[n][f] = "none" /\ spc[n][f] = "none"
    BY <1>1, <1>3 DEF TakeRequest, ConnInv
  <2>5. UNCHANGED <<tcp, srv, sent, sock, rcvd, doneMsgs, idFile>> /\ hpc[n][f] = "idle"
    BY <1>3 DEF TakeRequest
  <2>6. ConnInv'
    BY <1>1, <2>2, <2>4, <2>5, SMT DEF ConnInv
  <2>7. DoneInv'
    BY <1>1, <2>2, <2>4, <2>5, SMT DEF DoneInv
  <2> QED BY <2>3, <2>6, <2>7
<1>4. CASE Lock(n, f)
  <2>1. \A m \in Nodes, g \in Files :
           hpc'[m][g] = IF m = n /\ g = f THEN "dial" ELSE hpc[m][g]
    BY <1>4, <1>t, Update, SMT DEF Lock
  <2>2. UNCHANGED <<tcp, srv, sent, sock, rcvd, req, reqs, doneMsgs, idFile>> /\ hpc[n][f] = "lock"
    BY <1>4 DEF Lock
  <2>3. ConnInv'
    BY <1>1, <2>1, <2>2, SMT DEF ConnInv
  <2> QED BY <1>1, <2>2, <2>3, RequestFrame, DoneFrame
<1>5. CASE Dial(n, f)
  <2>1. \A m \in Nodes, g \in Files :
           /\ hpc'[m][g] = IF m = n /\ g = f THEN "ack" ELSE hpc[m][g]
           /\ srv'[m][g] = IF m = n /\ g = f THEN req[n][f].server ELSE srv[m][g]
           /\ tcp'[m][g] = IF m = n /\ g = f THEN "request" ELSE tcp[m][g]
    BY <1>5, <1>t, Update, SMT DEF Dial
  <2>2. /\ UNCHANGED <<sent, sock, rcvd, req, reqs, doneMsgs, idFile>>
        /\ hpc[n][f] = "dial" /\ req[n][f].server # NoNode
    BY <1>5 DEF Dial
  <2>3. ConnInv'
    BY <1>1, <2>1, <2>2, SMT DEF ConnInv
  <2>4. DoneInv'
    BY <1>1, <2>1, <2>2, SMT DEF DoneInv
  <2> QED BY <1>1, <2>2, <2>3, <2>4, RequestFrame
<1>6. CASE DialFails(n, f)
  <2>1. /\ UNCHANGED <<tcp, srv, sent, rcvd, req, reqs, doneMsgs, idFile>>
        /\ hpc[n][f] = "dial" /\ Refuse(n, f)
    BY <1>6 DEF DialFails
  <2>2. ConnInv'
    BY <1>1, <1>r, <2>1, SMT DEF ConnInv
  <2> QED BY <1>1, <2>1, <2>2, RequestFrame, DoneFrame
<1>7. CASE Panic(n, f)
  <2>1. \A m \in Nodes, g \in Files :
           /\ hpc'[m][g] = hpc[m][g] \/ (hpc'[m][g] = "failed" /\ hpc[m][g] # "done")
           /\ sock'[m][g] = "acked" => sock[m][g] = "acked"
           /\ \/ tcp'[m][g] = tcp[m][g]
              \/ tcp'[m][g] = "gone" /\ tcp[m][g] \in {"request", "yes"}
    <3> SUFFICES ASSUME NEW m \in Nodes, NEW g \in Files
                 PROVE  /\ hpc'[m][g] = hpc[m][g] \/ (hpc'[m][g] = "failed" /\ hpc[m][g] # "done")
                        /\ sock'[m][g] = "acked" => sock[m][g] = "acked"
                        /\ \/ tcp'[m][g] = tcp[m][g]
                           \/ tcp'[m][g] = "gone" /\ tcp[m][g] \in {"request", "yes"}
      OBVIOUS
    <3>1. hpc'[m][g] = IF m # n \/ hpc[m][g] \in {"idle", "done"} THEN hpc[m][g] ELSE "failed"
      BY <1>7, <1>t DEF Panic
    <3>2. sock'[m][g] = IF m = n /\ sock[m][g] \in {"open", "naked"} THEN "closed" ELSE sock[m][g]
      BY <1>7, <1>t DEF Panic
    <3>3. tcp'[m][g] = IF m = n /\ tcp[m][g] \in {"request", "yes"} THEN "gone" ELSE tcp[m][g]
      BY <1>7, <1>t DEF Panic
    <3> QED BY <3>1, <3>2, <3>3
  <2>2. UNCHANGED <<srv, sent, rcvd, req, reqs, doneMsgs, idFile>>
    BY <1>7 DEF Panic
  <2>3. ConnInv'
    BY <1>1, <2>1, <2>2, SMT DEF ConnInv
  <2>4. DoneInv'
    BY <1>1, <2>1, <2>2, SMT DEF DoneInv
  <2> QED BY <1>1, <2>2, <2>3, <2>4, RequestFrame
<1>8. CASE AckYes(n, f)
  <2>1. /\ UNCHANGED <<tcp, srv, sent, rcvd, req, reqs, doneMsgs, idFile>>
        /\ hpc[n][f] = "ack"
    BY <1>8 DEF AckYes
  <2>2. CASE req[n][f].path
    <3>1. hpc' = [hpc EXCEPT ![n][f] = "copy"] /\ sock' = sock
      BY <1>8, <2>2, Zenon DEF AckYes
    <3>2. \A m \in Nodes, g \in Files :
             hpc'[m][g] = IF m = n /\ g = f THEN "copy" ELSE hpc[m][g]
      BY <1>t, <3>1, Update, SMT
    <3>3. ConnInv'
      BY <1>1, <2>1, <2>2, <3>1, <3>2, SMT DEF ConnInv
    <3> QED BY <1>1, <2>1, <3>3, RequestFrame, DoneFrame
  <2>3. CASE ~req[n][f].path
    <3>1. Refuse(n, f)
      BY <1>8, <2>3, Zenon DEF AckYes
    <3>2. ConnInv'
      BY <1>1, <1>r, <2>1, <3>1, SMT DEF ConnInv
    <3> QED BY <1>1, <2>1, <3>2, RequestFrame, DoneFrame
  <2> QED BY <2>2, <2>3
<1>9. CASE AckNo(n, f)
  <2>1. \A m \in Nodes, g \in Files :
           tcp'[m][g] = IF m = n /\ g = f THEN "gone" ELSE tcp[m][g]
    BY <1>9, <1>t, Update, SMT DEF AckNo
  <2>2. /\ UNCHANGED <<srv, sent, rcvd, req, reqs, doneMsgs, idFile>>
        /\ hpc[n][f] = "ack" /\ tcp[n][f] \in {"no", "reset"} /\ Refuse(n, f)
    BY <1>9 DEF AckNo
  <2>3. ConnInv'
    BY <1>1, <1>r, <2>1, <2>2, SMT DEF ConnInv
  <2>4. DoneInv'
    BY <1>1, <2>1, <2>2, SMT DEF DoneInv
  <2> QED BY <1>1, <2>2, <2>3, <2>4, RequestFrame
<1>10. CASE ReceiveEof(n, f)
  <2>1. \A m \in Nodes, g \in Files :
           /\ hpc'[m][g] = IF m = n /\ g = f THEN "done" ELSE hpc[m][g]
           /\ sock'[m][g] = "acked" => sock[m][g] = "acked" \/ (m = n /\ g = f)
    BY <1>10, <1>t, Update, SMT DEF ReceiveEof
  <2>2. /\ UNCHANGED <<tcp, srv, spc, sent, rcvd, req, reqs, doneMsgs, idFile>>
        /\ hpc[n][f] = "copy" /\ tcp[n][f] = "eof" /\ rcvd[n][f] = Len(sent[n][f])
    BY <1>10 DEF ReceiveEof
  <2>3. ConnInv'
    BY <1>1, <2>1, <2>2, SMT DEF ConnInv
  <2> QED BY <1>1, <2>2, <2>3, RequestFrame, DoneFrame
<1>11. CASE ReceiveError(n, f)
  <2>1. \A m \in Nodes, g \in Files :
           /\ hpc'[m][g] = IF m = n /\ g = f THEN "failed" ELSE hpc[m][g]
           /\ sock'[m][g] = "acked" => sock[m][g] = "acked"
    BY <1>11, <1>t, Update, SMT DEF ReceiveError
  <2>2. /\ UNCHANGED <<tcp, srv, spc, sent, rcvd, req, reqs, doneMsgs, idFile>>
        /\ hpc[n][f] = "copy"
    BY <1>11 DEF ReceiveError
  <2>3. ConnInv'
    BY <1>1, <2>1, <2>2, SMT DEF ConnInv
  <2> QED BY <1>1, <2>2, <2>3, RequestFrame, DoneFrame
<1> QED
  BY <1>3, <1>4, <1>5, <1>6, <1>7, <1>8, <1>9, <1>10, <1>11

\* The next block goes to the end of the copy, on a node that is not the
\* writer's.
LEMMA ReceiveKeeps ==
    ASSUME IInv, TypeOK', NEW n \in Nodes, NEW f \in Files, Receive(n, f),
           UNCHANGED <<serverVars, driverVars>>
    PROVE  IInv'
<1> DEFINE b == sent[n][f][rcvd[n][f] + 1]
           c == Append(idFile[n][f], b)
<1>1. TypeOK /\ RequestInv /\ ConnInv /\ DataInv /\ DoneInv /\ SeenInv /\ SizeInv
  BY DEF IInv
<1>2. CreateInv' /\ RequestInv'
  BY CreateFrame, RequestFrame DEF IInv, Receive
<1>3. n # Writer[f]
  BY <1>1 DEF Receive, ConnInv, RequestInv, GoodRequest
<1>4. \A m \in Nodes, g \in Files :
         /\ idFile[m][g] \in Contents /\ sent[m][g] \in Contents
         /\ seen[m][g] \in Contents /\ rcvd[m][g] \in Nat
  BY <1>1, SMT DEF TypeOK, BaseTypeOK, ClientTypeOK, DriverTypeOK
<1>5. /\ \A m \in Nodes, g \in Files :
            idFile'[m][g] = IF m = n /\ g = f THEN c ELSE idFile[m][g]
      /\ \A m \in Nodes, g \in Files :
            rcvd'[m][g] = IF m = n /\ g = f THEN rcvd[n][f] + 1 ELSE rcvd[m][g]
  <2>1. idFile' = [idFile EXCEPT ![n][f] = c]
    BY DEF Receive
  <2>2. rcvd' = [rcvd EXCEPT ![n][f] = rcvd[n][f] + 1]
    BY DEF Receive
  <2>3. /\ idFile \in [Nodes -> [Files -> Contents]]
        /\ rcvd \in [Nodes -> [Files -> Nat]]
    BY <1>1 DEF TypeOK, BaseTypeOK, ClientTypeOK
  <2> HIDE DEF c
  <2> QED BY <2>1, <2>2, <2>3, Update, SMT
<1>6. /\ rcvd[n][f] = Len(idFile[n][f]) /\ Prefix(idFile[n][f], sent[n][f])
      /\ rcvd[n][f] < Len(sent[n][f]) /\ hpc[n][f] = "copy"
      /\ UNCHANGED <<hpc, srv, req, tcp, spc, sent, sock, writeComplete, doneSent,
                     doneMsgs, writeOnce, seen, sess, size, xSize, wopen>>
  BY <1>1, <1>3 DEF Receive, DataInv
<1>7. b \in Nat
  <2>1. rcvd[n][f] + 1 \in 1..Len(sent[n][f])
    BY <1>4, <1>6, SMT DEF Contents
  <2> QED BY <1>4, <2>1, ElementOfSeq DEF Contents
<1>8. Prefix(c, sent[n][f]) /\ Len(c) = rcvd[n][f] + 1
  <2>1. Prefix(c, sent[n][f])
    BY <1>4, <1>6, PrefixNext
  <2>2. Len(c) = rcvd[n][f] + 1
    BY <1>4, <1>6, <1>7, AppendProperties, SMT DEF Contents
  <2> QED BY <2>1, <2>2
<1>9. \A g \in Files : idFile'[Writer[g]][g] = idFile[Writer[g]][g]
  BY <1>3, <1>5
<1> HIDE DEF c
<1>10. ConnInv'
  BY <1>1, <1>5, <1>6, SMT DEF ConnInv
<1>11. DataInv'
  BY <1>1, <1>5, <1>6, <1>8, <1>9, SMT DEF DataInv
<1>12. DoneInv'
  BY <1>1, <1>6, <1>9, SMT DEF DoneInv
<1>13. SeenInv'
  <2>1. f \in writeOnce => Prefix(seen[n][f], c)
    BY <1>1, <1>4, <1>7, PrefixAppend DEF SeenInv, c
  <2>2. writeOnce \subseteq Files
    BY <1>1 DEF TypeOK, DriverTypeOK
  <2> QED BY <1>1, <1>5, <1>6, <2>1, <2>2 DEF SeenInv
<1>14. SizeInv'
  BY <1>1, <1>6, <1>9 DEF SizeInv
<1> QED
  BY <1>2, <1>10, <1>11, <1>12, <1>13, <1>14 DEF IInv

\* A block the server sends is the next block of the writer's file.
LEMMA SendKeeps ==
    ASSUME IInv, TypeOK', NEW n \in Nodes, NEW f \in Files,
           CopyBlock(n, f) \/ FinalBlock(n, f), UNCHANGED <<clientVars, driverVars>>
    PROVE  IInv'
<1> DEFINE b == Source(n, f)[Len(sent[n][f]) + 1]
           c == Append(sent[n][f], b)
           w == idFile[Writer[f]][f]
<1>1. TypeOK /\ RequestInv /\ ConnInv /\ DataInv /\ DoneInv
  BY DEF IInv
<1>2. CreateInv' /\ RequestInv' /\ SeenInv' /\ SizeInv'
  BY CreateFrame, RequestFrame, SeenFrame, SizeFrame DEF IInv, CopyBlock, FinalBlock
<1>3. /\ SendBlock(n, f) /\ spc[n][f] # "none" /\ tcp[n][f] = "yes"
      /\ UNCHANGED <<hpc, srv, req, tcp, spc, rcvd, sock, writeComplete, doneSent,
                     doneMsgs, idFile, writeOnce>>
  BY DEF CopyBlock, FinalBlock, SendBlock
<1>4. /\ \A m \in Nodes, g \in Files :
            idFile[m][g] \in Contents /\ sent[m][g] \in Contents
      /\ sent \in [Nodes -> [Files -> Contents]]
  BY <1>1, SMTT(30) DEF TypeOK, BaseTypeOK
<1>5. srv[n][f] # NoNode /\ srv[n][f] = Writer[f]
  <2>1. srv[n][f] # NoNode
    <3>1. srv[n][f] = NoNode => spc[n][f] = "none"
      BY <1>1 DEF ConnInv
    <3> QED BY <1>3, <3>1
  <2>2. srv[n][f] = req[n][f].server
    BY <1>1, <2>1 DEF ConnInv
  <2>3. GoodRequest(n, f, req[n][f])
    BY <1>1 DEF RequestInv
  <2> QED BY <2>1, <2>2, <2>3 DEF GoodRequest
<1>6. Source(n, f) = w
  <2>1. Source(n, f) = <<>> \/ Source(n, f) = w
    BY <1>5 DEF Source
  <2>2. Len(sent[n][f]) < Len(Source(n, f)) /\ Len(sent[n][f]) \in Nat
    BY <1>3, <1>4, LenProperties DEF SendBlock, Contents
  <2>3. Source(n, f) # <<>>
    BY <2>2, SMT
  <2> QED BY <2>1, <2>3
<1>7. /\ Len(sent[n][f]) < Len(w) /\ b = w[Len(sent[n][f]) + 1]
      /\ sent' = [sent EXCEPT ![n][f] = c]
  BY <1>3, <1>6 DEF SendBlock
<1>8. w \in Contents /\ b \in Nat
  <2>1. w \in Contents
    BY <1>4
  <2>2. Len(sent[n][f]) + 1 \in 1..Len(w)
    <3> HIDE DEF w
    <3> QED BY <1>4, <1>7, <2>1, SMT DEF Contents
  <2>3. w[Len(sent[n][f]) + 1] \in Nat
    <3> HIDE DEF w
    <3> QED BY <2>1, <2>2, ElementOfSeq DEF Contents
  <2> QED BY <1>7, <2>1, <2>3
<1>9. \A m \in Nodes, g \in Files :
         sent'[m][g] = IF m = n /\ g = f THEN c ELSE sent[m][g]
  <2> HIDE DEF c
  <2> QED BY <1>4, <1>7, Update, SMT
<1>10. ConnInv'
  <2> HIDE DEF c
  <2> QED BY <1>1, <1>3, <1>5, <1>9, SMTT(30) DEF ConnInv
<1>11. DataInv'
  <2>1. n # Writer[f] => Prefix(idFile[n][f], c)
    <3>1. n # Writer[f] => Prefix(idFile[n][f], sent[n][f])
      BY <1>1 DEF DataInv
    <3> HIDE DEF b
    <3> QED BY <1>4, <1>8, <3>1, PrefixAppend
  <2>2. f \in writeOnce => Prefix(c, w)
    <3>1. f \in writeOnce => Prefix(sent[n][f], w)
      BY <1>1 DEF DataInv
    <3>2. c = Append(sent[n][f], w[Len(sent[n][f]) + 1])
      BY <1>7
    <3> HIDE DEF w, c
    <3> QED BY <1>4, <1>7, <1>8, <3>1, <3>2, PrefixNext
  <2> HIDE DEF c
  <2> QED BY <1>1, <1>3, <1>9, <2>1, <2>2, SMT DEF DataInv
<1>12. DoneInv'
  <2> HIDE DEF c
  <2> QED BY <1>1, <1>3, <1>9, SMT DEF DoneInv
<1> QED
  BY <1>2, <1>10, <1>11, <1>12 DEF IInv

\* The other steps of a connection.  The stream ends only after the last copy
\* found the end of a file that is in the map.
LEMMA ConnectionKeeps ==
    ASSUME IInv, TypeOK', NEW n \in Nodes, NEW f \in Files,
           \/ Accept(n, f) \/ CopyReturns(n, f) \/ Check(n, f)
           \/ FinalReturns(n, f) \/ Unmark(n, f),
           UNCHANGED <<clientVars, driverVars>>
    PROVE  IInv'
<1>1. RequestInv /\ ConnInv /\ DataInv /\ DoneInv
  BY DEF IInv
<1>2. CreateInv' /\ RequestInv' /\ DataInv' /\ SeenInv' /\ SizeInv'
  <2>1. UNCHANGED <<fsVars, idVars, sent, req, reqs>>
    BY DEF Accept, CopyReturns, Check, FinalReturns, Unmark
  <2> QED BY <2>1, CreateFrame, RequestFrame, DataFrame, SeenFrame, SizeFrame DEF IInv
<1> SUFFICES ConnInv' /\ DoneInv'
  BY <1>2 DEF IInv
<1>t. /\ tcp \in [Nodes -> [Files -> TcpStates]]
      /\ spc \in [Nodes -> [Files -> ServerStates]]
      /\ writeComplete \in [Nodes -> SUBSET (Files \cup {NoPath})]
      /\ writeOnce \subseteq Files
      /\ \A m \in Nodes, g \in Files :
            idFile[m][g] \in Contents /\ sent[m][g] \in Contents
  <2>1. /\ tcp \in [Nodes -> [Files -> TcpStates]]
        /\ spc \in [Nodes -> [Files -> ServerStates]]
        /\ writeComplete \in [Nodes -> SUBSET (Files \cup {NoPath})]
        /\ writeOnce \subseteq Files
        /\ idFile \in [Nodes -> [Files -> Contents]]
        /\ sent \in [Nodes -> [Files -> Contents]]
    BY DEF IInv, TypeOK, BaseTypeOK, ServerTypeOK, DriverTypeOK
  <2> QED BY <2>1, SMT
<1>u. UNCHANGED <<hpc, srv, req, sent, rcvd, sock, doneSent, doneMsgs, idFile, writeOnce>>
  BY ZenonT(40) DEF Accept, CopyReturns, Check, FinalReturns, Unmark
<1>s. srv[n][f] # NoNode /\ srv[n][f] = Writer[f]
  BY <1>1, SMT DEF Accept, CopyReturns, Check, FinalReturns, Unmark, ConnInv, RequestInv, GoodRequest
<1>c. ConnInv
  BY <1>1
<1>d. DoneInv
  BY <1>1
<1>3. CASE Accept(n, f)
  <2>1. \A m \in Nodes, g \in Files :
           /\ spc'[m][g] = spc[m][g] \/ (spc'[m][g] \in {"copy", "ended"} /\ m = n /\ g = f)
           /\ tcp'[m][g] = tcp[m][g] \/ (tcp'[m][g] \in {"yes", "no"} /\ tcp[m][g] = "request")
    BY <1>3, <1>t, Update, SMT DEF Accept
  <2>2. writeComplete' = writeComplete
    BY <1>3 DEF Accept
  <2>3. ConnInv'
    BY <1>c, <1>s, <1>u, <2>1, SMTT(30) DEF ConnInv
  <2>4. DoneInv'
    BY <1>d, <1>u, <2>1, <2>2, SMT DEF DoneInv
  <2> QED BY <2>3, <2>4
<1>4. CASE CopyReturns(n, f)
  <2>1. \A m \in Nodes, g \in Files :
           spc'[m][g] = IF m = n /\ g = f THEN "check" ELSE spc[m][g]
    BY <1>4, <1>t, Update, SMT DEF CopyReturns
  <2>2. writeComplete' = writeComplete /\ tcp' = tcp
    BY <1>4 DEF CopyReturns
  <2>3. ConnInv'
    BY <1>c, <1>s, <1>u, <2>1, <2>2, SMT DEF ConnInv
  <2>4. DoneInv'
    BY <1>d, <1>u, <2>1, <2>2 DEF DoneInv
  <2> QED BY <2>3, <2>4
<1>5. CASE Check(n, f)
  <2>1. \A m \in Nodes, g \in Files :
           \/ spc'[m][g] = spc[m][g]
           \/ /\ m = n /\ g = f
              /\ \/ spc'[m][g] = "copy"
                 \/ spc'[m][g] = "final" /\ Name(n, f) \in writeComplete[srv[n][f]]
    BY <1>5, <1>t, Update, SMT DEF Check
  <2>2. writeComplete' = writeComplete /\ tcp' = tcp
    BY <1>5, ZenonT(40) DEF Check
  <2>3. ConnInv'
    <3>1. \A m \in Nodes, g \in Files : spc'[m][g] = spc[m][g] \/ (m = n /\ g = f)
      BY <2>1
    <3> QED BY <1>c, <1>s, <1>u, <2>2, <3>1, SMT DEF ConnInv
  <2>4. req[n][f].path /\ Name(n, f) \in writeComplete[srv[n][f]] => f \in doneSent
    BY <1>1, <1>s, ZenonT(40) DEF Name, DoneInv
  <2>5. DoneInv'
    BY <1>d, <1>u, <2>1, <2>2, <2>4, SMTT(30) DEF DoneInv
  <2> QED BY <2>3, <2>5
<1>6. CASE FinalReturns(n, f)
  <2>1. \A m \in Nodes, g \in Files :
           /\ spc'[m][g] = IF m = n /\ g = f THEN "unmark" ELSE spc[m][g]
           /\ \/ tcp'[m][g] = tcp[m][g]
              \/ m = n /\ g = f /\ tcp[m][g] = "yes" /\ tcp'[m][g] = "eof"
    BY <1>6, <1>t, Update, SMT DEF FinalReturns
  <2>2. writeComplete' = writeComplete /\ spc[n][f] = "final" /\ CopyEnds(n, f)
    BY <1>6 DEF FinalReturns
  <2>3. ConnInv'
    BY <1>c, <1>s, <1>u, <2>1, SMT DEF ConnInv
  <2>4. ASSUME req[n][f].path, tcp[n][f] = "yes", f \in writeOnce
        PROVE  Len(sent[n][f]) = Len(idFile[Writer[f]][f])
    <3>1. Source(n, f) = idFile[Writer[f]][f]
      <4>1. Name(n, f) = f
        BY <2>4, Zenon DEF Name
      <4> QED BY <1>s, <4>1 DEF Source
    <3>2. Len(sent[n][f]) >= Len(idFile[Writer[f]][f])
      BY <2>2, <2>4, <3>1 DEF CopyEnds
    <3>3. Len(sent[n][f]) <= Len(idFile[Writer[f]][f])
      BY <1>1, <2>4 DEF DataInv, Prefix
    <3>4. Len(sent[n][f]) \in Nat /\ Len(idFile[Writer[f]][f]) \in Nat
      BY <1>t, LenProperties DEF Contents
    <3> QED BY <3>2, <3>3, <3>4, SMT
  <2>5. ASSUME req[n][f].path
        PROVE  f \in doneSent
    BY <1>d, <2>2, <2>5, Zenon DEF DoneInv
  <2>6. DoneInv'
    <3>1. ASSUME NEW m \in Nodes, NEW g \in Files, req[m][g].path, tcp'[m][g] = "eof"
          PROVE  g \in doneSent /\ (g \in writeOnce => Len(sent[m][g]) = Len(idFile[Writer[g]][g]))
      <4>1. CASE tcp'[m][g] = tcp[m][g]
        BY <1>d, <3>1, <4>1, Zenon DEF DoneInv
      <4>2. CASE m = n /\ g = f /\ tcp[m][g] = "yes"
        BY <2>4, <2>5, <3>1, <4>2, Zenon
      <4> QED BY <2>1, <4>1, <4>2, ZenonT(40)
    <3>2. ASSUME NEW m \in Nodes, NEW g \in Files, req[m][g].path, spc'[m][g] = "final"
          PROVE  g \in doneSent
      <4>1. spc[m][g] = "final"
        BY <2>1, <3>2, SMTT(30)
      <4> QED BY <1>d, <3>2, <4>1, Zenon DEF DoneInv
    <3> QED BY <1>d, <1>u, <2>2, <3>1, <3>2, Zenon DEF DoneInv
  <2> QED BY <2>3, <2>6
<1>7. CASE Unmark(n, f)
  <2>1. \A m \in Nodes, g \in Files :
           spc'[m][g] = IF m = n /\ g = f THEN "ended" ELSE spc[m][g]
    BY <1>7, <1>t, Update, SMT DEF Unmark
  <2>2. tcp' = tcp /\ \A s \in Nodes : writeComplete'[s] \subseteq writeComplete[s]
    BY <1>7, <1>t DEF Unmark
  <2>3. ConnInv'
    BY <1>c, <1>s, <1>u, <2>1, <2>2, SMTT(30) DEF ConnInv
  <2>4. DoneInv'
    BY <1>d, <1>u, <2>1, <2>2, SMT DEF DoneInv
  <2> QED BY <2>3, <2>4
<1> QED
  BY <1>3, <1>4, <1>5, <1>6, <1>7

\* The lines a round of the handler leaves are some of those that were there,
\* and the name it enters in the map is one of them; a crash leaves none.
LEMMA ServerKeeps ==
    ASSUME IInv, TypeOK', NEW s \in Nodes, HandleDone(s) \/ ServerCrash(s),
           UNCHANGED <<clientVars, driverVars>>
    PROVE  IInv'
<1>1. ConnInv /\ DoneInv
  BY DEF IInv
<1>2. CreateInv' /\ RequestInv' /\ DataInv' /\ SeenInv' /\ SizeInv'
  <2>1. UNCHANGED <<fsVars, idVars, sent, req, reqs>>
    BY DEF HandleDone, ServerCrash
  <2> QED BY <2>1, CreateFrame, RequestFrame, DataFrame, SeenFrame, SizeFrame DEF IInv
<1> SUFFICES ConnInv' /\ DoneInv'
  BY <1>2 DEF IInv
<1>t. /\ doneMsgs \in [Nodes -> Seq(Files \cup {NoPath})]
      /\ writeComplete \in [Nodes -> SUBSET (Files \cup {NoPath})]
      /\ doneMsgs[s] \in Seq(Files \cup {NoPath})
  BY DEF IInv, TypeOK, BaseTypeOK, ServerTypeOK
<1>u. UNCHANGED <<hpc, srv, req, sent, rcvd, sock, doneSent, idFile, writeOnce>>
  BY DEF HandleDone, ServerCrash
<1>3. CASE HandleDone(s)
  <2>1. PICK k \in 1..Len(doneMsgs[s]) :
           doneMsgs' = [doneMsgs EXCEPT ![s] = SubSeq(doneMsgs[s], k + 1, Len(doneMsgs[s]))]
    BY <1>3 DEF HandleDone
  <2>2. UNCHANGED <<spc, tcp>>
    BY <1>3 DEF HandleDone
  <2>3. ConnInv'
    BY <1>1, <1>u, <2>2, ConnFrame
  <2>4. ASSUME NEW f \in Files, f \in writeComplete'[Writer[f]]
        PROVE  f \in doneSent
    <3>1. CASE f \in writeComplete[Writer[f]]
      BY <1>1, <3>1 DEF DoneInv
    <3>2. CASE f \notin writeComplete[Writer[f]]
      <4>1. Writer[f] = s /\ f = Head(doneMsgs[s]) /\ doneMsgs[s] # <<>>
        BY <1>3, <1>t, <2>4, <3>2 DEF HandleDone
      <4>2. 1 \in 1..Len(doneMsgs[s]) /\ doneMsgs[s][1] = f
        BY <1>t, <4>1, SMT
      <4> QED BY <1>1, <4>1, <4>2 DEF DoneInv
    <3> QED BY <3>1, <3>2
  <2>5. ASSUME NEW f \in Files, NEW i \in 1..Len(doneMsgs'[Writer[f]]),
               doneMsgs'[Writer[f]][i] = f
        PROVE  f \in doneSent
    <3>1. CASE Writer[f] # s
      <4>1. doneMsgs'[Writer[f]] = doneMsgs[Writer[f]]
        BY <1>t, <2>1, <3>1
      <4> QED BY <1>1, <2>5, <4>1 DEF DoneInv
    <3>2. CASE Writer[f] = s
      <4>1. doneMsgs'[s] = SubSeq(doneMsgs[s], k + 1, Len(doneMsgs[s]))
        BY <1>t, <2>1
      <4>2. k + i \in 1..Len(doneMsgs[s]) /\ doneMsgs[s][k + i] = f
        BY <1>t, <2>5, <3>2, <4>1, SMT
      <4> QED BY <1>1, <3>2, <4>2 DEF DoneInv
    <3> QED BY <3>1, <3>2
  <2>6. DoneInv'
    BY <1>1, <1>u, <2>2, <2>4, <2>5 DEF DoneInv
  <2> QED BY <2>3, <2>6
<1>4. CASE ServerCrash(s)
  <2>1. \A m \in Nodes, g \in Files :
           /\ spc'[m][g] = IF srv[m][g] = s THEN "ended" ELSE spc[m][g]
           /\ tcp'[m][g] = IF srv[m][g] = s /\ tcp[m][g] \in {"request", "yes"}
                           THEN "reset" ELSE tcp[m][g]
    BY <1>4 DEF ServerCrash
  <2>2. \A m \in Nodes : /\ writeComplete'[m] \subseteq writeComplete[m]
                         /\ doneMsgs'[m] = IF m = s THEN <<>> ELSE doneMsgs[m]
    BY <1>4, <1>t DEF ServerCrash
  <2>3. ConnInv'
    BY <1>1, <1>u, <2>1, SMTT(30) DEF ConnInv
  <2>4. DoneInv'
    BY <1>1, <1>u, <2>1, <2>2, SMT DEF DoneInv
  <2> QED BY <2>3, <2>4
<1> QED
  BY <1>3, <1>4
=============================================================================
