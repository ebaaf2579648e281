---------------------------- MODULE NamesProofs -----------------------------
(***************************************************************************)
(* The two trees of the driver (F3Names), for any names and bounds.        *)
(***************************************************************************)
EXTENDS F3Names, TLAPS

-----------------------------------------------------------------------------
Attrs == {"id", "user", "size"}
Entries == {e \in [kind : Kinds \cup {"none"}, file : Nat, data : BOOLEAN, attrs : SUBSET Attrs] :
               e.kind = "none" => e = NoEntry}
Inodes == {i \in [key : {"none", "src", "id"}, is_id : BOOLEAN, needs_download : BOOLEAN, idfd : BOOLEAN] :
              i.key = "none" => i = NoInode}

\* The requests whose second call, for the tree under idroot, is due: the first one has been made.
Due ==
    /\ nreq # NoNameReq
    /\ \/ nreq.op \in {"rename", "link", "rmdir"} /\ nreq.k = 2
       \/ nreq.op = "unlink" /\ nreq.k = 3

\* The second tree, once that call has been made.
Second == IF Due THEN After("id", NStep.call, nreq.n, nreq.m) ELSE tree["id"]

NamesTypeOK ==
    /\ tree \in [Trees -> [FileNames -> Entries]] /\ ino \in [FileNames -> Inodes]
    /\ \/ nreq = NoNameReq
       \/ /\ nreq \in [op : DOMAIN NameHandlers, n : FileNames, m : FileNames, k : Nat]
          /\ nreq.k \in 1..Len(NameHandlers[nreq.op])
    /\ replies \in Seq([op : DOMAIN NameHandlers, ans : {"ok", "err"}])
    /\ conv \in {"none", "done", "undone"}
    /\ fails \in Nat /\ remote \in Nat /\ nasks \in Nat /\ nasks <= MaxRequests

\* An entry of the second tree is the counterpart of one in the first, and an inode has both.
Mirror(S, T, I) ==
    \A x \in FileNames :
        /\ T[x].kind # "none" =>
              /\ S[x].kind # "none" /\ (S[x].kind = "dir" <=> T[x].kind = "dir")
              /\ S[x].kind = "file" => T[x].kind = "file"
        /\ I[x].key # "none" => T[x].kind # "none" /\ I[x].idfd

\* The names of one file in the first tree are those of one file in the second, and have one inode.
Classes(S, T, I) ==
    \A x, y \in FileNames :
        /\ S[x].kind # "none" /\ S[y].kind # "none" /\ S[x].file = S[y].file =>
              /\ I[x] = I[y]
              /\ x # y => T[x].kind # "none" /\ T[x].file = T[y].file
              /\ ~Crossing => (x \in IdNames <=> y \in IdNames)
        /\ T[x].kind # "none" /\ T[y].kind # "none" /\ T[x].file = T[y].file => S[x].file = S[y].file

\* Files are numbered with requests, those of other nodes above them.
SrcMade == IF nreq # NoNameReq /\ nreq.k = 1 THEN nasks - 1 ELSE nasks
IdMade ==
    IF nreq # NoNameReq /\ (nreq.k = 1 \/ (nreq.k = 2 /\ nreq.op \in {"mknod", "mkdir", "symlink", "create"}))
    THEN nasks - 1 ELSE nasks
Numbers(S, T, a, b, c) ==
    \A x \in FileNames :
        /\ S[x].kind # "none" => S[x].file <= a \/ (S[x].file > MaxRequests /\ S[x].file <= MaxRequests + c)
        /\ T[x].kind # "none" => T[x].file <= b

\* Data is in the tree that reads go to, now or after the next look-up.
Placed(S, T, I, converted) ==
    \A x \in FileNames :
        /\ I[x].key = "none" => IF x \in IdNames THEN ~S[x].data ELSE ~T[x].data
        /\ I[x].key # "none" =>
              /\ IF I[x].is_id THEN ~S[x].data /\ x \in IdNames ELSE ~T[x].data
              /\ x \in IdNames /\ ~I[x].is_id => converted
              /\ I[x].key = "src" => x \notin IdNames

\* What the calls of a request find that are still to be made.
Finds(k, n, m) ==
    LET S == tree["src"]
        T == tree["id"]
        op == nreq.op
    IN
    /\ op \in {"mknod", "mkdir", "symlink"} /\ k = 1 => S[n].kind = "none"
    /\ op = "mknod" /\ k = 2 => S[n].kind = "file"
    /\ op = "mkdir" /\ k = 2 => S[n].kind = "dir" /\ T[n].kind = "none"
    /\ op = "symlink" /\ k = 2 => S[n].kind = "link" /\ T[n].kind = "none"
    /\ op = "create" /\ k = 1 => S[n].kind \in {"none", "file"}
    /\ op = "create" /\ k = 2 => S[n].kind = "file"
    /\ op \in {"mkdir", "symlink", "create"} /\ k > 2 => S[n].kind # "none" /\ T[n].kind # "none"
    /\ op = "rmdir" /\ k = 1 => ino[n].key # "none" /\ S[n].kind = "dir"
    /\ op = "unlink" /\ k <= 2 => ino[n].key # "none" /\ S[n].kind # "dir"
    /\ op = "rename" /\ k = 1 => /\ ino[n].key # "none" /\ n # m
                                 /\ S[m].kind # "none" => S[n].kind = S[m].kind
                                 /\ ~Crossing => (n \in IdNames <=> m \in IdNames)
    /\ op = "link" /\ k = 1 => /\ ino[n].key # "none" /\ n # m /\ S[m].kind = "none" /\ S[n].kind = "file"
                               /\ ~Crossing => (n \in IdNames <=> m \in IdNames)
    /\ op \in {"setxattr", "removexattr"} => ino[n].key # "none"

CallInv ==
    nreq # NoNameReq =>
        /\ nasks > 0 /\ Finds(nreq.k, nreq.n, nreq.m)
        /\ Due => Allowed("id", NStep.call, nreq.n, nreq.m)

\* A request that is not done has no answer, unless it is a removexattr.
RepliesInv ==
    /\ nreq # NoNameReq =>
          /\ nreq.op # "removexattr" => replies = <<>>
          /\ \A i \in 1..Len(replies) : replies[i].op = nreq.op
    /\ SecondTreeFollows

Agree(S, T, I, c) ==
    /\ Mirror(S, T, I) /\ Classes(S, T, I)
    /\ ~Crossing /\ c # "undone" => Placed(S, T, I, c # "none")

Followed ==
    /\ Agree(tree["src"], Second, ino, conv)
    /\ Numbers(tree["src"], Second, SrcMade, IdMade, remote)
    /\ CallInv /\ RepliesInv
NamesInv == NamesTypeOK /\ (Undisturbed => Followed)
-----------------------------------------------------------------------------
\* Sequences with the same elements, and a longer one.
LEMMA SeqsEqual ==
    ASSUME NEW X, NEW s \in Seq(X), NEW t \in Seq(X), Len(s) = Len(t), \A i \in 1..Len(s) : s[i] = t[i]
    PROVE  s = t
OBVIOUS
LEMMA Appended ==
    ASSUME NEW X, NEW s \in Seq(X), NEW e \in X
    PROVE  /\ Append(s, e) \in Seq(X) /\ Len(Append(s, e)) = Len(s) + 1 /\ Len(s) \in Nat
           /\ \A i \in 1..Len(s) : Append(s, e)[i] = s[i]
           /\ Append(s, e)[Len(s) + 1] = e
OBVIOUS

\* Sequences of three and of five, put together the way the handlers are.
LEMMA Triples ==
    ASSUME NEW a, NEW b, NEW c
    PROVE  <<a, b>> \o <<c>> = <<a, b, c>> /\ <<a>> \o <<b, c>> = <<a, b, c>> /\ Append(<<a, b>>, c) = <<a, b, c>>
<1> DEFINE X == {a, b, c}
<1>1. <<a, b>> \o <<c>> \in Seq(X) /\ <<a>> \o <<b, c>> \in Seq(X) /\ Append(<<a, b>>, c) \in Seq(X) /\ <<a, b, c>> \in Seq(X)
  OBVIOUS
<1>2. \A s \in Seq(X) : Len(s) = 3 /\ s[1] = a /\ s[2] = b /\ s[3] = c => s = <<a, b, c>>
  <2> SUFFICES ASSUME NEW s \in Seq(X), Len(s) = 3, s[1] = a, s[2] = b, s[3] = c PROVE s = <<a, b, c>>
    OBVIOUS
  <2>1. Len(s) = Len(<<a, b, c>>) /\ \A i \in 1..Len(s) : s[i] = <<a, b, c>>[i]
    OBVIOUS
  <2> HIDE DEF X
  <2> QED BY <2>1, <1>1, SeqsEqual, Zenon
<1>3. LET s == <<a, b>> \o <<c>> IN Len(s) = 3 /\ s[1] = a /\ s[2] = b /\ s[3] = c
  OBVIOUS
<1>4. LET s == <<a>> \o <<b, c>> IN Len(s) = 3 /\ s[1] = a /\ s[2] = b /\ s[3] = c
  OBVIOUS
<1>5. LET s == Append(<<a, b>>, c) IN Len(s) = 3 /\ s[1] = a /\ s[2] = b /\ s[3] = c
  OBVIOUS
<1> HIDE DEF X
<1> QED BY <1>1, <1>2, <1>3, <1>4, <1>5, Zenon

\* The same for five.
LEMMA Fives ==
    ASSUME NEW a, NEW b, NEW c, NEW d, NEW e
    PROVE  (<<a, b>> \o <<c, d>>) \o <<e>> = <<a, b, c, d, e>>
<1> DEFINE X == {a, b, c, d, e}
           s == (<<a, b>> \o <<c, d>>) \o <<e>>
           t == <<a, b, c, d, e>>
<1>1. s \in Seq(X) /\ t \in Seq(X)
  OBVIOUS
<1>2. Len(s) = Len(t) /\ \A i \in 1..Len(s) : s[i] = t[i]
  OBVIOUS
<1> HIDE DEF X, s, t
<1>3. s = t
  BY <1>1, <1>2, SeqsEqual, Zenon
<1> QED BY <1>3, Zenon DEF s, t

\* The calls of every handler, in order.
LEMMA HandlerCalls ==
    /\ NameHandlers.mknod = <<Sys("src", "mknod", "return"), Sys("src", "lookup", "return")>>
    /\ NameHandlers.mkdir = <<Sys("src", "mkdir", "return"), Sys("id", "mkdir", "return"),
                              Sys("src", "mark", "ignore"), Sys("id", "mark", "ignore"),
                              Sys("src", "lookup", "return")>>
    /\ NameHandlers.symlink = <<Sys("src", "symlink", "return"), Sys("id", "symlink", "return"),
                                Sys("src", "lookup", "return")>>
    /\ NameHandlers.link = <<Sys("src", "link", "return"), Sys("id", "link", "return"), Sys("src", "count", "return")>>
    /\ NameHandlers.rmdir = <<Sys("src", "rmdir", "goon"), Sys("id", "rmdir", "last")>>
    /\ NameHandlers.rename = <<Sys("src", "rename", "goon"), Sys("id", "rename", "last")>>
    /\ NameHandlers.unlink = <<Sys("src", "lookup", "return"), Sys("src", "unlink", "goon"), Sys("id", "unlink", "goon")>>
    /\ NameHandlers.create = <<Sys("src", "creat", "return"), Sys("id", "creat", "return"),
                               Sys("src", "mark", "ignore"), Sys("id", "mark", "ignore"),
                               Sys("src", "lookup", "return")>>
    /\ NameHandlers.setxattr = <<Sys("src", "setxattr", "goon"), Sys("id", "setxattr", "last")>>
    /\ NameHandlers.removexattr = <<Sys("src", "removexattr", "goon"), Sys("id", "removexattr", "goon"),
                                    Sys("src", "convert", "last")>>
    /\ NameHandlers.lookup = <<Sys("src", "lookup", "return")>>
<1>1. sfs_mkdir = <<Sys("src", "mkdir", "return"), Sys("id", "mkdir", "return"),
                    Sys("src", "mark", "ignore"), Sys("id", "mark", "ignore"), Sys("src", "lookup", "return")>>
  BY Fives, Zenon DEF sfs_mkdir, mknod_symlink, InBoth, Mark, Lookup
<1>2. sfs_mknod = <<Sys("src", "mknod", "return"), Sys("src", "lookup", "return")>>
  BY DEF sfs_mknod, mknod_symlink, Lookup
<1>3. sfs_symlink = <<Sys("src", "symlink", "return"), Sys("id", "symlink", "return"), Sys("src", "lookup", "return")>>
  BY Triples, Zenon DEF sfs_symlink, mknod_symlink, InBoth, Lookup
<1>4. sfs_link = <<Sys("src", "link", "return"), Sys("id", "link", "return"), Sys("src", "count", "return")>>
  BY Triples, Zenon DEF sfs_link, InBoth
<1>5. sfs_unlink = <<Sys("src", "lookup", "return"), Sys("src", "unlink", "goon"), Sys("id", "unlink", "goon")>>
  BY Triples, Zenon DEF sfs_unlink, InBoth, Lookup
<1>6. sfs_create = <<Sys("src", "creat", "return"), Sys("id", "creat", "return"),
                     Sys("src", "mark", "ignore"), Sys("id", "mark", "ignore"), Sys("src", "lookup", "return")>>
  BY Fives, Zenon DEF sfs_create, InBoth, Mark, Lookup
<1>7. sfs_removexattr = <<Sys("src", "removexattr", "goon"), Sys("id", "removexattr", "goon"), Sys("src", "convert", "last")>>
  BY Triples, Zenon DEF sfs_removexattr, InBoth
<1> QED BY <1>1, <1>2, <1>3, <1>4, <1>5, <1>6, <1>7, Zenon
        DEF NameHandlers, sfs_rmdir, sfs_rename, sfs_setxattr, sfs_lookup, Lookup

-----------------------------------------------------------------------------
\* An entry of the first tree is made that has no counterpart.
LEMMA MadeInSource ==
    ASSUME NEW S \in [FileNames -> Entries], NEW T \in [FileNames -> Entries], NEW I, NEW c, NEW n \in FileNames, NEW e,
           Agree(S, T, I, c), S[n].kind = "none", e.kind # "none", ~e.data,
           \A x \in FileNames : S[x].kind # "none" => S[x].file # e.file
    PROVE  Agree([S EXCEPT ![n] = e], T, I, c)
<1> DEFINE S2 == [S EXCEPT ![n] = e]
<1>a. \A x \in FileNames : S2[x] = IF x = n THEN e ELSE S[x]
  OBVIOUS
<1> HIDE DEF S2
<1>1. T[n].kind = "none" /\ I[n].key = "none"
  BY DEF Agree, Mirror
<1>2. T[n].data = FALSE
  BY <1>1 DEF Entries, NoEntry, Entry
<1>3. Mirror(S2, T, I)
  BY <1>a, <1>1 DEF Agree, Mirror
<1>4. Classes(S2, T, I)
  BY <1>a, <1>1 DEF Agree, Classes
<1>5. ASSUME ~Crossing, c # "undone" PROVE Placed(S2, T, I, c # "none")
  BY <1>a, <1>1, <1>2, <1>5 DEF Agree, Placed
<1> QED BY <1>3, <1>4, <1>5 DEF Agree, S2

\* Its counterpart is made.
LEMMA MadeInSecond ==
    ASSUME NEW S, NEW T \in [FileNames -> Entries], NEW I, NEW c, NEW n \in FileNames, NEW e,
           Agree(S, T, I, c), S[n].kind # "none", T[n].kind = "none", e.kind # "none", ~e.data,
           S[n].kind = "dir" <=> e.kind = "dir", S[n].kind = "file" => e.kind = "file",
           \A x \in FileNames : T[x].kind # "none" => T[x].file # e.file
    PROVE  Agree(S, [T EXCEPT ![n] = e], I, c)
<1> DEFINE T2 == [T EXCEPT ![n] = e]
<1>a. \A x \in FileNames : T2[x] = IF x = n THEN e ELSE T[x]
  OBVIOUS
<1> HIDE DEF T2
<1>1. Mirror(S, T2, I)
  BY <1>a DEF Agree, Mirror
<1>2. Classes(S, T2, I)
  BY <1>a DEF Agree, Classes
<1>3. ASSUME ~Crossing, c # "undone" PROVE Placed(S, T2, I, c # "none")
  BY <1>a, <1>3 DEF Agree, Placed
<1> QED BY <1>1, <1>2, <1>3 DEF Agree, T2

\* A name is removed from both trees.
LEMMA Removed ==
    ASSUME NEW S \in [FileNames -> Entries], NEW T \in [FileNames -> Entries], NEW I \in [FileNames -> Inodes],
           NEW c, NEW n \in FileNames, Agree(S, T, I, c)
    PROVE  Agree([S EXCEPT ![n] = NoEntry], [T EXCEPT ![n] = NoEntry],
                 [I EXCEPT ![n] = NoInode], c)
<1> DEFINE S2 == [S EXCEPT ![n] = NoEntry]
           T2 == [T EXCEPT ![n] = NoEntry]
           I2 == [I EXCEPT ![n] = NoInode]
<1>a. /\ \A x \in FileNames : S2[x] = IF x = n THEN NoEntry ELSE S[x]
      /\ \A x \in FileNames : T2[x] = IF x = n THEN NoEntry ELSE T[x]
      /\ \A x \in FileNames : I2[x] = IF x = n THEN NoInode ELSE I[x]
  OBVIOUS
<1> HIDE DEF S2, T2, I2
<1>1. NoEntry.kind = "none" /\ NoEntry.data = FALSE /\ NoInode.key = "none"
  BY DEF NoEntry, Entry, NoInode
<1>2. Mirror(S2, T2, I2)
  BY <1>a, <1>1 DEF Agree, Mirror
<1>3. Classes(S2, T2, I2)
  BY <1>a, <1>1 DEF Agree, Classes
<1>4. ASSUME ~Crossing, c # "undone" PROVE Placed(S2, T2, I2, c # "none")
  BY <1>a, <1>1, <1>4 DEF Agree, Placed
<1> QED BY <1>2, <1>3, <1>4 DEF Agree, S2, T2, I2

\* A name is moved in both trees.
LEMMA Moved ==
    ASSUME NEW S \in [FileNames -> Entries], NEW T \in [FileNames -> Entries], NEW I \in [FileNames -> Inodes],
           NEW c, NEW n \in FileNames, NEW m \in FileNames,
           Agree(S, T, I, c), n # m, T[n].kind # "none", ~Crossing => (n \in IdNames <=> m \in IdNames)
    PROVE  Agree([S EXCEPT ![m] = S[n], ![n] = NoEntry], [T EXCEPT ![m] = T[n], ![n] = NoEntry],
                 [I EXCEPT ![m] = I[n], ![n] = NoInode], c)
<1> DEFINE S2 == [S EXCEPT ![m] = S[n], ![n] = NoEntry]
           T2 == [T EXCEPT ![m] = T[n], ![n] = NoEntry]
           I2 == [I EXCEPT ![m] = I[n], ![n] = NoInode]
<1>a. /\ \A x \in FileNames : S2[x] = IF x = n THEN NoEntry ELSE IF x = m THEN S[n] ELSE S[x]
      /\ \A x \in FileNames : T2[x] = IF x = n THEN NoEntry ELSE IF x = m THEN T[n] ELSE T[x]
      /\ \A x \in FileNames : I2[x] = IF x = n THEN NoInode ELSE IF x = m THEN I[n] ELSE I[x]
  OBVIOUS
<1> HIDE DEF S2, T2, I2
<1>1. NoEntry.kind = "none" /\ NoEntry.data = FALSE /\ NoInode.key = "none"
  BY DEF NoEntry, Entry, NoInode
<1>2. Mirror(S2, T2, I2)
  BY <1>a, <1>1 DEF Agree, Mirror
<1>3. Classes(S2, T2, I2)
  BY <1>a, <1>1 DEF Agree, Classes
<1>4. ASSUME ~Crossing, c # "undone" PROVE Placed(S2, T2, I2, c # "none")
  BY <1>a, <1>1, <1>4 DEF Agree, Placed
<1> QED BY <1>2, <1>3, <1>4 DEF Agree, S2, T2, I2

\* A name is added to a file in both trees.
LEMMA Linked ==
    ASSUME NEW S \in [FileNames -> Entries], NEW T \in [FileNames -> Entries], NEW I \in [FileNames -> Inodes],
           NEW c, NEW n \in FileNames, NEW m \in FileNames,
           Agree(S, T, I, c), n # m, T[n].kind # "none", S[m].kind = "none",
           ~Crossing => (n \in IdNames <=> m \in IdNames)
    PROVE  Agree([S EXCEPT ![m] = S[n]], [T EXCEPT ![m] = T[n]],
                 [I EXCEPT ![m] = I[n]], c)
<1> DEFINE S2 == [S EXCEPT ![m] = S[n]]
           T2 == [T EXCEPT ![m] = T[n]]
           I2 == [I EXCEPT ![m] = I[n]]
<1>a. /\ \A x \in FileNames : S2[x] = IF x = m THEN S[n] ELSE S[x]
      /\ \A x \in FileNames : T2[x] = IF x = m THEN T[n] ELSE T[x]
      /\ \A x \in FileNames : I2[x] = IF x = m THEN I[n] ELSE I[x]
  OBVIOUS
<1> HIDE DEF S2, T2, I2
<1>1. S[n].kind # "none" /\ T[m].kind = "none"
  BY DEF Agree, Mirror
<1>2. Mirror(S2, T2, I2)
  BY <1>a, <1>1 DEF Agree, Mirror
<1>3. Classes(S2, T2, I2)
  BY <1>a, <1>1 DEF Agree, Classes
<1>4. ASSUME ~Crossing, c # "undone" PROVE Placed(S2, T2, I2, c # "none")
  BY <1>a, <1>1, <1>4 DEF Agree, Placed
<1> QED BY <1>2, <1>3, <1>4 DEF Agree, S2, T2, I2

\* Attributes are changed, and nothing else.
LEMMA SameShape ==
    ASSUME NEW S, NEW T, NEW I, NEW c, NEW S2, NEW T2, Agree(S, T, I, c),
           \A x \in FileNames : S2[x].kind = S[x].kind /\ S2[x].file = S[x].file /\ S2[x].data = S[x].data,
           \A x \in FileNames : T2[x].kind = T[x].kind /\ T2[x].file = T[x].file /\ T2[x].data = T[x].data
    PROVE  Agree(S2, T2, I, c)
<1>1. Mirror(S2, T2, I)
  BY DEF Agree, Mirror
<1>2. Classes(S2, T2, I)
  BY DEF Agree, Classes
<1>3. ASSUME ~Crossing, c # "undone" PROVE Placed(S2, T2, I, c # "none")
  BY <1>3 DEF Agree, Placed
<1> QED BY <1>1, <1>2, <1>3 DEF Agree

\* A look-up gives the names of a file their inode.
Given(I2, S, n, i, I) ==
    /\ S[n].kind # "none" /\ I[n].key = "none" /\ i.idfd
    /\ n \in IdNames => i.key = "id"
    /\ n \notin IdNames => i.key = "src"
    /\ i.is_id <=> n \in IdNames
    /\ \A x \in FileNames : I2[x] = IF S[x].kind # "none" /\ S[x].file = S[n].file THEN i ELSE I[x]

LEMMA LookedUp ==
    ASSUME NEW S, NEW T, NEW I, NEW c, NEW n \in FileNames, NEW i, NEW I2, Agree(S, T, I, c),
           T[n].kind # "none", Given(I2, S, n, i, I)
    PROVE  Agree(S, T, I2, c)
<1> USE DEF Given
<1>1. \A x \in FileNames : S[x].kind # "none" /\ S[x].file = S[n].file => I[x] = I[n] /\ T[x].kind # "none"
  BY DEF Agree, Classes
<1>2. Mirror(S, T, I2)
  BY <1>1 DEF Agree, Mirror
<1>3. Classes(S, T, I2)
  BY <1>1 DEF Agree, Classes
<1>4. ASSUME ~Crossing, c # "undone" PROVE Placed(S, T, I2, c # "none")
  <2>1. \A x \in FileNames : S[x].kind # "none" /\ S[x].file = S[n].file => (x \in IdNames <=> n \in IdNames)
    BY <1>4 DEF Agree, Classes
  <2> QED BY <1>1, <1>4, <2>1 DEF Agree, Placed
<1> QED BY <1>2, <1>3, <1>4 DEF Agree

\* The kernel forgets a file whose inode is found in the table.
LEMMA Forgotten ==
    ASSUME NEW S, NEW T, NEW I, NEW c, NEW n \in FileNames, NEW I2, Agree(S, T, I, c), I[n].key = "src",
           \A x \in FileNames : I2[x] = IF S[x].kind # "none" /\ S[x].file = S[n].file THEN NoInode ELSE I[x]
    PROVE  Agree(S, T, I2, c)
<1>1. NoInode.key = "none"
  BY DEF NoInode
<1>2. \A x \in FileNames : S[x].kind # "none" /\ S[x].file = S[n].file => I[x] = I[n]
  BY DEF Agree, Classes, Mirror
<1>3. Mirror(S, T, I2)
  BY <1>1 DEF Agree, Mirror
<1>4. Classes(S, T, I2)
  BY <1>1 DEF Agree, Classes
<1>5. ASSUME ~Crossing, c # "undone" PROVE Placed(S, T, I2, c # "none")
  BY <1>1, <1>2, <1>5 DEF Agree, Placed
<1> QED BY <1>3, <1>4, <1>5 DEF Agree

\* The driver is started again; no file was converted.
LEMMA Restarted ==
    ASSUME NEW S, NEW T, NEW I, NEW c \in {"none", "done", "undone"}, NEW I2, Agree(S, T, I, c),
           \A x \in FileNames : I2[x] = NoInode
    PROVE  Agree(S, T, I2, IF c = "done" THEN "undone" ELSE c)
<1>1. NoInode.key = "none"
  BY DEF NoInode
<1>2. Mirror(S, T, I2)
  BY <1>1 DEF Agree, Mirror
<1>3. Classes(S, T, I2)
  BY <1>1 DEF Agree, Classes
<1>4. ASSUME ~Crossing, c # "undone", c # "done" PROVE Placed(S, T, I2, c # "none")
  BY <1>1, <1>4 DEF Agree, Placed
<1> QED BY <1>2, <1>3, <1>4 DEF Agree

\* Data is written through the inode of n.
LEMMA WrittenThrough ==
    ASSUME NEW S \in [FileNames -> Entries], NEW T \in [FileNames -> Entries], NEW I, NEW c, NEW n \in FileNames,
           NEW S2, NEW T2, Agree(S, T, I, c), I[n].key # "none",
           \A x \in FileNames : /\ S2[x].kind = S[x].kind /\ S2[x].file = S[x].file
                                /\ T2[x].kind = T[x].kind /\ T2[x].file = T[x].file,
           \A x \in FileNames : S2[x].data = (S[x].data \/ (~I[n].is_id /\ S[x].kind # "none" /\ S[x].file = S[n].file)),
           \A x \in FileNames : T2[x].data = (T[x].data \/ (I[n].is_id /\ T[x].kind # "none" /\ T[x].file = T[n].file))
    PROVE  Agree(S2, T2, I, c)
<1>1. Mirror(S2, T2, I)
  BY DEF Agree, Mirror
<1>2. Classes(S2, T2, I)
  BY DEF Agree, Classes
<1>3. ASSUME ~Crossing, c # "undone" PROVE Placed(S2, T2, I, c # "none")
  <2>1. S[n].kind # "none" /\ T[n].kind # "none"
    BY DEF Agree, Mirror
  <2>2. \A x \in FileNames : S[x].kind # "none" /\ S[x].file = S[n].file => I[x] = I[n]
    BY <2>1 DEF Agree, Classes
  <2>3. \A x \in FileNames : T[x].kind # "none" /\ T[x].file = T[n].file => I[x] = I[n]
    BY <2>1 DEF Agree, Classes, Mirror
  <2>4. \A x \in FileNames : S2[x].data # S[x].data => I[x] = I[n] /\ ~I[n].is_id
    BY <2>2 DEF Entries
  <2>5. \A x \in FileNames : T2[x].data # T[x].data => I[x] = I[n] /\ I[n].is_id
    BY <2>3 DEF Entries
  <2> QED BY <1>3, <2>4, <2>5 DEF Agree, Placed
<1> QED BY <1>1, <1>2, <1>3 DEF Agree

\* An ID file is converted.
Converts(S2, T2, I2, S, T, I, n) ==
    /\ \A x \in FileNames : /\ S2[x].kind = S[x].kind /\ S2[x].file = S[x].file
                            /\ T2[x].kind = T[x].kind /\ T2[x].file = T[x].file
    /\ \A x \in FileNames : S[x].kind = "none" \/ S[x].file # S[n].file => S2[x].data = S[x].data /\ I2[x] = I[x]
    /\ \A x \in FileNames : S[x].kind # "none" /\ S[x].file = S[n].file =>
          I2[x].key = I[x].key /\ I2[x].idfd = I[x].idfd /\ ~I2[x].is_id /\ (I[x] = I[n] => I2[x] = I2[n])
    /\ \A x \in FileNames : T[x].kind # "none" /\ T[x].file = T[n].file => ~T2[x].data
    /\ \A x \in FileNames : T[x].kind = "none" \/ T[x].file # T[n].file => T2[x].data = T[x].data

LEMMA ConvertedFile ==
    ASSUME NEW S, NEW T, NEW I, NEW c \in {"none", "done", "undone"}, NEW n \in FileNames, NEW S2, NEW T2, NEW I2,
           Agree(S, T, I, c), I[n].key # "none", Converts(S2, T2, I2, S, T, I, n)
    PROVE  Agree(S2, T2, I2, IF c = "none" THEN "done" ELSE c)
<1> USE DEF Converts
<1>1. S[n].kind # "none" /\ T[n].kind # "none"
  BY DEF Agree, Mirror
<1>2. \A x \in FileNames : S[x].kind # "none" /\ S[x].file = S[n].file =>
         I[x] = I[n] /\ T[x].kind # "none" /\ T[x].file = T[n].file
  BY <1>1 DEF Agree, Classes
<1>3. \A x \in FileNames : T[x].kind # "none" /\ T[x].file = T[n].file => S[x].kind # "none" /\ S[x].file = S[n].file
  BY <1>1 DEF Agree, Classes, Mirror
<1>4. Mirror(S2, T2, I2)
  BY DEF Agree, Mirror
<1>5. Classes(S2, T2, I2)
  BY <1>2 DEF Agree, Classes
<1>6. ASSUME ~Crossing, c # "undone" PROVE Placed(S2, T2, I2, TRUE)
  BY <1>1, <1>2, <1>3, <1>6 DEF Agree, Placed
<1> QED BY <1>4, <1>5, <1>6, Zenon DEF Agree

-----------------------------------------------------------------------------
\* Entries keep their kind and their file when attributes or data are set.
LEMMA EntryChange ==
    ASSUME NEW e \in Entries, e # NoEntry
    PROVE  /\ e.kind # "none"
           /\ \A a \in SUBSET Attrs : LET f == [e EXCEPT !.attrs = a] IN
                 f \in Entries /\ f.kind = e.kind /\ f.file = e.file /\ f.data = e.data
           /\ \A d \in BOOLEAN : LET f == [e EXCEPT !.data = d] IN
                 f \in Entries /\ f.kind = e.kind /\ f.file = e.file /\ f.data = d
<1>1. e.kind # "none" /\ e \in [kind : Kinds \cup {"none"}, file : Nat, data : BOOLEAN, attrs : SUBSET Attrs]
  BY DEF Entries
<1>2. ASSUME NEW a \in SUBSET Attrs
      PROVE  LET f == [e EXCEPT !.attrs = a] IN
                 f \in Entries /\ f.kind = e.kind /\ f.file = e.file /\ f.data = e.data
  BY <1>1 DEF Entries
<1>3. ASSUME NEW d \in BOOLEAN
      PROVE  LET f == [e EXCEPT !.data = d] IN
                 f \in Entries /\ f.kind = e.kind /\ f.file = e.file /\ f.data = d
  BY <1>1 DEF Entries
<1> QED BY <1>1, <1>2, <1>3, Zenon

\* New entries.
LEMMA NewEntry ==
    ASSUME NEW kind \in Kinds \cup {"none"}, NEW f \in Nat, kind = "none" => f = 0
    PROVE  /\ Entry(kind, f) \in Entries /\ Entry(kind, f).kind = kind
           /\ Entry(kind, f).file = f /\ Entry(kind, f).data = FALSE
  BY DEF Entry, Entries, NoEntry, Kinds

\* An entry exists if it has a kind.
LEMMA ExistsKind ==
    ASSUME NamesTypeOK, NEW t \in Trees, NEW x \in FileNames
    PROVE  tree[t][x] \in Entries /\ (Exists(t, x) <=> tree[t][x].kind # "none")
<1>1. tree[t][x] \in Entries
  BY DEF NamesTypeOK
<1>2. NoEntry.kind = "none"
  BY DEF NoEntry, Entry
<1> QED BY <1>1, <1>2 DEF Exists, Entries

Is(t, call, onerr) == NStep.tree = t /\ NStep.call = call /\ NStep.onerr = onerr

LEMMA LenOfHandlers == \A op \in DOMAIN NameHandlers : Len(NameHandlers[op]) \in Nat /\ Len(NameHandlers[op]) >= 1
<1>1. DOMAIN NameHandlers = {"mknod", "mkdir", "symlink", "link", "rmdir", "rename", "unlink", "create",
                             "setxattr", "removexattr", "lookup"}
  BY Zenon DEF NameHandlers
<1>2. \A a, b, c, d, e : /\ Len(<<a>>) = 1 /\ Len(<<a, b>>) = 2 /\ Len(<<a, b, c>>) = 3 /\ Len(<<a, b, c, d, e>>) = 5
  OBVIOUS
<1>3. /\ Len(NameHandlers.mknod) = 2 /\ Len(NameHandlers.mkdir) = 5 /\ Len(NameHandlers.symlink) = 3
      /\ Len(NameHandlers.link) = 3 /\ Len(NameHandlers.rmdir) = 2 /\ Len(NameHandlers.rename) = 2
      /\ Len(NameHandlers.unlink) = 3 /\ Len(NameHandlers.create) = 5 /\ Len(NameHandlers.setxattr) = 2
      /\ Len(NameHandlers.removexattr) = 3 /\ Len(NameHandlers.lookup) = 1
  BY <1>2, HandlerCalls, Zenon
<1>4. \A op \in DOMAIN NameHandlers : Len(NameHandlers[op]) \in {1, 2, 3, 5}
  BY <1>1, <1>3, Zenon
<1> QED BY <1>4

\* A request and the call it is at.
LEMMA RequestForm ==
    ASSUME NamesTypeOK, nreq # NoNameReq
    PROVE  /\ nreq \in [op : DOMAIN NameHandlers, n : FileNames, m : FileNames, k : Nat]
           /\ nreq.op \in DOMAIN NameHandlers
           /\ nreq.op \in {"mknod", "mkdir", "symlink", "link", "rmdir", "rename", "unlink", "create",
                           "setxattr", "removexattr", "lookup"}
           /\ nreq.n \in FileNames /\ nreq.m \in FileNames /\ nreq.k \in 1..Len(NameHandlers[nreq.op])
<1>1. DOMAIN NameHandlers = {"mknod", "mkdir", "symlink", "link", "rmdir", "rename", "unlink", "create",
                             "setxattr", "removexattr", "lookup"}
  BY Zenon DEF NameHandlers
<1>2. nreq \in [op : DOMAIN NameHandlers, n : FileNames, m : FileNames, k : Nat] /\ nreq.k \in 1..Len(NameHandlers[nreq.op])
  BY Zenon DEF NamesTypeOK
<1>3. nreq.op \in DOMAIN NameHandlers /\ nreq.n \in FileNames /\ nreq.m \in FileNames
  BY <1>2
<1> QED BY <1>1, <1>2, <1>3, Zenon

LEMMA MknodSteps ==
    ASSUME NamesTypeOK, nreq # NoNameReq, nreq.op = "mknod"
    PROVE  /\ nreq.k \in {1, 2}
           /\ Len(NameHandlers[nreq.op]) = 2
           /\ nreq.k = 1 => Is("src", "mknod", "return")
           /\ nreq.k = 2 => Is("src", "lookup", "return")
<1>1. NameHandlers[nreq.op] =
         <<Sys("src", "mknod", "return"), Sys("src", "lookup", "return")>>
  BY HandlerCalls, Zenon
<1>2. nreq.k \in 1..Len(NameHandlers[nreq.op])
  BY RequestForm
<1> QED BY <1>1, <1>2 DEF Is, NStep, Sys

LEMMA MkdirSteps ==
    ASSUME NamesTypeOK, nreq # NoNameReq, nreq.op = "mkdir"
    PROVE  /\ nreq.k \in {1, 2, 3, 4, 5}
           /\ Len(NameHandlers[nreq.op]) = 5
           /\ nreq.k = 1 => Is("src", "mkdir", "return")
           /\ nreq.k = 2 => Is("id", "mkdir", "return")
           /\ nreq.k = 3 => Is("src", "mark", "ignore")
           /\ nreq.k = 4 => Is("id", "mark", "ignore")
           /\ nreq.k = 5 => Is("src", "lookup", "return")
<1>1. NameHandlers[nreq.op] =
         <<Sys("src", "mkdir", "return"), Sys("id", "mkdir", "return"), Sys("src", "mark", "ignore"), Sys("id", "mark", "ignore"),
           Sys("src", "lookup", "return")>>
  BY HandlerCalls, Zenon
<1>2. nreq.k \in 1..Len(NameHandlers[nreq.op])
  BY RequestForm
<1> QED BY <1>1, <1>2 DEF Is, NStep, Sys

LEMMA SymlinkSteps ==
    ASSUME NamesTypeOK, nreq # NoNameReq, nreq.op = "symlink"
    PROVE  /\ nreq.k \in {1, 2, 3}
           /\ Len(NameHandlers[nreq.op]) = 3
           /\ nreq.k = 1 => Is("src", "symlink", "return")
           /\ nreq.k = 2 => Is("id", "symlink", "return")
           /\ nreq.k = 3 => Is("src", "lookup", "return")
<1>1. NameHandlers[nreq.op] =
         <<Sys("src", "symlink", "return"), Sys("id", "symlink", "return"), Sys("src", "lookup", "return")>>
  BY HandlerCalls, Zenon
<1>2. nreq.k \in 1..Len(NameHandlers[nreq.op])
  BY RequestForm
<1> QED BY <1>1, <1>2 DEF Is, NStep, Sys

LEMMA LinkSteps ==
    ASSUME NamesTypeOK, nreq # NoNameReq, nreq.op = "link"
    PROVE  /\ nreq.k \in {1, 2, 3}
           /\ Len(NameHandlers[nreq.op]) = 3
           /\ nreq.k = 1 => Is("src", "link", "return")
           /\ nreq.k = 2 => Is("id", "link", "return")
           /\ nreq.k = 3 => Is("src", "count", "return")
<1>1. NameHandlers[nreq.op] =
         <<Sys("src", "link", "return"), Sys("id", "link", "return"), Sys("src", "count", "return")>>
  BY HandlerCalls, Zenon
<1>2. nreq.k \in 1..Len(NameHandlers[nreq.op])
  BY RequestForm
<1> QED BY <1>1, <1>2 DEF Is, NStep, Sys

LEMMA RmdirSteps ==
    ASSUME NamesTypeOK, nreq # NoNameReq, nreq.op = "rmdir"
    PROVE  /\ nreq.k \in {1, 2}
           /\ Len(NameHandlers[nreq.op]) = 2
           /\ nreq.k = 1 => Is("src", "rmdir", "goon")
           /\ nreq.k = 2 => Is("id", "rmdir", "last")
<1>1. NameHandlers[nreq.op] =
         <<Sys("src", "rmdir", "goon"), Sys("id", "rmdir", "last")>>
  BY HandlerCalls, Zenon
<1>2. nreq.k \in 1..Len(NameHandlers[nreq.op])
  BY RequestForm
<1> QED BY <1>1, <1>2 DEF Is, NStep, Sys

LEMMA RenameSteps ==
    ASSUME NamesTypeOK, nreq # NoNameReq, nreq.op = "rename"
    PROVE  /\ nreq.k \in {1, 2}
           /\ Len(NameHandlers[nreq.op]) = 2
           /\ nreq.k = 1 => Is("src", "rename", "goon")
           /\ nreq.k = 2 => Is("id", "rename", "last")
<1>1. NameHandlers[nreq.op] =
         <<Sys("src", "rename", "goon"), Sys("id", "rename", "last")>>
  BY HandlerCalls, Zenon
<1>2. nreq.k \in 1..Len(NameHandlers[nreq.op])
  BY RequestForm
<1> QED BY <1>1, <1>2 DEF Is, NStep, Sys

LEMMA UnlinkSteps ==
    ASSUME NamesTypeOK, nreq # NoNameReq, nreq.op = "unlink"
    PROVE  /\ nreq.k \in {1, 2, 3}
           /\ Len(NameHandlers[nreq.op]) = 3
           /\ nreq.k = 1 => Is("src", "lookup", "return")
           /\ nreq.k = 2 => Is("src", "unlink", "goon")
           /\ nreq.k = 3 => Is("id", "unlink", "goon")
<1>1. NameHandlers[nreq.op] =
         <<Sys("src", "lookup", "return"), Sys("src", "unlink", "goon"), Sys("id", "unlink", "goon")>>
  BY HandlerCalls, Zenon
<1>2. nreq.k \in 1..Len(NameHandlers[nreq.op])
  BY RequestForm
<1> QED BY <1>1, <1>2 DEF Is, NStep, Sys

LEMMA CreateSteps ==
    ASSUME NamesTypeOK, nreq # NoNameReq, nreq.op = "create"
    PROVE  /\ nreq.k \in {1, 2, 3, 4, 5}
           /\ Len(NameHandlers[nreq.op]) = 5
           /\ nreq.k = 1 => Is("src", "creat", "return")
           /\ nreq.k = 2 => Is("id", "creat", "return")
           /\ nreq.k = 3 => Is("src", "mark", "ignore")
           /\ nreq.k = 4 => Is("id", "mark", "ignore")
           /\ nreq.k = 5 => Is("src", "lookup", "return")
<1>1. NameHandlers[nreq.op] =
         <<Sys("src", "creat", "return"), Sys("id", "creat", "return"), Sys("src", "mark", "ignore"), Sys("id", "mark", "ignore"),
           Sys("src", "lookup", "return")>>
  BY HandlerCalls, Zenon
<1>2. nreq.k \in 1..Len(NameHandlers[nreq.op])
  BY RequestForm
<1> QED BY <1>1, <1>2 DEF Is, NStep, Sys

LEMMA SetxattrSteps ==
    ASSUME NamesTypeOK, nreq # NoNameReq, nreq.op = "setxattr"
    PROVE  /\ nreq.k \in {1, 2}
           /\ Len(NameHandlers[nreq.op]) = 2
           /\ nreq.k = 1 => Is("src", "setxattr", "goon")
           /\ nreq.k = 2 => Is("id", "setxattr", "last")
<1>1. NameHandlers[nreq.op] =
         <<Sys("src", "setxattr", "goon"), Sys("id", "setxattr", "last")>>
  BY HandlerCalls, Zenon
<1>2. nreq.k \in 1..Len(NameHandlers[nreq.op])
  BY RequestForm
<1> QED BY <1>1, <1>2 DEF Is, NStep, Sys

LEMMA RemovexattrSteps ==
    ASSUME NamesTypeOK, nreq # NoNameReq, nreq.op = "removexattr"
    PROVE  /\ nreq.k \in {1, 2, 3}
           /\ Len(NameHandlers[nreq.op]) = 3
           /\ nreq.k = 1 => Is("src", "removexattr", "goon")
           /\ nreq.k = 2 => Is("id", "removexattr", "goon")
           /\ nreq.k = 3 => Is("src", "convert", "last")
<1>1. NameHandlers[nreq.op] =
         <<Sys("src", "removexattr", "goon"), Sys("id", "removexattr", "goon"), Sys("src", "convert", "last")>>
  BY HandlerCalls, Zenon
<1>2. nreq.k \in 1..Len(NameHandlers[nreq.op])
  BY RequestForm
<1> QED BY <1>1, <1>2 DEF Is, NStep, Sys

LEMMA LookupSteps ==
    ASSUME NamesTypeOK, nreq # NoNameReq, nreq.op = "lookup"
    PROVE  /\ nreq.k \in {1}
           /\ Len(NameHandlers[nreq.op]) = 1
           /\ nreq.k = 1 => Is("src", "lookup", "return")
<1>1. NameHandlers[nreq.op] =
         <<Sys("src", "lookup", "return")>>
  BY HandlerCalls, Zenon
<1>2. nreq.k \in 1..Len(NameHandlers[nreq.op])
  BY RequestForm
<1> QED BY <1>1, <1>2 DEF Is, NStep, Sys

-----------------------------------------------------------------------------
(***************************************************************************)
(* Types.                                                                  *)
(***************************************************************************)
USE NamesAssumption

Made == {"mkdir", "mknod", "symlink", "creat"}
AttrCalls == {"mark", "setxattr", "removexattr", "count"}

\* What a call makes of a tree.
LEMMA AfterMakes ==
    ASSUME NEW t, NEW n, NEW m, NEW call \in Made
    PROVE  After(t, call, n, m) = IF Exists(t, n) THEN tree[t] ELSE [tree[t] EXCEPT ![n] = Entry(KindMade[call], nasks)]
<1>1. DOMAIN KindMade = Made
  BY DEF KindMade, Made
<1> QED BY <1>1 DEF After, Made

LEMMA AfterRemoves ==
    ASSUME NEW t, NEW n, NEW m, NEW call \in {"rmdir", "unlink"}
    PROVE  After(t, call, n, m) = [tree[t] EXCEPT ![n] = NoEntry]
BY DEF After, KindMade

LEMMA AfterMoves ==
    ASSUME NEW t, NEW n, NEW m
    PROVE  /\ After(t, "rename", n, m) = [tree[t] EXCEPT ![m] = tree[t][n], ![n] = NoEntry]
           /\ After(t, "link", n, m) = [tree[t] EXCEPT ![m] = tree[t][n]]
BY DEF After, KindMade

LEMMA AfterAttrs ==
    ASSUME NEW t, NEW n, NEW m
    PROVE  /\ \/ After(t, "mark", n, m) = tree[t]
              \/ After(t, "mark", n, m) = WithAttrs(t, n, tree[t][n].attrs \union {"id"})
           /\ After(t, "setxattr", n, m) = WithAttrs(t, n, tree[t][n].attrs \union {"user"})
           /\ After(t, "removexattr", n, m) = WithAttrs(t, n, tree[t][n].attrs \ {"id"})
           /\ After(t, "count", n, m) = tree[t]
BY DEF After, KindMade

\* A call on attributes leaves the entries what they are.
LEMMA AttrsOnly ==
    ASSUME NamesTypeOK, NEW t \in Trees, NEW n \in FileNames, NEW m \in FileNames, NEW call \in AttrCalls
    PROVE  /\ After(t, call, n, m) \in [FileNames -> Entries]
           /\ \A x \in FileNames : LET e == After(t, call, n, m)[x] IN
                 e.kind = tree[t][x].kind /\ e.file = tree[t][x].file /\ e.data = tree[t][x].data
<1> DEFINE T == tree[t]
<1>1. T \in [FileNames -> Entries] /\ T[n].attrs \in SUBSET Attrs
  BY DEF NamesTypeOK, Entries
<1>2. ASSUME NEW a \in SUBSET Attrs
      PROVE  /\ WithAttrs(t, n, a) \in [FileNames -> Entries]
             /\ \A x \in FileNames : LET e == WithAttrs(t, n, a)[x] IN
                   e.kind = T[x].kind /\ e.file = T[x].file /\ e.data = T[x].data
  <2> SUFFICES ASSUME NEW x \in FileNames
               PROVE  LET e == IF x \in Same(t, n) THEN [T[x] EXCEPT !.attrs = a] ELSE T[x] IN
                      e \in Entries /\ e.kind = T[x].kind /\ e.file = T[x].file /\ e.data = T[x].data
    BY Zenon DEF WithAttrs
  <2>1. T[x] \in Entries
    BY <1>1
  <2>2. CASE x \in Same(t, n)
    <3>1. T[x] # NoEntry
      BY <2>2 DEF Same, Exists
    <3>2. LET f == [T[x] EXCEPT !.attrs = a] IN f \in Entries /\ f.kind = T[x].kind /\ f.file = T[x].file /\ f.data = T[x].data
      BY <2>1, <3>1, EntryChange
    <3> QED BY <2>2, <3>2, Zenon
  <2>3. CASE x \notin Same(t, n)
    BY <2>1, <2>3, Zenon
  <2> QED BY <2>2, <2>3
<1>3. /\ T[n].attrs \union {"id"} \in SUBSET Attrs /\ T[n].attrs \union {"user"} \in SUBSET Attrs
      /\ T[n].attrs \ {"id"} \in SUBSET Attrs
  BY <1>1 DEF Attrs
<1>4. CASE After(t, call, n, m) = T
  BY <1>1, <1>4
<1>5. CASE \E a \in SUBSET Attrs : After(t, call, n, m) = WithAttrs(t, n, a)
  BY <1>2, <1>5
<1>6. \/ After(t, call, n, m) = T
      \/ \E a \in SUBSET Attrs : After(t, call, n, m) = WithAttrs(t, n, a)
  BY <1>3, AfterAttrs, Zenon DEF AttrCalls
<1> QED BY <1>4, <1>5, <1>6

LEMMA AfterTypes ==
    ASSUME NamesTypeOK, NEW t \in Trees, NEW n \in FileNames, NEW m \in FileNames,
           NEW call \in Made \cup AttrCalls \cup {"rmdir", "unlink", "rename", "link"}
    PROVE  After(t, call, n, m) \in [FileNames -> Entries]
<1>1. tree[t] \in [FileNames -> Entries]
  BY DEF NamesTypeOK
<1>2. NoEntry \in Entries
  BY NewEntry, Zenon DEF NoEntry
<1>3. CASE call \in AttrCalls
  BY <1>3, AttrsOnly
<1>4. CASE call \in Made /\ Exists(t, n)
  BY <1>1, <1>4, AfterMakes, Zenon
<1>5. CASE call \in Made /\ ~Exists(t, n)
  <2>1. KindMade[call] \in Kinds /\ nasks \in Nat
    BY <1>5 DEF KindMade, Made, Kinds, NamesTypeOK
  <2>2. Entry(KindMade[call], nasks) \in Entries
    BY <2>1, NewEntry, Zenon DEF Kinds
  <2>3. After(t, call, n, m) = [tree[t] EXCEPT ![n] = Entry(KindMade[call], nasks)]
    BY <1>5, AfterMakes
  <2> QED BY <1>1, <2>2, <2>3, Zenon
<1>6. CASE call \in {"rmdir", "unlink"}
  <2>1. After(t, call, n, m) = [tree[t] EXCEPT ![n] = NoEntry]
    BY <1>6, AfterRemoves, Zenon
  <2> QED BY <1>1, <1>2, <2>1, Zenon
<1>7. CASE call = "rename"
  <2>1. After(t, call, n, m) = [tree[t] EXCEPT ![m] = tree[t][n], ![n] = NoEntry]
    BY <1>7, AfterMoves, Zenon
  <2> QED BY <1>1, <1>2, <2>1
<1>8. CASE call = "link"
  <2>1. After(t, call, n, m) = [tree[t] EXCEPT ![m] = tree[t][n]]
    BY <1>8, AfterMoves, Zenon
  <2> QED BY <1>1, <2>1
<1> QED BY <1>3, <1>4, <1>5, <1>6, <1>7, <1>8

Answers == [op : DOMAIN NameHandlers, ans : {"ok", "err"}]

\* A request goes on to its next call, or ends.
LEMMA GoesOn ==
    ASSUME NamesTypeOK, nreq # NoNameReq, NEW rs \in Seq(Answers), Goes(rs)
    PROVE  /\ \/ /\ nreq.k = Len(NameHandlers[nreq.op]) /\ nreq' = NoNameReq /\ replies' = Replied(rs, "ok")
              \/ /\ nreq.k < Len(NameHandlers[nreq.op])
                 /\ nreq' # NoNameReq /\ nreq' \in [op : DOMAIN NameHandlers, n : FileNames, m : FileNames, k : Nat]
                 /\ nreq'.op = nreq.op /\ nreq'.n = nreq.n /\ nreq'.m = nreq.m /\ nreq'.k = nreq.k + 1
                 /\ replies' = rs
           /\ \/ nreq' = NoNameReq
              \/ /\ nreq' \in [op : DOMAIN NameHandlers, n : FileNames, m : FileNames, k : Nat]
                 /\ nreq'.k \in 1..Len(NameHandlers[nreq'.op])
           /\ replies' \in Seq(Answers)
<1>1. nreq \in [op : DOMAIN NameHandlers, n : FileNames, m : FileNames, k : Nat] /\ nreq.k \in 1..Len(NameHandlers[nreq.op])
  BY Zenon DEF NamesTypeOK
<1>2. Len(NameHandlers[nreq.op]) \in Nat
  BY <1>1, LenOfHandlers
<1>3. Replied(rs, "ok") \in Seq(Answers)
  BY <1>1, Appended DEF Replied, Answers
<1>4. CASE nreq.k = Len(NameHandlers[nreq.op])
  BY <1>3, <1>4 DEF Goes, Ends
<1>5. CASE nreq.k # Len(NameHandlers[nreq.op])
  <2>1. nreq' = [nreq EXCEPT !.k = nreq.k + 1] /\ replies' = rs
    BY <1>5 DEF Goes
  <2>2. nreq.k < Len(NameHandlers[nreq.op]) /\ nreq.k + 1 \in 1..Len(NameHandlers[nreq.op]) /\ nreq.k + 1 \in Nat
    BY <1>1, <1>2, <1>5
  <2>3. /\ nreq' \in [op : DOMAIN NameHandlers, n : FileNames, m : FileNames, k : Nat]
        /\ nreq'.op = nreq.op /\ nreq'.n = nreq.n /\ nreq'.m = nreq.m /\ nreq'.k = nreq.k + 1
    BY <1>1, <2>1, <2>2
  <2>4. nreq' # NoNameReq
    <3>1. NoNameReq.op = "none" /\ nreq.op # "none"
      BY RequestForm DEF NoNameReq
    <3> QED BY <2>3, <3>1
  <2> QED BY <2>1, <2>2, <2>3, <2>4
<1> QED BY <1>4, <1>5

\* ... or is answered with an error.
LEMMA EndsTyped ==
    ASSUME NamesTypeOK, nreq # NoNameReq, NEW rs \in Seq(Answers), NEW ans \in {"ok", "err"}, Ends(rs, ans)
    PROVE  nreq' = NoNameReq /\ replies' \in Seq(Answers) /\ replies' = Replied(rs, ans)
<1>1. nreq.op \in DOMAIN NameHandlers
  BY Zenon DEF NamesTypeOK
<1>2. Replied(rs, ans) \in Seq(Answers)
  BY <1>1, Appended DEF Replied, Answers
<1> QED BY <1>2 DEF Ends

LEMMA RepliedTyped ==
    ASSUME NamesTypeOK, nreq # NoNameReq, NEW ans \in {"ok", "err"}
    PROVE  Replied(replies, ans) \in Seq(Answers) /\ replies \in Seq(Answers)
<1>1. nreq.op \in DOMAIN NameHandlers /\ replies \in Seq(Answers)
  BY Zenon DEF NamesTypeOK, Answers
<1> QED BY <1>1, Appended DEF Replied, Answers

\* The calls there are.
LEMMA CallsMade ==
    ASSUME NamesTypeOK, nreq # NoNameReq
    PROVE  /\ NStep.tree \in {"src", "id"}
           /\ NStep.call \in Made \cup AttrCalls \cup {"rmdir", "unlink", "rename", "link", "lookup", "convert"}
<1> USE DEF Is, Made, AttrCalls
<1>1. CASE nreq.op = "mknod"
  BY <1>1, MknodSteps
<1>2. CASE nreq.op = "mkdir"
  BY <1>2, MkdirSteps
<1>3. CASE nreq.op = "symlink"
  BY <1>3, SymlinkSteps
<1>4. CASE nreq.op = "link"
  BY <1>4, LinkSteps
<1>5. CASE nreq.op = "rmdir"
  BY <1>5, RmdirSteps
<1>6. CASE nreq.op = "rename"
  BY <1>6, RenameSteps
<1>7. CASE nreq.op = "unlink"
  BY <1>7, UnlinkSteps
<1>8. CASE nreq.op = "create"
  BY <1>8, CreateSteps
<1>9. CASE nreq.op = "setxattr"
  BY <1>9, SetxattrSteps
<1>10. CASE nreq.op = "removexattr"
  BY <1>10, RemovexattrSteps
<1>11. CASE nreq.op = "lookup"
  BY <1>11, LookupSteps
<1> QED BY <1>1, <1>2, <1>3, <1>4, <1>5, <1>6, <1>7, <1>8, <1>9, <1>10, <1>11, RequestForm, Zenon

\* A call that changes a tree.
LEMMA SysCallEffect ==
    ASSUME NamesTypeOK, SysCall
    PROVE  LET t == NStep.tree
               after == After(NStep.tree, NStep.call, nreq.n, nreq.m)
           IN /\ nreq # NoNameReq /\ t \in Trees /\ Goes(replies) /\ UNCHANGED <<fails, gone, conv, remote, nasks>>
              /\ NStep.call \in Made \cup AttrCalls \cup {"rmdir", "unlink", "rename", "link"}
              /\ after \in [FileNames -> Entries]
              /\ t = "src" => tree'["src"] = after /\ tree'["id"] = tree["id"] /\ ino' = InodesAfter(NStep.call, nreq.n, nreq.m)
              /\ t = "id" => tree'["id"] = after /\ tree'["src"] = tree["src"] /\ ino' = ino
              /\ tree' \in [Trees -> [FileNames -> Entries]]
<1>1. /\ nreq # NoNameReq /\ Goes(replies) /\ UNCHANGED <<fails, gone, conv, remote, nasks>>
      /\ NStep.call \notin {"lookup", "convert"}
      /\ tree' = [tree EXCEPT ![NStep.tree] = After(NStep.tree, NStep.call, nreq.n, nreq.m)]
      /\ ino' = IF NStep.tree = "src" THEN InodesAfter(NStep.call, nreq.n, nreq.m) ELSE ino
  BY Zenon DEF SysCall
<1>2. NStep.tree \in Trees /\ NStep.call \in Made \cup AttrCalls \cup {"rmdir", "unlink", "rename", "link"}
  BY <1>1, CallsMade DEF Trees
<1>3. After(NStep.tree, NStep.call, nreq.n, nreq.m) \in [FileNames -> Entries]
  BY <1>1, <1>2, RequestForm, AfterTypes, Zenon
<1>4. tree \in [Trees -> [FileNames -> Entries]] /\ "src" \in Trees /\ "id" \in Trees
  BY Zenon DEF NamesTypeOK, Trees
<1>5. tree' \in [Trees -> [FileNames -> Entries]]
  BY <1>1, <1>2, <1>3, <1>4, Zenon
<1>6. NStep.tree = "src" => tree'["src"] = After(NStep.tree, NStep.call, nreq.n, nreq.m) /\ tree'["id"] = tree["id"]
  BY <1>1, <1>4, Zenon
<1>7. NStep.tree = "id" => tree'["id"] = After(NStep.tree, NStep.call, nreq.n, nreq.m) /\ tree'["src"] = tree["src"]
  BY <1>1, <1>4, Zenon
<1> QED BY <1>1, <1>2, <1>3, <1>5, <1>6, <1>7, Zenon

\* The inodes after a call.
LEMMA InodesAfterIs ==
    ASSUME NEW n, NEW m
    PROVE  /\ \A call \in {"rmdir", "unlink"} : InodesAfter(call, n, m) = [ino EXCEPT ![n] = NoInode]
           /\ InodesAfter("rename", n, m) = [ino EXCEPT ![m] = ino[n], ![n] = NoInode]
           /\ InodesAfter("link", n, m) = [ino EXCEPT ![m] = ino[n]]
BY DEF InodesAfter, Made, AttrCalls

LEMMA InodesKept ==
    ASSUME NEW n, NEW m, NEW call \in Made \cup AttrCalls
    PROVE  InodesAfter(call, n, m) = ino
BY DEF InodesAfter, Made, AttrCalls

LEMMA InodeTyped ==
    ASSUME NEW key \in {"src", "id"}, NEW a \in BOOLEAN, NEW b \in BOOLEAN, NEW c \in BOOLEAN
    PROVE  [key |-> key, is_id |-> a, needs_download |-> b, idfd |-> c] \in Inodes
BY DEF Inodes

\* A look-up.
LEMMA LookupEffect ==
    ASSUME NamesTypeOK, do_lookup
    PROVE  LET n == nreq.n
               new == ino[n] = NoInode
               missing == new /\ ~Exists("id", n)
           IN /\ nreq # NoNameReq /\ n \in FileNames /\ NStep.call = "lookup" /\ Exists("src", n)
              /\ UNCHANGED <<gone, conv, remote, nasks>>
              /\ fails' = fails \/ fails' = fails + 1
              /\ Goes(replies) \/ Ends(replies, "err")
              /\ tree' \in [Trees -> [FileNames -> Entries]] /\ ino' \in [FileNames -> Inodes]
              /\ fails' = fails =>
                    /\ tree'["src"] = tree["src"]
                    /\ tree'["id"] = IF missing THEN [tree["id"] EXCEPT ![n] = Placeholder(n)] ELSE tree["id"]
                    /\ ~new => ino' = ino
                    /\ new => ino' = [x \in FileNames |->
                         IF x \in Same("src", n)
                         THEN [key |-> IF n \in IdNames THEN "id" ELSE "src",
                               is_id |-> n \in IdNames,
                               needs_download |-> n \in IdNames /\ missing /\ tree["src"][n].kind # "dir",
                               idfd |-> TRUE]
                         ELSE ino[x]]
                    /\ (ino'[n].is_id => ino'[n].idfd) => Goes(replies)
<1> DEFINE n == nreq.n
           new == ino[n] = NoInode
           missing == new /\ ~Exists("id", n)
           inode(made) == [key |-> IF n \in IdNames /\ made THEN "id" ELSE "src",
                           is_id |-> n \in IdNames,
                           needs_download |-> n \in IdNames /\ missing /\ tree["src"][n].kind # "dir",
                           idfd |-> made]
<1>1. PICK made \in BOOLEAN :
         /\ nreq # NoNameReq /\ NStep.call = "lookup" /\ Exists("src", n)
         /\ ~made => missing /\ fails < MaxFails
         /\ fails' = IF made THEN fails ELSE fails + 1
         /\ tree' = IF made /\ missing THEN [tree EXCEPT !["id"][n] = Placeholder(n)] ELSE tree
         /\ ino' = IF new THEN [x \in FileNames |-> IF x \in Same("src", n) THEN inode(made) ELSE ino[x]] ELSE ino
         /\ IF ino'[n].is_id /\ ~ino'[n].idfd THEN Ends(replies, "err") ELSE Goes(replies)
         /\ UNCHANGED <<gone, conv, remote, nasks>>
  BY Zenon DEF do_lookup, f3_is_new_id
<1>2. n \in FileNames
  BY <1>1, RequestForm
<1>3. tree \in [Trees -> [FileNames -> Entries]] /\ "src" \in Trees /\ "id" \in Trees /\ ino \in [FileNames -> Inodes]
      /\ fails \in Nat /\ nasks \in Nat
  BY Zenon DEF NamesTypeOK, Trees
<1>4. Placeholder(n) \in Entries
  BY <1>3, NewEntry, Zenon DEF Placeholder, Kinds
<1>5. tree' \in [Trees -> [FileNames -> Entries]] /\ tree'["src"] = tree["src"]
  <2>1. CASE made /\ missing
    BY <1>1, <1>2, <1>3, <1>4, <2>1
  <2>2. CASE ~(made /\ missing)
    BY <1>1, <1>3, <2>2
  <2> QED BY <2>1, <2>2
<1>6. inode(made) \in Inodes
  <2>1. (IF n \in IdNames /\ made THEN "id" ELSE "src") \in {"src", "id"}
    BY Zenon
  <2>2. (n \in IdNames) \in BOOLEAN /\ (n \in IdNames /\ missing /\ tree["src"][n].kind # "dir") \in BOOLEAN
    OBVIOUS
  <2> QED BY <2>1, <2>2, InodeTyped, Zenon
<1>7. ino' \in [FileNames -> Inodes]
  <2> HIDE DEF inode
  <2> QED BY <1>1, <1>3, <1>6
<1>8. ASSUME fails' = fails PROVE made
  BY <1>1, <1>3, <1>8
<1>9. ASSUME made
      PROVE  tree'["id"] = IF missing THEN [tree["id"] EXCEPT ![n] = Placeholder(n)] ELSE tree["id"]
  BY <1>1, <1>3, <1>9
<1>10. ASSUME made, new PROVE ino' = [x \in FileNames |-> IF x \in Same("src", n) THEN inode(TRUE) ELSE ino[x]]
  <2>1. made = TRUE
    BY <1>10
  <2>2. inode(made) = inode(TRUE)
    BY <2>1
  <2> HIDE DEF inode
  <2> QED BY <1>1, <1>10, <2>2, Zenon
<1>11. inode(TRUE) = [key |-> IF n \in IdNames THEN "id" ELSE "src",
                               is_id |-> n \in IdNames,
                               needs_download |-> n \in IdNames /\ missing /\ tree["src"][n].kind # "dir",
                               idfd |-> TRUE]
  BY Zenon
<1> HIDE DEF inode
<1>12. fails' = fails \/ fails' = fails + 1
  BY <1>1, Zenon
<1>13. Goes(replies) \/ Ends(replies, "err")
  BY <1>1, Zenon
<1>14. (ino'[n].is_id => ino'[n].idfd) => Goes(replies)
  BY <1>1, Zenon
<1>15. ~new => ino' = ino
  BY <1>1, Zenon
<1>16. nreq # NoNameReq /\ NStep.call = "lookup" /\ Exists("src", n) /\ UNCHANGED <<gone, conv, remote, nasks>>
  BY <1>1, Zenon
<1> QED BY <1>2, <1>5, <1>7, <1>8, <1>9, <1>10, <1>11, <1>12, <1>13, <1>14, <1>15, <1>16, Zenon

\* The conversion of an ID file.
LEMMA ConvertEffect ==
    ASSUME NamesTypeOK, f3_make_id_fs
    PROVE  LET n == nreq.n IN
           /\ tree' \in [Trees -> [FileNames -> Entries]] /\ ino' \in [FileNames -> Inodes]
           /\ \A x \in FileNames :
                 /\ tree'["src"][x].kind = tree["src"][x].kind /\ tree'["src"][x].file = tree["src"][x].file
                 /\ tree'["id"][x].kind = tree["id"][x].kind /\ tree'["id"][x].file = tree["id"][x].file
                 /\ x \notin Same("src", n) => tree'["src"][x].data = tree["src"][x].data /\ ino'[x] = ino[x]
                 /\ x \in Same("src", n) => ino'[x] = Converted(ino[x])
                 /\ tree'["id"][x].data = IF x \in Same("id", n) THEN FALSE ELSE tree["id"][x].data
<1> DEFINE n == nreq.n
           src(x) == IF x \in Same("src", n) THEN [tree["src"][x] EXCEPT !.data = tree["src"][x].data \/ tree["id"][n].data]
                     ELSE tree["src"][x]
           id(x) == IF x \in Same("id", n) THEN [tree["id"][x] EXCEPT !.data = FALSE] ELSE tree["id"][x]
<1>1. /\ tree' = [tree EXCEPT !["src"] = [x \in FileNames |-> src(x)], !["id"] = [x \in FileNames |-> id(x)]]
      /\ ino' = [x \in FileNames |-> IF x \in Same("src", n) THEN Converted(ino[x]) ELSE ino[x]]
      /\ nreq # NoNameReq
  BY Zenon DEF f3_make_id_fs
<1>2. /\ tree \in [Trees -> [FileNames -> Entries]] /\ "src" \in Trees /\ "id" \in Trees /\ ino \in [FileNames -> Inodes]
      /\ n \in FileNames
  BY <1>1, RequestForm DEF NamesTypeOK, Trees
<1>3. ASSUME NEW x \in FileNames
      PROVE  /\ src(x) \in Entries /\ src(x).kind = tree["src"][x].kind /\ src(x).file = tree["src"][x].file
             /\ x \notin Same("src", n) => src(x).data = tree["src"][x].data
  <2>1. tree["src"][x] \in Entries /\ (tree["src"][x].data \/ tree["id"][n].data) \in BOOLEAN
    BY <1>2
  <2>2. CASE x \in Same("src", n)
    <3>1. tree["src"][x] # NoEntry
      BY <2>2 DEF Same, Exists
    <3>2. (tree["src"][x].data \/ tree["id"][n].data) \in BOOLEAN
      BY <2>1
    <3>3. LET f == [tree["src"][x] EXCEPT !.data = tree["src"][x].data \/ tree["id"][n].data] IN
          f \in Entries /\ f.kind = tree["src"][x].kind /\ f.file = tree["src"][x].file
      BY <2>1, <3>1, <3>2, EntryChange, ZenonT(40)
    <3> QED BY <2>2, <3>3, Zenon
  <2>3. CASE x \notin Same("src", n)
    BY <2>1, <2>3
  <2> QED BY <2>2, <2>3
<1>4. ASSUME NEW x \in FileNames
      PROVE  /\ id(x) \in Entries /\ id(x).kind = tree["id"][x].kind /\ id(x).file = tree["id"][x].file
             /\ id(x).data = IF x \in Same("id", n) THEN FALSE ELSE tree["id"][x].data
  <2>1. tree["id"][x] \in Entries
    BY <1>2
  <2>2. CASE x \in Same("id", n)
    <3>1. tree["id"][x] # NoEntry
      BY <2>2 DEF Same, Exists
    <3> QED BY <2>1, <2>2, <3>1, EntryChange, Zenon
  <2>3. CASE x \notin Same("id", n)
    BY <2>1, <2>3
  <2> QED BY <2>2, <2>3
<1>a. ino' = [x \in FileNames |-> IF x \in Same("src", n) THEN Converted(ino[x]) ELSE ino[x]]
  BY <1>1, Zenon
<1> HIDE DEF src, id
<1>5. tree'["src"] = [x \in FileNames |-> src(x)] /\ tree'["id"] = [x \in FileNames |-> id(x)]
  BY <1>1, <1>2
<1>6. tree' \in [Trees -> [FileNames -> Entries]]
  BY <1>1, <1>2, <1>3, <1>4, Zenon
<1>7. \A i \in Inodes : Converted(i) \in Inodes
  <2>1. Converted(NoInode) = NoInode
    <3>1. [NoInode EXCEPT !.is_id = FALSE] = [NoInode EXCEPT !.is_id = NoInode.is_id]
      BY DEF NoInode
    <3>2. [NoInode EXCEPT !.is_id = NoInode.is_id] = NoInode
      BY Zenon DEF NoInode
    <3> QED BY <3>1, <3>2, Zenon DEF Converted
  <2>2. \A i \in Inodes : Converted(i).key = i.key
    BY DEF Converted, Inodes
  <2>3. \A i \in Inodes : Converted(i) \in [key : {"none", "src", "id"}, is_id : BOOLEAN, needs_download : BOOLEAN, idfd : BOOLEAN]
    BY Zenon DEF Converted, Inodes
  <2> QED BY <2>1, <2>2, <2>3, Zenon DEF Inodes
<1>8. ino' \in [FileNames -> Inodes]
  BY <1>1, <1>2, <1>7
<1>9. \A x \in FileNames : tree'["src"][x] = src(x) /\ tree'["id"][x] = id(x)
  BY <1>5, Zenon
<1>10. ASSUME NEW x \in FileNames
       PROVE  /\ tree'["src"][x].kind = tree["src"][x].kind /\ tree'["src"][x].file = tree["src"][x].file
              /\ tree'["id"][x].kind = tree["id"][x].kind /\ tree'["id"][x].file = tree["id"][x].file
              /\ x \notin Same("src", n) => tree'["src"][x].data = tree["src"][x].data /\ ino'[x] = ino[x]
              /\ x \in Same("src", n) => ino'[x] = Converted(ino[x])
              /\ tree'["id"][x].data = IF x \in Same("id", n) THEN FALSE ELSE tree["id"][x].data
  <2>1. tree'["src"][x] = src(x) /\ tree'["id"][x] = id(x)
    BY <1>9
  <2>2. /\ src(x).kind = tree["src"][x].kind /\ src(x).file = tree["src"][x].file
        /\ x \notin Same("src", n) => src(x).data = tree["src"][x].data
    BY <1>3
  <2>3. /\ id(x).kind = tree["id"][x].kind /\ id(x).file = tree["id"][x].file
        /\ id(x).data = IF x \in Same("id", n) THEN FALSE ELSE tree["id"][x].data
    BY <1>4, Zenon
  <2>4. (x \in Same("src", n) => ino'[x] = Converted(ino[x])) /\ (x \notin Same("src", n) => ino'[x] = ino[x])
    BY <1>a, Zenon
  <2> QED BY <2>1, <2>2, <2>3, <2>4, Zenon
<1> QED BY <1>6, <1>8, <1>10, Zenon

\* A write.
LEMMA WriteEffect ==
    ASSUME NamesTypeOK, Write
    PROVE  /\ tree' \in [Trees -> [FileNames -> Entries]]
           /\ nreq = NoNameReq /\ UNCHANGED <<ino, nreq, replies, fails, gone, conv, remote, nasks>>
           /\ \E n \in FileNames :
                 /\ ino[n] # NoInode
                 /\ \A x \in FileNames :
                       /\ tree'["src"][x].kind = tree["src"][x].kind /\ tree'["src"][x].file = tree["src"][x].file
                       /\ tree'["id"][x].kind = tree["id"][x].kind /\ tree'["id"][x].file = tree["id"][x].file
                       /\ tree'["src"][x].data = (tree["src"][x].data \/ (~ino[n].is_id /\ x \in Same("src", n)))
                       /\ tree'["id"][x].data = (tree["id"][x].data \/ (ino[n].is_id /\ x \in Same("id", n)))
<1> DEFINE new(n, t, x) ==
             CASE t = INODE(n) /\ x \in Same(t, n) -> [tree[t][x] EXCEPT !.data = TRUE]
               [] t = "src" /\ ino[n].is_id /\ x \in Same(t, n) -> [tree[t][x] EXCEPT !.attrs = tree[t][x].attrs \union {"size"}]
               [] OTHER -> tree[t][x]
<1>1. PICK n \in FileNames :
         /\ nreq = NoNameReq /\ ino[n] # NoInode
         /\ tree' = [t \in Trees |-> [x \in FileNames |-> new(n, t, x)]]
         /\ UNCHANGED <<ino, nreq, replies, fails, gone, conv, remote, nasks>>
  BY Zenon DEF Write
<1>2. tree \in [Trees -> [FileNames -> Entries]] /\ "src" \in Trees /\ "id" \in Trees
  BY DEF NamesTypeOK, Trees
<1>3. INODE(n) = IF ino[n].is_id THEN "id" ELSE "src"
  BY DEF INODE
<1>4. ASSUME NEW t \in Trees, NEW x \in FileNames
      PROVE  /\ new(n, t, x) \in Entries /\ new(n, t, x).kind = tree[t][x].kind /\ new(n, t, x).file = tree[t][x].file
             /\ new(n, t, x).data = (tree[t][x].data \/ (t = INODE(n) /\ x \in Same(t, n)))
  <2>1. tree[t][x] \in Entries /\ tree[t][x].data \in BOOLEAN /\ tree[t][x].attrs \in SUBSET Attrs
    BY <1>2 DEF Entries
  <2>2. CASE t = INODE(n) /\ x \in Same(t, n)
    <3>1. tree[t][x] # NoEntry
      BY <2>2 DEF Same, Exists
    <3>2. new(n, t, x) = [tree[t][x] EXCEPT !.data = TRUE]
      BY <1>3, <2>2
    <3>3. LET f == [tree[t][x] EXCEPT !.data = TRUE] IN
          f \in Entries /\ f.kind = tree[t][x].kind /\ f.file = tree[t][x].file /\ f.data = TRUE
      BY <2>1, <3>1, EntryChange, Zenon
    <3> HIDE DEF new
    <3> QED BY <2>1, <2>2, <3>2, <3>3, Zenon
  <2>3. CASE ~(t = INODE(n) /\ x \in Same(t, n)) /\ t = "src" /\ ino[n].is_id /\ x \in Same(t, n)
    <3>1. tree[t][x] # NoEntry
      BY <2>3 DEF Same, Exists
    <3>2. new(n, t, x) = [tree[t][x] EXCEPT !.attrs = tree[t][x].attrs \union {"size"}]
      BY <1>3, <2>3
    <3>3. tree[t][x].attrs \union {"size"} \in SUBSET Attrs
      BY <2>1 DEF Attrs
    <3>4. LET f == [tree[t][x] EXCEPT !.attrs = tree[t][x].attrs \union {"size"}] IN
          f \in Entries /\ f.kind = tree[t][x].kind /\ f.file = tree[t][x].file /\ f.data = tree[t][x].data
      BY <2>1, <3>1, <3>3, EntryChange, Zenon
    <3> HIDE DEF new
    <3> QED BY <2>1, <2>3, <3>2, <3>4, Zenon
  <2>4. CASE ~(t = INODE(n) /\ x \in Same(t, n)) /\ ~(t = "src" /\ ino[n].is_id /\ x \in Same(t, n))
    <3>1. new(n, t, x) = tree[t][x]
      BY <2>4
    <3> HIDE DEF new
    <3> QED BY <2>1, <2>4, <3>1
  <2> QED BY <2>2, <2>3, <2>4, Zenon
<1> HIDE DEF new
<1>5. tree' \in [Trees -> [FileNames -> Entries]]
  BY <1>1, <1>4
<1>6. \A x \in FileNames : tree'["src"][x] = new(n, "src", x) /\ tree'["id"][x] = new(n, "id", x)
  BY <1>1, <1>2
<1>7. \A x \in FileNames :
         /\ tree'["src"][x].kind = tree["src"][x].kind /\ tree'["src"][x].file = tree["src"][x].file
         /\ tree'["id"][x].kind = tree["id"][x].kind /\ tree'["id"][x].file = tree["id"][x].file
         /\ tree'["src"][x].data = (tree["src"][x].data \/ (~ino[n].is_id /\ x \in Same("src", n)))
         /\ tree'["id"][x].data = (tree["id"][x].data \/ (ino[n].is_id /\ x \in Same("id", n)))
  BY <1>2, <1>3, <1>4, <1>6
<1> QED BY <1>1, <1>5, <1>7, Zenon

Request ==
    \/ nreq = NoNameReq
    \/ /\ nreq \in [op : DOMAIN NameHandlers, n : FileNames, m : FileNames, k : Nat]
       /\ nreq.k \in 1..Len(NameHandlers[nreq.op])

\* The types of trees and inodes, when they change at some names only.
LEMMA TypesNext ==
    ASSUME NamesTypeOK, NamesNext
    PROVE  NamesTypeOK'
<1>1. /\ tree \in [Trees -> [FileNames -> Entries]] /\ ino \in [FileNames -> Inodes] /\ Request
      /\ replies \in Seq(Answers) /\ conv \in {"none", "done", "undone"}
      /\ fails \in Nat /\ remote \in Nat /\ nasks \in Nat /\ nasks <= MaxRequests
  BY Zenon DEF NamesTypeOK, Request, Answers
<1>a. "src" \in Trees /\ "id" \in Trees /\ NoInode \in Inodes /\ NoEntry \in Entries
  BY NewEntry, Zenon DEF Trees, Inodes, NoInode, NoEntry
<1> SUFFICES /\ tree' \in [Trees -> [FileNames -> Entries]] /\ ino' \in [FileNames -> Inodes] /\ Request'
             /\ replies' \in Seq(Answers) /\ conv' \in {"none", "done", "undone"}
             /\ fails' \in Nat /\ remote' \in Nat /\ nasks' \in Nat /\ nasks' <= MaxRequests
  BY Zenon DEF NamesTypeOK, Request, Answers
<1>2. CASE NameRequest
  <2>1. PICK op \in DOMAIN NameHandlers, n \in FileNames, m \in FileNames : nreq' = [op |-> op, n |-> n, m |-> m, k |-> 1]
    BY <1>2, Zenon DEF NameRequest
  <2>2. Len(NameHandlers[op]) \in Nat /\ Len(NameHandlers[op]) >= 1
    BY LenOfHandlers
  <2>3. Request'
    BY <2>1, <2>2 DEF Request
  <2>4. /\ nasks + fails < MaxRequests /\ replies' = <<>> /\ nasks' = nasks + 1
        /\ UNCHANGED <<tree, ino, fails, gone, conv, remote>>
    BY <1>2 DEF NameRequest
  <2>5. nasks' \in Nat /\ nasks' <= MaxRequests
    BY <1>1, <2>4
  <2>6. replies' \in Seq(Answers)
    BY <2>4
  <2> QED BY <1>1, <2>3, <2>4, <2>5, <2>6
<1>3. CASE SysCall
  <2>1. /\ nreq # NoNameReq /\ Goes(replies) /\ UNCHANGED <<fails, gone, conv, remote, nasks>>
        /\ tree' \in [Trees -> [FileNames -> Entries]]
    BY <1>3, SysCallEffect, Zenon
  <2>2. Request' /\ replies' \in Seq(Answers)
    BY <1>1, <2>1, GoesOn, Zenon DEF Request
  <2>3. ino' = ino \/ ino' = InodesAfter(NStep.call, nreq.n, nreq.m)
    BY <1>3, Zenon DEF SysCall
  <2>4. /\ NStep.call \in Made \cup AttrCalls \cup {"rmdir", "unlink", "rename", "link"}
        /\ nreq.n \in FileNames /\ nreq.m \in FileNames
    BY <1>3, <2>1, SysCallEffect, RequestForm, Zenon
  <2>5. InodesAfter(NStep.call, nreq.n, nreq.m) \in [FileNames -> Inodes]
    <3>1. CASE NStep.call \in Made \cup AttrCalls
      <4>1. InodesAfter(NStep.call, nreq.n, nreq.m) = ino
        BY <3>1, InodesKept, Zenon
      <4> QED BY <1>1, <4>1, Zenon
    <3>2. CASE NStep.call \in {"rmdir", "unlink"}
      <4>1. InodesAfter(NStep.call, nreq.n, nreq.m) = [ino EXCEPT ![nreq.n] = NoInode]
        BY <3>2, InodesAfterIs, Zenon
      <4> QED BY <1>1, <1>a, <4>1, Zenon
    <3>3. CASE NStep.call = "rename"
      <4>1. InodesAfter(NStep.call, nreq.n, nreq.m) = [ino EXCEPT ![nreq.m] = ino[nreq.n], ![nreq.n] = NoInode]
        BY <3>3, InodesAfterIs, Zenon
      <4> QED BY <1>1, <1>a, <2>4, <4>1
    <3>4. CASE NStep.call = "link"
      <4>1. InodesAfter(NStep.call, nreq.n, nreq.m) = [ino EXCEPT ![nreq.m] = ino[nreq.n]]
        BY <3>4, InodesAfterIs, Zenon
      <4> QED BY <1>1, <2>4, <4>1
    <3> QED BY <2>4, <3>1, <3>2, <3>3, <3>4
  <2>6. ino' \in [FileNames -> Inodes]
    BY <1>1, <2>3, <2>5
  <2> QED BY <1>1, <2>1, <2>2, <2>6
<1>4. CASE SysCallFails
  <2>1. /\ nreq # NoNameReq /\ UNCHANGED <<tree, ino, gone, conv, remote, nasks>>
        /\ fails' = fails \/ fails' = fails + 1
        /\ Goes(replies) \/ Goes(Replied(replies, "err")) \/ Ends(replies, "err")
    BY <1>4 DEF SysCallFails
  <2>2. Replied(replies, "err") \in Seq(Answers)
    BY <2>1, RepliedTyped
  <2>3. Request' /\ replies' \in Seq(Answers)
    <3>1. CASE Goes(replies) \/ Goes(Replied(replies, "err"))
      BY <1>1, <2>1, <2>2, <3>1, GoesOn, Zenon DEF Request
    <3>2. CASE Ends(replies, "err")
      BY <1>1, <2>1, <3>2, EndsTyped, Zenon DEF Request
    <3> QED BY <2>1, <3>1, <3>2
  <2> QED BY <1>1, <2>1, <2>3
<1>5. CASE do_lookup
  <2>1. /\ nreq # NoNameReq /\ UNCHANGED <<gone, conv, remote, nasks>>
        /\ fails' = fails \/ fails' = fails + 1
        /\ Goes(replies) \/ Ends(replies, "err")
        /\ tree' \in [Trees -> [FileNames -> Entries]] /\ ino' \in [FileNames -> Inodes]
    BY <1>5, LookupEffect, Zenon
  <2>2. Request' /\ replies' \in Seq(Answers)
    <3>1. CASE Goes(replies)
      BY <1>1, <2>1, <3>1, GoesOn, Zenon DEF Request
    <3>2. CASE Ends(replies, "err")
      BY <1>1, <2>1, <3>2, EndsTyped, Zenon DEF Request
    <3> QED BY <2>1, <3>1, <3>2
  <2> QED BY <1>1, <2>1, <2>2
<1>6. CASE f3_make_id_fs
  <2>1. /\ nreq # NoNameReq /\ Goes(replies) /\ UNCHANGED <<fails, gone, remote, nasks>>
        /\ conv' = IF conv = "none" THEN "done" ELSE conv
    BY <1>6 DEF f3_make_id_fs
  <2>2. Request' /\ replies' \in Seq(Answers)
    BY <1>1, <2>1, GoesOn, Zenon DEF Request
  <2>3. tree' \in [Trees -> [FileNames -> Entries]] /\ ino' \in [FileNames -> Inodes]
    BY <1>6, ConvertEffect
  <2> QED BY <1>1, <2>1, <2>2, <2>3
<1>7. CASE Write
  <2>1. UNCHANGED <<ino, nreq, replies, fails, gone, conv, remote, nasks>>
    BY <1>7, Zenon DEF Write
  <2>2. tree' \in [Trees -> [FileNames -> Entries]]
    BY <1>7, WriteEffect
  <2>3. Request'
    BY <1>1, <2>1 DEF Request
  <2> QED BY <1>1, <2>1, <2>2, <2>3
<1>8. CASE forget_one
  <2>1. PICK n \in FileNames : /\ ino' = [x \in FileNames |-> IF x \in Same("src", n) THEN NoInode ELSE ino[x]]
                               /\ UNCHANGED <<tree, nreq, replies, fails, gone, conv, remote, nasks>>
    BY <1>8, Zenon DEF forget_one
  <2>2. ino' \in [FileNames -> Inodes]
    BY <1>1, <1>a, <2>1
  <2>3. Request'
    BY <1>1, <2>1 DEF Request
  <2> QED BY <1>1, <2>1, <2>2, <2>3
<1>9. CASE RemoteMake
  <2>1. PICK n \in FileNames, kind \in Kinds :
           /\ tree' = [tree EXCEPT !["src"][n] = [Entry(kind, MaxRequests + remote + 1) EXCEPT !.attrs =
                          IF f3_is_new_id(n) /\ kind # "link" THEN {"id"} ELSE {}]]
           /\ remote' = remote + 1 /\ UNCHANGED <<ino, nreq, replies, fails, gone, conv, nasks>>
    BY <1>9, Zenon DEF RemoteMake
  <2>2. MaxRequests + remote + 1 \in Nat
    BY <1>1
  <2>3. Entry(kind, MaxRequests + remote + 1) \in Entries /\ Entry(kind, MaxRequests + remote + 1) # NoEntry
    BY <2>2, NewEntry DEF Kinds, NoEntry, Entry
  <2>4. (IF f3_is_new_id(n) /\ kind # "link" THEN {"id"} ELSE {}) \in SUBSET Attrs
    BY DEF Attrs
  <2>5. [Entry(kind, MaxRequests + remote + 1) EXCEPT !.attrs = IF f3_is_new_id(n) /\ kind # "link" THEN {"id"} ELSE {}] \in Entries
    BY <2>3, <2>4, EntryChange, Zenon
  <2>6. tree' \in [Trees -> [FileNames -> Entries]]
    BY <1>1, <1>a, <2>1, <2>5, Zenon
  <2>7. Request' /\ remote' \in Nat
    BY <1>1, <2>1 DEF Request
  <2> QED BY <1>1, <2>1, <2>6, <2>7
<1>10. CASE RemoteRemove
  <2>1. PICK n \in FileNames : /\ tree' = [tree EXCEPT !["src"][n] = NoEntry] /\ ino' = [ino EXCEPT ![n] = NoInode]
                               /\ remote' = remote + 1 /\ UNCHANGED <<nreq, replies, fails, conv, nasks>>
    BY <1>10, Zenon DEF RemoteRemove
  <2>2. tree' \in [Trees -> [FileNames -> Entries]] /\ ino' \in [FileNames -> Inodes]
    BY <1>1, <1>a, <2>1, Zenon
  <2>3. Request' /\ remote' \in Nat
    BY <1>1, <2>1 DEF Request
  <2> QED BY <1>1, <2>1, <2>2, <2>3
<1>11. CASE Restart
  <2>1. /\ ino' = [n \in FileNames |-> NoInode] /\ remote' = remote + 1
        /\ conv' = (IF conv = "done" THEN "undone" ELSE conv) /\ UNCHANGED <<tree, nreq, replies, fails, gone, nasks>>
    BY <1>11 DEF Restart
  <2>2. ino' \in [FileNames -> Inodes] /\ Request' /\ remote' \in Nat /\ conv' \in {"none", "done", "undone"}
    BY <1>1, <1>a, <2>1 DEF Request
  <2> QED BY <1>1, <2>1, <2>2
<1> QED BY <1>2, <1>3, <1>4, <1>5, <1>6, <1>7, <1>8, <1>9, <1>10, <1>11 DEF NamesNext

-----------------------------------------------------------------------------
(***************************************************************************)
(* The steps between requests.                                             *)
(***************************************************************************)
\* The numbers of files, when none are made but those with the next number.
LEMMA NumbersKept ==
    ASSUME NEW S \in [FileNames -> Entries], NEW T \in [FileNames -> Entries], NEW S2, NEW T2,
           NEW a \in Int, NEW b \in Int, NEW c \in Int, NEW a2 \in Int, NEW b2 \in Int, NEW c2 \in Int,
           Numbers(S, T, a, b, c), a <= a2, b <= b2, c <= c2,
           \A x \in FileNames : S2[x].kind # "none" =>
               \/ \E y \in FileNames : S[y].kind # "none" /\ S2[x].file = S[y].file
               \/ S2[x].file = a2
               \/ S2[x].file = MaxRequests + c2 /\ c2 > 0,
           \A x \in FileNames : T2[x].kind # "none" =>
               (\E y \in FileNames : T[y].kind # "none" /\ T2[x].file = T[y].file) \/ T2[x].file = b2
    PROVE  Numbers(S2, T2, a2, b2, c2)
<1>1. \A x \in FileNames : S[x].file \in Nat /\ T[x].file \in Nat
  BY DEF Entries
<1>2. ASSUME NEW x \in FileNames, S2[x].kind # "none"
      PROVE  S2[x].file <= a2 \/ (S2[x].file > MaxRequests /\ S2[x].file <= MaxRequests + c2)
  BY <1>1, <1>2 DEF Numbers
<1>3. ASSUME NEW x \in FileNames, T2[x].kind # "none" PROVE T2[x].file <= b2
  BY <1>1, <1>3 DEF Numbers
<1> QED BY <1>2, <1>3 DEF Numbers

\* Trees of the same shape.
LEMMA SameNumbers ==
    ASSUME NEW S \in [FileNames -> Entries], NEW T \in [FileNames -> Entries], NEW S2, NEW T2,
           NEW a \in Int, NEW b \in Int, NEW c \in Int, NEW a2 \in Int, NEW b2 \in Int, NEW c2 \in Int,
           Numbers(S, T, a, b, c), a <= a2, b <= b2, c <= c2,
           \A x \in FileNames : S2[x].kind = S[x].kind /\ S2[x].file = S[x].file,
           \A x \in FileNames : T2[x].kind = T[x].kind /\ T2[x].file = T[x].file
    PROVE  Numbers(S2, T2, a2, b2, c2)
<1>1. \A x \in FileNames : S2[x].kind # "none" => \E y \in FileNames : S[y].kind # "none" /\ S2[x].file = S[y].file
  OBVIOUS
<1>2. \A x \in FileNames : T2[x].kind # "none" => \E y \in FileNames : T[y].kind # "none" /\ T2[x].file = T[y].file
  OBVIOUS
<1> QED BY <1>1, <1>2, NumbersKept

\* The types of the parts.
LEMMA Parts ==
    ASSUME NamesTypeOK
    PROVE  /\ tree["src"] \in [FileNames -> Entries] /\ tree["id"] \in [FileNames -> Entries]
           /\ nasks \in Nat /\ remote \in Nat /\ nasks <= MaxRequests
           /\ \A n \in FileNames : ino[n] \in Inodes /\ (ino[n] = NoInode <=> ino[n].key = "none")
<1>1. NoInode.key = "none"
  BY DEF NoInode
<1>2. ino \in [FileNames -> Inodes]
  BY Zenon DEF NamesTypeOK
<1>3. \A i \in Inodes : i = NoInode <=> i.key = "none"
  BY <1>1 DEF Inodes
<1>4. tree["src"] \in [FileNames -> Entries] /\ tree["id"] \in [FileNames -> Entries]
  BY DEF NamesTypeOK, Trees
<1>5. nasks \in Nat /\ remote \in Nat /\ nasks <= MaxRequests
  BY Zenon DEF NamesTypeOK
<1> QED BY <1>2, <1>3, <1>4, <1>5, Zenon

\* Between requests.
LEMMA Idle ==
    /\ nreq = NoNameReq => Second = tree["id"] /\ SrcMade = nasks /\ IdMade = nasks /\ CallInv
    /\ nreq' = NoNameReq => Second' = tree'["id"] /\ SrcMade' = nasks' /\ IdMade' = nasks' /\ CallInv'
<1>1. nreq = NoNameReq => Second = tree["id"] /\ SrcMade = nasks /\ IdMade = nasks /\ CallInv
  BY Zenon DEF Second, Due, SrcMade, IdMade, CallInv
<1>2. nreq' = NoNameReq => Second' = tree'["id"] /\ SrcMade' = nasks' /\ IdMade' = nasks' /\ CallInv'
  BY Zenon DEF Second, Due, SrcMade, IdMade, CallInv
<1> QED BY <1>1, <1>2

\* No step between requests but a new request touches the answers.
LEMMA RepliesIdle ==
    ASSUME nreq = NoNameReq, RepliesInv, Undisturbed, UNCHANGED <<nreq, replies, nasks>>
    PROVE  RepliesInv'
  BY DEF RepliesInv, SecondTreeFollows, Undisturbed

LEMMA WriteKeeps ==
    ASSUME NamesTypeOK, Undisturbed, Followed, Write
    PROVE  Followed'
<1> DEFINE S == tree["src"]
           T == tree["id"]
<1>1. /\ nreq = NoNameReq /\ nreq' = NoNameReq /\ UNCHANGED <<ino, nreq, replies, fails, gone, conv, remote, nasks>>
  BY WriteEffect, Zenon
<1>2. Agree(S, T, ino, conv) /\ Numbers(S, T, nasks, nasks, remote) /\ RepliesInv
  BY <1>1, Idle, Zenon DEF Followed
<1>3. PICK n \in FileNames :
                 /\ ino[n] # NoInode
                 /\ \A x \in FileNames :
                       /\ tree'["src"][x].kind = tree["src"][x].kind /\ tree'["src"][x].file = tree["src"][x].file
                       /\ tree'["id"][x].kind = tree["id"][x].kind /\ tree'["id"][x].file = tree["id"][x].file
                       /\ tree'["src"][x].data = (tree["src"][x].data \/ (~ino[n].is_id /\ x \in Same("src", n)))
                       /\ tree'["id"][x].data = (tree["id"][x].data \/ (ino[n].is_id /\ x \in Same("id", n)))
  BY WriteEffect, Zenon
<1>4. /\ \A x \in FileNames : x \in Same("src", n) <=> S[x].kind # "none" /\ S[x].file = S[n].file
      /\ \A x \in FileNames : x \in Same("id", n) <=> T[x].kind # "none" /\ T[x].file = T[n].file
  BY ExistsKind DEF Same, Trees
<1>5. Agree(tree'["src"], tree'["id"], ino, conv)
  <2>1. ino[n].key # "none"
    BY <1>3, Parts
  <2>2. \A x \in FileNames : /\ tree'["src"][x].kind = S[x].kind /\ tree'["src"][x].file = S[x].file
                             /\ tree'["id"][x].kind = T[x].kind /\ tree'["id"][x].file = T[x].file
    BY <1>3, Zenon
  <2>3. \A x \in FileNames : tree'["src"][x].data = (S[x].data \/ (~ino[n].is_id /\ S[x].kind # "none" /\ S[x].file = S[n].file))
    BY <1>3, <1>4
  <2>4. \A x \in FileNames : tree'["id"][x].data = (T[x].data \/ (ino[n].is_id /\ T[x].kind # "none" /\ T[x].file = T[n].file))
    BY <1>3, <1>4
  <2>5. S \in [FileNames -> Entries] /\ T \in [FileNames -> Entries]
    BY Parts
  <2> HIDE DEF S, T
  <2> QED BY <1>2, <2>1, <2>2, <2>3, <2>4, <2>5, WrittenThrough, ZenonT(40)
<1>6. Numbers(tree'["src"], tree'["id"], nasks, nasks, remote)
  BY <1>2, <1>3, Parts, SameNumbers
<1>7. RepliesInv'
  BY <1>1, <1>2, RepliesIdle
<1> QED BY <1>1, <1>5, <1>6, <1>7, Idle, Zenon DEF Followed

LEMMA ForgetKeeps ==
    ASSUME NamesTypeOK, Undisturbed, Followed, forget_one
    PROVE  Followed'
<1> DEFINE S == tree["src"]
           T == tree["id"]
<1>1. PICK n \in FileNames :
         /\ nreq = NoNameReq /\ ino[n].key = "src"
         /\ ino' = [x \in FileNames |-> IF x \in Same("src", n) THEN NoInode ELSE ino[x]]
         /\ UNCHANGED <<tree, nreq, replies, fails, gone, conv, remote, nasks>>
  BY Zenon DEF forget_one
<1>2. Agree(S, T, ino, conv) /\ Numbers(S, T, nasks, nasks, remote) /\ RepliesInv
  BY <1>1, Idle, Zenon DEF Followed
<1>3. \A x \in FileNames : x \in Same("src", n) <=> S[x].kind # "none" /\ S[x].file = S[n].file
  BY ExistsKind DEF Same, Trees
<1>4. \A x \in FileNames : ino'[x] = IF S[x].kind # "none" /\ S[x].file = S[n].file THEN NoInode ELSE ino[x]
  BY <1>1, <1>3
<1>5. Agree(S, T, ino', conv)
  <2> HIDE DEF S, T
  <2> QED BY <1>1, <1>2, <1>4, Forgotten, Zenon
<1>6. RepliesInv'
  BY <1>1, <1>2, RepliesIdle
<1>7. tree'["src"] = S /\ tree'["id"] = T /\ nreq' = NoNameReq /\ UNCHANGED <<conv, remote, nasks>>
  BY <1>1
<1> HIDE DEF S, T
<1> QED BY <1>2, <1>5, <1>6, <1>7, Idle, Zenon DEF Followed

LEMMA RestartKeeps ==
    ASSUME NamesTypeOK, Undisturbed, Followed, Restart
    PROVE  Followed'
<1> DEFINE S == tree["src"]
           T == tree["id"]
<1>1. /\ nreq = NoNameReq /\ ino' = [n \in FileNames |-> NoInode] /\ remote' = remote + 1
      /\ conv' = (IF conv = "done" THEN "undone" ELSE conv) /\ UNCHANGED <<tree, nreq, replies, fails, gone, nasks>>
  BY Zenon DEF Restart
<1>2. Agree(S, T, ino, conv) /\ Numbers(S, T, nasks, nasks, remote) /\ RepliesInv
  BY <1>1, Idle, Zenon DEF Followed
<1>3. conv \in {"none", "done", "undone"}
  BY Zenon DEF NamesTypeOK
<1>4. Agree(S, T, ino', IF conv = "done" THEN "undone" ELSE conv)
  <2>1. \A x \in FileNames : ino'[x] = NoInode
    BY <1>1, Zenon
  <2> HIDE DEF S, T
  <2> QED BY <1>2, <1>3, <2>1, Restarted, Zenon
<1>5. Numbers(S, T, nasks, nasks, remote + 1)
  BY <1>2, Parts, SameNumbers
<1>6. RepliesInv'
  BY <1>1, <1>2, RepliesIdle
<1>7. tree'["src"] = S /\ tree'["id"] = T /\ nreq' = NoNameReq /\ nasks' = nasks
  BY <1>1
<1>8. Agree(tree'["src"], tree'["id"], ino', conv')
  BY <1>1, <1>4, <1>7, Zenon
<1> HIDE DEF S, T
<1> QED BY <1>1, <1>5, <1>6, <1>7, <1>8, Idle, Zenon DEF Followed

LEMMA RemoteMakeKeeps ==
    ASSUME NamesTypeOK, Undisturbed, Followed, RemoteMake
    PROVE  Followed'
<1> DEFINE S == tree["src"]
           T == tree["id"]
           f == MaxRequests + remote + 1
           e(n, kind) == [Entry(kind, f) EXCEPT !.attrs = IF f3_is_new_id(n) /\ kind # "link" THEN {"id"} ELSE {}]
<1>1. PICK n \in FileNames, kind \in Kinds :
         /\ nreq = NoNameReq /\ ~Exists("src", n) /\ tree' = [tree EXCEPT !["src"][n] = e(n, kind)]
         /\ remote' = remote + 1 /\ UNCHANGED <<ino, nreq, replies, fails, gone, conv, nasks>>
  BY Zenon DEF RemoteMake
<1>2. Agree(S, T, ino, conv) /\ Numbers(S, T, nasks, nasks, remote) /\ RepliesInv
  BY <1>1, Idle, Zenon DEF Followed
<1>3. /\ S \in [FileNames -> Entries] /\ T \in [FileNames -> Entries] /\ nasks \in Nat /\ remote \in Nat
      /\ nasks <= MaxRequests /\ f \in Nat
  BY Parts
<1>4. S[n].kind = "none"
  BY <1>1, ExistsKind DEF Trees
<1>5. e(n, kind).kind = kind /\ e(n, kind).file = f /\ e(n, kind).data = FALSE /\ kind # "none"
  BY DEF Entry, Kinds
<1> HIDE DEF e
<1>6. \A x \in FileNames : tree'["src"][x] = IF x = n THEN e(n, kind) ELSE S[x]
  BY <1>1, <1>3 DEF NamesTypeOK, Trees
<1>7. tree'["id"] = T
  BY <1>1 DEF NamesTypeOK, Trees
<1>8. \A x \in FileNames : S[x].kind # "none" => S[x].file # f
  BY <1>2, <1>3 DEF Numbers, Entries
<1>9. Agree(tree'["src"], T, ino, conv)
  <2>1. e(n, kind).kind # "none" /\ ~e(n, kind).data /\ \A x \in FileNames : S[x].kind # "none" => S[x].file # e(n, kind).file
    BY <1>5, <1>8
  <2>2. tree'["src"] = [S EXCEPT ![n] = e(n, kind)]
    BY <1>1, <1>3 DEF NamesTypeOK, Trees
  <2> HIDE DEF S, T, f
  <2>3. Agree([S EXCEPT ![n] = e(n, kind)], T, ino, conv)
    BY <1>2, <1>3, <1>4, <2>1, MadeInSource, ZenonT(40)
  <2> QED BY <2>2, <2>3
<1>10. Numbers(tree'["src"], T, nasks, nasks, remote + 1)
  <2>1. \A x \in FileNames : tree'["src"][x].kind # "none" =>
               \/ \E y \in FileNames : S[y].kind # "none" /\ tree'["src"][x].file = S[y].file
               \/ tree'["src"][x].file = MaxRequests + (remote + 1) /\ remote + 1 > 0
    BY <1>3, <1>5, <1>6
  <2>2. \A x \in FileNames : T[x].kind # "none" => \E y \in FileNames : T[y].kind # "none" /\ T[x].file = T[y].file
    OBVIOUS
  <2>3. remote + 1 \in Int /\ remote <= remote + 1 /\ nasks \in Int /\ remote \in Int /\ nasks <= nasks
    BY <1>3
  <2> HIDE DEF S, T, f
  <2> QED BY <1>2, <1>3, <2>1, <2>2, <2>3, NumbersKept, ZenonT(40)
<1>11. RepliesInv'
  BY <1>1, <1>2, RepliesIdle
<1>12. nreq' = NoNameReq /\ UNCHANGED <<ino, conv, nasks>> /\ remote' = remote + 1
  BY <1>1
<1> HIDE DEF S, T, f
<1> QED BY <1>7, <1>9, <1>10, <1>11, <1>12, Idle, Zenon DEF Followed

\* A new request: its first call is to be made.
LEMMA RequestKeeps ==
    ASSUME NamesTypeOK, Undisturbed, Followed, NameRequest
    PROVE  Followed'
<1> DEFINE S == tree["src"]
           T == tree["id"]
<1>1. PICK op \in DOMAIN NameHandlers, n \in FileNames, m \in FileNames :
         /\ Sensible(op, n, m) /\ nreq' = [op |-> op, n |-> n, m |-> m, k |-> 1]
  BY Zenon DEF NameRequest
<1>2. nreq = NoNameReq /\ replies' = <<>> /\ nasks' = nasks + 1 /\ UNCHANGED <<tree, ino, fails, gone, conv, remote>>
  BY Zenon DEF NameRequest
<1>3. Agree(S, T, ino, conv) /\ Numbers(S, T, nasks, nasks, remote) /\ RepliesInv
  BY <1>2, Idle, Zenon DEF Followed
<1>4. nreq'.op = op /\ nreq'.n = n /\ nreq'.m = m /\ nreq'.k = 1
  BY <1>1
<1>5. DOMAIN NameHandlers = {"mknod", "mkdir", "symlink", "link", "rmdir", "rename", "unlink", "create",
                             "setxattr", "removexattr", "lookup"}
  BY Zenon DEF NameHandlers
<1>6. nreq' # NoNameReq
  <2>1. op # "none" /\ NoNameReq.op = "none"
    BY <1>5 DEF NoNameReq
  <2> QED BY <1>4, <2>1
<1>7. ~Due'
  BY <1>4 DEF Due
<1>8. Second' = tree'["id"]
  BY <1>7, Zenon DEF Second
<1>9. SrcMade' = nasks /\ IdMade' = nasks
  <2>1. nasks \in Nat
    BY Parts
  <2> QED BY <1>2, <1>4, <1>6, <2>1 DEF SrcMade, IdMade
<1>10. Finds(1, n, m)'
  <2>1. /\ \A x \in FileNames : Exists("src", x) <=> S[x].kind # "none"
        /\ \A x \in FileNames : ino[x] = NoInode <=> ino[x].key = "none"
    BY ExistsKind, Parts DEF Trees
  <2>2. /\ op \in {"mknod", "mkdir", "symlink"} => S[n].kind = "none"
        /\ op = "create" => S[n].kind \in {"none", "file"}
        /\ op = "rmdir" => ino[n].key # "none" /\ S[n].kind = "dir"
        /\ op = "unlink" => ino[n].key # "none" /\ S[n].kind # "dir"
    BY <1>1, <2>1 DEF Sensible
  <2>3. /\ op = "rename" => /\ ino[n].key # "none" /\ n # m
                            /\ S[m].kind # "none" => S[n].kind = S[m].kind
                            /\ ~Crossing => (n \in IdNames <=> m \in IdNames)
        /\ op = "link" => /\ ino[n].key # "none" /\ n # m /\ S[m].kind = "none" /\ S[n].kind = "file"
                          /\ ~Crossing => (n \in IdNames <=> m \in IdNames)
        /\ op \in {"setxattr", "removexattr"} => ino[n].key # "none"
    BY <1>1, <2>1 DEF Sensible
  <2>4. tree'["src"] = S /\ ino' = ino
    BY <1>2
  <2> HIDE DEF S
  <2> QED BY <1>4, <2>2, <2>3, <2>4 DEF Finds
<1>11. CallInv'
  <2>1. nasks' > 0
    BY <1>2, Parts
  <2> QED BY <1>4, <1>7, <1>10, <2>1, Zenon DEF CallInv
<1>12. RepliesInv'
  BY <1>2, <1>6 DEF RepliesInv, SecondTreeFollows
<1>13. tree'["src"] = S /\ tree'["id"] = T /\ UNCHANGED <<ino, conv, remote>>
  BY <1>2
<1> HIDE DEF S, T
<1> QED BY <1>3, <1>8, <1>9, <1>11, <1>12, <1>13, Zenon DEF Followed

-----------------------------------------------------------------------------
(***************************************************************************)
(* The steps of a request.                                                 *)
(***************************************************************************)
\* The calls that make an entry.
LEMMA MadeTable ==
    ASSUME NamesTypeOK, nreq # NoNameReq, NStep.call \in Made
    PROVE  /\ ~Due /\ nreq.k # Len(NameHandlers[nreq.op])
           /\ \/ NStep.tree = "src" /\ nreq.k = 1
              \/ NStep.tree = "id" /\ nreq.k = 2 /\ nreq.op # "mknod"
           /\ \/ nreq.op = "mknod" /\ NStep.call = "mknod"
              \/ nreq.op = "mkdir" /\ NStep.call = "mkdir"
              \/ nreq.op = "symlink" /\ NStep.call = "symlink"
              \/ nreq.op = "create" /\ NStep.call = "creat"
<1> USE DEF Is, Due, Made
<1>1. CASE nreq.op = "mknod"
  BY <1>1, MknodSteps
<1>2. CASE nreq.op = "mkdir"
  BY <1>2, MkdirSteps
<1>3. CASE nreq.op = "symlink"
  BY <1>3, SymlinkSteps
<1>4. CASE nreq.op = "link"
  BY <1>4, LinkSteps
<1>5. CASE nreq.op = "rmdir"
  BY <1>5, RmdirSteps
<1>6. CASE nreq.op = "rename"
  BY <1>6, RenameSteps
<1>7. CASE nreq.op = "unlink"
  BY <1>7, UnlinkSteps
<1>8. CASE nreq.op = "create"
  BY <1>8, CreateSteps
<1>9. CASE nreq.op = "setxattr"
  BY <1>9, SetxattrSteps
<1>10. CASE nreq.op = "removexattr"
  BY <1>10, RemovexattrSteps
<1>11. CASE nreq.op = "lookup"
  BY <1>11, LookupSteps
<1> QED BY <1>1, <1>2, <1>3, <1>4, <1>5, <1>6, <1>7, <1>8, <1>9, <1>10, <1>11, RequestForm, Zenon

\* The calls on attributes.
LEMMA AttrTable ==
    ASSUME NamesTypeOK, nreq # NoNameReq, NStep.call \in AttrCalls
    PROVE  /\ ~Due
           /\ \/ nreq.op \in {"mkdir", "create"} /\ nreq.k \in {3, 4}
              \/ nreq.op \in {"setxattr", "removexattr"}
              \/ nreq.op = "link" /\ nreq.k = 3 /\ nreq.k = Len(NameHandlers[nreq.op])
<1> USE DEF Is, Due, AttrCalls
<1>1. CASE nreq.op = "mknod"
  BY <1>1, MknodSteps
<1>2. CASE nreq.op = "mkdir"
  BY <1>2, MkdirSteps
<1>3. CASE nreq.op = "symlink"
  BY <1>3, SymlinkSteps
<1>4. CASE nreq.op = "link"
  BY <1>4, LinkSteps, Zenon
<1>5. CASE nreq.op = "rmdir"
  BY <1>5, RmdirSteps
<1>6. CASE nreq.op = "rename"
  BY <1>6, RenameSteps
<1>7. CASE nreq.op = "unlink"
  BY <1>7, UnlinkSteps
<1>8. CASE nreq.op = "create"
  BY <1>8, CreateSteps
<1>9. CASE nreq.op = "setxattr"
  BY <1>9, SetxattrSteps
<1>10. CASE nreq.op = "removexattr"
  BY <1>10, RemovexattrSteps
<1>11. CASE nreq.op = "lookup"
  BY <1>11, LookupSteps
<1> QED BY <1>1, <1>2, <1>3, <1>4, <1>5, <1>6, <1>7, <1>8, <1>9, <1>10, <1>11, RequestForm, Zenon

\* The calls made for one tree and then for the other.
LEMMA PairTable ==
    ASSUME NamesTypeOK, nreq # NoNameReq,
           NStep.call \in {"rmdir", "unlink", "rename", "link"}
    PROVE  /\ NStep.call = nreq.op
           /\ \/ /\ NStep.tree = "src" /\ ~Due /\ nreq.k # Len(NameHandlers[nreq.op])
                 /\ nreq.op # "unlink" => nreq.k = 1
                 /\ nreq.op = "unlink" => nreq.k = 2
              \/ /\ NStep.tree = "id" /\ Due
                 /\ nreq.k = Len(NameHandlers[nreq.op]) \/ (nreq.op = "link" /\ nreq.k = 2)
<1> USE DEF Is, Due
<1>1. CASE nreq.op = "mknod"
  BY <1>1, MknodSteps
<1>2. CASE nreq.op = "mkdir"
  BY <1>2, MkdirSteps
<1>3. CASE nreq.op = "symlink"
  BY <1>3, SymlinkSteps
<1>4. CASE nreq.op = "link"
  BY <1>4, LinkSteps
<1>5. CASE nreq.op = "rmdir"
  BY <1>5, RmdirSteps, Zenon
<1>6. CASE nreq.op = "rename"
  BY <1>6, RenameSteps, Zenon
<1>7. CASE nreq.op = "unlink"
  BY <1>7, UnlinkSteps, Zenon
<1>8. CASE nreq.op = "create"
  BY <1>8, CreateSteps
<1>9. CASE nreq.op = "setxattr"
  BY <1>9, SetxattrSteps
<1>10. CASE nreq.op = "removexattr"
  BY <1>10, RemovexattrSteps
<1>11. CASE nreq.op = "lookup"
  BY <1>11, LookupSteps
<1> QED BY <1>1, <1>2, <1>3, <1>4, <1>5, <1>6, <1>7, <1>8, <1>9, <1>10, <1>11, RequestForm, Zenon

\* The look-ups.
LEMMA LookupTable ==
    ASSUME NamesTypeOK, nreq # NoNameReq, NStep.call = "lookup"
    PROVE  /\ ~Due /\ NStep.onerr = "return"
           /\ \/ nreq.op \in {"lookup", "unlink"} /\ nreq.k = 1
              \/ nreq.op = "mknod" /\ nreq.k = 2 /\ nreq.k = Len(NameHandlers[nreq.op])
              \/ /\ nreq.op \in {"mkdir", "symlink", "create"} /\ nreq.k \in {3, 5}
                 /\ nreq.k = Len(NameHandlers[nreq.op])
<1> USE DEF Is, Due
<1>1. CASE nreq.op = "mknod"
  BY <1>1, MknodSteps, Zenon
<1>2. CASE nreq.op = "mkdir"
  BY <1>2, MkdirSteps, Zenon
<1>3. CASE nreq.op = "symlink"
  BY <1>3, SymlinkSteps, Zenon
<1>4. CASE nreq.op = "link"
  BY <1>4, LinkSteps
<1>5. CASE nreq.op = "rmdir"
  BY <1>5, RmdirSteps
<1>6. CASE nreq.op = "rename"
  BY <1>6, RenameSteps
<1>7. CASE nreq.op = "unlink"
  BY <1>7, UnlinkSteps
<1>8. CASE nreq.op = "create"
  BY <1>8, CreateSteps, Zenon
<1>9. CASE nreq.op = "setxattr"
  BY <1>9, SetxattrSteps
<1>10. CASE nreq.op = "removexattr"
  BY <1>10, RemovexattrSteps
<1>11. CASE nreq.op = "lookup"
  BY <1>11, LookupSteps
<1> QED BY <1>1, <1>2, <1>3, <1>4, <1>5, <1>6, <1>7, <1>8, <1>9, <1>10, <1>11, RequestForm, Zenon

\* The conversion.
LEMMA ConvertTable ==
    ASSUME NamesTypeOK, nreq # NoNameReq, NStep.call = "convert"
    PROVE  ~Due /\ nreq.op = "removexattr" /\ nreq.k = 3 /\ nreq.k = Len(NameHandlers[nreq.op])
<1> USE DEF Is, Due
<1>1. CASE nreq.op = "mknod"
  BY <1>1, MknodSteps
<1>2. CASE nreq.op = "mkdir"
  BY <1>2, MkdirSteps
<1>3. CASE nreq.op = "symlink"
  BY <1>3, SymlinkSteps
<1>4. CASE nreq.op = "link"
  BY <1>4, LinkSteps
<1>5. CASE nreq.op = "rmdir"
  BY <1>5, RmdirSteps
<1>6. CASE nreq.op = "rename"
  BY <1>6, RenameSteps
<1>7. CASE nreq.op = "unlink"
  BY <1>7, UnlinkSteps
<1>8. CASE nreq.op = "create"
  BY <1>8, CreateSteps
<1>9. CASE nreq.op = "setxattr"
  BY <1>9, SetxattrSteps
<1>10. CASE nreq.op = "removexattr"
  BY <1>10, RemovexattrSteps, Zenon
<1>11. CASE nreq.op = "lookup"
  BY <1>11, LookupSteps
<1> QED BY <1>1, <1>2, <1>3, <1>4, <1>5, <1>6, <1>7, <1>8, <1>9, <1>10, <1>11, RequestForm, Zenon

\* The second calls.
LEMMA DueTable ==
    ASSUME NamesTypeOK, nreq # NoNameReq, Due
    PROVE  NStep.call \in {"rmdir", "unlink", "rename", "link"} /\ NStep.tree = "id" /\ NStep.call = nreq.op
<1> USE DEF Is, Due
<1>1. CASE nreq.op = "mknod"
  BY <1>1, MknodSteps
<1>2. CASE nreq.op = "mkdir"
  BY <1>2, MkdirSteps
<1>3. CASE nreq.op = "symlink"
  BY <1>3, SymlinkSteps
<1>4. CASE nreq.op = "link"
  BY <1>4, LinkSteps
<1>5. CASE nreq.op = "rmdir"
  BY <1>5, RmdirSteps
<1>6. CASE nreq.op = "rename"
  BY <1>6, RenameSteps
<1>7. CASE nreq.op = "unlink"
  BY <1>7, UnlinkSteps
<1>8. CASE nreq.op = "create"
  BY <1>8, CreateSteps
<1>9. CASE nreq.op = "setxattr"
  BY <1>9, SetxattrSteps
<1>10. CASE nreq.op = "removexattr"
  BY <1>10, RemovexattrSteps
<1>11. CASE nreq.op = "lookup"
  BY <1>11, LookupSteps
<1> QED BY <1>1, <1>2, <1>3, <1>4, <1>5, <1>6, <1>7, <1>8, <1>9, <1>10, <1>11, RequestForm, Zenon

\* A request goes on, with the answers rs.
LEMMA OnwardWith ==
    ASSUME NamesTypeOK, nreq # NoNameReq, NEW rs \in Seq(Answers), Goes(rs), nasks' = nasks
    PROVE  /\ nreq.k = Len(NameHandlers[nreq.op]) => nreq' = NoNameReq
           /\ nreq.k # Len(NameHandlers[nreq.op]) => nreq' # NoNameReq
           /\ nreq' # NoNameReq => /\ nreq'.op = nreq.op /\ nreq'.n = nreq.n /\ nreq'.m = nreq.m
                                   /\ nreq'.k = nreq.k + 1 /\ nreq.k \in Nat /\ nreq.k >= 1
           /\ SrcMade' = nasks /\ IdMade' \in Int /\ SrcMade \in Int /\ IdMade \in Int
           /\ SrcMade <= SrcMade' /\ IdMade <= IdMade' /\ IdMade' <= nasks
           /\ nreq.k # 1 \/ nreq.op \notin {"mknod", "mkdir", "symlink", "create"} => IdMade' = nasks
<1>1. nasks \in Nat
  BY Parts
<1>2. \/ nreq.k = Len(NameHandlers[nreq.op]) /\ nreq' = NoNameReq
      \/ /\ nreq.k < Len(NameHandlers[nreq.op]) /\ nreq' # NoNameReq
         /\ nreq'.op = nreq.op /\ nreq'.n = nreq.n /\ nreq'.m = nreq.m /\ nreq'.k = nreq.k + 1
  BY <1>1, GoesOn, Zenon
<1>3. nreq.k \in Nat /\ nreq.k >= 1 /\ Len(NameHandlers[nreq.op]) \in Nat
  BY RequestForm, LenOfHandlers
<1>4. CASE nreq.k = Len(NameHandlers[nreq.op]) /\ nreq' = NoNameReq
  <2>1. SrcMade' = nasks /\ IdMade' = nasks
    BY <1>4, Idle, Zenon
  <2> QED BY <1>1, <1>3, <1>4, <2>1 DEF SrcMade, IdMade
<1>5. CASE /\ nreq.k < Len(NameHandlers[nreq.op]) /\ nreq' # NoNameReq
           /\ nreq'.op = nreq.op /\ nreq'.n = nreq.n /\ nreq'.m = nreq.m /\ nreq'.k = nreq.k + 1
  BY <1>1, <1>3, <1>5 DEF SrcMade, IdMade
<1> QED BY <1>2, <1>4, <1>5

\* A request goes on with the answers it has.
LEMMA Onward ==
    ASSUME NamesTypeOK, nreq # NoNameReq, Goes(replies), nasks' = nasks
    PROVE  /\ nreq.k = Len(NameHandlers[nreq.op]) => nreq' = NoNameReq
           /\ nreq.k # Len(NameHandlers[nreq.op]) => nreq' # NoNameReq
           /\ nreq' # NoNameReq => /\ nreq'.op = nreq.op /\ nreq'.n = nreq.n /\ nreq'.m = nreq.m
                                   /\ nreq'.k = nreq.k + 1 /\ nreq.k \in Nat /\ nreq.k >= 1
           /\ SrcMade' = nasks /\ IdMade' \in Int /\ SrcMade \in Int /\ IdMade \in Int
           /\ SrcMade <= SrcMade' /\ IdMade <= IdMade' /\ IdMade' <= nasks
           /\ nreq.k # 1 \/ nreq.op \notin {"mknod", "mkdir", "symlink", "create"} => IdMade' = nasks
<1>1. replies \in Seq(Answers)
  BY RepliedTyped
<1> QED BY <1>1, OnwardWith, Zenon

\* The answers.
LEMMA RepliesGo ==
    ASSUME NamesTypeOK, Undisturbed, RepliesInv, nreq # NoNameReq, NEW rs \in Seq(Answers), NEW ans \in {"ok", "err"},
           nreq.op # "removexattr" => rs = <<>>, \A i \in 1..Len(rs) : rs[i].op = nreq.op,
           (nreq' = NoNameReq /\ replies' = Replied(rs, ans)) \/ (nreq' # NoNameReq /\ nreq'.op = nreq.op /\ replies' = rs)
    PROVE  RepliesInv'
<1>1. CASE nreq' # NoNameReq
  BY <1>1 DEF RepliesInv, SecondTreeFollows
<1>2. CASE nreq' = NoNameReq
  <2> DEFINE r == [op |-> nreq.op, ans |-> ans]
  <2>1. r \in Answers /\ r.op = nreq.op
    BY RequestForm DEF Answers
  <2>2. replies' = Append(rs, r)
    BY <1>2 DEF Replied
  <2> HIDE DEF r
  <2>3. Len(replies') = Len(rs) + 1 /\ Len(rs) \in Nat /\ \A i \in 1..Len(replies') : replies'[i].op = nreq.op
    BY <2>1, <2>2, Appended
  <2>4. Len(replies') >= 1 /\ replies'[1].op = nreq.op
    BY <2>3
  <2>5. nreq.op # "removexattr" => Len(rs) = 0
    OBVIOUS
  <2> QED BY <1>2, <2>3, <2>4, <2>5 DEF RepliesInv, SecondTreeFollows
<1> QED BY <1>1, <1>2

\* The answers when a call succeeds.
LEMMA RepliesOk ==
    ASSUME NamesTypeOK, Undisturbed, RepliesInv, nreq # NoNameReq, Goes(replies)
    PROVE  RepliesInv'
<1>1. replies \in Seq(Answers)
  BY RepliedTyped
<1>2. \/ nreq' = NoNameReq /\ replies' = Replied(replies, "ok")
      \/ nreq' # NoNameReq /\ nreq'.op = nreq.op /\ replies' = replies
  BY <1>1, GoesOn, Zenon
<1>3. (nreq.op # "removexattr" => replies = <<>>) /\ \A i \in 1..Len(replies) : replies[i].op = nreq.op
  BY Zenon DEF RepliesInv
<1> QED BY <1>1, <1>2, <1>3, RepliesGo, Zenon

\* Names are made in the source.
LEMMA MakeInSourceKeeps ==
    ASSUME NamesTypeOK, NamesTypeOK', Undisturbed, Followed, SysCall, NStep.call \in Made, NStep.tree = "src"
    PROVE  Followed'
<1> DEFINE S == tree["src"]
           T == tree["id"]
           e == Entry(KindMade[NStep.call], nasks)
<1>a. nreq # NoNameReq
  BY SysCallEffect, Zenon
<1>b. PICK n \in FileNames : n = nreq.n
  BY <1>a, RequestForm, Zenon
<1>c. PICK m \in FileNames : m = nreq.m
  BY <1>a, RequestForm, Zenon
<1>1. /\ nreq # NoNameReq /\ Goes(replies) /\ UNCHANGED <<conv, remote, nasks>>
      /\ tree'["src"] = After("src", NStep.call, n, m) /\ tree'["id"] = T /\ ino' = InodesAfter(NStep.call, n, m)
  BY <1>b, <1>c, SysCallEffect, Zenon
<1>2. ~Due /\ nreq.k # Len(NameHandlers[nreq.op]) /\ nreq.k = 1
  BY <1>1, MadeTable
<1>3. \/ nreq.op = "mknod" /\ NStep.call = "mknod"
      \/ nreq.op = "mkdir" /\ NStep.call = "mkdir"
      \/ nreq.op = "symlink" /\ NStep.call = "symlink"
      \/ nreq.op = "create" /\ NStep.call = "creat"
  BY <1>1, MadeTable, Zenon
<1>4. /\ nreq' # NoNameReq /\ nreq'.op = nreq.op /\ nreq'.n = n /\ nreq'.m = m /\ nreq'.k = 2
      /\ SrcMade' = nasks /\ IdMade' \in Int /\ SrcMade \in Int /\ IdMade \in Int
      /\ SrcMade <= SrcMade' /\ IdMade <= IdMade' /\ IdMade' <= nasks /\ SrcMade = nasks - 1
  <2>1. SrcMade = nasks - 1
    BY <1>1, <1>2, Zenon DEF SrcMade
  <2> QED BY <1>1, <1>2, <1>b, <1>c, <2>1, Onward
<1>5. Second = T /\ Second' = T
  <2>1. ~Due'
    BY <1>3, <1>4 DEF Due
  <2> QED BY <1>1, <1>2, <2>1, Zenon DEF Second
<1>6. /\ Agree(S, T, ino, conv) /\ Numbers(S, T, SrcMade, IdMade, remote) /\ CallInv /\ RepliesInv
  BY <1>5, Zenon DEF Followed
<1>7. /\ S \in [FileNames -> Entries] /\ T \in [FileNames -> Entries] /\ nasks \in Nat /\ remote \in Nat
      /\ nasks <= MaxRequests /\ ino' = ino
  BY <1>1, Parts, InodesKept, Zenon
<1>8. Finds(1, n, m) /\ nasks > 0
  BY <1>1, <1>b, <1>c, <1>2, <1>6, ZenonT(40) DEF CallInv
<1>9. e.kind = KindMade[NStep.call] /\ e.file = nasks /\ e.data = FALSE
  BY DEF Entry
<1>10. /\ KindMade["mknod"] = "file" /\ KindMade["mkdir"] = "dir" /\ KindMade["symlink"] = "link" /\ KindMade["creat"] = "file"
  BY DEF KindMade
<1>11. Exists("src", n) <=> S[n].kind # "none"
  BY <1>7, ExistsKind DEF Trees
<1>12. /\ nreq.op \in {"mknod", "mkdir", "symlink"} => S[n].kind = "none"
       /\ nreq.op = "create" => S[n].kind \in {"none", "file"}
  BY <1>8 DEF Finds
<1>13. tree'["src"] = IF Exists("src", n) THEN S ELSE [S EXCEPT ![n] = e]
  BY <1>1, AfterMakes
<1> HIDE DEF e, S, T
<1>14. Agree(tree'["src"], T, ino, conv) /\ tree'["src"][n].kind = KindMade[NStep.call]
       /\ Numbers(tree'["src"], T, SrcMade', IdMade', remote)
  <2>1. CASE S[n].kind = "none"
    <3>1. \A x \in FileNames : tree'["src"][x] = IF x = n THEN e ELSE S[x]
      BY <1>7, <1>11, <1>13, <2>1
    <3>2. \A x \in FileNames : S[x].kind # "none" => S[x].file # nasks
      BY <1>4, <1>6, <1>7 DEF Numbers, Entries
    <3>3. e.kind # "none"
      BY <1>3, <1>9, <1>10
    <3>4. Agree(tree'["src"], T, ino, conv)
      <4>1. ~e.data /\ \A x \in FileNames : S[x].kind # "none" => S[x].file # e.file
        BY <1>9, <3>2
      <4>2. Agree(S, T, ino, conv) /\ T \in [FileNames -> Entries] /\ S[n].kind = "none"
        BY <1>6, <1>7, <2>1, Zenon
      <4>3. Agree([S EXCEPT ![n] = e], T, ino, conv)
        BY <1>7, <3>3, <4>1, <4>2, MadeInSource, Zenon
      <4> QED BY <1>11, <1>13, <2>1, <4>3, Zenon
    <3>5. \A x \in FileNames : tree'["src"][x].kind # "none" =>
               \/ \E y \in FileNames : S[y].kind # "none" /\ tree'["src"][x].file = S[y].file
               \/ tree'["src"][x].file = SrcMade'
      BY <1>4, <1>9, <3>1, SMTT(30)
    <3>6. Numbers(tree'["src"], T, SrcMade', IdMade', remote)
      <4>1. \A x \in FileNames : T[x].kind # "none" => \E y \in FileNames : T[y].kind # "none" /\ T[x].file = T[y].file
        OBVIOUS
      <4>2. remote \in Int /\ remote <= remote /\ SrcMade' \in Int
        BY <1>4, <1>7
      <4> QED BY <1>4, <1>6, <1>7, <3>5, <4>1, <4>2, NumbersKept
    <3> QED BY <1>7, <1>9, <3>1, <3>4, <3>6
  <2>2. CASE S[n].kind # "none"
    <3>1. tree'["src"] = S
      BY <1>11, <1>13, <2>2, SMTT(30)
    <3>2. remote \in Int /\ remote <= remote /\ SrcMade' \in Int
      BY <1>4, <1>7
    <3>3. Numbers(S, T, SrcMade', IdMade', remote)
      BY <1>4, <1>6, <1>7, <3>2, SameNumbers
    <3>4. S[n].kind = KindMade[NStep.call]
      BY <1>3, <1>10, <1>12, <2>2
    <3> QED BY <1>6, <3>1, <3>3, <3>4, Zenon
  <2> QED BY <2>1, <2>2
<1>15. nreq.op \in {"mkdir", "symlink"} => T[n].kind = "none"
  BY <1>6, <1>7, <1>12, SMTT(30) DEF Agree, Mirror
<1>16. Finds(2, n, m)'
  BY <1>1, <1>3, <1>4, <1>10, <1>14, <1>15 DEF Finds
<1>17. CallInv'
  <2>1. ~Due'
    BY <1>3, <1>4 DEF Due
  <2>2. nreq'.n = n /\ nreq'.m = m /\ nasks' > 0
    BY <1>1, <1>4, <1>8
  <2>3. Finds(nreq.k, nreq.n, nreq.m)'
    BY <1>4, <1>16, <2>2, Zenon
  <2> QED BY <2>1, <2>2, <2>3, ZenonT(40) DEF CallInv
<1>18. RepliesInv'
  BY <1>1, <1>6, RepliesOk
<1> QED BY <1>1, <1>5, <1>7, <1>14, <1>17, <1>18, Zenon DEF Followed

\* Names are made under idroot.
LEMMA MakeInSecondKeeps ==
    ASSUME NamesTypeOK, NamesTypeOK', Undisturbed, Followed, SysCall, NStep.call \in Made, NStep.tree = "id"
    PROVE  Followed'
<1> DEFINE S == tree["src"]
           T == tree["id"]
           e == Entry(KindMade[NStep.call], nasks)
<1>a. nreq # NoNameReq
  BY SysCallEffect, Zenon
<1>b. PICK n \in FileNames : n = nreq.n
  BY <1>a, RequestForm, Zenon
<1>c. PICK m \in FileNames : m = nreq.m
  BY <1>a, RequestForm, Zenon
<1>1. /\ nreq # NoNameReq /\ Goes(replies) /\ UNCHANGED <<conv, remote, nasks>>
      /\ tree'["id"] = After("id", NStep.call, n, m) /\ tree'["src"] = S /\ ino' = ino
  BY <1>b, <1>c, SysCallEffect, Zenon
<1>2. ~Due /\ nreq.k # Len(NameHandlers[nreq.op]) /\ nreq.k = 2 /\ nreq.op # "mknod"
  BY <1>1, MadeTable
<1>3. \/ nreq.op = "mkdir" /\ NStep.call = "mkdir"
      \/ nreq.op = "symlink" /\ NStep.call = "symlink"
      \/ nreq.op = "create" /\ NStep.call = "creat"
  BY <1>1, <1>2, MadeTable, Zenon
<1>4. /\ nreq' # NoNameReq /\ nreq'.op = nreq.op /\ nreq'.n = n /\ nreq'.m = m /\ nreq'.k = 3
      /\ SrcMade' = nasks /\ IdMade' = nasks /\ SrcMade \in Int /\ IdMade \in Int
      /\ SrcMade <= SrcMade' /\ IdMade <= IdMade' /\ IdMade = nasks - 1
  <2>1. IdMade = nasks - 1
    BY <1>1, <1>2, <1>3 DEF IdMade
  <2> QED BY <1>1, <1>2, <1>b, <1>c, <2>1, Onward
<1>5. Second = T /\ Second' = tree'["id"] /\ ~Due'
  <2>1. ~Due'
    BY <1>3, <1>4 DEF Due
  <2> QED BY <1>1, <1>2, <2>1, Zenon DEF Second
<1>6. /\ Agree(S, T, ino, conv) /\ Numbers(S, T, SrcMade, IdMade, remote) /\ CallInv /\ RepliesInv
  BY <1>5, Zenon DEF Followed
<1>7. /\ S \in [FileNames -> Entries] /\ T \in [FileNames -> Entries] /\ nasks \in Nat /\ remote \in Nat
      /\ nasks <= MaxRequests
  BY <1>1, Parts, Zenon
<1>8. Finds(2, n, m) /\ nasks > 0
  BY <1>1, <1>b, <1>c, <1>2, <1>6, ZenonT(40) DEF CallInv
<1>9. e.kind = KindMade[NStep.call] /\ e.file = nasks /\ ~e.data
  BY DEF Entry
<1>10. /\ KindMade["mkdir"] = "dir" /\ KindMade["symlink"] = "link" /\ KindMade["creat"] = "file"
  BY DEF KindMade
<1>11. Exists("id", n) <=> T[n].kind # "none"
  BY <1>7, ExistsKind DEF Trees
<1>12. S[n].kind = KindMade[NStep.call] /\ S[n].kind \in {"dir", "link", "file"}
  BY <1>3, <1>8, <1>10, SMTT(30) DEF Finds
<1>13. tree'["id"] = IF Exists("id", n) THEN T ELSE [T EXCEPT ![n] = e]
  BY <1>1, AfterMakes
<1> HIDE DEF e, S, T
<1>14. Agree(S, tree'["id"], ino, conv) /\ tree'["id"][n].kind # "none"
       /\ Numbers(S, tree'["id"], SrcMade', IdMade', remote)
  <2>a. remote \in Int /\ remote <= remote /\ SrcMade' \in Int /\ IdMade' \in Int
    BY <1>4, <1>7
  <2>1. CASE T[n].kind = "none"
    <3>1. \A x \in FileNames : tree'["id"][x] = IF x = n THEN e ELSE T[x]
      BY <1>7, <1>11, <1>13, <2>1, SMTT(30)
    <3>2. \A x \in FileNames : T[x].kind # "none" => T[x].file # e.file
      BY <1>4, <1>6, <1>7, <1>9 DEF Numbers, Entries
    <3>3. e.kind # "none" /\ S[n].kind # "none" /\ (S[n].kind = "dir" <=> e.kind = "dir") /\ (S[n].kind = "file" => e.kind = "file")
      BY <1>9, <1>12
    <3>4. Agree(S, [T EXCEPT ![n] = e], ino, conv)
      BY <1>6, <1>7, <1>9, <2>1, <3>2, <3>3, MadeInSecond, Zenon
    <3>5. Agree(S, tree'["id"], ino, conv)
      BY <1>11, <1>13, <2>1, <3>4, Zenon
    <3>6. \A x \in FileNames : tree'["id"][x].kind # "none" =>
               (\E y \in FileNames : T[y].kind # "none" /\ tree'["id"][x].file = T[y].file) \/ tree'["id"][x].file = IdMade'
      BY <1>4, <1>9, <3>1, SMTT(30)
    <3>7. Numbers(S, tree'["id"], SrcMade', IdMade', remote)
      <4>1. \A x \in FileNames : S[x].kind # "none" => \E y \in FileNames : S[y].kind # "none" /\ S[x].file = S[y].file
        OBVIOUS
      <4> QED BY <1>4, <1>6, <1>7, <2>a, <3>6, <4>1, NumbersKept
    <3> QED BY <3>1, <3>3, <3>5, <3>7
  <2>2. CASE T[n].kind # "none"
    <3>1. tree'["id"] = T
      BY <1>11, <1>13, <2>2, SMTT(30)
    <3>2. Numbers(S, T, SrcMade', IdMade', remote)
      BY <1>4, <1>6, <1>7, <2>a, SameNumbers, SMTT(30)
    <3> QED BY <1>6, <2>2, <3>1, <3>2, Zenon
  <2> QED BY <2>1, <2>2
<1>15. Finds(3, n, m)'
  BY <1>1, <1>3, <1>4, <1>12, <1>14 DEF Finds
<1>16. CallInv'
  <2>1. nreq'.n = n /\ nreq'.m = m /\ nasks' > 0
    BY <1>1, <1>4, <1>8
  <2>2. Finds(nreq.k, nreq.n, nreq.m)'
    BY <1>4, <1>15, <2>1, Zenon
  <2> QED BY <1>5, <2>1, <2>2, Zenon DEF CallInv
<1>17. RepliesInv'
  BY <1>1, <1>6, RepliesOk
<1> QED BY <1>1, <1>5, <1>14, <1>16, <1>17, Zenon DEF Followed

\* Attributes are set or removed.
LEMMA AttrKeeps ==
    ASSUME NamesTypeOK, NamesTypeOK', Undisturbed, Followed, SysCall, NStep.call \in AttrCalls
    PROVE  Followed'
<1> DEFINE S == tree["src"]
           T == tree["id"]
<1>a. nreq # NoNameReq
  BY SysCallEffect, Zenon
<1>b. PICK n \in FileNames : n = nreq.n
  BY <1>a, RequestForm, Zenon
<1>c. PICK m \in FileNames : m = nreq.m
  BY <1>a, RequestForm, Zenon
<1>1. /\ Goes(replies) /\ UNCHANGED <<conv, remote, nasks>> /\ NStep.tree \in Trees
      /\ NStep.tree = "src" => tree'["src"] = After("src", NStep.call, n, m) /\ tree'["id"] = T /\ ino' = InodesAfter(NStep.call, n, m)
      /\ NStep.tree = "id" => tree'["id"] = After("id", NStep.call, n, m) /\ tree'["src"] = S /\ ino' = ino
  BY <1>b, <1>c, SysCallEffect, Zenon
<1>2. /\ ~Due
      /\ \/ nreq.op \in {"mkdir", "create"} /\ nreq.k \in {3, 4}
         \/ nreq.op \in {"setxattr", "removexattr"}
         \/ nreq.op = "link" /\ nreq.k = 3 /\ nreq.k = Len(NameHandlers[nreq.op])
  BY <1>a, AttrTable, Zenon
<1>3. /\ nreq.k = Len(NameHandlers[nreq.op]) => nreq' = NoNameReq
      /\ nreq' # NoNameReq => /\ nreq'.op = nreq.op /\ nreq'.n = n /\ nreq'.m = m
                              /\ nreq'.k = nreq.k + 1 /\ nreq.k \in Nat
      /\ SrcMade' \in Int /\ IdMade' \in Int /\ SrcMade \in Int /\ IdMade \in Int
      /\ SrcMade <= SrcMade' /\ IdMade <= IdMade'
  BY <1>1, <1>a, <1>b, <1>c, Parts, Onward
<1>4. ~Due'
  BY <1>2, <1>3 DEF Due
<1>5. Second = T /\ Second' = tree'["id"]
  BY <1>2, <1>4, Zenon DEF Second
<1>6. /\ Agree(S, T, ino, conv) /\ Numbers(S, T, SrcMade, IdMade, remote) /\ CallInv /\ RepliesInv
  BY <1>5, Zenon DEF Followed
<1>7. /\ S \in [FileNames -> Entries] /\ T \in [FileNames -> Entries] /\ nasks \in Nat /\ remote \in Nat /\ ino' = ino
  BY <1>1, Parts, InodesKept, SMTT(30) DEF Trees
<1>8. ASSUME NEW x \in FileNames
      PROVE  /\ tree'["src"][x].kind = S[x].kind /\ tree'["src"][x].file = S[x].file /\ tree'["src"][x].data = S[x].data
             /\ tree'["id"][x].kind = T[x].kind /\ tree'["id"][x].file = T[x].file /\ tree'["id"][x].data = T[x].data
  <2>1. CASE NStep.tree = "src"
    <3>1. LET y == After("src", NStep.call, n, m)[x] IN y.kind = S[x].kind /\ y.file = S[x].file /\ y.data = S[x].data
      BY AttrsOnly DEF Trees
    <3> QED BY <1>1, <2>1, <3>1, ZenonT(40)
  <2>2. CASE NStep.tree = "id"
    <3>1. LET y == After("id", NStep.call, n, m)[x] IN y.kind = T[x].kind /\ y.file = T[x].file /\ y.data = T[x].data
      BY AttrsOnly DEF Trees
    <3> QED BY <1>1, <2>2, <3>1, Zenon
  <2> QED BY <1>1, <2>1, <2>2 DEF Trees
<1> HIDE DEF S, T
<1>9. Agree(tree'["src"], tree'["id"], ino, conv)
  <2>1. \A x \in FileNames : tree'["src"][x].kind = S[x].kind /\ tree'["src"][x].file = S[x].file /\ tree'["src"][x].data = S[x].data
    BY <1>8, Zenon
  <2>2. \A x \in FileNames : tree'["id"][x].kind = T[x].kind /\ tree'["id"][x].file = T[x].file /\ tree'["id"][x].data = T[x].data
    BY <1>8, Zenon
  <2>3. Agree(S, T, ino, conv)
    BY <1>6, ZenonT(40)
  <2> QED BY <2>1, <2>2, <2>3, SameShape
<1>10. Numbers(tree'["src"], tree'["id"], SrcMade', IdMade', remote)
  BY <1>3, <1>6, <1>7, <1>8, SameNumbers, SMTT(30)
<1>11. nreq' # NoNameReq => Finds(nreq.k, nreq.n, nreq.m)'
  <2> SUFFICES ASSUME nreq' # NoNameReq PROVE Finds(nreq.k, nreq.n, nreq.m)'
    OBVIOUS
  <2>1. Finds(nreq.k, n, m)
    BY <1>6, <1>a, <1>b, <1>c, Zenon DEF CallInv
  <2> QED BY <2>1, <1>2, <1>3, <1>7, <1>8 DEF Finds, S, T
<1>12. CallInv'
  <2>1. nasks' > 0
    BY <1>1, <1>6, <1>a DEF CallInv
  <2> QED BY <1>4, <1>11, <2>1, Zenon DEF CallInv
<1>13. RepliesInv'
  BY <1>1, <1>6, <1>a, RepliesOk
<1> QED BY <1>1, <1>5, <1>7, <1>9, <1>10, <1>12, <1>13, Zenon DEF Followed

\* The second call of a pair: the tree becomes what it was to be.
LEMMA SecondKeeps ==
    ASSUME NamesTypeOK, NamesTypeOK', Undisturbed, Followed, SysCall, Due
    PROVE  Followed'
<1>a. nreq # NoNameReq
  BY SysCallEffect, Zenon
<1>1. NStep.call \in {"rmdir", "unlink", "rename", "link"} /\ NStep.tree = "id" /\ NStep.call = nreq.op
  BY <1>a, DueTable, Zenon
<1>2. /\ Goes(replies) /\ UNCHANGED <<conv, remote, nasks>>
      /\ tree'["id"] = After("id", NStep.call, nreq.n, nreq.m) /\ tree'["src"] = tree["src"] /\ ino' = ino
  BY <1>1, SysCallEffect, Zenon
<1>3. nreq.k = Len(NameHandlers[nreq.op]) \/ (nreq.op = "link" /\ nreq.k = 2)
  BY <1>a, <1>1, PairTable, Zenon
<1>4. /\ nreq.k = Len(NameHandlers[nreq.op]) => nreq' = NoNameReq
      /\ nreq' # NoNameReq => nreq'.op = nreq.op /\ nreq'.k = nreq.k + 1
      /\ SrcMade' \in Int /\ IdMade' \in Int /\ SrcMade \in Int /\ IdMade \in Int
      /\ SrcMade <= SrcMade' /\ IdMade <= IdMade'
  BY <1>2, <1>a, Parts, Onward
<1>5. nreq' # NoNameReq => nreq'.op = "link" /\ nreq'.k = 3
  BY <1>3, <1>4
<1>6. ~Due'
  BY <1>5 DEF Due
<1>7. Second = tree'["id"] /\ Second' = tree'["id"]
  BY <1>2, <1>6, Zenon DEF Second
<1>8. /\ Agree(tree["src"], tree'["id"], ino, conv) /\ Numbers(tree["src"], tree'["id"], SrcMade, IdMade, remote)
      /\ CallInv /\ RepliesInv
  BY <1>7, ZenonT(40) DEF Followed
<1>9. Numbers(tree["src"], tree'["id"], SrcMade', IdMade', remote)
  <2>1. tree["src"] \in [FileNames -> Entries] /\ remote \in Int /\ remote <= remote
    BY Parts
  <2>2. tree'["id"] \in [FileNames -> Entries]
    BY Zenon DEF NamesTypeOK, Trees
  <2> QED BY <1>4, <1>8, <2>1, <2>2, SameNumbers, Zenon
<1>10. CallInv'
  <2>1. nasks' > 0
    BY <1>2, <1>8, <1>a DEF CallInv
  <2>2. nreq' # NoNameReq => Finds(nreq.k, nreq.n, nreq.m)'
    BY <1>5, SMTT(30) DEF Finds
  <2> QED BY <1>6, <2>1, <2>2, Zenon DEF CallInv
<1>11. RepliesInv'
  BY <1>2, <1>8, <1>a, RepliesOk
<1> QED BY <1>2, <1>7, <1>8, <1>9, <1>10, <1>11, Zenon DEF Followed

\* The second calls.
LEMMA SecondCalls ==
    /\ NameHandlers["rename"][2].call = "rename" /\ NameHandlers["rmdir"][2].call = "rmdir"
    /\ NameHandlers["link"][2].call = "link" /\ NameHandlers["unlink"][3].call = "unlink"
<1>1. /\ NameHandlers["rename"][2] = Sys("id", "rename", "last") /\ NameHandlers["rmdir"][2] = Sys("id", "rmdir", "last")
  BY HandlerCalls
<1>2. /\ NameHandlers["link"][2] = Sys("id", "link", "return") /\ NameHandlers["unlink"][3] = Sys("id", "unlink", "goon")
  BY HandlerCalls
<1> QED BY <1>1, <1>2 DEF Sys

\* The first call of a pair, up to what it does to the trees.
LEMMA FirstOfPair ==
    ASSUME NamesTypeOK, Undisturbed, Followed, SysCall, NStep.tree = "src",
           NStep.call \in {"rmdir", "unlink", "rename", "link"}
    PROVE  /\ nreq # NoNameReq /\ nreq.n \in FileNames /\ nreq.m \in FileNames
           /\ Goes(replies) /\ UNCHANGED <<conv, remote, nasks>> /\ NStep.call = nreq.op
           /\ tree'["src"] = After("src", NStep.call, nreq.n, nreq.m) /\ tree'["id"] = tree["id"]
           /\ ino' = InodesAfter(NStep.call, nreq.n, nreq.m)
           /\ nreq' # NoNameReq /\ nreq'.op = nreq.op /\ nreq'.n = nreq.n /\ nreq'.m = nreq.m
           /\ Due' /\ NStep'.call = nreq.op
           /\ SrcMade' \in Int /\ IdMade' \in Int /\ SrcMade \in Int /\ IdMade \in Int
           /\ SrcMade <= SrcMade' /\ IdMade <= IdMade'
           /\ Agree(tree["src"], tree["id"], ino, conv) /\ Numbers(tree["src"], tree["id"], SrcMade, IdMade, remote)
           /\ Finds(IF nreq.op = "unlink" THEN 2 ELSE 1, nreq.n, nreq.m) /\ nasks > 0
           /\ RepliesInv'
           /\ Finds(nreq.k, nreq.n, nreq.m)'
<1>1. /\ nreq # NoNameReq /\ Goes(replies) /\ UNCHANGED <<conv, remote, nasks>>
      /\ tree'["src"] = After("src", NStep.call, nreq.n, nreq.m) /\ tree'["id"] = tree["id"]
      /\ ino' = InodesAfter(NStep.call, nreq.n, nreq.m)
  BY SysCallEffect, Zenon
<1>2. NStep.call = nreq.op
  BY <1>1, PairTable, Zenon
<1>3. /\ ~Due /\ nreq.k # Len(NameHandlers[nreq.op])
      /\ nreq.op # "unlink" => nreq.k = 1
      /\ nreq.op = "unlink" => nreq.k = 2
  <2>1. ~(NStep.tree = "id")
    OBVIOUS
  <2> QED BY <1>1, <2>1, PairTable, Zenon
<1>4. /\ nreq' # NoNameReq /\ nreq'.op = nreq.op /\ nreq'.n = nreq.n /\ nreq'.m = nreq.m /\ nreq'.k = nreq.k + 1
      /\ SrcMade' \in Int /\ IdMade' \in Int /\ SrcMade \in Int /\ IdMade \in Int
      /\ SrcMade <= SrcMade' /\ IdMade <= IdMade'
  BY <1>1, <1>3, Parts, Onward
<1>5. nreq'.k = IF nreq.op = "unlink" THEN 3 ELSE 2
  BY <1>3, <1>4
<1>6. Due'
  BY <1>2, <1>4, <1>5 DEF Due
<1>7. NStep'.call = nreq.op
  BY <1>2, <1>4, <1>5, SecondCalls DEF NStep
<1>8. Second = tree["id"]
  BY <1>3, Zenon DEF Second
<1>9. Agree(tree["src"], tree["id"], ino, conv) /\ Numbers(tree["src"], tree["id"], SrcMade, IdMade, remote)
      /\ CallInv /\ RepliesInv
  BY <1>8, Zenon DEF Followed
<1>10. Finds(IF nreq.op = "unlink" THEN 2 ELSE 1, nreq.n, nreq.m) /\ nasks > 0
  <2>1. nreq.k = IF nreq.op = "unlink" THEN 2 ELSE 1
    BY <1>3
  <2> QED BY <1>1, <1>9, <2>1, Zenon DEF CallInv
<1>11. RepliesInv'
  BY <1>1, <1>9, RepliesOk
<1>12. Finds(nreq.k, nreq.n, nreq.m)'
  BY <1>2, <1>4, <1>5 DEF Finds
<1> QED BY <1>1, <1>2, <1>4, <1>6, <1>7, <1>9, <1>10, <1>11, <1>12, RequestForm, Zenon

\* A name is removed from the source.
LEMMA RemoveKeeps ==
    ASSUME NamesTypeOK, NamesTypeOK', Undisturbed, Followed, SysCall, NStep.tree = "src", NStep.call \in {"rmdir", "unlink"}
    PROVE  Followed'
<1> DEFINE S == tree["src"]
           T == tree["id"]
<1>a. NStep.call \in {"rmdir", "unlink", "rename", "link"}
  OBVIOUS
<1>b. PICK n \in FileNames : n = nreq.n
  BY <1>a, FirstOfPair, Zenon
<1>c. PICK m \in FileNames : m = nreq.m
  BY <1>a, FirstOfPair, Zenon
<1>1. /\ nreq # NoNameReq /\ UNCHANGED <<conv, remote, nasks>> /\ NStep.call = nreq.op
      /\ tree'["src"] = After("src", NStep.call, n, m) /\ tree'["id"] = T /\ ino' = InodesAfter(NStep.call, n, m)
      /\ nreq' # NoNameReq /\ nreq'.op = nreq.op /\ nreq'.n = n /\ nreq'.m = m /\ Due' /\ NStep'.call = nreq.op
  BY <1>a, <1>b, <1>c, FirstOfPair, Zenon
<1>2. /\ SrcMade' \in Int /\ IdMade' \in Int /\ SrcMade \in Int /\ IdMade \in Int
      /\ SrcMade <= SrcMade' /\ IdMade <= IdMade' /\ nasks > 0
      /\ Agree(S, T, ino, conv) /\ Numbers(S, T, SrcMade, IdMade, remote)
      /\ RepliesInv' /\ Finds(nreq.k, nreq.n, nreq.m)'
  BY <1>a, FirstOfPair, Zenon
<1>3. Finds(IF nreq.op = "unlink" THEN 2 ELSE 1, n, m)
  BY <1>a, <1>b, <1>c, FirstOfPair, Zenon
<1>4. S \in [FileNames -> Entries] /\ T \in [FileNames -> Entries] /\ remote \in Int /\ remote <= remote
      /\ ino \in [FileNames -> Inodes]
  BY Parts DEF NamesTypeOK
<1>5. nreq.op \in {"rmdir", "unlink"}
  BY <1>1
<1>6. tree'["src"] = [S EXCEPT ![n] = NoEntry] /\ ino' = [ino EXCEPT ![n] = NoInode]
  BY <1>1, <1>5, AfterRemoves, InodesAfterIs
<1>7. Second' = [T EXCEPT ![n] = NoEntry]
  <2>1. Second' = After("id", NStep.call, nreq.n, nreq.m)'
    BY <1>1, Zenon DEF Second
  <2>2. Second' = [tree'["id"] EXCEPT ![n] = NoEntry]
    BY <1>1, <1>5, <2>1, SMTT(30) DEF After, KindMade
  <2> QED BY <1>1, <2>2, Zenon
<1>8. /\ nreq.op = "rmdir" => ino[n].key # "none" /\ S[n].kind = "dir"
      /\ nreq.op = "unlink" => ino[n].key # "none" /\ S[n].kind # "dir"
  BY <1>3 DEF Finds
<1>9. Agree(tree'["src"], Second', ino', conv)
  <2> HIDE DEF S, T
  <2>1. Agree([S EXCEPT ![n] = NoEntry], [T EXCEPT ![n] = NoEntry], [ino EXCEPT ![n] = NoInode], conv)
    BY <1>2, <1>4, <1>8, Removed, ZenonT(40)
  <2> QED BY <1>6, <1>7, <2>1, Zenon
<1>10. Numbers(tree'["src"], Second', SrcMade', IdMade', remote)
  <2>a. NoEntry.kind = "none"
    BY DEF NoEntry, Entry
  <2> HIDE DEF S, T
  <2>1. \A x \in FileNames : tree'["src"][x].kind # "none" =>
           \E y \in FileNames : S[y].kind # "none" /\ tree'["src"][x].file = S[y].file
    BY <1>4, <1>6, <2>a
  <2>2. \A x \in FileNames : Second'[x].kind # "none" =>
           \E y \in FileNames : T[y].kind # "none" /\ Second'[x].file = T[y].file
    BY <1>4, <1>7, <2>a
  <2>3. Numbers(S, T, SrcMade, IdMade, remote)
    BY <1>2, Zenon
  <2>4. SrcMade' \in Int /\ IdMade' \in Int /\ SrcMade \in Int /\ IdMade \in Int /\ SrcMade <= SrcMade' /\ IdMade <= IdMade'
    BY <1>2, Zenon
  <2> QED BY <1>4, <2>1, <2>2, <2>3, <2>4, NumbersKept
<1>11. Allowed("id", NStep.call, nreq.n, nreq.m)'
  <2>1. T[n].kind \in Kinds \cup {"none"}
    BY <1>4, SMTT(30) DEF Entries
  <2>2. (nreq.op = "rmdir" => T[n].kind = "dir") /\ (nreq.op = "unlink" => T[n].kind \in {"file", "link"})
    BY <1>2, <1>5, <1>8, <2>1 DEF Agree, Mirror, Kinds
  <2> QED BY <1>1, <1>5, <2>2 DEF Allowed
<1>12. CallInv'
  <2>1. nasks' > 0
    BY <1>1, <1>2
  <2> QED BY <1>2, <1>11, <2>1, ZenonT(40) DEF CallInv
<1> QED BY <1>1, <1>2, <1>9, <1>10, <1>12, Zenon DEF Followed

\* A name is moved in the source.
LEMMA RenameKeeps ==
    ASSUME NamesTypeOK, NamesTypeOK', Undisturbed, Followed, SysCall, NStep.tree = "src", NStep.call \in {"rename"}
    PROVE  Followed'
<1> DEFINE S == tree["src"]
           T == tree["id"]
<1>a. NStep.call \in {"rmdir", "unlink", "rename", "link"}
  OBVIOUS
<1>b. PICK n \in FileNames : n = nreq.n
  BY <1>a, FirstOfPair, Zenon
<1>c. PICK m \in FileNames : m = nreq.m
  BY <1>a, FirstOfPair, Zenon
<1>1. /\ nreq # NoNameReq /\ UNCHANGED <<conv, remote, nasks>> /\ NStep.call = nreq.op
      /\ tree'["src"] = After("src", NStep.call, n, m) /\ tree'["id"] = T /\ ino' = InodesAfter(NStep.call, n, m)
      /\ nreq' # NoNameReq /\ nreq'.op = nreq.op /\ nreq'.n = n /\ nreq'.m = m /\ Due' /\ NStep'.call = nreq.op
  BY <1>a, <1>b, <1>c, FirstOfPair, Zenon
<1>2. /\ SrcMade' \in Int /\ IdMade' \in Int /\ SrcMade \in Int /\ IdMade \in Int
      /\ SrcMade <= SrcMade' /\ IdMade <= IdMade' /\ nasks > 0
      /\ Agree(S, T, ino, conv) /\ Numbers(S, T, SrcMade, IdMade, remote)
      /\ RepliesInv' /\ Finds(nreq.k, nreq.n, nreq.m)'
  BY <1>a, FirstOfPair, Zenon
<1>3. Finds(IF nreq.op = "unlink" THEN 2 ELSE 1, n, m)
  BY <1>a, <1>b, <1>c, FirstOfPair, Zenon
<1>4. S \in [FileNames -> Entries] /\ T \in [FileNames -> Entries] /\ remote \in Int /\ remote <= remote
      /\ ino \in [FileNames -> Inodes]
  BY Parts DEF NamesTypeOK
<1>5. nreq.op \in {"rename"}
  BY <1>1
<1>6. tree'["src"] = [S EXCEPT ![m] = S[n], ![n] = NoEntry] /\ ino' = [ino EXCEPT ![m] = ino[n], ![n] = NoInode]
  BY <1>1, <1>5, AfterMoves, InodesAfterIs
<1>7. Second' = [T EXCEPT ![m] = T[n], ![n] = NoEntry]
  <2>1. Second' = After("id", NStep.call, nreq.n, nreq.m)'
    BY <1>1, Zenon DEF Second
  <2>2. Second' = [tree'["id"] EXCEPT ![m] = tree'["id"][n], ![n] = NoEntry]
    BY <1>1, <1>5, <2>1, SMTT(30) DEF After, KindMade
  <2> QED BY <1>1, <2>2, Zenon
<1>8. /\ n # m /\ T[n].kind # "none" /\ (~Crossing => (n \in IdNames <=> m \in IdNames))
      /\ S[m].kind # "none" => S[n].kind = S[m].kind
  <2>1. /\ ino[n].key # "none" /\ n # m /\ (~Crossing => (n \in IdNames <=> m \in IdNames))
        /\ S[m].kind # "none" => S[n].kind = S[m].kind
    BY <1>3, <1>5 DEF Finds
  <2> QED BY <1>2, <2>1 DEF Agree, Mirror
<1>9. Agree(tree'["src"], Second', ino', conv)
  <2> HIDE DEF S, T
  <2>1. Agree([S EXCEPT ![m] = S[n], ![n] = NoEntry], [T EXCEPT ![m] = T[n], ![n] = NoEntry], [ino EXCEPT ![m] = ino[n], ![n] = NoInode], conv)
    BY <1>2, <1>4, <1>8, Moved, ZenonT(40)
  <2> QED BY <1>6, <1>7, <2>1, Zenon
<1>10. Numbers(tree'["src"], Second', SrcMade', IdMade', remote)
  <2>a. NoEntry.kind = "none"
    BY DEF NoEntry, Entry
  <2> HIDE DEF S, T
  <2>1. \A x \in FileNames : tree'["src"][x].kind # "none" =>
           \E y \in FileNames : S[y].kind # "none" /\ tree'["src"][x].file = S[y].file
    BY <1>4, <1>6, <2>a
  <2>2. \A x \in FileNames : Second'[x].kind # "none" =>
           \E y \in FileNames : T[y].kind # "none" /\ Second'[x].file = T[y].file
    BY <1>4, <1>7, <2>a
  <2>3. Numbers(S, T, SrcMade, IdMade, remote)
    BY <1>2, Zenon
  <2>4. SrcMade' \in Int /\ IdMade' \in Int /\ SrcMade \in Int /\ IdMade \in Int /\ SrcMade <= SrcMade' /\ IdMade <= IdMade'
    BY <1>2, Zenon
  <2> QED BY <1>4, <2>1, <2>2, <2>3, <2>4, NumbersKept
<1>11. Allowed("id", NStep.call, nreq.n, nreq.m)'
  <2>1. T[m].kind # "none" => (T[n].kind = "dir" <=> T[m].kind = "dir")
    BY <1>2, <1>8, SMTT(30) DEF Agree, Mirror
  <2>2. Exists("id", m)' => T[m].kind # "none"
    BY <1>1, <1>4 DEF Exists, Entries
  <2> QED BY <1>1, <1>5, <1>8, <2>1, <2>2, SMTT(30) DEF Allowed
<1>12. CallInv'
  <2>1. nasks' > 0
    BY <1>1, <1>2
  <2> QED BY <1>2, <1>11, <2>1, ZenonT(40) DEF CallInv
<1> QED BY <1>1, <1>2, <1>9, <1>10, <1>12, Zenon DEF Followed

\* A name is added to a file in the source.
LEMMA LinkKeeps ==
    ASSUME NamesTypeOK, NamesTypeOK', Undisturbed, Followed, SysCall, NStep.tree = "src", NStep.call \in {"link"}
    PROVE  Followed'
<1> DEFINE S == tree["src"]
           T == tree["id"]
<1>a. NStep.call \in {"rmdir", "unlink", "rename", "link"}
  OBVIOUS
<1>b. PICK n \in FileNames : n = nreq.n
  BY <1>a, FirstOfPair, Zenon
<1>c. PICK m \in FileNames : m = nreq.m
  BY <1>a, FirstOfPair, Zenon
<1>1. /\ nreq # NoNameReq /\ UNCHANGED <<conv, remote, nasks>> /\ NStep.call = nreq.op
      /\ tree'["src"] = After("src", NStep.call, n, m) /\ tree'["id"] = T /\ ino' = InodesAfter(NStep.call, n, m)
      /\ nreq' # NoNameReq /\ nreq'.op = nreq.op /\ nreq'.n = n /\ nreq'.m = m /\ Due' /\ NStep'.call = nreq.op
  BY <1>a, <1>b, <1>c, FirstOfPair, Zenon
<1>2. /\ SrcMade' \in Int /\ IdMade' \in Int /\ SrcMade \in Int /\ IdMade \in Int
      /\ SrcMade <= SrcMade' /\ IdMade <= IdMade' /\ nasks > 0
      /\ Agree(S, T, ino, conv) /\ Numbers(S, T, SrcMade, IdMade, remote)
      /\ RepliesInv' /\ Finds(nreq.k, nreq.n, nreq.m)'
  BY <1>a, FirstOfPair, Zenon
<1>3. Finds(IF nreq.op = "unlink" THEN 2 ELSE 1, n, m)
  BY <1>a, <1>b, <1>c, FirstOfPair, Zenon
<1>4. S \in [FileNames -> Entries] /\ T \in [FileNames -> Entries] /\ remote \in Int /\ remote <= remote
      /\ ino \in [FileNames -> Inodes]
  BY Parts DEF NamesTypeOK
<1>5. nreq.op \in {"link"}
  BY <1>1
<1>6. tree'["src"] = [S EXCEPT ![m] = S[n]] /\ ino' = [ino EXCEPT ![m] = ino[n]]
  BY <1>1, <1>5, AfterMoves, InodesAfterIs
<1>7. Second' = [T EXCEPT ![m] = T[n]]
  <2>1. Second' = After("id", NStep.call, nreq.n, nreq.m)'
    BY <1>1, Zenon DEF Second
  <2>2. Second' = [tree'["id"] EXCEPT ![m] = tree'["id"][n]]
    BY <1>1, <1>5, <2>1, SMTT(30) DEF After, KindMade
  <2> QED BY <1>1, <2>2, Zenon
<1>8. n # m /\ T[n].kind # "none" /\ S[m].kind = "none" /\ (~Crossing => (n \in IdNames <=> m \in IdNames))
  <2>1. ino[n].key # "none" /\ n # m /\ S[m].kind = "none" /\ (~Crossing => (n \in IdNames <=> m \in IdNames))
    BY <1>3, <1>5 DEF Finds
  <2> QED BY <1>2, <2>1 DEF Agree, Mirror
<1>9. Agree(tree'["src"], Second', ino', conv)
  <2> HIDE DEF S, T
  <2>1. Agree([S EXCEPT ![m] = S[n]], [T EXCEPT ![m] = T[n]], [ino EXCEPT ![m] = ino[n]], conv)
    BY <1>2, <1>4, <1>8, Linked, ZenonT(40)
  <2> QED BY <1>6, <1>7, <2>1, Zenon
<1>10. Numbers(tree'["src"], Second', SrcMade', IdMade', remote)
  <2>a. NoEntry.kind = "none"
    BY DEF NoEntry, Entry
  <2> HIDE DEF S, T
  <2>1. \A x \in FileNames : tree'["src"][x].kind # "none" =>
           \E y \in FileNames : S[y].kind # "none" /\ tree'["src"][x].file = S[y].file
    BY <1>4, <1>6, <2>a
  <2>2. \A x \in FileNames : Second'[x].kind # "none" =>
           \E y \in FileNames : T[y].kind # "none" /\ Second'[x].file = T[y].file
    BY <1>4, <1>7, <2>a
  <2>3. Numbers(S, T, SrcMade, IdMade, remote)
    BY <1>2, Zenon
  <2>4. SrcMade' \in Int /\ IdMade' \in Int /\ SrcMade \in Int /\ IdMade \in Int /\ SrcMade <= SrcMade' /\ IdMade <= IdMade'
    BY <1>2, Zenon
  <2> QED BY <1>4, <2>1, <2>2, <2>3, <2>4, NumbersKept
<1>11. Allowed("id", NStep.call, nreq.n, nreq.m)'
  <2>1. T[m].kind = "none"
    BY <1>2, <1>8 DEF Agree, Mirror
  <2>2. Exists("id", n)' /\ ~Exists("id", m)'
    <3>1. T[m] = NoEntry
      BY <1>4, <2>1 DEF Entries
    <3>2. T[n] # NoEntry
      BY <1>8 DEF NoEntry, Entry
    <3> QED BY <1>1, <3>1, <3>2 DEF Exists
  <2> QED BY <1>1, <1>5, <2>2, SMTT(30) DEF Allowed
<1>12. CallInv'
  <2>1. nasks' > 0
    BY <1>1, <1>2
  <2> QED BY <1>2, <1>11, <2>1, Zenon DEF CallInv
<1> QED BY <1>1, <1>2, <1>9, <1>10, <1>12, Zenon DEF Followed

\* A look-up: the counterpart is made if it is missing, and the inode if it is new.
LEMMA LookupKeeps ==
    ASSUME NamesTypeOK, NamesTypeOK', Undisturbed, Followed, do_lookup, fails' = fails
    PROVE  Followed'
<1> DEFINE S == tree["src"]
           T == tree["id"]
<1>a. nreq # NoNameReq /\ nreq.n \in FileNames /\ NStep.call = "lookup" /\ UNCHANGED <<conv, remote, nasks>>
  BY LookupEffect, Zenon
<1>b. PICK n \in FileNames : n = nreq.n
  BY <1>a, Zenon
<1> DEFINE new == ino[n] = NoInode
           missing == new /\ ~Exists("id", n)
           i == [key |-> IF n \in IdNames THEN "id" ELSE "src",
                 is_id |-> n \in IdNames,
                 needs_download |-> n \in IdNames /\ missing /\ tree["src"][n].kind # "dir",
                 idfd |-> TRUE]
<1>1. /\ tree'["src"] = S /\ Exists("src", n)
      /\ tree'["id"] = IF missing THEN [T EXCEPT ![n] = Placeholder(n)] ELSE T
      /\ ~new => ino' = ino
      /\ new => ino' = [x \in FileNames |-> IF x \in Same("src", n) THEN i ELSE ino[x]]
      /\ (ino'[n].is_id => ino'[n].idfd) => Goes(replies)
  BY <1>b, LookupEffect, Zenon
<1>2. /\ ~Due
      /\ \/ nreq.op \in {"lookup", "unlink"} /\ nreq.k = 1
         \/ nreq.op = "mknod" /\ nreq.k = 2 /\ nreq.k = Len(NameHandlers[nreq.op])
         \/ /\ nreq.op \in {"mkdir", "symlink", "create"} /\ nreq.k \in {3, 5}
            /\ nreq.k = Len(NameHandlers[nreq.op])
  BY <1>a, LookupTable, Zenon
<1>3. Second = T
  BY <1>2, Zenon DEF Second
<1>4. /\ Agree(S, T, ino, conv) /\ Numbers(S, T, SrcMade, IdMade, remote) /\ CallInv /\ RepliesInv
  BY <1>3, Zenon DEF Followed
<1>5. /\ S \in [FileNames -> Entries] /\ T \in [FileNames -> Entries] /\ nasks \in Nat /\ remote \in Int /\ remote <= remote
      /\ (new <=> ino[n].key = "none")
  BY Parts
<1>6. (Exists("id", n) <=> T[n].kind # "none") /\ S[n].kind # "none"
  BY <1>1, ExistsKind DEF Trees
<1>7. /\ nreq.op = "unlink" => ~new
      /\ nreq.op \in {"mkdir", "symlink", "create"} => ~missing
      /\ nasks > 0
  <2>1. Finds(nreq.k, nreq.n, nreq.m) /\ nasks > 0
    BY <1>4, <1>a, ZenonT(40) DEF CallInv
  <2>2. nreq.op = "unlink" => ino[n].key # "none"
    BY <1>2, <1>b, <2>1, SMTT(30) DEF Finds
  <2>3. nreq.op \in {"mkdir", "symlink", "create"} => T[n].kind # "none"
    BY <1>2, <1>b, <2>1 DEF Finds
  <2> QED BY <1>5, <1>6, <2>1, <2>2, <2>3
<1>8. Goes(replies)
  <2>1. ino[n].key # "none" => ino[n].idfd
    BY <1>4 DEF Agree, Mirror
  <2>2. CASE new
    <3>1. n \in Same("src", n)
      BY <1>1, Zenon DEF Same
    <3>2. ino'[n] = i
      BY <1>1, <2>2, <3>1, ZenonT(40)
    <3> QED BY <1>1, <3>2, SMTT(30)
  <2>3. CASE ~new
    BY <1>1, <1>5, <2>1, <2>3
  <2> QED BY <2>2, <2>3, SMTT(30)
<1>9. /\ nreq.k = Len(NameHandlers[nreq.op]) => nreq' = NoNameReq
      /\ nreq' # NoNameReq => nreq'.op = nreq.op /\ nreq'.n = n /\ nreq'.k = nreq.k + 1
      /\ SrcMade' \in Int /\ IdMade' = nasks /\ SrcMade \in Int /\ IdMade \in Int
      /\ SrcMade <= SrcMade' /\ IdMade <= IdMade' /\ IdMade' \in Int
  BY <1>a, <1>b, <1>2, <1>8, Onward
<1>10. nreq' # NoNameReq => nreq.op \in {"lookup", "unlink"} /\ nreq'.k = 2
  BY <1>2, <1>9
<1>11. ~Due' /\ Second' = tree'["id"]
  <2>1. ~Due'
    BY <1>9, <1>10 DEF Due
  <2> QED BY <2>1, Zenon DEF Second
<1>12. new => Agree(S, tree'["id"], ino, conv) /\ tree'["id"][n].kind # "none"
  <2> SUFFICES ASSUME new PROVE Agree(S, tree'["id"], ino, conv) /\ tree'["id"][n].kind # "none"
    OBVIOUS
  <2>1. CASE missing
    <3>1. IdMade = nasks - 1
      BY <1>2, <1>7, <1>a, <2>1, SMTT(30) DEF IdMade
    <3> DEFINE e == Placeholder(n)
    <3>2. /\ e.file = nasks /\ ~e.data /\ e.kind # "none" /\ (S[n].kind = "dir" <=> e.kind = "dir")
          /\ S[n].kind = "file" => e.kind = "file"
      BY DEF Placeholder, Entry
    <3> HIDE DEF e
    <3>3. \A x \in FileNames : T[x].kind # "none" => T[x].file # e.file
      BY <1>4, <1>5, <3>1, <3>2 DEF Numbers, Entries
    <3>4. T[n].kind = "none"
      BY <1>6, <2>1
    <3>5. tree'["id"] = [T EXCEPT ![n] = e]
      BY <1>1, <2>1, Zenon DEF e
    <3> HIDE DEF S, T
    <3>6. Agree(S, [T EXCEPT ![n] = e], ino, conv)
      BY <1>4, <1>5, <1>6, <3>2, <3>3, <3>4, MadeInSecond, ZenonT(40)
    <3> QED BY <1>5, <3>2, <3>5, <3>6
  <2>2. CASE ~missing
    BY <1>1, <1>4, <1>6, <2>2
  <2> QED BY <2>1, <2>2
<1>13. Agree(S, tree'["id"], ino', conv)
  <2>1. CASE new
    <3>1. \A x \in FileNames : x \in Same("src", n) <=> S[x].kind # "none" /\ S[x].file = S[n].file
      BY ExistsKind, SMTT(30) DEF Same, Trees
    <3>2. i.idfd /\ (n \in IdNames => i.key = "id") /\ (n \notin IdNames => i.key = "src") /\ (i.is_id <=> n \in IdNames)
      BY ZenonT(40)
    <3>3. ino' = [x \in FileNames |-> IF x \in Same("src", n) THEN i ELSE ino[x]]
      BY <1>1, <2>1, Zenon
    <3> HIDE DEF i
    <3>4. \A x \in FileNames : ino'[x] = IF S[x].kind # "none" /\ S[x].file = S[n].file THEN i ELSE ino[x]
      BY <3>1, <3>3
    <3>5. Agree(S, tree'["id"], ino, conv) /\ tree'["id"][n].kind # "none" /\ S[n].kind # "none" /\ ino[n].key = "none"
      BY <1>5, <1>6, <1>12, <2>1, Zenon
    <3> HIDE DEF S, T, new
    <3>6. Given(ino', S, n, i, ino)
      BY <3>2, <3>4, <3>5, Zenon DEF Given
    <3> QED BY <3>5, <3>6, LookedUp, Zenon
  <2>2. CASE ~new
    BY <1>1, <1>4, <2>2, Zenon
  <2> QED BY <2>1, <2>2
<1>14. Numbers(S, tree'["id"], SrcMade', IdMade', remote)
  <2>1. \A x \in FileNames : tree'["id"][x].kind # "none" =>
           (\E y \in FileNames : T[y].kind # "none" /\ tree'["id"][x].file = T[y].file) \/ tree'["id"][x].file = IdMade'
    <3>1. Placeholder(n).file = nasks
      BY SMTT(30) DEF Placeholder, Entry
    <3>2. CASE missing
      BY <1>1, <1>5, <1>9, <3>1, <3>2, SMTT(30)
    <3>3. CASE ~missing
      BY <1>1, <3>3, Zenon
    <3> QED BY <3>2, <3>3
  <2>2. \A x \in FileNames : S[x].kind # "none" => \E y \in FileNames : S[y].kind # "none" /\ S[x].file = S[y].file
    OBVIOUS
  <2> HIDE DEF S, T
  <2> QED BY <1>4, <1>5, <1>9, <2>1, <2>2, NumbersKept
<1>15. CallInv'
  <2>1. nasks' > 0
    BY <1>7, <1>a, SMTT(30)
  <2>2. ASSUME nreq' # NoNameReq PROVE Finds(nreq.k, nreq.n, nreq.m)'
    <3>1. Finds(nreq.k, n, nreq.m)
      BY <1>4, <1>a, <1>b, ZenonT(40) DEF CallInv
    <3>a. nreq.op = "unlink" => ino[n].key # "none" /\ S[n].kind # "dir"
      BY <1>2, <3>1 DEF Finds
    <3>2. nreq.op = "unlink" => ino[n].key # "none" /\ S[n].kind # "dir" /\ ino' = ino
      BY <1>1, <1>7, <3>a, Zenon
    <3> QED BY <1>1, <1>9, <1>10, <2>2, <3>2 DEF Finds
  <2> QED BY <1>11, <2>1, <2>2, Zenon DEF CallInv
<1>16. RepliesInv'
  BY <1>4, <1>8, <1>a, RepliesOk
<1> QED BY <1>1, <1>11, <1>13, <1>14, <1>15, <1>16, <1>a, Zenon DEF Followed

\* The conversion.
LEMMA ConvertKeeps ==
    ASSUME NamesTypeOK, NamesTypeOK', Undisturbed, Followed, f3_make_id_fs
    PROVE  Followed'
<1> DEFINE S == tree["src"]
           T == tree["id"]
<1>a. nreq # NoNameReq /\ NStep.call = "convert" /\ Goes(replies) /\ UNCHANGED <<remote, nasks>>
      /\ conv' = (IF conv = "none" THEN "done" ELSE conv)
  BY Zenon DEF f3_make_id_fs
<1>b. PICK n \in FileNames : n = nreq.n
  BY <1>a, RequestForm, Zenon
<1>1. ~Due /\ nreq.op = "removexattr" /\ nreq.k = 3 /\ nreq.k = Len(NameHandlers[nreq.op])
  BY <1>a, ConvertTable, Zenon
<1>2. nreq' = NoNameReq
  BY <1>1, <1>a, Onward, Zenon
<1>3. Second = T /\ Second' = tree'["id"] /\ SrcMade' = nasks /\ IdMade' = nasks /\ CallInv' /\ SrcMade = nasks /\ IdMade = nasks
  <2>1. SrcMade = nasks /\ IdMade = nasks
    BY <1>1 DEF SrcMade, IdMade
  <2> QED BY <1>1, <1>2, <1>a, <2>1, Idle, Zenon DEF Second
<1>4. /\ Agree(S, T, ino, conv) /\ Numbers(S, T, nasks, nasks, remote) /\ CallInv /\ RepliesInv
  BY <1>3, Zenon DEF Followed
<1>5. ino[n].key # "none"
  <2>1. Finds(nreq.k, n, nreq.m)
    BY <1>4, <1>a, <1>b, Zenon DEF CallInv
  <2> QED BY <1>1, <2>1 DEF Finds
<1>6. \A x \in FileNames :
         /\ tree'["src"][x].kind = S[x].kind /\ tree'["src"][x].file = S[x].file
         /\ tree'["id"][x].kind = T[x].kind /\ tree'["id"][x].file = T[x].file
         /\ x \notin Same("src", n) => tree'["src"][x].data = S[x].data /\ ino'[x] = ino[x]
         /\ x \in Same("src", n) => ino'[x] = Converted(ino[x])
         /\ tree'["id"][x].data = IF x \in Same("id", n) THEN FALSE ELSE T[x].data
  BY <1>b, ConvertEffect, Zenon
<1>7. /\ \A x \in FileNames : x \in Same("src", n) <=> S[x].kind # "none" /\ S[x].file = S[n].file
      /\ \A x \in FileNames : x \in Same("id", n) <=> T[x].kind # "none" /\ T[x].file = T[n].file
  BY ExistsKind DEF Same, Trees
<1>8. \A x \in FileNames : LET i == Converted(ino[x]) IN i.key = ino[x].key /\ i.idfd = ino[x].idfd /\ ~i.is_id
  BY Parts, SMTT(30) DEF Converted, Inodes
<1>9. n \in Same("src", n)
  BY <1>4, <1>5, <1>7 DEF Agree, Mirror
<1>10. conv \in {"none", "done", "undone"} /\ nasks \in Int /\ remote \in Int /\ nasks <= nasks /\ remote <= remote
       /\ S \in [FileNames -> Entries] /\ T \in [FileNames -> Entries]
  BY Parts DEF NamesTypeOK
<1> HIDE DEF S, T
<1>11. Converts(tree'["src"], tree'["id"], ino', S, T, ino, n)
  <2>1. \A x \in FileNames : /\ tree'["src"][x].kind = S[x].kind /\ tree'["src"][x].file = S[x].file
                             /\ tree'["id"][x].kind = T[x].kind /\ tree'["id"][x].file = T[x].file
    BY <1>6, Zenon
  <2>2. \A x \in FileNames : S[x].kind = "none" \/ S[x].file # S[n].file => tree'["src"][x].data = S[x].data /\ ino'[x] = ino[x]
    BY <1>6, <1>7, Zenon
  <2>3. \A x \in FileNames : S[x].kind # "none" /\ S[x].file = S[n].file =>
           /\ ino'[x].key = ino[x].key /\ ino'[x].idfd = ino[x].idfd /\ ~ino'[x].is_id
           /\ ino[x] = ino[n] => ino'[x] = ino'[n]
    <3> SUFFICES ASSUME NEW x \in FileNames, S[x].kind # "none", S[x].file = S[n].file
                 PROVE  /\ ino'[x].key = ino[x].key /\ ino'[x].idfd = ino[x].idfd /\ ~ino'[x].is_id
                        /\ ino[x] = ino[n] => ino'[x] = ino'[n]
      BY Zenon
    <3>1. x \in Same("src", n)
      BY <1>7
    <3>2. ino'[x] = Converted(ino[x]) /\ ino'[n] = Converted(ino[n])
      BY <1>6, <1>9, <3>1, Zenon
    <3>3. Converted(ino[x]).key = ino[x].key /\ Converted(ino[x]).idfd = ino[x].idfd /\ ~Converted(ino[x]).is_id
      BY <1>8, Zenon
    <3> QED BY <3>2, <3>3, Zenon
  <2>4. /\ \A x \in FileNames : T[x].kind # "none" /\ T[x].file = T[n].file => ~tree'["id"][x].data
        /\ \A x \in FileNames : T[x].kind = "none" \/ T[x].file # T[n].file => tree'["id"][x].data = T[x].data
    BY <1>6, <1>7, ZenonT(40)
  <2> QED BY <2>1, <2>2, <2>3, <2>4, Zenon DEF Converts
<1>12. Agree(tree'["src"], tree'["id"], ino', conv')
  BY <1>4, <1>5, <1>10, <1>11, <1>a, ConvertedFile, ZenonT(40)
<1>13. Numbers(tree'["src"], tree'["id"], nasks, nasks, remote)
  <2>1. \A x \in FileNames : tree'["src"][x].kind = S[x].kind /\ tree'["src"][x].file = S[x].file
    BY <1>6, Zenon
  <2>2. \A x \in FileNames : tree'["id"][x].kind = T[x].kind /\ tree'["id"][x].file = T[x].file
    BY <1>6, Zenon
  <2> QED BY <1>4, <1>10, <2>1, <2>2, SameNumbers, ZenonT(40)
<1>14. RepliesInv'
  BY <1>4, <1>a, RepliesOk
<1> QED BY <1>3, <1>12, <1>13, <1>14, <1>a, Zenon DEF Followed

\* Of the calls that the trees do not allow, only two kinds are ever made.
LEMMA OnlyTheseFail ==
    ASSUME NamesTypeOK, Undisturbed, Followed, nreq # NoNameReq,
           ~Allowed(NStep.tree, NStep.call, nreq.n, nreq.m)
    PROVE  \/ nreq.op = "lookup" /\ nreq.k = Len(NameHandlers[nreq.op]) /\ NStep.onerr = "return"
           \/ nreq.op = "removexattr" /\ nreq.k \in {1, 2} /\ nreq.k # Len(NameHandlers[nreq.op]) /\ NStep.onerr = "goon"
<1> DEFINE S == tree["src"]
           T == tree["id"]
<1>a. PICK n \in FileNames : n = nreq.n
  BY RequestForm, Zenon
<1>b. PICK m \in FileNames : m = nreq.m
  BY RequestForm, Zenon
<1>1. ~Due
  <2>1. Due => NStep.tree = "id"
    BY DueTable, Zenon
  <2> QED BY <2>1, Zenon DEF Followed, CallInv
<1>2. Agree(S, T, ino, conv) /\ Finds(nreq.k, n, m)
  BY <1>1, <1>a, <1>b, Zenon DEF Followed, Second, CallInv
<1>3. /\ ino[n].key # "none" => T[n].kind # "none" /\ S[n].kind # "none" /\ ino[n].idfd
      /\ T[n].kind # "none" => S[n].kind # "none" /\ (S[n].kind = "dir" <=> T[n].kind = "dir") /\ (S[n].kind = "file" => T[n].kind = "file")
  BY <1>2, SMTT(30) DEF Agree, Mirror
<1>4. /\ S[n].kind \in Kinds \cup {"none"} /\ (Exists("src", n) <=> S[n].kind # "none") /\ (Exists("src", m) <=> S[m].kind # "none")
  BY ExistsKind DEF Trees, Entries
<1>5. ~Allowed(NStep.tree, NStep.call, n, m)
  BY <1>a, <1>b, Zenon
<1> USE DEF Is
<1>6. CASE nreq.op = "mknod"
  <2>1. CASE nreq.k = 1
    <3>1. S[n].kind = "none"
      BY <1>2, <1>6, <2>1 DEF Finds
    <3> QED BY <1>5, <1>6, <2>1, <3>1, MknodSteps, SMTT(30) DEF Allowed
  <2>2. CASE nreq.k = 2
    <3>1. S[n].kind = "file"
      BY <1>2, <1>6, <2>2 DEF Finds
    <3> QED BY <1>4, <1>5, <1>6, <2>2, <3>1, MknodSteps, SMTT(30) DEF Allowed
  <2> QED BY <1>6, <2>1, <2>2, MknodSteps
<1>7. CASE nreq.op = "mkdir"
  <2>1. /\ nreq.k = 1 => S[n].kind = "none"
        /\ nreq.k = 2 => T[n].kind = "none"
        /\ nreq.k > 2 => S[n].kind # "none"
    BY <1>2, <1>7 DEF Finds
  <2>2. CASE nreq.k = 1
    BY <1>5, <1>7, <2>1, <2>2, MkdirSteps DEF Allowed
  <2>3. CASE nreq.k = 2
    BY <1>5, <1>7, <2>1, <2>3, MkdirSteps DEF Allowed
  <2>4. CASE nreq.k \in {3, 4}
    BY <1>5, <1>7, <2>4, MkdirSteps DEF Allowed
  <2>5. CASE nreq.k = 5
    BY <1>4, <1>5, <1>7, <2>1, <2>5, MkdirSteps DEF Allowed
  <2> QED BY <1>7, <2>2, <2>3, <2>4, <2>5, MkdirSteps, SMTT(30)
<1>8. CASE nreq.op = "symlink"
  <2>1. /\ nreq.k = 1 => S[n].kind = "none"
        /\ nreq.k = 2 => T[n].kind = "none"
        /\ nreq.k > 2 => S[n].kind # "none"
    BY <1>2, <1>8 DEF Finds
  <2>2. CASE nreq.k = 1
    BY <1>5, <1>8, <2>1, <2>2, SymlinkSteps DEF Allowed
  <2>3. CASE nreq.k = 2
    BY <1>5, <1>8, <2>1, <2>3, SymlinkSteps DEF Allowed
  <2>4. CASE nreq.k = 3
    BY <1>4, <1>5, <1>8, <2>1, <2>4, SymlinkSteps DEF Allowed
  <2> QED BY <1>8, <2>2, <2>3, <2>4, SymlinkSteps, SMTT(30)
<1>9. CASE nreq.op = "create"
  <2>1. /\ nreq.k = 1 => S[n].kind \in {"none", "file"}
        /\ nreq.k = 2 => S[n].kind = "file"
        /\ nreq.k > 2 => S[n].kind # "none"
    BY <1>2, <1>9 DEF Finds
  <2>2. CASE nreq.k = 1
    BY <1>5, <1>9, <2>1, <2>2, CreateSteps DEF Allowed
  <2>3. CASE nreq.k = 2
    BY <1>3, <1>5, <1>9, <2>1, <2>3, CreateSteps DEF Allowed
  <2>4. CASE nreq.k \in {3, 4}
    BY <1>5, <1>9, <2>4, CreateSteps DEF Allowed
  <2>5. CASE nreq.k = 5
    BY <1>4, <1>5, <1>9, <2>1, <2>5, CreateSteps DEF Allowed
  <2> QED BY <1>9, <2>2, <2>3, <2>4, <2>5, CreateSteps, SMTT(30)
<1>10. CASE nreq.op = "rmdir"
  <2>1. nreq.k = 1
    BY <1>1, <1>10, RmdirSteps, SMTT(30) DEF Due
  <2>2. S[n].kind = "dir"
    BY <1>2, <1>10, <2>1 DEF Finds
  <2> QED BY <1>5, <1>10, <2>1, <2>2, RmdirSteps DEF Allowed
<1>11. CASE nreq.op = "unlink"
  <2>1. nreq.k \in {1, 2}
    BY <1>1, <1>11, UnlinkSteps, SMTT(30) DEF Due
  <2>2. ino[n].key # "none" /\ S[n].kind # "dir"
    BY <1>2, <1>11, <2>1, SMTT(30) DEF Finds
  <2>3. S[n].kind \in {"file", "link"}
    BY <1>3, <1>4, <2>2 DEF Kinds
  <2> QED BY <1>4, <1>5, <1>11, <2>1, <2>3, UnlinkSteps DEF Allowed
<1>12. CASE nreq.op = "rename"
  <2>1. nreq.k = 1
    BY <1>1, <1>12, RenameSteps, SMTT(30) DEF Due
  <2>2. ino[n].key # "none" /\ (S[m].kind # "none" => S[n].kind = S[m].kind)
    BY <1>2, <1>12, <2>1 DEF Finds
  <2> QED BY <1>3, <1>4, <1>5, <1>12, <2>1, <2>2, RenameSteps DEF Allowed
<1>13. CASE nreq.op = "link"
  <2>1. nreq.k \in {1, 3}
    BY <1>1, <1>13, LinkSteps DEF Due
  <2>2. CASE nreq.k = 1
    <3>1. S[m].kind = "none" /\ S[n].kind = "file"
      BY <1>2, <1>13, <2>2 DEF Finds
    <3> QED BY <1>4, <1>5, <1>13, <2>2, <3>1, LinkSteps, SMTT(30) DEF Allowed
  <2>3. CASE nreq.k = 3
    BY <1>5, <1>13, <2>3, LinkSteps DEF Allowed
  <2> QED BY <2>1, <2>2, <2>3
<1>14. CASE nreq.op = "setxattr"
  <2>1. ino[n].idfd
    BY <1>2, <1>3, <1>14 DEF Finds
  <2> QED BY <1>5, <1>14, <2>1, SetxattrSteps, SMTT(30) DEF Allowed
<1>15. CASE nreq.op = "removexattr"
  BY <1>5, <1>15, RemovexattrSteps, SMTT(30) DEF Allowed
<1>16. CASE nreq.op = "lookup"
  BY <1>16, LookupSteps, Zenon
<1> QED BY <1>6, <1>7, <1>8, <1>9, <1>10, <1>11, <1>12, <1>13, <1>14, <1>15, <1>16, RequestForm, Zenon

\* A call fails because of the trees.
LEMMA FailsKeeps ==
    ASSUME NamesTypeOK, NamesTypeOK', Undisturbed, Followed, SysCallFails, fails' = fails
    PROVE  Followed'
<1> DEFINE S == tree["src"]
           T == tree["id"]
<1>1. /\ nreq # NoNameReq /\ UNCHANGED <<tree, ino, gone, conv, remote, nasks>>
      /\ NStep.onerr = "goon" => Goes(Replied(replies, "err"))
      /\ NStep.onerr = "return" => Ends(replies, "err")
  BY DEF SysCallFails
<1>2. ~Allowed(NStep.tree, NStep.call, nreq.n, nreq.m)
  <2>1. fails \in Nat
    BY Zenon DEF NamesTypeOK
  <2> QED BY <2>1 DEF SysCallFails
<1>3. \/ nreq.op = "lookup" /\ nreq.k = Len(NameHandlers[nreq.op]) /\ NStep.onerr = "return"
      \/ nreq.op = "removexattr" /\ nreq.k \in {1, 2} /\ nreq.k # Len(NameHandlers[nreq.op]) /\ NStep.onerr = "goon"
  BY <1>1, <1>2, OnlyTheseFail, Zenon
<1>4. ~Due
  BY <1>3 DEF Due
<1>5. Agree(S, T, ino, conv) /\ Numbers(S, T, SrcMade, IdMade, remote) /\ CallInv /\ RepliesInv
  BY <1>4, Zenon DEF Followed, Second
<1>6. replies \in Seq(Answers) /\ Replied(replies, "err") \in Seq(Answers)
  BY <1>1, RepliedTyped
<1>7. S \in [FileNames -> Entries] /\ T \in [FileNames -> Entries] /\ remote \in Int /\ remote <= remote /\ nasks \in Nat
  BY Parts
<1>8. tree'["src"] = S /\ tree'["id"] = T /\ UNCHANGED <<ino, conv, remote, nasks>>
  BY <1>1
<1>9. (nreq.op # "removexattr" => replies = <<>>) /\ \A i \in 1..Len(replies) : replies[i].op = nreq.op
  BY <1>1, <1>5, Zenon DEF RepliesInv
<1> HIDE DEF S, T
<1>10. CASE nreq.op = "lookup"
  <2>1. nreq' = NoNameReq /\ replies' = Replied(replies, "err")
    BY <1>1, <1>3, <1>10 DEF Ends
  <2>2. RepliesInv'
    BY <1>1, <1>5, <1>6, <1>9, <2>1, RepliesGo
  <2>3. SrcMade \in Int /\ IdMade \in Int /\ SrcMade <= nasks /\ IdMade <= nasks
    BY <1>7 DEF SrcMade, IdMade
  <2>4. Numbers(S, T, nasks, nasks, remote)
    BY <1>5, <1>7, <2>3, SameNumbers
  <2> QED BY <1>5, <1>8, <2>1, <2>2, <2>4, Idle, Zenon DEF Followed
<1>11. CASE nreq.op = "removexattr"
  <2>1. Goes(Replied(replies, "err")) /\ nreq.k # Len(NameHandlers[nreq.op])
    BY <1>1, <1>3, <1>11
  <2>2. /\ nreq' # NoNameReq /\ nreq'.op = nreq.op /\ nreq'.n = nreq.n /\ nreq'.m = nreq.m
        /\ SrcMade' \in Int /\ IdMade' \in Int /\ SrcMade \in Int /\ IdMade \in Int
        /\ SrcMade <= SrcMade' /\ IdMade <= IdMade'
    BY <1>1, <1>6, <1>7, <2>1, OnwardWith
  <2>3. replies' = Replied(replies, "err")
    BY <2>1 DEF Goes
  <2>4. RepliesInv'
    <3> DEFINE r == [op |-> nreq.op, ans |-> "err"]
    <3>1. r \in Answers /\ r.op = nreq.op
      BY <1>1, RequestForm DEF Answers
    <3>2. Replied(replies, "err") = Append(replies, r)
      BY DEF Replied
    <3> HIDE DEF r
    <3>3. \A i \in 1..Len(Replied(replies, "err")) : Replied(replies, "err")[i].op = nreq.op
      BY <1>6, <1>9, <3>1, <3>2, Appended, SMTT(30)
    <3> QED BY <1>1, <1>5, <1>6, <1>11, <2>2, <2>3, <3>3, RepliesGo
  <2>5. Numbers(S, T, SrcMade', IdMade', remote)
    BY <1>5, <1>7, <2>2, SameNumbers
  <2>6. ~Due' /\ Second' = T
    <3>1. ~Due'
      BY <1>11, <2>2 DEF Due
    <3> QED BY <1>8, <3>1, Zenon DEF Second
  <2>7. CallInv'
    <3>1. ino[nreq.n].key # "none" /\ nasks > 0
      <4>1. Finds(nreq.k, nreq.n, nreq.m) /\ nasks > 0
        BY <1>1, <1>5, Zenon DEF CallInv
      <4> QED BY <1>11, <4>1 DEF Finds
    <3>2. Finds(nreq.k, nreq.n, nreq.m)'
      BY <1>8, <1>11, <2>2, <3>1 DEF Finds
    <3>3. nasks' > 0
      BY <1>8, <3>1
    <3> QED BY <2>6, <3>2, <3>3, ZenonT(40) DEF CallInv
  <2> QED BY <1>5, <1>8, <2>4, <2>5, <2>6, <2>7, Zenon DEF Followed
<1> QED BY <1>3, <1>10, <1>11

\* A call that changes a tree.
LEMMA CallKeeps ==
    ASSUME NamesTypeOK, NamesTypeOK', Undisturbed, Followed, SysCall
    PROVE  Followed'
<1>1. /\ nreq # NoNameReq /\ NStep.tree \in {"src", "id"}
      /\ NStep.call \in Made \cup AttrCalls \cup {"rmdir", "unlink", "rename", "link"}
  BY SysCallEffect, Zenon DEF Trees
<1>2. CASE NStep.call \in Made
  BY <1>1, <1>2, MakeInSourceKeeps, MakeInSecondKeeps
<1>3. CASE NStep.call \in AttrCalls
  BY <1>3, AttrKeeps, Zenon
<1>4. CASE NStep.call \in {"rmdir", "unlink", "rename", "link"}
  <2>1. CASE Due
    BY <2>1, SecondKeeps, Zenon
  <2>2. CASE ~Due
    <3>1. NStep.tree = "src"
      BY <1>1, <1>4, <2>2, PairTable, Zenon
    <3>2. CASE NStep.call \in {"rmdir", "unlink"}
      BY <3>1, <3>2, RemoveKeeps, Zenon
    <3>3. CASE NStep.call \in {"rename"}
      BY <3>1, <3>3, RenameKeeps, Zenon
    <3>4. CASE NStep.call \in {"link"}
      BY <3>1, <3>4, LinkKeeps, Zenon
    <3> QED BY <1>4, <3>2, <3>3, <3>4
  <2> QED BY <2>1, <2>2
<1> QED BY <1>1, <1>2, <1>3, <1>4

\* Steps that leave the system undisturbed start from a state in which it is so.
LEMMA StaysUndisturbed ==
    ASSUME NamesTypeOK, NamesNext, Undisturbed'
    PROVE  Undisturbed /\ fails' = fails /\ ~RemoteRemove
<1>1. fails \in Nat
  BY Zenon DEF NamesTypeOK
<1>2. fails' = 0 /\ gone' = {}
  BY Zenon DEF Undisturbed
<1>3. ~RemoteRemove
  BY <1>2, SMTT(30) DEF RemoteRemove
<1>4. gone' = gone
  BY <1>3 DEF NamesNext, NameRequest, SysCall, SysCallFails, do_lookup, f3_make_id_fs, Write, forget_one, RemoteMake, Restart
<1>5. fails' = fails \/ fails' = fails + 1
  BY <1>3, Zenon DEF NamesNext, NameRequest, SysCall, SysCallFails, do_lookup, f3_make_id_fs, Write, forget_one, RemoteMake, Restart
<1>6. fails' = fails
  BY <1>1, <1>2, <1>5
<1> QED BY <1>2, <1>3, <1>4, <1>6 DEF Undisturbed

-----------------------------------------------------------------------------
(***************************************************************************)
(* The theorems.                                                           *)
(***************************************************************************)
LEMMA NamesStart == NamesInit => NamesInv
<1> SUFFICES ASSUME NamesInit PROVE NamesInv
  OBVIOUS
<1> USE DEF NamesInit
<1>1. NoEntry \in Entries /\ NoEntry.kind = "none" /\ NoEntry.data = FALSE
  BY NewEntry, ZenonT(40) DEF NoEntry
<1>2. NoInode \in Inodes /\ NoInode.key = "none"
  BY DEF Inodes, NoInode
<1>3. NamesTypeOK
  <2>1. tree \in [Trees -> [FileNames -> Entries]] /\ ino \in [FileNames -> Inodes]
    BY <1>1, <1>2
  <2>2. replies \in Seq([op : DOMAIN NameHandlers, ans : {"ok", "err"}])
    OBVIOUS
  <2>3. /\ conv \in {"none", "done", "undone"} /\ fails \in Nat /\ remote \in Nat /\ nasks \in Nat /\ nasks <= MaxRequests
    OBVIOUS
  <2> QED BY <2>1, <2>2, <2>3, Zenon DEF NamesTypeOK
<1>4. \A x \in FileNames : tree["src"][x] = NoEntry /\ tree["id"][x] = NoEntry /\ ino[x] = NoInode
  BY DEF Trees
<1>5. Agree(tree["src"], tree["id"], ino, conv)
  BY <1>1, <1>2, <1>4 DEF Agree, Mirror, Classes, Placed
<1>6. Numbers(tree["src"], tree["id"], nasks, nasks, remote)
  BY <1>1, <1>4 DEF Numbers
<1>7. RepliesInv
  BY DEF RepliesInv, SecondTreeFollows
<1> QED BY <1>3, <1>5, <1>6, <1>7, Idle DEF NamesInv, Followed

LEMMA NamesStep == NamesInv /\ [NamesNext]_nameVars => NamesInv'
<1> SUFFICES ASSUME NamesInv, [NamesNext]_nameVars PROVE NamesInv'
  OBVIOUS
<1>1. NamesTypeOK /\ (Undisturbed => Followed)
  BY Zenon DEF NamesInv
<1>2. CASE UNCHANGED nameVars
  <2>1. /\ tree' = tree /\ ino' = ino /\ nreq' = nreq /\ replies' = replies /\ fails' = fails /\ gone' = gone
        /\ conv' = conv /\ remote' = remote /\ nasks' = nasks
    BY <1>2 DEF nameVars
  <2>2. NamesTypeOK' /\ (Undisturbed' => Undisturbed)
    BY <1>1, <2>1, Zenon DEF NamesTypeOK, Undisturbed
  <2>3. (Due' <=> Due) /\ NStep' = NStep /\ SrcMade' = SrcMade /\ IdMade' = IdMade
    BY <2>1, Zenon DEF Due, NStep, SrcMade, IdMade
  <2>4. Second' = Second
    <3>1. After("id", NStep.call, nreq.n, nreq.m)' = After("id", NStep.call, nreq.n, nreq.m)
      BY <2>1 DEF After, WithAttrs, Same, Exists, NStep
    <3> QED BY <2>1, <2>3, <3>1, Zenon DEF Second
  <2>5. CallInv => CallInv'
    BY <2>1, <2>3, ZenonT(40) DEF CallInv, Finds, Allowed, Exists
  <2>6. RepliesInv => RepliesInv'
    BY <2>1, Zenon DEF RepliesInv, SecondTreeFollows, Undisturbed
  <2>7. Followed => Followed'
    BY <2>1, <2>3, <2>4, <2>5, <2>6, Zenon DEF Followed
  <2> QED BY <1>1, <2>2, <2>7, Zenon DEF NamesInv
<1>3. CASE NamesNext
  <2>1. NamesTypeOK'
    BY <1>1, <1>3, TypesNext, Zenon
  <2>2. ASSUME Undisturbed' PROVE Followed'
    <3>1. Undisturbed /\ fails' = fails /\ ~RemoteRemove
      BY <1>1, <1>3, <2>2, StaysUndisturbed, Zenon
    <3>2. Followed
      BY <1>1, <3>1, Zenon
    <3>3. CASE NameRequest
      BY <1>1, <3>1, <3>2, <3>3, RequestKeeps, Zenon
    <3>4. CASE SysCall
      BY <1>1, <2>1, <3>1, <3>2, <3>4, CallKeeps, Zenon
    <3>5. CASE SysCallFails
      BY <1>1, <2>1, <3>1, <3>2, <3>5, FailsKeeps, Zenon
    <3>6. CASE do_lookup
      BY <1>1, <2>1, <3>1, <3>2, <3>6, LookupKeeps, ZenonT(40)
    <3>7. CASE f3_make_id_fs
      BY <1>1, <2>1, <3>1, <3>2, <3>7, ConvertKeeps, Zenon
    <3>8. CASE Write
      BY <1>1, <3>1, <3>2, <3>8, WriteKeeps, Zenon
    <3>9. CASE forget_one
      BY <1>1, <3>1, <3>2, <3>9, ForgetKeeps, Zenon
    <3>10. CASE RemoteMake
      BY <1>1, <3>1, <3>2, <3>10, RemoteMakeKeeps, Zenon
    <3>11. CASE Restart
      BY <1>1, <3>1, <3>2, <3>11, RestartKeeps, Zenon
    <3> QED BY <1>3, <3>1, <3>3, <3>4, <3>5, <3>6, <3>7, <3>8, <3>9, <3>10, <3>11, Zenon DEF NamesNext
  <2> QED BY <2>1, <2>2, Zenon DEF NamesInv
<1> QED BY <1>2, <1>3

\* NamesInv holds in every state of F3Names, for any names and bounds: the tree
\* under idroot, once the call that is due for it has been made, mirrors the source
\* (mknod_symlink, sfs_link, sfs_rmdir, sfs_rename, sfs_unlink, do_lookup).
THEOREM NamesInvariance == NamesSpec => []NamesInv
BY NamesStart, NamesStep, PTL DEF NamesSpec

\* The second call of a handler finds what it needs, and a request is answered once
\* unless it is a removexattr (F3_REPLY_ERR does not return), as long as no call
\* fails by itself and no other node removes entries.
THEOREM SecondCallsFind == NamesSpec => []SecondTreeFollows
<1>1. NamesInv => SecondTreeFollows
  BY DEF NamesInv, Followed, RepliesInv, SecondTreeFollows
<1> QED BY <1>1, NamesInvariance, PTL

\* The name of every inode has its counterpart under idroot, a directory for a
\* directory and only then (do_lookup, which makes the place holder).
THEOREM CounterpartsKept == NamesSpec => []LocalMirrors
<1>1. NamesInv => LocalMirrors
  <2> SUFFICES ASSUME NamesInv, Undisturbed, nreq = NoNameReq, NEW n \in FileNames, ino[n] # NoInode
               PROVE  Exists("id", n) /\ (tree["src"][n].kind = "dir" <=> tree["id"][n].kind = "dir")
    BY Zenon DEF LocalMirrors
  <2>1. NamesTypeOK /\ Agree(tree["src"], tree["id"], ino, conv)
    BY Idle, Zenon DEF NamesInv, Followed
  <2>2. ino[n].key # "none"
    BY <2>1, Parts
  <2>3. tree["id"][n].kind # "none" /\ (tree["src"][n].kind = "dir" <=> tree["id"][n].kind = "dir")
    BY <2>1, <2>2 DEF Agree, Mirror
  <2> QED BY <2>1, <2>3, ExistsKind DEF Trees
<1> QED BY <1>1, NamesInvariance, PTL

\* What was written through the driver is read back through it (INODE), when names
\* do not cross between ID files and others and until a restart after a conversion.
THEOREM WritesAreRead == ASSUME ~Crossing PROVE NamesSpec => []WrittenReadable
<1>1. NamesInv => WrittenReadable
  <2> SUFFICES ASSUME NamesInv, Undisturbed, nreq = NoNameReq, conv # "undone", NEW n \in FileNames, ino[n] # NoInode,
                      \E t \in Trees : tree[t][n].data
               PROVE  tree[INODE(n)][n].data
    BY Zenon DEF WrittenReadable
  <2>1. NamesTypeOK /\ Agree(tree["src"], tree["id"], ino, conv)
    BY Idle, Zenon DEF NamesInv, Followed
  <2>2. ino[n].key # "none"
    BY <2>1, Parts
  <2>3. (ino[n].is_id => ~tree["src"][n].data) /\ (~ino[n].is_id => ~tree["id"][n].data)
    BY <2>1, <2>2 DEF Agree, Placed
  <2>4. tree["src"][n].data \/ tree["id"][n].data
    BY Zenon DEF Trees
  <2> QED BY <2>3, <2>4, Zenon DEF INODE
<1> QED BY <1>1, NamesInvariance, PTL

=============================================================================
