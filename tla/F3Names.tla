------------------------------ MODULE F3Names -------------------------------
(***************************************************************************)
(* The two trees of the FUSE driver (src/f3/fuse/f3.cc): every entry of    *)
(* the source directory has a counterpart of the same name under idroot,   *)
(* and the handlers that change names or attributes make one system call   *)
(* for each tree.  One directory, one driver that handles one request at a *)
(* time (the plugin starts it with --single); other nodes add and remove   *)
(* entries of the source.                                                  *)
(*                                                                         *)
(* The data path of ID files is in FuseDriver, the inode table in F3Inodes.*)
(***************************************************************************)
EXTENDS Integers, Sequences, FiniteSets

CONSTANTS
    FileNames,   \* the names of the directory
    IdNames,     \* those that f3_is_id_ext takes for ID files
    MaxFails,    \* bound on the system calls that fail
    MaxRemote,   \* bound on the changes made by other nodes and the restarts
    MaxRequests, \* bound on the requests, a failed call counted as one
    Crossing     \* whether renames and links between ID names and others happen

ASSUME NamesAssumption ==
    /\ IdNames \subseteq FileNames /\ Crossing \in BOOLEAN
    /\ MaxFails \in Nat /\ MaxRemote \in Nat /\ MaxRequests \in Nat

VARIABLES
    tree,     \* tree[t][n]: the entry n of tree t, "src" or "id"
    ino,      \* ino[n]: the driver's inode of the source entry n, or NoInode
    nreq,     \* the request being handled, or NoNameReq
    replies,  \* the answers given to it
    fails,    \* the number of system calls that failed without a reason in the trees
    gone,     \* the names that another node has removed
    conv,     \* whether an ID file was converted ("done"), and a restart came after it ("undone")
    remote, nasks   \* the changes from outside and the requests, for their bounds
nameVars == <<tree, ino, nreq, replies, fails, gone, conv, remote, nasks>>

Trees == {"src", "id"}
Kinds == {"file", "dir", "link"}
\* file: which file it is, shared by hard links; data: something was written to
\* it; attrs: its extended attributes.
Entry(kind, file) == [kind |-> kind, file |-> file, data |-> FALSE, attrs |-> {}]
NoEntry == Entry("none", 0)
\* Inode: key is the tree whose inode number src_ino holds, idfd whether id_fd is open.
NoInode == [key |-> "none", is_id |-> FALSE, needs_download |-> FALSE, idfd |-> FALSE]
NoNameReq == [op |-> "none"]
Exists(t, n) == tree[t][n] # NoEntry

\* f3_is_new_id, for a directory that is not marked itself.
f3_is_new_id(n) == n \in IdNames

-----------------------------------------------------------------------------
(***************************************************************************)
(* The handlers: the system calls, each with the tree it works on and what *)
(* the code does when it fails: answer and return ("return"), or answer    *)
(* and go on ("goon").  end: the answer after the last call, which is also *)
(* given when the last call failed with "goon" unless it is its result     *)
(* ("last").                                                               *)
(***************************************************************************)
Sys(t, call, onerr) == [tree |-> t, call |-> call, onerr |-> onerr]
InBoth(call, onerr) == <<Sys("src", call, onerr), Sys("id", call, onerr)>>
Lookup == Sys("src", "lookup", "return")
Mark == <<Sys("src", "mark", "ignore"), Sys("id", "mark", "ignore")>>

\* A node is made in the source only; the look-up makes the one under idroot.
mknod_symlink(kind) ==
    CASE kind = "dir" -> InBoth("mkdir", "return") \o Mark \o <<Lookup>>
      [] kind = "link" -> InBoth("symlink", "return") \o <<Lookup>>
      [] kind = "file" -> <<Sys("src", "mknod", "return"), Lookup>>
sfs_mknod == mknod_symlink("file")
sfs_mkdir == mknod_symlink("dir")
sfs_symlink == mknod_symlink("link")
sfs_link == Append(InBoth("link", "return"), Sys("src", "count", "return"))
sfs_rmdir == <<Sys("src", "rmdir", "goon"), Sys("id", "rmdir", "last")>>
RenameSourceOnly == <<Sys("src", "rename", "last")>>
sfs_rename == <<Sys("src", "rename", "goon"), Sys("id", "rename", "last")>>
sfs_unlink == <<Lookup>> \o InBoth("unlink", "goon")
sfs_create == InBoth("creat", "return") \o Mark \o <<Lookup>>
sfs_setxattr == <<Sys("src", "setxattr", "goon"), Sys("id", "setxattr", "last")>>
sfs_removexattr == Append(InBoth("removexattr", "goon"), Sys("src", "convert", "last"))
sfs_lookup == <<Lookup>>

NameHandlers == [
    mknod |-> sfs_mknod, mkdir |-> sfs_mkdir, symlink |-> sfs_symlink, link |-> sfs_link,
    rmdir |-> sfs_rmdir, rename |-> sfs_rename, unlink |-> sfs_unlink, create |-> sfs_create,
    setxattr |-> sfs_setxattr, removexattr |-> sfs_removexattr, lookup |-> sfs_lookup]

NamesInit ==
    /\ tree = [t \in Trees |-> [n \in FileNames |-> NoEntry]]
    /\ ino = [n \in FileNames |-> NoInode]
    /\ nreq = NoNameReq /\ replies = <<>> /\ fails = 0 /\ gone = {} /\ conv = "none" /\ remote = 0 /\ nasks = 0

\* The requests a kernel makes: it looks a name up first, and knows which names
\* exist, as far as other nodes leave them alone.  It does nothing for a rename
\* between two names of one file.
Sensible(op, n, m) ==
    CASE op \in {"mknod", "mkdir", "symlink"} -> ~Exists("src", n)
      [] op = "create" -> ~Exists("src", n) \/ tree["src"][n].kind = "file"
      [] op = "rmdir" -> ino[n] # NoInode /\ tree["src"][n].kind = "dir"
      [] op = "unlink" -> ino[n] # NoInode /\ tree["src"][n].kind # "dir"
      [] op = "rename" -> /\ ino[n] # NoInode /\ n # m /\ Exists("src", n)
                          /\ Exists("src", m) => /\ ino[m] # NoInode
                                                 /\ tree["src"][n].kind = tree["src"][m].kind
                                                 /\ tree["src"][n].file # tree["src"][m].file
                          /\ ~Crossing => (n \in IdNames <=> m \in IdNames)
      [] op = "link" -> /\ ino[n] # NoInode /\ n # m /\ ~Exists("src", m)
                        /\ tree["src"][n].kind = "file"
                        /\ ~Crossing => (n \in IdNames <=> m \in IdNames)
      [] op = "removexattr" -> ino[n] # NoInode /\ tree["src"][n].kind = "file"
                               /\ "id" \in tree["src"][n].attrs
      [] op = "setxattr" -> ino[n] # NoInode /\ tree["src"][n].kind = "file"
      [] OTHER -> TRUE

NameRequest ==
    /\ nreq = NoNameReq /\ nasks + fails < MaxRequests
    /\ \E op \in DOMAIN NameHandlers, n, m \in FileNames :
          /\ Sensible(op, n, m)
          /\ op \notin {"rename", "link"} => m = n
          /\ nreq' = [op |-> op, n |-> n, m |-> m, k |-> 1]
    /\ replies' = <<>> /\ nasks' = nasks + 1
    /\ UNCHANGED <<tree, ino, fails, gone, conv, remote>>

-----------------------------------------------------------------------------
(***************************************************************************)
(* One system call: whether the tree allows it, and the tree after it.     *)
(***************************************************************************)
Allowed(t, call, n, m) ==
    LET kind == tree[t][n].kind IN
    CASE call \in {"mkdir", "mknod", "symlink"} -> kind = "none"
      [] call = "creat" -> kind \in {"none", "file"}
      [] call = "rmdir" -> kind = "dir"
      [] call = "unlink" -> kind \in {"file", "link"}
      [] call = "rename" -> /\ kind # "none"
                            /\ Exists(t, m) => (kind = "dir" <=> tree[t][m].kind = "dir")
      [] call = "link" -> Exists(t, n) /\ ~Exists(t, m)
      [] call = "removexattr" -> "id" \in tree[t][n].attrs
      [] call = "setxattr" -> t = "id" => ino[n].idfd
      [] call = "lookup" -> Exists("src", n)
      [] OTHER -> TRUE

\* The names of the file that is n in tree t.
Same(t, n) == {x \in FileNames : Exists(t, x) /\ tree[t][x].file = tree[t][n].file}
WithAttrs(t, n, attrs) == [x \in FileNames |->
    IF x \in Same(t, n) THEN [tree[t][x] EXCEPT !.attrs = attrs] ELSE tree[t][x]]

KindMade == [mkdir |-> "dir", mknod |-> "file", symlink |-> "link", creat |-> "file"]

After(t, call, n, m) ==
    LET T == tree[t] IN
    CASE call \in DOMAIN KindMade /\ ~Exists(t, n) -> [T EXCEPT ![n] = Entry(KindMade[call], nasks)]
      [] call \in {"rmdir", "unlink"} -> [T EXCEPT ![n] = NoEntry]
      [] call = "rename" -> [T EXCEPT ![m] = T[n], ![n] = NoEntry]
      [] call = "link" -> [T EXCEPT ![m] = T[n]]
      [] call = "mark" /\ f3_is_new_id(n) -> WithAttrs(t, n, T[n].attrs \union {"id"})
      [] call = "setxattr" -> WithAttrs(t, n, T[n].attrs \union {"user"})
      [] call = "removexattr" -> WithAttrs(t, n, T[n].attrs \ {"id"})
      [] OTHER -> T

\* What a change of the source means for the inodes: they belong to its files.
InodesAfter(call, n, m) ==
    CASE call \in {"rmdir", "unlink"} -> [ino EXCEPT ![n] = NoInode]
      [] call = "rename" -> [ino EXCEPT ![m] = ino[n], ![n] = NoInode]
      [] call = "link" -> [ino EXCEPT ![m] = ino[n]]
      [] OTHER -> ino

NStep == NameHandlers[nreq.op][nreq.k]
Replied(rs, ans) == Append(rs, [op |-> nreq.op, ans |-> ans])
Ends(rs, ans) == nreq' = NoNameReq /\ replies' = Replied(rs, ans)
Goes(rs) == IF nreq.k = Len(NameHandlers[nreq.op])
            THEN Ends(rs, "ok")
            ELSE nreq' = [nreq EXCEPT !.k = @ + 1] /\ replies' = rs

\* A call that changes one tree succeeds.
SysCall ==
    /\ nreq # NoNameReq /\ NStep.call \notin {"lookup", "convert"}
    /\ Allowed(NStep.tree, NStep.call, nreq.n, nreq.m)
    /\ tree' = [tree EXCEPT ![NStep.tree] = After(NStep.tree, NStep.call, nreq.n, nreq.m)]
    /\ ino' = IF NStep.tree = "src" THEN InodesAfter(NStep.call, nreq.n, nreq.m) ELSE ino
    /\ Goes(replies)
    /\ UNCHANGED <<fails, gone, conv, remote, nasks>>

\* A call fails, because of the tree or for a reason of its own (a full disk, a
\* directory that is not empty); nothing is changed.  F3_REPLY_ERR answers and
\* does not return: the handler returns after it, or goes on.
SysCallFails ==
    /\ nreq # NoNameReq
    /\ \/ ~Allowed(NStep.tree, NStep.call, nreq.n, nreq.m) /\ fails' = fails
       \/ fails < MaxFails /\ fails' = fails + 1
    /\ CASE NStep.onerr = "ignore" -> Goes(replies)
         [] NStep.onerr = "goon" -> Goes(Replied(replies, "err"))
         [] OTHER -> Ends(replies, "err")
    /\ UNCHANGED <<tree, ino, gone, conv, remote, nasks>>

\* The place holder under idroot: a regular file for a symbolic link too.
PlaceholderFile(n) == Entry("file", nasks)
Placeholder(n) == Entry(IF tree["src"][n].kind = "dir" THEN "dir" ELSE "file", nasks)

\* do_lookup of an entry that is in the source.  A new inode: the place holder
\* under idroot is made if it is not there.  When that fails the inode stays without id_fd, and the look-up of an ID
\* file fails, now and later.
do_lookup ==
    LET n == nreq.n
        new == ino[n] = NoInode
        missing == new /\ ~Exists("id", n)
    IN \E made \in BOOLEAN :
       /\ nreq # NoNameReq /\ NStep.call = "lookup" /\ Exists("src", n)
       /\ ~made => missing /\ fails < MaxFails
       /\ fails' = IF made THEN fails ELSE fails + 1
       /\ tree' = IF made /\ missing
                   THEN [tree EXCEPT !["id"][n] = Placeholder(n)]
                   ELSE tree
       /\ ino' = IF new
                  THEN [x \in FileNames |->
                         IF x \in Same("src", n)
                         THEN [key |-> IF f3_is_new_id(n) /\ made THEN "id" ELSE "src",
                               is_id |-> f3_is_new_id(n),
                               needs_download |-> f3_is_new_id(n) /\ missing /\ tree["src"][n].kind # "dir",
                               idfd |-> made]
                         ELSE ino[x]]
                  ELSE ino
       /\ IF ino'[n].is_id /\ ~ino'[n].idfd
          THEN Ends(replies, "err")
          ELSE Goes(replies)
       /\ UNCHANGED <<gone, conv, remote, nasks>>

ConvertedStaysId(i) == i
Converted(i) == [i EXCEPT !.is_id = FALSE]
\* f3_make_id_fs: the contents go to the source file, the local one is emptied.
f3_make_id_fs ==
    LET n == nreq.n IN
    /\ nreq # NoNameReq /\ NStep.call = "convert"
    /\ tree' = [tree EXCEPT !["src"] = [x \in FileNames |-> IF x \in Same("src", n)
                    THEN [tree["src"][x] EXCEPT !.data = @ \/ tree["id"][n].data] ELSE tree["src"][x]],
                            !["id"] = [x \in FileNames |-> IF x \in Same("id", n)
                    THEN [tree["id"][x] EXCEPT !.data = FALSE] ELSE tree["id"][x]]]
    /\ ino' = [x \in FileNames |-> IF x \in Same("src", n) THEN Converted(ino[x]) ELSE ino[x]]
    /\ conv' = (IF conv = "none" THEN "done" ELSE conv) /\ Goes(replies)
    /\ UNCHANGED <<fails, gone, remote, nasks>>

-----------------------------------------------------------------------------
(***************************************************************************)
(* The file is opened, written through the inode's descriptor (INODE) and  *)
(* closed; sfs_release publishes the size of an ID file on the source.     *)
(***************************************************************************)
INODE(n) == IF ino[n].is_id THEN "id" ELSE "src"
Write ==
    \E n \in FileNames :
       /\ nreq = NoNameReq /\ ino[n] # NoInode /\ tree["src"][n].kind = "file"
       /\ Exists(INODE(n), n) /\ (ino[n].is_id => ino[n].idfd)
       /\ tree' = [t \in Trees |-> [x \in FileNames |->
             CASE t = INODE(n) /\ x \in Same(t, n) -> [tree[t][x] EXCEPT !.data = TRUE]
               [] t = "src" /\ ino[n].is_id /\ x \in Same(t, n) -> [tree[t][x] EXCEPT !.attrs = @ \union {"size"}]
               [] OTHER -> tree[t][x]]]
       /\ UNCHANGED <<ino, nreq, replies, fails, gone, conv, remote, nasks>>

\* forget_one erases the entry of the table under src_ino and src_dev: an inode
\* that holds the numbers of the local file is not found, and stays.
forget_one ==
    \E n \in FileNames :
       /\ nreq = NoNameReq /\ ino[n].key = "src"
       /\ ino' = [x \in FileNames |-> IF x \in Same("src", n) THEN NoInode ELSE ino[x]]
       /\ UNCHANGED <<tree, nreq, replies, fails, gone, conv, remote, nasks>>

\* Another node makes or removes an entry of the source; the kernel here sees it
\* at its next look-up, as the time-outs are zero.
RemoteMake ==
    \E n \in FileNames, kind \in Kinds :
       /\ nreq = NoNameReq /\ remote < MaxRemote /\ ~Exists("src", n)
       /\ tree' = [tree EXCEPT !["src"][n] = [Entry(kind, MaxRequests + remote + 1) EXCEPT !.attrs =
                       IF f3_is_new_id(n) /\ kind # "link" THEN {"id"} ELSE {}]]
       /\ remote' = remote + 1
       /\ UNCHANGED <<ino, nreq, replies, fails, gone, conv, nasks>>
RemoteRemove ==
    \E n \in FileNames :
       /\ nreq = NoNameReq /\ remote < MaxRemote /\ Exists("src", n)
       /\ tree' = [tree EXCEPT !["src"][n] = NoEntry]
       /\ ino' = [ino EXCEPT ![n] = NoInode]
       /\ gone' = gone \union {n} /\ remote' = remote + 1
       /\ UNCHANGED <<nreq, replies, fails, conv, nasks>>

\* The driver is killed and started again: the table is lost.
Restart ==
    /\ nreq = NoNameReq /\ remote < MaxRemote
    /\ ino' = [n \in FileNames |-> NoInode] /\ remote' = remote + 1
    /\ conv' = IF conv = "done" THEN "undone" ELSE conv
    /\ UNCHANGED <<tree, nreq, replies, fails, gone, nasks>>

NamesNext ==
    \/ NameRequest \/ SysCall \/ SysCallFails \/ do_lookup \/ f3_make_id_fs
    \/ Write \/ forget_one \/ RemoteMake \/ RemoteRemove \/ Restart
NamesSpec == NamesInit /\ [][NamesNext]_nameVars

-----------------------------------------------------------------------------
\* What other nodes removed, and system calls that failed, leave the trees apart.
Undisturbed == fails = 0 /\ gone = {}

\* As long as no system call fails by itself and no other node removes entries, the
\* calls for the second tree find what they need, and every request but a
\* removexattr is answered once (the place holder of a file made on another node
\* has no mark to remove).
SecondTreeFollows ==
    Undisturbed /\ nreq = NoNameReq /\ nasks > 0 =>
        /\ Len(replies) >= 1
        /\ replies[1].op # "removexattr" => Len(replies) = 1

\* An inode's name has its counterpart under idroot, a directory for a directory
\* and only then, through renames, links, removals, forgets and restarts.
LocalMirrors ==
    Undisturbed /\ nreq = NoNameReq =>
        \A n \in FileNames : ino[n] # NoInode =>
            Exists("id", n) /\ (tree["src"][n].kind = "dir" <=> tree["id"][n].kind = "dir")

\* What was written through the driver is read back through it: it is in the tree
\* that the inode's reads go to.  Not claimed after a restart that follows a
\* conversion: by its name, the file is taken for an ID file again.
WrittenReadable ==
    Undisturbed /\ nreq = NoNameReq /\ conv # "undone" =>
        \A n \in FileNames :
            /\ ino[n] # NoInode
            /\ \E t \in Trees : tree[t][n].data
            => tree[INODE(n)][n].data
=============================================================================
