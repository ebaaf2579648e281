----------------------------- MODULE PartProofs -----------------------------
(***************************************************************************)
(* Proofs about parts that stand alone: the node server's count of targets *)
(* (NodeServer), for any number of targets and of things that go wrong,    *)
(* and the life of a session (FuseSession), for any sizes and kernels.     *)
(***************************************************************************)
EXTENDS NodeServer, FuseSession, FiniteSetTheorems, SequenceTheorems, TLAPS

-----------------------------------------------------------------------------
(***************************************************************************)
(* NodeServer.                                                             *)
(***************************************************************************)
NodeTypeOK ==
    /\ count \in Int
    /\ target \in [Targets -> {"absent", "bind", "umount", "failed", "stuck", "waiting", "again", "published"}]
    /\ failures \in Seq(Failures)

\* A driver runs only while it is entered and not waited for; one that was waited for stays.
ProcessInv ==
    /\ running => entry /\ ~waited
    /\ waited => entry
    /\ entry /\ ~waited => count > 0
    /\ \A t \in Targets : target[t] = "stuck" => waited

\* Without unpublishes of targets that are not counted the count is not too low, and without
\* bind mounts that fail it is not too high.
TargetsInv ==
    /\ Never({"mounted", "answer"}) =>
          /\ \A t \in Targets : target[t] \notin {"waiting", "again"}
          /\ PodsTargets # {} => entry
          /\ entry /\ ~waited => count >= Cardinality(PodsTargets)
    /\ Never({"bind"}) => (entry /\ ~waited => count <= Cardinality(PodsTargets))

NodeInv == NodeTypeOK /\ ProcessInv /\ TargetsInv

USE NodeAssumption

\* A failure that is recorded stays recorded.
LEMMA NeverAppended ==
    ASSUME NEW kind \in Failures, NEW K, failures \in Seq(Failures), failures' = Append(failures, kind)
    PROVE  Never(K)' <=> Never(K) /\ kind \notin K
<1>1. Len(failures) \in Nat /\ DOMAIN failures = 1..Len(failures)
  BY LenProperties
<1>2. DOMAIN failures' = 1..(Len(failures) + 1) /\ failures'[Len(failures) + 1] = kind
  BY AppendProperties, LenProperties
<1>3. \A i \in 1..Len(failures) : failures'[i] = failures[i]
  BY AppendProperties
<1>4. Never(K) <=> \A i \in 1..Len(failures) : failures[i] \notin K
  BY <1>1 DEF Never
<1>5. Never(K)' <=> \A i \in 1..(Len(failures) + 1) : failures'[i] \notin K
  BY <1>2 DEF Never
<1>6. 1..(Len(failures) + 1) = 1..Len(failures) \cup {Len(failures) + 1}
  BY <1>1
<1> QED BY <1>2, <1>3, <1>4, <1>5, <1>6

LEMMA TargetAdded ==
    ASSUME NEW S \in SUBSET Targets, NEW t \in Targets, t \notin S
    PROVE  Cardinality(S \cup {t}) = Cardinality(S) + 1 /\ Cardinality(S) \in Nat
BY FS_Subset, FS_AddElement, FS_CardinalityType

LEMMA TargetRemoved ==
    ASSUME NEW S \in SUBSET Targets, NEW t \in S
    PROVE  Cardinality(S \ {t}) = Cardinality(S) - 1 /\ Cardinality(S) \in Nat \ {0}
BY Zenon, FS_Subset, FS_RemoveElement, FS_CardinalityType, FS_EmptySet

LEMMA NodeInitInv == Init => NodeInv
<1> SUFFICES ASSUME Init PROVE NodeInv
  OBVIOUS
<1>1. PodsTargets = {}
  BY DEF Init, PodsTargets
<1>2. NodeTypeOK
  BY DEF Init, NodeTypeOK
<1> QED BY <1>1, <1>2 DEF Init, NodeInv, ProcessInv, TargetsInv

LEMMA NodeTypeStep == NodeTypeOK /\ [Next]_vars => NodeTypeOK'
<1> SUFFICES ASSUME NodeTypeOK, [Next]_vars PROVE NodeTypeOK'
  OBVIOUS
<1>1. failures' \in Seq(Failures)
  <2>1. failures' = failures \/ \E kind \in Failures : failures' = Append(failures, kind)
    BY DEF Next, vars, NotMounted, Publish, PublishFails, Bind, GiveUp, Unpublish, UnpublishWhen, Umount, DriverExits, Wait, Failure
  <2> QED BY <2>1, AppendProperties DEF NodeTypeOK
<1>2. target' \in [Targets -> {"absent", "bind", "umount", "failed", "stuck", "waiting", "again", "published"}]
  BY DEF NodeTypeOK, Next, vars, NotMounted, Publish, PublishFails, Bind, GiveUp, Unpublish, UnpublishWhen, Umount, DriverExits, Wait, Move
<1>3. count' \in Int
  BY DEF NodeTypeOK, Next, vars, NotMounted, Publish, PublishFails, Bind, GiveUp, Unpublish, UnpublishWhen, Umount, DriverExits, Wait
<1> QED BY <1>1, <1>2, <1>3 DEF NodeTypeOK

LEMMA ProcessStep == NodeTypeOK /\ ProcessInv /\ [Next]_vars => ProcessInv'
<1> SUFFICES ASSUME NodeTypeOK, ProcessInv, [Next]_vars PROVE ProcessInv'
  OBVIOUS
<1> USE DEF NodeTypeOK, ProcessInv, Move
<1>1. ASSUME NEW t \in Targets, NotMounted(t) \/ PublishFails(t) \/ Bind(t) \/ GiveUp(t) \/ Umount(t) PROVE ProcessInv'
  BY <1>1 DEF NotMounted, PublishFails, Bind, GiveUp, Umount
<1>2. ASSUME NEW t \in Targets, Publish(t) PROVE ProcessInv'
  <2>1. CASE entry
    BY <1>2, <2>1 DEF Publish
  <2>2. CASE ~entry
    BY <1>2, <2>2 DEF Publish
  <2> QED BY <2>1, <2>2
<1>3. ASSUME NEW t \in Targets, Unpublish(t) PROVE ProcessInv'
  <2>1. CASE entry /\ count <= 1 /\ waited
    BY <1>3, <2>1 DEF Unpublish, UnpublishWhen, KillFails
  <2>2. CASE entry /\ count <= 1 /\ ~waited
    BY Zenon, <1>3, <2>2 DEF Unpublish, UnpublishWhen, KillFails
  <2>3. CASE entry /\ ~(count <= 1)
    <3>1. /\ entry' /\ (running' <=> running) /\ (waited' <=> waited)
          /\ count' = count - 1
          /\ target' = [target EXCEPT ![t] = "umount"]
      BY <1>3, <2>3, Zenon DEF Unpublish, UnpublishWhen
    <3>2. count' > 0
      BY <3>1, <2>3
    <3>3. ASSUME NEW u \in Targets, target'[u] = "stuck" PROVE target[u] = "stuck"
      BY <3>1, <3>3
    <3> QED BY <3>1, <3>2, <3>3
  <2>4. CASE ~entry
    BY Zenon, <1>3, <2>4 DEF Unpublish, UnpublishWhen, KillFails
  <2> QED BY <2>1, <2>2, <2>3, <2>4
<1>4. CASE DriverExits \/ Wait
  BY <1>4 DEF DriverExits, Wait
<1>5. CASE UNCHANGED vars
  BY <1>5 DEF vars
<1> QED BY <1>1, <1>2, <1>3, <1>4, <1>5 DEF Next

\* What the steps of a target's calls do to the targets in use.
LEMMA TargetsMoved ==
    ASSUME NodeTypeOK, NEW t \in Targets, NEW s, Move(t, s)
    PROVE  /\ s \in {"bind", "published"} => PodsTargets' = PodsTargets \cup {t}
           /\ s \notin {"bind", "published"} => PodsTargets' = PodsTargets \ {t}
           /\ s \notin {"waiting", "again"} =>
                 ((\A u \in Targets : target[u] \notin {"waiting", "again"}) => \A u \in Targets : target'[u] \notin {"waiting", "again"})
BY DEF NodeTypeOK, Move, PodsTargets

\* The steps that leave the driver and the count alone and use no target more.
LEMMA QuietTargets ==
    ASSUME NodeTypeOK, TargetsInv, UNCHANGED <<entry, count, waited>>,
           PodsTargets' = PodsTargets,
           Never({"mounted", "answer"})' =>
              /\ Never({"mounted", "answer"})
              /\ (\A u \in Targets : target[u] \notin {"waiting", "again"}) => \A u \in Targets : target'[u] \notin {"waiting", "again"},
           Never({"bind"})' => Never({"bind"})
    PROVE  TargetsInv'
BY DEF TargetsInv

LEMMA TargetsStep == NodeInv /\ [Next]_vars => TargetsInv'
<1> SUFFICES ASSUME NodeTypeOK, ProcessInv, TargetsInv, [Next]_vars PROVE TargetsInv'
  BY DEF NodeInv
<1>n. ASSUME UNCHANGED failures, NEW K PROVE Never(K)' <=> Never(K)
  BY <1>n DEF Never
<1>1. ASSUME NEW t \in Targets, NotMounted(t) PROVE TargetsInv'
  <2>1. ~Never({"mounted", "answer"})' /\ (Never({"bind"})' => Never({"bind"}))
    BY <1>1, NeverAppended DEF NotMounted, Failure, NodeTypeOK
  <2>2. PodsTargets' = PodsTargets
    BY <1>1 DEF NotMounted, Move, PodsTargets, ToPublish, NodeTypeOK
  <2> QED BY <1>1, <2>1, <2>2, QuietTargets DEF NotMounted
<1>2. ASSUME NEW t \in Targets, Publish(t) PROVE TargetsInv'
  <2>1. PodsTargets' = PodsTargets \cup {t} /\ t \notin PodsTargets /\ PodsTargets \in SUBSET Targets
    BY <1>2 DEF Publish, Move, PodsTargets, ToPublish, NodeTypeOK
  <2>2. Cardinality(PodsTargets') = Cardinality(PodsTargets) + 1 /\ Cardinality(PodsTargets) \in Nat
    BY <2>1, TargetAdded
  <2>3. entry' /\ (entry => count' = count + 1 /\ (waited' <=> waited)) /\ (~entry => count' = 1)
    BY <1>2, Zenon DEF Publish
  <2>4. Never({"mounted", "answer"}) /\ ~entry => Cardinality(PodsTargets) = 0
    BY FS_EmptySet DEF TargetsInv
  <2>5. (Never({"mounted", "answer"})' <=> Never({"mounted", "answer"})) /\ (Never({"bind"})' <=> Never({"bind"}))
    BY <1>2, <1>n DEF Publish
  <2>6. (\A u \in Targets : target[u] \notin {"waiting", "again"}) => \A u \in Targets : target'[u] \notin {"waiting", "again"}
    BY <1>2, TargetsMoved DEF Publish
  <2>7. count \in Int
    BY DEF NodeTypeOK
  <2>8. Never({"mounted", "answer"})' => (entry' /\ ~waited' => count' >= Cardinality(PodsTargets'))
    BY <2>2, <2>3, <2>4, <2>5, <2>7 DEF TargetsInv
  <2>9. Never({"bind"})' => (entry' /\ ~waited' => count' <= Cardinality(PodsTargets'))
    BY <2>2, <2>3, <2>5, <2>7 DEF TargetsInv
  <2> QED BY <2>3, <2>5, <2>6, <2>8, <2>9 DEF TargetsInv
<1>3. ASSUME NEW t \in Targets, PublishFails(t) PROVE TargetsInv'
  <2>1. (Never({"mounted", "answer"})' => Never({"mounted", "answer"})) /\ (Never({"bind"})' => Never({"bind"}))
    BY <1>3, NeverAppended DEF PublishFails, Failure, NodeTypeOK
  <2>2. PodsTargets' = PodsTargets
    BY <1>3 DEF PublishFails, Move, PodsTargets, ToPublish, NodeTypeOK
  <2>3. (\A u \in Targets : target[u] \notin {"waiting", "again"}) => \A u \in Targets : target'[u] \notin {"waiting", "again"}
    BY <1>3, TargetsMoved DEF PublishFails
  <2> QED BY <1>3, <2>1, <2>2, <2>3, QuietTargets DEF PublishFails
<1>4. ASSUME NEW t \in Targets, Bind(t), Move(t, "published"), UNCHANGED failures PROVE TargetsInv'
  <2>2. PodsTargets' = PodsTargets
    BY <1>4 DEF Bind, Move, PodsTargets, NodeTypeOK
  <2>3. (\A u \in Targets : target[u] \notin {"waiting", "again"}) => \A u \in Targets : target'[u] \notin {"waiting", "again"}
    BY <1>4, TargetsMoved
  <2>4. (Never({"mounted", "answer"})' <=> Never({"mounted", "answer"})) /\ (Never({"bind"})' <=> Never({"bind"}))
    BY <1>4, <1>n
  <2> QED BY <1>4, <2>2, <2>3, <2>4, QuietTargets DEF Bind
<1>5. ASSUME NEW t \in Targets, Bind(t), Move(t, "failed"), Failure("bind") PROVE TargetsInv'
  <2>1. (Never({"mounted", "answer"})' => Never({"mounted", "answer"})) /\ ~Never({"bind"})'
    BY <1>5, NeverAppended DEF Failure, NodeTypeOK
  <2>2. PodsTargets' = PodsTargets \ {t} /\ t \in PodsTargets /\ PodsTargets \in SUBSET Targets
    BY <1>5 DEF Bind, Move, PodsTargets, NodeTypeOK
  <2>3. Cardinality(PodsTargets') = Cardinality(PodsTargets) - 1 /\ Cardinality(PodsTargets) \in Nat
    BY <2>2, TargetRemoved
  <2>4. (\A u \in Targets : target[u] \notin {"waiting", "again"}) => \A u \in Targets : target'[u] \notin {"waiting", "again"}
    BY <1>5, TargetsMoved
  <2>5. UNCHANGED <<entry, count, waited>> /\ count \in Int
    BY <1>5 DEF Bind, NodeTypeOK
  <2>6. Never({"mounted", "answer"})' => (entry' /\ ~waited' => count' >= Cardinality(PodsTargets'))
    BY <2>1, <2>3, <2>5 DEF TargetsInv
  <2> QED BY <2>1, <2>2, <2>4, <2>5, <2>6 DEF TargetsInv
<1>6. ASSUME NEW t \in Targets, GiveUp(t) PROVE TargetsInv'
  <2>2. PodsTargets' = PodsTargets
    BY <1>6 DEF GiveUp, Move, PodsTargets, NodeTypeOK
  <2>3. (\A u \in Targets : target[u] \notin {"waiting", "again"}) => \A u \in Targets : target'[u] \notin {"waiting", "again"}
    BY <1>6, TargetsMoved DEF GiveUp
  <2>4. (Never({"mounted", "answer"})' <=> Never({"mounted", "answer"})) /\ (Never({"bind"})' <=> Never({"bind"}))
    BY <1>6, <1>n DEF GiveUp
  <2> QED BY <1>6, <2>2, <2>3, <2>4, QuietTargets DEF GiveUp
<1>7. ASSUME NEW t \in Targets, Unpublish(t) PROVE TargetsInv'
  <2>1. PICK s \in {"stuck", "umount"} : Move(t, s)
    BY <1>7 DEF Unpublish, UnpublishWhen
  <2>2. PodsTargets' = PodsTargets \ {t} /\ PodsTargets \in SUBSET Targets
    BY <2>1, TargetsMoved DEF PodsTargets
  <2>3. (\A u \in Targets : target[u] \notin {"waiting", "again"}) => \A u \in Targets : target'[u] \notin {"waiting", "again"}
    BY <2>1, TargetsMoved
  <2>4. (Never({"mounted", "answer"})' <=> Never({"mounted", "answer"})) /\ (Never({"bind"})' <=> Never({"bind"}))
    BY <1>7, <1>n DEF Unpublish, UnpublishWhen
  <2>5. (\A u \in Targets : target[u] \notin {"waiting", "again"}) => t \in PodsTargets \/ waited
    BY <1>7 DEF Unpublish, UnpublishWhen, ToUnpublish, PodsTargets, ProcessInv
  <2>6. count \in Int /\ Cardinality(PodsTargets) \in Nat /\ Cardinality(PodsTargets') \in Nat
    BY <2>2, FS_Subset, FS_CardinalityType DEF NodeTypeOK
  <2>7. /\ t \in PodsTargets => Cardinality(PodsTargets') = Cardinality(PodsTargets) - 1
        /\ t \notin PodsTargets => PodsTargets' = PodsTargets
    BY <2>2, TargetRemoved
  <2>8. CASE entry /\ count <= 1 /\ waited
    <3>1. entry' /\ waited'
      BY <1>7, <2>8, Zenon DEF Unpublish, UnpublishWhen, KillFails
    <3> QED BY <2>3, <2>4, <3>1 DEF TargetsInv
  <2>9. CASE entry /\ count <= 1 /\ ~waited
    <3>1. ~entry'
      BY <1>7, <2>9, Zenon DEF Unpublish, UnpublishWhen, KillFails
    <3>2. ASSUME Never({"mounted", "answer"}) PROVE PodsTargets' = {}
      <4>1. t \in PodsTargets /\ Cardinality(PodsTargets) <= 1
        BY <3>2, <2>5, <2>6, <2>9 DEF TargetsInv
      <4>2. Cardinality(PodsTargets') = 0
        BY <4>1, <2>6, <2>7
      <4> QED BY <4>2, <2>2, FS_Subset, FS_EmptySet
    <3> QED BY <2>3, <2>4, <3>1, <3>2 DEF TargetsInv
  <2>10. CASE entry /\ ~(count <= 1)
    <3>1. entry' /\ (waited' <=> waited) /\ count' = count - 1
      BY <1>7, <2>10, Zenon DEF Unpublish, UnpublishWhen
    <3>2. ASSUME Never({"mounted", "answer"}), ~waited PROVE count' >= Cardinality(PodsTargets')
      BY <3>1, <3>2, <2>5, <2>6, <2>7, <2>10 DEF TargetsInv
    <3>3. ASSUME Never({"bind"}), ~waited PROVE count' <= Cardinality(PodsTargets')
      <4>1. count <= Cardinality(PodsTargets)
        BY <3>3, <2>10 DEF TargetsInv
      <4>2. CASE t \in PodsTargets
        BY <4>1, <4>2, <3>1, <2>6, <2>7
      <4>3. CASE t \notin PodsTargets
        BY <4>1, <4>3, <3>1, <2>6, <2>7
      <4> QED BY <4>2, <4>3
    <3> QED BY <2>3, <2>4, <3>1, <3>2, <3>3 DEF TargetsInv
  <2>11. CASE ~entry
    <3>1. ~entry'
      BY <1>7, <2>11, Zenon DEF Unpublish, UnpublishWhen
    <3> QED BY <2>2, <2>3, <2>4, <2>11, <3>1 DEF TargetsInv
  <2> QED BY <2>8, <2>9, <2>10, <2>11
<1>8. ASSUME NEW t \in Targets, Umount(t), Move(t, "absent"), UNCHANGED failures PROVE TargetsInv'
  <2>2. PodsTargets' = PodsTargets
    BY <1>8 DEF Umount, Move, PodsTargets, NodeTypeOK
  <2>3. (\A u \in Targets : target[u] \notin {"waiting", "again"}) => \A u \in Targets : target'[u] \notin {"waiting", "again"}
    BY <1>8, TargetsMoved
  <2>4. (Never({"mounted", "answer"})' <=> Never({"mounted", "answer"})) /\ (Never({"bind"})' <=> Never({"bind"}))
    BY <1>8, <1>n
  <2> QED BY <1>8, <2>2, <2>3, <2>4, QuietTargets DEF Umount
<1>9. ASSUME NEW t \in Targets, Umount(t), Move(t, "again"), Failure("answer") PROVE TargetsInv'
  <2>1. ~Never({"mounted", "answer"})' /\ (Never({"bind"})' => Never({"bind"}))
    BY <1>9, NeverAppended DEF Failure, NodeTypeOK
  <2>2. PodsTargets' = PodsTargets
    BY <1>9 DEF Umount, Move, PodsTargets, NodeTypeOK
  <2> QED BY <1>9, <2>1, <2>2, QuietTargets DEF Umount
<1>10. CASE DriverExits
  <2>1. (Never({"mounted", "answer"})' => Never({"mounted", "answer"})) /\ (Never({"bind"})' => Never({"bind"}))
    BY <1>10, NeverAppended DEF DriverExits, Failure, NodeTypeOK
  <2>2. PodsTargets' = PodsTargets
    BY <1>10 DEF DriverExits, PodsTargets
  <2> QED BY <1>10, <2>1, <2>2, QuietTargets DEF DriverExits
<1>11. CASE Wait
  <2>1. (Never({"mounted", "answer"})' <=> Never({"mounted", "answer"})) /\ (Never({"bind"})' <=> Never({"bind"}))
    BY <1>11, <1>n DEF Wait
  <2>2. PodsTargets' = PodsTargets /\ waited' /\ UNCHANGED <<target, entry>>
    BY <1>11 DEF Wait, PodsTargets
  <2> QED BY <2>1, <2>2 DEF TargetsInv
<1>12. CASE UNCHANGED vars
  BY <1>12 DEF vars, TargetsInv, PodsTargets, Never
<1> QED
  BY <1>1, <1>2, <1>3, <1>4, <1>5, <1>6, <1>7, <1>8, <1>9, <1>10, <1>11, <1>12 DEF Next, Bind, Umount

\* fuseProcsCount stays within what the targets account for, whatever goes wrong between the
\* calls of NodePublishVolume and NodeUnpublishVolume.
THEOREM NodeInvariance == Spec => []NodeInv
<1>1. NodeInv /\ [Next]_vars => NodeInv'
  BY NodeTypeStep, ProcessStep, TargetsStep DEF NodeInv
<1> QED BY NodeInitInv, <1>1, PTL DEF Spec

\* However many pods use the volume, and whatever starts and bind mounts fail and drivers exit:
\* the driver of a volume in use is not killed by NodeUnpublishVolume.
THEOREM DriverIsKept == Spec => []DriverKept
<1>1. NodeInv => DriverKept
  BY DEF NodeInv, TargetsInv, DriverKept
<1> QED BY NodeInvariance, <1>1, PTL

\* fuseProcsCount is never below the number of targets in use, until the driver exits by itself.
THEOREM CountIsEnough == Spec => []CountCovers
<1>1. NodeInv => CountCovers
  BY DEF NodeInv, TargetsInv, CountCovers
<1> QED BY NodeInvariance, <1>1, PTL

\* A driver that no pod uses has been killed, if no bind mount failed: fuseProcsCount is not above
\* the number of targets in use either, and a driver that runs is counted.
THEOREM IdleDriverStopped == Spec => []StoppedIfBound
<1>1. NodeInv => StoppedIfBound
  <2> SUFFICES ASSUME NodeInv, Never({"bind"}), \A t \in Targets : target[t] = "absent", running PROVE FALSE
    BY DEF StoppedIfBound, IdleMeansStopped
  <2>1. PodsTargets = {}
    BY DEF PodsTargets
  <2>2. Cardinality(PodsTargets) = 0
    BY <2>1, FS_EmptySet
  <2> QED BY <2>2 DEF NodeInv, NodeTypeOK, ProcessInv, TargetsInv
<1> QED BY NodeInvariance, <1>1, PTL

-----------------------------------------------------------------------------
(***************************************************************************)
(* FuseSession.                                                            *)
(***************************************************************************)

\* What main has to give back at each place.
OwnedAt ==
    [new |-> {}, signals |-> {"session"}, mount |-> {"session", "handlers"},
     loop |-> {"session", "handlers", "mount"}, unmount |-> {"session", "handlers", "mount"},
     remove |-> {"session", "handlers"}, destroy |-> {"session"}, end |-> {}]

\* init and destroy were called as the flags of the session say, until fuse_session_destroy makes them even.
CallsInv ==
    /\ inits = IF se.got_init THEN 1 ELSE 0
    /\ destroys = IF (IF spc = "end" THEN se.got_init ELSE se.got_destroy) THEN 1 ELSE 0
    /\ se.got_destroy => se.got_init
    /\ initout.kind = "ok" => se.got_init
    /\ spc \in {"new", "signals", "mount"} => ~se.got_init

SessionInv ==
    /\ spc \in DOMAIN OwnedAt /\ owned = OwnedAt[spc]
    /\ DOMAIN se = DOMAIN NewSession /\ se.got_init \in BOOLEAN /\ se.got_destroy \in BOOLEAN
    /\ CallsInv
    /\ ~se.got_init => se.max_write = NoLimit /\ se.bufsize = MaxMaxPages * Page + Header
    /\ WritesFit

\* main is at one place with what belongs to it, and takes and gives back one thing at a time.
LEMMA SessionMoves ==
    ASSUME SessionInv,
           \/ fuse_session_new \/ fuse_set_signal_handlers \/ fuse_session_mount
           \/ fuse_session_unmount \/ fuse_remove_signal_handlers
    PROVE  SessionInv'
<1>1. UNCHANGED <<se, inits, destroys, initout>>
  BY DEF fuse_session_new, fuse_set_signal_handlers, fuse_session_mount, Gets,
         fuse_session_unmount, fuse_remove_signal_handlers, GivesBack
<1>2. WritesFit'
  BY <1>1 DEF SessionInv, WritesFit
<1>3. /\ spc' \in DOMAIN OwnedAt /\ owned' = OwnedAt[spc']
      /\ spc' \in {"new", "signals", "mount"} => spc \in {"new", "signals", "mount"}
      /\ spc # "end" /\ (spc' = "end" => spc = "new")
  <2>1. CASE fuse_session_new
    BY <2>1 DEF fuse_session_new, Gets, SessionInv, OwnedAt
  <2>2. CASE fuse_set_signal_handlers
    BY <2>2 DEF fuse_set_signal_handlers, Gets, SessionInv, OwnedAt
  <2>3. CASE fuse_session_mount
    BY <2>3 DEF fuse_session_mount, Gets, SessionInv, OwnedAt
  <2>4. CASE fuse_session_unmount
    BY <2>4 DEF fuse_session_unmount, GivesBack, SessionInv, OwnedAt
  <2>5. CASE fuse_remove_signal_handlers
    BY <2>5 DEF fuse_remove_signal_handlers, GivesBack, SessionInv, OwnedAt
  <2> QED BY <2>1, <2>2, <2>3, <2>4, <2>5
<1>4. CallsInv'
  <2>1. CASE spc = "new"
    <3>1. ~se.got_init /\ ~se.got_destroy
      BY <2>1 DEF SessionInv, CallsInv
    <3> QED BY <1>1, <1>3, <2>1, <3>1 DEF SessionInv, CallsInv
  <2>2. CASE spc # "new"
    BY <1>1, <1>3, <2>2 DEF SessionInv, CallsInv
  <2> QED BY <2>1, <2>2
<1> QED BY <1>1, <1>2, <1>3, <1>4 DEF SessionInv

\* The ends of the loop and of the session.
LEMMA SessionEnds ==
    ASSUME SessionInv, LoopEnds \/ do_destroy \/ fuse_session_destroy
    PROVE  SessionInv'
<1>1. CASE LoopEnds
  <2>1. se' = [se EXCEPT !.exited = TRUE] /\ spc = "loop" /\ spc' = "unmount" /\ UNCHANGED <<owned, inits, destroys, initout>>
    BY <1>1 DEF LoopEnds
  <2>2. /\ DOMAIN se' = DOMAIN se /\ se'.got_init = se.got_init /\ se'.got_destroy = se.got_destroy
        /\ se'.max_write = se.max_write /\ se'.bufsize = se.bufsize
    BY <2>1 DEF SessionInv, NewSession
  <2>3. WritesFit'
    BY <2>1, <2>2 DEF SessionInv, WritesFit
  <2>4. owned' = OwnedAt[spc'] /\ spc' \in DOMAIN OwnedAt
    BY <2>1 DEF SessionInv, OwnedAt
  <2>5. CallsInv'
    BY <2>1, <2>2 DEF SessionInv, CallsInv
  <2> QED BY <2>1, <2>2, <2>3, <2>4, <2>5 DEF SessionInv
<1>2. CASE do_destroy
  <2>1. /\ se' = [se EXCEPT !.got_destroy = TRUE] /\ spc = "loop" /\ spc' = spc /\ initout.kind = "ok" /\ ~se.got_destroy
        /\ UNCHANGED <<owned, inits, initout>> /\ destroys' = destroys + 1
    BY <1>2 DEF do_destroy
  <2>2. /\ DOMAIN se' = DOMAIN se /\ se'.got_init = se.got_init /\ se'.got_destroy = TRUE
        /\ se'.max_write = se.max_write /\ se'.bufsize = se.bufsize
    BY <2>1 DEF SessionInv, NewSession
  <2>3. WritesFit'
    BY <2>1, <2>2 DEF SessionInv, WritesFit
  <2>4. se.got_init /\ destroys' = 1
    BY <2>1 DEF SessionInv, CallsInv
  <2>5. CallsInv'
    BY <2>1, <2>2, <2>4 DEF SessionInv, CallsInv
  <2> QED BY Zenon, <2>1, <2>2, <2>3, <2>4, <2>5 DEF SessionInv
<1>3. CASE fuse_session_destroy
  <2>1. /\ spc = "destroy" /\ spc' = "end" /\ owned' = owned \ {"session"} /\ UNCHANGED <<se, inits, initout>>
        /\ destroys' = IF se.got_init /\ ~se.got_destroy THEN destroys + 1 ELSE destroys
    BY <1>3 DEF fuse_session_destroy, DestroyDue
  <2>2. owned' = OwnedAt[spc'] /\ spc' \in DOMAIN OwnedAt
    BY <2>1 DEF SessionInv, OwnedAt
  <2>3. WritesFit'
    BY <2>1 DEF SessionInv, WritesFit
  <2>4. CallsInv'
    <3>1. CASE se.got_init /\ ~se.got_destroy
      BY <2>1, <3>1 DEF SessionInv, CallsInv
    <3>2. CASE ~(se.got_init /\ ~se.got_destroy)
      BY <2>1, <3>2 DEF SessionInv, CallsInv
    <3> QED BY <3>1, <3>2
  <2> QED BY <2>1, <2>2, <2>3, <2>4 DEF SessionInv
<1> QED BY <1>1, <1>2, <1>3

\* The arithmetic of do_init: a number of pages that holds a write, and no page more.
LEMMA PagesOfWrite ==
    ASSUME NEW p \in Nat \ {0}, NEW w \in Nat \ {0}, NEW m \in Nat, w <= m * p
    PROVE  LET k == (w - 1) \div p + 1 IN k * p >= w /\ (k - 1) * p < w /\ k <= m
<1> DEFINE q == (w - 1) \div p
<1>1. q \in Nat /\ q * p <= w - 1 /\ w - 1 < q * p + p
  OBVIOUS
<1> HIDE DEF q
<1>2. (q + 1) * p = q * p + p
  BY <1>1
<1>3. q < m
  <2> SUFFICES ASSUME m <= q PROVE FALSE
    BY <1>1
  <2>1. m * p <= q * p
    BY <1>1
  <2> QED BY <1>1, <2>1
<1> QED BY <1>1, <1>2, <1>3 DEF q

\* The sizes do_init settles on, from those of a new session.
LEMMA InitSizes ==
    ASSUME SessionInv, ~se.got_init, NEW minor, NEW flags,
           NEW mw \in 1..((DefaultMaxPages + 1) * Page) \union {NoLimit}
    PROVE  LET bufsize == InitBuffer(minor, flags)
               max_write == InitMaxWrite(minor, flags, mw)
           IN  /\ max_write \in Nat \ {0} /\ max_write <= MaxMaxPages * Page
               /\ max_write + Header <= BufferCut(max_write, bufsize)
<1> DEFINE b == BufferFor(minor, flags)
           bufsize == IF b < MinReadBuffer THEN MinReadBuffer ELSE b
           max_write == AtMost(AtMost(se.max_write, bufsize - Header), mw)
<1>1. /\ Page \in Nat \ {0} /\ MaxMaxPages * Page \in Nat /\ DefaultMaxPages * Page \in Nat
      /\ Page <= MaxMaxPages * Page /\ DefaultMaxPages * Page <= MaxMaxPages * Page
  BY SessionAssumption
<1>2. mw \in Nat \ {0}
  <2>1. (DefaultMaxPages + 1) * Page \in Nat
    BY SessionAssumption
  <2> QED BY <2>1 DEF NoLimit
<1>3. se.max_write = 1000 /\ se.bufsize = MaxMaxPages * Page + Page
  BY DEF SessionInv, NoLimit, Header
<1>4. b \in Nat /\ b <= MaxMaxPages * Page + Page
  <2>1. b \in {se.bufsize, AtMost(se.bufsize, DefaultMaxPages * Page + Page)}
    BY DEF BufferFor, Header
  <2> HIDE DEF b
  <2> QED BY <1>1, <1>3, <2>1 DEF AtMost
<1> HIDE DEF b
<1>5. bufsize \in Nat /\ bufsize <= MaxMaxPages * Page + Page /\ 2 * Page <= bufsize
  BY <1>1, <1>4 DEF MinReadBuffer
<1> HIDE DEF bufsize
<1>6. max_write \in Nat \ {0} /\ max_write <= bufsize - Page
  BY <1>1, <1>2, <1>3, <1>5 DEF AtMost, Header
<1> HIDE DEF max_write
<1>7. max_write <= MaxMaxPages * Page /\ max_write + Page <= bufsize
  BY <1>1, <1>5, <1>6
<1>8. max_write + Header <= BufferCut(max_write, bufsize)
  BY <1>1, <1>5, <1>6 DEF BufferCut, Header
<1> QED BY <1>6, <1>7, <1>8 DEF b, bufsize, max_write, Header, InitBuffer, InitMaxWrite

\* INIT.
LEMMA SessionNegotiates ==
    ASSUME SessionInv, InitOtherMajor \/ do_init
    PROVE  SessionInv'
<1>1. CASE InitOtherMajor
  <2>1. PICK major \in Majors \ {7}, minor \in Minors :
           /\ spc = "loop" /\ ~se.got_init /\ se' = [se EXCEPT !.major = major, !.minor = minor]
           /\ initout' = [kind |-> IF major < 7 THEN "EPROTO" ELSE "again"]
           /\ UNCHANGED <<spc, owned, inits, destroys>>
    BY Zenon, <1>1 DEF InitOtherMajor
  <2>2. /\ DOMAIN se' = DOMAIN se /\ se'.got_init = se.got_init /\ se'.got_destroy = se.got_destroy
        /\ se'.max_write = se.max_write /\ se'.bufsize = se.bufsize
    BY <2>1 DEF SessionInv, NewSession
  <2>3. initout'.kind # "ok"
    BY <2>1
  <2>4. WritesFit'
    BY <2>3 DEF WritesFit
  <2>5. CallsInv'
    BY <2>1, <2>2, <2>3 DEF SessionInv, CallsInv
  <2> QED BY <2>1, <2>2, <2>4, <2>5 DEF SessionInv
<1>2. CASE do_init
  <2>a. PICK minor \in Minors, flags \in Offers, mw \in 1..((DefaultMaxPages + 1) * Page) \union {NoLimit},
             background \in {0, 4}, badread \in BOOLEAN :
           /\ spc = "loop" /\ ~se.got_init
           /\ \E want \in Wants(DefaultWant(Capable(minor, flags)), Capable(minor, flags)) :
                 InitAnswer(minor, flags, mw, background, want,
                            SupportedWant(want, Capable(minor, flags)) /\ ~badread)
           /\ inits' = inits + 1 /\ UNCHANGED <<spc, owned, destroys>>
    BY <1>2, ZenonT(40) DEF do_init
  <2>b. PICK want : InitAnswer(minor, flags, mw, background, want,
                               SupportedWant(want, Capable(minor, flags)) /\ ~badread)
    BY <2>a, Zenon
  <2>1. /\ spc = "loop" /\ ~se.got_init
        /\ InitAnswer(minor, flags, mw, background, want, SupportedWant(want, Capable(minor, flags)) /\ ~badread)
        /\ inits' = inits + 1 /\ UNCHANGED <<spc, owned, destroys>>
    BY <2>a, <2>b, Zenon
  <2> DEFINE bufsize == InitBuffer(minor, flags)
             max_write == InitMaxWrite(minor, flags, mw)
             cut == BufferCut(max_write, bufsize)
             ok == SupportedWant(want, Capable(minor, flags)) /\ ~badread
  <2>2. /\ se' = [se EXCEPT !.major = 7, !.minor = minor, !.capable = Capable(minor, flags), !.want = want,
                     !.got_init = TRUE, !.max_write = max_write,
                     !.bufsize = IF ok THEN cut ELSE bufsize,
                     !.max_background = background,
                     !.congestion = IF ok /\ minor >= 13 THEN (background * 3) \div 4 ELSE 0,
                     !.error = ~ok, !.exited = ~ok]
        /\ initout' =
             IF ok
             THEN [kind |-> "ok", offered |-> flags,
                   flags |-> {"BIG_WRITES"} \union (want \intersect SentFlags) \union (flags \intersect {"MAX_PAGES"}),
                   max_write |-> max_write,
                   max_pages |-> IF "MAX_PAGES" \in flags THEN MaxPages(max_write) ELSE DefaultMaxPages,
                   size |-> IF minor < 5 THEN "compat" ELSE IF minor < 23 THEN "compat22" ELSE "full"]
             ELSE [kind |-> "EPROTO"]
    BY <2>1, Zenon DEF InitAnswer
  <2>3. spc = "loop" /\ ~se.got_init /\ inits' = inits + 1 /\ UNCHANGED <<spc, owned, destroys>>
    BY <2>1
  <2>4. /\ max_write \in Nat \ {0} /\ max_write <= MaxMaxPages * Page
        /\ max_write + Header <= cut
    BY <2>3, InitSizes
  <2> HIDE DEF bufsize, max_write, cut, ok
  <2>5. /\ DOMAIN se' = DOMAIN se /\ se'.got_init = TRUE /\ se'.got_destroy = se.got_destroy
        /\ ok => se'.bufsize = cut
    BY <2>2, Zenon DEF SessionInv, NewSession
  <2>6. CallsInv'
    BY <2>3, <2>5 DEF SessionInv, CallsInv
  <2>7. WritesFit'
    <3>1. CASE ~ok
      <4>1. initout'.kind # "ok"
        BY <2>2, <3>1
      <4> QED BY <4>1 DEF WritesFit
    <3>2. CASE ok
      <4>1. /\ initout'.max_write = max_write
            /\ "MAX_PAGES" \in initout'.flags => initout'.max_pages = MaxPages(max_write)
        BY <2>2, <3>2 DEF SentFlags
      <4>2. LET k == MaxPages(max_write) IN k * Page >= max_write /\ (k - 1) * Page < max_write /\ k <= MaxMaxPages
        BY <2>4, PagesOfWrite, SessionAssumption DEF MaxPages
      <4>3. initout'.max_write + Header <= se'.bufsize
        BY <2>4, <2>5, <3>2, <4>1
      <4>4. Header' = Header
        BY DEF Header
      <4> QED BY <4>1, <4>2, <4>3, <4>4 DEF WritesFit
    <3> QED BY <3>1, <3>2
  <2> QED BY Zenon, <2>3, <2>5, <2>6, <2>7 DEF SessionInv
<1> QED BY <1>1, <1>2

\* Every step of a session keeps SessionInv.
LEMMA SessionStep ==
    ASSUME SessionInv, [SessionNext]_sessionVars
    PROVE  SessionInv'
<1>1. CASE Notify \/ \E r \in Retrieves : RetrieveListed(r) \/ RetrieveSent(r) \/ RetrieveFails(r) \/ do_notify_reply(r)
  <2>1. UNCHANGED <<spc, owned, se, inits, destroys, initout>>
    BY <1>1 DEF Notify, RetrieveListed, RetrieveSent, RetrieveFails, do_notify_reply
  <2> QED BY <2>1 DEF SessionInv, CallsInv, WritesFit
<1>2. CASE UNCHANGED sessionVars
  BY <1>2 DEF sessionVars, SessionInv, CallsInv, WritesFit
<1> QED BY <1>1, <1>2, SessionMoves, SessionEnds, SessionNegotiates DEF SessionNext

\* The flags of the session, the places of main and the sizes agree in every state of a session
\* (fuse_session_new, do_init, fuse_session_destroy).
THEOREM SessionInvariance == SessionSpec => []SessionInv
<1>1. SessionInit => SessionInv
  <2> SUFFICES ASSUME SessionInit PROVE SessionInv
    OBVIOUS
  <2>1. spc = "new" /\ owned = {} /\ se = NewSession /\ inits = 0 /\ destroys = 0 /\ initout.kind = "none"
    BY DEF SessionInit, NoAnswer
  <2>2. /\ se.got_init = FALSE /\ se.got_destroy = FALSE /\ se.max_write = NoLimit
        /\ se.bufsize = MaxMaxPages * Page + Header
    BY <2>1 DEF NewSession
  <2>3. CallsInv
    BY <2>1, <2>2 DEF CallsInv
  <2>4. spc \in DOMAIN OwnedAt /\ owned = OwnedAt[spc]
    BY <2>1 DEF OwnedAt
  <2> QED BY Zenon, <2>1, <2>2, <2>3, <2>4 DEF SessionInv, WritesFit
<1>2. SessionInv /\ [SessionNext]_sessionVars => SessionInv'
  BY SessionStep
<1> QED BY <1>1, <1>2, PTL DEF SessionSpec

\* When main ends, by whatever path, nothing is left over, and destroy was called exactly if init was
\* (fuse_session_destroy, do_destroy).
THEOREM EndsClean == SessionSpec => []CleanEnd
<1>1. SessionInv => CleanEnd
  BY DEF SessionInv, CallsInv, CleanEnd, OwnedAt
<1> QED BY <1>1, SessionInvariance, PTL

\* After INIT the receive buffer holds the largest write the kernel may send, for any page size, limits
\* and kernel (do_init).
THEOREM BuffersHoldWrites == SessionSpec => []WritesFit
<1>1. SessionInv => WritesFit
  BY DEF SessionInv
<1> QED BY <1>1, SessionInvariance, PTL
=============================================================================
