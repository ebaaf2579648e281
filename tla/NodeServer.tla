----------------------------- MODULE NodeServer -----------------------------
(***************************************************************************)
(* The CSI node server of one node (csi/pkg/f3/nodeserver.go), for one     *)
(* volume: it starts the FUSE driver when the volume is first published,   *)
(* counts the targets it is published at, and kills the driver when the    *)
(* count is back at zero.  Volumes share nothing but the lock.             *)
(*                                                                         *)
(* The calls come from the kubelet, which is not part of the repository:   *)
(* it makes one call at a time for a target, calls again after an error or *)
(* when the answer is lost, and may give up a publish that failed: after   *)
(* codes.Internal by itself, after codes.Unavailable, which leaves open    *)
(* whether the volume is published, with an unpublish.                     *)
(***************************************************************************)
EXTENDS Integers, Sequences, FiniteSets

CONSTANTS
    Targets,    \* the target paths, one per pod that uses the volume
    MaxCount,   \* bound: publishes stop when the count is MaxCount, and
                \* failing unpublishes count no further down than -MaxCount
    MaxFailures,\* bound: things that go wrong in a behaviour
    Failures    \* what may go wrong: Ceph is not "mounted" yet, "start" and
                \* "bind" commands fail, the driver "exit"s, an "answer" to
                \* the kubelet is lost

ASSUME NodeAssumption ==
    IsFiniteSet(Targets) /\ MaxCount \in Nat /\ MaxFailures \in Nat

VARIABLES
    entry,     \* fuseProcs has an entry for the volume
    count,     \* fuseProcsCount of the volume, 0 when it has no entry
    running,   \* the process of that entry runs
    waited,    \* cmd.Wait has returned for it
    target,    \* target[t]: where the calls for t are; "bind", "umount": in a call,
               \* the lock released; "failed", "stuck": the last publish,
               \* unpublish returned an error; "waiting": the last publish
               \* returned Unavailable; "again": the answer was lost
    failures   \* what went wrong so far

vars == <<entry, count, running, waited, target, failures>>

Init ==
    /\ entry = FALSE /\ running = FALSE /\ waited = FALSE
    /\ count = 0
    /\ target = [t \in Targets |-> "absent"]
    /\ failures = <<>>

\* A step in which something outside the code under test goes wrong.
Failure(kind) ==
    kind \in Failures /\ Len(failures) < MaxFailures /\ failures' = Append(failures, kind)

ToPublish(t) == target[t] \in {"absent", "failed", "waiting"}
ToUnpublish(t) == target[t] \in {"published", "stuck", "again", "waiting"}

Move(t, state) == target' = [target EXCEPT ![t] = state]

-----------------------------------------------------------------------------
\* NodePublishVolume before the pod's Ceph volume is mounted: "Gotta wait".
NotMounted(t) ==
    /\ ToPublish(t)
    /\ Failure("mounted")
    /\ Move(t, "waiting")
    /\ UNCHANGED <<entry, count, running, waited>>

\* Bug: a volume that is published already is not counted.
PublishOnce(t) ==
    /\ ToPublish(t) /\ count < MaxCount
    /\ IF entry THEN UNCHANGED <<entry, count, running, waited>>
       ELSE entry' = TRUE /\ running' = TRUE /\ waited' = FALSE /\ count' = 1
    /\ Move(t, "bind")
    /\ UNCHANGED failures

\* NodePublishVolume under the lock: the driver is started if there is no entry
\* for the volume, and the target is counted.
Publish(t) ==
    /\ ToPublish(t) /\ count < MaxCount
    /\ IF entry THEN UNCHANGED <<entry, running, waited>>
       ELSE entry' = TRUE /\ running' = TRUE /\ waited' = FALSE
    /\ count' = IF entry THEN count + 1 ELSE 1
    /\ Move(t, "bind")
    /\ UNCHANGED failures

\* The driver cannot be started: nothing is entered.
PublishFails(t) ==
    /\ ToPublish(t) /\ ~entry
    /\ Failure("start")
    /\ Move(t, "failed")
    /\ UNCHANGED <<entry, count, running, waited>>

\* The bind mount that follows.  When it fails the count stays as it is.
Bind(t) ==
    /\ target[t] = "bind"
    /\ \/ Move(t, "published") /\ UNCHANGED failures
       \/ Move(t, "failed") /\ Failure("bind")
    /\ UNCHANGED <<entry, count, running, waited>>

\* The pod is deleted after a publish that failed.
GiveUp(t) ==
    /\ target[t] = "failed"
    /\ Move(t, "absent")
    /\ UNCHANGED <<entry, count, running, waited, failures>>

\* Process.Kill of a process that was waited for returns "os: process already
\* finished", which is not the text the code looks for.
KillFails == waited

\* NodeUnpublishVolume under the lock: the target is not counted any more; the
\* last one kills the driver and removes the entry, and when the kill fails the
\* call ends with an error.
UnpublishWhen(t, last) ==
    /\ ToUnpublish(t)
    /\ IF last /\ KillFails
       THEN /\ count' = IF count > -MaxCount THEN count - 1 ELSE count
            /\ Move(t, "stuck")
            /\ UNCHANGED <<entry, running, waited>>
       ELSE /\ count' = IF entry /\ ~last THEN count - 1 ELSE 0
            /\ entry' = (entry /\ ~last)
            /\ running' = (running /\ ~last)
            /\ waited' = (waited /\ ~last)
            /\ Move(t, "umount")
    /\ UNCHANGED failures

\* Bugs: the driver is killed when one target is left, or only by one more call.
UnpublishEarly(t) == UnpublishWhen(t, entry /\ count <= 2)
UnpublishLate(t) == UnpublishWhen(t, entry /\ count <= 0)

\* The decremented count is compared with zero.
Unpublish(t) == UnpublishWhen(t, entry /\ count <= 1)

\* The umount that follows, whose errors are ignored, and the answer.
Umount(t) ==
    /\ target[t] = "umount"
    /\ \/ Move(t, "absent") /\ UNCHANGED failures
       \/ Move(t, "again") /\ Failure("answer")
    /\ UNCHANGED <<entry, count, running, waited>>

\* The driver exits by itself; the goroutine that waits for it only logs it.
DriverExits ==
    /\ Failure("exit")
    /\ running
    /\ running' = FALSE
    /\ UNCHANGED <<entry, count, waited, target>>

Wait ==
    /\ entry /\ ~running /\ ~waited
    /\ waited' = TRUE
    /\ UNCHANGED <<entry, count, running, target, failures>>
-----------------------------------------------------------------------------
Next ==
    \/ \E t \in Targets :
         \/ NotMounted(t) \/ Publish(t) \/ PublishFails(t) \/ Bind(t) \/ GiveUp(t)
         \/ Unpublish(t) \/ Umount(t)
    \/ DriverExits \/ Wait

Spec == Init /\ [][Next]_vars

\* The targets whose pods use the volume, or are about to.
PodsTargets == {t \in Targets : target[t] \in {"bind", "published"}}

Never(kinds) == \A i \in DOMAIN failures : failures[i] \notin kinds

\* The driver of a volume in use is not killed: starts and bind mounts that fail
\* and are retried, and drivers that exit, never make the count too low.  An
\* unpublish made for a "waiting" target, or made twice, does.
DriverKept == Never({"mounted", "answer"}) => (PodsTargets # {} => entry)

\* With the same failures, as long as the driver has not exited, every target in
\* use is counted.
CountCovers == Never({"mounted", "answer"}) => (entry /\ ~waited => count >= Cardinality(PodsTargets))

\* When no pod uses the volume its driver has been killed: "save the pid of the
\* driver process so we can kill it on Unpublish".
IdleMeansStopped == (\A t \in Targets : target[t] = "absent") => ~running

\* That is so if no bind mount has failed: only the error return behind the bind mount
\* leaves a target counted that is not published.
StoppedIfBound == Never({"bind"}) => IdleMeansStopped
=============================================================================
