----------------------------- MODULE StressTests -----------------------------
(***************************************************************************)
(* The storage stress tests, pkg/testkit/stress-tests.go, and the waits of *)
(* pkg/kubernetes they are made of.  A run is a sequence of stages: groups *)
(* of goroutines that create, resize or delete, each joined before the     *)
(* next stage, and polls that count what carries a label.  Objects outlive *)
(* the run that made them.                                                 *)
(*                                                                         *)
(* Names are sequences of their parts, so "pvc-test-1-restore-2" is        *)
(* <<"test", "1", "restore", "2">>; a pod is called like its claim.        *)
(***************************************************************************)
EXTENDS Integers, FiniteSets, Sequences, SequencesExt, Functions

CONSTANTS
    Indexes,      \* 1 .. PodsCount, as parts of names
    Snapshots,    \* 1 .. SnapshotsPerPVC
    Configs,      \* the configurations tests use: mode, order, resize, cleanup
    MaxAttempts,  \* Config.MaxAttempts
    MaxFaults,    \* bound: calls that fail, processes that die, pods that fail
    MaxRuns       \* bound: runs in a behaviour

ASSUME StressBounds == /\ "1" \in Indexes /\ "1" \in Snapshots
                       /\ MaxAttempts \in Nat /\ MaxFaults \in Nat /\ MaxRuns \in Nat

VARIABLES
    inDefault,  \* Config.Namespace is "default"
    ns,         \* the namespace: absent, active, terminating
    labelled,   \* it has the label load-test=true
    claims,     \* PersistentVolumeClaims, by name
    pods,       \* Pods, by name
    snaps,      \* VolumeSnapshots, by name
    config,     \* the configuration of the current run
    at,         \* the stage it is in; 0: no run
    todo,       \* goroutines of the stage that are not through
    failed,     \* one of them has put an error into errChan
    attempt,    \* polls counted in the stage
    ctxDone,    \* the run's context has ended
    runs,       \* runs so far
    faults,     \* faults so far
    calm,       \* history: no fault since the run began
    start,      \* history: what was in the namespace when it began: nothing (clean),
                \* leftovers, or leftovers that were being deleted (dying)
    last,       \* history: how the last run ended; unjust is failing with nothing wrong
    hollow      \* history: a run passed its checks without all its pods

objects == <<ns, labelled, claims, pods, snaps>>
runner == <<config, at, todo, failed, attempt, ctxDone>>
counts == <<runs, faults>>
history == <<calm, start, last, hollow>>
vars == <<inDefault, objects, runner, counts, history>>

\* Config.PVCSize, PVCSizeAfterResize, PVCSizeAfterResizeStage2.
PVCSize == 1
PVCSizeAfterResize == 2
PVCSizeAfterResizeStage2 == 3

Test(k) == <<"test", k>>
Clone(k) == <<"test", k, "clone">>
Restore(k, s) == <<"test", k, "restore", s>>
Snap(k, s) == <<"snapshot", k, s>>

\* A label selector: load-test=true, alone or with load-test-role.
Selects(role, o) == role = "any" \/ o.role = role

NoSource == <<>>

---------------------------------------------------------------------------
(* What a goroutine creates: a claim (unless it is there already) and a    *)
(* pod, which is to stay Running or to run to its end.                     *)

PodAndPVC(c, p, role, source, phase) ==
    [calls |-> <<"claim", "pod">>, claim |-> c, pod |-> p, role |-> role,
     source |-> source, sizeOf |-> NoSource, phase |-> phase]

createOriginalPodAndPVC(k) == PodAndPVC(Test(k), Test(k), "original", NoSource, "Running")

createFlogPodAndPVC(c, p, role, createPVC) ==
    [PodAndPVC(c, p, role, NoSource, "Running") EXCEPT
        !.calls = IF createPVC THEN @ ELSE <<"pod">>]

createCheckFSPodAndPVC(k) == PodAndPVC(Test(k), Test(k), "", NoSource, "Succeeded")

createCloneCheckPodAndPVC(k, source) == PodAndPVC(Test(k), Test(k), "", source, "Succeeded")

createRestoreCheckPodAndPVC(k, snap) ==
    [PodAndPVC(Test(k), Test(k), "", snap, "Succeeded") EXCEPT !.sizeOf = snap]

\* The size is read from the original claim before: nothing resizes it then.
createRestorePodAndPVC(k, s) ==
    [PodAndPVC(Restore(k, s), Restore(k, s), "restore", Snap(k, s), "Succeeded")
        EXCEPT !.sizeOf = Test(k)]

createClonePodAndPVC(k) ==
    [PodAndPVC(Clone(k), Clone(k), "clone", Test(k), "Succeeded") EXCEPT !.sizeOf = Test(k)]

createVolumeSnapshot(k, s) == [calls |-> <<"snapshot">>, snap |-> Snap(k, s), source |-> Test(k)]

\* The goroutines for the claims that the steps have made: their role and
\* what is waited for are both told from the name.
IsRestore(c) == Last(c) = "restore"
\* Mutant: the suffix is compared with a part of the name that is too long.
IsCloneLong(c) == c = <<"clone">>
IsClone(c) == Last(c) = "clone"

flogPod(c) == createFlogPodAndPVC(c, Append(c, "flog"),
                 IF IsRestore(c) THEN "restore-flog" ELSE "clone-flog", FALSE)

---------------------------------------------------------------------------
(* Stages.                                                                 *)

Group(tasks) == [op |-> "group", tasks |-> tasks]
WaitForPVCsBound(role, n) == [op |-> "bound", role |-> role, want |-> n]
\* Mutant: one pod less is enough.
WaitForPodsStatusShort(role, phase, n) == [op |-> "pods", role |-> role, phase |-> phase, want |-> n - 1]
WaitForPodsStatus(role, phase, n) == [op |-> "pods", role |-> role, phase |-> phase, want |-> n]
WaitForPVCsResized(cs, size) == [op |-> "resized", claims |-> cs, size |-> size]
SnapshotsReady == [op |-> "ready", want |-> Cardinality(Indexes) * Cardinality(Snapshots)]

ResizeList(cs, size) == Group({[calls |-> <<"patch">>, claim |-> c, size |-> size] : c \in cs})

Resized(cs, size) == <<ResizeList(cs, size), WaitForPVCsResized(cs, size)>>

\* n goroutines make a claim and a pod each; both kinds of object are waited for.
Created(tasks, role, phase) ==
    <<Group(tasks), WaitForPVCsBound(role, Cardinality(tasks)),
      WaitForPodsStatus(role, phase, Cardinality(tasks))>>

Originals == {Test(k) : k \in Indexes}
createVolumeSnapshots == Group({createVolumeSnapshot(k, s) : k \in Indexes, s \in Snapshots})

runFlogMode(c) ==
    Created({createFlogPodAndPVC(Test(k), Test(k), "", TRUE) : k \in Indexes}, "any", "Running")
    \o (IF c.resize THEN Resized(Originals, PVCSizeAfterResize) ELSE <<>>)

runCheckFSOnlyMode ==
    Created({createCheckFSPodAndPVC(k) : k \in Indexes}, "any", "Succeeded")

runCheckCloningMode ==
    Created({createCloneCheckPodAndPVC(k, Test("1")) : k \in Indexes}, "any", "Succeeded")

runCheckRestoringFromSnapshotMode ==
    <<Group({[calls |-> <<"getSnapshot">>, snap |-> Snap("1", "1")]})>>
    \o Created({createRestoreCheckPodAndPVC(k, Snap("1", "1")) : k \in Indexes}, "any", "Succeeded")

createOriginals ==
    Created({createOriginalPodAndPVC(k) : k \in Indexes}, "original", "Running")

runSnapshotOnlyMode == createOriginals \o <<createVolumeSnapshots, SnapshotsReady>>

executeRestoreFromSnapshotStep ==
    <<createVolumeSnapshots, SnapshotsReady>>
    \o Created({createRestorePodAndPVC(k, s) : k \in Indexes, s \in Snapshots}, "restore", "Succeeded")

executeCloneStep == Created({createClonePodAndPVC(k) : k \in Indexes}, "clone", "Succeeded")

executeStage2(cs) ==
    LET n == Cardinality({c \in cs : IsClone(c)})
        m == Cardinality(cs) - n
    IN <<Group({flogPod(c) : c \in cs})>>
       \o (IF n > 0 THEN <<WaitForPodsStatus("clone-flog", "Running", n)>> ELSE <<>>)
       \o (IF m > 0 THEN <<WaitForPodsStatus("restore-flog", "Running", m)>> ELSE <<>>)
       \o Resized(cs, PVCSizeAfterResizeStage2)

Stage2Claims(order) ==
    UNION {CASE step = "clone" -> {Clone(k) : k \in Indexes}
             [] step = "restore_from_snapshot" -> {Restore(k, s) : k \in Indexes, s \in Snapshots}
             [] step = "resize" -> {} : step \in ToSet(order)}

runSnapshotResizeCloningMode(order) ==
    createOriginals
    \o FlattenSeq([i \in DOMAIN order |->
           CASE order[i] = "restore_from_snapshot" -> executeRestoreFromSnapshotStep
             [] order[i] = "resize" -> Resized(Originals, PVCSizeAfterResize)
             [] order[i] = "clone" -> executeCloneStep])
    \o (IF Stage2Claims(order) # {} THEN executeStage2(Stage2Claims(order)) ELSE <<>>)

\* Run, after the namespace is there.
Stages == [c \in Configs |->
    CASE c.mode = "flog" -> runFlogMode(c)
      [] c.mode = "check_fs_only" -> runCheckFSOnlyMode
      [] c.mode = "check_cloning" -> runCheckCloningMode
      [] c.mode = "check_restoring_from_snapshot" -> runCheckRestoringFromSnapshotMode
      [] c.mode = "snapshot_only" -> runSnapshotOnlyMode
      [] c.mode = "snapshot_resize_cloning" -> runSnapshotResizeCloningMode(c.order)]

\* A run has stages, and an end.
ASSUME StagesAssumption == \A c \in Configs : Len(Stages[c]) \in Nat \ {0}

Steps == {"restore_from_snapshot", "resize", "clone"}

\* The sizes for stage 2 have a default; the one for resize may be missing.
Validate(c) ==
    c.mode = "snapshot_resize_cloning" =>
        /\ ToSet(c.order) \subseteq Steps
        /\ "resize" \in ToSet(c.order) => c.resize

Call(name) == Group({[calls |-> <<name>>]})

\* Mutant: the snapshots are forgotten.
cleanupNoSnapshots ==
    <<Call("deletePods"), Call("deleteClaims"), [op |-> "gone"]>>
    \o (IF inDefault THEN <<>> ELSE <<Call("deleteNamespace")>>)

\* The snapshots to delete are listed when the stage is entered.
cleanup ==
    <<Call("deletePods"), Call("deleteClaims"), [op |-> "deleteSnapshots"], [op |-> "gone"]>>
    \o (IF inDefault THEN <<>> ELSE <<Call("deleteNamespace")>>)

Length == Len(Stages[config]) + (IF config.cleanup THEN Len(cleanup) ELSE 0)
StageAt(i) == IF i <= Len(Stages[config]) THEN Stages[config][i] ELSE cleanup[i - Len(Stages[config])]
Stage == StageAt(at)

---------------------------------------------------------------------------
(* The runner.                                                             *)

Empty == [n \in {} |-> {}]
Put(f, n, o) == [m \in DOMAIN f \cup {n} |-> IF m = n THEN o ELSE f[m]]
Marked(f) == [n \in DOMAIN f |-> [f[n] EXCEPT !.deleted = TRUE]]

Init ==
    /\ inDefault \in BOOLEAN
    /\ ns = IF inDefault THEN "active" ELSE "absent"
    /\ labelled = FALSE
    /\ claims = Empty /\ pods = Empty /\ snaps = Empty
    /\ config = (CHOOSE c \in Configs : TRUE) /\ at = 0 /\ todo = {} /\ failed = FALSE /\ attempt = 0
    /\ ctxDone = FALSE
    /\ runs = 0 /\ faults = 0
    /\ calm = TRUE /\ start = "clean" /\ last = "none" /\ hollow = FALSE

Fault == faults < MaxFaults /\ faults' = faults + 1 /\ calm' = FALSE
NoFault == UNCHANGED <<faults, calm>>

Dying ==
    \/ ns = "terminating"
    \/ \E c \in DOMAIN claims : claims[c].deleted
    \/ \E p \in DOMAIN pods : pods[p].deleted
    \/ \E x \in DOMAIN snaps : snaps[x].deleted

\* Everything that is there has come to rest.
Source(n) == IF n \in DOMAIN claims THEN claims[n].cap
             ELSE IF n \in DOMAIN snaps /\ snaps[n].ready THEN snaps[n].size ELSE 0
CanBind(c) == /\ claims[c].cap = 0 /\ ~ claims[c].deleted
              /\ claims[c].source # NoSource => Source(claims[c].source) \in 1 .. claims[c].size
CanGrow(c) == claims[c].cap \in 1 .. claims[c].size - 1
CanRun(p) == /\ pods[p].phase = "Pending" /\ ~ pods[p].deleted
             /\ pods[p].claim \in DOMAIN claims /\ claims[pods[p].claim].cap > 0
CanSnap(x) == ~ snaps[x].ready /\ Source(snaps[x].source) > 0
Settled ==
    /\ ~ Dying
    /\ \A c \in DOMAIN claims : ~ CanBind(c) /\ ~ CanGrow(c)
    /\ \A p \in DOMAIN pods : ~ CanRun(p)
    /\ \A x \in DOMAIN snaps : ~ CanSnap(x)

Return(r) ==
    /\ at' = 0 /\ todo' = {} /\ failed' = FALSE /\ attempt' = 0 /\ ctxDone' = FALSE
    /\ last' = IF r = "err" /\ calm' /\ start = "clean" /\ Settled THEN "unjust" ELSE r
    /\ UNCHANGED config

\* The checks of the run are through: were all of its pods among those it counted?
Checked ==
    \A i \in DOMAIN Stages[config] :
        LET stage == Stages[config][i] IN
        stage.op = "group" =>
            \A t \in stage.tasks :
                "pod" \in ToSet(t.calls) =>
                    /\ t.pod \in DOMAIN pods
                    /\ pods[t.pod].run = runs /\ pods[t.pod].reached

\* The goroutines of a stage when it begins.
Tasks(stage) ==
    CASE stage.op = "group" -> stage.tasks
      [] stage.op = "deleteSnapshots" -> {[calls |-> <<"deleteSnapshot">>, snap |-> x] : x \in DOMAIN snaps}
      [] OTHER -> {}

\* On to the next stage, or the end.
Proceed ==
    /\ hollow' = (hollow \/ (at = Len(Stages[config]) /\ start # "dying" /\ ~ Checked))
    /\ IF at = Length
       THEN Return("ok")
       ELSE /\ at' = at + 1
            /\ todo' = Tasks(StageAt(at + 1))
            /\ failed' = FALSE /\ attempt' = 0
            /\ UNCHANGED <<config, ctxDone, last>>

Err == Return("err") /\ UNCHANGED hollow

\* Run: the configuration is checked, the namespace created unless it is there
\* (one that is terminating is there) and labelled; a label that cannot be set
\* is only logged.
Run(c) ==
    /\ at = 0 /\ runs < MaxRuns
    /\ runs' = runs + 1 /\ config' = c
    /\ start' = CASE Dying -> "dying"
                  [] ~ Dying /\ DOMAIN claims \cup DOMAIN pods \cup DOMAIN snaps = {} -> "clean"
                  [] OTHER -> "leftovers"
    /\ IF Validate(c)
       THEN /\ ns' = IF ns = "absent" THEN "active" ELSE ns
            /\ \/ labelled' = TRUE /\ calm' = TRUE /\ UNCHANGED faults
               \/ Fault /\ UNCHANGED labelled
            /\ at' = 1 /\ todo' = Tasks(Stages[c][1])
            /\ last' = "none"
       ELSE /\ last' = "err" /\ calm' = TRUE
            /\ UNCHANGED <<ns, labelled, at, todo, faults>>
    /\ UNCHANGED <<inDefault, claims, pods, snaps, failed, attempt, ctxDone, hollow>>

\* The namespace can be neither found nor created.
RunFails(c) ==
    /\ at = 0 /\ runs < MaxRuns
    /\ runs' = runs + 1 /\ config' = c /\ last' = "err"
    /\ Fault
    /\ UNCHANGED <<inDefault, objects, at, todo, failed, attempt, ctxDone, start, hollow>>

\* The API server's refusals.
Refused(t) ==
    CASE Head(t.calls) = "claim" -> \/ ns # "active" \/ t.claim \in DOMAIN claims
                                    \/ t.sizeOf # NoSource /\ t.sizeOf \notin DOMAIN claims \cup DOMAIN snaps
      [] Head(t.calls) = "pod" -> ns # "active" \/ t.pod \in DOMAIN pods
      [] Head(t.calls) = "snapshot" -> ns # "active" \/ t.snap \in DOMAIN snaps
      [] Head(t.calls) = "patch" -> t.claim \notin DOMAIN claims \/ claims[t.claim].size > t.size
      [] Head(t.calls) \in {"getSnapshot", "deleteSnapshot"} -> t.snap \notin DOMAIN snaps
      [] Head(t.calls) = "deleteNamespace" -> ns = "absent"
      [] OTHER -> FALSE

\* A size that is not known yet is the configured one.
SizeFor(t) == IF t.sizeOf = NoSource \/ Source(t.sizeOf) = 0 THEN PVCSize ELSE Source(t.sizeOf)

\* A call that is served.
Serve(t) ==
    LET call == Head(t.calls) IN
    /\ claims' = CASE call = "claim" -> Put(claims, t.claim,
                            [role |-> t.role, size |-> SizeFor(t), cap |-> 0, source |-> t.source,
                             deleted |-> FALSE])
                   [] call = "patch" -> [claims EXCEPT ![t.claim].size = t.size]
                   [] call = "deleteClaims" -> Marked(claims)
                   [] OTHER -> claims
    /\ pods' = CASE call = "pod" -> Put(pods, t.pod,
                            [role |-> t.role, phase |-> "Pending", to |-> t.phase, claim |-> t.claim,
                             run |-> runs, reached |-> FALSE, deleted |-> FALSE])
                 [] call = "deletePods" -> Marked(pods)
                 [] OTHER -> pods
    /\ snaps' = CASE call = "snapshot" -> Put(snaps, t.snap,
                            [source |-> t.source, ready |-> FALSE, size |-> 0, deleted |-> FALSE])
                  [] call = "deleteSnapshot" -> [snaps EXCEPT ![t.snap].deleted = TRUE]
                  [] OTHER -> snaps
    /\ ns' = IF call = "deleteNamespace" THEN "terminating" ELSE ns

\* A goroutine makes its next call.  An error ends it.
Step(t) ==
    /\ t \in todo
    /\ \/ /\ ~ ctxDone /\ ~ Refused(t)
          /\ Serve(t) /\ NoFault
          /\ todo' = (todo \ {t}) \cup {[t EXCEPT !.calls = Tail(@)] : u \in {v \in {t} : Len(v.calls) > 1}}
          /\ UNCHANGED failed
       \/ /\ ctxDone \/ Refused(t)
          /\ failed' = TRUE /\ todo' = todo \ {t}
          /\ UNCHANGED <<ns, claims, pods, snaps>> /\ NoFault
       \/ /\ Fault
          /\ ~ ctxDone /\ ~ Refused(t)
          /\ failed' = TRUE /\ todo' = todo \ {t}
          /\ Serve(t) \/ UNCHANGED <<ns, claims, pods, snaps>>
    /\ UNCHANGED <<inDefault, labelled, config, at, attempt, ctxDone, runs, start, last, hollow>>

\* wg.Wait, and the errors.
Join ==
    /\ at # 0 /\ Stage.op \in {"group", "deleteSnapshots"} /\ todo = {}
    /\ NoFault
    /\ IF failed THEN Err ELSE Proceed
    /\ UNCHANGED <<inDefault, objects, runs, start>>

---------------------------------------------------------------------------
(* The polls.                                                              *)

\* One more attempt, unless it was the last one.
Again(counted, guarded) ==
    LET n == attempt + (IF counted THEN 1 ELSE 0) IN
    IF (guarded => MaxAttempts > 0) /\ n >= MaxAttempts
    THEN Err
    ELSE attempt' = n /\ UNCHANGED <<config, at, todo, failed, ctxDone, last, hollow>>

Bound(role) == Cardinality({c \in DOMAIN claims : Selects(role, claims[c]) /\ claims[c].cap > 0})
HavePhase(role, phase) ==
    Cardinality({p \in DOMAIN pods : Selects(role, pods[p]) /\ pods[p].phase = phase})
Ready == Cardinality({x \in DOMAIN snaps : snaps[x].ready})
HaveSize(cs, size) == Cardinality({c \in cs : c \in DOMAIN claims /\ claims[c].cap = size})

\* Attempts without a bound claim are not counted.
PollBound == IF Bound(Stage.role) >= Stage.want THEN Proceed ELSE Again(Bound(Stage.role) > 0, TRUE)

\* Mutant: attempts count once a pod is there, as they do for claims.
PollPodsUncounted ==
    IF HavePhase(Stage.role, Stage.phase) >= Stage.want THEN Proceed
    ELSE Again(HavePhase(Stage.role, Stage.phase) > 0, TRUE)

\* More than a tenth of the pods have failed: give up.
PollPods ==
    LET bad == HavePhase(Stage.role, "Failed") IN
    IF HavePhase(Stage.role, Stage.phase) >= Stage.want THEN Proceed
    ELSE IF bad > 0 /\ bad > Stage.want \div 10 THEN Err
    ELSE Again(TRUE, TRUE)

\* The copy of this loop in snapshot_only takes MaxAttempts = 0 for a limit.
PollReady == IF Ready >= Stage.want THEN Proceed ELSE Again(TRUE, config.mode # "snapshot_only")

PollResized ==
    IF \E c \in Stage.claims : c \notin DOMAIN claims THEN Err
    ELSE LET n == HaveSize(Stage.claims, Stage.size) IN
         IF n = Cardinality(Stage.claims) THEN Proceed ELSE Again(n > 0, TRUE)

PollGone == IF claims = Empty THEN Proceed ELSE Again(TRUE, TRUE)

\* A poll whose call fails ends the run; in cleanup it ends the wait.
PollFails == IF Stage.op = "gone" THEN Proceed ELSE Err

Poll ==
    /\ at # 0 /\ Stage.op \in {"bound", "pods", "ready", "resized", "gone"}
    /\ \/ /\ ~ ctxDone /\ NoFault
          /\ CASE Stage.op = "bound" -> PollBound
               [] Stage.op = "pods" -> PollPods
               [] Stage.op = "ready" -> PollReady
               [] Stage.op = "resized" -> PollResized
               [] Stage.op = "gone" -> PollGone
       \/ ctxDone /\ NoFault /\ PollFails
       \/ ~ ctxDone /\ Fault /\ PollFails
    /\ UNCHANGED <<inDefault, objects, runs, start>>

---------------------------------------------------------------------------
(* The world.                                                              *)

CtxEnds ==
    /\ at # 0 /\ ~ ctxDone /\ ctxDone' = TRUE
    /\ Fault
    /\ UNCHANGED <<inDefault, objects, config, at, todo, failed, attempt, runs, start, last, hollow>>

Killed ==
    /\ at # 0
    /\ Fault
    /\ Return("killed")
    /\ UNCHANGED <<inDefault, objects, runs, start, hollow>>

\* Called when the tests of the suite have passed.
CleanupStressNamespaces ==
    /\ at = 0 /\ last = "ok"
    /\ labelled /\ ~ inDefault /\ ns = "active"
    /\ ns' = "terminating"
    /\ UNCHANGED <<inDefault, labelled, claims, pods, snaps, runner, counts, history>>

Storage ==
    /\ \/ \E c \in DOMAIN claims :
            /\ CanBind(c) \/ CanGrow(c)
            /\ claims' = [claims EXCEPT ![c].cap = claims[c].size]
            /\ UNCHANGED <<ns, labelled, pods, snaps>>
       \/ \E x \in DOMAIN snaps :
            /\ CanSnap(x)
            /\ snaps' = [snaps EXCEPT ![x].ready = TRUE, ![x].size = Source(snaps[x].source)]
            /\ UNCHANGED <<ns, labelled, claims, pods>>
       \/ \E p \in DOMAIN pods :
            /\ CanRun(p)
            /\ pods' = [pods EXCEPT ![p].phase = pods[p].to, ![p].reached = TRUE]
            /\ UNCHANGED <<ns, labelled, claims, snaps>>
    /\ UNCHANGED <<inDefault, runner, counts, history>>

PodFails(p) ==
    /\ pods[p].phase \in {"Pending", "Running"}
    /\ Fault
    /\ pods' = [pods EXCEPT ![p].phase = "Failed"]
    /\ UNCHANGED <<inDefault, ns, labelled, claims, snaps, runner, runs, start, last, hollow>>

\* Deleted objects go, those of a role together; a claim stays while a pod uses it.
Without(f, S) == [n \in DOMAIN f \ S |-> f[n]]
InUse(c) == \E p \in DOMAIN pods : pods[p].claim = c

Collect ==
    /\ Dying
    /\ \/ \E r \in {pods[p].role : p \in DOMAIN pods} :
            /\ pods' = Without(pods, {p \in DOMAIN pods : pods[p].deleted /\ pods[p].role = r})
            /\ UNCHANGED <<ns, labelled, claims, snaps>>
       \/ \E r \in {claims[c].role : c \in DOMAIN claims} :
            /\ claims' = Without(claims, {c \in DOMAIN claims :
                              claims[c].deleted /\ claims[c].role = r /\ ~ InUse(c)})
            /\ UNCHANGED <<ns, labelled, pods, snaps>>
       \/ /\ snaps' = Without(snaps, {x \in DOMAIN snaps : snaps[x].deleted})
          /\ UNCHANGED <<ns, labelled, claims, pods>>
       \/ /\ ns = "terminating" /\ ns' = "absent"
          /\ labelled' = FALSE /\ claims' = Empty /\ pods' = Empty /\ snaps' = Empty
    /\ UNCHANGED <<inDefault, runner, counts, history>>

Next ==
    \/ \E c \in Configs : Run(c) \/ RunFails(c)
    \/ \E t \in todo : Step(t)
    \/ Join \/ Poll \/ CtxEnds \/ Killed \/ CleanupStressNamespaces
    \/ Storage \/ Collect
    \/ \E p \in DOMAIN pods : PodFails(p)

Spec == Init /\ [][Next]_vars

\* The runner's goroutines go on; nothing is assumed of the storage.
FairSpec == Spec /\ WF_vars(Join \/ Poll \/ \E t \in todo : Step(t))

---------------------------------------------------------------------------

\* Run only returns nil after each pod that it created itself has reached the phase
\* it was waited for in, although WaitForPodsStatus counts whatever carries the
\* label: also pods that an earlier run left behind, which failed, was killed or
\* ran without Cleanup.  (Objects that are still being deleted when the run
\* begins are an exception: those of another mode have the label and other names,
\* and are counted.)
PassMeansChecked == ~ hollow

\* A Run with Cleanup that returns nil leaves nothing but objects that are being
\* deleted, and in a namespace of its own not even that: in particular the
\* PVCs that cleanup takes for gone when it cannot list them.
CleanRunLeavesNothing ==
    at = 0 /\ last = "ok" /\ config.cleanup =>
        /\ \A c \in DOMAIN claims : claims[c].deleted
        /\ \A p \in DOMAIN pods : pods[p].deleted
        /\ \A x \in DOMAIN snaps : snaps[x].deleted
        /\ ~ inDefault => ns # "active"

\* Storage that does all its work and an API server that answers make every Run
\* pass that begins in an empty namespace: whatever the mode waits for is there
\* once nothing moves any more.
HealthyRunPasses == last # "unjust"

\* The same for the modes and orders of steps that can pass at all.  check_cloning
\* clones pvc-test-1 from itself, check_restoring_from_snapshot needs a snapshot that
\* nobody makes, a step that is repeated creates its objects twice, and
\* executeStage2 waits in vain for the pods of restored claims.
SoundModesPass ==
    last = "unjust" =>
        \/ config.mode \in {"check_cloning", "check_restoring_from_snapshot"}
        \/ "restore_from_snapshot" \in ToSet(config.order)
        \/ ~ IsInjective(config.order)

\* Waiting for a first claim to be bound or resized: no attempt is counted.
Starved == /\ at # 0
           /\ \/ Stage.op = "bound" /\ Bound(Stage.role) = 0
              \/ Stage.op = "resized" /\ HaveSize(Stage.claims, Stage.size) = 0

\* Run returns, whatever the storage does, since MaxAttempts bounds every wait:
\* except for WaitForPVCsBound and WaitForPVCsResized while no claim is bound or
\* resized, which go on until the context ends.
RunReturns == <>[]Starved \/ (at # 0 ~> at = 0)

==============================================================================
