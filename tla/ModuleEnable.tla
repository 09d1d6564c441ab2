----------------------------- MODULE ModuleEnable -----------------------------
(***************************************************************************)
(* Enabling the modules of a cluster definition: enableModulesInLevels of  *)
(* internal/provisioning/dvp/modules.go, and EnableAndConfigureModules of  *)
(* pkg/kubernetes/modules.go (legacy; also used by Commander).  The        *)
(* modules are sorted into levels; the modules of a level are configured   *)
(* by parallel goroutines (ModuleConfig, then ModulePullOverride, each Get *)
(* followed by Create or Update and retried), then all of them are waited  *)
(* for, then comes the next level.                                         *)
(*                                                                         *)
(* The phase of a Module is Deckhouse's business: a poll of                *)
(* WaitForModuleReady finds Ready or does not.                             *)
(***************************************************************************)
EXTENDS Naturals, Sequences, FiniteSets

CONSTANTS
    Modules,      \* the modules of the cluster definition
    Names,        \* names a dependency may mention
    DevRegistry,  \* does registryRepo start with "dev-"?
    MaxRetries,   \* retries of one upsert
    MaxFaults     \* bound: calls that fail in a behaviour

ASSUME ModulesAssumption == IsFiniteSet(Modules) /\ Modules \subseteq Names
ASSUME EnableBounds == /\ DevRegistry \in BOOLEAN
                       /\ MaxRetries \in Nat /\ MaxFaults \in Nat

VARIABLES
    legacy,     \* pkg/kubernetes (TRUE) or internal/provisioning/dvp (FALSE)
    deps,       \* Dependencies of each module, as a set
    enabled,    \* modules with Enabled set
    left,       \* keys of the indegree map
    indegree,   \* its values
    levels,     \* the levels found so far
    phase,      \* where the function is
    level,      \* the level being processed
    pc,         \* the goroutine of each module of the level
    attempt,    \* its attempt counter
    faults,     \* failed calls so far
    mcs,        \* modules that have a ModuleConfig
    mpos,       \* modules that have a ModulePullOverride
    touched,    \* history: modules this call wrote something for
    applied,    \* history: modules whose configuration was applied
    seen        \* history: modules a poll found Ready

defVars == <<legacy, deps, enabled>>
sortVars == <<left, indegree, levels>>
runVars == <<phase, level, pc, attempt>>
kubeVars == <<mcs, mpos>>
history == <<touched, applied, seen>>
vars == <<defVars, sortVars, runVars, faults, kubeVars, history>>

Failed == {"failed"}
Ended == {"rejected", "cycle", "failed", "done"}
Level == levels[level]

\* On an existing cluster some of the modules have been configured before.
Init ==
    /\ legacy \in BOOLEAN
    /\ deps \in [Modules -> SUBSET Names]
    /\ enabled \in SUBSET Modules
    /\ left = Modules
    /\ indegree = [m \in Modules |-> 0]
    /\ levels = <<>>
    /\ phase = "graph" /\ level = 0
    /\ pc = [m \in Modules |-> "none"]
    /\ attempt = [m \in Modules |-> 0]
    /\ faults = 0
    /\ mcs \in {{}, Modules} /\ mpos = mcs
    /\ touched = {} /\ applied = {} /\ seen = {}

-----------------------------------------------------------------------------
(* Sorting.                                                                *)

\* A dependency that is no module of the definition is an error, and in dvp so
\* is one on the module itself (legacy finds it as a cycle).
BuildGraph ==
    /\ phase = "graph"
    /\ \/ /\ \E m \in Modules : ~(deps[m] \subseteq Modules) \/ (~legacy /\ m \in deps[m])
          /\ phase' = "rejected" /\ UNCHANGED indegree
       \/ /\ \A m \in Modules : deps[m] \subseteq Modules /\ (legacy \/ m \notin deps[m])
          /\ indegree' = [m \in Modules |-> Cardinality(deps[m])]
          /\ phase' = "sort"
    /\ UNCHANGED <<defVars, left, levels, level, pc, attempt, faults, kubeVars, history>>

\* Mutant: one missing dependency does not matter.
FreeEarly == {m \in left : indegree[m] <= 1}

Free == {m \in left : indegree[m] = 0}

\* Mutant: a cycle is not noticed.
SortLevelSpins ==
    /\ phase = "sort" /\ left # {}
    /\ left' = left \ Free
    /\ levels' = IF Free = {} THEN levels ELSE Append(levels, Free)
    /\ indegree' = [m \in Modules |->
                      IF m \in left \ Free THEN indegree[m] - Cardinality(deps[m] \cap Free)
                      ELSE indegree[m]]
    /\ UNCHANGED <<defVars, phase, level, pc, attempt, faults, kubeVars, history>>

\* One round of the loop: the modules without unresolved dependencies.
SortLevel ==
    /\ phase = "sort" /\ left # {}
    /\ \/ /\ Free = {}
          /\ phase' = "cycle" /\ UNCHANGED sortVars
       \/ /\ Free # {}
          /\ left' = left \ Free
          /\ levels' = Append(levels, Free)
          /\ indegree' = [m \in Modules |->
                            IF m \in left \ Free THEN indegree[m] - Cardinality(deps[m] \cap Free)
                            ELSE indegree[m]]
          /\ UNCHANGED phase
    /\ UNCHANGED <<defVars, level, pc, attempt, faults, kubeVars, history>>

-----------------------------------------------------------------------------
(* Configuring a level.                                                    *)

BeginLevel ==
    /\ \/ phase = "sort" /\ left = {}
       \/ phase = "next"
    /\ \/ /\ level = Len(levels)
          /\ phase' = "done" /\ UNCHANGED <<level, pc>>
       \/ /\ level < Len(levels)
          /\ phase' = "apply" /\ level' = level + 1
          /\ pc' = [m \in Modules |-> IF m \in levels[level + 1] THEN "mc" ELSE pc[m]]
    /\ UNCHANGED <<defVars, sortVars, attempt, faults, kubeVars, history>>

Writing(m) == phase = "apply" /\ m \in Level /\ pc[m] \in {"mc", "mpo"}
Has(m) == m \in (IF pc[m] = "mc" THEN mcs ELSE mpos)

\* The object is created or updated in the cluster.
Store(m) ==
    /\ mcs' = IF pc[m] = "mc" THEN mcs \cup {m} ELSE mcs
    /\ mpos' = IF pc[m] = "mpo" THEN mpos \cup {m} ELSE mpos
    /\ touched' = touched \cup {m}

\* The upsert has returned without an error.
Proceed(m) ==
    /\ attempt' = [attempt EXCEPT ![m] = 0]
    /\ IF pc[m] = "mc" /\ DevRegistry
       THEN pc' = [pc EXCEPT ![m] = "mpo"] /\ UNCHANGED applied
       ELSE pc' = [pc EXCEPT ![m] = "applied"] /\ applied' = applied \cup {m}

Upsert(m) ==
    /\ Writing(m)
    /\ Store(m)
    /\ Proceed(m)
    /\ UNCHANGED <<defVars, sortVars, phase, level, faults, seen>>

Fault == faults < MaxFaults /\ faults' = faults + 1

\* A retryable error of a call; a write may have been stored all the same.
CallFails(m) ==
    /\ Writing(m) /\ Fault
    /\ \/ Store(m) \/ UNCHANGED <<kubeVars, touched>>
    /\ \/ /\ attempt[m] < MaxRetries
          /\ attempt' = [attempt EXCEPT ![m] = @ + 1] /\ UNCHANGED pc
       \/ /\ attempt[m] >= MaxRetries
          /\ pc' = [pc EXCEPT ![m] = "failed"] /\ UNCHANGED attempt
    /\ UNCHANGED <<defVars, sortVars, phase, level, applied, seen>>

\* Any other error: a conflict, a rejected object, a cancelled context.
CallRefused(m) ==
    /\ Writing(m) /\ Fault
    /\ pc' = [pc EXCEPT ![m] = "failed"]
    /\ UNCHANGED <<defVars, sortVars, phase, level, attempt, kubeVars, history>>

\* The legacy code takes any error of the Get for NotFound and creates the object; an
\* object that exists makes that a final error.
CreateBlindly(m) ==
    /\ legacy /\ Writing(m) /\ Fault
    /\ \/ Has(m) /\ pc' = [pc EXCEPT ![m] = "failed"]
          /\ UNCHANGED <<attempt, kubeVars, touched, applied>>
       \/ ~Has(m) /\ Store(m) /\ Proceed(m)
    /\ UNCHANGED <<defVars, sortVars, phase, level, seen>>

\* errgroup cancels the context of the level's other goroutines.
Cancelled(m) ==
    /\ ~legacy /\ Writing(m)
    /\ \E s \in Level : pc[s] \in Failed
    /\ pc' = [pc EXCEPT ![m] = "failed"]
    /\ UNCHANGED <<defVars, sortVars, phase, level, attempt, faults, kubeVars, history>>

\* wg.Wait: all goroutines of the level have returned.
LevelApplied ==
    /\ phase = "apply"
    /\ \A m \in Level : pc[m] \in {"applied"} \cup Failed
    /\ \/ /\ \E m \in Level : pc[m] \in Failed
          /\ phase' = "failed" /\ UNCHANGED pc
       \/ /\ \A m \in Level : pc[m] = "applied"
          /\ phase' = "ready"
          /\ pc' = [m \in Modules |-> IF m \notin Level THEN pc[m]
                                      ELSE IF m \in enabled THEN "wait" ELSE "ok"]
    /\ UNCHANGED <<defVars, sortVars, level, attempt, faults, kubeVars, history>>

-----------------------------------------------------------------------------
(* Waiting for a level.                                                    *)

Waiting(m) == phase = "ready" /\ m \in Level /\ pc[m] = "wait"

PollsReady(m) ==
    /\ Waiting(m)
    /\ pc' = [pc EXCEPT ![m] = "ok"]
    /\ seen' = seen \cup {m}
    /\ UNCHANGED <<defVars, sortVars, phase, level, attempt, faults, kubeVars, touched, applied>>

\* The timeout, or a cancelled context.
WaitFails(m) ==
    /\ Waiting(m)
    /\ pc' = [pc EXCEPT ![m] = "failed"]
    /\ UNCHANGED <<defVars, sortVars, phase, level, attempt, faults, kubeVars, history>>

LevelReady ==
    /\ phase = "ready"
    /\ \A m \in Level : pc[m] # "wait"
    /\ phase' = IF \E m \in Level : pc[m] \in Failed THEN "failed" ELSE "next"
    /\ UNCHANGED <<defVars, sortVars, level, pc, attempt, faults, kubeVars, history>>

-----------------------------------------------------------------------------
Goroutine(m) ==
    \/ Upsert(m) \/ CallFails(m) \/ CallRefused(m) \/ CreateBlindly(m) \/ Cancelled(m)
    \/ PollsReady(m) \/ WaitFails(m)

Step == BuildGraph \/ SortLevel \/ BeginLevel \/ LevelApplied \/ LevelReady

Finished == phase \in Ended /\ UNCHANGED vars

Next == Step \/ (\E m \in Modules : Goroutine(m)) \/ Finished

Spec == Init /\ [][Next]_vars

\* The function and its goroutines go on; a wait ends by its timeout at last.
FairSpec == Spec /\ WF_vars(Step) /\ \A m \in Modules : WF_vars(Goroutine(m))

-----------------------------------------------------------------------------
(* Properties.                                                             *)

\* The local variables of the functions and the objects have their types.
TypeOK ==
    /\ legacy \in BOOLEAN
    /\ deps \in [Modules -> SUBSET Names] /\ enabled \subseteq Modules
    /\ left \subseteq Modules /\ indegree \in [Modules -> Nat]
    /\ levels \in Seq(SUBSET Modules)
    /\ phase \in {"graph", "sort", "apply", "ready", "next"} \cup Ended
    /\ level \in 0..Len(levels)
    /\ pc \in [Modules -> {"none", "mc", "mpo", "applied", "wait", "ok"} \cup Failed]
    /\ attempt \in [Modules -> Nat] /\ faults \in Nat
    /\ mcs \subseteq Modules /\ mpos \subseteq Modules
    /\ touched \subseteq Modules /\ applied \subseteq Modules /\ seen \subseteq Modules

\* A module's level comes after the levels of all its dependencies, though the
\* sort only ever counts how many are missing.
LevelsRespectDeps ==
    \A i \in 1..Len(levels) : \A m \in levels[i] : \A d \in deps[m] :
        \E j \in 1..(i - 1) : d \in levels[j]

\* "circular dependency" is reported only for a real cycle: a set of modules each
\* of which depends on one of the set.
CycleErrorIsReal ==
    phase = "cycle" => left # {} /\ \A m \in left : deps[m] \cap left # {}

\* Whatever fails, in whatever order the goroutines of a level end: a module is
\* touched only when every dependency was applied and, if enabled, seen Ready.
DepsSeenReady ==
    \A m \in touched : \A d \in deps[m] : d \in applied /\ (d \in enabled => d \in seen)

\* Success is success of everything: each module has its ModuleConfig (and its
\* override on a dev registry), and each enabled one was seen Ready.
DoneMeansReady ==
    phase = "done" =>
        /\ applied = Modules /\ enabled \subseteq seen
        /\ Modules \subseteq mcs /\ (DevRegistry => Modules \subseteq mpos)

\* The functions return, whatever the graph and whatever fails.
EnableReturns == <>(phase \in Ended)

\* The modules of the levels that are completely ready.
FinishedModules ==
    UNION {levels[i] : i \in {j \in 1..Len(levels) :
             j < level \/ (j = level /\ phase \in {"next", "done"})}}

Order == INSTANCE DependencyOrder WITH started <- touched, finished <- FinishedModules

\* Both implementations keep the promise of DependencyOrder.
ImplementsOrder == Order!Spec

===============================================================================
