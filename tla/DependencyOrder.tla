--------------------------- MODULE DependencyOrder ---------------------------
(***************************************************************************)
(* What enabling modules promises to whoever declares their dependencies:  *)
(* nothing is done to a module before all it depends on is finished, and a *)
(* module that is finished stays so.                                       *)
(***************************************************************************)
CONSTANTS
    Modules,    \* the modules of the cluster definition
    Names       \* all module names that a definition can mention

VARIABLES
    deps,       \* the names each module depends on
    started,    \* modules something was done to
    finished    \* modules that are configured and, if enabled, ready

vars == <<deps, started, finished>>

Init ==
    /\ deps \in [Modules -> SUBSET Names]
    /\ started = {}
    /\ finished = {}

Start(m) ==
    /\ deps[m] \subseteq finished
    /\ started' = started \cup {m}
    /\ UNCHANGED <<deps, finished>>

Finish(S) ==
    /\ S \subseteq started
    /\ finished' = finished \cup S
    /\ UNCHANGED <<deps, started>>

Next ==
    \/ \E m \in Modules : Start(m)
    \/ \E S \in SUBSET Modules : Finish(S)

Spec == Init /\ [][Next]_vars

==============================================================================
