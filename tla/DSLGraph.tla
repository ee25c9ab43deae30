------------------------------ MODULE DSLGraph ------------------------------
(***************************************************************************)
(* The static part of a Tracecat workflow: the action statements of a      *)
(* DSLInput, the adjacency the scheduler walks, the control-flow scopes    *)
(* (scatter/gather and loop_start/loop_end) and the structural validation  *)
(* every DSLInput passes before a scheduler is built from it               *)
(* (tracecat/dsl/common.py, tracecat/dsl/scheduler.py).                    *)
(*                                                                         *)
(* The constants describe several workflows at once: each behaviour of the *)
(* scheduler runs one of them, so that one check covers them all.          *)
(* Expression references between actions are data and are left out.        *)
(***************************************************************************)
EXTENDS Integers, Sequences, FiniteSets

CONSTANTS
    Refs,           \* the refs of the action statements
    Workflows,      \* the DSLInputs considered, each the set of its refs
    Action,         \* [Refs -> ActionKinds], stmt.action
    DependsOn,      \* [Refs -> SUBSET (Refs \X EdgeTypes)], stmt.depends_on
    JoinStrategy,   \* [Refs -> {"all", "any"}], stmt.join_strategy
    HasRunIf,       \* the refs whose stmt.run_if is not None
    Rank            \* [Refs -> Nat], the alphabetical order of the refs

ActionKinds == {"action", "scatter", "gather", "loop_start", "loop_end"}

\* EdgeType: a dependency "a" or "a.success", or "a.error".
EdgeTypes == {"success", "error"}

ASSUME GraphType ==
    /\ IsFiniteSet(Refs)
    /\ Workflows \subseteq SUBSET Refs
    /\ Action \in [Refs -> ActionKinds]
    /\ DependsOn \in [Refs -> SUBSET (Refs \X EdgeTypes)]
    /\ JoinStrategy \in [Refs -> {"all", "any"}]
    /\ HasRunIf \subseteq Refs
    /\ Rank \in [Refs -> Nat]
    /\ \A r, s \in Refs : Rank[r] = Rank[s] => r = s
    /\ \A r, s \in Refs : \A type \in EdgeTypes : \A w \in Workflows :
           <<r, type>> \in DependsOn[s] => (r \in w <=> s \in w)

-----------------------------------------------------------------------------
(* The adjacency the scheduler builds from depends_on.                     *)

\* adj[ref]: the outgoing edges of ref, as <<dst, edge_type>>.
Adj(ref) == {e \in Refs \X EdgeTypes : <<ref, e[2]>> \in DependsOn[e[1]]}

DepRefs(ref) == {d[1] : d \in DependsOn[ref]}

\* On a valid workflow every dependency leads to the same scope; take any.
SomeDep(ref) == CHOOSE d \in DepRefs(ref) : TRUE

-----------------------------------------------------------------------------
(* Scopes.  A scope is named by the action that opens it.                  *)

RootScope == "<root>"

\* None, the scope around the root scope.
NoScope == "<none>"

\* A ref is a slug (SLUG_PATTERN), which neither of these is.
ASSUME RefsAreSlugs == RootScope \notin Refs /\ NoScope \notin Refs

Openers == {r \in Refs : Action[r] \in {"scatter", "loop_start"}}

Closers == {r \in Refs : Action[r] \in {"gather", "loop_end"}}

OpenerOf(closer) == IF Action[closer] = "gather" THEN "scatter" ELSE "loop_start"

\* The scope an action is reached in, given the scopes of its dependencies.  A
\* closer reached in the root scope has none.
ReachedIn(ref, scopes) ==
    IF ref \notin Refs THEN NoScope
    ELSE IF DependsOn[ref] = {} THEN RootScope
    ELSE scopes[SomeDep(ref)]

\* The scope each action is assigned to: an opener opens the scope named
\* after itself, a closer belongs to the scope around the one it closes, and
\* every other action to the scope it is reached in.
AssignedScope(r, scopes) ==
    CASE r \in Openers -> r
      [] r \in Closers -> ReachedIn(ReachedIn(r, scopes), scopes)
      [] OTHER -> ReachedIn(r, scopes)

ActionScope[r \in Refs] == AssignedScope(r, ActionScope)

\* scope_hierarchy: the scope around a scope.
ParentScope(scope) == ReachedIn(scope, ActionScope)

\* The scopes around (and including) a scope.
EnclosingScopes[scope \in Refs \cup {RootScope, NoScope}] ==
    IF scope = NoScope THEN {} ELSE {scope} \cup EnclosingScopes[ParentScope(scope)]

ScopeIsDescendant(scope, ancestor) == ancestor \in EnclosingScopes[scope]

-----------------------------------------------------------------------------
(* Loop regions.                                                           *)

LoopEnds == {r \in Refs : Action[r] = "loop_end"}

\* The scope a closer closes; for a loop_end it is region.start_ref.
ClosedScope(closer) == ActionScope[SomeDep(closer)]

\* region.members
LoopMembers ==
    [end \in LoopEnds |->
        {r \in Refs : ScopeIsDescendant(ActionScope[r], ClosedScope(end))} \cup {end}]

\* The scatters around an action: its task runs once per stream of each.
ScatterScopes ==
    [r \in Refs |->
        LET scope == CASE Action[r] = "gather" -> ClosedScope(r)
                       [] r \in Openers -> ParentScope(r)
                       [] OTHER -> ActionScope[r]
        IN  {s \in EnclosingScopes[scope] \cap Refs : Action[s] = "scatter"}]

InternalDeps(ref, members) == {d \in DependsOn[ref] : d[1] \in members}

-----------------------------------------------------------------------------
(* validate_structure and the scope checks it calls.                       *)

\* The refs found by the topological walk: a cycle leaves some unvisited.
TopologicallyVisited ==
    LET seen[n \in 0..Cardinality(Refs)] ==
            IF n = 0 THEN {}
            ELSE LET before == seen[n - 1]
                 IN  {r \in Refs : DepRefs(r) \subseteq before}
    IN  seen[Cardinality(Refs)]

ScopeDependenciesValid ==
    \A r \in Refs : \A d \in DepRefs(r) :
        CASE r \in Openers -> ActionScope[d] = ParentScope(r)
          [] Action[r] = "loop_end" -> ActionScope[d] = ClosedScope(r)
          [] Action[r] = "gather" -> ActionScope[r] = ParentScope(ActionScope[d])
          [] OTHER -> ActionScope[d] = ActionScope[r]

ClosersMatchOpeners ==
    \A r \in Closers :
        LET closed == ClosedScope(r)
        IN  closed \in Refs /\ Action[closed] = OpenerOf(r)

\* Reverse traversal from loop_end over success edges only.
CanReachLoopEnd(end) ==
    LET reach[n \in 0..Cardinality(Refs)] ==
            IF n = 0 THEN {end}
            ELSE LET before == reach[n - 1]
                 IN  before \cup
                     {r \in Refs : \E q \in before : <<r, "success">> \in DependsOn[q]}
    IN  reach[Cardinality(Refs)]

LoopScopesSynchronize ==
    /\ \A s \in Refs : Action[s] = "loop_start" =>
           \E end \in LoopEnds : ClosedScope(end) = s
    /\ \A e1, e2 \in LoopEnds : ClosedScope(e1) = ClosedScope(e2) => e1 = e2
    /\ \A end \in LoopEnds :
           {r \in Refs : ScopeIsDescendant(ActionScope[r], ClosedScope(end))}
               \subseteq CanReachLoopEnd(end)

CountKind(w, k) == Cardinality({r \in w : Action[r] = k})

ValidStructure ==
    /\ \A w \in Workflows :
           /\ \E r \in w : DependsOn[r] = {}
           /\ CountKind(w, "gather") <= CountKind(w, "scatter")
           /\ CountKind(w, "loop_end") = CountKind(w, "loop_start")
    /\ TopologicallyVisited = Refs
    /\ \A r \in Closers : DependsOn[r] # {}
    /\ ClosersMatchOpeners
    /\ ScopeDependenciesValid
    /\ LoopScopesSynchronize

\* A scheduler is only ever built for a workflow that passed validation.
ASSUME ValidDSL == ValidStructure

\* The topological walk misses nothing: among any actions of a workflow there
\* is one that depends on none of the others.  TopologicallyVisited = Refs says
\* the same by recursion; this is the form a proof can use.
ASSUME AcyclicDSL ==
    \A w \in Workflows : \A some \in (SUBSET w) \ {{}} :
        \E r \in some : DepRefs(r) \cap some = {}

\* The scopes of a workflow without cycles are well defined: the recursive
\* functions satisfy the equations that define them.
ASSUME ScopesDefined ==
    /\ \A r \in Refs : ActionScope[r] = AssignedScope(r, ActionScope)
    /\ EnclosingScopes[NoScope] = {}
    /\ \A scope \in Refs \cup {RootScope} :
           EnclosingScopes[scope] = {scope} \cup EnclosingScopes[ParentScope(scope)]

\* Every member of a loop region leads to its loop_end: going back from there
\* over success edges one meets them all.  LoopScopesSynchronize says the same
\* by recursion.
ASSUME SynchronizedDSL ==
    \A end \in LoopEnds : \A some \in {m \in SUBSET LoopMembers[end] : end \in m} :
        (\A q \in some : \A r \in LoopMembers[end] :
             <<r, "success">> \in DependsOn[q] => r \in some)
            => some = LoopMembers[end]
=============================================================================
