--------------------------- MODULE MCDSLScheduler ---------------------------
(***************************************************************************)
(* Small workflows for model-checking DSLScheduler.  A workflow is the     *)
(* sequence of its action statements, in the alphabetical order of their   *)
(* refs; each run gives Model one of the definitions at the end.           *)
(***************************************************************************)
EXTENDS DSLScheduler, SequencesExt

CONSTANT Model  \* the workflows of the run, a sequence

Dep(r) == <<r, "success">>
ErrorOf(r) == <<r, "error">>

Stmt(ref, action, deps) ==
    [ref |-> ref, action |-> action, deps |-> deps, join |-> "all", sizes |-> {},
     max |-> 1, strategy |-> "partition"]
Act(ref, deps) == Stmt(ref, "action", deps)
AnyOf(stmt) == [stmt EXCEPT !.join = "any"]
Scatter(ref, deps, sizes) == [Stmt(ref, "scatter", deps) EXCEPT !.sizes = sizes]
Gather(ref, deps, strategy) == [Stmt(ref, "gather", deps) EXCEPT !.strategy = strategy]
LoopEnd(ref, deps, max) == [Stmt(ref, "loop_end", deps) EXCEPT !.max = max]

\* d1 branches on success and on error; the branches join again.
Diamond == <<
    Act("d1", {}),
    Act("d2", {Dep("d1")}),
    Act("d3", {ErrorOf("d1")}),
    AnyOf(Act("d4", {Dep("d2"), Dep("d3")})),
    Act("d5", {Dep("d4"), Dep("d6")}),
    Act("d6", {Dep("d1")}) >>

\* A scatter whose body has an error path, beside an independent branch.
ScatterBeside(sizes, strategy) == <<
    Scatter("s1", {}, sizes),
    Act("s2", {Dep("s1")}),
    Act("s3", {ErrorOf("s2")}),
    AnyOf(Gather("s4", {Dep("s2"), Dep("s3")}, strategy)),
    Act("s5", {}),
    Act("s6", {Dep("s4"), Dep("s5")}) >>

\* A scatter and its gather, with the "raise" strategy.
Raising(sizes) == <<
    Scatter("r1", {}, sizes),
    Act("r2", {Dep("r1")}),
    Gather("r3", {Dep("r2")}, "raise"),
    Act("r4", {Dep("r3")}) >>

\* A scatter inside a scatter.
Nested(outer, inner) == <<
    Scatter("n1", {}, outer),
    Scatter("n2", {Dep("n1")}, inner),
    Act("n3", {Dep("n2")}),
    Gather("n4", {Dep("n3")}, "partition"),
    Gather("n5", {Dep("n4")}, "include"),
    Act("n6", {Dep("n5")}) >>

\* A do-while loop inside a do-while loop; the inner body has two branches.
NestedLoop(max) == <<
    Stmt("l1", "loop_start", {}),
    Stmt("l2", "loop_start", {Dep("l1")}),
    Act("l3", {Dep("l2")}),
    AnyOf(Act("l4", {Dep("l2"), ErrorOf("l3")})),
    AnyOf(LoopEnd("l5", {Dep("l3"), Dep("l4")}, max)),
    LoopEnd("l6", {Dep("l5")}, max),
    Act("l7", {Dep("l6")}) >>

\* A loop in each stream of a scatter.
LoopInScatter(sizes, max) == <<
    Scatter("i1", {}, sizes),
    Stmt("i2", "loop_start", {Dep("i1")}),
    Act("i3", {Dep("i2")}),
    LoopEnd("i4", {Dep("i3")}, max),
    Gather("i5", {Dep("i4")}, "raise"),
    Act("i6", {Dep("i5")}) >>

\* A scatter in the body of a loop.
ScatterInLoop(sizes, max) == <<
    Stmt("o1", "loop_start", {}),
    Scatter("o2", {Dep("o1")}, sizes),
    Act("o3", {Dep("o2")}),
    Gather("o4", {Dep("o3")}, "partition"),
    LoopEnd("o5", {Dep("o4")}, max),
    Act("o6", {Dep("o5")}) >>

FailuresModel == << Diamond, ScatterBeside({1, 2}, "drop"), Raising({0, 2}) >>
ScopesModel == << ScatterBeside({0, 2}, "partition"), Raising({3}), Nested({2}, {0, 2}),
                  NestedLoop(2), LoopInScatter({0, 2}, 2), ScatterInLoop({2}, 3) >>
NestedSkipModel == << Nested({2}, {2}) >>

AllStmts == FlattenSeq(Model)
Stmts == ToSet(AllStmts)
StmtOf(ref) == CHOOSE s \in Stmts : s.ref = ref

MCRefs == {s.ref : s \in Stmts}
MCWorkflows == {{s.ref : s \in ToSet(w)} : w \in ToSet(Model)}
MCAction == [r \in MCRefs |-> StmtOf(r).action]
MCDependsOn == [r \in MCRefs |-> StmtOf(r).deps]
MCJoinStrategy == [r \in MCRefs |-> StmtOf(r).join]
MCRank == [r \in MCRefs |-> CHOOSE i \in DOMAIN AllStmts : AllStmts[i].ref = r]
MCSizes == [r \in MCRefs |-> StmtOf(r).sizes]
MCMaxIterations == [r \in MCRefs |-> StmtOf(r).max]
MCErrorStrategy == [r \in MCRefs |-> StmtOf(r).strategy]
Unlimited == NoLimit
=============================================================================
