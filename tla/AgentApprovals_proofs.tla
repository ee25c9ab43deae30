------------------------ MODULE AgentApprovals_proofs ------------------------
(***************************************************************************)
(* Proofs about AgentApprovals, for every set of runs, submissions and     *)
(* tools and any number of turns and faults: tool calls are decided by     *)
(* someone who saw them, the first submission wins, and what a workflow    *)
(* waits for can be seen, whatever attempts of activities do too late.     *)
(***************************************************************************)
EXTENDS AgentApprovals, TLAPS

\* r has asked for approvals and not yet gone on.
InTurn(r) == pc[r] \in {"recording", "waiting", "handling", "executing"}

\* The manager of r expects the calls of its turn, and the decisions it holds
\* are about what it expects.
RunFacts(r) ==
    /\ InTurn(r) => turn[r] \in Turns /\ expected[r] = CallsOf(r, turn[r])
    /\ pc[r] \in {"new", "validated", "starting"} => expected[r] = {}
    /\ pc[r] = "agent" /\ expected[r] # {} => approvals[r] # None
    /\ pc[r] \in {"recording", "handling"} => todo[r] \subseteq CallsOf(r, turn[r])
    /\ ready[r] => approvals[r] # None
    /\ pc[r] \in {"handling", "executing"} => approvals[r] # None
    /\ pc[r] = "handling" => snapshot[r] # None
    /\ pc[r] = "executing" => \A c \in CallsOf(r, turn[r]) : executed[c] # None
    /\ approvals[r] # None =>
           step[approvals[r]] # "new" /\ covers[approvals[r]] = expected[r]

\* What was executed was decided by someone who saw it.
SightedFacts(c) ==
    executed[c] # None => step[executed[c]] # "new" /\ c \in covers[executed[c]]

\* While a turn is recorded, its rows that are written are pending or were
\* dismissed; while the workflow waits, all of them are.
RowFacts(c) ==
    /\ pc[c[1]] = "recording" /\ c[2] = turn[c[1]] /\ c \notin todo[c[1]] =>
           rows[c] \in {"pending", "deleted"}
    /\ pc[c[1]] = "waiting" /\ c[2] = turn[c[1]] => rows[c] \in {"pending", "deleted"}

\* The run does not wait for call c any more.
Decided(c) ==
    \/ c[2] < turn[c[1]]
    \/ c[2] = turn[c[1]] /\ pc[c[1]] \in {"handling", "executing"}
    \/ pc[c[1]] = "ended"

\* Decisions that may still be written late are about such calls.
LateFacts == \A w \in late : w[2] # "pending" => Decided(w[1])

\* Without timeouts, only what a run has left behind is late.
LateGone == \A w \in late : pc[w[1][1]] = "ended" /\ executed[w[1]] = None

\* s has passed the deduplication and not been undone.
Holding(s) == step[s] \in {"update", "undo", "accepted"}

\* Submissions that have passed it have keys of their own.
KeyFacts ==
    /\ \A s \in Submissions : Holding(s) => Key(s) \in keys
    /\ \A s, t \in Submissions : s # t /\ Holding(s) /\ Holding(t) => Key(s) # Key(t)

\* The manager holds the first decisions of the turn, and no others follow.
WinFacts(r) ==
    /\ approvals[r] # None => step[approvals[r]] = "accepted" /\ target[approvals[r]] = r
    /\ InTurn(r) => first[<<r, turn[r]>>] = approvals[r]
    /\ ~InTurn(r) /\ pc[r] # "ended" /\ turn[r] \in Turns => first[<<r, turn[r]>>] = None
    /\ \A k \in Turns : k > turn[r] => first[<<r, k>>] = None
    /\ pc[r] = "handling" =>
           /\ snapshot[r] = approvals[r]
           /\ \A c \in CallsOf(r, turn[r]) \ todo[r] : rows[c] \in {snapshot[r], "deleted"}

\* What was executed is written, and belongs to a turn that is over or ending.
ExecutedFacts(c) ==
    executed[c] # None =>
        /\ executed[c] = first[<<c[1], c[2]>>] /\ rows[c] \in {executed[c], "deleted"}
        /\ c[2] < turn[c[1]] \/ (c[2] = turn[c[1]] /\ pc[c[1]] \in {"executing", "ended"})

Faultless ==
    faults = 0 =>
        /\ KeyFacts /\ LateGone
        /\ \A r \in Runs : WinFacts(r)
        /\ \A c \in Calls : ExecutedFacts(c)

IInv ==
    /\ TypeOK
    /\ \A r \in Runs : RunFacts(r)
    /\ \A c \in Calls : SightedFacts(c) /\ RowFacts(c)
    /\ LateFacts
    /\ Faultless

-----------------------------------------------------------------------------
(* Facts that every step needs.                                            *)

LEMMA CallParts ==
    ASSUME NEW c \in Calls
    PROVE  c[1] \in Runs /\ c[2] \in Turns /\ <<c[1], c[2]>> \in Runs \X Turns
BY DEF Calls

LEMMA CallsOfIs ==
    ASSUME NEW r \in Runs, NEW k \in Turns
    PROVE  /\ CallsOf(r, k) \subseteq Calls
           /\ \A c \in Calls : c \in CallsOf(r, k) <=> c[1] = r /\ c[2] = k
BY DEF Calls, CallsOf

\* Whoever has decided does not change what was decided.
Remembered ==
    \A s \in Submissions : step[s] # "new" => step'[s] # "new" /\ covers'[s] = covers[s]

\* What was accepted stays accepted.
Accepted ==
    \A s \in Submissions : step[s] = "accepted" => step'[s] = "accepted" /\ target'[s] = target[s]

\* Nothing of run r changes.
SameRun(r) ==
    /\ pc'[r] = pc[r] /\ turn'[r] = turn[r] /\ expected'[r] = expected[r]
    /\ approvals'[r] = approvals[r] /\ ready'[r] = ready[r]
    /\ snapshot'[r] = snapshot[r] /\ todo'[r] = todo[r]

SameCall(c) == rows'[c] = rows[c] /\ executed'[c] = executed[c]

LEMMA RunKeeps ==
    ASSUME IInv, NEW r \in Runs, SameRun(r), Remembered,
           \A c \in Calls : executed[c] # None => executed'[c] # None
    PROVE  RunFacts(r)'
<1>1. RunFacts(r) /\ approvals[r] \in Submissions \cup {None}
    BY DEF IInv, TypeOK
<1>2. InTurn(r)' <=> InTurn(r)
    BY DEF SameRun, InTurn
<1>3. InTurn(r) => CallsOf(r, turn[r]) \subseteq Calls
    BY <1>1, CallsOfIs DEF RunFacts
<1> QED
    BY <1>1, <1>2, <1>3 DEF RunFacts, SameRun, Remembered, InTurn, CallsOf

LEMMA CallKeeps ==
    ASSUME IInv, NEW c \in Calls, SameCall(c), SameRun(c[1]), Remembered
    PROVE  SightedFacts(c)' /\ RowFacts(c)'
<1>1. executed[c] \in Submissions \cup {None} /\ SightedFacts(c) /\ RowFacts(c)
    BY DEF IInv, TypeOK
<1> QED
    BY <1>1 DEF SightedFacts, RowFacts, SameCall, SameRun, Remembered

LEMMA WinKeeps ==
    ASSUME IInv, faults = 0, NEW r \in Runs, SameRun(r), Accepted,
           \A k \in Turns : first'[<<r, k>>] = first[<<r, k>>],
           \A c \in Calls : c[1] = r => rows'[c] = rows[c]
    PROVE  WinFacts(r)'
<1>1. WinFacts(r) /\ approvals[r] \in Submissions \cup {None} /\ RunFacts(r)
    BY DEF IInv, Faultless, TypeOK
<1>2. InTurn(r)' <=> InTurn(r)
    BY DEF SameRun, InTurn
<1>3. InTurn(r) => /\ turn[r] \in Turns
                   /\ \A c \in CallsOf(r, turn[r]) : rows'[c] = rows[c]
    BY <1>1, CallsOfIs DEF RunFacts
<1> QED
    BY <1>1, <1>2, <1>3 DEF WinFacts, SameRun, Accepted, InTurn, CallsOf

LEMMA ExecutedKeeps ==
    ASSUME IInv, faults = 0, NEW c \in Calls, SameCall(c), SameRun(c[1]),
           first'[<<c[1], c[2]>>] = first[<<c[1], c[2]>>]
    PROVE  ExecutedFacts(c)'
BY DEF IInv, Faultless, ExecutedFacts, SameCall, SameRun

\* A step of the requests leaves the runs alone.
LEMMA RequestsMove ==
    ASSUME IInv, TypeOK', UNCHANGED <<rows, workflow>>, Remembered,
           faults' = 0 => faults = 0 /\ Accepted /\ KeyFacts'
    PROVE  IInv'
<1>0. UNCHANGED <<pc, turn, expected, approvals, ready, snapshot, todo, late, executed, first>>
    BY DEF workflow, manager, activity
<1>1. ASSUME NEW r \in Runs PROVE SameRun(r) /\ RunFacts(r)'
    <2>1. SameRun(r)
        BY <1>0 DEF SameRun
    <2> QED
        BY <1>0, <2>1, RunKeeps
<1>2. ASSUME NEW c \in Calls PROVE SameCall(c) /\ SightedFacts(c)' /\ RowFacts(c)'
    <2>1. SameCall(c) /\ SameRun(c[1])
        BY <1>0, <1>1, CallParts DEF SameCall
    <2> QED
        BY <2>1, CallKeeps
<1>3. LateFacts'
    BY <1>0 DEF IInv, LateFacts, Decided
<1>4. ASSUME faults' = 0
      PROVE  KeyFacts' /\ LateGone' /\ (\A r \in Runs : WinFacts(r)') /\ \A c \in Calls : ExecutedFacts(c)'
    <2>1. ASSUME NEW r \in Runs PROVE WinFacts(r)'
        BY <1>0, <1>1, <1>4, WinKeeps
    <2>2. ASSUME NEW c \in Calls PROVE ExecutedFacts(c)'
        BY <1>0, <1>1, <1>2, <1>4, CallParts, ExecutedKeeps
    <2>3. LateGone'
        BY <1>0, <1>4 DEF IInv, Faultless, LateGone
    <2> QED
        BY <1>4, <2>1, <2>2, <2>3
<1> QED
    BY <1>1, <1>2, <1>3, <1>4 DEF IInv, Faultless

\* A step of run r leaves other runs and the requests alone.
LEMMA RunMoves ==
    ASSUME IInv, TypeOK', NEW r \in Runs, UNCHANGED <<keys, requests, first>>,
           faults' = 0 => faults = 0,
           \A q \in Runs \ {r} : SameRun(q),
           \A c \in Calls : c[1] # r => SameCall(c),
           \A c \in Calls : executed[c] # None => executed'[c] # None,
           RunFacts(r)', LateFacts', faults = 0 => LateGone',
           \A c \in Calls : c[1] = r => SightedFacts(c)' /\ RowFacts(c)',
           faults = 0 => WinFacts(r)' /\ \A c \in Calls : c[1] = r => ExecutedFacts(c)'
    PROVE  IInv'
<1>0. Remembered /\ Accepted /\ UNCHANGED <<step, covers, target>>
    BY DEF Remembered, Accepted, requests
<1>1. ASSUME NEW q \in Runs PROVE RunFacts(q)'
    <2>1. CASE q = r
        BY <2>1
    <2>2. CASE q # r
        BY <1>0, <2>2, RunKeeps
    <2> QED
        BY <2>1, <2>2
<1>2. ASSUME NEW c \in Calls PROVE SightedFacts(c)' /\ RowFacts(c)'
    <2>1. CASE c[1] # r
        BY <1>0, <2>1, CallParts, CallKeeps
    <2> QED
        BY <2>1
<1>3. ASSUME faults' = 0
      PROVE  KeyFacts' /\ LateGone' /\ (\A q \in Runs : WinFacts(q)') /\ \A c \in Calls : ExecutedFacts(c)'
    <2>0. faults = 0
        BY <1>3
    <2>1. ASSUME NEW q \in Runs PROVE WinFacts(q)'
        <3>1. CASE q = r
            BY <2>0, <3>1
        <3>2. CASE q # r
            <4>1. \A c \in Calls : c[1] = q => rows'[c] = rows[c]
                BY <3>2 DEF SameCall
            <4> QED
                BY <1>0, <2>0, <3>2, <4>1, WinKeeps
        <3> QED
            BY <3>1, <3>2
    <2>2. ASSUME NEW c \in Calls PROVE ExecutedFacts(c)'
        <3>1. CASE c[1] # r
            BY <2>0, <3>1, CallParts, ExecutedKeeps
        <3> QED
            BY <2>0, <3>1
    <2>3. KeyFacts'
        BY <1>0, <2>0 DEF IInv, Faultless, KeyFacts, Holding, Key
    <2> QED
        BY <2>0, <2>1, <2>2, <2>3
<1> QED
    BY <1>1, <1>2, <1>3 DEF IInv, Faultless

\* A run that goes on gives up nothing, and no call is undecided again.
LEMMA LateKeeps ==
    ASSUME IInv, NEW r \in Runs, late' = late, pc[r] # "ended",
           \A q \in Runs \ {r} : SameRun(q),
           \A c \in Calls : c[1] = r /\ Decided(c) => Decided(c)',
           \A c \in Calls : c[1] # r => executed'[c] = executed[c]
    PROVE  LateFacts' /\ (faults = 0 => LateGone')
<1>1. ASSUME NEW w \in late PROVE w[1] \in Calls /\ w[1][1] \in Runs
    BY CallParts DEF IInv, TypeOK
<1>2. ASSUME NEW w \in late, w[2] # "pending" PROVE Decided(w[1])'
    <2>1. Decided(w[1])
        BY <1>2 DEF IInv, LateFacts
    <2> QED
        BY <1>1, <2>1 DEF Decided, SameRun
<1>3. ASSUME NEW w \in late, faults = 0 PROVE pc'[w[1][1]] = "ended" /\ executed'[w[1]] = None
    <2>1. pc[w[1][1]] = "ended" /\ executed[w[1]] = None /\ w[1][1] # r
        BY <1>3 DEF IInv, Faultless, LateGone
    <2> QED
        BY <1>1, <2>1 DEF SameRun
<1> QED
    BY <1>2, <1>3 DEF LateFacts, LateGone

\* A row is deleted, or written by an attempt that nobody waits for.
LEMMA RowMoves ==
    ASSUME IInv, TypeOK', NEW c \in Calls, NEW v,
           UNCHANGED <<keys, pc, turn, manager, snapshot, todo, executed, first, covers, target, faults>>,
           rows' = [rows EXCEPT ![c] = v], late' \subseteq late,
           step' = step,
           v \in {"pending", "deleted"} \/ Decided(c),
           faults = 0 => v = "deleted" \/ (pc[c[1]] = "ended" /\ executed[c] = None)
    PROVE  IInv'
<1>a. /\ UNCHANGED <<expected, approvals, ready>>
      /\ rows'[c] = v /\ \A d \in Calls \ {c} : rows'[d] = rows[d]
    BY DEF manager, IInv, TypeOK
<1>0. Remembered /\ Accepted
    BY DEF Remembered, Accepted
<1>1. ASSUME NEW r \in Runs PROVE SameRun(r) /\ RunFacts(r)'
    <2>1. SameRun(r)
        BY <1>a DEF SameRun
    <2> QED
        BY <1>0, <2>1, RunKeeps
<1>2. ASSUME NEW d \in Calls PROVE SightedFacts(d)' /\ RowFacts(d)'
    <2>1. CASE d # c
        BY <1>0, <1>1, <1>a, <2>1, CallParts, CallKeeps DEF SameCall
    <2>2. CASE d = c
        <3>1. SightedFacts(d)'
            BY <1>0 DEF IInv, SightedFacts, Remembered, TypeOK
        <3>2. c[1] \in Runs /\ c[2] \in Int /\ turn[c[1]] \in Int
            <4>1. c[1] \in Runs /\ c[2] \in Turns
                BY CallParts
            <4>2. turn[c[1]] \in 1 .. MaxTurns + 1
                BY <4>1 DEF IInv, TypeOK
            <4> QED
                BY <4>1, <4>2, ApprovalConstants DEF Turns
        <3>3. RowFacts(c)'
            BY <1>a, <3>2 DEF RowFacts, Decided
        <3> QED
            BY <2>2, <3>1, <3>3
    <2> QED
        BY <2>1, <2>2
<1>3. LateFacts'
    BY DEF IInv, LateFacts, Decided
<1>4. ASSUME faults' = 0
      PROVE  KeyFacts' /\ LateGone' /\ (\A r \in Runs : WinFacts(r)') /\ \A d \in Calls : ExecutedFacts(d)'
    <2>0. faults = 0 /\ (v = "deleted" \/ (pc[c[1]] = "ended" /\ executed[c] = None))
        BY <1>4
    <2>1. KeyFacts'
        BY <2>0 DEF IInv, Faultless, KeyFacts, Holding, Key
    <2>2. LateGone'
        BY <2>0 DEF IInv, Faultless, LateGone
    <2>3. ASSUME NEW r \in Runs PROVE WinFacts(r)'
        <3>1. WinFacts(r) /\ RunFacts(r)
            BY <2>0 DEF IInv, Faultless
        <3>2. InTurn(r)' <=> InTurn(r)
            BY DEF InTurn
        <3>3. ASSUME pc[r] = "handling", NEW d \in CallsOf(r, turn[r]) \ todo[r]
              PROVE  rows'[d] \in {snapshot[r], "deleted"}
            <4>1. d \in Calls /\ d[1] = r
                BY <3>1, <3>3, CallsOfIs DEF RunFacts, InTurn
            <4> QED
                BY <1>a, <2>0, <3>1, <3>3, <4>1 DEF WinFacts
        <3> QED
            BY <1>0, <1>a, <3>1, <3>2, <3>3 DEF WinFacts, CallsOf
    <2>4. ASSUME NEW d \in Calls PROVE ExecutedFacts(d)'
        BY <1>a, <2>0 DEF IInv, Faultless, ExecutedFacts
    <2> QED
        BY <2>1, <2>2, <2>3, <2>4
<1> QED
    BY <1>1, <1>2, <1>3, <1>4 DEF IInv, Faultless

-----------------------------------------------------------------------------
(* Requests.                                                               *)

LEMMA FaultsTyped ==
    ASSUME IInv, NoFault \/ Fault
    PROVE  /\ faults' \in 0 .. MaxFaults
           /\ faults' = 0 => faults = 0 /\ NoFault
BY ApprovalConstants DEF IInv, TypeOK, NoFault, Fault

LEMMA SendKeeps ==
    ASSUME IInv, NEW s \in Submissions, Send(s) \/ LoadSession(s) \/ CheckPending(s)
    PROVE  IInv'
<1>1. /\ UNCHANGED <<curr, rows, keys, workflow>> /\ NoFault
      /\ step[s] \in {"new", "sent", "loaded"}
      /\ step \in [Submissions -> SubmissionSteps]
      /\ covers \in [Submissions -> SUBSET Calls]
      /\ target \in [Submissions -> Runs \cup {None}]
      /\ doomed \in [Submissions -> SUBSET Calls]
    BY DEF Send, LoadSession, CheckPending, IInv, TypeOK
<1>2. /\ \E to \in {"sent", "loaded", "noop", "pending"} : step' = [step EXCEPT ![s] = to]
      /\ \/ covers' = covers
         \/ step[s] = "new" /\ \E calls \in SUBSET Calls : covers' = [covers EXCEPT ![s] = calls]
      /\ \/ doomed' = doomed
         \/ \E calls \in SUBSET Calls : doomed' = [doomed EXCEPT ![s] = calls]
      /\ target' = target \/ target' = [target EXCEPT ![s] = curr]
    BY DEF Send, LoadSession, CheckPending, Goto, Pending
<1>3. TypeOK'
    <2>1. step' \in [Submissions -> SubmissionSteps]
        BY <1>1, <1>2 DEF SubmissionSteps
    <2>2. covers' \in [Submissions -> SUBSET Calls]
        BY <1>1, <1>2
    <2>3. target' \in [Submissions -> Runs \cup {None}]
        BY <1>1, <1>2 DEF IInv, TypeOK
    <2>4. doomed' \in [Submissions -> SUBSET Calls]
        BY <1>1, <1>2
    <2> QED
        BY <1>1, <2>1, <2>2, <2>3, <2>4, FaultsTyped DEF IInv, TypeOK, workflow, manager, activity
<1>4. Remembered /\ Accepted
    BY <1>1, <1>2 DEF Remembered, Accepted
<1>5. ASSUME faults = 0 PROVE KeyFacts'
    <2>1. ASSUME NEW t \in Submissions, Holding(t)'
          PROVE  Holding(t) /\ Key(t)' = Key(t)
        BY <1>1, <1>2, <2>1 DEF Holding, Key
    <2> QED
        BY <1>1, <1>5, <2>1 DEF IInv, Faultless, KeyFacts
<1> QED
    BY <1>1, <1>3, <1>4, <1>5, FaultsTyped, RequestsMove

\* Dedup: whoever goes on without a fault has set the key.
LEMMA DedupKeeps ==
    ASSUME IInv, NEW s \in Submissions, Dedup(s)
    PROVE  IInv'
<1>1. /\ UNCHANGED <<curr, rows, workflow, covers, target, doomed>> /\ (NoFault \/ Fault)
      /\ step[s] = "pending" /\ step \in [Submissions -> SubmissionSteps]
      /\ Key(s) \in (Runs \cup {None}) \X SUBSET Calls
    BY DEF Dedup, IInv, TypeOK, Key
<1>2. /\ keys' = keys \/ keys' = keys \cup {Key(s)}
      /\ \E to \in {"update", "noop"} : step' = [step EXCEPT ![s] = to]
    BY DEF Dedup, Mark, Goto
<1>3. TypeOK'
    <2>1. step' \in [Submissions -> SubmissionSteps]
        BY <1>1, <1>2 DEF SubmissionSteps
    <2>2. keys' \subseteq (Runs \cup {None}) \X SUBSET Calls
        BY <1>1, <1>2 DEF IInv, TypeOK
    <2> QED
        BY <1>1, <2>1, <2>2, FaultsTyped DEF IInv, TypeOK, workflow, manager, activity
<1>4. Remembered /\ Accepted
    BY <1>1, <1>2 DEF Remembered, Accepted
<1>5. ASSUME faults' = 0, faults = 0, NoFault PROVE KeyFacts'
    <2>1. ~Fault
        BY <1>5, ApprovalConstants DEF Fault, NoFault, IInv, TypeOK
    <2>2. step'[s] = "update" => Key(s) \notin keys /\ Key(s) \in keys'
        BY <1>1, <2>1 DEF Dedup, Goto, Mark
    <2>3. \A t \in Submissions : Key(t)' = Key(t)
        BY <1>1 DEF Key
    <2>4. ASSUME NEW t \in Submissions, Holding(t)', t # s
          PROVE  Holding(t) /\ Key(t) \in keys
        BY <1>1, <1>2, <1>5, <2>4 DEF Holding, IInv, Faultless, KeyFacts
    <2>5. Holding(s)' => Key(s) \notin keys /\ Key(s) \in keys'
        BY <1>1, <1>2, <2>2 DEF Holding
    <2>6. \A t \in Submissions : Holding(t)' => Key(t)' \in keys'
        BY <1>2, <2>3, <2>4, <2>5
    <2>7. ASSUME NEW t \in Submissions, NEW u \in Submissions, t # u, Holding(t)', Holding(u)'
          PROVE  Key(t)' # Key(u)'
        BY <1>5, <2>3, <2>4, <2>5, <2>7 DEF IInv, Faultless, KeyFacts
    <2> QED
        BY <2>6, <2>7 DEF KeyFacts
<1> QED
    BY <1>1, <1>3, <1>4, <1>5, FaultsTyped, RequestsMove

LEMMA UndoKeeps ==
    ASSUME IInv, NEW s \in Submissions, Undo(s)
    PROVE  IInv'
<1>1. /\ UNCHANGED <<curr, rows, workflow, covers, target, doomed>> /\ NoFault
      /\ step[s] = "undo" /\ step \in [Submissions -> SubmissionSteps]
      /\ keys' = keys \ {Key(s)}
      /\ \E to \in {"deleting", "failed"} : step' = [step EXCEPT ![s] = to]
    BY DEF Undo, Goto, IInv, TypeOK
<1>3. TypeOK'
    <2>1. step' \in [Submissions -> SubmissionSteps]
        BY <1>1 DEF SubmissionSteps
    <2>2. keys' \subseteq (Runs \cup {None}) \X SUBSET Calls
        BY <1>1 DEF IInv, TypeOK
    <2> QED
        BY <1>1, <2>1, <2>2, FaultsTyped DEF IInv, TypeOK, workflow, manager, activity
<1>4. Remembered /\ Accepted
    BY <1>1 DEF Remembered, Accepted
<1>5. ASSUME faults = 0 PROVE KeyFacts'
    <2>1. ASSUME NEW t \in Submissions, Holding(t)'
          PROVE  Holding(t) /\ Key(t)' = Key(t) /\ t # s
        BY <1>1, <2>1 DEF Holding, Key
    <2>2. Holding(s)
        BY <1>1 DEF Holding
    <2> QED
        BY <1>1, <1>5, <2>1, <2>2 DEF IInv, Faultless, KeyFacts
<1> QED
    BY <1>1, <1>3, <1>4, <1>5, FaultsTyped, RequestsMove

LEMMA ExpireKeeps ==
    ASSUME IInv, ExpireKey
    PROVE  IInv'
<1>1. UNCHANGED <<curr, rows, workflow, requests, doomed>> /\ Fault /\ keys' \subseteq keys
    BY DEF ExpireKey
<1>2. TypeOK'
    BY <1>1, FaultsTyped DEF IInv, TypeOK, workflow, manager, activity, requests
<1>3. Remembered
    BY <1>1 DEF Remembered, requests
<1>4. faults' # 0
    BY <1>1, ApprovalConstants DEF Fault, IInv, TypeOK
<1> QED
    BY <1>1, <1>2, <1>3, <1>4, FaultsTyped, RequestsMove

\* Update without a fault: the manager of the run holds no decisions yet, and
\* the run waits for them or is recording its requests.
LEMMA FirstAccepted ==
    ASSUME IInv, faults = 0, NEW s \in Submissions, step[s] = "update", NEW r \in Runs,
           target[s] = r, IsOpen(r), Valid(r, covers[s])
    PROVE  /\ approvals[r] = None /\ pc[r] \in {"recording", "waiting"}
           /\ turn[r] \in Turns /\ first[<<r, turn[r]>>] = None
<1>1. RunFacts(r) /\ WinFacts(r) /\ KeyFacts
      /\ pc[r] \in RunSteps /\ approvals[r] \in Submissions \cup {None}
    BY DEF IInv, Faultless, TypeOK
<1>2. approvals[r] = None
    <2> SUFFICES ASSUME NEW t \in Submissions, approvals[r] = t, t # None
                 PROVE  FALSE
        BY <1>1
    <2>1. step[t] = "accepted" /\ target[t] = r /\ covers[t] = expected[r]
        BY <1>1 DEF RunFacts, WinFacts
    <2>2. Key(t) = Key(s) /\ t # s /\ Holding(t) /\ Holding(s)
        BY <2>1 DEF Key, Holding, Valid
    <2> QED
        BY <1>1, <2>2 DEF KeyFacts
<1>3. pc[r] \in {"recording", "waiting"}
    BY <1>1, <1>2 DEF RunFacts, IsOpen, Valid, RunSteps
<1> QED
    BY <1>1, <1>2, <1>3 DEF RunFacts, WinFacts, InTurn

LEMMA AcceptKeeps ==
    ASSUME IInv, NEW s \in Submissions, step[s] = "update", NEW r \in Runs,
           target[s] = r, IsOpen(r), Valid(r, covers[s]),
           approvals' = [approvals EXCEPT ![r] = s],
           ready' = [ready EXCEPT ![r] = TRUE],
           first' = [first EXCEPT ![<<r, turn[r]>>] = IF @ = None THEN s ELSE @],
           \/ step' = [step EXCEPT ![s] = "accepted"] /\ NoFault
           \/ step' = [step EXCEPT ![s] = "undo"] /\ Fault,
           UNCHANGED <<curr, rows, keys, pc, turn, expected, snapshot, todo, late, executed, covers, target, doomed>>
    PROVE  IInv'
<1>a. /\ step \in [Submissions -> SubmissionSteps] /\ approvals \in [Runs -> Submissions \cup {None}]
      /\ ready \in [Runs -> BOOLEAN] /\ first \in [Runs \X Turns -> Submissions \cup {None}]
      /\ RunFacts(r) /\ s # None
    BY ApprovalConstants DEF IInv, TypeOK
<1>b. step'[s] \in {"accepted", "undo"} /\ \A t \in Submissions \ {s} : step'[t] = step[t]
    BY <1>a
<1>1. TypeOK'
    <2>1. step' \in [Submissions -> SubmissionSteps]
        BY <1>a DEF SubmissionSteps
    <2>2. approvals' \in [Runs -> Submissions \cup {None}] /\ ready' \in [Runs -> BOOLEAN]
        BY <1>a
    <2>3. first' \in [Runs \X Turns -> Submissions \cup {None}]
        BY <1>a
    <2> QED
        BY <2>1, <2>2, <2>3, FaultsTyped DEF IInv, TypeOK
<1>2. Remembered /\ Accepted
    BY <1>a DEF Remembered, Accepted
<1>3. ASSUME NEW q \in Runs, q # r PROVE SameRun(q)
    BY <1>3, <1>a DEF SameRun
<1>4. RunFacts(r)'
    <2>1. approvals'[r] = s /\ ready'[r] = TRUE
        BY <1>a
    <2>2. InTurn(r)' <=> InTurn(r)
        BY DEF InTurn
    <2> QED
        BY <1>a, <1>b, <2>1, <2>2 DEF RunFacts, Valid, CallsOf
<1>5. ASSUME NEW q \in Runs PROVE RunFacts(q)'
    BY <1>2, <1>3, <1>4, RunKeeps
<1>6. ASSUME NEW c \in Calls PROVE SightedFacts(c)' /\ RowFacts(c)'
    <2>1. executed[c] \in Submissions \cup {None} /\ SightedFacts(c) /\ RowFacts(c)
        BY DEF IInv, TypeOK
    <2> QED
        BY <1>2, <2>1 DEF SightedFacts, RowFacts, Remembered
<1>7. LateFacts'
    BY DEF IInv, LateFacts, Decided
<1>8. ASSUME faults' = 0
      PROVE  KeyFacts' /\ LateGone' /\ (\A q \in Runs : WinFacts(q)') /\ \A c \in Calls : ExecutedFacts(c)'
    <2>0. faults = 0 /\ step' = [step EXCEPT ![s] = "accepted"]
        <3>1. faults = 0 /\ NoFault
            BY <1>8, FaultsTyped
        <3>2. ~Fault
            BY <1>8, <3>1, ApprovalConstants DEF Fault
        <3> QED
            BY <3>1, <3>2
    <2>1. /\ approvals[r] = None /\ pc[r] \in {"recording", "waiting"}
          /\ turn[r] \in Turns /\ first[<<r, turn[r]>>] = None /\ WinFacts(r)
        BY <2>0, FirstAccepted DEF IInv, Faultless
    <2>2. /\ first'[<<r, turn[r]>>] = s
          /\ \A q \in Runs, k \in Turns : <<q, k>> # <<r, turn[r]>> => first'[<<q, k>>] = first[<<q, k>>]
        BY <1>a, <2>1
    <2>3. KeyFacts'
        <3>1. \A t \in Submissions : (Holding(t)' <=> Holding(t)) /\ Key(t)' = Key(t)
            BY <1>a, <1>b DEF Holding, Key
        <3> QED
            BY <2>0, <3>1 DEF IInv, Faultless, KeyFacts
    <2>4. ASSUME NEW q \in Runs PROVE WinFacts(q)'
        <3>1. CASE q # r
            BY <1>2, <1>3, <2>0, <2>2, <3>1, WinKeeps
        <3>2. CASE q = r
            <4>1. approvals'[r] = s /\ step'[s] = "accepted" /\ target'[s] = r
                BY <1>a, <2>0
            <4>2. InTurn(r)' /\ InTurn(r)
                BY <2>1 DEF InTurn
            <4>3. \A k \in Turns : k > turn'[r] => first'[<<r, k>>] = None
                BY <2>1, <2>2 DEF WinFacts, Turns
            <4> QED
                BY <2>1, <2>2, <3>2, <4>1, <4>2, <4>3 DEF WinFacts
        <3> QED
            BY <3>1, <3>2
    <2>5. ASSUME NEW c \in Calls PROVE ExecutedFacts(c)'
        <3>1. ExecutedFacts(c) /\ c[1] \in Runs /\ c[2] \in Turns
            BY <2>0, CallParts DEF IInv, Faultless
        <3>2. executed[c] # None /\ c[1] = r => c[2] < turn[r]
            BY <2>1, <3>1 DEF ExecutedFacts
        <3>3. executed[c] # None => first'[<<c[1], c[2]>>] = first[<<c[1], c[2]>>]
            BY <2>1, <2>2, <3>1, <3>2 DEF Turns
        <3> QED
            BY <3>1, <3>3 DEF ExecutedFacts
    <2>6. LateGone'
        BY <2>0 DEF IInv, Faultless, LateGone
    <2> QED
        BY <2>3, <2>4, <2>5, <2>6
<1> QED
    BY <1>1, <1>5, <1>6, <1>7, <1>8 DEF IInv, Faultless

LEMMA RejectKeeps ==
    ASSUME IInv, NEW s \in Submissions, step[s] = "update",
           step' = [step EXCEPT ![s] = "undo"], NoFault,
           UNCHANGED <<curr, rows, keys, workflow, covers, target, doomed>>
    PROVE  IInv'
<1>1. step \in [Submissions -> SubmissionSteps]
    BY DEF IInv, TypeOK
<1>2. TypeOK'
    <2>1. step' \in [Submissions -> SubmissionSteps]
        BY <1>1 DEF SubmissionSteps
    <2> QED
        BY <2>1, FaultsTyped DEF IInv, TypeOK, workflow, manager, activity
<1>3. Remembered /\ Accepted
    BY <1>1 DEF Remembered, Accepted
<1>4. ASSUME faults = 0 PROVE KeyFacts'
    <2>1. \A t \in Submissions : (Holding(t)' <=> Holding(t)) /\ Key(t)' = Key(t)
        BY <1>1 DEF Holding, Key
    <2> QED
        BY <1>4, <2>1 DEF IInv, Faultless, KeyFacts
<1> QED
    BY <1>2, <1>3, <1>4, FaultsTyped, RequestsMove

LEMMA UpdateKeeps ==
    ASSUME IInv, NEW s \in Submissions, Update(s)
    PROVE  IInv'
<1>1. /\ step[s] = "update"
      /\ UNCHANGED <<curr, rows, keys, pc, turn, expected, snapshot, todo, late, executed, covers, target, doomed>>
    BY DEF Update, activity
<1>2. CASE target[s] \in Runs /\ IsOpen(target[s]) /\ Valid(target[s], covers[s])
    <2>1. PICK r \in Runs : target[s] = r
        BY <1>2
    <2>2. /\ approvals' = [approvals EXCEPT ![r] = s]
          /\ ready' = [ready EXCEPT ![r] = TRUE]
          /\ first' = [first EXCEPT ![<<r, turn[r]>>] = IF @ = None THEN s ELSE @]
          /\ \/ step' = [step EXCEPT ![s] = "accepted"] /\ NoFault
             \/ step' = [step EXCEPT ![s] = "undo"] /\ Fault
        BY <1>2, <2>1 DEF Update, MarkReady, Goto
    <2>3. IsOpen(r) /\ Valid(r, covers[s])
        BY <1>2, <2>1
    <2> QED
        BY <1>1, <2>1, <2>2, <2>3, AcceptKeeps
<1>3. CASE ~(target[s] \in Runs /\ IsOpen(target[s]) /\ Valid(target[s], covers[s]))
    BY <1>1, <1>3, RejectKeeps DEF Update, Goto, workflow, manager, activity
<1> QED
    BY <1>2, <1>3

\* DeleteRow: a deleted row disturbs nothing but the one who waits for it.
LEMMA DeleteKeeps ==
    ASSUME IInv, NEW s \in Submissions, DeleteRow(s)
    PROVE  IInv'
<1>1. /\ step[s] = "deleting" /\ UNCHANGED <<curr, keys, workflow, covers, target>> /\ NoFault
      /\ step \in [Submissions -> SubmissionSteps] /\ doomed \in [Submissions -> SUBSET Calls]
    BY DEF DeleteRow, IInv, TypeOK
<1>2. CASE doomed[s] = {} /\ step' = [step EXCEPT ![s] = "failed"] /\ UNCHANGED <<rows, doomed>>
    <2>1. step' \in [Submissions -> SubmissionSteps]
        BY <1>1, <1>2 DEF SubmissionSteps
    <2>2. TypeOK'
        BY <1>1, <1>2, <2>1, FaultsTyped DEF IInv, TypeOK, workflow, manager, activity
    <2>3. Remembered /\ Accepted
        BY <1>1, <1>2 DEF Remembered, Accepted
    <2>4. ASSUME faults = 0 PROVE KeyFacts'
        <3>1. \A t \in Submissions : (Holding(t)' <=> Holding(t)) /\ Key(t)' = Key(t)
            BY <1>1, <1>2 DEF Holding, Key
        <3> QED
            BY <1>1, <2>4, <3>1 DEF IInv, Faultless, KeyFacts
    <2> QED
        BY <1>1, <1>2, <2>2, <2>3, <2>4, FaultsTyped, RequestsMove
<1>3. CASE \E c \in doomed[s] : /\ rows' = [rows EXCEPT ![c] = "deleted"]
                                /\ doomed' = [t \in Submissions |-> doomed[t] \ {c}]
                                /\ UNCHANGED step
    <2>1. PICK c \in doomed[s] : /\ rows' = [rows EXCEPT ![c] = "deleted"]
                                 /\ doomed' = [t \in Submissions |-> doomed[t] \ {c}]
                                 /\ UNCHANGED step
        BY <1>3
    <2>2. c \in Calls /\ doomed' \in [Submissions -> SUBSET Calls]
        BY <1>1, <2>1
    <2>3. rows' \in [Calls -> {"none", "pending", "deleted"} \cup Submissions]
        BY <2>1, <2>2 DEF IInv, TypeOK
    <2>4. TypeOK'
        BY <1>1, <2>1, <2>2, <2>3 DEF IInv, TypeOK, NoFault, workflow, manager, activity
    <2> QED
        BY <1>1, <2>1, <2>2, <2>4, RowMoves DEF NoFault, workflow, manager, activity
<1> QED
    BY <1>1, <1>2, <1>3 DEF DeleteRow, Goto

\* LateWrite: decisions that come late are about calls that are decided, and
\* without timeouts about calls that were not executed.
LEMMA LateWriteKeeps ==
    ASSUME IInv, LateWrite
    PROVE  IInv'
<1>1. PICK w \in late :
          /\ rows' = [rows EXCEPT ![w[1]] = Stored(w[1], w[2])]
          /\ late' \subseteq late
          /\ NoFault
          /\ UNCHANGED <<curr, keys, pc, turn, manager, snapshot, todo, executed, first, requests, doomed>>
    BY DEF LateWrite
<1>2. /\ w[1] \in Calls /\ w[2] \in {"pending"} \cup Submissions
      /\ Stored(w[1], w[2]) \in {"pending", w[2]}
      /\ w[2] # "pending" => Decided(w[1])
      /\ faults = 0 => pc[w[1][1]] = "ended" /\ executed[w[1]] = None
    BY DEF IInv, TypeOK, LateFacts, Faultless, LateGone, Stored
<1>3. rows' \in [Calls -> {"none", "pending", "deleted"} \cup Submissions]
    BY <1>1, <1>2 DEF IInv, TypeOK
<1>4. TypeOK'
    BY <1>1, <1>3 DEF IInv, TypeOK, NoFault, manager, requests
<1>5. PICK c \in Calls : c = w[1]
    BY <1>2
<1>6. PICK v : v = Stored(w[1], w[2])
    OBVIOUS
<1>7. v \in {"pending", "deleted"} \/ Decided(c)
    BY <1>2, <1>5, <1>6
<1> QED
    BY <1>1, <1>2, <1>4, <1>5, <1>6, <1>7, RowMoves DEF NoFault, requests

-----------------------------------------------------------------------------
(* Runs.                                                                   *)

\* A step that only takes a run further.
LEMMA Advances ==
    ASSUME IInv, NEW r \in Runs, NEW to \in RunSteps, pc' = [pc EXCEPT ![r] = to],
           UNCHANGED <<rows, keys, turn, manager, activity, executed, first, requests, doomed>>,
           curr' \in Runs \cup {None},
           faults' \in 0 .. MaxFaults, faults' = 0 => faults = 0,
           \/ pc[r] = "new" /\ to = "validated"
           \/ pc[r] = "validated" /\ to \in {"starting", "done"}
           \/ pc[r] = "starting" /\ to = "agent"
           \/ pc[r] = "agent" /\ to = "done"
           \/ pc[r] = "recording" /\ to = "waiting" /\ todo[r] = {}
    PROVE  IInv'
<1>a. /\ UNCHANGED <<expected, approvals, ready, snapshot, todo, late, step, covers, target>>
      /\ pc \in [Runs -> RunSteps] /\ RunFacts(r)
    BY DEF manager, activity, requests, IInv, TypeOK
<1>b. pc'[r] = to /\ \A q \in Runs \ {r} : pc'[q] = pc[q]
    BY <1>a
<1>1. TypeOK'
    BY <1>a DEF IInv, TypeOK
<1>2. \A q \in Runs \ {r} : SameRun(q)
    BY <1>a, <1>b DEF SameRun
<1>3. \A c \in Calls : SameCall(c)
    BY DEF SameCall
<1>4. RunFacts(r)'
    BY <1>a, <1>b DEF RunFacts, InTurn, CallsOf
<1>5. ASSUME NEW c \in Calls, c[1] = r PROVE SightedFacts(c)' /\ RowFacts(c)'
    BY <1>5, <1>a, <1>b DEF IInv, SightedFacts, RowFacts
<1>6. ASSUME faults = 0 PROVE WinFacts(r)'
    <2>1. WinFacts(r)
        BY <1>6 DEF IInv, Faultless
    <2> QED
        BY <1>a, <1>b, <2>1 DEF WinFacts, InTurn, CallsOf
<1>7. ASSUME faults = 0, NEW c \in Calls, c[1] = r PROVE ExecutedFacts(c)'
    BY <1>7, <1>a, <1>b DEF IInv, Faultless, ExecutedFacts
<1>8. LateFacts' /\ (faults = 0 => LateGone')
    <2>1. \A c \in Calls : c[1] = r /\ Decided(c) => Decided(c)'
        BY <1>a, <1>b DEF Decided
    <2> QED
        BY <1>2, <1>a, <2>1, LateKeeps
<1> QED
    BY <1>1, <1>2, <1>3, <1>4, <1>5, <1>6, <1>7, <1>8, RunMoves DEF SameCall

LEMMA ValidateKeeps ==
    ASSUME IInv, NEW r \in Runs, Validate(r)
    PROVE  IInv'
<1>1. /\ pc[r] = "new" /\ pc' = [pc EXCEPT ![r] = "validated"] /\ NoFault
      /\ UNCHANGED <<curr, rows, keys, turn, manager, activity, executed, first, requests, doomed>>
      /\ curr' \in Runs \cup {None}
    BY DEF Validate, IInv, TypeOK
<1> QED
    BY <1>1, FaultsTyped, Advances DEF RunSteps

LEMMA StartRunKeeps ==
    ASSUME IInv, NEW r \in Runs, StartRun(r) \/ CreateSession(r)
    PROVE  IInv'
<1>1. /\ UNCHANGED <<rows, keys, turn, manager, activity, executed, first, requests, doomed>>
      /\ curr' = r /\ (NoFault \/ Fault)
    BY DEF StartRun, CreateSession
<1>2. PICK to \in RunSteps :
          /\ pc' = [pc EXCEPT ![r] = to]
          /\ \/ pc[r] = "validated" /\ to \in {"starting", "done"}
             \/ pc[r] = "starting" /\ to = "agent"
    BY DEF StartRun, CreateSession, RunSteps
<1> QED
    BY <1>1, <1>2, FaultsTyped, Advances

LEMMA RecordedKeeps ==
    ASSUME IInv, NEW r \in Runs, Recorded(r)
    PROVE  IInv'
<1>1. /\ UNCHANGED <<curr, rows, keys, turn, manager, activity, executed, first, requests, doomed>>
      /\ NoFault /\ pc[r] = "recording" /\ todo[r] = {} /\ pc' = [pc EXCEPT ![r] = "waiting"]
      /\ curr' \in Runs \cup {None}
    BY DEF Recorded, IInv, TypeOK
<1> QED
    BY <1>1, FaultsTyped, Advances DEF RunSteps

\* AgentTurn: prepare() forgets the decisions of the turn before.
LEMMA AgentTurnKeeps ==
    ASSUME IInv, NEW r \in Runs, AgentTurn(r)
    PROVE  IInv'
<1>0. /\ UNCHANGED <<curr, rows, keys, turn, snapshot, late, executed, first, requests, doomed>> /\ NoFault
      /\ pc[r] = "agent" /\ curr' \in Runs \cup {None} /\ pc \in [Runs -> RunSteps]
    BY DEF AgentTurn, IInv, TypeOK
<1>1. CASE pc' = [pc EXCEPT ![r] = "done"] /\ UNCHANGED <<manager, todo>>
    BY <1>0, <1>1, FaultsTyped, Advances DEF RunSteps, activity
<1>2. CASE ~(pc' = [pc EXCEPT ![r] = "done"] /\ UNCHANGED <<manager, todo>>)
    <2>1. /\ turn[r] \in Turns
          /\ approvals' = [approvals EXCEPT ![r] = None]
          /\ ready' = [ready EXCEPT ![r] = FALSE]
          /\ expected' = [expected EXCEPT ![r] = CallsOf(r, turn[r])]
          /\ todo' = [todo EXCEPT ![r] = CallsOf(r, turn[r])]
          /\ pc' = [pc EXCEPT ![r] = "recording"]
        BY <1>2 DEF AgentTurn
    <2>2. /\ approvals \in [Runs -> Submissions \cup {None}] /\ ready \in [Runs -> BOOLEAN]
          /\ expected \in [Runs -> SUBSET Calls] /\ todo \in [Runs -> SUBSET Calls]
          /\ CallsOf(r, turn[r]) \subseteq Calls /\ RunFacts(r)
          /\ UNCHANGED <<step, covers, target>>
        BY <1>0, <2>1, CallsOfIs DEF IInv, TypeOK, requests
    <2>3. /\ approvals'[r] = None /\ ready'[r] = FALSE /\ expected'[r] = CallsOf(r, turn[r])
          /\ todo'[r] = CallsOf(r, turn[r]) /\ pc'[r] = "recording" /\ turn'[r] = turn[r]
        BY <1>0, <2>1, <2>2
    <2>4. TypeOK'
        <3>1. pc' \in [Runs -> RunSteps]
            BY <1>0, <2>1 DEF RunSteps
        <3>2. approvals' \in [Runs -> Submissions \cup {None}] /\ ready' \in [Runs -> BOOLEAN]
              /\ expected' \in [Runs -> SUBSET Calls] /\ todo' \in [Runs -> SUBSET Calls]
            BY <2>1, <2>2
        <3> QED
            BY <1>0, <2>2, <3>1, <3>2, FaultsTyped DEF IInv, TypeOK
    <2>5. \A q \in Runs \ {r} : SameRun(q)
        BY <1>0, <2>1, <2>2 DEF SameRun
    <2>6. \A c \in Calls : SameCall(c)
        BY <1>0 DEF SameCall
    <2>7. RunFacts(r)'
        BY <2>1, <2>3 DEF RunFacts, InTurn, CallsOf
    <2>8. LateFacts' /\ (faults = 0 => LateGone')
        <3>1. \A c \in Calls : c[1] = r /\ Decided(c) => Decided(c)'
            BY <1>0, <2>3 DEF Decided
        <3> QED
            BY <1>0, <2>5, <3>1, LateKeeps
    <2>9. ASSUME NEW c \in Calls, c[1] = r PROVE SightedFacts(c)' /\ RowFacts(c)'
        <3>1. SightedFacts(c)'
            BY <1>0, <2>2, <2>9 DEF IInv, SightedFacts
        <3>2. c[2] = turn[r] => c \in todo'[r]
            BY <2>1, <2>3, <2>9, CallsOfIs
        <3> QED
            BY <2>3, <2>9, <3>1, <3>2 DEF RowFacts
    <2>10. ASSUME faults = 0 PROVE WinFacts(r)'
        <3>1. WinFacts(r)
            BY <2>10 DEF IInv, Faultless
        <3> QED
            BY <1>0, <2>1, <2>3, <3>1 DEF WinFacts, InTurn
    <2>11. ASSUME faults = 0, NEW c \in Calls, c[1] = r PROVE ExecutedFacts(c)'
        BY <1>0, <2>11 DEF IInv, Faultless, ExecutedFacts
    <2> QED
        BY <1>0, <2>4, <2>5, <2>6, <2>7, <2>8, <2>9, <2>10, <2>11, FaultsTyped, RunMoves
<1> QED
    BY <1>1, <1>2

\* A row of the turn is written: x is v, or a placeholder for it.
LEMMA WriteKeeps ==
    ASSUME IInv, NEW r \in Runs, NEW v \in {"pending"} \cup Submissions, NEW c \in todo[r],
           NEW x \in {"pending", v},
           rows' = [rows EXCEPT ![c] = x],
           todo' = [todo EXCEPT ![r] = IF x = v THEN @ \ {c} ELSE @], NoFault,
           UNCHANGED <<curr, keys, pc, turn, manager, snapshot, late, executed, first, requests, doomed>>,
           \/ pc[r] = "recording" /\ v = "pending"
           \/ pc[r] = "handling" /\ v = snapshot[r] /\ v \in Submissions
    PROVE  IInv'
<1>a. /\ UNCHANGED <<expected, approvals, ready, step, covers, target>>
      /\ rows \in [Calls -> {"none", "pending", "deleted"} \cup Submissions]
      /\ todo \in [Runs -> SUBSET Calls] /\ RunFacts(r)
    BY DEF manager, requests, IInv, TypeOK
<1>c. /\ c \in Calls /\ c[1] = r /\ c[2] = turn[r] /\ turn[r] \in Turns
      /\ c \in CallsOf(r, turn[r]) /\ CallsOf(r, turn[r]) \subseteq Calls
    <2>1. turn[r] \in Turns /\ c \in CallsOf(r, turn[r])
        BY <1>a DEF RunFacts, InTurn
    <2> QED
        BY <2>1, CallsOfIs
<1>b. /\ rows'[c] = x /\ \A d \in Calls \ {c} : rows'[d] = rows[d]
      /\ todo'[r] = (IF x = v THEN todo[r] \ {c} ELSE todo[r])
      /\ \A q \in Runs \ {r} : todo'[q] = todo[q]
    BY <1>a, <1>c
<1>1. TypeOK'
    <2>1. rows' \in [Calls -> {"none", "pending", "deleted"} \cup Submissions]
        BY <1>a, <1>c
    <2>2. todo' \in [Runs -> SUBSET Calls]
        BY <1>a
    <2> QED
        BY <1>a, <2>1, <2>2, FaultsTyped DEF IInv, TypeOK
<1>2. \A q \in Runs \ {r} : SameRun(q)
    BY <1>a, <1>b DEF SameRun
<1>3. \A d \in Calls : d[1] # r => SameCall(d)
    BY <1>b, <1>c DEF SameCall
<1>4. RunFacts(r)'
    <2>1. InTurn(r)' <=> InTurn(r)
        BY DEF InTurn
    <2> QED
        BY <1>a, <1>b, <2>1 DEF RunFacts, CallsOf
<1>5. LateFacts' /\ (faults = 0 => LateGone')
    BY <1>2, LateKeeps DEF Decided
<1>6. ASSUME NEW d \in Calls, d[1] = r PROVE SightedFacts(d)' /\ RowFacts(d)'
    <2>1. SightedFacts(d) /\ RowFacts(d)
        BY DEF IInv
    <2>2. SightedFacts(d)'
        BY <1>a, <2>1 DEF SightedFacts
    <2>3. CASE d # c
        BY <1>a, <1>b, <1>6, <2>1, <2>2, <2>3 DEF RowFacts
    <2>4. CASE d = c
        BY <1>b, <1>c, <1>6, <2>2, <2>4 DEF RowFacts
    <2> QED
        BY <2>3, <2>4
<1>7. ASSUME faults = 0 PROVE WinFacts(r)'
    <2>1. WinFacts(r)
        BY <1>7 DEF IInv, Faultless
    <2>2. ASSUME pc[r] = "handling", NEW d \in CallsOf(r, turn[r]) \ todo'[r]
          PROVE  rows'[d] \in {snapshot[r], "deleted"}
        <3>1. CASE d = c
            BY <1>b, <2>2, <3>1
        <3>2. CASE d # c
            <4>1. rows'[d] = rows[d] /\ d \notin todo[r]
                BY <1>b, <1>c, <2>2, <3>2
            <4> QED
                BY <2>1, <2>2, <4>1 DEF WinFacts
        <3> QED
            BY <3>1, <3>2
    <2>3. InTurn(r)' <=> InTurn(r)
        BY DEF InTurn
    <2> QED
        BY <1>a, <2>1, <2>2, <2>3 DEF WinFacts, CallsOf
<1>8. ASSUME faults = 0, NEW d \in Calls, d[1] = r PROVE ExecutedFacts(d)'
    <2>1. ExecutedFacts(d) /\ turn[r] \in Nat
        BY <1>8, <1>c DEF IInv, Faultless, Turns
    <2>2. executed[d] # None => d # c
        BY <1>8, <1>c, <2>1 DEF ExecutedFacts
    <2> QED
        BY <1>b, <2>1, <2>2 DEF ExecutedFacts
<1> QED
    BY <1>1, <1>2, <1>3, <1>4, <1>5, <1>6, <1>7, <1>8, RunMoves DEF NoFault

LEMMA RecordKeeps ==
    ASSUME IInv, NEW r \in Runs, RecordRequest(r)
    PROVE  IInv'
<1>1. pc[r] = "recording"
    BY DEF RecordRequest
<1>2. PICK v \in {"pending"} \cup Submissions : v = "pending"
    OBVIOUS
<1>3. PICK c \in todo[r] :
          /\ rows' = [rows EXCEPT ![c] = Stored(c, v)] /\ NoFault
          /\ todo' = [todo EXCEPT ![r] = IF Stored(c, v) = v THEN @ \ {c} ELSE @]
          /\ UNCHANGED <<curr, keys, pc, turn, manager, snapshot, late, executed, first, requests, doomed>>
    BY <1>2 DEF RecordRequest, WriteRow
<1>4. PICK x \in {"pending", v} : x = Stored(c, v)
    BY DEF Stored
<1> QED
    BY <1>1, <1>2, <1>3, <1>4, WriteKeeps

LEMMA ApplyKeeps ==
    ASSUME IInv, NEW r \in Runs, ApplyDecision(r)
    PROVE  IInv'
<1>1. pc[r] = "handling" /\ snapshot[r] \in Submissions
    BY DEF ApplyDecision, IInv, TypeOK, RunFacts
<1>2. PICK v \in Submissions : v = snapshot[r]
    BY <1>1
<1>3. PICK c \in todo[r] :
          /\ rows' = [rows EXCEPT ![c] = Stored(c, v)] /\ NoFault
          /\ todo' = [todo EXCEPT ![r] = IF Stored(c, v) = v THEN @ \ {c} ELSE @]
          /\ UNCHANGED <<curr, keys, pc, turn, manager, snapshot, late, executed, first, requests, doomed>>
    BY <1>2 DEF ApplyDecision, WriteRow, Decision
<1>4. PICK x \in {"pending", v} : x = Stored(c, v)
    BY DEF Stored
<1> QED
    BY <1>1, <1>2, <1>3, <1>4, WriteKeeps

\* An attempt times out: what it may still write is pending, or about calls
\* that are being decided.
LEMMA TimeoutKeeps ==
    ASSUME IInv, NEW r \in Runs, AttemptTimesOut(r)
    PROVE  IInv'
<1>a. /\ pc[r] \in {"recording", "handling"} /\ Fault
      /\ UNCHANGED <<curr, rows, keys, pc, turn, expected, approvals, ready, snapshot, executed, first>>
      /\ UNCHANGED <<step, covers, target, doomed>>
      /\ late' = late \cup Abandoned(r) /\ todo' = [todo EXCEPT ![r] = expected[r]]
      /\ todo \in [Runs -> SUBSET Calls] /\ RunFacts(r) /\ snapshot[r] \in Submissions \cup {None}
      /\ expected[r] \subseteq Calls
    BY DEF AttemptTimesOut, IInv, TypeOK, manager, requests
<1>b. /\ todo'[r] = expected[r] /\ \A q \in Runs \ {r} : todo'[q] = todo[q]
      /\ expected[r] = CallsOf(r, turn[r]) /\ turn[r] \in Turns /\ todo[r] \subseteq CallsOf(r, turn[r])
    BY <1>a DEF RunFacts, InTurn
<1>c. ASSUME NEW w \in Abandoned(r)
      PROVE  /\ w \in Calls \X ({"pending"} \cup Submissions)
             /\ w[1][1] = r /\ w[1][2] = turn[r]
             /\ w[2] # "pending" => pc[r] = "handling"
    <2>1. w[1] \in todo[r] /\ w[2] = Written(r) /\ w = <<w[1], w[2]>>
        BY <1>a DEF Abandoned
    <2>2. w[1] \in Calls /\ w[1][1] = r /\ w[1][2] = turn[r]
        BY <1>b, <2>1, CallsOfIs
    <2>3. Written(r) \in {"pending"} \cup Submissions /\ (Written(r) # "pending" => pc[r] = "handling")
        BY <1>a DEF Written, Decision, RunFacts
    <2> QED
        BY <2>1, <2>2, <2>3
<1>1. TypeOK'
    <2>1. todo' \in [Runs -> SUBSET Calls]
        BY <1>a
    <2>2. late' \subseteq Calls \X ({"pending"} \cup Submissions)
        BY <1>a, <1>c DEF IInv, TypeOK
    <2> QED
        BY <1>a, <2>1, <2>2, FaultsTyped DEF IInv, TypeOK
<1>2. \A q \in Runs \ {r} : SameRun(q)
    BY <1>a, <1>b DEF SameRun
<1>3. \A d \in Calls : SameCall(d)
    BY <1>a DEF SameCall
<1>4. RunFacts(r)'
    <2>1. InTurn(r)' <=> InTurn(r)
        BY <1>a DEF InTurn
    <2> QED
        BY <1>a, <1>b, <2>1 DEF RunFacts, CallsOf
<1>5. LateFacts'
    <2>1. ASSUME NEW w \in late', w[2] # "pending" PROVE Decided(w[1])'
        <3>1. CASE w \in late
            BY <1>a, <2>1, <3>1 DEF IInv, LateFacts, Decided
        <3>2. CASE w \in Abandoned(r)
            BY <1>a, <1>c, <2>1, <3>2 DEF Decided
        <3> QED
            BY <1>a, <3>1, <3>2
    <2> QED
        BY <2>1 DEF LateFacts
<1>6. ASSUME NEW d \in Calls, d[1] = r PROVE SightedFacts(d)' /\ RowFacts(d)'
    <2>1. SightedFacts(d)'
        BY <1>a DEF IInv, SightedFacts
    <2>2. d[2] = turn[r] => d \in todo'[r]
        BY <1>b, <1>6, CallsOfIs
    <2> QED
        BY <1>6, <1>a, <2>1, <2>2 DEF RowFacts
<1>7. ASSUME NEW q \in Runs PROVE RunFacts(q)'
    BY <1>2, <1>4, <1>a, RunKeeps DEF Remembered
<1>8. ASSUME NEW d \in Calls PROVE SightedFacts(d)' /\ RowFacts(d)'
    <2>1. CASE d[1] # r
        BY <1>2, <1>3, <1>a, <2>1, CallParts, CallKeeps DEF Remembered
    <2> QED
        BY <1>6, <2>1
<1>9. faults' # 0
    BY <1>a, ApprovalConstants DEF Fault, IInv, TypeOK
<1> QED
    BY <1>1, <1>5, <1>7, <1>8, <1>9 DEF IInv, Faultless

\* End: what the attempt may still write is about calls that nobody executed.
LEMMA EndKeeps ==
    ASSUME IInv, NEW r \in Runs, End(r)
    PROVE  IInv'
<1>a. /\ IsOpen(r) /\ NoFault
      /\ UNCHANGED <<curr, rows, keys, turn, executed, first, requests, doomed>>
      /\ UNCHANGED <<step, covers, target>>
      /\ pc' = [pc EXCEPT ![r] = "ended"] /\ late' = late \cup Abandoned(r)
      /\ pc \in [Runs -> RunSteps] /\ RunFacts(r) /\ snapshot[r] \in Submissions \cup {None}
      /\ todo \in [Runs -> SUBSET Calls]
    BY DEF End, IInv, TypeOK, requests
<1>m. /\ expected' = [expected EXCEPT ![r] = {}] /\ approvals' = [approvals EXCEPT ![r] = None]
      /\ ready' = [ready EXCEPT ![r] = FALSE] /\ snapshot' = [snapshot EXCEPT ![r] = None]
      /\ todo' = [todo EXCEPT ![r] = {}]
    BY DEF End
<1>b. /\ pc'[r] = "ended" /\ expected'[r] = {} /\ approvals'[r] = None /\ ready'[r] = FALSE
      /\ snapshot'[r] = None /\ todo'[r] = {}
    BY <1>a, <1>m DEF IInv, TypeOK
<1>c. ASSUME NEW w \in Abandoned(r)
      PROVE  /\ w \in Calls \X ({"pending"} \cup Submissions)
             /\ w[1] \in Calls /\ w[1][1] = r /\ w[1][2] = turn[r] /\ turn[r] \in Turns
             /\ pc[r] \in {"recording", "handling"}
    <2>1. /\ w[1] \in todo[r] /\ w[2] = Written(r) /\ w = <<w[1], w[2]>>
          /\ pc[r] \in {"recording", "handling"}
        BY DEF Abandoned
    <2>2. turn[r] \in Turns /\ todo[r] \subseteq CallsOf(r, turn[r])
        BY <1>a, <2>1 DEF RunFacts, InTurn
    <2>3. w[1] \in Calls /\ w[1][1] = r /\ w[1][2] = turn[r]
        BY <2>1, <2>2, CallsOfIs
    <2>4. Written(r) \in {"pending"} \cup Submissions
        BY <1>a, <2>1 DEF Written, Decision, RunFacts
    <2> QED
        BY <2>1, <2>2, <2>3, <2>4
<1>1. TypeOK'
    <2>1. pc' \in [Runs -> RunSteps]
        BY <1>a DEF RunSteps
    <2>2. /\ approvals' \in [Runs -> Submissions \cup {None}] /\ ready' \in [Runs -> BOOLEAN]
          /\ expected' \in [Runs -> SUBSET Calls] /\ todo' \in [Runs -> SUBSET Calls]
          /\ snapshot' \in [Runs -> Submissions \cup {None}]
        BY <1>m DEF IInv, TypeOK
    <2>3. late' \subseteq Calls \X ({"pending"} \cup Submissions)
        BY <1>a, <1>c DEF IInv, TypeOK
    <2> QED
        BY <1>a, <2>1, <2>2, <2>3, FaultsTyped DEF IInv, TypeOK
<1>2. \A q \in Runs \ {r} : SameRun(q)
    BY <1>a, <1>m DEF SameRun, IInv, TypeOK
<1>3. \A d \in Calls : SameCall(d)
    BY <1>a DEF SameCall
<1>4. RunFacts(r)'
    BY <1>b DEF RunFacts, InTurn
<1>5. LateFacts'
    <2>1. ASSUME NEW w \in late', w[2] # "pending" PROVE Decided(w[1])'
        <3>1. CASE w \in late
            <4>1. Decided(w[1]) /\ w[1][1] \in Runs
                BY <2>1, <3>1, CallParts DEF IInv, TypeOK, LateFacts
            <4> QED
                BY <1>a, <1>b, <4>1 DEF Decided
        <3>2. CASE w \in Abandoned(r)
            BY <1>b, <1>c, <3>2 DEF Decided
        <3> QED
            BY <1>a, <3>1, <3>2
    <2> QED
        BY <2>1 DEF LateFacts
<1>6. ASSUME NEW d \in Calls, d[1] = r PROVE SightedFacts(d)' /\ RowFacts(d)'
    BY <1>6, <1>a, <1>b DEF IInv, SightedFacts, RowFacts
<1>7. ASSUME faults = 0 PROVE LateGone'
    <2>1. ASSUME NEW w \in late' PROVE pc'[w[1][1]] = "ended" /\ executed'[w[1]] = None
        <3>1. CASE w \in late
            <4>1. pc[w[1][1]] = "ended" /\ executed[w[1]] = None /\ w[1][1] \in Runs
                BY <1>7, <3>1, CallParts DEF IInv, TypeOK, Faultless, LateGone
            <4> QED
                BY <1>a, <1>b, <4>1
        <3>2. CASE w \in Abandoned(r)
            <4>1. ExecutedFacts(w[1]) /\ turn[r] \in Int
                BY <1>7, <1>c, <3>2 DEF IInv, Faultless, Turns
            <4> QED
                BY <1>a, <1>b, <1>c, <3>2, <4>1 DEF ExecutedFacts, Turns
        <3> QED
            BY <1>a, <3>1, <3>2
    <2> QED
        BY <2>1 DEF LateGone
<1>8. ASSUME faults = 0 PROVE WinFacts(r)'
    <2>1. WinFacts(r)
        BY <1>8 DEF IInv, Faultless
    <2> QED
        BY <1>a, <1>b, <2>1 DEF WinFacts, InTurn
<1>9. ASSUME faults = 0, NEW d \in Calls, d[1] = r PROVE ExecutedFacts(d)'
    BY <1>9, <1>a, <1>b DEF IInv, Faultless, ExecutedFacts
<1> QED
    BY <1>1, <1>2, <1>3, <1>4, <1>5, <1>6, <1>7, <1>8, <1>9, <1>a, RunMoves DEF NoFault, SameCall

LEMMA HandleKeeps ==
    ASSUME IInv, NEW r \in Runs, HandleDecisions(r)
    PROVE  IInv'
<1>a. /\ pc[r] = "waiting" /\ approvals[r] # None /\ RunFacts(r)
      /\ UNCHANGED <<curr, rows, keys, turn, expected, approvals, ready, late, executed, first, requests>>
      /\ UNCHANGED <<step, covers, target, doomed>> /\ NoFault
      /\ pc \in [Runs -> RunSteps] /\ snapshot \in [Runs -> Submissions \cup {None}]
      /\ todo \in [Runs -> SUBSET Calls] /\ expected[r] \subseteq Calls
      /\ approvals[r] \in Submissions \cup {None}
    BY DEF HandleDecisions, IsReady, IInv, TypeOK, RunFacts, manager, requests
<1>b. /\ pc' = [pc EXCEPT ![r] = "handling"] /\ snapshot' = [snapshot EXCEPT ![r] = approvals[r]]
      /\ todo' = [todo EXCEPT ![r] = expected[r]]
    BY <1>a DEF HandleDecisions
<1>c. /\ pc'[r] = "handling" /\ snapshot'[r] = approvals[r] /\ todo'[r] = expected[r]
      /\ expected[r] = CallsOf(r, turn[r]) /\ turn[r] \in Turns
    BY <1>a, <1>b DEF RunFacts, InTurn
<1>1. TypeOK'
    <2>1. pc' \in [Runs -> RunSteps]
        BY <1>a, <1>b DEF RunSteps
    <2>2. snapshot' \in [Runs -> Submissions \cup {None}] /\ todo' \in [Runs -> SUBSET Calls]
        BY <1>a, <1>b
    <2> QED
        BY <1>a, <2>1, <2>2, FaultsTyped DEF IInv, TypeOK
<1>2. \A q \in Runs \ {r} : SameRun(q)
    BY <1>a, <1>b DEF SameRun
<1>3. \A d \in Calls : SameCall(d)
    BY <1>a DEF SameCall
<1>4. RunFacts(r)'
    BY <1>a, <1>c DEF RunFacts, InTurn, CallsOf
<1>5. LateFacts' /\ (faults = 0 => LateGone')
    <2>1. \A d \in Calls : d[1] = r /\ Decided(d) => Decided(d)'
        BY <1>a, <1>c DEF Decided
    <2> QED
        BY <1>2, <1>a, <2>1, LateKeeps
<1>6. ASSUME NEW d \in Calls, d[1] = r PROVE SightedFacts(d)' /\ RowFacts(d)'
    <2>1. SightedFacts(d) /\ RowFacts(d)
        BY DEF IInv
    <2>3. SightedFacts(d)'
        BY <1>a, <2>1 DEF SightedFacts
    <2> QED
        BY <1>c, <1>6, <2>3 DEF RowFacts
<1>7. ASSUME faults = 0 PROVE WinFacts(r)'
    <2>1. WinFacts(r)
        BY <1>7 DEF IInv, Faultless
    <2> QED
        BY <1>a, <1>c, <2>1 DEF WinFacts, InTurn, CallsOf
<1>8. ASSUME faults = 0, NEW d \in Calls, d[1] = r PROVE ExecutedFacts(d)'
    BY <1>8, <1>a, <1>c DEF IInv, Faultless, ExecutedFacts
<1> QED
    BY <1>1, <1>2, <1>3, <1>4, <1>5, <1>6, <1>7, <1>8, <1>a, RunMoves DEF NoFault, SameCall

\* ExecuteTools: the manager, read again, holds decisions about these calls.
LEMMA ExecuteKeeps ==
    ASSUME IInv, NEW r \in Runs, ExecuteTools(r)
    PROVE  IInv'
<1>a. /\ pc[r] = "handling" /\ todo[r] = {} /\ approvals[r] \in Submissions /\ RunFacts(r)
      /\ approvals[r] # None
      /\ UNCHANGED <<curr, rows, keys, turn, expected, approvals, ready, snapshot, todo, late, first, requests>>
      /\ UNCHANGED <<step, covers, target, doomed>> /\ NoFault
      /\ pc \in [Runs -> RunSteps] /\ executed \in [Calls -> Submissions \cup {None}]
      /\ pc' = [pc EXCEPT ![r] = "executing"]
    BY DEF ExecuteTools, IInv, TypeOK, RunFacts, manager, activity, requests
<1>c. /\ turn[r] \in Turns /\ expected[r] = CallsOf(r, turn[r]) /\ pc'[r] = "executing"
      /\ covers[approvals[r]] = expected[r] /\ step[approvals[r]] # "new"
    BY <1>a DEF RunFacts, InTurn
<1>d. /\ \A d \in Calls : d \in CallsOf(r, turn[r]) <=> d[1] = r /\ d[2] = turn[r]
      /\ CallsOf(r, turn[r]) \subseteq Calls
    BY <1>c, CallsOfIs
<1>e. \A d \in Calls : executed'[d] = IF d \in CallsOf(r, turn[r]) THEN approvals[r] ELSE executed[d]
    BY DEF ExecuteTools
<1>1. TypeOK'
    <2>1. pc' \in [Runs -> RunSteps]
        BY <1>a DEF RunSteps
    <2>2. executed' \in [Calls -> Submissions \cup {None}]
        BY <1>a DEF ExecuteTools
    <2> QED
        BY <1>a, <2>1, <2>2, FaultsTyped DEF IInv, TypeOK
<1>2. \A q \in Runs \ {r} : SameRun(q)
    BY <1>a DEF SameRun
<1>3. \A d \in Calls : d[1] # r => SameCall(d)
    BY <1>a, <1>d, <1>e DEF SameCall
<1>m. \A d \in Calls : executed[d] # None => executed'[d] # None
    BY <1>a, <1>e
<1>4. RunFacts(r)'
    <2>1. \A d \in CallsOf(r, turn[r]) : executed'[d] # None
        BY <1>a, <1>d, <1>e
    <2> QED
        BY <1>a, <1>c, <2>1 DEF RunFacts, InTurn, CallsOf
<1>5. LateFacts' /\ (faults = 0 => LateGone')
    <2>1. \A d \in Calls : d[1] = r /\ Decided(d) => Decided(d)'
        BY <1>a, <1>c DEF Decided
    <2>2. \A d \in Calls : d[1] # r => executed'[d] = executed[d]
        BY <1>3 DEF SameCall
    <2> QED
        BY <1>2, <1>a, <2>1, <2>2, LateKeeps
<1>6. ASSUME NEW d \in Calls, d[1] = r PROVE SightedFacts(d)' /\ RowFacts(d)'
    <2>1. SightedFacts(d) /\ RowFacts(d)
        BY DEF IInv
    <2>3. SightedFacts(d)'
        BY <1>a, <1>c, <1>e, <2>1 DEF SightedFacts
    <2> QED
        BY <1>6, <1>c, <2>3 DEF RowFacts
<1>7. ASSUME faults = 0 PROVE WinFacts(r)'
    <2>1. WinFacts(r)
        BY <1>7 DEF IInv, Faultless
    <2> QED
        BY <1>a, <1>c, <2>1 DEF WinFacts, InTurn
<1>8. ASSUME faults = 0, NEW d \in Calls, d[1] = r PROVE ExecutedFacts(d)'
    <2>1. ExecutedFacts(d) /\ WinFacts(r)
        BY <1>8 DEF IInv, Faultless
    <2>2. CASE d \in CallsOf(r, turn[r])
        <3>1. d[2] = turn[r] /\ executed'[d] = approvals[r]
            BY <1>d, <1>e, <2>2
        <3>2. rows[d] \in {snapshot[r], "deleted"} /\ snapshot[r] = approvals[r]
              /\ first[<<r, turn[r]>>] = approvals[r]
            BY <1>a, <2>1, <2>2 DEF WinFacts, InTurn
        <3> QED
            BY <1>8, <1>a, <1>c, <3>1, <3>2 DEF ExecutedFacts
    <2>3. CASE d \notin CallsOf(r, turn[r])
        <3>1. executed'[d] = executed[d] /\ d[2] # turn[r]
            BY <1>8, <1>d, <1>e, <2>3
        <3> QED
            BY <1>8, <1>a, <2>1, <3>1 DEF ExecutedFacts
    <2> QED
        BY <2>2, <2>3
<1> QED
    BY <1>1, <1>2, <1>3, <1>m, <1>4, <1>5, <1>6, <1>7, <1>8, <1>a, RunMoves DEF NoFault

LEMMA NextTurnKeeps ==
    ASSUME IInv, NEW r \in Runs, NextTurn(r)
    PROVE  IInv'
<1>a. /\ pc[r] = "executing" /\ RunFacts(r)
      /\ UNCHANGED <<curr, rows, keys, expected, approvals, ready, snapshot, todo, late, executed, first, requests>>
      /\ UNCHANGED <<step, covers, target, doomed>> /\ NoFault
      /\ pc \in [Runs -> RunSteps] /\ turn \in [Runs -> 1 .. MaxTurns + 1]
      /\ pc' = [pc EXCEPT ![r] = "agent"] /\ turn' = [turn EXCEPT ![r] = @ + 1]
    BY DEF NextTurn, IInv, TypeOK, manager, activity, requests
<1>c. /\ turn[r] \in Turns /\ turn[r] \in Nat /\ turn'[r] = turn[r] + 1 /\ pc'[r] = "agent"
      /\ approvals[r] # None
    BY <1>a, ApprovalConstants DEF RunFacts, InTurn, Turns
<1>1. TypeOK'
    <2>1. pc' \in [Runs -> RunSteps]
        BY <1>a DEF RunSteps
    <2>2. turn' \in [Runs -> 1 .. MaxTurns + 1]
        BY <1>a, <1>c, ApprovalConstants DEF Turns
    <2> QED
        BY <1>a, <2>1, <2>2, FaultsTyped DEF IInv, TypeOK
<1>2. \A q \in Runs \ {r} : SameRun(q)
    BY <1>a DEF SameRun
<1>3. \A d \in Calls : SameCall(d)
    BY <1>a DEF SameCall
<1>4. RunFacts(r)'
    BY <1>a, <1>c DEF RunFacts, InTurn
<1>5. LateFacts' /\ (faults = 0 => LateGone')
    <2>1. ASSUME NEW d \in Calls, d[1] = r, Decided(d) PROVE Decided(d)'
        <3>1. d[2] \in Int
            <4>1. d \in Calls /\ d[2] \in Turns
                BY <2>1, CallParts
            <4> QED
                BY <4>1, ApprovalConstants DEF Turns
        <3> QED
            BY <1>a, <1>c, <2>1, <3>1 DEF Decided
    <2> QED
        BY <1>2, <1>a, <2>1, LateKeeps
<1>6. ASSUME NEW d \in Calls, d[1] = r PROVE SightedFacts(d)' /\ RowFacts(d)'
    <2>1. SightedFacts(d) /\ RowFacts(d)
        BY DEF IInv
    <2>2. SightedFacts(d)'
        BY <1>a, <2>1 DEF SightedFacts
    <2> QED
        BY <1>c, <1>6, <2>2 DEF RowFacts
<1>7. ASSUME faults = 0 PROVE WinFacts(r)'
    <2>1. WinFacts(r)
        BY <1>7 DEF IInv, Faultless
    <2>2. \A k \in Turns : k >= turn[r] + 1 => first[<<r, k>>] = None
        BY <1>c, <2>1 DEF WinFacts, Turns
    <2> QED
        BY <1>a, <1>c, <2>1, <2>2 DEF WinFacts, InTurn, Turns
<1>8. ASSUME faults = 0, NEW d \in Calls, d[1] = r PROVE ExecutedFacts(d)'
    <2>1. ExecutedFacts(d) /\ d[2] \in Turns
        BY <1>8, CallParts DEF IInv, Faultless
    <2>2. executed[d] # None => d[2] < turn'[r]
        BY <1>8, <1>c, <2>1 DEF ExecutedFacts, Turns
    <2> QED
        BY <1>8, <1>a, <2>1, <2>2 DEF ExecutedFacts
<1> QED
    BY <1>1, <1>2, <1>3, <1>4, <1>5, <1>6, <1>7, <1>8, <1>a, RunMoves DEF NoFault, SameCall

-----------------------------------------------------------------------------
(* The invariant holds at the beginning, and every step keeps it.          *)

LEMMA StutterKeeps ==
    ASSUME IInv, UNCHANGED vars
    PROVE  IInv'
<1>1. /\ UNCHANGED <<curr, rows, workflow, keys, faults, requests, doomed>>
      /\ UNCHANGED <<pc, turn, expected, approvals, ready, snapshot, todo, late, executed, first, step, covers, target>>
    BY DEF vars, workflow, manager, activity, requests
<1>2. TypeOK'
    BY <1>1 DEF IInv, TypeOK
<1>3. Remembered /\ Accepted
    BY <1>1 DEF Remembered, Accepted
<1>4. ASSUME faults = 0 PROVE KeyFacts'
    BY <1>1, <1>4 DEF IInv, Faultless, KeyFacts, Holding, Key
<1> QED
    BY <1>1, <1>2, <1>3, <1>4, RequestsMove

LEMMA InitInv == Init => IInv
<1> SUFFICES ASSUME Init PROVE IInv
    OBVIOUS
<1> USE DEF Init
<1>1. TypeOK
    <2>1. turn \in [Runs -> 1 .. MaxTurns + 1] /\ faults \in 0 .. MaxFaults
        BY ApprovalConstants
    <2>2. pc \in [Runs -> RunSteps] /\ step \in [Submissions -> SubmissionSteps]
        BY DEF RunSteps, SubmissionSteps
    <2> QED
        BY <2>1, <2>2 DEF TypeOK
<1>2. \A r \in Runs : RunFacts(r)
    BY DEF RunFacts, InTurn
<1>3. \A c \in Calls : SightedFacts(c) /\ RowFacts(c)
    BY CallParts DEF SightedFacts, RowFacts
<1>4. LateFacts /\ LateGone
    BY DEF LateFacts, LateGone
<1>5. KeyFacts
    BY DEF KeyFacts, Holding
<1>6. \A r \in Runs : WinFacts(r)
    BY DEF WinFacts, InTurn
<1>7. \A c \in Calls : ExecutedFacts(c)
    BY DEF ExecutedFacts
<1> QED
    BY <1>1, <1>2, <1>3, <1>4, <1>5, <1>6, <1>7 DEF IInv, Faultless

LEMMA StepKeeps == IInv /\ [Next]_vars => IInv'
<1> SUFFICES ASSUME IInv, [Next]_vars PROVE IInv'
    OBVIOUS
<1>1. ASSUME NEW r \in Runs, Validate(r) \/ StartRun(r) \/ WorkflowStep(r) \/ AttemptTimesOut(r) \/ End(r)
      PROVE  IInv'
    BY <1>1, ValidateKeeps, StartRunKeeps, AgentTurnKeeps, RecordKeeps, RecordedKeeps, HandleKeeps,
       ApplyKeeps, ExecuteKeeps, NextTurnKeeps, TimeoutKeeps, EndKeeps DEF WorkflowStep
<1>2. ASSUME NEW s \in Submissions, Send(s) \/ SubmissionStep(s)
      PROVE  IInv'
    BY <1>2, SendKeeps, DedupKeeps, UpdateKeeps, UndoKeeps, DeleteKeeps DEF SubmissionStep
<1>3. CASE ExpireKey
    BY <1>3, ExpireKeeps
<1>4. CASE LateWrite
    BY <1>4, LateWriteKeeps
<1>5. CASE Quiet \/ UNCHANGED vars
    BY <1>5, StutterKeeps DEF Quiet
<1> QED
    BY <1>1, <1>2, <1>3, <1>4, <1>5 DEF Next

\* The inductive invariant holds in every behaviour.
THEOREM Invariance == Spec => []IInv
BY InitInv, StepKeeps, PTL DEF Spec

\* Every variable keeps its type (AgentSession, ApprovalManager, Approval).
THEOREM Typed == Spec => []TypeOK
BY Invariance, PTL DEF IInv

\* A tool call is executed or denied only by decisions of someone who saw it
\* pending, and the calls of a turn all are (validate_responses, is_ready).
THEOREM SightedDecide == Spec => []DecidedBySighted
<1>1. IInv => DecidedBySighted
    <2> SUFFICES ASSUME IInv PROVE DecidedBySighted
        OBVIOUS
    <2>1. ASSUME NEW r \in Runs, pc[r] = "executing" PROVE CallsOf(r, turn[r]) \subseteq Executed
        <3>1. RunFacts(r) /\ turn[r] \in Turns
            BY <2>1 DEF IInv, RunFacts, InTurn
        <3> QED
            BY <2>1, <3>1, CallsOfIs DEF RunFacts, Executed
    <2>2. \A c \in Executed : c \in covers[executed[c]]
        BY DEF IInv, SightedFacts, Executed
    <2> QED
        BY <2>1, <2>2 DEF DecidedBySighted
<1> QED
    BY <1>1, Invariance, PTL

\* Without faults the submission that was accepted first decides what is
\* executed and what the rows say (_continue_with_approvals, handle_decisions).
THEOREM FirstSubmissionWins == Spec => []FirstWins
<1>1. IInv => FirstWins
    BY DEF IInv, Faultless, FirstWins, ExecutedFacts, Executed
<1> QED
    BY <1>1, Invariance, PTL

\* A workflow that waits has a pending row for everything it waits for, but for
\* those that were dismissed: no attempt that was given up, however late it
\* writes, covers them (record_approval_requests, apply_approval_decisions).
THEOREM WaitingCanBeSeen == Spec => []WaitingIsVisible
<1>1. IInv => WaitingIsVisible
    <2> SUFFICES ASSUME IInv, NEW r \in Runs, pc[r] = "waiting", NEW c \in CallsOf(r, turn[r])
                 PROVE  rows[c] \in {"pending", "deleted"}
        BY DEF WaitingIsVisible
    <2>1. RunFacts(r) /\ turn[r] \in Turns
        BY DEF IInv, RunFacts, InTurn
    <2>2. c \in Calls /\ c[1] = r /\ c[2] = turn[r]
        BY <2>1, CallsOfIs
    <2> QED
        BY <2>2 DEF IInv, RowFacts
<1> QED
    BY <1>1, Invariance, PTL
=============================================================================
