----------------------- MODULE RegistryArtifacts_proofs -----------------------
(***************************************************************************)
(* Proofs about RegistryArtifacts, for every set of requests and processes *)
(* and any number of faults: what a request was given is usable, and a     *)
(* process downloads an artifact once.                                     *)
(***************************************************************************)
EXTENDS RegistryArtifacts, TLAPS

\* No directory that others can see is half extracted.
Whole == extracted \in {"none", "full"} /\ untarred \in {"none", "full"}

\* t is inside the section of the lock.
Locked(t) ==
    pc[t] \in {"relooking", "fetch", "mounting", "refetch", "unsquash", "tarball", "untar"}

\* The candidates that t has left are those of the step it is in.
InHand(t) ==
    /\ pc[t] \in {"looking", "queued", "relooking"} => candidates[t] # <<>>
    /\ pc[t] \in {"fetch", "mounting", "refetch", "unsquash"} => candidates[t] = <<"squash", "tar">>
    /\ pc[t] \in {"tarball", "untar"} => candidates[t] = <<"tar">>

\* A request would now prefer the SquashFS image.
Squashable == squashUri \/ (enabled /\ (image \/ sidecar))

Squashed == mounts > 0 \/ extracted # "none"

\* A request that asks for its candidates now finds something cached.
Cached == untarred # "none" \/ (Squashable /\ Squashed)

\* t finds something cached among its candidates.
CachedFor(t) == untarred # "none" \/ (candidates[t] = <<"squash", "tar">> /\ Squashed)

\* t has what it needs on the disk or is about to have it.
Materializing(t) == pc[t] \in {"mounting", "unsquash", "untar"}

\* What a download in process p has led to.
DownloadFacts(p) ==
    /\ downloads[p] <= 1
    /\ downloads[p] = 1 =>
           Cached \/ \E t \in Tasks : ProcessOf[t] = p /\ Materializing(t)

\* t downloads only if its process has not, and prefers the image only while
\* every later request does.
TaskFacts(t) ==
    /\ pc[t] \in {"fetch", "refetch", "tarball"} => downloads[ProcessOf[t]] = 0
    /\ pc[t] \in {"fetch", "refetch", "mounting", "unsquash"} => Squashable
    /\ pc[t] = "relooking" =>
           /\ candidates[t] = <<"squash", "tar">> => Squashable
           /\ downloads[ProcessOf[t]] = 1 => CachedFor(t)

Faultless ==
    faults = 0 =>
        /\ \A p \in Processes : DownloadFacts(p)
        /\ \A t \in Tasks : TaskFacts(t)

\* The state of every request, whatever has failed.
Requests ==
    \A t \in Tasks :
        /\ InHand(t)
        /\ Locked(t) => owner[ProcessOf[t]] = t
        /\ pc[t] = "done" => path[t] \in Paths

IInv ==
    /\ TypeOK
    /\ Whole
    /\ Requests
    /\ ReturnedUsable
    /\ Faultless

-----------------------------------------------------------------------------
(* Facts that every step needs.                                            *)

LEMMA Forms ==
    /\ Head(<<"tar">>) = "tar" /\ Tail(<<"tar">>) = <<>>
    /\ Head(<<"squash", "tar">>) = "squash" /\ Tail(<<"squash", "tar">>) = <<"tar">>
    /\ <<"tar">> # <<>> /\ <<"squash", "tar">> # <<>> /\ <<"squash", "tar">> # <<"tar">>
OBVIOUS

\* What _first_cached_path returns is there, and it returns None only if no
\* candidate is cached.
LEMMA FirstCachedPathIs ==
    ASSUME TypeOK, NEW t \in Tasks
    PROVE  /\ FirstCachedPath(t) # None =>
                 \/ FirstCachedPath(t) = "mount" /\ mounts > 0
                 \/ FirstCachedPath(t) = "extract" /\ extracted # "none"
                 \/ FirstCachedPath(t) = "tar" /\ untarred # "none"
           /\ FirstCachedPath(t) = None /\ candidates[t] # <<>> => ~CachedFor(t)
<1> DEFINE c == candidates[t]
           cached == {i \in DOMAIN c : CachedPath(c[i]) # None}
           first == CHOOSE i \in cached : \A j \in cached : i <= j
<1>1. c \in {<<>>, <<"tar">>, <<"squash", "tar">>} /\ mounts \in Nat
    BY DEF TypeOK
<1>2. DOMAIN c \subseteq {1, 2}
    BY <1>1
<1>3. cached # {} => first \in cached
    <2>1. cached # {} => \E i \in cached : \A j \in cached : i <= j
        BY <1>2
    <2> QED BY <2>1
<1>4. FirstCachedPath(t) = IF cached = {} THEN None ELSE CachedPath(c[first])
    BY DEF FirstCachedPath
<1>5. None \notin {"mount", "extract", "tar"}
    BY ArtifactConstants
<1>6. ASSUME NEW a
      PROVE  CachedPath(a) # None =>
                 \/ CachedPath(a) = "mount" /\ mounts > 0
                 \/ CachedPath(a) = "extract" /\ extracted # "none"
                 \/ CachedPath(a) = "tar" /\ untarred # "none"
    BY DEF CachedPath
<1>7. FirstCachedPath(t) # None =>
          \/ FirstCachedPath(t) = "mount" /\ mounts > 0
          \/ FirstCachedPath(t) = "extract" /\ extracted # "none"
          \/ FirstCachedPath(t) = "tar" /\ untarred # "none"
    BY <1>4, <1>6
<1>8. CachedPath("squash") = None => ~Squashed
    BY <1>1, <1>5 DEF CachedPath, Squashed
<1>9. CachedPath("tar") = None => untarred = "none"
    BY <1>5 DEF CachedPath
<1>10. FirstCachedPath(t) = None => \A i \in DOMAIN c : CachedPath(c[i]) = None
    BY <1>3, <1>4
<1>11. CASE c = <<"tar">>
    <2>1. 1 \in DOMAIN c /\ c[1] = "tar"
        BY <1>11
    <2> QED BY <2>1, <1>7, <1>9, <1>10, <1>11, Forms DEF CachedFor
<1>12. CASE c = <<"squash", "tar">>
    <2>1. 1 \in DOMAIN c /\ c[1] = "squash" /\ 2 \in DOMAIN c /\ c[2] = "tar"
        BY <1>12
    <2> QED BY <2>1, <1>7, <1>8, <1>9, <1>10 DEF CachedFor
<1> QED BY <1>1, <1>7, <1>11, <1>12

\* The disk only gains.
Grow ==
    /\ mounts' >= mounts
    /\ extracted # "none" => extracted' = extracted
    /\ untarred # "none" => untarred' = untarred
    /\ Squashable => Squashable'

\* A step of t leaves the other requests alone.
Others(t) ==
    \A u \in Tasks : u # t =>
        /\ pc'[u] = pc[u] /\ candidates'[u] = candidates[u] /\ path'[u] = path[u]
        /\ owner[ProcessOf[u]] = u => owner'[ProcessOf[u]] = u

\* What Requests and ReturnedUsable say about t.
Served1(t) ==
    /\ InHand(t)
    /\ Locked(t) => owner[ProcessOf[t]] = t
    /\ pc[t] = "done" => path[t] \in Paths /\ Usable(path[t])

LEMMA EachServed == Requests /\ ReturnedUsable <=> \A t \in Tasks : Served1(t)
BY DEF Requests, ReturnedUsable, Served1

LEMMA RequestsKeep ==
    ASSUME IInv, NEW t \in Tasks, Others(t), Grow, mounts' \in Nat, Served1(t)'
    PROVE  (Requests /\ ReturnedUsable)'
<1>1. ASSUME NEW u \in Tasks, u # t
      PROVE  Served1(u)'
    <2>1. Served1(u) /\ Whole /\ mounts \in Nat
        BY EachServed DEF IInv, TypeOK
    <2>2. pc'[u] = pc[u] /\ candidates'[u] = candidates[u] /\ path'[u] = path[u]
        BY <1>1 DEF Others
    <2>3. owner[ProcessOf[u]] = u => owner'[ProcessOf[u]] = u
        BY <1>1 DEF Others
    <2>4. InHand(u)'
        BY <2>1, <2>2 DEF Served1, InHand
    <2>5. (Locked(u) => owner[ProcessOf[u]] = u)'
        BY <2>1, <2>2, <2>3 DEF Served1, Locked
    <2>6. ASSUME pc[u] = "done"
          PROVE  path'[u] \in Paths /\ Usable(path[u])'
        <3>1. path[u] \in Paths /\ Usable(path[u])
            BY <2>1, <2>6 DEF Served1
        <3>2. CASE path[u] = "mount"
            BY <2>1, <2>2, <3>1, <3>2 DEF Usable, Paths, Grow
        <3>3. CASE path[u] = "extract"
            BY <2>1, <2>2, <3>1, <3>3 DEF Usable, Paths, Grow
        <3>4. CASE path[u] = "tar"
            BY <2>1, <2>2, <3>1, <3>4 DEF Usable, Paths, Grow
        <3> QED BY <3>1, <3>2, <3>3, <3>4 DEF Paths
    <2> QED BY <2>2, <2>4, <2>5, <2>6 DEF Served1
<1> QED BY <1>1 DEF Requests, ReturnedUsable, Served1

\* Where nothing has failed, the facts about the other requests are kept if
\* downloads are counted by the holder of the lock only.
LEMMA FaultlessKeeps ==
    ASSUME IInv, NEW t \in Tasks, Others(t), Grow, mounts' \in Nat, faults' = faults,
           \A p \in Processes : downloads'[p] # downloads[p] => p = ProcessOf[t] /\ Locked(t),
           faults = 0 => TaskFacts(t)' /\ DownloadFacts(ProcessOf[t])'
    PROVE  Faultless'
<1> SUFFICES ASSUME faults = 0
             PROVE  /\ \A p \in Processes : DownloadFacts(p)'
                    /\ \A u \in Tasks : TaskFacts(u)'
    BY DEF Faultless
<1>1. mounts \in Nat /\ \A u \in Tasks : ProcessOf[u] \in Processes
    BY ArtifactConstants DEF IInv, TypeOK
<1>2. ASSUME NEW u \in Tasks, u # t
      PROVE  TaskFacts(u)'
    <2>1. TaskFacts(u) /\ Served1(u) /\ Served1(t)
        BY EachServed DEF IInv, Faultless
    <2>2. pc'[u] = pc[u] /\ candidates'[u] = candidates[u]
        BY <1>2 DEF Others
    <2>3. Locked(u) => downloads'[ProcessOf[u]] = downloads[ProcessOf[u]]
        BY <1>1, <1>2, <2>1 DEF Served1
    <2>4. CachedFor(u) => CachedFor(u)'
        BY <1>1, <2>2 DEF CachedFor, Squashed, Grow
    <2>5. Squashable => Squashable'
        BY DEF Grow
    <2> QED BY <2>1, <2>2, <2>3, <2>4, <2>5 DEF TaskFacts, Locked
<1>3. ASSUME NEW p \in Processes, p # ProcessOf[t]
      PROVE  DownloadFacts(p)'
    <2>1. DownloadFacts(p) /\ downloads'[p] = downloads[p]
        BY <1>3 DEF IInv, Faultless
    <2>2. Cached => Cached'
        BY <1>1 DEF Cached, Squashed, Grow
    <2>3. \A u \in Tasks : ProcessOf[u] = p => pc'[u] = pc[u]
        BY <1>3 DEF Others
    <2> QED BY <2>1, <2>2, <2>3 DEF DownloadFacts, Materializing
<1> QED BY <1>2, <1>3

\* The download of t's process has led to something as long as t goes on.
LEMMA DownloadKeeps ==
    ASSUME IInv, NEW t \in Tasks, Others(t), Grow, mounts' \in Nat, faults = 0,
           downloads' = downloads,
           Materializing(t) => Materializing(t)' \/ Cached'
    PROVE  DownloadFacts(ProcessOf[t])'
<1>1. mounts \in Nat /\ ProcessOf[t] \in Processes
    BY ArtifactConstants DEF IInv, TypeOK
<1>2. DownloadFacts(ProcessOf[t])
    BY <1>1 DEF IInv, Faultless
<1>3. Cached => Cached'
    BY <1>1 DEF Cached, Squashed, Grow
<1>4. \A u \in Tasks : u # t => pc'[u] = pc[u]
    BY DEF Others
<1> QED BY <1>2, <1>3, <1>4 DEF DownloadFacts, Materializing

\* Once something has failed, nothing is said about downloads.
LEMMA FaultForgives ==
    ASSUME TypeOK, Fault
    PROVE  Faultless' /\ faults' \in 0 .. MaxFaults
BY ArtifactConstants DEF TypeOK, Fault, Faultless

LEMMA CandidatesAre ==
    ASSUME TypeOK, NEW t \in Tasks, Candidates(t)
    PROVE  /\ candidates' \in [Tasks -> {<<>>, <<"tar">>, <<"squash", "tar">>}]
           /\ candidates'[t] \in {<<"tar">>, <<"squash", "tar">>}
           /\ \A u \in Tasks : u # t => candidates'[u] = candidates[u]
           /\ UNCHANGED setting
           /\ Fault \/ (faults' = faults /\ (candidates'[t] = <<"squash", "tar">> <=> Squashable))
<1>1. candidates'[t] \in {<<"tar">>, <<"squash", "tar">>}
      /\ candidates' = [candidates EXCEPT ![t] = candidates'[t]]
    BY DEF Candidates, TypeOK
<1>2. Fault \/ (faults' = faults /\ (candidates'[t] = <<"squash", "tar">> <=> Squashable))
    BY Forms DEF Candidates, TypeOK, Squashable, NoFault
<1>3. UNCHANGED setting
    BY DEF Candidates, NoFault, Fault
<1> QED BY <1>1, <1>2, <1>3 DEF TypeOK

-----------------------------------------------------------------------------
(* One lemma per action.                                                   *)

LEMMA InitIInv == Init => IInv
<1> SUFFICES ASSUME Init PROVE IInv
    OBVIOUS
<1>1. TypeOK
    <2>1. candidates \in [Tasks -> {<<>>, <<"tar">>, <<"squash", "tar">>}]
        BY DEF Init
    <2>2. /\ owner \in [Processes -> Tasks \cup {None}] /\ disabled \in [Processes -> BOOLEAN]
          /\ downloads \in [Processes -> Nat] /\ path \in [Tasks -> Paths \cup {None}]
        BY DEF Init
    <2>3. pc \in [Tasks -> Steps] /\ temp \in [Tasks -> Contents] /\ faults \in 0 .. MaxFaults
        BY ArtifactConstants DEF Init, Contents, Steps
    <2>4. /\ squashUri \in BOOLEAN /\ enabled \in BOOLEAN /\ sidecar \in BOOLEAN
          /\ image \in BOOLEAN /\ mounts \in Nat /\ extracted \in Contents /\ untarred \in Contents
        BY DEF Init, Contents
    <2> QED BY <2>1, <2>2, <2>3, <2>4 DEF TypeOK
<1>2. Whole /\ ReturnedUsable
    BY DEF Init, Whole, ReturnedUsable
<1>3. Requests
    BY DEF Init, Requests, InHand, Locked
<1>4. Faultless
    BY ArtifactConstants DEF Init, Faultless, DownloadFacts, TaskFacts
<1> QED BY <1>1, <1>2, <1>3, <1>4 DEF IInv

LEMMA RequestStep ==
    ASSUME IInv, NEW t \in Tasks, Request(t)
    PROVE  IInv'
<1>0. TypeOK /\ Candidates(t) /\ pc[t] = "idle" /\ pc'[t] = "looking"
      /\ pc' \in [Tasks -> Steps] /\ \A u \in Tasks : u # t => pc'[u] = pc[u]
    BY DEF IInv, TypeOK, Request, Goto, Steps
<1>1. UNCHANGED <<squashUri, enabled, sidecar, disk, memory, downloads, temp, path>>
    BY <1>0, CandidatesAre DEF Request, setting
<1>2. TypeOK'
    BY <1>0, <1>1, CandidatesAre, FaultForgives DEF TypeOK, disk, memory
<1>3. Others(t) /\ Grow /\ mounts' \in Nat /\ Whole'
    BY <1>0, <1>1, CandidatesAre DEF Others, Grow, Squashable, disk, memory, TypeOK, IInv, Whole
<1>4. Served1(t)'
    BY <1>0, CandidatesAre, Forms DEF Served1, InHand, Locked
<1>5. CASE Fault
    BY <1>0, <1>2, <1>3, <1>4, <1>5, FaultForgives, RequestsKeep DEF IInv
<1>6. CASE faults' = faults
    <2>1. TaskFacts(t)'
        BY <1>0 DEF TaskFacts
    <2>2. downloads' = downloads /\ ~Materializing(t)
        BY <1>0, <1>1 DEF Materializing
    <2>3. faults = 0 => DownloadFacts(ProcessOf[t])'
        BY <1>3, <2>2, DownloadKeeps
    <2>4. Faultless'
        BY <1>3, <1>6, <2>1, <2>2, <2>3, FaultlessKeeps
    <2> QED BY <1>2, <1>3, <1>4, <2>4, RequestsKeep DEF IInv
<1> QED BY <1>0, <1>5, <1>6, CandidatesAre

LEMMA LookStep ==
    ASSUME IInv, NEW t \in Tasks, Look(t)
    PROVE  IInv'
<1>0. TypeOK /\ pc[t] = "looking" /\ faults' = faults
    BY DEF IInv, Look, NoFault
<1>1. UNCHANGED <<squashUri, enabled, sidecar, disk, memory, downloads, candidates, temp>>
    BY DEF Look, NoFault, setting
<1>2. /\ path' \in [Tasks -> Paths \cup {None}] /\ path'[t] = FirstCachedPath(t)
      /\ \A u \in Tasks : u # t => path'[u] = path[u]
    <2>1. FirstCachedPath(t) \in Paths \cup {None}
        BY <1>0, FirstCachedPathIs DEF Paths
    <2> QED BY <2>1 DEF Look, IInv, TypeOK
<1>3. /\ pc' \in [Tasks -> Steps] /\ \A u \in Tasks : u # t => pc'[u] = pc[u]
      /\ pc'[t] = IF path'[t] = None THEN "queued" ELSE "done"
    BY <1>2 DEF Look, Goto, IInv, TypeOK, Steps
<1>4. TypeOK'
    BY <1>0, <1>1, <1>2, <1>3 DEF TypeOK, disk, memory
<1>5. Others(t) /\ Grow /\ mounts' \in Nat /\ Whole'
    BY <1>0, <1>1, <1>2, <1>3 DEF Others, Grow, Squashable, disk, memory, TypeOK, IInv, Whole
<1>6. Served1(t)'
    <2>1. InHand(t)'
        BY <1>0, <1>1, <1>3 DEF InHand, IInv, Requests
    <2>2. pc'[t] = "done" => path'[t] \in Paths /\ Usable(path[t])'
        BY <1>0, <1>1, <1>2, <1>3, FirstCachedPathIs DEF Paths, Usable, IInv, Whole, disk
    <2> QED BY <1>3, <2>1, <2>2 DEF Served1, Locked
<1>7. TaskFacts(t)'
    BY <1>3 DEF TaskFacts
<1>8. downloads' = downloads /\ ~Materializing(t)
    BY <1>0, <1>1 DEF Materializing
<1>9. faults = 0 => DownloadFacts(ProcessOf[t])'
    BY <1>5, <1>8, DownloadKeeps
<1>10. Faultless'
    BY <1>0, <1>5, <1>7, <1>8, <1>9, FaultlessKeeps
<1> QED BY <1>4, <1>5, <1>6, <1>10, RequestsKeep DEF IInv

LEMMA AcquireStep ==
    ASSUME IInv, NEW t \in Tasks, Acquire(t)
    PROVE  IInv'
<1>0. TypeOK /\ Candidates(t) /\ pc[t] = "queued" /\ pc'[t] = "relooking"
      /\ pc' \in [Tasks -> Steps] /\ \A u \in Tasks : u # t => pc'[u] = pc[u]
    BY DEF IInv, TypeOK, Acquire, Goto, Steps
<1>1. UNCHANGED <<squashUri, enabled, sidecar, disk, disabled, downloads, temp, path>>
    BY <1>0, CandidatesAre DEF Acquire, setting
<1>2. /\ owner[ProcessOf[t]] = None /\ ProcessOf[t] \in Processes
      /\ owner' = [owner EXCEPT ![ProcessOf[t]] = t]
    BY ArtifactConstants DEF Acquire, IsFree
<1>3. owner' \in [Processes -> Tasks \cup {None}] /\ owner'[ProcessOf[t]] = t
    BY <1>0, <1>2 DEF TypeOK
<1>4. TypeOK'
    BY <1>0, <1>1, <1>3, CandidatesAre, FaultForgives DEF TypeOK, disk
<1>5. \A u \in Tasks : owner[ProcessOf[u]] = u => owner'[ProcessOf[u]] = u
    BY <1>0, <1>2, ArtifactConstants DEF TypeOK
<1>6. Others(t) /\ Grow /\ mounts' \in Nat /\ Whole'
    BY <1>0, <1>1, <1>5, CandidatesAre DEF Others, Grow, Squashable, disk, TypeOK, IInv, Whole
<1>7. Served1(t)'
    BY <1>0, <1>3, CandidatesAre, Forms DEF Served1, InHand, Locked
<1>8. CASE Fault
    BY <1>0, <1>4, <1>6, <1>7, <1>8, FaultForgives, RequestsKeep DEF IInv
<1>9. CASE faults' = faults /\ (candidates'[t] = <<"squash", "tar">> <=> Squashable)
    <2>1. ASSUME faults = 0 PROVE TaskFacts(t)'
        <3>1. DownloadFacts(ProcessOf[t])
            BY <1>2, <2>1 DEF IInv, Faultless
        <3>2. \A u \in Tasks : ProcessOf[u] = ProcessOf[t] => ~Locked(u)
            BY <1>2, ArtifactConstants DEF IInv, Requests
        <3>3. downloads[ProcessOf[t]] = 1 => Cached
            BY <3>1, <3>2 DEF DownloadFacts, Materializing, Locked
        <3>4. downloads' = downloads /\ (Squashable <=> Squashable')
            BY <1>1 DEF Squashable, disk
        <3>5. downloads[ProcessOf[t]] = 1 => CachedFor(t)'
            BY <1>1, <1>9, <3>3 DEF Cached, CachedFor, Squashed, disk
        <3> QED BY <1>0, <1>9, <3>4, <3>5 DEF TaskFacts
    <2>2. downloads' = downloads /\ ~Materializing(t)
        BY <1>0, <1>1 DEF Materializing
    <2>3. faults = 0 => DownloadFacts(ProcessOf[t])'
        BY <1>6, <2>2, DownloadKeeps
    <2>4. Faultless'
        BY <1>6, <1>9, <2>1, <2>2, <2>3, FaultlessKeeps
    <2> QED BY <1>4, <1>6, <1>7, <2>4, RequestsKeep DEF IInv
<1> QED BY <1>0, <1>8, <1>9, CandidatesAre

-----------------------------------------------------------------------------
(* Steps of the holder of the lock.                                        *)

\* A step of t that leaves the others where they are.
Moved(t) ==
    /\ pc' \in [Tasks -> Steps] /\ path' \in [Tasks -> Paths \cup {None}]
    /\ owner' \in [Processes -> Tasks \cup {None}]
    /\ \A u \in Tasks : u # t =>
           /\ pc'[u] = pc[u] /\ path'[u] = path[u]
           /\ owner[ProcessOf[u]] = u => owner'[ProcessOf[u]] = u

LEMMA Holds ==
    ASSUME IInv, NEW t \in Tasks, Locked(t)
    PROVE  owner[ProcessOf[t]] = t /\ ProcessOf[t] \in Processes
BY ArtifactConstants DEF IInv, Requests

LEMMA ReleaseMoves ==
    ASSUME IInv, NEW t \in Tasks, Locked(t), owner' = Released(t)
    PROVE  /\ owner' \in [Processes -> Tasks \cup {None}]
           /\ \A u \in Tasks : u # t /\ owner[ProcessOf[u]] = u => owner'[ProcessOf[u]] = u
BY Holds, ArtifactConstants DEF IInv, TypeOK, Released

LEMMA ReturnMoves ==
    ASSUME IInv, NEW t \in Tasks, Locked(t), NEW dir \in Paths, Return(t, dir)
    PROVE  Moved(t) /\ pc'[t] = "done" /\ path'[t] = dir
<1>1. owner' = Released(t)
    BY DEF Return
<1>2. /\ pc' \in [Tasks -> Steps] /\ pc'[t] = "done"
      /\ \A u \in Tasks : u # t => pc'[u] = pc[u]
    BY DEF Return, Goto, IInv, TypeOK, Steps
<1>3. /\ path' \in [Tasks -> Paths \cup {None}] /\ path'[t] = dir
      /\ \A u \in Tasks : u # t => path'[u] = path[u]
    BY DEF Return, IInv, TypeOK
<1> QED BY <1>1, <1>2, <1>3, ReleaseMoves DEF Moved

LEMMA GotoMoves ==
    ASSUME IInv, NEW t \in Tasks, NEW to \in Steps, Goto(t, to), UNCHANGED <<path, owner>>
    PROVE  Moved(t) /\ pc'[t] = to
BY DEF Goto, IInv, TypeOK, Moved

LEMMA ExtractMoves ==
    ASSUME IInv, NEW t \in Tasks, Locked(t), Extract(t)
    PROVE  /\ Moved(t)
           /\ \/ extracted # "none" /\ pc'[t] = "done" /\ path'[t] = "extract"
              \/ /\ extracted = "none" /\ UNCHANGED <<path, owner>>
                 /\ pc'[t] \in {"unsquash", "refetch"}
<1>1. CASE extracted # "none" /\ Return(t, "extract")
    <2>1. "extract" \in Paths
        BY DEF Paths
    <2> QED BY <1>1, <2>1, ReturnMoves
<1>2. CASE /\ extracted = "none" /\ UNCHANGED <<path, owner>>
           /\ Goto(t, IF image THEN "unsquash" ELSE "refetch")
    <2>1. Goto(t, "unsquash") \/ Goto(t, "refetch")
        BY <1>2 DEF Goto
    <2>2. "unsquash" \in Steps /\ "refetch" \in Steps
        BY DEF Steps
    <2> QED BY <1>2, <2>1, <2>2, GotoMoves
<1> QED BY <1>1, <1>2 DEF Extract

LEMMA MovedOthers ==
    ASSUME NEW t \in Tasks, Moved(t), \A u \in Tasks : u # t => candidates'[u] = candidates[u]
    PROVE  Others(t)
BY DEF Moved, Others

LEMMA RelookCases ==
    ASSUME IInv, NEW t \in Tasks, Relook(t)
    PROVE  \/ CachedNow(t) # None /\ Return(t, CachedNow(t))
           \/ /\ CachedNow(t) = None /\ candidates[t] = <<"tar">>
              /\ Goto(t, "tarball") /\ UNCHANGED <<path, owner>>
           \/ /\ CachedNow(t) = None /\ candidates[t] = <<"squash", "tar">>
              /\ Goto(t, "mounting") \/ Goto(t, "fetch")
              /\ UNCHANGED <<path, owner>>
           \/ /\ CachedNow(t) = None /\ candidates[t] = <<"squash", "tar">>
              /\ Extract(t)
<1>1. candidates[t] \in {<<"tar">>, <<"squash", "tar">>}
    BY DEF Relook, IInv, TypeOK, Requests, InHand
<1>2. CASE CachedNow(t) # None /\ Return(t, CachedNow(t))
    BY <1>2
<1>3. CASE /\ CachedNow(t) = None
           /\ CASE Head(candidates[t]) = "tar" -> Goto(t, "tarball") /\ UNCHANGED <<path, owner>>
                [] Head(candidates[t]) = "squash" /\ CanMount(t) ->
                      /\ Goto(t, IF image THEN "mounting" ELSE "fetch")
                      /\ UNCHANGED <<path, owner>>
                [] OTHER -> Extract(t)
    <2>1. CASE candidates[t] = <<"tar">>
        BY <1>3, <2>1, Forms
    <2>2. CASE candidates[t] = <<"squash", "tar">> /\ CanMount(t)
        <3>1. Goto(t, IF image THEN "mounting" ELSE "fetch") /\ UNCHANGED <<path, owner>>
            BY <1>3, <2>2, Forms
        <3> QED BY <1>3, <2>2, <3>1 DEF Goto
    <2>3. CASE candidates[t] = <<"squash", "tar">> /\ ~CanMount(t)
        BY <1>3, <2>3, Forms
    <2> QED BY <1>1, <2>1, <2>2, <2>3
<1> QED BY <1>2, <1>3 DEF Relook

LEMMA RelookStep ==
    ASSUME IInv, NEW t \in Tasks, Relook(t)
    PROVE  IInv'
<1>0. TypeOK /\ pc[t] = "relooking" /\ Locked(t) /\ faults' = faults
    BY DEF IInv, Relook, NoFault, Locked
<1>1. UNCHANGED <<squashUri, enabled, sidecar, disk, disabled, downloads, candidates, temp>>
    BY DEF Relook, NoFault, setting
<1>2. /\ Moved(t)
      /\ \/ pc'[t] = "done" /\ path'[t] \in Paths /\ Usable(path[t])'
         \/ /\ CachedNow(t) = None /\ owner' = owner
            /\ \/ pc'[t] = "tarball" /\ candidates[t] = <<"tar">>
               \/ /\ pc'[t] \in {"mounting", "fetch", "unsquash", "refetch"}
                  /\ candidates[t] = <<"squash", "tar">>
    <2>1. CASE CachedNow(t) # None /\ Return(t, CachedNow(t))
        <3>1. CachedNow(t) \in Paths
            BY <1>0, <2>1, FirstCachedPathIs DEF Paths, CachedNow
        <3>2. Moved(t) /\ pc'[t] = "done" /\ path'[t] = CachedNow(t)
            BY <1>0, <2>1, <3>1, ReturnMoves
        <3>3. Usable(path[t])'
            BY <1>0, <1>1, <2>1, <3>2, FirstCachedPathIs DEF Usable, CachedNow, IInv, Whole, disk
        <3> QED BY <3>1, <3>2, <3>3
    <2>2. CASE /\ CachedNow(t) = None /\ candidates[t] = <<"tar">>
               /\ Goto(t, "tarball") /\ UNCHANGED <<path, owner>>
        <3>1. "tarball" \in Steps
            BY DEF Steps
        <3> QED BY <2>2, <3>1, GotoMoves
    <2>3. CASE /\ CachedNow(t) = None /\ candidates[t] = <<"squash", "tar">>
               /\ Goto(t, "mounting") \/ Goto(t, "fetch")
               /\ UNCHANGED <<path, owner>>
        <3>1. "mounting" \in Steps /\ "fetch" \in Steps
            BY DEF Steps
        <3> QED BY <2>3, <3>1, GotoMoves
    <2>4. CASE CachedNow(t) = None /\ candidates[t] = <<"squash", "tar">> /\ Extract(t)
        <3>1. \/ extracted # "none" /\ pc'[t] = "done" /\ path'[t] = "extract"
              \/ pc'[t] \in {"unsquash", "refetch"} /\ UNCHANGED <<path, owner>>
            BY <1>0, <2>4, ExtractMoves
        <3>2. extracted # "none" /\ path'[t] = "extract" => Usable(path[t])'
            BY <1>1 DEF Usable, IInv, Whole, disk
        <3> QED BY <1>0, <2>4, <3>1, <3>2, ExtractMoves DEF Paths
    <2> QED BY <2>1, <2>2, <2>3, <2>4, RelookCases
<1>3. TypeOK'
    BY <1>0, <1>1, <1>2 DEF TypeOK, disk, Moved
<1>4. Others(t) /\ Grow /\ mounts' \in Nat /\ Whole'
    BY <1>0, <1>1, <1>2, MovedOthers DEF Grow, Squashable, disk, TypeOK, IInv, Whole
<1>5. Served1(t)'
    BY <1>0, <1>1, <1>2, Holds DEF Served1, Locked, InHand
<1>6. faults = 0 => TaskFacts(t)'
    <2>1. CachedNow(t) = None => ~CachedFor(t)
        BY <1>0, FirstCachedPathIs DEF CachedNow, IInv, Requests, InHand
    <2>2. Squashable => Squashable'
        BY <1>4 DEF Grow
    <2>3. faults = 0 => TaskFacts(t) /\ DownloadFacts(ProcessOf[t]) /\ downloads[ProcessOf[t]] \in Nat
        BY <1>0, Holds DEF IInv, Faultless, TypeOK
    <2>4. faults = 0 /\ CachedNow(t) = None => downloads[ProcessOf[t]] = 0
        BY <1>0, <2>1, <2>3 DEF TaskFacts, DownloadFacts
    <2> QED BY <1>0, <1>1, <1>2, <2>2, <2>3, <2>4 DEF TaskFacts
<1>7. downloads' = downloads /\ ~Materializing(t)
    BY <1>0, <1>1 DEF Materializing
<1>8. faults = 0 => DownloadFacts(ProcessOf[t])'
    BY <1>4, <1>7, DownloadKeeps
<1>9. Faultless'
    BY <1>0, <1>4, <1>6, <1>7, <1>8, FaultlessKeeps
<1> QED BY <1>3, <1>4, <1>5, <1>9, RequestsKeep DEF IInv

\* The download of a holder of the lock is the first of its process.
LEMMA DownloadCounts ==
    ASSUME IInv, NEW t \in Tasks, Downloaded(t), pc[t] \in {"fetch", "refetch", "tarball"},
           Materializing(t)', Others(t), Grow, mounts' \in Nat, faults' = faults,
           Squashable \/ pc'[t] = "untar"
    PROVE  Faultless' /\ downloads' \in [Processes -> Nat]
<1>1. Locked(t) /\ ProcessOf[t] \in Processes /\ downloads \in [Processes -> Nat]
    BY ArtifactConstants DEF Locked, IInv, TypeOK
<1>2. /\ downloads'[ProcessOf[t]] = downloads[ProcessOf[t]] + 1
      /\ \A p \in Processes : p # ProcessOf[t] => downloads'[p] = downloads[p]
      /\ downloads' \in [Processes -> Nat]
    BY <1>1 DEF Downloaded
<1>3. faults = 0 => downloads[ProcessOf[t]] = 0
    BY DEF IInv, Faultless, TaskFacts
<1>4. TaskFacts(t)'
    BY DEF TaskFacts, Materializing, Grow
<1>5. faults = 0 => DownloadFacts(ProcessOf[t])'
    BY <1>2, <1>3 DEF DownloadFacts
<1>6. \A p \in Processes : downloads'[p] # downloads[p] => p = ProcessOf[t] /\ Locked(t)
    BY <1>1, <1>2
<1> QED BY <1>2, <1>4, <1>5, <1>6, FaultlessKeeps

LEMMA FetchStep ==
    ASSUME IInv, NEW t \in Tasks, Fetch(t)
    PROVE  IInv'
<1>0. /\ TypeOK /\ pc[t] \in {"fetch", "refetch"} /\ Locked(t) /\ faults' = faults
      /\ Downloaded(t) /\ image' = TRUE
    BY DEF IInv, Fetch, NoFault, Locked
<1>1. UNCHANGED <<squashUri, enabled, sidecar, mounts, extracted, untarred, memory,
                  candidates, temp, path>>
    BY DEF Fetch, NoFault, setting
<1>2. Moved(t) /\ pc'[t] \in {"mounting", "unsquash"}
    <2>1. Goto(t, "mounting") \/ Goto(t, "unsquash")
        BY DEF Fetch, Goto
    <2>2. "mounting" \in Steps /\ "unsquash" \in Steps
        BY DEF Steps
    <2> QED BY <1>1, <2>1, <2>2, GotoMoves DEF memory
<1>3. Others(t) /\ Grow /\ mounts' \in Nat /\ Whole'
    BY <1>0, <1>1, <1>2, MovedOthers DEF Grow, Squashable, TypeOK, IInv, Whole
<1>4. Served1(t)'
    <2>1. InHand(t)'
        BY <1>0, <1>1, <1>2 DEF InHand, IInv, Requests
    <2> QED BY <1>0, <1>1, <1>2, <2>1, Holds DEF Served1, memory
<1>5. Faultless' /\ downloads' \in [Processes -> Nat]
    <2>1. CASE faults = 0
        <3>1. Squashable
            BY <1>0, <2>1 DEF IInv, Faultless, TaskFacts
        <3> QED BY <1>0, <1>2, <1>3, <3>1, DownloadCounts DEF Materializing
    <2>2. CASE faults # 0
        BY <1>0, <2>2, ArtifactConstants DEF Faultless, Downloaded, TypeOK
    <2> QED BY <2>1, <2>2
<1>6. TypeOK'
    BY <1>0, <1>1, <1>2, <1>5 DEF TypeOK, Moved, memory
<1> QED BY <1>3, <1>4, <1>5, <1>6, RequestsKeep DEF IInv

LEMMA FetchTarballStep ==
    ASSUME IInv, NEW t \in Tasks, FetchTarball(t)
    PROVE  IInv'
<1>0. TypeOK /\ pc[t] = "tarball" /\ Locked(t) /\ faults' = faults /\ Downloaded(t)
    BY DEF IInv, FetchTarball, NoFault, Locked
<1>1. UNCHANGED <<squashUri, enabled, sidecar, disk, memory, candidates, temp, path>>
    BY DEF FetchTarball, NoFault, setting
<1>2. Moved(t) /\ pc'[t] = "untar"
    <2>1. Goto(t, "untar") /\ "untar" \in Steps
        BY DEF FetchTarball, Steps
    <2> QED BY <1>1, <2>1, GotoMoves DEF memory
<1>3. Others(t) /\ Grow /\ mounts' \in Nat /\ Whole'
    BY <1>0, <1>1, <1>2, MovedOthers DEF Grow, Squashable, disk, TypeOK, IInv, Whole
<1>4. Served1(t)'
    <2>1. InHand(t)'
        BY <1>0, <1>1, <1>2 DEF InHand, IInv, Requests
    <2> QED BY <1>0, <1>1, <1>2, <2>1, Holds DEF Served1, memory
<1>5. Faultless' /\ downloads' \in [Processes -> Nat]
    BY <1>0, <1>2, <1>3, DownloadCounts DEF Materializing
<1>6. TypeOK'
    BY <1>0, <1>1, <1>2, <1>5 DEF TypeOK, Moved, disk, memory
<1> QED BY <1>3, <1>4, <1>5, <1>6, RequestsKeep DEF IInv

LEMMA MountStep ==
    ASSUME IInv, NEW t \in Tasks, Mount(t)
    PROVE  IInv'
<1>0. TypeOK /\ pc[t] = "mounting" /\ Locked(t) /\ faults' = faults
    BY DEF IInv, Mount, NoFault, Locked
<1>1. UNCHANGED <<squashUri, enabled, sidecar, image, extracted, untarred, disabled,
                  downloads, candidates, temp>>
    BY DEF Mount, NoFault, setting
<1>2. Moved(t) /\ pc'[t] = "done" /\ path'[t] = "mount"
    <2>1. Return(t, "mount") /\ "mount" \in Paths
        BY DEF Mount, Paths
    <2> QED BY <1>0, <2>1, ReturnMoves
<1>3. mounts' \in Nat /\ mounts' > 0 /\ mounts' >= mounts
    BY <1>0 DEF Mount, TypeOK
<1>4. Others(t) /\ Grow /\ Whole'
    BY <1>0, <1>1, <1>2, <1>3, MovedOthers DEF Grow, Squashable, IInv, Whole
<1>5. Served1(t)'
    BY <1>2, <1>3 DEF Served1, InHand, Locked, Paths, Usable
<1>6. TaskFacts(t)'
    BY <1>2 DEF TaskFacts
<1>7. faults = 0 => DownloadFacts(ProcessOf[t])'
    <2>1. faults = 0 => Squashable
        BY <1>0 DEF IInv, Faultless, TaskFacts
    <2>2. faults = 0 => Cached'
        BY <1>3, <1>4, <2>1 DEF Cached, Squashed, Grow
    <2> QED BY <1>1, <1>3, <1>4, <2>2, DownloadKeeps
<1>8. Faultless'
    BY <1>0, <1>1, <1>3, <1>4, <1>6, <1>7, FaultlessKeeps
<1>9. TypeOK'
    BY <1>0, <1>1, <1>2, <1>3 DEF TypeOK, Moved
<1> QED BY <1>3, <1>4, <1>5, <1>8, <1>9, RequestsKeep DEF IInv

LEMMA FillStep ==
    ASSUME IInv, NEW t \in Tasks, Fill(t)
    PROVE  IInv'
<1>0. UNCHANGED <<squashUri, enabled, sidecar, disk, memory, downloads, pc, candidates, path, faults>>
    BY DEF Fill, NoFault, setting
<1>1. temp' \in [Tasks -> Contents]
    BY DEF Fill, IInv, TypeOK, Contents
<1>2. TypeOK'
    BY <1>0, <1>1 DEF IInv, TypeOK, disk, memory
<1>3. Others(t) /\ Grow /\ mounts' \in Nat /\ Whole'
    BY <1>0 DEF Others, Grow, Squashable, disk, memory, IInv, TypeOK, Whole
<1>4. Served1(t)'
    <2>1. Served1(t)
        BY EachServed DEF IInv
    <2> QED BY <1>0, <2>1 DEF Served1, InHand, Locked, Usable, disk, memory
<1>5. faults = 0 => TaskFacts(t)'
    <2>1. faults = 0 => TaskFacts(t)
        BY DEF IInv, Faultless
    <2> QED BY <1>0, <2>1 DEF TaskFacts, Squashable, CachedFor, Squashed, disk
<1>6. faults = 0 => DownloadFacts(ProcessOf[t])'
    <2>1. Materializing(t) => Materializing(t)'
        BY <1>0 DEF Materializing
    <2> QED BY <1>0, <1>3, <2>1, DownloadKeeps
<1>7. Faultless'
    BY <1>0, <1>3, <1>5, <1>6, FaultlessKeeps
<1> QED BY <1>2, <1>3, <1>4, <1>7, RequestsKeep DEF IInv

LEMMA PublishStep ==
    ASSUME IInv, NEW t \in Tasks, Publish(t)
    PROVE  IInv'
<1>0. /\ TypeOK /\ pc[t] \in {"unsquash", "untar"} /\ Locked(t) /\ faults' = faults
      /\ temp[t] = "full"
    BY DEF IInv, Publish, NoFault, Locked, Extracting, IsFilled
<1>1. UNCHANGED <<squashUri, enabled, sidecar, image, mounts, disabled, downloads, candidates>>
    BY DEF Publish, NoFault, setting
<1>2. temp' \in [Tasks -> Contents]
    BY DEF Publish, Removed, IInv, TypeOK, Contents
<1>3. /\ Moved(t) /\ pc'[t] = "done"
      /\ \/ /\ pc[t] = "unsquash" /\ path'[t] = "extract" /\ untarred' = untarred
            /\ extracted' = IF extracted = "none" THEN "full" ELSE extracted
         \/ /\ pc[t] = "untar" /\ path'[t] = "tar" /\ extracted' = extracted
            /\ untarred' = IF untarred = "none" THEN "full" ELSE untarred
    <2>1. "extract" \in Paths /\ "tar" \in Paths
        BY DEF Paths
    <2>2. CASE pc[t] = "unsquash"
        <3>1. /\ Return(t, "extract") /\ untarred' = untarred
              /\ extracted' = IF extracted = "none" THEN "full" ELSE extracted
            BY <1>0, <2>2 DEF Publish
        <3> QED BY <1>0, <2>1, <2>2, <3>1, ReturnMoves
    <2>3. CASE pc[t] = "untar"
        <3>1. /\ Return(t, "tar") /\ extracted' = extracted
              /\ untarred' = IF untarred = "none" THEN "full" ELSE untarred
            BY <1>0, <2>3 DEF Publish
        <3> QED BY <1>0, <2>1, <2>3, <3>1, ReturnMoves
    <2> QED BY <1>0, <2>2, <2>3
<1>4. Others(t) /\ Grow /\ mounts' \in Nat /\ Whole'
    BY <1>0, <1>1, <1>3, MovedOthers DEF Grow, Squashable, TypeOK, IInv, Whole
<1>5. Served1(t)'
    BY <1>3, <1>4 DEF Served1, InHand, Locked, Paths, Usable, Whole
<1>6. TaskFacts(t)'
    BY <1>3 DEF TaskFacts
<1>7. faults = 0 => DownloadFacts(ProcessOf[t])'
    <2>1. faults = 0 /\ pc[t] = "unsquash" => Squashable'
        BY <1>4 DEF IInv, Faultless, TaskFacts, Grow
    <2>2. faults = 0 => Cached'
        BY <1>3, <2>1 DEF Cached, Squashed
    <2> QED BY <1>1, <1>4, <2>2, DownloadKeeps
<1>8. Faultless'
    BY <1>0, <1>1, <1>4, <1>6, <1>7, FaultlessKeeps
<1>9. TypeOK'
    BY <1>0, <1>1, <1>2, <1>3 DEF TypeOK, Moved, Contents
<1> QED BY <1>4, <1>5, <1>8, <1>9, RequestsKeep DEF IInv

-----------------------------------------------------------------------------
(* What may fail.                                                          *)

\* mount() fails, in its download or in the mount.
LEMMA MountFailedStep ==
    ASSUME IInv, NEW t \in Tasks, pc[t] \in {"fetch", "mounting"}, Fault, MountFailed(t),
           UNCHANGED <<sidecar, disk, downloads, candidates, temp>>
    PROVE  IInv'
<1>0. TypeOK /\ Locked(t) /\ Extract(t)
    BY DEF IInv, Locked, MountFailed
<1>1. UNCHANGED <<squashUri, enabled>> /\ disabled' \in [Processes -> BOOLEAN]
    BY <1>0, ArtifactConstants DEF Fault, setting, MountFailed, TypeOK
<1>2. /\ Moved(t)
      /\ \/ extracted # "none" /\ pc'[t] = "done" /\ path'[t] = "extract"
         \/ UNCHANGED <<path, owner>> /\ pc'[t] \in {"unsquash", "refetch"}
    BY <1>0, ExtractMoves
<1>3. TypeOK'
    BY <1>0, <1>1, <1>2, FaultForgives DEF TypeOK, Moved, disk
<1>4. Others(t) /\ Grow /\ mounts' \in Nat /\ Whole'
    BY <1>0, <1>1, <1>2, MovedOthers DEF Grow, Squashable, disk, TypeOK, IInv, Whole
<1>5. Served1(t)'
    <2>1. candidates'[t] = <<"squash", "tar">>
        BY DEF IInv, Requests, InHand
    <2>2. extracted' = extracted
        BY DEF disk
    <2> QED BY <1>0, <1>2, <1>4, <2>1, <2>2, Holds DEF Served1, InHand, Locked, Paths, Usable, Whole
<1> QED BY <1>0, <1>3, <1>4, <1>5, FaultForgives, RequestsKeep DEF IInv

\* The candidate in hand fails, and t goes on with the next one or raises.
LEMMA CandidateFailsStep ==
    ASSUME IInv, NEW t \in Tasks, Fault,
           \/ pc[t] \in {"refetch", "unsquash"} /\ Fallback(t)
           \/ pc[t] \in {"tarball", "untar"} /\ Raise(t),
           temp' \in [Tasks -> Contents],
           UNCHANGED <<sidecar, disk, disabled, downloads, path>>
    PROVE  IInv'
<1>0. TypeOK /\ Locked(t) /\ Drop(t) /\ UNCHANGED <<squashUri, enabled>>
    BY DEF IInv, Locked, Fallback, Raise, Fault, setting
<1>1. /\ candidates' \in [Tasks -> {<<>>, <<"tar">>, <<"squash", "tar">>}]
      /\ \A u \in Tasks : u # t => candidates'[u] = candidates[u]
      /\ pc[t] \in {"refetch", "unsquash"} => candidates'[t] = <<"tar">>
    <2>1. /\ pc[t] \in {"refetch", "unsquash"} => candidates[t] = <<"squash", "tar">>
          /\ pc[t] \in {"tarball", "untar"} => candidates[t] = <<"tar">>
        BY DEF IInv, Requests, InHand
    <2>2. /\ Tail(candidates[t]) \in {<<>>, <<"tar">>}
          /\ pc[t] \in {"refetch", "unsquash"} => Tail(candidates[t]) = <<"tar">>
        BY <2>1, Forms
    <2>3. candidates' = [candidates EXCEPT ![t] = Tail(candidates[t])]
        BY <1>0 DEF Drop
    <2> QED BY <1>0, <2>2, <2>3 DEF TypeOK
<1>2. /\ Moved(t)
      /\ \/ pc[t] \in {"refetch", "unsquash"} /\ pc'[t] = "tarball" /\ owner' = owner
         \/ pc'[t] = "raised"
    <2>1. CASE pc[t] \in {"refetch", "unsquash"} /\ Fallback(t)
        <3>1. Goto(t, "tarball") /\ "tarball" \in Steps /\ UNCHANGED <<path, owner>>
            BY <2>1 DEF Fallback, Steps
        <3> QED BY <2>1, <3>1, GotoMoves
    <2>2. CASE Raise(t)
        <3>1. owner' = Released(t)
            BY <2>2 DEF Raise
        <3>2. /\ pc' \in [Tasks -> Steps] /\ pc'[t] = "raised"
              /\ \A u \in Tasks : u # t => pc'[u] = pc[u]
            BY <1>0, <2>2 DEF Raise, Goto, TypeOK, Steps
        <3>3. path' \in [Tasks -> Paths \cup {None}] /\ path' = path
            BY <1>0 DEF TypeOK
        <3> QED BY <1>0, <3>1, <3>2, <3>3, ReleaseMoves DEF Moved
    <2> QED BY <2>1, <2>2
<1>3. TypeOK'
    BY <1>0, <1>1, <1>2, FaultForgives DEF TypeOK, Moved, disk
<1>4. Others(t) /\ Grow /\ mounts' \in Nat /\ Whole'
    BY <1>0, <1>1, <1>2, MovedOthers DEF Grow, Squashable, disk, TypeOK, IInv, Whole
<1>5. Served1(t)'
    BY <1>0, <1>1, <1>2, Holds DEF Served1, InHand, Locked
<1> QED BY <1>0, <1>3, <1>4, <1>5, FaultForgives, RequestsKeep DEF IInv

LEMMA FailsStep ==
    ASSUME IInv, NEW t \in Tasks, Fails(t)
    PROVE  IInv'
<1>1. temp \in [Tasks -> Contents] /\ Removed(t) \in [Tasks -> Contents]
    BY DEF IInv, TypeOK, Removed, Contents
<1>2. CASE FetchFails(t)
    <2>1. Fault /\ UNCHANGED <<sidecar, disk, downloads, temp>>
        BY <1>2 DEF FetchFails
    <2>2. CASE pc[t] = "fetch" /\ MountFailed(t) /\ UNCHANGED candidates
        BY <2>1, <2>2, MountFailedStep
    <2>3. CASE pc[t] = "refetch" /\ Fallback(t) /\ UNCHANGED <<disabled, path>>
        BY <1>1, <2>1, <2>3, CandidateFailsStep
    <2> QED BY <1>2, <2>2, <2>3 DEF FetchFails
<1>3. CASE MountFails(t)
    BY <1>3, MountFailedStep DEF MountFails
<1>4. CASE ExtractFails(t)
    <2>1. /\ Fault /\ temp' \in [Tasks -> Contents]
          /\ UNCHANGED <<sidecar, disk, disabled, downloads, path>>
        BY <1>1, <1>4 DEF ExtractFails
    <2>2. \/ pc[t] \in {"refetch", "unsquash"} /\ Fallback(t)
          \/ pc[t] \in {"tarball", "untar"} /\ Raise(t)
        BY <1>4 DEF ExtractFails
    <2> QED BY <2>1, <2>2, CandidateFailsStep
<1> QED BY <1>2, <1>3, <1>4 DEF Fails

LEMMA CancelStep ==
    ASSUME IInv, NEW t \in Tasks, Cancel(t)
    PROVE  IInv'
<1>0. TypeOK /\ Fault /\ UNCHANGED <<squashUri, enabled, sidecar, image, extracted, untarred,
                                     disabled, downloads, candidates, path>>
    BY DEF IInv, Cancel, Fault, setting
<1>1. /\ pc' \in [Tasks -> Steps] /\ pc'[t] = "gone"
      /\ \A u \in Tasks : u # t => pc'[u] = pc[u]
    BY <1>0 DEF Cancel, Goto, TypeOK, Steps
<1>2. mounts' \in Nat /\ mounts' >= mounts
    BY <1>0 DEF Cancel, TypeOK
<1>3. temp' \in [Tasks -> Contents]
    BY <1>0 DEF Cancel, Removed, TypeOK, Contents
<1>4. /\ owner' \in [Processes -> Tasks \cup {None}]
      /\ \A u \in Tasks : u # t /\ owner[ProcessOf[u]] = u => owner'[ProcessOf[u]] = u
    BY <1>0, ArtifactConstants DEF Cancel, Released, TypeOK
<1>5. TypeOK'
    BY <1>0, <1>1, <1>2, <1>3, <1>4, FaultForgives DEF TypeOK
<1>6. Others(t) /\ Grow /\ Whole'
    BY <1>0, <1>1, <1>2, <1>4 DEF Others, Grow, Squashable, IInv, Whole
<1>7. Served1(t)'
    BY <1>1 DEF Served1, InHand, Locked
<1> QED BY <1>0, <1>2, <1>5, <1>6, <1>7, FaultForgives, RequestsKeep DEF IInv

\* The processes ps are gone; if they are all, the mounts may be too.
LEMMA LoseStep ==
    ASSUME IInv, NEW ps \in SUBSET Processes, Fault, Lose(ps),
           mounts' = mounts \/ (mounts' = 0 /\ ps = Processes),
           UNCHANGED <<sidecar, image, extracted, untarred, candidates, temp, path>>
    PROVE  IInv'
<1>0. TypeOK /\ UNCHANGED <<squashUri, enabled>>
    BY DEF IInv, Fault, setting
<1>1. pc' \in [Tasks -> Steps]
    BY <1>0 DEF Lose, TypeOK, Steps
<1>2. /\ owner' \in [Processes -> Tasks \cup {None}] /\ disabled' \in [Processes -> BOOLEAN]
      /\ downloads' \in [Processes -> Nat] /\ mounts' \in Nat
    BY <1>0 DEF Lose, TypeOK
<1>3. TypeOK'
    BY <1>0, <1>1, <1>2, FaultForgives DEF TypeOK
<1>4. ASSUME NEW t \in Tasks
      PROVE  Served1(t)'
    <2>1. Served1(t) /\ ProcessOf[t] \in Processes
        BY EachServed, ArtifactConstants DEF IInv
    <2>2. CASE ProcessOf[t] \in ps
        <3>1. pc'[t] \in {"idle", "gone"}
            BY <2>2 DEF Lose
        <3> QED BY <3>1 DEF Served1, InHand, Locked
    <2>3. CASE ProcessOf[t] \notin ps
        <3>1. pc'[t] = pc[t] /\ owner'[ProcessOf[t]] = owner[ProcessOf[t]]
            BY <2>1, <2>3 DEF Lose
        <3>2. mounts' = mounts
            BY <2>1, <2>3
        <3> QED BY <2>1, <3>1, <3>2 DEF Served1, InHand, Locked, Usable
    <2> QED BY <2>2, <2>3
<1>5. (Requests /\ ReturnedUsable)'
    BY <1>4 DEF Requests, ReturnedUsable, Served1
<1>6. Whole'
    BY DEF IInv, Whole
<1> QED BY <1>0, <1>3, <1>5, <1>6, FaultForgives DEF IInv

LEMMA UploadStep ==
    ASSUME IInv, Upload
    PROVE  IInv'
<1>0. /\ TypeOK /\ sidecar' = TRUE
      /\ UNCHANGED <<squashUri, enabled, disk, memory, downloads, pc, candidates, temp, path, faults>>
    BY DEF IInv, Upload, NoFault, setting
<1>1. TypeOK'
    BY <1>0 DEF TypeOK, disk, memory
<1>2. Whole' /\ Requests' /\ ReturnedUsable'
    BY <1>0 DEF IInv, Whole, Requests, InHand, Locked, ReturnedUsable, Usable, disk, memory
<1>3. Squashable => Squashable'
    BY <1>0 DEF Squashable, disk
<1>4. ASSUME faults = 0, NEW p \in Processes PROVE DownloadFacts(p)'
    <2>1. DownloadFacts(p)
        BY <1>4 DEF IInv, Faultless
    <2> QED BY <1>0, <1>3, <2>1 DEF DownloadFacts, Cached, Squashed, Materializing, disk
<1>5. ASSUME faults = 0, NEW t \in Tasks PROVE TaskFacts(t)'
    <2>1. TaskFacts(t)
        BY <1>5 DEF IInv, Faultless
    <2> QED BY <1>0, <1>3, <2>1 DEF TaskFacts, CachedFor, Squashed, disk
<1>6. Faultless'
    BY <1>0, <1>4, <1>5 DEF Faultless
<1> QED BY <1>1, <1>2, <1>6 DEF IInv

LEMMA StutterKeeps ==
    ASSUME IInv, UNCHANGED vars
    PROVE  IInv'
<1>0. UNCHANGED <<squashUri, enabled, sidecar, image, mounts, extracted, untarred, owner,
                  disabled, downloads, pc, candidates, temp, path, faults>>
    BY DEF vars, setting, disk, memory
<1>1. TypeOK'
    BY <1>0 DEF IInv, TypeOK
<1>2. Whole' /\ Requests' /\ ReturnedUsable'
    BY <1>0 DEF IInv, Whole, Requests, InHand, Locked, ReturnedUsable, Usable
<1>3. Faultless'
    BY <1>0 DEF IInv, Faultless, DownloadFacts, TaskFacts, Cached, CachedFor, Squashed,
                Squashable, Materializing
<1> QED BY <1>1, <1>2, <1>3 DEF IInv

LEMMA NextIInv ==
    ASSUME IInv, [Next]_vars
    PROVE  IInv'
<1>1. ASSUME NEW t \in Tasks, Request(t) \/ Step(t) \/ Fails(t) \/ Cancel(t)
      PROVE  IInv'
    BY <1>1, RequestStep, LookStep, AcquireStep, RelookStep, FetchStep, MountStep,
       FetchTarballStep, FillStep, PublishStep, FailsStep, CancelStep DEF Step
<1>2. ASSUME NEW p \in Processes, Crash(p)
      PROVE  IInv'
    BY <1>2, LoseStep DEF Crash, disk
<1>3. CASE Restart
    BY <1>3, LoseStep DEF Restart
<1>4. CASE AllEnded
    BY <1>4, StutterKeeps DEF AllEnded
<1> QED BY <1>1, <1>2, <1>3, <1>4, UploadStep, StutterKeeps DEF Next

-----------------------------------------------------------------------------
(* The theorems.                                                           *)

\* The inductive invariant holds in every state the cache of an executor can
\* reach (RegistryArtifactCache.materialize and what it calls).
THEOREM Invariance == Spec => []IInv
<1>1. IInv /\ [Next]_vars => IInv'
    BY NextIInv
<1> QED BY <1>1, InitIInv, PTL DEF Spec

\* The variables of the cache keep their types (RegistryArtifactCache,
\* RegistryArtifactPaths).
THEOREM Typed == Spec => []TypeOK
<1>1. IInv => TypeOK
    BY DEF IInv
<1> QED BY <1>1, Invariance, PTL

\* What materialize returned to a request holds the whole artifact for as long
\* as the request's process lives, however many requests and processes share
\* the directory and whatever fails, is cancelled or crashes.
THEOREM ReturnedIsUsable == Spec => []ReturnedUsable
<1>1. IInv => ReturnedUsable
    BY DEF IInv
<1> QED BY <1>1, Invariance, PTL

\* As long as nothing fails, a process downloads the artifact at most once:
\* the second look inside the lock of materialize is enough, even when the
\* preferred format is uploaded between two requests.
THEOREM OneDownload == Spec => []DownloadedOnce
<1>1. IInv => DownloadedOnce
    BY DEF IInv, Faultless, DownloadFacts, DownloadedOnce
<1> QED BY <1>1, Invariance, PTL

=============================================================================
