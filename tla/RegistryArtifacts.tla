-------------------------- MODULE RegistryArtifacts --------------------------
(***************************************************************************)
(* The cache of registry artifacts on the disk of an executor              *)
(* (executor/registry_artifacts.py): requests of several processes that    *)
(* share the cache directory make one artifact importable, by mounting its *)
(* SquashFS image, by extracting it, or by extracting the tarball.         *)
(*                                                                         *)
(* Code between awaits of one process is a step; processes share the disk  *)
(* and the object store.  A directory is "none", "partial" or "full";      *)
(* downloads go to a private file that is renamed and are one step.  The   *)
(* bundled registry (BuiltinArtifact) touches none of this.                *)
(*                                                                         *)
(* Definitions with "_" and a number are variants of the one that follows  *)
(* them, each with a slip the properties must notice; nothing uses them.   *)
(***************************************************************************)
EXTENDS Integers, Sequences

CONSTANTS
    Tasks,       \* requests for the artifact
    Processes,   \* executor processes
    ProcessOf,   \* Tasks -> the process it runs in
    None,
    MaxFaults    \* bound on failures, cancellations and crashes

ASSUME ArtifactConstants ==
    /\ ProcessOf \in [Tasks -> Processes]
    /\ None \notin Tasks \cup {"mount", "extract", "tar"}
    /\ MaxFaults \in Nat

VARIABLES
    squashUri,   \* whether the artifact is asked for by its SquashFS URI
    enabled,     \* TRACECAT__EXECUTOR_REGISTRY_SQUASHFS_ENABLED
    sidecar,     \* the SquashFS image is in the object store
    image,       \* squashfs_image_path exists
    mounts,      \* mounts on squashfs_mount_dir
    extracted,   \* squashfs_extract_dir
    untarred,    \* tarball_target_dir
    owner,       \* process -> the task that holds the lock of the key
    disabled,    \* process -> SquashfsMountState.disabled
    downloads,   \* process -> finished downloads
    pc,          \* task -> where it is
    candidates,  \* task -> artifacts it will try, in order of preference
    temp,        \* task -> its temporary directory
    path,        \* task -> what it returned
    faults

setting == <<squashUri, enabled>>    \* never changes
disk == <<image, mounts, extracted, untarred>>
memory == <<owner, disabled>>
vars == <<setting, sidecar, disk, memory, downloads, pc, candidates, temp, path, faults>>

Steps == {"idle", "looking", "queued", "relooking", "fetch", "mounting",
          "refetch", "unsquash", "tarball", "untar", "done", "raised", "gone"}
Paths == {"mount", "extract", "tar"}
Contents == {"none", "partial", "full"}
Ended(t) == pc[t] \in {"done", "raised", "gone"}

Init ==
    /\ squashUri \in BOOLEAN /\ enabled \in BOOLEAN
    /\ sidecar \in BOOLEAN /\ (squashUri => sidecar)
    /\ image = FALSE /\ mounts = 0
    /\ extracted = "none" /\ untarred = "none"
    /\ owner = [p \in Processes |-> None]
    /\ disabled = [p \in Processes |-> FALSE]
    /\ downloads = [p \in Processes |-> 0]
    /\ pc = [t \in Tasks |-> "idle"]
    /\ candidates = [t \in Tasks |-> <<>>]
    /\ temp = [t \in Tasks |-> "none"]
    /\ path = [t \in Tasks |-> None]
    /\ faults = 0

Fault == faults < MaxFaults /\ faults' = faults + 1 /\ UNCHANGED setting
NoFault == UNCHANGED <<faults, setting>>
Goto(t, to) == pc' = [pc EXCEPT ![t] = to]

-----------------------------------------------------------------------------
(* Looking for what is there.                                              *)

\* _artifact_candidates; asking the store for the sidecar may fail.
Candidates(t) ==
    \/ /\ squashUri \/ (enabled /\ (image \/ sidecar))
       /\ candidates' = [candidates EXCEPT ![t] = <<"squash", "tar">>]
       /\ NoFault
    \/ /\ ~squashUri /\ ~(enabled /\ (image \/ sidecar))
       /\ candidates' = [candidates EXCEPT ![t] = <<"tar">>]
       /\ NoFault
    \/ /\ ~squashUri /\ enabled /\ ~image
       /\ candidates' = [candidates EXCEPT ![t] = <<"tar">>]
       /\ Fault

\* cached_path: the first path that is there, None if there is none.
CachedPath(artifact) ==
    CASE artifact = "squash" /\ mounts > 0          -> "mount"
      [] artifact = "squash" /\ mounts = 0 /\ extracted # "none" -> "extract"
      [] artifact = "tar" /\ untarred # "none"      -> "tar"
      [] OTHER -> None

\* _first_cached_path
FirstCachedPath(t) ==
    LET cached == {i \in DOMAIN candidates[t] : CachedPath(candidates[t][i]) # None}
    IN  IF cached = {} THEN None
        ELSE CachedPath(candidates[t][CHOOSE i \in cached : \A j \in cached : i <= j])

\* materialize: the candidates are collected without the lock.
Request(t) ==
    /\ pc[t] = "idle"
    /\ Candidates(t)
    /\ Goto(t, "looking")
    /\ UNCHANGED <<sidecar, disk, memory, downloads, temp, path>>

\* Without the lock only what is cached already is returned.
Look(t) ==
    /\ pc[t] = "looking"
    /\ path' = [path EXCEPT ![t] = FirstCachedPath(t)]
    /\ Goto(t, IF path'[t] = None THEN "queued" ELSE "done")
    /\ NoFault
    /\ UNCHANGED <<sidecar, disk, memory, downloads, candidates, temp>>

IsFree(p) == owner[p] = None

\* async with lock
Acquire(t) ==
    /\ pc[t] = "queued" /\ IsFree(ProcessOf[t])
    /\ owner' = [owner EXCEPT ![ProcessOf[t]] = t]
    /\ Candidates(t)
    /\ Goto(t, "relooking")
    /\ UNCHANGED <<sidecar, disk, disabled, downloads, temp, path>>

Released(t) == [owner EXCEPT ![ProcessOf[t]] = None]

Return(t, dir) ==
    /\ path' = [path EXCEPT ![t] = dir]
    /\ owner' = Released(t)
    /\ Goto(t, "done")

\* can_mount_squashfs
CanMount(t) == enabled /\ ~disabled[ProcessOf[t]]

\* Where extract() goes on: nothing, if the directory is there.
Extract(t) ==
    \/ extracted # "none" /\ Return(t, "extract")
    \/ /\ extracted = "none"
       /\ Goto(t, IF image THEN "unsquash" ELSE "refetch")
       /\ UNCHANGED <<path, owner>>

\* What is cached by now is not looked for.
CachedNow_1(t) == None
CachedNow(t) == FirstCachedPath(t)

\* With the lock: what another request has cached in the meantime, or the
\* first candidate.
Relook(t) ==
    /\ pc[t] = "relooking"
    /\ \/ CachedNow(t) # None /\ Return(t, CachedNow(t))
       \/ /\ CachedNow(t) = None
          /\ CASE Head(candidates[t]) = "tar" -> Goto(t, "tarball") /\ UNCHANGED <<path, owner>>
               [] Head(candidates[t]) = "squash" /\ CanMount(t) ->
                     /\ Goto(t, IF image THEN "mounting" ELSE "fetch")
                     /\ UNCHANGED <<path, owner>>
               [] OTHER -> Extract(t)
    /\ NoFault
    /\ UNCHANGED <<sidecar, disk, disabled, downloads, candidates, temp>>

-----------------------------------------------------------------------------
(* SquashfsArtifact.                                                       *)

Downloaded(t) == downloads' = [downloads EXCEPT ![ProcessOf[t]] = @ + 1]

\* materialize: "Failed to mount SquashFS registry artifact, trying extraction"
MountFailed(t) ==
    /\ disabled' = [disabled EXCEPT ![ProcessOf[t]] = TRUE]
    /\ Extract(t)

\* download, on behalf of mount() or of extract().
Fetch(t) ==
    /\ pc[t] \in {"fetch", "refetch"}
    /\ image' = TRUE /\ Downloaded(t)
    /\ Goto(t, IF pc[t] = "fetch" THEN "mounting" ELSE "unsquash")
    /\ NoFault
    /\ UNCHANGED <<sidecar, mounts, extracted, untarred, memory, candidates, temp, path>>

\* The candidate in hand has failed.
Drop(t) == candidates' = [candidates EXCEPT ![t] = Tail(@)]

\* The exception is passed on.
Fallback_1(t) ==
    /\ owner' = Released(t)
    /\ Drop(t)
    /\ Goto(t, "raised")
\* materialize of the cache: "trying fallback"
Fallback(t) == Drop(t) /\ Goto(t, "tarball") /\ UNCHANGED owner

FetchFails(t) ==
    /\ Fault
    /\ \/ pc[t] = "fetch" /\ MountFailed(t) /\ UNCHANGED candidates
       \/ pc[t] = "refetch" /\ Fallback(t) /\ UNCHANGED <<disabled, path>>
    /\ UNCHANGED <<sidecar, disk, downloads, temp>>

\* _mount_image: mount succeeds, or another process has mounted the image.
Mount(t) ==
    /\ pc[t] = "mounting"
    /\ \/ mounts' = mounts + 1
       \/ mounts > 0 /\ UNCHANGED mounts
    /\ Return(t, "mount")
    /\ NoFault
    /\ UNCHANGED <<sidecar, image, extracted, untarred, disabled, downloads, candidates, temp>>

MountFails(t) ==
    /\ pc[t] = "mounting" /\ mounts = 0
    /\ Fault
    /\ MountFailed(t)
    /\ UNCHANGED <<sidecar, disk, downloads, candidates, temp>>

-----------------------------------------------------------------------------
(* Extraction, of the image and of the tarball.                            *)

Extracting(t) == pc[t] \in {"unsquash", "untar"}

\* unsquashfs and tarfile fill the temporary directory.
Fill(t) ==
    /\ Extracting(t) /\ temp[t] # "full"
    /\ temp' = [temp EXCEPT ![t] = IF @ = "none" THEN "partial" ELSE "full"]
    /\ NoFault
    /\ UNCHANGED <<sidecar, disk, memory, downloads, pc, candidates, path>>

\* It is renamed while it is being filled.
IsFilled_1(t) == temp[t] # "none"
IsFilled(t) == temp[t] = "full"

\* finally: rmtree
Removed(t) == [temp EXCEPT ![t] = "none"]

\* rename replaces nothing: if the target is there, another process was faster.
Publish(t) ==
    /\ Extracting(t) /\ IsFilled(t)
    /\ \/ /\ pc[t] = "unsquash"
          /\ extracted' = IF extracted = "none" THEN temp[t] ELSE extracted
          /\ Return(t, "extract")
          /\ UNCHANGED untarred
       \/ /\ pc[t] = "untar"
          /\ untarred' = IF untarred = "none" THEN temp[t] ELSE untarred
          /\ Return(t, "tar")
          /\ UNCHANGED extracted
    /\ temp' = Removed(t)
    /\ NoFault
    /\ UNCHANGED <<sidecar, image, mounts, disabled, downloads, candidates>>

\* TarballArtifact.materialize: download, then extract.
FetchTarball(t) ==
    /\ pc[t] = "tarball"
    /\ Downloaded(t)
    /\ Goto(t, "untar")
    /\ NoFault
    /\ UNCHANGED <<sidecar, disk, memory, candidates, temp, path>>

\* The last candidate fails: the exception reaches the caller.
Raise(t) == Drop(t) /\ owner' = Released(t) /\ Goto(t, "raised")

ExtractFails(t) ==
    /\ Fault
    /\ \/ pc[t] = "unsquash" /\ Fallback(t)
       \/ pc[t] \in {"tarball", "untar"} /\ Raise(t)
    /\ temp' = Removed(t)
    /\ UNCHANGED <<sidecar, disk, disabled, downloads, path>>

-----------------------------------------------------------------------------
(* The environment.                                                        *)

\* The sync of the registry uploads the SquashFS image.
Upload ==
    /\ ~sidecar /\ sidecar' = TRUE
    /\ NoFault
    /\ UNCHANGED <<disk, memory, downloads, pc, candidates, temp, path>>

\* A request is cancelled at an await.  The mount command and the extracting
\* thread or command go on without it.
Cancel(t) ==
    /\ pc[t] # "idle" /\ ~Ended(t)
    /\ Fault
    /\ \/ UNCHANGED mounts
       \/ pc[t] = "mounting" /\ mounts' = mounts + 1
    /\ temp' \in {Removed(t), [temp EXCEPT ![t] = IF Extracting(t) THEN "partial" ELSE "none"]}
    /\ owner' = IF owner[ProcessOf[t]] = t THEN Released(t) ELSE owner
    /\ Goto(t, "gone")
    /\ UNCHANGED <<sidecar, image, extracted, untarred, disabled, downloads, candidates, path>>

\* The tasks of ps are gone and what they kept in memory is lost.
Lose(ps) ==
    /\ pc' = [t \in Tasks |->
                IF ProcessOf[t] \in ps /\ pc[t] # "idle" THEN "gone" ELSE pc[t]]
    /\ owner' = [p \in Processes |-> IF p \in ps THEN None ELSE owner[p]]
    /\ disabled' = [p \in Processes |-> p \notin ps /\ disabled[p]]
    /\ downloads' = [p \in Processes |-> IF p \in ps THEN 0 ELSE downloads[p]]

\* A process is killed and started again.
Crash(p) ==
    /\ Fault /\ Lose({p})
    /\ UNCHANGED <<sidecar, disk, candidates, temp, path>>

\* The host is started again: nothing is mounted.
Restart ==
    /\ Fault /\ Lose(Processes)
    /\ mounts' = 0
    /\ UNCHANGED <<sidecar, image, extracted, untarred, candidates, temp, path>>

AllEnded == (\A t \in Tasks : Ended(t)) /\ UNCHANGED vars

Step(t) ==
    \/ Look(t) \/ Acquire(t) \/ Relook(t) \/ Fetch(t) \/ Mount(t)
    \/ FetchTarball(t) \/ Fill(t) \/ Publish(t)

Fails(t) == FetchFails(t) \/ MountFails(t) \/ ExtractFails(t)

Next ==
    \/ \E t \in Tasks : Request(t) \/ Step(t) \/ Fails(t) \/ Cancel(t)
    \/ \E p \in Processes : Crash(p)
    \/ Upload
    \/ Restart
    \/ AllEnded

Spec == Init /\ [][Next]_vars

\* The event loop runs every task whose await is over; asyncio.Lock is fair.
FairSpec == Spec /\ \A t \in Tasks : WF_vars(Step(t)) /\ SF_vars(Acquire(t))

-----------------------------------------------------------------------------
(* Properties.                                                             *)

\* Types of the variables (RegistryArtifactCache, RegistryArtifactPaths).
TypeOK ==
    /\ squashUri \in BOOLEAN /\ enabled \in BOOLEAN
    /\ sidecar \in BOOLEAN /\ image \in BOOLEAN
    /\ mounts \in Nat
    /\ extracted \in Contents /\ untarred \in Contents
    /\ owner \in [Processes -> Tasks \cup {None}]
    /\ disabled \in [Processes -> BOOLEAN]
    /\ downloads \in [Processes -> Nat]
    /\ pc \in [Tasks -> Steps]
    /\ candidates \in [Tasks -> {<<>>, <<"tar">>, <<"squash", "tar">>}]
    /\ temp \in [Tasks -> Contents]
    /\ path \in [Tasks -> Paths \cup {None}]
    /\ faults \in 0 .. MaxFaults

Usable(dir) ==
    CASE dir = "mount"   -> mounts > 0
      [] dir = "extract" -> extracted = "full"
      [] dir = "tar"     -> untarred = "full"

\* The path that a request was given holds the whole artifact for as long as
\* its process lives, whoever made it and whatever else failed, was cancelled
\* or crashed in the meantime: the lock-free lookup tells no half-extracted
\* directory from a whole one (cached_path, extract, materialize).
ReturnedUsable == \A t \in Tasks : pc[t] = "done" => Usable(path[t])

\* As long as nothing fails, a process downloads an artifact once, however
\* many of its requests missed the cache before they queued for the lock, and
\* even if the preferred format is uploaded only later (materialize).
DownloadedOnce == faults = 0 => \A p \in Processes : downloads[p] <= 1

\* Every request that is not cancelled or lost with its process is served,
\* whatever fails on the way to the preferred formats; it raises only when no
\* candidate is left, the tarball included (materialize).
Served ==
    \A t \in Tasks :
        pc[t] = "looking" ~>
            pc[t] \in {"done", "gone"} \/ (pc[t] = "raised" /\ candidates[t] = <<>>)

=============================================================================
