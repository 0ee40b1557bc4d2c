----------------------------- MODULE ImageCache -----------------------------
(***************************************************************************)
(* The cache directory of one image reference (pullRootfs in image.go) and *)
(* the copy of it that becomes a box (installBox in box.go).  The cache    *)
(* has no lock: runs of different box names pull the same reference at the *)
(* same time, into the same rootfs.tmp.                                    *)
(*                                                                         *)
(* A tree maps every layer of the image to the digest whose files of that  *)
(* layer are there.  removeTree and copyTree work file by file, so a tree  *)
(* can be caught between any two layers.                                   *)
(***************************************************************************)
EXTENDS Naturals

CONSTANTS Procs,   \* processes that run a new box of this reference
          Digests, \* the manifests the tag may name
          NLayers, \* the most layers of a manifest
          LayersOf, \* LayersOf[d]: the layers of manifest d
          Faults,  \* can a process be killed, or a removal fail midway?
          NoTree,  \* the directory does not exist
          None     \* no digest

Layers == 1..NLayers

ASSUME ConstantsOK ==
    /\ NLayers \in Nat \ {0}
    /\ LayersOf \in [Digests -> Layers]
    /\ Faults \in BOOLEAN
    /\ None \notin Digests
    /\ NoTree \notin [Layers -> Digests \cup {None}]

VARIABLES
    head,   \* the digest the registry has for the tag
    stamp,  \* the content of the file digest
    tmp,    \* the tree rootfs.tmp
    rootfs, \* the tree rootfs
    cut,    \* history: did a pull end between removing the old rootfs and its
            \* stamp, and none has completed since?
    pc,     \* pc[p]: the next step of p
    force,  \* force[p]: p was given -pull
    digest, \* digest[p]: the digest p has resolved
    next,   \* next[p]: the layer p extracts next
    listed, \* listed[p]: the layers p has seen in rootfs and still copies
    box     \* box[p]: the tree p copies

cacheVars == <<head, stamp, tmp, rootfs, cut>>
procVars == <<pc, force, digest, next, listed, box>>
vars == <<cacheVars, procVars>>

Trees == [Layers -> Digests \cup {None}]
Empty == [l \in Layers |-> None]
Whole(d) == [l \in Layers |-> IF l <= LayersOf[d] THEN d ELSE None]

TypeOK ==
    /\ head \in Digests
    /\ stamp \in Digests \cup {None}
    /\ tmp \in Trees \cup {NoTree}
    /\ rootfs \in Trees \cup {NoTree}
    /\ cut \in BOOLEAN
    /\ pc \in [Procs -> {"idle", "manifest", "clearTmp", "mkdir", "extract",
                         "cleanup", "swap", "rename", "stamp", "copy",
                         "copying", "done"}]
    /\ force \in [Procs -> BOOLEAN]
    /\ digest \in [Procs -> Digests \cup {None}]
    /\ next \in [Procs -> 1..(NLayers + 1)]
    /\ listed \in [Procs -> SUBSET Layers]
    /\ box \in [Procs -> Trees]

Init ==
    /\ head \in Digests
    /\ stamp = None
    /\ tmp = NoTree
    /\ rootfs = NoTree
    /\ cut = FALSE
    /\ pc = [p \in Procs |-> "idle"]
    /\ force = [p \in Procs |-> FALSE]
    /\ digest = [p \in Procs |-> None]
    /\ next = [p \in Procs |-> 1]
    /\ listed = [p \in Procs |-> {}]
    /\ box = [p \in Procs |-> Empty]

Goto(p, step) == pc' = [pc EXCEPT ![p] = step]

MoveTag ==
    /\ head' \in Digests
    /\ UNCHANGED <<stamp, tmp, rootfs, cut, procVars>>

Begin(p) ==
    /\ pc[p] = "idle"
    /\ force' \in {[force EXCEPT ![p] = b] : b \in BOOLEAN}
    /\ Goto(p, "manifest")
    /\ UNCHANGED <<cacheVars, digest, next, listed, box>>

\* An error return: the process ends, and a box it was copying is removed.
End(p) ==
    /\ pc' = [pc EXCEPT ![p] = "idle"]
    /\ force' = [force EXCEPT ![p] = FALSE]
    /\ digest' = [digest EXCEPT ![p] = None]
    /\ next' = [next EXCEPT ![p] = 1]
    /\ listed' = [listed EXCEPT ![p] = {}]
    /\ box' = [box EXCEPT ![p] = Empty]

\* Mutant: any stamped cache is taken for current.
FetchKeepsStale(p) ==
    /\ pc[p] = "manifest"
    /\ digest' = [digest EXCEPT ![p] = head]
    /\ Goto(p, IF ~force[p] /\ stamp # None /\ rootfs # NoTree
               THEN "copy" ELSE "clearTmp")
    /\ UNCHANGED <<cacheVars, force, next, listed, box>>

\* With a registry in reach the stamp decides whether the cache is current.
\* Without one any stamped cache will do.
FetchManifest(p) ==
    /\ pc[p] = "manifest"
    /\ digest' = [digest EXCEPT ![p] = head]
    /\ Goto(p, IF ~force[p] /\ stamp = head /\ rootfs # NoTree
               THEN "copy" ELSE "clearTmp")
    /\ UNCHANGED <<cacheVars, force, next, listed, box>>

UseOffline(p) ==
    /\ pc[p] = "manifest"
    /\ stamp # None
    /\ digest' = [digest EXCEPT ![p] = stamp]
    /\ Goto(p, "copy")
    /\ UNCHANGED <<cacheVars, force, next, listed, box>>

\* The registry cannot be reached and there is no cache, or it can and the
\* layer list is refused.
FetchFails(p) ==
    /\ pc[p] = "manifest"
    /\ End(p)
    /\ UNCHANGED cacheVars

\* One step of os.RemoveAll on a tree: an entry, or the empty directory.
Removals(tree) ==
    IF tree = Empty \/ tree = NoTree THEN {NoTree}
    ELSE {[tree EXCEPT ![l] = None] : l \in {k \in Layers : tree[k] # None}}

\* Mutant: an old rootfs.tmp is kept.
KeepTmp(p) ==
    /\ pc[p] = "clearTmp"
    /\ Goto(p, "mkdir")
    /\ UNCHANGED <<cacheVars, force, digest, next, listed, box>>

ClearTmp(p) ==
    /\ pc[p] = "clearTmp"
    /\ tmp' \in Removals(tmp)
    /\ IF tmp' = NoTree THEN Goto(p, "mkdir") ELSE UNCHANGED pc
    /\ UNCHANGED <<head, stamp, rootfs, cut, force, digest, next, listed, box>>

MkdirTmp(p) ==
    /\ pc[p] = "mkdir"
    /\ tmp' = IF tmp = NoTree THEN Empty ELSE tmp
    /\ Goto(p, "extract")
    /\ UNCHANGED <<head, stamp, rootfs, cut, force, digest, next, listed, box>>

\* untar creates missing parents, rootfs.tmp itself included.
ExtractLayer(p) ==
    /\ pc[p] = "extract"
    /\ tmp' = [(IF tmp = NoTree THEN Empty ELSE tmp) EXCEPT ![next[p]] = digest[p]]
    /\ next' = [next EXCEPT ![p] = @ + 1]
    /\ IF next[p] = LayersOf[digest[p]] THEN Goto(p, "swap") ELSE UNCHANGED pc
    /\ UNCHANGED <<head, stamp, rootfs, cut, force, digest, listed, box>>

ExtractFails(p) ==
    /\ pc[p] = "extract"
    /\ Goto(p, "cleanup")
    /\ UNCHANGED <<cacheVars, force, digest, next, listed, box>>

\* Best effort: the error of the pull is the one that is reported.
CleanupTmp(p) ==
    /\ pc[p] = "cleanup"
    /\ tmp' \in Removals(tmp)
    /\ IF tmp' = NoTree THEN End(p) ELSE UNCHANGED procVars
    /\ UNCHANGED <<head, stamp, rootfs, cut>>

RemoveOldRootfs(p) ==
    /\ pc[p] = "swap"
    /\ rootfs' \in Removals(rootfs)
    /\ IF rootfs' = NoTree THEN Goto(p, "rename") ELSE UNCHANGED pc
    /\ UNCHANGED <<head, stamp, tmp, cut, force, digest, next, listed, box>>

\* rename replaces nothing but an empty directory.
RenameTmp(p) ==
    /\ pc[p] = "rename"
    /\ IF tmp # NoTree /\ rootfs \in {NoTree, Empty}
       THEN /\ rootfs' = tmp
            /\ tmp' = NoTree
            /\ Goto(p, "stamp")
            /\ UNCHANGED <<force, digest, next, listed, box>>
       ELSE End(p) /\ UNCHANGED <<tmp, rootfs>>
    /\ UNCHANGED <<head, stamp, cut>>

WriteStamp(p) ==
    /\ pc[p] = "stamp"
    /\ stamp' = digest[p]
    /\ cut' = FALSE
    /\ Goto(p, "copy")
    /\ UNCHANGED <<head, tmp, rootfs, force, digest, next, listed, box>>

\* copyTree lists a directory once and then copies what it has listed.
StartCopy(p) ==
    /\ pc[p] = "copy"
    /\ IF rootfs = NoTree THEN End(p)
       ELSE /\ listed' = [listed EXCEPT ![p] = {l \in Layers : rootfs[l] # None}]
            /\ Goto(p, "copying")
            /\ UNCHANGED <<force, digest, next, box>>
    /\ UNCHANGED cacheVars

CopyEntry(p) ==
    /\ pc[p] = "copying"
    /\ \E l \in listed[p] :
         IF rootfs = NoTree \/ rootfs[l] = None THEN End(p)
         ELSE /\ box' = [box EXCEPT ![p][l] = rootfs[l]]
              /\ listed' = [listed EXCEPT ![p] = @ \ {l}]
              /\ UNCHANGED <<pc, force, digest, next>>
    /\ UNCHANGED cacheVars

InstallCopy(p) ==
    /\ pc[p] = "copying"
    /\ listed[p] = {}
    /\ Goto(p, "done")
    /\ UNCHANGED <<cacheVars, force, digest, next, listed, box>>

Leave(p) ==
    /\ pc[p] = "done"
    /\ End(p)
    /\ UNCHANGED cacheVars

\* A kill, or an I/O error that stops a removal, a rename or a write.
Fault(p) ==
    /\ Faults
    /\ pc[p] # "idle"
    /\ End(p)
    /\ cut' = (cut \/ pc[p] \in {"swap", "rename", "stamp"})
    /\ UNCHANGED <<head, stamp, tmp, rootfs>>

ProcStep(p) ==
    \/ FetchManifest(p) \/ UseOffline(p) \/ FetchFails(p)
    \/ ClearTmp(p) \/ MkdirTmp(p) \/ ExtractLayer(p) \/ ExtractFails(p)
    \/ CleanupTmp(p) \/ RemoveOldRootfs(p) \/ RenameTmp(p) \/ WriteStamp(p)
    \/ StartCopy(p) \/ CopyEntry(p) \/ InstallCopy(p) \/ Leave(p)

Next == MoveTag \/ \E p \in Procs : Begin(p) \/ ProcStep(p) \/ Fault(p)

Spec == Init /\ [][Next]_vars

\* The race of two pulls needs neither of them to stop.
FairSpec == Spec /\ \A p \in Procs : WF_vars(ProcStep(p))

-----------------------------------------------------------------------------
(* Properties                                                              *)

\* What is renamed to rootfs is the whole image of the digest that is then
\* stamped: a pull never leaves a half-written rootfs (image.go:79-80).
InstallsWhole ==
    [][\A p \in Procs :
         pc[p] = "rename" /\ pc'[p] = "stamp" => rootfs' = Whole(digest[p])]_vars

\* When pullRootfs returns, the whole root filesystem of the digest it
\* resolved is on disk (image.go:36-38).
ReturnsWhole ==
    \A p \in Procs : pc[p] = "copy" => rootfs = Whole(digest[p])

\* The same, also after kills and errors at any step but those between the
\* removal of the old rootfs and the stamp of the new one (image.go:97-107);
\* and what those leave behind is repaired by the next pull that completes.
ReturnsWholeUnlessCut == cut \/ ReturnsWhole

\* A box is installed only with all files of one image (box.go:103-104),
\* under the same condition on the pulls before it.
BoxIsWhole ==
    \A p \in Procs : pc[p] = "done" => cut \/ box[p] = Whole(digest[p])

\* Interrupted pulls and moving tags never leave files of two images in the
\* cached rootfs, nor in a box.
NeverMixed ==
    /\ rootfs # NoTree => \E d \in Digests : \A l \in Layers : rootfs[l] \in {d, None}
    /\ \A p \in Procs : \E d \in Digests : \A l \in Layers : box[p][l] \in {d, None}

-----------------------------------------------------------------------------
(* The inductive invariants                                                *)

\* A tree with files of one image only.
Uniform(tree) == \E d \in Digests : \A l \in Layers : tree[l] \in {d, None}

\* The first layers of a manifest.
Extracted(d, n) == [l \in Layers |-> IF l < n THEN d ELSE None]

\* What the step of a process tells of its own state, with any others around.
OwnTells(p) ==
    /\ pc[p] \in {"idle", "manifest", "clearTmp", "mkdir"} => next[p] = 1
    /\ pc[p] \notin {"idle", "manifest"} => digest[p] \in Digests
    /\ pc[p] = "extract" => next[p] \in 1..LayersOf[digest[p]]
    /\ pc[p] \notin {"copying", "done"} => box[p] = Empty

OInv == TypeOK /\ \A p \in Procs : OwnTells(p)

\* What it tells of the cache when there is no other process.
CacheTells(p) ==
    /\ tmp = NoTree \/ Uniform(tmp)
    /\ rootfs = NoTree \/ Uniform(rootfs)
    /\ pc[p] = "mkdir" => tmp = NoTree
    /\ pc[p] = "extract" => tmp = Extracted(digest[p], next[p])
    /\ pc[p] \in {"swap", "rename"} => tmp = Whole(digest[p])
    /\ pc[p] = "rename" => rootfs = NoTree
    /\ pc[p] = "stamp" => rootfs = Whole(digest[p])
    /\ pc[p] = "copy" => cut \/ rootfs = Whole(digest[p])

\* The box has what was in rootfs and is not listed any more.
CopyTells(p) ==
    /\ pc[p] = "copying" =>
          /\ rootfs \in Trees /\ (cut \/ rootfs = Whole(digest[p]))
          /\ \A l \in listed[p] : rootfs[l] # None
          /\ box[p] = [l \in Layers |-> IF l \in listed[p] THEN None ELSE rootfs[l]]
    /\ pc[p] = "done" => Uniform(box[p]) /\ (cut \/ box[p] = Whole(digest[p]))

StampTells(p) ==
    \/ cut \/ pc[p] \in {"swap", "rename", "stamp"}
    \/ stamp = None \/ rootfs = Whole(stamp)

CInv == \A p \in Procs : CacheTells(p) /\ CopyTells(p) /\ StampTells(p)
=============================================================================
