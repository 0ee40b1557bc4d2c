------------------------- MODULE ImageCache_proofs -------------------------
EXTENDS ImageCache, TLAPS

(***************************************************************************)
(* Trees                                                                   *)
(***************************************************************************)

LEMMA Lists ==
    /\ 1 \in Layers /\ Layers \subseteq Nat /\ NLayers + 1 \in Nat
    /\ \A d \in Digests : LayersOf[d] \in Layers
    /\ 1 \in 1..(NLayers + 1)
    /\ \A l \in Layers : l + 1 \in 1..(NLayers + 1)
    /\ \A d \in Digests : 1 \in 1..LayersOf[d]
  BY ConstantsOK DEF Layers

LEMMA TreeTypes ==
    /\ Empty \in Trees
    /\ NoTree \notin Trees
    /\ \A d \in Digests : Whole(d) \in Trees
    /\ \A t \in Trees, l \in Layers, d \in Digests \cup {None} :
          [t EXCEPT ![l] = d] \in Trees
  BY ConstantsOK DEF Empty, Trees, Whole, Layers

LEMMA RemovalTypes ==
    ASSUME NEW t \in Trees \cup {NoTree}, NEW u \in Removals(t)
    PROVE  u \in Trees \cup {NoTree}
<1>1. CASE t = Empty \/ t = NoTree
  BY <1>1 DEF Removals
<1>2. CASE t # Empty /\ t # NoTree
  <2>1. PICK l \in Layers : u = [t EXCEPT ![l] = None]
    BY <1>2 DEF Removals
  <2> QED
    BY <1>2, <2>1, TreeTypes
<1> QED
  BY <1>1, <1>2

-----------------------------------------------------------------------------
(* What holds with any number of processes                                 *)

LEMMA EndKeeps ==
    ASSUME OInv, NEW p \in Procs, End(p),
           head' \in Digests, stamp' \in Digests \cup {None}, cut' \in BOOLEAN,
           tmp' \in Trees \cup {NoTree}, rootfs' \in Trees \cup {NoTree}
    PROVE  OInv'
<1> USE DEF OInv, TypeOK, End
<1>1. TypeOK'
  BY Lists, TreeTypes
<1>2. ASSUME NEW q \in Procs PROVE OwnTells(q)'
  BY DEF OwnTells
<1> QED
  BY <1>1, <1>2

LEMMA OwnStep ==
    ASSUME OInv, [Next]_vars
    PROVE  OInv'
<1> USE DEF OInv, cacheVars, procVars, Goto
<1>1. CASE MoveTag
  BY <1>1 DEF MoveTag, TypeOK, OwnTells
<1>2. ASSUME NEW p \in Procs, Begin(p) PROVE OInv'
  <2>1. TypeOK'
    BY <1>2 DEF Begin, TypeOK
  <2>2. ASSUME NEW q \in Procs PROVE OwnTells(q)'
    BY <1>2 DEF Begin, OwnTells, TypeOK
  <2> QED
    BY <2>1, <2>2
<1>3. ASSUME NEW p \in Procs, FetchManifest(p) PROVE OInv'
  <2>1. TypeOK'
    BY <1>3 DEF FetchManifest, TypeOK
  <2>2. ASSUME NEW q \in Procs PROVE OwnTells(q)'
    BY <1>3 DEF FetchManifest, OwnTells, TypeOK
  <2> QED
    BY <2>1, <2>2
<1>4. ASSUME NEW p \in Procs, UseOffline(p) PROVE OInv'
  <2>1. TypeOK'
    BY <1>4 DEF UseOffline, TypeOK
  <2>2. ASSUME NEW q \in Procs PROVE OwnTells(q)'
    BY <1>4 DEF UseOffline, OwnTells, TypeOK
  <2> QED
    BY <2>1, <2>2
<1>5. ASSUME NEW p \in Procs, FetchFails(p) PROVE OInv'
  BY <1>5, EndKeeps DEF FetchFails, TypeOK
<1>6. ASSUME NEW p \in Procs, ClearTmp(p) PROVE OInv'
  <2>1. tmp' \in Trees \cup {NoTree}
    BY <1>6, RemovalTypes DEF ClearTmp, TypeOK
  <2>2. TypeOK'
    BY <1>6, <2>1 DEF ClearTmp, TypeOK
  <2>3. ASSUME NEW q \in Procs PROVE OwnTells(q)'
    BY <1>6 DEF ClearTmp, OwnTells, TypeOK
  <2> QED
    BY <2>2, <2>3
<1>7. ASSUME NEW p \in Procs, MkdirTmp(p) PROVE OInv'
  <2>1. TypeOK'
    BY <1>7, TreeTypes DEF MkdirTmp, TypeOK
  <2>2. ASSUME NEW q \in Procs PROVE OwnTells(q)'
    BY <1>7, Lists DEF MkdirTmp, OwnTells, TypeOK
  <2> QED
    BY <2>1, <2>2
<1>8. ASSUME NEW p \in Procs, ExtractLayer(p) PROVE OInv'
  <2>1. digest[p] \in Digests /\ next[p] \in 1..LayersOf[digest[p]]
    BY <1>8 DEF ExtractLayer, OwnTells
  <2>2. next[p] \in Layers
    BY <2>1, Lists, ConstantsOK DEF Layers
  <2>3. tmp' \in Trees
    <3>1. PICK t \in Trees : tmp' = [t EXCEPT ![next[p]] = digest[p]]
      BY <1>8, TreeTypes DEF ExtractLayer, TypeOK
    <3> QED
      BY <2>1, <2>2, <3>1, TreeTypes
  <2>4. next' \in [Procs -> 1..(NLayers + 1)]
    BY <1>8, <2>2, Lists DEF ExtractLayer, TypeOK
  <2>5. TypeOK'
    BY <1>8, <2>3, <2>4 DEF ExtractLayer, TypeOK
  <2>6. ASSUME NEW q \in Procs PROVE OwnTells(q)'
    <3>1. CASE q = p
      <4>1. LayersOf[digest[p]] \in Nat
        BY <2>1, Lists
      <4>2. next[p] # LayersOf[digest[p]] => next[p] + 1 \in 1..LayersOf[digest[p]]
        BY <2>1, <4>1
      <4> QED
        BY <1>8, <2>1, <3>1, <4>2 DEF ExtractLayer, OwnTells, TypeOK
    <3>2. CASE q # p
      BY <1>8, <3>2 DEF ExtractLayer, OwnTells, TypeOK
    <3> QED
      BY <3>1, <3>2
  <2> QED
    BY <2>5, <2>6
<1>9. ASSUME NEW p \in Procs, ExtractFails(p) PROVE OInv'
  <2>1. TypeOK'
    BY <1>9 DEF ExtractFails, TypeOK
  <2>2. ASSUME NEW q \in Procs PROVE OwnTells(q)'
    BY <1>9 DEF ExtractFails, OwnTells, TypeOK
  <2> QED
    BY <2>1, <2>2
<1>10. ASSUME NEW p \in Procs, CleanupTmp(p) PROVE OInv'
  <2>1. tmp' \in Trees \cup {NoTree}
    BY <1>10, RemovalTypes DEF CleanupTmp, TypeOK
  <2>2. CASE End(p)
    BY <1>10, <2>1, <2>2, EndKeeps DEF CleanupTmp, TypeOK
  <2>3. CASE UNCHANGED procVars
    BY <1>10, <2>1, <2>3 DEF CleanupTmp, TypeOK, OwnTells
  <2> QED
    BY <1>10, <2>2, <2>3 DEF CleanupTmp
<1>11. ASSUME NEW p \in Procs, RemoveOldRootfs(p) PROVE OInv'
  <2>1. rootfs' \in Trees \cup {NoTree}
    BY <1>11, RemovalTypes DEF RemoveOldRootfs, TypeOK
  <2>2. TypeOK'
    BY <1>11, <2>1 DEF RemoveOldRootfs, TypeOK
  <2>3. ASSUME NEW q \in Procs PROVE OwnTells(q)'
    BY <1>11 DEF RemoveOldRootfs, OwnTells, TypeOK
  <2> QED
    BY <2>2, <2>3
<1>12. ASSUME NEW p \in Procs, RenameTmp(p) PROVE OInv'
  <2>1. CASE End(p) /\ UNCHANGED <<tmp, rootfs>>
    BY <1>12, <2>1, EndKeeps DEF RenameTmp, TypeOK
  <2>2. CASE /\ rootfs' = tmp /\ tmp' = NoTree /\ Goto(p, "stamp")
             /\ UNCHANGED <<force, digest, next, listed, box>>
    <3>1. TypeOK'
      BY <1>12, <2>2 DEF RenameTmp, TypeOK
    <3>2. ASSUME NEW q \in Procs PROVE OwnTells(q)'
      BY <1>12, <2>2 DEF RenameTmp, OwnTells, TypeOK
    <3> QED
      BY <3>1, <3>2
  <2> QED
    BY <1>12, <2>1, <2>2 DEF RenameTmp
<1>13. ASSUME NEW p \in Procs, WriteStamp(p) PROVE OInv'
  <2>1. TypeOK'
    BY <1>13 DEF WriteStamp, TypeOK
  <2>2. ASSUME NEW q \in Procs PROVE OwnTells(q)'
    BY <1>13 DEF WriteStamp, OwnTells, TypeOK
  <2> QED
    BY <2>1, <2>2
<1>14. ASSUME NEW p \in Procs, StartCopy(p) PROVE OInv'
  <2>1. CASE End(p)
    BY <1>14, <2>1, EndKeeps DEF StartCopy, TypeOK
  <2>2. CASE ~End(p)
    <3>1. TypeOK'
      BY <1>14, <2>2 DEF StartCopy, TypeOK
    <3>2. ASSUME NEW q \in Procs PROVE OwnTells(q)'
      BY <1>14, <2>2 DEF StartCopy, OwnTells, TypeOK
    <3> QED
      BY <3>1, <3>2
  <2> QED
    BY <2>1, <2>2
<1>15. ASSUME NEW p \in Procs, CopyEntry(p) PROVE OInv'
  <2>1. CASE End(p)
    BY <1>15, <2>1, EndKeeps DEF CopyEntry, TypeOK
  <2>2. CASE ~End(p)
    <3>1. PICK l \in listed[p] :
             /\ rootfs # NoTree
             /\ box' = [box EXCEPT ![p] = [box[p] EXCEPT ![l] = rootfs[l]]]
             /\ listed' = [listed EXCEPT ![p] = listed[p] \ {l}]
             /\ UNCHANGED <<pc, force, digest, next>>
      BY <1>15, <2>2 DEF CopyEntry
    <3>2. l \in Layers /\ box[p] \in Trees /\ rootfs \in Trees
      BY <3>1 DEF TypeOK
    <3>3. rootfs[l] \in Digests \cup {None}
      BY <3>2 DEF Trees
    <3>4. box' \in [Procs -> Trees]
      BY <3>1, <3>2, <3>3, TreeTypes DEF TypeOK
    <3>5. listed' \in [Procs -> SUBSET Layers]
      BY <3>1 DEF TypeOK
    <3>6. TypeOK'
      BY <1>15, <3>1, <3>4, <3>5 DEF CopyEntry, TypeOK
    <3>7. ASSUME NEW q \in Procs PROVE OwnTells(q)'
      BY <1>15, <3>1 DEF CopyEntry, OwnTells, TypeOK
    <3> QED
      BY <3>6, <3>7
  <2> QED
    BY <2>1, <2>2
<1>16. ASSUME NEW p \in Procs, InstallCopy(p) PROVE OInv'
  <2>1. TypeOK'
    BY <1>16 DEF InstallCopy, TypeOK
  <2>2. ASSUME NEW q \in Procs PROVE OwnTells(q)'
    BY <1>16 DEF InstallCopy, OwnTells, TypeOK
  <2> QED
    BY <2>1, <2>2
<1>17. ASSUME NEW p \in Procs, Leave(p) PROVE OInv'
  BY <1>17, EndKeeps DEF Leave, TypeOK
<1>18. ASSUME NEW p \in Procs, Fault(p) PROVE OInv'
  <2>1. cut' \in BOOLEAN
    BY <1>18 DEF Fault, TypeOK
  <2> QED
    BY <1>18, <2>1, EndKeeps DEF Fault, TypeOK
<1>19. CASE UNCHANGED vars
  BY <1>19 DEF vars, TypeOK, OwnTells
<1> QED
  BY <1>1, <1>2, <1>3, <1>4, <1>5, <1>6, <1>7, <1>8, <1>9, <1>10, <1>11, <1>12,
     <1>13, <1>14, <1>15, <1>16, <1>17, <1>18, <1>19 DEF Next, ProcStep

\* Any number of processes pull one reference at once, and are killed at any
\* step: every variable keeps its type, and no layer is extracted past the
\* last one of the manifest.
THEOREM OwnInvariant == Spec => []OInv
<1>1. Init => OInv
  <2> SUFFICES ASSUME Init PROVE OInv
    OBVIOUS
  <2>1. TypeOK
    BY Lists, TreeTypes DEF Init, TypeOK
  <2> QED
    BY <2>1 DEF Init, OInv, OwnTells
<1>2. OInv /\ [Next]_vars => OInv'
  BY OwnStep
<1> QED
  BY <1>1, <1>2, PTL DEF Spec

-----------------------------------------------------------------------------
(* One process at a time                                                   *)

LEMMA UniformTrees ==
    /\ \A d \in Digests : Uniform(Whole(d))
    /\ Digests # {} => Uniform(Empty)
    /\ \A t \in Trees : Uniform(t) =>
          \A u \in Removals(t) : u = NoTree \/ Uniform(u)
    /\ \A u \in Removals(NoTree) : u = NoTree
<1>1. ASSUME NEW t \in Trees, Uniform(t), NEW u \in Removals(t), u # NoTree
      PROVE  Uniform(u)
  <2>1. PICK l \in Layers : u = [t EXCEPT ![l] = None]
    BY <1>1 DEF Removals
  <2>2. PICK d \in Digests : \A k \in Layers : t[k] \in {d, None}
    BY <1>1 DEF Uniform
  <2>3. \A k \in Layers : u[k] \in {d, None}
    BY <2>1, <2>2 DEF Trees
  <2> QED
    BY <2>3 DEF Uniform
<1> QED
  BY <1>1 DEF Uniform, Whole, Empty, Removals

LEMMA ExtractedTrees ==
    ASSUME NEW d \in Digests
    PROVE  /\ Empty = Extracted(d, 1)
           /\ \A n \in 1..LayersOf[d] :
                 /\ [Extracted(d, n) EXCEPT ![n] = d] = Extracted(d, n + 1)
                 /\ Extracted(d, n) # NoTree
                 /\ Uniform(Extracted(d, n)) /\ Uniform(Extracted(d, n + 1))
           /\ Extracted(d, LayersOf[d] + 1) = Whole(d)
           /\ Whole(d) # NoTree
<1>1. Empty = Extracted(d, 1)
  BY DEF Empty, Extracted, Layers
<1>2. LayersOf[d] \in Layers
  BY Lists
<1>3. \A n : Extracted(d, n) \in Trees
  BY DEF Extracted, Trees
<1>4. \A n : Uniform(Extracted(d, n))
  BY DEF Extracted, Uniform
<1>5. Extracted(d, LayersOf[d] + 1) = Whole(d)
  <2>1. ASSUME NEW l \in Layers PROVE l < LayersOf[d] + 1 <=> l <= LayersOf[d]
    <3>1. l \in Nat /\ LayersOf[d] \in Nat
      BY <1>2, Lists
    <3> QED
      BY <3>1
  <2> QED
    BY <2>1 DEF Extracted, Whole
<1>6. ASSUME NEW n \in 1..LayersOf[d]
      PROVE  [Extracted(d, n) EXCEPT ![n] = d] = Extracted(d, n + 1)
  <2>1. n \in Layers /\ n \in Nat
    BY <1>2, ConstantsOK DEF Layers
  <2>2. \A l \in Layers : l < n + 1 <=> l < n \/ l = n
    BY <2>1, Lists
  <2> QED
    BY <2>1, <2>2 DEF Extracted
<1> QED
  BY <1>1, <1>3, <1>4, <1>5, <1>6, TreeTypes

\* A process that ends leaves no claim of its own behind.
LEMMA EndAlone ==
    ASSUME OInv, NEW p, Procs = {p}, End(p),
           tmp' = NoTree \/ Uniform(tmp'), rootfs' = NoTree \/ Uniform(rootfs'),
           cut' \/ stamp' = None \/ rootfs' = Whole(stamp')
    PROVE  CInv'
<1>1. pc'[p] = "idle"
  BY DEF End, OInv, TypeOK
<1> QED
  BY <1>1 DEF CInv, CacheTells, CopyTells, StampTells, Uniform

LEMMA AloneStep ==
    ASSUME OInv, NEW p, Procs = {p}, CInv, [Next]_vars
    PROVE  CInv'
<1> USE DEF cacheVars, procVars, Goto
<1>0. /\ TypeOK /\ OwnTells(p) /\ CacheTells(p) /\ CopyTells(p) /\ StampTells(p)
      /\ p \in Procs
  BY DEF OInv, CInv
<1>1. CASE MoveTag
  BY <1>0, <1>1 DEF MoveTag, CInv, CacheTells, CopyTells, StampTells, Uniform
<1>2. CASE Begin(p)
  BY <1>0, <1>2 DEF Begin, CInv, CacheTells, CopyTells, StampTells, Uniform, TypeOK
<1>3. CASE FetchManifest(p)
  BY <1>0, <1>3, ConstantsOK
     DEF FetchManifest, CInv, CacheTells, CopyTells, StampTells, Uniform, TypeOK
<1>4. CASE UseOffline(p)
  BY <1>0, <1>4 DEF UseOffline, CInv, CacheTells, CopyTells, StampTells, Uniform, TypeOK
<1>5. CASE FetchFails(p)
  BY <1>0, <1>5, EndAlone DEF FetchFails, CacheTells, StampTells, Uniform
<1>6. CASE ClearTmp(p)
  <2>1. tmp' = NoTree \/ Uniform(tmp')
    BY <1>0, <1>6, UniformTrees DEF ClearTmp, CacheTells, TypeOK
  <2>2. (pc' = [pc EXCEPT ![p] = "mkdir"] /\ tmp' = NoTree) \/ pc' = pc
    BY <1>6 DEF ClearTmp
  <2> QED
    BY <1>0, <1>6, <2>1, <2>2
       DEF ClearTmp, CInv, CacheTells, CopyTells, StampTells, Uniform, TypeOK
<1>7. CASE MkdirTmp(p)
  <2>1. tmp' = Empty /\ pc' = [pc EXCEPT ![p] = "extract"]
    BY <1>0, <1>7 DEF MkdirTmp, CacheTells
  <2>2. next[p] = 1 /\ digest[p] \in Digests
    BY <1>0, <1>7 DEF MkdirTmp, OwnTells
  <2>3. tmp' = Extracted(digest[p], next[p]) /\ Uniform(tmp')
    BY <2>1, <2>2, ExtractedTrees, Lists
  <2> QED
    BY <1>0, <1>7, <2>1, <2>3
       DEF MkdirTmp, CInv, CacheTells, CopyTells, StampTells, Uniform, TypeOK
<1>8. CASE ExtractLayer(p)
  <2>1. next[p] \in 1..LayersOf[digest[p]] /\ digest[p] \in Digests
        /\ tmp = Extracted(digest[p], next[p])
    BY <1>0, <1>8 DEF ExtractLayer, OwnTells, CacheTells
  <2>2. tmp' = Extracted(digest[p], next[p] + 1)
    BY <1>8, <2>1, ExtractedTrees DEF ExtractLayer
  <2>3. Uniform(tmp')
    BY <2>1, <2>2, ExtractedTrees
  <2>4. next'[p] = next[p] + 1 /\ digest' = digest
    BY <1>0, <1>8 DEF ExtractLayer, TypeOK
  <2>5. CASE next[p] = LayersOf[digest[p]]
    <3>1. tmp' = Whole(digest'[p]) /\ pc' = [pc EXCEPT ![p] = "swap"]
      BY <1>8, <2>1, <2>2, <2>4, <2>5, ExtractedTrees DEF ExtractLayer
    <3> QED
      BY <1>0, <1>8, <2>3, <3>1
         DEF ExtractLayer, CInv, CacheTells, CopyTells, StampTells, Uniform, TypeOK
  <2>6. CASE next[p] # LayersOf[digest[p]]
    <3>1. pc' = pc
      BY <1>8, <2>6 DEF ExtractLayer
    <3> QED
      BY <1>0, <1>8, <2>2, <2>3, <2>4, <3>1
         DEF ExtractLayer, CInv, CacheTells, CopyTells, StampTells, Uniform, TypeOK
  <2> QED
    BY <2>5, <2>6
<1>9. CASE ExtractFails(p)
  BY <1>0, <1>9 DEF ExtractFails, CInv, CacheTells, CopyTells, StampTells, Uniform, TypeOK
<1>10. CASE CleanupTmp(p)
  <2>1. tmp' = NoTree \/ Uniform(tmp')
    BY <1>0, <1>10, UniformTrees DEF CleanupTmp, CacheTells, TypeOK
  <2>2. CASE End(p)
    BY <1>0, <1>10, <2>1, <2>2, EndAlone DEF CleanupTmp, CacheTells, StampTells, Uniform
  <2>3. CASE UNCHANGED procVars
    BY <1>0, <1>10, <2>1, <2>3
       DEF CleanupTmp, CInv, CacheTells, CopyTells, StampTells, Uniform, TypeOK
  <2> QED
    BY <1>10, <2>2, <2>3 DEF CleanupTmp
<1>11. CASE RemoveOldRootfs(p)
  <2>1. rootfs' = NoTree \/ Uniform(rootfs')
    BY <1>0, <1>11, UniformTrees DEF RemoveOldRootfs, CacheTells, TypeOK
  <2>2. (pc' = [pc EXCEPT ![p] = "rename"] /\ rootfs' = NoTree) \/ pc' = pc
    BY <1>11 DEF RemoveOldRootfs
  <2> QED
    BY <1>0, <1>11, <2>1, <2>2
       DEF RemoveOldRootfs, CInv, CacheTells, CopyTells, StampTells, Uniform, TypeOK
<1>12. CASE RenameTmp(p)
  <2>1. digest[p] \in Digests /\ tmp = Whole(digest[p]) /\ rootfs = NoTree
    BY <1>0, <1>12 DEF RenameTmp, OwnTells, CacheTells
  <2>2. tmp # NoTree
    BY <2>1, ExtractedTrees
  <2>3. rootfs' = Whole(digest[p]) /\ tmp' = NoTree /\ pc' = [pc EXCEPT ![p] = "stamp"]
        /\ UNCHANGED <<force, digest, next, listed, box>>
    BY <1>12, <2>1, <2>2 DEF RenameTmp
  <2>4. Uniform(rootfs')
    BY <2>1, <2>3, UniformTrees
  <2> QED
    BY <1>0, <1>12, <2>3, <2>4
       DEF RenameTmp, CInv, CacheTells, CopyTells, StampTells, Uniform, TypeOK
<1>13. CASE WriteStamp(p)
  BY <1>0, <1>13 DEF WriteStamp, CInv, CacheTells, CopyTells, StampTells, Uniform, TypeOK
<1>14. CASE StartCopy(p)
  <2>1. CASE End(p)
    BY <1>0, <1>14, <2>1, EndAlone DEF StartCopy, CacheTells, StampTells, Uniform
  <2>2. CASE rootfs # NoTree
    <3>1. /\ listed' = [listed EXCEPT ![p] = {l \in Layers : rootfs[l] # None}]
          /\ pc' = [pc EXCEPT ![p] = "copying"]
          /\ UNCHANGED <<force, digest, next, box>>
      BY <1>14, <2>2 DEF StartCopy
    <3>2. listed'[p] = {l \in Layers : rootfs[l] # None} /\ box'[p] = Empty
          /\ pc'[p] = "copying"
      BY <1>0, <1>14, <3>1 DEF StartCopy, OwnTells, TypeOK
    <3>3. rootfs \in Trees
      BY <1>0, <2>2 DEF TypeOK
    <3>4. Empty = [l \in Layers |-> IF l \in listed'[p] THEN None ELSE rootfs[l]]
      BY <3>2, <3>3 DEF Empty, Trees
    <3>5. CopyTells(p)'
      BY <1>0, <1>14, <3>1, <3>2, <3>3, <3>4 DEF StartCopy, CopyTells, CacheTells
    <3>6. CacheTells(p)' /\ StampTells(p)'
      BY <1>0, <1>14, <3>2 DEF StartCopy, CacheTells, StampTells, Uniform
    <3> QED
      BY <1>0, <3>5, <3>6 DEF CInv
  <2> QED
    BY <1>14, <2>1, <2>2 DEF StartCopy
<1>15. CASE CopyEntry(p)
  <2>1. CASE End(p)
    BY <1>0, <1>15, <2>1, EndAlone DEF CopyEntry, CacheTells, StampTells, Uniform
  <2>2. CASE ~End(p)
    <3>1. PICK l \in listed[p] :
             /\ box' = [box EXCEPT ![p] = [box[p] EXCEPT ![l] = rootfs[l]]]
             /\ listed' = [listed EXCEPT ![p] = listed[p] \ {l}]
             /\ UNCHANGED <<pc, force, digest, next>>
      BY <1>15, <2>2 DEF CopyEntry
    <3>2. /\ box'[p] = [box[p] EXCEPT ![l] = rootfs[l]]
          /\ listed'[p] = listed[p] \ {l} /\ l \in Layers /\ listed[p] \subseteq Layers
      BY <1>0, <3>1 DEF TypeOK
    <3>3. box[p] = [k \in Layers |-> IF k \in listed[p] THEN None ELSE rootfs[k]]
          /\ pc[p] = "copying"
      BY <1>0, <1>15 DEF CopyEntry, CopyTells
    <3>4. box'[p] = [k \in Layers |-> IF k \in listed'[p] THEN None ELSE rootfs[k]]
      BY <3>2, <3>3
    <3>5. CopyTells(p)'
      BY <1>0, <1>15, <3>1, <3>2, <3>3, <3>4 DEF CopyEntry, CopyTells
    <3>6. CacheTells(p)' /\ StampTells(p)'
      BY <1>0, <1>15, <3>1 DEF CopyEntry, CacheTells, StampTells, Uniform
    <3> QED
      BY <1>0, <3>5, <3>6 DEF CInv
  <2> QED
    BY <2>1, <2>2
<1>16. CASE InstallCopy(p)
  <2>1. rootfs \in Trees /\ (cut \/ rootfs = Whole(digest[p]))
        /\ box[p] = [l \in Layers |-> rootfs[l]]
    BY <1>0, <1>16 DEF InstallCopy, CopyTells
  <2>2. box[p] = rootfs
    BY <2>1 DEF Trees
  <2>3. Uniform(box[p]) /\ (cut \/ box[p] = Whole(digest[p]))
    BY <1>0, <2>1, <2>2, TreeTypes DEF CacheTells
  <2> QED
    BY <1>0, <1>16, <2>3
       DEF InstallCopy, CInv, CacheTells, CopyTells, StampTells, Uniform, TypeOK
<1>17. CASE Leave(p)
  BY <1>0, <1>17, EndAlone DEF Leave, CacheTells, StampTells, Uniform
<1>18. CASE Fault(p)
  BY <1>0, <1>18, EndAlone DEF Fault, CacheTells, StampTells, Uniform
<1>19. CASE UNCHANGED vars
  BY <1>0, <1>19 DEF vars, CInv, CacheTells, CopyTells, StampTells, Uniform
<1> QED
  BY <1>1, <1>2, <1>3, <1>4, <1>5, <1>6, <1>7, <1>8, <1>9, <1>10, <1>11, <1>12,
     <1>13, <1>14, <1>15, <1>16, <1>17, <1>18, <1>19 DEF Next, ProcStep

LEMMA AloneInvariant == (\E p : Procs = {p}) => (Spec => [](OInv /\ CInv))
<1> SUFFICES ASSUME NEW p, Procs = {p}
             PROVE  Spec => [](OInv /\ CInv)
  OBVIOUS
<1>1. Init => CInv
  BY DEF Init, CInv, CacheTells, CopyTells, StampTells
<1>2. OInv /\ CInv /\ [Next]_vars => CInv'
  BY AloneStep
<1> QED
  BY <1>1, <1>2, OwnInvariant, PTL DEF Spec

\* pullRootfs, installBox: kills and failures at any step of any number of
\* pulls one after the other, of tags that move, never leave files of two
\* images in the cached rootfs or in a box.
THEOREM Unmixed == (\E p : Procs = {p}) => (Spec => []NeverMixed)
<1> SUFFICES ASSUME NEW p, Procs = {p}
             PROVE  Spec => []NeverMixed
  OBVIOUS
<1>1. OInv /\ CInv => NeverMixed
  <2> SUFFICES ASSUME OInv, CInv PROVE NeverMixed
    OBVIOUS
  <2>1. CacheTells(p) /\ CopyTells(p) /\ OwnTells(p) /\ TypeOK
    BY DEF OInv, CInv
  <2>2. rootfs = NoTree \/ Uniform(rootfs)
    BY <2>1 DEF CacheTells
  <2>3. Uniform(box[p])
    <3>1. CASE pc[p] = "copying"
      <4>1. rootfs \in Trees
        BY <2>1, <3>1 DEF CopyTells
      <4>2. PICK d \in Digests : \A l \in Layers : rootfs[l] \in {d, None}
        BY <2>2, <4>1, TreeTypes DEF Uniform
      <4>3. \A l \in Layers : box[p][l] \in {d, None}
        BY <2>1, <3>1, <4>2 DEF CopyTells
      <4> QED
        BY <4>3 DEF Uniform
    <3>2. CASE pc[p] = "done"
      BY <2>1, <3>2 DEF CopyTells
    <3>3. CASE pc[p] \notin {"copying", "done"}
      BY <2>1, <3>3, UniformTrees DEF OwnTells, TypeOK
    <3> QED
      BY <3>1, <3>2, <3>3
  <2> QED
    BY <2>2, <2>3 DEF NeverMixed, Uniform
<1>2. Spec => [](OInv /\ CInv)
  <2>1. \E q : Procs = {q}
    OBVIOUS
  <2> QED
    BY <2>1, AloneInvariant
<1> QED
  BY <1>1, <1>2, PTL

\* pullRootfs: a pull returns the whole image of the digest it resolved,
\* unless one was ever stopped between removing the old rootfs and its stamp.
THEOREM ReturnedWhole == (\E p : Procs = {p}) => (Spec => []ReturnsWholeUnlessCut)
<1>1. CInv => ReturnsWholeUnlessCut
  BY DEF CInv, CacheTells, ReturnsWholeUnlessCut, ReturnsWhole
<1> QED
  BY <1>1, AloneInvariant, PTL

\* installBox: so does the box that is made from it.
THEOREM Boxed == (\E p : Procs = {p}) => (Spec => []BoxIsWhole)
<1>1. CInv => BoxIsWhole
  BY DEF CInv, CopyTells, BoxIsWhole
<1> QED
  BY <1>1, AloneInvariant, PTL
=============================================================================
