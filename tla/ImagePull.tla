----------------------------- MODULE ImagePull -----------------------------
(***************************************************************************)
(* One pull of an image (registryClient and untar in image.go): manifests  *)
(* and layers are fetched with an anonymous token that is renewed when the *)
(* registry asks for it, and every layer is unpacked over the ones before  *)
(* it.  The registry may serve other bytes than the manifest names, expire *)
(* a token or fail at any time.                                            *)
(***************************************************************************)
EXTENDS Layer

CONSTANTS Images, \* what the registry may hold for the reference
          Arch    \* runtime.GOARCH

IsList(list) == Len(list) \in Nat /\ list = [i \in 1..Len(list) |-> list[i]]

\* An entry of an archive: only a directory may be the one that is unpacked to.
EntryOK(e) ==
    /\ e.path \in Seq(STRING)
    /\ e.kind \notin {"dir", "opaque"} => e.path # <<>>
    /\ e.kind \in {"link", "hard"} => e.to \in Seq(STRING)
    /\ e.kind = "link" => e.slash \in BOOLEAN
    /\ e.kind = "dir" => e.mode \in Modes

\* A blob is an archive and the bytes behind its end. An archive has entries,
\* and a form: the rest of its bytes.
BlobOK(blob) ==
    /\ blob = [archive |-> blob.archive, tail |-> blob.tail]
    /\ blob.tail \in Seq(STRING)
    /\ IsList(blob.archive.entries)
    /\ \A j \in DOMAIN blob.archive.entries : EntryOK(blob.archive.entries[j])

\* A manifest names the blobs of its layers by their digests, and the registry
\* serves one for each. An index lists manifests.
LayersOK(list) ==
    IsList(list) /\ \A i \in DOMAIN list : BlobOK(list[i].named) /\ BlobOK(list[i].served)

ASSUME ImagesOK ==
    \A i \in Images :
        /\ i.auth \in {"open", "bearer", "basic", "closed"}
        /\ LayersOK(i.layers)
        /\ IsList(i.index) /\ \A m \in DOMAIN i.index : LayersOK(i.index[m].layers)

VARIABLES
    image,   \* the image of the registry
    token,   \* the token of the client: none, good or stale
    expired, \* did the token expire while a request was repeated?
    step,    \* what the client does next
    what,    \* what it fetches: the tag, one manifest of an index, or a blob
    layers,  \* the layers of the manifest
    nth,     \* the layer it works on
    entry,   \* the entry of the archive it unpacks next
    tree,    \* the directory it unpacks into
    modes,   \* the directory modes to apply
    reason   \* why the pull was refused

vars == <<image, token, expired, step, what, layers, nth, entry, tree, modes, reason>>
requestVars == <<token, expired>>
layerVars == <<nth, entry, tree, modes>>

TypeOK ==
    /\ token \in {"none", "good", "stale"} /\ expired \in BOOLEAN
    /\ step \in {"request", "challenge", "again", "manifest", "archive",
                 "digest", "done", "refused"}
    /\ what \in {"tag", "sub", "blob"}
    /\ nth \in 1..Len(layers) + 1
    /\ what = "blob" /\ step \notin {"done", "refused"} =>
         entry \in 1..Len(layers[nth].served.archive.entries) + 1
    /\ TreeOK(tree)
    /\ modes \in Seq([path : Seq(STRING), mode : Modes])

Init ==
    /\ image \in Images
    /\ token = "none" /\ expired = FALSE
    /\ step = "request" /\ what = "tag"
    /\ layers = <<>> /\ nth = 1 /\ entry = 1
    /\ tree = EmptyTree /\ modes = <<>>
    /\ reason = "none"

Refuse(why) == step' = "refused" /\ reason' = why

-----------------------------------------------------------------------------
(* registryClient.get                                                      *)

Accepted == image.auth = "open" \/ (image.auth = "bearer" /\ token = "good")

\* Status 200: the body of a manifest, or the archive of a layer.
Answered == step' = (IF what = "blob" THEN "archive" ELSE "manifest")

\* Mutant: a token is fetched only once.
RequestTokenOnce ==
    /\ step = "request"
    /\ IF Accepted THEN Answered /\ UNCHANGED reason
       ELSE IF token = "none" THEN step' = "challenge" /\ UNCHANGED reason
       ELSE Refuse("unauthorized")
    /\ expired' = FALSE
    /\ UNCHANGED <<image, token, what, layers, layerVars>>

Request ==
    /\ step = "request"
    /\ IF Accepted THEN Answered ELSE step' = "challenge"
    /\ expired' = FALSE
    /\ UNCHANGED <<image, token, what, layers, layerVars, reason>>

\* Only a Bearer challenge is answered.
Authenticate ==
    /\ step = "challenge"
    /\ IF image.auth = "basic" THEN Refuse("unauthorized") /\ UNCHANGED token
       ELSE token' = "good" /\ step' = "again" /\ UNCHANGED reason
    /\ UNCHANGED <<image, expired, what, layers, layerVars>>

\* Mutant: a refused request is repeated until it is accepted.
RequestUntilAccepted ==
    /\ step = "again"
    /\ IF Accepted THEN Answered ELSE step' = "challenge"
    /\ UNCHANGED <<image, requestVars, what, layers, layerVars, reason>>

RequestAgain ==
    /\ step = "again"
    /\ IF Accepted THEN Answered /\ UNCHANGED reason ELSE Refuse("unauthorized")
    /\ UNCHANGED <<image, requestVars, what, layers, layerVars>>

-----------------------------------------------------------------------------
(* registryClient.layers                                                   *)

\* Media types that are refused before anything is fetched.
Supported(layer) == layer.media \notin {"zstd", "foreign"}

Fetch(l) == IF Supported(l) THEN step' = "request" /\ UNCHANGED reason
            ELSE Refuse("media")

UseLayers(list) ==
    /\ layers' = list
    /\ what' = "blob"
    /\ IF list = <<>> THEN Refuse("noLayers") ELSE Fetch(list[1])

\* The first build of an index for this machine.
Matches == {i \in DOMAIN image.index :
              image.index[i].os = "linux" /\ image.index[i].arch = Arch}
Chosen == image.index[CHOOSE i \in Matches : \A j \in Matches : i <= j]

ReadManifest ==
    /\ step = "manifest"
    /\ IF image.index = <<>> THEN UseLayers(image.layers)
       ELSE IF what = "sub" THEN UseLayers(Chosen.layers)
       ELSE IF Matches = {} THEN Refuse("noBuild") /\ UNCHANGED <<what, layers>>
       ELSE what' = "sub" /\ step' = "request" /\ UNCHANGED <<layers, reason>>
    /\ UNCHANGED <<image, requestVars, layerVars>>

-----------------------------------------------------------------------------
(* registryClient.extractLayer, untar                                      *)

Current == layers[nth]
Served == Current.served.archive
NextEntry == Served.entries[entry]

\* Mutant: the mode of a directory is set at once.
UntarSetsModes ==
    /\ step = "archive" /\ entry <= Len(Served.entries)
    /\ \/ /\ \E u \in Unpacked(tree, NextEntry) :
               tree' = IF NextEntry.kind # "dir" THEN u
                       ELSE Chmodded(u, <<[path |-> joinInside(tree, NextEntry.path),
                                           mode |-> NextEntry.mode]>>)
          /\ entry' = entry + 1
          /\ UNCHANGED <<step, reason>>
       \/ Unpacked(tree, NextEntry) = {} /\ Refuse("entry") /\ UNCHANGED <<tree, entry>>
    /\ UNCHANGED <<image, requestVars, what, layers, nth, modes>>

UntarEntry ==
    /\ step = "archive" /\ entry <= Len(Served.entries)
    /\ \/ /\ tree' \in Unpacked(tree, NextEntry)
          /\ entry' = entry + 1
          /\ modes' = IF NextEntry.kind # "dir" THEN modes
                      ELSE Append(modes, [path |-> joinInside(tree, NextEntry.path),
                                          mode |-> NextEntry.mode])
          /\ UNCHANGED <<step, reason>>
       \/ /\ Unpacked(tree, NextEntry) = {}
          /\ Refuse("entry")
          /\ UNCHANGED <<tree, entry, modes>>
    /\ UNCHANGED <<image, requestVars, what, layers, nth>>

\* A stream of other bytes may be one that gzip or tar cannot read.
UntarBroken ==
    /\ step = "archive" /\ Served # Current.named.archive
    /\ Refuse("stream")
    /\ UNCHANGED <<image, requestVars, what, layers, layerVars>>

ApplyModes ==
    /\ step = "archive" /\ entry > Len(Served.entries)
    /\ tree' = Chmodded(tree, modes)
    /\ modes' = <<>>
    /\ step' = "digest"
    /\ UNCHANGED <<image, requestVars, what, layers, nth, entry, reason>>

NextLayer ==
    /\ nth' = nth + 1
    /\ entry' = 1
    /\ IF nth = Len(layers) THEN step' = "done" /\ UNCHANGED reason
       ELSE Fetch(layers[nth + 1])

\* Mutant: the digest is not compared.
IgnoreDigest ==
    /\ step = "digest"
    /\ NextLayer
    /\ UNCHANGED <<image, requestVars, what, layers, tree, modes>>

\* The hasher sees the archive and as much behind it as gzip and tar happen to
\* have read. The rest of the body is drained past it.
CheckDigest ==
    /\ step = "digest"
    /\ \E read \in 0..Len(Current.served.tail) :
         LET hashed == [archive |-> Served, tail |-> SubSeq(Current.served.tail, 1, read)]
         IN  IF hashed = Current.named THEN NextLayer
             ELSE Refuse("digest") /\ UNCHANGED <<nth, entry>>
    /\ UNCHANGED <<image, requestVars, what, layers, tree, modes>>

-----------------------------------------------------------------------------

\* A token expires.
Expire ==
    /\ token = "good" /\ step \notin {"done", "refused"}
    /\ token' = "stale"
    /\ expired' = (step = "again")
    /\ UNCHANGED <<image, step, what, layers, layerVars, reason>>

\* The network, the registry or the disk fails.
Fault ==
    /\ step \notin {"done", "refused"}
    /\ Refuse("fault")
    /\ UNCHANGED <<image, requestVars, what, layers, layerVars>>

Pull == Request \/ Authenticate \/ RequestAgain \/ ReadManifest
        \/ UntarEntry \/ UntarBroken \/ ApplyModes \/ CheckDigest

Next == Pull \/ Expire \/ Fault

Spec == Init /\ [][Next]_vars
FairSpec == Spec /\ WF_vars(Pull)

-----------------------------------------------------------------------------
(* Properties                                                              *)

\* The layers of the image for this machine, and the entries that it names.
Wanted == IF image.index = <<>> THEN image.layers
          ELSE IF Matches = {} THEN <<>> ELSE Chosen.layers
Entries == [i \in DOMAIN Wanted |-> Wanted[i].named.archive.entries]
Intact(i) == Wanted[i].served = Wanted[i].named
Genuine(i) == Wanted[i].served.archive = Wanted[i].named.archive
Verified(i) == Genuine(i) /\ IsPrefix(Wanted[i].named.tail, Wanted[i].served.tail)

\* image.go:425-566: after every layer the directory holds just what the
\* layers of the image for this machine mean so far: the last one wins, markers
\* hide only what lies below them, modes and hard links are right, and
\* entries below a link land where the link leads.  Not promised for layers
\* whose meaning depends on the order of their entries.
TreeIsImage ==
    what = "blob" /\ entry = 1 /\ step # "refused" /\ AllWellFormed(Entries, nth - 1)
      => tree = Flatten(Entries, nth - 1)

\* image.go:397-421: a pull only succeeds when every archive that it has unpacked
\* is the one that the manifest names, byte for byte. Of the bytes behind an
\* archive the named ones are there, and others may follow, which are not hashed.
DamagedIsRefused ==
    step = "done" => \A i \in DOMAIN Wanted : Verified(i)

\* An intact image of well-formed layers is refused only for a media type, for
\* a directory that a lower layer has made read-only, or when untar has
\* left bytes unread behind the end of an archive (image.go:413-416).
IntactIsExtracted ==
    reason \in {"entry", "stream", "digest"} =>
      \/ ~Intact(nth) \/ Wanted[nth].named.tail # <<>>
      \/ ~AllWellFormed(Entries, nth)
      \/ Blocked(Flatten(Entries, nth - 1), Entries[nth])

\* image.go:196-235: a registry that hands out tokens never refuses a pull
\* because a token has expired, unless it expires while it is first used.
TokensRenewed ==
    reason = "unauthorized" => image.auth \in {"basic", "closed"} \/ expired

\* image.go:219-233: a pull ends, whatever the registry answers.
PullEnds == <>(step \in {"done", "refused"})

-----------------------------------------------------------------------------
(* The inductive invariants                                                *)

\* The layers that are fetched are those of the image, and those before the
\* one at hand were the ones that it names.
CheckedSoFar ==
    /\ image \in Images
    /\ what \in {"tag", "sub", "blob"}
    /\ what = "sub" => Matches # {}
    /\ what = "blob" => layers = Wanted
    /\ what # "blob" => nth = 1 /\ step \notin {"archive", "digest", "done"}
    /\ step = "manifest" => what # "blob"
    /\ nth \in Nat \ {0}
    /\ \A i \in 1..(nth - 1) : i \in DOMAIN Wanted => Verified(i)
    /\ step = "done" => nth = Len(Wanted) + 1

\* A request is repeated with a new token, and the answer is final.
NewToken ==
    /\ image.auth \in {"open", "bearer", "basic", "closed"}
    /\ step = "again" => token = "good" \/ expired
    /\ step # "refused" => reason = "none"
    /\ TokensRenewed

\* The pull works on one of the layers of the image until it ends.
Unpacking ==
    /\ TypeOK
    /\ what # "blob" => layers = <<>> /\ entry = 1
    /\ what = "blob" /\ step \notin {"done", "refused"} => nth <= Len(layers)

\* A tree of paths of two names, whose links lead to names at the top.
SmallTree(t) ==
    TreeOK(t) /\ \A p \in DOMAIN t : p \in Path(2) /\ (IsLink(t, p) => IsTop(t[p].to))

\* What the first n entries of a layer have come to: the paths that they add,
\* the directories that are made for them, and what they do not hide.
At(lower, layer, i) == Where(lower, layer, layer[i])
Added(lower, layer, n) ==
    {At(lower, layer, i) : i \in {j \in 1..n : layer[j].kind \in Adds}}
Opened(lower, layer, n) ==
    {Front(At(lower, layer, i)) : i \in {j \in 1..n : layer[j].kind \notin {"whiteout", "opaque"}}}
Staying(lower, layer, n) ==
    {q \in DOMAIN lower : \A i \in 1..n : ~Hides(lower, layer, layer[i], q)}

\* The tree t after n entries of a layer: a directory has a mode to write to
\* it until the end, unless a lower layer has made it.
Stage(lower, layer, n, t) ==
    /\ DOMAIN t = Added(lower, layer, n) \cup Opened(lower, layer, n) \cup Staying(lower, layer, n)
    /\ \A i \in 1..n :
         LET p == At(lower, layer, i) IN
         /\ layer[i].kind = "dir" => IsDir(t, p)
         /\ layer[i].kind = "hard" => t[p] = Upper(lower, layer)[Source(lower, layer, layer[i])]
         /\ layer[i].kind \in {"file", "link", "fifo"} => t[p] = NodeOf(layer[i])
    /\ \A q \in DOMAIN t \ Added(lower, layer, n) :
         t[q] = IF q \in Staying(lower, layer, n) THEN lower[q] ELSE Dir("rw")
    /\ \A q \in DOMAIN t : IsDir(t, q) =>
         t[q] = Dir("rw") \/ (q \in DOMAIN lower /\ t[q] = lower[q])

\* The modes to apply are those of the directories among the first n entries.
ModesOf(lower, layer, n, list) ==
    /\ \A k \in DOMAIN list : \E i \in 1..n :
         layer[i].kind = "dir" /\ list[k] = [path |-> At(lower, layer, i), mode |-> layer[i].mode]
    /\ \A i \in 1..n : layer[i].kind = "dir" =>
         \E k \in DOMAIN list : list[k].path = At(lower, layer, i)

\* The directory holds what the layers before this one mean, and then what the
\* entries so far have made of it.
Imaging ==
    LET lower == Flatten(Entries, nth - 1) IN
    /\ what # "blob" => tree = EmptyTree /\ modes = <<>>
    /\ step \notin {"archive", "digest", "done", "refused"} => entry = 1
    /\ step = "digest" => modes = <<>>
    /\ what = "blob" /\ step # "refused" /\ AllWellFormed(Entries, nth - 1) =>
         /\ SmallTree(lower)
         /\ entry = 1 => tree = lower /\ modes = <<>>
         /\ step \notin {"digest", "done"} /\ AllWellFormed(Entries, nth) /\ Genuine(nth) =>
              /\ Stage(lower, Entries[nth], entry - 1, tree)
              /\ ModesOf(lower, Entries[nth], entry - 1, modes)
         /\ step = "digest" /\ AllWellFormed(Entries, nth) /\ Genuine(nth) =>
              tree = Flatten(Entries, nth) /\ SmallTree(tree)
=============================================================================
