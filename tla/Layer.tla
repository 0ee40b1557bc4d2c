------------------------------- MODULE Layer -------------------------------
(***************************************************************************)
(* How a layer is unpacked over a directory: untar in image.go, one entry  *)
(* of the archive at a time, and what a layer means as a whole.            *)
(*                                                                         *)
(* A path is the sequence of its names, and <<>> is the directory itself.  *)
(* A tree maps the paths of what is below the directory to nodes: a        *)
(* directory with its mode, a file, a fifo or a symbolic link.  A link     *)
(* holds the path that it leads to below the directory, and whether it is  *)
(* written with a slash before it, which the kernel takes for the root of  *)
(* the host.  Modes are "ro" and "rw" (0555 and 0755) and "all" (0777).  A *)
(* step that may fail gives the set of trees that it can leave, which is   *)
(* empty when it fails: what is then left is removed.                      *)
(***************************************************************************)
EXTENDS Naturals, Sequences, SequencesExt

CONSTANTS Masked,  \* Masked[m]: what the umask leaves of mode m
          MaxLinks \* how many links SecureJoin follows before it gives up

ASSUME MaxLinksOK == MaxLinks \in Nat

Modes == {"ro", "rw", "all"}
Dir(mode) == [kind |-> "dir", mode |-> mode]
EmptyTree == [p \in {<<>>} |-> Dir("rw")]

IsDir(t, p) == p \in DOMAIN t /\ t[p].kind = "dir"
IsDirOrNone(t, p) == p \notin DOMAIN t \/ IsDir(t, p)
IsLink(t, p) == p \in DOMAIN t /\ t[p].kind = "link"
Writable(t, p) == IsDir(t, p) /\ t[p].mode # "ro"
Below(t, p) == {q \in DOMAIN t : IsStrictPrefix(p, q)}

\* The paths above p.
Above(p) == {SubSeq(p, 1, n) : n \in 0..(Len(p) - 1)}

\* Every path leads from the directory through directories.
TreeOK(t) ==
    /\ IsDir(t, <<>>)
    /\ \A p \in DOMAIN t :
         /\ p \in Seq(STRING) /\ \A q \in Above(p) : IsDir(t, q)
         /\ IsLink(t, p) => t[p].to \in Seq(STRING)

\* The names of p up to the ones that are links: in a tree at most one is.
LinksOn(t, p) == {n \in 1..Len(p) : IsLink(t, SubSeq(p, 1, n))}
FirstLink(t, p) == CHOOSE n \in LinksOn(t, p) : \A m \in LinksOn(t, p) : n <= m

\* SecureJoin of a directory name: hop by hop, where its links lead inside the
\* tree.
Hop(t, p) ==
    IF LinksOn(t, p) = {} THEN p
    ELSE LET n == FirstLink(t, p)
         IN  t[SubSeq(p, 1, n)].to \o SubSeq(p, n + 1, Len(p))
Hops(t, p) ==
    LET hop[k \in 0..MaxLinks] == IF k = 0 THEN p ELSE Hop(t, hop[k - 1])
    IN  hop
Follow(t, p) == Hops(t, p)[MaxLinks]
Trail(t, p) == {Hops(t, p)[k] : k \in 0..MaxLinks}
Looping(t, p) == LinksOn(t, Follow(t, p)) # {}

\* The last name of an entry is never followed.
joinInside(t, p) == IF p = <<>> THEN p ELSE Append(Follow(t, Front(p)), Last(p))

-----------------------------------------------------------------------------
(* Operations of the file system                                           *)

\* A step that succeeds on a condition.
When(condition, t) == IF condition THEN {t} ELSE {}

\* Mutant: what lies below a directory stays.
RemoveOnly(t, p) ==
    IF p \notin DOMAIN t THEN {t}
    ELSE When(Writable(t, Front(p)), Restrict(t, DOMAIN t \ {p}))

\* An unprivileged process cannot change a read-only directory, nor remove one
\* that holds anything.
Clearable(t, p) == \A q \in {p} \cup Below(t, p) : Below(t, q) # {} => Writable(t, q)
Unobstructed(t, p) == \A q \in Above(p) : IsDirOrNone(t, q)

RemoveAll(t, p) ==
    IF p \notin DOMAIN t THEN When(Unobstructed(t, p), t)
    ELSE When(Writable(t, Front(p)) /\ Clearable(t, p),
              Restrict(t, DOMAIN t \ ({p} \cup Below(t, p))))

Put(t, p, node) == [q \in DOMAIN t \cup {p} |-> IF q = p THEN node ELSE t[q]]

\* The directory p and those above it, with mode 0755 where they are new.
MkdirAll(t, p) ==
    LET new == ({p} \cup Above(p)) \ DOMAIN t
    IN  When(/\ Unobstructed(t, p) /\ IsDirOrNone(t, p)
             /\ \A q \in new : Front(q) \in DOMAIN t => Writable(t, Front(q)),
             [q \in DOMAIN t \cup new |-> IF q \in new THEN Dir("rw") ELSE t[q]])

\* A new node in the place of whatever has its name.
Place(t, p, node) ==
    UNION {When(Writable(u, Front(p)), Put(u, p, node)) : u \in RemoveAll(t, p)}

clearDir(t, p) ==
    IF p \notin DOMAIN t THEN When(Unobstructed(t, p), t)
    ELSE When(IsDir(t, p) /\ Clearable(t, p), Restrict(t, DOMAIN t \ Below(t, p)))

-----------------------------------------------------------------------------
(* One entry of the archive                                                *)

NodeOf(e) ==
    CASE e.kind = "dir" -> Dir(e.mode)
      [] e.kind = "link" -> [kind |-> "link", to |-> e.to, slash |-> e.slash]
      [] e.kind = "fifo" -> [kind |-> "fifo", mode |-> Masked[e.mode]]
      [] e.kind = "file" -> [kind |-> "file", mode |-> Masked[e.mode], data |-> e.data]

Link(t, p, source) ==
    UNION {Place(u, p, u[source]) :
             u \in {v \in RemoveAll(t, p) : source \in DOMAIN v /\ ~IsDir(v, source)}}

\* Mutant: a link that stands for a directory stays (os.MkdirAll).
MakeThroughLinks(t, p, e) ==
    CASE e.kind = "dir" -> IF IsDir(t, p) \/ IsDir(t, Follow(t, p)) THEN {t}
                           ELSE Place(t, p, Dir("rw"))
      [] e.kind \in {"file", "link", "fifo"} -> Place(t, p, NodeOf(e))
      [] e.kind = "hard" -> IF Looping(t, Front(e.to)) THEN {}
                            ELSE Link(t, p, joinInside(t, e.to))
      [] OTHER -> {t}

\* A directory that exists keeps its contents and, until the end, its mode.
\* Devices are skipped.
Make(t, p, e) ==
    CASE e.kind = "dir" -> IF IsDir(t, p) THEN {t} ELSE Place(t, p, Dir("rw"))
      [] e.kind \in {"file", "link", "fifo"} -> Place(t, p, NodeOf(e))
      [] e.kind = "hard" -> IF Looping(t, Front(e.to)) THEN {}
                            ELSE Link(t, p, joinInside(t, e.to))
      [] OTHER -> {t}

\* The body of the loop of untar.
Unpacked(t, e) ==
    IF e.kind = "opaque" THEN
       IF Looping(t, e.path) THEN {} ELSE clearDir(t, Follow(t, e.path))
    ELSE IF Looping(t, Front(e.path)) THEN {}
    ELSE IF e.kind = "whiteout" THEN RemoveAll(t, joinInside(t, e.path))
    ELSE UNION {Make(u, joinInside(t, e.path), e) :
                  u \in MkdirAll(t, Front(joinInside(t, e.path)))}

\* Does the kernel, too, find p in the tree? A link with a slash leads it out.
Inside(t, p) ==
    \A q \in Trail(t, Front(p)) : \A n \in LinksOn(t, q) : ~t[SubSeq(q, 1, n)].slash

\* Modes are set in reverse order, so the first mode of a directory is the last
\* one that is set. The last name of a path is not followed, but the others
\* are, and a later entry may have made links of them.
Chmodded(t, modes) ==
    [p \in DOMAIN t |->
       LET of == {i \in DOMAIN modes : Inside(t, modes[i].path) /\ joinInside(t, modes[i].path) = p}
       IN  IF of = {} \/ ~IsDir(t, p) THEN t[p]
           ELSE Dir(modes[CHOOSE i \in of : \A j \in of : i <= j].mode)]

-----------------------------------------------------------------------------
(* What a layer means, without any order of its entries, as long as its    *)
(* paths have at most two names and its links lead to names at the top     *)

\* Paths of up to n names, and those of one.
Path(n) == {p \in Seq(STRING) : Len(p) <= n}
IsTop(p) == p \in Path(1) /\ p # <<>>

TwoNames(e) ==
    /\ e.path \in Path(IF e.kind = "opaque" THEN 1 ELSE 2)
    /\ e.kind = "link" => IsTop(e.to)
    /\ e.kind = "hard" => e.to \in Path(2)

Adds == {"dir", "file", "link", "hard", "fifo"}

\* The links and directories that a layer sees at the top of the tree.
Skeleton(lower, layer) ==
    LET top == {e \in Range(layer) : Len(e.path) = 1}
        own == {e \in top : e.kind \in Adds \ {"hard"}}
        gone == {e.path : e \in {f \in top : f.kind \in {"whiteout", "hard"}}}
        all == \E e \in Range(layer) : e.kind = "opaque" /\ e.path = <<>>
        kept == {p \in DOMAIN lower : Len(p) = 1 /\ p \notin gone /\ ~all}
    IN  [p \in {e.path : e \in own} \cup kept |->
           IF \E e \in own : e.path = p THEN NodeOf(CHOOSE e \in own : e.path = p)
           ELSE lower[p]]

\* The path that an entry is about, and the one that a hard link names.
Where(lower, layer, e) ==
    IF e.kind = "opaque" THEN Follow(Skeleton(lower, layer), e.path)
    ELSE joinInside(Skeleton(lower, layer), e.path)
Source(lower, layer, e) == joinInside(Skeleton(lower, layer), e.to)

\* The directory names that are followed for an entry.
Followed(e) ==
    {IF e.kind = "opaque" THEN e.path ELSE Front(e.path)}
      \cup (IF e.kind = "hard" THEN {Front(e.to)} ELSE {})
Passed(lower, layer, e) == UNION {Trail(Skeleton(lower, layer), p) : p \in Followed(e)}

\* Is what the lower layers have at q no longer there?
Hides(lower, layer, e, q) ==
    LET at == Where(lower, layer, e)
    IN  \/ e.kind \in {"whiteout", "file", "link", "hard", "fifo"} /\ IsPrefix(at, q)
        \/ e.kind = "opaque" /\ IsStrictPrefix(at, q)
Kept(lower, layer) ==
    {q \in DOMAIN lower : ~\E e \in Range(layer) : Hides(lower, layer, e, q)}

\* The lower layers with this one on top of them, but for its hard links: its
\* own nodes, what it does not hide, and directories for what lies below them.
Upper(lower, layer) ==
    LET own == {e \in Range(layer) : e.kind \in Adds \ {"hard"}}
        at(e) == Where(lower, layer, e)
        parents == {Front(at(e)) : e \in {f \in Range(layer) : f.kind \notin {"whiteout", "opaque"}}}
    IN  [p \in {at(e) : e \in own} \cup Kept(lower, layer) \cup parents |->
           IF \E e \in own : at(e) = p THEN NodeOf(CHOOSE e \in own : at(e) = p)
           ELSE IF p \in Kept(lower, layer) THEN lower[p] ELSE Dir("rw")]

Overlay(lower, layer) ==
    LET upper == Upper(lower, layer)
        at(e) == Where(lower, layer, e)
        source(e) == Source(lower, layer, e)
        hard == {e \in Range(layer) : e.kind = "hard" /\ source(e) \in DOMAIN upper}
    IN  [p \in DOMAIN upper \cup {at(e) : e \in hard} |->
           IF \E e \in hard : at(e) = p THEN upper[source(CHOOSE e \in hard : at(e) = p)]
           ELSE upper[p]]

\* A layer that has one meaning: of two names, every path once, parents and links
\* before their use, opaque markers first, nothing below what is no directory, and
\* hard links after the file that they name.
WellFormed(lower, layer) ==
    LET skeleton == Skeleton(lower, layer)
        at(i) == Where(lower, layer, layer[i])
        source(i) == Source(lower, layer, layer[i])
        upper == Upper(lower, layer)
        result == Overlay(lower, layer)
    IN  /\ \A i \in DOMAIN layer : TwoNames(layer[i])
        /\ \A i \in DOMAIN layer :
             LET e == layer[i] IN
             /\ \A p \in Followed(e) : ~Looping(skeleton, p)
             /\ e.kind = "opaque" => IsDirOrNone(lower, at(i)) /\ IsDirOrNone(result, at(i))
             /\ e.kind = "whiteout" => IsDirOrNone(lower, Front(at(i)))
             /\ e.kind # "opaque" => IsDirOrNone(result, Front(at(i)))
             /\ e.kind = "hard" => source(i) \in DOMAIN upper
                                   /\ upper[source(i)].kind \notin {"dir", "link"}
        /\ \A i, j \in DOMAIN layer :
             /\ i < j => ~IsStrictPrefix(at(j), at(i))
             /\ i < j /\ "opaque" \notin {layer[i].kind, layer[j].kind} => at(i) # at(j)
             /\ i < j /\ layer[i].kind = "hard" => at(j) # source(i)
             /\ i <= j /\ at(j) \in Passed(lower, layer, layer[i])
                  => /\ layer[i].kind = "opaque" /\ at(j) = at(i)
                     /\ layer[j].kind \in {"opaque", "dir"}

\* A layer changes a directory that a lower layer has made read-only.
Blocked(lower, layer) ==
    \E p \in DOMAIN lower : IsDir(lower, p) /\ ~Writable(lower, p) /\ \E e \in Range(layer) :
      LET at == Where(lower, layer, e)
      IN  IsStrictPrefix(p, at) \/ (e.kind # "dir" /\ IsPrefix(at, p))

\* The tree of the first k layers of an image, and whether there is one.
Flatten(layers, k) ==
    LET tree[i \in 0..k] ==
          IF i = 0 THEN EmptyTree ELSE Overlay(tree[i - 1], layers[i])
    IN  tree[k]
AllWellFormed(layers, k) ==
    \A i \in 1..k : WellFormed(Flatten(layers, i - 1), layers[i])
=============================================================================
