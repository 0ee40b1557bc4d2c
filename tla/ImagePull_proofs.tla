-------------------------- MODULE ImagePull_proofs --------------------------
(***************************************************************************)
(* For any image, with any number of layers of any length and paths of any *)
(* depth: what a pull accepts is what the manifest names, an expired token *)
(* is renewed, and the directory is a tree.  For the layers that           *)
(* WellFormed gives a meaning, which have paths of at most two names: the  *)
(* directory holds what they mean after each of them, and nothing but the  *)
(* hazards that IntactIsExtracted names refuses an intact one.             *)
(***************************************************************************)
EXTENDS ImagePull, WellFoundedInduction, SequenceTheorems, TLAPS

\* Sets of natural numbers have a least member.
LEMMA LeastNatural ==
    ASSUME NEW T, T \subseteq Nat, T # {}
    PROVE  \E x \in T : \A y \in T : x <= y
<1>1. IsWellFoundedOn(OpToRel(<, Nat), Nat)
  BY NatLessThanWellFounded
<1>2. PICK x \in T : \A y \in T : <<y, x>> \notin OpToRel(<, Nat)
  BY <1>1, WFMin
<1>3. ASSUME NEW y \in T PROVE x <= y
  <2>1. ~(y < x)
    BY <1>2 DEF OpToRel
  <2> QED
    BY <2>1
<1> QED
  BY <1>3

\* The first build for this machine is one of the index.
LEMMA ChosenIsListed ==
    ASSUME IsList(image.index), Matches # {}
    PROVE  \E m \in DOMAIN image.index : Chosen = image.index[m]
<1>1. Matches \subseteq Nat
  BY DEF Matches, IsList
<1>2. \E i \in Matches : \A j \in Matches : i <= j
  BY <1>1, LeastNatural
<1>3. (CHOOSE i \in Matches : \A j \in Matches : i <= j) \in Matches
  BY <1>2
<1> QED
  BY <1>3 DEF Chosen, Matches

\* A list of no length is the empty sequence.
LEMMA EmptyList ==
    ASSUME NEW list, IsList(list), Len(list) = 0
    PROVE  list = <<>>
<1>1. list = [i \in {} |-> list[i]] /\ <<>> = [i \in {} |-> list[i]]
  BY DEF IsList
<1> QED
  BY <1>1

\* The layers for this machine come from the registry.
LEMMA WantedIsList ==
    ASSUME image \in Images
    PROVE  LayersOK(Wanted)
<1>1. CASE image.index = <<>>
  BY <1>1, ImagesOK DEF Wanted
<1>2. CASE image.index # <<>> /\ Matches = {}
  <2>1. Wanted = <<>>
    BY <1>2 DEF Wanted
  <2> QED
    BY <2>1 DEF LayersOK, IsList
<1>3. CASE image.index # <<>> /\ Matches # {}
  <2>1. PICK m \in DOMAIN image.index : Chosen = image.index[m]
    BY <1>3, ChosenIsListed, ImagesOK
  <2>2. LayersOK(image.index[m].layers)
    BY ImagesOK
  <2> QED
    BY <1>3, <2>1, <2>2 DEF Wanted
<1> QED
  BY <1>1, <1>2, <1>3

\* The first bytes are the beginning of all.
LEMMA StartIsPrefix ==
    ASSUME NEW s \in Seq(STRING), NEW n \in 0..Len(s)
    PROVE  IsPrefix(SubSeq(s, 1, n), s)
<1> DEFINE u == SubSeq(s, 1, n)
<1>1. u \in Seq(STRING) /\ Len(u) = n
  OBVIOUS
<1>2. SubSeq(u, 1, Len(u)) = u
  BY <1>1, SubSeqFull
<1> QED
  BY <1>1, <1>2 DEF IsPrefix

-----------------------------------------------------------------------------
(* Damaged layers                                                          *)

\* Where the image, the layers and the layer at hand stay.
LEMMA CheckedFrame ==
    ASSUME CheckedSoFar, UNCHANGED <<image, what, layers, nth>>,
           step' \in {"archive", "digest"} => what = "blob",
           step' = "manifest" => what # "blob",
           step' # "done"
    PROVE  CheckedSoFar'
<1>1. Wanted' = Wanted /\ Matches' = Matches
  BY DEF Wanted, Matches, Chosen
<1> QED
  BY <1>1 DEF CheckedSoFar, Verified, Genuine

\* A digest is right when the archive is, and as many bytes behind it were hashed as
\* the manifest names.
LEMMA DigestIs ==
    ASSUME CheckDigest, LayersOK(Wanted), layers = Wanted
    PROVE  \/ step' = "refused" /\ UNCHANGED <<nth, entry>>
           \/ NextLayer /\ (nth \in DOMAIN Wanted => Verified(nth))
<1> DEFINE tail == Current.served.tail
<1>1. PICK read \in 0..Len(tail) :
        IF [archive |-> Served, tail |-> SubSeq(tail, 1, read)] = Current.named THEN NextLayer
        ELSE Refuse("digest") /\ UNCHANGED <<nth, entry>>
  BY DEF CheckDigest
<1>2. CASE [archive |-> Served, tail |-> SubSeq(tail, 1, read)] = Current.named
  <2>1. ASSUME nth \in DOMAIN Wanted PROVE Verified(nth)
    <3>1. tail \in Seq(STRING)
      BY <2>1 DEF LayersOK, BlobOK, Current
    <3>2. Wanted[nth].named.tail = SubSeq(tail, 1, read) /\ Genuine(nth)
      BY <1>2 DEF Current, Served, Genuine
    <3>3. IsPrefix(SubSeq(tail, 1, read), tail)
      BY <3>1, StartIsPrefix
    <3> QED
      BY <3>2, <3>3 DEF Verified, Current
  <2> QED
    BY <1>1, <1>2, <2>1
<1>3. CASE [archive |-> Served, tail |-> SubSeq(tail, 1, read)] # Current.named
  BY <1>1, <1>3 DEF Refuse
<1> QED
  BY <1>2, <1>3

\* No step skips the digest of a layer, or leaves the layers of the image.
LEMMA CheckedStep ==
    ASSUME CheckedSoFar, [Next]_vars
    PROVE  CheckedSoFar'
<1> USE DEF Refuse, requestVars, layerVars
<1>0. image \in Images /\ LayersOK(Wanted) /\ IsList(Wanted)
  BY WantedIsList DEF CheckedSoFar, LayersOK
<1>1. CASE Request
  BY <1>1, CheckedFrame DEF Request, Answered
<1>2. CASE Authenticate
  BY <1>2, CheckedFrame DEF Authenticate
<1>3. CASE RequestAgain
  BY <1>3, CheckedFrame DEF RequestAgain, Answered
<1>4. CASE ReadManifest
  <2>1. image' = image /\ nth' = nth /\ step' \in {"request", "refused"}
    BY <1>4 DEF ReadManifest, UseLayers, Fetch
  <2>2. Wanted' = Wanted /\ Matches' = Matches
    BY <2>1 DEF Wanted, Matches, Chosen
  <2>3. CASE image.index = <<>> \/ what = "sub"
    <3>1. what' = "blob" /\ layers' = Wanted
      BY <1>4, <2>3 DEF ReadManifest, UseLayers, Wanted, CheckedSoFar
    <3> QED
      BY <2>1, <2>2, <3>1 DEF CheckedSoFar, Verified, Genuine
  <2>4. CASE image.index # <<>> /\ what # "sub" /\ Matches = {}
    BY <1>4, <2>1, <2>4, CheckedFrame DEF ReadManifest
  <2>5. CASE image.index # <<>> /\ what # "sub" /\ Matches # {}
    <3>1. what' = "sub" /\ layers' = layers
      BY <1>4, <2>5 DEF ReadManifest
    <3>2. nth = 1
      BY <1>4 DEF ReadManifest, CheckedSoFar
    <3> QED
      BY <2>1, <2>2, <2>5, <3>1, <3>2 DEF CheckedSoFar, Verified, Genuine
  <2> QED
    BY <2>3, <2>4, <2>5
<1>5. CASE UntarEntry
  BY <1>5, CheckedFrame DEF UntarEntry, CheckedSoFar
<1>6. CASE UntarBroken
  BY <1>6, CheckedFrame DEF UntarBroken
<1>7. CASE ApplyModes
  BY <1>7, CheckedFrame DEF ApplyModes, CheckedSoFar
<1>8. CASE CheckDigest
  <2>1. what = "blob" /\ layers = Wanted /\ UNCHANGED <<image, what, layers>>
    BY <1>8 DEF CheckDigest, CheckedSoFar
  <2>2. CASE step' = "refused" /\ nth' = nth
    BY <2>1, <2>2, CheckedFrame
  <2>3. CASE NextLayer /\ (nth \in DOMAIN Wanted => Verified(nth))
    <3>2. nth' = nth + 1 /\ nth \in Nat \ {0}
      BY <2>3 DEF NextLayer, CheckedSoFar
    <3>3. nth' \in Nat \ {0} /\ \A i \in 1..(nth' - 1) : i = nth \/ i \in 1..(nth - 1)
      BY <3>2
    <3>4. step' # "manifest" /\ (step' = "done" => nth' = Len(Wanted) + 1)
      BY <2>1, <2>3, <3>2 DEF NextLayer, Fetch
    <3>5. Wanted' = Wanted
      BY <2>1 DEF Wanted, Matches, Chosen
    <3>6. ASSUME NEW i \in 1..(nth' - 1), i \in DOMAIN Wanted PROVE Verified(i)'
      <4>1. Verified(i)
        BY <2>3, <3>3, <3>6 DEF CheckedSoFar
      <4> QED
        BY <3>5, <4>1 DEF Verified, Genuine
    <3> QED
      BY <1>0, <2>1, <3>3, <3>4, <3>5, <3>6 DEF CheckedSoFar
  <2> QED
    BY <1>0, <1>8, <2>1, <2>2, <2>3, DigestIs
<1>9. CASE Expire
  BY <1>9, CheckedFrame DEF Expire, CheckedSoFar
<1>10. CASE Fault
  BY <1>10, CheckedFrame DEF Fault
<1>11. CASE UNCHANGED vars
  <2>1. UNCHANGED <<image, what, layers, nth, step>>
    BY <1>11 DEF vars
  <2>2. Wanted' = Wanted /\ Matches' = Matches
    BY <2>1 DEF Wanted, Matches, Chosen
  <2> QED
    BY <2>1, <2>2 DEF CheckedSoFar, Verified, Genuine
<1> QED
  BY <1>1, <1>2, <1>3, <1>4, <1>5, <1>6, <1>7, <1>8, <1>9, <1>10, <1>11
     DEF Next, Pull

\* extractLayer: for any image and whatever the registry serves for its layers, a
\* pull that succeeds has unpacked the archives that the manifest names, and
\* found the bytes that it names behind them. Others that follow are not hashed.
THEOREM Undamaged == Spec => []DamagedIsRefused
<1>1. Init => CheckedSoFar
  BY DEF Init, CheckedSoFar
<1>2. CheckedSoFar /\ [Next]_vars => CheckedSoFar'
  BY CheckedStep
<1>3. CheckedSoFar => DamagedIsRefused
  <2> SUFFICES ASSUME CheckedSoFar, step = "done", NEW i \in DOMAIN Wanted
               PROVE  Verified(i)
    BY DEF DamagedIsRefused
  <2>1. IsList(Wanted)
    BY WantedIsList DEF CheckedSoFar, LayersOK
  <2>2. nth = Len(Wanted) + 1
    BY DEF CheckedSoFar
  <2>3. i \in 1..(nth - 1)
    BY <2>1, <2>2 DEF IsList
  <2> QED
    BY <2>3 DEF CheckedSoFar
<1> QED
  BY <1>1, <1>2, <1>3, PTL DEF Spec

-----------------------------------------------------------------------------
(* Tokens                                                                  *)

\* A request is repeated with a new token, once.
LEMMA TokenStep ==
    ASSUME NewToken, [Next]_vars
    PROVE  NewToken'
<1> USE DEF NewToken, TokensRenewed, Refuse, requestVars, layerVars
<1>1. CASE Request
  BY <1>1 DEF Request, Answered
<1>2. CASE Authenticate
  BY <1>2 DEF Authenticate
<1>3. CASE RequestAgain
  BY <1>3 DEF RequestAgain, Accepted, Answered
<1>4. CASE ReadManifest
  BY <1>4 DEF ReadManifest, UseLayers, Fetch
<1>5. CASE UntarEntry
  BY <1>5 DEF UntarEntry
<1>6. CASE UntarBroken \/ ApplyModes \/ Fault \/ Expire
  BY <1>6 DEF UntarBroken, ApplyModes, Fault, Expire
<1>7. CASE CheckDigest
  BY <1>7 DEF CheckDigest, NextLayer, Fetch
<1>8. CASE UNCHANGED vars
  BY <1>8 DEF vars
<1> QED
  BY <1>1, <1>2, <1>3, <1>4, <1>5, <1>6, <1>7, <1>8 DEF Next, Pull

\* registryClient.get: however often tokens expire during a pull, a registry
\* that hands out tokens refuses it only when a token expires at its first use.
THEOREM Renewed == Spec => []TokensRenewed
<1>1. Init => NewToken
  BY ImagesOK DEF Init, NewToken, TokensRenewed
<1>2. NewToken /\ [Next]_vars => NewToken'
  BY TokenStep
<1>3. NewToken => TokensRenewed
  BY DEF NewToken
<1> QED
  BY <1>1, <1>2, <1>3, PTL DEF Spec

----------------------------------------------------------------------------------------------------------------------------------------------------------
(* Paths                                                                   *)

\* A path lies below the paths that it begins with.
LEMMA AboveIs ==
    ASSUME NEW p \in Seq(STRING), NEW q \in Seq(STRING)
    PROVE  /\ IsStrictPrefix(p, q) <=> p \in Above(q)
           /\ IsPrefix(p, q) <=> p = q \/ IsStrictPrefix(p, q)
           /\ q \notin Above(q)
<1>1. SubSeq(p, 1, Len(p)) = p /\ SubSeq(q, 1, Len(q)) = q
  BY SubSeqFull
<1>2. IsPrefix(p, q) <=> p = q \/ IsStrictPrefix(p, q)
  BY <1>1 DEF IsStrictPrefix, IsPrefix
<1>3. ASSUME IsStrictPrefix(p, q) PROVE p \in Above(q)
  <2>1. Len(p) <= Len(q) /\ p = SubSeq(q, 1, Len(p)) /\ p # q
    BY <1>1, <1>3 DEF IsStrictPrefix, IsPrefix
  <2>2. Len(p) # Len(q)
    BY <1>1, <2>1
  <2>3. Len(p) \in 0..(Len(q) - 1)
    BY <2>1, <2>2
  <2> QED
    BY <2>1, <2>3 DEF Above
<1>4. ASSUME NEW r \in Seq(STRING), r \in Above(q) PROVE IsStrictPrefix(r, q)
  <2>1. PICK n \in 0..(Len(q) - 1) : r = SubSeq(q, 1, n)
    BY <1>4 DEF Above
  <2>2. Len(r) = n
    BY <2>1
  <2>3. SubSeq(r, 1, Len(r)) = r
    BY <1>4, SubSeqFull
  <2> QED
    BY <2>1, <2>2, <2>3 DEF IsStrictPrefix, IsPrefix
<1> QED
  BY <1>2, <1>3, <1>4 DEF IsStrictPrefix

\* The beginning of the beginning of a path.
LEMMA StartOfStart ==
    ASSUME NEW r \in Seq(STRING), NEW n \in 0..(Len(r) - 1), NEW m \in 0..(n - 1)
    PROVE  SubSeq(SubSeq(r, 1, n), 1, m) = SubSeq(r, 1, m)
OBVIOUS

\* What lies above a path: its parent and what lies above that.
LEMMA ParentAbove ==
    ASSUME NEW q \in Seq(STRING)
    PROVE  /\ \A p \in Above(q) : p \in Seq(STRING)
           /\ q # <<>> => Front(q) \in Above(q) /\ <<>> \in Above(q)
           /\ \A p \in Above(q) : p = Front(q) \/ p \in Above(Front(q))
           /\ \A p \in Above(Front(q)) : p \in Above(q)
           /\ Front(q) \in Seq(STRING)
<1>1. Front(q) \in Seq(STRING) /\ (q = <<>> => Front(q) = <<>>)
  BY DEF Front
<1>2. \A p \in Above(q) : p \in Seq(STRING)
  BY DEF Above
<1>3. CASE q = <<>>
  <2>1. Above(q) = {}
    BY <1>3 DEF Above
  <2> QED
    BY <1>1, <1>3, <2>1
<1>4. CASE q # <<>>
  <2> DEFINE n == Len(q) - 1
  <2>1. n \in Nat /\ Len(q) = n + 1
    BY <1>4, EmptySeq
  <2>2. Front(q) = SubSeq(q, 1, n) /\ Len(Front(q)) = n /\ n \in 0..(Len(q) - 1)
    BY <2>1 DEF Front
  <2>3. SubSeq(q, 1, 0) = <<>> /\ 0 \in 0..(Len(q) - 1)
    <3>1. 0 \in 0..(Len(q) - 1)
      BY <2>1
    <3> QED
      BY <3>1, SubSeqEmpty
  <2>4. ASSUME NEW m \in 0..(n - 1) PROVE SubSeq(Front(q), 1, m) = SubSeq(q, 1, m)
    <3> HIDE DEF n
    <3> QED
      BY <2>2, StartOfStart
  <2>5. \A m \in 0..(Len(q) - 1) : m = n \/ m \in 0..(n - 1)
    <3> HIDE DEF n
    <3>1. \A m \in 0..n : m = n \/ m \in 0..(n - 1)
      BY <2>1
    <3> QED
      BY <3>1 DEF n
  <2>6. \A m \in 0..(n - 1) : m \in 0..(Len(q) - 1)
    BY <2>1
  <2>7. Front(q) \in Above(q) /\ <<>> \in Above(q)
    BY <2>2, <2>3 DEF Above
  <2>8. ASSUME NEW p \in Above(q) PROVE p = Front(q) \/ p \in Above(Front(q))
    <3>1. PICK m \in 0..(Len(q) - 1) : p = SubSeq(q, 1, m)
      BY DEF Above
    <3>2. CASE m = n
      BY <2>2, <3>1, <3>2
    <3>3. CASE m \in 0..(n - 1)
      <4>1. p = SubSeq(Front(q), 1, m)
        BY <2>4, <3>1, <3>3
      <4> QED
        BY <2>2, <3>3, <4>1 DEF Above
    <3> QED
      BY <2>5, <3>2, <3>3
  <2>9. ASSUME NEW p \in Above(Front(q)) PROVE p \in Above(q)
    <3>1. PICK m \in 0..(n - 1) : p = SubSeq(Front(q), 1, m)
      BY <2>2 DEF Above
    <3>2. p = SubSeq(q, 1, m) /\ m \in 0..(Len(q) - 1)
      BY <2>4, <2>6, <3>1
    <3> QED
      BY <3>2 DEF Above
  <2> QED
    BY <1>1, <1>2, <2>7, <2>8, <2>9
<1> QED
  BY <1>3, <1>4

\* What lies above a path lies above all that is below it.
LEMMA AboveAbove ==
    ASSUME NEW r \in Seq(STRING), NEW q \in Above(r), NEW p \in Above(q)
    PROVE  p \in Above(r)
<1>1. PICK n \in 0..(Len(r) - 1) : q = SubSeq(r, 1, n)
  BY DEF Above
<1>2. Len(q) = n
  BY <1>1
<1>3. PICK m \in 0..(n - 1) : p = SubSeq(q, 1, m)
  BY <1>2 DEF Above
<1>4. p = SubSeq(r, 1, m) /\ m \in 0..(Len(r) - 1)
  BY <1>1, <1>3, StartOfStart
<1> QED
  BY <1>4 DEF Above

\* A path without links on the way is one of no hop.
LEMMA AboveLinks ==
    ASSUME NEW t, NEW p \in Seq(STRING),
           ~IsLink(t, p), \A q \in Above(p) : ~IsLink(t, q)
    PROVE  LinksOn(t, p) = {}
<1> SUFFICES ASSUME NEW n \in LinksOn(t, p) PROVE FALSE
  OBVIOUS
<1>1. n \in 1..Len(p) /\ IsLink(t, SubSeq(p, 1, n))
  BY DEF LinksOn
<1>2. CASE n = Len(p)
  BY <1>1, <1>2, SubSeqFull
<1>3. CASE n # Len(p)
  <2>1. n \in 0..(Len(p) - 1)
    BY <1>1, <1>3
  <2> QED
    BY <1>1, <2>1 DEF Above
<1> QED
  BY <1>2, <1>3

\* What a tree is.
LEMMA InTree ==
    ASSUME NEW t, TreeOK(t)
    PROVE  /\ <<>> \in DOMAIN t /\ IsDir(t, <<>>)
           /\ \A p \in DOMAIN t : p \in Seq(STRING)
           /\ \A p \in DOMAIN t : \A q \in Above(p) : IsDir(t, q) /\ q \in DOMAIN t
           /\ \A p \in DOMAIN t \ {<<>>} : IsDir(t, Front(p)) /\ Front(p) \in DOMAIN t
<1>1. \A p \in DOMAIN t : \A q \in Above(p) : IsDir(t, q) /\ q \in DOMAIN t
  BY DEF TreeOK, IsDir
<1>2. \A p \in DOMAIN t \ {<<>>} : Front(p) \in Above(p)
  BY ParentAbove DEF TreeOK
<1> QED
  BY <1>1, <1>2 DEF TreeOK, IsDir

\* Something lies below a path only when it is a directory.
LEMMA TreeAbove ==
    ASSUME NEW t, TreeOK(t), NEW p \in Seq(STRING), NEW q \in DOMAIN t, IsStrictPrefix(p, q)
    PROVE  IsDir(t, p)
BY AboveIs, InTree

-----------------------------------------------------------------------------
(* Links                                                                   *)

\* f[k] is where p leads after k hops.
IsHops(f, t, p, n) == f = [k \in 0..n |-> IF k = 0 THEN p ELSE Hop(t, f[k - 1])]

\* The hops that Follow takes exist for every number of them.
LEMMA HopsExist ==
    ASSUME NEW t, NEW p, NEW n \in Nat
    PROVE  \E f : IsHops(f, t, p, n)
<1> DEFINE P(m) == \E f : IsHops(f, t, p, m)
           T == {m \in Nat : ~P(m)}
<1>1. P(0)
  <2> DEFINE f == [k \in 0..0 |-> p]
  <2>1. IsHops(f, t, p, 0)
    <3>1. \A k \in 0..0 : k = 0
      OBVIOUS
    <3> QED
      BY <3>1 DEF IsHops
  <2> QED
    BY <2>1
<1>2. ASSUME NEW m \in Nat, P(m) PROVE P(m + 1)
  <2>1. PICK f : IsHops(f, t, p, m)
    BY <1>2
  <2> DEFINE v == Hop(t, f[m])
             g == [k \in 0..(m + 1) |-> IF k = m + 1 THEN v ELSE f[k]]
             h == [k \in 0..(m + 1) |-> IF k = 0 THEN p ELSE Hop(t, g[k - 1])]
  <2>2. ASSUME NEW k \in 0..(m + 1) PROVE g[k] = h[k]
    <3>1. CASE k = m + 1
      <4>1. k # 0 /\ k - 1 = m /\ m \in 0..(m + 1) /\ m # m + 1
        BY <3>1
      <4>2. g[m] = f[m]
        BY <4>1
      <4> QED
        BY <3>1, <4>1, <4>2
    <3>2. CASE k = 0
      <4>1. 0 # m + 1 /\ 0 \in 0..m
        OBVIOUS
      <4>2. f[0] = p
        BY <2>1, <4>1 DEF IsHops
      <4> QED
        BY <3>2, <4>1, <4>2
    <3>3. CASE k # 0 /\ k # m + 1
      <4>1. k \in 0..m /\ k - 1 \in 0..(m + 1) /\ k - 1 # m + 1
        BY <3>3
      <4>2. g[k - 1] = f[k - 1]
        BY <4>1
      <4>3. f[k] = Hop(t, f[k - 1])
        BY <2>1, <3>3, <4>1 DEF IsHops
      <4> QED
        BY <3>3, <4>2, <4>3
    <3> QED
      BY <3>1, <3>2, <3>3
  <2>3. g = h
    <3> HIDE DEF v
    <3> QED
      BY <2>2
  <2>4. IsHops(g, t, p, m + 1)
    BY <2>3 DEF IsHops
  <2> QED
    BY <2>4
<1> HIDE DEF P
<1>3. T = {}
  <2> SUFFICES ASSUME T # {} PROVE FALSE
    OBVIOUS
  <2>1. PICK m \in T : \A i \in T : m <= i
    BY LeastNatural
  <2>2. m \in Nat /\ ~P(m)
    BY <2>1
  <2>3. m # 0
    BY <1>1, <2>2
  <2>4. m - 1 \in Nat /\ (m - 1) + 1 = m /\ ~(m <= m - 1)
    BY <2>2, <2>3
  <2>5. m - 1 \notin T
    BY <2>1, <2>4
  <2>6. P(m - 1)
    BY <2>4, <2>5
  <2>7. P((m - 1) + 1)
    BY <1>2, <2>4, <2>6
  <2> QED
    BY <2>2, <2>4, <2>7
<1> QED
  BY <1>3 DEF P

\* The hops that a name takes.
LEMMA HopsIs ==
    ASSUME NEW t, NEW p
    PROVE  IsHops(Hops(t, p), t, p, MaxLinks)
<1> DEFINE hop == CHOOSE f : IsHops(f, t, p, MaxLinks)
<1>1. \E f : IsHops(f, t, p, MaxLinks)
  BY HopsExist, MaxLinksOK
<1>2. IsHops(hop, t, p, MaxLinks)
  BY <1>1
<1>3. Hops(t, p) = hop
  BY DEF Hops, IsHops
<1> QED
  BY <1>2, <1>3

\* What every hop keeps holds wherever a path leads.
HopKeeps(t, S) == \A p \in S : Hop(t, p) \in S
LEMMA HopsStay ==
    ASSUME NEW t, NEW S, HopKeeps(t, S), NEW p \in S, NEW k \in 0..MaxLinks
    PROVE  Hops(t, p)[k] \in S
<1> DEFINE hop == Hops(t, p)
           T == {j \in 0..MaxLinks : hop[j] \notin S}
<1>1. IsHops(hop, t, p, MaxLinks)
  BY HopsIs
<1> HIDE DEF hop
<1>2. T = {}
  <2> SUFFICES ASSUME T # {} PROVE FALSE
    OBVIOUS
  <2>1. T \subseteq Nat
    BY MaxLinksOK
  <2>2. PICK j \in T : \A i \in T : j <= i
    BY <2>1, LeastNatural
  <2>3. j \in 0..MaxLinks /\ hop[j] \notin S
    OBVIOUS
  <2>4. j # 0
    <3>1. hop[0] = p
      BY <1>1, MaxLinksOK DEF IsHops
    <3> QED
      BY <2>3, <3>1
  <2>5. j - 1 \in 0..MaxLinks /\ ~(j <= j - 1)
    BY <2>3, <2>4, MaxLinksOK
  <2>6. hop[j - 1] \in S
    BY <2>2, <2>5
  <2>7. hop[j] = Hop(t, hop[j - 1])
    BY <1>1, <2>3, <2>4 DEF IsHops
  <2> QED
    BY <2>3, <2>6, <2>7 DEF HopKeeps
<1> QED
  BY <1>2 DEF hop

\* The first link on the way is one of them.
LEMMA FirstLinkIs ==
    ASSUME NEW t, NEW p \in Seq(STRING), LinksOn(t, p) # {}
    PROVE  /\ FirstLink(t, p) \in 1..Len(p)
           /\ IsLink(t, SubSeq(p, 1, FirstLink(t, p)))
<1>1. LinksOn(t, p) \subseteq Nat
  BY DEF LinksOn
<1>2. \E n \in LinksOn(t, p) : \A m \in LinksOn(t, p) : n <= m
  BY <1>1, LeastNatural
<1>3. FirstLink(t, p) \in LinksOn(t, p)
  BY <1>2 DEF FirstLink
<1> QED
  BY <1>3 DEF LinksOn

\* Links lead from paths to paths.
LinksLead(t) == \A p \in DOMAIN t : IsLink(t, p) => t[p].to \in Seq(STRING)
LEMMA FollowIsName ==
    ASSUME NEW t, LinksLead(t), NEW p \in Seq(STRING)
    PROVE  Follow(t, p) \in Seq(STRING)
<1>1. ASSUME NEW q \in Seq(STRING) PROVE Hop(t, q) \in Seq(STRING)
  <2>1. CASE LinksOn(t, q) = {}
    BY <2>1 DEF Hop
  <2>2. CASE LinksOn(t, q) # {}
    <3> DEFINE n == FirstLink(t, q)
               to == t[SubSeq(q, 1, n)].to
               rest == SubSeq(q, n + 1, Len(q))
    <3>1. n \in 1..Len(q) /\ IsLink(t, SubSeq(q, 1, n))
      BY <2>2, FirstLinkIs
    <3>2. to \in Seq(STRING)
      BY <3>1 DEF LinksLead, IsLink
    <3>3. rest \in Seq(STRING)
      <4> HIDE DEF n
      <4> QED
        BY <3>1
    <3>4. Hop(t, q) = to \o rest
      BY <2>2 DEF Hop
    <3> HIDE DEF to, rest
    <3> QED
      BY <3>2, <3>3, <3>4
  <2> QED
    BY <2>1, <2>2
<1>2. HopKeeps(t, Seq(STRING))
  BY <1>1 DEF HopKeeps
<1> QED
  BY <1>2, HopsStay, MaxLinksOK DEF Follow

\* An entry names a path below the directory, wherever links lead.
LEMMA JoinIsName ==
    ASSUME NEW t, LinksLead(t), NEW p \in Seq(STRING)
    PROVE  /\ joinInside(t, p) \in Seq(STRING)
           /\ joinInside(t, p) = <<>> <=> p = <<>>
           /\ p # <<>> => Front(joinInside(t, p)) = Follow(t, Front(p))
<1>1. CASE p = <<>>
  BY <1>1 DEF joinInside
<1>2. CASE p # <<>>
  <2> DEFINE f == Follow(t, Front(p))
  <2>1. f \in Seq(STRING)
    BY FollowIsName, ParentAbove
  <2>2. Last(p) \in STRING /\ joinInside(t, p) = Append(f, Last(p))
    BY <1>2 DEF Last, joinInside
  <2> HIDE DEF f
  <2>3. /\ Append(f, Last(p)) \in Seq(STRING) /\ Append(f, Last(p)) # <<>>
        /\ Front(Append(f, Last(p))) = f
    BY <2>1, <2>2 DEF Front
  <2> QED
    BY <1>2, <2>2, <2>3 DEF f
<1> QED
  BY <1>1, <1>2

\* A path without links on the way stays where it is.
LEMMA Straight ==
    ASSUME NEW t, NEW p, LinksOn(t, p) = {}
    PROVE  Follow(t, p) = p /\ Trail(t, p) = {p} /\ ~Looping(t, p)
<1>1. HopKeeps(t, {p})
  BY DEF HopKeeps, Hop
<1>2. \A k \in 0..MaxLinks : Hops(t, p)[k] = p
  BY <1>1, HopsStay
<1>3. 0 \in 0..MaxLinks /\ MaxLinks \in 0..MaxLinks
  BY MaxLinksOK
<1> QED
  BY <1>2, <1>3 DEF Follow, Trail, Looping

\* What is in a tree is found there as it is, by SecureJoin and by the kernel.
LEMMA FoundInTree ==
    ASSUME NEW t, TreeOK(t), NEW p \in DOMAIN t
    PROVE  joinInside(t, p) = p /\ Inside(t, p)
<1>1. p \in Seq(STRING) /\ Front(p) \in Seq(STRING)
  BY InTree, ParentAbove
<1>2. CASE p = <<>>
  <2>1. Front(p) = <<>>
    BY <1>2 DEF Front
  <2>2. LinksOn(t, Front(p)) = {}
    BY <2>1 DEF LinksOn
  <2> QED
    BY <1>2, <2>2, Straight DEF joinInside, Inside
<1>3. CASE p # <<>>
  <2>1. IsDir(t, Front(p)) /\ Front(p) \in DOMAIN t
    BY <1>3, InTree
  <2>2. \A q \in Above(Front(p)) : IsDir(t, q)
    BY <2>1, InTree
  <2>3. LinksOn(t, Front(p)) = {}
    BY <1>1, <2>1, <2>2, AboveLinks DEF IsDir, IsLink
  <2>4. Follow(t, Front(p)) = Front(p) /\ Trail(t, Front(p)) = {Front(p)}
    BY <2>3, Straight
  <2>5. Append(Front(p), Last(p)) = p
    BY <1>1, <1>3 DEF Front, Last
  <2> QED
    BY <1>3, <2>3, <2>4, <2>5 DEF joinInside, Inside
<1> QED
  BY <1>2, <1>3
-----------------------------------------------------------------------------
(* What the operations of the file system leave                            *)

NodeOK(node) == node.kind = "link" => node.to \in Seq(STRING)

\* The links of a tree lead to paths.
LEMMA TreeLeads ==
    ASSUME NEW t, TreeOK(t)
    PROVE  LinksLead(t)
BY DEF TreeOK, LinksLead

\* A new node leaves a tree when its directory is there.
LEMMA PutKeepsTree ==
    ASSUME NEW t, TreeOK(t), NEW p \in Seq(STRING), NEW node,
           p \notin DOMAIN t, IsDir(t, Front(p)),
           NodeOK(node)
    PROVE  TreeOK(Put(t, p, node))
<1> DEFINE u == Put(t, p, node)
<1>1. DOMAIN u = DOMAIN t \cup {p} /\ u[p] = node /\ \A q \in DOMAIN t : u[q] = t[q]
  BY DEF Put
<1> HIDE DEF u
<1>2. ASSUME NEW q, IsDir(t, q) PROVE IsDir(u, q)
  BY <1>1, <1>2 DEF IsDir
<1>3. IsDir(u, <<>>)
  BY <1>2, InTree
<1>4. ASSUME NEW q \in DOMAIN u PROVE q \in Seq(STRING) /\ (IsLink(u, q) => u[q].to \in Seq(STRING))
  BY <1>1 DEF TreeOK, IsLink, NodeOK
<1>5. ASSUME NEW q \in DOMAIN u, NEW r \in Above(q) PROVE IsDir(u, r)
  <2>1. CASE q \in DOMAIN t
    BY <1>2, <2>1, InTree
  <2>2. CASE q = p
    <3>1. r = Front(p) \/ r \in Above(Front(p))
      BY <2>2, ParentAbove
    <3>2. Front(p) \in DOMAIN t
      BY DEF IsDir
    <3>3. IsDir(t, r)
      BY <3>1, <3>2, InTree
    <3> QED
      BY <1>2, <3>3
  <2> QED
    BY <1>1, <2>1, <2>2
<1>6. TreeOK(u)
  BY <1>3, <1>4, <1>5 DEF TreeOK
<1> QED
  BY <1>6 DEF u

\* A part of a tree that has all that is above each of its paths is a tree.
LEMMA PartIsTree ==
    ASSUME NEW t, TreeOK(t), NEW u, DOMAIN u \subseteq DOMAIN t,
           \A q \in DOMAIN u : u[q] = t[q],
           <<>> \in DOMAIN u, \A q \in DOMAIN u : Above(q) \subseteq DOMAIN u
    PROVE  TreeOK(u)
<1>1. \A q \in DOMAIN u : \A r \in Above(q) : r \in DOMAIN u /\ r \in DOMAIN t /\ IsDir(t, r)
  BY InTree
<1>2. \A r \in DOMAIN u : IsDir(t, r) => IsDir(u, r)
  BY DEF IsDir
<1> QED
  BY <1>1, <1>2 DEF TreeOK, IsLink

\* Removing takes away what a path names and what lies below it.
LEMMA RemoveAllIs ==
    ASSUME NEW t, TreeOK(t), NEW p \in Seq(STRING), NEW u \in RemoveAll(t, p)
    PROVE  /\ DOMAIN u = {q \in DOMAIN t : ~IsPrefix(p, q)}
           /\ \A q \in DOMAIN u : u[q] = t[q]
<1>1. \A q \in DOMAIN t : q \in Seq(STRING)
  BY InTree
<1>2. CASE p \notin DOMAIN t
  <2>1. u = t
    BY <1>2 DEF RemoveAll, When
  <2>2. \A q \in DOMAIN t : ~IsPrefix(p, q)
    BY <1>1, <1>2, AboveIs, TreeAbove DEF IsDir
  <2> QED
    BY <2>1, <2>2
<1>3. CASE p \in DOMAIN t
  <2>1. u = Restrict(t, DOMAIN t \ ({p} \cup Below(t, p)))
    BY <1>3 DEF RemoveAll, When
  <2>2. DOMAIN t \ ({p} \cup Below(t, p)) = {q \in DOMAIN t : ~IsPrefix(p, q)}
    BY <1>1, AboveIs DEF Below
  <2> QED
    BY <2>1, <2>2 DEF Restrict
<1> QED
  BY <1>2, <1>3

\* What is left after a removal is a tree.
LEMMA RemoveKeepsTree ==
    ASSUME NEW t, TreeOK(t), NEW p \in Seq(STRING), p # <<>>, NEW u \in RemoveAll(t, p)
    PROVE  TreeOK(u) /\ p \notin DOMAIN u
<1>1. /\ DOMAIN u = {q \in DOMAIN t : ~IsPrefix(p, q)}
      /\ \A q \in DOMAIN u : u[q] = t[q]
  BY RemoveAllIs
<1>2. p \notin DOMAIN u
  BY <1>1, AboveIs
<1>3. <<>> \in DOMAIN u
  <2>1. Above(<<>>) = {} /\ <<>> \in Seq(STRING)
    BY DEF Above
  <2> QED
    BY <1>1, <2>1, AboveIs, InTree
<1>4. ASSUME NEW q \in DOMAIN u, NEW r \in Above(q) PROVE r \in DOMAIN u
  <2>1. q \in DOMAIN t /\ q \in Seq(STRING) /\ r \in DOMAIN t /\ r \in Seq(STRING)
    BY <1>1, InTree, ParentAbove
  <2>2. ASSUME IsPrefix(p, r) PROVE IsPrefix(p, q)
    <3>1. p = r \/ p \in Above(r)
      BY <2>1, <2>2, AboveIs
    <3>2. p \in Above(q)
      BY <2>1, <3>1, AboveAbove
    <3> QED
      BY <2>1, <3>2, AboveIs
  <2> QED
    BY <1>1, <2>1, <2>2
<1> QED
  BY <1>1, <1>2, <1>3, <1>4, PartIsTree

\* Clearing a directory leaves the directory.
LEMMA ClearIs ==
    ASSUME NEW t, TreeOK(t), NEW p \in Seq(STRING), NEW u \in clearDir(t, p)
    PROVE  /\ TreeOK(u)
           /\ DOMAIN u = {q \in DOMAIN t : ~IsStrictPrefix(p, q)}
           /\ \A q \in DOMAIN u : u[q] = t[q]
<1>1. \A q \in DOMAIN t : q \in Seq(STRING)
  BY InTree
<1>2. CASE p \notin DOMAIN t
  <2>1. u = t
    BY <1>2 DEF clearDir, When
  <2>2. \A q \in DOMAIN t : ~IsStrictPrefix(p, q)
    BY <1>1, <1>2, TreeAbove DEF IsDir
  <2> QED
    BY <2>1, <2>2
<1>3. CASE p \in DOMAIN t
  <2>1. u = Restrict(t, DOMAIN t \ Below(t, p))
    BY <1>3 DEF clearDir, When
  <2>2. DOMAIN t \ Below(t, p) = {q \in DOMAIN t : ~IsStrictPrefix(p, q)}
    BY DEF Below
  <2>3. /\ DOMAIN u = {q \in DOMAIN t : ~IsStrictPrefix(p, q)}
        /\ \A q \in DOMAIN u : u[q] = t[q]
    BY <2>1, <2>2 DEF Restrict
  <2>4. <<>> \in DOMAIN u
    <3>1. Above(<<>>) = {} /\ <<>> \in Seq(STRING)
      BY DEF Above
    <3> QED
      BY <2>3, <3>1, AboveIs, InTree
  <2>5. ASSUME NEW q \in DOMAIN u, NEW r \in Above(q) PROVE r \in DOMAIN u
    <3>1. q \in DOMAIN t /\ q \in Seq(STRING) /\ r \in DOMAIN t /\ r \in Seq(STRING)
      BY <2>3, InTree, ParentAbove
    <3>2. IsStrictPrefix(p, r) => IsStrictPrefix(p, q)
      BY <3>1, AboveIs, AboveAbove
    <3> QED
      BY <2>3, <3>1, <3>2
  <2> QED
    BY <2>3, <2>4, <2>5, PartIsTree
<1> QED
  BY <1>2, <1>3

\* u is t with the directory p and those above it.
Opens(u, t, p) ==
    /\ DOMAIN u = DOMAIN t \cup {p} \cup Above(p)
    /\ \A q \in DOMAIN t : u[q] = t[q]
    /\ \A q \in DOMAIN u \ DOMAIN t : u[q] = Dir("rw")

\* Afterwards the directory is there, and all else is as it was.
LEMMA MkdirIs ==
    ASSUME NEW t, TreeOK(t), NEW p \in Seq(STRING), NEW u \in MkdirAll(t, p)
    PROVE  TreeOK(u) /\ IsDir(u, p) /\ Opens(u, t, p)
<1> DEFINE new == ({p} \cup Above(p)) \ DOMAIN t
<1>1. /\ Unobstructed(t, p) /\ IsDirOrNone(t, p)
      /\ \A q \in new : Front(q) \in DOMAIN t => Writable(t, Front(q))
      /\ u = [q \in DOMAIN t \cup new |-> IF q \in new THEN Dir("rw") ELSE t[q]]
  BY DEF MkdirAll, When
<1>2. Opens(u, t, p)
  BY <1>1 DEF Opens
<1>3. Dir("rw").kind = "dir"
  BY DEF Dir
<1>4. \A q \in Above(p) : q \in Seq(STRING) /\ Above(q) \subseteq Above(p)
  BY AboveAbove, ParentAbove
<1>5. \A q \in {p} \cup Above(p) : IsDir(u, q)
  <2>1. \A q \in {p} \cup Above(p) : IsDirOrNone(t, q)
    BY <1>1 DEF Unobstructed
  <2> QED
    BY <1>1, <1>3, <2>1 DEF IsDir, IsDirOrNone
<1>6. ASSUME NEW q \in DOMAIN u
      PROVE  /\ q \in Seq(STRING) /\ \A r \in Above(q) : IsDir(u, r)
             /\ IsLink(u, q) => u[q].to \in Seq(STRING)
  <2>1. CASE q \in DOMAIN t
    <3>1. u[q] = t[q] /\ \A r \in Above(q) : r \in DOMAIN t /\ IsDir(t, r)
      BY <1>2, <2>1, InTree DEF Opens
    <3>2. \A r \in DOMAIN t : IsDir(t, r) => IsDir(u, r)
      BY <1>2 DEF Opens, IsDir
    <3> QED
      BY <2>1, <3>1, <3>2 DEF TreeOK, IsLink
  <2>2. CASE q \notin DOMAIN t
    <3>1. q \in {p} \cup Above(p)
      BY <1>2, <2>2 DEF Opens
    <3>2. IsDir(u, q) /\ q \in Seq(STRING) /\ Above(q) \subseteq Above(p)
      BY <1>4, <1>5, <3>1
    <3> QED
      BY <1>5, <3>2 DEF IsDir, IsLink
  <2> QED
    BY <2>1, <2>2
<1>7. IsDir(u, <<>>)
  BY <1>2, InTree DEF Opens, IsDir
<1>8. TreeOK(u)
  BY <1>6, <1>7 DEF TreeOK
<1> QED
  BY <1>2, <1>5, <1>8

\* u is t with a new node in the place of all that was at p.
Replaced(u, t, p, node) ==
    /\ DOMAIN u = {q \in DOMAIN t : ~IsPrefix(p, q)} \cup {p}
    /\ u[p] = node
    /\ \A q \in DOMAIN t : ~IsPrefix(p, q) => u[q] = t[q]

\* The directory itself is never replaced: nothing can be put in its place.
LEMMA PlaceIs ==
    ASSUME NEW t, TreeOK(t), NEW p \in Seq(STRING), NEW node, NodeOK(node),
           NEW u \in Place(t, p, node)
    PROVE  TreeOK(u) /\ p # <<>> /\ Replaced(u, t, p, node)
<1>1. PICK v \in RemoveAll(t, p) : u \in When(Writable(v, Front(p)), Put(v, p, node))
  BY DEF Place
<1>2. IsDir(v, Front(p)) /\ u = Put(v, p, node)
  BY <1>1 DEF When, Writable
<1>3. /\ DOMAIN v = {q \in DOMAIN t : ~IsPrefix(p, q)}
      /\ \A q \in DOMAIN v : v[q] = t[q]
  BY RemoveAllIs
<1>4. p # <<>> /\ p \notin DOMAIN v
  <2>1. IsPrefix(p, p) /\ Front(p) \in DOMAIN v
    BY <1>2, AboveIs DEF IsDir
  <2>2. p = <<>> => Front(p) = p
    BY DEF Front
  <2> QED
    BY <1>3, <2>1, <2>2
<1>5. TreeOK(v)
  BY <1>4, RemoveKeepsTree
<1>6. TreeOK(u)
  BY <1>2, <1>4, <1>5, PutKeepsTree
<1>7. DOMAIN u = DOMAIN v \cup {p} /\ u[p] = node /\ \A q \in DOMAIN v : u[q] = v[q]
  BY <1>2, <1>4 DEF Put
<1> QED
  BY <1>3, <1>4, <1>6, <1>7 DEF Replaced

\* A hard link is the file that it names, which it does not replace.
LEMMA LinkIs ==
    ASSUME NEW t, TreeOK(t), NEW p \in Seq(STRING), NEW source, NEW u \in Link(t, p, source)
    PROVE  /\ TreeOK(u) /\ p # <<>>
           /\ source \in DOMAIN t /\ ~IsDir(t, source) /\ ~IsPrefix(p, source)
           /\ Replaced(u, t, p, t[source])
<1>1. PICK v \in RemoveAll(t, p) :
           source \in DOMAIN v /\ ~IsDir(v, source) /\ u \in Place(v, p, v[source])
  BY DEF Link
<1>2. /\ DOMAIN v = {q \in DOMAIN t : ~IsPrefix(p, q)}
      /\ \A q \in DOMAIN v : v[q] = t[q]
  BY RemoveAllIs
<1>3. p # <<>>
  <2> SUFFICES ASSUME p = <<>> PROVE FALSE
    OBVIOUS
  <2>1. \A q \in DOMAIN t : IsPrefix(p, q)
    <3>1. \A q \in DOMAIN t : q \in Seq(STRING)
      BY InTree
    <3> QED
      BY <3>1, AboveIs, ParentAbove
  <2> QED
    BY <1>1, <1>2, <2>1
<1>4. TreeOK(v)
  BY <1>3, RemoveKeepsTree
<1>5. NodeOK(v[source])
  BY <1>1, <1>4 DEF TreeOK, IsLink, NodeOK
<1>6. TreeOK(u) /\ Replaced(u, v, p, v[source])
  BY <1>1, <1>4, <1>5, PlaceIs
<1>7. source \in DOMAIN t /\ ~IsPrefix(p, source) /\ v[source] = t[source]
  BY <1>1, <1>2
<1>8. ~IsDir(t, source)
  BY <1>1, <1>7 DEF IsDir
<1>9. Replaced(u, t, p, t[source])
  BY <1>2, <1>6, <1>7 DEF Replaced
<1> QED
  BY <1>3, <1>6, <1>7, <1>8, <1>9

-----------------------------------------------------------------------------
(* One entry of an archive                                                 *)

\* Every entry leaves a tree.
LEMMA MakeKeepsTree ==
    ASSUME NEW t, TreeOK(t), NEW p \in Seq(STRING), NEW e, EntryOK(e),
           NEW u \in Make(t, p, e)
    PROVE  TreeOK(u)
<1>1. CASE e.kind = "dir"
  <2>1. u = t \/ u \in Place(t, p, Dir("rw"))
    BY <1>1 DEF Make
  <2> QED
    BY <2>1, PlaceIs DEF Dir, NodeOK
<1>2. CASE e.kind \in {"file", "link", "fifo"}
  <2>1. u \in Place(t, p, NodeOf(e))
    BY <1>2 DEF Make
  <2>2. NodeOK(NodeOf(e))
    BY <1>2 DEF NodeOf, EntryOK, NodeOK
  <2> QED
    BY <2>1, <2>2, PlaceIs
<1>3. CASE e.kind = "hard"
  BY <1>3, LinkIs DEF Make
<1>4. CASE e.kind \notin {"dir", "file", "link", "fifo", "hard"}
  BY <1>4 DEF Make
<1> QED
  BY <1>1, <1>2, <1>3, <1>4

\* untar: whatever an entry of an archive is and wherever links lead, what it
\* leaves is a tree.
LEMMA UnpackedKeepsTree ==
    ASSUME NEW t, TreeOK(t), NEW e, EntryOK(e), NEW u \in Unpacked(t, e)
    PROVE  TreeOK(u)
<1>1. e.path \in Seq(STRING) /\ (e.kind = "whiteout" => e.path # <<>>) /\ LinksLead(t)
  BY TreeLeads DEF EntryOK
<1>2. CASE e.kind = "opaque"
  <2>1. u \in clearDir(t, Follow(t, e.path))
    BY <1>2 DEF Unpacked
  <2>2. Follow(t, e.path) \in Seq(STRING)
    BY <1>1, FollowIsName
  <2> QED
    BY <2>1, <2>2, ClearIs
<1>3. CASE e.kind = "whiteout"
  <2>1. u \in RemoveAll(t, joinInside(t, e.path))
    BY <1>3 DEF Unpacked
  <2> QED
    BY <1>1, <1>3, <2>1, JoinIsName, RemoveKeepsTree
<1>4. CASE e.kind \notin {"opaque", "whiteout"}
  <2>1. PICK v \in MkdirAll(t, Front(joinInside(t, e.path))) :
             u \in Make(v, joinInside(t, e.path), e)
    BY <1>4 DEF Unpacked
  <2>2. joinInside(t, e.path) \in Seq(STRING) /\ Front(joinInside(t, e.path)) \in Seq(STRING)
    BY <1>1, JoinIsName, ParentAbove
  <2>3. TreeOK(v)
    BY <2>1, <2>2, MkdirIs
  <2> QED
    BY <2>1, <2>2, <2>3, MakeKeepsTree
<1> QED
  BY <1>2, <1>3, <1>4

\* Setting modes leaves a tree.
LEMMA ChmoddedKeepsTree ==
    ASSUME NEW t, TreeOK(t), NEW list
    PROVE  TreeOK(Chmodded(t, list))
<1> DEFINE u == Chmodded(t, list)
<1>1. DOMAIN u = DOMAIN t
  BY DEF Chmodded
<1>2. ASSUME NEW p \in DOMAIN t
      PROVE  u[p] = t[p] \/ (IsDir(t, p) /\ u[p].kind = "dir")
  BY DEF Chmodded, Dir
<1> HIDE DEF u
<1>3. TreeOK(u)
  BY <1>1, <1>2 DEF TreeOK, IsDir, IsLink
<1> QED
  BY <1>3 DEF u

-----------------------------------------------------------------------------
(* Types                                                                   *)

\* The entry at hand is one of the image.
LEMMA EntryAtHand ==
    ASSUME CheckedSoFar, Unpacking, step = "archive"
    PROVE  /\ nth \in DOMAIN layers /\ IsList(Served.entries)
           /\ entry <= Len(Served.entries) => EntryOK(NextEntry)
<1>1. LayersOK(layers) /\ what = "blob"
  BY WantedIsList DEF CheckedSoFar
<1>2. nth \in DOMAIN layers
  BY <1>1 DEF Unpacking, LayersOK, IsList, CheckedSoFar
<1>3. IsList(Served.entries)
  BY <1>1, <1>2 DEF LayersOK, BlobOK, Current, Served
<1>4. entry \in 1..(Len(Served.entries) + 1)
  BY <1>1 DEF Unpacking, TypeOK, Current, Served
<1>5. ASSUME entry <= Len(Served.entries) PROVE EntryOK(NextEntry)
  <2>1. entry \in DOMAIN Served.entries
    BY <1>3, <1>4, <1>5 DEF IsList
  <2> QED
    BY <1>1, <1>2, <2>1 DEF LayersOK, BlobOK, Current, Served, NextEntry
<1> QED
  BY <1>2, <1>3, <1>5

\* Steps that leave the layers alone.
LEMMA UnpackingFrame ==
    ASSUME Unpacking, UNCHANGED <<what, layers, nth, entry, tree, modes>>,
           token' \in {"none", "good", "stale"}, expired' \in BOOLEAN,
           step' \in {"request", "challenge", "again", "manifest", "archive",
                      "digest", "done", "refused"},
           step \in {"done", "refused"} => step' \in {"done", "refused"}
    PROVE  Unpacking'
BY DEF Unpacking, TypeOK

\* Every step keeps the types, and stays within the layers.
LEMMA UnpackingStep ==
    ASSUME CheckedSoFar, Unpacking, [Next]_vars
    PROVE  Unpacking'
<1> USE DEF Refuse, requestVars, layerVars
<1>0. /\ token \in {"none", "good", "stale"} /\ expired \in BOOLEAN
      /\ step \in {"request", "challenge", "again", "manifest", "archive",
                   "digest", "done", "refused"}
  BY DEF Unpacking, TypeOK
<1>1. CASE Request
  BY <1>0, <1>1, UnpackingFrame DEF Request, Answered
<1>2. CASE Authenticate
  BY <1>0, <1>2, UnpackingFrame DEF Authenticate
<1>3. CASE RequestAgain
  BY <1>0, <1>3, UnpackingFrame DEF RequestAgain, Answered
<1>4. CASE ReadManifest
  <2>1. /\ UNCHANGED <<token, expired, nth, entry, tree, modes>>
        /\ step' \in {"request", "refused"} /\ what # "blob" /\ nth = 1
    BY <1>4 DEF ReadManifest, UseLayers, Fetch, CheckedSoFar
  <2>2. layers = <<>> /\ entry = 1
    BY <2>1 DEF Unpacking
  <2>3. CASE UseLayers(Wanted)
    <3>1. LayersOK(Wanted)
      BY WantedIsList DEF CheckedSoFar
    <3>2. layers' = Wanted /\ what' = "blob"
      BY <2>3 DEF UseLayers
    <3>3. nth' \in 1..(Len(layers') + 1)
      BY <2>1, <3>1, <3>2 DEF LayersOK, IsList
    <3>4. ASSUME step' \notin {"done", "refused"}
          PROVE  nth' <= Len(layers') /\ entry' \in 1..(Len(layers'[nth'].served.archive.entries) + 1)
      <4>1. Wanted # <<>>
        BY <2>3, <3>4 DEF UseLayers
      <4>2. 1 \in DOMAIN Wanted
        BY <3>1, <4>1, EmptyList DEF LayersOK, IsList
      <4>3. IsList(Wanted[1].served.archive.entries)
        BY <3>1, <4>2 DEF LayersOK, BlobOK
      <4> QED
        BY <2>1, <2>2, <3>1, <3>2, <4>2, <4>3 DEF LayersOK, IsList
    <3> QED
      BY <2>1, <3>2, <3>3, <3>4 DEF Unpacking, TypeOK
  <2>4. CASE ~UseLayers(Wanted)
    <3>1. layers' = layers /\ what' \in {"tag", "sub"}
      BY <1>4, <2>1, <2>4 DEF ReadManifest, Wanted, CheckedSoFar
    <3> QED
      BY <2>1, <2>2, <3>1 DEF Unpacking, TypeOK
  <2> QED
    BY <2>3, <2>4
<1>5. CASE UntarEntry
  <2>1. UNCHANGED <<token, expired, what, layers, nth>> /\ step = "archive" /\ what = "blob"
    BY <1>5 DEF UntarEntry, CheckedSoFar
  <2>2. CASE step' = "refused" /\ UNCHANGED <<tree, entry, modes>>
    BY <1>0, <2>1, <2>2, UnpackingFrame
  <2>3. CASE /\ tree' \in Unpacked(tree, NextEntry)
             /\ entry' = entry + 1 /\ step' = step
             /\ modes' = IF NextEntry.kind # "dir" THEN modes
                         ELSE Append(modes, [path |-> joinInside(tree, NextEntry.path),
                                             mode |-> NextEntry.mode])
    <3>1. EntryOK(NextEntry) /\ IsList(Served.entries) /\ entry <= Len(Served.entries)
      BY <1>5, <2>1, EntryAtHand DEF UntarEntry
    <3>2. TreeOK(tree)
      BY DEF Unpacking, TypeOK
    <3>3. TreeOK(tree')
      BY <2>3, <3>1, <3>2, UnpackedKeepsTree
    <3>4. entry \in 1..(Len(Served.entries) + 1) /\ Len(Served.entries) \in Nat
      BY <2>1, <3>1 DEF Unpacking, TypeOK, Current, Served, IsList
    <3>5. entry' \in 1..(Len(Served.entries) + 1)
      BY <2>3, <3>1, <3>4
    <3>6. modes' \in Seq([path : Seq(STRING), mode : Modes])
      <4>1. modes \in Seq([path : Seq(STRING), mode : Modes])
        BY DEF Unpacking, TypeOK
      <4>2. ASSUME NextEntry.kind = "dir"
            PROVE  [path |-> joinInside(tree, NextEntry.path), mode |-> NextEntry.mode]
                     \in [path : Seq(STRING), mode : Modes]
        BY <3>1, <3>2, <4>2, TreeLeads, JoinIsName DEF EntryOK
      <4>3. CASE NextEntry.kind = "dir"
        <5> DEFINE new == [path |-> joinInside(tree, NextEntry.path), mode |-> NextEntry.mode]
        <5>1. new \in [path : Seq(STRING), mode : Modes] /\ modes' = Append(modes, new)
          BY <2>3, <4>2, <4>3
        <5> HIDE DEF new
        <5> QED
          BY <4>1, <5>1
      <4>4. CASE NextEntry.kind # "dir"
        BY <2>3, <4>1, <4>4
      <4> QED
        BY <4>3, <4>4
    <3> QED
      BY <2>1, <2>3, <3>3, <3>5, <3>6 DEF Unpacking, TypeOK, Current, Served
  <2> QED
    BY <1>5, <2>2, <2>3 DEF UntarEntry
<1>6. CASE UntarBroken
  BY <1>0, <1>6, UnpackingFrame DEF UntarBroken
<1>7. CASE ApplyModes
  <2>1. TreeOK(tree')
    BY <1>7, ChmoddedKeepsTree DEF ApplyModes, Unpacking, TypeOK
  <2>2. modes' \in Seq([path : Seq(STRING), mode : Modes])
    BY <1>7 DEF ApplyModes
  <2> QED
    BY <1>7, <2>1, <2>2 DEF ApplyModes, Unpacking, TypeOK
<1>8. CASE CheckDigest
  <2>1. UNCHANGED <<token, expired, what, layers, tree, modes>> /\ step = "digest" /\ what = "blob"
    BY <1>8 DEF CheckDigest, CheckedSoFar
  <2>2. CASE step' = "refused" /\ UNCHANGED <<nth, entry>>
    BY <1>0, <2>1, <2>2, UnpackingFrame
  <2>3. CASE NextLayer
    <3>1. LayersOK(layers) /\ nth \in 1..Len(layers) /\ nth' = nth + 1 /\ entry' = 1
      BY <2>1, <2>3, WantedIsList DEF NextLayer, CheckedSoFar, Unpacking, TypeOK, LayersOK, IsList
    <3>2. Len(layers) \in Nat /\ DOMAIN layers = 1..Len(layers)
      BY <3>1 DEF LayersOK, IsList
    <3>3. nth' \in 1..(Len(layers) + 1) /\ (nth # Len(layers) => nth' \in DOMAIN layers)
      <4> DEFINE all == Len(layers)
      <4>1. all \in Nat /\ nth \in 1..all /\ nth' = nth + 1 /\ DOMAIN layers = 1..all
        BY <3>1, <3>2
      <4> HIDE DEF all
      <4>2. nth' \in 1..(all + 1) /\ (nth # all => nth' \in 1..all)
        BY <4>1
      <4> QED
        BY <4>1, <4>2 DEF all
    <3>4. step' \in {"done", "refused", "request"} /\ (step' = "request" => nth # Len(layers))
      BY <2>3 DEF NextLayer, Fetch
    <3>5. ASSUME step' = "request"
          PROVE  nth' <= Len(layers) /\ 1 \in 1..(Len(layers[nth'].served.archive.entries) + 1)
      <4>1. IsList(layers[nth'].served.archive.entries)
        BY <3>1, <3>3, <3>4, <3>5 DEF LayersOK, BlobOK
      <4>2. nth' <= Len(layers)
        BY <3>2, <3>3, <3>4, <3>5
      <4> DEFINE size == Len(layers[nth'].served.archive.entries)
      <4>3. size \in Nat
        BY <4>1 DEF IsList
      <4>4. 1 \in 1..(size + 1)
        <5> HIDE DEF size
        <5> QED
          BY <4>3
      <4> QED
        BY <4>2, <4>4
    <3> QED
      BY <2>1, <3>1, <3>3, <3>4, <3>5 DEF Unpacking, TypeOK
  <2> QED
    BY <1>8, <2>2, <2>3 DEF CheckDigest
<1>9. CASE Expire
  BY <1>0, <1>9, UnpackingFrame DEF Expire
<1>10. CASE Fault
  BY <1>0, <1>10, UnpackingFrame DEF Fault
<1>11. CASE UNCHANGED vars
  BY <1>0, <1>11, UnpackingFrame DEF vars
<1> QED
  BY <1>1, <1>2, <1>3, <1>4, <1>5, <1>6, <1>7, <1>8, <1>9, <1>10, <1>11
     DEF Next, Pull

\* A pull starts well.
LEMMA InitTypes ==
    ASSUME Init
    PROVE  CheckedSoFar /\ Unpacking
<1>1. CheckedSoFar
  BY DEF Init, CheckedSoFar
<1>2. TreeOK(EmptyTree)
  <2>1. DOMAIN EmptyTree = {<<>>} /\ EmptyTree[<<>>] = Dir("rw")
    BY DEF EmptyTree
  <2>2. Dir("rw").kind = "dir" /\ Above(<<>>) = {}
    BY DEF Dir, Above
  <2> QED
    BY <2>1, <2>2 DEF TreeOK, IsDir, IsLink
<1>3. Unpacking
  <2>1. nth \in 1..(Len(layers) + 1)
    <3>1. Len(layers) = 0 /\ nth = 1
      BY DEF Init
    <3> QED
      BY <3>1
  <2>2. modes \in Seq([path : Seq(STRING), mode : Modes])
    BY DEF Init
  <2> QED
    BY <1>2, <2>1, <2>2 DEF Init, Unpacking, TypeOK
<1> QED
  BY <1>1, <1>3

\* untar, extractLayer: for any image, however long its layers are and
\* wherever their links lead, what is unpacked is at every moment a tree: every
\* name in it is reached through real directories.  And the pull works on an
\* entry that there is, with the modes of paths inside the tree to apply.
THEOREM TypeCorrect == Spec => []TypeOK
<1>1. Init => CheckedSoFar /\ Unpacking
  BY InitTypes
<1>2. CheckedSoFar /\ Unpacking /\ [Next]_vars => (CheckedSoFar /\ Unpacking)'
  BY CheckedStep, UnpackingStep
<1>3. Unpacking => TypeOK
  BY DEF Unpacking
<1> QED
  BY <1>1, <1>2, <1>3, PTL DEF Spec

----------------------------------------------------------------------------------------------------------------------------------------------------------
(* Paths of two names, and links that lead to names at the top             *)

\* The parent of a path is what lies between it and the directory itself.
LEMMA Parent ==
    ASSUME NEW q \in Path(2)
    PROVE  /\ Front(q) \in Path(1) /\ Front(q) \in Path(2)
           /\ q = <<>> => Front(q) = <<>>
           /\ q # <<>> => Front(q) # q
           /\ Front(Front(q)) = <<>>
           /\ Front(q) # <<>> => IsTop(Front(q))
           /\ q \in Path(1) => Front(q) = <<>>
BY DEF Front, Path, IsTop

\* Paths of two names have at most two paths above them.
LEMMA AboveTwo ==
    ASSUME NEW p \in Path(2), NEW q \in Path(2)
    PROVE  /\ IsStrictPrefix(p, q) <=> q # <<>> /\ (p = <<>> \/ p = Front(q))
           /\ IsPrefix(p, q) <=> p = q \/ IsStrictPrefix(p, q)
<1>1. IsPrefix(p, q) <=> p = q \/ IsStrictPrefix(p, q)
  BY DEF IsStrictPrefix, IsPrefix, Path
<1>2. ASSUME IsStrictPrefix(p, q) PROVE q # <<>> /\ (p = <<>> \/ p = Front(q))
  <2>1. Len(p) <= Len(q) /\ SubSeq(p, 1, Len(p)) = SubSeq(q, 1, Len(p)) /\ p # q
    BY <1>2 DEF IsStrictPrefix, IsPrefix
  <2>2. p \in Seq(STRING) /\ q \in Seq(STRING) /\ Len(q) <= 2
    BY DEF Path
  <2>3. SubSeq(p, 1, Len(p)) = p /\ SubSeq(q, 1, Len(q)) = q
    BY <2>2, SubSeqFull
  <2>4. Len(p) < Len(q)
    BY <2>1, <2>2, <2>3
  <2>5. q # <<>> /\ (Len(p) = 0 \/ Len(p) = Len(q) - 1)
    BY <2>2, <2>4, EmptySeq
  <2>6. Len(p) = 0 => p = <<>>
    BY <2>2, EmptySeq
  <2>7. Len(p) = Len(q) - 1 => p = Front(q)
    BY <2>1, <2>3 DEF Front
  <2> QED
    BY <2>5, <2>6, <2>7
<1>3. ASSUME q # <<>>, p = <<>> \/ p = Front(q) PROVE IsStrictPrefix(p, q)
  BY <1>3 DEF IsStrictPrefix, IsPrefix, Front, Path
<1> QED
  BY <1>1, <1>2, <1>3

\* What can be followed: no link is the directory itself or leads to it.
LinksOK(t) == \A p \in DOMAIN t : IsLink(t, p) => p # <<>> /\ IsTop(t[p].to)

\* A name at the top.
LEMMA TopIs ==
    ASSUME NEW p \in Path(1), p # <<>>
    PROVE  p \in Seq(STRING) /\ Len(p) = 1 /\ SubSeq(p, 1, 1) = p
<1> DEFINE n == Len(p)
<1>1. p \in Seq(STRING) /\ n \in Nat \ {0} /\ n <= 1
  BY EmptySeq DEF Path
<1>2. SubSeq(p, 1, n) = p
  BY <1>1, SubSeqFull
<1> HIDE DEF n
<1>3. n = 1
  BY <1>1
<1> QED
  BY <1>1, <1>2, <1>3 DEF n

\* What is above a name at the top.
LEMMA AboveTop ==
    ASSUME NEW p \in Path(1)
    PROVE  p \in Seq(STRING) /\ Above(p) = IF p = <<>> THEN {} ELSE {<<>>}
<1>1. CASE p = <<>>
  BY <1>1 DEF Above, Path
<1>2. CASE p # <<>>
  <2>1. p \in Seq(STRING) /\ Len(p) = 1
    BY <1>2, TopIs
  <2>2. <<>> \in Above(p) /\ Front(p) = <<>>
    BY <1>2, <2>1, ParentAbove DEF Front
  <2>3. \A q \in Above(p) : q = <<>>
    <3>1. Above(<<>>) = {}
      BY DEF Above
    <3> QED
      BY <2>1, <2>2, <3>1, ParentAbove
  <2> QED
    BY <1>2, <2>1, <2>2, <2>3
<1> QED
  BY <1>1, <1>2

\* A tree of paths of two names.
LEMMA SmallIs ==
    ASSUME NEW t, SmallTree(t)
    PROVE  /\ TreeOK(t) /\ LinksOK(t)
           /\ \A p \in DOMAIN t : p \in Path(2) /\ p \in Seq(STRING)
           /\ \A p \in DOMAIN t \ {<<>>} : IsDir(t, Front(p)) /\ Front(p) \in DOMAIN t
           /\ <<>> \in DOMAIN t /\ IsDir(t, <<>>)
BY InTree DEF SmallTree, LinksOK, IsLink, IsDir

\* At the top a path leads where its link leads, if it is one.
LEMMA SmallHop ==
    ASSUME NEW t, LinksOK(t), NEW p \in Path(1)
    PROVE  /\ Hop(t, p) = IF IsLink(t, p) THEN t[p].to ELSE p
           /\ LinksOn(t, p) # {} <=> IsLink(t, p)
           /\ Hop(t, p) \in Path(1)
           /\ Hop(t, p) = <<>> <=> p = <<>>
<1>0. p \in Seq(STRING) /\ Len(p) \in Nat /\ Len(p) <= 1
  BY DEF Path
<1>1. CASE p = <<>>
  <2>1. LinksOn(t, p) = {} /\ ~IsLink(t, p)
    BY <1>1 DEF LinksOn, LinksOK, IsLink
  <2> QED
    BY <1>1, <2>1 DEF Hop
<1>2. CASE p # <<>> /\ ~IsLink(t, p)
  <2>1. ~IsLink(t, <<>>)
    BY DEF LinksOK, IsLink
  <2>2. LinksOn(t, p) = {}
    BY <1>2, <2>1, AboveTop, AboveLinks
  <2> QED
    BY <1>2, <2>2 DEF Hop
<1>3. CASE p # <<>> /\ IsLink(t, p)
  <2>1. Len(p) = 1 /\ SubSeq(p, 1, 1) = p
    BY <1>3, TopIs
  <2>2. 1 \in LinksOn(t, p)
    <3>1. IsLink(t, SubSeq(p, 1, 1))
      BY <1>3, <2>1, Zenon
    <3>2. 1 \in 1..Len(p)
      BY <2>1
    <3> QED
      BY <3>1, <3>2, Zenon DEF LinksOn
  <2>3. FirstLink(t, p) = 1
    <3>1. FirstLink(t, p) \in 1..Len(p)
      BY <1>0, <2>2, FirstLinkIs
    <3> QED
      BY <2>1, <3>1
  <2>4. SubSeq(p, 2, Len(p)) = <<>>
    <3>1. SubSeq(p, 2, 1) = <<>>
      BY SubSeqEmpty
    <3> QED
      BY <2>1, <3>1
  <2>5. t[p].to \in Seq(STRING) /\ IsTop(t[p].to)
    BY <1>3 DEF LinksOK, IsLink, IsTop, Path
  <2>6. Hop(t, p) = t[p].to \o <<>>
    <3>1. Hop(t, p) = t[SubSeq(p, 1, FirstLink(t, p))].to \o SubSeq(p, FirstLink(t, p) + 1, Len(p))
      BY <2>2 DEF Hop
    <3>2. 1 + 1 = 2
      OBVIOUS
    <3> QED
      BY <2>1, <2>3, <2>4, <3>1, <3>2
  <2>7. Hop(t, p) = t[p].to
    BY <2>5, <2>6, ConcatEmptySeq
  <2> QED
    BY <1>3, <2>2, <2>5, <2>7 DEF IsTop
<1> QED
  BY <1>1, <1>2, <1>3

\* Links lead from names to names.
LEMMA SmallHops ==
    ASSUME NEW t, LinksOK(t), NEW p \in Path(1), NEW k \in 0..MaxLinks
    PROVE  /\ Hops(t, p)[k] \in Path(1)
           /\ Hops(t, p)[k] = <<>> <=> p = <<>>
<1> DEFINE S == {q \in Path(1) : q = <<>> <=> p = <<>>}
<1>1. HopKeeps(t, S)
  BY SmallHop DEF HopKeeps
<1>2. p \in S
  OBVIOUS
<1> HIDE DEF S
<1>3. Hops(t, p)[k] \in S
  BY <1>1, <1>2, HopsStay
<1> QED
  BY <1>3 DEF S

\* Where links lead is a name at the top again.
LEMMA FollowIsPath ==
    ASSUME NEW t, LinksOK(t), NEW p \in Path(1)
    PROVE  /\ Follow(t, p) \in Path(1) /\ (Follow(t, p) = <<>> <=> p = <<>>)
           /\ Looping(t, p) <=> IsLink(t, Follow(t, p))
<1>1. Follow(t, p) \in Path(1) /\ (Follow(t, p) = <<>> <=> p = <<>>)
  BY SmallHops, MaxLinksOK DEF Follow
<1> QED
  BY <1>1, SmallHop DEF Looping

\* Two trees with the same links on the way lead to the same place.
LEMMA SameHops ==
    ASSUME NEW t, LinksOK(t), NEW s, LinksOK(s), NEW p \in Path(1),
           \A q \in Trail(s, p) :
             /\ IsLink(t, q) <=> IsLink(s, q)
             /\ IsLink(s, q) => t[q].to = s[q].to
    PROVE  Follow(t, p) = Follow(s, p)
<1> DEFINE h == Hops(t, p)
           g == Hops(s, p)
           T == {j \in 0..MaxLinks : h[j] # g[j]}
<1>1. IsHops(h, t, p, MaxLinks) /\ IsHops(g, s, p, MaxLinks)
  BY HopsIs
<1>2. \A k \in 0..MaxLinks : g[k] \in Trail(s, p) /\ g[k] \in Path(1)
  BY SmallHops DEF Trail
<1> HIDE DEF h, g
<1>3. T = {}
  <2> SUFFICES ASSUME T # {} PROVE FALSE
    OBVIOUS
  <2>1. T \subseteq Nat
    BY MaxLinksOK
  <2>2. PICK j \in T : \A i \in T : j <= i
    BY <2>1, LeastNatural
  <2>3. j \in 0..MaxLinks /\ h[j] # g[j]
    OBVIOUS
  <2>4. j # 0
    <3>1. h[0] = p /\ g[0] = p
      BY <1>1, MaxLinksOK DEF IsHops
    <3> QED
      BY <2>3, <3>1
  <2>5. j - 1 \in 0..MaxLinks /\ ~(j <= j - 1)
    BY <2>3, <2>4, MaxLinksOK
  <2>6. h[j - 1] = g[j - 1] /\ g[j - 1] \in Trail(s, p) /\ g[j - 1] \in Path(1)
    BY <1>2, <2>2, <2>5
  <2>7. h[j] = Hop(t, h[j - 1]) /\ g[j] = Hop(s, g[j - 1])
    BY <1>1, <2>3, <2>4 DEF IsHops
  <2>8. Hop(t, g[j - 1]) = Hop(s, g[j - 1])
    BY <2>6, SmallHop
  <2> QED
    BY <2>3, <2>6, <2>7, <2>8
<1> QED
  BY <1>3, MaxLinksOK DEF h, g, Follow

\* The name of an entry is as long as it says, wherever links lead.
LEMMA JoinIsPath ==
    ASSUME NEW t, LinksOK(t), NEW p \in Path(2)
    PROVE  /\ joinInside(t, p) \in Path(2)
           /\ joinInside(t, p) = <<>> <=> p = <<>>
           /\ p # <<>> => Front(joinInside(t, p)) = Follow(t, Front(p))
           /\ p \in Path(1) => joinInside(t, p) = p
           /\ p \notin Path(1) => joinInside(t, p) \notin Path(1)
<1>1. CASE p = <<>>
  BY <1>1 DEF joinInside
<1>2. CASE p # <<>>
  <2> DEFINE f == Follow(t, Front(p))
  <2>1. f \in Path(1) /\ (f = <<>> <=> Front(p) = <<>>)
    BY FollowIsPath, Parent
  <2>2. Last(p) \in STRING /\ joinInside(t, p) = Append(f, Last(p))
    BY <1>2 DEF Last, joinInside, Path
  <2>3. f \in Seq(STRING) /\ Len(f) <= 1
    BY <2>1 DEF Path
  <2>4. Front(p) = <<>> <=> Len(p) = 1
    <3>1. p \in Seq(STRING) /\ Len(p) \in Nat \ {0} /\ Len(p) <= 2
      BY <1>2, EmptySeq DEF Path
    <3>2. Len(p) = 1 => Front(p) = <<>>
      BY <3>1 DEF Front
    <3>3. Len(p) = 2 => Front(p) # <<>>
      BY <3>1 DEF Front
    <3> DEFINE n == Len(p)
    <3>4. n \in Nat \ {0} /\ n <= 2
      BY <3>1
    <3> HIDE DEF n
    <3>5. n = 1 \/ n = 2
      BY <3>4
    <3> QED
      BY <3>2, <3>3, <3>5 DEF n
  <2>5. f = <<>> <=> Len(f) = 0
    BY <2>3
  <2> HIDE DEF f
  <2>6. /\ Append(f, Last(p)) \in Seq(STRING) /\ Len(Append(f, Last(p))) = Len(f) + 1
        /\ Append(f, Last(p)) # <<>> /\ Front(Append(f, Last(p))) = f
    BY <2>2, <2>3 DEF Front
  <2>7. Len(p) = 1 => Append(f, Last(p)) = p
    BY <2>1, <2>2, <2>4 DEF Last, Path
  <2>8. p \in Path(1) <=> Len(p) = 1
    <3> DEFINE n == Len(p)
    <3>1. p \in Seq(STRING) /\ n \in Nat \ {0}
      BY <1>2, EmptySeq DEF Path
    <3>2. p \in Path(1) <=> n <= 1
      BY <3>1 DEF Path
    <3> HIDE DEF n
    <3>3. n <= 1 <=> n = 1
      BY <3>1
    <3> QED
      BY <3>2, <3>3 DEF n
  <2>9. joinInside(t, p) \in Path(1) <=> Len(f) = 0
    BY <2>2, <2>3, <2>6 DEF Path
  <2>10. joinInside(t, p) \in Path(2)
    BY <2>2, <2>3, <2>6 DEF Path
  <2> QED
    BY <1>2, <2>1, <2>2, <2>4, <2>5, <2>6, <2>7, <2>8, <2>9, <2>10 DEF f
<1> QED
  BY <1>1, <1>2

\* u is t with the directory p.
Opened1(u, t, p) ==
    /\ DOMAIN u = DOMAIN t \cup {p}
    /\ \A q \in DOMAIN t : u[q] = t[q]
    /\ p \notin DOMAIN t => u[p] = Dir("rw")

\* A directory at the top is the only one that is new.
LEMMA SmallMkdir ==
    ASSUME NEW t, SmallTree(t), NEW p \in Path(1), NEW u \in MkdirAll(t, p)
    PROVE  SmallTree(u) /\ IsDir(u, p) /\ Opened1(u, t, p)
<1>1. p \in Path(2) /\ p \in Seq(STRING)
  BY DEF Path
<1>2. TreeOK(u) /\ IsDir(u, p) /\ Opens(u, t, p)
  BY <1>1, SmallIs, MkdirIs
<1>3. Above(p) \subseteq DOMAIN t
  BY AboveTop, SmallIs
<1>4. Opened1(u, t, p)
  BY <1>2, <1>3 DEF Opens, Opened1
<1>5. ASSUME NEW q \in DOMAIN u PROVE q \in Path(2) /\ (IsLink(u, q) => IsTop(u[q].to))
  <2>1. CASE q \in DOMAIN t
    BY <1>4, <2>1 DEF Opened1, SmallTree, IsLink
  <2>2. CASE q \notin DOMAIN t
    BY <1>1, <1>4, <2>2 DEF Opened1, IsLink, Dir
  <2> QED
    BY <2>1, <2>2
<1> QED
  BY <1>2, <1>4, <1>5 DEF SmallTree


\* What the operations of the file system leave of such a tree.
LEMMA SmallRemove ==
    ASSUME NEW t, SmallTree(t), NEW p \in Path(2), NEW u \in RemoveAll(t, p)
    PROVE  /\ DOMAIN u = {q \in DOMAIN t : ~IsPrefix(p, q)}
           /\ \A q \in DOMAIN u : u[q] = t[q]
           /\ p # <<>> => SmallTree(u)
<1>1. TreeOK(t) /\ p \in Seq(STRING)
  BY DEF SmallTree, Path
<1>2. /\ DOMAIN u = {q \in DOMAIN t : ~IsPrefix(p, q)}
      /\ \A q \in DOMAIN u : u[q] = t[q]
  BY <1>1, RemoveAllIs
<1>3. p # <<>> => TreeOK(u)
  BY <1>1, RemoveKeepsTree
<1>4. \A q \in DOMAIN u : q \in Path(2) /\ (IsLink(u, q) => IsTop(u[q].to))
  BY <1>2 DEF SmallTree, IsLink
<1> QED
  BY <1>2, <1>3, <1>4 DEF SmallTree

LEMMA SmallClear ==
    ASSUME NEW t, SmallTree(t), NEW p \in Path(2), NEW u \in clearDir(t, p)
    PROVE  /\ DOMAIN u = {q \in DOMAIN t : ~IsStrictPrefix(p, q)}
           /\ \A q \in DOMAIN u : u[q] = t[q]
BY ClearIs DEF SmallTree, Path

LEMMA SmallPlace ==
    ASSUME NEW t, SmallTree(t), NEW p \in Path(2), NEW node, NodeOK(node),
           NEW u \in Place(t, p, node)
    PROVE  p # <<>> /\ Replaced(u, t, p, node)
BY PlaceIs DEF SmallTree, Path

LEMMA SmallLink ==
    ASSUME NEW t, SmallTree(t), NEW p \in Path(2), NEW source, NEW u \in Link(t, p, source)
    PROVE  p # <<>> /\ Replaced(u, t, p, t[source])
BY LinkIs DEF SmallTree, Path

\* What lies above a path of the tree is a directory.
LEMMA SmallAbove ==
    ASSUME NEW t, SmallTree(t), NEW p \in Path(2), NEW q \in DOMAIN t, IsStrictPrefix(p, q)
    PROVE  IsDir(t, p)
BY TreeAbove DEF SmallTree, Path

-----------------------------------------------------------------------------
(* What a well-formed layer means                                          *)

\* A layer that has one meaning over a tree.
SmallEntry(e) == EntryOK(e) /\ TwoNames(e)
Sound(lower, layer) ==
    /\ SmallTree(lower)
    /\ IsList(layer) /\ \A i \in DOMAIN layer : SmallEntry(layer[i])
    /\ WellFormed(lower, layer)

\* The entries that put something of their own at the top.
OwnTop(layer, p) ==
    {i \in DOMAIN layer : layer[i].path = p /\ Len(p) = 1 /\ layer[i].kind \in Adds \ {"hard"}}

\* The top of the tree: an entry of the layer, or what is left from below.
LEMMA SkeletonIs ==
    ASSUME NEW lower, NEW layer
    PROVE  /\ \A p \in DOMAIN Skeleton(lower, layer) :
                \/ \E i \in OwnTop(layer, p) : Skeleton(lower, layer)[p] = NodeOf(layer[i])
                \/ /\ p \in DOMAIN lower /\ Len(p) = 1 /\ OwnTop(layer, p) = {}
                   /\ Skeleton(lower, layer)[p] = lower[p]
                   /\ \A i \in DOMAIN layer :
                        /\ layer[i].path = p => layer[i].kind \notin {"whiteout", "hard"}
                        /\ layer[i].kind = "opaque" => layer[i].path # <<>>
           /\ \A p : OwnTop(layer, p) # {} => p \in DOMAIN Skeleton(lower, layer)
           /\ \A p \in DOMAIN lower : Len(p) = 1 /\ p \notin DOMAIN Skeleton(lower, layer) =>
                \E i \in DOMAIN layer :
                   \/ layer[i].path = p /\ layer[i].kind \in {"whiteout", "hard"}
                   \/ layer[i].path = <<>> /\ layer[i].kind = "opaque"
<1> DEFINE top == {e \in Range(layer) : Len(e.path) = 1}
           own == {e \in top : e.kind \in Adds \ {"hard"}}
           gone == {e.path : e \in {f \in top : f.kind \in {"whiteout", "hard"}}}
           all == \E e \in Range(layer) : e.kind = "opaque" /\ e.path = <<>>
           kept == {p \in DOMAIN lower : Len(p) = 1 /\ p \notin gone /\ ~all}
           sk == Skeleton(lower, layer)
           chosen(p) == CHOOSE e \in own : e.path = p
<1>1. sk = [p \in {e.path : e \in own} \cup kept |->
              IF \E e \in own : e.path = p THEN NodeOf(chosen(p)) ELSE lower[p]]
  BY DEF Skeleton
<1>2. \A e : e \in Range(layer) <=> \E i \in DOMAIN layer : e = layer[i]
  BY DEF Range
<1>3. \A p : (\E e \in own : e.path = p) => \E i \in OwnTop(layer, p) : chosen(p) = layer[i]
  <2> SUFFICES ASSUME NEW p, \E e \in own : e.path = p
               PROVE  \E i \in OwnTop(layer, p) : chosen(p) = layer[i]
    OBVIOUS
  <2>1. chosen(p) \in own /\ chosen(p).path = p
    OBVIOUS
  <2> HIDE DEF chosen
  <2> QED
    BY <1>2, <2>1 DEF OwnTop
<1>4. \A p : OwnTop(layer, p) # {} => \E e \in own : e.path = p
  BY <1>2 DEF OwnTop
<1>5. \A p \in kept : p \in DOMAIN lower /\ Len(p) = 1 /\ \A i \in DOMAIN layer :
                        /\ layer[i].path = p => layer[i].kind \notin {"whiteout", "hard"}
                        /\ layer[i].kind = "opaque" => layer[i].path # <<>>
  BY <1>2
<1>6. \A p \in DOMAIN lower : Len(p) = 1 /\ p \notin kept =>
                \E i \in DOMAIN layer :
                   \/ layer[i].path = p /\ layer[i].kind \in {"whiteout", "hard"}
                   \/ layer[i].path = <<>> /\ layer[i].kind = "opaque"
  BY <1>2
<1>7. \A p : p \in DOMAIN sk <=> (\E e \in own : e.path = p) \/ p \in kept
  <2> HIDE DEF own, kept, chosen, sk
  <2> QED
    BY <1>1
<1>8. \A p \in DOMAIN sk : sk[p] = IF \E e \in own : e.path = p THEN NodeOf(chosen(p)) ELSE lower[p]
  <2> HIDE DEF own, kept, chosen, sk
  <2> QED
    BY <1>1
<1> HIDE DEF own, kept, chosen, sk
<1>9. ASSUME NEW p \in DOMAIN sk
      PROVE  \/ \E i \in OwnTop(layer, p) : sk[p] = NodeOf(layer[i])
             \/ /\ p \in kept /\ OwnTop(layer, p) = {} /\ sk[p] = lower[p]
  <2>1. CASE \E e \in own : e.path = p
    BY <1>3, <1>8, <2>1
  <2>2. CASE ~\E e \in own : e.path = p
    BY <1>4, <1>7, <1>8, <2>2
  <2> QED
    BY <2>1, <2>2
<1>10. \A p : OwnTop(layer, p) # {} => p \in DOMAIN sk
  BY <1>4, <1>7
<1>11. \A p \in DOMAIN lower : Len(p) = 1 /\ p \notin DOMAIN sk =>
                \E i \in DOMAIN layer :
                   \/ layer[i].path = p /\ layer[i].kind \in {"whiteout", "hard"}
                   \/ layer[i].path = <<>> /\ layer[i].kind = "opaque"
  BY <1>6, <1>7
<1>12. \A p \in DOMAIN sk :
                \/ \E i \in OwnTop(layer, p) : sk[p] = NodeOf(layer[i])
                \/ /\ p \in DOMAIN lower /\ Len(p) = 1 /\ OwnTop(layer, p) = {}
                   /\ sk[p] = lower[p]
                   /\ \A i \in DOMAIN layer :
                        /\ layer[i].path = p => layer[i].kind \notin {"whiteout", "hard"}
                        /\ layer[i].kind = "opaque" => layer[i].path # <<>>
  BY <1>5, <1>9
<1> QED
  BY <1>10, <1>11, <1>12 DEF sk

\* The links of the skeleton lead to names at the top.
LEMMA SkeletonLinks ==
    ASSUME NEW lower, NEW layer, SmallTree(lower), \A i \in DOMAIN layer : SmallEntry(layer[i])
    PROVE  /\ LinksOK(Skeleton(lower, layer))
           /\ \A p \in DOMAIN Skeleton(lower, layer) : Len(p) = 1
<1> DEFINE sk == Skeleton(lower, layer)
<1>1. \A p \in DOMAIN sk :
         \/ \E i \in OwnTop(layer, p) : sk[p] = NodeOf(layer[i])
         \/ p \in DOMAIN lower /\ Len(p) = 1 /\ sk[p] = lower[p]
  BY SkeletonIs
<1> HIDE DEF sk
<1>2. \A p \in DOMAIN sk : Len(p) = 1
  BY <1>1 DEF OwnTop
<1>3. ASSUME NEW p \in DOMAIN sk, IsLink(sk, p) PROVE p # <<>> /\ IsTop(sk[p].to)
  <2>1. p # <<>>
    BY <1>2
  <2>2. ASSUME NEW i \in OwnTop(layer, p), sk[p] = NodeOf(layer[i]) PROVE IsTop(sk[p].to)
    <3>1. layer[i].kind \in Adds \ {"hard"} /\ SmallEntry(layer[i])
      BY DEF OwnTop
    <3>2. NodeOf(layer[i]).kind = "link"
      BY <1>3, <2>2 DEF IsLink
    <3>3. layer[i].kind = "link"
      BY <3>1, <3>2 DEF NodeOf, Adds, Dir
    <3> QED
      BY <2>2, <3>1, <3>3 DEF NodeOf, SmallEntry, EntryOK, TwoNames
  <2>3. CASE p \in DOMAIN lower /\ Len(p) = 1 /\ sk[p] = lower[p]
    BY <1>3, <2>3 DEF SmallTree, IsLink
  <2> QED
    BY <1>1, <2>1, <2>2, <2>3
<1>4. LinksOK(sk)
  BY <1>3 DEF LinksOK
<1> QED
  BY <1>2, <1>4 DEF sk

\* The path that an entry is about.
LEMMA Places ==
    ASSUME NEW lower, NEW layer, Sound(lower, layer), NEW i \in DOMAIN layer
    PROVE  /\ At(lower, layer, i) \in Path(2)
           /\ At(lower, layer, i) = <<>> <=> layer[i].path = <<>>
           /\ layer[i].kind # "opaque" /\ (layer[i].path \in Path(1) \/ At(lower, layer, i) \in Path(1))
                => At(lower, layer, i) = layer[i].path
           /\ layer[i].kind = "whiteout" => layer[i].path # <<>>
           /\ layer[i].kind = "opaque" => At(lower, layer, i) \in Path(1)
           /\ layer[i].kind = "hard" => Source(lower, layer, layer[i]) \in Path(2)
<1> DEFINE sk == Skeleton(lower, layer)
           e == layer[i]
<1>1. LinksOK(sk) /\ SmallEntry(e)
  BY SkeletonLinks DEF Sound
<1>2. CASE e.kind = "opaque"
  <2>1. e.path \in Path(1) /\ At(lower, layer, i) = Follow(sk, e.path)
    BY <1>1, <1>2 DEF SmallEntry, EntryOK, TwoNames, At, Where
  <2>2. \A p \in Path(1) : p \in Path(2)
    BY DEF Path
  <2> HIDE DEF sk
  <2> QED
    BY <1>1, <1>2, <2>1, <2>2, FollowIsPath
<1>3. CASE e.kind # "opaque"
  <2>1. e.path \in Path(2) /\ At(lower, layer, i) = joinInside(sk, e.path)
    BY <1>1, <1>3 DEF SmallEntry, EntryOK, TwoNames, At, Where
  <2>2. e.kind = "hard" => e.to \in Path(2) /\ Source(lower, layer, e) = joinInside(sk, e.to)
    BY <1>1 DEF SmallEntry, EntryOK, TwoNames, Source
  <2>3. e.kind = "whiteout" => e.path # <<>>
    BY <1>1 DEF SmallEntry, EntryOK, TwoNames
  <2> HIDE DEF sk
  <2> QED
    BY <1>1, <1>3, <2>1, <2>2, <2>3, JoinIsPath
<1> QED
  BY <1>2, <1>3

\* The order that a well-formed layer keeps.
LEMMA Order ==
    ASSUME NEW lower, NEW layer, Sound(lower, layer), NEW i \in DOMAIN layer, NEW j \in DOMAIN layer
    PROVE  /\ i < j => ~IsStrictPrefix(At(lower, layer, j), At(lower, layer, i))
           /\ i < j /\ layer[i].kind # "opaque" /\ layer[j].kind # "opaque"
                => At(lower, layer, i) # At(lower, layer, j)
           /\ i < j /\ layer[i].kind = "hard"
                => At(lower, layer, j) # Source(lower, layer, layer[i])
           /\ i <= j /\ At(lower, layer, j) \in Passed(lower, layer, layer[i])
                => /\ layer[i].kind = "opaque" /\ At(lower, layer, j) = At(lower, layer, i)
                   /\ layer[j].kind \in {"opaque", "dir"}
BY DEF Sound, WellFormed, At

\* What its entries may rely on.
LEMMA Grounded ==
    ASSUME NEW lower, NEW layer, Sound(lower, layer), NEW i \in DOMAIN layer
    PROVE  LET upper == Upper(lower, layer)
               result == Overlay(lower, layer)
               at == At(lower, layer, i)
               source == Source(lower, layer, layer[i])
           IN  /\ \A p \in Followed(layer[i]) : ~Looping(Skeleton(lower, layer), p)
               /\ layer[i].kind = "opaque" => IsDirOrNone(lower, at) /\ IsDirOrNone(result, at)
               /\ layer[i].kind = "whiteout" => IsDirOrNone(lower, Front(at))
               /\ layer[i].kind # "opaque" => IsDirOrNone(result, Front(at))
               /\ layer[i].kind = "hard" => source \in DOMAIN upper
                                            /\ upper[source].kind \notin {"dir", "link"}
BY DEF Sound, WellFormed, At

\* The entries that are in the tree as they are, and those that are hard links.
Owns(layer) == {i \in DOMAIN layer : layer[i].kind \in Adds \ {"hard"}}
Hards(layer) == {i \in DOMAIN layer : layer[i].kind = "hard"}

\* Two entries that add something add it at different paths.
LEMMA Apart ==
    ASSUME NEW lower, NEW layer, Sound(lower, layer),
           NEW i \in Owns(layer) \cup Hards(layer), NEW j \in Owns(layer) \cup Hards(layer),
           At(lower, layer, i) = At(lower, layer, j)
    PROVE  i = j
<1>1. i \in DOMAIN layer /\ j \in DOMAIN layer /\ layer[i].kind # "opaque" /\ layer[j].kind # "opaque"
  BY DEF Owns, Hards, Adds
<1>2. i \in Nat /\ j \in Nat
  BY <1>1 DEF Sound, IsList
<1>3. i < j \/ j < i \/ i = j
  BY <1>2
<1> QED
  BY <1>1, <1>3, Order

\* The tree below the hard links of a layer, and the tree with them.
UpperMeans(lower, layer, upper) ==
    /\ DOMAIN upper =
         {At(lower, layer, i) : i \in Owns(layer)} \cup Kept(lower, layer)
         \cup {Front(At(lower, layer, i)) :
                 i \in {j \in DOMAIN layer : layer[j].kind \notin {"whiteout", "opaque"}}}
    /\ \A i \in Owns(layer) : upper[At(lower, layer, i)] = NodeOf(layer[i])
    /\ \A p \in DOMAIN upper :
         (\A i \in Owns(layer) : p # At(lower, layer, i)) =>
           upper[p] = IF p \in Kept(lower, layer) THEN lower[p] ELSE Dir("rw")

OverlayMeans(lower, layer, upper, result) ==
    /\ DOMAIN result = DOMAIN upper \cup {At(lower, layer, i) : i \in Hards(layer)}
    /\ \A i \in Hards(layer) :
         result[At(lower, layer, i)] = upper[Source(lower, layer, layer[i])]
    /\ \A p \in DOMAIN upper :
         (\A i \in Hards(layer) : p # At(lower, layer, i)) => result[p] = upper[p]

\* What the layer means without its hard links, one path at a time.
LEMMA UpperIs ==
    ASSUME NEW lower, NEW layer, Sound(lower, layer)
    PROVE  UpperMeans(lower, layer, Upper(lower, layer))
<1> DEFINE own == {e \in Range(layer) : e.kind \in Adds \ {"hard"}}
           at(e) == Where(lower, layer, e)
           opened == {Front(at(e)) : e \in {f \in Range(layer) : f.kind \notin {"whiteout", "opaque"}}}
           chosen(p) == CHOOSE e \in own : at(e) = p
           upper == Upper(lower, layer)
<1>1. upper = [p \in {at(e) : e \in own} \cup Kept(lower, layer) \cup opened |->
                 IF \E e \in own : at(e) = p THEN NodeOf(chosen(p))
                 ELSE IF p \in Kept(lower, layer) THEN lower[p] ELSE Dir("rw")]
  BY DEF Upper
<1>2. \A e : e \in own <=> \E i \in Owns(layer) : e = layer[i]
  BY DEF Range, Owns
<1>3. {at(e) : e \in own} = {At(lower, layer, i) : i \in Owns(layer)}
  BY DEF Range, Owns, At
<1>4. opened = {Front(At(lower, layer, i)) :
                        i \in {j \in DOMAIN layer : layer[j].kind \notin {"whiteout", "opaque"}}}
  BY DEF Range, At
<1>5. ASSUME NEW i \in Owns(layer) PROVE chosen(At(lower, layer, i)) = layer[i]
  <2> DEFINE p == At(lower, layer, i)
  <2>1. layer[i] \in own /\ at(layer[i]) = p
    BY <1>2 DEF At
  <2>2. chosen(p) \in own /\ at(chosen(p)) = p
    BY <2>1
  <2> HIDE DEF chosen
  <2>3. PICK j \in Owns(layer) : chosen(p) = layer[j]
    BY <1>2, <2>2
  <2>4. At(lower, layer, j) = p
    BY <2>2, <2>3 DEF At
  <2>5. j = i
    BY <2>4, Apart
  <2> QED
    BY <2>3, <2>5
<1>6. \A p : (\E e \in own : at(e) = p) <=> \E i \in Owns(layer) : p = At(lower, layer, i)
  BY <1>2 DEF At
<1> HIDE DEF own, opened, chosen, upper
<1>7. \A i \in Owns(layer) : upper[At(lower, layer, i)] = NodeOf(layer[i])
  BY <1>1, <1>3, <1>5, <1>6
<1>8. \A p \in DOMAIN upper :
         (\A i \in Owns(layer) : p # At(lower, layer, i)) =>
           upper[p] = IF p \in Kept(lower, layer) THEN lower[p] ELSE Dir("rw")
  BY <1>1, <1>6
<1> QED
  BY <1>1, <1>3, <1>4, <1>7, <1>8 DEF upper, UpperMeans

\* What it means with them.
LEMMA OverlayIs ==
    ASSUME NEW lower, NEW layer, Sound(lower, layer)
    PROVE  OverlayMeans(lower, layer, Upper(lower, layer), Overlay(lower, layer))
<1> DEFINE upper == Upper(lower, layer)
           at(e) == Where(lower, layer, e)
           source(e) == Source(lower, layer, e)
           hard == {e \in Range(layer) : e.kind = "hard" /\ source(e) \in DOMAIN upper}
           chosen(p) == CHOOSE e \in hard : at(e) = p
           result == Overlay(lower, layer)
<1>1. result = [p \in DOMAIN upper \cup {at(e) : e \in hard} |->
                  IF \E e \in hard : at(e) = p THEN upper[source(chosen(p))] ELSE upper[p]]
  BY DEF Overlay
<1> HIDE DEF upper
<1>2. \A i \in Hards(layer) : source(layer[i]) \in DOMAIN upper
  BY Grounded DEF Hards, upper
<1>3. \A e : e \in hard <=> \E i \in Hards(layer) : e = layer[i]
  BY <1>2 DEF Range, Hards
<1>4. {at(e) : e \in hard} = {At(lower, layer, i) : i \in Hards(layer)}
  BY <1>3 DEF At
<1>5. ASSUME NEW i \in Hards(layer) PROVE chosen(At(lower, layer, i)) = layer[i]
  <2> DEFINE p == At(lower, layer, i)
  <2>1. layer[i] \in hard /\ at(layer[i]) = p
    BY <1>3 DEF At
  <2>2. chosen(p) \in hard /\ at(chosen(p)) = p
    BY <2>1
  <2> HIDE DEF chosen
  <2>3. PICK j \in Hards(layer) : chosen(p) = layer[j]
    BY <1>3, <2>2
  <2>4. At(lower, layer, j) = p
    BY <2>2, <2>3 DEF At
  <2>5. j = i
    BY <2>4, Apart
  <2> QED
    BY <2>3, <2>5
<1>6. \A p : (\E e \in hard : at(e) = p) <=> \E i \in Hards(layer) : p = At(lower, layer, i)
  BY <1>3 DEF At
<1> HIDE DEF hard, chosen, result
<1>7. \A i \in Hards(layer) : result[At(lower, layer, i)] = upper[source(layer[i])]
  BY <1>1, <1>4, <1>5, <1>6
<1>8. \A p \in DOMAIN upper : (\A i \in Hards(layer) : p # At(lower, layer, i)) => result[p] = upper[p]
  BY <1>1, <1>6
<1> QED
  BY <1>1, <1>4, <1>7, <1>8 DEF upper, result, OverlayMeans

-----------------------------------------------------------------------------
(* How far a layer is unpacked                                             *)

\* The number of entries that have been unpacked.
Reached(layer, n) == n \in Nat /\ n <= Len(layer)

\* The next entry is one of the layer.
LEMMA Entry ==
    ASSUME NEW lower, NEW layer, Sound(lower, layer), NEW n, Reached(layer, n)
    PROVE  /\ \A i \in 1..n : i \in DOMAIN layer /\ i < n + 1 /\ i \in 1..(n + 1)
           /\ n # Len(layer) => n + 1 \in DOMAIN layer /\ Reached(layer, n + 1)
           /\ \A i \in DOMAIN layer : i \in 1..n \/ n + 1 <= i
           /\ \A i \in DOMAIN layer : n + 1 <= i => i = n + 1 \/ n + 1 < i
           /\ \A i \in 1..(n + 1) : i \in 1..n \/ i = n + 1
           /\ DOMAIN layer = 1..Len(layer) /\ Len(layer) \in Nat
<1> DEFINE all == Len(layer)
<1>1. DOMAIN layer = 1..all /\ all \in Nat /\ n \in Nat /\ n <= all
  BY DEF Sound, IsList, Reached
<1>2. Reached(layer, n + 1) <=> n + 1 \in Nat /\ n + 1 <= all
  BY DEF Reached
<1> HIDE DEF all
<1>3. /\ \A i \in 1..n : i \in DOMAIN layer /\ i < n + 1 /\ i \in 1..(n + 1)
      /\ n # all => n + 1 \in DOMAIN layer /\ Reached(layer, n + 1)
      /\ \A i \in DOMAIN layer : i \in 1..n \/ n + 1 <= i
      /\ \A i \in DOMAIN layer : n + 1 <= i => i = n + 1 \/ n + 1 < i
      /\ \A i \in 1..(n + 1) : i \in 1..n \/ i = n + 1
      /\ DOMAIN layer = 1..all /\ all \in Nat
  BY <1>1, <1>2
<1> QED
  BY <1>3 DEF all

\* The nodes of these entries are no directories.
LEMMA NotDirs ==
    ASSUME NEW e, e.kind \in {"file", "link", "fifo"}
    PROVE  NodeOf(e).kind = e.kind
BY DEF NodeOf

\* What the entries of a layer are in the end.
LEMMA ResultIs ==
    ASSUME NEW lower, NEW layer, Sound(lower, layer)
    PROVE  /\ \A i \in Owns(layer) :
                /\ At(lower, layer, i) \in DOMAIN Overlay(lower, layer)
                /\ Overlay(lower, layer)[At(lower, layer, i)] = NodeOf(layer[i])
           /\ \A i \in Hards(layer) :
                /\ At(lower, layer, i) \in DOMAIN Overlay(lower, layer)
                /\ ~IsDir(Overlay(lower, layer), At(lower, layer, i))
                /\ Upper(lower, layer)[Source(lower, layer, layer[i])].kind \notin {"dir", "link"}
<1> DEFINE upper == Upper(lower, layer)
           result == Overlay(lower, layer)
<1>0. UpperMeans(lower, layer, upper) /\ OverlayMeans(lower, layer, upper, result)
  BY UpperIs, OverlayIs
<1>3. \A i \in Hards(layer) : upper[Source(lower, layer, layer[i])].kind \notin {"dir", "link"}
  BY Grounded DEF Hards
<1> HIDE DEF upper, result
<1>1. ASSUME NEW i \in Owns(layer)
      PROVE  At(lower, layer, i) \in DOMAIN result /\ result[At(lower, layer, i)] = NodeOf(layer[i])
  <2>1. \A j \in Hards(layer) : At(lower, layer, i) # At(lower, layer, j)
    BY Apart DEF Owns, Hards
  <2>2. At(lower, layer, i) \in DOMAIN upper
    BY <1>0 DEF UpperMeans
  <2> QED
    BY <1>0, <2>1, <2>2 DEF UpperMeans, OverlayMeans
<1>2. ASSUME NEW i \in Hards(layer)
      PROVE  At(lower, layer, i) \in DOMAIN result /\ ~IsDir(result, At(lower, layer, i))
  BY <1>0, <1>3 DEF OverlayMeans, IsDir
<1> QED
  BY <1>3, <1>1, <1>2 DEF upper, result

\* Only a directory is at the root.
LEMMA RootIsDir ==
    ASSUME NEW lower, NEW layer, Sound(lower, layer), NEW i \in DOMAIN layer,
           layer[i].kind \in {"file", "link", "fifo", "hard"}
    PROVE  /\ At(lower, layer, i) # <<>>
           /\ At(lower, layer, i) \in DOMAIN Overlay(lower, layer)
           /\ ~IsDir(Overlay(lower, layer), At(lower, layer, i))
<1> DEFINE p == At(lower, layer, i)
           result == Overlay(lower, layer)
<1>1. p \in DOMAIN result /\ ~IsDir(result, p)
  <2>1. CASE layer[i].kind = "hard"
    BY <2>1, ResultIs DEF Hards
  <2>2. CASE layer[i].kind # "hard"
    <3>1. i \in Owns(layer) /\ NodeOf(layer[i]).kind # "dir"
      BY <2>2, NotDirs DEF Owns, Adds
    <3> QED
      BY <3>1, ResultIs DEF IsDir
  <2> QED
    BY <2>1, <2>2
<1>2. IsDirOrNone(result, Front(p))
  BY Grounded
<1> HIDE DEF p, result
<1>3. p # <<>>
  <2> SUFFICES ASSUME p = <<>> PROVE FALSE
    OBVIOUS
  <2>0. <<>> \in Path(2)
    BY DEF Path
  <2>1. Front(p) = p
    BY <2>0, Parent
  <2> QED
    BY <1>1, <1>2, <2>1 DEF IsDirOrNone
<1> QED
  BY <1>1, <1>3 DEF p, result

\* Where the nodes of the tree come from.
LEMMA StageNode ==
    ASSUME NEW lower, NEW layer, NEW n, NEW t, Sound(lower, layer), Reached(layer, n),
           Stage(lower, layer, n, t), NEW q \in DOMAIN t
    PROVE  \/ \E i \in 1..n : i \in Owns(layer) /\ q = At(lower, layer, i)
                              /\ ((layer[i].kind = "dir" /\ IsDir(t, q)) \/ t[q] = NodeOf(layer[i]))
           \/ \E i \in 1..n : i \in Hards(layer) /\ q = At(lower, layer, i)
                              /\ t[q] = Upper(lower, layer)[Source(lower, layer, layer[i])]
           \/ q \in Staying(lower, layer, n) /\ t[q] = lower[q] /\ q \notin Added(lower, layer, n)
           \/ q \in Opened(lower, layer, n) /\ t[q] = Dir("rw") /\ q \notin Staying(lower, layer, n)
              /\ q \notin Added(lower, layer, n)
<1>1. CASE q \in Added(lower, layer, n)
  <2>1. PICK i \in 1..n : layer[i].kind \in Adds /\ q = At(lower, layer, i)
    BY <1>1 DEF Added
  <2>2. i \in DOMAIN layer
    BY Entry
  <2>3. CASE layer[i].kind = "hard"
    BY <2>1, <2>2, <2>3 DEF Stage, Hards
  <2>4. CASE layer[i].kind = "dir"
    BY <2>1, <2>2, <2>4 DEF Stage, Owns
  <2>5. CASE layer[i].kind \in {"file", "link", "fifo"}
    BY <2>1, <2>2, <2>5 DEF Stage, Owns
  <2> QED
    BY <2>1, <2>3, <2>4, <2>5 DEF Adds
<1>2. CASE q \notin Added(lower, layer, n)
  BY <1>2 DEF Stage
<1> QED
  BY <1>1, <1>2
\* An entry makes a node of its own kind.
LEMMA NodeKinds ==
    ASSUME NEW e, e.kind \in Adds \ {"hard"}
    PROVE  NodeOf(e).kind = e.kind /\ (e.kind = "link" => NodeOf(e).to = e.to)
BY DEF NodeOf, Adds, Dir

\* A name that an entry is resolved by.
LEMMA PassedIsTop ==
    ASSUME NEW lower, NEW layer, Sound(lower, layer), NEW i \in DOMAIN layer,
           NEW q \in Passed(lower, layer, layer[i])
    PROVE  q \in Path(1) /\ (q # <<>> => Len(q) = 1 /\ At(lower, layer, i) # <<>>)
<1> DEFINE sk == Skeleton(lower, layer)
           e == layer[i]
<1>1. LinksOK(sk) /\ SmallEntry(e)
  BY SkeletonLinks DEF Sound
<1>2. PICK p \in Followed(e) : q \in Trail(sk, p)
  BY DEF Passed
<1>3. /\ e.path \in Path(2) /\ (e.kind = "hard" => e.to \in Path(2))
      /\ e.kind = "opaque" => e.path \in Path(1)
  BY <1>1 DEF SmallEntry, EntryOK, TwoNames, Path
<1>4. /\ p \in Path(1)
      /\ \/ p = e.path /\ e.kind = "opaque"
         \/ p = Front(e.path)
         \/ e.kind = "hard"
  BY <1>2, <1>3, Parent DEF Followed
<1>5. q \in Path(1) /\ (q = <<>> <=> p = <<>>)
  <2> HIDE DEF sk
  <2> QED
    BY <1>1, <1>2, <1>4, SmallHops DEF Trail
<1>6. ASSUME q # <<>> PROVE Len(q) = 1
  <2>1. q \in Seq(STRING) /\ Len(q) \in Nat /\ Len(q) <= 1 /\ Len(q) # 0
    BY <1>5, <1>6, EmptySeq DEF Path
  <2> DEFINE m == Len(q)
  <2>2. m \in Nat /\ m <= 1 /\ m # 0
    BY <2>1
  <2> HIDE DEF m
  <2>3. m = 1
    BY <2>2
  <2> QED
    BY <2>3 DEF m
<1>7. ASSUME q # <<>> PROVE At(lower, layer, i) # <<>>
  <2>1. e.kind = "hard" => At(lower, layer, i) # <<>>
    BY RootIsDir
  <2>2. e.path = <<>> => Front(e.path) = <<>>
    BY <1>3, Parent
  <2> QED
    BY <1>4, <1>5, <1>7, <2>1, <2>2, Places
<1> QED
  BY <1>5, <1>6, <1>7

\* Whatever links an entry is resolved by, they are in the tree by then as they
\* will be in the end.
LEMMA LinksAreThere ==
    ASSUME NEW lower, NEW layer, NEW n, NEW t, Sound(lower, layer), Reached(layer, n),
           n # Len(layer), SmallTree(t), Stage(lower, layer, n, t),
           NEW q \in Passed(lower, layer, layer[n + 1])
    PROVE  /\ IsLink(t, q) <=> IsLink(Skeleton(lower, layer), q)
           /\ IsLink(Skeleton(lower, layer), q) => t[q].to = Skeleton(lower, layer)[q].to
<1> DEFINE sk == Skeleton(lower, layer)
           at(i) == At(lower, layer, i)
           e == layer[n + 1]
<1>1. n + 1 \in DOMAIN layer /\ \A i \in 1..n : i \in DOMAIN layer
  BY Entry
<1>2. q \in Path(1) /\ (q # <<>> => Len(q) = 1 /\ at(n + 1) # <<>>)
  BY <1>1, PassedIsTop
<1>3. CASE q = <<>>
  <2>1. q \notin DOMAIN sk
    BY <1>3, SkeletonLinks DEF Sound
  <2>2. ~IsLink(t, q)
    BY <1>3, SmallIs DEF IsDir, IsLink
  <2> QED
    BY <2>1, <2>2 DEF IsLink
<1>4. CASE q # <<>>
  <2>1. ASSUME NEW j \in DOMAIN layer, at(j) = q
        PROVE  \/ j \in 1..n
               \/ e.kind = "opaque" /\ q = at(n + 1) /\ layer[j].kind \in {"opaque", "dir"}
    BY <1>1, <2>1, Entry, Order
  <2>2. ASSUME NEW j \in DOMAIN layer, layer[j].kind # "opaque"
        PROVE  at(j) = q <=> layer[j].path = q
    BY <1>2, <2>2, Places
  <2>3. \A j \in DOMAIN layer : layer[j].path = <<>> => at(j) = <<>>
    BY Places
  <2>4. ASSUME NEW j \in DOMAIN layer, at(j) = <<>> PROVE j \in 1..n
    <3>1. at(n + 1) \in Path(2) /\ <<>> \in Path(2)
      BY <1>1, Places DEF Path
    <3>2. IsStrictPrefix(at(j), at(n + 1))
      BY <1>2, <1>4, <2>4, <3>1, AboveTwo
    <3> QED
      BY <1>1, <1>2, <1>4, <2>4, <3>2, Entry, Order
  <2>5. CASE q \in DOMAIN sk /\ \E i \in OwnTop(layer, q) : sk[q] = NodeOf(layer[i])
    <3>1. PICK i \in OwnTop(layer, q) : sk[q] = NodeOf(layer[i])
      BY <2>5
    <3>2. i \in Owns(layer) /\ i \in DOMAIN layer /\ layer[i].kind \in Adds \ {"hard"}
      BY DEF OwnTop, Owns
    <3>3. at(i) = q /\ layer[i].kind # "opaque"
      BY <2>2, <3>2 DEF OwnTop, Adds
    <3>4. sk[q].kind = layer[i].kind
      BY <3>1, <3>2, NodeKinds
    <3>5. CASE i \in 1..n
      <4>1. q \in DOMAIN t
        BY <3>2, <3>3, <3>5 DEF Stage, Added
      <4>2. CASE layer[i].kind = "dir"
        <5>1. IsDir(t, q)
          BY <3>3, <3>5, <4>2 DEF Stage
        <5> QED
          BY <3>4, <4>2, <5>1 DEF IsDir, IsLink
      <4>3. CASE layer[i].kind # "dir"
        <5>1. t[q] = sk[q]
          BY <3>1, <3>2, <3>3, <3>5, <4>3 DEF Stage, Adds
        <5> QED
          BY <2>5, <4>1, <5>1 DEF IsLink
      <4> QED
        BY <4>2, <4>3
    <3>6. CASE i \notin 1..n
      <4>1. e.kind = "opaque" /\ q = at(n + 1) /\ layer[i].kind = "dir"
        BY <2>1, <3>2, <3>3, <3>6
      <4>2. IsDirOrNone(lower, q)
        BY <1>1, <4>1, Grounded
      <4>3. ASSUME q \in DOMAIN t PROVE t[q].kind = "dir"
        <5>1. \A j \in Owns(layer) \cup Hards(layer) : at(j) = q => j = i
          BY <3>2, <3>3, Apart
        <5>2. CASE q \in Staying(lower, layer, n) /\ t[q] = lower[q]
          BY <4>2, <5>2 DEF Staying, IsDirOrNone, IsDir
        <5>3. CASE t[q] = Dir("rw")
          BY <5>3 DEF Dir
        <5> QED
          BY <3>6, <4>3, <5>1, <5>2, <5>3, StageNode
      <4> QED
        BY <3>4, <4>1, <4>3 DEF IsLink
    <3> QED
      BY <3>5, <3>6
  <2>6. CASE /\ q \in DOMAIN sk /\ q \in DOMAIN lower /\ OwnTop(layer, q) = {}
             /\ sk[q] = lower[q]
             /\ \A i \in DOMAIN layer :
                  /\ layer[i].path = q => layer[i].kind \notin {"whiteout", "hard"}
                  /\ layer[i].kind = "opaque" => layer[i].path # <<>>
    <3>1. ASSUME NEW j \in DOMAIN layer, layer[j].kind \in Adds \cup {"whiteout"}
          PROVE  at(j) # q
      BY <1>2, <1>4, <2>2, <2>6, <3>1 DEF OwnTop, Adds
    <3>2. ASSUME NEW j \in DOMAIN layer PROVE ~Hides(lower, layer, layer[j], q)
      <4>1. at(j) \in Path(2) /\ q \in Path(2) /\ Front(q) = <<>>
        BY <1>2, Places, Parent DEF Path
      <4>2. at(j) = <<>> => layer[j].kind \notin {"opaque", "whiteout", "file", "link", "fifo", "hard"}
        BY <2>6, Places, RootIsDir
      <4>3. IsPrefix(at(j), q) => at(j) = q \/ at(j) = <<>>
        BY <4>1, AboveTwo
      <4>4. IsStrictPrefix(at(j), q) => at(j) = <<>>
        BY <4>1, AboveTwo
      <4> QED
        BY <3>1, <4>2, <4>3, <4>4 DEF Hides, At, Adds
    <3>3. q \in Staying(lower, layer, n) /\ q \notin Added(lower, layer, n)
      BY <1>1, <2>6, <3>1, <3>2 DEF Staying, Added
    <3>4. q \in DOMAIN t /\ t[q] = sk[q]
      BY <2>6, <3>3 DEF Stage
    <3> QED
      BY <2>6, <3>4 DEF IsLink
  <2>7. CASE q \notin DOMAIN sk
    <3>1. OwnTop(layer, q) = {}
      BY <2>7, SkeletonIs
    <3>2. \A j \in Owns(layer) : at(j) # q
      BY <1>2, <1>4, <2>2, <3>1 DEF OwnTop, Owns, Adds
    <3>3. q \notin Staying(lower, layer, n)
      <4> SUFFICES ASSUME q \in Staying(lower, layer, n) PROVE FALSE
        OBVIOUS
      <4>1. q \in DOMAIN lower /\ \A j \in 1..n : ~Hides(lower, layer, layer[j], q)
        BY DEF Staying
      <4>2. PICK j \in DOMAIN layer :
                 \/ layer[j].path = q /\ layer[j].kind \in {"whiteout", "hard"}
                 \/ layer[j].path = <<>> /\ layer[j].kind = "opaque"
        BY <1>2, <1>4, <2>7, <4>1, SkeletonIs
      <4>3. j \in 1..n
        BY <2>1, <2>2, <2>3, <2>4, <4>2
      <4>4. q \in Path(2) /\ at(j) \in Path(2)
        BY <1>2, Places DEF Path
      <4>5. CASE layer[j].path = q /\ layer[j].kind \in {"whiteout", "hard"}
        <5>1. at(j) = q /\ IsPrefix(at(j), q)
          BY <2>2, <4>4, <4>5, AboveTwo
        <5> QED
          BY <4>1, <4>3, <4>5, <5>1 DEF Hides, At
      <4>6. CASE layer[j].path = <<>> /\ layer[j].kind = "opaque"
        <5>1. at(j) = <<>> /\ IsStrictPrefix(at(j), q)
          BY <1>4, <2>3, <4>4, <4>6, AboveTwo
        <5> QED
          BY <4>1, <4>3, <4>6, <5>1 DEF Hides, At
      <4> QED
        BY <4>2, <4>5, <4>6
    <3>4. ASSUME q \in DOMAIN t PROVE t[q].kind # "link"
      <4>1. \A i \in Hards(layer) : Upper(lower, layer)[Source(lower, layer, layer[i])].kind # "link"
        BY ResultIs
      <4>2. Dir("rw").kind = "dir"
        BY DEF Dir
      <4> QED
        BY <3>2, <3>3, <3>4, <4>1, <4>2, StageNode
    <3> QED
      BY <2>7, <3>4 DEF IsLink
  <2>8. \/ q \notin DOMAIN sk
        \/ \E i \in OwnTop(layer, q) : sk[q] = NodeOf(layer[i])
        \/ /\ q \in DOMAIN lower /\ OwnTop(layer, q) = {}
           /\ sk[q] = lower[q]
           /\ \A i \in DOMAIN layer :
                /\ layer[i].path = q => layer[i].kind \notin {"whiteout", "hard"}
                /\ layer[i].kind = "opaque" => layer[i].path # <<>>
    BY SkeletonIs
  <2> QED
    BY <2>5, <2>6, <2>7, <2>8
<1> QED
  BY <1>3, <1>4

\* An entry is resolved in a tree as it is in the end.
SameLinks(lower, layer, e, t) ==
    \A q \in Passed(lower, layer, e) :
      /\ IsLink(t, q) <=> IsLink(Skeleton(lower, layer), q)
      /\ IsLink(Skeleton(lower, layer), q) => t[q].to = Skeleton(lower, layer)[q].to

\* Then the entry is where the layer says.
LEMMA Resolved ==
    ASSUME NEW lower, NEW layer, NEW t, SmallTree(t), Sound(lower, layer), NEW i \in DOMAIN layer,
           SameLinks(lower, layer, layer[i], t)
    PROVE  /\ layer[i].kind = "opaque" =>
                Follow(t, layer[i].path) = At(lower, layer, i) /\ ~Looping(t, layer[i].path)
           /\ layer[i].kind # "opaque" =>
                /\ joinInside(t, layer[i].path) = At(lower, layer, i)
                /\ ~Looping(t, Front(layer[i].path))
           /\ layer[i].kind = "hard" =>
                /\ joinInside(t, layer[i].to) = Source(lower, layer, layer[i])
                /\ ~Looping(t, Front(layer[i].to))
<1> DEFINE sk == Skeleton(lower, layer)
           e == layer[i]
<1>0. LinksOK(sk) /\ LinksOK(t) /\ SmallEntry(e)
  BY SkeletonLinks, SmallIs DEF Sound
<1>1. ASSUME NEW p \in Followed(e) PROVE Follow(t, p) = Follow(sk, p) /\ ~Looping(t, p)
  <2>0. p \in Path(1)
    <3>1. /\ e.kind = "opaque" => e.path \in Path(1)
          /\ e.kind # "opaque" => e.path \in Path(2)
          /\ e.kind = "hard" => e.to \in Path(2)
      BY <1>0 DEF SmallEntry, TwoNames
    <3> QED
      BY <3>1, Parent DEF Followed
  <2>1. \A q \in Trail(sk, p) : q \in Passed(lower, layer, e)
    BY DEF Passed
  <2>2. Follow(t, p) = Follow(sk, p)
    <3> HIDE DEF sk
    <3>1. \A q \in Trail(sk, p) : /\ IsLink(t, q) <=> IsLink(sk, q)
                                  /\ IsLink(sk, q) => t[q].to = sk[q].to
      BY <2>1 DEF SameLinks, sk
    <3> QED
      BY <1>0, <2>0, <3>1, SameHops
  <2>3. Follow(sk, p) \in Trail(sk, p)
    BY MaxLinksOK DEF Follow, Trail
  <2>4. IsLink(t, Follow(sk, p)) <=> IsLink(sk, Follow(sk, p))
    BY <2>1, <2>3 DEF SameLinks
  <2>5. ~Looping(sk, p)
    BY Grounded
  <2> QED
    BY <1>0, <2>0, <2>2, <2>4, <2>5, FollowIsPath
<1>2. CASE e.kind = "opaque"
  BY <1>1, <1>2 DEF Followed, At, Where
<1>3. CASE e.kind # "opaque"
  <2>1. Front(e.path) \in Followed(e) /\ (e.kind = "hard" => Front(e.to) \in Followed(e))
    BY <1>3 DEF Followed
  <2> QED
    BY <1>1, <1>3, <2>1 DEF At, Where, Source, joinInside
<1> QED
  BY <1>2, <1>3

\* A new directory changes no link.
LEMMA MkdirKeepsLinks ==
    ASSUME NEW t, SmallTree(t), NEW p \in Path(1), NEW u \in MkdirAll(t, p), NEW q
    PROVE  /\ IsLink(u, q) <=> IsLink(t, q)
           /\ IsLink(t, q) => u[q].to = t[q].to
<1>1. Opened1(u, t, p)
  BY SmallMkdir
<1> QED
  BY <1>1 DEF Opened1, IsLink, Dir

-----------------------------------------------------------------------------
(* The next entry                                                          *)

\* What one more entry changes.
NextSets(lower, layer, n) ==
    /\ Staying(lower, layer, n + 1) =
         {q \in Staying(lower, layer, n) : ~Hides(lower, layer, layer[n + 1], q)}
    /\ Added(lower, layer, n + 1) =
         Added(lower, layer, n)
         \cup (IF layer[n + 1].kind \in Adds THEN {At(lower, layer, n + 1)} ELSE {})
    /\ Opened(lower, layer, n + 1) =
         Opened(lower, layer, n)
         \cup (IF layer[n + 1].kind \notin {"whiteout", "opaque"}
               THEN {Front(At(lower, layer, n + 1))} ELSE {})

\* The sets grow by what the next entry adds, and lose what it hides.
LEMMA NextSetsAre ==
    ASSUME NEW lower, NEW layer, NEW n, Reached(layer, n)
    PROVE  NextSets(lower, layer, n)
<1>1. \A i : i \in 1..(n + 1) <=> i \in 1..n \/ i = n + 1
  BY DEF Reached
<1>2. Staying(lower, layer, n + 1) =
        {q \in Staying(lower, layer, n) : ~Hides(lower, layer, layer[n + 1], q)}
  BY <1>1 DEF Staying
<1>3. Added(lower, layer, n + 1) =
        Added(lower, layer, n)
        \cup (IF layer[n + 1].kind \in Adds THEN {At(lower, layer, n + 1)} ELSE {})
  BY <1>1 DEF Added
<1>4. Opened(lower, layer, n + 1) =
        Opened(lower, layer, n)
        \cup (IF layer[n + 1].kind \notin {"whiteout", "opaque"}
              THEN {Front(At(lower, layer, n + 1))} ELSE {})
  BY <1>1 DEF Opened
<1> QED
  BY <1>2, <1>3, <1>4 DEF NextSets

\* What the entries before it have made does not lie below an entry.
LEMMA NotBelow ==
    ASSUME NEW lower, NEW layer, NEW n, Sound(lower, layer), Reached(layer, n), n # Len(layer)
    PROVE  LET p == At(lower, layer, n + 1) IN
           /\ \A q \in Added(lower, layer, n) :
                /\ q \in Path(2) /\ ~IsStrictPrefix(p, q)
                /\ layer[n + 1].kind # "opaque" => ~IsPrefix(p, q)
           /\ \A q \in Opened(lower, layer, n) :
                /\ q \in Path(2) /\ ~IsStrictPrefix(p, q)
                /\ p # <<>> => ~IsPrefix(p, q)
<1> DEFINE p == At(lower, layer, n + 1)
<1>1. p \in Path(2) /\ n + 1 \in DOMAIN layer
  BY Entry, Places
<1>2. ASSUME NEW i \in 1..n
      PROVE  /\ i \in DOMAIN layer /\ At(lower, layer, i) \in Path(2)
             /\ ~IsStrictPrefix(p, At(lower, layer, i))
             /\ layer[i].kind # "opaque" /\ layer[n + 1].kind # "opaque" => At(lower, layer, i) # p
  BY <1>1, Entry, Order, Places
<1>3. ASSUME NEW q \in Added(lower, layer, n)
      PROVE  /\ q \in Path(2) /\ ~IsStrictPrefix(p, q)
             /\ layer[n + 1].kind # "opaque" => ~IsPrefix(p, q)
  <2>1. PICK i \in 1..n : layer[i].kind # "opaque" /\ q = At(lower, layer, i)
    BY DEF Added, Adds
  <2> QED
    BY <1>1, <1>2, <2>1, AboveTwo
<1>4. ASSUME NEW q \in Opened(lower, layer, n)
      PROVE  /\ q \in Path(2) /\ ~IsStrictPrefix(p, q)
             /\ p # <<>> => ~IsPrefix(p, q)
  <2>1. PICK i \in 1..n : q = Front(At(lower, layer, i))
    BY DEF Opened
  <2> DEFINE r == At(lower, layer, i)
  <2>2. r \in Path(2) /\ ~IsStrictPrefix(p, r) /\ q = Front(r)
    BY <1>2, <2>1
  <2> HIDE DEF p, r
  <2>3. q \in Path(2) /\ (r = <<>> => q = <<>>) /\ Front(q) = <<>>
    BY <2>2, Parent
  <2>4. ~IsStrictPrefix(p, q)
    BY <1>1, <2>2, <2>3, AboveTwo
  <2>5. p # <<>> => p # q
    BY <1>1, <2>2, <2>3, AboveTwo
  <2> QED
    BY <1>1, <2>3, <2>4, <2>5, AboveTwo
<1> QED
  BY <1>3, <1>4

\* A marker takes away what it hides.
LEMMA StageRemoved ==
    ASSUME NEW lower, NEW layer, NEW n, NEW t, Sound(lower, layer), Reached(layer, n),
           n # Len(layer), Stage(lower, layer, n, t),
           layer[n + 1].kind \in {"whiteout", "opaque"}, NEW v,
           DOMAIN v = {q \in DOMAIN t : ~Hides(lower, layer, layer[n + 1], q)},
           \A q \in DOMAIN v : v[q] = t[q]
    PROVE  Stage(lower, layer, n + 1, v)
<1> DEFINE e == layer[n + 1]
           p == At(lower, layer, n + 1)
<1>0. NextSets(lower, layer, n)
  BY NextSetsAre
<1>1. /\ Staying(lower, layer, n + 1) = {q \in Staying(lower, layer, n) : ~Hides(lower, layer, e, q)}
      /\ Added(lower, layer, n + 1) = Added(lower, layer, n)
      /\ Opened(lower, layer, n + 1) = Opened(lower, layer, n)
  BY <1>0 DEF NextSets, Adds
<1>2. n + 1 \in DOMAIN layer /\ (e.kind = "whiteout" => p # <<>>)
  BY Entry, Places
<1>3. \A q \in Added(lower, layer, n) \cup Opened(lower, layer, n) : ~Hides(lower, layer, e, q)
  BY <1>2, NotBelow DEF Hides, At
<1>4. \A q : q \in DOMAIN v <=> q \in DOMAIN t /\ ~Hides(lower, layer, e, q)
  OBVIOUS
<1>5. \A q \in DOMAIN t : q \in Added(lower, layer, n) \cup Opened(lower, layer, n)
                                 \cup Staying(lower, layer, n)
  BY DEF Stage
<1>6. DOMAIN v = Added(lower, layer, n + 1) \cup Opened(lower, layer, n + 1)
                 \cup Staying(lower, layer, n + 1)
  BY <1>1, <1>3 DEF Stage
<1>7. ASSUME NEW i \in 1..(n + 1), layer[i].kind \in Adds
      PROVE  /\ i \in 1..n /\ At(lower, layer, i) \in Added(lower, layer, n)
             /\ At(lower, layer, i) \in DOMAIN v /\ v[At(lower, layer, i)] = t[At(lower, layer, i)]
  <2>1. i \in 1..n
    BY <1>7, Entry DEF Adds
  <2>2. At(lower, layer, i) \in Added(lower, layer, n)
    BY <1>7, <2>1 DEF Added
  <2> QED
    BY <1>1, <1>6, <2>1, <2>2
<1>8. ASSUME NEW i \in 1..(n + 1)
      PROVE  /\ layer[i].kind = "dir" => IsDir(v, At(lower, layer, i))
             /\ layer[i].kind = "hard" =>
                  v[At(lower, layer, i)] = Upper(lower, layer)[Source(lower, layer, layer[i])]
             /\ layer[i].kind \in {"file", "link", "fifo"} =>
                  v[At(lower, layer, i)] = NodeOf(layer[i])
  BY <1>7 DEF Stage, IsDir, Adds
<1>9. ASSUME NEW q \in DOMAIN v, q \notin Added(lower, layer, n + 1)
      PROVE  v[q] = IF q \in Staying(lower, layer, n + 1) THEN lower[q] ELSE Dir("rw")
  BY <1>1, <1>4, <1>9 DEF Stage
<1>10. ASSUME NEW q \in DOMAIN v, IsDir(v, q)
       PROVE  v[q] = Dir("rw") \/ (q \in DOMAIN lower /\ v[q] = lower[q])
  BY <1>4, <1>10 DEF Stage, IsDir
<1> QED
  BY <1>6, <1>8, <1>9, <1>10 DEF Stage

\* The directory of the next entry is there.
Ready(lower, layer, n, t) ==
    /\ DOMAIN t = Added(lower, layer, n) \cup Opened(lower, layer, n + 1) \cup Staying(lower, layer, n)
    /\ \A i \in 1..n :
         LET p == At(lower, layer, i) IN
         /\ layer[i].kind = "dir" => IsDir(t, p)
         /\ layer[i].kind = "hard" => t[p] = Upper(lower, layer)[Source(lower, layer, layer[i])]
         /\ layer[i].kind \in {"file", "link", "fifo"} => t[p] = NodeOf(layer[i])
    /\ \A q \in DOMAIN t \ Added(lower, layer, n) :
         t[q] = IF q \in Staying(lower, layer, n) THEN lower[q] ELSE Dir("rw")
    /\ \A q \in DOMAIN t : IsDir(t, q) =>
         t[q] = Dir("rw") \/ (q \in DOMAIN lower /\ t[q] = lower[q])

\* Then the directory of the entry is there, and all else is as it was.
LEMMA StageReady ==
    ASSUME NEW lower, NEW layer, NEW n, NEW t, Sound(lower, layer), Reached(layer, n),
           n # Len(layer), SmallTree(t), Stage(lower, layer, n, t),
           layer[n + 1].kind \notin {"whiteout", "opaque"},
           NEW u \in MkdirAll(t, Front(At(lower, layer, n + 1)))
    PROVE  /\ SmallTree(u) /\ IsDir(u, Front(At(lower, layer, n + 1)))
           /\ Ready(lower, layer, n, u)
<1> DEFINE f == Front(At(lower, layer, n + 1))
           old == Added(lower, layer, n) \cup Opened(lower, layer, n) \cup Staying(lower, layer, n)
<1>1. f \in Path(1)
  BY Entry, Places, Parent
<1>2. SmallTree(u) /\ IsDir(u, f) /\ Opened1(u, t, f)
  BY <1>1, SmallMkdir
<1>3. NextSets(lower, layer, n)
  BY NextSetsAre
<1>4. Opened(lower, layer, n + 1) = Opened(lower, layer, n) \cup {f}
  BY <1>3 DEF NextSets
<1>5. DOMAIN t = old /\ DOMAIN u = DOMAIN t \cup {f}
  BY <1>2 DEF Stage, Opened1
<1>6. \A q \in DOMAIN t : u[q] = t[q]
  BY <1>2 DEF Opened1
<1>7. f \notin DOMAIN t => u[f] = Dir("rw")
  BY <1>2 DEF Opened1
<1> HIDE DEF f
<1>8. ASSUME NEW i \in 1..n, layer[i].kind \in Adds
      PROVE  At(lower, layer, i) \in DOMAIN t /\ At(lower, layer, i) \in DOMAIN u
  <2>1. At(lower, layer, i) \in Added(lower, layer, n)
    BY <1>8 DEF Added
  <2> QED
    BY <1>5, <2>1
<1>9. ASSUME NEW i \in 1..n
      PROVE  /\ layer[i].kind = "dir" => IsDir(u, At(lower, layer, i))
             /\ layer[i].kind = "hard" =>
                  u[At(lower, layer, i)] = Upper(lower, layer)[Source(lower, layer, layer[i])]
             /\ layer[i].kind \in {"file", "link", "fifo"} =>
                  u[At(lower, layer, i)] = NodeOf(layer[i])
  BY <1>6, <1>8 DEF Stage, IsDir, Adds
<1>10. ASSUME NEW q \in DOMAIN u, q \notin Added(lower, layer, n)
       PROVE  u[q] = IF q \in Staying(lower, layer, n) THEN lower[q] ELSE Dir("rw")
  <2>1. CASE q \in DOMAIN t
    BY <1>6, <1>10, <2>1 DEF Stage
  <2>2. CASE q \notin DOMAIN t
    <3>1. q = f /\ q \notin Staying(lower, layer, n)
      BY <1>5, <2>2
    <3> QED
      BY <1>7, <2>2, <3>1
  <2> QED
    BY <2>1, <2>2
<1>11. ASSUME NEW q \in DOMAIN u, IsDir(u, q)
       PROVE  u[q] = Dir("rw") \/ (q \in DOMAIN lower /\ u[q] = lower[q])
  <2>1. CASE q \in DOMAIN t
    BY <1>6, <1>11, <2>1 DEF Stage, IsDir
  <2>2. CASE q \notin DOMAIN t
    BY <1>5, <1>7, <2>2
  <2> QED
    BY <2>1, <2>2
<1>12. DOMAIN u = Added(lower, layer, n) \cup Opened(lower, layer, n + 1)
                  \cup Staying(lower, layer, n)
  BY <1>4, <1>5
<1>13. Ready(lower, layer, n, u)
  BY <1>9, <1>10, <1>11, <1>12 DEF Ready
<1> QED
  BY <1>2, <1>13 DEF f

\* An entry that leaves it at that: a device, or a directory that is there.
LEMMA StageKept ==
    ASSUME NEW lower, NEW layer, NEW n, NEW u, Sound(lower, layer), Reached(layer, n),
           n # Len(layer), Ready(lower, layer, n, u),
           layer[n + 1].kind \notin {"whiteout", "opaque", "file", "link", "fifo", "hard"},
           layer[n + 1].kind = "dir" => IsDir(u, At(lower, layer, n + 1))
    PROVE  Stage(lower, layer, n + 1, u)
<1> DEFINE e == layer[n + 1]
           p == At(lower, layer, n + 1)
<1>1. NextSets(lower, layer, n)
  BY NextSetsAre
<1>2. \A q : ~Hides(lower, layer, e, q)
  BY DEF Hides
<1>3. Staying(lower, layer, n + 1) = Staying(lower, layer, n)
  BY <1>1, <1>2 DEF NextSets
<1>4. \A q : q \in Added(lower, layer, n + 1) <=>
               q \in Added(lower, layer, n) \/ (e.kind = "dir" /\ q = p)
  BY <1>1 DEF NextSets, Adds
<1>5. DOMAIN u = Added(lower, layer, n + 1) \cup Opened(lower, layer, n + 1)
                 \cup Staying(lower, layer, n + 1)
  BY <1>3, <1>4 DEF Ready, IsDir
<1>6. ASSUME NEW i \in 1..(n + 1)
      PROVE  /\ layer[i].kind = "dir" => IsDir(u, At(lower, layer, i))
             /\ layer[i].kind = "hard" =>
                  u[At(lower, layer, i)] = Upper(lower, layer)[Source(lower, layer, layer[i])]
             /\ layer[i].kind \in {"file", "link", "fifo"} =>
                  u[At(lower, layer, i)] = NodeOf(layer[i])
  <2>1. i \in 1..n \/ i = n + 1
    BY Entry
  <2> QED
    BY <2>1 DEF Ready
<1>7. ASSUME NEW q \in DOMAIN u, q \notin Added(lower, layer, n + 1)
      PROVE  u[q] = IF q \in Staying(lower, layer, n + 1) THEN lower[q] ELSE Dir("rw")
  BY <1>3, <1>4, <1>7 DEF Ready
<1>8. \A q \in DOMAIN u : IsDir(u, q) =>
         u[q] = Dir("rw") \/ (q \in DOMAIN lower /\ u[q] = lower[q])
  BY DEF Ready
<1> QED
  BY <1>5, <1>6, <1>7, <1>8 DEF Stage

\* The node that an entry puts into the tree.
Puts(lower, layer, e, node) ==
    /\ e.kind = "dir" => node = Dir("rw")
    /\ e.kind = "hard" => node = Upper(lower, layer)[Source(lower, layer, e)]
    /\ e.kind \in {"file", "link", "fifo"} => node = NodeOf(e)

\* An entry that replaces what has its name.
LEMMA StagePut ==
    ASSUME NEW lower, NEW layer, NEW n, NEW u, Sound(lower, layer), Reached(layer, n),
           n # Len(layer), SmallTree(u), Ready(lower, layer, n, u),
           layer[n + 1].kind \in Adds,
           layer[n + 1].kind = "dir" => ~IsDir(u, At(lower, layer, n + 1)),
           At(lower, layer, n + 1) # <<>>,
           NEW node, Puts(lower, layer, layer[n + 1], node),
           NEW v, Replaced(v, u, At(lower, layer, n + 1), node)
    PROVE  Stage(lower, layer, n + 1, v)
<1> DEFINE e == layer[n + 1]
           p == At(lower, layer, n + 1)
<1>0. NextSets(lower, layer, n)
  BY NextSetsAre
<1>1. /\ p \in Path(2) /\ n + 1 \in DOMAIN layer
      /\ e.kind = "hard" => Upper(lower, layer)[Source(lower, layer, e)].kind # "dir"
      /\ Puts(lower, layer, e, node) /\ e.kind \in Adds
  BY Entry, Places, ResultIs DEF Hards
<1>2. \A q : q \in Added(lower, layer, n + 1) <=> q \in Added(lower, layer, n) \/ q = p
  BY <1>0 DEF NextSets
<1>3. \A q : q \in Staying(lower, layer, n + 1) <=>
               q \in Staying(lower, layer, n) /\ ~Hides(lower, layer, e, q)
  BY <1>0 DEF NextSets
<1>4. \A q \in Added(lower, layer, n) : ~IsPrefix(p, q)
  BY NotBelow DEF Adds
<1>5. \A q \in Opened(lower, layer, n + 1) : ~IsPrefix(p, q)
  <2>1. \A q \in Opened(lower, layer, n + 1) : q \in Opened(lower, layer, n) \/ q = Front(p)
    BY <1>0 DEF NextSets
  <2>2. \A q \in Opened(lower, layer, n) : ~IsPrefix(p, q)
    BY NotBelow
  <2>3. ~IsPrefix(p, Front(p))
    <3>1. Front(p) \in Path(2) /\ Front(p) # p /\ Front(Front(p)) = <<>>
      BY <1>1, Parent
    <3> QED
      BY <1>1, <3>1, AboveTwo
  <2> QED
    BY <2>1, <2>2, <2>3
<1>6. \A q \in DOMAIN u : q \in Path(2)
  BY SmallIs
<1>7. ASSUME NEW q \in Staying(lower, layer, n), q # p
      PROVE  IsPrefix(p, q) <=> Hides(lower, layer, e, q)
  <2>1. q \in DOMAIN u
    BY DEF Ready
  <2>2. CASE e.kind = "dir"
    <3>1. ~Hides(lower, layer, e, q)
      BY <2>2 DEF Hides
    <3>2. ~IsPrefix(p, q)
      BY <1>1, <1>6, <1>7, <2>1, <2>2, AboveTwo, SmallAbove
    <3> QED
      BY <3>1, <3>2
  <2>3. CASE e.kind # "dir"
    <3>1. e.kind \in {"file", "link", "fifo", "hard"}
      BY <1>1, <2>3 DEF Adds
    <3> QED
      BY <3>1 DEF Hides, At
  <2> QED
    BY <2>2, <2>3
<1>8. /\ DOMAIN v = {q \in DOMAIN u : ~IsPrefix(p, q)} \cup {p}
      /\ v[p] = node
      /\ \A q \in DOMAIN u : ~IsPrefix(p, q) => v[q] = u[q]
  BY DEF Replaced
<1> HIDE DEF p, e
<1>9. \A q : q \in DOMAIN v <=> q = p \/ (q \in DOMAIN u /\ ~IsPrefix(p, q))
  BY <1>8
<1>10. \A q : q \in DOMAIN u <=> \/ q \in Added(lower, layer, n)
                                 \/ q \in Opened(lower, layer, n + 1)
                                 \/ q \in Staying(lower, layer, n)
  BY DEF Ready
<1>11. ASSUME NEW q
       PROVE  q \in DOMAIN v <=> \/ q \in Added(lower, layer, n + 1)
                                 \/ q \in Opened(lower, layer, n + 1)
                                 \/ q \in Staying(lower, layer, n + 1)
  BY <1>2, <1>3, <1>4, <1>5, <1>7, <1>9, <1>10
<1>12. DOMAIN v = Added(lower, layer, n + 1) \cup Opened(lower, layer, n + 1)
                  \cup Staying(lower, layer, n + 1)
  BY <1>11
<1>13. ASSUME NEW i \in 1..(n + 1)
       PROVE  /\ layer[i].kind = "dir" => IsDir(v, At(lower, layer, i))
              /\ layer[i].kind = "hard" =>
                   v[At(lower, layer, i)] = Upper(lower, layer)[Source(lower, layer, layer[i])]
              /\ layer[i].kind \in {"file", "link", "fifo"} =>
                   v[At(lower, layer, i)] = NodeOf(layer[i])
  <2>1. CASE i = n + 1
    <3>1. layer[i] = e /\ At(lower, layer, i) = p
      BY <2>1 DEF e, p
    <3>2. p \in DOMAIN v
      BY <1>9
    <3> QED
      BY <1>1, <1>8, <3>1, <3>2 DEF Puts, IsDir, Dir
  <2>2. CASE i \in 1..n
    <3> DEFINE r == At(lower, layer, i)
    <3>1. layer[i].kind \in Adds => r \in Added(lower, layer, n)
      BY <2>2 DEF Added
    <3> HIDE DEF r
    <3>2. layer[i].kind \in Adds => r \in DOMAIN u /\ r \in DOMAIN v /\ v[r] = u[r]
      BY <1>4, <1>8, <1>9, <1>10, <3>1
    <3>3. /\ layer[i].kind = "dir" => IsDir(u, r)
          /\ layer[i].kind = "hard" =>
               u[r] = Upper(lower, layer)[Source(lower, layer, layer[i])]
          /\ layer[i].kind \in {"file", "link", "fifo"} => u[r] = NodeOf(layer[i])
      BY <2>2 DEF Ready, r
    <3> QED
      BY <3>2, <3>3 DEF IsDir, Adds, r
  <2> QED
    BY <2>1, <2>2, Entry
<1>14. ASSUME NEW q \in DOMAIN v, q \notin Added(lower, layer, n + 1)
       PROVE  v[q] = IF q \in Staying(lower, layer, n + 1) THEN lower[q] ELSE Dir("rw")
  <2>1. q # p /\ q \in DOMAIN u /\ ~IsPrefix(p, q) /\ q \notin Added(lower, layer, n)
    BY <1>2, <1>9, <1>14
  <2>2. q \in Staying(lower, layer, n) <=> q \in Staying(lower, layer, n + 1)
    BY <1>3, <1>7, <2>1
  <2>3. u[q] = IF q \in Staying(lower, layer, n) THEN lower[q] ELSE Dir("rw")
    BY <2>1 DEF Ready
  <2> QED
    BY <1>8, <2>1, <2>2, <2>3
<1>15. ASSUME NEW q \in DOMAIN v, IsDir(v, q)
       PROVE  v[q] = Dir("rw") \/ (q \in DOMAIN lower /\ v[q] = lower[q])
  <2>1. CASE q = p
    <3>1. node.kind = "dir"
      BY <1>8, <1>15, <2>1 DEF IsDir
    <3>2. e.kind \in {"file", "link", "fifo"} => NodeOf(e).kind # "dir"
      BY NotDirs
    <3> QED
      BY <1>1, <1>8, <2>1, <3>1, <3>2 DEF Puts, Adds
  <2>2. CASE q # p
    <3>1. q \in DOMAIN u /\ v[q] = u[q]
      BY <1>8, <1>9, <2>2
    <3> QED
      BY <1>15, <3>1 DEF Ready, IsDir
  <2> QED
    BY <2>1, <2>2
<1> QED
  BY <1>12, <1>13, <1>14, <1>15 DEF Stage

\* The file that a hard link names is there, as it will be in the end.
LEMMA SourceIs ==
    ASSUME NEW lower, NEW layer, NEW n, NEW t, Sound(lower, layer), Reached(layer, n),
           n # Len(layer), Stage(lower, layer, n, t), layer[n + 1].kind = "hard"
    PROVE  LET s == Source(lower, layer, layer[n + 1]) IN
           /\ s \in DOMAIN t /\ t[s] = Upper(lower, layer)[s] /\ ~IsDir(t, s)
           /\ ~IsPrefix(At(lower, layer, n + 1), s)
<1> DEFINE e == layer[n + 1]
           p == At(lower, layer, n + 1)
           s == Source(lower, layer, e)
           upper == Upper(lower, layer)
<1>1. /\ n + 1 \in DOMAIN layer /\ s \in DOMAIN upper /\ upper[s].kind # "dir"
      /\ \A i \in 1..n : i \in DOMAIN layer
  BY Entry, Grounded
<1>2. UpperMeans(lower, layer, upper)
  BY UpperIs
<1>3. ASSUME NEW i \in Owns(layer), s = At(lower, layer, i)
      PROVE  s \in DOMAIN t /\ t[s] = upper[s] /\ ~IsPrefix(p, s)
  <2>1. i \in DOMAIN layer /\ layer[i].kind \in Adds \ {"hard"}
    BY DEF Owns
  <2>2. i \in 1..n
    BY <1>1, <1>3, <2>1, Entry, Order
  <2>3. s \in Added(lower, layer, n)
    BY <1>3, <2>1, <2>2 DEF Added
  <2>4. upper[s] = NodeOf(layer[i])
    BY <1>2, <1>3 DEF UpperMeans
  <2>5. layer[i].kind \in {"file", "link", "fifo"}
    BY <1>1, <2>1, <2>4, NodeKinds DEF Adds
  <2>6. t[s] = NodeOf(layer[i])
    BY <1>3, <2>2, <2>5 DEF Stage
  <2>7. ~IsPrefix(p, s)
    BY <2>3, NotBelow
  <2> QED
    BY <2>3, <2>4, <2>6, <2>7 DEF Stage
<1>4. ASSUME \A i \in Owns(layer) : s # At(lower, layer, i)
      PROVE  s \in DOMAIN t /\ t[s] = upper[s] /\ ~IsPrefix(p, s)
  <2>1. upper[s] = IF s \in Kept(lower, layer) THEN lower[s] ELSE Dir("rw")
    BY <1>1, <1>2, <1>4 DEF UpperMeans
  <2>2. s \in Kept(lower, layer) /\ upper[s] = lower[s]
    BY <1>1, <2>1 DEF Dir
  <2>3. s \in DOMAIN lower /\ \A i \in DOMAIN layer : ~Hides(lower, layer, layer[i], s)
    BY <2>2 DEF Kept, Range
  <2>4. s \in Staying(lower, layer, n)
    BY <1>1, <2>3 DEF Staying
  <2>5. ASSUME NEW i \in DOMAIN layer, layer[i].kind = "hard" PROVE ~IsPrefix(At(lower, layer, i), s)
    BY <2>3, <2>5 DEF Hides, At
  <2>6. \A i \in DOMAIN layer : layer[i].kind = "hard" => s # At(lower, layer, i)
    BY <2>5, Places, AboveTwo
  <2>7. s \notin Added(lower, layer, n)
    BY <1>1, <1>4, <2>6 DEF Added, Owns
  <2>8. s \in DOMAIN t /\ t[s] = lower[s]
    BY <2>4, <2>7 DEF Stage
  <2> QED
    BY <1>1, <2>2, <2>5, <2>8
<1>5. s \in DOMAIN t /\ t[s] = upper[s] /\ ~IsPrefix(p, s)
  BY <1>3, <1>4
<1> QED
  BY <1>1, <1>5 DEF IsDir

\* untar: the next entry makes of the tree what it should.
LEMMA StageStep ==
    ASSUME NEW lower, NEW layer, NEW n, NEW t, Sound(lower, layer), Reached(layer, n),
           n # Len(layer), SmallTree(t), Stage(lower, layer, n, t),
           NEW v \in Unpacked(t, layer[n + 1])
    PROVE  Stage(lower, layer, n + 1, v)
<1> DEFINE e == layer[n + 1]
           p == At(lower, layer, n + 1)
<1>1. n + 1 \in DOMAIN layer /\ p \in Path(2) /\ (e.kind = "whiteout" => p # <<>>)
  BY Entry, Places
<1>2. SameLinks(lower, layer, e, t)
  BY LinksAreThere DEF SameLinks
<1>3. CASE e.kind = "opaque"
  <2>1. v \in clearDir(t, p)
    BY <1>1, <1>2, <1>3, Resolved DEF Unpacked
  <2>2. DOMAIN v = {q \in DOMAIN t : ~IsStrictPrefix(p, q)} /\ \A q \in DOMAIN v : v[q] = t[q]
    BY <1>1, <2>1, SmallClear
  <2>3. \A q : Hides(lower, layer, e, q) <=> IsStrictPrefix(p, q)
    BY <1>3 DEF Hides, At
  <2>4. DOMAIN v = {q \in DOMAIN t : ~Hides(lower, layer, e, q)}
    BY <2>2, <2>3
  <2> QED
    BY <1>3, <2>2, <2>4, StageRemoved
<1>4. CASE e.kind = "whiteout"
  <2>1. v \in RemoveAll(t, p)
    BY <1>1, <1>2, <1>4, Resolved DEF Unpacked
  <2>2. DOMAIN v = {q \in DOMAIN t : ~IsPrefix(p, q)} /\ \A q \in DOMAIN v : v[q] = t[q]
    BY <1>1, <2>1, SmallRemove
  <2>3. \A q : Hides(lower, layer, e, q) <=> IsPrefix(p, q)
    BY <1>4 DEF Hides, At
  <2>4. DOMAIN v = {q \in DOMAIN t : ~Hides(lower, layer, e, q)}
    BY <2>2, <2>3
  <2> QED
    BY <1>4, <2>2, <2>4, StageRemoved
<1>5. CASE e.kind \notin {"opaque", "whiteout"}
  <2>1. joinInside(t, e.path) = p
    BY <1>1, <1>2, <1>5, Resolved
  <2>2. PICK u \in MkdirAll(t, Front(p)) : v \in Make(u, p, e)
    BY <1>5, <2>1 DEF Unpacked
  <2>3. SmallTree(u) /\ IsDir(u, Front(p)) /\ Ready(lower, layer, n, u)
    BY <1>5, <2>2, StageReady
  <2>4. CASE e.kind \notin {"dir", "file", "link", "fifo", "hard"}
    <3>1. v = u
      BY <2>2, <2>4 DEF Make
    <3> QED
      BY <1>5, <2>3, <2>4, <3>1, StageKept
  <2>5. CASE e.kind = "dir"
    <3>1. CASE IsDir(u, p)
      <4>1. v = u
        BY <2>2, <2>5, <3>1 DEF Make
      <4> QED
        BY <2>3, <2>5, <3>1, <4>1, StageKept
    <3>2. CASE ~IsDir(u, p)
      <4>1. v \in Place(u, p, Dir("rw")) /\ NodeOK(Dir("rw"))
        BY <2>2, <2>5, <3>2 DEF Make, NodeOK, Dir
      <4>2. p # <<>> /\ Replaced(v, u, p, Dir("rw"))
        BY <1>1, <2>3, <4>1, SmallPlace
      <4>3. Puts(lower, layer, e, Dir("rw")) /\ e.kind \in Adds
        BY <2>5 DEF Puts, Adds
      <4> QED
        BY <2>3, <3>2, <4>2, <4>3, StagePut
    <3> QED
      BY <3>1, <3>2
  <2>6. CASE e.kind \in {"file", "link", "fifo"}
    <3>1. SmallEntry(e)
      BY <1>1 DEF Sound
    <3>2. v \in Place(u, p, NodeOf(e)) /\ NodeOK(NodeOf(e))
      BY <2>2, <2>6, <3>1 DEF Make, NodeOK, NodeOf, SmallEntry, EntryOK, TwoNames
    <3>3. p # <<>> /\ Replaced(v, u, p, NodeOf(e))
      BY <1>1, <2>3, <3>2, SmallPlace
    <3>4. Puts(lower, layer, e, NodeOf(e)) /\ e.kind \in Adds /\ e.kind # "dir"
      BY <2>6 DEF Puts, Adds
    <3> QED
      BY <2>3, <3>3, <3>4, StagePut
  <2>7. CASE e.kind = "hard"
    <3> DEFINE s == Source(lower, layer, e)
    <3>1. Front(p) \in Path(1)
      BY <1>1, Parent
    <3>2. SameLinks(lower, layer, e, u)
      BY <1>2, <2>2, <3>1, MkdirKeepsLinks DEF SameLinks
    <3>3. joinInside(u, e.to) = s
      BY <1>1, <2>3, <2>7, <3>2, Resolved
    <3>4. v \in Link(u, p, s)
      BY <2>2, <2>7, <3>3 DEF Make
    <3>5. p # <<>> /\ Replaced(v, u, p, u[s])
      BY <1>1, <2>3, <3>4, SmallLink
    <3>6. s \in DOMAIN t /\ t[s] = Upper(lower, layer)[s]
      BY <2>7, SourceIs
    <3>7. Opened1(u, t, Front(p))
      BY <2>2, <3>1, SmallMkdir
    <3>8. u[s] = Upper(lower, layer)[s]
      BY <3>6, <3>7 DEF Opened1
    <3>9. Puts(lower, layer, e, u[s]) /\ e.kind \in Adds /\ e.kind # "dir"
      BY <2>7, <3>8 DEF Puts, Adds
    <3> QED
      BY <2>3, <3>5, <3>9, StagePut
  <2> QED
    BY <2>4, <2>5, <2>6, <2>7
<1> QED
  BY <1>3, <1>4, <1>5

-----------------------------------------------------------------------------
(* A whole layer                                                           *)

\* The layers of such a tree and such entries leave such a tree.
LEMMA StageIsSmall ==
    ASSUME NEW lower, NEW layer, NEW n, NEW t, Sound(lower, layer), Reached(layer, n),
           Stage(lower, layer, n, t), TreeOK(t)
    PROVE  SmallTree(t)
<1>1. ASSUME NEW q \in DOMAIN t PROVE q \in Path(2) /\ (IsLink(t, q) => IsTop(t[q].to))
  <2>1. ASSUME NEW i \in 1..n, i \in Owns(layer), q = At(lower, layer, i),
               (layer[i].kind = "dir" /\ IsDir(t, q)) \/ t[q] = NodeOf(layer[i])
        PROVE  q \in Path(2) /\ (IsLink(t, q) => IsTop(t[q].to))
    <3>1. i \in DOMAIN layer /\ layer[i].kind \in Adds \ {"hard"} /\ SmallEntry(layer[i])
      BY <2>1 DEF Owns, Sound
    <3>2. ASSUME IsLink(t, q) PROVE IsTop(t[q].to)
      <4>1. t[q] = NodeOf(layer[i]) /\ t[q].kind = "link"
        BY <2>1, <3>2 DEF IsLink, IsDir
      <4>2. layer[i].kind = "link" /\ t[q].to = layer[i].to
        BY <3>1, <4>1, NodeKinds
      <4> QED
        BY <3>1, <4>2 DEF SmallEntry, TwoNames
    <3> QED
      BY <2>1, <3>1, <3>2, Places
  <2>2. ASSUME NEW i \in 1..n, i \in Hards(layer), q = At(lower, layer, i),
               t[q] = Upper(lower, layer)[Source(lower, layer, layer[i])]
        PROVE  q \in Path(2) /\ (IsLink(t, q) => IsTop(t[q].to))
    <3>1. i \in DOMAIN layer /\ t[q].kind # "link"
      BY <2>2, ResultIs DEF Hards
    <3> QED
      BY <2>2, <3>1, Places DEF IsLink
  <2>3. CASE q \in Staying(lower, layer, n) /\ t[q] = lower[q]
    BY <2>3 DEF Staying, Sound, SmallTree, IsLink
  <2>4. CASE q \in Opened(lower, layer, n) /\ t[q] = Dir("rw")
    <3>1. PICK i \in 1..n : q = Front(At(lower, layer, i))
      BY <2>4 DEF Opened
    <3>2. i \in DOMAIN layer
      BY Entry
    <3>3. q \in Path(2)
      BY <3>1, <3>2, Places, Parent
    <3> QED
      BY <2>4, <3>3 DEF IsLink, Dir
  <2> QED
    BY <2>1, <2>2, <2>3, <2>4, StageNode
<1> QED
  BY <1>1 DEF SmallTree

\* No entry has changed anything yet.
LEMMA StageStart ==
    ASSUME NEW lower, NEW layer, NEW list, list = <<>>
    PROVE  Stage(lower, layer, 0, lower) /\ ModesOf(lower, layer, 0, list)
<1>1. \A i : i \notin 1..0
  OBVIOUS
<1>2. Added(lower, layer, 0) = {} /\ Opened(lower, layer, 0) = {}
  BY <1>1 DEF Added, Opened
<1>3. Staying(lower, layer, 0) = DOMAIN lower
  BY <1>1 DEF Staying
<1>4. Stage(lower, layer, 0, lower)
  BY <1>1, <1>2, <1>3 DEF Stage
<1>5. DOMAIN list = {}
  OBVIOUS
<1> QED
  BY <1>1, <1>4, <1>5 DEF ModesOf

\* A directory adds its mode.
LEMMA ModesStep ==
    ASSUME NEW lower, NEW layer, NEW n, Sound(lower, layer), Reached(layer, n), n # Len(layer),
           NEW list \in Seq([path : Seq(STRING), mode : Modes]), ModesOf(lower, layer, n, list)
    PROVE  ModesOf(lower, layer, n + 1,
                   IF layer[n + 1].kind # "dir" THEN list
                   ELSE Append(list, [path |-> At(lower, layer, n + 1), mode |-> layer[n + 1].mode]))
<1> DEFINE last == [path |-> At(lower, layer, n + 1), mode |-> layer[n + 1].mode]
           new == Append(list, last)
<1>1. /\ \A i \in 1..n : i \in 1..(n + 1)
      /\ \A i \in 1..(n + 1) : i \in 1..n \/ i = n + 1
      /\ n + 1 \in 1..(n + 1)
  BY DEF Reached
<1>2. CASE layer[n + 1].kind # "dir"
  <2>1. ModesOf(lower, layer, n + 1, list)
    BY <1>1, <1>2 DEF ModesOf
  <2> QED
    BY <1>2, <2>1
<1>3. CASE layer[n + 1].kind = "dir"
  <2>1. At(lower, layer, n + 1) \in Path(2) /\ layer[n + 1].mode \in Modes
    BY <1>3, Entry, Places DEF Sound, SmallEntry, EntryOK, TwoNames
  <2>2. last \in [path : Seq(STRING), mode : Modes] /\ last.path = At(lower, layer, n + 1)
    BY <2>1 DEF Path
  <2> HIDE DEF last
  <2>3. /\ \A k \in DOMAIN list : k \in DOMAIN new /\ new[k] = list[k]
        /\ \A k \in DOMAIN new : k \in DOMAIN list \/ new[k] = last
        /\ \E k \in DOMAIN new : new[k] = last
    <3>1. Len(new) = Len(list) + 1 /\ DOMAIN new = 1..Len(new) /\ DOMAIN list = 1..Len(list)
          /\ Len(list) \in Nat
      BY <2>2
    <3>2. \A k \in 1..Len(list) : new[k] = list[k]
      BY <2>2
    <3>3. new[Len(list) + 1] = last
      BY <2>2
    <3> HIDE DEF new
    <3> QED
      BY <3>1, <3>2, <3>3
  <2> HIDE DEF new
  <2>4. ASSUME NEW k \in DOMAIN new
        PROVE  \E i \in 1..(n + 1) : layer[i].kind = "dir"
                 /\ new[k] = [path |-> At(lower, layer, i), mode |-> layer[i].mode]
    <3>1. CASE k \in DOMAIN list
      <4>1. PICK i \in 1..n : layer[i].kind = "dir"
                 /\ list[k] = [path |-> At(lower, layer, i), mode |-> layer[i].mode]
        BY <3>1 DEF ModesOf
      <4> QED
        BY <1>1, <2>3, <3>1, <4>1
    <3>2. CASE new[k] = last
      BY <1>1, <1>3, <3>2 DEF last
    <3> QED
      BY <2>3, <3>1, <3>2
  <2>5. ASSUME NEW i \in 1..(n + 1), layer[i].kind = "dir"
        PROVE  \E k \in DOMAIN new : new[k].path = At(lower, layer, i)
    <3>1. CASE i \in 1..n
      <4>1. PICK k \in DOMAIN list : list[k].path = At(lower, layer, i)
        BY <2>5, <3>1 DEF ModesOf
      <4> QED
        BY <2>3, <4>1
    <3>2. CASE i = n + 1
      BY <2>2, <2>3, <3>2
    <3> QED
      BY <1>1, <3>1, <3>2
  <2>6. ModesOf(lower, layer, n + 1, new)
    BY <2>4, <2>5 DEF ModesOf
  <2> QED
    BY <1>3, <2>6 DEF new, last
<1> QED
  BY <1>2, <1>3

\* A layer means a tree, as a function.
LEMMA OverlayIsFunction ==
    ASSUME NEW lower, NEW layer
    PROVE  Overlay(lower, layer) = [p \in DOMAIN Overlay(lower, layer) |-> Overlay(lower, layer)[p]]
<1> DEFINE result == Overlay(lower, layer)
           upper == Upper(lower, layer)
           at(e) == Where(lower, layer, e)
           source(e) == Source(lower, layer, e)
           hard == {e \in Range(layer) : e.kind = "hard" /\ source(e) \in DOMAIN upper}
           all == DOMAIN upper \cup {at(e) : e \in hard}
           node(p) == IF \E e \in hard : at(e) = p THEN upper[source(CHOOSE e \in hard : at(e) = p)]
                      ELSE upper[p]
<1>1. result = [p \in all |-> node(p)]
  BY DEF Overlay
<1> HIDE DEF result, all, node
<1>2. result = [p \in DOMAIN result |-> result[p]]
  BY <1>1
<1> QED
  BY <1>2 DEF result

\* A list of modes to apply.
IsModes(list) == list \in Seq([path : Seq(STRING), mode : Modes])

\* Modes are set for the directories they were recorded for, if they are there.
LEMMA ChmoddedIs ==
    ASSUME NEW t, TreeOK(t), NEW list, \A k \in DOMAIN list : list[k].path \in DOMAIN t,
           NEW q \in DOMAIN t
    PROVE  LET of == {k \in DOMAIN list : list[k].path = q} IN
           Chmodded(t, list)[q] =
             IF of = {} \/ ~IsDir(t, q) THEN t[q]
             ELSE Dir(list[CHOOSE k \in of : \A j \in of : k <= j].mode)
<1> DEFINE of == {k \in DOMAIN list : list[k].path = q}
           found == {k \in DOMAIN list :
                       Inside(t, list[k].path) /\ joinInside(t, list[k].path) = q}
<1>1. found = of
  BY FoundInTree
<1>2. Chmodded(t, list)[q] =
        IF found = {} \/ ~IsDir(t, q) THEN t[q]
        ELSE Dir(list[CHOOSE k \in found : \A j \in found : k <= j].mode)
  BY DEF Chmodded
<1> HIDE DEF found, of
<1>3. Chmodded(t, list)[q] =
        IF of = {} \/ ~IsDir(t, q) THEN t[q]
        ELSE Dir(list[CHOOSE k \in of : \A j \in of : k <= j].mode)
  BY <1>1, <1>2, Zenon
<1> QED
  BY <1>3 DEF of

\* The directory that entry i adds has the mode that it gives.
LEMMA ModeIs ==
    ASSUME NEW lower, NEW layer, NEW t, NEW list, Sound(lower, layer), TreeOK(t),
           IsModes(list), \A k \in DOMAIN list : list[k].path \in DOMAIN t,
           ModesOf(lower, layer, Len(layer), list),
           NEW i \in DOMAIN layer, layer[i].kind = "dir",
           IsDir(t, At(lower, layer, i))
    PROVE  Chmodded(t, list)[At(lower, layer, i)] = Dir(layer[i].mode)
<1> DEFINE p == At(lower, layer, i)
           of == {k \in DOMAIN list : list[k].path = p}
           first == CHOOSE k \in of : \A j \in of : k <= j
<1>1. DOMAIN layer = 1..Len(layer)
  BY DEF Sound, IsList
<1>2. of # {}
  BY <1>1 DEF ModesOf
<1>3. of \subseteq Nat
  BY DEF IsModes
<1>4. \E k \in of : \A j \in of : k <= j
  <2> HIDE DEF of
  <2> QED
    BY <1>2, <1>3, LeastNatural
<1>5. first \in of
  <2> HIDE DEF of
  <2> QED
    BY <1>4
<1>6. Chmodded(t, list)[p] = Dir(list[first].mode)
  <2>1. p \in DOMAIN t /\ IsDir(t, p)
    BY DEF IsDir
  <2> HIDE DEF p
  <2>2. Chmodded(t, list)[p] =
          IF of = {} \/ ~IsDir(t, p) THEN t[p] ELSE Dir(list[first].mode)
    BY <2>1, ChmoddedIs
  <2> QED
    BY <1>2, <2>1, <2>2
<1> HIDE DEF first
<1>7. PICK j \in DOMAIN layer : layer[j].kind = "dir"
           /\ list[first] = [path |-> At(lower, layer, j), mode |-> layer[j].mode]
  BY <1>1, <1>5 DEF ModesOf
<1>8. At(lower, layer, j) = p
  BY <1>5, <1>7
<1>9. j = i
  BY <1>7, <1>8, Apart DEF Owns, Adds
<1> QED
  BY <1>6, <1>7, <1>9

\* untar, applyDirModes: when all entries of a well-formed layer have been
\* unpacked and the modes are set, the directory holds what the layer means.
LEMMA LayerDone ==
    ASSUME NEW lower, NEW layer, NEW t, NEW list, Sound(lower, layer), TreeOK(t),
           Stage(lower, layer, Len(layer), t),
           IsModes(list),
           ModesOf(lower, layer, Len(layer), list)
    PROVE  Chmodded(t, list) = Overlay(lower, layer)
<1> DEFINE upper == Upper(lower, layer)
           result == Overlay(lower, layer)
           n == Len(layer)
           u == Chmodded(t, list)
<1>1. DOMAIN layer = 1..n /\ n \in Nat /\ Reached(layer, n)
  BY DEF Sound, IsList, Reached
<1>2. UpperMeans(lower, layer, upper) /\ OverlayMeans(lower, layer, upper, result)
  BY UpperIs, OverlayIs
<1>3. Staying(lower, layer, n) = Kept(lower, layer)
  BY <1>1 DEF Staying, Kept, Range
<1>4. Added(lower, layer, n) = {At(lower, layer, i) : i \in Owns(layer)}
                               \cup {At(lower, layer, i) : i \in Hards(layer)}
  BY <1>1 DEF Added, Owns, Hards, Adds
<1>5. Opened(lower, layer, n) =
        {Front(At(lower, layer, i)) :
                 i \in {j \in DOMAIN layer : layer[j].kind \notin {"whiteout", "opaque"}}}
  BY <1>1 DEF Opened
<1>6. DOMAIN t = Added(lower, layer, n) \cup Opened(lower, layer, n) \cup Staying(lower, layer, n)
  BY DEF Stage
<1>7. DOMAIN t = DOMAIN result
  BY <1>2, <1>3, <1>4, <1>5, <1>6 DEF UpperMeans, OverlayMeans
<1>8. /\ \A i \in Owns(layer) : result[At(lower, layer, i)] = NodeOf(layer[i])
      /\ \A i \in Hards(layer) :
           /\ result[At(lower, layer, i)] = upper[Source(lower, layer, layer[i])]
           /\ upper[Source(lower, layer, layer[i])].kind # "dir"
  BY <1>2, ResultIs DEF OverlayMeans
<1>9. DOMAIN u = DOMAIN t /\ u = [q \in DOMAIN u |-> u[q]]
  BY DEF Chmodded
<1>10. ASSUME NEW q \in DOMAIN t, ~IsDir(t, q) PROVE u[q] = t[q]
  BY <1>10 DEF Chmodded
<1>0. ASSUME NEW k \in DOMAIN list PROVE list[k].path \in DOMAIN t
  <2>1. PICK i \in 1..n : layer[i].kind = "dir"
             /\ list[k] = [path |-> At(lower, layer, i), mode |-> layer[i].mode]
    BY DEF ModesOf
  <2>2. list[k].path \in Added(lower, layer, n)
    BY <2>1 DEF Added, Adds
  <2> QED
    BY <1>6, <2>2
<1>11. ASSUME NEW q \in DOMAIN t, \A k \in DOMAIN list : list[k].path # q PROVE u[q] = t[q]
  BY <1>0, <1>11, ChmoddedIs
<1>12. ASSUME NEW q \in DOMAIN t PROVE u[q] = result[q]
  <2>1. ASSUME NEW i \in Owns(layer), q = At(lower, layer, i) PROVE u[q] = result[q]
    <3>1. i \in DOMAIN layer /\ layer[i].kind \in Adds \ {"hard"} /\ i \in 1..n
      BY <1>1 DEF Owns
    <3>2. CASE layer[i].kind = "dir"
      <4>1. IsDir(t, At(lower, layer, i))
        BY <3>1, <3>2 DEF Stage
      <4>2. Chmodded(t, list)[At(lower, layer, i)] = Dir(layer[i].mode)
        BY <1>0, <3>1, <3>2, <4>1, ModeIs
      <4> QED
        BY <1>8, <2>1, <3>2, <4>2 DEF NodeOf
    <3>3. CASE layer[i].kind # "dir"
      <4>1. layer[i].kind \in {"file", "link", "fifo"}
        BY <3>1, <3>3 DEF Adds
      <4>2. t[q] = NodeOf(layer[i])
        BY <2>1, <3>1, <4>1 DEF Stage
      <4>3. ~IsDir(t, q)
        BY <4>1, <4>2, NotDirs DEF IsDir
      <4> QED
        BY <1>8, <1>10, <2>1, <4>2, <4>3
    <3> QED
      BY <3>2, <3>3
  <2>2. ASSUME NEW i \in Hards(layer), q = At(lower, layer, i) PROVE u[q] = result[q]
    <3>1. i \in 1..n /\ layer[i].kind = "hard"
      BY <1>1 DEF Hards
    <3>2. t[q] = upper[Source(lower, layer, layer[i])]
      BY <2>2, <3>1 DEF Stage
    <3>3. ~IsDir(t, q)
      BY <1>8, <3>2 DEF IsDir
    <3> QED
      BY <1>8, <1>10, <2>2, <3>2, <3>3
  <2>3. CASE q \notin Added(lower, layer, n)
    <3>1. \A k \in DOMAIN list : list[k].path # q
      <4> SUFFICES ASSUME NEW k \in DOMAIN list, list[k].path = q PROVE FALSE
        OBVIOUS
      <4>1. PICK i \in 1..n : layer[i].kind = "dir"
                 /\ list[k] = [path |-> At(lower, layer, i), mode |-> layer[i].mode]
        BY DEF ModesOf
      <4>2. q = At(lower, layer, i)
        BY <4>1
      <4> QED
        BY <2>3, <4>1, <4>2 DEF Added, Adds
    <3>2. u[q] = t[q]
      BY <1>11, <3>1
    <3>3. t[q] = IF q \in Kept(lower, layer) THEN lower[q] ELSE Dir("rw")
      BY <1>3, <2>3 DEF Stage
    <3>4. /\ \A i \in Owns(layer) : q # At(lower, layer, i)
          /\ \A i \in Hards(layer) : q # At(lower, layer, i)
      BY <1>4, <2>3
    <3>5. q \in DOMAIN upper
      BY <1>2, <1>3, <1>5, <1>6, <2>3 DEF UpperMeans
    <3>6. result[q] = upper[q]
      BY <1>2, <3>4, <3>5 DEF OverlayMeans
    <3>7. upper[q] = IF q \in Kept(lower, layer) THEN lower[q] ELSE Dir("rw")
      BY <1>2, <3>4, <3>5 DEF UpperMeans
    <3> QED
      BY <3>2, <3>3, <3>6, <3>7
  <2>4. q \in Added(lower, layer, n) =>
          \/ \E i \in Owns(layer) : q = At(lower, layer, i)
          \/ \E i \in Hards(layer) : q = At(lower, layer, i)
    BY <1>4
  <2> QED
    BY <2>1, <2>2, <2>3, <2>4
<1>13. result = [p \in DOMAIN result |-> result[p]]
  BY OverlayIsFunction
<1> HIDE DEF u, result, upper, n
<1>14. u = result
  BY <1>7, <1>9, <1>12, <1>13
<1> QED
  BY <1>14 DEF u, result

-----------------------------------------------------------------------------
(* All layers of an image                                                  *)

\* f[i] is the tree of the first i layers.
IsFlat(f, list, n) ==
    f = [i \in 0..n |-> IF i = 0 THEN EmptyTree ELSE Overlay(f[i - 1], list[i])]

\* There is a tree of the first layers.
LEMMA FlatExists ==
    ASSUME NEW list, NEW n \in Nat
    PROVE  \E f : IsFlat(f, list, n)
<1> DEFINE P(m) == \E f : IsFlat(f, list, m)
           T == {m \in Nat : ~P(m)}
<1>1. P(0)
  <2> DEFINE f == [i \in 0..0 |-> EmptyTree]
  <2>1. IsFlat(f, list, 0)
    <3>1. \A i \in 0..0 : i = 0
      OBVIOUS
    <3> QED
      BY <3>1 DEF IsFlat
  <2> QED
    BY <2>1
<1>2. ASSUME NEW m \in Nat, P(m) PROVE P(m + 1)
  <2>1. PICK f : IsFlat(f, list, m)
    BY <1>2
  <2> DEFINE v == Overlay(f[m], list[m + 1])
             g == [i \in 0..(m + 1) |-> IF i = m + 1 THEN v ELSE f[i]]
             h == [i \in 0..(m + 1) |-> IF i = 0 THEN EmptyTree ELSE Overlay(g[i - 1], list[i])]
  <2>2. ASSUME NEW i \in 0..(m + 1) PROVE g[i] = h[i]
    <3>1. CASE i = m + 1
      <4>1. i # 0 /\ i - 1 = m /\ m \in 0..(m + 1) /\ m # m + 1
        BY <3>1
      <4>2. g[m] = f[m]
        BY <4>1
      <4> QED
        BY <3>1, <4>1, <4>2
    <3>2. CASE i = 0
      <4>1. 0 # m + 1 /\ 0 \in 0..m
        OBVIOUS
      <4>2. f[0] = EmptyTree
        BY <2>1, <4>1 DEF IsFlat
      <4> QED
        BY <3>2, <4>1, <4>2
    <3>3. CASE i # 0 /\ i # m + 1
      <4>1. i \in 0..m /\ i - 1 \in 0..(m + 1) /\ i - 1 # m + 1
        BY <3>3
      <4>2. g[i - 1] = f[i - 1]
        BY <4>1
      <4>3. f[i] = Overlay(f[i - 1], list[i])
        BY <2>1, <3>3, <4>1 DEF IsFlat
      <4> QED
        BY <3>3, <4>2, <4>3
    <3> QED
      BY <3>1, <3>2, <3>3
  <2>3. g = h
    <3> HIDE DEF v
    <3> QED
      BY <2>2
  <2>4. IsFlat(g, list, m + 1)
    BY <2>3 DEF IsFlat
  <2> QED
    BY <2>4
<1> HIDE DEF P
<1>3. T = {}
  <2> SUFFICES ASSUME T # {} PROVE FALSE
    OBVIOUS
  <2>1. PICK m \in T : \A i \in T : m <= i
    BY LeastNatural
  <2>2. m \in Nat /\ ~P(m)
    BY <2>1
  <2>3. m # 0
    BY <1>1, <2>2
  <2>4. m - 1 \in Nat /\ (m - 1) + 1 = m /\ ~(m <= m - 1)
    BY <2>2, <2>3
  <2>5. m - 1 \notin T
    BY <2>1, <2>4
  <2>6. P(m - 1)
    BY <2>4, <2>5
  <2>7. P((m - 1) + 1)
    BY <1>2, <2>4, <2>6
  <2> QED
    BY <2>2, <2>4, <2>7
<1> QED
  BY <1>3 DEF P

\* There is only one.
LEMMA FlatSame ==
    ASSUME NEW list, NEW n \in Nat, NEW m \in Nat, n <= m, NEW f, NEW g,
           IsFlat(f, list, n), IsFlat(g, list, m), NEW i \in 0..n
    PROVE  f[i] = g[i]
<1> DEFINE T == {j \in 0..n : f[j] # g[j]}
<1>1. T = {}
  <2> SUFFICES ASSUME T # {} PROVE FALSE
    OBVIOUS
  <2>1. T \subseteq Nat
    OBVIOUS
  <2>2. PICK j \in T : \A k \in T : j <= k
    BY <2>1, LeastNatural
  <2>3. j \in 0..n /\ j \in 0..m /\ f[j] # g[j]
    OBVIOUS
  <2>4. j # 0
    <3>1. f[0] = EmptyTree /\ g[0] = EmptyTree
      BY DEF IsFlat
    <3> QED
      BY <2>3, <3>1
  <2>5. j - 1 \in 0..n /\ ~(j <= j - 1)
    BY <2>3, <2>4
  <2>6. f[j - 1] = g[j - 1]
    BY <2>2, <2>5
  <2>7. f[j] = Overlay(f[j - 1], list[j]) /\ g[j] = Overlay(g[j - 1], list[j])
    BY <2>3, <2>4 DEF IsFlat
  <2> QED
    BY <2>3, <2>6, <2>7
<1> QED
  BY <1>1

\* It is the one that Flatten names.
LEMMA FlattenIs ==
    ASSUME NEW list, NEW n \in Nat
    PROVE  \E f : IsFlat(f, list, n) /\ Flatten(list, n) = f[n]
<1> DEFINE f == CHOOSE g : IsFlat(g, list, n)
<1>1. \E g : IsFlat(g, list, n)
  BY FlatExists
<1>2. IsFlat(f, list, n)
  BY <1>1
<1>3. Flatten(list, n) = f[n]
  BY DEF Flatten, IsFlat
<1> QED
  BY <1>2, <1>3

\* No layers mean the empty tree.
LEMMA FlattenNone ==
    ASSUME NEW list
    PROVE  Flatten(list, 0) = EmptyTree
<1>1. PICK f : IsFlat(f, list, 0) /\ Flatten(list, 0) = f[0]
  BY FlattenIs
<1>2. f[0] = EmptyTree
  BY <1>1 DEF IsFlat
<1> QED
  BY <1>1, <1>2

\* The next layer lies on top.
LEMMA FlattenNext ==
    ASSUME NEW list, NEW n \in Nat
    PROVE  Flatten(list, n + 1) = Overlay(Flatten(list, n), list[n + 1])
<1>1. PICK f : IsFlat(f, list, n) /\ Flatten(list, n) = f[n]
  BY FlattenIs
<1>2. n + 1 \in Nat /\ n <= n + 1 /\ n \in 0..n /\ n + 1 \in 0..(n + 1) /\ n + 1 # 0
  OBVIOUS
<1>3. PICK g : IsFlat(g, list, n + 1) /\ Flatten(list, n + 1) = g[n + 1]
  BY <1>2, FlattenIs
<1>4. f[n] = g[n]
  BY <1>1, <1>2, <1>3, FlatSame
<1>5. g[n + 1] = Overlay(g[(n + 1) - 1], list[n + 1])
  BY <1>2, <1>3 DEF IsFlat
<1>6. (n + 1) - 1 = n
  OBVIOUS
<1> QED
  BY <1>1, <1>3, <1>4, <1>5, <1>6

\* The tree of the first layers is a function.
LEMMA FlattenIsFunction ==
    ASSUME NEW list, NEW n \in Nat
    PROVE  Flatten(list, n) = [p \in DOMAIN Flatten(list, n) |-> Flatten(list, n)[p]]
<1>1. CASE n = 0
  <2>1. EmptyTree = [p \in DOMAIN EmptyTree |-> EmptyTree[p]]
    BY DEF EmptyTree
  <2> QED
    BY <1>1, <2>1, FlattenNone
<1>2. CASE n # 0
  <2>1. n - 1 \in Nat /\ (n - 1) + 1 = n
    BY <1>2
  <2>2. Flatten(list, n) = Overlay(Flatten(list, n - 1), list[n])
    BY <2>1, FlattenNext
  <2> QED
    BY <2>2, OverlayIsFunction
<1> QED
  BY <1>1, <1>2

\* Without a mode to apply nothing changes.
LEMMA NoModes ==
    ASSUME NEW t, t = [p \in DOMAIN t |-> t[p]], NEW list, list = <<>>
    PROVE  Chmodded(t, list) = t
<1>1. DOMAIN list = {}
  OBVIOUS
<1>2. Chmodded(t, list) = [p \in DOMAIN t |-> t[p]]
  BY <1>1 DEF Chmodded
<1> QED
  BY <1>2

-----------------------------------------------------------------------------
(* The image so far                                                        *)

\* The last layer is well-formed over the ones before it.
LEMMA WellFormedSoFar ==
    ASSUME NEW list, NEW n \in Nat \ {0}, AllWellFormed(list, n)
    PROVE  /\ AllWellFormed(list, n - 1)
           /\ WellFormed(Flatten(list, n - 1), list[n])
<1>1. n \in 1..n /\ \A i \in 1..(n - 1) : i \in 1..n
  OBVIOUS
<1> QED
  BY <1>1 DEF AllWellFormed

\* The layer at hand.
LEMMA LayerAtHand ==
    ASSUME CheckedSoFar, Unpacking, Imaging, what = "blob", step \notin {"done", "refused"}
    PROVE  /\ nth \in DOMAIN layers /\ Current = Wanted[nth] /\ entry \in Nat \ {0}
           /\ Genuine(nth) => Entries[nth] = Served.entries /\ Reached(Entries[nth], entry - 1)
           /\ AllWellFormed(Entries, nth) => Sound(Flatten(Entries, nth - 1), Entries[nth])
<1>1. LayersOK(layers) /\ layers = Wanted
  BY WantedIsList DEF CheckedSoFar
<1>2. nth \in DOMAIN layers
  BY <1>1 DEF Unpacking, LayersOK, IsList, CheckedSoFar
<1>3. Entries[nth] = Current.named.archive.entries /\ Current = Wanted[nth]
  BY <1>1, <1>2 DEF Entries, Current
<1>4. /\ IsList(Entries[nth]) /\ \A i \in DOMAIN Entries[nth] : EntryOK(Entries[nth][i])
      /\ IsList(Served.entries)
  BY <1>1, <1>2, <1>3 DEF LayersOK, BlobOK, Current, Served
<1>5. entry \in 1..(Len(Served.entries) + 1) /\ Len(Served.entries) \in Nat
  BY <1>4 DEF Unpacking, TypeOK, Current, Served, IsList
<1>6. entry \in Nat \ {0} /\ Reached(Served.entries, entry - 1)
  <2> DEFINE n == Len(Served.entries)
  <2>1. entry \in 1..(n + 1) /\ n \in Nat
    BY <1>5
  <2> HIDE DEF n
  <2>2. entry \in Nat \ {0} /\ entry - 1 \in Nat /\ entry - 1 <= n
    BY <2>1
  <2> QED
    BY <2>2 DEF n, Reached
<1>8. Genuine(nth) => Entries[nth] = Served.entries
  BY <1>3 DEF Genuine, Served
<1>7. ASSUME AllWellFormed(Entries, nth)
      PROVE  Sound(Flatten(Entries, nth - 1), Entries[nth])
  <2>1. nth \in Nat \ {0}
    BY DEF CheckedSoFar
  <2>2. AllWellFormed(Entries, nth - 1) /\ WellFormed(Flatten(Entries, nth - 1), Entries[nth])
    BY <1>7, <2>1, WellFormedSoFar
  <2>3. SmallTree(Flatten(Entries, nth - 1))
    BY <2>2 DEF Imaging
  <2>4. \A i \in DOMAIN Entries[nth] : SmallEntry(Entries[nth][i])
    BY <1>4, <2>2 DEF WellFormed, SmallEntry
  <2> QED
    BY <1>4, <2>2, <2>3, <2>4 DEF Sound
<1> QED
  BY <1>2, <1>3, <1>6, <1>7, <1>8

Early == {"request", "challenge", "again", "manifest"}

\* Setting modes does not change what is there.
LEMMA ChmoddedKeepsSmall ==
    ASSUME NEW t, SmallTree(t), NEW list
    PROVE  SmallTree(Chmodded(t, list))
<1> DEFINE u == Chmodded(t, list)
<1>1. TreeOK(u)
  BY ChmoddedKeepsTree DEF SmallTree
<1>4. DOMAIN u = DOMAIN t
  BY DEF Chmodded
<1>2. ASSUME NEW p \in DOMAIN t, IsLink(u, p) PROVE u[p] = t[p]
  <2>1. u[p] = t[p] \/ u[p].kind = "dir"
    BY DEF Chmodded, Dir
  <2> QED
    BY <1>2, <2>1 DEF IsLink
<1> HIDE DEF u
<1>3. SmallTree(u)
  BY <1>1, <1>2, <1>4 DEF SmallTree, IsLink
<1> QED
  BY <1>3 DEF u

\* Steps that leave the directory alone.
LEMMA ImagingFrame ==
    ASSUME Imaging, UNCHANGED <<image, what, layers, nth, entry, tree, modes>>,
           \/ step' = "refused" \/ step' = step
           \/ step \in Early /\ step' \in Early \cup {"archive"}
    PROVE  Imaging'
<1>1. Entries' = Entries /\ Genuine(nth)' = Genuine(nth)
  BY DEF Entries, Wanted, Matches, Chosen, Genuine
<1> QED
  BY <1>1 DEF Imaging, Early

\* The directory that a pull starts with.
LEMMA EmptyTreeOK == SmallTree(EmptyTree)
<1>1. DOMAIN EmptyTree = {<<>>} /\ EmptyTree[<<>>] = Dir("rw")
  BY DEF EmptyTree
<1>2. Dir("rw").kind = "dir" /\ <<>> \in Path(2) /\ <<>> \in Seq(STRING) /\ Above(<<>>) = {}
  BY DEF Dir, Path, Above
<1> QED
  BY <1>1, <1>2 DEF SmallTree, TreeOK, IsDir, IsLink

\* The first layer is unpacked into an empty directory.
LEMMA ImagingStart ==
    ASSUME Imaging, CheckedSoFar, Unpacking, ReadManifest
    PROVE  Imaging'
<1>1. Entries' = Entries
  BY DEF ReadManifest, Entries, Wanted, Matches, Chosen
<1>2. /\ UNCHANGED <<nth, entry, tree, modes>> /\ what # "blob" /\ nth = 1 /\ entry = 1
      /\ step' \in {"request", "refused"} /\ tree = EmptyTree /\ modes = <<>>
  BY DEF ReadManifest, layerVars, UseLayers, Fetch, Refuse, CheckedSoFar, Unpacking, Imaging
<1>3. Flatten(Entries, 0) = EmptyTree /\ SmallTree(EmptyTree)
  BY FlattenNone, EmptyTreeOK
<1>4. Stage(EmptyTree, Entries[1], 0, EmptyTree) /\ ModesOf(EmptyTree, Entries[1], 0, modes)
  BY <1>2, <1>3, StageStart
<1>5. 1 - 1 = 0
  OBVIOUS
<1> QED
  BY <1>1, <1>2, <1>3, <1>4, <1>5 DEF Imaging

\* An entry that is unpacked brings the directory one entry further.
LEMMA ImagingEntry ==
    ASSUME Imaging, CheckedSoFar, Unpacking, UntarEntry
    PROVE  Imaging'
<1>1. Entries' = Entries
  BY DEF UntarEntry, Entries, Wanted, Matches, Chosen
<1>2. step = "archive" /\ what = "blob" /\ UNCHANGED <<image, what, layers, nth>>
  BY DEF UntarEntry, CheckedSoFar
<1>3. CASE step' = "refused" /\ UNCHANGED <<tree, entry, modes>>
  BY <1>2, <1>3, ImagingFrame
<1>4. CASE /\ tree' \in Unpacked(tree, NextEntry)
           /\ entry' = entry + 1 /\ step' = step
           /\ modes' = IF NextEntry.kind # "dir" THEN modes
                       ELSE Append(modes, [path |-> joinInside(tree, NextEntry.path),
                                           mode |-> NextEntry.mode])
  <2> DEFINE lower == Flatten(Entries, nth - 1)
             layer == Entries[nth]
             n == entry - 1
  <2>1. /\ entry \in Nat \ {0}
        /\ Genuine(nth) => layer = Served.entries /\ Reached(layer, n)
        /\ AllWellFormed(Entries, nth) => Sound(lower, layer)
    BY <1>2, LayerAtHand
  <2>2. n + 1 = entry /\ entry' - 1 = n + 1 /\ entry' # 1
    BY <1>4, <2>1
  <2>3. ASSUME Genuine(nth) PROVE Reached(layer, n) /\ n # Len(layer) /\ NextEntry = layer[n + 1]
    <3>1. entry <= Len(layer)
      BY <2>1, <2>3 DEF UntarEntry
    <3> QED
      BY <2>1, <2>2, <2>3, <3>1 DEF NextEntry, Reached
  <2>4. TreeOK(tree) /\ modes \in Seq([path : Seq(STRING), mode : Modes])
    BY DEF Unpacking, TypeOK
  <2>5. ASSUME AllWellFormed(Entries, nth), Genuine(nth)
        PROVE  Stage(lower, layer, n + 1, tree') /\ ModesOf(lower, layer, n + 1, modes')
    <3>1. Sound(lower, layer) /\ AllWellFormed(Entries, nth - 1)
      BY <2>1, <2>5, WellFormedSoFar DEF CheckedSoFar
    <3>2. Stage(lower, layer, n, tree) /\ ModesOf(lower, layer, n, modes)
      BY <1>2, <2>5, <3>1 DEF Imaging
    <3> HIDE DEF lower, layer, n
    <3>9. SmallTree(tree) /\ Reached(layer, n)
      BY <2>3, <2>4, <2>5, <3>1, <3>2, StageIsSmall
    <3>3. Stage(lower, layer, n + 1, tree')
      BY <1>4, <2>3, <2>5, <3>1, <3>2, <3>9, StageStep
    <3>4. n + 1 \in DOMAIN layer
      BY <2>3, <2>5, <3>1, Entry
    <3>5. SameLinks(lower, layer, layer[n + 1], tree)
      BY <2>3, <2>5, <3>1, <3>2, <3>9, LinksAreThere DEF SameLinks
    <3>6. NextEntry.kind = "dir" => joinInside(tree, NextEntry.path) = At(lower, layer, n + 1)
      BY <2>3, <2>5, <3>1, <3>4, <3>5, <3>9, Resolved
    <3>7. modes' = IF layer[n + 1].kind # "dir" THEN modes
                   ELSE Append(modes, [path |-> At(lower, layer, n + 1), mode |-> layer[n + 1].mode])
      BY <1>4, <2>3, <2>5, <3>6
    <3>8. ModesOf(lower, layer, n + 1, modes')
      BY <2>3, <2>4, <2>5, <3>1, <3>2, <3>7, ModesStep
    <3> QED
      BY <3>3, <3>8
  <2>6. Genuine(nth)' = Genuine(nth)
    BY <1>2 DEF Genuine, Wanted, Matches, Chosen
  <2> QED
    BY <1>1, <1>2, <1>4, <2>2, <2>5, <2>6 DEF Imaging
<1> QED
  BY <1>3, <1>4 DEF UntarEntry, Refuse

\* Once the modes are set, the directory is what the layer means.
LEMMA ImagingModes ==
    ASSUME Imaging, CheckedSoFar, Unpacking, ApplyModes
    PROVE  Imaging'
<1> DEFINE lower == Flatten(Entries, nth - 1)
           layer == Entries[nth]
<1>1. Entries' = Entries
  BY DEF ApplyModes, Entries, Wanted, Matches, Chosen
<1>2. /\ step = "archive" /\ what = "blob" /\ UNCHANGED <<image, what, layers, nth, entry>>
      /\ step' = "digest" /\ modes' = <<>> /\ tree' = Chmodded(tree, modes)
      /\ nth \in Nat \ {0}
  BY DEF ApplyModes, CheckedSoFar
<1>3. /\ entry \in Nat \ {0}
      /\ Genuine(nth) => layer = Served.entries /\ Reached(layer, entry - 1)
      /\ AllWellFormed(Entries, nth) => Sound(lower, layer)
  BY <1>2, LayerAtHand
<1>4. ASSUME AllWellFormed(Entries, nth), Genuine(nth) PROVE entry - 1 = Len(layer)
  <2>1. entry > Len(layer) /\ Len(layer) \in Nat
    BY <1>3, <1>4 DEF ApplyModes, Sound, IsList
  <2> DEFINE n == Len(layer)
  <2>2. entry > n /\ n \in Nat /\ entry - 1 <= n /\ entry \in Nat
    BY <1>3, <1>4, <2>1 DEF Reached
  <2> HIDE DEF n
  <2>3. entry - 1 = n
    BY <2>2
  <2> QED
    BY <2>3 DEF n
<1>5. nth - 1 \in Nat /\ (nth - 1) + 1 = nth
  BY <1>2
<1>6. ASSUME entry = 1, AllWellFormed(Entries, nth - 1) PROVE tree' = lower
  <2>1. tree = lower /\ modes = <<>>
    BY <1>2, <1>6 DEF Imaging
  <2>2. lower = [p \in DOMAIN lower |-> lower[p]]
    BY <1>5, FlattenIsFunction
  <2> HIDE DEF lower
  <2> QED
    BY <1>2, <2>1, <2>2, NoModes
<1>7. ASSUME AllWellFormed(Entries, nth), Genuine(nth)
      PROVE  tree' = Flatten(Entries, nth) /\ SmallTree(tree')
  <2>1. Sound(lower, layer) /\ AllWellFormed(Entries, nth - 1)
    BY <1>2, <1>3, <1>7, WellFormedSoFar
  <2>2. /\ Stage(lower, layer, Len(layer), tree) /\ ModesOf(lower, layer, Len(layer), modes)
        /\ Reached(layer, Len(layer))
    BY <1>2, <1>3, <1>4, <1>7, <2>1 DEF Imaging
  <2>3. IsModes(modes) /\ TreeOK(tree)
    BY DEF Unpacking, TypeOK, IsModes
  <2>4. Flatten(Entries, nth) = Overlay(lower, layer)
    BY <1>5, FlattenNext
  <2> HIDE DEF lower, layer
  <2>5. Chmodded(tree, modes) = Overlay(lower, layer)
    BY <2>1, <2>2, <2>3, LayerDone
  <2>6. SmallTree(Chmodded(tree, modes))
    BY <2>1, <2>2, <2>3, StageIsSmall, ChmoddedKeepsSmall
  <2> QED
    BY <1>2, <2>4, <2>5, <2>6
<1>8. Genuine(nth)' = Genuine(nth)
  BY <1>2 DEF Genuine, Wanted, Matches, Chosen
<1> QED
  BY <1>1, <1>2, <1>6, <1>7, <1>8 DEF Imaging

\* After its digest the next layer starts from there.
LEMMA ImagingDigest ==
    ASSUME Imaging, CheckedSoFar, Unpacking, CheckDigest
    PROVE  Imaging'
<1>1. Entries' = Entries
  BY DEF CheckDigest, Entries, Wanted, Matches, Chosen
<1>2. /\ step = "digest" /\ what = "blob" /\ UNCHANGED <<image, what, layers, tree, modes>>
      /\ nth \in Nat \ {0}
  BY DEF CheckDigest, CheckedSoFar
<1>3. CASE step' = "refused" /\ UNCHANGED <<nth, entry>>
  BY <1>2, <1>3, ImagingFrame
<1>5. layers = Wanted /\ LayersOK(Wanted) /\ nth \in DOMAIN Wanted
  BY <1>2, LayerAtHand, WantedIsList DEF CheckedSoFar
<1>4. CASE NextLayer /\ (nth \in DOMAIN Wanted => Verified(nth))
  <2>1. nth' = nth + 1 /\ entry' = 1 /\ step' \in {"done", "request", "refused"}
    BY <1>4 DEF NextLayer, Fetch, Refuse
  <2>2. nth' - 1 = nth /\ entry' - 1 = 0
    BY <1>2, <2>1
  <2>3. ASSUME AllWellFormed(Entries, nth)
        PROVE  tree = Flatten(Entries, nth) /\ SmallTree(tree) /\ modes = <<>>
    <3>1. AllWellFormed(Entries, nth - 1)
      BY <1>2, <2>3, WellFormedSoFar
    <3>2. Genuine(nth)
      BY <1>4, <1>5 DEF Verified
    <3> QED
      BY <1>2, <2>3, <3>1, <3>2 DEF Imaging
  <2>4. ASSUME AllWellFormed(Entries, nth)
        PROVE  /\ Stage(tree, Entries[nth'], 0, tree)
               /\ ModesOf(tree, Entries[nth'], 0, modes)
    BY <2>3, <2>4, StageStart
  <2> QED
    BY <1>1, <1>2, <2>1, <2>2, <2>3, <2>4 DEF Imaging
<1> QED
  BY <1>3, <1>4, <1>5, DigestIs

\* No step puts anything else into the directory.
LEMMA ImagingStep ==
    ASSUME Imaging, CheckedSoFar, Unpacking, [Next]_vars
    PROVE  Imaging'
<1> USE DEF Refuse, requestVars, layerVars, Early
<1>1. CASE Request
  BY <1>1, ImagingFrame DEF Request, Answered
<1>2. CASE Authenticate
  BY <1>2, ImagingFrame DEF Authenticate
<1>3. CASE RequestAgain
  BY <1>3, ImagingFrame DEF RequestAgain, Answered
<1>4. CASE ReadManifest
  BY <1>4, ImagingStart
<1>5. CASE UntarEntry
  BY <1>5, ImagingEntry
<1>6. CASE UntarBroken
  BY <1>6, ImagingFrame DEF UntarBroken
<1>7. CASE ApplyModes
  BY <1>7, ImagingModes
<1>8. CASE CheckDigest
  BY <1>8, ImagingDigest
<1>9. CASE Expire
  BY <1>9, ImagingFrame DEF Expire
<1>10. CASE Fault
  BY <1>10, ImagingFrame DEF Fault
<1>11. CASE UNCHANGED vars
  BY <1>11, ImagingFrame DEF vars
<1> QED
  BY <1>1, <1>2, <1>3, <1>4, <1>5, <1>6, <1>7, <1>8, <1>9, <1>10, <1>11
     DEF Next, Pull

\* untar, applyDirModes, registryClient.layers: for any number of layers of any
\* length, with links and hard links, markers and modes, after every layer the
\* directory holds exactly what the layers so far mean, as long as each of them
\* is well-formed over those below it: its paths have at most two names, its links
\* lead to names at the top, and its entries come in an order that has one meaning.
THEOREM ImageIsUnpacked == Spec => []TreeIsImage
<1>1. Init => CheckedSoFar /\ Unpacking /\ Imaging
  <2> SUFFICES ASSUME Init PROVE CheckedSoFar /\ Unpacking /\ Imaging
    OBVIOUS
  <2>1. CheckedSoFar /\ Unpacking
    BY InitTypes
  <2>2. Imaging
    BY DEF Init, Imaging
  <2> QED
    BY <2>1, <2>2
<1>2. CheckedSoFar /\ Unpacking /\ Imaging /\ [Next]_vars => (CheckedSoFar /\ Unpacking /\ Imaging)'
  BY CheckedStep, UnpackingStep, ImagingStep
<1>3. Imaging => TreeIsImage
  BY DEF Imaging, TreeIsImage
<1> QED
  BY <1>1, <1>2, <1>3, PTL DEF Spec

-----------------------------------------------------------------------------
(* No entry of a layer that may be changed fails                           *)

\* The directories of t are new or as the lower layers have made them.
DirsOf(lower, t) ==
    \A q \in DOMAIN t : IsDir(t, q) => t[q] = Dir("rw") \/ (q \in DOMAIN lower /\ t[q] = lower[q])

\* What an unblocked layer changes can be written to.
LEMMA CanWrite ==
    ASSUME NEW lower, NEW layer, ~Blocked(lower, layer), NEW i \in DOMAIN layer,
           NEW t, DirsOf(lower, t), NEW q, IsDir(t, q),
           \/ IsStrictPrefix(q, At(lower, layer, i))
           \/ layer[i].kind # "dir" /\ IsPrefix(At(lower, layer, i), q)
    PROVE  Writable(t, q)
<1>1. CASE t[q] = Dir("rw")
  BY <1>1 DEF Writable, Dir
<1>2. CASE q \in DOMAIN lower /\ t[q] = lower[q]
  <2>1. IsDir(lower, q)
    BY <1>2 DEF IsDir
  <2>2. layer[i] \in Range(layer)
    BY DEF Range
  <2>3. Writable(lower, q)
    BY <1>2, <2>1, <2>2 DEF Blocked, At
  <2> QED
    BY <1>2, <2>3 DEF Writable, IsDir
<1> QED
  BY <1>1, <1>2 DEF DirsOf, IsDir

\* A path lies below its directory.
LEMMA BelowIsNotPrefix ==
    ASSUME NEW p \in Path(2), p # <<>>
    PROVE  Front(p) \in Path(2) /\ IsStrictPrefix(Front(p), p) /\ ~IsPrefix(p, Front(p))
<1>1. Front(p) \in Path(2) /\ Front(p) # p /\ Front(Front(p)) = <<>>
  BY Parent
<1> QED
  BY <1>1, AboveTwo

\* Nothing that is no directory stands in the way of a path but its parent.
LEMMA WayIsFree ==
    ASSUME NEW t, SmallTree(t), NEW p \in Path(2), IsDirOrNone(t, Front(p))
    PROVE  Unobstructed(t, p)
<1>1. p \in Seq(STRING) /\ Front(p) \in Path(1)
  BY Parent DEF Path
<1>2. ASSUME NEW q \in Above(p) PROVE q = Front(p) \/ q = <<>>
  BY <1>1, ParentAbove, AboveTop
<1>3. IsDirOrNone(t, <<>>)
  BY SmallIs DEF IsDirOrNone
<1> QED
  BY <1>2, <1>3 DEF Unobstructed

\* What an unblocked layer replaces or empties can be emptied.
LEMMA CanClear ==
    ASSUME NEW lower, NEW layer, ~Blocked(lower, layer), NEW i \in DOMAIN layer,
           layer[i].kind # "dir", At(lower, layer, i) \in Path(2),
           NEW t, SmallTree(t), DirsOf(lower, t)
    PROVE  Clearable(t, At(lower, layer, i))
<1> DEFINE p == At(lower, layer, i)
<1>1. ASSUME NEW q \in {p} \cup Below(t, p), Below(t, q) # {} PROVE Writable(t, q)
  <2>1. q \in Path(2) /\ IsPrefix(p, q)
    BY AboveTwo, SmallIs DEF Below
  <2>2. IsDir(t, q)
    BY <1>1, <2>1, SmallAbove DEF Below
  <2> QED
    BY <2>1, <2>2, CanWrite
<1> QED
  BY <1>1 DEF Clearable

\* A path with nothing below it can be replaced.
LEMMA LeafIsClear ==
    ASSUME NEW t, NEW p, Below(t, p) = {}
    PROVE  Clearable(t, p)
BY DEF Clearable

\* A path can be removed when its directory, and itself, can be written to.
LEMMA CanRemove ==
    ASSUME NEW t, SmallTree(t), NEW p \in Path(2), p # <<>>,
           IsDirOrNone(t, Front(p)),
           p \in DOMAIN t => Writable(t, Front(p)), Clearable(t, p)
    PROVE  RemoveAll(t, p) # {}
BY WayIsFree DEF RemoveAll, When

\* Then a new node can take its place.
LEMMA CanPlace ==
    ASSUME NEW t, SmallTree(t), NEW p \in Path(2), p # <<>>, NEW node,
           Writable(t, Front(p)), Clearable(t, p)
    PROVE  Place(t, p, node) # {}
<1>1. PICK u : u \in RemoveAll(t, p)
  BY CanRemove DEF Writable, IsDirOrNone
<1>2. DOMAIN u = {q \in DOMAIN t : ~IsPrefix(p, q)} /\ \A q \in DOMAIN u : u[q] = t[q]
  BY <1>1, SmallRemove
<1>3. Writable(u, Front(p))
  BY <1>2, BelowIsNotPrefix DEF Writable, IsDir
<1>4. Put(u, p, node) \in Place(t, p, node)
  BY <1>1, <1>3 DEF Place, When
<1> QED
  BY <1>4

\* And so can a link to a file that is not removed with it.
LEMMA CanLink ==
    ASSUME NEW t, SmallTree(t), NEW p \in Path(2), p # <<>>, NEW source \in DOMAIN t,
           ~IsDir(t, source), ~IsPrefix(p, source),
           Writable(t, Front(p)), Clearable(t, p)
    PROVE  Link(t, p, source) # {}
<1>1. PICK u : u \in RemoveAll(t, p)
  BY CanRemove DEF Writable, IsDirOrNone
<1>2. DOMAIN u = {q \in DOMAIN t : ~IsPrefix(p, q)} /\ \A q \in DOMAIN u : u[q] = t[q]
  BY <1>1, SmallRemove
<1>3. Writable(u, Front(p))
  BY <1>2, BelowIsNotPrefix DEF Writable, IsDir
<1>4. source \in DOMAIN u /\ ~IsDir(u, source)
  BY <1>2 DEF IsDir
<1>5. SmallTree(u)
  BY <1>1, SmallRemove
<1>6. Below(u, p) = {}
  <2>1. \A q \in DOMAIN u : q \in Path(2)
    BY <1>5, SmallIs
  <2>2. \A q \in DOMAIN u : ~IsStrictPrefix(p, q)
    BY <1>2, <2>1, AboveTwo
  <2> QED
    BY <2>2 DEF Below
<1>7. Place(u, p, u[source]) # {}
  BY <1>3, <1>5, <1>6, CanPlace, LeafIsClear
<1>8. PICK v : v \in Place(u, p, u[source])
  BY <1>7
<1>9. v \in Link(t, p, source)
  BY <1>1, <1>4, <1>8 DEF Link
<1> QED
  BY <1>9

\* What is no directory is one of the layer's own, or left from below.
LEMMA NoDirIs ==
    ASSUME NEW lower, NEW layer, NEW n, NEW t, Sound(lower, layer), Reached(layer, n),
           Stage(lower, layer, n, t), NEW q \in DOMAIN t, ~IsDir(t, q)
    PROVE  \/ ~IsDirOrNone(Overlay(lower, layer), q)
           \/ q \in Staying(lower, layer, n) /\ q \notin Added(lower, layer, n)
              /\ ~IsDirOrNone(lower, q)
<1> DEFINE result == Overlay(lower, layer)
<1>1. ASSUME NEW i \in Owns(layer), q = At(lower, layer, i), t[q] = NodeOf(layer[i])
      PROVE  ~IsDirOrNone(result, q)
  BY <1>1, ResultIs DEF IsDirOrNone, IsDir
<1>2. ASSUME NEW i \in Hards(layer), q = At(lower, layer, i)
      PROVE  ~IsDirOrNone(result, q)
  BY <1>2, ResultIs DEF IsDirOrNone
<1>3. CASE q \in Staying(lower, layer, n) /\ q \notin Added(lower, layer, n) /\ t[q] = lower[q]
  BY <1>3 DEF IsDirOrNone, IsDir, Staying
<1>4. t[q] # Dir("rw")
  BY DEF IsDir, Dir
<1> QED
  BY <1>1, <1>2, <1>3, <1>4, StageNode

\* The directory of an entry that is left from below stays to the end.
LEMMA OpenedStays ==
    ASSUME NEW lower, NEW layer, NEW n, Sound(lower, layer), Reached(layer, n), n # Len(layer),
           layer[n + 1].kind # "opaque", At(lower, layer, n + 1) # <<>>,
           Front(At(lower, layer, n + 1)) \in Staying(lower, layer, n),
           Front(At(lower, layer, n + 1)) \notin Added(lower, layer, n)
    PROVE  LET f == Front(At(lower, layer, n + 1)) IN
           f \in DOMAIN Overlay(lower, layer) /\ Overlay(lower, layer)[f] = lower[f]
<1> DEFINE p == At(lower, layer, n + 1)
           f == Front(p)
           upper == Upper(lower, layer)
           result == Overlay(lower, layer)
<1>1. n + 1 \in DOMAIN layer /\ p \in Path(2)
  BY Entry, Places
<1>2. f \in Path(2) /\ IsStrictPrefix(f, p) /\ ~IsPrefix(p, f) /\ Front(f) = <<>>
  BY <1>1, BelowIsNotPrefix, Parent
<1>3. ASSUME NEW i \in DOMAIN layer PROVE i \in 1..n \/ i = n + 1 \/ n + 1 < i
  BY Entry
<1>4. ASSUME NEW i \in DOMAIN layer, n + 1 < i PROVE ~IsPrefix(At(lower, layer, i), f)
  <2>1. ~IsStrictPrefix(At(lower, layer, i), p) /\ At(lower, layer, i) \in Path(2)
    BY <1>1, <1>4, Order, Places
  <2> QED
    BY <1>1, <1>2, <2>1, AboveTwo
<1>5. ASSUME NEW i \in DOMAIN layer PROVE ~Hides(lower, layer, layer[i], f)
  <2>1. CASE i \in 1..n
    BY <2>1 DEF Staying
  <2>2. CASE i = n + 1
    BY <1>2, <2>2 DEF Hides, At
  <2>3. CASE n + 1 < i
    <3>1. ~IsPrefix(At(lower, layer, i), f) /\ At(lower, layer, i) \in Path(2)
      BY <1>4, <2>3, Places
    <3>2. ~IsStrictPrefix(At(lower, layer, i), f)
      BY <1>2, <3>1, AboveTwo
    <3> QED
      BY <3>1, <3>2 DEF Hides, At
  <2> QED
    BY <1>3, <2>1, <2>2, <2>3
<1>6. f \in Kept(lower, layer)
  BY <1>5 DEF Kept, Staying, Range
<1>7. ASSUME NEW i \in Owns(layer) \cup Hards(layer) PROVE f # At(lower, layer, i)
  <2>1. i \in DOMAIN layer /\ layer[i].kind \in Adds
    BY DEF Owns, Hards, Adds
  <2>2. CASE i \in 1..n
    BY <2>1, <2>2 DEF Added
  <2>3. CASE i = n + 1
    BY <1>1, <1>2, <2>3, AboveTwo
  <2>4. CASE n + 1 < i
    BY <1>2, <1>4, <2>1, <2>4, AboveTwo
  <2> QED
    BY <1>3, <2>1, <2>2, <2>3, <2>4
<1>8. UpperMeans(lower, layer, upper) /\ OverlayMeans(lower, layer, upper, result)
  BY UpperIs, OverlayIs
<1> HIDE DEF f, p, upper, result
<1>9. f \in DOMAIN upper /\ upper[f] = lower[f]
  BY <1>6, <1>7, <1>8 DEF UpperMeans
<1>10. f \in DOMAIN result /\ result[f] = lower[f]
  BY <1>7, <1>8, <1>9 DEF OverlayMeans
<1> QED
  BY <1>10 DEF f, p, result

\* What an opaque marker names can be emptied.
LEMMA OpaqueWorks ==
    ASSUME NEW lower, NEW layer, NEW n, NEW t, Sound(lower, layer), Reached(layer, n),
           n # Len(layer), SmallTree(t), Stage(lower, layer, n, t), ~Blocked(lower, layer),
           layer[n + 1].kind = "opaque"
    PROVE  clearDir(t, At(lower, layer, n + 1)) # {}
<1> DEFINE p == At(lower, layer, n + 1)
<1>1. n + 1 \in DOMAIN layer /\ p \in Path(2) /\ p \in Path(1)
  BY Entry, Places
<1>2. DirsOf(lower, t)
  BY DEF Stage, DirsOf
<1>3. IsDirOrNone(lower, p) /\ IsDirOrNone(Overlay(lower, layer), p)
  BY <1>1, Grounded
<1> HIDE DEF p
<1>4. p \in DOMAIN t => IsDir(t, p)
  BY <1>3, NoDirIs
<1>5. Clearable(t, p)
  BY <1>1, <1>2, CanClear DEF p
<1>6. Unobstructed(t, p)
  <2>1. IsDirOrNone(t, Front(p))
    BY <1>1, Parent, SmallIs DEF IsDirOrNone
  <2> QED
    BY <1>1, <2>1, WayIsFree
<1> QED
  BY <1>4, <1>5, <1>6 DEF p, clearDir, When

\* What a whiteout names can be removed.
LEMMA WhiteoutWorks ==
    ASSUME NEW lower, NEW layer, NEW n, NEW t, Sound(lower, layer), Reached(layer, n),
           n # Len(layer), SmallTree(t), Stage(lower, layer, n, t), ~Blocked(lower, layer),
           layer[n + 1].kind = "whiteout"
    PROVE  RemoveAll(t, At(lower, layer, n + 1)) # {}
<1> DEFINE p == At(lower, layer, n + 1)
           f == Front(p)
<1>1. n + 1 \in DOMAIN layer /\ p \in Path(2) /\ p # <<>>
  BY Entry, Places
<1>2. DirsOf(lower, t)
  BY DEF Stage, DirsOf
<1>3. IsDirOrNone(lower, f) /\ IsDirOrNone(Overlay(lower, layer), f)
  BY <1>1, Grounded
<1>4. IsStrictPrefix(f, p) /\ IsPrefix(p, p)
  BY <1>1, BelowIsNotPrefix, AboveTwo
<1> HIDE DEF f
<1>5. IsDirOrNone(t, f)
  BY <1>3, NoDirIs DEF IsDirOrNone
<1>6. p \in DOMAIN t => IsDir(t, f)
  BY <1>1, SmallIs DEF f
<1>7. IsDir(t, f) => Writable(t, f)
  BY <1>1, <1>2, <1>4, CanWrite
<1>9. Clearable(t, p)
  BY <1>1, <1>2, CanClear
<1> QED
  BY <1>1, <1>5, <1>6, <1>7, <1>9, CanRemove DEF f

\* There is a directory for every entry that makes something.
LEMMA OpenWorks ==
    ASSUME NEW lower, NEW layer, NEW n, NEW t, Sound(lower, layer), Reached(layer, n),
           n # Len(layer), SmallTree(t), Stage(lower, layer, n, t), ~Blocked(lower, layer),
           layer[n + 1].kind \notin {"whiteout", "opaque"}
    PROVE  MkdirAll(t, Front(At(lower, layer, n + 1))) # {}
<1> DEFINE p == At(lower, layer, n + 1)
           f == Front(p)
<1>1. n + 1 \in DOMAIN layer /\ p \in Path(2)
  BY Entry, Places
<1>2. DirsOf(lower, t) /\ IsDir(t, <<>>)
  BY SmallIs DEF Stage, DirsOf
<1>3. IsDirOrNone(Overlay(lower, layer), f)
  BY <1>1, Grounded
<1>4. f \in Path(1) /\ f \in Path(2) /\ Front(f) = <<>> /\ (p = <<>> => f = <<>>)
  BY <1>1, Parent
<1>5. ASSUME f \in DOMAIN t PROVE IsDir(t, f)
  <2>1. ASSUME ~IsDir(t, f) PROVE FALSE
    <3>1. p # <<>>
      BY <1>2, <1>4, <2>1
    <3>2. /\ f \in Staying(lower, layer, n) /\ f \notin Added(lower, layer, n)
          /\ ~IsDirOrNone(lower, f)
      <4> HIDE DEF f
      <4> QED
        BY <1>3, <1>5, <2>1, NoDirIs
    <3>3. f \in DOMAIN Overlay(lower, layer) /\ Overlay(lower, layer)[f] = lower[f]
      BY <3>1, <3>2, OpenedStays
    <3> QED
      BY <1>3, <3>2, <3>3 DEF IsDirOrNone, IsDir, Staying
  <2> QED
    BY <2>1
<1>6. ASSUME f \notin DOMAIN t PROVE Writable(t, Front(f))
  <2>1. p # <<>>
    BY <1>2, <1>4, <1>6 DEF IsDir
  <2>2. IsStrictPrefix(<<>>, p)
    <3>1. <<>> \in Path(2)
      BY DEF Path
    <3> HIDE DEF p
    <3> QED
      BY <1>1, <2>1, <3>1, AboveTwo
  <2>3. Writable(t, <<>>)
    BY <1>1, <1>2, <2>2, CanWrite
  <2> QED
    BY <1>4, <2>3
<1> HIDE DEF f
<1>7. Above(f) \subseteq {<<>>}
  BY <1>4, AboveTop
<1>8. MkdirAll(t, f) # {}
  <2>1. Unobstructed(t, f) /\ IsDirOrNone(t, f)
    BY <1>2, <1>5, <1>7 DEF Unobstructed, IsDirOrNone
  <2>2. ({f} \cup Above(f)) \ DOMAIN t \subseteq {f}
    BY <1>2, <1>7 DEF IsDir
  <2>3. \A q \in ({f} \cup Above(f)) \ DOMAIN t : Writable(t, Front(q))
    BY <1>6, <2>2
  <2> QED
    BY <2>1, <2>3 DEF MkdirAll, When
<1> QED
  BY <1>8 DEF f

\* Then every entry can be made.
LEMMA MakeWorks ==
    ASSUME NEW lower, NEW layer, NEW n, NEW t, Sound(lower, layer), Reached(layer, n),
           n # Len(layer), SmallTree(t), Stage(lower, layer, n, t), ~Blocked(lower, layer),
           layer[n + 1].kind \notin {"whiteout", "opaque"},
           NEW u \in MkdirAll(t, Front(At(lower, layer, n + 1)))
    PROVE  Make(u, At(lower, layer, n + 1), layer[n + 1]) # {}
<1> DEFINE p == At(lower, layer, n + 1)
           e == layer[n + 1]
           f == Front(p)
<1>1. n + 1 \in DOMAIN layer /\ p \in Path(2)
  BY Entry, Places
<1>2. SmallTree(u) /\ IsDir(u, f) /\ Ready(lower, layer, n, u)
  BY StageReady
<1>3. DirsOf(lower, u) /\ IsDir(u, <<>>)
  BY <1>2, SmallIs DEF Ready, DirsOf
<1>4. p # <<>> => Writable(u, f)
  <2>1. p # <<>> => IsStrictPrefix(f, p)
    BY <1>1, BelowIsNotPrefix
  <2> HIDE DEF f
  <2> QED
    BY <1>1, <1>2, <1>3, <2>1, CanWrite
<1>5. Below(u, p) # {} => IsDir(u, p)
  BY <1>1, <1>2, SmallAbove DEF Below
<1>6. e.kind # "dir" => Clearable(u, p)
  BY <1>1, <1>2, <1>3, CanClear
<1>7. CASE e.kind = "dir"
  <2>1. CASE IsDir(u, p)
    BY <1>7, <2>1 DEF Make
  <2>2. CASE ~IsDir(u, p)
    <3>1. p # <<>> /\ Below(u, p) = {}
      BY <1>3, <1>5, <2>2
    <3>2. Place(u, p, Dir("rw")) # {}
      BY <1>1, <1>2, <1>4, <3>1, CanPlace, LeafIsClear
    <3> QED
      BY <1>7, <2>2, <3>2 DEF Make
  <2> QED
    BY <2>1, <2>2
<1>8. CASE e.kind \in {"file", "link", "fifo"}
  <2>1. p # <<>>
    BY <1>1, <1>8, RootIsDir
  <2>2. Place(u, p, NodeOf(e)) # {}
    BY <1>1, <1>2, <1>4, <1>6, <1>8, <2>1, CanPlace
  <2> QED
    BY <1>8, <2>2 DEF Make
<1>9. CASE e.kind = "hard"
  <2> DEFINE s == Source(lower, layer, e)
  <2>1. p # <<>>
    BY <1>1, <1>9, RootIsDir
  <2>2. SameLinks(lower, layer, e, t)
    BY LinksAreThere DEF SameLinks
  <2>3. f \in Path(1)
    BY <1>1, Parent
  <2>4. SameLinks(lower, layer, e, u)
    BY <2>2, <2>3, MkdirKeepsLinks DEF SameLinks
  <2>5. joinInside(u, e.to) = s /\ ~Looping(u, Front(e.to))
    BY <1>1, <1>2, <1>9, <2>4, Resolved
  <2>6. s \in DOMAIN t /\ ~IsDir(t, s) /\ ~IsPrefix(p, s)
    BY <1>9, SourceIs
  <2>7. Opened1(u, t, f)
    BY <2>3, SmallMkdir
  <2> HIDE DEF s
  <2>8. s \in DOMAIN u /\ ~IsDir(u, s)
    BY <2>6, <2>7 DEF Opened1, IsDir
  <2>9. Link(u, p, s) # {}
    BY <1>1, <1>2, <1>4, <1>6, <1>9, <2>1, <2>6, <2>8, CanLink
  <2> QED
    BY <1>9, <2>5, <2>9 DEF Make
<1>10. CASE e.kind \notin {"dir", "file", "link", "fifo", "hard"}
  BY <1>10 DEF Make
<1> QED
  BY <1>7, <1>8, <1>9, <1>10

\* untar: no entry of such a layer fails.
LEMMA NeverStuck ==
    ASSUME NEW lower, NEW layer, NEW n, NEW t, Sound(lower, layer), Reached(layer, n),
           n # Len(layer), SmallTree(t), Stage(lower, layer, n, t), ~Blocked(lower, layer)
    PROVE  Unpacked(t, layer[n + 1]) # {}
<1> DEFINE p == At(lower, layer, n + 1)
           e == layer[n + 1]
<1>1. n + 1 \in DOMAIN layer
  BY Entry
<1>2. SameLinks(lower, layer, e, t)
  BY LinksAreThere DEF SameLinks
<1>3. CASE e.kind = "opaque"
  <2>1. Follow(t, e.path) = p /\ ~Looping(t, e.path)
    BY <1>1, <1>2, <1>3, Resolved
  <2>2. clearDir(t, p) # {}
    BY <1>3, OpaqueWorks
  <2> HIDE DEF p, e
  <2>3. Unpacked(t, e) = clearDir(t, p)
    BY <1>3, <2>1 DEF Unpacked
  <2> QED
    BY <2>2, <2>3 DEF e
<1>4. CASE e.kind # "opaque"
  <2>1. joinInside(t, e.path) = p /\ ~Looping(t, Front(e.path))
    BY <1>1, <1>2, <1>4, Resolved
  <2>2. CASE e.kind = "whiteout"
    <3>1. RemoveAll(t, p) # {}
      BY <2>2, WhiteoutWorks
    <3> QED
      BY <1>4, <2>1, <2>2, <3>1 DEF Unpacked
  <2>3. CASE e.kind # "whiteout"
    <3>1. PICK u : u \in MkdirAll(t, Front(p))
      BY <1>4, <2>3, OpenWorks
    <3>2. PICK v : v \in Make(u, p, e)
      BY <1>4, <2>3, <3>1, MakeWorks
    <3> HIDE DEF p, e
    <3>3. v \in Unpacked(t, e)
      BY <1>4, <2>1, <2>3, <3>1, <3>2 DEF Unpacked
    <3> QED
      BY <3>3 DEF e
  <2> QED
    BY <2>2, <2>3
<1> QED
  BY <1>3, <1>4

-----------------------------------------------------------------------------
(* Nothing else refuses an intact image                                    *)

\* Other reasons to refuse a pull.
LEMMA ExtractedFrame ==
    ASSUME IntactIsExtracted, UNCHANGED <<image, nth>>,
           reason' = reason \/ reason' \notin {"entry", "stream", "digest"}
    PROVE  IntactIsExtracted'
<1>1. Entries' = Entries /\ Wanted' = Wanted
  BY DEF Entries, Wanted, Matches, Chosen
<1> QED
  BY <1>1 DEF IntactIsExtracted, Intact

\* An entry that fails is one of a layer that may fail.
LEMMA ExtractedEntry ==
    ASSUME IntactIsExtracted, Imaging, CheckedSoFar, Unpacking, UntarEntry
    PROVE  IntactIsExtracted'
<1>1. Entries' = Entries /\ Wanted' = Wanted /\ UNCHANGED <<image, nth>>
  BY DEF UntarEntry, Entries, Wanted, Matches, Chosen
<1>2. step = "archive" /\ what = "blob"
  BY DEF UntarEntry, CheckedSoFar
<1>3. CASE UNCHANGED reason
  BY <1>1, <1>3, ExtractedFrame
<1>4. CASE Unpacked(tree, NextEntry) = {}
  <2> DEFINE lower == Flatten(Entries, nth - 1)
             layer == Entries[nth]
             n == entry - 1
  <2>1. ASSUME Intact(nth), AllWellFormed(Entries, nth), ~Blocked(lower, layer) PROVE FALSE
    <3>0. Genuine(nth)
      BY <2>1 DEF Intact, Genuine
    <3>1. /\ layer = Served.entries /\ entry \in Nat \ {0} /\ Reached(layer, n)
          /\ Sound(lower, layer)
      BY <1>2, <2>1, <3>0, LayerAtHand
    <3>2. n + 1 = entry
      BY <3>1
    <3>3. n # Len(layer) /\ NextEntry = layer[n + 1]
      <4>1. entry <= Len(layer)
        BY <3>1 DEF UntarEntry
      <4> QED
        BY <3>1, <3>2, <4>1 DEF NextEntry, Reached
    <3>4. AllWellFormed(Entries, nth - 1)
      BY <2>1, WellFormedSoFar DEF CheckedSoFar
    <3>5. Stage(lower, layer, n, tree) /\ TreeOK(tree)
      BY <1>2, <2>1, <3>0, <3>4 DEF Imaging, Unpacking, TypeOK
    <3> HIDE DEF lower, layer, n
    <3>7. SmallTree(tree)
      BY <3>1, <3>5, StageIsSmall
    <3>6. Unpacked(tree, layer[n + 1]) # {}
      BY <2>1, <3>1, <3>3, <3>5, <3>7, NeverStuck
    <3> QED
      BY <1>4, <3>3, <3>6
  <2> QED
    BY <1>1, <2>1 DEF IntactIsExtracted, Intact
<1> QED
  BY <1>3, <1>4 DEF UntarEntry

\* The digest of an intact blob that ends with its archive is right.
LEMMA IntactHasDigest ==
    ASSUME CheckDigest, ~NextLayer, LayersOK(Wanted), nth \in DOMAIN Wanted, layers = Wanted
    PROVE  ~Intact(nth) \/ Wanted[nth].named.tail # <<>>
<1> SUFFICES ASSUME Intact(nth), Wanted[nth].named.tail = <<>> PROVE FALSE
  OBVIOUS
<1> DEFINE tail == Current.served.tail
<1>1. PICK read \in 0..Len(tail) :
        [archive |-> Served, tail |-> SubSeq(tail, 1, read)] # Current.named
  BY DEF CheckDigest
<1>2. Current.served = Current.named /\ tail = <<>>
  BY DEF Intact, Current
<1>3. read = 0 /\ SubSeq(tail, 1, read) = <<>>
  BY <1>2
<1>4. Current.named = [archive |-> Current.named.archive, tail |-> Current.named.tail]
  BY DEF LayersOK, BlobOK, Current
<1> QED
  BY <1>1, <1>2, <1>3, <1>4 DEF Served

\* No step refuses an intact image for another reason.
LEMMA ExtractedStep ==
    ASSUME IntactIsExtracted, Imaging, CheckedSoFar, NewToken, Unpacking, [Next]_vars
    PROVE  IntactIsExtracted'
<1> USE DEF Refuse, requestVars, layerVars
<1>1. step # "refused" => reason = "none"
  BY DEF NewToken
<1>2. CASE Request
  BY <1>2, ExtractedFrame DEF Request
<1>3. CASE Authenticate
  BY <1>3, ExtractedFrame DEF Authenticate
<1>4. CASE RequestAgain
  BY <1>4, ExtractedFrame DEF RequestAgain
<1>5. CASE ReadManifest
  BY <1>5, ExtractedFrame DEF ReadManifest, UseLayers, Fetch
<1>6. CASE UntarEntry
  BY <1>6, ExtractedEntry
<1>7. CASE UntarBroken \/ CheckDigest
  <2>1. what = "blob" /\ UNCHANGED image
    BY <1>7 DEF UntarBroken, CheckDigest, CheckedSoFar
  <2>2. Wanted' = Wanted
    BY <2>1 DEF Wanted, Matches, Chosen
  <2>3. LayersOK(Wanted) /\ Current = Wanted[nth] /\ nth \in DOMAIN Wanted /\ layers = Wanted
    BY <1>7, <2>1, LayerAtHand, WantedIsList DEF CheckedSoFar, Current, UntarBroken, CheckDigest
  <2>5. CASE UntarBroken
    <3>1. UNCHANGED nth /\ ~Intact(nth)
      BY <2>3, <2>5 DEF UntarBroken, Served, Intact
    <3> QED
      BY <2>2, <3>1 DEF IntactIsExtracted, Intact
  <2>6. CASE CheckDigest /\ NextLayer
    <3>1. reason' \in {"none", "media"}
      BY <1>1, <2>6 DEF CheckDigest, NextLayer, Fetch
    <3> QED
      BY <3>1 DEF IntactIsExtracted
  <2>7. CASE CheckDigest /\ ~NextLayer
    <3>1. UNCHANGED nth
      BY <2>7 DEF CheckDigest
    <3>2. ~Intact(nth) \/ Wanted[nth].named.tail # <<>>
      BY <2>3, <2>7, IntactHasDigest
    <3> QED
      BY <2>2, <3>1, <3>2 DEF IntactIsExtracted, Intact
  <2> QED
    BY <1>7, <2>5, <2>6, <2>7
<1>8. CASE ApplyModes
  BY <1>8, ExtractedFrame DEF ApplyModes
<1>9. CASE Expire
  BY <1>9, ExtractedFrame DEF Expire
<1>10. CASE Fault
  BY <1>10, ExtractedFrame DEF Fault
<1>11. CASE UNCHANGED vars
  BY <1>11, ExtractedFrame DEF vars
<1> QED
  BY <1>2, <1>3, <1>4, <1>5, <1>6, <1>7, <1>8, <1>9, <1>10, <1>11 DEF Next, Pull

\* untar, extractLayer: no pull fails on an entry, a stream or a digest of an intact
\* layer that is, like all before it, well-formed (paths of at most two names, links
\* to names at the top, one meaning), unless it changes a directory that is
\* read-only, or ends in bytes that untar may leave unread.
THEOREM IntactImageIsExtracted == Spec => []IntactIsExtracted
<1>1. Init => CheckedSoFar /\ Unpacking /\ Imaging /\ NewToken /\ IntactIsExtracted
  <2> SUFFICES ASSUME Init
               PROVE  CheckedSoFar /\ Unpacking /\ Imaging /\ NewToken /\ IntactIsExtracted
    OBVIOUS
  <2>1. CheckedSoFar /\ Unpacking
    BY InitTypes
  <2>2. Imaging
    BY DEF Init, Imaging
  <2>3. NewToken /\ IntactIsExtracted
    BY ImagesOK DEF Init, NewToken, TokensRenewed, IntactIsExtracted
  <2> QED
    BY <2>1, <2>2, <2>3
<1>2. /\ CheckedSoFar /\ Unpacking /\ Imaging /\ NewToken /\ IntactIsExtracted
      /\ [Next]_vars
      => (CheckedSoFar /\ Unpacking /\ Imaging /\ NewToken /\ IntactIsExtracted)'
  BY CheckedStep, UnpackingStep, ImagingStep, TokenStep, ExtractedStep
<1> QED
  BY <1>1, <1>2, PTL DEF Spec
=============================================================================
