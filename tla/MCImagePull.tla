---------------------------- MODULE MCImagePull ----------------------------
EXTENDS ImagePull

MCMasked == [m \in {"ro", "rw", "all"} |-> IF m = "all" THEN "rw" ELSE m]

A == <<"a">>
B == <<"b">>
C == <<"c">>
AF == <<"a", "f">>
BF == <<"b", "f">>
CF == <<"c", "f">>

D(p, m) == [kind |-> "dir", path |-> p, mode |-> m]
F(p, d) == [kind |-> "file", path |-> p, mode |-> "all", data |-> d]
L(p, q) == [kind |-> "link", path |-> p, to |-> q, slash |-> FALSE]
H(p, q) == [kind |-> "hard", path |-> p, to |-> q]
Other(k, p) == [kind |-> k, path |-> p, mode |-> "rw"]

Bottoms ==
    {<<D(A, "ro"), F(AF, 1), L(B, A)>>,
     <<D(A, "all"), F(AF, 1), H(BF, AF)>>,
     <<L(A, B), L(B, A)>>,
     <<D(A, "all"), F(AF, 1), L(C, B), L(B, A)>>,
     <<D(<<>>, "all"), F(A, 1), L(B, A)>>,
     <<D(A, "rw"), L(A, B), D(A, "ro")>>}

AllEntries ==
    {D(A, "ro"), D(A, "all"), D(B, "rw"), F(A, 2), F(AF, 2), F(BF, 2), L(A, B), L(B, A),
     H(BF, AF), H(AF, BF), H(B, AF), Other("fifo", AF), Other("device", BF),
     Other("whiteout", A), Other("whiteout", AF), Other("whiteout", BF),
     Other("opaque", A), Other("opaque", B), Other("opaque", <<>>),
     F(CF, 2), L(B, C), H(CF, AF), Other("whiteout", B), Other("opaque", C)}

Middles == {<<>>} \cup {<<e>> : e \in AllEntries} \cup (AllEntries \X AllEntries)
Tops == {<<F(AF, 3)>>, <<D(B, "ro"), F(BF, 3)>>}

\* Longer paths, links below the top, and links with a slash.
AB == <<"a", "b">>
ABF == <<"a", "b", "f">>
Nested ==
    {<<D(A, "rw"), F(ABF, 1), L(C, AB), L(<<"a", "l">>, C)>>,
     <<D(AB, "ro"), F(ABF, 1), [L(C, A) EXCEPT !.slash = TRUE]>>,
     <<L(<<"a", "l">>, <<"c", "l">>), L(C, A), D(BF, "all")>>}
NestedEntries ==
    {D(<<"c", "b">>, "ro"), F(<<"a", "l", "f", "g">>, 2), F(<<"c", "f", "g">>, 2), L(A, B),
     H(<<"a", "l", "g">>, ABF), L(AB, <<>>), [L(A, B) EXCEPT !.slash = TRUE],
     Other("whiteout", <<"a", "l", "f">>), Other("whiteout", A), Other("opaque", A),
     Other("opaque", <<"a", "l">>), D(ABF, "all")}

Blob(entries, form, tail) == [archive |-> [entries |-> entries, form |-> form], tail |-> tail]
Gzip(named, served) == [media |-> "gzip", named |-> named, served |-> served]
Good(entries) == Gzip(Blob(entries, 1, <<>>), Blob(entries, 1, <<>>))
Plain(list) == [auth |-> "open", index |-> <<>>, layers |-> list]

Few == <<Good(<<D(A, "ro")>>), Good(<<L(B, A)>>)>>

\* Blobs whose entries, whose other bytes or whose tail may differ.
Blobs == {Blob(<<D(A, "ro")>>, f, t) : f \in {1, 2}, t \in {<<>>, <<"x">>, <<"x", "y">>}}
         \cup {Blob(e, 1, <<>>) : e \in {<<>>, <<D(A, "ro"), F(B, 1)>>}}
Build(os, arch, list) == [os |-> os, arch |-> arch, layers |-> list]

MCImages ==
    {Plain(<<Good(b), Good(m), Good(t)>>) : b \in Bottoms, m \in Middles, t \in Tops}
    \cup {Plain(<<Good(b), Good(m)>>) : b \in Nested, m \in NestedEntries \X NestedEntries}
    \cup {[auth |-> a, index |-> <<>>, layers |-> Few] : a \in {"bearer", "basic", "closed"}}
    \cup {[auth |-> "bearer", index |-> i, layers |-> <<>>] : i \in
            {<<>>,
             <<Build("windows", "amd64", Tail(Few)), Build("linux", "arm64", Tail(Few))>>,
             <<Build("windows", "amd64", Tail(Few)), Build("linux", "amd64", Few),
               Build("linux", "amd64", Tail(Few))>>,
             <<Build("linux", "amd64", <<>>)>>}}
    \cup {Plain(<<Gzip(n, s), Few[2]>>) : n \in Blobs, s \in Blobs}
    \cup {Plain(<<[Few[1] EXCEPT !.media = m], Few[2]>>) : m \in {"tar", "zstd", "foreign"}}
=============================================================================
