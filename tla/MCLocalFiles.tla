---------------------------- MODULE MCLocalFiles ----------------------------
(***************************************************************************)
(* Three kinds of input: small repositories of every shape, whose files    *)
(* have next to no content; one repository with every short filter; and    *)
(* three files of every content, to be split into chunks of 2 to 4, 2 to 5 *)
(* and 2 bytes.                                                            *)
(***************************************************************************)
EXTENDS LocalFiles

Dot == 46   \* a character below the slash
A == 97     \* one above it

MCNoBackup == <<Dot>>

\* A file, a name that continues it below the slash, directories of either name, and
\* what may be in them.
Candidates ==
    {<<A>>, <<A, Dot>>, <<A, Slash>>, <<A, Dot, Slash>>, <<A, Slash, A>>, <<A, Slash, Dot>>,
     <<A, Slash, A, Slash>>, <<A, Slash, A, Slash, A>>, <<A, Dot, Slash, A>>, <<A, Slash, A, Dot, Slash>>}

Parent(p) == LET above == {n \in 0..(Len(p) - 1) : n = 0 \/ p[n] = Slash} IN SubSeq(p, 1, Max(above))

\* No directory is missing, and no name is both a file and a directory.
Trees ==
    {t \in SUBSET Candidates :
        /\ \A p \in t : Parent(p) = <<>> \/ Parent(p) \in t
        /\ \A p \in t : p \o <<Slash>> \notin t}

\* Exclude a*, include *.; exclude ?a; include a?*a; exclude a, exclude *a/a*.
Filters ==
    {<<>>,
     <<[include |-> TRUE, text |-> <<Star, Dot>>], [include |-> FALSE, text |-> <<A, Star>>]>>,
     <<[include |-> FALSE, text |-> <<One, A>>]>>,
     <<[include |-> TRUE, text |-> <<A>>], [include |-> TRUE, text |-> <<A, One, Star, A>>]>>,
     <<[include |-> FALSE, text |-> <<Star, A, Slash, A, Star>>]>>}

Shapes ==
    {[tree |-> t, left |-> l, patterns |-> f, data |-> [p \in {q \in t : ~IsDir(q)} |-> <<1>>], min |-> 2, max |-> 4] :
        t \in Trees, l \in {{}, {<<A, Slash, A, Slash>>}}, f \in Filters}

\* Two stars in a row are left out: matchPattern takes the second one literally.
ShortPatterns ==
    {p \in BoundedSeq({A, Dot, Slash, Star, One}, 4) :
        p # <<>> /\ \A i \in 1..(Len(p) - 1) : p[i] # Star \/ p[i + 1] # Star}

\* Nothing is to be packed here.
OneTree == {<<A, Slash>>, <<A, Dot, Slash>>, <<A, Slash, A, Slash>>, <<A, Dot, Slash, A, Slash>>}

Filtered ==
    {[tree |-> OneTree, left |-> {}, patterns |-> <<[include |-> b, text |-> p]>>, data |-> <<>>, min |-> 2, max |-> 4] :
        p \in ShortPatterns, b \in BOOLEAN}

Packs ==
    {[tree |-> {<<A>>, <<A, Dot>>, <<A, A>>}, left |-> {}, patterns |-> <<>>,
      data |-> <<A>> :> a @@ <<A, Dot>> :> b @@ <<A, A>> :> c, min |-> 2, max |-> m] :
        a \in BoundedSeq({1, 2}, 4), b \in BoundedSeq({1, 2}, 2), c \in {<<1, 1, 2, 1, 2, 2, 1>>, <<2, 1, 1, 1>>, <<2>>, <<>>}, m \in {2, 4, 5}}

MCInputs == Shapes \cup Filtered \cup Packs

\* Three bits, of which one is 0 where a chunk ends.
MCTable == 1 :> {0, 2} @@ 2 :> {1}
=============================================================================
