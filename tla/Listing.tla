------------------------------- MODULE Listing ------------------------------
(***************************************************************************)
(* Listing the repository (duplicacy_entry.go, ListLocalFiles in           *)
(* duplicacy_snapshot.go): the order of paths and what a directory gives.  *)
(*                                                                         *)
(* A path is a sequence of characters, and that of a directory ends in a   *)
(* slash.  There are characters below the slash and above it.              *)
(***************************************************************************)
EXTENDS Integers, Sequences, SequencesExt, FiniteSetsExt, Patterns

Slash == 47

IsDir(path) == path # <<>> /\ path[Len(path)] = Slash

\* (Mutant: the slash that ends the shorter name is compared like any character.)
CompareNamesBySlash(c1, c2) == c1 - c2

\* Two directories: the name that has ended comes first, although there are
\* characters below the slash.
CompareNames(c1, c2) == IF c1 = Slash THEN -1 ELSE IF c2 = Slash THEN 1 ELSE c1 - c2

\* Negative if left comes before right.
ComparePaths(left, right) ==
    LET same == {n \in 0..Min({Len(left), Len(right)}) : SubSeq(left, 1, n) = SubSeq(right, 1, n)}
        p == Max(same)
        char(s) == IF p < Len(s) THEN s[p + 1] ELSE 0
        slashes(s) == {i \in (p + 1)..Len(s) : s[i] = Slash}
        last(s) == slashes(s) = {} \/ Min(slashes(s)) = Len(s)
    IN  CASE last(left) # last(right) -> IF last(left) THEN -1 ELSE 1
          [] last(left) = last(right) ->
                CASE slashes(left) # {} /\ slashes(right) # {} -> CompareNames(char(left), char(right))
                  [] slashes(left) # {} /\ slashes(right) = {} -> 1
                  [] slashes(left) = {} /\ slashes(right) # {} -> -1
                  [] OTHER -> char(left) - char(right)

\* FileInfo.Name()
Name(dir, path) == SubSeq(path, Len(dir) + 1, IF IsDir(path) THEN Len(path) - 1 ELSE Len(path))

\* The order of strings.
NameLess(a, b) ==
    \E i \in 1..Len(b) :
        /\ Len(a) >= i - 1 /\ SubSeq(a, 1, i - 1) = SubSeq(b, 1, i - 1)
        /\ i > Len(a) \/ a[i] < b[i]

Children(tree, dir) ==
    {f \in tree : IsPrefix(dir, f) /\ f # dir /\ ~Contains(Name(dir, f), Slash)}

\* (Mutant: a directory is compared with its slash.)
IncludedWithSlash(f, patterns) == patterns = <<>> \/ MatchPath(f, patterns)

\* Patterns are compared with the path without the slash of a directory.
Included(f, patterns) ==
    patterns = <<>> \/ MatchPath(IF IsDir(f) THEN Front(f) ELSE f, patterns)

\* The entries of a directory, files first.  'left' are the paths left out for other
\* reasons: the program's own directory, other file systems, attributes, links that
\* cannot be read.
ListDir(tree, left, patterns, noBackup, dir) ==
    LET files == Children(tree, dir)
        kept == {f \in files \ left : Included(f, patterns)}
        byName(f, g) == NameLess(Name(dir, f), Name(dir, g))
        byPath(f, g) == ComparePaths(f, g) < 0
        subdirs == {f \in kept : IsDir(f)}
    IN  IF dir \o noBackup \in files THEN [files |-> <<>>, subdirs |-> <<>>]
        ELSE [files |-> SetToSortSeq(kept \ subdirs, byName),
              subdirs |-> IF dir = <<>> THEN SetToSortSeq(subdirs, byPath) ELSE SetToSortSeq(subdirs, byName)]
=============================================================================
