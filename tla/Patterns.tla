------------------------------ MODULE Patterns ------------------------------
(***************************************************************************)
(* Include and exclude patterns (duplicacy_utils.go).  Texts and patterns  *)
(* are sequences of characters; the two wildcards are characters no path   *)
(* has here.                                                               *)
(***************************************************************************)
EXTENDS Integers, Sequences

Star == 100  \* an asterisk
One == 101   \* a question mark

\* The loop of matchPattern: t and p are the next positions in the text and in the
\* pattern; wild is the position after the last star (0: none yet), and matched
\* where what follows that star was last tried.
matchPattern(text, pattern) ==
    LET match[t \in 1..(Len(text) + 1), p \in 1..(Len(pattern) + 1), wild \in 0..Len(pattern), matched \in 0..Len(text)] ==
            LET w == IF p <= Len(pattern) THEN pattern[p] ELSE 0
                \* go on from the first character that may begin what follows the star
                search(from, q) ==
                    LET starts == {i \in from..Len(text) : text[i] = pattern[q] \/ pattern[q] = One}
                        s == CHOOSE i \in starts : \A j \in starts : i <= j
                    IN  starts # {} /\ match[s + 1, q + 1, q, s]
            IN  IF t > Len(text)
                THEN p > Len(pattern) \/ (w = Star /\ match[t, p + 1, wild, matched])
                ELSE CASE text[t] = w \/ w = One -> match[t + 1, p + 1, wild, matched]
                       [] text[t] # w /\ w = Star -> p + 1 > Len(pattern) \/ search(t, p + 1)
                       [] text[t] # w /\ w \notin {One, Star} -> wild > 0 /\ search(matched + 1, wild)
    IN  match[1, 1, 0, 0]

\* The first pattern that matches decides; if none does, a path is left out when
\* there are only include patterns.
MatchPath(path, patterns) ==
    LET hits == {i \in DOMAIN patterns : matchPattern(path, patterns[i].text)}
        first == CHOOSE i \in hits : \A j \in hits : i <= j
    IN  IF hits # {} THEN patterns[first].include ELSE \E i \in DOMAIN patterns : ~patterns[i].include

\* What matching means: a star stands for any text, also an empty one.
Matches(text, pattern) ==
    LET match[t \in 1..(Len(text) + 1), p \in 1..(Len(pattern) + 1)] ==
            CASE p > Len(pattern)                        -> t > Len(text)
              [] p <= Len(pattern) /\ pattern[p] = Star  -> \E u \in t..(Len(text) + 1) : match[u, p + 1]
              [] p <= Len(pattern) /\ pattern[p] # Star  ->
                    t <= Len(text) /\ pattern[p] \in {One, text[t]} /\ match[t + 1, p + 1]
    IN  match[1, 1]
=============================================================================
