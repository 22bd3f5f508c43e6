------------------------- MODULE MCFossilCollection -------------------------
(* Instances of FossilCollection for TLC. *)
EXTENDS FossilInvariant

CONSTANTS a, b, c1, c2

(* Every repository is a host of its own, or all are on one. *)
OwnHost  == [x \in Ids |-> x]
SameHost == [x \in Ids |-> "host"]

(* Two revisions of a, the older one with a chunk of its own ... *)
TwoRevisions ==
    {[id |-> a, rev |-> 1, chunks |-> {c1}, endTime |-> 1],
     [id |-> a, rev |-> 2, chunks |-> {c2}, endTime |-> 1]}

(* ... and b, which shares a chunk with a. *)
TwoHosts == TwoRevisions \cup {[id |-> b, rev |-> 1, chunks |-> {c2}, endTime |-> 1]}

(* The options prune is run with: -delete-only, -collect-only, -exhaustive *)
(* and -exclusive.                                                         *)
DeleteOnly  == [NoOptions EXCEPT !.deleteOnly = TRUE]
CollectOnly == [NoOptions EXCEPT !.collectOnly = TRUE]
Exhaustive  == [NoOptions EXCEPT !.exhaustive = TRUE]
Exclusive   == [NoOptions EXCEPT !.exclusive = TRUE]

AllModes     == {NoOptions, DeleteOnly, CollectOnly, Exhaustive, Exclusive,
                 [Exclusive EXCEPT !.exhaustive = TRUE]}
PlainModes   == {NoOptions, DeleteOnly}
TwoStepModes == {CollectOnly, DeleteOnly}
ExclusiveModes == {NoOptions, Exclusive}

(* Revisions up to 3, and up to 2 for b. *)
Revs32 == [x \in Ids |-> IF x = a THEN 3 ELSE 2]
Revs3  == [x \in Ids |-> 3]
Revs4  == [x \in Ids |-> 4]

=============================================================================
