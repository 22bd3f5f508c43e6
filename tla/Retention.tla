----------------------------- MODULE Retention ------------------------------
(***************************************************************************)
(* Retention policies: which snapshots of one id a prune with -keep        *)
(* deletes, and what is left of a history of backups after many prunes.    *)
(*                                                                         *)
(* Code: the selection loop of PruneSnapshots, and getDaysBetween, in      *)
(* duplicacy_snapshotmanager.go.  Snapshots are told apart and ordered by  *)
(* their start times, which grow with the revision.                        *)
(***************************************************************************)
EXTENDS Integers, Sequences, FiniteSets

CONSTANTS
    Policies,   \* the -keep options, [age, interval], in the order given
    Tags,       \* the tags backups are made with
    Filter,     \* the tags given to prune with -t; none means every snapshot
    DayLength,  \* units of time in a day
    MaxTime,    \* bound: the clock stops there
    MaxBackups  \* bound: the number of backups

(* What the parser accepts, and the order its comment demands. *)
ASSUME PoliciesSorted ==
    /\ Policies \in Seq([age : Nat \ {0}, interval : Nat])
    /\ \A j, k \in DOMAIN Policies : j < k => Policies[j].age > Policies[k].age

ASSUME Times ==
    /\ Filter \subseteq Tags
    /\ DayLength \in Nat \ {0} /\ MaxTime \in Nat /\ MaxBackups \in Nat

VARIABLES
    now,        \* the clock
    snapshots,  \* the snapshots of the id
    taken,      \* all backups ever made
    pruning,    \* whether a prune is in the loop over the snapshots it has read
    exclusive,  \* whether it is an exclusive one
    listed,     \* the snapshots it has read
    todo,       \* those it has not looked at yet
    i,          \* the policy it has come to
    last,       \* lastSnapshotTime: the last snapshot kept under it, or 0
    flagged     \* the snapshots to delete

loop == <<pruning, exclusive, listed, todo, i, last, flagged>>
vars == <<now, snapshots, taken, loop>>

Snapshot == [start : Nat \ {0}, tag : Tags]

(* Calendar days from one time to another. *)
getDaysBetween(start, end) == (end \div DayLength) - (start \div DayLength)

Age(s) == getDaysBetween(s.start, now)

-----------------------------------------------------------------------------
Backup(tag) ==
    /\ Cardinality(taken) < MaxBackups
    /\ \A s \in snapshots : s.start < now
    /\ snapshots' = snapshots \cup {[start |-> now, tag |-> tag]}
    /\ taken' = taken \cup {[start |-> now, tag |-> tag]}
    /\ UNCHANGED <<now, loop>>

(* Time passes between the loops; one loop sees one time. *)
Tick ==
    /\ now < MaxTime /\ ~pruning
    /\ now' = now + 1
    /\ UNCHANGED <<snapshots, taken, loop>>

(* The snapshots have been read.  An only one is left alone. *)
StartPrune(e) ==
    /\ ~pruning /\ Cardinality(snapshots) > 1
    /\ pruning' = TRUE /\ exclusive' = e
    /\ listed' = snapshots /\ todo' = snapshots
    /\ i' = 1 /\ last' = 0 /\ flagged' = {}
    /\ UNCHANGED <<now, snapshots, taken>>

IsNext(s) == s \in todo /\ \A u \in todo : s.start <= u.start

Skipped(s) ==
    \/ ~exclusive /\ \A u \in listed : u.start <= s.start
    \/ Filter # {} /\ s.tag \notin Filter

SkipSnapshot(s) ==
    /\ pruning /\ IsNext(s) /\ Skipped(s)
    /\ todo' = todo \ {s}
    /\ UNCHANGED <<now, snapshots, taken, pruning, exclusive, listed, i, last, flagged>>

(* The snapshot is too young for the policy: the next one, which has kept  *)
(* nothing yet.                                                            *)
TooYoung(s) == Age(s) < Policies[i].age

(* Mutant: the last snapshot kept is remembered from policy to policy. *)
NextPolicyKeepingLast(s) ==
    /\ pruning /\ IsNext(s) /\ ~Skipped(s)
    /\ i <= Len(Policies) /\ TooYoung(s)
    /\ i' = i + 1
    /\ UNCHANGED <<now, snapshots, taken, pruning, exclusive, listed, todo, last, flagged>>

NextPolicy(s) ==
    /\ pruning /\ IsNext(s) /\ ~Skipped(s)
    /\ i <= Len(Policies) /\ TooYoung(s)
    /\ i' = i + 1 /\ last' = 0
    /\ UNCHANGED <<now, snapshots, taken, pruning, exclusive, listed, todo, flagged>>

(* Deleted: always if the interval is 0, or too close to the last one kept. *)
TooClose(s) ==
    \/ Policies[i].interval = 0
    \/ last # 0 /\ getDaysBetween(last, s.start) < Policies[i].interval

(* Mutant: a deleted snapshot counts as the last one kept. *)
JudgeMovingLast(s) ==
    /\ pruning /\ IsNext(s) /\ ~Skipped(s)
    /\ i <= Len(Policies) /\ ~TooYoung(s)
    /\ todo' = todo \ {s} /\ last' = s.start
    /\ flagged' = IF TooClose(s) THEN flagged \cup {s} ELSE flagged
    /\ UNCHANGED <<now, snapshots, taken, pruning, exclusive, listed, i>>

(* Mutant: the time of the prune counts as that of the last one kept. *)
JudgeRememberingNow(s) ==
    /\ pruning /\ IsNext(s) /\ ~Skipped(s)
    /\ i <= Len(Policies) /\ ~TooYoung(s)
    /\ todo' = todo \ {s}
    /\ IF TooClose(s) THEN flagged' = flagged \cup {s} /\ last' = last
                      ELSE last' = now /\ flagged' = flagged
    /\ UNCHANGED <<now, snapshots, taken, pruning, exclusive, listed, i>>

Judge(s) ==
    /\ pruning /\ IsNext(s) /\ ~Skipped(s)
    /\ i <= Len(Policies) /\ ~TooYoung(s)
    /\ todo' = todo \ {s}
    /\ IF TooClose(s) THEN flagged' = flagged \cup {s} /\ last' = last
                      ELSE last' = s.start /\ flagged' = flagged
    /\ UNCHANGED <<now, snapshots, taken, pruning, exclusive, listed, i>>

(* The snapshots have run out, or the policies. *)
LoopOver ==
    /\ pruning
    /\ todo = {} \/ (i > Len(Policies) /\ \E s \in todo : IsNext(s) /\ ~Skipped(s))

(* The flagged snapshots go. *)
FinishPrune ==
    /\ LoopOver
    /\ snapshots' = snapshots \ flagged
    /\ pruning' = FALSE /\ exclusive' = FALSE
    /\ listed' = {} /\ todo' = {} /\ i' = 1 /\ last' = 0 /\ flagged' = {}
    /\ UNCHANGED <<now, taken>>

Init ==
    /\ now = 1 /\ snapshots = {} /\ taken = {}
    /\ pruning = FALSE /\ exclusive = FALSE /\ listed = {} /\ todo = {}
    /\ i = 1 /\ last = 0 /\ flagged = {}

Next ==
    \/ \E tag \in Tags : Backup(tag)
    \/ Tick
    \/ \E e \in BOOLEAN : StartPrune(e)
    \/ \E s \in todo : SkipSnapshot(s) \/ NextPolicy(s) \/ Judge(s)
    \/ FinishPrune

Spec == Init /\ [][Next]_vars

-----------------------------------------------------------------------------
(* Properties.                                                             *)

(* Every variable has its type. *)
TypeOK ==
    /\ now \in Nat \ {0}
    /\ taken \subseteq Snapshot /\ snapshots \subseteq taken
    /\ pruning \in BOOLEAN /\ exclusive \in BOOLEAN
    /\ listed \subseteq snapshots /\ todo \subseteq listed /\ flagged \subseteq listed
    /\ i \in 1 .. Len(Policies) + 1
    /\ last = 0 \/ \E s \in listed : last = s.start

(* The policy that governs a snapshot: the first whose age it has reached. *)
Governs(k, s) ==
    /\ Age(s) >= Policies[k].age
    /\ \A l \in 1 .. k - 1 : Age(s) < Policies[l].age

Kept == {s \in listed : s \notin flagged /\ ~Skipped(s)}

(* What the comment on policies promises of one prune: under interval 0    *)
(* nothing is kept, otherwise one snapshot per interval.  The kept ones    *)
(* are at least an interval apart, and each deleted one is less than an    *)
(* interval after a kept one of the same policy.                           *)
PolicyHeld ==
    LoopOver =>
        \A k \in DOMAIN Policies : \A s \in {u \in listed : Governs(k, u)} :
            /\ s \in Kept =>
                  /\ Policies[k].interval # 0
                  /\ \A u \in Kept : Governs(k, u) /\ u.start < s.start =>
                        getDaysBetween(u.start, s.start) >= Policies[k].interval
            /\ s \in flagged /\ Policies[k].interval # 0 =>
                  \E u \in Kept : /\ Governs(k, u) /\ u.start < s.start
                                  /\ getDaysBetween(u.start, s.start) < Policies[k].interval

(* What a deletion under a policy may add to the days since the snapshot   *)
(* before, summed over the first policies.                                 *)
Loss(k) == IF Policies[k].interval = 0 THEN 0 ELSE Policies[k].interval - 1

gap[k \in 0 .. Len(Policies)] == IF k = 0 THEN 0 ELSE gap[k - 1] + Loss(k)

(* How many days back the nearest snapshot may be. *)
Reach == gap[Len(Policies)]

(* The days before the backup have come under an interval of 0. *)
Expiring(b) ==
    \E k \in DOMAIN Policies : Policies[k].interval = 0 /\ Age(b) + Reach >= Policies[k].age

(* Prunes do not add up: however often, in whatever mode and on whatever   *)
(* days prune runs, for every backup ever made there is a snapshot of that *)
(* time or not more than Reach days before.                                *)
HistoryCovered ==
    \A b \in taken : ~Expiring(b) =>
        \E s \in snapshots : s.start <= b.start /\ getDaysBetween(s.start, b.start) <= Reach

-----------------------------------------------------------------------------
(* The inductive invariant of module RetentionProofs.                      *)

(* The loop goes from the oldest snapshot to the newest; backups that are  *)
(* made meanwhile are newer than what it has read.                         *)
InOrder ==
    /\ pruning \/ listed = {}
    /\ \A s \in snapshots : s.start <= now
    /\ \A s, u \in snapshots : s.start = u.start => s = u
    /\ \A s \in listed, u \in snapshots \ listed : s.start < u.start
    /\ \A s \in listed \ todo, u \in todo : s.start < u.start

(* The snapshots that have come under a policy, and those of them kept. *)
Judged     == {s \in listed \ todo : ~Skipped(s)}
KeptSoFar  == Judged \ flagged

(* The policies already passed are of no concern to the snapshots left. *)
PoliciesPassed ==
    /\ flagged \subseteq Judged
    /\ \A s \in todo : \A k \in 1 .. i - 1 : Age(s) < Policies[k].age
    /\ \A s \in Judged : \E k \in DOMAIN Policies : k <= i /\ Governs(k, s)

(* lastSnapshotTime is the newest kept under the policy the loop is at. *)
LastKept ==
    /\ last = 0 => \A s \in KeptSoFar : i \in DOMAIN Policies => ~Governs(i, s)
    /\ last # 0 =>
          /\ i \in DOMAIN Policies
          /\ \E s \in KeptSoFar : Governs(i, s) /\ s.start = last
          /\ \A s \in KeptSoFar : Governs(i, s) => s.start <= last

(* The kept ones are an interval apart, the others closer to a kept one. *)
Apart ==
    \A k \in DOMAIN Policies : \A s \in KeptSoFar : Governs(k, s) =>
        /\ Policies[k].interval # 0
        /\ \A u \in KeptSoFar : Governs(k, u) /\ u.start < s.start =>
              getDaysBetween(u.start, s.start) >= Policies[k].interval

Close ==
    \A k \in DOMAIN Policies : \A s \in flagged :
        Governs(k, s) /\ Policies[k].interval # 0 =>
            \E u \in KeptSoFar : /\ Governs(k, u) /\ u.start < s.start
                                 /\ getDaysBetween(u.start, s.start) < Policies[k].interval

LoopInv == TypeOK /\ InOrder /\ PoliciesPassed /\ LastKept /\ Apart /\ Close

(* No prune deletes the snapshot while it is under policy k: what is left  *)
(* of the ones before it that can be under the policy too is an interval   *)
(* away.                                                                   *)
Settled(s, k) ==
    \A u \in snapshots :
        /\ Filter # {} => u.tag \in Filter
        /\ u.start < s.start
        /\ k > 1 => Age(u) < Policies[k - 1].age
        => getDaysBetween(u.start, s.start) >= Policies[k].interval

(* The snapshot stands for the backup b after the losses of the policies   *)
(* from k on; it has settled under k if that is a policy.                  *)
StandsFor(s, b, k) ==
    /\ s.start <= b.start /\ getDaysBetween(s.start, b.start) <= Reach - gap[k - 1]
    /\ k \in DOMAIN Policies => Age(s) >= Policies[k].age /\ Settled(s, k)

Represented ==
    \A b \in taken : ~Expiring(b) =>
        \E s \in snapshots : \E k \in 1 .. Len(Policies) + 1 : StandsFor(s, b, k)

=============================================================================
