------------------------------ MODULE MCVgSched ------------------------------
(* Small instances of VgSched for TLC. *)
EXTENDS VgSched, TLC

CONSTANTS a, b, c, g

Ent(j, grp, max) == [job |-> j, grp |-> grp, max |-> max]

\* three jobs: without groups, or two of them in one that runs one at a time
TripleFiles == {<<Ent(a, NoGroup, 1), Ent(b, NoGroup, 1), Ent(c, NoGroup, 1)>>,
                <<Ent(a, g, 1), Ent(c, NoGroup, 1), Ent(b, g, 1)>>}
\* job a comes and goes, and b changes places
ReloadFiles == {<<Ent(a, NoGroup, 1), Ent(b, NoGroup, 1)>>, <<Ent(b, NoGroup, 1)>>}
\* an entry whose group is refused, in front of one that is accepted
BadFiles == {<<Ent(a, BadGroup, 1), Ent(b, NoGroup, 1)>>,
             <<Ent(a, NoGroup, 1), Ent(b, NoGroup, 1)>>}

EveryUnit == [j \in Jobs |-> 1]
EverySlot == [j \in Jobs |-> 1..(MaxTime + 1)]

ProcessSymmetry == Permutations(Pids)
=============================================================================
