---------------------------- MODULE LightArchive ----------------------------
(***************************************************************************)
(* What the file archive promises a reader at its committed tip: the       *)
(* archive is a function of one chain of blocks, and the only thing that   *)
(* ever happens to it is that whole blocks are appended.                   *)
(***************************************************************************)
EXTENDS Integers, Sequences

CONSTANTS Inputs, Indexed, Slots, Chains, EmitStart, Unspent

VARIABLE view   \* what a reader sees, one entry per height from EmitStart

\* Parts of the node's chains from the emit height on.
Histories ==
    UNION {{SubSeq(c, EmitStart + 1, n) : n \in (EmitStart + 1)..Len(c)} : c \in Chains}

\* The UID of the first P2TR output of each block.
FirstUids(c) ==
    LET f[i \in 1..Len(c)] == IF i = 1 THEN 1 ELSE f[i - 1] + Slots[c[i - 1]] IN f

\* The places in c that spend o, and that create it as an indexed output.
Spenders(c, o) == {i \in 1..Len(c) : o \in Inputs[c[i]]}
Creations(c, o) ==
    {p \in UNION {{i} \X (1..Len(Indexed[c[i]])) : i \in 1..Len(c)} :
        Indexed[c[p[1]]][p[2]].outpoint = o}

HeightAt(i) == EmitStart + i - 1

ViewOf(c) ==
    [i \in 1..Len(c) |->
        [block |-> c[i],
         first_uid |-> FirstUids(c)[i],
         spends |-> UNION {{[uid |-> FirstUids(c)[p[1]] + Indexed[c[p[1]]][p[2]].slot,
                             creation_height |-> HeightAt(p[1])] :
                                p \in Creations(c, o)} : o \in Inputs[c[i]]},
         spent_height |-> [j \in 1..Len(Indexed[c[i]]) |->
            LET S == Spenders(c, Indexed[c[i]][j].outpoint)
            IN  IF S = {} THEN Unspent ELSE HeightAt(CHOOSE k \in S : TRUE)]]]

Init == view = << >>

Publish(c) ==
    /\ Len(c) > Len(view)
    /\ \A i \in 1..Len(view) : view[i].block = c[i]
    /\ view' = ViewOf(c)

Next == \E c \in Histories : Publish(c)

Spec == Init /\ [][Next]_view
=============================================================================
