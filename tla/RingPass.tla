------------------------------ MODULE RingPass ------------------------------
(***************************************************************************)
(* What a ring collective among N ranks promises, whatever steps and queue *)
(* pairs carry it.  A rank holds a set of items, each named by the number  *)
(* of hops it has made: item 0 is the rank's own data, item k what came k  *)
(* hops down the ring (in an all-gather the chunk of the rank k hops       *)
(* upstream, in a reduction the partial result of k + 1 ranks).  A rank    *)
(* passes on only what it holds, and reports the end at most once and only *)
(* when it holds the items of every hop the operation takes.               *)
(***************************************************************************)
EXTENDS Integers

CONSTANT N

VARIABLES hops,      \* hops the operation takes
          holds,     \* holds[r]: the items rank r has
          reports    \* reports[r]: how often rank r has reported the end
vars == <<hops, holds, reports>>

Rank == 0 .. N-1
Succ(r) == IF r = N - 1 THEN 0 ELSE r + 1
Item == 0 .. hops

Init == /\ hops \in Nat
        /\ holds = [r \in Rank |-> {0}]
        /\ reports = [r \in Rank |-> 0]

\* A rank may report in the step that completes it or its successor.
Report(r) == \/ reports'[r] = reports[r]
             \/ reports[r] = 0 /\ reports'[r] = 1 /\ Item \subseteq holds'[r]

Pass(r) ==
    /\ \E k \in Item :
          /\ k \in holds[r]
          /\ k + 1 \in Item \ holds[Succ(r)]
          /\ holds' = [holds EXCEPT ![Succ(r)] = @ \cup {k + 1}]
    /\ \A q \in Rank : IF q \in {r, Succ(r)} THEN Report(q)
                       ELSE reports'[q] = reports[q]
    /\ UNCHANGED hops

Next == \E r \in Rank : Pass(r)

Spec == Init /\ [][Next]_vars
=============================================================================
