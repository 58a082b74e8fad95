----------------------------- MODULE MCDiagnose -----------------------------
(* For the detector, all traces of up to eight calls of two kinds, and of up *)
(* to five of three, with and without options; for the rest, three of about *)
(* thirty calls, which have steps enough for two changes.                   *)
EXTENDS Diagnose

\* A call is entered and left; the lines of swap come in the wrong order.
File(types, swap) ==
    LET Ts(k) == IF k = swap THEN swap + 1 ELSE IF k = swap + 1 THEN swap ELSE k
    IN [k \in 1 .. 2 * Len(types) |->
          [ts |-> Ts(k), enter |-> Ts(k) % 2 = 1,
           type |-> types[(Ts(k) + 1) \div 2]]]

Repeated2(times) == [k \in 1 .. 2 * times |-> IF k % 2 = 1 THEN "A" ELSE "B"]

Short == {File(types, -1) : types \in UNION
             {[1 .. k -> {"A", "B"}] : k \in 1 .. 8}
        \cup UNION {[1 .. k -> {"A", "B", "C"}] : k \in 1 .. 5}}

Long == {File(Repeated2(15), -1), File(Repeated2(15), 25),
         File(Repeated2(5) \o <<"C">> \o Repeated2(10), -1)}

ShortAndLong == Short \cup Long

WarmupsAndWindows == {NotGiven, [warmup |-> 1, window |-> 1],
                      [warmup |-> 3, window |-> 1]}

\* Two late lines, close to each other; all traces are as long, or one is shorter.
TwoLate(length) ==
    {[shortest |-> l, late |-> {a, a + d}] :
       l \in {length, length - 8} \cap Nat, a \in {2 * k : k \in length \div 8 .. length \div 2},
       d \in {3, 4}}
=============================================================================
