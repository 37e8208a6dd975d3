----------------------------- MODULE MCReporting -----------------------------
(* Instances of Reporting: JSON values two levels deep. *)
EXTENDS Reporting

CONSTANT MaxItems     \* bound: items of a list

Scalars == {Node("int", "0", << >>, NoFields), Node("int", "1", << >>, NoFields),
            Node("str", "0", << >>, NoFields)}
ListsOf(S) == {Node("list", "", s, NoFields) : s \in UNION {[1..n -> S] : n \in 0..MaxItems}}
ObjectsOf(S) == {Node("dict", "", << >>, f) : f \in UNION {[K -> S] : K \in SUBSET Fields}}
Shallow == Scalars \cup ListsOf(Scalars) \cup ObjectsOf(Scalars)
Nested == {Node("list", "", <<s>>, NoFields) : s \in Shallow}
            \cup {Node("dict", "", << >>, [k \in {f} |-> s]) : f \in Fields, s \in Shallow}

TwoLevels == Shallow \cup Nested
Depth == [v \in TwoLevels |-> IF v \in Scalars THEN 0 ELSE IF v \in Shallow THEN 1 ELSE 2]
=============================================================================
