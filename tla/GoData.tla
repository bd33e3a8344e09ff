------------------------------- MODULE GoData -------------------------------
(* Go maps and slices, as the modules use them.                             *)
EXTENDS Naturals, FiniteSets

\* A map f after f[k] = v.
With(f, k, v) == [x \in DOMAIN f \cup {k} |-> IF x = k THEN v ELSE f[x]]

\* The elements of a slice at some places, in order: a loop that keeps what
\* passes a test.
Rank(I, i)   == Cardinality({j \in I : j <= i})
Picked(s, I) == [k \in 1..Cardinality(I) |-> s[CHOOSE i \in I : Rank(I, i) = k]]
=============================================================================
