----------------------------- MODULE Selection -----------------------------
(***************************************************************************)
(* The elements of a list at some of its positions. The operators are      *)
(* defined by counting, without recursion, so that they can be reasoned    *)
(* about; SelectionProofs says what they do.                               *)
(***************************************************************************)
EXTENDS Naturals, FiniteSets

\* The k-th smallest of the numbers in S.
Nth(S, k) == CHOOSE i \in S : Cardinality({j \in S : j <= i}) = k

\* The values of f at the positions in S, in the order of the positions.
InOrder(f, S) == [k \in 1 .. Cardinality(S) |-> f[Nth(S, k)]]

=============================================================================
