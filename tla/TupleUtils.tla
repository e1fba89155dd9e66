------------------------------ MODULE TupleUtils ------------------------------
(***************************************************************************)
(* The functions on std::tuple of sigc++/tuple-utils, by which adaptors    *)
(* route arguments. A tuple is a sequence; indices are one-based here.     *)
(***************************************************************************)
EXTENDS Integers, Sequences

\* The first len elements, by the index sequence 0 .. len - 1.
tuple_start(t, len) == [i \in 1 .. len |-> t[i]]

tuple_cdr(t) == [i \in 1 .. Len(t) - 1 |-> t[i + 1]]

\* The last len elements: elements are taken off the front, one by one.
RECURSIVE tuple_end(_, _)
tuple_end(t, len) ==
    IF len = 0 THEN <<>>
    ELSE IF Len(t) = len THEN t
    ELSE tuple_end(tuple_cdr(t), len)

\* The elements in the order in which they are visited.
RECURSIVE ForEachFrom(_, _)
ForEachFrom(t, size_from_index) ==
    IF size_from_index = 0 THEN <<>>
    ELSE <<t[Len(t) - size_from_index + 1]>> \o ForEachFrom(t, size_from_index - 1)

tuple_for_each(t) == ForEachFrom(t, Len(t))

\* The element at the index of the tuple t is replaced by that of to, and so on.
RECURSIVE TransformFrom(_, _, _)
TransformFrom(t, to, size_from_index) ==
    LET index == Len(t) - size_from_index
        element == <<to[index + 1]>>
    IN  IF size_from_index = 0 THEN t
        ELSE IF size_from_index = 1 THEN tuple_start(t, Len(t) - 1) \o element
        ELSE TransformFrom(tuple_start(t, index) \o element
                             \o tuple_end(t, Len(t) - index - 1),
                           to, size_from_index - 1)

\* transform[e] is what the transformer makes of the element e.
tuple_transform_each(t, transform) ==
    TransformFrom(t, [i \in DOMAIN t |-> transform[t[i]]], Len(t))

=============================================================================
