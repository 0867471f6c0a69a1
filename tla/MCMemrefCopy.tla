---------------------------- MODULE MCMemrefCopy ----------------------------
EXTENDS MemrefCopy, Sequences

\* Strides laid out from the innermost axis, each axis either packed or with a
\* gap after it.
Strides(shape, gaps) ==
    LET r == Len(shape)
        s[d \in 1 .. r] == IF d = r THEN 1 ELSE s[d + 1] * (shape[d + 1] + gaps[d + 1])
    IN  [d \in 1 .. r |-> s[d]]

Shapes == UNION {[1 .. r -> 1 .. 3] : r \in 1 .. 3} \cup {<<2, 1, 3, 2>>, <<2, 2, 2, 2>>}

Gaps(shape) == {g \in [1 .. Len(shape) -> 0 .. 1] : Len(shape) > 2 => g[1] = 0}

Laid(shape, base) == {[base |-> base, strides |-> Strides(shape, g)] : g \in Gaps(shape)}

Copy(e, shape, s, d) ==
    [elem |-> e, rank |-> Len(shape), sizes |-> shape, src |-> s, dst |-> d]

Plain ==
    UNION {{Copy(1, shape, s, d) : s \in Laid(shape, 0), d \in Laid(shape, 0)} : shape \in Shapes}

\* Elements of several widths, addresses on and off a word, and runs short
\* enough to be copied in line or not.
Wide ==
    UNION {{Copy(e, shape, s, d) : e \in {2, 4, 8}, s \in Laid(shape, 0) \cup Laid(shape, 4),
                                   d \in Laid(shape, 0) \cup Laid(shape, 8)} :
           shape \in {<<2, 2>>, <<3, 4>>, <<2, 2, 2>>, <<2, 9>>}}

\* Axes exchanged, a source read again along an axis, and extents of one with
\* strides of any length.
Odd ==
    {Copy(1, <<2, 3>>, [base |-> 0, strides |-> <<1, 2>>], [base |-> 0, strides |-> <<3, 1>>]),
     Copy(1, <<2, 3, 2>>, [base |-> 0, strides |-> <<0, 2, 1>>], [base |-> 0, strides |-> <<6, 2, 1>>]),
     Copy(1, <<3, 2>>, [base |-> 4, strides |-> <<-2, 1>>], [base |-> 0, strides |-> <<2, 1>>]),
     Copy(1, <<2, 1, 3>>, [base |-> 0, strides |-> <<3, 7, 1>>], [base |-> 0, strides |-> <<3, 3, 1>>])}

\* Nothing to copy, one element, and one axis too many.
Ends ==
    {Copy(1, <<2, 0>>, [base |-> 0, strides |-> <<1, 1>>], [base |-> 0, strides |-> <<1, 1>>]),
     Copy(4, <<>>, [base |-> 0, strides |-> <<>>], [base |-> 4, strides |-> <<>>]),
     LET nine == [d \in 1 .. 9 |-> 1]
     IN  Copy(1, nine, [base |-> 0, strides |-> nine], [base |-> 0, strides |-> nine])}

SmallCopies == Plain \cup Wide \cup Odd \cup Ends
=============================================================================
