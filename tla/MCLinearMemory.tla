--------------------------- MODULE MCLinearMemory ---------------------------
(* Constants of the model checking runs of LinearMemory: modules with and  *)
(* without a maximum, whose segments overlap, touch the end of a page, lie *)
(* outside, end beyond the addresses of a word, or are cut by the file.    *)
EXTENDS LinearMemory, TLC

Segment(offset, length, byte) == [offset |-> offset, size |-> length, byte |-> byte, held |-> TRUE]
Module(initial, limited, maximum, segments) ==
    [initial |-> initial, limited |-> limited, maximum |-> maximum, segments |-> segments]

Plain   == Module(1, FALSE, 0, <<Segment(0, 2, 1), Segment(1, 1, 0)>>)
Limited == Module(0, TRUE, 3, <<Segment(0, 1, 1), Segment(3, 2, 1)>>)
Wrapping == Module(0, FALSE, 0, <<Segment(0, 1, 1), Segment(3, 6, 1)>>)
Cut      == Module(1, FALSE, 0, <<Segment(0, 2, 1), [Segment(1, 1, 0) EXCEPT !.held = FALSE]>>)

FittingModules == {Plain, Limited}
AllModules == {Limited, Wrapping, Cut}

Symmetry == Permutations(Contexts)
=============================================================================
