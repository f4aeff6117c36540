-------------------------- MODULE MCInstantiation --------------------------
(* Constants of the model checking runs of Instantiation: modules whose    *)
(* segments overlap, whose functions differ in type and number, and whose  *)
(* declared table is as large as the shared one or smaller.                *)
EXTENDS Instantiation

Segment(offset, indices) == [offset |-> offset, indices |-> indices]
Module(initial, maximum, hashes, segments) ==
    [initial |-> initial, maximum |-> maximum, types |-> hashes, segments |-> segments]

Host  == Module(3, 0, <<1, 2>>, <<Segment(0, <<1, 2>>), Segment(1, <<1>>)>>)
Guest == Module(2, 0, <<2>>, <<Segment(0, <<1>>)>>)
Short == Module(1, 4, <<3, 1>>, <<Segment(2, <<2>>), Segment(0, <<1>>)>>)
Wide  == Module(3, 3, <<2, 3>>, <<Segment(1, <<2, 1, 2>>)>>)
Large == Module(4, 0, <<1>>, <<>>)

AllModules == {Host, Guest, Short, Wide, Large}
=============================================================================
