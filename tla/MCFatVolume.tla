---------------------------- MODULE MCFatVolume ----------------------------
(* A file with parts of sectors, and two files with whole ones.            *)
EXTENDS FatVolume, TLC
CONSTANTS a, b
MCBounds ==
  {[room |-> (a :> 3) @@ (b :> 0), lens |-> {1, 2}, targets |-> {0, 3},
    hints |-> {0, 3}, faults |-> 2],
   [room |-> (a :> 4) @@ (b :> 2), lens |-> {2, 4}, targets |-> {4},
    hints |-> {0}, faults |-> 1]}
=============================================================================
