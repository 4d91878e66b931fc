---------------------------- MODULE MCAllocator ----------------------------
(* Model-checking instance of Allocator: every graph, every num_colors,    *)
(* with and without hints, over a few registers.                           *)
EXTENDS Allocator

\* While the client edits the graph, g2_, stack_, colors_ and num_colors are
\* dead: init() overwrites all of them before they are read again.
LiveState ==
  IF phase = "ready" THEN <<phase, size, g, hints>>
                     ELSE <<phase, size, g, hints, g2, stack, top, colors, k>>
=============================================================================
