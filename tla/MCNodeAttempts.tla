--------------------------- MODULE MCNodeAttempts ---------------------------
(***************************************************************************)
(* Nodes for TLC.                                                          *)
(***************************************************************************)
EXTENDS NodeAttempts

Kind == [mirrors |-> FALSE, auto_status |-> FALSE, allow_partial |-> FALSE,
         must_write |-> FALSE, deadline |-> "none", grain |-> 1]

\* A tool node with a timeout; the same with an artifact to write; an LLM node
\* under a fuse; one on a file system that stamps every other tick.
Kinds ==
    {[Kind EXCEPT !.deadline = "node", !.allow_partial = TRUE],
     [Kind EXCEPT !.deadline = "node", !.allow_partial = TRUE, !.must_write = TRUE,
                  !.auto_status = TRUE],
     [Kind EXCEPT !.mirrors = TRUE, !.deadline = "fuse"],
     [Kind EXCEPT !.mirrors = TRUE, !.grain = 2]}
=============================================================================
