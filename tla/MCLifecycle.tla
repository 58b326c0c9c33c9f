---------------------------- MODULE MCLifecycle -----------------------------
(* Two connections are the fewest the pool works with, and two requests    *)
(* with two statements each the fewest that can wait for one another; two  *)
(* tools and the service are three who migrate.                            *)
EXTENDS Lifecycle, TLC

(* The connections are alike, and so are the requests and the tools.       *)
Symmetry == Permutations(Conn) \cup Permutations(Request) \cup Permutations(Tool)
=============================================================================
