-------------------------- MODULE MCVisitorService --------------------------
(* Instances of VisitorService for TLC.                                    *)
EXTENDS VisitorService, TLC

\* Requests are alike, and so are visitors.
RequestVisitorSymmetry == Permutations(Requests) \cup Permutations(Visitors)
=============================================================================
