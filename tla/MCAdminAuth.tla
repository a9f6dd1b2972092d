---------------------------- MODULE MCAdminAuth ----------------------------
(* AdminAuth for TLC: every set of model values is symmetric. *)
EXTENDS AdminAuth, TLC

Symmetry ==
    UNION {Permutations(S) : S \in {Requests, Admins, Sessions, Passwords}}
=============================================================================
