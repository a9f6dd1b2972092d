----------------------------- MODULE MCAiRouter -----------------------------
(* AiRouter on two providers; the first one serves two models. *)
EXTENDS AiRouter, TLC

CONSTANTS m1, m2, m3, p1, p2

MCProviderOf == (m1 :> p1) @@ (m2 :> p1) @@ (m3 :> p2)

MCLists == {<<>>, <<m1, m2, m3>>, <<m3, m1>>}
=============================================================================
