----------------------------- MODULE MCServingHost -----------------------------
(* Two cards, two models; the second card may be slow to answer. *)
EXTENDS ServingHost

CONSTANTS g1, g2, m1, m2
TwoCards == {g1, g2}
TwoModels == {m1, m2}
SlowCard == {g2}
================================================================================
