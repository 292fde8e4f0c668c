----------------------------- MODULE MCBiSearch -----------------------------
(* Contents d1 and d2 share a super feature, d2 and h1 share the other one, *)
(* d3 shares none; each content may come under either name.                 *)
EXTENDS BiSearch

CONSTANTS d1, d2, d3, h1, f1, f2, f3

MCFeatures ==
    [c \in Content |->
        CASE c = d1 -> <<f1, f1>>
          [] c = d2 -> <<f2, f1>>
          [] c = d3 -> <<f3, f3>>
          [] c = h1 -> <<f2, f2>>]
=============================================================================
