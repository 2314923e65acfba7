---------------------------- MODULE ServerLifeMC ----------------------------
(* A small instance of ServerLife. *)
EXTENDS ServerLife

CONSTANTS p1, p2, u1, m1, m2, r1, r2

TwoPlugins == <<p1, p2>>
OneRule == <<u1>>
TwoMethods == <<m1, m2>>

\* permissions and cache in databases, or all in memory
MixedOrMemory == {{"store"}, Backends}
=============================================================================
