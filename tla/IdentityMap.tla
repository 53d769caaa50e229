----------------------------- MODULE IdentityMap -----------------------------
(***************************************************************************)
(* What the inventory promises about identities, without rows, ids or      *)
(* aliases: every identity (a MAC seen in frames, or the key of a          *)
(* documented asset that has none) belongs to at most one asset.  An asset *)
(* is the set of its identities.  Identities are learnt one at a time, and *)
(* two assets may be joined; the key of a documented asset has nothing to  *)
(* say about traffic and may be dropped when its asset is folded into      *)
(* another.                                                                *)
(***************************************************************************)
CONSTANTS Macs, Manual

VARIABLE groups

Identities == Macs \cup Manual

Init == groups = {}

Unknown(m) == \A g \in groups : m \notin g

Learn ==
  \E m \in Identities : Unknown(m) /\ groups' = groups \cup {{m}}

(* A frame may introduce its source and its destination at once.           *)
LearnTwo ==
  \E m, n \in Macs :
    /\ m # n /\ Unknown(m) /\ Unknown(n)
    /\ groups' = groups \cup {{m}, {n}}

Join ==
  \E g, h \in groups :
    /\ g # h
    /\ groups' = (groups \ {g, h}) \cup {g \cup (h \cap Macs)}

Forget == \E g \in groups : groups' = groups \ {g}

Next == Learn \/ LearnTwo \/ Join \/ Forget

Spec == Init /\ [][Next]_groups
=============================================================================
