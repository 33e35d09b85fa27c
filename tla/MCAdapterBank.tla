--------------------------- MODULE MCAdapterBank ---------------------------
(***************************************************************************)
(* Instances of AdapterBank for TLC.  The manifests:                       *)
(*   a1, a2  two generations of adapter a, capability k                    *)
(*   b1      adapter b, capability k2, other weights                        *)
(*   c1      the exact composition of a1 and b1, capability k              *)
(*   d1      adapter d, the composition of c1 and b1, a second level       *)
(*   e1      adapter e with the weights of a1 under another name           *)
(*   a3      generation 3 of adapter a                                     *)
(*   o1      adapter o, whose capability bundle is open                    *)
(***************************************************************************)
EXTENDS AdapterBank, TLC

CONSTANTS a1, a2, a3, b1, c1, d1, e1, o1, none

MCIdOf == [m \in Manifest |-> CASE m \in {a1, a2, a3} -> "a" [] m = b1 -> "b" [] m = c1 -> "c"
                           [] m = d1 -> "d" [] m = e1 -> "e" [] m = o1 -> "o"]
MCGenerationOf == [m \in Manifest |-> CASE m = a2 -> 2 [] m = a3 -> 3 [] OTHER -> 1]
MCLineageOf == MCIdOf
MCCapabilityOf == [m \in Manifest |-> IF m = b1 THEN "k2" ELSE "k"]
MCModelOf == [m \in Manifest |-> "receiver"]
MCDeltaOf == [m \in Manifest |-> IF m = e1 THEN a1 ELSE m]
MCTermsOf == [m \in Manifest |-> CASE m = c1 -> {a1, b1} [] m = d1 -> {c1, b1} [] OTHER -> {}]
MCPromotable == Manifest \ {o1}

\* Two levels of composition, a copy under another name, a skipped generation.
Manifests == {a1, a3, b1, c1, d1, e1}

\* Who is materialized, and so may be promoted: two rivals for one slot.
Candidates == {a1, c1}

\* Composition alone, without promotion.
Composites == {a1, b1, c1, d1}
NoCandidate == {}

\* At most three permits are granted.
FewPermits == Cardinality(permits) <= 3
=============================================================================
