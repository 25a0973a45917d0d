--------------------------- MODULE CountingLemmas ---------------------------
(* Facts about the size of finite sets that the proofs share.                 *)
EXTENDS Integers, FiniteSetTheorems, TLAPS

(* A finite set that loses some of its members and gains new ones is counted. *)
LEMMA LosesAndGains ==
    ASSUME NEW ids, IsFiniteSet(ids), NEW gone, gone \subseteq ids,
           NEW new, IsFiniteSet(new), ids \cap new = {}
    PROVE  Cardinality((ids \ gone) \cup new)
             = Cardinality(ids) - Cardinality(gone) + Cardinality(new)
<1> DEFINE kept == ids \ gone
<1>1. IsFiniteSet(gone)
  BY FS_Subset
<1>2. /\ Cardinality(ids) \in Nat /\ Cardinality(gone) \in Nat
      /\ Cardinality(new) \in Nat
  BY <1>1, FS_CardinalityType
<1>3. kept \cap new = {} /\ ids \cap gone = gone
  OBVIOUS
<1>4. IsFiniteSet(kept) /\ Cardinality(kept) = Cardinality(ids) - Cardinality(gone)
  <2>1. IsFiniteSet(ids \ gone) /\ Cardinality(ids \ gone) = Cardinality(ids) - Cardinality(ids \cap gone)
    BY FS_Difference, Zenon
  <2> QED
    BY <1>3, <2>1
<1> HIDE DEF kept
<1>5. Cardinality(kept \cup new) = Cardinality(kept) + Cardinality(new) - 0
  <2>1. Cardinality(kept \cup new)
          = Cardinality(kept) + Cardinality(new) - Cardinality(kept \cap new)
    BY <1>4, FS_Union, Zenon
  <2>2. Cardinality({}) = 0
    BY FS_EmptySet
  <2> QED
    BY <1>3, <2>1, <2>2
<1>6. PICK i \in Nat, g \in Nat, b \in Nat :
        i = Cardinality(ids) /\ g = Cardinality(gone) /\ b = Cardinality(new)
  BY <1>2
<1>7. Cardinality(kept \cup new) = i - g + b
  BY <1>4, <1>5, <1>6
<1> QED
  BY <1>6, <1>7 DEF kept
==============================================================================
