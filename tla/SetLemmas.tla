----------------------------- MODULE SetLemmas -----------------------------
(* What several proofs need of the library's operators on sets.            *)
EXTENDS Naturals, Sequences, SequencesExt, FiniteSetTheorems, WellFoundedInduction, TLAPS

\* A search that ends, ends at a member: a set of numbers has a least one.  So do
\* those of getIfName for an index (reconciler.ts) and allocateIp for an address
\* (subnet.ts).
LEMMA MinIsMember ==
    ASSUME NEW S \in SUBSET Nat, S # {}
    PROVE  Min(S) \in S
<1> DEFINE less == {ss \in Nat \X Nat : ss[1] < ss[2]}
<1>1. IsWellFoundedOn(less, Nat)
  BY NatLessThanWellFounded DEF OpToRel
<1> HIDE DEF less
<1>2. PICK x \in S : \A y \in S : ~(<<y, x>> \in less)
  BY <1>1, WFMin
<1>3. ASSUME NEW y \in S PROVE x <= y
  <2>1. <<y, x>> \notin less /\ <<y, x>> \in Nat \X Nat
    BY <1>2
  <2>2. ~(y < x)
    BY <2>1 DEF less
  <2> QED
    BY <2>2
<1> QED
  BY <1>3 DEF Min

\* A set whose members are listed is finite: four more at a time.
LEMMA FourMoreAreFinite ==
    ASSUME NEW S, IsFiniteSet(S), NEW a, NEW b, NEW c, NEW d
    PROVE  IsFiniteSet(S \cup {a, b, c, d})
<1>1. IsFiniteSet(S \cup {a})
  BY FS_AddElement
<1>2. IsFiniteSet(S \cup {a} \cup {b})
  BY <1>1, FS_AddElement
<1>3. IsFiniteSet(S \cup {a} \cup {b} \cup {c})
  BY <1>2, FS_AddElement
<1>4. IsFiniteSet(S \cup {a} \cup {b} \cup {c} \cup {d})
  BY <1>3, FS_AddElement
<1>5. S \cup {a} \cup {b} \cup {c} \cup {d} = S \cup {a, b, c, d}
  OBVIOUS
<1> QED
  BY <1>4, <1>5

\* The members of a finite set in some order: what one step pushes, as a queue.
LEMMA SetToSeqFacts ==
    ASSUME NEW S, IsFiniteSet(S)
    PROVE  /\ SetToSeq(S) \in Seq(S)
           /\ \A x \in S : \E i \in DOMAIN SetToSeq(S) : SetToSeq(S)[i] = x
<1> DEFINE n == Cardinality(S)
<1>1. n \in Nat
  BY FS_CardinalityType
<1>2. ExistsBijection(1..n, S)
  BY FS_CardinalityType
<1>3. PICK f \in Bijection(1..n, S) : TRUE
  BY <1>2 DEF ExistsBijection
<1>4. f \in [1..n -> S] /\ IsInjective(f)
  BY <1>3 DEF Bijection, Injection, Surjection, IsInjective
<1>5. SetToSeq(S) \in [1..n -> S] /\ IsInjective(SetToSeq(S))
  BY <1>4 DEF SetToSeq
<1>6. SetToSeq(S) \in Injection(1..n, S)
  BY <1>5 DEF Injection, IsInjective
<1>7. IsFiniteSet(1..n) /\ Cardinality(1..n) = n
  BY <1>1, FS_Interval
<1>8. SetToSeq(S) \in Surjection(1..n, S)
  BY <1>6, <1>7, FS_Injection
<1>9. SetToSeq(S) \in Seq(S)
  BY <1>1, <1>5
<1> QED
  BY <1>5, <1>8, <1>9 DEF Surjection
=============================================================================
