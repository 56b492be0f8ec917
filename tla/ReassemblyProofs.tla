---------------------------- MODULE ReassemblyProofs ----------------------------
(***************************************************************************)
(* Theorems about 6LoWPAN reassembly, for any packets, lengths, nodes,     *)
(* tags, contexts and fragment buffers: every buffer and every length is   *)
(* accounted for, and what the IP layer gets is of one packet and, unless  *)
(* its first fragment was refused or another one stored twice, whole.      *)
(***************************************************************************)
EXTENDS Reassembly, FiniteSetTheorems, WellFoundedInduction, TLAPS

--------------------------------------------------------------------------------
(* Sums over finite sets.  Lengths is a fold, which takes the elements in  *)
(* an order of its own; a sum does not depend on it.                       *)

\* the element of s that the fold takes, and what the fold is
Any(s) == CHOOSE x \in s : TRUE
IsSum(F, B, S) ==
  F = [s \in SUBSET S |-> IF s = {} THEN 0 ELSE B[Any(s)].len + F[s \ {Any(s)}]]

LEMMA LengthsDef ==
  ASSUME NEW B, NEW S
  PROVE  Lengths(B, S) = (CHOOSE F : IsSum(F, B, S))[S]
BY DEF Lengths, MapThenSumSet, MapThenFoldSet, IsSum, Any

(* Induction, as a least counterexample.                                   *)
LEMMA LeastOf ==
  ASSUME NEW N \in SUBSET Nat, N # {}
  PROVE  \E n \in N : \A m \in Nat : m < n => m \notin N
<1>1. PICK n \in N : \A m \in N : ~(<<m, n>> \in OpToRel(<, Nat))
  BY NatLessThanWellFounded, WFMin
<1>2. ASSUME NEW m \in Nat, m < n, m \in N
      PROVE  FALSE
  <2>1. <<m, n>> \in Nat \X Nat /\ <<m, n>>[1] = m /\ <<m, n>>[2] = n
    OBVIOUS
  <2> QED
    BY <1>1, <1>2, <2>1 DEF OpToRel
<1> QED
  BY <1>2

\* the fold on the parts of S of at most n elements, to show that there is one
UpTo(S, n) == {s \in SUBSET S : Cardinality(s) <= n}
PartSum(F, B, S, n) ==
  F = [s \in UpTo(S, n) |-> IF s = {} THEN 0 ELSE B[Any(s)].len + F[s \ {Any(s)}]]

LEMMA WithoutAny ==
  ASSUME NEW S, IsFiniteSet(S), NEW s \in SUBSET S, s # {}
  PROVE  /\ Any(s) \in s /\ s \ {Any(s)} \in SUBSET S
         /\ Cardinality(s) \in Nat /\ Cardinality(s \ {Any(s)}) = Cardinality(s) - 1
         /\ Cardinality(s) > 0
<1>1. Any(s) \in s
  BY DEF Any
<1>2. IsFiniteSet(s) /\ Cardinality(s) \in Nat
  BY FS_Subset, FS_CardinalityType
<1>3. Cardinality(s \ {Any(s)}) = Cardinality(s) - 1
  BY <1>1, <1>2, FS_RemoveElement
<1>4. Cardinality(s) # 0
  BY <1>2, FS_EmptySet
<1> QED
  BY <1>1, <1>2, <1>3, <1>4

LEMMA PartSumExists ==
  ASSUME NEW B, NEW S, IsFiniteSet(S), NEW n \in Nat
  PROVE  \E F : PartSum(F, B, S, n)
<1> DEFINE N == {m \in Nat : ~ \E F : PartSum(F, B, S, m)}
<1>1. SUFFICES ASSUME N # {} PROVE FALSE
  OBVIOUS
<1>2. PICK m \in N : \A k \in Nat : k < m => k \notin N
  BY <1>1, LeastOf
<1>3. CASE m = 0
  <2> DEFINE F == [s \in UpTo(S, 0) |-> 0]
  <2>1. ASSUME NEW s \in UpTo(S, 0)
        PROVE  s = {}
    <3>1. s \in SUBSET S /\ Cardinality(s) <= 0
      BY <2>1 DEF UpTo
    <3>2. ASSUME s # {}
          PROVE  FALSE
      <4>1. Cardinality(s) \in Nat /\ Cardinality(s) > 0
        BY <3>1, <3>2, WithoutAny
      <4> QED
        BY <3>1, <4>1
    <3> QED
      BY <3>2
  <2>2. PartSum(F, B, S, 0)
    BY <2>1 DEF PartSum
  <2> QED
    BY <1>2, <1>3, <2>2
<1>4. CASE m # 0
  <2>1. m - 1 \in Nat /\ m - 1 < m
    BY <1>2, <1>4
  <2>2. PICK E : PartSum(E, B, S, m - 1)
    BY <1>2, <2>1
  <2> DEFINE F == [s \in UpTo(S, m) |-> IF s = {} THEN 0 ELSE B[Any(s)].len + E[s \ {Any(s)}]]
  <2>3. ASSUME NEW s \in UpTo(S, m), s # {}
        PROVE  s \ {Any(s)} \in UpTo(S, m - 1)
    BY <2>1, <2>3, WithoutAny DEF UpTo
  <2>4. ASSUME NEW s \in UpTo(S, m - 1)
        PROVE  s \in UpTo(S, m) /\ F[s] = E[s]
    <3>1. s \in UpTo(S, m)
      <4>1. s \in SUBSET S /\ Cardinality(s) <= m - 1 /\ Cardinality(s) \in Nat
        BY FS_Subset, FS_CardinalityType DEF UpTo
      <4> QED
        BY <4>1, <2>1 DEF UpTo
    <3> QED
      BY <2>2, <2>4, <3>1 DEF PartSum
  <2>5. ASSUME NEW s \in UpTo(S, m), s # {}
        PROVE  F[s \ {Any(s)}] = E[s \ {Any(s)}]
    BY <2>3, <2>4, <2>5
  <2>6. PartSum(F, B, S, m)
    <3> SUFFICES F = [s \in UpTo(S, m) |-> IF s = {} THEN 0 ELSE B[Any(s)].len + F[s \ {Any(s)}]]
      BY DEF PartSum
    <3> QED
      BY <2>5
  <2> QED
    BY <1>2, <2>6
<1> QED
  BY <1>2, <1>3, <1>4

LEMMA SumExists ==
  ASSUME NEW B, NEW S, IsFiniteSet(S)
  PROVE  \E F : IsSum(F, B, S)
<1> DEFINE n == Cardinality(S)
<1>1. n \in Nat
  BY FS_CardinalityType
<1>2. UpTo(S, n) = SUBSET S
  BY FS_Subset DEF UpTo
<1>3. PICK F : PartSum(F, B, S, n)
  BY <1>1, PartSumExists
<1> QED
  BY <1>2, <1>3 DEF PartSum, IsSum

(* A sum of lengths is a number, the empty one 0, and any element may be   *)
(* taken out of it first.                                                  *)
LEMMA SumIs ==
  ASSUME NEW B, NEW S, IsFiniteSet(S), \A x \in S : B[x].len \in Nat,
         NEW F, IsSum(F, B, S)
  PROVE  \A s \in SUBSET S :
           F[s] \in Nat /\ \A x \in s : F[s] = B[x].len + F[s \ {x}]
<1> DEFINE Good(s) == F[s] \in Nat /\ \A x \in s : F[s] = B[x].len + F[s \ {x}]
           N == {n \in Nat : \E s \in SUBSET S : Cardinality(s) = n /\ ~Good(s)}
<1>1. SUFFICES ASSUME N # {} PROVE FALSE
  <2>1. ASSUME NEW s \in SUBSET S
        PROVE  Cardinality(s) \in Nat
    BY FS_Subset, FS_CardinalityType
  <2> QED
    BY <2>1
<1>2. PICK n \in N : \A m \in Nat : m < n => m \notin N
  <2> HIDE DEF N
  <2>1. N \in SUBSET Nat
    BY DEF N
  <2> QED
    BY <1>1, <2>1, LeastOf
<1>3. PICK s \in SUBSET S : Cardinality(s) = n /\ ~Good(s)
  BY <1>2
<1>4. ASSUME NEW r \in SUBSET S, Cardinality(r) < n
      PROVE  Good(r)
  <2>1. Cardinality(r) \in Nat
    BY FS_Subset, FS_CardinalityType
  <2> QED
    BY <1>2, <1>4, <2>1
<1>5. s # {}
  <2> SUFFICES ASSUME s = {} PROVE Good(s)
    BY <1>3
  <2> QED
    BY DEF IsSum
<1> DEFINE y == Any(s)
           t == s \ {y}
<1>6. /\ y \in s /\ t \in SUBSET S /\ Cardinality(t) < n
      /\ F[s] = B[y].len + F[t]
  <2>1. y \in s /\ t \in SUBSET S /\ Cardinality(t) < n
    BY <1>3, <1>5, WithoutAny
  <2>2. F[s] = B[y].len + F[t]
    BY <1>5 DEF IsSum
  <2> QED
    BY <2>1, <2>2
<1> HIDE DEF y, t
<1>7. F[s] \in Nat
  BY <1>4, <1>6
<1>8. ASSUME NEW x \in s, x # y
      PROVE  F[s] = B[x].len + F[s \ {x}]
  <2> DEFINE u == s \ {x}
             v == t \ {x}
  <2>1. v = u \ {y} /\ y \in u /\ x \in t /\ u \in SUBSET S /\ v \in SUBSET S
    BY <1>6, <1>8 DEF t
  <2>2. Cardinality(u) < n
    BY <1>3, <1>8, FS_Subset, FS_RemoveElement, FS_CardinalityType
  <2>3. Good(u) /\ Good(t)
    BY <1>4, <1>6, <2>1, <2>2
  <2>4. F[t] = B[x].len + F[v] /\ F[u] = B[y].len + F[v]
    BY <2>1, <2>3
  <2>5. Cardinality(v) < n
    <3>1. IsFiniteSet(u) /\ Cardinality(u) \in Nat
      BY <2>1, FS_Subset, FS_CardinalityType
    <3>2. Cardinality(u \ {y}) = Cardinality(u) - 1
      <4> HIDE DEF u, v
      <4> QED
        BY <2>1, <3>1, FS_RemoveElement
    <3>3. v = u \ {y} /\ n \in Nat
      BY <1>2, <2>1
    <3> HIDE DEF u, v, N
    <3> QED
      BY <2>2, <3>1, <3>2, <3>3
  <2>6. F[v] \in Nat
    BY <1>4, <2>1, <2>5
  <2>7. B[x].len \in Nat /\ B[y].len \in Nat
    BY <1>3, <1>6, <1>8
  <2> QED
    BY <1>6, <2>4, <2>6, <2>7
<1>9. Good(s)
  BY <1>6, <1>7, <1>8 DEF t
<1> QED
  BY <1>3, <1>9

(* The sums over parts of a set are the same whatever the set.             *)
LEMMA SumUnique ==
  ASSUME NEW B, NEW S, IsFiniteSet(S), \A x \in S : B[x].len \in Nat,
         NEW T \in SUBSET S, NEW F, IsSum(F, B, S), NEW G, IsSum(G, B, T)
  PROVE  \A s \in SUBSET T : F[s] = G[s]
<1> DEFINE N == {n \in Nat : \E s \in SUBSET T : Cardinality(s) = n /\ F[s] # G[s]}
<1>0. IsFiniteSet(T)
  BY FS_Subset
<1>1. SUFFICES ASSUME N # {} PROVE FALSE
  <2>1. ASSUME NEW s \in SUBSET T
        PROVE  Cardinality(s) \in Nat
    BY <1>0, FS_Subset, FS_CardinalityType
  <2> QED
    BY <2>1
<1>2. PICK n \in N : \A m \in Nat : m < n => m \notin N
  <2> HIDE DEF N
  <2>1. N \in SUBSET Nat
    BY DEF N
  <2> QED
    BY <1>1, <2>1, LeastOf
<1>3. PICK s \in SUBSET T : Cardinality(s) = n /\ F[s] # G[s]
  BY <1>2
<1>4. CASE s = {}
  BY <1>3, <1>4 DEF IsSum
<1>5. CASE s # {}
  <2> DEFINE t == s \ {Any(s)}
  <2>1. t \in SUBSET T /\ Cardinality(t) \in Nat /\ Cardinality(t) < n
    <3>1. t \in SUBSET T /\ Cardinality(t) = Cardinality(s) - 1 /\ n > 0
      BY <1>0, <1>3, <1>5, WithoutAny
    <3> QED
      BY <1>2, <1>3, <3>1
  <2>2. F[t] = G[t]
    BY <1>2, <2>1
  <2>3. F[s] = B[Any(s)].len + F[t] /\ G[s] = B[Any(s)].len + G[t]
    BY <1>5 DEF IsSum
  <2> QED
    BY <1>3, <2>2, <2>3
<1> QED
  BY <1>4, <1>5

(* Lengths: a number, 0 for no elements, and an element is added or taken  *)
(* out of it as of a sum.                                                  *)
LEMMA LengthsIs ==
  ASSUME NEW B, NEW S, IsFiniteSet(S), \A x \in S : B[x].len \in Nat
  PROVE  /\ Lengths(B, S) \in Nat
         /\ S = {} => Lengths(B, S) = 0
         /\ \A x \in S : Lengths(B, S) = B[x].len + Lengths(B, S \ {x})
<1>1. PICK F : IsSum(F, B, S) /\ Lengths(B, S) = F[S]
  BY SumExists, LengthsDef
<1>2. S \in SUBSET S
  OBVIOUS
<1>3. F[S] \in Nat /\ \A x \in S : F[S] = B[x].len + F[S \ {x}]
  <2>1. \A s \in SUBSET S : F[s] \in Nat /\ \A x \in s : F[s] = B[x].len + F[s \ {x}]
    BY <1>1, SumIs
  <2> QED
    BY <1>2, <2>1
<1>4. S = {} => F[S] = 0
  BY <1>1 DEF IsSum
<1>5. ASSUME NEW x \in S
      PROVE  Lengths(B, S \ {x}) = F[S \ {x}]
  <2> DEFINE T == S \ {x}
  <2>1. T \in SUBSET S /\ IsFiniteSet(T) /\ T \in SUBSET T
    BY FS_Subset
  <2>2. PICK G : IsSum(G, B, T) /\ Lengths(B, T) = G[T]
    BY <2>1, SumExists, LengthsDef
  <2>3. \A s \in SUBSET T : F[s] = G[s]
    BY <1>1, <2>1, <2>2, SumUnique
  <2> QED
    BY <2>1, <2>2, <2>3
<1> QED
  BY <1>1, <1>3, <1>4, <1>5

(* A part that is not the whole has less, if every element has something.  *)
LEMMA LengthsLess ==
  ASSUME NEW B, NEW S, IsFiniteSet(S), \A x \in S : B[x].len \in Nat \ {0},
         NEW T \in SUBSET S, T # S
  PROVE  Lengths(B, T) < Lengths(B, S)
<1> DEFINE More(s) == s \in SUBSET S /\ T \in SUBSET s /\ T # s
           N == {n \in Nat : \E s \in SUBSET S :
                   More(s) /\ Cardinality(s) = n /\ ~(Lengths(B, T) < Lengths(B, s))}
<1>0. ASSUME NEW s \in SUBSET S
      PROVE  /\ IsFiniteSet(s) /\ Cardinality(s) \in Nat /\ Lengths(B, s) \in Nat
             /\ \A x \in s : Lengths(B, s) = B[x].len + Lengths(B, s \ {x})
                             /\ Cardinality(s \ {x}) = Cardinality(s) - 1
  <2>1. IsFiniteSet(s) /\ Cardinality(s) \in Nat
    BY FS_Subset, FS_CardinalityType
  <2>2. \A x \in s : Cardinality(s \ {x}) = Cardinality(s) - 1
    BY <2>1, FS_RemoveElement
  <2>3. \A x \in s : B[x].len \in Nat
    OBVIOUS
  <2>4. Lengths(B, s) \in Nat /\ \A x \in s : Lengths(B, s) = B[x].len + Lengths(B, s \ {x})
    BY <2>1, <2>3, LengthsIs
  <2> QED
    BY <2>1, <2>2, <2>4
<1>1. SUFFICES ASSUME N # {} PROVE FALSE
  BY <1>0
<1>2. PICK n \in N : \A m \in Nat : m < n => m \notin N
  <2> HIDE DEF N
  <2>1. N \in SUBSET Nat
    BY DEF N
  <2> QED
    BY <1>1, <2>1, LeastOf
<1>3. PICK s \in SUBSET S : More(s) /\ Cardinality(s) = n /\ ~(Lengths(B, T) < Lengths(B, s))
  BY <1>2
<1>4. PICK x \in s : x \notin T
  BY <1>3
<1> DEFINE r == s \ {x}
<1>5. /\ r \in SUBSET S /\ T \in SUBSET r /\ n \in Nat
      /\ Cardinality(r) = n - 1 /\ Lengths(B, s) = B[x].len + Lengths(B, r)
      /\ B[x].len \in Nat \ {0}
  BY <1>0, <1>2, <1>3, <1>4
<1>6. Lengths(B, T) \in Nat /\ Lengths(B, r) \in Nat /\ Cardinality(r) \in Nat
  BY <1>0, <1>5
<1>7. r # T => Lengths(B, T) < Lengths(B, r)
  <2>1. Cardinality(r) < n
    BY <1>5, <1>6
  <2>2. Cardinality(r) \notin N
    <3> HIDE DEF N, r
    <3> QED
      BY <1>2, <1>6, <2>1
  <2> QED
    BY <1>5, <1>6, <2>2
<1> HIDE DEF r
<1>8. Lengths(B, T) < Lengths(B, s)
  BY <1>5, <1>6, <1>7
<1> QED
  BY <1>3, <1>8

(* The sum does not change when elements are given other names.            *)
LEMMA LengthsRenamed ==
  ASSUME NEW B, NEW E, NEW S, IsFiniteSet(S), NEW h,
         \A x \in S : B[x].len \in Nat /\ E[h[x]].len = B[x].len,
         \A x, y \in S : h[x] = h[y] => x = y
  PROVE  Lengths(B, S) = Lengths(E, {h[x] : x \in S})
<1> DEFINE Img(s) == {h[x] : x \in s}
           N == {n \in Nat : \E s \in SUBSET S :
                   Cardinality(s) = n /\ Lengths(B, s) # Lengths(E, Img(s))}
<1>0. ASSUME NEW s \in SUBSET S
      PROVE  /\ IsFiniteSet(s) /\ Cardinality(s) \in Nat
             /\ IsFiniteSet(Img(s)) /\ \A e \in Img(s) : E[e].len \in Nat
  <2>1. IsFiniteSet(s) /\ Cardinality(s) \in Nat
    BY FS_Subset, FS_CardinalityType
  <2> DEFINE g == [x \in s |-> h[x]]
  <2>2. g \in Surjection(s, Img(s))
    BY DEF Surjection
  <2>3. IsFiniteSet(Img(s))
    <3> HIDE DEF g, Img
    <3> QED
      BY <2>1, <2>2, FS_Surjection
  <2>4. ASSUME NEW e \in Img(s)
        PROVE  E[e].len \in Nat
    <3>1. PICK x \in s : e = h[x]
      OBVIOUS
    <3> QED
      BY <3>1
  <2> QED
    BY <2>1, <2>3, <2>4
<1>1. SUFFICES ASSUME N # {} PROVE FALSE
  <2>1. Cardinality(S) \in Nat /\ S \in SUBSET S
    BY <1>0
  <2> QED
    BY <2>1
<1>2. PICK n \in N : \A m \in Nat : m < n => m \notin N
  <2> HIDE DEF N
  <2>1. N \in SUBSET Nat
    BY DEF N
  <2> QED
    BY <1>1, <2>1, LeastOf
<1>3. PICK s \in SUBSET S : Cardinality(s) = n /\ Lengths(B, s) # Lengths(E, Img(s))
  BY <1>2
<1>4. CASE s = {}
  <2>1. Img(s) = {}
    BY <1>4
  <2>2. Lengths(B, s) = 0
    BY <1>0, <1>4, LengthsIs
  <2>3. Lengths(E, Img(s)) = 0
    <3> HIDE DEF Img
    <3> QED
      BY <1>0, <2>1, LengthsIs
  <2> QED
    BY <1>3, <2>2, <2>3
<1>5. CASE s # {}
  <2>1. PICK x \in s : TRUE
    BY <1>5
  <2> DEFINE r == s \ {x}
  <2>2. Img(s) \ {h[x]} = Img(r) /\ h[x] \in Img(s) /\ r \in SUBSET S
    OBVIOUS
  <2>3. Lengths(B, s) = B[x].len + Lengths(B, r)
    <3>1. IsFiniteSet(s) /\ \A y \in s : B[y].len \in Nat
      BY <1>0
    <3>2. \A y \in s : Lengths(B, s) = B[y].len + Lengths(B, s \ {y})
      BY <3>1, LengthsIs
    <3> QED
      BY <3>2
  <2>4. Lengths(E, Img(s)) = E[h[x]].len + Lengths(E, Img(r))
    <3>1. \A e \in Img(s) : Lengths(E, Img(s)) = E[e].len + Lengths(E, Img(s) \ {e})
      <4>1. IsFiniteSet(Img(s)) /\ \A e \in Img(s) : E[e].len \in Nat
        BY <1>0
      <4> HIDE DEF Img
      <4> QED
        BY <4>1, LengthsIs
    <3> HIDE DEF Img, r
    <3> QED
      BY <2>2, <3>1
  <2>5. Cardinality(r) \in Nat /\ Cardinality(r) < n
    <3>1. IsFiniteSet(s) /\ Cardinality(s) \in Nat /\ Cardinality(r) \in Nat
      BY <1>0, <2>2
    <3>2. Cardinality(r) = Cardinality(s) - 1
      BY <3>1, FS_RemoveElement
    <3> QED
      BY <1>3, <3>1, <3>2
  <2>6. Lengths(B, r) = Lengths(E, Img(r))
    <3>1. Cardinality(r) \notin N
      <4> HIDE DEF N, r
      <4> QED
        BY <1>2, <2>5
    <3> QED
      BY <2>2, <2>5, <3>1
  <2>7. E[h[x]].len = B[x].len
    OBVIOUS
  <2> HIDE DEF Img, r
  <2> QED
    BY <1>3, <2>3, <2>4, <2>6, <2>7
<1> QED
  BY <1>4, <1>5

--------------------------------------------------------------------------------
(* A packet and its fragments.                                             *)

USE ReassemblyAssumption

(* What the parts of a packet's length are.                                *)
LEMMA PayloadsAre ==
  ASSUME NEW p \in Packet
  PROVE  /\ fragn_max_payload(p) \in Nat /\ last_fragn_max_payload(p) \in Nat
         /\ 8 <= fragn_max_payload(p) /\ fragn_max_payload(p) <= last_fragn_max_payload(p)
         /\ processed(p, 0) \in Nat /\ processed(p, 0) < uip_len[p]
<1>1. /\ mac_max_payload[p] \in Nat /\ 13 <= mac_max_payload[p]
      /\ uncomp_hdr_len \in Nat /\ packetbuf_hdr_len \in Nat /\ uip_len[p] \in Nat
      /\ packetbuf_hdr_len + 4 <= mac_max_payload[p]
      /\ uip_len[p] + packetbuf_hdr_len > mac_max_payload[p] + uncomp_hdr_len
  OBVIOUS
<1>2. ASSUME NEW n \in Nat
      PROVE  Eights(n) \in Nat /\ Eights(n) <= n /\ n < Eights(n) + 8
  BY DEF Eights
<1>3. mac_max_payload[p] - 5 \in Nat /\ mac_max_payload[p] - packetbuf_hdr_len - 4 \in Nat
  BY <1>1
<1>4. 8 <= fragn_max_payload(p)
  <2> DEFINE n == mac_max_payload[p] - 5
  <2>1. n \in Nat /\ 8 <= n
    BY <1>1
  <2> HIDE DEF n
  <2>2. 1 <= n \div 8
    BY <2>1
  <2>3. 8 <= Eights(n)
    BY <2>1, <2>2 DEF Eights
  <2> QED
    BY <2>3 DEF fragn_max_payload, n
<1>5. /\ fragn_max_payload(p) \in Nat /\ last_fragn_max_payload(p) \in Nat
      /\ fragn_max_payload(p) <= last_fragn_max_payload(p)
  BY <1>2, <1>3 DEF fragn_max_payload, last_fragn_max_payload
<1>6. /\ frag1_payload(p) \in Nat
      /\ frag1_payload(p) <= mac_max_payload[p] - packetbuf_hdr_len - 4
  BY <1>2, <1>3 DEF frag1_payload
<1>7. processed(p, 0) = uncomp_hdr_len + frag1_payload(p)
  <2>1. 0 * fragn_max_payload(p) = 0
    BY <1>5
  <2> QED
    BY <1>1, <1>6, <2>1 DEF processed
<1> QED
  BY <1>1, <1>4, <1>5, <1>6, <1>7

(* The number of middle fragments: the rest after them is not empty.       *)
LEMMA MiddlesIs ==
  ASSUME NEW p \in Packet
  PROVE  Middles[p] \in Nat /\ processed(p, Middles[p]) < uip_len[p]
<1> DEFINE u == uip_len[p]
           a == processed(p, 0)
           b == fragn_max_payload(p)
           l == last_fragn_max_payload(p)
           M == {j \in 0 .. u \div 8 : processed(p, j) + l < u}
           N == {j \in Nat : ~(a + j * b + l < u)}
<1>1. u \in Nat /\ a \in Nat /\ b \in Nat /\ l \in Nat /\ 8 <= b /\ b <= l /\ a < u
  BY PayloadsAre
<1>2. ASSUME NEW j \in Nat
      PROVE  processed(p, j) = a + j * b
  <2>1. uncomp_hdr_len + frag1_payload(p) = a
    <3>1. frag1_payload(p) \in Int /\ b \in Int /\ uncomp_hdr_len \in Nat
      BY <1>1 DEF frag1_payload, Eights
    <3> QED
      BY <3>1 DEF processed
  <2> QED
    BY <2>1 DEF processed
<1>3. Middles[p] = Cardinality(M)
  BY DEF Middles
<1> HIDE DEF a, b, l
<1>4. ASSUME NEW j \in Nat
      PROVE  j * b \in Nat /\ 8 * j <= j * b /\ (j + 1) * b = j * b + b
             /\ \A k \in Nat : j <= k => j * b <= k * b
  <2>1. PICK e \in Nat : b = 8 + e
    <3>1. b - 8 \in Nat /\ b = 8 + (b - 8)
      BY <1>1
    <3> QED
      BY <3>1
  <2>2. j * b = 8 * j + j * e /\ j * e \in Nat /\ j * b \in Nat
    BY <2>1
  <2>3. ASSUME NEW k \in Nat, j <= k
        PROVE  j * b <= k * b
    <3>1. PICK m \in Nat : k = j + m
      <4>1. k - j \in Nat /\ k = j + (k - j)
        BY <2>3
      <4> QED
        BY <4>1
    <3>2. k * b = j * b + m * b /\ m * b \in Nat
      BY <3>1, <1>1
    <3> QED
      BY <2>2, <3>2
  <2>4. (j + 1) * b = j * b + b
    BY <1>1
  <2> QED
    BY <2>2, <2>3, <2>4
<1>5. PICK k \in N : \A m \in Nat : m < k => m \notin N
  <2>1. u \in N
    <3>1. u * b \in Nat /\ 8 * u <= u * b
      BY <1>1, <1>4
    <3> QED
      BY <1>1, <3>1
  <2> QED
    BY <2>1, LeastOf
<1>6. k \in Nat
  OBVIOUS
<1>7. M = 0 .. k - 1
  <2>1. ASSUME NEW j \in M
        PROVE  j \in 0 .. k - 1
    <3>1. j \in Nat /\ a + j * b + l < u
      BY <1>2, <1>1
    <3>2. CASE k <= j
      <4>1. k * b <= j * b /\ k * b \in Nat /\ j * b \in Nat
        BY <1>4, <3>1, <3>2, <1>6
      <4>2. ~(a + k * b + l < u)
        OBVIOUS
      <4> QED
        BY <1>1, <3>1, <4>1, <4>2
    <3> QED
      BY <1>6, <3>1, <3>2
  <2>2. ASSUME NEW j \in 0 .. k - 1
        PROVE  j \in M
    <3>1. j \in Nat /\ j < k
      BY <1>6
    <3>2. a + j * b + l < u
      BY <1>5, <3>1
    <3>3. j * b \in Nat /\ 8 * j <= j * b
      BY <1>4, <3>1
    <3>4. j \in 0 .. u \div 8
      <4>1. 8 * j < u
        BY <1>1, <3>1, <3>2, <3>3
      <4> QED
        BY <1>1, <3>1, <4>1
    <3> QED
      BY <1>2, <3>1, <3>2, <3>4
  <2> QED
    BY <2>1, <2>2
<1>8. Middles[p] = k
  <2>1. Cardinality(0 .. k - 1) = IF 0 > k - 1 THEN 0 ELSE (k - 1) - 0 + 1
    BY <1>6, FS_Interval
  <2>2. Cardinality(0 .. k - 1) = k
    <3> DEFINE C == Cardinality(0 .. k - 1)
    <3>1. C = IF 0 > k - 1 THEN 0 ELSE (k - 1) - 0 + 1
      BY <2>1
    <3> HIDE DEF C, N
    <3>2. C = k
      BY <1>6, <3>1
    <3> QED
      BY <3>2 DEF C
  <2> HIDE DEF M, N
  <2> QED
    BY <1>3, <1>7, <2>2
<1>9. a + k * b < u
  <2>1. CASE k = 0
    <3>1. k * b = 0
      BY <1>1, <2>1
    <3> QED
      BY <1>1, <3>1
  <2>2. CASE k # 0
    <3>1. k - 1 \in Nat /\ k - 1 < k
      BY <1>6, <2>2
    <3>2. a + (k - 1) * b + l < u
      BY <1>5, <3>1
    <3>3. (k - 1) * b \in Nat /\ k * b = (k - 1) * b + b
      <4>1. (k - 1) + 1 = k
        BY <1>6
      <4> QED
        BY <1>4, <3>1, <4>1
    <3> QED
      BY <1>1, <3>2, <3>3
  <2> QED
    BY <2>1, <2>2
<1> QED
  BY <1>2, <1>6, <1>8, <1>9

(* Every fragment has something, and all of them together are the packet.  *)
LEMMA FragmentsAre ==
  ASSUME NEW p \in Packet
  PROVE  /\ Fragment[p][0].len = processed(p, 0)
         /\ \A i \in 1 .. Middles[p] : Fragment[p][i].len = fragn_max_payload(p)
         /\ Fragment[p][Middles[p] + 1].len = uip_len[p] - processed(p, Middles[p])
         /\ \A i \in 1 .. Middles[p] + 1 : Fragment[p][i].len \in Nat \ {0} /\ Fragment[p][i].offset \in Nat
         /\ Fragment[p][0].len \in Nat /\ Fragment[p][0].len < uip_len[p]
<1> DEFINE m == Middles[p]
<1>1. m \in Nat /\ processed(p, m) < uip_len[p]
  BY MiddlesIs
<1>2. /\ fragn_max_payload(p) \in Nat \ {0} /\ uip_len[p] \in Nat
      /\ processed(p, 0) \in Nat /\ processed(p, 0) < uip_len[p]
  BY PayloadsAre
<1>3. ASSUME NEW j \in Nat
      PROVE  processed(p, j) \in Nat /\ processed(p, j) = processed(p, 0) + j * fragn_max_payload(p)
  <2>1. processed(p, 0) = uncomp_hdr_len + frag1_payload(p) /\ uncomp_hdr_len + frag1_payload(p) \in Nat
    <3>1. 0 * fragn_max_payload(p) = 0
      BY <1>2
    <3>2. uncomp_hdr_len + frag1_payload(p) \in Int
      BY DEF frag1_payload, Eights
    <3> QED
      BY <1>2, <3>1, <3>2 DEF processed
  <2>2. j * fragn_max_payload(p) \in Nat
    BY <1>2
  <2> QED
    BY <2>1, <2>2 DEF processed
<1> HIDE DEF m
<1>4. Fragment[p] =
        [i \in 0 .. m + 1 |->
           IF i = 0 THEN [offset |-> 0, len |-> processed(p, 0)]
           ELSE [offset |-> processed(p, i - 1),
                 len |-> IF i <= m THEN fragn_max_payload(p) ELSE uip_len[p] - processed(p, i - 1)]]
  BY DEF Fragment, m
<1>5. Fragment[p][0].len = processed(p, 0)
  BY <1>1, <1>4
<1>6. ASSUME NEW i \in 1 .. m
      PROVE  Fragment[p][i].len = fragn_max_payload(p)
  BY <1>1, <1>4
<1>7. Fragment[p][m + 1].len = uip_len[p] - processed(p, m)
  <2>1. m + 1 \in 0 .. m + 1 /\ m + 1 # 0 /\ ~(m + 1 <= m) /\ (m + 1) - 1 = m
    BY <1>1
  <2> QED
    BY <1>4, <2>1
<1>8. ASSUME NEW i \in 1 .. m + 1
      PROVE  Fragment[p][i].len \in Nat \ {0} /\ Fragment[p][i].offset \in Nat
  <2>1. Fragment[p][i].offset = processed(p, i - 1) /\ i - 1 \in Nat
    BY <1>1, <1>4
  <2>2. CASE i <= m
    BY <1>2, <1>3, <1>6, <2>1, <2>2
  <2>3. CASE ~(i <= m)
    <3>1. i = m + 1
      BY <1>1, <2>3
    <3> QED
      BY <1>1, <1>2, <1>3, <1>7, <2>1, <3>1
  <2> QED
    BY <2>2, <2>3
<1> QED
  BY <1>2, <1>5, <1>6, <1>7, <1>8 DEF m

(* All fragments but the first make the rest of the packet.                *)
LEMMA WholeIs ==
  ASSUME NEW p \in Packet
  PROVE  Lengths(Fragment[p], 1 .. Middles[p] + 1) = uip_len[p] - Fragment[p][0].len
<1> DEFINE m == Middles[p]
           b == fragn_max_payload(p)
           B == Fragment[p]
           N == {n \in Nat : n <= m /\ Lengths(B, 1 .. n) # n * b}
<1>1. m \in Nat /\ b \in Nat
  BY MiddlesIs, PayloadsAre
<1>2. /\ \A i \in 1 .. m : B[i].len = b
      /\ B[m + 1].len = uip_len[p] - processed(p, m)
      /\ \A i \in 1 .. m + 1 : B[i].len \in Nat
      /\ B[0].len = processed(p, 0)
  BY FragmentsAre
<1> HIDE DEF m, b, B
<1>3. ASSUME NEW n \in Nat, n <= m + 1
      PROVE  /\ Lengths(B, 1 .. n) \in Nat
             /\ n = 0 => Lengths(B, 1 .. n) = 0
             /\ n # 0 => Lengths(B, 1 .. n) = B[n].len + Lengths(B, 1 .. n - 1)
  <2>1. IsFiniteSet(1 .. n)
    BY FS_Interval
  <2>2. \A i \in 1 .. n : B[i].len \in Nat
    BY <1>1, <1>2, <1>3
  <2>3. /\ Lengths(B, 1 .. n) \in Nat
        /\ 1 .. n = {} => Lengths(B, 1 .. n) = 0
        /\ \A i \in 1 .. n : Lengths(B, 1 .. n) = B[i].len + Lengths(B, (1 .. n) \ {i})
    BY <2>1, <2>2, LengthsIs
  <2>4. n # 0 => n \in 1 .. n /\ (1 .. n) \ {n} = 1 .. n - 1
    OBVIOUS
  <2>5. n = 0 => 1 .. n = {}
    OBVIOUS
  <2> QED
    BY <2>3, <2>4, <2>5
<1>4. ASSUME N # {}
      PROVE  FALSE
  <2>1. PICK n \in N : \A k \in Nat : k < n => k \notin N
    <3>1. N \in SUBSET Nat
      OBVIOUS
    <3> HIDE DEF N
    <3> QED
      BY <1>4, <3>1, LeastOf
  <2>2. CASE n = 0
    <3>1. Lengths(B, 1 .. n) = 0
      BY <1>1, <1>3, <2>2
    <3>2. 0 * b = 0
      BY <1>1
    <3> QED
      BY <2>2, <3>1, <3>2
  <2>3. CASE n # 0
    <3>1. n \in Nat /\ n - 1 \in Nat /\ n - 1 < n /\ n <= m /\ n \in 1 .. m
      BY <1>1, <2>3
    <3>2. Lengths(B, 1 .. n - 1) = (n - 1) * b
      BY <1>1, <2>1, <3>1
    <3>3. Lengths(B, 1 .. n) = b + Lengths(B, 1 .. n - 1)
      <4>1. n <= m + 1
        BY <1>1, <3>1
      <4>2. B[n].len = b
        BY <1>2, <3>1
      <4> HIDE DEF N
      <4> QED
        BY <1>3, <2>3, <3>1, <4>1, <4>2
    <3>4. b + (n - 1) * b = n * b
      BY <1>1, <3>1
    <3> QED
      BY <3>2, <3>3, <3>4
  <2> QED
    BY <2>2, <2>3
<1>5. Lengths(B, 1 .. m) = m * b
  <2>1. m \in Nat /\ m <= m
    BY <1>1
  <2>2. m \notin N
    <3> HIDE DEF N
    <3> QED
      BY <1>4
  <2> QED
    BY <2>1, <2>2
<1>6. Lengths(B, 1 .. m + 1) = B[m + 1].len + Lengths(B, 1 .. m)
  <2>1. m + 1 \in Nat /\ m + 1 <= m + 1 /\ m + 1 # 0 /\ (m + 1) - 1 = m
    BY <1>1
  <2> QED
    BY <1>3, <2>1
<1>7. processed(p, m) = processed(p, 0) + m * b
  <2>1. uncomp_hdr_len + frag1_payload(p) \in Int
    BY DEF frag1_payload, Eights
  <2>2. 0 * b = 0 /\ m * b \in Nat
    BY <1>1
  <2> QED
    BY <2>1, <2>2 DEF processed, b
<1>8. uip_len[p] \in Nat /\ processed(p, 0) \in Nat /\ m * b \in Nat
  BY <1>1, PayloadsAre
<1> QED
  BY <1>2, <1>5, <1>6, <1>7, <1>8 DEF m, B

--------------------------------------------------------------------------------
(* The inductive invariant.                                                *)

Frag == [pkt : Packet, tag : Tag, i : Nat]
Info == [len : Nat, tag : Nat, sender : Sender \cup {NULL}, reassembled_len : Nat, expired : BOOLEAN,
         first_frag : (Packet \X Tag) \cup {NULL}, first_frag_len : Nat, of : Packet \cup {NULL}]
Buf  == [len : Nat, index : Context, offset : Nat, data : (Packet \X Tag \X Nat) \cup {NULL}]

\* a context is of one packet, and its first fragment if it has one
Knows(x) ==
  LET p == x.of
  IN  /\ p \in Packet /\ x.tag \in Tag /\ x.sender = Src[p] /\ x.len = uip_len[p]
      /\ x.first_frag # NULL => x.first_frag = <<p, x.tag>> /\ x.first_frag_len = Fragment[p][0].len

Kept(B, c) == {i \in Buffer : B[i].len > 0 /\ B[i].index = c}
Counts(I, B, c) ==
  I[c].first_frag # NULL => I[c].reassembled_len = I[c].first_frag_len + Lengths(B, Kept(B, c))

\* a buffer holds a fragment of the packet of its context
Holds(I, b) ==
  LET x == I[b.index]
      p == x.of
      n == b.data[3]
  IN  /\ x.len > 0 /\ n \in 1 .. Middles[p] + 1
      /\ b.data = <<p, x.tag, n>> /\ b.len = Fragment[p][n].len

Sound(I, B) ==
  /\ I \in [Context -> Info] /\ B \in [Buffer -> Buf]
  /\ \A c \in Context : I[c].len > 0 => Knows(I[c]) /\ Counts(I, B, c)
  /\ \A i \in Buffer : B[i].len > 0 => Holds(I, B[i])

\* what is complete does not wait
Waits(I) ==
  \A c \in Context : I[c].len > 0 /\ I[c].first_frag # NULL => I[c].reassembled_len < I[c].len

First(s, d) == air[s][d][1]

\* what the MAC has from one sender for one address is of one packet, under one tag
Flight ==
  /\ air \in [Sender -> [Address -> Seq(Frag)]]
  /\ \A s \in Sender, d \in Address : \A k \in DOMAIN air[s][d] :
       LET f == air[s][d][k]
       IN  /\ f.i \in 0 .. Middles[f.pkt] + 1 /\ Src[f.pkt] = s
           /\ f.pkt = First(s, d).pkt /\ f.tag = First(s, d).tag

\* ... which no other packet of the sender has
Distinct ==
  \A s \in Sender, d, e \in Address :
    air[s][d] # << >> /\ air[s][e] # << >> /\ First(s, d).tag = First(s, e).tag => d = e

\* ... and no context under that tag is of another
Matches(I) ==
  \A c \in Context : I[c].len > 0 =>
    \A d \in Address : \A k \in DOMAIN air[I[c].sender][d] :
      air[I[c].sender][d][k].tag = I[c].tag => air[I[c].sender][d][k].pkt = I[c].of

RInv == Flight /\ Distinct /\ Sound(frag_info, frag_buf) /\ Waits(frag_info) /\ Matches(frag_info)

LEMMA MinIs ==
  ASSUME NEW S \in SUBSET Nat, S # {}
  PROVE  Min(S) \in S
<1>1. PICK x \in S : \A y \in Nat : y < x => y \notin S
  BY LeastOf
<1>2. \A y \in S : x <= y
  BY <1>1
<1> QED
  BY <1>2 DEF Min

(* A sum depends on the lengths alone.                                     *)
LEMMA LengthsSame ==
  ASSUME NEW B, NEW E, NEW S, IsFiniteSet(S), \A x \in S : B[x].len \in Nat /\ E[x].len = B[x].len
  PROVE  Lengths(E, S) = Lengths(B, S)
<1> DEFINE h == [x \in S |-> x]
<1>1. \A x \in S : E[h[x]].len = B[x].len
  OBVIOUS
<1>2. \A x, y \in S : h[x] = h[y] => x = y
  OBVIOUS
<1>3. {h[x] : x \in S} = S
  OBVIOUS
<1> HIDE DEF h
<1>4. Lengths(B, S) = Lengths(E, {h[x] : x \in S})
  BY <1>1, <1>2, LengthsRenamed
<1> QED
  BY <1>3, <1>4

LEMMA KeptIs ==
  ASSUME NEW B \in [Buffer -> Buf], NEW c
  PROVE  /\ IsFiniteSet(Kept(B, c)) /\ \A i \in Kept(B, c) : B[i].len \in Nat
         /\ Lengths(B, Kept(B, c)) \in Nat
<1>1. IsFiniteSet(Buffer)
  BY FS_Interval DEF Buffer
<1>2. IsFiniteSet(Kept(B, c))
  BY <1>1, FS_Subset DEF Kept
<1>3. \A i \in Kept(B, c) : B[i].len \in Nat
  BY DEF Kept, Buf
<1> QED
  BY <1>2, <1>3, LengthsIs

--------------------------------------------------------------------------------
(* Three changes of the contexts and the buffers that keep them sound.     *)

Without(I, C) == [c \in Context |-> IF c \in C THEN ClearContext(I[c]) ELSE I[c]]

LEMMA NothingIs == NoContext \in Info /\ NoBuffer \in Buf /\ NoContext.len = 0 /\ NoBuffer.len = 0
<1>1. 1 \in Context
  BY DEF Context
<1> QED
  BY <1>1 DEF NoContext, NoBuffer, Info, Buf

LEMMA ClearedIs ==
  ASSUME NEW x \in Info
  PROVE  ClearContext(x) \in Info /\ ClearContext(x).len = 0
BY DEF ClearContext, NoContext, Info

LEMMA SoundClears ==
  ASSUME NEW I, NEW B, Sound(I, B), NEW C \in SUBSET Context, NEW J \in [Context -> Info],
         \A c \in C : J[c].len = 0, \A c \in Context \ C : J[c] = I[c]
  PROVE  Sound(J, clear_fragments(C, B))
<1> DEFINE D == clear_fragments(C, B)
<1>1. \A i \in Buffer : D[i] = IF B[i].len > 0 /\ B[i].index \in C THEN NoBuffer ELSE B[i]
  BY DEF clear_fragments
<1>2. D \in [Buffer -> Buf]
  BY NothingIs DEF clear_fragments, Sound
<1> HIDE DEF D
<1>3. ASSUME NEW c \in Context, J[c].len > 0
      PROVE  Knows(J[c]) /\ Counts(J, D, c)
  <2>1. c \notin C /\ J[c] = I[c] /\ I[c].len > 0
    BY <1>3
  <2>2. Kept(D, c) = Kept(B, c) /\ \A i \in Kept(B, c) : D[i] = B[i]
    BY <1>1, <2>1, NothingIs DEF Kept
  <2>3. Lengths(D, Kept(B, c)) = Lengths(B, Kept(B, c))
    <3>1. IsFiniteSet(Kept(B, c)) /\ \A i \in Kept(B, c) : B[i].len \in Nat
      BY KeptIs DEF Sound
    <3> QED
      BY <2>2, <3>1, LengthsSame
  <2> QED
    BY <2>1, <2>2, <2>3 DEF Sound, Counts
<1>4. ASSUME NEW i \in Buffer, D[i].len > 0
      PROVE  Holds(J, D[i])
  <2>1. D[i] = B[i] /\ B[i].index \notin C
    BY <1>1, <1>4, NothingIs
  <2>2. B[i].index \in Context
    BY DEF Sound, Buf
  <2>3. J[B[i].index] = I[B[i].index]
    BY <2>1, <2>2
  <2> QED
    BY <1>4, <2>1, <2>3 DEF Sound, Holds
<1> QED
  BY <1>2, <1>3, <1>4 DEF Sound, D

LEMMA SoundStarts ==
  ASSUME NEW I, NEW B, Sound(I, B), NEW c \in Context, I[c].len = 0,
         NEW x \in Info, x.len > 0 => Knows(x),
         x.first_frag # NULL => x.reassembled_len = x.first_frag_len
  PROVE  Sound([I EXCEPT ![c] = x], B)
<1> DEFINE J == [I EXCEPT ![c] = x]
<1>1. J \in [Context -> Info] /\ J[c] = x /\ \A e \in Context \ {c} : J[e] = I[e]
  BY DEF Sound
<1> HIDE DEF J
<1>2. Counts(J, B, c)
  <2>1. Kept(B, c) = {}
    BY DEF Sound, Holds, Kept
  <2>2. IsFiniteSet(Kept(B, c)) /\ \A i \in Kept(B, c) : B[i].len \in Nat
    BY KeptIs DEF Sound
  <2>3. Lengths(B, Kept(B, c)) = 0
    BY <2>1, <2>2, LengthsIs
  <2>4. x.first_frag_len \in Nat
    BY DEF Info
  <2> QED
    BY <1>1, <2>3, <2>4 DEF Counts
<1>3. ASSUME NEW e \in Context, J[e].len > 0
      PROVE  Knows(J[e]) /\ Counts(J, B, e)
  <2>1. CASE e = c
    BY <1>1, <1>2, <1>3, <2>1
  <2>2. CASE e # c
    <3>1. J[e] = I[e]
      BY <1>1, <2>2
    <3> QED
      BY <1>3, <3>1 DEF Sound, Counts
  <2> QED
    BY <2>1, <2>2
<1>4. ASSUME NEW i \in Buffer, B[i].len > 0
      PROVE  Holds(J, B[i])
  <2>1. B[i].index \in Context /\ Holds(I, B[i])
    BY <1>4 DEF Sound, Buf
  <2>2. J[B[i].index] = I[B[i].index]
    BY <1>1, <2>1 DEF Holds
  <2> QED
    BY <2>1, <2>2 DEF Holds
<1> QED
  BY <1>1, <1>3, <1>4 DEF Sound, J

LEMMA SoundAdds ==
  ASSUME NEW I, NEW B, Sound(I, B), NEW c \in Context, I[c].len > 0,
         NEW i \in Buffer, B[i].len = 0,
         NEW b \in Buf, b.index = c, b.len > 0, Holds(I, b)
  PROVE  Sound([I EXCEPT ![c] = [I[c] EXCEPT !.reassembled_len = @ + b.len]], [B EXCEPT ![i] = b])
<1> DEFINE x == [I[c] EXCEPT !.reassembled_len = @ + b.len]
           J == [I EXCEPT ![c] = x]
           D == [B EXCEPT ![i] = b]
<1>1. /\ x \in Info /\ x.len = I[c].len /\ x.tag = I[c].tag /\ x.first_frag = I[c].first_frag
      /\ x.sender = I[c].sender /\ x.first_frag_len = I[c].first_frag_len /\ x.of = I[c].of
      /\ x.reassembled_len = I[c].reassembled_len + b.len
  <2>1. I[c] \in Info /\ b.len \in Nat
    BY DEF Sound, Buf
  <2> QED
    BY <2>1 DEF Info
<1> HIDE DEF x
<1>2. J \in [Context -> Info] /\ J[c] = x /\ \A e \in Context \ {c} : J[e] = I[e]
  BY <1>1 DEF Sound
<1>3. D \in [Buffer -> Buf] /\ D[i] = b /\ \A j \in Buffer \ {i} : D[j] = B[j]
  BY DEF Sound
<1> HIDE DEF J, D
<1>4. Counts(J, D, c)
  <2>1. i \in Kept(D, c) /\ Kept(D, c) \ {i} = Kept(B, c) /\ \A j \in Kept(B, c) : D[j] = B[j]
    BY <1>3 DEF Kept
  <2>2. /\ IsFiniteSet(Kept(D, c)) /\ \A j \in Kept(D, c) : D[j].len \in Nat
        /\ IsFiniteSet(Kept(B, c)) /\ \A j \in Kept(B, c) : B[j].len \in Nat
        /\ Lengths(B, Kept(B, c)) \in Nat
    BY <1>3, KeptIs DEF Sound
  <2>3. Lengths(D, Kept(D, c)) = D[i].len + Lengths(D, Kept(D, c) \ {i})
    BY <2>1, <2>2, LengthsIs
  <2>4. Lengths(D, Kept(B, c)) = Lengths(B, Kept(B, c))
    BY <2>1, <2>2, LengthsSame
  <2>5. I[c].first_frag # NULL => I[c].reassembled_len = I[c].first_frag_len + Lengths(B, Kept(B, c))
    BY DEF Sound, Counts
  <2>6. b.len \in Nat /\ I[c].first_frag_len \in Nat
    BY DEF Sound, Buf, Info
  <2>7. Lengths(D, Kept(D, c)) = b.len + Lengths(B, Kept(B, c))
    BY <1>3, <2>1, <2>3, <2>4
  <2>8. /\ J[c].reassembled_len = I[c].reassembled_len + b.len
        /\ J[c].first_frag_len = I[c].first_frag_len /\ J[c].first_frag = I[c].first_frag
    BY <1>1, <1>2
  <2> QED
    BY <2>2, <2>5, <2>6, <2>7, <2>8 DEF Counts
<1>5. Knows(J[c])
  BY <1>1, <1>2 DEF Sound, Knows
<1>6. ASSUME NEW e \in Context, e # c, J[e].len > 0
      PROVE  Knows(J[e]) /\ Counts(J, D, e)
  <2>1. J[e] = I[e]
    BY <1>2, <1>6
  <2>2. Kept(D, e) = Kept(B, e) /\ \A j \in Kept(B, e) : D[j] = B[j]
    BY <1>3, <1>6 DEF Kept
  <2>3. IsFiniteSet(Kept(B, e)) /\ \A j \in Kept(B, e) : B[j].len \in Nat
    BY KeptIs DEF Sound
  <2>4. Lengths(D, Kept(B, e)) = Lengths(B, Kept(B, e))
    BY <2>2, <2>3, LengthsSame
  <2> QED
    BY <1>6, <2>1, <2>2, <2>4 DEF Sound, Counts
<1>7. ASSUME NEW j \in Buffer, D[j].len > 0
      PROVE  Holds(J, D[j])
  <2>1. Holds(I, D[j]) /\ D[j].index \in Context
    <3>1. CASE j = i
      BY <1>3, <3>1
    <3>2. CASE j # i
      BY <1>3, <1>7, <3>2 DEF Sound, Buf
    <3> QED
      BY <3>1, <3>2
  <2>2. /\ J[D[j].index].len = I[D[j].index].len
        /\ J[D[j].index].tag = I[D[j].index].tag
        /\ J[D[j].index].of = I[D[j].index].of
    BY <1>1, <1>2, <2>1
  <2> QED
    BY <2>1, <2>2 DEF Holds
<1> QED
  BY <1>2, <1>3, <1>4, <1>5, <1>6, <1>7 DEF Sound, J, D, x

--------------------------------------------------------------------------------
(* What the MAC has.                                                       *)

LEMMA FlyingIs ==
  ASSUME Flight, NEW s \in Sender, NEW d \in Address
  PROVE  /\ air[s] \in [Address -> Seq(Frag)] /\ air[s][d] \in Seq(Frag)
         /\ \A k \in DOMAIN air[s][d] :
              /\ air[s][d][k] \in Frag /\ Src[air[s][d][k].pkt] = s
              /\ air[s][d][k].i \in 0 .. Middles[air[s][d][k].pkt] + 1
              /\ air[s][d][k].pkt = First(s, d).pkt /\ air[s][d][k].tag = First(s, d).tag
         /\ air[s][d] # << >> =>
              /\ 1 \in DOMAIN air[s][d] /\ Head(air[s][d]) = First(s, d)
              /\ Tail(air[s][d]) \in Seq(Frag)
              /\ \A k \in DOMAIN Tail(air[s][d]) :
                   k + 1 \in DOMAIN air[s][d] /\ Tail(air[s][d])[k] = air[s][d][k + 1]
<1>1. air[s] \in [Address -> Seq(Frag)] /\ air[s][d] \in Seq(Frag)
  BY DEF Flight
<1>2. \A k \in DOMAIN air[s][d] : air[s][d][k] \in Frag
  BY <1>1
<1>3. air[s][d] # << >> =>
        /\ 1 \in DOMAIN air[s][d] /\ Head(air[s][d]) = air[s][d][1]
        /\ Tail(air[s][d]) \in Seq(Frag)
        /\ \A k \in DOMAIN Tail(air[s][d]) :
             k + 1 \in DOMAIN air[s][d] /\ Tail(air[s][d])[k] = air[s][d][k + 1]
  <2> DEFINE q == air[s][d]
  <2>1. q \in Seq(Frag)
    BY <1>1
  <2> HIDE DEF q
  <2>2. q # << >> =>
          /\ 1 \in DOMAIN q /\ Head(q) = q[1] /\ Tail(q) \in Seq(Frag)
          /\ \A k \in DOMAIN Tail(q) : k + 1 \in DOMAIN q /\ Tail(q)[k] = q[k + 1]
    BY <2>1
  <2> QED
    BY <2>2 DEF q
<1> QED
  BY <1>1, <1>2, <1>3 DEF Flight, First

\* what may be put in the place of the fragments of s for d
Fits(s, d, q) ==
  /\ q \in Seq(Frag)
  /\ \A k \in DOMAIN q :
       /\ Src[q[k].pkt] = s /\ q[k].i \in 0 .. Middles[q[k].pkt] + 1
       /\ q[k].pkt = q[1].pkt /\ q[k].tag = q[1].tag
  /\ q # << >> => \A e \in Address \ {d} : air[s][e] # << >> => First(s, e).tag # q[1].tag
  /\ q # << >> => \A c \in Context :
                    frag_info[c].len > 0 /\ frag_info[c].sender = s /\ frag_info[c].tag = q[1].tag
                      => frag_info[c].of = q[1].pkt

LEMMA FlightChanges ==
  ASSUME RInv, NEW s \in Sender, NEW d \in Address, NEW q, Fits(s, d, q),
         air' = [air EXCEPT ![s][d] = q], frag_info' = frag_info, frag_buf' = frag_buf
  PROVE  RInv'
<1>1. air \in [Sender -> [Address -> Seq(Frag)]]
  BY DEF RInv, Flight
<1> USE DEF Fits
<1>2. /\ air' \in [Sender -> [Address -> Seq(Frag)]] /\ air'[s][d] = q
      /\ \A t \in Sender, e \in Address : <<t, e>> # <<s, d>> => air'[t][e] = air[t][e]
  BY <1>1
<1>3. Flight'
  <2>1. ASSUME NEW t \in Sender, NEW e \in Address, NEW k \in DOMAIN air'[t][e]
        PROVE  LET f == air'[t][e][k]
               IN  /\ f.i \in 0 .. Middles[f.pkt] + 1 /\ Src[f.pkt] = t
                   /\ f.pkt = air'[t][e][1].pkt /\ f.tag = air'[t][e][1].tag
    <3>1. CASE <<t, e>> = <<s, d>>
      BY <1>2, <3>1
    <3>2. CASE <<t, e>> # <<s, d>>
      BY <1>2, <3>2 DEF RInv, Flight, First
    <3> QED
      BY <3>1, <3>2
  <2> QED
    BY <1>2, <2>1 DEF Flight, First
<1>4. Distinct'
  <2> SUFFICES ASSUME NEW t \in Sender, NEW e \in Address, NEW f \in Address,
                      air'[t][e] # << >>, air'[t][f] # << >>, air'[t][e][1].tag = air'[t][f][1].tag
               PROVE  e = f
    BY DEF Distinct, First
  <2>1. CASE t # s
    BY <1>2, <2>1 DEF RInv, Distinct, First
  <2>2. CASE t = s /\ e # d /\ f # d
    BY <1>2, <2>2 DEF RInv, Distinct, First
  <2>3. CASE t = s /\ (e = d \/ f = d)
    BY <1>2, <2>3 DEF First
  <2> QED
    BY <2>1, <2>2, <2>3
<1>5. Matches(frag_info)'
  <2> SUFFICES ASSUME NEW c \in Context, frag_info[c].len > 0,
                      NEW e \in Address, NEW k \in DOMAIN air'[frag_info[c].sender][e],
                      air'[frag_info[c].sender][e][k].tag = frag_info[c].tag
               PROVE  air'[frag_info[c].sender][e][k].pkt = frag_info[c].of
    BY DEF Matches
  <2>1. frag_info[c].sender \in Sender
    BY DEF RInv, Sound, Knows, Sender
  <2>2. CASE frag_info[c].sender = s /\ e = d
    <3>1. k \in DOMAIN q /\ q # << >>
      BY <1>2, <2>2
    <3> QED
      BY <1>2, <2>2, <3>1
  <2>3. CASE ~(frag_info[c].sender = s /\ e = d)
    <3>1. air'[frag_info[c].sender][e] = air[frag_info[c].sender][e]
      BY <1>2, <2>1, <2>3
    <3>2. \A m \in DOMAIN air[frag_info[c].sender][e] :
            air[frag_info[c].sender][e][m].tag = frag_info[c].tag
              => air[frag_info[c].sender][e][m].pkt = frag_info[c].of
      BY DEF RInv, Matches
    <3> QED
      BY <3>1, <3>2
  <2> QED
    BY <2>2, <2>3
<1>6. (Sound(frag_info, frag_buf) /\ Waits(frag_info))'
  BY DEF RInv, Sound, Waits
<1> QED
  BY <1>3, <1>4, <1>5, <1>6 DEF RInv

LEMMA LeaveKeeps ==
  ASSUME RInv, NEW s \in Sender, NEW d \in Address, Leave(s, d)
  PROVE  RInv'
<1> DEFINE q == Tail(air[s][d])
<1>1. /\ air[s][d] # << >> /\ air' = [air EXCEPT ![s][d] = q]
      /\ frag_info' = frag_info /\ frag_buf' = frag_buf
  BY DEF Leave
<1>2. /\ q \in Seq(Frag) /\ 1 \in DOMAIN air[s][d]
      /\ \A k \in DOMAIN q :
           \E m \in DOMAIN air[s][d] :
             /\ q[k] = air[s][d][m] /\ Src[q[k].pkt] = s /\ q[k].i \in 0 .. Middles[q[k].pkt] + 1
             /\ q[k].pkt = First(s, d).pkt /\ q[k].tag = First(s, d).tag
  <2>1. Flight /\ air[s][d] # << >>
    BY <1>1 DEF RInv
  <2>2. /\ q \in Seq(Frag) /\ 1 \in DOMAIN air[s][d]
        /\ \A k \in DOMAIN q : k + 1 \in DOMAIN air[s][d] /\ q[k] = air[s][d][k + 1]
    BY <2>1, FlyingIs
  <2>3. \A m \in DOMAIN air[s][d] :
          /\ Src[air[s][d][m].pkt] = s
          /\ air[s][d][m].i \in 0 .. Middles[air[s][d][m].pkt] + 1
          /\ air[s][d][m].pkt = First(s, d).pkt /\ air[s][d][m].tag = First(s, d).tag
    BY <2>1, FlyingIs
  <2> HIDE DEF q
  <2>4. ASSUME NEW k \in DOMAIN q
        PROVE  \E m \in DOMAIN air[s][d] :
                 /\ q[k] = air[s][d][m] /\ Src[q[k].pkt] = s /\ q[k].i \in 0 .. Middles[q[k].pkt] + 1
                 /\ q[k].pkt = First(s, d).pkt /\ q[k].tag = First(s, d).tag
    <3>1. k + 1 \in DOMAIN air[s][d] /\ q[k] = air[s][d][k + 1]
      BY <2>2
    <3> QED
      BY <2>3, <3>1
  <2> QED
    BY <2>2, <2>4
<1> HIDE DEF q
<1>3. q # << >> => 1 \in DOMAIN q
  BY <1>2
<1>4. \A k \in DOMAIN q :
        /\ Src[q[k].pkt] = s /\ q[k].i \in 0 .. Middles[q[k].pkt] + 1
        /\ q[k].pkt = q[1].pkt /\ q[k].tag = q[1].tag
  <2>1. \A k \in DOMAIN q : q # << >>
    BY <1>2
  <2> QED
    BY <1>2, <1>3, <2>1
<1>5. q # << >> => \A e \in Address \ {d} : air[s][e] # << >> => First(s, e).tag # q[1].tag
  BY <1>1, <1>2, <1>3 DEF RInv, Distinct
<1>6. ASSUME q # << >>, NEW c \in Context, frag_info[c].len > 0, frag_info[c].sender = s,
             frag_info[c].tag = q[1].tag
      PROVE  frag_info[c].of = q[1].pkt
  <2>1. PICK m \in DOMAIN air[s][d] : q[1] = air[s][d][m]
    BY <1>2, <1>3, <1>6
  <2> QED
    BY <1>6, <2>1 DEF RInv, Matches
<1>7. q # << >> => \A c \in Context :
        frag_info[c].len > 0 /\ frag_info[c].sender = s /\ frag_info[c].tag = q[1].tag
          => frag_info[c].of = q[1].pkt
  BY <1>6
<1>8. q \in Seq(Frag)
  BY <1>2
<1>9. Fits(s, d, q)
  BY <1>4, <1>5, <1>7, <1>8 DEF Fits
<1> QED
  BY <1>1, <1>9, FlightChanges

LEMMA FunctionIsSeq ==
  ASSUME NEW S, NEW m \in Nat, NEW f \in [1 .. m -> S]
  PROVE  f \in Seq(S)
OBVIOUS

LEMMA OutputKeeps ==
  ASSUME RInv, NEW p \in Packet, NEW n \in DOMAIN Fragment[p], output(p, n + 1)
  PROVE  RInv'
<1> DEFINE s == Src[p]
           d == Dest[p]
           tag == Min(Tag \ InUse(s))
           q == [k \in 1 .. n + 1 |-> [pkt |-> p, tag |-> tag, i |-> k - 1]]
<1>1. s \in Sender /\ d \in Address
  BY DEF Sender, Address
<1>2. /\ air' = [air EXCEPT ![s][d] = q] /\ frag_info' = frag_info /\ frag_buf' = frag_buf
      /\ Tag \ InUse(s) # {}
  BY DEF output
<1>3. tag \in Tag /\ tag \notin InUse(s)
  <2>1. Tag \ InUse(s) \in SUBSET Nat
    OBVIOUS
  <2> QED
    BY <1>2, <2>1, MinIs
<1> HIDE DEF tag
<1>4. Middles[p] \in Nat /\ n \in 0 .. Middles[p] + 1
  BY MiddlesIs DEF Fragment
<1>5. q \in Seq(Frag) /\ 1 \in DOMAIN q
  <2>1. \A k \in 1 .. n + 1 : [pkt |-> p, tag |-> tag, i |-> k - 1] \in Frag
    BY <1>3, <1>4 DEF Frag
  <2>2. n + 1 \in Nat /\ 1 \in 1 .. n + 1
    BY <1>4
  <2>3. q \in [1 .. n + 1 -> Frag]
    BY <2>1
  <2>4. DOMAIN q = 1 .. n + 1
    OBVIOUS
  <2> HIDE DEF q
  <2>5. q \in Seq(Frag)
    BY <2>2, <2>3, FunctionIsSeq
  <2> QED
    BY <2>2, <2>4, <2>5
<1>6. \A k \in DOMAIN q :
        /\ Src[q[k].pkt] = s /\ q[k].i \in 0 .. Middles[q[k].pkt] + 1
        /\ q[k].pkt = q[1].pkt /\ q[k].tag = q[1].tag
  <2>1. \A k \in DOMAIN q : q[k].pkt = p /\ q[k].tag = tag /\ q[k].i = k - 1 /\ k \in 1 .. n + 1
    OBVIOUS
  <2>2. \A k \in 1 .. n + 1 : k - 1 \in 0 .. Middles[p] + 1
    BY <1>4
  <2>3. 1 \in DOMAIN q
    BY <1>5
  <2> HIDE DEF q, s
  <2>4. q[1].pkt = p /\ q[1].tag = tag
    BY <2>1, <2>3
  <2>5. ASSUME NEW k \in DOMAIN q
        PROVE  /\ Src[q[k].pkt] = Src[p] /\ q[k].i \in 0 .. Middles[q[k].pkt] + 1
               /\ q[k].pkt = q[1].pkt /\ q[k].tag = q[1].tag
    BY <2>1, <2>2, <2>4
  <2> QED
    BY <2>5 DEF s
<1>7. ASSUME NEW e \in Address \ {d}, air[s][e] # << >>
      PROVE  First(s, e).tag # q[1].tag
  <2>1. First(s, e).tag = Head(air[s][e]).tag
    BY <1>1, <1>7, FlyingIs DEF RInv
  <2>2. Head(air[s][e]).tag \in InUse(s)
    BY <1>7 DEF InUse
  <2> QED
    BY <1>3, <1>5, <2>1, <2>2
<1>8. ASSUME NEW c \in Context, frag_info[c].len > 0, frag_info[c].sender = s,
             frag_info[c].tag = q[1].tag
      PROVE  FALSE
  <2>1. frag_info[c].tag \in InUse(s)
    BY <1>8 DEF InUse
  <2> QED
    BY <1>3, <1>5, <1>8, <2>1
<1>9. q # << >> => \A e \in Address \ {d} : air[s][e] # << >> => First(s, e).tag # q[1].tag
  BY <1>7
<1>10. q # << >> => \A c \in Context :
         frag_info[c].len > 0 /\ frag_info[c].sender = s /\ frag_info[c].tag = q[1].tag
           => frag_info[c].of = q[1].pkt
  BY <1>8
<1> HIDE DEF q, s, d
<1>11. Fits(s, d, q)
  BY <1>5, <1>6, <1>9, <1>10 DEF Fits
<1> QED
  BY <1>1, <1>2, <1>11, FlightChanges

--------------------------------------------------------------------------------
(* Input.                                                                  *)

LEMMA OnePacket ==
  ASSUME RInv, NEW s \in Sender, NEW d \in Address, air[s][d] # << >>,
         NEW e \in Address
  PROVE  \A k \in DOMAIN air[s][e] :
           air[s][e][k].tag = First(s, d).tag => air[s][e][k].pkt = First(s, d).pkt
<1> SUFFICES ASSUME NEW k \in DOMAIN air[s][e], air[s][e][k].tag = First(s, d).tag
             PROVE  air[s][e][k].pkt = First(s, d).pkt
  OBVIOUS
<1>1. air[s][e] # << >>
  OBVIOUS
<1>2. air[s][e][k].tag = First(s, e).tag /\ air[s][e][k].pkt = First(s, e).pkt
  BY FlyingIs DEF RInv
<1>3. e = d
  BY <1>1, <1>2 DEF RInv, Distinct
<1> QED
  BY <1>2, <1>3

\* contexts that are in use are those that were, for the same packets
SameSessions(J) ==
  \A c \in Context : J[c].len > 0 =>
    /\ frag_info[c].len > 0 /\ J[c].len = frag_info[c].len
    /\ J[c].tag = frag_info[c].tag /\ J[c].sender = frag_info[c].sender
    /\ J[c].first_frag = frag_info[c].first_frag /\ J[c].of = frag_info[c].of

LEMMA InputKeeps ==
  ASSUME RInv, air' = air, Sound(frag_info', frag_buf'), Waits(frag_info'), SameSessions(frag_info')
  PROVE  RInv'
<1>1. Flight' /\ Distinct'
  BY DEF RInv, Flight, Distinct, First
<1>2. Matches(frag_info)'
  BY DEF RInv, Matches, SameSessions
<1>3. Sound(frag_info, frag_buf)' /\ Waits(frag_info)'
  BY DEF Sound, Waits
<1> QED
  BY <1>1, <1>2, <1>3 DEF RInv

LEMMA WithoutIs ==
  ASSUME RInv, NEW C \in SUBSET Context
  PROVE  /\ Cleared(C) = Without(frag_info, C)
         /\ Without(frag_info, C) \in [Context -> Info]
         /\ \A c \in C : Without(frag_info, C)[c].len = 0
         /\ \A c \in Context \ C : Without(frag_info, C)[c] = frag_info[c]
         /\ Sound(Without(frag_info, C), clear_fragments(C, frag_buf))
         /\ SameSessions(Without(frag_info, C)) /\ Waits(Without(frag_info, C))
<1> DEFINE W == Without(frag_info, C)
<1>1. Cleared(C) = W
  BY DEF Cleared, Without
<1>2. frag_info \in [Context -> Info] /\ Sound(frag_info, frag_buf)
  BY DEF RInv, Sound
<1>3. W \in [Context -> Info]
  BY <1>2, ClearedIs DEF Without
<1>4. \A c \in C : W[c].len = 0
  BY <1>2, ClearedIs DEF Without
<1>5. \A c \in Context \ C : W[c] = frag_info[c]
  BY DEF Without
<1> HIDE DEF W
<1>6. Sound(W, clear_fragments(C, frag_buf))
  BY <1>2, <1>3, <1>4, <1>5, SoundClears
<1>7. \A c \in Context : W[c].len > 0 => W[c] = frag_info[c]
  BY <1>4, <1>5
<1>8. SameSessions(W)
  BY <1>7 DEF SameSessions
<1>9. Waits(W)
  BY <1>7 DEF RInv, Waits
<1> QED
  BY <1>1, <1>3, <1>4, <1>5, <1>6, <1>8, <1>9 DEF W

LEMMA FirstFragmentKeeps ==
  ASSUME RInv, NEW s \in Sender, NEW d \in Address, air[s][d] # << >>,
         FirstFragment(First(s, d)), air' = air
  PROVE  RInv'
<1> DEFINE f == First(s, d)
           free == {c \in Context : frag_info[c].len = 0} \cup Expired
           found == Min(free)
           I == Without(frag_info, Expired)
           info == Taken(frag_info[found], f)
           large == Fragment[f.pkt][0].len > UIP_BUFSIZE
           x == IF f.pkt \in Refused THEN info
                ELSE IF large THEN ClearContext(info)
                ELSE WithFirst(info, f)
<1>1. /\ frag_buf' = clear_fragments(Expired, frag_buf)
      /\ frag_info' = IF free = {} THEN frag_info ELSE [I EXCEPT ![found] = x]
  <2>1. Cleared(Expired) = I
    BY WithoutIs DEF Expired
  <2> QED
    BY <2>1 DEF FirstFragment
<1>2. f \in Frag /\ Src[f.pkt] = s
  BY FlyingIs DEF RInv, First
<1>3. Expired \in SUBSET Context /\ Sound(frag_info, frag_buf) /\ frag_info \in [Context -> Info]
  BY DEF Expired, RInv, Sound
<1>4. Sound(I, frag_buf')
  BY <1>1, <1>3, WithoutIs
<1>5. /\ \A c \in Expired : I[c].len = 0
      /\ \A c \in Context \ Expired : I[c] = frag_info[c]
      /\ SameSessions(I) /\ Waits(I)
  BY <1>3, WithoutIs
<1>6. \A e \in Address : \A k \in DOMAIN air[s][e] :
        air[s][e][k].tag = First(s, d).tag => air[s][e][k].pkt = First(s, d).pkt
  BY OnePacket
<1>7. CASE free = {}
  <2>1. frag_info' = frag_info /\ Expired = {}
    BY <1>1, <1>7
  <2>2. I = frag_info
    BY <1>3, <2>1 DEF Without
  <2> HIDE DEF I
  <2> QED
    BY <1>4, <1>5, <2>1, <2>2, InputKeeps
<1>8. CASE free # {}
  <2>1. found \in free /\ found \in Context
    <3>1. free \in SUBSET Nat /\ free \in SUBSET Context
      BY DEF Context, Expired
    <3> HIDE DEF free
    <3> QED
      BY <1>8, <3>1, MinIs
  <2>2. frag_info[found] \in Info
    BY <1>3, <2>1
  <2>3. f.pkt \in Packet /\ f.tag \in Tag /\ f.tag \in Nat
    BY <1>2 DEF Frag
  <2>4. Fragment[f.pkt][0].len \in Nat /\ Fragment[f.pkt][0].len < uip_len[f.pkt] /\ uip_len[f.pkt] \in Nat
    BY <2>3, FragmentsAre
  <2> HIDE DEF found, f
  <2>5. /\ info \in Info /\ info.len = uip_len[f.pkt] /\ info.tag = f.tag /\ info.sender = Src[f.pkt]
        /\ info.first_frag = NULL /\ info.of = f.pkt
    <3>1. Src[f.pkt] \in Sender
      BY <2>3 DEF Sender
    <3>2. ClearContext(frag_info[found]) \in Info /\ ClearContext(frag_info[found]).first_frag = NULL
      BY <2>2, ClearedIs DEF ClearContext, NoContext
    <3> QED
      BY <2>3, <2>4, <3>1, <3>2 DEF Taken, Info
  <2> HIDE DEF info
  <2>6. /\ x \in Info
        /\ x.len > 0 => /\ x.len = uip_len[f.pkt] /\ x.tag = f.tag /\ x.sender = Src[f.pkt] /\ x.of = f.pkt
        /\ x.len > 0 /\ x.first_frag # NULL => x.first_frag = <<f.pkt, f.tag>>
        /\ x.first_frag # NULL => /\ x.first_frag_len = Fragment[f.pkt][0].len
                                  /\ x.reassembled_len = Fragment[f.pkt][0].len
    <3>1. CASE f.pkt \in Refused
      BY <2>5, <3>1
    <3>2. CASE f.pkt \notin Refused /\ large
      <4>1. x = ClearContext(info)
        BY <3>2
      <4>2. x.first_frag = NULL
        BY <4>1 DEF ClearContext, NoContext
      <4> QED
        BY <2>5, <4>1, <4>2, ClearedIs
    <3>3. CASE f.pkt \notin Refused /\ ~large
      <4>1. x = WithFirst(info, f)
        BY <3>3
      <4> QED
        <5>1. <<f.pkt, f.tag>> \in Packet \X Tag
          BY <2>3
        <5> DEFINE n == Fragment[f.pkt][0].len
        <5>2. n \in Nat
          BY <2>4
        <5>3. x = [info EXCEPT !.reassembled_len = n, !.first_frag_len = n, !.first_frag = <<f.pkt, f.tag>>]
          BY <4>1 DEF WithFirst
        <5> HIDE DEF n, x
        <5>4. x \in Info
          BY <2>5, <5>1, <5>2, <5>3 DEF Info
        <5>5. /\ x.len = info.len /\ x.tag = info.tag /\ x.sender = info.sender /\ x.of = info.of
              /\ x.first_frag = <<f.pkt, f.tag>> /\ x.first_frag_len = n /\ x.reassembled_len = n
          BY <2>5, <5>3 DEF Info
        <5> QED
          BY <2>5, <5>4, <5>5 DEF n
    <3> QED
      BY <3>1, <3>2, <3>3
  <2> HIDE DEF x
  <2>61. x.len > 0 => Knows(x)
    BY <2>3, <2>6 DEF Knows
  <2>7. I[found].len = 0
    BY <1>5, <2>1 DEF found
  <2> HIDE DEF I, free
  <2>8. frag_info' = [I EXCEPT ![found] = x]
    BY <1>1, <1>8
  <2>9. Sound(frag_info', frag_buf')
    BY <1>4, <2>1, <2>6, <2>61, <2>7, <2>8, SoundStarts
  <2>10. frag_info'[found] = x /\ \A c \in Context \ {found} : frag_info'[c] = I[c]
    BY <1>4, <2>1, <2>8 DEF Sound
  <2>11. Waits(frag_info')
    BY <1>5, <2>4, <2>6, <2>10 DEF Waits
  <2>12. Matches(frag_info)'
    <3> SUFFICES ASSUME NEW c \in Context, frag_info'[c].len > 0,
                        NEW e \in Address, NEW k \in DOMAIN air[frag_info'[c].sender][e],
                        air[frag_info'[c].sender][e][k].tag = frag_info'[c].tag
                 PROVE  air[frag_info'[c].sender][e][k].pkt = frag_info'[c].of
      BY DEF Matches
    <3>1. CASE c = found
      <4>1. /\ frag_info'[c].sender = s /\ frag_info'[c].tag = First(s, d).tag
            /\ frag_info'[c].of = First(s, d).pkt
        BY <1>2, <2>6, <2>10, <3>1 DEF f
      <4> QED
        BY <1>6, <4>1
    <3>2. CASE c # found
      <4>1. frag_info'[c] = I[c]
        BY <2>10, <3>2
      <4>2. /\ frag_info[c].len > 0 /\ frag_info'[c].tag = frag_info[c].tag
            /\ frag_info'[c].sender = frag_info[c].sender
            /\ frag_info'[c].of = frag_info[c].of
        BY <1>5, <4>1 DEF SameSessions
      <4>3. \A m \in DOMAIN air[frag_info[c].sender][e] :
              air[frag_info[c].sender][e][m].tag = frag_info[c].tag
                => air[frag_info[c].sender][e][m].pkt = frag_info[c].of
        BY <4>2 DEF RInv, Matches
      <4> QED
        BY <4>2, <4>3
    <3> QED
      BY <3>1, <3>2
  <2>13. Flight' /\ Distinct'
    BY DEF RInv, Flight, Distinct, First
  <2>14. Sound(frag_info, frag_buf)' /\ Waits(frag_info)'
    BY <2>9, <2>11 DEF Sound, Waits
  <2> QED
    BY <2>12, <2>13, <2>14 DEF RInv
<1> QED
  BY <1>7, <1>8

\* what is copied when the fragments of context c in the buffers D are all there
Copies(D, c) == [j \in Kept(D, c) |-> D[j]]

\* the contexts and the buffers after a fragment was added to context c
Added(J, D, c) ==
  /\ Sound(J, D) /\ SameSessions(J)
  /\ J[c].len > 0
  /\ \A e \in Context \ {c} :
       J[e].len > 0 /\ J[e].first_frag # NULL => J[e].reassembled_len < J[e].len

\* what input of a subsequent fragment f does
Dropped ==
  /\ Sound(frag_info', frag_buf') /\ SameSessions(frag_info') /\ Waits(frag_info')
  /\ uip' = NULL
Stored ==
  \E c \in Context :
    /\ Added(frag_info', frag_buf', c)
    /\ frag_info'[c].reassembled_len < frag_info'[c].len
    /\ uip' = NULL
Finished(f) ==
  \E c \in Context : \E J, D :
    /\ Added(J, D, c)
    /\ f.pkt = J[c].of /\ f.pkt \in Packet
    /\ frag_info' \in [Context -> Info] /\ frag_info'[c].len = 0
    /\ \A e \in Context \ {c} : frag_info'[e] = J[e]
    /\ frag_buf' = clear_fragments({c}, D)
    /\ uip' # NULL => /\ J[c].reassembled_len >= J[c].len
                      /\ uip' = copy_frags2uip(f, frag_info[c], Copies(D, c))

LEMMA NFragmentIs ==
  ASSUME RInv, NEW s \in Sender, NEW d \in Address, air[s][d] # << >>,
         NFragment(First(s, d))
  PROVE  Dropped \/ Stored \/ Finished(First(s, d))
<1> DEFINE f == First(s, d)
           part == Fragment[f.pkt][f.i]
           c    == Min(Session(f))
           C    == Late(c)
           I    == Without(frag_info, C)
           bufs == clear_fragments(C, frag_buf)
           i    == Min(FreeBuffers(bufs))
           b    == [len |-> part.len, index |-> c, offset |-> part.offset,
                    data |-> <<f.pkt, f.tag, f.i>>]
           D    == [bufs EXCEPT ![i] = b]
           more == [frag_info[c] EXCEPT !.reassembled_len = @ + part.len]
           J    == [I EXCEPT ![c] = more]
           full == more.reassembled_len >= uip_len[f.pkt]
           large == part.offset + part.len > UIP_BUFSIZE
           gone == ClearContext(IF large THEN more
                                ELSE [more EXCEPT !.reassembled_len = uip_len[f.pkt]])
           chunks == [j \in {j \in Buffer : D[j].len > 0 /\ D[j].index = c} |-> D[j]]
<1>1. /\ f.i > 0
      /\ IF Session(f) = {}
         THEN UNCHANGED <<frag_info, frag_buf>> /\ uip' = NULL
         ELSE IF FreeBuffers(bufs) = {}
         THEN frag_info' = I /\ UNCHANGED frag_buf /\ uip' = NULL
         ELSE /\ frag_buf' = IF full \/ large THEN clear_fragments({c}, D) ELSE D
              /\ frag_info' = [I EXCEPT ![c] = IF large \/ full THEN gone ELSE more]
              /\ uip' = IF full /\ ~large THEN copy_frags2uip(f, frag_info[c], chunks) ELSE NULL
  <2>1. gone = IF large THEN ClearContext(more)
               ELSE ClearContext([more EXCEPT !.reassembled_len = uip_len[f.pkt]])
    OBVIOUS
  <2>2. Cleared(C) = I
    BY WithoutIs DEF Late, Expired
  <2>3. /\ f.i > 0
        /\ IF Session(f) = {}
           THEN UNCHANGED <<frag_info, frag_buf>> /\ uip' = NULL
           ELSE IF FreeBuffers(bufs) = {}
           THEN frag_info' = Cleared(C) /\ UNCHANGED frag_buf /\ uip' = NULL
           ELSE /\ frag_buf' = IF full \/ large THEN clear_fragments({c}, D) ELSE D
                /\ frag_info' = [Cleared(C) EXCEPT
                     ![c] = IF large THEN ClearContext(more)
                            ELSE IF full THEN ClearContext([more EXCEPT !.reassembled_len = uip_len[f.pkt]])
                            ELSE more]
                /\ uip' = IF full /\ ~large THEN copy_frags2uip(f, frag_info[c], chunks) ELSE NULL
    BY DEF NFragment
  <2> HIDE DEF f, C, bufs, D, I, more, full, large, chunks, gone, c
  <2>4. (IF large THEN ClearContext(more)
         ELSE IF full THEN ClearContext([more EXCEPT !.reassembled_len = uip_len[f.pkt]])
         ELSE more) = IF large \/ full THEN gone ELSE more
    BY <2>1
  <2> QED
    BY <2>2, <2>3, <2>4
<1>2. /\ f \in Frag /\ f.pkt \in Packet /\ f.tag \in Tag /\ Src[f.pkt] = s
      /\ f.i \in 0 .. Middles[f.pkt] + 1 /\ Middles[f.pkt] \in Nat
  <2>1. f \in Frag /\ Src[f.pkt] = s /\ f.i \in 0 .. Middles[f.pkt] + 1
    BY FlyingIs DEF RInv, First
  <2> QED
    BY <2>1, MiddlesIs DEF Frag
<1>3. f.i \in 1 .. Middles[f.pkt] + 1
  <2>1. f.i > 0
    BY <1>1
  <2>2. f.i \in 0 .. Middles[f.pkt] + 1 /\ Middles[f.pkt] \in Nat
    BY <1>2
  <2> HIDE DEF f
  <2> QED
    BY <2>1, <2>2
<1>4. part.len \in Nat /\ part.len > 0 /\ part.offset \in Nat
  <2>1. \A n \in 1 .. Middles[f.pkt] + 1 :
          Fragment[f.pkt][n].len \in Nat \ {0} /\ Fragment[f.pkt][n].offset \in Nat
    BY <1>2, FragmentsAre
  <2>2. part.len \in Nat \ {0} /\ part.offset \in Nat
    BY <1>3, <2>1
  <2> HIDE DEF part
  <2> QED
    BY <2>2
<1>5. /\ Sound(frag_info, frag_buf) /\ Waits(frag_info)
      /\ frag_info \in [Context -> Info] /\ frag_buf \in [Buffer -> Buf]
  BY DEF RInv, Sound
<1>6. CASE Session(f) = {}
  <2>1. SameSessions(frag_info)
    BY DEF SameSessions
  <2>2. frag_info' = frag_info /\ frag_buf' = frag_buf /\ uip' = NULL
    BY <1>1, <1>6
  <2> QED
    BY <1>5, <2>1, <2>2 DEF Dropped
<1>7. CASE Session(f) # {}
  <2>1. c \in Session(f)
    <3>1. Session(f) \in SUBSET Nat
      BY DEF Session, Context
    <3> QED
      BY <1>7, <3>1, MinIs
  <2>2. /\ c \in Context /\ frag_info[c].len > 0 /\ frag_info[c].tag = f.tag
        /\ frag_info[c].sender = s
    BY <1>2, <2>1 DEF Session
  <2>3. C \in SUBSET Context /\ c \notin C
    BY DEF Late, Expired
  <2>4. Sound(I, bufs)
    BY <2>3, WithoutIs
  <2>5. /\ \A e \in Context \ C : I[e] = frag_info[e]
        /\ SameSessions(I) /\ Waits(I)
    BY <2>3, WithoutIs
  <2>6. I[c] = frag_info[c] /\ I \in [Context -> Info] /\ bufs \in [Buffer -> Buf]
    BY <2>2, <2>3, <2>4, <2>5 DEF Sound
  <2> HIDE DEF c, C, I
  <2>7. CASE FreeBuffers(bufs) = {}
    <3>1. \A j \in Buffer : bufs[j].len # 0
      BY <2>7 DEF FreeBuffers
    <3>2. \A j \in Buffer : bufs[j] = frag_buf[j]
      BY <3>1, NothingIs DEF clear_fragments
    <3>3. bufs = frag_buf
      <4> HIDE DEF bufs
      <4> QED
        BY <1>5, <2>6, <3>2
    <3>4. frag_info' = I /\ frag_buf' = bufs /\ uip' = NULL
      BY <1>1, <1>7, <2>7, <3>3
    <3> QED
      BY <2>4, <2>5, <3>4 DEF Dropped
  <2>8. CASE FreeBuffers(bufs) # {}
    <3>1. i \in Buffer /\ bufs[i].len = 0
      <4>1. FreeBuffers(bufs) \in SUBSET Nat
        BY DEF FreeBuffers, Buffer
      <4>2. i \in FreeBuffers(bufs)
        <5> HIDE DEF bufs
        <5> QED
          BY <2>8, <4>1, MinIs
      <4> QED
        BY <4>2 DEF FreeBuffers
    <3> HIDE DEF bufs, i, part
    <3>2. f.pkt = frag_info[c].of
      <4>1. 1 \in DOMAIN air[s][d] /\ air[s][d][1] = f
        BY FlyingIs DEF RInv, First
      <4> QED
        BY <2>2, <4>1 DEF RInv, Matches
    <3>3. b \in Buf /\ b.index = c /\ b.len = part.len
      <4>1. <<f.pkt, f.tag, f.i>> \in Packet \X Tag \X Nat
        BY <1>2, <1>3
      <4> QED
        BY <1>4, <2>2, <4>1 DEF Buf
    <3>4. Holds(I, b)
      BY <1>3, <2>2, <2>6, <3>2, <3>3 DEF Holds, part
    <3> HIDE DEF b, f
    <3>5. more = [I[c] EXCEPT !.reassembled_len = @ + b.len]
      BY <2>6, <3>3
    <3>6. Sound(J, D)
      <4>1. J = [I EXCEPT ![c] = [I[c] EXCEPT !.reassembled_len = @ + b.len]]
        BY <3>5
      <4>2. I[c].len > 0 /\ b.len > 0
        BY <1>4, <2>2, <2>6, <3>3
      <4> HIDE DEF J, more
      <4>3. Sound([I EXCEPT ![c] = [I[c] EXCEPT !.reassembled_len = @ + b.len]], D)
        BY <2>2, <2>4, <3>1, <3>3, <3>4, <4>2, SoundAdds
      <4> QED
        BY <4>1, <4>3
    <3>7. frag_info[c] \in Info
      BY <1>5, <2>2
    <3>8. /\ more.len = frag_info[c].len /\ more.tag = frag_info[c].tag /\ more.sender = frag_info[c].sender
          /\ more.first_frag = frag_info[c].first_frag /\ more.of = frag_info[c].of
      BY <3>7 DEF Info
    <3> HIDE DEF more
    <3>9. J[c] = more /\ \A e \in Context \ {c} : J[e] = I[e]
      BY <2>2, <2>6
    <3> HIDE DEF J
    <3>10. SameSessions(J)
      BY <2>2, <2>5, <3>8, <3>9 DEF SameSessions
    <3>101. more.reassembled_len \in Nat /\ uip_len[f.pkt] \in Nat
      BY <1>2, <2>2, <3>6, <3>9 DEF Sound, Info
    <3>11. Added(J, D, c)
      BY <2>2, <2>5, <3>6, <3>8, <3>9, <3>10 DEF Added, Waits
    <3>12. J[c].len = uip_len[f.pkt] /\ f.pkt = J[c].of
      BY <2>2, <3>2, <3>6, <3>8, <3>9 DEF Sound, Knows
    <3>13. CASE ~(full \/ large)
      <4>1. frag_buf' = D /\ frag_info' = J /\ uip' = NULL
        BY <1>1, <1>7, <2>8, <3>13 DEF J
      <4>2. J[c].reassembled_len < J[c].len
        <5>1. more.reassembled_len \in Nat /\ uip_len[f.pkt] \in Nat
          BY <2>2, <1>2, <3>6, <3>9 DEF Sound, Info
        <5> QED
          BY <3>9, <3>12, <3>13, <5>1
      <4> QED
        BY <2>2, <3>11, <4>1, <4>2 DEF Stored
    <3>14. CASE full \/ large
      <4>1. frag_buf' = clear_fragments({c}, D) /\ frag_info' = [I EXCEPT ![c] = gone]
        BY <1>1, <1>7, <2>8, <3>14
      <4>2. /\ frag_info' \in [Context -> Info] /\ frag_info'[c].len = 0
            /\ \A e \in Context \ {c} : frag_info'[e] = J[e]
        <5>1. more \in Info
          BY <2>2, <3>6, <3>9 DEF Sound
        <5>2. gone \in Info /\ gone.len = 0
          <6>1. [more EXCEPT !.reassembled_len = uip_len[f.pkt]] \in Info
            BY <3>101, <5>1 DEF Info
          <6>2. (IF large THEN more ELSE [more EXCEPT !.reassembled_len = uip_len[f.pkt]]) \in Info
            BY <5>1, <6>1
          <6> QED
            BY <6>2, ClearedIs
        <5> HIDE DEF gone
        <5> QED
          BY <2>2, <2>6, <3>9, <4>1, <5>2
      <4>3. chunks = Copies(D, c)
        BY DEF Copies, Kept
      <4>4. uip' # NULL => full /\ uip' = copy_frags2uip(f, frag_info[c], Copies(D, c))
        BY <1>1, <1>7, <2>8, <4>3
      <4>5. full => J[c].reassembled_len >= J[c].len
        BY <3>9, <3>12
      <4> HIDE DEF D, full
      <4> QED
        BY <1>2, <2>2, <3>11, <3>12, <4>1, <4>2, <4>4, <4>5 DEF Finished, f
    <3> QED
      BY <3>13, <3>14
  <2> QED
    BY <2>7, <2>8
<1> QED
  BY <1>6, <1>7

LEMMA NFragmentKeeps ==
  ASSUME RInv, NEW s \in Sender, NEW d \in Address, air[s][d] # << >>,
         NFragment(First(s, d)), air' = air
  PROVE  RInv'
<1>1. CASE Dropped
  BY <1>1, InputKeeps DEF Dropped
<1>2. CASE Stored
  <2>1. PICK c \in Context :
          /\ Added(frag_info', frag_buf', c)
          /\ frag_info'[c].reassembled_len < frag_info'[c].len
    BY <1>2 DEF Stored
  <2>2. Waits(frag_info')
    BY <2>1 DEF Waits, Added
  <2> QED
    BY <2>1, <2>2, InputKeeps DEF Added
<1>3. CASE Finished(First(s, d))
  <2>0. PICK c \in Context : \E J, D :
          /\ Added(J, D, c)
          /\ frag_info' \in [Context -> Info] /\ frag_info'[c].len = 0
          /\ \A e \in Context \ {c} : frag_info'[e] = J[e]
          /\ frag_buf' = clear_fragments({c}, D)
    BY <1>3 DEF Finished
  <2>1. PICK J, D :
          /\ Added(J, D, c)
          /\ frag_info' \in [Context -> Info] /\ frag_info'[c].len = 0
          /\ \A e \in Context \ {c} : frag_info'[e] = J[e]
          /\ frag_buf' = clear_fragments({c}, D)
    BY <2>0
  <2>2. Sound(frag_info', frag_buf')
    BY <2>1, SoundClears DEF Added
  <2>3. \A e \in Context : frag_info'[e].len > 0 => e # c /\ frag_info'[e] = J[e] /\ J[e].len > 0
    BY <2>1
  <2>4. Waits(frag_info')
    BY <2>1, <2>3 DEF Waits, Added
  <2>5. SameSessions(frag_info')
    BY <2>1, <2>3 DEF SameSessions, Added
  <2> QED
    BY <2>2, <2>4, <2>5, InputKeeps
<1> QED
  BY <1>1, <1>2, <1>3, NFragmentIs

\* the numbers of the fragments kept for context c
Numbers(D, c) == {D[j].data[3] : j \in Kept(D, c)}

LEMMA WholeDelivered ==
  ASSUME NEW J, NEW D, Sound(J, D), NEW c \in Context, J[c].len > 0,
         J[c].first_frag # NULL, J[c].reassembled_len >= J[c].len,
         Cardinality(Numbers(D, c)) = Cardinality(Kept(D, c))
  PROVE  Numbers(D, c) = 1 .. Middles[J[c].of] + 1
<1> DEFINE p == J[c].of
           K == Kept(D, c)
           T == {D[j].data[3] : j \in K}
           All == 1 .. Middles[p] + 1
           h == [j \in K |-> D[j].data[3]]
<1>1. /\ p \in Packet /\ J[c].len = uip_len[p] /\ J[c].first_frag_len = Fragment[p][0].len
      /\ J[c].reassembled_len = J[c].first_frag_len + Lengths(D, K)
  BY DEF Sound, Knows, Counts
<1>2. IsFiniteSet(K) /\ (\A j \in K : D[j].len \in Nat) /\ Lengths(D, K) \in Nat
  BY KeptIs DEF Sound
<1>3. \A j \in K : D[j].data[3] \in All /\ Fragment[p][D[j].data[3]].len = D[j].len
  BY DEF Sound, Holds, Kept
<1>4. {h[j] : j \in K} = T
  OBVIOUS
<1>5. \A j, k \in K : h[j] = h[k] => j = k
  <2>1. h \in Surjection(K, T)
    BY DEF Surjection
  <2> HIDE DEF h
  <2>2. Cardinality(T) = Cardinality(K)
    BY DEF Numbers
  <2> HIDE DEF K, T
  <2>3. h \in Injection(K, T)
    BY <1>2, <2>1, <2>2, FS_Surjection
  <2> QED
    BY <2>3 DEF Injection, IsInjective
<1>6. \A j \in K : Fragment[p][h[j]].len = D[j].len
  BY <1>3
<1> HIDE DEF h, K, T
<1>7. Lengths(D, K) = Lengths(Fragment[p], T)
  BY <1>2, <1>4, <1>5, <1>6, LengthsRenamed
<1>8. T \in SUBSET All
  BY <1>3 DEF T
<1>9. ASSUME T # All
      PROVE  FALSE
  <2>1. IsFiniteSet(All) /\ \A n \in All : Fragment[p][n].len \in Nat \ {0}
    <3>1. Middles[p] \in Nat
      BY <1>1, MiddlesIs
    <3>2. IsFiniteSet(All)
      <4>1. 1 \in Int /\ Middles[p] + 1 \in Int
        BY <3>1
      <4> HIDE DEF p
      <4> QED
        BY <4>1, FS_Interval
    <3>3. \A n \in 1 .. Middles[p] + 1 : Fragment[p][n].len \in Nat \ {0}
      BY <1>1, FragmentsAre
    <3> QED
      BY <3>2, <3>3
  <2>2. Lengths(Fragment[p], All) = uip_len[p] - Fragment[p][0].len
    BY <1>1, WholeIs
  <2>3. Fragment[p][0].len \in Nat /\ uip_len[p] \in Nat
    BY <1>1, FragmentsAre
  <2> HIDE DEF All, p
  <2>4. Lengths(Fragment[p], T) < Lengths(Fragment[p], All)
    BY <1>8, <1>9, <2>1, LengthsLess
  <2> QED
    BY <1>1, <1>2, <1>7, <2>2, <2>3, <2>4
<1> QED
  BY <1>9 DEF T, K, Numbers

LEMMA NFragmentDelivers ==
  ASSUME RInv, NEW s \in Sender, NEW d \in Address, air[s][d] # << >>,
         NFragment(First(s, d))
  PROVE  DeliveredWhole'
<1> SUFFICES ASSUME uip' # NULL PROVE DeliveredWhole'
  BY DEF DeliveredWhole
<1> DEFINE f == First(s, d)
<1>1. Finished(f)
  BY NFragmentIs DEF Dropped, Stored
<1> HIDE DEF f
<1>0. PICK c \in Context : \E J, D :
        /\ Added(J, D, c) /\ f.pkt = J[c].of /\ f.pkt \in Packet
        /\ J[c].reassembled_len >= J[c].len
        /\ uip' = copy_frags2uip(f, frag_info[c], Copies(D, c))
  BY <1>1 DEF Finished
<1>2. PICK J, D :
        /\ Added(J, D, c) /\ f.pkt = J[c].of /\ f.pkt \in Packet
        /\ J[c].reassembled_len >= J[c].len
        /\ uip' = copy_frags2uip(f, frag_info[c], Copies(D, c))
  BY <1>0
<1>3. /\ Sound(J, D) /\ J[c].len > 0
      /\ J[c].len = frag_info[c].len /\ J[c].first_frag = frag_info[c].first_frag
      /\ J[c].of = frag_info[c].of /\ J[c].tag = frag_info[c].tag
  BY <1>2 DEF Added, SameSessions
<1>4. /\ J[c].len = uip_len[f.pkt] /\ J[c].of = f.pkt
      /\ J[c].first_frag # NULL => J[c].first_frag = <<f.pkt, J[c].tag>>
  BY <1>2, <1>3 DEF Sound, Knows
<1>5. /\ uip' = [len |-> uip_len[f.pkt], first |-> J[c].first_frag, chunks |-> Copies(D, c),
                 of |-> <<J[c].of, J[c].tag>>]
      /\ ~(frag_info[c].len > UIP_BUFSIZE)
  BY <1>2, <1>3 DEF copy_frags2uip
<1>6. /\ uip'.len = uip_len[f.pkt] /\ uip'.first = J[c].first_frag
      /\ uip'.of = <<f.pkt, J[c].tag>> /\ uip'.of[1] = f.pkt
      /\ uip'.chunks = Copies(D, c) /\ DOMAIN uip'.chunks = Kept(D, c)
      /\ \A j \in Kept(D, c) : uip'.chunks[j] = D[j]
  BY <1>4, <1>5 DEF Copies
<1>7. uip'.len <= UIP_BUFSIZE
  <2>1. uip_len[f.pkt] \in Nat /\ UIP_BUFSIZE \in Nat
    BY <1>2
  <2> QED
    BY <1>3, <1>4, <1>5, <1>6, <2>1
<1>8. \A j \in Kept(D, c) : <<D[j].data[1], D[j].data[2]>> = <<f.pkt, J[c].tag>>
  BY <1>3, <1>4 DEF Sound, Holds, Kept
<1>9. Copied(uip') = Numbers(D, c)
  <2>1. DOMAIN uip'.chunks = Kept(D, c) /\ \A j \in Kept(D, c) : uip'.chunks[j].data[3] = D[j].data[3]
    BY <1>6
  <2> QED
    BY <2>1 DEF Copied, Numbers
<1>10. J[c].first_frag # NULL /\ Cardinality(Copied(uip')) = Cardinality(Kept(D, c))
         => Copied(uip') = 1 .. Middles[f.pkt] + 1
  <2>1. J[c].first_frag # NULL /\ Cardinality(Numbers(D, c)) = Cardinality(Kept(D, c))
          => Numbers(D, c) = 1 .. Middles[J[c].of] + 1
    BY <1>2, <1>3, WholeDelivered
  <2> QED
    BY <1>2, <1>9, <2>1
<1> QED
  BY <1>4, <1>6, <1>7, <1>8, <1>10 DEF DeliveredWhole

--------------------------------------------------------------------------------
(* All steps.                                                              *)

LEMMA ExpireKeeps ==
  ASSUME RInv, NEW c \in Context, Expire(c)
  PROVE  RInv'
<1>1. /\ frag_info' = [frag_info EXCEPT ![c] = [frag_info[c] EXCEPT !.expired = TRUE]]
      /\ air' = air /\ frag_buf' = frag_buf
  BY DEF Expire
<1>2. frag_info \in [Context -> Info] /\ Sound(frag_info, frag_buf) /\ Waits(frag_info)
  BY DEF RInv, Sound
<1>3. frag_info' \in [Context -> Info]
  <2>1. frag_info[c] \in Info
    BY <1>2
  <2>2. [frag_info[c] EXCEPT !.expired = TRUE] \in Info
    BY <2>1 DEF Info
  <2> QED
    BY <1>1, <1>2, <2>2
<1>4. \A e \in Context :
        /\ frag_info'[e].len = frag_info[e].len /\ frag_info'[e].tag = frag_info[e].tag
        /\ frag_info'[e].sender = frag_info[e].sender
        /\ frag_info'[e].first_frag = frag_info[e].first_frag
        /\ frag_info'[e].first_frag_len = frag_info[e].first_frag_len
        /\ frag_info'[e].reassembled_len = frag_info[e].reassembled_len
        /\ frag_info'[e].of = frag_info[e].of
  <2> SUFFICES ASSUME NEW e \in Context
               PROVE  /\ frag_info'[e].len = frag_info[e].len /\ frag_info'[e].tag = frag_info[e].tag
                      /\ frag_info'[e].sender = frag_info[e].sender
                      /\ frag_info'[e].first_frag = frag_info[e].first_frag
                      /\ frag_info'[e].first_frag_len = frag_info[e].first_frag_len
                      /\ frag_info'[e].reassembled_len = frag_info[e].reassembled_len
                      /\ frag_info'[e].of = frag_info[e].of
    OBVIOUS
  <2>1. frag_info[e] \in Info
    BY <1>2
  <2>2. CASE e = c
    <3>1. frag_info'[e] = [frag_info[e] EXCEPT !.expired = TRUE]
      BY <1>1, <1>2, <2>2
    <3> QED
      BY <2>1, <3>1 DEF Info
  <2>3. CASE e # c
    BY <1>1, <1>2, <2>3
  <2> QED
    BY <2>2, <2>3
<1>5. Sound(frag_info', frag_buf')
  <2>1. \A e \in Context : frag_info'[e].len > 0 => Knows(frag_info'[e]) /\ Counts(frag_info', frag_buf', e)
    BY <1>1, <1>2, <1>4 DEF Sound, Knows, Counts
  <2>2. ASSUME NEW i \in Buffer, frag_buf[i].len > 0
        PROVE  Holds(frag_info', frag_buf[i])
    <3>1. frag_buf[i].index \in Context /\ Holds(frag_info, frag_buf[i])
      BY <1>2, <2>2 DEF Sound, Buf
    <3> QED
      BY <1>4, <3>1 DEF Holds
  <2>3. frag_buf' \in [Buffer -> Buf]
    BY <1>1, <1>2 DEF Sound
  <2> QED
    BY <1>1, <1>3, <2>1, <2>2, <2>3 DEF Sound
<1>6. Waits(frag_info') /\ SameSessions(frag_info')
  BY <1>2, <1>4 DEF Waits, SameSessions
<1> QED
  BY <1>1, <1>5, <1>6, InputKeeps

LEMMA InputDoes ==
  ASSUME RInv, NEW s \in Sender, NEW d \in Address, Input(s, d)
  PROVE  /\ air[s][d] # << >> /\ air' = air
         /\ FirstFragment(First(s, d)) \/ NFragment(First(s, d))
<1>1. air[s][d] # << >> /\ air' = air
  BY DEF Input
<1>2. Head(air[s][d]) = First(s, d)
  BY <1>1, FlyingIs DEF RInv
<1> QED
  BY <1>1, <1>2 DEF Input

LEMMA NextKeeps ==
  ASSUME RInv, [Next]_vars
  PROVE  RInv' /\ (DeliveredWhole => DeliveredWhole')
<1>1. ASSUME NEW p \in Packet, NEW n \in DOMAIN Fragment[p], output(p, n + 1)
      PROVE  RInv' /\ uip' = NULL
  BY <1>1, OutputKeeps DEF output
<1>2. ASSUME NEW s \in Sender, NEW d \in Address, Leave(s, d)
      PROVE  RInv' /\ uip' = NULL
  BY <1>2, LeaveKeeps DEF Leave
<1>3. ASSUME NEW s \in Sender, NEW d \in Address, Input(s, d)
      PROVE  RInv' /\ DeliveredWhole'
  <2>1. ASSUME FirstFragment(First(s, d))
        PROVE  RInv' /\ uip' = NULL
    BY <1>3, <2>1, InputDoes, FirstFragmentKeeps DEF FirstFragment
  <2>2. ASSUME NFragment(First(s, d))
        PROVE  RInv' /\ DeliveredWhole'
    BY <1>3, <2>2, InputDoes, NFragmentKeeps, NFragmentDelivers
  <2> QED
    BY <1>3, <2>1, <2>2, InputDoes DEF DeliveredWhole
<1>4. ASSUME NEW c \in Context, Expire(c)
      PROVE  RInv' /\ uip' = NULL
  BY <1>4, ExpireKeeps DEF Expire
<1>5. CASE UNCHANGED vars
  <2>1. air' = air /\ frag_info' = frag_info /\ frag_buf' = frag_buf /\ uip' = uip
    BY <1>5 DEF vars
  <2>2. RInv'
    BY <2>1, InputKeeps DEF RInv, SameSessions
  <2>3. DeliveredWhole => DeliveredWhole'
    BY <2>1 DEF DeliveredWhole, Copied
  <2> QED
    BY <2>2, <2>3
<1> QED
  BY <1>1, <1>2, <1>3, <1>4, <1>5 DEF Next, DeliveredWhole

LEMMA InitRInv == Init => RInv /\ DeliveredWhole
<1> SUFFICES ASSUME Init PROVE RInv /\ DeliveredWhole
  OBVIOUS
<1>1. \A s \in Sender, d \in Address : air[s][d] = << >>
  BY DEF Init
<1>2. Flight /\ Distinct /\ Matches(frag_info)
  <2>1. \A c \in Context : ~(frag_info[c].len > 0)
    BY NothingIs DEF Init
  <2>2. air \in [Sender -> [Address -> Seq(Frag)]]
    BY DEF Init
  <2> QED
    BY <1>1, <2>1, <2>2 DEF Flight, Distinct, Matches
<1>3. Sound(frag_info, frag_buf) /\ Waits(frag_info)
  BY NothingIs DEF Init, Sound, Waits
<1> QED
  BY <1>2, <1>3 DEF RInv, DeliveredWhole, Init

(* A buffer in use belongs to a context in use and holds a fragment of the *)
(* packet that took it; the lengths a context with its first fragment has  *)
(* counted are those of that and its buffers, and they are less than the   *)
(* packet's: no time-out, failure or lack of room leaks a buffer or leaves *)
(* a complete packet waiting.  One whose first fragment was refused counts *)
(* from what it had before, and nothing is said of its count.              *)
THEOREM EverythingIsAccounted == Spec => []Accounted
<1>1. Init => RInv
  BY InitRInv
<1>2. RInv /\ [Next]_vars => RInv'
  BY NextKeeps
<1>3. RInv => Accounted
  <2> SUFFICES ASSUME RInv PROVE Accounted
    OBVIOUS
  <2>1. ASSUME NEW i \in Buffer, frag_buf[i].len > 0
        PROVE  LET info == frag_info[frag_buf[i].index]
               IN  info.len > 0 /\ <<frag_buf[i].data[1], frag_buf[i].data[2]>> = <<info.of, info.tag>>
    BY <2>1 DEF RInv, Sound, Holds
  <2>2. ASSUME NEW c \in Context, frag_info[c].len > 0, frag_info[c].first_frag # NULL
        PROVE  /\ frag_info[c].reassembled_len = frag_info[c].first_frag_len + Lengths(frag_buf, Kept(frag_buf, c))
               /\ frag_info[c].reassembled_len < frag_info[c].len
    BY <2>2 DEF RInv, Sound, Waits, Counts
  <2> QED
    BY <2>1, <2>2 DEF Accounted, Kept
<1> QED
  BY <1>1, <1>2, <1>3, PTL DEF Spec

(* What input gives to the IP layer fits uip_buf and is of one packet.  If *)
(* that packet's first fragment was not refused and none of the others was *)
(* stored twice it is whole, although only lengths are compared: the       *)
(* fragments of a packet are disjoint, each has something, and all of them *)
(* together make its length, so no other set of different ones does.       *)
THEOREM DeliveredIsWhole == Spec => []DeliveredWhole
<1>1. Init => RInv /\ DeliveredWhole
  BY InitRInv
<1>2. (RInv /\ DeliveredWhole) /\ [Next]_vars => (RInv /\ DeliveredWhole)'
  BY NextKeeps
<1> QED
  BY <1>1, <1>2, PTL DEF Spec
================================================================================
