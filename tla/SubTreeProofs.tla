--------------------------- MODULE SubTreeProofs ----------------------------
(***************************************************************************)
(* What the tree of subscriptions keeps: the references from contexts to   *)
(* nodes and back, the counters, and no branch that nothing needs.         *)
(***************************************************************************)
EXTENDS SubTree, TLAPS, SequenceTheorems, FiniteSetTheorems

-----------------------------------------------------------------------------
(* Positions of a list.                                                     *)

(* A set of positions is finite, and so is each part of it.                 *)
LEMMA FinitePositions ==
  ASSUME NEW n \in Nat, NEW K \in SUBSET (1..n)
  PROVE  /\ IsFiniteSet(K) /\ Cardinality(K) \in Nat
         /\ \A L \in SUBSET K : IsFiniteSet(L) /\ Cardinality(L) \in Nat /\ Cardinality(L) <= Cardinality(K)
         /\ \A L \in SUBSET K : Cardinality(L) = Cardinality(K) => L = K
<1>1. IsFiniteSet(1..n)
  BY FS_Interval
<1>2. IsFiniteSet(K)
  BY <1>1, FS_Subset
<1>3. ASSUME NEW L \in SUBSET K
      PROVE  /\ IsFiniteSet(L) /\ Cardinality(L) \in Nat /\ Cardinality(L) <= Cardinality(K)
             /\ Cardinality(L) = Cardinality(K) => L = K
  <2>1. IsFiniteSet(L) /\ Cardinality(L) <= Cardinality(K) /\ (Cardinality(K) = Cardinality(L) => K = L)
    BY <1>2, FS_Subset
  <2> QED BY <2>1, FS_CardinalityType
<1> QED BY <1>2, <1>3, FS_CardinalityType

(* The members of a set of positions, counted from the least.               *)
Rank(K, i) == Cardinality({j \in K : j <= i})

(* Each number up to the size of the set is the rank of one member.         *)
LEMMA RanksAre ==
  ASSUME NEW n \in Nat, NEW K \in SUBSET (1..n)
  PROVE  /\ \A i \in K : Rank(K, i) \in 1..Cardinality(K)
         /\ \A i, j \in K : i < j => Rank(K, i) < Rank(K, j)
         /\ \A i, j \in K : Rank(K, i) = Rank(K, j) => i = j
         /\ \A k \in 1..Cardinality(K) : \E i \in K : Rank(K, i) = k
<1> DEFINE upto(i) == {j \in K : j <= i}
           r       == [i \in K |-> Rank(K, i)]
<1>1. IsFiniteSet(K) /\ Cardinality(K) \in Nat
  BY FinitePositions
<1>2. ASSUME NEW i \in K PROVE Rank(K, i) \in 1..Cardinality(K)
  <2>1. upto(i) \in SUBSET K /\ i \in upto(i)
    OBVIOUS
  <2> HIDE DEF upto
  <2>2. Cardinality(upto(i)) \in Nat /\ Cardinality(upto(i)) <= Cardinality(K) /\ IsFiniteSet(upto(i))
    BY <2>1, FinitePositions
  <2>3. Cardinality(upto(i)) # 0
    BY <2>1, <2>2, FS_EmptySet
  <2> QED BY <1>1, <2>2, <2>3 DEF Rank, upto
<1>3. ASSUME NEW i \in K, NEW j \in K, i < j PROVE Rank(K, i) < Rank(K, j)
  <2>1. upto(j) \in SUBSET (1..n) /\ upto(i) \in SUBSET upto(j) /\ j \in upto(j) /\ j \notin upto(i)
    <3>1. i \in Int /\ j \in Int /\ \A k \in K : k \in Int /\ k \in 1..n
      OBVIOUS
    <3>2. \A k \in K : k <= i => k <= j
      BY <3>1, <1>3
    <3>3. upto(j) \in SUBSET (1..n) /\ upto(i) \in SUBSET upto(j)
      BY <3>1, <3>2
    <3>4. j \in upto(j) /\ ~(j <= i)
      BY <3>1, <1>3
    <3> QED BY <3>3, <3>4
  <2> HIDE DEF upto
  <2>2. Cardinality(upto(i)) \in Nat /\ Cardinality(upto(j)) \in Nat /\ Cardinality(upto(i)) <= Cardinality(upto(j))
    BY <2>1, FinitePositions
  <2>3. Cardinality(upto(i)) # Cardinality(upto(j))
    BY <2>1, FinitePositions
  <2> QED BY <2>2, <2>3 DEF Rank, upto
<1>4. ASSUME NEW i \in K, NEW j \in K, Rank(K, i) = Rank(K, j) PROVE i = j
  <2>1. i \in Int /\ j \in Int /\ Rank(K, i) \in Int /\ Rank(K, j) \in Int
    BY <1>2
  <2> QED BY <1>3, <1>4, <2>1
<1>5. r \in Injection(K, 1..Cardinality(K))
  BY <1>2, <1>4 DEF Injection, IsInjective
<1>6. IsFiniteSet(1..Cardinality(K)) /\ Cardinality(1..Cardinality(K)) = Cardinality(K)
  BY <1>1, FS_Interval
<1>7. r \in Surjection(K, 1..Cardinality(K))
  <2> HIDE DEF r
  <2> QED BY <1>5, <1>6, FS_Injection
<1>8. ASSUME NEW k \in 1..Cardinality(K) PROVE \E i \in K : Rank(K, i) = k
  BY <1>7 DEF Surjection
<1> QED BY <1>2, <1>3, <1>4, <1>8

(* u has the elements of s at the positions K: g says which is from where.  *)
Picks(g, s, K, u) ==
  /\ g \in [DOMAIN u -> K] /\ \A k \in DOMAIN u : u[k] = s[g[k]]
  /\ \A k, m \in DOMAIN u : k < m => g[k] < g[m]
  /\ \A k, m \in DOMAIN u : g[k] = g[m] => k = m
  /\ \A i \in K : \E k \in DOMAIN u : g[k] = i

(* What Only makes of a list: each element at a position of the set, once   *)
(* and in the order of the positions.                                       *)
LEMMA OnlyIs ==
  ASSUME NEW S, NEW s \in Seq(S), NEW K \in SUBSET (DOMAIN s)
  PROVE  /\ Only(s, K) \in Seq(S) /\ Len(Only(s, K)) = Cardinality(K)
         /\ \E g : Picks(g, s, K, Only(s, K))
<1> DEFINE nth(k) == CHOOSE i \in K : Rank(K, i) = k
           g == [k \in 1..Cardinality(K) |-> nth(k)]
<1>1. Len(s) \in Nat /\ K \in SUBSET (1..Len(s)) /\ DOMAIN s = 1..Len(s)
  OBVIOUS
<1>2. Cardinality(K) \in Nat
  BY <1>1, FinitePositions
<1>11. /\ \A i \in K : Rank(K, i) \in 1..Cardinality(K)
       /\ \A i, j \in K : i < j => Rank(K, i) < Rank(K, j)
       /\ \A i, j \in K : Rank(K, i) = Rank(K, j) => i = j
       /\ \A k \in 1..Cardinality(K) : \E i \in K : Rank(K, i) = k
  <2> HIDE DEF g
  <2> QED BY <1>1, RanksAre
<1>3. ASSUME NEW k \in 1..Cardinality(K) PROVE nth(k) \in K /\ Rank(K, nth(k)) = k
  <2>1. \E i \in K : Rank(K, i) = k
    <3> HIDE DEF g, nth
    <3> QED BY <1>11
  <2> QED BY <2>1
<1>4. Only(s, K) = [k \in 1..Cardinality(K) |-> s[nth(k)]]
  BY DEF Only, Rank
<1> HIDE DEF nth
<1>5. Only(s, K) \in Seq(S) /\ Len(Only(s, K)) = Cardinality(K) /\ DOMAIN Only(s, K) = 1..Cardinality(K)
  BY <1>1, <1>2, <1>3, <1>4
<1>6. g \in [1..Cardinality(K) -> K]
  BY <1>3
<1>7. \A k \in 1..Cardinality(K) : Only(s, K)[k] = s[g[k]]
  BY <1>4
<1>8. ASSUME NEW k \in 1..Cardinality(K), NEW m \in 1..Cardinality(K), k < m PROVE g[k] < g[m]
  <2>1. nth(k) \in K /\ nth(m) \in K /\ Rank(K, nth(k)) = k /\ Rank(K, nth(m)) = m
    BY <1>3
  <2>2. nth(k) \in Int /\ nth(m) \in Int /\ nth(k) # nth(m) /\ ~(m < k)
    BY <2>1, <1>8, <1>2
  <2>3. ~(nth(m) < nth(k))
    BY <2>1, <2>2, <1>11
  <2> QED BY <2>2, <2>3
<1>9. ASSUME NEW k \in 1..Cardinality(K), NEW m \in 1..Cardinality(K), g[k] = g[m] PROVE k = m
  BY <1>3, <1>9
<1>10. ASSUME NEW i \in K PROVE \E k \in 1..Cardinality(K) : g[k] = i
  <2>1. Rank(K, i) \in 1..Cardinality(K)
    BY <1>11
  <2>2. nth(Rank(K, i)) = i
    BY <2>1, <1>3, <1>11
  <2> QED BY <2>1, <2>2
<1> HIDE DEF g
<1>12. Picks(g, s, K, Only(s, K))
  BY <1>5, <1>6, <1>7, <1>8, <1>9, <1>10 DEF Picks
<1> QED BY <1>5, <1>12

(* So it has these elements and no others.                                  *)
LEMMA OnlyHas ==
  ASSUME NEW S, NEW s \in Seq(S), NEW K \in SUBSET (DOMAIN s)
  PROVE  /\ Only(s, K) \in Seq(S)
         /\ \A k \in DOMAIN Only(s, K) : \E i \in K : Only(s, K)[k] = s[i]
         /\ \A i \in K : \E k \in DOMAIN Only(s, K) : Only(s, K)[k] = s[i]
<1> DEFINE u == Only(s, K)
<1>1. PICK g : Picks(g, s, K, u)
  BY OnlyIs
<1>2. u \in Seq(S)
  BY OnlyIs
<1> HIDE DEF u
<1>3. (\A k \in DOMAIN u : \E i \in K : u[k] = s[i]) /\ \A i \in K : \E k \in DOMAIN u : u[k] = s[i]
  BY <1>1 DEF Picks
<1> QED BY <1>2, <1>3 DEF u

(* All positions make the same list.                                        *)
LEMMA OnlyAll ==
  ASSUME NEW S, NEW s \in Seq(S)
  PROVE  Only(s, DOMAIN s) = s
<1> DEFINE u == Only(s, DOMAIN s)
<1>1. Len(s) \in Nat /\ DOMAIN s = 1..Len(s) /\ (1..Len(s)) \in SUBSET (1..Len(s))
  OBVIOUS
<1>2. u = [k \in 1..Cardinality(1..Len(s)) |-> s[CHOOSE i \in 1..Len(s) : Rank(1..Len(s), i) = k]]
  BY <1>1 DEF Only, Rank
<1>3. Cardinality(1..Len(s)) = Len(s)
  BY <1>1, FS_Interval
<1>4. ASSUME NEW i \in 1..Len(s) PROVE Rank(1..Len(s), i) = i
  <2>1. {j \in 1..Len(s) : j <= i} = 1..i
    OBVIOUS
  <2>2. Cardinality(1..i) = i
    BY FS_Interval
  <2> QED BY <2>1, <2>2 DEF Rank
<1>5. ASSUME NEW k \in 1..Len(s) PROVE (CHOOSE i \in 1..Len(s) : Rank(1..Len(s), i) = k) = k
  BY <1>4
<1>6. u = [k \in 1..Len(s) |-> s[k]]
  BY <1>2, <1>3, <1>5
<1> HIDE DEF u
<1>7. u = s
  BY <1>6
<1> QED BY <1>7 DEF u

-----------------------------------------------------------------------------
(* Nodes.                                                                   *)

(* The tokens there can be, and the nodes: never empty, so never NoNode.    *)
Strs == TopicNames \cup Filters
Tok  == (UNION {{BranchOf[str][k] : k \in DOMAIN BranchOf[str]} : str \in Strs}) \cup {<<>>, <<"$", "S">>}
Nd   == Seq(Tok) \ {<<>>}
Leaf == [context : Contexts, qos : QoS]

(* A string is a sequence of levels.                                        *)
LEMMA LevelsType ==
  ASSUME NEW str \in Strs
  PROVE  Len(Levels(str)) \in Nat /\ DOMAIN Levels(str) = 1..Len(Levels(str))
         /\ Levels(str) \in Seq({Levels(str)[k] : k \in DOMAIN Levels(str)})
<1> DEFINE ends == {i \in 1..(Len(str) + 1) : i > Len(str) \/ str[i] = "/"}
<1>1. Len(str) + 1 \in Nat
  BY SubTreeAssumption DEF Strs
<1>2. Cardinality(ends) \in Nat
  <2>1. ends \in SUBSET (1..(Len(str) + 1))
    OBVIOUS
  <2> HIDE DEF ends
  <2> QED BY <1>1, <2>1, FinitePositions
<1>3. PICK F : Levels(str) = [k \in 1..Cardinality(ends) |-> F[k]]
  <2> DEFINE end(k) == IF k = 0 THEN 0 ELSE CHOOSE e \in ends : Cardinality({i \in ends : i <= e}) = k
             level(k) == SubSeq(str, end(k - 1) + 1, end(k) - 1)
             G == [k \in 1..Cardinality(ends) |-> level(k)]
  <2>1. Levels(str) = G
    BY DEF Levels
  <2>2. G = [k \in 1..Cardinality(ends) |-> G[k]]
    <3> HIDE DEF level
    <3> QED OBVIOUS
  <2> HIDE DEF G
  <2> QED BY <2>1, <2>2
<1> HIDE DEF ends
<1> QED BY <1>2, <1>3

(* The branch of a string is a node, and so is each node on the way to it.  *)
LEMMA BranchIs ==
  ASSUME NEW str \in Strs
  PROVE  BranchOf[str] \in Nd
<1> DEFINE S == {Levels(str)[k] : k \in DOMAIN Levels(str)} \cup {<<>>}
<1>1. Levels(str) \in Seq(S)
  <2>1. Levels(str) \in Seq({Levels(str)[k] : k \in DOMAIN Levels(str)})
    BY LevelsType
  <2>2. {Levels(str)[k] : k \in DOMAIN Levels(str)} \subseteq S
    OBVIOUS
  <2> HIDE DEF S
  <2> QED BY <2>1, <2>2
<1>2. Tokens(str) \in Seq(S)
  <2>1. <<<<>>>> \in Seq(S)
    OBVIOUS
  <2> HIDE DEF S
  <2>2. <<<<>>>> \o Levels(str) \in Seq(S)
    BY <1>1, <2>1
  <2> QED BY <1>1, <2>2 DEF Tokens
<1>3. BranchOf[str] = <<Tokens(str)[1]>> \o Tokens(str)
  BY DEF BranchOf, TokensOf, Strs
<1>4. BranchOf[str] \in Seq(S \cup {Tokens(str)[1]}) /\ BranchOf[str] # <<>>
  <2> HIDE DEF S
  <2>1. <<Tokens(str)[1]>> \in Seq(S \cup {Tokens(str)[1]}) /\ Tokens(str) \in Seq(S \cup {Tokens(str)[1]})
    BY <1>2
  <2> QED BY <1>3, <2>1
<1>5. \A k \in DOMAIN BranchOf[str] : BranchOf[str][k] \in Tok
  BY DEF Tok
<1> HIDE DEF S
<1>6. DOMAIN BranchOf[str] = 1..Len(BranchOf[str]) /\ Len(BranchOf[str]) \in Nat
  BY <1>4
<1>7. BranchOf[str] = [k \in 1..Len(BranchOf[str]) |-> BranchOf[str][k]]
  BY <1>4
<1>8. BranchOf[str] \in Seq(Tok)
  BY <1>5, <1>6, <1>7
<1> QED BY <1>4, <1>8 DEF Nd

(* Prefixes of nodes.                                                       *)
LEMMA PrefixIs ==
  ASSUME NEW p \in Nd, NEW k \in 1..Len(p)
  PROVE  /\ SubSeq(p, 1, k) \in Nd /\ Len(SubSeq(p, 1, k)) = k /\ OnWay(SubSeq(p, 1, k), p)
         /\ \A j \in 1..k : SubSeq(SubSeq(p, 1, k), 1, j) = SubSeq(p, 1, j)
<1>1. Len(p) \in Nat /\ p \in Seq(Tok)
  BY DEF Nd
<1>2. SubSeq(p, 1, k) \in Seq(Tok) /\ Len(SubSeq(p, 1, k)) = k
  BY <1>1
<1>3. \A i \in 1..k : SubSeq(p, 1, k)[i] = p[i]
  BY <1>1
<1>4. ASSUME NEW j \in 1..k PROVE SubSeq(SubSeq(p, 1, k), 1, j) = SubSeq(p, 1, j)
  <2> DEFINE q == SubSeq(p, 1, k)
  <2>1. q \in Seq(Tok) /\ Len(q) = k /\ \A i \in 1..k : q[i] = p[i]
    BY <1>2, <1>3
  <2>2. SubSeq(q, 1, j) = [i \in 1..j |-> q[i]]
    <3> HIDE DEF q
    <3> QED BY <2>1
  <2>3. SubSeq(p, 1, j) = [i \in 1..j |-> p[i]]
    BY <1>1
  <2>4. \A i \in 1..j : q[i] = p[i]
    BY <2>1
  <2> HIDE DEF q
  <2>5. SubSeq(q, 1, j) = SubSeq(p, 1, j)
    BY <2>2, <2>3, <2>4
  <2> QED BY <2>5 DEF q
<1> QED BY <1>1, <1>2, <1>4 DEF OnWay, Nd

(* A node on the way to one on the way to a third is on the way to that.    *)
LEMMA WayToWay ==
  ASSUME NEW n \in Nd, NEW m \in Nd, NEW p \in Nd, OnWay(n, m), OnWay(m, p)
  PROVE  OnWay(n, p)
<1>1. Len(n) \in 1..Len(m) /\ Len(m) \in 1..Len(p) /\ Len(m) \in Nat /\ Len(p) \in Nat
  <2>1. Len(n) \in Nat \ {0} /\ Len(m) \in Nat \ {0} /\ Len(p) \in Nat \ {0}
    BY DEF Nd
  <2> QED BY <2>1 DEF OnWay
<1>2. n = SubSeq(m, 1, Len(n)) /\ m = SubSeq(p, 1, Len(m))
  BY DEF OnWay
<1>3. SubSeq(SubSeq(p, 1, Len(m)), 1, Len(n)) = SubSeq(p, 1, Len(n))
  BY <1>1, PrefixIs
<1> QED BY <1>1, <1>2, <1>3 DEF OnWay

(* A node is on the way to itself, and a child is further than its parent.  *)
LEMMA WayTo ==
  ASSUME NEW n \in Nd
  PROVE  /\ Len(n) \in Nat \ {0} /\ OnWay(n, n)
         /\ \A m \in Nd : ChildOf(m, n) => OnWay(n, m)
<1>1. Len(n) \in Nat \ {0} /\ n \in Seq(Tok)
  BY DEF Nd
<1>2. SubSeq(n, 1, Len(n)) = n
  BY <1>1
<1>3. Len(n) <= Len(n)
  BY <1>1
<1> QED BY <1>1, <1>2, <1>3 DEF OnWay, ChildOf

(* The nodes of a list, and that with each node the way to it is there.     *)
NodesOf(t)   == {t[i] : i \in DOMAIN t}
ClosedSet(X) == \A m \in X : \A k \in 1..Len(m) : SubSeq(m, 1, k) \in X

(* In a closed set, the way down from a node begins with one of its         *)
(* children.                                                                *)
LEMMA FirstChild ==
  ASSUME NEW X \in SUBSET Nd, ClosedSet(X), NEW m \in X, NEW d \in X, OnWay(m, d), m # d
  PROVE  \E c \in X : ChildOf(c, m) /\ OnWay(c, d)
<1>1. Len(m) \in Nat \ {0} /\ Len(d) \in Nat \ {0} /\ d \in Seq(Tok) /\ m \in Nd /\ d \in Nd
  BY WayTo DEF Nd
<1>2. Len(m) <= Len(d) /\ SubSeq(d, 1, Len(m)) = m
  BY DEF OnWay
<1>3. SubSeq(d, 1, Len(d)) = d
  BY <1>1
<1>4. Len(m) # Len(d)
  BY <1>2, <1>3
<1>5. Len(m) + 1 \in 1..Len(d) /\ Len(m) \in 1..(Len(m) + 1)
  BY <1>1, <1>2, <1>4
<1> DEFINE c == SubSeq(d, 1, Len(m) + 1)
<1>6. c \in X
  BY <1>5 DEF ClosedSet
<1>7. Len(c) = Len(m) + 1 /\ OnWay(c, d) /\ SubSeq(c, 1, Len(m)) = SubSeq(d, 1, Len(m))
  BY <1>1, <1>5, PrefixIs
<1>8. ChildOf(c, m)
  <2> HIDE DEF c
  <2>1. Len(m) <= Len(c)
    BY <1>1, <1>7
  <2> QED BY <1>2, <1>7, <2>1 DEF ChildOf, OnWay
<1> HIDE DEF c
<1> QED BY <1>6, <1>7, <1>8

(* What Pruned leaves.  A node with leaves, a message or nothing above it   *)
(* stays, and so does one on no way that was followed; and a node that is   *)
(* left without a need was not needed before, and is on no such way.        *)
LEMMA PrunedIs ==
  ASSUME NEW t \in Seq(Nd), ClosedSet(NodesOf(t)), NEW P \in SUBSET Nd, NEW lf, NEW mf,
         NEW u, u = Pruned(t, P, lf, mf)
  PROVE  /\ u \in Seq(Nd) /\ NodesOf(u) \subseteq NodesOf(t) /\ ClosedSet(NodesOf(u))
         /\ \A n \in NodesOf(t) : lf[n] # <<>> \/ mf[n] # None \/ Len(n) = 1 => n \in NodesOf(u)
         /\ \A m \in NodesOf(u) : ~Keeps(m, u, lf, mf) =>
              ~Keeps(m, t, lf, mf) /\ \A p \in P : ~OnWay(m, p)
<1> DEFINE bare(n) == Len(n) > 1 /\ lf[n] = <<>> /\ mf[n] = None /\ \E p \in P : OnWay(n, p)
           K == {i \in DOMAIN t : \E j \in DOMAIN t : OnWay(t[i], t[j]) /\ ~bare(t[j])}
           Ts == NodesOf(t)
           U == NodesOf(u)
<1>1. u = Only(t, K)
  BY DEF Pruned
<1>2. u \in Seq(Nd) /\ (\A k \in DOMAIN u : \E i \in K : u[k] = t[i]) /\ (\A i \in K : \E k \in DOMAIN u : u[k] = t[i])
  <2>1. K \in SUBSET (DOMAIN t)
    OBVIOUS
  <2> HIDE DEF K
  <2> QED BY <1>1, <2>1, OnlyHas
<1>3. Ts \in SUBSET Nd
  BY DEF NodesOf
<1>4. \A n : n \in U <=> n \in Ts /\ \E d \in Ts : OnWay(n, d) /\ ~bare(d)
  <2> HIDE DEF bare
  <2>1. \A n : n \in U <=> \E i \in K : n = t[i]
    BY <1>2 DEF NodesOf
  <2>2. \A n : (\E i \in K : n = t[i]) <=> n \in Ts /\ \E d \in Ts : OnWay(n, d) /\ ~bare(d)
    BY DEF NodesOf
  <2> QED BY <2>1, <2>2
<1> HIDE DEF K
<1>5. ASSUME NEW n \in Ts, ~bare(n) PROVE n \in U
  BY <1>3, <1>4, <1>5, WayTo
<1>6. ClosedSet(U)
  <2> SUFFICES ASSUME NEW m \in U, NEW k \in 1..Len(m) PROVE SubSeq(m, 1, k) \in U
    BY DEF ClosedSet
  <2> HIDE DEF bare, Ts, U
  <2>1. PICK d \in Ts : OnWay(m, d) /\ ~bare(d)
    BY <1>4
  <2>2. m \in Ts /\ m \in Nd /\ d \in Nd
    BY <1>3, <1>4
  <2>3. SubSeq(m, 1, k) \in Ts
    BY <2>2 DEF ClosedSet, Ts
  <2>4. SubSeq(m, 1, k) \in Nd /\ OnWay(SubSeq(m, 1, k), m)
    BY <2>2, PrefixIs
  <2>5. OnWay(SubSeq(m, 1, k), d)
    BY <2>1, <2>2, <2>4, WayToWay
  <2> QED BY <1>4, <2>1, <2>3, <2>5
<1>7. ASSUME NEW m \in U, ~Keeps(m, u, lf, mf)
      PROVE  ~Keeps(m, t, lf, mf) /\ \A p \in P : ~OnWay(m, p)
  <2>1. m \in Ts /\ m \in Nd
    BY <1>3, <1>4
  <2>2. Len(m) # 1 /\ lf[m] = <<>> /\ mf[m] = None
    BY <1>7 DEF Keeps
  <2>3. \A c \in U : ~ChildOf(c, m)
    BY <1>7 DEF Keeps, NodesOf
  <2>4. PICK d \in Ts : OnWay(m, d) /\ ~bare(d)
    BY <1>4
  <2>5. d = m
    <3> SUFFICES ASSUME d # m PROVE FALSE
      OBVIOUS
    <3>1. PICK c \in Ts : ChildOf(c, m) /\ OnWay(c, d)
      <4> HIDE DEF bare, Ts, U
      <4> QED BY <1>3, <2>1, <2>4, FirstChild DEF Ts
    <3>2. c \in U
      <4> HIDE DEF bare, Ts, U
      <4> QED BY <1>4, <2>4, <3>1
    <3> QED BY <2>3, <3>1, <3>2
  <2>6. \A p \in P : ~OnWay(m, p)
    <3> DEFINE l == Len(m)
    <3>1. l \in Nat /\ l # 0
      BY <2>1, WayTo
    <3>4. l # 1
      BY <2>2
    <3>2. l > 1
      <4> HIDE DEF l
      <4> QED BY <3>1, <3>4
    <3>3. ~bare(m)
      <4> HIDE DEF bare
      <4> QED BY <2>4, <2>5
    <3> QED BY <2>2, <3>2, <3>3
  <2>7. ASSUME NEW c \in Ts, ChildOf(c, m) PROVE FALSE
    <3>1. \A p \in P : ~OnWay(c, p)
      <4> SUFFICES ASSUME NEW p \in P, OnWay(c, p) PROVE FALSE
        OBVIOUS
      <4>1. OnWay(m, c) /\ c \in Nd /\ p \in Nd
        BY <1>3, <2>1, <2>7, WayTo
      <4>2. OnWay(m, p)
        BY <2>1, <4>1, WayToWay
      <4> QED BY <2>6, <4>2
    <3>2. c \in U
      BY <1>5, <3>1
    <3> QED BY <2>3, <2>7, <3>2
  <2>8. ~Keeps(m, t, lf, mf)
    BY <2>2, <2>7 DEF Keeps, NodesOf
  <2> QED BY <2>6, <2>8
<1>8. ASSUME NEW n \in Ts, lf[n] # <<>> \/ mf[n] # None \/ Len(n) = 1 PROVE n \in U
  <2>1. Len(n) = 1 => ~(Len(n) > 1)
    OBVIOUS
  <2>2. ~bare(n)
    BY <1>8, <2>1
  <2> HIDE DEF bare
  <2> QED BY <1>5, <2>2
<1>9. U \subseteq Ts
  BY <1>4
<1> QED BY <1>2, <1>6, <1>7, <1>8, <1>9

(* A node that is needed stays so when nodes, leaves or messages come.      *)
LEMMA StaysNeeded ==
  ASSUME NEW n, NEW t, NEW u, NodesOf(t) \subseteq NodesOf(u), NEW lf, NEW mf, NEW lg, NEW mg,
         Keeps(n, t, lf, mf), lf[n] # <<>> => lg[n] # <<>>, mf[n] # None => mg[n] # None
  PROVE  Keeps(n, u, lg, mg)
<1>1. CASE \E i \in DOMAIN t : ChildOf(t[i], n)
  BY <1>1 DEF Keeps, NodesOf
<1>2. CASE Len(n) = 1 \/ lf[n] # <<>> \/ mf[n] # None
  BY <1>2 DEF Keeps
<1> QED BY <1>1, <1>2 DEF Keeps

(* What Added makes: the nodes there were and those on the way of str.      *)
LEMMA AddedIs ==
  ASSUME tree \in Seq(Nd), ClosedSet(Nodes), NEW str \in Strs
  PROVE  /\ Added(str) \in Seq(Nd) /\ Nodes \subseteq NodesOf(Added(str)) /\ ClosedSet(NodesOf(Added(str)))
         /\ LeafNode(str) \in NodesOf(Added(str)) /\ LeafNode(str) \in Nd
<1> DEFINE B   == BranchOf[str]
           way == [k \in DOMAIN BranchOf[str] |-> Node(str, k)]
           K   == {k \in DOMAIN way : way[k] \notin Nodes}
           new == Only(way, K)
           A   == NodesOf(Added(str))
<1>1. B \in Nd /\ Len(B) \in Nat \ {0} /\ DOMAIN B = 1..Len(B)
  BY BranchIs DEF Nd
<1>2. \A k \in 1..Len(B) : Node(str, k) \in Nd /\ Len(Node(str, k)) = k
  BY <1>1, PrefixIs DEF Node
<1>3. way \in Seq(Nd) /\ DOMAIN way = 1..Len(B) /\ \A k \in 1..Len(B) : way[k] = Node(str, k)
  <2> HIDE DEF B
  <2>1. way = [k \in 1..Len(B) |-> Node(str, k)]
    BY <1>1 DEF B
  <2> QED BY <1>1, <1>2, <2>1
<1>4. new \in Seq(Nd) /\ (\A k \in DOMAIN new : \E i \in K : new[k] = way[i]) /\ (\A i \in K : \E k \in DOMAIN new : new[k] = way[i])
  <2>1. K \in SUBSET (DOMAIN way)
    OBVIOUS
  <2> HIDE DEF K, way
  <2> QED BY <1>3, <2>1, OnlyHas
<1>5. Added(str) = tree \o new
  BY DEF Added
<1> HIDE DEF new
<1>6. Added(str) \in Seq(Nd)
  BY <1>4, <1>5
<1>7. \A n : n \in A <=> n \in Nodes \/ n \in NodesOf(new)
  <2>1. \A i \in DOMAIN tree : i \in DOMAIN (tree \o new) /\ (tree \o new)[i] = tree[i]
    BY <1>4
  <2>2. \A i \in DOMAIN new : i + Len(tree) \in DOMAIN (tree \o new) /\ (tree \o new)[i + Len(tree)] = new[i]
    BY <1>4
  <2>3. \A i \in DOMAIN (tree \o new) :
          \/ i \in DOMAIN tree /\ (tree \o new)[i] = tree[i]
          \/ i - Len(tree) \in DOMAIN new /\ (tree \o new)[i] = new[i - Len(tree)]
    BY <1>4
  <2>4. ASSUME NEW n, n \in NodesOf(tree \o new) PROVE n \in Nodes \/ n \in NodesOf(new)
    <3>1. PICK i \in DOMAIN (tree \o new) : n = (tree \o new)[i]
      BY <2>4 DEF NodesOf
    <3> QED BY <2>3, <3>1 DEF NodesOf, Nodes
  <2>5. ASSUME NEW n, n \in Nodes \/ n \in NodesOf(new) PROVE n \in NodesOf(tree \o new)
    <3> DEFINE a == tree \o new
    <3>1. (\E i \in DOMAIN tree : n = tree[i]) \/ \E i \in DOMAIN new : n = new[i]
      BY <2>5 DEF NodesOf, Nodes
    <3>2. \E i \in DOMAIN a : a[i] = n
      BY <2>1, <2>2, <3>1
    <3> HIDE DEF a
    <3>3. n \in NodesOf(a)
      BY <3>2 DEF NodesOf
    <3> QED BY <3>3 DEF a
  <2> QED BY <1>5, <2>4, <2>5
<1>8. \A n : n \in A <=> n \in Nodes \/ \E k \in 1..Len(B) : n = Node(str, k)
  <2>1. \A n : n \in NodesOf(new) <=> \E k \in K : n = way[k]
    <3> HIDE DEF way, K
    <3> QED BY <1>4 DEF NodesOf
  <2>2. \A n : (\E k \in K : n = way[k]) <=> \E k \in 1..Len(B) : n = Node(str, k) /\ n \notin Nodes
    BY <1>3
  <2> HIDE DEF K, way, B
  <2> QED BY <1>7, <2>1, <2>2
<1>9. ClosedSet(A)
  <2> SUFFICES ASSUME NEW m \in A, NEW j \in 1..Len(m) PROVE SubSeq(m, 1, j) \in A
    BY DEF ClosedSet
  <2>1. CASE m \in Nodes
    BY <1>8, <2>1 DEF ClosedSet
  <2>2. CASE \E k \in 1..Len(B) : m = Node(str, k)
    <3>1. PICK k \in 1..Len(B) : m = Node(str, k)
      BY <2>2
    <3>2. j \in 1..k /\ j \in 1..Len(B)
      BY <1>1, <1>2, <3>1
    <3>3. SubSeq(m, 1, j) = Node(str, j)
      BY <1>1, <3>1, <3>2, PrefixIs DEF Node
    <3> QED BY <1>8, <3>2, <3>3
  <2> HIDE DEF A, B
  <2> QED BY <1>8, <2>1, <2>2
<1>10. LeafNode(str) = Node(str, Len(B)) /\ Len(B) \in 1..Len(B)
  BY <1>1 DEF LeafNode, Node, Nd
<1>11. Nodes \subseteq A /\ LeafNode(str) \in A
  BY <1>8, <1>10
<1>12. LeafNode(str) \in Nd
  BY <1>1 DEF LeafNode
<1> QED BY <1>6, <1>9, <1>11, <1>12

(* The first slot that is free: the list of a context takes one more node.  *)
LEMMA SlotIs ==
  ASSUME NEW s \in Seq(Nd \cup {NoNode}), NEW n \in Nd, \A i \in DOMAIN s : s[i] # n,
         \A i, j \in DOMAIN s : s[i] = s[j] /\ s[i] # NoNode => i = j
  PROVE  /\ Slot(s, n) \in Seq(Nd \cup {NoNode})
         /\ NodesOf(Slot(s, n)) \subseteq NodesOf(s) \cup {n}
         /\ \A m \in Nd : m \in NodesOf(Slot(s, n)) <=> m \in NodesOf(s) \cup {n}
         /\ \A i, j \in DOMAIN Slot(s, n) : Slot(s, n)[i] = Slot(s, n)[j] /\ Slot(s, n)[i] # NoNode => i = j
<1>0. n # NoNode /\ Len(s) \in Nat /\ DOMAIN s = 1..Len(s) /\ NoNode \notin Nd
  BY DEF Nd, NoNode
<1>1. CASE \E i \in DOMAIN s : s[i] = NoNode
  <2> DEFINE K == {i \in DOMAIN s : s[i] = NoNode}
             first(i) == s[i] = NoNode /\ \A j \in 1..(i - 1) : s[j] # NoNode
             f == CHOOSE i \in DOMAIN s : first(i)
  <2>1. K \in SUBSET (1..Len(s)) /\ K # {}
    BY <1>0, <1>1
  <2>2. Cardinality(K) \in Nat /\ Cardinality(K) # 0
    <3> HIDE DEF K
    <3>1. IsFiniteSet(K) /\ Cardinality(K) \in Nat
      BY <1>0, <2>1, FinitePositions
    <3> QED BY <2>1, <3>1, FS_EmptySet
  <2>3. PICK i \in K : Rank(K, i) = 1
    <3>1. 1 \in 1..Cardinality(K)
      BY <2>2
    <3> HIDE DEF K
    <3> QED BY <1>0, <2>1, <3>1, RanksAre
  <2>4. ASSUME NEW j \in 1..(i - 1), s[j] = NoNode PROVE FALSE
    <3>1. j \in K /\ j < i /\ i \in K
      BY <1>0, <2>4
    <3> HIDE DEF K
    <3>2. Rank(K, j) < Rank(K, i) /\ Rank(K, j) \in 1..Cardinality(K)
      BY <1>0, <2>1, <3>1, RanksAre
    <3> QED BY <2>2, <2>3, <3>2
  <2>5. first(i) /\ i \in DOMAIN s
    BY <2>4
  <2>6. f \in DOMAIN s /\ s[f] = NoNode
    <3> HIDE DEF first
    <3>1. f \in DOMAIN s /\ first(f)
      BY <2>5
    <3> QED BY <3>1 DEF first
  <2>7. Slot(s, n) = [s EXCEPT ![f] = n]
    BY <1>1 DEF Slot
  <2> HIDE DEF f
  <2>8. Slot(s, n) \in Seq(Nd \cup {NoNode}) /\ DOMAIN Slot(s, n) = DOMAIN s
    BY <2>6, <2>7
  <2>9. \A k \in DOMAIN s : Slot(s, n)[k] = IF k = f THEN n ELSE s[k]
    BY <2>7
  <2>10. \A m \in Nd : m \in NodesOf(Slot(s, n)) <=> m \in NodesOf(s) \cup {n}
    BY <1>0, <2>6, <2>8, <2>9 DEF NodesOf
  <2>11. NodesOf(Slot(s, n)) \subseteq NodesOf(s) \cup {n}
    BY <2>8, <2>9 DEF NodesOf
  <2>12. \A k, j \in DOMAIN Slot(s, n) : Slot(s, n)[k] = Slot(s, n)[j] /\ Slot(s, n)[k] # NoNode => k = j
    BY <2>8, <2>9
  <2> QED BY <2>8, <2>10, <2>11, <2>12
<1>2. CASE ~\E i \in DOMAIN s : s[i] = NoNode
  <2>1. Slot(s, n) = Append(s, n)
    BY <1>2 DEF Slot
  <2>2. Slot(s, n) \in Seq(Nd \cup {NoNode}) /\ DOMAIN Slot(s, n) = 1..(Len(s) + 1)
    BY <2>1
  <2>3. \A k \in 1..(Len(s) + 1) : Slot(s, n)[k] = IF k = Len(s) + 1 THEN n ELSE s[k]
    BY <2>1
  <2>4. \A k \in 1..(Len(s) + 1) : k = Len(s) + 1 \/ k \in DOMAIN s
    BY <1>0
  <2>5. Len(s) + 1 \in 1..(Len(s) + 1) /\ \A k \in DOMAIN s : k \in 1..(Len(s) + 1) /\ k # Len(s) + 1
    BY <1>0
  <2>6. \A m : m \in NodesOf(Slot(s, n)) <=> m \in NodesOf(s) \cup {n}
    BY <2>2, <2>3, <2>4, <2>5 DEF NodesOf
  <2>7. \A k, j \in DOMAIN Slot(s, n) : Slot(s, n)[k] = Slot(s, n)[j] /\ Slot(s, n)[k] # NoNode => k = j
    BY <2>2, <2>3, <2>4
  <2> QED BY <2>2, <2>6, <2>7
<1> QED BY <1>1, <1>2

-----------------------------------------------------------------------------
(* The invariant.                                                           *)

(* The contexts that have a leaf in a list, and the nodes in the slots of a *)
(* context.                                                                 *)
Holders(s) == {s[i].context : i \in DOMAIN s}
Once(s)    == \A i, j \in DOMAIN s : s[i].context = s[j].context => i = j
SlotsOf(s)      == NodesOf(s)
OnceAt(s)  == \A i, j \in DOMAIN s : s[i] = s[j] /\ s[i] # NoNode => i = j

(* The types, and that the way to each node is in the tree.                 *)
TreeInv ==
  /\ tree \in Seq(Nd) /\ ClosedSet(Nodes)
  /\ leaves \in [Nodes -> Seq(Leaf)] /\ retained \in [Nodes -> QoS \cup {None}]
  /\ subs \in [Contexts -> Seq(Nd \cup {NoNode})] /\ id \in [Contexts -> Clients \cup {None}]
  /\ counts \in [subscription : Int, retained : Int]

(* A leaf on each side is matched by one on the other, once, and a client   *)
(* has one context that is alive.                                           *)
LinkInv ==
  /\ \A n \in Nodes : Once(leaves[n])
  /\ \A x \in Contexts : OnceAt(subs[x]) /\ SlotsOf(subs[x]) \subseteq Nodes \cup {NoNode}
  /\ \A x \in Contexts, n \in Nodes : x \in Holders(leaves[n]) <=> n \in SlotsOf(subs[x])
  /\ \A x, y \in Contexts : id[x] = id[y] /\ id[x] # None => x = y

(* Who has a leaf where, and which nodes have a message: the counters.      *)
Held      == {h \in Nodes \X Contexts : h[2] \in Holders(leaves[h[1]])}
Retaining == {n \in Nodes : retained[n] # None}

CountInv ==
  /\ IsFiniteSet(Held) /\ counts.subscription = Cardinality(Held)
  /\ IsFiniteSet(Retaining) /\ counts.retained = Cardinality(Retaining)

SubInv == TreeInv /\ LinkInv /\ CountInv

(* H are the holders at these positions of the lists of the nodes N.        *)
HoldersAt(N, lf, sets, H) ==
  /\ lf \in [N -> Seq(Leaf)] /\ \A n \in N : Once(lf[n])
  /\ sets \in [N -> SUBSET Nat] /\ \A n \in N : sets[n] \subseteq DOMAIN lf[n]
  /\ H \in SUBSET (N \X Contexts) /\ IsFiniteSet(H)
  /\ \A n \in N, x \in Contexts : <<n, x>> \in H <=> \E i \in sets[n] : lf[n][i].context = x

(* A list has one element for each holder, so the members of sets of        *)
(* positions are as many as the holders at these positions.                 *)
LEMMA PairsCount ==
  ASSUME NEW N, NEW lf, NEW sets, NEW H, HoldersAt(N, lf, sets, H)
  PROVE  Cardinality(PairsIn(sets)) = Cardinality(H)
<1> DEFINE pos(n, x) == CHOOSE i \in sets[n] : lf[n][i].context = x
           F == [h \in H |-> <<h[1], pos(h[1], h[2])>>]
           P == PairsIn(sets)
<1>0. /\ lf \in [N -> Seq(Leaf)] /\ \A n \in N : Once(lf[n])
      /\ sets \in [N -> SUBSET Nat] /\ \A n \in N : sets[n] \subseteq DOMAIN lf[n]
      /\ H \in SUBSET (N \X Contexts) /\ IsFiniteSet(H)
      /\ \A n \in N, x \in Contexts : <<n, x>> \in H <=> \E i \in sets[n] : lf[n][i].context = x
  BY DEF HoldersAt
<1>1. \A z : z \in P <=> \E n \in N : \E i \in sets[n] : z = <<n, i>>
  BY <1>0 DEF PairsIn
<1>2. ASSUME NEW h \in H
      PROVE  h[1] \in N /\ h[2] \in Contexts /\ h = <<h[1], h[2]>>
             /\ pos(h[1], h[2]) \in sets[h[1]] /\ lf[h[1]][pos(h[1], h[2])].context = h[2]
  <2>1. h[1] \in N /\ h[2] \in Contexts /\ h = <<h[1], h[2]>>
    BY <1>0
  <2>2. \E i \in sets[h[1]] : lf[h[1]][i].context = h[2]
    BY <1>0, <2>1
  <2> QED BY <2>1, <2>2
<1> HIDE DEF pos, P
<1>3. F \in [H -> P]
  BY <1>1, <1>2
<1>4. F \in Injection(H, P)
  <2>1. ASSUME NEW g \in H, NEW h \in H, F[g] = F[h] PROVE g = h
    <3>1. g[1] = h[1] /\ pos(g[1], g[2]) = pos(h[1], h[2])
      BY <2>1
    <3>2. g[2] = h[2]
      BY <1>2, <3>1
    <3> QED BY <1>2, <3>1, <3>2
  <2> HIDE DEF F
  <2> QED BY <1>3, <2>1 DEF Injection, IsInjective
<1>5. F \in Surjection(H, P)
  <2>1. ASSUME NEW z \in P PROVE \E h \in H : F[h] = z
    <3>0. PICK n \in N : \E i \in sets[n] : z = <<n, i>>
      BY <1>1
    <3>1. PICK i \in sets[n] : z = <<n, i>>
      BY <3>0
    <3> DEFINE x == lf[n][i].context
    <3>2. i \in DOMAIN lf[n] /\ lf[n] \in Seq(Leaf)
      BY <1>0
    <3>3. x \in Contexts
      <4>1. lf[n][i] \in Leaf
        BY <3>2
      <4> QED BY <4>1 DEF Leaf
    <3>4. <<n, x>> \in H
      BY <1>0, <3>3
    <3>5. pos(n, x) \in sets[n] /\ lf[n][pos(n, x)].context = x
      BY <1>2, <3>4
    <3>6. pos(n, x) = i
      <4>1. pos(n, x) \in DOMAIN lf[n]
        BY <1>0, <3>5
      <4> QED BY <1>0, <3>2, <3>5, <4>1 DEF Once
    <3> HIDE DEF x
    <3>7. F[<<n, x>>] = z
      BY <3>1, <3>4, <3>6
    <3> QED BY <3>4, <3>7
  <2> HIDE DEF F
  <2> QED BY <1>3, <2>1 DEF Surjection
<1>6. ExistsBijection(H, P)
  BY <1>4, <1>5 DEF ExistsBijection, Bijection
<1> QED BY <1>0, <1>6, FS_Bijection DEF P

(* With the invariant the properties hold.                                  *)
LEMMA SubInvCounts ==
  ASSUME SubInv
  PROVE  CountsExact
<1> DEFINE sets == [n \in Nodes |-> DOMAIN leaves[n]]
<1>1. leaves \in [Nodes -> Seq(Leaf)] /\ (\A n \in Nodes : Once(leaves[n])) /\ IsFiniteSet(Held)
  BY DEF SubInv, TreeInv, LinkInv, CountInv
<1>2. sets \in [Nodes -> SUBSET Nat] /\ \A n \in Nodes : sets[n] = DOMAIN leaves[n] /\ sets[n] \subseteq DOMAIN leaves[n]
  <2>1. \A n \in Nodes : DOMAIN leaves[n] \in SUBSET Nat
    BY <1>1
  <2> QED BY <2>1
<1>3. \A n \in Nodes, x \in Contexts : <<n, x>> \in Held <=> \E i \in sets[n] : leaves[n][i].context = x
  <2> HIDE DEF sets
  <2> QED BY <1>2 DEF Held, Holders
<1>4. Held \in SUBSET (Nodes \X Contexts)
  BY DEF Held
<1>5. Cardinality(PairsIn(sets)) = Cardinality(Held)
  <2> HIDE DEF sets
  <2>1. HoldersAt(Nodes, leaves, sets, Held)
    BY <1>1, <1>2, <1>3, <1>4 DEF HoldersAt
  <2> QED BY <2>1, PairsCount
<1> QED BY <1>5 DEF SubInv, CountInv, CountsExact, Retaining

(* A list in which a value is once has one position for it, or none.        *)
LEMMA OnePosition ==
  ASSUME NEW D, NEW E, D = {} <=> E = {}, \A i, j \in D : i = j, \A i, j \in E : i = j
  PROVE  Cardinality(D) = Cardinality(E)
<1>1. CASE D = {}
  BY <1>1
<1>2. CASE D # {}
  <2>1. PICK i \in D, j \in E : TRUE
    BY <1>2
  <2>2. D = {i} /\ E = {j}
    BY <2>1
  <2> QED BY <2>2, FS_Singleton
<1> QED BY <1>1, <1>2

(* The references of both sides match, and a client has one leaf at a node.  *)
LEMMA SubInvRefers ==
  ASSUME SubInv
  PROVE  BackReferences
<1>1. ASSUME NEW x \in Contexts, NEW n \in Nodes
      PROVE  Cardinality({i \in DOMAIN leaves[n] : leaves[n][i].context = x})
               = Cardinality({i \in DOMAIN subs[x] : subs[x][i] = n})
  <2> DEFINE D == {i \in DOMAIN leaves[n] : leaves[n][i].context = x}
             E == {i \in DOMAIN subs[x] : subs[x][i] = n}
  <2>1. n # NoNode
    BY DEF SubInv, TreeInv, Nodes, Nd, NoNode
  <2>2. D = {} <=> E = {}
    BY DEF SubInv, LinkInv, Holders, SlotsOf, NodesOf
  <2>3. \A i, j \in D : i = j
    BY DEF SubInv, LinkInv, Once
  <2>4. \A i, j \in E : i = j
    BY <2>1 DEF SubInv, LinkInv, OnceAt
  <2> HIDE DEF D, E
  <2>5. Cardinality(D) = Cardinality(E)
    BY <2>2, <2>3, <2>4, OnePosition
  <2> QED BY <2>5 DEF D, E
<1>2. \A x \in Contexts : \A i \in DOMAIN subs[x] : subs[x][i] \in Nodes \cup {NoNode}
  BY DEF SubInv, LinkInv, SlotsOf, NodesOf
<1>3. ASSUME NEW n \in Nodes, NEW i \in DOMAIN leaves[n], NEW j \in DOMAIN leaves[n],
             id[leaves[n][i].context] = id[leaves[n][j].context], id[leaves[n][i].context] # None
      PROVE  i = j
  <2>1. leaves[n][i].context \in Contexts /\ leaves[n][j].context \in Contexts
    <3>1. leaves[n] \in Seq(Leaf)
      BY DEF SubInv, TreeInv
    <3>2. leaves[n][i] \in Leaf /\ leaves[n][j] \in Leaf
      BY <3>1
    <3> QED BY <3>2 DEF Leaf
  <2>2. leaves[n][i].context = leaves[n][j].context
    BY <1>3, <2>1 DEF SubInv, LinkInv
  <2> QED BY <2>2 DEF SubInv, LinkInv, Once
<1> QED BY <1>1, <1>2, <1>3 DEF BackReferences

-----------------------------------------------------------------------------
(* The steps.                                                               *)

(* Two roots, nobody and nothing.                                           *)
LEMMA InitSub ==
  ASSUME Init
  PROVE  SubInv
<1>1. tree = <<<<<<>>>>, <<<<"$", "S">>>>>>
  BY DEF Init
<1>2. <<>> \in Tok /\ <<"$", "S">> \in Tok
  BY DEF Tok
<1>3. <<<<>>>> \in Nd /\ <<<<"$", "S">>>> \in Nd
  <2> DEFINE a == <<>>
             b == <<"$", "S">>
  <2>1. a \in Tok /\ b \in Tok
    BY <1>2
  <2> HIDE DEF a, b
  <2>2. <<a>> \in Seq(Tok) /\ <<b>> \in Seq(Tok) /\ <<a>> # <<>> /\ <<b>> # <<>>
    BY <2>1
  <2> QED BY <2>2 DEF Nd, a, b
<1> DEFINE r == <<<<>>>>
           v == <<<<"$", "S">>>>
<1>4. Len(r) = 1 /\ Len(v) = 1
  OBVIOUS
<1>5. tree = <<r, v>> /\ r \in Nd /\ v \in Nd
  BY <1>1, <1>3
<1> HIDE DEF r, v
<1>6. tree \in Seq(Nd) /\ Nodes = {r, v}
  BY <1>5 DEF Nodes
<1>7. ClosedSet(Nodes)
  <2> SUFFICES ASSUME NEW m \in Nodes, NEW k \in 1..Len(m) PROVE SubSeq(m, 1, k) \in Nodes
    BY DEF ClosedSet
  <2>1. k = Len(m) /\ m \in Nd
    BY <1>4, <1>5, <1>6
  <2>2. SubSeq(m, 1, Len(m)) = m
    BY <2>1 DEF Nd
  <2> QED BY <2>1, <2>2
<1>8. /\ leaves = [n \in Nodes |-> <<>>] /\ retained = [n \in Nodes |-> None]
      /\ subs = [x \in Contexts |-> <<>>] /\ id = [x \in Contexts |-> None]
      /\ counts = [subscription |-> 0, retained |-> 0]
  BY DEF Init
<1>9. TreeInv
  <2>1. leaves \in [Nodes -> Seq(Leaf)] /\ retained \in [Nodes -> QoS \cup {None}]
    BY <1>8
  <2>2. subs \in [Contexts -> Seq(Nd \cup {NoNode})] /\ id \in [Contexts -> Clients \cup {None}]
    BY <1>8
  <2>3. counts \in [subscription : Int, retained : Int]
    BY <1>8
  <2> QED BY <1>6, <1>7, <2>1, <2>2, <2>3 DEF TreeInv
<1>10. LinkInv
  BY <1>8 DEF LinkInv, Once, OnceAt, SlotsOf, NodesOf, Holders
<1>11. Held = {} /\ Retaining = {}
  BY <1>8 DEF Held, Retaining, Holders
<1>12. CountInv
  BY <1>8, <1>11, FS_EmptySet DEF CountInv
<1> QED BY <1>9, <1>10, <1>12 DEF SubInv

(* A tree as Grow makes it.                                                 *)
LEMMA GrowIs ==
  ASSUME NEW t, NEW lf, NEW mf, Grow(t, lf, mf)
  PROVE  /\ tree' = t /\ Nodes' = NodesOf(t)
         /\ leaves' = [n \in NodesOf(t) |-> IF n \in DOMAIN lf THEN lf[n] ELSE <<>>]
         /\ retained' = [n \in NodesOf(t) |-> IF n \in DOMAIN mf THEN mf[n] ELSE None]
BY DEF Grow, NodesOf, Nodes

(* The holders G of some leaves lose them, their contexts the nodes in the  *)
(* slots, and the branches are pruned: what unsubscribing and the end of    *)
(* contexts have in common.                                                 *)
Loses(G, P, left) ==
  /\ G \in SUBSET Held /\ P \in SUBSET Nd /\ left \in [Nodes -> Seq(Leaf)]
  /\ \A n \in Nodes : Once(left[n])
  /\ \A n \in Nodes, x \in Contexts :
       x \in Holders(left[n]) <=> x \in Holders(leaves[n]) /\ <<n, x>> \notin G
  /\ Grow(Pruned(tree, P, left, retained), left, retained)
  /\ subs' \in [Contexts -> Seq(Nd \cup {NoNode})] /\ \A x \in Contexts : OnceAt(subs'[x])
  /\ \A x \in Contexts : SlotsOf(subs'[x]) \subseteq Nodes \cup {NoNode}
  /\ \A x \in Contexts, n \in Nodes : n \in SlotsOf(subs'[x]) <=> n \in SlotsOf(subs[x]) /\ <<n, x>> \notin G
  /\ counts' = [counts EXCEPT !.subscription = @ - Cardinality(G)]
  /\ id' = id

(* The invariant is kept by it.                                             *)
LEMMA LosesKeeps ==
  ASSUME SubInv, NEW G, NEW P, NEW left, Loses(G, P, left)
  PROVE  SubInv'
<1> DEFINE t == Pruned(tree, P, left, retained)
           N == NodesOf(t)
<1>1. /\ tree \in Seq(Nd) /\ ClosedSet(Nodes) /\ retained \in [Nodes -> QoS \cup {None}]
      /\ id \in [Contexts -> Clients \cup {None}] /\ counts \in [subscription : Int, retained : Int]
      /\ leaves \in [Nodes -> Seq(Leaf)]
  BY DEF SubInv, TreeInv
<1>2. Nodes = NodesOf(tree)
  BY DEF Nodes, NodesOf
<1>3. /\ t \in Seq(Nd) /\ N \subseteq Nodes /\ ClosedSet(N)
      /\ \A n \in Nodes : left[n] # <<>> \/ retained[n] # None => n \in N
  <2>1. P \in SUBSET Nd /\ ClosedSet(NodesOf(tree))
    BY <1>1, <1>2 DEF Loses
  <2> HIDE DEF t
  <2> QED BY <1>1, <1>2, <2>1, PrunedIs DEF t
<1> HIDE DEF t
<1>4. /\ tree' = t /\ Nodes' = N
      /\ leaves' = [n \in N |-> IF n \in DOMAIN left THEN left[n] ELSE <<>>]
      /\ retained' = [n \in N |-> IF n \in DOMAIN retained THEN retained[n] ELSE None]
  BY GrowIs DEF Loses, t
<1> HIDE DEF N
<1>5. DOMAIN left = Nodes /\ DOMAIN retained = Nodes /\ left \in [Nodes -> Seq(Leaf)]
  BY <1>1 DEF Loses
<1>6. leaves' \in [N -> Seq(Leaf)] /\ retained' \in [N -> QoS \cup {None}]
      /\ \A n \in N : leaves'[n] = left[n] /\ retained'[n] = retained[n]
  BY <1>1, <1>3, <1>4, <1>5
<1>7. TreeInv'
  <2>1. counts' \in [subscription : Int, retained : Int]
    <3>1. IsFiniteSet(G)
      BY FS_Subset DEF SubInv, CountInv, Loses
    <3>2. Cardinality(G) \in Int
      BY <3>1, FS_CardinalityType
    <3> QED BY <1>1, <3>2 DEF Loses
  <2>2. subs' \in [Contexts -> Seq(Nd \cup {NoNode})] /\ id' \in [Contexts -> Clients \cup {None}]
    BY <1>1 DEF Loses
  <2> QED BY <1>3, <1>4, <1>6, <2>1, <2>2 DEF TreeInv
<1>8. LinkInv'
  <2>1. \A n \in N : Once(leaves'[n])
    BY <1>3, <1>6 DEF Loses
  <2>2. ASSUME NEW x \in Contexts, NEW n \in N
        PROVE  x \in Holders(leaves'[n]) <=> n \in SlotsOf(subs'[x])
    BY <1>3, <1>6 DEF Loses, SubInv, LinkInv
  <2>3. ASSUME NEW x \in Contexts, NEW n \in SlotsOf(subs'[x]) PROVE n \in N \cup {NoNode}
    <3>1. CASE n = NoNode
      BY <3>1
    <3>2. CASE n # NoNode
      <4>1. n \in Nodes
        BY <3>2 DEF Loses
      <4>2. x \in Holders(leaves[n]) /\ <<n, x>> \notin G
        BY <4>1 DEF Loses, SubInv, LinkInv
      <4>3. x \in Holders(left[n])
        BY <4>1, <4>2 DEF Loses
      <4>4. left[n] # <<>>
        BY <4>3 DEF Holders
      <4> QED BY <1>3, <4>1, <4>4
    <3> QED BY <3>1, <3>2
  <2>4. \A x, y \in Contexts : id'[x] = id'[y] /\ id'[x] # None => x = y
    BY DEF Loses, SubInv, LinkInv
  <2>5. \A x \in Contexts : OnceAt(subs'[x])
    BY DEF Loses
  <2> QED BY <1>4, <2>1, <2>2, <2>3, <2>4, <2>5 DEF LinkInv
<1>9. CountInv'
  <2>1. IsFiniteSet(Held) /\ IsFiniteSet(G) /\ G \subseteq Held
    BY FS_Subset DEF SubInv, CountInv, Loses
  <2>2. Held' = Held \ G
    <3>1. Held' = {h \in N \X Contexts : h[2] \in Holders(leaves'[h[1]])}
      BY <1>4 DEF Held
    <3>2. ASSUME NEW n \in Nodes, NEW x \in Contexts, <<n, x>> \in Held \ G PROVE n \in N
      <4>1. x \in Holders(left[n])
        BY <3>2 DEF Held, Loses
      <4>2. left[n] # <<>>
        BY <4>1 DEF Holders
      <4> QED BY <1>3, <4>2
    <3>3. ASSUME NEW n \in N, NEW x \in Contexts
          PROVE  x \in Holders(leaves'[n]) <=> <<n, x>> \in Held \ G
      BY <1>3, <1>6 DEF Held, Loses
    <3>4. ASSUME NEW h PROVE h \in Held' <=> h \in Held \ G
      <4>1. CASE h \in Nodes \X Contexts
        <5>1. PICK n \in Nodes, x \in Contexts : h = <<n, x>>
          BY <4>1
        <5> QED BY <1>3, <3>1, <3>2, <3>3, <5>1
      <4>2. CASE h \notin Nodes \X Contexts
        BY <1>3, <3>1, <4>2 DEF Held
      <4> QED BY <4>1, <4>2
    <3> QED BY <3>4
  <2>3. IsFiniteSet(Held \ G) /\ Cardinality(Held \ G) = Cardinality(Held) - Cardinality(G)
    <3>1. IsFiniteSet(Held \ G)
      BY <2>1, FS_Subset
    <3>2. (Held \ G) \cup G = Held /\ (Held \ G) \cap G = {}
      BY <2>1
    <3>3. Cardinality(Held) = Cardinality(Held \ G) + Cardinality(G) - 0
      BY <2>1, <3>1, <3>2, FS_Union, FS_EmptySet
    <3>4. Cardinality(Held \ G) \in Nat /\ Cardinality(G) \in Nat
      BY <2>1, <3>1, FS_CardinalityType
    <3> QED BY <3>1, <3>3, <3>4
  <2>4. Retaining' = Retaining
    BY <1>3, <1>4, <1>6 DEF Retaining
  <2>5. counts'.subscription = counts.subscription - Cardinality(G) /\ counts'.retained = counts.retained
    BY <1>1 DEF Loses
  <2> QED BY <2>2, <2>3, <2>4, <2>5 DEF CountInv, SubInv
<1> QED BY <1>7, <1>8, <1>9 DEF SubInv

(* No node is left without a need by it, if leaves go at the ends of the    *)
(* ways only that are followed.                                             *)
LEMMA LosesPrunes ==
  ASSUME SubInv, NEW G, NEW P, NEW left, Loses(G, P, left),
         \A n \in Nodes : n \notin P => left[n] = leaves[n]
  PROVE  \A n \in Nodes' : ~Keeps(n, tree', leaves', retained') => ~Keeps(n, tree, leaves, retained)
<1> SUFFICES ASSUME NEW n \in Nodes', ~Keeps(n, tree', leaves', retained')
             PROVE  ~Keeps(n, tree, leaves, retained)
  OBVIOUS
<1> DEFINE t == Pruned(tree, P, left, retained)
           N == NodesOf(t)
<1>1. /\ tree \in Seq(Nd) /\ ClosedSet(NodesOf(tree)) /\ P \in SUBSET Nd /\ Nodes = NodesOf(tree)
      /\ DOMAIN left = Nodes /\ DOMAIN retained = Nodes
  BY DEF SubInv, TreeInv, Loses, Nodes, NodesOf
<1>2. /\ N \subseteq Nodes
      /\ \A m \in N : ~Keeps(m, t, left, retained) => ~Keeps(m, tree, left, retained) /\ \A p \in P : ~OnWay(m, p)
  <2> HIDE DEF t
  <2> QED BY <1>1, PrunedIs DEF t
<1> HIDE DEF t
<1>3. /\ tree' = t /\ Nodes' = N
      /\ leaves' = [m \in N |-> IF m \in DOMAIN left THEN left[m] ELSE <<>>]
      /\ retained' = [m \in N |-> IF m \in DOMAIN retained THEN retained[m] ELSE None]
  BY GrowIs DEF Loses, t
<1> HIDE DEF N
<1>4. leaves'[n] = left[n] /\ retained'[n] = retained[n] /\ n \in N /\ n \in Nodes
  BY <1>1, <1>2, <1>3
<1>5. ~Keeps(n, t, left, retained)
  BY <1>3, <1>4 DEF Keeps
<1>6. ~Keeps(n, tree, left, retained) /\ n \notin P
  <2>1. OnWay(n, n)
    BY <1>1, <1>4, WayTo DEF NodesOf
  <2> QED BY <1>2, <1>4, <1>5, <2>1
<1> QED BY <1>4, <1>6 DEF Keeps

(* What is left of a list without the leaves of some holders.               *)
LEMMA LeavesLeft ==
  ASSUME NEW s \in Seq(Leaf), Once(s), NEW K \in SUBSET (DOMAIN s)
  PROVE  /\ Only(s, K) \in Seq(Leaf) /\ Once(Only(s, K))
         /\ \A x : x \in Holders(Only(s, K)) <=> \E i \in K : s[i].context = x
<1> DEFINE u == Only(s, K)
<1>1. PICK g : Picks(g, s, K, u)
  BY OnlyIs
<1>2. u \in Seq(Leaf)
  BY OnlyHas
<1> HIDE DEF u
<1>3. Once(u)
  <2> SUFFICES ASSUME NEW i \in DOMAIN u, NEW j \in DOMAIN u, u[i].context = u[j].context PROVE i = j
    BY DEF Once
  <2>1. g[i] \in DOMAIN s /\ g[j] \in DOMAIN s /\ s[g[i]].context = s[g[j]].context
    BY <1>1 DEF Picks
  <2> QED BY <1>1, <2>1 DEF Once, Picks
<1>4. \A x : x \in Holders(u) <=> \E i \in K : s[i].context = x
  BY <1>1 DEF Holders, Picks
<1> QED BY <1>2, <1>3, <1>4 DEF u

(* Unsubscribing takes the leaf of the context, if it has one there.        *)
LEMMA UnsubscribeLoses ==
  ASSUME SubInv, NEW x \in Contexts, NEW f \in Filters, Unsubscribe(x, f)
  PROVE  \E G, P, left : Loses(G, P, left) /\ \A n \in Nodes : n \notin P => left[n] = leaves[n]
<1> DEFINE n    == LeafNode(f)
           own  == IF n \in Nodes THEN {i \in DOMAIN leaves[n] : leaves[n][i].context = x} ELSE {}
           left == IF own = {} THEN leaves
                   ELSE [leaves EXCEPT ![n] = Only(@, DOMAIN @ \ own)]
           G    == IF own = {} THEN {} ELSE {<<n, x>>}
<1>1. /\ Grow(Pruned(tree, {n}, left, retained), left, retained)
      /\ subs' = IF own = {} THEN subs
                 ELSE [subs EXCEPT ![x] = [i \in DOMAIN @ |-> IF @[i] = n THEN NoNode ELSE @[i]]]
      /\ counts' = [counts EXCEPT !.subscription = @ - Cardinality(own)]
      /\ id' = id
  BY DEF Unsubscribe
<1>2. n \in Nd /\ n # NoNode
  BY BranchIs DEF LeafNode, Strs, Nd, NoNode
<1> HIDE DEF n
<1>3. /\ leaves \in [Nodes -> Seq(Leaf)] /\ subs \in [Contexts -> Seq(Nd \cup {NoNode})]
      /\ \A m \in Nodes : Once(leaves[m])
      /\ \A y \in Contexts : OnceAt(subs[y]) /\ SlotsOf(subs[y]) \subseteq Nodes \cup {NoNode}
      /\ \A y \in Contexts, m \in Nodes : y \in Holders(leaves[m]) <=> m \in SlotsOf(subs[y])
      /\ Nodes \subseteq Nd
  <2>1. LinkInv /\ TreeInv
    BY DEF SubInv
  <2>2. /\ leaves \in [Nodes -> Seq(Leaf)] /\ subs \in [Contexts -> Seq(Nd \cup {NoNode})]
        /\ tree \in Seq(Nd)
    BY ONLY <2>1 DEF TreeInv
  <2>3. Nodes \subseteq Nd
    BY ONLY <2>2 DEF Nodes
  <2>4. /\ \A m \in Nodes : Once(leaves[m])
        /\ \A y \in Contexts : OnceAt(subs[y]) /\ SlotsOf(subs[y]) \subseteq Nodes \cup {NoNode}
        /\ \A y \in Contexts, m \in Nodes : y \in Holders(leaves[m]) <=> m \in SlotsOf(subs[y])
    BY ONLY <2>1 DEF LinkInv
  <2> QED BY ONLY <2>2, <2>3, <2>4
<1>4. own # {} => n \in Nodes /\ <<n, x>> \in Held
  BY DEF Held, Holders
<1>5. Cardinality(own) = Cardinality(G)
  <2>1. CASE own = {}
    BY <2>1
  <2>2. CASE own # {}
    <3>1. PICK i \in own : TRUE
      BY <2>2
    <3>2. own = {i}
      BY <1>3, <1>4, <2>2, <3>1 DEF Once
    <3>3. Cardinality({i}) = 1 /\ Cardinality({<<n, x>>}) = 1
      BY FS_Singleton
    <3> QED BY <2>2, <3>2, <3>3
  <2> QED BY <2>1, <2>2
<1>6. left \in [Nodes -> Seq(Leaf)] /\ \A m \in Nodes : Once(left[m])
      /\ \A y \in Contexts : y \in Holders(left[m]) <=> y \in Holders(leaves[m]) /\ <<m, y>> \notin G
  <2>1. CASE own = {}
    BY <1>3, <2>1
  <2>2. CASE own # {}
    <3> DEFINE K == DOMAIN leaves[n] \ own
    <3>1. n \in Nodes /\ own = {i \in DOMAIN leaves[n] : leaves[n][i].context = x}
      BY <1>4, <2>2
    <3> HIDE DEF own
    <3>2. leaves[n] \in Seq(Leaf) /\ Once(leaves[n]) /\ K \in SUBSET (DOMAIN leaves[n])
      BY <1>3, <3>1
    <3>3. left = [leaves EXCEPT ![n] = Only(leaves[n], K)]
      BY <2>2, <3>1, <1>3
    <3> HIDE DEF K, left
    <3>4. Only(leaves[n], K) \in Seq(Leaf) /\ Once(Only(leaves[n], K))
          /\ \A y : y \in Holders(Only(leaves[n], K)) <=> \E i \in K : leaves[n][i].context = y
      BY <3>2, LeavesLeft
    <3>5. \A y : y \in Holders(Only(leaves[n], K)) <=> y \in Holders(leaves[n]) /\ y # x
      BY <3>1, <3>4 DEF K, Holders
    <3>6. left \in [Nodes -> Seq(Leaf)] /\ \A m \in Nodes : left[m] = IF m = n THEN Only(leaves[n], K) ELSE leaves[m]
      BY <1>3, <3>1, <3>3, <3>4
    <3>7. \A m \in Nodes, y \in Contexts : <<m, y>> \in G <=> m = n /\ y = x
      BY <2>2
    <3> QED BY <1>3, <3>4, <3>5, <3>6, <3>7
  <2> QED BY <2>1, <2>2
<1>7. subs' \in [Contexts -> Seq(Nd \cup {NoNode})]
      /\ \A y \in Contexts :
           /\ OnceAt(subs'[y]) /\ SlotsOf(subs'[y]) \subseteq Nodes \cup {NoNode}
           /\ \A m \in Nodes : m \in SlotsOf(subs'[y]) <=> m \in SlotsOf(subs[y]) /\ <<m, y>> \notin G
  <2>1. CASE own = {}
    BY <1>1, <1>3, <2>1
  <2>2. CASE own # {}
    <3> DEFINE s == subs[x]
               u == [i \in DOMAIN s |-> IF s[i] = n THEN NoNode ELSE s[i]]
    <3>1. subs' = [subs EXCEPT ![x] = u]
      BY <1>1, <2>2
    <3>2. s \in Seq(Nd \cup {NoNode})
      BY <1>3
    <3> HIDE DEF s
    <3>3. u \in Seq(Nd \cup {NoNode}) /\ DOMAIN u = DOMAIN s
      BY <3>2
    <3>4. \A i \in DOMAIN s : u[i] = IF s[i] = n THEN NoNode ELSE s[i]
      OBVIOUS
    <3> HIDE DEF u, own
    <3>5. OnceAt(u) /\ SlotsOf(u) \subseteq Nodes \cup {NoNode}
      BY <1>3, <3>3, <3>4 DEF s, OnceAt, SlotsOf, NodesOf
    <3>6. ASSUME NEW m \in Nodes PROVE m \in SlotsOf(u) <=> m \in SlotsOf(s) /\ m # n
      <4>1. m # NoNode
        BY <1>3 DEF Nd, NoNode
      <4> QED BY <3>3, <3>4, <4>1 DEF SlotsOf, NodesOf
    <3>7. subs' \in [Contexts -> Seq(Nd \cup {NoNode})] /\ \A y \in Contexts : subs'[y] = IF y = x THEN u ELSE subs[y]
      BY <1>3, <3>1, <3>3
    <3>8. \A m \in Nodes, y \in Contexts : <<m, y>> \in G <=> m = n /\ y = x
      BY <2>2
    <3> QED BY <1>3, <3>5, <3>6, <3>7, <3>8 DEF s
  <2> QED BY <2>1, <2>2
<1>8. G \in SUBSET Held
  BY <1>4
<1>9. \A m \in Nodes : m # n => left[m] = leaves[m]
  BY <1>3
<1> HIDE DEF G, own, left
<1>10. Loses(G, {n}, left)
  BY <1>1, <1>2, <1>5, <1>6, <1>7, <1>8 DEF Loses
<1>11. \A m \in Nodes : m \notin {n} => left[m] = leaves[m]
  BY <1>9
<1> QED BY <1>10, <1>11

(* Freeing takes all leaves of the contexts that have no id.                *)
LEMMA FreeLoses ==
  ASSUME SubInv, Free
  PROVE  \E G, P, left : Loses(G, P, left) /\ \A n \in Nodes : n \notin P => left[n] = leaves[n]
<1> DEFINE gone == {x \in Contexts : id[x] = None /\ subs[x] # <<>>}
           of(x) == {subs[x][i] : i \in DOMAIN subs[x]}
           found == [n \in Nodes |-> {i \in DOMAIN leaves[n] :
                       leaves[n][i].context \in gone /\ n \in of(leaves[n][i].context)}]
           left == [n \in Nodes |-> Only(leaves[n], DOMAIN leaves[n] \ found[n])]
           P    == {n \in Nodes : \E x \in gone : n \in of(x)}
           G    == {h \in Held : h[2] \in gone}
<1>1. /\ Grow(Pruned(tree, P, left, retained), left, retained)
      /\ subs' = [x \in Contexts |-> IF x \in gone THEN <<>> ELSE subs[x]]
      /\ counts' = [counts EXCEPT !.subscription = @ - Cardinality(PairsIn(found))]
      /\ id' = id
  BY DEF Free
<1>2. /\ leaves \in [Nodes -> Seq(Leaf)] /\ subs \in [Contexts -> Seq(Nd \cup {NoNode})]
      /\ \A m \in Nodes : Once(leaves[m])
      /\ \A y \in Contexts : OnceAt(subs[y]) /\ SlotsOf(subs[y]) \subseteq Nodes \cup {NoNode}
      /\ \A y \in Contexts, m \in Nodes : y \in Holders(leaves[m]) <=> m \in SlotsOf(subs[y])
      /\ Nodes \subseteq Nd /\ IsFiniteSet(Held)
  <2> HIDE DEF gone, of, found, left, P, G
  <2>1. Nodes \subseteq Nd
    BY DEF SubInv, TreeInv, Nodes
  <2> QED BY <2>1 DEF SubInv, TreeInv, LinkInv, CountInv
<1>3. \A n \in Nodes : \A i \in DOMAIN leaves[n] : leaves[n][i].context \in Contexts
  <2> SUFFICES ASSUME NEW n \in Nodes, NEW i \in DOMAIN leaves[n] PROVE leaves[n][i].context \in Contexts
    OBVIOUS
  <2>1. leaves[n] \in Seq(Leaf)
    BY <1>2
  <2>2. leaves[n][i] \in Leaf
    BY <2>1
  <2> QED BY <2>2 DEF Leaf
<1>4. \A x \in Contexts : of(x) = SlotsOf(subs[x])
  BY DEF SlotsOf, NodesOf
<1> HIDE DEF of
<1>5. \A n \in Nodes : found[n] = {i \in DOMAIN leaves[n] : leaves[n][i].context \in gone}
  <2> HIDE DEF gone
  <2> QED BY <1>2, <1>3, <1>4 DEF Holders
<1>6. \A n \in Nodes : found[n] \in SUBSET (DOMAIN leaves[n])
  OBVIOUS
<1>7. \A n \in Nodes, x \in Contexts : <<n, x>> \in G <=> x \in Holders(leaves[n]) /\ x \in gone
  BY DEF Held
<1>8. DOMAIN found = Nodes /\ DOMAIN left = Nodes
      /\ \A n \in Nodes : left[n] = Only(leaves[n], DOMAIN leaves[n] \ found[n])
  OBVIOUS
<1>9. G \in SUBSET Held /\ P \in SUBSET Nd
  BY <1>2
<1>10. gone \in SUBSET Contexts
  OBVIOUS
<1>11. \A n \in Nodes : n \notin P => found[n] = {}
  <2>1. ASSUME NEW n \in Nodes, NEW i \in found[n] PROVE n \in P
    <3>1. leaves[n][i].context \in gone /\ n \in of(leaves[n][i].context)
      OBVIOUS
    <3> HIDE DEF gone
    <3> QED BY <3>1
  <2> HIDE DEF found, P
  <2> QED BY <2>1
<1> HIDE DEF gone, found, left, P, G
<1>12. ASSUME NEW n \in Nodes
       PROVE  /\ left[n] \in Seq(Leaf) /\ Once(left[n])
              /\ \A x \in Contexts : x \in Holders(left[n]) <=> x \in Holders(leaves[n]) /\ <<n, x>> \notin G
  <2> DEFINE K == DOMAIN leaves[n] \ found[n]
  <2>1. leaves[n] \in Seq(Leaf) /\ Once(leaves[n]) /\ K \in SUBSET (DOMAIN leaves[n]) /\ left[n] = Only(leaves[n], K)
    BY <1>2, <1>8
  <2> HIDE DEF K
  <2>2. left[n] \in Seq(Leaf) /\ Once(left[n]) /\ \A x : x \in Holders(left[n]) <=> \E i \in K : leaves[n][i].context = x
    BY <2>1, LeavesLeft
  <2>3. ASSUME NEW x \in Contexts
        PROVE  (\E i \in K : leaves[n][i].context = x) <=> x \in Holders(leaves[n]) /\ x \notin gone
    BY <1>5 DEF K, Holders
  <2> QED BY <1>7, <2>2, <2>3
<1>13. left \in [Nodes -> Seq(Leaf)]
  <2>1. left = [n \in Nodes |-> left[n]]
    BY DEF left
  <2> QED BY <1>12, <2>1
<1>14. Cardinality(PairsIn(found)) = Cardinality(G)
  <2>1. IsFiniteSet(G)
    BY <1>2, <1>9, FS_Subset
  <2>2. found \in [Nodes -> SUBSET Nat] /\ \A n \in Nodes : found[n] \subseteq DOMAIN leaves[n]
    <3>1. \A n \in Nodes : DOMAIN leaves[n] \in SUBSET Nat
      BY <1>2
    <3>2. found = [n \in Nodes |-> found[n]]
      BY DEF found
    <3> QED BY <1>6, <3>1, <3>2
  <2>3. ASSUME NEW n \in Nodes, NEW x \in Contexts
        PROVE  <<n, x>> \in G <=> \E i \in found[n] : leaves[n][i].context = x
    BY <1>5, <1>7 DEF Holders
  <2>4. G \in SUBSET (Nodes \X Contexts)
    BY <1>9 DEF Held
  <2>5. HoldersAt(Nodes, leaves, found, G)
    BY <1>2, <2>1, <2>2, <2>3, <2>4 DEF HoldersAt
  <2> QED BY <2>5, PairsCount
<1>15. subs' \in [Contexts -> Seq(Nd \cup {NoNode})] /\ \A x \in Contexts : subs'[x] = IF x \in gone THEN <<>> ELSE subs[x]
  BY <1>1, <1>2
<1>16. \A x \in Contexts : OnceAt(subs'[x]) /\ SlotsOf(subs'[x]) \subseteq Nodes \cup {NoNode}
  BY <1>2, <1>15 DEF OnceAt, SlotsOf, NodesOf
<1>17. \A x \in Contexts, n \in Nodes : n \in SlotsOf(subs'[x]) <=> n \in SlotsOf(subs[x]) /\ <<n, x>> \notin G
  <2>1. ASSUME NEW x \in Contexts, NEW n \in Nodes, x \in gone
        PROVE  n \notin SlotsOf(subs'[x]) /\ (n \in SlotsOf(subs[x]) => <<n, x>> \in G)
    BY <1>2, <1>7, <1>15, <2>1 DEF SlotsOf, NodesOf
  <2>2. ASSUME NEW x \in Contexts, NEW n \in Nodes, x \notin gone
        PROVE  subs'[x] = subs[x] /\ <<n, x>> \notin G
    BY <1>7, <1>15, <2>2
  <2> QED BY <2>1, <2>2
<1>18. Loses(G, P, left)
  BY <1>1, <1>9, <1>12, <1>13, <1>14, <1>15, <1>16, <1>17 DEF Loses
<1>19. ASSUME NEW n \in Nodes, n \notin P PROVE left[n] = leaves[n]
  <2>1. left[n] = Only(leaves[n], DOMAIN leaves[n])
    BY <1>8, <1>11, <1>19
  <2> QED BY <1>2, <2>1, OnlyAll
<1> QED BY <1>18, <1>19

(* Subscribing: a leaf and a slot come, or the leaf there is gets its QoS.  *)
LEMMA SubscribeKeeps ==
  ASSUME SubInv, NEW x \in Contexts, NEW f \in Filters, NEW qos \in QoS, Subscribe(x, f, qos)
  PROVE  SubInv' /\ \A m \in Nodes : Keeps(m, tree, leaves, retained) => Keeps(m, tree', leaves', retained')
<1> DEFINE n    == LeafNode(f)
           old  == IF n \in Nodes THEN leaves[n] ELSE <<>>
           own  == {i \in DOMAIN old : id[old[i].context] = id[x]}
           new  == IF own # {} THEN [old EXCEPT ![CHOOSE i \in own : TRUE].qos = qos]
                              ELSE Append(old, [context |-> x, qos |-> qos])
           lf   == [m \in Nodes \cup {n} |-> IF m = n THEN new ELSE leaves[m]]
           N    == NodesOf(Added(f))
<1>1. /\ id[x] # None /\ Grow(Added(f), lf, retained)
      /\ subs' = IF own # {} THEN subs ELSE [subs EXCEPT ![x] = Slot(@, n)]
      /\ counts' = IF own # {} THEN counts ELSE [counts EXCEPT !.subscription = @ + 1]
      /\ id' = id
  BY DEF Subscribe
<1> HIDE DEF lf
<1>2. /\ tree' = Added(f) /\ Nodes' = N
      /\ leaves' = [m \in N |-> IF m \in DOMAIN lf THEN lf[m] ELSE <<>>]
      /\ retained' = [m \in N |-> IF m \in DOMAIN retained THEN retained[m] ELSE None]
  BY <1>1, GrowIs
<1>3. /\ tree \in Seq(Nd) /\ ClosedSet(Nodes)
      /\ leaves \in [Nodes -> Seq(Leaf)] /\ retained \in [Nodes -> QoS \cup {None}]
      /\ subs \in [Contexts -> Seq(Nd \cup {NoNode})] /\ id \in [Contexts -> Clients \cup {None}]
      /\ counts \in [subscription : Int, retained : Int]
      /\ \A m \in Nodes : Once(leaves[m])
      /\ \A y \in Contexts : OnceAt(subs[y]) /\ SlotsOf(subs[y]) \subseteq Nodes \cup {NoNode}
      /\ \A y \in Contexts, m \in Nodes : y \in Holders(leaves[m]) <=> m \in SlotsOf(subs[y])
      /\ \A y, z \in Contexts : id[y] = id[z] /\ id[y] # None => y = z
      /\ IsFiniteSet(Held) /\ counts.subscription = Cardinality(Held)
      /\ IsFiniteSet(Retaining) /\ counts.retained = Cardinality(Retaining)
  BY DEF SubInv, TreeInv, LinkInv, CountInv
<1>4. Added(f) \in Seq(Nd) /\ Nodes \subseteq N /\ ClosedSet(N) /\ n \in N /\ n \in Nd
  BY <1>3, AddedIs DEF Strs
<1>5. Nodes \subseteq Nd /\ NoNode \notin Nd
  BY <1>3 DEF Nodes, Nd, NoNode
<1> HIDE DEF n, N
<1>6. old \in Seq(Leaf) /\ Once(old) /\ (n \in Nodes => old = leaves[n])
  BY <1>3 DEF Once
<1>7. \A i \in DOMAIN old : old[i] \in Leaf /\ old[i].context \in Contexts
  <2> SUFFICES ASSUME NEW i \in DOMAIN old PROVE old[i] \in Leaf /\ old[i].context \in Contexts
    OBVIOUS
  <2>1. old[i] \in Leaf
    BY <1>6
  <2> QED BY <2>1 DEF Leaf
<1> HIDE DEF old
<1>8. own = {i \in DOMAIN old : old[i].context = x}
  BY <1>1, <1>3, <1>7
<1>9. own = {} <=> x \notin Holders(old)
  BY <1>8 DEF Holders
<1> HIDE DEF own
<1>10. new \in Seq(Leaf) /\ Once(new) /\ Holders(new) = Holders(old) \cup {x} /\ (old # <<>> => new # <<>>)
  <2>1. CASE own # {}
    <3> DEFINE j == CHOOSE i \in own : TRUE
    <3>1. j \in DOMAIN old /\ old[j].context = x
      BY <1>8, <2>1
    <3> HIDE DEF j
    <3>2. new = [old EXCEPT ![j].qos = qos]
      BY <2>1 DEF j
    <3> HIDE DEF new
    <3>3. [old[j] EXCEPT !.qos = qos] \in Leaf /\ [old[j] EXCEPT !.qos = qos].context = old[j].context
      <4>1. old[j] \in [context : Contexts, qos : QoS]
        BY <1>7, <3>1 DEF Leaf
      <4> QED BY <4>1 DEF Leaf
    <3>4. new \in Seq(Leaf) /\ DOMAIN new = DOMAIN old
      BY <1>6, <3>1, <3>2, <3>3
    <3>5. \A i \in DOMAIN old : new[i].context = old[i].context
      BY <3>1, <3>2, <3>3
    <3>6. x \in Holders(old)
      BY <1>9, <2>1
    <3>7. Once(new) /\ Holders(new) = Holders(old)
      BY <1>6, <3>4, <3>5 DEF Once, Holders
    <3>8. new # <<>>
      BY <3>1, <3>4
    <3> QED BY <3>4, <3>6, <3>7, <3>8
  <2>2. CASE own = {}
    <3> DEFINE l == [context |-> x, qos |-> qos]
    <3>1. l \in Leaf /\ l.context = x
      BY DEF Leaf
    <3>2. new = Append(old, l)
      BY <2>2
    <3> HIDE DEF new, l
    <3>3. new \in Seq(Leaf) /\ DOMAIN new = 1..(Len(old) + 1) /\ Len(old) \in Nat /\ DOMAIN old = 1..Len(old)
      BY <1>6, <3>1, <3>2
    <3>4. \A i \in 1..(Len(old) + 1) : new[i] = IF i = Len(old) + 1 THEN l ELSE old[i]
      BY <1>6, <3>1, <3>2
    <3>5. \A i \in 1..(Len(old) + 1) : i = Len(old) + 1 \/ i \in DOMAIN old
      BY <3>3
    <3>6. Len(old) + 1 \in 1..(Len(old) + 1) /\ \A i \in DOMAIN old : i \in 1..(Len(old) + 1) /\ i # Len(old) + 1
      BY <3>3
    <3>7. x \notin Holders(old)
      BY <1>9, <2>2
    <3>8. Once(new)
      BY <1>6, <3>1, <3>3, <3>4, <3>5, <3>7 DEF Once, Holders
    <3>9. Holders(new) = Holders(old) \cup {x}
      <4>1. ASSUME NEW y PROVE y \in Holders(new) <=> y \in Holders(old) \cup {x}
        BY <3>1, <3>3, <3>4, <3>5, <3>6 DEF Holders
      <4> QED BY <4>1
    <3>10. new # <<>>
      BY <3>3, <3>6
    <3> QED BY <3>3, <3>8, <3>9, <3>10
  <2> QED BY <2>1, <2>2
<1> HIDE DEF new
<1>11. DOMAIN lf = Nodes \cup {n} /\ lf[n] = new /\ \A m \in Nodes : m # n => lf[m] = leaves[m]
  BY DEF lf
<1>12. /\ leaves' \in [N -> Seq(Leaf)] /\ leaves'[n] = new
       /\ \A m \in Nodes : m # n => leaves'[m] = leaves[m]
       /\ \A m \in N : m # n /\ m \notin Nodes => leaves'[m] = <<>>
  <2>1. \A m \in N : (IF m \in DOMAIN lf THEN lf[m] ELSE <<>>) \in Seq(Leaf)
    BY <1>3, <1>10, <1>11
  <2> QED BY <1>2, <1>4, <1>11, <2>1
<1>13. /\ retained' \in [N -> QoS \cup {None}]
       /\ \A m \in Nodes : retained'[m] = retained[m]
       /\ \A m \in N : m \notin Nodes => retained'[m] = None
  BY <1>2, <1>3, <1>4
<1>14. n \in SlotsOf(subs[x]) <=> own # {}
  <2>1. CASE n \in Nodes
    BY <1>3, <1>6, <1>9, <2>1
  <2>2. CASE n \notin Nodes
    <3>1. own = {}
      BY <2>2 DEF own, old
    <3> QED BY <1>3, <1>4, <1>5, <2>2, <3>1
  <2> QED BY <2>1, <2>2
<1>15. /\ subs' \in [Contexts -> Seq(Nd \cup {NoNode})]
       /\ \A y \in Contexts : OnceAt(subs'[y])
       /\ \A y \in Contexts : SlotsOf(subs'[y]) \subseteq SlotsOf(subs[y]) \cup {n}
       /\ \A y \in Contexts, m \in Nd : m \in SlotsOf(subs'[y]) <=> m \in SlotsOf(subs[y]) \/ (m = n /\ y = x)
  <2>1. CASE own # {}
    BY <1>1, <1>3, <1>14, <2>1
  <2>2. CASE own = {}
    <3> DEFINE s == subs[x]
    <3>1. s \in Seq(Nd \cup {NoNode}) /\ (\A i \in DOMAIN s : s[i] # n)
          /\ \A i, j \in DOMAIN s : s[i] = s[j] /\ s[i] # NoNode => i = j
      BY <1>3, <1>14, <2>2 DEF SlotsOf, NodesOf, OnceAt
    <3>2. subs' = [subs EXCEPT ![x] = Slot(s, n)]
      BY <1>1, <1>3, <2>2
    <3> HIDE DEF s
    <3>3. /\ Slot(s, n) \in Seq(Nd \cup {NoNode})
          /\ NodesOf(Slot(s, n)) \subseteq NodesOf(s) \cup {n}
          /\ \A m \in Nd : m \in NodesOf(Slot(s, n)) <=> m \in NodesOf(s) \cup {n}
          /\ \A i, j \in DOMAIN Slot(s, n) : Slot(s, n)[i] = Slot(s, n)[j] /\ Slot(s, n)[i] # NoNode => i = j
      BY <1>4, <3>1, SlotIs
    <3>4. OnceAt(Slot(s, n))
      BY <3>3 DEF OnceAt
    <3>5. subs' \in [Contexts -> Seq(Nd \cup {NoNode})] /\ \A y \in Contexts : subs'[y] = IF y = x THEN Slot(s, n) ELSE subs[y]
      BY <1>3, <3>2, <3>3
    <3> QED BY <1>3, <3>3, <3>4, <3>5 DEF SlotsOf, s
  <2> QED BY <2>1, <2>2
<1>16. TreeInv'
  <2>1. counts' \in [subscription : Int, retained : Int] /\ id' \in [Contexts -> Clients \cup {None}]
    BY <1>1, <1>3
  <2> QED BY <1>2, <1>4, <1>12, <1>13, <1>15, <2>1 DEF TreeInv
<1>17. ASSUME NEW y \in Contexts, NEW m \in N
       PROVE  y \in Holders(leaves'[m]) <=> IF m = n THEN y \in Holders(old) \cup {x}
                                            ELSE m \in Nodes /\ y \in Holders(leaves[m])
  <2>1. Holders(<<>>) = {}
    BY DEF Holders
  <2> QED BY <1>10, <1>12, <2>1
<1>18. LinkInv'
  <2>1. ASSUME NEW m \in N PROVE Once(leaves'[m])
    <3>1. Once(<<>>)
      BY DEF Once
    <3> QED BY <1>3, <1>10, <1>12, <3>1
  <2>2. ASSUME NEW y \in Contexts, NEW m \in N PROVE y \in Holders(leaves'[m]) <=> m \in SlotsOf(subs'[y])
    <3>1. m \in Nd
      <4>1. \A k \in N : k \in Nd
        BY <1>4 DEF N, NodesOf
      <4> QED BY <4>1
    <3>2. m \in SlotsOf(subs'[y]) <=> m \in SlotsOf(subs[y]) \/ (m = n /\ y = x)
      BY <1>15, <3>1
    <3>3. m \in SlotsOf(subs[y]) <=> m \in Nodes /\ y \in Holders(leaves[m])
      BY <1>3, <1>5, <3>1
    <3>4. y \in Holders(old) <=> n \in Nodes /\ y \in Holders(leaves[n])
      <4>1. Holders(<<>>) = {}
        BY DEF Holders
      <4> QED BY <4>1 DEF old
    <3> QED BY <1>17, <3>2, <3>3, <3>4
  <2>3. \A y \in Contexts : SlotsOf(subs'[y]) \subseteq N \cup {NoNode}
    BY <1>3, <1>4, <1>15
  <2> QED BY <1>1, <1>2, <1>3, <1>15, <2>1, <2>2, <2>3 DEF LinkInv
<1>19. CountInv'
  <2>1. \A y \in Contexts : y \in Holders(old) <=> n \in Nodes /\ y \in Holders(leaves[n])
    <3>1. Holders(<<>>) = {}
      BY DEF Holders
    <3> QED BY <3>1 DEF old
  <2>2. Held' = Held \cup {<<n, x>>}
    <3>1. Held' = {h \in N \X Contexts : h[2] \in Holders(leaves'[h[1]])}
      BY <1>2 DEF Held
    <3>2. ASSUME NEW h PROVE h \in Held' <=> h \in Held \cup {<<n, x>>}
      <4>1. CASE h \in N \X Contexts
        <5>1. PICK m \in N, y \in Contexts : h = <<m, y>>
          BY <4>1
        <5>2. h \in Held' <=> y \in Holders(leaves'[m])
          BY <3>1, <5>1
        <5>3. h \in Held <=> m \in Nodes /\ y \in Holders(leaves[m])
          BY <5>1 DEF Held
        <5>4. h = <<n, x>> <=> m = n /\ y = x
          BY <5>1
        <5> QED BY <1>17, <2>1, <5>2, <5>3, <5>4
      <4>2. CASE h \notin N \X Contexts
        BY <1>4, <3>1, <4>2 DEF Held
      <4> QED BY <4>1, <4>2
    <3> QED BY <3>2
  <2>3. <<n, x>> \in Held <=> own # {}
    BY <1>9, <2>1 DEF Held
  <2>4. IsFiniteSet(Held') /\ Cardinality(Held') = IF own # {} THEN Cardinality(Held) ELSE Cardinality(Held) + 1
    BY <1>3, <2>2, <2>3, FS_AddElement
  <2>5. counts'.subscription = (IF own # {} THEN counts.subscription ELSE counts.subscription + 1)
        /\ counts'.retained = counts.retained
    BY <1>1, <1>3
  <2>6. Retaining' = Retaining
    <3>1. Retaining' = {m \in N : retained'[m] # None}
      BY <1>2 DEF Retaining
    <3> QED BY <1>4, <1>13, <3>1 DEF Retaining
  <2> QED BY <1>3, <2>4, <2>5, <2>6 DEF CountInv
<1>20. ASSUME NEW m \in Nodes, Keeps(m, tree, leaves, retained) PROVE Keeps(m, tree', leaves', retained')
  <2>1. NodesOf(tree) \subseteq NodesOf(tree')
    BY <1>2, <1>4 DEF Nodes, NodesOf, N
  <2>2. leaves[m] # <<>> => leaves'[m] # <<>>
    BY <1>6, <1>10, <1>12
  <2>3. retained[m] # None => retained'[m] # None
    BY <1>13
  <2> QED BY <1>20, <2>1, <2>2, <2>3, StaysNeeded
<1> QED BY ONLY <1>16, <1>18, <1>19, <1>20 DEF SubInv

(* Publishing: the nodes of a retained message come, and the message.       *)
LEMMA PublishKeeps ==
  ASSUME SubInv, NEW str \in TopicNames, NEW qos \in QoS, NEW retain \in BOOLEAN, NEW empty \in BOOLEAN,
         Publish(str, qos, retain, empty)
  PROVE  SubInv' /\ \A m \in Nodes :
           Keeps(m, tree, leaves, retained) /\ retained[m] = None => Keeps(m, tree', leaves', retained')
<1> DEFINE n     == LeafNode(str)
           grown == IF retain THEN Added(str) ELSE tree
           had   == n \in Nodes /\ retained[n] # None
           mf    == [m \in Nodes \cup {n} |->
                       IF m = n /\ retain THEN IF empty THEN None ELSE qos
                       ELSE IF m \in Nodes THEN retained[m] ELSE None]
           N     == NodesOf(grown)
<1>1. /\ Grow(grown, leaves, mf)
      /\ counts' = [counts EXCEPT !.retained = @ + RetainedChange(retain, empty, had)]
      /\ subs' = subs /\ id' = id
  BY DEF Publish
<1>2. /\ tree \in Seq(Nd) /\ ClosedSet(Nodes)
      /\ leaves \in [Nodes -> Seq(Leaf)] /\ retained \in [Nodes -> QoS \cup {None}]
      /\ subs \in [Contexts -> Seq(Nd \cup {NoNode})] /\ id \in [Contexts -> Clients \cup {None}]
      /\ counts \in [subscription : Int, retained : Int]
      /\ \A m \in Nodes : Once(leaves[m])
      /\ \A y \in Contexts : OnceAt(subs[y]) /\ SlotsOf(subs[y]) \subseteq Nodes \cup {NoNode}
      /\ \A y \in Contexts, m \in Nodes : y \in Holders(leaves[m]) <=> m \in SlotsOf(subs[y])
      /\ \A y, z \in Contexts : id[y] = id[z] /\ id[y] # None => y = z
      /\ IsFiniteSet(Held) /\ counts.subscription = Cardinality(Held)
      /\ IsFiniteSet(Retaining) /\ counts.retained = Cardinality(Retaining)
  BY DEF SubInv, TreeInv, LinkInv, CountInv
<1>3. DOMAIN mf = Nodes \cup {n} /\ \A m \in Nodes \cup {n} :
        mf[m] = IF m = n /\ retain THEN IF empty THEN None ELSE qos
                ELSE IF m \in Nodes THEN retained[m] ELSE None
  OBVIOUS
<1> HIDE DEF mf
<1>4. /\ tree' = grown /\ Nodes' = N
      /\ leaves' = [m \in N |-> IF m \in DOMAIN leaves THEN leaves[m] ELSE <<>>]
      /\ retained' = [m \in N |-> IF m \in DOMAIN mf THEN mf[m] ELSE None]
  BY <1>1, GrowIs
<1>5. Nodes = NodesOf(tree)
  BY DEF Nodes, NodesOf
<1>6. grown \in Seq(Nd) /\ Nodes \subseteq N /\ ClosedSet(N) /\ (retain => n \in N) /\ (~retain => N = Nodes)
  <2>1. Added(str) \in Seq(Nd) /\ Nodes \subseteq NodesOf(Added(str)) /\ ClosedSet(NodesOf(Added(str)))
        /\ n \in NodesOf(Added(str))
    BY <1>2, AddedIs DEF Strs
  <2> HIDE DEF n
  <2> QED BY <1>2, <1>5, <2>1
<1>7. Nodes \subseteq Nd /\ NoNode \notin Nd /\ N \subseteq Nd
  BY <1>2, <1>6 DEF Nodes, Nd, NoNode, NodesOf
<1> HIDE DEF n, N, grown
<1>8. /\ leaves' \in [N -> Seq(Leaf)]
      /\ \A m \in Nodes : leaves'[m] = leaves[m]
      /\ \A m \in N : m \notin Nodes => leaves'[m] = <<>>
  BY <1>2, <1>4, <1>6
<1>9. /\ retained' \in [N -> QoS \cup {None}]
      /\ \A m \in N : retained'[m] = IF m = n /\ retain THEN IF empty THEN None ELSE qos
                                      ELSE IF m \in Nodes THEN retained[m] ELSE None
  <2>1. \A m \in N : (IF m \in DOMAIN mf THEN mf[m] ELSE None)
          = IF m = n /\ retain THEN IF empty THEN None ELSE qos
            ELSE IF m \in Nodes THEN retained[m] ELSE None
    BY <1>3
  <2>2. \A m \in N : (IF m \in DOMAIN mf THEN mf[m] ELSE None) \in QoS \cup {None}
    BY <1>2, <2>1
  <2> QED BY <1>4, <2>1, <2>2
<1>10. TreeInv'
  <2>1. counts' \in [subscription : Int, retained : Int] /\ id' \in [Contexts -> Clients \cup {None}]
    BY <1>1, <1>2 DEF RetainedChange
  <2> QED BY <1>1, <1>2, <1>4, <1>6, <1>8, <1>9, <2>1 DEF TreeInv
<1>11. Holders(<<>>) = {} /\ Once(<<>>)
  BY DEF Holders, Once
<1>12. LinkInv'
  <2>1. ASSUME NEW y \in Contexts, NEW m \in N PROVE y \in Holders(leaves'[m]) <=> m \in SlotsOf(subs'[y])
    BY <1>1, <1>2, <1>7, <1>8, <1>11
  <2>2. \A m \in N : Once(leaves'[m])
    BY <1>2, <1>8, <1>11
  <2>3. \A y \in Contexts : OnceAt(subs'[y]) /\ SlotsOf(subs'[y]) \subseteq N \cup {NoNode}
    BY <1>1, <1>2, <1>6
  <2> QED BY <1>1, <1>2, <1>4, <2>1, <2>2, <2>3 DEF LinkInv
<1>13. CountInv'
  <2>1. Held' = Held
    <3>1. Held' = {h \in N \X Contexts : h[2] \in Holders(leaves'[h[1]])}
      BY <1>4 DEF Held
    <3> QED BY <1>6, <1>8, <1>11, <3>1 DEF Held
  <2>2. Retaining' = {m \in N : retained'[m] # None}
    BY <1>4 DEF Retaining
  <2>3. had <=> n \in Retaining
    BY DEF Retaining
  <2> HIDE DEF had
  <2>4. None \notin QoS
    BY SubTreeAssumption DEF None
  <2>5. counts'.subscription = counts.subscription /\ counts'.retained = counts.retained + RetainedChange(retain, empty, had)
    BY <1>1, <1>2
  <2>6. CASE ~retain
    <3>1. Retaining' = Retaining
      BY <1>6, <1>9, <2>2, <2>6 DEF Retaining
    <3>2. RetainedChange(retain, empty, had) = 0
      BY <2>6 DEF RetainedChange
    <3> QED BY <1>2, <2>1, <2>5, <3>1, <3>2 DEF CountInv
  <2>7. CASE retain /\ empty
    <3>1. Retaining' = Retaining \ {n}
      BY <1>6, <1>9, <2>2, <2>7 DEF Retaining
    <3>2. RetainedChange(retain, empty, had) = IF n \in Retaining THEN -1 ELSE 0
      BY <2>3, <2>7 DEF RetainedChange
    <3>3. IsFiniteSet(Retaining \ {n})
          /\ Cardinality(Retaining \ {n}) = IF n \in Retaining THEN Cardinality(Retaining) - 1 ELSE Cardinality(Retaining)
      BY <1>2, FS_RemoveElement
    <3> QED BY <1>2, <2>1, <2>5, <3>1, <3>2, <3>3 DEF CountInv
  <2>8. CASE retain /\ ~empty
    <3>1. Retaining' = Retaining \cup {n}
      BY <1>6, <1>9, <2>2, <2>4, <2>8 DEF Retaining
    <3>2. RetainedChange(retain, empty, had) = IF n \in Retaining THEN 0 ELSE 1
      BY <2>3, <2>8 DEF RetainedChange
    <3>3. IsFiniteSet(Retaining \cup {n})
          /\ Cardinality(Retaining \cup {n}) = IF n \in Retaining THEN Cardinality(Retaining) ELSE Cardinality(Retaining) + 1
      BY <1>2, FS_AddElement
    <3> QED BY <1>2, <2>1, <2>5, <3>1, <3>2, <3>3 DEF CountInv
  <2> QED BY <2>6, <2>7, <2>8
<1>14. ASSUME NEW m \in Nodes, Keeps(m, tree, leaves, retained), retained[m] = None
       PROVE  Keeps(m, tree', leaves', retained')
  <2>1. NodesOf(tree) \subseteq NodesOf(tree')
    BY <1>4, <1>5, <1>6 DEF N
  <2>2. leaves[m] # <<>> => leaves'[m] # <<>>
    BY <1>8
  <2> QED BY <1>14, <2>1, <2>2, StaysNeeded
<1> QED BY <1>10, <1>12, <1>13, <1>14 DEF SubInv

(* A node is needed as before when nodes and messages stay and the lists    *)
(* are empty at the same nodes.                                             *)
LEMMA NeededAlike ==
  ASSUME NEW n, tree' = tree, retained' = retained, leaves'[n] = <<>> => leaves[n] = <<>>,
         Keeps(n, tree, leaves, retained)
  PROVE  Keeps(n, tree', leaves', retained')
BY DEF Keeps

(* A takeover that moves the subscriptions: each leaf of the one context is *)
(* one of the other after it.                                               *)
LEMMA MoveKeeps ==
  ASSUME SubInv, NEW c \in Clients, NEW x \in Contexts, NEW y \in Contexts,
         id[x] = None, subs[x] = <<>>, id[y] = c,
         id' = [id EXCEPT ![x] = c, ![y] = None],
         subs' = [subs EXCEPT ![x] = subs[y], ![y] = <<>>],
         leaves' = [n \in Nodes |->
           IF \E i \in DOMAIN subs[y] : subs[y][i] = n THEN Renamed(leaves[n], y, x) ELSE leaves[n]],
         UNCHANGED <<tree, retained, counts>>
  PROVE  SubInv' /\ \A m \in Nodes : Keeps(m, tree, leaves, retained) => Keeps(m, tree', leaves', retained')
<1>1. /\ tree \in Seq(Nd) /\ ClosedSet(Nodes)
      /\ leaves \in [Nodes -> Seq(Leaf)] /\ retained \in [Nodes -> QoS \cup {None}]
      /\ subs \in [Contexts -> Seq(Nd \cup {NoNode})] /\ id \in [Contexts -> Clients \cup {None}]
      /\ counts \in [subscription : Int, retained : Int]
      /\ \A m \in Nodes : Once(leaves[m])
      /\ \A z \in Contexts : OnceAt(subs[z]) /\ SlotsOf(subs[z]) \subseteq Nodes \cup {NoNode}
      /\ \A z \in Contexts, m \in Nodes : z \in Holders(leaves[m]) <=> m \in SlotsOf(subs[z])
      /\ \A z, v \in Contexts : id[z] = id[v] /\ id[z] # None => z = v
      /\ IsFiniteSet(Held) /\ counts.subscription = Cardinality(Held)
      /\ IsFiniteSet(Retaining) /\ counts.retained = Cardinality(Retaining)
  BY DEF SubInv, TreeInv, LinkInv, CountInv
<1>2. c # None /\ x # y
  BY SubTreeAssumption
<1>3. Nodes' = Nodes
  BY DEF Nodes
<1>4. /\ subs' \in [Contexts -> Seq(Nd \cup {NoNode})]
      /\ \A z \in Contexts : subs'[z] = IF z = x THEN subs[y] ELSE IF z = y THEN <<>> ELSE subs[z]
  BY <1>1, <1>2
<1>5. /\ id' \in [Contexts -> Clients \cup {None}]
      /\ \A z \in Contexts : id'[z] = IF z = x THEN c ELSE IF z = y THEN None ELSE id[z]
  BY <1>1, <1>2
<1>6. SlotsOf(<<>>) = {} /\ OnceAt(<<>>)
  BY DEF SlotsOf, NodesOf, OnceAt
<1>7. \A m \in Nodes : x \notin Holders(leaves[m])
  BY <1>1, <1>6
<1>8. \A m \in Nodes : leaves'[m] = IF y \in Holders(leaves[m]) THEN Renamed(leaves[m], y, x) ELSE leaves[m]
  <2>1. \A m \in Nodes : (\E i \in DOMAIN subs[y] : subs[y][i] = m) <=> y \in Holders(leaves[m])
    BY <1>1 DEF SlotsOf, NodesOf
  <2> QED BY <2>1
<1>9. ASSUME NEW m \in Nodes
      PROVE  /\ leaves'[m] \in Seq(Leaf) /\ Once(leaves'[m]) /\ (leaves'[m] = <<>> => leaves[m] = <<>>)
             /\ \A z \in Contexts : z \in Holders(leaves'[m]) <=>
                  IF z = x THEN y \in Holders(leaves[m]) ELSE z # y /\ z \in Holders(leaves[m])
  <2> DEFINE s == leaves[m]
             r == Renamed(s, y, x)
  <2>1. s \in Seq(Leaf) /\ Once(s) /\ x \notin Holders(s)
    BY <1>1, <1>7
  <2> HIDE DEF s
  <2>2. ASSUME NEW i \in DOMAIN s
        PROVE  /\ r[i] \in Leaf
               /\ r[i].context = IF s[i].context = y THEN x ELSE s[i].context
    <3>0. s[i] \in Leaf
      BY <2>1
    <3>1. s[i] \in [context : Contexts, qos : QoS]
      BY <3>0 DEF Leaf
    <3>2. r[i] = IF s[i].context = y THEN [s[i] EXCEPT !.context = x] ELSE s[i]
      BY DEF Renamed
    <3> HIDE DEF r
    <3> QED BY <3>1, <3>2 DEF Leaf
  <2>3. DOMAIN r = DOMAIN s /\ r = [i \in DOMAIN s |-> r[i]]
    BY DEF Renamed
  <2> HIDE DEF r
  <2>4. r \in Seq(Leaf) /\ (r = <<>> => s = <<>>)
    <3>1. DOMAIN s = 1..Len(s) /\ Len(s) \in Nat
      BY <2>1
    <3>2. r \in Seq(Leaf) /\ Len(r) = Len(s)
      BY <2>2, <2>3, <3>1
    <3> QED BY <2>1, <3>2
  <2>5. Once(r)
    BY <2>1, <2>2, <2>3 DEF Once, Holders
  <2>6. \A z \in Contexts : z \in Holders(r) <=> IF z = x THEN y \in Holders(s) ELSE z # y /\ z \in Holders(s)
    <3>1. \A z : z \in Holders(r) <=> \E i \in DOMAIN s : (IF s[i].context = y THEN x ELSE s[i].context) = z
      BY ONLY <2>2, <2>3 DEF Holders
    <3>2. \A i \in DOMAIN s : s[i].context # x
      BY <2>1 DEF Holders
    <3>3. y \in Holders(s) <=> \E i \in DOMAIN s : s[i].context = y
      BY DEF Holders
    <3>4. \A z : z \in Holders(s) <=> \E i \in DOMAIN s : s[i].context = z
      BY DEF Holders
    <3> QED BY ONLY <1>2, <3>1, <3>2, <3>3, <3>4
  <2>7. CASE y \in Holders(s)
    <3>1. leaves'[m] = r
      BY <1>8, <2>7 DEF s, r
    <3> QED BY <2>4, <2>5, <2>6, <3>1 DEF s
  <2>8. CASE y \notin Holders(s)
    <3>1. leaves'[m] = s
      BY <1>8, <2>8 DEF s
    <3> QED BY <2>1, <2>8, <3>1 DEF s
  <2> QED BY <2>7, <2>8
<1>10. TreeInv'
  <2>1. leaves' \in [Nodes -> Seq(Leaf)]
    <3>1. leaves' = [m \in Nodes |-> leaves'[m]]
      OBVIOUS
    <3> QED BY <1>9, <3>1
  <2> QED BY <1>1, <1>3, <1>4, <1>5, <2>1 DEF TreeInv
<1>11. LinkInv'
  <2>1. \A z \in Contexts : OnceAt(subs'[z]) /\ SlotsOf(subs'[z]) \subseteq Nodes \cup {NoNode}
    BY <1>1, <1>4, <1>6
  <2>2. ASSUME NEW z \in Contexts, NEW m \in Nodes PROVE z \in Holders(leaves'[m]) <=> m \in SlotsOf(subs'[z])
    <3>1. z \in Holders(leaves'[m]) <=> IF z = x THEN y \in Holders(leaves[m]) ELSE z # y /\ z \in Holders(leaves[m])
      BY <1>9
    <3>2. subs'[z] = IF z = x THEN subs[y] ELSE IF z = y THEN <<>> ELSE subs[z]
      BY <1>4
    <3> QED BY <1>1, <1>2, <1>6, <3>1, <3>2
  <2>3. \A z, v \in Contexts : id'[z] = id'[v] /\ id'[z] # None => z = v
    BY <1>1, <1>2, <1>5
  <2> QED BY <1>3, <1>9, <2>1, <2>2, <2>3 DEF LinkInv
<1>12. CountInv'
  <2> DEFINE to(z) == IF z = y THEN x ELSE z
             F     == [h \in Held |-> <<h[1], to(h[2])>>]
  <2>1. \A m \in Nodes, z \in Contexts : <<m, z>> \in Held <=> z \in Holders(leaves[m])
    BY DEF Held
  <2>2. \A m \in Nodes, z \in Contexts : <<m, z>> \in Held' <=> z \in Holders(leaves'[m])
    BY <1>3 DEF Held
  <2>3. Held \subseteq Nodes \X Contexts /\ Held' \subseteq Nodes \X Contexts
    BY <1>3 DEF Held
  <2>4. ASSUME NEW h \in Held
        PROVE  /\ h[1] \in Nodes /\ h[2] \in Contexts /\ h = <<h[1], h[2]>> /\ h[2] # x
               /\ F[h] = <<h[1], to(h[2])>> /\ F[h] \in Held'
    <3>1. h[1] \in Nodes /\ h[2] \in Contexts /\ h = <<h[1], h[2]>>
      BY <2>3
    <3>2. h[2] \in Holders(leaves[h[1]]) /\ h[2] # x
      BY <1>7, <2>1, <3>1
    <3>3. to(h[2]) \in Contexts /\ to(h[2]) \in Holders(leaves'[h[1]])
      BY <1>9, <3>1, <3>2
    <3>4. <<h[1], to(h[2])>> \in Held'
      BY <2>2, <3>1, <3>3
    <3>5. F[h] = <<h[1], to(h[2])>>
      OBVIOUS
    <3> QED BY <3>1, <3>2, <3>4, <3>5
  <2>5. F \in [Held -> Held']
    <3>1. F = [h \in Held |-> F[h]]
      OBVIOUS
    <3> HIDE DEF F
    <3> QED BY <2>4, <3>1
  <2> HIDE DEF F
  <2>6. F \in Injection(Held, Held')
    <3>1. ASSUME NEW g \in Held, NEW h \in Held, F[g] = F[h] PROVE g = h
      <4>1. g[1] = h[1] /\ to(g[2]) = to(h[2])
        BY <2>4, <3>1
      <4>2. g[2] = h[2]
        BY <2>4, <4>1
      <4> QED BY <2>4, <4>1, <4>2
    <3> QED BY <2>5, <3>1 DEF Injection, IsInjective
  <2>7. F \in Surjection(Held, Held')
    <3>1. ASSUME NEW g \in Held' PROVE \E h \in Held : F[h] = g
      <4>1. g[1] \in Nodes /\ g[2] \in Contexts /\ g = <<g[1], g[2]>>
        BY <2>3
      <4>2. g[2] \in Holders(leaves'[g[1]])
        BY <2>2, <4>1
      <4> DEFINE z == IF g[2] = x THEN y ELSE g[2]
      <4>3. z \in Contexts /\ z \in Holders(leaves[g[1]]) /\ to(z) = g[2]
        BY <1>9, <4>1, <4>2
      <4> HIDE DEF z, to
      <4>4. <<g[1], z>> \in Held
        BY <2>1, <4>1, <4>3
      <4>5. F[<<g[1], z>>] = g
        BY <2>4, <4>1, <4>3, <4>4
      <4> QED BY <4>4, <4>5
    <3> QED BY <2>5, <3>1 DEF Surjection
  <2>8. IsFiniteSet(Held') /\ Cardinality(Held') = Cardinality(Held)
    <3>1. ExistsBijection(Held, Held')
      BY <2>6, <2>7 DEF ExistsBijection, Bijection
    <3> QED BY <1>1, <3>1, FS_Bijection
  <2>9. Retaining' = Retaining
    BY <1>3 DEF Retaining
  <2> QED BY <1>1, <2>8, <2>9 DEF CountInv
<1>13. \A m \in Nodes : Keeps(m, tree, leaves, retained) => Keeps(m, tree', leaves', retained')
  BY <1>9, NeededAlike
<1> QED BY <1>10, <1>11, <1>12, <1>13 DEF SubInv

(* Contexts that get or lose an id, with what they have in the tree.        *)
LEMMA RenameKeeps ==
  ASSUME SubInv, id' \in [Contexts -> Clients \cup {None}],
         \A x, y \in Contexts : id'[x] = id'[y] /\ id'[x] # None => x = y,
         UNCHANGED <<tree, leaves, retained, subs, counts>>
  PROVE  SubInv' /\ \A m \in Nodes : Keeps(m, tree, leaves, retained) => Keeps(m, tree', leaves', retained')
<1>1. Nodes' = Nodes /\ Held' = Held /\ Retaining' = Retaining
  BY DEF Nodes, Held, Retaining
<1>2. TreeInv' /\ CountInv'
  BY <1>1 DEF SubInv, TreeInv, CountInv
<1>3. LinkInv'
  BY <1>1 DEF SubInv, LinkInv
<1>4. \A m \in Nodes : Keeps(m, tree, leaves, retained) => Keeps(m, tree', leaves', retained')
  OBVIOUS
<1> QED BY <1>2, <1>3, <1>4 DEF SubInv

(* A client that connects.                                                  *)
LEMMA ConnectKeeps ==
  ASSUME SubInv, NEW c \in Clients, NEW x \in Contexts, Connect(c, x)
  PROVE  SubInv' /\ \A m \in Nodes : Keeps(m, tree, leaves, retained) => Keeps(m, tree', leaves', retained')
<1> DEFINE found == {y \in Contexts : id[y] = c}
           old   == CHOOSE y \in found : TRUE
<1>1. PICK moves \in BOOLEAN :
        IF found # {} /\ moves
        THEN /\ id' = [id EXCEPT ![x] = c, ![old] = None]
             /\ subs' = [subs EXCEPT ![x] = subs[old], ![old] = <<>>]
             /\ leaves' = [n \in Nodes |->
                  IF \E i \in DOMAIN subs[old] : subs[old][i] = n
                  THEN Renamed(leaves[n], old, x) ELSE leaves[n]]
             /\ UNCHANGED <<tree, retained, counts>>
        ELSE /\ id' = [z \in Contexts |-> IF z = x THEN c ELSE IF z \in found THEN None ELSE id[z]]
             /\ UNCHANGED <<tree, leaves, retained, subs, counts>>
  BY DEF Connect
<1>2. id[x] = None /\ subs[x] = <<>>
  BY DEF Connect
<1>3. id \in [Contexts -> Clients \cup {None}] /\ \A y, z \in Contexts : id[y] = id[z] /\ id[y] # None => y = z
  BY DEF SubInv, TreeInv, LinkInv
<1>4. CASE found # {} /\ moves
  <2>1. old \in found
    BY <1>4
  <2>2. old \in Contexts /\ id[old] = c
    BY <2>1
  <2> HIDE DEF old, found
  <2> QED BY <1>1, <1>2, <1>4, <2>2, MoveKeeps
<1>5. CASE ~(found # {} /\ moves)
  <2>1. id' = [z \in Contexts |-> IF z = x THEN c ELSE IF id[z] = c THEN None ELSE id[z]]
        /\ UNCHANGED <<tree, leaves, retained, subs, counts>>
    BY <1>1, <1>5
  <2>2. id' \in [Contexts -> Clients \cup {None}]
    BY <1>3, <2>1
  <2>3. \A y, z \in Contexts : id'[y] = id'[z] /\ id'[y] # None => y = z
    BY <1>3, <2>1
  <2> HIDE DEF old, found
  <2> QED BY <2>1, <2>2, <2>3, RenameKeeps
<1> QED BY <1>4, <1>5

(* A context that loses its id.                                             *)
LEMMA DiscardKeeps ==
  ASSUME SubInv, NEW x \in Contexts, Discard(x)
  PROVE  SubInv' /\ \A m \in Nodes : Keeps(m, tree, leaves, retained) => Keeps(m, tree', leaves', retained')
<1>1. id' = [id EXCEPT ![x] = None] /\ UNCHANGED <<tree, leaves, retained, subs, counts>>
  BY DEF Discard
<1>2. id \in [Contexts -> Clients \cup {None}] /\ \A y, z \in Contexts : id[y] = id[z] /\ id[y] # None => y = z
  BY DEF SubInv, TreeInv, LinkInv
<1>3. id' \in [Contexts -> Clients \cup {None}]
  BY <1>1, <1>2
<1>4. \A y, z \in Contexts : id'[y] = id'[z] /\ id'[y] # None => y = z
  BY <1>1, <1>2
<1> QED BY <1>1, <1>3, <1>4, RenameKeeps

(* Every step keeps the invariant, and leaves no node without a need that   *)
(* had one, unless a message was retained there.                            *)
Needed == \A m \in Nodes' : m \in Nodes /\ Keeps(m, tree, leaves, retained) /\ retained[m] = None
                              => Keeps(m, tree', leaves', retained')

LEMMA SubSteps ==
  ASSUME SubInv, [Next]_vars
  PROVE  SubInv' /\ Needed
<1>1. ASSUME NEW x \in Contexts, NEW f \in Filters, Unsubscribe(x, f) PROVE SubInv' /\ Needed
  <2>1. PICK G, P, left : Loses(G, P, left) /\ \A n \in Nodes : n \notin P => left[n] = leaves[n]
    BY <1>1, UnsubscribeLoses
  <2>2. SubInv' /\ \A n \in Nodes' : ~Keeps(n, tree', leaves', retained') => ~Keeps(n, tree, leaves, retained)
    BY <2>1, LosesKeeps, LosesPrunes
  <2> QED BY <2>2 DEF Needed
<1>2. ASSUME NEW x \in Contexts, NEW f \in Filters, NEW qos \in QoS, Subscribe(x, f, qos) PROVE SubInv' /\ Needed
  <2>1. SubInv' /\ \A m \in Nodes : Keeps(m, tree, leaves, retained) => Keeps(m, tree', leaves', retained')
    BY <1>2, SubscribeKeeps
  <2> QED BY <2>1 DEF Needed
<1>3. ASSUME NEW x \in Contexts, Discard(x) PROVE SubInv' /\ Needed
  <2>1. SubInv' /\ \A m \in Nodes : Keeps(m, tree, leaves, retained) => Keeps(m, tree', leaves', retained')
    BY <1>3, DiscardKeeps
  <2> QED BY <2>1 DEF Needed
<1>4. ASSUME NEW x \in Contexts, NEW c \in Clients, Connect(c, x) PROVE SubInv' /\ Needed
  <2>1. SubInv' /\ \A m \in Nodes : Keeps(m, tree, leaves, retained) => Keeps(m, tree', leaves', retained')
    BY <1>4, ConnectKeeps
  <2> QED BY <2>1 DEF Needed
<1>5. ASSUME NEW str \in TopicNames, NEW qos \in QoS, NEW retain \in BOOLEAN, NEW empty \in BOOLEAN,
             Publish(str, qos, retain, empty)
      PROVE  SubInv' /\ Needed
  <2>1. SubInv' /\ \A m \in Nodes :
           Keeps(m, tree, leaves, retained) /\ retained[m] = None => Keeps(m, tree', leaves', retained')
    BY <1>5, PublishKeeps
  <2> QED BY <2>1 DEF Needed
<1>6. ASSUME Free PROVE SubInv' /\ Needed
  <2>1. PICK G, P, left : Loses(G, P, left) /\ \A n \in Nodes : n \notin P => left[n] = leaves[n]
    BY <1>6, FreeLoses
  <2>2. SubInv' /\ \A n \in Nodes' : ~Keeps(n, tree', leaves', retained') => ~Keeps(n, tree, leaves, retained)
    BY <2>1, LosesKeeps, LosesPrunes
  <2> QED BY <2>2 DEF Needed
<1>7. CASE UNCHANGED vars
  <2>1. SubInv' /\ \A m \in Nodes : Keeps(m, tree, leaves, retained) => Keeps(m, tree', leaves', retained')
    BY <1>7, RenameKeeps DEF vars, SubInv, TreeInv, LinkInv
  <2> QED BY <2>1 DEF Needed
<1> QED BY <1>1, <1>2, <1>3, <1>4, <1>5, <1>6, <1>7 DEF Next

-----------------------------------------------------------------------------
(* The theorems.                                                            *)

(* Through subscriptions, takeovers, pruning and the end of contexts, the   *)
(* nodes a context refers to exist, are those with a leaf of it, once each, *)
(* and a client that is alive has one leaf at a node: sub__clean_session    *)
(* and the takeover in handle__connect reach every leaf and no freed node.  *)
THEOREM ReferencesMatch == Spec => []BackReferences
<1>1. Init => SubInv
  BY InitSub
<1>2. SubInv /\ [Next]_vars => SubInv'
  BY SubSteps
<1>3. SubInv => BackReferences
  BY SubInvRefers
<1> QED BY <1>1, <1>2, <1>3, PTL DEF Spec

(* db->subscription_count and db->retained_count are the leaves and the     *)
(* retained messages that the tree holds, whoever changes it.               *)
THEOREM CountsAlwaysExact == Spec => []CountsExact
<1>1. Init => SubInv
  BY InitSub
<1>2. SubInv /\ [Next]_vars => SubInv'
  BY SubSteps
<1>3. SubInv => CountsExact
  BY SubInvCounts
<1> QED BY <1>1, <1>2, <1>3, PTL DEF Spec

(* Only a message that clears a retained one leaves a branch that nothing   *)
(* needs: whoever takes the last leaf prunes the way up.                    *)
THEOREM BranchesArePruned == Spec => PrunesBranches
<1>1. Init => SubInv
  BY InitSub
<1>2. SubInv /\ [Next]_vars => SubInv'
  BY SubSteps
<1>3. SubInv /\ [Next]_vars => [\A n \in Unused' \ Unused : n \in Nodes => retained[n] # None]_vars
  <2> SUFFICES ASSUME SubInv, [Next]_vars, NEW n \in Unused' \ Unused, n \in Nodes PROVE retained[n] # None
    OBVIOUS
  <2>1. Needed
    BY SubSteps
  <2>2. n \in Nodes' /\ ~Keeps(n, tree', leaves', retained') /\ Keeps(n, tree, leaves, retained)
    BY DEF Unused
  <2> QED BY <2>1, <2>2 DEF Needed
<1> QED BY <1>1, <1>2, <1>3, PTL DEF Spec, PrunesBranches
=============================================================================
