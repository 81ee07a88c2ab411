----------------------------- MODULE PacketsProofs --------------------------
(***************************************************************************)
(* Theorems about module Packets: that it implements Channel, and that the *)
(* reader never refuses a length, for any base, bound of the length,       *)
(* packets and capacity of the socket.                                     *)
(***************************************************************************)
EXTENDS Packets, TLAPS, NaturalsInduction, WellFoundedInduction, SequenceTheorems

-----------------------------------------------------------------------------
(* Arithmetic.                                                              *)

(* A division by the base.                                                  *)
LEMMA Division ==
  ASSUME NEW b \in Nat \ {0}, NEW x \in Nat
  PROVE  /\ x \div b \in Nat /\ x % b \in 0..(b - 1)
         /\ x = b * (x \div b) + (x % b)
<1>1. x \div b \in Int /\ x % b \in Int
  OBVIOUS
<1>2. x \div b \in Nat /\ x % b \in 0..(b - 1)
  OBVIOUS
<1>3. ASSUME NEW y \in Int, NEW z \in Int, y = x \div b, z = x % b PROVE x = b * y + z
  BY <1>3, SMT
<1> QED BY <1>1, <1>2, <1>3

(* The top bit of a byte is no part of its digit.                           *)
LEMMA TopBit ==
  ASSUME NEW b \in Nat \ {0}, NEW d \in 0..(b - 1)
  PROVE  d % b = d /\ (d + b) % b = d
OBVIOUS

(* A place within n behind a.                                               *)
LEMMA Fits ==
  ASSUME NEW a \in Nat, NEW n \in Nat, NEW c \in Nat, a + n <= c, NEW k \in 1..n
  PROVE  a + k \in 1..c
OBVIOUS

(* What the reader knows of a length after one more digit: r of it, m the   *)
(* weight of the next digit, x all of it.                                   *)
LEMMA OneDigit ==
  ASSUME NEW b \in Nat, NEW m \in Nat, NEW q \in Nat, NEW d \in Nat, NEW r \in Nat,
         NEW n \in Nat, NEW x \in Nat, x = b * q + d, r + m * x = n
  PROVE  /\ r + d * m \in Nat /\ m * b \in Nat
         /\ (r + d * m) + (m * b) * q = n
<1>1. r + d * m \in Nat /\ m * b \in Nat
  OBVIOUS
<1>2. m * (b * q + d) = (m * b) * q + d * m
  OBVIOUS
<1>3. m * (b * q + d) \in Nat /\ (m * b) * q \in Nat /\ d * m \in Nat
  OBVIOUS
<1>4. m * x = (m * b) * q + d * m
  BY <1>2
<1> QED BY <1>1, <1>3, <1>4

-----------------------------------------------------------------------------
(* Recursion.                                                               *)

(* A set of naturals that has 0 and is closed under successor has them all. *)
LEMMA SetInduction ==
  ASSUME NEW T \in SUBSET Nat, 0 \in T, \A n \in T : n + 1 \in T
  PROVE  T = Nat
<1> SUFFICES ASSUME T # Nat PROVE FALSE
  OBVIOUS
<1> DEFINE B == Nat \ T
<1>1. B \subseteq Nat /\ B # {}
  OBVIOUS
<1>2. PICK x \in B : \A y \in B : ~(<<y, x>> \in OpToRel(<, Nat))
  <2> HIDE DEF B
  <2> QED BY <1>1, NatLessThanWellFounded, WFMin, Zenon
<1>3. \A y \in B : ~(y < x)
  BY <1>2 DEF OpToRel
<1>4. x # 0 /\ x - 1 \in Nat /\ x - 1 < x
  OBVIOUS
<1>5. x - 1 \in T
  BY <1>3, <1>4
<1> QED BY <1>5, <1>4

(* Min of a set of naturals.                                                *)
LEMMA MinIs ==
  ASSUME NEW K \in SUBSET Nat, K # {}
  PROVE  Min(K) \in K /\ \A y \in K : Min(K) <= y
<1>1. PICK x \in K : \A y \in K : ~(<<y, x>> \in OpToRel(<, Nat))
  BY NatLessThanWellFounded, WFMin, Zenon
<1>2. \A y \in K : ~(y < x)
  BY <1>1 DEF OpToRel
<1>3. \A y \in K : x <= y
  BY <1>2
<1> QED BY <1>3 DEF Min

(* The division of a length by the base, over and over.                     *)
Divides(n, k, f) == f = [i \in 0..k |-> IF i = 0 THEN n ELSE f[i - 1] \div Base]

(* The walk exists, for any number of turns.                                *)
LEMMA DividesExists ==
  ASSUME NEW n
  PROVE  \A k \in Nat : \E f : Divides(n, k, f)
<1> DEFINE T == {k \in Nat : \E f : Divides(n, k, f)}
<1>1. 0 \in T
  <2> DEFINE g == [i \in 0..0 |-> n]
  <2>1. \A i \in 0..0 : g[i] = IF i = 0 THEN n ELSE g[i - 1] \div Base
    OBVIOUS
  <2>2. g = [i \in 0..0 |-> g[i]]
    OBVIOUS
  <2> HIDE DEF g
  <2>3. Divides(n, 0, g)
    BY <2>1, <2>2 DEF Divides
  <2> QED BY <2>3
<1>2. ASSUME NEW k \in T PROVE k + 1 \in T
  <2>1. k \in Nat
    OBVIOUS
  <2>2. PICK f : Divides(n, k, f)
    OBVIOUS
  <2>3. \A i \in 0..k : f[i] = IF i = 0 THEN n ELSE f[i - 1] \div Base
    BY <2>2, Zenon DEF Divides
  <2> DEFINE g == [i \in 0..(k + 1) |-> IF i = k + 1 THEN f[k] \div Base ELSE f[i]]
  <2>4. ASSUME NEW i \in 0..(k + 1)
        PROVE  g[i] = IF i = 0 THEN n ELSE g[i - 1] \div Base
    <3>1. CASE i = k + 1
      <4>1. i - 1 = k /\ k \in 0..(k + 1) /\ k # k + 1 /\ i # 0
        BY <2>1, <3>1
      <4>2. g[i] = f[k] \div Base /\ g[k] = f[k]
        BY <3>1, <4>1
      <4> HIDE DEF g
      <4> QED BY <4>1, <4>2
    <3>2. CASE i # k + 1
      <4>1. i \in 0..k
        BY <2>1, <3>2
      <4>2. i # 0 => i - 1 \in 0..(k + 1) /\ i - 1 # k + 1
        BY <2>1, <4>1
      <4>3. g[i] = f[i] /\ (i # 0 => g[i - 1] = f[i - 1])
        BY <3>2, <4>2
      <4> HIDE DEF g
      <4> QED BY <2>3, <4>1, <4>3
    <3> QED BY <3>1, <3>2
  <2>5. g = [i \in 0..(k + 1) |-> g[i]]
    OBVIOUS
  <2> HIDE DEF g
  <2>6. Divides(n, k + 1, g)
    BY <2>4, <2>5 DEF Divides
  <2> QED BY <2>1, <2>6
<1>3. T = Nat
  <2>1. T \in SUBSET Nat
    OBVIOUS
  <2> HIDE DEF T
  <2> QED BY <1>1, <1>2, <2>1, SetInduction
<1> QED BY <1>3

(* Quotients is that walk, and its values are lengths.                      *)
LEMMA QuotientsAre ==
  ASSUME NEW n \in Nat
  PROVE  /\ \A i \in 0..(MaxCount + 1) : Quotients(n)[i] \in Nat
         /\ Quotients(n)[0] = n
         /\ \A i \in 0..MaxCount : Quotients(n)[i + 1] = Quotients(n)[i] \div Base
<1> DEFINE f == CHOOSE f : Divides(n, MaxCount + 1, f)
<1>1. MaxCount + 1 \in Nat /\ MaxCount \in Nat /\ Base \in Nat \ {0}
  BY PacketsAssumption DEF PacketsAssumption
<1>2. Quotients(n) = f
  BY DEF Quotients, Divides
<1>3. Divides(n, MaxCount + 1, f)
  BY <1>1, DividesExists
<1> HIDE DEF f
<1>4. \A i \in 0..(MaxCount + 1) : f[i] = IF i = 0 THEN n ELSE f[i - 1] \div Base
  BY <1>3, Zenon DEF Divides
<1>5. f[0] = n
  BY <1>1, <1>4
<1>6. ASSUME NEW i \in 0..MaxCount PROVE f[i + 1] = f[i] \div Base
  <2>1. i + 1 \in 0..(MaxCount + 1) /\ i + 1 # 0 /\ (i + 1) - 1 = i
    BY <1>1
  <2> QED BY <1>4, <2>1
<1> DEFINE T == {i \in Nat : i \in 0..(MaxCount + 1) => f[i] \in Nat}
<1>7. 0 \in T
  BY <1>5
<1>8. ASSUME NEW i \in T PROVE i + 1 \in T
  <2>1. SUFFICES ASSUME i + 1 \in 0..(MaxCount + 1) PROVE f[i + 1] \in Nat
    OBVIOUS
  <2>2. i \in 0..MaxCount /\ i \in 0..(MaxCount + 1)
    BY <1>1, <2>1
  <2>3. f[i] \in Nat
    BY <2>2
  <2>4. f[i] \div Base \in Nat
    BY <1>1, <2>3, Division
  <2> QED BY <1>6, <2>2, <2>4
<1>9. T = Nat
  <2>1. T \in SUBSET Nat
    OBVIOUS
  <2> HIDE DEF T
  <2> QED BY <1>7, <1>8, <2>1, SetInduction
<1>10. \A i \in 0..(MaxCount + 1) : f[i] \in Nat
  BY <1>1, <1>9
<1> QED BY <1>2, <1>5, <1>6, <1>10

-----------------------------------------------------------------------------
(* The bytes of a packet.                                                   *)

(* The bytes of a length that is not too long: there is one at least, each  *)
(* but the last says that there is another, and nothing is left then.       *)
Spells(n, s) ==
  /\ s \in Seq(Nat) /\ Len(s) \in 1..MaxCount
  /\ \A i \in 1..Len(s) : /\ s[i] % Base = Quotients(n)[i - 1] % Base
                          /\ s[i] >= Base <=> i < Len(s)
  /\ Quotients(n)[Len(s)] = 0

(* packet__alloc writes such bytes, or refuses the packet.                  *)
LEMMA LengthBytesSpell ==
  ASSUME NEW n \in Nat, ~(Len(LengthBytes(n)) > MaxCount)
  PROVE  Spells(n, LengthBytes(n))
<1> DEFINE left == Quotients(n)
           K == {c \in 1..(MaxCount + 1) : left[c] = 0 \/ c = MaxCount + 1}
           count == Min(K)
           s == LengthBytes(n)
<1>1. MaxCount \in Nat \ {0} /\ Base \in Nat \ {0} /\ Base > 1
  BY PacketsAssumption DEF PacketsAssumption
<1>2. /\ \A i \in 0..(MaxCount + 1) : left[i] \in Nat
      /\ left[0] = n
      /\ \A i \in 0..MaxCount : left[i + 1] = left[i] \div Base
  BY QuotientsAre
<1>3. s = [i \in 1..count |-> (left[i - 1] % Base) + IF left[i] > 0 THEN Base ELSE 0]
  BY DEF LengthBytes
<1> HIDE DEF left, s
<1>4. K \in SUBSET Nat /\ MaxCount + 1 \in K
  BY <1>1
<1>5. count \in K /\ \A y \in K : count <= y
  <2> HIDE DEF K
  <2> QED BY <1>4, MinIs
<1>6. count \in 1..(MaxCount + 1)
  BY <1>5
<1>7. ASSUME NEW i \in 1..count
      PROVE  /\ i - 1 \in 0..(MaxCount + 1) /\ i \in 0..(MaxCount + 1)
             /\ left[i - 1] % Base \in 0..(Base - 1)
             /\ s[i] = (left[i - 1] % Base) + IF left[i] > 0 THEN Base ELSE 0
  <2>1. i - 1 \in 0..(MaxCount + 1) /\ i \in 0..(MaxCount + 1)
    BY <1>1, <1>6
  <2>2. left[i - 1] % Base \in 0..(Base - 1)
    BY <1>1, <1>2, <2>1, Division
  <2> HIDE DEF count
  <2> QED BY <1>3, <2>1, <2>2
<1>8. s \in Seq(Nat) /\ Len(s) = count
  <2>1. \A i \in 1..count : s[i] \in Nat
    BY <1>1, <1>7
  <2>2. s = [i \in 1..count |-> s[i]]
    BY <1>3
  <2>3. count \in Nat
    BY <1>6
  <2> HIDE DEF count
  <2> QED BY <2>1, <2>2, <2>3
<1>9. count \in 1..MaxCount
  <2>1. ~(Len(s) > MaxCount)
    BY DEF s
  <2> HIDE DEF count
  <2> QED BY <1>1, <1>6, <1>8, <2>1
<1>10. left[count] = 0
  <2> HIDE DEF count
  <2> QED BY <1>1, <1>5, <1>9
<1>11. ASSUME NEW i \in 1..count PROVE left[i] > 0 <=> i < count
  <2>1. left[i] \in Nat
    BY <1>2, <1>7
  <2>2. i < count => left[i] # 0
    <3>1. SUFFICES ASSUME i < count, left[i] = 0 PROVE FALSE
      OBVIOUS
    <3>2. i \in K
      <4> HIDE DEF count
      <4> QED BY <1>1, <1>9, <3>1
    <3> HIDE DEF K, count
    <3> QED BY <1>5, <1>9, <3>1, <3>2
  <2>3. ~(i < count) => i = count
    <3> HIDE DEF count
    <3> QED BY <1>9
  <2> HIDE DEF count
  <2> QED BY <1>9, <1>10, <2>1, <2>2, <2>3
<1>12. ASSUME NEW i \in 1..count
       PROVE  s[i] % Base = left[i - 1] % Base /\ (s[i] >= Base <=> i < count)
  <2> DEFINE d == left[i - 1] % Base
  <2>1. d \in 0..(Base - 1) /\ s[i] = d + IF left[i] > 0 THEN Base ELSE 0
    BY <1>7
  <2>2. left[i] > 0 <=> i < count
    BY <1>11
  <2> HIDE DEF d, count
  <2>3. d % Base = d /\ (d + Base) % Base = d
    BY <1>1, <2>1, TopBit
  <2>4. s[i] % Base = d
    BY <1>1, <2>1, <2>3
  <2>5. s[i] >= Base <=> left[i] > 0
    BY <1>1, <2>1
  <2> QED BY <2>2, <2>4, <2>5 DEF d
<1> HIDE DEF count
<1> QED BY <1>8, <1>9, <1>10, <1>12 DEF Spells, left, s

(* One sequence of bytes behind another.                                    *)
LEMMA Behind ==
  ASSUME NEW s \in Seq(Nat), NEW t \in Seq(Nat)
  PROVE  /\ s \o t \in Seq(Nat) /\ Len(s \o t) = Len(s) + Len(t) /\ Len(s) \in Nat /\ Len(t) \in Nat
         /\ \A i \in 1..Len(s) : (s \o t)[i] = s[i]
         /\ \A i \in 1..Len(t) : (s \o t)[Len(s) + i] = t[i]
<1>1. s \o t \in Seq(Nat) /\ Len(s \o t) = Len(s) + Len(t) /\ Len(s) \in Nat /\ Len(t) \in Nat
  OBVIOUS
<1>2. ASSUME NEW i \in 1..Len(s) PROVE (s \o t)[i] = s[i]
  OBVIOUS
<1>3. ASSUME NEW i \in 1..Len(t) PROVE (s \o t)[Len(s) + i] = t[i]
  <2>1. Len(s) + i \in 1..(Len(s) + Len(t)) /\ Len(s) + i > Len(s) /\ (Len(s) + i) - Len(s) = i
    BY <1>1
  <2> QED BY <2>1
<1> QED BY <1>1, <1>2, <1>3

(* The bytes of a packet that was accepted: the command, those of the       *)
(* length, those of the body.                                               *)
Sound(p) == p \in Packets /\ ~TooLong(p)
Count(p) == Len(LengthBytes(Len(p.body)))

(* Where they are found in Bytes.                                           *)
LEMMA BytesAre ==
  ASSUME NEW p, Sound(p)
  PROVE  /\ p = [command |-> p.command, body |-> p.body]
         /\ p.command \in Nat \ {0} /\ p.body \in Seq(Nat) /\ Len(p.body) \in Nat
         /\ Spells(Len(p.body), LengthBytes(Len(p.body)))
         /\ Count(p) \in 1..MaxCount
         /\ Bytes(p) \in Seq(Nat) /\ Len(Bytes(p)) = 1 + Count(p) + Len(p.body)
         /\ Bytes(p)[1] = p.command
         /\ \A i \in 1..Count(p) : Bytes(p)[1 + i] = LengthBytes(Len(p.body))[i]
         /\ \A i \in 1..Len(p.body) : Bytes(p)[1 + Count(p) + i] = p.body[i]
<1> DEFINE s == LengthBytes(Len(p.body))
           b == p.body
           h == <<p.command>>
<1>1. p \in [command: Nat \ {0}, body: Seq(Nat)]
  BY PacketsAssumption DEF PacketsAssumption, Sound
<1>2. p = [command |-> p.command, body |-> p.body] /\ p.command \in Nat \ {0} /\ b \in Seq(Nat)
      /\ Len(b) \in Nat
  BY <1>1
<1>3. Spells(Len(b), s)
  BY <1>2, LengthBytesSpell DEF Sound, TooLong
<1>4. s \in Seq(Nat) /\ Len(s) \in 1..MaxCount
  BY <1>3 DEF Spells
<1>5. MaxCount \in Nat
  BY PacketsAssumption DEF PacketsAssumption
<1>6. Bytes(p) = (h \o s) \o b /\ Count(p) = Len(s)
  BY DEF Bytes, Count
<1>7. h \in Seq(Nat) /\ Len(h) = 1 /\ h[1] = p.command
  BY <1>2
<1> HIDE DEF s, b, h
<1>8. h \o s \in Seq(Nat) /\ Len(h \o s) = 1 + Len(s) /\ (h \o s)[1] = p.command
      /\ \A i \in 1..Len(s) : (h \o s)[1 + i] = s[i]
  <2>1. /\ h \o s \in Seq(Nat) /\ Len(h \o s) = Len(h) + Len(s)
        /\ \A i \in 1..Len(h) : (h \o s)[i] = h[i]
        /\ \A i \in 1..Len(s) : (h \o s)[Len(h) + i] = s[i]
    <3>1. h \in Seq(Nat) /\ s \in Seq(Nat)
      BY <1>4, <1>7
    <3> QED BY <3>1, Behind
  <2> QED BY <1>7, <2>1
<1> DEFINE hs == h \o s
<1> HIDE DEF hs
<1>9. hs \in Seq(Nat) /\ Len(hs) = 1 + Len(s) /\ hs[1] = p.command
      /\ \A i \in 1..Len(s) : hs[1 + i] = s[i]
  BY <1>8 DEF hs
<1>10. hs \o b \in Seq(Nat) /\ Len(hs \o b) = Len(hs) + Len(b)
       /\ (\A i \in 1..Len(hs) : (hs \o b)[i] = hs[i])
       /\ (\A i \in 1..Len(b) : (hs \o b)[Len(hs) + i] = b[i])
  <2>1. hs \in Seq(Nat) /\ b \in Seq(Nat)
    BY <1>2, <1>9
  <2> QED BY <2>1, Behind
<1>11. Bytes(p) = hs \o b
  BY <1>6 DEF hs
<1>12. /\ Bytes(p)[1] = p.command
       /\ \A i \in 1..Len(s) : Bytes(p)[1 + i] = s[i]
       /\ \A i \in 1..Len(b) : Bytes(p)[1 + Len(s) + i] = b[i]
  <2>1. Bytes(p)[1] = p.command
    BY <1>4, <1>5, <1>9, <1>10, <1>11
  <2>2. ASSUME NEW i \in 1..Len(s) PROVE Bytes(p)[1 + i] = s[i]
    <3>1. 1 + i \in 1..Len(hs)
      BY <1>4, <1>5, <1>9
    <3> QED BY <1>9, <1>10, <1>11, <3>1
  <2>3. ASSUME NEW i \in 1..Len(b) PROVE Bytes(p)[1 + Len(s) + i] = b[i]
    BY <1>9, <1>10, <1>11
  <2> QED BY <2>1, <2>2, <2>3
<1> QED BY <1>2, <1>3, <1>4, <1>6, <1>9, <1>10, <1>11, <1>12 DEF s, b

-----------------------------------------------------------------------------
(* The bytes of a connection: all that were queued, in a row, and where     *)
(* each packet starts in them.                                              *)

Framing(all, start, qd) ==
  /\ qd \in Seq(Packets) /\ \A i \in 1..Len(qd) : Sound(qd[i])
  /\ all \in Seq(Nat) /\ start \in [1..(Len(qd) + 1) -> Nat]
  /\ start[1] = 0 /\ start[Len(qd) + 1] = Len(all)
  /\ \A i \in 1..Len(qd) :
       /\ start[i + 1] = start[i] + Len(Bytes(qd[i]))
       /\ \A k \in 1..Len(Bytes(qd[i])) : all[start[i] + k] = Bytes(qd[i])[k]
  /\ \A i \in 1..(Len(qd) + 1) : \A j \in 1..(Len(qd) + 1) : i <= j => start[i] <= start[j]

(* Nothing is queued on a new connection.                                   *)
LEMMA FramingStarts == Framing(<<>>, [i \in 1..1 |-> 0], <<>>)
BY DEF Framing

(* Where the packets start with one more, behind all others.                *)
Longer(all, start, qd, p) ==
  [i \in 1..(Len(qd) + 2) |-> IF i = Len(qd) + 2 THEN Len(all) + Len(Bytes(p)) ELSE start[i]]

(* Its bytes come behind all others.                                        *)
LEMMA FramingGrows ==
  ASSUME NEW all, NEW start, NEW qd, Framing(all, start, qd), NEW p, Sound(p)
  PROVE  Framing(all \o Bytes(p), Longer(all, start, qd, p), Append(qd, p))
<1> DEFINE b  == Bytes(p)
           ns == Longer(all, start, qd, p)
           nq == Append(qd, p)
           na == all \o b
           L  == Len(qd)
<1>1. /\ qd \in Seq(Packets) /\ L \in Nat /\ \A i \in 1..L : Sound(qd[i])
      /\ all \in Seq(Nat) /\ Len(all) \in Nat /\ start \in [1..(L + 1) -> Nat]
      /\ start[1] = 0 /\ start[L + 1] = Len(all)
  BY DEF Framing
<1>2. \A i \in 1..L : /\ start[i + 1] = start[i] + Len(Bytes(qd[i]))
                      /\ \A k \in 1..Len(Bytes(qd[i])) : all[start[i] + k] = Bytes(qd[i])[k]
  BY DEF Framing
<1>3. \A i \in 1..(L + 1) : \A j \in 1..(L + 1) : i <= j => start[i] <= start[j]
  BY DEF Framing
<1>4. b \in Seq(Nat) /\ Len(b) \in Nat
  <2>1. b \in Seq(Nat)
    BY BytesAre
  <2> HIDE DEF b
  <2> QED BY <2>1
<1>5. p \in Packets
  BY DEF Sound
<1>6. nq \in Seq(Packets) /\ Len(nq) = L + 1 /\ nq[L + 1] = p /\ \A i \in 1..L : nq[i] = qd[i]
  BY <1>1, <1>5
<1>7. ns = [i \in 1..(L + 2) |-> IF i = L + 2 THEN Len(all) + Len(b) ELSE start[i]]
  BY DEF Longer
<1> HIDE DEF b, ns, nq, L
<1>8. /\ na \in Seq(Nat) /\ Len(na) = Len(all) + Len(b)
      /\ (\A i \in 1..Len(all) : na[i] = all[i])
      /\ (\A i \in 1..Len(b) : na[Len(all) + i] = b[i])
  BY <1>1, <1>4, Behind
<1> HIDE DEF na
<1>9. ns[L + 2] = Len(all) + Len(b) /\ \A i \in 1..(L + 1) : ns[i] = start[i]
  BY <1>1, <1>7
<1>10. ns \in [1..(L + 2) -> Nat]
  <2>1. \A i \in 1..(L + 2) : i # L + 2 => i \in 1..(L + 1)
    BY <1>1
  <2> QED BY <1>1, <1>4, <1>7, <2>1
<1>11. ns[1] = 0 /\ ns[Len(nq) + 1] = Len(na)
  <2>1. Len(nq) + 1 = L + 2 /\ 1 \in 1..(L + 1)
    BY <1>1, <1>6
  <2> QED BY <1>1, <1>8, <1>9, <2>1
<1>12. \A i \in 1..Len(nq) : Sound(nq[i])
  BY <1>1, <1>6
<1>13. ASSUME NEW i \in 1..Len(nq)
       PROVE  /\ ns[i + 1] = ns[i] + Len(Bytes(nq[i]))
              /\ \A k \in 1..Len(Bytes(nq[i])) : na[ns[i] + k] = Bytes(nq[i])[k]
  <2>1. CASE i = L + 1
    <3>1. i + 1 = L + 2 /\ i \in 1..(L + 1)
      BY <1>1, <2>1
    <3>2. ns[i + 1] = Len(all) + Len(b) /\ ns[i] = Len(all) /\ Bytes(nq[i]) = b
      BY <1>1, <1>6, <1>9, <2>1, <3>1 DEF b
    <3> QED BY <1>8, <3>2
  <2>2. CASE i # L + 1
    <3>1. i \in 1..L /\ i \in 1..(L + 1) /\ i + 1 \in 1..(L + 1)
      BY <1>1, <1>6, <2>2
    <3>2. ns[i + 1] = start[i + 1] /\ ns[i] = start[i] /\ nq[i] = qd[i]
      BY <1>6, <1>9, <3>1
    <3>3. start[i + 1] = start[i] + Len(Bytes(qd[i]))
      BY <1>2, <3>1
    <3>4. start[i + 1] <= Len(all) /\ start[i] \in Nat
      <4>1. L + 1 \in 1..(L + 1) /\ i + 1 <= L + 1
        BY <1>1, <3>1
      <4> QED BY <1>1, <1>3, <3>1, <4>1
    <3>5. Bytes(qd[i]) \in Seq(Nat)
      BY <1>1, <3>1, BytesAre
    <3>6. ASSUME NEW k \in 1..Len(Bytes(qd[i])) PROVE na[start[i] + k] = Bytes(qd[i])[k]
      <4>1. Len(Bytes(qd[i])) \in Nat
        BY <3>5
      <4>2. start[i] + k \in 1..Len(all)
        <5>1. start[i] + Len(Bytes(qd[i])) <= Len(all)
          BY <3>3, <3>4
        <5> QED BY <1>1, <3>4, <4>1, <5>1, Fits
      <4>3. all[start[i] + k] = Bytes(qd[i])[k]
        BY <1>2, <3>1
      <4> QED BY <1>8, <4>2, <4>3
    <3> QED BY <3>2, <3>3, <3>6
  <2> QED BY <2>1, <2>2
<1>14. ASSUME NEW i \in 1..(L + 2), NEW j \in 1..(L + 2), i <= j PROVE ns[i] <= ns[j]
  <2>1. ASSUME NEW k \in 1..(L + 1) PROVE start[k] <= Len(all) /\ start[k] \in Nat
    <3>1. L + 1 \in 1..(L + 1) /\ k <= L + 1
      BY <1>1
    <3> QED BY <1>1, <1>3, <3>1
  <2>2. CASE j = L + 2
    <3>1. CASE i = L + 2
      BY <1>1, <1>4, <1>9, <2>2, <3>1
    <3>2. CASE i # L + 2
      <4>1. i \in 1..(L + 1)
        BY <1>1, <3>2
      <4>2. ns[i] = start[i] /\ start[i] <= Len(all) /\ start[i] \in Nat
        BY <1>9, <2>1, <4>1
      <4> QED BY <1>1, <1>4, <1>9, <2>2, <4>2
    <3> QED BY <3>1, <3>2
  <2>3. CASE j # L + 2
    <3>1. i \in 1..(L + 1) /\ j \in 1..(L + 1)
      BY <1>1, <1>14, <2>3
    <3>2. start[i] <= start[j]
      BY <1>3, <1>14, <3>1
    <3> QED BY <1>9, <3>1, <3>2
  <2> QED BY <2>2, <2>3
<1>15. Len(nq) + 1 = L + 2
  BY <1>1, <1>6
<1>16. Framing(na, ns, nq)
  BY <1>6, <1>8, <1>10, <1>11, <1>12, <1>13, <1>14, <1>15 DEF Framing
<1> QED BY <1>16 DEF na, ns, nq, b

(* What is on its way from the place r of those bytes on: in the stream, in *)
(* the packet that is being written, in those that wait.                    *)
Line(all, start, qd, r, str, cur, out) ==
  /\ r \in Nat /\ str \in Seq(Nat) /\ cur \in Seq(Nat) /\ out \in Seq(Packets)
  /\ Len(out) <= Len(qd)
  /\ \A i \in 1..Len(out) : out[i] = qd[(Len(qd) - Len(out)) + i]
  /\ r + Len(str) + Len(cur) = start[(Len(qd) - Len(out)) + 1]
  /\ \A x \in 1..Len(str) : str[x] = all[r + x]
  /\ \A x \in 1..Len(cur) : cur[x] = all[(r + Len(str)) + x]

(* What it says, with the lengths as numbers and m packets that are taken.  *)
Parts(all, start, qd, m, r, str, cur, out) ==
  /\ r \in Nat /\ str \in Seq(Nat) /\ cur \in Seq(Nat) /\ out \in Seq(Packets)
  /\ Len(str) \in Nat /\ Len(cur) \in Nat /\ Len(out) \in Nat
  /\ Len(out) <= Len(qd) /\ r + Len(str) + Len(cur) = start[m + 1]
  /\ \A i \in 1..Len(out) : out[i] = qd[m + i]
  /\ \A x \in 1..Len(str) : str[x] = all[r + x]
  /\ \A x \in 1..Len(cur) : cur[x] = all[(r + Len(str)) + x]

(* So it does.                                                              *)
LEMMA LineParts ==
  ASSUME NEW all, NEW start, NEW qd, NEW r, NEW str, NEW cur, NEW out,
         Line(all, start, qd, r, str, cur, out), NEW m, m = Len(qd) - Len(out)
  PROVE  Parts(all, start, qd, m, r, str, cur, out)
<1>1. /\ r \in Nat /\ str \in Seq(Nat) /\ cur \in Seq(Nat) /\ out \in Seq(Packets)
      /\ Len(out) <= Len(qd) /\ r + Len(str) + Len(cur) = start[m + 1]
  BY Zenon DEF Line
<1>2. \A i \in 1..Len(out) : out[i] = qd[m + i]
  BY Zenon DEF Line
<1>3. \A x \in 1..Len(str) : str[x] = all[r + x]
  BY Zenon DEF Line
<1>4. \A x \in 1..Len(cur) : cur[x] = all[(r + Len(str)) + x]
  BY Zenon DEF Line
<1>5. Len(str) \in Nat /\ Len(cur) \in Nat /\ Len(out) \in Nat
  BY <1>1
<1> QED BY <1>1, <1>2, <1>3, <1>4, <1>5 DEF Parts

(* packet__queue.                                                           *)
LEMMA LineGrows ==
  ASSUME NEW all, NEW start, NEW qd, Framing(all, start, qd), NEW p, Sound(p),
         NEW r, NEW str, NEW cur, NEW out, Line(all, start, qd, r, str, cur, out)
  PROVE  Line(all \o Bytes(p), Longer(all, start, qd, p), Append(qd, p), r, str, cur, Append(out, p))
<1> DEFINE b  == Bytes(p)
           ns == Longer(all, start, qd, p)
           nq == Append(qd, p)
           no == Append(out, p)
           na == all \o b
           L  == Len(qd)
           m  == L - Len(out)
<1>1. /\ qd \in Seq(Packets) /\ L \in Nat /\ all \in Seq(Nat) /\ Len(all) \in Nat
      /\ start \in [1..(L + 1) -> Nat] /\ start[L + 1] = Len(all)
      /\ \A i \in 1..(L + 1) : \A j \in 1..(L + 1) : i <= j => start[i] <= start[j]
  BY DEF Framing
<1>2. /\ r \in Nat /\ str \in Seq(Nat) /\ cur \in Seq(Nat) /\ out \in Seq(Packets)
      /\ Len(out) \in Nat /\ Len(str) \in Nat /\ Len(cur) \in Nat
      /\ Len(out) <= L /\ r + Len(str) + Len(cur) = start[m + 1]
      /\ (\A i \in 1..Len(out) : out[i] = qd[m + i])
  BY DEF Line
<1>3. /\ \A x \in 1..Len(str) : str[x] = all[r + x]
      /\ \A x \in 1..Len(cur) : cur[x] = all[(r + Len(str)) + x]
  BY DEF Line
<1>4. p \in Packets
  BY DEF Sound
<1>5. b \in Seq(Nat)
  BY BytesAre
<1>6. nq \in Seq(Packets) /\ Len(nq) = L + 1 /\ nq[L + 1] = p /\ \A i \in 1..L : nq[i] = qd[i]
  BY <1>1, <1>4
<1>7. no \in Seq(Packets) /\ Len(no) = Len(out) + 1 /\ no[Len(out) + 1] = p
      /\ \A i \in 1..Len(out) : no[i] = out[i]
  BY <1>2, <1>4
<1>8. ns = [i \in 1..(L + 2) |-> IF i = L + 2 THEN Len(all) + Len(b) ELSE start[i]]
  BY DEF Longer
<1> HIDE DEF b, ns, nq, no, L
<1>9. \A i \in 1..Len(all) : na[i] = all[i]
  BY <1>1, <1>5, Behind
<1> HIDE DEF na
<1>10. m \in Nat /\ m + 1 \in 1..(L + 1) /\ Len(nq) - Len(no) = m /\ L + 1 \in 1..(L + 1)
  BY <1>1, <1>2, <1>6, <1>7
<1> HIDE DEF m
<1>11. ns[m + 1] = start[m + 1] /\ start[m + 1] <= Len(all)
  BY <1>1, <1>8, <1>10
<1>12. ASSUME NEW i \in 1..Len(no) PROVE no[i] = nq[m + i]
  <2>1. CASE i = Len(out) + 1
    <3>1. m + i = L + 1
      BY <1>1, <1>2, <2>1 DEF m
    <3> QED BY <1>6, <1>7, <2>1, <3>1
  <2>2. CASE i # Len(out) + 1
    <3>1. i \in 1..Len(out)
      BY <1>2, <1>7, <2>2
    <3>2. m + i \in 1..L
      BY <1>1, <1>2, <3>1 DEF m
    <3> QED BY <1>2, <1>6, <1>7, <3>1, <3>2
  <2> QED BY <2>1, <2>2
<1>13. ASSUME NEW x \in 1..Len(str) PROVE str[x] = na[r + x]
  <2>1. r + x \in 1..Len(all)
    BY <1>1, <1>2, <1>11
  <2> QED BY <1>3, <1>9, <2>1
<1>14. ASSUME NEW x \in 1..Len(cur) PROVE cur[x] = na[(r + Len(str)) + x]
  <2>1. (r + Len(str)) + x \in 1..Len(all)
    <3>1. (r + Len(str)) + Len(cur) <= Len(all) /\ r + Len(str) \in Nat
      BY <1>2, <1>11
    <3> QED BY <1>1, <1>2, <3>1, Fits
  <2> QED BY <1>3, <1>9, <2>1
<1>15. Len(no) <= Len(nq)
  BY <1>1, <1>2, <1>6, <1>7
<1>16. Line(na, ns, nq, r, str, cur, no)
  BY <1>2, <1>7, <1>10, <1>11, <1>12, <1>13, <1>14, <1>15 DEF Line
<1> QED BY <1>16 DEF na, ns, nq, no, b

(* packet__write takes the next packet from the list.                       *)
LEMMA LineTakes ==
  ASSUME NEW all, NEW start, NEW qd, Framing(all, start, qd),
         NEW r, NEW str, NEW out, Line(all, start, qd, r, str, <<>>, out), out # <<>>
  PROVE  Bytes(Head(out)) # <<>> /\ Line(all, start, qd, r, str, Bytes(Head(out)), Tail(out))
<1> DEFINE L == Len(qd)
           m == L - Len(out)
           b == Bytes(Head(out))
           t == Tail(out)
<1>1. /\ qd \in Seq(Packets) /\ L \in Nat /\ (\A i \in 1..L : Sound(qd[i]))
      /\ start \in [1..(L + 1) -> Nat]
  BY DEF Framing
<1>places. \A i \in 1..L : /\ start[i + 1] = start[i] + Len(Bytes(qd[i]))
                            /\ \A k \in 1..Len(Bytes(qd[i])) : all[start[i] + k] = Bytes(qd[i])[k]
  BY DEF Framing
<1>at. m = Len(qd) - Len(out) /\ L = Len(qd)
  OBVIOUS
<1> HIDE DEF m, L
<1>2. /\ r \in Nat /\ str \in Seq(Nat) /\ out \in Seq(Packets) /\ Len(str) \in Nat
      /\ Len(out) \in Nat /\ Len(out) <= L /\ r + Len(str) + Len(<<>>) = start[m + 1]
      /\ (\A i \in 1..Len(out) : out[i] = qd[m + i])
      /\ (\A x \in 1..Len(str) : str[x] = all[r + x])
  <2>1. Parts(all, start, qd, m, r, str, <<>>, out)
    BY <1>at, LineParts
  <2> QED BY <2>1 DEF Parts, L
<1>3. r + Len(str) = start[m + 1]
  <2>1. Len(<<>>) = 0
    OBVIOUS
  <2> QED BY <1>2, <2>1
<1>4. Len(out) # 0 /\ Head(out) = out[1] /\ t \in Seq(Packets) /\ Len(t) = Len(out) - 1
      /\ \A i \in 1..(Len(out) - 1) : t[i] = out[i + 1]
  BY <1>2
<1> HIDE DEF t
<1>5. m + 1 \in 1..L /\ L - Len(t) = m + 1 /\ m \in Nat /\ Len(t) \in Nat
  BY <1>at, <1>1, <1>2, <1>4
<1>6. Head(out) = qd[m + 1]
  BY <1>2, <1>4
<1>7. Sound(Head(out))
  BY <1>1, <1>5, <1>6
<1>8. b \in Seq(Nat) /\ Len(b) # 0 /\ Len(b) \in Nat
  <2>1. b \in Seq(Nat) /\ b[1] = Head(out).command
        /\ Len(b) = 1 + Count(Head(out)) + Len(Head(out).body)
        /\ Count(Head(out)) \in 1..MaxCount /\ Len(Head(out).body) \in Nat
    BY <1>7, BytesAre
  <2>2. MaxCount \in Nat
    BY PacketsAssumption DEF PacketsAssumption
  <2> HIDE DEF b
  <2> QED BY <2>1, <2>2
<1>9. start[(m + 1) + 1] = start[m + 1] + Len(b)
      /\ \A k \in 1..Len(b) : all[start[m + 1] + k] = b[k]
  BY <1>places, <1>5, <1>6
<1> HIDE DEF b
<1>10. ASSUME NEW i \in 1..Len(t) PROVE t[i] = qd[(m + 1) + i]
  <2>1. i \in 1..(Len(out) - 1) /\ i + 1 \in 1..Len(out) /\ m + (i + 1) = (m + 1) + i
    BY <1>2, <1>4, <1>5
  <2> QED BY <1>2, <1>4, <2>1
<1>11. r + Len(str) + Len(b) = start[(m + 1) + 1]
  BY <1>3, <1>9
<1>12. \A x \in 1..Len(b) : b[x] = all[(r + Len(str)) + x]
  BY <1>3, <1>9
<1>13. Len(t) <= L
  BY <1>1, <1>5
<1>14. Line(all, start, qd, r, str, b, t)
  BY <1>2, <1>4, <1>5, <1>8, <1>10, <1>11, <1>12, <1>13, <1>at DEF Line
<1>15. b # <<>>
  BY <1>8
<1> QED BY <1>14, <1>15 DEF b, t

(* A part of a sequence of bytes.                                           *)
LEMMA FirstPart ==
  ASSUME NEW s \in Seq(Nat), NEW k \in 0..Len(s)
  PROVE  /\ SubSeq(s, 1, k) \in Seq(Nat) /\ Len(SubSeq(s, 1, k)) = k
         /\ \A i \in 1..k : SubSeq(s, 1, k)[i] = s[i]
OBVIOUS

(* The rest of it.                                                          *)
LEMMA LastPart ==
  ASSUME NEW s \in Seq(Nat), NEW k \in 0..Len(s)
  PROVE  /\ SubSeq(s, k + 1, Len(s)) \in Seq(Nat) /\ Len(SubSeq(s, k + 1, Len(s))) = Len(s) - k
         /\ \A i \in 1..(Len(s) - k) : SubSeq(s, k + 1, Len(s))[i] = s[k + i]
<1>1. Len(s) \in Nat /\ k \in Nat /\ k <= Len(s)
  OBVIOUS
<1>2. SubSeq(s, k + 1, Len(s)) = [i \in 1..(Len(s) - k) |-> s[k + i]]
  <2>1. SubSeq(s, k + 1, Len(s)) = [i \in 1..((1 + Len(s)) - (k + 1)) |-> s[(i + (k + 1)) - 1]]
    BY <1>1
  <2>2. (1 + Len(s)) - (k + 1) = Len(s) - k
    BY <1>1
  <2>3. \A i \in 1..(Len(s) - k) : (i + (k + 1)) - 1 = k + i
    BY <1>1
  <2> QED BY <2>1, <2>2, <2>3
<1>3. \A i \in 1..(Len(s) - k) : s[k + i] \in Nat
  BY <1>1
<1>4. Len(s) - k \in Nat
  BY <1>1
<1> QED BY <1>2, <1>3, <1>4

(* net__write takes k bytes.                                                *)
LEMMA LineMoves ==
  ASSUME NEW all, NEW start, NEW qd, NEW r, NEW str, NEW cur, NEW out,
         Line(all, start, qd, r, str, cur, out), NEW k \in 1..Len(cur)
  PROVE  Line(all, start, qd, r, str \o SubSeq(cur, 1, k), SubSeq(cur, k + 1, Len(cur)), out)
<1> DEFINE m == Len(qd) - Len(out)
           u == SubSeq(cur, 1, k)
           v == SubSeq(cur, k + 1, Len(cur))
           s == str \o u
<1>at. m = Len(qd) - Len(out)
  OBVIOUS
<1> HIDE DEF m
<1>1. /\ r \in Nat /\ str \in Seq(Nat) /\ cur \in Seq(Nat) /\ out \in Seq(Packets)
      /\ Len(str) \in Nat /\ Len(cur) \in Nat
      /\ Len(out) <= Len(qd) /\ r + Len(str) + Len(cur) = start[m + 1]
      /\ (\A i \in 1..Len(out) : out[i] = qd[m + i])
      /\ (\A x \in 1..Len(str) : str[x] = all[r + x])
      /\ (\A x \in 1..Len(cur) : cur[x] = all[(r + Len(str)) + x])
  <2>1. Parts(all, start, qd, m, r, str, cur, out)
    BY <1>at, LineParts
  <2> QED BY <2>1, Zenon DEF Parts
<1>2. k \in 0..Len(cur) /\ k \in Nat /\ k <= Len(cur)
  BY <1>1
<1>3. u \in Seq(Nat) /\ Len(u) = k /\ \A i \in 1..k : u[i] = cur[i]
  BY <1>1, <1>2, FirstPart
<1>4. v \in Seq(Nat) /\ Len(v) = Len(cur) - k /\ \A i \in 1..(Len(cur) - k) : v[i] = cur[k + i]
  BY <1>1, <1>2, LastPart
<1> HIDE DEF u, v
<1>5. /\ s \in Seq(Nat) /\ Len(s) = Len(str) + Len(u)
      /\ (\A i \in 1..Len(str) : s[i] = str[i]) /\ (\A i \in 1..Len(u) : s[Len(str) + i] = u[i])
  BY <1>1, <1>3, Behind
<1> HIDE DEF s
<1>6. Len(s) = Len(str) + k
  BY <1>3, <1>5
<1>7. r + Len(s) + Len(v) = start[m + 1]
  <2>1. r + Len(s) + Len(v) = r + Len(str) + Len(cur)
    BY <1>1, <1>2, <1>4, <1>6
  <2> QED BY <1>1, <2>1
<1>8. ASSUME NEW x \in 1..Len(s) PROVE s[x] = all[r + x]
  <2>1. CASE x \in 1..Len(str)
    BY <1>1, <1>5, <2>1
  <2>2. CASE x \notin 1..Len(str)
    <3>1. PICK y \in 1..k : x = Len(str) + y
      <4>1. x - Len(str) \in 1..k /\ x = Len(str) + (x - Len(str))
        BY <1>1, <1>2, <1>6, <2>2
      <4> QED BY <4>1
    <3>2. s[x] = cur[y]
      BY <1>3, <1>5, <3>1
    <3>3. y \in 1..Len(cur) /\ (r + Len(str)) + y = r + x
      BY <1>1, <1>2, <3>1
    <3> QED BY <1>1, <3>2, <3>3
  <2> QED BY <2>1, <2>2
<1>9. ASSUME NEW x \in 1..Len(v) PROVE v[x] = all[(r + Len(s)) + x]
  <2>1. x \in 1..(Len(cur) - k) /\ k + x \in 1..Len(cur)
        /\ (r + Len(str)) + (k + x) = (r + Len(s)) + x
    BY <1>1, <1>2, <1>4, <1>6
  <2> QED BY <1>1, <1>4, <2>1
<1>10. Line(all, start, qd, r, s, v, out)
  BY <1>1, <1>4, <1>5, <1>7, <1>8, <1>9 DEF Line, m
<1> QED BY <1>10 DEF s, u, v

(* net__read gives k bytes.                                                 *)
LEMMA LineReads ==
  ASSUME NEW all, NEW start, NEW qd, NEW r, NEW str, NEW cur, NEW out,
         Line(all, start, qd, r, str, cur, out), NEW k \in 1..Len(str)
  PROVE  Line(all, start, qd, r + k, SubSeq(str, k + 1, Len(str)), cur, out)
<1> DEFINE m == Len(qd) - Len(out)
           v == SubSeq(str, k + 1, Len(str))
<1>at. m = Len(qd) - Len(out)
  OBVIOUS
<1> HIDE DEF m
<1>1. /\ r \in Nat /\ str \in Seq(Nat) /\ cur \in Seq(Nat) /\ out \in Seq(Packets)
      /\ Len(str) \in Nat /\ Len(cur) \in Nat
      /\ Len(out) <= Len(qd) /\ r + Len(str) + Len(cur) = start[m + 1]
      /\ (\A i \in 1..Len(out) : out[i] = qd[m + i])
      /\ (\A x \in 1..Len(str) : str[x] = all[r + x])
      /\ (\A x \in 1..Len(cur) : cur[x] = all[(r + Len(str)) + x])
  <2>1. Parts(all, start, qd, m, r, str, cur, out)
    BY <1>at, LineParts
  <2> QED BY <2>1, Zenon DEF Parts
<1>2. k \in 0..Len(str) /\ k \in Nat /\ k <= Len(str)
  BY <1>1
<1>3. v \in Seq(Nat) /\ Len(v) = Len(str) - k /\ \A i \in 1..(Len(str) - k) : v[i] = str[k + i]
  BY <1>1, <1>2, LastPart
<1> HIDE DEF v
<1>4. r + k \in Nat /\ (r + k) + Len(v) = r + Len(str)
  BY <1>1, <1>2, <1>3
<1>5. ASSUME NEW x \in 1..Len(v) PROVE v[x] = all[(r + k) + x]
  <2>1. x \in 1..(Len(str) - k) /\ k + x \in 1..Len(str) /\ r + (k + x) = (r + k) + x
    BY <1>1, <1>2, <1>3
  <2> QED BY <1>1, <1>3, <2>1
<1>6. (r + k) + Len(v) + Len(cur) = start[m + 1]
  BY <1>1, <1>4
<1>7. \A x \in 1..Len(cur) : cur[x] = all[((r + k) + Len(v)) + x]
  BY <1>1, <1>4
<1>8. Line(all, start, qd, r + k, v, cur, out)
  BY <1>1, <1>3, <1>4, <1>5, <1>6, <1>7 DEF Line, m
<1> QED BY <1>8 DEF v

(* Two sequences of the same bytes.                                         *)
LEMMA SameBytes ==
  ASSUME NEW s \in Seq(Nat), NEW t \in Seq(Nat), Len(s) = Len(t), \A i \in 1..Len(t) : s[i] = t[i]
  PROVE  s = t
BY SeqEqual

-----------------------------------------------------------------------------
(* The reader.                                                              *)

(* in_packet is part of packet p: k bytes of its length were read, and what *)
(* they say together with what is left of it is the length.                 *)
InLength(pkt, p, k) ==
  /\ pkt.command = p.command /\ k \in 0..(Count(p) - 1) /\ pkt.remaining_count = -k
  /\ pkt.remaining_mult \in Nat /\ pkt.remaining_length \in Nat
  /\ pkt.remaining_length + pkt.remaining_mult * Quotients(Len(p.body))[k] = Len(p.body)
  /\ pkt.to_process = 0 /\ pkt.payload = <<>>

(* Or the length, and k bytes of the body.                                  *)
InBody(pkt, p, k) ==
  /\ pkt.command = p.command /\ pkt.remaining_count = Count(p)
  /\ k \in 0..Len(p.body) /\ pkt.to_process = Len(p.body) - k
  /\ pkt.payload \in Seq(Nat) /\ Len(pkt.payload) = k
  /\ \A i \in 1..k : pkt.payload[i] = p.body[i]

Fields(pkt) == pkt = [command |-> pkt.command, remaining_count |-> pkt.remaining_count,
                      remaining_mult |-> pkt.remaining_mult,
                      remaining_length |-> pkt.remaining_length,
                      to_process |-> pkt.to_process, payload |-> pkt.payload]

(* got bytes of the packet p were read into pkt.                            *)
Reads(pkt, p, got) ==
  /\ Fields(pkt)
  /\ \/ \E k \in Nat : got = 1 + k /\ InLength(pkt, p, k)
     \/ \E k \in Nat : got = 1 + Count(p) + k /\ InBody(pkt, p, k) /\ pkt.to_process # 0

(* The first packets were handled, and nothing or part of the next one was  *)
(* read: r is how many bytes these are.                                     *)
Reader(start, qd, done, pkt, r) ==
  /\ done \in Seq(Packets) /\ Len(done) <= Len(qd)
  /\ \A i \in 1..Len(done) : done[i] = qd[i]
  /\ \/ pkt = Cleaned /\ r = start[Len(done) + 1]
     \/ /\ Len(done) < Len(qd)
        /\ \E got \in Nat : r = start[Len(done) + 1] + got /\ Reads(pkt, qd[Len(done) + 1], got)

(* A byte on its way is one of the packet that comes next: when got bytes   *)
(* of it were read, the one behind these.                                   *)
LEMMA NextBytes ==
  ASSUME NEW all, NEW start, NEW qd, Framing(all, start, qd),
         NEW r, NEW str, NEW cur, NEW out, Line(all, start, qd, r, str, cur, out),
         NEW n \in 0..(Len(qd) - 1), NEW p, p = qd[n + 1], NEW got \in Nat, r = start[n + 1] + got,
         NEW x \in 1..Len(str), NEW y, y = got + x, y <= Len(Bytes(p))
  PROVE  str[x] = Bytes(p)[y]
<1>1. n + 1 \in 1..Len(qd) /\ Len(qd) \in Nat
  BY DEF Framing
<1>2. start \in [1..(Len(qd) + 1) -> Nat] /\ Sound(p)
  BY <1>1 DEF Framing
<1>3. \A k \in 1..Len(Bytes(p)) : all[start[n + 1] + k] = Bytes(p)[k]
  BY <1>1 DEF Framing
<1>4. str[x] = all[r + x]
  BY Zenon DEF Line
<1>5. start[n + 1] \in Nat /\ Len(str) \in Nat
  <2>1. str \in Seq(Nat)
    BY Zenon DEF Line
  <2> QED BY <1>1, <1>2, <2>1
<1>6. Bytes(p) \in Seq(Nat)
  BY <1>2, BytesAre
<1>7. y \in 1..Len(Bytes(p)) /\ r + x = start[n + 1] + y
  <2>1. Len(Bytes(p)) \in Nat
    BY <1>6
  <2> QED BY <1>5, <2>1
<1> QED BY <1>3, <1>4, <1>7

(* There is a next packet when a byte is on its way.                        *)
LEMMA MoreComes ==
  ASSUME NEW all, NEW start, NEW qd, Framing(all, start, qd),
         NEW r, NEW str, NEW cur, NEW out, Line(all, start, qd, r, str, cur, out),
         NEW n \in 0..Len(qd), r >= start[n + 1], str # <<>>
  PROVE  n < Len(qd)
<1> DEFINE m == Len(qd) - Len(out)
           L == Len(qd)
<1>1. L \in Nat /\ start \in [1..(L + 1) -> Nat]
      /\ \A i \in 1..(L + 1) : \A j \in 1..(L + 1) : i <= j => start[i] <= start[j]
  BY DEF Framing
<1>2. m = Len(qd) - Len(out) /\ L = Len(qd)
  OBVIOUS
<1> HIDE DEF m, L
<1>3. /\ r \in Nat /\ str \in Seq(Nat) /\ Len(str) \in Nat /\ Len(cur) \in Nat /\ Len(out) \in Nat
      /\ Len(out) <= L /\ r + Len(str) + Len(cur) = start[m + 1]
  <2>1. Parts(all, start, qd, m, r, str, cur, out)
    BY <1>2, LineParts
  <2> QED BY <1>2, <2>1 DEF Parts
<1>4. Len(str) > 0
  BY <1>3
<1>5. SUFFICES ASSUME n = L PROVE FALSE
  BY <1>1, <1>2
<1>6. m + 1 \in 1..(L + 1) /\ L + 1 \in 1..(L + 1) /\ m + 1 <= L + 1
  BY <1>1, <1>2, <1>3
<1>7. start[m + 1] <= start[L + 1] /\ start[m + 1] \in Nat /\ start[L + 1] \in Nat
  BY <1>1, <1>6
<1>8. r >= start[L + 1]
  BY <1>5
<1> QED BY <1>3, <1>4, <1>7, <1>8

(* The reader stays where it is when a packet is queued.                    *)
LEMMA ReaderStays ==
  ASSUME NEW all, NEW start, NEW qd, Framing(all, start, qd), NEW p, Sound(p),
         NEW done, NEW pkt, NEW r, Reader(start, qd, done, pkt, r)
  PROVE  Reader(Longer(all, start, qd, p), Append(qd, p), done, pkt, r)
<1> DEFINE L  == Len(qd)
           ns == Longer(all, start, qd, p)
           nq == Append(qd, p)
           n  == Len(done)
<1>1. qd \in Seq(Packets) /\ L \in Nat
  BY DEF Framing
<1>2. p \in Packets
  BY DEF Sound
<1>3. nq \in Seq(Packets) /\ Len(nq) = L + 1 /\ \A i \in 1..L : nq[i] = qd[i]
  BY <1>1, <1>2
<1>4. ns = [i \in 1..(L + 2) |-> IF i = L + 2 THEN Len(all) + Len(Bytes(p)) ELSE start[i]]
  BY DEF Longer
<1>5. done \in Seq(Packets) /\ n <= L /\ \A i \in 1..n : done[i] = qd[i]
  BY DEF Reader
<1>6. \/ pkt = Cleaned /\ r = start[n + 1]
      \/ n < L /\ \E got \in Nat : r = start[n + 1] + got /\ Reads(pkt, qd[n + 1], got)
  BY DEF Reader
<1> HIDE DEF L, ns, nq
<1>7. n \in Nat
  BY <1>5
<1> HIDE DEF n
<1>8. ns[n + 1] = start[n + 1] /\ n <= Len(nq) /\ (\A i \in 1..n : done[i] = nq[i])
  BY <1>1, <1>3, <1>4, <1>5, <1>7
<1>9. n < L => n < Len(nq) /\ nq[n + 1] = qd[n + 1]
  BY <1>1, <1>3, <1>7
<1>10. Reader(ns, nq, done, pkt, r)
  BY <1>5, <1>6, <1>8, <1>9 DEF Reader, n
<1> QED BY <1>10 DEF ns, nq

(* What a step leaves of the connection, and of what was handled: nothing   *)
(* more, or the packet that came next.                                      *)
Kept(all, start, r) ==
  /\ Framing(all, start, queued)
  /\ Line(all, start, queued, r, stream, current_out_packet, out_packet)
  /\ Reader(start, queued, handled, in_packet, r)

Inv == failed = FALSE /\ \E all, start, r : Kept(all, start, r)

HandledNext == \/ handled' = handled
               \/ /\ Len(handled) < Len(queued)
                  /\ handled' = Append(handled, queued[Len(handled) + 1])

(* The end of the length or a piece of the body was read: the packet is     *)
(* handled as it was queued, or goes on.                                    *)
LEMMA BodyRead ==
  ASSUME NEW all, NEW start, Framing(all, start, queued), handled \in Seq(Packets),
         \A i \in 1..Len(handled) : handled[i] = queued[i],
         NEW n, n = Len(handled), n < Len(queued), NEW p, p = queued[n + 1],
         NEW pkt, Fields(pkt), NEW k \in Nat, InBody(pkt, p, k), Complete(pkt),
         NEW r, r = start[n + 1] + (1 + Count(p) + k)
  PROVE  Reader(start, queued, handled', in_packet', r) /\ HandledNext
<1>1. /\ Len(queued) \in Nat /\ n \in Nat /\ n + 1 \in 1..Len(queued) /\ queued \in Seq(Packets)
      /\ start \in [1..(Len(queued) + 1) -> Nat]
  BY DEF Framing
<1>2. Sound(p) /\ start[(n + 1) + 1] = start[n + 1] + Len(Bytes(p))
  BY <1>1 DEF Framing
<1>3. /\ p = [command |-> p.command, body |-> p.body] /\ p.body \in Seq(Nat)
      /\ Len(p.body) \in Nat /\ Count(p) \in 1..MaxCount
      /\ Len(Bytes(p)) = 1 + Count(p) + Len(p.body)
  BY <1>2, BytesAre
<1>4. MaxCount \in Nat
  BY PacketsAssumption DEF PacketsAssumption
<1>5. /\ pkt.command = p.command /\ k \in 0..Len(p.body) /\ pkt.to_process = Len(p.body) - k
      /\ pkt.payload \in Seq(Nat) /\ Len(pkt.payload) = k
      /\ \A i \in 1..k : pkt.payload[i] = p.body[i]
  BY DEF InBody
<1>6. CASE pkt.to_process = 0
  <2>1. k = Len(p.body)
    BY <1>3, <1>5, <1>6
  <2>2. pkt.payload = p.body
    <3> DEFINE t == pkt.payload
               b == p.body
    <3>1. t \in Seq(Nat) /\ b \in Seq(Nat) /\ Len(t) = Len(b) /\ \A i \in 1..Len(b) : t[i] = b[i]
      BY <1>3, <1>5, <2>1
    <3> HIDE DEF t, b
    <3>2. t = b
      BY <3>1, SameBytes
    <3> QED BY <3>2 DEF t, b
  <2>3. handled' = Append(handled, p) /\ in_packet' = Cleaned
    BY <1>3, <1>5, <1>6, <2>2 DEF Complete
  <2>4. p \in Packets
    BY <1>2 DEF Sound
  <2>5. /\ handled' \in Seq(Packets) /\ Len(handled') = n + 1 /\ handled'[n + 1] = p
        /\ \A i \in 1..n : handled'[i] = handled[i]
    BY <2>3, <2>4
  <2>6. r = start[(n + 1) + 1]
    BY <1>2, <1>3, <2>1
  <2>7. \A i \in 1..(n + 1) : handled'[i] = queued[i]
    <3>1. \A i \in 1..(n + 1) : i = n + 1 \/ i \in 1..n
      BY <1>1
    <3> QED BY <2>5, <3>1
  <2>8. Len(handled') <= Len(queued)
    BY <1>1, <2>5
  <2>9. Reader(start, queued, handled', in_packet', r)
    BY <2>3, <2>5, <2>6, <2>7, <2>8 DEF Reader
  <2> QED BY <2>3, <2>9 DEF HandledNext
<1>7. CASE pkt.to_process # 0
  <2>1. handled' = handled /\ in_packet' = pkt
    BY <1>7 DEF Complete
  <2> DEFINE got == 1 + Count(p) + k
  <2>2. got \in Nat /\ r = start[n + 1] + got
    BY <1>3, <1>4
  <2>3. Reads(pkt, p, got)
    BY <1>7 DEF Reads
  <2> HIDE DEF got
  <2>4. Len(handled) <= Len(queued)
    BY <1>1
  <2>5. Reader(start, queued, handled, pkt, r)
    BY <2>2, <2>3, <2>4 DEF Reader
  <2> QED BY <2>1, <2>5 DEF HandledNext
<1> QED BY <1>6, <1>7

(* What is known when a byte can be read: n packets were handled, the byte  *)
(* is of the next, p.                                                       *)
LEMMA Reading ==
  ASSUME NEW all, NEW start, NEW r, Kept(all, start, r), stream # <<>>,
         NEW n, n = Len(handled), NEW p, p = queued[n + 1]
  PROVE  /\ n \in 0..(Len(queued) - 1) /\ Len(queued) \in Nat /\ Sound(p)
         /\ handled \in Seq(Packets) /\ \A i \in 1..n : handled[i] = queued[i]
         /\ start[n + 1] \in Nat /\ r \in Nat /\ stream \in Seq(Nat) /\ Len(stream) \in Nat \ {0}
         /\ \/ in_packet = Cleaned /\ r = start[n + 1]
            \/ \E got \in Nat : r = start[n + 1] + got /\ Reads(in_packet, p, got)
<1>1. Framing(all, start, queued) /\ Line(all, start, queued, r, stream, current_out_packet, out_packet)
      /\ Reader(start, queued, handled, in_packet, r)
  BY DEF Kept
<1>2. /\ handled \in Seq(Packets) /\ n <= Len(queued) /\ (\A i \in 1..n : handled[i] = queued[i])
      /\ \/ in_packet = Cleaned /\ r = start[n + 1]
         \/ n < Len(queued) /\ \E got \in Nat : r = start[n + 1] + got /\ Reads(in_packet, p, got)
  BY <1>1 DEF Reader
<1>3. n \in 0..Len(queued) /\ n \in Nat /\ Len(queued) \in Nat /\ start \in [1..(Len(queued) + 1) -> Nat]
  BY <1>1, <1>2 DEF Framing
<1>4. start[n + 1] \in Nat
  BY <1>3
<1>5. r \in Nat /\ stream \in Seq(Nat)
  BY <1>1 DEF Line
<1>6. Len(stream) \in Nat \ {0}
  BY <1>5
<1>7. r >= start[n + 1]
  BY <1>2, <1>4
<1>8. n < Len(queued)
  <2>1. Framing(all, start, queued) /\ Line(all, start, queued, r, stream, current_out_packet, out_packet)
    BY <1>1
  <2>2. n \in 0..Len(queued)
    BY <1>3
  <2> QED BY <1>7, <2>1, <2>2, MoreComes
<1>9. Sound(p)
  <2>1. n + 1 \in 1..Len(queued)
    BY <1>3, <1>8
  <2>2. \A i \in 1..Len(queued) : Sound(queued[i])
    BY <1>1 DEF Framing
  <2> QED BY <2>1, <2>2
<1>10. n \in 0..(Len(queued) - 1)
  BY <1>3, <1>8
<1> QED BY <1>2, <1>3, <1>4, <1>5, <1>6, <1>9, <1>10

(* The byte behind got bytes of that packet.                                *)
LEMMA NextByte ==
  ASSUME NEW all, NEW start, NEW r, Kept(all, start, r),
         NEW n \in 0..(Len(queued) - 1), NEW p, p = queued[n + 1],
         NEW got \in Nat, r = start[n + 1] + got,
         NEW x \in 1..Len(stream), NEW y, y = got + x, y <= Len(Bytes(p))
  PROVE  stream[x] = Bytes(p)[y]
<1>1. Framing(all, start, queued) /\ Line(all, start, queued, r, stream, current_out_packet, out_packet)
  BY DEF Kept
<1> QED BY <1>1, NextBytes

(* What was read of a packet of which the command is known.                 *)
LEMMA CommandKnown ==
  ASSUME NEW p, Sound(p), NEW pkt, NEW got, Reads(pkt, p, got)
  PROVE  pkt.command # 0 /\ pkt # Cleaned
<1>1. p.command # 0
  <2>1. p.command \in Nat \ {0}
    BY BytesAre
  <2> QED BY <2>1
<1>2. pkt.command = p.command
  BY DEF Reads, InLength, InBody
<1>3. Cleaned.command = 0
  BY DEF Cleaned
<1> QED BY <1>1, <1>2, <1>3

(* A packet whose command is known, and nothing else.                       *)
LEMMA LengthBegins ==
  ASSUME NEW p, Sound(p), NEW pkt,
         pkt = [command |-> p.command, remaining_count |-> 0, remaining_mult |-> 1,
                remaining_length |-> 0, to_process |-> 0, payload |-> <<>>]
  PROVE  Reads(pkt, p, 1)
<1> DEFINE q == Quotients(Len(p.body))[0]
<1>1. /\ pkt.command = p.command /\ pkt.remaining_count = 0 /\ pkt.remaining_mult = 1
      /\ pkt.remaining_length = 0 /\ pkt.to_process = 0 /\ pkt.payload = <<>>
  OBVIOUS
<1>2. Fields(pkt)
  BY DEF Fields
<1>3. Len(p.body) \in Nat /\ Count(p) \in 1..MaxCount
  BY BytesAre
<1>4. MaxCount \in Nat
  BY PacketsAssumption DEF PacketsAssumption
<1>5. 0 \in 0..(Count(p) - 1)
  BY <1>3, <1>4
<1>6. q = Len(p.body)
  BY <1>3, QuotientsAre
<1> HIDE DEF q
<1>7. pkt.remaining_length + pkt.remaining_mult * q = Len(p.body)
  <2>1. 0 + 1 * q = Len(p.body)
    BY <1>3, <1>6
  <2> QED BY <1>1, <2>1
<1>8. InLength(pkt, p, 0)
  <2>1. PICK k \in Nat : k = 0 /\ -k = 0
    OBVIOUS
  <2>2. q = Quotients(Len(p.body))[k]
    BY <2>1 DEF q
  <2>3. pkt.remaining_mult \in Nat /\ pkt.remaining_length \in Nat /\ k \in 0..(Count(p) - 1)
        /\ pkt.remaining_count = -k
    BY <1>1, <1>5, <2>1
  <2>4. pkt.remaining_length + pkt.remaining_mult * Quotients(Len(p.body))[k] = Len(p.body)
    BY <1>7, <2>2
  <2>5. InLength(pkt, p, k)
    BY <1>1, <2>3, <2>4, Zenon DEF InLength
  <2> QED BY <2>1, <2>5
<1>9. 0 \in Nat /\ 1 = 1 + 0
  OBVIOUS
<1> QED BY <1>2, <1>8, <1>9 DEF Reads

(* The first byte of a packet is its command.                               *)
LEMMA ReadCommandStep ==
  ASSUME Inv, ReadCommand
  PROVE  Inv' /\ queued' = queued /\ HandledNext
<1>1. PICK all, start, r : Kept(all, start, r)
  BY DEF Inv
<1> DEFINE n == Len(handled)
           p == queued[n + 1]
<1>2. Framing(all, start, queued) /\ Line(all, start, queued, r, stream, current_out_packet, out_packet)
  BY <1>1 DEF Kept
<1>3. /\ stream # <<>> /\ in_packet.command = 0 /\ stream' = Tail(stream)
      /\ in_packet' = [in_packet EXCEPT !.command = Head(stream)]
      /\ UNCHANGED <<out_packet, current_out_packet, failed, queued, handled>>
  BY DEF ReadCommand
<1>4. /\ n \in 0..(Len(queued) - 1) /\ Len(queued) \in Nat /\ Sound(p)
      /\ handled \in Seq(Packets) /\ (\A i \in 1..n : handled[i] = queued[i])
      /\ start[n + 1] \in Nat /\ r \in Nat /\ stream \in Seq(Nat) /\ Len(stream) \in Nat \ {0}
      /\ \/ in_packet = Cleaned /\ r = start[n + 1]
         \/ \E got \in Nat : r = start[n + 1] + got /\ Reads(in_packet, p, got)
  <2> HIDE DEF n, p
  <2>1. n = Len(handled) /\ p = queued[n + 1]
    BY DEF n, p
  <2>2. stream # <<>>
    BY <1>3
  <2> QED BY <1>1, <2>1, <2>2, Reading
<1>5. in_packet = Cleaned /\ r = start[n + 1]
  <2> HIDE DEF n, p
  <2> QED BY <1>3, <1>4, CommandKnown
<1>6. Head(stream) = p.command
  <2>1. 0 \in Nat /\ r = start[n + 1] + 0 /\ 1 \in 1..Len(stream) /\ 1 = 0 + 1
    BY <1>4, <1>5
  <2>2. Bytes(p)[1] = p.command /\ Len(Bytes(p)) = 1 + Count(p) + Len(p.body)
        /\ Count(p) \in 1..MaxCount /\ Len(p.body) \in Nat
    BY <1>4, BytesAre
  <2>3. 1 <= Len(Bytes(p))
    <3>1. MaxCount \in Nat
      BY PacketsAssumption DEF PacketsAssumption
    <3> HIDE DEF p
    <3> QED BY <2>2, <3>1
  <2>4. stream[1] = Bytes(p)[1]
    <3> HIDE DEF n
    <3>1. n \in 0..(Len(queued) - 1) /\ p = queued[n + 1]
      BY <1>4
    <3>2. PICK got \in Nat, x \in 1..Len(stream) : got = 0 /\ x = 1
      BY <2>1
    <3> HIDE DEF p
    <3>3. r = start[n + 1] + got /\ x = got + x /\ x <= Len(Bytes(p))
      BY <2>1, <2>3, <3>2
    <3>4. stream[x] = Bytes(p)[x]
      BY <1>1, <3>1, <3>3, NextByte
    <3> QED BY <3>2, <3>4
  <2> QED BY <1>3, <1>4, <2>2, <2>4
<1>7. in_packet' = [command |-> p.command, remaining_count |-> 0, remaining_mult |-> 1,
                    remaining_length |-> 0, to_process |-> 0, payload |-> <<>>]
  BY <1>3, <1>5, <1>6 DEF Cleaned
<1>8. Reads(in_packet', p, 1)
  <2> HIDE DEF p
  <2> QED BY <1>4, <1>7, LengthBegins
<1>9. Reader(start, queued, handled, in_packet', r + 1)
  <2>1. 1 \in Nat /\ r + 1 = start[n + 1] + 1 /\ n < Len(queued) /\ n <= Len(queued)
    BY <1>4, <1>5
  <2> QED BY <1>4, <1>8, <2>1 DEF Reader
<1>10. Line(all, start, queued, r + 1, Tail(stream), current_out_packet, out_packet)
  <2>1. 1 \in 1..Len(stream) /\ Tail(stream) = SubSeq(stream, 1 + 1, Len(stream))
    BY <1>3, <1>4
  <2> QED BY <1>2, <2>1, LineReads
<1>11. Kept(all, start, r + 1)'
  BY <1>2, <1>3, <1>9, <1>10 DEF Kept
<1>12. failed' = FALSE
  BY <1>3 DEF Inv
<1> QED BY <1>3, <1>11, <1>12 DEF Inv, HandledNext

(* The fields of a packet that is read, and what EXCEPT makes of them.      *)
LEMMA ChangedLength ==
  ASSUME NEW pkt, Fields(pkt), NEW x, NEW y, NEW z
  PROVE  [pkt EXCEPT !.remaining_count = x, !.remaining_length = y, !.remaining_mult = z]
         = [command |-> pkt.command, remaining_count |-> x, remaining_mult |-> z,
            remaining_length |-> y, to_process |-> pkt.to_process, payload |-> pkt.payload]
<1>1. PICK a, b, c, d, e, f : /\ a = pkt.command /\ b = pkt.remaining_count /\ c = pkt.remaining_mult
                              /\ d = pkt.remaining_length /\ e = pkt.to_process /\ f = pkt.payload
  OBVIOUS
<1>2. pkt = [command |-> a, remaining_count |-> b, remaining_mult |-> c, remaining_length |-> d,
             to_process |-> e, payload |-> f]
  BY <1>1, Zenon DEF Fields
<1> DEFINE one == [pkt EXCEPT !.remaining_count = x]
           two == [one EXCEPT !.remaining_length = y]
<1>3. one = [command |-> a, remaining_count |-> x, remaining_mult |-> c, remaining_length |-> d,
             to_process |-> e, payload |-> f]
  BY <1>2
<1>4. [pkt EXCEPT !.remaining_count = x, !.remaining_length = y, !.remaining_mult = z]
      = [two EXCEPT !.remaining_mult = z]
  OBVIOUS
<1> HIDE DEF one
<1>5. two = [command |-> a, remaining_count |-> x, remaining_mult |-> c, remaining_length |-> y,
             to_process |-> e, payload |-> f]
  BY <1>3
<1> HIDE DEF two
<1>6. [two EXCEPT !.remaining_mult = z]
      = [command |-> a, remaining_count |-> x, remaining_mult |-> z, remaining_length |-> y,
         to_process |-> e, payload |-> f]
  BY <1>5
<1> QED BY <1>1, <1>4, <1>6, Zenon
(* The same of those that change with the body.                             *)
LEMMA ChangedBody ==
  ASSUME NEW pkt, Fields(pkt), NEW x, NEW y
  PROVE  [pkt EXCEPT !.to_process = x, !.payload = y]
         = [command |-> pkt.command, remaining_count |-> pkt.remaining_count,
            remaining_mult |-> pkt.remaining_mult, remaining_length |-> pkt.remaining_length, to_process |-> x, payload |-> y]
<1>1. PICK a, b, c, d, e, f : /\ a = pkt.command /\ b = pkt.remaining_count /\ c = pkt.remaining_mult
                              /\ d = pkt.remaining_length /\ e = pkt.to_process /\ f = pkt.payload
  OBVIOUS
<1>2. pkt = [command |-> a, remaining_count |-> b, remaining_mult |-> c, remaining_length |-> d,
             to_process |-> e, payload |-> f]
  BY <1>1, Zenon DEF Fields
<1> DEFINE one == [pkt EXCEPT !.to_process = x]
<1>3. one = [command |-> a, remaining_count |-> b, remaining_mult |-> c, remaining_length |-> d,
             to_process |-> x, payload |-> f]
  BY <1>2
<1>4. [pkt EXCEPT !.to_process = x, !.payload = y] = [one EXCEPT !.payload = y]
  OBVIOUS
<1> HIDE DEF one
<1>5. [one EXCEPT !.payload = y]
      = [command |-> a, remaining_count |-> b, remaining_mult |-> c, remaining_length |-> d,
         to_process |-> x, payload |-> y]
  BY <1>3
<1> QED BY <1>1, <1>4, <1>5, Zenon

(* And of those that change with the last byte of the length.               *)
LEMMA ChangedLast ==
  ASSUME NEW pkt, Fields(pkt), NEW x, NEW y
  PROVE  [pkt EXCEPT !.remaining_count = x, !.to_process = y]
         = [command |-> pkt.command, remaining_count |-> x, remaining_mult |-> pkt.remaining_mult,
            remaining_length |-> pkt.remaining_length, to_process |-> y, payload |-> pkt.payload]
<1>1. PICK a, b, c, d, e, f : /\ a = pkt.command /\ b = pkt.remaining_count /\ c = pkt.remaining_mult
                              /\ d = pkt.remaining_length /\ e = pkt.to_process /\ f = pkt.payload
  OBVIOUS
<1>2. pkt = [command |-> a, remaining_count |-> b, remaining_mult |-> c, remaining_length |-> d,
             to_process |-> e, payload |-> f]
  BY <1>1, Zenon DEF Fields
<1> DEFINE one == [pkt EXCEPT !.remaining_count = x]
<1>3. one = [command |-> a, remaining_count |-> x, remaining_mult |-> c, remaining_length |-> d,
             to_process |-> e, payload |-> f]
  BY <1>2
<1>4. [pkt EXCEPT !.remaining_count = x, !.to_process = y] = [one EXCEPT !.to_process = y]
  OBVIOUS
<1> HIDE DEF one
<1>5. [one EXCEPT !.to_process = y]
      = [command |-> a, remaining_count |-> x, remaining_mult |-> c, remaining_length |-> d,
         to_process |-> y, payload |-> f]
  BY <1>3
<1> QED BY <1>1, <1>4, <1>5, Zenon

(* What in_packet becomes with one more byte of the length, and with the    *)
(* last.                                                                    *)
AfterByte(pkt, byte) ==
  [command |-> pkt.command, remaining_count |-> pkt.remaining_count - 1,
   remaining_mult |-> pkt.remaining_mult * Base,
   remaining_length |-> pkt.remaining_length + (byte % Base) * pkt.remaining_mult,
   to_process |-> pkt.to_process, payload |-> pkt.payload]
AfterLast(pkt, byte) ==
  [command |-> pkt.command, remaining_count |-> -(pkt.remaining_count - 1),
   remaining_mult |-> pkt.remaining_mult * Base,
   remaining_length |-> pkt.remaining_length + (byte % Base) * pkt.remaining_mult,
   to_process |-> pkt.remaining_length + (byte % Base) * pkt.remaining_mult,
   payload |-> pkt.payload]

(* One more byte of the length: it is never one too many, what the reader   *)
(* knows and what is left stay the length, and the last leaves nothing.     *)
LEMMA OneMore ==
  ASSUME NEW p, Sound(p), NEW pkt, NEW k \in Nat, InLength(pkt, p, k),
         NEW byte, byte = LengthBytes(Len(p.body))[k + 1]
  PROVE  /\ byte \in Nat /\ ~(pkt.remaining_count - 1 < -MaxCount)
         /\ byte >= Base => InLength(AfterByte(pkt, byte), p, k + 1)
         /\ ~(byte >= Base) => k + 1 = Count(p) /\ InBody(AfterLast(pkt, byte), p, 0)
<1> DEFINE L == Len(p.body)
           C == Count(p)
           left == Quotients(L)
           d == byte % Base
           count == pkt.remaining_count - 1
           len   == pkt.remaining_length + (byte % Base) * pkt.remaining_mult
           mult  == pkt.remaining_mult * Base
           new   == AfterByte(pkt, byte)
           full  == AfterLast(pkt, byte)
<1>after. /\ new = [command |-> pkt.command, remaining_count |-> count, remaining_mult |-> mult,
                    remaining_length |-> len, to_process |-> pkt.to_process,
                    payload |-> pkt.payload]
          /\ full = [command |-> pkt.command, remaining_count |-> -count, remaining_mult |-> mult,
                     remaining_length |-> len, to_process |-> len, payload |-> pkt.payload]
  BY Zenon DEF AfterByte, AfterLast
<1> HIDE DEF new, full
<1>1. L \in Nat /\ Spells(L, LengthBytes(L)) /\ C \in 1..MaxCount
  BY BytesAre
<1>2. MaxCount \in Nat /\ Base \in Nat \ {0}
  BY PacketsAssumption DEF PacketsAssumption
<1>3. C = Len(LengthBytes(L))
  BY DEF Count
<1>4. /\ pkt.command = p.command /\ k \in 0..(C - 1) /\ pkt.remaining_count = -k
      /\ pkt.remaining_mult \in Nat /\ pkt.remaining_length \in Nat
      /\ pkt.remaining_length + pkt.remaining_mult * left[k] = L
      /\ pkt.to_process = 0 /\ pkt.payload = <<>>
  BY DEF InLength
<1> HIDE DEF L, C
<1>5. k + 1 \in 1..C /\ (k + 1) - 1 = k /\ k \in 0..MaxCount /\ k + 1 \in 0..(MaxCount + 1)
      /\ k \in 0..(MaxCount + 1)
  BY <1>1, <1>2, <1>4
<1>6. byte \in Nat /\ d = left[k] % Base /\ (byte >= Base <=> k + 1 < C) /\ left[C] = 0
  <2>1. /\ LengthBytes(L) \in Seq(Nat) /\ left[Len(LengthBytes(L))] = 0
        /\ \A i \in 1..Len(LengthBytes(L)) :
             /\ LengthBytes(L)[i] % Base = left[i - 1] % Base
             /\ LengthBytes(L)[i] >= Base <=> i < Len(LengthBytes(L))
    BY <1>1, Zenon DEF Spells
  <2>2. byte = LengthBytes(L)[k + 1]
    BY Zenon DEF L
  <2> HIDE DEF left
  <2>3. byte % Base = left[(k + 1) - 1] % Base /\ (byte >= Base <=> k + 1 < C) /\ left[C] = 0
    BY <1>3, <1>5, <2>1, <2>2
  <2>4. byte \in Nat
    BY <1>3, <1>5, <2>1, <2>2
  <2> QED BY <1>5, <2>3, <2>4
<1>7. left[k] \in Nat /\ left[k + 1] \in Nat /\ left[k + 1] = left[k] \div Base
  BY <1>1, <1>5, QuotientsAre
<1> HIDE DEF left, d
<1>8. d \in Nat /\ left[k] = Base * left[k + 1] + d
  <2>1. PICK x \in Nat : x = left[k]
    BY <1>7
  <2>2. x \div Base \in Nat /\ x % Base \in 0..(Base - 1) /\ x = Base * (x \div Base) + (x % Base)
    BY <1>2, Division
  <2>3. d = x % Base /\ left[k + 1] = x \div Base
    BY <1>6, <1>7, <2>1, Zenon
  <2>4. d \in Nat
    BY <1>2, <2>2, <2>3
  <2> QED BY <2>1, <2>2, <2>3, <2>4, Zenon
<1>9. /\ pkt.remaining_length + d * pkt.remaining_mult \in Nat
      /\ pkt.remaining_mult * Base \in Nat
      /\ (pkt.remaining_length + d * pkt.remaining_mult) + (pkt.remaining_mult * Base) * left[k + 1] = L
  <2>1. PICK b \in Nat, m \in Nat, q \in Nat, e \in Nat, r \in Nat, x \in Nat :
          /\ b = Base /\ m = pkt.remaining_mult /\ q = left[k + 1] /\ e = d
          /\ r = pkt.remaining_length /\ x = left[k]
    BY <1>2, <1>4, <1>7, <1>8, Zenon
  <2>2. x = b * q + e /\ r + m * x = L
    BY <1>4, <1>8, <2>1, Zenon
  <2>3. r + e * m \in Nat /\ m * b \in Nat /\ (r + e * m) + (m * b) * q = L
    BY <1>1, <2>2, OneDigit
  <2> QED BY <2>1, <2>3, Zenon
<1>10. len \in Nat /\ mult \in Nat /\ len + mult * left[k + 1] = L
  BY <1>9 DEF d
<1>11. count = -(k + 1) /\ -count = k + 1
  BY <1>4
<1> HIDE DEF count, len, mult
<1>12. ~(count < -MaxCount)
  BY <1>1, <1>2, <1>5, <1>11
<1>13. ASSUME byte >= Base PROVE InLength(new, p, k + 1)
  <2>1. k + 1 \in 0..(C - 1)
    BY <1>1, <1>2, <1>5, <1>6, <1>13
  <2>2. /\ new.command = p.command /\ new.remaining_count = -(k + 1) /\ new.remaining_mult = mult
        /\ new.remaining_length = len /\ new.to_process = 0 /\ new.payload = <<>>
    BY <1>after, <1>4, <1>11
  <2>3. new.remaining_length + new.remaining_mult * left[k + 1] = L
    BY <1>10, <2>2
  <2>4. new.remaining_mult \in Nat /\ new.remaining_length \in Nat
    BY <1>10, <2>2
  <2> QED BY <2>1, <2>2, <2>3, <2>4, Zenon DEF InLength, left, L, C
<1>14. ASSUME ~(byte >= Base) PROVE k + 1 = C /\ InBody(full, p, 0)
  <2>1. k + 1 = C
    BY <1>1, <1>2, <1>5, <1>6, <1>14
  <2>2. len = L
    <3>1. left[k + 1] = 0
      BY <1>6, <2>1
    <3> QED BY <1>10, <3>1
  <2>3. /\ full.command = p.command /\ full.remaining_count = C /\ full.to_process = L
        /\ full.payload = <<>>
    BY <1>after, <1>4, <1>11, <2>1, <2>2
  <2>4. 0 \in 0..L /\ L = L - 0 /\ Len(<<>>) = 0 /\ <<>> \in Seq(Nat) /\ 1..0 = {}
    BY <1>1
  <2>5. InBody(full, p, 0)
    BY <2>3, <2>4 DEF InBody, L, C
  <2> QED BY <2>1, <2>5
<1> QED BY <1>6, <1>12, <1>13, <1>14 DEF C, count, new, full

(* The bytes behind the command say the length.                             *)
LEMMA ReadLengthStep ==
  ASSUME Inv, ReadLength
  PROVE  Inv' /\ queued' = queued /\ HandledNext
<1>1. PICK all, start, r : Kept(all, start, r)
  BY DEF Inv
<1> DEFINE n     == Len(handled)
           p     == queued[n + 1]
           byte  == Head(stream)
           count == in_packet.remaining_count - 1
           new   == AfterByte(in_packet, byte)
           full  == AfterLast(in_packet, byte)
<1>2. Framing(all, start, queued) /\ Line(all, start, queued, r, stream, current_out_packet, out_packet)
  BY <1>1 DEF Kept
<1>3. /\ stream # <<>> /\ in_packet.command # 0 /\ in_packet.remaining_count <= 0
      /\ stream' = Tail(stream) /\ UNCHANGED <<out_packet, current_out_packet, queued>>
  BY DEF ReadLength
<1>4. /\ n \in 0..(Len(queued) - 1) /\ Len(queued) \in Nat /\ Sound(p)
      /\ handled \in Seq(Packets) /\ (\A i \in 1..n : handled[i] = queued[i])
      /\ start[n + 1] \in Nat /\ r \in Nat /\ stream \in Seq(Nat) /\ Len(stream) \in Nat \ {0}
      /\ \/ in_packet = Cleaned /\ r = start[n + 1]
         \/ \E got \in Nat : r = start[n + 1] + got /\ Reads(in_packet, p, got)
  <2> HIDE DEF n, p
  <2>1. n = Len(handled) /\ p = queued[n + 1]
    BY DEF n, p
  <2>2. stream # <<>>
    BY <1>3
  <2> QED BY <1>1, <2>1, <2>2, Reading
<1>5. PICK got \in Nat : r = start[n + 1] + got /\ Reads(in_packet, p, got)
  <2>1. in_packet # Cleaned
    BY <1>3 DEF Cleaned
  <2> QED BY <1>4, <2>1
<1>6. MaxCount \in Nat /\ Base \in Nat \ {0}
  BY PacketsAssumption DEF PacketsAssumption
<1> HIDE DEF n, p
<1>7. /\ Len(p.body) \in Nat /\ Count(p) \in 1..MaxCount /\ Len(Bytes(p)) = 1 + Count(p) + Len(p.body)
      /\ \A i \in 1..Count(p) : Bytes(p)[1 + i] = LengthBytes(Len(p.body))[i]
  BY <1>4, BytesAre
<1>8. PICK k \in Nat : got = 1 + k /\ InLength(in_packet, p, k)
  <2>1. ASSUME NEW k \in Nat, InBody(in_packet, p, k) PROVE FALSE
    <3>1. in_packet.remaining_count = Count(p)
      BY <2>1 DEF InBody
    <3> QED BY <1>3, <1>6, <1>7, <3>1
  <2> QED BY <1>5, <2>1 DEF Reads
<1>9. Fields(in_packet) /\ k \in 0..(Count(p) - 1)
  BY <1>5, <1>8 DEF Reads, InLength
<1>10. byte = LengthBytes(Len(p.body))[k + 1]
  <2>1. PICK x \in 1..Len(stream), y \in 1..Count(p) : x = 1 /\ y = k + 1
    BY <1>4, <1>6, <1>7, <1>9
  <2> DEFINE z == 1 + y
  <2>2. z = got + x /\ z <= Len(Bytes(p))
    BY <1>6, <1>7, <1>8, <2>1
  <2>3. n \in 0..(Len(queued) - 1) /\ p = queued[n + 1]
    BY <1>4 DEF p
  <2> HIDE DEF z
  <2>4. stream[x] = Bytes(p)[z]
    BY <1>1, <1>5, <2>2, <2>3, NextByte
  <2>5. Bytes(p)[z] = LengthBytes(Len(p.body))[y]
    BY <1>7 DEF z
  <2>6. byte = stream[x]
    BY <1>4, <2>1
  <2> QED BY <2>1, <2>4, <2>5, <2>6
<1>11. /\ byte \in Nat /\ ~(count < -MaxCount)
       /\ byte >= Base => InLength(new, p, k + 1)
       /\ ~(byte >= Base) => k + 1 = Count(p) /\ InBody(full, p, 0)
  <2> HIDE DEF byte
  <2>1. Sound(p) /\ k \in Nat /\ InLength(in_packet, p, k)
    BY <1>4, <1>8
  <2> QED BY <1>10, <2>1, OneMore
<1>12. Fields(new) /\ Fields(full)
  BY DEF Fields, AfterByte, AfterLast
<1>13. /\ UNCHANGED failed
       /\ byte >= Base => in_packet' = new /\ UNCHANGED handled
       /\ ~(byte >= Base) => Complete(full)
  <2> DEFINE pkt == [in_packet EXCEPT !.remaining_count = count,
                                      !.remaining_length = @ + Digit(byte),
                                      !.remaining_mult = @ * Base]
             len == in_packet.remaining_length + (byte % Base) * in_packet.remaining_mult
             mult == in_packet.remaining_mult * Base
  <2>1. pkt = new
    <3>1. pkt = [in_packet EXCEPT !.remaining_count = count, !.remaining_length = len,
                                  !.remaining_mult = mult]
      BY Zenon DEF pkt, Digit, len, mult
    <3>2. new = [command |-> in_packet.command, remaining_count |-> count,
                 remaining_mult |-> mult, remaining_length |-> len,
                 to_process |-> in_packet.to_process, payload |-> in_packet.payload]
      BY Zenon DEF AfterByte
    <3> HIDE DEF pkt, count, len, mult, byte, new
    <3> QED BY <1>9, <3>1, <3>2, ChangedLength
  <2>2. [pkt EXCEPT !.remaining_count = -count, !.to_process = pkt.remaining_length] = full
    <3>1. full = [command |-> new.command, remaining_count |-> -count,
                  remaining_mult |-> new.remaining_mult, remaining_length |-> new.remaining_length,
                  to_process |-> new.remaining_length, payload |-> new.payload]
      BY DEF AfterByte, AfterLast
    <3> HIDE DEF new, full, count, pkt
    <3>2. [new EXCEPT !.remaining_count = -count, !.to_process = new.remaining_length] = full
      BY <1>12, <3>1, ChangedLast
    <3> QED BY <2>1, <3>2, Zenon
  <2>3. IF count < -MaxCount THEN failed' = TRUE /\ UNCHANGED <<in_packet, handled>>
        ELSE /\ UNCHANGED failed
             /\ IF byte >= Base THEN in_packet' = pkt /\ UNCHANGED handled
                ELSE Complete([pkt EXCEPT !.remaining_count = -count,
                                          !.to_process = pkt.remaining_length])
    BY DEF ReadLength
  <2> HIDE DEF pkt, new, full, byte, count
  <2> QED BY <1>11, <2>1, <2>2, <2>3
<1> HIDE DEF new, full, byte
<1>14. r + 1 = start[n + 1] + (got + 1) /\ got + 1 \in Nat /\ got + 1 = 1 + (k + 1) /\ k + 1 \in Nat
  <2>1. start[n + 1] \in Nat /\ r = start[n + 1] + got /\ got = 1 + k
    BY <1>4, <1>5, <1>8
  <2> QED BY <2>1
<1>15. Reader(start, queued, handled', in_packet', r + 1) /\ HandledNext
  <2>1. CASE byte >= Base
    <3>1. Reads(new, p, got + 1)
      BY <1>11, <1>12, <1>14, <2>1 DEF Reads
    <3>2. n < Len(queued) /\ n <= Len(queued)
      BY <1>4
    <3>3. Reader(start, queued, handled, new, r + 1)
      BY <1>4, <1>14, <3>1, <3>2 DEF Reader, n, p
    <3> QED BY <1>13, <2>1, <3>3 DEF HandledNext
  <2>2. CASE ~(byte >= Base)
    <3>1. InBody(full, p, 0) /\ Complete(full) /\ k + 1 = Count(p)
      BY <1>11, <1>13, <2>2
    <3>2. n = Len(handled) /\ n < Len(queued) /\ p = queued[n + 1]
      BY <1>4 DEF n, p
    <3>3. PICK j \in Nat : j = 0
      OBVIOUS
    <3>4. r + 1 = start[n + 1] + (1 + Count(p) + j) /\ InBody(full, p, j)
      BY <1>14, <3>1, <3>3
    <3> QED BY <1>2, <1>4, <1>12, <3>1, <3>2, <3>4, BodyRead
  <2> QED BY <2>1, <2>2
<1>16. Line(all, start, queued, r + 1, Tail(stream), current_out_packet, out_packet)
  <2>1. 1 \in 1..Len(stream) /\ Tail(stream) = SubSeq(stream, 1 + 1, Len(stream))
    BY <1>3, <1>4
  <2> QED BY <1>2, <2>1, LineReads
<1>17. Kept(all, start, r + 1)'
  BY <1>2, <1>3, <1>15, <1>16 DEF Kept
<1>18. failed' = FALSE
  BY <1>13 DEF Inv
<1> QED BY <1>3, <1>15, <1>17, <1>18 DEF Inv

(* Some bytes more of the body.                                             *)
LEMMA MoreBody ==
  ASSUME NEW p, Sound(p), NEW pkt, NEW k \in Nat, InBody(pkt, p, k), NEW b \in Nat,
         b <= pkt.to_process, NEW s \in Seq(Nat), Len(s) = b,
         \A x \in 1..b : s[x] = p.body[k + x],
         NEW new, new.command = pkt.command, new.remaining_count = pkt.remaining_count,
         new.to_process = pkt.to_process - b, new.payload = pkt.payload \o s
  PROVE  InBody(new, p, k + b)
<1> DEFINE L == Len(p.body)
           t == pkt.payload
<1>1. L \in Nat
  BY BytesAre
<1>2. /\ pkt.command = p.command /\ pkt.remaining_count = Count(p)
      /\ k \in 0..L /\ pkt.to_process = L - k
      /\ t \in Seq(Nat) /\ Len(t) = k /\ \A i \in 1..k : t[i] = p.body[i]
  BY Zenon DEF InBody
<1> HIDE DEF L
<1>3. k + b \in 0..L /\ new.to_process = L - (k + b)
  BY <1>1, <1>2
<1> HIDE DEF t
<1>4. /\ t \o s \in Seq(Nat) /\ Len(t \o s) = Len(t) + Len(s)
      /\ \A i \in 1..Len(t) : (t \o s)[i] = t[i]
      /\ \A i \in 1..Len(s) : (t \o s)[Len(t) + i] = s[i]
  BY <1>2, Behind
<1> DEFINE u == t \o s
<1>5. new.payload = u
  BY DEF t
<1> HIDE DEF u
<1>6. u \in Seq(Nat) /\ Len(u) = k + b /\ (\A i \in 1..k : u[i] = t[i]) /\ (\A i \in 1..b : u[k + i] = s[i])
  BY <1>2, <1>4 DEF u
<1>7. ASSUME NEW i \in 1..(k + b) PROVE u[i] = p.body[i]
  <2>1. CASE i \in 1..k
    BY <1>2, <1>6, <2>1
  <2>2. CASE i \notin 1..k
    <3>1. PICK x \in 1..b : i = k + x
      <4>1. i - k \in 1..b /\ i = k + (i - k)
        BY <2>2
      <4> QED BY <4>1
    <3> QED BY <1>6, <3>1
  <2> QED BY <2>1, <2>2
<1>8. new.command = p.command /\ new.remaining_count = Count(p)
  BY <1>2
<1> QED BY <1>3, <1>5, <1>6, <1>7, <1>8 DEF InBody, L

(* The body comes in any number of pieces.                                  *)
LEMMA ReadPayloadStep ==
  ASSUME Inv, NEW b \in Nat \ {0}, ReadPayload(b)
  PROVE  Inv' /\ queued' = queued /\ HandledNext
<1>1. PICK all, start, r : Kept(all, start, r)
  BY DEF Inv
<1> DEFINE n   == Len(handled)
           p   == queued[n + 1]
           s   == SubSeq(stream, 1, b)
           pkt == [in_packet EXCEPT !.to_process = @ - b, !.payload = @ \o SubSeq(stream, 1, b)]
<1>2. Framing(all, start, queued) /\ Line(all, start, queued, r, stream, current_out_packet, out_packet)
  BY <1>1 DEF Kept
<1>3. /\ b \in 1..Len(stream) /\ b <= in_packet.to_process /\ Complete(pkt)
      /\ stream' = SubSeq(stream, b + 1, Len(stream))
      /\ UNCHANGED <<out_packet, current_out_packet, failed, queued>>
  BY DEF ReadPayload
<1> HIDE DEF pkt
<1>4. /\ n \in 0..(Len(queued) - 1) /\ Len(queued) \in Nat /\ Sound(p)
      /\ handled \in Seq(Packets) /\ (\A i \in 1..n : handled[i] = queued[i])
      /\ start[n + 1] \in Nat /\ r \in Nat /\ stream \in Seq(Nat) /\ Len(stream) \in Nat \ {0}
      /\ \/ in_packet = Cleaned /\ r = start[n + 1]
         \/ \E got \in Nat : r = start[n + 1] + got /\ Reads(in_packet, p, got)
  <2> HIDE DEF n, p
  <2>1. n = Len(handled) /\ p = queued[n + 1]
    BY DEF n, p
  <2>2. stream # <<>>
    <3>1. Len(<<>>) = 0
      OBVIOUS
    <3> QED BY <1>3, <3>1
  <2> QED BY <1>1, <2>1, <2>2, Reading
<1>5. PICK got \in Nat : r = start[n + 1] + got /\ Reads(in_packet, p, got)
  <2>1. in_packet # Cleaned
    BY <1>3 DEF Cleaned
  <2> QED BY <1>4, <2>1
<1>6. MaxCount \in Nat
  BY PacketsAssumption DEF PacketsAssumption
<1> HIDE DEF n, p
<1>7. /\ Len(p.body) \in Nat /\ Count(p) \in 1..MaxCount /\ Len(Bytes(p)) = 1 + Count(p) + Len(p.body)
      /\ \A i \in 1..Len(p.body) : Bytes(p)[1 + Count(p) + i] = p.body[i]
  BY <1>4, BytesAre
<1>8. PICK k \in Nat : got = 1 + Count(p) + k /\ InBody(in_packet, p, k)
  <2>1. ASSUME NEW k \in Nat, InLength(in_packet, p, k) PROVE FALSE
    <3>1. in_packet.to_process = 0
      BY <2>1 DEF InLength
    <3> QED BY <1>3, <3>1
  <2> QED BY <1>5, <2>1 DEF Reads
<1>9. k <= Len(p.body) /\ in_packet.to_process = Len(p.body) - k /\ Fields(in_packet)
  <2>1. k \in 0..Len(p.body)
    BY <1>8 DEF InBody
  <2> QED BY <1>5, <1>7, <1>8, <2>1 DEF InBody, Reads
<1>numbers. PICK c \in Nat, L \in Nat, at \in Nat :
              /\ c = Count(p) /\ L = Len(p.body) /\ at = start[n + 1]
              /\ got = 1 + c + k /\ r = at + got /\ k <= L /\ b <= L - k
              /\ Len(Bytes(p)) = 1 + c + L
  <2>1. Count(p) \in Nat
    BY <1>6, <1>7
  <2>2. b <= Len(p.body) - k
    BY <1>3, <1>9
  <2> QED BY <1>4, <1>5, <1>7, <1>8, <1>9, <2>1, <2>2, Zenon
<1>10. s \in Seq(Nat) /\ Len(s) = b /\ \A x \in 1..b : s[x] = stream[x]
  <2>1. b \in 0..Len(stream)
    BY <1>3
  <2> QED BY <1>4, <2>1, FirstPart
<1>11. ASSUME NEW x \in 1..b PROVE s[x] = p.body[k + x]
  <2> DEFINE y == k + x
             z == 1 + c + y
  <2>1. x \in 1..Len(stream)
    BY <1>3, <1>4
  <2>2. y \in 1..L /\ z = got + x /\ z <= 1 + c + L
    <3>1. got = 1 + c + k /\ b <= L - k
      BY <1>numbers, Zenon
    <3> QED BY <3>1
  <2>3. n \in 0..(Len(queued) - 1) /\ p = queued[n + 1]
    BY <1>4 DEF p
  <2> HIDE DEF z, y
  <2>4. stream[x] = Bytes(p)[z]
    <3>1. z <= Len(Bytes(p))
      BY <1>numbers, <2>2, Zenon
    <3> QED BY <1>1, <1>5, <2>1, <2>2, <2>3, <3>1, NextByte
  <2>5. Bytes(p)[z] = p.body[y]
    <3>1. z = 1 + Count(p) + y /\ y \in 1..Len(p.body)
      BY <1>numbers, <2>2, Zenon DEF z
    <3> QED BY <1>7, <3>1, Zenon
  <2>6. s[x] = p.body[y]
    BY <1>10, <2>4, <2>5
  <2> QED BY <2>6 DEF y
<1>12. pkt = [command |-> in_packet.command, remaining_count |-> in_packet.remaining_count,
              remaining_mult |-> in_packet.remaining_mult,
              remaining_length |-> in_packet.remaining_length,
              to_process |-> in_packet.to_process - b, payload |-> in_packet.payload \o s]
  <2> DEFINE x == in_packet.to_process - b
             y == in_packet.payload \o s
  <2>1. pkt = [in_packet EXCEPT !.to_process = x, !.payload = y]
    BY Zenon DEF pkt
  <2> HIDE DEF x, y
  <2>2. pkt = [command |-> in_packet.command, remaining_count |-> in_packet.remaining_count,
               remaining_mult |-> in_packet.remaining_mult,
               remaining_length |-> in_packet.remaining_length, to_process |-> x, payload |-> y]
    BY <1>9, <2>1, ChangedBody
  <2> QED BY <2>2 DEF x, y
<1> HIDE DEF s
<1>13. /\ Fields(pkt) /\ pkt.command = in_packet.command /\ pkt.remaining_count = in_packet.remaining_count
       /\ pkt.to_process = in_packet.to_process - b /\ pkt.payload = in_packet.payload \o s
  BY <1>12 DEF Fields
<1>14. InBody(pkt, p, k + b) /\ k + b \in Nat
  <2>1. \A x \in 1..b : s[x] = p.body[k + x]
    BY <1>11
  <2>2. Sound(p) /\ InBody(in_packet, p, k) /\ b \in Nat /\ b <= in_packet.to_process
        /\ s \in Seq(Nat) /\ Len(s) = b
    BY <1>3, <1>4, <1>8, <1>10
  <2>3. InBody(pkt, p, k + b)
    BY <1>13, <2>1, <2>2, MoreBody
  <2> QED BY <2>3
<1>15. Reader(start, queued, handled', in_packet', r + b) /\ HandledNext
  <2>1. PICK j \in Nat : j = k + b
    BY <1>14
  <2>2. InBody(pkt, p, j)
    BY <1>14, <2>1, Zenon
  <2>3. r + b = start[n + 1] + (1 + Count(p) + j)
    <3>1. r = at + got /\ got = 1 + c + k
      BY <1>numbers, Zenon
    <3>2. r + b = at + (1 + c + j)
      BY <2>1, <3>1
    <3> QED BY <1>numbers, <3>2, Zenon
  <2>4. n = Len(handled) /\ n < Len(queued) /\ p = queued[n + 1]
    BY <1>4 DEF n, p
  <2>5. PICK q : q = r + b
    OBVIOUS
  <2>6. q = start[n + 1] + (1 + Count(p) + j)
    BY <2>3, <2>5
  <2>7. handled \in Seq(Packets) /\ \A i \in 1..Len(handled) : handled[i] = queued[i]
    BY <1>4, <2>4
  <2>8. Reader(start, queued, handled', in_packet', q) /\ HandledNext
    BY <1>2, <1>3, <1>13, <2>2, <2>4, <2>6, <2>7, BodyRead
  <2> QED BY <2>5, <2>8
<1>16. Line(all, start, queued, r + b, stream', current_out_packet, out_packet)
  BY <1>2, <1>3, LineReads
<1>17. Kept(all, start, r + b)'
  BY <1>2, <1>3, <1>15, <1>16 DEF Kept
<1>18. failed' = FALSE
  BY <1>3 DEF Inv
<1> QED BY <1>3, <1>15, <1>17, <1>18 DEF Inv

-----------------------------------------------------------------------------
(* The writer, and the invariant.                                           *)

(* Nothing is left of a sequence behind its last place.                     *)
LEMMA NoRest ==
  ASSUME NEW s \in Seq(Nat), NEW k, k = Len(s)
  PROVE  SubSeq(s, k + 1, Len(s)) = <<>>
<1> DEFINE t == SubSeq(s, k + 1, Len(s))
<1>1. k \in 0..Len(s) /\ Len(s) - k = 0
  OBVIOUS
<1>2. t \in Seq(Nat) /\ Len(t) = 0
  BY <1>1, LastPart
<1> HIDE DEF t
<1>3. t = <<>>
  BY <1>2
<1> QED BY <1>3 DEF t

(* packet__write, whatever the socket takes: the packets follow each other. *)
LEMMA WriteStep ==
  ASSUME Inv, NEW k \in Nat, Write(k)
  PROVE  Inv' /\ queued' = queued /\ HandledNext
<1>1. PICK all, start, r : Kept(all, start, r)
  BY DEF Inv
<1> DEFINE fresh   == current_out_packet = <<>>
           current == IF fresh THEN Taken ELSE current_out_packet
           rest    == IF fresh THEN Left ELSE out_packet
           done    == k = Len(current)
           str     == stream \o SubSeq(current, 1, k)
           behind  == SubSeq(current, k + 1, Len(current))
<1>2. /\ Framing(all, start, queued)
      /\ Line(all, start, queued, r, stream, current_out_packet, out_packet)
      /\ Reader(start, queued, handled, in_packet, r)
  BY <1>1 DEF Kept
<1>3. /\ k \in 1..Len(current) /\ stream' = str
      /\ current_out_packet' = IF ~done THEN behind
                               ELSE IF rest = <<>> THEN <<>> ELSE Bytes(Head(rest))
      /\ out_packet' = IF done /\ rest # <<>> THEN Tail(rest) ELSE rest
      /\ UNCHANGED <<in_packet, failed, queued, handled>>
  BY DEF Write, Rest
<1>4. Line(all, start, queued, r, stream, current, rest)
  <2>1. CASE ~fresh
    BY <1>2, <2>1
  <2>2. CASE fresh
    <3>1. out_packet # <<>>
      <4>1. SUFFICES ASSUME out_packet = <<>> PROVE FALSE
        OBVIOUS
      <4>2. Len(current) = 0
        BY <2>2, <4>1 DEF Taken
      <4> QED BY <1>3, <4>2
    <3>2. current = Bytes(Head(out_packet)) /\ rest = Tail(out_packet)
      BY <2>2, <3>1 DEF Taken, Left
    <3>3. Line(all, start, queued, r, stream, <<>>, out_packet)
      BY <1>2, <2>2
    <3>4. Line(all, start, queued, r, stream, Bytes(Head(out_packet)), Tail(out_packet))
      BY <1>2, <3>1, <3>3, LineTakes
    <3> HIDE DEF current, rest
    <3> QED BY <3>2, <3>4
  <2> QED BY <2>1, <2>2
<1> HIDE DEF current, rest, fresh
<1>5. Line(all, start, queued, r, str, behind, rest)
  BY <1>3, <1>4, LineMoves
<1>6. current \in Seq(Nat)
  BY <1>4 DEF Line
<1>7. done => behind = <<>>
  BY <1>6, NoRest
<1> HIDE DEF str, behind, done
<1>8. Line(all, start, queued, r, stream', current_out_packet', out_packet')
  <2>1. CASE ~done
    BY <1>3, <1>5, <2>1
  <2>2. CASE done /\ rest = <<>>
    BY <1>3, <1>5, <1>7, <2>2
  <2>3. CASE done /\ rest # <<>>
    <3>1. Line(all, start, queued, r, str, <<>>, rest)
      BY <1>5, <1>7, <2>3
    <3>2. Line(all, start, queued, r, str, Bytes(Head(rest)), Tail(rest))
      BY <1>2, <2>3, <3>1, LineTakes
    <3> QED BY <1>3, <2>3, <3>2
  <2> QED BY <2>1, <2>2, <2>3
<1>9. Kept(all, start, r)'
  BY <1>2, <1>3, <1>8 DEF Kept
<1>10. failed' = FALSE
  BY <1>3 DEF Inv
<1> QED BY <1>3, <1>9, <1>10 DEF Inv, HandledNext

(* packet__queue.                                                           *)
LEMMA QueueStep ==
  ASSUME Inv, NEW p \in Packets, Queue(p)
  PROVE  Inv' /\ queued' = Append(queued, p) /\ handled' = handled
<1>1. PICK all, start, r : Kept(all, start, r)
  BY DEF Inv
<1>2. /\ Framing(all, start, queued)
      /\ Line(all, start, queued, r, stream, current_out_packet, out_packet)
      /\ Reader(start, queued, handled, in_packet, r)
  BY <1>1 DEF Kept
<1>3. /\ out_packet' = Append(out_packet, p) /\ queued' = Append(queued, p)
      /\ UNCHANGED <<current_out_packet, stream, in_packet, failed, handled>>
  BY DEF Queue
<1>4. Sound(p)
  BY DEF Queue, Sound
<1> DEFINE na == all \o Bytes(p)
           ns == Longer(all, start, queued, p)
<1>5. Framing(na, ns, Append(queued, p))
  BY <1>2, <1>4, FramingGrows
<1>6. Line(na, ns, Append(queued, p), r, stream, current_out_packet, Append(out_packet, p))
  BY <1>2, <1>4, LineGrows
<1>7. Reader(ns, Append(queued, p), handled, in_packet, r)
  BY <1>2, <1>4, ReaderStays
<1> HIDE DEF na, ns
<1>8. PICK a, s : a = na /\ s = ns
  OBVIOUS
<1>9. Framing(a, s, queued') /\ Reader(s, queued', handled', in_packet', r)
      /\ Line(a, s, queued', r, stream', current_out_packet', out_packet')
  BY <1>3, <1>5, <1>6, <1>7, <1>8
<1>10. Kept(a, s, r)'
  BY <1>9 DEF Kept
<1>11. failed' = FALSE
  BY <1>3 DEF Inv
<1> QED BY <1>3, <1>10, <1>11 DEF Inv

(* A connection that has carried nothing yet.                               *)
LEMMA NothingYet ==
  /\ Framing(<<>>, [i \in 1..1 |-> 0], <<>>)
  /\ Line(<<>>, [i \in 1..1 |-> 0], <<>>, 0, <<>>, <<>>, <<>>)
  /\ Reader([i \in 1..1 |-> 0], <<>>, <<>>, Cleaned, 0)
<1> DEFINE start == [i \in 1..1 |-> 0]
           none == <<>>
<1>1. start[1] = 0
  OBVIOUS
<1>2. Framing(none, start, none)
  BY FramingStarts
<1>3. none \in Seq(Nat) /\ none \in Seq(Packets) /\ Len(none) = 0 /\ 1..0 = {}
  OBVIOUS
<1> HIDE DEF start, none
<1>4. Line(none, start, none, 0, none, none, none)
  BY <1>1, <1>3 DEF Line
<1>5. Reader(start, none, none, Cleaned, 0)
  BY <1>1, <1>3 DEF Reader
<1> QED BY <1>2, <1>4, <1>5 DEF start, none

(* The program starts so.                                                   *)
LEMMA InitInv ==
  ASSUME Init
  PROVE  Inv
<1>1. Kept(<<>>, [i \in 1..1 |-> 0], 0)
  BY NothingYet DEF Init, Kept
<1> QED BY <1>1 DEF Init, Inv

(* And so does a connection after one that was lost.                        *)
LEMMA ReconnectStep ==
  ASSUME Reconnect
  PROVE  Inv' /\ queued' = <<>> /\ handled' = <<>>
<1>1. Kept(<<>>, [i \in 1..1 |-> 0], 0)'
  BY NothingYet DEF Reconnect, Kept
<1> QED BY <1>1 DEF Reconnect, Inv

(* A step of the packet layer keeps the invariant, and is one of Channel.   *)
LEMMA NextInv ==
  ASSUME Inv, [Next]_vars
  PROVE  Inv' /\ [IsChannel!Next]_<<queued, handled>>
<1>1. ASSUME queued' = queued, HandledNext PROVE [IsChannel!Next]_<<queued, handled>>
  BY <1>1 DEF HandledNext, IsChannel!Next, IsChannel!Handle
<1>2. ASSUME NEW p \in Packets, Queue(p) PROVE Inv' /\ [IsChannel!Next]_<<queued, handled>>
  <2>1. Inv' /\ queued' = Append(queued, p) /\ handled' = handled
    BY <1>2, QueueStep
  <2> QED BY <2>1 DEF IsChannel!Next, IsChannel!Queue
<1>3. ASSUME NEW n \in 1..Capacity, Write(n) PROVE Inv' /\ [IsChannel!Next]_<<queued, handled>>
  <2>1. n \in Nat
    BY PacketsAssumption DEF PacketsAssumption
  <2> QED BY <1>1, <1>3, <2>1, WriteStep
<1>4. CASE ReadCommand
  BY <1>1, <1>4, ReadCommandStep
<1>5. CASE ReadLength
  BY <1>1, <1>5, ReadLengthStep
<1>6. ASSUME NEW n \in 1..Capacity, ReadPayload(n) PROVE Inv' /\ [IsChannel!Next]_<<queued, handled>>
  <2>1. n \in Nat \ {0}
    BY PacketsAssumption DEF PacketsAssumption
  <2> QED BY <1>1, <1>6, <2>1, ReadPayloadStep
<1>7. CASE Reconnect
  <2>1. Inv' /\ queued' = <<>> /\ handled' = <<>>
    BY <1>7, ReconnectStep
  <2> QED BY <2>1 DEF IsChannel!Next, IsChannel!NewConnection
<1>8. CASE UNCHANGED vars
  <2>1. Inv'
    BY <1>8 DEF vars, Inv, Kept
  <2> QED BY <1>8, <2>1 DEF vars
<1> QED BY <1>2, <1>3, <1>4, <1>5, <1>6, <1>7, <1>8 DEF Next, Read, Writes

(* The invariant holds.                                                     *)
LEMMA AlwaysInv == Spec => []Inv
<1>1. Init => Inv
  BY InitInv
<1>2. Inv /\ [Next]_vars => Inv'
  BY NextInv
<1> QED BY <1>1, <1>2, PTL DEF Spec

(* The reader never refuses the length of a packet that was queued          *)
(* (packet__read against packet__alloc).                                    *)
THEOREM NeverRefuses == Spec => []NeverFails
<1>1. Inv => NeverFails
  BY DEF Inv, NeverFails
<1> QED BY <1>1, AlwaysInv, PTL

(* Whatever pieces the bytes of a connection come in, the reader handles    *)
(* the packets that were queued, each whole and in their order              *)
(* (packet__queue, packet__write, packet__read).                            *)
THEOREM PacketsArriveWhole == Spec => ImplementsChannel
<1>1. Init => IsChannel!Init
  BY DEF Init, IsChannel!Init
<1>2. Inv /\ [Next]_vars => [IsChannel!Next]_<<queued, handled>>
  BY NextInv
<1> QED BY <1>1, <1>2, AlwaysInv, PTL DEF Spec, ImplementsChannel, IsChannel!Spec
=============================================================================
