------------------------ MODULE TransportRegistryProofs ------------------------
(***************************************************************************)
(* Theorems about the lists of transports: the links stay whole and a      *)
(* serial stays unique, for any number of transports, serials and threads  *)
(* that register and disconnect.                                           *)
(*                                                                         *)
(* A list is a ring: its nodes can be numbered so that the head is number  *)
(* 0 and number m + 1, and next and prev lead from each number to the one  *)
(* after and before it.                                                    *)
(***************************************************************************)
EXTENDS TransportRegistry, FunctionTheorems, FiniteSetTheorems, SequenceTheorems, TLAPS

LinksType == [nx : [Node -> Node], pv : [Node -> Node]]

Follows(k, f, m) ==
  \A n \in 0 .. m : k.nx[f[n]] = f[n + 1] /\ k.pv[f[n + 1]] = f[n]

\* The numbering f makes head and the members S a ring of m members.
Ring(k, head, S, m, f) ==
  /\ f[0] = head /\ f[m + 1] = head
  /\ \A n \in 1 .. m : f[n] \in S
  /\ \A t \in S : \E n \in 1 .. m : f[n] = t
  /\ \A a, b \in 1 .. m : f[a] = f[b] => a = b
  /\ Follows(k, f, m)

IsRing(k, head, S) ==
  \E m \in Nat : \E f \in [0 .. m + 1 -> Node] : Ring(k, head, S, m, f)

LEMMA NodeFacts ==
  /\ Transports \subseteq Node /\ Heads \subseteq Node /\ Garbage \in Node
  /\ Heads \cap Transports = {} /\ Garbage \notin Transports /\ Garbage \notin Heads
  /\ "pending_list" \in Heads /\ "transport_list" \in Heads
  /\ "pending_list" # "transport_list"
BY TransportsAssumption DEF Node, Heads, Garbage

-----------------------------------------------------------------------------
(* What the operations on links do to a ring.                              *)

\* Taking a member out of its list leaves the others a list.
LEMMA RingUnlink ==
  ASSUME NEW k \in LinksType, NEW head \in Heads, NEW S \in SUBSET Transports,
         NEW t \in S, IsRing(k, head, S)
  PROVE  /\ Unlink(k, t) \in LinksType
         /\ IsRing(Unlink(k, t), head, S \ {t})
<1>0. PICK m \in Nat : \E f \in [0 .. m + 1 -> Node] : Ring(k, head, S, m, f)
  BY DEF IsRing
<1>1. PICK f \in [0 .. m + 1 -> Node] : Ring(k, head, S, m, f)
  BY <1>0
<1>2. PICK p \in 1 .. m : f[p] = t
  BY <1>1 DEF Ring
<1> DEFINE k2 == Unlink(k, t)
           g == [n \in 0 .. m |-> IF n < p THEN f[n] ELSE f[n + 1]]
<1>3. /\ k.nx[t] = f[p + 1] /\ k.pv[t] = f[p - 1]
      /\ f[p + 1] \in Node /\ f[p - 1] \in Node
  BY <1>1, <1>2 DEF Ring, Follows
<1>4. k2 \in LinksType
  BY <1>3 DEF Unlink, LinksType
<1>5. \A n \in Node : /\ k2.nx[n] = IF n = f[p - 1] THEN f[p + 1] ELSE k.nx[n]
                      /\ k2.pv[n] = IF n = f[p + 1] THEN f[p - 1] ELSE k.pv[n]
  BY <1>3 DEF Unlink, LinksType
<1> HIDE DEF k2
<1>6. head \notin S
  BY NodeFacts
<1>7. \A a, b \in 0 .. m : f[a] = f[b] => a = b
  BY <1>1, <1>6 DEF Ring
<1>8. \A a, b \in 1 .. m + 1 : f[a] = f[b] => a = b
  BY <1>1, <1>6 DEF Ring
<1>9. m - 1 \in Nat /\ (m - 1) + 1 = m /\ g \in [0 .. m -> Node]
  BY <1>1, <1>2
<1>10. \A n \in 0 .. m : g[n] = IF n < p THEN f[n] ELSE f[n + 1]
  OBVIOUS
<1> HIDE DEF g
<1>11. Follows(k2, g, m - 1)
  <2> SUFFICES ASSUME NEW n \in 0 .. m - 1
               PROVE  k2.nx[g[n]] = g[n + 1] /\ k2.pv[g[n + 1]] = g[n]
    BY DEF Follows
  <2>1. n \in 0 .. m /\ n + 1 \in 0 .. m
    BY <1>9
  <2>2. CASE n < p - 1
    <3>1. g[n] = f[n] /\ g[n + 1] = f[n + 1]
      BY <2>1, <2>2, <1>10, <1>2
    <3>2. f[n] # f[p - 1] /\ f[n + 1] # f[p + 1]
      BY <2>1, <2>2, <1>7, <1>8, <1>2
    <3>3. k.nx[f[n]] = f[n + 1] /\ k.pv[f[n + 1]] = f[n]
      BY <2>1, <1>1 DEF Ring, Follows
    <3> QED BY <3>1, <3>2, <3>3, <1>5, <2>1
  <2>3. CASE n = p - 1
    <3>1. g[n] = f[p - 1] /\ g[n + 1] = f[p + 1]
      BY <2>1, <2>3, <1>10, <1>2
    <3> QED BY <3>1, <1>5, <1>3
  <2>4. CASE n > p - 1
    <3>1. g[n] = f[n + 1] /\ g[n + 1] = f[n + 2] /\ n + 1 \in 0 .. m /\ n + 2 \in 0 .. m + 1
      BY <2>1, <2>4, <1>10, <1>2
    <3>2. f[n + 1] # f[p - 1] /\ f[n + 2] # f[p + 1]
      BY <2>1, <2>4, <1>7, <1>8, <1>2
    <3>3. k.nx[f[n + 1]] = f[n + 2] /\ k.pv[f[n + 2]] = f[n + 1]
      BY <3>1, <1>1 DEF Ring, Follows
    <3> QED BY <3>1, <3>2, <3>3, <1>5, <2>1
  <2> QED BY <2>2, <2>3, <2>4, <1>2
<1>12. g[0] = head /\ g[m] = head
  BY <1>10, <1>1, <1>2 DEF Ring
<1>13. \A n \in 1 .. m - 1 : g[n] \in S \ {t}
  <2> TAKE n \in 1 .. m - 1
  <2>1. PICK a \in 1 .. m : g[n] = f[a] /\ a # p
    <3>1. CASE n < p
      BY <3>1, <1>10
    <3>2. CASE ~(n < p)
      BY <3>2, <1>10, <1>2
    <3> QED BY <3>1, <3>2
  <2> QED BY <2>1, <1>2, <1>1 DEF Ring
<1>14. \A u \in S \ {t} : \E n \in 1 .. m - 1 : g[n] = u
  <2> TAKE u \in S \ {t}
  <2>1. PICK a \in 1 .. m : f[a] = u
    BY <1>1 DEF Ring
  <2>2. a # p
    BY <2>1, <1>2
  <2>3. CASE a < p
    <3>1. g[a] = u /\ a \in 1 .. m - 1
      BY <2>1, <2>3, <1>10, <1>2
    <3> QED BY <3>1
  <2>4. CASE a > p
    <3>1. g[a - 1] = u /\ a - 1 \in 1 .. m - 1
      BY <2>1, <2>4, <1>10, <1>2
    <3> QED BY <3>1
  <2> QED BY <2>2, <2>3, <2>4
<1>15. \A a, b \in 1 .. m - 1 : g[a] = g[b] => a = b
  <2> TAKE a, b \in 1 .. m - 1
  <2> DEFINE x == IF a < p THEN a ELSE a + 1
             y == IF b < p THEN b ELSE b + 1
  <2>1. g[a] = f[x] /\ g[b] = f[y] /\ x \in 1 .. m + 1 /\ y \in 1 .. m + 1
    BY <1>10
  <2>2. x = y => a = b
    OBVIOUS
  <2> HIDE DEF x, y
  <2> QED BY <2>1, <2>2, <1>8
<1>16. Ring(k2, head, S \ {t}, m - 1, g)
  BY <1>9, <1>11, <1>12, <1>13, <1>14, <1>15 DEF Ring
<1>17. IsRing(k2, head, S \ {t})
  BY <1>16, <1>9 DEF IsRing
<1> QED BY <1>4, <1>17 DEF k2

\* Linking a transport in front of the head makes it the last of the list.
LEMMA RingLinkLast ==
  ASSUME NEW k \in LinksType, NEW head \in Heads, NEW S \in SUBSET Transports,
         NEW t \in Transports \ S, IsRing(k, head, S)
  PROVE  /\ LinkLast(k, t, head) \in LinksType
         /\ IsRing(LinkLast(k, t, head), head, S \union {t})
         /\ k.pv[head] \in S \union {head}
<1>0. PICK m \in Nat : \E f \in [0 .. m + 1 -> Node] : Ring(k, head, S, m, f)
  BY DEF IsRing
<1>1. PICK f \in [0 .. m + 1 -> Node] : Ring(k, head, S, m, f)
  BY <1>0
<1> DEFINE k2 == LinkLast(k, t, head)
           g == [n \in 0 .. m + 2 |-> IF n <= m THEN f[n] ELSE IF n = m + 1 THEN t ELSE head]
<1>2. head \notin Transports /\ head \in Node /\ t \in Node
  BY NodeFacts
<1>3. k.pv[head] = f[m] /\ f[m] \in Node /\ f[m] \in S \union {head}
  <2>1. k.pv[f[m + 1]] = f[m] /\ f[m + 1] = head
    BY <1>1 DEF Ring, Follows
  <2>2. m = 0 \/ m \in 1 .. m
    OBVIOUS
  <2> QED BY <2>1, <2>2, <1>1 DEF Ring
<1>4. k2 \in LinksType
  BY <1>2, <1>3 DEF LinkLast, LinksType
<1>5. \A n \in Node :
        /\ k2.nx[n] = IF n = f[m] THEN t ELSE IF n = t THEN head ELSE k.nx[n]
        /\ k2.pv[n] = IF n = head THEN t ELSE IF n = t THEN f[m] ELSE k.pv[n]
  BY <1>2, <1>3 DEF LinkLast, LinksType
<1> HIDE DEF k2
<1>6. g \in [0 .. m + 2 -> Node]
  BY <1>2
<1>7. \A n \in 0 .. m + 2 : g[n] = IF n <= m THEN f[n] ELSE IF n = m + 1 THEN t ELSE head
  OBVIOUS
<1> HIDE DEF g
<1>8. \A a, b \in 0 .. m : f[a] = f[b] => a = b
  BY <1>1, <1>2 DEF Ring
<1>9. \A n \in 0 .. m : f[n] # t
  BY <1>1, <1>2 DEF Ring
<1>10. Follows(k2, g, m + 1)
  <2> SUFFICES ASSUME NEW n \in 0 .. m + 1
               PROVE  k2.nx[g[n]] = g[n + 1] /\ k2.pv[g[n + 1]] = g[n]
    BY DEF Follows
  <2>1. CASE n < m
    <3>1. g[n] = f[n] /\ g[n + 1] = f[n + 1] /\ n \in 0 .. m /\ n + 1 \in 1 .. m
      BY <2>1, <1>7
    <3>2. f[n] # f[m] /\ f[n] # t /\ f[n + 1] # head /\ f[n + 1] # t
      BY <3>1, <2>1, <1>8, <1>9, <1>1, <1>2 DEF Ring
    <3>3. k.nx[f[n]] = f[n + 1] /\ k.pv[f[n + 1]] = f[n]
      BY <3>1, <1>1 DEF Ring, Follows
    <3> QED BY <3>1, <3>2, <3>3, <1>5
  <2>2. CASE n = m
    <3>1. g[n] = f[m] /\ g[n + 1] = t
      BY <2>2, <1>7
    <3> QED BY <3>1, <1>5, <1>2, <1>3
  <2>3. CASE n = m + 1
    <3>1. g[n] = t /\ g[n + 1] = head
      BY <2>3, <1>7
    <3>2. t # f[m]
      BY <1>9
    <3> QED BY <3>1, <3>2, <1>5, <1>2
  <2> QED BY <2>1, <2>2, <2>3
<1>11. g[0] = head /\ g[(m + 1) + 1] = head
  BY <1>7, <1>1 DEF Ring
<1>12. \A n \in 1 .. m + 1 : g[n] \in S \union {t}
  BY <1>7, <1>1 DEF Ring
<1>13. \A u \in S \union {t} : \E n \in 1 .. m + 1 : g[n] = u
  <2> TAKE u \in S \union {t}
  <2>1. CASE u = t
    <3>1. g[m + 1] = t /\ m + 1 \in 1 .. m + 1
      BY <1>7
    <3> QED BY <3>1, <2>1
  <2>2. CASE u \in S
    <3>1. PICK a \in 1 .. m : f[a] = u
      BY <2>2, <1>1 DEF Ring
    <3>2. g[a] = u /\ a \in 1 .. m + 1
      BY <3>1, <1>7
    <3> QED BY <3>2
  <2> QED BY <2>1, <2>2
<1>14. \A a, b \in 1 .. m + 1 : g[a] = g[b] => a = b
  <2> TAKE a, b \in 1 .. m + 1
  <2>1. CASE a \in 1 .. m /\ b \in 1 .. m
    BY <2>1, <1>7, <1>1 DEF Ring
  <2>2. CASE a = m + 1 \/ b = m + 1
    BY <2>2, <1>7, <1>9
  <2> QED BY <2>1, <2>2
<1>15. Ring(k2, head, S \union {t}, m + 1, g)
  BY <1>10, <1>11, <1>12, <1>13, <1>14 DEF Ring
<1>16. m + 1 \in Nat /\ (m + 1) + 1 = m + 2
  OBVIOUS
<1>17. IsRing(k2, head, S \union {t})
  BY <1>15, <1>16, <1>6 DEF IsRing
<1> QED BY <1>3, <1>4, <1>17 DEF k2

\* A list does not notice what happens to the links of other nodes.
LEMMA RingFrame ==
  ASSUME NEW k, NEW k2, NEW head, NEW S, IsRing(k, head, S),
         \A n \in S \union {head} : k2.nx[n] = k.nx[n] /\ k2.pv[n] = k.pv[n]
  PROVE  IsRing(k2, head, S)
<1>0. PICK m \in Nat : \E f \in [0 .. m + 1 -> Node] : Ring(k, head, S, m, f)
  BY DEF IsRing
<1>1. PICK f \in [0 .. m + 1 -> Node] : Ring(k, head, S, m, f)
  BY <1>0
<1>2. \A n \in 0 .. m + 1 : f[n] \in S \union {head}
  BY <1>1 DEF Ring
<1>3. Follows(k2, f, m)
  <2> SUFFICES ASSUME NEW n \in 0 .. m
               PROVE  k2.nx[f[n]] = f[n + 1] /\ k2.pv[f[n + 1]] = f[n]
    BY DEF Follows
  <2>1. n \in 0 .. m + 1 /\ n + 1 \in 0 .. m + 1
    OBVIOUS
  <2>2. k.nx[f[n]] = f[n + 1] /\ k.pv[f[n + 1]] = f[n]
    BY <1>1 DEF Ring, Follows
  <2> QED BY <2>1, <2>2, <1>2
<1>4. Ring(k2, head, S, m, f)
  BY <1>1, <1>3 DEF Ring
<1> QED BY <1>4 DEF IsRing

\* The neighbours of a member are on its list.
LEMMA RingNeighbours ==
  ASSUME NEW k, NEW head, NEW S, IsRing(k, head, S), NEW t \in S \union {head}
  PROVE  k.nx[t] \in S \union {head} /\ k.pv[t] \in S \union {head}
<1>0. PICK m \in Nat : \E f \in [0 .. m + 1 -> Node] : Ring(k, head, S, m, f)
  BY DEF IsRing
<1>1. PICK f \in [0 .. m + 1 -> Node] : Ring(k, head, S, m, f)
  BY <1>0
<1>2. \A n \in 0 .. m + 1 : f[n] \in S \union {head}
  BY <1>1 DEF Ring
<1>3. PICK p \in 0 .. m : f[p] = t
  BY <1>1 DEF Ring
<1>4. PICK r \in 1 .. m + 1 : f[r] = t
  BY <1>1 DEF Ring
<1>5. k.nx[t] = f[p + 1] /\ p + 1 \in 0 .. m + 1
  BY <1>1, <1>3 DEF Ring, Follows
<1>6. k.pv[t] = f[r - 1] /\ r - 1 \in 0 .. m + 1
  <2>1. r - 1 \in 0 .. m /\ (r - 1) + 1 = r
    OBVIOUS
  <2>2. k.pv[f[(r - 1) + 1]] = f[r - 1]
    BY <2>1, <1>1 DEF Ring, Follows
  <2> QED BY <2>1, <2>2, <1>4
<1> QED BY <1>2, <1>5, <1>6

-----------------------------------------------------------------------------
(* What a walk along the links visits.                                     *)

\* Every non-empty set of numbers has a least one: the intervals up to its members
\* are finite sets, and one of them includes no other.
LEMMA LeastNumber ==
  ASSUME NEW A \in SUBSET Nat, A # {}
  PROVE  \E m \in A : \A k \in A : m <= k
<1> DEFINE T == {1 .. n : n \in A}
<1>1. /\ T \subseteq FiniteSubsetsOf(Nat)
      /\ T # {}
  <2>1. \A n \in A : IsFiniteSet(1 .. n) /\ 1 .. n \in SUBSET Nat
    <3> TAKE n \in A
    <3>1. 1 \in Int /\ n \in Int
      OBVIOUS
    <3> QED BY <3>1, FS_Interval
  <2> QED BY <2>1 DEF FiniteSubsetsOf
<1>2. PICK U \in T : \A V \in T : <<V, U>> \notin StrictSubsetOrdering(Nat)
  <2> HIDE DEF T
  <2> QED BY <1>1, WFMin, FS_StrictSubsetOrderingWellFounded, Zenon
<1>3. PICK m \in A : U = 1 .. m
  OBVIOUS
<1>4. ASSUME NEW k \in A, k < m PROVE FALSE
  <2>1. 1 .. k \subseteq 1 .. m /\ m \in 1 .. m /\ m \notin 1 .. k
    BY <1>4
  <2>2. 1 .. k \in SUBSET Nat /\ 1 .. m \in SUBSET Nat /\ 1 .. k # 1 .. m
    BY <2>1
  <2>3. <<1 .. k, 1 .. m>> \in StrictSubsetOrdering(Nat)
    BY <2>1, <2>2 DEF StrictSubsetOrdering
  <2> QED BY <2>3, <1>2, <1>3
<1> QED BY <1>4

\* f starts at x, and F[n] takes it from one number to the next.
Iterates(f, x, F, N) == f[0] = x /\ \A n \in 1 .. N : f[n] = F[n][f[n - 1]]

\* A step by step definition defines something.
LEMMA IteratesExists ==
  ASSUME NEW N \in Nat, NEW X, NEW x \in X, NEW F \in [1 .. N -> [X -> X]]
  PROVE  \E f \in [0 .. N -> X] : Iterates(f, x, F, N)
<1> DEFINE Good(n) == \E f \in [0 .. n -> X] : Iterates(f, x, F, n)
           Bad == {n \in 0 .. N : ~Good(n)}
<1>1. Bad = {}
  <2> SUFFICES ASSUME Bad # {} PROVE FALSE
    OBVIOUS
  <2>1. PICK n \in Bad : \A i \in Bad : n <= i
    <3>1. Bad \in SUBSET Nat
      OBVIOUS
    <3> HIDE DEF Bad
    <3> QED BY <3>1, LeastNumber
  <2>2. n \in 0 .. N /\ ~Good(n)
    BY <2>1
  <2>3. CASE n = 0
    <3> DEFINE f == [i \in 0 .. 0 |-> x]
    <3>1. f \in [0 .. 0 -> X] /\ Iterates(f, x, F, 0)
      BY DEF Iterates
    <3> QED BY <3>1, <2>2, <2>3
  <2>4. CASE n # 0
    <3>1. n - 1 \in 0 .. N /\ ~(n <= n - 1) /\ n \in 1 .. N
      BY <2>4, <2>2
    <3>2. Good(n - 1)
      BY <3>1, <2>1
    <3>3. PICK f \in [0 .. n - 1 -> X] : Iterates(f, x, F, n - 1)
      BY <3>2
    <3> DEFINE h == [i \in 0 .. n |-> IF i = n THEN F[n][f[n - 1]] ELSE f[i]]
    <3>4. F[n][f[n - 1]] \in X
      BY <3>1
    <3>5. h \in [0 .. n -> X]
      BY <3>1, <3>4
    <3>6. \A i \in 0 .. n : h[i] = IF i = n THEN F[n][f[n - 1]] ELSE f[i]
      OBVIOUS
    <3> HIDE DEF h
    <3>7. Iterates(h, x, F, n)
      BY <3>1, <3>3, <3>6 DEF Iterates
    <3> QED BY <3>5, <3>7, <2>2
  <2> QED BY <2>3, <2>4
<1>2. N \in 0 .. N
  OBVIOUS
<1> QED BY <1>1, <1>2

\* Whatever holds of the start and is kept by every step holds of all of them.
LEMMA IteratesStays ==
  ASSUME NEW N \in Nat, NEW P, NEW f,
         f[0] \in P, \A n \in 1 .. N : f[n - 1] \in P => f[n] \in P
  PROVE  \A n \in 0 .. N : f[n] \in P
<1> DEFINE Bad == {n \in 0 .. N : f[n] \notin P}
<1> SUFFICES ASSUME Bad # {} PROVE FALSE
  OBVIOUS
<1>1. PICK n \in Bad : \A i \in Bad : n <= i
  <2>1. Bad \in SUBSET Nat
    OBVIOUS
  <2> HIDE DEF Bad
  <2> QED BY <2>1, LeastNumber
<1>2. n \in 1 .. N
  BY <1>1
<1>3. n - 1 \in 0 .. N /\ ~(n <= n - 1)
  BY <1>2
<1>4. f[n - 1] \in P
  BY <1>3, <1>1
<1> QED BY <1>1, <1>2, <1>4

LEMMA TransportsCount == Cardinality(Transports) \in Nat
BY TransportsAssumption, FS_CardinalityType

\* Reached does what its definition says, and does not leave a set that the links
\* do not leave.
LEMMA ReachedFacts ==
  ASSUME NEW along \in [Node -> Node], NEW head \in Node, NEW P \in SUBSET Node,
         along[head] \in P, \A n \in P : along[n] \in P
  PROVE  \A n \in 1 .. Cardinality(Transports) + 1 :
           /\ Reached(along, head)[n] =
                IF n = 1 THEN along[head]
                ELSE IF Reached(along, head)[n - 1] \in {head, Garbage}
                     THEN Reached(along, head)[n - 1]
                     ELSE along[Reached(along, head)[n - 1]]
           /\ Reached(along, head)[n] \in P
<1> DEFINE C == Cardinality(Transports)
           at == Reached(along, head)
           Step == [y \in P |-> IF y \in {head, Garbage} THEN y ELSE along[y]]
           F == [n \in 1 .. C |-> Step]
<1>1. C \in Nat
  BY TransportsCount
<1>2. Step \in [P -> P] /\ \A y \in P : Step[y] = IF y \in {head, Garbage} THEN y ELSE along[y]
  OBVIOUS
<1>3. F \in [1 .. C -> [P -> P]] /\ \A n \in 1 .. C : F[n] = Step
  BY <1>2
<1> HIDE DEF C, F, Step
<1>4. PICK f \in [0 .. C -> P] : Iterates(f, along[head], F, C)
  BY <1>1, <1>3, IteratesExists
<1> DEFINE g == [n \in 1 .. C + 1 |-> f[n - 1]]
           Rec(h) == [n \in 1 .. C + 1 |->
                        IF n = 1 THEN along[head]
                        ELSE IF h[n - 1] \in {head, Garbage} THEN h[n - 1]
                        ELSE along[h[n - 1]]]
<1>5. g = Rec(g)
  <2>1. ASSUME NEW n \in 1 .. C + 1 PROVE g[n] = Rec(g)[n]
    <3>1. CASE n = 1
      BY <3>1, <1>1, <1>4 DEF Iterates
    <3>2. CASE n # 1
      <4>1. n - 1 \in 1 .. C /\ n - 1 \in 1 .. C + 1 /\ (n - 1) - 1 \in 0 .. C
        BY <3>2, <1>1
      <4>2. g[n] = f[n - 1] /\ g[n - 1] = f[(n - 1) - 1]
        BY <4>1
      <4>3. f[n - 1] = F[n - 1][f[(n - 1) - 1]] /\ f[(n - 1) - 1] \in P
        BY <4>1, <1>4 DEF Iterates
      <4>4. f[n - 1] = Step[f[(n - 1) - 1]]
        BY <4>1, <4>3, <1>3
      <4> HIDE DEF g
      <4> QED BY <3>2, <4>2, <4>3, <4>4, <1>2
    <3> QED BY <3>1, <3>2
  <2> QED BY <2>1
<1>6. at = Rec(at)
  <2>1. at = CHOOSE h : h = Rec(h)
    BY DEF Reached, C
  <2> HIDE DEF at, g, Rec
  <2> QED BY <2>1, <1>5
<1>7. \A n \in 1 .. C + 1 :
        at[n] = IF n = 1 THEN along[head]
                ELSE IF at[n - 1] \in {head, Garbage} THEN at[n - 1] ELSE along[at[n - 1]]
  <2> HIDE DEF at
  <2>1. ASSUME NEW n \in 1 .. C + 1
        PROVE  Rec(at)[n] = IF n = 1 THEN along[head]
                            ELSE IF at[n - 1] \in {head, Garbage} THEN at[n - 1]
                            ELSE along[at[n - 1]]
    OBVIOUS
  <2> HIDE DEF Rec
  <2> QED BY <2>1, <1>6
<1>8. \A n \in 1 .. C + 1 : at[n] \in P
  <2> DEFINE a == [n \in 0 .. C |-> at[n + 1]]
  <2>1. a[0] \in P
    BY <1>1, <1>7
  <2>2. ASSUME NEW n \in 1 .. C, a[n - 1] \in P PROVE a[n] \in P
    <3>1. a[n - 1] = at[n] /\ a[n] = at[n + 1] /\ n + 1 \in 1 .. C + 1 /\ (n + 1) - 1 = n
      BY <1>1
    <3> HIDE DEF at
    <3> QED BY <3>1, <2>2, <1>7
  <2>3. \A n \in 0 .. C : a[n] \in P
    <3> HIDE DEF a
    <3> QED BY <2>1, <2>2, <1>1, IteratesStays
  <2>4. ASSUME NEW n \in 1 .. C + 1 PROVE at[n] \in P
    <3>1. n - 1 \in 0 .. C /\ (n - 1) + 1 = n
      BY <1>1
    <3>2. a[n - 1] = at[n]
      BY <3>1
    <3> HIDE DEF a, at
    <3> QED BY <3>1, <3>2, <2>3
  <2> QED BY <2>4
<1> QED BY <1>7, <1>8 DEF C

\* A walk from any links, whole or not, visits what the links lead to.
LEMMA WalkStays ==
  ASSUME NEW along \in [Node -> Node], NEW head \in Node, NEW P \in SUBSET Node,
         along[head] \in P, \A n \in P : along[n] \in P
  PROVE  Walk(along, head) \in Seq(P)
<1> DEFINE C == Cardinality(Transports)
           at == Reached(along, head)
           ends == {n \in 1 .. C + 1 : at[n] = head}
           len == IF ends = {} THEN C + 1 ELSE (CHOOSE n \in ends : \A m \in ends : n <= m) - 1
<1>1. C \in Nat
  BY TransportsCount
<1>2. \A n \in 1 .. C + 1 : at[n] \in P
  BY ReachedFacts
<1>3. Walk(along, head) = [n \in 1 .. len |-> at[n]]
  BY DEF Walk
<1>4. len \in 0 .. C + 1
  <2> HIDE DEF C, at
  <2>1. CASE ends = {}
    BY <2>1, <1>1
  <2>2. CASE ends # {}
    <3>1. ends \in SUBSET Nat
      BY <1>1
    <3>2. \E n \in ends : \A m \in ends : n <= m
      <4> HIDE DEF ends
      <4> QED BY <3>1, <2>2, LeastNumber
    <3>3. PICK e \in ends : len = e - 1
      <4> HIDE DEF ends
      <4> QED BY <3>2, <2>2
    <3>4. e \in 1 .. C + 1
      OBVIOUS
    <3> QED BY <3>3, <3>4, <1>1
  <2> QED BY <2>1, <2>2
<1> HIDE DEF C, at, ends, len
<1>5. [n \in 1 .. len |-> at[n]] \in [1 .. len -> P]
  BY <1>1, <1>2, <1>4
<1>6. len \in Nat
  BY <1>4, <1>1
<1>7. Walk(along, head) \in UNION {[1 .. n -> P] : n \in Nat}
  BY <1>3, <1>5, <1>6
<1> QED BY <1>7, SeqDef

\* A bijection with 1 .. m counts.
LEMMA RingCount ==
  ASSUME NEW S \in SUBSET Transports, NEW m \in Nat, NEW f,
         \A n \in 1 .. m : f[n] \in S,
         \A t \in S : \E n \in 1 .. m : f[n] = t,
         \A a, b \in 1 .. m : f[a] = f[b] => a = b
  PROVE  Cardinality(S) = m /\ m <= Cardinality(Transports)
<1> DEFINE g == [n \in 1 .. m |-> f[n]]
<1>1. g \in Bijection(1 .. m, S)
  BY DEF Bijection, Injection, Surjection, IsInjective
<1>2. ExistsBijection(1 .. m, S)
  BY <1>1 DEF ExistsBijection
<1>3. Cardinality(S) = m
  BY <1>2, FS_CountingElements
<1> QED BY <1>3, TransportsAssumption, FS_Subset

\* The members of a ring, in the order of their numbers.
Numbered(f, m) == [n \in 1 .. m |-> f[n]]
CountedDown(f, m) == [n \in 1 .. m |-> f[m + 1 - n]]

\* A walk around a ring visits its members in the order of their numbers.
LEMMA RingLap ==
  ASSUME NEW along \in [Node -> Node], NEW head \in Heads, NEW S \in SUBSET Transports,
         NEW m \in Nat, NEW f \in [0 .. m + 1 -> Node],
         f[0] = head, f[m + 1] = head, \A n \in 1 .. m : f[n] \in S,
         m <= Cardinality(Transports), \A n \in 0 .. m : along[f[n]] = f[n + 1]
  PROVE  Walk(along, head) = Numbered(f, m)
<1> DEFINE C == Cardinality(Transports)
           at == Reached(along, head)
<1>1. C \in Nat
  BY TransportsCount
<1>2. \A n \in 1 .. C + 1 :
        at[n] = IF n = 1 THEN along[head]
                ELSE IF at[n - 1] \in {head, Garbage} THEN at[n - 1] ELSE along[at[n - 1]]
  <2>1. head \in Node
    BY NodeFacts
  <2>2. along[head] \in Node /\ \A n \in Node : along[n] \in Node
    BY <2>1
  <2> QED BY <2>1, <2>2, ReachedFacts
<1>3. Walk(along, head) =
        LET ends == {n \in 1 .. C + 1 : at[n] = head}
            len  == IF ends = {} THEN C + 1
                    ELSE (CHOOSE n \in ends : \A i \in ends : n <= i) - 1
        IN  [n \in 1 .. len |-> at[n]]
  BY DEF Walk
<1> HIDE DEF C, at
<1>4. m <= C
  BY DEF C
<1> DEFINE b == [n \in 0 .. C |->
                  IF at[n + 1] = (IF n <= m THEN f[n + 1] ELSE head) THEN 1 ELSE 0]
<1>5. \A n \in 0 .. C : b[n] \in {1}
  <2>1. b[0] \in {1}
    <3>1. at[1] = along[head]
      BY <1>1, <1>2
    <3>2. along[head] = f[1]
      <4>1. along[f[0]] = f[0 + 1]
        OBVIOUS
      <4> QED BY <4>1
    <3>3. 0 \in 0 .. C
      BY <1>1
    <3> QED BY <3>1, <3>2, <3>3
  <2>2. ASSUME NEW n \in 1 .. C, b[n - 1] \in {1} PROVE b[n] \in {1}
    <3>1. n + 1 \in 1 .. C + 1 /\ n + 1 # 1 /\ (n + 1) - 1 = n /\ n - 1 \in 0 .. C /\ n \in 0 .. C
      BY <1>1
    <3>2. at[n] = IF n - 1 <= m THEN f[n] ELSE head
      BY <2>2, <3>1
    <3>3. at[n + 1] = IF at[n] \in {head, Garbage} THEN at[n] ELSE along[at[n]]
      BY <3>1, <1>2
    <3>4. CASE n <= m
      <4>1. at[n] = f[n] /\ f[n] \in S
        BY <3>2, <3>4
      <4>2. f[n] \notin {head, Garbage}
        BY <4>1, NodeFacts
      <4>3. n \in 0 .. m
        BY <3>4
      <4>4. at[n + 1] = f[n + 1]
        BY <3>3, <4>1, <4>2, <4>3
      <4> QED BY <4>4, <3>4, <3>1
    <3>5. CASE ~(n <= m)
      <4>1. at[n] = head
        <5>1. CASE n = m + 1
          BY <5>1, <3>2
        <5>2. CASE n # m + 1
          BY <5>2, <3>2, <3>5
        <5> QED BY <5>1, <5>2
      <4>2. at[n + 1] = head
        BY <3>3, <4>1
      <4> QED BY <4>2, <3>5, <3>1
    <3> QED BY <3>4, <3>5
  <2> DEFINE P == {1}
  <2>3. b[0] \in P /\ \A n \in 1 .. C : b[n - 1] \in P => b[n] \in P
    BY <2>1, <2>2
  <2>4. \A n \in 0 .. C : b[n] \in P
    <3> HIDE DEF b, P
    <3> QED BY <2>3, <1>1, IteratesStays
  <2> QED BY <2>4
<1>6. \A n \in 1 .. C + 1 : at[n] = IF n <= m + 1 THEN f[n] ELSE head
  <2> TAKE n \in 1 .. C + 1
  <2>1. n - 1 \in 0 .. C /\ (n - 1) + 1 = n
    BY <1>1
  <2>2. b[n - 1] = 1
    BY <2>1, <1>5
  <2>3. at[n] = IF n - 1 <= m THEN f[n] ELSE head
    BY <2>1, <2>2
  <2> QED BY <2>3
<1> HIDE DEF b
<1> DEFINE ends == {n \in 1 .. C + 1 : at[n] = head}
<1>7. ends = {n \in 1 .. C + 1 : n >= m + 1}
  <2>1. ASSUME NEW n \in 1 .. C + 1 PROVE at[n] = head <=> n >= m + 1
    <3>1. CASE n <= m
      <4>1. at[n] = f[n] /\ f[n] \in S
        BY <3>1, <1>6
      <4> QED BY <4>1, <3>1, NodeFacts
    <3>2. CASE ~(n <= m)
      <4>1. CASE n = m + 1
        BY <4>1, <1>6
      <4>2. CASE n # m + 1
        BY <4>2, <3>2, <1>6
      <4> QED BY <4>1, <4>2, <3>2
    <3> QED BY <3>1, <3>2
  <2> QED BY <2>1
<1>8. m + 1 \in ends /\ \A i \in ends : m + 1 <= i
  <2> HIDE DEF ends
  <2>1. m + 1 \in 1 .. C + 1
    BY <1>1, <1>4
  <2>2. m + 1 \in ends
    BY <1>7, <2>1
  <2>3. \A i \in ends : m + 1 <= i
    BY <1>7, <2>1
  <2> QED BY <2>2, <2>3
<1>9. (CHOOSE n \in ends : \A i \in ends : n <= i) = m + 1
  <2>1. ASSUME NEW e \in ends, \A i \in ends : e <= i PROVE e = m + 1
    <3>1. e \in Int
      BY <1>7
    <3> HIDE DEF ends
    <3> QED BY <2>1, <1>8, <3>1
  <2> HIDE DEF ends
  <2> QED BY <2>1, <1>8
<1>10. Walk(along, head) = [n \in 1 .. m |-> at[n]]
  <2>1. ends # {}
    BY <1>8
  <2>2. Walk(along, head) =
          LET len == IF ends = {} THEN C + 1
                     ELSE (CHOOSE n \in ends : \A i \in ends : n <= i) - 1
          IN  [n \in 1 .. len |-> at[n]]
    BY <1>3
  <2>3. (m + 1) - 1 = m
    OBVIOUS
  <2> HIDE DEF ends
  <2> QED BY <2>1, <2>2, <2>3, <1>9
<1>11. \A n \in 1 .. m : at[n] = f[n]
  BY <1>6, <1>1, <1>4
<1> QED BY <1>10, <1>11 DEF Numbered

\* Forward and backward a ring reads the same.
LEMMA RingWalk ==
  ASSUME NEW k \in LinksType, NEW head \in Heads, NEW S \in SUBSET Transports,
         NEW m \in Nat, NEW f \in [0 .. m + 1 -> Node], Ring(k, head, S, m, f)
  PROVE  /\ Walk(k.nx, head) = Numbered(f, m)
         /\ Walk(k.pv, head) = CountedDown(f, m)
         /\ Cardinality(S) = m
<1>1. Cardinality(S) = m /\ m <= Cardinality(Transports)
  BY RingCount DEF Ring
<1>2. k.nx \in [Node -> Node] /\ k.pv \in [Node -> Node]
  BY DEF LinksType
<1>3. Walk(k.nx, head) = Numbered(f, m)
  <2>1. \A n \in 0 .. m : k.nx[f[n]] = f[n + 1]
    BY DEF Ring, Follows
  <2>2. f[0] = head /\ f[m + 1] = head /\ \A n \in 1 .. m : f[n] \in S
    BY DEF Ring
  <2> DEFINE along == k.nx
  <2>3. along \in [Node -> Node] /\ \A n \in 0 .. m : along[f[n]] = f[n + 1]
    BY <1>2, <2>1
  <2> HIDE DEF along
  <2>4. Walk(along, head) = Numbered(f, m)
    BY <1>1, <2>2, <2>3, RingLap
  <2> QED BY <2>4 DEF along
<1> DEFINE g == [n \in 0 .. m + 1 |-> f[m + 1 - n]]
<1>4. g \in [0 .. m + 1 -> Node] /\ \A n \in 0 .. m + 1 : g[n] = f[m + 1 - n]
  OBVIOUS
<1> HIDE DEF g
<1>5. g[0] = head /\ g[m + 1] = head /\ \A n \in 1 .. m : g[n] \in S
  BY <1>4 DEF Ring
<1>6. \A n \in 0 .. m : k.pv[g[n]] = g[n + 1]
  <2> TAKE n \in 0 .. m
  <2>1. m - n \in 0 .. m /\ m + 1 - n = (m - n) + 1 /\ m + 1 - (n + 1) = m - n
    OBVIOUS
  <2>2. g[n] = f[(m - n) + 1] /\ g[n + 1] = f[m - n]
    BY <2>1, <1>4
  <2> QED BY <2>1, <2>2 DEF Ring, Follows
<1>7. Walk(k.pv, head) = [n \in 1 .. m |-> g[n]]
  <2> DEFINE along == k.pv
  <2>1. along \in [Node -> Node] /\ \A n \in 0 .. m : along[g[n]] = g[n + 1]
    BY <1>2, <1>6
  <2> HIDE DEF along
  <2>2. Walk(along, head) = Numbered(g, m)
    BY <1>1, <1>4, <1>5, <2>1, RingLap
  <2> QED BY <2>2 DEF along, Numbered
<1>8. \A n \in 1 .. m : g[n] = f[m + 1 - n]
  BY <1>4
<1> QED BY <1>1, <1>3, <1>7, <1>8 DEF CountedDown

-----------------------------------------------------------------------------
(* The inductive invariant.                                                *)

Placed(pl, where) == {t \in Transports : pl[t] = where}

\* The nodes that have been on transport_list, and what freed memory leads to.
Past(pl) ==
  {"transport_list", Garbage}
    \union {t \in Transports : pl[t] \in {"listed", "unlisted", "freed"}}

\* No link leads into pending_list from outside, nor to a transport that is new:
\* stale links cannot be followed to it.
Apart(k, pl) ==
  \A n \in Node : n \notin Placed(pl, "pending") \union {"pending_list"}
    => k.nx[n] \in Past(pl) /\ k.pv[n] \in Past(pl)

\* transport_list, until a transport is unlinked again between changed neighbours.
Listed(k, pl) ==
  /\ IsRing(k, "transport_list", Placed(pl, "listed"))
  /\ \A t \in Transports : pl[t] = "freed" => k.nx[t] = Garbage /\ k.pv[t] = Garbage

LinksOK(k, pl, ag) ==
  /\ k \in LinksType
  /\ Apart(k, pl)
  /\ IsRing(k, "pending_list", Placed(pl, "pending"))
  /\ ~ag => Listed(k, pl)

\* A transport is announced once, while it is pending; it is removed after that.
RegOK ==
  /\ \A n \in 1 .. Len(reg) : reg[n][2] = 1 => place[reg[n][1]] = "pending"
  /\ \A n \in 1 .. Len(reg) : reg[n][2] = 0 => reg[n][1] \in Past(place)
  /\ \A a, b \in 1 .. Len(reg) : reg[a] = reg[b] /\ reg[a][2] = 1 => a = b

RegistryInv == TypeOK /\ LinksOK(Links, place, again) /\ RegOK

Places == {"new", "pending", "listed", "unlisted", "freed"}

LEMMA PastFacts ==
  ASSUME NEW pl \in [Transports -> Places]
  PROVE  /\ Past(pl) \subseteq Node
         /\ Past(pl) \cap (Placed(pl, "pending") \union {"pending_list"}) = {}
         /\ Placed(pl, "listed") \subseteq Past(pl)
         /\ "transport_list" \in Past(pl) /\ Garbage \in Past(pl)
         /\ \A where \in Places : Placed(pl, where) \in SUBSET Transports
BY NodeFacts DEF Past, Placed, Places

\* What the operations write, on any links.
LEMMA LinkFacts ==
  ASSUME NEW k \in LinksType, NEW t \in Node, NEW head \in Node
  PROVE  /\ Unlink(k, t) \in LinksType
         /\ LinkLast(k, t, head) \in LinksType
         /\ Free(k, t) \in LinksType
         /\ k.nx[t] \in Node /\ k.pv[t] \in Node
         /\ \A n \in Node :
              /\ Unlink(k, t).nx[n] = IF n = k.pv[t] THEN k.nx[t] ELSE k.nx[n]
              /\ Unlink(k, t).pv[n] = IF n = k.nx[t] THEN k.pv[t] ELSE k.pv[n]
              /\ LinkLast(k, t, head).nx[n] =
                   IF n = k.pv[head] THEN t ELSE IF n = t THEN head ELSE k.nx[n]
              /\ LinkLast(k, t, head).pv[n] =
                   IF n = head THEN t ELSE IF n = t THEN k.pv[head] ELSE k.pv[n]
              /\ Free(k, t).nx[n] = IF n = t THEN Garbage ELSE k.nx[n]
              /\ Free(k, t).pv[n] = IF n = t THEN Garbage ELSE k.pv[n]
BY NodeFacts DEF Unlink, LinkLast, Free, LinksType

\* Linking a new transport into pending_list.
LEMMA PendLinks ==
  ASSUME NEW k, NEW pl \in [Transports -> Places], NEW ag \in BOOLEAN,
         NEW t \in Transports, LinksOK(k, pl, ag), pl[t] = "new"
  PROVE  LinksOK(LinkLast(k, t, "pending_list"), [pl EXCEPT ![t] = "pending"], ag)
<1> DEFINE k2 == LinkLast(k, t, "pending_list")
           pl2 == [pl EXCEPT ![t] = "pending"]
           S == Placed(pl, "pending")
           T == Placed(pl, "listed")
<1>1. /\ pl2 \in [Transports -> Places] /\ Placed(pl2, "pending") = S \union {t}
      /\ Placed(pl2, "listed") = T /\ Past(pl2) = Past(pl) /\ t \notin S /\ t \notin T
      /\ t \notin Past(pl) /\ \A u \in Transports : pl2[u] = "freed" => pl[u] = "freed"
  BY NodeFacts DEF Placed, Past, Places
<1>2. k \in LinksType /\ IsRing(k, "pending_list", S) /\ S \in SUBSET Transports
  BY DEF LinksOK, Placed
<1>3. /\ k2 \in LinksType /\ IsRing(k2, "pending_list", S \union {t})
      /\ k.pv["pending_list"] \in S \union {"pending_list"}
  BY <1>1, <1>2, NodeFacts, RingLinkLast
<1>4. \A n \in Node \ (S \union {t, "pending_list"}) : k2.nx[n] = k.nx[n] /\ k2.pv[n] = k.pv[n]
  BY <1>2, <1>3, NodeFacts, LinkFacts
<1> HIDE DEF k2
<1>5. \A n \in T \union {"transport_list"} : n \in Node \ (S \union {t, "pending_list"})
  BY <1>1, NodeFacts DEF Placed
<1>6. Apart(k2, pl2)
  BY <1>1, <1>4 DEF Apart, LinksOK
<1>7. ~ag => Listed(k2, pl2)
  <2> SUFFICES ASSUME ~ag PROVE Listed(k2, pl2)
    OBVIOUS
  <2>1. IsRing(k, "transport_list", T)
    BY DEF LinksOK, Listed
  <2>2. IsRing(k2, "transport_list", T)
    BY <2>1, <1>4, <1>5, RingFrame
  <2>3. ASSUME NEW u \in Transports, pl2[u] = "freed"
        PROVE  k2.nx[u] = Garbage /\ k2.pv[u] = Garbage
    <3>1. pl[u] = "freed" /\ u \notin S /\ u # t /\ u # "pending_list" /\ u \in Node
      BY <2>3, <1>1, NodeFacts DEF Placed
    <3> QED BY <3>1, <1>4 DEF LinksOK, Listed
  <2> QED BY <2>2, <2>3, <1>1 DEF Listed
<1> QED BY <1>1, <1>3, <1>6, <1>7 DEF LinksOK, k2

\* Moving a transport from pending_list to transport_list.
LEMMA AddLinks ==
  ASSUME NEW k, NEW pl \in [Transports -> Places], NEW ag \in BOOLEAN,
         NEW t \in Transports, LinksOK(k, pl, ag), pl[t] = "pending"
  PROVE  LinksOK(LinkLast(Unlink(k, t), t, "transport_list"),
                 [pl EXCEPT ![t] = "listed"], ag)
<1> DEFINE k1 == Unlink(k, t)
           k2 == LinkLast(k1, t, "transport_list")
           pl2 == [pl EXCEPT ![t] = "listed"]
           S == Placed(pl, "pending")
           T == Placed(pl, "listed")
<1>1. /\ pl2 \in [Transports -> Places] /\ Placed(pl2, "pending") = S \ {t}
      /\ Placed(pl2, "listed") = T \union {t} /\ Past(pl2) = Past(pl) \union {t}
      /\ t \in S /\ t \notin T /\ S \in SUBSET Transports /\ T \in SUBSET Transports
      /\ \A u \in Transports : pl2[u] = "freed" => pl[u] = "freed" /\ u \notin S /\ u \notin T
  BY NodeFacts DEF Placed, Past, Places
<1>2. k \in LinksType /\ IsRing(k, "pending_list", S)
  BY DEF LinksOK
<1>3. k1 \in LinksType /\ IsRing(k1, "pending_list", S \ {t})
  BY <1>1, <1>2, NodeFacts, RingUnlink
<1>4. k.nx[t] \in S \union {"pending_list"} /\ k.pv[t] \in S \union {"pending_list"}
  BY <1>1, <1>2, RingNeighbours
<1>5. \A n \in Node \ (S \union {"pending_list"}) : k1.nx[n] = k.nx[n] /\ k1.pv[n] = k.pv[n]
  BY <1>1, <1>2, <1>4, NodeFacts, LinkFacts
<1> HIDE DEF k1
<1>6. /\ "transport_list" \in Node \ (S \union {"pending_list"})
      /\ T \subseteq Node \ (S \union {"pending_list"})
  BY NodeFacts DEF Placed
<1>7. k1.pv["transport_list"] \in Past(pl) /\ k1.pv["transport_list"] = k.pv["transport_list"]
  BY <1>5, <1>6 DEF LinksOK, Apart
<1> DEFINE last == k1.pv["transport_list"]
<1>8. last \in Node /\ last \notin S \union {"pending_list"} /\ last # t
  BY <1>1, <1>7, PastFacts
<1>9. /\ k2 \in LinksType
      /\ \A n \in Node :
           /\ k2.nx[n] = IF n = last THEN t ELSE IF n = t THEN "transport_list" ELSE k1.nx[n]
           /\ k2.pv[n] = IF n = "transport_list" THEN t ELSE IF n = t THEN last ELSE k1.pv[n]
  BY <1>3, NodeFacts, LinkFacts
<1>10. IsRing(k2, "pending_list", S \ {t})
  <2>1. \A n \in (S \ {t}) \union {"pending_list"} :
          k2.nx[n] = k1.nx[n] /\ k2.pv[n] = k1.pv[n]
    <3> HIDE DEF k2, last
    <3> QED BY <1>1, <1>8, <1>9, NodeFacts
  <2> HIDE DEF k2
  <2> QED BY <2>1, <1>3, RingFrame
<1>11. Apart(k2, pl2)
  <2> SUFFICES ASSUME NEW n \in Node, n \notin (S \ {t}) \union {"pending_list"}
               PROVE  k2.nx[n] \in Past(pl2) /\ k2.pv[n] \in Past(pl2)
    BY <1>1 DEF Apart
  <2>1. "transport_list" \in Past(pl) /\ last \in Past(pl)
    BY <1>7, PastFacts
  <2>2. CASE n = t
    <3> HIDE DEF k2, last
    <3>1. t # "transport_list" /\ last # t
      BY <1>1, <1>8, NodeFacts
    <3>2. k2.nx[n] = "transport_list" /\ k2.pv[n] = last
      BY <2>2, <3>1, <1>9
    <3> QED BY <2>1, <3>2, <1>1
  <2>3. CASE n # t
    <3>1. k1.nx[n] \in Past(pl) /\ k1.pv[n] \in Past(pl)
      BY <2>3, <1>5 DEF LinksOK, Apart
    <3> HIDE DEF k2, last
    <3> QED BY <3>1, <2>1, <2>3, <1>9, <1>1
  <2> QED BY <2>2, <2>3
<1>12. ~ag => Listed(k2, pl2)
  <2> SUFFICES ASSUME ~ag PROVE Listed(k2, pl2)
    OBVIOUS
  <2>1. IsRing(k, "transport_list", T)
    BY DEF LinksOK, Listed
  <2>2. IsRing(k1, "transport_list", T)
    <3>1. \A n \in T \union {"transport_list"} : k1.nx[n] = k.nx[n] /\ k1.pv[n] = k.pv[n]
      BY <1>5, <1>6
    <3> QED BY <2>1, <3>1, RingFrame
  <2>3. IsRing(k2, "transport_list", T \union {t}) /\ last \in T \union {"transport_list"}
    BY <2>2, <1>1, <1>3, NodeFacts, RingLinkLast
  <2>4. ASSUME NEW u \in Transports, pl2[u] = "freed"
        PROVE  k2.nx[u] = Garbage /\ k2.pv[u] = Garbage
    <3>1. pl[u] = "freed" /\ u \notin S /\ u \notin T /\ u # t /\ u \in Node
          /\ u # "pending_list" /\ u # "transport_list"
      BY <2>4, <1>1, NodeFacts
    <3>2. u # last
      BY <3>1, <2>3
    <3>3. k1.nx[u] = Garbage /\ k1.pv[u] = Garbage
      BY <3>1, <1>5 DEF LinksOK, Listed
    <3> HIDE DEF k2, last
    <3> QED BY <3>1, <3>2, <3>3, <1>9
  <2> QED BY <2>3, <2>4, <1>1 DEF Listed
<1> QED BY <1>1, <1>9, <1>10, <1>11, <1>12 DEF LinksOK, k1

\* Unlinking a transport that has been on transport_list, the first time or not,
\* writes nothing that pending_list would notice.
LEMMA UnlinkPast ==
  ASSUME NEW k, NEW pl \in [Transports -> Places], NEW ag \in BOOLEAN,
         NEW t \in Transports, LinksOK(k, pl, ag), t \in Past(pl)
  PROVE  /\ Unlink(k, t) \in LinksType
         /\ Apart(Unlink(k, t), pl)
         /\ IsRing(Unlink(k, t), "pending_list", Placed(pl, "pending"))
<1> DEFINE k2 == Unlink(k, t)
           S == Placed(pl, "pending")
<1>1. k \in LinksType /\ t \in Node /\ t \notin S \union {"pending_list"}
  BY PastFacts, NodeFacts DEF LinksOK
<1>2. k.nx[t] \in Past(pl) /\ k.pv[t] \in Past(pl)
  BY <1>1 DEF LinksOK, Apart
<1>3. /\ k2 \in LinksType
      /\ \A n \in Node : /\ k2.nx[n] = IF n = k.pv[t] THEN k.nx[t] ELSE k.nx[n]
                         /\ k2.pv[n] = IF n = k.nx[t] THEN k.pv[t] ELSE k.pv[n]
  BY <1>1, LinkFacts
<1> HIDE DEF k2
<1>4. Apart(k2, pl)
  BY <1>2, <1>3 DEF LinksOK, Apart
<1>5. \A n \in S \union {"pending_list"} : k2.nx[n] = k.nx[n] /\ k2.pv[n] = k.pv[n]
  BY <1>2, <1>3, PastFacts, NodeFacts DEF Placed
<1>6. IsRing(k2, "pending_list", S)
  BY <1>5, RingFrame DEF LinksOK
<1> QED BY <1>3, <1>4, <1>6 DEF k2

\* Unlinking a transport that is on transport_list.
LEMMA UnlinkListed ==
  ASSUME NEW k \in LinksType, NEW pl \in [Transports -> Places],
         NEW t \in Transports, Listed(k, pl), pl[t] = "listed"
  PROVE  /\ IsRing(Unlink(k, t), "transport_list", Placed(pl, "listed") \ {t})
         /\ \A u \in Transports : pl[u] = "freed"
              => Unlink(k, t).nx[u] = Garbage /\ Unlink(k, t).pv[u] = Garbage
<1> DEFINE T == Placed(pl, "listed")
<1>1. IsRing(k, "transport_list", T) /\ t \in T /\ T \in SUBSET Transports
  BY DEF Listed, Placed
<1>2. IsRing(Unlink(k, t), "transport_list", T \ {t})
  BY <1>1, NodeFacts, RingUnlink
<1>3. k.nx[t] \in T \union {"transport_list"} /\ k.pv[t] \in T \union {"transport_list"}
  BY <1>1, RingNeighbours
<1>4. ASSUME NEW u \in Transports, pl[u] = "freed"
      PROVE  Unlink(k, t).nx[u] = Garbage /\ Unlink(k, t).pv[u] = Garbage
  <2>1. u \notin T \union {"transport_list"} /\ u \in Node /\ t \in Node
    BY <1>4, NodeFacts DEF Placed
  <2>2. k.nx[u] = Garbage /\ k.pv[u] = Garbage
    BY <1>4 DEF Listed
  <2> QED BY <2>1, <2>2, <1>3, LinkFacts
<1> QED BY <1>2, <1>4

\* A disconnect.
LEMMA UnlistLinks ==
  ASSUME NEW k, NEW pl \in [Transports -> Places], NEW ag \in BOOLEAN,
         NEW t \in Transports, LinksOK(k, pl, ag), t \in Past(pl),
         ~ag => pl[t] = "listed"
  PROVE  LinksOK(Unlink(k, t), [pl EXCEPT ![t] = "unlisted"], ag)
<1> DEFINE k2 == Unlink(k, t)
           pl2 == [pl EXCEPT ![t] = "unlisted"]
<1>1. /\ Placed(pl2, "pending") = Placed(pl, "pending") /\ Past(pl2) = Past(pl)
      /\ Placed(pl2, "listed") = Placed(pl, "listed") \ {t}
      /\ \A u \in Transports : pl2[u] = "freed" => pl[u] = "freed"
  <2>1. pl[t] \in {"listed", "unlisted", "freed"}
    BY NodeFacts DEF Past
  <2> QED BY <2>1 DEF Placed, Past
<1>2. /\ k2 \in LinksType /\ Apart(k2, pl)
      /\ IsRing(k2, "pending_list", Placed(pl, "pending"))
  BY UnlinkPast
<1>3. ~ag => Listed(k2, pl2)
  <2> SUFFICES ASSUME ~ag PROVE Listed(k2, pl2)
    OBVIOUS
  <2>1. /\ IsRing(k2, "transport_list", Placed(pl, "listed") \ {t})
        /\ \A u \in Transports : pl[u] = "freed" => k2.nx[u] = Garbage /\ k2.pv[u] = Garbage
    BY UnlinkListed DEF LinksOK
  <2> HIDE DEF k2, pl2
  <2> QED BY <2>1, <1>1 DEF Listed
<1> HIDE DEF k2, pl2
<1>4. Apart(k2, pl2)
  BY <1>1, <1>2 DEF Apart
<1> QED BY <1>1, <1>2, <1>3, <1>4 DEF LinksOK, k2, pl2

\* The neighbours that t remembers are no longer next to each other.
StaleIn(k, t) == k.nx[k.pv[t]] # k.nx[t] \/ k.pv[k.nx[t]] # k.pv[t]

\* Unlinking for a removal: a listed transport leaves the list; one that is on no list
\* and whose neighbours have not changed leaves the links as they are.
LEMMA UnlinkAgain ==
  ASSUME NEW k \in LinksType, NEW pl \in [Transports -> Places],
         NEW t \in Transports, Listed(k, pl), pl[t] = "listed" \/ ~StaleIn(k, t)
  PROVE  /\ IsRing(Unlink(k, t), "transport_list", Placed(pl, "listed") \ {t})
         /\ \A u \in Transports : pl[u] = "freed"
              => Unlink(k, t).nx[u] = Garbage /\ Unlink(k, t).pv[u] = Garbage
<1>1. CASE pl[t] = "listed"
  BY <1>1, UnlinkListed
<1>2. CASE pl[t] # "listed"
  <2> DEFINE k1 == Unlink(k, t)
             T == Placed(pl, "listed")
  <2>1. t \in Node /\ T \subseteq Node /\ T = T \ {t} /\ "transport_list" \in Node
    BY <1>2, NodeFacts DEF Placed
  <2>2. \A n \in Node : k1.nx[n] = k.nx[n] /\ k1.pv[n] = k.pv[n]
    <3>1. \A n \in Node : /\ k1.nx[n] = IF n = k.pv[t] THEN k.nx[t] ELSE k.nx[n]
                          /\ k1.pv[n] = IF n = k.nx[t] THEN k.pv[t] ELSE k.pv[n]
      BY <2>1, LinkFacts
    <3> HIDE DEF k1
    <3> QED BY <1>2, <3>1 DEF StaleIn
  <2> HIDE DEF k1, T
  <2>3. IsRing(k, "transport_list", T)
    BY DEF Listed, T
  <2>4. IsRing(k1, "transport_list", T)
    BY <2>1, <2>2, <2>3, RingFrame
  <2>5. \A u \in Transports : pl[u] = "freed" => k1.nx[u] = Garbage /\ k1.pv[u] = Garbage
    BY <2>2, NodeFacts DEF Listed
  <2>6. IsRing(k1, "transport_list", T \ {t})
    BY <2>1, <2>4
  <2> QED BY <2>5, <2>6 DEF k1, T
<1> QED BY <1>1, <1>2

\* A removal.
LEMMA RemoveLinks ==
  ASSUME NEW k, NEW pl \in [Transports -> Places], NEW ag \in BOOLEAN,
         NEW t \in Transports, LinksOK(k, pl, ag), t \in Past(pl)
  PROVE  LinksOK(Free(Unlink(k, t), t), [pl EXCEPT ![t] = "freed"],
                 ag \/ (pl[t] # "listed" /\ StaleIn(k, t)))
<1> DEFINE k1 == Unlink(k, t)
           k2 == Free(k1, t)
           pl2 == [pl EXCEPT ![t] = "freed"]
           S == Placed(pl, "pending")
<1>1. /\ Placed(pl2, "pending") = S /\ Past(pl2) = Past(pl)
      /\ Placed(pl2, "listed") = Placed(pl, "listed") \ {t}
      /\ \A u \in Transports : pl2[u] = "freed" => u = t \/ pl[u] = "freed"
  <2>1. pl[t] \in {"listed", "unlisted", "freed"}
    BY NodeFacts DEF Past
  <2> QED BY <2>1 DEF Placed, Past
<1>2. k1 \in LinksType /\ Apart(k1, pl) /\ IsRing(k1, "pending_list", S)
  BY UnlinkPast
<1>3. /\ k2 \in LinksType
      /\ \A n \in Node : /\ k2.nx[n] = IF n = t THEN Garbage ELSE k1.nx[n]
                         /\ k2.pv[n] = IF n = t THEN Garbage ELSE k1.pv[n]
  <2> HIDE DEF k1
  <2> QED BY <1>2, NodeFacts, LinkFacts
<1>4. t \notin S \union {"pending_list"} /\ Garbage \in Past(pl)
  BY PastFacts
<1>5. ~(ag \/ (pl[t] # "listed" /\ StaleIn(k, t))) => Listed(k2, pl2)
  <2> SUFFICES ASSUME ~ag, pl[t] = "listed" \/ ~StaleIn(k, t) PROVE Listed(k2, pl2)
    OBVIOUS
  <2> DEFINE R == Placed(pl, "listed") \ {t}
  <2>1. /\ IsRing(k1, "transport_list", R)
        /\ \A u \in Transports : pl[u] = "freed" => k1.nx[u] = Garbage /\ k1.pv[u] = Garbage
    BY UnlinkAgain DEF LinksOK
  <2>2. \A n \in R \union {"transport_list"} : k2.nx[n] = k1.nx[n] /\ k2.pv[n] = k1.pv[n]
    <3> HIDE DEF k1, k2
    <3> QED BY <1>3, NodeFacts DEF Placed
  <2>3. IsRing(k2, "transport_list", R)
    <3> HIDE DEF k1, k2, R
    <3> QED BY <2>1, <2>2, RingFrame
  <2>4. ASSUME NEW u \in Transports, pl2[u] = "freed"
        PROVE  k2.nx[u] = Garbage /\ k2.pv[u] = Garbage
    <3>1. u \in Node /\ (u = t \/ pl[u] = "freed")
      BY <2>4, <1>1, NodeFacts
    <3> HIDE DEF k1, k2
    <3> QED BY <3>1, <2>1, <1>3
  <2> HIDE DEF k1, k2
  <2> QED BY <2>3, <2>4, <1>1 DEF Listed
<1> HIDE DEF k1, k2, pl2
<1>6. IsRing(k2, "pending_list", S)
  <2>1. \A n \in S \union {"pending_list"} : k2.nx[n] = k1.nx[n] /\ k2.pv[n] = k1.pv[n]
    BY <1>3, <1>4, NodeFacts DEF Placed
  <2> QED BY <2>1, <1>2, RingFrame
<1>7. Apart(k2, pl2)
  BY <1>1, <1>2, <1>3, <1>4 DEF Apart
<1> QED BY <1>1, <1>3, <1>5, <1>6, <1>7 DEF LinksOK, k1, k2, pl2

-----------------------------------------------------------------------------
(* The lists as the operations see them.                                   *)

LEMMA LinksOfState ==
  ASSUME TypeOK
  PROVE  /\ Links \in LinksType /\ Links.nx = next /\ Links.pv = prev
         /\ place \in [Transports -> Places] /\ again \in BOOLEAN
         /\ next \in [Node -> Node] /\ prev \in [Node -> Node]
BY DEF TypeOK, Links, LinksType, Places

\* A list that is a ring is intact, and holds its members only once.
LEMMA RingIntact ==
  ASSUME TypeOK, NEW head \in Heads, NEW where \in Places,
         IsRing(Links, head, Placed(place, where))
  PROVE  /\ Intact(head, where)
         /\ Members(head) = Placed(place, where)
         /\ \A a, b \in 1 .. Len(Walk(next, head)) :
              Walk(next, head)[a] = Walk(next, head)[b] => a = b
<1> DEFINE S == Placed(place, where)
           fwd == Walk(next, head)
           bwd == Walk(prev, head)
<1>0. PICK m \in Nat : \E f \in [0 .. m + 1 -> Node] : Ring(Links, head, S, m, f)
  BY DEF IsRing
<1>1. PICK f \in [0 .. m + 1 -> Node] : Ring(Links, head, S, m, f)
  BY <1>0
<1>2. S \in SUBSET Transports /\ S = {t \in Transports : place[t] = where}
  BY DEF Placed
<1> HIDE DEF S
<1>3. fwd = Numbered(f, m) /\ bwd = CountedDown(f, m) /\ Cardinality(S) = m
  BY <1>1, <1>2, LinksOfState, RingWalk
<1>4. /\ DOMAIN fwd = 1 .. m /\ Len(fwd) = m /\ Len(bwd) = m
      /\ \A n \in 1 .. m : fwd[n] = f[n] /\ bwd[n] = f[m + 1 - n]
  <2> HIDE DEF fwd, bwd
  <2> QED BY <1>3 DEF Numbered, CountedDown
<1> HIDE DEF fwd, bwd
<1>5. {fwd[n] : n \in DOMAIN fwd} = S
  <2>1. \A n \in 1 .. m : fwd[n] \in S
    BY <1>4, <1>1 DEF Ring
  <2>2. \A t \in S : \E n \in 1 .. m : fwd[n] = t
    BY <1>4, <1>1 DEF Ring
  <2> QED BY <2>1, <2>2, <1>4
<1>6. \A n \in DOMAIN fwd : fwd[n] = bwd[Len(bwd) + 1 - n]
  <2> TAKE n \in DOMAIN fwd
  <2>1. n \in 1 .. m /\ m + 1 - n \in 1 .. m /\ m + 1 - (m + 1 - n) = n
    BY <1>4
  <2> QED BY <2>1, <1>4
<1>7. \A a, b \in 1 .. m : fwd[a] = fwd[b] => a = b
  BY <1>4, <1>1 DEF Ring
<1>8. Intact(head, where)
  <2>1. Len(fwd) = Cardinality(S) /\ Len(bwd) = Len(fwd)
    BY <1>3, <1>4
  <2> QED BY <2>1, <1>2, <1>5, <1>6 DEF Intact, fwd, bwd
<1>9. Members(head) = S
  BY <1>5 DEF Members, fwd
<1>10. \A a, b \in 1 .. Len(fwd) : fwd[a] = fwd[b] => a = b
  BY <1>4, <1>7
<1> QED BY <1>8, <1>9, <1>10 DEF fwd, S

\* Whatever has happened to transport_list, a walk along it stays outside
\* pending_list; as long as it is whole, the walk meets the listed transports.
LEMMA WalkListed ==
  ASSUME TypeOK, LinksOK(Links, place, again)
  PROVE  /\ Walk(next, "transport_list") \in Seq(Past(place))
         /\ Members("transport_list") \subseteq Past(place)
         /\ ~again => Members("transport_list") = Placed(place, "listed")
         /\ Members("pending_list") = Placed(place, "pending")
<1>1. next \in [Node -> Node] /\ place \in [Transports -> Places] /\ Links.nx = next
  BY LinksOfState
<1>2. Past(place) \in SUBSET Node /\ "transport_list" \in Past(place)
      /\ Past(place) \cap (Placed(place, "pending") \union {"pending_list"}) = {}
  BY <1>1, PastFacts
<1>3. \A n \in Past(place) : next[n] \in Past(place)
  BY <1>1, <1>2 DEF LinksOK, Apart
<1>4. Walk(next, "transport_list") \in Seq(Past(place))
  <2>1. "transport_list" \in Node
    BY NodeFacts
  <2> QED BY <2>1, <1>1, <1>2, <1>3, WalkStays
<1>5. Members("transport_list") \subseteq Past(place)
  BY <1>4 DEF Members
<1>6. ~again => Members("transport_list") = Placed(place, "listed")
  BY RingIntact, NodeFacts DEF LinksOK, Listed, Places
<1>7. Members("pending_list") = Placed(place, "pending")
  BY RingIntact, NodeFacts DEF LinksOK, Places
<1> QED BY <1>4, <1>5, <1>6, <1>7

\* WithoutTcp does what its definition says.
LEMMA WithoutTcpFacts ==
  ASSUME TypeOK, NEW list \in Seq(Node)
  PROVE  /\ WithoutTcp(list)[0] = Links
         /\ \A n \in 1 .. Len(list) :
              WithoutTcp(list)[n] = IF IsTcp(list[n])
                                    THEN Unlink(WithoutTcp(list)[n - 1], list[n])
                                    ELSE WithoutTcp(list)[n - 1]
<1> DEFINE N == Len(list)
           after == WithoutTcp(list)
           F == [n \in 1 .. N |->
                  [k \in LinksType |-> IF IsTcp(list[n]) THEN Unlink(k, list[n]) ELSE k]]
           Rec(h) == [n \in 0 .. N |->
                        IF n = 0 THEN Links
                        ELSE IF IsTcp(list[n]) THEN Unlink(h[n - 1], list[n]) ELSE h[n - 1]]
<1>1. N \in Nat /\ \A n \in 1 .. N : list[n] \in Node
  OBVIOUS
<1> HIDE DEF N
<1>2. \A n \in 1 .. N, k \in LinksType :
        (IF IsTcp(list[n]) THEN Unlink(k, list[n]) ELSE k) \in LinksType
  BY <1>1, LinkFacts
<1>3. /\ F \in [1 .. N -> [LinksType -> LinksType]]
      /\ \A n \in 1 .. N, k \in LinksType :
           F[n][k] = IF IsTcp(list[n]) THEN Unlink(k, list[n]) ELSE k
  BY <1>2
<1> HIDE DEF F
<1>4. PICK f \in [0 .. N -> LinksType] : Iterates(f, Links, F, N)
  BY <1>1, <1>3, LinksOfState, IteratesExists
<1>5. f = Rec(f)
  <2>1. ASSUME NEW n \in 0 .. N PROVE f[n] = Rec(f)[n]
    <3>1. CASE n = 0
      BY <3>1, <1>4 DEF Iterates
    <3>2. CASE n # 0
      <4>1. n \in 1 .. N /\ n - 1 \in 0 .. N
        BY <3>2, <1>1
      <4>2. f[n] = F[n][f[n - 1]] /\ f[n - 1] \in LinksType
        BY <4>1, <1>4 DEF Iterates
      <4>3. f[n] = IF IsTcp(list[n]) THEN Unlink(f[n - 1], list[n]) ELSE f[n - 1]
        BY <4>1, <4>2, <1>3
      <4> QED BY <4>3, <3>2
    <3> QED BY <3>1, <3>2
  <2> QED BY <2>1
<1>6. after = Rec(after)
  <2>1. after = CHOOSE h : h = Rec(h)
    BY DEF WithoutTcp, N
  <2> HIDE DEF after, Rec
  <2> QED BY <2>1, <1>5
<1>7. \A n \in 0 .. N :
        after[n] = IF n = 0 THEN Links
                   ELSE IF IsTcp(list[n]) THEN Unlink(after[n - 1], list[n])
                   ELSE after[n - 1]
  <2> HIDE DEF after
  <2>1. ASSUME NEW n \in 0 .. N
        PROVE  Rec(after)[n] = IF n = 0 THEN Links
                               ELSE IF IsTcp(list[n]) THEN Unlink(after[n - 1], list[n])
                               ELSE after[n - 1]
    OBVIOUS
  <2> HIDE DEF Rec
  <2> QED BY <2>1, <1>6
<1>8. after[0] = Links
  BY <1>1, <1>7
<1>9. \A n \in 1 .. N : after[n] = IF IsTcp(list[n]) THEN Unlink(after[n - 1], list[n])
                                  ELSE after[n - 1]
  <2> HIDE DEF after
  <2> QED BY <1>1, <1>7
<1> QED BY <1>8, <1>9 DEF N

\* The places after the first n nodes of a list were looked at.
PlacesAfter(list, n) ==
  [t \in Transports |-> IF \E i \in 1 .. n : list[i] = t /\ IsTcp(t) THEN "unlisted"
                        ELSE place[t]]

\* Disconnecting all TCP transports is disconnecting one after the other.
LEMMA TcpLinks ==
  ASSUME TypeOK, LinksOK(Links, place, again)
  PROVE  LET list == Walk(next, "transport_list")
             gone == {t \in Members("transport_list") : IsTcp(t)}
         IN  LinksOK(WithoutTcp(list)[Len(list)],
                     [t \in Transports |-> IF t \in gone THEN "unlisted" ELSE place[t]],
                     again)
<1> DEFINE list == Walk(next, "transport_list")
           gone == {t \in Members("transport_list") : IsTcp(t)}
           N == Len(list)
           after == WithoutTcp(list)
<1>1. /\ place \in [Transports -> Places] /\ again \in BOOLEAN
      /\ list \in Seq(Past(place)) /\ Past(place) \subseteq Node
      /\ Members("transport_list") = {list[n] : n \in 1 .. N}
      /\ ~again => Members("transport_list") = Placed(place, "listed")
  <2>1. place \in [Transports -> Places] /\ again \in BOOLEAN
    BY LinksOfState
  <2>2. list \in Seq(Past(place)) /\ Past(place) \subseteq Node
        /\ (~again => Members("transport_list") = Placed(place, "listed"))
    BY <2>1, WalkListed, PastFacts
  <2>3. DOMAIN list = 1 .. N
    <3> HIDE DEF list
    <3> QED BY <2>2
  <2>4. Members("transport_list") = {list[n] : n \in 1 .. N}
    BY <2>3 DEF Members
  <2> QED BY <2>1, <2>2, <2>4
<1>2. ~again => \A a, b \in 1 .. N : list[a] = list[b] => a = b
  BY RingIntact, NodeFacts DEF LinksOK, Listed, Places
<1> HIDE DEF list
<1>3. N \in Nat /\ \A n \in 1 .. N : list[n] \in Past(place)
  BY <1>1
<1>4. /\ after[0] = Links
      /\ \A n \in 1 .. N : after[n] = IF IsTcp(list[n]) THEN Unlink(after[n - 1], list[n])
                                      ELSE after[n - 1]
  <2>1. list \in Seq(Node)
    BY <1>1, SeqMonotonic
  <2> QED BY <2>1, WithoutTcpFacts
<1> HIDE DEF N, after
<1> DEFINE b == [n \in 0 .. N |->
                  IF LinksOK(after[n], PlacesAfter(list, n), again) THEN 1 ELSE 0]
           P == {1}
<1>5. \A n \in 0 .. N : b[n] \in P
  <2>1. b[0] \in P
    <3>1. PlacesAfter(list, 0) = place
      BY <1>1 DEF PlacesAfter
    <3>2. LinksOK(after[0], PlacesAfter(list, 0), again)
      BY <3>1, <1>4
    <3>3. 0 \in 0 .. N
      BY <1>3
    <3> QED BY <3>2, <3>3
  <2>2. ASSUME NEW n \in 1 .. N, b[n - 1] \in P PROVE b[n] \in P
    <3> DEFINE t == list[n]
               pl == PlacesAfter(list, n - 1)
    <3>1. n - 1 \in 0 .. N /\ n \in 0 .. N /\ n - 1 \in Nat
      BY <1>3
    <3>2. LinksOK(after[n - 1], pl, again)
      BY <2>2, <3>1
    <3>3. \A i : i \in 1 .. n <=> i \in 1 .. n - 1 \/ i = n
      BY <3>1
    <3>4. CASE IsTcp(t)
      <4>1. t \in Transports /\ t \in Past(place)
        BY <3>4, <1>3 DEF IsTcp
      <4>2. pl \in [Transports -> Places]
        BY <1>1 DEF PlacesAfter, Places
      <4>3. t \in Past(pl)
        BY <4>1, NodeFacts DEF Past, PlacesAfter
      <4>4. ~again => pl[t] = "listed"
        <5> SUFFICES ASSUME ~again PROVE pl[t] = "listed"
          OBVIOUS
        <5>1. \A i \in 1 .. n - 1 : list[i] # t
          <6> TAKE i \in 1 .. n - 1
          <6>1. i \in 1 .. N /\ i # n
            BY <1>3
          <6> QED BY <6>1, <1>2
        <5>2. place[t] = "listed"
          BY <1>1 DEF Placed
        <5> QED BY <5>1, <5>2, <4>1 DEF PlacesAfter
      <4>5. LinksOK(Unlink(after[n - 1], t), [pl EXCEPT ![t] = "unlisted"], again)
        <5> HIDE DEF pl, t
        <5> QED BY <3>2, <4>1, <4>2, <4>3, <4>4, <1>1, UnlistLinks
      <4>6. PlacesAfter(list, n) = [pl EXCEPT ![t] = "unlisted"]
        BY <3>3, <3>4, <4>1 DEF PlacesAfter
      <4>7. after[n] = Unlink(after[n - 1], t)
        BY <3>4, <1>4
      <4> QED BY <4>5, <4>6, <4>7, <3>1
    <3>5. CASE ~IsTcp(t)
      <4>1. PlacesAfter(list, n) = pl
        BY <3>3, <3>5 DEF PlacesAfter
      <4>2. after[n] = after[n - 1]
        BY <3>5, <1>4
      <4> QED BY <4>1, <4>2, <3>1, <3>2
    <3> QED BY <3>4, <3>5
  <2>3. b[0] \in P /\ \A n \in 1 .. N : b[n - 1] \in P => b[n] \in P
    BY <2>1, <2>2
  <2> HIDE DEF b, P
  <2> QED BY <2>3, <1>3, IteratesStays
<1>6. LinksOK(after[N], PlacesAfter(list, N), again)
  <2>1. N \in 0 .. N
    BY <1>3
  <2> QED BY <2>1, <1>5
<1>7. PlacesAfter(list, N) = [t \in Transports |-> IF t \in gone THEN "unlisted" ELSE place[t]]
  BY <1>1 DEF PlacesAfter, N
<1> QED BY <1>6, <1>7 DEF list, after, N

-----------------------------------------------------------------------------
(* The actions.                                                            *)

\* What an operation on the links and places leaves of the invariant, apart from
\* the messages.
LEMMA LinksStep ==
  ASSUME NEW k, LinksOK(k, place', again'), SetLinks(k),
         place' \in [Transports -> Places],
         info' \in [Transports -> [kind : Kinds \union {"none"},
                                   serial : Serials \union {"none"}, threads : BOOLEAN]],
         leaving' \subseteq Transports, reg' \in Seq(Transports \X {0, 1}),
         again' \in BOOLEAN
  PROVE  TypeOK' /\ LinksOK(Links', place', again')
<1>1. next' = k.nx /\ prev' = k.pv /\ k \in LinksType
  BY DEF SetLinks, LinksOK
<1>2. Links' = k
  BY <1>1 DEF Links, LinksType
<1>3. next' \in [Node -> Node] /\ prev' \in [Node -> Node]
  BY <1>1 DEF LinksType
<1>4. \A t \in Transports :
        ~again' /\ place'[t] = "freed" => next'[t] = Garbage /\ prev'[t] = Garbage
  BY <1>1 DEF LinksOK, Listed
<1> QED BY <1>2, <1>3, <1>4 DEF TypeOK, Places

LEMMA RegHead ==
  ASSUME RegistryInv, reg # <<>>
  PROVE  /\ Head(reg)[1] \in Transports /\ Head(reg)[2] \in {0, 1}
         /\ Tail(reg) \in Seq(Transports \X {0, 1})
         /\ Head(reg) = reg[1] /\ 1 \in 1 .. Len(reg)
         /\ Len(Tail(reg)) = Len(reg) - 1
         /\ \A n \in 1 .. Len(Tail(reg)) : Tail(reg)[n] = reg[n + 1] /\ n + 1 \in 1 .. Len(reg)
         /\ Head(reg)[2] = 1 => place[Head(reg)[1]] = "pending"
         /\ Head(reg)[2] = 0 => Head(reg)[1] \in Past(place)
<1>1. reg \in Seq(Transports \X {0, 1})
  BY DEF RegistryInv, TypeOK
<1>2. Head(reg) = reg[1] /\ 1 \in 1 .. Len(reg) /\ Head(reg) \in Transports \X {0, 1}
  BY <1>1
<1>3. /\ Tail(reg) \in Seq(Transports \X {0, 1})
      /\ Len(Tail(reg)) = Len(reg) - 1
      /\ \A n \in 1 .. Len(Tail(reg)) : Tail(reg)[n] = reg[n + 1] /\ n + 1 \in 1 .. Len(reg)
  BY <1>1
<1> QED BY <1>2, <1>3 DEF RegistryInv, RegOK

\* A message is added.
LEMMA RegAppend ==
  ASSUME RegistryInv, NEW msg \in Transports \X {0, 1}, reg' = Append(reg, msg),
         msg[2] = 1 => place[msg[1]] = "new" /\ place'[msg[1]] = "pending",
         msg[2] = 0 => msg[1] \in Past(place'),
         \A u \in Transports : place[u] = "pending" => place'[u] = "pending",
         Past(place) \subseteq Past(place')
  PROVE  RegOK' /\ reg' \in Seq(Transports \X {0, 1})
<1> DEFINE L == Len(reg)
<1>1. reg \in Seq(Transports \X {0, 1})
  BY DEF RegistryInv, TypeOK
<1>2. /\ reg' \in Seq(Transports \X {0, 1}) /\ Len(reg') = L + 1 /\ L \in Nat
      /\ \A n \in 1 .. L + 1 : reg'[n] = IF n = L + 1 THEN msg ELSE reg[n]
  BY <1>1
<1>3. \A n \in 1 .. L : reg[n] \in Transports \X {0, 1}
  BY <1>1
<1>4. \A n \in 1 .. L : reg[n][1] \in Transports
  BY <1>3
<1> HIDE DEF L
<1>5. \A n \in 1 .. L + 1 : reg'[n][2] = 1 => place'[reg'[n][1]] = "pending"
  <2> TAKE n \in 1 .. L + 1
  <2>1. CASE n = L + 1
    BY <2>1, <1>2
  <2>2. CASE n # L + 1
    <3>1. n \in 1 .. L /\ reg'[n] = reg[n]
      BY <2>2, <1>2
    <3> QED BY <3>1, <1>4 DEF RegistryInv, RegOK, L
  <2> QED BY <2>1, <2>2
<1>6. \A n \in 1 .. L + 1 : reg'[n][2] = 0 => reg'[n][1] \in Past(place')
  <2> TAKE n \in 1 .. L + 1
  <2>1. CASE n = L + 1
    BY <2>1, <1>2
  <2>2. CASE n # L + 1
    <3>1. n \in 1 .. L /\ reg'[n] = reg[n]
      BY <2>2, <1>2
    <3> QED BY <3>1 DEF RegistryInv, RegOK, L
  <2> QED BY <2>1, <2>2
<1>7. \A a, b \in 1 .. L + 1 : reg'[a] = reg'[b] /\ reg'[a][2] = 1 => a = b
  <2>1. \A a \in 1 .. L : reg[a] = msg /\ msg[2] = 1 => FALSE
    BY DEF RegistryInv, RegOK, L
  <2>2. \A a, b \in 1 .. L : reg[a] = reg[b] /\ reg[a][2] = 1 => a = b
    BY DEF RegistryInv, RegOK, L
  <2> TAKE a, b \in 1 .. L + 1
  <2>3. CASE a = L + 1 /\ b = L + 1
    BY <2>3
  <2>4. CASE a \in 1 .. L /\ b = L + 1
    BY <2>1, <2>4, <1>2
  <2>5. CASE a = L + 1 /\ b \in 1 .. L
    BY <2>1, <2>5, <1>2
  <2>6. CASE a \in 1 .. L /\ b \in 1 .. L
    BY <2>2, <2>6, <1>2
  <2> QED BY <2>3, <2>4, <2>5, <2>6, <1>2
<1>8. RegOK'
  <2>1. Len(reg') = L + 1
    BY <1>2
  <2> QED BY <2>1, <1>5, <1>6, <1>7 DEF RegOK
<1> QED BY <1>2, <1>8

\* No message is added and no pending transport leaves its list unannounced.
LEMMA RegKeeps ==
  ASSUME RegistryInv, reg' = reg,
         \A u \in Transports : place[u] = "pending" => place'[u] = "pending",
         Past(place) \subseteq Past(place')
  PROVE  RegOK'
<1>1. reg \in Seq(Transports \X {0, 1})
  BY DEF RegistryInv, TypeOK
<1>2. \A n \in 1 .. Len(reg) : reg[n][1] \in Transports
  BY <1>1
<1> QED BY <1>2 DEF RegistryInv, RegOK

LEMMA PendStep ==
  ASSUME RegistryInv, NEW t \in Transports, NEW kind \in Kinds, NEW serial \in Serials,
         NEW threads \in BOOLEAN, place[t] = "new", Pend(t, kind, serial, threads)
  PROVE  RegistryInv'
<1>1. /\ TypeOK /\ LinksOK(Links, place, again)
      /\ place \in [Transports -> Places] /\ again \in BOOLEAN
  BY LinksOfState DEF RegistryInv
<1> DEFINE k == LinkLast(Links, t, "pending_list")
<1>2. /\ SetLinks(k) /\ place' = [place EXCEPT ![t] = "pending"]
      /\ again' = again /\ leaving' = leaving /\ reg' = Append(reg, <<t, 1>>)
      /\ info' = [info EXCEPT ![t] = [kind |-> kind, serial |-> serial, threads |-> threads]]
  BY DEF Pend
<1>3. LinksOK(k, place', again')
  BY <1>1, <1>2, PendLinks
<1>4. place' \in [Transports -> Places] /\ place'[t] = "pending"
      /\ (\A u \in Transports : place[u] = "pending" => place'[u] = "pending")
      /\ Past(place) \subseteq Past(place')
  BY <1>1, <1>2, NodeFacts DEF Past, Places
<1>5. RegOK' /\ reg' \in Seq(Transports \X {0, 1})
  <2> DEFINE msg == <<t, 1>>
  <2>1. /\ msg \in Transports \X {0, 1} /\ reg' = Append(reg, msg)
        /\ place[msg[1]] = "new" /\ place'[msg[1]] = "pending" /\ msg[2] # 0
    BY <1>2, <1>4
  <2> HIDE DEF msg
  <2> QED BY <2>1, <1>4, RegAppend
<1>6. /\ info' \in [Transports -> [kind : Kinds \union {"none"},
                                   serial : Serials \union {"none"}, threads : BOOLEAN]]
      /\ leaving' \subseteq Transports /\ again' \in BOOLEAN
  BY <1>1, <1>2 DEF TypeOK
<1> HIDE DEF k
<1>7. TypeOK' /\ LinksOK(Links', place', again')
  BY <1>2, <1>3, <1>4, <1>5, <1>6, LinksStep
<1> QED BY <1>5, <1>7 DEF RegistryInv

LEMMA AddStep ==
  ASSUME RegistryInv, RegistrationAdd
  PROVE  RegistryInv'
<1> DEFINE t == Head(reg)[1]
           k == LinkLast(Unlink(Links, t), t, "transport_list")
<1>1. /\ TypeOK /\ LinksOK(Links, place, again)
      /\ place \in [Transports -> Places] /\ again \in BOOLEAN
  BY LinksOfState DEF RegistryInv
<1>2. /\ reg # <<>> /\ Head(reg)[2] = 1 /\ reg' = Tail(reg)
      /\ SetLinks(k) /\ place' = [place EXCEPT ![t] = "listed"]
      /\ again' = again /\ leaving' = leaving /\ info' = info
  BY DEF RegistrationAdd
<1>3. t \in Transports /\ place[t] = "pending" /\ Head(reg) = reg[1] /\ 1 \in 1 .. Len(reg)
      /\ Tail(reg) \in Seq(Transports \X {0, 1})
  BY <1>2, RegHead
<1>4. LinksOK(k, place', again')
  BY <1>1, <1>2, <1>3, AddLinks
<1>5. place' \in [Transports -> Places] /\ Past(place) \subseteq Past(place')
      /\ \A u \in Transports : u # t => place'[u] = place[u]
  BY <1>1, <1>2, NodeFacts DEF Past, Places
<1>6. /\ info' \in [Transports -> [kind : Kinds \union {"none"},
                                   serial : Serials \union {"none"}, threads : BOOLEAN]]
      /\ leaving' \subseteq Transports /\ again' \in BOOLEAN
  BY <1>1, <1>2 DEF TypeOK
<1>7. RegOK'
  <2> DEFINE M == Len(reg')
  <2>1. /\ M = Len(reg) - 1
        /\ \A n \in 1 .. M : reg'[n] = reg[n + 1] /\ n + 1 \in 1 .. Len(reg)
    BY <1>2, RegHead
  <2>2. reg' \in Seq(Transports \X {0, 1}) /\ M \in Nat
    BY <1>2, <1>3
  <2>3. \A n \in 1 .. M : reg'[n][1] \in Transports /\ reg'[n][2] \in {0, 1}
                         /\ reg'[n] = <<reg'[n][1], reg'[n][2]>>
    <3> TAKE n \in 1 .. M
    <3>1. reg'[n] \in Transports \X {0, 1}
      BY <2>2
    <3> QED BY <3>1
  <2>4. reg[1] = <<t, 1>>
    <3>1. reg[1] \in Transports \X {0, 1}
      BY <1>1, <1>3 DEF TypeOK
    <3> QED BY <3>1, <1>2, <1>3
  <2> HIDE DEF M
  <2>5. \A n \in 1 .. M : reg'[n][2] = 1 => reg'[n][1] # t
    <3> SUFFICES ASSUME NEW n \in 1 .. M, reg'[n][2] = 1, reg'[n][1] = t PROVE FALSE
      OBVIOUS
    <3>1. reg'[n] = <<t, 1>>
      BY <2>3
    <3>2. reg[n + 1] = reg[1] /\ reg[1][2] = 1 /\ n + 1 \in 1 .. Len(reg)
      BY <3>1, <2>1, <2>4
    <3>3. n + 1 = 1
      BY <3>2, <1>3 DEF RegistryInv, RegOK
    <3> QED BY <3>3, <2>2
  <2>6. \A n \in 1 .. M : reg'[n][2] = 1 => place'[reg'[n][1]] = "pending"
    BY <2>1, <2>3, <2>5, <1>5 DEF RegistryInv, RegOK
  <2>7. \A n \in 1 .. M : reg'[n][2] = 0 => reg'[n][1] \in Past(place')
    BY <2>1, <1>5 DEF RegistryInv, RegOK
  <2>8. \A a, b \in 1 .. M : reg'[a] = reg'[b] /\ reg'[a][2] = 1 => a = b
    <3> SUFFICES ASSUME NEW a \in 1 .. M, NEW b \in 1 .. M, reg'[a] = reg'[b], reg'[a][2] = 1
                 PROVE  a = b
      OBVIOUS
    <3>1. a + 1 = b + 1
      BY <2>1 DEF RegistryInv, RegOK
    <3> QED BY <3>1
  <2> QED BY <2>6, <2>7, <2>8 DEF RegOK, M
<1> HIDE DEF k
<1>8. TypeOK' /\ LinksOK(Links', place', again')
  BY <1>2, <1>3, <1>4, <1>5, <1>6, LinksStep
<1> QED BY <1>7, <1>8 DEF RegistryInv

LEMMA LeaveStep ==
  ASSUME RegistryInv, NEW t \in Transports, remove_transport(t)
  PROVE  RegistryInv'
<1>1. /\ place[t] \in {"listed", "unlisted"} /\ leaving' = leaving \union {t}
      /\ reg' = Append(reg, <<t, 0>>)
      /\ next' = next /\ prev' = prev /\ place' = place /\ info' = info /\ again' = again
  BY DEF remove_transport
<1>2. RegOK' /\ reg' \in Seq(Transports \X {0, 1})
  <2> DEFINE msg == <<t, 0>>
  <2>1. /\ msg \in Transports \X {0, 1} /\ reg' = Append(reg, msg)
        /\ msg[1] \in Past(place') /\ msg[2] # 1
    BY <1>1 DEF Past
  <2> HIDE DEF msg
  <2> QED BY <2>1, <1>1, RegAppend
<1>3. TypeOK'
  BY <1>1, <1>2 DEF RegistryInv, TypeOK
<1>4. LinksOK(Links', place', again')
  <2>1. Links' = Links
    BY <1>1 DEF Links
  <2> QED BY <2>1, <1>1 DEF RegistryInv
<1> QED BY <1>2, <1>3, <1>4 DEF RegistryInv

LEMMA RemoveStep ==
  ASSUME RegistryInv, RegistrationRemove
  PROVE  RegistryInv'
<1> DEFINE t == Head(reg)[1]
           k == Free(Unlink(Links, t), t)
<1>1. /\ TypeOK /\ LinksOK(Links, place, again)
      /\ place \in [Transports -> Places] /\ again \in BOOLEAN
  BY LinksOfState DEF RegistryInv
<1>2. /\ reg # <<>> /\ Head(reg)[2] = 0 /\ reg' = Tail(reg)
      /\ SetLinks(k) /\ place' = [place EXCEPT ![t] = "freed"]
      /\ again' = (again \/ (place[t] # "listed" /\ StaleIn(Links, t)))
      /\ leaving' = leaving /\ info' = info
  BY DEF RegistrationRemove, Stale, StaleIn, Links
<1>3. t \in Transports /\ t \in Past(place) /\ Tail(reg) \in Seq(Transports \X {0, 1})
  BY <1>2, RegHead
<1>4. LinksOK(k, place', again')
  BY <1>1, <1>2, <1>3, RemoveLinks
<1>5. place' \in [Transports -> Places] /\ Past(place) \subseteq Past(place')
      /\ \A u \in Transports : place[u] = "pending" => place'[u] = "pending"
  BY <1>1, <1>2, <1>3, NodeFacts DEF Past, Places
<1>6. /\ info' \in [Transports -> [kind : Kinds \union {"none"},
                                   serial : Serials \union {"none"}, threads : BOOLEAN]]
      /\ leaving' \subseteq Transports
  BY <1>1, <1>2 DEF TypeOK
<1>7. again' \in BOOLEAN
  BY <1>2
<1>8. RegOK'
  <2> DEFINE M == Len(reg')
  <2>1. /\ M = Len(reg) - 1
        /\ \A n \in 1 .. M : reg'[n] = reg[n + 1] /\ n + 1 \in 1 .. Len(reg)
    BY <1>2, RegHead
  <2>2. \A n \in 1 .. M : reg'[n][1] \in Transports
    BY <1>2, <1>3
  <2> HIDE DEF M
  <2>3. \A n \in 1 .. M : reg'[n][2] = 1 => place'[reg'[n][1]] = "pending"
    BY <2>1, <2>2, <1>5 DEF RegistryInv, RegOK
  <2>4. \A n \in 1 .. M : reg'[n][2] = 0 => reg'[n][1] \in Past(place')
    BY <2>1, <1>5 DEF RegistryInv, RegOK
  <2>5. \A a, b \in 1 .. M : reg'[a] = reg'[b] /\ reg'[a][2] = 1 => a = b
    <3> SUFFICES ASSUME NEW a \in 1 .. M, NEW b \in 1 .. M, reg'[a] = reg'[b], reg'[a][2] = 1
                 PROVE  a = b
      OBVIOUS
    <3>1. a + 1 = b + 1
      BY <2>1 DEF RegistryInv, RegOK
    <3> QED BY <3>1
  <2> QED BY <2>3, <2>4, <2>5 DEF RegOK, M
<1> HIDE DEF k
<1>9. TypeOK' /\ LinksOK(Links', place', again')
  BY <1>2, <1>3, <1>4, <1>5, <1>6, <1>7, LinksStep
<1> QED BY <1>8, <1>9 DEF RegistryInv

\* A transport that a walk along transport_list meets is disconnected.
LEMMA UnlistStep ==
  ASSUME RegistryInv, NEW t \in Transports, t \in Members("transport_list"),
         SetLinks(Unlink(Links, t)), place' = [place EXCEPT ![t] = "unlisted"],
         UNCHANGED <<info, leaving, reg, again>>
  PROVE  RegistryInv'
<1> DEFINE k == Unlink(Links, t)
<1>1. /\ TypeOK /\ LinksOK(Links, place, again)
      /\ place \in [Transports -> Places] /\ again \in BOOLEAN
  BY LinksOfState DEF RegistryInv
<1>2. t \in Past(place) /\ (~again => place[t] = "listed")
  BY <1>1, WalkListed DEF Placed
<1>3. LinksOK(k, place', again')
  BY <1>1, <1>2, UnlistLinks
<1>4. place' \in [Transports -> Places] /\ Past(place) \subseteq Past(place')
      /\ \A u \in Transports : place[u] = "pending" => place'[u] = "pending"
  BY <1>1, <1>2, NodeFacts DEF Past, Places
<1>5. /\ info' \in [Transports -> [kind : Kinds \union {"none"},
                                   serial : Serials \union {"none"}, threads : BOOLEAN]]
      /\ leaving' \subseteq Transports /\ again' \in BOOLEAN
      /\ reg' \in Seq(Transports \X {0, 1})
  BY <1>1 DEF TypeOK
<1>6. RegOK'
  BY <1>4, RegKeeps
<1> HIDE DEF k
<1>7. TypeOK' /\ LinksOK(Links', place', again')
  BY <1>3, <1>4, <1>5, LinksStep DEF k
<1> QED BY <1>6, <1>7 DEF RegistryInv

LEMMA UnregisterStep ==
  ASSUME RegistryInv, NEW serial \in Serials, unregister_transport(serial)
  PROVE  RegistryInv'
<1> DEFINE list == Walk(next, "transport_list")
           hits == {n \in DOMAIN list :
                      list[n] \in Transports /\ info[list[n]].serial = serial}
           t == list[CHOOSE n \in hits : \A m \in hits : n <= m]
<1>1. /\ HasSerial("transport_list", serial)
      /\ SetLinks(Unlink(Links, t)) /\ place' = [place EXCEPT ![t] = "unlisted"]
      /\ UNCHANGED <<info, leaving, reg, again>>
  BY DEF unregister_transport
<1>2. hits # {}
  BY <1>1 DEF HasSerial, Members
<1>3. hits \in SUBSET Nat
  <2>1. list \in Seq(Past(place))
    BY WalkListed DEF RegistryInv
  <2>2. DOMAIN list \in SUBSET Nat
    <3> HIDE DEF list
    <3> QED BY <2>1
  <2> QED BY <2>2
<1>4. \E n \in hits : \A m \in hits : n <= m
  <2> HIDE DEF hits
  <2> QED BY <1>2, <1>3, LeastNumber
<1>5. PICK n \in hits : t = list[n]
  <2> HIDE DEF hits
  <2> QED BY <1>4
<1>6. t \in Transports /\ t \in Members("transport_list")
  <2>1. n \in DOMAIN list /\ list[n] \in Transports
    OBVIOUS
  <2>2. list[n] \in Members("transport_list")
    BY <2>1 DEF Members
  <2> HIDE DEF t
  <2> QED BY <2>1, <2>2, <1>5
<1> HIDE DEF t
<1> QED BY <1>1, <1>6, UnlistStep

LEMMA UnregisterUsbStep ==
  ASSUME RegistryInv, NEW t \in Transports, unregister_usb_transport(t)
  PROVE  RegistryInv'
BY UnlistStep DEF unregister_usb_transport

LEMMA UnregisterAllStep ==
  ASSUME RegistryInv, unregister_all_tcp_transports
  PROVE  RegistryInv'
<1> DEFINE list == Walk(next, "transport_list")
           gone == {t \in Members("transport_list") : IsTcp(t)}
           k == WithoutTcp(list)[Len(list)]
<1>1. /\ TypeOK /\ LinksOK(Links, place, again)
      /\ place \in [Transports -> Places] /\ again \in BOOLEAN
  BY LinksOfState DEF RegistryInv
<1>2. /\ SetLinks(k)
      /\ place' = [t \in Transports |-> IF t \in gone THEN "unlisted" ELSE place[t]]
      /\ info' = info /\ leaving' = leaving /\ reg' = reg /\ again' = again
  BY DEF unregister_all_tcp_transports
<1>3. LinksOK(k, place', again')
  <2>1. LinksOK(k, [t \in Transports |-> IF t \in gone THEN "unlisted" ELSE place[t]], again)
    BY <1>1, TcpLinks
  <2> QED BY <2>1, <1>2
<1>4. gone \subseteq Past(place)
  BY <1>1, WalkListed
<1> HIDE DEF gone, k
<1>5. place' \in [Transports -> Places] /\ Past(place) \subseteq Past(place')
      /\ \A u \in Transports : place[u] = "pending" => place'[u] = "pending"
  <2>1. \A u \in gone \cap Transports : place[u] \in {"listed", "unlisted", "freed"}
    BY <1>4, NodeFacts DEF Past
  <2> QED BY <2>1, <1>1, <1>2, NodeFacts DEF Past, Places
<1>6. /\ info' \in [Transports -> [kind : Kinds \union {"none"},
                                   serial : Serials \union {"none"}, threads : BOOLEAN]]
      /\ leaving' \subseteq Transports /\ again' \in BOOLEAN
      /\ reg' \in Seq(Transports \X {0, 1})
  BY <1>1, <1>2 DEF TypeOK
<1>7. RegOK'
  BY <1>2, <1>5, RegKeeps
<1>8. TypeOK' /\ LinksOK(Links', place', again')
  BY <1>2, <1>3, <1>5, <1>6, LinksStep
<1> QED BY <1>7, <1>8 DEF RegistryInv

LEMMA RegistryInit == Init => RegistryInv
<1> SUFFICES ASSUME Init PROVE RegistryInv
  OBVIOUS
<1> USE DEF Init
<1>1. TypeOK
  <2>1. next \in [Node -> Node] /\ prev \in [Node -> Node]
    BY NodeFacts
  <2>2. info \in [Transports -> [kind : Kinds \union {"none"}, serial : Serials \union {"none"},
                                threads : BOOLEAN]]
    BY DEF NoInfo
  <2>3. leaving \subseteq Transports /\ again \in BOOLEAN
    OBVIOUS
  <2>6. reg \in Seq(Transports \X {0, 1})
    OBVIOUS
  <2>4. \A t \in Transports : place[t] # "freed"
    OBVIOUS
  <2>5. place \in [Transports -> {"new", "pending", "listed", "unlisted", "freed"}]
    OBVIOUS
  <2> QED BY <2>1, <2>2, <2>3, <2>4, <2>5, <2>6 DEF TypeOK
<1>2. \A head \in Heads : IsRing(Links, head, {})
  <2> TAKE head \in Heads
  <2> DEFINE f == [n \in 0 .. 0 + 1 |-> head]
  <2>1. f \in [0 .. 0 + 1 -> Node] /\ f[0] = head /\ f[0 + 1] = head
    BY NodeFacts
  <2>2. Links.nx[head] = head /\ Links.pv[head] = head
    BY NodeFacts DEF Links
  <2>3. Ring(Links, head, {}, 0, f)
    <3> HIDE DEF f
    <3> QED BY <2>1, <2>2 DEF Ring, Follows
  <2> QED BY <2>1, <2>3 DEF IsRing
<1>3. Placed(place, "pending") = {} /\ Placed(place, "listed") = {}
  BY DEF Placed
<1>4. Apart(Links, place)
  BY NodeFacts DEF Apart, Past, Links, Heads
<1>5. Listed(Links, place)
  <2>1. IsRing(Links, "transport_list", Placed(place, "listed"))
    BY <1>2, <1>3, NodeFacts
  <2>2. \A t \in Transports : place[t] # "freed"
    OBVIOUS
  <2> QED BY <2>1, <2>2 DEF Listed
<1>6. LinksOK(Links, place, again)
  <2>1. IsRing(Links, "pending_list", Placed(place, "pending"))
    BY <1>2, <1>3, NodeFacts
  <2>2. Links \in LinksType
    BY <1>1, LinksOfState
  <2> QED BY <2>1, <2>2, <1>4, <1>5 DEF LinksOK
<1>7. RegOK
  BY DEF RegOK
<1> QED BY <1>1, <1>6, <1>7 DEF RegistryInv

LEMMA RegistryStep == RegistryInv /\ [Next]_vars => RegistryInv'
<1> SUFFICES ASSUME RegistryInv, [Next]_vars PROVE RegistryInv'
  OBVIOUS
<1>1. ASSUME NEW t \in Transports, NEW serial \in Serials, NEW kind \in Kinds,
             register_socket_transport(t, kind, serial)
      PROVE  RegistryInv'
  BY <1>1, PendStep DEF register_socket_transport
<1>2. ASSUME NEW t \in Transports, NEW serial \in Serials, NEW writeable \in BOOLEAN,
             register_usb_transport(t, serial, writeable)
      PROVE  RegistryInv'
  <2>1. place[t] = "new" /\ "usb" \in Kinds /\ Pend(t, "usb", serial, writeable)
    BY <1>2 DEF register_usb_transport
  <2> QED BY <2>1, PendStep
<1>3. CASE RegistrationAdd
  BY <1>3, AddStep
<1>4. CASE RegistrationRemove
  BY <1>4, RemoveStep
<1>5. ASSUME NEW t \in Transports, remove_transport(t) PROVE RegistryInv'
  BY <1>5, LeaveStep
<1>6. ASSUME NEW t \in Transports, unregister_usb_transport(t) PROVE RegistryInv'
  BY <1>6, UnregisterUsbStep
<1>7. ASSUME NEW serial \in Serials, unregister_transport(serial) PROVE RegistryInv'
  BY <1>7, UnregisterStep
<1>8. CASE unregister_all_tcp_transports
  BY <1>8, UnregisterAllStep
<1>9. CASE UNCHANGED vars
  <2>1. /\ next' = next /\ prev' = prev /\ place' = place /\ info' = info
        /\ leaving' = leaving /\ reg' = reg /\ again' = again
    BY <1>9 DEF vars
  <2>2. TypeOK' /\ RegOK' /\ Links' = Links
    BY <2>1 DEF RegistryInv, TypeOK, RegOK, Links
  <2> QED BY <2>1, <2>2 DEF RegistryInv
<1> QED BY <1>1, <1>2, <1>3, <1>4, <1>5, <1>6, <1>7, <1>8, <1>9 DEF Next

LEMMA RegistryInvariant == Spec => []RegistryInv
<1>1. Init => RegistryInv
  BY RegistryInit
<1>2. RegistryInv /\ [Next]_vars => RegistryInv'
  BY RegistryStep
<1> QED BY <1>1, <1>2, PTL DEF Spec

-----------------------------------------------------------------------------
(* The theorems.                                                           *)

\* Registrations, disconnects and removals (register_socket_transport,
\* transport_registration_func, unregister_transport and the others) leave both
\* lists whole in both directions, each with the transports that belong on it.
\* pending_list always; transport_list until a disconnected transport is removed
\* whose former neighbours are no longer next to each other, since its removal
\* (transport.c:600) writes its stale links into them.
THEOREM ListsStayIntact == Spec => []ListsIntact
<1>1. RegistryInv => ListsIntact
  <2> SUFFICES ASSUME RegistryInv PROVE ListsIntact
    OBVIOUS
  <2>1. TypeOK /\ LinksOK(Links, place, again)
    BY DEF RegistryInv
  <2>2. ~again => Intact("transport_list", "listed")
    BY <2>1, RingIntact, NodeFacts DEF LinksOK, Listed, Places
  <2>3. Intact("pending_list", "pending")
    BY <2>1, RingIntact, NodeFacts DEF LinksOK, Places
  <2> QED BY <2>1, <2>2, <2>3 DEF ListsIntact
<1> QED BY <1>1, RegistryInvariant, PTL

\* A registration that changes nothing else keeps serials unique: the lists that
\* register_socket_transport searches hold every transport that is registered.
LEMMA PendUnique ==
  ASSUME RegistryInv, SerialUnique, NEW t \in Transports, NEW kind, NEW serial, NEW threads,
         Pend(t, kind, serial, threads), place[t] = "new",
         kind = "usb" \/ (/\ ~HasSerial("pending_list", serial)
                          /\ ~HasSerial("transport_list", serial))
  PROVE  SerialUnique'
<1>1. /\ TypeOK /\ LinksOK(Links, place, again) /\ place \in [Transports -> Places]
      /\ \A u \in Transports : u \in DOMAIN info
  BY LinksOfState DEF RegistryInv, TypeOK
<1>2. /\ place' = [place EXCEPT ![t] = "pending"] /\ again' = again
      /\ info' = [info EXCEPT ![t] = [kind |-> kind, serial |-> serial, threads |-> threads]]
  BY DEF Pend
<1>3. /\ \A u \in Transports : u # t => place'[u] = place[u] /\ info'[u] = info[u]
      /\ info'[t].kind = kind /\ info'[t].serial = serial
  BY <1>1, <1>2
<1>4. ASSUME NEW u \in Transports, ~again, place[u] \in {"pending", "listed"},
             info[u].serial = serial
      PROVE  HasSerial("pending_list", serial) \/ HasSerial("transport_list", serial)
  <2>1. u \in Members("pending_list") \/ u \in Members("transport_list")
    BY <1>1, <1>4, WalkListed DEF Placed
  <2>2. u # Garbage
    BY NodeFacts
  <2> QED BY <2>1, <2>2, <1>4 DEF HasSerial
<1> SUFFICES ASSUME NEW a \in Transports, NEW b \in Transports, ~again',
                    place'[a] \in {"pending", "listed"}, place'[b] \in {"pending", "listed"},
                    info'[a].kind # "usb", info'[b].kind # "usb",
                    info'[a].serial = info'[b].serial
             PROVE  a = b
  BY DEF SerialUnique
<1>5. CASE a # t /\ b # t
  BY <1>5, <1>2, <1>3 DEF SerialUnique
<1>6. CASE a = t /\ b # t
  BY <1>6, <1>2, <1>3, <1>4
<1>7. CASE a # t /\ b = t
  BY <1>7, <1>2, <1>3, <1>4
<1> QED BY <1>5, <1>6, <1>7

\* No two sockets are registered under one serial, however many threads register
\* and disconnect at once: register_socket_transport refuses a serial that is on
\* either list, and the lists hold what they should.
THEOREM SerialsStayUnique == Spec => []SerialUnique
<1>1. Init => SerialUnique
  BY DEF Init, SerialUnique
<1>2. RegistryInv /\ SerialUnique /\ [Next]_vars => SerialUnique'
  <2> SUFFICES ASSUME RegistryInv, SerialUnique, [Next]_vars PROVE SerialUnique'
    OBVIOUS
  \* Whoever is registered afterwards was so before.
  <2>1. ASSUME info' = info, again' \/ again' = again, again => again',
               \A t \in Transports : place'[t] \in {"pending", "listed"}
                                      => place[t] \in {"pending", "listed"}
        PROVE  SerialUnique'
    BY <2>1 DEF SerialUnique
  <2>2. /\ place \in [Transports -> Places] /\ again \in BOOLEAN
    BY LinksOfState DEF RegistryInv
  <2>3. ASSUME NEW t \in Transports, NEW serial \in Serials, NEW kind \in Kinds,
               register_socket_transport(t, kind, serial)
        PROVE  SerialUnique'
    BY <2>3, PendUnique DEF register_socket_transport
  <2>4. ASSUME NEW t \in Transports, NEW serial \in Serials, NEW writeable \in BOOLEAN,
               register_usb_transport(t, serial, writeable)
        PROVE  SerialUnique'
    <3>1. place[t] = "new" /\ Pend(t, "usb", serial, writeable)
      BY <2>4 DEF register_usb_transport
    <3> QED BY <3>1, PendUnique
  <2>5. CASE RegistrationAdd
    <3>1. Head(reg)[1] \in Transports /\ place[Head(reg)[1]] = "pending"
      BY <2>5, RegHead DEF RegistrationAdd
    <3> QED BY <2>1, <2>2, <2>5, <3>1 DEF RegistrationAdd
  <2>6. CASE RegistrationRemove
    <3>1. /\ info' = info
          /\ again' = (again \/ (place[Head(reg)[1]] # "listed" /\ Stale(Head(reg)[1])))
          /\ place' = [place EXCEPT ![Head(reg)[1]] = "freed"]
      BY <2>6 DEF RegistrationRemove
    <3>2. \A t \in Transports : place'[t] \in {"pending", "listed"}
                                => place[t] \in {"pending", "listed"}
      BY <3>1, <2>2
    <3>3. (again => again') /\ (again' \/ again' = again)
      BY <3>1, <2>2
    <3> QED BY <3>1, <3>2, <3>3, <2>1
  <2>7. ASSUME NEW t \in Transports, remove_transport(t) PROVE SerialUnique'
    BY <2>1, <2>7 DEF remove_transport
  <2>8. ASSUME NEW t \in Transports, unregister_usb_transport(t) PROVE SerialUnique'
    BY <2>1, <2>2, <2>8 DEF unregister_usb_transport
  <2>9. ASSUME NEW serial \in Serials, unregister_transport(serial) PROVE SerialUnique'
    <3>1. PICK t : place' = [place EXCEPT ![t] = "unlisted"] /\ info' = info /\ again' = again
      BY <2>9 DEF unregister_transport
    <3> QED BY <3>1, <2>1, <2>2
  <2>10. CASE unregister_all_tcp_transports
    <3>1. PICK gone : /\ place' = [t \in Transports |-> IF t \in gone THEN "unlisted"
                                                        ELSE place[t]]
                      /\ info' = info /\ again' = again
      BY <2>10 DEF unregister_all_tcp_transports
    <3> QED BY <3>1, <2>1, <2>2
  <2>11. CASE UNCHANGED vars
    BY <2>1, <2>11 DEF vars
  <2> QED BY <2>3, <2>4, <2>5, <2>6, <2>7, <2>8, <2>9, <2>10, <2>11 DEF Next
<1> QED BY <1>1, <1>2, RegistryInvariant, PTL DEF Spec
=============================================================================
