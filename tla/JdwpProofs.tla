------------------------------ MODULE JdwpProofs ------------------------------
(***************************************************************************)
(* Theorems about the debugger services: descriptors are owned once and    *)
(* passed in order, and the trackers are current, for any number of        *)
(* processes, pids, clients and connections.                               *)
(***************************************************************************)
EXTENDS Jdwp, SequenceTheorems, FiniteSetTheorems, TLAPS

-----------------------------------------------------------------------------
(* The order in which jdwp_process_list meets the processes.               *)

\* Every non-empty set of numbers has a least one: the intervals up to its members
\* are finite sets, and one of them includes no other.
LEMMA LeastNumber ==
  ASSUME NEW A \in SUBSET Nat, A # {}
  PROVE  \E m \in A : \A k \in A : m <= k
<1> DEFINE T == {1 .. n : n \in A}
<1>1. /\ T \subseteq FiniteSubsetsOf(Nat)
      /\ T # {}
  <2>1. \A n \in A : IsFiniteSet(1 .. n) /\ 1 .. n \in SUBSET Nat
    <3> TAKE n \in A
    <3>1. 1 \in Int /\ n \in Int
      OBVIOUS
    <3> QED BY <3>1, FS_Interval
  <2> QED BY <2>1 DEF FiniteSubsetsOf
<1>2. PICK U \in T : \A V \in T : <<V, U>> \notin StrictSubsetOrdering(Nat)
  <2> HIDE DEF T
  <2> QED BY <1>1, WFMin, FS_StrictSubsetOrderingWellFounded, Zenon
<1>3. PICK m \in A : U = 1 .. m
  OBVIOUS
<1>4. ASSUME NEW k \in A, k < m PROVE FALSE
  <2>1. 1 .. k \subseteq 1 .. m /\ m \in 1 .. m /\ m \notin 1 .. k
    BY <1>4
  <2>2. 1 .. k \in SUBSET Nat /\ 1 .. m \in SUBSET Nat /\ 1 .. k # 1 .. m
    BY <2>1
  <2>3. <<1 .. k, 1 .. m>> \in StrictSubsetOrdering(Nat)
    BY <2>1, <2>2 DEF StrictSubsetOrdering
  <2> QED BY <2>3, <1>2, <1>3
<1> QED BY <1>4

\* A set of positions is finite.
LEMMA FinitePositions ==
  ASSUME NEW n \in Int, NEW R \in SUBSET (1 .. n)
  PROVE  IsFiniteSet(R) /\ Cardinality(R) \in Nat
<1>1. IsFiniteSet(1 .. n)
  <2>1. 1 \in Int
    OBVIOUS
  <2> QED BY <2>1, FS_Interval
<1>2. IsFiniteSet(R)
  BY <1>1, FS_Subset
<1> QED BY <1>2, FS_CardinalityType

\* The numbers in S can be put in increasing order.
Ordered(S) ==
  \E f \in [1 .. Cardinality(S) -> S] : \A i, j \in DOMAIN f : i < j => f[i] < f[j]

LEMMA OrderedNext ==
  ASSUME NEW n \in Nat \ {0}, NEW R \in SUBSET (1 .. n - 1), Ordered(R)
  PROVE  Ordered(R \union {n})
<1>1. IsFiniteSet(R)
  <2>1. n - 1 \in Int
    OBVIOUS
  <2> QED BY <2>1, FinitePositions, Zenon
<1> DEFINE c == Cardinality(R)
<1>2. c \in Nat /\ Cardinality(R \union {n}) = c + 1
  BY <1>1, FS_AddElement, FS_CardinalityType
<1> HIDE DEF c
<1>3. PICK f \in [1 .. c -> R] : \A i, j \in 1 .. c : i < j => f[i] < f[j]
  BY DEF Ordered, c
<1> DEFINE g == [i \in 1 .. c + 1 |-> IF i = c + 1 THEN n ELSE f[i]]
<1>4. g \in [1 .. c + 1 -> R \union {n}]
  BY <1>2, <1>3
<1>5. ASSUME NEW i \in 1 .. c + 1, NEW j \in 1 .. c + 1, i < j PROVE g[i] < g[j]
  <2>1. i \in 1 .. c
    BY <1>5, <1>2
  <2>2. f[i] \in 1 .. n - 1 /\ g[i] = f[i]
    <3>1. f[i] \in R
      BY <2>1, <1>3
    <3>2. i # c + 1
      BY <2>1, <1>2
    <3> QED BY <3>1, <3>2
  <2>3. CASE j = c + 1
    BY <2>2, <2>3
  <2>4. CASE j # c + 1
    <3>1. j \in 1 .. c /\ g[j] = f[j]
      BY <2>4, <1>2
    <3> QED BY <3>1, <2>1, <2>2, <1>3, <1>5
  <2> QED BY <2>3, <2>4
<1>6. DOMAIN g = 1 .. c + 1
  OBVIOUS
<1> HIDE DEF g
<1> QED BY <1>2, <1>4, <1>5, <1>6 DEF Ordered

\* Ascending(S) is defined for every set of positions of a list.
LEMMA AscendingType ==
  ASSUME NEW N \in Nat, NEW S \in SUBSET (1 .. N)
  PROVE  /\ Cardinality(S) \in Nat
         /\ Ascending(S) \in [1 .. Cardinality(S) -> S]
<1> DEFINE Part(n) == S \intersect (1 .. n)
           Bad == {n \in Nat : ~Ordered(Part(n))}
<1>1. Bad = {}
  <2> SUFFICES ASSUME Bad # {} PROVE FALSE
    OBVIOUS
  <2>1. PICK n \in Bad : \A k \in Bad : n <= k
    <3>1. Bad \in SUBSET Nat
      OBVIOUS
    <3> HIDE DEF Bad
    <3> QED BY <3>1, LeastNumber
  <2>2. n \in Nat /\ ~Ordered(Part(n))
    BY <2>1
  <2>3. CASE n = 0
    <3>1. Part(n) = {}
      BY <2>3
    <3>2. Ordered({})
      <4> DEFINE f == [i \in 1 .. 0 |-> i]
      <4>1. f \in [1 .. 0 -> {}] /\ \A i, j \in DOMAIN f : i < j => f[i] < f[j]
        OBVIOUS
      <4> HIDE DEF f
      <4> QED BY <4>1, FS_EmptySet DEF Ordered
    <3> QED BY <3>1, <3>2, <2>2
  <2>4. CASE n # 0
    <3>1. n \in Nat \ {0} /\ n - 1 \in Nat /\ ~(n <= n - 1)
      BY <2>4, <2>2
    <3>2. Ordered(Part(n - 1))
      BY <3>1, <2>1
    <3>3. Part(n - 1) \in SUBSET (1 .. n - 1)
      OBVIOUS
    <3>4. Part(n) = IF n \in S THEN Part(n - 1) \union {n} ELSE Part(n - 1)
      BY <3>1
    <3>5. Ordered(Part(n - 1) \union {n})
      <4> HIDE DEF Part
      <4> QED BY <3>1, <3>2, <3>3, OrderedNext
    <3> QED BY <3>2, <3>4, <3>5, <2>2
  <2> QED BY <2>3, <2>4
<1>2. Part(N) = S
  OBVIOUS
<1>3. Ordered(S)
  BY <1>1, <1>2
<1>4. Cardinality(S) \in Nat
  <2>1. N \in Int
    OBVIOUS
  <2> QED BY <2>1, FinitePositions, Zenon
<1> QED BY <1>3, <1>4 DEF Ordered, Ascending

-----------------------------------------------------------------------------
(* The inductive invariant.                                                *)

ProcRecords ==
  [pid : Pids \union {NoPid}, in_len : 0 .. PidLen, out_fds : Seq(Conns), write : BOOLEAN]

LifeRecords ==
  [st : {"none", "run", "dead"}, pid : Pids \union {NoPid, BadPid},
   link : {"none", "waiting", "accepted", "shut"}, wrote : 0 .. MaxPieces,
   unread : 0 .. MaxPieces, got : Seq(Conns)]

ConnRecords == [asked : Pids \union {NoPid}, st : {"queued", "passed", "closed"}]

ClientRecords == [kind : {"none", "list", "track"}, shown : Seq(Pids)]

Types ==
  /\ list \in Seq(Procs)
  /\ proc \in [Procs -> ProcRecords]
  /\ life \in [Procs -> LifeRecords]
  /\ conn \in Seq(ConnRecords) /\ Len(conn) <= MaxConns
  /\ client \in [Clients -> ClientRecords]

\* A process is listed exactly while its connection is served, once, and off the
\* list nothing is left of it; what adbd takes for its pid is its pid.
Lives ==
  /\ \A i, j \in 1 .. Len(list) : list[i] = list[j] => i = j
  /\ \A p \in Procs :
       /\ Listed(p) <=> life[p].link = "accepted"
       /\ life[p].st = "none" => life[p] = NoLife
       /\ life[p].link # "none" => life[p].pid \in Pids \union {BadPid}
       /\ life[p].link # "accepted" => proc[p] = NewProcess
       /\ proc[p].pid \in {NoPid, life[p].pid}
       /\ life[p].unread <= life[p].wrote

\* A queue holds descriptors that were asked for its process, in the order they
\* were asked for and later than all that it was passed; no two places hold the
\* same one, and those in no queue have been closed.
QueueOf(p) ==
  LET q == proc[p].out_fds
      got == life[p].got
  IN /\ Len(q) <= MAX_OUT_FDS
     /\ \A k \in 1 .. Len(q) : q[k] <= Len(conn)
     /\ \A k \in 1 .. Len(q) : conn[q[k]].st = "queued" /\ conn[q[k]].asked \in {life[p].pid, NoPid}
     /\ \A k, m \in 1 .. Len(q) : k < m => q[k] < q[m]
     /\ \A k \in 1 .. Len(got), m \in 1 .. Len(q) : got[k] < q[m]
     /\ \A k \in 1 .. Len(got) : got[k] <= Len(conn)
     /\ \A k \in 1 .. Len(got) : conn[got[k]].asked \in {life[p].pid, NoPid}
     /\ \A k, m \in 1 .. Len(got) : k < m => got[k] < got[m]

Holds(q, i) == \E k \in 1 .. Len(q) : q[k] = i

Owners ==
  /\ \A p \in Procs : QueueOf(p)
  /\ \A i \in 1 .. Len(conn) : \A p, q \in Procs :
       Holds(proc[p].out_fds, i) /\ Holds(proc[q].out_fds, i) => p = q
  /\ \A i \in 1 .. Len(conn) :
       conn[i].st = "queued" => \E p \in Procs : Holds(proc[p].out_fds, i)

JdwpInv == Types /\ Lives /\ Owners /\ TrackersAreCurrent

LEMMA NewRecords ==
  NewProcess \in ProcRecords /\ NoLife \in LifeRecords /\ NoClient \in ClientRecords
BY JdwpAssumption
  DEF NewProcess, NoLife, NoClient, ProcRecords, LifeRecords, ClientRecords, PidLen

\* What is sent to a list or a tracker are pids.
LEMMA ListType ==
  ASSUME NEW l \in Seq(Procs), NEW pr \in [Procs -> ProcRecords]
  PROVE  jdwp_process_list(l, pr) \in Seq(Pids)
<1> DEFINE S == {i \in 1 .. Len(l) : pr[l[i]].pid >= 0}
<1>1. Len(l) \in Nat /\ S \in SUBSET (1 .. Len(l))
  OBVIOUS
<1>2. \A i \in S : pr[l[i]].pid \in Pids
  BY DEF ProcRecords, NoPid
<1>3. Cardinality(S) \in Nat /\ Ascending(S) \in [1 .. Cardinality(S) -> S]
  <2> HIDE DEF S
  <2> QED BY <1>1, AscendingType
<1>4. jdwp_process_list(l, pr) = [k \in DOMAIN Ascending(S) |-> pr[l[Ascending(S)[k]]].pid]
  BY DEF jdwp_process_list
<1> DEFINE c == Cardinality(S)
           f == Ascending(S)
<1>5. \A k \in 1 .. c : pr[l[f[k]]].pid \in Pids
  <2> HIDE DEF S
  <2> QED BY <1>2, <1>3
<1>6. jdwp_process_list(l, pr) \in [1 .. c -> Pids]
  <2> HIDE DEF S
  <2> QED BY <1>3, <1>4, <1>5
<1>7. c \in Nat
  BY <1>3
<1> HIDE DEF c
<1> QED BY <1>6, <1>7

\* The places of the processes whose pids are known.
Known(l, pr) == {i \in 1 .. Len(l) : pr[l[i]].pid >= 0}

\* The list depends on the known pids and their places, and on nothing else.
LEMMA ListSame ==
  ASSUME NEW l \in Seq(Procs), NEW m \in Seq(Procs), NEW pr, NEW qr,
         Known(l, pr) = Known(m, qr), \A i \in Known(l, pr) : pr[l[i]].pid = qr[m[i]].pid
  PROVE  jdwp_process_list(l, pr) = jdwp_process_list(m, qr)
<1> DEFINE S == Known(l, pr)
<1>1. Len(l) \in Nat /\ S \in SUBSET (1 .. Len(l))
  BY DEF Known
<1>2. \A i \in S : pr[l[i]].pid = qr[m[i]].pid
  OBVIOUS
<1>3. S = Known(m, qr)
  OBVIOUS
<1>4. /\ jdwp_process_list(l, pr) = [k \in DOMAIN Ascending(S) |-> pr[l[Ascending(S)[k]]].pid]
      /\ jdwp_process_list(m, qr) = [k \in DOMAIN Ascending(S) |-> qr[m[Ascending(S)[k]]].pid]
  BY <1>3, Zenon DEF jdwp_process_list, Known
<1> HIDE DEF S
<1>5. \A k \in DOMAIN Ascending(S) : Ascending(S)[k] \in S
  BY <1>1, AscendingType
<1> QED BY <1>2, <1>4, <1>5

\* Unlinking takes one process off the list and leaves the others on it.
LEMMA WithoutOne ==
  ASSUME NEW l \in Seq(Procs), NEW p \in Procs,
         \A i, j \in 1 .. Len(l) : l[i] = l[j] => i = j,
         \E i \in 1 .. Len(l) : l[i] = p
  PROVE  /\ Without(l, p) \in Seq(Procs)
         /\ \A i, j \in 1 .. Len(Without(l, p)) : Without(l, p)[i] = Without(l, p)[j] => i = j
         /\ \A i \in 1 .. Len(Without(l, p)) :
              Without(l, p)[i] # p /\ \E j \in 1 .. Len(l) : l[j] = Without(l, p)[i]
         /\ \A j \in 1 .. Len(l) :
              l[j] # p => \E i \in 1 .. Len(Without(l, p)) : Without(l, p)[i] = l[j]
<1> DEFINE at == CHOOSE i \in 1 .. Len(l) : l[i] = p
           w == [i \in 1 .. Len(l) - 1 |-> IF i < at THEN l[i] ELSE l[i + 1]]
<1>1. at \in 1 .. Len(l) /\ l[at] = p
  OBVIOUS
<1>2. Without(l, p) = w
  BY DEF Without
<1> HIDE DEF at
<1>3. Len(l) \in Nat /\ Len(l) - 1 \in Nat
  BY <1>1
<1>4. \A i \in 1 .. Len(l) - 1 : w[i] \in Procs
  BY <1>1, <1>3
<1>5. w \in Seq(Procs) /\ Len(w) = Len(l) - 1
  BY <1>3, <1>4
<1>6. \A i \in 1 .. Len(l) - 1 : w[i] = IF i < at THEN l[i] ELSE l[i + 1]
  OBVIOUS
<1> HIDE DEF w
<1>7. \A i \in 1 .. Len(l) - 1 :
        \E j \in 1 .. Len(l) : j # at /\ w[i] = l[j] /\ j = IF i < at THEN i ELSE i + 1
  BY <1>1, <1>3, <1>6
<1>8. \A i, j \in 1 .. Len(l) - 1 : w[i] = w[j] => i = j
  BY <1>1, <1>3, <1>7
<1>9. \A i \in 1 .. Len(l) - 1 : w[i] # p /\ \E j \in 1 .. Len(l) : l[j] = w[i]
  BY <1>1, <1>7
<1>10. ASSUME NEW j \in 1 .. Len(l), l[j] # p
       PROVE  \E i \in 1 .. Len(l) - 1 : w[i] = l[j]
  <2>1. CASE j < at
    <3>1. j \in 1 .. Len(l) - 1 /\ w[j] = l[j]
      BY <2>1, <1>1, <1>3, <1>6
    <3> QED BY <3>1
  <2>2. CASE ~(j < at)
    <3>1. j - 1 \in 1 .. Len(l) - 1 /\ ~(j - 1 < at) /\ (j - 1) + 1 = j
      BY <2>2, <1>1, <1>3, <1>10
    <3>2. w[j - 1] = l[(j - 1) + 1]
      BY <3>1, <1>6
    <3> QED BY <3>1, <3>2
  <2> QED BY <2>1, <2>2
<1> QED BY <1>2, <1>5, <1>8, <1>9, <1>10

-----------------------------------------------------------------------------
(* The steps.                                                              *)

LEMMA InitJdwp == Init => JdwpInv
<1> SUFFICES ASSUME Init PROVE JdwpInv
  OBVIOUS
<1>1. Types
  BY NewRecords, JdwpAssumption DEF Init, Types
<1>2. Lives
  BY DEF Init, Lives, Listed, NoLife, NewProcess, NoPid
<1>3. Owners
  BY JdwpAssumption DEF Init, Owners, QueueOf, Holds, NewProcess, NoLife
<1>4. TrackersAreCurrent
  BY DEF Init, TrackersAreCurrent, NoClient
<1> QED BY <1>1, <1>2, <1>3, <1>4 DEF JdwpInv

\* What the two operations on a queue leave in it.
LEMMA HoldsAppend ==
  ASSUME NEW q \in Seq(Conns), NEW fd, NEW i
  PROVE  Holds(Append(q, fd), i) <=> Holds(q, i) \/ i = fd
<1>1. /\ Len(q) \in Nat /\ Len(Append(q, fd)) = Len(q) + 1
      /\ Append(q, fd)[Len(q) + 1] = fd /\ \A k \in 1 .. Len(q) : Append(q, fd)[k] = q[k]
  OBVIOUS
<1> DEFINE a == Append(q, fd)
<1> HIDE DEF a
<1>2. \A k \in 1 .. Len(a) : k \in 1 .. Len(q) \/ k = Len(q) + 1
  BY <1>1 DEF a
<1>3. \A k \in 1 .. Len(q) : k \in 1 .. Len(a) /\ a[k] = q[k]
  BY <1>1 DEF a
<1>4. Len(q) + 1 \in 1 .. Len(a) /\ a[Len(q) + 1] = fd
  BY <1>1 DEF a
<1>5. Holds(a, i) <=> Holds(q, i) \/ i = fd
  BY <1>2, <1>3, <1>4 DEF Holds
<1> QED BY <1>5 DEF a

LEMMA HoldsTail ==
  ASSUME NEW q \in Seq(Conns), q # <<>>, \A k, m \in 1 .. Len(q) : q[k] = q[m] => k = m, NEW i
  PROVE  /\ Holds(q, Head(q))
         /\ Holds(Tail(q), i) <=> Holds(q, i) /\ i # Head(q)
<1> DEFINE a == Tail(q)
<1>1. /\ Len(q) \in Nat \ {0} /\ Len(a) = Len(q) - 1 /\ Head(q) = q[1]
      /\ \A k \in 1 .. Len(a) : a[k] = q[k + 1]
  OBVIOUS
<1> HIDE DEF a
<1>2. \A k \in 1 .. Len(a) : k + 1 \in 1 .. Len(q) /\ k + 1 # 1 /\ a[k] = q[k + 1]
  BY <1>1
<1>3. \A k \in 1 .. Len(q) : k # 1 => k - 1 \in 1 .. Len(a) /\ a[k - 1] = q[k]
  BY <1>1
<1>4. 1 \in 1 .. Len(q)
  BY <1>1
<1>5. ASSUME Holds(a, i) PROVE Holds(q, i) /\ i # Head(q)
  <2>1. PICK k \in 1 .. Len(a) : a[k] = i
    BY <1>5 DEF Holds
  <2> QED BY <1>1, <1>2, <1>4, <2>1 DEF Holds
<1>6. ASSUME Holds(q, i), i # Head(q) PROVE Holds(a, i)
  <2>1. PICK k \in 1 .. Len(q) : q[k] = i
    BY <1>6 DEF Holds
  <2>2. k # 1
    BY <1>1, <1>6, <2>1
  <2> QED BY <1>3, <2>1, <2>2 DEF Holds
<1>7. Holds(q, Head(q))
  BY <1>1, <1>4 DEF Holds
<1> QED BY <1>5, <1>6, <1>7 DEF a

\* Queues and what was passed name connections.
LEMMA NamesConnections ==
  ASSUME Types, NEW p \in Procs, QueueOf(p)
  PROVE  /\ \A k \in 1 .. Len(proc[p].out_fds) :
              proc[p].out_fds[k] \in 1 .. Len(conn) /\ Holds(proc[p].out_fds, proc[p].out_fds[k])
         /\ \A k \in 1 .. Len(life[p].got) : life[p].got[k] \in 1 .. Len(conn)
<1> DEFINE q == proc[p].out_fds
           got == life[p].got
<1>1. q \in Seq(Conns) /\ got \in Seq(Conns) /\ Len(conn) \in Nat
  BY DEF Types, ProcRecords, LifeRecords
<1>2. /\ \A k \in 1 .. Len(q) : q[k] <= Len(conn)
      /\ \A k \in 1 .. Len(got) : got[k] <= Len(conn)
  BY DEF QueueOf
<1>3. \A k \in 1 .. Len(q) : Holds(proc[p].out_fds, q[k])
  BY DEF Holds
<1> HIDE DEF q, got
<1>4. \A k \in 1 .. Len(q) : q[k] \in 1 .. Len(conn)
  <2> TAKE k \in 1 .. Len(q)
  <2>1. q[k] \in Conns
    BY <1>1
  <2>2. q[k] \in Int /\ 1 <= q[k] /\ q[k] <= Len(conn)
    BY <2>1, <1>2, JdwpAssumption DEF Conns
  <2> QED BY <2>2, <1>1
<1>5. \A k \in 1 .. Len(got) : got[k] \in 1 .. Len(conn)
  <2> TAKE k \in 1 .. Len(got)
  <2>1. got[k] \in Conns
    BY <1>1
  <2>2. got[k] \in Int /\ 1 <= got[k] /\ got[k] <= Len(conn)
    BY <2>1, <1>2, JdwpAssumption DEF Conns
  <2> QED BY <2>2, <1>1
<1> QED BY <1>3, <1>4, <1>5 DEF q, got

\* A connection made or ended elsewhere leaves the queue of p as it was.
LEMMA QueueKept ==
  ASSUME Types, Types', NEW p \in Procs, QueueOf(p),
         proc'[p].out_fds = proc[p].out_fds, life'[p].got = life[p].got,
         life'[p].pid = life[p].pid, Len(conn') >= Len(conn),
         \A i \in 1 .. Len(conn) : conn'[i].asked = conn[i].asked,
         \A i \in 1 .. Len(conn) : Holds(proc[p].out_fds, i) => conn'[i].st = conn[i].st
  PROVE  QueueOf(p)'
<1> DEFINE q == proc[p].out_fds
           got == life[p].got
<1>1. Len(conn) \in Nat /\ Len(conn') \in Nat
  BY DEF Types
<1>2. \A k \in 1 .. Len(q) : q[k] \in 1 .. Len(conn) /\ Holds(proc[p].out_fds, q[k])
  BY NamesConnections
<1>3. \A k \in 1 .. Len(got) : got[k] \in 1 .. Len(conn)
  BY NamesConnections
<1>4. \A k \in 1 .. Len(q) : q[k] <= Len(conn')
  BY <1>1, <1>2
<1>5. \A k \in 1 .. Len(q) :
        conn'[q[k]].st = "queued" /\ conn'[q[k]].asked \in {life[p].pid, NoPid}
  BY <1>2 DEF QueueOf
<1>6. \A k \in 1 .. Len(got) : got[k] <= Len(conn')
  BY <1>1, <1>3
<1>7. \A k \in 1 .. Len(got) : conn'[got[k]].asked \in {life[p].pid, NoPid}
  BY <1>3 DEF QueueOf
<1> QED BY <1>4, <1>5, <1>6, <1>7 DEF QueueOf

\* The queues and the connections stay.
LEMMA OwnersKept ==
  ASSUME Types, Types', Owners, UNCHANGED conn,
         \A p \in Procs : proc'[p].out_fds = proc[p].out_fds,
         \A p \in Procs : life'[p].got = life[p].got /\ life'[p].pid = life[p].pid
  PROVE  Owners'
<1>1. \A p \in Procs : QueueOf(p)'
  <2> TAKE p \in Procs
  <2>1. Len(conn') >= Len(conn)
    BY DEF Types
  <2>2. QueueOf(p)
    BY DEF Owners
  <2> QED BY <2>1, <2>2, QueueKept
<1>2. \A i, p : p \in Procs => (Holds(proc'[p].out_fds, i) <=> Holds(proc[p].out_fds, i))
  BY DEF Holds
<1> QED BY <1>1, <1>2 DEF Owners

\* Steps of the processes.
LEMMA ProcessJdwp ==
  ASSUME JdwpInv, NEW p \in Procs, Process(p)
  PROVE  JdwpInv'
<1> USE JdwpAssumption
<1>1. Types /\ Lives /\ Owners /\ TrackersAreCurrent /\ UNCHANGED <<list, proc, conn, client>>
  BY DEF JdwpInv, Process, Launch, Write, Die
<1>2. TrackersAreCurrent'
  BY <1>1 DEF TrackersAreCurrent
<1>3. CASE Launch(p)
  <2>1. PICK pid \in Pids \union {BadPid} :
          /\ life[p].st = "none"
          /\ life' = [life EXCEPT ![p] =
                        [NoLife EXCEPT !.st = "run", !.pid = pid, !.link = "waiting"]]
    BY <1>3 DEF Launch
  <2> DEFINE new == [NoLife EXCEPT !.st = "run", !.pid = pid, !.link = "waiting"]
  <2>2. /\ life[p] = NoLife /\ proc[p] = NewProcess
        /\ life[p].link # "accepted" /\ ~Listed(p)
    BY <1>1, <2>1 DEF Lives, NoLife
  <2>3. /\ new.st = "run" /\ new.pid = pid /\ new.link = "waiting" /\ new.wrote = 0
        /\ new.unread = 0 /\ new.got = <<>> /\ new \in LifeRecords
    <3>1. NoLife \in LifeRecords
      BY NewRecords
    <3>2. NoLife.wrote = 0 /\ NoLife.unread = 0 /\ NoLife.got = <<>>
      BY DEF NoLife
    <3> QED BY <3>1, <3>2 DEF LifeRecords
  <2> HIDE DEF new
  <2>4. life' = [life EXCEPT ![p] = new]
    BY <2>1 DEF new
  <2>5. Types'
    BY <1>1, <2>3, <2>4 DEF Types
  <2>6. Lives'
    BY <1>1, <2>2, <2>3, <2>4, <2>5 DEF Lives, Listed, Types, NewProcess
  <2>7. Owners'
    <3>1. ASSUME NEW q \in Procs PROVE QueueOf(q)'
      <4>1. CASE q = p
        <5>1. proc'[p].out_fds = <<>> /\ life'[p].got = <<>>
          BY <1>1, <2>2, <2>3, <2>4 DEF NewProcess, Types
        <5> QED BY <4>1, <5>1 DEF QueueOf
      <4>2. CASE q # p
        <5>1. life'[q] = life[q] /\ QueueOf(q) /\ Len(conn') >= Len(conn)
          BY <1>1, <2>4, <4>2 DEF Types, Owners
        <5> QED BY <1>1, <2>5, <5>1, QueueKept
      <4> QED BY <4>1, <4>2
    <3>2. \A i, q : Holds(proc'[q].out_fds, i) <=> Holds(proc[q].out_fds, i)
      BY <1>1 DEF Holds
    <3> QED BY <1>1, <3>1, <3>2 DEF Owners
  <2> QED BY <1>2, <2>5, <2>6, <2>7 DEF JdwpInv
<1>4. CASE Write(p)
  <2>1. /\ life[p].st = "run" /\ life[p].link # "shut" /\ life[p].wrote < MaxPieces
        /\ life' = [life EXCEPT ![p].wrote = @ + 1, ![p].unread = @ + 1]
    BY <1>4 DEF Write
  <2> DEFINE new == [life[p] EXCEPT !.wrote = @ + 1, !.unread = @ + 1]
  <2>2. /\ new.st = "run" /\ new.pid = life[p].pid /\ new.link = life[p].link
        /\ new.got = life[p].got /\ new.unread <= new.wrote /\ new \in LifeRecords
    <3>1. life[p] \in LifeRecords /\ life[p].unread <= life[p].wrote
      BY <1>1 DEF Lives, Types
    <3>2. /\ life[p].wrote \in 0 .. MaxPieces /\ life[p].wrote + 1 \in 0 .. MaxPieces
          /\ life[p].unread + 1 \in 0 .. MaxPieces
      BY <2>1, <3>1 DEF LifeRecords
    <3>3. /\ new.st = life[p].st /\ new.pid = life[p].pid /\ new.link = life[p].link
          /\ new.got = life[p].got /\ new.unread = life[p].unread + 1
          /\ new.wrote = life[p].wrote + 1
      BY <3>1 DEF LifeRecords
    <3>4. new \in LifeRecords
      BY <3>1, <3>2 DEF LifeRecords
    <3>5. new.unread <= new.wrote
      BY <3>1, <3>3 DEF LifeRecords
    <3> QED BY <2>1, <3>3, <3>4, <3>5
  <2>7. life[p].st = "run"
    BY <2>1
  <2>8. life' = [life EXCEPT ![p] = new]
    BY <2>1
  <2> HIDE DEF new
  <2>3. Types'
    BY <1>1, <2>8, <2>2 DEF Types
  <2>4. Lives'
    BY <1>1, <2>7, <2>8, <2>2, <2>3 DEF Lives, Listed, Types
  <2>5. \A q \in Procs : life'[q].got = life[q].got /\ life'[q].pid = life[q].pid
    BY <1>1, <2>8, <2>2 DEF Types
  <2>6. Owners'
    BY <1>1, <2>3, <2>5, OwnersKept
  <2> QED BY <1>2, <2>3, <2>4, <2>6 DEF JdwpInv
<1>5. CASE Die(p)
  <2>1. life[p].st = "run" /\ life' = [life EXCEPT ![p].st = "dead"]
    BY <1>5 DEF Die
  <2> DEFINE new == [life[p] EXCEPT !.st = "dead"]
  <2>8. /\ new.st = "dead" /\ new.pid = life[p].pid /\ new.link = life[p].link
        /\ new.got = life[p].got /\ new.unread = life[p].unread /\ new.wrote = life[p].wrote
        /\ new \in LifeRecords
    <3>1. life[p] \in LifeRecords
      BY <1>1 DEF Types
    <3> QED BY <3>1 DEF LifeRecords
  <2>9. life' = [life EXCEPT ![p] = new]
    BY <2>1
  <2> HIDE DEF new
  <2>2. Types'
    BY <1>1, <2>8, <2>9 DEF Types
  <2>3. Lives'
    BY <1>1, <2>1, <2>8, <2>9, <2>2 DEF Lives, Listed, Types
  <2>4. \A q \in Procs : life'[q].got = life[q].got /\ life'[q].pid = life[q].pid
    BY <1>1, <2>8, <2>9 DEF Types
  <2>5. Owners'
    BY <1>1, <2>2, <2>4, OwnersKept
  <2> QED BY <1>2, <2>2, <2>3, <2>5 DEF JdwpInv
<1> QED BY <1>3, <1>4, <1>5 DEF Process

\* Steps of the list and tracker services.
LEMMA ClientJdwp ==
  ASSUME JdwpInv, NEW c \in Clients,
         OpenClient(c, "list") \/ OpenClient(c, "track") \/ ClientReady(c) \/ CloseClient(c)
  PROVE  JdwpInv'
<1>1. Types /\ Lives /\ Owners /\ TrackersAreCurrent /\ UNCHANGED <<list, proc, life, conn>>
  BY DEF JdwpInv, OpenClient, ClientReady, CloseClient
<1>2. PICK new \in ClientRecords :
        /\ client' = [client EXCEPT ![c] = new]
        /\ new.kind = "track" => new.shown = jdwp_process_list(list, proc)
  <2>1. CASE OpenClient(c, "list")
    <3> DEFINE new == [kind |-> "list", shown |-> <<>>]
    <3>1. new \in ClientRecords /\ new.kind = "list" /\ client' = [client EXCEPT ![c] = new]
      BY <2>1 DEF OpenClient, ClientRecords
    <3> QED BY <3>1
  <2>2. CASE OpenClient(c, "track")
    <3> DEFINE new == [kind |-> "track", shown |-> jdwp_process_list(list, proc)]
    <3>1. jdwp_process_list(list, proc) \in Seq(Pids)
      BY <1>1, ListType DEF Types
    <3>2. /\ new \in ClientRecords /\ client' = [client EXCEPT ![c] = new]
          /\ new.shown = jdwp_process_list(list, proc)
      BY <2>2, <3>1 DEF OpenClient, ClientRecords
    <3> QED BY <3>2
  <2>3. CASE ClientReady(c)
    <3>1. client[c] \in ClientRecords
      BY <1>1 DEF Types
    <3>2. CASE client[c].kind = "list"
      BY <2>3, <3>2, NewRecords DEF ClientReady, NoClient
    <3>3. CASE client[c].kind # "list"
      BY <2>3, <3>1, <3>3, <1>1 DEF ClientReady, TrackersAreCurrent
    <3> QED BY <3>2, <3>3
  <2>4. CASE CloseClient(c)
    BY <2>4, NewRecords DEF CloseClient, NoClient
  <2> QED BY <2>1, <2>2, <2>3, <2>4
<1>3. Types'
  BY <1>1, <1>2 DEF Types
<1>4. Lives'
  BY <1>1 DEF Lives, Listed
<1>5. Owners'
  BY <1>1, <1>3, OwnersKept
<1>6. TrackersAreCurrent'
  BY <1>1, <1>2 DEF TrackersAreCurrent, Types
<1> QED BY <1>3, <1>4, <1>5, <1>6 DEF JdwpInv

\* A new connection of a process: it is listed, and its pid is not known yet.
LEMMA ControlJdwp ==
  ASSUME JdwpInv, NEW p \in Procs, jdwp_control_event(p)
  PROVE  JdwpInv'
<1>1. Types /\ Lives /\ Owners /\ TrackersAreCurrent /\ UNCHANGED <<proc, conn, client>>
  BY DEF JdwpInv, jdwp_control_event
<1>2. /\ life[p].link = "waiting" /\ list' = Append(list, p)
      /\ life' = [life EXCEPT ![p].link = "accepted"]
  BY DEF jdwp_control_event
<1>3. /\ ~Listed(p) /\ proc[p] = NewProcess /\ proc[p].pid = NoPid /\ life[p].st # "none"
      /\ life[p].pid \in Pids \union {BadPid}
  <2>1. life[p].st = "none" => life[p].link = "none"
    BY <1>1 DEF Lives, NoLife
  <2>2. NewProcess.pid = NoPid
    BY DEF NewProcess
  <2> QED BY <1>1, <1>2, <2>1, <2>2 DEF Lives
<1> DEFINE new == [life[p] EXCEPT !.link = "accepted"]
<1>4. /\ new.st = life[p].st /\ new.pid = life[p].pid /\ new.link = "accepted"
      /\ new.got = life[p].got /\ new.unread = life[p].unread /\ new.wrote = life[p].wrote
      /\ new \in LifeRecords
  <2>1. life[p] \in LifeRecords
    BY <1>1 DEF Types
  <2> QED BY <2>1 DEF LifeRecords
<1>5. life' = [life EXCEPT ![p] = new]
  BY <1>2
<1> HIDE DEF new
<1>6. Types'
  BY <1>1, <1>2, <1>4, <1>5 DEF Types
<1>7. /\ Len(list) \in Nat /\ Len(list') = Len(list) + 1 /\ list'[Len(list) + 1] = p
      /\ \A i \in 1 .. Len(list) : list'[i] = list[i]
  BY <1>1, <1>2 DEF Types
<1>8. Lives'
  <2>1. \A i, j \in 1 .. Len(list') : list'[i] = list'[j] => i = j
    BY <1>1, <1>3, <1>7 DEF Lives, Listed
  <2>2. \A q \in Procs : Listed(q)' <=> Listed(q) \/ q = p
    BY <1>7 DEF Listed
  <2> QED BY <1>1, <1>3, <1>4, <1>5, <2>1, <2>2 DEF Lives, Types
<1>9. Owners'
  <2>1. \A q \in Procs : life'[q].got = life[q].got /\ life'[q].pid = life[q].pid
    BY <1>1, <1>4, <1>5 DEF Types
  <2> QED BY <1>1, <1>6, <2>1, OwnersKept
<1>10. TrackersAreCurrent'
  <2>1. Known(list, proc) = Known(list', proc)
    BY <1>3, <1>7 DEF NoPid, Known
  <2>2. \A i \in Known(list, proc) : proc[list[i]].pid = proc[list'[i]].pid
    BY <1>7 DEF Known
  <2>3. jdwp_process_list(list, proc) = jdwp_process_list(list', proc)
    <3>1. list \in Seq(Procs) /\ list' \in Seq(Procs)
      BY <1>1, <1>6 DEF Types
    <3> QED BY <3>1, <2>1, <2>2, ListSame
  <2> QED BY <1>1, <2>3 DEF TrackersAreCurrent
<1> QED BY <1>6, <1>8, <1>9, <1>10 DEF JdwpInv

\* The list of pids is the same as long as the pids are.
LEMMA SamePids ==
  ASSUME NEW l \in Seq(Procs), NEW pr, NEW qr,
         \A i \in 1 .. Len(l) : pr[l[i]].pid = qr[l[i]].pid
  PROVE  jdwp_process_list(l, pr) = jdwp_process_list(l, qr)
<1>1. Known(l, pr) = Known(l, qr)
  BY DEF Known
<1>2. \A i \in Known(l, pr) : pr[l[i]].pid = qr[l[i]].pid
  BY DEF Known
<1> QED BY <1>1, <1>2, ListSame

\* A debugger asks for a process: its descriptor is the newest, and goes to the end
\* of one queue.
LEMMA CreateJdwp ==
  ASSUME JdwpInv, NEW pid \in Pids \union {NoPid}, create_jdwp_connection_fd(pid)
  PROVE  JdwpInv'
<1> USE JdwpAssumption
<1>1. Types /\ Lives /\ Owners /\ TrackersAreCurrent /\ UNCHANGED <<list, life, client>>
  BY DEF JdwpInv, create_jdwp_connection_fd
<1> DEFINE fd == Len(conn) + 1
<1>2. PICK p \in Procs :
        /\ Matches(p, pid) /\ Len(proc[p].out_fds) < MAX_OUT_FDS /\ Queue(p, fd)
  BY DEF create_jdwp_connection_fd
<1>3. /\ Len(conn) < MaxConns /\ conn' = Append(conn, [asked |-> pid, st |-> "queued"])
  BY DEF create_jdwp_connection_fd
<1>4. /\ Listed(p) /\ life[p].link = "accepted" /\ proc[p].pid = pid
      /\ pid \in {life[p].pid, NoPid}
  <2>1. Listed(p) /\ proc[p].pid = pid
    BY <1>2 DEF Matches, Listed
  <2> QED BY <1>1, <2>1 DEF Lives
<1>5. Len(conn) \in Nat /\ fd \in Conns
  BY <1>1, <1>3 DEF Types, Conns
<1>6. /\ conn' \in Seq(ConnRecords) /\ Len(conn') = fd
      /\ \A i \in 1 .. Len(conn) : conn'[i] = conn[i]
      /\ conn'[fd].asked = pid /\ conn'[fd].st = "queued"
  BY <1>1, <1>3, <1>5 DEF Types, ConnRecords
<1>7. fd \in Nat /\ fd > Len(conn)
  BY <1>5
<1> HIDE DEF fd
<1> DEFINE q == proc[p].out_fds
           new == [proc[p] EXCEPT !.out_fds = Append(q, fd), !.write = @ \/ q = <<>>]
<1>8. proc[p] \in ProcRecords /\ q \in Seq(Conns) /\ proc[p].write \in BOOLEAN
  BY <1>1 DEF Types, ProcRecords
<1>9. proc' = [proc EXCEPT ![p] = new]
  BY <1>2 DEF Queue
<1>10. /\ new \in ProcRecords /\ new.pid = proc[p].pid /\ new.out_fds = Append(q, fd)
  <2>1. Append(q, fd) \in Seq(Conns) /\ (proc[p].write \/ q = <<>>) \in BOOLEAN
    BY <1>5, <1>8
  <2> QED BY <1>8, <2>1 DEF ProcRecords
<1> HIDE DEF new
<1>11. Types'
  BY <1>1, <1>3, <1>5, <1>6, <1>9, <1>10 DEF Types, fd
<1>12. \A r \in Procs : proc'[r].pid = proc[r].pid
  BY <1>1, <1>9, <1>10 DEF Types
<1>13. Lives'
  <2>1. \A r \in Procs : life[r].link # "accepted" => proc'[r] = proc[r]
    BY <1>1, <1>4, <1>9 DEF Types
  <2> QED BY <1>1, <1>12, <2>1 DEF Lives, Listed
<1>14. TrackersAreCurrent'
  <2>1. jdwp_process_list(list, proc') = jdwp_process_list(list, proc)
    <3>1. list \in Seq(Procs) /\ \A i \in 1 .. Len(list) : proc'[list[i]].pid = proc[list[i]].pid
      BY <1>1, <1>12 DEF Types
    <3> QED BY <3>1, SamePids
  <2> QED BY <1>1, <2>1 DEF TrackersAreCurrent
<1>15. \A r \in Procs : r # p => proc'[r].out_fds = proc[r].out_fds
  BY <1>1, <1>9 DEF Types
<1>16. /\ Len(q) \in Nat /\ proc'[p].out_fds = Append(q, fd) /\ Len(Append(q, fd)) = Len(q) + 1
       /\ Append(q, fd)[Len(q) + 1] = fd /\ \A k \in 1 .. Len(q) : Append(q, fd)[k] = q[k]
  BY <1>1, <1>8, <1>9, <1>10 DEF Types
<1>17. \A r \in Procs : QueueOf(r)
  BY <1>1 DEF Owners
<1>18. \A k \in 1 .. Len(q) : q[k] \in 1 .. Len(conn)
  BY <1>1, <1>17, NamesConnections
<1>19. QueueOf(p)'
  <2> DEFINE got == life[p].got
             qq == Append(q, fd)
  <2>1. \A k \in 1 .. Len(got) : got[k] \in 1 .. Len(conn)
    BY <1>1, <1>17, NamesConnections
  <2> HIDE DEF q, qq
  <2>2. Len(qq) <= MAX_OUT_FDS
    BY <1>2, <1>16 DEF qq, q
  <2>3. \A k \in 1 .. Len(qq) : (k \in 1 .. Len(q) /\ qq[k] = q[k])
                                    \/ (k = Len(q) + 1 /\ qq[k] = fd)
    BY <1>16 DEF qq
  <2>4. \A k \in 1 .. Len(qq) : qq[k] <= Len(conn')
    BY <1>5, <1>6, <1>7, <1>18, <2>3
  <2>5. \A k \in 1 .. Len(q) : conn[q[k]].st = "queued" /\ conn[q[k]].asked \in {life[p].pid, NoPid}
    BY <1>17 DEF QueueOf, q
  <2>6. \A k \in 1 .. Len(qq) :
          conn'[qq[k]].st = "queued" /\ conn'[qq[k]].asked \in {life[p].pid, NoPid}
    BY <1>4, <1>6, <1>18, <2>3, <2>5
  <2>7. \A k, m \in 1 .. Len(q) : k < m => q[k] < q[m]
    BY <1>17 DEF QueueOf, q
  <2>8. \A k, m \in 1 .. Len(qq) : k < m => qq[k] < qq[m]
    BY <1>5, <1>7, <1>16, <1>18, <2>3, <2>7
  <2>9. \A k \in 1 .. Len(got), m \in 1 .. Len(q) : got[k] < q[m]
    BY <1>17 DEF QueueOf, q
  <2>10. \A k \in 1 .. Len(got), m \in 1 .. Len(qq) : got[k] < qq[m]
    BY <1>5, <1>7, <2>1, <2>3, <2>9
  <2>11. \A k \in 1 .. Len(got) : got[k] <= Len(conn')
    BY <1>5, <1>6, <1>7, <2>1
  <2>12. \A k \in 1 .. Len(got) : conn'[got[k]].asked \in {life[p].pid, NoPid}
    BY <1>6, <1>17, <2>1 DEF QueueOf
  <2>13. \A k, m \in 1 .. Len(got) : k < m => got[k] < got[m]
    BY <1>17 DEF QueueOf
  <2>14. proc'[p].out_fds = qq /\ life'[p] = life[p]
    BY <1>1, <1>16 DEF qq
  <2> QED BY <2>2, <2>4, <2>6, <2>8, <2>10, <2>11, <2>12, <2>13, <2>14 DEF QueueOf
<1>20. ASSUME NEW r \in Procs PROVE QueueOf(r)'
  <2>1. CASE r = p
    BY <1>19, <2>1
  <2>2. CASE r # p
    <3>1. Len(conn') >= Len(conn) /\ proc'[r].out_fds = proc[r].out_fds
      BY <1>5, <1>6, <1>7, <1>15, <2>2
    <3> QED BY <1>1, <1>6, <1>11, <1>17, <3>1, QueueKept
  <2> QED BY <2>1, <2>2
<1>21. \A i \in 1 .. Len(conn), r \in Procs :
         Holds(proc'[r].out_fds, i) <=> Holds(proc[r].out_fds, i)
  <2> TAKE i \in 1 .. Len(conn), r \in Procs
  <2>1. CASE r # p
    BY <1>15, <2>1 DEF Holds
  <2>2. CASE r = p
    <3>1. i # fd
      BY <1>5, <1>7
    <3> HIDE DEF q
    <3>2. proc'[p].out_fds = Append(q, fd) /\ proc[p].out_fds = q
      BY <1>16 DEF q
    <3>3. q \in Seq(Conns)
      BY <1>8
    <3> QED BY <2>2, <3>1, <3>2, <3>3, HoldsAppend
  <2> QED BY <2>1, <2>2
<1>22. Holds(proc'[p].out_fds, fd) /\ \A r \in Procs : Holds(proc'[r].out_fds, fd) => r = p
  <2>1. Holds(proc'[p].out_fds, fd)
    BY <1>16 DEF Holds
  <2>2. ASSUME NEW r \in Procs, r # p, Holds(proc'[r].out_fds, fd) PROVE FALSE
    <3>1. Holds(proc[r].out_fds, fd)
      BY <1>15, <2>2 DEF Holds
    <3>2. \A k \in 1 .. Len(proc[r].out_fds) : proc[r].out_fds[k] \in 1 .. Len(conn)
      BY <1>1, <1>17, NamesConnections
    <3> QED BY <1>5, <1>7, <3>1, <3>2 DEF Holds
  <2> QED BY <2>1, <2>2
<1>23. Owners'
  <2>1. \A i \in 1 .. Len(conn') : i \in 1 .. Len(conn) \/ i = fd
    BY <1>5, <1>6 DEF fd
  <2> HIDE DEF q
  <2> QED BY <1>1, <1>6, <1>20, <1>21, <1>22, <2>1 DEF Owners
<1> QED BY <1>11, <1>13, <1>14, <1>23 DEF JdwpInv

-----------------------------------------------------------------------------
(* The events of a process: what was read, and what comes of it.           *)

\* q and u are what the read part makes of the record of p and of what is unread.
ReadBy(p, q, u) ==
  /\ q \in ProcRecords /\ u \in 0 .. life[p].unread
  /\ q.out_fds = proc[p].out_fds /\ q.pid \in {NoPid, life[p].pid}

\* The process is kept: trackers are told if its pid was read now, and the first
\* descriptor of its queue may be passed.
Kept(p, q, u) ==
  LET pr == [proc EXCEPT ![p] = q]
  IN /\ list' = list
     /\ jdwp_process_list_updated(list, pr) \/ (client' = client /\ q.pid = proc[p].pid)
     /\ \/ q.out_fds # <<>> /\ SendNext(p, q, u)
        \/ proc' = pr /\ conn' = conn /\ life' = [life EXCEPT ![p].unread = u]

LEMMA AfterReadBy ==
  ASSUME JdwpInv, NEW p \in Procs, Listed(p)
  PROVE  /\ ReadBy(p, AfterRead(p), Unread(p))
         /\ ReadOutcome(p) # "write" => AfterRead(p).pid = proc[p].pid
<1> USE JdwpAssumption DEF PidLen, NoPid, BadPid
<1>1. /\ proc[p] \in ProcRecords /\ life[p] \in LifeRecords
      /\ life[p].pid \in Pids \union {BadPid} /\ proc[p].pid \in {NoPid, life[p].pid}
  BY DEF JdwpInv, Types, Lives
<1>2. /\ proc[p].in_len \in 0 .. PidLen /\ life[p].unread \in Nat
      /\ proc[p].out_fds \in Seq(Conns) /\ proc[p].write \in BOOLEAN
  BY <1>1 DEF ProcRecords, LifeRecords
<1>3. Unread(p) \in 0 .. life[p].unread
  BY <1>2 DEF Unread
<1>4. CASE proc[p].pid # NoPid
  BY <1>1, <1>3, <1>4 DEF ReadBy, AfterRead
<1>5. CASE proc[p].pid = NoPid
  <2> DEFINE n == IF proc[p].in_len + life[p].unread >= PidLen THEN PidLen
                  ELSE proc[p].in_len + life[p].unread
             d == IF ReadOutcome(p) = "write" THEN life[p].pid ELSE NoPid
  <2>1. n \in 0 .. PidLen
    BY <1>2
  <2>2. d \in Pids \union {NoPid} /\ d \in {NoPid, life[p].pid}
    BY <1>1 DEF ReadOutcome
  <2>3. AfterRead(p) = [proc[p] EXCEPT !.in_len = n, !.pid = d]
    BY <1>5 DEF AfterRead
  <2>4. ReadOutcome(p) # "write" => d = proc[p].pid
    BY <1>5
  <2> HIDE DEF n, d
  <2>5. /\ AfterRead(p) \in ProcRecords /\ AfterRead(p).out_fds = proc[p].out_fds
        /\ AfterRead(p).pid = d
    BY <1>1, <2>1, <2>2, <2>3 DEF ProcRecords
  <2> QED BY <1>3, <2>2, <2>4, <2>5 DEF ReadBy
<1> QED BY <1>4, <1>5

\* jdwp_process_event frees the process or keeps it.
LEMMA EventCases ==
  ASSUME JdwpInv, NEW p \in Procs, NEW events \in SUBSET {"READ", "WRITE"},
         jdwp_process_event(p, events)
  PROVE  /\ Listed(p)
         /\ \E q, u : /\ ReadBy(p, q, u)
                      /\ jdwp_process_free(p, [proc EXCEPT ![p] = q]) \/ Kept(p, q, u)
<1>1. Listed(p)
  BY DEF jdwp_process_event
<1>2. CASE "READ" \in events
  <2>1. ReadBy(p, AfterRead(p), Unread(p))
    BY <1>1, AfterReadBy
  <2>2. ReadOutcome(p) # "write" => AfterRead(p).pid = proc[p].pid
    BY <1>1, AfterReadBy
  <2>3. \/ jdwp_process_free(p, [proc EXCEPT ![p] = AfterRead(p)])
        \/ Kept(p, AfterRead(p), Unread(p))
    BY <1>2, <2>2, Zenon DEF jdwp_process_event, Kept
  <2> QED BY <1>1, <2>1, <2>3
<1>3. CASE "READ" \notin events
  <2>1. ReadBy(p, proc[p], life[p].unread)
    BY DEF ReadBy, JdwpInv, Types, Lives, LifeRecords
  <2>2. \/ jdwp_process_free(p, [proc EXCEPT ![p] = proc[p]])
        \/ Kept(p, proc[p], life[p].unread)
    BY <1>3, Zenon DEF jdwp_process_event, Kept
  <2> QED BY <1>1, <2>1, <2>2
<1> QED BY <1>2, <1>3

\* The trackers after a step that told them of the new list, or left it as it was.
LEMMA Told ==
  ASSUME Types, NEW l \in Seq(Procs), NEW pr \in [Procs -> ProcRecords],
         jdwp_process_list_updated(l, pr),
         jdwp_process_list(l, pr) = jdwp_process_list(list', proc')
  PROVE  client' \in [Clients -> ClientRecords] /\ TrackersAreCurrent'
<1> DEFINE new == jdwp_process_list(l, pr)
<1>1. new \in Seq(Pids)
  BY ListType
<1>2. client' = [c \in Clients |-> IF client[c].kind = "track"
                                  THEN [client[c] EXCEPT !.shown = new] ELSE client[c]]
  BY DEF jdwp_process_list_updated
<1> HIDE DEF new
<1>3. ASSUME NEW c \in Clients
      PROVE  client'[c] \in ClientRecords /\ (client'[c].kind = "track" => client'[c].shown = new)
  BY <1>1, <1>2 DEF Types, ClientRecords
<1>4. client' \in [Clients -> ClientRecords]
  BY <1>2, <1>3
<1> QED BY <1>3, <1>4 DEF TrackersAreCurrent, new

\* The process is freed: its queue is closed with it, and nobody else's is.
LEMMA FreeJdwp ==
  ASSUME JdwpInv, NEW p \in Procs, Listed(p), NEW q, NEW u, ReadBy(p, q, u),
         jdwp_process_free(p, [proc EXCEPT ![p] = q])
  PROVE  JdwpInv'
<1> USE JdwpAssumption
<1> DEFINE pr == [proc EXCEPT ![p] = q]
           fds == pr[p].out_fds
<1>1. Types /\ Lives /\ Owners
  BY DEF JdwpInv
<1>2. /\ list' = Without(list, p) /\ proc' = [pr EXCEPT ![p] = NewProcess]
      /\ life' = [life EXCEPT ![p].link = "shut", ![p].unread = 0]
      /\ jdwp_process_list_updated(Without(list, p), pr)
      /\ conn' = [i \in 1 .. Len(conn) |->
                    IF \E j \in 1 .. Len(fds) : fds[j] = i
                    THEN [conn[i] EXCEPT !.st = "closed"] ELSE conn[i]]
  BY DEF jdwp_process_free, Unlink, CloseAll
<1>3. pr \in [Procs -> ProcRecords] /\ fds = proc[p].out_fds /\ pr[p] = q
  BY <1>1 DEF Types, ReadBy
<1>4. /\ proc' \in [Procs -> ProcRecords] /\ proc'[p] = NewProcess
      /\ \A r \in Procs : r # p => proc'[r] = proc[r] /\ pr[r] = proc[r]
  BY <1>1, <1>2, NewRecords DEF Types, ReadBy
<1> HIDE DEF pr, fds
<1>5. /\ list' \in Seq(Procs)
      /\ \A i, j \in 1 .. Len(list') : list'[i] = list'[j] => i = j
      /\ \A i \in 1 .. Len(list') : list'[i] # p /\ \E j \in 1 .. Len(list) : list[j] = list'[i]
      /\ \A j \in 1 .. Len(list) : list[j] # p => \E i \in 1 .. Len(list') : list'[i] = list[j]
  <2>1. list \in Seq(Procs) /\ \A i, j \in 1 .. Len(list) : list[i] = list[j] => i = j
    BY <1>1 DEF Types, Lives
  <2>2. \E i \in 1 .. Len(list) : list[i] = p
    BY DEF Listed
  <2>3. list' = Without(list, p)
    BY <1>2
  <2>4. /\ Without(list, p) \in Seq(Procs)
        /\ \A i, j \in 1 .. Len(Without(list, p)) :
             Without(list, p)[i] = Without(list, p)[j] => i = j
        /\ \A i \in 1 .. Len(Without(list, p)) :
             Without(list, p)[i] # p /\ \E j \in 1 .. Len(list) : list[j] = Without(list, p)[i]
        /\ \A j \in 1 .. Len(list) :
             list[j] # p => \E i \in 1 .. Len(Without(list, p)) : Without(list, p)[i] = list[j]
    BY <2>1, <2>2, WithoutOne
  <2> QED BY <2>3, <2>4, Zenon
<1>6. client' \in [Clients -> ClientRecords] /\ TrackersAreCurrent'
  <2>1. \A i \in 1 .. Len(list') : pr[list'[i]].pid = proc'[list'[i]].pid
    <3> TAKE i \in 1 .. Len(list')
    <3>1. list'[i] \in Procs /\ list'[i] # p
      BY <1>5
    <3> QED BY <1>4, <3>1
  <2>2. jdwp_process_list(list', pr) = jdwp_process_list(list', proc')
    <3>1. list' \in Seq(Procs)
      BY <1>5
    <3> QED BY <3>1, <2>1, SamePids
  <2> QED BY <1>1, <1>2, <1>3, <1>5, <2>2, Told
<1> DEFINE new == [life[p] EXCEPT !.link = "shut", !.unread = 0]
<1>7. /\ new \in LifeRecords /\ new.st = life[p].st /\ new.pid = life[p].pid
      /\ new.got = life[p].got /\ new.link = "shut" /\ new.unread = 0
      /\ new.wrote = life[p].wrote /\ new.unread <= new.wrote
  <2>1. life[p] \in LifeRecords
    BY <1>1 DEF Types
  <2>2. life[p].wrote \in 0 .. MaxPieces /\ 0 \in 0 .. MaxPieces /\ 0 <= life[p].wrote
    BY <2>1 DEF LifeRecords
  <2>3. new \in LifeRecords
    BY <2>1, <2>2 DEF LifeRecords
  <2>4. /\ new.st = life[p].st /\ new.pid = life[p].pid
        /\ new.got = life[p].got /\ new.link = "shut" /\ new.unread = 0
        /\ new.wrote = life[p].wrote
    BY <2>1 DEF LifeRecords
  <2> QED BY <2>2, <2>3, <2>4
<1>8. life' = [life EXCEPT ![p] = new]
  BY <1>2
<1> HIDE DEF new
<1>9. conn' \in Seq(ConnRecords) /\ Len(conn') = Len(conn) /\ Len(conn) \in Nat
  <2>1. Len(conn) \in Nat /\ \A i \in 1 .. Len(conn) : conn[i] \in ConnRecords
    BY <1>1 DEF Types
  <2>2. \A i \in 1 .. Len(conn) : [conn[i] EXCEPT !.st = "closed"] \in ConnRecords
    BY <2>1 DEF ConnRecords
  <2>3. conn' \in [1 .. Len(conn) -> ConnRecords]
    BY <1>2, <2>1, <2>2
  <2> QED BY <2>1, <2>3
<1>10. Types'
  BY <1>1, <1>4, <1>5, <1>6, <1>7, <1>8, <1>9 DEF Types
<1>11. Lives'
  <2>1. \A r \in Procs : Listed(r)' <=> Listed(r) /\ r # p
    BY <1>5 DEF Listed
  <2>2. life[p].link = "accepted"
    BY <1>1 DEF Lives
  <2>3. life[p].st # "none"
    BY <1>1, <2>2 DEF Lives, NoLife
  <2>4. NewProcess.pid = NoPid
    BY DEF NewProcess
  <2>5. ASSUME NEW r \in Procs
        PROVE  /\ Listed(r)' <=> life'[r].link = "accepted"
               /\ life'[r].st = "none" => life'[r] = NoLife
               /\ life'[r].link # "none" => life'[r].pid \in Pids \union {BadPid}
               /\ life'[r].link # "accepted" => proc'[r] = NewProcess
               /\ proc'[r].pid \in {NoPid, life'[r].pid}
               /\ life'[r].unread <= life'[r].wrote
    <3>1. CASE r = p
      <4>1. life'[r] = new
        BY <1>1, <1>8, <3>1 DEF Types
      <4>2. life[p].pid \in Pids \union {BadPid}
        BY <1>1, <2>2 DEF Lives
      <4> QED BY <1>4, <1>7, <2>1, <2>3, <2>4, <3>1, <4>1, <4>2
    <3>2. CASE r # p
      <4>1. life'[r] = life[r] /\ proc'[r] = proc[r]
        BY <1>1, <1>4, <1>8, <3>2 DEF Types
      <4> QED BY <1>1, <2>1, <3>2, <4>1 DEF Lives
    <3> QED BY <3>1, <3>2
  <2> QED BY <1>5, <2>5 DEF Lives
<1>12. \A i \in 1 .. Len(conn) :
         /\ conn'[i].asked = conn[i].asked
         /\ Holds(fds, i) => conn'[i].st = "closed"
         /\ ~Holds(fds, i) => conn'[i].st = conn[i].st
  BY <1>1, <1>2 DEF Types, ConnRecords, Holds
<1>13. \A r \in Procs : QueueOf(r)
  BY <1>1 DEF Owners
<1>14. ASSUME NEW r \in Procs PROVE QueueOf(r)'
  <2>1. CASE r = p
    <3>1. proc'[p].out_fds = <<>> /\ life'[p].got = life[p].got /\ life'[p].pid = life[p].pid
      BY <1>1, <1>4, <1>7, <1>8 DEF NewProcess, Types
    <3>2. \A k \in 1 .. Len(life[p].got) : life[p].got[k] \in 1 .. Len(conn)
      BY <1>1, <1>13, NamesConnections
    <3>3. \A k \in 1 .. Len(life[p].got) : conn'[life[p].got[k]].asked = conn[life[p].got[k]].asked
      BY <1>12, <3>2
    <3>4. /\ \A k \in 1 .. Len(life[p].got) : life[p].got[k] <= Len(conn)
          /\ \A k \in 1 .. Len(life[p].got) : conn[life[p].got[k]].asked \in {life[p].pid, NoPid}
          /\ \A k, m \in 1 .. Len(life[p].got) : k < m => life[p].got[k] < life[p].got[m]
      BY <1>13 DEF QueueOf
    <3> QED BY <1>9, <2>1, <3>1, <3>3, <3>4, SMTT(30) DEF QueueOf
  <2>2. CASE r # p
    <3>1. /\ proc'[r].out_fds = proc[r].out_fds /\ life'[r].got = life[r].got
          /\ life'[r].pid = life[r].pid /\ Len(conn') >= Len(conn)
      BY <1>1, <1>4, <1>8, <1>9, <2>2 DEF Types
    <3>2. \A i \in 1 .. Len(conn) : Holds(proc[r].out_fds, i) => conn'[i].st = conn[i].st
      BY <1>1, <1>3, <1>12, <2>2 DEF Owners
    <3>3. QueueOf(r) /\ \A i \in 1 .. Len(conn) : conn'[i].asked = conn[i].asked
      BY <1>12, <1>13
    <3> QED BY <1>1, <1>10, <3>1, <3>2, <3>3, QueueKept, SMTT(30)
  <2> QED BY <2>1, <2>2
<1>15. \A i, r : r \in Procs => (Holds(proc'[r].out_fds, i) <=> Holds(proc[r].out_fds, i) /\ r # p)
  <2>1. \A i : ~Holds(proc'[p].out_fds, i)
    BY <1>4 DEF Holds, NewProcess
  <2> QED BY <1>4, <2>1
<1>16. Owners'
  <2>1. \A i \in 1 .. Len(conn) : \A r, s \in Procs :
          Holds(proc'[r].out_fds, i) /\ Holds(proc'[s].out_fds, i) => r = s
    BY <1>1, <1>15 DEF Owners
  <2>2. ASSUME NEW i \in 1 .. Len(conn), conn'[i].st = "queued"
        PROVE  \E r \in Procs : Holds(proc'[r].out_fds, i)
    <3>1. ~Holds(fds, i) /\ conn[i].st = "queued"
      BY <1>12, <2>2
    <3>2. PICK r \in Procs : Holds(proc[r].out_fds, i)
      BY <1>1, <3>1 DEF Owners
    <3> QED BY <1>3, <1>15, <3>1, <3>2
  <2> QED BY <1>9, <1>14, <2>1, <2>2 DEF Owners
<1> QED BY <1>6, <1>10, <1>11, <1>16 DEF JdwpInv

\* The trackers when the process is kept, whatever becomes of its queue.
LEMMA KeptTold ==
  ASSUME JdwpInv, NEW p \in Procs, NEW q \in ProcRecords, list' = list,
         \/ jdwp_process_list_updated(list, [proc EXCEPT ![p] = q])
         \/ client' = client /\ q.pid = proc[p].pid,
         \A r \in Procs : proc'[r].pid = [proc EXCEPT ![p] = q][r].pid
  PROVE  client' \in [Clients -> ClientRecords] /\ TrackersAreCurrent'
<1> DEFINE pr == [proc EXCEPT ![p] = q]
<1>1. Types /\ TrackersAreCurrent /\ list \in Seq(Procs) /\ pr \in [Procs -> ProcRecords]
  BY DEF JdwpInv, Types
<1>2. \A i \in 1 .. Len(list) : pr[list[i]].pid = proc'[list[i]].pid
  BY <1>1
<1>3. jdwp_process_list(list, pr) = jdwp_process_list(list, proc')
  <2> HIDE DEF pr
  <2> QED BY <1>1, <1>2, SamePids
<1>4. CASE jdwp_process_list_updated(list, pr)
  <2> HIDE DEF pr
  <2> QED BY <1>1, <1>3, <1>4, Told
<1>5. CASE client' = client /\ q.pid = proc[p].pid
  <2>1. \A i \in 1 .. Len(list) : pr[list[i]].pid = proc[list[i]].pid
    BY <1>1, <1>5 DEF Types
  <2>2. jdwp_process_list(list, pr) = jdwp_process_list(list, proc)
    <3> HIDE DEF pr
    <3> QED BY <1>1, <2>1, SamePids
  <2>3. client' = client /\ list' = list
    BY <1>5
  <2>4. client' \in [Clients -> ClientRecords]
    BY <1>1, <2>3 DEF Types
  <2> HIDE DEF pr
  <2> QED BY <1>1, <1>3, <2>2, <2>3, <2>4 DEF TrackersAreCurrent
<1> QED BY <1>4, <1>5

\* A listed process of which only the record, what is unread and what it got change.
LEMMA KeptLives ==
  ASSUME JdwpInv, NEW p \in Procs, Listed(p), list' = list,
         NEW q \in ProcRecords, proc' = [proc EXCEPT ![p] = q], q.pid \in {NoPid, life[p].pid},
         NEW n \in LifeRecords, life' = [life EXCEPT ![p] = n],
         n.st = life[p].st, n.pid = life[p].pid, n.link = life[p].link,
         n.wrote = life[p].wrote, n.unread <= n.wrote
  PROVE  Lives'
<1>1. Types /\ Lives
  BY DEF JdwpInv
<1>2. life[p].link = "accepted" /\ life[p].st # "none"
  BY <1>1 DEF Lives, NoLife
<1>3. \A r \in Procs : Listed(r)' <=> Listed(r)
  BY DEF Listed
<1>4. ASSUME NEW r \in Procs
      PROVE  /\ Listed(r)' <=> life'[r].link = "accepted"
             /\ life'[r].st = "none" => life'[r] = NoLife
             /\ life'[r].link # "none" => life'[r].pid \in Pids \union {BadPid}
             /\ life'[r].link # "accepted" => proc'[r] = NewProcess
             /\ proc'[r].pid \in {NoPid, life'[r].pid}
             /\ life'[r].unread <= life'[r].wrote
  <2>1. CASE r = p
    <3>1. life'[r] = n /\ proc'[r] = q
      BY <1>1, <2>1 DEF Types
    <3>2. life[p].pid \in Pids \union {BadPid}
      BY <1>1, <1>2 DEF Lives
    <3> QED BY <1>2, <1>3, <2>1, <3>1, <3>2
  <2>2. CASE r # p
    <3>1. life'[r] = life[r] /\ proc'[r] = proc[r]
      BY <1>1, <2>2 DEF Types
    <3> QED BY <1>1, <1>3, <3>1 DEF Lives
  <2> QED BY <2>1, <2>2
<1> QED BY <1>1, <1>4 DEF Lives

\* The step of a process that is kept and passed nothing.
LEMMA QuietJdwp ==
  ASSUME JdwpInv, NEW p \in Procs, Listed(p), NEW q, NEW u, ReadBy(p, q, u), list' = list,
         \/ jdwp_process_list_updated(list, [proc EXCEPT ![p] = q])
         \/ client' = client /\ q.pid = proc[p].pid,
         proc' = [proc EXCEPT ![p] = q], conn' = conn, life' = [life EXCEPT ![p].unread = u]
  PROVE  JdwpInv'
<1>1. Types /\ Lives /\ Owners
  BY DEF JdwpInv
<1>2. /\ q \in ProcRecords /\ u \in 0 .. life[p].unread /\ q.out_fds = proc[p].out_fds
      /\ q.pid \in {NoPid, life[p].pid}
  BY DEF ReadBy
<1>3. client' \in [Clients -> ClientRecords] /\ TrackersAreCurrent'
  BY <1>2, KeptTold
<1> DEFINE n == [life[p] EXCEPT !.unread = u]
<1>4. /\ n \in LifeRecords /\ n.st = life[p].st /\ n.pid = life[p].pid /\ n.link = life[p].link
      /\ n.got = life[p].got /\ n.wrote = life[p].wrote /\ n.unread <= n.wrote
  <2>1. life[p] \in LifeRecords /\ life[p].unread <= life[p].wrote
    BY <1>1 DEF Types, Lives
  <2>2. /\ life[p].unread \in 0 .. MaxPieces /\ life[p].wrote \in 0 .. MaxPieces
        /\ u \in 0 .. MaxPieces /\ u <= life[p].wrote
    BY <1>2, <2>1, JdwpAssumption DEF LifeRecords
  <2> QED BY <2>1, <2>2 DEF LifeRecords
<1>5. life' = [life EXCEPT ![p] = n]
  OBVIOUS
<1> HIDE DEF n
<1>6. Types'
  BY <1>1, <1>2, <1>3, <1>4, <1>5 DEF Types
<1>7. Lives'
  BY <1>2, <1>4, <1>5, KeptLives
<1>8. Owners'
  <2>1. \A r \in Procs : proc'[r].out_fds = proc[r].out_fds
    BY <1>1, <1>2 DEF Types
  <2>2. \A r \in Procs : life'[r].got = life[r].got /\ life'[r].pid = life[r].pid
    BY <1>1, <1>4, <1>5 DEF Types
  <2> QED BY <1>1, <1>6, <2>1, <2>2, OwnersKept
<1> QED BY <1>3, <1>6, <1>7, <1>8 DEF JdwpInv

\* The first descriptor of the queue is passed: it is later than all that were
\* passed before, and earlier than all that still wait.
LEMMA SendJdwp ==
  ASSUME JdwpInv, NEW p \in Procs, Listed(p), NEW q, NEW u, ReadBy(p, q, u), list' = list,
         \/ jdwp_process_list_updated(list, [proc EXCEPT ![p] = q])
         \/ client' = client /\ q.pid = proc[p].pid,
         q.out_fds # <<>>, SendNext(p, q, u)
  PROVE  JdwpInv'
<1> USE JdwpAssumption
<1>1. Types /\ Lives /\ Owners
  BY DEF JdwpInv
<1> DEFINE fds == proc[p].out_fds
           fd == Head(fds)
           rest == Tail(fds)
           got == life[p].got
           qq == [q EXCEPT !.out_fds = rest, !.write = Len(fds) > 1]
           n == [life[p] EXCEPT !.unread = u, !.got = Append(@, fd)]
<1>2. /\ q \in ProcRecords /\ u \in 0 .. life[p].unread /\ q.out_fds = fds
      /\ q.pid \in {NoPid, life[p].pid} /\ fds # <<>>
  BY DEF ReadBy
<1>3. /\ proc' = [proc EXCEPT ![p] = qq] /\ life' = [life EXCEPT ![p] = n]
      /\ conn' = [conn EXCEPT ![fd].st = "passed"]
  BY <1>2 DEF SendNext, SendFd
<1>4. fds \in Seq(Conns) /\ got \in Seq(Conns) /\ Len(conn) \in Nat
  BY <1>1 DEF Types, ProcRecords, LifeRecords
<1>5. \A r \in Procs : QueueOf(r)
  BY <1>1 DEF Owners
<1>6. /\ \A k \in 1 .. Len(fds) : fds[k] \in 1 .. Len(conn)
      /\ \A k \in 1 .. Len(got) : got[k] \in 1 .. Len(conn)
  BY <1>1, <1>5, NamesConnections
<1>7. /\ Len(fds) \in Nat \ {0} /\ fd = fds[1] /\ fd \in Conns /\ rest \in Seq(Conns)
      /\ Len(rest) = Len(fds) - 1
      /\ \A k \in 1 .. Len(rest) : k + 1 \in 1 .. Len(fds) /\ rest[k] = fds[k + 1]
  BY <1>2, <1>4
<1>8. /\ Append(got, fd) \in Seq(Conns) /\ Len(got) \in Nat
      /\ Len(Append(got, fd)) = Len(got) + 1 /\ Append(got, fd)[Len(got) + 1] = fd
      /\ \A k \in 1 .. Len(got) : Append(got, fd)[k] = got[k]
  <2> HIDE DEF got, fd
  <2> QED BY <1>4, <1>7
<1>9. /\ qq \in ProcRecords /\ qq.pid = q.pid /\ qq.out_fds = rest
  <2>1. (Len(fds) > 1) \in BOOLEAN
    OBVIOUS
  <2> HIDE DEF rest, fds
  <2> QED BY <1>2, <1>7, <2>1 DEF ProcRecords
<1>10. /\ n \in LifeRecords /\ n.st = life[p].st /\ n.pid = life[p].pid /\ n.link = life[p].link
       /\ n.got = Append(got, fd) /\ n.wrote = life[p].wrote /\ n.unread <= n.wrote
  <2>1. life[p] \in LifeRecords /\ life[p].unread <= life[p].wrote
    BY <1>1 DEF Types, Lives
  <2>2. /\ life[p].unread \in 0 .. MaxPieces /\ life[p].wrote \in 0 .. MaxPieces
        /\ u \in 0 .. MaxPieces /\ u <= life[p].wrote
    BY <1>2, <2>1 DEF LifeRecords
  <2> HIDE DEF fd
  <2>3. n \in LifeRecords
    BY <1>8, <2>1, <2>2 DEF LifeRecords
  <2>4. /\ n.st = life[p].st /\ n.pid = life[p].pid /\ n.link = life[p].link
        /\ n.got = Append(got, fd) /\ n.wrote = life[p].wrote /\ n.unread = u
    BY <2>1 DEF LifeRecords
  <2> HIDE DEF n
  <2> QED BY <2>2, <2>3, <2>4
<1> HIDE DEF fds, fd, rest, got, qq, n
<1>11. client' \in [Clients -> ClientRecords] /\ TrackersAreCurrent'
  <2>1. \A r \in Procs : proc'[r].pid = [proc EXCEPT ![p] = q][r].pid
    BY <1>1, <1>3, <1>9 DEF Types
  <2> QED BY <1>2, <2>1, KeptTold
<1>12. fd \in 1 .. Len(conn)
  BY <1>6, <1>7
<1>13. /\ conn' \in Seq(ConnRecords) /\ Len(conn') = Len(conn)
       /\ \A i \in 1 .. Len(conn) : conn'[i].asked = conn[i].asked
       /\ \A i \in 1 .. Len(conn) : i # fd => conn'[i].st = conn[i].st
       /\ conn'[fd].st = "passed"
  <2>1. conn \in Seq(ConnRecords) /\ conn[fd] \in ConnRecords
    BY <1>1, <1>12 DEF Types
  <2> DEFINE c == [conn[fd] EXCEPT !.st = "passed"]
  <2>2. c \in ConnRecords /\ c.asked = conn[fd].asked /\ c.st = "passed"
    BY <2>1 DEF ConnRecords
  <2>3. conn' = [conn EXCEPT ![fd] = c]
    BY <1>3
  <2> HIDE DEF c
  <2> QED BY <1>12, <2>1, <2>2, <2>3
<1>14. Types'
  BY <1>1, <1>3, <1>9, <1>10, <1>11, <1>13 DEF Types
<1>15. Lives'
  <2>1. qq.pid \in {NoPid, life[p].pid}
    BY <1>2, <1>9
  <2> QED BY <1>3, <1>9, <1>10, <2>1, KeptLives
<1>16. /\ Len(fds) <= MAX_OUT_FDS
       /\ \A k \in 1 .. Len(fds) :
            conn[fds[k]].st = "queued" /\ conn[fds[k]].asked \in {life[p].pid, NoPid}
       /\ \A k, m \in 1 .. Len(fds) : k < m => fds[k] < fds[m]
       /\ \A k \in 1 .. Len(got), m \in 1 .. Len(fds) : got[k] < fds[m]
       /\ \A k \in 1 .. Len(got) : conn[got[k]].asked \in {life[p].pid, NoPid}
       /\ \A k, m \in 1 .. Len(got) : k < m => got[k] < got[m]
  BY <1>5 DEF QueueOf, fds, got
<1>17. \A k, m \in 1 .. Len(fds) : fds[k] = fds[m] => k = m
  BY <1>6, <1>7, <1>16
<1>18. proc'[p].out_fds = rest /\ life'[p].got = Append(got, fd) /\ life'[p].pid = life[p].pid
  BY <1>1, <1>3, <1>9, <1>10 DEF Types
<1>19. \A r \in Procs : r # p => proc'[r] = proc[r] /\ life'[r] = life[r]
  BY <1>1, <1>3 DEF Types
<1>20. \A k \in 1 .. Len(rest) :
         /\ k + 1 \in 1 .. Len(fds) /\ rest[k] = fds[k + 1]
         /\ rest[k] \in 1 .. Len(conn) /\ fd < rest[k]
  <2> TAKE k \in 1 .. Len(rest)
  <2>1. k + 1 \in 1 .. Len(fds) /\ rest[k] = fds[k + 1] /\ 1 \in 1 .. Len(fds) /\ 1 < k + 1
    BY <1>7
  <2> QED BY <1>6, <1>7, <1>16, <2>1
<1>21. QueueOf(p)'
  <2> DEFINE g == Append(got, fd)
  <2> HIDE DEF g
  <2>1. \A k \in 1 .. Len(g) :
          (k \in 1 .. Len(got) /\ g[k] = got[k]) \/ (k = Len(got) + 1 /\ g[k] = fd)
    BY <1>8 DEF g
  <2>2. Len(rest) <= MAX_OUT_FDS
    BY <1>7, <1>16
  <2>3. \A k \in 1 .. Len(rest) : rest[k] <= Len(conn')
    BY <1>4, <1>13, <1>20
  <2>4. \A k \in 1 .. Len(rest) :
          conn'[rest[k]].st = "queued" /\ conn'[rest[k]].asked \in {life[p].pid, NoPid}
    <3> TAKE k \in 1 .. Len(rest)
    <3>1. rest[k] \in 1 .. Len(conn) /\ rest[k] # fd
      BY <1>12, <1>20
    <3>2. conn[rest[k]].st = "queued" /\ conn[rest[k]].asked \in {life[p].pid, NoPid}
      BY <1>16, <1>20
    <3> QED BY <1>13, <3>1, <3>2
  <2>5. \A k, m \in 1 .. Len(rest) : k < m => rest[k] < rest[m]
    <3> TAKE k, m \in 1 .. Len(rest)
    <3> HAVE k < m
    <3>1. k + 1 \in 1 .. Len(fds) /\ m + 1 \in 1 .. Len(fds) /\ k + 1 < m + 1
      BY <1>20
    <3>2. fds[k + 1] < fds[m + 1]
      BY <1>16, <3>1
    <3> QED BY <1>20, <3>2
  <2>6. \A k \in 1 .. Len(g), m \in 1 .. Len(rest) : g[k] < rest[m]
    <3> TAKE k \in 1 .. Len(g), m \in 1 .. Len(rest)
    <3>1. m + 1 \in 1 .. Len(fds) /\ rest[m] = fds[m + 1] /\ fd < rest[m]
      BY <1>20
    <3>2. \A j \in 1 .. Len(got) : got[j] < fds[m + 1]
      BY <1>16, <3>1
    <3> QED BY <2>1, <3>1, <3>2
  <2>7. \A k \in 1 .. Len(g) : g[k] \in 1 .. Len(conn)
    BY <1>6, <1>12, <2>1
  <2>8. \A k \in 1 .. Len(g) : g[k] <= Len(conn')
    BY <1>4, <1>13, <2>7
  <2>9. \A k \in 1 .. Len(g) : conn'[g[k]].asked \in {life[p].pid, NoPid}
    <3>1. conn[fd].asked \in {life[p].pid, NoPid}
      BY <1>7, <1>16
    <3> QED BY <1>13, <1>16, <2>1, <2>7, <3>1
  <2>10. \A k, m \in 1 .. Len(g) : k < m => g[k] < g[m]
    <3> TAKE k, m \in 1 .. Len(g)
    <3> HAVE k < m
    <3>1. \A j \in 1 .. Len(got) : got[j] < fd
      BY <1>7, <1>16
    <3>2. k \in 1 .. Len(got) /\ g[k] = got[k]
      BY <1>8, <2>1 DEF g
    <3> QED BY <1>16, <2>1, <3>1, <3>2
  <2>11. proc'[p].out_fds = rest /\ life'[p].got = g /\ life'[p].pid = life[p].pid
    BY <1>18 DEF g
  <2> QED BY <2>2, <2>3, <2>4, <2>5, <2>6, <2>8, <2>9, <2>10, <2>11 DEF QueueOf
<1>22. /\ Holds(fds, fd)
       /\ \A i : Holds(rest, i) <=> Holds(fds, i) /\ i # fd
  BY <1>2, <1>4, <1>17, HoldsTail DEF fd, rest
<1>23. \A r \in Procs : r # p => ~Holds(proc[r].out_fds, fd)
  BY <1>1, <1>12, <1>22 DEF Owners, fds
<1>24. ASSUME NEW r \in Procs PROVE QueueOf(r)'
  <2>1. CASE r = p
    BY <1>21, <2>1
  <2>2. CASE r # p
    <3>1. /\ proc'[r] = proc[r] /\ life'[r] = life[r] /\ Len(conn') >= Len(conn)
      BY <1>4, <1>13, <1>19, <2>2
    <3>2. \A i \in 1 .. Len(conn) : Holds(proc[r].out_fds, i) => conn'[i].st = conn[i].st
      BY <1>13, <1>23, <2>2
    <3> QED BY <1>1, <1>5, <1>13, <1>14, <3>1, <3>2, QueueKept
  <2> QED BY <2>1, <2>2
<1>25. \A i \in 1 .. Len(conn), r \in Procs :
         Holds(proc'[r].out_fds, i) <=> Holds(proc[r].out_fds, i) /\ i # fd
  <2> TAKE i \in 1 .. Len(conn), r \in Procs
  <2>1. CASE r = p
    BY <1>18, <1>22, <2>1 DEF fds
  <2>2. CASE r # p
    BY <1>19, <1>23, <2>2
  <2> QED BY <2>1, <2>2
<1>26. Owners'
  <2>1. \A i \in 1 .. Len(conn) : \A r, s \in Procs :
          Holds(proc'[r].out_fds, i) /\ Holds(proc'[s].out_fds, i) => r = s
    BY <1>1, <1>25 DEF Owners
  <2>2. ASSUME NEW i \in 1 .. Len(conn), conn'[i].st = "queued"
        PROVE  \E r \in Procs : Holds(proc'[r].out_fds, i)
    <3>1. i # fd /\ conn[i].st = "queued"
      BY <1>13, <2>2
    <3>2. PICK r \in Procs : Holds(proc[r].out_fds, i)
      BY <1>1, <3>1 DEF Owners
    <3> QED BY <1>25, <3>1, <3>2
  <2> QED BY <1>13, <1>24, <2>1, <2>2 DEF Owners
<1> QED BY <1>11, <1>14, <1>15, <1>26 DEF JdwpInv

-----------------------------------------------------------------------------
LEMMA NextJdwp == JdwpInv /\ [Next]_vars => JdwpInv'
<1> SUFFICES ASSUME JdwpInv, [Next]_vars PROVE JdwpInv'
  OBVIOUS
<1>1. ASSUME NEW p \in Procs, Event(p) PROVE JdwpInv'
  <2>1. PICK events \in SUBSET {"READ", "WRITE"} : jdwp_process_event(p, events)
    BY <1>1 DEF Event
  <2>2. Listed(p)
    BY <2>1, EventCases
  <2>3. PICK q, u : /\ ReadBy(p, q, u)
                    /\ jdwp_process_free(p, [proc EXCEPT ![p] = q]) \/ Kept(p, q, u)
    BY <2>1, EventCases
  <2>4. CASE jdwp_process_free(p, [proc EXCEPT ![p] = q])
    BY <2>2, <2>3, <2>4, FreeJdwp
  <2>5. CASE Kept(p, q, u)
    <3>1. /\ list' = list
          /\ \/ jdwp_process_list_updated(list, [proc EXCEPT ![p] = q])
             \/ client' = client /\ q.pid = proc[p].pid
          /\ \/ q.out_fds # <<>> /\ SendNext(p, q, u)
             \/ /\ proc' = [proc EXCEPT ![p] = q] /\ conn' = conn
                /\ life' = [life EXCEPT ![p].unread = u]
      BY <2>5 DEF Kept
    <3> QED BY <2>2, <2>3, <3>1, SendJdwp, QuietJdwp
  <2> QED BY <2>3, <2>4, <2>5
<1>2. CASE UNCHANGED vars
  <2>1. UNCHANGED <<list, proc, life, conn, client>>
    BY <1>2 DEF vars
  <2>2. Types' /\ TrackersAreCurrent'
    BY <2>1 DEF JdwpInv, Types, TrackersAreCurrent
  <2>3. Lives'
    BY <2>1 DEF JdwpInv, Lives, Listed
  <2>4. Owners'
    BY <2>1, <2>2, OwnersKept DEF JdwpInv
  <2> QED BY <2>2, <2>3, <2>4 DEF JdwpInv
<1> QED BY <1>1, <1>2, ControlJdwp, ProcessJdwp, CreateJdwp, ClientJdwp DEF Next

LEMMA JdwpInvariant == Spec => []JdwpInv
BY InitJdwp, NextJdwp, PTL DEF Spec

\* Well typed, and the far end of every debugger's socket pair is in exactly one
\* queue until adbd has passed or closed it, and in none after (jdwp_process_event,
\* jdwp_process_free, create_jdwp_connection_fd).
THEOREM DescriptorsOwnedOnce == Spec => []OwnedOnce
<1>1. JdwpInv => OwnedOnce
  <2> SUFFICES ASSUME JdwpInv PROVE OwnedOnce
    OBVIOUS
  <2>1. Types /\ Owners
    BY DEF JdwpInv
  <2>2. \A p \in Procs : QueueOf(p)
    BY <2>1 DEF Owners
  <2>3. TypeOK
    <3>1. \A p \in Procs : Len(proc[p].out_fds) <= MAX_OUT_FDS
      BY <2>2 DEF QueueOf
    <3> QED BY <2>1, <3>1
          DEF Types, TypeOK, ProcRecords, LifeRecords, ConnRecords, ClientRecords
  <2>4. ASSUME NEW i \in 1 .. Len(conn)
        PROVE  Cardinality(Places(i)) = IF conn[i].st = "queued" THEN 1 ELSE 0
    <3>1. \A pj \in Places(i) : /\ pj[1] \in Procs /\ pj[2] \in 1 .. Len(proc[pj[1]].out_fds)
                                /\ proc[pj[1]].out_fds[pj[2]] = i /\ pj = <<pj[1], pj[2]>>
      BY JdwpAssumption DEF Places
    <3>2. CASE conn[i].st = "queued"
      <4>1. PICK p \in Procs : Holds(proc[p].out_fds, i)
        BY <2>1, <3>2 DEF Owners
      <4>2. PICK k \in 1 .. Len(proc[p].out_fds) : proc[p].out_fds[k] = i
        BY <4>1 DEF Holds
      <4>3. \A r \in Procs : Holds(proc[r].out_fds, i) => r = p
        BY <2>1, <4>1 DEF Owners
      <4>4. <<p, k>> \in Places(i)
        <5>1. Len(proc[p].out_fds) <= MAX_OUT_FDS /\ Len(proc[p].out_fds) \in Nat
          BY <2>1, <2>2 DEF QueueOf, Types, ProcRecords
        <5> QED BY <4>2, <5>1, JdwpAssumption DEF Places
      <4>5. ASSUME NEW pj \in Places(i) PROVE pj = <<p, k>>
        <5>1. pj[1] = p
          BY <3>1, <4>3 DEF Holds
        <5>2. pj[2] \in 1 .. Len(proc[p].out_fds) /\ proc[p].out_fds[pj[2]] = i
          BY <3>1, <5>1
        <5>3. proc[p].out_fds \in Seq(Conns)
          BY <2>1 DEF Types, ProcRecords
        <5>4. \A m, n \in 1 .. Len(proc[p].out_fds) :
                m < n => proc[p].out_fds[m] < proc[p].out_fds[n]
          BY <2>2 DEF QueueOf
        <5>5. ~(pj[2] < k) /\ ~(k < pj[2])
          BY <4>2, <5>2, <5>4
        <5>6. pj[2] = k
          BY <4>2, <5>2, <5>3, <5>5
        <5> QED BY <3>1, <5>1, <5>6
      <4>6. Places(i) = {<<p, k>>}
        BY <4>4, <4>5
      <4> QED BY <3>2, <4>6, FS_Singleton
    <3>3. CASE conn[i].st # "queued"
      <4>1. Places(i) = {}
        BY <2>2, <3>1, <3>3 DEF QueueOf
      <4> QED BY <3>3, <4>1, FS_EmptySet
    <3> QED BY <3>2, <3>3
  <2> QED BY <2>3, <2>4 DEF OwnedOnce
<1> QED BY <1>1, JdwpInvariant, PTL

\* A process is passed what was asked for its pid, or before its pid was known, and
\* in the order it was asked for (jdwp_process_event, create_jdwp_connection_fd).
THEOREM QueuesAreFair == Spec => []PassedInOrder
<1>1. JdwpInv => PassedInOrder
  BY DEF JdwpInv, Owners, QueueOf, PassedInOrder
<1> QED BY <1>1, JdwpInvariant, PTL

\* Every tracker was last sent the list as it is now (jdwp_process_list_updated).
THEOREM TrackersSeeTheList == Spec => []TrackersAreCurrent
<1>1. JdwpInv => TrackersAreCurrent
  BY DEF JdwpInv
<1> QED BY <1>1, JdwpInvariant, PTL
=============================================================================
