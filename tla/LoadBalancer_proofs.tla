------------------------ MODULE LoadBalancer_proofs ------------------------
(***************************************************************************)
(* The load balancer, proved for any number of servers and clients: the    *)
(* counter of a server is the number of tasks it computes, and round robin *)
(* gives out every server once before it gives out any again.              *)
(***************************************************************************)
EXTENDS LoadBalancer, FiniteSetTheorems, SequenceTheorems, WellFoundedInduction, TLAPS

-----------------------------------------------------------------------------
(* The order of the natural numbers: a set of them has a least element, also *)
(* by another key, and a finite one can be written down in order in one way. *)
(* A least counterexample does for an induction.                             *)

Less == {ss \in Nat \X Nat : ss[1] < ss[2]}

LEMMA LessWellFounded == IsWellFoundedOn(Less, Nat)
BY NatLessThanWellFounded DEF OpToRel, Less

LEMMA LeastNatural ==
    ASSUME NEW S \in SUBSET Nat, S # {}
    PROVE  \E m \in S : \A n \in S : m <= n
<1>1. PICK m \in S : \A n \in S : ~(<<n, m>> \in Less)
  BY LessWellFounded, WFMin
<1>2. \A n \in S : ~(n < m)
  BY <1>1 DEF Less
<1> QED BY <1>2

\* Of the elements with the least key, the least.
LEMMA LeastByKey ==
    ASSUME NEW S \in SUBSET Nat, S # {}, NEW key \in [S -> Nat]
    PROVE  \E s \in S : \A t \in S : key[s] < key[t] \/ (key[s] = key[t] /\ s <= t)
<1> DEFINE keys == {key[s] : s \in S}
<1>1. PICK k \in keys : \A l \in keys : k <= l
  <2>1. keys \in SUBSET Nat /\ keys # {}
    OBVIOUS
  <2> QED BY <2>1, LeastNatural
<1> DEFINE T == {s \in S : key[s] = k}
<1>2. PICK s \in T : \A t \in T : s <= t
  <2>1. T \in SUBSET Nat /\ T # {}
    BY <1>1
  <2> QED BY <2>1, LeastNatural
<1>3. ASSUME NEW t \in S PROVE key[s] < key[t] \/ (key[s] = key[t] /\ s <= t)
  <2>1. k <= key[t] /\ key[s] = k /\ k \in Nat /\ key[t] \in Nat
    BY <1>1, <1>2
  <2>2. CASE key[t] = k
    BY <1>2, <2>1, <2>2
  <2>3. CASE key[t] # k
    BY <2>1, <2>3
  <2> QED BY <2>2, <2>3
<1> QED BY <1>2, <1>3

\* The elements of a finite set in order: the one at place k has k - 1 below it.
LEMMA InOrder ==
    ASSUME NEW S \in SUBSET Nat, IsFiniteSet(S)
    PROVE  /\ Cardinality(S) \in Nat
           /\ \E f \in [1 .. Cardinality(S) -> S] :
                 \A i, j \in 1 .. Cardinality(S) : i < j => f[i] < f[j]
<1> DEFINE n       == Cardinality(S)
           upTo(s) == {t \in S : t <= s}
           rank    == [s \in S |-> Cardinality(upTo(s))]
<1>1. n \in Nat
  BY FS_CardinalityType
<1>2. ASSUME NEW s \in S PROVE /\ IsFiniteSet(upTo(s)) /\ rank[s] \in 1 .. n
  <2>1. IsFiniteSet(upTo(s)) /\ Cardinality(upTo(s)) <= n
    <3>1. upTo(s) \in SUBSET S
      OBVIOUS
    <3> QED BY <3>1, FS_Subset
  <2>2. Cardinality(upTo(s)) \in Nat /\ Cardinality(upTo(s)) # 0
    <3>1. s \in upTo(s)
      OBVIOUS
    <3> QED BY <2>1, <3>1, FS_CardinalityType, FS_EmptySet
  <2> QED BY <1>1, <2>1, <2>2
<1>3. ASSUME NEW s \in S, NEW t \in S, s < t PROVE rank[s] < rank[t]
  <2>1. t \notin upTo(s) /\ upTo(s) \cup {t} \in SUBSET upTo(t)
    <3>1. s \in Nat /\ t \in Nat /\ S \subseteq Nat
      OBVIOUS
    <3>2. ASSUME NEW x \in upTo(s) PROVE x \in S /\ x <= t
      BY <1>3, <3>1
    <3>3. t \notin upTo(s)
      BY <1>3, <3>1
    <3>4. upTo(s) \cup {t} \subseteq upTo(t)
      <4> SUFFICES ASSUME NEW x \in upTo(s) \cup {t} PROVE x \in upTo(t)
        OBVIOUS
      <4>1. CASE x = t
        BY <3>1, <4>1
      <4>2. CASE x \in upTo(s)
        BY <3>2, <4>2
      <4> QED BY <4>1, <4>2
    <3> QED BY <3>3, <3>4
  <2>2. Cardinality(upTo(s) \cup {t}) = Cardinality(upTo(s)) + 1
    BY <1>2, <2>1, FS_AddElement
  <2>3. Cardinality(upTo(s) \cup {t}) <= Cardinality(upTo(t))
    BY <1>2, <2>1, FS_Subset
  <2> HIDE DEF upTo
  <2>4. rank[s] = Cardinality(upTo(s)) /\ rank[t] = Cardinality(upTo(t))
    OBVIOUS
  <2>5. rank[s] \in Nat /\ rank[t] \in Nat
    BY <1>1, <1>2
  <2> QED BY <2>2, <2>3, <2>4, <2>5
<1> HIDE DEF rank
<1>4. rank \in Injection(S, 1 .. n)
  <2>1. rank \in [S -> 1 .. n]
    BY <1>2 DEF rank
  <2>2. ASSUME NEW s \in S, NEW t \in S, rank[s] = rank[t] PROVE s = t
    <3>1. s \in Nat /\ t \in Nat
      OBVIOUS
    <3>1a. rank[s] \in Nat /\ rank[t] \in Nat
      <4>1. rank[s] \in 1 .. n /\ rank[t] \in 1 .. n
        BY <1>2
      <4> QED BY <1>1, <4>1
    <3>2. ~(s < t)
      BY <1>3, <2>2, <3>1, <3>1a
    <3>3. ~(t < s)
      BY <1>3, <2>2, <3>1, <3>1a
    <3> QED BY <3>1, <3>2, <3>3
  <2> QED BY <2>1, <2>2 DEF Injection, IsInjective
<1>5. rank \in Surjection(S, 1 .. n)
  <2>1. IsFiniteSet(1 .. n) /\ Cardinality(1 .. n) = n
    BY <1>1, FS_Interval
  <2> QED BY <1>4, <2>1, FS_Injection
<1>6. \A k \in 1 .. n : \E s \in S : rank[s] = k
  BY <1>5 DEF Surjection
<1> DEFINE f == [k \in 1 .. n |-> CHOOSE s \in S : rank[s] = k]
<1>7. \A k \in 1 .. n : f[k] \in S /\ rank[f[k]] = k
  BY <1>6
<1>8. f \in [1 .. n -> S]
  BY <1>7
<1> HIDE DEF f, n
<1>9. ASSUME NEW i \in 1 .. n, NEW j \in 1 .. n, i < j PROVE f[i] < f[j]
  <2>1. rank[f[i]] < rank[f[j]]
    BY <1>7, <1>9
  <2>2. f[i] \in Nat /\ f[j] \in Nat /\ f[i] # f[j]
    <3>1. f[i] \in S /\ f[j] \in S /\ rank[f[i]] = i /\ rank[f[j]] = j
      BY <1>7
    <3>2. i \in Nat /\ j \in Nat
      BY <1>1
    <3>3. f[i] \in Nat /\ f[j] \in Nat
      BY <3>1
    <3>4. i # j
      BY <1>9, <3>2
    <3> QED BY <3>1, <3>3, <3>4
  <2>3. ~(f[j] < f[i])
    <3> SUFFICES ASSUME f[j] < f[i] PROVE FALSE
      OBVIOUS
    <3>1. rank[f[j]] < rank[f[i]]
      BY <1>3, <1>7
    <3> QED BY <1>7, <1>9, <3>1
  <2> QED BY <2>2, <2>3
<1> QED BY <1>1, <1>8, <1>9 DEF n

\* There is one way only to write the first n numbers down in order.
LEMMA FirstInOrder ==
    ASSUME NEW n \in Nat, NEW f \in [1 .. n -> 1 .. n],
           \A i, j \in 1 .. n : i < j => f[i] < f[j],
           NEW k \in 1 .. n
    PROVE  f[k] = k
<1>1. ASSUME NEW i \in 1 .. n, NEW j \in 1 .. n, f[i] = f[j] PROVE i = j
  <2>1. f[i] \in Nat /\ ~(i < j) /\ ~(j < i)
    <3>1. f[i] \in 1 .. n /\ ~(f[i] < f[j]) /\ ~(f[j] < f[i])
      BY <1>1
    <3> QED BY <3>1
  <2> QED BY <2>1
<1>2. k <= f[k]
  <2> DEFINE g == [i \in 1 .. k |-> f[i]]
  <2>1. ASSUME NEW i \in 1 .. k PROVE g[i] \in 1 .. f[k]
    <3>1. i \in 1 .. n /\ f[i] \in 1 .. n /\ f[k] \in 1 .. n /\ (i = k \/ i < k)
      OBVIOUS
    <3>2. f[i] = f[k] \/ f[i] < f[k]
      BY <3>1
    <3> QED BY <3>1, <3>2
  <2>2. g \in Injection(1 .. k, 1 .. f[k])
    <3>1. g \in [1 .. k -> 1 .. f[k]]
      BY <2>1
    <3>2. ASSUME NEW i \in 1 .. k, NEW j \in 1 .. k, g[i] = g[j] PROVE i = j
      <4>1. i \in 1 .. n /\ j \in 1 .. n
        OBVIOUS
      <4> QED BY <1>1, <3>2, <4>1
    <3> HIDE DEF g
    <3> QED BY <3>1, <3>2 DEF Injection, IsInjective
  <2>3. IsFiniteSet(1 .. f[k]) /\ Cardinality(1 .. f[k]) = f[k] /\ Cardinality(1 .. k) = k
    BY FS_Interval
  <2> QED BY <2>2, <2>3, FS_Injection
<1>3. f[k] <= k
  <2> DEFINE g == [i \in k .. n |-> f[i]]
  <2>1. ASSUME NEW i \in k .. n PROVE g[i] \in f[k] .. n
    <3>1. i \in 1 .. n /\ f[i] \in 1 .. n /\ f[k] \in 1 .. n /\ (i = k \/ k < i)
      OBVIOUS
    <3>2. f[i] = f[k] \/ f[k] < f[i]
      BY <3>1
    <3> QED BY <3>1, <3>2
  <2>2. g \in Injection(k .. n, f[k] .. n)
    <3>1. g \in [k .. n -> f[k] .. n]
      BY <2>1
    <3>2. ASSUME NEW i \in k .. n, NEW j \in k .. n, g[i] = g[j] PROVE i = j
      <4>1. i \in 1 .. n /\ j \in 1 .. n
        OBVIOUS
      <4> QED BY <1>1, <3>2, <4>1
    <3> HIDE DEF g
    <3> QED BY <3>1, <3>2 DEF Injection, IsInjective
  <2>3. /\ IsFiniteSet(f[k] .. n) /\ Cardinality(f[k] .. n) = n - f[k] + 1
        /\ Cardinality(k .. n) = n - k + 1
    BY FS_Interval
  <2>4. n - k + 1 <= n - f[k] + 1
    BY <2>2, <2>3, FS_Injection
  <2> QED BY <2>4
<1> QED BY <1>2, <1>3

-----------------------------------------------------------------------------
(* The invariant.                                                          *)

Computing(s) == {c \in Clients : client[c] = "computing" /\ chosen[c] = s}

Servings ==
    /\ etcd \in [Servers -> Status \cup {NoEntry}]
    /\ server \in [Servers -> {"boot", "reporting", "sleeping", "down"}]
    /\ concurrentTasks \in [Servers -> Nat]
    /\ measured \in [Servers -> 0 .. Cardinality(Clients)]
    /\ rrIndex \in 0 .. NumServers
    /\ strategy \in Strategies
    /\ failures \in 0 .. MaxFailures
    /\ turns \in SUBSET Servers

Requests ==
    /\ client \in [Clients -> {"asking", "choosing", "calling", "computing", "done"}]
    /\ choices \in [Clients -> Seq(Servers)]
    /\ \A c \in Clients : /\ client[c] = "choosing" <=> choices[c] # <<>>
                          /\ Len(choices[c]) <= NumServers
    /\ chosen \in [Clients -> {0} \cup Servers]
    /\ \A c \in Clients : IF client[c] \in {"calling", "computing"}
                          THEN chosen[c] \in Servers ELSE chosen[c] = 0

\* A list of all servers is the one list of them in the order of their keys.
ListsAreOrdered ==
    \A c \in Clients :
        Len(choices[c]) = NumServers => \A k \in Servers : choices[c][k] = k

\* The servers from a to r, counting on from the last one to the first.
Arc(a, r) == {s \in Servers : IF a <= r THEN a <= s /\ s <= r ELSE a <= s \/ s <= r}

\* The servers given out by the present round are the last ones up to the index.
RoundIsArc ==
    turns # {} => /\ rrIndex \in Servers
                  /\ turns # Servers
                  /\ \E a \in Servers : turns = Arc(a, rrIndex)

BalancerInv ==
    Servings /\ Requests /\ TasksAreCounted /\ ListsAreOrdered /\ RoundIsArc
-----------------------------------------------------------------------------
(* What the balancer chooses.                                              *)

LEMMA Sizes ==
    /\ NumServers \in Nat /\ NumServers >= 1 /\ Cardinality(Clients) \in Nat
    /\ MaxFailures \in Nat /\ MaxConcurrentTasks \in Nat
BY LoadBalancerAssumption, FS_CardinalityType

LEMMA AvailableServers ==
    ASSUME Servings
    PROVE  /\ Available \subseteq Servers /\ Available \in SUBSET Nat
           /\ IsFiniteSet(Available)
           /\ Cardinality(Available) \in 0 .. NumServers
           /\ Cardinality(Available) = NumServers => Available = Servers
           /\ \A s \in Available : etcd[s].load \in Nat
<1>1. Available \subseteq Servers /\ Available \in SUBSET Nat
  BY DEF Available, Servers
<1>2. IsFiniteSet(Servers) /\ Cardinality(Servers) = NumServers
  BY Sizes, FS_Interval DEF Servers
<1>3. IsFiniteSet(Available) /\ Cardinality(Available) \in 0 .. NumServers
  <2>1. IsFiniteSet(Available) /\ Cardinality(Available) <= NumServers
    BY <1>1, <1>2, FS_Subset
  <2> QED BY <2>1, Sizes, FS_CardinalityType
<1>4. Cardinality(Available) = NumServers => Available = Servers
  BY <1>1, <1>2, FS_Subset
<1>5. ASSUME NEW s \in Available PROVE etcd[s].load \in Nat
  BY <1>5 DEF Servings, Available, Status, NoEntry
<1> QED BY <1>1, <1>3, <1>4, <1>5

\* GetBestServer finds every available server in the list, in the order of the
\* etcd keys.
LEMMA ListOfAvailable ==
    ASSUME Servings, Available # {}
    PROVE  /\ InKeyOrder(Available) \in Seq(Servers)
           /\ InKeyOrder(Available) # <<>> /\ Len(InKeyOrder(Available)) <= NumServers
           /\ InKeyOrder(Available)[1] \in Servers
           /\ Len(InKeyOrder(Available)) = NumServers =>
                 \A k \in Servers : InKeyOrder(Available)[k] = k
<1> DEFINE n == Cardinality(Available)
           f == InKeyOrder(Available)
<1>1. n \in Nat /\ n # 0
  BY AvailableServers, FS_EmptySet
<1>2. \E g \in [1 .. n -> Available] : \A i, j \in 1 .. n : i < j => g[i] < g[j]
  BY AvailableServers, InOrder
<1>3. f \in [1 .. n -> Available] /\ \A i, j \in 1 .. n : i < j => f[i] < f[j]
  BY <1>2 DEF InKeyOrder
<1> HIDE DEF n, f
<1>4. f \in [1 .. n -> Servers]
  BY <1>3, AvailableServers
<1>5. f \in Seq(Servers) /\ Len(f) = n
  BY <1>1, <1>4
<1>6. f # <<>> /\ f[1] \in Servers /\ Len(f) <= NumServers
  <2>1. n <= NumServers
    BY AvailableServers, Sizes DEF n
  <2> QED BY <1>1, <1>4, <1>5, <2>1
<1>7. ASSUME Len(f) = NumServers, NEW k \in Servers PROVE f[k] = k
  <2>1. Available = Servers /\ n = NumServers
    BY <1>5, <1>7, AvailableServers DEF n
  <2> QED BY <1>3, <2>1, Sizes, FirstInOrder DEF Servers
<1> QED BY <1>5, <1>6, <1>7 DEF f

LEMMA LeastLoadedIsServer ==
    ASSUME Servings, Available # {}
    PROVE  LeastLoaded \in Servers
<1> DEFINE load == [s \in Available |-> etcd[s].load]
<1>1. load \in [Available -> Nat]
  BY AvailableServers
<1>2. \E s \in Available : \A t \in Available :
          load[s] < load[t] \/ (load[s] = load[t] /\ s <= t)
  BY <1>1, AvailableServers, LeastByKey
<1>3. \E s \in Available : \A t \in Available :
          \/ etcd[s].load < etcd[t].load
          \/ etcd[s].load = etcd[t].load /\ s <= t
  BY <1>2
<1>4. LeastLoaded \in Available
  BY <1>3 DEF LeastLoaded
<1> QED BY <1>4, AvailableServers

\* Index(n) % n is the place of the next server in a list of n, from 0.
LEMMA NextIndex ==
    ASSUME Servings, NEW n \in 1 .. NumServers
    PROVE  /\ Index(n) \in 0 .. n - 1 /\ Index(n) % n = Index(n)
<1>1. n \in Nat /\ n >= 1 /\ rrIndex \in Nat
  BY Sizes DEF Servings
<1>2. Index(n) \in 0 .. n - 1
  BY <1>1 DEF Index
<1>3. ASSUME NEW i \in 0 .. n - 1 PROVE i % n = i
  BY <1>1
<1> QED BY <1>2, <1>3

LEMMA Given ==
    ASSUME Servings, Requests, NEW c \in Clients, RoundRobin(c)
    PROVE  LET n == Len(choices[c])
               s == choices[c][Index(n) + 1]
           IN /\ n \in 1 .. NumServers
              /\ s \in Servers /\ rrIndex' = Index(n) + 1 /\ rrIndex' \in 1 .. n
              /\ client' = [client EXCEPT ![c] = "calling"]
              /\ chosen' = [chosen EXCEPT ![c] = s]
              /\ turns' = IF n < NumServers \/ turns \cup {s} = Servers THEN {}
                          ELSE turns \cup {s}
<1> DEFINE n == Len(choices[c])
           s == choices[c][Index(n) + 1]
<1>1. choices[c] \in Seq(Servers) /\ choices[c] # <<>> /\ n <= NumServers
  BY DEF Requests, RoundRobin
<1>2. n \in 1 .. NumServers
  BY <1>1, Sizes, EmptySeq
<1>3. Index(n) \in 0 .. n - 1 /\ Index(n) % n = Index(n)
  BY <1>2, NextIndex
<1>4. s \in Servers
  BY <1>1, <1>2, <1>3, Sizes
<1>5. /\ client' = [client EXCEPT ![c] = "calling"] /\ chosen' = [chosen EXCEPT ![c] = s]
      /\ rrIndex' = Index(n) + 1
      /\ turns' = IF n < NumServers \/ turns \cup {s} = Servers THEN {} ELSE turns \cup {s}
  BY <1>3 DEF RoundRobin, Send
<1>6. rrIndex' \in 1 .. n
  <2>1. n \in Nat /\ Index(n) \in 0 .. n - 1 /\ rrIndex' = Index(n) + 1
    BY <1>2, <1>3, <1>5, Sizes
  <2> HIDE DEF n
  <2> QED BY <2>1
<1> QED BY <1>2, <1>4, <1>5, <1>6

LEMMA ComputingIsFinite ==
    ASSUME NEW s
    PROVE  /\ IsFiniteSet(Computing(s)) /\ Cardinality(Computing(s)) \in 0 .. Cardinality(Clients)
<1>1. Computing(s) \subseteq Clients /\ IsFiniteSet(Clients)
  BY LoadBalancerAssumption DEF Computing
<1>2. IsFiniteSet(Computing(s)) /\ Cardinality(Computing(s)) <= Cardinality(Clients)
  BY <1>1, FS_Subset
<1>3. Cardinality(Computing(s)) \in Nat
  BY <1>2, FS_CardinalityType
<1> QED BY <1>2, <1>3, Sizes

LEMMA CountedIsBounded ==
    ASSUME TasksAreCounted, NEW s \in Servers
    PROVE  /\ concurrentTasks[s] \in 0 .. Cardinality(Clients)
           /\ concurrentTasks[s] = Cardinality(Computing(s))
BY ComputingIsFinite DEF TasksAreCounted, Computing

-----------------------------------------------------------------------------
(* Every step keeps the invariant.                                         *)

LEMMA ServingsStep ==
    ASSUME Servings, Requests, TasksAreCounted, [Next]_vars
    PROVE  Servings'
<1>1. ASSUME NEW s \in Servers, RegisterServer(s) PROVE Servings'
  <2>1. Registered \in Status
    BY DEF Registered, Status
  <2>2. etcd' \in [Servers -> Status \cup {NoEntry}] /\ failures' \in 0 .. MaxFailures
    BY <1>1, <2>1, Sizes DEF RegisterServer, Fail, Servings
  <2> QED BY <1>1, <2>2 DEF RegisterServer, Servings
<1>2. ASSUME NEW s \in Servers, Measure(s) PROVE Servings'
  BY <1>2, CountedIsBounded DEF Measure, Servings
<1>3. ASSUME NEW s \in Servers, ReportLoad(s) PROVE Servings'
  <2>1. Reported(measured[s]) \in Status
    BY Sizes DEF Servings, Reported, Status
  <2>2. etcd' \in [Servers -> Status \cup {NoEntry}] /\ failures' \in 0 .. MaxFailures
    BY <1>3, <2>1, Sizes DEF ReportLoad, Fail, Servings
  <2>3. measured' \in [Servers -> 0 .. Cardinality(Clients)]
    BY <1>3, Sizes DEF ReportLoad, Servings
  <2> QED BY <1>3, <2>2, <2>3 DEF ReportLoad, Servings
<1>4. ASSUME NEW s \in Servers, StartServer(s) PROVE Servings'
  BY <1>4 DEF StartServer, Servings
<1>5. ASSUME NEW c \in Clients, GetBestServer(c) PROVE Servings'
  BY <1>5 DEF GetBestServer, Servings
<1>6. ASSUME NEW c \in Clients, RoundRobin(c) PROVE Servings'
  <2> DEFINE n == Len(choices[c])
             t == choices[c][Index(n) + 1]
  <2>0. /\ n \in 1 .. NumServers /\ t \in Servers /\ rrIndex' \in 1 .. n
        /\ turns' = IF n < NumServers \/ turns \cup {t} = Servers THEN {} ELSE turns \cup {t}
    BY <1>6, Given
  <2> HIDE DEF n, t
  <2>1. rrIndex' \in 0 .. NumServers /\ turns' \in SUBSET Servers
    BY <2>0, Sizes DEF Servings
  <2> QED BY <1>6, <2>1 DEF RoundRobin, Servings
<1>7. ASSUME NEW c \in Clients, Compute(c) PROVE Servings'
  BY <1>7 DEF Compute, Servings, Requests
<1>8. ASSUME NEW c \in Clients, FinishCompute(c) PROVE Servings'
  <2>1. chosen[c] \in Servers /\ c \in Computing(chosen[c])
    BY <1>8 DEF FinishCompute, Requests, Computing
  <2>2. concurrentTasks[chosen[c]] \in Nat /\ concurrentTasks[chosen[c]] # 0
    BY <2>1, CountedIsBounded, ComputingIsFinite, Sizes, FS_EmptySet
  <2> QED BY <1>8, <2>1, <2>2 DEF FinishCompute, Servings
<1>9. ASSUME NEW c \in Clients, ComputeError(c) PROVE Servings'
  BY <1>9 DEF ComputeError, Servings
<1>10. ASSUME NEW c \in Clients, Stop(c) PROVE Servings'
  BY <1>10 DEF Stop, Servings
<1>11. ASSUME Expire PROVE Servings'
  BY <1>11 DEF Expire, Servings
<1>12. ASSUME CrashServers PROVE Servings'
  BY <1>12, Sizes DEF CrashServers, Fail, Servings
<1>13. ASSUME RestartBalancer PROVE Servings'
  BY <1>13, Sizes DEF RestartBalancer, Fail, Servings
<1>14. ASSUME UNCHANGED vars PROVE Servings'
  BY <1>14 DEF Servings, vars
<1> QED
  BY <1>1, <1>2, <1>3, <1>4, <1>5, <1>6, <1>7, <1>8, <1>9, <1>10, <1>11, <1>12, <1>13, <1>14 DEF
     Next

LEMMA RequestsStep ==
    ASSUME Servings, Requests, [Next]_vars
    PROVE  Requests'
<1>1. ASSUME NEW s \in Servers, RegisterServer(s) PROVE Requests'
  BY <1>1 DEF RegisterServer, Fail, Registered, Requests
<1>2. ASSUME NEW s \in Servers, Measure(s) PROVE Requests'
  BY <1>2 DEF Measure, Requests
<1>3. ASSUME NEW s \in Servers, ReportLoad(s) PROVE Requests'
  BY <1>3 DEF ReportLoad, Fail, Reported, Requests
<1>4. ASSUME NEW s \in Servers, StartServer(s) PROVE Requests'
  BY <1>4 DEF StartServer, Requests
<1>5. ASSUME NEW c \in Clients, GetBestServer(c) PROVE Requests'
  <2>1. Available # {} /\ client[c] = "asking" /\ choices[c] = <<>>
    BY <1>5 DEF GetBestServer, Requests
  <2>2. CASE \E s \in Servers : Send(c, s) /\ UNCHANGED choices
    BY <2>1, <2>2 DEF Send, Requests
  <2>3. CASE /\ client' = [client EXCEPT ![c] = "choosing"]
             /\ choices' = [choices EXCEPT ![c] = InKeyOrder(Available)]
             /\ UNCHANGED chosen
    BY <2>1, <2>3, ListOfAvailable DEF Requests
  <2> QED BY <1>5, <2>1, <2>2, <2>3, ListOfAvailable, LeastLoadedIsServer DEF GetBestServer
<1>6. ASSUME NEW c \in Clients, RoundRobin(c) PROVE Requests'
  <2>1. \E s \in Servers : /\ client' = [client EXCEPT ![c] = "calling"]
                          /\ chosen' = [chosen EXCEPT ![c] = s]
    BY <1>6, Given
  <2>2. choices' = [choices EXCEPT ![c] = <<>>]
    BY <1>6 DEF RoundRobin
  <2> QED BY <2>1, <2>2, Sizes DEF Requests
<1>7. ASSUME NEW c \in Clients, Compute(c) PROVE Requests'
  BY <1>7 DEF Compute, Requests
<1>8. ASSUME NEW c \in Clients, FinishCompute(c) PROVE Requests'
  BY <1>8 DEF FinishCompute, Requests
<1>9. ASSUME NEW c \in Clients, ComputeError(c) PROVE Requests'
  BY <1>9 DEF ComputeError, Requests
<1>10. ASSUME NEW c \in Clients, Stop(c) PROVE Requests'
  BY <1>10 DEF Stop, Requests
<1>11. ASSUME Expire PROVE Requests'
  BY <1>11 DEF Expire, Requests
<1>12. ASSUME CrashServers PROVE Requests'
  BY <1>12 DEF CrashServers, Fail, Requests
<1>13. ASSUME RestartBalancer PROVE Requests'
  BY <1>13, Sizes DEF RestartBalancer, Fail, Requests
<1>14. ASSUME UNCHANGED vars PROVE Requests'
  BY <1>14 DEF Requests, vars
<1> QED
  BY <1>1, <1>2, <1>3, <1>4, <1>5, <1>6, <1>7, <1>8, <1>9, <1>10, <1>11, <1>12, <1>13, <1>14 DEF
     Next

LEMMA TasksAreCountedStep ==
    ASSUME Servings, Requests, TasksAreCounted, [Next]_vars
    PROVE  TasksAreCounted'
<1> SUFFICES ASSUME NEW t \in Servers
             PROVE  concurrentTasks'[t] = Cardinality(Computing(t)')
  BY DEF TasksAreCounted, Computing
<1>0. concurrentTasks[t] = Cardinality(Computing(t))
  BY CountedIsBounded
<1> DEFINE goal == concurrentTasks'[t] = Cardinality(Computing(t)')
<1>1. ASSUME NEW s \in Servers, RegisterServer(s) PROVE goal
  <2>1. Computing(t)' = Computing(t) /\ UNCHANGED concurrentTasks
    BY <1>1 DEF RegisterServer, Fail, Registered, Computing, Requests
  <2> QED BY <1>0, <2>1
<1>2. ASSUME NEW s \in Servers, Measure(s) PROVE goal
  <2>1. Computing(t)' = Computing(t) /\ UNCHANGED concurrentTasks
    BY <1>2 DEF Measure, Computing, Requests
  <2> QED BY <1>0, <2>1
<1>3. ASSUME NEW s \in Servers, ReportLoad(s) PROVE goal
  <2>1. Computing(t)' = Computing(t) /\ UNCHANGED concurrentTasks
    BY <1>3 DEF ReportLoad, Fail, Reported, Computing, Requests
  <2> QED BY <1>0, <2>1
<1>4. ASSUME NEW s \in Servers, StartServer(s) PROVE goal
  <2>1. Computing(t)' = Computing(t) /\ UNCHANGED concurrentTasks
    BY <1>4 DEF StartServer, Computing, Requests
  <2> QED BY <1>0, <2>1
<1>5. ASSUME NEW c \in Clients, GetBestServer(c) PROVE goal
  <2>1. Computing(t)' = Computing(t) /\ UNCHANGED concurrentTasks
    BY <1>5 DEF GetBestServer, Send, Computing, Requests
  <2> QED BY <1>0, <2>1
<1>6. ASSUME NEW c \in Clients, RoundRobin(c) PROVE goal
  <2>1. Computing(t)' = Computing(t) /\ UNCHANGED concurrentTasks
    BY <1>6, Given DEF RoundRobin, Computing, Requests
  <2> QED BY <1>0, <2>1
<1>7. ASSUME NEW c \in Clients, Compute(c) PROVE goal
  <2>1. chosen[c] \in Servers /\ UNCHANGED chosen
        /\ client[c] = "calling" /\ client' = [client EXCEPT ![c] = "computing"]
        /\ concurrentTasks' = [concurrentTasks EXCEPT ![chosen[c]] = @ + 1]
    BY <1>7 DEF Compute, Requests
  <2>2. CASE chosen[c] = t
    <3>1. Computing(t)' = Computing(t) \cup {c} /\ c \notin Computing(t)
      BY <2>1, <2>2 DEF Computing, Requests
    <3>2. Cardinality(Computing(t)') = Cardinality(Computing(t)) + 1
      BY <3>1, ComputingIsFinite, FS_AddElement
    <3> QED BY <1>0, <2>1, <2>2, <3>2 DEF Servings
  <2>3. CASE chosen[c] # t
    <3>1. Computing(t)' = Computing(t)
      BY <2>1, <2>3 DEF Computing, Requests
    <3> QED BY <1>0, <2>1, <2>3, <3>1 DEF Servings
  <2> QED BY <2>2, <2>3
<1>8. ASSUME NEW c \in Clients, FinishCompute(c) PROVE goal
  <2>1. /\ chosen[c] \in Servers /\ client[c] = "computing"
        /\ client' = [client EXCEPT ![c] = "asking"] /\ chosen' = [chosen EXCEPT ![c] = 0]
        /\ concurrentTasks' = [concurrentTasks EXCEPT ![chosen[c]] = @ - 1]
    BY <1>8 DEF FinishCompute, Requests
  <2>2. CASE chosen[c] = t
    <3>1. Computing(t)' = Computing(t) \ {c} /\ c \in Computing(t)
      BY <2>1, <2>2 DEF Computing, Requests
    <3>2. Cardinality(Computing(t)') = Cardinality(Computing(t)) - 1
      BY <3>1, ComputingIsFinite, FS_RemoveElement
    <3> QED BY <1>0, <2>1, <2>2, <3>2 DEF Servings
  <2>3. CASE chosen[c] # t
    <3>1. Computing(t)' = Computing(t)
      BY <2>1, <2>3 DEF Computing, Requests
    <3> QED BY <1>0, <2>1, <2>3, <3>1 DEF Servings
  <2> QED BY <2>2, <2>3
<1>9. ASSUME NEW c \in Clients, ComputeError(c) PROVE goal
  <2>1. Computing(t)' = Computing(t) /\ UNCHANGED concurrentTasks
    BY <1>9 DEF ComputeError, Computing, Requests
  <2> QED BY <1>0, <2>1
<1>10. ASSUME NEW c \in Clients, Stop(c) PROVE goal
  <2>1. Computing(t)' = Computing(t) /\ UNCHANGED concurrentTasks
    BY <1>10 DEF Stop, Computing, Requests
  <2> QED BY <1>0, <2>1
<1>11. ASSUME Expire PROVE goal
  <2>1. Computing(t)' = Computing(t) /\ UNCHANGED concurrentTasks
    BY <1>11 DEF Expire, Computing, Requests
  <2> QED BY <1>0, <2>1
<1>12. ASSUME CrashServers PROVE goal
  <2>1. Computing(t)' = {} /\ concurrentTasks'[t] = 0
    BY <1>12 DEF CrashServers, Computing, Requests
  <2> QED BY <2>1, FS_EmptySet
<1>13. ASSUME RestartBalancer PROVE goal
  <2>1. Computing(t)' = Computing(t) /\ UNCHANGED concurrentTasks
    BY <1>13 DEF RestartBalancer, Fail, Computing, Requests
  <2> QED BY <1>0, <2>1
<1>14. ASSUME UNCHANGED vars PROVE goal
  BY <1>14, <1>0 DEF Computing, vars
<1> QED
  BY <1>1, <1>2, <1>3, <1>4, <1>5, <1>6, <1>7, <1>8, <1>9, <1>10, <1>11, <1>12, <1>13, <1>14 DEF
     Next

LEMMA ListsAreOrderedStep ==
    ASSUME Servings, Requests, ListsAreOrdered, [Next]_vars
    PROVE  ListsAreOrdered'
<1>1. ASSUME NEW s \in Servers, RegisterServer(s) PROVE ListsAreOrdered'
  BY <1>1 DEF RegisterServer, Fail, Registered, ListsAreOrdered
<1>2. ASSUME NEW s \in Servers, Measure(s) PROVE ListsAreOrdered'
  BY <1>2 DEF Measure, ListsAreOrdered
<1>3. ASSUME NEW s \in Servers, ReportLoad(s) PROVE ListsAreOrdered'
  BY <1>3 DEF ReportLoad, Fail, Reported, ListsAreOrdered
<1>4. ASSUME NEW s \in Servers, StartServer(s) PROVE ListsAreOrdered'
  BY <1>4 DEF StartServer, ListsAreOrdered
<1>5. ASSUME NEW c \in Clients, GetBestServer(c) PROVE ListsAreOrdered'
  <2>1. Available # {}
    BY <1>5 DEF GetBestServer
  <2>2. CASE choices' = choices
    BY <2>2 DEF ListsAreOrdered
  <2>3. CASE choices' = [choices EXCEPT ![c] = InKeyOrder(Available)]
    <3>1. choices'[c] = InKeyOrder(Available) /\ \A d \in Clients \ {c} : choices'[d] = choices[d]
      BY <2>3 DEF Requests
    <3> QED BY <2>1, <3>1, ListOfAvailable DEF ListsAreOrdered
  <2> QED BY <1>5, <2>2, <2>3 DEF GetBestServer
<1>6. ASSUME NEW c \in Clients, RoundRobin(c) PROVE ListsAreOrdered'
  BY <1>6, Sizes DEF RoundRobin, ListsAreOrdered, Requests
<1>7. ASSUME NEW c \in Clients, Compute(c) PROVE ListsAreOrdered'
  BY <1>7 DEF Compute, ListsAreOrdered
<1>8. ASSUME NEW c \in Clients, FinishCompute(c) PROVE ListsAreOrdered'
  BY <1>8 DEF FinishCompute, ListsAreOrdered
<1>9. ASSUME NEW c \in Clients, ComputeError(c) PROVE ListsAreOrdered'
  BY <1>9 DEF ComputeError, ListsAreOrdered
<1>10. ASSUME NEW c \in Clients, Stop(c) PROVE ListsAreOrdered'
  BY <1>10 DEF Stop, ListsAreOrdered
<1>11. ASSUME Expire PROVE ListsAreOrdered'
  BY <1>11 DEF Expire, ListsAreOrdered
<1>12. ASSUME CrashServers PROVE ListsAreOrdered'
  BY <1>12 DEF CrashServers, Fail, ListsAreOrdered
<1>13. ASSUME RestartBalancer PROVE ListsAreOrdered'
  BY <1>13, Sizes DEF RestartBalancer, Fail, ListsAreOrdered
<1>14. ASSUME UNCHANGED vars PROVE ListsAreOrdered'
  BY <1>14 DEF ListsAreOrdered, vars
<1> QED
  BY <1>1, <1>2, <1>3, <1>4, <1>5, <1>6, <1>7, <1>8, <1>9, <1>10, <1>11, <1>12, <1>13, <1>14 DEF
     Next

\* The server after the last one of an arc that does not cover all is not in it,
\* and makes it longer.
LEMMA ArcGrows ==
    ASSUME NEW a \in Servers, NEW r \in Servers, Arc(a, r) # Servers
    PROVE  LET s == IF r = NumServers THEN 1 ELSE r + 1
           IN s \in Servers /\ s \notin Arc(a, r)
              /\ (Arc(a, r) \cup {s} # Servers => Arc(a, r) \cup {s} = Arc(a, s))
<1> DEFINE s == IF r = NumServers THEN 1 ELSE r + 1
<1>1. /\ NumServers \in Nat /\ NumServers >= 1 /\ s \in Servers
      /\ a \in Nat /\ r \in Nat /\ s \in Nat /\ 1 <= a /\ a <= NumServers /\ r <= NumServers
  BY Sizes DEF Servers
<1>2. PICK m \in Servers : m \notin Arc(a, r)
  BY DEF Arc
<1>3. m \in Nat /\ 1 <= m /\ m <= NumServers /\ (IF a <= r THEN m < a \/ r < m ELSE r < m /\ m < a)
  BY <1>1, <1>2 DEF Arc, Servers
<1>4. s \notin Arc(a, r)
  BY <1>1, <1>3 DEF Arc
<1>5. ASSUME Arc(a, r) \cup {s} # Servers PROVE Arc(a, r) \cup {s} = Arc(a, s)
  <2>1. PICK q \in Servers : q \notin Arc(a, r) /\ q # s
    BY <1>1, <1>5 DEF Arc
  <2>2. q \in Nat /\ 1 <= q /\ q <= NumServers
        /\ (IF a <= r THEN q < a \/ r < q ELSE r < q /\ q < a)
    BY <1>1, <2>1 DEF Arc, Servers
  <2>3. ASSUME NEW x \in Servers PROVE x \in Arc(a, r) \cup {s} <=> x \in Arc(a, s)
    BY <1>1, <2>1, <2>2 DEF Arc, Servers
  <2> QED BY <1>1, <2>3 DEF Arc
<1> QED BY <1>1, <1>4, <1>5

LEMMA FirstOfRound ==
    ASSUME NEW s \in Servers
    PROVE  {s} = Arc(s, s)
BY Sizes DEF Arc, Servers

LEMMA FullListGives ==
    ASSUME Servings, Requests, ListsAreOrdered, RoundIsArc, NEW c \in Clients, RoundRobin(c),
           Len(choices[c]) = NumServers
    PROVE  /\ chosen'[c] = rrIndex' /\ rrIndex' \in Servers /\ rrIndex' \notin turns
           /\ turns' = IF turns \cup {rrIndex'} = Servers THEN {} ELSE turns \cup {rrIndex'}
           /\ turns # {} /\ turns \cup {rrIndex'} # Servers =>
                 \E a \in Servers : turns \cup {rrIndex'} = Arc(a, rrIndex')
<1>1. Index(NumServers) + 1 \in Servers /\ rrIndex' = Index(NumServers) + 1
  BY Given, Sizes DEF Servers
<1>2. choices[c][Index(NumServers) + 1] = Index(NumServers) + 1
  BY <1>1 DEF ListsAreOrdered
<1>3. chosen'[c] = rrIndex'
      /\ turns' = IF turns \cup {rrIndex'} = Servers THEN {} ELSE turns \cup {rrIndex'}
  <2> DEFINE n == Len(choices[c])
             t == choices[c][Index(n) + 1]
  <2>1. /\ chosen' = [chosen EXCEPT ![c] = t]
        /\ turns' = IF n < NumServers \/ turns \cup {t} = Servers THEN {} ELSE turns \cup {t}
    BY Given
  <2>2. t = rrIndex'
    BY <1>1, <1>2
  <2>3. chosen'[c] = t
    BY <2>1 DEF Requests
  <2>4. ~(n < NumServers)
    BY Sizes
  <2> HIDE DEF n, t
  <2> QED BY <2>1, <2>2, <2>3, <2>4
<1>4. CASE turns = {}
  BY <1>1, <1>3, <1>4
<1>5. CASE turns # {}
  <2>1. rrIndex' = IF rrIndex = NumServers THEN 1 ELSE rrIndex + 1
    BY <1>1, <1>5, Sizes DEF RoundIsArc, Index, Servers
  <2> QED BY <1>1, <1>3, <1>5, <2>1, ArcGrows DEF RoundIsArc
<1> QED BY <1>4, <1>5

LEMMA RoundIsArcStep ==
    ASSUME Servings, Requests, ListsAreOrdered, RoundIsArc, [Next]_vars
    PROVE  RoundIsArc'
<1>1. ASSUME NEW s \in Servers, RegisterServer(s) PROVE RoundIsArc'
  BY <1>1 DEF RegisterServer, Fail, Registered, RoundIsArc, Arc
<1>2. ASSUME NEW s \in Servers, Measure(s) PROVE RoundIsArc'
  BY <1>2 DEF Measure, RoundIsArc, Arc
<1>3. ASSUME NEW s \in Servers, ReportLoad(s) PROVE RoundIsArc'
  BY <1>3 DEF ReportLoad, Fail, Reported, RoundIsArc, Arc
<1>4. ASSUME NEW s \in Servers, StartServer(s) PROVE RoundIsArc'
  BY <1>4 DEF StartServer, RoundIsArc, Arc
<1>5. ASSUME NEW c \in Clients, GetBestServer(c) PROVE RoundIsArc'
  BY <1>5 DEF GetBestServer, RoundIsArc, Arc
<1>6. ASSUME NEW c \in Clients, RoundRobin(c) PROVE RoundIsArc'
  <2>1. CASE Len(choices[c]) = NumServers
    <3>1. /\ rrIndex' \in Servers
          /\ turns' = IF turns \cup {rrIndex'} = Servers THEN {} ELSE turns \cup {rrIndex'}
      BY <1>6, <2>1, FullListGives
    <3>2. CASE turns = {}
      BY <3>1, <3>2, FirstOfRound DEF RoundIsArc
    <3>3. CASE turns # {}
      <4>1. turns \cup {rrIndex'} # Servers =>
                \E a \in Servers : turns \cup {rrIndex'} = Arc(a, rrIndex')
        BY <1>6, <2>1, <3>3, FullListGives
      <4> QED BY <3>1, <3>3, <4>1 DEF RoundIsArc
    <3> QED BY <3>2, <3>3
  <2>2. CASE Len(choices[c]) # NumServers
    <3>1. turns' = {}
      BY <1>6, <2>2, Given, Sizes
    <3> QED BY <3>1 DEF RoundIsArc
  <2> QED BY <2>1, <2>2
<1>7. ASSUME NEW c \in Clients, Compute(c) PROVE RoundIsArc'
  BY <1>7 DEF Compute, RoundIsArc, Arc
<1>8. ASSUME NEW c \in Clients, FinishCompute(c) PROVE RoundIsArc'
  BY <1>8 DEF FinishCompute, RoundIsArc, Arc
<1>9. ASSUME NEW c \in Clients, ComputeError(c) PROVE RoundIsArc'
  BY <1>9 DEF ComputeError, RoundIsArc, Arc
<1>10. ASSUME NEW c \in Clients, Stop(c) PROVE RoundIsArc'
  BY <1>10 DEF Stop, RoundIsArc, Arc
<1>11. ASSUME Expire PROVE RoundIsArc'
  BY <1>11 DEF Expire, RoundIsArc, Arc
<1>12. ASSUME CrashServers PROVE RoundIsArc'
  BY <1>12 DEF CrashServers, Fail, RoundIsArc, Arc
<1>13. ASSUME RestartBalancer PROVE RoundIsArc'
  BY <1>13 DEF RestartBalancer, Fail, RoundIsArc, Arc
<1>14. ASSUME UNCHANGED vars PROVE RoundIsArc'
  BY <1>14 DEF RoundIsArc, Arc, vars
<1> QED
  BY <1>1, <1>2, <1>3, <1>4, <1>5, <1>6, <1>7, <1>8, <1>9, <1>10, <1>11, <1>12, <1>13, <1>14 DEF
     Next

-----------------------------------------------------------------------------
(* The theorems.                                                           *)

LEMMA BalancerInit == Init => BalancerInv
<1> SUFFICES ASSUME Init PROVE BalancerInv
  OBVIOUS
<1>1. Servings
  <2>1. etcd \in [Servers -> Status \cup {NoEntry}]
    BY DEF Init
  <2> QED BY <2>1, Sizes DEF Init, Servings
<1>2. Requests
  BY Sizes DEF Init, Requests
<1>3. TasksAreCounted
  BY FS_EmptySet DEF Init, TasksAreCounted
<1>4. ListsAreOrdered /\ RoundIsArc
  BY Sizes DEF Init, ListsAreOrdered, RoundIsArc
<1> QED BY <1>1, <1>2, <1>3, <1>4 DEF BalancerInv

\* What holds throughout: the types, the counters, and the arc of servers that the
\* present round of round robin has given out.
THEOREM BalancerInvariant == Spec => []BalancerInv
<1>1. BalancerInv /\ [Next]_vars => BalancerInv'
  BY ServingsStep, RequestsStep, TasksAreCountedStep, ListsAreOrderedStep, RoundIsArcStep DEF
     BalancerInv
<1> QED BY <1>1, BalancerInit, PTL DEF Spec

\* The index of round robin stays within the list, a request chooses from servers
\* there are, and no counter passes the number of clients (GetBestServer).
THEOREM BalancerTypes == Spec => []TypeOK
<1> DEFINE Flag == expired \in BOOLEAN
<1>1. Init => Flag
  BY DEF Init
<1>2. Flag /\ [Next]_vars => Flag'
  BY DEF Next, vars, RegisterServer, Measure, ReportLoad, StartServer, GetBestServer, RoundRobin,
     Compute, FinishCompute, ComputeError, Stop, Expire, CrashServers, RestartBalancer
<1>3. BalancerInv /\ Flag => TypeOK
  BY CountedIsBounded DEF BalancerInv, TypeOK, Servings, Requests
<1> QED BY <1>1, <1>2, <1>3, BalancerInvariant, PTL DEF Spec

\* The counter a server reports is the number of tasks it is computing
\* (Compute, simulateBackendServer).
THEOREM TasksCounted == Spec => []TasksAreCounted
<1>1. BalancerInv => TasksAreCounted
  BY DEF BalancerInv
<1> QED BY <1>1, BalancerInvariant, PTL

\* While every request finds all servers available, round robin gives out each server
\* once before it gives out any again (GetBestServer), for any number of both.
THEOREM RoundRobinGivesAll == Spec => RoundRobinIsFair
<1> DEFINE fair == \A c \in Clients : client[c] = "choosing" /\ client'[c] = "calling"
                       /\ Len(choices[c]) = NumServers => chosen'[c] \notin turns
<1>1. BalancerInv /\ [Next]_vars => [fair]_vars
  <2> SUFFICES ASSUME BalancerInv, Next, NEW b \in Clients,
                      client[b] = "choosing", client'[b] = "calling",
                      Len(choices[b]) = NumServers
               PROVE  chosen'[b] \notin turns
    OBVIOUS
  <2>0. client \in [Clients -> {"asking", "choosing", "calling", "computing", "done"}]
    BY DEF BalancerInv, Requests
  <2>1. RoundRobin(b)
    BY <2>0 DEF Next, RegisterServer, Measure, ReportLoad, StartServer, GetBestServer, Send,
       RoundRobin, Compute, FinishCompute, ComputeError, Stop, Expire, CrashServers,
       RestartBalancer
  <2> QED BY <2>1, FullListGives DEF BalancerInv
<1>2. [][fair]_vars => RoundRobinIsFair
  BY PTL DEF RoundRobinIsFair
<1> QED BY <1>1, <1>2, BalancerInvariant, PTL DEF Spec
=============================================================================
