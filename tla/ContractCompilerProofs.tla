------------------------ MODULE ContractCompilerProofs ------------------------
(***************************************************************************)
(* Proofs about the contract compiler, for every taxonomy and every input of *)
(* parsed contracts, of any length and any number of names.                  *)
(*                                                                         *)
(* What compile_contracts decides stage by stage, with counters, a heap and  *)
(* the sizes of sets, is compared with what the contracts mean.  Three facts *)
(* carry it: Kahn, what the topological sort knows after every pop, which    *)
(* makes its order the least topological one and its early end a cycle; the  *)
(* lemmas that turn the sizes _resolve_capabilities and _resolve_resources   *)
(* compare into pairs of provisions and claims; and StageInv, what every     *)
(* stage has ruled out before the next one runs.  Planned then says that an  *)
(* input has one plan, which renaming its resources does not change.         *)
(*                                                                         *)
(* Induction over the naturals is used once, as the least member of a set    *)
(* (LeastNat): the id the heap pops, the first place where two orders differ, *)
(* the first unmet requirement, the first member of a cycle the sort placed. *)
(***************************************************************************)
EXTENDS ContractCompiler, FiniteSetTheorems, WellFoundedInduction, TLAPS

-----------------------------------------------------------------------------
(* Facts about naturals, finite sets and functions. *)

(* Every set of naturals that has a member has a least one.                   *)
LEMMA LeastNat ==
  ASSUME NEW A, A \subseteq Nat, A # {}
  PROVE  \E n \in A : \A m \in A : n <= m
<1> DEFINE T == {0..n : n \in A}
           R == StrictSubsetOrdering(Nat)
<1>1. IsWellFoundedOn(R, FiniteSubsetsOf(Nat))
  BY FS_StrictSubsetOrderingWellFounded
<1>2. T \subseteq FiniteSubsetsOf(Nat)
  <2>1. ASSUME NEW n \in A PROVE 0..n \in SUBSET Nat /\ IsFiniteSet(0..n)
    BY <2>1, FS_Interval
  <2>2. QED
    BY <2>1 DEF FiniteSubsetsOf
<1>3. T # {}
  OBVIOUS
<1>4. PICK x \in T : \A y \in T : ~(<<y, x>> \in R)
  BY <1>1, <1>2, <1>3, WFMin
<1>5. PICK n \in A : x = 0..n
  OBVIOUS
<1>6. ASSUME NEW m \in A, ~(n <= m)
      PROVE  FALSE
  <2>1. n \in Nat /\ m \in Nat /\ m < n
    BY <1>6
  <2>2. 0..m \subseteq 0..n /\ 0..m # 0..n /\ 0..m \in T
    BY <2>1
  <2>3. 0..m \in SUBSET Nat /\ 0..n \in SUBSET Nat
    OBVIOUS
  <2>4. <<0..m, 0..n>> \in R
    BY <2>2, <2>3 DEF StrictSubsetOrdering
  <2>5. QED
    BY <1>4, <1>5, <2>2, <2>4
<1>7. QED
  BY <1>6

-----------------------------------------------------------------------------

OneToOne(f, S) == \A a, b \in S : f[a] = f[b] => a = b
Onto(f, S, T) == f \in [S -> T] /\ \A t \in T : \E s \in S : f[s] = t

(* A function onto a set, from a finite one: the set is finite and as large   *)
(* only if no two arguments have one value.                                   *)
LEMMA OntoFinite ==
  ASSUME NEW S, NEW T, IsFiniteSet(S), NEW f, Onto(f, S, T)
  PROVE  /\ IsFiniteSet(T) /\ Cardinality(T) \in Nat
         /\ Cardinality(T) <= Cardinality(S)
         /\ Cardinality(T) = Cardinality(S) <=> OneToOne(f, S)
<1>1. f \in Surjection(S, T)
  BY DEF Surjection, Onto
<1>2. f \in Injection(S, T) <=> OneToOne(f, S)
  BY DEF Injection, IsInjective, Onto, OneToOne
<1>3. QED
  BY <1>1, <1>2, FS_Surjection, FS_CardinalityType

(* An interval from 1 has as many members as its end says.                    *)
LEMMA IntervalSize ==
  ASSUME NEW n \in Nat
  PROVE  IsFiniteSet(1..n) /\ Cardinality(1..n) = n
<1>1. 1 \in Int /\ n \in Int
  OBVIOUS
<1>2. IsFiniteSet(1..n) /\ Cardinality(1..n) = IF 1 > n THEN 0 ELSE n - 1 + 1
  BY <1>1, FS_Interval
<1>3. QED
  BY <1>2

(* The same for the values of a sequence.                                      *)
LEMMA OntoSeq ==
  ASSUME NEW n \in Nat, NEW T, NEW f, Onto(f, 1..n, T)
  PROVE  /\ IsFiniteSet(T) /\ Cardinality(T) \in Nat /\ Cardinality(T) <= n
         /\ Cardinality(T) = n <=> OneToOne(f, 1..n)
  BY IntervalSize, OntoFinite

(* A finite set with two members has more than one, and conversely.            *)
LEMMA TwoMembers ==
  ASSUME NEW S, IsFiniteSet(S)
  PROVE  /\ Cardinality(S) > 1 <=> \E x, y \in S : x # y
         /\ Cardinality(S) = 1 <=> \E x : S = {x}
         /\ Cardinality(S) \in Nat
         /\ Cardinality(S) = 0 <=> S = {}
<1>1. /\ Cardinality(S) \in Nat /\ (Cardinality(S) = 0 <=> S = {})
      /\ (Cardinality(S) = 1 <=> \E x : S = {x})
  BY FS_CardinalityType, FS_EmptySet, FS_Singleton
<1>2. Cardinality(S) > 1 <=> S # {} /\ ~\E x : S = {x}
  <2>1. Cardinality(S) > 1 <=> Cardinality(S) # 0 /\ Cardinality(S) # 1
    BY <1>1
  <2>2. QED
    BY <1>1, <2>1, Zenon
<1>3. S # {} /\ (~\E x : S = {x}) <=> \E x, y \in S : x # y
  OBVIOUS
<1>4. QED
  BY <1>1, <1>2, <1>3

-----------------------------------------------------------------------------
(* The input: contracts as parse_contract leaves them, first as they were      *)
(* listed and then as the plan orders and renames them.                        *)
InputOK == input \in Seq(Contract) /\ \A i \in 1..Len(input) : Parsed(input[i])

(* What is known of every parsed input.                                       *)
LEMMA InputFacts ==
  ASSUME InputOK
  PROVE  /\ Len(input) \in Nat /\ DOMAIN input = 1..Len(input)
         /\ \A c \in Contracts : Parsed(c) /\ c \in Contract /\ c.id \in Ids /\ c.id \in Nat
         /\ Ids \subseteq Nat
         /\ IsFiniteSet(Contracts) /\ IsFiniteSet(Ids) /\ Cardinality(Ids) \in Nat
         /\ Cardinality(Ids) = Len(input) <=> ~Duplicated
<1>1. Len(input) \in Nat /\ DOMAIN input = 1..Len(input)
  BY DEF InputOK
<1>2. \A c \in Contracts : Parsed(c) /\ c \in Contract /\ c.id \in Ids /\ c.id \in Nat
  BY <1>1 DEF InputOK, Contracts, Ids, Contract, Parsed
<1>3. Ids \subseteq Nat
  BY <1>2 DEF Ids
<1>5. IsFiniteSet(Contracts)
  <2> DEFINE f == [i \in 1..Len(input) |-> input[i]]
  <2>1. Onto(f, 1..Len(input), Contracts)
    BY DEF Contracts, Onto
  <2> HIDE DEF f
  <2>2. QED
    BY <1>1, <2>1, OntoSeq
<1>6. /\ IsFiniteSet(Ids) /\ Cardinality(Ids) \in Nat
      /\ Cardinality(Ids) = Len(input) <=> ~Duplicated
  <2> DEFINE f == [i \in 1..Len(input) |-> input[i].id]
  <2>1. Onto(f, 1..Len(input), Ids)
    BY DEF Ids, Contracts, Onto
  <2>2. OneToOne(f, 1..Len(input)) <=> ~Duplicated
    BY DEF Duplicated, OneToOne
  <2> HIDE DEF f
  <2>3. QED
    BY <1>1, <2>1, <2>2, OntoSeq
<1>7. QED
  BY <1>1, <1>2, <1>3, <1>5, <1>6

(* Without duplicates an id names its contract.                               *)
LEMMA ByIdFacts ==
  ASSUME ~Duplicated
  PROVE  /\ \A c, d \in Contracts : c.id = d.id => c = d
         /\ \A c \in Contracts : ById(c.id) = c
         /\ \A e \in Ids : ById(e) \in Contracts /\ ById(e).id = e
<1>1. \A c, d \in Contracts : c.id = d.id => c = d
  BY DEF Duplicated, Contracts
<1>2. \A e \in Ids : ById(e) \in Contracts /\ ById(e).id = e
  BY DEF Ids, ById
<1>3. \A c \in Contracts : c.id \in Ids
  BY DEF Ids
<1>4. QED
  BY <1>1, <1>2, <1>3

-----------------------------------------------------------------------------
(* The topological sort of _order_contracts. *)

(* What the bindings make an extension wait for is what it depends on.        *)
DepsAre == \A e \in Ids : Dependencies(e) = {f \in Ids : DependsOn(e, f)}

(* The first n ids of the order.                                              *)
Placed(n) == {ordered[j] : j \in 1..n}

(* An id can come next when all it depends on is placed.                      *)
Free(n) == {e \in Ids : e \notin Placed(n) /\ Dependencies(e) \subseteq Placed(n)}

Kahn ==
  /\ ordered \in Seq(Ids)
  /\ OneToOne(ordered, 1..Len(ordered))
  /\ indegree = [e \in Ids |-> Cardinality(Dependencies(e) \ Placed(Len(ordered)))]
  /\ ready = Free(Len(ordered))
  /\ \A i \in 1..Len(ordered) : ordered[i] \in Free(i - 1)
  /\ \A i \in 1..Len(ordered) : \A e \in Free(i - 1) : ordered[i] <= e

(* Before the first pop nothing is placed.                                    *)
LEMMA KahnStarts ==
  ASSUME InputOK, ordered = << >>, ordered' = ordered, input' = input, DepsAre',
         indegree' = [e \in Ids |-> Cardinality(Dependencies(e)')],
         ready' = {e \in Ids : indegree'[e] = 0}
  PROVE  Kahn'
<1>1. Ids' = Ids
  BY DEF Ids, Contracts
<1>2. Len(ordered') = 0 /\ ordered' \in Seq(Ids) /\ Placed(0)' = {}
  BY DEF Placed
<1>3. \A e \in Ids : IsFiniteSet(Dependencies(e)')
  <2>1. IsFiniteSet(Ids)
    BY InputFacts
  <2>2. \A e \in Ids : Dependencies(e)' \subseteq Ids
    BY <1>1 DEF DepsAre
  <2>3. QED
    BY <2>1, <2>2, FS_Subset
<1>4. ready' = Free(0)'
  <2>1. \A e \in Ids : indegree'[e] = 0 <=> Dependencies(e)' = {}
    BY <1>3, FS_EmptySet
  <2>2. Free(0)' = {e \in Ids : Dependencies(e)' = {}}
    BY <1>1, <1>2 DEF Free
  <2>3. QED
    BY <2>1, <2>2
<1>5. indegree' = [e \in Ids' |-> Cardinality(Dependencies(e) \ Placed(0))']
  <2>1. \A e \in Ids : (Dependencies(e) \ Placed(0))' = Dependencies(e)'
    BY <1>2
  <2>2. QED
    BY <1>1, <2>1
<1>6. QED
  BY <1>1, <1>2, <1>4, <1>5 DEF Kahn, OneToOne

(* Every pop keeps what the sort knows.                                       *)
LEMMA KahnPops ==
  ASSUME InputOK, DepsAre, Kahn, Pop
  PROVE  Kahn' /\ DepsAre'
<1>a. PICK n : n = Len(ordered)
  OBVIOUS
<1>b. PICK e : e = HeapPop(ready)
  OBVIOUS
<1>0. /\ ordered \in Seq(Ids) /\ n \in Nat /\ Ids \subseteq Nat /\ IsFiniteSet(Ids)
      /\ \A i \in 1..n : ordered[i] \in Ids
  BY <1>a, InputFacts DEF Kahn
<1>1. e \in ready /\ \A f \in ready : e <= f
  <2>1. ready \subseteq Nat /\ ready # {}
    BY <1>0 DEF Kahn, Free, Pop
  <2>2. QED
    BY <1>b, <2>1, LeastNat DEF HeapPop
<1>2. e \in Ids /\ e \notin Placed(n) /\ Dependencies(e) \subseteq Placed(n)
  BY <1>a, <1>1 DEF Kahn, Free
<1> DEFINE dependents == {d \in Ids : e \in Dependencies(d)}
<1>3. /\ ordered' = Append(ordered, e)
      /\ indegree' = [d \in Ids |-> IF d \in dependents THEN indegree[d] - 1 ELSE indegree[d]]
      /\ ready' = (ready \ {e}) \cup {d \in dependents : indegree'[d] = 0}
      /\ UNCHANGED <<input, bindings>>
  BY <1>b DEF Pop
<1>4. /\ Ids' = Ids /\ \A d : Dependencies(d)' = Dependencies(d)
  BY <1>3 DEF Ids, Contracts, Dependencies
<1>5. DepsAre'
  <2>1. \A d, f : DependsOn(d, f)' = DependsOn(d, f)
    BY <1>3 DEF DependsOn, Meets, ById, Contracts
  <2>2. QED
    BY <1>4, <2>1 DEF DepsAre
<1>6. /\ ordered' \in Seq(Ids) /\ Len(ordered') = n + 1 /\ ordered'[n + 1] = e
      /\ \A i \in 1..n : ordered'[i] = ordered[i]
  BY <1>0, <1>a, <1>2, <1>3
<1>7. /\ \A i \in 0..n : Placed(i)' = Placed(i)
      /\ Placed(n + 1)' = Placed(n) \cup {e}
  <2>1. \A i \in 0..n : Placed(i)' = Placed(i)
    <3> TAKE i \in 0..n
    <3>1. \A j \in 1..i : j \in 1..n
      BY <1>0
    <3>2. \A j \in 1..i : ordered'[j] = ordered[j]
      BY <1>6, <3>1
    <3>3. QED
      BY <3>2 DEF Placed
  <2>2. Placed(n + 1)' = {ordered'[j] : j \in 1..(n + 1)}
    BY DEF Placed
  <2>3. \A x : x \in {ordered'[j] : j \in 1..(n + 1)} <=> x \in Placed(n) \/ x = e
    <3>1. \A j \in 1..(n + 1) : j \in 1..n \/ j = n + 1
      BY <1>0
    <3>2. n + 1 \in 1..(n + 1) /\ \A j \in 1..n : j \in 1..(n + 1)
      BY <1>0
    <3>3. QED
      BY <1>6, <3>1, <3>2 DEF Placed
  <2>4. QED
    BY <2>1, <2>2, <2>3
<1>8. \A i \in 0..n : Free(i)' = Free(i)
  BY <1>4, <1>7 DEF Free
<1>9. OneToOne(ordered', 1..(n + 1))
  <2>1. \A i \in 1..n : ordered[i] # e
    BY <1>2 DEF Placed
  <2>2. \A i \in 1..(n + 1) : i \in 1..n \/ i = n + 1
    BY <1>0
  <2>3. QED
    BY <1>a, <1>6, <2>1, <2>2 DEF Kahn, OneToOne
<1>10. \A d \in Ids : /\ IsFiniteSet(Dependencies(d) \ Placed(n))
                      /\ indegree[d] = Cardinality(Dependencies(d) \ Placed(n))
  <2>1. \A d \in Ids : Dependencies(d) \ Placed(n) \in SUBSET Ids
    BY DEF DepsAre
  <2>2. QED
    BY <1>0, <1>a, <2>1, FS_Subset DEF Kahn
<1>11. \A d \in Ids : indegree'[d] = Cardinality(Dependencies(d) \ (Placed(n) \cup {e}))
  <2> TAKE d \in Ids
  <2>1. Dependencies(d) \ (Placed(n) \cup {e}) = (Dependencies(d) \ Placed(n)) \ {e}
    OBVIOUS
  <2>2. Cardinality((Dependencies(d) \ Placed(n)) \ {e}) =
          IF e \in Dependencies(d) \ Placed(n) THEN Cardinality(Dependencies(d) \ Placed(n)) - 1
          ELSE Cardinality(Dependencies(d) \ Placed(n))
    BY <1>10, FS_RemoveElement
  <2>3. e \in Dependencies(d) \ Placed(n) <=> d \in dependents
    BY <1>2
  <2>4. QED
    BY <1>3, <1>10, <2>1, <2>2, <2>3
<1>12. indegree' = [d \in Ids |-> Cardinality(Dependencies(d) \ (Placed(n) \cup {e}))]
  BY <1>3, <1>11
<1>13. ready' = Free(n + 1)'
  <2>1. \A d \in Ids : indegree'[d] = 0 <=> Dependencies(d) \subseteq Placed(n) \cup {e}
    <3> TAKE d \in Ids
    <3>1. IsFiniteSet(Dependencies(d) \ (Placed(n) \cup {e}))
      <4>1. Dependencies(d) \ (Placed(n) \cup {e}) \in SUBSET (Dependencies(d) \ Placed(n))
        OBVIOUS
      <4>2. QED
        BY <1>10, <4>1, FS_Subset
    <3>2. indegree'[d] = 0 <=> Dependencies(d) \ (Placed(n) \cup {e}) = {}
      BY <1>11, <3>1, FS_EmptySet
    <3>3. QED
      BY <3>2
  <2>2. \A d \in Ids : d \in Placed(n) => Dependencies(d) \subseteq Placed(n)
    <3> SUFFICES ASSUME NEW j \in 1..n PROVE Dependencies(ordered[j]) \subseteq Placed(n)
      BY DEF Placed
    <3>1. Dependencies(ordered[j]) \subseteq Placed(j - 1)
      BY <1>a DEF Kahn, Free
    <3>2. Placed(j - 1) \subseteq Placed(n)
      BY <1>0 DEF Placed
    <3>3. QED
      BY <3>1, <3>2
  <2>3. e \notin Dependencies(e)
    BY <1>2 DEF DepsAre, DependsOn
  <2>4. Free(n + 1)' = {d \in Ids : /\ d \notin Placed(n) /\ d # e
                                    /\ Dependencies(d) \subseteq Placed(n) \cup {e}}
    BY <1>4, <1>7 DEF Free
  <2>5. ready = {d \in Ids : d \notin Placed(n) /\ Dependencies(d) \subseteq Placed(n)}
    BY <1>a DEF Kahn, Free
  <2>6. ASSUME NEW d \in Ids
        PROVE  d \in ready' <=> d \in Free(n + 1)'
    <3>1. CASE e \in Dependencies(d)
      <4>1. d \notin Placed(n) /\ d # e
        BY <1>2, <2>2, <2>3, <3>1
      <4>2. d \in ready' <=> Dependencies(d) \subseteq Placed(n) \cup {e}
        BY <1>2, <1>3, <2>1, <2>5, <3>1
      <4>3. QED
        BY <2>4, <4>1, <4>2
    <3>2. CASE e \notin Dependencies(d)
      BY <1>3, <2>4, <2>5, <3>2
    <3>3. QED
      BY <3>1, <3>2
  <2>7. ready' \subseteq Ids /\ Free(n + 1)' \subseteq Ids
    BY <1>3, <2>4, <2>5
  <2>8. QED
    BY <2>6, <2>7
<1>14. \A i \in 1..(n + 1) :
         ordered'[i] \in Free(i - 1)' /\ \A f \in Free(i - 1)' : ordered'[i] <= f
  <2> TAKE i \in 1..(n + 1)
  <2>1. CASE i \in 1..n
    <3>1. i - 1 \in 0..n
      BY <1>0, <2>1
    <3>2. QED
      BY <1>a, <1>6, <1>8, <2>1, <3>1 DEF Kahn
  <2>2. CASE i = n + 1
    <3>1. i - 1 = n /\ n \in 0..n
      BY <1>0, <2>2
    <3>2. QED
      BY <1>a, <1>1, <1>6, <1>8, <2>2, <3>1 DEF Kahn
  <2>3. QED
    BY <1>0, <2>1, <2>2
<1>15. QED
  <2>0. Placed(Len(ordered))' = Placed(n + 1)' /\ Free(Len(ordered))' = Free(n + 1)'
    BY <1>6 DEF Placed, Free
  <2>1. indegree' = [d \in Ids' |-> Cardinality(Dependencies(d) \ Placed(Len(ordered)))']
    BY <1>4, <1>7, <1>12, <2>0
  <2>2. QED
    BY <1>4, <1>5, <1>6, <1>9, <1>13, <1>14, <2>0, <2>1 DEF Kahn

(* The ids placed are as many as the order is long; when it is as long as     *)
(* there are ids, all are placed.                                             *)
LEMMA AllPlaced ==
  ASSUME InputOK, Kahn
  PROVE  /\ Placed(Len(ordered)) \subseteq Ids
         /\ Cardinality(Ids) = Len(ordered) <=> Placed(Len(ordered)) = Ids
<1>1. /\ Len(ordered) \in Nat /\ Placed(Len(ordered)) \subseteq Ids
      /\ OneToOne(ordered, 1..Len(ordered)) /\ ordered \in [1..Len(ordered) -> Ids]
  BY DEF Kahn, Placed
<1>2. Onto(ordered, 1..Len(ordered), Placed(Len(ordered)))
  BY <1>1 DEF Onto, Placed
<1>3. Cardinality(Placed(Len(ordered))) = Len(ordered)
  BY <1>1, <1>2, OntoSeq
<1>4. IsFiniteSet(Ids) /\ Placed(Len(ordered)) \in SUBSET Ids
  BY <1>1, InputFacts
<1>5. Cardinality(Ids) = Cardinality(Placed(Len(ordered))) => Ids = Placed(Len(ordered))
  BY <1>4, FS_Subset
<1>6. QED
  BY <1>1, <1>3, <1>5

(* The sort ends short of the input exactly when extensions wait for each     *)
(* other.                                                                     *)
LEMMA KahnEnds ==
  ASSUME InputOK, ~Duplicated, DepsAre, Kahn, ready = {}
  PROVE  Len(ordered) = Len(input) <=> ~Cyclic
<1>1. Cardinality(Ids) = Len(input)
  BY InputFacts
<1>2. Len(ordered) = Len(input) <=> Placed(Len(ordered)) = Ids
  BY <1>1, AllPlaced
<1>3. ASSUME Placed(Len(ordered)) # Ids PROVE Cyclic
  <2> DEFINE S == Ids \ Placed(Len(ordered))
  <2>1. S # {} /\ S \in SUBSET Ids
    BY <1>3, AllPlaced
  <2>2. ASSUME NEW e \in S PROVE \E f \in S : DependsOn(e, f)
    <3>1. ~(Dependencies(e) \subseteq Placed(Len(ordered)))
      BY <2>2 DEF Kahn, Free
    <3>2. QED
      BY <3>1 DEF DepsAre
  <2>3. QED
    BY <2>1, <2>2 DEF Cyclic
<1>4. ASSUME Placed(Len(ordered)) = Ids, Cyclic PROVE FALSE
  <2>1. PICK S \in SUBSET Ids : S # {} /\ \A e \in S : \E f \in S : DependsOn(e, f)
    BY <1>4 DEF Cyclic
  <2> DEFINE A == {i \in 1..Len(ordered) : ordered[i] \in S}
  <2>2. A # {} /\ A \subseteq Nat
    BY <1>4, <2>1 DEF Placed
  <2> HIDE DEF A
  <2>3. PICK i \in A : \A j \in A : i <= j
    BY <2>2, LeastNat
  <2>4. i \in 1..Len(ordered) /\ ordered[i] \in S
    BY DEF A
  <2>5. PICK f \in S : DependsOn(ordered[i], f)
    BY <2>1, <2>4
  <2>6. f \in Placed(i - 1)
    BY <2>1, <2>4, <2>5 DEF Kahn, Free, DepsAre
  <2>7. PICK j \in 1..(i - 1) : ordered[j] = f
    BY <2>6 DEF Placed
  <2>8. j \in 1..Len(ordered) /\ j < i
    BY <2>4, <2>7 DEF Kahn
  <2>9. j \in A
    BY <2>5, <2>7, <2>8 DEF A
  <2>10. QED
    BY <2>2, <2>3, <2>8, <2>9
<1>5. QED
  BY <1>2, <1>3, <1>4

(* A topological order of all ids reaches every id.                           *)
LEMMA TopologicalReaches ==
  ASSUME InputOK, NEW u, u \in [Positions -> Ids], Topological(u)
  PROVE  \A e \in Ids : \E i \in Positions : u[i] = e
<1>1. IsFiniteSet(Ids) /\ Cardinality(Ids) \in Nat
  BY InputFacts
<1>2. IsFiniteSet(Positions) /\ Cardinality(Positions) = Cardinality(Ids)
  BY <1>1, IntervalSize DEF Positions
<1>3. u \in Injection(Positions, Ids)
  BY DEF Injection, IsInjective, Topological
<1>4. u \in Surjection(Positions, Ids)
  BY <1>1, <1>2, <1>3, FS_Injection
<1>5. QED
  BY <1>4 DEF Surjection

(* When the sort has placed every id, its order is the least topological one: *)
(* where another topological order first differs, it places an id that was    *)
(* free too, and the sort took the least.                                     *)
LEMMA KahnIsLeast ==
  ASSUME InputOK, ~Duplicated, DepsAre, Kahn, Len(ordered) = Len(input)
  PROVE  Least(ordered)
<1>1. /\ Cardinality(Ids) = Len(input) /\ Positions = 1..Len(ordered) /\ Len(ordered) \in Nat
      /\ Placed(Len(ordered)) = Ids /\ Ids \subseteq Nat
  BY InputFacts, AllPlaced DEF Positions
<1>2. DOMAIN ordered = Positions /\ ordered \in [Positions -> Ids]
  BY <1>1 DEF Kahn
<1>3. ASSUME NEW i \in Positions, NEW j \in Positions, DependsOn(ordered[i], ordered[j])
      PROVE  j < i
  <2>0. ordered[i] \in Ids /\ ordered[j] \in Ids /\ ordered[i] \in Free(i - 1)
    BY <1>1, <1>2 DEF Kahn
  <2>a. ordered[j] \in Dependencies(ordered[i])
    BY <1>3, <2>0 DEF DepsAre
  <2>1. ordered[j] \in Placed(i - 1)
    BY <2>0, <2>a DEF Free
  <2>2. PICK k \in 1..(i - 1) : ordered[k] = ordered[j]
    BY <2>1 DEF Placed
  <2>3. k \in 1..Len(ordered) /\ k < i
    BY <1>1, <2>2
  <2>4. k = j
    BY <1>1, <2>2, <2>3 DEF Kahn, OneToOne
  <2>5. QED
    BY <2>3, <2>4
<1>4. Topological(ordered)
  BY <1>1, <1>3 DEF Topological, Kahn, OneToOne
<1>5. ASSUME NEW u \in [Positions -> Ids], Topological(u), u # ordered
      PROVE  \E i \in Positions : ordered[i] < u[i] /\ \A j \in 1..i-1 : ordered[j] = u[j]
  <2> DEFINE A == {i \in Positions : ordered[i] # u[i]}
  <2>1. A # {} /\ A \subseteq Nat
    BY <1>1, <1>2, <1>5
  <2> HIDE DEF A
  <2>2. PICK i \in A : \A j \in A : i <= j
    BY <2>1, LeastNat
  <2>3. i \in Positions /\ ordered[i] # u[i] /\ i \in Nat
    BY <1>1, <2>2 DEF A
  <2>4. \A j \in 1..i-1 : j \in Positions /\ ordered[j] = u[j]
    <3> TAKE j \in 1..i-1
    <3>1. j \in Positions /\ j < i /\ j \in Nat
      BY <1>1, <2>3
    <3>2. QED
      BY <2>2, <2>3, <3>1 DEF A
  <2>5. u[i] \notin Placed(i - 1)
    <3>1. \A j \in 1..i-1 : ordered[j] # u[i]
      <4> TAKE j \in 1..i-1
      <4>1. j # i
        BY <2>3
      <4>2. QED
        BY <1>5, <2>3, <2>4, <4>1 DEF Topological
    <3>2. QED
      BY <3>1 DEF Placed
  <2>6. Dependencies(u[i]) \subseteq Placed(i - 1)
    <3> SUFFICES ASSUME NEW f \in Dependencies(u[i]) PROVE f \in Placed(i - 1)
      OBVIOUS
    <3>1. f \in Ids /\ DependsOn(u[i], f)
      BY <2>3, <1>5 DEF DepsAre
    <3>2. PICK j \in Positions : u[j] = f
      BY <1>5, <3>1, TopologicalReaches
    <3>3. j < i
      BY <1>5, <2>3, <3>1, <3>2 DEF Topological
    <3>4. j \in 1..i-1
      BY <1>1, <2>3, <3>3
    <3>5. QED
      BY <2>4, <3>2, <3>4 DEF Placed
  <2>7. u[i] \in Free(i - 1)
    BY <1>5, <2>3, <2>5, <2>6 DEF Free
  <2>8. ordered[i] <= u[i]
    BY <1>1, <2>3, <2>7 DEF Kahn
  <2>9. ordered[i] \in Nat /\ u[i] \in Nat
    BY <1>1, <1>2, <1>5, <2>3
  <2>10. ordered[i] < u[i]
    BY <2>3, <2>8, <2>9
  <2>11. QED
    BY <2>3, <2>4, <2>10
<1>6. QED
  BY <1>2, <1>4, <1>5 DEF Least, LexLeq

(* There is one least order.                                                  *)
LEMMA LeastIsUnique ==
  ASSUME InputOK, NEW o \in Seq(Ids), NEW u \in Seq(Ids), Least(o), Least(u)
  PROVE  o = u
<1>0. Cardinality(Ids) \in Nat /\ Ids \subseteq Nat
  BY InputFacts
<1>1. o \in [Positions -> Ids] /\ u \in [Positions -> Ids]
  BY DEF Least
<1>2. LexLeq(o, u) /\ LexLeq(u, o)
  BY <1>1 DEF Least
<1>3. ASSUME o # u PROVE FALSE
  <2>1. PICK i \in Positions : o[i] < u[i] /\ \A j \in 1..i-1 : o[j] = u[j]
    BY <1>2, <1>3 DEF LexLeq
  <2>2. PICK k \in Positions : u[k] < o[k] /\ \A j \in 1..k-1 : u[j] = o[j]
    BY <1>2, <1>3 DEF LexLeq
  <2>3. i \in Nat /\ k \in Nat /\ 1 <= i /\ 1 <= k
    BY <1>0 DEF Positions
  <2>4. o[i] \in Nat /\ u[i] \in Nat /\ o[k] \in Nat /\ u[k] \in Nat
    BY <1>0, <1>1
  <2>5. CASE i = k
    BY <2>1, <2>2, <2>4, <2>5
  <2>6. CASE i < k
    BY <2>1, <2>2, <2>3, <2>4, <2>6
  <2>7. CASE k < i
    BY <2>1, <2>2, <2>3, <2>4, <2>7
  <2>8. QED
    BY <2>3, <2>5, <2>6, <2>7
<1>4. QED
  BY <1>3

-----------------------------------------------------------------------------
(* Capabilities: _resolve_capabilities against the definitions on contracts. *)

Asks(c, q) == [consumer |-> c.id, name |-> q.name, range |-> q.range]
Offers(c, p) == [provider |-> c.id, name |-> p.name, version |-> p.version]

(* The requirements and provisions are those of the contracts.                *)
LEMMA Listings ==
  /\ \A c \in Contracts : \A q \in c.requires : Asks(c, q) \in Requirements
  /\ \A r \in Requirements : \E c \in Contracts : \E q \in c.requires : r = Asks(c, q)
  /\ \A c \in Contracts : \A p \in c.provides : Offers(c, p) \in Provisions
  /\ \A s \in Provisions : \E c \in Contracts : \E p \in c.provides : s = Offers(c, p)
  BY DEF Requirements, Provisions, Asks, Offers

(* The lists name extensions of the input.                                    *)
LEMMA ListingTypes ==
  ASSUME InputOK
  PROVE  /\ \A r \in Requirements : r.consumer \in Ids /\ r.consumer \in Nat /\ r.name \in Nat
         /\ \A s \in Provisions : s.provider \in Ids
<1>1. \A c \in Contracts : c.id \in Ids /\ c.id \in Nat /\ c \in Contract
  BY InputFacts
<1>2. \A c \in Contracts : \A q \in c.requires : q.name \in Nat
  BY <1>1 DEF Contract, Need
<1>3. QED
  BY <1>1, <1>2, Listings DEF Asks, Offers

(* A requirement is met by those contracts whose provisions are compatible,   *)
(* each with one provision.                                                   *)
LEMMA CompatibleIs ==
  ASSUME InputOK, ~Duplicated, NEW r \in Requirements
  PROVE  /\ \A s \in Compatible(r) : s.provider \in Ids /\ Meets(ById(s.provider), r)
                                     /\ s.version \in r.range
         /\ \A f \in Contracts : Meets(f, r) => \E s \in Compatible(r) : s.provider = f.id
         /\ \A s, t \in Compatible(r) : s.provider = t.provider => s = t
         /\ Candidates(r) # {} <=> \E f \in Contracts : \E p \in f.provides : p.name = r.name
         /\ IsFiniteSet(Compatible(r))
<1>1. ASSUME NEW s \in Compatible(r)
      PROVE  \E f \in Contracts : \E p \in f.provides :
               s = Offers(f, p) /\ p.name = r.name /\ p.version \in r.range
  <2>1. s \in Provisions /\ s.name = r.name /\ s.version \in r.range
    BY <1>1 DEF Compatible, Candidates
  <2>2. PICK f, p : f \in Contracts /\ p \in f.provides /\ s = Offers(f, p)
    BY <2>1, Listings
  <2>3. QED
    BY <2>1, <2>2 DEF Offers
<1>2. \A s \in Compatible(r) : s.provider \in Ids /\ Meets(ById(s.provider), r)
                               /\ s.version \in r.range
  <2> TAKE s \in Compatible(r)
  <2>1. PICK f, p : f \in Contracts /\ p \in f.provides /\
          s = Offers(f, p) /\ p.name = r.name /\ p.version \in r.range
    BY <1>1
  <2>2. s.provider = f.id /\ s.version = p.version
    BY <2>1 DEF Offers
  <2>3. ById(f.id) = f /\ f.id \in Ids
    BY <2>1, ByIdFacts DEF Ids
  <2>4. QED
    BY <2>1, <2>2, <2>3 DEF Meets
<1>3. \A f \in Contracts : Meets(f, r) => \E s \in Compatible(r) : s.provider = f.id
  <2> SUFFICES ASSUME NEW f \in Contracts, Meets(f, r)
               PROVE  \E s \in Compatible(r) : s.provider = f.id
    OBVIOUS
  <2>1. PICK p \in f.provides : p.name = r.name /\ p.version \in r.range
    BY DEF Meets
  <2>2. Offers(f, p) \in Provisions
    BY Listings
  <2>3. Offers(f, p) \in Compatible(r) /\ Offers(f, p).provider = f.id
    BY <2>1, <2>2 DEF Compatible, Candidates, Offers
  <2>4. QED
    BY <2>3
<1>4. \A s, t \in Compatible(r) : s.provider = t.provider => s = t
  <2> SUFFICES ASSUME NEW s \in Compatible(r), NEW t \in Compatible(r), s.provider = t.provider
               PROVE  s = t
    OBVIOUS
  <2>1. PICK f, p : f \in Contracts /\ p \in f.provides /\ s = Offers(f, p) /\ p.name = r.name
    BY <1>1
  <2>2. PICK g, q : g \in Contracts /\ q \in g.provides /\ t = Offers(g, q) /\ q.name = r.name
    BY <1>1
  <2>3. f = g
    BY <2>1, <2>2, ByIdFacts DEF Offers
  <2>4. p = q
    <3>1. Parsed(f)
      BY <2>1, InputFacts
    <3>2. UniqueNames(f.provides)
      BY <3>1 DEF Parsed
    <3>3. QED
      BY <2>1, <2>2, <2>3, <3>2 DEF UniqueNames
  <2>5. QED
    BY <2>1, <2>2, <2>3, <2>4
<1>5. Candidates(r) # {} <=> \E f \in Contracts : \E p \in f.provides : p.name = r.name
  <2>1. ASSUME NEW s \in Candidates(r)
        PROVE  \E f \in Contracts : \E p \in f.provides : p.name = r.name
    <3>1. s \in Provisions /\ s.name = r.name
      BY <2>1 DEF Candidates
    <3>2. PICK f, p : f \in Contracts /\ p \in f.provides /\ s = Offers(f, p)
      BY <3>1, Listings
    <3>3. QED
      BY <3>1, <3>2 DEF Offers
  <2>2. ASSUME NEW f \in Contracts, NEW p \in f.provides, p.name = r.name
        PROVE  Candidates(r) # {}
    <3>1. Offers(f, p) \in Provisions /\ Offers(f, p).name = r.name
      BY <2>2, Listings DEF Offers
    <3>2. QED
      BY <3>1 DEF Candidates
  <2>3. QED
    BY <2>1, <2>2
<1>6. IsFiniteSet(Compatible(r))
  <2> DEFINE g == [s \in Compatible(r) |-> s.provider]
  <2>1. g \in Injection(Compatible(r), Ids)
    BY <1>2, <1>4 DEF Injection, IsInjective
  <2> HIDE DEF g
  <2>2. QED
    BY <2>1, InputFacts, FS_Injection
<1>7. QED
  BY <1>2, <1>3, <1>4, <1>5, <1>6

(* Resolution finds fault with the requirements that are unmet, and says why. *)
LEMMA BadIsUnmet ==
  ASSUME InputOK, ~Duplicated, NEW r \in Requirements
  PROVE  /\ Bad(r) <=> Unmet(r)
         /\ CodeOf(r) = UnmetCode(r)
<1>0. /\ \A s \in Compatible(r) : s.provider \in Ids /\ Meets(ById(s.provider), r)
      /\ \A f \in Contracts : Meets(f, r) => \E s \in Compatible(r) : s.provider = f.id
      /\ \A s, t \in Compatible(r) : s.provider = t.provider => s = t
      /\ Candidates(r) # {} <=> \E f \in Contracts : \E p \in f.provides : p.name = r.name
      /\ IsFiniteSet(Compatible(r))
  BY CompatibleIs
<1>a. /\ \A c \in Contracts : ById(c.id) = c
      /\ \A e \in Ids : ById(e) \in Contracts /\ ById(e).id = e
  BY ByIdFacts
<1>1. Compatible(r) # {} <=> \E f \in Contracts : Meets(f, r)
  BY <1>0, <1>a
<1>2. CodeOf(r) = UnmetCode(r)
  BY <1>0, <1>1 DEF CodeOf, UnmetCode
<1>3. Bad(r) <=> ~\E s : Compatible(r) = {s}
  BY <1>0, TwoMembers DEF Bad
<1>4. (\E s, t \in Compatible(r) : s # t) <=>
        \E f, g \in Contracts : f # g /\ Meets(f, r) /\ Meets(g, r)
  <2>1. ASSUME NEW s \in Compatible(r), NEW t \in Compatible(r), s # t
        PROVE  \E f, g \in Contracts : f # g /\ Meets(f, r) /\ Meets(g, r)
    <3>1. s.provider # t.provider
      BY <1>0, <2>1
    <3>2. ById(s.provider) # ById(t.provider)
      BY <1>0, <1>a, <3>1
    <3>3. QED
      BY <1>0, <1>a, <3>2
  <2>2. ASSUME NEW f \in Contracts, NEW g \in Contracts, f # g, Meets(f, r), Meets(g, r)
        PROVE  \E s, t \in Compatible(r) : s # t
    <3>1. f.id # g.id
      BY <1>a, <2>2
    <3>2. QED
      BY <1>0, <2>2, <3>1
  <2>3. QED
    BY <2>1, <2>2
<1>5. (~\E s : Compatible(r) = {s}) <=> Compatible(r) = {} \/ \E s, t \in Compatible(r) : s # t
  OBVIOUS
<1>6. QED
  BY <1>1, <1>2, <1>3, <1>4, <1>5 DEF Unmet

(* A contract's requirement is unmet as its entry in the list is.             *)
LEMMA UnmetAsks ==
  ASSUME NEW c \in Contracts, NEW q \in c.requires
  PROVE  Unmet(Asks(c, q)) = Unmet(q) /\ UnmetCode(Asks(c, q)) = UnmetCode(q)
<1>1. Asks(c, q).name = q.name /\ Asks(c, q).range = q.range
  BY DEF Asks
<1>2. \A f : Meets(f, Asks(c, q)) = Meets(f, q)
  BY <1>1 DEF Meets
<1>3. QED
  BY <1>1, <1>2 DEF Unmet, UnmetCode

(* Resolution rejects exactly the inputs with an unmet requirement.           *)
LEMMA UnmetFound ==
  ASSUME InputOK, ~Duplicated
  PROVE  (\E r \in Requirements : Bad(r)) <=> UnmetRequirements # {}
<1>1. ASSUME NEW r \in Requirements, Bad(r) PROVE UnmetRequirements # {}
  <2>1. PICK c, q : c \in Contracts /\ q \in c.requires /\ r = Asks(c, q)
    BY Listings
  <2>2. Unmet(q)
    BY <1>1, <2>1, BadIsUnmet, UnmetAsks
  <2>3. QED
    BY <2>1, <2>2 DEF UnmetRequirements
<1>2. ASSUME NEW q \in UnmetRequirements PROVE \E r \in Requirements : Bad(r)
  <2>1. PICK c \in Contracts : q \in c.requires
    BY DEF UnmetRequirements
  <2>2. Unmet(q)
    BY DEF UnmetRequirements
  <2>3. Asks(c, q) \in Requirements
    BY <2>1, Listings
  <2>4. Bad(Asks(c, q))
    BY <2>1, <2>2, <2>3, BadIsUnmet, UnmetAsks
  <2>5. QED
    BY <2>3, <2>4
<1>3. QED
  BY <1>1, <1>2

(* A consumer asks for a name once.                                           *)
LEMMA AsksOnce ==
  ASSUME InputOK, ~Duplicated, NEW r \in Requirements, NEW s \in Requirements,
         r.consumer = s.consumer, r.name = s.name
  PROVE  r = s
<1>1. PICK c, q : c \in Contracts /\ q \in c.requires /\ r = Asks(c, q)
  BY Listings
<1>2. PICK d, p : d \in Contracts /\ p \in d.requires /\ s = Asks(d, p)
  BY Listings
<1>3. c = d
  BY <1>1, <1>2, ByIdFacts DEF Asks
<1>4. UniqueNames(c.requires)
  BY <1>1, InputFacts DEF Parsed
<1>5. q = p
  BY <1>1, <1>2, <1>3, <1>4 DEF UniqueNames, Asks
<1>6. QED
  BY <1>1, <1>2, <1>3, <1>5

(* The first bad requirement is one of them.                                  *)
LEMMA FirstBadIsBad ==
  ASSUME InputOK, ~Duplicated, \E r \in Requirements : Bad(r)
  PROVE  FirstBad \in Requirements /\ Bad(FirstBad)
<1> DEFINE B == {r \in Requirements : Bad(r)}
           N == {r.consumer : r \in B}
<1>0. N # {} /\ N \subseteq Nat
  BY ListingTypes
<1>1. PICK n \in N : \A m \in N : n <= m
  BY <1>0, LeastNat
<1> DEFINE C == {r \in B : r.consumer = n}
           M == {r.name : r \in C}
<1>2. M # {} /\ M \subseteq Nat
  BY ListingTypes
<1>3. PICK m \in M : \A k \in M : m <= k
  BY <1>2, LeastNat
<1>4. PICK r \in C : r.name = m
  OBVIOUS
<1>5. ASSUME NEW s \in Requirements, Bad(s), s # r PROVE Before(r, s)
  <2>1. s.consumer \in N /\ r.consumer = n /\ r \in Requirements
    BY <1>5
  <2>2. n \in Nat /\ s.consumer \in Nat /\ n <= s.consumer /\ s.name \in Nat /\ m \in Nat
    BY <1>0, <1>1, <1>2, <2>1, ListingTypes
  <2>3. CASE s.consumer = n
    <3>1. s.name \in M
      BY <1>5, <2>3
    <3>2. m <= s.name
      BY <1>3, <3>1
    <3>3. m # s.name
      BY <1>4, <1>5, <2>1, <2>3, AsksOnce
    <3>4. QED
      BY <1>4, <2>1, <2>2, <2>3, <3>2, <3>3 DEF Before
  <2>4. CASE s.consumer # n
    BY <2>1, <2>2, <2>4 DEF Before
  <2>5. QED
    BY <2>3, <2>4
<1>6. r \in Requirements /\ Bad(r)
  OBVIOUS
<1>7. QED
  BY <1>5, <1>6 DEF FirstBad

(* The code a rejected resolution reports is that of an unmet requirement.    *)
LEMMA FirstBadCode ==
  ASSUME InputOK, ~Duplicated, \E r \in Requirements : Bad(r)
  PROVE  CodeOf(FirstBad) \in {UnmetCode(r) : r \in UnmetRequirements}
<1>1. FirstBad \in Requirements /\ Bad(FirstBad)
  BY FirstBadIsBad
<1>2. PICK c, q : c \in Contracts /\ q \in c.requires /\ FirstBad = Asks(c, q)
  BY <1>1, Listings
<1>3. Unmet(q) /\ CodeOf(FirstBad) = UnmetCode(q)
  BY <1>1, <1>2, BadIsUnmet, UnmetAsks
<1>4. QED
  BY <1>2, <1>3 DEF UnmetRequirements

(* What _resolve_capabilities returns.                                        *)
Bound == {Bind(r) : r \in Requirements}
Resolved == (\A r \in Requirements : ~Bad(r)) /\ bindings = Bound

(* A binding names the extension that alone meets the requirement.            *)
LEMMA BindIs ==
  ASSUME InputOK, ~Duplicated, NEW r \in Requirements, ~Bad(r)
  PROVE  /\ Bind(r).consumer = r.consumer /\ Bind(r).name = r.name
         /\ Bind(r).provider \in Ids /\ Meets(ById(Bind(r).provider), r)
         /\ Bind(r).version \in r.range
         /\ \A f \in Contracts : Meets(f, r) => f.id = Bind(r).provider
<1>1. PICK s : Compatible(r) = {s}
  BY CompatibleIs, TwoMembers DEF Bad
<1>2. (CHOOSE p \in Compatible(r) : TRUE) = s
  BY <1>1
<1>3. Bind(r) = [consumer |-> r.consumer, name |-> r.name, provider |-> s.provider,
                 version |-> s.version]
  BY <1>2 DEF Bind
<1>4. /\ s.provider \in Ids /\ Meets(ById(s.provider), r) /\ s.version \in r.range
      /\ \A f \in Contracts : Meets(f, r) => s.provider = f.id
  BY <1>1, CompatibleIs
<1>5. QED
  BY <1>3, <1>4

(* A binding is found for every requirement, and by consumer and name only    *)
(* one.                                                                       *)
LEMMA BoundIs ==
  ASSUME InputOK, ~Duplicated, Resolved
  PROVE  /\ \A c \in Contracts : \A q \in c.requires : \E b \in bindings :
              b = Bind(Asks(c, q)) /\ b.consumer = c.id /\ b.name = q.name
         /\ \A b \in bindings : \E c \in Contracts : \E q \in c.requires :
              b = Bind(Asks(c, q)) /\ b.consumer = c.id /\ b.name = q.name
<1>1. ASSUME NEW c \in Contracts, NEW q \in c.requires
      PROVE  /\ Bind(Asks(c, q)) \in bindings
             /\ Bind(Asks(c, q)).consumer = c.id /\ Bind(Asks(c, q)).name = q.name
  <2>1. Asks(c, q) \in Requirements /\ Asks(c, q).consumer = c.id /\ Asks(c, q).name = q.name
    BY <1>1, Listings DEF Asks
  <2>2. QED
    BY <2>1, BindIs DEF Resolved, Bound
<1>2. ASSUME NEW b \in bindings
      PROVE  \E c \in Contracts : \E q \in c.requires : b = Bind(Asks(c, q))
  BY Listings DEF Resolved, Bound
<1>3. QED
  BY <1>1, <1>2

(* The bindings make an extension wait for exactly what it depends on.        *)
LEMMA ResolvedDeps ==
  ASSUME InputOK, ~Duplicated, Resolved
  PROVE  DepsAre
<1> SUFFICES ASSUME NEW e \in Ids PROVE Dependencies(e) = {f \in Ids : DependsOn(e, f)}
  BY DEF DepsAre
<1>1. ById(e) \in Contracts /\ ById(e).id = e
  BY ByIdFacts
<1>2. ASSUME NEW f \in Dependencies(e) PROVE f \in Ids /\ DependsOn(e, f)
  <2>1. PICK b \in bindings : b.consumer = e /\ b.provider # e /\ f = b.provider
    BY <1>2 DEF Dependencies
  <2>2. PICK c, q : c \in Contracts /\ q \in c.requires /\ b = Bind(Asks(c, q)) /\ b.consumer = c.id
    BY BoundIs
  <2>3. c = ById(e)
    BY <1>1, <2>1, <2>2, ByIdFacts
  <2>4. Asks(c, q) \in Requirements
    BY <2>2, Listings
  <2>5. b.provider \in Ids /\ Meets(ById(b.provider), Asks(c, q))
    BY <2>2, <2>4, BindIs DEF Resolved
  <2>6. Meets(ById(f), q)
    BY <2>1, <2>5 DEF Meets, Asks
  <2>7. QED
    BY <2>1, <2>2, <2>3, <2>5, <2>6 DEF DependsOn
<1>3. ASSUME NEW f \in Ids, DependsOn(e, f) PROVE f \in Dependencies(e)
  <2>1. PICK q \in ById(e).requires : Meets(ById(f), q)
    BY <1>3 DEF DependsOn
  <2>2. PICK b \in bindings : b = Bind(Asks(ById(e), q)) /\ b.consumer = e
    BY <1>1, BoundIs
  <2>3. Asks(ById(e), q) \in Requirements
    BY <1>1, Listings
  <2>4. Meets(ById(f), Asks(ById(e), q))
    BY <2>1 DEF Meets, Asks
  <2>5. ById(f) \in Contracts /\ ById(f).id = f
    BY ByIdFacts
  <2>6. b.provider = f
    BY <2>2, <2>3, <2>4, <2>5, BindIs DEF Resolved
  <2>7. f # e
    BY <1>3 DEF DependsOn
  <2>8. QED
    BY <2>2, <2>6, <2>7 DEF Dependencies
<1>4. QED
  BY <1>2, <1>3

(* _bind_obligations *)
DutiesOf == UNION {{[id |-> c.id, obligation |-> o, provider |-> Provider(c, o)] :
                      o \in c.obligations} : c \in Contracts}

(* The bindings and duties of a resolved input are those the contracts mean.  *)
LEMMA ResolvedMeets ==
  ASSUME InputOK, ~Duplicated, Resolved, duties = DutiesOf
  PROVE  BindingsMeet
<1>1. ASSUME NEW c \in Contracts, NEW q \in c.requires
      PROVE  \E b \in bindings : /\ b.consumer = c.id /\ b.name = q.name
                                 /\ Meets(ById(b.provider), q) /\ b.version \in q.range
  <2>1. PICK b \in bindings : b = Bind(Asks(c, q)) /\ b.consumer = c.id /\ b.name = q.name
    BY <1>1, BoundIs
  <2>2. Asks(c, q) \in Requirements
    BY <1>1, Listings
  <2>3. Meets(ById(b.provider), Asks(c, q)) /\ b.version \in Asks(c, q).range
    BY <2>1, <2>2, BindIs DEF Resolved
  <2>4. Meets(ById(b.provider), q) /\ b.version \in q.range
    BY <2>3 DEF Meets, Asks
  <2>5. QED
    BY <2>1, <2>4
<1>2. ASSUME NEW d \in duties
      PROVE  \E p \in ById(d.provider).provides : p.name = d.obligation.capability
  <2>1. PICK c, o : /\ c \in Contracts /\ o \in c.obligations
                    /\ d = [id |-> c.id, obligation |-> o, provider |-> Provider(c, o)]
    BY <1>2 DEF DutiesOf
  <2>2. d.obligation = o /\ d.provider = Provider(c, o)
    BY <2>1
  <2>3. OfDeclared(c, o)
    BY <2>1, InputFacts DEF Parsed
  <2>4. CASE o.direction = "provides"
    <3>1. d.provider = c.id /\ ById(c.id) = c
      BY <2>1, <2>2, <2>4, ByIdFacts DEF Provider
    <3>2. QED
      BY <2>2, <2>3, <2>4, <3>1 DEF OfDeclared
  <2>5. CASE o.direction # "provides"
    <3>1. PICK q \in c.requires : q.name = o.capability
      BY <2>3, <2>5 DEF OfDeclared
    <3>2. \E b \in bindings : b.consumer = c.id /\ b.name = o.capability
      BY <2>1, <3>1, BoundIs
    <3>3. PICK b \in bindings : b.consumer = c.id /\ b.name = o.capability /\ d.provider = b.provider
      BY <2>2, <2>5, <3>2 DEF Provider
    <3>4. PICK k, r : k \in Contracts /\ r \in k.requires /\ b = Bind(Asks(k, r)) /\ b.name = r.name
      BY BoundIs
    <3>5. Asks(k, r) \in Requirements
      BY <3>4, Listings
    <3>6. Meets(ById(b.provider), Asks(k, r))
      BY <3>4, <3>5, BindIs DEF Resolved
    <3>7. QED
      BY <2>2, <3>3, <3>4, <3>6 DEF Meets, Asks
  <2>6. QED
    BY <2>4, <2>5
<1>3. QED
  BY <1>1, <1>2 DEF BindingsMeet

-----------------------------------------------------------------------------
(* Resources: _resolve_resources on the claims, and the claims' meaning. *)

(* What the claims of parsed contracts are known to satisfy.                  *)
ClaimsOK ==
  /\ IsFiniteSet(claims)
  /\ \A x \in claims : x.mode \in ResourceModes /\ (x.mode = "mediated" <=> x.mediator # None)

(* Two claims that exclude each other, and one whose mediator does not take   *)
(* part.                                                                      *)
ClaimsClash ==
  \E x, y \in claims :
    /\ x # y /\ x.name = y.name
    /\ \/ x.owner = y.owner
       \/ x.mode # y.mode \/ x.mediator # y.mediator \/ x.mode = "exclusive"
ClaimsUnattended ==
  \E x \in claims : x.mode = "mediated" /\
    ~\E y \in claims : y.owner = x.mediator /\ y.name = x.name

(* The sets _resolve_resources compares are finite.                           *)
LEMMA OnFinite ==
  ASSUME ClaimsOK, NEW n
  PROVE  /\ IsFiniteSet(On(n)) /\ IsFiniteSet(Mediators(n))
         /\ Cardinality(On(n)) # Cardinality(Owners(n)) <=>
              \E x, y \in On(n) : x # y /\ x.owner = y.owner
<1>1. IsFiniteSet(On(n))
  <2>1. On(n) \in SUBSET claims
    BY DEF On
  <2>2. QED
    BY <2>1, FS_Subset DEF ClaimsOK
<1>2. IsFiniteSet(Mediators(n))
  <2> DEFINE f == [x \in On(n) |-> x.mediator]
  <2>1. Onto(f, On(n), Mediators(n))
    BY DEF Onto, Mediators
  <2> HIDE DEF f
  <2>2. QED
    BY <1>1, <2>1, OntoFinite
<1>3. Cardinality(On(n)) # Cardinality(Owners(n)) <=>
        \E x, y \in On(n) : x # y /\ x.owner = y.owner
  <2> DEFINE f == [x \in On(n) |-> x.owner]
  <2>1. Onto(f, On(n), Owners(n))
    BY DEF Onto, Owners
  <2>2. OneToOne(f, On(n)) <=> ~\E x, y \in On(n) : x # y /\ x.owner = y.owner
    BY DEF OneToOne
  <2> HIDE DEF f
  <2>3. Cardinality(Owners(n)) = Cardinality(On(n)) <=> OneToOne(f, On(n))
    BY <1>1, <2>1, OntoFinite
  <2>4. QED
    BY <2>2, <2>3
<1>4. QED
  BY <1>1, <1>2, <1>3

(* The modes and mediators conflict exactly when two claims do.               *)
LEMMA ClashFound ==
  ASSUME ClaimsOK
  PROVE  (\E n \in Names : ModeError(n) \/ Inconsistent(n)) <=> ClaimsClash
<1>1. ASSUME NEW n \in Names, ModeError(n) \/ Inconsistent(n) PROVE ClaimsClash
  <2>0. /\ On(n) \subseteq claims /\ \A x \in On(n) : x.name = n
        /\ \A m \in Modes(n) : \E x \in On(n) : x.mode = m
        /\ \A m \in Mediators(n) : \E x \in On(n) : x.mediator = m
        /\ \A x \in On(n) : x.mode \in Modes(n) /\ x.mediator \in Mediators(n)
    BY DEF On, Modes, Mediators
  <2>1. CASE Cardinality(On(n)) # Cardinality(Owners(n))
    <3>1. PICK x \in On(n), y \in On(n) : x # y /\ x.owner = y.owner
      BY <2>1, OnFinite
    <3>2. QED
      BY <2>0, <3>1 DEF ClaimsClash
  <2>2. CASE Cardinality(On(n)) > 1 /\ Modes(n) \notin {{"shared-read"}, {"mediated"}}
    <3>1. PICK x \in On(n), y \in On(n) : x # y
      BY <2>2, OnFinite, TwoMembers
    <3>2. CASE x.mode # y.mode \/ x.mode = "exclusive"
      BY <2>0, <3>1, <3>2 DEF ClaimsClash
    <3>3. CASE x.mode = y.mode /\ x.mode # "exclusive"
      <4>1. x.mode \in {"shared-read", "mediated"}
        BY <2>0, <3>3 DEF ClaimsOK, ResourceModes
      <4>2. Modes(n) # {x.mode}
        BY <2>2, <4>1
      <4>3. PICK z \in On(n) : z.mode # x.mode
        BY <2>0, <4>2
      <4>4. QED
        BY <2>0, <4>3 DEF ClaimsClash
    <3>4. QED
      BY <3>2, <3>3
  <2>3. CASE Inconsistent(n)
    <3>1. ~\E m : Mediators(n) = {m}
      BY <2>3, OnFinite, TwoMembers DEF Inconsistent
    <3>2. Mediators(n) # {}
      BY <1>1 DEF Names, On, Mediators
    <3>3. PICK m \in Mediators(n), k \in Mediators(n) : m # k
      BY <3>1, <3>2
    <3>4. PICK x \in On(n), y \in On(n) : x.mediator = m /\ y.mediator = k
      BY <2>0, <3>3
    <3>5. QED
      BY <2>0, <3>3, <3>4 DEF ClaimsClash
  <2>4. QED
    BY <1>1, <2>1, <2>2, <2>3 DEF ModeError
<1>2. ASSUME ClaimsClash PROVE \E n \in Names : ModeError(n) \/ Inconsistent(n)
  <2>1. PICK x \in claims, y \in claims :
          /\ x # y /\ x.name = y.name
          /\ \/ x.owner = y.owner
             \/ x.mode # y.mode \/ x.mediator # y.mediator \/ x.mode = "exclusive"
    BY <1>2 DEF ClaimsClash
  <2> DEFINE n == x.name
  <2>2. n \in Names /\ x \in On(n) /\ y \in On(n)
    BY <2>1 DEF Names, On
  <2>3. /\ x.mode \in Modes(n) /\ y.mode \in Modes(n)
        /\ x.mediator \in Mediators(n) /\ y.mediator \in Mediators(n)
    BY <2>2 DEF Modes, Mediators
  <2> HIDE DEF n
  <2>4. Cardinality(On(n)) > 1
    BY <2>1, <2>2, OnFinite, TwoMembers
  <2>5. CASE x.owner = y.owner
    <3>1. ModeError(n)
      BY <2>1, <2>2, <2>5, OnFinite DEF ModeError
    <3>2. QED
      BY <2>2, <3>1
  <2>6. CASE x.mode # y.mode \/ x.mode = "exclusive"
    <3>1. Modes(n) \notin {{"shared-read"}, {"mediated"}}
      BY <2>3, <2>6
    <3>2. ModeError(n)
      BY <2>4, <3>1 DEF ModeError
    <3>3. QED
      BY <2>2, <3>2
  <2>7. CASE x.mediator # y.mediator /\ x.mode = y.mode /\ x.mode # "exclusive"
    <3>1. x.mode = "mediated"
      BY <2>7 DEF ClaimsOK, ResourceModes
    <3>2. CASE Modes(n) = {"mediated"}
      <4>1. ~\E m : Mediators(n) = {m}
        BY <2>3, <2>7
      <4>2. Cardinality(Mediators(n)) # 1
        BY <4>1, OnFinite, TwoMembers
      <4>3. QED
        BY <2>2, <3>2, <4>2 DEF Inconsistent
    <3>3. CASE Modes(n) # {"mediated"}
      <4>1. Modes(n) # {"shared-read"}
        BY <2>3, <3>1
      <4>2. ModeError(n)
        BY <2>4, <3>3, <4>1 DEF ModeError
      <4>3. QED
        BY <2>2, <4>2
    <3>4. QED
      BY <3>2, <3>3
  <2>8. QED
    BY <2>1, <2>5, <2>6, <2>7
<1>3. QED
  BY <1>1, <1>2

(* Claims that do not clash share their name's mode and mediator.             *)
LEMMA ClaimsAgree ==
  ASSUME ~ClaimsClash, NEW x \in claims
  PROVE  /\ x \in On(x.name) /\ x.name \in Names /\ x.owner \in Owners(x.name)
         /\ Modes(x.name) = {x.mode} /\ Mediators(x.name) = {x.mediator}
         /\ x.mode = "exclusive" => Owners(x.name) = {x.owner}
         /\ \A e : e \in Owners(x.name) <=> \E y \in claims : y.owner = e /\ y.name = x.name
<1>1. \A y \in On(x.name) : /\ y.mode = x.mode /\ y.mediator = x.mediator
                            /\ x.mode = "exclusive" => y = x
  BY DEF ClaimsClash, On
<1>2. x \in On(x.name) /\ x.name \in Names
  BY DEF On, Names
<1>3. Modes(x.name) = {x.mode} /\ Mediators(x.name) = {x.mediator} /\ x.owner \in Owners(x.name)
  BY <1>1, <1>2 DEF Modes, Mediators, Owners
<1>4. x.mode = "exclusive" => Owners(x.name) = {x.owner}
  BY <1>1, <1>2 DEF Owners
<1>5. \A e : e \in Owners(x.name) <=> \E y \in claims : y.owner = e /\ y.name = x.name
  BY DEF Owners, On
<1>6. QED
  BY <1>2, <1>3, <1>4, <1>5

(* A mediator is missing exactly when some claim names one that is.           *)
LEMMA UnattendedFound ==
  ASSUME ~ClaimsClash
  PROVE  (\E n \in Names : Unattended(n)) <=> ClaimsUnattended
<1>1. ASSUME NEW n \in Names, Unattended(n) PROVE ClaimsUnattended
  <2>1. PICK x \in claims : x.name = n
    BY <1>1 DEF Names
  <2>2. x.mode = "mediated" /\ x.mediator \notin Owners(n)
    BY <1>1, <2>1, ClaimsAgree DEF Unattended
  <2>3. QED
    BY <2>1, <2>2, ClaimsAgree DEF ClaimsUnattended
<1>2. ASSUME ClaimsUnattended PROVE \E n \in Names : Unattended(n)
  <2>1. PICK x \in claims : x.mode = "mediated" /\
          ~\E y \in claims : y.owner = x.mediator /\ y.name = x.name
    BY <1>2 DEF ClaimsUnattended
  <2>2. Unattended(x.name) /\ x.name \in Names
    BY <2>1, ClaimsAgree DEF Unattended
  <2>3. QED
    BY <2>2
<1>3. QED
  BY <1>1, <1>2

(* What _resolve_resources returns for claims that go together.               *)
OwnedAll == {Owned(n) : n \in Names}

(* Every claim is owned under its name, with its mode and its mediator.       *)
LEMMA OwnedIs ==
  ASSUME ~ClaimsClash, ~ClaimsUnattended
  PROVE  /\ \A x \in claims : \E o \in OwnedAll :
              /\ o.resource = x.name /\ x.owner \in o.owners /\ o.mode = x.mode
              /\ o.mode = "exclusive" => o.owners = {x.owner}
              /\ o.mode = "mediated" => o.mediator = x.mediator /\ o.mediator \in o.owners
         /\ \A o, u \in OwnedAll : o.resource = u.resource => o = u
<1>1. ASSUME NEW x \in claims
      PROVE  /\ Owned(x.name) \in OwnedAll
             /\ Owned(x.name).resource = x.name /\ Owned(x.name).mode = x.mode
             /\ Owned(x.name).owners = Owners(x.name) /\ Owned(x.name).mediator = x.mediator
  <2>1. Modes(x.name) = {x.mode} /\ Mediators(x.name) = {x.mediator} /\ x.name \in Names
    BY <1>1, ClaimsAgree
  <2>2. (CHOOSE m \in Modes(x.name) : TRUE) = x.mode /\ (CHOOSE m \in Mediators(x.name) : TRUE) = x.mediator
    BY <2>1
  <2>3. QED
    BY <2>1, <2>2 DEF Owned, OwnedAll
<1>2. ASSUME NEW x \in claims
      PROVE  \E o \in OwnedAll :
              /\ o.resource = x.name /\ x.owner \in o.owners /\ o.mode = x.mode
              /\ o.mode = "exclusive" => o.owners = {x.owner}
              /\ o.mode = "mediated" => o.mediator = x.mediator /\ o.mediator \in o.owners
  <2> DEFINE o == Owned(x.name)
  <2>1. /\ o \in OwnedAll /\ o.resource = x.name /\ o.mode = x.mode /\ o.owners = Owners(x.name)
        /\ o.mediator = x.mediator
    BY <1>1
  <2>2. x.mode = "mediated" => x.mediator \in Owners(x.name)
    BY <1>2, ClaimsAgree DEF ClaimsUnattended
  <2>3. x.owner \in Owners(x.name) /\ (x.mode = "exclusive" => Owners(x.name) = {x.owner})
    BY <1>2, ClaimsAgree
  <2> HIDE DEF o
  <2>4. QED
    BY <2>1, <2>2, <2>3
<1>3. \A o, u \in OwnedAll : o.resource = u.resource => o = u
  <2> SUFFICES ASSUME NEW n \in Names, NEW k \in Names, Owned(n).resource = Owned(k).resource
               PROVE  Owned(n) = Owned(k)
    BY DEF OwnedAll
  <2>1. Owned(n).resource = n /\ Owned(k).resource = k
    BY DEF Owned
  <2>2. QED
    BY <2>1
<1>4. QED
  BY <1>2, <1>3

(* The claims of an input, with their canonical names.                        *)
NormalClaim(a) ==
  [owner |-> a[1].id, declared |-> a[2].name, name |-> Canon(a[2].name), mode |-> a[2].mode,
   mediator |-> a[2].mediator]
NormalClaims == {NormalClaim(a) : a \in ClaimPairs}

(* The members of ClaimPairs are a contract and a resource of it.             *)
LEMMA PairsAre ==
  ASSUME InputOK
  PROVE  /\ \A a \in ClaimPairs : /\ a[1] \in Contracts /\ a[2] \in a[1].resources /\ a = <<a[1], a[2]>>
                                  /\ a[2] \in Resource
         /\ \A c \in Contracts : \A x \in c.resources : <<c, x>> \in ClaimPairs
<1>1. \A c \in Contracts : \A x \in c.resources : <<c, x>> \in ClaimPairs /\ x \in Resource
  BY InputFacts DEF ClaimPairs, Contract
<1>2. \A a \in ClaimPairs : \E c \in Contracts : \E x \in c.resources : a = <<c, x>>
  BY DEF ClaimPairs
<1>3. QED
  BY <1>1, <1>2

(* What _normalize_taxonomy_resources makes of the declared resources.        *)
LEMMA NormalizedIs ==
  ASSUME InputOK
  PROVE  /\ (\A x \in Declared : Known(x.name)) <=> \A a \in ClaimPairs : Known(a[2].name)
         /\ (\A x \in Declared : x.mode \in AllowedModes[Canonical[x.name]]) <=>
              \A a \in ClaimPairs : a[2].mode \in AllowedModes[Canonical[a[2].name]]
         /\ ~strict => Declared = NormalClaims
         /\ strict /\ (\A x \in Declared : Known(x.name)) =>
              {Normalized(x) : x \in Declared} = NormalClaims
<1>1. Declared = {Claim(a[1], a[2]) : a \in ClaimPairs}
  <2>1. \A y \in Declared : \E a \in ClaimPairs : y = Claim(a[1], a[2])
    <3> TAKE y \in Declared
    <3>1. PICK c, x : c \in Contracts /\ x \in c.resources /\ y = Claim(c, x)
      BY DEF Declared
    <3>2. <<c, x>> \in ClaimPairs
      BY <3>1, PairsAre
    <3>3. QED
      BY <3>1, <3>2
  <2>2. \A a \in ClaimPairs : Claim(a[1], a[2]) \in Declared
    BY PairsAre DEF Declared
  <2>3. QED
    BY <2>1, <2>2
<1>2. \A a : /\ Claim(a[1], a[2]).name = a[2].name /\ Claim(a[1], a[2]).mode = a[2].mode
             /\ Claim(a[1], a[2]).declared = a[2].name
  BY DEF Claim
<1>3. ASSUME ~strict PROVE Declared = NormalClaims
  <2>1. \A a : Claim(a[1], a[2]) = NormalClaim(a)
    BY <1>3 DEF Claim, NormalClaim, Canon
  <2>2. QED
    BY <1>1, <2>1 DEF NormalClaims
<1>4. ASSUME strict, \A x \in Declared : Known(x.name)
      PROVE  {Normalized(x) : x \in Declared} = NormalClaims
  <2>1. \A a \in ClaimPairs : Known(a[2].name)
    BY <1>1, <1>2, <1>4
  <2>2. \A a \in ClaimPairs : Normalized(Claim(a[1], a[2])) = NormalClaim(a)
    <3> TAKE a \in ClaimPairs
    <3>1. Canon(a[2].name) = Canonical[a[2].name]
      BY <1>4, <2>1 DEF Canon
    <3>2. QED
      BY <3>1 DEF Normalized, Claim, NormalClaim
  <2>3. {Normalized(x) : x \in Declared} = {Normalized(Claim(a[1], a[2])) : a \in ClaimPairs}
    BY <1>1
  <2>4. QED
    BY <2>2, <2>3 DEF NormalClaims
<1>5. /\ (\A x \in Declared : Known(x.name)) <=> \A a \in ClaimPairs : Known(a[2].name)
      /\ (\A x \in Declared : x.mode \in AllowedModes[Canonical[x.name]]) <=>
           \A a \in ClaimPairs : a[2].mode \in AllowedModes[Canonical[a[2].name]]
  <2>1. (\A x \in Declared : Known(x.name)) <=> \A a \in ClaimPairs : Known(a[2].name)
    BY <1>1, <1>2
  <2>2. ASSUME \A x \in Declared : x.mode \in AllowedModes[Canonical[x.name]],
               NEW a \in ClaimPairs
        PROVE  a[2].mode \in AllowedModes[Canonical[a[2].name]]
    <3>1. Claim(a[1], a[2]) \in Declared
      BY <1>1
    <3>2. QED
      BY <1>2, <2>2, <3>1
  <2>3. ASSUME \A a \in ClaimPairs : a[2].mode \in AllowedModes[Canonical[a[2].name]],
               NEW x \in Declared
        PROVE  x.mode \in AllowedModes[Canonical[x.name]]
    <3>1. PICK a \in ClaimPairs : x = Claim(a[1], a[2])
      BY <1>1
    <3>2. QED
      BY <1>2, <2>3, <3>1
  <2>4. QED
    BY <2>1, <2>2, <2>3
<1>6. QED
  BY <1>3, <1>4, <1>5

(* The claims of parsed contracts are finite, and their modes are known.      *)
LEMMA NormalClaimsOK ==
  ASSUME InputOK, claims = NormalClaims
  PROVE  ClaimsOK
<1>1. \A x \in claims : x.mode \in ResourceModes /\ (x.mode = "mediated" <=> x.mediator # None)
  <2> SUFFICES ASSUME NEW a \in ClaimPairs
               PROVE  a[2].mode \in ResourceModes /\ (a[2].mode = "mediated" <=> a[2].mediator # None)
    BY DEF NormalClaims, NormalClaim
  <2>1. a[1] \in Contracts /\ a[2] \in a[1].resources /\ a[2] \in Resource
    BY PairsAre
  <2>2. QED
    BY <2>1, InputFacts DEF Resource, Parsed
<1>2. IsFiniteSet(claims)
  <2> DEFINE Of(c) == {NormalClaim(<<c, x>>) : x \in c.resources}
             Family == {Of(c) : c \in Contracts}
  <2>1. claims = UNION Family
    <3>1. \A a \in ClaimPairs : NormalClaim(a) \in UNION Family
      <4> TAKE a \in ClaimPairs
      <4>1. a[1] \in Contracts /\ a[2] \in a[1].resources /\ a = <<a[1], a[2]>>
        BY PairsAre
      <4>2. NormalClaim(a) \in Of(a[1])
        BY <4>1
      <4>3. QED
        BY <4>1, <4>2
    <3>2. \A c \in Contracts : Of(c) \subseteq NormalClaims
      BY PairsAre DEF NormalClaims
    <3>3. QED
      BY <3>1, <3>2 DEF NormalClaims
  <2>2. IsFiniteSet(Contracts)
    BY InputFacts
  <2>3. \A c \in Contracts : IsFiniteSet(Of(c))
    <3> TAKE c \in Contracts
    <3> DEFINE f == [x \in c.resources |-> NormalClaim(<<c, x>>)]
    <3>1. Onto(f, c.resources, Of(c))
      BY DEF Onto
    <3>2. IsFiniteSet(c.resources)
      BY InputFacts DEF Parsed
    <3> HIDE DEF f, Of
    <3>3. QED
      BY <3>1, <3>2, OntoFinite
  <2>4. IsFiniteSet(Family)
    <3> DEFINE f == [c \in Contracts |-> Of(c)]
    <3>1. Onto(f, Contracts, Family)
      BY DEF Onto
    <3> HIDE DEF f, Family
    <3>2. QED
      BY <2>2, <3>1, OntoFinite
  <2>5. \A T \in Family : IsFiniteSet(T)
    BY <2>3
  <2> HIDE DEF Family
  <2>6. QED
    BY <2>1, <2>4, <2>5, FS_UNION
<1>3. QED
  BY <1>1, <1>2 DEF ClaimsOK

(* Distinct pairs make distinct claims.                                       *)
LEMMA ClaimsDistinct ==
  ASSUME InputOK, ~Duplicated, NEW a \in ClaimPairs, NEW b \in ClaimPairs
  PROVE  /\ NormalClaim(a) = NormalClaim(b) <=> a = b
         /\ NormalClaim(a).owner = NormalClaim(b).owner <=> a[1] = b[1]
<1>1. /\ a[1] \in Contracts /\ a[2] \in a[1].resources /\ a = <<a[1], a[2]>>
      /\ b[1] \in Contracts /\ b[2] \in b[1].resources /\ b = <<b[1], b[2]>>
  BY PairsAre
<1>2. /\ NormalClaim(a).owner = a[1].id /\ NormalClaim(b).owner = b[1].id
      /\ NormalClaim(a).declared = a[2].name /\ NormalClaim(b).declared = b[2].name
  BY DEF NormalClaim
<1>3. a[1].id = b[1].id <=> a[1] = b[1]
  BY <1>1, ByIdFacts
<1>4. UniqueNames(a[1].resources)
  BY <1>1, InputFacts DEF Parsed
<1>5. a[1] = b[1] /\ a[2].name = b[2].name => a = b
  BY <1>1, <1>4 DEF UniqueNames
<1>6. QED
  BY <1>2, <1>3, <1>5

(* The claims clash, or lack a mediator, exactly when the contracts do.       *)
LEMMA ClashIs ==
  ASSUME InputOK, ~Duplicated, claims = NormalClaims
  PROVE  (ClaimsClash <=> Clash) /\ (ClaimsUnattended <=> NoMediator)
<1>1. \A a : /\ NormalClaim(a).name = Canon(a[2].name) /\ NormalClaim(a).mode = a[2].mode
             /\ NormalClaim(a).mediator = a[2].mediator /\ NormalClaim(a).owner = a[1].id
  BY DEF NormalClaim
<1>2. /\ \A x \in claims : \E a \in ClaimPairs : x = NormalClaim(a)
      /\ \A a \in ClaimPairs : NormalClaim(a) \in claims
  BY DEF NormalClaims
<1>3. ASSUME ClaimsClash PROVE Clash
  <2>1. PICK x \in claims, y \in claims :
          /\ x # y /\ x.name = y.name
          /\ \/ x.owner = y.owner
             \/ x.mode # y.mode \/ x.mediator # y.mediator \/ x.mode = "exclusive"
    BY <1>3 DEF ClaimsClash
  <2>2. PICK a \in ClaimPairs, b \in ClaimPairs : x = NormalClaim(a) /\ y = NormalClaim(b)
    BY <1>2
  <2>3. a # b /\ (x.owner = y.owner <=> a[1] = b[1])
    BY <2>1, <2>2, ClaimsDistinct
  <2>4. Canon(a[2].name) = Canon(b[2].name)
    BY <1>1, <2>1, <2>2
  <2>5. a[1] = b[1] \/ a[2].mode # b[2].mode \/ a[2].mediator # b[2].mediator \/ a[2].mode = "exclusive"
    BY <1>1, <2>1, <2>2, <2>3
  <2>6. QED
    BY <2>3, <2>4, <2>5 DEF Clash
<1>4. ASSUME Clash PROVE ClaimsClash
  <2>1. PICK a \in ClaimPairs, b \in ClaimPairs :
          /\ a # b /\ Canon(a[2].name) = Canon(b[2].name)
          /\ \/ a[1] = b[1]
             \/ a[2].mode # b[2].mode \/ a[2].mediator # b[2].mediator \/ a[2].mode = "exclusive"
    BY <1>4 DEF Clash
  <2>2. /\ NormalClaim(a) # NormalClaim(b)
        /\ NormalClaim(a).owner = NormalClaim(b).owner <=> a[1] = b[1]
    BY <2>1, ClaimsDistinct
  <2>3. PICK x \in claims, y \in claims : x = NormalClaim(a) /\ y = NormalClaim(b)
    BY <1>2
  <2>4. x # y /\ (x.owner = y.owner <=> a[1] = b[1])
    BY <2>2, <2>3
  <2>5. /\ x.name = y.name /\ x.mode = a[2].mode /\ y.mode = b[2].mode
        /\ x.mediator = a[2].mediator /\ y.mediator = b[2].mediator
    BY <1>1, <2>1, <2>3
  <2>6. QED
    BY <2>1, <2>4, <2>5 DEF ClaimsClash
<1>5. ASSUME ClaimsUnattended PROVE NoMediator
  <2>1. PICK x \in claims : x.mode = "mediated" /\
          ~\E y \in claims : y.owner = x.mediator /\ y.name = x.name
    BY <1>5 DEF ClaimsUnattended
  <2>2. PICK a \in ClaimPairs : x = NormalClaim(a)
    BY <1>2
  <2>3. ~\E b \in ClaimPairs : b[1].id = a[2].mediator /\ Canon(b[2].name) = Canon(a[2].name)
    BY <1>1, <1>2, <2>1, <2>2
  <2>4. QED
    BY <1>1, <2>1, <2>2, <2>3 DEF NoMediator
<1>6. ASSUME NoMediator PROVE ClaimsUnattended
  <2>1. PICK a \in ClaimPairs : a[2].mode = "mediated" /\
          ~\E b \in ClaimPairs : b[1].id = a[2].mediator /\ Canon(b[2].name) = Canon(a[2].name)
    BY <1>6 DEF NoMediator
  <2>2. ~\E y \in claims : y.owner = NormalClaim(a).mediator /\ y.name = NormalClaim(a).name
    BY <1>1, <1>2, <2>1
  <2>3. QED
    BY <1>1, <1>2, <2>1, <2>2 DEF ClaimsUnattended
<1>7. QED
  BY <1>3, <1>4, <1>5, <1>6

(* The owners recorded for claims that go together are those they mean.       *)
LEMMA OwnedMeets ==
  ASSUME InputOK, ~Duplicated, claims = NormalClaims, ~Clash, ~NoMediator, ownership = OwnedAll
  PROVE  OwnershipMeets
<1>1. ~ClaimsClash /\ ~ClaimsUnattended
  BY ClashIs
<1>2. ASSUME NEW a \in ClaimPairs
      PROVE  \E o \in ownership :
       /\ o.resource = Canon(a[2].name) /\ a[1].id \in o.owners /\ o.mode = a[2].mode
       /\ o.mode = "exclusive" => o.owners = {a[1].id}
       /\ o.mode = "mediated" => o.mediator = a[2].mediator /\ o.mediator \in o.owners
  <2>1. PICK x \in claims : x = NormalClaim(a)
    BY <1>2 DEF NormalClaims
  <2>2. /\ x.name = Canon(a[2].name) /\ x.mode = a[2].mode
        /\ x.mediator = a[2].mediator /\ x.owner = a[1].id
    BY <2>1 DEF NormalClaim
  <2>3. PICK o \in OwnedAll :
              /\ o.resource = x.name /\ x.owner \in o.owners /\ o.mode = x.mode
              /\ o.mode = "exclusive" => o.owners = {x.owner}
              /\ o.mode = "mediated" => o.mediator = x.mediator /\ o.mediator \in o.owners
    BY <1>1, OwnedIs
  <2>4. QED
    BY <2>2, <2>3
<1>3. \A o, u \in ownership : o.resource = u.resource => o = u
  BY <1>1, OwnedIs
<1>4. QED
  BY <1>2, <1>3 DEF OwnershipMeets

-----------------------------------------------------------------------------
(* The reference verdict, reason by reason. *)

NotGranted == \E c \in Contracts : \E o \in c.obligations : o \notin c.grants
Unknown == strict /\ \E a \in ClaimPairs : ~Known(a[2].name)
BadMode == strict /\ \E a \in ClaimPairs :
             Known(a[2].name) /\ a[2].mode \notin AllowedModes[Canonical[a[2].name]]

Holds(i) ==
  CASE i = 1 -> Len(input) = 0
    [] i = 2 -> Cardinality(Ids) # Len(input)
    [] i = 3 -> ~HostFits
    [] i = 4 -> Unknown
    [] i = 5 -> BadMode
    [] i = 6 -> NotGranted
    [] i = 7 -> UnmetRequirements # {}
    [] i = 8 -> Cyclic
    [] i = 9 -> Clash
    [] i = 10 -> NoMediator
    [] OTHER -> TRUE
Codes(i) ==
  CASE i = 1 -> {"INVALID_CONTRACT"}
    [] i = 2 -> {"DUPLICATE_PLUGIN"}
    [] i = 3 -> {"INCOMPATIBLE_HOST"}
    [] i = 4 -> {"UNKNOWN_RESOURCE"}
    [] i = 5 -> {"INVALID_RESOURCE_MODE"}
    [] i = 6 -> {"AUTHORITY_VIOLATION"}
    [] i = 7 -> {UnmetCode(r) : r \in UnmetRequirements}
    [] i = 8 -> {"DEPENDENCY_CYCLE"}
    [] i = 9 -> {"RESOURCE_CONFLICT"}
    [] i = 10 -> {"AUTHORITY_VIOLATION"}
    [] OTHER -> {Accepted}

(* The table of reasons, read entry by entry.                                 *)
LEMMA ReasonsAre ==
  /\ DOMAIN Reasons = 1..11
  /\ \A i \in 1..11 : (Reasons[i] # {} <=> Holds(i)) /\ (Holds(i) => Reasons[i] = Codes(i))
<1>1. DOMAIN Reasons = 1..11
  BY DEF Reasons
<1>h1. (Reasons[1] # {} <=> Holds(1)) /\ (Holds(1) => Reasons[1] = Codes(1))
  BY DEF Reasons, When, Holds, Codes
<1>h2. (Reasons[2] # {} <=> Holds(2)) /\ (Holds(2) => Reasons[2] = Codes(2))
  BY DEF Reasons, When, Holds, Codes
<1>h3. (Reasons[3] # {} <=> Holds(3)) /\ (Holds(3) => Reasons[3] = Codes(3))
  BY DEF Reasons, When, Holds, Codes, HostFits
<1>h4. (Reasons[4] # {} <=> Holds(4)) /\ (Holds(4) => Reasons[4] = Codes(4))
  BY DEF Reasons, When, Holds, Codes, Unknown
<1>h5. (Reasons[5] # {} <=> Holds(5)) /\ (Holds(5) => Reasons[5] = Codes(5))
  BY DEF Reasons, When, Holds, Codes, BadMode
<1>h6. (Reasons[6] # {} <=> Holds(6)) /\ (Holds(6) => Reasons[6] = Codes(6))
  BY DEF Reasons, When, Holds, Codes, NotGranted
<1>h7. (Reasons[7] # {} <=> Holds(7)) /\ (Holds(7) => Reasons[7] = Codes(7))
  BY DEF Reasons, When, Holds, Codes
<1>h8. (Reasons[8] # {} <=> Holds(8)) /\ (Holds(8) => Reasons[8] = Codes(8))
  BY DEF Reasons, When, Holds, Codes
<1>h9. (Reasons[9] # {} <=> Holds(9)) /\ (Holds(9) => Reasons[9] = Codes(9))
  BY DEF Reasons, When, Holds, Codes
<1>h10. (Reasons[10] # {} <=> Holds(10)) /\ (Holds(10) => Reasons[10] = Codes(10))
  BY DEF Reasons, When, Holds, Codes
<1>h11. (Reasons[11] # {} <=> Holds(11)) /\ (Holds(11) => Reasons[11] = Codes(11))
  BY DEF Reasons, When, Holds, Codes
<1>4. QED
  BY <1>1, <1>h1, <1>h2, <1>h3, <1>h4, <1>h5, <1>h6, <1>h7, <1>h8, <1>h9, <1>h10, <1>h11

(* The first reason that holds decides.                                       *)
LEMMA FirstIs ==
  ASSUME NEW i \in 1..11, Holds(i), \A j \in 1..i-1 : ~Holds(j)
  PROVE  FirstReason = i /\ Reasons[FirstReason] = Codes(i)
<1>1. /\ DOMAIN Reasons = 1..11
      /\ \A j \in 1..11 : (Reasons[j] # {} <=> Holds(j)) /\ (Holds(j) => Reasons[j] = Codes(j))
  BY ReasonsAre
<1>2. i \in DOMAIN Reasons /\ Reasons[i] # {} /\ \A j \in 1..i-1 : Reasons[j] = {}
  BY <1>1
<1>3. ASSUME NEW k \in DOMAIN Reasons, Reasons[k] # {}, \A j \in 1..k-1 : Reasons[j] = {}
      PROVE  k = i
  <2>1. k \in 1..11
    BY <1>1, <1>3
  <2>2. ~(k < i)
    BY <2>1, <1>2, <1>3
  <2>3. ~(i < k)
    BY <2>1, <1>2, <1>3
  <2>4. QED
    BY <2>1, <2>2, <2>3
<1>4. FirstReason = i
  BY <1>2, <1>3 DEF FirstReason
<1>5. QED
  BY <1>1, <1>4

-----------------------------------------------------------------------------
(* What an input means does not change while it is compiled. *)

(* The contracts of an input, and what is read off them.                      *)
LEMMA KeptContracts ==
  ASSUME input' = input
  PROVE  /\ Contracts' = Contracts /\ Ids' = Ids /\ \A e : ById(e)' = ById(e)
         /\ InputOK' = InputOK /\ (Duplicated' <=> Duplicated) /\ (HostFits' <=> HostFits)
         /\ (NotGranted' <=> NotGranted)
         /\ ClaimPairs' = ClaimPairs /\ Requirements' = Requirements /\ Provisions' = Provisions
<1>1. Contracts' = Contracts
  BY DEF Contracts
<1>2. Ids' = Ids /\ \A e : ById(e)' = ById(e)
  BY <1>1 DEF Ids, ById
<1>3. InputOK' = InputOK /\ (Duplicated' <=> Duplicated) /\ (HostFits' <=> HostFits)
  BY <1>1 DEF InputOK, Duplicated, HostFits
<1>4. (NotGranted' <=> NotGranted)
  BY <1>1 DEF NotGranted
<1>5. ClaimPairs' = ClaimPairs /\ Requirements' = Requirements /\ Provisions' = Provisions
  BY <1>1 DEF ClaimPairs, Requirements, Provisions
<1>6. QED
  BY <1>1, <1>2, <1>3, <1>4, <1>5

(* Candidates, compatible provisions and bindings.                            *)
LEMMA KeptOffers ==
  ASSUME Requirements' = Requirements, Provisions' = Provisions
  PROVE  /\ \A r : Candidates(r)' = Candidates(r) /\ Compatible(r)' = Compatible(r)
         /\ \A r : (Bad(r)' <=> Bad(r)) /\ Bind(r)' = Bind(r)
         /\ Bound' = Bound
<1>1. \A r : Candidates(r)' = Candidates(r)
  BY DEF Candidates
<1>2. \A r : Compatible(r)' = Compatible(r)
  BY <1>1 DEF Compatible
<1>3. \A r : (Bad(r)' <=> Bad(r)) /\ Bind(r)' = Bind(r)
  BY <1>2 DEF Bad, Bind
<1>4. Bound' = Bound
  BY <1>3 DEF Bound
<1>5. QED
  BY <1>1, <1>2, <1>3, <1>4

(* Dependencies, unmet requirements, cycles and orders.                       *)
LEMMA KeptNeeds ==
  ASSUME input' = input
  PROVE  /\ \A e, f : DependsOn(e, f)' <=> DependsOn(e, f)
         /\ \A r : (Unmet(r)' <=> Unmet(r)) /\ UnmetCode(r)' = UnmetCode(r)
         /\ UnmetRequirements' = UnmetRequirements
         /\ Cyclic' <=> Cyclic
         /\ Positions' = Positions /\ \A o : Least(o)' <=> Least(o)
<1>1. Contracts' = Contracts /\ Ids' = Ids /\ \A e : ById(e)' = ById(e)
  BY KeptContracts
<1>2. \A e, f : DependsOn(e, f)' <=> DependsOn(e, f)
  BY <1>1 DEF DependsOn, Meets
<1>3. \A r : (Unmet(r)' <=> Unmet(r)) /\ UnmetCode(r)' = UnmetCode(r)
  BY <1>1 DEF Unmet, UnmetCode, Meets
<1>4. UnmetRequirements' = UnmetRequirements
  BY <1>1, <1>3 DEF UnmetRequirements
<1>5. Cyclic' <=> Cyclic
  BY <1>1, <1>2 DEF Cyclic
<1>6. Positions' = Positions
  BY <1>1 DEF Positions
<1>7. \A o : Topological(o)' <=> Topological(o)
  BY <1>2, <1>6 DEF Topological
<1>8. \A o : Least(o)' <=> Least(o)
  BY <1>1, <1>6, <1>7 DEF Least, LexLeq
<1>9. QED
  BY <1>2, <1>3, <1>4, <1>5, <1>6, <1>8

(* Claims, under the names the taxonomy gives them.                           *)
LEMMA KeptClaims ==
  ASSUME input' = input, strict' = strict
  PROVE  /\ (Unknown' <=> Unknown) /\ (BadMode' <=> BadMode)
         /\ NormalClaims' = NormalClaims
         /\ (Clash' <=> Clash) /\ (NoMediator' <=> NoMediator)
<1>1. ClaimPairs' = ClaimPairs
  BY KeptContracts
<1>2. \A n : Canon(n)' = Canon(n)
  BY DEF Canon, Known
<1>3. (Unknown' <=> Unknown) /\ (BadMode' <=> BadMode)
  BY <1>1 DEF Unknown, BadMode, Known
<1>4. NormalClaims' = NormalClaims
  BY <1>1, <1>2 DEF NormalClaims, NormalClaim
<1>5. (Clash' <=> Clash) /\ (NoMediator' <=> NoMediator)
  BY <1>1, <1>2 DEF Clash, NoMediator
<1>6. QED
  BY <1>3, <1>4, <1>5

(* Nor does the verdict it deserves.                                          *)
LEMMA KeptReasons ==
  ASSUME input' = input, strict' = strict
  PROVE  Reasons[FirstReason]' = Reasons[FirstReason]
<1>1. /\ Contracts' = Contracts /\ Ids' = Ids /\ ClaimPairs' = ClaimPairs
      /\ UnmetRequirements' = UnmetRequirements /\ \A r : UnmetCode(r)' = UnmetCode(r)
      /\ (Cyclic' <=> Cyclic) /\ (Clash' <=> Clash) /\ (NoMediator' <=> NoMediator)
  BY KeptContracts, KeptNeeds, KeptClaims
<1>2. Reasons' = Reasons
  BY <1>1 DEF Reasons, When, Known
<1>3. FirstReason' = FirstReason
  BY <1>2 DEF FirstReason
<1>4. QED
  BY <1>2, <1>3

(* A step that ends the compilation with the code of the first reason.        *)
LEMMA VerdictGiven ==
  ASSUME input' = input, strict' = strict, NEW i \in 1..11, Holds(i),
         \A j \in 1..i-1 : ~Holds(j), verdict' \in Codes(i)
  PROVE  VerdictIsReference'
BY FirstIs, KeptReasons DEF VerdictIsReference

-----------------------------------------------------------------------------
(* The inductive invariant: what each stage leaves behind. *)

(* The compilation is in one of the stages S, or all stages accepted.         *)
At(S) == stage \in S \/ (stage = "done" /\ verdict = Accepted)

Checked == Len(input) # 0 /\ ~Duplicated /\ HostFits
Normal == ~Unknown /\ ~BadMode /\ claims = NormalClaims
Sorted == Len(ordered) = Len(input) /\ ~Cyclic
Allotted == ~Clash /\ ~NoMediator /\ ownership = OwnedAll

StageInv ==
  /\ InputOK /\ strict \in BOOLEAN /\ pass \in {1, 2} /\ stage \in Stages
  /\ stage = "done" <=> verdict # Pending
  /\ stage \in {"check", "normalize", "authority", "resolve"} => ordered = << >>
  /\ At({"normalize", "authority", "resolve", "order", "resources", "bind"}) => Checked
  /\ At({"authority", "resolve", "order", "resources", "bind"}) => Normal
  /\ At({"resolve", "order", "resources", "bind"}) => ~NotGranted
  /\ At({"order", "resources", "bind"}) => Resolved /\ Kahn
  /\ At({"resources", "bind"}) => Sorted
  /\ At({"bind"}) => Allotted
  /\ At({}) => duties = DutiesOf
  /\ VerdictIsReference

(* Rejections name an error, not an acceptance.                               *)
LEMMA RejectKeeps ==
  ASSUME StageInv, NEW i \in 1..10, NEW code, Reject(code), Holds(i), \A j \in 1..i-1 : ~Holds(j),
         code \in Codes(i), code # Accepted, code # Pending
  PROVE  StageInv'
<1>1. /\ stage' = "done" /\ verdict' = code
      /\ UNCHANGED <<input, strict, pass, work>>
  BY DEF Reject
<1>2. InputOK' /\ strict' \in BOOLEAN /\ pass' \in {1, 2} /\ stage' \in Stages
  BY <1>1, KeptContracts DEF StageInv, Stages
<1>3. VerdictIsReference'
  BY <1>1, VerdictGiven
<1>4. QED
  BY <1>1, <1>2, <1>3 DEF StageInv, At

(* What the stages know survives a step that changes neither it nor the input. *)
LEMMA KeptStages ==
  ASSUME UNCHANGED <<input, strict>>
  PROVE  /\ InputOK' = InputOK
         /\ (Checked' <=> Checked) /\ (NotGranted' <=> NotGranted)
         /\ claims' = claims => (Normal' <=> Normal)
         /\ bindings' = bindings => (Resolved' <=> Resolved) /\ DutiesOf' = DutiesOf
         /\ UNCHANGED <<bindings, indegree, ready, ordered>> => (Kahn' <=> Kahn)
         /\ ordered' = ordered => (Sorted' <=> Sorted)
         /\ claims' = claims => OwnedAll' = OwnedAll
         /\ UNCHANGED <<claims, ownership>> => (Allotted' <=> Allotted)
<1>1. /\ InputOK' = InputOK /\ (NotGranted' <=> NotGranted) /\ Contracts' = Contracts
      /\ Ids' = Ids
  BY KeptContracts
<1>2. Checked' <=> Checked
  BY KeptContracts DEF Checked
<1>3. claims' = claims => (Normal' <=> Normal)
  BY KeptClaims DEF Normal
<1>4. ASSUME bindings' = bindings PROVE (Resolved' <=> Resolved)
  BY <1>4, KeptContracts, KeptOffers DEF Resolved
<1>5. ASSUME bindings' = bindings PROVE DutiesOf' = DutiesOf
  <2>1. \A c, o : Provider(c, o)' = Provider(c, o)
    BY <1>5 DEF Provider
  <2>2. QED
    BY <1>1, <2>1 DEF DutiesOf
<1>6. ASSUME UNCHANGED <<bindings, indegree, ready, ordered>>
      PROVE  Kahn' <=> Kahn
  <2>1. \A e : Dependencies(e)' = Dependencies(e)
    BY <1>6 DEF Dependencies
  <2>2. \A n : Placed(n)' = Placed(n)
    BY <1>6 DEF Placed
  <2>3. \A n : Free(n)' = Free(n)
    BY <1>1, <2>1, <2>2 DEF Free
  <2>4. QED
    BY <1>1, <1>6, <2>1, <2>2, <2>3 DEF Kahn, OneToOne
<1>7. ordered' = ordered => (Sorted' <=> Sorted)
  BY KeptNeeds DEF Sorted
<1>8. ASSUME claims' = claims PROVE OwnedAll' = OwnedAll
  <2>1. \A n : On(n)' = On(n)
    BY <1>8 DEF On
  <2>2. \A n : Owned(n)' = Owned(n)
    BY <2>1 DEF Owned, Modes, Owners, Mediators
  <2>3. Names' = Names
    BY <1>8 DEF Names
  <2>4. QED
    BY <2>2, <2>3 DEF OwnedAll
<1>9. UNCHANGED <<claims, ownership>> => (Allotted' <=> Allotted)
  BY <1>8, KeptClaims DEF Allotted
<1>10. QED
  BY <1>1, <1>2, <1>3, <1>4, <1>5, <1>6, <1>7, <1>8, <1>9

(* A compilation starts with nothing decided.                                 *)
LEMMA StageInit ==
  ASSUME Init
  PROVE  StageInv
<1>1. InputOK
  BY CompilerConstants DEF Init, InputOK
<1>2. QED
  BY <1>1 DEF Init, StageInv, At, Stages, Pending, Accepted, VerdictIsReference

(* compile_contracts, the checks of the whole input.                          *)
LEMMA CheckKeeps ==
  ASSUME StageInv, Check
  PROVE  StageInv'
<1>0. InputOK /\ (Cardinality(Ids) = Len(input) <=> ~Duplicated)
  BY InputFacts DEF StageInv
<1>1. CASE Len(input) = 0 /\ Reject("INVALID_CONTRACT")
  BY <1>1, RejectKeeps DEF Holds, Codes, Accepted, Pending
<1>2. CASE Len(input) # 0 /\ Duplicated /\ Reject("DUPLICATE_PLUGIN")
  <2>1. Holds(2) /\ \A j \in 1..1 : ~Holds(j)
    BY <1>0, <1>2 DEF Holds
  <2>2. QED
    BY <1>2, <2>1, RejectKeeps DEF Codes, Accepted, Pending
<1>3. CASE Len(input) # 0 /\ ~Duplicated /\ ~HostFits /\ Reject("INCOMPATIBLE_HOST")
  <2>1. Holds(3) /\ \A j \in 1..2 : ~Holds(j)
    BY <1>0, <1>3 DEF Holds
  <2>2. QED
    BY <1>3, <2>1, RejectKeeps DEF Codes, Accepted, Pending
<1>4. CASE Len(input) # 0 /\ ~Duplicated /\ HostFits /\ Goto("normalize") /\ UNCHANGED work
  <2>1. /\ stage = "check" /\ stage' = "normalize"
        /\ UNCHANGED <<input, strict, pass, verdict, ordered>>
    BY <1>4 DEF Goto, work, Check
  <2>2. InputOK' /\ Checked'
    BY <1>0, <1>4, <2>1, KeptStages DEF Checked
  <2>3. QED
    BY <2>1, <2>2 DEF StageInv, At, Stages, Pending, VerdictIsReference
<1>5. QED
  BY <1>1, <1>2, <1>3, <1>4 DEF Check

(* Each stage has ruled out the reasons that come before it.                  *)
LEMMA RuledOut ==
  ASSUME StageInv
  PROVE  /\ At({"normalize", "authority", "resolve", "order", "resources", "bind"}) =>
              \A j \in 1..3 : ~Holds(j)
         /\ At({"authority", "resolve", "order", "resources", "bind"}) => \A j \in 1..5 : ~Holds(j)
         /\ At({"resolve", "order", "resources", "bind"}) => \A j \in 1..6 : ~Holds(j)
         /\ At({"order", "resources", "bind"}) => \A j \in 1..7 : ~Holds(j)
         /\ At({"resources", "bind"}) => \A j \in 1..8 : ~Holds(j)
         /\ At({"bind"}) => \A j \in 1..10 : ~Holds(j)
<1>1. ASSUME Checked PROVE ~Holds(1) /\ ~Holds(2) /\ ~Holds(3)
  BY <1>1, InputFacts DEF Checked, Holds, StageInv
<1>2. ASSUME Normal PROVE ~Holds(4) /\ ~Holds(5)
  BY <1>2 DEF Normal, Holds
<1>3. ASSUME ~NotGranted PROVE ~Holds(6)
  BY <1>3 DEF Holds
<1>4. ASSUME Checked, Resolved PROVE ~Holds(7)
  BY <1>4, UnmetFound DEF Checked, Resolved, Holds, StageInv
<1>5. ASSUME Sorted PROVE ~Holds(8)
  BY <1>5 DEF Sorted, Holds
<1>6. ASSUME Allotted PROVE ~Holds(9) /\ ~Holds(10)
  BY <1>6 DEF Allotted, Holds
<1>a. At({"normalize", "authority", "resolve", "order", "resources", "bind"}) =>
        \A j \in 1..3 : ~Holds(j)
  BY <1>1 DEF StageInv
<1>b. At({"authority", "resolve", "order", "resources", "bind"}) => \A j \in 1..5 : ~Holds(j)
  BY <1>a, <1>2 DEF StageInv, At
<1>c. At({"resolve", "order", "resources", "bind"}) => \A j \in 1..6 : ~Holds(j)
  BY <1>b, <1>3 DEF StageInv, At
<1>d. At({"order", "resources", "bind"}) => \A j \in 1..7 : ~Holds(j)
  BY <1>c, <1>4 DEF StageInv, At
<1>e. At({"resources", "bind"}) => \A j \in 1..8 : ~Holds(j)
  BY <1>d, <1>5 DEF StageInv, At
<1>f. At({"bind"}) => \A j \in 1..10 : ~Holds(j)
  BY <1>e, <1>6 DEF StageInv, At
<1>7. QED
  BY <1>a, <1>b, <1>c, <1>d, <1>e, <1>f

(* _normalize_taxonomy_resources.                                             *)
LEMMA NormalizeKeeps ==
  ASSUME StageInv, Normalize
  PROVE  StageInv'
<1>0. /\ stage = "normalize" /\ Checked /\ InputOK /\ ordered = << >>
      /\ \A j \in 1..3 : ~Holds(j)
  BY RuledOut DEF Normalize, StageInv, At
<1>n. /\ (\A x \in Declared : Known(x.name)) <=> \A a \in ClaimPairs : Known(a[2].name)
      /\ (\A x \in Declared : x.mode \in AllowedModes[Canonical[x.name]]) <=>
              \A a \in ClaimPairs : a[2].mode \in AllowedModes[Canonical[a[2].name]]
      /\ ~strict => Declared = NormalClaims
      /\ strict /\ (\A x \in Declared : Known(x.name)) =>
              {Normalized(x) : x \in Declared} = NormalClaims
  BY <1>0, NormalizedIs
<1>1. CASE /\ strict /\ \E x \in Declared : ~Known(x.name)
           /\ Reject("UNKNOWN_RESOURCE")
  <2>1. Holds(4)
    BY <1>1, <1>n DEF Holds, Unknown
  <2>2. \A j \in 1..(4 - 1) : ~Holds(j)
    BY <1>0
  <2>3. QED
    BY <1>1, <2>1, <2>2, RejectKeeps DEF Codes, Accepted, Pending
<1>2. CASE /\ strict /\ \A x \in Declared : Known(x.name)
           /\ \E x \in Declared : x.mode \notin AllowedModes[Canonical[x.name]]
           /\ Reject("INVALID_RESOURCE_MODE")
  <2>1. Holds(5) /\ ~Holds(4)
    BY <1>2, <1>n DEF Holds, Unknown, BadMode
  <2>2. \A j \in 1..(5 - 1) : ~Holds(j)
    BY <1>0, <2>1
  <2>3. QED
    BY <1>2, <2>1, <2>2, RejectKeeps DEF Codes, Accepted, Pending
<1>3. ASSUME claims' = NormalClaims, ~Unknown, ~BadMode, Goto("authority"),
             UNCHANGED <<bindings, indegree, ready, ordered, ownership, duties>>
      PROVE  StageInv'
  <2>1. /\ stage' = "authority" /\ UNCHANGED <<input, strict, pass, verdict, ordered>>
    BY <1>3 DEF Goto
  <2>2. InputOK' /\ Checked'
    BY <1>0, <2>1, KeptStages
  <2>3. Normal'
    BY <1>3, <2>1, KeptClaims DEF Normal
  <2>4. QED
    BY <1>0, <2>1, <2>2, <2>3 DEF StageInv, At, Stages, Pending, VerdictIsReference
<1>4. CASE /\ strict /\ \A x \in Declared : Known(x.name) /\ x.mode \in AllowedModes[Canonical[x.name]]
           /\ claims' = {Normalized(x) : x \in Declared}
           /\ Goto("authority")
           /\ UNCHANGED <<bindings, indegree, ready, ordered, ownership, duties>>
  <2>1. ~Unknown /\ ~BadMode /\ claims' = NormalClaims
    BY <1>4, <1>n DEF Unknown, BadMode
  <2>2. QED
    BY <1>3, <1>4, <2>1
<1>5. CASE /\ ~strict
           /\ claims' = Declared
           /\ Goto("authority")
           /\ UNCHANGED <<bindings, indegree, ready, ordered, ownership, duties>>
  <2>1. ~Unknown /\ ~BadMode /\ claims' = NormalClaims
    BY <1>5, <1>n DEF Unknown, BadMode
  <2>2. QED
    BY <1>3, <1>5, <2>1
<1>6. QED
  BY <1>1, <1>2, <1>4, <1>5 DEF Normalize

(* _validate_obligation_authority.                                            *)
LEMMA AuthorityKeeps ==
  ASSUME StageInv, Authority
  PROVE  StageInv'
<1>0. /\ stage = "authority" /\ Checked /\ Normal /\ InputOK /\ ordered = << >>
      /\ \A j \in 1..5 : ~Holds(j)
  BY RuledOut DEF Authority, StageInv, At
<1>1. (\A c \in Contracts : c.obligations \subseteq c.grants) <=> ~NotGranted
  BY DEF NotGranted
<1>2. CASE NotGranted /\ Reject("AUTHORITY_VIOLATION")
  <2>1. Holds(6) /\ \A j \in 1..(6 - 1) : ~Holds(j)
    BY <1>0, <1>2 DEF Holds
  <2>2. QED
    BY <1>2, <2>1, RejectKeeps DEF Codes, Accepted, Pending
<1>3. CASE ~NotGranted /\ Goto("resolve") /\ UNCHANGED work
  <2>1. /\ stage' = "resolve" /\ UNCHANGED <<input, strict, pass, verdict, ordered, claims>>
    BY <1>3 DEF Goto, work
  <2>2. InputOK' /\ Checked' /\ Normal' /\ ~NotGranted'
    BY <1>0, <1>3, <2>1, KeptStages
  <2>3. QED
    BY <1>0, <2>1, <2>2 DEF StageInv, At, Stages, Pending, VerdictIsReference
<1>4. QED
  BY <1>1, <1>2, <1>3 DEF Authority

(* _resolve_capabilities, which also fills the heap.                          *)
LEMMA ResolveKeeps ==
  ASSUME StageInv, Resolve
  PROVE  StageInv'
<1>0. /\ stage = "resolve" /\ Checked /\ Normal /\ ~NotGranted /\ InputOK /\ ordered = << >>
      /\ ~Duplicated /\ \A j \in 1..6 : ~Holds(j)
  BY RuledOut DEF Resolve, StageInv, At, Checked
<1>1. CASE /\ \E r \in Requirements : Bad(r)
           /\ Reject(CodeOf(FirstBad))
  <2>1. Holds(7) /\ \A j \in 1..(7 - 1) : ~Holds(j)
    BY <1>0, <1>1, UnmetFound DEF Holds
  <2>2. CodeOf(FirstBad) \in Codes(7)
    BY <1>0, <1>1, FirstBadCode DEF Codes
  <2>3. CodeOf(FirstBad) # Accepted /\ CodeOf(FirstBad) # Pending
    BY DEF CodeOf, Accepted, Pending
  <2>4. QED
    BY <1>1, <2>1, <2>2, <2>3, RejectKeeps
<1>2. CASE /\ \A r \in Requirements : ~Bad(r)
           /\ bindings' = {Bind(r) : r \in Requirements}
           /\ indegree' = [e \in Ids |-> Cardinality(Dependencies(e)')]
           /\ ready' = {e \in Ids : indegree'[e] = 0}
           /\ Goto("order")
           /\ UNCHANGED <<claims, ordered, ownership, duties>>
  <2>1. /\ stage' = "order" /\ UNCHANGED <<input, strict, pass, verdict, ordered, claims>>
    BY <1>2 DEF Goto
  <2>2. InputOK' /\ Checked' /\ Normal' /\ ~NotGranted'
    BY <1>0, <2>1, KeptStages
  <2>3. Resolved'
    BY <1>2, <2>1, KeptContracts, KeptOffers DEF Resolved, Bound
  <2>4. InputOK' /\ ~Duplicated' /\ Resolved' => DepsAre'
    BY ResolvedDeps, PTL
  <2>5. Kahn'
    BY <1>0, <1>2, <2>1, <2>2, <2>3, <2>4, KahnStarts DEF Checked
  <2>6. QED
    BY <1>0, <2>1, <2>2, <2>3, <2>5 DEF StageInv, At, Stages, Pending, VerdictIsReference
<1>3. QED
  BY <1>1, <1>2 DEF Resolve

(* One pop of _order_contracts.                                               *)
LEMMA PopKeeps ==
  ASSUME StageInv, Pop
  PROVE  StageInv'
<1>0. /\ stage = "order" /\ Checked /\ Normal /\ ~NotGranted /\ InputOK /\ Resolved /\ Kahn
      /\ ~Duplicated
  BY DEF Pop, StageInv, At, Checked
<1>1. UNCHANGED <<input, strict, pass, stage, verdict, claims, bindings>>
  BY DEF Pop
<1>2. InputOK' /\ Checked' /\ Normal' /\ ~NotGranted' /\ Resolved'
  BY <1>0, <1>1, KeptStages
<1>3. Kahn'
  BY <1>0, ResolvedDeps, KahnPops
<1>4. QED
  BY <1>0, <1>1, <1>2, <1>3 DEF StageInv, At, Stages, Pending, VerdictIsReference

(* The end of _order_contracts: a cycle, or all are placed.                   *)
LEMMA OrderEndsKeeps ==
  ASSUME StageInv, OrderEnds
  PROVE  StageInv'
<1>0. /\ stage = "order" /\ Checked /\ Normal /\ ~NotGranted /\ InputOK /\ Resolved /\ Kahn
      /\ ~Duplicated /\ \A j \in 1..7 : ~Holds(j)
  BY RuledOut DEF OrderEnds, StageInv, At, Checked
<1>1. Len(ordered) = Len(input) <=> ~Cyclic
  BY <1>0, ResolvedDeps, KahnEnds DEF OrderEnds
<1>2. CASE Len(ordered) # Len(input) /\ Reject("DEPENDENCY_CYCLE")
  <2>1. Holds(8) /\ \A j \in 1..(8 - 1) : ~Holds(j)
    BY <1>0, <1>1, <1>2 DEF Holds
  <2>2. QED
    BY <1>2, <2>1, RejectKeeps DEF Codes, Accepted, Pending
<1>3. CASE Len(ordered) = Len(input) /\ Goto("resources") /\ UNCHANGED work
  <2>1. /\ stage' = "resources" /\ UNCHANGED <<input, strict, pass, verdict>>
        /\ UNCHANGED <<claims, bindings, indegree, ready, ordered>>
    BY <1>3 DEF Goto, work
  <2>2. InputOK' /\ Checked' /\ Normal' /\ ~NotGranted' /\ Resolved' /\ Kahn' /\ Sorted'
    BY <1>0, <1>1, <1>3, <2>1, KeptStages DEF Sorted
  <2>3. QED
    BY <1>0, <2>1, <2>2 DEF StageInv, At, Stages, Pending, VerdictIsReference
<1>4. QED
  BY <1>2, <1>3 DEF OrderEnds

(* _resolve_resources.                                                        *)
LEMMA ResourcesKeeps ==
  ASSUME StageInv, Resources
  PROVE  StageInv'
<1>0. /\ stage = "resources" /\ Checked /\ Normal /\ ~NotGranted /\ InputOK /\ Resolved /\ Kahn
      /\ Sorted /\ ~Duplicated /\ claims = NormalClaims /\ \A j \in 1..8 : ~Holds(j)
  BY RuledOut DEF Resources, StageInv, At, Checked, Normal
<1>1. /\ (\E n \in Names : ModeError(n) \/ Inconsistent(n)) <=> Clash
      /\ ~Clash => ((\E n \in Names : Unattended(n)) <=> NoMediator)
  BY <1>0, NormalClaimsOK, ClashFound, UnattendedFound, ClashIs
<1>2. CASE /\ \E n \in Names : ModeError(n) \/ Inconsistent(n)
           /\ Reject("RESOURCE_CONFLICT")
  <2>1. Holds(9) /\ \A j \in 1..(9 - 1) : ~Holds(j)
    BY <1>0, <1>1, <1>2 DEF Holds
  <2>2. QED
    BY <1>2, <2>1, RejectKeeps DEF Codes, Accepted, Pending
<1>3. CASE /\ \A n \in Names : ~ModeError(n) /\ ~Inconsistent(n)
           /\ \E n \in Names : Unattended(n)
           /\ Reject("AUTHORITY_VIOLATION")
  <2>0. NoMediator /\ ~Clash
    BY <1>1, <1>3
  <2>1. Holds(10) /\ ~Holds(9)
    BY <2>0 DEF Holds
  <2>2. \A j \in 1..(10 - 1) : ~Holds(j)
    BY <1>0, <2>1
  <2>3. QED
    BY <1>3, <2>1, <2>2, RejectKeeps DEF Codes, Accepted, Pending
<1>4. CASE /\ \A n \in Names : ~ModeError(n) /\ ~Inconsistent(n) /\ ~Unattended(n)
           /\ ownership' = {Owned(n) : n \in Names}
           /\ Goto("bind")
           /\ UNCHANGED <<claims, bindings, indegree, ready, ordered, duties>>
  <2>0. ~Clash /\ ~NoMediator
    BY <1>1, <1>4
  <2>1. /\ stage' = "bind" /\ UNCHANGED <<input, strict, pass, verdict>>
        /\ UNCHANGED <<claims, bindings, indegree, ready, ordered>>
    BY <1>4 DEF Goto
  <2>2. InputOK' /\ Checked' /\ Normal' /\ ~NotGranted' /\ Resolved' /\ Kahn' /\ Sorted'
    BY <1>0, <2>1, KeptStages
  <2>3. Allotted'
    BY <1>4, <2>0, <2>1, KeptStages, KeptClaims DEF Allotted, OwnedAll
  <2>4. QED
    BY <1>0, <2>1, <2>2, <2>3 DEF StageInv, At, Stages, Pending, VerdictIsReference
<1>5. QED
  BY <1>2, <1>3, <1>4 DEF Resources

(* _bind_obligations, and the acceptance.                                     *)
LEMMA BindKeeps ==
  ASSUME StageInv, BindObligations
  PROVE  StageInv'
<1>0. /\ stage = "bind" /\ Checked /\ Normal /\ ~NotGranted /\ InputOK /\ Resolved /\ Kahn
      /\ Sorted /\ Allotted /\ \A j \in 1..10 : ~Holds(j)
  BY RuledOut DEF BindObligations, StageInv, At
<1>1. /\ duties' = DutiesOf /\ verdict' = Accepted /\ stage' = "done"
      /\ UNCHANGED <<input, strict, pass, claims, bindings, indegree, ready, ordered, ownership>>
  BY DEF BindObligations, DutiesOf
<1>2. /\ InputOK' /\ Checked' /\ Normal' /\ ~NotGranted' /\ Resolved' /\ Kahn' /\ Sorted'
      /\ Allotted' /\ DutiesOf' = DutiesOf
  BY <1>0, <1>1, KeptStages
<1>3. Holds(11) /\ (\A j \in 1..(11 - 1) : ~Holds(j)) /\ Accepted \in Codes(11)
  BY <1>0 DEF Holds, Codes
<1>4. VerdictIsReference'
  BY <1>1, <1>3, VerdictGiven
<1>5. QED
  BY <1>0, <1>1, <1>2, <1>4 DEF StageInv, At, Stages, Pending, Accepted

(* A step that changes nothing.                                               *)
LEMMA StutterKeeps ==
  ASSUME StageInv, UNCHANGED vars
  PROVE  StageInv'
<1>1. /\ UNCHANGED <<input, strict, pass, stage, verdict>>
      /\ UNCHANGED <<claims, bindings, indegree, ready, ordered, ownership, duties>>
  BY DEF vars, work
<1>2. /\ InputOK' = InputOK /\ (Checked' <=> Checked) /\ (NotGranted' <=> NotGranted)
      /\ (Normal' <=> Normal) /\ (Resolved' <=> Resolved) /\ DutiesOf' = DutiesOf
      /\ (Kahn' <=> Kahn) /\ (Sorted' <=> Sorted) /\ (Allotted' <=> Allotted)
  BY <1>1, KeptStages
<1>3. VerdictIsReference'
  BY <1>1, KeptReasons DEF VerdictIsReference, StageInv
<1>4. QED
  BY <1>1, <1>2, <1>3 DEF StageInv, At

-----------------------------------------------------------------------------
(* The second pass: a plan's own contracts, compiled without the taxonomy. *)

(* A claim as a contract of the second pass declares it, and that claim.      *)
Again(y) == [name |-> y.name, mode |-> y.mode, mediator |-> y.mediator]
Redeclared(y) == [owner |-> y.owner, declared |-> y.name, name |-> y.name, mode |-> y.mode,
                  mediator |-> y.mediator]

(* The claims have the types of parsed resources, with their owner.           *)
LEMMA ClaimTypes ==
  ASSUME InputOK, NEW y \in NormalClaims
  PROVE  /\ \E c \in Contracts : y.owner = c.id
         /\ Again(y) \in Resource /\ (y.mode = "mediated" <=> y.mediator # None)
<1>1. PICK a \in ClaimPairs : y = NormalClaim(a)
  BY DEF NormalClaims
<1>2. a[1] \in Contracts /\ a[2] \in a[1].resources /\ a[2] \in Resource /\ Parsed(a[1])
  BY PairsAre, InputFacts
<1>3. /\ y.owner = a[1].id /\ y.name = Canon(a[2].name) /\ y.mode = a[2].mode
      /\ y.mediator = a[2].mediator
  BY <1>1 DEF NormalClaim
<1>4. Canon(a[2].name) \in Nat
  BY <1>2, CompilerConstants DEF Canon, Known, TaxonomyParsed, Resource
<1>5. a[2].mode \in ResourceModes /\ a[2].mediator \in Nat
  BY <1>2 DEF Resource
<1>6. Again(y) \in Resource
  BY <1>3, <1>4, <1>5 DEF Again, Resource
<1>7. a[2].mode = "mediated" <=> a[2].mediator # None
  BY <1>2 DEF Parsed
<1>8. QED
  BY <1>2, <1>3, <1>6, <1>7

(* A contract of the plan differs from the one listed in its resources only,  *)
(* which are its claims.                                                      *)
LEMMA RenamedIs ==
  ASSUME InputOK, NEW c \in Contracts
  PROVE  /\ Renamed(c).id = c.id /\ Renamed(c).host = c.host
         /\ Renamed(c).provides = c.provides /\ Renamed(c).requires = c.requires
         /\ Renamed(c).obligations = c.obligations /\ Renamed(c).grants = c.grants
         /\ Renamed(c).resources = {Again(y) : y \in {x \in claims : x.owner = c.id}}
         /\ Renamed(c) = [id |-> c.id, host |-> c.host, provides |-> c.provides,
                          requires |-> c.requires,
                          resources |-> {Again(y) : y \in {x \in claims : x.owner = c.id}},
                          obligations |-> c.obligations, grants |-> c.grants]
<1>1. c \in Contract
  BY InputFacts
<1>2. {[name |-> x.name, mode |-> x.mode, mediator |-> x.mediator] :
           x \in {y \in claims : y.owner = c.id}}
        = {Again(y) : y \in {x \in claims : x.owner = c.id}}
  BY DEF Again
<1>3. PICK R : R = {Again(y) : y \in {x \in claims : x.owner = c.id}}
  OBVIOUS
<1>4. Renamed(c) = [c EXCEPT !.resources = R]
  BY <1>2, <1>3 DEF Renamed
<1>5. Renamed(c) = [id |-> c.id, host |-> c.host, provides |-> c.provides, requires |-> c.requires,
                    resources |-> R, obligations |-> c.obligations, grants |-> c.grants]
  BY <1>1, <1>4 DEF Contract
<1>6. QED
  BY <1>3, <1>5

(* It is a contract parse_contract could have returned.                       *)
LEMMA RenamedParsed ==
  ASSUME InputOK, ~Duplicated, claims = NormalClaims, ~Clash, NEW c \in Contracts
  PROVE  Parsed(Renamed(c)) /\ Renamed(c) \in Contract
<1> DEFINE own == {x \in claims : x.owner = c.id}
           R == {Again(y) : y \in own}
<1>1. Parsed(c) /\ c \in Contract
  BY InputFacts
<1>2. Renamed(c) = [id |-> c.id, host |-> c.host, provides |-> c.provides, requires |-> c.requires,
                    resources |-> R, obligations |-> c.obligations, grants |-> c.grants]
  BY RenamedIs
<1>3. R \subseteq Resource /\ \A x \in R : x.mode = "mediated" <=> x.mediator # None
  BY ClaimTypes DEF Again
<1>4. IsFiniteSet(R)
  <2>1. IsFiniteSet(own)
    BY NormalClaimsOK, FS_Subset DEF ClaimsOK
  <2>2. PICK f : f = [y \in own |-> Again(y)]
    OBVIOUS
  <2>3. Onto(f, own, R)
    BY <2>2 DEF Onto
  <2>4. QED
    BY <2>1, <2>3, OntoFinite
<1>5. UniqueNames(R)
  <2>1. ASSUME NEW x \in own, NEW y \in own, x.name = y.name PROVE x = y
    BY <2>1, ClashIs DEF ClaimsClash
  <2>2. QED
    BY <2>1 DEF UniqueNames, Again
<1>6. Renamed(c) \in Contract
  BY <1>1, <1>2, <1>3 DEF Contract
<1>7. /\ Renamed(c).resources = R /\ Renamed(c).provides = c.provides
      /\ Renamed(c).requires = c.requires /\ Renamed(c).obligations = c.obligations
      /\ Renamed(c).grants = c.grants
  BY <1>2
<1>8. \A o : OfDeclared(Renamed(c), o) <=> OfDeclared(c, o)
  BY <1>7 DEF OfDeclared
<1>9. QED
  BY <1>1, <1>3, <1>4, <1>5, <1>6, <1>7, <1>8 DEF Parsed

(* The plan orders every contract once, and compiles them as renamed.         *)
LEMMA SecondInput ==
  ASSUME StageInv, Recompile
  PROVE  /\ Contracts' = {Renamed(c) : c \in Contracts} /\ Ids' = Ids
         /\ Len(input') = Len(input) /\ InputOK' /\ ~Duplicated'
         /\ \A e \in Ids : ById(e)' = Renamed(ById(e))
<1>1. /\ InputOK /\ Checked /\ ~Duplicated /\ claims = NormalClaims /\ ~Clash /\ Kahn /\ Sorted
  BY DEF StageInv, Recompile, At, Checked, Normal, Allotted
<1>2. PICK n : n = Len(ordered)
  OBVIOUS
<1>3. /\ n \in Nat /\ n = Len(input) /\ ordered \in [1..n -> Ids]
      /\ OneToOne(ordered, 1..n) /\ Placed(n) = Ids
  BY <1>1, <1>2, InputFacts, AllPlaced DEF Kahn, Sorted
<1>4. \A e \in Ids : ById(e) \in Contracts /\ ById(e).id = e
  BY <1>1, ByIdFacts
<1>5. \A c \in Contracts : c.id \in Ids /\ ById(c.id) = c
  BY <1>1, ByIdFacts, InputFacts
<1>6. input' = [i \in 1..n |-> Renamed(ById(ordered[i]))]
  BY <1>2 DEF Recompile
<1>7. \A i \in 1..n : /\ ordered[i] \in Ids /\ input'[i] = Renamed(ById(ordered[i]))
                      /\ input'[i].id = ordered[i]
  <2>1. SUFFICES ASSUME NEW i \in 1..n
                 PROVE  /\ ordered[i] \in Ids /\ input'[i] = Renamed(ById(ordered[i]))
                        /\ input'[i].id = ordered[i]
    OBVIOUS
  <2>2. ordered[i] \in Ids /\ input'[i] = Renamed(ById(ordered[i]))
    BY <1>3, <1>6
  <2>3. QED
    BY <1>1, <1>4, <2>2, RenamedIs
<1>8. \A i \in 1..n : Parsed(input'[i]) /\ input'[i] \in Contract
  BY <1>1, <1>4, <1>7, RenamedParsed
<1>9. input' \in Seq(Contract) /\ Len(input') = n
  BY <1>3, <1>6, <1>8
<1>10. InputOK'
  BY <1>8, <1>9 DEF InputOK
<1>11. ~Duplicated'
  BY <1>3, <1>7, <1>9 DEF Duplicated, OneToOne
<1>12. Contracts' = {Renamed(c) : c \in Contracts}
  <2>1. Contracts' = {input'[i] : i \in 1..n}
    BY <1>9 DEF Contracts
  <2>2. ASSUME NEW c \in Contracts PROVE Renamed(c) \in Contracts'
    <3>1. PICK i \in 1..n : ordered[i] = c.id
      BY <1>3, <1>5 DEF Placed
    <3>2. QED
      BY <1>5, <1>7, <2>1, <3>1
  <2>3. QED
    BY <1>4, <1>7, <2>1, <2>2
<1>13. Ids' = Ids
  <2>1. Ids' = {c.id : c \in Contracts'}
    BY DEF Ids
  <2>2. \A c \in Contracts : Renamed(c).id = c.id
    BY <1>1, RenamedIs
  <2>3. QED
    BY <1>12, <2>1, <2>2 DEF Ids
<1>14. ASSUME NEW e \in Ids PROVE ById(e)' = Renamed(ById(e))
  <2>1. ById(e)' = CHOOSE c \in Contracts' : c.id = e
    BY DEF ById
  <2>2. Renamed(ById(e)) \in Contracts' /\ Renamed(ById(e)).id = e
    BY <1>1, <1>4, <1>12, RenamedIs
  <2>3. ASSUME NEW d \in Contracts', d.id = e PROVE d = Renamed(ById(e))
    <3>1. PICK c \in Contracts : d = Renamed(c)
      BY <1>12
    <3>2. c.id = e
      BY <1>1, <2>3, <3>1, RenamedIs
    <3>3. QED
      BY <1>5, <3>1, <3>2
  <2>4. QED
    BY <2>1, <2>2, <2>3
<1>15. QED
  BY <1>3, <1>9, <1>10, <1>11, <1>12, <1>13, <1>14

(* What the contracts offer, need and oblige is as in the first pass.         *)
LEMMA SecondNeeds ==
  ASSUME StageInv, Recompile
  PROVE  /\ HostFits' /\ ~NotGranted'
         /\ Requirements' = Requirements /\ Provisions' = Provisions
         /\ ~Cyclic' /\ \A o \in Seq(Ids) : Least(o)' <=> Least(o)
<1>1. /\ InputOK /\ Checked /\ ~NotGranted /\ ~Cyclic
  BY DEF StageInv, Recompile, At, Sorted
<1>2. /\ Contracts' = {Renamed(c) : c \in Contracts} /\ Ids' = Ids
      /\ \A e \in Ids : ById(e)' = Renamed(ById(e))
  BY SecondInput
<1>3. \A c \in Contracts :
         /\ Renamed(c).id = c.id /\ Renamed(c).host = c.host
         /\ Renamed(c).provides = c.provides /\ Renamed(c).requires = c.requires
         /\ Renamed(c).obligations = c.obligations /\ Renamed(c).grants = c.grants
  BY <1>1, RenamedIs
<1>4. HostFits'
  <2>1. HostFits' <=> \A c \in Contracts' : c.host
    BY DEF HostFits
  <2>2. QED
    BY <1>1, <1>2, <1>3, <2>1 DEF Checked, HostFits
<1>5. ~NotGranted'
  <2>1. NotGranted' <=> \E c \in Contracts' : \E o \in c.obligations : o \notin c.grants
    BY DEF NotGranted
  <2>2. QED
    BY <1>1, <1>2, <1>3, <2>1 DEF NotGranted
<1>6. Requirements' = Requirements
  <2>1. Requirements' =
          UNION {{[consumer |-> c.id, name |-> r.name, range |-> r.range] : r \in c.requires} :
                         c \in Contracts'}
    BY DEF Requirements
  <2>2. QED
    BY <1>2, <1>3, <2>1 DEF Requirements
<1>7. Provisions' = Provisions
  <2>1. Provisions' =
          UNION {{[provider |-> c.id, name |-> p.name, version |-> p.version] : p \in c.provides} :
                       c \in Contracts'}
    BY DEF Provisions
  <2>2. QED
    BY <1>2, <1>3, <2>1 DEF Provisions
<1>8. \A e, f \in Ids : DependsOn(e, f)' <=> DependsOn(e, f)
  <2>1. SUFFICES ASSUME NEW e \in Ids, NEW f \in Ids
                 PROVE  DependsOn(e, f)' <=> DependsOn(e, f)
    OBVIOUS
  <2>2. /\ ById(e)'.requires = ById(e).requires /\ ById(f)'.provides = ById(f).provides
    BY <1>1, <1>2, <1>3, ByIdFacts DEF Checked
  <2>3. QED
    BY <2>2 DEF DependsOn, Meets
<1>9. ~Cyclic'
  BY <1>1, <1>2, <1>8 DEF Cyclic
<1>10. ASSUME NEW o \in Seq(Ids) PROVE Least(o)' <=> Least(o)
  <2>1. Positions' = Positions
    BY <1>2 DEF Positions
  <2>2. \A u \in [Positions -> Ids] : Topological(u)' <=> Topological(u)
    BY <1>8, <2>1 DEF Topological
  <2>3. \A u : LexLeq(o, u)' <=> LexLeq(o, u)
    BY <2>1 DEF LexLeq
  <2>4. DOMAIN o = Positions => o \in [Positions -> Ids]
    OBVIOUS
  <2>5. QED
    BY <1>2, <2>1, <2>2, <2>3, <2>4 DEF Least
<1>11. QED
  BY <1>4, <1>5, <1>6, <1>7, <1>9, <1>10

(* The resources declared in the second pass are the claims of the first.     *)
LEMMA SecondPairs ==
  ASSUME StageInv, Recompile
  PROVE  /\ \A a \in ClaimPairs' : \E c \in Contracts : \E y \in claims :
              y.owner = c.id /\ a = <<Renamed(c), Again(y)>>
         /\ \A y \in claims : \E c \in Contracts :
              y.owner = c.id /\ <<Renamed(c), Again(y)>> \in ClaimPairs'
<1>1. InputOK /\ claims = NormalClaims
  BY DEF StageInv, Recompile, At, Normal
<1>2. Contracts' = {Renamed(c) : c \in Contracts}
  BY SecondInput
<1>3. ClaimPairs' = UNION {{<<c, x>> : x \in c.resources} : c \in Contracts'}
  BY DEF ClaimPairs
<1>4. \A c \in Contracts : Renamed(c).resources = {Again(y) : y \in {x \in claims : x.owner = c.id}}
  BY <1>1, RenamedIs
<1>5. ASSUME NEW a \in ClaimPairs'
      PROVE  \E c \in Contracts : \E y \in claims : y.owner = c.id /\ a = <<Renamed(c), Again(y)>>
  <2>1. PICK d \in Contracts' : a \in {<<d, x>> : x \in d.resources}
    BY <1>3, <1>5
  <2>2. PICK c \in Contracts : d = Renamed(c)
    BY <1>2
  <2>3. PICK x \in d.resources : a = <<d, x>>
    BY <2>1
  <2>4. PICK y \in {z \in claims : z.owner = c.id} : x = Again(y)
    BY <1>4, <2>2, <2>3
  <2>5. QED
    BY <2>2, <2>3, <2>4
<1>6. ASSUME NEW y \in claims
      PROVE  \E c \in Contracts : y.owner = c.id /\ <<Renamed(c), Again(y)>> \in ClaimPairs'
  <2>1. PICK c \in Contracts : y.owner = c.id
    BY <1>1, ClaimTypes
  <2>2. Again(y) \in Renamed(c).resources
    BY <1>4, <2>1
  <2>3. Renamed(c) \in Contracts'
    BY <1>2
  <2>4. QED
    BY <1>3, <2>1, <2>2, <2>3
<1>7. QED
  BY <1>5, <1>6

(* They go together as they did, and every mediator still takes part.         *)
LEMMA SecondClaims ==
  ASSUME StageInv, Recompile
  PROVE  /\ NormalClaims' = {Redeclared(y) : y \in claims}
         /\ ~Clash' /\ ~NoMediator'
<1>1. /\ InputOK /\ ~Duplicated /\ claims = NormalClaims /\ ~ClaimsClash /\ ~ClaimsUnattended
  BY ClashIs DEF StageInv, Recompile, At, Checked, Normal, Allotted
<1>2. /\ \A a \in ClaimPairs' : \E c \in Contracts : \E y \in claims :
           y.owner = c.id /\ a = <<Renamed(c), Again(y)>>
      /\ \A y \in claims : \E c \in Contracts :
           y.owner = c.id /\ <<Renamed(c), Again(y)>> \in ClaimPairs'
  BY SecondPairs
<1>3. \A n : Canon(n)' = n
  BY DEF Recompile, Canon
<1>4. \A c \in Contracts : Renamed(c).id = c.id
  BY <1>1, RenamedIs
<1>5. \A c, d \in Contracts : c.id = d.id => c = d
  BY <1>1, ByIdFacts
<1>6. ASSUME NEW a, NEW c \in Contracts, NEW y \in claims, y.owner = c.id,
             a = <<Renamed(c), Again(y)>>
      PROVE  /\ NormalClaim(a)' = Redeclared(y)
             /\ a[1].id = y.owner /\ a[2].name = y.name /\ a[2].mode = y.mode
             /\ a[2].mediator = y.mediator
  <2>1. /\ a[1].id = y.owner /\ a[2].name = y.name /\ a[2].mode = y.mode
        /\ a[2].mediator = y.mediator
    BY <1>4, <1>6 DEF Again
  <2>2. NormalClaim(a)' = [owner |-> a[1].id, declared |-> a[2].name, name |-> Canon(a[2].name)',
                           mode |-> a[2].mode, mediator |-> a[2].mediator]
    BY DEF NormalClaim
  <2>3. QED
    BY <1>3, <2>1, <2>2 DEF Redeclared
<1>7. NormalClaims' = {Redeclared(y) : y \in claims}
  <2>1. NormalClaims' = {NormalClaim(a)' : a \in ClaimPairs'}
    BY DEF NormalClaims
  <2>2. ASSUME NEW a \in ClaimPairs' PROVE NormalClaim(a)' \in {Redeclared(y) : y \in claims}
    BY <1>2, <1>6
  <2>3. ASSUME NEW y \in claims PROVE \E a \in ClaimPairs' : Redeclared(y) = NormalClaim(a)'
    BY <1>2, <1>6
  <2>4. QED
    BY <2>1, <2>2, <2>3
<1>8. ASSUME Clash' PROVE FALSE
  <2>1. PICK a, b : /\ a \in ClaimPairs' /\ b \in ClaimPairs'
                    /\ a # b /\ a[2].name = b[2].name
                    /\ \/ a[1] = b[1]
                       \/ a[2].mode # b[2].mode \/ a[2].mediator # b[2].mediator
                       \/ a[2].mode = "exclusive"
    BY <1>3, <1>8 DEF Clash
  <2>2. PICK c \in Contracts, y \in claims : y.owner = c.id /\ a = <<Renamed(c), Again(y)>>
    BY <1>2, <2>1
  <2>3. PICK d \in Contracts, z \in claims : z.owner = d.id /\ b = <<Renamed(d), Again(z)>>
    BY <1>2, <2>1
  <2>4. /\ a[1].id = y.owner /\ a[2].name = y.name /\ a[2].mode = y.mode
        /\ a[2].mediator = y.mediator
    BY <1>6, <2>2
  <2>5. /\ b[1].id = z.owner /\ b[2].name = z.name /\ b[2].mode = z.mode
        /\ b[2].mediator = z.mediator
    BY <1>6, <2>3
  <2>6. y # z
    BY <1>5, <2>1, <2>2, <2>3
  <2>7. /\ y.name = z.name
        /\ y.owner = z.owner \/ y.mode # z.mode \/ y.mediator # z.mediator \/ y.mode = "exclusive"
    BY <2>1, <2>4, <2>5
  <2>8. ClaimsClash
    BY <2>6, <2>7 DEF ClaimsClash
  <2>9. QED
    BY <1>1, <2>8
<1>9. ASSUME NoMediator' PROVE FALSE
  <2>1. PICK a : /\ a \in ClaimPairs' /\ a[2].mode = "mediated"
                 /\ ~\E b \in ClaimPairs' : b[1].id = a[2].mediator /\ b[2].name = a[2].name
    BY <1>3, <1>9 DEF NoMediator
  <2>2. PICK c \in Contracts, y \in claims : y.owner = c.id /\ a = <<Renamed(c), Again(y)>>
    BY <1>2, <2>1
  <2>3. /\ a[2].name = y.name /\ a[2].mode = y.mode /\ a[2].mediator = y.mediator
    BY <1>6, <2>2
  <2>4. PICK z \in claims : z.owner = y.mediator /\ z.name = y.name
    BY <1>1, <2>1, <2>3 DEF ClaimsUnattended
  <2>5. PICK d \in Contracts : z.owner = d.id /\ <<Renamed(d), Again(z)>> \in ClaimPairs'
    BY <1>2
  <2>6. PICK b : b = <<Renamed(d), Again(z)>>
    OBVIOUS
  <2>7. b \in ClaimPairs' /\ b[1].id = z.owner /\ b[2].name = z.name
    BY <1>6, <2>5, <2>6
  <2>8. QED
    BY <2>1, <2>3, <2>4, <2>7
<1>10. QED
  BY <1>7, <1>8, <1>9

-----------------------------------------------------------------------------
(* A plan, as the contracts alone determine it. *)

OnIn(C, n) == {x \in C : x.name = n}
ModesIn(C, n) == {x.mode : x \in OnIn(C, n)}
OwnersIn(C, n) == {x.owner : x \in OnIn(C, n)}
MediatorsIn(C, n) == {x.mediator : x \in OnIn(C, n)}
OwnedOf(C, n) ==
  [resource |-> n, mode |-> CHOOSE m \in ModesIn(C, n) : TRUE, owners |-> OwnersIn(C, n),
   mediator |-> CHOOSE m \in MediatorsIn(C, n) : TRUE]
OwnedIn(C) == {OwnedOf(C, n) : n \in {x.name : x \in C}}
Shown(C) == {[owner |-> x.owner, name |-> x.name, mode |-> x.mode, mediator |-> x.mediator] : x \in C}
DutiesIn(B) ==
  UNION {{[id |-> c.id, obligation |-> o,
           provider |-> IF o.direction = "provides" THEN c.id
                        ELSE (CHOOSE b \in B : b.consumer = c.id /\ b.name = o.capability).provider] :
            o \in c.obligations} : c \in Contracts}

Planned(p) ==
  \E o \in Seq(Ids) :
    /\ Least(o)
    /\ p = [claims |-> Shown(NormalClaims), order |-> o, bindings |-> Bound,
            ownership |-> OwnedIn(NormalClaims), duties |-> DutiesIn(Bound)]

(* An accepted input has been compiled to its plan.                           *)
LEMMA CompiledIsPlanned ==
  ASSUME StageInv, At({})
  PROVE  /\ ordered \in Seq(Ids) /\ Least(ordered)
         /\ Compiled = [claims |-> Shown(NormalClaims), order |-> ordered, bindings |-> Bound,
                        ownership |-> OwnedIn(NormalClaims), duties |-> DutiesIn(Bound)]
<1>1. /\ InputOK /\ Checked /\ ~Duplicated /\ claims = NormalClaims /\ Resolved /\ Kahn /\ Sorted
      /\ ownership = OwnedAll /\ duties = DutiesOf
  BY DEF StageInv, At, Checked, Normal, Allotted
<1>2. Least(ordered)
  BY <1>1, ResolvedDeps, KahnIsLeast DEF Sorted
<1>3. OwnedAll = OwnedIn(claims)
  BY DEF OwnedAll, OwnedIn, OwnedOf, OnIn, ModesIn, OwnersIn, MediatorsIn, Owned, Names, Modes,
         Owners, Mediators, On
<1>4. DutiesOf = DutiesIn(bindings)
  BY DEF DutiesOf, DutiesIn, Provider
<1>5. Compiled = [claims |-> Shown(claims), order |-> ordered, bindings |-> bindings,
                  ownership |-> ownership, duties |-> duties]
  BY DEF Compiled, Shown
<1>6. QED
  BY <1>1, <1>2, <1>3, <1>4, <1>5 DEF Resolved, Kahn

(* There is one plan for an input.                                            *)
LEMMA PlannedIsUnique ==
  ASSUME InputOK, NEW p, NEW q, Planned(p), Planned(q)
  PROVE  p = q
BY LeastIsUnique DEF Planned

(* Owners do not depend on the name a resource was declared under.            *)
LEMMA RedeclaredOwned ==
  ASSUME NEW C
  PROVE  /\ OwnedIn({Redeclared(y) : y \in C}) = OwnedIn(C)
         /\ Shown({Redeclared(y) : y \in C}) = Shown(C)
<1>1. PICK D : D = {Redeclared(y) : y \in C}
  OBVIOUS
<1>2. \A x \in D : \E y \in C : /\ x.owner = y.owner /\ x.name = y.name /\ x.mode = y.mode
                                /\ x.mediator = y.mediator
  BY <1>1 DEF Redeclared
<1>3. \A y \in C : \E x \in D : /\ x.owner = y.owner /\ x.name = y.name /\ x.mode = y.mode
                                /\ x.mediator = y.mediator
  <2>1. SUFFICES ASSUME NEW y \in C
                 PROVE  \E x \in D : /\ x.owner = y.owner /\ x.name = y.name /\ x.mode = y.mode
                                     /\ x.mediator = y.mediator
    OBVIOUS
  <2>2. Redeclared(y) \in D
    BY <1>1
  <2>3. /\ Redeclared(y).owner = y.owner /\ Redeclared(y).name = y.name
        /\ Redeclared(y).mode = y.mode /\ Redeclared(y).mediator = y.mediator
    BY DEF Redeclared
  <2>4. QED
    BY <2>2, <2>3
<1>4. {x.name : x \in D} = {x.name : x \in C}
  BY <1>2, <1>3
<1>5. ASSUME NEW n PROVE OwnedOf(D, n) = OwnedOf(C, n)
  <2>1. \A S, m : m \in ModesIn(S, n) <=> \E x \in S : x.name = n /\ m = x.mode
    BY DEF ModesIn, OnIn
  <2>2. \A S, m : m \in OwnersIn(S, n) <=> \E x \in S : x.name = n /\ m = x.owner
    BY DEF OwnersIn, OnIn
  <2>3. \A S, m : m \in MediatorsIn(S, n) <=> \E x \in S : x.name = n /\ m = x.mediator
    BY DEF MediatorsIn, OnIn
  <2>4. \A m : m \in ModesIn(D, n) <=> m \in ModesIn(C, n)
    BY <1>2, <1>3, <2>1
  <2>5. \A m : m \in OwnersIn(D, n) <=> m \in OwnersIn(C, n)
    BY <1>2, <1>3, <2>2
  <2>6. \A m : m \in MediatorsIn(D, n) <=> m \in MediatorsIn(C, n)
    BY <1>2, <1>3, <2>3
  <2>7. ModesIn(D, n) = ModesIn(C, n) /\ OwnersIn(D, n) = OwnersIn(C, n)
        /\ MediatorsIn(D, n) = MediatorsIn(C, n)
    BY <2>4, <2>5, <2>6
  <2>8. QED
    BY <2>7 DEF OwnedOf
<1>6. OwnedIn(D) = OwnedIn(C)
  BY <1>4, <1>5 DEF OwnedIn
<1>7. Shown(D) = Shown(C)
  BY <1>2, <1>3 DEF Shown
<1>8. QED
  BY <1>1, <1>6, <1>7

(* The second pass has nothing against its input, and a plan to compare with. *)
PassInv ==
  pass = 2 =>
    /\ ~strict /\ Checked /\ ~NotGranted /\ \A r \in Requirements : ~Bad(r)
    /\ ~Cyclic /\ ~Clash /\ ~NoMediator
    /\ Planned(plan)

CompilerInv == StageInv /\ TypeOK /\ PassInv

(* The invariant answers the comparison of the two passes.                    *)
LEMMA SecondAgrees ==
  ASSUME CompilerInv
  PROVE  RecompileAgrees
<1>1. SUFFICES ASSUME pass = 2, stage = "done"
               PROVE  verdict = Accepted /\ Compiled = plan
  BY DEF RecompileAgrees
<1>2. /\ InputOK /\ ~strict /\ Checked /\ ~Duplicated /\ ~NotGranted
      /\ (\A r \in Requirements : ~Bad(r)) /\ ~Cyclic /\ ~Clash /\ ~NoMediator
      /\ Planned(plan) /\ VerdictIsReference
  BY <1>1 DEF CompilerInv, StageInv, PassInv, Checked
<1>3. \A j \in 1..(11 - 1) : ~Holds(j)
  <2>1. ~Holds(1) /\ ~Holds(2) /\ ~Holds(3)
    BY <1>2, InputFacts DEF Checked, Holds
  <2>2. ~Holds(4) /\ ~Holds(5) /\ ~Holds(6)
    BY <1>2 DEF Holds, Unknown, BadMode
  <2>3. ~Holds(7)
    BY <1>2, UnmetFound DEF Holds
  <2>4. ~Holds(8) /\ ~Holds(9) /\ ~Holds(10)
    BY <1>2 DEF Holds
  <2>5. QED
    BY <2>1, <2>2, <2>3, <2>4
<1>4. Holds(11) /\ Codes(11) = {Accepted}
  BY DEF Holds, Codes
<1>5. verdict = Accepted
  BY <1>1, <1>2, <1>3, <1>4, FirstIs DEF VerdictIsReference
<1>6. Planned(Compiled)
  BY <1>1, <1>5, CompiledIsPlanned DEF CompilerInv, At, Planned
<1>7. QED
  BY <1>2, <1>5, <1>6, PlannedIsUnique

(* An accepted plan is what its contracts mean.                               *)
LEMMA PlanMeets ==
  ASSUME StageInv
  PROVE  PlanIsReference
<1>1. SUFFICES ASSUME stage = "done", verdict = Accepted
               PROVE  Least(ordered) /\ OwnershipMeets /\ BindingsMeet
  BY DEF PlanIsReference
<1>2. /\ InputOK /\ ~Duplicated /\ claims = NormalClaims /\ Resolved /\ ~Clash /\ ~NoMediator
      /\ ownership = OwnedAll /\ duties = DutiesOf /\ At({})
  BY <1>1 DEF StageInv, At, Checked, Normal, Allotted
<1>3. Least(ordered)
  BY <1>2, CompiledIsPlanned
<1>4. OwnershipMeets
  BY <1>2, OwnedMeets
<1>5. BindingsMeet
  BY <1>2, ResolvedMeets
<1>6. QED
  BY <1>3, <1>4, <1>5

(* Within a pass the comparison stays as it is.                               *)
LEMMA PassKept ==
  ASSUME PassInv, UNCHANGED <<input, strict, pass, plan>>
  PROVE  PassInv'
<1>1. /\ Contracts' = Contracts /\ Ids' = Ids /\ Requirements' = Requirements
      /\ Provisions' = Provisions
  BY KeptContracts
<1>2. (\A r : Bad(r)' <=> Bad(r)) /\ Bound' = Bound
  BY <1>1, KeptOffers
<1>3. /\ (Cyclic' <=> Cyclic) /\ \A o : Least(o)' <=> Least(o)
  BY KeptNeeds
<1>4. NormalClaims' = NormalClaims /\ (Clash' <=> Clash) /\ (NoMediator' <=> NoMediator)
  BY KeptClaims
<1>5. (Checked' <=> Checked) /\ (NotGranted' <=> NotGranted)
  BY KeptStages
<1>6. \A B : DutiesIn(B)' = DutiesIn(B)
  BY <1>1 DEF DutiesIn
<1>7. Planned(plan)' <=> Planned(plan)
  BY <1>1, <1>2, <1>3, <1>4, <1>6 DEF Planned
<1>8. QED
  BY <1>1, <1>2, <1>3, <1>4, <1>5, <1>7 DEF PassInv

(* The second pass starts with the plan of the first.                         *)
LEMMA RecompileKeeps ==
  ASSUME CompilerInv, Recompile
  PROVE  CompilerInv'
<1>1. StageInv /\ At({}) /\ Resolved /\ Checked /\ claims = NormalClaims /\ InputOK
  BY DEF CompilerInv, Recompile, At, StageInv, Normal
<1>2. /\ Contracts' = {Renamed(c) : c \in Contracts} /\ Ids' = Ids
      /\ Len(input') = Len(input) /\ InputOK' /\ ~Duplicated'
  BY <1>1, SecondInput
<1>3. /\ HostFits' /\ ~NotGranted' /\ Requirements' = Requirements /\ Provisions' = Provisions
      /\ ~Cyclic' /\ \A o \in Seq(Ids) : Least(o)' <=> Least(o)
  BY <1>1, SecondNeeds
<1>4. NormalClaims' = {Redeclared(y) : y \in NormalClaims} /\ ~Clash' /\ ~NoMediator'
  BY <1>1, SecondClaims
<1>5. (\A r : Bad(r)' <=> Bad(r)) /\ Bound' = Bound
  BY <1>3, KeptOffers
<1>6. Checked'
  BY <1>1, <1>2, <1>3 DEF Checked
<1>7. \A r \in Requirements' : ~Bad(r)'
  BY <1>1, <1>3, <1>5 DEF Resolved
<1>8. \A B : DutiesIn(B)' = DutiesIn(B)
  <2>1. \A c \in Contracts : Renamed(c).id = c.id /\ Renamed(c).obligations = c.obligations
    BY <1>1, RenamedIs
  <2>2. \A B : DutiesIn(B)' =
  UNION {{[id |-> c.id, obligation |-> o,
           provider |-> IF o.direction = "provides" THEN c.id
                        ELSE (CHOOSE b \in B : b.consumer = c.id /\ b.name = o.capability).provider] :
            o \in c.obligations} : c \in Contracts'}
    BY DEF DutiesIn
  <2>3. QED
    BY <1>2, <2>1, <2>2 DEF DutiesIn
<1>9. Shown(NormalClaims)' = Shown(NormalClaims) /\ OwnedIn(NormalClaims)' = OwnedIn(NormalClaims)
  <2>1. /\ Shown(NormalClaims)' = Shown(NormalClaims')
        /\ OwnedIn(NormalClaims)' = OwnedIn(NormalClaims')
    BY DEF Shown, OwnedIn
  <2>2. QED
    BY <1>4, <2>1, RedeclaredOwned
<1>10. Planned(plan)'
  <2>1. PICK o, B : o = ordered /\ B = Bound
    OBVIOUS
  <2>2. /\ o \in Seq(Ids) /\ Least(o)
        /\ plan' = [claims |-> Shown(NormalClaims), order |-> o, bindings |-> B,
                    ownership |-> OwnedIn(NormalClaims), duties |-> DutiesIn(B)]
    BY <1>1, <2>1, CompiledIsPlanned DEF Recompile
  <2>3. o \in Seq(Ids') /\ Least(o)' /\ DutiesIn(B)' = DutiesIn(B) /\ Bound' = B
    BY <1>2, <1>3, <1>5, <1>8, <2>1, <2>2
  <2>4. DutiesIn(Bound)' = DutiesIn(B)'
    BY <2>3 DEF DutiesIn
  <2>5. QED
    BY <1>9, <2>2, <2>3, <2>4 DEF Planned
<1>11. /\ strict' = FALSE /\ pass' = 2 /\ stage' = "check" /\ verdict' = Pending
       /\ ordered' = << >> /\ ready' = {}
  BY DEF Recompile
<1>12. StageInv'
  BY <1>2, <1>11 DEF StageInv, At, Stages, Pending, VerdictIsReference
<1>13. TypeOK'
  <2>1. ordered' \in Seq(Ids')
    BY <1>11
  <2>2. QED
    BY <1>11, <1>12, <2>1 DEF TypeOK, StageInv
<1>14. PassInv'
  BY <1>3, <1>4, <1>6, <1>7, <1>10, <1>11 DEF PassInv
<1>15. QED
  BY <1>12, <1>13, <1>14 DEF CompilerInv

(* Every stage keeps the invariant of its pass.                               *)
LEMMA StagesKeep ==
  ASSUME CompilerInv,
         Check \/ Normalize \/ Authority \/ Resolve \/ Pop \/ OrderEnds \/ Resources
           \/ BindObligations \/ UNCHANGED vars
  PROVE  CompilerInv'
<1>1. StageInv'
  BY CheckKeeps, NormalizeKeeps, AuthorityKeeps, ResolveKeeps, PopKeeps, OrderEndsKeeps,
     ResourcesKeeps, BindKeeps, StutterKeeps DEF CompilerInv
<1>2. UNCHANGED <<input, strict, pass, plan>>
  BY DEF Check, Normalize, Authority, Resolve, Pop, OrderEnds, Resources, BindObligations, Reject,
         Goto, vars
<1>3. Ids' = Ids
  BY <1>2, KeptContracts
<1>4. ready' \subseteq Ids' /\ ordered' \in Seq(Ids')
  <2>1. CASE Resolve
    BY <1>3, <2>1 DEF Resolve, Reject, Goto, work, CompilerInv, TypeOK
  <2>2. CASE Pop
    <3>1. Kahn'
      BY <1>1, <2>2 DEF Pop, StageInv, At
    <3>2. QED
      BY <3>1 DEF Kahn, Free
  <2>3. CASE ready' = ready /\ ordered' = ordered
    BY <1>3, <2>3 DEF CompilerInv, TypeOK
  <2>4. QED
    BY <2>1, <2>2, <2>3 DEF Check, Normalize, Authority, OrderEnds, Resources, BindObligations,
                            Reject, Goto, work, vars
<1>5. TypeOK'
  BY <1>1, <1>4 DEF TypeOK, StageInv
<1>6. PassInv'
  BY <1>2, PassKept DEF CompilerInv
<1>7. QED
  BY <1>1, <1>5, <1>6 DEF CompilerInv

(* The inductive invariant holds: at every stage of both passes, what the     *)
(* stages before it decided is what the contracts mean.                       *)
LEMMA CompilerSafe == Spec => []CompilerInv
<1>1. Init => CompilerInv
  <2>1. SUFFICES ASSUME Init PROVE CompilerInv
    OBVIOUS
  <2>2. StageInv
    BY <2>1, StageInit
  <2>3. ordered = << >> /\ ready = {} /\ pass = 1
    BY <2>1 DEF Init
  <2>4. ordered \in Seq(Ids)
    BY <2>3
  <2>5. TypeOK
    BY <2>2, <2>3, <2>4 DEF TypeOK, StageInv
  <2>6. QED
    BY <2>2, <2>3, <2>5 DEF CompilerInv, PassInv
<1>2. CompilerInv /\ [Next]_vars => CompilerInv'
  BY StagesKeep, RecompileKeeps DEF Next
<1>3. QED
  BY <1>1, <1>2, PTL DEF Spec

(* Every variable of compile_contracts keeps its type: the heap and the order *)
(* name extensions of the input, and a verdict is given exactly at the end.   *)
THEOREM CompilerTypes == Spec => []TypeOK
<1>1. CompilerInv => TypeOK
  BY DEF CompilerInv
<1>2. QED
  BY <1>1, CompilerSafe, PTL

(* Whatever the contracts and the taxonomy, compile_contracts accepts exactly *)
(* the inputs nothing speaks against, and rejects the others for the first    *)
(* reason in the order of decision_precedence.                                *)
THEOREM VerdictHolds == Spec => []VerdictIsReference
<1>1. CompilerInv => VerdictIsReference
  BY DEF CompilerInv, StageInv
<1>2. QED
  BY <1>1, CompilerSafe, PTL

(* The plan of every accepted input is the one its contracts mean: the least  *)
(* topological order, the owners of every resource, the provider of every     *)
(* requirement and obligation.                                                *)
THEOREM PlanHolds == Spec => []PlanIsReference
<1>1. CompilerInv => PlanIsReference
  BY PlanMeets DEF CompilerInv
<1>2. QED
  BY <1>1, CompilerSafe, PTL

(* compile_native_semantic_plan, which compiles a plan again without the      *)
(* taxonomy, accepts every plan compile_contracts made and finds the same one. *)
THEOREM RecompileHolds == Spec => []RecompileAgrees
<1>1. CompilerInv => RecompileAgrees
  BY SecondAgrees
<1>2. QED
  BY <1>1, CompilerSafe, PTL

=============================================================================
