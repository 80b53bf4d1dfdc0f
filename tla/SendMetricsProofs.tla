------------------------- MODULE SendMetricsProofs --------------------------
(***************************************************************************)
(* SendMetrics for any number of threads, chunks of any length and any     *)
(* limit on a request: what a request may carry, the order of the points   *)
(* of a series, that a row which cannot be mapped writes nothing, and that *)
(* every pass leaves less of a chunk to do.                                *)
(*                                                                         *)
(* The invariant follows the points of a chunk: while it is written every  *)
(* point is pending, under way or reported, and whatever is under way or   *)
(* stored comes after all earlier points of its series.                    *)
(***************************************************************************)
EXTENDS SendMetrics, FiniteSetTheorems, WellFoundedInduction, TLAPS

-----------------------------------------------------------------------------
(* The least element of a set of rows                                      *)

LEMMA LeastOf ==
  ASSUME NEW S \in SUBSET Nat, S # {}
  PROVE  \E x \in S : \A y \in S : x <= y
<1> DEFINE Below == {0..x : x \in S}
<1>1. Below \subseteq FiniteSubsetsOf(Nat) /\ Below # {}
  <2>1. \A x \in S : 0..x \subseteq Nat /\ IsFiniteSet(0..x)
    BY FS_Interval
  <2> QED
    BY <2>1 DEF FiniteSubsetsOf
<1> HIDE DEF Below
<1>2. PICK b \in Below : \A c \in Below : <<c, b>> \notin StrictSubsetOrdering(Nat)
  BY <1>1, FS_StrictSubsetOrderingWellFounded, WFMin
<1>3. PICK x \in S : b = 0..x
  BY DEF Below
<1>4. ASSUME NEW y \in S, y < x PROVE FALSE
  <2>1. 0..y \subseteq 0..x /\ x \in 0..x /\ x \notin 0..y
    BY <1>4
  <2>2. 0..y \in Below /\ 0..y \subseteq Nat /\ 0..x \subseteq Nat
    BY DEF Below
  <2>3. 0..y # 0..x
    BY <2>1
  <2>4. <<0..y, 0..x>> \in StrictSubsetOrdering(Nat)
    BY <2>1, <2>2, <2>3 DEF StrictSubsetOrdering
  <2> QED
    BY <1>2, <1>3, <2>2, <2>4
<1> QED
  BY <1>4

\* The greatest element of a bounded one: the least of its bounds.
LEMMA GreatestOf ==
  ASSUME NEW S \in SUBSET Nat, S # {}, NEW n \in Nat, \A x \in S : x <= n
  PROVE  \E x \in S : \A y \in S : y <= x
<1> DEFINE U == {u \in Nat : \A x \in S : x <= u}
<1>1. U \in SUBSET Nat /\ U # {}
  OBVIOUS
<1> HIDE DEF U
<1>2. PICK u \in U : \A v \in U : u <= v
  BY <1>1, LeastOf
<1>3. u \in Nat /\ \A x \in S : x <= u
  BY DEF U
<1>4. CASE u \in S
  BY <1>3, <1>4
<1>5. CASE u \notin S
  <2>1. \A x \in S : x \in Nat /\ x <= u - 1
    BY <1>3, <1>5
  <2>2. PICK x \in S : TRUE
    OBVIOUS
  <2>3. u - 1 \in Nat
    BY <1>3, <2>1, <2>2
  <2>4. u - 1 \in U
    BY <2>1, <2>3 DEF U
  <2> QED
    BY <1>2, <1>3, <2>4
<1> QED
  BY <1>4, <1>5

\* The elements of F that have fewer than k others before them.
First(F, k) == {i \in F : Cardinality({j \in F : j < i}) < k}

\* There are at most k, and k if any element is left out.
LEMMA FirstFew ==
  ASSUME NEW F \in SUBSET Nat, NEW n \in Nat, \A x \in F : x <= n, NEW k \in Nat \ {0}
  PROVE  /\ IsFiniteSet(First(F, k)) /\ Cardinality(First(F, k)) <= k
         /\ F # {} => First(F, k) # {}
         /\ First(F, k) # F => Cardinality(First(F, k)) = k
<1> DEFINE B == First(F, k)
<1>b. B = {i \in F : Cardinality({j \in F : j < i}) < k}
  BY DEF First
<1> HIDE DEF B
<1>1. IsFiniteSet(F) /\ B \subseteq F /\ IsFiniteSet(B) /\ Cardinality(B) \in Nat
  <2>1. IsFiniteSet(F)
    BY FS_BoundedSetOfNaturals
  <2> QED
    BY <1>b, <2>1, FS_Subset, FS_CardinalityType
<1>n. \A i \in F : i \in Nat
  OBVIOUS
<1>2. \A i \in F : IsFiniteSet({j \in F : j < i}) /\ Cardinality({j \in F : j < i}) \in Nat
  BY <1>1, FS_Subset, FS_CardinalityType
<1>3. Cardinality(B) <= k
  <2>1. CASE B = {}
    <3>1. Cardinality(B) = 0
      BY <2>1, FS_EmptySet
    <3> QED
      BY <3>1
  <2>2. CASE B # {}
    <3>1. PICK m \in B : \A y \in B : y <= m
      BY <1>1, <2>2, GreatestOf
    <3> DEFINE P == {j \in F : j < m}
    <3>2. ASSUME NEW y \in B \ {m} PROVE y \in P
      <4>1. y \in F /\ m \in F /\ y <= m /\ y # m
        BY <1>1, <3>1
      <4>2. y < m
        BY <1>n, <4>1
      <4> QED
        BY <4>1, <4>2
    <3>3. Cardinality(B \ {m}) = Cardinality(B) - 1 /\ IsFiniteSet(B \ {m})
      BY <1>1, <3>1, FS_RemoveElement
    <3>4. IsFiniteSet(P) /\ Cardinality(P) \in Nat /\ Cardinality(P) < k
      BY <1>b, <1>1, <1>2, <3>1
    <3>5. Cardinality(B \ {m}) <= Cardinality(P)
      <4>1. B \ {m} \subseteq P
        BY <3>2
      <4> QED
        BY <4>1, <3>4, FS_Subset
    <3> QED
      BY <1>1, <3>3, <3>4, <3>5
  <2> QED
    BY <2>1, <2>2
<1>4. ASSUME F # {} PROVE B # {}
  <2>1. PICK m \in F : \A y \in F : m <= y
    BY <1>4, LeastOf
  <2>2. {j \in F : j < m} = {}
    <3> SUFFICES ASSUME NEW j \in F, j < m PROVE FALSE
      OBVIOUS
    <3> QED
      BY <1>n, <2>1
  <2>3. Cardinality({j \in F : j < m}) = 0
    BY <2>2, FS_EmptySet
  <2> QED
    BY <1>b, <2>1, <2>3
<1>5. ASSUME B # F PROVE Cardinality(B) = k
  <2>1. F \ B \in SUBSET Nat /\ F \ B # {}
    BY <1>1, <1>5
  <2>2. PICK m \in F \ B : \A y \in F \ B : m <= y
    BY <2>1, LeastOf
  <2>3. {j \in F : j < m} \subseteq B
    <3> SUFFICES ASSUME NEW j \in F, j < m PROVE j \in B
      OBVIOUS
    <3> QED
      BY <1>n, <2>2
  <2>4. Cardinality({j \in F : j < m}) <= Cardinality(B)
    BY <1>1, <2>3, FS_Subset
  <2>5. ~(Cardinality({j \in F : j < m}) < k)
    BY <1>b, <2>2
  <2> QED
    BY <1>1, <1>2, <1>3, <2>2, <2>4, <2>5
<1> QED
  BY <1>1, <1>3, <1>4, <1>5 DEF B

-----------------------------------------------------------------------------
(* The invariant                                                           *)

Functions ==
  /\ pc \in [Thread -> {"idle", "lock", "pass", "call", "done", "failed"}]
  /\ chunk \in [Thread -> Chunks \cup {<< >>}]
  /\ pending \in [Thread -> SUBSET Nat]
  /\ batch \in [Thread -> SUBSET Nat]
  /\ stored \in [Thread -> SUBSET Nat]
  /\ ok \in [Thread -> SUBSET Nat]
  /\ requests \in [Thread -> Nat]
  /\ mutex \in Thread \cup {NoThread}

\* What is pending, under way, stored or reported are points of the chunk.
OfTheChunk(t) ==
  \A rows \in {pending[t], batch[t], stored[t], ok[t]} :
    \A i \in rows : i \in DOMAIN chunk[t] /\ Point(t, i) \notin {Null, Invalid}

Shape(t) ==
  /\ pc[t] = "idle" => pending[t] = {} /\ chunk[t] = << >>
  /\ pc[t] \in {"idle", "lock"} =>
       batch[t] = {} /\ stored[t] = {} /\ ok[t] = {} /\ requests[t] = 0
  /\ pc[t] # "call" => batch[t] = {}
  /\ pc[t] = "call" => batch[t] # {}
  /\ pc[t] \in {"pass", "call"} <=> mutex = t

\* While the chunk is written no point of it is forgotten.
Accounted(t) ==
  pc[t] \in {"lock", "pass", "call"} =>
    \A i \in DOMAIN chunk[t] : Point(t, i) # Null => i \in pending[t] \cup batch[t] \cup ok[t]

Refused(t) ==
  (\E i \in DOMAIN chunk[t] : Point(t, i) = Invalid) => pc[t] = "failed" /\ requests[t] = 0

\* SeriesInOrder, of the points under way too.
Ordered(t) ==
  \A j \in stored[t] \cup batch[t] : \A i \in 1..j - 1 :
    Point(t, i) # Null /\ Series(t, i) = Series(t, j) => i \in ok[t]

Acceptable(t) ==
  /\ Cardinality(batch[t]) <= MaxBatch
  /\ \A i, j \in batch[t] : Series(t, i) = Series(t, j) => i = j
  /\ pc[t] = "call" =>
       \A i \in pending[t] : \/ Cardinality(batch[t]) = MaxBatch
                             \/ \E j \in batch[t] : Series(t, j) = Series(t, i)

Good(t) ==
  OfTheChunk(t) /\ Shape(t) /\ Accounted(t) /\ Refused(t) /\ Ordered(t) /\ Acceptable(t)

IInv == Functions /\ \A t \in Thread : Good(t)

\* The variables of a thread, and of it the lock: what Good(t) reads.
Untouched(t) ==
  /\ pc'[t] = pc[t] /\ chunk'[t] = chunk[t] /\ pending'[t] = pending[t]
  /\ batch'[t] = batch[t] /\ stored'[t] = stored[t] /\ ok'[t] = ok[t]
  /\ requests'[t] = requests[t]
  /\ (mutex' = t) <=> (mutex = t)

LEMMA OthersKeepGood ==
  ASSUME NEW t \in Thread, Untouched(t), Good(t)
  PROVE  Good(t)'
<1>1. OfTheChunk(t)'
  BY DEF Good, Untouched, OfTheChunk, Point
<1>2. Shape(t)' /\ Accounted(t)' /\ Refused(t)'
  BY DEF Good, Untouched, Shape, Accounted, Refused, Point
<1>3. Ordered(t)' /\ Acceptable(t)'
  BY DEF Good, Untouched, Ordered, Acceptable, Point, Series
<1> QED
  BY <1>1, <1>2, <1>3 DEF Good

LEMMA InitIsGood == Init => IInv
<1> SUFFICES ASSUME Init PROVE IInv
  OBVIOUS
<1>1. Functions
  BY DEF Init, Functions
<1>2. Cardinality({}) = 0
  BY FS_EmptySet
<1>3. ASSUME NEW t \in Thread PROVE Good(t)
  <2>1. DOMAIN chunk[t] = {} /\ mutex # t
    BY NoThreadAssumption DEF Init
  <2> QED
    BY <1>2, <2>1, MaxBatchAssumption
       DEF Good, OfTheChunk, Shape, Accounted, Refused, Ordered, Acceptable, Init
<1> QED
  BY <1>1, <1>3 DEF IInv

-----------------------------------------------------------------------------
(* The batch of a pass                                                     *)

\* NextBatch takes one point of a series, the earliest pending one, and leaves a point
\* out only for a full batch or for another of its series.
LEMMA TheBatch ==
  ASSUME NEW t \in Thread, IInv
  PROVE  /\ NextBatch(t) \subseteq pending[t]
         /\ Cardinality(NextBatch(t)) <= MaxBatch
         /\ pending[t] # {} => NextBatch(t) # {}
         /\ \A i \in NextBatch(t) : \A j \in pending[t] :
              j < i => Series(t, j) # Series(t, i)
         /\ \A i \in pending[t] \ NextBatch(t) :
              \/ Cardinality(NextBatch(t)) = MaxBatch
              \/ \E j \in NextBatch(t) : Series(t, j) = Series(t, i)
<1> DEFINE F == Firsts(t)
           B == NextBatch(t)
<1>1. F \subseteq pending[t] /\ pending[t] \in SUBSET Nat
  BY DEF Firsts, IInv, Functions
<1>2. chunk[t] = << >> \/ (Len(chunk[t]) \in Nat /\ DOMAIN chunk[t] = 1..Len(chunk[t]))
  BY ChunksAssumption DEF IInv, Functions
<1>3. PICK n \in Nat : \A x \in pending[t] : x <= n
  <2>1. \A x \in pending[t] : x \in DOMAIN chunk[t]
    BY DEF IInv, Good, OfTheChunk
  <2>2. CASE chunk[t] = << >>
    BY <2>1, <2>2
  <2>3. CASE Len(chunk[t]) \in Nat /\ DOMAIN chunk[t] = 1..Len(chunk[t])
    BY <2>1, <2>3
  <2> QED
    BY <1>2, <2>2, <2>3
\* every pending point has the earliest of its series among the firsts
<1>4. ASSUME NEW i \in pending[t]
      PROVE  \E j \in F : Series(t, j) = Series(t, i)
  <2> DEFINE S == {j \in pending[t] : Series(t, j) = Series(t, i)}
  <2>1. S \in SUBSET Nat /\ S # {}
    BY <1>1
  <2>2. PICK m \in S : \A y \in S : m <= y
    BY <2>1, LeastOf
  <2>3. m \in pending[t] /\ Series(t, m) = Series(t, i)
    BY <2>2
  <2>4. ASSUME NEW j \in pending[t], j < m PROVE Series(t, j) # Series(t, m)
    <3> SUFFICES ASSUME Series(t, j) = Series(t, m) PROVE FALSE
      OBVIOUS
    <3>1. j \in S
      BY <2>3
    <3>2. m <= j /\ j \in Nat /\ m \in Nat
      BY <1>1, <2>2, <2>3, <3>1
    <3> QED
      BY <2>4, <3>2
  <2> QED
    BY <2>3, <2>4 DEF Firsts
<1>5. B = First(F, MaxBatch)
  BY DEF NextBatch, First
<1>6. F \in SUBSET Nat /\ \A x \in F : x <= n
  BY <1>1, <1>3
<1> HIDE DEF F, B
<1>7. /\ Cardinality(B) <= MaxBatch
      /\ F # {} => B # {}
      /\ B # F => Cardinality(B) = MaxBatch
  BY <1>5, <1>6, MaxBatchAssumption, FirstFew
<1>8. B \subseteq F
  BY <1>5 DEF First
<1>9. pending[t] # {} => F # {}
  BY <1>4
<1>10. \A i \in F : \A j \in pending[t] : j < i => Series(t, j) # Series(t, i)
  BY DEF F, Firsts
<1>11. ASSUME NEW i \in pending[t], Cardinality(B) # MaxBatch
       PROVE  \E j \in B : Series(t, j) = Series(t, i)
  BY <1>4, <1>7, <1>11
<1> QED
  BY <1>1, <1>7, <1>8, <1>9, <1>10, <1>11 DEF B

-----------------------------------------------------------------------------
(* Every step keeps the invariant.  Of the threads only the one that moves *)
(* has to be looked at.                                                    *)

LEMMA OnlyTheMover ==
  ASSUME IInv, NEW t \in Thread, Functions', Good(t)',
         \A u \in Thread \ {t} : Untouched(u)
  PROVE  IInv'
<1>1. ASSUME NEW u \in Thread PROVE Good(u)'
  <2>1. CASE u = t
    BY <2>1
  <2>2. CASE u # t
    BY <2>2, OthersKeepGood DEF IInv
  <2> QED
    BY <2>1, <2>2
<1> QED
  BY <1>1 DEF IInv

LEMMA EvaluateIsGood ==
  ASSUME IInv, NEW t \in Thread, Evaluate(t)
  PROVE  IInv'
<1>1. PICK c \in Chunks : chunk' = [chunk EXCEPT ![t] = c] /\ MapRows(t, c)
  BY DEF Evaluate
<1>2. DOMAIN c \subseteq Nat
  BY ChunksAssumption
<1>3. pc[t] = "idle" /\ UNCHANGED <<batch, stored, ok, requests, mutex>>
  BY DEF Evaluate
<1>4. Functions
  BY DEF IInv
<1>5. /\ pending[t] = {} /\ batch[t] = {} /\ stored[t] = {} /\ ok[t] = {}
      /\ requests[t] = 0 /\ mutex # t
  BY <1>3 DEF IInv, Good, Shape
<1>6. chunk'[t] = c /\ chunk' \in [Thread -> Chunks \cup {<< >>}]
  BY <1>1, <1>4 DEF Functions
<1>7. Cardinality({}) = 0
  BY FS_EmptySet
<1>8. CASE \E i \in DOMAIN c : c[i] = Invalid
  <2>1. pc' = [pc EXCEPT ![t] = "failed"] /\ pending' = pending
    BY <1>1, <1>8 DEF MapRows
  <2>2. Functions'
    BY <1>3, <1>4, <1>6, <2>1 DEF Functions
  <2>3. pc'[t] = "failed"
    BY <1>4, <2>1 DEF Functions
  <2>4. Good(t)'
    BY <1>3, <1>5, <1>7, <2>1, <2>3, MaxBatchAssumption
       DEF Good, OfTheChunk, Shape, Accounted, Refused, Ordered, Acceptable
  <2>5. \A u \in Thread \ {t} : Untouched(u)
    BY <1>1, <1>3, <1>4, <2>1 DEF Untouched, Functions
  <2> QED
    BY <2>2, <2>4, <2>5, OnlyTheMover
<1>9. CASE ~ \E i \in DOMAIN c : c[i] = Invalid
  <2>1. /\ pc' = [pc EXCEPT ![t] = "lock"]
        /\ pending' = [pending EXCEPT ![t] = {i \in DOMAIN c : c[i] # Null}]
    BY <1>1, <1>9 DEF MapRows
  <2>2. Functions'
    BY <1>2, <1>3, <1>4, <1>6, <2>1 DEF Functions
  <2>3. pc'[t] = "lock" /\ pending'[t] = {i \in DOMAIN c : c[i] # Null}
    BY <1>4, <2>1 DEF Functions
  <2>4. OfTheChunk(t)' /\ Refused(t)' /\ Accounted(t)'
    BY <1>3, <1>5, <1>6, <1>9, <2>3 DEF OfTheChunk, Refused, Accounted, Point
  <2>5. Shape(t)' /\ Ordered(t)' /\ Acceptable(t)'
    BY <1>3, <1>5, <1>7, <2>3, MaxBatchAssumption DEF Shape, Ordered, Acceptable
  <2>6. \A u \in Thread \ {t} : Untouched(u)
    BY <1>1, <1>3, <1>4, <2>1 DEF Untouched, Functions
  <2>7. Good(t)'
    BY <2>4, <2>5 DEF Good
  <2> QED
    BY <2>2, <2>6, <2>7, OnlyTheMover
<1> QED
  BY <1>8, <1>9

LEMMA LockIsGood ==
  ASSUME IInv, NEW t \in Thread, Lock(t)
  PROVE  IInv'
<1>1. Functions /\ Good(t)
  BY DEF IInv
<1>2. Functions'
  BY <1>1 DEF Lock, Functions
<1>3. pc'[t] = "pass" /\ mutex' = t /\ pc[t] = "lock"
  BY <1>1 DEF Lock, Functions
<1>4. UNCHANGED <<chunk, pending, batch, stored, ok, requests>>
  BY DEF Lock
<1>5. OfTheChunk(t)' /\ Refused(t)' /\ Accounted(t)'
  BY <1>1, <1>3, <1>4 DEF Good, OfTheChunk, Refused, Accounted, Point
<1>6. Shape(t)' /\ Ordered(t)' /\ Acceptable(t)'
  BY <1>1, <1>3, <1>4 DEF Good, Shape, Ordered, Acceptable, Point, Series
<1>7. \A u \in Thread \ {t} : Untouched(u)
  BY <1>1, NoThreadAssumption DEF Lock, Untouched, Functions
<1>8. Good(t)'
  BY <1>5, <1>6 DEF Good
<1> QED
  BY <1>2, <1>7, <1>8, OnlyTheMover

LEMMA PassIsGood ==
  ASSUME IInv, NEW t \in Thread, Pass(t)
  PROVE  IInv'
<1> DEFINE B == NextBatch(t)
<1>1. Functions /\ Good(t)
  BY DEF IInv
<1>2. /\ B \subseteq pending[t] /\ Cardinality(B) <= MaxBatch
      /\ pending[t] # {} => B # {}
      /\ \A i \in B : \A j \in pending[t] : j < i => Series(t, j) # Series(t, i)
      /\ \A i \in pending[t] \ B :
           Cardinality(B) = MaxBatch \/ \E j \in B : Series(t, j) = Series(t, i)
  BY TheBatch
<1>3. /\ pc[t] = "pass" /\ pending[t] # {} /\ pc' = [pc EXCEPT ![t] = "call"]
      /\ batch' = [batch EXCEPT ![t] = B]
      /\ pending' = [pending EXCEPT ![t] = @ \ B]
      /\ requests' = [requests EXCEPT ![t] = @ + 1]
      /\ UNCHANGED <<chunk, stored, ok, mutex>>
  BY DEF Pass
<1> HIDE DEF B
<1>4. Functions'
  BY <1>1, <1>2, <1>3 DEF Functions
<1>5. pc'[t] = "call" /\ batch'[t] = B /\ pending'[t] = pending[t] \ B
  BY <1>1, <1>3 DEF Functions
<1>6. \A i \in pending[t] : i \in Nat
  BY <1>1 DEF Functions
<1>7. OfTheChunk(t)' /\ Shape(t)' /\ Accounted(t)'
  BY <1>1, <1>2, <1>3, <1>5 DEF Good, OfTheChunk, Shape, Accounted, Point
<1>8. Refused(t)'
  BY <1>1, <1>3 DEF Good, Refused, Point
<1>9. Ordered(t)'
  <2> SUFFICES ASSUME NEW j \in stored[t] \cup B, NEW i \in 1..j - 1,
                      Point(t, i) # Null, Series(t, i) = Series(t, j)
               PROVE  i \in ok[t]
    BY <1>3, <1>5 DEF Ordered, Point, Series
  <2>1. CASE j \in stored[t]
    BY <1>1, <2>1 DEF Good, Ordered
  <2>2. CASE j \in B
    <3>1. j \in pending[t] /\ j \in Nat /\ i \in Nat /\ i < j /\ i >= 1
      BY <1>2, <1>6, <2>2
    <3>2. j \in DOMAIN chunk[t]
      BY <1>1, <3>1 DEF Good, OfTheChunk
    <3>3. chunk[t] \in Chunks \/ chunk[t] = << >>
      BY <1>1 DEF Functions
    <3>4. CASE chunk[t] = << >>
      BY <3>2, <3>4
    <3>5. CASE chunk[t] \in Chunks
      <4>1. Len(chunk[t]) \in Nat /\ DOMAIN chunk[t] = 1..Len(chunk[t])
        BY <3>5, ChunksAssumption
      <4>2. i \in DOMAIN chunk[t]
        BY <3>1, <3>2, <4>1
      <4>3. i \in pending[t] \cup batch[t] \cup ok[t] /\ batch[t] = {}
        BY <1>1, <1>3, <4>2 DEF Good, Accounted, Shape
      <4>4. i \notin pending[t]
        BY <1>2, <2>2, <3>1
      <4> QED
        BY <4>3, <4>4
    <3> QED
      BY <3>3, <3>4, <3>5
  <2> QED
    BY <2>1, <2>2
<1>10. Acceptable(t)'
  <2>1. ASSUME NEW i \in B, NEW j \in B, Series(t, i) = Series(t, j) PROVE i = j
    <3>1. i \in pending[t] /\ j \in pending[t] /\ i \in Nat /\ j \in Nat
      BY <1>2, <1>6
    <3>2. ~(i < j) /\ ~(j < i)
      BY <1>2, <2>1, <3>1
    <3> QED
      BY <3>1, <3>2
  <2> QED
    BY <1>2, <1>3, <1>5, <2>1 DEF Acceptable, Series
<1>11. \A u \in Thread \ {t} : Untouched(u)
  BY <1>1, <1>3 DEF Untouched, Functions
<1>12. Good(t)'
  BY <1>7, <1>8, <1>9, <1>10 DEF Good
<1> QED
  BY <1>4, <1>11, <1>12, OnlyTheMover

LEMMA StoreIsGood ==
  ASSUME IInv, NEW t \in Thread, Store(t)
  PROVE  IInv'
<1>1. Functions /\ Good(t)
  BY DEF IInv
<1>2. PICK points \in SUBSET batch[t] \ {{}} : stored' = [stored EXCEPT ![t] = @ \cup points]
  BY DEF Store
<1>3. pc[t] = "call" /\ UNCHANGED <<pc, chunk, pending, batch, ok, requests, mutex>>
  BY DEF Store
<1>4. Functions' /\ stored'[t] = stored[t] \cup points /\ points \subseteq batch[t]
  BY <1>1, <1>2, <1>3 DEF Functions
<1>5. OfTheChunk(t)' /\ Shape(t)' /\ Accounted(t)' /\ Refused(t)'
  BY <1>1, <1>3, <1>4 DEF Good, OfTheChunk, Shape, Accounted, Refused, Point
<1>6. Ordered(t)' /\ Acceptable(t)'
  BY <1>1, <1>3, <1>4 DEF Good, Ordered, Acceptable, Point, Series
<1>7. \A u \in Thread \ {t} : Untouched(u)
  BY <1>1, <1>2, <1>3 DEF Untouched, Functions
<1>8. Good(t)'
  BY <1>5, <1>6 DEF Good
<1> QED
  BY <1>4, <1>7, <1>8, OnlyTheMover

LEMMA CallReturnsIsGood ==
  ASSUME IInv, NEW t \in Thread, CallReturns(t)
  PROVE  IInv'
<1>1. Functions /\ Good(t)
  BY DEF IInv
<1>2. /\ pc[t] = "call" /\ batch[t] \subseteq stored[t]
      /\ ok' = [ok EXCEPT ![t] = @ \cup batch[t]]
      /\ batch' = [batch EXCEPT ![t] = {}]
      /\ pc' = [pc EXCEPT ![t] = "pass"]
      /\ UNCHANGED <<chunk, pending, stored, requests, mutex>>
  BY DEF CallReturns
<1>3. Functions' /\ ok'[t] = ok[t] \cup batch[t] /\ batch'[t] = {} /\ pc'[t] = "pass"
  BY <1>1, <1>2 DEF Functions
<1>4. Cardinality({}) = 0
  BY FS_EmptySet
<1>5. OfTheChunk(t)' /\ Shape(t)' /\ Accounted(t)' /\ Refused(t)'
  BY <1>1, <1>2, <1>3 DEF Good, OfTheChunk, Shape, Accounted, Refused, Point
<1>6. Ordered(t)' /\ Acceptable(t)'
  BY <1>1, <1>2, <1>3, <1>4, MaxBatchAssumption DEF Good, Ordered, Acceptable, Point, Series
<1>7. \A u \in Thread \ {t} : Untouched(u)
  BY <1>1, <1>2 DEF Untouched, Functions
<1>8. Good(t)'
  BY <1>5, <1>6 DEF Good
<1> QED
  BY <1>3, <1>7, <1>8, OnlyTheMover

\* A thread that gives up or has written everything leaves the mutex to the others.
LEMMA UnlockIsGood ==
  ASSUME IInv, NEW t \in Thread, Throws(t) \/ Finish(t)
  PROVE  IInv'
<1>1. Functions /\ Good(t)
  BY DEF IInv
<1>2. /\ pc[t] \in {"pass", "call"} /\ pc'[t] \in {"done", "failed"}
      /\ batch'[t] = {} /\ pending'[t] = {}
      /\ mutex' = NoThread /\ UNCHANGED <<chunk, stored, ok, requests>>
  <2>1. CASE Throws(t)
    BY <1>1, <2>1 DEF Throws, Functions
  <2>2. CASE Finish(t)
    BY <1>1, <2>2 DEF Finish, Functions, Good, Shape
  <2> QED
    BY <2>1, <2>2
<1>3. Functions'
  BY <1>1, <1>2 DEF Throws, Finish, Functions
<1>4. mutex = t
  BY <1>1, <1>2 DEF Good, Shape
<1>5. Cardinality({}) = 0
  BY FS_EmptySet
<1>6. OfTheChunk(t)' /\ Shape(t)' /\ Accounted(t)'
  BY <1>1, <1>2, NoThreadAssumption DEF Good, OfTheChunk, Shape, Accounted, Point
<1>7. Refused(t)'
  BY <1>1, <1>2 DEF Good, Refused, Point
<1>8. Ordered(t)' /\ Acceptable(t)'
  BY <1>1, <1>2, <1>5, MaxBatchAssumption DEF Good, Ordered, Acceptable, Point, Series
<1>9. \A u \in Thread \ {t} : Untouched(u)
  BY <1>1, <1>2, <1>4, NoThreadAssumption DEF Throws, Finish, Untouched, Functions
<1>10. Good(t)'
  BY <1>6, <1>7, <1>8 DEF Good
<1> QED
  BY <1>3, <1>9, <1>10, OnlyTheMover

LEMMA StutterIsGood == IInv /\ UNCHANGED vars => IInv'
<1> SUFFICES ASSUME IInv, UNCHANGED vars PROVE IInv'
  OBVIOUS
<1>1. Functions'
  BY DEF IInv, Functions, vars
<1>2. ASSUME NEW t \in Thread PROVE Good(t)'
  BY OthersKeepGood DEF IInv, Untouched, vars
<1> QED
  BY <1>1, <1>2 DEF IInv

LEMMA Inductive == Spec => []IInv
<1>1. Init => IInv
  BY InitIsGood
<1>2. IInv /\ [Next]_vars => IInv'
  <2> SUFFICES ASSUME IInv, [Next]_vars PROVE IInv'
    OBVIOUS
  <2>1. CASE UNCHANGED vars
    BY <2>1, StutterIsGood
  <2>2. CASE Next
    <3>1. PICK t \in Thread : Evaluate(t) \/ Store(t) \/ Run(t)
      BY <2>2 DEF Next
    <3>2. CASE Evaluate(t)
      BY <3>2, EvaluateIsGood
    <3>3. CASE Store(t)
      BY <3>3, StoreIsGood
    <3>4. CASE Lock(t)
      BY <3>4, LockIsGood
    <3>5. CASE Pass(t)
      BY <3>5, PassIsGood
    <3>6. CASE CallReturns(t)
      BY <3>6, CallReturnsIsGood
    <3>7. CASE Throws(t) \/ Finish(t)
      BY <3>7, UnlockIsGood
    <3> QED
      BY <3>1, <3>2, <3>3, <3>4, <3>5, <3>6, <3>7 DEF Run
  <2> QED
    BY <2>1, <2>2
<1> QED
  BY <1>1, <1>2, PTL DEF Spec

-----------------------------------------------------------------------------
(* Theorems                                                                *)

\* What is pending, under way, stored or reported are always points of the chunk, and
\* the variables keep their ranges.
THEOREM TypeCorrect == Spec => []TypeOK
<1>1. IInv => TypeOK
  BY DEF IInv, Functions, Good, OfTheChunk, TypeOK
<1> QED
  BY <1>1, Inductive, PTL

\* For any chunk and any limit, every request stays within MaxBatch and names a series
\* once, and it leaves a point out only when it is full or carries that point's series.
THEOREM RequestsAreAcceptable == Spec => []RequestIsAcceptable
<1>1. IInv => RequestIsAcceptable
  BY DEF IInv, Good, Acceptable, RequestIsAcceptable
<1> QED
  BY <1>1, Inductive, PTL

\* However many passes a chunk takes and wherever it fails, a point is stored only after
\* all earlier points of its series were confirmed.
THEOREM SeriesStayInOrder == Spec => []SeriesInOrder
<1>1. IInv => SeriesInOrder
  BY DEF IInv, Good, Ordered, SeriesInOrder
<1> QED
  BY <1>1, Inductive, PTL

\* A chunk with a row that BuildWriteMetric refuses makes no request.
THEOREM InvalidRowsWriteNothing == Spec => []InvalidRowWritesNothing
<1>1. IInv => InvalidRowWritesNothing
  BY DEF IInv, Good, Refused, InvalidRowWritesNothing
<1> QED
  BY <1>1, Inductive, PTL

-----------------------------------------------------------------------------
(* The refinement of RowWriter                                             *)

LEMMA Stages ==
  /\ Stage("idle") = "new" /\ Stage("done") = "done" /\ Stage("failed") = "failed"
  /\ Stage("lock") = "open" /\ Stage("pass") = "open" /\ Stage("call") = "open"
BY DEF Stage

LEMMA StageMoves ==
  ASSUME IInv, NEW t \in Thread, NEW p, pc' = [pc EXCEPT ![t] = p]
  PROVE  /\ stage' = [stage EXCEPT ![t] = Stage(p)]
         /\ Stage(p) = Stage(pc[t]) => stage' = stage
<1>1. \A u \in Thread : pc'[u] = IF u = t THEN p ELSE pc[u]
  BY DEF IInv, Functions
<1>2. stage' = [u \in Thread |-> Stage(pc'[u])] /\ stage = [u \in Thread |-> Stage(pc[u])]
  BY DEF stage
<1>3. \A u \in Thread : stage'[u] = IF u = t THEN Stage(p) ELSE stage[u]
  <2>1. \A u \in Thread : Stage(pc'[u]) = IF u = t THEN Stage(p) ELSE Stage(pc[u])
    BY <1>1
  <2> QED
    BY <1>2, <2>1
<1>4. stage' = [stage EXCEPT ![t] = Stage(p)]
  BY <1>2, <1>3
<1>5. Stage(p) = Stage(pc[t]) => stage' = stage
  BY <1>2, <1>3
<1> QED
  BY <1>4, <1>5

\* No other batch is under way when a pass begins.
LEMMA OneBatchAtATime ==
  ASSUME IInv, NEW t \in Thread, pc[t] = "pass", NEW u \in Thread
  PROVE  batch[u] = {}
<1>1. mutex = t
  BY DEF IInv, Good, Shape
<1> QED
  BY <1>1 DEF IInv, Good, Shape

\* Every step of the function is one of RowWriter or changes nothing it shows.
LEMMA StepsAreRowWriters ==
  ASSUME IInv, IInv', [Next]_vars
  PROVE  [RW!RWNext]_(RW!rwvars)
<1>f. Functions
  BY DEF IInv
<1>u. CASE UNCHANGED vars
  BY <1>u DEF vars, RW!rwvars, stage
<1>n. CASE Next
  <2>1. PICK t \in Thread : Evaluate(t) \/ Store(t) \/ Run(t)
    BY <1>n DEF Next
  <2>s. stage[t] = Stage(pc[t])
    BY DEF stage
  <2>2. CASE Evaluate(t)
    <3>1. PICK c \in Chunks : MapRows(t, c)
      BY <2>2 DEF Evaluate
    <3>2. pc[t] = "idle" /\ UNCHANGED <<batch, stored, ok>> /\ pending[t] = {} /\ batch[t] = {}
      BY <2>2 DEF Evaluate, IInv, Good, Shape
    <3>3. CASE pc' = [pc EXCEPT ![t] = "failed"] /\ UNCHANGED pending
      <4>1. stage' = [stage EXCEPT ![t] = "failed"]
        <5>1. stage' = [stage EXCEPT ![t] = Stage("failed")]
          BY <3>3, StageMoves
        <5> QED
          BY <5>1, Stages
      <4>2. pending = [pending EXCEPT ![t] = {}] /\ batch = [batch EXCEPT ![t] = {}]
        BY <1>f, <3>2 DEF Functions
      <4>3. RW!Abandon(t)
        BY <2>s, <3>2, <3>3, <4>1, <4>2, Stages DEF RW!Abandon
      <4> QED
        BY <4>3 DEF RW!RWNext
    <3>4. CASE /\ pc' = [pc EXCEPT ![t] = "lock"]
               /\ pending' = [pending EXCEPT ![t] = {i \in DOMAIN c : c[i] # Null}]
      <4>1. stage' = [stage EXCEPT ![t] = "open"]
        <5>1. stage' = [stage EXCEPT ![t] = Stage("lock")]
          BY <3>4, StageMoves
        <5> QED
          BY <5>1, Stages
      <4>2. pending' = [pending EXCEPT ![t] = pending'[t]] /\ pending'[t] \subseteq Nat
        BY <1>f, <3>4 DEF Functions, IInv
      <4>3. RW!Open(t)
        BY <2>s, <3>2, <4>1, <4>2, Stages DEF RW!Open
      <4> QED
        BY <4>3 DEF RW!RWNext
    <3> QED
      BY <3>1, <3>3, <3>4 DEF MapRows
  <2>3. CASE Store(t)
    <3>1. PICK points \in SUBSET batch[t] \ {{}} : stored' = [stored EXCEPT ![t] = @ \cup points]
      BY <2>3 DEF Store
    <3>2. pc[t] = "call" /\ UNCHANGED <<pc, pending, batch, ok>>
      BY <2>3 DEF Store
    <3>3. stored'[t] = stored[t] \cup points /\ stored' = [stored EXCEPT ![t] = stored'[t]]
      BY <1>f, <3>1 DEF Functions
    <3>4. UNCHANGED stage
      BY <3>2 DEF stage
    <3>5. RW!Land(t)
      BY <2>s, <3>1, <3>2, <3>3, <3>4, Stages DEF RW!Land
    <3> QED
      BY <3>5 DEF RW!RWNext
  <2>4. CASE Lock(t)
    <3>1. pc[t] = "lock" /\ pc' = [pc EXCEPT ![t] = "pass"] /\ UNCHANGED <<pending, batch, stored, ok>>
      BY <2>4 DEF Lock
    <3>2. stage' = stage
      <4>1. Stage("pass") = Stage(pc[t]) /\ pc' = [pc EXCEPT ![t] = "pass"]
        BY <3>1, Stages
      <4> QED
        BY <4>1, StageMoves
    <3> QED
      BY <3>1, <3>2 DEF RW!rwvars
  <2>5. CASE Pass(t)
    <3>1. /\ pc[t] = "pass" /\ pending[t] # {} /\ pc' = [pc EXCEPT ![t] = "call"]
          /\ batch' = [batch EXCEPT ![t] = NextBatch(t)]
          /\ pending' = [pending EXCEPT ![t] = @ \ NextBatch(t)]
          /\ UNCHANGED <<stored, ok>>
      BY <2>5 DEF Pass
    <3>2. stage' = stage
      <4>1. Stage("call") = Stage(pc[t]) /\ pc' = [pc EXCEPT ![t] = "call"]
        BY <3>1, Stages
      <4> QED
        BY <4>1, StageMoves
    <3>3. batch'[t] = NextBatch(t) /\ NextBatch(t) # {} /\ NextBatch(t) \subseteq pending[t]
      BY <1>f, <3>1, TheBatch DEF Functions
    <3>4. \A u \in Thread : batch[u] = {}
      BY <3>1, OneBatchAtATime
    <3>5. RW!Send(t)
      BY <2>s, <3>1, <3>2, <3>3, <3>4, Stages DEF RW!Send
    <3> QED
      BY <3>5 DEF RW!RWNext
  <2>6. CASE CallReturns(t)
    <3>1. /\ pc[t] = "call" /\ batch[t] \subseteq stored[t] /\ pc' = [pc EXCEPT ![t] = "pass"]
          /\ ok' = [ok EXCEPT ![t] = @ \cup batch[t]]
          /\ batch' = [batch EXCEPT ![t] = {}]
          /\ UNCHANGED <<pending, stored>>
      BY <2>6 DEF CallReturns
    <3>2. stage' = stage /\ batch[t] # {}
      <4>1. stage' = stage
        <5>1. Stage("pass") = Stage(pc[t]) /\ pc' = [pc EXCEPT ![t] = "pass"]
          BY <3>1, Stages
        <5> QED
          BY <5>1, StageMoves
      <4>2. batch[t] # {}
        BY <3>1 DEF IInv, Good, Shape
      <4> QED
        BY <4>1, <4>2
    <3>3. RW!Acknowledge(t)
      BY <2>s, <3>1, <3>2, Stages DEF RW!Acknowledge
    <3> QED
      BY <3>3 DEF RW!RWNext
  <2>7. CASE Throws(t)
    <3>1. /\ pc[t] \in {"pass", "call"} /\ pc' = [pc EXCEPT ![t] = "failed"]
          /\ batch' = [batch EXCEPT ![t] = {}] /\ pending' = [pending EXCEPT ![t] = {}]
          /\ UNCHANGED <<stored, ok>>
      BY <2>7 DEF Throws
    <3>2. stage' = [stage EXCEPT ![t] = "failed"]
      <4>1. stage' = [stage EXCEPT ![t] = Stage("failed")]
        BY <3>1, StageMoves
      <4> QED
        BY <4>1, Stages
    <3>3. RW!Abandon(t)
      BY <2>s, <3>1, <3>2, Stages DEF RW!Abandon
    <3> QED
      BY <3>3 DEF RW!RWNext
  <2>8. CASE Finish(t)
    <3>1. /\ pc[t] = "pass" /\ pending[t] = {} /\ pc' = [pc EXCEPT ![t] = "done"]
          /\ UNCHANGED <<pending, batch, stored, ok>>
      BY <2>8 DEF Finish
    <3>2. stage' = [stage EXCEPT ![t] = "done"] /\ batch[t] = {}
      <4>1. stage' = [stage EXCEPT ![t] = Stage("done")]
        BY <3>1, StageMoves
      <4>2. batch[t] = {}
        BY <3>1, OneBatchAtATime
      <4> QED
        BY <4>1, <4>2, Stages
    <3>3. RW!Close(t)
      BY <2>s, <3>1, <3>2, Stages DEF RW!Close
    <3> QED
      BY <3>3 DEF RW!RWNext
  <2> QED
    BY <2>1, <2>2, <2>3, <2>4, <2>5, <2>6, <2>7, <2>8 DEF Run
<1> QED
  BY <1>u, <1>n

\* For any threads, chunks and limit the function writes rows as RowWriter promises: one
\* batch at a time, no row in two batches, "ok" only for what is stored.
THEOREM WritesAsRowWriter == Spec => KeepsRowWriter
<1>1. Init => RW!RWInit
  <2> SUFFICES ASSUME Init PROVE RW!RWInit
    OBVIOUS
  <2>1. stage = [t \in Thread |-> "new"]
    BY Stages DEF Init, stage
  <2> QED
    BY <2>1 DEF Init, RW!RWInit
<1>2. IInv /\ IInv' /\ [Next]_vars => [RW!RWNext]_(RW!rwvars)
  BY StepsAreRowWriters
<1> QED
  BY <1>1, <1>2, Inductive, PTL DEF Spec, KeepsRowWriter, RW!RWSpec

-----------------------------------------------------------------------------
(* The passes come to their end                                            *)

\* What a chunk has still to do: a pass and its answer for each pending point, at most.
Left(t) ==
  CASE pc[t] \in {"lock", "call"} -> 2 * Cardinality(pending[t]) + 2
    [] pc[t] = "pass"             -> 2 * Cardinality(pending[t]) + 1
    [] OTHER                      -> 0

\* The points of a chunk can be counted.
LEMMA PendingIsFinite ==
  ASSUME IInv, NEW t \in Thread
  PROVE  IsFiniteSet(pending[t]) /\ Cardinality(pending[t]) \in Nat
<1>1. pending[t] \subseteq DOMAIN chunk[t]
  BY DEF IInv, Good, OfTheChunk
<1>2. chunk[t] = << >> \/ (Len(chunk[t]) \in Nat /\ DOMAIN chunk[t] = 1..Len(chunk[t]))
  BY ChunksAssumption DEF IInv, Functions
<1>3. IsFiniteSet(DOMAIN chunk[t])
  <2>1. CASE chunk[t] = << >>
    <3>1. DOMAIN chunk[t] = {}
      BY <2>1
    <3> QED
      BY <3>1, FS_EmptySet
  <2>2. CASE Len(chunk[t]) \in Nat /\ DOMAIN chunk[t] = 1..Len(chunk[t])
    BY <2>2, FS_Interval
  <2> QED
    BY <1>2, <2>1, <2>2
<1>4. IsFiniteSet(pending[t])
  BY <1>1, <1>3, FS_Subset
<1> QED
  BY <1>4, FS_CardinalityType

\* A step of its thread leaves less to do,
LEMMA RunLeavesLess ==
  ASSUME IInv, NEW t \in Thread, Run(t)
  PROVE  Left(t)' < Left(t) /\ Left(t)' <= Left(t)
<1> DEFINE n == Cardinality(pending[t])
           m == Cardinality(pending'[t])
<1>1. Functions /\ IsFiniteSet(pending[t]) /\ n \in Nat
  BY PendingIsFinite DEF IInv
<1>2. CASE Lock(t)
  <2>1. pc[t] = "lock" /\ pc'[t] = "pass" /\ m = n
    BY <1>1, <1>2 DEF Lock, Functions
  <2>2. Left(t) = 2 * n + 2 /\ Left(t)' = 2 * m + 1
    BY <2>1 DEF Left
  <2> HIDE DEF n, m
  <2> QED
    BY <1>1, <2>1, <2>2
<1>3. CASE Pass(t)
  <2> DEFINE B == NextBatch(t)
  <2>1. B \subseteq pending[t] /\ B # {}
    BY <1>3, TheBatch DEF Pass
  <2>2. pc[t] = "pass" /\ pc'[t] = "call" /\ pending'[t] = pending[t] \ B
    BY <1>1, <1>3 DEF Pass, Functions
  <2> HIDE DEF B
  <2>3. m \in Nat /\ m < n
    <3> DEFINE rest == pending'[t]
    <3>1. rest \subseteq pending[t] /\ rest # pending[t]
      BY <2>1, <2>2
    <3> HIDE DEF rest
    <3>2. IsFiniteSet(rest) /\ Cardinality(rest) <= n /\ Cardinality(rest) # n
      BY <1>1, <3>1, FS_Subset
    <3>3. Cardinality(rest) \in Nat
      BY <3>2, FS_CardinalityType
    <3> QED
      BY <1>1, <3>2, <3>3 DEF rest
  <2>4. Left(t) = 2 * n + 1 /\ Left(t)' = 2 * m + 2
    BY <2>2 DEF Left
  <2> HIDE DEF n, m
  <2> QED
    BY <1>1, <2>3, <2>4
<1>4. CASE CallReturns(t)
  <2>1. pc[t] = "call" /\ pc'[t] = "pass" /\ m = n
    BY <1>1, <1>4 DEF CallReturns, Functions
  <2>2. Left(t) = 2 * n + 2 /\ Left(t)' = 2 * m + 1
    BY <2>1 DEF Left
  <2> HIDE DEF n, m
  <2> QED
    BY <1>1, <2>1, <2>2
<1>5. CASE Throws(t) \/ Finish(t)
  <2>1. pc[t] \in {"pass", "call"} /\ pc'[t] \in {"failed", "done"}
    BY <1>1, <1>5 DEF Throws, Finish, Functions
  <2>2. Left(t) \in {2 * n + 1, 2 * n + 2} /\ Left(t)' = 0
    BY <2>1 DEF Left
  <2> HIDE DEF n
  <2> QED
    BY <1>1, <2>2
<1> QED
  BY <1>2, <1>3, <1>4, <1>5 DEF Run

\* and that of another thread, or of the service, leaves as much.
LEMMA OthersLeaveAsMuch ==
  ASSUME IInv, NEW u \in Thread, Evaluate(u) \/ Store(u) \/ Run(u),
         NEW t \in Thread, t # u \/ Store(u)
  PROVE  Left(t)' = Left(t)
<1>1. pc'[t] = pc[t] /\ pending'[t] = pending[t]
  BY DEF IInv, Functions, Evaluate, MapRows, Store, Run, Lock, Pass, CallReturns, Throws, Finish
<1> QED
  BY <1>1 DEF Left

\* What is left to do is a number, nothing only at the end.
LEMMA LeftIs ==
  ASSUME IInv, NEW t \in Thread
  PROVE  Left(t) \in Nat /\ (pc[t] \in {"lock", "pass", "call"} => Left(t) > 0)
<1> DEFINE n == Cardinality(pending[t])
<1>1. n \in Nat
  BY PendingIsFinite
<1>2. Left(t) = CASE pc[t] \in {"lock", "call"} -> 2 * n + 2 [] pc[t] = "pass" -> 2 * n + 1 [] OTHER -> 0
  BY DEF Left
<1> HIDE DEF n
<1> QED
  BY <1>1, <1>2

\* A chunk of n points is at its end after at most 2n+2 steps of its thread, because every pass takes
\* a point; nothing another thread does makes it longer, and the connection is only ever held by a
\* thread in its loop, which gives it back, also when a write fails (send_metrics.cpp:472).
THEOREM ChunksComeToTheirEnd ==
  Spec => /\ [](\A t \in Thread : /\ Left(t) \in Nat
                                  /\ pc[t] = "lock" => Left(t) = 2 * Cardinality(pending[t]) + 2
                                  /\ mutex = t => pc[t] \in {"pass", "call"})
          /\ [][\A t \in Thread : /\ Run(t) => Left(t)' < Left(t)
                                  /\ pc[t] # "idle" => Left(t)' <= Left(t)]_vars
<1>1. IInv => \A t \in Thread : /\ Left(t) \in Nat
                                /\ pc[t] = "lock" => Left(t) = 2 * Cardinality(pending[t]) + 2
                                /\ mutex = t => pc[t] \in {"pass", "call"}
  <2>1. ASSUME IInv, NEW t \in Thread PROVE Left(t) \in Nat
    BY <2>1, LeftIs
  <2>2. ASSUME IInv, NEW t \in Thread, mutex = t PROVE pc[t] \in {"pass", "call"}
    BY <2>2 DEF IInv, Good, Shape
  <2>3. \A t \in Thread : pc[t] = "lock" => Left(t) = 2 * Cardinality(pending[t]) + 2
    BY DEF Left
  <2> QED
    BY <2>1, <2>2, <2>3
<1>2. IInv /\ [Next]_vars =>
        [\A t \in Thread : /\ Run(t) => Left(t)' < Left(t)
                           /\ pc[t] # "idle" => Left(t)' <= Left(t)]_vars
  <2> SUFFICES ASSUME IInv, Next, NEW t \in Thread
               PROVE  (Run(t) => Left(t)' < Left(t)) /\ (pc[t] # "idle" => Left(t)' <= Left(t))
    OBVIOUS
  <2>1. Run(t) => Left(t)' < Left(t)
    BY RunLeavesLess
  <2>2. ASSUME pc[t] # "idle" PROVE Left(t)' <= Left(t)
    <3>1. PICK u \in Thread : Evaluate(u) \/ Store(u) \/ Run(u)
      BY DEF Next
    <3>2. Left(t) \in Int
      BY LeftIs
    <3>3. CASE t # u \/ Store(u)
      <4>1. Left(t)' = Left(t)
        BY <3>1, <3>3, OthersLeaveAsMuch
      <4> QED
        BY <3>2, <4>1
    <3>4. CASE t = u /\ ~Store(u)
      <4>1. Run(t)
        BY <2>2, <3>1, <3>4 DEF Evaluate
      <4> QED
        BY <4>1, RunLeavesLess
    <3> QED
      BY <3>3, <3>4
  <2> QED
    BY <2>1, <2>2
<1> QED
  BY <1>1, <1>2, Inductive, PTL DEF Spec
=============================================================================
