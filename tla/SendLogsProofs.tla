---------------------------- MODULE SendLogsProofs ----------------------------
(***************************************************************************)
(* SendLogs for any number of threads, chunks of any length and any limits *)
(* on a request: what a request may carry, that what the service has of a  *)
(* chunk is always its first entries, that rows are written as RowWriter   *)
(* promises, and that every batch leaves less of a chunk to do.            *)
(*                                                                         *)
(* The invariant places a chunk by how many of its entries are confirmed:  *)
(* exactly those are reported, and besides them at most the batch under    *)
(* way is stored, all of it or nothing.                                    *)
(***************************************************************************)
EXTENDS SendLogs, FiniteSetTheorems, WellFoundedInduction, TLAPS

-----------------------------------------------------------------------------
(* The least element of a set of positions                                 *)

LEMMA LeastOf ==
  ASSUME NEW S \in SUBSET Nat, S # {}
  PROVE  \E x \in S : \A y \in S : x <= y
<1> DEFINE Below == {0..x : x \in S}
<1>1. Below \subseteq FiniteSubsetsOf(Nat) /\ Below # {}
  <2>1. \A x \in S : 0..x \subseteq Nat /\ IsFiniteSet(0..x)
    BY FS_Interval
  <2> QED
    BY <2>1 DEF FiniteSubsetsOf
<1> HIDE DEF Below
<1>2. PICK b \in Below : \A c \in Below : <<c, b>> \notin StrictSubsetOrdering(Nat)
  BY <1>1, FS_StrictSubsetOrderingWellFounded, WFMin
<1>3. PICK x \in S : b = 0..x
  BY DEF Below
<1>4. ASSUME NEW y \in S, y < x PROVE FALSE
  <2>1. 0..y \subseteq 0..x /\ x \in 0..x /\ x \notin 0..y
    BY <1>4
  <2>2. 0..y \in Below /\ 0..y \subseteq Nat /\ 0..x \subseteq Nat
    BY DEF Below
  <2>3. 0..y # 0..x
    BY <2>1
  <2>4. <<0..y, 0..x>> \in StrictSubsetOrdering(Nat)
    BY <2>1, <2>2, <2>3 DEF StrictSubsetOrdering
  <2> QED
    BY <1>2, <1>3, <2>2, <2>4
<1> QED
  BY <1>4

\* The greatest element of a bounded one: the least of its bounds.
LEMMA GreatestOf ==
  ASSUME NEW S \in SUBSET Nat, S # {}, NEW n \in Nat, \A x \in S : x <= n
  PROVE  \E x \in S : \A y \in S : y <= x
<1> DEFINE U == {u \in Nat : \A x \in S : x <= u}
<1>1. U \in SUBSET Nat /\ U # {}
  OBVIOUS
<1> HIDE DEF U
<1>2. PICK u \in U : \A v \in U : u <= v
  BY <1>1, LeastOf
<1>3. u \in Nat /\ \A x \in S : x <= u
  BY DEF U
<1>4. CASE u \in S
  BY <1>3, <1>4
<1>5. CASE u \notin S
  <2>1. \A x \in S : x \in Nat /\ x <= u - 1
    BY <1>3, <1>5
  <2>2. PICK x \in S : TRUE
    OBVIOUS
  <2>3. u - 1 \in Nat
    BY <1>3, <2>1, <2>2
  <2>4. u - 1 \in U
    BY <2>1, <2>3 DEF U
  <2> QED
    BY <1>2, <1>3, <2>4
<1> QED
  BY <1>4, <1>5

LEMMA MaxIs ==
  ASSUME NEW S \in SUBSET Nat, S # {}, NEW n \in Nat, \A x \in S : x <= n
  PROVE  Max(S) \in S /\ \A y \in S : y <= Max(S)
<1>1. PICK x \in S : \A y \in S : y <= x
  BY GreatestOf
<1>2. \A y \in S : x >= y
  BY <1>1
<1> QED
  BY <1>2 DEF Max

-----------------------------------------------------------------------------
(* The entries of a chunk                                                  *)

\* What the loop over the rows does with the n-th of them.
Step(c, n, entries) == IF c[n] = Null THEN entries ELSE Append(entries, c[n])

LEMMA LoopSteps ==
  ASSUME NEW c, NEW f, NEW g,
         f = [n \in 0..Len(c) |-> IF n = 0 THEN << >> ELSE Step(c, n, g[n - 1])]
  PROVE  \A n \in 0..Len(c) : f[n] = IF n = 0 THEN << >> ELSE Step(c, n, g[n - 1])
OBVIOUS

LEMMA LoopExists ==
  ASSUME NEW c, Len(c) \in Nat
  PROVE  \E f : f = [n \in 0..Len(c) |-> IF n = 0 THEN << >> ELSE Step(c, n, f[n - 1])]
<1> DEFINE Upto(N, f) == [n \in 0..N |-> IF n = 0 THEN << >> ELSE Step(c, n, f[n - 1])]
           Bad == {N \in Nat : ~ \E f : f = Upto(N, f)}
<1> SUFFICES ASSUME Bad # {} PROVE FALSE
  OBVIOUS
<1>1. PICK m \in Bad : \A k \in Bad : m <= k
  <2>1. Bad \in SUBSET Nat
    OBVIOUS
  <2> QED
    BY <2>1, LeastOf
<1>2. CASE m = 0
  <2> DEFINE f == [n \in 0..0 |-> << >>]
  <2>1. f = Upto(0, f)
    OBVIOUS
  <2> QED
    BY <1>1, <1>2, <2>1
<1>3. CASE m # 0
  <2>0. m \in Nat
    BY <1>1
  <2>1. m \in Nat /\ m - 1 \in Nat /\ m - 1 \notin Bad
    <3> HIDE DEF Bad
    <3> QED
      BY <1>1, <1>3, <2>0
  <2>2. PICK f : f = Upto(m - 1, f)
    BY <2>1
  <2> DEFINE g == [n \in 0..m |-> IF n = m THEN Step(c, m, f[m - 1]) ELSE f[n]]
  <2>3. ASSUME NEW n \in 0..m
        PROVE  g[n] = IF n = 0 THEN << >> ELSE Step(c, n, g[n - 1])
    <3>1. CASE n = m
      <4>1. g[n - 1] = f[m - 1] /\ g[n] = Step(c, m, f[m - 1])
        BY <1>3, <2>1, <3>1
      <4> QED
        BY <1>3, <3>1, <4>1
    <3>2. CASE n # m
      <4>1. n \in 0..m - 1 /\ g[n] = f[n]
        BY <2>1, <3>2
      <4>2. f[n] = IF n = 0 THEN << >> ELSE Step(c, n, f[n - 1])
        BY <2>2, <4>1
      <4>3. n # 0 => g[n - 1] = f[n - 1]
        BY <2>1, <3>2
      <4> QED
        BY <4>1, <4>2, <4>3
    <3> QED
      BY <3>1, <3>2
  <2>4. g = Upto(m, g)
    <3>1. g = [n \in 0..m |-> g[n]]
      OBVIOUS
    <3> HIDE DEF g
    <3> QED
      BY <2>3, <3>1
  <2> QED
    BY <1>1, <2>1, <2>4
<1> QED
  BY <1>2, <1>3

\* Whatever the chunk, its entries are a sequence of rows of it that are not NULL.
LEMMA MappedRows ==
  ASSUME NEW c, Len(c) \in Nat, DOMAIN c = 1..Len(c)
  PROVE  Mapped(c) \in Seq({c[i] : i \in {j \in DOMAIN c : c[j] # Null}})
<1> DEFINE S == {c[i] : i \in {j \in DOMAIN c : c[j] # Null}}
           F == CHOOSE f : f = [n \in 0..Len(c) |->
                  IF n = 0 THEN << >> ELSE IF c[n] = Null THEN f[n - 1] ELSE Append(f[n - 1], c[n])]
<1>1. Mapped(c) = F[Len(c)]
  BY DEF Mapped
<1>2. F = [n \in 0..Len(c) |-> IF n = 0 THEN << >> ELSE Step(c, n, F[n - 1])]
  BY LoopExists DEF Step
<1> HIDE DEF F
<1>3. \A n \in 0..Len(c) : F[n] = IF n = 0 THEN << >> ELSE Step(c, n, F[n - 1])
  BY <1>2, LoopSteps, Zenon
<1>0. F[0] = << >>
  BY <1>3
<1>4. ASSUME NEW n \in 1..Len(c), F[n - 1] \in Seq(S) PROVE F[n] \in Seq(S)
  <2>1. F[n] = IF c[n] = Null THEN F[n - 1] ELSE Append(F[n - 1], c[n])
    BY <1>3 DEF Step
  <2>2. c[n] # Null => c[n] \in S
    OBVIOUS
  <2> HIDE DEF S
  <2> QED
    BY <1>4, <2>1, <2>2
<1> DEFINE Bad == {n \in 0..Len(c) : F[n] \notin Seq(S)}
<1>5. Bad = {}
  <2> SUFFICES ASSUME Bad # {} PROVE FALSE
    OBVIOUS
  <2>1. PICK m \in Bad : \A k \in Bad : m <= k
    <3>1. Bad \in SUBSET Nat
      OBVIOUS
    <3> QED
      BY <3>1, LeastOf
  <2>2. m \in 0..Len(c) /\ F[m] \notin Seq(S)
    BY <2>1
  <2>3. << >> \in Seq(S)
    <3> HIDE DEF S
    <3> QED
      OBVIOUS
  <2>4. m # 0
    BY <1>0, <2>2, <2>3
  <2>5. m \in 1..Len(c) /\ m - 1 \in 0..Len(c)
    BY <2>2, <2>4
  <2>6. m - 1 \notin Bad
    <3> HIDE DEF Bad
    <3> QED
      BY <2>1, <2>2, <2>5
  <2> QED
    BY <1>4, <2>2, <2>5, <2>6
<1> QED
  BY <1>1, <1>5

\* ChunksAssumption and MapRows together: no entry of a mapped chunk has bad attributes.
Sound(entries) ==
  /\ Len(entries) \in Nat /\ DOMAIN entries = 1..Len(entries)
  /\ \A i \in DOMAIN entries : entries[i].wrong \in {"nothing", "name"}

LEMMA MappedIsSound ==
  ASSUME NEW c \in Chunks, ~ \E i \in DOMAIN c : Refused(c[i])
  PROVE  Sound(Mapped(c))
<1> DEFINE S == {c[i] : i \in {j \in DOMAIN c : c[j] # Null}}
<1>1. Mapped(c) \in Seq(S)
  BY ChunksAssumption, MappedRows
<1>2. \A row \in S : row.wrong \in {"nothing", "name"}
  <2> SUFFICES ASSUME NEW i \in DOMAIN c, c[i] # Null PROVE c[i].wrong \in {"nothing", "name"}
    OBVIOUS
  <2> QED
    BY ChunksAssumption DEF Refused
<1> HIDE DEF S
<1> QED
  BY <1>1, <1>2 DEF Sound

-----------------------------------------------------------------------------
(* The invariant                                                           *)

Functions ==
  /\ pc \in [Thread -> {"idle", "lock", "batch", "call", "done", "failed"}]
  /\ chunk \in [Thread -> Chunks \cup {<< >>}]
  /\ logs = [t \in Thread |-> logs[t]]
  /\ offset \in [Thread -> Nat]
  /\ flying \in [Thread -> Nat]
  /\ stored \in [Thread -> SUBSET Nat]
  /\ ok \in [Thread -> SUBSET Nat]
  /\ mutex \in Thread \cup {NoThread}

\* Where a chunk stands.
Shape(t) ==
  /\ Sound(logs[t])
  /\ offset[t] + flying[t] <= Len(logs[t])
  /\ pc[t] \in {"idle", "lock"} => offset[t] = 0
  /\ pc[t] = "idle" => Len(logs[t]) = 0
  /\ pc[t] = "done" => offset[t] = Len(logs[t])
  /\ pc[t] = "call" <=> flying[t] > 0
  /\ pc[t] \in {"batch", "call"} <=> mutex = t

\* The confirmed entries are the reported ones; the batch under way is stored or not, and
\* a chunk that failed may have had one.
Confirmed(t) ==
  /\ ok[t] = 1..offset[t]
  /\ pc[t] # "failed" => stored[t] \in {1..offset[t], 1..offset[t] + flying[t]}
  /\ \E n \in offset[t]..Len(logs[t]) : stored[t] = 1..n

Limits(t) ==
  /\ flying[t] <= MaxBatch
  /\ flying[t] > 1 => Bytes(t, offset[t], offset[t] + flying[t]) <= MaxBytes

Good(t) == Shape(t) /\ Confirmed(t) /\ Limits(t)

IInv == Functions /\ \A t \in Thread : Good(t)

\* The variables of a thread, and of it the lock: what Good(t) reads.
Untouched(t) ==
  /\ pc'[t] = pc[t] /\ chunk'[t] = chunk[t] /\ logs'[t] = logs[t]
  /\ offset'[t] = offset[t] /\ flying'[t] = flying[t]
  /\ stored'[t] = stored[t] /\ ok'[t] = ok[t]
  /\ (mutex' = t) <=> (mutex = t)

LEMMA OthersKeepGood ==
  ASSUME NEW t \in Thread, Untouched(t), Good(t)
  PROVE  Good(t)'
<1>1. Shape(t)' /\ Confirmed(t)'
  BY DEF Good, Untouched, Shape, Confirmed, Sound
<1>2. Limits(t)'
  BY DEF Good, Untouched, Limits, Bytes, Entries
<1> QED
  BY <1>1, <1>2 DEF Good

LEMMA InitIsGood == Init => IInv
<1> SUFFICES ASSUME Init PROVE IInv
  OBVIOUS
<1>1. Functions
  BY DEF Init, Functions
<1>2. ASSUME NEW t \in Thread PROVE Good(t)
  <2>1. logs[t] = << >> /\ Len(<< >>) = 0 /\ DOMAIN << >> = {} /\ mutex # t
    BY NoThreadAssumption DEF Init
  <2>2. Sound(logs[t])
    BY <2>1 DEF Sound
  <2>3. 1..0 = {}
    OBVIOUS
  <2>4. pc[t] = "idle" /\ offset[t] = 0 /\ flying[t] = 0 /\ stored[t] = {} /\ ok[t] = {}
    BY DEF Init
  <2> QED
    BY <2>1, <2>2, <2>3, <2>4, LimitsAssumption DEF Good, Shape, Confirmed, Limits
<1> QED
  BY <1>1, <1>2 DEF IInv

-----------------------------------------------------------------------------
(* The batch loop                                                          *)

\* A batch takes at least one entry and never exceeds the limits with more than one.
LEMMA TheBatch ==
  ASSUME NEW t \in Thread, IInv, offset[t] < Len(logs[t])
  PROVE  /\ BatchEnd(t) \in offset[t] + 1 .. Len(logs[t])
         /\ BatchEnd(t) - offset[t] <= MaxBatch
         /\ BatchEnd(t) > offset[t] + 1 => Bytes(t, offset[t], BatchEnd(t)) <= MaxBytes
<1> DEFINE Fits(m) == /\ m - offset[t] <= MaxBatch
                      /\ m > offset[t] + 1 => Bytes(t, offset[t], m) <= MaxBytes
           S == {m \in offset[t] + 1 .. Len(logs[t]) : Fits(m)}
<1>1. offset[t] \in Nat /\ Len(logs[t]) \in Nat
  BY DEF IInv, Functions, Good, Shape, Sound
<1>2. offset[t] + 1 \in S
  BY <1>1, LimitsAssumption
<1>3. S \in SUBSET Nat /\ S # {} /\ \A x \in S : x <= Len(logs[t])
  BY <1>1, <1>2
<1>4. BatchEnd(t) = Max(S)
  BY DEF BatchEnd
<1>5. Max(S) \in S
  <2> HIDE DEF S
  <2> QED
    BY <1>1, <1>3, MaxIs
<1> QED
  BY <1>4, <1>5

-----------------------------------------------------------------------------
(* Every step keeps the invariant.  Of the threads only the one that moves *)
(* has to be looked at.                                                    *)

LEMMA OnlyTheMover ==
  ASSUME IInv, NEW t \in Thread, Functions', Good(t)',
         \A u \in Thread \ {t} : Untouched(u)
  PROVE  IInv'
<1>1. ASSUME NEW u \in Thread PROVE Good(u)'
  <2>1. CASE u = t
    BY <2>1
  <2>2. CASE u # t
    BY <2>2, OthersKeepGood DEF IInv
  <2> QED
    BY <2>1, <2>2
<1> QED
  BY <1>1 DEF IInv

LEMMA EvaluateIsGood ==
  ASSUME IInv, NEW t \in Thread, Evaluate(t)
  PROVE  IInv'
<1>1. PICK c \in Chunks :
        /\ chunk' = [chunk EXCEPT ![t] = c]
        /\ IF \E i \in DOMAIN c : Refused(c[i])
           THEN /\ pc' = [pc EXCEPT ![t] = "failed"]
                /\ UNCHANGED logs
           ELSE /\ pc' = [pc EXCEPT ![t] = "lock"]
                /\ logs' = [logs EXCEPT ![t] = Mapped(c)]
  BY DEF Evaluate
<1>2. pc[t] = "idle" /\ UNCHANGED <<offset, flying, stored, ok, mutex>>
  BY DEF Evaluate
<1>3. Functions /\ Good(t)
  BY DEF IInv
<1>4. /\ pc'[t] \in {"lock", "failed"}
      /\ pc' \in [Thread -> {"idle", "lock", "batch", "call", "done", "failed"}]
  BY <1>1, <1>3 DEF Functions
<1>5. Sound(logs'[t]) /\ logs' = [u \in Thread |-> logs'[u]]
  <2>1. CASE \E i \in DOMAIN c : Refused(c[i])
    BY <1>1, <1>3, <2>1 DEF Functions, Good, Shape
  <2>2. CASE ~ \E i \in DOMAIN c : Refused(c[i])
    <3>1. logs' = [logs EXCEPT ![t] = Mapped(c)] /\ Sound(Mapped(c))
      BY <1>1, <2>2, MappedIsSound
    <3> QED
      BY <1>3, <3>1 DEF Functions
  <2> QED
    BY <2>1, <2>2
<1>6. Functions'
  BY <1>1, <1>2, <1>3, <1>4, <1>5 DEF Functions
<1>7. /\ offset[t] = 0 /\ flying[t] = 0 /\ mutex # t
      /\ ok[t] = 1..0 /\ stored[t] = 1..0
  BY <1>2, <1>3 DEF Functions, Good, Shape, Confirmed
<1>8. Shape(t)'
  BY <1>2, <1>4, <1>5, <1>7 DEF Shape, Sound
<1>9. Confirmed(t)'
  BY <1>2, <1>5, <1>7 DEF Confirmed, Sound
<1>10. Limits(t)'
  BY <1>2, <1>7, LimitsAssumption DEF Limits
<1>11. \A u \in Thread \ {t} : Untouched(u)
  BY <1>1, <1>2, <1>3 DEF Untouched, Functions
<1>12. Good(t)'
  BY <1>8, <1>9, <1>10 DEF Good
<1> QED
  BY <1>6, <1>11, <1>12, OnlyTheMover

LEMMA LockIsGood ==
  ASSUME IInv, NEW t \in Thread, Lock(t)
  PROVE  IInv'
<1>1. Functions /\ Good(t)
  BY DEF IInv
<1>2. Functions'
  BY <1>1 DEF Lock, Functions
<1>3. pc'[t] = "batch" /\ mutex' = t /\ pc[t] = "lock"
  BY <1>1 DEF Lock, Functions
<1>4. UNCHANGED <<chunk, logs, offset, flying, stored, ok>>
  BY DEF Lock
<1>5. Shape(t)' /\ Confirmed(t)'
  BY <1>1, <1>3, <1>4 DEF Good, Shape, Confirmed, Sound
<1>6. Limits(t)'
  BY <1>1, <1>4 DEF Good, Limits, Bytes, Entries
<1>7. \A u \in Thread \ {t} : Untouched(u)
  BY <1>1, NoThreadAssumption DEF Lock, Untouched, Functions
<1>8. Good(t)'
  BY <1>5, <1>6 DEF Good
<1> QED
  BY <1>2, <1>7, <1>8, OnlyTheMover

LEMMA BatchIsGood ==
  ASSUME IInv, NEW t \in Thread, Batch(t)
  PROVE  IInv'
<1> DEFINE end == BatchEnd(t)
<1>1. Functions /\ Good(t)
  BY DEF IInv
<1>2. /\ end \in offset[t] + 1 .. Len(logs[t])
      /\ end - offset[t] <= MaxBatch
      /\ end > offset[t] + 1 => Bytes(t, offset[t], end) <= MaxBytes
  BY TheBatch DEF Batch
<1>3. /\ pc[t] = "batch" /\ pc' = [pc EXCEPT ![t] = "call"]
      /\ flying' = [flying EXCEPT ![t] = end - offset[t]]
      /\ UNCHANGED <<chunk, logs, offset, stored, ok, mutex>>
  BY DEF Batch
<1> HIDE DEF end
<1>4. offset[t] \in Nat /\ Len(logs[t]) \in Nat /\ flying[t] = 0
  BY <1>1, <1>3 DEF Functions, Good, Shape, Sound
<1>5. end \in Nat /\ end - offset[t] \in Nat /\ end - offset[t] > 0
  BY <1>2, <1>4
<1>6. Functions' /\ pc'[t] = "call" /\ flying'[t] = end - offset[t]
  BY <1>1, <1>3, <1>5 DEF Functions
<1>7. offset'[t] + flying'[t] = end
  BY <1>3, <1>4, <1>5, <1>6
<1>8. Shape(t)'
  <2>1. Sound(logs[t])'
    BY <1>1, <1>3 DEF Good, Shape, Sound
  <2>2. offset'[t] + flying'[t] <= Len(logs'[t]) /\ flying'[t] > 0
    BY <1>2, <1>3, <1>4, <1>5, <1>6, <1>7
  <2>3. mutex' = t
    BY <1>1, <1>3 DEF Good, Shape
  <2> QED
    BY <1>6, <2>1, <2>2, <2>3 DEF Shape
<1>9. Confirmed(t)'
  <2>1. stored[t] = 1..offset[t]
    BY <1>1, <1>3, <1>4 DEF Good, Confirmed
  <2> QED
    BY <1>1, <1>3, <1>6, <2>1 DEF Good, Confirmed
<1>10. Limits(t)'
  BY <1>2, <1>3, <1>4, <1>5, <1>6, <1>7 DEF Limits, Bytes, Entries
<1>11. \A u \in Thread \ {t} : Untouched(u)
  BY <1>1, <1>3 DEF Untouched, Functions
<1>12. Good(t)'
  BY <1>8, <1>9, <1>10 DEF Good
<1> QED
  BY <1>6, <1>11, <1>12, OnlyTheMover

\* What the batch under way adds to the entries before it.
LEMMA InFlightFollows ==
  ASSUME NEW t \in Thread, offset[t] \in Nat, flying[t] \in Nat
  PROVE  1..offset[t] \cup InFlight(t) = 1..offset[t] + flying[t]
BY DEF InFlight

LEMMA StoreIsGood ==
  ASSUME IInv, NEW t \in Thread, Store(t)
  PROVE  IInv'
<1>1. Functions /\ Good(t)
  BY DEF IInv
<1>2. /\ pc[t] = "call" /\ ~(InFlight(t) \subseteq stored[t])
      /\ stored' = [stored EXCEPT ![t] = @ \cup InFlight(t)]
      /\ UNCHANGED <<pc, chunk, logs, offset, flying, ok, mutex>>
  BY DEF Store
<1>3. offset[t] \in Nat /\ flying[t] \in Nat /\ Len(logs[t]) \in Nat
  BY <1>1 DEF Functions, Good, Shape, Sound
<1>4. stored[t] = 1..offset[t]
  BY <1>1, <1>2, <1>3, InFlightFollows DEF Good, Confirmed
<1>5. stored'[t] = 1..offset[t] + flying[t]
  BY <1>1, <1>2, <1>3, <1>4, InFlightFollows DEF Functions
<1>6. InFlight(t) \subseteq Nat
  BY <1>3 DEF InFlight
<1>7. Functions'
  BY <1>1, <1>2, <1>6 DEF Functions
<1>8. Shape(t)'
  BY <1>1, <1>2 DEF Good, Shape, Sound
<1>9. Confirmed(t)'
  <2>1. offset[t] + flying[t] \in offset[t]..Len(logs[t])
    BY <1>1, <1>3 DEF Good, Shape
  <2> QED
    BY <1>1, <1>2, <1>5, <2>1 DEF Good, Confirmed
<1>10. Limits(t)'
  BY <1>1, <1>2 DEF Good, Limits, Bytes, Entries
<1>11. \A u \in Thread \ {t} : Untouched(u)
  BY <1>1, <1>2 DEF Untouched, Functions
<1>12. Good(t)'
  BY <1>8, <1>9, <1>10 DEF Good
<1> QED
  BY <1>7, <1>11, <1>12, OnlyTheMover

LEMMA CallReturnsIsGood ==
  ASSUME IInv, NEW t \in Thread, CallReturns(t)
  PROVE  IInv'
<1>1. Functions /\ Good(t)
  BY DEF IInv
<1>2. /\ pc[t] = "call" /\ InFlight(t) \subseteq stored[t]
      /\ ok' = [ok EXCEPT ![t] = @ \cup InFlight(t)]
      /\ offset' = [offset EXCEPT ![t] = @ + flying[t]]
      /\ flying' = [flying EXCEPT ![t] = 0]
      /\ pc' = [pc EXCEPT ![t] = "batch"]
      /\ UNCHANGED <<chunk, logs, stored, mutex>>
  BY DEF CallReturns
<1>3. /\ offset[t] \in Nat /\ flying[t] \in Nat /\ Len(logs[t]) \in Nat
      /\ flying[t] > 0 /\ offset[t] + flying[t] <= Len(logs[t])
  BY <1>1, <1>2 DEF Functions, Good, Shape, Sound
<1>4. InFlight(t) \subseteq Nat
  BY <1>3 DEF InFlight
<1>5. /\ Functions'
      /\ pc'[t] = "batch" /\ flying'[t] = 0 /\ offset'[t] = offset[t] + flying[t]
      /\ ok'[t] = ok[t] \cup InFlight(t)
  BY <1>1, <1>2, <1>3, <1>4 DEF Functions
<1>6. stored[t] = 1..offset[t] + flying[t]
  <2>1. offset[t] + 1 \in InFlight(t) /\ offset[t] + 1 \notin 1..offset[t]
    BY <1>3 DEF InFlight
  <2>2. stored[t] \in {1..offset[t], 1..offset[t] + flying[t]}
    BY <1>1, <1>2 DEF Good, Confirmed
  <2> QED
    BY <1>2, <2>1, <2>2
<1>7. ok'[t] = 1..offset'[t]
  BY <1>1, <1>3, <1>5, InFlightFollows DEF Good, Confirmed
<1>8. Shape(t)'
  BY <1>1, <1>2, <1>3, <1>5 DEF Good, Shape, Sound
<1>9. Confirmed(t)'
  BY <1>2, <1>3, <1>5, <1>6, <1>7 DEF Confirmed
<1>10. Limits(t)'
  BY <1>5, LimitsAssumption DEF Limits
<1>11. \A u \in Thread \ {t} : Untouched(u)
  BY <1>1, <1>2 DEF Untouched, Functions
<1>12. Good(t)'
  BY <1>8, <1>9, <1>10 DEF Good
<1> QED
  BY <1>5, <1>11, <1>12, OnlyTheMover

\* A thread that gives up or has written everything leaves the mutex to the others.
LEMMA UnlockIsGood ==
  ASSUME IInv, NEW t \in Thread, Throws(t) \/ Finish(t)
  PROVE  IInv'
<1>1. Functions /\ Good(t)
  BY DEF IInv
<1>2. offset[t] \in Nat /\ flying[t] \in Nat /\ Len(logs[t]) \in Nat
  BY <1>1 DEF Functions, Good, Shape, Sound
<1>3. /\ pc[t] \in {"batch", "call"} /\ pc'[t] \in {"done", "failed"} /\ flying'[t] = 0
      /\ pc'[t] = "done" => pc[t] = "batch" /\ offset[t] >= Len(logs[t])
      /\ mutex' = NoThread /\ UNCHANGED <<chunk, logs, offset, stored, ok>>
  <2>1. CASE Throws(t)
    BY <1>1, <2>1 DEF Throws, Functions
  <2>2. CASE Finish(t)
    BY <1>1, <2>2 DEF Finish, Functions, Good, Shape
  <2> QED
    BY <2>1, <2>2
<1>4. Functions'
  <2>1. CASE Throws(t)
    BY <1>1, <1>3, <2>1 DEF Throws, Functions
  <2>2. CASE Finish(t)
    BY <1>1, <1>3, <2>2 DEF Finish, Functions
  <2> QED
    BY <2>1, <2>2
<1>5. mutex = t
  BY <1>1, <1>3 DEF Good, Shape
<1>6. Shape(t)'
  <2>1. Sound(logs[t])'
    BY <1>1, <1>3 DEF Good, Shape, Sound
  <2>2. /\ offset'[t] + flying'[t] <= Len(logs'[t])
        /\ pc'[t] = "done" => offset'[t] = Len(logs'[t])
    BY <1>1, <1>2, <1>3 DEF Good, Shape
  <2>3. mutex' # t
    BY <1>3, NoThreadAssumption
  <2> QED
    BY <1>3, <2>1, <2>2, <2>3 DEF Shape
<1>7. Confirmed(t)'
  <2>1. pc'[t] = "done" => stored[t] = 1..offset[t]
    BY <1>1, <1>2, <1>3 DEF Good, Confirmed, Shape
  <2> QED
    BY <1>1, <1>3, <2>1 DEF Good, Confirmed
<1>8. Limits(t)'
  BY <1>3, LimitsAssumption DEF Limits
<1>9. \A u \in Thread \ {t} : Untouched(u)
  BY <1>1, <1>3, <1>5, NoThreadAssumption DEF Throws, Finish, Untouched, Functions
<1>10. Good(t)'
  BY <1>6, <1>7, <1>8 DEF Good
<1> QED
  BY <1>4, <1>9, <1>10, OnlyTheMover

LEMMA StutterIsGood == IInv /\ UNCHANGED vars => IInv'
<1> SUFFICES ASSUME IInv, UNCHANGED vars PROVE IInv'
  OBVIOUS
<1>1. Functions'
  BY DEF IInv, Functions, vars
<1>2. ASSUME NEW t \in Thread PROVE Good(t)'
  BY OthersKeepGood DEF IInv, Untouched, vars
<1> QED
  BY <1>1, <1>2 DEF IInv

LEMMA Inductive == Spec => []IInv
<1>1. Init => IInv
  BY InitIsGood
<1>2. IInv /\ [Next]_vars => IInv'
  <2> SUFFICES ASSUME IInv, [Next]_vars PROVE IInv'
    OBVIOUS
  <2>1. CASE UNCHANGED vars
    BY <2>1, StutterIsGood
  <2>2. CASE Next
    <3>1. PICK t \in Thread : Evaluate(t) \/ Store(t) \/ Run(t)
      BY <2>2 DEF Next
    <3>2. CASE Evaluate(t)
      BY <3>2, EvaluateIsGood
    <3>3. CASE Store(t)
      BY <3>3, StoreIsGood
    <3>4. CASE Lock(t)
      BY <3>4, LockIsGood
    <3>5. CASE Batch(t)
      BY <3>5, BatchIsGood
    <3>6. CASE CallReturns(t)
      BY <3>6, CallReturnsIsGood
    <3>7. CASE Throws(t) \/ Finish(t)
      BY <3>7, UnlockIsGood
    <3> QED
      BY <3>1, <3>2, <3>3, <3>4, <3>5, <3>6, <3>7 DEF Run
  <2> QED
    BY <2>1, <2>2
<1> QED
  BY <1>1, <1>2, PTL DEF Spec

-----------------------------------------------------------------------------
(* Theorems                                                                *)

\* The variables keep their ranges: the confirmed entries and the batch under way lie
\* within the entries of the chunk, and none of them has malformed attributes.
THEOREM TypeCorrect == Spec => []TypeOK
<1>1. ASSUME IInv, NEW t \in Thread
      PROVE  /\ \A i \in DOMAIN logs[t] : logs[t][i].wrong \in {"nothing", "name"}
             /\ offset[t] \in 0..Len(logs[t])
             /\ flying[t] \in 0..Len(logs[t]) - offset[t]
             /\ stored[t] \subseteq DOMAIN logs[t] /\ ok[t] \subseteq DOMAIN logs[t]
  <2>1. Functions /\ Sound(logs[t]) /\ offset[t] + flying[t] <= Len(logs[t])
    BY <1>1 DEF IInv, Good, Shape
  <2>2. offset[t] \in Nat /\ flying[t] \in Nat
    BY <2>1 DEF Functions
  <2>3. ok[t] = 1..offset[t] /\ \E n \in offset[t]..Len(logs[t]) : stored[t] = 1..n
    BY <1>1 DEF IInv, Good, Confirmed
  <2>4. Len(logs[t]) \in Nat /\ DOMAIN logs[t] = 1..Len(logs[t])
    BY <2>1 DEF Sound
  <2>5. stored[t] \subseteq DOMAIN logs[t]
    BY <2>2, <2>3, <2>4
  <2>6. ok[t] \subseteq DOMAIN logs[t]
    BY <2>1, <2>2, <2>3, <2>4
  <2> QED
    BY <2>1, <2>2, <2>4, <2>5, <2>6 DEF Sound
<1>2. IInv => TypeOK
  BY <1>1 DEF IInv, Functions, TypeOK
<1> QED
  BY <1>2, Inductive, PTL

\* For any limits, a request with more than one entry respects both of them.
THEOREM BatchesStayWithinLimits == Spec => []BatchWithinLimits
<1>1. IInv => BatchWithinLimits
  BY DEF IInv, Good, Limits, BatchWithinLimits
<1> QED
  BY <1>1, Inductive, PTL

\* Wherever a chunk fails, the service has its first entries in order and no others.
THEOREM StoredStaysPrefix == Spec => []StoredIsPrefix
<1>1. ASSUME IInv, NEW t \in Thread, pc[t] = "done"
      PROVE  stored[t] = DOMAIN logs[t] /\ ok[t] = stored[t]
  <2>1. /\ offset[t] = Len(logs[t]) /\ flying[t] = 0 /\ ok[t] = 1..offset[t]
        /\ DOMAIN logs[t] = 1..Len(logs[t]) /\ Len(logs[t]) \in Nat
    BY <1>1 DEF IInv, Functions, Good, Shape, Confirmed, Sound
  <2>2. stored[t] \in {1..offset[t], 1..offset[t] + flying[t]}
    BY <1>1 DEF IInv, Good, Confirmed
  <2>3. offset[t] + flying[t] = offset[t]
    BY <2>1
  <2> QED
    BY <2>1, <2>2, <2>3
<1>2. IInv => StoredIsPrefix
  BY <1>1 DEF IInv, Good, Confirmed, StoredIsPrefix
<1> QED
  BY <1>2, Inductive, PTL

-----------------------------------------------------------------------------
(* The refinement of RowWriter                                             *)

LEMMA Stages ==
  /\ Stage("idle") = "new" /\ Stage("done") = "done" /\ Stage("failed") = "failed"
  /\ Stage("lock") = "open" /\ Stage("batch") = "open" /\ Stage("call") = "open"
BY DEF Stage

LEMMA StageMoves ==
  ASSUME IInv, NEW t \in Thread, NEW p, pc' = [pc EXCEPT ![t] = p]
  PROVE  /\ stage' = [stage EXCEPT ![t] = Stage(p)]
         /\ Stage(p) = Stage(pc[t]) => stage' = stage
<1>1. \A u \in Thread : pc'[u] = IF u = t THEN p ELSE pc[u]
  BY DEF IInv, Functions
<1>2. stage' = [u \in Thread |-> Stage(pc'[u])] /\ stage = [u \in Thread |-> Stage(pc[u])]
  BY DEF stage
<1>3. \A u \in Thread : stage'[u] = IF u = t THEN Stage(p) ELSE stage[u]
  <2>1. \A u \in Thread : Stage(pc'[u]) = IF u = t THEN Stage(p) ELSE Stage(pc[u])
    BY <1>1
  <2> QED
    BY <1>2, <2>1
<1>4. stage' = [stage EXCEPT ![t] = Stage(p)]
  BY <1>2, <1>3
<1>5. Stage(p) = Stage(pc[t]) => stage' = stage
  BY <1>2, <1>3
<1> QED
  BY <1>4, <1>5

\* What a step shows of the entries of the thread that moves is all that changes.
LEMMA ViewMoves ==
  ASSUME NEW t \in Thread, \A u \in Thread \ {t} : Untouched(u)
  PROVE  /\ waiting' = [waiting EXCEPT ![t] = Waiting(t)']
         /\ underway' = [underway EXCEPT ![t] = InFlight(t)']
<1>1. \A u \in Thread \ {t} : Waiting(u)' = Waiting(u) /\ InFlight(u)' = InFlight(u)
  BY DEF Untouched, Waiting, InFlight
<1>2. /\ waiting' = [u \in Thread |-> Waiting(u)'] /\ waiting = [u \in Thread |-> Waiting(u)]
      /\ underway' = [u \in Thread |-> InFlight(u)'] /\ underway = [u \in Thread |-> InFlight(u)]
  BY DEF waiting, underway
<1> QED
  BY <1>1, <1>2

\* No other batch is under way when one is begun.
LEMMA OneBatchAtATime ==
  ASSUME IInv, NEW t \in Thread, pc[t] = "batch", NEW u \in Thread
  PROVE  underway[u] = {}
<1>1. mutex = t
  BY DEF IInv, Good, Shape
<1>2. pc[u] # "call" /\ offset[u] \in Nat /\ flying[u] \in Nat
  BY <1>1 DEF IInv, Functions, Good, Shape
<1>3. flying[u] = 0
  BY <1>2 DEF IInv, Good, Shape
<1> QED
  BY <1>2, <1>3 DEF underway, InFlight

\* A step of one thread is none of the others.
LEMMA OthersUntouched ==
  ASSUME IInv, NEW t \in Thread, Evaluate(t) \/ Store(t) \/ Run(t)
  PROVE  \A u \in Thread \ {t} : Untouched(u)
<1>1. Functions /\ Good(t)
  BY DEF IInv
<1>2. CASE Evaluate(t)
  <2>1. PICK c \in Chunks : chunk' = [chunk EXCEPT ![t] = c]
    BY <1>2 DEF Evaluate
  <2>2. /\ \E p : pc' = [pc EXCEPT ![t] = p]
        /\ logs' = logs \/ \E entries : logs' = [logs EXCEPT ![t] = entries]
        /\ UNCHANGED <<offset, flying, stored, ok, mutex>>
    BY <1>2 DEF Evaluate
  <2> QED
    BY <1>1, <2>1, <2>2 DEF Untouched, Functions
<1>3. CASE Store(t)
  BY <1>1, <1>3 DEF Store, Untouched, Functions
<1>4. CASE Lock(t)
  BY <1>1, <1>4, NoThreadAssumption DEF Lock, Untouched, Functions
<1>5. CASE Batch(t)
  BY <1>1, <1>5 DEF Batch, Untouched, Functions
<1>6. CASE CallReturns(t)
  BY <1>1, <1>6 DEF CallReturns, Untouched, Functions
<1>7. CASE Throws(t) \/ Finish(t)
  <2>1. mutex = t
    BY <1>1, <1>7 DEF Throws, Finish, Good, Shape
  <2> QED
    BY <1>1, <1>7, <2>1, NoThreadAssumption DEF Throws, Finish, Untouched, Functions
<1> QED
  BY <1>2, <1>3, <1>4, <1>5, <1>6, <1>7 DEF Run

\* Every step of the function is one of RowWriter or changes nothing it shows.
LEMMA StepsAreRowWriters ==
  ASSUME IInv, IInv', [Next]_vars
  PROVE  [RW!RWNext]_(RW!rwvars)
<1>u. CASE UNCHANGED vars
  BY <1>u DEF vars, RW!rwvars, stage, waiting, underway, Waiting, InFlight
<1>n. CASE Next
  <2>1. PICK t \in Thread : Evaluate(t) \/ Store(t) \/ Run(t)
    BY <1>n DEF Next
  <2>2. /\ waiting' = [waiting EXCEPT ![t] = Waiting(t)']
        /\ underway' = [underway EXCEPT ![t] = InFlight(t)']
    BY <2>1, OthersUntouched, ViewMoves
  <2>3. /\ stage[t] = Stage(pc[t]) /\ waiting[t] = Waiting(t) /\ underway[t] = InFlight(t)
        /\ waiting'[t] = Waiting(t)' /\ underway'[t] = InFlight(t)'
    BY DEF stage, waiting, underway
  <2>4. /\ waiting = [u \in Thread |-> waiting[u]] /\ underway = [u \in Thread |-> underway[u]]
    BY DEF waiting, underway
  <2>5. Functions /\ Good(t) /\ Functions' /\ Good(t)'
    BY DEF IInv
  <2>6. /\ offset[t] \in Nat /\ flying[t] \in Nat /\ Len(logs[t]) \in Nat
        /\ offset'[t] \in Nat /\ flying'[t] \in Nat /\ Len(logs'[t]) \in Nat
    BY <2>5 DEF Functions, Good, Shape, Sound
  <2>7. (flying[t] = 0 => InFlight(t) = {}) /\ (flying'[t] = 0 => InFlight(t)' = {})
    BY <2>6 DEF InFlight
  <2>8. CASE Evaluate(t)
    <3>1. /\ pc[t] = "idle" /\ UNCHANGED <<offset, flying, stored, ok>>
          /\ \/ pc' = [pc EXCEPT ![t] = "failed"]
             \/ pc' = [pc EXCEPT ![t] = "lock"]
      BY <2>8 DEF Evaluate
    <3>2. offset[t] = 0 /\ flying[t] = 0 /\ Len(logs[t]) = 0
      BY <2>5, <2>6, <3>1 DEF Good, Shape
    <3>3. waiting[t] = {} /\ underway[t] = {} /\ underway'[t] = {}
      BY <2>3, <2>7, <3>1, <3>2 DEF Waiting
    <3>4. UNCHANGED underway
      BY <2>2, <2>3, <2>4, <3>3
    <3>5. CASE pc' = [pc EXCEPT ![t] = "failed"]
      <4>1. stage' = [stage EXCEPT ![t] = Stage("failed")]
        BY <3>5, StageMoves
      <4>2. pc'[t] = "failed"
        BY <2>5, <3>5 DEF Functions
      <4>3. Waiting(t)' = {}
        BY <4>2 DEF Waiting
      <4>4. waiting' = [waiting EXCEPT ![t] = {}] /\ underway' = [underway EXCEPT ![t] = {}]
        BY <2>2, <2>3, <3>3, <4>3
      <4>5. RW!Abandon(t)
        BY <2>3, <3>1, <4>1, <4>4, Stages DEF RW!Abandon
      <4> QED
        BY <4>5 DEF RW!RWNext
    <3>6. CASE pc' = [pc EXCEPT ![t] = "lock"]
      <4>1. stage' = [stage EXCEPT ![t] = Stage("lock")]
        BY <3>6, StageMoves
      <4>2. waiting' = [waiting EXCEPT ![t] = waiting'[t]]
        BY <2>2, <2>3
      <4>3. waiting'[t] \subseteq Nat
        BY <2>3, <2>6 DEF Waiting
      <4>4. RW!Open(t)
        BY <2>3, <3>1, <3>4, <4>1, <4>2, <4>3, Stages DEF RW!Open
      <4> QED
        BY <4>4 DEF RW!RWNext
    <3> QED
      BY <3>1, <3>5, <3>6
  <2>9. CASE Store(t)
    <3>1. /\ pc[t] = "call" /\ UNCHANGED <<pc, chunk, logs, offset, flying, ok, mutex>>
          /\ stored' = [stored EXCEPT ![t] = @ \cup InFlight(t)]
      BY <2>9 DEF Store
    <3>2. UNCHANGED <<stage, waiting, underway>>
      BY <3>1 DEF stage, waiting, underway, Waiting, InFlight
    <3>3. stored'[t] = stored[t] \cup InFlight(t) /\ stored' = [stored EXCEPT ![t] = stored'[t]]
      BY <2>5, <3>1 DEF Functions
    <3>4. RW!Land(t)
      BY <2>3, <3>1, <3>2, <3>3, Stages DEF RW!Land
    <3> QED
      BY <3>4 DEF RW!RWNext
  <2>10. CASE Lock(t)
    <3>1. /\ pc[t] = "lock" /\ pc' = [pc EXCEPT ![t] = "batch"]
          /\ UNCHANGED <<logs, offset, flying, stored, ok>>
      BY <2>10 DEF Lock
    <3>2. stage' = stage
      <4>1. Stage("batch") = Stage(pc[t]) /\ pc' = [pc EXCEPT ![t] = "batch"]
        BY <3>1, Stages
      <4> QED
        BY <4>1, StageMoves
    <3>3. pc'[t] = "batch"
      BY <2>5, <3>1 DEF Functions
    <3>4. Waiting(t)' = Waiting(t) /\ InFlight(t)' = InFlight(t)
      BY <3>1, <3>3 DEF Waiting, InFlight
    <3>5. UNCHANGED <<waiting, underway>>
      BY <2>2, <2>3, <2>4, <3>4
    <3> QED
      BY <3>1, <3>2, <3>5 DEF RW!rwvars
  <2>11. CASE Batch(t)
    <3>1. /\ pc[t] = "batch" /\ pc' = [pc EXCEPT ![t] = "call"]
          /\ flying' = [flying EXCEPT ![t] = BatchEnd(t) - offset[t]]
          /\ offset[t] < Len(logs[t]) /\ UNCHANGED <<logs, offset, stored, ok>>
      BY <2>11 DEF Batch
    <3>2. stage' = stage
      <4>1. Stage("call") = Stage(pc[t])
        BY <3>1, Stages
      <4> QED
        BY <3>1, <4>1, StageMoves
    <3>3. /\ BatchEnd(t) \in offset[t] + 1 .. Len(logs[t])
          /\ pc'[t] = "call" /\ flying'[t] = BatchEnd(t) - offset[t]
      BY <2>5, <3>1, TheBatch DEF Functions
    <3> DEFINE end == BatchEnd(t)
    <3> HIDE DEF end
    <3>4. end \in offset[t] + 1 .. Len(logs[t]) /\ offset[t] + flying'[t] = end
      BY <2>6, <3>3 DEF end
    <3>5. InFlight(t)' = offset[t] + 1 .. end /\ Waiting(t)' = end + 1 .. Len(logs[t])
      BY <3>1, <3>3, <3>4 DEF InFlight, Waiting
    <3>6. Waiting(t) = offset[t] + 1 .. Len(logs[t])
      <4>1. flying[t] = 0
        BY <2>5, <2>6, <3>1 DEF Good, Shape
      <4> QED
        BY <2>6, <3>1, <4>1 DEF Waiting
    <3>7. /\ InFlight(t)' # {} /\ InFlight(t)' \subseteq Waiting(t)
          /\ Waiting(t)' = Waiting(t) \ InFlight(t)'
      BY <2>6, <3>4, <3>5, <3>6
    <3>8. \A u \in Thread : underway[u] = {}
      BY <3>1, OneBatchAtATime
    <3>9. RW!Send(t)
      BY <2>2, <2>3, <3>1, <3>2, <3>7, <3>8, Stages DEF RW!Send
    <3> QED
      BY <3>9 DEF RW!RWNext
  <2>12. CASE CallReturns(t)
    <3>1. /\ pc[t] = "call" /\ InFlight(t) \subseteq stored[t]
          /\ pc' = [pc EXCEPT ![t] = "batch"]
          /\ ok' = [ok EXCEPT ![t] = @ \cup InFlight(t)]
          /\ offset' = [offset EXCEPT ![t] = @ + flying[t]]
          /\ flying' = [flying EXCEPT ![t] = 0]
          /\ UNCHANGED <<logs, stored>>
      BY <2>12 DEF CallReturns
    <3>2. stage' = stage
      <4>1. Stage("batch") = Stage(pc[t])
        BY <3>1, Stages
      <4> QED
        BY <3>1, <4>1, StageMoves
    <3>3. pc'[t] = "batch" /\ flying'[t] = 0 /\ offset'[t] = offset[t] + flying[t]
      BY <2>5, <3>1 DEF Functions
    <3>4. InFlight(t)' = {} /\ Waiting(t)' = Waiting(t)
      BY <2>6, <2>7, <3>1, <3>3 DEF Waiting
    <3>5. UNCHANGED waiting /\ underway' = [underway EXCEPT ![t] = {}]
      BY <2>2, <2>3, <2>4, <3>4
    <3>6. InFlight(t) # {}
      <4>1. flying[t] > 0
        BY <2>5, <3>1 DEF Good, Shape
      <4>2. offset[t] + 1 \in InFlight(t)
        BY <2>6, <4>1 DEF InFlight
      <4> QED
        BY <4>2
    <3>7. RW!Acknowledge(t)
      BY <2>3, <3>1, <3>2, <3>5, <3>6, Stages DEF RW!Acknowledge
    <3> QED
      BY <3>7 DEF RW!RWNext
  <2>13. CASE Throws(t)
    <3>1. /\ pc[t] \in {"batch", "call"} /\ pc' = [pc EXCEPT ![t] = "failed"]
          /\ flying' = [flying EXCEPT ![t] = 0]
          /\ UNCHANGED <<stored, ok>>
      BY <2>13 DEF Throws
    <3>2. stage' = [stage EXCEPT ![t] = Stage("failed")]
      BY <3>1, StageMoves
    <3>3. pc'[t] = "failed" /\ flying'[t] = 0
      BY <2>5, <3>1 DEF Functions
    <3>4. Waiting(t)' = {} /\ InFlight(t)' = {}
      BY <2>7, <3>3 DEF Waiting
    <3>5. RW!Abandon(t)
      BY <2>2, <2>3, <3>1, <3>2, <3>4, Stages DEF RW!Abandon
    <3> QED
      BY <3>5 DEF RW!RWNext
  <2>14. CASE Finish(t)
    <3>1. /\ pc[t] = "batch" /\ pc' = [pc EXCEPT ![t] = "done"]
          /\ offset[t] >= Len(logs[t])
          /\ UNCHANGED <<logs, offset, flying, stored, ok>>
      BY <2>14 DEF Finish
    <3>2. stage' = [stage EXCEPT ![t] = Stage("done")]
      BY <3>1, StageMoves
    <3>3. pc'[t] = "done"
      BY <2>5, <3>1 DEF Functions
    <3>4. Waiting(t)' = Waiting(t) /\ InFlight(t)' = InFlight(t)
      BY <3>1, <3>3 DEF Waiting, InFlight
    <3>5. UNCHANGED <<waiting, underway>>
      BY <2>2, <2>3, <2>4, <3>4
    <3>6. waiting[t] = {} /\ underway[t] = {}
      <4>1. flying[t] = 0
        BY <2>5, <2>6, <3>1 DEF Good, Shape
      <4> QED
        BY <2>3, <2>6, <2>7, <3>1, <4>1 DEF Waiting
    <3>7. RW!Close(t)
      BY <2>3, <3>1, <3>2, <3>5, <3>6, Stages DEF RW!Close
    <3> QED
      BY <3>7 DEF RW!RWNext
  <2> QED
    BY <2>1, <2>8, <2>9, <2>10, <2>11, <2>12, <2>13, <2>14 DEF Run
<1> QED
  BY <1>u, <1>n

\* For any threads, chunks and limits the function writes rows as RowWriter promises: one
\* batch at a time, no row in two batches, "ok" only for what is stored.
THEOREM WritesAsRowWriter == Spec => KeepsRowWriter
<1>1. Init => RW!RWInit
  <2> SUFFICES ASSUME Init PROVE RW!RWInit
    OBVIOUS
  <2>1. \A t \in Thread : /\ pc[t] = "idle" /\ offset[t] = 0 /\ flying[t] = 0
                          /\ logs[t] = << >> /\ Len(<< >>) = 0
    BY DEF Init
  <2>2. stage = [t \in Thread |-> "new"]
    BY <2>1, Stages DEF stage
  <2>3. \A t \in Thread : Waiting(t) = {} /\ InFlight(t) = {}
    BY <2>1 DEF Waiting, InFlight
  <2>4. waiting = [t \in Thread |-> {}] /\ underway = [t \in Thread |-> {}]
    BY <2>3 DEF waiting, underway
  <2> QED
    BY <2>2, <2>4 DEF Init, RW!RWInit
<1>2. IInv /\ IInv' /\ [Next]_vars => [RW!RWNext]_(RW!rwvars)
  BY StepsAreRowWriters
<1> QED
  BY <1>1, <1>2, Inductive, PTL DEF Spec, KeepsRowWriter, RW!RWSpec

-----------------------------------------------------------------------------
(* The loop comes to its end                                               *)

\* What a chunk has still to do: a batch and its answer for each entry, at most.
Left(t) ==
  CASE pc[t] = "lock"  -> 2 * Len(logs[t]) + 2
    [] pc[t] = "batch" -> 2 * (Len(logs[t]) - offset[t]) + 1
    [] pc[t] = "call"  -> 2 * (Len(logs[t]) - offset[t])
    [] OTHER           -> 0

LEMMA LeftIs ==
  ASSUME IInv, NEW t \in Thread
  PROVE  /\ Left(t) \in 0..2 * Len(logs[t]) + 2
         /\ Len(logs[t]) \in Nat /\ offset[t] \in 0..Len(logs[t])
         /\ pc[t] \in {"lock", "batch", "call"} => Left(t) > 0
<1> DEFINE len == Len(logs[t])
           at  == offset[t]
<1>1. /\ len \in Nat /\ at \in Nat /\ flying[t] \in Nat /\ at + flying[t] <= len
      /\ pc[t] = "call" => flying[t] > 0
  BY DEF IInv, Functions, Good, Shape, Sound
<1>2. Left(t) = CASE pc[t] = "lock" -> 2 * len + 2 [] pc[t] = "batch" -> 2 * (len - at) + 1
                  [] pc[t] = "call" -> 2 * (len - at) [] OTHER -> 0
  BY DEF Left
<1> HIDE DEF len, at
<1>3. Left(t) \in 0..2 * len + 2 /\ (pc[t] \in {"lock", "batch", "call"} => Left(t) > 0)
  BY <1>1, <1>2
<1> QED
  BY <1>1, <1>3 DEF len, at

\* A step of its thread leaves less to do,
LEMMA RunLeavesLess ==
  ASSUME IInv, NEW t \in Thread, Run(t)
  PROVE  Left(t)' < Left(t) /\ Left(t)' <= Left(t)
<1> DEFINE len == Len(logs[t])
           at  == offset[t]
<1>1. Functions /\ len \in Nat /\ at \in 0..len /\ (pc[t] \in {"lock", "batch", "call"} => Left(t) > 0)
  BY LeftIs DEF IInv
<1>2. logs' = logs
  BY DEF Run, Lock, Batch, CallReturns, Throws, Finish
<1>3. CASE Lock(t)
  <2>1. /\ pc[t] = "lock" /\ pc'[t] = "batch" /\ offset'[t] = at
        /\ at = 0
    BY <1>1, <1>3 DEF Lock, Functions, IInv, Good, Shape
  <2>2. Left(t) = 2 * len + 2 /\ Left(t)' = 2 * (len - at) + 1
    BY <1>2, <2>1 DEF Left
  <2> HIDE DEF len, at
  <2> QED
    BY <1>1, <2>1, <2>2
<1>4. CASE Batch(t)
  <2>1. pc[t] = "batch" /\ pc'[t] = "call" /\ offset'[t] = at
    BY <1>1, <1>4 DEF Batch, Functions
  <2>2. Left(t) = 2 * (len - at) + 1 /\ Left(t)' = 2 * (len - at)
    BY <1>2, <2>1 DEF Left
  <2> HIDE DEF len, at
  <2> QED
    BY <1>1, <2>2
<1>5. CASE CallReturns(t)
  <2>1. /\ pc[t] = "call" /\ pc'[t] = "batch" /\ offset'[t] = at + flying[t]
        /\ flying[t] \in Nat /\ flying[t] > 0
    BY <1>1, <1>5 DEF CallReturns, Functions, IInv, Good, Shape
  <2>2. Left(t) = 2 * (len - at) /\ Left(t)' = 2 * (len - (at + flying[t])) + 1
    BY <1>2, <2>1 DEF Left
  <2> HIDE DEF len, at
  <2> QED
    BY <1>1, <2>1, <2>2
<1>6. CASE Throws(t) \/ Finish(t)
  <2>1. pc[t] \in {"batch", "call"} /\ pc'[t] \in {"failed", "done"}
    BY <1>1, <1>6 DEF Throws, Finish, Functions
  <2>2. Left(t)' = 0
    BY <2>1 DEF Left
  <2>3. Left(t) \in Nat
    <3>1. Left(t) \in 0..2 * len + 2
      BY LeftIs
    <3> HIDE DEF len
    <3> QED
      BY <1>1, <3>1
  <2> QED
    BY <1>1, <2>1, <2>2, <2>3
<1> QED
  BY <1>3, <1>4, <1>5, <1>6 DEF Run

\* and that of another thread, or of the service, leaves as much.
LEMMA OthersLeaveAsMuch ==
  ASSUME IInv, NEW u \in Thread, Evaluate(u) \/ Store(u) \/ Run(u),
         NEW t \in Thread, t # u \/ Store(u)
  PROVE  Left(t)' = Left(t)
<1>1. pc'[t] = pc[t] /\ logs'[t] = logs[t] /\ offset'[t] = offset[t]
  BY DEF IInv, Functions, Evaluate, Store, Run, Lock, Batch, CallReturns, Throws, Finish
<1> QED
  BY <1>1 DEF Left

\* A chunk of n entries is at its end after at most 2n+2 steps of its thread, because every batch
\* takes an entry; nothing another thread does makes it longer, and the connection is only ever
\* held by a thread in its loop, which gives it back (send_logs.cpp:410).
THEOREM ChunksComeToTheirEnd ==
  Spec => /\ [](\A t \in Thread : /\ Left(t) \in 0..2 * Len(logs[t]) + 2
                                  /\ mutex = t => pc[t] \in {"batch", "call"})
          /\ [][\A t \in Thread : /\ Run(t) => Left(t)' < Left(t)
                                  /\ pc[t] # "idle" => Left(t)' <= Left(t)]_vars
<1>1. IInv => \A t \in Thread : /\ Left(t) \in 0..2 * Len(logs[t]) + 2
                                /\ mutex = t => pc[t] \in {"batch", "call"}
  <2>1. ASSUME IInv, NEW t \in Thread PROVE Left(t) \in 0..2 * Len(logs[t]) + 2
    BY <2>1, LeftIs
  <2>2. ASSUME IInv, NEW t \in Thread, mutex = t PROVE pc[t] \in {"batch", "call"}
    BY <2>2 DEF IInv, Good, Shape
  <2> QED
    BY <2>1, <2>2
<1>2. IInv /\ [Next]_vars =>
        [\A t \in Thread : /\ Run(t) => Left(t)' < Left(t)
                           /\ pc[t] # "idle" => Left(t)' <= Left(t)]_vars
  <2> SUFFICES ASSUME IInv, Next, NEW t \in Thread
               PROVE  (Run(t) => Left(t)' < Left(t)) /\ (pc[t] # "idle" => Left(t)' <= Left(t))
    OBVIOUS
  <2>1. Run(t) => Left(t)' < Left(t)
    BY RunLeavesLess
  <2>2. ASSUME pc[t] # "idle" PROVE Left(t)' <= Left(t)
    <3>1. PICK u \in Thread : Evaluate(u) \/ Store(u) \/ Run(u)
      BY DEF Next
    <3>2. Left(t) \in Int
      BY LeftIs
    <3>3. CASE t # u \/ Store(u)
      <4>1. Left(t)' = Left(t)
        BY <3>1, <3>3, OthersLeaveAsMuch
      <4> QED
        BY <3>2, <4>1
    <3>4. CASE t = u /\ ~Store(u)
      <4>1. Run(t)
        BY <2>2, <3>1, <3>4 DEF Evaluate
      <4> QED
        BY <4>1, RunLeavesLess
    <3> QED
      BY <3>3, <3>4
  <2> QED
    BY <2>1, <2>2
<1> QED
  BY <1>1, <1>2, Inductive, PTL DEF Spec
===============================================================================
