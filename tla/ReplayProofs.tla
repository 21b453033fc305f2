----------------------------- MODULE ReplayProofs -----------------------------
(***************************************************************************)
(* What replaying a journal computes, for journals of any length, and what *)
(* matching an order does to any book: the facts about Journal and         *)
(* Matching that the proofs of the engine and of the recovery from the     *)
(* database rest on.                                                       *)
(***************************************************************************)
EXTENDS Journal, FiniteSetTheorems, SequenceTheorems, WellFoundedInduction, TLAPS

(* One round of the loop of recover().                                     *)
ReplayRound(events, state, n) == Replayed(state, events[n])

(* The state after N rounds.                                               *)
Iterate(c, base, N) ==
  LET state[n \in 0..N] == IF n = 0 THEN base ELSE ReplayRound(c, state[n - 1], n)
  IN  state[N]

------------------------------------------------------------------------------
(* Induction. *)

(* Every set of naturals that is not empty has a least element.            *)
LEMMA LeastNumber ==
  ASSUME NEW T \in SUBSET Nat, T # {}
  PROVE  \E n \in T : \A m \in T : n <= m
  <1> DEFINE R == OpToRel(<, Nat)
  <1>1. IsWellFoundedOn(R, Nat)
    BY NatLessThanWellFounded
  <1>2. ASSUME NEW x \in Nat, NEW y \in Nat, y < x PROVE <<y, x>> \in R
    BY <1>2 DEF OpToRel
  <1> HIDE DEF R
  <1>3. PICK x \in T : \A y \in T : ~ (<<y, x>> \in R)
    BY <1>1, WFMin
  <1>4. ASSUME NEW y \in T PROVE x <= y
    <2>1. x \in Nat /\ y \in Nat /\ ~(y < x)
      BY <1>2, <1>3
    <2> QED
      BY <2>1
  <1> QED
    BY <1>3, <1>4

(* Induction over the naturals, for a property given as a set.             *)
LEMMA NatSetInduction ==
  ASSUME NEW P, 0 \in P, \A n \in Nat : n \in P => n + 1 \in P
  PROVE  \A n \in Nat : n \in P
  <1> DEFINE T == {n \in Nat : n \notin P}
  <1>1. SUFFICES ASSUME T # {} PROVE FALSE
    OBVIOUS
  <1>2. PICK n \in T : \A m \in T : n <= m
    BY <1>1, LeastNumber
  <1>3. n # 0 /\ n - 1 \in Nat
    BY <1>2
  <1>4. n - 1 \notin T
    BY <1>2, <1>3
  <1> QED
    BY <1>2, <1>3, <1>4

------------------------------------------------------------------------------
(* The rounds of a loop. *)

(* f gives the states of the loop over c after 0..N rounds.                *)
IsRun(f, c, base, N) ==
  /\ DOMAIN f = 0..N
  /\ f = [n \in 0..N |-> f[n]]
  /\ f[0] = base
  /\ \A n \in 1..N : f[n] = ReplayRound(c, f[n - 1], n)

(* A run is a solution of the recursion equation, and the other way round. *)
LEMMA RunSolves ==
  ASSUME NEW N \in Nat, NEW f, NEW c, NEW base
  PROVE  IsRun(f, c, base, N) <=>
           f = [n \in 0..N |-> IF n = 0 THEN base ELSE ReplayRound(c, f[n - 1], n)]
  <1> DEFINE h == [n \in 0..N |-> IF n = 0 THEN base ELSE ReplayRound(c, f[n - 1], n)]
  <1>1. /\ DOMAIN h = 0..N /\ h = [n \in 0..N |-> h[n]] /\ h[0] = base
        /\ \A n \in 1..N : h[n] = ReplayRound(c, f[n - 1], n)
    OBVIOUS
  <1> HIDE DEF h
  <1>2. ASSUME IsRun(f, c, base, N) PROVE f = h
    <2>1. ASSUME NEW n \in 0..N PROVE f[n] = h[n]
      <3>1. f[0] = h[0] /\ \A k \in 1..N : f[k] = h[k]
        BY <1>1, <1>2, Zenon DEF IsRun
      <3> QED
        BY <3>1
    <2> QED
      BY <1>1, <1>2, <2>1 DEF IsRun
  <1>3. ASSUME f = h PROVE IsRun(f, c, base, N)
    BY <1>1, <1>3 DEF IsRun
  <1>4. IsRun(f, c, base, N) <=> f = h
    BY <1>2, <1>3
  <1> QED
    BY <1>4 DEF h

(* There is one, for every number of rounds.                               *)
LEMMA RunExists ==
  ASSUME NEW c, NEW base
  PROVE  \A N \in Nat : \E f : IsRun(f, c, base, N)
  <1> DEFINE P == {n \in Nat : \E f : IsRun(f, c, base, n)}
  <1>1. 0 \in P
    <2>1. IsRun([n \in 0..0 |-> base], c, base, 0)
      BY DEF IsRun
    <2> QED
      BY <2>1
  <1>2. ASSUME NEW n \in Nat, n \in P PROVE n + 1 \in P
    <2>1. PICK f : IsRun(f, c, base, n)
      BY <1>2
    <2> DEFINE g == [k \in 0..(n + 1) |-> IF k \in 0..n THEN f[k] ELSE ReplayRound(c, f[n], n + 1)]
    <2>2. DOMAIN g = 0..(n + 1) /\ g = [k \in 0..(n + 1) |-> g[k]] /\ g[0] = base
      BY <2>1 DEF IsRun
    <2>3. ASSUME NEW k \in 1..(n + 1) PROVE g[k] = ReplayRound(c, g[k - 1], k)
      <3>1. CASE k \in 1..n
        <4>1. g[k] = f[k] /\ g[k - 1] = f[k - 1]
          BY <3>1
        <4> QED
          BY <2>1, <3>1, <4>1 DEF IsRun
      <3>2. CASE k = n + 1
        <4>1. g[k] = ReplayRound(c, f[n], n + 1) /\ k - 1 = n
          BY <3>2
        <4>2. g[n] = f[n]
          OBVIOUS
        <4> QED
          BY <3>2, <4>1, <4>2
      <3> QED
        BY <3>1, <3>2
    <2> HIDE DEF g
    <2>4. IsRun(g, c, base, n + 1)
      BY <2>2, <2>3 DEF IsRun
    <2> QED
      BY <2>4
  <1> HIDE DEF P
  <1>3. \A n \in Nat : n \in P
    BY <1>1, <1>2, NatSetInduction
  <1> QED
    BY <1>3 DEF P

(* Two loops with the same first N rounds go through the same states.      *)
LEMMA RunsAgree ==
  ASSUME NEW N \in Nat, NEW M \in Nat, NEW f, NEW g, NEW c, NEW d, NEW base, N <= M,
         IsRun(f, c, base, N), IsRun(g, d, base, M),
         \A state : \A n \in 1..N : ReplayRound(c, state, n) = ReplayRound(d, state, n)
  PROVE  \A n \in 0..N : f[n] = g[n]
  <1> DEFINE P == {n \in Nat : n <= N => f[n] = g[n]}
  <1>1. 0 \in P
    BY DEF IsRun
  <1>2. ASSUME NEW n \in Nat, n \in P PROVE n + 1 \in P
    <2> SUFFICES ASSUME n + 1 <= N PROVE f[n + 1] = g[n + 1]
      OBVIOUS
    <2>1. f[n] = g[n] /\ n + 1 \in 1..N /\ n + 1 \in 1..M /\ (n + 1) - 1 = n
      BY <1>2
    <2>2. f[n + 1] = ReplayRound(c, f[n], n + 1) /\ g[n + 1] = ReplayRound(d, g[n], n + 1)
      BY <2>1 DEF IsRun
    <2> QED
      BY <2>1, <2>2
  <1> HIDE DEF P
  <1>3. \A n \in Nat : n \in P
    BY <1>1, <1>2, NatSetInduction
  <1> QED
    BY <1>3 DEF P

(* A loop ends in the last state of a run.                                 *)
LEMMA IterateRun ==
  ASSUME NEW N \in Nat, NEW c, NEW base
  PROVE  \E f : IsRun(f, c, base, N) /\ Iterate(c, base, N) = f[N]
  <1> DEFINE F == CHOOSE f : f = [n \in 0..N |-> IF n = 0 THEN base ELSE ReplayRound(c, f[n - 1], n)]
  <1>1. Iterate(c, base, N) = F[N]
    BY DEF Iterate
  <1>2. \E f : f = [n \in 0..N |-> IF n = 0 THEN base ELSE ReplayRound(c, f[n - 1], n)]
    <2>1. PICK f : IsRun(f, c, base, N)
      BY RunExists
    <2> QED
      BY <2>1, RunSolves
  <1>3. F = [n \in 0..N |-> IF n = 0 THEN base ELSE ReplayRound(c, F[n - 1], n)]
    BY <1>2
  <1> HIDE DEF F
  <1>4. IsRun(F, c, base, N)
    BY <1>3, RunSolves, Zenon
  <1> QED
    BY <1>1, <1>4

(* No round leaves the state as it was.                                    *)
THEOREM IterateZero == ASSUME NEW c, NEW base PROVE Iterate(c, base, 0) = base
  <1>1. PICK f : IsRun(f, c, base, 0) /\ Iterate(c, base, 0) = f[0]
    BY IterateRun
  <1> QED
    BY <1>1 DEF IsRun

(* One more round.                                                         *)
THEOREM IterateNext ==
  ASSUME NEW c, NEW base, NEW N \in Nat
  PROVE  Iterate(c, base, N + 1) = ReplayRound(c, Iterate(c, base, N), N + 1)
  <1>1. PICK f : IsRun(f, c, base, N) /\ Iterate(c, base, N) = f[N]
    BY IterateRun
  <1>2. PICK g : IsRun(g, c, base, N + 1) /\ Iterate(c, base, N + 1) = g[N + 1]
    BY IterateRun
  <1>3. f[N] = g[N]
    <2>1. N + 1 \in Nat /\ N <= N + 1 /\ N \in 0..N
      OBVIOUS
    <2> QED
      BY <1>1, <1>2, <2>1, RunsAgree
  <1>4. N + 1 \in 1..(N + 1) /\ (N + 1) - 1 = N
    OBVIOUS
  <1>5. g[N + 1] = ReplayRound(c, g[N], N + 1)
    BY <1>2, <1>4 DEF IsRun
  <1> QED
    BY <1>1, <1>2, <1>3, <1>5

(* A loop depends on its rounds only.                                      *)
THEOREM IterateSame ==
  ASSUME NEW c, NEW d, NEW base, NEW N \in Nat,
         \A state : \A n \in 1..N : ReplayRound(c, state, n) = ReplayRound(d, state, n)
  PROVE  Iterate(c, base, N) = Iterate(d, base, N)
  <1>1. PICK f : IsRun(f, c, base, N) /\ Iterate(c, base, N) = f[N]
    BY IterateRun
  <1>2. PICK g : IsRun(g, d, base, N) /\ Iterate(d, base, N) = g[N]
    BY IterateRun
  <1>3. f[N] = g[N]
    <2>1. N <= N /\ N \in 0..N
      OBVIOUS
    <2> QED
      BY <1>1, <1>2, <2>1, RunsAgree
  <1> QED
    BY <1>1, <1>2, <1>3

------------------------------------------------------------------------------
(* Parts of a sequence. *)

(* A set of positions is finite.                                           *)
LEMMA PositionsFinite ==
  ASSUME NEW n \in Nat, NEW S \in SUBSET (1..n)
  PROVE  IsFiniteSet(S) /\ Cardinality(S) \in Nat /\ Cardinality(S) <= n
  <1>1. IsFiniteSet(1..n) /\ Cardinality(1..n) = n
    BY FS_Interval
  <1>2. IsFiniteSet(S) /\ Cardinality(S) <= Cardinality(1..n)
    BY <1>1, FS_Subset
  <1> QED
    BY <1>1, <1>2, FS_CardinalityType

(* A new last position does not move the others.                           *)
LEMMA NthOfMore ==
  ASSUME NEW n \in Nat, NEW S \in SUBSET (1..n)
  PROVE  /\ Cardinality(S \cup {n + 1}) = Cardinality(S) + 1
         /\ \A k \in 1..Cardinality(S) : Nth(S \cup {n + 1}, k) = Nth(S, k)
         /\ Nth(S \cup {n + 1}, Cardinality(S) + 1) = n + 1
  <1> DEFINE U == S \cup {n + 1}
             Below(T, i) == {j \in T : j < i}
  <1>0. IsFiniteSet(S) /\ Cardinality(S) \in Nat
    BY PositionsFinite
  <1>1. Cardinality(U) = Cardinality(S) + 1
    BY <1>0, FS_AddElement
  <1>2. Below(U, n + 1) = S
    <2>1. ASSUME NEW j \in U PROVE j < n + 1 <=> j \in S
      OBVIOUS
    <2> QED
      BY <2>1
  <1>3. ASSUME NEW i \in S PROVE Below(U, i) = Below(S, i)
    OBVIOUS
  <1>4. ASSUME NEW i \in S PROVE Cardinality(Below(S, i)) < Cardinality(S)
    <2>1. Below(S, i) \subseteq S \ {i}
      OBVIOUS
    <2>2. IsFiniteSet(S \ {i}) /\ Cardinality(S \ {i}) = Cardinality(S) - 1
      BY <1>0, FS_RemoveElement
    <2>3. Cardinality(Below(S, i)) <= Cardinality(S \ {i}) /\ IsFiniteSet(Below(S, i))
      BY <2>1, <2>2, FS_Subset
    <2>4. Cardinality(Below(S, i)) \in Nat
      BY <2>3, FS_CardinalityType
    <2> HIDE DEF Below
    <2> QED
      BY <1>0, <2>2, <2>3, <2>4
  <1>5. ASSUME NEW k \in 1..Cardinality(S) PROVE Nth(U, k) = Nth(S, k)
    <2>1. ASSUME NEW i
          PROVE  i \in U /\ Cardinality(Below(U, i)) = k - 1 <=>
                 i \in S /\ Cardinality(Below(S, i)) = k - 1
      <3>1. CASE i \in S
        BY <1>3, <3>1
      <3>2. CASE i = n + 1
        BY <1>0, <1>2, <3>2
      <3> QED
        BY <3>1, <3>2
    <2> QED
      BY <2>1 DEF Nth
  <1>6. Nth(U, Cardinality(S) + 1) = n + 1
    <2>1. ASSUME NEW i \in U PROVE Cardinality(Below(U, i)) = (Cardinality(S) + 1) - 1 <=> i = n + 1
      <3>1. CASE i \in S
        BY <1>0, <1>3, <1>4, <3>1
      <3>2. CASE i = n + 1
        BY <1>0, <1>2, <3>2
      <3> QED
        BY <3>1, <3>2
    <2> QED
      BY <2>1 DEF Nth
  <1> QED
    BY <1>1, <1>5, <1>6

(* The k-th of a set of positions is one of them.                          *)
LEMMA NthIn ==
  ASSUME NEW n \in Nat, NEW S \in SUBSET (1..n), NEW k \in 1..Cardinality(S)
  PROVE  Nth(S, k) \in S
  <1> DEFINE P == {m \in Nat : \A T \in SUBSET (1..m) : \A i \in 1..Cardinality(T) : Nth(T, i) \in T}
  <1>1. 0 \in P
    <2>1. ASSUME NEW T \in SUBSET (1..0) PROVE 1..Cardinality(T) = {}
      <3>1. T = {}
        OBVIOUS
      <3>2. Cardinality(T) = 0
        BY <3>1, FS_EmptySet
      <3> QED
        BY <3>2
    <2> QED
      BY <2>1
  <1>2. ASSUME NEW m \in Nat, m \in P PROVE m + 1 \in P
    <2> SUFFICES ASSUME NEW T \in SUBSET (1..(m + 1)), NEW i \in 1..Cardinality(T)
                 PROVE  Nth(T, i) \in T
      OBVIOUS
    <2>1. CASE m + 1 \notin T
      <3>1. T \in SUBSET (1..m)
        BY <2>1
      <3> QED
        BY <1>2, <3>1
    <2>2. CASE m + 1 \in T
      <3> DEFINE S0 == T \ {m + 1}
      <3>1. S0 \in SUBSET (1..m) /\ T = S0 \cup {m + 1}
        BY <2>2
      <3> HIDE DEF S0
      <3>2. Cardinality(S0) \in Nat /\ Cardinality(T) = Cardinality(S0) + 1
        BY <3>1, NthOfMore, PositionsFinite
      <3>3. CASE i \in 1..Cardinality(S0)
        BY <1>2, <3>1, <3>3, NthOfMore
      <3>4. CASE i = Cardinality(S0) + 1
        BY <3>1, <3>4, NthOfMore
      <3> QED
        BY <3>2, <3>3, <3>4
    <2> QED
      BY <2>1, <2>2
  <1> HIDE DEF P
  <1>3. \A m \in Nat : m \in P
    BY <1>1, <1>2, NatSetInduction
  <1> QED
    BY <1>3 DEF P

(* A function on 1..n is a sequence of length n.                           *)
LEMMA FunctionIsSeq ==
  ASSUME NEW A, NEW n \in Nat, NEW f \in [1..n -> A]
  PROVE  f \in Seq(A) /\ Len(f) = n
  <1>1. f \in Seq(A)
    BY SeqDef
  <1>2. DOMAIN f = 1..n /\ DOMAIN f = 1..Len(f) /\ Len(f) \in Nat
    BY <1>1, LenProperties
  <1> QED
    BY <1>1, <1>2

(* A part of a sequence is a sequence of elements of it.                   *)
THEOREM KeepType ==
  ASSUME NEW A, NEW s \in Seq(A), NEW S \in SUBSET (1..Len(s))
  PROVE  /\ Keep(s, S) \in Seq(A) /\ Len(Keep(s, S)) = Cardinality(S)
         /\ \A k \in 1..Cardinality(S) : \E i \in S : Keep(s, S)[k] = s[i]
  <1>1. Len(s) \in Nat /\ Cardinality(S) \in Nat
    BY PositionsFinite
  <1>2. \A k \in 1..Cardinality(S) : Nth(S, k) \in S
    BY <1>1, NthIn, Zenon
  <1>3. \A i \in S : s[i] \in A
    OBVIOUS
  <1>4. \A k \in 1..Cardinality(S) : s[Nth(S, k)] \in A
    BY <1>2, <1>3, Zenon
  <1> DEFINE f == [k \in 1..Cardinality(S) |-> s[Nth(S, k)]]
  <1>5. f \in [1..Cardinality(S) -> A] /\ \A k \in 1..Cardinality(S) : f[k] = s[Nth(S, k)]
    BY <1>4, Zenon
  <1>6. Keep(s, S) = f
    BY DEF Keep
  <1> HIDE DEF f
  <1>7. f \in Seq(A) /\ Len(f) = Cardinality(S)
    BY <1>1, <1>5, FunctionIsSeq
  <1>8. \A k \in 1..Cardinality(S) : \E i \in S : f[k] = s[i]
    BY <1>2, <1>5, Zenon
  <1> QED
    BY <1>6, <1>7, <1>8

(* A sequence that grows at its end.                                       *)
LEMMA KeepMore ==
  ASSUME NEW A, NEW s \in Seq(A), NEW e \in A, NEW S \in SUBSET (1..Len(s))
  PROVE  /\ Keep(Append(s, e), S) = Keep(s, S)
         /\ Keep(Append(s, e), S \cup {Len(s) + 1}) = Append(Keep(s, S), e)
  <1> DEFINE t == Append(s, e)
             c == Cardinality(S)
             U == S \cup {Len(s) + 1}
  <1>1. Len(s) \in Nat /\ c \in Nat
    BY PositionsFinite
  <1>2. \A k \in 1..c : Nth(S, k) \in S
    BY <1>1, NthIn
  <1>3. \A i \in S : t[i] = s[i]
    OBVIOUS
  <1>4. t[Len(s) + 1] = e
    OBVIOUS
  <1>5. /\ Cardinality(U) = c + 1
        /\ \A k \in 1..c : Nth(U, k) = Nth(S, k)
        /\ Nth(U, c + 1) = Len(s) + 1
    BY <1>1, NthOfMore
  <1>6. Keep(s, S) \in Seq(A) /\ Len(Keep(s, S)) = c /\ \A k \in 1..c : Keep(s, S)[k] = s[Nth(S, k)]
    <2>1. Keep(s, S) \in Seq(A) /\ Len(Keep(s, S)) = c
      BY KeepType
    <2>2. \A k \in 1..c : Keep(s, S)[k] = s[Nth(S, k)]
      BY DEF Keep
    <2> QED
      BY <2>1, <2>2
  <1> HIDE DEF t, U, c
  <1>7. Keep(t, S) = Keep(s, S)
    <2>1. \A k \in 1..c : t[Nth(S, k)] = s[Nth(S, k)]
      BY <1>2, <1>3
    <2> QED
      BY <2>1 DEF Keep, c
  <1>8. Keep(t, U) = Append(Keep(s, S), e)
    <2>0. /\ Append(Keep(s, S), e) \in Seq(A) /\ Len(Append(Keep(s, S), e)) = c + 1
          /\ \A k \in 1..c : Append(Keep(s, S), e)[k] = Keep(s, S)[k]
          /\ Append(Keep(s, S), e)[c + 1] = e
      BY <1>6, AppendProperties
    <2>1. /\ Keep(t, U) \in Seq(A) /\ Len(Keep(t, U)) = c + 1
          /\ \A k \in 1..(c + 1) : Keep(t, U)[k] = t[Nth(U, k)]
      <3>0. t \in Seq(A) /\ Len(t) = Len(s) + 1
        BY AppendProperties DEF t
      <3>1. U \in SUBSET (1..Len(t))
        <4>1. ASSUME NEW x \in S PROVE x \in 1..(Len(s) + 1)
          BY <1>1
        <4>2. Len(s) + 1 \in 1..(Len(s) + 1)
          BY <1>1
        <4> QED
          BY <3>0, <4>1, <4>2 DEF U
      <3>2. Keep(t, U) \in Seq(A) /\ Len(Keep(t, U)) = Cardinality(U)
        BY <3>0, <3>1, KeepType
      <3>3. \A k \in 1..Cardinality(U) : Keep(t, U)[k] = t[Nth(U, k)]
        BY DEF Keep
      <3> QED
        BY <1>5, <3>2, <3>3
    <2>2. ASSUME NEW k \in 1..(c + 1) PROVE Keep(t, U)[k] = Append(Keep(s, S), e)[k]
      <3>1. CASE k \in 1..c
        <4>1. t[Nth(U, k)] = s[Nth(S, k)]
          BY <1>2, <1>3, <1>5, <3>1
        <4> QED
          BY <1>6, <2>0, <2>1, <3>1, <4>1
      <3>2. CASE k = c + 1
        <4>1. t[Nth(U, k)] = e
          BY <1>4, <1>5, <3>2
        <4> QED
          BY <2>0, <2>1, <3>2, <4>1
      <3>3. k \in 1..c \/ k = c + 1
        BY <1>1
      <3> QED
        BY <3>1, <3>2, <3>3
    <2> QED
      BY <2>0, <2>1, <2>2, SeqEqual
  <1> QED
    BY <1>7, <1>8 DEF t, U

(* Of an empty sequence nothing is left, and of no positions either.       *)
LEMMA KeepNone == ASSUME NEW s PROVE Keep(s, {}) = <<>>
  <1>1. Cardinality({}) = 0
    BY FS_EmptySet
  <1> QED
    BY <1>1 DEF Keep

------------------------------------------------------------------------------
(* The part of a sequence from one place on. *)

(* The part of a sequence from one place on grows with it.                 *)
LEMMA RestAppend ==
  ASSUME NEW S, NEW s \in Seq(S), NEW e \in S, NEW k \in 0..Len(s)
  PROVE  /\ SubSeq(s, k + 1, Len(s)) \in Seq(S)
         /\ SubSeq(Append(s, e), k + 1, Len(s) + 1) = Append(SubSeq(s, k + 1, Len(s)), e)
  <1>1. SubSeq(s, k + 1, Len(s)) \in Seq(S)
    OBVIOUS
  <1>2. SubSeq(Append(s, e), k + 1, Len(s) + 1) = Append(SubSeq(s, k + 1, Len(s)), e)
    <2> DEFINE t == Append(s, e)
               u == SubSeq(s, k + 1, Len(s))
               v == SubSeq(t, k + 1, Len(s) + 1)
    <2>1. /\ t \in Seq(S) /\ Len(t) = Len(s) + 1 /\ t[Len(s) + 1] = e
          /\ \A i \in 1..Len(s) : t[i] = s[i]
      OBVIOUS
    <2>2. u \in Seq(S) /\ Len(u) = Len(s) - k /\ \A i \in 1..(Len(s) - k) : u[i] = s[k + i]
      OBVIOUS
    <2> HIDE DEF t
    <2>3. v \in Seq(S) /\ Len(v) = Len(s) + 1 - k /\ \A i \in 1..(Len(s) + 1 - k) : v[i] = t[k + i]
      BY <2>1
    <2> HIDE DEF u, v
    <2>4. /\ Append(u, e) \in Seq(S) /\ Len(Append(u, e)) = Len(s) + 1 - k
          /\ \A i \in 1..(Len(s) - k) : Append(u, e)[i] = u[i]
          /\ Append(u, e)[Len(s) - k + 1] = e
      BY <2>2
    <2>5. ASSUME NEW i \in 1..(Len(s) + 1 - k) PROVE v[i] = Append(u, e)[i]
      <3>1. CASE i = Len(s) - k + 1
        BY <2>1, <2>3, <2>4, <3>1
      <3>2. CASE i # Len(s) - k + 1
        <4>1. i \in 1..(Len(s) - k) /\ k + i \in 1..Len(s)
          BY <3>2
        <4> QED
          BY <2>1, <2>2, <2>3, <2>4, <4>1
      <3> QED
        BY <3>1, <3>2
    <2>6. v = Append(u, e)
      BY <2>3, <2>4, <2>5, SeqEqual
    <2> QED
      BY <2>6 DEF t, u, v
  <1> QED
    BY <1>1, <1>2

(* It can be cut in two.                                                   *)
LEMMA RestSplit ==
  ASSUME NEW S, NEW s \in Seq(S), NEW a \in 0..Len(s), NEW b \in a..Len(s)
  PROVE  SubSeq(s, a + 1, Len(s)) = SubSeq(s, a + 1, b) \o SubSeq(s, b + 1, Len(s))
  <1> DEFINE u == SubSeq(s, a + 1, b)
             v == SubSeq(s, b + 1, Len(s))
             w == SubSeq(s, a + 1, Len(s))
  <1>1. Len(s) \in Nat /\ a \in Nat /\ b \in Nat /\ a <= b /\ b <= Len(s)
    OBVIOUS
  <1>2. u \in Seq(S) /\ Len(u) = b - a /\ \A i \in 1..(b - a) : u[i] = s[a + i]
    BY <1>1
  <1>3. v \in Seq(S) /\ Len(v) = Len(s) - b /\ \A i \in 1..(Len(s) - b) : v[i] = s[b + i]
    BY <1>1
  <1>4. w \in Seq(S) /\ Len(w) = Len(s) - a /\ \A i \in 1..(Len(s) - a) : w[i] = s[a + i]
    BY <1>1
  <1> HIDE DEF u, v, w
  <1>5. /\ u \o v \in Seq(S) /\ Len(u \o v) = Len(s) - a
        /\ \A i \in 1..(b - a) : (u \o v)[i] = u[i]
        /\ \A i \in 1..(Len(s) - b) : (u \o v)[(b - a) + i] = v[i]
    <2>1. /\ u \o v \in Seq(S) /\ Len(u \o v) = Len(u) + Len(v)
          /\ \A i \in 1..Len(u) : (u \o v)[i] = u[i]
          /\ \A i \in 1..Len(v) : (u \o v)[Len(u) + i] = v[i]
      <3>1. /\ u \o v \in Seq(S) /\ Len(u \o v) = Len(u) + Len(v)
            /\ \A i \in 1..(Len(u) + Len(v)) : (u \o v)[i] = IF i <= Len(u) THEN u[i] ELSE v[i - Len(u)]
        BY <1>2, <1>3, ConcatProperties
      <3>2. Len(u) \in Nat /\ Len(v) \in Nat
        BY <1>1, <1>2, <1>3
      <3>3. ASSUME NEW i \in 1..Len(v) PROVE (u \o v)[Len(u) + i] = v[i]
        <4>1. Len(u) + i \in 1..(Len(u) + Len(v)) /\ ~(Len(u) + i <= Len(u)) /\ (Len(u) + i) - Len(u) = i
          BY <3>2
        <4> QED
          BY <3>1, <4>1
      <3>4. ASSUME NEW i \in 1..Len(u) PROVE (u \o v)[i] = u[i]
        <4>1. i \in 1..(Len(u) + Len(v)) /\ i <= Len(u)
          BY <3>2
        <4> QED
          BY <3>1, <4>1
      <3> QED
        BY <3>1, <3>3, <3>4
    <2>2. (b - a) + (Len(s) - b) = Len(s) - a
      BY <1>1
    <2> QED
      BY <1>2, <1>3, <2>1, <2>2
  <1>6. ASSUME NEW i \in 1..(Len(s) - a) PROVE w[i] = (u \o v)[i]
    <2>1. CASE i \in 1..(b - a)
      BY <1>2, <1>4, <1>5, <2>1
    <2>2. CASE i \notin 1..(b - a)
      <3>1. i - (b - a) \in 1..(Len(s) - b) /\ (b - a) + (i - (b - a)) = i /\ b + (i - (b - a)) = a + i
        BY <1>1, <2>2
      <3>2. (u \o v)[(b - a) + (i - (b - a))] = v[i - (b - a)]
        BY <1>5, <3>1
      <3>3. v[i - (b - a)] = s[b + (i - (b - a))]
        BY <1>3, <3>1
      <3> QED
        BY <1>4, <3>1, <3>2, <3>3
    <2> QED
      BY <2>1, <2>2
  <1>7. w = u \o v
    BY <1>4, <1>5, <1>6, SeqEqual
  <1> QED
    BY <1>7 DEF u, v, w

------------------------------------------------------------------------------
(* The elements of a sequence that lie in a set G. *)

Chosen(s, G) == {i \in DOMAIN s : s[i] \in G}

Select(s, G) == Keep(s, Chosen(s, G))

(* They are a sequence of elements of G.                                   *)
LEMMA SelectType ==
  ASSUME NEW A, NEW s \in Seq(A), NEW G
  PROVE  Select(s, G) \in Seq(A)
  <1>1. Chosen(s, G) \in SUBSET (1..Len(s))
    BY DEF Chosen
  <1> QED
    BY <1>1, KeepType DEF Select

(* Nothing is selected from an empty sequence.                             *)
LEMMA SelectEmpty == ASSUME NEW G PROVE Select(<<>>, G) = <<>>
  <1>1. Chosen(<<>>, G) = {}
    BY DEF Chosen
  <1> QED
    BY <1>1, KeepNone DEF Select

(* One more element is selected or not.                                    *)
LEMMA SelectAppend ==
  ASSUME NEW A, NEW s \in Seq(A), NEW e \in A, NEW G
  PROVE  Select(Append(s, e), G) = IF e \in G THEN Append(Select(s, G), e) ELSE Select(s, G)
  <1> DEFINE t == Append(s, e)
  <1>1. /\ DOMAIN t = 1..(Len(s) + 1) /\ DOMAIN s = 1..Len(s) /\ Len(s) \in Nat
        /\ t[Len(s) + 1] = e /\ \A i \in 1..Len(s) : t[i] = s[i]
    OBVIOUS
  <1> HIDE DEF t
  <1>2. Chosen(s, G) \in SUBSET (1..Len(s))
    BY <1>1 DEF Chosen
  <1>3. Chosen(t, G) = IF e \in G THEN Chosen(s, G) \cup {Len(s) + 1} ELSE Chosen(s, G)
    <2>1. ASSUME NEW i PROVE i \in 1..(Len(s) + 1) <=> i \in 1..Len(s) \/ i = Len(s) + 1
      BY <1>1
    <2>2. Len(s) + 1 \notin 1..Len(s)
      BY <1>1
    <2>3. ASSUME NEW i
          PROVE  i \in Chosen(t, G) <=> i \in Chosen(s, G) \/ (e \in G /\ i = Len(s) + 1)
      BY <1>1, <2>1, <2>2, Zenon DEF Chosen
    <2>4. CASE e \in G
      BY <2>3, <2>4
    <2>5. CASE e \notin G
      BY <2>3, <2>5
    <2> QED
      BY <2>4, <2>5
  <1>4. /\ Keep(t, Chosen(s, G)) = Keep(s, Chosen(s, G))
        /\ Keep(t, Chosen(s, G) \cup {Len(s) + 1}) = Append(Keep(s, Chosen(s, G)), e)
    <2>1. PICK S \in SUBSET (1..Len(s)) : S = Chosen(s, G)
      BY <1>2
    <2>2. Keep(t, S) = Keep(s, S) /\ Keep(t, S \cup {Len(s) + 1}) = Append(Keep(s, S), e)
      BY KeepMore DEF t
    <2> QED
      BY <2>1, <2>2
  <1>5. Select(t, G) = IF e \in G THEN Append(Select(s, G), e) ELSE Select(s, G)
    BY <1>3, <1>4 DEF Select
  <1> QED
    BY <1>5 DEF t

(* What is selected from two sequences in a row.                           *)
THEOREM SelectConcat ==
  ASSUME NEW A, NEW s \in Seq(A), NEW t \in Seq(A), NEW G
  PROVE  Select(s \o t, G) = Select(s, G) \o Select(t, G)
  <1> DEFINE P == {n \in Nat : n <= Len(t) =>
                     Select(s \o SubSeq(t, 1, n), G) = Select(s, G) \o Select(SubSeq(t, 1, n), G)}
  <1>1. Select(s, G) \in Seq(A)
    BY SelectType
  <1>2. 0 \in P
    <2>1. SubSeq(t, 1, 0) = <<>> /\ s \o <<>> = s /\ Select(s, G) \o <<>> = Select(s, G)
      BY <1>1
    <2> QED
      BY <2>1, SelectEmpty
  <1>3. ASSUME NEW n \in Nat, n \in P PROVE n + 1 \in P
    <2> SUFFICES ASSUME n + 1 <= Len(t)
                 PROVE  Select(s \o SubSeq(t, 1, n + 1), G) = Select(s, G) \o Select(SubSeq(t, 1, n + 1), G)
      OBVIOUS
    <2> DEFINE u == SubSeq(t, 1, n)
               e == t[n + 1]
    <2>1. u \in Seq(A) /\ e \in A /\ SubSeq(t, 1, n + 1) = Append(u, e)
      OBVIOUS
    <2>2. n <= Len(t)
      OBVIOUS
    <2>3. Select(s \o u, G) = Select(s, G) \o Select(u, G)
      BY <1>3, <2>2
    <2> HIDE DEF u, e
    <2>4. s \o Append(u, e) = Append(s \o u, e) /\ s \o u \in Seq(A)
      BY <2>1
    <2>5. Select(u, G) \in Seq(A)
      BY <2>1, SelectType
    <2>6. Select(s, G) \o Append(Select(u, G), e) = Append(Select(s, G) \o Select(u, G), e)
      BY <1>1, <2>1, <2>5
    <2>7. /\ Select(Append(s \o u, e), G)
              = IF e \in G THEN Append(Select(s \o u, G), e) ELSE Select(s \o u, G)
          /\ Select(Append(u, e), G) = IF e \in G THEN Append(Select(u, G), e) ELSE Select(u, G)
      <3>1. u \in Seq(A) /\ e \in A /\ s \o u \in Seq(A)
        BY <2>1, <2>4
      <3> HIDE DEF P
      <3> QED
        BY <3>1, SelectAppend, Zenon
    <2> QED
      BY <2>1, <2>3, <2>4, <2>6, <2>7
  <1> HIDE DEF P
  <1>4. \A n \in Nat : n \in P
    BY <1>2, <1>3, NatSetInduction
  <1>5. Len(t) \in Nat /\ Len(t) <= Len(t) /\ SubSeq(t, 1, Len(t)) = t
    OBVIOUS
  <1> QED
    BY <1>4, <1>5 DEF P

------------------------------------------------------------------------------
(* Replay. *)

Nothing == [book |-> <<>>, trades |-> <<>>, throws |-> FALSE]

(* recover() is a loop over the events.                                    *)
LEMMA ReplayIsLoop ==
  ASSUME NEW events
  PROVE  Replay(events) = Iterate(events, Nothing, Len(events))
  BY DEF Replay, Iterate, ReplayRound, Nothing

(* An empty journal gives an empty book.                                   *)
THEOREM ReplayNothing == Replay(<<>>) = Nothing
  <1>1. Len(<<>>) = 0
    OBVIOUS
  <1>2. Iterate(<<>>, Nothing, 0) = Nothing
    BY IterateZero
  <1> QED
    BY <1>1, <1>2, ReplayIsLoop

(* One more event is applied to what the events before it gave.            *)
THEOREM ReplayAppend ==
  ASSUME NEW E, NEW log \in Seq(E), NEW ev \in E
  PROVE  Replay(Append(log, ev)) = Replayed(Replay(log), ev)
  <1> DEFINE more == Append(log, ev)
             N == Len(log)
  <1>1. N \in Nat /\ Len(more) = N + 1 /\ more[N + 1] = ev /\ \A n \in 1..N : more[n] = log[n]
    OBVIOUS
  <1> HIDE DEF more, N
  <1>2. Iterate(more, Nothing, N + 1) = ReplayRound(more, Iterate(more, Nothing, N), N + 1)
    BY <1>1, IterateNext
  <1>3. Iterate(more, Nothing, N) = Iterate(log, Nothing, N)
    <2>1. \A state : \A n \in 1..N : ReplayRound(more, state, n) = ReplayRound(log, state, n)
      BY <1>1 DEF ReplayRound
    <2> QED
      BY <1>1, <2>1, IterateSame
  <1>4. Replay(more) = Iterate(more, Nothing, N + 1)
    BY <1>1, ReplayIsLoop
  <1>5. Replay(log) = Iterate(log, Nothing, N)
    BY ReplayIsLoop DEF N
  <1>6. Replay(more) = Replayed(Replay(log), ev)
    BY <1>1, <1>2, <1>3, <1>4, <1>5 DEF ReplayRound
  <1> QED
    BY <1>6 DEF more

------------------------------------------------------------------------------
(* Events. *)

(* An order that traders may submit.                                       *)
IsOrder(order) == order \in Orders({order.id}, Nat \ {0}, Nat \ {0})

(* What is journaled of an order is enough to build it again.              *)
THEOREM OrderSurvives ==
  ASSUME NEW order, IsOrder(order), NEW n
  PROVE  OrderOf(EventOf(Submit(order), n)) = order
  <1>1. EventOf(Submit(order), n) = MakeSubmitEvent(order, n)
    BY DEF EventOf, Submit
  <1>2. CASE order.kind = "MARKET"
    <2>1. order \in [id : {order.id}, kind : {"MARKET"}, side : Side, price : {NoPrice}, quantity : Nat \ {0}]
      BY <1>2 DEF IsOrder, Orders
    <2> QED
      BY <1>1, <1>2, <2>1 DEF OrderOf, MakeSubmitEvent
  <1>3. CASE order.kind # "MARKET"
    <2>1. order \in [id : {order.id}, kind : {"LIMIT"}, side : Side, price : Nat \ {0}, quantity : Nat \ {0}]
      BY <1>3 DEF IsOrder, Orders
    <2> QED
      BY <1>1, <1>3, <2>1 DEF OrderOf, MakeSubmitEvent
  <1> QED
    BY <1>2, <1>3

(* Replaying the event of a command does to the book what applying the     *)
(* command does.                                                           *)
THEOREM ReplayedSubmit ==
  ASSUME NEW order, IsOrder(order), NEW n, NEW book, NEW trades, order.id \notin Active(book)
  PROVE  Replayed([book |-> book, trades |-> trades, throws |-> FALSE], EventOf(Submit(order), n))
           = [book |-> Outcome(book, order).book, trades |-> trades \o Outcome(book, order).trades,
              throws |-> FALSE]
  <1> DEFINE ev == EventOf(Submit(order), n)
             state == [book |-> book, trades |-> trades, throws |-> FALSE]
  <1>1. ev.type = "SUBMIT" /\ ev.orderId = order.id
    BY DEF EventOf, Submit, MakeSubmitEvent
  <1>2. OrderOf(ev) = order
    BY OrderSurvives
  <1>3. ~state.throws /\ state.book = book /\ state.trades = trades
    OBVIOUS
  <1> HIDE DEF ev
  <1>4. Replayed(state, ev) = [state EXCEPT !.book = Outcome(book, order).book,
                                            !.trades = @ \o Outcome(book, order).trades]
    BY <1>1, <1>2, <1>3 DEF Replayed
  <1> QED
    BY <1>4 DEF ev

(* The same for a cancellation.                                            *)
THEOREM ReplayedCancel ==
  ASSUME NEW id, NEW n, NEW book, NEW trades
  PROVE  Replayed([book |-> book, trades |-> trades, throws |-> FALSE], EventOf(Cancel(id), n))
           = [book |-> Cancelled(book, id), trades |-> trades, throws |-> FALSE]
  <1> DEFINE ev == EventOf(Cancel(id), n)
             state == [book |-> book, trades |-> trades, throws |-> FALSE]
  <1>1. ev.type = "CANCEL" /\ ev.orderId = id
    BY DEF EventOf, Cancel, MakeCancelEvent
  <1>2. ~state.throws /\ state.book = book
    OBVIOUS
  <1> HIDE DEF ev
  <1>3. Replayed(state, ev) = [state EXCEPT !.book = Cancelled(book, id)]
    BY <1>1, <1>2 DEF Replayed
  <1> QED
    BY <1>3 DEF ev

(* An order whose id rests in the book ends the replay.                    *)
THEOREM ReplayedThrow ==
  ASSUME NEW order, NEW n, NEW book, NEW trades, order.id \in Active(book)
  PROVE  Replayed([book |-> book, trades |-> trades, throws |-> FALSE], EventOf(Submit(order), n))
           = [book |-> book, trades |-> trades, throws |-> TRUE]
  <1> DEFINE ev == EventOf(Submit(order), n)
  <1>1. PICK state : state = [book |-> book, trades |-> trades, throws |-> FALSE]
    OBVIOUS
  <1>2. ev.type = "SUBMIT" /\ ev.orderId = order.id
    BY DEF EventOf, Submit, MakeSubmitEvent
  <1>3. ~state.throws /\ state.book = book /\ state.trades = trades
    BY <1>1, Zenon
  <1>4. state = [book |-> state.book, trades |-> state.trades, throws |-> state.throws]
    BY <1>1, Zenon
  <1> HIDE DEF ev
  <1>5. Replayed(state, ev) = [state EXCEPT !.throws = TRUE]
    BY <1>2, <1>3 DEF Replayed
  <1>6. PICK next : next = Replayed(state, ev)
    OBVIOUS
  <1>7. next = [book |-> state.book, trades |-> state.trades, throws |-> TRUE]
    BY <1>4, <1>5, <1>6
  <1> QED
    BY <1>1, <1>3, <1>6, <1>7 DEF ev

(* The number of an event is the one it was given.                         *)
LEMMA EventSeq == ASSUME NEW c, NEW n PROVE EventOf(c, n).seq = n
  BY DEF EventOf, MakeSubmitEvent, MakeCancelEvent

(* maxSeq of a log that is numbered from 1 without a gap is its length.    *)
LEMMA MaxSeqIsLength ==
  ASSUME NEW S, NEW log \in Seq(S), \A i \in 1..Len(log) : log[i].seq = i
  PROVE  MaxSeq(log) = Len(log)
  <1> DEFINE T == {0} \cup {log[i].seq : i \in DOMAIN log}
  <1>1. T = 0..Len(log)
    BY DEF T
  <1>2. MaxSeq(log) = Max(0..Len(log))
    BY <1>1 DEF MaxSeq
  <1>3. Max(0..Len(log)) \in 0..Len(log) /\ \A y \in 0..Len(log) : Max(0..Len(log)) >= y
    <2>1. Len(log) \in 0..Len(log) /\ \A y \in 0..Len(log) : Len(log) >= y
      OBVIOUS
    <2> QED
      BY <2>1 DEF Max
  <1> QED
    BY <1>2, <1>3

------------------------------------------------------------------------------
(* Books and trades are sequences. *)

IsSeq(s) == \E A : s \in Seq(A)

(* A function on 1..n is a sequence.                                       *)
LEMMA FunctionSeq == ASSUME NEW n \in Nat, NEW f, f = [k \in 1..n |-> f[k]] PROVE IsSeq(f)
  <1> DEFINE A == {f[k] : k \in 1..n}
  <1>1. f \in [1..n -> A]
    OBVIOUS
  <1> HIDE DEF A
  <1>2. f \in Seq(A)
    BY <1>1, SeqDef
  <1> QED
    BY <1>2 DEF IsSeq

(* Two sequences have elements of one set.                                 *)
LEMMA CommonSeq ==
  ASSUME NEW s, NEW t, IsSeq(s), IsSeq(t)
  PROVE  \E A : s \in Seq(A) /\ t \in Seq(A)
  <1>1. PICK A : s \in Seq(A)
    BY DEF IsSeq
  <1>2. PICK B : t \in Seq(B)
    BY DEF IsSeq
  <1>3. s \in Seq(A \cup B) /\ t \in Seq(A \cup B)
    BY <1>1, <1>2
  <1> QED
    BY <1>3

(* Two sequences in a row are one.                                         *)
LEMMA ConcatSeq == ASSUME NEW s, NEW t, IsSeq(s), IsSeq(t) PROVE IsSeq(s \o t)
  <1>1. PICK A : s \in Seq(A) /\ t \in Seq(A)
    BY CommonSeq
  <1>2. s \o t \in Seq(A)
    BY <1>1
  <1> QED
    BY <1>2 DEF IsSeq

AreSeqs(s, t, u) == IsSeq(s) /\ IsSeq(t) /\ IsSeq(u)

(* Three in a row, whichever two are joined first.                         *)
LEMMA ConcatAssoc ==
  ASSUME NEW s, NEW t, NEW u, AreSeqs(s, t, u)
  PROVE  (s \o t) \o u = s \o (t \o u)
  <1>1. PICK A : s \in Seq(A) /\ t \in Seq(A)
    BY CommonSeq DEF AreSeqs
  <1>2. PICK B : u \in Seq(B)
    BY DEF IsSeq, AreSeqs
  <1>3. s \in Seq(A \cup B) /\ t \in Seq(A \cup B) /\ u \in Seq(A \cup B)
    BY <1>1, <1>2
  <1> QED
    BY <1>3, ConcatAssociative

(* An empty sequence changes nothing.                                      *)
LEMMA ConcatEmpty == ASSUME NEW s, IsSeq(s) PROVE s \o <<>> = s
  BY DEF IsSeq

(* A part of a sequence is one.                                            *)
LEMMA KeepSeq ==
  ASSUME NEW s, IsSeq(s), NEW S, S \subseteq DOMAIN s
  PROVE  IsSeq(Keep(s, S)) /\ Cardinality(S) \in Nat
  <1>1. PICK A : s \in Seq(A)
    BY DEF IsSeq
  <1>2. S \in SUBSET (1..Len(s)) /\ Len(s) \in Nat
    BY <1>1
  <1>3. Cardinality(S) \in Nat
    BY <1>2, PositionsFinite
  <1>4. Keep(s, S) = [k \in 1..Cardinality(S) |-> Keep(s, S)[k]]
    BY DEF Keep
  <1> QED
    BY <1>3, <1>4, FunctionSeq

(* What a command leaves of the book, and its trades.                      *)
THEOREM OutcomeSeq ==
  ASSUME NEW book, IsSeq(book), NEW order
  PROVE  /\ IsSeq(Outcome(book, order).book) /\ IsSeq(Outcome(book, order).trades)
         /\ \A id : IsSeq(Cancelled(book, id))
  <1> DEFINE fills == Fills(book, order)
             filled == {i \in DOMAIN book : fills[i] > 0}
             after == [i \in DOMAIN book |-> [book[i] EXCEPT !.remaining = @ - fills[i]]]
             trades == Outcome(book, order).trades
             kept == {i \in DOMAIN book : after[i].remaining > 0}
             left == order.quantity - SumFunction(fills)
             rest == [id |-> order.id, side |-> order.side, price |-> order.price,
                      quantity |-> order.quantity, remaining |-> left]
  <1>1. PICK A : book \in Seq(A)
    BY DEF IsSeq
  <1>2. DOMAIN book = 1..Len(book) /\ Len(book) \in Nat
    BY <1>1
  <1>3. IsSeq(trades)
    <2>1. trades = [k \in 1..Cardinality(filled) |-> trades[k]]
      BY DEF Outcome
    <2>2. Cardinality(filled) \in Nat
      <3>1. filled \subseteq DOMAIN book
        OBVIOUS
      <3> HIDE DEF filled
      <3> QED
        BY <3>1, KeepSeq
    <2> HIDE DEF trades, filled
    <2> QED
      BY <2>1, <2>2, FunctionSeq
  <1>4. IsSeq(Outcome(book, order).book)
    <2>1. Outcome(book, order).book
            = Keep(after, kept) \o IF order.kind = "LIMIT" /\ left > 0 THEN <<rest>> ELSE <<>>
      BY DEF Outcome
    <2>2. IsSeq(after) /\ DOMAIN after = DOMAIN book
      <3>1. after = [k \in 1..Len(book) |-> after[k]] /\ DOMAIN after = DOMAIN book
        BY <1>2
      <3> HIDE DEF after
      <3> QED
        BY <1>2, <3>1, FunctionSeq
    <2>3. kept \subseteq DOMAIN after
      BY <2>2
    <2> HIDE DEF after, kept
    <2>4. IsSeq(Keep(after, kept))
      BY <2>2, <2>3, KeepSeq
    <2> HIDE DEF rest, left
    <2>5. <<rest>> \in Seq({rest}) /\ <<>> \in Seq({rest})
      OBVIOUS
    <2>6. IsSeq(IF order.kind = "LIMIT" /\ left > 0 THEN <<rest>> ELSE <<>>)
      BY <2>5 DEF IsSeq
    <2> QED
      BY <2>1, <2>4, <2>6, ConcatSeq
  <1>5. ASSUME NEW id PROVE IsSeq(Cancelled(book, id))
    <2> DEFINE others == {i \in DOMAIN book : book[i].id # id}
    <2>1. Cancelled(book, id) = Keep(book, others) /\ others \subseteq DOMAIN book
      BY DEF Cancelled
    <2> HIDE DEF others
    <2> QED
      BY <2>1, KeepSeq
  <1> QED
    BY <1>3, <1>4, <1>5

------------------------------------------------------------------------------
(* The states replay goes through. *)

IsState(state) ==
  /\ state = [book |-> state.book, trades |-> state.trades, throws |-> state.throws]
  /\ IsSeq(state.book) /\ IsSeq(state.trades) /\ state.throws \in BOOLEAN

(* Appending one element leaves a sequence.                                *)
LEMMA AppendSeq ==
  ASSUME NEW s, IsSeq(s), NEW e
  PROVE  IsSeq(Append(s, e)) /\ \E A : s \in Seq(A) /\ e \in A
  <1>1. PICK A : s \in Seq(A)
    BY DEF IsSeq
  <1>2. s \in Seq(A \cup {e}) /\ e \in A \cup {e}
    BY <1>1
  <1>3. Append(s, e) \in Seq(A \cup {e})
    BY <1>2
  <1> QED
    BY <1>2, <1>3 DEF IsSeq

(* A state from its parts.                                                 *)
LEMMA MakeState ==
  ASSUME NEW b, IsSeq(b), NEW t, IsSeq(t), NEW x \in BOOLEAN, NEW state,
         state = [book |-> b, trades |-> t, throws |-> x]
  PROVE  IsState(state) /\ state.trades = t
  <1>1. state.book = b /\ state.trades = t /\ state.throws = x
    BY Zenon
  <1> QED
    BY <1>1, Zenon DEF IsState

(* An event adds to the trades and takes none back.                        *)
THEOREM ReplayedState ==
  ASSUME NEW state, IsState(state), NEW ev
  PROVE  /\ IsState(Replayed(state, ev))
         /\ \E more : IsSeq(more) /\ Replayed(state, ev).trades = state.trades \o more
  <1> DEFINE next == Replayed(state, ev)
  <1>1. IsSeq(<<>>) /\ state.trades \o <<>> = state.trades
    <2>1. <<>> \in Seq({}) /\ \A A : \A s \in Seq(A) : s \o <<>> = s
      OBVIOUS
    <2> QED
      BY <2>1 DEF IsSeq, IsState
  <1>2. CASE state.throws
    <2>1. next = state
      BY <1>2 DEF Replayed
    <2> QED
      BY <1>1, <2>1
  <1>3. CASE ~state.throws /\ ev.type = "CANCEL"
    <2>1. next = [state EXCEPT !.book = Cancelled(state.book, ev.orderId)]
      BY <1>3 DEF Replayed
    <2>2. next = [book |-> Cancelled(state.book, ev.orderId), trades |-> state.trades, throws |-> state.throws]
      BY <2>1 DEF IsState
    <2>3. IsSeq(Cancelled(state.book, ev.orderId))
      BY OutcomeSeq DEF IsState
    <2>4. IsState(next) /\ next.trades = state.trades
      BY <2>2, <2>3, MakeState DEF IsState
    <2> QED
      BY <1>1, <2>4
  <1>4. CASE ~state.throws /\ ev.type = "SUBMIT" /\ ev.orderId \in Active(state.book)
    <2>1. next = [state EXCEPT !.throws = TRUE]
      BY <1>4 DEF Replayed
    <2>2. next = [book |-> state.book, trades |-> state.trades, throws |-> TRUE]
      BY <2>1 DEF IsState
    <2>3. IsState(next) /\ next.trades = state.trades
      BY <2>2, MakeState DEF IsState
    <2> QED
      BY <1>1, <2>3
  <1>5. CASE /\ ~state.throws /\ ev.type # "CANCEL"
             /\ ~(ev.type = "SUBMIT" /\ ev.orderId \in Active(state.book))
    <2> DEFINE outcome == Outcome(state.book, OrderOf(ev))
    <2>1. next = [state EXCEPT !.book = outcome.book, !.trades = @ \o outcome.trades]
      BY <1>5 DEF Replayed
    <2>2. IsSeq(outcome.book) /\ IsSeq(outcome.trades)
      BY OutcomeSeq DEF IsState
    <2> HIDE DEF outcome
    <2>3. next = [book |-> outcome.book, trades |-> state.trades \o outcome.trades, throws |-> state.throws]
      BY <2>1 DEF IsState
    <2>4. IsSeq(state.trades \o outcome.trades)
      BY <2>2, ConcatSeq DEF IsState
    <2>5. IsState(next) /\ next.trades = state.trades \o outcome.trades
      BY <2>2, <2>3, <2>4, MakeState DEF IsState
    <2> QED
      BY <2>2, <2>5
  <1> QED
    BY <1>2, <1>3, <1>4, <1>5

(* So does a journal of any length.                                        *)
THEOREM ReplayState ==
  ASSUME NEW log, IsSeq(log)
  PROVE  IsState(Replay(log))
  <1>1. PICK E : log \in Seq(E)
    BY DEF IsSeq
  <1> DEFINE P == {n \in Nat : n <= Len(log) => IsState(Replay(SubSeq(log, 1, n)))}
  <1>2. 0 \in P
    <2>1. SubSeq(log, 1, 0) = <<>> /\ <<>> \in Seq({})
      BY <1>1
    <2>2. IsState(Nothing)
      BY <2>1 DEF Nothing, IsState, IsSeq
    <2> QED
      BY <2>1, <2>2, ReplayNothing
  <1>3. ASSUME NEW n \in Nat, n \in P PROVE n + 1 \in P
    <2> SUFFICES ASSUME n + 1 <= Len(log) PROVE IsState(Replay(SubSeq(log, 1, n + 1)))
      OBVIOUS
    <2>1. /\ SubSeq(log, 1, n) \in Seq(E) /\ log[n + 1] \in E /\ n <= Len(log)
          /\ SubSeq(log, 1, n + 1) = Append(SubSeq(log, 1, n), log[n + 1])
      BY <1>1
    <2>2. IsState(Replay(SubSeq(log, 1, n)))
      BY <1>3, <2>1
    <2>3. Replay(SubSeq(log, 1, n + 1)) = Replayed(Replay(SubSeq(log, 1, n)), log[n + 1])
      BY <2>1, ReplayAppend
    <2> QED
      BY <2>2, <2>3, ReplayedState
  <1> HIDE DEF P
  <1>4. \A n \in Nat : n \in P
    BY <1>2, <1>3, NatSetInduction
  <1>5. Len(log) \in Nat /\ Len(log) <= Len(log) /\ SubSeq(log, 1, Len(log)) = log
    BY <1>1
  <1> QED
    BY <1>4, <1>5 DEF P

------------------------------------------------------------------------------
(* Sums. *)

(* Induction over the subsets of a finite set, for a property given as the *)
(* set of those that have it.                                              *)
LEMMA SubsetInduction ==
  ASSUME NEW D, IsFiniteSet(D), NEW P, {} \in P,
         \A s \in SUBSET D : s # {} /\ (\A x \in s : s \ {x} \in P) => s \in P
  PROVE  \A s \in SUBSET D : s \in P
  <1> DEFINE Q == {n \in Nat : \A s \in SUBSET D : Cardinality(s) = n => s \in P}
  <1>0. ASSUME NEW s \in SUBSET D PROVE IsFiniteSet(s) /\ Cardinality(s) \in Nat
    BY FS_Subset, FS_CardinalityType
  <1>1. 0 \in Q
    BY <1>0, FS_EmptySet
  <1>2. ASSUME NEW n \in Nat, n \in Q PROVE n + 1 \in Q
    <2> SUFFICES ASSUME NEW s \in SUBSET D, Cardinality(s) = n + 1 PROVE s \in P
      OBVIOUS
    <2>1. s # {}
      BY <1>0, FS_EmptySet
    <2>2. ASSUME NEW x \in s PROVE s \ {x} \in P
      <3>1. Cardinality(s \ {x}) = n /\ s \ {x} \in SUBSET D
        BY <1>0, FS_RemoveElement
      <3> QED
        BY <1>2, <3>1
    <2> QED
      BY <2>1, <2>2
  <1> HIDE DEF Q
  <1>3. \A n \in Nat : n \in Q
    BY <1>1, <1>2, NatSetInduction
  <1> QED
    BY <1>0, <1>3 DEF Q

(* The element the sum takes next.                                         *)
Pick(s) == CHOOSE x \in s : TRUE

(* g gives the sum of f over every set in D.                               *)
IsTotal(g, f, D) ==
  g = [s \in D |-> IF s = {} THEN 0 ELSE f[Pick(s)] + g[s \ {Pick(s)}]]

(* The sum is the solution of its equation, if there is one.               *)
LEMMA SumIsTotal ==
  ASSUME NEW f, NEW S
  PROVE  SumFunctionOnSet(f, S) = (CHOOSE g : IsTotal(g, f, SUBSET S))[S]
  BY DEF SumFunctionOnSet, FoldFunctionOnSet, MapThenFoldSet, IsTotal, Pick

(* What the equation says of one set.                                      *)
LEMMA TotalAt ==
  ASSUME NEW g, NEW f, NEW D, IsTotal(g, f, D)
  PROVE  /\ {} \in D => g[{}] = 0
         /\ \A s \in D : s # {} => Pick(s) \in s /\ g[s] = f[Pick(s)] + g[s \ {Pick(s)}]
  <1> DEFINE k == [s \in D |-> IF s = {} THEN 0 ELSE f[Pick(s)] + g[s \ {Pick(s)}]]
  <1>1. ASSUME NEW s \in D PROVE k[s] = IF s = {} THEN 0 ELSE f[Pick(s)] + g[s \ {Pick(s)}]
    OBVIOUS
  <1>2. g = k
    BY DEF IsTotal
  <1> HIDE DEF k
  <1>3. ASSUME NEW s, s # {} PROVE Pick(s) \in s
    BY <1>3 DEF Pick
  <1> QED
    BY <1>1, <1>2, <1>3

(* There is one: on the sets of at most n elements, for every n.           *)
LEMMA TotalExists ==
  ASSUME NEW f, NEW S, IsFiniteSet(S)
  PROVE  \E g : IsTotal(g, f, SUBSET S)
  <1> DEFINE Small(n) == {s \in SUBSET S : Cardinality(s) <= n}
             P == {n \in Nat : \E g : IsTotal(g, f, Small(n))}
             Value(g, s) == IF s = {} THEN 0 ELSE f[Pick(s)] + g[s \ {Pick(s)}]
  <1>0. ASSUME NEW s \in SUBSET S PROVE /\ IsFiniteSet(s) /\ Cardinality(s) \in Nat
                                        /\ Cardinality(s) <= Cardinality(S)
    BY FS_Subset, FS_CardinalityType
  <1>1. 0 \in P
    <2>1. Small(0) = {{}}
      <3>1. ASSUME NEW s \in Small(0) PROVE s = {}
        BY <1>0, FS_EmptySet
      <3>2. {} \in Small(0)
        BY FS_EmptySet
      <3> HIDE DEF Small
      <3> QED
        BY <3>1, <3>2
    <2> DEFINE g == [s \in {{}} |-> 0]
    <2>2. IsTotal(g, f, {{}})
      BY DEF IsTotal
    <2> HIDE DEF Small
    <2> QED
      BY <2>1, <2>2
  <1>2. ASSUME NEW n \in Nat, n \in P PROVE n + 1 \in P
    <2>1. PICK g : IsTotal(g, f, Small(n))
      BY <1>2
    <2> DEFINE D == Small(n + 1)
               h == [s \in D |-> Value(g, s)]
    <2>2. ASSUME NEW s \in D PROVE Value(g, s) = Value(h, s)
      <3> SUFFICES ASSUME s # {} PROVE g[s \ {Pick(s)}] = h[s \ {Pick(s)}]
        OBVIOUS
      <3> DEFINE r == s \ {Pick(s)}
      <3>1. Pick(s) \in s
        BY DEF Pick
      <3>2. r \in Small(n)
        <4>1. IsFiniteSet(s) /\ Cardinality(s) \in Nat /\ Cardinality(s) <= n + 1 /\ r \in SUBSET S
          BY <1>0
        <4>2. Cardinality(r) = Cardinality(s) - 1
          BY <3>1, <4>1, FS_RemoveElement
        <4> QED
          BY <4>1, <4>2
      <3>3. r \in D
        BY <1>0, <3>2
      <3>4. g[r] = Value(g, r)
        <4> DEFINE k == [t \in Small(n) |-> Value(g, t)]
        <4>1. k[r] = Value(g, r)
          BY <3>2
        <4>2. g = k
          BY <2>1 DEF IsTotal
        <4> HIDE DEF k, Small, Value, r
        <4> QED
          BY <4>1, <4>2
      <3>5. h[r] = Value(g, r)
        BY <3>3
      <3> HIDE DEF h
      <3> QED
        BY <3>4, <3>5
    <2>3. h = [s \in D |-> Value(h, s)]
      <3> HIDE DEF D, Value
      <3> QED
        BY <2>2
    <2>4. IsTotal(h, f, D)
      <3> HIDE DEF h, D
      <3> QED
        BY <2>3 DEF IsTotal
    <2> HIDE DEF h, D, Small
    <2> QED
      BY <2>4 DEF D
  <1> HIDE DEF P
  <1>3. \A n \in Nat : n \in P
    BY <1>1, <1>2, NatSetInduction
  <1>4. Cardinality(S) \in Nat /\ Small(Cardinality(S)) = SUBSET S
    BY <1>0
  <1>5. Cardinality(S) \in P
    BY <1>3, <1>4
  <1> HIDE DEF Small
  <1> QED
    BY <1>4, <1>5 DEF P

(* The sum over a part does not depend on the whole.                       *)
LEMMA TotalsAgree ==
  ASSUME NEW f, NEW S, IsFiniteSet(S), NEW T \in SUBSET S, NEW g, NEW k,
         IsTotal(g, f, SUBSET S), IsTotal(k, f, SUBSET T)
  PROVE  g[T] = k[T]
  <1>a. /\ g[{}] = 0
        /\ \A s \in SUBSET S : s # {} => Pick(s) \in s /\ g[s] = f[Pick(s)] + g[s \ {Pick(s)}]
    BY TotalAt
  <1>b. /\ k[{}] = 0
        /\ \A s \in SUBSET T : s # {} => k[s] = f[Pick(s)] + k[s \ {Pick(s)}]
    <2>1. PICK D : D = SUBSET T
      OBVIOUS
    <2>2. IsTotal(k, f, D) /\ {} \in D
      BY <2>1
    <2>3. k[{}] = 0 /\ \A s \in D : s # {} => k[s] = f[Pick(s)] + k[s \ {Pick(s)}]
      BY <2>2, TotalAt
    <2> QED
      BY <2>1, <2>3
  <1> DEFINE P == {s \in SUBSET T : g[s] = k[s]}
  <1>1. {} \in P
    BY <1>a, <1>b
  <1>2. ASSUME NEW s \in SUBSET T, s # {}, \A x \in s : s \ {x} \in P PROVE s \in P
    <2>1. /\ Pick(s) \in s
          /\ g[s] = f[Pick(s)] + g[s \ {Pick(s)}]
          /\ k[s] = f[Pick(s)] + k[s \ {Pick(s)}]
      BY <1>2, <1>a, <1>b
    <2> QED
      BY <1>2, <2>1
  <1>3. IsFiniteSet(T)
    BY FS_Subset
  <1> HIDE DEF P
  <1>4. T \in P
    BY <1>1, <1>2, <1>3, SubsetInduction
  <1> QED
    BY <1>4 DEF P

(* A sum over a finite set, by its elements in the order of Pick.          *)
LEMMA SumUnfold ==
  ASSUME NEW f, NEW S, IsFiniteSet(S)
  PROVE  /\ SumFunctionOnSet(f, {}) = 0
         /\ S # {} => /\ Pick(S) \in S
                      /\ SumFunctionOnSet(f, S) =
                           f[Pick(S)] + SumFunctionOnSet(f, S \ {Pick(S)})
  <1>1. ASSUME NEW T, IsFiniteSet(T)
        PROVE  \E g : IsTotal(g, f, SUBSET T) /\ SumFunctionOnSet(f, T) = g[T]
    <2> DEFINE G == CHOOSE g : IsTotal(g, f, SUBSET T)
    <2>1. IsTotal(G, f, SUBSET T)
      BY <1>1, TotalExists
    <2>2. SumFunctionOnSet(f, T) = G[T]
      BY SumIsTotal
    <2> HIDE DEF G
    <2> QED
      BY <2>1, <2>2
  <1>2. SumFunctionOnSet(f, {}) = 0
    <2>1. PICK g : IsTotal(g, f, SUBSET {}) /\ SumFunctionOnSet(f, {}) = g[{}]
      BY <1>1, FS_EmptySet
    <2> QED
      BY <2>1, TotalAt
  <1>3. ASSUME S # {}
        PROVE  /\ Pick(S) \in S
               /\ SumFunctionOnSet(f, S) = f[Pick(S)] + SumFunctionOnSet(f, S \ {Pick(S)})
    <2>1. PICK g : IsTotal(g, f, SUBSET S) /\ SumFunctionOnSet(f, S) = g[S]
      BY <1>1
    <2>2. PICK T : T = S \ {Pick(S)}
      OBVIOUS
    <2>3. T \in SUBSET S /\ IsFiniteSet(T)
      BY <2>2, FS_Subset
    <2>4. PICK h : IsTotal(h, f, SUBSET T) /\ SumFunctionOnSet(f, T) = h[T]
      BY <1>1, <2>3
    <2>5. g[T] = h[T]
      BY <2>1, <2>3, <2>4, TotalsAgree
    <2>6. Pick(S) \in S /\ g[S] = f[Pick(S)] + g[T]
      BY <1>3, <2>1, <2>2, TotalAt
    <2> QED
      BY <2>1, <2>2, <2>4, <2>5, <2>6
  <1> QED
    BY <1>2, <1>3

(* A sum of naturals is one.                                               *)
LEMMA SumType ==
  ASSUME NEW D, IsFiniteSet(D), NEW f \in [D -> Nat], NEW S \in SUBSET D
  PROVE  SumFunctionOnSet(f, S) \in Nat
  <1> DEFINE P == {s \in SUBSET D : SumFunctionOnSet(f, s) \in Nat}
  <1>0. SumFunctionOnSet(f, {}) = 0
    BY FS_EmptySet, SumUnfold
  <1>1. {} \in P
    BY <1>0
  <1>2. ASSUME NEW s \in SUBSET D, s # {}, \A x \in s : s \ {x} \in P PROVE s \in P
    <2>1. IsFiniteSet(s)
      BY FS_Subset
    <2>2. PICK y \in s : SumFunctionOnSet(f, s) = f[y] + SumFunctionOnSet(f, s \ {y})
      BY <1>2, <2>1, SumUnfold
    <2>3. f[y] \in Nat /\ SumFunctionOnSet(f, s \ {y}) \in Nat
      BY <1>2
    <2> QED
      BY <2>2, <2>3
  <1> HIDE DEF P
  <1>3. S \in P
    BY <1>1, <1>2, SubsetInduction
  <1> QED
    BY <1>3 DEF P

(* Any element may be taken first.                                         *)
LEMMA SumRemove ==
  ASSUME NEW D, IsFiniteSet(D), NEW f \in [D -> Nat], NEW S \in SUBSET D
  PROVE  \A x \in S : SumFunctionOnSet(f, S) = f[x] + SumFunctionOnSet(f, S \ {x})
  <1> DEFINE Sum(s) == SumFunctionOnSet(f, s)
             P == {s \in SUBSET D : \A x \in s : Sum(s) = f[x] + Sum(s \ {x})}
  <1>0. ASSUME NEW s \in SUBSET D, s # {}
        PROVE  Pick(s) \in s /\ Sum(s) = f[Pick(s)] + Sum(s \ {Pick(s)})
    <2>1. IsFiniteSet(s)
      BY FS_Subset
    <2> QED
      BY <1>0, <2>1, SumUnfold
  <1>1. {} \in P
    OBVIOUS
  <1>4. ASSUME NEW s \in SUBSET D PROVE Sum(s) \in Nat
    BY SumType
  <1> HIDE DEF Sum
  <1>2. ASSUME NEW s \in SUBSET D, s # {}, \A x \in s : s \ {x} \in P PROVE s \in P
    <2>1. PICK y \in s : Sum(s) = f[y] + Sum(s \ {y})
      BY <1>0, <1>2
    <2>3. ASSUME NEW x \in s PROVE Sum(s) = f[x] + Sum(s \ {x})
      <3>1. CASE x = y
        BY <2>1, <3>1
      <3>2. CASE x # y
        <4>1. x \in s \ {y} /\ y \in s \ {x} /\ s \ {y} \in P /\ s \ {x} \in P
          BY <1>2, <3>2
        <4>2. PICK r : r = (s \ {y}) \ {x}
          OBVIOUS
        <4>3. r = (s \ {x}) \ {y} /\ r \in SUBSET D
          BY <4>2
        <4>4. Sum(s \ {y}) = f[x] + Sum(r)
          BY <4>1, <4>2
        <4>5. Sum(s \ {x}) = f[y] + Sum(r)
          BY <4>1, <4>3
        <4>6. Sum(r) \in Nat /\ f[x] \in Nat /\ f[y] \in Nat
          BY <1>4, <4>3
        <4> QED
          BY <2>1, <4>4, <4>5, <4>6
      <3> QED
        BY <3>1, <3>2
    <2> QED
      BY <2>3
  <1> HIDE DEF P
  <1>3. S \in P
    BY <1>1, <1>2, SubsetInduction
  <1> QED
    BY <1>3 DEF P, Sum

(* Equal terms have equal sums.                                            *)
LEMMA SumSame ==
  ASSUME NEW S, IsFiniteSet(S), NEW f, NEW h, \A x \in S : f[x] = h[x]
  PROVE  SumFunctionOnSet(f, S) = SumFunctionOnSet(h, S)
  <1> DEFINE P == {s \in SUBSET S : SumFunctionOnSet(f, s) = SumFunctionOnSet(h, s)}
  <1>0. SumFunctionOnSet(f, {}) = 0 /\ SumFunctionOnSet(h, {}) = 0
    BY FS_EmptySet, SumUnfold
  <1>1. {} \in P
    BY <1>0
  <1>2. ASSUME NEW s \in SUBSET S, s # {}, \A x \in s : s \ {x} \in P PROVE s \in P
    <2>1. IsFiniteSet(s)
      BY FS_Subset
    <2>2. /\ Pick(s) \in s
          /\ SumFunctionOnSet(f, s) = f[Pick(s)] + SumFunctionOnSet(f, s \ {Pick(s)})
      BY <1>2, <2>1, SumUnfold
    <2>3. SumFunctionOnSet(h, s) = h[Pick(s)] + SumFunctionOnSet(h, s \ {Pick(s)})
      BY <1>2, <2>1, SumUnfold
    <2>4. f[Pick(s)] = h[Pick(s)] /\ s \ {Pick(s)} \in P
      BY <1>2, <2>2
    <2> QED
      BY <2>2, <2>3, <2>4
  <1> HIDE DEF P
  <1>3. \A s \in SUBSET S : s \in P
    BY <1>1, <1>2, SubsetInduction
  <1> QED
    BY <1>3 DEF P

(* More terms do not make a sum of naturals less.                          *)
LEMMA SumMore ==
  ASSUME NEW D, IsFiniteSet(D), NEW f \in [D -> Nat], NEW S \in SUBSET D, NEW T \in SUBSET S
  PROVE  SumFunctionOnSet(f, T) <= SumFunctionOnSet(f, S)
  <1> DEFINE Sum(s) == SumFunctionOnSet(f, s)
             P == {s \in SUBSET D : T \subseteq s => Sum(T) <= Sum(s)}
  <1>4. ASSUME NEW s \in SUBSET D
        PROVE  Sum(s) \in Nat /\ \A x \in s : Sum(s) = f[x] + Sum(s \ {x})
    BY SumType, SumRemove
  <1> HIDE DEF Sum
  <1>1. {} \in P
    <2>1. T \subseteq {} => T = {}
      OBVIOUS
    <2>2. Sum({}) <= Sum({})
      BY <1>4
    <2> QED
      BY <2>1, <2>2
  <1>2. ASSUME NEW s \in SUBSET D, s # {}, \A x \in s : s \ {x} \in P PROVE s \in P
    <2> SUFFICES ASSUME T \subseteq s PROVE Sum(T) <= Sum(s)
      OBVIOUS
    <2>1. CASE T = s
      BY <1>4, <2>1
    <2>2. CASE T # s
      <3>1. PICK x \in s : x \notin T
        BY <2>2
      <3>2. T \subseteq s \ {x} /\ s \ {x} \in P /\ s \ {x} \in SUBSET D
        BY <1>2, <3>1
      <3>3. Sum(T) <= Sum(s \ {x})
        BY <3>2
      <3>4. Sum(T) \in Nat /\ Sum(s \ {x}) \in Nat /\ f[x] \in Nat
            /\ Sum(s) = f[x] + Sum(s \ {x})
        BY <1>4, <3>2
      <3> QED
        BY <3>3, <3>4
    <2> QED
      BY <2>1, <2>2
  <1> HIDE DEF P
  <1>3. S \in P
    BY <1>1, <1>2, SubsetInduction
  <1> QED
    BY <1>3 DEF P, Sum

(* Greater terms have a greater sum.                                       *)
LEMMA SumLess ==
  ASSUME NEW D, IsFiniteSet(D), NEW f \in [D -> Nat], NEW h \in [D -> Nat],
         NEW S \in SUBSET D, \A x \in S : f[x] <= h[x]
  PROVE  SumFunctionOnSet(f, S) <= SumFunctionOnSet(h, S)
  <1> DEFINE F(s) == SumFunctionOnSet(f, s)
             H(s) == SumFunctionOnSet(h, s)
             P == {s \in SUBSET S : F(s) <= H(s)}
  <1>3. ASSUME NEW s \in SUBSET D
        PROVE  F(s) \in Nat /\ \A x \in s : F(s) = f[x] + F(s \ {x})
    BY SumType, SumRemove
  <1>4. ASSUME NEW s \in SUBSET D
        PROVE  H(s) \in Nat /\ \A x \in s : H(s) = h[x] + H(s \ {x})
    BY SumType, SumRemove
  <1>0. F({}) = 0 /\ H({}) = 0
    BY FS_EmptySet, SumUnfold
  <1> HIDE DEF F, H
  <1>1. {} \in P
    BY <1>0
  <1>2. ASSUME NEW s \in SUBSET S, s # {}, \A x \in s : s \ {x} \in P PROVE s \in P
    <2>1. PICK x : x \in s
      BY <1>2
    <2>2. F(s \ {x}) <= H(s \ {x}) /\ s \in SUBSET D /\ s \ {x} \in SUBSET D
      BY <1>2, <2>1
    <2>3. F(s) = f[x] + F(s \ {x}) /\ H(s) = h[x] + H(s \ {x})
      BY <1>3, <1>4, <2>1, <2>2
    <2>4. F(s \ {x}) \in Nat /\ H(s \ {x}) \in Nat /\ f[x] \in Nat /\ h[x] \in Nat /\ f[x] <= h[x]
      BY <1>3, <1>4, <2>1, <2>2
    <2> QED
      BY <2>2, <2>3, <2>4
  <1>5. IsFiniteSet(S)
    BY FS_Subset
  <1> HIDE DEF P
  <1>6. \A s \in SUBSET S : s \in P
    BY <1>1, <1>2, <1>5, SubsetInduction
  <1>7. S \in P
    BY <1>6
  <1> QED
    BY <1>7 DEF P, F, H

(* Terms that are zero may be left out.                                    *)
LEMMA SumRest ==
  ASSUME NEW D, IsFiniteSet(D), NEW f \in [D -> Nat], NEW C \in SUBSET D,
         \A x \in D \ C : f[x] = 0
  PROVE  SumFunctionOnSet(f, D) = SumFunctionOnSet(f, C)
  <1> DEFINE F(s) == SumFunctionOnSet(f, s)
             P == {s \in SUBSET D : C \subseteq s => F(s) = F(C)}
  <1>3. ASSUME NEW s \in SUBSET D
        PROVE  F(s) \in Nat /\ \A x \in s : F(s) = f[x] + F(s \ {x})
    BY SumType, SumRemove
  <1> HIDE DEF F
  <1>1. {} \in P
    <2>1. C \subseteq {} => C = {}
      OBVIOUS
    <2> QED
      BY <2>1
  <1>2. ASSUME NEW s \in SUBSET D, s # {}, \A x \in s : s \ {x} \in P PROVE s \in P
    <2> SUFFICES ASSUME C \subseteq s PROVE F(s) = F(C)
      OBVIOUS
    <2>1. CASE s = C
      BY <2>1
    <2>2. CASE s # C
      <3>1. PICK x \in s : x \notin C
        BY <2>2
      <3>2. F(s \ {x}) = F(C) /\ f[x] = 0 /\ s \ {x} \in SUBSET D
        BY <1>2, <3>1
      <3>3. F(s) = f[x] + F(s \ {x}) /\ F(s \ {x}) \in Nat
        BY <1>3, <3>2
      <3> QED
        BY <3>2, <3>3
    <2> QED
      BY <2>1, <2>2
  <1> HIDE DEF P
  <1>4. \A s \in SUBSET D : s \in P
    BY <1>1, <1>2, SubsetInduction
  <1>5. D \in P
    BY <1>4
  <1> QED
    BY <1>5 DEF P, F

------------------------------------------------------------------------------
(* What an order fills. *)

(* The orders at rest in a book.                                           *)
Resting(Id) ==
  [id : Id, side : Side, price : Nat \ {0}, quantity : Nat, remaining : Nat \ {0}]

(* The fields of one of them.                                              *)
LEMMA RestingFields ==
  ASSUME NEW Id, NEW book \in Seq(Resting(Id)), NEW i \in DOMAIN book
  PROVE  /\ book[i] \in Resting(Id) /\ i \in Nat
         /\ book[i].id \in Id /\ book[i].side \in {"BUY", "SELL"}
         /\ book[i].price \in Nat \ {0} /\ book[i].remaining \in Nat \ {0}
  <1>1. book[i] \in Resting(Id) /\ i \in Nat
    OBVIOUS
  <1>2. \A r \in Resting(Id) : /\ r.id \in Id /\ r.side \in {"BUY", "SELL"}
                               /\ r.price \in Nat \ {0} /\ r.remaining \in Nat \ {0}
    BY DEF Resting, Side
  <1> QED
    BY <1>1, <1>2

(* The greater and the less of two numbers.                                *)
LEMMA OfTwo ==
  ASSUME NEW a \in Int, NEW b \in Int
  PROVE  /\ Max({a, b}) = IF a >= b THEN a ELSE b
         /\ Min({a, b}) = IF a =< b THEN a ELSE b
  <1>1. \E x \in {a, b} : \A y \in {a, b} : x >= y
    OBVIOUS
  <1>2. Max({a, b}) \in {a, b} /\ \A y \in {a, b} : Max({a, b}) >= y
    BY <1>1, Zenon DEF Max
  <1>3. \E x \in {a, b} : \A y \in {a, b} : x =< y
    OBVIOUS
  <1>4. Min({a, b}) \in {a, b} /\ \A y \in {a, b} : Min({a, b}) =< y
    BY <1>3, Zenon DEF Min
  <1> QED
    BY <1>2, <1>4

(* A book has finitely many orders.                                        *)
LEMMA FiniteBook ==
  ASSUME NEW A, NEW book \in Seq(A)
  PROVE  IsFiniteSet(DOMAIN book)
  <1>1. PICK n \in Nat : DOMAIN book = 1..n
    OBVIOUS
  <1>2. IsFiniteSet(1..n)
    BY FS_Interval
  <1> QED
    BY <1>1, <1>2

(* The quantity offered ahead of a resting order, to an incoming one.      *)
Offered(book) == [i \in DOMAIN book |-> book[i].remaining]

Before(book, order, i) == {j \in Eligible(book, order) : Ahead(book, j, i)}

(* An order at rest gets what is left of the incoming quantity, and at     *)
(* most what it offers.                                                    *)
LEMMA FillAt ==
  ASSUME NEW Id, NEW book \in Seq(Resting(Id)),
         NEW order, order.quantity \in Nat,
         NEW i \in DOMAIN book
  PROVE  LET fill   == Fills(book, order)[i]
             ahead  == SumFunctionOnSet(Offered(book), Before(book, order, i))
             offers == book[i].remaining
         IN  /\ fill \in Nat /\ ahead \in Nat /\ offers \in Nat \ {0} /\ fill <= offers
             /\ i \notin Eligible(book, order) => fill = 0
             /\ i \in Eligible(book, order) /\ fill > 0 => ahead + fill <= order.quantity
             /\ i \in Eligible(book, order) /\ fill < offers => ahead + fill >= order.quantity
  <1> DEFINE fill == Fills(book, order)[i]
             ahead == SumFunctionOnSet(Offered(book), Before(book, order, i))
             offers == book[i].remaining
             D == DOMAIN book
  <1>1. IsFiniteSet(D)
    BY FiniteBook, Zenon
  <1>2. \A j \in D : book[j].remaining \in Nat \ {0}
    BY RestingFields
  <1>3. Offered(book) \in [D -> Nat] /\ Before(book, order, i) \in SUBSET D
    BY <1>2 DEF Offered, Before, Eligible
  <1>4. ahead \in Nat
    BY <1>1, <1>3, SumType
  <1>5. fill = IF i \in Eligible(book, order)
               THEN Max({0, Min({offers, order.quantity - ahead})}) ELSE 0
    BY DEF Fills, Offered, Before
  <1> HIDE DEF ahead, fill
  <1>6. offers \in Nat \ {0}
    BY <1>2
  <1> HIDE DEF offers
  <1>7. PICK m : m = Min({offers, order.quantity - ahead})
    OBVIOUS
  <1>8. m = (IF offers =< order.quantity - ahead THEN offers ELSE order.quantity - ahead)
        /\ m \in Int
    <2>1. offers \in Int /\ order.quantity - ahead \in Int
      BY <1>4, <1>6
    <2>2. PICK q : q = order.quantity - ahead
      OBVIOUS
    <2> QED
      BY <1>7, <2>1, <2>2, OfTwo
  <1>9. Max({0, m}) = IF 0 >= m THEN 0 ELSE m
    BY <1>8, OfTwo
  <1>10. fill = IF i \in Eligible(book, order) THEN (IF 0 >= m THEN 0 ELSE m) ELSE 0
    BY <1>5, <1>7, <1>9
  <1>11. /\ fill \in Nat /\ ahead \in Nat /\ offers \in Nat \ {0} /\ fill <= offers
         /\ i \notin Eligible(book, order) => fill = 0
         /\ i \in Eligible(book, order) /\ fill > 0 => ahead + fill <= order.quantity
         /\ i \in Eligible(book, order) /\ fill < offers => ahead + fill >= order.quantity
    BY <1>4, <1>6, <1>8, <1>10
  <1> QED
    BY <1>11 DEF fill, ahead, offers

(* Price-time priority is a strict order of one side of the book.          *)
LEMMA AheadOrder ==
  ASSUME NEW Id, NEW book \in Seq(Resting(Id)), NEW side,
         NEW i \in DOMAIN book, NEW j \in DOMAIN book, NEW k \in DOMAIN book,
         book[i].side = side, book[j].side = side, book[k].side = side
  PROVE  /\ ~Ahead(book, i, i)
         /\ Ahead(book, i, j) /\ Ahead(book, j, k) => Ahead(book, i, k)
         /\ i # j => Ahead(book, i, j) \/ Ahead(book, j, i)
  <1>1. /\ book[i].price \in Nat /\ book[j].price \in Nat /\ book[k].price \in Nat
        /\ i \in Nat /\ j \in Nat /\ k \in Nat /\ side \in {"BUY", "SELL"}
    BY RestingFields
  <1> QED
    BY <1>1 DEF Ahead

(* The order at the front of a set of orders of one side.                  *)
LEMMA First ==
  ASSUME NEW Id, NEW book \in Seq(Resting(Id)), NEW side,
         NEW S \in SUBSET DOMAIN book, \A i \in S : book[i].side = side, S # {}
  PROVE  /\ \E i \in S : \A j \in S : ~Ahead(book, j, i)
         /\ \E i \in S : \A j \in S : ~Ahead(book, i, j)
  <1> DEFINE P == {s \in SUBSET S : s # {} => /\ \E i \in s : \A j \in s : ~Ahead(book, j, i)
                                   /\ \E i \in s : \A j \in s : ~Ahead(book, i, j)}
  <1>0. IsFiniteSet(S)
    <2>1. IsFiniteSet(DOMAIN book)
      BY FiniteBook, Zenon
    <2> QED
      BY <2>1, FS_Subset
  <1>4. \A i \in S : ~Ahead(book, i, i)
    BY AheadOrder
  <1>5. \A i, j, k \in S : Ahead(book, i, j) /\ Ahead(book, j, k) => Ahead(book, i, k)
    BY AheadOrder
  <1>1. {} \in P
    OBVIOUS
  <1>2. ASSUME NEW s \in SUBSET S, s # {}, \A x \in s : s \ {x} \in P PROVE s \in P
    <2>1. PICK x : x \in s
      BY <1>2
    <2>2. CASE s \ {x} = {}
      <3>1. s = {x} /\ ~Ahead(book, x, x)
        BY <1>4, <2>1, <2>2
      <3> QED
        BY <3>1
    <2>3. CASE s \ {x} # {}
      <3>1. PICK f \in s \ {x} : \A j \in s \ {x} : ~Ahead(book, j, f)
        BY <1>2, <2>1, <2>3
      <3>2. PICK l \in s \ {x} : \A j \in s \ {x} : ~Ahead(book, l, j)
        BY <1>2, <2>1, <2>3
      <3>3. \E i \in s : \A j \in s : ~Ahead(book, j, i)
        <4>1. CASE Ahead(book, x, f)
          <5>1. ASSUME NEW j \in s, Ahead(book, j, x) PROVE FALSE
            <6>1. j # x
              BY <1>4, <2>1, <5>1
            <6>2. Ahead(book, j, f)
              BY <1>5, <2>1, <4>1, <5>1
            <6> QED
              BY <3>1, <6>1, <6>2
          <5> QED
            BY <2>1, <5>1
        <4>2. CASE ~Ahead(book, x, f)
          BY <3>1, <4>2
        <4> QED
          BY <4>1, <4>2
      <3>4. \E i \in s : \A j \in s : ~Ahead(book, i, j)
        <4>1. CASE Ahead(book, l, x)
          <5>1. ASSUME NEW j \in s, Ahead(book, x, j) PROVE FALSE
            <6>1. j # x
              BY <1>4, <2>1, <5>1
            <6>2. Ahead(book, l, j)
              BY <1>5, <2>1, <4>1, <5>1
            <6> QED
              BY <3>2, <6>1, <6>2
          <5> QED
            BY <2>1, <5>1
        <4>2. CASE ~Ahead(book, l, x)
          BY <3>2, <4>2
        <4> QED
          BY <4>1, <4>2
      <3> QED
        BY <3>3, <3>4
    <2> QED
      BY <2>2, <2>3
  <1> HIDE DEF P
  <1>3. \A s \in SUBSET S : s \in P
    BY <1>0, <1>1, <1>2, SubsetInduction
  <1>6. S \in P
    BY <1>3
  <1> QED
    BY <1>6 DEF P

(* When an order has quantity left, everything it may trade with is gone:  *)
(* the first order that is not filled would have taken the rest.           *)
LEMMA AllFilled ==
  ASSUME NEW Id, NEW book \in Seq(Resting(Id)), NEW order, order.quantity \in Nat,
         SumFunction(Fills(book, order)) < order.quantity
  PROVE  \A i \in Eligible(book, order) : Fills(book, order)[i] = book[i].remaining
  <1> DEFINE fills == Fills(book, order)
             eligible == Eligible(book, order)
             offered == Offered(book)
             D == DOMAIN book
             S == {i \in eligible : fills[i] # book[i].remaining}
             ahead(i) == SumFunctionOnSet(offered, Before(book, order, i))
  <1>1. /\ IsFiniteSet(D) /\ eligible \subseteq D /\ DOMAIN fills = D
        /\ \A i \in eligible : book[i].side = Opposite(order.side)
    <2>1. IsFiniteSet(D)
      BY FiniteBook, Zenon
    <2> QED
      BY <2>1 DEF Eligible, Fills
  <1>2. ASSUME NEW i \in D
        PROVE  /\ fills[i] \in Nat /\ ahead(i) \in Nat /\ offered[i] = book[i].remaining
               /\ book[i].remaining \in Nat /\ fills[i] <= book[i].remaining
               /\ i \in eligible /\ fills[i] < book[i].remaining
                    => ahead(i) + fills[i] >= order.quantity
    BY FillAt DEF Offered
  <1>3. fills \in [D -> Nat] /\ offered \in [D -> Nat]
    <2>1. fills = [i \in D |-> fills[i]] /\ offered = [i \in D |-> offered[i]]
      BY DEF Fills, Offered
    <2> HIDE DEF fills, offered, D
    <2> QED
      BY <1>2, <2>1
  <1>4. SumFunction(fills) = SumFunctionOnSet(fills, D)
    BY <1>1 DEF SumFunction
  <1> SUFFICES ASSUME S # {} PROVE FALSE
    OBVIOUS
  <1>5. PICK i \in S : \A j \in S : ~Ahead(book, j, i)
    <2>1. S \in SUBSET DOMAIN book /\ \A j \in S : book[j].side = Opposite(order.side)
      BY <1>1
    <2> HIDE DEF S
    <2> QED
      BY <2>1, First
  <1> DEFINE B == Before(book, order, i)
  <1>6. B \in SUBSET D /\ i \in D /\ i \notin B /\ B \subseteq eligible
    <2>1. i \in D /\ i \in eligible
      BY <1>1, <1>5
    <2>2. ~Ahead(book, i, i)
      BY <2>1, AheadOrder
    <2> QED
      BY <1>1, <2>1, <2>2 DEF Before
  <1>7. \A j \in B : offered[j] = fills[j]
    BY <1>2, <1>5, <1>6 DEF Before
  <1> HIDE DEF fills, eligible, offered, B
  <1>8. SumFunctionOnSet(offered, B) = SumFunctionOnSet(fills, B)
    <2>1. IsFiniteSet(B)
      BY <1>1, <1>6, FS_Subset
    <2> QED
      BY <1>7, <2>1, SumSame
  <1>9. /\ SumFunctionOnSet(fills, B \cup {i}) = fills[i] + SumFunctionOnSet(fills, B)
        /\ SumFunctionOnSet(fills, B \cup {i}) <= SumFunctionOnSet(fills, D)
        /\ SumFunctionOnSet(fills, B) \in Nat /\ SumFunctionOnSet(fills, D) \in Nat
    <2>1. PICK C : C = B \cup {i}
      OBVIOUS
    <2>2. C \in SUBSET D /\ D \in SUBSET D /\ i \in C /\ C \ {i} = B
      BY <1>6, <2>1
    <2> HIDE DEF D
    <2>3. SumFunctionOnSet(fills, C) = fills[i] + SumFunctionOnSet(fills, C \ {i})
      <3>1. \A x \in C : SumFunctionOnSet(fills, C) = fills[x] + SumFunctionOnSet(fills, C \ {x})
        <4>1. IsFiniteSet(D) /\ fills \in [D -> Nat] /\ C \in SUBSET D
          BY <1>1, <1>3, <2>2
        <4> QED
          BY <4>1, SumRemove
      <3> QED
        BY <2>2, <3>1
    <2>4. SumFunctionOnSet(fills, C) <= SumFunctionOnSet(fills, D)
      BY <1>1, <1>3, <2>2, SumMore
    <2>5. SumFunctionOnSet(fills, B) \in Nat
      BY <1>1, <1>3, <1>6, SumType
    <2>6. SumFunctionOnSet(fills, D) \in Nat
      BY <1>1, <1>3, <2>2, SumType
    <2> QED
      BY <2>1, <2>2, <2>3, <2>4, <2>5, <2>6
  <1>10. fills[i] \in Nat /\ fills[i] + SumFunctionOnSet(offered, B) >= order.quantity
    <2>1. /\ i \in D /\ i \in eligible /\ fills[i] # book[i].remaining
          /\ ahead(i) = SumFunctionOnSet(offered, B)
      BY <1>5, <1>6 DEF B
    <2>2. /\ fills[i] \in Nat /\ ahead(i) \in Nat
          /\ book[i].remaining \in Nat /\ fills[i] <= book[i].remaining
          /\ i \in eligible /\ fills[i] < book[i].remaining => ahead(i) + fills[i] >= order.quantity
      BY <1>2, <2>1
    <2> HIDE DEF ahead
    <2> QED
      BY <2>1, <2>2
  <1>11. SumFunctionOnSet(fills, D) < order.quantity
    BY <1>4 DEF fills
  <1> QED
    BY <1>8, <1>9, <1>10, <1>11

(* An order trades no more than its quantity: the last order that gets     *)
(* something gets what those ahead of it have left.                        *)
THEOREM NotOverfilled ==
  ASSUME NEW Id, NEW book \in Seq(Resting(Id)), NEW order, order.quantity \in Nat
  PROVE  /\ SumFunction(Fills(book, order)) \in Nat
         /\ SumFunction(Fills(book, order)) <= order.quantity
  <1> DEFINE fills == Fills(book, order)
             eligible == Eligible(book, order)
             offered == Offered(book)
             D == DOMAIN book
             S == {i \in D : fills[i] # 0}
             ahead(i) == SumFunctionOnSet(offered, Before(book, order, i))
  <1>1. /\ IsFiniteSet(D) /\ eligible \subseteq D /\ DOMAIN fills = D
        /\ \A i \in eligible : book[i].side = Opposite(order.side)
    <2>1. IsFiniteSet(D)
      BY FiniteBook, Zenon
    <2> QED
      BY <2>1 DEF Eligible, Fills
  <1>2. ASSUME NEW i \in D
        PROVE  /\ fills[i] \in Nat /\ ahead(i) \in Nat /\ offered[i] = book[i].remaining
               /\ book[i].remaining \in Nat /\ fills[i] <= offered[i]
               /\ i \notin eligible => fills[i] = 0
               /\ i \in eligible /\ fills[i] > 0 => ahead(i) + fills[i] <= order.quantity
    BY FillAt DEF Offered
  <1>3. fills \in [D -> Nat] /\ offered \in [D -> Nat]
    <2>1. fills = [i \in D |-> fills[i]] /\ offered = [i \in D |-> offered[i]]
      BY DEF Fills, Offered
    <2> HIDE DEF fills, offered, D
    <2> QED
      BY <1>2, <2>1
  <1>4. SumFunction(fills) = SumFunctionOnSet(fills, D) /\ SumFunctionOnSet(fills, D) \in Nat
    <2>1. D \in SUBSET D
      OBVIOUS
    <2> HIDE DEF D, fills
    <2> QED
      BY <1>1, <1>3, <2>1, SumType DEF SumFunction
  <1> HIDE DEF fills, eligible, offered, ahead
  <1>5. SumFunctionOnSet(fills, D) <= order.quantity
    <2>1. CASE S = {}
      <3>1. \A i \in D : fills[i] = 0
        BY <2>1
      <3>2. SumFunctionOnSet(fills, {}) = 0
        BY FS_EmptySet, SumUnfold
      <3>3. SumFunctionOnSet(fills, D) = SumFunctionOnSet(fills, {})
        <4>1. PICK C : C = {}
          OBVIOUS
        <4>2. C \in SUBSET D /\ \A j \in D \ C : fills[j] = 0
          BY <3>1, <4>1
        <4> HIDE DEF D
        <4> QED
          BY <1>1, <1>3, <4>1, <4>2, SumRest
      <3> QED
        BY <3>2, <3>3
    <2>2. CASE S # {}
      <3>1. PICK i \in S : \A j \in S : ~Ahead(book, i, j)
        <4>1. S \in SUBSET DOMAIN book /\ \A j \in S : book[j].side = Opposite(order.side)
          BY <1>1, <1>2
        <4> HIDE DEF S
        <4> QED
          BY <2>2, <4>1, First
      <3>2. PICK B : B = Before(book, order, i)
        OBVIOUS
      <3>3. i \in D /\ i \in eligible /\ B \in SUBSET D /\ i \notin B
        <4>1. i \in D /\ i \in eligible
          BY <1>2
        <4>2. ~Ahead(book, i, i)
          BY <4>1, AheadOrder
        <4> QED
          BY <1>1, <3>2, <4>1, <4>2 DEF Before, eligible
      <3>4. PICK C : C = B \cup {i}
        OBVIOUS
      <3>5. C \in SUBSET D /\ i \in C /\ C \ {i} = B
        BY <3>3, <3>4
      <3>6. S \subseteq C
        <4>1. ASSUME NEW j \in S, j # i PROVE j \in B
          <5>1. j \in D /\ j \in eligible /\ ~Ahead(book, i, j)
            BY <1>2, <3>1
          <5>2. Ahead(book, j, i)
            BY <1>1, <3>3, <4>1, <5>1, AheadOrder
          <5> QED
            BY <3>2, <5>1, <5>2 DEF Before, eligible
        <4> QED
          BY <3>4, <4>1
      <3>7. SumFunctionOnSet(fills, D) = SumFunctionOnSet(fills, C)
        <4>1. /\ IsFiniteSet(D) /\ fills \in [D -> Nat] /\ C \in SUBSET D
              /\ \A j \in D \ C : fills[j] = 0
          BY <1>1, <1>3, <3>5, <3>6
        <4> HIDE DEF D
        <4> QED
          BY <4>1, SumRest
      <3>8. SumFunctionOnSet(fills, C) = fills[i] + SumFunctionOnSet(fills, B)
        <4>1. IsFiniteSet(D) /\ fills \in [D -> Nat] /\ C \in SUBSET D
          BY <1>1, <1>3, <3>5
        <4> HIDE DEF D
        <4>2. \A x \in C : SumFunctionOnSet(fills, C) = fills[x] + SumFunctionOnSet(fills, C \ {x})
          BY <4>1, SumRemove
        <4> QED
          BY <3>5, <4>2
      <3>9. /\ SumFunctionOnSet(fills, B) <= SumFunctionOnSet(offered, B)
            /\ SumFunctionOnSet(fills, B) \in Nat
        <4> HIDE DEF D
        <4>1. \A j \in B : fills[j] <= offered[j]
          BY <1>2, <3>3
        <4>2. SumFunctionOnSet(fills, B) <= SumFunctionOnSet(offered, B)
          <5>1. /\ IsFiniteSet(D) /\ fills \in [D -> Nat] /\ offered \in [D -> Nat]
                /\ B \in SUBSET D
            BY <1>1, <1>3, <3>3
          <5> QED
            BY <4>1, <5>1, SumLess
        <4> QED
          BY <1>1, <1>3, <3>3, <4>2, SumType
      <3>10. /\ fills[i] \in Nat /\ ahead(i) \in Nat /\ ahead(i) + fills[i] <= order.quantity
             /\ ahead(i) = SumFunctionOnSet(offered, B)
        BY <1>2, <3>2, <3>3 DEF ahead
      <3> QED
        BY <3>7, <3>8, <3>9, <3>10
    <2> QED
      BY <2>1, <2>2
  <1> QED
    BY <1>4, <1>5 DEF fills

------------------------------------------------------------------------------
(* The book after a command. *)

(* No buyer at rest would pay what a seller at rest asks.                  *)
NotCrossed(book) ==
  \A i, j \in DOMAIN book :
    book[i].side = "BUY" /\ book[j].side = "SELL" => book[i].price < book[j].price

(* Orders that leave the book do not cross the others.                     *)
LEMMA PartNotCrossed ==
  ASSUME NEW book, NotCrossed(book), NEW s,
         \A k \in DOMAIN s : \E i \in DOMAIN book :
           s[k].side = book[i].side /\ s[k].price = book[i].price
  PROVE  NotCrossed(s)
  <1> SUFFICES ASSUME NEW k \in DOMAIN s, NEW l \in DOMAIN s, s[k].side = "BUY", s[l].side = "SELL"
               PROVE  s[k].price < s[l].price
    BY DEF NotCrossed
  <1>1. PICK i \in DOMAIN book : s[k].side = book[i].side /\ s[k].price = book[i].price
    OBVIOUS
  <1>2. PICK j \in DOMAIN book : s[l].side = book[j].side /\ s[l].price = book[j].price
    OBVIOUS
  <1>3. book[i].price < book[j].price
    BY <1>1, <1>2, Zenon DEF NotCrossed
  <1> QED
    BY <1>1, <1>2, <1>3

(* What is kept of a sequence is in it, and what is kept of orders at rest *)
(* is a book.                                                              *)
LEMMA KeptFrom ==
  ASSUME NEW A, NEW s \in Seq(A), NEW S \in SUBSET (DOMAIN s), NEW B, \A i \in S : s[i] \in B
  PROVE  /\ Keep(s, S) \in Seq(B)
         /\ \A k \in DOMAIN Keep(s, S) : \E i \in S : Keep(s, S)[k] = s[i]
  <1>1. PICK K : K = Keep(s, S)
    OBVIOUS
  <1>2. S \in SUBSET (1..Len(s))
    OBVIOUS
  <1>3. /\ K \in Seq(A) /\ Len(K) = Cardinality(S)
        /\ \A k \in 1..Cardinality(S) : \E i \in S : K[k] = s[i]
    BY <1>1, <1>2, KeepType
  <1>4. \A k \in DOMAIN K : \E i \in S : K[k] = s[i]
    BY <1>3
  <1>5. K \in Seq(B)
    <2>1. \A k \in 1..Len(K) : K[k] \in B
      BY <1>3
    <2>2. Len(K) \in Nat /\ K = [k \in 1..Len(K) |-> K[k]]
      BY <1>3
    <2> QED
      BY <2>1, <2>2
  <1> QED
    BY <1>1, <1>4, <1>5

(* A cancel leaves a book, and does not cross it.                          *)
LEMMA CancelNotCrossed ==
  ASSUME NEW Id, NEW book \in Seq(Resting(Id)), NotCrossed(book), NEW id
  PROVE  Cancelled(book, id) \in Seq(Resting(Id)) /\ NotCrossed(Cancelled(book, id))
  <1>1. PICK S : S = {i \in DOMAIN book : book[i].id # id}
    OBVIOUS
  <1>2. S \in SUBSET (DOMAIN book) /\ \A i \in S : book[i] \in Resting(Id)
    BY <1>1
  <1>3. PICK s : s = Keep(book, S)
    OBVIOUS
  <1>4. s \in Seq(Resting(Id)) /\ \A k \in DOMAIN s : \E i \in S : s[k] = book[i]
    BY <1>2, <1>3, KeptFrom
  <1>5. NotCrossed(s)
    BY <1>2, <1>4, PartNotCrossed
  <1> QED
    BY <1>1, <1>3, <1>4, <1>5 DEF Cancelled

(* An order that is filled as far as it goes leaves a book, and what is    *)
(* left of it crosses nobody: whoever it could trade with is gone.         *)
LEMMA OutcomeNotCrossed ==
  ASSUME NEW Id, NEW book \in Seq(Resting(Id)), NotCrossed(book),
         NEW order \in Orders(Id, Nat \ {0}, Nat \ {0})
  PROVE  /\ Outcome(book, order).book \in Seq(Resting(Id))
         /\ NotCrossed(Outcome(book, order).book)
  <1> DEFINE fills == Fills(book, order)
             left == order.quantity - SumFunction(fills)
             after == [i \in DOMAIN book |-> [book[i] EXCEPT !.remaining = @ - fills[i]]]
             kept == {i \in DOMAIN book : after[i].remaining > 0}
             rest == [id |-> order.id, side |-> order.side, price |-> order.price,
                      quantity |-> order.quantity, remaining |-> left]
             A == [id : Id, side : Side, price : Nat \ {0}, quantity : Nat, remaining : Nat]
             D == DOMAIN book
             K == Keep(after, kept)
  <1>1. /\ order.quantity \in Nat \ {0} /\ order.id \in Id /\ order.side \in {"BUY", "SELL"}
        /\ order.kind = "LIMIT" => order.price \in Nat \ {0}
        /\ order.kind \in {"MARKET", "LIMIT"}
    BY DEF Orders, Side
  <1>2. ASSUME NEW i \in D
        PROVE  fills[i] \in Nat /\ fills[i] <= book[i].remaining /\ book[i].remaining \in Nat
    BY <1>1, FillAt
  <1>3. ASSUME NEW i \in D
        PROVE  /\ after[i] \in A /\ after[i].remaining = book[i].remaining - fills[i]
               /\ after[i].side = book[i].side /\ after[i].price = book[i].price
    <2>1. book[i] \in Resting(Id)
      OBVIOUS
    <2>2. PICK q : q = book[i].remaining - fills[i]
      OBVIOUS
    <2>3. q \in Nat
      BY <1>2, <2>2
    <2>4. after[i] = [book[i] EXCEPT !.remaining = q]
      BY <2>2
    <2> HIDE DEF after
    <2> QED
      BY <2>1, <2>2, <2>3, <2>4 DEF Resting
  <1>4. after \in Seq(A) /\ DOMAIN after = D
    <2>1. D = 1..Len(book) /\ Len(book) \in Nat /\ after = [i \in D |-> after[i]]
      OBVIOUS
    <2> HIDE DEF after, A, D
    <2> QED
      BY <1>3, <2>1
  <1>5. \A i \in kept : after[i] \in Resting(Id)
    <2>1. ASSUME NEW i \in kept PROVE after[i] \in Resting(Id)
      <3>1. after[i] \in A /\ after[i].remaining > 0
        BY <1>3
      <3> HIDE DEF after
      <3> QED
        BY <3>1 DEF Resting
    <2> QED
      BY <2>1
  <1> HIDE DEF after, A
  <1>6. kept \in SUBSET D
    OBVIOUS
  <1>7. K \in Seq(Resting(Id)) /\ \A k \in DOMAIN K : \E i \in kept : K[k] = after[i]
    <2> HIDE DEF kept
    <2> QED
      BY <1>4, <1>5, <1>6, KeptFrom
  <1> HIDE DEF K
  <1>8. NotCrossed(K)
    <2>1. \A k \in DOMAIN K : \E i \in D : K[k].side = book[i].side /\ K[k].price = book[i].price
      BY <1>3, <1>6, <1>7
    <2> QED
      BY <2>1, PartNotCrossed
  <1>9. Outcome(book, order).book
          = K \o IF order.kind = "LIMIT" /\ left > 0 THEN <<rest>> ELSE <<>>
    BY DEF Outcome, K, after
  <1> HIDE DEF rest, kept
  <1>10. CASE ~(order.kind = "LIMIT" /\ left > 0)
    <2>1. Outcome(book, order).book = K \o <<>>
      BY <1>9, <1>10
    <2>2. K \o <<>> = K
      BY <1>7
    <2> QED
      BY <1>7, <1>8, <2>1, <2>2
  <1>11. CASE order.kind = "LIMIT" /\ left > 0
    <2>1. Outcome(book, order).book = K \o <<rest>>
      BY <1>9, <1>11
    <2>2. left \in Nat \ {0} /\ \A i \in Eligible(book, order) : fills[i] = book[i].remaining
      <3>1. SumFunction(fills) \in Nat
        <4>1. IsFiniteSet(D)
          BY FiniteBook, Zenon
        <4>2. fills = [i \in D |-> fills[i]] /\ DOMAIN fills = D
          BY DEF Fills
        <4> HIDE DEF fills, D
        <4>3. fills \in [D -> Nat] /\ D \in SUBSET D
          BY <1>2, <4>2
        <4> QED
          BY <4>1, <4>2, <4>3, SumType DEF SumFunction
      <3>2. SumFunction(fills) < order.quantity /\ order.quantity \in Nat /\ left \in Nat \ {0}
        <4> HIDE DEF fills
        <4> QED
          BY <1>1, <1>11, <3>1
      <3> HIDE DEF left
      <3> QED
        BY <3>2, AllFilled
    <2>3. rest \in Resting(Id) /\ rest.side = order.side /\ rest.price = order.price
      <3> HIDE DEF left
      <3> QED
        BY <1>1, <1>11, <2>2 DEF rest, Resting, Side
    <2> HIDE DEF left, fills
    <2>4. ASSUME NEW k \in DOMAIN K, K[k].side = Opposite(order.side)
          PROVE  IF order.side = "BUY" THEN order.price < K[k].price ELSE K[k].price < order.price
      <3>1. PICK i \in kept : K[k] = after[i]
        BY <1>7
      <3>2. /\ i \in D /\ after[i].remaining > 0 /\ after[i].side = book[i].side
            /\ after[i].price = book[i].price /\ after[i].remaining = book[i].remaining - fills[i]
        BY <1>3, <1>6 DEF kept
      <3>3. fills[i] # book[i].remaining
        BY <1>2, <3>2
      <3>4. i \notin Eligible(book, order)
        BY <2>2, <3>3
      <3>5. ~Acceptable(order, book[i].price)
        BY <2>4, <3>1, <3>2, <3>4 DEF Eligible
      <3>6. book[i].price \in Nat
        BY <3>2, RestingFields
      <3> QED
        BY <1>1, <1>11, <3>1, <3>2, <3>5, <3>6 DEF Acceptable
    <2>5. PICK s : s = K \o <<rest>>
      OBVIOUS
    <2>6. s \in Seq(Resting(Id)) /\ DOMAIN s = DOMAIN K \cup {Len(K) + 1} /\ Len(K) \in Nat
          /\ s[Len(K) + 1] = rest /\ \A k \in DOMAIN K : s[k] = K[k]
      BY <1>7, <2>3, <2>5
    <2>7. NotCrossed(s)
      <3> SUFFICES ASSUME NEW k \in DOMAIN s, NEW l \in DOMAIN s,
                          s[k].side = "BUY", s[l].side = "SELL"
                   PROVE  s[k].price < s[l].price
        BY DEF NotCrossed
      <3>1. CASE k \in DOMAIN K /\ l \in DOMAIN K
        BY <1>8, <2>6, <3>1 DEF NotCrossed
      <3>2. CASE k \in DOMAIN K /\ l = Len(K) + 1
        <4>1. K[k].side = "BUY" /\ order.side = "SELL" /\ s[k] = K[k] /\ s[l].price = order.price
          BY <2>3, <2>6, <3>2
        <4> QED
          BY <2>4, <3>2, <4>1 DEF Opposite
      <3>3. CASE k = Len(K) + 1 /\ l \in DOMAIN K
        <4>1. K[l].side = "SELL" /\ order.side = "BUY" /\ s[l] = K[l] /\ s[k].price = order.price
          BY <2>3, <2>6, <3>3
        <4> QED
          BY <2>4, <3>3, <4>1 DEF Opposite
      <3>4. ~(k = Len(K) + 1 /\ l = Len(K) + 1)
        OBVIOUS
      <3> QED
        BY <2>6, <3>1, <3>2, <3>3, <3>4
    <2> QED
      BY <2>1, <2>5, <2>6, <2>7
  <1> QED
    BY <1>10, <1>11

------------------------------------------------------------------------------
(* The top of the book. *)

(* The prices of one side.                                                 *)
Quotes(book, side) == {book[i].price : i \in {k \in DOMAIN book : book[k].side = side}}

(* The best price is the price of the order that is first in line.         *)
LEMMA BestQuote ==
  ASSUME NEW Id, NEW book \in Seq(Resting(Id)), NEW side \in {"BUY", "SELL"}
  PROVE  LET best == BestPrice(book, side)
             quotes == Quotes(book, side)
         IN  /\ quotes \subseteq Nat \ {0}
             /\ quotes = {} => best = NoPrice
             /\ quotes # {} => /\ best \in quotes
                               /\ side = "BUY" => \A p \in quotes : p <= best
                               /\ side = "SELL" => \A p \in quotes : p >= best
  <1> DEFINE best == BestPrice(book, side)
             quotes == Quotes(book, side)
             S == {k \in DOMAIN book : book[k].side = side}
  <1>1. quotes \subseteq Nat \ {0}
    BY RestingFields DEF Quotes
  <1>2. /\ quotes = {} => best = NoPrice
        /\ quotes # {} /\ side = "BUY" => best = Max(quotes)
        /\ quotes # {} /\ side = "SELL" => best = Min(quotes)
    <2>1. best = IF quotes = {} THEN NoPrice
                 ELSE IF side = "BUY" THEN Max(quotes) ELSE Min(quotes)
      BY DEF BestPrice, Quotes
    <2> HIDE DEF best, quotes
    <2> QED
      BY <2>1
  <1>3. ASSUME quotes # {}
        PROVE  /\ side = "BUY" => \E p \in quotes : \A q \in quotes : p >= q
               /\ side = "SELL" => \E p \in quotes : \A q \in quotes : p =< q
    <2>1. S # {} /\ S \in SUBSET DOMAIN book /\ \A i \in S : book[i].side = side
      BY <1>3 DEF Quotes
    <2>2. PICK i \in S : \A j \in S : ~Ahead(book, j, i)
      <3> HIDE DEF S
      <3> QED
        BY <2>1, First
    <2>3. book[i].price \in quotes
      BY <2>2 DEF Quotes
    <2>4. ASSUME NEW q \in quotes
          PROVE  (side = "BUY" => book[i].price >= q) /\ (side = "SELL" => book[i].price =< q)
      <3>1. PICK j \in S : q = book[j].price
        BY DEF Quotes
      <3>2. book[i].price \in Nat /\ book[j].price \in Nat
        BY <2>1, <2>2, RestingFields
      <3> QED
        BY <2>2, <3>1, <3>2 DEF Ahead
    <2> QED
      BY <2>3, <2>4
  <1> HIDE DEF best, quotes
  <1>4. ASSUME quotes # {}, side = "BUY"
        PROVE  best \in quotes /\ \A p \in quotes : best >= p
    BY <1>2, <1>3, <1>4, Zenon DEF Max
  <1>5. ASSUME quotes # {}, side = "SELL"
        PROVE  best \in quotes /\ \A p \in quotes : best =< p
    BY <1>2, <1>3, <1>5, Zenon DEF Min
  <1>6. /\ quotes \subseteq Nat \ {0}
        /\ quotes = {} => best = NoPrice
        /\ quotes # {} => /\ best \in quotes
                          /\ side = "BUY" => \A p \in quotes : p <= best
                          /\ side = "SELL" => \A p \in quotes : p >= best
    BY <1>1, <1>2, <1>4, <1>5
  <1> QED
    BY <1>6 DEF best, quotes

(* The top of a book that is not crossed.                                  *)
THEOREM TopOfBook ==
  ASSUME NEW Id, NEW book \in Seq(Resting(Id)), NotCrossed(book),
         NEW bid, bid = BestPrice(book, "BUY"), NEW ask, ask = BestPrice(book, "SELL")
  PROVE  /\ Quotes(book, "BUY") = {} <=> bid = NoPrice
         /\ Quotes(book, "SELL") = {} <=> ask = NoPrice
         /\ \A p \in Quotes(book, "BUY") : p <= bid
         /\ \A p \in Quotes(book, "SELL") : p >= ask
         /\ bid # NoPrice => bid \in Quotes(book, "BUY")
         /\ ask # NoPrice => ask \in Quotes(book, "SELL")
         /\ bid # NoPrice /\ ask # NoPrice => bid < ask
  <1>1. PICK B : B = Quotes(book, "BUY")
    OBVIOUS
  <1>2. PICK S : S = Quotes(book, "SELL")
    OBVIOUS
  <1>3. /\ B \subseteq Nat \ {0} /\ (B = {} => bid = NoPrice)
        /\ B # {} => bid \in B /\ \A p \in B : p <= bid
    BY <1>1, BestQuote
  <1>4. /\ S \subseteq Nat \ {0} /\ (S = {} => ask = NoPrice)
        /\ S # {} => ask \in S /\ \A p \in S : p >= ask
    BY <1>2, BestQuote
  <1>5. \A p \in B, q \in S : p < q
    BY <1>1, <1>2 DEF Quotes, NotCrossed
  <1>6. NoPrice \notin Nat \ {0}
    BY DEF NoPrice
  <1>7. /\ B = {} <=> bid = NoPrice
        /\ S = {} <=> ask = NoPrice
    BY <1>3, <1>4, <1>6
  <1> QED
    BY <1>1, <1>2, <1>3, <1>4, <1>5, <1>7
==============================================================================
