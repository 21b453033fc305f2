------------------------- MODULE DurableEngineProofs -------------------------
(***************************************************************************)
(* Recovery from the database: sequence numbers never collide, and as long *)
(* as no transaction fails a recovered engine is in a state the engine has *)
(* been in, for any orders, crashes and number of lives.                   *)
(***************************************************************************)
EXTENDS DurableEngine, ReplayProofs, FiniteSetTheorems

(* Events in ascending order of their numbers.                             *)
Rising(s) ==
  /\ \A i \in 1..Len(s) : s[i].seq \in Nat \ {0}
  /\ \A i, j \in 1..Len(s) : i < j => s[i].seq < s[j].seq

------------------------------------------------------------------------------
(* Reading the table in the order of the primary key. *)

(* f counts off the elements of T from 1 to n, without repeating one.      *)
Counts(f, n, T) ==
  /\ n \in Nat
  /\ \A i \in 1..n : f[i] \in T
  /\ \A t \in T : \E i \in 1..n : f[i] = t
  /\ \A i, j \in 1..n : f[i] = f[j] => i = j

(* Then there are n of them.                                               *)
LEMMA ImageCount == ASSUME NEW n, NEW f, NEW T, Counts(f, n, T) PROVE Cardinality(T) = n
  <1> USE DEF Counts
  <1> DEFINE F == [i \in 1..n |-> f[i]]
  <1>1. F \in [1..n -> T] /\ DOMAIN F = 1..n /\ \A i \in 1..n : F[i] = f[i]
    OBVIOUS
  <1> HIDE DEF F
  <1>2. F \in Injection(1..n, T)
    BY <1>1 DEF Injection, IsInjective
  <1>3. F \in Surjection(1..n, T)
    BY <1>1 DEF Surjection
  <1>4. ExistsBijection(1..n, T)
    BY <1>2, <1>3 DEF ExistsBijection, Bijection
  <1>5. IsFiniteSet(1..n) /\ Cardinality(1..n) = n
    BY FS_Interval
  <1> QED
    BY <1>4, <1>5, FS_Bijection

(* The k-th smallest number of a rising sequence is that of its k-th row.  *)
LEMMA RankOfRising ==
  ASSUME NEW E, NEW s \in Seq(E), Rising(s), NEW seqs,
         \A i \in 1..Len(s) : s[i].seq \in seqs,
         \A q \in seqs : \E i \in 1..Len(s) : q = s[i].seq
  PROVE  /\ Cardinality(seqs) = Len(s)
         /\ \A k \in 1..Len(s) : Nth(seqs, k) = s[k].seq
  <1> DEFINE N == Len(s)
             f == [i \in 1..N |-> s[i].seq]
  <1>1. N \in Nat /\ \A i \in 1..N : f[i] = s[i].seq
    OBVIOUS
  <1>2. /\ \A i \in 1..N : f[i] \in Nat
        /\ \A i, j \in 1..N : i < j => f[i] < f[j]
    BY <1>1 DEF Rising
  <1>3. (\A i \in 1..N : f[i] \in seqs) /\ \A q \in seqs : \E i \in 1..N : f[i] = q
    BY <1>1
  <1> HIDE DEF f
  <1>4. \A i, j \in 1..N : f[i] = f[j] => i = j
    <2> SUFFICES ASSUME NEW i \in 1..N, NEW j \in 1..N, f[i] = f[j] PROVE i = j
      OBVIOUS
    <2>1. ~(i < j) /\ ~(j < i)
      BY <1>2
    <2> QED
      BY <1>1, <2>1
  <1>5. Cardinality(seqs) = N
    <2>1. Counts(f, N, seqs)
      BY <1>1, <1>3, <1>4 DEF Counts
    <2> QED
      BY <2>1, ImageCount
  <1>6. ASSUME NEW k \in 1..N PROVE Cardinality({j \in seqs : j < f[k]}) = k - 1
    <2> DEFINE below == {j \in seqs : j < f[k]}
    <2>1. k - 1 \in Nat /\ \A i \in 1..(k - 1) : i \in 1..N
      BY <1>1
    <2>2. ASSUME NEW i \in 1..N PROVE f[i] < f[k] <=> i \in 1..(k - 1)
      <3>1. i < k \/ i = k \/ k < i
        BY <1>1
      <3>2. CASE i < k
        BY <1>1, <1>2, <3>2
      <3>3. CASE i = k
        BY <1>1, <1>2, <3>3
      <3>4. CASE k < i
        BY <1>1, <1>2, <3>4
      <3> QED
        BY <3>1, <3>2, <3>3, <3>4
    <2>3. /\ \A i \in 1..(k - 1) : f[i] \in below
          /\ \A t \in below : \E i \in 1..(k - 1) : f[i] = t
      BY <1>3, <2>1, <2>2, Zenon
    <2>4. \A i, j \in 1..(k - 1) : f[i] = f[j] => i = j
      BY <1>4, <2>1
    <2> HIDE DEF below
    <2>5. Counts(f, k - 1, below)
      BY <2>1, <2>3, <2>4 DEF Counts
    <2>6. Cardinality(below) = k - 1
      BY <2>5, ImageCount
    <2> QED
      BY <2>6 DEF below
  <1>7. ASSUME NEW k \in 1..N PROVE Nth(seqs, k) = f[k]
    <2> DEFINE P(i) == Cardinality({j \in seqs : j < i}) = k - 1
    <2>1. f[k] \in seqs /\ P(f[k])
      BY <1>3, <1>6
    <2>2. ASSUME NEW i \in seqs, P(i) PROVE i = f[k]
      <3>1. PICK m \in 1..N : i = f[m]
        BY <1>3
      <3>2. m - 1 = k - 1
        BY <1>6, <2>2, <3>1
      <3> QED
        BY <1>1, <3>1, <3>2
    <2>3. Nth(seqs, k) = CHOOSE i \in seqs : P(i)
      BY DEF Nth
    <2> HIDE DEF P
    <2>4. (CHOOSE i \in seqs : P(i)) = f[k]
      BY <2>1, <2>2, Zenon
    <2> QED
      BY <2>3, <2>4
  <1> QED
    BY <1>1, <1>5, <1>7

(* loadAll returns the table as it is when its rows went in in order.      *)
LEMMA LoadAllRising ==
  ASSUME IsSeq(tables.events), Rising(tables.events)
  PROVE  LoadAll = tables.events
  <1> DEFINE s == tables.events
             seqs == {s[i].seq : i \in DOMAIN s}
             row(seq) == CHOOSE i \in DOMAIN s : s[i].seq = seq
  <1>1. PICK E : s \in Seq(E)
    BY DEF IsSeq
  <1>2. DOMAIN s = 1..Len(s) /\ Len(s) \in Nat /\ s = [k \in 1..Len(s) |-> s[k]]
    BY <1>1
  <1>3. Cardinality(seqs) = Len(s) /\ \A k \in 1..Len(s) : Nth(seqs, k) = s[k].seq
    <2>1. (\A i \in 1..Len(s) : s[i].seq \in seqs) /\ \A q \in seqs : \E i \in 1..Len(s) : q = s[i].seq
      BY <1>2, Zenon
    <2> HIDE DEF seqs, s
    <2>2. Rising(s)
      BY DEF s
    <2> QED
      BY <1>1, <2>1, <2>2, RankOfRising
  <1>4. ASSUME NEW k \in 1..Len(s) PROVE row(s[k].seq) = k
    <2>1. ASSUME NEW i \in DOMAIN s, s[i].seq = s[k].seq PROVE i = k
      <3>1. ~(i < k) /\ ~(k < i)
        BY <1>2, <2>1 DEF Rising
      <3> QED
        BY <1>2, <3>1
    <2>2. k \in DOMAIN s
      BY <1>2
    <2> QED
      BY <2>1, <2>2, Zenon
  <1>5. LoadAll = [k \in 1..Cardinality(seqs) |-> s[row(Nth(seqs, k))]]
    BY DEF LoadAll
  <1> HIDE DEF s, seqs, row
  <1>6. LoadAll = [k \in 1..Len(s) |-> s[k]]
    BY <1>3, <1>4, <1>5
  <1> QED
    BY <1>2, <1>6 DEF s

------------------------------------------------------------------------------
(* The two kinds of records in the log. *)

EventsIn(B) == {x \in B : WAL!IsEvent(x)}
TradesIn(B) == {x \in B : ~WAL!IsEvent(x)}

(* GroupCommit's parts of a log are those of Loops.                        *)
LEMMA PartsOf ==
  ASSUME NEW B, NEW s \in Seq(B)
  PROVE  /\ WAL!EventsOf(s) = Select(s, EventsIn(B))
         /\ WAL!TradesOf(s) = Select(s, TradesIn(B))
  <1>1. ASSUME NEW S PROVE WAL!Keep(s, S) = Keep(s, S)
    BY DEF WAL!Keep, Keep, WAL!Nth, Nth, WAL!Cardinality, Cardinality,
           WAL!IsFiniteSet, IsFiniteSet
  <1>2. \A i \in DOMAIN s : s[i] \in B
    OBVIOUS
  <1>3. /\ {i \in DOMAIN s : WAL!IsEvent(s[i])} = Chosen(s, EventsIn(B))
        /\ {i \in DOMAIN s : ~WAL!IsEvent(s[i])} = Chosen(s, TradesIn(B))
    BY <1>2, Zenon DEF Chosen, EventsIn, TradesIn
  <1> QED
    BY <1>1, <1>3 DEF WAL!EventsOf, WAL!TradesOf, Select

(* They are sequences.                                                     *)
LEMMA PartsSeq ==
  ASSUME NEW s, IsSeq(s)
  PROVE  IsSeq(WAL!EventsOf(s)) /\ IsSeq(WAL!TradesOf(s))
  <1>1. PICK B : s \in Seq(B)
    BY DEF IsSeq
  <1>2. Select(s, EventsIn(B)) \in Seq(B) /\ Select(s, TradesIn(B)) \in Seq(B)
    BY <1>1, SelectType
  <1> QED
    BY <1>1, <1>2, PartsOf DEF IsSeq

(* An empty log has none.                                                  *)
LEMMA PartsEmpty == WAL!EventsOf(<<>>) = <<>> /\ WAL!TradesOf(<<>>) = <<>>
  <1>1. <<>> \in Seq({})
    OBVIOUS
  <1> QED
    BY <1>1, PartsOf, SelectEmpty

(* A record goes to the end of one of them.                                *)
LEMMA PartsAppend ==
  ASSUME NEW s, IsSeq(s), NEW e
  PROVE  /\ WAL!EventsOf(Append(s, e))
              = IF WAL!IsEvent(e) THEN Append(WAL!EventsOf(s), e) ELSE WAL!EventsOf(s)
         /\ WAL!TradesOf(Append(s, e))
              = IF WAL!IsEvent(e) THEN WAL!TradesOf(s) ELSE Append(WAL!TradesOf(s), e)
  <1>1. PICK B : s \in Seq(B) /\ e \in B
    BY AppendSeq
  <1>2. Append(s, e) \in Seq(B)
    BY <1>1
  <1>3. /\ WAL!EventsOf(s) = Select(s, EventsIn(B)) /\ WAL!TradesOf(s) = Select(s, TradesIn(B))
        /\ WAL!EventsOf(Append(s, e)) = Select(Append(s, e), EventsIn(B))
        /\ WAL!TradesOf(Append(s, e)) = Select(Append(s, e), TradesIn(B))
    BY <1>1, <1>2, PartsOf
  <1>4. /\ Select(Append(s, e), EventsIn(B))
             = IF e \in EventsIn(B) THEN Append(Select(s, EventsIn(B)), e) ELSE Select(s, EventsIn(B))
        /\ Select(Append(s, e), TradesIn(B))
             = IF e \in TradesIn(B) THEN Append(Select(s, TradesIn(B)), e) ELSE Select(s, TradesIn(B))
    BY <1>1, SelectAppend
  <1>5. e \in EventsIn(B) <=> WAL!IsEvent(e)
    BY <1>1 DEF EventsIn
  <1>6. e \in TradesIn(B) <=> ~WAL!IsEvent(e)
    BY <1>1 DEF TradesIn
  <1> QED
    BY <1>3, <1>4, <1>5, <1>6

(* What two logs in a row hold.                                            *)
LEMMA PartsConcat ==
  ASSUME NEW s, IsSeq(s), NEW t, IsSeq(t)
  PROVE  /\ WAL!EventsOf(s \o t) = WAL!EventsOf(s) \o WAL!EventsOf(t)
         /\ WAL!TradesOf(s \o t) = WAL!TradesOf(s) \o WAL!TradesOf(t)
  <1>1. PICK B : s \in Seq(B) /\ t \in Seq(B)
    BY CommonSeq
  <1>2. s \o t \in Seq(B)
    BY <1>1
  <1>3. /\ WAL!EventsOf(s) = Select(s, EventsIn(B)) /\ WAL!TradesOf(s) = Select(s, TradesIn(B))
        /\ WAL!EventsOf(t) = Select(t, EventsIn(B)) /\ WAL!TradesOf(t) = Select(t, TradesIn(B))
        /\ WAL!EventsOf(s \o t) = Select(s \o t, EventsIn(B))
        /\ WAL!TradesOf(s \o t) = Select(s \o t, TradesIn(B))
    BY <1>1, <1>2, PartsOf
  <1>4. ASSUME NEW C PROVE Select(s \o t, C) = Select(s, C) \o Select(t, C)
    BY <1>1, SelectConcat
  <1> QED
    BY <1>3, <1>4

------------------------------------------------------------------------------
(* Rising sequences. *)

(* A larger number goes to the end.                                        *)
LEMMA RisingAppend ==
  ASSUME NEW s, IsSeq(s), Rising(s), NEW e, e.seq \in Nat \ {0},
         \A i \in 1..Len(s) : s[i].seq < e.seq
  PROVE  Rising(Append(s, e))
  <1>1. PICK A : s \in Seq(A) /\ e \in A
    BY AppendSeq
  <1> DEFINE t == Append(s, e)
  <1>2. /\ Len(s) \in Nat /\ Len(t) = Len(s) + 1 /\ t[Len(s) + 1] = e
        /\ \A i \in 1..Len(s) : t[i] = s[i]
    BY <1>1
  <1> HIDE DEF t
  <1>3. \A i \in 1..Len(t) : i \in 1..Len(s) \/ i = Len(s) + 1
    BY <1>2
  <1>4. \A i \in 1..Len(t) : t[i].seq \in Nat \ {0}
    BY <1>2, <1>3 DEF Rising
  <1>5. ASSUME NEW i \in 1..Len(t), NEW j \in 1..Len(t), i < j PROVE t[i].seq < t[j].seq
    <2>1. i \in 1..Len(s)
      BY <1>2, <1>5
    <2>2. CASE j \in 1..Len(s)
      BY <1>2, <1>5, <2>1, <2>2 DEF Rising
    <2>3. CASE j = Len(s) + 1
      BY <1>2, <2>1, <2>3
    <2> QED
      BY <1>3, <2>2, <2>3
  <1>6. Rising(t)
    BY <1>4, <1>5 DEF Rising
  <1> QED
    BY <1>6 DEF t

(* Leaving out a part in the middle keeps the order, and adds no row.      *)
LEMMA RisingDrop ==
  ASSUME NEW s, IsSeq(s), NEW g, IsSeq(g), NEW r, IsSeq(r), Rising(s \o (g \o r))
  PROVE  /\ Rising(s \o r)
         /\ \A i \in 1..Len(s \o r) :
              \E j \in 1..Len(s \o (g \o r)) : (s \o r)[i] = (s \o (g \o r))[j]
  <1> DEFINE u == s \o (g \o r)
             v == s \o r
             at(i) == IF i <= Len(s) THEN i ELSE i + Len(g)
  <1>1. PICK A : s \in Seq(A) /\ g \in Seq(A)
    BY CommonSeq
  <1>2. PICK B : r \in Seq(B)
    BY DEF IsSeq
  <1>3. s \in Seq(A \cup B) /\ g \in Seq(A \cup B) /\ r \in Seq(A \cup B)
    BY <1>1, <1>2
  <1>4. /\ Len(s) \in Nat /\ Len(g) \in Nat /\ Len(r) \in Nat
        /\ Len(v) = Len(s) + Len(r) /\ Len(u) = Len(s) + (Len(g) + Len(r))
    BY <1>3
  <1>5. ASSUME NEW i \in 1..Len(v) PROVE at(i) \in 1..Len(u) /\ v[i] = u[at(i)]
    <2>1. CASE i <= Len(s)
      BY <1>3, <1>4, <2>1
    <2>2. CASE ~(i <= Len(s))
      <3>1. v[i] = r[i - Len(s)]
        BY <1>3, <1>4, <2>2
      <3>2. at(i) = i + Len(g) /\ at(i) \in 1..Len(u)
        BY <1>4, <2>2
      <3>3. u[i + Len(g)] = (g \o r)[i + Len(g) - Len(s)]
        BY <1>3, <1>4, <2>2
      <3>4. (g \o r)[i + Len(g) - Len(s)] = r[i - Len(s)]
        BY <1>3, <1>4, <2>2
      <3> QED
        BY <3>1, <3>2, <3>3, <3>4
    <2> QED
      BY <2>1, <2>2
  <1>6. \A i, j \in 1..Len(v) : i < j => at(i) < at(j)
    BY <1>4
  <1>7. Rising(u)
    OBVIOUS
  <1> HIDE DEF u, v, at
  <1>8. Rising(v)
    BY <1>5, <1>6, <1>7 DEF Rising
  <1>9. \A i \in 1..Len(v) : \E j \in 1..Len(u) : v[i] = u[j]
    BY <1>5
  <1> QED
    BY <1>8, <1>9 DEF u, v

------------------------------------------------------------------------------
(* The events that are stored or may still be. *)

Pending == SubSeq(log, settled + 1, Len(log))

Stream == tables.events \o WAL!EventsOf(Pending)

(* The journal object and the tables are sequences.                        *)
Logs == IsSeq(log) /\ settled \in 0..Len(log) /\ IsSeq(tables.events) /\ IsSeq(tables.trades)

(* The rest of a log is one.                                               *)
LEMMA PendingSeq ==
  ASSUME Logs
  PROVE  /\ IsSeq(Pending) /\ IsSeq(WAL!EventsOf(Pending)) /\ IsSeq(WAL!TradesOf(Pending))
         /\ IsSeq(Stream) /\ settled \in Nat /\ Len(log) \in Nat
  <1>1. PICK A : log \in Seq(A)
    BY DEF Logs, IsSeq
  <1>2. Len(log) \in Nat /\ settled \in Nat
    BY <1>1 DEF Logs
  <1>3. Pending \in Seq(A)
    BY <1>1, <1>2 DEF Logs, Pending
  <1>4. IsSeq(Pending)
    BY <1>3 DEF IsSeq
  <1>5. IsSeq(WAL!EventsOf(Pending)) /\ IsSeq(WAL!TradesOf(Pending))
    BY <1>4, PartsSeq
  <1>6. IsSeq(Stream)
    BY <1>5, ConcatSeq DEF Stream, Logs
  <1> QED
    BY <1>2, <1>4, <1>5, <1>6

(* A record that is handed over is the last that is pending.               *)
LEMMA PendingAppend ==
  ASSUME Logs, NEW e, log' = Append(log, e), settled' = settled, tables' = tables
  PROVE  Logs' /\ Pending' = Append(Pending, e)
  <1>1. PICK A : log \in Seq(A) /\ e \in A
    BY AppendSeq DEF Logs
  <1>2. /\ Len(log) \in Nat /\ settled \in 0..Len(log)
        /\ log' \in Seq(A) /\ Len(log') = Len(log) + 1
    BY <1>1 DEF Logs
  <1>3. SubSeq(log', settled + 1, Len(log) + 1) = Append(SubSeq(log, settled + 1, Len(log)), e)
    <2>1. PICK l, k : l = log /\ k = settled
      OBVIOUS
    <2>2. l \in Seq(A) /\ k \in 0..Len(l)
      BY <1>1, <1>2, <2>1
    <2>3. SubSeq(Append(l, e), k + 1, Len(l) + 1) = Append(SubSeq(l, k + 1, Len(l)), e)
      BY <1>1, <2>2, RestAppend
    <2> QED
      BY <2>1, <2>3
  <1>4. Pending' = Append(Pending, e)
    BY <1>2, <1>3 DEF Pending
  <1>5. IsSeq(log') /\ settled' \in 0..Len(log')
    BY <1>2 DEF IsSeq
  <1> QED
    BY <1>4, <1>5 DEF Logs

(* The next n records, and the ones behind them.                           *)
LEMMA PendingSplit ==
  ASSUME Logs, NEW n \in 1..(Len(log) - settled)
  PROVE  /\ IsSeq(SubSeq(log, settled + 1, settled + n))
         /\ IsSeq(SubSeq(log, settled + n + 1, Len(log)))
         /\ Pending = SubSeq(log, settled + 1, settled + n) \o SubSeq(log, settled + n + 1, Len(log))
         /\ settled + n \in 0..Len(log)
  <1>1. PICK A : log \in Seq(A)
    BY DEF Logs, IsSeq
  <1>2. Len(log) \in Nat /\ settled \in Nat /\ n \in Nat /\ settled + n <= Len(log)
    BY <1>1 DEF Logs
  <1>3. SubSeq(log, settled + 1, settled + n) \in Seq(A) /\ SubSeq(log, settled + n + 1, Len(log)) \in Seq(A)
    BY <1>1, <1>2
  <1>4. Pending = SubSeq(log, settled + 1, settled + n) \o SubSeq(log, settled + n + 1, Len(log))
    <2>1. settled \in 0..Len(log) /\ settled + n \in settled..Len(log)
      BY <1>2
    <2> QED
      BY <1>1, <2>1, RestSplit DEF Pending
  <1>5. settled + n \in 0..Len(log)
    BY <1>2
  <1>6. IsSeq(SubSeq(log, settled + 1, settled + n)) /\ IsSeq(SubSeq(log, settled + n + 1, Len(log)))
    BY <1>3, Zenon DEF IsSeq
  <1> QED
    BY <1>4, <1>5, <1>6

(* Nothing is pending in a new journal object.                             *)
LEMMA PendingNone ==
  ASSUME IsSeq(tables.events), log = <<>>, settled = 0
  PROVE  Pending = <<>> /\ Stream = tables.events
  <1>1. Pending = <<>>
    BY DEF Pending
  <1> QED
    BY <1>1, PartsEmpty, ConcatEmpty DEF Stream

(* Events and trades in the order in which they will be stored.            *)
StreamOfTrades == tables.trades \o WAL!TradesOf(Pending)

(* A transaction moves records from the log to the tables.                 *)
LEMMA CommitStream ==
  ASSUME Logs, NEW n \in 1..(Len(log) - settled), WAL!Commit(n)
  PROVE  Logs' /\ Stream' = Stream /\ StreamOfTrades' = StreamOfTrades
  <1> DEFINE g == SubSeq(log, settled + 1, settled + n)
             r == SubSeq(log, settled + n + 1, Len(log))
  <1>1. IsSeq(g) /\ IsSeq(r) /\ Pending = g \o r /\ settled + n \in 0..Len(log)
    BY PendingSplit
  <1>2. /\ log' = log /\ settled' = settled + n
        /\ tables'.events = tables.events \o WAL!EventsOf(g)
        /\ tables'.trades = tables.trades \o WAL!TradesOf(g)
    BY DEF WAL!Commit, WAL!Stored
  <1>3. Pending' = r
    BY <1>2 DEF Pending
  <1> HIDE DEF g, r
  <1>4. /\ IsSeq(WAL!EventsOf(g)) /\ IsSeq(WAL!TradesOf(g))
        /\ IsSeq(WAL!EventsOf(r)) /\ IsSeq(WAL!TradesOf(r))
    BY <1>1, PartsSeq
  <1>5. /\ WAL!EventsOf(Pending) = WAL!EventsOf(g) \o WAL!EventsOf(r)
        /\ WAL!TradesOf(Pending) = WAL!TradesOf(g) \o WAL!TradesOf(r)
    BY <1>1, PartsConcat
  <1>6. Logs'
    BY <1>1, <1>2, <1>4, ConcatSeq DEF Logs
  <1>7. Stream' = Stream
    <2>1. (tables.events \o WAL!EventsOf(g)) \o WAL!EventsOf(r)
            = tables.events \o (WAL!EventsOf(g) \o WAL!EventsOf(r))
      <3>1. PICK a, b, c : a = tables.events /\ b = WAL!EventsOf(g) /\ c = WAL!EventsOf(r)
        OBVIOUS
      <3>2. AreSeqs(a, b, c)
        BY <1>4, <3>1 DEF Logs, AreSeqs
      <3>3. (a \o b) \o c = a \o (b \o c)
        BY <3>2, ConcatAssoc
      <3> QED
        BY <3>1, <3>3
    <2>2. Stream' = (tables.events \o WAL!EventsOf(g)) \o WAL!EventsOf(r)
      BY <1>2, <1>3 DEF Stream
    <2> QED
      BY <1>5, <2>1, <2>2 DEF Stream
  <1>8. StreamOfTrades' = StreamOfTrades
    <2>1. (tables.trades \o WAL!TradesOf(g)) \o WAL!TradesOf(r)
            = tables.trades \o (WAL!TradesOf(g) \o WAL!TradesOf(r))
      <3>1. PICK a, b, c : a = tables.trades /\ b = WAL!TradesOf(g) /\ c = WAL!TradesOf(r)
        OBVIOUS
      <3>2. AreSeqs(a, b, c)
        BY <1>4, <3>1 DEF Logs, AreSeqs
      <3>3. (a \o b) \o c = a \o (b \o c)
        BY <3>2, ConcatAssoc
      <3> QED
        BY <3>1, <3>3
    <2>2. StreamOfTrades' = (tables.trades \o WAL!TradesOf(g)) \o WAL!TradesOf(r)
      BY <1>2, <1>3 DEF StreamOfTrades
    <2> QED
      BY <1>5, <2>1, <2>2 DEF StreamOfTrades
  <1> QED
    BY <1>6, <1>7, <1>8

(* A failed one leaves a gap.                                              *)
LEMMA DropStream ==
  ASSUME Logs, NEW n \in 1..(Len(log) - settled), WAL!Drop(n), Rising(Stream)
  PROVE  /\ Logs' /\ Rising(Stream')
         /\ \A i \in 1..Len(Stream') : \E j \in 1..Len(Stream) : Stream'[i] = Stream[j]
  <1> DEFINE g == SubSeq(log, settled + 1, settled + n)
             r == SubSeq(log, settled + n + 1, Len(log))
  <1>1. IsSeq(g) /\ IsSeq(r) /\ Pending = g \o r /\ settled + n \in 0..Len(log)
    BY PendingSplit
  <1>2. log' = log /\ settled' = settled + n /\ tables' = tables
    BY DEF WAL!Drop
  <1>3. Pending' = r
    BY <1>2 DEF Pending
  <1> HIDE DEF g, r
  <1>4. IsSeq(WAL!EventsOf(g)) /\ IsSeq(WAL!EventsOf(r))
    BY <1>1, PartsSeq
  <1>5. WAL!EventsOf(Pending) = WAL!EventsOf(g) \o WAL!EventsOf(r)
    BY <1>1, PartsConcat
  <1>6. Logs'
    BY <1>1, <1>2 DEF Logs
  <1>7. Stream = tables.events \o (WAL!EventsOf(g) \o WAL!EventsOf(r))
    BY <1>5 DEF Stream
  <1>8. Stream' = tables.events \o WAL!EventsOf(r)
    BY <1>2, <1>3 DEF Stream
  <1>9. /\ Rising(tables.events \o WAL!EventsOf(r))
        /\ \A i \in 1..Len(tables.events \o WAL!EventsOf(r)) :
             \E j \in 1..Len(tables.events \o (WAL!EventsOf(g) \o WAL!EventsOf(r))) :
               (tables.events \o WAL!EventsOf(r))[i]
                 = (tables.events \o (WAL!EventsOf(g) \o WAL!EventsOf(r)))[j]
    <2>1. PICK a, b, c : a = tables.events /\ b = WAL!EventsOf(g) /\ c = WAL!EventsOf(r)
      OBVIOUS
    <2>2. IsSeq(a) /\ IsSeq(b) /\ IsSeq(c) /\ Rising(a \o (b \o c))
      BY <1>4, <1>7, <2>1 DEF Logs
    <2>3. /\ Rising(a \o c)
          /\ \A i \in 1..Len(a \o c) : \E j \in 1..Len(a \o (b \o c)) : (a \o c)[i] = (a \o (b \o c))[j]
      BY <2>2, RisingDrop
    <2> QED
      BY <2>1, <2>3
  <1> QED
    BY <1>6, <1>7, <1>8, <1>9

(* What is stored is in order if it is with what is pending.               *)
LEMMA StoredRising ==
  ASSUME Logs, Rising(Stream)
  PROVE  Rising(tables.events)
  <1>1. PICK a, b, c : a = tables.events /\ b = WAL!EventsOf(Pending) /\ c = <<>>
    OBVIOUS
  <1>2. <<>> \in Seq({})
    OBVIOUS
  <1>3. IsSeq(a) /\ IsSeq(b) /\ IsSeq(c)
    BY <1>1, <1>2, PendingSeq DEF Logs, IsSeq
  <1>4. b \o c = b /\ a \o c = a
    BY <1>1, <1>3, ConcatEmpty
  <1>5. Rising(a \o (b \o c))
    BY <1>1, <1>4 DEF Stream
  <1>6. Rising(a \o c)
    BY <1>3, <1>5, RisingDrop
  <1> QED
    BY <1>1, <1>4, <1>6

(* A process that ends leaves the tables.                                  *)
LEMMA EndStream ==
  ASSUME Logs, ProcessEnds, Rising(Stream)
  PROVE  /\ Logs' /\ Stream' = tables.events /\ Rising(Stream')
         /\ Stream = Stream' \o WAL!EventsOf(Pending)
  <1>1. log' = <<>> /\ settled' = 0 /\ tables' = tables
    BY DEF ProcessEnds
  <1>2. Logs'
    <2>1. <<>> \in Seq({}) /\ 0 \in 0..Len(<<>>)
      OBVIOUS
    <2>2. IsSeq(log') /\ settled' \in 0..Len(log')
      BY <1>1, <2>1 DEF IsSeq
    <2> QED
      BY <1>1, <2>2 DEF Logs
  <1>3. Stream' = tables.events
    <2>1. Pending' = <<>>
      BY <1>1 DEF Pending
    <2> QED
      BY <1>1, <2>1, PartsEmpty, ConcatEmpty DEF Stream, Logs
  <1>4. Rising(tables.events)
    BY StoredRising
  <1> QED
    BY <1>2, <1>3, <1>4 DEF Stream

(* What is appended behind two sequences is appended to the second.        *)
LEMMA ConcatAppend ==
  ASSUME NEW s, IsSeq(s), NEW t, IsSeq(t), NEW e
  PROVE  s \o Append(t, e) = Append(s \o t, e)
  <1>1. PICK A : s \in Seq(A) /\ t \in Seq(A)
    BY CommonSeq
  <1>2. s \in Seq(A \cup {e}) /\ t \in Seq(A \cup {e}) /\ e \in A \cup {e}
    BY <1>1
  <1>3. /\ s \o Append(t, e) \in Seq(A \cup {e}) /\ Append(s \o t, e) \in Seq(A \cup {e})
        /\ Len(s \o Append(t, e)) = Len(Append(s \o t, e))
    BY <1>2
  <1>4. ASSUME NEW i \in 1..Len(s \o Append(t, e))
        PROVE  (s \o Append(t, e))[i] = Append(s \o t, e)[i]
    BY <1>2
  <1> QED
    BY <1>3, <1>4

(* A record that is handed over joins one of the two streams.              *)
LEMMA RecordStream ==
  ASSUME Logs, NEW e, WAL!Record(e)
  PROVE  /\ Logs'
         /\ Stream' = IF WAL!IsEvent(e) THEN Append(Stream, e) ELSE Stream
         /\ StreamOfTrades' = IF WAL!IsEvent(e) THEN StreamOfTrades ELSE Append(StreamOfTrades, e)
  <1>1. log' = Append(log, e) /\ settled' = settled /\ tables' = tables
    BY DEF WAL!Record
  <1>2. Logs' /\ Pending' = Append(Pending, e)
    BY <1>1, PendingAppend
  <1>3. IsSeq(Pending)
    BY PendingSeq
  <1>4. PICK a, b, c, d : /\ a = tables.events /\ b = WAL!EventsOf(Pending)
                          /\ c = tables.trades /\ d = WAL!TradesOf(Pending)
    OBVIOUS
  <1>5. IsSeq(a) /\ IsSeq(b) /\ IsSeq(c) /\ IsSeq(d)
    BY <1>4, PendingSeq DEF Logs
  <1>6. a \o Append(b, e) = Append(a \o b, e) /\ c \o Append(d, e) = Append(c \o d, e)
    BY <1>5, ConcatAppend
  <1>7. /\ WAL!EventsOf(Pending') = IF WAL!IsEvent(e) THEN Append(b, e) ELSE b
        /\ WAL!TradesOf(Pending') = IF WAL!IsEvent(e) THEN d ELSE Append(d, e)
    BY <1>2, <1>3, <1>4, PartsAppend
  <1>8. Stream = a \o b /\ StreamOfTrades = c \o d
    BY <1>4 DEF Stream, StreamOfTrades
  <1>9. Stream' = a \o WAL!EventsOf(Pending') /\ StreamOfTrades' = c \o WAL!TradesOf(Pending')
    BY <1>1, <1>4 DEF Stream, StreamOfTrades
  <1> QED
    BY <1>2, <1>6, <1>7, <1>8, <1>9

------------------------------------------------------------------------------
(* What the engine hands over. *)

(* The largest number in a rising journal.                                 *)
LEMMA MaxSeqRising ==
  ASSUME NEW s, IsSeq(s), Rising(s)
  PROVE  MaxSeq(s) \in Nat /\ \A i \in 1..Len(s) : s[i].seq <= MaxSeq(s)
  <1> DEFINE T == {0} \cup {s[i].seq : i \in DOMAIN s}
             last == IF Len(s) = 0 THEN 0 ELSE s[Len(s)].seq
  <1>1. PICK A : s \in Seq(A)
    BY DEF IsSeq
  <1>2. DOMAIN s = 1..Len(s) /\ Len(s) \in Nat
    BY <1>1
  <1>3. T \subseteq Nat /\ last \in T
    BY <1>2 DEF Rising
  <1>4. ASSUME NEW i \in 1..Len(s) PROVE s[i].seq <= last
    <2>1. Len(s) \in Nat /\ i \in 1..Len(s) /\ Len(s) # 0 /\ Len(s) \in 1..Len(s)
      BY <1>2
    <2>2. i = Len(s) \/ i < Len(s)
      BY <2>1
    <2>3. last = s[Len(s)].seq
      BY <2>1
    <2> HIDE DEF last
    <2> QED
      BY <2>1, <2>2, <2>3 DEF Rising
  <1>5. \A y \in T : last >= y
    BY <1>2, <1>3, <1>4
  <1>6. MaxSeq(s) = Max(T)
    BY DEF MaxSeq
  <1> HIDE DEF T, last
  <1>7. Max(T) \in T /\ \A y \in T : Max(T) >= y
    BY <1>3, <1>5 DEF Max
  <1>8. ASSUME NEW i \in 1..Len(s) PROVE s[i].seq \in T
    BY <1>2 DEF T
  <1>9. Max(T) \in Nat
    BY <1>3, <1>7
  <1>10. ASSUME NEW i \in 1..Len(s) PROVE s[i].seq <= Max(T)
    BY <1>3, <1>7, <1>8
  <1> QED
    BY <1>6, <1>9, <1>10

(* Commands are journaled as events.                                       *)
LEMMA EventIsEvent == ASSUME NEW c, NEW n PROVE WAL!IsEvent(EventOf(c, n))
  BY DEF EventOf, MakeSubmitEvent, MakeCancelEvent, WAL!IsEvent

NoEvents(s) == \A i \in 1..Len(s) : ~WAL!IsEvent(s[i])

(* Trades are not events.                                                  *)
LEMMA TradesAreNoEvents ==
  ASSUME NEW b, IsSeq(b), NEW order
  PROVE  NoEvents(Outcome(b, order).trades)
  <1> DEFINE fills == Fills(b, order)
             filled == {i \in DOMAIN b : fills[i] > 0}
             ranked == [k \in 1..Cardinality(filled) |->
                          CHOOSE i \in filled : Cardinality({j \in filled : Ahead(b, j, i)}) = k - 1]
             trades == Outcome(b, order).trades
  <1>1. PICK A : trades \in Seq(A)
    BY OutcomeSeq DEF IsSeq
  <1>2. DOMAIN trades = 1..Len(trades)
    BY <1>1
  <1>3. trades = [k \in DOMAIN ranked |-> Trade(order.side, order.id, b[ranked[k]].id,
                                                b[ranked[k]].price, fills[ranked[k]])]
    BY DEF Outcome
  <1> HIDE DEF ranked, fills, trades
  <1>4. ASSUME NEW x1, NEW x2, NEW x3, NEW x4, NEW x5 PROVE ~WAL!IsEvent(Trade(x1, x2, x3, x4, x5))
    BY DEF Trade, WAL!IsEvent
  <1>5. ASSUME NEW k \in DOMAIN trades PROVE ~WAL!IsEvent(trades[k])
    BY <1>3, <1>4
  <1> QED
    BY <1>2, <1>5 DEF trades, NoEvents

(* Nothing is a sequence too, and has no events.                           *)
LEMMA NoSeq == IsSeq(<<>>) /\ NoEvents(<<>>)
  <1>1. <<>> \in Seq({}) /\ Len(<<>>) = 0
    OBVIOUS
  <1> QED
    BY <1>1 DEF IsSeq, NoEvents

(* What a command does is a book and trades.                               *)
LEMMA EffectSeq ==
  ASSUME IsSeq(book), NEW c
  PROVE  IsSeq(Effect(c).book) /\ IsSeq(Effect(c).trades) /\ NoEvents(Effect(c).trades)
  <1>1. IsSeq(<<>>) /\ NoEvents(<<>>)
    BY NoSeq
  <1>2. CASE Throws(c)
    <2>1. c.type # "CANCEL"
      BY <1>2 DEF Throws
    <2>2. Effect(c) = [book |-> book, trades |-> <<>>]
      BY <1>2, <2>1 DEF Effect
    <2> QED
      BY <1>1, <2>2
  <1>3. CASE ~Throws(c) /\ c.type = "CANCEL"
    <2>1. Effect(c) = [book |-> Cancelled(book, c.cancelId), trades |-> <<>>]
      BY <1>3 DEF Effect
    <2> QED
      BY <1>1, <2>1, OutcomeSeq
  <1>4. CASE ~Throws(c) /\ c.type # "CANCEL"
    <2>1. Effect(c) = Outcome(book, c.order)
      BY <1>4 DEF Effect
    <2> QED
      BY <2>1, OutcomeSeq, TradesAreNoEvents
  <1> QED
    BY <1>2, <1>3, <1>4

------------------------------------------------------------------------------
(* The first invariant: it holds whatever fails. *)

Running == process \in {"up", "flushing", "stopped"}

Typed ==
  /\ Logs
  /\ process \in {"down", "up", "flushing", "stopped", "failed"}
  /\ thread \in {"pop", "apply", "publish"}
  /\ IsSeq(book) /\ IsSeq(outbox) /\ IsSeq(tradeLog) /\ NoEvents(outbox)
  /\ nextSeq \in Nat \ {0}

(* Who holds what, when.                                                   *)
Control ==
  /\ ~Running => log = <<>> /\ thread = "pop"
  /\ process # "up" => thread = "pop"
  /\ thread # "publish" => outbox = <<>>
  /\ thread = "apply" => cmd \in Command
  /\ process = "stopped" => settled = Len(log)

Below(s, n) == \A i \in 1..Len(s) : s[i].seq < n

(* What is stored and what is on its way rises to the next number.         *)
Keys ==
  /\ Rising(Stream)
  /\ Running => Below(Stream, nextSeq)

KInv == Typed /\ Control /\ Keys

(* The journal is as it was.                                               *)
LEMMA SameStream ==
  ASSUME Logs, UNCHANGED <<log, settled, tables>>
  PROVE  Logs' /\ Stream' = Stream /\ StreamOfTrades' = StreamOfTrades /\ Pending' = Pending
  BY DEF Logs, Stream, StreamOfTrades, Pending

(* A process that does not run has nothing under way.                      *)
LEMMA AtRest ==
  ASSUME KInv, ~Running
  PROVE  /\ Stream = tables.events /\ Rising(tables.events) /\ IsSeq(tables.events)
         /\ LoadAll = tables.events
  <1>1. Logs /\ log = <<>>
    BY DEF KInv, Typed, Control
  <1>2. settled = 0 /\ IsSeq(tables.events)
    BY <1>1 DEF Logs
  <1>3. Stream = tables.events
    BY <1>1, <1>2, PendingNone
  <1>4. Rising(tables.events)
    BY <1>3 DEF KInv, Keys
  <1> QED
    BY <1>2, <1>3, <1>4, LoadAllRising

(* recover().                                                              *)
LEMMA KeepsRecover == ASSUME KInv, Recover PROVE KInv'
  <1>1. ~Running /\ process = "down"
    BY DEF Recover, Running
  <1>2. Stream = tables.events /\ LoadAll = tables.events /\ Rising(tables.events) /\ IsSeq(tables.events)
    BY <1>1, AtRest
  <1>3. UNCHANGED <<log, settled, tables>> /\ UNCHANGED <<thread, cmd, outbox>>
    BY DEF Recover, journal
  <1>4. Logs' /\ Stream' = Stream
    BY <1>3, SameStream DEF KInv, Typed
  <1>5. log' = <<>> /\ thread' = "pop" /\ outbox' = <<>> /\ NoEvents(outbox') /\ IsSeq(outbox')
    BY <1>1, <1>3 DEF KInv, Control, Typed
  <1>6. CASE /\ process' = "up"
             /\ book' = Replay(LoadAll).book
             /\ tradeLog' = Replay(LoadAll).trades
             /\ nextSeq' = RecoveredSeq(LoadAll)
    <2>1. IsSeq(book') /\ IsSeq(tradeLog')
      BY <1>2, <1>6, ReplayState DEF IsState
    <2>2. MaxSeq(tables.events) \in Nat /\ \A i \in 1..Len(tables.events) : tables.events[i].seq <= MaxSeq(tables.events)
      BY <1>2, MaxSeqRising
    <2>3. nextSeq' \in Nat \ {0} /\ nextSeq' = MaxSeq(tables.events) + 1
      BY <1>2, <1>6, <2>2 DEF RecoveredSeq
    <2>4. Below(tables.events, nextSeq')
      BY <1>2, <2>2, <2>3 DEF Below, Rising
    <2>5. Typed'
      BY <1>4, <1>5, <1>6, <2>1, <2>3 DEF Typed
    <2>6. Control'
      BY <1>5, <1>6 DEF Control, Running
    <2>7. Keys'
      BY <1>2, <1>4, <2>4 DEF Keys
    <2> QED
      BY <2>5, <2>6, <2>7 DEF KInv
  <1>7. CASE process' = "failed" /\ UNCHANGED <<book, tradeLog, nextSeq, lived>>
    <2>1. Typed'
      BY <1>4, <1>5, <1>7 DEF Typed, KInv
    <2>2. Control'
      BY <1>5, <1>7 DEF Control, Running
    <2>3. Keys'
      BY <1>2, <1>4, <1>7 DEF Keys, Running
    <2> QED
      BY <2>1, <2>2, <2>3 DEF KInv
  <1> QED
    BY <1>6, <1>7 DEF Recover

(* The end of a process.                                                   *)
LEMMA KeepsEnd == ASSUME KInv, ProcessEnds PROVE KInv'
  <1>1. Logs' /\ Rising(Stream')
    BY EndStream DEF KInv, Typed, Keys
  <1>2. /\ process' = "down" /\ thread' = "pop" /\ book' = <<>> /\ outbox' = <<>>
        /\ tradeLog' = <<>> /\ nextSeq' = 1 /\ log' = <<>>
    BY DEF ProcessEnds
  <1>3. IsSeq(book') /\ IsSeq(outbox') /\ IsSeq(tradeLog') /\ NoEvents(outbox')
    BY <1>2, NoSeq
  <1>4. Typed'
    BY <1>1, <1>2, <1>3 DEF Typed
  <1>5. Control'
    BY <1>2 DEF Control, Running
  <1>6. Keys'
    BY <1>1, <1>2 DEF Keys, Running
  <1> QED
    BY <1>4, <1>5, <1>6 DEF KInv

(* stop().                                                                 *)
LEMMA KeepsStop == ASSUME KInv, Stop \/ StopReturns PROVE KInv'
  <1>1. UNCHANGED <<log, settled, tables>> /\ UNCHANGED <<thread, cmd, book, outbox, tradeLog, nextSeq>>
    BY DEF Stop, StopReturns, journal, WAL!FlushReturns
  <1>2. Logs' /\ Stream' = Stream
    BY <1>1, SameStream DEF KInv, Typed
  <1>3. Running /\ process' \in {"flushing", "stopped"} /\ thread = "pop"
    BY DEF Stop, StopReturns, Running, KInv, Control
  <1>4. process' = "stopped" => settled = Len(log)
    <2> SUFFICES ASSUME process' = "stopped" PROVE settled = Len(log)
      OBVIOUS
    <2>1. StopReturns
      BY DEF Stop
    <2>2. Len(log) <= settled /\ settled \in Nat /\ Len(log) \in Nat /\ settled <= Len(log)
      BY <2>1, PendingSeq DEF StopReturns, WAL!FlushReturns, KInv, Typed, Logs
    <2> QED
      BY <2>2
  <1>5. Typed'
    BY <1>1, <1>2, <1>3 DEF Typed, KInv
  <1>6. Control'
    BY <1>1, <1>3, <1>4 DEF Control, Running, KInv
  <1>7. Keys'
    BY <1>1, <1>2, <1>3 DEF Keys, KInv
  <1> QED
    BY <1>5, <1>6, <1>7 DEF KInv

(* The writer thread.                                                      *)
LEMMA KeepsWriter ==
  ASSUME KInv, NEW n \in 1..(Len(log) - settled), WriterCommits(n) \/ WriterFails(n)
  PROVE  KInv'
  <1>1. /\ UNCHANGED <<process, thread, cmd, book, outbox, tradeLog, nextSeq>> /\ log' = log
        /\ process \in {"up", "flushing"}
    BY DEF WriterCommits, WriterFails, WAL!Commit, WAL!Drop
  <1>2. Logs /\ Rising(Stream) /\ Below(Stream, nextSeq) /\ Running
    BY <1>1 DEF KInv, Typed, Keys, Running
  <1>3. Logs' /\ Rising(Stream') /\ Below(Stream', nextSeq)
    <2>1. CASE WriterCommits(n)
      <3>1. Logs' /\ Stream' = Stream
        BY <1>2, <2>1, CommitStream DEF WriterCommits
      <3> QED
        BY <1>2, <3>1
    <2>2. CASE WriterFails(n)
      <3>1. /\ Logs' /\ Rising(Stream')
            /\ \A i \in 1..Len(Stream') : \E j \in 1..Len(Stream) : Stream'[i] = Stream[j]
        BY <1>2, <2>2, DropStream DEF WriterFails
      <3>2. Below(Stream', nextSeq)
        BY <1>2, <3>1 DEF Below
      <3> QED
        BY <3>1, <3>2
    <2> QED
      BY <2>1, <2>2
  <1>4. Typed'
    BY <1>1, <1>3 DEF KInv, Typed
  <1>5. Control'
    BY <1>1 DEF KInv, Control, Running
  <1>6. Keys'
    BY <1>1, <1>3 DEF Keys
  <1> QED
    BY <1>4, <1>5, <1>6 DEF KInv

(* Write-ahead.                                                            *)
LEMMA KeepsAppend ==
  ASSUME KInv, NEW c \in Command, AppendEvent(c)
  PROVE  KInv' /\ Stream' = Append(Stream, EventOf(c, nextSeq))
  <1> DEFINE ev == EventOf(c, nextSeq)
  <1>1. /\ process = "up" /\ process' = "up" /\ thread' = "apply" /\ cmd' = c /\ nextSeq' = nextSeq + 1
        /\ UNCHANGED <<book, outbox, tradeLog>> /\ thread = "pop"
    BY DEF AppendEvent
  <1>2. WAL!Record(ev)
    BY DEF AppendEvent
  <1>3. ev.seq = nextSeq /\ WAL!IsEvent(ev)
    BY EventSeq, EventIsEvent
  <1> HIDE DEF ev
  <1>4. Logs /\ Rising(Stream) /\ Below(Stream, nextSeq) /\ nextSeq \in Nat \ {0}
    BY <1>1 DEF KInv, Typed, Keys, Running
  <1>5. Logs' /\ Stream' = Append(Stream, ev)
    BY <1>2, <1>3, <1>4, RecordStream
  <1>6. IsSeq(Stream)
    BY <1>4, PendingSeq
  <1>7. Rising(Stream')
    BY <1>3, <1>4, <1>5, <1>6, RisingAppend DEF Below
  <1>8. Below(Stream', nextSeq + 1)
    <2>1. PICK A : Stream \in Seq(A) /\ ev \in A
      BY <1>6, AppendSeq
    <2>2. /\ Len(Stream') = Len(Stream) + 1 /\ Len(Stream) \in Nat /\ Stream'[Len(Stream) + 1] = ev
          /\ \A i \in 1..Len(Stream) : Stream'[i] = Stream[i]
      BY <1>5, <2>1
    <2>3. \A i \in 1..Len(Stream) : Stream[i].seq \in Nat /\ Stream[i].seq < nextSeq
      BY <1>4 DEF Below, Rising
    <2>4. ASSUME NEW i \in 1..Len(Stream') PROVE Stream'[i].seq < nextSeq + 1
      <3>1. i \in 1..Len(Stream) \/ i = Len(Stream) + 1
        BY <2>2
      <3> QED
        BY <1>3, <1>4, <2>2, <2>3, <3>1
    <2> QED
      BY <2>4 DEF Below
  <1>9. Typed'
    BY <1>1, <1>4, <1>5 DEF KInv, Typed
  <1>10. Control'
    BY <1>1 DEF KInv, Control, Running
  <1>11. Keys'
    BY <1>1, <1>7, <1>8 DEF Keys
  <1> QED
    BY <1>5, <1>9, <1>10, <1>11 DEF KInv, ev

(* The command takes effect.                                               *)
LEMMA KeepsApply == ASSUME KInv, Apply PROVE KInv'
  <1>1. /\ process = "up" /\ process' = "up" /\ thread' = "publish" /\ nextSeq' = nextSeq
        /\ book' = Effect(cmd).book /\ outbox' = Effect(cmd).trades /\ tradeLog' = tradeLog
        /\ UNCHANGED <<log, settled, tables>>
    BY DEF Apply, journal
  <1>2. IsSeq(book') /\ IsSeq(outbox') /\ NoEvents(outbox')
    BY <1>1, EffectSeq DEF KInv, Typed
  <1>3. Logs' /\ Stream' = Stream
    BY <1>1, SameStream DEF KInv, Typed
  <1>4. Typed'
    BY <1>1, <1>2, <1>3 DEF KInv, Typed
  <1>5. Control'
    BY <1>1 DEF Control, Running
  <1>6. Keys'
    BY <1>1, <1>3 DEF KInv, Keys, Running
  <1> QED
    BY <1>4, <1>5, <1>6 DEF KInv

(* Publishing.                                                             *)
LEMMA KeepsPublish ==
  ASSUME KInv, PublishTrade
  PROVE  /\ KInv' /\ Stream' = Stream
         /\ StreamOfTrades' = Append(StreamOfTrades, Head(outbox))
  <1>1. /\ process = "up" /\ process' = "up" /\ thread = "publish" /\ thread' = "publish" /\ nextSeq' = nextSeq
        /\ book' = book /\ outbox # <<>> /\ outbox' = Tail(outbox) /\ cmd' = cmd
        /\ tradeLog' = Append(tradeLog, Head(outbox)) /\ WAL!Record(Head(outbox))
    BY DEF PublishTrade
  <1>2. PICK A : outbox \in Seq(A)
    BY DEF KInv, Typed, IsSeq
  <1>3. ~WAL!IsEvent(Head(outbox))
    <2>1. Head(outbox) = outbox[1] /\ 1 \in 1..Len(outbox)
      BY <1>1, <1>2
    <2> QED
      BY <2>1 DEF KInv, Typed, NoEvents
  <1>4. IsSeq(outbox') /\ NoEvents(outbox')
    <2>1. outbox' \in Seq(A) /\ \A i \in 1..Len(outbox') : i + 1 \in 1..Len(outbox) /\ outbox'[i] = outbox[i + 1]
      BY <1>1, <1>2
    <2> QED
      BY <2>1 DEF KInv, Typed, NoEvents, IsSeq
  <1>5. IsSeq(tradeLog')
    BY <1>1, AppendSeq DEF KInv, Typed
  <1>6. Logs' /\ Stream' = Stream /\ StreamOfTrades' = Append(StreamOfTrades, Head(outbox))
    BY <1>1, <1>3, RecordStream DEF KInv, Typed
  <1>7. Typed'
    BY <1>1, <1>4, <1>5, <1>6 DEF KInv, Typed
  <1>8. Control'
    BY <1>1 DEF Control, Running
  <1>9. Keys'
    BY <1>1, <1>6 DEF KInv, Keys, Running
  <1> QED
    BY <1>6, <1>7, <1>8, <1>9 DEF KInv

(* The loop starts over, or nothing happens.                               *)
LEMMA KeepsDone == ASSUME KInv, PublishDone \/ UNCHANGED vars PROVE KInv'
  <1>1. UNCHANGED <<log, settled, tables>>
    BY DEF PublishDone, vars, journal
  <1>2. Logs' /\ Stream' = Stream
    BY <1>1, SameStream DEF KInv, Typed
  <1>3. CASE PublishDone
    <2>1. /\ process = "up" /\ process' = "up" /\ thread' = "pop" /\ outbox = <<>>
          /\ UNCHANGED <<cmd, book, outbox, tradeLog, nextSeq>>
      BY <1>3 DEF PublishDone
    <2>2. Typed'
      BY <1>2, <2>1 DEF KInv, Typed
    <2>3. Control'
      BY <2>1 DEF Control, Running
    <2>4. Keys'
      BY <1>2, <2>1 DEF KInv, Keys, Running
    <2> QED
      BY <2>2, <2>3, <2>4 DEF KInv
  <1>4. CASE UNCHANGED vars
    <2>1. Typed'
      BY <1>2, <1>4 DEF KInv, Typed, vars
    <2>2. Control'
      BY <1>4 DEF KInv, Control, Running, vars
    <2>3. Keys'
      BY <1>2, <1>4 DEF KInv, Keys, Running, vars
    <2> QED
      BY <2>1, <2>2, <2>3 DEF KInv
  <1> QED
    BY <1>3, <1>4

(* The process starts with empty tables.                                   *)
LEMMA KeysInit == Init => KInv
  <1> SUFFICES ASSUME Init PROVE KInv
    OBVIOUS
  <1>1. /\ process = "down" /\ thread = "pop" /\ book = <<>> /\ outbox = <<>> /\ tradeLog = <<>> /\ nextSeq = 1
        /\ tables.events = <<>> /\ tables.trades = <<>> /\ log = <<>> /\ settled = 0
    BY DEF Init, WAL!Init
  <1>2. Logs
    BY <1>1, NoSeq DEF Logs
  <1>3. Stream = <<>>
    BY <1>1, <1>2, PendingNone DEF Logs
  <1>4. Typed
    BY <1>1, <1>2, NoSeq DEF Typed
  <1>5. Control
    BY <1>1 DEF Control, Running
  <1>6. Rising(Stream)
    <2>1. Len(Stream) = 0
      BY <1>3
    <2> QED
      BY <2>1 DEF Rising
  <1> QED
    BY <1>1, <1>4, <1>5, <1>6 DEF KInv, Keys, Running

(* What the first invariant says holds of the code in every state.         *)
THEOREM KeyInvariance == Spec => []KInv
  <1>1. KInv /\ [Next]_vars => KInv'
    BY KeepsRecover, KeepsEnd, KeepsStop, KeepsWriter, KeepsAppend, KeepsApply, KeepsPublish, KeepsDone
       DEF Next, Crash, Shutdown, ApplyThrows
  <1> QED
    BY <1>1, KeysInit, PTL DEF Spec

(* No sequence number is used twice, after any crashes, dropped batches    *)
(* and recoveries: recover() numbers on from the largest stored.           *)
THEOREM NoCollision == Spec => []KeysNeverCollide
  <1>1. KInv => KeysNeverCollide
    <2> SUFFICES ASSUME KInv PROVE KeysNeverCollide
      OBVIOUS
    <2>1. PICK a, b : a = tables.events /\ b = WAL!EventsOf(Pending)
      OBVIOUS
    <2>2. IsSeq(a) /\ IsSeq(b) /\ Rising(a \o b)
      BY <2>1, PendingSeq DEF KInv, Typed, Keys, Logs, Stream
    <2>3. PICK A : a \in Seq(A) /\ b \in Seq(A)
      BY <2>2, CommonSeq
    <2>4. /\ DOMAIN a = 1..Len(a) /\ DOMAIN b = 1..Len(b) /\ Len(a) \in Nat /\ Len(b) \in Nat
          /\ Len(a \o b) = Len(a) + Len(b)
          /\ \A i \in 1..Len(a) : (a \o b)[i] = a[i]
          /\ \A i \in 1..Len(b) : (a \o b)[Len(a) + i] = b[i]
      BY <2>3
    <2>5. ASSUME NEW i \in DOMAIN b, NEW j \in DOMAIN a PROVE b[i].seq # a[j].seq
      <3>1. j \in 1..Len(a \o b) /\ Len(a) + i \in 1..Len(a \o b) /\ j < Len(a) + i
        BY <2>4
      <3>2. (a \o b)[j].seq < (a \o b)[Len(a) + i].seq /\ (a \o b)[j].seq \in Nat /\ (a \o b)[Len(a) + i].seq \in Nat
        BY <2>2, <3>1 DEF Rising
      <3> QED
        BY <2>4, <3>2
    <2>6. ASSUME NEW i \in DOMAIN b, NEW j \in DOMAIN b, i < j PROVE b[i].seq # b[j].seq
      <3>1. Len(a) + i \in 1..Len(a \o b) /\ Len(a) + j \in 1..Len(a \o b) /\ Len(a) + i < Len(a) + j
        BY <2>4, <2>6
      <3>2. /\ (a \o b)[Len(a) + i].seq < (a \o b)[Len(a) + j].seq
            /\ (a \o b)[Len(a) + i].seq \in Nat /\ (a \o b)[Len(a) + j].seq \in Nat
        BY <2>2, <3>1 DEF Rising
      <3> QED
        BY <2>4, <3>2
    <2>7. ASSUME NEW i \in DOMAIN b, NEW j \in DOMAIN b, i # j PROVE b[i].seq # b[j].seq
      <3>1. i < j \/ j < i
        BY <2>4, <2>7
      <3> QED
        BY <2>6, <3>1
    <2>8. WAL!KeysFree(a, b)
      BY <2>5, <2>7 DEF WAL!KeysFree
    <2>9. process \in {"up", "flushing"} => \A i \in DOMAIN a : a[i].seq < nextSeq
      <3>1. Running => Below(a \o b, nextSeq)
        BY <2>1 DEF KInv, Keys, Stream
      <3>2. \A i \in 1..Len(a) : i \in 1..Len(a \o b)
        BY <2>4
      <3> QED
        BY <2>4, <3>1, <3>2 DEF Running, Below
    <2> QED
      BY <2>1, <2>8, <2>9 DEF KeysNeverCollide, Pending
  <1> QED
    BY <1>1, KeyInvariance, PTL

------------------------------------------------------------------------------
(* The second invariant: as long as nothing was dropped, what the engine   *)
(* holds is what replaying its journal gives. *)

(* The state after the events of s, as `lived` keeps it.                   *)
PastOf(s) == [book |-> Replay(s).book, trades |-> Replay(s).trades]

(* l remembers the state after each of the events of s.                    *)
History(s, l) ==
  /\ \A i \in 1..Len(s) : s[i].seq = i
  /\ IsSeq(l) /\ Len(s) < Len(l)
  /\ \A n \in 0..Len(s) : l[n + 1] = PastOf(SubSeq(s, 1, n))

(* One more event, and the state it leads to.                              *)
LEMMA HistoryAppend ==
  ASSUME NEW s, IsSeq(s), NEW l, History(s, l), Len(l) = Len(s) + 1,
         NEW e, e.seq = Len(s) + 1, NEW x, x = PastOf(Append(s, e))
  PROVE  History(Append(s, e), Append(l, x)) /\ Len(Append(l, x)) = Len(l) + 1
  <1> DEFINE t == Append(s, e)
             m == Append(l, x)
  <1>1. PICK A : s \in Seq(A) /\ e \in A
    BY AppendSeq
  <1>2. PICK B : l \in Seq(B) /\ x \in B
    BY AppendSeq DEF History
  <1>3. /\ Len(s) \in Nat /\ Len(t) = Len(s) + 1 /\ t[Len(s) + 1] = e /\ t \in Seq(A)
        /\ \A i \in 1..Len(s) : t[i] = s[i]
        /\ SubSeq(t, 1, Len(s) + 1) = t
        /\ \A n \in 0..Len(s) : SubSeq(t, 1, n) = SubSeq(s, 1, n)
    BY <1>1
  <1>4. /\ Len(m) = Len(l) + 1 /\ m[Len(l) + 1] = x /\ m \in Seq(B)
        /\ \A i \in 1..Len(l) : m[i] = l[i]
    BY <1>2
  <1>5. x = PastOf(t)
    OBVIOUS
  <1> HIDE DEF t, m
  <1>6. \A i \in 1..Len(t) : t[i].seq = i
    <2>1. ASSUME NEW i \in 1..Len(t) PROVE t[i].seq = i
      <3>1. i \in 1..Len(s) \/ i = Len(s) + 1
        BY <1>3
      <3> QED
        BY <1>3, <3>1 DEF History
    <2> QED
      BY <2>1
  <1>7. IsSeq(m) /\ Len(t) < Len(m)
    BY <1>3, <1>4 DEF IsSeq
  <1>8. ASSUME NEW n \in 0..Len(t) PROVE m[n + 1] = PastOf(SubSeq(t, 1, n))
    <2>1. CASE n \in 0..Len(s)
      <3>1. m[n + 1] = l[n + 1] /\ l[n + 1] = PastOf(SubSeq(s, 1, n))
        BY <1>3, <1>4, <2>1 DEF History
      <3> QED
        BY <1>3, <2>1, <3>1
    <2>2. CASE n = Len(s) + 1
      <3>1. m[n + 1] = x
        BY <1>4, <2>2
      <3> QED
        BY <1>3, <1>5, <2>2, <3>1
    <2> QED
      BY <1>3, <2>1, <2>2
  <1>9. History(t, m)
    BY <1>6, <1>7, <1>8 DEF History
  <1> QED
    BY <1>4, <1>9 DEF t, m

(* Fewer events are remembered too.                                        *)
LEMMA HistoryPrefix ==
  ASSUME NEW s, IsSeq(s), NEW t, IsSeq(t), NEW l, History(s \o t, l)
  PROVE  History(s, l)
  <1>1. PICK A : s \in Seq(A) /\ t \in Seq(A)
    BY CommonSeq
  <1> DEFINE u == s \o t
  <1>2. PICK B : l \in Seq(B)
    BY DEF IsSeq, History
  <1>3. /\ Len(u) = Len(s) + Len(t) /\ Len(s) \in Nat /\ Len(t) \in Nat /\ Len(l) \in Nat
        /\ \A i \in 1..Len(s) : u[i] = s[i]
        /\ \A n \in 0..Len(s) : SubSeq(u, 1, n) = SubSeq(s, 1, n)
    BY <1>1, <1>2
  <1>4. History(u, l)
    OBVIOUS
  <1> HIDE DEF u
  <1>5. \A i \in 1..Len(s) : s[i].seq = i
    BY <1>3, <1>4 DEF History
  <1>6. Len(s) < Len(l) /\ IsSeq(l)
    BY <1>3, <1>4 DEF History
  <1>7. ASSUME NEW n \in 0..Len(s) PROVE l[n + 1] = PastOf(SubSeq(s, 1, n))
    <2>1. n \in 0..Len(u)
      BY <1>3
    <2>2. l[n + 1] = PastOf(SubSeq(u, 1, n))
      BY <1>4, <2>1 DEF History
    <2> QED
      BY <1>3, <2>2
  <1> QED
    BY <1>5, <1>6, <1>7 DEF History

(* What lies behind the last event can be forgotten.                       *)
LEMMA HistoryCut ==
  ASSUME NEW s, IsSeq(s), NEW l, History(s, l)
  PROVE  History(s, SubSeq(l, 1, Len(s) + 1)) /\ Len(SubSeq(l, 1, Len(s) + 1)) = Len(s) + 1
  <1> DEFINE m == SubSeq(l, 1, Len(s) + 1)
  <1>1. Len(s) \in Nat
    BY DEF IsSeq
  <1>2. PICK B : l \in Seq(B)
    BY DEF IsSeq, History
  <1>3. Len(s) < Len(l)
    BY DEF History
  <1>4. m \in Seq(B) /\ Len(m) = Len(s) + 1 /\ \A i \in 1..(Len(s) + 1) : m[i] = l[i]
    BY <1>1, <1>2, <1>3
  <1> HIDE DEF m
  <1>5. ASSUME NEW n \in 0..Len(s) PROVE m[n + 1] = PastOf(SubSeq(s, 1, n))
    <2>1. n + 1 \in 1..(Len(s) + 1)
      BY <1>1
    <2>2. m[n + 1] = l[n + 1]
      BY <1>4, <2>1
    <2> QED
      BY <2>2 DEF History
  <1>6. IsSeq(m) /\ Len(s) < Len(m)
    BY <1>1, <1>4 DEF IsSeq
  <1>7. History(s, m)
    BY <1>5, <1>6 DEF History
  <1> QED
    BY <1>4, <1>7 DEF m

(* Replaying an event does what the command did.                           *)
LEMMA ReplayedEffect ==
  ASSUME IsSeq(book), NEW c \in Command, NEW trades, IsSeq(trades), NEW n
  PROVE  Replayed([book |-> book, trades |-> trades, throws |-> FALSE], EventOf(c, n))
           = [book |-> Effect(c).book, trades |-> trades \o Effect(c).trades, throws |-> Throws(c)]
  <1> DEFINE state == [book |-> book, trades |-> trades, throws |-> FALSE]
  <1>1. trades \o <<>> = trades
    BY ConcatEmpty
  <1>2. CASE \E order \in Order : c = Submit(order)
    <2>1. PICK order \in Order : c = Submit(order)
      BY <1>2
    <2>2. IsOrder(order)
      BY DurableAssumption DEF IsOrder
    <2>3. c.type = "SUBMIT" /\ c.order = order
      BY <2>1 DEF Submit
    <2>4. CASE Throws(c)
      <3>1. order.id \in Active(book)
        BY <2>3, <2>4 DEF Throws
      <3>2. Effect(c) = [book |-> book, trades |-> <<>>]
        BY <2>3, <2>4 DEF Effect
      <3>3. Throws(c) = TRUE
        BY <2>4 DEF Throws
      <3>4. Replayed(state, EventOf(Submit(order), n)) = [book |-> book, trades |-> trades, throws |-> TRUE]
        BY <3>1, ReplayedThrow
      <3>5. Effect(c).book = book /\ Effect(c).trades = <<>>
        BY <3>2
      <3> HIDE DEF state
      <3> QED
        BY <1>1, <2>1, <3>3, <3>4, <3>5 DEF state
    <2>5. CASE ~Throws(c)
      <3>1. order.id \notin Active(book)
        BY <2>3, <2>5 DEF Throws
      <3>2. Effect(c) = Outcome(book, order)
        BY <2>3, <2>5 DEF Effect
      <3>3. Throws(c) = FALSE
        BY <2>5 DEF Throws
      <3>4. Replayed(state, EventOf(Submit(order), n))
              = [book |-> Outcome(book, order).book, trades |-> trades \o Outcome(book, order).trades,
                 throws |-> FALSE]
        BY <2>2, <3>1, ReplayedSubmit
      <3> HIDE DEF state
      <3> QED
        BY <2>1, <3>2, <3>3, <3>4 DEF state
    <2> QED
      BY <2>4, <2>5
  <1>3. CASE \E order \in Order : c = Cancel(order.id)
    <2>1. PICK order \in Order : c = Cancel(order.id)
      BY <1>3
    <2>2. c.type = "CANCEL" /\ c.cancelId = order.id
      BY <2>1 DEF Cancel
    <2>3. Throws(c) = FALSE
      BY <2>2 DEF Throws
    <2>4. Effect(c) = [book |-> Cancelled(book, order.id), trades |-> <<>>]
      BY <2>2, <2>3 DEF Effect
    <2>5. Replayed(state, EventOf(Cancel(order.id), n))
            = [book |-> Cancelled(book, order.id), trades |-> trades, throws |-> FALSE]
      <3>1. PICK id : id = order.id
        OBVIOUS
      <3>2. Replayed(state, EventOf(Cancel(id), n))
              = [book |-> Cancelled(book, id), trades |-> trades, throws |-> FALSE]
        BY ReplayedCancel
      <3> QED
        BY <3>1, <3>2, Zenon
    <2>6. Effect(c).book = Cancelled(book, order.id) /\ Effect(c).trades = <<>>
      BY <2>4
    <2> HIDE DEF state
    <2> QED
      BY <1>1, <2>1, <2>3, <2>5, <2>6 DEF state
  <1> QED
    BY <1>2, <1>3 DEF Command

(* The events whose command has taken effect.                              *)
Applied == IF thread = "apply" THEN SubSeq(Stream, 1, Len(Stream) - 1) ELSE Stream

(* What the running engine holds.                                          *)
Present ==
  /\ nextSeq = Len(Stream) + 1 /\ Len(lived) = Len(Stream) + 1
  /\ Replay(Applied) = [book |-> book, trades |-> tradeLog \o outbox, throws |-> FALSE]
  /\ thread = "apply" => Len(Stream) > 0 /\ Stream[Len(Stream)] = EventOf(cmd, Len(Stream))

Faithful == ~dropped => History(Stream, lived) /\ (Running => Present)

(* recover() finds the state after the events that are stored.             *)
LEMMA FaithfulRecover == ASSUME KInv, Faithful, Recover PROVE Faithful'
  <1> SUFFICES ASSUME ~dropped PROVE History(Stream', lived') /\ (Running' => Present')
    BY DEF Faithful, Recover, journal
  <1>1. ~Running /\ process = "down"
    BY DEF Recover, Running
  <1>2. Stream = tables.events /\ LoadAll = tables.events /\ Rising(tables.events) /\ IsSeq(tables.events)
    BY <1>1, AtRest
  <1>3. UNCHANGED <<log, settled, tables>> /\ UNCHANGED <<thread, cmd, outbox>>
    BY DEF Recover, journal
  <1>4. Stream' = Stream
    BY <1>3, SameStream DEF KInv, Typed
  <1>5. thread' = "pop" /\ outbox' = <<>>
    BY <1>1, <1>3 DEF KInv, Control
  <1>6. PICK s : s = tables.events
    OBVIOUS
  <1>7. History(s, lived) /\ IsSeq(s) /\ Stream' = s /\ LoadAll = s
    BY <1>2, <1>4, <1>6 DEF Faithful
  <1>8. CASE /\ process' = "up" /\ ~Replay(LoadAll).throws
             /\ book' = Replay(LoadAll).book
             /\ tradeLog' = Replay(LoadAll).trades
             /\ nextSeq' = RecoveredSeq(LoadAll)
             /\ lived' = SubSeq(lived, 1, nextSeq')
    <2>1. MaxSeq(s) = Len(s)
      <3>1. PICK A : s \in Seq(A)
        BY <1>7 DEF IsSeq
      <3>2. \A i \in 1..Len(s) : s[i].seq = i
        BY <1>7 DEF History
      <3> QED
        BY <3>1, <3>2, MaxSeqIsLength
    <2>2. nextSeq' = Len(s) + 1
      BY <1>7, <1>8, <2>1 DEF RecoveredSeq
    <2>3. lived' = SubSeq(lived, 1, Len(s) + 1)
      BY <1>8, <2>2
    <2>4. History(s, lived') /\ Len(lived') = Len(s) + 1
      <3>1. PICK l : l = lived
        OBVIOUS
      <3>2. History(s, SubSeq(l, 1, Len(s) + 1)) /\ Len(SubSeq(l, 1, Len(s) + 1)) = Len(s) + 1
        BY <1>7, <3>1, HistoryCut
      <3> QED
        BY <2>3, <3>1, <3>2
    <2>5. IsState(Replay(s))
      BY <1>7, ReplayState
    <2>6. Replay(s) = [book |-> book', trades |-> tradeLog', throws |-> FALSE]
      <3>1. Replay(s).throws = FALSE
        BY <1>7, <1>8, <2>5 DEF IsState
      <3>2. book' = Replay(s).book /\ tradeLog' = Replay(s).trades
        BY <1>7, <1>8
      <3> QED
        BY <2>5, <3>1, <3>2, Zenon DEF IsState
    <2>7. tradeLog' \o outbox' = tradeLog'
      <3>1. PICK t : t = Replay(s).trades
        OBVIOUS
      <3>2. IsSeq(t) /\ tradeLog' = t
        BY <1>7, <1>8, <2>5, <3>1 DEF IsState
      <3>3. t \o <<>> = t
        BY <3>2, ConcatEmpty
      <3> QED
        BY <1>5, <3>2, <3>3
    <2>8. Applied' = s
      BY <1>5, <1>7 DEF Applied
    <2>9. Present'
      BY <1>5, <1>7, <2>2, <2>4, <2>6, <2>7, <2>8 DEF Present
    <2> QED
      BY <1>7, <2>4, <2>9
  <1>9. CASE process' = "failed" /\ UNCHANGED <<book, tradeLog, nextSeq, lived>>
    BY <1>7, <1>9 DEF Running
  <1> QED
    BY <1>8, <1>9 DEF Recover

(* What is stored when a process ends is a part of what was handed over.   *)
LEMMA FaithfulEnd == ASSUME KInv, Faithful, ProcessEnds PROVE Faithful'
  <1> SUFFICES ASSUME ~dropped PROVE History(Stream', lived') /\ ~Running'
    BY DEF Faithful, ProcessEnds
  <1>1. Logs' /\ Stream = Stream' \o WAL!EventsOf(Pending)
    BY EndStream DEF KInv, Typed, Keys
  <1>2. PICK a, b, l : a = Stream' /\ b = WAL!EventsOf(Pending) /\ l = lived
    OBVIOUS
  <1>3. IsSeq(a)
    <2>1. Stream' = tables.events /\ IsSeq(tables.events)
      BY EndStream DEF KInv, Typed, Keys, Logs
    <2> QED
      BY <1>2, <2>1
  <1>4. IsSeq(b)
    BY <1>2, PendingSeq DEF KInv, Typed
  <1>5. History(a \o b, l)
    BY <1>1, <1>2 DEF Faithful
  <1>6. History(a, l)
    BY <1>3, <1>4, <1>5, HistoryPrefix
  <1>7. lived' = lived /\ process' = "down"
    BY DEF ProcessEnds
  <1> QED
    BY <1>2, <1>6, <1>7 DEF Running

(* Steps that leave the engine's own state alone.                          *)
LEMMA FaithfulSame ==
  ASSUME KInv, Faithful, Stream' = Stream,
         UNCHANGED <<thread, cmd, book, outbox, tradeLog, nextSeq, dropped, lived>>,
         Running' => Running
  PROVE  Faithful'
  <1>1. Applied' = Applied
    BY DEF Applied
  <1> QED
    BY <1>1 DEF Faithful, Present

(* Write-ahead: the state to come is remembered.                           *)
LEMMA FaithfulAppend ==
  ASSUME KInv, Faithful, NEW c \in Command, AppendEvent(c)
  PROVE  Faithful'
  <1> SUFFICES ASSUME ~dropped PROVE History(Stream', lived') /\ Present'
    BY DEF Faithful, AppendEvent
  <1>1. /\ process = "up" /\ thread = "pop" /\ thread' = "apply" /\ cmd' = c /\ nextSeq' = nextSeq + 1
        /\ UNCHANGED <<book, outbox, tradeLog>>
        /\ lived' = Append(lived, [book |-> Effect(c).book, trades |-> tradeLog \o Effect(c).trades])
    BY DEF AppendEvent
  <1>2. /\ outbox = <<>> /\ Running /\ IsSeq(book) /\ IsSeq(tradeLog) /\ IsSeq(Stream)
    BY <1>1, PendingSeq DEF KInv, Control, Typed, Running
  <1>3. History(Stream, lived) /\ Present /\ Applied = Stream
    BY <1>1, <1>2 DEF Faithful, Applied
  <1>4. PICK s, l, ev, t : s = Stream /\ l = lived /\ ev = EventOf(c, nextSeq) /\ t = tradeLog
    OBVIOUS
  <1>5. Stream' = Append(s, ev)
    BY <1>4, KeepsAppend
  <1>6. PICK A : s \in Seq(A) /\ ev \in A
    BY <1>2, <1>4, AppendSeq
  <1>7. Len(s) \in Nat /\ nextSeq = Len(s) + 1 /\ Len(l) = Len(s) + 1 /\ ev.seq = Len(s) + 1
    BY <1>3, <1>4, <1>6, EventSeq DEF Present
  <1>8. Replay(s) = [book |-> book, trades |-> t, throws |-> FALSE]
    <2>1. t \o <<>> = t
      BY <1>2, <1>4, ConcatEmpty
    <2> QED
      BY <1>2, <1>3, <1>4, <2>1 DEF Present
  <1>9. PastOf(Append(s, ev)) = [book |-> Effect(c).book, trades |-> t \o Effect(c).trades]
    <2>1. Replay(Append(s, ev)) = Replayed(Replay(s), ev)
      BY <1>6, ReplayAppend
    <2>2. IsSeq(t)
      BY <1>2, <1>4
    <2>3. Replayed([book |-> book, trades |-> t, throws |-> FALSE], EventOf(c, nextSeq))
            = [book |-> Effect(c).book, trades |-> t \o Effect(c).trades, throws |-> Throws(c)]
      BY <1>2, <2>2, ReplayedEffect
    <2>4. Replay(Append(s, ev))
            = [book |-> Effect(c).book, trades |-> t \o Effect(c).trades, throws |-> Throws(c)]
      BY <1>4, <1>8, <2>1, <2>3
    <2>5. /\ Replay(Append(s, ev)).book = Effect(c).book
          /\ Replay(Append(s, ev)).trades = t \o Effect(c).trades
      BY <2>4
    <2> QED
      BY <2>5 DEF PastOf
  <1>10. PICK x : x = PastOf(Append(s, ev))
    OBVIOUS
  <1>11. lived' = Append(l, x)
    BY <1>1, <1>4, <1>9, <1>10
  <1>12. History(Append(s, ev), Append(l, x)) /\ Len(Append(l, x)) = Len(l) + 1
    BY <1>2, <1>3, <1>4, <1>7, <1>10, HistoryAppend
  <1>13. /\ Len(Append(s, ev)) = Len(s) + 1 /\ Append(s, ev)[Len(s) + 1] = ev
         /\ SubSeq(Append(s, ev), 1, Len(s)) = s /\ Len(s) + 1 - 1 = Len(s)
    BY <1>6
  <1>14. Applied' = s
    BY <1>1, <1>5, <1>13 DEF Applied
  <1>15. tradeLog' \o outbox' = t
    <2>1. t \o <<>> = t
      BY <1>2, <1>4, ConcatEmpty
    <2> QED
      BY <1>1, <1>2, <1>4, <2>1
  <1>16. nextSeq' = Len(Stream') + 1 /\ Len(lived') = Len(Stream') + 1 /\ Len(Stream') = nextSeq
    BY <1>1, <1>5, <1>7, <1>11, <1>12, <1>13
  <1>17. Stream'[Len(Stream')] = EventOf(cmd', Len(Stream')) /\ Len(Stream') > 0
    BY <1>1, <1>4, <1>5, <1>7, <1>13, <1>16
  <1>18. Present'
    BY <1>1, <1>8, <1>14, <1>15, <1>16, <1>17 DEF Present
  <1> QED
    BY <1>5, <1>11, <1>12, <1>18

(* The command has the effect its event will have.                         *)
LEMMA FaithfulApply == ASSUME KInv, Faithful, Apply PROVE Faithful'
  <1> SUFFICES ASSUME ~dropped PROVE History(Stream', lived') /\ Present'
    BY DEF Faithful, Apply, journal
  <1>1. /\ process = "up" /\ thread = "apply" /\ thread' = "publish" /\ nextSeq' = nextSeq /\ ~Throws(cmd)
        /\ book' = Effect(cmd).book /\ outbox' = Effect(cmd).trades /\ tradeLog' = tradeLog /\ lived' = lived
        /\ UNCHANGED <<log, settled, tables>>
    BY DEF Apply, journal
  <1>2. Stream' = Stream
    BY <1>1, SameStream DEF KInv, Typed
  <1>3. /\ outbox = <<>> /\ Running /\ IsSeq(book) /\ IsSeq(tradeLog) /\ IsSeq(Stream) /\ cmd \in Command
    BY <1>1, PendingSeq DEF KInv, Control, Typed, Running
  <1>4. History(Stream, lived) /\ Present
    BY <1>3 DEF Faithful
  <1>5. PICK s, t, c : s = Stream /\ t = tradeLog /\ c = cmd
    OBVIOUS
  <1>6. PICK A : s \in Seq(A)
    BY <1>3, <1>5 DEF IsSeq
  <1>7. Len(s) > 0 /\ s[Len(s)] = EventOf(c, Len(s)) /\ Len(s) \in Nat
    BY <1>1, <1>4, <1>5, <1>6 DEF Present
  <1> DEFINE before == SubSeq(s, 1, Len(s) - 1)
  <1>8. before \in Seq(A) /\ s[Len(s)] \in A /\ s = Append(before, s[Len(s)])
    BY <1>6, <1>7
  <1> HIDE DEF before
  <1>9. t \o <<>> = t /\ IsSeq(t)
    BY <1>3, <1>5, ConcatEmpty
  <1>10. Replay(before) = [book |-> book, trades |-> t, throws |-> FALSE]
    <2>1. Applied = before
      BY <1>1, <1>5 DEF Applied, before
    <2> QED
      BY <1>3, <1>4, <1>5, <1>9, <2>1 DEF Present
  <1>11. Replay(Append(before, s[Len(s)])) = Replayed(Replay(before), s[Len(s)])
    BY <1>8, ReplayAppend
  <1>12. Replayed([book |-> book, trades |-> t, throws |-> FALSE], EventOf(c, Len(s)))
           = [book |-> Effect(c).book, trades |-> t \o Effect(c).trades, throws |-> Throws(c)]
    BY <1>3, <1>5, <1>9, ReplayedEffect
  <1>13. Throws(c) = FALSE
    BY <1>1, <1>5 DEF Throws
  <1>14. Replay(s) = [book |-> Effect(c).book, trades |-> t \o Effect(c).trades, throws |-> FALSE]
    BY <1>7, <1>8, <1>10, <1>11, <1>12, <1>13
  <1>15. Replay(s) = [book |-> book', trades |-> tradeLog' \o outbox', throws |-> FALSE]
    BY <1>1, <1>5, <1>14
  <1>16. Applied' = s
    BY <1>1, <1>2, <1>5 DEF Applied
  <1>17. Present'
    BY <1>1, <1>2, <1>4, <1>15, <1>16 DEF Present
  <1> QED
    BY <1>1, <1>2, <1>4, <1>17

(* A trade moves from what is to be published to the log.                  *)
LEMMA FaithfulPublish == ASSUME KInv, Faithful, PublishTrade PROVE Faithful'
  <1> SUFFICES ASSUME ~dropped PROVE History(Stream', lived') /\ Present'
    BY DEF Faithful, PublishTrade
  <1>1. /\ process = "up" /\ thread = "publish" /\ thread' = "publish" /\ nextSeq' = nextSeq
        /\ book' = book /\ outbox # <<>> /\ outbox' = Tail(outbox) /\ lived' = lived
        /\ tradeLog' = Append(tradeLog, Head(outbox))
    BY DEF PublishTrade
  <1>2. Stream' = Stream
    BY KeepsPublish
  <1>3. PICK t, o : t = tradeLog /\ o = outbox
    OBVIOUS
  <1>4. IsSeq(t) /\ IsSeq(o) /\ o # <<>>
    BY <1>1, <1>3 DEF KInv, Typed
  <1>5. PICK A : t \in Seq(A) /\ o \in Seq(A)
    BY <1>4, CommonSeq
  <1>6. Append(t, Head(o)) \o Tail(o) = t \o o
    <2>1. Head(o) \in A /\ Tail(o) \in Seq(A) /\ o = <<Head(o)>> \o Tail(o) /\ <<Head(o)>> \in Seq(A)
      BY <1>4, <1>5
    <2>2. Append(t, Head(o)) = t \o <<Head(o)>>
      BY <1>5, <2>1
    <2>3. (t \o <<Head(o)>>) \o Tail(o) = t \o (<<Head(o)>> \o Tail(o))
      BY <1>5, <2>1, ConcatAssociative
    <2> QED
      BY <2>1, <2>2, <2>3
  <1>7. tradeLog' \o outbox' = tradeLog \o outbox
    BY <1>1, <1>3, <1>6
  <1>8. History(Stream, lived) /\ Present
    BY <1>1 DEF Faithful, Running
  <1>9. Applied' = Applied
    BY <1>1, <1>2 DEF Applied
  <1>10. Present'
    BY <1>1, <1>2, <1>7, <1>8, <1>9 DEF Present
  <1> QED
    BY <1>1, <1>2, <1>8, <1>10

(* Empty tables remember the fresh engine.                                 *)
LEMMA FaithfulInit == Init => Faithful
  <1> SUFFICES ASSUME Init PROVE Faithful
    OBVIOUS
  <1>1. process = "down" /\ lived = <<Fresh>> /\ tables.events = <<>> /\ log = <<>> /\ settled = 0
    BY DEF Init, WAL!Init
  <1>2. Stream = <<>>
    BY <1>1, NoSeq, PendingNone
  <1>3. Len(<<>>) = 0 /\ <<Fresh>> \in Seq({Fresh}) /\ Len(<<Fresh>>) = 1 /\ <<Fresh>>[1] = Fresh
    OBVIOUS
  <1>4. PastOf(<<>>) = Fresh
    <2>1. Nothing.book = <<>> /\ Nothing.trades = <<>>
      BY Zenon DEF Nothing
    <2>2. PastOf(<<>>) = [book |-> Nothing.book, trades |-> Nothing.trades]
      BY ReplayNothing, Zenon DEF PastOf
    <2> QED
      BY <2>1, <2>2 DEF Fresh
  <1>5. SubSeq(<<>>, 1, 0) = <<>>
    OBVIOUS
  <1>6. \A n \in 0..0 : <<Fresh>>[n + 1] = PastOf(SubSeq(<<>>, 1, n))
    <2> SUFFICES ASSUME NEW n \in 0..0 PROVE <<Fresh>>[n + 1] = PastOf(SubSeq(<<>>, 1, n))
      OBVIOUS
    <2>1. n = 0 /\ n + 1 = 1
      OBVIOUS
    <2> QED
      BY <1>3, <1>4, <1>5, <2>1
  <1>7. History(<<>>, <<Fresh>>)
    <2>1. PICK e, f : e = <<>> /\ f = <<Fresh>>
      OBVIOUS
    <2>2. Len(e) = 0 /\ IsSeq(f) /\ Len(f) = 1 /\ \A n \in 0..0 : f[n + 1] = PastOf(SubSeq(e, 1, n))
      BY <1>3, <1>6, <2>1 DEF IsSeq
    <2>3. History(e, f)
      BY <2>2 DEF History
    <2> QED
      BY <2>1, <2>3
  <1> QED
    BY <1>1, <1>2, <1>7 DEF Faithful, Running

(* What the second invariant says holds of the code in every state.        *)
THEOREM FaithfulInvariance == Spec => []Faithful
  <1>1. ASSUME KInv, Faithful, [Next]_vars PROVE Faithful'
    <2>1. CASE Recover
      BY <1>1, <2>1, FaithfulRecover
    <2>2. CASE Crash \/ Shutdown \/ ApplyThrows
      BY <1>1, <2>2, FaithfulEnd DEF Crash, Shutdown, ApplyThrows
    <2>3. CASE Stop \/ StopReturns
      <3>1. UNCHANGED <<log, settled, tables>>
        BY <2>3 DEF Stop, StopReturns, journal, WAL!FlushReturns
      <3>2. Stream' = Stream
        BY <1>1, <3>1, SameStream DEF KInv, Typed
      <3>3. /\ UNCHANGED <<thread, cmd, book, outbox, tradeLog, nextSeq, dropped, lived>>
            /\ Running
        BY <2>3 DEF Stop, StopReturns, journal, Running
      <3> QED
        BY <1>1, <3>2, <3>3, FaithfulSame
    <2>4. ASSUME NEW n \in 1..(Len(log) - settled), WriterCommits(n) PROVE Faithful'
      <3>1. Stream' = Stream
        BY <1>1, <2>4, CommitStream DEF WriterCommits, KInv, Typed
      <3>2. UNCHANGED <<process, thread, cmd, book, outbox, tradeLog, nextSeq, dropped, lived>>
        BY <2>4 DEF WriterCommits
      <3>3. Running' => Running
        BY <3>2 DEF Running
      <3> QED
        BY <1>1, <3>1, <3>2, <3>3, FaithfulSame
    <2>5. ASSUME NEW n \in 1..(Len(log) - settled), WriterFails(n) PROVE Faithful'
      BY <2>5 DEF WriterFails, Faithful
    <2>6. ASSUME NEW c \in Command, AppendEvent(c) PROVE Faithful'
      BY <1>1, <2>6, FaithfulAppend
    <2>7. CASE Apply
      BY <1>1, <2>7, FaithfulApply
    <2>8. CASE PublishTrade
      BY <1>1, <2>8, FaithfulPublish
    <2>9. CASE PublishDone
      <3>1. UNCHANGED <<log, settled, tables>>
        BY <2>9 DEF PublishDone, journal
      <3>2. Stream' = Stream
        BY <1>1, <3>1, SameStream DEF KInv, Typed
      <3>3. /\ process' = process /\ thread = "publish" /\ thread' = "pop" /\ Running
            /\ UNCHANGED <<book, outbox, tradeLog, nextSeq, dropped, lived>>
        BY <2>9 DEF PublishDone, journal, Running
      <3>4. Applied' = Applied
        BY <3>2, <3>3 DEF Applied
      <3> QED
        BY <1>1, <3>2, <3>3, <3>4 DEF Faithful, Present
    <2>10. CASE UNCHANGED vars
      <3>1. UNCHANGED <<log, settled, tables>>
        BY <2>10 DEF vars
      <3>2. Stream' = Stream
        BY <1>1, <3>1, SameStream DEF KInv, Typed
      <3>3. UNCHANGED <<process, thread, cmd, book, outbox, tradeLog, nextSeq, dropped, lived>>
        BY <2>10 DEF vars
      <3>4. Running' => Running
        BY <3>3 DEF Running
      <3> QED
        BY <1>1, <3>2, <3>3, <3>4, FaithfulSame
    <2> QED
      BY <1>1, <2>1, <2>2, <2>3, <2>4, <2>5, <2>6, <2>7, <2>8, <2>9, <2>10 DEF Next
  <1> QED
    BY <1>1, FaithfulInit, KeyInvariance, PTL DEF Spec

(* In every life the engine is in the state its first commands led to,     *)
(* wherever the processes before it crashed, unless a batch was dropped.   *)
THEOREM PastRecovered == Spec => []RecoveredStateIsPast
  <1>1. ASSUME KInv, Faithful PROVE RecoveredStateIsPast
    <2> SUFFICES ASSUME ~dropped, process = "up", thread = "pop"
                 PROVE  /\ nextSeq \in DOMAIN lived
                        /\ [book |-> book, trades |-> tradeLog] = lived[nextSeq]
      BY DEF RecoveredStateIsPast
    <2>1. outbox = <<>> /\ Running /\ IsSeq(tradeLog) /\ IsSeq(Stream) /\ Applied = Stream
      BY <1>1, PendingSeq DEF KInv, Control, Typed, Running, Applied
    <2>2. History(Stream, lived) /\ Present
      BY <1>1, <2>1 DEF Faithful
    <2>3. PICK s, l, t : s = Stream /\ l = lived /\ t = tradeLog
      OBVIOUS
    <2>4. PICK A, B : s \in Seq(A) /\ l \in Seq(B)
      BY <2>1, <2>2, <2>3 DEF IsSeq, History
    <2>5. /\ Len(s) \in Nat /\ SubSeq(s, 1, Len(s)) = s /\ DOMAIN l = 1..Len(l)
          /\ nextSeq = Len(s) + 1 /\ Len(l) = Len(s) + 1
      BY <2>2, <2>3, <2>4 DEF Present
    <2>6. l[Len(s) + 1] = PastOf(s)
      <3>1. l[Len(s) + 1] = PastOf(SubSeq(s, 1, Len(s)))
        BY <2>2, <2>3, <2>5 DEF History
      <3> QED
        BY <2>5, <3>1
    <2>7. t \o <<>> = t
      BY <2>1, <2>3, ConcatEmpty
    <2>8. Replay(s) = [book |-> book, trades |-> t, throws |-> FALSE]
      BY <2>1, <2>2, <2>3, <2>7 DEF Present
    <2>9. Replay(s).book = book /\ Replay(s).trades = t
      BY <2>8
    <2>10. PastOf(s) = [book |-> book, trades |-> t]
      BY <2>9 DEF PastOf
    <2> QED
      BY <2>3, <2>5, <2>6, <2>10
  <1> QED
    BY <1>1, KeyInvariance, FaithfulInvariance, PTL

(* Once stop() has returned the tables replay to the state it left, unless *)
(* a batch was dropped.                                                    *)
THEOREM DurableStop == Spec => []StoppedIsDurable
  <1>1. ASSUME KInv, Faithful PROVE StoppedIsDurable
    <2> SUFFICES ASSUME process = "stopped", ~dropped
                 PROVE  book = Replay(LoadAll).book /\ tradeLog = Replay(LoadAll).trades
      BY DEF StoppedIsDurable
    <2>1. /\ thread = "pop" /\ outbox = <<>> /\ Running /\ IsSeq(tradeLog) /\ settled = Len(log)
          /\ Logs /\ IsSeq(tables.events) /\ IsSeq(log) /\ Rising(Stream)
      BY <1>1 DEF KInv, Control, Typed, Running, Logs, Keys
    <2>2. Stream = tables.events
      <3>1. PICK A : log \in Seq(A)
        BY <2>1 DEF IsSeq
      <3>2. Pending = <<>>
        BY <2>1, <3>1 DEF Pending
      <3> QED
        BY <2>1, <3>2, PartsEmpty, ConcatEmpty DEF Stream
    <2>3. LoadAll = tables.events
      BY <2>1, <2>2, LoadAllRising
    <2>4. Present /\ Applied = Stream
      BY <1>1, <2>1 DEF Faithful, Applied
    <2>5. PICK t : t = tradeLog
      OBVIOUS
    <2>6. t \o <<>> = t
      BY <2>1, <2>5, ConcatEmpty
    <2>7. Replay(LoadAll) = [book |-> book, trades |-> t, throws |-> FALSE]
      BY <2>1, <2>2, <2>3, <2>4, <2>5, <2>6 DEF Present
    <2> QED
      BY <2>5, <2>7
  <1> QED
    BY <1>1, KeyInvariance, FaithfulInvariance, PTL

------------------------------------------------------------------------------
(* The third invariant: no fill without its event. *)

(* How often a trade occurs in longer sequences.                           *)
LEMMA OccurrencesMore ==
  ASSUME NEW a, IsSeq(a), NEW b, IsSeq(b), NEW t
  PROVE  /\ Occurrences(t, a) \in Nat /\ Occurrences(t, a \o b) \in Nat
         /\ Occurrences(t, a) <= Occurrences(t, a \o b)
  <1> DEFINE S == {i \in DOMAIN a : a[i] = t}
             T == {i \in DOMAIN (a \o b) : (a \o b)[i] = t}
  <1>1. PICK A : a \in Seq(A) /\ b \in Seq(A)
    BY CommonSeq
  <1>2. /\ Len(a) \in Nat /\ Len(b) \in Nat /\ Len(a \o b) = Len(a) + Len(b)
        /\ DOMAIN a = 1..Len(a) /\ DOMAIN (a \o b) = 1..Len(a \o b)
        /\ \A i \in 1..Len(a) : i \in 1..Len(a \o b) /\ (a \o b)[i] = a[i]
    BY <1>1
  <1>3. S \subseteq T /\ T \subseteq 1..Len(a \o b)
    BY <1>2
  <1>4. IsFiniteSet(1..Len(a \o b))
    BY <1>2, FS_Interval
  <1>5. Occurrences(t, a) = Cardinality(S) /\ Occurrences(t, a \o b) = Cardinality(T)
    BY DEF Occurrences
  <1> HIDE DEF S, T
  <1>6. IsFiniteSet(T)
    BY <1>3, <1>4, FS_Subset
  <1>7. IsFiniteSet(S) /\ Cardinality(S) <= Cardinality(T)
    BY <1>3, <1>6, FS_Subset
  <1>8. Cardinality(S) \in Nat /\ Cardinality(T) \in Nat
    BY <1>6, <1>7, FS_CardinalityType
  <1> QED
    BY <1>5, <1>7, <1>8

(* One more trade counts for itself only.                                  *)
LEMMA OccurrencesAppend ==
  ASSUME NEW a, IsSeq(a), NEW x, NEW t
  PROVE  Occurrences(t, Append(a, x)) = Occurrences(t, a) + (IF x = t THEN 1 ELSE 0)
  <1> DEFINE b == Append(a, x)
             n == Len(a) + 1
             S == {i \in DOMAIN a : a[i] = t}
             T == {i \in DOMAIN b : b[i] = t}
  <1>1. PICK A : a \in Seq(A) /\ x \in A
    BY AppendSeq
  <1>2. /\ Len(a) \in Nat /\ n \in Nat /\ n \notin 1..Len(a) /\ DOMAIN a = 1..Len(a)
        /\ DOMAIN b = 1..n /\ \A i \in 1..n : i \in 1..Len(a) \/ i = n
        /\ \A i \in 1..Len(a) : i \in 1..n
    BY <1>1
  <1>3. b[n] = x /\ n \in 1..n /\ \A i \in 1..Len(a) : b[i] = a[i]
    BY <1>1
  <1>4. Occurrences(t, a) = Cardinality(S) /\ Occurrences(t, b) = Cardinality(T)
    BY DEF Occurrences
  <1> HIDE DEF b, n
  <1>5. IsFiniteSet(S) /\ n \notin S
    <2>1. S \subseteq 1..Len(a)
      BY <1>2
    <2>2. IsFiniteSet(1..Len(a))
      BY <1>2, FS_Interval
    <2> QED
      BY <1>2, <2>1, <2>2, FS_Subset
  <1>6. CASE x = t
    <2>1. T = S \cup {n}
      BY <1>2, <1>3, <1>6
    <2> HIDE DEF S, T
    <2>2. Cardinality(S \cup {n}) = Cardinality(S) + 1
      BY <1>5, FS_AddElement
    <2> QED
      BY <1>4, <1>6, <2>1, <2>2 DEF b
  <1>7. CASE x # t
    <2>1. T = S
      BY <1>2, <1>3, <1>7
    <2> HIDE DEF S, T
    <2>2. Cardinality(S) \in Nat
      BY <1>5, FS_CardinalityType
    <2> QED
      BY <1>4, <1>7, <2>1, <2>2 DEF b
  <1> QED
    BY <1>6, <1>7

(* No trade occurs more often in a than in b.                              *)
Covered(a, b) == \A t : Occurrences(t, a) <= Occurrences(t, b)

(* More trades cover no less.                                              *)
LEMMA CoveredMore ==
  ASSUME NEW a, IsSeq(a), NEW b, IsSeq(b), NEW c, IsSeq(c), Covered(a, b)
  PROVE  Covered(a, b \o c)
  <1>1. ASSUME NEW t PROVE Occurrences(t, a) <= Occurrences(t, b \o c)
    <2>1. Occurrences(t, a) <= Occurrences(t, b)
      BY DEF Covered
    <2>2. /\ Occurrences(t, b) \in Nat /\ Occurrences(t, b \o c) \in Nat
          /\ Occurrences(t, b) <= Occurrences(t, b \o c)
      BY OccurrencesMore
    <2>3. Occurrences(t, a) \in Nat
      BY OccurrencesMore
    <2> QED
      BY <2>1, <2>2, <2>3
  <1> QED
    BY <1>1 DEF Covered

(* One more trade on both sides.                                           *)
LEMMA CoveredAppend ==
  ASSUME NEW a, IsSeq(a), NEW b, IsSeq(b), Covered(a, b), NEW x
  PROVE  Covered(Append(a, x), Append(b, x))
  <1>1. ASSUME NEW t PROVE Occurrences(t, Append(a, x)) <= Occurrences(t, Append(b, x))
    <2>1. Occurrences(t, a) <= Occurrences(t, b)
      BY DEF Covered
    <2>2. Occurrences(t, a) \in Nat /\ Occurrences(t, b) \in Nat
      BY OccurrencesMore
    <2>3. /\ Occurrences(t, Append(a, x)) = Occurrences(t, a) + (IF x = t THEN 1 ELSE 0)
          /\ Occurrences(t, Append(b, x)) = Occurrences(t, b) + (IF x = t THEN 1 ELSE 0)
      BY OccurrencesAppend
    <2> QED
      BY <2>1, <2>2, <2>3
  <1> QED
    BY <1>1 DEF Covered

(* Wherever the pending records p are cut, the trades before the cut are   *)
(* covered by what replaying the events before it gives.                   *)
Sound(ev, tr, p) ==
  \A k \in 0..Len(p) :
    Covered(tr \o WAL!TradesOf(SubSeq(p, 1, k)), Replay(ev \o WAL!EventsOf(SubSeq(p, 1, k))).trades)

(* The cut before all of them.                                             *)
LEMMA SoundTables ==
  ASSUME NEW ev, IsSeq(ev), NEW tr, IsSeq(tr), NEW p, IsSeq(p), Sound(ev, tr, p)
  PROVE  Covered(tr, Replay(ev).trades)
  <1>1. Len(p) \in Nat /\ SubSeq(p, 1, 0) = <<>>
    BY DEF IsSeq
  <1>2. Covered(tr \o WAL!TradesOf(SubSeq(p, 1, 0)), Replay(ev \o WAL!EventsOf(SubSeq(p, 1, 0))).trades)
    BY <1>1 DEF Sound
  <1>3. Covered(tr \o <<>>, Replay(ev \o <<>>).trades)
    BY <1>1, <1>2, PartsEmpty
  <1>4. tr \o <<>> = tr /\ ev \o <<>> = ev
    BY ConcatEmpty
  <1> QED
    BY <1>3, <1>4

(* The cut behind all of them.                                             *)
LEMMA SoundAll ==
  ASSUME NEW ev, NEW tr, NEW p, IsSeq(p), Sound(ev, tr, p)
  PROVE  Covered(tr \o WAL!TradesOf(p), Replay(ev \o WAL!EventsOf(p)).trades)
  <1>1. Len(p) \in 0..Len(p) /\ SubSeq(p, 1, Len(p)) = p
    BY DEF IsSeq
  <1>2. Covered(tr \o WAL!TradesOf(SubSeq(p, 1, Len(p))), Replay(ev \o WAL!EventsOf(SubSeq(p, 1, Len(p)))).trades)
    BY <1>1 DEF Sound
  <1> QED
    BY <1>1, <1>2

(* Nothing pending.                                                        *)
LEMMA SoundNone ==
  ASSUME NEW ev, IsSeq(ev), NEW tr, IsSeq(tr), Covered(tr, Replay(ev).trades)
  PROVE  Sound(ev, tr, <<>>)
  <1>1. tr \o <<>> = tr /\ ev \o <<>> = ev
    BY ConcatEmpty
  <1>2. ASSUME NEW k \in 0..Len(<<>>) PROVE SubSeq(<<>>, 1, k) = <<>>
    OBVIOUS
  <1>3. ASSUME NEW k \in 0..Len(<<>>)
        PROVE  Covered(tr \o WAL!TradesOf(SubSeq(<<>>, 1, k)), Replay(ev \o WAL!EventsOf(SubSeq(<<>>, 1, k))).trades)
    BY <1>1, <1>2, PartsEmpty
  <1> QED
    BY <1>3 DEF Sound

(* One more record.                                                        *)
LEMMA SoundAppend ==
  ASSUME NEW ev, NEW tr, NEW p, IsSeq(p), Sound(ev, tr, p), NEW e,
         Covered(tr \o WAL!TradesOf(Append(p, e)), Replay(ev \o WAL!EventsOf(Append(p, e))).trades)
  PROVE  Sound(ev, tr, Append(p, e))
  <1>1. PICK A : p \in Seq(A) /\ e \in A
    BY AppendSeq
  <1>2. PICK q : q = Append(p, e)
    OBVIOUS
  <1>3. /\ Len(p) \in Nat /\ Len(q) = Len(p) + 1 /\ SubSeq(q, 1, Len(p) + 1) = q
        /\ \A k \in 0..Len(p) : SubSeq(q, 1, k) = SubSeq(p, 1, k)
    BY <1>1, <1>2
  <1>4. ASSUME NEW k \in 0..Len(q)
        PROVE  Covered(tr \o WAL!TradesOf(SubSeq(q, 1, k)), Replay(ev \o WAL!EventsOf(SubSeq(q, 1, k))).trades)
    <2>1. CASE k \in 0..Len(p)
      <3>1. Covered(tr \o WAL!TradesOf(SubSeq(p, 1, k)), Replay(ev \o WAL!EventsOf(SubSeq(p, 1, k))).trades)
        BY <2>1 DEF Sound
      <3> QED
        BY <1>3, <2>1, <3>1
    <2>2. CASE k = Len(p) + 1
      BY <1>2, <1>3, <2>2
    <2> QED
      BY <1>3, <2>1, <2>2
  <1>5. Sound(ev, tr, q)
    BY <1>4 DEF Sound
  <1> QED
    BY <1>2, <1>5

(* The first records are stored.                                           *)
LEMMA SoundCommit ==
  ASSUME NEW ev, IsSeq(ev), NEW tr, IsSeq(tr), NEW g, IsSeq(g), NEW r, IsSeq(r), Sound(ev, tr, g \o r)
  PROVE  Sound(ev \o WAL!EventsOf(g), tr \o WAL!TradesOf(g), r)
  <1>1. PICK A : g \in Seq(A) /\ r \in Seq(A)
    BY CommonSeq
  <1>2. PICK b, d : b = WAL!EventsOf(g) /\ d = WAL!TradesOf(g)
    OBVIOUS
  <1>3. IsSeq(b) /\ IsSeq(d)
    BY <1>2, PartsSeq
  <1>4. ASSUME NEW k \in 0..Len(r)
        PROVE  Covered((tr \o d) \o WAL!TradesOf(SubSeq(r, 1, k)), Replay((ev \o b) \o WAL!EventsOf(SubSeq(r, 1, k))).trades)
    <2>1. PICK q : q = SubSeq(r, 1, k)
      OBVIOUS
    <2>2. q \in Seq(A) /\ Len(g) + k \in 0..Len(g \o r)
      BY <1>1, <2>1
    <2>3. SubSeq(g \o r, 1, Len(g) + k) = g \o q
      BY <1>1, <2>1
    <2>4. IsSeq(q)
      BY <2>2 DEF IsSeq
    <2>5. PICK u, v : u = WAL!EventsOf(q) /\ v = WAL!TradesOf(q)
      OBVIOUS
    <2>6. IsSeq(u) /\ IsSeq(v)
      BY <2>4, <2>5, PartsSeq
    <2>7. WAL!EventsOf(g \o q) = b \o u /\ WAL!TradesOf(g \o q) = d \o v
      BY <1>2, <2>4, <2>5, PartsConcat
    <2>8. Covered(tr \o WAL!TradesOf(g \o q), Replay(ev \o WAL!EventsOf(g \o q)).trades)
      <3>1. PICK h, k2 : h = g \o r /\ k2 = Len(g) + k
        OBVIOUS
      <3>2. Sound(ev, tr, h) /\ k2 \in 0..Len(h) /\ SubSeq(h, 1, k2) = g \o q
        BY <2>2, <2>3, <3>1
      <3>3. Covered(tr \o WAL!TradesOf(SubSeq(h, 1, k2)), Replay(ev \o WAL!EventsOf(SubSeq(h, 1, k2))).trades)
        BY <3>2 DEF Sound
      <3> QED
        BY <3>2, <3>3
    <2>9. tr \o (d \o v) = (tr \o d) \o v /\ ev \o (b \o u) = (ev \o b) \o u
      <3>1. AreSeqs(tr, d, v) /\ AreSeqs(ev, b, u)
        BY <1>3, <2>6 DEF AreSeqs
      <3>2. (tr \o d) \o v = tr \o (d \o v)
        BY <3>1, ConcatAssoc
      <3>3. (ev \o b) \o u = ev \o (b \o u)
        BY <3>1, ConcatAssoc
      <3> QED
        BY <3>2, <3>3
    <2>10. Covered((tr \o d) \o v, Replay((ev \o b) \o u).trades)
      BY <2>7, <2>8, <2>9
    <2> QED
      BY <2>1, <2>5, <2>10
  <1> QED
    BY <1>2, <1>4 DEF Sound

(* The trades that are stored or on their way have been made.              *)
Accounted ==
  ~dropped => /\ Sound(tables.events, tables.trades, Pending)
              /\ Running => Covered(StreamOfTrades, tradeLog)

(* recover() makes the stored trades again.                                *)
LEMMA AccountedRecover == ASSUME KInv, Accounted, Recover PROVE Accounted'
  <1> SUFFICES ASSUME ~dropped
               PROVE  /\ Sound(tables'.events, tables'.trades, Pending')
                      /\ Running' => Covered(StreamOfTrades', tradeLog')
    BY DEF Accounted, Recover, journal
  <1>1. ~Running /\ process = "down"
    BY DEF Recover, Running
  <1>2. LoadAll = tables.events /\ IsSeq(tables.events)
    BY <1>1, AtRest
  <1>3. UNCHANGED <<log, settled, tables>>
    BY DEF Recover, journal
  <1>4. Pending' = Pending /\ StreamOfTrades' = StreamOfTrades
    BY <1>3, SameStream DEF KInv, Typed
  <1>5. log = <<>> /\ settled = 0 /\ IsSeq(tables.trades)
    BY <1>1 DEF KInv, Typed, Control, Logs
  <1>6. Pending = <<>>
    BY <1>5 DEF Pending
  <1>7. StreamOfTrades = tables.trades
    BY <1>5, <1>6, PartsEmpty, ConcatEmpty DEF StreamOfTrades
  <1>8. Sound(tables.events, tables.trades, Pending)
    BY DEF Accounted
  <1>9. Covered(tables.trades, Replay(tables.events).trades)
    BY <1>2, <1>5, <1>6, <1>8, NoSeq, SoundTables
  <1>10. CASE process' = "up" /\ tradeLog' = Replay(LoadAll).trades
    BY <1>2, <1>3, <1>4, <1>7, <1>8, <1>9, <1>10
  <1>11. CASE process' = "failed"
    BY <1>3, <1>4, <1>8, <1>11 DEF Running
  <1> QED
    BY <1>10, <1>11 DEF Recover

(* A crash may come at any cut.                                            *)
LEMMA AccountedEnd == ASSUME KInv, Accounted, ProcessEnds PROVE Accounted'
  <1> SUFFICES ASSUME ~dropped
               PROVE  Sound(tables'.events, tables'.trades, Pending') /\ ~Running'
    BY DEF Accounted, ProcessEnds
  <1>1. log' = <<>> /\ settled' = 0 /\ tables' = tables /\ process' = "down"
    BY DEF ProcessEnds
  <1>2. Pending' = <<>>
    BY <1>1 DEF Pending
  <1>3. Sound(tables.events, tables.trades, Pending)
    BY DEF Accounted
  <1>4. IsSeq(tables.events) /\ IsSeq(tables.trades) /\ IsSeq(Pending)
    BY PendingSeq DEF KInv, Typed, Logs
  <1>5. Covered(tables.trades, Replay(tables.events).trades)
    BY <1>3, <1>4, SoundTables
  <1>6. Sound(tables.events, tables.trades, <<>>)
    BY <1>4, <1>5, SoundNone
  <1> QED
    BY <1>1, <1>2, <1>6 DEF Running

(* A transaction moves the cut.                                            *)
LEMMA AccountedCommit ==
  ASSUME KInv, Accounted, NEW n \in 1..(Len(log) - settled), WriterCommits(n)
  PROVE  Accounted'
  <1> SUFFICES ASSUME ~dropped
               PROVE  /\ Sound(tables'.events, tables'.trades, Pending')
                      /\ Running' => Covered(StreamOfTrades', tradeLog')
    BY DEF Accounted, WriterCommits
  <1>1. Logs /\ WAL!Commit(n) /\ tradeLog' = tradeLog /\ process' = process
    BY DEF KInv, Typed, WriterCommits
  <1>2. PICK g, r, a, c : /\ g = SubSeq(log, settled + 1, settled + n)
                          /\ r = SubSeq(log, settled + n + 1, Len(log))
                          /\ a = tables.events /\ c = tables.trades
    OBVIOUS
  <1>3. IsSeq(g) /\ IsSeq(r) /\ Pending = g \o r
    BY <1>1, <1>2, PendingSplit
  <1>4. IsSeq(a) /\ IsSeq(c)
    BY <1>1, <1>2 DEF Logs
  <1>5. /\ log' = log /\ settled' = settled + n
        /\ tables'.events = a \o WAL!EventsOf(g) /\ tables'.trades = c \o WAL!TradesOf(g)
    BY <1>1, <1>2 DEF WAL!Commit, WAL!Stored
  <1>6. Pending' = r
    BY <1>2, <1>5 DEF Pending
  <1>7. Sound(a, c, g \o r)
    BY <1>2, <1>3 DEF Accounted
  <1>8. Sound(a \o WAL!EventsOf(g), c \o WAL!TradesOf(g), r)
    BY <1>3, <1>4, <1>7, SoundCommit
  <1>9. StreamOfTrades' = StreamOfTrades
    BY <1>1, CommitStream
  <1> QED
    BY <1>1, <1>5, <1>6, <1>8, <1>9 DEF Accounted, Running

(* Steps that leave the trades and the journal alone.                      *)
LEMMA AccountedSame ==
  ASSUME KInv, Accounted, UNCHANGED <<log, settled, tables, tradeLog, dropped>>, Running' => Running
  PROVE  Accounted'
  <1>1. Pending' = Pending /\ StreamOfTrades' = StreamOfTrades
    BY SameStream DEF KInv, Typed
  <1> QED
    BY <1>1 DEF Accounted

(* One more event never takes a trade back.                                *)
LEMMA AccountedAppend ==
  ASSUME KInv, Accounted, NEW c \in Command, AppendEvent(c)
  PROVE  Accounted'
  <1> SUFFICES ASSUME ~dropped
               PROVE  /\ Sound(tables'.events, tables'.trades, Pending')
                      /\ Covered(StreamOfTrades', tradeLog')
    BY DEF Accounted, AppendEvent
  <1>1. PICK a, b, d, p, e : /\ a = tables.events /\ b = tables.trades /\ p = Pending
                             /\ e = EventOf(c, nextSeq) /\ d = StreamOfTrades
    OBVIOUS
  <1>2. /\ Logs /\ WAL!Record(e) /\ WAL!IsEvent(e) /\ tradeLog' = tradeLog /\ process = "up"
        /\ log' = Append(log, e) /\ settled' = settled /\ tables' = tables
    BY <1>1, EventIsEvent DEF KInv, Typed, AppendEvent, WAL!Record
  <1>3. Pending' = Append(p, e) /\ StreamOfTrades' = StreamOfTrades /\ Stream' = Append(Stream, e)
    BY <1>1, <1>2, PendingAppend, RecordStream
  <1>4. IsSeq(p) /\ IsSeq(Stream) /\ IsSeq(d) /\ IsSeq(a) /\ IsSeq(b)
    <2>1. IsSeq(a) /\ IsSeq(b) /\ IsSeq(p) /\ IsSeq(Stream) /\ IsSeq(WAL!TradesOf(Pending))
      BY <1>1, <1>2, PendingSeq DEF Logs
    <2> QED
      BY <1>1, <2>1, ConcatSeq DEF StreamOfTrades
  <1>5. PICK s : s = Stream
    OBVIOUS
  <1>6. Sound(a, b, p) /\ Covered(d, tradeLog)
    BY <1>1, <1>2 DEF Accounted, Running
  <1>7. Covered(d, Replay(s).trades)
    <2>1. Covered(b \o WAL!TradesOf(p), Replay(a \o WAL!EventsOf(p)).trades)
      BY <1>4, <1>6, SoundAll
    <2> QED
      BY <1>1, <1>5, <2>1 DEF Stream, StreamOfTrades
  <1>8. Covered(d, Replay(Append(s, e)).trades)
    <2>1. PICK A : s \in Seq(A) /\ e \in A
      BY <1>4, <1>5, AppendSeq
    <2>2. Replay(Append(s, e)) = Replayed(Replay(s), e)
      BY <2>1, ReplayAppend
    <2>3. PICK q : q = Replay(s)
      OBVIOUS
    <2>4. IsState(q)
      BY <1>4, <1>5, <2>3, ReplayState
    <2>5. PICK more : IsSeq(more) /\ Replayed(q, e).trades = q.trades \o more
      BY <2>4, ReplayedState
    <2>6. IsSeq(q.trades) /\ Covered(d, q.trades)
      BY <1>7, <2>3, <2>4 DEF IsState
    <2>7. Covered(d, q.trades \o more)
      BY <1>4, <2>5, <2>6, CoveredMore
    <2> QED
      BY <2>2, <2>3, <2>5, <2>7
  <1>9. b \o WAL!TradesOf(Append(p, e)) = d /\ a \o WAL!EventsOf(Append(p, e)) = Append(s, e)
    <2>1. StreamOfTrades' = b \o WAL!TradesOf(Append(p, e)) /\ Stream' = a \o WAL!EventsOf(Append(p, e))
      BY <1>1, <1>2, <1>3 DEF Stream, StreamOfTrades
    <2> QED
      BY <1>1, <1>3, <1>5, <2>1
  <1>10. Covered(b \o WAL!TradesOf(Append(p, e)), Replay(a \o WAL!EventsOf(Append(p, e))).trades)
    BY <1>8, <1>9
  <1>11. Sound(a, b, Append(p, e))
    BY <1>4, <1>6, <1>10, SoundAppend
  <1> QED
    BY <1>1, <1>2, <1>3, <1>6, <1>11

(* A trade is handed over after it was made.                               *)
LEMMA AccountedPublish ==
  ASSUME KInv, Faithful, Accounted, PublishTrade
  PROVE  Accounted'
  <1> SUFFICES ASSUME ~dropped
               PROVE  /\ Sound(tables'.events, tables'.trades, Pending')
                      /\ Covered(StreamOfTrades', tradeLog')
    BY DEF Accounted, PublishTrade
  <1>1. PICK a, b, d, p, e, t, o : /\ a = tables.events /\ b = tables.trades /\ p = Pending
                                   /\ e = Head(outbox) /\ d = StreamOfTrades /\ t = tradeLog /\ o = outbox'
    OBVIOUS
  <1>2. /\ Logs /\ tradeLog' = Append(t, e) /\ process = "up" /\ process' = "up" /\ thread' = "publish"
        /\ log' = Append(log, e) /\ settled' = settled /\ tables' = tables
    BY <1>1 DEF KInv, Typed, PublishTrade, WAL!Record
  <1>3. Pending' = Append(p, e) /\ StreamOfTrades' = Append(d, e) /\ Stream' = Stream
    BY <1>1, <1>2, PendingAppend, KeepsPublish
  <1>4. IsSeq(p) /\ IsSeq(d) /\ IsSeq(t) /\ IsSeq(o)
    <2>1. IsSeq(b) /\ IsSeq(p) /\ IsSeq(WAL!TradesOf(Pending)) /\ IsSeq(t)
      BY <1>1, <1>2, PendingSeq DEF Logs, KInv, Typed
    <2>2. IsSeq(o)
      BY <1>1, KeepsPublish DEF KInv, Typed
    <2> QED
      BY <1>1, <2>1, <2>2, ConcatSeq DEF StreamOfTrades
  <1>5. Sound(a, b, p) /\ Covered(d, t)
    BY <1>1, <1>2 DEF Accounted, Running
  <1>6. Covered(Append(d, e), Append(t, e))
    BY <1>4, <1>5, CoveredAppend
  <1>7. Covered(Append(d, e), Append(t, e) \o o)
    <2>1. IsSeq(Append(d, e)) /\ IsSeq(Append(t, e))
      BY <1>4, AppendSeq
    <2> QED
      BY <1>4, <1>6, <2>1, CoveredMore
  <1>8. Replay(Stream').trades = Append(t, e) \o o
    <2>1. Faithful' /\ Running' /\ dropped' = dropped
      BY <1>2, FaithfulPublish DEF Running, PublishTrade
    <2>2. Present'
      BY <2>1 DEF Faithful
    <2>3. Replay(Stream') = [book |-> book', trades |-> tradeLog' \o outbox', throws |-> FALSE]
      BY <1>2, <2>2 DEF Present, Applied
    <2>4. Replay(Stream').trades = tradeLog' \o outbox'
      BY <2>3
    <2> QED
      BY <1>1, <1>2, <2>4
  <1>9. Stream' = a \o WAL!EventsOf(Append(p, e)) /\ Append(d, e) = b \o WAL!TradesOf(Append(p, e))
    BY <1>1, <1>2, <1>3 DEF Stream, StreamOfTrades
  <1>10. Covered(b \o WAL!TradesOf(Append(p, e)), Replay(a \o WAL!EventsOf(Append(p, e))).trades)
    BY <1>7, <1>8, <1>9
  <1>11. Sound(a, b, Append(p, e))
    BY <1>4, <1>5, <1>10, SoundAppend
  <1> QED
    BY <1>1, <1>2, <1>3, <1>6, <1>11

(* Empty tables have no trades.                                            *)
LEMMA AccountedInit == Init => Accounted
  <1> SUFFICES ASSUME Init PROVE Accounted
    OBVIOUS
  <1>1. process = "down" /\ tables.events = <<>> /\ tables.trades = <<>> /\ log = <<>> /\ settled = 0
    BY DEF Init, WAL!Init
  <1>2. Pending = <<>>
    BY <1>1 DEF Pending
  <1>3. Replay(<<>>).trades = <<>>
    BY ReplayNothing DEF Nothing
  <1>4. Covered(<<>>, <<>>)
    <2>1. ASSUME NEW t PROVE Occurrences(t, <<>>) <= Occurrences(t, <<>>)
      <3>1. Occurrences(t, <<>>) \in Nat
        BY NoSeq, OccurrencesMore
      <3> QED
        BY <3>1
    <2> QED
      BY <2>1 DEF Covered
  <1>5. Sound(<<>>, <<>>, <<>>)
    BY <1>3, <1>4, NoSeq, SoundNone
  <1> QED
    BY <1>1, <1>2, <1>5 DEF Accounted, Running

(* What the third invariant says holds of the code in every state.         *)
THEOREM AccountedInvariance == Spec => []Accounted
  <1>1. ASSUME KInv, Faithful, Accounted, [Next]_vars PROVE Accounted'
    <2>1. CASE Recover
      BY <1>1, <2>1, AccountedRecover
    <2>2. CASE Crash \/ Shutdown \/ ApplyThrows
      BY <1>1, <2>2, AccountedEnd DEF Crash, Shutdown, ApplyThrows
    <2>3. CASE Stop \/ StopReturns \/ Apply \/ PublishDone \/ UNCHANGED vars
      <3>1. UNCHANGED <<log, settled, tables, tradeLog, dropped>>
        BY <2>3 DEF Stop, StopReturns, Apply, PublishDone, vars, journal, WAL!FlushReturns
      <3>2. Running' => Running
        BY <2>3 DEF Stop, StopReturns, Apply, PublishDone, vars, Running
      <3> QED
        BY <1>1, <3>1, <3>2, AccountedSame
    <2>4. ASSUME NEW n \in 1..(Len(log) - settled), WriterCommits(n) PROVE Accounted'
      BY <1>1, <2>4, AccountedCommit
    <2>5. ASSUME NEW n \in 1..(Len(log) - settled), WriterFails(n) PROVE Accounted'
      BY <2>5 DEF WriterFails, Accounted
    <2>6. ASSUME NEW c \in Command, AppendEvent(c) PROVE Accounted'
      BY <1>1, <2>6, AccountedAppend
    <2>7. CASE PublishTrade
      BY <1>1, <2>7, AccountedPublish
    <2> QED
      BY <1>1, <2>1, <2>2, <2>3, <2>4, <2>5, <2>6, <2>7 DEF Next
  <1> QED
    BY <1>1, AccountedInit, KeyInvariance, FaithfulInvariance, PTL DEF Spec

(* The trades table never shows a fill that the stored events do not make  *)
(* again, wherever a transaction or a crash cuts the log.                  *)
THEOREM NoFillWithoutEvent == Spec => []TradesFollowEvents
  <1>1. ASSUME KInv, Accounted PROVE TradesFollowEvents
    <2> SUFFICES ASSUME ~dropped, NEW i \in DOMAIN tables.trades
                 PROVE  Occurrences(tables.trades[i], tables.trades)
                          <= Occurrences(tables.trades[i], Replay(LoadAll).trades)
      BY DEF TradesFollowEvents
    <2>1. Logs /\ IsSeq(tables.events) /\ IsSeq(tables.trades) /\ IsSeq(Pending) /\ Rising(Stream)
      BY <1>1, PendingSeq DEF KInv, Typed, Logs, Keys
    <2>2. Covered(tables.trades, Replay(tables.events).trades)
      BY <1>1, <2>1, SoundTables DEF Accounted
    <2>3. LoadAll = tables.events
      BY <1>1, <2>1, StoredRising, LoadAllRising
    <2> QED
      BY <2>2, <2>3 DEF Covered
  <1> QED
    BY <1>1, KeyInvariance, AccountedInvariance, PTL
==============================================================================
