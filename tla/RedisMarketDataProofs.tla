------------------------- MODULE RedisMarketDataProofs -------------------------
(***************************************************************************)
(* What readers of Redis see, for any number of messages: the cache never  *)
(* goes back in time, a pair of prices is torn only by a loss, and the     *)
(* feed and the counter repeat nothing.                                    *)
(***************************************************************************)
EXTENDS RedisMarketData, FiniteSetTheorems, SequenceTheorems, TLAPS

------------------------------------------------------------------------------
(* The invariant. *)

Message == [kind : {"TRADE"}] \cup [kind : {"BOOK"}, hasBid : BOOLEAN, hasAsk : BOOLEAN]

Sent == [msg : Nat, to : {"bid", "ask", "feed", "last", "count"}]

Typed ==
  /\ msgs \in Seq(Message)
  /\ queue \in Seq(Nat) /\ batch \in Seq(Nat)
  /\ wire \in Seq(Sent)
  /\ keys \in [Key -> [by : Nat, has : BOOLEAN]]
  /\ count \in Nat
  /\ feed \in Seq(Nat)

(* The sink and its threads: the queue is empty when the publisher ends,   *)
(* and nothing is queued after that.                                       *)
Control ==
  /\ owner = "none" => publisher = "exited"
  /\ owner = "alive" => ~stopping
  /\ publisher = "exited" => queue = <<>> /\ owner # "alive"
  /\ wire # <<>> => publisher = "replies"
  /\ batch # <<>> => publisher \in {"connect", "replies"}

Rising(s) == \A i, j \in DOMAIN s : i < j => s[i] < s[j]

Below(s, t) == \A i \in DOMAIN s : \A j \in DOMAIN t : s[i] < t[j]

(* The order in which Redis gets two commands.                             *)
Before(c, d) ==
  \/ c.msg < d.msg
  \/ /\ c.msg = d.msg
     /\ c.to # d.to
     /\ ~(c.to = "ask" /\ d.to = "bid")

(* Each message is in one place, and what is older is further on.          *)
InOrder ==
  /\ Range(queue) \cup Range(batch) \subseteq DOMAIN msgs
  /\ Rising(queue) /\ Rising(batch) /\ Below(batch, queue)
  /\ \A c \in Range(wire) : c.msg \in Range(batch) /\ c \in Range(Commands(c.msg))
  /\ \A i, j \in DOMAIN wire : i < j => Before(wire[i], wire[j])

(* Redis has nothing of the messages that have not been sent, and nothing  *)
(* of the commands after the first one in flight.                          *)
Behind ==
  /\ \A key \in Key :
       /\ keys[key].by \in 0..Len(msgs)
       /\ \A n \in InHand : keys[key].by < n
       /\ \A c \in Range(wire) : keys[key].by <= c.msg /\ (c.to = key => keys[key].by < c.msg)
  /\ \A m \in Range(feed) :
       /\ m \in DOMAIN msgs
       /\ \A n \in InHand : m < n
       /\ \A c \in Range(wire) : c.to = "feed" => m < c.msg

(* Of a message whose ask is in flight the bid is in flight, has been      *)
(* processed or is lost.                                                   *)
Paired ==
  \A c \in Range(wire) :
    /\ c.to = "bid" => [msg |-> c.msg, to |-> "ask"] \in Range(wire)
    /\ c.to = "ask" => \/ [msg |-> c.msg, to |-> "bid"] \in Range(wire)
                       \/ keys["bid"].by = c.msg
                       \/ c.msg \in lossy

Order == Typed /\ Control /\ InOrder /\ Behind

IInv == Order /\ Paired /\ CacheIsLatest /\ TornOnlyByLoss /\ FeedAtMostOnce

------------------------------------------------------------------------------
(* The pipeline. *)

Induction == INSTANCE ReplayProofs

(* g gives the pipeline after each of the first N rounds of the loop over  *)
(* the batch: a round adds the commands of one more message.               *)
IsPipeline(g, cs, N) ==
  \A n \in 1..N : g[n] = IF n = 1 THEN cs[n] ELSE g[n - 1] \o cs[n]

(* There is one, for a batch of any size.                                  *)
LEMMA PipelineExists ==
  ASSUME NEW cs
  PROVE  \A N \in Nat : \E g : IsPipeline(g, cs, N)
  <1> DEFINE P == {n \in Nat : \E g : IsPipeline(g, cs, n)}
  <1>1. 0 \in P
    BY DEF IsPipeline
  <1>2. ASSUME NEW n \in Nat, n \in P PROVE n + 1 \in P
    <2>1. PICK g : IsPipeline(g, cs, n)
      BY <1>2
    <2> DEFINE last == IF n = 0 THEN cs[1] ELSE g[n] \o cs[n + 1]
               h == [k \in 1..(n + 1) |-> IF k \in 1..n THEN g[k] ELSE last]
    <2>2. ASSUME NEW k \in 1..(n + 1) PROVE h[k] = IF k = 1 THEN cs[k] ELSE h[k - 1] \o cs[k]
      <3>1. CASE k \in 1..n
        <4>1. h[k] = g[k] /\ (k # 1 => h[k - 1] = g[k - 1])
          BY <3>1
        <4> QED
          BY <2>1, <3>1, <4>1 DEF IsPipeline
      <3>2. CASE k = n + 1
        <4>1. h[k] = last /\ (n # 0 => h[n] = g[n])
          BY <3>2
        <4> HIDE DEF h
        <4>2. CASE n = 0
          BY <3>2, <4>1, <4>2
        <4>3. CASE n # 0
          <5>1. k # 1 /\ k - 1 = n
            BY <3>2, <4>3
          <5> QED
            BY <3>2, <4>1, <4>3, <5>1
        <4> QED
          BY <4>2, <4>3
      <3> QED
        BY <3>1, <3>2
    <2> HIDE DEF h
    <2>3. IsPipeline(h, cs, n + 1)
      BY <2>2 DEF IsPipeline
    <2> QED
      BY <2>3
  <1> HIDE DEF P
  <1>3. \A n \in Nat : n \in P
    BY <1>1, <1>2, Induction!NatSetInduction
  <1> QED
    BY <1>3 DEF P

(* The pipeline grows by the commands of one message after the other.      *)
LEMMA PipelineGrows ==
  ASSUME NEW cs, NEW N \in Nat, Len(cs) = N, N # 0
  PROVE  \E f : /\ FlattenSeq(cs) = f[N]
                /\ f[1] = cs[1]
                /\ \A n \in 1..(N - 1) : f[n + 1] = f[n] \o cs[n + 1]
  <1> DEFINE Solves(f) == f = [n \in 1..N |-> IF n = 1 THEN cs[n] ELSE f[n - 1] \o cs[n]]
             flatten == CHOOSE f : Solves(f)
  <1>1. FlattenSeq(cs) = flatten[N]
    BY DEF FlattenSeq
  <1>2. PICK g : IsPipeline(g, cs, N)
    BY PipelineExists
  <1>3. \A n \in 1..N : g[n] = IF n = 1 THEN cs[n] ELSE g[n - 1] \o cs[n]
    BY <1>2 DEF IsPipeline
  <1>4. Solves([n \in 1..N |-> g[n]])
    <2> DEFINE h == [n \in 1..N |-> g[n]]
               k == [n \in 1..N |-> IF n = 1 THEN cs[n] ELSE h[n - 1] \o cs[n]]
    <2>1. ASSUME NEW n \in 1..N PROVE h[n] = k[n]
      <3>1. CASE n = 1
        BY <1>3, <3>1
      <3>2. CASE n # 1
        <4>1. n - 1 \in 1..N
          BY <3>2
        <4>2. h[n - 1] = g[n - 1] /\ h[n] = g[n]
          BY <4>1
        <4> QED
          BY <1>3, <3>2, <4>2
      <3> QED
        BY <3>1, <3>2
    <2>2. h = k
      BY <2>1
    <2> QED
      BY <2>2
  <1>5. Solves(flatten)
    BY <1>4
  <1> HIDE DEF flatten
  <1>6. /\ flatten[1] = cs[1]
        /\ \A n \in 1..(N - 1) : flatten[n + 1] = flatten[n] \o cs[n + 1]
    <2> DEFINE k == [n \in 1..N |-> IF n = 1 THEN cs[n] ELSE flatten[n - 1] \o cs[n]]
    <2>1. \A n \in 1..N : k[n] = IF n = 1 THEN cs[n] ELSE flatten[n - 1] \o cs[n]
      OBVIOUS
    <2>2. flatten = k
      BY <1>5
    <2> HIDE DEF k
    <2>3. k[1] = cs[1]
      BY <2>1
    <2>4. ASSUME NEW n \in 1..(N - 1) PROVE k[n + 1] = flatten[n] \o cs[n + 1]
      <3>1. n + 1 \in 1..N /\ n + 1 # 1 /\ (n + 1) - 1 = n
        OBVIOUS
      <3> QED
        BY <2>1, <3>1
    <2> QED
      BY <2>2, <2>3, <2>4
  <1> QED
    BY <1>1, <1>6

(* Two sequences of commands in a row, the first all before the second.    *)
LEMMA SentInARow ==
  ASSUME NEW s \in Seq(Sent), NEW t \in Seq(Sent),
         \A i, j \in DOMAIN s : i < j => Before(s[i], s[j]),
         \A i, j \in DOMAIN t : i < j => Before(t[i], t[j]),
         \A i \in DOMAIN s : \A j \in DOMAIN t : Before(s[i], t[j])
  PROVE  /\ s \o t \in Seq(Sent)
         /\ Range(s \o t) = Range(s) \cup Range(t)
         /\ \A i, j \in DOMAIN (s \o t) : i < j => Before((s \o t)[i], (s \o t)[j])
  <1> DEFINE u == s \o t
  <1>1. /\ u \in Seq(Sent) /\ Len(s) \in Nat /\ Len(t) \in Nat /\ Len(u) = Len(s) + Len(t)
        /\ DOMAIN u = 1..Len(u) /\ DOMAIN s = 1..Len(s) /\ DOMAIN t = 1..Len(t)
        /\ \A i \in 1..Len(u) : u[i] = IF i <= Len(s) THEN s[i] ELSE t[i - Len(s)]
    OBVIOUS
  <1> HIDE DEF u
  <1>2. ASSUME NEW i \in DOMAIN u
        PROVE  \/ i \in DOMAIN s /\ u[i] = s[i]
               \/ i > Len(s) /\ i - Len(s) \in DOMAIN t /\ u[i] = t[i - Len(s)]
    BY <1>1
  <1>3. \A i \in DOMAIN s : i \in DOMAIN u /\ u[i] = s[i]
    BY <1>1
  <1>4. ASSUME NEW i \in DOMAIN t PROVE i + Len(s) \in DOMAIN u /\ u[i + Len(s)] = t[i]
    <2>1. i + Len(s) \in 1..Len(u) /\ ~(i + Len(s) <= Len(s)) /\ (i + Len(s)) - Len(s) = i
      BY <1>1
    <2> QED
      BY <1>1, <2>1
  <1>5. Range(u) = Range(s) \cup Range(t)
    BY <1>2, <1>3, <1>4 DEF Range
  <1>6. ASSUME NEW i \in DOMAIN u, NEW j \in DOMAIN u, i < j PROVE Before(u[i], u[j])
    <2>1. i \in Int /\ j \in Int
      BY <1>1
    <2>2. CASE j \in DOMAIN s /\ u[j] = s[j]
      <3>1. i \in DOMAIN s /\ u[i] = s[i]
        BY <1>1, <1>2, <1>6, <2>1, <2>2
      <3> QED
        BY <1>6, <2>2, <3>1
    <2>3. CASE j > Len(s) /\ j - Len(s) \in DOMAIN t /\ u[j] = t[j - Len(s)]
      <3>1. CASE i \in DOMAIN s /\ u[i] = s[i]
        BY <2>3, <3>1
      <3>2. CASE i > Len(s) /\ i - Len(s) \in DOMAIN t /\ u[i] = t[i - Len(s)]
        <4>1. i - Len(s) < j - Len(s)
          BY <1>1, <1>6, <2>1
        <4> QED
          BY <2>3, <3>2, <4>1
      <3> QED
        BY <1>2, <3>1, <3>2
    <2> QED
      BY <1>2, <2>2, <2>3
  <1> QED
    BY <1>1, <1>5, <1>6 DEF u

(* The pipeline of several sequences of commands, each all before the next *)
(* one, has their commands in that order.                                  *)
LEMMA PipelineOrder ==
  ASSUME NEW cs, NEW N \in Nat, Len(cs) = N, N # 0,
         \A n \in 1..N : cs[n] \in Seq(Sent),
         \A n \in 1..N : \A i, j \in DOMAIN cs[n] : i < j => Before(cs[n][i], cs[n][j]),
         \A m, n \in 1..N : m < n =>
           \A i \in DOMAIN cs[m] : \A j \in DOMAIN cs[n] : Before(cs[m][i], cs[n][j])
  PROVE  /\ FlattenSeq(cs) \in Seq(Sent)
         /\ Range(FlattenSeq(cs)) = UNION {Range(cs[n]) : n \in 1..N}
         /\ \A i, j \in DOMAIN FlattenSeq(cs) :
              i < j => Before(FlattenSeq(cs)[i], FlattenSeq(cs)[j])
  <1>1. PICK f : /\ FlattenSeq(cs) = f[N]
                 /\ f[1] = cs[1]
                 /\ \A n \in 1..(N - 1) : f[n + 1] = f[n] \o cs[n + 1]
    BY PipelineGrows
  <1> DEFINE Fine(n) == /\ f[n] \in Seq(Sent)
                        /\ Range(f[n]) = UNION {Range(cs[m]) : m \in 1..n}
                        /\ \A i, j \in DOMAIN f[n] : i < j => Before(f[n][i], f[n][j])
             P == {n \in Nat : n \in 1..N => Fine(n)}
  <1>2. 0 \in P
    OBVIOUS
  <1>3. ASSUME NEW n \in Nat, n \in P PROVE n + 1 \in P
    <2>1. SUFFICES ASSUME n + 1 \in 1..N PROVE Fine(n + 1)
      OBVIOUS
    <2>2. CASE n = 0
      <3>1. {Range(cs[m]) : m \in 1..1} = {Range(cs[1])}
        OBVIOUS
      <3>2. 1 \in 1..N /\ n + 1 = 1
        BY <2>1, <2>2
      <3> QED
        BY <1>1, <3>1, <3>2
    <2>3. CASE n # 0
      <3>1. n \in 1..N /\ n \in 1..(N - 1) /\ \A m \in 1..n : m \in 1..N /\ m < n + 1
        BY <2>1, <2>3
      <3>2. Fine(n) /\ f[n + 1] = f[n] \o cs[n + 1]
        BY <1>1, <1>3, <3>1
      <3>3. ASSUME NEW i \in DOMAIN f[n], NEW j \in DOMAIN cs[n + 1]
            PROVE  Before(f[n][i], cs[n + 1][j])
        <4>1. f[n][i] \in UNION {Range(cs[m]) : m \in 1..n}
          BY <3>2 DEF Range
        <4>2. PICK m \in 1..n : f[n][i] \in Range(cs[m])
          BY <4>1
        <4>3. PICK k \in DOMAIN cs[m] : f[n][i] = cs[m][k]
          BY <4>2 DEF Range
        <4> QED
          BY <2>1, <3>1, <4>3
      <3>4. /\ f[n] \o cs[n + 1] \in Seq(Sent)
            /\ Range(f[n] \o cs[n + 1]) = Range(f[n]) \cup Range(cs[n + 1])
            /\ \A i, j \in DOMAIN (f[n] \o cs[n + 1]) :
                 i < j => Before((f[n] \o cs[n + 1])[i], (f[n] \o cs[n + 1])[j])
        BY <2>1, <3>2, <3>3, SentInARow
      <3>5. 1..(n + 1) = (1..n) \cup {n + 1}
        BY <2>3
      <3>6. Range(f[n + 1]) = UNION {Range(cs[m]) : m \in 1..(n + 1)}
        BY <3>2, <3>4, <3>5
      <3> QED
        BY <3>2, <3>4, <3>6
    <2> QED
      BY <2>2, <2>3
  <1> HIDE DEF P
  <1>4. \A n \in Nat : n \in P
    BY <1>2, <1>3, Induction!NatSetInduction
  <1>5. Fine(N)
    <2> HIDE DEF Fine
    <2>1. N \in P /\ N \in 1..N
      BY <1>4
    <2> QED
      BY <2>1 DEF P
  <1> QED
    BY <1>1, <1>5

(* The commands of one message.                                            *)
LEMMA CommandsOf ==
  ASSUME NEW n \in Nat
  PROVE  /\ Commands(n) \in Seq(Sent) /\ DOMAIN Commands(n) = 1..3
         /\ \A i \in 1..3 : Commands(n)[i].msg = n
         /\ \A i, j \in 1..3 : i < j => Before(Commands(n)[i], Commands(n)[j])
  <1>1. CASE msgs[n].kind = "TRADE"
    <2>1. /\ Commands(n) \in Seq(Sent) /\ DOMAIN Commands(n) = 1..3
          /\ Commands(n)[1] = [msg |-> n, to |-> "feed"]
          /\ Commands(n)[2] = [msg |-> n, to |-> "last"]
          /\ Commands(n)[3] = [msg |-> n, to |-> "count"]
      BY <1>1 DEF Commands, Sent
    <2> QED
      BY <2>1 DEF Before
  <1>2. CASE msgs[n].kind # "TRADE"
    <2>1. /\ Commands(n) \in Seq(Sent) /\ DOMAIN Commands(n) = 1..3
          /\ Commands(n)[1] = [msg |-> n, to |-> "bid"]
          /\ Commands(n)[2] = [msg |-> n, to |-> "ask"]
          /\ Commands(n)[3] = [msg |-> n, to |-> "feed"]
      BY <1>2 DEF Commands, Sent
    <2> QED
      BY <2>1 DEF Before
  <1> QED
    BY <1>1, <1>2

(* What a message has a command for.                                       *)
Concerns(n, to) ==
  to \in IF msgs[n].kind = "TRADE" THEN {"feed", "last", "count"} ELSE {"bid", "ask", "feed"}

(* Which commands they are.                                                *)
LEMMA CommandsTo ==
  ASSUME NEW n, NEW to
  PROVE  [msg |-> n, to |-> to] \in Range(Commands(n)) <=> Concerns(n, to)
  <1>1. CASE msgs[n].kind = "TRADE"
    <2>1. Range(Commands(n)) = {[msg |-> n, to |-> "feed"], [msg |-> n, to |-> "last"],
                                [msg |-> n, to |-> "count"]}
      BY <1>1 DEF Commands, Range
    <2> QED
      BY <1>1, <2>1 DEF Concerns
  <1>2. CASE msgs[n].kind # "TRADE"
    <2>1. Range(Commands(n)) = {[msg |-> n, to |-> "bid"], [msg |-> n, to |-> "ask"],
                                [msg |-> n, to |-> "feed"]}
      BY <1>2 DEF Commands, Range
    <2> QED
      BY <1>2, <2>1 DEF Concerns
  <1> QED
    BY <1>1, <1>2

(* Each of them names its message.                                         *)
LEMMA CommandNames ==
  ASSUME NEW n \in Nat, NEW c \in Range(Commands(n))
  PROVE  c \in Sent /\ c.msg = n /\ c = [msg |-> n, to |-> c.to] /\ Concerns(n, c.to)
  <1>0. PICK cs : cs = Commands(n)
    OBVIOUS
  <1>1. PICK i \in DOMAIN cs : c = cs[i]
    BY <1>0 DEF Range
  <1>2. c \in Sent /\ c.msg = n
    <2>1. cs \in Seq(Sent) /\ DOMAIN cs = 1..3 /\ \A k \in 1..3 : cs[k].msg = n
      BY <1>0, CommandsOf
    <2> QED
      BY <1>1, <2>1
  <1>3. c = [msg |-> n, to |-> c.to]
    BY <1>2 DEF Sent
  <1> QED
    BY <1>2, <1>3, CommandsTo

(* What is sent for a batch.                                               *)
LEMMA PipelineOf ==
  ASSUME batch \in Seq(Nat), Rising(batch), NEW w,
         w = FlattenSeq([i \in DOMAIN batch |-> Commands(batch[i])])
  PROVE  /\ w \in Seq(Sent)
         /\ Range(w) = UNION {Range(Commands(n)) : n \in Range(batch)}
         /\ \A i, j \in DOMAIN w : i < j => Before(w[i], w[j])
  <1> DEFINE cs == [i \in DOMAIN batch |-> Commands(batch[i])]
             N == Len(batch)
  <1>1. N \in Nat /\ DOMAIN batch = 1..N /\ \A n \in 1..N : batch[n] \in Nat
    OBVIOUS
  <1>2. \A n \in 1..N :
          /\ cs[n] = Commands(batch[n]) /\ cs[n] \in Seq(Sent)
          /\ DOMAIN cs[n] = 1..3
          /\ \A i \in 1..3 : cs[n][i].msg = batch[n]
          /\ \A i, j \in DOMAIN cs[n] : i < j => Before(cs[n][i], cs[n][j])
    BY <1>1, CommandsOf
  <1>3. cs \in Seq(Seq(Sent)) /\ Len(cs) = N
    BY <1>1, <1>2, Induction!FunctionIsSeq
  <1> HIDE DEF cs
  <1>4. CASE N = 0
    <2>1. cs = <<>>
      BY <1>3, <1>4
    <2>2. w = <<>>
      BY <1>3, <1>4, <2>1 DEF FlattenSeq, cs
    <2>3. Range(batch) = {}
      BY <1>1, <1>4 DEF Range
    <2>5. DOMAIN w = {} /\ w \in Seq(Sent)
      BY <2>2
    <2>6. Range(w) = {}
      BY <2>5 DEF Range
    <2>4. UNION {Range(Commands(n)) : n \in Range(batch)} = {}
      BY <2>3
    <2> QED
      BY <2>4, <2>5, <2>6
  <1>5. CASE N # 0
    <2>1. ASSUME NEW m \in 1..N, NEW n \in 1..N, m < n,
                 NEW i \in DOMAIN cs[m], NEW j \in DOMAIN cs[n]
          PROVE  Before(cs[m][i], cs[n][j])
      <3>1. cs[m][i].msg = batch[m] /\ cs[n][j].msg = batch[n] /\ batch[m] < batch[n]
        BY <1>1, <1>2, <2>1 DEF Rising
      <3> QED
        BY <3>1 DEF Before
    <2>2. /\ FlattenSeq(cs) \in Seq(Sent)
          /\ Range(FlattenSeq(cs)) = UNION {Range(cs[n]) : n \in 1..N}
          /\ \A i, j \in DOMAIN FlattenSeq(cs) :
               i < j => Before(FlattenSeq(cs)[i], FlattenSeq(cs)[j])
      BY <1>1, <1>2, <1>3, <1>5, <2>1, PipelineOrder
    <2>3. w = FlattenSeq(cs)
      BY DEF cs
    <2>4. {Range(cs[n]) : n \in 1..N} = {Range(Commands(n)) : n \in Range(batch)}
      <3>1. Range(batch) = {batch[n] : n \in 1..N}
        BY <1>1 DEF Range
      <3>2. \A n \in 1..N : Range(cs[n]) = Range(Commands(batch[n]))
        BY <1>2
      <3> QED
        BY <3>1, <3>2
    <2> QED
      BY <2>2, <2>3, <2>4
  <1> QED
    BY <1>4, <1>5

(* A sequence and its first element.                                       *)
LEMMA HeadAndTail ==
  ASSUME NEW A, NEW s \in Seq(A), s # <<>>
  PROVE  /\ Tail(s) \in Seq(A) /\ Head(s) = s[1] /\ 1 \in DOMAIN s
         /\ \A i \in DOMAIN Tail(s) : i + 1 \in DOMAIN s /\ Tail(s)[i] = s[i + 1] /\ i \in Nat /\ 1 < i + 1
         /\ Range(s) = {Head(s)} \cup Range(Tail(s))
  <1>1. /\ Tail(s) \in Seq(A) /\ Head(s) = s[1] /\ Len(s) \in Nat \ {0}
        /\ DOMAIN s = 1..Len(s) /\ DOMAIN Tail(s) = 1..(Len(s) - 1)
        /\ \A i \in 1..(Len(s) - 1) : Tail(s)[i] = s[i + 1]
    OBVIOUS
  <1>2. \A i \in DOMAIN Tail(s) : i + 1 \in DOMAIN s /\ Tail(s)[i] = s[i + 1] /\ i \in Nat /\ 1 < i + 1
    BY <1>1
  <1>3. ASSUME NEW i \in DOMAIN s, i # 1 PROVE i - 1 \in DOMAIN Tail(s) /\ Tail(s)[i - 1] = s[i]
    <2>1. i - 1 \in 1..(Len(s) - 1) /\ (i - 1) + 1 = i
      BY <1>1, <1>3
    <2> QED
      BY <1>1, <2>1
  <1>4. 1 \in DOMAIN s
    BY <1>1
  <1>5. Range(s) = {Head(s)} \cup Range(Tail(s))
    <2> DEFINE t == Tail(s)
    <2> HIDE DEF t
    <2>1. Range(s) \subseteq {Head(s)} \cup Range(t)
      <3> SUFFICES ASSUME NEW i \in DOMAIN s PROVE s[i] \in {Head(s)} \cup Range(t)
        BY DEF Range
      <3>1. CASE i = 1
        BY <1>1, <3>1
      <3>2. CASE i # 1
        BY <1>3, <3>2 DEF Range, t
      <3> QED
        BY <3>1, <3>2
    <2>2. Range(t) \subseteq Range(s) /\ Head(s) \in Range(s)
      BY <1>1, <1>2, <1>4 DEF Range, t
    <2> QED
      BY <2>1, <2>2 DEF t
  <1> QED
    BY <1>1, <1>2, <1>4, <1>5

(* A sequence and one more element.                                        *)
LEMMA OneMore ==
  ASSUME NEW A, NEW s \in Seq(A), NEW e \in A
  PROVE  /\ Append(s, e) \in Seq(A) /\ Len(Append(s, e)) = Len(s) + 1 /\ Len(s) \in Nat
         /\ DOMAIN s = 1..Len(s) /\ DOMAIN Append(s, e) = (DOMAIN s) \cup {Len(s) + 1}
         /\ Append(s, e)[Len(s) + 1] = e /\ \A i \in DOMAIN s : Append(s, e)[i] = s[i]
         /\ Range(Append(s, e)) = Range(s) \cup {e}
  <1> DEFINE t == Append(s, e)
  <1>1. /\ t \in Seq(A) /\ Len(t) = Len(s) + 1 /\ Len(s) \in Nat
        /\ DOMAIN s = 1..Len(s) /\ DOMAIN t = 1..(Len(s) + 1)
        /\ t[Len(s) + 1] = e /\ \A i \in 1..Len(s) : t[i] = s[i]
    OBVIOUS
  <1> HIDE DEF t
  <1>2. DOMAIN t = (DOMAIN s) \cup {Len(s) + 1}
    BY <1>1
  <1>3. Range(t) = Range(s) \cup {e}
    BY <1>1, <1>2 DEF Range
  <1> QED
    BY <1>1, <1>2, <1>3 DEF t

(* Redis has processed or refused the first command in flight: it came     *)
(* before the others.                                                      *)
LEMMA FirstInFlight ==
  ASSUME Order, wire # <<>>
  PROVE  /\ Head(wire) \in Sent /\ Tail(wire) \in Seq(Sent)
         /\ Range(wire) = {Head(wire)} \cup Range(Tail(wire))
         /\ \A d \in Range(Tail(wire)) : Before(Head(wire), d) /\ d \in Sent
         /\ \A i, j \in DOMAIN Tail(wire) : i < j => Before(Tail(wire)[i], Tail(wire)[j])
  <1> DEFINE t == Tail(wire)
  <1>0. wire \in Seq(Sent) /\ \A i, j \in DOMAIN wire : i < j => Before(wire[i], wire[j])
    BY DEF Order, Typed, InOrder
  <1>1. /\ t \in Seq(Sent) /\ Head(wire) = wire[1] /\ 1 \in DOMAIN wire
        /\ \A i \in DOMAIN t : i + 1 \in DOMAIN wire /\ t[i] = wire[i + 1] /\ i \in Nat /\ 1 < i + 1
        /\ Range(wire) = {Head(wire)} \cup Range(t)
    BY <1>0, HeadAndTail
  <1> HIDE DEF t
  <1>2. Head(wire) \in Sent
    BY <1>0, <1>1
  <1>3. ASSUME NEW d \in Range(t) PROVE Before(Head(wire), d) /\ d \in Sent
    BY <1>0, <1>1 DEF Range
  <1>4. ASSUME NEW i \in DOMAIN t, NEW j \in DOMAIN t, i < j PROVE Before(t[i], t[j])
    <2>1. i + 1 < j + 1
      BY <1>1, <1>4
    <2> QED
      BY <1>0, <1>1, <2>1
  <1> QED
    BY <1>1, <1>2, <1>3, <1>4 DEF t

------------------------------------------------------------------------------
(* What a step does to the messages. *)

(* Nothing.                                                                *)
Quiet == UNCHANGED <<msgs, wire, redis, lossy>> /\ InHand' = InHand

(* A new message is in hand.                                               *)
Hands ==
  /\ \E m \in Message : msgs' = Append(msgs, m)
  /\ InHand' = InHand \cup {Len(msgs) + 1}
  /\ UNCHANGED <<wire, redis, lossy>>

(* The commands of some of the messages in hand are in flight.             *)
Sends ==
  /\ UNCHANGED <<msgs, redis, lossy>>
  /\ wire = <<>>
  /\ InHand = InHand' \cup Range(batch)
  /\ Range(wire') = UNION {Range(Commands(n)) : n \in Range(batch)}

(* Messages and commands are dropped.                                      *)
Loses ==
  /\ UNCHANGED <<msgs, redis>>
  /\ wire' = <<>>
  /\ InHand' \subseteq InHand
  /\ lossy \subseteq lossy'
  /\ InHand \cup InFlight \subseteq InHand' \cup lossy'

(* There is no other step.                                                 *)
LEMMA Effects ==
  ASSUME Order, [Next]_vars
  PROVE  Quiet \/ Hands \/ Sends \/ Loses \/ Process \/ Refuse
  <1> USE DEF Order
  <1>0. Range(<<>>) = {}
    BY DEF Range
  <1>1. CASE Construct
    BY <1>0, <1>1 DEF Construct, Quiet, InHand, Control, redis
  <1>2. CASE Destroy
    BY <1>2 DEF Destroy, Quiet, InHand, redis
  <1>3. CASE DestroyNotify
    BY <1>3 DEF DestroyNotify, Quiet, InHand, redis, Woken
  <1>4. CASE DestroyReturns
    BY <1>4 DEF DestroyReturns, Quiet, InHand, redis
  <1>5. CASE Crash
    BY <1>0, <1>5 DEF Crash, Loses, InHand, redis
  <1>6. ASSUME NEW m \in Message, Enqueue(m) PROVE Hands
    <2>1. Range(queue') = Range(queue) \cup {Len(msgs) + 1}
      <3>1. queue \in Seq(Nat) /\ Len(msgs) + 1 \in Nat
        BY DEF Typed
      <3>2. Range(Append(queue, Len(msgs) + 1)) = Range(queue) \cup {Len(msgs) + 1}
        BY <3>1, OneMore
      <3> QED
        BY <1>6, <3>2 DEF Enqueue
    <2> QED
      BY <1>6, <2>1 DEF Enqueue, Hands, InHand, redis
  <1>7. CASE OnTrade
    BY <1>6, <1>7 DEF OnTrade, Message
  <1>8. ASSUME NEW top \in TopOfBook, OnTopOfBook(top) PROVE Hands
    BY <1>6, <1>8, MessageAssumption DEF OnTopOfBook, Message
  <1>9. CASE Notify
    BY <1>9 DEF Notify, Quiet, InHand, redis, Woken
  <1>10. CASE Sleeps \/ SpuriousWakeup \/ Exits
    BY <1>10 DEF Sleeps, SpuriousWakeup, Exits, Quiet, InHand, redis
  <1>11. CASE Takes
    BY <1>0, <1>11 DEF Takes, Quiet, InHand, redis
  <1>12. CASE ConnectFails
    <2>1. wire = <<>>
      BY <1>12 DEF ConnectFails, Control
    <2>2. InFlight = {}
      BY <1>0, <2>1 DEF InFlight
    <2> QED
      BY <1>0, <1>12, <2>1, <2>2 DEF ConnectFails, Loses, InHand, redis
  <1>13. CASE Pipelines
    <2>1. wire = <<>>
      BY <1>13 DEF Pipelines, Control
    <2>2. Range(wire') = UNION {Range(Commands(n)) : n \in Range(batch)}
      <3>1. PICK w : w = FlattenSeq([i \in DOMAIN batch |-> Commands(batch[i])])
        OBVIOUS
      <3>2. batch \in Seq(Nat) /\ Rising(batch)
        BY DEF Typed, InOrder
      <3>3. Range(w) = UNION {Range(Commands(n)) : n \in Range(batch)}
        BY <3>1, <3>2, PipelineOf
      <3> QED
        BY <1>13, <3>1, <3>3 DEF Pipelines
    <2> QED
      BY <1>0, <1>13, <2>1, <2>2 DEF Pipelines, Sends, InHand, redis
  <1>14. CASE PipelineEnds
    BY <1>0, <1>14 DEF PipelineEnds, Quiet, InHand, redis
  <1>15. CASE PipelineBreaks
    BY <1>0, <1>15 DEF PipelineBreaks, Loses, InHand, InFlight, redis
  <1>16. CASE UNCHANGED vars
    BY <1>16 DEF vars, Quiet, InHand, redis
  <1> QED
    BY <1>1, <1>2, <1>3, <1>4, <1>5, <1>7, <1>8, <1>9, <1>10, <1>11, <1>12, <1>13, <1>14, <1>15,
       <1>16 DEF Next, Publisher

------------------------------------------------------------------------------
(* The order of the messages is kept. *)

(* No step leaves the types.                                               *)
LEMMA NextTyped == ASSUME Order, [Next]_vars PROVE Typed'
  <1> USE DEF Order, Typed
  <1>0. <<>> \in Seq(Nat) /\ <<>> \in Seq(Sent)
    OBVIOUS
  <1>1. CASE Destroy \/ DestroyNotify \/ DestroyReturns
    <2>1. UNCHANGED <<msgs, queue, batch, wire, keys, count, feed>>
      BY <1>1 DEF Destroy, DestroyNotify, DestroyReturns, redis
    <2> QED
      BY <2>1
  <1>12. CASE Construct
    BY <1>0, <1>12 DEF Construct, redis
  <1>2. CASE Crash
    BY <1>0, <1>2 DEF Crash, redis
  <1>3. ASSUME NEW m \in Message, Enqueue(m) PROVE Typed'
    BY <1>3 DEF Enqueue, redis
  <1>4. CASE OnTrade
    BY <1>3, <1>4 DEF OnTrade, Message
  <1>5. ASSUME NEW top \in TopOfBook, OnTopOfBook(top) PROVE Typed'
    BY <1>3, <1>5, MessageAssumption DEF OnTopOfBook, Message
  <1>6. CASE Notify \/ SpuriousWakeup \/ Sleeps \/ Exits
    <2>1. UNCHANGED <<msgs, queue, batch, wire, keys, count, feed>>
      BY <1>6 DEF Notify, SpuriousWakeup, Sleeps, Exits, redis
    <2> QED
      BY <2>1
  <1>13. CASE Takes
    BY <1>0, <1>13 DEF Takes, redis
  <1>7. CASE ConnectFails
    BY <1>0, <1>7 DEF ConnectFails, redis
  <1>14. CASE PipelineEnds
    BY <1>0, <1>14 DEF PipelineEnds, redis
  <1>15. CASE PipelineBreaks
    BY <1>0, <1>15 DEF PipelineBreaks, redis
  <1>8. CASE Pipelines
    <2>1. PICK w : w = FlattenSeq([i \in DOMAIN batch |-> Commands(batch[i])])
      OBVIOUS
    <2>2. batch \in Seq(Nat) /\ Rising(batch)
      BY DEF InOrder
    <2>3. w \in Seq(Sent)
      BY <2>1, <2>2, PipelineOf
    <2> QED
      BY <1>8, <2>1, <2>3 DEF Pipelines, redis
  <1>9. CASE Process
    <2>1. Head(wire) \in Sent /\ wire' \in Seq(Sent)
      BY <1>9, FirstInFlight DEF Process
    <2>2. Head(wire).msg \in Nat
      BY <2>1 DEF Sent
    <2>3. CASE Head(wire).to \in Key
      <3> DEFINE key == Head(wire).to
                 n == Head(wire).msg
      <3>1. key # "count" /\ key # "feed"
        BY <2>3 DEF Key
      <3>2. keys' = [keys EXCEPT ![key] = Entry(key, n)] /\ count' = count /\ feed' = feed
        BY <1>9, <3>1 DEF Process
      <3>3. Entry(key, n) \in [by : Nat, has : BOOLEAN]
        <4>1. n \in DOMAIN msgs /\ Head(wire) \in Range(Commands(n))
          BY <1>9, FirstInFlight DEF InOrder, Process
        <4>2. Head(wire) = [msg |-> n, to |-> key]
          BY <2>1 DEF Sent
        <4>3. Concerns(n, key)
          BY <4>1, <4>2, CommandsTo
        <4>4. msgs[n] \in Message
          BY <4>1
        <4>5. CASE key = "last"
          BY <2>2, <4>5 DEF Entry
        <4>6. CASE key # "last"
          <5>1. msgs[n].kind # "TRADE" /\ key \in {"bid", "ask"}
            BY <2>3, <4>3, <4>6 DEF Key, Concerns
          <5>2. msgs[n].hasBid \in BOOLEAN /\ msgs[n].hasAsk \in BOOLEAN
            BY <4>4, <5>1 DEF Message
          <5> QED
            BY <2>2, <5>1, <5>2 DEF Entry
        <4> QED
          BY <4>5, <4>6
      <3> QED
        BY <1>9, <2>1, <2>3, <3>2, <3>3 DEF Process, sink
    <2>4. CASE Head(wire).to = "count"
      BY <1>9, <2>1, <2>4 DEF Process, sink, Key
    <2>5. CASE Head(wire).to = "feed"
      <3>1. /\ feed' = Append(feed, Head(wire).msg)
            /\ UNCHANGED <<msgs, queue, batch, keys, count>>
        BY <1>9, <2>5 DEF Process, sink, Key
      <3> QED
        BY <2>1, <2>2, <3>1
    <2> QED
      BY <1>9, <2>3, <2>4, <2>5 DEF Process
  <1>10. CASE Refuse
    BY <1>10, FirstInFlight DEF Refuse, sink, redis
  <1>11. CASE UNCHANGED vars
    BY <1>11 DEF vars
  <1> QED
    BY <1>1, <1>2, <1>4, <1>5, <1>6, <1>7, <1>8, <1>9, <1>10, <1>11, <1>12,
       <1>13, <1>14, <1>15 DEF Next, Publisher

(* The destructor's handshake: the publisher ends when the queue is empty  *)
(* and nobody queues any more.                                             *)
LEMMA NextControl == ASSUME Order, [Next]_vars PROVE Control'
  <1> USE DEF Order, Control
  <1>1. CASE Construct
    BY <1>1 DEF Construct
  <1>2. CASE Destroy
    BY <1>2 DEF Destroy
  <1>3. CASE DestroyNotify
    BY <1>3 DEF DestroyNotify, Woken
  <1>4. CASE DestroyReturns
    BY <1>4 DEF DestroyReturns
  <1>5. CASE Crash
    BY <1>5 DEF Crash
  <1>6. ASSUME NEW m \in Message, Enqueue(m) PROVE Control'
    BY <1>6 DEF Enqueue
  <1>7. CASE OnTrade
    BY <1>6, <1>7 DEF OnTrade, Message
  <1>8. ASSUME NEW top \in TopOfBook, OnTopOfBook(top) PROVE Control'
    BY <1>6, <1>8, MessageAssumption DEF OnTopOfBook, Message
  <1>9. CASE Notify
    BY <1>9 DEF Notify, Woken
  <1>10. CASE SpuriousWakeup
    BY <1>10 DEF SpuriousWakeup
  <1>11. CASE Sleeps \/ Exits
    BY <1>11 DEF Sleeps, Exits
  <1>12. CASE Takes
    BY <1>12 DEF Takes
  <1>13. CASE ConnectFails
    BY <1>13 DEF ConnectFails
  <1>14. CASE Pipelines
    BY <1>14 DEF Pipelines
  <1>15. CASE PipelineEnds \/ PipelineBreaks
    BY <1>15 DEF PipelineEnds, PipelineBreaks
  <1>16. CASE Process \/ Refuse
    BY <1>16 DEF Process, Refuse, sink
  <1>17. CASE UNCHANGED vars
    BY <1>17 DEF vars
  <1> QED
    BY <1>1, <1>2, <1>3, <1>4, <1>5, <1>7, <1>8, <1>9, <1>10, <1>11, <1>12, <1>13, <1>14, <1>15,
       <1>16, <1>17 DEF Next, Publisher

(* What has been said of the older messages stands.                        *)
LEMMA MessagesKept ==
  ASSUME Typed, \/ msgs' = msgs
                \/ \E m \in Message : msgs' = Append(msgs, m)
  PROVE  /\ DOMAIN msgs \subseteq DOMAIN msgs' /\ Len(msgs) \in Nat /\ DOMAIN msgs = 1..Len(msgs)
         /\ \A n \in DOMAIN msgs : msgs'[n] = msgs[n] /\ Commands(n)' = Commands(n)
  <1>1. msgs \in Seq(Message)
    BY DEF Typed
  <1>2. Len(msgs) \in Nat /\ DOMAIN msgs = 1..Len(msgs)
    BY <1>1
  <1>3. DOMAIN msgs \subseteq DOMAIN msgs' /\ \A n \in DOMAIN msgs : msgs'[n] = msgs[n]
    <2>1. CASE msgs' = msgs
      BY <2>1
    <2>2. ASSUME NEW m \in Message, msgs' = Append(msgs, m)
          PROVE  DOMAIN msgs \subseteq DOMAIN msgs' /\ \A n \in DOMAIN msgs : msgs'[n] = msgs[n]
      BY <1>1, <2>2, OneMore
    <2> QED
      BY <2>1, <2>2
  <1>4. \A n \in DOMAIN msgs : Commands(n)' = Commands(n)
    BY <1>3 DEF Commands
  <1> QED
    BY <1>2, <1>3, <1>4

(* Messages are taken, sent and dropped in the order they were queued in.  *)
LEMMA NextInOrder == ASSUME Order, [Next]_vars PROVE InOrder'
  <1> USE DEF Order
  <1>0. Range(<<>>) = {} /\ DOMAIN <<>> = {}
    BY DEF Range
  <1>1. CASE UNCHANGED <<msgs, queue, batch, wire>>
    BY <1>1 DEF InOrder, Rising, Below, Commands
  <1>2. CASE Construct
    BY <1>0, <1>2 DEF Construct, InOrder, Rising, Below, Commands
  <1>3. CASE Crash
    BY <1>0, <1>3 DEF Crash, InOrder, Rising, Below
  <1>4. ASSUME NEW m \in Message, Enqueue(m) PROVE InOrder'
    <2> DEFINE n == Len(msgs) + 1
    <2>1. /\ msgs \in Seq(Message) /\ queue \in Seq(Nat) /\ batch \in Seq(Nat)
          /\ msgs' = Append(msgs, m) /\ queue' = Append(queue, n)
          /\ UNCHANGED <<batch, wire>>
      BY <1>4 DEF Typed, Enqueue
    <2>2. /\ n \in Nat /\ DOMAIN msgs = 1..Len(msgs) /\ Len(msgs) \in Nat
          /\ DOMAIN msgs' = (DOMAIN msgs) \cup {n}
      BY <2>1, OneMore
    <2>3. /\ Range(queue') = Range(queue) \cup {n} /\ Len(queue) \in Nat
          /\ DOMAIN queue = 1..Len(queue)
          /\ DOMAIN queue' = (DOMAIN queue) \cup {Len(queue) + 1}
          /\ queue'[Len(queue) + 1] = n /\ \A i \in DOMAIN queue : queue'[i] = queue[i]
      <3> HIDE DEF n
      <3>1. /\ Range(Append(queue, n)) = Range(queue) \cup {n} /\ Len(queue) \in Nat
            /\ DOMAIN queue = 1..Len(queue)
            /\ DOMAIN Append(queue, n) = (DOMAIN queue) \cup {Len(queue) + 1}
            /\ Append(queue, n)[Len(queue) + 1] = n
            /\ \A i \in DOMAIN queue : Append(queue, n)[i] = queue[i]
        <4>1. queue \in Seq(Nat) /\ n \in Nat
          BY <2>1, <2>2
        <4> QED
          BY <4>1, OneMore
      <3> QED
        BY <2>1, <3>1
    <2>4. /\ \A i \in DOMAIN queue : queue[i] < n
          /\ \A i \in DOMAIN batch : batch[i] < n
      <3>1. \A k \in DOMAIN msgs : k < n
        BY <2>2
      <3> QED
        BY <3>1 DEF InOrder, Range
    <2> HIDE DEF n
    <2>5. Rising(queue')
      BY <2>3, <2>4 DEF InOrder, Rising
    <2>6. Below(batch', queue')
      BY <2>1, <2>3, <2>4 DEF InOrder, Below
    <2>7. Range(queue') \cup Range(batch') \subseteq DOMAIN msgs' /\ Rising(batch')
      BY <2>1, <2>2, <2>3 DEF InOrder
    <2>8. \A k \in DOMAIN msgs : Commands(k)' = Commands(k)
      BY <2>1, MessagesKept
    <2>9. \A c \in Range(wire') : c.msg \in Range(batch') /\ c \in Range(Commands(c.msg)')
      BY <2>1, <2>8 DEF InOrder
    <2>10. \A i, j \in DOMAIN wire' : i < j => Before(wire'[i], wire'[j])
      BY <2>1 DEF InOrder
    <2> QED
      BY <2>5, <2>6, <2>7, <2>9, <2>10 DEF InOrder, Rising, Below
  <1>5. CASE OnTrade
    BY <1>4, <1>5 DEF OnTrade, Message
  <1>6. ASSUME NEW top \in TopOfBook, OnTopOfBook(top) PROVE InOrder'
    BY <1>4, <1>6, MessageAssumption DEF OnTopOfBook, Message
  <1>7. CASE Takes
    <2>1. wire = <<>>
      BY <1>7 DEF Takes, Control
    <2> QED
      BY <1>0, <1>7, <2>1 DEF Takes, InOrder, Rising, Below
  <1>8. CASE ConnectFails \/ PipelineEnds \/ PipelineBreaks
    <2>1. wire' = <<>> /\ batch' = <<>> /\ UNCHANGED <<msgs, queue>>
      BY <1>8 DEF ConnectFails, PipelineEnds, PipelineBreaks, Control
    <2> QED
      BY <1>0, <2>1 DEF InOrder, Rising, Below
  <1>9. CASE Pipelines
    <2>1. PICK w : w = FlattenSeq([i \in DOMAIN batch |-> Commands(batch[i])])
      OBVIOUS
    <2>2. batch \in Seq(Nat) /\ Rising(batch)
      BY DEF Typed, InOrder
    <2>3. /\ Range(w) = UNION {Range(Commands(n)) : n \in Range(batch)}
          /\ \A i, j \in DOMAIN w : i < j => Before(w[i], w[j])
      BY <2>1, <2>2, PipelineOf
    <2>4. wire' = w /\ UNCHANGED <<msgs, queue, batch>>
      BY <1>9, <2>1 DEF Pipelines
    <2>5. ASSUME NEW c \in Range(w) PROVE c.msg \in Range(batch) /\ c \in Range(Commands(c.msg))
      <3>1. PICK n \in Range(batch) : c \in Range(Commands(n))
        BY <2>3
      <3>2. n \in Nat
        BY <2>2, <3>1 DEF Range
      <3>3. c.msg = n
        BY <3>1, <3>2, CommandNames
      <3> QED
        BY <3>1, <3>3
    <2>6. \A c \in Range(wire') : c.msg \in Range(batch') /\ c \in Range(Commands(c.msg)')
      BY <2>4, <2>5 DEF Commands
    <2> QED
      BY <2>3, <2>4, <2>6 DEF InOrder, Rising, Below
  <1>10. CASE Process \/ Refuse
    <2>1. wire # <<>> /\ wire' = Tail(wire) /\ UNCHANGED <<msgs, queue, batch>>
      BY <1>10 DEF Process, Refuse, sink
    <2>2. /\ Range(wire') \subseteq Range(wire)
          /\ \A i, j \in DOMAIN wire' : i < j => Before(wire'[i], wire'[j])
      BY <2>1, FirstInFlight
    <2>3. \A c \in Range(wire') : c.msg \in Range(batch') /\ c \in Range(Commands(c.msg)')
      BY <2>1, <2>2 DEF InOrder, Commands
    <2> QED
      BY <2>1, <2>2, <2>3 DEF InOrder, Rising, Below
  <1>11. CASE Destroy \/ DestroyNotify \/ DestroyReturns \/ Notify \/ SpuriousWakeup
    BY <1>1, <1>11 DEF Destroy, DestroyNotify, DestroyReturns, Notify, SpuriousWakeup
  <1>12. CASE Sleeps \/ Exits \/ UNCHANGED vars
    BY <1>1, <1>12 DEF Sleeps, Exits, vars
  <1> QED
    BY <1>2, <1>3, <1>5, <1>6, <1>7, <1>8, <1>9, <1>10, <1>11, <1>12 DEF Next, Publisher

(* All the commands of the batch are in flight, and no others.             *)
LEMMA SentAll ==
  ASSUME Order, Sends
  PROVE  /\ \A n \in Range(batch) : \A to : Concerns(n, to) => [msg |-> n, to |-> to] \in Range(wire')
         /\ \A c \in Range(wire') : /\ c.msg \in Range(batch) /\ c = [msg |-> c.msg, to |-> c.to]
                                    /\ Concerns(c.msg, c.to)
  <1>1. Range(wire') = UNION {Range(Commands(n)) : n \in Range(batch)}
    BY DEF Sends
  <1>2. \A n \in Range(batch) : n \in Nat
    BY DEF Range, Order, Typed
  <1>3. ASSUME NEW c \in Range(wire')
        PROVE  c.msg \in Range(batch) /\ c = [msg |-> c.msg, to |-> c.to] /\ Concerns(c.msg, c.to)
    <2>1. PICK n \in Range(batch) : c \in Range(Commands(n))
      BY <1>1
    <2>2. c.msg = n /\ c = [msg |-> n, to |-> c.to] /\ Concerns(n, c.to)
      BY <1>2, <2>1, CommandNames
    <2> QED
      BY <2>1, <2>2
  <1>4. ASSUME NEW n \in Range(batch), NEW to, Concerns(n, to)
        PROVE  [msg |-> n, to |-> to] \in Range(wire')
    BY <1>1, <1>4, CommandsTo
  <1> QED
    BY <1>3, <1>4

(* The command Redis has got is of an older message than what is in hand.  *)
LEMMA Got ==
  ASSUME Order, Process \/ Refuse, NEW c, c = Head(wire)
  PROVE  /\ c \in Sent /\ c \in Range(Commands(c.msg)) /\ c = [msg |-> c.msg, to |-> c.to]
         /\ c.msg \in DOMAIN msgs /\ DOMAIN msgs = 1..Len(msgs) /\ Len(msgs) \in Nat
         /\ Range(wire) = {c} \cup Range(wire') /\ Range(wire) \subseteq Sent
         /\ \A d \in Range(wire') : Before(c, d)
         /\ UNCHANGED <<msgs, queue, batch, publisher, InHand>>
         /\ \A n \in InHand : c.msg < n
  <1> USE DEF Order
  <1>0. Range(<<>>) = {}
    BY DEF Range
  <1>1. wire # <<>> /\ wire' = Tail(wire) /\ UNCHANGED <<msgs, queue, batch, publisher>>
    BY DEF Process, Refuse, sink
  <1>2. /\ c \in Sent /\ Range(wire) = {c} \cup Range(wire')
        /\ \A d \in Range(wire') : Before(c, d) /\ d \in Sent
    BY <1>1, FirstInFlight
  <1>3. InHand' = InHand
    BY <1>1 DEF InHand
  <1>4. InHand = Range(queue)
    BY <1>0, <1>1 DEF InHand, Control
  <1>5. c.msg \in Range(batch) /\ c \in Range(Commands(c.msg))
    BY <1>2 DEF InOrder
  <1>6. \A n \in InHand : c.msg < n
    BY <1>4, <1>5 DEF InOrder, Below, Range
  <1>7. c.msg \in DOMAIN msgs /\ Len(msgs) \in Nat /\ DOMAIN msgs = 1..Len(msgs)
    BY <1>5 DEF InOrder, Typed
  <1>8. c = [msg |-> c.msg, to |-> c.to]
    BY <1>2 DEF Sent
  <1> QED
    BY <1>1, <1>2, <1>3, <1>5, <1>6, <1>7, <1>8

(* What waits is newer than what Redis has.                                *)
LEMMA NextBehind == ASSUME Order, [Next]_vars PROVE Behind'
  <1> USE DEF Order
  <1>0. Range(<<>>) = {}
    BY DEF Range
  <1>1. CASE Quiet
    BY <1>1 DEF Quiet, Behind, redis
  <1>2. CASE Hands
    <2>1. PICK m \in Message : msgs' = Append(msgs, m)
      BY <1>2 DEF Hands
    <2>2. /\ msgs \in Seq(Message) /\ Len(msgs) \in Nat /\ Len(msgs') = Len(msgs) + 1
          /\ DOMAIN msgs = 1..Len(msgs) /\ DOMAIN msgs \subseteq DOMAIN msgs'
      BY <2>1, OneMore DEF Typed
    <2>3. UNCHANGED <<wire, keys, feed>> /\ InHand' = InHand \cup {Len(msgs) + 1}
      BY <1>2 DEF Hands, redis
    <2>4. ASSUME NEW key \in Key
          PROVE  /\ keys[key].by \in 0..Len(msgs')
                 /\ \A n \in InHand' : keys[key].by < n
      BY <2>2, <2>3 DEF Behind
    <2>5. ASSUME NEW m1 \in Range(feed) PROVE m1 \in DOMAIN msgs' /\ \A n \in InHand' : m1 < n
      BY <2>2, <2>3 DEF Behind
    <2> QED
      BY <2>3, <2>4, <2>5 DEF Behind
  <1>3. CASE Sends
    <2>1. UNCHANGED <<msgs, keys, feed>> /\ InHand = InHand' \cup Range(batch)
      BY <1>3 DEF Sends, redis
    <2>2. ASSUME NEW c \in Range(wire') PROVE c.msg \in InHand
      BY <1>3, <2>1, SentAll
    <2>3. ASSUME NEW key \in Key, NEW n \in InHand PROVE keys[key].by < n /\ keys[key].by <= n
      <3>1. keys[key].by < n /\ keys[key].by \in Nat
        BY DEF Behind, Typed
      <3>2. n \in Int
        BY DEF InHand, Typed, Range
      <3> QED
        BY <3>1, <3>2
    <2> QED
      BY <2>1, <2>2, <2>3 DEF Behind
  <1>4. CASE Loses
    BY <1>0, <1>4 DEF Loses, Behind, redis
  <1>5. CASE Process \/ Refuse
    <2>1. PICK c : c = Head(wire)
      OBVIOUS
    <2>2. /\ c.msg \in DOMAIN msgs /\ DOMAIN msgs = 1..Len(msgs) /\ Len(msgs) \in Nat
          /\ Range(wire) = {c} \cup Range(wire') /\ Range(wire) \subseteq Sent
          /\ \A d \in Range(wire') : Before(c, d)
          /\ msgs' = msgs /\ InHand' = InHand
          /\ \A n \in InHand : c.msg < n
      BY <1>5, <2>1, Got
    <2>3. \A d \in Range(wire') : c.msg <= d.msg /\ (d.to = c.to => c.msg < d.msg)
      BY <2>2 DEF Before, Sent
    <2>9. CASE UNCHANGED <<keys, feed>>
      BY <2>2, <2>9 DEF Behind
    <2>10. CASE c.to \in Key /\ keys' = [keys EXCEPT ![c.to] = Entry(c.to, c.msg)] /\ feed' = feed
      <3>1. ASSUME NEW key \in Key
            PROVE  /\ keys'[key].by \in 0..Len(msgs)
                   /\ \A n \in InHand : keys'[key].by < n
                   /\ \A d \in Range(wire') :
                        keys'[key].by <= d.msg /\ (d.to = key => keys'[key].by < d.msg)
        <4>1. CASE key = c.to
          <5>1. keys'[key].by = c.msg
            BY <2>10, <4>1 DEF Typed, Entry
          <5> QED
            BY <2>2, <2>3, <4>1, <5>1
        <4>2. CASE key # c.to
          <5>1. keys'[key] = keys[key]
            BY <2>10, <4>2 DEF Typed
          <5> QED
            BY <2>2, <5>1 DEF Behind
        <4> QED
          BY <4>1, <4>2
      <3> QED
        BY <2>2, <2>10, <3>1 DEF Behind
    <2>11. CASE c.to = "feed" /\ feed' = Append(feed, c.msg) /\ keys' = keys
      <3>1. Range(feed') = Range(feed) \cup {c.msg}
        <4>1. feed \in Seq(Nat) /\ c.msg \in Nat
          BY <2>2 DEF Typed
        <4>2. Range(Append(feed, c.msg)) = Range(feed) \cup {c.msg}
          BY <4>1, OneMore
        <4> QED
          BY <2>11, <4>2
      <3>2. ASSUME NEW m \in Range(feed')
            PROVE  /\ m \in DOMAIN msgs /\ \A n \in InHand : m < n
                   /\ \A d \in Range(wire') : d.to = "feed" => m < d.msg
        <4>1. CASE m = c.msg
          BY <2>2, <2>3, <2>11, <4>1
        <4>2. CASE m \in Range(feed)
          BY <2>2, <4>2 DEF Behind
        <4> QED
          BY <3>1, <4>1, <4>2
      <3> QED
        BY <2>2, <2>11, <3>2 DEF Behind
    <2> QED
      BY <1>5, <2>1, <2>9, <2>10, <2>11 DEF Process, Refuse, redis
  <1> QED
    BY <1>1, <1>2, <1>3, <1>4, <1>5, Effects

(* So the order is an invariant.                                           *)
LEMMA NextOrder == Order /\ [Next]_vars => Order'
  BY NextTyped, NextControl, NextInOrder, NextBehind DEF Order

------------------------------------------------------------------------------
(* Bid and ask. *)

(* The two commands of a message about the book go one after the other.    *)
LEMMA NextPaired == ASSUME Order, Paired, [Next]_vars PROVE Paired'
  <1>0. Range(<<>>) = {}
    BY DEF Range
  <1>1. CASE Quiet \/ Hands
    BY <1>1 DEF Quiet, Hands, Paired, redis
  <1>2. CASE Sends
    <2>2. ASSUME NEW c \in Range(wire'), c.to \in {"bid", "ask"}
          PROVE  /\ [msg |-> c.msg, to |-> "ask"] \in Range(wire')
                 /\ [msg |-> c.msg, to |-> "bid"] \in Range(wire')
      <3>1. c.msg \in Range(batch) /\ Concerns(c.msg, c.to)
        BY <1>2, SentAll
      <3>2. Concerns(c.msg, "ask") /\ Concerns(c.msg, "bid")
        BY <2>2, <3>1 DEF Concerns
      <3> QED
        BY <1>2, <3>1, <3>2, SentAll
    <2> QED
      BY <2>2 DEF Paired
  <1>3. CASE Loses
    BY <1>0, <1>3 DEF Loses, Paired
  <1>4. CASE Process \/ Refuse
    <2>1. PICK c : c = Head(wire)
      OBVIOUS
    <2>2. /\ c = [msg |-> c.msg, to |-> c.to] /\ c \in Sent
          /\ Range(wire) = {c} \cup Range(wire') /\ Range(wire) \subseteq Sent
          /\ \A d \in Range(wire') : Before(c, d)
      BY <1>4, <2>1, Got
    <2>3. ASSUME NEW d \in Range(wire'), d.to = "bid"
          PROVE  [msg |-> d.msg, to |-> "ask"] \in Range(wire')
      <3>1. [msg |-> d.msg, to |-> "ask"] \in Range(wire)
        BY <2>2, <2>3 DEF Paired
      <3>2. ASSUME c = [msg |-> d.msg, to |-> "ask"] PROVE FALSE
        <4>1. c.msg = d.msg /\ c.to = "ask" /\ Before(c, d) /\ d.msg \in Nat
          BY <2>2, <3>2 DEF Sent
        <4> QED
          BY <2>3, <4>1 DEF Before
      <3> QED
        BY <2>2, <3>1, <3>2
    <2>4. ASSUME NEW d \in Range(wire'), d.to = "ask"
          PROVE  \/ [msg |-> d.msg, to |-> "bid"] \in Range(wire')
                 \/ keys'["bid"].by = d.msg
                 \/ d.msg \in lossy'
      <3>1. /\ d.msg \in Nat /\ c.msg \in Nat /\ c.msg <= d.msg
            /\ keys \in [Key -> [by : Nat, has : BOOLEAN]]
        BY <2>2 DEF Sent, Before, Order, Typed
      <3>2. lossy \subseteq lossy'
        BY <1>4 DEF Process, Refuse
      <3>3. CASE c = [msg |-> d.msg, to |-> "bid"]
        <4>1. c.msg = d.msg /\ c.to = "bid"
          BY <3>3
        <4>2. CASE Process
          <5>1. keys' = [keys EXCEPT !["bid"] = Entry("bid", d.msg)]
            BY <2>1, <4>1, <4>2 DEF Process, Key
          <5> QED
            BY <3>1, <5>1 DEF Key, Entry
        <4>3. CASE Refuse
          BY <2>1, <4>1, <4>3 DEF Refuse
        <4> QED
          BY <1>4, <4>2, <4>3
      <3>4. CASE keys["bid"].by = d.msg
        <4>1. c.to # "bid"
          <5>1. c.to = "bid" => keys["bid"].by < c.msg
            BY <2>2 DEF Order, Behind, Key
          <5> QED
            BY <3>1, <3>4, <5>1
        <4>2. keys'["bid"] = keys["bid"]
          BY <1>4, <2>1, <3>1, <4>1 DEF Process, Refuse, redis, Key
        <4> QED
          BY <3>4, <4>2
      <3>5. \/ [msg |-> d.msg, to |-> "bid"] \in Range(wire)
            \/ keys["bid"].by = d.msg
            \/ d.msg \in lossy
        BY <2>2, <2>4 DEF Paired
      <3> QED
        BY <2>2, <3>2, <3>3, <3>4, <3>5
    <2> QED
      BY <2>3, <2>4 DEF Paired
  <1> QED
    BY <1>1, <1>2, <1>3, <1>4, Effects

(* A key is written by the last message that Redis got for it.             *)
LEMMA KeysGrow ==
  ASSUME Order, Process, NEW c, c = Head(wire)
  PROVE  /\ \A key \in Key : key # c.to => keys'[key] = keys[key]
         /\ c.to \in Key => keys'[c.to] = Entry(c.to, c.msg) /\ keys'[c.to].by = c.msg
         /\ \A key \in Key : keys[key].by <= keys'[key].by /\ keys[key].by \in Nat
         /\ \A n, key : Entry(key, n)' = Entry(key, n)
  <1>1. keys \in [Key -> [by : Nat, has : BOOLEAN]]
    BY DEF Order, Typed
  <1>2. \/ /\ c.to \in Key
           /\ keys' = [keys EXCEPT ![c.to] = Entry(c.to, c.msg)]
        \/ c.to \notin Key /\ keys' = keys
    BY DEF Process, Key
  <1>3. \A n, key : Entry(key, n)' = Entry(key, n)
    BY DEF Process, Entry
  <1>4. c \in Range(wire) /\ c.msg \in Nat
    BY Got DEF Sent
  <1>5. \A key \in Key : c.to = key => keys[key].by < c.msg
    BY <1>4 DEF Order, Behind
  <1>6. c.to \in Key => keys'[c.to] = Entry(c.to, c.msg) /\ keys'[c.to].by = c.msg
    <2>1. Entry(c.to, c.msg).by = c.msg
      BY DEF Entry
    <2> QED
      BY <1>1, <1>2, <2>1
  <1>7. \A key \in Key : key # c.to => keys'[key] = keys[key]
    BY <1>1, <1>2
  <1>8. ASSUME NEW key \in Key PROVE keys[key].by <= keys'[key].by /\ keys[key].by \in Nat
    BY <1>1, <1>4, <1>5, <1>6, <1>7
  <1> QED
    BY <1>3, <1>6, <1>7, <1>8

(* Bid and ask of different messages: the newer message has lost its ask   *)
(* or its bid, or its ask comes next.                                      *)
LEMMA NextTorn ==
  ASSUME Order, Order', Paired, TornOnlyByLoss, [Next]_vars
  PROVE  TornOnlyByLoss'
  <1> DEFINE bid == keys["bid"].by
             ask == keys["ask"].by
  <1>0. Range(<<>>) = {}
    BY DEF Range
  <1>1. bid \in Nat /\ ask \in Nat
    BY DEF Order, Typed, Key
  <1>2. bid \notin InHand /\ ask \notin InHand
    <2>1. \A n \in InHand : bid < n /\ ask < n
      BY DEF Order, Behind, Key
    <2> QED
      BY <1>1, <2>1
  <1>3. SUFFICES ASSUME bid' # ask',
                        NEW n, n = IF bid' > ask' THEN bid' ELSE ask', n \notin lossy'
                 PROVE  Waiting(n, "ask")'
    BY DEF TornOnlyByLoss
  <1>4. ASSUME bid # ask, NEW k, k = IF bid > ask THEN bid ELSE ask, k \notin lossy
        PROVE  [msg |-> k, to |-> "ask"] \in Range(wire)
    BY <1>2, <1>4 DEF TornOnlyByLoss, Waiting
  <1>5. CASE Quiet \/ Hands
    <2>1. UNCHANGED <<keys, lossy, wire>>
      BY <1>5 DEF Quiet, Hands, redis
    <2>2. [msg |-> n, to |-> "ask"] \in Range(wire)
      BY <1>3, <1>4, <2>1
    <2> QED
      BY <2>1, <2>2 DEF Waiting
  <1>6. CASE Sends
    <2>1. UNCHANGED <<keys, lossy>> /\ wire = <<>>
      BY <1>6 DEF Sends, redis
    <2> QED
      BY <1>0, <1>3, <1>4, <2>1
  <1>7. CASE Loses
    <2>1. /\ keys' = keys /\ lossy \subseteq lossy'
          /\ InFlight \subseteq InHand' \cup lossy' /\ InHand' \subseteq InHand
      BY <1>7 DEF Loses, redis
    <2>2. n \in {bid, ask} /\ [msg |-> n, to |-> "ask"] \in Range(wire)
      BY <1>3, <1>4, <2>1
    <2>3. n \in InFlight
      BY <2>2 DEF InFlight
    <2> QED
      BY <1>2, <1>3, <2>1, <2>2, <2>3
  <1>8. CASE Process \/ Refuse
    <2>1. PICK c : c = Head(wire)
      OBVIOUS
    <2>2. /\ c = [msg |-> c.msg, to |-> c.to] /\ c \in Sent
          /\ Range(wire) = {c} \cup Range(wire') /\ Range(wire) \subseteq Sent
          /\ \A d \in Range(wire') : Before(c, d)
      BY <1>8, <2>1, Got
    <2>3. CASE Refuse
      <3>1. UNCHANGED keys /\ lossy' = lossy \cup {c.msg}
        BY <2>1, <2>3 DEF Refuse, redis
      <3>2. [msg |-> n, to |-> "ask"] \in Range(wire) /\ n # c.msg
        BY <1>3, <1>4, <3>1
      <3>3. [msg |-> n, to |-> "ask"] \in Range(wire')
        BY <2>2, <3>2
      <3> QED
        BY <3>3 DEF Waiting
    <2>4. CASE Process
      <3>1. /\ \A key \in Key : key # c.to => keys'[key] = keys[key]
            /\ c.to \in Key => keys'[c.to].by = c.msg
        BY <2>1, <2>4, KeysGrow
      <3>2. lossy' = lossy
        BY <2>4 DEF Process
      <3>3. CASE c.to = "bid"
        <4>1. bid' = c.msg /\ ask' = ask /\ ask <= c.msg /\ c.msg \in Nat
          BY <2>2, <3>1, <3>3 DEF Key, Order, Behind, Sent
        <4>2. n = c.msg
          BY <1>1, <1>3, <4>1
        <4>3. [msg |-> c.msg, to |-> "ask"] \in Range(wire)
          BY <2>2, <3>3 DEF Paired
        <4>4. [msg |-> c.msg, to |-> "ask"] # c
          BY <2>2, <3>3
        <4> QED
          BY <2>2, <4>2, <4>3, <4>4 DEF Waiting
      <3>4. CASE c.to = "ask"
        <4>1. ask' = c.msg /\ bid' = bid /\ bid <= c.msg /\ c.msg \in Nat
          BY <2>2, <3>1, <3>4 DEF Key, Order, Behind, Sent
        <4>2. n = c.msg /\ bid # c.msg
          BY <1>1, <1>3, <4>1
        <4>3. [msg |-> c.msg, to |-> "bid"] \in Range(wire)
          BY <1>3, <2>2, <3>2, <3>4, <4>2 DEF Paired
        <4>4. [msg |-> c.msg, to |-> "bid"] \in Range(wire')
          BY <2>2, <3>4, <4>3
        <4>5. Before(c, [msg |-> c.msg, to |-> "bid"])
          BY <2>2, <4>4
        <4> QED
          BY <3>4, <4>1, <4>5 DEF Before
      <3>5. CASE c.to \notin {"bid", "ask"}
        <4>1. keys'["bid"] = keys["bid"] /\ keys'["ask"] = keys["ask"]
          BY <3>1, <3>5 DEF Key
        <4>2. [msg |-> n, to |-> "ask"] \in Range(wire)
          BY <1>3, <1>4, <3>2, <4>1
        <4>3. [msg |-> n, to |-> "ask"] # c
          BY <2>2, <3>5
        <4> QED
          BY <2>2, <4>2, <4>3 DEF Waiting
      <3> QED
        BY <3>3, <3>4, <3>5
    <2> QED
      BY <1>8, <2>3, <2>4
  <1> QED
    BY <1>5, <1>6, <1>7, <1>8, Effects

------------------------------------------------------------------------------
(* The cached keys. *)

(* A command of a message still waits, is lost, or has just been           *)
(* processed.                                                              *)
LEMMA WaitsOn ==
  ASSUME Order, [Next]_vars, NEW n \in DOMAIN msgs, NEW to, Concerns(n, to), Waiting(n, to)
  PROVE  \/ Waiting(n, to)'
         \/ n \in lossy'
         \/ Process /\ Head(wire) = [msg |-> n, to |-> to]
  <1>1. CASE Quiet \/ Hands
    BY <1>1 DEF Quiet, Hands, Waiting
  <1>2. CASE Sends
    <2>1. wire = <<>> /\ InHand = InHand' \cup Range(batch)
      BY <1>2 DEF Sends
    <2>2. n \in InHand
      BY <2>1 DEF Waiting, Range
    <2> QED
      BY <1>2, <2>1, <2>2, SentAll DEF Waiting
  <1>3. CASE Loses
    <2>1. n \in InHand \cup InFlight
      BY DEF Waiting, InFlight
    <2> QED
      BY <1>3, <2>1 DEF Loses, Waiting
  <1>4. CASE Process \/ Refuse
    <2>1. PICK c : c = Head(wire)
      OBVIOUS
    <2>2. Range(wire) = {c} \cup Range(wire') /\ InHand' = InHand
      BY <1>4, <2>1, Got
    <2>3. CASE c = [msg |-> n, to |-> to]
      <3>1. c.msg = n
        BY <2>3
      <3> QED
        BY <1>4, <2>1, <2>3, <3>1 DEF Refuse
    <2> QED
      BY <2>2, <2>3 DEF Waiting
  <1> QED
    BY <1>1, <1>2, <1>3, <1>4, Effects

(* A new message is in hand.                                               *)
LEMMA NewWaits ==
  ASSUME Order, [Next]_vars, NEW n \in DOMAIN msgs', n \notin DOMAIN msgs
  PROVE  n \in InHand' /\ Hands /\ n = Len(msgs) + 1
  <1>1. CASE Hands
    <2>1. PICK m \in Message : msgs' = Append(msgs, m)
      BY <1>1 DEF Hands
    <2>2. DOMAIN msgs' = (DOMAIN msgs) \cup {Len(msgs) + 1}
      BY <2>1, OneMore DEF Order, Typed
    <2> QED
      BY <1>1, <2>2 DEF Hands
  <1>2. CASE Quiet \/ Sends \/ Loses \/ Process \/ Refuse
    BY <1>2 DEF Quiet, Sends, Loses, Process, Refuse
  <1> QED
    BY <1>1, <1>2, Effects

(* Messages are only added.                                                *)
LEMMA NextMessages ==
  ASSUME Order, [Next]_vars
  PROVE  /\ DOMAIN msgs \subseteq DOMAIN msgs' /\ DOMAIN msgs = 1..Len(msgs) /\ Len(msgs) \in Nat
         /\ \A n \in DOMAIN msgs : msgs'[n] = msgs[n]
         /\ lossy \subseteq lossy'
  <1>1. msgs' = msgs \/ \E m \in Message : msgs' = Append(msgs, m)
    BY Effects DEF Quiet, Sends, Loses, Hands, Process, Refuse
  <1>2. lossy \subseteq lossy'
    BY Effects DEF Quiet, Sends, Loses, Hands, Process, Refuse
  <1> QED
    BY <1>1, <1>2, MessagesKept DEF Order

(* Redis is written to by processing a command only.                       *)
LEMMA RedisKept ==
  ASSUME Order, [Next]_vars
  PROVE  Process \/ UNCHANGED redis
  BY Effects DEF Quiet, Hands, Sends, Loses, Refuse

(* What is on its way to a key is newer than what it holds, and a message  *)
(* that is through and has lost no command is not newer.                   *)
LEMMA NextCache == ASSUME Order, Order', CacheIsLatest, [Next]_vars PROVE CacheIsLatest'
  <1> DEFINE About(key) == IF key = "last" THEN Trades ELSE Books
  <1>0. /\ DOMAIN msgs \subseteq DOMAIN msgs' /\ DOMAIN msgs = 1..Len(msgs) /\ Len(msgs) \in Nat
        /\ \A n \in DOMAIN msgs : msgs'[n] = msgs[n]
        /\ lossy \subseteq lossy'
    BY NextMessages
  <1> SUFFICES ASSUME NEW key \in Key
               PROVE  /\ \A n \in About(key)' :
                           IF Waiting(n, key)' THEN keys'[key].by < n
                                               ELSE n \in lossy' \/ n <= keys'[key].by
                      /\ keys'[key].by # 0 => keys'[key] = Entry(key, keys[key].by)'
    BY DEF CacheIsLatest
  <1>1. keys[key].by <= keys'[key].by /\ keys[key].by \in Nat /\ keys'[key].by \in Nat
    <2>1. keys[key].by \in Nat /\ keys'[key].by \in Nat
      BY DEF Order, Typed
    <2>2. CASE Process
      BY <2>1, <2>2, KeysGrow
    <2>3. CASE UNCHANGED redis
      BY <2>1, <2>3 DEF redis
    <2> QED
      BY <2>1, <2>2, <2>3, RedisKept
  <1>2. ASSUME NEW n \in About(key)', n \notin lossy', ~Waiting(n, key)'
        PROVE  n <= keys'[key].by
    <2>1. n \in DOMAIN msgs
      <3>1. n \in DOMAIN msgs'
        BY <1>2 DEF Trades, Books
      <3>2. n \notin InHand'
        BY <1>2 DEF Waiting
      <3> QED
        BY <3>1, <3>2, NewWaits
    <2>2. n \in About(key)
      BY <1>0, <1>2, <2>1 DEF Trades, Books
    <2>3. Concerns(n, key)
      BY <2>2 DEF Trades, Books, Concerns, Key
    <2>4. n \in lossy \/ Waiting(n, key) \/ n <= keys[key].by
      BY <2>2 DEF CacheIsLatest
    <2>5. CASE Waiting(n, key)
      <3>1. Process /\ Head(wire) = [msg |-> n, to |-> key]
        BY <1>2, <2>1, <2>3, <2>5, WaitsOn
      <3>2. keys'[key].by = n
        BY <3>1, KeysGrow
      <3> QED
        BY <1>0, <2>1, <3>2
    <2>6. CASE n <= keys[key].by
      BY <1>0, <1>1, <2>1, <2>6
    <2> QED
      BY <1>0, <1>2, <2>4, <2>5, <2>6
  <1>3. ASSUME keys'[key].by # 0 PROVE keys'[key] = Entry(key, keys[key].by)'
    <2>1. ASSUME keys'[key] = keys[key] PROVE keys'[key] = Entry(key, keys[key].by)'
      <3>1. keys[key] = Entry(key, keys[key].by) /\ keys[key].by \in DOMAIN msgs
        BY <1>0, <1>1, <1>3, <2>1 DEF CacheIsLatest, Order, Behind
      <3>3. msgs'[keys[key].by] = msgs[keys[key].by]
        BY <1>0, <3>1
      <3> QED
        BY <2>1, <3>1, <3>3 DEF Entry
    <2>2. CASE Process
      <3>1. PICK c : c = Head(wire)
        OBVIOUS
      <3>2. CASE key = c.to
        <4>1. keys'[key] = Entry(key, c.msg) /\ keys'[key].by = c.msg
          BY <2>2, <3>1, <3>2, KeysGrow
        <4>2. msgs' = msgs
          BY <2>2 DEF Process
        <4> QED
          BY <4>1, <4>2 DEF Entry
      <3>3. CASE key # c.to
        BY <2>1, <2>2, <3>1, <3>3, KeysGrow
      <3> QED
        BY <3>2, <3>3
    <2>3. CASE UNCHANGED redis
      BY <2>1, <2>3 DEF redis
    <2> QED
      BY <2>2, <2>3, RedisKept
  <1>4. ASSUME NEW n \in About(key)', Waiting(n, key)'
        PROVE  keys'[key].by < n
    BY <1>4 DEF Waiting, Order, Behind
  <1> QED
    BY <1>2, <1>3, <1>4

------------------------------------------------------------------------------
(* The feed and the counter. *)

(* The trades whose INCR does not wait, and those of them that lost none   *)
(* of their commands.                                                      *)
Settled == {n \in Trades : ~Waiting(n, "count")}
Intact  == {n \in Trades : n \notin lossy /\ ~Waiting(n, "count")}

FeedInOrder ==
  /\ \A i, j \in DOMAIN feed : i < j => feed[i] < feed[j]
  /\ \A n \in DOMAIN msgs : n \in lossy \/ Waiting(n, "feed") \/ n \in Range(feed)

Counted == count <= Cardinality(Settled) /\ Cardinality(Intact) <= count

(* They are finite.                                                        *)
LEMMA TradesFinite ==
  ASSUME Order
  PROVE  /\ IsFiniteSet(Settled) /\ Cardinality(Settled) \in Nat
         /\ IsFiniteSet(Intact) /\ Cardinality(Intact) \in Nat
         /\ count \in Nat
  <1>1. Len(msgs) \in Nat /\ DOMAIN msgs = 1..Len(msgs) /\ count \in Nat
    BY DEF Order, Typed
  <1>2. Settled \subseteq 1..Len(msgs) /\ Intact \subseteq 1..Len(msgs)
    BY <1>1 DEF Settled, Intact, Trades
  <1>3. IsFiniteSet(1..Len(msgs))
    BY <1>1, FS_Interval
  <1>4. IsFiniteSet(Settled) /\ IsFiniteSet(Intact)
    BY <1>2, <1>3, FS_Subset
  <1> QED
    BY <1>1, <1>4, FS_CardinalityType

(* After a step too.                                                       *)
LEMMA TradesFiniteNext ==
  ASSUME Order'
  PROVE  /\ IsFiniteSet(Settled') /\ Cardinality(Settled') \in Nat
         /\ IsFiniteSet(Intact') /\ Cardinality(Intact') \in Nat
         /\ count' \in Nat
  <1>1. Len(msgs') \in Nat /\ DOMAIN msgs' = 1..Len(msgs') /\ count' \in Nat
    BY DEF Order, Typed
  <1>2. Settled' \subseteq 1..Len(msgs') /\ Intact' \subseteq 1..Len(msgs')
    BY <1>1 DEF Settled, Intact, Trades
  <1>3. IsFiniteSet(1..Len(msgs'))
    BY <1>1, FS_Interval
  <1>4. IsFiniteSet(Settled') /\ IsFiniteSet(Intact')
    BY <1>2, <1>3, FS_Subset
  <1> QED
    BY <1>1, <1>4, FS_CardinalityType

(* The two bounds are what the property says.                              *)
LEMMA FeedParts == ASSUME Order PROVE FeedAtMostOnce <=> FeedInOrder /\ Counted
  <1>1. Cardinality(Intact) <= count <=> count >= Cardinality(Intact)
    BY TradesFinite
  <1> QED
    BY <1>1 DEF FeedAtMostOnce, FeedInOrder, Counted, Settled, Intact

(* After a step too.                                                       *)
LEMMA FeedPartsNext == ASSUME Order', FeedInOrder', Counted' PROVE FeedAtMostOnce'
  <1>1. count' >= Cardinality(Intact')
    BY TradesFiniteNext DEF Counted
  <1> QED
    BY <1>1 DEF FeedAtMostOnce, FeedInOrder, Counted, Settled, Intact

(* A message is published once, after the older ones.                      *)
LEMMA NextFeed == ASSUME Order, Order', FeedInOrder, [Next]_vars PROVE FeedInOrder'
  <1>0. /\ DOMAIN msgs \subseteq DOMAIN msgs' /\ lossy \subseteq lossy'
        /\ feed \in Seq(Nat) /\ feed' \in Seq(Nat)
    BY NextMessages DEF Order, Typed
  <1>1. PICK c : c = Head(wire)
    OBVIOUS
  <1>2. \/ feed' = feed
        \/ Process /\ c.to = "feed" /\ feed' = Append(feed, c.msg)
    BY <1>1, RedisKept DEF Process, redis
  <1>3. Range(feed) \subseteq Range(feed')
    <2>1. CASE feed' = feed
      BY <2>1
    <2>2. CASE Process /\ c.to = "feed" /\ feed' = Append(feed, c.msg)
      <3>1. c.msg \in Nat
        BY <1>1, <2>2, Got DEF Sent
      <3>2. Range(Append(feed, c.msg)) = Range(feed) \cup {c.msg}
        BY <1>0, <3>1, OneMore
      <3> QED
        BY <2>2, <3>2
    <2> QED
      BY <1>2, <2>1, <2>2
  <1>4. \A i, j \in DOMAIN feed' : i < j => feed'[i] < feed'[j]
    <2>1. CASE feed' = feed
      BY <2>1 DEF FeedInOrder
    <2>2. CASE Process /\ c.to = "feed" /\ feed' = Append(feed, c.msg)
      <3>1. c.msg \in Nat /\ c \in Range(wire)
        BY <1>1, <2>2, Got DEF Sent
      <3>2. \A m \in Range(feed) : m < c.msg
        BY <2>2, <3>1 DEF Order, Behind
      <3>3. \A i \in DOMAIN feed : feed[i] < c.msg
        BY <3>2 DEF Range
      <3>4. PICK f, n : f = feed /\ n = c.msg
        OBVIOUS
      <3>5. /\ Len(f) \in Nat /\ DOMAIN f = 1..Len(f)
            /\ DOMAIN Append(f, n) = (DOMAIN f) \cup {Len(f) + 1}
            /\ Append(f, n)[Len(f) + 1] = n /\ \A i \in DOMAIN f : Append(f, n)[i] = f[i]
        BY <1>0, <3>1, <3>4, OneMore
      <3>6. \A i, j \in DOMAIN f : i < j => f[i] < f[j]
        BY <3>4 DEF FeedInOrder
      <3>7. ASSUME NEW i \in DOMAIN Append(f, n), NEW j \in DOMAIN Append(f, n), i < j
            PROVE  Append(f, n)[i] < Append(f, n)[j]
        <4>1. i \in DOMAIN f
          BY <3>5, <3>7
        <4> QED
          BY <3>3, <3>4, <3>5, <3>6, <3>7, <4>1
      <3> QED
        BY <2>2, <3>4, <3>7
    <2> QED
      BY <1>2, <2>1, <2>2
  <1>5. ASSUME NEW n \in DOMAIN msgs', n \notin lossy', ~Waiting(n, "feed")' PROVE n \in Range(feed')
    <2>1. n \in DOMAIN msgs
      <3>1. n \notin InHand'
        BY <1>5 DEF Waiting
      <3> QED
        BY <1>5, <3>1, NewWaits
    <2>2. CASE Waiting(n, "feed")
      <3>1. Concerns(n, "feed")
        BY DEF Concerns
      <3>2. Process /\ Head(wire) = [msg |-> n, to |-> "feed"]
        BY <1>5, <2>1, <2>2, <3>1, WaitsOn
      <3>3. feed' = Append(feed, n)
        BY <3>2 DEF Process, Key
      <3>4. Range(Append(feed, n)) = Range(feed) \cup {n}
        <4>1. n \in Nat
          BY <2>1, NextMessages
        <4> QED
          BY <1>0, <4>1, OneMore
      <3> QED
        BY <3>3, <3>4
    <2> QED
      BY <1>0, <1>3, <1>5, <2>1, <2>2 DEF FeedInOrder
  <1> QED
    BY <1>4, <1>5 DEF FeedInOrder

(* A step that does not count.                                             *)
LEMMA CountKept ==
  ASSUME Order, Order', Counted, count' = count,
         Settled \subseteq Settled', Intact' \subseteq Intact
  PROVE  Counted'
  <1>1. Cardinality(Settled) <= Cardinality(Settled')
    BY TradesFinite, TradesFiniteNext, FS_Subset
  <1>2. Cardinality(Intact') <= Cardinality(Intact)
    BY TradesFinite, TradesFiniteNext, FS_Subset
  <1> QED
    BY <1>1, <1>2, TradesFinite, TradesFiniteNext DEF Counted

(* Every trade is counted at most once, and one that loses nothing is.     *)
LEMMA NextCounted == ASSUME Order, Order', Counted, [Next]_vars PROVE Counted'
  <1>0. /\ DOMAIN msgs \subseteq DOMAIN msgs' /\ \A n \in DOMAIN msgs : msgs'[n] = msgs[n]
        /\ lossy \subseteq lossy'
    BY NextMessages
  <1>1. \A n \in Trades : n \in DOMAIN msgs /\ n \in Trades' /\ Concerns(n, "count")
    BY <1>0 DEF Trades, Concerns
  <1>2. \A n \in Trades' : n \in Trades \/ n \in InHand'
    BY <1>0, NewWaits DEF Trades
  <1>3. PICK c : c = Head(wire)
    OBVIOUS
  <1>4. Intact' \subseteq Intact \cup (IF Process /\ c.to = "count" THEN {c.msg} ELSE {})
    <2> SUFFICES ASSUME NEW n \in Intact', n \notin Intact
                 PROVE  Process /\ c.to = "count" /\ n = c.msg
      OBVIOUS
    <2>1. n \in Trades' /\ n \notin lossy' /\ ~Waiting(n, "count")'
      BY DEF Intact
    <2>2. n \in Trades
      BY <1>2, <2>1 DEF Waiting
    <2>3. Waiting(n, "count")
      BY <1>0, <2>1, <2>2 DEF Intact
    <2>4. Process /\ c = [msg |-> n, to |-> "count"]
      BY <1>1, <1>3, <2>1, <2>2, <2>3, WaitsOn
    <2> QED
      BY <2>4
  <1>5. Settled \subseteq Settled'
    <2> SUFFICES ASSUME NEW n \in Settled, Waiting(n, "count")' PROVE FALSE
      BY <1>1 DEF Settled
    <2>1. n \in Trades /\ n \in DOMAIN msgs /\ n \notin InHand
          /\ [msg |-> n, to |-> "count"] \notin Range(wire)
      BY <1>1 DEF Settled, Waiting
    <2>2. CASE Quiet
      BY <2>1, <2>2 DEF Quiet, Waiting
    <2>3. CASE Hands
      <3>1. n # Len(msgs) + 1
        BY <2>1, NextMessages
      <3> QED
        BY <2>1, <2>3, <3>1 DEF Hands, Waiting
    <2>4. CASE Sends
      <3>1. InHand = InHand' \cup Range(batch)
        BY <2>4 DEF Sends
      <3>2. [msg |-> n, to |-> "count"] \in Range(wire')
        BY <2>1, <3>1 DEF Waiting
      <3>3. [msg |-> n, to |-> "count"].msg \in Range(batch)
        BY <2>4, <3>2, SentAll
      <3> QED
        BY <2>1, <3>1, <3>3
    <2>5. CASE Loses
      BY <2>1, <2>5 DEF Loses, Waiting, Range
    <2>6. CASE Process \/ Refuse
      BY <1>3, <2>1, <2>6, Got DEF Waiting
    <2> QED
      BY <2>2, <2>3, <2>4, <2>5, <2>6, Effects
  <1>6. CASE Process /\ c.to = "count"
    <2>1. /\ c \in Sent /\ c = [msg |-> c.msg, to |-> "count"] /\ c \in Range(wire)
          /\ c.msg \in DOMAIN msgs /\ c \in Range(Commands(c.msg))
          /\ \A d \in Range(wire') : Before(c, d)
          /\ InHand' = InHand /\ msgs' = msgs
          /\ \A n \in InHand : c.msg < n
      BY <1>3, <1>6, Got
    <2>2. count' = count + 1
      BY <1>3, <1>6 DEF Process, Key
    <2>3. c.msg \in Nat
      BY <2>1 DEF Sent
    <2>4. Concerns(c.msg, "count")
      BY <2>1, CommandsTo
    <2>5. c.msg \in Trades'
      BY <2>1, <2>4 DEF Concerns, Trades
    <2>6. c.msg \notin Settled
      BY <2>1 DEF Settled, Waiting
    <2>7. c.msg \in Settled'
      <3>1. c.msg \notin InHand'
        BY <2>1, <2>3
      <3>2. c \notin Range(wire')
        <4>1. ~Before(c, c)
          BY <2>3 DEF Before
        <4> QED
          BY <2>1, <4>1
      <3> QED
        BY <2>1, <2>5, <3>1, <3>2 DEF Settled, Waiting
    <2>8. Cardinality(Settled) + 1 <= Cardinality(Settled')
      <3>1. Settled \cup {c.msg} \subseteq Settled'
        BY <1>5, <2>7
      <3>2. Cardinality(Settled \cup {c.msg}) = Cardinality(Settled) + 1
        BY <2>6, TradesFinite, FS_AddElement
      <3>3. Cardinality(Settled \cup {c.msg}) <= Cardinality(Settled')
        BY <3>1, TradesFiniteNext, FS_Subset
      <3> QED
        BY <3>2, <3>3
    <2>9. Cardinality(Intact') <= Cardinality(Intact) + 1
      <3>1. Intact' \subseteq Intact \cup {c.msg}
        BY <1>4, <1>6
      <3>2. /\ IsFiniteSet(Intact \cup {c.msg})
            /\ \/ Cardinality(Intact \cup {c.msg}) = Cardinality(Intact) + 1
               \/ Cardinality(Intact \cup {c.msg}) = Cardinality(Intact)
        BY TradesFinite, FS_AddElement
      <3>3. Cardinality(Intact') <= Cardinality(Intact \cup {c.msg})
        BY <3>1, <3>2, FS_Subset
      <3> QED
        BY <3>2, <3>3, TradesFinite, TradesFiniteNext
    <2> QED
      BY <2>2, <2>8, <2>9, TradesFinite, TradesFiniteNext DEF Counted
  <1>7. CASE ~(Process /\ c.to = "count")
    <2>1. count' = count
      BY <1>3, <1>7, RedisKept DEF Process, redis
    <2>2. Intact' \subseteq Intact
      BY <1>4, <1>7
    <2> QED
      BY <1>5, <2>1, <2>2, CountKept
  <1> QED
    BY <1>6, <1>7

------------------------------------------------------------------------------
(* The results. *)

(* Nothing is published and nobody runs at first.                          *)
LEMMA InitInv == Init => IInv
  <1> SUFFICES ASSUME Init PROVE IInv
    OBVIOUS
  <1>0. Range(<<>>) = {} /\ DOMAIN <<>> = {} /\ Len(<<>>) = 0
    BY DEF Range
  <1>1. Order
    <2>1. Typed
      BY DEF Init, Typed, Key
    <2>2. Control
      BY DEF Init, Control
    <2>3. InOrder
      BY <1>0 DEF Init, InOrder, Rising, Below
    <2>4. Behind
      BY <1>0 DEF Init, Behind, InHand
    <2> QED
      BY <2>1, <2>2, <2>3, <2>4 DEF Order
  <1>2. Paired /\ TornOnlyByLoss
    BY <1>0 DEF Init, Paired, TornOnlyByLoss, Key
  <1>3. Trades = {} /\ Books = {}
    BY <1>0 DEF Init, Trades, Books
  <1>4. CacheIsLatest
    BY <1>3 DEF Init, CacheIsLatest
  <1>5. Settled = {} /\ Intact = {}
    BY <1>3 DEF Settled, Intact
  <1>6. Counted
    BY <1>5, FS_EmptySet DEF Init, Counted
  <1>7. FeedInOrder
    BY <1>0 DEF Init, FeedInOrder
  <1> QED
    BY <1>1, <1>2, <1>4, <1>6, <1>7, FeedParts DEF IInv

(* No step breaks it.                                                      *)
LEMMA NextInv == IInv /\ [Next]_vars => IInv'
  <1> SUFFICES ASSUME IInv, [Next]_vars PROVE IInv'
    OBVIOUS
  <1>1. Order /\ Paired /\ CacheIsLatest /\ TornOnlyByLoss /\ FeedInOrder /\ Counted
    BY FeedParts DEF IInv
  <1>2. Order'
    BY <1>1, NextOrder
  <1>3. Paired' /\ CacheIsLatest' /\ TornOnlyByLoss'
    BY <1>1, <1>2, NextPaired, NextCache, NextTorn
  <1>4. FeedInOrder' /\ Counted'
    BY <1>1, <1>2, NextFeed, NextCounted
  <1>5. FeedAtMostOnce'
    BY <1>2, <1>4, FeedPartsNext
  <1> QED
    BY <1>2, <1>3, <1>5 DEF IInv

(* The invariant: messages stay in the order they were queued in, from the *)
(* queue over the batch and the pipeline to Redis.                         *)
THEOREM Invariance == Spec => []IInv
  BY InitInv, NextInv, PTL DEF Spec

(* publisherLoop() never puts a cached price back to an older one, over    *)
(* broken pipelines, reconnects, crashes and new sinks, for any number of  *)
(* messages: what it has still to send for a key is newer than what the    *)
(* key holds.                                                              *)
THEOREM CacheCurrent == Spec => []CacheIsLatest
  <1>1. IInv => CacheIsLatest
    BY DEF IInv
  <1> QED
    BY <1>1, Invariance, PTL

(* The SET or DEL of the bid and the one of the ask are of two messages    *)
(* only when a command was lost or the second is on its way.               *)
THEOREM TornByLoss == Spec => []TornOnlyByLoss
  <1>1. IInv => TornOnlyByLoss
    BY DEF IInv
  <1> QED
    BY <1>1, Invariance, PTL

(* PUBLISH and INCR are done at most once for each message, in order, and  *)
(* once for each that lost nothing.                                        *)
THEOREM FeedOnce == Spec => []FeedAtMostOnce
  <1>1. IInv => FeedAtMostOnce
    BY DEF IInv
  <1> QED
    BY <1>1, Invariance, PTL
================================================================================
