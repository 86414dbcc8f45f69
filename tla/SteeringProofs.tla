--------------------------- MODULE SteeringProofs ---------------------------
(***************************************************************************)
(* Proofs about Steering, for every set of messages, queue depth and       *)
(* number of crashes.                                                      *)
(***************************************************************************)
EXTENDS Steering, TLAPS

USE SMTT(60), ZenonT(60)

\* The messages the executor has still to take in.
Steers == {m \in Msg : [type |-> "steer", msg |-> m] \in Range(inbox)}

\* The messages on their way through the executor.
Underway == Range(todo) \union Range(mem) \union Steers

\* The messages that are stored or under way.
Present == Range(db) \union Range(snapshot) \union Range(transcript) \union Underway

\* Until a crash, nothing is stored or under way that was not sent.
SentFirst == crashes = 0 => \A m \in Present : send[m] \in {"written", "accepted"}

\* Only accepted messages are cancelled, and a message's cancellation is behind
\* the message itself in the executor's channel.
CancelsFollow ==
    /\ \A m \in Msg : Cancelled(m) => send[m] = "accepted"
    /\ \A e \in Range(inbox) :
          send[e.msg] = "accepted" /\ (e.type = "cancel" => Cancelled(e.msg))
    /\ \A i, j \in DOMAIN inbox :
          inbox[i].type = "cancel" /\ inbox[j].type = "steer" /\ inbox[i].msg = inbox[j].msg
            => j < i

\* Until a crash, a message whose cancellation was taken in is not under way.
HandledIsGone == crashes = 0 => \A m \in Underway : cancel[m] # "handled"

\* An LLM request that is under way was issued after the last insertion.
AskedLast == phase = "LlmRequesting" /\ batch = <<>> => asked = Len(transcript)

\* e counts off the n elements of K in increasing order.
Counts(n, e, K) ==
    /\ n \in Nat /\ e \in [1 .. n -> K]
    /\ \A k \in K : \E i \in 1 .. n : e[i] = k
    /\ \A i, j \in 1 .. n : i < j => e[i] < e[j]

Kept(q, D) == {i \in DOMAIN q : q[i] \notin D}

\* Whatever is deleted from q, what stays can be counted off, and there is the
\* less of it the more is deleted.
Deletable(q) ==
    /\ \A D : \E n, e : Counts(n, e, Kept(q, D))
    /\ \A C, D, n, e, k, f :
          C \subseteq D /\ Counts(n, e, Kept(q, C)) /\ Counts(k, f, Kept(q, D)) => k <= n

Editable == Deletable(db) /\ Deletable(snapshot) /\ Deletable(mem)

SteerInv ==
    /\ TypeOK /\ Editable /\ SentFirst /\ CancelsFollow /\ HandledIsGone /\ AskedLast
    /\ NothingLost /\ NoDoubleInsertion

\* The pairs of messages of which the first was admitted before the second, or
\* for which the order does not matter.
Earlier ==
    {p \in Msg \X Msg :
        \/ p[1] = p[2] \/ Cancelled(p[1]) \/ Cancelled(p[2])
        \/ \E k, l \in DOMAIN order : k < l /\ order[k] = p[1] /\ order[l] = p[2]}

Sorted(R, q) == \A i, j \in DOMAIN q : i < j => <<q[i], q[j]>> \in R

EventsSorted(R, q) ==
    \A i, j \in DOMAIN q :
        i < j /\ q[i].type = "steer" /\ q[j].type = "steer" => <<q[i].msg, q[j].msg>> \in R

\* Everything under way is in the order of admission, and behind what is in the
\* transcript unless it is there itself.
PipelineSorted ==
    /\ Sorted(Earlier, transcript) /\ Sorted(Earlier, todo) /\ Sorted(Earlier, mem)
    /\ EventsSorted(Earlier, inbox)
    /\ Range(todo) \X (Range(mem) \union Steers) \subseteq Earlier
    /\ Range(mem) \X Steers \subseteq Earlier
    /\ Range(transcript) \X (Underway \ Range(transcript)) \subseteq Earlier

\* The table, and a sender's copy of it, are in the order of admission too, and
\* hold nothing that is not under way, delivered, cancelled or just written.
TableSorted ==
    /\ Sorted(Earlier, db) /\ Sorted(Earlier, snapshot)
    /\ \A m \in Range(db) \union Range(snapshot) :
          m \in Underway \union Range(transcript) \/ Cancelled(m) \/ send[m] = "written"

\* What is stored or under way was admitted; what was written last was admitted last.
Admitted ==
    /\ Present \subseteq Range(order)
    /\ \A m \in Msg : send[m] = "written" => order # <<>> /\ order[Len(order)] = m

FifoInv == PipelineSorted /\ TableSorted /\ Admitted

-----------------------------------------------------------------------------
(* Sequences.                                                              *)

\* Appending adds one entry, at the end.
LEMMA AppendFacts ==
    ASSUME NEW M, NEW q \in Seq(M), NEW m \in M
    PROVE  /\ Append(q, m) \in Seq(M) /\ Len(Append(q, m)) = Len(q) + 1
           /\ Len(q) \in Nat /\ DOMAIN Append(q, m) = 1 .. Len(q) + 1
           /\ \A i \in DOMAIN q : Append(q, m)[i] = q[i]
           /\ Append(q, m)[Len(q) + 1] = m
           /\ Range(Append(q, m)) = Range(q) \union {m}
<1>1. /\ Append(q, m) \in Seq(M) /\ Len(Append(q, m)) = Len(q) + 1
      /\ Len(q) \in Nat /\ DOMAIN Append(q, m) = 1 .. Len(q) + 1 /\ DOMAIN q = 1 .. Len(q)
      /\ \A i \in DOMAIN q : Append(q, m)[i] = q[i]
      /\ Append(q, m)[Len(q) + 1] = m
  OBVIOUS
<1>2. Range(Append(q, m)) = Range(q) \union {m}
  <2> DEFINE a == Append(q, m)
  <2>1. DOMAIN a = DOMAIN q \union {Len(q) + 1} /\ \A i \in DOMAIN q : a[i] = q[i]
    BY <1>1
  <2>2. a[Len(q) + 1] = m
    BY <1>1
  <2> HIDE DEF a
  <2>3. Range(a) = Range(q) \union {m}
    BY <2>1, <2>2 DEF Range
  <2> QED
    BY <2>3 DEF a
<1> QED
  BY <1>1, <1>2

\* Taking the first entry leaves the others, in their order.
LEMMA TailFacts ==
    ASSUME NEW M, NEW q \in Seq(M), q # <<>>
    PROVE  /\ Head(q) \in M /\ Tail(q) \in Seq(M)
           /\ Len(q) \in Nat \ {0} /\ Len(Tail(q)) = Len(q) - 1
           /\ DOMAIN q = 1 .. Len(q) /\ DOMAIN Tail(q) = 1 .. Len(q) - 1
           /\ \A i \in DOMAIN Tail(q) : i + 1 \in DOMAIN q /\ Tail(q)[i] = q[i + 1]
           /\ Head(q) = q[1] /\ 1 \in DOMAIN q
           /\ Range(q) = Range(Tail(q)) \union {Head(q)}
<1>1. /\ Head(q) \in M /\ Tail(q) \in Seq(M)
      /\ Len(q) \in Nat \ {0} /\ Len(Tail(q)) = Len(q) - 1
      /\ DOMAIN q = 1 .. Len(q) /\ DOMAIN Tail(q) = 1 .. Len(q) - 1
      /\ \A i \in DOMAIN Tail(q) : i + 1 \in DOMAIN q /\ Tail(q)[i] = q[i + 1]
      /\ Head(q) = q[1] /\ 1 \in DOMAIN q
  OBVIOUS
<1>2. \A i \in DOMAIN q : i = 1 \/ (i - 1 \in DOMAIN Tail(q) /\ q[i] = Tail(q)[i - 1])
  BY <1>1
<1> DEFINE t == Tail(q)  h == Head(q)
<1>3. /\ \A i \in DOMAIN t : i + 1 \in DOMAIN q /\ t[i] = q[i + 1]
      /\ \A i \in DOMAIN q : i = 1 \/ (i - 1 \in DOMAIN t /\ q[i] = t[i - 1])
      /\ h = q[1] /\ 1 \in DOMAIN q
  BY <1>1, <1>2
<1> HIDE DEF t, h
<1>4. Range(q) = Range(t) \union {h}
  BY <1>3 DEF Range
<1> QED
  BY <1>1, <1>4 DEF t, h

\* The entries of a sequence are of its type; only the empty one has none.
LEMMA RangeFacts ==
    ASSUME NEW M, NEW q \in Seq(M)
    PROVE  /\ Range(q) \subseteq M /\ Range(<<>>) = {}
           /\ DOMAIN q = 1 .. Len(q) /\ Len(q) \in Nat
           /\ q = <<>> <=> Len(q) = 0
           /\ <<>> \in Seq(M) /\ Len(<<>>) = 0
  BY DEF Range

\* One more, behind all the others, and back.
LEMMA CountOne ==
    ASSUME NEW L \in Nat, NEW K, K \subseteq 1 .. L, NEW n, NEW e
    PROVE  /\ Counts(n, e, K) => \E f : Counts(n + 1, f, K \union {L + 1})
           /\ Counts(n, e, K \union {L + 1}) => \E f : Counts(n - 1, f, K)
<1>0. L + 1 \in Nat /\ L + 1 <= L + 1 /\ \A k \in K : k \in Nat /\ k < L + 1 /\ k <= L + 1
  OBVIOUS
<1>1. ASSUME Counts(n, e, K)
      PROVE  \E f : Counts(n + 1, f, K \union {L + 1})
  <2> DEFINE f == [i \in 1 .. n + 1 |-> IF i = n + 1 THEN L + 1 ELSE e[i]]
  <2>1. n \in Nat /\ n + 1 \in Nat /\ \A i \in 1 .. n : e[i] \in K /\ e[i] < L + 1
    <3>1. n \in Nat /\ \A i \in 1 .. n : e[i] \in K
      BY <1>1 DEF Counts
    <3>2. \A i \in 1 .. n : e[i] < L + 1
      BY <1>0, <3>1, ZenonT(60)
    <3>3. n + 1 \in Nat
      BY <3>1
    <3> QED
      BY <3>1, <3>2, <3>3, ZenonT(60)
  <2>2. \A i \in 1 .. n + 1 : i \in 1 .. n \/ i = n + 1
    BY <2>1
  <2>3. /\ \A i \in 1 .. n : i \in 1 .. n + 1 /\ i # n + 1 /\ f[i] = e[i]
        /\ n + 1 \in 1 .. n + 1 /\ f[n + 1] = L + 1
    BY <2>1
  <2>4. f \in [1 .. n + 1 -> K \union {L + 1}]
    BY <2>1, <2>2
  <2> HIDE DEF f
  <2>5. \A k \in K \union {L + 1} : \E i \in 1 .. n + 1 : f[i] = k
    BY <1>1, <2>3, ZenonT(60) DEF Counts
  <2>6. ASSUME NEW i \in 1 .. n + 1, NEW j \in 1 .. n + 1, i < j
        PROVE  f[i] < f[j]
    <3>1. i \in 1 .. n
      BY <2>1, <2>6
    <3>2. CASE j = n + 1
      BY <2>1, <2>3, <3>1, <3>2
    <3>3. CASE j \in 1 .. n
      BY <1>1, <2>3, <2>6, <3>1, <3>3 DEF Counts
    <3> QED
      BY <2>2, <3>2, <3>3
  <2> QED
    BY <2>1, <2>4, <2>5, <2>6, ZenonT(60) DEF Counts
<1>2. ASSUME Counts(n, e, K \union {L + 1})
      PROVE  \E f : Counts(n - 1, f, K)
  <2> DEFINE f == [i \in 1 .. n - 1 |-> e[i]]
  <2>1. PICK p \in 1 .. n : e[p] = L + 1
    BY <1>2 DEF Counts
  <2>2. n \in Nat /\ \A i \in 1 .. n : e[i] \in K \/ e[i] = L + 1
    BY <1>2 DEF Counts
  <2>3. \A i, j \in 1 .. n : i < j => e[i] < e[j]
    BY <1>2 DEF Counts
  <2>4. p = n
    <3>1. n \in 1 .. n /\ (p = n \/ p < n)
      BY <2>1, <2>2
    <3>2. e[n] <= L + 1 /\ e[n] \in Nat
      BY <1>0, <2>2, <3>1, ZenonT(60)
    <3> QED
      BY <2>1, <2>3, <3>1, <3>2
  <2>5. n - 1 \in Nat /\ n \in 1 .. n /\ \A i \in 1 .. n - 1 : i \in 1 .. n /\ i < n
    BY <2>1, <2>2
  <2>6. \A i \in 1 .. n - 1 : e[i] \in K
    BY <2>1, <2>2, <2>3, <2>4, <2>5
  <2>7. f \in [1 .. n - 1 -> K] /\ \A i \in 1 .. n - 1 : f[i] = e[i]
    BY <2>6
  <2> HIDE DEF f
  <2>8. ASSUME NEW k \in K
        PROVE  \E i \in 1 .. n - 1 : f[i] = k
    <3>1. PICK i \in 1 .. n : e[i] = k
      BY <1>2 DEF Counts
    <3>2. i # n
      BY <2>1, <2>4, <3>1
    <3>3. i \in 1 .. n - 1
      BY <2>5, <3>2
    <3> QED
      BY <2>7, <3>1, <3>3
  <2>9. \A i, j \in 1 .. n - 1 : i < j => f[i] < f[j]
    BY <2>3, <2>5, <2>7, ZenonT(60)
  <2> QED
    BY <2>5, <2>7, <2>8, <2>9, ZenonT(60) DEF Counts
<1> QED
  BY <1>1, <1>2

\* Positions that were counted off can be counted off again: I is J along at.
Along(n, at, J, I) ==
    /\ J \subseteq 1 .. n /\ \A i \in 1 .. n : at[i] \in Nat
    /\ \A x : x \in I <=> \E i \in J : at[i] = x

LEMMA CountOver ==
    ASSUME NEW K, NEW n, NEW at, Counts(n, at, K), NEW J, NEW I, Along(n, at, J, I),
           NEW k, NEW g, Counts(k, g, J)
    PROVE  \E f : Counts(k, f, I)
<1>0. /\ J \subseteq 1 .. n /\ \A x : x \in I <=> \E i \in J : at[i] = x
      /\ \A i \in 1 .. n : at[i] \in Nat
  BY DEF Along
<1>1. n \in Nat /\ \A i, j \in 1 .. n : i < j => at[i] < at[j]
  BY ZenonT(60) DEF Counts
<1> DEFINE f == [i \in 1 .. k |-> at[g[i]]]
<1>2. /\ \A x \in J : \E i \in 1 .. k : g[i] = x
      /\ \A i, j \in 1 .. k : i < j => g[i] < g[j]
  BY DEF Counts
<1>3. \A i \in 1 .. k : f[i] = at[g[i]] /\ g[i] \in J /\ g[i] \in 1 .. n
  BY <1>0, ZenonT(60) DEF Counts
<1>4. f \in [1 .. k -> I]
  BY <1>0, <1>3
<1> HIDE DEF f
<1>5. \A x \in I : \E i \in 1 .. k : f[i] = x
  BY <1>0, <1>2, <1>3
<1>6. \A i, j \in 1 .. k : i < j => f[i] < f[j]
  BY <1>0, <1>1, <1>2, <1>3
<1> QED
  BY <1>4, <1>5, <1>6, ZenonT(60) DEF Counts

LEMMA CountUnder ==
    ASSUME NEW K, NEW n, NEW at, Counts(n, at, K), NEW J, NEW I, Along(n, at, J, I),
           NEW k, NEW g, Counts(k, g, I)
    PROVE  \E f : Counts(k, f, J)
<1>0. /\ J \subseteq 1 .. n /\ \A x : x \in I <=> \E i \in J : at[i] = x
      /\ \A i \in 1 .. n : at[i] \in Nat
  BY DEF Along
<1>1. n \in Nat /\ \A i, j \in 1 .. n : i < j => at[i] < at[j]
  BY ZenonT(60) DEF Counts
<1> DEFINE Of(i) == CHOOSE x \in J : at[x] = g[i]
           f == [i \in 1 .. k |-> Of(i)]
<1>2. \A i \in 1 .. k : Of(i) \in J /\ at[Of(i)] = g[i]
  <2>1. \A i \in 1 .. k : \E x \in J : at[x] = g[i]
    BY <1>0 DEF Counts
  <2> QED
    BY <2>1, ZenonT(60)
<1> HIDE DEF Of
<1>3. f \in [1 .. k -> J] /\ \A i \in 1 .. k : f[i] \in J /\ f[i] \in 1 .. n /\ at[f[i]] = g[i]
  BY ZenonT(60), <1>0, <1>2
<1> HIDE DEF f
<1>4. \A x, y \in 1 .. n : at[x] < at[y] => x < y
  BY <1>0, <1>1
<1>5. \A x, y \in 1 .. n : at[x] = at[y] => x = y
  BY <1>0, <1>1
<1>6. \A x \in J : \E i \in 1 .. k : f[i] = x
  <2> SUFFICES ASSUME NEW x \in J
               PROVE  \E i \in 1 .. k : f[i] = x
    OBVIOUS
  <2>1. PICK i \in 1 .. k : g[i] = at[x]
    BY <1>0, ZenonT(60) DEF Counts
  <2>2. x \in 1 .. n /\ f[i] \in 1 .. n /\ at[f[i]] = at[x]
    BY <1>0, <1>3, <2>1
  <2> QED
    BY <1>5, <2>2, ZenonT(60)
<1>7. \A i, j \in 1 .. k : i < j => f[i] < f[j]
  BY <1>3, <1>4, ZenonT(60) DEF Counts
<1> QED
  BY <1>3, <1>6, <1>7, ZenonT(60) DEF Counts

\* Lists are built by appending.
LEMMA AppendDeletable ==
    ASSUME NEW M, NEW q \in Seq(M), NEW m \in M, Deletable(q)
    PROVE  Deletable(Append(q, m))
<1> DEFINE a == Append(q, m)  L == Len(q)
<1>1. /\ L \in Nat /\ DOMAIN q = 1 .. L /\ DOMAIN a = 1 .. L + 1
      /\ \A i \in 1 .. L : a[i] = q[i]
      /\ a[L + 1] = m
  BY AppendFacts, RangeFacts
<1> HIDE DEF a, L
<1>2. \A D : Kept(q, D) \subseteq 1 .. L
  BY <1>1 DEF Kept
<1>3. \A D : m \in D => Kept(a, D) = Kept(q, D)
  <2>1. \A i \in 1 .. L + 1 : i \in 1 .. L \/ i = L + 1
    BY <1>1
  <2>2. \A i \in 1 .. L : i \in 1 .. L + 1
    BY <1>1
  <2> QED
    BY <1>1, <2>1, <2>2 DEF Kept
<1>4. \A D : m \notin D => Kept(a, D) = Kept(q, D) \union {L + 1}
  <2>1. \A i \in 1 .. L + 1 : i \in 1 .. L \/ i = L + 1
    BY <1>1
  <2>2. L + 1 \in 1 .. L + 1 /\ \A i \in 1 .. L : i \in 1 .. L + 1
    BY <1>1
  <2> QED
    BY <1>1, <2>1, <2>2 DEF Kept
<1>5. ASSUME NEW D
      PROVE  \E n, e : Counts(n, e, Kept(a, D))
  <2>1. PICK n, e : Counts(n, e, Kept(q, D))
    BY DEF Deletable
  <2>2. CASE m \in D
    BY <1>3, <2>1, <2>2, ZenonT(60)
  <2>3. CASE m \notin D
    <3>1. \E f : Counts(n + 1, f, Kept(q, D) \union {L + 1})
      BY <1>1, <1>2, <2>1, CountOne, ZenonT(60)
    <3> QED
      BY <1>4, <2>3, <3>1, ZenonT(60)
  <2> QED
    BY <2>2, <2>3
<1>6. ASSUME NEW C, NEW D, NEW n, NEW e, NEW k, NEW f,
             C \subseteq D, Counts(n, e, Kept(a, C)), Counts(k, f, Kept(a, D))
      PROVE  k <= n
  <2>0. n \in Nat /\ k \in Nat
    BY <1>6 DEF Counts
  <2>1. \A x, y, g, h : Counts(x, g, Kept(q, C)) /\ Counts(y, h, Kept(q, D)) => y <= x
    BY <1>6, ZenonT(60) DEF Deletable
  <2>2. CASE m \in C
    <3>1. m \in D
      BY <1>6, <2>2
    <3> QED
      BY <1>3, <1>6, <2>1, <2>2, <3>1, ZenonT(60)
  <2>3. CASE m \notin C
    <3>1. \E g : Counts(n - 1, g, Kept(q, C))
      <4>1. Counts(n, e, Kept(q, C) \union {L + 1})
        BY ZenonT(60), <1>4, <1>6, <2>3
      <4> QED
        BY <1>1, <1>2, <4>1, CountOne, ZenonT(60)
    <3>2. CASE m \in D
      <4>1. k <= n - 1
        BY <1>3, <1>6, <2>1, <3>1, <3>2, ZenonT(60)
      <4> QED
        BY <2>0, <4>1
    <3>3. CASE m \notin D
      <4>1. \E h : Counts(k - 1, h, Kept(q, D))
        <5>1. Counts(k, f, Kept(q, D) \union {L + 1})
          BY ZenonT(60), <1>4, <1>6, <3>3
        <5> QED
          BY <1>1, <1>2, <5>1, CountOne, ZenonT(60)
      <4>2. k - 1 <= n - 1
        BY <2>1, <3>1, <4>1, ZenonT(60)
      <4> QED
        BY <2>0, <4>2
    <3> QED
      BY <3>2, <3>3
  <2> QED
    BY <2>2, <2>3
<1>7. Deletable(a)
  BY <1>5, <1>6, ZenonT(60) DEF Deletable
<1> QED
  BY <1>7 DEF a

\* What a deletion leaves is q along the positions that are kept.
LEMMA WithoutAlong ==
    ASSUME NEW M, NEW q \in Seq(M), NEW D, Deletable(q)
    PROVE  \E n, at : Counts(n, at, Kept(q, D)) /\ Without(q, D) = [i \in 1 .. n |-> q[at[i]]]
<1> DEFINE K == Kept(q, D)
           Ordered(e) == Range(e) = K /\ \A i, j \in DOMAIN e : i < j => e[i] < e[j]
           E == UNION {[1 .. n -> K] : n \in 0 .. Len(q)}
           at == CHOOSE e \in E : Ordered(e)
<1>1. Len(q) \in Nat /\ DOMAIN q = 1 .. Len(q)
  OBVIOUS
<1>2. Counts(Len(q), [i \in 1 .. Len(q) |-> i], Kept(q, {}))
  BY <1>1 DEF Counts, Kept
<1>3. PICK k, f : Counts(k, f, K)
  BY DEF Deletable
<1>4. k <= Len(q)
  BY <1>2, <1>3, ZenonT(60) DEF Deletable
<1>5. k \in 0 .. Len(q) /\ f \in [1 .. k -> K]
  BY <1>1, <1>3, <1>4 DEF Counts
<1>6. f \in E
  BY <1>5
<1>7. DOMAIN f = 1 .. k
  BY <1>5
<1>8. Ordered(f)
  <2>1. Range(f) = K
    BY <1>3, <1>5, <1>7 DEF Counts, Range
  <2> QED
    BY <1>3, <1>7, <2>1 DEF Counts
<1>9. at \in E /\ Ordered(at)
  BY <1>6, <1>8, ZenonT(60)
<1>10. Without(q, D) = [i \in DOMAIN at |-> q[at[i]]]
  BY DEF Without, Kept
<1> HIDE DEF at
<1>11. PICK n \in 0 .. Len(q) : at \in [1 .. n -> K]
  BY <1>9
<1>12. DOMAIN at = 1 .. n /\ n \in Nat
  BY <1>1, <1>11
<1>13. Counts(n, at, K)
  BY <1>9, <1>11, <1>12 DEF Counts, Range
<1> QED
  BY <1>10, <1>12, <1>13

\* Deleting entries leaves exactly the others, in their order.
LEMMA WithoutFacts ==
    ASSUME NEW M, NEW q \in Seq(M), NEW D, Deletable(q)
    PROVE  /\ Without(q, D) \in Seq(M) /\ Deletable(Without(q, D))
           /\ Range(Without(q, D)) = Range(q) \ D
           /\ \A m, n \in DOMAIN Without(q, D) : m < n =>
                 \E i, j \in DOMAIN q :
                     i < j /\ Without(q, D)[m] = q[i] /\ Without(q, D)[n] = q[j]
<1> DEFINE w == Without(q, D)
<1>1. PICK n, at : Counts(n, at, Kept(q, D)) /\ w = [i \in 1 .. n |-> q[at[i]]]
  BY WithoutAlong
<1> HIDE DEF w
<1>0. Counts(n, at, Kept(q, D))
  BY <1>1
<1>2. Len(q) \in Nat /\ DOMAIN q = 1 .. Len(q) /\ \A i \in DOMAIN q : q[i] \in M
  OBVIOUS
<1>3. /\ n \in Nat /\ \A i \in 1 .. n : at[i] \in Kept(q, D)
      /\ \A k \in Kept(q, D) : \E i \in 1 .. n : at[i] = k
      /\ \A i, j \in 1 .. n : i < j => at[i] < at[j]
  BY <1>1 DEF Counts
<1>4. /\ \A i \in 1 .. n : at[i] \in DOMAIN q /\ q[at[i]] \notin D /\ q[at[i]] \in M
      /\ \A k \in DOMAIN q : q[k] \notin D => \E i \in 1 .. n : at[i] = k
  BY <1>2, <1>3, ZenonT(60) DEF Kept
<1>5. DOMAIN w = 1 .. n /\ \A i \in 1 .. n : w[i] = q[at[i]]
  BY <1>1
<1>6. w \in Seq(M)
  <2>1. w \in [1 .. n -> M]
    BY <1>1, <1>4
  <2> QED
    BY <1>3, <2>1
<1>7. Range(w) = Range(q) \ D
  BY <1>4, <1>5 DEF Range
<1>8. \A i, j \in DOMAIN w : i < j => \E k, l \in DOMAIN q : k < l /\ w[i] = q[k] /\ w[j] = q[l]
  <2> SUFFICES ASSUME NEW i \in 1 .. n, NEW j \in 1 .. n, i < j
               PROVE  \E k, l \in DOMAIN q : k < l /\ w[i] = q[k] /\ w[j] = q[l]
    BY <1>5
  <2>1. at[i] < at[j] /\ at[i] \in DOMAIN q /\ at[j] \in DOMAIN q
    BY <1>3, <1>4, ZenonT(60)
  <2>2. w[i] = q[at[i]] /\ w[j] = q[at[j]]
    BY <1>5, ZenonT(60)
  <2> QED
    BY <2>1, <2>2, ZenonT(60)
<1>9. \A i \in 1 .. n : at[i] \in Nat
  BY <1>2, <1>4
<1>10. ASSUME NEW C
       PROVE  Along(n, at, Kept(w, C), Kept(q, C \union D))
  <2>1. Kept(w, C) \subseteq 1 .. n
    BY <1>5, ZenonT(60) DEF Kept
  <2>2. \A k : k \in Kept(q, C \union D) <=> \E i \in Kept(w, C) : at[i] = k
    BY <1>4, <1>5, ZenonT(60) DEF Kept
  <2> QED
    BY ZenonT(60), <1>9, <2>1, <2>2 DEF Along
<1>11. ASSUME NEW C
       PROVE  \E k, f : Counts(k, f, Kept(w, C))
  <2>1. PICK k, g : Counts(k, g, Kept(q, C \union D))
    BY DEF Deletable
  <2>2. \E f : Counts(k, f, Kept(w, C))
    BY <1>0, <1>10, <2>1, CountUnder, ZenonT(60)
  <2> QED
    BY <2>2, ZenonT(60)
<1>12. ASSUME NEW B, NEW C, NEW x, NEW e, NEW y, NEW f,
              B \subseteq C, Counts(x, e, Kept(w, B)), Counts(y, f, Kept(w, C))
       PROVE  y <= x
  <2>1. \E g : Counts(x, g, Kept(q, B \union D))
    BY <1>0, <1>10, <1>12, CountOver, ZenonT(60)
  <2>2. \E g : Counts(y, g, Kept(q, C \union D))
    BY <1>0, <1>10, <1>12, CountOver, ZenonT(60)
  <2>3. B \union D \subseteq C \union D
    BY <1>12, ZenonT(60)
  <2> QED
    BY <2>1, <2>2, <2>3, ZenonT(60) DEF Deletable
<1>13. Deletable(w)
  BY <1>11, <1>12, ZenonT(60) DEF Deletable
<1> QED
  BY <1>6, <1>7, <1>8, <1>13 DEF w

\* The empty list.
LEMMA EmptyDeletable == Deletable(<<>>)
<1>1. \A D : Kept(<<>>, D) = {}
  BY DEF Kept
<1>2. Counts(0, [i \in 1 .. 0 |-> i], {})
  BY DEF Counts
<1>3. ASSUME NEW n, NEW e, Counts(n, e, {})
      PROVE  n = 0
  <2>1. n \in Nat /\ \A i \in 1 .. n : e[i] \in {}
    BY <1>3 DEF Counts
  <2> QED
    BY <2>1
<1>4. \A n, e, k, f : Counts(n, e, {}) /\ Counts(k, f, {}) => k <= n
  BY <1>3
<1> QED
  BY <1>1, <1>2, <1>4, ZenonT(60) DEF Deletable

-----------------------------------------------------------------------------
(* The state.                                                              *)

\* A step of the turn, or of the requests of one message.
TurnStep == UserTurn \/ LlmAnswers \/ ToolsDone \/ CancelTurn \/ ToolAborted \/ DismissError

SendStep(m) ==
    \/ SendReplay(m) \/ SendWhileBusy(m) \/ EnqueueCheck(m) \/ EnqueueRead(m)

\* What the type invariant says of each variable.
LEMMA Types ==
    ASSUME TypeOK
    PROVE  /\ mem \in Seq(Msg) /\ db \in Seq(Msg) /\ transcript \in Seq(Msg)
           /\ batch \in Seq(Msg) /\ todo \in Seq(Msg) /\ snapshot \in Seq(Msg)
           /\ order \in Seq(Msg) /\ inbox \in Seq(Event)
           /\ send \in [Msg -> SendState] /\ cancel \in [Msg -> CancelState]
           /\ crashes \in Nat /\ Len(transcript) \in Nat
  BY BoundAssumption DEF TypeOK

\* With no batch there is nothing left to persist.
LEMMA NoBatch ==
    ASSUME TypeOK
    PROVE  batch = <<>> => todo = <<>>
<1>1. todo \in Seq(Msg) /\ EndOf(todo, batch)
  BY DEF TypeOK
<1> QED
  BY <1>1 DEF EndOf

\* The events of the channel, and the messages in them.
LEMMA Events ==
    ASSUME TypeOK
    PROVE  /\ \A e \in Range(inbox) : e \in Event /\ e.msg \in Msg /\ e.type \in {"steer", "cancel"}
           /\ \A e \in Range(inbox) : e.type = "steer" => e.msg \in Steers
           /\ \A m \in Steers : [type |-> "steer", msg |-> m] \in Range(inbox)
           /\ Steers \subseteq Msg
<1>1. Range(inbox) \subseteq Event
  BY Types, RangeFacts
<1>2. \A e \in Event : /\ e.msg \in Msg /\ e.type \in {"steer", "cancel"}
                       /\ e = [type |-> e.type, msg |-> e.msg]
  BY DEF Event
<1> QED
  BY <1>1, <1>2, ZenonT(60) DEF Steers

\* Sending an event.
LEMMA EventSent ==
    ASSUME TypeOK, NEW m \in Msg, NEW t \in {"steer", "cancel"},
           inbox' = Append(inbox, [type |-> t, msg |-> m])
    PROVE  /\ inbox' \in Seq(Event)
           /\ Range(inbox') = Range(inbox) \union {[type |-> t, msg |-> m]}
           /\ Steers' = Steers \union (IF t = "steer" THEN {m} ELSE {})
           /\ DOMAIN inbox' = DOMAIN inbox \union {Len(inbox) + 1}
           /\ \A i \in DOMAIN inbox : inbox'[i] = inbox[i] /\ i < Len(inbox) + 1
           /\ inbox'[Len(inbox) + 1] = [type |-> t, msg |-> m]
<1> DEFINE e == [type |-> t, msg |-> m]
<1>1. e \in Event /\ e.type = t /\ e.msg = m
  BY DEF Event
<1> HIDE DEF e
<1>2. inbox \in Seq(Event) /\ inbox' = Append(inbox, e)
  BY Types DEF e
<1>3. /\ inbox' \in Seq(Event) /\ Range(inbox') = Range(inbox) \union {e}
      /\ DOMAIN inbox' = 1 .. Len(inbox) + 1 /\ inbox'[Len(inbox) + 1] = e
      /\ \A i \in DOMAIN inbox : inbox'[i] = inbox[i]
      /\ DOMAIN inbox = 1 .. Len(inbox) /\ Len(inbox) \in Nat
  BY <1>1, <1>2, AppendFacts, RangeFacts
<1>4. \A n \in Msg : [type |-> "steer", msg |-> n] = e <=> (t = "steer" /\ n = m)
  BY DEF e
<1>5. Steers' = Steers \union (IF t = "steer" THEN {m} ELSE {})
  BY <1>3, <1>4, ZenonT(60) DEF Steers
<1> QED
  BY <1>3, <1>5 DEF e

\* Taking in an event.
LEMMA EventTaken ==
    ASSUME TypeOK, inbox # <<>>, inbox' = Tail(inbox)
    PROVE  /\ inbox' \in Seq(Event) /\ Head(inbox) \in Event /\ Head(inbox).msg \in Msg
           /\ Head(inbox) \in Range(inbox) /\ Range(inbox') \subseteq Range(inbox)
           /\ Steers' \subseteq Steers
           /\ Head(inbox).type = "steer" => Steers = Steers' \union {Head(inbox).msg}
           /\ Head(inbox).type = "cancel" => Steers = Steers'
           /\ Head(inbox) = inbox[1] /\ 1 \in DOMAIN inbox
           /\ \A i \in DOMAIN inbox' :
                 i + 1 \in DOMAIN inbox /\ inbox'[i] = inbox[i + 1] /\ i \in Nat /\ 1 < i + 1
<1> DEFINE e == Head(inbox)
<1>1. /\ inbox' \in Seq(Event) /\ e \in Event /\ Range(inbox) = Range(inbox') \union {e}
      /\ e = inbox[1] /\ 1 \in DOMAIN inbox
      /\ \A i \in DOMAIN inbox' : i + 1 \in DOMAIN inbox /\ inbox'[i] = inbox[i + 1]
      /\ DOMAIN inbox' = 1 .. Len(inbox) - 1 /\ Len(inbox) \in Nat
  BY Types, TailFacts
<1> HIDE DEF e
<1>2. e.msg \in Msg /\ e.type \in {"steer", "cancel"} /\ e = [type |-> e.type, msg |-> e.msg]
  BY <1>1 DEF Event
<1>3. \A n \in Msg : [type |-> "steer", msg |-> n] = e <=> (e.type = "steer" /\ n = e.msg)
  BY <1>2
<1>4. /\ Steers' \subseteq Steers
      /\ e.type = "steer" => Steers = Steers' \union {e.msg}
      /\ e.type = "cancel" => Steers = Steers'
  BY <1>1, <1>2, <1>3, ZenonT(60) DEF Steers
<1>5. \A i \in DOMAIN inbox' : i \in Nat /\ 1 < i + 1
  BY <1>1
<1> QED
  BY <1>1, <1>2, <1>4, <1>5, ZenonT(60) DEF e

\* What a step of the turn does: it moves the phase, or takes the whole queue as
\* the batch to drain (maybe_drain_steering_queue).
LEMMA TurnFacts ==
    ASSUME TypeOK, TurnStep
    PROVE  /\ UNCHANGED <<db, inbox, transcript, requests, cancel, crashes>>
           /\ batch = <<>> /\ phase' \in Phase
           /\ \/ /\ UNCHANGED <<mem, batch, todo>>
                 /\ \/ asked' = Len(transcript)
                    \/ asked' = asked /\ phase' # "LlmRequesting"
              \/ /\ batch' = mem /\ todo' = mem /\ mem' = <<>> /\ mem # <<>>
                 /\ asked' = asked
<1>1. CASE UserTurn
  BY <1>1, ZenonT(60) DEF UserTurn, drain, Phase
<1>2. CASE LlmTools
  BY <1>2, ZenonT(60) DEF LlmTools, drain, Phase
<1>3. CASE LlmText
  BY <1>3, ZenonT(60) DEF LlmText, EnterAtHook, drain, Phase
<1>4. CASE LlmFails
  BY <1>4, ZenonT(60) DEF LlmFails, drain, Phase
<1>5. CASE ToolsDone
  BY <1>5, ZenonT(60) DEF ToolsDone, EnterAtHook, drain, Phase
<1>6. CASE CancelTurn
  BY <1>6, ZenonT(60) DEF CancelTurn, EnterAtHook, drain, Phase
<1>7. CASE ToolAborted
  BY <1>7, ZenonT(60) DEF ToolAborted, EnterAtHook, drain, Phase
<1>8. CASE DismissError
  BY <1>8, ZenonT(60) DEF DismissError, drain, Phase
<1> QED
  BY <1>1, <1>2, <1>3, <1>4, <1>5, <1>6, <1>7, <1>8 DEF TurnStep, LlmAnswers

\* Every action is one of these.
LEMMA NextCases ==
    ASSUME Next
    PROVE  \/ \E m \in Msg : \/ SendStep(m) \/ EnqueueWrite(m) \/ EnqueueSend(m)
                             \/ CancelDelete(m) \/ CancelNotify(m)
           \/ HandleSteer \/ HandleCancelSteer \/ PersistEntry \/ FinishDrain
           \/ TurnStep \/ Restart
  BY ZenonT(60) DEF Next, SendStep, TurnStep

\* What the first steps of a sender do: they move its request, and at most take
\* the lock or read the table.
LEMMA SendFacts ==
    ASSUME TypeOK, NEW m \in Msg, SendStep(m)
    PROVE  /\ UNCHANGED <<phase, asked, mem, db, inbox, transcript, batch, todo, cancel, order,
                          crashes>>
           /\ snapshot' \in {snapshot, db}
           /\ send' \in [Msg -> SendState] /\ \A n \in Msg \ {m} : send'[n] = send[n]
           /\ send[m] \in {"new", "busy", "checked"} /\ send'[m] # "written"
           /\ send'[m] = "accepted" => m \in Range(db) \union Range(transcript)
           /\ lock' \in Msg \union {NoMsg}
           /\ \A n \in Msg : send'[n] \in {"checked", "read", "written"} <=> lock' = n
<1>1. /\ send \in [Msg -> SendState] /\ lock \in Msg \union {NoMsg}
      /\ \A n \in Msg : send[n] \in {"checked", "read", "written"} <=> lock = n
  BY DEF TypeOK
<1>2. CASE SendReplay(m)
  BY <1>1, <1>2 DEF SendReplay, conversation, drain, SendState
<1>3. CASE SendWhileBusy(m)
  BY <1>1, <1>3 DEF SendWhileBusy, conversation, drain, SendState
<1>4. CASE EnqueueCheck(m)
  BY <1>1, <1>4, MsgAssumption DEF EnqueueCheck, conversation, drain, SendState
<1>5. CASE EnqueueRead(m)
  BY <1>1, <1>5 DEF EnqueueRead, conversation, drain, SendState
<1> QED
  BY <1>2, <1>3, <1>4, <1>5 DEF SendStep

\* Every step keeps the types, one holder of the lock, and a drain to its batch.
LEMMA TypeOKStep ==
    ASSUME TypeOK, Editable, Next
    PROVE  TypeOK'
<1>0. /\ phase \in Phase /\ asked \in 0 .. Len(transcript) /\ EndOf(todo, batch)
      /\ lock \in Msg \union {NoMsg} /\ crashes \in 0 .. MaxCrashes
      /\ \A n \in Msg : send[n] \in {"checked", "read", "written"} <=> lock = n
  BY DEF TypeOK
<1>1. ASSUME NEW m \in Msg, SendStep(m)
      PROVE  TypeOK'
  <2>1. snapshot' \in Seq(Msg)
    BY ZenonT(60), <1>1, SendFacts, Types
  <2> QED
    BY <1>0, <1>1, <2>1, SendFacts, Types DEF TypeOK
<1>2. ASSUME NEW m \in Msg, EnqueueWrite(m)
      PROVE  TypeOK'
  <2>1. db' \in Seq(Msg) /\ order' \in Seq(Msg)
    BY <1>2, Types, AppendFacts DEF EnqueueWrite
  <2>2. send' \in [Msg -> SendState]
    BY <1>2, Types DEF EnqueueWrite, SendState
  <2>3. \A n \in Msg : send'[n] \in {"checked", "read", "written"} <=> lock' = n
    BY <1>0, <1>2, Types DEF EnqueueWrite
  <2> QED
    BY <1>0, <1>2, <2>1, <2>2, <2>3, Types DEF EnqueueWrite, conversation, drain, TypeOK
<1>3. ASSUME NEW m \in Msg, EnqueueSend(m)
      PROVE  TypeOK'
  <2>0. snapshot' \in Seq(Msg)
    BY <1>3 DEF EnqueueSend
  <2>1. inbox' \in Seq(Event)
    BY ZenonT(60), <1>3, EventSent DEF EnqueueSend
  <2>2. send' \in [Msg -> SendState]
    BY <1>3, Types DEF EnqueueSend, SendState
  <2>3. \A n \in Msg : send'[n] \in {"checked", "read", "written"} <=> lock' = n
    BY <1>0, <1>3, Types, MsgAssumption DEF EnqueueSend
  <2> QED
    BY <1>0, <1>3, <2>0, <2>1, <2>2, <2>3, Types DEF EnqueueSend, conversation, drain, TypeOK
<1>4. ASSUME NEW m \in Msg, CancelDelete(m)
      PROVE  TypeOK'
  <2>1. db' \in Seq(Msg)
    BY <1>4, Types, WithoutFacts DEF CancelDelete, Editable
  <2>2. cancel' \in [Msg -> CancelState]
    BY <1>4, Types DEF CancelDelete, CancelState
  <2> QED
    BY <1>0, <1>4, <2>1, <2>2, Types DEF CancelDelete, conversation, drain, requests, TypeOK
<1>5. ASSUME NEW m \in Msg, CancelNotify(m)
      PROVE  TypeOK'
  <2>1. inbox' \in Seq(Event)
    BY ZenonT(60), <1>5, EventSent DEF CancelNotify
  <2>2. cancel' \in [Msg -> CancelState]
    BY <1>5, Types DEF CancelNotify, CancelState
  <2> QED
    BY <1>0, <1>5, <2>1, <2>2, Types DEF CancelNotify, conversation, drain, requests, TypeOK
<1>6. CASE HandleSteer
  <2>1. inbox' \in Seq(Event) /\ Head(inbox).msg \in Msg
    BY <1>6, EventTaken DEF HandleSteer
  <2>2. mem' \in Seq(Msg) /\ db' \in Seq(Msg)
    BY <1>6, <2>1, Types, AppendFacts DEF HandleSteer
  <2> QED
    BY <1>0, <1>6, <2>1, <2>2, Types DEF HandleSteer, conversation, drain, requests, TypeOK
<1>7. CASE HandleCancelSteer
  <2>1. inbox' \in Seq(Event) /\ Head(inbox).msg \in Msg
    BY <1>7, EventTaken DEF HandleCancelSteer
  <2>2. mem' \in Seq(Msg)
    BY <1>7, Types, WithoutFacts DEF HandleCancelSteer, Editable
  <2>3. cancel' \in [Msg -> CancelState]
    BY <1>7, <2>1, Types DEF HandleCancelSteer, CancelState
  <2> QED
    BY <1>0, <1>7, <2>1, <2>2, <2>3, Types
       DEF HandleCancelSteer, conversation, drain, requests, TypeOK
<1>8. CASE PersistEntry
  <2>1. Head(todo) \in Msg /\ todo' \in Seq(Msg)
    BY <1>8, Types, TailFacts DEF PersistEntry
  <2>2. transcript' \in Seq(Msg) /\ Len(transcript) <= Len(transcript')
        /\ Len(transcript) \in Nat /\ Len(transcript') \in Nat
    BY <1>8, <2>1, Types, AppendFacts DEF PersistEntry
  <2>3. asked' \in 0 .. Len(transcript')
    BY <1>0, <1>8, <2>2 DEF PersistEntry, conversation
  <2>4. EndOf(todo', batch')
    <3>1. /\ Len(todo') = Len(todo) - 1 /\ Len(todo) \in Nat \ {0} /\ batch' = batch
          /\ \A i \in 1 .. Len(todo) - 1 : todo'[i] = todo[i + 1]
      BY <1>8, Types, TailFacts DEF PersistEntry
    <3>2. Len(batch) \in Nat
      BY Types
    <3> QED
      BY <1>0, <3>1, <3>2 DEF EndOf
  <2> QED
    BY <1>0, <1>8, <2>1, <2>2, <2>3, <2>4, Types DEF PersistEntry, conversation, requests, TypeOK
<1>9. CASE FinishDrain
  <2>1. db' \in Seq(Msg)
    BY <1>9, Types, WithoutFacts DEF FinishDrain, Editable
  <2>2. EndOf(todo', batch') /\ batch' \in Seq(Msg)
    BY <1>9 DEF FinishDrain, EndOf
  <2>3. asked' \in 0 .. Len(transcript')
    BY <1>9, Types DEF FinishDrain
  <2> QED
    BY <1>0, <1>9, <2>1, <2>2, <2>3, Types DEF FinishDrain, requests, TypeOK
<1>10. CASE TurnStep
  <2>1. /\ UNCHANGED <<db, inbox, transcript, requests, cancel, crashes>> /\ phase' \in Phase
        /\ \/ UNCHANGED <<mem, batch, todo>>
           \/ batch' = mem /\ todo' = mem /\ mem' = <<>>
        /\ asked' \in {asked, Len(transcript)}
    BY <1>10, TurnFacts, ZenonT(60)
  <2>2. mem' \in Seq(Msg) /\ batch' \in Seq(Msg) /\ todo' \in Seq(Msg)
    <3>1. <<>> \in Seq(Msg)
      OBVIOUS
    <3> QED
      BY <2>1, <3>1, Types, ZenonT(60)
  <2>3. asked' \in 0 .. Len(transcript')
    BY <1>0, <2>1, Types
  <2>4. EndOf(todo', batch')
    <3>1. EndOf(mem, mem)
      BY Types DEF EndOf
    <3> QED
      BY <1>0, <2>1, <3>1, ZenonT(60)
  <2> QED
    BY <1>0, <2>1, <2>2, <2>3, <2>4, Types DEF requests, TypeOK
<1>11. CASE Restart
  <2>1. <<>> \in Seq(Msg) /\ <<>> \in Seq(Event) /\ EndOf(<<>>, <<>>)
    BY DEF EndOf
  <2>2. phase' \in Phase /\ asked' \in 0 .. Len(transcript') /\ crashes' \in 0 .. MaxCrashes
    BY <1>0, <1>11, Types, BoundAssumption DEF Restart, ResumePhases, Phase
  <2>3. /\ send' \in [Msg -> SendState] /\ cancel' \in [Msg -> CancelState]
    BY <1>11, Types DEF Restart, SendState, CancelState
  <2>4. \A n \in Msg : send'[n] \in {"checked", "read", "written"} <=> lock' = n
    BY <1>0, <1>11, MsgAssumption DEF Restart
  <2> QED
    BY <1>11, <2>1, <2>2, <2>3, <2>4, Types DEF Restart, TypeOK
<1> QED
  BY <1>1, <1>2, <1>3, <1>4, <1>5, <1>6, <1>7, <1>8, <1>9, <1>10, <1>11, NextCases

\* The lists are appended to, copied and deleted from, and so stay deletable.
LEMMA EditableStep ==
    ASSUME TypeOK, Editable, Next
    PROVE  Editable'
<1>1. ASSUME NEW m \in Msg, SendStep(m)
      PROVE  Editable'
  BY <1>1, SendFacts, ZenonT(60) DEF Editable
<1>2. ASSUME NEW m \in Msg, EnqueueWrite(m)
      PROVE  Editable'
  <2>1. Deletable(Append(snapshot, m))
    BY Types, AppendDeletable DEF Editable
  <2> QED
    BY <1>2, <2>1, ZenonT(60) DEF EnqueueWrite, Editable
<1>3. ASSUME NEW m \in Msg, EnqueueSend(m)
      PROVE  Editable'
  BY <1>3, EmptyDeletable, ZenonT(60) DEF EnqueueSend, Editable
<1>4. ASSUME NEW m \in Msg, CancelDelete(m)
      PROVE  Editable'
  BY <1>4, Types, WithoutFacts, ZenonT(60) DEF CancelDelete, requests, Editable
<1>5. ASSUME NEW m \in Msg, CancelNotify(m)
      PROVE  Editable'
  BY <1>5, ZenonT(60) DEF CancelNotify, requests, Editable
<1>6. CASE HandleSteer
  <2>1. Head(inbox).msg \in Msg
    BY <1>6, EventTaken DEF HandleSteer
  <2>2. Deletable(Append(mem, Head(inbox).msg))
    BY <2>1, Types, AppendDeletable DEF Editable
  <2> QED
    BY <1>6, <2>2, ZenonT(60) DEF HandleSteer, requests, Editable
<1>7. CASE HandleCancelSteer
  BY <1>7, Types, WithoutFacts, ZenonT(60) DEF HandleCancelSteer, requests, Editable
<1>8. CASE PersistEntry
  BY <1>8, ZenonT(60) DEF PersistEntry, requests, Editable
<1>9. CASE FinishDrain
  BY <1>9, Types, WithoutFacts, ZenonT(60) DEF FinishDrain, requests, Editable
<1>10. CASE TurnStep
  BY <1>10, TurnFacts, EmptyDeletable, ZenonT(60) DEF requests, Editable
<1>11. CASE Restart
  BY <1>11, EmptyDeletable, ZenonT(60) DEF Restart, Editable
<1> QED
  BY <1>1, <1>2, <1>3, <1>4, <1>5, <1>6, <1>7, <1>8, <1>9, <1>10, <1>11, NextCases, ZenonT(60)

-----------------------------------------------------------------------------
(* How the messages move.                                                  *)

\* What is under way depends on the drain, the queue and the channel only.
LEMMA SameUnderway ==
    ASSUME UNCHANGED <<todo, mem, inbox>>
    PROVE  Underway' = Underway /\ Steers' = Steers
  BY ZenonT(60) DEF Underway, Steers

\* Messages under way are messages.
LEMMA PresentTypes ==
    ASSUME TypeOK
    PROVE  /\ Present \subseteq Msg /\ Underway \subseteq Msg
           /\ Range(transcript) \subseteq Msg /\ Range(order) \subseteq Msg
<1>1. /\ Range(db) \subseteq Msg /\ Range(snapshot) \subseteq Msg /\ Range(transcript) \subseteq Msg
      /\ Range(todo) \subseteq Msg /\ Range(mem) \subseteq Msg /\ Range(order) \subseteq Msg
  BY Types, RangeFacts, ZenonT(60)
<1> QED
  BY <1>1, Events, ZenonT(60) DEF Present, Underway

\* A sender writes the table (update_steering_queue).
LEMMA WriteMoves ==
    ASSUME TypeOK, NEW m \in Msg, EnqueueWrite(m)
    PROVE  /\ Range(db') = Range(snapshot) \union {m}
           /\ Range(order') = Range(order) \union {m}
           /\ Underway' = Underway /\ Steers' = Steers
           /\ UNCHANGED <<transcript, snapshot, mem, todo, inbox, cancel, crashes>>
<1>1. UNCHANGED <<transcript, snapshot, mem, todo, inbox, cancel, crashes>>
  BY ZenonT(60) DEF EnqueueWrite, drain
<1>2. Range(db') = Range(snapshot) \union {m} /\ Range(order') = Range(order) \union {m}
  BY Types, AppendFacts DEF EnqueueWrite
<1> QED
  BY <1>1, <1>2, SameUnderway

\* A sender hands its message to the executor.
LEMMA SendMoves ==
    ASSUME TypeOK, NEW m \in Msg, EnqueueSend(m)
    PROVE  /\ Underway' = Underway \union {m} /\ Steers' = Steers \union {m}
           /\ Range(snapshot') = {}
           /\ UNCHANGED <<transcript, db, mem, todo, cancel, order, crashes>>
<1>1. UNCHANGED <<transcript, db, mem, todo, cancel, order, crashes>> /\ snapshot' = <<>>
  BY ZenonT(60) DEF EnqueueSend, drain
<1>2. Steers' = Steers \union {m}
  BY EventSent, ZenonT(60) DEF EnqueueSend
<1>3. Range(snapshot') = {}
  BY <1>1, Types, RangeFacts, ZenonT(60)
<1> QED
  BY <1>1, <1>2, <1>3, ZenonT(60) DEF Underway

\* A canceller deletes its message from the table.
LEMMA DeleteMoves ==
    ASSUME TypeOK, Editable, NEW m \in Msg, CancelDelete(m)
    PROVE  /\ Range(db') = Range(db) \ {m}
           /\ Underway' = Underway /\ Steers' = Steers
           /\ UNCHANGED <<transcript, snapshot, mem, todo, inbox, send, order, crashes>>
<1>1. UNCHANGED <<transcript, snapshot, mem, todo, inbox, send, order, crashes>>
  BY ZenonT(60) DEF CancelDelete, drain, requests
<1>2. Range(db') = Range(db) \ {m}
  BY Types, WithoutFacts DEF CancelDelete, Editable
<1> QED
  BY <1>1, <1>2, SameUnderway

\* A canceller notifies the executor.
LEMMA NotifyMoves ==
    ASSUME TypeOK, NEW m \in Msg, CancelNotify(m)
    PROVE  /\ Underway' = Underway /\ Steers' = Steers
           /\ UNCHANGED <<transcript, db, snapshot, mem, todo, send, order, crashes>>
<1>1. UNCHANGED <<transcript, db, snapshot, mem, todo, send, order, crashes>>
  BY ZenonT(60) DEF CancelNotify, drain, requests
<1>2. Steers' = Steers \union (IF "cancel" = "steer" THEN {m} ELSE {})
  BY EventSent, ZenonT(60) DEF CancelNotify
<1>3. Steers' = Steers
  BY <1>2
<1> QED
  BY <1>1, <1>3, ZenonT(60) DEF Underway

\* The executor takes in a message, and writes the table.
LEMMA SteerMoves ==
    ASSUME TypeOK, HandleSteer
    PROVE  /\ Range(mem') = Range(mem) \union {Head(inbox).msg} /\ db' = mem'
           /\ Steers = Steers' \union {Head(inbox).msg} /\ Underway' = Underway
           /\ todo = <<>> /\ Range(todo) = {}
           /\ UNCHANGED <<transcript, snapshot, todo, send, cancel, order, crashes>>
<1>1. UNCHANGED <<transcript, snapshot, todo, send, cancel, order, crashes>> /\ db' = mem'
  BY ZenonT(60) DEF HandleSteer, drain, requests
<1>2. Steers = Steers' \union {Head(inbox).msg} /\ Head(inbox).msg \in Msg
  BY EventTaken, ZenonT(60) DEF HandleSteer
<1>3. Range(mem') = Range(mem) \union {Head(inbox).msg}
  BY <1>2, Types, AppendFacts DEF HandleSteer
<1>4. todo = <<>>
  BY NoBatch DEF HandleSteer
<1>5. Range(todo) = {}
  BY <1>4, Types, RangeFacts, ZenonT(60)
<1> QED
  BY <1>1, <1>2, <1>3, <1>4, <1>5, ZenonT(60) DEF Underway

\* The executor takes in a cancellation.
LEMMA CancelMoves ==
    ASSUME TypeOK, Editable, HandleCancelSteer
    PROVE  /\ Range(mem') = Range(mem) \ {Head(inbox).msg} /\ Steers' = Steers
           /\ Underway' \subseteq Underway
           /\ Underway \subseteq Underway' \union {Head(inbox).msg}
           /\ Head(inbox).msg \in Msg /\ Range(todo) = {}
           /\ UNCHANGED <<transcript, db, snapshot, todo, send, order, crashes>>
<1>1. UNCHANGED <<transcript, db, snapshot, todo, send, order, crashes>>
  BY ZenonT(60) DEF HandleCancelSteer, drain, requests
<1>2. Steers' = Steers /\ Head(inbox).msg \in Msg
  BY EventTaken, ZenonT(60) DEF HandleCancelSteer
<1>3. Range(mem') = Range(mem) \ {Head(inbox).msg}
  BY Types, WithoutFacts, ZenonT(60) DEF HandleCancelSteer, Editable
<1>4. todo = <<>>
  BY NoBatch DEF HandleCancelSteer
<1>5. Range(todo) = {}
  BY <1>4, Types, RangeFacts, ZenonT(60)
<1> QED
  BY <1>1, <1>2, <1>3, <1>5, ZenonT(60) DEF Underway

\* An entry of the batch is persisted.
LEMMA PersistMoves ==
    ASSUME TypeOK, PersistEntry
    PROVE  /\ Range(transcript') = Range(transcript) \union {Head(todo)}
           /\ Range(todo) = Range(todo') \union {Head(todo)} /\ Steers' = Steers
           /\ Underway = Underway' \union {Head(todo)}
           /\ UNCHANGED <<db, snapshot, mem, inbox, batch, send, cancel, order, crashes>>
<1>1. UNCHANGED <<db, snapshot, mem, inbox, batch, send, cancel, order, crashes>>
  BY ZenonT(60) DEF PersistEntry, requests
<1>2. Range(todo) = Range(todo') \union {Head(todo)} /\ Head(todo) \in Msg
  BY Types, TailFacts, ZenonT(60) DEF PersistEntry
<1>3. Range(transcript') = Range(transcript) \union {Head(todo)}
  <2>1. CASE Head(todo) \in Range(transcript)
    BY <2>1, ZenonT(60) DEF PersistEntry
  <2>2. CASE Head(todo) \notin Range(transcript)
    BY <1>2, <2>2, Types, AppendFacts DEF PersistEntry
  <2> QED
    BY <2>1, <2>2
<1>4. Steers' = Steers
  BY <1>1, ZenonT(60) DEF Steers
<1> QED
  BY <1>1, <1>2, <1>3, <1>4, ZenonT(60) DEF Underway

\* The rows of the batch are deleted.
LEMMA FinishMoves ==
    ASSUME TypeOK, Editable, FinishDrain
    PROVE  /\ Range(db') \subseteq Range(db)
           /\ Underway' = Underway /\ Steers' = Steers
           /\ UNCHANGED <<transcript, snapshot, mem, todo, inbox, send, cancel, order, crashes>>
<1>1. UNCHANGED <<transcript, snapshot, mem, todo, inbox, send, cancel, order, crashes>>
  BY ZenonT(60) DEF FinishDrain, requests
<1>2. Range(db') = Range(db) \ Range(batch)
  BY Types, WithoutFacts, ZenonT(60) DEF FinishDrain, Editable
<1> QED
  BY <1>1, <1>2, SameUnderway, ZenonT(60)

\* A step of the turn may move the queue into the batch.
LEMMA TurnMoves ==
    ASSUME TypeOK, TurnStep
    PROVE  /\ Underway' = Underway /\ Steers' = Steers
           /\ Range(todo) = {}
           /\ \/ UNCHANGED <<mem, todo>>
              \/ todo' = mem /\ Range(mem') = {}
           /\ UNCHANGED <<transcript, db, snapshot, inbox, send, cancel, order, crashes>>
<1>1. /\ UNCHANGED <<transcript, db, snapshot, inbox, send, cancel, order, crashes>>
      /\ batch = <<>>
      /\ UNCHANGED <<mem, todo>> \/ (todo' = mem /\ mem' = <<>>)
  BY TurnFacts, ZenonT(60) DEF requests
<1>2. Range(todo) = {} /\ Range(<<>>) = {}
  BY <1>1, NoBatch, Types, RangeFacts, ZenonT(60)
<1>3. Steers' = Steers
  BY <1>1, ZenonT(60) DEF Steers
<1> QED
  BY <1>1, <1>2, <1>3, ZenonT(60) DEF Underway

\* A restart loads the table into the queue and forgets the rest.
LEMMA RestartMoves ==
    ASSUME TypeOK, Restart
    PROVE  /\ mem' = db /\ Range(todo') = {} /\ Range(snapshot') = {} /\ Steers' = {}
           /\ Underway' = Range(db) /\ crashes' # 0 /\ inbox' = <<>>
           /\ UNCHANGED <<transcript, db, order>>
<1>1. /\ UNCHANGED <<transcript, db, order>>
      /\ mem' = db /\ todo' = <<>> /\ snapshot' = <<>> /\ inbox' = <<>>
  BY ZenonT(60) DEF Restart
<1>2. crashes' # 0
  BY Types DEF Restart
<1>3. Range(<<>>) = {}
  BY Types, RangeFacts, ZenonT(60)
<1>4. Steers' = {}
  BY <1>1, <1>3, ZenonT(60) DEF Steers
<1> QED
  BY <1>1, <1>2, <1>3, <1>4, ZenonT(60) DEF Underway

-----------------------------------------------------------------------------
(* The invariant of delivery.                                              *)

\* Every step: what is stored or under way was sent.
LEMMA SentFirstStep ==
    ASSUME TypeOK, Editable, SentFirst, Next
    PROVE  SentFirst'
<1> SUFFICES ASSUME crashes' = 0, NEW x \in Present'
             PROVE  send'[x] \in {"written", "accepted"}
  BY DEF SentFirst
<1>0. ASSUME crashes = 0, NEW y \in Present
      PROVE  send[y] \in {"written", "accepted"} /\ y \in Msg
  BY <1>0, PresentTypes DEF SentFirst
<1>1. ASSUME NEW m \in Msg, SendStep(m)
      PROVE  send'[x] \in {"written", "accepted"}
  <2>1. /\ crashes = 0 /\ Range(snapshot') \subseteq Range(snapshot) \union Range(db)
        /\ UNCHANGED <<db, transcript, todo, mem, inbox>>
    BY <1>1, SendFacts, ZenonT(60)
  <2>2. x \in Present
    BY <2>1, SameUnderway, ZenonT(60) DEF Present
  <2>3. send[x] \in {"written", "accepted"} /\ x \in Msg
    BY <1>0, <2>1, <2>2
  <2>4. send[m] \in {"new", "busy", "checked"} /\ \A n \in Msg \ {m} : send'[n] = send[n]
    BY <1>1, SendFacts
  <2> QED
    BY <2>3, <2>4
<1>2. ASSUME NEW m \in Msg, EnqueueWrite(m)
      PROVE  send'[x] \in {"written", "accepted"}
  <2>1. crashes = 0 /\ (x = m \/ x \in Present)
    BY <1>2, WriteMoves, ZenonT(60) DEF Present
  <2>2. x # m => send[x] \in {"written", "accepted"} /\ x \in Msg
    BY <1>0, <2>1
  <2>3. send \in [Msg -> SendState] /\ send' = [send EXCEPT ![m] = "written"]
    BY <1>2, Types DEF EnqueueWrite
  <2> QED
    BY <2>2, <2>3
<1>3. ASSUME NEW m \in Msg, EnqueueSend(m)
      PROVE  send'[x] \in {"written", "accepted"}
  <2>1. crashes = 0 /\ (x = m \/ x \in Present)
    BY <1>3, SendMoves, ZenonT(60) DEF Present
  <2>2. x # m => send[x] \in {"written", "accepted"} /\ x \in Msg
    BY <1>0, <2>1
  <2>3. send \in [Msg -> SendState] /\ send' = [send EXCEPT ![m] = "accepted"]
    BY <1>3, Types DEF EnqueueSend
  <2> QED
    BY <2>2, <2>3
<1>4. ASSUME crashes' = crashes, send' = send, Present' \subseteq Present
      PROVE  send'[x] \in {"written", "accepted"}
  BY <1>0, <1>4
<1>5. ASSUME NEW m \in Msg, CancelDelete(m)
      PROVE  send'[x] \in {"written", "accepted"}
  <2>1. crashes' = crashes /\ send' = send /\ Present' \subseteq Present
    BY <1>5, DeleteMoves, ZenonT(60) DEF Present
  <2> QED
    BY <1>4, <2>1
<1>6. ASSUME NEW m \in Msg, CancelNotify(m)
      PROVE  send'[x] \in {"written", "accepted"}
  <2>1. crashes' = crashes /\ send' = send /\ Present' \subseteq Present
    BY <1>6, NotifyMoves, ZenonT(60) DEF Present
  <2> QED
    BY <1>4, <2>1
<1>7. CASE HandleSteer
  <2>1. crashes' = crashes /\ send' = send /\ Present' \subseteq Present
    BY <1>7, SteerMoves, ZenonT(60) DEF Present, Underway
  <2> QED
    BY <1>4, <2>1
<1>8. CASE HandleCancelSteer
  <2>1. crashes' = crashes /\ send' = send /\ Present' \subseteq Present
    BY <1>8, CancelMoves, ZenonT(60) DEF Present
  <2> QED
    BY <1>4, <2>1
<1>9. CASE PersistEntry
  <2>1. crashes' = crashes /\ send' = send /\ Present' \subseteq Present
    BY <1>9, PersistMoves, ZenonT(60) DEF Present
  <2> QED
    BY <1>4, <2>1
<1>10. CASE FinishDrain
  <2>1. crashes' = crashes /\ send' = send /\ Present' \subseteq Present
    BY <1>10, FinishMoves, ZenonT(60) DEF Present
  <2> QED
    BY <1>4, <2>1
<1>11. CASE TurnStep
  <2>1. crashes' = crashes /\ send' = send /\ Present' \subseteq Present
    BY <1>11, TurnMoves, ZenonT(60) DEF Present
  <2> QED
    BY <1>4, <2>1
<1>12. CASE Restart
  BY <1>12, RestartMoves
<1> QED
  BY <1>1, <1>2, <1>3, <1>5, <1>6, <1>7, <1>8, <1>9, <1>10, <1>11, <1>12, NextCases,
     ZenonT(60)

\* Every step: a cancellation stays behind its message in the channel.
LEMMA CancelsFollowStep ==
    ASSUME TypeOK, Editable, CancelsFollow, Next
    PROVE  CancelsFollow'
<1>0. /\ send \in [Msg -> SendState] /\ cancel \in [Msg -> CancelState]
      /\ \A m \in Msg : cancel[m] # "none" => send[m] = "accepted"
      /\ \A e \in Range(inbox) :
            /\ e.msg \in Msg /\ send[e.msg] = "accepted"
            /\ e.type = "cancel" => cancel[e.msg] # "none"
  BY Types, Events, ZenonT(60) DEF CancelsFollow, Cancelled
<1>1. ASSUME inbox' = inbox, \A m \in Msg : send[m] = "accepted" => send'[m] = "accepted",
             \A m \in Msg : cancel'[m] # "none" => send'[m] = "accepted",
             \A m \in Msg : cancel[m] # "none" => cancel'[m] # "none"
      PROVE  CancelsFollow'
  BY <1>0, <1>1, ZenonT(60) DEF CancelsFollow, Cancelled
<1>2. ASSUME NEW m \in Msg, SendStep(m)
      PROVE  CancelsFollow'
  <2>1. /\ inbox' = inbox /\ cancel' = cancel /\ send[m] \in {"new", "busy", "checked"}
        /\ \A n \in Msg \ {m} : send'[n] = send[n]
    BY <1>2, SendFacts, ZenonT(60)
  <2>2. send[m] # "accepted"
    BY <2>1
  <2> QED
    BY <1>0, <1>1, <2>1, <2>2, ZenonT(60)
<1>3. ASSUME NEW m \in Msg, EnqueueWrite(m)
      PROVE  CancelsFollow'
  <2>1. /\ inbox' = inbox /\ cancel' = cancel /\ send[m] = "read"
        /\ send' = [send EXCEPT ![m] = "written"]
    BY <1>3, WriteMoves DEF EnqueueWrite
  <2>2. send[m] # "accepted" /\ \A n \in Msg \ {m} : send'[n] = send[n]
    BY <1>0, <2>1
  <2> QED
    BY <1>0, <1>1, <2>1, <2>2, ZenonT(60)
<1>4. ASSUME NEW m \in Msg, EnqueueSend(m)
      PROVE  CancelsFollow'
  <2> DEFINE e == [type |-> "steer", msg |-> m]
  <2>1. /\ Range(inbox') = Range(inbox) \union {e}
        /\ DOMAIN inbox' = DOMAIN inbox \union {Len(inbox) + 1}
        /\ \A i \in DOMAIN inbox : inbox'[i] = inbox[i] /\ i < Len(inbox) + 1
        /\ inbox'[Len(inbox) + 1] = e
    BY <1>4, EventSent, ZenonT(60) DEF EnqueueSend
  <2>2. e.type = "steer" /\ e.msg = m
    OBVIOUS
  <2> HIDE DEF e
  <2>3. /\ cancel' = cancel /\ send[m] = "written"
        /\ send' = [send EXCEPT ![m] = "accepted"]
    BY <1>4, SendMoves DEF EnqueueSend
  <2>4. send'[m] = "accepted" /\ \A n \in Msg \ {m} : send'[n] = send[n]
    BY <1>0, <2>3
  <2>5. \A n \in Msg : Cancelled(n)' => send'[n] = "accepted"
    BY <1>0, <2>3, <2>4, ZenonT(60) DEF Cancelled
  <2>6. \A d \in Range(inbox') :
           send'[d.msg] = "accepted" /\ (d.type = "cancel" => Cancelled(d.msg)')
    BY <1>0, <2>1, <2>2, <2>3, <2>4 DEF Cancelled
  <2>7. \A i \in DOMAIN inbox : inbox[i].type = "cancel" => inbox[i].msg # m
    <3>1. \A i \in DOMAIN inbox : inbox[i] \in Range(inbox)
      BY ZenonT(60) DEF Range
    <3>2. cancel[m] = "none"
      BY <1>0, <2>3
    <3> QED
      BY <1>0, <3>1, <3>2, ZenonT(60)
  <2>8. ASSUME NEW i \in DOMAIN inbox', NEW j \in DOMAIN inbox', inbox'[i].type = "cancel",
               inbox'[j].type = "steer", inbox'[i].msg = inbox'[j].msg
        PROVE  j < i
    <3>1. i \in DOMAIN inbox /\ inbox'[i] = inbox[i]
      BY <2>1, <2>2, <2>8
    <3>2. j # Len(inbox) + 1
      BY <2>1, <2>2, <2>7, <2>8, <3>1
    <3> QED
      BY <2>1, <2>8, <3>1, <3>2 DEF CancelsFollow
  <2> QED
    BY <2>5, <2>6, <2>8, ZenonT(60) DEF CancelsFollow
<1>5. ASSUME NEW m \in Msg, CancelDelete(m)
      PROVE  CancelsFollow'
  <2>1. inbox' = inbox /\ send' = send
    BY <1>5, DeleteMoves
  <2>2. /\ send[m] = "accepted" /\ cancel'[m] = "deleted"
        /\ \A n \in Msg \ {m} : cancel'[n] = cancel[n]
    BY <1>0, <1>5 DEF CancelDelete
  <2>3. cancel'[m] # "none"
    BY <2>2
  <2> QED
    BY <1>0, <1>1, <2>1, <2>2, <2>3, ZenonT(60)
<1>6. ASSUME NEW m \in Msg, CancelNotify(m)
      PROVE  CancelsFollow'
  <2> DEFINE e == [type |-> "cancel", msg |-> m]
  <2>1. /\ Range(inbox') = Range(inbox) \union {e}
        /\ DOMAIN inbox' = DOMAIN inbox \union {Len(inbox) + 1}
        /\ \A i \in DOMAIN inbox : inbox'[i] = inbox[i] /\ i < Len(inbox) + 1
        /\ inbox'[Len(inbox) + 1] = e
    BY <1>6, EventSent, ZenonT(60) DEF CancelNotify
  <2>2. e.type = "cancel" /\ e.msg = m
    OBVIOUS
  <2> HIDE DEF e
  <2>3. send' = send /\ cancel[m] = "deleted" /\ cancel' = [cancel EXCEPT ![m] = "done"]
    BY ZenonT(60), <1>6, NotifyMoves DEF CancelNotify
  <2>4. cancel'[m] # "none" /\ cancel[m] # "none" /\ \A n \in Msg \ {m} : cancel'[n] = cancel[n]
    BY <1>0, <2>3
  <2>5. \A n \in Msg : Cancelled(n)' => send'[n] = "accepted"
    BY <1>0, <2>3, <2>4, ZenonT(60) DEF Cancelled
  <2>6. \A d \in Range(inbox') :
           send'[d.msg] = "accepted" /\ (d.type = "cancel" => Cancelled(d.msg)')
    BY <1>0, <2>1, <2>2, <2>3, <2>4 DEF Cancelled
  <2>7. ASSUME NEW i \in DOMAIN inbox', NEW j \in DOMAIN inbox', inbox'[i].type = "cancel",
               inbox'[j].type = "steer", inbox'[i].msg = inbox'[j].msg
        PROVE  j < i
    <3>1. j \in DOMAIN inbox /\ inbox'[j] = inbox[j] /\ j < Len(inbox) + 1
      BY <2>1, <2>2, <2>7
    <3> QED
      BY <2>1, <2>7, <3>1 DEF CancelsFollow
  <2> QED
    BY <2>5, <2>6, <2>7, ZenonT(60) DEF CancelsFollow
<1>7. ASSUME inbox # <<>>, inbox' = Tail(inbox), send' = send,
             \A m \in Msg : cancel'[m] # "none" => send[m] = "accepted",
             \A m \in Msg : cancel[m] # "none" => cancel'[m] # "none"
      PROVE  CancelsFollow'
  <2>1. /\ Range(inbox') \subseteq Range(inbox)
        /\ \A i \in DOMAIN inbox' :
              i + 1 \in DOMAIN inbox /\ inbox'[i] = inbox[i + 1] /\ i \in Nat
    BY <1>7, EventTaken, ZenonT(60)
  <2>2. \A d \in Range(inbox') :
           send'[d.msg] = "accepted" /\ (d.type = "cancel" => Cancelled(d.msg)')
    BY <1>0, <1>7, <2>1, ZenonT(60) DEF Cancelled
  <2>3. ASSUME NEW i \in DOMAIN inbox', NEW j \in DOMAIN inbox', inbox'[i].type = "cancel",
               inbox'[j].type = "steer", inbox'[i].msg = inbox'[j].msg
        PROVE  j < i
    <3>1. j + 1 < i + 1
      BY <2>1, <2>3, ZenonT(60) DEF CancelsFollow
    <3> QED
      BY <2>1, <3>1
  <2> QED
    BY <1>7, <2>2, <2>3, ZenonT(60) DEF CancelsFollow, Cancelled
<1>8. CASE HandleSteer
  <2>1. inbox # <<>> /\ inbox' = Tail(inbox) /\ send' = send /\ cancel' = cancel
    BY <1>8, SteerMoves, ZenonT(60) DEF HandleSteer
  <2> QED
    BY <1>0, <1>7, <2>1, ZenonT(60)
<1>9. CASE HandleCancelSteer
  <2> DEFINE x == Head(inbox).msg
  <2>1. /\ inbox # <<>> /\ inbox' = Tail(inbox) /\ send' = send
        /\ cancel' = [cancel EXCEPT ![x] = "handled"]
    BY <1>9, CancelMoves, ZenonT(60) DEF HandleCancelSteer
  <2>2. send[x] = "accepted" /\ x \in Msg
    BY <1>0, <2>1, EventTaken, ZenonT(60)
  <2> HIDE DEF x
  <2>3. cancel'[x] # "none" /\ \A n \in Msg \ {x} : cancel'[n] = cancel[n]
    BY <1>0, <2>1, <2>2
  <2> QED
    BY <1>0, <1>7, <2>1, <2>2, <2>3, ZenonT(60)
<1>10. ASSUME UNCHANGED <<inbox, send, cancel>>
       PROVE  CancelsFollow'
  BY <1>0, <1>1, <1>10, ZenonT(60)
<1>11. CASE PersistEntry
  BY <1>10, <1>11, PersistMoves, ZenonT(60)
<1>12. CASE FinishDrain
  BY <1>10, <1>12, FinishMoves, ZenonT(60)
<1>13. CASE TurnStep
  BY <1>10, <1>13, TurnMoves, ZenonT(60)
<1>14. CASE Restart
  <2>1. Range(inbox') = {} /\ DOMAIN inbox' = {}
    BY <1>14, RestartMoves DEF Range
  <2>2. \A m \in Msg : cancel'[m] # "none" => send'[m] = "accepted"
    BY <1>0, <1>14 DEF Restart
  <2> QED
    BY <2>1, <2>2, ZenonT(60) DEF CancelsFollow, Cancelled
<1> QED
  BY <1>2, <1>3, <1>4, <1>5, <1>6, <1>8, <1>9, <1>11, <1>12, <1>13, <1>14, NextCases,
     ZenonT(60)

\* Every step: a message whose cancellation was taken in does not come back.
LEMMA HandledIsGoneStep ==
    ASSUME TypeOK, Editable, CancelsFollow, HandledIsGone, Next
    PROVE  HandledIsGone'
<1> SUFFICES ASSUME crashes' = 0, NEW x \in Underway'
             PROVE  cancel'[x] # "handled"
  BY DEF HandledIsGone
<1>0. ASSUME crashes = 0, NEW y \in Underway
      PROVE  cancel[y] # "handled" /\ y \in Msg
  BY <1>0, PresentTypes DEF HandledIsGone
<1>1. ASSUME Underway' \subseteq Underway, cancel' = cancel, crashes' = crashes
      PROVE  cancel'[x] # "handled"
  BY <1>0, <1>1
<1>2. ASSUME NEW m \in Msg, SendStep(m)
      PROVE  cancel'[x] # "handled"
  BY <1>1, <1>2, SendFacts, SameUnderway, ZenonT(60)
<1>3. ASSUME NEW m \in Msg, EnqueueWrite(m)
      PROVE  cancel'[x] # "handled"
  BY <1>1, <1>3, WriteMoves, ZenonT(60)
<1>4. ASSUME NEW m \in Msg, EnqueueSend(m)
      PROVE  cancel'[x] # "handled"
  <2>1. crashes = 0 /\ cancel' = cancel /\ (x = m \/ x \in Underway)
    BY <1>4, SendMoves, ZenonT(60)
  <2>2. cancel[m] = "none"
    BY <1>4 DEF EnqueueSend, CancelsFollow, Cancelled
  <2> QED
    BY <1>0, <2>1, <2>2
<1>5. ASSUME NEW m \in Msg, CancelDelete(m)
      PROVE  cancel'[x] # "handled"
  <2>1. crashes = 0 /\ x \in Underway
    BY <1>5, DeleteMoves, ZenonT(60)
  <2>2. cancel'[m] = "deleted" /\ \A n \in Msg \ {m} : cancel'[n] = cancel[n]
    BY <1>5, Types DEF CancelDelete
  <2> QED
    BY <1>0, <2>1, <2>2
<1>6. ASSUME NEW m \in Msg, CancelNotify(m)
      PROVE  cancel'[x] # "handled"
  <2>1. crashes = 0 /\ x \in Underway
    BY <1>6, NotifyMoves, ZenonT(60)
  <2>2. cancel'[m] = "done" /\ \A n \in Msg \ {m} : cancel'[n] = cancel[n]
    BY <1>6, Types DEF CancelNotify
  <2> QED
    BY <1>0, <2>1, <2>2
<1>7. CASE HandleSteer
  BY <1>1, <1>7, SteerMoves, ZenonT(60)
<1>8. CASE HandleCancelSteer
  <2> DEFINE y == Head(inbox).msg
  <2>1. /\ crashes = 0 /\ x \in Underway /\ y \in Msg
        /\ Range(mem') = Range(mem) \ {y} /\ Range(todo') = {}
    BY <1>8, CancelMoves, ZenonT(60)
  <2>2. cancel' = [cancel EXCEPT ![y] = "handled"]
    BY <1>8, ZenonT(60) DEF HandleCancelSteer
  <2>3. y \notin Steers'
    <3>1. SUFFICES ASSUME [type |-> "steer", msg |-> y] \in Range(inbox')
                   PROVE  FALSE
      BY ZenonT(60) DEF Steers
    <3>2. PICK i \in DOMAIN inbox' : inbox'[i] = [type |-> "steer", msg |-> y]
      BY <3>1, ZenonT(60) DEF Range
    <3>3. /\ i + 1 \in DOMAIN inbox /\ inbox[i + 1] = [type |-> "steer", msg |-> y]
          /\ 1 \in DOMAIN inbox /\ inbox[1].type = "cancel" /\ inbox[1].msg = y /\ i \in Nat
      BY <1>8, <3>2, EventTaken, ZenonT(60) DEF HandleCancelSteer
    <3>4. inbox[i + 1].type = "steer" /\ inbox[i + 1].msg = y
      BY <3>3
    <3>5. i + 1 < 1
      BY <3>3, <3>4, ZenonT(60) DEF CancelsFollow
    <3> QED
      BY <3>3, <3>5
  <2>4. x # y
    BY <2>1, <2>3, ZenonT(60) DEF Underway
  <2> HIDE DEF y
  <2> QED
    BY <1>0, <2>1, <2>2, <2>4, Types
<1>9. CASE PersistEntry
  BY <1>1, <1>9, PersistMoves, ZenonT(60)
<1>10. CASE FinishDrain
  BY <1>1, <1>10, FinishMoves, ZenonT(60)
<1>11. CASE TurnStep
  BY <1>1, <1>11, TurnMoves, ZenonT(60)
<1>12. CASE Restart
  BY <1>12, RestartMoves
<1> QED
  BY <1>2, <1>3, <1>4, <1>5, <1>6, <1>7, <1>8, <1>9, <1>10, <1>11, <1>12, NextCases,
     ZenonT(60)

\* Every step: the request under way has seen the whole transcript.
LEMMA AskedLastStep ==
    ASSUME TypeOK, Editable, AskedLast, Next
    PROVE  AskedLast'
<1>1. ASSUME UNCHANGED <<phase, asked, batch, transcript>>
      PROVE  AskedLast'
  BY <1>1, ZenonT(60) DEF AskedLast
<1>2. ASSUME NEW m \in Msg,
             SendStep(m) \/ EnqueueWrite(m) \/ EnqueueSend(m) \/ CancelDelete(m) \/ CancelNotify(m)
      PROVE  AskedLast'
  BY <1>1, <1>2, SendFacts, ZenonT(60)
     DEF EnqueueWrite, EnqueueSend, CancelDelete, CancelNotify, conversation, drain
<1>3. CASE HandleSteer \/ HandleCancelSteer
  BY <1>1, <1>3, ZenonT(60) DEF HandleSteer, HandleCancelSteer, conversation, drain
<1>4. CASE PersistEntry
  BY <1>4, NoBatch, ZenonT(60) DEF PersistEntry, AskedLast
<1>5. CASE FinishDrain
  BY <1>5, ZenonT(60) DEF FinishDrain, AskedLast
<1>6. CASE TurnStep
  BY <1>6, TurnFacts, ZenonT(60) DEF AskedLast
<1>7. CASE Restart
  BY <1>7, ZenonT(60) DEF Restart, AskedLast
<1> QED
  BY <1>2, <1>3, <1>4, <1>5, <1>6, <1>7, NextCases, ZenonT(60)

\* NothingLost, in terms of what is under way.
LEMMA LostMeans ==
    NothingLost <=>
        (crashes = 0 =>
            \A m \in Msg : send[m] = "accepted" /\ cancel[m] = "none" =>
                m \in Range(transcript) \union Underway)
  BY ZenonT(60) DEF NothingLost, Cancelled, Underway, Steers

\* The same after a step.
LEMMA LostMeansNext ==
    NothingLost' <=>
        (crashes' = 0 =>
            \A m \in Msg : send'[m] = "accepted" /\ cancel'[m] = "none" =>
                m \in Range(transcript') \union Underway')
  BY ZenonT(60) DEF NothingLost, Cancelled, Underway, Steers

\* Every step: an accepted message that nobody cancels goes on.
LEMMA NothingLostStep ==
    ASSUME TypeOK, Editable, SentFirst, NothingLost, Next
    PROVE  NothingLost'
<1> SUFFICES ASSUME crashes' = 0, NEW x \in Msg, send'[x] = "accepted", cancel'[x] = "none"
             PROVE  x \in Range(transcript') \union Underway'
  BY LostMeansNext
<1>0. ASSUME crashes = 0, send[x] = "accepted", cancel[x] = "none"
      PROVE  x \in Range(transcript) \union Underway
  BY <1>0, LostMeans
<1>1. ASSUME crashes' = crashes, send' = send, cancel' = cancel,
             Range(transcript) \union Underway \subseteq Range(transcript') \union Underway'
      PROVE  x \in Range(transcript') \union Underway'
  BY <1>0, <1>1
<1>2. ASSUME NEW m \in Msg, SendStep(m)
      PROVE  x \in Range(transcript') \union Underway'
  <2>1. /\ crashes = 0 /\ cancel' = cancel /\ Underway' = Underway /\ transcript' = transcript
        /\ \A n \in Msg \ {m} : send'[n] = send[n]
        /\ send'[m] = "accepted" => m \in Range(db) \union Range(transcript)
        /\ send[m] \in {"new", "busy", "checked"}
    BY <1>2, SendFacts, SameUnderway, ZenonT(60)
  <2>2. m \notin Present
    BY <2>1 DEF SentFirst
  <2>3. x # m
    BY <2>1, <2>2, ZenonT(60) DEF Present
  <2> QED
    BY <1>0, <2>1, <2>3
<1>3. ASSUME NEW m \in Msg, EnqueueWrite(m)
      PROVE  x \in Range(transcript') \union Underway'
  <2>1. crashes = 0 /\ cancel' = cancel /\ Underway' = Underway /\ transcript' = transcript
    BY <1>3, WriteMoves
  <2>2. send[x] = "accepted"
    BY <1>3, Types DEF EnqueueWrite
  <2> QED
    BY <1>0, <2>1, <2>2
<1>4. ASSUME NEW m \in Msg, EnqueueSend(m)
      PROVE  x \in Range(transcript') \union Underway'
  <2>1. /\ crashes = 0 /\ cancel' = cancel /\ Underway' = Underway \union {m}
        /\ transcript' = transcript
    BY <1>4, SendMoves
  <2>2. x = m \/ send[x] = "accepted"
    BY <1>4, Types DEF EnqueueSend
  <2> QED
    BY <1>0, <2>1, <2>2
<1>5. ASSUME NEW m \in Msg, CancelDelete(m)
      PROVE  x \in Range(transcript') \union Underway'
  <2>1. crashes = 0 /\ send' = send /\ Underway' = Underway /\ transcript' = transcript
    BY <1>5, DeleteMoves
  <2>2. cancel[x] = "none"
    BY <1>5, Types DEF CancelDelete
  <2> QED
    BY <1>0, <2>1, <2>2
<1>6. ASSUME NEW m \in Msg, CancelNotify(m)
      PROVE  x \in Range(transcript') \union Underway'
  <2>1. crashes = 0 /\ send' = send /\ Underway' = Underway /\ transcript' = transcript
    BY <1>6, NotifyMoves
  <2>2. cancel[x] = "none"
    BY <1>6, Types DEF CancelNotify
  <2> QED
    BY <1>0, <2>1, <2>2
<1>7. CASE HandleSteer
  BY <1>1, <1>7, SteerMoves, ZenonT(60)
<1>8. CASE HandleCancelSteer
  <2> DEFINE y == Head(inbox).msg
  <2>1. /\ crashes = 0 /\ send' = send /\ transcript' = transcript /\ y \in Msg
        /\ Underway \subseteq Underway' \union {y}
    BY <1>8, CancelMoves, ZenonT(60)
  <2>2. cancel' = [cancel EXCEPT ![y] = "handled"]
    BY <1>8, ZenonT(60) DEF HandleCancelSteer
  <2> HIDE DEF y
  <2>3. x # y /\ cancel[x] = "none"
    BY <2>1, <2>2, Types
  <2> QED
    BY <1>0, <2>1, <2>3
<1>9. CASE PersistEntry
  BY <1>1, <1>9, PersistMoves, ZenonT(60)
<1>10. CASE FinishDrain
  BY <1>1, <1>10, FinishMoves, ZenonT(60)
<1>11. CASE TurnStep
  BY <1>1, <1>11, TurnMoves, ZenonT(60)
<1>12. CASE Restart
  BY <1>12, RestartMoves
<1> QED
  BY <1>2, <1>3, <1>4, <1>5, <1>6, <1>7, <1>8, <1>9, <1>10, <1>11, <1>12, NextCases,
     ZenonT(60)

\* Only a drain writes the transcript.
LEMMA TranscriptKept ==
    ASSUME TypeOK, Editable, Next, ~PersistEntry
    PROVE  transcript' = transcript
  BY NextCases, SendFacts, WriteMoves, SendMoves, DeleteMoves, NotifyMoves, SteerMoves,
     CancelMoves, FinishMoves, TurnMoves, RestartMoves, ZenonT(60)

\* Every step: no message is inserted twice.
LEMMA NoDoubleInsertionStep ==
    ASSUME TypeOK, Editable, NoDoubleInsertion, Next
    PROVE  NoDoubleInsertion'
<1>1. CASE PersistEntry /\ Head(todo) \notin Range(transcript)
  <2>1. Head(todo) \in Msg /\ transcript' = Append(transcript, Head(todo))
    BY <1>1, Types, TailFacts, ZenonT(60) DEF PersistEntry
  <2>2. /\ DOMAIN transcript' = 1 .. Len(transcript) + 1 /\ Len(transcript) \in Nat
        /\ DOMAIN transcript = 1 .. Len(transcript)
        /\ \A i \in DOMAIN transcript : transcript'[i] = transcript[i]
        /\ transcript'[Len(transcript) + 1] = Head(todo)
    BY <2>1, Types, AppendFacts, RangeFacts
  <2>3. \A i \in DOMAIN transcript : transcript[i] # Head(todo)
    BY <1>1, ZenonT(60) DEF Range
  <2> QED
    BY <2>2, <2>3 DEF NoDoubleInsertion, IsInjective
<1>2. CASE PersistEntry /\ Head(todo) \in Range(transcript)
  BY <1>2, ZenonT(60) DEF PersistEntry, NoDoubleInsertion
<1>3. CASE ~PersistEntry
  BY <1>3, TranscriptKept, ZenonT(60) DEF NoDoubleInsertion
<1> QED
  BY <1>1, <1>2, <1>3

-----------------------------------------------------------------------------
(* The order of delivery.                                                  *)

\* Sorted sequences stay sorted.
LEMMA SortedFacts ==
    ASSUME NEW M, NEW R, NEW q \in Seq(M), Sorted(R, q)
    PROVE  /\ \A m \in M : Range(q) \X {m} \subseteq R => Sorted(R, Append(q, m))
           /\ q # <<>> => Sorted(R, Tail(q)) /\ {Head(q)} \X Range(Tail(q)) \subseteq R
           /\ Deletable(q) => \A D : Sorted(R, Without(q, D))
           /\ \A S : R \subseteq S => Sorted(S, q)
<1>1. ASSUME NEW m \in M, Range(q) \X {m} \subseteq R
      PROVE  Sorted(R, Append(q, m))
  <2> DEFINE a == Append(q, m)
  <2>1. /\ DOMAIN a = 1 .. Len(q) + 1 /\ Len(q) \in Nat /\ DOMAIN q = 1 .. Len(q)
        /\ \A i \in DOMAIN q : a[i] = q[i]
        /\ a[Len(q) + 1] = m
    BY AppendFacts, RangeFacts
  <2> HIDE DEF a
  <2>2. ASSUME NEW i \in DOMAIN a, NEW j \in DOMAIN a, i < j
        PROVE  <<a[i], a[j]>> \in R
    <3>1. i \in DOMAIN q /\ (j \in DOMAIN q \/ j = Len(q) + 1)
      BY <2>1, <2>2
    <3>2. a[i] = q[i] /\ q[i] \in Range(q)
      BY <2>1, <3>1 DEF Range
    <3>3. CASE j \in DOMAIN q
      BY <2>1, <2>2, <3>1, <3>2, <3>3 DEF Sorted
    <3>4. CASE j = Len(q) + 1
      BY <1>1, <2>1, <3>2, <3>4
    <3> QED
      BY <3>1, <3>3, <3>4
  <2> QED
    BY <2>2 DEF Sorted, a
<1>2. ASSUME q # <<>>
      PROVE  Sorted(R, Tail(q)) /\ {Head(q)} \X Range(Tail(q)) \subseteq R
  <2> DEFINE t == Tail(q)
  <2>1. /\ DOMAIN t = 1 .. Len(q) - 1 /\ Len(q) \in Nat /\ 1 \in DOMAIN q /\ Head(q) = q[1]
        /\ \A i \in DOMAIN t : i + 1 \in DOMAIN q /\ t[i] = q[i + 1]
    BY <1>2, TailFacts
  <2> HIDE DEF t
  <2>2. \A i \in DOMAIN t : 1 < i + 1 /\ \A j \in DOMAIN t : i < j => i + 1 < j + 1
    BY <2>1
  <2>3. Sorted(R, t)
    BY <2>1, <2>2, ZenonT(60) DEF Sorted
  <2>4. \A i \in DOMAIN t : <<Head(q), t[i]>> \in R
    BY <2>1, <2>2 DEF Sorted
  <2>5. \A x \in Range(t) : <<Head(q), x>> \in R
    BY <2>4, ZenonT(60) DEF Range
  <2> QED
    BY <2>3, <2>5 DEF t
<1>3. ASSUME Deletable(q), NEW D
      PROVE  Sorted(R, Without(q, D))
  <2> DEFINE w == Without(q, D)
  <2>1. \A m, n \in DOMAIN w : m < n =>
           \E i, j \in DOMAIN q : i < j /\ w[m] = q[i] /\ w[n] = q[j]
    BY <1>3, WithoutFacts
  <2> HIDE DEF w
  <2>2. Sorted(R, w)
    BY <2>1, ZenonT(60) DEF Sorted
  <2> QED
    BY <2>2 DEF w
<1>4. ASSUME NEW S, R \subseteq S
      PROVE  Sorted(S, q)
  BY <1>4, ZenonT(60) DEF Sorted
<1> QED
  BY <1>1, <1>2, <1>3, <1>4, ZenonT(60)

\* Who is earlier than whom.
LEMMA EarlierFacts ==
    ASSUME TypeOK
    PROVE  /\ \A a, b \in Msg : cancel[a] # "none" \/ cancel[b] # "none" => <<a, b>> \in Earlier
           /\ Admitted => \A m \in Msg : send[m] = "written" => Range(order) \X {m} \subseteq Earlier
           /\ \A R : Sorted(R, <<>>) /\ EventsSorted(R, <<>>)
<1>1. ASSUME NEW a \in Msg, NEW b \in Msg, cancel[a] # "none" \/ cancel[b] # "none"
      PROVE  <<a, b>> \in Earlier
  BY <1>1 DEF Earlier, Cancelled
<1>2. ASSUME Admitted, NEW m \in Msg, send[m] = "written", NEW a \in Range(order)
      PROVE  <<a, m>> \in Earlier
  <2>1. order # <<>> /\ order[Len(order)] = m
    BY <1>2 DEF Admitted
  <2>2. /\ DOMAIN order = 1 .. Len(order) /\ Len(order) \in Nat /\ Len(order) # 0
        /\ Range(order) \subseteq Msg
    BY <2>1, Types, RangeFacts
  <2>3. PICK k \in DOMAIN order : order[k] = a
    BY <1>2, ZenonT(60) DEF Range
  <2>4. k = Len(order) \/ k < Len(order)
    BY <2>2, <2>3
  <2>5. Len(order) \in DOMAIN order /\ a \in Msg
    BY <1>2, <2>2
  <2>6. a = m \/ \E i, j \in DOMAIN order : i < j /\ order[i] = a /\ order[j] = m
    BY <2>1, <2>3, <2>4, <2>5, ZenonT(60)
  <2> QED
    BY <2>5, <2>6 DEF Earlier
<1>3. \A R : Sorted(R, <<>>) /\ EventsSorted(R, <<>>)
  BY DEF Sorted, EventsSorted
<1> QED
  BY <1>1, <1>2, <1>3

\* Admissions are only added, and a cancellation is never taken back.
LEMMA EarlierGrows ==
    ASSUME TypeOK, Editable, Next
    PROVE  /\ Earlier \subseteq Earlier'
           /\ \A m \in Msg : cancel[m] # "none" => cancel'[m] # "none"
<1>1. \A m \in Msg : cancel[m] # "none" => cancel'[m] # "none"
  <2>1. ASSUME NEW m \in Msg, SendStep(m) \/ EnqueueWrite(m) \/ EnqueueSend(m)
        PROVE  cancel' = cancel
    BY <2>1, SendFacts, WriteMoves, SendMoves, ZenonT(60)
  <2>2. ASSUME NEW m \in Msg, CancelDelete(m) \/ CancelNotify(m), NEW n \in Msg, cancel[n] # "none"
        PROVE  cancel'[n] # "none"
    BY <2>2, Types DEF CancelDelete, CancelNotify
  <2>3. ASSUME HandleCancelSteer, NEW n \in Msg, cancel[n] # "none"
        PROVE  cancel'[n] # "none"
    BY <2>3, Types DEF HandleCancelSteer
  <2>4. ASSUME HandleSteer \/ PersistEntry \/ FinishDrain \/ TurnStep
        PROVE  cancel' = cancel
    BY <2>4, SteerMoves, PersistMoves, FinishMoves, TurnMoves, ZenonT(60)
  <2>5. ASSUME Restart, NEW n \in Msg, cancel[n] # "none"
        PROVE  cancel'[n] # "none"
    BY <2>5, Types DEF Restart
  <2> QED
    BY <2>1, <2>2, <2>3, <2>4, <2>5, NextCases, ZenonT(60)
<1>2. DOMAIN order \subseteq DOMAIN order' /\ \A i \in DOMAIN order : order'[i] = order[i]
  <2>1. ASSUME NEW m \in Msg, EnqueueWrite(m)
        PROVE  DOMAIN order \subseteq DOMAIN order' /\ \A i \in DOMAIN order : order'[i] = order[i]
    BY <2>1, Types, AppendFacts, RangeFacts DEF EnqueueWrite
  <2>2. ASSUME \A m \in Msg : ~EnqueueWrite(m)
        PROVE  order' = order
    BY <2>2, NextCases, SendFacts, SendMoves, DeleteMoves, NotifyMoves, SteerMoves, CancelMoves,
       PersistMoves, FinishMoves, TurnMoves, RestartMoves, ZenonT(60)
  <2> QED
    BY <2>1, <2>2, ZenonT(60)
<1>3. ASSUME NEW p \in Earlier
      PROVE  p \in Earlier'
  <2>1. p \in Msg \X Msg /\ p[1] \in Msg /\ p[2] \in Msg
    BY DEF Earlier
  <2>2. \/ p[1] = p[2] \/ cancel[p[1]] # "none" \/ cancel[p[2]] # "none"
        \/ \E k, l \in DOMAIN order : k < l /\ order[k] = p[1] /\ order[l] = p[2]
    BY DEF Earlier, Cancelled
  <2>3. \/ p[1] = p[2] \/ cancel'[p[1]] # "none" \/ cancel'[p[2]] # "none"
        \/ \E k, l \in DOMAIN order' : k < l /\ order'[k] = p[1] /\ order'[l] = p[2]
    BY <1>1, <1>2, <2>1, <2>2, ZenonT(60)
  <2> QED
    BY <2>1, <2>3 DEF Earlier, Cancelled
<1> QED
  BY <1>1, <1>3

\* The channel stays in order: what is sent last is latest, what is taken in first
\* is earliest.
LEMMA ChannelFacts ==
    ASSUME TypeOK, NEW R, EventsSorted(R, inbox)
    PROVE  /\ \A S : R \subseteq S => EventsSorted(S, inbox)
           /\ \A m \in Msg : Steers \X {m} \subseteq R =>
                 EventsSorted(R, Append(inbox, [type |-> "steer", msg |-> m]))
           /\ \A m \in Msg : EventsSorted(R, Append(inbox, [type |-> "cancel", msg |-> m]))
           /\ inbox # <<>> => EventsSorted(R, Tail(inbox))
<1>1. ASSUME NEW S, R \subseteq S
      PROVE  EventsSorted(S, inbox)
  BY <1>1, ZenonT(60) DEF EventsSorted
<1>2. ASSUME NEW m \in Msg, NEW t \in {"steer", "cancel"}, t = "steer" => Steers \X {m} \subseteq R
      PROVE  EventsSorted(R, Append(inbox, [type |-> t, msg |-> m]))
  <2> DEFINE e == [type |-> t, msg |-> m]
             a == Append(inbox, e)
  <2>1. e \in Event /\ e.type = t /\ e.msg = m
    BY DEF Event
  <2> HIDE DEF e
  <2>2. /\ DOMAIN a = 1 .. Len(inbox) + 1 /\ Len(inbox) \in Nat /\ DOMAIN inbox = 1 .. Len(inbox)
        /\ \A i \in DOMAIN inbox : a[i] = inbox[i]
        /\ a[Len(inbox) + 1] = e
    BY <2>1, Types, AppendFacts, RangeFacts
  <2> HIDE DEF a
  <2>3. ASSUME NEW i \in DOMAIN a, NEW j \in DOMAIN a, i < j, a[i].type = "steer", a[j].type = "steer"
        PROVE  <<a[i].msg, a[j].msg>> \in R
    <3>1. i \in DOMAIN inbox /\ (j \in DOMAIN inbox \/ j = Len(inbox) + 1)
      BY <2>2, <2>3
    <3>2. a[i] = inbox[i] /\ a[i] \in Range(inbox)
      BY <2>2, <3>1 DEF Range
    <3>3. a[i].msg \in Steers
      BY <2>3, <3>2, Events, ZenonT(60)
    <3>4. CASE j \in DOMAIN inbox
      BY <2>2, <2>3, <3>1, <3>4, ZenonT(60) DEF EventsSorted
    <3>5. CASE j = Len(inbox) + 1
      BY <1>2, <2>1, <2>2, <2>3, <3>3, <3>5
    <3> QED
      BY <3>1, <3>4, <3>5
  <2> QED
    BY <2>3 DEF EventsSorted, a, e
<1>3. ASSUME inbox # <<>>
      PROVE  EventsSorted(R, Tail(inbox))
  <2> DEFINE t == Tail(inbox)
  <2>1. /\ DOMAIN t = 1 .. Len(inbox) - 1 /\ Len(inbox) \in Nat
        /\ \A i \in DOMAIN t : i + 1 \in DOMAIN inbox /\ t[i] = inbox[i + 1]
    BY <1>3, Types, TailFacts
  <2> HIDE DEF t
  <2>2. \A i, j \in DOMAIN t : i < j => i + 1 < j + 1
    BY <2>1
  <2>3. EventsSorted(R, t)
    BY <2>1, <2>2, ZenonT(60) DEF EventsSorted
  <2> QED
    BY <2>3 DEF t
<1>4. \A m \in Msg : EventsSorted(R, Append(inbox, [type |-> "cancel", msg |-> m]))
  BY ZenonT(60), <1>2
<1>5. \A m \in Msg : Steers \X {m} \subseteq R =>
         EventsSorted(R, Append(inbox, [type |-> "steer", msg |-> m]))
  BY ZenonT(60), <1>2
<1> QED
  BY <1>1, <1>3, <1>4, <1>5

\* The message taken in is earlier than those that wait behind it, or is itself
\* among them.
LEMMA TakenIsFirst ==
    ASSUME TypeOK, NEW R, EventsSorted(R, inbox), HandleSteer
    PROVE  {Head(inbox).msg} \X Steers' \subseteq R
<1> SUFFICES ASSUME NEW b \in Steers'
             PROVE  <<Head(inbox).msg, b>> \in R
  OBVIOUS
<1>1. PICK i \in DOMAIN inbox' : inbox'[i] = [type |-> "steer", msg |-> b]
  BY ZenonT(60) DEF Steers, Range
<1>2. /\ i + 1 \in DOMAIN inbox /\ inbox[i + 1] = inbox'[i] /\ 1 < i + 1
      /\ 1 \in DOMAIN inbox /\ inbox[1] = Head(inbox) /\ Head(inbox).type = "steer"
  BY <1>1, EventTaken, ZenonT(60) DEF HandleSteer
<1>3. inbox'[i].type = "steer" /\ inbox'[i].msg = b
  BY <1>1
<1> QED
  BY <1>2, <1>3, ZenonT(60) DEF EventsSorted

\* The queue is in order after the executor has taken in a message.
LEMMA QueueSorted ==
    ASSUME TypeOK, PipelineSorted, HandleSteer
    PROVE  Sorted(Earlier, mem')
<1>1. mem' = Append(mem, Head(inbox).msg) /\ mem \in Seq(Msg) /\ Head(inbox).msg \in Msg
  BY Types, EventTaken, ZenonT(60) DEF HandleSteer
<1>2. Range(mem) \X {Head(inbox).msg} \subseteq Earlier
  BY SteerMoves DEF PipelineSorted
<1> QED
  BY <1>1, <1>2, SortedFacts, ZenonT(60) DEF PipelineSorted

\* Every step: what is under way stays in the order of admission.
LEMMA PipelineSortedStep ==
    ASSUME TypeOK, Editable, FifoInv, Next
    PROVE  PipelineSorted'
<1> DEFINE R == Earlier
           S == Earlier'
<1>0. /\ Sorted(R, transcript) /\ Sorted(R, todo) /\ Sorted(R, mem) /\ Sorted(R, db)
      /\ EventsSorted(R, inbox)
      /\ Range(todo) \X (Range(mem) \union Steers) \subseteq R
      /\ Range(mem) \X Steers \subseteq R
      /\ Range(transcript) \X (Underway \ Range(transcript)) \subseteq R
  BY ZenonT(60) DEF FifoInv, PipelineSorted, TableSorted
<1>1. R \subseteq S
  BY EarlierGrows
<1>2. /\ mem \in Seq(Msg) /\ todo \in Seq(Msg) /\ transcript \in Seq(Msg) /\ db \in Seq(Msg)
  BY Types
<1>3. /\ Sorted(S, transcript) /\ Sorted(S, todo) /\ Sorted(S, mem) /\ Sorted(S, db)
      /\ EventsSorted(S, inbox)
  BY <1>0, <1>1, <1>2, SortedFacts, ChannelFacts, ZenonT(60)
<1> HIDE DEF R, S
<1>4. /\ Range(todo) \X (Range(mem) \union Steers) \subseteq S
      /\ Range(mem) \X Steers \subseteq S
      /\ Range(transcript) \X (Underway \ Range(transcript)) \subseteq S
  BY <1>0, <1>1, ZenonT(60)
<1> DEFINE Ordered ==
               /\ Sorted(S, transcript') /\ Sorted(S, todo') /\ Sorted(S, mem')
               /\ EventsSorted(S, inbox')
               /\ Range(todo') \X (Range(mem') \union Steers') \subseteq S
               /\ Range(mem') \X Steers' \subseteq S
               /\ Range(transcript') \X (Underway' \ Range(transcript')) \subseteq S
<1>5. SUFFICES Ordered
  BY ZenonT(60) DEF PipelineSorted, S
<1>6. ASSUME UNCHANGED <<transcript, todo, mem, inbox>>
      PROVE  Ordered
  BY <1>3, <1>4, <1>6, SameUnderway, ZenonT(60)
<1>7. ASSUME NEW m \in Msg, SendStep(m) \/ EnqueueWrite(m) \/ CancelDelete(m)
      PROVE  Ordered
  <2>1. UNCHANGED <<transcript, todo, mem, inbox>>
    BY <1>7, SendFacts, WriteMoves, DeleteMoves, ZenonT(60)
  <2> QED
    BY <1>6, <2>1
<1>8. ASSUME NEW m \in Msg, EnqueueSend(m)
      PROVE  Ordered
  <2>1. /\ Steers' = Steers \union {m} /\ Underway' = Underway \union {m}
        /\ transcript' = transcript /\ todo' = todo /\ mem' = mem
    BY <1>8, SendMoves, ZenonT(60)
  <2>2. inbox' = Append(inbox, [type |-> "steer", msg |-> m]) /\ send[m] = "written"
    BY <1>8, ZenonT(60) DEF EnqueueSend
  <2>3. Range(order) \X {m} \subseteq S
    BY <1>1, <2>2, EarlierFacts, ZenonT(60) DEF FifoInv, R
  <2>4. /\ Range(transcript) \subseteq Range(order) /\ Range(todo) \subseteq Range(order)
        /\ Range(mem) \subseteq Range(order) /\ Steers \subseteq Range(order)
    BY ZenonT(60) DEF FifoInv, Admitted, Present, Underway
  <2>5. EventsSorted(S, inbox')
    BY <1>3, <2>2, <2>3, <2>4, ChannelFacts, ZenonT(60)
  <2> QED
    BY <1>3, <1>4, <2>1, <2>3, <2>4, <2>5, ZenonT(60)
<1>9. ASSUME NEW m \in Msg, CancelNotify(m)
      PROVE  Ordered
  <2>1. /\ Steers' = Steers /\ Underway' = Underway
        /\ transcript' = transcript /\ todo' = todo /\ mem' = mem
    BY <1>9, NotifyMoves, ZenonT(60)
  <2>2. inbox' = Append(inbox, [type |-> "cancel", msg |-> m])
    BY <1>9, ZenonT(60) DEF CancelNotify
  <2>3. EventsSorted(S, inbox')
    BY <1>3, <2>2, ChannelFacts, ZenonT(60)
  <2> QED
    BY <1>3, <1>4, <2>1, <2>3, ZenonT(60)
<1>10. CASE HandleSteer
  <2> DEFINE x == Head(inbox).msg
  <2>1. /\ Range(mem') = Range(mem) \union {x} /\ Steers = Steers' \union {x}
        /\ Underway' = Underway /\ transcript' = transcript /\ todo' = todo /\ Range(todo') = {}
    BY <1>10, SteerMoves, ZenonT(60)
  <2>2. inbox # <<>> /\ inbox' = Tail(inbox)
    BY <1>10, ZenonT(60) DEF HandleSteer
  <2>3. EventsSorted(S, inbox')
    BY <1>3, <2>2, ChannelFacts, ZenonT(60)
  <2>4. {x} \X Steers' \subseteq S
    BY <1>3, <1>10, TakenIsFirst
  <2>5. Sorted(S, mem')
    <3>1. Sorted(R, mem') /\ mem' \in Seq(Msg)
      BY <1>10, QueueSorted, TypeOKStep, Types, ZenonT(60) DEF FifoInv, R, TypeOK
    <3> QED
      BY <1>1, <3>1, ZenonT(60) DEF Sorted
  <2> HIDE DEF x
  <2> QED
    BY <1>3, <1>4, <2>1, <2>3, <2>4, <2>5, ZenonT(60)
<1>11. CASE HandleCancelSteer
  <2>1. /\ Range(mem') \subseteq Range(mem) /\ Steers' = Steers /\ Underway' \subseteq Underway
        /\ transcript' = transcript /\ todo' = todo
    BY <1>11, CancelMoves, ZenonT(60)
  <2>2. inbox # <<>> /\ inbox' = Tail(inbox) /\ mem' = Without(mem, {Head(inbox).msg})
    BY <1>11, ZenonT(60) DEF HandleCancelSteer
  <2>3. EventsSorted(S, inbox')
    BY <1>3, <2>2, ChannelFacts, ZenonT(60)
  <2>4. Sorted(S, mem')
    BY <1>2, <1>3, <2>2, SortedFacts, ZenonT(60) DEF Editable
  <2> QED
    BY <1>3, <1>4, <2>1, <2>3, <2>4, ZenonT(60)
<1>12. CASE PersistEntry
  <2> DEFINE h == Head(todo)
  <2>1. /\ Range(transcript') = Range(transcript) \union {h} /\ Steers' = Steers
        /\ Range(todo) = Range(todo') \union {h} /\ Underway = Underway' \union {h}
        /\ mem' = mem /\ inbox' = inbox
    BY <1>12, PersistMoves, ZenonT(60)
  <2>2. todo # <<>> /\ todo' = Tail(todo)
    BY <1>12, ZenonT(60) DEF PersistEntry
  <2>3. Sorted(S, todo') /\ {h} \X Range(todo') \subseteq S
    BY <1>2, <1>3, <2>2, SortedFacts, ZenonT(60)
  <2>4. h \in Msg
    BY <1>2, <2>2, TailFacts, ZenonT(60)
  <2>5. CASE h \in Range(transcript)
    <3>1. transcript' = transcript
      BY <1>12, <2>5, ZenonT(60) DEF PersistEntry
    <3> HIDE DEF h
    <3> QED
      BY <1>3, <1>4, <2>1, <2>3, <3>1, ZenonT(60)
  <2>6. CASE h \notin Range(transcript)
    <3>1. transcript' = Append(transcript, h)
      BY <1>12, <2>6, ZenonT(60) DEF PersistEntry
    <3> HIDE DEF h
    <3>2. Range(transcript) \X {h} \subseteq S
      BY <1>4, <2>1, <2>6, ZenonT(60)
    <3>3. Sorted(S, transcript')
      BY <1>2, <1>3, <2>4, <3>1, <3>2, SortedFacts, ZenonT(60)
    <3>4. Underway' = Range(todo') \union Range(mem) \union Steers
      BY <2>1, ZenonT(60) DEF Underway
    <3>5. {h} \X Underway' \subseteq S
      BY <1>4, <2>1, <2>3, <3>4, ZenonT(60)
    <3>6. Range(transcript') \X (Underway' \ Range(transcript')) \subseteq S
      BY <1>4, <2>1, <3>5, ZenonT(60)
    <3> QED
      BY <1>3, <1>4, <2>1, <2>3, <3>3, <3>6, ZenonT(60)
  <2> QED
    BY <2>5, <2>6, ZenonT(60)
<1>13. CASE FinishDrain
  <2>1. UNCHANGED <<transcript, todo, mem, inbox>>
    BY <1>13, FinishMoves, ZenonT(60)
  <2> QED
    BY <1>6, <2>1
<1>14. CASE TurnStep
  <2>1. /\ Underway' = Underway /\ Steers' = Steers
        /\ UNCHANGED <<mem, todo>> \/ (todo' = mem /\ Range(mem') = {})
        /\ transcript' = transcript /\ inbox' = inbox
    BY <1>14, TurnMoves, ZenonT(60)
  <2>2. CASE UNCHANGED <<mem, todo>>
    BY <1>6, <2>1, <2>2, ZenonT(60)
  <2>3. CASE todo' = mem /\ Range(mem') = {}
    <3>1. Sorted(S, mem')
      BY <2>3, ZenonT(60) DEF Sorted, Range
    <3> QED
      BY <1>3, <1>4, <2>1, <2>3, <3>1, ZenonT(60)
  <2> QED
    BY <2>1, <2>2, <2>3, ZenonT(60)
<1>15. CASE Restart
  <2>1. /\ mem' = db /\ Range(todo') = {} /\ Steers' = {} /\ Underway' = Range(db)
        /\ inbox' = <<>> /\ transcript' = transcript
    BY <1>15, RestartMoves, ZenonT(60)
  <2>2. Sorted(S, todo') /\ EventsSorted(S, inbox')
    BY <2>1, EarlierFacts, ZenonT(60) DEF Sorted, Range
  <2>3. ASSUME NEW a \in Range(transcript), NEW b \in Range(db) \ Range(transcript)
        PROVE  <<a, b>> \in S
    <3>1. a \in Msg /\ b \in Msg /\ a \in Range(order)
      BY <2>3, PresentTypes, ZenonT(60) DEF FifoInv, Admitted, Present
    <3>2. b \in Underway \/ cancel[b] # "none" \/ send[b] = "written"
      BY <2>3, ZenonT(60) DEF FifoInv, TableSorted, Cancelled
    <3>3. CASE b \in Underway
      BY <1>4, <2>3, <3>3
    <3>4. CASE cancel[b] # "none"
      BY <1>1, <3>1, <3>4, EarlierFacts DEF R
    <3>5. CASE send[b] = "written"
      <4>1. Range(order) \X {b} \subseteq R
        BY <3>1, <3>5, EarlierFacts, ZenonT(60) DEF FifoInv, R
      <4> QED
        BY <1>1, <3>1, <4>1
    <3> QED
      BY <3>2, <3>3, <3>4, <3>5
  <2>4. Range(transcript') \X (Underway' \ Range(transcript')) \subseteq S
    BY <2>1, <2>3
  <2>5. /\ Range(todo') \X (Range(mem') \union Steers') \subseteq S
        /\ Range(mem') \X Steers' \subseteq S
    BY <2>1
  <2> QED
    BY <1>3, <2>1, <2>2, <2>4, <2>5, ZenonT(60)
<1> HIDE DEF Ordered
<1> QED
  BY <1>7, <1>8, <1>9, <1>10, <1>11, <1>12, <1>13, <1>14, <1>15, NextCases, ZenonT(60)

\* Every step: the table and its copy hold nothing that has not its place elsewhere.
LEMMA TablePlacedStep ==
    ASSUME TypeOK, Editable, TableSorted, Next, NEW x \in Range(db') \union Range(snapshot')
    PROVE  x \in Underway' \union Range(transcript') \/ cancel'[x] # "none" \/ send'[x] = "written"
<1> DEFINE Placed == \/ x \in Underway' \union Range(transcript')
                     \/ cancel'[x] # "none" \/ send'[x] = "written"
<1>0. ASSUME x \in Range(db) \union Range(snapshot)
      PROVE  /\ x \in Underway \union Range(transcript) \/ cancel[x] # "none" \/ send[x] = "written"
             /\ x \in Msg /\ (cancel[x] # "none" => cancel'[x] # "none")
  <2>1. x \in Msg
    BY <1>0, PresentTypes, ZenonT(60) DEF Present
  <2>2. cancel[x] # "none" => cancel'[x] # "none"
    BY <2>1, EarlierGrows
  <2> QED
    BY <1>0, <2>1, <2>2, ZenonT(60) DEF TableSorted, Cancelled
<1>1. ASSUME x \in Range(db) \union Range(snapshot),
             Underway \union Range(transcript) \subseteq Underway' \union Range(transcript'),
             send[x] = "written" => send'[x] = "written"
      PROVE  Placed
  BY <1>0, <1>1, ZenonT(60)
<1>2. ASSUME NEW m \in Msg, SendStep(m)
      PROVE  Placed
  <2>1. /\ x \in Range(db) \union Range(snapshot) /\ Underway' = Underway
        /\ transcript' = transcript
    BY <1>2, SendFacts, SameUnderway, ZenonT(60)
  <2>2. /\ send[m] \in {"new", "busy", "checked"} /\ \A n \in Msg \ {m} : send'[n] = send[n]
    BY <1>2, SendFacts
  <2>3. send[x] = "written" => send'[x] = "written"
    BY <1>0, <2>1, <2>2
  <2> QED
    BY <1>1, <2>1, <2>3, ZenonT(60)
<1>3. ASSUME NEW m \in Msg, EnqueueWrite(m)
      PROVE  Placed
  <2>1. /\ x = m \/ x \in Range(db) \union Range(snapshot)
        /\ Underway' = Underway /\ transcript' = transcript
    BY <1>3, WriteMoves, ZenonT(60)
  <2>2. send'[m] = "written" /\ \A n \in Msg \ {m} : send'[n] = send[n]
    BY <1>3, Types DEF EnqueueWrite
  <2>3. x = m \/ (send[x] = "written" => send'[x] = "written")
    BY <1>0, <2>1, <2>2
  <2> QED
    BY <1>1, <2>1, <2>2, <2>3, ZenonT(60)
<1>4. ASSUME NEW m \in Msg, EnqueueSend(m)
      PROVE  Placed
  <2>1. /\ x \in Range(db) \union Range(snapshot) /\ Underway' = Underway \union {m}
        /\ transcript' = transcript
    BY <1>4, SendMoves, ZenonT(60)
  <2>2. \A n \in Msg \ {m} : send'[n] = send[n]
    BY <1>4, Types DEF EnqueueSend
  <2>3. x = m \/ (send[x] = "written" => send'[x] = "written")
    BY <1>0, <2>1, <2>2
  <2> QED
    BY <1>1, <2>1, <2>3, ZenonT(60)
<1>5. ASSUME NEW m \in Msg, CancelDelete(m) \/ CancelNotify(m)
      PROVE  Placed
  <2>1. /\ x \in Range(db) \union Range(snapshot) /\ Underway' = Underway
        /\ transcript' = transcript /\ send' = send
    BY <1>5, DeleteMoves, NotifyMoves, ZenonT(60)
  <2> QED
    BY <1>1, <2>1, ZenonT(60)
<1>6. CASE HandleSteer
  <2>1. /\ x \in Underway' \/ x \in Range(snapshot)
        /\ Underway' = Underway /\ transcript' = transcript /\ send' = send
    BY <1>6, SteerMoves, ZenonT(60) DEF Underway
  <2> QED
    BY <1>1, <2>1, ZenonT(60)
<1>7. CASE HandleCancelSteer
  <2> DEFINE y == Head(inbox).msg
  <2>1. /\ x \in Range(db) \union Range(snapshot) /\ Underway \subseteq Underway' \union {y}
        /\ y \in Msg /\ transcript' = transcript /\ send' = send
    BY <1>7, CancelMoves, ZenonT(60)
  <2>2. cancel' = [cancel EXCEPT ![y] = "handled"]
    BY <1>7, ZenonT(60) DEF HandleCancelSteer
  <2> HIDE DEF y
  <2>3. cancel'[y] # "none"
    BY <2>1, <2>2, Types
  <2> QED
    BY <1>0, <2>1, <2>3, ZenonT(60)
<1>8. CASE PersistEntry
  <2>1. /\ x \in Range(db) \union Range(snapshot) /\ send' = send
        /\ Underway \union Range(transcript) \subseteq Underway' \union Range(transcript')
    BY <1>8, PersistMoves, ZenonT(60)
  <2> QED
    BY <1>1, <2>1, ZenonT(60)
<1>9. CASE FinishDrain \/ TurnStep
  <2>1. /\ x \in Range(db) \union Range(snapshot) /\ Underway' = Underway
        /\ transcript' = transcript /\ send' = send
    BY <1>9, FinishMoves, TurnMoves, ZenonT(60)
  <2> QED
    BY <1>1, <2>1, ZenonT(60)
<1>10. CASE Restart
  BY <1>10, RestartMoves, ZenonT(60)
<1> HIDE DEF Placed
<1>11. Placed
  BY <1>2, <1>3, <1>4, <1>5, <1>6, <1>7, <1>8, <1>9, <1>10, NextCases, ZenonT(60) DEF Placed
<1> QED
  BY <1>11, ZenonT(60) DEF Placed

\* Every step: the table and its copy stay in the order of admission.
LEMMA TableSortedStep ==
    ASSUME TypeOK, Editable, FifoInv, Next
    PROVE  TableSorted'
<1>0. SUFFICES Sorted(Earlier', db') /\ Sorted(Earlier', snapshot')
  BY TablePlacedStep, ZenonT(60) DEF FifoInv, TableSorted, Cancelled
<1>1. /\ Sorted(Earlier', db) /\ Sorted(Earlier', snapshot) /\ Sorted(Earlier', <<>>)
      /\ db \in Seq(Msg) /\ snapshot \in Seq(Msg)
  BY Types, EarlierGrows, SortedFacts, EarlierFacts, ZenonT(60) DEF FifoInv, TableSorted
<1>2. ASSUME NEW m \in Msg, SendStep(m)
      PROVE  Sorted(Earlier', db') /\ Sorted(Earlier', snapshot')
  <2>1. db' = db /\ snapshot' \in {snapshot, db}
    BY <1>2, SendFacts, ZenonT(60)
  <2> QED
    BY <1>1, <2>1, ZenonT(60)
<1>3. ASSUME NEW m \in Msg, EnqueueWrite(m)
      PROVE  Sorted(Earlier', db') /\ Sorted(Earlier', snapshot')
  <2>1. db' = Append(snapshot, m) /\ snapshot' = snapshot
    BY <1>3, ZenonT(60) DEF EnqueueWrite
  <2>2. /\ DOMAIN order = 1 .. Len(order) /\ DOMAIN order' = 1 .. Len(order) + 1
        /\ Len(order) \in Nat /\ order'[Len(order) + 1] = m
        /\ \A i \in DOMAIN order : order'[i] = order[i]
    BY <1>3, Types, AppendFacts, RangeFacts DEF EnqueueWrite
  <2>3. Range(snapshot) \subseteq Range(order) /\ Range(snapshot) \subseteq Msg
    BY PresentTypes, ZenonT(60) DEF FifoInv, Admitted, Present
  <2>4. \A k \in DOMAIN order : /\ k \in DOMAIN order' /\ Len(order) + 1 \in DOMAIN order'
                                /\ k < Len(order) + 1
    BY <2>2
  <2>5. ASSUME NEW a \in Range(snapshot)
        PROVE  <<a, m>> \in Earlier'
    <3>1. PICK k \in DOMAIN order : order[k] = a
      BY <2>3, <2>5, ZenonT(60) DEF Range
    <3>2. \E i, j \in DOMAIN order' : i < j /\ order'[i] = a /\ order'[j] = m
      BY <2>2, <2>4, <3>1, ZenonT(60)
    <3> QED
      BY <2>3, <2>5, <3>2 DEF Earlier
  <2>6. Range(snapshot) \X {m} \subseteq Earlier'
    BY <2>5
  <2> QED
    BY <1>1, <2>1, <2>6, SortedFacts, ZenonT(60)
<1>4. ASSUME NEW m \in Msg, EnqueueSend(m)
      PROVE  Sorted(Earlier', db') /\ Sorted(Earlier', snapshot')
  BY <1>1, <1>4, ZenonT(60) DEF EnqueueSend
<1>5. ASSUME NEW m \in Msg, CancelDelete(m)
      PROVE  Sorted(Earlier', db') /\ Sorted(Earlier', snapshot')
  <2>1. db' = Without(db, {m}) /\ snapshot' = snapshot
    BY <1>5, ZenonT(60) DEF CancelDelete, requests
  <2> QED
    BY <1>1, <2>1, SortedFacts, ZenonT(60) DEF Editable
<1>6. ASSUME NEW m \in Msg, CancelNotify(m)
      PROVE  Sorted(Earlier', db') /\ Sorted(Earlier', snapshot')
  BY <1>1, <1>6, NotifyMoves, ZenonT(60)
<1>7. CASE HandleSteer
  <2>1. db' = mem' /\ snapshot' = snapshot
    BY <1>7, SteerMoves, ZenonT(60)
  <2>2. Sorted(Earlier, mem') /\ Earlier \subseteq Earlier'
    BY <1>7, QueueSorted, EarlierGrows, ZenonT(60) DEF FifoInv
  <2>3. Sorted(Earlier', mem')
    BY <2>2, ZenonT(60) DEF Sorted
  <2> QED
    BY <1>1, <2>1, <2>3, ZenonT(60)
<1>8. CASE FinishDrain
  <2>1. db' = Without(db, Range(batch)) /\ snapshot' = snapshot
    BY <1>8, ZenonT(60) DEF FinishDrain, requests
  <2> QED
    BY <1>1, <2>1, SortedFacts, ZenonT(60) DEF Editable
<1>9. CASE HandleCancelSteer \/ PersistEntry \/ TurnStep
  <2>1. UNCHANGED <<db, snapshot>>
    BY <1>9, CancelMoves, PersistMoves, TurnMoves, ZenonT(60)
  <2> QED
    BY <1>1, <2>1, ZenonT(60)
<1>10. CASE Restart
  <2>1. db' = db /\ snapshot' = <<>>
    BY <1>10, ZenonT(60) DEF Restart
  <2> QED
    BY <1>1, <2>1, ZenonT(60)
<1> QED
  BY <1>2, <1>3, <1>4, <1>5, <1>6, <1>7, <1>8, <1>9, <1>10, NextCases, ZenonT(60)

\* Every step: what is stored or under way was admitted, and the message that was
\* written and not yet handed over was admitted last.
LEMMA AdmittedStep ==
    ASSUME TypeOK, Editable, Admitted, Next
    PROVE  Admitted'
<1>0. Present \subseteq Range(order)
  BY DEF Admitted
<1>1. ASSUME Present' \subseteq Present, order' = order,
             \A n \in Msg : send'[n] = "written" => send[n] = "written"
      PROVE  Admitted'
  BY <1>1, ZenonT(60) DEF Admitted
<1>2. ASSUME NEW m \in Msg, SendStep(m)
      PROVE  Admitted'
  <2>1. /\ Range(snapshot') \subseteq Range(snapshot) \union Range(db) /\ order' = order
        /\ UNCHANGED <<db, transcript, todo, mem, inbox>>
        /\ \A n \in Msg \ {m} : send'[n] = send[n]
        /\ send'[m] # "written"
    BY <1>2, SendFacts, ZenonT(60)
  <2>2. Present' \subseteq Present
    BY <2>1, SameUnderway, ZenonT(60) DEF Present
  <2> QED
    BY <1>1, <2>1, <2>2, ZenonT(60)
<1>3. ASSUME NEW m \in Msg, EnqueueWrite(m)
      PROVE  Admitted'
  <2>1. Present' \subseteq Range(order')
    BY <1>0, <1>3, WriteMoves, ZenonT(60) DEF Present
  <2>2. order' # <<>> /\ order'[Len(order')] = m
    <3>1. /\ order' \in Seq(Msg) /\ Len(order') = Len(order) + 1 /\ Len(order) \in Nat
          /\ order'[Len(order) + 1] = m
      BY <1>3, Types, AppendFacts DEF EnqueueWrite
    <3> QED
      BY <3>1
  <2>3. ASSUME NEW n \in Msg, send'[n] = "written"
        PROVE  n = m
    BY <1>3, <2>3 DEF EnqueueWrite, TypeOK
  <2> QED
    BY <2>1, <2>2, <2>3, ZenonT(60) DEF Admitted
<1>4. ASSUME NEW m \in Msg, EnqueueSend(m)
      PROVE  Admitted'
  <2>1. send[m] = "written" /\ \A n \in Msg : send'[n] = "written" => send[n] = "written"
    BY <1>4, Types DEF EnqueueSend
  <2>2. m \in Range(order)
    <3>1. order # <<>> /\ order[Len(order)] = m
      BY <2>1 DEF Admitted
    <3>2. Len(order) \in DOMAIN order
      BY <3>1, Types, RangeFacts
    <3> QED
      BY <3>1, <3>2, ZenonT(60) DEF Range
  <2>3. order' = order /\ Present' \subseteq Present \union {m}
    BY <1>4, SendMoves, ZenonT(60) DEF Present
  <2> QED
    BY <2>1, <2>2, <2>3, ZenonT(60) DEF Admitted
<1>5. ASSUME NEW m \in Msg, CancelDelete(m) \/ CancelNotify(m)
      PROVE  Admitted'
  <2>1. Present' \subseteq Present /\ order' = order /\ send' = send
    BY <1>5, DeleteMoves, NotifyMoves, ZenonT(60) DEF Present
  <2> QED
    BY <1>1, <2>1, ZenonT(60)
<1>6. CASE HandleSteer
  <2>1. Present' \subseteq Present /\ order' = order /\ send' = send
    BY <1>6, SteerMoves, ZenonT(60) DEF Present, Underway
  <2> QED
    BY <1>1, <2>1, ZenonT(60)
<1>7. CASE HandleCancelSteer \/ PersistEntry
  <2>1. Present' \subseteq Present /\ order' = order /\ send' = send
    BY <1>7, CancelMoves, PersistMoves, ZenonT(60) DEF Present
  <2> QED
    BY <1>1, <2>1, ZenonT(60)
<1>8. CASE FinishDrain \/ TurnStep
  <2>1. Present' \subseteq Present /\ order' = order /\ send' = send
    BY <1>8, FinishMoves, TurnMoves, ZenonT(60) DEF Present
  <2> QED
    BY <1>1, <2>1, ZenonT(60)
<1>9. CASE Restart
  <2>1. Present' \subseteq Present /\ order' = order
    BY <1>9, RestartMoves, ZenonT(60) DEF Present
  <2>2. \A n \in Msg : send'[n] # "written"
    BY <1>9, Types DEF Restart
  <2> QED
    BY <1>1, <2>1, <2>2, ZenonT(60)
<1> QED
  BY <1>2, <1>3, <1>4, <1>5, <1>6, <1>7, <1>8, <1>9, NextCases, ZenonT(60)

-----------------------------------------------------------------------------
(* Theorems.                                                               *)

\* SteerInv is inductive.
LEMMA SteerInvHolds == Spec => []SteerInv
<1>1. Init => SteerInv
  <2> SUFFICES ASSUME Init
               PROVE  SteerInv
    OBVIOUS
  <2>1. <<>> \in Seq(Msg) /\ <<>> \in Seq(Event) /\ EndOf(<<>>, <<>>) /\ Len(<<>>) = 0
    BY DEF EndOf
  <2>2. Range(<<>>) = {} /\ DOMAIN <<>> = {}
    BY DEF Range
  <2>3. TypeOK
    BY <2>1, MsgAssumption, BoundAssumption DEF Init, TypeOK, Phase, SendState, CancelState
  <2>4. Present = {} /\ Underway = {}
    BY <2>2, ZenonT(60) DEF Init, Present, Underway, Steers
  <2>5. SentFirst /\ HandledIsGone /\ AskedLast
    BY <2>4, ZenonT(60) DEF Init, SentFirst, HandledIsGone, AskedLast
  <2>6. CancelsFollow
    BY <2>2, ZenonT(60) DEF Init, CancelsFollow, Cancelled
  <2>7. \A m \in Msg : send[m] # "accepted"
    BY DEF Init
  <2>8. NothingLost /\ NoDoubleInsertion
    BY <2>2, <2>7, ZenonT(60) DEF Init, NothingLost, NoDoubleInsertion, IsInjective
  <2>9. Editable
    BY EmptyDeletable, ZenonT(60) DEF Init, Editable
  <2> QED
    BY <2>3, <2>5, <2>6, <2>8, <2>9 DEF SteerInv
<1>2. SteerInv /\ [Next]_vars => SteerInv'
  <2> SUFFICES ASSUME SteerInv, [Next]_vars
               PROVE  SteerInv'
    OBVIOUS
  <2>1. CASE Next
    BY <2>1, TypeOKStep, EditableStep, SentFirstStep, CancelsFollowStep, HandledIsGoneStep, AskedLastStep,
       NothingLostStep, NoDoubleInsertionStep, ZenonT(60) DEF SteerInv
  <2>2. CASE UNCHANGED vars
    BY <2>2, ZenonT(60) DEF vars, SteerInv, TypeOK, Editable, SentFirst, CancelsFollow, Cancelled,
       HandledIsGone, AskedLast, NothingLost, NoDoubleInsertion, Present, Underway, Steers
  <2> QED
    BY <2>1, <2>2
<1> QED
  BY <1>1, <1>2, PTL DEF Spec

\* FifoInv is inductive, given the types.
LEMMA FifoInvHolds == Spec => []FifoInv
<1>1. Init => FifoInv
  <2> SUFFICES ASSUME Init
               PROVE  FifoInv
    OBVIOUS
  <2>1. Range(<<>>) = {} /\ DOMAIN <<>> = {}
    BY DEF Range
  <2>2. Present = {} /\ Underway = {} /\ Steers = {}
    BY <2>1, ZenonT(60) DEF Init, Present, Underway, Steers
  <2>3. \A m \in Msg : send[m] # "written"
    BY DEF Init
  <2>4. /\ transcript = <<>> /\ todo = <<>> /\ mem = <<>> /\ inbox = <<>>
        /\ db = <<>> /\ snapshot = <<>>
    BY DEF Init
  <2>5. \A R : Sorted(R, <<>>) /\ EventsSorted(R, <<>>)
    BY <2>1, ZenonT(60) DEF Sorted, EventsSorted
  <2>6. \A A, R : {} \X A \subseteq R
    OBVIOUS
  <2> QED
    BY <2>1, <2>2, <2>3, <2>4, <2>5, <2>6, ZenonT(60)
       DEF FifoInv, PipelineSorted, TableSorted, Admitted
<1>2. SteerInv /\ FifoInv /\ [Next]_vars => FifoInv'
  <2> SUFFICES ASSUME SteerInv, FifoInv, [Next]_vars
               PROVE  FifoInv'
    OBVIOUS
  <2>1. CASE Next
    BY <2>1, PipelineSortedStep, TableSortedStep, AdmittedStep, ZenonT(60) DEF FifoInv, SteerInv
  <2>2. CASE UNCHANGED vars
    <3>1. /\ Earlier' = Earlier /\ Underway' = Underway /\ Steers' = Steers /\ Present' = Present
      BY <2>2, ZenonT(60) DEF vars, Earlier, Cancelled, Underway, Steers, Present
    <3> QED
      BY <2>2, <3>1, ZenonT(60) DEF vars, FifoInv, PipelineSorted, TableSorted, Admitted, Cancelled
  <2> QED
    BY <2>1, <2>2
<1> QED
  BY <1>1, <1>2, SteerInvHolds, PTL DEF Spec

\* The acceptance lock has one holder, and a drain persists what it took and
\* nothing else (steering_acceptance_receipts, run_effects_with_inline_drain).
THEOREM SteeringTypes == Spec => []TypeOK
<1>1. SteerInv => TypeOK
  BY DEF SteerInv
<1> QED
  BY <1>1, SteerInvHolds, PTL

\* No interleaving of senders, cancellers and drains loses an accepted message
\* while the process lives, for every number of messages and every queue depth.
THEOREM AcceptedIsUnderWay == Spec => []NothingLost
<1>1. SteerInv => NothingLost
  BY DEF SteerInv
<1> QED
  BY <1>1, SteerInvHolds, PTL

\* Across any number of crashes, however a drain is cut off and repeated, no
\* message is in the transcript twice (PersistMessage).
THEOREM InsertedOnce == Spec => []NoDoubleInsertion
<1>1. SteerInv => NoDoubleInsertion
  BY DEF SteerInv
<1> QED
  BY <1>1, SteerInvHolds, PTL

\* Once the executor has taken in a cancellation, the message does not enter the
\* transcript any more (process_event, CancelSteer).
THEOREM CancelledStaysOut == Spec => CancelEffective
<1>1. ASSUME SteerInv, [Next]_vars
      PROVE  [\A m \in Msg : crashes = 0 /\ cancel[m] = "handled" /\ m \in Range(transcript')
                               => m \in Range(transcript)]_vars
  <2>1. CASE PersistEntry
    <3>1. Range(transcript') = Range(transcript) \union {Head(todo)} /\ Head(todo) \in Underway
      BY <1>1, <2>1, PersistMoves, ZenonT(60) DEF SteerInv
    <3>2. crashes = 0 => cancel[Head(todo)] # "handled"
      BY <1>1, <3>1 DEF SteerInv, HandledIsGone
    <3> QED
      BY <3>1, <3>2, ZenonT(60)
  <2>2. CASE Next /\ ~PersistEntry
    BY <1>1, <2>2, TranscriptKept, ZenonT(60) DEF SteerInv
  <2> QED
    BY <1>1, <2>1, <2>2, ZenonT(60)
<1> QED
  BY <1>1, SteerInvHolds, PTL DEF Spec, CancelEffective

\* An LLM answer that ends a turn answers a request that saw every steered message
\* of the transcript, across crashes (maybe_drain_steering_queue).
THEOREM AnsweredInFull == Spec => NothingUnanswered
<1>1. ASSUME SteerInv
      PROVE  LlmText => asked = Len(transcript)
  BY <1>1, ZenonT(60) DEF LlmText, SteerInv, AskedLast
<1> QED
  BY <1>1, SteerInvHolds, PTL DEF Spec, NothingUnanswered

\* Messages that nobody cancels enter the transcript in the order in which they
\* were admitted, although three parties rewrite the table without a common lock
\* and a crash reloads the queue from it.
THEOREM DeliveredInOrder == Spec => []FifoDelivery
<1>1. ASSUME SteerInv, FifoInv
      PROVE  FifoDelivery
  <2> SUFFICES ASSUME NEW i \in DOMAIN transcript, NEW j \in DOMAIN transcript, i < j,
                      ~Cancelled(transcript[i]), ~Cancelled(transcript[j])
               PROVE  \E k, l \in DOMAIN order :
                          k < l /\ order[k] = transcript[i] /\ order[l] = transcript[j]
    BY ZenonT(60) DEF FifoDelivery
  <2>1. DOMAIN transcript \subseteq Nat
    BY <1>1, Types DEF SteerInv
  <2>2. transcript[i] # transcript[j]
    BY <1>1, <2>1 DEF SteerInv, NoDoubleInsertion, IsInjective
  <2>3. <<transcript[i], transcript[j]>> \in Earlier
    BY <1>1, ZenonT(60) DEF FifoInv, PipelineSorted, Sorted
  <2> QED
    BY <2>2, <2>3 DEF Earlier
<1> QED
  BY <1>1, SteerInvHolds, FifoInvHolds, PTL

=============================================================================
