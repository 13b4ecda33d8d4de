---------------------------- MODULE QueueLemmas ----------------------------
(***************************************************************************)
(* What the proofs need of data: message queues as sequences, what taking  *)
(* the head and appending leave, how many messages of a kind wait, which   *)
(* comes first or last, the least of a set of numbers, and an order of its *)
(* elements.                                                               *)
(***************************************************************************)
EXTENDS Integers, Sequences, FiniteSetTheorems, WellFoundedInduction, TLAPS

\* Taking the first message of a queue, as MsgTask does, leaves the others in
\* their order.
LEMMA TakeHead ==
  ASSUME NEW T, NEW q \in Seq(T), q # <<>>
  PROVE  /\ Head(q) \in T /\ Head(q) = q[1]
         /\ Len(q) \in Nat /\ Len(q) >= 1
         /\ Tail(q) \in Seq(T) /\ Len(Tail(q)) = Len(q) - 1
         /\ \A i \in 1 .. Len(Tail(q)) : Tail(q)[i] = q[i + 1]
  OBVIOUS

\* Posting a message puts it behind all the others.
LEMMA PostMessage ==
  ASSUME NEW T, NEW q \in Seq(T), NEW m \in T
  PROVE  /\ Append(q, m) \in Seq(T)
         /\ Len(q) \in Nat /\ Len(Append(q, m)) = Len(q) + 1
         /\ Append(q, m)[Len(q) + 1] = m
         /\ \A i \in 1 .. Len(q) : Append(q, m)[i] = q[i]
  OBVIOUS

\* Every message of a queue is one of its type.
LEMMA MessageType ==
  ASSUME NEW T, NEW q \in Seq(T), NEW i \in 1 .. Len(q)
  PROVE  q[i] \in T
  OBVIOUS

\* Leaving out the i-th message, as RemoveAt does, keeps the others in their order.
LEMMA LeavesOut ==
  ASSUME NEW S, NEW q \in Seq(S), NEW i \in 1 .. Len(q)
  PROVE  LET r == SubSeq(q, 1, i - 1) \o SubSeq(q, i + 1, Len(q))
         IN  /\ r \in Seq(S) /\ Len(q) \in Nat /\ Len(r) = Len(q) - 1
             /\ \A j \in 1 .. Len(r) : r[j] = IF j < i THEN q[j] ELSE q[j + 1]
<1> DEFINE before == SubSeq(q, 1, i - 1)
           after == SubSeq(q, i + 1, Len(q))
<1>1. Len(q) \in Nat /\ i \in Nat /\ i >= 1 /\ i <= Len(q)
  OBVIOUS
<1>2. before \in Seq(S) /\ Len(before) = i - 1 /\ \A j \in 1 .. i - 1 : before[j] = q[j]
  BY <1>1
<1>3. /\ after \in Seq(S) /\ Len(after) = Len(q) - i
      /\ \A j \in 1 .. Len(q) - i : after[j] = q[i + j]
  BY <1>1
<1> HIDE DEF before, after
<1>4. /\ before \o after \in Seq(S) /\ Len(before \o after) = Len(q) - 1
      /\ \A j \in 1 .. Len(q) - 1 :
           (before \o after)[j] = IF j <= i - 1 THEN before[j] ELSE after[j - (i - 1)]
  <2>0. before \in Seq(S) /\ after \in Seq(S)
    BY <1>2, <1>3
  <2>1. before \o after \in Seq(S) /\ Len(before \o after) = Len(before) + Len(after)
    BY <2>0
  <2>2. \A j \in 1 .. Len(before) + Len(after) :
          (before \o after)[j] = IF j <= Len(before) THEN before[j] ELSE after[j - Len(before)]
    BY <1>2, <1>3
  <2> QED
    BY <1>1, <1>2, <1>3, <2>1, <2>2
<1>5. ASSUME NEW j \in 1 .. Len(q) - 1
      PROVE  (before \o after)[j] = IF j < i THEN q[j] ELSE q[j + 1]
  <2>1. CASE j < i
    BY <1>1, <1>2, <1>4, <2>1
  <2>2. CASE ~(j < i)
    <3>1. j - (i - 1) \in 1 .. Len(q) - i /\ i + (j - (i - 1)) = j + 1 /\ ~(j <= i - 1)
      BY <1>1, <2>2
    <3> QED
      BY <1>3, <1>4, <2>2, <3>1
  <2> QED
    BY <2>1, <2>2
<1> QED
  BY <1>1, <1>4, <1>5 DEF before, after

\* Posting several messages keeps the queue's type.
LEMMA PostMessages ==
  ASSUME NEW T, NEW q \in Seq(T), NEW r \in Seq(T)
  PROVE  q \o r \in Seq(T)
  OBVIOUS

\* A queue whose messages are all of a type is one of that type.
LEMMA TypedQueue ==
  ASSUME NEW S, NEW q \in Seq(S), NEW T, \A i \in DOMAIN q : q[i] \in T
  PROVE  q \in Seq(T)
<1>1. DOMAIN q = 1 .. Len(q) /\ Len(q) \in Nat
  OBVIOUS
<1> QED
  BY <1>1

\* So is one of a narrower type.
LEMMA WiderType ==
  ASSUME NEW S, NEW T, S \subseteq T, NEW q \in Seq(S)
  PROVE  q \in Seq(T)
<1>1. \A i \in DOMAIN q : q[i] \in T
  BY MessageType
<1> QED
  BY <1>1, TypedQueue

\* What is posted later does not change which message comes first.
LEMMA PostKeepsHead ==
  ASSUME NEW T, NEW q \in Seq(T), NEW r \in Seq(T), q # <<>>
  PROVE  q \o r # <<>> /\ Head(q \o r) = Head(q)
  OBVIOUS

\* Posting a message and then others is posting all of them.
LEMMA PostBefore ==
  ASSUME NEW T, NEW q \in Seq(T), NEW m \in T, NEW r \in Seq(T)
  PROVE  /\ <<m>> \in Seq(T) /\ <<m>> \o r \in Seq(T)
         /\ Append(q, m) = q \o <<m>>
         /\ Append(q, m) \o r = q \o (<<m>> \o r)
  OBVIOUS

\* Every set of numbers has a least one, so that the soonest time is the time of
\* a timer; it stands in for induction.
LEMMA LeastNat ==
  ASSUME NEW S \in SUBSET Nat, S # {}
  PROVE  \E x \in S : \A y \in S : x <= y
<1> DEFINE R == OpToRel(<, Nat)
<1>1. IsWellFoundedOn(R, Nat)
  BY NatLessThanWellFounded, Zenon
<1>2. \E x \in S : \A y \in S : ~(<<y, x>> \in R)
  <2> HIDE DEF R
  <2> QED
  BY <1>1, WFMin
<1>3. \A x, y \in Nat : x < y => <<x, y>> \in R
  BY DEF OpToRel
<1> HIDE DEF R
<1>4. PICK x \in S : \A y \in S : ~(<<y, x>> \in R)
  BY <1>2
<1>5. ASSUME NEW y \in S PROVE x <= y
  <2>1. x \in Nat /\ y \in Nat /\ ~(<<y, x>> \in R)
    BY <1>4
  <2>2. ~(y < x)
    BY <1>3, <2>1
  <2> QED
    BY <2>1, <2>2
<1> QED
  BY <1>5

\* Where the messages of T are in a queue
Places(q, T) == {i \in DOMAIN q : q[i] \in T}

\* Their number is one.
LEMMA PlacesNumber ==
  ASSUME NEW S, NEW q \in Seq(S), NEW T
  PROVE  IsFiniteSet(Places(q, T)) /\ Cardinality(Places(q, T)) \in Nat
<1>1. DOMAIN q = 1 .. Len(q) /\ Len(q) \in Nat
  OBVIOUS
<1>2. IsFiniteSet(1 .. Len(q)) /\ Places(q, T) \subseteq 1 .. Len(q)
  BY <1>1, FS_Interval DEF Places
<1> QED
  BY <1>2, FS_Subset, FS_CardinalityType

\* Posting another adds to their number.
LEMMA PlacesPosted ==
  ASSUME NEW S, NEW q \in Seq(S), NEW m \in S, NEW T
  PROVE  /\ IsFiniteSet(Places(q, T)) /\ Cardinality(Places(q, T)) \in Nat
         /\ Cardinality(Places(Append(q, m), T))
              = Cardinality(Places(q, T)) + (IF m \in T THEN 1 ELSE 0)
<1>1. /\ Append(q, m) \in Seq(S) /\ DOMAIN q = 1 .. Len(q)
      /\ Len(q) \in Nat /\ DOMAIN Append(q, m) = 1 .. Len(q) + 1
      /\ Append(q, m)[Len(q) + 1] = m
      /\ \A i \in 1 .. Len(q) : Append(q, m)[i] = q[i]
  OBVIOUS
<1>3. IsFiniteSet(Places(q, T)) /\ Cardinality(Places(q, T)) \in Nat
  BY PlacesNumber
<1>4. CASE m \in T
  <2>1. Places(Append(q, m), T) = Places(q, T) \cup {Len(q) + 1}
    BY <1>1, <1>4 DEF Places
  <2>2. Len(q) + 1 \notin Places(q, T)
    BY <1>1 DEF Places
  <2> QED
    BY <1>3, <1>4, <2>1, <2>2, FS_AddElement
<1>5. CASE m \notin T
  <2>1. Places(Append(q, m), T) = Places(q, T)
    BY <1>1, <1>5 DEF Places
  <2> QED
    BY <1>3, <1>5, <2>1
<1> QED
  BY <1>3, <1>4, <1>5

\* Taking the first one takes it from their number.
LEMMA PlacesTaken ==
  ASSUME NEW S, NEW q \in Seq(S), q # <<>>, NEW T
  PROVE  Cardinality(Places(q, T))
           = Cardinality(Places(Tail(q), T)) + (IF Head(q) \in T THEN 1 ELSE 0)
<1>1. /\ Len(q) \in Nat /\ Len(q) >= 1 /\ DOMAIN q = 1 .. Len(q) /\ Head(q) = q[1]
      /\ Tail(q) \in Seq(S) /\ DOMAIN Tail(q) = 1 .. Len(q) - 1
      /\ \A i \in 1 .. Len(q) - 1 : Tail(q)[i] = q[i + 1]
  OBVIOUS
<1> DEFINE old == Places(q, T) \ {1}
           new == Places(Tail(q), T)
           f == [i \in new |-> i + 1]
<1>2. /\ IsFiniteSet(Places(q, T)) /\ Cardinality(Places(q, T)) \in Nat
      /\ IsFiniteSet(new) /\ Cardinality(new) \in Nat
  BY <1>1, PlacesNumber
<1>3. Cardinality(old) = Cardinality(Places(q, T)) - (IF Head(q) \in T THEN 1 ELSE 0)
  <2>1. 1 \in Places(q, T) <=> Head(q) \in T
    BY <1>1 DEF Places
  <2>2. Cardinality(old) = IF 1 \in Places(q, T) THEN Cardinality(Places(q, T)) - 1
                           ELSE Cardinality(Places(q, T))
    BY <1>2, FS_RemoveElement
  <2> HIDE DEF old, new, f
  <2> QED  BY <1>2, <2>1, <2>2
<1>4. f \in [new -> old]
  BY <1>1 DEF Places
<1>5. \A a, b \in new : f[a] = f[b] => a = b
  BY <1>1 DEF Places
<1>6. ASSUME NEW k \in old PROVE \E j \in new : f[j] = k
  <2>1. k \in 1 .. Len(q) /\ k # 1 /\ q[k] \in T
    BY <1>1 DEF Places
  <2>2. k - 1 \in 1 .. Len(q) - 1 /\ (k - 1) + 1 = k
    BY <1>1, <2>1
  <2>3. k - 1 \in new
    BY <1>1, <2>1, <2>2 DEF Places
  <2> QED  BY <2>2, <2>3
<1>7. f \in Bijection(new, old)
  BY <1>4, <1>5, <1>6 DEF Bijection, Injection, Surjection, IsInjective
<1>8. ExistsBijection(new, old)
  BY <1>7 DEF ExistsBijection
<1> HIDE DEF old, new, f
<1>9. Cardinality(old) = Cardinality(new)
  BY <1>2, <1>8, FS_Bijection
<1> QED
  BY <1>2, <1>3, <1>9 DEF new

(***************************************************************************)
(* What the last message of a kind sets                                    *)
(***************************************************************************)

\* No message of T waits; the last one of T that waits is in P.
NoneOf(q, T) == \A i \in DOMAIN q : q[i] \notin T
LastIs(q, T, P) ==
  \E i \in DOMAIN q : /\ q[i] \in T /\ q[i] \in P
                      /\ \A j \in DOMAIN q : q[j] \in T => j <= i

\* What the receiver will hold when all of q has been handled, if a message of T
\* sets it, to true if the message is in P; now is what it holds.
Outcome(q, T, P, now) == LastIs(q, T, P) \/ (NoneOf(q, T) /\ now)

\* An empty queue sets nothing.
LEMMA EmptyOutcome ==
  ASSUME NEW T, NEW P
  PROVE  NoneOf(<<>>, T) /\ ~LastIs(<<>>, T, P)
BY DEF NoneOf, LastIs

\* The last of several posted messages counts, or what was there before.
LEMMA OutcomePosts ==
  ASSUME NEW S, NEW q \in Seq(S), NEW r \in Seq(S), NEW T, NEW P
  PROVE  /\ NoneOf(q \o r, T) <=> NoneOf(q, T) /\ NoneOf(r, T)
         /\ LastIs(q \o r, T, P)
              <=> LastIs(r, T, P) \/ (NoneOf(r, T) /\ LastIs(q, T, P))
<1> DEFINE s == q \o r
<1>1. /\ Len(q) \in Nat /\ Len(r) \in Nat
      /\ DOMAIN q = 1 .. Len(q) /\ DOMAIN r = 1 .. Len(r)
      /\ DOMAIN s = 1 .. Len(q) + Len(r)
      /\ \A i \in 1 .. Len(q) : s[i] = q[i]
      /\ \A i \in 1 .. Len(r) : s[Len(q) + i] = r[i]
  OBVIOUS
<1> HIDE DEF s
<1>2. \A i \in DOMAIN s : i \in DOMAIN q \/ \E k \in DOMAIN r : i = Len(q) + k
  <2> SUFFICES ASSUME NEW i \in DOMAIN s, i \notin DOMAIN q
               PROVE  \E k \in DOMAIN r : i = Len(q) + k
    OBVIOUS
  <2>1. i - Len(q) \in DOMAIN r /\ i = Len(q) + (i - Len(q))
    BY <1>1
  <2> QED  BY <2>1
<1>3. NoneOf(s, T) <=> NoneOf(q, T) /\ NoneOf(r, T)
  <2>1. ASSUME NoneOf(s, T) PROVE NoneOf(q, T) /\ NoneOf(r, T)
    <3>1. \A i \in DOMAIN q : i \in DOMAIN s
      BY <1>1
    <3>2. \A i \in DOMAIN r : Len(q) + i \in DOMAIN s
      BY <1>1
    <3> QED  BY <1>1, <2>1, <3>1, <3>2 DEF NoneOf
  <2>2. ASSUME NoneOf(q, T), NoneOf(r, T) PROVE NoneOf(s, T)
    BY <1>1, <1>2, <2>2 DEF NoneOf
  <2> QED  BY <2>1, <2>2
<1>4. ASSUME LastIs(s, T, P)
      PROVE  LastIs(r, T, P) \/ (NoneOf(r, T) /\ LastIs(q, T, P))
  <2>1. PICK i \in DOMAIN s : /\ s[i] \in T /\ s[i] \in P
                              /\ \A j \in DOMAIN s : s[j] \in T => j <= i
    BY <1>4 DEF LastIs
  <2>2. CASE i \in DOMAIN q
    <3>1. NoneOf(r, T)
      BY <1>1, <2>1, <2>2 DEF NoneOf
    <3>2. LastIs(q, T, P)
      BY <1>1, <2>1, <2>2 DEF LastIs
    <3> QED  BY <3>1, <3>2
  <2>3. CASE i \notin DOMAIN q
    <3>1. PICK k \in DOMAIN r : i = Len(q) + k
      BY <1>2, <2>3
    <3>2. \A j \in DOMAIN r : r[j] \in T => j <= k
      BY <1>1, <2>1, <3>1
    <3> QED  BY <1>1, <2>1, <3>1, <3>2 DEF LastIs
  <2> QED  BY <2>2, <2>3
<1>5. ASSUME LastIs(r, T, P)
      PROVE  LastIs(s, T, P)
  <2>1. PICK k \in DOMAIN r : /\ r[k] \in T /\ r[k] \in P
                              /\ \A j \in DOMAIN r : r[j] \in T => j <= k
    BY <1>5 DEF LastIs
  <2>2. Len(q) + k \in DOMAIN s /\ s[Len(q) + k] = r[k]
    BY <1>1
  <2>3. \A j \in DOMAIN s : s[j] \in T => j <= Len(q) + k
    BY <1>1, <1>2, <2>1
  <2> QED  BY <2>1, <2>2, <2>3 DEF LastIs
<1>6. ASSUME NoneOf(r, T), LastIs(q, T, P)
      PROVE  LastIs(s, T, P)
  <2>1. PICK k \in DOMAIN q : /\ q[k] \in T /\ q[k] \in P
                              /\ \A j \in DOMAIN q : q[j] \in T => j <= k
    BY <1>6 DEF LastIs
  <2>2. k \in DOMAIN s /\ s[k] = q[k]
    BY <1>1
  <2>3. \A j \in DOMAIN s : s[j] \in T => j <= k
    BY <1>1, <1>2, <1>6, <2>1 DEF NoneOf
  <2> QED  BY <2>1, <2>2, <2>3 DEF LastIs
<1> QED  BY <1>3, <1>4, <1>5, <1>6 DEF s

\* A queue of one message sets what that message sets.
LEMMA OutcomeOne ==
  ASSUME NEW m, NEW T, NEW P
  PROVE  /\ NoneOf(<<m>>, T) <=> m \notin T
         /\ LastIs(<<m>>, T, P) <=> m \in T /\ m \in P
<1>1. DOMAIN <<m>> = {1} /\ <<m>>[1] = m
  OBVIOUS
<1>2. \A i, j \in DOMAIN <<m>> : i <= j
  BY <1>1
<1> QED  BY <1>1, <1>2 DEF NoneOf, LastIs

\* Of one kind none waits after a post if none did and the message is of another.
LEMMA NonePost ==
  ASSUME NEW S, NEW q \in Seq(S), NEW m \in S, NEW T
  PROVE  NoneOf(Append(q, m), T) <=> NoneOf(q, T) /\ m \notin T
<1>1. PICK r : r = Append(q, m)
  OBVIOUS
<1>2. /\ Len(r) = Len(q) + 1 /\ r[Len(q) + 1] = m /\ \A i \in 1..Len(q) : r[i] = q[i]
      /\ DOMAIN q = 1..Len(q) /\ DOMAIN r = 1..(Len(q) + 1) /\ Len(q) \in Nat
  BY <1>1
<1>3. \A i \in DOMAIN r : i \in DOMAIN q \/ i = Len(q) + 1
  BY <1>2
<1>4. DOMAIN q \subseteq DOMAIN r /\ Len(q) + 1 \in DOMAIN r
  BY <1>2
<1>5. NoneOf(r, T) <=> NoneOf(q, T) /\ m \notin T
  BY <1>2, <1>3, <1>4 DEF NoneOf
<1> QED  BY <1>1, <1>5

\* A message posted at the end counts, or what was there before.
LEMMA OutcomePost ==
  ASSUME NEW S, NEW q \in Seq(S), NEW m \in S, NEW T, NEW P
  PROVE  /\ NoneOf(Append(q, m), T) <=> NoneOf(q, T) /\ m \notin T
         /\ LastIs(Append(q, m), T, P)
              <=> (m \in T /\ m \in P) \/ (m \notin T /\ LastIs(q, T, P))
<1>1. Append(q, m) = q \o <<m>> /\ <<m>> \in Seq(S)
  OBVIOUS
<1>2. /\ NoneOf(q \o <<m>>, T) <=> NoneOf(q, T) /\ NoneOf(<<m>>, T)
      /\ LastIs(q \o <<m>>, T, P)
           <=> LastIs(<<m>>, T, P) \/ (NoneOf(<<m>>, T) /\ LastIs(q, T, P))
  BY <1>1, OutcomePosts
<1> QED  BY <1>1, <1>2, OutcomeOne

\* The first message counts only if no later one sets the same.
LEMMA OutcomeTake ==
  ASSUME NEW S, NEW q \in Seq(S), q # <<>>, NEW T, NEW P
  PROVE  /\ NoneOf(q, T) <=> Head(q) \notin T /\ NoneOf(Tail(q), T)
         /\ LastIs(q, T, P)
              <=> LastIs(Tail(q), T, P)
                  \/ (NoneOf(Tail(q), T) /\ Head(q) \in T /\ Head(q) \in P)
<1>1. /\ <<Head(q)>> \in Seq(S) /\ Tail(q) \in Seq(S)
      /\ q = <<Head(q)>> \o Tail(q)
  OBVIOUS
<1>2. /\ NoneOf(<<Head(q)>> \o Tail(q), T) <=> NoneOf(<<Head(q)>>, T) /\ NoneOf(Tail(q), T)
      /\ LastIs(<<Head(q)>> \o Tail(q), T, P)
           <=> LastIs(Tail(q), T, P) \/ (NoneOf(Tail(q), T) /\ LastIs(<<Head(q)>>, T, P))
  BY <1>1, OutcomePosts
<1> QED  BY <1>1, <1>2, OutcomeOne

\* Of one kind none waits if the head is of another and none waits behind it.
LEMMA NoneTake ==
  ASSUME NEW S, NEW q \in Seq(S), q # <<>>, NEW T
  PROVE  NoneOf(q, T) <=> Head(q) \notin T /\ NoneOf(Tail(q), T)
<1>1. PICK P : P = {}
  OBVIOUS
<1> QED  BY <1>1, OutcomeTake

\* Two queues with the same messages are the same.
LEMMA SameQueue ==
  ASSUME NEW S, NEW s \in Seq(S), NEW t \in Seq(S),
         Len(s) = Len(t), \A i \in 1 .. Len(s) : s[i] = t[i]
  PROVE  s = t
OBVIOUS

\* Two messages posted at the end.
LEMMA PairPosts ==
  ASSUME NEW S, NEW a \in S, NEW b \in S
  PROVE  <<a, b>> = <<a>> \o <<b>> /\ <<a, b>> \in Seq(S)
<1>q. <<a>> \in Seq(S) /\ Len(<<a>>) = 1 /\ <<a>>[1] = a
  OBVIOUS
<1>1. PICK q \in Seq(S) : q = <<a>> /\ Len(q) = 1 /\ q[1] = a
  BY <1>q
<1>r. <<b>> \in Seq(S) /\ Len(<<b>>) = 1 /\ <<b>>[1] = b
  OBVIOUS
<1>2. PICK r \in Seq(S) : r = <<b>> /\ Len(r) = 1 /\ r[1] = b
  BY <1>r
<1>p. <<a, b>> \in Seq(S) /\ Len(<<a, b>>) = 2 /\ <<a, b>>[1] = a /\ <<a, b>>[2] = b
  OBVIOUS
<1>3. PICK p \in Seq(S) : p = <<a, b>> /\ Len(p) = 2 /\ p[1] = a /\ p[2] = b
  BY <1>p
<1>4. /\ q \o r \in Seq(S) /\ Len(q \o r) = Len(q) + Len(r)
      /\ Len(q) >= 1 => (q \o r)[1] = q[1]
      /\ Len(r) >= 1 => (q \o r)[Len(q) + 1] = r[1]
  OBVIOUS
<1>5. \A i \in 1 .. 2 : i = 1 \/ i = 2
  OBVIOUS
<1>6. Len(p) = Len(q \o r) /\ \A i \in 1 .. Len(p) : p[i] = (q \o r)[i]
  BY <1>1, <1>2, <1>3, <1>4, <1>5
<1> QED  BY <1>1, <1>2, <1>3, <1>4, <1>6, SameQueue

\* Three messages posted at the end.
LEMMA TriplePosts ==
  ASSUME NEW S, NEW a \in S, NEW b \in S, NEW c \in S
  PROVE  <<a, b, c>> = <<a>> \o <<b, c>> /\ <<a, b, c>> \in Seq(S)
<1>q. <<a>> \in Seq(S) /\ Len(<<a>>) = 1 /\ <<a>>[1] = a
  OBVIOUS
<1>1. PICK q \in Seq(S) : q = <<a>> /\ Len(q) = 1 /\ q[1] = a
  BY <1>q
<1>r. <<b, c>> \in Seq(S) /\ Len(<<b, c>>) = 2 /\ <<b, c>>[1] = b /\ <<b, c>>[2] = c
  OBVIOUS
<1>2. PICK r \in Seq(S) : r = <<b, c>> /\ Len(r) = 2 /\ r[1] = b /\ r[2] = c
  BY <1>r
<1>p. <<a, b, c>> \in Seq(S) /\ Len(<<a, b, c>>) = 3 /\ <<a, b, c>>[1] = a /\ <<a, b, c>>[2] = b /\ <<a, b, c>>[3] = c
  OBVIOUS
<1>3. PICK p \in Seq(S) : p = <<a, b, c>> /\ Len(p) = 3 /\ p[1] = a /\ p[2] = b /\ p[3] = c
  BY <1>p
<1>4. /\ q \o r \in Seq(S) /\ Len(q \o r) = Len(q) + Len(r)
      /\ Len(q) >= 1 => (q \o r)[1] = q[1]
      /\ Len(r) >= 2 => (q \o r)[Len(q) + 1] = r[1] /\ (q \o r)[Len(q) + 2] = r[2]
  OBVIOUS
<1>5. \A i \in 1 .. 3 : i = 1 \/ i = 2 \/ i = 3
  OBVIOUS
<1>6. Len(p) = Len(q \o r) /\ \A i \in 1 .. Len(p) : p[i] = (q \o r)[i]
  BY <1>1, <1>2, <1>3, <1>4, <1>5
<1> QED  BY <1>1, <1>2, <1>3, <1>4, <1>6, SameQueue

\* Posting others leaves their number.
LEMMA PlacesKept ==
  ASSUME NEW S, NEW q \in Seq(S), NEW r \in Seq(S), NEW T, NoneOf(r, T)
  PROVE  Places(q \o r, T) = Places(q, T)
<1>1. /\ Len(q) \in Nat /\ Len(r) \in Nat
      /\ DOMAIN q = 1 .. Len(q) /\ DOMAIN r = 1 .. Len(r)
      /\ DOMAIN (q \o r) = 1 .. Len(q) + Len(r)
      /\ \A i \in 1 .. Len(q) : (q \o r)[i] = q[i]
      /\ \A i \in 1 .. Len(r) : (q \o r)[Len(q) + i] = r[i]
  OBVIOUS
<1> DEFINE s == q \o r
<1> HIDE DEF s
<1>2. /\ DOMAIN s = 1 .. Len(q) + Len(r)
      /\ \A i \in 1 .. Len(q) : s[i] = q[i]
      /\ \A i \in 1 .. Len(r) : s[Len(q) + i] = r[i]
  BY <1>1 DEF s
<1>3. ASSUME NEW i \in DOMAIN s, i \notin DOMAIN q PROVE s[i] \notin T
  <2>1. i - Len(q) \in DOMAIN r /\ i = Len(q) + (i - Len(q))
    BY <1>1, <1>2, <1>3
  <2> QED  BY <1>1, <1>2, <2>1 DEF NoneOf
<1>4. Places(s, T) = Places(q, T)
  BY <1>1, <1>2, <1>3 DEF Places
<1> QED  BY <1>4 DEF s

\* Appending what comes next to a first part of b gives the next longer part.
LEMMA LongerPart ==
  ASSUME NEW S, NEW c \in Seq(S), NEW n \in Nat, n >= 1, NEW b \in Seq(S), Len(b) = n,
         NEW a \in Seq(S), Len(a) = n - 1, \A j \in 1..(n - 1) : a[j] = b[j]
  PROVE  Append(c \o a, b[n]) = c \o b
<1>1. PICK m \in S : m = b[n]
  OBVIOUS
<1>2. /\ Append(a, m) \in Seq(S) /\ Len(Append(a, m)) = n
      /\ Append(a, m)[n] = m /\ \A j \in 1..(n - 1) : Append(a, m)[j] = a[j]
  OBVIOUS
<1>3. \A j \in 1..n : j = n \/ j \in 1..(n - 1)
  OBVIOUS
<1>4. \A j \in 1..n : Append(a, m)[j] = b[j]
  BY <1>1, <1>2, <1>3
<1>5. Append(a, m) = b
  BY <1>2, <1>4, SameQueue
<1>6. Append(c \o a, m) = c \o Append(a, m)
  OBVIOUS
<1> QED
  BY <1>1, <1>5, <1>6

\* If some message is of T, one is the last.
LEMMA SomeLast ==
  ASSUME NEW S, NEW q \in Seq(S), NEW T, NEW P, ~NoneOf(q, T), \A i \in DOMAIN q : q[i] \in P
  PROVE  LastIs(q, T, P)
<1>1. PICK n \in Nat : n = Len(q) /\ DOMAIN q = 1..n
  OBVIOUS
<1> DEFINE After == {n - i : i \in {j \in 1..n : q[j] \in T}}
<1>2. After \in SUBSET Nat
  OBVIOUS
<1>3. After # {}
  BY <1>1 DEF NoneOf
<1>4. PICK a \in After : \A y \in After : a <= y
  <2> HIDE DEF After
  <2> QED
    BY <1>2, <1>3, LeastNat
<1>5. PICK i \in 1..n : q[i] \in T /\ a = n - i
  BY <1>4
<1>6. \A j \in 1..n : q[j] \in T => a <= n - j
  BY <1>4
<1>7. \A j \in 1..n : q[j] \in T => j <= i
  <2> HIDE DEF After
  <2> QED
    BY <1>5, <1>6
<1> QED
  BY <1>1, <1>5, <1>7 DEF LastIs

(***************************************************************************)
(* What comes first, and how many come                                     *)
(***************************************************************************)

\* All messages of S that wait are before those of T.
Before(q, S, T) == \A i, j \in DOMAIN q : q[i] \in S /\ q[j] \in T => i < j

\* Taking a message keeps the order; one of T is taken only when none of S waits.
LEMMA BeforeTake ==
  ASSUME NEW M, NEW q \in Seq(M), q # <<>>, NEW S, NEW T, Before(q, S, T)
  PROVE  /\ Before(Tail(q), S, T)
         /\ Head(q) \in T => NoneOf(q, S)
<1>1. /\ Len(q) \in Nat /\ Len(q) >= 1 /\ DOMAIN q = 1 .. Len(q) /\ Head(q) = q[1]
      /\ DOMAIN Tail(q) = 1 .. Len(q) - 1
      /\ \A i \in 1 .. Len(q) - 1 : Tail(q)[i] = q[i + 1]
  OBVIOUS
<1>2. PICK t : t = Tail(q)
  OBVIOUS
<1>n. PICK n \in Nat : n = Len(q)
  BY <1>1
<1>3. ASSUME NEW i \in DOMAIN t, NEW j \in DOMAIN t, t[i] \in S, t[j] \in T PROVE i < j
  <2>1. i \in 1 .. n - 1 /\ j \in 1 .. n - 1 /\ i + 1 \in DOMAIN q /\ j + 1 \in DOMAIN q
        /\ t[i] = q[i + 1] /\ t[j] = q[j + 1]
    BY <1>1, <1>2, <1>n, <1>3
  <2>2. i + 1 < j + 1
    BY <1>3, <2>1 DEF Before
  <2> QED  BY <2>1, <2>2
<1>4. ASSUME Head(q) \in T PROVE NoneOf(q, S)
  <2>1. 1 \in DOMAIN q /\ q[1] \in T /\ \A i \in DOMAIN q : ~(i < 1)
    BY <1>1, <1>4
  <2> QED  BY <2>1 DEF Before, NoneOf
<1> QED  BY <1>2, <1>3, <1>4 DEF Before

\* A message of S may be posted only if none of T waits.
LEMMA BeforePost ==
  ASSUME NEW M, NEW q \in Seq(M), NEW m \in M, NEW S, NEW T, Before(q, S, T),
         m \in S => NoneOf(q, T) /\ m \notin T
  PROVE  Before(Append(q, m), S, T)
<1>1. /\ Len(q) \in Nat /\ DOMAIN q = 1 .. Len(q) /\ DOMAIN Append(q, m) = 1 .. Len(q) + 1
      /\ Append(q, m)[Len(q) + 1] = m /\ \A i \in 1 .. Len(q) : Append(q, m)[i] = q[i]
  OBVIOUS
<1>2. PICK t : t = Append(q, m)
  OBVIOUS
<1>n. PICK n \in Nat : n = Len(q)
  BY <1>1
<1>3. ASSUME NEW i \in DOMAIN t, NEW j \in DOMAIN t, t[i] \in S, t[j] \in T PROVE i < j
  <2>1. CASE i = n + 1
    <3>1. t[i] = m /\ NoneOf(q, T) /\ m \notin T
      BY <1>1, <1>2, <1>n, <1>3, <2>1
    <3>2. j \in 1 .. n /\ q[j] \in T
      BY <1>1, <1>2, <1>n, <1>3, <2>1, <3>1
    <3> QED  BY <1>1, <1>2, <1>n, <3>1, <3>2 DEF NoneOf
  <2>2. CASE i # n + 1 /\ j = n + 1
    BY <1>1, <1>2, <1>n, <1>3, <2>2
  <2>3. CASE i # n + 1 /\ j # n + 1
    <3>1. i \in 1 .. n /\ j \in 1 .. n /\ t[i] = q[i] /\ t[j] = q[j]
      BY <1>1, <1>2, <1>n, <1>3, <2>3
    <3> QED  BY <1>1, <1>2, <1>n, <1>3, <3>1 DEF Before
  <2> QED  BY <2>1, <2>2, <2>3
<1> QED  BY <1>2, <1>3 DEF Before

\* Posting several adds their number.
LEMMA PlacesPosts ==
  ASSUME NEW S, NEW q \in Seq(S), NEW r \in Seq(S), NEW T
  PROVE  Cardinality(Places(q \o r, T)) = Cardinality(Places(q, T)) + Cardinality(Places(r, T))
<1>1. /\ Len(q) \in Nat /\ Len(r) \in Nat /\ q \o r \in Seq(S)
      /\ DOMAIN q = 1 .. Len(q) /\ DOMAIN r = 1 .. Len(r)
      /\ DOMAIN (q \o r) = 1 .. Len(q) + Len(r)
      /\ \A i \in 1 .. Len(q) : (q \o r)[i] = q[i]
      /\ \A i \in 1 .. Len(r) : (q \o r)[Len(q) + i] = r[i]
  OBVIOUS
<1>2. PICK n \in Nat, l \in Nat, s \in Seq(S) : n = Len(q) /\ l = Len(r) /\ s = q \o r
  BY <1>1
<1>3. /\ DOMAIN q = 1 .. n /\ DOMAIN r = 1 .. l /\ DOMAIN s = 1 .. n + l
      /\ \A i \in 1 .. n : s[i] = q[i]
      /\ \A i \in 1 .. l : s[n + i] = r[i]
  BY <1>1, <1>2
<1> DEFINE later == {i \in n + 1 .. n + l : s[i] \in T}
           f == [i \in Places(r, T) |-> n + i]
<1>4. Places(s, T) = Places(q, T) \cup later /\ Places(q, T) \cap later = {}
  BY <1>3 DEF Places
<1>5. f \in [Places(r, T) -> later]
  <2>1. ASSUME NEW i \in Places(r, T) PROVE n + i \in later
    <3>1. i \in 1 .. l /\ r[i] \in T
      BY <1>3 DEF Places
    <3>2. s[n + i] \in T
      BY <1>3, <3>1
    <3> QED  BY <3>1, <3>2
  <2> QED  BY <2>1
<1>6. \A a, b \in Places(r, T) : f[a] = f[b] => a = b
  BY <1>3 DEF Places
<1>7. ASSUME NEW k \in later PROVE \E j \in Places(r, T) : f[j] = k
  <2>1. k - n \in 1 .. l /\ n + (k - n) = k /\ s[k] \in T
    OBVIOUS
  <2>2. PICK i \in 1 .. l : i = k - n
    BY <2>1
  <2>3. s[n + i] = r[i] /\ n + i = k
    BY <1>3, <2>1, <2>2
  <2>4. r[i] \in T
    BY <2>1, <2>3
  <2>5. i \in Places(r, T)
    BY <1>3, <2>4 DEF Places
  <2> QED  BY <2>3, <2>5
<1>8. f \in Bijection(Places(r, T), later)
  BY <1>5, <1>6, <1>7 DEF Bijection, Injection, Surjection, IsInjective
<1>9. /\ IsFiniteSet(Places(q, T)) /\ Cardinality(Places(q, T)) \in Nat
      /\ IsFiniteSet(Places(r, T)) /\ Cardinality(Places(r, T)) \in Nat
      /\ IsFiniteSet(Places(s, T))
  BY PlacesNumber
<1>10. IsFiniteSet(later)
  <2> HIDE DEF later, f
  <2> QED  BY <1>4, <1>9, FS_Subset
<1>11. Cardinality(later) = Cardinality(Places(r, T))
  <2> HIDE DEF later, f
  <2>1. ExistsBijection(Places(r, T), later)
    BY <1>8 DEF ExistsBijection
  <2> QED  BY <1>9, <1>10, <2>1, FS_Bijection
<1>12. Cardinality(Places(s, T)) = Cardinality(Places(q, T)) + Cardinality(later)
  <2> HIDE DEF later, f
  <2>1. Cardinality(Places(q, T) \cup later)
          = Cardinality(Places(q, T)) + Cardinality(later) - Cardinality(Places(q, T) \cap later)
    BY <1>9, <1>10, FS_Union
  <2>2. Cardinality(Places(q, T) \cap later) = 0
    BY <1>4, FS_EmptySet
  <2>3. Cardinality(later) \in Nat
    BY <1>10, FS_CardinalityType
  <2> QED  BY <1>4, <1>9, <2>1, <2>2, <2>3
<1> QED  BY <1>2, <1>11, <1>12

\* There are none of those whose number is none.
LEMMA PlacesNone ==
  ASSUME NEW S, NEW q \in Seq(S), NEW T
  PROVE  Cardinality(Places(q, T)) = 0 <=> NoneOf(q, T)
<1>1. IsFiniteSet(Places(q, T))
  BY PlacesNumber
<1>2. Cardinality(Places(q, T)) = 0 <=> Places(q, T) = {}
  BY <1>1, FS_EmptySet
<1> QED  BY <1>2 DEF Places, NoneOf

(***************************************************************************)
(* Walks, which stand in for recursion                                     *)
(***************************************************************************)

\* The walks that take a step for each of n places from base: what has been
\* reached after each of them.
Walks(V, n, base, step) ==
  {f \in [0..n -> V] : f[0] = base /\ \A i \in 1..n : f[i] = step[<<i, f[i - 1]>>]}

\* There is one.
LEMMA WalkExists ==
  ASSUME NEW V, NEW n \in Nat, NEW base \in V, NEW step \in [(1..n) \X V -> V]
  PROVE  Walks(V, n, base, step) # {}
<1> DEFINE W(m) == {f \in [0..m -> V] :
                      f[0] = base /\ \A i \in 1..m : f[i] = step[<<i, f[i - 1]>>]}
           Bad == {m \in 0..n : W(m) = {}}
<1>1. SUFFICES ASSUME Bad # {} PROVE FALSE
  <2>1. n \in 0..n
    OBVIOUS
  <2> QED
    BY <2>1 DEF Walks
<1>2. Bad \in SUBSET Nat
  OBVIOUS
<1>3. PICK m \in Bad : \A y \in Bad : m <= y
  <2> HIDE DEF Bad
  <2> QED
    BY <1>1, <1>2, LeastNat
<1>4. CASE m = 0
  <2>1. [i \in 0..0 |-> base] \in W(0)
    OBVIOUS
  <2> QED
    BY <1>3, <1>4, <2>1
<1>5. CASE m # 0
  <2>1. m \in 1..n /\ m - 1 \in 0..n /\ ~(m <= m - 1)
    BY <1>3, <1>5
  <2>2. m - 1 \notin Bad
    BY <1>3, <2>1
  <2>3. PICK f \in [0..(m - 1) -> V] :
          f[0] = base /\ \A i \in 1..(m - 1) : f[i] = step[<<i, f[i - 1]>>]
    BY <2>1, <2>2
  <2> DEFINE g == [i \in 0..m |-> IF i = m THEN step[<<m, f[m - 1]>>] ELSE f[i]]
  <2>4. step[<<m, f[m - 1]>>] \in V
    <3>1. f[m - 1] \in V
      BY <2>1, <2>3
    <3> QED
      BY <2>1, <3>1
  <2>5. PICK v \in V : v = step[<<m, f[m - 1]>>]
    BY <2>4
  <2>6. \A i \in 0..m : i # m => i \in 0..(m - 1)
    BY <2>1
  <2>7. g \in [0..m -> V]
    BY <2>3, <2>5, <2>6
  <2>8. g[0] = base /\ g[m] = v /\ \A i \in 0..(m - 1) : g[i] = f[i]
    BY <2>1, <2>3, <2>5
  <2>9. PICK h \in [0..m -> V] : h = g
    BY <2>7
  <2>10. h[0] = base /\ h[m] = v /\ \A i \in 0..(m - 1) : h[i] = f[i]
    BY <2>8, <2>9
  <2> HIDE DEF g
  <2>11. ASSUME NEW i \in 1..m PROVE h[i] = step[<<i, h[i - 1]>>]
    <3>1. i - 1 \in 0..(m - 1) /\ h[i - 1] = f[i - 1]
      BY <2>1, <2>10
    <3>2. CASE i = m
      BY <2>5, <2>10, <3>1, <3>2
    <3>3. CASE i # m
      <4>1. i \in 1..(m - 1) /\ i \in 0..(m - 1)
        BY <2>1, <3>3
      <4> QED
        BY <2>3, <2>10, <3>1, <4>1
    <3> QED
      BY <3>2, <3>3
  <2>12. h \in W(m)
    BY <2>10, <2>11
  <2> QED
    BY <1>3, <2>12
<1> QED
  BY <1>4, <1>5

(***************************************************************************)
(* Elements in order                                                       *)
(***************************************************************************)

\* A finite set can be put in an order in which a given rank does not fall: the
\* place of x is the number of elements not behind x.
LEMMA OrderExists ==
  ASSUME NEW S, IsFiniteSet(S), NEW rank \in [S -> Int]
  PROVE  \E s \in [1..Cardinality(S) -> S] :
           /\ IsInjective(s)
           /\ \A i, j \in DOMAIN s : i < j => rank[s[i]] <= rank[s[j]]
<1> DEFINE n == Cardinality(S)
<1>1. n \in Nat /\ ExistsBijection(1..n, S)
  BY FS_CardinalityType
<1>2. PICK e \in Bijection(1..n, S) : TRUE
  BY <1>1 DEF ExistsBijection
<1>3. e \in [1..n -> S] /\ (\A i, j \in 1..n : e[i] = e[j] => i = j)
      /\ \A x \in S : \E i \in 1..n : e[i] = x
  BY <1>2 DEF Bijection, Injection, Surjection, IsInjective
<1> DEFINE num == [x \in S |-> CHOOSE i \in 1..n : e[i] = x]
<1>4. \A x \in S : num[x] \in 1..n /\ e[num[x]] = x
  BY <1>3
<1>5. PICK nm : nm = num
  OBVIOUS
<1>6. /\ \A x \in S : nm[x] \in Int
      /\ \A x, y \in S : nm[x] = nm[y] => x = y
  BY <1>1, <1>4, <1>5
<1> HIDE DEF num
<1> DEFINE Upto(x) == {y \in S : rank[y] < rank[x] \/ (rank[y] = rank[x] /\ nm[y] <= nm[x])}
           place == [x \in S |-> Cardinality(Upto(x))]
<1>7. ASSUME NEW x \in S
      PROVE  x \in Upto(x) /\ IsFiniteSet(Upto(x)) /\ Cardinality(Upto(x)) \in 1..n
  <2>1. x \in Upto(x)
    BY <1>6
  <2>2. Upto(x) \in SUBSET S
    OBVIOUS
  <2>3. IsFiniteSet(Upto(x)) /\ Cardinality(Upto(x)) <= n
    BY <2>2, FS_Subset
  <2>4. Cardinality(Upto(x)) \in Nat /\ Cardinality(Upto(x)) # 0
    <3> HIDE DEF Upto
    <3>1. Cardinality(Upto(x)) \in Nat
      BY <2>3, FS_CardinalityType
    <3>2. Cardinality(Upto(x)) = 0 => Upto(x) = {}
      BY <2>3, FS_EmptySet
    <3> QED
      BY <2>1, <3>1, <3>2
  <2> QED
    BY <1>1, <2>1, <2>3, <2>4
<1>8. ASSUME NEW x \in S, NEW y \in S, y \notin Upto(x)
      PROVE  Cardinality(Upto(x)) < Cardinality(Upto(y))
  <2>1. rank[x] \in Int /\ rank[y] \in Int /\ nm[x] \in Int /\ nm[y] \in Int
    BY <1>6
  <2>2. rank[x] < rank[y] \/ (rank[x] = rank[y] /\ nm[x] < nm[y])
    BY <1>8, <2>1
  <2>3. \A z \in Upto(x) : z \in Upto(y)
    <3> SUFFICES ASSUME NEW z \in S, rank[z] < rank[x] \/ (rank[z] = rank[x] /\ nm[z] <= nm[x])
                 PROVE  rank[z] < rank[y] \/ (rank[z] = rank[y] /\ nm[z] <= nm[y])
      OBVIOUS
    <3>1. rank[z] \in Int /\ nm[z] \in Int
      BY <1>6
    <3> QED
      BY <2>1, <2>2, <3>1
  <2>4. Upto(x) \in SUBSET Upto(y) /\ Upto(x) # Upto(y)
    BY <1>7, <1>8, <2>3
  <2> HIDE DEF Upto
  <2>5. /\ IsFiniteSet(Upto(y))
        /\ Cardinality(Upto(x)) \in 1..n /\ Cardinality(Upto(y)) \in 1..n
    BY <1>7
  <2>6. Cardinality(Upto(x)) <= Cardinality(Upto(y)) /\ Cardinality(Upto(x)) # Cardinality(Upto(y))
    BY <2>4, <2>5, FS_Subset
  <2> QED
    BY <2>5, <2>6
<1>9. PICK p : p = place
  OBVIOUS
<1>10. p \in [S -> 1..n] /\ \A x, y \in S : y \notin Upto(x) => p[x] < p[y]
  <2> HIDE DEF Upto
  <2> QED
    BY <1>7, <1>8, <1>9
<1>11. \A x, y \in S : p[x] = p[y] => x = y
  <2> SUFFICES ASSUME NEW x \in S, NEW y \in S, p[x] = p[y] PROVE x = y
    OBVIOUS
  <2>1. y \in Upto(x) /\ x \in Upto(y)
    <3> HIDE DEF Upto
    <3>1. p[x] \in Int /\ p[y] \in Int
      BY <1>1, <1>10
    <3> QED
      BY <1>10, <3>1
  <2>2. rank[x] \in Int /\ rank[y] \in Int /\ nm[x] \in Int /\ nm[y] \in Int
    BY <1>6
  <2>3. nm[x] = nm[y]
    BY <2>1, <2>2
  <2> QED
    BY <1>6, <2>3
<1> HIDE DEF place
<1>12. p \in Injection(S, 1..n)
  BY <1>10, <1>11 DEF Injection, IsInjective
<1>13. IsFiniteSet(1..n) /\ Cardinality(1..n) = n
  BY <1>1, FS_Interval
<1>14. p \in Surjection(S, 1..n)
  BY <1>12, <1>13, FS_Injection
<1>15. \A i \in 1..n : \E x \in S : p[x] = i
  BY <1>14 DEF Surjection
<1> DEFINE s == [i \in 1..n |-> CHOOSE x \in S : p[x] = i]
<1>16. s \in [1..n -> S] /\ \A i \in 1..n : p[s[i]] = i
  BY <1>15
<1>17. PICK t : t = s
  OBVIOUS
<1>18. t \in [1..n -> S] /\ \A i \in 1..n : p[t[i]] = i
  BY <1>16, <1>17
<1> HIDE DEF s
<1>19. IsInjective(t)
  BY <1>18 DEF IsInjective
<1>20. ASSUME NEW i \in 1..n, NEW j \in 1..n, i < j PROVE rank[t[i]] <= rank[t[j]]
  <2>1. t[i] \in S /\ t[j] \in S /\ p[t[i]] = i /\ p[t[j]] = j
    BY <1>18
  <2>2. t[i] \in Upto(t[j])
    <3> HIDE DEF Upto
    <3>1. i \in Int /\ j \in Int
      BY <1>1
    <3> QED
      BY <1>10, <1>20, <2>1, <3>1
  <2>3. rank[t[i]] \in Int /\ rank[t[j]] \in Int
    BY <2>1
  <2> QED
    BY <2>2, <2>3
<1> QED
  BY <1>18, <1>19, <1>20

\* Such an order is a sequence of the elements, each at one place.
LEMMA EachOnce ==
  ASSUME NEW S, IsFiniteSet(S), NEW s \in [1..Cardinality(S) -> S], IsInjective(s)
  PROVE  /\ s \in Seq(S)
         /\ \A x \in S : \E i \in DOMAIN s : s[i] = x
         /\ \A i, j \in DOMAIN s : s[i] = s[j] => i = j
<1> DEFINE n == Cardinality(S)
<1>1. n \in Nat
  BY FS_CardinalityType
<1>4. s \in Injection(1..n, S)
  BY DEF Injection
<1>5. IsFiniteSet(1..n) /\ Cardinality(1..n) = n
  BY <1>1, FS_Interval
<1>6. s \in Surjection(1..n, S)
  BY <1>4, <1>5, FS_Injection
<1>7. \A x \in S : \E i \in 1..n : s[i] = x
  BY <1>6 DEF Surjection
<1>8. s \in Seq(S) /\ DOMAIN s = 1..n
  BY <1>1
<1> QED
  BY <1>7, <1>8 DEF IsInjective
=============================================================================
