----------------------------- MODULE Occurrences -----------------------------
(***************************************************************************)
(* How often the elements of a set occur in a sequence: the lemmas about   *)
(* queues that the proofs about Delivery and RemoteDelivery share.  The    *)
(* set stands for the copies of one message.                               *)
(***************************************************************************)
EXTENDS Naturals, Sequences, SequencesExt, FiniteSetTheorems, TLAPS

\* Some element of q is in S; no two elements of q are.
Has(q, S) == \E i \in DOMAIN q : q[i] \in S
Single(q, S) == \A i, j \in DOMAIN q : q[i] \in S /\ q[j] \in S => i = j

\* The empty queue.
LEMMA EmptyHas ==
  ASSUME NEW S
  PROVE  ~Has(<<>>, S) /\ Single(<<>>, S)
BY DEF Has, Single

\* put(e)
LEMMA AppendHas ==
  ASSUME NEW T, NEW q \in Seq(T), NEW e \in T, NEW S
  PROVE  /\ Has(Append(q, e), S) <=> Has(q, S) \/ e \in S
         /\ Single(q, S) /\ (e \in S => ~Has(q, S)) => Single(Append(q, e), S)
<1>1. /\ DOMAIN q = 1..Len(q) /\ DOMAIN Append(q, e) = 1..(Len(q) + 1)
      /\ \A i \in 1..Len(q) : Append(q, e)[i] = q[i]
      /\ Append(q, e)[Len(q) + 1] = e
      /\ Len(q) \in Nat
  OBVIOUS
<1>2. Has(Append(q, e), S) <=> Has(q, S) \/ e \in S
  <2>1. ASSUME Has(q, S) PROVE Has(Append(q, e), S)
    <3>1. PICK i \in 1..Len(q) : q[i] \in S
      BY <1>1, <2>1 DEF Has
    <3>2. i \in 1..(Len(q) + 1)
      BY <1>1
    <3> QED BY <1>1, <3>1, <3>2 DEF Has
  <2>2. ASSUME e \in S PROVE Has(Append(q, e), S)
    <3>1. Len(q) + 1 \in 1..(Len(q) + 1)
      BY <1>1
    <3> QED BY <1>1, <2>2, <3>1 DEF Has
  <2>3. ASSUME Has(Append(q, e), S), e \notin S PROVE Has(q, S)
    <3>1. PICK i \in 1..(Len(q) + 1) : Append(q, e)[i] \in S
      BY <1>1, <2>3 DEF Has
    <3>2. i # Len(q) + 1
      BY <1>1, <2>3, <3>1
    <3>3. i \in 1..Len(q)
      BY <1>1, <3>2
    <3> QED BY <1>1, <3>1, <3>3 DEF Has
  <2> QED BY <2>1, <2>2, <2>3
<1>3. ASSUME Single(q, S), e \in S => ~Has(q, S) PROVE Single(Append(q, e), S)
  <2> SUFFICES ASSUME NEW i \in 1..(Len(q) + 1), NEW j \in 1..(Len(q) + 1),
                      Append(q, e)[i] \in S, Append(q, e)[j] \in S
               PROVE  i = j
    BY <1>1 DEF Single
  <2>1. CASE i # Len(q) + 1 /\ j # Len(q) + 1
    <3>1. i \in 1..Len(q) /\ j \in 1..Len(q)
      BY <1>1, <2>1
    <3> QED BY <1>1, <1>3, <3>1 DEF Single
  <2>2. ASSUME NEW k \in 1..(Len(q) + 1), k # Len(q) + 1, Append(q, e)[k] \in S
        PROVE  e \notin S
    <3>1. k \in 1..Len(q)
      BY <1>1, <2>2
    <3> QED BY <1>1, <1>3, <2>2, <3>1 DEF Has
  <2> QED BY <1>1, <2>1, <2>2
<1> QED BY <1>2, <1>3

\* get()
LEMMA TailHas ==
  ASSUME NEW T, NEW q \in Seq(T), q # <<>>, NEW S
  PROVE  /\ Has(q, S) <=> Head(q) \in S \/ Has(Tail(q), S)
         /\ Single(q, S) => /\ Single(Tail(q), S)
                            /\ Head(q) \in S => ~Has(Tail(q), S)
<1>1. /\ DOMAIN q = 1..Len(q) /\ DOMAIN Tail(q) = 1..(Len(q) - 1)
      /\ \A i \in 1..(Len(q) - 1) : Tail(q)[i] = q[i + 1]
      /\ Head(q) = q[1]
      /\ Len(q) \in Nat /\ Len(q) > 0 /\ 1 \in 1..Len(q)
  OBVIOUS
<1>2. \A i \in 1..(Len(q) - 1) : i + 1 \in 1..Len(q) /\ i + 1 # 1
  BY <1>1
<1>3. \A i \in 1..Len(q) : i # 1 => i - 1 \in 1..(Len(q) - 1) /\ (i - 1) + 1 = i
  BY <1>1
<1>4. Has(q, S) <=> Head(q) \in S \/ Has(Tail(q), S)
  <2>1. ASSUME Has(q, S), Head(q) \notin S PROVE Has(Tail(q), S)
    <3>1. PICK i \in 1..Len(q) : q[i] \in S
      BY <1>1, <2>1 DEF Has
    <3>2. i # 1
      BY <1>1, <2>1, <3>1
    <3>3. i - 1 \in 1..(Len(q) - 1) /\ (i - 1) + 1 = i
      BY <1>3, <3>2
    <3>4. Tail(q)[i - 1] = q[i]
      BY <1>1, <3>3
    <3> QED BY <1>1, <3>1, <3>3, <3>4 DEF Has
  <2>2. ASSUME Has(Tail(q), S) PROVE Has(q, S)
    BY <1>1, <1>2, <2>2 DEF Has
  <2>3. ASSUME Head(q) \in S PROVE Has(q, S)
    BY <1>1, <2>3 DEF Has
  <2> QED BY <2>1, <2>2, <2>3
<1>5. ASSUME Single(q, S) PROVE Single(Tail(q), S)
  <2> SUFFICES ASSUME NEW i \in 1..(Len(q) - 1), NEW j \in 1..(Len(q) - 1),
                      q[i + 1] \in S, q[j + 1] \in S
               PROVE  i = j
    BY <1>1 DEF Single
  <2>1. i + 1 = j + 1
    BY <1>1, <1>2, <1>5 DEF Single
  <2> QED BY <1>1, <2>1
<1>6. ASSUME Single(q, S), Head(q) \in S, Has(Tail(q), S) PROVE FALSE
  <2>1. PICK i \in 1..(Len(q) - 1) : q[i + 1] \in S
    BY <1>1, <1>6 DEF Has
  <2> QED BY <1>1, <1>2, <1>6, <2>1 DEF Single
<1> QED BY <1>4, <1>5, <1>6

\* The item that was taken is put back at the end.
LEMMA RotateHas ==
  ASSUME NEW T, NEW q \in Seq(T), q # <<>>, NEW S
  PROVE  /\ Has(Append(Tail(q), Head(q)), S) <=> Has(q, S)
         /\ Single(q, S) => Single(Append(Tail(q), Head(q)), S)
<1>1. Tail(q) \in Seq(T) /\ Head(q) \in T
  OBVIOUS
<1> QED BY <1>1, AppendHas, TailHas

\* A list that is served last one first.
LEMMA ReverseHas ==
  ASSUME NEW T, NEW q \in Seq(T), NEW S
  PROVE  /\ Reverse(q) \in Seq(T)
         /\ Has(Reverse(q), S) <=> Has(q, S)
         /\ Single(q, S) => Single(Reverse(q), S)
<1>1. /\ DOMAIN q = 1..Len(q) /\ DOMAIN Reverse(q) = 1..Len(q)
      /\ \A i \in 1..Len(q) : Reverse(q)[i] = q[(Len(q) - i) + 1]
      /\ Reverse(q) \in Seq(T) /\ Len(q) \in Nat
  BY DEF Reverse
<1>2. \A i \in 1..Len(q) : /\ (Len(q) - i) + 1 \in 1..Len(q)
                           /\ (Len(q) - ((Len(q) - i) + 1)) + 1 = i
  BY <1>1
<1>3. Has(Reverse(q), S) => Has(q, S)
  BY <1>1, <1>2 DEF Has
<1>4. ASSUME Has(q, S) PROVE Has(Reverse(q), S)
  <2>1. PICK i \in 1..Len(q) : q[i] \in S
    BY <1>1, <1>4 DEF Has
  <2>2. Reverse(q)[(Len(q) - i) + 1] = q[i]
    BY <1>1, <1>2
  <2> QED BY <1>1, <1>2, <2>1, <2>2 DEF Has
<1>5. ASSUME Single(q, S) PROVE Single(Reverse(q), S)
  <2> SUFFICES ASSUME NEW i \in 1..Len(q), NEW j \in 1..Len(q),
                      q[(Len(q) - i) + 1] \in S, q[(Len(q) - j) + 1] \in S
               PROVE  i = j
    BY <1>1 DEF Single
  <2>1. (Len(q) - i) + 1 = (Len(q) - j) + 1
    BY <1>1, <1>2, <1>5 DEF Single
  <2> QED BY <1>1, <2>1
<1> QED BY <1>1, <1>3, <1>4, <1>5

\* What was written, and then the list ms.
LEMMA ConcatHas ==
  ASSUME NEW T, NEW q \in Seq(T), NEW ms \in Seq(T), NEW S
  PROVE  /\ q \o ms \in Seq(T)
         /\ Has(q \o ms, S) <=> Has(q, S) \/ Has(ms, S)
         /\ Single(q, S) /\ Single(ms, S) /\ ~(Has(q, S) /\ Has(ms, S))
              => Single(q \o ms, S)
<1>1. /\ DOMAIN q = 1..Len(q) /\ DOMAIN ms = 1..Len(ms)
      /\ DOMAIN (q \o ms) = 1..(Len(q) + Len(ms))
      /\ \A i \in 1..Len(q) : (q \o ms)[i] = q[i]
      /\ \A i \in 1..(Len(q) + Len(ms)) : i > Len(q) => (q \o ms)[i] = ms[i - Len(q)]
      /\ q \o ms \in Seq(T) /\ Len(q) \in Nat /\ Len(ms) \in Nat
  OBVIOUS
<1>2. \A i \in 1..Len(q) : i \in 1..(Len(q) + Len(ms))
  BY <1>1
<1>3. \A i \in 1..Len(ms) : /\ i + Len(q) \in 1..(Len(q) + Len(ms))
                            /\ i + Len(q) > Len(q) /\ (i + Len(q)) - Len(q) = i
  BY <1>1
<1>4. \A i \in 1..(Len(q) + Len(ms)) : \/ i \in 1..Len(q)
                                       \/ i > Len(q) /\ i - Len(q) \in 1..Len(ms)
  BY <1>1
<1>5. Has(q \o ms, S) => Has(q, S) \/ Has(ms, S)
  BY <1>1, <1>4 DEF Has
<1>6. Has(q, S) => Has(q \o ms, S)
  BY <1>1, <1>2 DEF Has
<1>7. ASSUME Has(ms, S) PROVE Has(q \o ms, S)
  <2>1. PICK i \in 1..Len(ms) : ms[i] \in S
    BY <1>1, <1>7 DEF Has
  <2>2. (q \o ms)[i + Len(q)] = ms[i]
    BY <1>1, <1>3
  <2> QED BY <1>1, <1>3, <2>1, <2>2 DEF Has
<1>8. ASSUME Single(q, S), Single(ms, S), ~(Has(q, S) /\ Has(ms, S))
      PROVE  Single(q \o ms, S)
  <2> SUFFICES ASSUME NEW i \in 1..(Len(q) + Len(ms)), NEW j \in 1..(Len(q) + Len(ms)),
                      (q \o ms)[i] \in S, (q \o ms)[j] \in S
               PROVE  i = j
    BY <1>1 DEF Single
  <2>1. CASE i \in 1..Len(q) /\ j \in 1..Len(q)
    BY <1>1, <1>8, <2>1 DEF Single
  <2>2. CASE i > Len(q) /\ j > Len(q)
    <3>1. i - Len(q) \in 1..Len(ms) /\ j - Len(q) \in 1..Len(ms)
      BY <1>1, <2>2
    <3>2. i - Len(q) = j - Len(q)
      BY <1>1, <1>8, <2>2, <3>1 DEF Single
    <3> QED BY <1>1, <3>2
  <2>3. ASSUME NEW k \in 1..Len(q), NEW l \in 1..(Len(q) + Len(ms)), l > Len(q),
               (q \o ms)[k] \in S, (q \o ms)[l] \in S
        PROVE  FALSE
    <3>1. Has(q, S)
      BY <1>1, <2>3 DEF Has
    <3>2. l - Len(q) \in 1..Len(ms)
      BY <1>1, <2>3
    <3>3. Has(ms, S)
      BY <1>1, <2>3, <3>2 DEF Has
    <3> QED BY <1>8, <3>1, <3>3
  <2> QED BY <1>4, <2>1, <2>2, <2>3
<1> QED BY <1>1, <1>5, <1>6, <1>7, <1>8

\* A set without two different elements.
LEMMA AtMostOneElement ==
  ASSUME NEW S, \A x, y \in S : x = y
  PROVE  /\ Cardinality(S) <= 1
         /\ S # {} => Cardinality(S) = 1
<1>1. CASE S = {}
  BY <1>1, FS_EmptySet
<1>2. CASE S # {}
  <2>1. PICK x \in S : S = {x}
    BY <1>2
  <2> QED BY <1>2, <2>1, FS_Singleton
<1> QED BY <1>1, <1>2

=============================================================================
