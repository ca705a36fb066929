----------------------------- MODULE LineProofs -----------------------------
(***************************************************************************)
(* Facts about one reading of a line, about the queues it feeds and about  *)
(* the readings that somebody finds there, used by the proofs of the       *)
(* modules that extend Line.                                               *)
(***************************************************************************)
EXTENDS Line, SequenceTheorems, FiniteSetTheorems, WellFoundedInduction, TLAPS

\* port_changed keeps its memory within its type: the rounds never pass
\* LIMIT + 1, because the round that would is the one that changes the channel.
LEMMA RememberType ==
    ASSUME NEW channel \in Channels, NEW m \in ChannelMemory
    PROVE  Remember(channel, m) \in ChannelMemory
BY DebounceAssumption DEF Remember, PortChanged, ChannelMemory

\* The channel of the memory after a reading, whichever it was before.
LEMMA RememberChannel ==
    ASSUME NEW channel \in Channels, NEW m \in ChannelMemory
    PROVE  Remember(channel, m).current_channel =
              IF PortChanged(channel, m) THEN channel ELSE m.current_channel
BY DEF Remember, PortChanged, ChannelMemory

LEMMA NextEpochType ==
    ASSUME NEW channel, NEW m, NEW e \in Epochs
    PROVE  NextEpoch(channel, m, e) \in Epochs
BY LineAssumption DEF NextEpoch, Epochs

\* What is sent for a reading is a sequence of the line's messages.
LEMMA PublicationsType ==
    ASSUME NEW channel \in Channels, NEW value \in Values, NEW m, NEW e \in Epochs
    PROVE  Publications(channel, value, m, e) \in Seq(Message)
<1>1. ChannelChange(channel, e) \in Message /\ Value(channel, value, e) \in Message
  BY DEF ChannelChange, Value, Message, ChangeMessage, ValueMessage
<1> QED
  BY <1>1 DEF Publications

-----------------------------------------------------------------------------
\* What is left of a queue once its first k messages are gone.
LEMMA SuffixProperties ==
    ASSUME NEW S, NEW q \in Seq(S), NEW k \in 0 .. Len(q)
    PROVE  LET r == SubSeq(q, k + 1, Len(q))
           IN  /\ r \in Seq(S)
               /\ Len(r) = Len(q) - k
               /\ DOMAIN r = 1 .. Len(q) - k
               /\ \A i \in DOMAIN r : i + k \in DOMAIN q /\ r[i] = q[i + k]
<1> DEFINE r == SubSeq(q, k + 1, Len(q))
<1>1. \A i \in k + 1 .. Len(q) : q[i] \in S
  BY ElementOfSeq
<1>2. Len(q) \in Nat /\ k \in Nat /\ k <= Len(q) /\ DOMAIN q = 1 .. Len(q)
  BY LenProperties
<1>3. /\ r \in Seq(S)
      /\ Len(r) = IF k + 1 <= Len(q) THEN Len(q) - (k + 1) + 1 ELSE 0
      /\ \A i \in 1 .. Len(q) - (k + 1) + 1 : r[i] = q[(k + 1) + i - 1]
  BY <1>1, <1>2, SubSeqProperties
<1> HIDE DEF r
<1>4. Len(r) = Len(q) - k
  <2>1. \A a, b \in Nat :
           b <= a => (IF b + 1 <= a THEN a - (b + 1) + 1 ELSE 0) = a - b
    OBVIOUS
  <2> QED
    BY <1>2, <1>3, <2>1
<1>5. DOMAIN r = 1 .. Len(q) - k
  BY <1>3, <1>4, LenProperties
<1>6. ASSUME NEW i \in DOMAIN r
      PROVE  i + k \in DOMAIN q /\ r[i] = q[i + k]
  <2>1. i \in 1 .. Len(q) - (k + 1) + 1 /\ (k + 1) + i - 1 = i + k
    BY <1>2, <1>5
  <2>2. r[i] = q[(k + 1) + i - 1]
    BY <1>3, <2>1
  <2> QED
    BY <1>2, <1>5, <2>1, <2>2
<1> QED
  BY <1>3, <1>4, <1>5, <1>6 DEF r

LEMMA TailIsSuffix ==
    ASSUME NEW S, NEW q \in Seq(S), q # << >>
    PROVE  1 \in 0 .. Len(q) /\ Tail(q) = SubSeq(q, 1 + 1, Len(q))
BY TailIsSubSeq, LenProperties, EmptySeq

LEMMA EmptyIsSuffix ==
    ASSUME NEW S, NEW q \in Seq(S)
    PROVE  Len(q) \in 0 .. Len(q) /\ << >> = SubSeq(q, Len(q) + 1, Len(q))
BY SubSeqEmpty, LenProperties

\* A queue read from its head still tells the whole story.
LEMMA SuffixConsistent ==
    ASSUME NEW q \in Seq(Message), NEW k \in 0 .. Len(q), NEW channel,
           Announced(q), UpToDate(q, channel)
    PROVE  /\ Announced(SubSeq(q, k + 1, Len(q)))
           /\ UpToDate(SubSeq(q, k + 1, Len(q)), channel)
<1> DEFINE r == SubSeq(q, k + 1, Len(q))
<1>1. /\ DOMAIN r = 1 .. Len(q) - k
      /\ \A i \in DOMAIN r : i + k \in DOMAIN q /\ r[i] = q[i + k]
  BY SuffixProperties
<1>2. Len(q) \in Nat /\ DOMAIN q = 1 .. Len(q)
  BY LenProperties
<1>3. \A n \in DOMAIN q : n > k => n - k \in DOMAIN r /\ r[n - k] = q[n]
  BY <1>1, <1>2
<1> HIDE DEF r
<1>4. Announced(r)
  <2> SUFFICES ASSUME NEW i \in DOMAIN r, NEW j \in DOMAIN r, i < j,
                      r[i].cmd = "VALUE", r[j].cmd = "VALUE",
                      r[i].channel # r[j].channel
               PROVE  \E n \in DOMAIN r :
                         i < n /\ n < j /\ Announces(r[n], r[j].channel)
    BY DEF Announced
  <2>1. PICK n \in DOMAIN q :
           i + k < n /\ n < j + k /\ Announces(q[n], q[j + k].channel)
    BY <1>1, <1>2 DEF Announced
  <2>2. n - k \in DOMAIN r /\ i < n - k /\ n - k < j /\ r[n - k] = q[n]
    BY <1>1, <1>2, <1>3, <2>1
  <2> QED
    BY <1>1, <2>1, <2>2
<1>5. UpToDate(r, channel)
  <2> SUFFICES ASSUME NEW i \in DOMAIN r, r[i].cmd = "VALUE", r[i].channel # channel
               PROVE  \E n \in DOMAIN r : i < n /\ Announces(r[n], channel)
    BY DEF UpToDate
  <2>1. PICK n \in DOMAIN q : i + k < n /\ Announces(q[n], channel)
    BY <1>1, <1>2 DEF UpToDate
  <2>2. n - k \in DOMAIN r /\ i < n - k /\ r[n - k] = q[n]
    BY <1>1, <1>2, <1>3, <2>1
  <2> QED
    BY <2>1, <2>2
<1> QED
  BY <1>4, <1>5 DEF r

\* What a reading appends continues the story: either it is a value of the
\* line's channel, or it is the change that leads to it and then the value.
LEMMA PublicationsConsistent ==
    ASSUME NEW q \in Seq(Message), NEW channel \in Channels, NEW value \in Values,
           NEW m \in ChannelMemory, NEW e \in Epochs,
           Announced(q), UpToDate(q, m.current_channel)
    PROVE  LET p == q \o Publications(channel, value, m, e)
           IN  /\ Announced(p)
               /\ UpToDate(p, Remember(channel, m).current_channel)
<1> DEFINE out == Publications(channel, value, m, e)
           p   == q \o out
           new == Remember(channel, m).current_channel
<1>1. out \in Seq(Message)
  BY PublicationsType
<1>2. /\ p \in Seq(Message)
      /\ Len(p) = Len(q) + Len(out)
      /\ \A i \in 1 .. Len(q) + Len(out) : p[i] =
             IF i <= Len(q) THEN q[i] ELSE out[i - Len(q)]
  BY <1>1, ConcatProperties
<1>3. /\ Len(q) \in Nat
      /\ DOMAIN q = 1 .. Len(q)
      /\ DOMAIN p = 1 .. Len(p)
  BY <1>2, LenProperties
<1>4. \A i \in DOMAIN q : i \in DOMAIN p /\ i <= Len(q) /\ p[i] = q[i]
  BY <1>1, <1>2, <1>3, LenProperties
<1>5. CASE PortChanged(channel, m)
  <2>1. out = <<ChannelChange(channel, e), Value(channel, value, e)>>
    BY <1>5 DEF Publications
  <2>2. Len(out) = 2 /\ out[1] = ChannelChange(channel, e)
                    /\ out[2] = Value(channel, value, e)
    BY <2>1
  <2>3. DOMAIN p = 1 .. Len(q) + 2
    BY <1>2, <1>3, <2>2
  <2>4. p[Len(q) + 1] = out[1]
    BY <1>2, <1>3, <2>2
  <2>5. p[Len(q) + 2] = out[2]
    BY <1>2, <1>3, <2>2
  <2>6. p[Len(q) + 1].cmd # "VALUE" /\ Announces(p[Len(q) + 1], channel)
    BY <2>2, <2>4 DEF ChannelChange, Announces
  <2>7. p[Len(q) + 2].channel = channel
    BY <2>2, <2>5 DEF Value
  <2>8. new = channel
    BY <1>5, RememberChannel
  <2> HIDE DEF p, out, new
  <2>9. Announced(p)
    <3> SUFFICES ASSUME NEW i \in DOMAIN p, NEW j \in DOMAIN p, i < j,
                        p[i].cmd = "VALUE", p[j].cmd = "VALUE",
                        p[i].channel # p[j].channel
                 PROVE  \E k \in DOMAIN p :
                           i < k /\ k < j /\ Announces(p[k], p[j].channel)
      BY DEF Announced
    <3>1. CASE j \in DOMAIN q
      <4>1. i \in DOMAIN q /\ p[i] = q[i] /\ p[j] = q[j]
        BY <1>3, <1>4, <2>3, <3>1
      <4>2. PICK k \in DOMAIN q : i < k /\ k < j /\ Announces(q[k], q[j].channel)
        BY <3>1, <4>1 DEF Announced
      <4> QED
        BY <1>4, <4>1, <4>2
    <3>2. CASE j \notin DOMAIN q
      <4>1. j = Len(q) + 2 /\ i <= Len(q)
        BY <1>3, <2>3, <2>6, <3>2
      <4> QED
        BY <1>3, <2>3, <2>6, <2>7, <4>1
    <3> QED
      BY <3>1, <3>2
  <2>10. UpToDate(p, new)
    <3> SUFFICES ASSUME NEW i \in DOMAIN p, p[i].cmd = "VALUE", p[i].channel # new
                 PROVE  \E k \in DOMAIN p : i < k /\ Announces(p[k], new)
      BY DEF UpToDate
    <3>1. i <= Len(q)
      BY <1>3, <2>3, <2>6, <2>7, <2>8
    <3> QED
      BY <1>3, <2>3, <2>6, <2>8, <3>1
  <2> QED
    BY <2>9, <2>10 DEF p, out, new
<1>6. CASE ~PortChanged(channel, m) /\ channel = m.current_channel
  <2>1. out = <<Value(channel, value, e)>>
    BY <1>6 DEF Publications
  <2>2. Len(out) = 1 /\ out[1] = Value(channel, value, e)
    BY <2>1
  <2>3. DOMAIN p = 1 .. Len(q) + 1
    BY <1>2, <1>3, <2>2
  <2>4. p[Len(q) + 1] = out[1]
    BY <1>2, <1>3, <2>2
  <2>5. p[Len(q) + 1].channel = channel
    BY <2>2, <2>4 DEF Value
  <2>6. new = channel
    BY <1>6, RememberChannel
  <2> HIDE DEF p, out, new
  <2>7. Announced(p)
    <3> SUFFICES ASSUME NEW i \in DOMAIN p, NEW j \in DOMAIN p, i < j,
                        p[i].cmd = "VALUE", p[j].cmd = "VALUE",
                        p[i].channel # p[j].channel
                 PROVE  \E k \in DOMAIN p :
                           i < k /\ k < j /\ Announces(p[k], p[j].channel)
      BY DEF Announced
    <3>1. i \in DOMAIN q /\ p[i] = q[i]
      BY <1>3, <1>4, <2>3
    <3>2. CASE j \in DOMAIN q
      <4>1. PICK k \in DOMAIN q : i < k /\ k < j /\ Announces(q[k], q[j].channel)
        BY <1>4, <3>1, <3>2 DEF Announced
      <4> QED
        BY <1>4, <3>2, <4>1
    <3>3. CASE j \notin DOMAIN q
      <4>1. j = Len(q) + 1
        BY <1>3, <2>3, <3>3
      <4>2. PICK k \in DOMAIN q : i < k /\ Announces(q[k], m.current_channel)
        BY <1>6, <2>5, <3>1, <4>1 DEF UpToDate
      <4> QED
        BY <1>3, <1>4, <1>6, <2>5, <4>1, <4>2
    <3> QED
      BY <3>2, <3>3
  <2>8. UpToDate(p, new)
    <3> SUFFICES ASSUME NEW i \in DOMAIN p, p[i].cmd = "VALUE", p[i].channel # new
                 PROVE  \E k \in DOMAIN p : i < k /\ Announces(p[k], new)
      BY DEF UpToDate
    <3>1. i \in DOMAIN q /\ p[i] = q[i]
      BY <1>3, <1>4, <2>3, <2>5, <2>6
    <3>2. PICK k \in DOMAIN q : i < k /\ Announces(q[k], new)
      BY <1>6, <2>6, <3>1 DEF UpToDate
    <3> QED
      BY <1>4, <3>2
  <2> QED
    BY <2>7, <2>8 DEF p, out, new
<1>7. CASE ~PortChanged(channel, m) /\ channel # m.current_channel
  <2>1. out = << >>
    BY <1>7 DEF Publications
  <2>2. p = q
    BY <2>1, ConcatEmptySeq
  <2>3. new = m.current_channel
    BY <1>7, RememberChannel
  <2> QED
    BY <2>2, <2>3
<1> QED
  BY <1>5, <1>6, <1>7

-----------------------------------------------------------------------------
\* The readings of a channel in a queue.

\* What holds of zero and passes from each number to the next holds up to n:
\* else there is a least number for which it does not.
LEMMA InductionUpTo ==
    ASSUME NEW n \in Nat, NEW T, 0 \in T,
           \A i \in 0 .. n - 1 : i \in T => i + 1 \in T
    PROVE  \A i \in 0 .. n : i \in T
<1> DEFINE U == {i \in 0 .. n : i \notin T}
<1>1. SUFFICES ASSUME U # {} PROVE FALSE
  OBVIOUS
<1>2. IsWellFoundedOn(OpToRel(<, Nat), Nat)
  BY NatLessThanWellFounded
<1>3. U \subseteq Nat
  OBVIOUS
<1>4. PICK k \in U : \A j \in U : ~(<<j, k>> \in OpToRel(<, Nat))
  <2> HIDE DEF U
  <2> QED
    BY <1>1, <1>2, <1>3, WFMin
<1>5. \A j \in U : ~(j < k)
  BY <1>3, <1>4 DEF OpToRel
<1>6. k # 0
  OBVIOUS
<1>7. k - 1 \in 0 .. n - 1 /\ k - 1 \notin U
  BY <1>5, <1>6
<1> QED
  BY <1>7

\* The body of the recursion in ReadingsUpTo.
Taken(r, q, i, channel) ==
    IF i = 0 THEN << >>
    ELSE IF IsValueOf(q[i], channel) THEN Append(r[i - 1], q[i].value) ELSE r[i - 1]

\* The recursion of ReadingsUpTo has a solution.
LEMMA ReadingsUpToDef ==
    ASSUME NEW q \in Seq(Message), NEW channel
    PROVE  ReadingsUpTo(q, channel) =
              [i \in 0 .. Len(q) |-> Taken(ReadingsUpTo(q, channel), q, i, channel)]
<1> DEFINE Solves(f, n) == f = [i \in 0 .. n |-> Taken(f, q, i, channel)]
           T == {n \in 0 .. Len(q) : \E f : Solves(f, n)}
<1>0. Len(q) \in Nat
  BY LenProperties
<1>1. 0 \in T
  <2>1. Solves([i \in 0 .. 0 |-> << >>], 0)
    BY DEF Taken
  <2> QED
    BY <1>0, <2>1
<1>2. ASSUME NEW n \in 0 .. Len(q) - 1, n \in T
      PROVE  n + 1 \in T
  <2>1. PICK f : Solves(f, n)
    BY <1>2
  <2> DEFINE g == [i \in 0 .. n + 1 |->
                      IF i <= n THEN f[i] ELSE Taken(f, q, n + 1, channel)]
  <2>2. ASSUME NEW i \in 0 .. n + 1 PROVE g[i] = Taken(g, q, i, channel)
    <3>1. i # 0 => i - 1 \in 0 .. n /\ i - 1 <= n /\ i - 1 \in 0 .. n + 1
      BY <1>0
    <3>2. i # 0 => g[i - 1] = f[i - 1]
      BY <3>1
    <3>3. Taken(g, q, i, channel) = Taken(f, q, i, channel)
      BY <3>2 DEF Taken
    <3>4. i <= n => f[i] = Taken(f, q, i, channel)
      BY <1>0, <2>1
    <3>5. ~(i <= n) => i = n + 1
      BY <1>0
    <3> QED
      BY <3>3, <3>4, <3>5
  <2>3. Solves(g, n + 1)
    BY <2>2
  <2>4. n + 1 \in 0 .. Len(q)
    BY <1>0
  <2> QED
    BY <2>3, <2>4
<1>3. Len(q) \in T
  <2> HIDE DEF T
  <2>1. \A i \in 0 .. Len(q) : i \in T
    BY <1>0, <1>1, <1>2, InductionUpTo
  <2> QED
    BY <1>0, <2>1
<1>4. \E f : Solves(f, Len(q))
  BY <1>3
<1>5. ReadingsUpTo(q, channel) = CHOOSE f : Solves(f, Len(q))
  BY DEF ReadingsUpTo, Taken
<1> QED
  BY <1>4, <1>5

\* ... which is what the definition says from one message to the next.
LEMMA ReadingsUpToStep ==
    ASSUME NEW q \in Seq(Message), NEW channel
    PROVE  /\ ReadingsUpTo(q, channel)[0] = << >>
           /\ \A i \in 0 .. Len(q) - 1 :
                 ReadingsUpTo(q, channel)[i + 1] =
                     IF IsValueOf(q[i + 1], channel)
                     THEN Append(ReadingsUpTo(q, channel)[i], q[i + 1].value)
                     ELSE ReadingsUpTo(q, channel)[i]
<1> DEFINE r == ReadingsUpTo(q, channel)
<1>1. r = [i \in 0 .. Len(q) |-> Taken(r, q, i, channel)]
  BY ReadingsUpToDef
<1>2. Len(q) \in Nat
  BY LenProperties
<1> HIDE DEF r
<1>3. r[0] = Taken(r, q, 0, channel)
  BY <1>1, <1>2
<1>4. ASSUME NEW i \in 0 .. Len(q) - 1
      PROVE  r[i + 1] = IF IsValueOf(q[i + 1], channel)
                        THEN Append(r[i], q[i + 1].value) ELSE r[i]
  <2>1. i + 1 \in 0 .. Len(q) /\ i + 1 # 0 /\ (i + 1) - 1 = i
    BY <1>2
  <2>2. r[i + 1] = Taken(r, q, i + 1, channel)
    BY <1>1, <2>1
  <2> QED
    BY <2>1, <2>2 DEF Taken
<1> QED
  BY <1>3, <1>4 DEF Taken, r

\* The readings in a queue are readings.
LEMMA ReadingsType ==
    ASSUME NEW q \in Seq(Message), NEW channel
    PROVE  \A i \in 0 .. Len(q) : ReadingsUpTo(q, channel)[i] \in Seq(Values)
<1> DEFINE r == ReadingsUpTo(q, channel)
           T == {i \in 0 .. Len(q) : r[i] \in Seq(Values)}
<1>0. Len(q) \in Nat
  BY LenProperties
<1>1. 0 \in T
  <2>1. << >> \in Seq(Values)
    BY EmptySeq
  <2>2. r[0] \in Seq(Values)
    BY <2>1, ReadingsUpToStep, Zenon
  <2> HIDE DEF r
  <2> QED
    BY <1>0, <2>2
<1>2. ASSUME NEW i \in 0 .. Len(q) - 1, i \in T
      PROVE  i + 1 \in T
  <2>1. i + 1 \in 1 .. Len(q) /\ i + 1 \in 0 .. Len(q)
    BY <1>0
  <2>2. q[i + 1] \in Message
    BY <2>1, ElementOfSeq
  <2>3. IsValueOf(q[i + 1], channel) => q[i + 1].value \in Values
    BY <2>2 DEF IsValueOf, Message, ChangeMessage, ValueMessage
  <2>4. r[i] \in Seq(Values)
    BY <1>2
  <2>5. r[i + 1] = IF IsValueOf(q[i + 1], channel)
                   THEN Append(r[i], q[i + 1].value) ELSE r[i]
    BY ReadingsUpToStep
  <2> HIDE DEF r
  <2>6. r[i + 1] \in Seq(Values)
    BY <2>3, <2>4, <2>5, AppendProperties
  <2> QED
    BY <2>1, <2>6
<1>3. \A i \in 0 .. Len(q) : i \in T
  <2> HIDE DEF T
  <2> QED
    BY <1>0, <1>1, <1>2, InductionUpTo
<1> QED
  BY <1>3

\* The readings of a queue's beginning do not depend on the rest.
LEMMA ReadingsOfPrefix ==
    ASSUME NEW q \in Seq(Message), NEW p \in Seq(Message), NEW channel,
           Len(q) <= Len(p), \A i \in 1 .. Len(q) : p[i] = q[i]
    PROVE  ReadingsUpTo(p, channel)[Len(q)] = ReadingsOf(q, channel)
<1> DEFINE r == ReadingsUpTo(q, channel)
           s == ReadingsUpTo(p, channel)
           T == {i \in 0 .. Len(q) : r[i] = s[i]}
<1>0. Len(q) \in Nat /\ Len(p) \in Nat
  BY LenProperties
<1>1. 0 \in T
  BY <1>0, ReadingsUpToStep
<1>2. ASSUME NEW i \in 0 .. Len(q) - 1, i \in T
      PROVE  i + 1 \in T
  <2>1. i + 1 \in 1 .. Len(q) /\ i + 1 \in 0 .. Len(q) /\ i \in 0 .. Len(p) - 1
    BY <1>0
  <2>2. p[i + 1] = q[i + 1] /\ r[i] = s[i]
    BY <1>2, <2>1
  <2>3. r[i + 1] = IF IsValueOf(q[i + 1], channel)
                   THEN Append(r[i], q[i + 1].value) ELSE r[i]
    BY ReadingsUpToStep
  <2>4. s[i + 1] = IF IsValueOf(p[i + 1], channel)
                   THEN Append(s[i], p[i + 1].value) ELSE s[i]
    BY <2>1, ReadingsUpToStep
  <2> HIDE DEF r, s
  <2> QED
    BY <2>1, <2>2, <2>3, <2>4
<1>3. \A i \in 0 .. Len(q) : i \in T
  <2> HIDE DEF T
  <2> QED
    BY <1>0, <1>1, <1>2, InductionUpTo
<1> QED
  BY <1>0, <1>3 DEF ReadingsOf

\* Messages that are no readings of the channel can be dropped from the head.
LEMMA ReadingsOfSuffix ==
    ASSUME NEW q \in Seq(Message), NEW channel, NEW k \in 0 .. Len(q),
           \A i \in 1 .. k : ~IsValueOf(q[i], channel)
    PROVE  ReadingsOf(SubSeq(q, k + 1, Len(q)), channel) = ReadingsOf(q, channel)
<1> DEFINE p == SubSeq(q, k + 1, Len(q))
           r == ReadingsUpTo(q, channel)
           s == ReadingsUpTo(p, channel)
           T == {i \in 0 .. k : r[i] = << >>}
           U == {i \in 0 .. Len(q) - k : r[i + k] = s[i]}
<1>0. /\ Len(q) \in Nat /\ k \in Nat /\ Len(q) - k \in Nat
      /\ p \in Seq(Message) /\ Len(p) = Len(q) - k
      /\ \A i \in 1 .. Len(q) - k : p[i] = q[i + k]
  BY LenProperties, SuffixProperties
<1> HIDE DEF p
<1>1. 0 \in T
  BY <1>0, ReadingsUpToStep
<1>2. ASSUME NEW i \in 0 .. k - 1, i \in T
      PROVE  i + 1 \in T
  <2>1. i + 1 \in 1 .. k /\ i + 1 \in 0 .. k /\ i \in 0 .. Len(q) - 1
    BY <1>0
  <2>2. r[i + 1] = IF IsValueOf(q[i + 1], channel)
                   THEN Append(r[i], q[i + 1].value) ELSE r[i]
    BY <2>1, ReadingsUpToStep
  <2> HIDE DEF r
  <2> QED
    BY <1>2, <2>1, <2>2
<1>3. \A i \in 0 .. k : i \in T
  <2> HIDE DEF T
  <2> QED
    BY <1>0, <1>1, <1>2, InductionUpTo
<1>4. r[k] = << >>
  BY <1>0, <1>3
<1>5. 0 \in U
  BY <1>0, <1>4, ReadingsUpToStep
<1>6. ASSUME NEW i \in 0 .. (Len(q) - k) - 1, i \in U
      PROVE  i + 1 \in U
  <2>1. /\ i + 1 \in 1 .. Len(q) - k /\ i + 1 \in 0 .. Len(q) - k
        /\ i + k \in 0 .. Len(q) - 1 /\ i \in 0 .. Len(p) - 1
        /\ (i + 1) + k = (i + k) + 1
    BY <1>0
  <2>2. r[(i + k) + 1] = IF IsValueOf(q[(i + k) + 1], channel)
                         THEN Append(r[i + k], q[(i + k) + 1].value) ELSE r[i + k]
    BY <2>1, ReadingsUpToStep
  <2>3. s[i + 1] = IF IsValueOf(p[i + 1], channel)
                   THEN Append(s[i], p[i + 1].value) ELSE s[i]
    BY <1>0, <2>1, ReadingsUpToStep
  <2>4. p[i + 1] = q[(i + k) + 1] /\ r[i + k] = s[i]
    BY <1>0, <1>6, <2>1
  <2> HIDE DEF r, s
  <2> QED
    BY <2>1, <2>2, <2>3, <2>4
<1>7. \A i \in 0 .. Len(q) - k : i \in U
  <2> HIDE DEF U
  <2> QED
    BY <1>0, <1>5, <1>6, InductionUpTo
<1>8. Len(q) - k \in U /\ (Len(q) - k) + k = Len(q)
  BY <1>0, <1>7
<1> QED
  BY <1>0, <1>8 DEF ReadingsOf, p

\* A reading of the channel at the head comes first.
LEMMA ReadingsOfTail ==
    ASSUME NEW q \in Seq(Message), NEW channel, q # << >>,
           IsValueOf(Head(q), channel)
    PROVE  /\ ReadingsOf(q, channel) # << >>
           /\ Head(ReadingsOf(q, channel)) = Head(q).value
           /\ Tail(ReadingsOf(q, channel)) = ReadingsOf(Tail(q), channel)
<1> DEFINE p == Tail(q)
           v == Head(q).value
           r == ReadingsUpTo(q, channel)
           s == ReadingsUpTo(p, channel)
           T == {i \in 0 .. Len(p) :
                    r[i + 1] # << >> /\ Head(r[i + 1]) = v /\ Tail(r[i + 1]) = s[i]}
<1>0. /\ Len(q) \in Nat /\ Len(p) \in Nat /\ Len(q) = Len(p) + 1
      /\ p \in Seq(Message)
      /\ \A i \in 1 .. Len(p) : p[i] = q[i + 1]
      /\ Head(q) = q[1]
  BY LenProperties, HeadTailProperties, EmptySeq
<1>1. r[1] = <<v>>
  <2>1. 0 \in 0 .. Len(q) - 1 /\ 0 + 1 = 1
    BY <1>0
  <2>2. r[0] = << >>
    BY ReadingsUpToStep
  <2>3. r[0 + 1] = IF IsValueOf(q[0 + 1], channel)
                   THEN Append(r[0], q[0 + 1].value) ELSE r[0]
    BY <2>1, ReadingsUpToStep
  <2>4. r[1] = Append(<< >>, v)
    BY <1>0, <2>1, <2>2, <2>3
  <2> HIDE DEF r
  <2> QED
    BY <2>4
<1> HIDE DEF p
<1>2. 0 \in T
  <2>1. s[0] = << >>
    BY <1>0, ReadingsUpToStep
  <2> HIDE DEF r, s, v
  <2>2. <<v>> # << >> /\ Head(<<v>>) = v /\ Tail(<<v>>) = << >>
    OBVIOUS
  <2>3. 0 \in 0 .. Len(p) /\ r[0 + 1] = <<v>>
    BY <1>0, <1>1
  <2> QED
    BY <2>1, <2>2, <2>3
<1>3. ASSUME NEW i \in 0 .. Len(p) - 1, i \in T
      PROVE  i + 1 \in T
  <2>1. /\ i + 1 \in 1 .. Len(p) /\ i + 1 \in 0 .. Len(p)
        /\ i + 1 \in 0 .. Len(q) - 1 /\ i + 1 \in 0 .. Len(q)
    BY <1>0
  <2>2. r[(i + 1) + 1] = IF IsValueOf(q[(i + 1) + 1], channel)
                         THEN Append(r[i + 1], q[(i + 1) + 1].value) ELSE r[i + 1]
    BY <2>1, ReadingsUpToStep
  <2>3. s[i + 1] = IF IsValueOf(p[i + 1], channel)
                   THEN Append(s[i], p[i + 1].value) ELSE s[i]
    BY <1>0, ReadingsUpToStep
  <2>4. p[i + 1] = q[(i + 1) + 1]
    BY <1>0, <2>1
  <2>5. r[i + 1] # << >> /\ Head(r[i + 1]) = v /\ Tail(r[i + 1]) = s[i]
    BY <1>3
  <2>6. r[i + 1] \in Seq(Values)
    BY <2>1, ReadingsType
  <2> HIDE DEF r, s, v
  <2>7. ASSUME NEW w
        PROVE  /\ Append(r[i + 1], w) # << >>
               /\ Head(Append(r[i + 1], w)) = v
               /\ Tail(Append(r[i + 1], w)) = Append(s[i], w)
    <3>1. r[i + 1] \in Seq(Values \union {w}) /\ w \in Values \union {w}
      BY <2>6, SeqMonotonic
    <3>2. Append(r[i + 1], w) # << >>
      BY <3>1, AppendProperties
    <3> QED
      BY <2>5, <2>6, <3>2, HeadTailAppend
  <2> QED
    BY <2>1, <2>2, <2>3, <2>4, <2>5, <2>7
<1>4. \A i \in 0 .. Len(p) : i \in T
  <2> HIDE DEF T
  <2> QED
    BY <1>0, <1>2, <1>3, InductionUpTo
<1>5. Len(p) \in T
  BY <1>0, <1>4
<1> QED
  BY <1>0, <1>5 DEF ReadingsOf, p
=============================================================================
