-------------------------- MODULE RuidaCodecProofs --------------------------
(***************************************************************************)
(* Theorems about streams of bytes, for every alphabet: the StreamDecoder  *)
(* and the codec its frames go through.                                    *)
(*                                                                         *)
(* The first part is about StreamDecoder: the chunks do not show in the    *)
(* records, and no byte is lost or repeated.  It argues about sets of      *)
(* positions.  A step adds to the positions at which the stream is cut     *)
(* those of the new input, shifted to its place in the stream, and the     *)
(* frames between neighbours follow.                                       *)
(*                                                                         *)
(* The second part is about RuidaCodec: what each encoding undoes of each  *)
(* decoding, from bits and digits over fields and commands to frames and   *)
(* datagrams.  A recursive function of the codec is the only run of its    *)
(* step (Joinings and JoiningIs, FrameRuns and FrameRunIs), and what holds *)
(* of a run is shown along its positions (Recursion, Along).               *)
(***************************************************************************)
EXTENDS StreamDecoder, RuidaCodec, SequenceTheorems, FiniteSetTheorems,
        WellFoundedInduction, TLAPS

-----------------------------------------------------------------------------
(* Sets of positions.                                                      *)

\* A set of positions has a last one.
LEMMA LastOf ==
  ASSUME NEW n \in Nat, NEW T, T \subseteq 0..n, T # {}
  PROVE  \E x \in T : \A y \in T : y <= x
<1> DEFINE above(c) == {k \in T : k > c}
           family == {above(c) : c \in T}
<1>1. IsFiniteSet(T)
  <2>1. IsFiniteSet(0..n)
    BY 0 \in Int, n \in Int, FS_Interval
  <2>2. T \in SUBSET (0..n)
    OBVIOUS
  <2> QED
    BY <2>1, <2>2, FS_Subset
<1>2. family \subseteq FiniteSubsetsOf(T) /\ family # {}
  <2>1. ASSUME NEW c \in T PROVE above(c) \in FiniteSubsetsOf(T)
    <3>1. above(c) \in SUBSET T
      OBVIOUS
    <3> HIDE DEF above
    <3>2. IsFiniteSet(above(c))
      BY <1>1, <3>1, FS_Subset
    <3> QED
      BY <3>1, <3>2 DEF FiniteSubsetsOf
  <2> HIDE DEF above
  <2> QED
    BY <2>1
<1>3. \E u \in family : \A v \in family : <<v, u>> \notin StrictSubsetOrdering(T)
  BY <1>2, FS_StrictSubsetOrderingWellFounded, WFMin
<1>4. PICK x \in T :
        \A y \in T : <<above(y), above(x)>> \notin StrictSubsetOrdering(T)
  BY <1>3
<1>5. ASSUME NEW y \in T, y > x
      PROVE  FALSE
  <2>1. \A k \in T : k > y => k > x
    BY <1>5
  <2>2. /\ above(y) \subseteq above(x)
        /\ above(x) \in SUBSET T /\ above(y) \in SUBSET T
    BY <2>1
  <2>3. y \in above(x) /\ y \notin above(y)
    BY <1>5
  <2> HIDE DEF above
  <2> QED
    BY <1>4, <2>2, <2>3 DEF StrictSubsetOrdering
<1> QED
  BY <1>5

\* And a first one.
LEMMA FirstOf ==
  ASSUME NEW n \in Nat, NEW T, T \subseteq 0..n, T # {}
  PROVE  \E x \in T : \A y \in T : x <= y
<1> DEFINE U == {n - c : c \in T}
<1>1. U \subseteq 0..n /\ U # {}
  <2>1. \A c \in T : n - c \in 0..n
    OBVIOUS
  <2> QED
    BY <2>1
<1>2. PICK u \in U : \A v \in U : v <= u
  <2> HIDE DEF U
  <2> QED
    BY <1>1, LastOf
<1>3. PICK x \in T : u = n - x
  OBVIOUS
<1>4. ASSUME NEW y \in T
      PROVE  x <= y
  <2>1. n - y <= n - x
    BY <1>2, <1>3
  <2> QED
    BY <2>1
<1> QED
  BY <1>4

\* Consumed is the last of its positions.
LEMMA ConsumedIsLast ==
  ASSUME NEW n \in Nat, NEW cuts, cuts \subseteq 0..n, cuts # {}
  PROVE  /\ Consumed(cuts) \in cuts
         /\ \A c \in cuts : c <= Consumed(cuts)
BY LastOf DEF Consumed

\* The positions and frames of a part that begins at o.
Moved(o, C) == {o + c : c \in C}
MovedFrames(o, F) == {<<o + f[1], o + f[2]>> : f \in F}

\* Frames of two sets of positions that meet in o.
LEMMA FramesMeet ==
  ASSUME NEW o \in Nat,
         NEW A, A \subseteq 0..o, o \in A,
         NEW C, C \subseteq Nat, 0 \in C
  PROVE  Frames(A \cup Moved(o, C)) = Frames(A) \cup MovedFrames(o, Frames(C))
<1> USE DEF Moved, MovedFrames
<1> DEFINE B == A \cup {o + c : c \in C}
<1>1. ASSUME NEW f \in Frames(B)
      PROVE  f \in Frames(A) \cup {<<o + g[1], o + g[2]>> : g \in Frames(C)}
  <2>1. /\ f[1] \in B /\ f[2] \in B /\ f = <<f[1], f[2]>> /\ f[1] < f[2]
        /\ ~\E c \in B : f[1] < c /\ c < f[2]
    BY <1>1 DEF Frames
  <2>2. CASE f[2] <= o
    <3>1. f[1] \in A /\ f[2] \in A
      BY <2>1, <2>2
    <3> QED
      BY <2>1, <3>1 DEF Frames
  <2>3. CASE f[2] > o
    <3>1. f[1] >= o
      BY <2>1, <2>3
    <3>2. PICK c \in C, d \in C : f[1] = o + c /\ f[2] = o + d
      BY <2>1, <2>3, <3>1
    <3>3. c < d /\ ~\E e \in C : c < e /\ e < d
      BY <2>1, <3>2
    <3>4. <<c, d>> \in Frames(C)
      BY <3>3 DEF Frames
    <3> QED
      BY <2>1, <3>2, <3>4
  <2> QED
    BY <2>1, <2>2, <2>3
<1>2. ASSUME NEW f \in Frames(A)
      PROVE  f \in Frames(B)
  <2>1. /\ f[1] \in A /\ f[2] \in A /\ f = <<f[1], f[2]>> /\ f[1] < f[2]
        /\ ~\E c \in A : f[1] < c /\ c < f[2]
    BY <1>2 DEF Frames
  <2>2. ~\E c \in B : f[1] < c /\ c < f[2]
    BY <2>1
  <2> QED
    BY <2>1, <2>2 DEF Frames
<1>3. ASSUME NEW g \in Frames(C)
      PROVE  <<o + g[1], o + g[2]>> \in Frames(B)
  <2>5. /\ g[1] \in C /\ g[2] \in C /\ g = <<g[1], g[2]>> /\ g[1] < g[2]
        /\ ~\E e \in C : g[1] < e /\ e < g[2]
    BY <1>3 DEF Frames
  <2>1. PICK c \in C, d \in C : g = <<c, d>> /\ c < d /\ ~\E e \in C : c < e /\ e < d
    BY <2>5
  <2>2. c \in Nat /\ d \in Nat /\ o + c < o + d /\ o + c >= o
    BY <2>1
  <2>3. ASSUME NEW b \in B, o + c < b, b < o + d
        PROVE  FALSE
    <3>1. b \notin A
      BY <2>2, <2>3
    <3>2. PICK e \in C : b = o + e
      BY <3>1
    <3>3. c < e /\ e < d
      BY <2>2, <2>3, <3>2
    <3> QED
      BY <2>1, <3>3
  <2>4. <<o + c, o + d>> \in Frames(B)
    BY <2>1, <2>2, <2>3 DEF Frames
  <2> QED
    BY <2>1, <2>4
<1> QED
  BY <1>1, <1>2, <1>3

-----------------------------------------------------------------------------
(* One feed.                                                               *)

\* What every state satisfies.
DecoderInv ==
  TypeOK /\ BufferIsTheRest /\ ChunkingInvisible /\ ends \subseteq 0..offset

\* The part of a sequence between two positions.
LEMMA Part ==
  ASSUME NEW s \in Seq(Byte), NEW a \in Nat, NEW b \in Nat, a <= b, b <= Len(s)
  PROVE  /\ SubSeq(s, a + 1, b) \in Seq(Byte)
         /\ Len(SubSeq(s, a + 1, b)) = b - a
         /\ \A i \in 1..(b - a) : SubSeq(s, a + 1, b)[i] = s[a + i]
<1> DEFINE m == a + 1
<1>1. m \in Int /\ b \in Int /\ Len(s) \in Nat
  BY LenProperties
<1>2. \A i \in m..b : s[i] \in Byte
  BY <1>1, ElementOfSeq
<1>3. b - m + 1 = b - a /\ (m <= b <=> a # b) /\ \A i \in Nat : m + i - 1 = a + i
  OBVIOUS
<1> HIDE DEF m
<1>4. /\ SubSeq(s, m, b) \in Seq(Byte)
      /\ Len(SubSeq(s, m, b)) = IF m <= b THEN b - m + 1 ELSE 0
      /\ \A i \in 1..(b - m + 1) : SubSeq(s, m, b)[i] = s[m + i - 1]
  BY <1>1, <1>2, SubSeqProperties
<1>5. Len(SubSeq(s, m, b)) = b - a
  BY <1>3, <1>4
<1>6. \A i \in 1..(b - a) : SubSeq(s, m, b)[i] = s[a + i]
  BY <1>3, <1>4
<1> QED
  BY <1>4, <1>5, <1>6 DEF m

\* Two sequences joined.
LEMMA Joined ==
  ASSUME NEW s \in Seq(Byte), NEW t \in Seq(Byte)
  PROVE  /\ s \o t \in Seq(Byte) /\ Len(s \o t) = Len(s) + Len(t)
         /\ \A i \in 1..Len(s) : (s \o t)[i] = s[i]
         /\ \A i \in 1..Len(t) : (s \o t)[Len(s) + i] = t[i]
<1> DEFINE st == s \o t
           m == Len(s)
           n == Len(t)
<1>1. m \in Nat /\ n \in Nat
  BY LenProperties
<1>2. /\ st \in Seq(Byte) /\ Len(st) = m + n
      /\ \A i \in 1..(m + n) : st[i] = IF i <= m THEN s[i] ELSE t[i - m]
  BY ConcatProperties
<1> HIDE DEF st, m, n
<1>3. \A i \in 1..m : i \in 1..(m + n) /\ i <= m
  BY <1>1
<1>4. \A i \in 1..m : st[i] = s[i]
  BY <1>2, <1>3
<1>5. ASSUME NEW k \in 1..n
      PROVE  st[m + k] = t[k]
  <2> DEFINE j == m + k
  <2>1. j \in 1..(m + n) /\ ~(j <= m) /\ j - m = k
    BY <1>1
  <2> HIDE DEF j
  <2>2. st[j] = t[j - m]
    BY <1>2, <2>1
  <2>3. st[j] = t[k]
    BY <2>1, <2>2
  <2> QED
    BY <2>3 DEF j
<1> QED
  BY <1>2, <1>4, <1>5 DEF st, m, n

\* The new input is the part of the longer stream that follows the position of
\* the buffer.
LEMMA NewInput ==
  ASSUME DecoderInv, NEW data \in Seq(Byte)
  PROVE  LET whole == stream \o data
             bytes == buffer \o data
         IN  /\ whole \in Seq(Byte) /\ bytes \in Seq(Byte)
             /\ Len(whole) \in Nat /\ Len(bytes) \in Nat
             /\ offset \in Nat /\ Len(buffer) \in Nat
             /\ Len(whole) = offset + Len(bytes)
             /\ Len(bytes) >= Len(buffer)
             /\ offset + Len(buffer) = Len(stream)
             /\ \A i \in 1..Len(bytes) : bytes[i] = whole[offset + i]
             /\ \A i \in 1..Len(buffer) : bytes[i] = buffer[i]
             /\ \A i \in 1..Len(stream) : whole[i] = stream[i]
<1> DEFINE whole == stream \o data
           bytes == buffer \o data
           B == Len(buffer)
           D == Len(data)
<1>1. /\ stream \in Seq(Byte) /\ buffer \in Seq(Byte) /\ offset \in Nat
      /\ Len(stream) \in Nat /\ B \in Nat /\ D \in Nat
      /\ offset <= Len(stream)
      /\ buffer = SubSeq(stream, offset + 1, Len(stream))
  BY LenProperties DEF DecoderInv, TypeOK, BufferIsTheRest
<1>2. B = Len(stream) - offset
  BY <1>1, Part
<1>3. Len(stream) = offset + B
  BY <1>1, <1>2
<1>4. \A i \in 1..B : buffer[i] = stream[offset + i]
  BY <1>1, <1>2, Part
<1>5. /\ whole \in Seq(Byte) /\ bytes \in Seq(Byte)
      /\ Len(whole) = Len(stream) + D /\ Len(bytes) = B + D
      /\ \A i \in 1..Len(stream) : whole[i] = stream[i]
      /\ \A i \in 1..D : whole[Len(stream) + i] = data[i]
      /\ \A i \in 1..B : bytes[i] = buffer[i]
      /\ \A i \in 1..D : bytes[B + i] = data[i]
  BY <1>1, Joined
<1> HIDE DEF whole, bytes, B, D
<1>6. ASSUME NEW i \in 1..(B + D)
      PROVE  bytes[i] = whole[offset + i]
  <2>1. CASE i <= B
    <3>1. offset + i \in 1..Len(stream) /\ i \in 1..B
      BY <1>1, <1>3, <2>1
    <3> QED
      BY <1>4, <1>5, <3>1
  <2>2. CASE i > B
    <3>1. PICK k \in 1..D : i = B + k
      BY <1>1, <2>2
    <3>2. offset + i = Len(stream) + k
      BY <1>1, <1>3, <3>1
    <3> QED
      BY <1>5, <3>1, <3>2
  <2> QED
    BY <1>1, <2>1, <2>2
<1>7. /\ Len(whole) = offset + Len(bytes) /\ Len(bytes) >= B
      /\ Len(whole) \in Nat /\ Len(bytes) \in Nat
  BY <1>1, <1>3, <1>5
<1> QED
  BY <1>1, <1>3, <1>5, <1>6, <1>7 DEF whole, bytes, B

\* A part of the new input is the same part of the stream.
LEMMA SamePart ==
  ASSUME DecoderInv, NEW data \in Seq(Byte),
         NEW c \in Nat, NEW d \in Nat, c <= d, d <= Len(buffer \o data)
  PROVE  SubSeq(buffer \o data, c + 1, d)
           = SubSeq(stream \o data, offset + c + 1, offset + d)
<1> DEFINE whole == stream \o data
           bytes == buffer \o data
           p == SubSeq(bytes, c + 1, d)
           q == SubSeq(whole, offset + c + 1, offset + d)
<1>1. /\ whole \in Seq(Byte) /\ bytes \in Seq(Byte) /\ offset \in Nat
      /\ Len(whole) = offset + Len(bytes)
      /\ \A i \in 1..Len(bytes) : bytes[i] = whole[offset + i]
      /\ Len(bytes) \in Nat /\ d <= Len(bytes)
  BY NewInput
<1> HIDE DEF whole, bytes
<1>2. /\ p \in Seq(Byte) /\ Len(p) = d - c
      /\ \A i \in 1..(d - c) : p[i] = bytes[c + i]
  BY <1>1, Part
<1>3. /\ q \in Seq(Byte) /\ Len(q) = offset + d - (offset + c)
      /\ \A i \in 1..(offset + d - (offset + c)) : q[i] = whole[offset + c + i]
  <2>1. /\ offset + c \in Nat /\ offset + d \in Nat
        /\ offset + c <= offset + d /\ offset + d <= Len(whole)
    BY <1>1
  <2> QED
    BY <1>1, <2>1, Part
<1>4. offset + d - (offset + c) = d - c
  BY <1>1
<1>5. ASSUME NEW i \in 1..(d - c)
      PROVE  p[i] = q[i]
  <2>1. c + i \in 1..Len(bytes) /\ offset + (c + i) = offset + c + i
    BY <1>1
  <2> QED
    BY <1>1, <1>2, <1>3, <1>4, <2>1
<1>6. p = q
  <2> HIDE DEF p, q
  <2> QED
    BY <1>2, <1>3, <1>4, <1>5, SeqEqual
<1> QED
  BY <1>6 DEF whole, bytes

\* The positions at which feed() cuts its input.
Cuts(data, final) == {0} \cup Boundaries(buffer \o data, final)

\* They are all the command starts of the input, those already in the buffer
\* included, and its end when it is final.
LEMMA CutsAreStarts ==
  ASSUME DecoderInv, NEW data \in Seq(Byte), NEW final \in BOOLEAN,
         Len(buffer \o data) >= 1
  PROVE  LET bytes == buffer \o data
             cuts  == Cuts(data, final)
         IN  /\ cuts \subseteq 0..Len(bytes) /\ 0 \in cuts
             /\ \A i \in 1..(Len(bytes) - 1) :
                  IsStart(bytes, i) => i \in cuts
             /\ \A i \in cuts :
                  \/ i = 0
                  \/ i \in 1..(Len(bytes) - 1) /\ IsStart(bytes, i)
                  \/ final /\ i = Len(bytes)
             /\ final => Len(bytes) \in cuts
             /\ Consumed(cuts) \in cuts
             /\ \A i \in cuts : i <= Consumed(cuts)
<1> DEFINE bytes == buffer \o data
           n == Len(bytes)
           cuts == Cuts(data, final)
<1>1. /\ n \in Nat /\ n >= 1
      /\ \A i \in 1..Len(buffer) : bytes[i] = buffer[i]
      /\ Len(buffer) \in Nat /\ n >= Len(buffer)
  BY NewInput
<1>2. /\ scanIndex = Len(buffer)
      /\ \A i \in 1..(Len(buffer) - 1) : ~IsStart(buffer, i)
  BY DEF DecoderInv, BufferIsTheRest
<1>3. cuts = {0} \cup {i \in 1..(n - 1) : i >= Len(buffer) /\ IsStart(bytes, i)}
               \cup (IF final THEN {n} ELSE {})
  BY <1>2 DEF Cuts, Boundaries
<1> HIDE DEF bytes, n, cuts
<1>4. ASSUME NEW i \in 1..(n - 1), IsStart(bytes, i)
      PROVE  i \in cuts
  <2>1. CASE i >= Len(buffer)
    BY <1>3, <1>4, <2>1
  <2>2. CASE i < Len(buffer)
    <3>1. i \in 1..(Len(buffer) - 1) /\ i + 1 \in 1..Len(buffer)
      BY <1>1, <2>2
    <3>2. IsStart(buffer, i)
      BY <1>1, <1>4, <3>1 DEF IsStart
    <3> QED
      BY <1>2, <3>1, <3>2
  <2> QED
    BY <1>1, <2>1, <2>2
<1>5. cuts \subseteq 0..n /\ 0 \in cuts
  BY <1>1, <1>3
<1>6. Consumed(cuts) \in cuts /\ \A i \in cuts : i <= Consumed(cuts)
  BY <1>1, <1>5, ConsumedIsLast
<1>7. final => n \in cuts
  BY <1>3
<1>8. ASSUME NEW i \in cuts
      PROVE  \/ i = 0
             \/ i \in 1..(n - 1) /\ IsStart(bytes, i)
             \/ final /\ i = n
  BY <1>3
<1> QED
  BY <1>4, <1>5, <1>6, <1>7, <1>8 DEF bytes, n, cuts

\* The cuts of the longer stream, up to the new position of the buffer, are
\* those there were and those of the input, moved to its place.
LEMMA CutsMeet ==
  ASSUME DecoderInv, NEW data \in Seq(Byte), NEW final \in BOOLEAN,
         Len(buffer \o data) >= 1,
         NEW es, es = IF final THEN ends \cup {offset + Consumed(Cuts(data, final))}
                               ELSE ends
  PROVE  LET whole == stream \o data
             cuts  == Cuts(data, final)
         IN  {c \in {0} \cup {i \in 1..(Len(whole) - 1) : IsStart(whole, i)} \cup es :
                c <= offset + Consumed(cuts)}
             = {c \in StreamCuts : c <= offset} \cup {offset + c : c \in cuts}
<1> DEFINE whole == stream \o data
           bytes == buffer \o data
           n == Len(bytes)
           W == Len(whole)
           S == Len(stream)
           cuts == Cuts(data, final)
           done == Consumed(cuts)
           later == {0} \cup {i \in 1..(W - 1) : IsStart(whole, i)} \cup es
<1>1. /\ n \in Nat /\ n >= 1 /\ offset \in Nat /\ S \in Nat
      /\ W = offset + n /\ offset <= S /\ S <= W
      /\ \A i \in 1..n : bytes[i] = whole[offset + i]
      /\ \A i \in 1..S : whole[i] = stream[i]
  <2>1. S \in Nat /\ offset <= S
    BY LenProperties DEF DecoderInv, TypeOK, BufferIsTheRest
  <2>2. /\ n \in Nat /\ offset \in Nat /\ W = offset + n
        /\ n >= Len(buffer) /\ offset + Len(buffer) = S /\ Len(buffer) \in Nat
        /\ \A i \in 1..n : bytes[i] = whole[offset + i]
        /\ \A i \in 1..S : whole[i] = stream[i]
    BY NewInput
  <2> HIDE DEF whole, bytes, n, W, S
  <2>3. S <= W
    BY <2>1, <2>2
  <2>4. n >= 1
    BY DEF n, bytes
  <2> QED
    BY <2>1, <2>2, <2>3, <2>4
<1>2. /\ cuts \subseteq 0..n /\ 0 \in cuts
      /\ \A i \in 1..(n - 1) : IsStart(bytes, i) => i \in cuts
      /\ \A i \in cuts : \/ i = 0
                         \/ i \in 1..(n - 1) /\ IsStart(bytes, i)
                         \/ final /\ i = n
      /\ final => n \in cuts
      /\ done \in cuts /\ \A i \in cuts : i <= done
  BY CutsAreStarts
<1>3. /\ StreamCuts = {0} \cup {i \in 1..(S - 1) : IsStart(stream, i)} \cup ends
      /\ offset \in StreamCuts /\ ends \subseteq 0..offset
  BY DEF StreamCuts, DecoderInv, ChunkingInvisible
<1>4. es = IF final THEN ends \cup {offset + done} ELSE ends
  OBVIOUS
<1> HIDE DEF whole, bytes, n, W, S, cuts, done
<1>5. done \in 0..n /\ (final => done = n)
  BY <1>1, <1>2
<1>6. ASSUME NEW c \in later, c <= offset + done
      PROVE  c \in {k \in StreamCuts : k <= offset} \cup {offset + k : k \in cuts}
  <2>1. CASE c = 0
    BY <1>1, <1>3, <2>1
  <2>2. CASE c \in es
    <3>1. CASE c \in ends
      BY <1>1, <1>3, <3>1
    <3>2. CASE final /\ c = offset + done
      BY <1>2, <3>2
    <3> QED
      BY <1>4, <2>2, <3>1, <3>2
  <2>3. CASE c \in 1..(W - 1) /\ IsStart(whole, c)
    <3>1. CASE c < offset
      <4>1. c \in 1..(S - 1) /\ c + 1 \in 1..S
        BY <1>1, <2>3, <3>1
      <4>2. IsStart(stream, c)
        BY <1>1, <2>3, <4>1 DEF IsStart
      <4> QED
        BY <1>1, <1>3, <3>1, <4>1, <4>2
    <3>2. CASE c = offset
      BY <1>1, <1>3, <3>2
    <3>3. CASE c > offset
      <4>1. PICK k \in 1..(n - 1) : c = offset + k
        <5>1. c - offset \in 1..(n - 1) /\ c = offset + (c - offset)
          BY <1>1, <2>3, <3>3
        <5> QED
          BY <5>1
      <4>2. k + 1 \in 1..n /\ offset + (k + 1) = c + 1
        BY <1>1, <4>1
      <4>3. IsStart(bytes, k)
        BY <1>1, <2>3, <4>2 DEF IsStart
      <4> QED
        BY <1>2, <4>1, <4>3
    <3> QED
      BY <1>1, <2>3, <3>1, <3>2, <3>3
  <2> QED
    BY <2>1, <2>2, <2>3
<1>7. ASSUME NEW c \in StreamCuts, c <= offset
      PROVE  c \in later /\ c <= offset + done
  <2>1. c \in 0..offset
    BY <1>1, <1>3, <1>7
  <2>2. c <= offset + done
    BY <1>1, <1>5, <2>1
  <2>3. CASE c = 0
    BY <2>2, <2>3
  <2>4. CASE c \in ends
    BY <1>4, <2>2, <2>4
  <2>5. CASE c \in 1..(S - 1) /\ IsStart(stream, c)
    <3>1. c \in 1..(W - 1) /\ c + 1 \in 1..S
      BY <1>1, <2>5
    <3>2. IsStart(whole, c)
      BY <1>1, <2>5, <3>1 DEF IsStart
    <3> QED
      BY <2>2, <3>1, <3>2
  <2> QED
    BY <1>3, <2>3, <2>4, <2>5
<1>8. ASSUME NEW k \in cuts
      PROVE  offset + k \in later /\ offset + k <= offset + done
  <2>1. k \in 0..n /\ k <= done
    BY <1>2
  <2>2. offset + k <= offset + done
    BY <1>1, <1>5, <2>1
  <2>3. CASE k = 0
    <3>1. offset + k = offset /\ offset <= offset
      BY <1>1, <2>3
    <3> QED
      BY <1>3, <1>7, <2>2, <3>1
  <2>4. CASE final /\ k = n
    BY <1>4, <1>5, <2>2, <2>4
  <2>5. CASE k \in 1..(n - 1) /\ IsStart(bytes, k)
    <3>1. /\ offset + k \in 1..(W - 1)
          /\ k + 1 \in 1..n /\ offset + (k + 1) = offset + k + 1
      BY <1>1, <2>5
    <3>2. IsStart(whole, offset + k)
      BY <1>1, <2>5, <3>1 DEF IsStart
    <3> QED
      BY <2>2, <3>1, <3>2
  <2> QED
    BY <1>2, <2>3, <2>4, <2>5
<1> HIDE DEF later
<1>9. {c \in later : c <= offset + done}
        = {c \in StreamCuts : c <= offset} \cup {offset + k : k \in cuts}
  BY <1>6, <1>7, <1>8
<1> QED
  BY <1>9 DEF later, whole, W, cuts, done

\* The frames already emitted are the same parts of the longer stream.
LEMMA EarlierPart ==
  ASSUME NEW s \in Seq(Byte), NEW t \in Seq(Byte),
         NEW a \in Nat, NEW b \in Nat, a <= b, b <= Len(s)
  PROVE  SubSeq(s \o t, a + 1, b) = SubSeq(s, a + 1, b)
<1> DEFINE st == s \o t
           p == SubSeq(st, a + 1, b)
           q == SubSeq(s, a + 1, b)
<1>1. /\ Len(s) \in Nat /\ Len(t) \in Nat
      /\ st \in Seq(Byte) /\ Len(st) = Len(s) + Len(t)
      /\ \A i \in 1..Len(s) : st[i] = s[i]
  BY Joined, LenProperties
<1> HIDE DEF st
<1>2. b <= Len(st)
  BY <1>1
<1>3. /\ p \in Seq(Byte) /\ Len(p) = b - a
      /\ \A i \in 1..(b - a) : p[i] = st[a + i]
  BY <1>1, <1>2, Part
<1>4. /\ q \in Seq(Byte) /\ Len(q) = b - a
      /\ \A i \in 1..(b - a) : q[i] = s[a + i]
  BY Part
<1>5. \A i \in 1..(b - a) : a + i \in 1..Len(s)
  BY <1>1
<1> HIDE DEF p, q
<1>6. \A i \in 1..(b - a) : p[i] = q[i]
  BY <1>1, <1>3, <1>4, <1>5
<1>7. p = q
  BY <1>3, <1>4, <1>6, SeqEqual
<1> QED
  BY <1>7 DEF p, q, st

\* A record of a part of a sequence is a record.
LEMMA DecodedIsRecord ==
  ASSUME NEW o \in Nat, NEW raw \in Seq(Byte)
  PROVE  Decoded(o, raw) \in Record
BY DEF Decoded, Record

\* The frames of a set of positions are pairs of its positions.
LEMMA FramesArePairs ==
  ASSUME NEW n \in Nat, NEW T, T \subseteq 0..n, NEW f \in Frames(T)
  PROVE  /\ f[1] \in Nat /\ f[2] \in Nat /\ f[1] \in T /\ f[2] \in T
         /\ f[1] < f[2] /\ f[2] <= n
<1>1. f[1] \in T /\ f[2] \in T /\ f[1] < f[2]
  BY DEF Frames
<1>2. \A c \in T : c \in Nat /\ c <= n
  OBVIOUS
<1> QED
  BY <1>1, <1>2

\* A step that changes nothing keeps the invariant.
LEMMA Unchanged ==
  ASSUME DecoderInv, UNCHANGED vars
  PROVE  DecoderInv'
BY ZenonT(40) DEF vars, DecoderInv, TypeOK, BufferIsTheRest, ChunkingInvisible,
       StreamCuts, StreamRecords, Decoded, Frames, IsStart

\* Feeding nothing to an empty buffer changes nothing.
LEMMA FeedNothing ==
  ASSUME DecoderInv, NEW data \in Seq(Byte), NEW final \in BOOLEAN,
         Feed(data, final), buffer \o data = <<>>
  PROVE  DecoderInv'
<1>1. data = <<>>
  <2>1. Len(buffer \o data) = Len(buffer) + Len(data)
    BY ConcatProperties DEF DecoderInv, TypeOK
  <2>2. Len(<<>>) = 0 /\ Len(buffer) \in Nat /\ Len(data) \in Nat
    BY LenProperties DEF DecoderInv, TypeOK
  <2>3. Len(data) = 0
    BY <2>1, <2>2
  <2> QED
    BY <2>3, EmptySeq
<1>2. stream \o data = stream
  BY <1>1, ConcatEmptySeq DEF DecoderInv, TypeOK
<1>3. UNCHANGED vars
  BY <1>2 DEF Feed, vars
<1> QED
  BY <1>3, Unchanged

\* A feed with input keeps the invariant.
LEMMA FeedSomething ==
  ASSUME DecoderInv, NEW data \in Seq(Byte), NEW final \in BOOLEAN,
         Feed(data, final), buffer \o data # <<>>
  PROVE  DecoderInv'
<1> DEFINE whole == stream \o data
           bytes == buffer \o data
           n == Len(bytes)
           cuts == Cuts(data, final)
           done == Consumed(cuts)
           before == {c \in StreamCuts : c <= offset}
           new == {Decoded(offset + f[1], SubSeq(bytes, f[1] + 1, f[2])) :
                     f \in Frames(cuts)}
<1>1. /\ stream' = whole
      /\ records' = records \cup new
      /\ issues' = issues \cup {r.offset : r \in {x \in new : ~x.known}}
      /\ buffer' = SubSeq(bytes, done + 1, n)
      /\ offset' = offset + done
      /\ scanIndex' = n - done
      /\ ends' = IF final THEN ends \cup {offset + done} ELSE ends
  BY DEF Feed, Cuts, Scanned
<1>2. /\ whole \in Seq(Byte) /\ bytes \in Seq(Byte)
      /\ Len(whole) \in Nat /\ n \in Nat /\ offset \in Nat
      /\ Len(whole) = offset + n
  BY NewInput
<1>3. n >= 1
  <2>1. n # 0
    BY <1>2, EmptySeq
  <2> HIDE DEF n
  <2> QED
    BY <1>2, <2>1
<1>4. /\ cuts \subseteq 0..n /\ 0 \in cuts
      /\ \A i \in 1..(n - 1) : IsStart(bytes, i) => i \in cuts
      /\ \A i \in cuts : \/ i = 0
                         \/ i \in 1..(n - 1) /\ IsStart(bytes, i)
                         \/ final /\ i = n
      /\ final => n \in cuts
      /\ done \in cuts /\ \A i \in cuts : i <= done
  BY <1>3, CutsAreStarts
<1>5. {c \in StreamCuts' : c <= offset'} = before \cup {offset + c : c \in cuts}
  <2>1. StreamCuts'
          = {0} \cup {i \in 1..(Len(whole) - 1) : IsStart(whole, i)} \cup ends'
    BY <1>1 DEF StreamCuts, IsStart
  <2> QED
    BY ZenonT(40), <1>1, <1>3, <2>1, CutsMeet
<1>6. /\ TypeOK /\ offset \in StreamCuts /\ records = StreamRecords
      /\ ends \subseteq 0..offset
  BY DEF DecoderInv, ChunkingInvisible
<1>7. /\ stream \in Seq(Byte) /\ Len(stream) \in Nat /\ offset <= Len(stream)
  BY LenProperties DEF DecoderInv, TypeOK, BufferIsTheRest
<1>8. before \subseteq 0..offset /\ offset \in before
  <2>1. \A c \in StreamCuts : c \in Nat
    BY <1>6, <1>7 DEF StreamCuts
  <2>2. \A c \in before : c \in StreamCuts /\ c <= offset
    OBVIOUS
  <2>3. offset <= offset
    BY <1>2
  <2>4. offset \in before
    BY <1>6, <2>3
  <2> HIDE DEF before
  <2>5. \A c \in before : c \in 0..offset
    BY <1>2, <2>1, <2>2
  <2> QED
    BY <2>4, <2>5
<1> HIDE DEF cuts, done
<1>9. done \in Nat /\ done <= n
  <2> HIDE DEF n
  <2> QED
    BY <1>2, <1>4
<1>10. buffer' = SubSeq(stream', offset' + 1, Len(stream'))
  <2>1. n <= n /\ offset + done + 1 = offset' + 1 /\ Len(stream') = offset + n
    <3> HIDE DEF n, whole, bytes
    <3> QED
      BY <1>1, <1>2, <1>9
  <2>2. SubSeq(bytes, done + 1, n) = SubSeq(whole, offset + done + 1, offset + n)
    BY <1>2, <1>9, <2>1, SamePart
  <2> HIDE DEF n, whole, bytes
  <2> QED
    BY <1>1, <2>1, <2>2
<1>11. /\ buffer' \in Seq(Byte) /\ Len(buffer') = n - done
       /\ \A i \in 1..(n - done) : buffer'[i] = bytes[done + i]
  <2>1. n <= Len(bytes)
    BY <1>2
  <2> HIDE DEF n, bytes
  <2> QED
    BY <1>1, <1>2, <1>9, <2>1, Part
<1>12. TypeOK'
  <2>1. \A r \in new : r \in Record
    <3>1. ASSUME NEW f \in Frames(cuts)
          PROVE  Decoded(offset + f[1], SubSeq(bytes, f[1] + 1, f[2])) \in Record
      <4>1. /\ f[1] \in Nat /\ f[2] \in Nat /\ f[1] < f[2] /\ f[2] <= n
        BY <1>2, <1>4, <3>1, FramesArePairs
      <4>2. f[1] <= f[2] /\ offset + f[1] \in Nat
        BY <1>2, <4>1
      <4>3. SubSeq(bytes, f[1] + 1, f[2]) \in Seq(Byte)
        BY <1>2, <4>1, <4>2, Part
      <4> QED
        BY <4>2, <4>3, DecodedIsRecord
    <3> QED
      BY <3>1
  <2>2. \A r \in new : r.offset \in Nat
    BY <2>1 DEF Record
  <2> HIDE DEF new, n, whole, bytes
  <2>3. \A r \in records' : r \in Record
    BY <1>1, <1>6, <2>1 DEF TypeOK
  <2>4. issues' \subseteq Nat
    BY <1>1, <1>6, <2>2 DEF TypeOK
  <2>5. offset' \in Nat /\ scanIndex' \in Nat
    BY <1>1, <1>2, <1>9
  <2>6. ends' \subseteq Nat
    BY <1>1, <1>6, <2>5 DEF TypeOK
  <2>7. stream' \in Seq(Byte)
    BY <1>1, <1>2
  <2> QED
    BY <1>11, <2>3, <2>4, <2>5, <2>6, <2>7 DEF TypeOK
<1>13. BufferIsTheRest'
  <2>1. ASSUME NEW i \in 1..(Len(buffer') - 1), IsStart(buffer', i)
        PROVE  FALSE
    <3> HIDE DEF n, whole, bytes
    <3>1. /\ i + 1 \in 1..(n - done) /\ done + i \in 1..(n - 1)
          /\ done + (i + 1) = done + i + 1 /\ ~(done + i <= done)
      BY <1>2, <1>9, <1>11
    <3>2. IsStart(bytes, done + i)
      BY <1>11, <2>1, <3>1 DEF IsStart
    <3> QED
      BY <1>4, <3>1, <3>2
  <2>2. offset' <= Len(stream')
    <3> HIDE DEF n, whole, bytes
    <3> QED
      BY <1>1, <1>2, <1>9
  <2>3. scanIndex' = Len(buffer')
    BY <1>1, <1>11
  <2> QED
    BY <1>10, <2>1, <2>2, <2>3 DEF BufferIsTheRest, IsStart
<1>14. records' = StreamRecords'
  <2> DEFINE old(f) == Decoded(f[1], SubSeq(whole, f[1] + 1, f[2]))
             moved(f) == <<offset + f[1], offset + f[2]>>
             fresh(f) == Decoded(offset + f[1], SubSeq(bytes, f[1] + 1, f[2]))
  <2>1. StreamRecords' = {old(f) : f \in Frames({c \in StreamCuts' : c <= offset'})}
    BY <1>1 DEF StreamRecords, Frames, Decoded
  <2>2. Frames({c \in StreamCuts' : c <= offset'})
          = Frames(before) \cup {moved(f) : f \in Frames(cuts)}
    <3> HIDE DEF before, n, whole, bytes
    <3>1. cuts \subseteq Nat /\ 0 \in cuts /\ offset \in Nat
      BY <1>2, <1>4
    <3>2. Frames(before \cup Moved(offset, cuts))
            = Frames(before) \cup MovedFrames(offset, Frames(cuts))
      BY <1>8, <3>1, FramesMeet
    <3> QED
      BY <1>5, <3>2 DEF Moved, MovedFrames
  <2>3. \A f \in Frames(before) :
          old(f) = Decoded(f[1], SubSeq(stream, f[1] + 1, f[2]))
    <3>1. ASSUME NEW f \in Frames(before)
          PROVE  SubSeq(whole, f[1] + 1, f[2]) = SubSeq(stream, f[1] + 1, f[2])
      <4>1. f[1] \in Nat /\ f[2] \in Nat /\ f[1] < f[2] /\ f[2] <= offset
        <5> HIDE DEF before
        <5> QED
          BY <1>2, <1>8, <3>1, FramesArePairs
      <4>2. f[1] <= f[2] /\ f[2] <= Len(stream)
        BY <1>2, <1>7, <4>1
      <4> QED
        BY <1>7, <4>1, <4>2, EarlierPart
    <3> QED
      BY <3>1
  <2>4. \A f \in Frames(cuts) : old(moved(f)) = fresh(f)
    <3>1. ASSUME NEW f \in Frames(cuts)
          PROVE  SubSeq(whole, offset + f[1] + 1, offset + f[2])
                   = SubSeq(bytes, f[1] + 1, f[2])
      <4>1. /\ f[1] \in Nat /\ f[2] \in Nat /\ f[1] < f[2] /\ f[2] <= n
        BY <1>2, <1>4, <3>1, FramesArePairs
      <4>2. f[1] <= f[2]
        BY <4>1
      <4> QED
        BY <4>1, <4>2, SamePart
    <3> QED
      BY <3>1
  <2>5. records = {old(f) : f \in Frames(before)}
    BY <1>6, <2>3 DEF StreamRecords
  <2>6. new = {old(g) : g \in {moved(f) : f \in Frames(cuts)}}
    <3>1. new = {fresh(f) : f \in Frames(cuts)}
      OBVIOUS
    <3>2. {old(g) : g \in {moved(f) : f \in Frames(cuts)}}
            = {old(moved(f)) : f \in Frames(cuts)}
      <4> HIDE DEF old, moved
      <4> QED
        OBVIOUS
    <3> HIDE DEF old, moved, fresh, new
    <3> QED
      BY <2>4, <3>1, <3>2
  <2> HIDE DEF old, moved, fresh, new, before
  <2> QED
    BY <1>1, <2>1, <2>2, <2>5, <2>6
<1>15. offset' \in StreamCuts'
  <2>1. offset' \in {c \in StreamCuts' : c <= offset'}
    BY <1>1, <1>4, <1>5
  <2> QED
    BY <2>1
<1>16. (ends \subseteq 0..offset)'
  <2>1. \A e \in 0..offset : e \in 0..(offset + done)
    BY <1>2, <1>9
  <2>2. offset + done \in 0..(offset + done)
    BY <1>2, <1>9
  <2> QED
    BY <1>1, <1>6, <2>1, <2>2
<1> QED
  BY <1>12, <1>13, <1>14, <1>15, <1>16 DEF DecoderInv, ChunkingInvisible

\* The first state satisfies it.
LEMMA InitDecoder == Init => DecoderInv
<1> SUFFICES ASSUME Init
             PROVE  DecoderInv
  OBVIOUS
<1>1. TypeOK
  <2>1. <<>> \in Seq(Byte)
    BY EmptySeq
  <2> QED
    BY <2>1 DEF Init, TypeOK
<1>2. Len(<<>>) = 0 /\ SubSeq(<<>>, 1, 0) = <<>>
  <2>1. <<>> \in Seq(Byte)
    BY EmptySeq
  <2>2. Len(<<>>) = 0
    BY EmptySeq
  <2>3. SubSeq(<<>>, 1, 0) \in Seq(Byte) /\ Len(SubSeq(<<>>, 0 + 1, 0)) = 0 - 0
    BY <2>1, <2>2, Part
  <2> QED
    BY <2>2, <2>3, EmptySeq
<1>3. BufferIsTheRest
  BY <1>2 DEF Init, BufferIsTheRest
<1>4. StreamCuts = {0}
  BY <1>2 DEF Init, StreamCuts
<1>5. ChunkingInvisible
  <2>1. {c \in {0} : c <= 0} = {0}
    OBVIOUS
  <2>2. Frames({0}) = {}
    BY DEF Frames
  <2> QED
    BY <1>4, <2>1, <2>2 DEF Init, ChunkingInvisible, StreamRecords
<1> QED
  BY <1>1, <1>3, <1>5 DEF DecoderInv, Init

\* A step keeps it.
LEMMA NextDecoder == DecoderInv /\ [Next]_vars => DecoderInv'
<1> SUFFICES ASSUME DecoderInv, [Next]_vars
             PROVE  DecoderInv'
  OBVIOUS
<1>1. CASE UNCHANGED vars
  BY <1>1, Unchanged
<1>2. ASSUME NEW data \in Chunk, NEW final \in BOOLEAN, Feed(data, final)
      PROVE  DecoderInv'
  <2>1. data \in Seq(Byte)
    <3>1. PICK n \in 0..MaxChunk : data \in [1..n -> Byte]
      BY DEF Chunk
    <3>2. n \in Nat
      BY LimitsAssumption
    <3> QED
      BY <3>1, <3>2, SeqDef
  <2> QED
    BY <1>2, <2>1, FeedNothing, FeedSomething
<1> QED
  BY <1>1, <1>2 DEF Next

\* And so every reachable one.
LEMMA DecoderInvariant == Spec => []DecoderInv
BY InitDecoder, NextDecoder, PTL DEF Spec

-----------------------------------------------------------------------------
(* The theorems.                                                           *)

\* Every variable of the decoder keeps its type, whatever the chunks.
THEOREM DecoderTypeCorrect == Spec => []TypeOK
BY DecoderInvariant, PTL DEF DecoderInv

\* The decoder always holds exactly the bytes it has not emitted, and the part
\* it will skip at the next feed() holds no command start.
THEOREM BufferHoldsTheRest == Spec => []BufferIsTheRest
BY DecoderInvariant, PTL DEF DecoderInv

\* For every alphabet, every stream and every way to cut it into chunks, feed()
\* has returned the records logical_frames() gives for the whole stream.
THEOREM ChunksDoNotShow == Spec => []ChunkingInvisible
BY DecoderInvariant, PTL DEF DecoderInv

\* The record of a frame holds the bytes between its ends.
LEMMA RecordOfFrame ==
  ASSUME DecoderInv, NEW g \in Frames({c \in StreamCuts : c <= offset}),
         NEW q, q = Decoded(g[1], SubSeq(stream, g[1] + 1, g[2]))
  PROVE  /\ g[1] \in StreamCuts /\ g[2] \in StreamCuts
         /\ g[1] \in Nat /\ g[2] \in Nat /\ g[1] < g[2] /\ g[2] <= offset
         /\ ~\E c \in StreamCuts : c <= offset /\ g[1] < c /\ c < g[2]
         /\ q.offset = g[1] /\ q.offset + Len(q.raw) = g[2]
         /\ \A i \in 1..(g[2] - g[1]) : q.raw[i] = stream[g[1] + i]
<1>1. /\ stream \in Seq(Byte) /\ Len(stream) \in Nat
      /\ offset \in Nat /\ offset <= Len(stream)
  BY LenProperties DEF DecoderInv, TypeOK, BufferIsTheRest
<1>2. \A c \in StreamCuts : c \in Nat
  BY <1>1 DEF StreamCuts, DecoderInv, TypeOK
<1>3. /\ g[1] \in StreamCuts /\ g[2] \in StreamCuts
      /\ g[1] < g[2] /\ g[2] <= offset
      /\ ~\E c \in StreamCuts : c <= offset /\ g[1] < c /\ c < g[2]
  BY DEF Frames
<1>4. g[1] \in Nat /\ g[2] \in Nat
  BY <1>2, <1>3
<1>5. g[1] <= g[2] /\ g[2] <= Len(stream)
  BY <1>1, <1>3, <1>4
<1>6. /\ Len(SubSeq(stream, g[1] + 1, g[2])) = g[2] - g[1]
      /\ \A i \in 1..(g[2] - g[1]) :
           SubSeq(stream, g[1] + 1, g[2])[i] = stream[g[1] + i]
  BY SMTT(40), <1>1, <1>4, <1>5, Part
<1>7. q.offset = g[1] /\ q.raw = SubSeq(stream, g[1] + 1, g[2])
  BY DEF Decoded
<1>8. q.offset + Len(q.raw) = g[2]
  <2>1. q.offset + Len(q.raw) = g[1] + (g[2] - g[1])
    BY <1>6, <1>7
  <2>2. \A x, y \in Nat : x + (y - x) = y
    OBVIOUS
  <2> QED
    BY <1>4, <2>1, <2>2
<1> QED
  BY <1>3, <1>4, <1>6, <1>7, <1>8

\* No byte before the buffer is lost, and none is in two records.
LEMMA ByteInOneRecord == DecoderInv => EveryByteOnce
<1> SUFFICES ASSUME DecoderInv, NEW p \in 0..(offset - 1)
             PROVE  \E r \in records :
                      /\ r.offset <= p /\ p < r.offset + Len(r.raw)
                      /\ r.raw[p - r.offset + 1] = stream[p + 1]
                      /\ \A q \in records :
                           (q.offset <= p /\ p < q.offset + Len(q.raw)) => q = r
  BY DEF EveryByteOnce
<1> DEFINE A == {c \in StreamCuts : c <= offset}
           record(g) == Decoded(g[1], SubSeq(stream, g[1] + 1, g[2]))
<1>1. /\ Len(stream) \in Nat /\ offset \in Nat /\ p \in Nat /\ p < offset
      /\ ends \subseteq 0..offset /\ offset \in StreamCuts
      /\ records = {record(g) : g \in Frames(A)}
  BY LenProperties
     DEF DecoderInv, TypeOK, ChunkingInvisible, StreamRecords
<1>2. \A c \in StreamCuts : c \in Nat
  BY <1>1 DEF StreamCuts
<1>3. 0 \in A /\ offset \in A /\ A \subseteq 0..offset
  <2>1. 0 \in StreamCuts
    BY DEF StreamCuts
  <2>2. \A c \in A : c \in Nat /\ c <= offset
    BY <1>2
  <2>3. 0 \in A /\ offset \in A
    BY <1>1, <2>1
  <2> HIDE DEF A
  <2> QED
    BY <1>1, <2>2, <2>3
<1>4. \A c \in StreamCuts : c <= offset => c \in A
  OBVIOUS
<1>5. \A g \in Frames(A) :
        /\ g[1] \in A /\ g[2] \in A /\ g = <<g[1], g[2]>>
        /\ ~\E c \in A : g[1] < c /\ c < g[2]
  BY DEF Frames
<1>6. \A g \in Frames(A) :
        /\ g[1] \in Nat /\ g[2] \in Nat /\ g[1] < g[2] /\ g[2] <= offset
        /\ record(g).offset = g[1]
        /\ record(g).offset + Len(record(g).raw) = g[2]
        /\ \A i \in 1..(g[2] - g[1]) : record(g).raw[i] = stream[g[1] + i]
  BY RecordOfFrame
<1> HIDE DEF A, record
<1>7. PICK a \in A : a <= p /\ \A c \in A : c <= p => c <= a
  <2> DEFINE low == {c \in A : c <= p}
  <2>1. low \subseteq 0..offset /\ low # {}
    <3>1. 0 \in low
      BY <1>1, <1>3
    <3> QED
      BY <1>3, <3>1
  <2>2. \E a \in low : \A c \in low : c <= a
    <3> HIDE DEF low
    <3> QED
      BY <1>1, <2>1, LastOf
  <2> QED
    BY <2>2
<1>8. PICK b \in A : b > p /\ \A c \in A : c > p => b <= c
  <2> DEFINE high == {c \in A : c > p}
  <2>1. high \subseteq 0..offset /\ high # {}
    BY <1>1, <1>3
  <2>2. \E b \in high : \A c \in high : b <= c
    <3> HIDE DEF high
    <3> QED
      BY <1>1, <2>1, FirstOf
  <2> QED
    BY <2>2
<1> DEFINE f == <<a, b>>
<1>9. a \in Nat /\ b \in Nat /\ a < b
  BY <1>1, <1>3, <1>7, <1>8
<1>10. f \in Frames(A)
  <2>1. ASSUME NEW c \in A, a < c, c < b
        PROVE  FALSE
    <3>1. c \in Nat
      BY <1>1, <1>3, <2>1
    <3> QED
      BY <1>1, <1>7, <1>8, <1>9, <2>1, <3>1
  <2> QED
    BY <1>9, <2>1 DEF Frames
<1>11. record(f).offset <= p /\ p < record(f).offset + Len(record(f).raw)
  BY <1>6, <1>7, <1>8, <1>10
<1>12. record(f).raw[p - record(f).offset + 1] = stream[p + 1]
  <2>1. record(f).offset = a
    BY <1>6, <1>10
  <2>2. /\ p - a + 1 \in 1..(b - a) /\ a + (p - a + 1) = p + 1
    BY <1>1, <1>7, <1>8, <1>9
  <2>3. \A i \in 1..(b - a) : record(f).raw[i] = stream[a + i]
    BY <1>6, <1>10
  <2>4. record(f).raw[p - a + 1] = stream[a + (p - a + 1)]
    BY <2>2, <2>3
  <2> QED
    BY <2>1, <2>2, <2>4
<1>13. ASSUME NEW q \in records, q.offset <= p, p < q.offset + Len(q.raw)
       PROVE  q = record(f)
  <2>1. PICK g \in Frames(A) : q = record(g)
    BY <1>1
  <2>2. /\ g[1] \in Nat /\ g[2] \in Nat /\ g[1] \in A /\ g[2] \in A
        /\ g = <<g[1], g[2]>>
        /\ g[1] <= p /\ p < g[2]
        /\ ~\E c \in A : g[1] < c /\ c < g[2]
    BY <1>5, <1>6, <1>13, <2>1
  <2>3. g[1] <= a /\ b <= g[2]
    BY <1>7, <1>8, <2>2
  <2>4. a < g[2] /\ g[1] < b
    BY <1>1, <1>7, <1>8, <1>9, <2>2
  <2>5. ~(g[1] < a) /\ ~(b < g[2])
    BY <2>2, <2>4
  <2>6. g[1] = a /\ g[2] = b
    BY <1>9, <2>2, <2>3, <2>5
  <2> QED
    BY <2>1, <2>2, <2>6
<1>14. record(f) \in records
  BY <1>1, <1>10
<1> QED
  BY <1>11, <1>12, <1>13, <1>14

\* For every alphabet, stream and chunking: each byte up to the buffer is in
\* exactly one record, at its own place.
THEOREM NoByteLostOrRepeated == Spec => []EveryByteOnce
BY DecoderInvariant, ByteInOneRecord, PTL

-----------------------------------------------------------------------------
(* Recursion over positions.                                               *)

\* Induction over the naturals, stated for the set of those it holds of.
LEMMA Inductive ==
  ASSUME NEW T, 0 \in T, \A n \in Nat : n \in T => n + 1 \in T
  PROVE  Nat \subseteq T
<1> DEFINE R == OpToRel(<, Nat)
           U == Nat \ T
<1> SUFFICES ASSUME U # {} PROVE FALSE
  OBVIOUS
<1>1. IsWellFoundedOn(R, Nat)
  BY NatLessThanWellFounded
<1>2. \E x \in U : \A y \in U : ~ (<<y, x>> \in R)
  <2> HIDE DEF R
  <2>1. U \subseteq Nat
    OBVIOUS
  <2> HIDE DEF U
  <2> QED
    BY <1>1, <2>1, WFMin
<1>3. PICK x \in U : \A y \in U : ~ (<<y, x>> \in R)
  BY <1>2
<1>4. \A y \in U : ~(y < x)
  BY <1>3 DEF OpToRel
<1>5. x # 0
  OBVIOUS
<1>6. x - 1 \in Nat /\ x - 1 < x
  BY <1>5
<1>7. x - 1 \in T
  BY <1>4, <1>6
<1> QED
  BY <1>6, <1>7

\* Induction along an interval.
LEMMA Along ==
  ASSUME NEW n \in Nat, NEW T, 0 \in T, \A k \in 1..n : k - 1 \in T => k \in T
  PROVE  \A k \in 0..n : k \in T
<1> DEFINE U == {k \in Nat : k <= n => k \in T}
<1>1. 0 \in U
  OBVIOUS
<1>2. ASSUME NEW k \in Nat, k \in U PROVE k + 1 \in U
  <2>1. CASE k + 1 <= n
    <3>1. k + 1 \in 1..n /\ (k + 1) - 1 = k /\ k \in T
      BY <1>2, <2>1
    <3> QED
      BY <3>1
  <2>2. CASE ~(k + 1 <= n)
    BY <2>2
  <2> QED
    BY <2>1, <2>2
<1>3. Nat \subseteq U
  <2> HIDE DEF U
  <2> QED
    BY <1>1, <1>2, Inductive
<1> QED
  BY <1>3

\* What the steps compute from b, position by position.
Computes(f, S, b, n, step) ==
  /\ f \in [0..n -> S] /\ f[0] = b
  /\ \A k \in 1..n : f[k] = step[k][f[k - 1]]

\* No step leaves the set of values.
Stays(S, n, step) == \A k \in 1..n : \A s \in S : step[k][s] \in S

\* If each step stays in a set of values, there is what they compute.
LEMMA Recursion ==
  ASSUME NEW S, NEW b \in S, NEW n \in Nat, NEW step, Stays(S, n, step)
  PROVE  \E f : Computes(f, S, b, n, step)
<1> USE DEF Computes, Stays
<1> DEFINE IsRun(f, m) == /\ f \in [0..m -> S] /\ f[0] = b
                          /\ \A k \in 1..m : f[k] = step[k][f[k - 1]]
           T == {m \in 0..n : \E f : IsRun(f, m)}
<1>1. 0 \in T
  <2>1. IsRun([k \in 0..0 |-> b], 0) /\ 0 \in 0..n
    OBVIOUS
  <2> HIDE DEF IsRun
  <2> QED
    BY <2>1
<1>2. ASSUME NEW m \in 1..n, m - 1 \in T PROVE m \in T
  <2>1. PICK f : IsRun(f, m - 1)
    BY <1>2
  <2> DEFINE g == [k \in 0..m |-> IF k = m THEN step[m][f[m - 1]] ELSE f[k]]
  <2>2. /\ m - 1 \in 0..(m - 1) /\ m \in Nat
        /\ \A k \in 0..m : k # m => k \in 0..(m - 1)
        /\ \A k \in 1..m : k - 1 \in 0..m /\ k - 1 # m
        /\ \A k \in 1..m : k # m => k \in 1..(m - 1)
    OBVIOUS
  <2>3. g \in [0..m -> S]
    BY <2>1, <2>2
  <2>4. g[0] = b
    BY <2>1, <2>2
  <2>5. ASSUME NEW k \in 1..m PROVE g[k] = step[k][g[k - 1]]
    <3>1. g[k - 1] = f[k - 1]
      BY <2>2
    <3>2. CASE k = m
      BY <3>1, <3>2
    <3>3. CASE k # m
      <4>1. g[k] = f[k] /\ f[k] = step[k][f[k - 1]]
        BY <2>1, <2>2, <3>3
      <4> QED
        BY <3>1, <4>1
    <3> QED
      BY <3>2, <3>3
  <2> HIDE DEF g
  <2>6. IsRun(g, m)
    BY <2>3, <2>4, <2>5
  <2> HIDE DEF IsRun
  <2> QED
    BY <2>6
<1>3. n \in T
  <2> HIDE DEF T
  <2>1. \A k \in 0..n : k \in T
    BY <1>1, <1>2, Along
  <2> QED
    BY <2>1
<1> QED
  BY <1>3

-----------------------------------------------------------------------------
(* Powers of the base, and digits.                                         *)

\* Division by a positive number.
LEMMA Division ==
  ASSUME NEW a \in Int, NEW n \in Nat \ {0},
         NEW q, q = a \div n, NEW r, r = a % n
  PROVE  /\ q \in Int /\ r \in 0..(n - 1) /\ a = n * q + r
         /\ a \in Nat => q \in Nat
<1>1. q \in Int /\ r \in 0..(n - 1) /\ a = n * q + r
  OBVIOUS
<1>2. ASSUME a \in Nat, q < 0 PROVE FALSE
  <2>1. n * q <= -n
    BY <1>1, <1>2
  <2> QED
    BY <1>1, <1>2, <2>1
<1> QED
  BY <1>1, <1>2

\* The quotient and the remainder are the only ones.
LEMMA DivisionIs ==
  ASSUME NEW a \in Int, NEW n \in Nat \ {0}, NEW q \in Int, NEW r \in 0..(n - 1),
         a = n * q + r
  PROVE  a \div n = q /\ a % n = r
OBVIOUS

\* Power multiplies.
LEMMA PowerRuns ==
  ASSUME NEW width \in Nat
  PROVE  \E run \in [0..width -> Nat \ {0}] :
           /\ run[0] = 1 /\ Power(width) = run[width]
           /\ \A k \in 1..width : run[k] = Base * run[k - 1]
<1> DEFINE S == Nat \ {0}
           step == [k \in 1..width |-> [s \in S |-> Base * s]]
           IsRun(f) == f = [k \in 0..width |-> IF k = 0 THEN 1 ELSE Base * f[k - 1]]
<1>1. \A k \in 1..width : \A s \in S : step[k][s] = Base * s /\ step[k][s] \in S
  BY CodecAssumption
<1>2. PICK f \in [0..width -> S] :
        f[0] = 1 /\ \A k \in 1..width : f[k] = step[k][f[k - 1]]
  <2>1. 1 \in S
    OBVIOUS
  <2>2. Stays(S, width, step)
    BY <1>1 DEF Stays
  <2> HIDE DEF step, S
  <2>3. \E f : Computes(f, S, 1, width, step)
    BY <2>1, <2>2, Recursion
  <2> QED
    BY <2>3 DEF Computes
<1>3. \A k \in 1..width : k - 1 \in 0..width /\ f[k] = Base * f[k - 1]
  <2>1. \A k \in 1..width : k - 1 \in 0..width
    OBVIOUS
  <2> HIDE DEF step, S
  <2> QED
    BY <1>1, <1>2, <2>1
<1>4. IsRun(f)
  BY <1>2, <1>3
<1> DEFINE run == CHOOSE g : IsRun(g)
<1>5. IsRun(run) /\ Power(width) = run[width]
  BY <1>4 DEF Power
<1> HIDE DEF run
<1>6. run[0] = 1 /\ \A k \in 1..width : run[k] = Base * run[k - 1]
  BY <1>5
<1>7. \A k \in 0..width : run[k] \in S
  <2> DEFINE T == {j \in 0..width : run[j] \in S}
  <2>1. 0 \in T
    BY <1>6
  <2>2. \A k \in 1..width : k - 1 \in T => k \in T
    BY <1>6, CodecAssumption
  <2>3. \A k \in 0..width : k \in T
    <3> HIDE DEF T
    <3> QED
      BY <2>1, <2>2, Along
  <2> QED
    BY <2>3
<1>8. run \in [0..width -> S]
  BY <1>5, <1>7
<1> QED
  BY <1>5, <1>6, <1>8

\* Powers of the base are positive, and each is Base times the one before.
LEMMA Powers ==
  /\ Power(0) = 1
  /\ \A k \in Nat : Power(k) \in Nat \ {0} /\ Power(k + 1) = Base * Power(k)
<1>1. Power(0) = 1
  BY PowerRuns
<1>2. ASSUME NEW k \in Nat
      PROVE  Power(k) \in Nat \ {0} /\ Power(k + 1) = Base * Power(k)
  <2>1. PICK p \in [0..k -> Nat \ {0}] :
          /\ p[0] = 1 /\ Power(k) = p[k]
          /\ \A i \in 1..k : p[i] = Base * p[i - 1]
    BY PowerRuns
  <2>2. PICK q \in [0..(k + 1) -> Nat \ {0}] :
          /\ q[0] = 1 /\ Power(k + 1) = q[k + 1]
          /\ \A i \in 1..(k + 1) : q[i] = Base * q[i - 1]
    <3>1. k + 1 \in Nat
      OBVIOUS
    <3> QED
      BY <3>1, PowerRuns
  <2> DEFINE T == {i \in 0..k : p[i] = q[i]}
  <2>3. 0 \in T
    BY <2>1, <2>2
  <2>4. \A i \in 1..k : i - 1 \in T => i \in T
    BY <2>1, <2>2
  <2>5. k \in T
    <3>1. k \in Nat /\ k \in 0..k
      OBVIOUS
    <3> HIDE DEF T
    <3>2. \A i \in 0..k : i \in T
      BY <2>3, <2>4, Along
    <3> QED
      BY <3>1, <3>2
  <2> QED
    BY <2>1, <2>2, <2>5
<1> QED
  BY <1>1, <1>2

\* The quotients of a number by the powers.
LEMMA Quotients ==
  ASSUME NEW n \in Nat, NEW k \in Nat
  PROVE  /\ n \div Power(k) \in Nat
         /\ n \div Power(k) = (n \div Power(k + 1)) * Base
                                + ((n \div Power(k)) % Base)
<1>1. PICK p \in Nat \ {0}, b \in Nat \ {0} :
        p = Power(k) /\ b = Base /\ Power(k + 1) = b * p
  BY Powers, CodecAssumption
<1>2. PICK q, r : q = n \div p /\ r = n % p
  OBVIOUS
<1>3. q \in Nat /\ r \in 0..(p - 1) /\ n = p * q + r
  <2>1. q \in Int /\ r \in 0..(p - 1) /\ n = p * q + r
    BY <1>2
  <2>2. ASSUME q < 0 PROVE FALSE
    <3>1. p * q <= -p
      BY <2>1, <2>2
    <3> QED
      BY <2>1, <3>1
  <2> QED
    BY <2>1, <2>2
<1>4. PICK u, v : u = q \div b /\ v = q % b
  OBVIOUS
<1>5. u \in Nat /\ v \in 0..(b - 1) /\ q = b * u + v
  <2>1. u \in Int /\ v \in 0..(b - 1) /\ q = b * u + v
    BY <1>3, <1>4
  <2>2. ASSUME u < 0 PROVE FALSE
    <3>1. b * u <= -b
      BY <2>1, <2>2
    <3> QED
      BY <1>3, <2>1, <3>1
  <2> QED
    BY <2>1, <2>2
<1>6. b * p \in Nat \ {0} /\ p * v + r \in 0..(b * p - 1)
  <2>1. p * v + r \in Nat /\ b * p \in Nat \ {0}
    BY <1>3, <1>5
  <2>2. p * v <= p * (b - 1)
    BY <1>5
  <2>3. p * v + r < p * (b - 1) + p
    BY <1>3, <1>5, <2>2
  <2>4. p * (b - 1) + p = b * p
    OBVIOUS
  <2> QED
    BY <2>1, <2>3, <2>4
<1>7. n = (b * p) * u + (p * v + r)
  <2>1. p * q = p * (b * u + v)
    BY <1>5
  <2>2. p * (b * u + v) = (b * p) * u + p * v
    BY <1>5
  <2> QED
    BY <1>3, <1>5, <2>1, <2>2
<1>8. n \div (b * p) = u
  BY <1>5, <1>6, <1>7, DivisionIs
<1>9. q \in Nat /\ q = u * b + v
  BY <1>3, <1>5
<1> QED
  BY <1>1, <1>2, <1>4, <1>8, <1>9

-----------------------------------------------------------------------------
(* Scrambling.                                                             *)

\* What a bit adds to the exclusive or of two numbers.
Adds(a, b, n) == IF (a \div n) % 2 # (b \div n) % 2 THEN n ELSE 0

\* The bits are the powers of two up to Base.
LEMMA Bits ==
  /\ Base % 2 = 0 /\ 1 \in Bit /\ Base \in Bit
  /\ \A n \in Bit : n \in 1..Base
  /\ \A n \in Bit : n # 1 => n \div 2 \in Bit /\ n = 2 * (n \div 2)
  /\ \A n \in Bit : n # Base => 2 * n \in Bit
<1>1. Base \in Nat \ {0, 1}
  BY CodecAssumption
<1>2. 1 \in Bit /\ Base \in Bit
  BY <1>1 DEF Bit
<1>3. \A n \in Bit : n \in 1..Base /\ Base % n = 0 /\ (n = 1 \/ n % 2 = 0)
  BY BaseAssumption DEF Bit
<1>4. Base % 2 = 0
  BY <1>1, <1>2, <1>3
<1>5. ASSUME NEW n \in Bit, n # 1
      PROVE  n \div 2 \in Bit /\ n = 2 * (n \div 2)
  <2>1. PICK h : h = n \div 2
    OBVIOUS
  <2>2. n \in 1..Base /\ n % 2 = 0
    BY <1>3, <1>5
  <2>3. h \in Nat \ {0} /\ n = 2 * h
    BY <1>1, <2>1, <2>2
  <2>4. PICK q : q = Base \div n
    OBVIOUS
  <2>5. q \in Int /\ Base = n * q
    BY <1>1, <1>3, <2>2, <2>4
  <2>6. Base = h * (2 * q) + 0 /\ 2 * q \in Int
    BY <2>3, <2>5
  <2>7. Base % h = 0
    BY <1>1, <2>3, <2>6, DivisionIs
  <2>8. h \in 1..Base
    BY <1>1, <2>2, <2>3
  <2> QED
    BY <2>1, <2>3, <2>7, <2>8 DEF Bit
<1>6. ASSUME NEW n \in Bit, n # Base
      PROVE  2 * n \in Bit
  <2>1. n \in 1..Base /\ Base % n = 0
    BY <1>3
  <2>2. PICK q : q = Base \div n
    OBVIOUS
  <2>3. q \in Int /\ Base = n * q
    BY <1>1, <2>1, <2>2
  <2>4. q > 1
    <3>1. ASSUME q <= 0 PROVE FALSE
      <4>1. n * q <= 0
        BY <2>1, <2>3, <3>1
      <4> QED
        BY <1>1, <2>3, <4>1
    <3>2. q # 1
      BY <1>6, <2>1, <2>3
    <3> QED
      BY <2>3, <3>1, <3>2
  <2>5. q <= Base
    <3>1. n * q >= q
      BY <2>1, <2>3, <2>4
    <3> QED
      BY <1>1, <2>3, <3>1
  <2>6. Base % q = 0
    <3>1. Base = q * n + 0 /\ q \in Nat \ {0}
      BY <2>1, <2>3, <2>4
    <3> QED
      BY <1>1, <2>1, <3>1, DivisionIs
  <2>7. q % 2 = 0
    BY <2>3, <2>4, <2>5, <2>6, BaseAssumption
  <2>8. PICK h : h = q \div 2
    OBVIOUS
  <2>9. h \in Nat \ {0} /\ q = 2 * h
    BY <2>3, <2>4, <2>7, <2>8
  <2>10. Base = (2 * n) * h + 0 /\ 2 * n \in Nat \ {0}
    BY <2>1, <2>3, <2>9
  <2>11. Base % (2 * n) = 0
    BY <1>1, <2>9, <2>10, DivisionIs
  <2>12. 2 * n <= Base
    BY <2>1, <2>9, <2>10
  <2> QED
    BY <2>1, <2>11, <2>12 DEF Bit
<1> QED
  BY <1>2, <1>3, <1>4, <1>5, <1>6

\* The exclusive or, from the last bit on.
IsExclusiveOr(u, a, b) ==
  /\ u \in [Bit -> Nat] /\ ExclusiveOr(a, b) = u[Base]
  /\ u[1] = Adds(a, b, 1)
  /\ \A n \in Bit : n # 1 => u[n] = Adds(a, b, n) + u[n \div 2]

\* There is an exclusive or that grows bit by bit.
LEMMA ExclusiveOrRuns ==
  ASSUME NEW a \in Nat, NEW b \in Nat
  PROVE  \E u : IsExclusiveOr(u, a, b)
<1>1. \A n \in Nat : Adds(a, b, n) \in Nat
  BY DEF Adds
<1>2. PICK add : add = [n \in Nat |-> Adds(a, b, n)]
  OBVIOUS
<1>3. add \in [Nat -> Nat]
  BY <1>1, <1>2
<1> DEFINE IsPart(f, m) ==
             /\ f \in [1..m -> Nat]
             /\ \A k \in 1..m : f[k] = add[k] + (IF k = 1 THEN 0 ELSE f[k \div 2])
           T == {m \in 0..Base : \E f : IsPart(f, m)}
<1>4. Base \in Nat
  BY CodecAssumption
<1>5. 0 \in T
  <2>1. IsPart([k \in 1..0 |-> 0], 0)
    OBVIOUS
  <2> HIDE DEF IsPart
  <2> QED
    BY <1>4, <2>1
<1>6. ASSUME NEW m \in 1..Base, m - 1 \in T PROVE m \in T
  <2>1. PICK f : IsPart(f, m - 1)
    BY <1>6
  <2> DEFINE last == add[m] + (IF m = 1 THEN 0 ELSE f[m \div 2])
             g == [k \in 1..m |-> IF k = m THEN last ELSE f[k]]
  <2>2. /\ m \in Nat
        /\ \A k \in 1..m : k # 1 => k \div 2 \in 1..m /\ k \div 2 # m
        /\ \A k \in 1..m : k # 1 => k \div 2 \in 1..(m - 1)
        /\ \A k \in 1..m : k # m => k \in 1..(m - 1)
    OBVIOUS
  <2>3. last \in Nat
    <3>1. m # 1 => f[m \div 2] \in Nat
      BY <2>1, <2>2
    <3>2. add[m] \in Nat
      BY <1>3, <2>2
    <3> QED
      BY <3>1, <3>2
  <2> HIDE DEF last
  <2>4. g \in [1..m -> Nat]
    BY <2>1, <2>2, <2>3
  <2>5. ASSUME NEW k \in 1..m
        PROVE  g[k] = add[k] + (IF k = 1 THEN 0 ELSE g[k \div 2])
    <3>1. k # 1 => g[k \div 2] = f[k \div 2]
      BY <2>2
    <3>2. CASE k = m
      BY <3>1, <3>2 DEF last
    <3>3. CASE k # m
      BY <2>1, <2>2, <3>1, <3>3
    <3> QED
      BY <3>2, <3>3
  <2> HIDE DEF g
  <2>6. IsPart(g, m)
    BY <2>4, <2>5
  <2> HIDE DEF IsPart
  <2>7. m \in 0..Base
    OBVIOUS
  <2> QED
    BY <2>6, <2>7
<1>7. Base \in T
  <2> HIDE DEF T
  <2>1. \A k \in 0..Base : k \in T
    BY <1>4, <1>5, <1>6, Along
  <2> QED
    BY <1>4, <2>1
<1>8. PICK f : IsPart(f, Base)
  BY <1>7
<1> DEFINE IsRun(h) ==
     h = [n \in Bit |-> (IF (a \div n) % 2 # (b \div n) % 2 THEN n ELSE 0)
                           + (IF n = 1 THEN 0 ELSE h[n \div 2])]
           h == [n \in Bit |-> f[n]]
<1>9. IsRun(h)
  <2> SUFFICES ASSUME NEW n \in Bit
               PROVE  f[n] = (IF (a \div n) % 2 # (b \div n) % 2 THEN n ELSE 0)
                               + (IF n = 1 THEN 0 ELSE h[n \div 2])
    BY Zenon
  <2>1. n \in 1..Base /\ n \in Nat /\ (n # 1 => n \div 2 \in Bit)
    BY <1>4, Bits
  <2>2. n # 1 => h[n \div 2] = f[n \div 2]
    BY <2>1
  <2>3. add[n] = Adds(a, b, n)
    BY <1>2, <2>1
  <2>4. f[n] = add[n] + (IF n = 1 THEN 0 ELSE f[n \div 2])
    BY <1>8, <2>1
  <2> HIDE DEF h
  <2>5. f[n] = Adds(a, b, n) + (IF n = 1 THEN 0 ELSE h[n \div 2])
    BY <2>2, <2>3, <2>4
  <2> QED
    BY <2>5 DEF Adds
<1> HIDE DEF h
<1> DEFINE run == CHOOSE g : IsRun(g)
<1>10. IsRun(run) /\ ExclusiveOr(a, b) = run[Base]
  BY <1>9 DEF ExclusiveOr
<1> HIDE DEF run
<1>11. DOMAIN run = Bit /\ run = [n \in Bit |-> run[n]]
       /\ \A n \in Bit : run[n] = Adds(a, b, n) + (IF n = 1 THEN 0 ELSE run[n \div 2])
  BY <1>10 DEF Adds
<1> HIDE DEF IsRun
<1>12. \A n \in Bit : run[n] \in Nat
  <2> DEFINE V == {m \in 0..Base : \A n \in Bit : n <= m => run[n] \in Nat}
  <2>1. 0 \in V
    BY <1>4, Bits
  <2>2. ASSUME NEW m \in 1..Base, m - 1 \in V PROVE m \in V
    <3> SUFFICES ASSUME NEW n \in Bit, n <= m PROVE run[n] \in Nat
      OBVIOUS
    <3>1. n \in Nat /\ n \in 1..Base /\ Adds(a, b, n) \in Nat
      BY <1>1, Bits
    <3>2. n # 1 => n \div 2 \in Bit /\ n \div 2 <= m - 1
      BY <3>1, Bits
    <3>3. n # 1 => run[n \div 2] \in Nat
      BY <2>2, <3>2
    <3> QED
      BY <1>11, <3>1, <3>3
  <2>3. \A m \in 0..Base : m \in V
    <3> HIDE DEF V
    <3> QED
      BY <1>4, <2>1, <2>2, Along
  <2> QED
    BY <1>4, <2>3, Bits
<1>13. run \in [Bit -> Nat]
  BY <1>11, <1>12
<1>14. run[1] = Adds(a, b, 1)
  <2>1. 1 \in Bit /\ Adds(a, b, 1) \in Nat
    BY <1>1, Bits
  <2> QED
    BY <1>11, <2>1
<1>15. IsExclusiveOr(run, a, b)
  BY <1>10, <1>11, <1>13, <1>14 DEF IsExclusiveOr
<1> QED
  BY <1>15

\* The exclusive or of two bytes is one, and that with the second byte again is
\* the first byte.
LEMMA ExclusiveOrBounds ==
  ASSUME NEW a \in Nat, NEW b \in Nat, NEW u, IsExclusiveOr(u, a, b)
  PROVE  \A n \in Bit : u[n] \in 0..(2 * n - 1)
<1>1. Base \in Nat
  BY CodecAssumption
<1> DEFINE V == {m \in 0..Base : \A n \in Bit : n <= m => u[n] < 2 * n}
<1>2. 0 \in V
  BY <1>1, Bits
<1>3. ASSUME NEW m \in 1..Base, m - 1 \in V PROVE m \in V
  <2> SUFFICES ASSUME NEW n \in Bit, n <= m PROVE u[n] < 2 * n
    OBVIOUS
  <2>1. /\ n \in Nat /\ n \in 1..Base /\ (n # 1 => n = 2 * (n \div 2))
        /\ Adds(a, b, n) \in {0, n} /\ u[n] \in Nat
    BY Bits DEF Adds, IsExclusiveOr
  <2>2. CASE n = 1
    BY <2>1, <2>2 DEF IsExclusiveOr
  <2>3. CASE n # 1
    <3>1. PICK h : h = n \div 2
      OBVIOUS
    <3>2. h \in Bit /\ n = 2 * h /\ h \in 1..Base
      BY <2>3, <3>1, Bits
    <3>3. h <= m - 1 /\ u[h] \in Nat
      BY <2>1, <3>2 DEF IsExclusiveOr
    <3>4. u[h] < 2 * h
      BY <1>3, <3>2, <3>3
    <3>5. u[n] = Adds(a, b, n) + u[h]
      BY <2>3, <3>1 DEF IsExclusiveOr
    <3> QED
      BY <2>1, <3>2, <3>3, <3>4, <3>5
  <2> QED
    BY <2>2, <2>3
<1>4. \A m \in 0..Base : m \in V
  <2> HIDE DEF V
  <2> QED
    BY <1>1, <1>2, <1>3, Along
<1> SUFFICES ASSUME NEW n \in Bit PROVE u[n] \in 0..(2 * n - 1)
  OBVIOUS
<1>5. n \in 1..Base /\ n \in Nat /\ u[n] \in Nat
  BY Bits DEF IsExclusiveOr
<1>6. u[n] < 2 * n
  BY <1>1, <1>4, <1>5
<1> QED
  BY <1>5, <1>6

\* Its last bits are those of the exclusive or so far.
LEMMA ExclusiveOrEnds ==
  ASSUME NEW a \in Nat, NEW b \in Nat, NEW u, IsExclusiveOr(u, a, b),
         NEW x, x = ExclusiveOr(a, b)
  PROVE  x \in 0..(Bytes - 1) /\ \A n \in Bit : x % (2 * n) = u[n]
<1>1. Base \in Nat \ {0} /\ Base \in Bit /\ \A n \in Bit : n \in 1..Base
  BY CodecAssumption, Bits
<1>2. \A n \in Bit : u[n] \in 0..(2 * n - 1)
  BY ExclusiveOrBounds
<1>3. x = u[Base] /\ x \in 0..(2 * Base - 1)
  BY <1>1, <1>2 DEF IsExclusiveOr
<1> DEFINE Holds(n) == x % (2 * n) = u[n]
           V == {k \in 0..Base : \A n \in Bit : n >= Base - k => Holds(n)}
<1>4. Holds(Base)
  BY <1>1, <1>3
<1>5. 0 \in V
  BY <1>1, <1>4
<1>6. ASSUME NEW k \in 1..Base, k - 1 \in V PROVE k \in V
  <2> SUFFICES ASSUME NEW n \in Bit, n >= Base - k, n # Base PROVE Holds(n)
    BY <1>4
  <2>1. PICK m : m = 2 * n
    OBVIOUS
  <2>2. m \in Bit /\ n \in 1..Base /\ m \in 1..Base
    BY <1>1, <2>1, Bits
  <2>3. m >= Base - (k - 1) /\ m # 1 /\ m \div 2 = n
    BY <1>1, <2>1, <2>2
  <2>4. x % (2 * m) = u[m]
    BY <1>6, <2>2, <2>3
  <2>5. u[m] = Adds(a, b, m) + u[n]
    BY <2>2, <2>3 DEF IsExclusiveOr
  <2>6. Adds(a, b, m) \in {0, m} /\ u[n] \in 0..(2 * n - 1)
    BY <1>2 DEF Adds
  <2>7. PICK q : q = x \div (2 * m)
    OBVIOUS
  <2>8. q \in Int /\ x = (2 * m) * q + (Adds(a, b, m) + u[n])
    BY <1>1, <1>3, <2>2, <2>4, <2>5, <2>7
  <2>9. \E p \in Int : x = (2 * n) * p + u[n]
    <3>1. CASE Adds(a, b, m) = 0
      <4>1. 2 * q \in Int /\ x = (2 * n) * (2 * q) + u[n]
        BY <2>1, <2>2, <2>6, <2>8, <3>1
      <4> QED
        BY <4>1
    <3>2. CASE Adds(a, b, m) = m
      <4>1. 2 * q + 1 \in Int /\ x = (2 * n) * (2 * q + 1) + u[n]
        BY <2>1, <2>2, <2>6, <2>8, <3>2
      <4> QED
        BY <4>1
    <3> QED
      BY <2>6, <3>1, <3>2
  <2>10. 2 * n \in Nat \ {0} /\ x \in Int
    BY <1>1, <1>3, <2>2
  <2> QED
    BY <2>6, <2>9, <2>10, DivisionIs
<1>7. \A k \in 0..Base : k \in V
  <2>1. Base \in Nat
    BY <1>1
  <2> HIDE DEF V
  <2> QED
    BY <2>1, <1>5, <1>6, Along
<1>8. \A n \in Bit : Holds(n)
  <2>1. Base \in V
    <3>1. Base \in 0..Base
      BY <1>1
    <3> HIDE DEF V
    <3> QED
      BY <1>7, <3>1
  <2>2. \A n \in Bit : n >= Base - Base
    BY <1>1
  <2> HIDE DEF Holds
  <2> QED
    BY <2>1, <2>2
<1> QED
  BY <1>3, <1>8 DEF Bytes

\* A bit of the exclusive or.
LEMMA ExclusiveOrBit ==
  ASSUME NEW a \in Nat, NEW b \in Nat, NEW x, x = ExclusiveOr(a, b), NEW n \in Bit
  PROVE  (x \div n) % 2 = IF (a \div n) % 2 # (b \div n) % 2 THEN 1 ELSE 0
<1>1. PICK u : IsExclusiveOr(u, a, b)
  BY ExclusiveOrRuns
<1>2. x \in 0..(Bytes - 1) /\ \A m \in Bit : x % (2 * m) = u[m]
  BY <1>1, ExclusiveOrEnds
<1>3. n \in Nat \ {0} /\ Base \in Nat
  BY CodecAssumption, Bits
<1>4. \E r \in 0..(n - 1) : u[n] = Adds(a, b, n) + r
  <2>1. CASE n = 1
    <3>1. u[n] = Adds(a, b, n) + 0 /\ 0 \in 0..(n - 1)
      BY <1>1, <2>1 DEF IsExclusiveOr, Adds
    <3> QED
      BY <3>1
  <2>2. CASE n # 1
    <3>1. n \div 2 \in Bit /\ n = 2 * (n \div 2)
      BY <2>2, Bits
    <3>2. u[n \div 2] \in 0..(2 * (n \div 2) - 1)
      BY <1>1, <3>1, ExclusiveOrBounds
    <3>3. u[n] = Adds(a, b, n) + u[n \div 2]
      BY <1>1, <2>2 DEF IsExclusiveOr
    <3> QED
      BY <3>1, <3>2, <3>3
  <2> QED
    BY <2>1, <2>2
<1>5. PICK r \in 0..(n - 1) : u[n] = Adds(a, b, n) + r
  BY <1>4
<1>11. PICK m \in Nat \ {0} : m = 2 * n
  BY <1>3
<1>6. PICK q : q = x \div m
  OBVIOUS
<1>7. x \in Nat /\ x % m = Adds(a, b, n) + r
  BY <1>2, <1>3, <1>5, <1>11 DEF Bytes
<1>8. q \in Int /\ x = (2 * n) * q + (Adds(a, b, n) + r)
  <2>1. q \in Int /\ x = m * q + (x % m)
    BY <1>6, <1>7, SMTT(40)
  <2> QED
    BY <1>7, <1>11, <2>1
<1>9. CASE (a \div n) % 2 # (b \div n) % 2
  <2>1. x = n * (2 * q + 1) + r
    BY <1>3, <1>5, <1>8, <1>9 DEF Adds
  <2>2. 2 * q + 1 \in Int /\ x \in Int
    BY <1>7, <1>8
  <2>3. x \div n = 2 * q + 1
    BY <1>3, <2>1, <2>2, DivisionIs
  <2> QED
    BY <1>8, <1>9, <2>3
<1>10. CASE ~((a \div n) % 2 # (b \div n) % 2)
  <2>1. x = n * (2 * q) + r
    BY <1>3, <1>5, <1>8, <1>10 DEF Adds
  <2>2. 2 * q \in Int /\ x \in Int
    BY <1>7, <1>8
  <2>3. x \div n = 2 * q
    BY <1>3, <2>1, <2>2, DivisionIs
  <2> QED
    BY <1>8, <1>10, <2>3
<1> QED
  BY <1>9, <1>10

\* The exclusive or with a number is its own inverse on bytes.
LEMMA ExclusiveOrInverts ==
  ASSUME NEW a \in 0..(Bytes - 1), NEW b \in Nat, NEW x, x = ExclusiveOr(a, b)
  PROVE  x \in 0..(Bytes - 1) /\ ExclusiveOr(x, b) = a
<1>1. Base \in Nat \ {0} /\ Base \in Bit /\ \A n \in Bit : n \in 1..Base
  BY CodecAssumption, Bits
<1>2. a \in Nat
  BY <1>1 DEF Bytes
<1>3. x \in 0..(Bytes - 1)
  <2>1. \E u : IsExclusiveOr(u, a, b)
    BY <1>2, ExclusiveOrRuns
  <2> QED
    BY <1>2, <2>1, ExclusiveOrEnds
<1>4. x \in Nat
  BY <1>1, <1>3 DEF Bytes
<1>5. PICK v : IsExclusiveOr(v, x, b)
  BY <1>4, ExclusiveOrRuns
<1>6. \A n \in Bit : Adds(x, b, n) = n * ((a \div n) % 2)
  <2> TAKE n \in Bit
  <2>1. (x \div n) % 2 = IF (a \div n) % 2 # (b \div n) % 2 THEN 1 ELSE 0
    BY <1>2, ExclusiveOrBit
  <2>2. n \in Nat \ {0}
    BY <1>1
  <2>3. PICK i, j : i = (a \div n) % 2 /\ j = (b \div n) % 2
    OBVIOUS
  <2>4. i \in {0, 1} /\ j \in {0, 1}
    <3>1. PICK p, q : p = a \div n /\ q = b \div n
      OBVIOUS
    <3>2. p \in Int /\ q \in Int
      BY <1>2, <2>2, <3>1
    <3> QED
      BY <2>3, <3>1, <3>2
  <2>5. Adds(x, b, n) = IF i = 1 THEN n ELSE 0
    BY <2>1, <2>3, <2>4 DEF Adds
  <2> QED
    BY <2>2, <2>3, <2>4, <2>5
<1> DEFINE Holds(n) == v[n] = a % (2 * n)
           V == {m \in 0..Base : \A n \in Bit : n <= m => Holds(n)}
<1>7. 0 \in V
  BY <1>1
<1>8. ASSUME NEW m \in 1..Base, m - 1 \in V PROVE m \in V
  <2> SUFFICES ASSUME NEW n \in Bit, n <= m PROVE Holds(n)
    OBVIOUS
  <2>1. n \in Nat \ {0} /\ n \in 1..Base
    BY <1>1
  <2>2. PICK p, i, r : p = a \div n /\ r = a % n /\ i = p % 2
    OBVIOUS
  <2>3. p \in Int /\ r \in 0..(n - 1) /\ a = n * p + r
    BY <1>2, <2>1, <2>2
  <2>4. PICK h : h = p \div 2
    OBVIOUS
  <2>5. h \in Int /\ i \in {0, 1} /\ p = 2 * h + i
    <3>1. p \in Int
      BY <2>3
    <3>2. h \in Int /\ (p % 2) \in {0, 1} /\ p = 2 * h + (p % 2)
      BY <2>4, <3>1
    <3> QED
      BY <2>2, <3>2
  <2>6. a = (2 * n) * h + (n * i + r)
    BY <2>1, <2>3, <2>5
  <2>7. n * i + r \in 0..(2 * n - 1) /\ 2 * n \in Nat \ {0}
    BY <2>1, <2>3, <2>5
  <2>8. a % (2 * n) = n * i + r
    BY <1>2, <2>5, <2>6, <2>7, DivisionIs
  <2>9. Adds(x, b, n) = n * i
    BY <1>6, <2>2
  <2>10. CASE n = 1
    <3>1. v[n] = Adds(x, b, n) /\ r = 0
      BY <1>5, <2>3, <2>10 DEF IsExclusiveOr
    <3> QED
      BY <2>5, <2>8, <2>9, <2>10, <3>1
  <2>11. CASE n # 1
    <3>1. PICK k : k = n \div 2
      OBVIOUS
    <3>2. k \in Bit /\ n = 2 * k /\ k \in 1..Base
      BY <1>1, <2>11, <3>1, Bits
    <3>3. k <= m - 1
      BY <2>1, <3>2
    <3>4. v[k] = a % (2 * k)
      BY <1>8, <3>2, <3>3
    <3>5. v[n] = Adds(x, b, n) + v[k]
      BY <1>5, <2>11, <3>1 DEF IsExclusiveOr
    <3>6. v[k] = r
      BY <2>2, <3>2, <3>4
    <3> QED
      BY <2>8, <2>9, <3>5, <3>6
  <2> QED
    BY <2>10, <2>11
<1>9. Holds(Base)
  <2>1. Base \in Nat /\ Base \in 0..Base
    BY <1>1
  <2>2. \A m \in 0..Base : m \in V
    <3> HIDE DEF V
    <3> QED
      BY <1>7, <1>8, <2>1, Along
  <2>3. Base \in V
    <3> HIDE DEF V
    <3> QED
      BY <2>1, <2>2
  <2> HIDE DEF Holds
  <2> QED
    BY <1>1, <2>1, <2>3
<1>10. a % (2 * Base) = a
  <2>1. a = (2 * Base) * 0 + a /\ a \in 0..(2 * Base - 1) /\ 2 * Base \in Nat \ {0}
    BY <1>1, <1>2 DEF Bytes
  <2> QED
    BY <1>2, <2>1, DivisionIs
<1>11. ExclusiveOr(x, b) = v[Base]
  BY <1>5 DEF IsExclusiveOr
<1> QED
  BY <1>3, <1>9, <1>10, <1>11

\* The ends of a byte are exchanged twice.
LEMMA SwapInverts ==
  ASSUME NEW b \in 0..(Bytes - 1)
  PROVE  SwapEnds(b) \in 0..(Bytes - 1) /\ SwapEnds(SwapEnds(b)) = b
<1>1. PICK half : half = Base \div 2
  OBVIOUS
<1>2. half \in Nat \ {0} /\ Base = 2 * half /\ Base \in Nat \ {0}
  BY <1>1, CodecAssumption, Bits
<1>3. PICK first, rest : first = b \div Base /\ rest = b % Base
  OBVIOUS
<1>4. b \in Nat /\ b < 2 * Base
  BY <1>2 DEF Bytes
<1>5. first \in Int /\ rest \in 0..(Base - 1) /\ b = Base * first + rest
  <2>1. PICK n \in Nat \ {0} : n = Base
    BY <1>2
  <2>2. first = b \div n /\ rest = b % n
    BY <1>3, <2>1
  <2>3. first \in Int /\ rest \in 0..(n - 1) /\ b = n * first + rest
    BY <1>4, <2>2
  <2> QED
    BY <2>1, <2>3
<1>6. first \in {0, 1}
  <2>1. ASSUME first <= -1 PROVE FALSE
    <3>1. Base * first <= -Base
      BY <1>2, <1>5, <2>1
    <3> QED
      BY <1>2, <1>4, <1>5, <3>1
  <2>2. ASSUME first >= 2 PROVE FALSE
    <3>1. Base * first >= 2 * Base
      BY <1>2, <1>5, <2>2
    <3> QED
      BY <1>2, <1>4, <1>5, <3>1
  <2> QED
    BY <1>5, <2>1, <2>2
<1>7. PICK mid, last : mid = rest \div 2 /\ last = rest % 2
  OBVIOUS
<1>8. mid \in Nat /\ last \in {0, 1} /\ rest = 2 * mid + last /\ mid <= half - 1
  BY <1>2, <1>5, <1>7
<1>9. \A f, l \in {0, 1} : LET c == f * Base + 2 * mid + l IN
         c \in 0..(Bytes - 1) /\ c \div Base = f /\ c % 2 = l
  <2> SUFFICES ASSUME NEW f \in {0, 1}, NEW l \in {0, 1}, NEW c,
                      c = f * Base + 2 * mid + l
               PROVE  c \in 0..(Bytes - 1) /\ c \div Base = f /\ c % 2 = l
    OBVIOUS
  <2>1. c = Base * f + (2 * mid + l) /\ 2 * mid + l \in 0..(Base - 1)
    BY <1>2, <1>8
  <2>2. c \in 0..(Bytes - 1) /\ c \in Int
    BY <1>2, <2>1 DEF Bytes
  <2>3. c \div Base = f
    BY <1>2, <2>1, <2>2, DivisionIs
  <2>4. c % 2 = l
    <3>1. c = 2 * (f * half + mid) + l /\ f * half + mid \in Int
      BY <1>2, <1>8, <2>1
    <3> QED
      BY <2>2, <3>1, DivisionIs
  <2> QED
    BY <2>2, <2>3, <2>4
<1>10. b = first * Base + 2 * mid + last
  BY <1>2, <1>5, <1>6, <1>8
<1>11. b \div Base = first /\ b % 2 = last
  BY <1>6, <1>8, <1>9, <1>10
<1>12. PICK c : c = last * Base + 2 * mid + first
  OBVIOUS
<1>13. c \in 0..(Bytes - 1) /\ c \div Base = last /\ c % 2 = first
  BY <1>6, <1>8, <1>9, <1>12
<1>14. SwapEnds(b) = c
  <2>1. SwapEnds(b) = b - first * Base - last + last * Base + first
    BY <1>11 DEF SwapEnds
  <2> QED
    BY <1>2, <1>6, <1>8, <1>10, <1>12, <2>1
<1>15. SwapEnds(c) = b
  <2>1. SwapEnds(c) = c - last * Base - first + first * Base + last
    BY <1>13 DEF SwapEnds
  <2> QED
    BY <1>2, <1>6, <1>8, <1>10, <1>12, <2>1
<1> QED
  BY <1>13, <1>14, <1>15

\* A scrambled byte.
LEMMA ByteInverts ==
  ASSUME NEW b \in 0..(Bytes - 1), NEW magic \in Nat
  PROVE  /\ SwizzleByte(b, magic) \in 0..(Bytes - 1)
         /\ UnswizzleByte(b, magic) \in 0..(Bytes - 1)
         /\ UnswizzleByte(SwizzleByte(b, magic), magic) = b
         /\ SwizzleByte(UnswizzleByte(b, magic), magic) = b
<1>1. Bytes \in Nat \ {0, 1}
  BY CodecAssumption DEF Bytes
<1>2. PICK s, x, y : /\ s = SwapEnds(b) /\ x = ExclusiveOr(s, magic)
                     /\ y = (x + 1) % Bytes
  OBVIOUS
<1>3. s \in 0..(Bytes - 1) /\ SwapEnds(s) = b
  BY <1>2, SwapInverts
<1>4. x \in 0..(Bytes - 1) /\ ExclusiveOr(x, magic) = s
  BY <1>2, <1>3, ExclusiveOrInverts
<1>5. y \in 0..(Bytes - 1) /\ (y - 1) % Bytes = x
  BY <1>1, <1>2, <1>4
<1>6. SwizzleByte(b, magic) = y
  BY <1>2 DEF SwizzleByte
<1>7. UnswizzleByte(y, magic) = b
  BY <1>3, <1>4, <1>5 DEF UnswizzleByte
<1>8. PICK d, e : d = (b - 1) % Bytes /\ e = ExclusiveOr(d, magic)
  OBVIOUS
<1>9. d \in 0..(Bytes - 1) /\ (d + 1) % Bytes = b
  BY <1>1, <1>8
<1>10. e \in 0..(Bytes - 1) /\ ExclusiveOr(e, magic) = d
  BY <1>8, <1>9, ExclusiveOrInverts
<1>11. SwapEnds(e) \in 0..(Bytes - 1) /\ SwapEnds(SwapEnds(e)) = e
  BY <1>10, SwapInverts
<1>12. UnswizzleByte(b, magic) = SwapEnds(e)
  BY <1>8 DEF UnswizzleByte
<1>13. SwizzleByte(SwapEnds(e), magic) = b
  BY <1>9, <1>10, <1>11 DEF SwizzleByte
<1> QED
  BY <1>5, <1>6, <1>7, <1>11, <1>12, <1>13

-----------------------------------------------------------------------------
(* Streams and their parts.                                                *)

\* Scrambling a stream and unscrambling it undo one another.
THEOREM ScrambleInverts ==
  ASSUME NEW data \in Seq(0..(Bytes - 1)), NEW magic \in Nat
  PROVE  /\ Swizzle(data, magic) \in Seq(0..(Bytes - 1))
         /\ Unswizzle(data, magic) \in Seq(0..(Bytes - 1))
         /\ Len(Swizzle(data, magic)) = Len(data)
         /\ Unswizzle(Swizzle(data, magic), magic) = data
         /\ Swizzle(Unswizzle(data, magic), magic) = data
<1>1. PICK B : B = 0..(Bytes - 1)
  OBVIOUS
<1>2. \A b \in B : /\ SwizzleByte(b, magic) \in B /\ UnswizzleByte(b, magic) \in B
                   /\ UnswizzleByte(SwizzleByte(b, magic), magic) = b
                   /\ SwizzleByte(UnswizzleByte(b, magic), magic) = b
  BY <1>1, ByteInverts
<1>3. PICK n \in Nat : n = Len(data) /\ DOMAIN data = 1..n /\ data \in [1..n -> B]
  BY <1>1, LenProperties
<1>4. PICK s, u : s = Swizzle(data, magic) /\ u = Unswizzle(data, magic)
  OBVIOUS
<1>5. s \in [1..n -> B] /\ u \in [1..n -> B]
  BY <1>2, <1>3, <1>4 DEF Swizzle, Unswizzle
<1>6. s \in Seq(B) /\ u \in Seq(B) /\ Len(s) = n
  BY <1>5
<1>7. Unswizzle(s, magic) = data
  <2>1. DOMAIN s = 1..n /\ \A i \in 1..n : UnswizzleByte(s[i], magic) = data[i]
    BY <1>2, <1>3, <1>4, <1>5 DEF Swizzle
  <2> QED
    BY <1>3, <2>1 DEF Unswizzle
<1>8. Swizzle(u, magic) = data
  <2>1. DOMAIN u = 1..n /\ \A i \in 1..n : SwizzleByte(u[i], magic) = data[i]
    BY <1>2, <1>3, <1>4, <1>5 DEF Unswizzle
  <2> QED
    BY <1>3, <2>1 DEF Swizzle
<1> QED
  BY <1>1, <1>3, <1>4, <1>6, <1>7, <1>8

\* The concatenations of more and more parts.
IsJoining(run, parts) ==
  /\ DOMAIN run = 0..Len(parts) /\ run[0] = <<>>
  /\ \A k \in 1..Len(parts) : run[k] = run[k - 1] \o parts[k]

\* The concatenation is what grows part by part.
LEMMA Joinings ==
  ASSUME NEW S, NEW n \in Nat, NEW parts \in [1..n -> Seq(S)]
  PROVE  \E run \in [0..n -> Seq(S)] :
           IsJoining(run, parts) /\ Concatenated(parts) = run[n]
<1>1. Len(parts) = n
  BY LenProperties
<1> DEFINE step == [k \in 1..n |-> [s \in Seq(S) |-> s \o parts[k]]]
           IsRun(f) == f = [k \in 0..Len(parts) |->
                              IF k = 0 THEN <<>> ELSE f[k - 1] \o parts[k]]
<1>2. <<>> \in Seq(S)
  OBVIOUS
<1>3. Stays(Seq(S), n, step)
  <2> SUFFICES ASSUME NEW k \in 1..n, NEW s \in Seq(S) PROVE step[k][s] \in Seq(S)
    BY DEF Stays
  <2>1. parts[k] \in Seq(S)
    OBVIOUS
  <2>2. s \o parts[k] \in Seq(S)
    BY <2>1, ConcatProperties
  <2> QED
    BY <2>2
<1>4. PICK f : Computes(f, Seq(S), <<>>, n, step)
  <2> HIDE DEF step
  <2> QED
    BY <1>2, <1>3, Recursion
<1>5. f \in [0..n -> Seq(S)] /\ f[0] = <<>>
  BY <1>4 DEF Computes
<1>6. \A k \in 1..n : f[k] = f[k - 1] \o parts[k]
  <2> TAKE k \in 1..n
  <2>1. k - 1 \in 0..n
    OBVIOUS
  <2>2. f[k] = step[k][f[k - 1]]
    BY <1>4 DEF Computes
  <2>3. f[k - 1] \in Seq(S)
    BY <1>5, <2>1
  <2>4. step[k] = [s \in Seq(S) |-> s \o parts[k]]
    BY Zenon
  <2> QED
    BY <2>2, <2>3, <2>4, Zenon
<1> HIDE DEF step
<1>7. IsRun(f)
  <2>1. \A k \in 0..n : k # 0 => k \in 1..n
    OBVIOUS
  <2>2. f = [k \in 0..n |-> f[k]]
    BY <1>5
  <2>3. \A k \in 0..n : f[k] = IF k = 0 THEN <<>> ELSE f[k - 1] \o parts[k]
    BY <1>5, <1>6, <2>1, Zenon
  <2> QED
    BY <1>1, <2>2, <2>3, Zenon
<1> DEFINE run == CHOOSE g : IsRun(g)
<1>8. IsRun(run) /\ Concatenated(parts) = run[n]
  BY <1>1, <1>7 DEF Concatenated
<1> HIDE DEF run
<1>9. /\ DOMAIN run = 0..n /\ run = [k \in 0..n |-> run[k]] /\ run[0] = <<>>
      /\ \A k \in 1..n : run[k] = run[k - 1] \o parts[k]
  <2>1. /\ DOMAIN run = 0..n
        /\ \A k \in 0..n : run[k] = IF k = 0 THEN <<>> ELSE run[k - 1] \o parts[k]
    BY <1>1, <1>8, Zenon
  <2>2. run = [k \in 0..n |-> run[k]]
    BY <1>1, <1>8, Zenon
  <2>3. 0 \in 0..n /\ \A k \in 1..n : k \in 0..n /\ k # 0
    OBVIOUS
  <2> QED
    BY <2>1, <2>2, <2>3, Zenon
<1> HIDE DEF IsRun
<1>10. \A k \in 0..n : run[k] \in Seq(S)
  <2> DEFINE T == {k \in 0..n : run[k] \in Seq(S)}
  <2>1. 0 \in T
    BY <1>2, <1>9
  <2>2. ASSUME NEW k \in 1..n, k - 1 \in T PROVE k \in T
    <3>1. run[k - 1] \in Seq(S) /\ parts[k] \in Seq(S) /\ k \in 0..n
      BY <2>2
    <3>2. run[k - 1] \o parts[k] \in Seq(S)
      BY <3>1, ConcatProperties
    <3> QED
      BY <1>9, <3>1, <3>2
  <2>3. \A k \in 0..n : k \in T
    <3> HIDE DEF T
    <3> QED
      BY <2>1, <2>2, Along
  <2> QED
    BY <2>3
<1>11. run \in [0..n -> Seq(S)]
  BY <1>9, <1>10, Zenon
<1>12. IsJoining(run, parts)
  BY <1>1, <1>9, Zenon DEF IsJoining
<1> QED
  BY <1>8, <1>11, <1>12

\* Whatever grows part by part is the concatenation.
LEMMA JoiningIs ==
  ASSUME NEW S, NEW n \in Nat, NEW parts \in [1..n -> Seq(S)],
         NEW run, IsJoining(run, parts)
  PROVE  Concatenated(parts) = run[n]
<1>1. Len(parts) = n
  BY LenProperties
<1>2. PICK f \in [0..n -> Seq(S)] : IsJoining(f, parts) /\ Concatenated(parts) = f[n]
  BY Joinings
<1> DEFINE T == {k \in 0..n : f[k] = run[k]}
<1>3. 0 \in T
  BY <1>2 DEF IsJoining
<1>4. \A k \in 1..n : k - 1 \in T => k \in T
  <2>1. \A k \in 1..n : f[k] = f[k - 1] \o parts[k] /\ run[k] = run[k - 1] \o parts[k]
    BY <1>1, <1>2, Zenon DEF IsJoining
  <2>2. \A k \in 1..n : k \in 0..n
    OBVIOUS
  <2> QED
    BY <2>1, <2>2, Zenon
<1>5. \A k \in 0..n : k \in T
  <2> HIDE DEF T
  <2> QED
    BY <1>3, <1>4, Along
<1> QED
  BY <1>2, <1>5

\* A concatenation of sequences over a set is one.
LEMMA JoinedTypes ==
  ASSUME NEW S, NEW n \in Nat, NEW parts \in [1..n -> Seq(S)]
  PROVE  Concatenated(parts) \in Seq(S)
<1>1. PICK run \in [0..n -> Seq(S)] : Concatenated(parts) = run[n]
  BY Joinings
<1> QED
  BY <1>1

\* What is cut out of a sequence.
LEMMA CutTypes ==
  ASSUME NEW S, NEW data \in Seq(S), NEW i \in 1..(Len(data) + 1),
         NEW j \in (i - 1)..Len(data)
  PROVE  /\ SubSeq(data, i, j) \in Seq(S) /\ Len(SubSeq(data, i, j)) = (j - i) + 1
         /\ \A k \in 1..((j - i) + 1) : SubSeq(data, i, j)[k] = data[i + k - 1]
<1>1. PICK n \in Nat : n = Len(data) /\ data \in [1..n -> S]
  BY LenProperties
<1>2. /\ i \in Int /\ j \in Int /\ (i <= j \/ (j - i) + 1 = 0)
      /\ \A k \in i..j : k \in 1..n
  BY <1>1
<1>3. \A k \in i..j : data[k] \in S
  BY <1>1, <1>2
<1>4. PICK c : c = SubSeq(data, i, j)
  OBVIOUS
<1>5. /\ c \in Seq(S) /\ Len(c) = IF i <= j THEN j - i + 1 ELSE 0
      /\ \A k \in 1..(j - i + 1) : c[k] = data[i + k - 1]
  BY <1>2, <1>3, <1>4, SubSeqProperties
<1>6. Len(c) = (j - i) + 1
  BY <1>2, <1>5
<1> QED
  BY <1>4, <1>5, <1>6

\* Joining the chunks of a stream gives the stream.
THEOREM ChunksJoin ==
  ASSUME NEW S, NEW data \in Seq(S), NEW limit \in Nat \ {0}
  PROVE  /\ \E n \in Nat : Chunks(data, limit) \in [1..n -> Seq(S)]
         /\ Concatenated(Chunks(data, limit)) = data
<1>1. PICK L \in Nat : L = Len(data)
  BY LenProperties
<1>2. PICK count : count = (L + limit - 1) \div limit
  OBVIOUS
<1>3. count \in Nat /\ L <= limit * count /\ limit * count <= L + limit - 1
  <2>1. PICK a \in Nat : a = L + limit - 1
    OBVIOUS
  <2>2. count = a \div limit
    BY <1>2, <2>1
  <2>3. PICK r : r = a % limit
    OBVIOUS
  <2>4. count \in Int /\ r \in 0..(limit - 1) /\ a = limit * count + r
    BY <2>2, <2>3
  <2>5. ASSUME count < 0 PROVE FALSE
    <3>1. limit * count <= -limit
      BY <2>4, <2>5
    <3> QED
      BY <2>4, <3>1
  <2> QED
    BY <2>1, <2>4, <2>5
<1> DEFINE end(n) == IF n * limit < L THEN n * limit ELSE L
           run == [k \in 0..count |-> SubSeq(data, 1, end(k))]
<1>4. PICK chunks : chunks = Chunks(data, limit)
  OBVIOUS
<1>5. /\ DOMAIN chunks = 1..count
      /\ \A k \in 1..count : chunks[k] = SubSeq(data, (k - 1) * limit + 1, end(k))
      /\ chunks = [k \in 1..count |-> chunks[k]]
  BY <1>1, <1>2, <1>4 DEF Chunks
<1>6. \A k \in 0..count : end(k) \in 0..L
  <2> TAKE k \in 0..count
  <2>1. PICK m : m = k * limit
    OBVIOUS
  <2>2. m \in Nat
    BY <1>3, <2>1
  <2>3. (IF m < L THEN m ELSE L) \in 0..L
    BY <1>1, <2>2
  <2> QED
    BY <2>1, <2>3
<1>7. end(0) = 0 /\ end(count) = L
  <2>1. PICK z, m : z = 0 * limit /\ m = count * limit
    OBVIOUS
  <2>2. z = 0 /\ m \in Nat /\ m >= L
    BY <1>3, <2>1
  <2>3. (IF z < L THEN z ELSE L) = 0 /\ (IF m < L THEN m ELSE L) = L
    BY <1>1, <2>2
  <2> QED
    BY <2>1, <2>3
<1>8. ASSUME NEW k \in 1..count
      PROVE  (k - 1) * limit = end(k - 1) /\ end(k - 1) <= end(k)
  <2>1. PICK j \in Nat : j = k - 1 /\ k = j + 1 /\ j + 1 <= count
    OBVIOUS
  <2>2. k * limit = j * limit + limit /\ j * limit \in Nat
    BY <2>1
  <2>3. j * limit + limit <= limit * count
    <3>1. (count - (j + 1)) * limit >= 0
      BY <1>3, <2>1
    <3>2. (count - (j + 1)) * limit = limit * count - (j * limit + limit)
      BY <1>3, <2>1
    <3> QED
      BY <1>3, <2>2, <3>1, <3>2
  <2>4. j * limit <= L - 1
    BY <1>3, <2>2, <2>3
  <2> QED
    BY <1>1, <2>1, <2>2, <2>4
<1> HIDE DEF end
<1>9. ASSUME NEW k \in 1..count
      PROVE  /\ chunks[k] = SubSeq(data, end(k - 1) + 1, end(k))
             /\ chunks[k] \in Seq(S)
             /\ run[k] = run[k - 1] \o chunks[k]
  <2>1. k \in 0..count /\ k - 1 \in 0..count
    BY <1>3
  <2>2. PICK a, b : a = end(k - 1) /\ b = end(k)
    OBVIOUS
  <2>3. a \in 0..L /\ b \in a..L
    BY <1>6, <1>8, <2>1, <2>2
  <2>4. chunks[k] = SubSeq(data, a + 1, b)
    BY <1>5, <1>8, <2>2
  <2>5. a + 1 \in 1..(Len(data) + 1) /\ b \in ((a + 1) - 1)..Len(data)
    BY <1>1, <2>3
  <2>6. SubSeq(data, a + 1, b) \in Seq(S)
    BY <2>5, CutTypes
  <2>7. 1 \in 1..(Len(data) + 1) /\ a \in (1 - 1)..Len(data) /\ b \in a..Len(data)
    BY <1>1, <2>3
  <2>8. SubSeq(data, 1, a) \o SubSeq(data, a + 1, b) = SubSeq(data, 1, b)
    BY <2>7, ConcatAdjacentSubSeq
  <2> QED
    BY <2>1, <2>2, <2>4, <2>6, <2>8
<1>10. chunks \in [1..count -> Seq(S)]
  BY <1>5, <1>9
<1>11. IsJoining(run, chunks)
  <2>1. DOMAIN run = 0..Len(chunks) /\ Len(chunks) = count
    BY <1>3, <1>10, LenProperties
  <2>2. run[0] = <<>>
    <3>1. run[0] = SubSeq(data, 1, 0)
      BY <1>3, <1>7
    <3>2. 1 \in Int /\ 0 \in Int /\ 0 < 1
      OBVIOUS
    <3>3. SubSeq(data, 1, 0) = <<>>
      BY <3>2, SubSeqEmpty
    <3> QED
      BY <3>1, <3>3
  <2> HIDE DEF run
  <2> QED
    BY <1>9, <2>1, <2>2 DEF IsJoining
<1>12. Concatenated(chunks) = run[count]
  <2> HIDE DEF run
  <2> QED
    BY <1>3, <1>10, <1>11, JoiningIs
<1>13. run[count] = data
  BY <1>1, <1>3, <1>7, SubSeqFull
<1> QED
  BY <1>3, <1>4, <1>10, <1>12, <1>13

-----------------------------------------------------------------------------
(* Sums and datagrams.                                                     *)

\* A sum of numbers is a number.
LEMMA TotalTypes ==
  ASSUME NEW data \in Seq(Nat)
  PROVE  Total(data) \in Nat
<1>1. PICK n \in Nat : n = Len(data) /\ data \in [1..n -> Nat]
  BY LenProperties
<1> DEFINE step == [k \in 1..n |-> [s \in Nat |-> s + data[k]]]
           IsRun(f) == f = [k \in 0..Len(data) |->
                              IF k = 0 THEN 0 ELSE f[k - 1] + data[k]]
<1>2. \A k \in 1..n : \A s \in Nat : step[k][s] = s + data[k] /\ step[k][s] \in Nat
  BY <1>1
<1>3. Stays(Nat, n, step)
  BY <1>2 DEF Stays
<1>4. PICK f : Computes(f, Nat, 0, n, step)
  <2> HIDE DEF step
  <2> QED
    BY <1>3, Recursion
<1>5. f \in [0..n -> Nat] /\ f[0] = 0 /\ \A k \in 1..n : f[k] = f[k - 1] + data[k]
  <2>1. \A k \in 1..n : k - 1 \in 0..n
    OBVIOUS
  <2> HIDE DEF step
  <2> QED
    BY <1>2, <1>4, <2>1 DEF Computes
<1>6. IsRun(f)
  <2>1. \A k \in 0..n : k # 0 => k \in 1..n
    OBVIOUS
  <2> QED
    BY <1>1, <1>5, <2>1
<1> DEFINE run == CHOOSE g : IsRun(g)
<1>7. IsRun(run) /\ Total(data) = run[n]
  BY <1>1, <1>6 DEF Total
<1> HIDE DEF run
<1>8. run[0] = 0 /\ \A k \in 1..n : run[k] = run[k - 1] + data[k]
  <2>1. \A k \in 0..n : run[k] = IF k = 0 THEN 0 ELSE run[k - 1] + data[k]
    BY <1>1, <1>7, Zenon
  <2>2. 0 \in 0..n /\ \A k \in 1..n : k \in 0..n /\ k # 0
    OBVIOUS
  <2> QED
    BY <2>1, <2>2, Zenon
<1> DEFINE T == {k \in 0..n : run[k] \in Nat}
<1>9. 0 \in T
  BY <1>8
<1>10. \A k \in 1..n : k - 1 \in T => k \in T
  BY <1>1, <1>8
<1>11. \A k \in 0..n : k \in T
  <2> HIDE DEF T
  <2> QED
    BY <1>9, <1>10, Along
<1>12. n \in T
  <2>1. n \in 0..n
    OBVIOUS
  <2> HIDE DEF T
  <2> QED
    BY <1>11, <2>1
<1> HIDE DEF IsRun
<1> QED
  BY <1>7, <1>12

\* A datagram decodes to what it was made of.
THEOREM DatagramInverts ==
  ASSUME NEW logical \in Seq(0..(Bytes - 1)), NEW magic \in Nat, NEW context
  PROVE  /\ EncodeDatagram(logical, context, magic) \in Seq(0..(Bytes - 1))
         /\ DatagramDecodes(EncodeDatagram(logical, context, magic), context)
         /\ DecodeDatagram(EncodeDatagram(logical, context, magic), context, magic)
              = logical
<1>1. PICK B : B = 0..(Bytes - 1)
  OBVIOUS
<1>2. PICK s : s = Swizzle(logical, magic)
  OBVIOUS
<1>3. s \in Seq(B) /\ Unswizzle(s, magic) = logical
  BY <1>1, <1>2, ScrambleInverts
<1>4. CASE context = "reply"
  BY <1>1, <1>2, <1>3, <1>4 DEF EncodeDatagram, DecodeDatagram, DatagramDecodes
<1>5. CASE context # "reply"
  <2>1. PICK b \in Nat \ {0} : b = Bytes
    BY CodecAssumption DEF Bytes
  <2>2. s \in Seq(Nat)
    <3>1. B \subseteq Nat
      BY <1>1, <2>1
    <3> QED
      BY <1>3, <3>1, SeqMonotonic
  <2>3. PICK t \in Nat : t = Total(s)
    BY <2>2, TotalTypes
  <2>4. PICK c : c = Checksum(s)
    OBVIOUS
  <2>5. c \in 0..(b * b - 1)
    <3>1. PICK m \in Nat \ {0} : m = b * b
      BY <2>1
    <3>2. c = t % m
      BY <2>1, <2>3, <2>4, <3>1 DEF Checksum
    <3> QED
      BY <3>1, <3>2
  <2>6. PICK h, l : h = c \div b /\ l = c % b
    OBVIOUS
  <2>7. h \in 0..(b - 1) /\ l \in 0..(b - 1)
    <3>1. c \in Nat /\ h \in Int /\ l \in 0..(b - 1) /\ c = b * h + l
      BY <2>1, <2>5, <2>6
    <3>2. ASSUME h < 0 PROVE FALSE
      <4>1. b * h <= -b
        BY <2>1, <3>1, <3>2
      <4> QED
        BY <2>1, <3>1, <4>1
    <3>3. ASSUME h >= b PROVE FALSE
      <4>1. b * h >= b * b
        BY <2>1, <3>1, <3>3
      <4> QED
        BY <2>5, <3>1, <4>1
    <3> QED
      BY <3>1, <3>2, <3>3
  <2>8. PICK p : p = Frame(s)
    OBVIOUS
  <2>9. p = <<h, l>> \o s /\ h \in B /\ l \in B
    BY <1>1, <2>1, <2>4, <2>6, <2>7, <2>8 DEF Frame
  <2>10. PICK n \in Nat : n = Len(s) /\ s \in [1..n -> B]
    BY <1>3, LenProperties
  <2>11. /\ p \in Seq(B) /\ Len(p) = n + 2
         /\ \A i \in 1..n : p[i + 2] = s[i]
    <3>1. PICK q : q = <<h, l>>
      OBVIOUS
    <3>2. q \in Seq(B) /\ Len(q) = 2
      BY <2>9, <3>1
    <3>5. /\ q \o s \in Seq(B) /\ Len(q \o s) = Len(q) + Len(s)
          /\ \A i \in 1..Len(q) + Len(s) :
               (q \o s)[i] = IF i <= Len(q) THEN q[i] ELSE s[i - Len(q)]
      BY <1>3, <3>2, ConcatProperties
    <3>6. Len(q) = 2 /\ Len(s) = n
      BY <2>10, <3>2
    <3>3. /\ q \o s \in Seq(B) /\ Len(q \o s) = 2 + n
          /\ \A i \in 1..(2 + n) : (q \o s)[i] = IF i <= 2 THEN q[i] ELSE s[i - 2]
      BY <3>5, <3>6
    <3>4. \A i \in 1..n : i + 2 \in 1..(2 + n) /\ ~(i + 2 <= 2) /\ (i + 2) - 2 = i
      BY <2>10
    <3> QED
      BY <2>9, <2>10, <3>1, <3>3, <3>4
  <2>12. SubSeq(p, 3, Len(p)) = s
    <3>1. 3 \in 1..(Len(p) + 1) /\ Len(p) \in (3 - 1)..Len(p) /\ (Len(p) - 3) + 1 = n
      BY <2>10, <2>11
    <3>2. PICK q : q = SubSeq(p, 3, Len(p))
      OBVIOUS
    <3>3. /\ q \in Seq(B) /\ Len(q) = n
          /\ \A k \in 1..n : q[k] = p[3 + k - 1]
      BY <2>11, <3>1, <3>2, CutTypes
    <3>4. \A k \in 1..n : q[k] = s[k]
      <4>1. \A k \in 1..n : 3 + k - 1 = k + 2
        BY <2>10
      <4> QED
        BY <2>11, <3>3, <4>1
    <3>5. q = s
      BY <1>3, <2>10, <3>3, <3>4, SeqEqual
    <3> QED
      BY <3>2, <3>5
  <2>13. IsFramed(p)
    <3>1. Len(p) >= 2
      BY <2>10, <2>11
    <3>2. p = Frame(SubSeq(p, 3, Len(p)))
      BY <2>8, <2>12
    <3> QED
      BY <3>1, <3>2 DEF IsFramed
  <2>14. EncodeDatagram(logical, context, magic) = p
    BY <1>2, <1>5, <2>8 DEF EncodeDatagram
  <2>15. DecodeDatagram(p, context, magic) = logical
    BY <1>3, <1>5, <2>12 DEF DecodeDatagram
  <2> QED
    BY <1>1, <2>11, <2>13, <2>14, <2>15 DEF DatagramDecodes
<1> QED
  BY <1>4, <1>5

-----------------------------------------------------------------------------
(* Numbers in digits.                                                      *)

\* The numbers the first digits make.
IsReading(run, digits) ==
  /\ run[0] = 0
  /\ \A k \in 1..Len(digits) : run[k] = run[k - 1] * Base + digits[k]

\* A number is read digit by digit.
LEMMA NumberRuns ==
  ASSUME NEW n \in Nat, NEW digits \in [1..n -> 0..(Base - 1)]
  PROVE  \E run \in [0..n -> Nat] :
           IsReading(run, digits) /\ Number(digits) = run[n]
<1>1. Len(digits) = n /\ Base \in Nat
  BY LenProperties, CodecAssumption
<1> DEFINE step == [k \in 1..n |-> [s \in Nat |-> s * Base + digits[k]]]
           IsRun(f) == f = [k \in 0..Len(digits) |->
                              IF k = 0 THEN 0 ELSE f[k - 1] * Base + digits[k]]
<1>2. \A k \in 1..n : \A s \in Nat :
        step[k][s] = s * Base + digits[k] /\ s * Base + digits[k] \in Nat
  <2> SUFFICES ASSUME NEW k \in 1..n, NEW s \in Nat
               PROVE  s * Base + digits[k] \in Nat
    BY Zenon
  <2>1. digits[k] \in Nat /\ s * Base \in Nat
    BY <1>1
  <2> QED
    BY <2>1
<1>3. Stays(Nat, n, step)
  <2> HIDE DEF step
  <2> QED
    BY <1>2 DEF Stays
<1>4. PICK f : Computes(f, Nat, 0, n, step)
  <2> HIDE DEF step
  <2> QED
    BY <1>3, Recursion
<1>5. /\ f \in [0..n -> Nat] /\ f[0] = 0
      /\ \A k \in 1..n : f[k] = f[k - 1] * Base + digits[k]
  <2>1. \A k \in 1..n : k - 1 \in 0..n
    OBVIOUS
  <2> HIDE DEF step
  <2>2. f \in [0..n -> Nat] /\ f[0] = 0 /\ \A k \in 1..n : f[k] = step[k][f[k - 1]]
    BY <1>4 DEF Computes
  <2>3. \A k \in 1..n : f[k - 1] \in Nat
    BY <2>1, <2>2
  <2> QED
    BY <1>2, <2>2, <2>3, Zenon
<1>6. IsRun(f)
  <2>1. \A k \in 0..n : k # 0 => k \in 1..n
    OBVIOUS
  <2>2. f = [k \in 0..n |-> f[k]]
    BY <1>5
  <2>3. \A k \in 0..n : f[k] = IF k = 0 THEN 0 ELSE f[k - 1] * Base + digits[k]
    BY <1>5, <2>1, Zenon
  <2> QED
    BY <1>1, <2>2, <2>3, Zenon
<1> DEFINE run == CHOOSE g : IsRun(g)
<1>7. IsRun(run) /\ Number(digits) = run[n]
  BY <1>1, <1>6 DEF Number
<1> HIDE DEF run
<1>8. /\ DOMAIN run = 0..n /\ run = [k \in 0..n |-> run[k]] /\ run[0] = 0
      /\ \A k \in 1..n : run[k] = run[k - 1] * Base + digits[k]
  <2>1. /\ DOMAIN run = 0..n
        /\ \A k \in 0..n : run[k] = IF k = 0 THEN 0 ELSE run[k - 1] * Base + digits[k]
    BY <1>1, <1>7, Zenon
  <2>2. run = [k \in 0..n |-> run[k]]
    BY <1>1, <1>7, Zenon
  <2>3. 0 \in 0..n /\ \A k \in 1..n : k \in 0..n /\ k # 0
    OBVIOUS
  <2> QED
    BY <2>1, <2>2, <2>3, Zenon
<1> HIDE DEF IsRun
<1> DEFINE T == {k \in 0..n : run[k] \in Nat}
<1>9. 0 \in T
  BY <1>8
<1>10. ASSUME NEW k \in 1..n, k - 1 \in T PROVE k \in T
  <2>1. run[k - 1] \in Nat /\ digits[k] \in Nat /\ k \in 0..n
    BY <1>1, <1>10
  <2>2. PICK m \in Nat : m = run[k - 1] * Base
    BY <1>1, <2>1
  <2>3. run[k] = m + digits[k]
    BY <1>8, <2>2
  <2> QED
    BY <2>1, <2>2, <2>3
<1>11. \A k \in 0..n : k \in T
  <2> HIDE DEF T
  <2> QED
    BY <1>9, <1>10, Along
<1>12. run \in [0..n -> Nat]
  BY <1>8, <1>11
<1>13. IsReading(run, digits)
  BY <1>1, <1>8, Zenon DEF IsReading
<1> QED
  BY <1>7, <1>12, <1>13

\* So many digits make fewer than so many numbers.
LEMMA NumberBounds ==
  ASSUME NEW n \in Nat, NEW digits \in [1..n -> 0..(Base - 1)]
  PROVE  Number(digits) \in 0..(Power(n) - 1)
<1>1. PICK run \in [0..n -> Nat] : IsReading(run, digits) /\ Number(digits) = run[n]
  BY NumberRuns
<1>2. PICK b \in Nat \ {0} : b = Base
  BY CodecAssumption
<1>3. Len(digits) = n
  BY LenProperties
<1> DEFINE T == {k \in 0..n : run[k] < Power(k)}
<1>4. 0 \in T
  BY <1>1, Powers DEF IsReading
<1>5. ASSUME NEW k \in 1..n, k - 1 \in T PROVE k \in T
  <2>1. PICK j \in Nat : j = k - 1 /\ k = j + 1 /\ j \in 0..n
    OBVIOUS
  <2>2. PICK r, p, q, d : r = run[j] /\ p = Power(j) /\ q = Power(k) /\ d = digits[k]
    OBVIOUS
  <2>3. r \in Nat /\ p \in Nat \ {0} /\ q = b * p /\ d \in 0..(b - 1) /\ r < p
    BY <1>2, <1>5, <2>1, <2>2, Powers
  <2>4. run[k] = r * b + d
    BY <1>1, <1>2, <1>3, <2>1, <2>2 DEF IsReading
  <2>5. r * b <= (p - 1) * b
    BY <1>2, <2>3
  <2>6. (p - 1) * b = q - b /\ q \in Nat /\ r * b \in Nat
    BY <1>2, <2>3
  <2>7. r * b + d < q
    BY <1>2, <2>3, <2>5, <2>6
  <2> QED
    BY <2>2, <2>4, <2>7
<1>6. n \in T
  <2>1. n \in 0..n
    OBVIOUS
  <2> HIDE DEF T
  <2>2. \A k \in 0..n : k \in T
    BY <1>4, <1>5, Along
  <2> QED
    BY <2>1, <2>2
<1>7. run[n] \in Nat /\ Power(n) \in Nat
  BY Powers
<1> QED
  BY <1>1, <1>6, <1>7

\* As many digits as asked for, each below Base.
LEMMA DigitsTypes ==
  ASSUME NEW n \in Int, NEW width \in Nat
  PROVE  /\ Digits(n, width) \in [1..width -> 0..(Base - 1)]
         /\ Digits(n, width) \in Seq(0..(Base - 1)) /\ Len(Digits(n, width)) = width
<1>1. PICK b \in Nat \ {0} : b = Base
  BY CodecAssumption
<1>2. \A i \in 1..width : ((n \div Power(width - i)) % b) \in 0..(b - 1)
  <2> TAKE i \in 1..width
  <2>1. PICK p \in Nat \ {0} : p = Power(width - i)
    <3>1. width - i \in Nat
      OBVIOUS
    <3> QED
      BY <3>1, Powers
  <2>2. PICK q \in Int : q = n \div p
    BY <2>1
  <2>3. q % b \in 0..(b - 1)
    BY <1>1, <2>2
  <2> QED
    BY <2>1, <2>2, <2>3
<1>3. PICK d : d = Digits(n, width)
  OBVIOUS
<1>4. d \in [1..width -> 0..(Base - 1)]
  BY <1>1, <1>2, <1>3 DEF Digits
<1>5. d \in Seq(0..(Base - 1)) /\ Len(d) = width
  <2>1. d \in Seq(0..(Base - 1))
    BY <1>4, SeqDef
  <2> QED
    BY <1>4, <2>1, LenProperties
<1> QED
  BY <1>3, <1>4, <1>5

\* The digits of a number make that number.
LEMMA DigitsInvert ==
  ASSUME NEW width \in Nat, NEW n \in 0..(Power(width) - 1)
  PROVE  Number(Digits(n, width)) = n
<1>1. n \in Nat /\ Power(width) \in Nat \ {0}
  BY Powers
<1>2. PICK d : d = Digits(n, width)
  OBVIOUS
<1>3. d \in [1..width -> 0..(Base - 1)] /\ Len(d) = width
  <2>1. n \in Int
    BY <1>1
  <2> QED
    BY <1>2, <2>1, DigitsTypes
<1>4. PICK run \in [0..width -> Nat] : IsReading(run, d) /\ Number(d) = run[width]
  BY <1>3, NumberRuns
<1> DEFINE T == {k \in 0..width : run[k] = n \div Power(width - k)}
<1>5. 0 \in T
  <2>1. PICK p \in Nat \ {0} : p = Power(width)
    BY <1>1
  <2>2. n = p * 0 + n /\ n \in 0..(p - 1)
    BY <1>1, <2>1
  <2>3. n \div p = 0
    BY <1>1, <2>1, <2>2, DivisionIs
  <2>4. run[0] = 0 /\ width - 0 = width
    BY <1>4 DEF IsReading
  <2> QED
    BY <2>1, <2>3, <2>4
<1>6. ASSUME NEW k \in 1..width, k - 1 \in T PROVE k \in T
  <2>1. PICK j \in Nat : j = width - k /\ j + 1 = width - (k - 1)
    OBVIOUS
  <2>2. run[k - 1] = n \div Power(j + 1)
    BY <1>6, <2>1
  <2>3. d[k] = (n \div Power(j)) % Base
    BY <1>2, <2>1 DEF Digits
  <2>4. n \div Power(j) = (n \div Power(j + 1)) * Base + ((n \div Power(j)) % Base)
    BY <1>1, <2>1, Quotients
  <2>5. run[k] = run[k - 1] * Base + d[k]
    BY <1>3, <1>4 DEF IsReading
  <2>6. run[k] = n \div Power(j)
    BY <2>2, <2>3, <2>4, <2>5, Zenon
  <2> QED
    BY <2>1, <2>6
<1>7. width \in T
  <2>1. width \in 0..width
    OBVIOUS
  <2> HIDE DEF T
  <2>2. \A k \in 0..width : k \in T
    BY <1>5, <1>6, Along
  <2> QED
    BY <2>1, <2>2
<1>8. run[width] = n
  <2>1. width - width = 0 /\ Power(0) = 1
    BY Powers
  <2>2. run[width] = n \div 1
    BY <1>7, <2>1
  <2> QED
    BY <1>1, <2>2
<1> QED
  BY <1>2, <1>4, <1>8

-----------------------------------------------------------------------------
(* Numbers of fields.                                                      *)

\* The number a value is written as.
Wire(f, v) ==
  LET n == Rounded(f, v)
  IN  CASE f.kind = "signed" -> n % Size(f)
        [] f.kind = "narrow" -> n % Low(f)
        [] f.kind = "colour" -> Reversed(v)
        [] OTHER             -> n

\* The digits of a value are those of its wire number.
LEMMA WireDigits ==
  ASSUME NEW f, NEW v
  PROVE  NumberDigits(f, v) = Digits(Wire(f, v), f.width)
BY Zenon DEF NumberDigits, Wire

\* How many numbers there are is even.
LEMMA Sizes ==
  ASSUME NEW f, FieldIsValid(f), ~IsText(f)
  PROVE  /\ Size(f) \in Nat \ {0} /\ Size(f) % 2 = 0
         /\ f.scale \in Nat \ {0} /\ f.width \in Nat
         /\ Low(f) \in Nat /\ Low(f) <= Size(f)
         /\ f.kind \in {"narrow", "packed"} => Low(f) # 0
         /\ f.kind = "narrow" => Low(f) % 2 = 0
         /\ f.kind = "colour" => Channel * Channel * Channel <= Size(f)
         /\ f.kind \in {"unsigned", "signed", "power", "narrow", "packed", "colour"}
<1>1. PICK w \in Nat : f.width = w + 1 /\ f.width \in Nat
  <2>1. f.width \in Nat /\ f.width # 0
    BY DEF FieldIsValid
  <2>2. f.width - 1 \in Nat /\ f.width = (f.width - 1) + 1
    BY <2>1
  <2> QED
    BY <2>1, <2>2
<1>2. PICK p \in Nat \ {0}, s \in Nat : p = Power(w) /\ s = Size(f) /\ s = Base * p
  <2>1. PICK p \in Nat \ {0} : p = Power(w) /\ Size(f) = Base * p
    BY <1>1, Powers DEF Size
  <2>2. Base \in Nat
    BY CodecAssumption
  <2>3. Base * p \in Nat
    BY <2>2
  <2> QED
    BY <2>1, <2>3
<1>3. PICK h \in Nat : Base = 2 * h /\ Base \in Nat \ {0}
  <2>1. Base \in Nat \ {0} /\ Base % 2 = 0
    BY CodecAssumption, Bits
  <2>2. Base \div 2 \in Nat /\ Base = 2 * (Base \div 2)
    BY <2>1
  <2> QED
    BY <2>1, <2>2
<1>4. s \in Nat \ {0} /\ s = 2 * (h * p) + 0 /\ h * p \in Int
  BY <1>2, <1>3
<1>5. s % 2 = 0
  BY <1>4, DivisionIs
<1>6. Low(f) \in Nat /\ Low(f) <= s
  <2>1. PICK q \in Nat \ {0, 1} : q = Padding
    BY CodecAssumption
  <2>2. PICK l, r : l = s \div q /\ r = s % q
    OBVIOUS
  <2>3. l \in Int /\ r \in 0..(q - 1) /\ s = q * l + r
    BY <1>4, <2>1, <2>2
  <2>4. ASSUME l < 0 PROVE FALSE
    <3>1. q * l <= -q
      BY <2>1, <2>3, <2>4
    <3> QED
      BY <1>4, <2>1, <2>3, <3>1
  <2>5. q * l >= l
    BY <2>1, <2>3, <2>4
  <2>6. l \in Nat /\ l <= s
    <3>1. PICK m : m = q * l
      OBVIOUS
    <3>2. m \in Int /\ m >= l /\ s = m + r
      BY <2>1, <2>3, <2>5, <3>1
    <3> QED
      BY <1>4, <2>3, <2>4, <3>2
  <2> QED
    BY <1>2, <2>1, <2>2, <2>6 DEF Low
<1>7. f.kind \in {"unsigned", "signed", "power", "narrow", "packed", "colour"}
  BY DEF FieldIsValid, IsText
<1> QED
  BY <1>1, <1>2, <1>4, <1>5, <1>6, <1>7 DEF FieldIsValid

\* A whole number of units is rounded to itself.
LEMMA RoundedExactly ==
  ASSUME NEW f, f.scale \in Nat \ {0}, NEW n \in Int
  PROVE  Rounded(f, f.scale * n) = n
<1>1. PICK c \in Nat \ {0} : c = f.scale
  OBVIOUS
<1>2. PICK v : v = c * n
  OBVIOUS
<1>3. v \in Int
  BY <1>2
<1>4. HalfEven(v, c) = n
  <2>1. v = c * n + 0 /\ 0 \in 0..(c - 1)
    BY <1>1, <1>2, <1>3
  <2>2. v \div c = n /\ v % c = 0
    BY <1>3, <2>1, DivisionIs
  <2>3. 2 * 0 = 0 /\ ~(0 > c) /\ 0 # c
    BY <1>1
  <2> QED
    BY <2>2, <2>3, Zenon DEF HalfEven
<1>5. HalfUp(v, c) = n
  <2>1. PICK d \in Nat \ {0} : d = 2 * c
    BY <1>1
  <2>2. 2 * v + c = d * n + c /\ c \in 0..(d - 1) /\ 2 * v + c \in Int
    <3>1. 2 * v = d * n
      BY <1>1, <1>2, <2>1
    <3> QED
      BY <1>1, <1>3, <2>1, <3>1
  <2>3. (2 * v + c) \div d = n
    BY <2>2, DivisionIs
  <2> QED
    BY <2>1, <2>3 DEF HalfUp
<1> QED
  BY <1>1, <1>2, <1>4, <1>5, Zenon DEF Rounded

\* What rounding returns.
LEMMA RoundedTypes ==
  ASSUME NEW f, f.scale \in Nat \ {0}, NEW v \in Int
  PROVE  Rounded(f, v) \in Int
<1>1. PICK c \in Nat \ {0} : c = f.scale
  OBVIOUS
<1>2. v \div c \in Int /\ (2 * v + c) \div (2 * c) \in Int
  <2>1. PICK d \in Nat \ {0}, w \in Int : d = 2 * c /\ w = 2 * v + c
    BY <1>1
  <2>2. v \div c \in Int
    BY <1>1
  <2>3. w \div d \in Int
    BY <2>1
  <2> QED
    BY <2>1, <2>2, <2>3
<1>3. HalfEven(v, c) \in {v \div c, (v \div c) + 1}
  BY Zenon DEF HalfEven
<1>4. HalfUp(v, c) \in Int /\ HalfEven(v, c) \in Int
  BY <1>2, <1>3 DEF HalfUp
<1> QED
  BY <1>1, <1>4, Zenon DEF Rounded

\* A signed number in its bits.
LEMMA SignedInverts ==
  ASSUME NEW size \in Nat \ {0}, size % 2 = 0
  PROVE  /\ \A n \in 0..(size - 1) :
              /\ Signed(n, size) \in -(size \div 2)..((size \div 2) - 1)
              /\ Signed(n, size) % size = n
         /\ \A n \in Int : -(size \div 2) <= n /\ n < size \div 2 =>
              n % size \in 0..(size - 1) /\ Signed(n % size, size) = n
<1>1. PICK h \in Nat \ {0} : h = size \div 2 /\ size = 2 * h
  OBVIOUS
<1>2. ASSUME NEW n \in 0..(size - 1)
      PROVE  Signed(n, size) \in -h..(h - 1) /\ Signed(n, size) % size = n
  <2>1. CASE n >= h
    <3>1. Signed(n, size) = n - size
      BY <1>1, <2>1 DEF Signed
    <3>2. n - size = size * (-1) + n /\ n - size \in Int /\ -1 \in Int
      OBVIOUS
    <3>3. (n - size) % size = n
      BY <3>2, DivisionIs
    <3> QED
      BY <1>1, <2>1, <3>1, <3>3
  <2>2. CASE ~(n >= h)
    <3>1. Signed(n, size) = n
      BY <1>1, <2>2 DEF Signed
    <3>2. n = size * 0 + n /\ n \in Int
      OBVIOUS
    <3>3. n % size = n
      BY <3>2, DivisionIs
    <3> QED
      BY <1>1, <2>2, <3>1, <3>3
  <2> QED
    BY <2>1, <2>2
<1>3. ASSUME NEW n \in Int, -h <= n, n < h
      PROVE  n % size \in 0..(size - 1) /\ Signed(n % size, size) = n
  <2>1. CASE n >= 0
    <3>1. n = size * 0 + n /\ n \in 0..(size - 1)
      BY <1>1, <1>3, <2>1
    <3>2. n % size = n
      BY <3>1, DivisionIs
    <3> QED
      BY <1>1, <1>3, <3>1, <3>2 DEF Signed
  <2>2. CASE n < 0
    <3>1. PICK m : m = n + size
      OBVIOUS
    <3>2. n = size * (-1) + m /\ m \in 0..(size - 1) /\ -1 \in Int /\ m >= h
      BY <1>1, <1>3, <2>2, <3>1
    <3>3. n % size = m
      BY <3>2, DivisionIs
    <3>4. Signed(m, size) = n
      BY <1>1, <3>1, <3>2 DEF Signed
    <3> QED
      BY <3>2, <3>3, <3>4
  <2> QED
    BY <2>1, <2>2
<1> QED
  BY <1>1, <1>2, <1>3

\* The channels of a colour, and what is above them.
HasChannels(n, q, x, y, z) ==
  /\ q \in Int /\ x \in 0..(Channel - 1) /\ y \in 0..(Channel - 1)
  /\ z \in 0..(Channel - 1)
  /\ n = Channel * (Channel * (Channel * q + x) + y) + z
  /\ n < Channel * Channel * Channel => q = 0

\* A colour of three channels.
LEMMA ReversedIs ==
  ASSUME NEW n \in Int, NEW q, NEW x, NEW y, NEW z, HasChannels(n, q, x, y, z)
  PROVE  /\ Reversed(n) = Channel * (Channel * z + y) + x
         /\ Reversed(n) \in 0..(Channel * Channel * Channel - 1)
<1>11. /\ x \in 0..(Channel - 1) /\ y \in 0..(Channel - 1)
       /\ z \in 0..(Channel - 1) /\ q \in Int
       /\ n = Channel * (Channel * (Channel * q + x) + y) + z
  BY DEF HasChannels
<1>1. PICK c \in Nat \ {0} : c = Channel
  BY CodecAssumption
<1>2. PICK a, b : a = c * b + y /\ b = c * q + x
  OBVIOUS
<1>3. a \in Int /\ b \in Int /\ n = c * a + z
  BY <1>1, <1>11, <1>2
<1>4. n \div c = a /\ n % c = z
  BY <1>1, <1>11, <1>3, DivisionIs, ZenonT(40)
<1>5. a \div c = b /\ a % c = y
  BY <1>1, <1>11, <1>2, <1>3, DivisionIs, ZenonT(40)
<1>6. b % c = x
  BY <1>1, <1>11, <1>2, <1>3, DivisionIs
<1>7. n \div (c * c) = b
  <2>1. PICK d \in Nat \ {0} : d = c * c
    BY <1>1, <1>11
  <2>2. n = d * b + (c * y + z)
    BY <1>1, <1>11, <1>2, <1>3, <2>1
  <2>3. c * y + z \in 0..(d - 1)
    <3>1. c * y <= c * (c - 1)
      BY <1>1, <1>11
    <3>2. c * (c - 1) = d - c /\ c * y \in Nat
      BY <1>1, <1>11, <2>1
    <3> QED
      BY <1>1, <1>11, <2>1, <3>1, <3>2
  <2>4. n \div d = b
    BY <1>3, <2>1, <2>2, <2>3, DivisionIs
  <2> QED
    BY <2>1, <2>4
<1>8. Reversed(n) = z * c * c + y * c + x
  BY <1>1, <1>11, <1>4, <1>5, <1>6, <1>7 DEF Reversed
<1>9. z * c * c + y * c + x = c * (c * z + y) + x
  BY <1>1, <1>11
<1>10. c * (c * z + y) + x \in 0..(c * c * c - 1)
  <2>1. PICK w : w = c * z + y
    OBVIOUS
  <2>2. c * z <= c * (c - 1) /\ c * z \in Nat
    BY <1>1, <1>11
  <2>3. w \in Nat /\ w <= c * c - 1
    BY <1>1, <1>11, <2>1, <2>2
  <2>4. c * w <= c * (c * c - 1) /\ c * w \in Nat
    BY <1>1, <1>11, <2>3
  <2>5. c * (c * c - 1) = c * c * c - c
    BY <1>1, <1>11
  <2>6. c * c * c \in Nat
    BY <1>1, <1>11
  <2>7. PICK m, k : m = c * w /\ k = c * c * c
    OBVIOUS
  <2>8. m \in Nat /\ k \in Nat /\ m <= k - c
    BY <2>4, <2>5, <2>6, <2>7
  <2>9. m + x \in 0..(k - 1)
    BY <1>1, <1>11, <2>8
  <2> QED
    BY <2>1, <2>7, <2>9
<1> QED
  BY <1>1, <1>8, <1>9, <1>10

\* Its channels change places twice.
LEMMA ReversedInverts ==
  /\ \A n \in Nat : Reversed(n) \in 0..(Channel * Channel * Channel - 1)
  /\ \A n \in 0..(Channel * Channel * Channel - 1) : Reversed(Reversed(n)) = n
<1>1. PICK c \in Nat \ {0} : c = Channel
  BY CodecAssumption
<1>2. ASSUME NEW n \in Nat
      PROVE  \E q, x, y, z : HasChannels(n, q, x, y, z)
  <2>1. PICK a, z : a = n \div c /\ z = n % c
    OBVIOUS
  <2>2. a \in Int /\ z \in 0..(c - 1) /\ n = c * a + z
    BY <1>1, <2>1
  <2>3. PICK b, y : b = a \div c /\ y = a % c
    OBVIOUS
  <2>4. b \in Int /\ y \in 0..(c - 1) /\ a = c * b + y
    BY <1>1, <2>2, <2>3
  <2>5. PICK q, x : q = b \div c /\ x = b % c
    OBVIOUS
  <2>6. q \in Int /\ x \in 0..(c - 1) /\ b = c * q + x
    BY <1>1, <2>4, <2>5
  <2>7. ASSUME n < c * c * c PROVE q = 0
    <3>0. PICK k \in Nat \ {0} : k = c * c
      BY <1>1
    <3>1. a >= 0
      <4>1. ASSUME a < 0 PROVE FALSE
        <5>1. c * a <= -c
          BY <1>1, <2>2, <4>1
        <5> QED
          BY <1>1, <2>2, <5>1
      <4> QED
        BY <2>2, <4>1
    <3>2. b >= 0
      <4>1. ASSUME b < 0 PROVE FALSE
        <5>1. c * b <= -c
          BY <1>1, <2>4, <4>1
        <5> QED
          BY <1>1, <2>4, <3>1, <5>1
      <4> QED
        BY <2>4, <4>1
    <3>3. q >= 0
      <4>1. ASSUME q < 0 PROVE FALSE
        <5>1. c * q <= -c
          BY <1>1, <2>6, <4>1
        <5> QED
          BY <1>1, <2>6, <3>2, <5>1
      <4> QED
        BY <2>6, <4>1
    <3>4. a < k
      <4>1. ASSUME a >= k PROVE FALSE
        <5>1. c * a >= c * k
          BY <1>1, <2>2, <3>0, <4>1
        <5>2. c * k = c * c * c
          BY <1>1, <3>0
        <5>3. PICK m, t : m = c * a /\ t = c * c * c
          OBVIOUS
        <5>4. m \in Int /\ t \in Int /\ m >= t /\ n = m + z /\ n < t
          BY <1>1, <2>2, <2>7, <3>0, <5>1, <5>2, <5>3
        <5> QED
          BY <2>2, <5>4
      <4> QED
        BY <2>2, <3>0, <4>1
    <3>5. b < c
      <4>1. ASSUME b >= c PROVE FALSE
        <5>1. c * b >= c * c
          BY <1>1, <2>4, <4>1
        <5> QED
          BY <1>1, <2>4, <3>0, <3>4, <5>1
      <4> QED
        BY <1>1, <2>4, <4>1
    <3>6. q < 1
      <4>1. ASSUME q >= 1 PROVE FALSE
        <5>1. c * q >= c
          BY <1>1, <2>6, <4>1
        <5> QED
          BY <1>1, <2>6, <3>5, <5>1
      <4> QED
        BY <2>6, <4>1
    <3> QED
      BY <2>6, <3>3, <3>6
  <2>8. n = c * (c * (c * q + x) + y) + z
    BY <2>2, <2>4, <2>6
  <2>9. HasChannels(n, q, x, y, z)
    BY <1>1, <2>2, <2>4, <2>6, <2>7, <2>8 DEF HasChannels
  <2> QED
    BY <2>9
<1>3. ASSUME NEW n \in Nat
      PROVE  Reversed(n) \in 0..(c * c * c - 1)
  <2>3. PICK q, x, y, z : HasChannels(n, q, x, y, z)
    BY <1>2
  <2>1. /\ x \in 0..(c - 1) /\ y \in 0..(c - 1) /\ z \in 0..(c - 1) /\ q \in Int
        /\ n = c * (c * (c * q + x) + y) + z
    BY <1>1, <2>3 DEF HasChannels
  <2>2. n \in Int
    OBVIOUS
  <2> QED
    BY <1>1, <2>2, <2>3, ReversedIs
<1>4. ASSUME NEW n \in 0..(c * c * c - 1)
      PROVE  Reversed(Reversed(n)) = n
  <2>1. n \in Nat /\ n < c * c * c /\ n \in Int
    BY <1>1
  <2>8. PICK q, x, y, z : HasChannels(n, q, x, y, z)
    BY <1>2, <2>1
  <2>2. /\ x \in 0..(c - 1) /\ y \in 0..(c - 1) /\ z \in 0..(c - 1) /\ q \in Int
        /\ n = c * (c * (c * q + x) + y) + z /\ q = 0
    BY <1>1, <2>1, <2>8 DEF HasChannels
  <2>3. n = c * (c * x + y) + z
    BY <1>1, <2>2
  <2>4. Reversed(n) = c * (c * z + y) + x
    BY <1>1, <2>1, <2>8, ReversedIs
  <2>5. PICK b \in Int, m \in Int : b = c * z + y /\ m = c * b + x
    <3>1. c * z + y \in Int
      BY <1>1, <2>2
    <3>2. PICK b \in Int : b = c * z + y
      BY <3>1
    <3>3. c * b + x \in Int
      BY <1>1, <2>2, <3>2
    <3> QED
      BY <3>2, <3>3
  <2>6. m = c * (c * (c * 0 + z) + y) + x
    <3>1. c * 0 + z = z
      BY <1>1, <2>2
    <3> QED
      BY <2>5, <3>1
  <2>7. Reversed(m) = c * (c * x + y) + z
    <3>1. 0 \in Int
      OBVIOUS
    <3>2. HasChannels(m, 0, z, y, x)
      BY <1>1, <2>2, <2>6, <3>1 DEF HasChannels
    <3> QED
      BY <1>1, <2>5, <3>2, ReversedIs
  <2> QED
    BY <2>3, <2>4, <2>5, <2>7
<1> QED
  BY <1>1, <1>3, <1>4

-----------------------------------------------------------------------------
(* A value that fits, and one that was read.                               *)

IsWired(f, w) == w \in 0..(Size(f) - 1) /\ NumberIsValid(f, w)

\* What a number on the wire means can be written, as that number for a value
\* that was written before.
LEMMA WireFits ==
  ASSUME NEW f, FieldIsValid(f), ~IsText(f), NEW w, IsWired(f, w)
  PROVE  NumberValue(f, w) \in Int /\ NumberFits(f, NumberValue(f, w))
<1>1. PICK s \in Nat \ {0}, l \in Nat, c \in Nat \ {0} :
        /\ s = Size(f) /\ l = Low(f) /\ c = f.scale /\ l <= s /\ s % 2 = 0
        /\ f.kind \in {"narrow", "packed"} => l # 0
        /\ f.kind = "narrow" => l % 2 = 0
        /\ f.kind \in {"unsigned", "signed", "power", "narrow", "packed", "colour"}
  BY Sizes
<1>2. w \in 0..(s - 1) /\ w \in Int
  BY <1>1 DEF IsWired
<1>3. \A n \in Int : c * n \in Int /\ Rounded(f, c * n) = n
  BY <1>1, RoundedExactly
<1>4. CASE f.kind = "signed"
  <2>1. PICK n : n = Signed(w, s)
    OBVIOUS
  <2>2. n \in -(s \div 2)..((s \div 2) - 1) /\ s \div 2 \in Int
    BY <1>1, <1>2, <2>1, SignedInverts
  <2>3. n \in Int /\ -(s \div 2) <= n /\ n < s \div 2
    BY <2>2
  <2>4. NumberValue(f, w) = c * n
    BY <1>1, <1>4, <2>1 DEF NumberValue
  <2>5. Rounded(f, c * n) = n /\ c * n \in Int
    BY <1>3, <2>3
  <2>6. NumberFits(f, c * n) <=>
          -(s \div 2) <= Rounded(f, c * n) /\ Rounded(f, c * n) < s \div 2
    BY <1>1, <1>4 DEF NumberFits
  <2> QED
    BY <2>3, <2>4, <2>5, <2>6
<1>5. CASE f.kind = "narrow"
  <2>1. PICK n, m : n = Signed(m, l) /\ m = w % l
    OBVIOUS
  <2>2. m \in 0..(l - 1) /\ l \in Nat \ {0} /\ l % 2 = 0
    BY <1>1, <1>2, <1>5, <2>1
  <2>3. n \in -(l \div 2)..((l \div 2) - 1) /\ l \div 2 \in Int
    BY <2>1, <2>2, SignedInverts
  <2>4. n \in Int /\ -(l \div 2) <= n /\ n < l \div 2
    BY <2>3
  <2>5. NumberValue(f, w) = c * n
    BY <1>1, <1>5, <2>1 DEF NumberValue
  <2>6. Rounded(f, c * n) = n /\ c * n \in Int
    BY <1>3, <2>4
  <2>7. NumberFits(f, c * n) <=>
          -(l \div 2) <= Rounded(f, c * n) /\ Rounded(f, c * n) < l \div 2
    BY <1>1, <1>5 DEF NumberFits
  <2> QED
    BY <2>4, <2>5, <2>6, <2>7
<1>6. CASE f.kind = "colour"
  <2>1. NumberValue(f, w) = Reversed(w)
    BY <1>6 DEF NumberValue
  <2>2. Reversed(w) \in 0..(Channel * Channel * Channel - 1)
    BY <1>2, ReversedInverts
  <2>3. NumberFits(f, Reversed(w)) <=>
          Reversed(w) \in 0..(Channel * Channel * Channel - 1)
    BY <1>6 DEF NumberFits
  <2> QED
    BY <2>1, <2>2, <2>3
<1>7. CASE f.kind = "packed"
  <2>1. NumberValue(f, w) = c * w
    BY <1>1, <1>7 DEF NumberValue
  <2>2. w \div l = 0
    BY <1>1, <1>7 DEF IsWired, NumberIsValid
  <2>3. w \in 0..(l - 1)
    <3>1. l \in Nat \ {0}
      BY <1>1, <1>7
    <3>2. w = l * (w \div l) + (w % l) /\ (w % l) \in 0..(l - 1)
      BY <1>2, <3>1
    <3>3. l * 0 = 0
      OBVIOUS
    <3> QED
      BY <2>2, <3>2, <3>3
  <2>4. Rounded(f, c * w) = w /\ c * w \in Int
    BY <1>2, <1>3
  <2>5. NumberFits(f, c * w) <=> Rounded(f, c * w) \in 0..(l - 1)
    BY <1>1, <1>7 DEF NumberFits
  <2> QED
    BY <2>1, <2>3, <2>4, <2>5
<1>8. CASE f.kind = "power"
  <2>1. NumberValue(f, w) = c * w
    BY <1>1, <1>8 DEF NumberValue
  <2>2. c * w \in 0..(c * (s - 1)) /\ c * w \in Int
    BY <1>1, <1>2
  <2>3. NumberFits(f, c * w) <=> c * w \in 0..(c * (s - 1))
    BY <1>1, <1>8 DEF NumberFits
  <2> QED
    BY <2>1, <2>2, <2>3
<1>9. CASE f.kind = "unsigned"
  <2>1. NumberValue(f, w) = c * w
    BY <1>1, <1>9 DEF NumberValue
  <2>2. Rounded(f, c * w) = w /\ c * w \in Int
    BY <1>2, <1>3
  <2>3. NumberFits(f, c * w) <=> Rounded(f, c * w) \in 0..(s - 1)
    BY <1>1, <1>9 DEF NumberFits
  <2> QED
    BY <1>2, <2>1, <2>2, <2>3
<1> QED
  BY <1>1, <1>4, <1>5, <1>6, <1>7, <1>8, <1>9

\* The value read for a wire number is written as that number again, and an
\* unsigned value that is not scaled is itself again.
LEMMA WireInverts ==
  ASSUME NEW f, FieldIsValid(f), ~IsText(f), NEW v \in Int, NumberFits(f, v),
         NEW w, w = Wire(f, v)
  PROVE  /\ IsWired(f, w) /\ Wire(f, NumberValue(f, w)) = w
         /\ f.kind = "unsigned" /\ f.scale = 1 => NumberValue(f, w) = v
<1>1. PICK s \in Nat \ {0}, l \in Nat, c \in Nat \ {0} :
        /\ s = Size(f) /\ l = Low(f) /\ c = f.scale /\ l <= s /\ s % 2 = 0
        /\ f.kind \in {"narrow", "packed"} => l # 0
        /\ f.kind = "narrow" => l % 2 = 0
        /\ f.kind = "colour" => Channel * Channel * Channel <= s
        /\ f.kind \in {"unsigned", "signed", "power", "narrow", "packed", "colour"}
  BY Sizes
<1>2. \A n \in Int : c * n \in Int /\ Rounded(f, c * n) = n
  BY <1>1, RoundedExactly
<1>3. PICK n \in Int : n = Rounded(f, v)
  BY <1>1, RoundedTypes
<1>4. CASE f.kind = "signed"
  <2>1. -(s \div 2) <= n /\ n < s \div 2
    BY <1>1, <1>3, <1>4 DEF NumberFits
  <2>2. w = n % s
    BY <1>1, <1>3, <1>4 DEF Wire
  <2>3. w \in 0..(s - 1) /\ Signed(w, s) = n
    BY <1>1, <2>1, <2>2, SignedInverts
  <2>4. NumberValue(f, w) = c * n
    BY <1>1, <1>4, <2>3 DEF NumberValue
  <2>5. Wire(f, c * n) = w
    BY <1>1, <1>2, <1>4, <2>2 DEF Wire
  <2>6. NumberIsValid(f, w)
    BY <1>4 DEF NumberIsValid
  <2> QED
    BY <1>1, <1>4, <2>3, <2>4, <2>5, <2>6 DEF IsWired
<1>5. CASE f.kind = "narrow"
  <2>1. l \in Nat \ {0} /\ l % 2 = 0
    BY <1>1, <1>5
  <2>2. -(l \div 2) <= n /\ n < l \div 2
    BY <1>1, <1>3, <1>5 DEF NumberFits
  <2>3. w = n % l
    BY <1>1, <1>3, <1>5 DEF Wire
  <2>4. w \in 0..(l - 1) /\ Signed(w, l) = n
    BY <2>1, <2>2, <2>3, SignedInverts
  <2>5. w \div l = 0 /\ w % l = w
    <3>1. w = l * 0 + w /\ w \in Int
      BY <2>1, <2>4
    <3> QED
      BY <2>1, <2>4, <3>1, DivisionIs
  <2>6. NumberValue(f, w) = c * n
    BY <1>1, <1>5, <2>4, <2>5 DEF NumberValue
  <2>7. Wire(f, c * n) = w
    BY <1>1, <1>2, <1>5, <2>3 DEF Wire
  <2>8. NumberIsValid(f, w)
    BY <1>1, <1>5, <2>5 DEF NumberIsValid
  <2>9. w \in 0..(s - 1)
    BY <1>1, <2>4
  <2> QED
    BY <1>1, <1>5, <2>6, <2>7, <2>8, <2>9 DEF IsWired
<1>6. CASE f.kind = "colour"
  <2>1. v \in 0..(Channel * Channel * Channel - 1)
    BY <1>6 DEF NumberFits
  <2>2. w = Reversed(v) /\ Wire(f, v) = Reversed(v)
    BY <1>6 DEF Wire
  <2>3. v \in Nat
    <3>1. PICK k \in Nat : k = Channel * Channel * Channel
      BY CodecAssumption
    <3> QED
      BY <2>1, <3>1
  <2>4. w \in 0..(Channel * Channel * Channel - 1) /\ Reversed(w) = v
    BY <2>1, <2>2, <2>3, ReversedInverts
  <2>5. NumberValue(f, w) = v
    BY <1>6, <2>4 DEF NumberValue
  <2>6. NumberIsValid(f, w)
    BY <1>6 DEF NumberIsValid
  <2>7. w \in 0..(s - 1)
    <3>1. PICK k \in Nat : k = Channel * Channel * Channel
      BY CodecAssumption
    <3>2. k <= s /\ w \in 0..(k - 1)
      BY <1>1, <1>6, <2>4, <3>1
    <3> QED
      BY <3>2
  <2> QED
    BY <1>1, <1>6, <2>2, <2>5, <2>6, <2>7 DEF IsWired
<1>7. CASE f.kind = "packed"
  <2>1. n \in 0..(l - 1) /\ l \in Nat \ {0}
    BY <1>1, <1>3, <1>7 DEF NumberFits
  <2>2. w = n
    BY <1>3, <1>7 DEF Wire
  <2>3. w \div l = 0
    <3>1. w = l * 0 + w /\ w \in Int
      BY <2>1, <2>2
    <3> QED
      BY <2>1, <2>2, <3>1, DivisionIs
  <2>4. NumberValue(f, w) = c * n
    BY <1>1, <1>7, <2>2 DEF NumberValue
  <2>5. Wire(f, c * n) = w
    BY <1>2, <1>7, <2>2 DEF Wire
  <2>6. NumberIsValid(f, w)
    BY <1>1, <1>7, <2>3 DEF NumberIsValid
  <2>7. w \in 0..(s - 1)
    BY <1>1, <2>1, <2>2
  <2> QED
    BY <1>1, <1>7, <2>4, <2>5, <2>6, <2>7 DEF IsWired
<1>8. CASE f.kind = "power"
  <2>1. v \in 0..(c * (s - 1))
    BY <1>1, <1>8 DEF NumberFits
  <2>2. w = n
    BY <1>3, <1>8 DEF Wire
  <2>3. n = HalfUp(v, c)
    BY <1>1, <1>3, <1>8 DEF Rounded
  <2>4. n \in 0..(s - 1)
    <3>1. PICK d \in Nat \ {0}, x \in Int : d = 2 * c /\ x = 2 * v + c
      BY <1>1
    <3>2. n = x \div d
      BY <2>3, <3>1 DEF HalfUp
    <3>3. PICK r : r = x % d
      OBVIOUS
    <3>4. r \in 0..(d - 1) /\ x = d * n + r
      BY <3>1, <3>2, <3>3
    <3>5. PICK t : t = c * (s - 1)
      OBVIOUS
    <3>6. t \in Nat /\ v \in 0..t
      BY <1>1, <2>1, <3>5
    <3>7. x >= c /\ x <= 2 * t + c
      BY <1>1, <3>1, <3>6
    <3>8. ASSUME n < 0 PROVE FALSE
      <4>1. d * n <= -d
        BY <1>3, <3>1, <3>8
      <4>2. PICK m : m = d * n
        OBVIOUS
      <4>3. m <= -d /\ m \in Int /\ x = m + r
        BY <1>3, <3>1, <3>4, <4>1, <4>2
      <4> QED
        BY <1>1, <3>1, <3>4, <3>7, <4>3
    <3>9. ASSUME n >= s PROVE FALSE
      <4>1. d * n >= d * s
        BY <1>1, <1>3, <3>1, <3>9
      <4>2. d * s = 2 * t + d
        <5>1. PICK k \in Nat : k = c * s
          BY <1>1
        <5>2. c * (s - 1) = k - c
          BY <1>1, <5>1
        <5>3. d * s = 2 * k
          BY <1>1, <3>1, <5>1
        <5> QED
          BY <1>1, <3>1, <3>5, <5>1, <5>2, <5>3
      <4>3. PICK m, k : m = d * n /\ k = d * s
        OBVIOUS
      <4>4. m \in Int /\ x = m + r /\ m >= 2 * t + d
        BY <1>1, <1>3, <3>1, <3>4, <4>1, <4>2, <4>3
      <4> QED
        BY <1>1, <3>1, <3>4, <3>6, <3>7, <4>4
    <3> QED
      BY <1>1, <1>3, <3>8, <3>9
  <2>5. NumberValue(f, w) = c * n
    BY <1>1, <1>8, <2>2 DEF NumberValue
  <2>6. Wire(f, c * n) = w
    BY <1>2, <1>8, <2>2 DEF Wire
  <2>7. NumberIsValid(f, w)
    BY <1>8 DEF NumberIsValid
  <2> QED
    BY <1>1, <1>8, <2>2, <2>4, <2>5, <2>6, <2>7 DEF IsWired
<1>9. CASE f.kind = "unsigned"
  <2>1. n \in 0..(s - 1)
    BY <1>1, <1>3, <1>9 DEF NumberFits
  <2>2. w = n
    BY <1>3, <1>9 DEF Wire
  <2>3. NumberValue(f, w) = c * n
    BY <1>1, <1>9, <2>2 DEF NumberValue
  <2>4. Wire(f, c * n) = w
    BY <1>2, <1>9, <2>2 DEF Wire
  <2>5. NumberIsValid(f, w)
    BY <1>9 DEF NumberIsValid
  <2>6. c = 1 => c * n = v
    <3> SUFFICES ASSUME c = 1 PROVE n = v
      BY <1>3
    <3>1. c * v = v
      OBVIOUS
    <3>2. Rounded(f, c * v) = v
      BY <1>2
    <3> QED
      BY <1>3, <3>1, <3>2
  <2> QED
    BY <1>1, <2>1, <2>2, <2>3, <2>4, <2>5, <2>6 DEF IsWired
<1> QED
  BY <1>1, <1>4, <1>5, <1>6, <1>7, <1>8, <1>9

-----------------------------------------------------------------------------
(* Fields in a frame.                                                      *)

Digit == 0..(Base - 1)

\* The sequence s stands in the data at this place.
IsAt(data, at, s) ==
  /\ at \in Nat \ {0} /\ at + Len(s) - 1 <= Len(data)
  /\ \A i \in 1..Len(s) : data[at + i - 1] = s[i]

\* Digits are the bytes below Base.
LEMMA DigitIsByte ==
  /\ Digit \subseteq 0..(Bytes - 1) /\ 0 \in Digit /\ Base \in Nat \ {0, 1}
  /\ 0..(Bytes - 1) \subseteq Nat
  /\ \A b \in 0..(Bytes - 1) : b < Base <=> b \in Digit
BY CodecAssumption DEF Digit, Bytes

\* What is at a place is what is cut out there.
LEMMA AtIsCut ==
  ASSUME NEW S, NEW data \in Seq(S), NEW s \in Seq(S), NEW at, IsAt(data, at, s)
  PROVE  SubSeq(data, at, at + Len(s) - 1) = s
<1>1. PICK n \in Nat, L \in Nat : n = Len(s) /\ L = Len(data)
  BY LenProperties
<1>2. /\ at \in Nat \ {0} /\ at + n - 1 <= L
      /\ \A i \in 1..n : data[at + i - 1] = s[i]
  BY <1>1 DEF IsAt
<1>3. PICK j : j = at + n - 1
  OBVIOUS
<1>4. at \in 1..(Len(data) + 1) /\ j \in (at - 1)..Len(data) /\ (j - at) + 1 = n
  BY <1>1, <1>2, <1>3
<1>5. PICK c : c = SubSeq(data, at, j)
  OBVIOUS
<1>6. c \in Seq(S) /\ Len(c) = n /\ \A k \in 1..n : c[k] = data[at + k - 1]
  BY <1>4, <1>5, CutTypes
<1>7. c = s
  BY <1>1, <1>2, <1>6, SeqEqual
<1> QED
  BY <1>1, <1>3, <1>5, <1>7

\* A set of positions has a first one.
LEMMA FirstPosition ==
  ASSUME NEW Z, Z \subseteq Nat, Z # {}
  PROVE  \E i \in Z : \A j \in Z : i <= j
<1> DEFINE T == {n \in Nat : \A j \in Z : n <= j}
<1> SUFFICES ASSUME ~\E i \in Z : \A j \in Z : i <= j PROVE FALSE
  OBVIOUS
<1>1. 0 \in T
  OBVIOUS
<1>2. ASSUME NEW n \in Nat, n \in T PROVE n + 1 \in T
  <2>1. n \notin Z
    BY <1>2
  <2>2. \A j \in Z : n <= j /\ j # n /\ j \in Nat
    BY <1>2, <2>1
  <2> QED
    BY <2>2
<1>3. Nat \subseteq T
  <2> HIDE DEF T
  <2> QED
    BY <1>1, <1>2, Inductive
<1>4. PICK j \in Z : TRUE
  OBVIOUS
<1>5. j + 1 \in Nat /\ j \in Nat
  BY <1>4
<1>6. j + 1 \in T
  BY <1>3, <1>5
<1>7. j + 1 <= j
  BY <1>4, <1>6
<1> QED
  BY <1>5, <1>7

\* Where a string ends.
LEMMA TerminatorIs ==
  ASSUME NEW data, Len(data) \in Nat, NEW at \in Nat \ {0}
  PROVE  /\ Terminator(data, at) \in Nat
         /\ Terminator(data, at) # 0 =>
              /\ Terminator(data, at) \in at..Len(data)
              /\ data[Terminator(data, at)] = 0
              /\ \A j \in at..Len(data) : data[j] = 0 => Terminator(data, at) <= j
         /\ \A i \in at..Len(data) :
              data[i] = 0 /\ (\A j \in at..(i - 1) : data[j] # 0)
              => Terminator(data, at) = i
<1> DEFINE Z == {i \in at..Len(data) : data[i] = 0}
           e == CHOOSE i \in Z : \A j \in Z : i <= j
<1>1. Terminator(data, at) = IF Z = {} THEN 0 ELSE e
  BY DEF Terminator
<1>2. Z \subseteq Nat /\ 0 \notin Z
  OBVIOUS
<1>3. Z # {} => e \in Z /\ \A j \in Z : e <= j
  <2> HIDE DEF Z
  <2> SUFFICES ASSUME Z # {} PROVE e \in Z /\ \A j \in Z : e <= j
    OBVIOUS
  <2>1. \E i \in Z : \A j \in Z : i <= j
    BY <1>2, FirstPosition
  <2> QED
    BY <2>1
<1> HIDE DEF e
<1>4. ASSUME NEW i \in at..Len(data), data[i] = 0, \A j \in at..(i - 1) : data[j] # 0
      PROVE  Terminator(data, at) = i
  <2>1. i \in Z
    BY <1>4
  <2>2. e \in Z /\ e <= i
    BY <1>3, <2>1
  <2>3. ~(e \in at..(i - 1))
    BY <1>4, <2>2
  <2>4. e = i
    BY <2>2, <2>3
  <2> QED
    BY <1>1, <2>1, <2>4
<1>5. Terminator(data, at) \in Nat
  BY <1>1, <1>2, <1>3
<1>6. ASSUME Terminator(data, at) # 0
      PROVE  /\ Terminator(data, at) \in at..Len(data)
             /\ data[Terminator(data, at)] = 0
             /\ \A j \in at..Len(data) : data[j] = 0 => Terminator(data, at) <= j
  <2>1. Terminator(data, at) = e /\ Z # {}
    BY <1>1, <1>6
  <2> QED
    BY <1>3, <2>1
<1> QED
  BY <1>4, <1>5, <1>6

\* The numbers and texts.
LEMMA Kinds ==
  ASSUME NEW f, FieldIsValid(f)
  PROVE  /\ f.width \in Nat
         /\ f.kind = "string" \/ f.kind = "bytes" \/ ~IsText(f)
         /\ f.kind = "string" => IsText(f) /\ f.kind # "bytes"
         /\ f.kind = "bytes" => IsText(f) /\ f.kind # "string"
         /\ ~IsText(f) => f.kind # "bytes" /\ f.kind # "string"
BY DEF FieldIsValid, IsText

\* What is taken is digits of the data.
IsTaken(data, at, j, c) ==
  /\ at + j <= Len(data) + 1 /\ c \in Seq(0..(Bytes - 1)) /\ Len(c) = j
  /\ \A i \in 1..j : c[i] = data[at + i - 1]
  /\ c \in [1..j -> Digit] /\ IsDigits(c)

\* What a text field takes: bytes up to, and with, the terminator.
LEMMA TakenIs ==
  ASSUME NEW data \in Seq(0..(Bytes - 1)), NEW at \in Nat \ {0}, NEW j \in Nat,
         Taken(data, at, j), NEW e, e = at + j - 1,
         NEW c, c = SubSeq(data, at, e)
  PROVE  IsTaken(data, at, j, c)
<1>1. PICK L \in Nat : L = Len(data) /\ data \in [1..L -> 0..(Bytes - 1)]
  BY LenProperties
<1>2. at + j - 1 <= L /\ IsDigits(c)
  BY <1>1 DEF Taken
<1>4. /\ at \in 1..(Len(data) + 1) /\ e \in (at - 1)..Len(data) /\ (e - at) + 1 = j
      /\ at + j <= L + 1
  BY <1>1, <1>2
<1>5. /\ c \in Seq(0..(Bytes - 1)) /\ Len(c) = j
      /\ \A i \in 1..j : c[i] = data[at + i - 1]
  <2>2. /\ SubSeq(data, at, e) \in Seq(0..(Bytes - 1))
        /\ Len(SubSeq(data, at, e)) = (e - at) + 1
        /\ \A k \in 1..((e - at) + 1) : SubSeq(data, at, e)[k] = data[at + k - 1]
    BY <1>4, CutTypes, ZenonT(40)
  <2> QED
    BY <1>4, <2>2
<1>6. c \in [1..j -> 0..(Bytes - 1)]
  BY <1>5, LenProperties
<1>7. \A i \in 1..j : c[i] < Base
  BY <1>2, <1>6 DEF IsDigits
<1>8. \A i \in 1..j : c[i] \in Digit
  BY <1>6, <1>7, DigitIsByte
<1>9. c \in [1..j -> Digit]
  BY <1>6, <1>8
<1> QED
  BY <1>1, <1>2, <1>4, <1>5, <1>9 DEF IsTaken

\* A field that was decoded ends in the data, and its value can be written.
LEMMA FieldRead ==
  ASSUME NEW f, FieldIsValid(f), NEW data \in Seq(0..(Bytes - 1)),
         NEW at \in Nat \ {0}, FieldEnd(f, data, at) # 0
  PROVE  /\ FieldEnd(f, data, at) \in at..(Len(data) + 1)
         /\ FieldValue(f, data, at) \in Value
         /\ ValueFits(f, FieldValue(f, data, at))
<1>1. PICK L \in Nat : L = Len(data) /\ data \in [1..L -> 0..(Bytes - 1)]
  BY LenProperties
<1>2. PICK end : end = FieldEnd(f, data, at)
  OBVIOUS
<1>4. CASE f.kind = "string"
  <2>1. PICK e : e = Terminator(data, at)
    OBVIOUS
  <2>2. e # 0 /\ Taken(data, at, e - at) /\ end = e + 1
    <3>1. FieldEnd(f, data, at) =
            IF Terminator(data, at) # 0 /\ Taken(data, at, Terminator(data, at) - at)
              THEN Terminator(data, at) + 1 ELSE 0
      BY <1>4 DEF FieldEnd
    <3> QED
      BY <1>2, <2>1, <3>1
  <2>3. e \in at..L /\ \A j \in at..L : data[j] = 0 => e <= j
    BY <1>1, <2>1, <2>2, TerminatorIs
  <2>4. PICK j \in Nat : j = e - at /\ at + j - 1 = e - 1
    BY <2>3
  <2>5. PICK c : c = SubSeq(data, at, at + j - 1)
    OBVIOUS
  <2>6. /\ c \in Seq(0..(Bytes - 1)) /\ Len(c) = j /\ IsDigits(c)
        /\ \A i \in 1..j : c[i] = data[at + i - 1]
    <3>1. Taken(data, at, j)
      BY <2>2, <2>4
    <3>2. PICK k : k = at + j - 1
      OBVIOUS
    <3>3. c = SubSeq(data, at, k)
      BY <2>5, <3>2
    <3>4. IsTaken(data, at, j, c)
      BY <2>4, <3>1, <3>2, <3>3, TakenIs
    <3> QED
      BY <3>4 DEF IsTaken
  <2>7. FieldValue(f, data, at) = [bytes |-> c]
    BY <1>4, <2>1, <2>4, <2>5 DEF FieldValue
  <2>8. \A i \in DOMAIN c : c[i] # 0
    <3>1. DOMAIN c = 1..j
      BY <2>6, LenProperties
    <3>2. \A i \in 1..j : at + i - 1 \in at..L /\ at + i - 1 < e
      BY <2>3, <2>4
    <3>3. \A i \in 1..j : data[at + i - 1] # 0
      BY <2>3, <3>2
    <3> QED
      BY <2>6, <3>1, <3>3
  <2>9. [bytes |-> c] \in Value
    BY <2>6 DEF Value
  <2>10. ValueFits(f, [bytes |-> c])
    <3>1. IsText(f) /\ f.kind # "bytes"
      BY <1>4, Kinds
    <3>2. DOMAIN [bytes |-> c] = {"bytes"} /\ [bytes |-> c].bytes = c
      OBVIOUS
    <3> QED
      BY <2>6, <2>8, <3>1, <3>2 DEF ValueFits
  <2> QED
    BY <1>1, <1>2, <2>2, <2>3, <2>7, <2>9, <2>10
<1>5. CASE f.kind # "string"
  <2>1. PICK w \in Nat : w = f.width
    BY Kinds
  <2>2. PICK c : c = SubSeq(data, at, at + w - 1)
    OBVIOUS
  <2>3. /\ Taken(data, at, w) /\ end = at + w
        /\ f.kind # "bytes" => NumberIsValid(f, Number(c))
    <3>1. FieldEnd(f, data, at) =
            IF /\ Taken(data, at, w)
               /\ f.kind # "bytes" => NumberIsValid(f, Number(c))
              THEN at + w ELSE 0
      BY <1>5, <2>1, <2>2 DEF FieldEnd
    <3> QED
      BY <1>2, <3>1
  <2>4. /\ at + w <= L + 1 /\ c \in Seq(0..(Bytes - 1)) /\ Len(c) = w
        /\ c \in [1..w -> Digit] /\ IsDigits(c)
    <3>1. PICK k : k = at + w - 1
      OBVIOUS
    <3>2. c = SubSeq(data, at, k)
      BY <2>2, <3>1
    <3>3. IsTaken(data, at, w, c)
      BY <1>1, <2>3, <3>1, <3>2, TakenIs
    <3> QED
      BY <1>1, <3>3 DEF IsTaken
  <2>5. end \in at..(Len(data) + 1)
    BY <1>1, <2>3, <2>4
  <2>6. CASE f.kind = "bytes"
    <3>1. FieldValue(f, data, at) = [bytes |-> c]
      BY <2>1, <2>2, <2>6 DEF FieldValue
    <3>2. [bytes |-> c] \in Value
      BY <2>4 DEF Value
    <3>3. ValueFits(f, [bytes |-> c])
      <4>1. IsText(f) /\ f.kind # "string"
        BY <2>6, Kinds
      <4>2. DOMAIN [bytes |-> c] = {"bytes"} /\ [bytes |-> c].bytes = c
        OBVIOUS
      <4> QED
        BY <2>1, <2>4, <4>1, <4>2 DEF ValueFits
    <3> QED
      BY <1>2, <2>5, <3>1, <3>2, <3>3
  <2>7. CASE f.kind # "bytes"
    <3>1. ~IsText(f)
      BY <1>5, <2>7, Kinds
    <3>2. PICK n : n = Number(c)
      OBVIOUS
    <3>3. n \in 0..(Power(w) - 1)
      BY <2>4, <3>2, NumberBounds DEF Digit
    <3>4. IsWired(f, n)
      BY <2>1, <2>3, <2>7, <3>2, <3>3 DEF IsWired, Size
    <3>5. NumberValue(f, n) \in Int /\ NumberFits(f, NumberValue(f, n))
      BY <3>1, <3>4, WireFits
    <3>6. PICK v \in Int : v = NumberValue(f, n)
      BY <3>5
    <3>7. FieldValue(f, data, at) = [number |-> v]
      BY <1>5, <2>1, <2>2, <2>7, <3>2, <3>6 DEF FieldValue
    <3>8. [number |-> v] \in Value
      BY DEF Value
    <3>9. ValueFits(f, [number |-> v])
      <4>1. DOMAIN [number |-> v] = {"number"} /\ [number |-> v].number = v
        OBVIOUS
      <4> QED
        BY <3>1, <3>5, <3>6, <4>1 DEF ValueFits
    <3> QED
      BY <1>2, <2>5, <3>7, <3>8, <3>9
  <2> QED
    BY <2>6, <2>7
<1> QED
  BY <1>4, <1>5

\* A value that was written is read again, from wherever its bytes stand.
LEMMA FieldWritten ==
  ASSUME NEW f, FieldIsValid(f), NEW value \in Value, ValueFits(f, value),
         NEW bytes, bytes = FieldBytes(f, value)
  PROVE  /\ bytes \in Seq(Digit)
         /\ \A data \in Seq(0..(Bytes - 1)) : \A at : IsAt(data, at, bytes) =>
              /\ FieldEnd(f, data, at) = at + Len(bytes)
              /\ FieldBytes(f, FieldValue(f, data, at)) = bytes
              /\ f.kind = "unsigned" /\ f.scale = 1 =>
                   FieldValue(f, data, at) = value
<1>1. CASE f.kind = "string"
  <2>1. PICK s : s = value.bytes
    OBVIOUS
  <2>2. IsText(f)
    BY <1>1, Kinds
  <2>3. DOMAIN value = {"bytes"} /\ IsDigits(s) /\ \A i \in DOMAIN s : s[i] # 0
    BY <1>1, <2>1, <2>2 DEF ValueFits
  <2>4. value = [bytes |-> s] /\ s \in Seq(0..(Bytes - 1))
    BY <2>1, <2>3 DEF Value
  <2>5. PICK n \in Nat : n = Len(s) /\ s \in [1..n -> 0..(Bytes - 1)]
    BY <2>4, LenProperties
  <2>6. \A i \in 1..n : s[i] \in Digit
    BY <2>3, <2>5, DigitIsByte DEF IsDigits
  <2>7. s \in Seq(Digit)
    <3>1. s \in [1..n -> Digit]
      BY <2>5, <2>6
    <3> QED
      BY <3>1, SeqDef
  <2>8. bytes = Append(s, 0)
    BY <1>1, <2>1 DEF FieldBytes
  <2>9. /\ bytes \in Seq(Digit) /\ Len(bytes) = n + 1
        /\ \A i \in 1..n : bytes[i] = s[i]
        /\ bytes[n + 1] = 0
    BY <2>5, <2>7, <2>8, DigitIsByte, AppendProperties
  <2>10. ASSUME NEW data \in Seq(0..(Bytes - 1)), NEW at, IsAt(data, at, bytes)
         PROVE  /\ FieldEnd(f, data, at) = at + Len(bytes)
                /\ FieldValue(f, data, at) = value
    <3>1. PICK L \in Nat : L = Len(data) /\ data \in [1..L -> 0..(Bytes - 1)]
      BY LenProperties
    <3>2. /\ at \in Nat \ {0} /\ at + n <= L
          /\ \A i \in 1..n : data[at + i - 1] = s[i]
          /\ data[at + n] = 0
      <4>1. at \in Nat \ {0} /\ at + (n + 1) - 1 <= L
        BY <2>9, <2>10, <3>1 DEF IsAt
      <4>2. \A i \in 1..(n + 1) : data[at + i - 1] = bytes[i]
        BY <2>9, <2>10 DEF IsAt
      <4>3. n + 1 \in 1..(n + 1) /\ at + (n + 1) - 1 = at + n
        BY <4>1
      <4>4. \A i \in 1..n : i \in 1..(n + 1)
        OBVIOUS
      <4> QED
        BY <2>9, <4>1, <4>2, <4>3, <4>4
    <3>3. PICK e : e = at + n /\ e \in at..L
      BY <3>1, <3>2
    <3>4. \A j \in at..(e - 1) : data[j] # 0
      <4> TAKE j \in at..(e - 1)
      <4>1. PICK i \in 1..n : j = at + i - 1
        <5>1. (j - at) + 1 \in 1..n /\ j = at + ((j - at) + 1) - 1
          BY <3>2, <3>3
        <5> QED
          BY <5>1
      <4> QED
        BY <2>3, <2>5, <3>2, <4>1
    <3>5. Terminator(data, at) = e
      BY <3>1, <3>2, <3>3, <3>4, TerminatorIs
    <3>6. IsAt(data, at, s)
      <4>1. at + n - 1 <= L
        BY <3>1, <3>2
      <4> QED
        BY <2>5, <3>1, <3>2, <4>1 DEF IsAt
    <3>7. SubSeq(data, at, at + n - 1) = s
      BY <2>4, <2>5, <3>6, AtIsCut
    <3>8. e # 0 /\ e - at = n /\ at + n - 1 = e - 1 /\ at + n - 1 <= L
      BY <3>1, <3>2, <3>3
    <3>9. Taken(data, at, e - at)
      <4>1. Taken(data, at, n)
        BY <2>3, <3>1, <3>7, <3>8 DEF Taken
      <4> QED
        BY <3>8, <4>1
    <3>10. FieldEnd(f, data, at) = e + 1
      <4>1. FieldEnd(f, data, at) =
              IF Terminator(data, at) # 0 /\ Taken(data, at, Terminator(data, at) - at)
                THEN Terminator(data, at) + 1 ELSE 0
        BY <1>1 DEF FieldEnd
      <4> QED
        BY <3>5, <3>8, <3>9, <4>1
    <3>11. FieldValue(f, data, at) = [bytes |-> SubSeq(data, at, e - 1)]
      BY <1>1, <3>5 DEF FieldValue
    <3>12. FieldValue(f, data, at) = value
      BY <2>4, <3>7, <3>8, <3>11
    <3>13. e + 1 = at + Len(bytes)
      BY <2>9, <3>2, <3>3
    <3> QED
      BY <3>10, <3>12, <3>13
  <2> QED
    BY <2>9, <2>10
<1>2. CASE f.kind = "bytes"
  <2>1. PICK w \in Nat : w = f.width
    BY Kinds
  <2>2. IsText(f)
    BY <1>2, Kinds
  <2>3. DOMAIN value = {"bytes"} /\ IsDigits(value.bytes) /\ Len(value.bytes) = w
    BY <1>2, <2>1, <2>2 DEF ValueFits
  <2>4. bytes = value.bytes
    BY <1>2 DEF FieldBytes
  <2>5. value = [bytes |-> bytes] /\ bytes \in Seq(0..(Bytes - 1))
    BY <2>3, <2>4 DEF Value
  <2>6. bytes \in [1..w -> 0..(Bytes - 1)]
    BY <2>3, <2>4, <2>5, LenProperties
  <2>7. bytes \in Seq(Digit)
    <3>1. \A i \in 1..w : bytes[i] \in Digit
      BY <2>3, <2>4, <2>6, DigitIsByte DEF IsDigits
    <3>2. bytes \in [1..w -> Digit]
      BY <2>6, <3>1
    <3> QED
      BY <3>2, SeqDef
  <2>8. ASSUME NEW data \in Seq(0..(Bytes - 1)), NEW at, IsAt(data, at, bytes)
        PROVE  /\ FieldEnd(f, data, at) = at + Len(bytes)
               /\ FieldValue(f, data, at) = value
    <3>1. SubSeq(data, at, at + w - 1) = bytes
      BY <2>3, <2>4, <2>5, <2>8, AtIsCut
    <3>2. at + w - 1 <= Len(data)
      BY <2>3, <2>4, <2>8 DEF IsAt
    <3>3. Taken(data, at, w)
      BY <2>3, <2>4, <3>1, <3>2 DEF Taken
    <3>4. FieldEnd(f, data, at) = at + w
      BY <1>2, <2>1, <3>3 DEF FieldEnd
    <3>5. FieldValue(f, data, at) = [bytes |-> bytes]
      BY <1>2, <2>1, <3>1 DEF FieldValue
    <3> QED
      BY <2>3, <2>4, <2>5, <3>4, <3>5
  <2> QED
    BY <2>7, <2>8
<1>3. CASE ~IsText(f)
  <2>1. PICK v : v = value.number
    OBVIOUS
  <2>2. DOMAIN value = {"number"} /\ NumberFits(f, v)
    BY <1>3, <2>1 DEF ValueFits
  <2>3. value = [number |-> v] /\ v \in Int
    BY <2>1, <2>2 DEF Value
  <2>4. PICK wire : wire = Wire(f, v)
    OBVIOUS
  <2>5. /\ IsWired(f, wire) /\ Wire(f, NumberValue(f, wire)) = wire
        /\ f.kind = "unsigned" /\ f.scale = 1 => NumberValue(f, wire) = v
    BY <1>3, <2>2, <2>3, <2>4, WireInverts
  <2>6. PICK w \in Nat : w = f.width
    BY Kinds
  <2>7. f.kind # "bytes" /\ f.kind # "string"
    BY <1>3, Kinds
  <2>8. \A x : FieldBytes(f, [number |-> x]) = Digits(Wire(f, x), w)
    BY <2>6, <2>7, WireDigits, Zenon DEF FieldBytes
  <2>9. bytes = Digits(wire, w)
    BY <2>3, <2>4, <2>8
  <2>10. wire \in 0..(Power(w) - 1) /\ wire \in Int /\ NumberIsValid(f, wire)
    <3>1. wire \in 0..(Power(w) - 1) /\ NumberIsValid(f, wire)
      BY <2>5, <2>6 DEF IsWired, Size
    <3>2. Power(w) \in Nat
      BY Powers
    <3> QED
      BY <3>1, <3>2
  <2>11. /\ bytes \in [1..w -> Digit] /\ bytes \in Seq(Digit) /\ Len(bytes) = w
         /\ Number(bytes) = wire
    BY <2>9, <2>10, DigitsTypes, DigitsInvert, ZenonT(40) DEF Digit
  <2>12. IsDigits(bytes)
    BY <2>11, DigitIsByte DEF IsDigits
  <2>13. bytes \in Seq(0..(Bytes - 1))
    BY <2>11, DigitIsByte, SeqMonotonic, ZenonT(40)
  <2>14. ASSUME NEW data \in Seq(0..(Bytes - 1)), NEW at, IsAt(data, at, bytes)
         PROVE  /\ FieldEnd(f, data, at) = at + Len(bytes)
                /\ FieldBytes(f, FieldValue(f, data, at)) = bytes
                /\ f.kind = "unsigned" /\ f.scale = 1 =>
                     FieldValue(f, data, at) = value
    <3>1. SubSeq(data, at, at + w - 1) = bytes
      BY <2>11, <2>13, <2>14, AtIsCut
    <3>2. at + w - 1 <= Len(data)
      BY <2>11, <2>14 DEF IsAt
    <3>3. Taken(data, at, w)
      BY <2>12, <3>1, <3>2 DEF Taken
    <3>4. FieldEnd(f, data, at) = at + w
      <4>1. FieldEnd(f, data, at) =
              IF /\ Taken(data, at, w)
                 /\ f.kind # "bytes" =>
                      NumberIsValid(f, Number(SubSeq(data, at, at + w - 1)))
                THEN at + w ELSE 0
        BY <2>6, <2>7 DEF FieldEnd
      <4> QED
        BY <2>10, <2>11, <3>1, <3>3, <4>1
    <3>5. FieldValue(f, data, at) = [number |-> NumberValue(f, wire)]
      <4>1. FieldValue(f, data, at) =
              [number |-> NumberValue(f, Number(SubSeq(data, at, at + w - 1)))]
        BY <2>6, <2>7 DEF FieldValue
      <4> QED
        BY <2>11, <3>1, <4>1
    <3>6. FieldBytes(f, [number |-> NumberValue(f, wire)]) = bytes
      BY <2>5, <2>8, <2>9
    <3> QED
      BY <2>3, <2>5, <2>11, <3>4, <3>5, <3>6
  <2> QED
    BY <2>11, <2>14
<1> QED
  BY <1>1, <1>2, <1>3, Kinds

-----------------------------------------------------------------------------
(* Commands.                                                               *)

\* Where the parts of a concatenation stand in it.
BeginsWith(q, p) == Len(p) <= Len(q) /\ \A i \in 1..Len(p) : q[i] = p[i]

Follows(q, p, part) ==
  /\ Len(p) + Len(part) <= Len(q)
  /\ \A i \in 1..Len(part) : q[Len(p) + i] = part[i]

\* Positions of a part.
LEMMA Shifted ==
  ASSUME NEW o \in Nat, NEW r \in Nat, NEW p \in Nat, NEW a \in Nat, r + p <= a
  PROVE  /\ \A i \in 1..p : r + i \in 1..a
         /\ \A at : at = o + r + 1 =>
              /\ at \in Nat \ {0} /\ at + p - 1 <= o + a
              /\ \A i \in 1..p : at + i - 1 = o + (r + i)
OBVIOUS

\* The two parts of a concatenation, each at its place.
LEMMA BeginsConcat ==
  ASSUME NEW S, NEW p \in Seq(S), NEW s \in Seq(S), NEW q, q = p \o s
  PROVE  BeginsWith(q, p) /\ Follows(q, p, s) /\ Len(q) = Len(p) + Len(s)
<1>1. PICK m \in Nat, n \in Nat : m = Len(p) /\ n = Len(s)
  BY LenProperties
<1>2. /\ Len(q) = m + n
      /\ \A i \in 1..m + n : q[i] = IF i <= m THEN p[i] ELSE s[i - m]
  BY <1>1, ConcatProperties
<1>3. \A i \in 1..m : i \in 1..m + n /\ i <= m
  BY <1>1
<1>4. \A i \in 1..n : m + i \in 1..m + n /\ ~(m + i <= m) /\ (m + i) - m = i
  BY <1>1
<1>5. \A i \in 1..n : q[m + i] = s[i]
  BY <1>2, <1>4
<1>6. m <= m + n /\ m + n <= m + n
  BY <1>1
<1> QED
  BY <1>1, <1>2, <1>3, <1>5, <1>6 DEF BeginsWith, Follows

\* A part of a concatenation follows those before it.
Grows(run, parts, k, n) ==
  /\ Follows(run[n], run[k - 1], parts[k])
  /\ Len(run[k]) = Len(run[k - 1]) + Len(parts[k])

\* Each part of a concatenation is at its place.
LEMMA JoiningPlaces ==
  ASSUME NEW S, NEW n \in Nat, NEW parts \in [1..n -> Seq(S)],
         NEW run \in [0..n -> Seq(S)], IsJoining(run, parts)
  PROVE  \A k \in 1..n : Grows(run, parts, k, n)
<1>1. Len(parts) = n
  BY LenProperties
<1>2. \A k \in 1..n : /\ run[k] = run[k - 1] \o parts[k]
                      /\ run[k] \in Seq(S) /\ run[k - 1] \in Seq(S)
                      /\ parts[k] \in Seq(S)
  <2> TAKE k \in 1..n
  <2>1. k - 1 \in 0..n /\ k \in 0..n
    OBVIOUS
  <2>2. run[k] = run[k - 1] \o parts[k]
    BY <1>1, Zenon DEF IsJoining
  <2> QED
    BY <2>1, <2>2
<1>3. \A k \in 1..n : /\ BeginsWith(run[k], run[k - 1])
                      /\ Follows(run[k], run[k - 1], parts[k])
                      /\ Len(run[k]) = Len(run[k - 1]) + Len(parts[k])
  BY <1>2, BeginsConcat, ZenonT(40)
<1>4. ASSUME NEW k \in 1..n
      PROVE  Follows(run[n], run[k - 1], parts[k])
  <2> DEFINE T == {m \in 0..n : m >= k => Follows(run[m], run[k - 1], parts[k])}
  <2>1. 0 \in T
    OBVIOUS
  <2>2. ASSUME NEW m \in 1..n, m - 1 \in T PROVE m \in T
    <3> SUFFICES ASSUME m >= k PROVE Follows(run[m], run[k - 1], parts[k])
      OBVIOUS
    <3>1. CASE m = k
      BY <1>3, <3>1
    <3>2. CASE m # k
      <4>1. Follows(run[m - 1], run[k - 1], parts[k])
        BY <2>2, <3>2
      <4>2. BeginsWith(run[m], run[m - 1])
        BY <1>3
      <4>3. PICK a \in Nat, b \in Nat, c \in Nat, d \in Nat :
              /\ a = Len(run[k - 1]) /\ b = Len(parts[k])
              /\ c = Len(run[m - 1]) /\ d = Len(run[m])
        <5>1. /\ run[k - 1] \in Seq(S) /\ parts[k] \in Seq(S)
              /\ run[m - 1] \in Seq(S) /\ run[m] \in Seq(S)
          BY <1>2
        <5> QED
          BY <5>1, LenProperties
      <4>4. a + b <= c /\ c <= d
        BY <4>1, <4>2, <4>3 DEF Follows, BeginsWith
      <4>5. \A i \in 1..b : run[m - 1][a + i] = parts[k][i]
        BY <4>1, <4>3 DEF Follows
      <4>6. \A i \in 1..c : run[m][i] = run[m - 1][i]
        BY <4>2, <4>3 DEF BeginsWith
      <4>7. \A i \in 1..b : a + i \in 1..c
        BY <4>3, <4>4
      <4>8. \A i \in 1..b : run[m][a + i] = parts[k][i]
        BY <4>5, <4>6, <4>7
      <4>9. a + b <= d
        BY <4>3, <4>4
      <4> QED
        BY <4>3, <4>8, <4>9 DEF Follows
    <3> QED
      BY <3>1, <3>2
  <2>3. \A m \in 0..n : m \in T
    <3> HIDE DEF T
    <3> QED
      BY <2>1, <2>2, Along
  <2>4. n \in 0..n /\ n >= k
    OBVIOUS
  <2> QED
    BY <2>3, <2>4
<1> QED
  BY <1>3, <1>4 DEF Grows

\* Specifications: an opcode and fields.
IsSpec(spec) ==
  /\ spec.opcode \in Seq(0..(Bytes - 1))
  /\ Len(spec.fields) \in Nat /\ DOMAIN spec.fields = 1..Len(spec.fields)
  /\ \A k \in 1..Len(spec.fields) : FieldIsValid(spec.fields[k])

IsValues(values) ==
  \E n \in Nat : values \in [1..n -> Value]

\* Where one field after the other ends.
IsEnding(end, spec, data) ==
  /\ end \in [0..Len(spec.fields) -> Nat] /\ end[0] = Len(spec.opcode) + 1
  /\ \A k \in 1..Len(spec.fields) :
       end[k] = IF end[k - 1] = 0 THEN 0
                ELSE FieldEnd(spec.fields[k], data, end[k - 1])

\* Each field of a frame ends where the one before it ended, or later.
LEMMA Endings ==
  ASSUME NEW spec, IsSpec(spec), NEW data \in Seq(0..(Bytes - 1))
  PROVE  IsEnding(Ends(spec, data), spec, data)
<1>1. PICK n \in Nat, b \in Nat : n = Len(spec.fields) /\ b = Len(spec.opcode) + 1
  BY LenProperties DEF IsSpec
<1> DEFINE Further(k, s) == IF s = 0 THEN 0 ELSE FieldEnd(spec.fields[k], data, s)
           step == [k \in 1..n |-> [s \in Nat |-> Further(k, s)]]
           IsRun(f) == f = [k \in 0..Len(spec.fields) |->
                              IF k = 0 THEN Len(spec.opcode) + 1
                              ELSE IF f[k - 1] = 0 THEN 0
                              ELSE FieldEnd(spec.fields[k], data, f[k - 1])]
<1>2. \A k \in 1..n : \A s \in Nat : Further(k, s) \in Nat
  <2> SUFFICES ASSUME NEW k \in 1..n, NEW s \in Nat, s # 0,
                      FieldEnd(spec.fields[k], data, s) # 0
               PROVE  FieldEnd(spec.fields[k], data, s) \in Nat
    OBVIOUS
  <2>1. FieldIsValid(spec.fields[k])
    BY <1>1 DEF IsSpec
  <2>2. FieldEnd(spec.fields[k], data, s) \in s..(Len(data) + 1)
    BY <2>1, FieldRead
  <2>3. Len(data) \in Nat
    BY LenProperties
  <2> QED
    BY <2>2, <2>3
<1> HIDE DEF Next
<1>3. Stays(Nat, n, step)
  BY <1>2 DEF Stays
<1>4. PICK f : Computes(f, Nat, b, n, step)
  <2> HIDE DEF step
  <2> QED
    BY <1>1, <1>3, Recursion
<1>5. f \in [0..n -> Nat] /\ f[0] = b /\ \A k \in 1..n : f[k] = Further(k, f[k - 1])
  <2>1. \A k \in 1..n : k - 1 \in 0..n
    OBVIOUS
  <2>2. f \in [0..n -> Nat] /\ f[0] = b /\ \A k \in 1..n : f[k] = step[k][f[k - 1]]
    <3> HIDE DEF step
    <3> QED
      BY <1>4 DEF Computes
  <2>3. \A k \in 1..n : f[k - 1] \in Nat
    BY <2>1, <2>2
  <2> QED
    BY <2>2, <2>3, Zenon
<1>6. IsRun(f)
  <2>1. \A k \in 0..n : k # 0 => k \in 1..n
    OBVIOUS
  <2>2. f = [k \in 0..n |-> f[k]]
    BY <1>5
  <2>3. \A k \in 0..n : f[k] = IF k = 0 THEN b ELSE Further(k, f[k - 1])
    BY <1>5, <2>1, Zenon
  <2>4. f = [k \in 0..n |-> IF k = 0 THEN b ELSE Further(k, f[k - 1])]
    BY <2>2, <2>3, Zenon
  <2> QED
    BY <1>1, <2>4, Zenon DEF Next
<1> DEFINE run == CHOOSE g : IsRun(g)
<1>7. IsRun(run) /\ Ends(spec, data) = run
  BY <1>6, Zenon DEF Ends
<1> HIDE DEF run
<1>8. run = [k \in 0..n |-> IF k = 0 THEN b ELSE Further(k, run[k - 1])]
  BY <1>1, <1>7, Zenon DEF Next
<1> HIDE DEF IsRun
<1>9. run[0] = b /\ \A k \in 1..n : run[k] = Further(k, run[k - 1])
  <2>1. 0 \in 0..n /\ \A k \in 1..n : k \in 0..n /\ k # 0
    OBVIOUS
  <2>2. \A k \in 0..n : run[k] = IF k = 0 THEN b ELSE Further(k, run[k - 1])
    BY <1>8, Zenon
  <2> QED
    BY <2>1, <2>2, Zenon
<1> DEFINE T == {k \in 0..n : run[k] \in Nat}
<1>10. 0 \in T
  BY <1>9
<1>11. ASSUME NEW k \in 1..n, k - 1 \in T PROVE k \in T
  <2>1. run[k - 1] \in Nat /\ k \in 0..n
    BY <1>11
  <2>2. run[k] = Further(k, run[k - 1])
    BY <1>9
  <2>3. Further(k, run[k - 1]) \in Nat
    BY <1>2, <2>1
  <2> QED
    BY <2>1, <2>2, <2>3
<1>12. \A k \in 0..n : k \in T
  <2> HIDE DEF T
  <2> QED
    BY <1>10, <1>11, Along
<1>13. run \in [0..n -> Nat]
  BY <1>8, <1>12
<1> QED
  BY <1>1, <1>7, <1>9, <1>13, Zenon DEF IsEnding, Next

\* Every field of a frame that fits is decoded.
LEMMA FieldsDecoded ==
  ASSUME NEW spec, IsSpec(spec), NEW data \in Seq(0..(Bytes - 1)), Fits(spec, data),
         NEW end, end = Ends(spec, data)
  PROVE  \A k \in 1..Len(spec.fields) :
           /\ end[k - 1] \in Nat \ {0}
           /\ FieldEnd(spec.fields[k], data, end[k - 1]) # 0
<1>1. IsEnding(end, spec, data)
  BY Endings
<1>2. PICK n \in Nat : n = Len(spec.fields)
  BY DEF IsSpec
<1>3. end \in [0..n -> Nat] /\ end[n] # 0
  <2>1. end[n] = Len(data) + 1 /\ Len(data) \in Nat
    BY <1>2, LenProperties DEF Fits
  <2> QED
    BY <1>1, <1>2, <2>1 DEF IsEnding
<1>4. ASSUME NEW j \in 0..n, end[j] = 0 PROVE FALSE
  <2> DEFINE T == {m \in 0..n : m >= j => end[m] = 0}
  <2>1. 0 \in T
    BY <1>4
  <2>2. ASSUME NEW m \in 1..n, m - 1 \in T PROVE m \in T
    <3>1. CASE m = j
      BY <1>4, <3>1
    <3>2. CASE m # j
      <4>1. end[m] = IF end[m - 1] = 0 THEN 0
                     ELSE FieldEnd(spec.fields[m], data, end[m - 1])
        BY <1>1, <1>2 DEF IsEnding
      <4> QED
        BY <2>2, <3>2, <4>1
    <3> QED
      BY <3>1, <3>2
  <2>3. \A m \in 0..n : m \in T
    <3> HIDE DEF T
    <3> QED
      BY <2>1, <2>2, Along
  <2>4. n \in 0..n /\ n >= j
    OBVIOUS
  <2> QED
    BY <1>3, <2>3, <2>4
<1>5. ASSUME NEW k \in 1..n
      PROVE  end[k - 1] \in Nat \ {0} /\ FieldEnd(spec.fields[k], data, end[k - 1]) # 0
  <2>1. k - 1 \in 0..n /\ k \in 0..n
    OBVIOUS
  <2>2. end[k - 1] \in Nat /\ end[k - 1] # 0 /\ end[k] # 0
    BY <1>3, <1>4, <2>1
  <2>3. end[k] = FieldEnd(spec.fields[k], data, end[k - 1])
    BY <1>1, <1>2, <2>2 DEF IsEnding
  <2> QED
    BY <2>2, <2>3
<1> QED
  BY <1>2, <1>5

\* What was decoded can be encoded.
LEMMA SpecRead ==
  ASSUME NEW spec, IsSpec(spec), NEW data \in Seq(0..(Bytes - 1)), Fits(spec, data)
  PROVE  /\ DecodedValues(spec, data) \in [1..Len(spec.fields) -> Value]
         /\ ValuesFit(spec, DecodedValues(spec, data))
<1>1. PICK n, end : n \in Nat /\ n = Len(spec.fields) /\ end = Ends(spec, data)
  BY DEF IsSpec
<1>2. DOMAIN spec.fields = 1..n /\ \A k \in 1..n : FieldIsValid(spec.fields[k])
  BY <1>1 DEF IsSpec
<1>3. PICK values : values = DecodedValues(spec, data)
  OBVIOUS
<1>4. values = [k \in 1..n |-> FieldValue(spec.fields[k], data, end[k - 1])]
  BY <1>1, <1>2, <1>3 DEF DecodedValues
<1>5. ASSUME NEW k \in 1..n
      PROVE  values[k] \in Value /\ ValueFits(spec.fields[k], values[k])
  <2>1. end[k - 1] \in Nat \ {0} /\ FieldEnd(spec.fields[k], data, end[k - 1]) # 0
    BY <1>1, FieldsDecoded
  <2>2. PICK f, at : f = spec.fields[k] /\ at = end[k - 1]
    OBVIOUS
  <2>3. FieldValue(f, data, at) \in Value /\ ValueFits(f, FieldValue(f, data, at))
    BY <1>2, <2>1, <2>2, FieldRead
  <2>4. values[k] = FieldValue(f, data, at)
    BY <1>4, <2>2
  <2> QED
    BY <2>2, <2>3, <2>4
<1>6. DOMAIN values = 1..n /\ values = [k \in 1..n |-> values[k]]
  BY <1>4
<1>7. values \in [1..n -> Value]
  BY <1>5, <1>6
<1>8. ValuesFit(spec, values)
  BY <1>2, <1>5, <1>6 DEF ValuesFit
<1> QED
  BY <1>1, <1>3, <1>7, <1>8

\* The bytes of the fields.
FieldParts(spec, values) ==
  [k \in DOMAIN values |-> FieldBytes(spec.fields[k], values[k])]

\* What was encoded fits the specification again, and is encoded the same way
\* again.
THEOREM SpecWritten ==
  ASSUME NEW spec, IsSpec(spec), NEW values, IsValues(values), ValuesFit(spec, values),
         NEW bytes, bytes = EncodedValues(spec, values)
  PROVE  /\ bytes \in Seq(0..(Bytes - 1)) /\ Fits(spec, bytes)
         /\ EncodedValues(spec, DecodedValues(spec, bytes)) = bytes
         /\ (\A k \in DOMAIN spec.fields :
               spec.fields[k].kind = "unsigned" /\ spec.fields[k].scale = 1) =>
              DecodedValues(spec, bytes) = values
<1>1. PICK n \in Nat : n = Len(spec.fields)
  BY DEF IsSpec
<1>2. DOMAIN spec.fields = 1..n /\ \A k \in 1..n : FieldIsValid(spec.fields[k])
  BY <1>1 DEF IsSpec
<1>3. PICK m \in Nat : values \in [1..m -> Value]
  BY DEF IsValues
<1>4. DOMAIN values = 1..n /\ values \in [1..n -> Value]
  <2>1. DOMAIN values = 1..m /\ DOMAIN values = 1..n
    BY <1>2, <1>3 DEF ValuesFit
  <2> QED
    BY <1>3, <2>1
<1>5. PICK parts : parts = FieldParts(spec, values)
  OBVIOUS
<1>6. \A k \in 1..n : parts[k] = FieldBytes(spec.fields[k], values[k])
      /\ ValueFits(spec.fields[k], values[k])
  BY <1>4, <1>5 DEF FieldParts, ValuesFit
<1>7. \A k \in 1..n : parts[k] \in Seq(Digit)
  <2> TAKE k \in 1..n
  <2>1. PICK f, v : f = spec.fields[k] /\ v = values[k]
    OBVIOUS
  <2>2. FieldIsValid(f) /\ v \in Value /\ ValueFits(f, v) /\ parts[k] = FieldBytes(f, v)
    BY <1>2, <1>4, <1>6, <2>1
  <2> QED
    BY <2>2, FieldWritten
<1>8. PICK B : B = 0..(Bytes - 1)
  OBVIOUS
<1>9. parts \in [1..n -> Seq(B)]
  <2>1. DOMAIN parts = 1..n /\ parts = [k \in 1..n |-> parts[k]]
    BY <1>4, <1>5 DEF FieldParts
  <2>2. \A k \in 1..n : parts[k] \in Seq(B)
    <3> TAKE k \in 1..n
    <3>1. parts[k] \in Seq(Digit) /\ Digit \subseteq B
      BY <1>7, <1>8, DigitIsByte
    <3> QED
      BY <3>1, SeqMonotonic
  <2> QED
    BY <2>1, <2>2
<1>10. PICK run \in [0..n -> Seq(B)] :
         IsJoining(run, parts) /\ Concatenated(parts) = run[n]
  BY <1>9, Joinings
<1>11. PICK op \in Seq(B), all \in Seq(B) : op = spec.opcode /\ all = run[n]
  BY <1>8, <1>10 DEF IsSpec
<1>12. bytes = op \o all
  BY <1>5, <1>10, <1>11 DEF EncodedValues, FieldParts
<1>13. PICK o \in Nat, a \in Nat : o = Len(op) /\ a = Len(all)
  BY LenProperties
<1>14. /\ bytes \in Seq(B) /\ Len(bytes) = o + a
       /\ BeginsWith(bytes, op) /\ Follows(bytes, op, all)
  <2>1. bytes \in Seq(B)
    BY <1>12, ConcatProperties
  <2> QED
    BY <1>12, <1>13, <2>1, BeginsConcat
<1>15. HasOpcode(spec, bytes)
  <2>1. IsAt(bytes, 1, op)
    <3>1. 1 + o - 1 <= Len(bytes) /\ 1 \in Nat \ {0}
      BY <1>13, <1>14
    <3>2. \A i \in 1..o : 1 + i - 1 = i
      BY <1>13
    <3>3. \A i \in 1..o : bytes[i] = op[i]
      BY <1>13, <1>14 DEF BeginsWith
    <3> QED
      BY <1>13, <3>1, <3>2, <3>3 DEF IsAt
  <2>2. SubSeq(bytes, 1, 1 + o - 1) = op
    BY <1>13, <1>14, <2>1, AtIsCut
  <2>3. 1 + o - 1 = o /\ o <= Len(bytes)
    BY <1>13, <1>14
  <2> QED
    BY <1>11, <1>13, <2>2, <2>3 DEF HasOpcode
<1>16. PICK end : end = Ends(spec, bytes)
  OBVIOUS
<1>17. IsEnding(end, spec, bytes)
  BY <1>8, <1>14, <1>16, Endings
<1>18. \A k \in 0..n : Len(run[k]) \in Nat
  BY LenProperties
<1>19. \A k \in 1..n : /\ Follows(all, run[k - 1], parts[k])
                       /\ Len(run[k]) = Len(run[k - 1]) + Len(parts[k])
  <2>1. \A k \in 1..n : Grows(run, parts, k, n)
    BY <1>9, <1>10, JoiningPlaces
  <2> QED
    BY <1>11, <2>1 DEF Grows
<1> DEFINE At(k) == o + Len(run[k]) + 1
\* Each part stands after those before it.
<1>20. ASSUME NEW k \in 1..n PROVE IsAt(bytes, At(k - 1), parts[k])
  <2>1. k - 1 \in 0..n
    OBVIOUS
  <2>2. PICK r \in Nat, p \in Nat : r = Len(run[k - 1]) /\ p = Len(parts[k])
    <3>1. parts[k] \in Seq(B)
      BY <1>9
    <3> QED
      BY <1>18, <2>1, <3>1, LenProperties
  <2>10. r + p <= a
    BY <1>13, <1>19, <2>2 DEF Follows
  <2>3. \A i \in 1..p : all[r + i] = parts[k][i]
    BY <1>13, <1>19, <2>2 DEF Follows
  <2>4. \A i \in 1..a : bytes[o + i] = all[i]
    BY <1>13, <1>14 DEF Follows
  <2>5. \A i \in 1..p : r + i \in 1..a
    BY <2>10, Shifted
  <2>6. \A i \in 1..p : bytes[o + (r + i)] = parts[k][i]
    BY <2>3, <2>4, <2>5
  <2>7. PICK at : at = o + r + 1
    OBVIOUS
  <2>8. /\ at \in Nat \ {0} /\ at + p - 1 <= Len(bytes)
        /\ \A i \in 1..p : at + i - 1 = o + (r + i)
    <3>1. at \in Nat \ {0} /\ at + p - 1 <= o + a
      BY <2>7, <2>10, Shifted
    <3>2. \A i \in 1..p : at + i - 1 = o + (r + i)
      BY <2>7, <2>10, Shifted
    <3> QED
      BY <1>14, <3>1, <3>2
  <2>9. \A i \in 1..p : bytes[at + i - 1] = parts[k][i]
    BY <2>6, <2>8
  <2> QED
    BY <2>2, <2>7, <2>8, <2>9 DEF IsAt
<1>21. ASSUME NEW k \in 1..n
       PROVE  /\ FieldEnd(spec.fields[k], bytes, At(k - 1)) = At(k)
              /\ FieldBytes(spec.fields[k],
                            FieldValue(spec.fields[k], bytes, At(k - 1))) = parts[k]
              /\ spec.fields[k].kind = "unsigned" /\ spec.fields[k].scale = 1 =>
                   FieldValue(spec.fields[k], bytes, At(k - 1)) = values[k]
  <2>1. PICK f, v, at : f = spec.fields[k] /\ v = values[k] /\ at = At(k - 1)
    OBVIOUS
  <2>2. FieldIsValid(f) /\ v \in Value /\ ValueFits(f, v) /\ parts[k] = FieldBytes(f, v)
    BY <1>2, <1>4, <1>6, <2>1
  <2>3. IsAt(bytes, at, parts[k]) /\ bytes \in Seq(0..(Bytes - 1))
    BY <1>8, <1>14, <1>20, <2>1
  <2>4. /\ FieldEnd(f, bytes, at) = at + Len(parts[k])
        /\ FieldBytes(f, FieldValue(f, bytes, at)) = parts[k]
        /\ f.kind = "unsigned" /\ f.scale = 1 => FieldValue(f, bytes, at) = v
    BY <2>2, <2>3, FieldWritten
  <2>5. At(k - 1) + Len(parts[k]) = At(k)
    <3>1. k - 1 \in 0..n /\ k \in 0..n
      OBVIOUS
    <3>2. parts[k] \in Seq(B)
      BY <1>9
    <3>3. PICK r \in Nat, p \in Nat, q \in Nat :
            r = Len(run[k - 1]) /\ p = Len(parts[k]) /\ q = Len(run[k])
      BY <1>18, <3>1, <3>2, LenProperties
    <3>4. q = r + p
      BY <1>19, <3>3
    <3>5. o + r + 1 + p = o + q + 1
      BY <3>4
    <3> QED
      BY <3>3, <3>5
  <2> HIDE DEF At
  <2> QED
    BY <2>1, <2>4, <2>5
<1>22. \A k \in 0..n : end[k] = At(k)
  <2> DEFINE T == {k \in 0..n : end[k] = At(k)}
  <2>1. 0 \in T
    <3>1. run[0] = <<>> /\ Len(<<>>) = 0
      BY <1>10 DEF IsJoining
    <3>2. end[0] = o + 1
      BY <1>11, <1>13, <1>17 DEF IsEnding
    <3> QED
      BY <1>13, <3>1, <3>2
  <2>2. ASSUME NEW k \in 1..n, k - 1 \in T PROVE k \in T
    <3>1. end[k] = IF end[k - 1] = 0 THEN 0
                   ELSE FieldEnd(spec.fields[k], bytes, end[k - 1])
      BY <1>1, <1>17 DEF IsEnding
    <3>2. k \in 0..n /\ k - 1 \in 0..n /\ end[k - 1] = At(k - 1)
      BY <2>2
    <3>3. At(k - 1) # 0
      <4>1. PICK r \in Nat : r = Len(run[k - 1])
        BY <1>18, <3>2
      <4> QED
        BY <1>13, <4>1
    <3> HIDE DEF At
    <3> QED
      BY <1>21, <3>1, <3>2, <3>3
  <2>3. \A k \in 0..n : k \in T
    <3> HIDE DEF T
    <3> QED
      BY <2>1, <2>2, Along
  <2> HIDE DEF At
  <2> QED
    BY <2>3
<1>23. Fits(spec, bytes)
  <2>1. n \in 0..n
    OBVIOUS
  <2>2. end[n] = o + a + 1
    BY <1>11, <1>13, <1>22, <2>1
  <2>3. o + a + 1 = Len(bytes) + 1
    BY <1>13, <1>14
  <2> QED
    BY <1>1, <1>15, <1>16, <2>2, <2>3 DEF Fits
<1>24. PICK again : again = DecodedValues(spec, bytes)
  OBVIOUS
<1>25. /\ DOMAIN again = 1..n
       /\ again = [k \in 1..n |-> FieldValue(spec.fields[k], bytes, end[k - 1])]
  BY <1>2, <1>16, <1>24 DEF DecodedValues
<1>26. \A k \in 1..n : again[k] = FieldValue(spec.fields[k], bytes, At(k - 1))
  <2>1. \A k \in 1..n : k - 1 \in 0..n
    OBVIOUS
  <2> HIDE DEF At
  <2> QED
    BY <1>22, <1>25, <2>1
<1> HIDE DEF At
<1>27. FieldParts(spec, again) = parts
  <2>1. \A k \in 1..n : FieldBytes(spec.fields[k], again[k]) = parts[k]
    BY <1>21, <1>26
  <2> QED
    BY <1>9, <1>25, <2>1 DEF FieldParts
<1>28. EncodedValues(spec, again) = bytes
  BY <1>5, <1>27, Zenon DEF EncodedValues, FieldParts
<1>29. ASSUME \A k \in DOMAIN spec.fields :
                spec.fields[k].kind = "unsigned" /\ spec.fields[k].scale = 1
       PROVE  again = values
  <2>1. \A k \in 1..n : again[k] = values[k]
    BY <1>2, <1>21, <1>26, <1>29
  <2> QED
    BY <1>4, <1>25, <2>1
<1> QED
  BY <1>8, <1>14, <1>23, <1>24, <1>28, <1>29

-----------------------------------------------------------------------------
(* Frames.                                                                 *)

\* Induction over sequences, stated for the set of those it holds of.
LEMMA Appended ==
  ASSUME NEW S, NEW Q, <<>> \in Q,
         \A s \in Seq(S), e \in S : s \in Q => Append(s, e) \in Q
  PROVE  Seq(S) \subseteq Q
<1> DEFINE T == {n \in Nat : \A s \in Seq(S) : Len(s) = n => s \in Q}
<1>1. 0 \in T
  <2>1. \A s \in Seq(S) : Len(s) = 0 => s = <<>>
    BY EmptySeq
  <2> QED
    BY <2>1
<1>2. ASSUME NEW n \in Nat, n \in T PROVE n + 1 \in T
  <2> SUFFICES ASSUME NEW s \in Seq(S), Len(s) = n + 1 PROVE s \in Q
    OBVIOUS
  <2>1. s # <<>>
    <3>1. Len(<<>>) = 0
      OBVIOUS
    <3> QED
      BY <3>1
  <2>2. PICK p \in Seq(S), e \in S : s = Append(p, e)
    BY <2>1, SequenceEmptyOrAppend
  <2>3. Len(p) \in Nat /\ Len(s) = Len(p) + 1
    BY <2>2, AppendProperties, LenProperties
  <2>4. p \in Q
    BY <1>2, <2>3
  <2> QED
    BY <2>2, <2>4
<1>3. Nat \subseteq T
  <2> HIDE DEF T
  <2> QED
    BY <1>1, <1>2, Inductive
<1> QED
  <2> SUFFICES ASSUME NEW s \in Seq(S) PROVE s \in Q
    OBVIOUS
  <2>1. Len(s) \in Nat
    BY LenProperties
  <2>2. Len(s) \in T
    BY <1>3, <2>1
  <2> QED
    BY <2>2

\* No parts make up the empty stream.
LEMMA ConcatenatedNone ==
  Concatenated(<<>>) = <<>>
<1>1. 0 \in Nat /\ <<>> \in [1..0 -> Seq({})]
  BY EmptySeq, LenProperties
<1>2. PICK run \in [0..0 -> Seq({})] :
        IsJoining(run, <<>>) /\ Concatenated(<<>>) = run[0]
  BY <1>1, Joinings
<1> QED
  BY <1>2 DEF IsJoining

\* One more part comes after those before.
LEMMA ConcatenatedOneMore ==
  ASSUME NEW S, NEW parts \in Seq(Seq(S)), NEW p \in Seq(S)
  PROVE  Concatenated(Append(parts, p)) = Concatenated(parts) \o p
<1>1. PICK n \in Nat : n = Len(parts) /\ parts \in [1..n -> Seq(S)]
  BY LenProperties
<1>2. PICK more : more = Append(parts, p)
  OBVIOUS
<1>3. /\ more \in Seq(Seq(S)) /\ Len(more) = n + 1
      /\ \A i \in 1..n : more[i] = parts[i]
      /\ more[n + 1] = p
  BY <1>1, <1>2, AppendProperties
<1>4. n + 1 \in Nat /\ more \in [1..(n + 1) -> Seq(S)]
  BY <1>3, LenProperties
<1>5. PICK run \in [0..n + 1 -> Seq(S)] :
        IsJoining(run, more) /\ Concatenated(more) = run[n + 1]
  BY <1>4, Joinings
<1>6. PICK f : f = [k \in 0..n |-> run[k]]
  OBVIOUS
<1>7. run[0] = <<>> /\ \A k \in 1..(n + 1) : run[k] = run[k - 1] \o more[k]
  BY <1>3, <1>5 DEF IsJoining
<1>8. IsJoining(f, parts)
  <2>1. DOMAIN f = 0..n /\ \A k \in 0..n : f[k] = run[k]
    BY <1>6
  <2>2. 0 \in 0..n /\ \A k \in 1..n : k \in 0..n /\ k - 1 \in 0..n /\ k \in 1..(n + 1)
    OBVIOUS
  <2>3. \A k \in 1..n : f[k] = f[k - 1] \o parts[k]
    BY <1>3, <1>7, <2>1, <2>2, Zenon
  <2>4. f[0] = <<>>
    BY <1>7, <2>1, <2>2
  <2> QED
    BY <1>1, <2>1, <2>3, <2>4 DEF IsJoining
<1>9. Concatenated(parts) = f[n]
  BY <1>1, <1>8, JoiningIs
<1>10. f[n] = run[n] /\ n + 1 \in 1..(n + 1) /\ (n + 1) - 1 = n
  BY <1>6
<1>11. run[n + 1] = run[n] \o p
  BY <1>3, <1>7, <1>10
<1> QED
  BY <1>2, <1>5, <1>9, <1>10, <1>11

\* The frames with one byte more.
NextFrames(frames, k, b) ==
  IF k = 1 \/ b >= Base THEN Append(frames, <<b>>)
  ELSE [frames EXCEPT ![Len(frames)] = Append(@, b)]

IsFrameRun(run, data) ==
  /\ run[0] = <<>>
  /\ \A k \in 1..Len(data) : run[k] = NextFrames(run[k - 1], k, data[k])

\* One more byte keeps the frames frames over the same bytes.
LEMMA FramesTyped ==
  ASSUME NEW B, NEW frames \in Seq(Seq(B)), NEW k, NEW b \in B
  PROVE  NextFrames(frames, k, b) \in Seq(Seq(B))
<1>1. <<b>> \in Seq(B)
  OBVIOUS
<1>2. Append(frames, <<b>>) \in Seq(Seq(B))
  BY <1>1, AppendProperties
<1>3. [frames EXCEPT ![Len(frames)] = Append(@, b)] \in Seq(Seq(B))
  <2>1. PICK m \in Nat : m = Len(frames) /\ frames \in [1..m -> Seq(B)]
    BY LenProperties
  <2>2. CASE m = 0
    <3>1. [frames EXCEPT ![m] = Append(@, b)] = frames
      BY <2>1, <2>2
    <3> QED
      BY <2>1, <3>1
  <2>3. CASE m # 0
    <3>1. m \in 1..m /\ frames[m] \in Seq(B)
      BY <2>1, <2>3
    <3>2. PICK x \in Seq(B) : x = Append(frames[m], b)
      BY <3>1, AppendProperties
    <3>3. [frames EXCEPT ![m] = Append(@, b)] = [frames EXCEPT ![m] = x]
      BY <3>2
    <3>4. [frames EXCEPT ![m] = x] \in Seq(Seq(B))
      BY <2>1, <3>1, ExceptSeq
    <3> QED
      BY <2>1, <3>3, <3>4
  <2> QED
    BY <2>2, <2>3
<1> QED
  BY <1>2, <1>3, Zenon DEF NextFrames

\* The frames are found byte by byte.
LEMMA FrameRuns ==
  ASSUME NEW B, NEW n \in Nat, NEW data \in [1..n -> B]
  PROVE  \E run \in [0..n -> Seq(Seq(B))] :
           IsFrameRun(run, data) /\ LogicalFrames(data) = run[n]
<1>1. Len(data) = n
  BY LenProperties
<1> DEFINE F == Seq(Seq(B))
           step == [k \in 1..n |-> [s \in F |-> NextFrames(s, k, data[k])]]
           IsRun(f) == f = [k \in 0..Len(data) |->
              IF k = 0 THEN <<>>
              ELSE IF k = 1 \/ data[k] >= Base THEN Append(f[k - 1], <<data[k]>>)
              ELSE [f[k - 1] EXCEPT ![Len(f[k - 1])] = Append(@, data[k])]]
<1>2. <<>> \in F
  BY EmptySeq
<1>3. \A k \in 1..n : \A s \in F : NextFrames(s, k, data[k]) \in F
  BY FramesTyped
<1> HIDE DEF F
<1>4. Stays(F, n, step)
  BY <1>3 DEF Stays
<1>5. PICK f : Computes(f, F, <<>>, n, step)
  <2> HIDE DEF step
  <2> QED
    BY <1>2, <1>4, Recursion
<1>6. f \in [0..n -> F] /\ f[0] = <<>>
      /\ \A k \in 1..n : f[k] = NextFrames(f[k - 1], k, data[k])
  <2>1. \A k \in 1..n : k - 1 \in 0..n
    OBVIOUS
  <2>2. f \in [0..n -> F] /\ f[0] = <<>> /\ \A k \in 1..n : f[k] = step[k][f[k - 1]]
    <3> HIDE DEF step
    <3> QED
      BY <1>5 DEF Computes
  <2>3. \A k \in 1..n : f[k - 1] \in F
    BY <2>1, <2>2
  <2> QED
    BY <2>2, <2>3, Zenon
<1> HIDE DEF step
<1>7. IsRun(f)
  <2>1. \A k \in 0..n : k # 0 => k \in 1..n
    OBVIOUS
  <2>2. f = [k \in 0..n |-> f[k]]
    BY <1>6
  <2>3. \A k \in 0..n : f[k] = IF k = 0 THEN <<>>
                               ELSE NextFrames(f[k - 1], k, data[k])
    BY <1>6, <2>1, Zenon
  <2>4. f = [k \in 0..n |-> IF k = 0 THEN <<>> ELSE NextFrames(f[k - 1], k, data[k])]
    BY <2>2, <2>3, Zenon
  <2> QED
    BY <1>1, <2>4, Zenon DEF NextFrames
<1> DEFINE run == CHOOSE g : IsRun(g)
<1>8. IsRun(run) /\ LogicalFrames(data) = run[n]
  <2>1. IsRun(run)
    BY <1>7, Zenon
  <2>2. LogicalFrames(data) = run[Len(data)]
    BY Zenon DEF LogicalFrames
  <2> QED
    BY <1>1, <2>1, <2>2, Zenon
<1> HIDE DEF run
<1>9. run = [k \in 0..n |-> IF k = 0 THEN <<>>
                            ELSE NextFrames(run[k - 1], k, data[k])]
  BY <1>1, <1>8, Zenon DEF NextFrames
<1> HIDE DEF IsRun
<1>10. run[0] = <<>> /\ \A k \in 1..n : run[k] = NextFrames(run[k - 1], k, data[k])
  <2>1. 0 \in 0..n /\ \A k \in 1..n : k \in 0..n /\ k # 0
    OBVIOUS
  <2>2. \A k \in 0..n : run[k] = IF k = 0 THEN <<>>
                                 ELSE NextFrames(run[k - 1], k, data[k])
    BY <1>9, Zenon
  <2> QED
    BY <2>1, <2>2, Zenon
<1> DEFINE T == {k \in 0..n : run[k] \in F}
<1>11. 0 \in T
  BY <1>2, <1>10
<1>12. ASSUME NEW k \in 1..n, k - 1 \in T PROVE k \in T
  <2>1. run[k - 1] \in F /\ k \in 0..n
    BY <1>12
  <2> QED
    BY <1>3, <1>10, <2>1
<1>13. \A k \in 0..n : k \in T
  <2> HIDE DEF T
  <2> QED
    BY <1>11, <1>12, Along
<1>14. run \in [0..n -> F]
  <2>1. \A k \in 0..n : run[k] \in F
    BY <1>13
  <2>2. DOMAIN run = 0..n
    BY <1>9, Zenon
  <2>3. run = [k \in 0..n |-> run[k]]
    BY <1>9, Zenon
  <2> QED
    BY <2>1, <2>3
<1>15. IsFrameRun(run, data)
  BY <1>1, <1>10, Zenon DEF IsFrameRun
<1> QED
  BY <1>8, <1>14, <1>15 DEF F

\* Whatever goes on frame by frame is the frames.
LEMMA FrameRunIs ==
  ASSUME NEW B, NEW n \in Nat, NEW data \in [1..n -> B],
         NEW run, IsFrameRun(run, data)
  PROVE  LogicalFrames(data) = run[n]
<1>1. Len(data) = n
  BY LenProperties
<1>2. PICK f \in [0..n -> Seq(Seq(B))] :
        IsFrameRun(f, data) /\ LogicalFrames(data) = f[n]
  BY FrameRuns
<1> DEFINE T == {k \in 0..n : f[k] = run[k]}
<1>3. 0 \in T
  BY <1>2 DEF IsFrameRun
<1>4. ASSUME NEW k \in 1..n, k - 1 \in T PROVE k \in T
  <2>1. f[k - 1] = run[k - 1] /\ k \in 0..n
    BY <1>4
  <2>2. f[k] = NextFrames(f[k - 1], k, data[k])
    BY <1>1, <1>2 DEF IsFrameRun
  <2>3. run[k] = NextFrames(run[k - 1], k, data[k])
    BY <1>1 DEF IsFrameRun
  <2> QED
    BY <2>1, <2>2, <2>3
<1>5. \A k \in 0..n : k \in T
  <2> HIDE DEF T
  <2> QED
    BY <1>3, <1>4, Along
<1> QED
  BY <1>2, <1>5

\* The empty stream has no frames.
LEMMA NoFrames ==
  LogicalFrames(<<>>) = <<>>
<1>1. 0 \in Nat /\ <<>> \in [1..0 -> {}]
  BY EmptySeq, LenProperties
<1>2. PICK run \in [0..0 -> Seq(Seq({}))] :
        IsFrameRun(run, <<>>) /\ LogicalFrames(<<>>) = run[0]
  BY <1>1, FrameRuns
<1> QED
  BY <1>2 DEF IsFrameRun

\* One more byte begins a frame or goes to the last.
LEMMA OneMoreByte ==
  ASSUME NEW B, NEW data \in Seq(B), NEW b \in B
  PROVE  LogicalFrames(Append(data, b))
           = NextFrames(LogicalFrames(data), Len(data) + 1, b)
<1>1. PICK n \in Nat : n = Len(data) /\ data \in [1..n -> B]
  BY LenProperties
<1>2. PICK more : more = Append(data, b)
  OBVIOUS
<1>3. /\ more \in Seq(B) /\ Len(more) = n + 1
      /\ \A i \in 1..n : more[i] = data[i]
      /\ more[n + 1] = b
  BY <1>1, <1>2, AppendProperties
<1>4. n + 1 \in Nat /\ more \in [1..(n + 1) -> B]
  BY <1>3, LenProperties
<1>5. PICK run \in [0..n + 1 -> Seq(Seq(B))] :
        IsFrameRun(run, more) /\ LogicalFrames(more) = run[n + 1]
  BY <1>4, FrameRuns
<1>6. run[0] = <<>> /\ \A k \in 1..(n + 1) : run[k] = NextFrames(run[k - 1], k, more[k])
  BY <1>3, <1>5 DEF IsFrameRun
<1>7. IsFrameRun(run, data)
  <2>1. \A k \in 1..n : k \in 1..(n + 1)
    OBVIOUS
  <2>2. \A k \in 1..n : run[k] = NextFrames(run[k - 1], k, data[k])
    BY <1>3, <1>6, <2>1
  <2> QED
    BY <1>1, <1>6, <2>2 DEF IsFrameRun
<1>8. LogicalFrames(data) = run[n]
  BY <1>1, <1>7, FrameRunIs
<1>9. n + 1 \in 1..(n + 1) /\ (n + 1) - 1 = n
  OBVIOUS
<1>10. run[n + 1] = NextFrames(run[n], n + 1, b)
  BY <1>3, <1>6, <1>9
<1> QED
  BY <1>1, <1>2, <1>5, <1>8, <1>10

\* A byte begins a frame or continues the last one.
LEMMA FrameBegins ==
  ASSUME NEW B, NEW data \in Seq(B), NEW b \in B, data = <<>> \/ b >= Base
  PROVE  LogicalFrames(Append(data, b)) = Append(LogicalFrames(data), <<b>>)
<1>1. Len(data) + 1 = 1 \/ b >= Base
  BY EmptySeq
<1>2. LogicalFrames(Append(data, b))
        = NextFrames(LogicalFrames(data), Len(data) + 1, b)
  BY OneMoreByte
<1> QED
  BY <1>1, <1>2, Zenon DEF NextFrames

\* A byte below Base goes to the last frame.
LEMMA FrameContinues ==
  ASSUME NEW B, NEW data \in Seq(B), NEW b \in B, data # <<>>, ~(b >= Base),
         NEW front \in Seq(Seq(B)), NEW last \in Seq(B),
         LogicalFrames(data) = Append(front, last)
  PROVE  LogicalFrames(Append(data, b)) = Append(front, Append(last, b))
<1>1. Len(data) \in Nat \ {0}
  BY EmptySeq
<1>2. Len(data) + 1 # 1
  BY <1>1
<1>3. PICK frames, next : frames = LogicalFrames(data) /\ next = Append(last, b)
  OBVIOUS
<1>4. LogicalFrames(Append(data, b)) = NextFrames(frames, Len(data) + 1, b)
  BY <1>3, OneMoreByte
<1>5. LogicalFrames(Append(data, b)) = [frames EXCEPT ![Len(frames)] = Append(@, b)]
  BY <1>2, <1>4, Zenon DEF NextFrames
<1>6. PICK m \in Nat : m = Len(front)
  BY LenProperties
<1>7. /\ frames \in Seq(Seq(B)) /\ Len(frames) = m + 1
      /\ \A i \in 1..m : frames[i] = front[i]
      /\ frames[m + 1] = last
  BY <1>3, <1>6, AppendProperties
<1>8. next \in Seq(B)
  BY <1>3, AppendProperties
<1>9. [frames EXCEPT ![Len(frames)] = Append(@, b)] = [frames EXCEPT ![m + 1] = next]
  <2>1. Append(frames[m + 1], b) = next
    BY <1>3, <1>7
  <2> QED
    BY <1>7, <2>1
<1>10. PICK p, q : p = [frames EXCEPT ![m + 1] = next] /\ q = Append(front, next)
  OBVIOUS
<1>11. m + 1 \in 1..Len(frames)
  BY <1>7
<1>12. /\ p \in Seq(Seq(B)) /\ Len(p) = m + 1
       /\ \A j \in 1..(m + 1) : p[j] = IF j = m + 1 THEN next ELSE frames[j]
  BY <1>7, <1>8, <1>10, <1>11, ExceptSeq
<1>13. /\ q \in Seq(Seq(B)) /\ Len(q) = m + 1
       /\ \A i \in 1..m : q[i] = front[i]
       /\ q[m + 1] = next
  BY <1>6, <1>8, <1>10, AppendProperties
<1>14. \A j \in 1..(m + 1) : p[j] = q[j]
  <2>1. \A j \in 1..(m + 1) : j # m + 1 => j \in 1..m
    OBVIOUS
  <2> QED
    BY <1>7, <1>12, <1>13, <2>1
<1>15. p = q
  BY <1>12, <1>13, <1>14, SeqEqual
<1> QED
  BY <1>3, <1>5, <1>9, <1>10, <1>15

\* Frames: only the first byte of each, and the first byte of all but the first,
\* begins a command.
IsFrame(p) == p # <<>> /\ \A i \in 2..Len(p) : ~(p[i] >= Base)

IsFraming(parts) ==
  \A k \in 1..Len(parts) : IsFrame(parts[k]) /\ (k # 1 => parts[k][1] >= Base)

\* One more part keeps a framing if it begins with a command start.
LEMMA OneMoreFrame ==
  ASSUME NEW B, NEW parts \in Seq(Seq(B)), NEW p \in Seq(B)
  PROVE  IsFraming(Append(parts, p)) <=>
           IsFraming(parts) /\ IsFrame(p) /\ (parts # <<>> => p[1] >= Base)
<1>1. PICK n \in Nat : n = Len(parts) /\ (parts # <<>> <=> n # 0)
  <2>1. Len(parts) \in Nat /\ (parts # <<>> => Len(parts) # 0) /\ Len(<<>>) = 0
    BY EmptySeq, LenProperties
  <2> QED
    BY <2>1
<1>2. PICK more : more = Append(parts, p)
  OBVIOUS
<1>3. /\ Len(more) = n + 1 /\ more[n + 1] = p
      /\ \A i \in 1..n : more[i] = parts[i]
  BY <1>1, <1>2, AppendProperties
<1>4. \A k \in 1..(n + 1) : k \in 1..n \/ k = n + 1
  OBVIOUS
<1>5. n + 1 \in 1..(n + 1) /\ \A k \in 1..n : k \in 1..(n + 1)
  OBVIOUS
<1>6. n + 1 # 1 <=> n # 0
  OBVIOUS
<1> QED
  BY <1>1, <1>2, <1>3, <1>4, <1>5, <1>6 DEF IsFraming

\* One more byte keeps a frame a frame if it is below Base.
LEMMA LongerFrame ==
  ASSUME NEW B, NEW p \in Seq(B), NEW b \in B
  PROVE  /\ p = <<>> => IsFrame(Append(p, b)) /\ Append(p, b)[1] = b
         /\ p # <<>> => /\ Append(p, b)[1] = p[1]
                        /\ IsFrame(Append(p, b)) <=> IsFrame(p) /\ ~(b >= Base)
<1>1. PICK n \in Nat : n = Len(p) /\ (p # <<>> <=> n # 0)
  <2>1. Len(p) \in Nat /\ (p # <<>> => Len(p) # 0) /\ Len(<<>>) = 0
    BY EmptySeq, LenProperties
  <2> QED
    BY <2>1
<1>2. PICK q : q = Append(p, b)
  OBVIOUS
<1>3. q # <<>> /\ Len(q) = n + 1 /\ q[n + 1] = b /\ \A i \in 1..n : q[i] = p[i]
  BY <1>1, <1>2, AppendProperties
<1>4. \A k \in 2..(n + 1) : k \in 2..n \/ k = n + 1
  OBVIOUS
<1>5. /\ n # 0 => n + 1 \in 2..(n + 1) /\ 1 \in 1..n
      /\ \A k \in 2..n : k \in 2..(n + 1) /\ k \in 1..n
      /\ n = 0 => n + 1 = 1 /\ 2..(n + 1) = {}
  OBVIOUS
<1>6. CASE p = <<>>
  BY <1>1, <1>2, <1>3, <1>5, <1>6 DEF IsFrame
<1>7. CASE p # <<>>
  <2>1. q[1] = p[1]
    BY <1>1, <1>3, <1>5, <1>7
  <2>2. IsFrame(q) <=> IsFrame(p) /\ ~(b >= Base)
    BY <1>1, <1>3, <1>4, <1>5, <1>7 DEF IsFrame
  <2> QED
    BY <1>2, <1>7, <2>1, <2>2
<1> QED
  BY <1>6, <1>7

\* One more part.
LEMMA OneMorePart ==
  ASSUME NEW B, NEW parts \in Seq(Seq(B)), NEW p \in Seq(B), NEW more,
         more = Append(parts, p)
  PROVE  more \in Seq(Seq(B)) /\ more # <<>>
<1>1. PICK P : P = Seq(B)
  OBVIOUS
<1>2. parts \in Seq(P) /\ p \in P
  BY <1>1
<1>3. Append(parts, p) \in Seq(P) /\ Append(parts, p) # <<>>
  BY <1>2, AppendProperties
<1> QED
  BY <1>1, <1>3

\* The frames of a stream make up the stream.
IsMadeUp(data, B) ==
  /\ LogicalFrames(data) \in Seq(Seq(B)) /\ IsFraming(LogicalFrames(data))
  /\ Concatenated(LogicalFrames(data)) = data
  /\ data # <<>> => LogicalFrames(data) # <<>>

\* For every stream logical_frames returns frames that make up the stream.
LEMMA FramesMakeUp ==
  ASSUME NEW B, NEW data \in Seq(B)
  PROVE  IsMadeUp(data, B)
<1> DEFINE Q == {d \in Seq(B) : IsMadeUp(d, B)}
<1>1. <<>> \in Q
  <2>1. <<>> \in Seq(B) /\ <<>> \in Seq(Seq(B)) /\ Len(<<>>) = 0
    BY EmptySeq
  <2>2. IsFraming(<<>>)
    BY <2>1 DEF IsFraming
  <2> QED
    BY <2>1, <2>2, NoFrames, ConcatenatedNone DEF IsMadeUp
<1>2. ASSUME NEW d \in Seq(B), NEW b \in B, d \in Q
      PROVE  Append(d, b) \in Q
  <2>1. PICK frames : frames = LogicalFrames(d)
    OBVIOUS
  <2>2. /\ frames \in Seq(Seq(B)) /\ IsFraming(frames) /\ Concatenated(frames) = d
        /\ d # <<>> => frames # <<>>
    BY <1>2, <2>1 DEF IsMadeUp
  <2>3. PICK more : more = LogicalFrames(Append(d, b))
    OBVIOUS
  <2>4. Append(d, b) \in Seq(B) /\ Append(d, b) = d \o <<b>>
    BY AppendProperties, AppendIsConcat
  <2>5. CASE d = <<>> \/ b >= Base
    <3>1. PICK p : p = <<b>>
      OBVIOUS
    <3>2. more = Append(frames, p)
      BY <2>1, <2>3, <2>5, <3>1, FrameBegins
    <3>3. p \in Seq(B) /\ IsFrame(p) /\ p[1] = b
      BY <3>1 DEF IsFrame
    <3>4. more \in Seq(Seq(B)) /\ more # <<>>
      BY <2>2, <3>2, <3>3, OneMorePart
    <3>5. Concatenated(more) = d \o p
      BY <2>2, <3>2, <3>3, ConcatenatedOneMore
    <3>6. frames # <<>> => b >= Base
      <4>1. d = <<>> => frames = <<>>
        BY <2>1, NoFrames
      <4> QED
        BY <2>5, <4>1
    <3>7. IsFraming(more)
      BY <2>2, <3>2, <3>3, <3>6, OneMoreFrame
    <3> QED
      BY <2>3, <2>4, <3>1, <3>4, <3>5, <3>7 DEF IsMadeUp
  <2>6. CASE d # <<>> /\ ~(b >= Base)
    <3>1. PICK front \in Seq(Seq(B)), last \in Seq(B) : frames = Append(front, last)
      BY <2>2, <2>6, SequenceEmptyOrAppend
    <3>2. PICK next : next = Append(last, b)
      OBVIOUS
    <3>3. more = Append(front, next)
      <4>1. LogicalFrames(d) = Append(front, last)
        BY <2>1, <3>1
      <4>2. LogicalFrames(Append(d, b)) = Append(front, Append(last, b))
        BY <2>6, <4>1, FrameContinues
      <4> QED
        BY <2>3, <3>2, <4>2
    <3>4. next \in Seq(B) /\ next = last \o <<b>>
      BY <3>2, AppendProperties, AppendIsConcat
    <3>5. more \in Seq(Seq(B)) /\ more # <<>>
      BY <3>3, <3>4, OneMorePart
    <3>6. PICK c \in Seq(B) : c = Concatenated(front)
      <4>1. Len(front) \in Nat /\ front \in [1..Len(front) -> Seq(B)]
        BY LenProperties
      <4> QED
        BY <4>1, JoinedTypes
    <3>7. d = c \o last /\ Concatenated(more) = c \o next
      BY <2>2, <3>1, <3>3, <3>4, <3>6, ConcatenatedOneMore
    <3>8. c \o (last \o <<b>>) = (c \o last) \o <<b>>
      <4>1. <<b>> \in Seq(B)
        OBVIOUS
      <4> QED
        BY <4>1, ConcatAssociative
    <3>9. Concatenated(more) = Append(d, b)
      BY <2>4, <3>4, <3>7, <3>8
    <3>10. IsFraming(front) /\ IsFrame(last) /\ (front # <<>> => last[1] >= Base)
      BY <2>2, <3>1, OneMoreFrame
    <3>11. IsFrame(next) /\ next[1] = last[1]
      <4>1. last # <<>>
        BY <3>10 DEF IsFrame
      <4> QED
        BY <2>6, <3>2, <3>10, <4>1, LongerFrame
    <3>12. IsFraming(more)
      BY <3>3, <3>4, <3>10, <3>11, OneMoreFrame
    <3> QED
      BY <2>3, <2>4, <3>5, <3>9, <3>12 DEF IsMadeUp
  <2> QED
    BY <2>5, <2>6
<1>3. Seq(B) \subseteq Q
  <2> HIDE DEF Q
  <2> QED
    BY <1>1, <1>2, Appended
<1> QED
  BY <1>3

\* A frame that follows a stream is the last of its frames.
LEMMA FrameFollows ==
  ASSUME NEW B, NEW data \in Seq(B), NEW p \in Seq(B), IsFrame(p),
         data = <<>> \/ p[1] >= Base
  PROVE  LogicalFrames(data \o p) = Append(LogicalFrames(data), p)
<1>1. PICK frames \in Seq(Seq(B)) : frames = LogicalFrames(data)
  BY FramesMakeUp DEF IsMadeUp
<1> DEFINE Good(q) == IsFrame(q) /\ (data = <<>> \/ q[1] >= Base)
           Holds(q) == Good(q) => LogicalFrames(data \o q) = Append(frames, q)
           Q == {q \in Seq(B) : Holds(q)}
<1>2. <<>> \in Q
  <2>1. <<>> \in Seq(B) /\ ~IsFrame(<<>>)
    BY EmptySeq DEF IsFrame
  <2> QED
    BY <2>1
<1>3. ASSUME NEW q \in Seq(B), NEW b \in B, q \in Q
      PROVE  Append(q, b) \in Q
  <2>1. PICK r : r = Append(q, b)
    OBVIOUS
  <2>2. r \in Seq(B) /\ r = q \o <<b>> /\ <<b>> \in Seq(B)
    BY <2>1, AppendProperties, AppendIsConcat
  <2>3. ASSUME Good(r) PROVE LogicalFrames(data \o r) = Append(frames, r)
    <3>1. CASE q = <<>>
      <4>1. r = <<b>> /\ r[1] = b
        BY <2>1, <3>1
      <4>2. data = <<>> \/ b >= Base
        BY <2>3, <4>1
      <4>3. data \o r = Append(data, b)
        BY <4>1, AppendIsConcat
      <4> QED
        BY <1>1, <4>1, <4>2, <4>3, FrameBegins
    <3>2. CASE q # <<>>
      <4>1. r[1] = q[1] /\ IsFrame(q) /\ ~(b >= Base)
        BY <2>1, <2>3, <3>2, LongerFrame
      <4>2. Good(q)
        BY <2>3, <4>1
      <4>3. LogicalFrames(data \o q) = Append(frames, q)
        BY <1>3, <4>2
      <4>4. PICK c : c = data \o q
        OBVIOUS
      <4>5. c \in Seq(B) /\ c # <<>>
        BY <3>2, <4>4, ConcatProperties, ConcatEqualIffEmpty
      <4>6. data \o r = Append(c, b)
        <5>1. data \o (q \o <<b>>) = c \o <<b>>
          BY <2>2, <4>4, ConcatAssociative
        <5>2. c \o <<b>> = Append(c, b)
          BY <4>5, AppendIsConcat
        <5> QED
          BY <2>2, <5>1, <5>2
      <4>7. LogicalFrames(Append(c, b)) = Append(frames, Append(q, b))
        BY <4>1, <4>3, <4>4, <4>5, FrameContinues
      <4> QED
        BY <2>1, <4>6, <4>7
    <3> QED
      BY <3>1, <3>2
  <2> HIDE DEF Good
  <2> QED
    BY <2>1, <2>2, <2>3
<1>4. Seq(B) \subseteq Q
  <2> HIDE DEF Q
  <2> QED
    BY <1>2, <1>3, Appended
<1> QED
  BY <1>1, <1>4

\* Frames put together are found again.
THEOREM FramesFound ==
  ASSUME NEW B, NEW parts \in Seq(Seq(B)), IsFraming(parts)
  PROVE  LogicalFrames(Concatenated(parts)) = parts
<1> DEFINE Holds(ps) == IsFraming(ps) => LogicalFrames(Concatenated(ps)) = ps
           Q == {ps \in Seq(Seq(B)) : Holds(ps)}
<1>1. <<>> \in Q
  BY NoFrames, ConcatenatedNone, EmptySeq
<1>2. ASSUME NEW ps \in Seq(Seq(B)), NEW p \in Seq(B), ps \in Q
      PROVE  Append(ps, p) \in Q
  <2>1. Append(ps, p) \in Seq(Seq(B))
    BY AppendProperties
  <2>2. ASSUME IsFraming(Append(ps, p))
        PROVE  LogicalFrames(Concatenated(Append(ps, p))) = Append(ps, p)
    <3>1. IsFraming(ps) /\ IsFrame(p) /\ (ps # <<>> => p[1] >= Base)
      BY <2>2, OneMoreFrame
    <3>2. PICK c \in Seq(B) : c = Concatenated(ps)
      <4>1. Len(ps) \in Nat /\ ps \in [1..Len(ps) -> Seq(B)]
        BY LenProperties
      <4> QED
        BY <4>1, JoinedTypes
    <3>3. LogicalFrames(c) = ps
      BY <1>2, <3>1, <3>2
    <3>4. c = <<>> \/ p[1] >= Base
      BY <3>1, <3>2, ConcatenatedNone
    <3>5. Concatenated(Append(ps, p)) = c \o p
      BY <3>2, ConcatenatedOneMore
    <3> QED
      BY <3>1, <3>3, <3>4, <3>5, FrameFollows
  <2> QED
    BY <2>1, <2>2
<1>3. Seq(Seq(B)) \subseteq Q
  <2> HIDE DEF Q
  <2> QED
    BY <1>1, <1>2, Appended
<1> QED
  BY <1>3

=============================================================================
