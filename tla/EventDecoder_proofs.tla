------------------------ MODULE EventDecoder_proofs ------------------------
(***************************************************************************)
(* EventDecoder for every set of frames, size of the buffer and length of  *)
(* a body: its type invariant and that it implements FrameChannel.         *)
(***************************************************************************)
EXTENDS EventDecoder, SequenceTheorems, TLAPS

\* The bytes not decoded yet, wherever they are.
Rest == buf \o wire
Before(x, y) == x.frame < y.frame \/ (x.frame = y.frame /\ x.at < y.at)

\* Below, q is such a sequence of bytes, s the frames they come from, d the
\* number of events made so far and w the number of leading frames that are whole.
Places(q, s, d) ==
    \A i \in 1 .. Len(q) :
        q[i].frame \in d + 1 .. Len(s) /\ q[i].at \in 1 .. s[q[i].frame].size
Sorted(q) == \A i, j \in 1 .. Len(q) : i < j => Before(q[i], q[j])
Present(q, k) == \E i \in 1 .. Len(q) : q[i].frame = k

\* Behind position o stand the n bytes of the k-th frame.
Stands(q, k, n, o) ==
    /\ o + n <= Len(q)
    /\ \A j \in 1 .. Len(q) : o < j /\ j <= o + n =>
          q[j].frame = k /\ q[j].at = j - o /\ q[j].sound
Intact(q, s, d, w) ==
    \A k \in d + 1 .. w : \E o \in 0 .. Len(q) : Stands(q, k, s[k].size, o)

\* Something is left of what spoils the body, and it is not a frame to accept.
Lacks(q, s, k) ==
    \E b \in 1 .. s[k].size : \A i \in 1 .. Len(q) :
        ~(q[i].frame = k /\ q[i].at = b /\ q[i].sound)
Spoiler(q, s, w) ==
    w < Len(s) => Present(q, w + 1) /\ (Sound(s[w + 1]) => Lacks(q, s, w + 1))

\* What the wire has not damaged has lost bytes only at its end.
Gapless(q, s) ==
    /\ \A i \in 1 .. Len(q) : q[i].sound
    /\ Len(q) > 0 => q[1].at = 1
    /\ \A i, j \in 1 .. Len(q) : j = i + 1 =>
          \/ q[j].frame = q[i].frame
          \/ q[i].at = s[q[i].frame].size /\ q[j].at = 1
EndsFrame(q, s) == Len(q) > 0 => q[Len(q)].at = s[q[Len(q)].frame].size

PlacesInv == Places(Rest, sent, Len(events))
SortedInv == Sorted(Rest)
WholeInv ==
    /\ Len(events) <= whole
    /\ \A k \in 1 .. whole : Sound(sent[k])
    /\ pc # "done" => Intact(Rest, sent, Len(events), whole)
SpoiledInv == pc # "done" => Spoiler(Rest, sent, whole)
GaplessInv == pc # "done" /\ ~damaged => Gapless(Rest, sent)
EndsFrameInv == pc # "done" /\ ~damaged /\ ~closed => EndsFrame(Rest, sent)
EndInv ==
    /\ eof => closed /\ wire = <<>>
    /\ failed => pc = "done"
    /\ pc = "done" <=> outcome # "none"

BodyInv == PlacesInv /\ SortedInv /\ WholeInv /\ SpoiledInv /\ GaplessInv /\ EndsFrameInv
DecoderInv == TypeOK /\ EndInv /\ BodyInv

-----------------------------------------------------------------------------
(* Sequences, and bytes.                                                    *)

\* What a concatenation is.
LEMMA ConcatIs ==
    ASSUME NEW S, NEW s \in Seq(S), NEW t \in Seq(S)
    PROVE  /\ s \o t \in Seq(S)
           /\ Len(s \o t) = Len(s) + Len(t)
           /\ \A i \in 1 .. Len(s) : (s \o t)[i] = s[i]
           /\ \A i \in 1 .. Len(t) : (s \o t)[Len(s) + i] = t[i]
OBVIOUS

\* What a part of a sequence is.
LEMMA SubSeqIs ==
    ASSUME NEW S, NEW s \in Seq(S), NEW m \in 1 .. Len(s) + 1, NEW n \in m - 1 .. Len(s)
    PROVE  /\ SubSeq(s, m, n) \in Seq(S)
           /\ Len(SubSeq(s, m, n)) = n - m + 1
           /\ \A i \in 1 .. n - m + 1 : SubSeq(s, m, n)[i] = s[m + i - 1]
OBVIOUS

\* Sequences with the same elements are the same.
LEMMA SameSeq ==
    ASSUME NEW S, NEW s \in Seq(S), NEW t \in Seq(S), Len(s) = Len(t),
           \A i \in 1 .. Len(s) : s[i] = t[i]
    PROVE  s = t
OBVIOUS

\* A sequence as a function.
LEMMA LenIs ==
    ASSUME NEW S, NEW n \in Nat, NEW s \in [1 .. n -> S]
    PROVE  s \in Seq(S) /\ Len(s) = n
OBVIOUS

\* Reading moves bytes from the wire to the buffer and changes nothing else.
LEMMA SplitIs ==
    ASSUME NEW S, NEW s \in Seq(S), NEW t \in Seq(S), NEW n \in 0 .. Len(t)
    PROVE  (s \o SubSeq(t, 1, n)) \o SubSeq(t, n + 1, Len(t)) = s \o t
<1> DEFINE front == SubSeq(t, 1, n)
           back == SubSeq(t, n + 1, Len(t))
<1>1. front \in Seq(S) /\ Len(front) = n /\ \A i \in 1 .. n : front[i] = t[i]
  BY SubSeqIs
<1>2. back \in Seq(S) /\ Len(back) = Len(t) - n /\ \A i \in 1 .. Len(t) - n : back[i] = t[n + i]
  BY SubSeqIs
<1> HIDE DEF front, back
<1>3. front \o back = t
  <2> DEFINE both == front \o back
  <2>1. both \in Seq(S) /\ Len(both) = Len(t)
    BY <1>1, <1>2, ConcatIs
  <2>2. ASSUME NEW i \in 1 .. Len(t) PROVE both[i] = t[i]
    <3>1. CASE i <= n
      BY <3>1, <1>1, <1>2, ConcatIs
    <3>2. CASE i > n
      <4>1. i - n \in 1 .. Len(back) /\ n + (i - n) = i
        BY <3>2, <1>2
      <4>2. both[n + (i - n)] = back[i - n]
        BY <4>1, <1>1, <1>2, ConcatIs
      <4> QED BY <4>1, <4>2, <1>2
    <3> HIDE DEF both
    <3>3. i \in Nat /\ n \in Nat
      OBVIOUS
    <3> QED BY <3>1, <3>2, <3>3
  <2> HIDE DEF both
  <2>3. both = t
    BY <2>1, <2>2, SameSeq
  <2> QED BY <2>3 DEF both
<1>4. (s \o front) \o back = s \o (front \o back)
  BY <1>1, <1>2, ConcatAssociative, SMTT(30)
<1> QED BY <1>3, <1>4 DEF front, back

-----------------------------------------------------------------------------
(* What happens to a body, byte by byte.                                    *)

\* Places in a sorted sequence: the place tells the position.
LEMMA SortedIs ==
    ASSUME NEW q \in Seq(Bytes), Sorted(q),
           NEW i \in 1 .. Len(q), NEW j \in 1 .. Len(q)
    PROVE  /\ q[i].frame < q[j].frame => i < j
           /\ q[i].frame = q[j].frame /\ q[i].at < q[j].at => i < j
           /\ q[i].frame = q[j].frame /\ q[i].at = q[j].at => i = j
           /\ i < j => q[i].frame <= q[j].frame
<1>1. \A x \in Bytes : x.frame \in Nat /\ x.at \in Nat
  BY DEF Bytes
<1>2. q[i].frame \in Nat /\ q[i].at \in Nat /\ q[j].frame \in Nat /\ q[j].at \in Nat
  BY <1>1
<1>3. (i < j => Before(q[i], q[j])) /\ (j < i => Before(q[j], q[i]))
  BY DEF Sorted
<1> QED BY <1>2, <1>3 DEF Before

\* The length of a frame that was written.
LEMMA SizeIs ==
    ASSUME NEW s \in Seq(Frames), NEW k \in 1 .. Len(s)
    PROVE  s[k] \in Frames /\ s[k].size \in Nat /\ s[k].size >= Overhead /\ s[k].size > 2
<1>1. s[k] \in Frames
  OBVIOUS
<1> QED BY <1>1, DecoderAssumption DEF FrameRecord, Overhead

\* r is q with n bytes of frame k behind it.
Adds(q, r, k, n) ==
    /\ Len(r) = Len(q) + n
    /\ \A i \in 1 .. Len(q) : r[i] = q[i]
    /\ \A i \in 1 .. Len(r) : i > Len(q) =>
          r[i].frame = k /\ r[i].at = i - Len(q) /\ r[i].sound

\* A frame is written behind a body: its bytes, all of them.
LEMMA Appended ==
    ASSUME NEW q \in Seq(Bytes), NEW r \in Seq(Bytes), NEW s \in Seq(Frames),
           NEW d \in Nat, NEW w \in 0 .. Len(s), NEW f \in Frames, NEW k, k = Len(s) + 1,
           Places(q, s, d), Sorted(q), d <= w, Adds(q, r, k, f.size)
    PROVE  /\ Places(r, Append(s, f), d) /\ Sorted(r)
           /\ Intact(q, s, d, w) => Intact(r, Append(s, f), d, w)
           /\ Intact(q, s, d, w) /\ w = Len(s) => Intact(r, Append(s, f), d, k)
           /\ Present(r, k) /\ \A j : Present(q, j) => Present(r, j)
           /\ \A j \in 1 .. Len(s) : Lacks(q, s, j) => Lacks(r, Append(s, f), j)
           /\ Gapless(q, s) /\ EndsFrame(q, s) => Gapless(r, Append(s, f))
           /\ EndsFrame(r, Append(s, f))
<1> DEFINE z == Append(s, f)
<1>1. /\ Len(s) \in Nat /\ Len(q) \in Nat /\ Len(r) \in Nat /\ f.size \in Nat /\ f.size > 2
      /\ Len(r) = Len(q) + f.size
  <2>1. f.size \in Nat /\ f.size > 2
    BY DecoderAssumption DEF FrameRecord, Overhead
  <2> QED BY <2>1 DEF Adds
<1>2. Len(z) = k /\ z[k] = f /\ \A j \in 1 .. Len(s) : z[j] = s[j]
  OBVIOUS
<1> HIDE DEF z
<1>3. ASSUME NEW i \in 1 .. Len(q)
      PROVE  /\ i \in 1 .. Len(r) /\ r[i] = q[i] /\ q[i].frame < k
             /\ q[i].frame \in d + 1 .. Len(s) /\ q[i].frame \in 1 .. Len(s)
             /\ q[i].at \in 1 .. s[q[i].frame].size /\ z[q[i].frame] = s[q[i].frame]
  <2>1. q[i].frame \in d + 1 .. Len(s) /\ q[i].at \in 1 .. s[q[i].frame].size
    BY DEF Places
  <2>2. q[i].frame \in 1 .. Len(s) /\ q[i].frame < k
    <3> DEFINE m == q[i].frame
    <3>1. m \in d + 1 .. Len(s)
      BY <2>1
    <3> HIDE DEF m
    <3>2. m \in 1 .. Len(s) /\ m < k
      BY <3>1, <1>1
    <3> QED BY <3>2 DEF m
  <2>3. i \in 1 .. Len(r) /\ r[i] = q[i]
    BY <1>1 DEF Adds
  <2> QED BY <1>2, <2>1, <2>2, <2>3
<1>4. ASSUME NEW i \in 1 .. Len(r), i > Len(q)
      PROVE  /\ r[i].frame = k /\ r[i].at = i - Len(q) /\ r[i].sound
             /\ i - Len(q) \in 1 .. f.size
  BY <1>1, <1>4 DEF Adds
<1>5. \A i \in 1 .. Len(r) : i \in 1 .. Len(q) \/ i > Len(q)
  BY <1>1
<1>6. Places(r, z, d)
  <2>1. ASSUME NEW i \in 1 .. Len(r)
        PROVE  r[i].frame \in d + 1 .. Len(z) /\ r[i].at \in 1 .. z[r[i].frame].size
    <3>1. CASE i \in 1 .. Len(q)
      <4>1. d + 1 .. Len(s) \subseteq d + 1 .. Len(z)
        BY <1>1, <1>2
      <4> QED BY <4>1, <3>1, <1>3
    <3>2. CASE i > Len(q)
      <4>1. k \in d + 1 .. Len(z) /\ z[k] = f
        BY <1>1, <1>2
      <4> QED BY <4>1, <3>2, <1>4
    <3> QED BY <3>1, <3>2, <1>5
  <2> QED BY <2>1 DEF Places
<1>7. Sorted(r)
  <2>1. ASSUME NEW i \in 1 .. Len(r), NEW j \in 1 .. Len(r), i < j
        PROVE  Before(r[i], r[j])
    <3>1. CASE i \in 1 .. Len(q) /\ j \in 1 .. Len(q)
      BY <3>1, <2>1, <1>3 DEF Sorted
    <3>2. CASE i \in 1 .. Len(q) /\ j > Len(q)
      BY <3>2, <1>3, <1>4 DEF Before
    <3>3. CASE i > Len(q)
      <4>1. j > Len(q) /\ i - Len(q) < j - Len(q)
        BY <3>3, <2>1, <1>1
      <4> QED BY <4>1, <3>3, <1>4 DEF Before
    <3> QED BY <3>1, <3>2, <3>3, <1>5
  <2> QED BY <2>1 DEF Sorted
<1>8. ASSUME NEW j \in 1 .. Len(s), NEW o \in 0 .. Len(q), Stands(q, j, s[j].size, o)
      PROVE  o \in 0 .. Len(r) /\ Stands(r, j, z[j].size, o)
  <2> DEFINE n == s[j].size
  <2>1. n \in Nat /\ z[j].size = n /\ Stands(q, j, n, o)
    BY <1>2, <1>8, SizeIs
  <2> HIDE DEF n
  <2>2. o + n <= Len(q) /\ o + n <= Len(r) /\ o \in 0 .. Len(r)
    BY <2>1, <1>1, SMTT(30) DEF Stands
  <2>3. ASSUME NEW i \in 1 .. Len(r), i <= o + n
        PROVE  i \in 1 .. Len(q) /\ r[i] = q[i]
    <3>1. i \in 1 .. Len(q)
      BY <2>1, <2>2, <2>3, <1>1
    <3> QED BY <3>1, <1>3
  <2> QED BY <2>1, <2>2, <2>3 DEF Stands
<1>9. Len(q) \in 0 .. Len(r) /\ Stands(r, k, z[k].size, Len(q))
  BY <1>1, <1>2, <1>4 DEF Stands
<1>10. Intact(q, s, d, w) => Intact(r, z, d, w)
  <2>1. d + 1 .. w \subseteq 1 .. Len(s)
    BY <1>1
  <2> QED BY <2>1, <1>8 DEF Intact
<1>11. Intact(q, s, d, w) /\ w = Len(s) => Intact(r, z, d, k)
  <2>1. w = Len(s) => \A j \in d + 1 .. k : j \in d + 1 .. w \/ j = k
    BY <1>1
  <2> QED BY <2>1, <1>9, <1>10 DEF Intact
<1>12. Present(r, k) /\ \A j : Present(q, j) => Present(r, j)
  <2>1. Len(r) \in 1 .. Len(r) /\ Len(r) > Len(q)
    BY <1>1
  <2> QED BY <2>1, <1>3, <1>4 DEF Present
<1>13. ASSUME Gapless(q, s), EndsFrame(q, s) PROVE Gapless(r, z)
  <2>1. ASSUME NEW i \in 1 .. Len(r) PROVE r[i].sound
    BY <1>13, <1>3, <1>4, <1>5 DEF Gapless
  <2>2. r[1].at = 1
    <3>1. CASE Len(q) = 0
      <4>1. 1 \in 1 .. Len(r) /\ 1 > Len(q) /\ 1 - Len(q) = 1
        BY <3>1, <1>1
      <4> QED BY <4>1, <1>4
    <3>2. CASE Len(q) > 0
      <4>1. 1 \in 1 .. Len(q)
        BY <3>2, <1>1
      <4> QED BY <4>1, <3>2, <1>3, <1>13 DEF Gapless
    <3> QED BY <3>1, <3>2, <1>1
  <2>3. ASSUME NEW i \in 1 .. Len(r), NEW j \in 1 .. Len(r), j = i + 1
        PROVE  r[j].frame = r[i].frame \/ (r[i].at = z[r[i].frame].size /\ r[j].at = 1)
    <3>1. CASE i \in 1 .. Len(q) /\ j \in 1 .. Len(q)
      <4>1. q[j].frame = q[i].frame \/ (q[i].at = s[q[i].frame].size /\ q[j].at = 1)
        BY <3>1, <2>3, <1>13 DEF Gapless
      <4> QED BY <4>1, <3>1, <1>3
    <3>2. CASE i \in 1 .. Len(q) /\ j > Len(q)
      <4>1. i = Len(q) /\ j - Len(q) = 1 /\ Len(q) > 0
        <5>1. i <= Len(q) /\ i + 1 > Len(q) /\ i \in Nat
          BY <3>2, <2>3
        <5> QED BY <5>1, <2>3, <1>1
      <4>2. q[i].at = s[q[i].frame].size
        BY <4>1, <1>13 DEF EndsFrame
      <4> QED BY <4>1, <4>2, <3>2, <1>3, <1>4
    <3>3. CASE i > Len(q)
      <4>1. j > Len(q)
        BY <3>3, <2>3, <1>1
      <4> QED BY <4>1, <3>3, <1>4
    <3> QED BY <3>1, <3>2, <3>3, <1>5
  <2> QED BY <2>1, <2>2, <2>3 DEF Gapless
<1>14. ASSUME NEW j \in 1 .. Len(s), Lacks(q, s, j) PROVE Lacks(r, z, j)
  <2>1. PICK b \in 1 .. s[j].size : \A i \in 1 .. Len(q) :
           ~(q[i].frame = j /\ q[i].at = b /\ q[i].sound)
    BY <1>14 DEF Lacks
  <2>2. ASSUME NEW i \in 1 .. Len(r) PROVE ~(r[i].frame = j /\ r[i].at = b /\ r[i].sound)
    <3>1. CASE i \in 1 .. Len(q)
      BY <3>1, <2>1, <1>3
    <3>2. CASE i > Len(q)
      <4>1. k # j
        BY <1>1
      <4> QED BY <4>1, <3>2, <1>4
    <3> QED BY <3>1, <3>2, <1>5
  <2> QED BY <2>1, <2>2, <1>2 DEF Lacks
<1>15. EndsFrame(r, z)
  <2>1. Len(r) \in 1 .. Len(r) /\ Len(r) > Len(q) /\ Len(r) - Len(q) = f.size
    BY <1>1
  <2> QED BY <2>1, <1>2, <1>4 DEF EndsFrame
<1> QED BY <1>6, <1>7, <1>10, <1>11, <1>12, <1>13, <1>14, <1>15 DEF z

\* r has, in their order, some of the bytes of q; m tells which.
Selects(q, r, m) ==
    /\ m \in [1 .. Len(r) -> 1 .. Len(q)]
    /\ \A i, j \in 1 .. Len(r) : i < j => m[i] < m[j]
    /\ \A i \in 1 .. Len(r) :
          /\ r[i].frame = q[m[i]].frame /\ r[i].at = q[m[i]].at
          /\ r[i].sound => q[m[i]].sound

\* What remains of a body is still ordered, and lacks what was lacking.
LEMMA Selected ==
    ASSUME NEW q \in Seq(Bytes), NEW r \in Seq(Bytes), NEW s \in Seq(Frames),
           NEW d \in Nat, NEW m, Selects(q, r, m)
    PROVE  /\ Places(q, s, d) => Places(r, s, d)
           /\ Sorted(q) => Sorted(r)
           /\ \A k \in 1 .. Len(s) : Lacks(q, s, k) => Lacks(r, s, k)
<1>1. ASSUME NEW i \in 1 .. Len(r)
      PROVE  /\ m[i] \in 1 .. Len(q)
             /\ r[i].frame = q[m[i]].frame /\ r[i].at = q[m[i]].at
             /\ r[i].sound => q[m[i]].sound
  BY DEF Selects
<1>2. Places(q, s, d) => Places(r, s, d)
  BY <1>1 DEF Places
<1>3. Sorted(q) => Sorted(r)
  <2>1. ASSUME Sorted(q), NEW i \in 1 .. Len(r), NEW j \in 1 .. Len(r), i < j
        PROVE  Before(r[i], r[j])
    <3>1. m[i] < m[j]
      BY <2>1 DEF Selects
    <3>2. Before(q[m[i]], q[m[j]])
      BY <3>1, <2>1, <1>1 DEF Sorted
    <3> QED BY <3>2, <1>1 DEF Before
  <2> QED BY <2>1 DEF Sorted
<1>4. ASSUME NEW k \in 1 .. Len(s), Lacks(q, s, k) PROVE Lacks(r, s, k)
  <2>1. PICK b \in 1 .. s[k].size : \A i \in 1 .. Len(q) :
           ~(q[i].frame = k /\ q[i].at = b /\ q[i].sound)
    BY <1>4 DEF Lacks
  <2>2. \A i \in 1 .. Len(r) : ~(r[i].frame = k /\ r[i].at = b /\ r[i].sound)
    BY <2>1, <1>1
  <2> QED BY <2>2 DEF Lacks
<1> QED BY <1>2, <1>3, <1>4

\* r is the beginning of q.
Begins(q, r) ==
    Len(r) <= Len(q) /\ \A i \in 1 .. Len(r) : r[i] = q[i]

\* A body ends behind a byte of the k-th frame. The v leading frames before it,
\* or with it if that was its last byte, are whole.
Shortens(q, r, s, z, d, w, v, k) ==
    /\ q \in Seq(Bytes) /\ r \in Seq(Bytes) /\ s \in Seq(Frames) /\ z \in Seq(Frames)
    /\ d \in Nat /\ w \in 0 .. Len(s) /\ v \in Nat /\ k \in 1 .. Len(s)
    /\ Places(q, s, d) /\ Sorted(q) /\ Begins(q, r)
    /\ Len(r) > 0 /\ r[Len(r)].frame = k
    /\ Len(z) = k /\ \A j \in 1 .. k : z[j] = s[j]
    /\ v = IF r[Len(r)].at = s[k].size THEN IF w < k + 1 THEN w ELSE k
                                       ELSE IF w < k THEN w ELSE k - 1

\* The frames before the end stay whole, and what is not, is not.
LEMMA Shortened ==
    ASSUME NEW q, NEW r, NEW s, NEW z, NEW d, NEW w, NEW v, NEW k,
           Shortens(q, r, s, z, d, w, v, k)
    PROVE  /\ Places(r, z, d) /\ Sorted(r)
           /\ Intact(q, s, d, w) => Intact(r, z, d, v)
           /\ Spoiler(q, s, w) => Spoiler(r, z, v)
           /\ Gapless(q, s) => Gapless(r, z)
<1> SUFFICES ASSUME q \in Seq(Bytes), r \in Seq(Bytes), s \in Seq(Frames), z \in Seq(Frames),
                    d \in Nat, w \in 0 .. Len(s), v \in Nat, k \in 1 .. Len(s),
                    Places(q, s, d), Sorted(q), Begins(q, r),
                    Len(r) > 0, r[Len(r)].frame = k,
                    Len(z) = k, \A j \in 1 .. k : z[j] = s[j],
                    v = IF r[Len(r)].at = s[k].size THEN IF w < k + 1 THEN w ELSE k
                                                    ELSE IF w < k THEN w ELSE k - 1
             PROVE  /\ Places(r, z, d) /\ Sorted(r)
                    /\ Intact(q, s, d, w) => Intact(r, z, d, v)
                    /\ Spoiler(q, s, w) => Spoiler(r, z, v)
                    /\ Gapless(q, s) => Gapless(r, z)
  BY DEF Shortens
<1> DEFINE n == Len(r)
<1>1. /\ Len(q) \in Nat /\ n \in Nat /\ n \in 1 .. n /\ n \in 1 .. Len(q)
      /\ n <= Len(q) /\ q[n] = r[n]
  BY DEF Begins
<1>2. ASSUME NEW i \in 1 .. n PROVE i \in 1 .. Len(q) /\ r[i] = q[i]
  BY <1>1 DEF Begins
<1>3. Selects(q, r, [i \in 1 .. n |-> i])
  BY <1>2 DEF Selects
<1>4. Sorted(r) /\ Places(r, s, d) /\ \A j \in 1 .. Len(s) : Lacks(q, s, j) => Lacks(r, s, j)
  BY <1>3, Selected
<1> HIDE DEF n
<1>5. k \in Nat /\ v \in Nat /\ v <= k /\ v <= w /\ w \in Nat /\ k <= Len(s) /\ Len(s) \in Nat
  OBVIOUS
<1>6. ASSUME NEW i \in 1 .. n
      PROVE  /\ r[i].frame \in d + 1 .. k /\ r[i].frame \in 1 .. k
             /\ z[r[i].frame] = s[r[i].frame] /\ r[i].at \in 1 .. s[r[i].frame].size
  <2>1. i <= n /\ i \in 1 .. Len(q) /\ q[i].frame = r[i].frame /\ q[n].frame = k
    BY <1>1, <1>2 DEF n
  <2>2. q[i].frame \in d + 1 .. Len(s) /\ q[i].at \in 1 .. s[q[i].frame].size
    BY <2>1 DEF Places
  <2>3. q[i].frame <= k
    <3>1. CASE i = n
      BY <3>1, <2>1, <1>5
    <3>2. CASE i < n
      BY <3>2, <2>1, <1>1, SortedIs
    <3> QED BY <3>1, <3>2, <2>1, <1>1
  <2>4. q[i].frame \in d + 1 .. k /\ q[i].frame \in 1 .. k
    BY <2>2, <2>3, <1>5
  <2> QED BY <2>1, <2>2, <2>4, <1>2
<1>7. Places(r, z, d)
  BY <1>6 DEF Places, n
<1>8. ASSUME NEW j \in d + 1 .. v, NEW o \in 0 .. Len(q), Stands(q, j, s[j].size, o)
      PROVE  o \in 0 .. n /\ Stands(r, j, z[j].size, o)
  <2> DEFINE l == s[j].size
             e == o + l
  <2>1. j \in 1 .. k /\ j \in 1 .. Len(s)
    BY <1>5
  <2>2. l \in Nat /\ l > 2 /\ z[j].size = l /\ Stands(q, j, l, o)
    BY <2>1, <1>8, SizeIs
  <2>3. q[n].frame = k /\ (j = k => q[n].at = l)
    <3>1. j = k => v = k
      BY <1>5
    <3>2. v = k => r[n].at = s[k].size
      BY <1>5 DEF n
    <3> QED BY <3>1, <3>2, <1>1 DEF n
  <2> HIDE DEF l
  <2>4. e \in 1 .. Len(q) /\ q[e].frame = j /\ q[e].at = l
    <3>1. e \in 1 .. Len(q) /\ o < e /\ e <= o + l /\ e - o = l
      BY <2>2, <1>1 DEF Stands
    <3> QED BY <3>1, <2>2 DEF Stands
  <2>5. e \in Nat
    BY <2>2
  <2> HIDE DEF e
  <2>6. e <= n
    <3>1. CASE j < k
      <4>1. e < n
        BY <3>1, <2>3, <2>4, <1>1, SortedIs
      <4> QED BY <4>1, <2>5, <1>1
    <3>2. CASE j = k
      <4>1. e = n
        BY <3>2, <2>3, <2>4, <1>1, SortedIs
      <4> QED BY <4>1, <1>1
    <3> QED BY <3>1, <3>2, <2>1, <1>5
  <2>7. o \in 0 .. n /\ o + l <= n
    BY <2>2, <2>6, <1>1 DEF e
  <2> QED BY <2>2, <2>7, <1>2 DEF Stands, n
<1>9. Intact(q, s, d, w) => Intact(r, z, d, v)
  <2>1. d + 1 .. v \subseteq d + 1 .. w
    BY <1>5
  <2> QED BY <2>1, <1>8 DEF Intact, n
<1>10. ASSUME Spoiler(q, s, w), v < k
       PROVE  Present(r, v + 1) /\ (Sound(z[v + 1]) => Lacks(r, z, v + 1))
  <2>1. v + 1 \in 1 .. k /\ v + 1 \in 1 .. Len(s) /\ z[v + 1] = s[v + 1]
    BY <1>5, <1>10, SMTT(30)
  <2>2. Lacks(r, s, v + 1) => Lacks(r, z, v + 1)
    BY <2>1 DEF Lacks
  <2>3. CASE w < k
    <3>1. v = w /\ w < Len(s) /\ w + 1 <= k
      BY <2>3, <1>5
    <3>2. PICK i \in 1 .. Len(q) : q[i].frame = w + 1
      BY <3>1, <1>10 DEF Spoiler, Present
    <3>3. ASSUME w + 1 = k PROVE Present(r, w + 1)
      BY <3>1, <3>3, <1>1 DEF n, Present
    <3>4. ASSUME w + 1 < k PROVE Present(r, w + 1)
      <4>1. i < n
        BY <3>2, <3>4, <1>1, SortedIs DEF n
      <4>2. i \in 1 .. n
        BY <4>1, <1>1
      <4> QED BY <3>1, <3>2, <4>2, <1>2 DEF n, Present
    <3>5. Present(r, w + 1)
      BY <3>1, <3>3, <3>4, <1>5
    <3>6. Sound(s[w + 1]) => Lacks(r, s, w + 1)
      BY <3>1, <2>1, <1>4, <1>10 DEF Spoiler
    <3> QED BY <3>1, <3>5, <3>6, <2>1, <2>2
  <2>4. CASE w >= k
    <3>1. v + 1 = k /\ r[n].at # s[k].size
      BY <2>4, <1>5, <1>10 DEF n
    <3>2. Present(r, k)
      BY <1>1 DEF Present, n
    <3>3. s[k].size \in 1 .. s[k].size /\ s[k].size \in Nat
      BY SizeIs
    <3>4. q[n].frame = k /\ q[n].at < s[k].size
      <4>1. q[n].frame = k /\ q[n].at # s[k].size
        BY <3>1, <1>1 DEF n
      <4>2. q[n].at \in 1 .. s[k].size
        BY <4>1, <1>1 DEF Places
      <4> QED BY <4>1, <4>2, <3>3
    <3>5. ASSUME NEW i \in 1 .. Len(r), r[i].frame = k, r[i].at = s[k].size
          PROVE  FALSE
      <4>1. i \in 1 .. Len(q) /\ q[i] = r[i] /\ i <= n
        BY <1>2 DEF n
      <4>2. n < i
        BY <4>1, <3>4, <3>5, <1>1, SortedIs
      <4> QED BY <4>1, <4>2, <1>1
    <3>6. Lacks(r, s, k)
      BY <3>3, <3>5 DEF Lacks
    <3> QED BY <3>1, <3>2, <3>6, <2>2
  <2> QED BY <2>3, <2>4, <1>5
<1>11. ASSUME Gapless(q, s) PROVE Gapless(r, z)
  <2>1. \A i \in 1 .. Len(r) : r[i].sound
    BY <1>2, <1>11 DEF Gapless, n
  <2>2. r[1].at = 1
    <3>1. 1 \in 1 .. n /\ Len(q) > 0
      BY <1>1
    <3> QED BY <3>1, <1>2, <1>11 DEF Gapless
  <2>3. ASSUME NEW i \in 1 .. n, NEW j \in 1 .. n, j = i + 1
        PROVE  r[j].frame = r[i].frame \/ (r[i].at = z[r[i].frame].size /\ r[j].at = 1)
    <3>1. q[j].frame = q[i].frame \/ (q[i].at = s[q[i].frame].size /\ q[j].at = 1)
      BY <2>3, <1>2, <1>11 DEF Gapless
    <3> QED BY <3>1, <1>2, <1>6
  <2> QED BY <2>1, <2>2, <2>3 DEF Gapless, n
<1>12. Spoiler(q, s, w) => Spoiler(r, z, v)
  BY <1>10 DEF Spoiler
<1> QED BY <1>4, <1>7, <1>9, <1>11, <1>12

\* r is q with the byte at p damaged or, if others follow it, lost.
Damages(q, r, m, p) ==
    /\ Selects(q, r, m)
    /\ \A j \in 1 .. Len(q) : j < p => j \in 1 .. Len(r) /\ r[j] = q[j]
    /\ \A j \in 1 .. Len(q) : j # p => \E i \in 1 .. Len(r) : m[i] = j
    /\ \A i \in 1 .. Len(r) : m[i] = p => ~r[i].sound
    /\ p < Len(q) \/ \E i \in 1 .. Len(r) : m[i] = p

\* A byte of the k-th frame is damaged. The v leading frames before it are whole.
Spoils(q, r, m, s, d, w, v, k, p) ==
    /\ q \in Seq(Bytes) /\ r \in Seq(Bytes) /\ s \in Seq(Frames)
    /\ d \in Nat /\ w \in 0 .. Len(s) /\ p \in 1 .. Len(q) /\ q[p].frame = k
    /\ Places(q, s, d) /\ Sorted(q) /\ Damages(q, r, m, p)
    /\ v = IF w < k THEN w ELSE k - 1

\* The frames before the damage stay whole, and what is damaged is not.
LEMMA Damaged ==
    ASSUME NEW q, NEW r, NEW m, NEW s, NEW d, NEW w, NEW v, NEW k, NEW p,
           Spoils(q, r, m, s, d, w, v, k, p)
    PROVE  /\ Places(r, s, d) /\ Sorted(r)
           /\ Intact(q, s, d, w) => Intact(r, s, d, v)
           /\ Intact(q, s, d, w) /\ Spoiler(q, s, w) /\ Gapless(q, s) => Spoiler(r, s, v)
<1> SUFFICES ASSUME q \in Seq(Bytes), r \in Seq(Bytes), s \in Seq(Frames),
                    d \in Nat, w \in 0 .. Len(s), p \in 1 .. Len(q), q[p].frame = k,
                    Places(q, s, d), Sorted(q), Damages(q, r, m, p),
                    v = IF w < k THEN w ELSE k - 1
             PROVE  /\ Places(r, s, d) /\ Sorted(r)
                    /\ Intact(q, s, d, w) => Intact(r, s, d, v)
                    /\ Intact(q, s, d, w) /\ Spoiler(q, s, w) /\ Gapless(q, s)
                          => Spoiler(r, s, v)
  BY DEF Spoils
<1>1. Len(q) \in Nat /\ Len(r) \in Nat /\ Len(s) \in Nat /\ w \in Nat /\ p \in Nat
  OBVIOUS
<1>2. k \in d + 1 .. Len(s) /\ q[p].at \in 1 .. s[k].size
  BY DEF Places
<1>3. k \in 1 .. Len(s) /\ k \in Nat /\ s[k].size \in Nat /\ s[k].size > 2
  BY <1>2, SizeIs
<1>4. v \in Nat /\ v < k /\ v <= w
  BY <1>1, <1>3
<1>5. ASSUME NEW i \in 1 .. Len(r)
      PROVE  /\ m[i] \in 1 .. Len(q)
             /\ r[i].frame = q[m[i]].frame /\ r[i].at = q[m[i]].at
             /\ r[i].sound => q[m[i]].sound /\ m[i] # p
  BY DEF Damages, Selects
<1>6. Places(r, s, d) /\ Sorted(r) /\ \A j \in 1 .. Len(s) : Lacks(q, s, j) => Lacks(r, s, j)
  BY Selected DEF Damages
<1>7. ASSUME NEW j \in 1 .. Len(q), j # p PROVE Present(r, q[j].frame)
  <2>1. PICK i \in 1 .. Len(r) : m[i] = j
    BY <1>7 DEF Damages
  <2> QED BY <2>1, <1>5 DEF Present
<1>8. ASSUME NEW j \in d + 1 .. v, NEW o \in 0 .. Len(q), Stands(q, j, s[j].size, o)
      PROVE  o \in 0 .. Len(r) /\ Stands(r, j, s[j].size, o)
  <2> DEFINE l == s[j].size
             e == o + l
  <2>1. j \in 1 .. Len(s) /\ j < k
    BY <1>2, <1>4, <1>1
  <2>2. l \in Nat /\ l > 2 /\ Stands(q, j, l, o)
    BY <2>1, <1>8, SizeIs
  <2> HIDE DEF l
  <2>3. e \in 1 .. Len(q) /\ q[e].frame = j
    <3>1. e \in 1 .. Len(q) /\ o < e /\ e <= o + l
      BY <2>2, <1>1 DEF Stands
    <3> QED BY <3>1, <2>2 DEF Stands
  <2>4. e \in Nat /\ o <= e
    BY <2>2
  <2> HIDE DEF e
  <2>5. e < p
    BY <2>1, <2>3, SortedIs
  <2>6. ASSUME NEW i \in Nat, 0 < i, i <= e
        PROVE  i \in 1 .. Len(q) /\ i \in 1 .. Len(r) /\ r[i] = q[i]
    <3>1. i \in 1 .. Len(q) /\ i < p
      BY <2>3, <2>5, <2>6, <1>1
    <3> QED BY <3>1 DEF Damages
  <2>7. o \in 0 .. Len(r) /\ o + l <= Len(r)
    <3>1. e \in 1 .. Len(r)
      BY <2>3, <2>4, <2>6
    <3> QED BY <3>1, <2>4, <1>1 DEF e
  <2>8. \A i \in 1 .. Len(r) : i <= o + l => i \in 1 .. Len(q) /\ r[i] = q[i]
    BY <2>6, <1>1, SMTT(30) DEF e
  <2>9. Stands(r, j, l, o)
    BY <2>2, <2>7, <2>8 DEF Stands
  <2> QED BY <2>7, <2>9 DEF l
<1>9. Intact(q, s, d, w) => Intact(r, s, d, v)
  <2>1. d + 1 .. v \subseteq d + 1 .. w
    BY <1>1, <1>4
  <2> QED BY <2>1, <1>8 DEF Intact
<1>10. ASSUME Intact(q, s, d, w), k <= w
       PROVE  Present(r, k) /\ Lacks(r, s, k)
  <2> DEFINE l == s[k].size
  <2>1. k \in d + 1 .. w
    BY <1>2, <1>1, <1>10
  <2>2. PICK o \in 0 .. Len(q) : Stands(q, k, l, o)
    BY <2>1, <1>10 DEF Intact
  <2>3. l \in Nat /\ l > 2
    BY <1>3
  <2> HIDE DEF l
  <2>4. o + 1 \in 1 .. Len(q) /\ o + 2 \in 1 .. Len(q) /\ o + 1 # o + 2
    BY <2>2, <2>3, <1>1 DEF Stands
  <2>5. o < o + 1 /\ o + 1 <= o + l /\ o < o + 2 /\ o + 2 <= o + l
    BY <2>3
  <2>6. q[o + 1].frame = k /\ q[o + 2].frame = k
    BY <2>2, <2>4, <2>5 DEF Stands
  <2>7. Present(r, k)
    <3>1. CASE o + 1 # p
      BY <3>1, <2>4, <2>6, <1>7
    <3>2. CASE o + 2 # p
      BY <3>2, <2>4, <2>6, <1>7
    <3> QED BY <3>1, <3>2, <2>4
  <2>8. ASSUME NEW i \in 1 .. Len(r), r[i].frame = k, r[i].at = q[p].at, r[i].sound
        PROVE  FALSE
    <3>1. /\ m[i] \in 1 .. Len(q) /\ m[i] # p
          /\ q[m[i]].frame = q[p].frame /\ q[m[i]].at = q[p].at
      BY <2>8, <1>5
    <3>2. m[i] = p
      BY <3>1, SortedIs
    <3> QED BY <3>1, <3>2
  <2> QED BY <2>7, <2>8, <1>2 DEF Lacks
<1>11. ASSUME Spoiler(q, s, w), Gapless(q, s), w < k
       PROVE  Present(r, w + 1) /\ (Sound(s[w + 1]) => Lacks(r, s, w + 1))
  <2>1. w < Len(s) /\ w + 1 \in 1 .. Len(s)
    BY <1>1, <1>3, <1>11
  <2>2. PICK j \in 1 .. Len(q) : q[j].frame = w + 1
    BY <2>1, <1>11 DEF Spoiler, Present
  <2>3. Sound(s[w + 1]) => Lacks(r, s, w + 1)
    BY <2>1, <1>6, <1>11 DEF Spoiler
  <2>4. ASSUME NEW i \in 1 .. Len(q), i # p, q[i].frame = k, j = p
        PROVE  Present(r, w + 1)
    BY <2>2, <2>4, <1>7
  <2>5. ASSUME j = p PROVE Present(r, w + 1)
    <3>1. CASE \E i \in 1 .. Len(r) : m[i] = p
      BY <3>1, <2>2, <2>5, <1>5 DEF Present
    <3>2. CASE p < Len(q)
      <4>1. p + 1 \in 1 .. Len(q) /\ p + 1 # p /\ Len(q) > 0
        BY <3>2, <1>1
      <4>2. CASE q[p + 1].frame = k
        BY <4>1, <4>2, <2>4, <2>5
      <4>3. CASE q[p + 1].frame # k
        <5>1. q[p].at = s[k].size
          BY <4>1, <4>3, <1>11 DEF Gapless
        <5>2. q[p].at # 1 /\ p # 1
          BY <5>1, <4>1, <1>3, <1>11 DEF Gapless
        <5>3. p - 1 \in 1 .. Len(q) /\ p - 1 # p /\ p = (p - 1) + 1
          BY <5>2, <1>1
        <5>4. q[p].frame = q[p - 1].frame
          BY <5>2, <5>3, <1>11 DEF Gapless
        <5> QED BY <5>3, <5>4, <2>4, <2>5
      <4> QED BY <4>2, <4>3
    <3> QED BY <3>1, <3>2 DEF Damages
  <2> QED BY <2>2, <2>3, <2>5, <1>7
<1>12. Intact(q, s, d, w) /\ Spoiler(q, s, w) /\ Gapless(q, s) => Spoiler(r, s, v)
  <2>1. CASE k <= w
    <3>1. v + 1 = k
      BY <2>1, <1>1, <1>3
    <3> QED BY <3>1, <2>1, <1>10 DEF Spoiler
  <2>2. CASE w < k
    BY <2>2, <1>11 DEF Spoiler
  <2> QED BY <2>1, <2>2, <1>1, <1>3
<1> QED BY <1>6, <1>9, <1>12

\* r is q without its first e bytes.
Follows(q, r, e) ==
    /\ Len(r) = Len(q) - e
    /\ \A i \in 1 .. Len(r), j \in 1 .. Len(q) : j = i + e => r[i] = q[j]

\* The first frame, the k-th, leaves a body: all its bytes.
Decodes(q, r, s, d, w, k) ==
    /\ q \in Seq(Bytes) /\ r \in Seq(Bytes) /\ s \in Seq(Frames)
    /\ d \in Nat /\ w \in 0 .. Len(s) /\ k \in d + 1 .. Len(s)
    /\ Places(q, s, d) /\ Sorted(q) /\ Stands(q, k, s[k].size, 0) /\ Follows(q, r, s[k].size)

\* What is left begins behind that frame, and is as whole as it was.
LEMMA Decoded ==
    ASSUME NEW q, NEW r, NEW s, NEW d, NEW w, NEW k, Decodes(q, r, s, d, w, k)
    PROVE  /\ Places(r, s, d) /\ Places(r, s, k) /\ Sorted(r)
           /\ Intact(q, s, d, w) => Intact(r, s, k, w)
           /\ k <= w /\ Spoiler(q, s, w) => Spoiler(r, s, w)
           /\ Gapless(q, s) => Gapless(r, s)
           /\ EndsFrame(q, s) => EndsFrame(r, s)
<1> SUFFICES ASSUME q \in Seq(Bytes), r \in Seq(Bytes), s \in Seq(Frames),
                    d \in Nat, w \in 0 .. Len(s), k \in d + 1 .. Len(s),
                    Places(q, s, d), Sorted(q), Stands(q, k, s[k].size, 0),
                    Follows(q, r, s[k].size)
             PROVE  /\ Places(r, s, d) /\ Places(r, s, k) /\ Sorted(r)
                    /\ Intact(q, s, d, w) => Intact(r, s, k, w)
                    /\ k <= w /\ Spoiler(q, s, w) => Spoiler(r, s, w)
                    /\ Gapless(q, s) => Gapless(r, s)
                    /\ EndsFrame(q, s) => EndsFrame(r, s)
  BY DEF Decodes
<1> DEFINE e == s[k].size
<1>1. /\ Len(q) \in Nat /\ Len(r) \in Nat /\ Len(s) \in Nat /\ w \in Nat /\ k \in Nat
      /\ k \in 1 .. Len(s)
  OBVIOUS
<1>2. e \in Nat /\ e > 2 /\ Stands(q, k, e, 0) /\ Follows(q, r, e)
  BY <1>1, SizeIs
<1>3. \A i \in 1 .. Len(q) : q[i].frame \in Nat /\ q[i].at \in Nat
  <2>1. \A x \in Bytes : x.frame \in Nat /\ x.at \in Nat
    BY DEF Bytes
  <2> QED BY <2>1
<1> HIDE DEF e
<1>4. e \in 1 .. Len(q) /\ q[e].frame = k /\ q[e].at = e /\ Len(r) + e = Len(q)
  <2>1. e <= Len(q) /\ Len(r) = Len(q) - e
    BY <1>1, <1>2 DEF Stands, Follows
  <2>2. e \in 1 .. Len(q) /\ 0 < e /\ e <= 0 + e /\ e - 0 = e /\ Len(r) + e = Len(q)
    BY <2>1, <1>1, <1>2
  <2> QED BY <2>2, <1>2 DEF Stands
<1>5. ASSUME NEW i \in 1 .. Len(r) PROVE i + e \in 1 .. Len(q) /\ r[i] = q[i + e]
  <2>1. i + e \in 1 .. Len(q)
    BY <1>1, <1>2, <1>4
  <2> QED BY <2>1, <1>2 DEF Follows
<1>6. ASSUME NEW j \in 1 .. Len(q), j > e
      PROVE  j - e \in 1 .. Len(r) /\ r[j - e] = q[j] /\ q[j].frame > k
  <2>1. j - e \in 1 .. Len(r) /\ j = (j - e) + e
    BY <1>1, <1>2, <1>4, <1>6
  <2>2. r[j - e] = q[j]
    BY <2>1, <1>2 DEF Follows
  <2>3. k <= q[j].frame
    BY <1>4, <1>6, SortedIs
  <2>4. ASSUME q[j].frame = k PROVE FALSE
    <3>1. q[j].at \in 1 .. e
      BY <2>4 DEF Places, e
    <3>2. CASE q[j].at = e
      <4>1. j = e
        BY <3>2, <2>4, <1>4, SortedIs
      <4> QED BY <4>1, <1>6, <1>2
    <3>3. CASE q[j].at < e
      <4>1. j < e
        BY <3>3, <2>4, <1>4, SortedIs
      <4> QED BY <4>1, <1>6, <1>2
    <3> QED BY <3>1, <3>2, <3>3, <1>2
  <2> QED BY <2>1, <2>2, <2>3, <2>4, <1>1, <1>3
<1>7. ASSUME NEW j \in 1 .. Len(q), q[j].frame > k PROVE j > e
  BY <1>7, <1>3, <1>4, SortedIs
<1>8. Selects(q, r, [i \in 1 .. Len(r) |-> i + e])
  <2> DEFINE m == [i \in 1 .. Len(r) |-> i + e]
  <2>1. m \in [1 .. Len(r) -> 1 .. Len(q)]
    BY <1>5
  <2>2. \A i \in 1 .. Len(r) : m[i] = i + e /\ r[i] = q[m[i]]
    BY <1>5
  <2>3. \A i, j \in 1 .. Len(r) : i < j => i + e < j + e
    BY <1>2
  <2> HIDE DEF m
  <2>4. Selects(q, r, m)
    BY <2>1, <2>2, <2>3 DEF Selects
  <2> QED BY <2>4 DEF m
<1>9. Sorted(r) /\ Places(r, s, d) /\ \A j \in 1 .. Len(s) : Lacks(q, s, j) => Lacks(r, s, j)
  BY <1>8, Selected
<1>10. Places(r, s, k)
  <2>1. ASSUME NEW i \in 1 .. Len(r)
        PROVE  r[i].frame \in k + 1 .. Len(s) /\ r[i].at \in 1 .. s[r[i].frame].size
    <3>1. r[i].frame \in d + 1 .. Len(s) /\ r[i].at \in 1 .. s[r[i].frame].size
      BY <1>9 DEF Places
    <3>2. i + e \in 1 .. Len(q) /\ i + e > e /\ r[i] = q[i + e]
      BY <1>2, <1>5
    <3>3. r[i].frame > k
      BY <3>2, <1>6
    <3> QED BY <3>1, <3>3, <1>1
  <2> QED BY <2>1 DEF Places
<1>11. ASSUME Intact(q, s, d, w) PROVE Intact(r, s, k, w)
  <2>1. ASSUME NEW j \in k + 1 .. w
        PROVE  \E o \in 0 .. Len(r) : Stands(r, j, s[j].size, o)
    <3> DEFINE l == s[j].size
    <3>1. j \in d + 1 .. w /\ j \in 1 .. Len(s) /\ j > k
      BY <1>1
    <3>2. l \in Nat /\ l > 2
      BY <3>1, SizeIs
    <3>3. PICK o \in 0 .. Len(q) : Stands(q, j, l, o)
      BY <3>1, <1>11 DEF Intact
    <3> HIDE DEF l
    <3>4. o + 1 \in 1 .. Len(q) /\ o < o + 1 /\ o + 1 <= o + l /\ o + l <= Len(q)
      BY <3>2, <3>3, <1>1 DEF Stands
    <3>5. q[o + 1].frame = j
      BY <3>3, <3>4 DEF Stands
    <3>6. o + 1 > e
      BY <3>1, <3>4, <3>5, <1>7
    <3>7. PICK u \in Nat : o = u + e
      <4>1. o - e \in Nat /\ o = (o - e) + e
        BY <3>6, <1>2
      <4> QED BY <4>1
    <3>8. u \in 0 .. Len(r) /\ u + l <= Len(r)
      BY <3>2, <3>4, <3>7, <1>1, <1>2, <1>4
    <3>9. ASSUME NEW i \in 1 .. Len(r), u < i, i <= u + l
          PROVE  r[i].frame = j /\ r[i].at = i - u /\ r[i].sound
      <4>1. o < i + e /\ i + e <= o + l /\ (i + e) - o = i - u
        <5>1. i \in Nat /\ u \in Nat /\ e \in Nat /\ l \in Nat
          BY <3>2, <1>2
        <5> QED BY <5>1, <3>7, <3>9
      <4>2. i + e \in 1 .. Len(q) /\ r[i] = q[i + e]
        BY <1>5
      <4> QED BY <4>1, <4>2, <3>3 DEF Stands
    <3>10. Stands(r, j, l, u)
      BY <3>8, <3>9 DEF Stands
    <3> QED BY <3>8, <3>10 DEF l
  <2> QED BY <2>1 DEF Intact
<1>12. ASSUME k <= w, Spoiler(q, s, w) PROVE Spoiler(r, s, w)
  <2>1. ASSUME w < Len(s) PROVE Present(r, w + 1) /\ (Sound(s[w + 1]) => Lacks(r, s, w + 1))
    <3>1. PICK j \in 1 .. Len(q) : q[j].frame = w + 1
      BY <2>1, <1>12 DEF Spoiler, Present
    <3>2. j > e
      BY <3>1, <1>1, <1>7, <1>12
    <3>3. Present(r, w + 1)
      BY <3>1, <3>2, <1>6 DEF Present
    <3>4. w + 1 \in 1 .. Len(s)
      BY <2>1, <1>1
    <3> QED BY <3>3, <3>4, <2>1, <1>9, <1>12 DEF Spoiler
  <2> QED BY <2>1 DEF Spoiler
<1>13. ASSUME Gapless(q, s) PROVE Gapless(r, s)
  <2>1. \A i \in 1 .. Len(r) : r[i].sound
    BY <1>5, <1>13 DEF Gapless
  <2>2. ASSUME Len(r) > 0 PROVE r[1].at = 1
    <3>1. e + 1 \in 1 .. Len(q) /\ e + 1 > e /\ (e + 1) - e = 1
      BY <2>2, <1>1, <1>2, <1>4
    <3>2. q[e + 1].frame > k /\ r[1] = q[e + 1]
      BY <3>1, <1>6
    <3>3. q[e + 1].frame # q[e].frame
      BY <3>2, <1>1, <1>4
    <3> QED BY <3>1, <3>2, <3>3, <1>4, <1>13 DEF Gapless
  <2>3. ASSUME NEW i \in 1 .. Len(r), NEW j \in 1 .. Len(r), j = i + 1
        PROVE  r[j].frame = r[i].frame \/ (r[i].at = s[r[i].frame].size /\ r[j].at = 1)
    <3>1. j + e = (i + e) + 1
      BY <2>3, <1>2
    <3>2. \/ q[j + e].frame = q[i + e].frame
          \/ q[i + e].at = s[q[i + e].frame].size /\ q[j + e].at = 1
      BY <3>1, <1>5, <1>13 DEF Gapless
    <3> QED BY <3>2, <1>5
  <2> QED BY <2>1, <2>2, <2>3 DEF Gapless
<1>14. ASSUME EndsFrame(q, s) PROVE EndsFrame(r, s)
  <2>1. ASSUME Len(r) > 0 PROVE r[Len(r)] = q[Len(q)] /\ Len(q) > 0
    <3>1. Len(r) \in 1 .. Len(r)
      BY <2>1, <1>1
    <3>2. r[Len(r)] = q[Len(r) + e]
      BY <3>1, <1>5
    <3> QED BY <3>2, <2>1, <1>4, <1>1, <1>2
  <2> QED BY <2>1, <1>14 DEF EndsFrame
<1> QED BY <1>9, <1>10, <1>11, <1>12, <1>13, <1>14

-----------------------------------------------------------------------------
(* What the actions do to the body: to a buffer b and a wire x.             *)

\* A place in a concatenation.
LEMMA ConcatAt ==
    ASSUME NEW b \in Seq(Bytes), NEW x \in Seq(Bytes), NEW j \in 1 .. Len(b \o x)
    PROVE  \/ j \in 1 .. Len(b) /\ (b \o x)[j] = b[j]
           \/ j > Len(b) /\ j - Len(b) \in 1 .. Len(x) /\ (b \o x)[j] = x[j - Len(b)]
<1>1. Len(b) \in Nat /\ Len(x) \in Nat /\ Len(b \o x) = Len(b) + Len(x)
  BY ConcatIs
<1>2. CASE j <= Len(b)
  BY <1>1, <1>2, ConcatIs
<1>3. CASE j > Len(b)
  <2>1. j - Len(b) \in 1 .. Len(x) /\ j = Len(b) + (j - Len(b))
    BY <1>1, <1>3
  <2>2. (b \o x)[Len(b) + (j - Len(b))] = x[j - Len(b)]
    BY <2>1, ConcatIs
  <2> QED BY <1>3, <2>1, <2>2
<1> QED BY <1>1, <1>2, <1>3

\* Send.
LEMMA SendAdds ==
    ASSUME NEW b \in Seq(Bytes), NEW x \in Seq(Bytes), NEW f \in Frames, NEW k \in 1 .. MaxFrames
    PROVE  /\ x \o BytesOf(k, f) \in Seq(Bytes)
           /\ Adds(b \o x, b \o (x \o BytesOf(k, f)), k, f.size)
<1> DEFINE y == BytesOf(k, f)
           q == b \o x
<1>1. f.size \in Nat
  BY DecoderAssumption DEF FrameRecord
<1>2. y \in Seq(Bytes) /\ Len(y) = f.size
      /\ \A i \in 1 .. f.size : y[i].frame = k /\ y[i].at = i /\ y[i].sound
  <2>1. \A i \in 1 .. f.size : [frame |-> k, at |-> i, sound |-> TRUE] \in Bytes
    BY <1>1 DEF Bytes
  <2>2. y \in [1 .. f.size -> Bytes]
    BY <2>1 DEF BytesOf
  <2>3. y \in Seq(Bytes) /\ Len(y) = f.size
    BY <2>2, <1>1, LenIs
  <2> QED BY <2>3 DEF BytesOf
<1> HIDE DEF y
<1>3. q \in Seq(Bytes) /\ x \o y \in Seq(Bytes) /\ b \o (x \o y) = q \o y
  <2>1. q \in Seq(Bytes) /\ x \o y \in Seq(Bytes)
    BY <1>2, ConcatIs
  <2>2. b \o (x \o y) = (b \o x) \o y
    BY <1>2, ConcatAssociative, SMTT(30)
  <2> QED BY <2>1, <2>2
<1> HIDE DEF q
<1>4. Len(q \o y) = Len(q) + f.size /\ \A i \in 1 .. Len(q) : (q \o y)[i] = q[i]
  BY <1>2, <1>3, ConcatIs
<1>5. ASSUME NEW i \in 1 .. Len(q \o y), i > Len(q)
      PROVE  (q \o y)[i].frame = k /\ (q \o y)[i].at = i - Len(q) /\ (q \o y)[i].sound
  <2>1. i - Len(q) \in 1 .. Len(y) /\ (q \o y)[i] = y[i - Len(q)]
    BY <1>2, <1>3, <1>5, ConcatAt
  <2> QED BY <2>1, <1>2
<1>6. Adds(q, q \o y, k, f.size)
  BY <1>4, <1>5 DEF Adds
<1> QED BY <1>3, <1>6 DEF q, y

\* Cut.
LEMMA CutBegins ==
    ASSUME NEW b \in Seq(Bytes), NEW x \in Seq(Bytes), NEW n \in 0 .. Len(x)
    PROVE  /\ SubSeq(x, 1, n) \in Seq(Bytes)
           /\ Begins(b \o x, b \o SubSeq(x, 1, n))
<1> DEFINE y == SubSeq(x, 1, n)
<1>1. y \in Seq(Bytes) /\ Len(y) = n /\ \A i \in 1 .. n : y[i] = x[i]
  BY SubSeqIs
<1> HIDE DEF y
<1>2. Len(b \o y) <= Len(b \o x)
  <2>1. Len(b \o y) = Len(b) + n /\ Len(b \o x) = Len(b) + Len(x)
    BY <1>1, ConcatIs
  <2> QED BY <2>1
<1>3. ASSUME NEW j \in 1 .. Len(b \o y) PROVE (b \o y)[j] = (b \o x)[j]
  <2>1. CASE j \in 1 .. Len(b)
    BY <2>1, <1>1, ConcatIs
  <2>2. CASE j > Len(b) /\ j - Len(b) \in 1 .. n /\ (b \o y)[j] = y[j - Len(b)]
    <3>1. j - Len(b) \in 1 .. Len(x) /\ j = Len(b) + (j - Len(b))
      BY <2>2
    <3>2. (b \o x)[Len(b) + (j - Len(b))] = x[j - Len(b)]
      BY <3>1, ConcatIs
    <3> QED BY <3>1, <3>2, <2>2, <1>1
  <2> QED BY <2>1, <2>2, <1>1, ConcatAt
<1> QED BY <1>1, <1>2, <1>3 DEF Begins, y

\* Decode.
LEMMA DecodeFollows ==
    ASSUME NEW b \in Seq(Bytes), NEW x \in Seq(Bytes), NEW e \in 0 .. Len(b)
    PROVE  /\ SubSeq(b, e + 1, Len(b)) \in Seq(Bytes)
           /\ Follows(b \o x, SubSeq(b, e + 1, Len(b)) \o x, e)
<1> DEFINE y == SubSeq(b, e + 1, Len(b))
<1>1. y \in Seq(Bytes) /\ Len(y) = Len(b) - e /\ \A i \in 1 .. Len(b) - e : y[i] = b[e + i]
  BY SubSeqIs
<1> HIDE DEF y
<1>2. Len(y \o x) = Len(y) + Len(x) /\ Len(b \o x) = Len(b) + Len(x)
  BY <1>1, ConcatIs
<1>3. Len(y \o x) = Len(b \o x) - e
  BY <1>1, <1>2
<1>4. ASSUME NEW i \in 1 .. Len(y \o x), NEW j \in 1 .. Len(b \o x), j = i + e
      PROVE  (y \o x)[i] = (b \o x)[j]
  <2>1. CASE i \in 1 .. Len(y) /\ (y \o x)[i] = y[i]
    <3>1. j \in 1 .. Len(b) /\ j = e + i
      BY <2>1, <1>1, <1>4
    <3> QED BY <3>1, <2>1, <1>1, ConcatIs
  <2>2. CASE i > Len(y) /\ i - Len(y) \in 1 .. Len(x) /\ (y \o x)[i] = x[i - Len(y)]
    <3>1. j - Len(b) = i - Len(y) /\ j = Len(b) + (i - Len(y))
      BY <2>2, <1>1, <1>4
    <3>2. (b \o x)[Len(b) + (i - Len(y))] = x[i - Len(y)]
      BY <2>2, ConcatIs
    <3> QED BY <3>1, <3>2, <2>2
  <2> QED BY <2>1, <2>2, <1>1, ConcatAt
<1> QED BY <1>1, <1>3, <1>4 DEF Follows, y

\* y is x with the i-th byte changed, or without it.
Changed(x, y, i) ==
    /\ y \in Seq(Bytes) /\ Len(y) = Len(x)
    /\ y[i].frame = x[i].frame /\ y[i].at = x[i].at /\ ~y[i].sound
    /\ \A j \in 1 .. Len(x) : j # i => y[j] = x[j]
Removed(x, y, i) ==
    /\ y \in Seq(Bytes) /\ Len(y) = Len(x) - 1
    /\ \A j \in 1 .. Len(y) : (j < i => y[j] = x[j]) /\ (j >= i => y[j] = x[j + 1])

\* The two ways in which Damage writes this.
LEMMA ChangedIs ==
    ASSUME NEW x \in Seq(Bytes), NEW i \in 1 .. Len(x)
    PROVE  Changed(x, [x EXCEPT ![i].sound = FALSE], i)
<1> DEFINE l == [x[i] EXCEPT !.sound = FALSE]
           y == [x EXCEPT ![i] = l]
<1>1. x[i] \in Bytes
  OBVIOUS
<1>2. l \in Bytes /\ l.frame = x[i].frame /\ l.at = x[i].at /\ ~l.sound
  BY <1>1 DEF Bytes
<1> HIDE DEF l
<1>3. y \in Seq(Bytes) /\ Len(y) = Len(x) /\ y[i] = l /\ \A j \in 1 .. Len(x) : j # i => y[j] = x[j]
  BY <1>2
<1> HIDE DEF y
<1>4. Changed(x, y, i)
  BY <1>2, <1>3 DEF Changed
<1> QED BY <1>4 DEF y, l

\* A byte is taken out of the middle.
LEMMA RemovedIs ==
    ASSUME NEW x \in Seq(Bytes), NEW i \in 1 .. Len(x)
    PROVE  Removed(x, SubSeq(x, 1, i - 1) \o SubSeq(x, i + 1, Len(x)), i)
<1> DEFINE u == SubSeq(x, 1, i - 1)
           v == SubSeq(x, i + 1, Len(x))
           y == u \o v
<1>1. i \in Nat /\ Len(x) \in Nat
  OBVIOUS
<1>2. u \in Seq(Bytes) /\ Len(u) = i - 1 /\ \A j \in 1 .. i - 1 : u[j] = x[j]
  BY SubSeqIs
<1>3. v \in Seq(Bytes) /\ Len(v) = Len(x) - i /\ \A j \in 1 .. Len(x) - i : v[j] = x[i + j]
  BY SubSeqIs
<1> HIDE DEF u, v
<1>4. y \in Seq(Bytes) /\ Len(y) = Len(x) - 1
  <2>1. y \in Seq(Bytes) /\ Len(y) = Len(u) + Len(v)
    BY <1>2, <1>3, ConcatIs
  <2> QED BY <2>1, <1>1, <1>2, <1>3
<1>5. ASSUME NEW j \in 1 .. Len(y)
      PROVE  (j < i => y[j] = x[j]) /\ (j >= i => y[j] = x[j + 1])
  <2>1. CASE j \in 1 .. Len(u) /\ y[j] = u[j]
    BY <2>1, <1>2
  <2>2. CASE j > Len(u) /\ j - Len(u) \in 1 .. Len(v) /\ y[j] = v[j - Len(u)]
    <3>1. j >= i /\ i + (j - Len(u)) = j + 1 /\ j - Len(u) \in 1 .. Len(x) - i
      BY <2>2, <1>1, <1>2, <1>3
    <3> QED BY <3>1, <2>2, <1>3
  <2> QED BY <2>1, <2>2, <1>2, <1>3, ConcatAt
<1> HIDE DEF y
<1>6. Removed(x, y, i)
  BY <1>4, <1>5 DEF Removed
<1> QED BY <1>6 DEF u, v, y

\* Damage, to a byte that arrives.
LEMMA ChangeDamages ==
    ASSUME NEW b \in Seq(Bytes), NEW x \in Seq(Bytes), NEW i \in 1 .. Len(x),
           NEW y, Changed(x, y, i)
    PROVE  \E m : Damages(b \o x, b \o y, m, Len(b) + i)
<1> DEFINE q == b \o x
           r == b \o y
           p == Len(b) + i
           m == [j \in 1 .. Len(q) |-> j]
<1>1. /\ y \in Seq(Bytes) /\ Len(y) = Len(x)
      /\ \A j \in 1 .. Len(x) : j # i => y[j] = x[j]
  BY DEF Changed
<1>3. y[i].frame = x[i].frame /\ y[i].at = x[i].at /\ ~y[i].sound
  BY DEF Changed
<1>4. /\ Len(q) = Len(b) + Len(x) /\ Len(r) = Len(q) /\ Len(b) \in Nat /\ Len(x) \in Nat
      /\ p \in 1 .. Len(q)
  <2>1. Len(q) = Len(b) + Len(x) /\ Len(r) = Len(b) + Len(y)
    BY <1>1, ConcatIs
  <2> QED BY <2>1, <1>1
<1>5. ASSUME NEW j \in 1 .. Len(q)
      PROVE  /\ r[j].frame = q[j].frame /\ r[j].at = q[j].at
             /\ j # p => r[j] = q[j]
             /\ j = p => ~r[j].sound
  <2>1. j \in 1 .. Len(r) /\ j \in Nat
    BY <1>4
  <2>2. CASE j \in 1 .. Len(b)
    <3>1. q[j] = b[j] /\ r[j] = b[j]
      BY <2>2, <1>1, ConcatIs
    <3>2. j # p
      BY <2>2, <1>4
    <3> QED BY <3>1, <3>2
  <2>3. CASE j > Len(b)
    <3> DEFINE l == j - Len(b)
    <3>1. l \in 1 .. Len(x) /\ q[j] = x[l]
      BY <2>3, <1>4, ConcatAt
    <3>2. r[j] = y[l]
      BY <2>1, <2>3, <1>1, <1>4, ConcatAt
    <3>3. j = p <=> l = i
      BY <2>1, <1>4
    <3> HIDE DEF l
    <3> QED BY <3>1, <3>2, <3>3, <1>1, <1>3
  <2> QED BY <2>1, <2>2, <2>3, <1>4
<1> HIDE DEF q, r, p
<1>6. m \in [1 .. Len(r) -> 1 .. Len(q)] /\ \A j \in 1 .. Len(q) : m[j] = j
  BY <1>4
<1> HIDE DEF m
<1>7. Selects(q, r, m)
  BY <1>4, <1>5, <1>6 DEF Selects
<1>8. \A j \in 1 .. Len(q) : j < p => j # p
  BY <1>4
<1>9. Damages(q, r, m, p)
  BY <1>4, <1>5, <1>6, <1>7, <1>8 DEF Damages
<1> QED BY <1>9 DEF q, r, p

\* Damage, by which a byte gets lost.
LEMMA LossDamages ==
    ASSUME NEW b \in Seq(Bytes), NEW x \in Seq(Bytes), NEW i \in 1 .. Len(x), i < Len(x),
           NEW y, Removed(x, y, i)
    PROVE  \E m : Damages(b \o x, b \o y, m, Len(b) + i)
<1> DEFINE q == b \o x
           r == b \o y
           p == Len(b) + i
           m == [j \in 1 .. Len(r) |-> IF j < p THEN j ELSE j + 1]
<1>3. y \in Seq(Bytes) /\ Len(y) = Len(x) - 1
  BY DEF Removed
<1>4. /\ Len(q) = Len(b) + Len(x) /\ Len(r) = Len(q) - 1 /\ Len(b) \in Nat /\ Len(x) \in Nat
      /\ p \in 1 .. Len(q) /\ p < Len(q)
  <2>1. Len(q) = Len(b) + Len(x) /\ Len(r) = Len(b) + Len(y)
    BY <1>3, ConcatIs
  <2> QED BY <2>1, <1>3
<1>5. ASSUME NEW j \in 1 .. Len(y)
      PROVE  (j < i => y[j] = x[j]) /\ (j >= i => y[j] = x[j + 1])
  BY DEF Removed
<1>6. ASSUME NEW j \in 1 .. Len(r)
      PROVE  (j < p => r[j] = q[j]) /\ (j >= p => r[j] = q[j + 1])
  <2>1. CASE j \in 1 .. Len(b) /\ r[j] = b[j]
    <3>1. j < p /\ q[j] = b[j]
      BY <2>1, <1>4, ConcatIs
    <3> QED BY <3>1, <2>1, <1>4
  <2>2. CASE j > Len(b) /\ j - Len(b) \in 1 .. Len(y) /\ r[j] = y[j - Len(b)]
    <3> DEFINE l == j - Len(b)
    <3>1. l \in 1 .. Len(y) /\ l \in 1 .. Len(x) /\ l + 1 \in 1 .. Len(x) /\ l \in Nat
      BY <2>2, <1>3, <1>4
    <3>2. Len(b) + l = j /\ Len(b) + (l + 1) = j + 1 /\ (j < p <=> l < i)
      BY <1>4
    <3> HIDE DEF l
    <3>3. q[Len(b) + l] = x[l] /\ q[Len(b) + (l + 1)] = x[l + 1]
      BY <3>1, ConcatIs
    <3>4. r[j] = y[l]
      BY <2>2 DEF l
    <3>5. j >= p => l >= i
      BY <3>1, <3>2, <1>4
    <3> QED BY <3>1, <3>2, <3>3, <3>4, <3>5, <1>5
  <2> QED BY <2>1, <2>2, <1>3, ConcatAt
<1> HIDE DEF q, r, p
<1>7. /\ m \in [1 .. Len(r) -> 1 .. Len(q)]
      /\ \A j \in 1 .. Len(r) : (j < p => m[j] = j) /\ (j >= p => m[j] = j + 1)
  BY <1>4
<1> HIDE DEF m
<1>8. Selects(q, r, m)
  <2>1. ASSUME NEW j \in 1 .. Len(r) PROVE r[j] = q[m[j]]
    BY <1>4, <1>6, <1>7
  <2>2. ASSUME NEW j \in 1 .. Len(r), NEW l \in 1 .. Len(r), j < l PROVE m[j] < m[l]
    BY <2>2, <1>4, <1>7
  <2> QED BY <2>1, <2>2, <1>7 DEF Selects
<1>9. Damages(q, r, m, p)
  <2>1. ASSUME NEW j \in 1 .. Len(q), j < p PROVE j \in 1 .. Len(r) /\ r[j] = q[j]
    BY <2>1, <1>4, <1>6
  <2>2. ASSUME NEW j \in 1 .. Len(q), j # p PROVE \E l \in 1 .. Len(r) : m[l] = j
    <3>1. CASE j < p
      BY <3>1, <2>1, <1>7
    <3>2. CASE j > p
      <4>1. j - 1 \in 1 .. Len(r) /\ j - 1 >= p /\ (j - 1) + 1 = j
        BY <3>2, <1>4
      <4> QED BY <4>1, <1>7
    <3> QED BY <3>1, <3>2, <2>2, <1>4
  <2>3. ASSUME NEW j \in 1 .. Len(r) PROVE m[j] # p
    BY <1>4, <1>7
  <2> QED BY <2>1, <2>2, <2>3, <1>4, <1>8 DEF Damages
<1> QED BY <1>9 DEF q, r, p

-----------------------------------------------------------------------------
(* The invariant.                                                           *)

\* The state, taken apart.
LEMMA StateIs ==
    ASSUME DecoderInv
    PROVE  /\ buf \in Seq(Bytes) /\ wire \in Seq(Bytes) /\ Rest \in Seq(Bytes)
           /\ sent \in Seq(Frames) /\ Len(sent) \in Nat /\ Len(sent) <= MaxFrames
           /\ whole \in 0 .. Len(sent) /\ whole \in Nat
           /\ Len(events) \in Nat /\ Len(events) <= whole
           /\ Len(Rest) = Len(buf) + Len(wire) /\ Len(buf) \in Nat /\ Len(wire) \in Nat
           /\ Places(Rest, sent, Len(events)) /\ Sorted(Rest)
           /\ \A k \in 1 .. whole : Sound(sent[k])
<1>1. /\ buf \in Seq(Bytes) /\ wire \in Seq(Bytes) /\ sent \in Seq(Frames)
      /\ Len(sent) <= MaxFrames /\ whole \in 0 .. Len(sent) /\ events \in Seq(Events)
  BY DEF DecoderInv, TypeOK
<1>2. Rest \in Seq(Bytes) /\ Len(Rest) = Len(buf) + Len(wire)
  BY <1>1, ConcatIs DEF Rest
<1>3. Len(sent) \in Nat /\ whole \in Nat /\ Len(events) \in Nat /\ Len(buf) \in Nat /\ Len(wire) \in Nat
  BY <1>1
<1> QED BY <1>1, <1>2, <1>3 DEF DecoderInv, BodyInv, PlacesInv, SortedInv, WholeInv

\* A step that leaves the body and the frames alone, and lets nothing but the
\* wire end, keeps what is known of the body.
LEMMA BodyKept ==
    ASSUME BodyInv, Rest' = Rest, UNCHANGED <<sent, whole, damaged, events>>,
           pc' # "done" => pc # "done", ~closed' => ~closed
    PROVE  BodyInv'
<1>1. PlacesInv' /\ SortedInv'
  BY DEF BodyInv, PlacesInv, SortedInv
<1>2. WholeInv'
  BY DEF BodyInv, WholeInv
<1>3. SpoiledInv' /\ GaplessInv' /\ EndsFrameInv'
  BY DEF BodyInv, SpoiledInv, GaplessInv, EndsFrameInv
<1> QED BY <1>1, <1>2, <1>3 DEF BodyInv

\* The invariant holds of a body that nobody has written to.
LEMMA InitInv == Init => DecoderInv
<1> SUFFICES ASSUME Init PROVE DecoderInv
  OBVIOUS
<1>1. buf = <<>> /\ wire = <<>> /\ sent = <<>> /\ events = <<>> /\ whole = 0 /\ pc = "next"
  BY DEF Init
<1>2. Rest = <<>> /\ Len(Rest) = 0 /\ Len(sent) = 0 /\ Len(events) = 0
  BY <1>1 DEF Rest
<1>3. TypeOK
  <2>1. Len(buf) <= MaxMessage + Chunk /\ MaxFrames \in Nat
    BY <1>1, DecoderAssumption
  <2>2. /\ sent \in Seq(Frames) /\ Len(sent) <= MaxFrames /\ wire \in Seq(Bytes)
        /\ buf \in Seq(Bytes) /\ events \in Seq(Events) /\ whole \in 0 .. Len(sent)
    BY <1>1, <2>1
  <2> QED BY <1>1, <2>1, <2>2 DEF Init, TypeOK
<1>4. EndInv
  BY DEF Init, EndInv
<1>5. PlacesInv /\ SortedInv
  BY <1>2 DEF PlacesInv, SortedInv, Places, Sorted
<1>6. WholeInv
  BY <1>1, <1>2 DEF WholeInv, Intact
<1>7. SpoiledInv /\ GaplessInv /\ EndsFrameInv
  BY <1>1, <1>2 DEF SpoiledInv, GaplessInv, EndsFrameInv, Spoiler, Gapless, EndsFrame
<1> QED BY <1>3, <1>4, <1>5, <1>6, <1>7 DEF DecoderInv, BodyInv

\* Upstream writes a frame.
LEMMA SendKeeps ==
    ASSUME DecoderInv, NEW f \in Frames, Send(f)
    PROVE  DecoderInv'
<1> DEFINE k == Len(sent) + 1
           d == Len(events)
<1>1. /\ sent' = Append(sent, f) /\ wire' = wire \o BytesOf(k, f)
      /\ whole' = IF whole = Len(sent) /\ Sound(f) THEN whole + 1 ELSE whole
      /\ buf' = buf /\ events' = events /\ pc' = pc /\ damaged' = damaged /\ closed' = closed
      /\ failed' = failed /\ eof' = eof /\ outcome' = outcome
      /\ ~closed /\ Len(sent) < MaxFrames
  BY DEF Send, readerVars
<1>2. k \in 1 .. MaxFrames /\ MaxFrames \in Nat
  BY <1>1, StateIs, DecoderAssumption
<1>3. wire' \in Seq(Bytes) /\ Adds(Rest, Rest', k, f.size)
  BY <1>1, <1>2, StateIs, SendAdds DEF Rest
<1>4. Rest' \in Seq(Bytes)
  BY <1>1, <1>3, StateIs, ConcatIs DEF Rest
<1>5. /\ sent' \in Seq(Frames) /\ Len(sent') = k
      /\ sent'[k] = f /\ \A j \in 1 .. Len(sent) : sent'[j] = sent[j]
  BY <1>1, StateIs
<1>6. /\ Places(Rest', sent', d) /\ Sorted(Rest')
      /\ Intact(Rest, sent, d, whole) => Intact(Rest', sent', d, whole)
      /\ Intact(Rest, sent, d, whole) /\ whole = Len(sent) => Intact(Rest', sent', d, k)
      /\ Present(Rest', k) /\ \A j : Present(Rest, j) => Present(Rest', j)
      /\ \A j \in 1 .. Len(sent) : Lacks(Rest, sent, j) => Lacks(Rest', sent', j)
      /\ Gapless(Rest, sent) /\ EndsFrame(Rest, sent) => Gapless(Rest', sent')
      /\ EndsFrame(Rest', sent')
  <2> DEFINE q == Rest
             r == Rest'
  <2>1. q \in Seq(Bytes) /\ r \in Seq(Bytes) /\ Adds(q, r, k, f.size)
    BY <1>3, <1>4, StateIs
  <2>2. /\ sent \in Seq(Frames) /\ d \in Nat /\ whole \in 0 .. Len(sent) /\ d <= whole
        /\ Places(q, sent, d) /\ Sorted(q)
    BY StateIs
  <2>3. sent' = Append(sent, f) /\ k = Len(sent) + 1
    BY <1>1
  <2> HIDE DEF q, r, d, k
  <2> QED BY <2>1, <2>2, <2>3, Appended DEF q, r
<1>7. TypeOK'
  <2>1. Len(sent') <= MaxFrames /\ whole' \in 0 .. Len(sent')
    BY <1>1, <1>2, <1>5, StateIs
  <2> QED BY <1>1, <1>3, <1>5, <2>1 DEF DecoderInv, TypeOK
<1>8. EndInv'
  BY <1>1 DEF DecoderInv, EndInv
<1>9. WholeInv'
  <2>1. d <= whole /\ \A j \in 1 .. whole : Sound(sent'[j])
    BY <1>5, StateIs, SMTT(30)
  <2>2. pc' # "done" => Intact(Rest, sent, d, whole)
    BY <1>1 DEF DecoderInv, BodyInv, WholeInv
  <2>3. CASE whole = Len(sent) /\ Sound(f)
    <3>1. whole' = k /\ d <= k /\ \A j \in 1 .. k : j \in 1 .. whole \/ j = k
      BY <2>3, <1>1, <2>1, StateIs
    <3> QED BY <3>1, <2>1, <2>2, <2>3, <1>1, <1>5, <1>6 DEF WholeInv
  <2>4. CASE ~(whole = Len(sent) /\ Sound(f))
    BY <2>1, <2>2, <2>4, <1>1, <1>6 DEF WholeInv
  <2> QED BY <2>3, <2>4
<1>10. SpoiledInv'
  <2>1. ASSUME pc' # "done", whole' < Len(sent')
        PROVE  /\ Present(Rest', whole' + 1)
               /\ Sound(sent'[whole' + 1]) => Lacks(Rest', sent', whole' + 1)
    <3>1. whole' = whole
      BY <2>1, <1>1, <1>5, StateIs
    <3>2. CASE whole = Len(sent)
      <4>1. ~Sound(f)
        BY <3>1, <3>2, <1>1, StateIs
      <4> QED BY <4>1, <3>1, <3>2, <1>5, <1>6
    <3>3. CASE whole < Len(sent)
      <4>1. whole + 1 \in 1 .. Len(sent) /\ sent'[whole + 1] = sent[whole + 1]
        BY <3>3, <1>5, StateIs
      <4>2. Present(Rest, whole + 1) /\ (Sound(sent[whole + 1]) => Lacks(Rest, sent, whole + 1))
        BY <3>3, <2>1, <1>1 DEF DecoderInv, BodyInv, SpoiledInv, Spoiler
      <4>3. Lacks(Rest, sent, whole + 1) => Lacks(Rest', sent', whole + 1)
        BY <4>1, <1>6
      <4> QED BY <4>1, <4>2, <4>3, <3>1, <1>6
    <3> QED BY <3>2, <3>3, StateIs
  <2> QED BY <2>1 DEF SpoiledInv, Spoiler
<1>11. GaplessInv' /\ EndsFrameInv'
  <2>1. pc' # "done" /\ ~damaged' => Gapless(Rest, sent) /\ EndsFrame(Rest, sent)
    BY <1>1 DEF DecoderInv, BodyInv, GaplessInv, EndsFrameInv
  <2> QED BY <2>1, <1>6 DEF GaplessInv, EndsFrameInv
<1>12. PlacesInv' /\ SortedInv'
  BY <1>1, <1>6 DEF PlacesInv, SortedInv
<1> QED BY <1>7, <1>8, <1>9, <1>10, <1>11, <1>12 DEF DecoderInv, BodyInv

\* The body ends early.
LEMMA CutKeeps ==
    ASSUME DecoderInv, NEW n \in 0 .. Len(wire), Cut(n)
    PROVE  /\ DecoderInv' /\ Len(events) <= whole' /\ whole' <= whole
           /\ \A j \in 1 .. whole' : sent'[j] = sent[j]
<1> DEFINE d == Len(events)
           left == buf \o SubSeq(wire, 1, n)
           last == left[Len(left)]
           k == last.frame
<1>1. /\ wire' = SubSeq(wire, 1, n) /\ buf' = buf /\ closed' /\ events' = events
      /\ pc' = pc /\ damaged' = damaged /\ failed' = failed /\ eof' = eof
      /\ outcome' = outcome /\ closed' \in BOOLEAN
  BY DEF Cut, readerVars
<1>2. wire' \in Seq(Bytes) /\ Begins(Rest, Rest') /\ Rest' = left /\ Rest' \in Seq(Bytes)
  <2>1. wire' \in Seq(Bytes) /\ Begins(Rest, Rest')
    BY <1>1, StateIs, CutBegins DEF Rest
  <2> QED BY <2>1, <1>1, StateIs, ConcatIs DEF Rest
<1>3. /\ left = <<>> =>
            /\ sent' = SubSeq(sent, 1, d)
            /\ whole' = IF whole < d + 1 THEN whole ELSE (d + 1) - 1
      /\ left # <<>> =>
            /\ sent' = SubSeq(sent, 1, k)
            /\ last.at = sent[k].size => whole' = IF whole < k + 1 THEN whole ELSE (k + 1) - 1
            /\ last.at # sent[k].size => whole' = IF whole < k THEN whole ELSE k - 1
  BY DEF Cut, OnlyBefore
<1>4. (left = <<>> <=> Len(left) = 0) /\ Len(left) \in Nat
  <2>1. left \in Seq(Bytes)
    BY <1>2
  <2> HIDE DEF left
  <2> QED BY <2>1
<1>5. /\ Len(left) = 0 \/ Len(left) > 0
      /\ d = Len(events) /\ last = left[Len(left)] /\ k = last.frame
  BY <1>4
<1> HIDE DEF d, left, last, k
<1>6. ASSUME Len(left) = 0
      PROVE  /\ sent' \in Seq(Frames) /\ Len(sent') = d /\ whole' = d
             /\ \A j \in 1 .. d : sent'[j] = sent[j]
             /\ Places(Rest', sent', d) /\ Sorted(Rest') /\ Intact(Rest', sent', d, d)
             /\ Spoiler(Rest', sent', d) /\ Gapless(Rest', sent')
  <2>1. sent' = SubSeq(sent, 1, d) /\ whole' = IF whole < d + 1 THEN whole ELSE (d + 1) - 1
    BY <1>3, <1>4, <1>6
  <2>2. d \in 0 .. Len(sent) /\ whole' = d
    BY <2>1, <1>5, StateIs
  <2>3. sent' \in Seq(Frames) /\ Len(sent') = d /\ \A j \in 1 .. d : sent'[j] = sent[j]
    BY <2>1, <2>2, StateIs, SubSeqIs
  <2>4. Len(Rest') = 0
    BY <1>2, <1>6
  <2>5. Places(Rest', sent', d) /\ Sorted(Rest') /\ Gapless(Rest', sent')
    BY <2>4 DEF Places, Sorted, Gapless
  <2>6. Intact(Rest', sent', d, d) /\ Spoiler(Rest', sent', d)
    BY <2>2, <2>3 DEF Intact, Spoiler
  <2> QED BY <2>2, <2>3, <2>5, <2>6
<1>7. ASSUME Len(left) > 0
      PROVE  /\ k \in d + 1 .. Len(sent) /\ sent' \in Seq(Frames) /\ Len(sent') = k
             /\ \A j \in 1 .. k : sent'[j] = sent[j]
             /\ whole' \in d .. k /\ whole' <= whole
             /\ Places(Rest', sent', d) /\ Sorted(Rest')
             /\ Intact(Rest, sent, d, whole) => Intact(Rest', sent', d, whole')
             /\ Spoiler(Rest, sent, whole) => Spoiler(Rest', sent', whole')
             /\ Gapless(Rest, sent) => Gapless(Rest', sent')
  <2> DEFINE q == Rest
             r == Rest'
             s == sent
             z == sent'
             w == whole
             v == whole'
  <2>1. /\ q \in Seq(Bytes) /\ r \in Seq(Bytes) /\ Begins(q, r) /\ r = left
        /\ Len(r) > 0 /\ last = r[Len(r)] /\ k = r[Len(r)].frame
    BY <1>2, <1>5, <1>7, StateIs
  <2>2. /\ s \in Seq(Frames) /\ d \in Nat /\ w \in 0 .. Len(s) /\ d <= w
        /\ Places(q, s, d) /\ Sorted(q) /\ Len(s) \in Nat /\ Len(q) \in Nat
    BY <1>5, StateIs
  <2>3. z = SubSeq(s, 1, k)
    BY <1>3, <1>4, <1>7
  <2>4. /\ last.at = s[k].size => v = IF w < k + 1 THEN w ELSE (k + 1) - 1
        /\ last.at # s[k].size => v = IF w < k THEN w ELSE k - 1
    BY <1>3, <1>4, <1>7
  <2> HIDE DEF q, r, s, z, w, v
  <2>5. Len(r) \in 1 .. Len(q) /\ r[Len(r)] = q[Len(r)]
    BY <2>1, <2>2 DEF Begins
  <2>6. k \in d + 1 .. Len(s)
    BY <2>1, <2>2, <2>5 DEF Places
  <2>7. k \in 1 .. Len(s) /\ k \in Nat /\ w \in Nat
    BY <2>2, <2>6
  <2>8. v = IF r[Len(r)].at = s[k].size THEN IF w < k + 1 THEN w ELSE k
                                        ELSE IF w < k THEN w ELSE k - 1
    BY <2>1, <2>4, <2>7
  <2>9. v \in Nat /\ v \in d .. k /\ v <= w
    BY <2>2, <2>6, <2>7, <2>4
  <2>10. z \in Seq(Frames) /\ Len(z) = k /\ \A j \in 1 .. k : z[j] = s[j]
    BY <2>2, <2>3, <2>7, SubSeqIs
  <2>11. /\ Places(r, z, d) /\ Sorted(r)
         /\ Intact(q, s, d, w) => Intact(r, z, d, v)
         /\ Spoiler(q, s, w) => Spoiler(r, z, v)
         /\ Gapless(q, s) => Gapless(r, z)
    <3>1. Shortens(q, r, s, z, d, w, v, k)
      BY <2>1, <2>2, <2>7, <2>8, <2>9, <2>10 DEF Shortens
    <3> QED BY <3>1, Shortened
  <2> QED BY <2>6, <2>9, <2>10, <2>11 DEF q, r, s, z, w, v
<1>8. /\ sent' \in Seq(Frames) /\ Len(sent') <= Len(sent) /\ whole' \in 0 .. Len(sent')
      /\ d <= whole' /\ whole' <= whole /\ \A j \in 1 .. whole' : sent'[j] = sent[j]
  <2>1. CASE Len(left) = 0
    BY <2>1, <1>5, <1>6, StateIs
  <2>2. CASE Len(left) > 0
    <3>1. k \in d + 1 .. Len(sent) /\ d \in Nat /\ Len(sent) \in Nat
      BY <2>2, <1>5, <1>7, StateIs
    <3>2. k <= Len(sent) /\ d .. k \subseteq 0 .. k /\ \A j \in d .. k : d <= j /\ 1 .. j \subseteq 1 .. k
      BY <3>1
    <3> QED BY <3>2, <2>2, <1>7
  <2> QED BY <2>1, <2>2, <1>5
<1>9. TypeOK'
  <2>1. Len(sent') <= MaxFrames
    BY <1>8, StateIs, DecoderAssumption
  <2> QED BY <1>1, <1>2, <1>8, <2>1 DEF DecoderInv, TypeOK
<1>10. EndInv'
  <2>1. wire # <<>>
    BY StateIs DEF Cut
  <2> QED BY <2>1, <1>1 DEF DecoderInv, EndInv
<1>11. PlacesInv' /\ SortedInv'
  BY <1>1, <1>4, <1>5, <1>6, <1>7 DEF PlacesInv, SortedInv
<1>12. WholeInv'
  <2>1. d <= whole' /\ \A j \in 1 .. whole' : Sound(sent'[j])
    BY <1>8, StateIs
  <2>2. pc' # "done" => Intact(Rest', sent', d, whole')
    BY <1>1, <1>5, <1>6, <1>7 DEF DecoderInv, BodyInv, WholeInv
  <2> QED BY <2>1, <2>2, <1>1, <1>5 DEF WholeInv
<1>13. SpoiledInv' /\ GaplessInv' /\ EndsFrameInv'
  BY <1>1, <1>5, <1>6, <1>7
     DEF DecoderInv, BodyInv, SpoiledInv, GaplessInv, EndsFrameInv
<1> QED BY <1>5, <1>8, <1>9, <1>10, <1>11, <1>12, <1>13 DEF DecoderInv, BodyInv

\* The wire damages or loses a byte.
LEMMA DamageKeeps ==
    ASSUME DecoderInv, NEW i \in 1 .. Len(wire), Damage(i)
    PROVE  /\ DecoderInv' /\ Len(events) <= whole' /\ whole' <= whole
           /\ sent' = sent
<1> DEFINE d == Len(events)
           p == Len(buf) + i
           k == wire[i].frame
<1>1. /\ ~damaged /\ damaged' /\ damaged' \in BOOLEAN
      /\ \/ wire' = [wire EXCEPT ![i].sound = FALSE]
         \/ /\ i < Len(wire)
            /\ wire' = SubSeq(wire, 1, i - 1) \o SubSeq(wire, i + 1, Len(wire))
      /\ whole' = IF whole < k THEN whole ELSE k - 1
      /\ sent' = sent /\ closed' = closed /\ buf' = buf /\ events' = events /\ pc' = pc
      /\ failed' = failed /\ eof' = eof /\ outcome' = outcome
  BY DEF Damage, OnlyBefore, readerVars
<1>2. wire' \in Seq(Bytes) /\ \E m : Damages(Rest, Rest', m, p)
  <2>1. CASE wire' = [wire EXCEPT ![i].sound = FALSE]
    <3>1. Changed(wire, wire', i)
      BY <2>1, StateIs, ChangedIs
    <3> QED BY <3>1, <1>1, StateIs, ChangeDamages DEF Changed, Rest
  <2>2. CASE /\ i < Len(wire)
             /\ wire' = SubSeq(wire, 1, i - 1) \o SubSeq(wire, i + 1, Len(wire))
    <3>1. Removed(wire, wire', i)
      BY <2>2, StateIs, RemovedIs
    <3> QED BY <3>1, <2>2, <1>1, StateIs, LossDamages DEF Removed, Rest
  <2> QED BY <2>1, <2>2, <1>1
<1>3. PICK m : Damages(Rest, Rest', m, p)
  BY <1>2
<1>4. Rest' \in Seq(Bytes)
  BY <1>1, <1>2, StateIs, ConcatIs DEF Rest
<1>5. p \in 1 .. Len(Rest) /\ Rest[p].frame = k
  <2>1. Rest[p] = wire[i]
    BY StateIs, ConcatIs DEF Rest
  <2> QED BY <2>1, StateIs
<1>6. /\ Places(Rest', sent, d) /\ Sorted(Rest')
      /\ Intact(Rest, sent, d, whole) => Intact(Rest', sent, d, whole')
      /\ Intact(Rest, sent, d, whole) /\ Spoiler(Rest, sent, whole) /\ Gapless(Rest, sent)
            => Spoiler(Rest', sent, whole')
  <2> DEFINE q == Rest
             r == Rest'
             v == whole'
  <2>1. q \in Seq(Bytes) /\ r \in Seq(Bytes) /\ Damages(q, r, m, p) /\ p \in 1 .. Len(q)
        /\ q[p].frame = k
    BY <1>3, <1>4, <1>5, StateIs
  <2>2. /\ sent \in Seq(Frames) /\ d \in Nat /\ whole \in 0 .. Len(sent)
        /\ Places(q, sent, d) /\ Sorted(q)
    BY StateIs
  <2>3. v = IF whole < k THEN whole ELSE k - 1
    BY <1>1
  <2> HIDE DEF q, r, v, d, k, p
  <2>4. /\ Places(r, sent, d) /\ Sorted(r)
        /\ Intact(q, sent, d, whole) => Intact(r, sent, d, v)
        /\ Intact(q, sent, d, whole) /\ Spoiler(q, sent, whole) /\ Gapless(q, sent)
              => Spoiler(r, sent, v)
    <3>1. Spoils(q, r, m, sent, d, whole, v, k, p)
      BY <2>1, <2>2, <2>3 DEF Spoils
    <3> QED BY <3>1, Damaged
  <2> QED BY <2>4 DEF q, r, v
<1>7. whole' \in 0 .. Len(sent) /\ d <= whole' /\ whole' <= whole
  <2>1. k \in d + 1 .. Len(sent)
    BY <1>5, StateIs DEF Places
  <2>2. d \in Nat /\ d <= whole /\ whole \in 0 .. Len(sent) /\ Len(sent) \in Nat
    BY StateIs
  <2>3. whole' = IF whole < k THEN whole ELSE k - 1
    BY <1>1
  <2> HIDE DEF d, k
  <2> QED BY <2>1, <2>2, <2>3
<1>8. TypeOK'
  BY <1>1, <1>2, <1>7 DEF DecoderInv, TypeOK
<1>9. EndInv'
  <2>1. wire # <<>>
    BY StateIs
  <2> QED BY <2>1, <1>1 DEF DecoderInv, EndInv
<1>10. PlacesInv' /\ SortedInv'
  BY <1>1, <1>6 DEF PlacesInv, SortedInv
<1>11. WholeInv'
  <2>1. \A j \in 1 .. whole' : Sound(sent[j])
    BY <1>7, StateIs
  <2>2. pc' # "done" => Intact(Rest', sent, d, whole')
    BY <1>1, <1>6 DEF DecoderInv, BodyInv, WholeInv
  <2> QED BY <2>1, <2>2, <1>1, <1>7 DEF WholeInv
<1>12. SpoiledInv' /\ GaplessInv' /\ EndsFrameInv'
  BY <1>1, <1>6
     DEF DecoderInv, BodyInv, WholeInv, SpoiledInv, GaplessInv, EndsFrameInv
<1> QED BY <1>1, <1>7, <1>8, <1>9, <1>10, <1>11, <1>12 DEF DecoderInv, BodyInv

\* Upstream ends the body.
LEMMA CloseBodyKeeps ==
    ASSUME DecoderInv, CloseBody
    PROVE  DecoderInv'
<1>1. /\ closed' = TRUE /\ sent' = sent /\ wire' = wire /\ whole' = whole /\ damaged' = damaged
      /\ buf' = buf /\ failed' = failed /\ eof' = eof /\ pc' = pc /\ events' = events
      /\ outcome' = outcome
  BY DEF CloseBody, readerVars
<1>2. Rest' = Rest
  BY <1>1 DEF Rest
<1>3. BodyInv'
  BY <1>1, <1>2, BodyKept DEF DecoderInv
<1>4. TypeOK' /\ EndInv'
  BY <1>1 DEF DecoderInv, TypeOK, EndInv
<1> QED BY <1>3, <1>4 DEF DecoderInv

\* The Reader takes bytes from the wire, whether or not it can use them.
LEMMA ReadKeeps ==
    ASSUME DecoderInv, NEW n \in 0 .. Len(wire), n <= Chunk, Read(n) \/ ReadFails(n)
    PROVE  DecoderInv'
<1>1. /\ buf' = buf \o SubSeq(wire, 1, n) /\ wire' = SubSeq(wire, n + 1, Len(wire))
      /\ sent' = sent /\ closed' = closed /\ whole' = whole /\ damaged' = damaged
      /\ failed' = failed /\ events' = events /\ pc = "read"
      /\ \/ pc' = "next" /\ outcome' = outcome
         \/ pc' = "done" /\ outcome' = "failed"
      /\ eof' = eof \/ (n = Len(wire) /\ closed /\ eof' = TRUE)
  BY DEF Read, ReadFails, Take, Stop
<1>2. Rest' = Rest
  BY <1>1, StateIs, SplitIs DEF Rest
<1>3. BodyInv'
  BY <1>1, <1>2, BodyKept DEF DecoderInv
<1>4. /\ SubSeq(wire, 1, n) \in Seq(Bytes) /\ Len(SubSeq(wire, 1, n)) = n
      /\ wire' \in Seq(Bytes) /\ Len(wire') = Len(wire) - n
  <2>1. n \in Nat /\ n <= Len(wire) /\ Len(wire) \in Nat
    BY StateIs
  <2>2. SubSeq(wire, 1, n) \in Seq(Bytes) /\ Len(SubSeq(wire, 1, n)) = n
    BY <2>1, StateIs, SubSeqIs
  <2>3. wire' \in Seq(Bytes) /\ Len(wire') = Len(wire) - n
    BY <1>1, <2>1, StateIs, SubSeqIs
  <2> QED BY <2>2, <2>3
<1>5. buf' \in Seq(Bytes) /\ Len(buf') <= MaxMessage + Chunk
  <2>1. buf' \in Seq(Bytes) /\ Len(buf') = Len(buf) + n
    BY <1>1, <1>4, StateIs, ConcatIs
  <2>2. Len(buf) < MaxMessage
    BY <1>1 DEF DecoderInv, TypeOK
  <2> QED BY <2>1, <2>2, StateIs, DecoderAssumption
<1>6. TypeOK'
  BY <1>1, <1>4, <1>5 DEF DecoderInv, TypeOK
<1>7. EndInv'
  <2>1. eof' => closed' /\ Len(wire') = 0
    <3>1. eof => closed /\ Len(wire) = 0
      BY DEF DecoderInv, EndInv
    <3>2. n = Len(wire) \/ Len(wire) = 0 => Len(wire') = 0
      BY <1>4, StateIs
    <3> QED BY <3>1, <3>2, <1>1
  <2>2. Len(wire') = 0 => wire' = <<>>
    BY <1>4
  <2>3. failed' => pc' = "done"
    BY <1>1 DEF DecoderInv, EndInv
  <2>4. pc' = "done" <=> outcome' # "none"
    BY <1>1 DEF DecoderInv, EndInv
  <2> QED BY <2>1, <2>2, <2>3, <2>4 DEF EndInv
<1> QED BY <1>3, <1>6, <1>7 DEF DecoderInv

\* What the prelude says was said of a frame that upstream wrote.
LEMMA ClaimedIs ==
    ASSUME DecoderInv, Len(buf) > 0
    PROVE  /\ buf[1].frame \in Len(events) + 1 .. Len(sent) /\ buf[1].frame \in 1 .. Len(sent)
           /\ Claimed = sent[buf[1].frame] /\ Claimed \in FrameRecord /\ Rest[1] = buf[1]
<1>1. 1 \in 1 .. Len(buf) /\ 1 \in 1 .. Len(Rest)
  BY StateIs
<1>2. Rest[1] = buf[1]
  BY <1>1, StateIs, ConcatIs DEF Rest
<1>3. buf[1].frame \in Len(events) + 1 .. Len(sent)
  BY <1>1, <1>2, StateIs DEF Places
<1>4. buf[1].frame \in 1 .. Len(sent)
  BY <1>3, StateIs
<1>5. Claimed = sent[buf[1].frame]
  BY DEF Claimed
<1>6. Claimed \in FrameRecord
  BY <1>4, <1>5, StateIs, DecoderAssumption
<1> QED BY <1>2, <1>3, <1>4, <1>5, <1>6

\* The Reader goes on, or stops, without touching the body.
LEMMA JudgeKeeps ==
    ASSUME DecoderInv, Refuse \/ NeedsMore \/ EndOfInput
    PROVE  DecoderInv'
<1>1. /\ sent' = sent /\ closed' = closed /\ wire' = wire /\ whole' = whole
      /\ damaged' = damaged /\ buf' = buf /\ eof' = eof /\ events' = events /\ pc = "next"
      /\ \/ pc' = "done" /\ outcome' \in {"end", "refused"} /\ (failed' = TRUE \/ failed' = failed)
         \/ pc' = "read" /\ Verdict = "incomplete" /\ outcome' = outcome /\ failed' = failed
  BY DEF Refuse, NeedsMore, EndOfInput, Stop, upstreamVars
<1>2. Rest' = Rest
  BY <1>1 DEF Rest
<1>3. BodyInv'
  BY <1>1, <1>2, BodyKept DEF DecoderInv
<1>4. ASSUME Verdict = "incomplete" PROVE Len(buf) < MaxMessage
  <2>1. /\ Prelude \in Nat /\ Trailer \in Nat /\ MaxMessage \in Nat /\ Prelude > 0
        /\ Prelude + Trailer <= MaxMessage
    BY DecoderAssumption DEF Overhead
  <2>2. CASE Len(buf) < Prelude
    BY <2>1, <2>2, StateIs
  <2>3. CASE Len(buf) >= Prelude
    <3>1. ~PreludeRefused /\ Len(buf) < Claimed.total
      BY <1>4, <2>1, <2>3, StateIs DEF Verdict
    <3>2. ~(Claimed.total > MaxMessage)
      BY <3>1 DEF PreludeRefused, LengthsRefused
    <3>3. Claimed.total \in Nat
      <4>1. Len(buf) > 0
        BY <2>1, <2>3, StateIs
      <4> QED BY <4>1, ClaimedIs DEF FrameRecord
    <3> QED BY <3>1, <3>2, <3>3, <2>1, StateIs
  <2> QED BY <2>1, <2>2, <2>3, StateIs
<1>5. TypeOK'
  <2>1. pc' = "read" => Len(buf') < MaxMessage
    BY <1>1, <1>4
  <2> QED BY <1>1, <2>1 DEF DecoderInv, TypeOK
<1>6. EndInv'
  <2>1. (eof => closed /\ wire = <<>>) /\ (failed => pc = "done") /\ (pc = "done" <=> outcome # "none")
    BY DEF DecoderInv, EndInv
  <2> QED BY <2>1, <1>1 DEF EndInv
<1> QED BY <1>3, <1>5, <1>6 DEF DecoderInv

-----------------------------------------------------------------------------
(* What the Decoder makes of the bytes in front of it.                      *)

\* What is accepted is one whole frame, the first of what is left.
LEMMA CompleteIs ==
    ASSUME DecoderInv, Verdict = "complete",
           NEW k, k = buf[1].frame, NEW e, e = sent[k].size
    PROVE  /\ k \in Len(events) + 1 .. Len(sent) /\ k \in 1 .. Len(sent)
           /\ Claimed = sent[k] /\ Claimed.total = e
           /\ e \in 0 .. Len(buf) /\ e \in 1 .. e /\ Stands(Rest, k, e, 0)
           /\ ParseEvent(Claimed) # "error" => Sound(sent[k])
<1>1. Len(buf) >= Prelude /\ ~PreludeRefused /\ ~(Len(buf) < Claimed.total) /\ ~FrameRefused
  <2>1. Prelude \in Nat
    BY DecoderAssumption
  <2> QED BY <2>1, StateIs DEF Verdict
<1>2. Len(buf) > 0
  BY <1>1, StateIs, DecoderAssumption
<1>3. /\ k \in Len(events) + 1 .. Len(sent) /\ k \in 1 .. Len(sent)
      /\ Claimed = sent[k] /\ Rest[1] = buf[1]
  BY <1>2, ClaimedIs
<1>4. e \in Nat /\ e > 2
  BY <1>3, StateIs, SizeIs
<1>5. Checksum(buf, Claimed.total) /\ Claimed.total = Claimed.size /\ HeadersParse(Claimed)
  BY <1>1 DEF FrameRefused
<1>6. Claimed.total = e /\ Checksum(buf, e)
  BY <1>3, <1>5
<1>7. e \in 0 .. Len(buf) /\ e \in 1 .. e
  BY <1>1, <1>4, <1>6, StateIs
<1>8. Stands(Rest, k, e, 0)
  <2>1. 0 + e <= Len(Rest)
    BY <1>7, StateIs
  <2>2. ASSUME NEW j \in 1 .. Len(Rest), 0 < j, j <= 0 + e
        PROVE  Rest[j].frame = k /\ Rest[j].at = j - 0 /\ Rest[j].sound
    <3>1. j \in 1 .. e /\ j \in 1 .. Len(buf)
      BY <2>2, <1>7, StateIs, SMTT(30)
    <3>2. Rest[j] = buf[j]
      BY <3>1, StateIs, ConcatIs DEF Rest
    <3>3. buf[j] = [frame |-> k, at |-> j, sound |-> TRUE]
      BY <3>1, <1>6 DEF Checksum
    <3> QED BY <3>2, <3>3
  <2> QED BY <2>1, <2>2 DEF Stands
<1>9. ParseEvent(Claimed) # "error" => Sound(sent[k])
  BY <1>1, <1>3, <1>5 DEF Sound, PreludeRefused
<1> QED BY <1>3, <1>6, <1>7, <1>8, <1>9

\* A frame that is accepted and makes an event is the next one that is whole.
LEMMA NextFrame ==
    ASSUME DecoderInv, pc = "next", Verdict = "complete", ParseEvent(Claimed) # "error"
    PROVE  buf[1].frame = Len(events) + 1 /\ Len(events) < whole
<1> DEFINE k == buf[1].frame
           e == sent[k].size
           d == Len(events)
<1>1. /\ k \in d + 1 .. Len(sent) /\ k \in 1 .. Len(sent) /\ e \in 1 .. e
      /\ Stands(Rest, k, e, 0) /\ Sound(sent[k])
  BY CompleteIs
<1>2. /\ d \in Nat /\ whole \in Nat /\ Len(sent) \in Nat /\ Len(Rest) \in Nat
      /\ e \in Nat /\ e > 2 /\ Sorted(Rest) /\ Rest \in Seq(Bytes)
  BY <1>1, StateIs, SizeIs
<1>3. Spoiler(Rest, sent, whole) /\ Intact(Rest, sent, d, whole)
  BY DEF DecoderInv, BodyInv, SpoiledInv, WholeInv
<1>4. k = buf[1].frame /\ e = sent[k].size
  OBVIOUS
<1> HIDE DEF k, e, d
<1>5. 1 \in 1 .. Len(Rest) /\ Rest[1].frame = k
  <2>1. 1 \in 1 .. Len(Rest) /\ 0 < 1 /\ 1 <= 0 + e
    BY <1>1, <1>2 DEF Stands
  <2> QED BY <2>1, <1>1 DEF Stands
<1>6. ASSUME NEW i \in 1 .. Len(Rest), Rest[i].frame < k PROVE FALSE
  <2>1. i < 1
    BY <1>2, <1>5, <1>6, SortedIs
  <2> QED BY <2>1
<1>7. ASSUME whole < k PROVE FALSE
  <2>1. whole < Len(sent) /\ (whole + 1 < k \/ whole + 1 = k)
    BY <1>1, <1>2, <1>7
  <2>2. PICK i \in 1 .. Len(Rest) : Rest[i].frame = whole + 1
    BY <2>1, <1>3 DEF Spoiler, Present
  <2>3. whole + 1 = k
    BY <2>1, <2>2, <1>6
  <2>4. Lacks(Rest, sent, k)
    BY <2>1, <2>3, <1>1, <1>3 DEF Spoiler
  <2>5. PICK b \in 1 .. e : \A j \in 1 .. Len(Rest) :
           ~(Rest[j].frame = k /\ Rest[j].at = b /\ Rest[j].sound)
    BY <2>4, <1>4 DEF Lacks
  <2>6. b \in 1 .. Len(Rest) /\ 0 < b /\ b <= 0 + e /\ b - 0 = b
    BY <1>1, <1>2 DEF Stands
  <2> QED BY <2>5, <2>6, <1>1 DEF Stands
<1>8. ASSUME d + 1 < k PROVE FALSE
  <2> DEFINE j == d + 1
             l == sent[j].size
  <2>1. j \in d + 1 .. whole /\ j \in 1 .. Len(sent)
    BY <1>1, <1>2, <1>7, <1>8
  <2>2. l \in Nat /\ l > 2
    BY <2>1, StateIs, SizeIs
  <2>3. PICK o \in 0 .. Len(Rest) : Stands(Rest, j, l, o)
    BY <2>1, <1>3 DEF Intact
  <2>4. j < k
    BY <1>8
  <2> HIDE DEF j, l
  <2>5. o + 1 \in 1 .. Len(Rest) /\ o < o + 1 /\ o + 1 <= o + l
    BY <2>2, <2>3, <1>2 DEF Stands
  <2>6. Rest[o + 1].frame = j
    BY <2>3, <2>5 DEF Stands
  <2> QED BY <2>4, <2>5, <2>6, <1>6
<1>9. k = d + 1 /\ d < whole
  BY <1>1, <1>2, <1>7, <1>8
<1> QED BY <1>9 DEF k, d

\* While a whole frame is left, its first byte is the next one.
LEMMA WholeFirst ==
    ASSUME DecoderInv, pc # "done", Len(events) < whole, NEW k, k = Len(events) + 1
    PROVE  /\ k \in 1 .. Len(sent) /\ Sound(sent[k])
           /\ Stands(Rest, k, sent[k].size, 0)
<1> DEFINE l == sent[k].size
<1>1. /\ k \in Len(events) + 1 .. whole /\ k \in 1 .. Len(sent) /\ k \in 1 .. whole
      /\ k \in Nat /\ Len(events) \in Nat /\ Len(Rest) \in Nat
  BY StateIs
<1>2. l \in Nat /\ l > 2 /\ Sound(sent[k])
  BY <1>1, StateIs, SizeIs
<1>3. PICK o \in 0 .. Len(Rest) : Stands(Rest, k, l, o)
  <2>1. Intact(Rest, sent, Len(events), whole)
    BY DEF DecoderInv, BodyInv, WholeInv
  <2> QED BY <2>1, <1>1 DEF Intact
<1> HIDE DEF l
<1>4. /\ o + 1 \in 1 .. Len(Rest) /\ 1 \in 1 .. Len(Rest)
      /\ o < o + 1 /\ o + 1 <= o + l /\ (o + 1) - o = 1
  BY <1>1, <1>2, <1>3 DEF Stands
<1>5. Rest[o + 1].frame = k /\ Rest[o + 1].at = 1
  BY <1>3, <1>4 DEF Stands
<1>6. Rest[1].frame \in k .. Len(sent) /\ Rest[1].at \in 1 .. sent[Rest[1].frame].size
  <2>1. Places(Rest, sent, Len(events))
    BY StateIs
  <2> QED BY <2>1, <1>4 DEF Places
<1>7. ASSUME o # 0 PROVE FALSE
  <2>1. 1 < o + 1
    BY <1>7
  <2>2. Before(Rest[1], Rest[o + 1])
    BY <2>1, <1>4, StateIs DEF Sorted
  <2>3. Rest[1].frame >= k /\ Rest[1].at >= 1 /\ Rest[1].frame \in Nat /\ Rest[1].at \in Nat
    <3>1. Rest[1] \in Bytes
      BY <1>4, StateIs
    <3> QED BY <3>1, <1>1, <1>6 DEF Bytes
  <2> QED BY <2>2, <2>3, <1>1, <1>5 DEF Before
<1> QED BY <1>1, <1>2, <1>3, <1>7 DEF l

\* A whole frame is not refused, and the Reader does not stop in front of it.
LEMMA WholeAccepted ==
    ASSUME DecoderInv, pc = "next", Len(events) < whole
    PROVE  /\ Verdict # "refused"
           /\ Verdict = "incomplete" => ~eof
           /\ Verdict = "complete" => ParseEvent(Claimed) # "error"
<1> DEFINE k == Len(events) + 1
           l == sent[k].size
<1>1. k \in 1 .. Len(sent) /\ Sound(sent[k]) /\ Stands(Rest, k, l, 0)
  BY WholeFirst
<1>2. l \in Nat /\ l > 2
  BY <1>1, StateIs, SizeIs
<1>3. /\ sent[k].total = l /\ ~LengthsRefused(sent[k]) /\ HeadersParse(sent[k])
      /\ ParseEvent(sent[k]) # "error"
  BY <1>1 DEF Sound
<1> HIDE DEF k, l
<1>4. Prelude \in Nat /\ Prelude > 0 /\ Prelude <= l
  <2>1. ~(l < Overhead)
    BY <1>3 DEF LengthsRefused
  <2> QED BY <2>1, <1>2, DecoderAssumption DEF Overhead
<1>5. ASSUME NEW j \in 1 .. l, j <= Len(buf)
      PROVE  buf[j] = [frame |-> k, at |-> j, sound |-> TRUE]
  <2>1. j \in 1 .. Len(buf) /\ j \in 1 .. Len(Rest) /\ 0 < j /\ j <= 0 + l /\ j - 0 = j
    BY <1>2, <1>5, StateIs
  <2>2. Rest[j] = buf[j] /\ buf[j] \in Bytes
    BY <2>1, StateIs, ConcatIs DEF Rest
  <2>3. Rest[j].frame = k /\ Rest[j].at = j /\ Rest[j].sound
    BY <2>1, <1>1 DEF Stands
  <2> QED BY <2>2, <2>3 DEF Bytes
<1>6. ASSUME Len(buf) > 0 PROVE Claimed = sent[k] /\ buf[1].frame = k
  <2>1. 1 \in 1 .. l /\ 1 <= Len(buf)
    BY <1>2, <1>6, StateIs
  <2>2. buf[1] = [frame |-> k, at |-> 1, sound |-> TRUE]
    BY <2>1, <1>5
  <2>3. buf[1].frame = k
    BY <2>2
  <2> QED BY <2>3 DEF Claimed
<1>7. ASSUME NEW n \in 1 .. l, n <= Len(buf), Len(buf) > 0 PROVE Checksum(buf, n)
  <2>1. \A j \in 1 .. n : j \in 1 .. l /\ j <= Len(buf)
    BY <1>2, <1>7, StateIs
  <2> QED BY <2>1, <1>5, <1>6, <1>7 DEF Checksum
<1>8. ASSUME Len(buf) >= Prelude PROVE ~PreludeRefused /\ Claimed = sent[k] /\ Len(buf) > 0
  <2>1. Len(buf) > 0 /\ Prelude \in 1 .. l /\ Prelude <= Len(buf)
    BY <1>2, <1>4, <1>8, StateIs
  <2> QED BY <2>1, <1>3, <1>6, <1>7 DEF PreludeRefused
<1>9. ASSUME Len(buf) >= l PROVE ~FrameRefused /\ Len(buf) >= Prelude
  <2>1. Len(buf) >= Prelude /\ l \in 1 .. l /\ l <= Len(buf)
    BY <1>2, <1>4, <1>9, StateIs
  <2>2. Claimed = sent[k] /\ Len(buf) > 0
    BY <2>1, <1>8
  <2>3. Checksum(buf, l) /\ Claimed.total = l /\ Claimed.size = l /\ HeadersParse(Claimed)
    BY <2>1, <2>2, <1>3, <1>7 DEF l
  <2> QED BY <2>1, <2>3 DEF FrameRefused
<1>10. ~failed
  BY DEF DecoderInv, EndInv
<1>11. Verdict # "refused"
  <2>1. CASE Len(buf) < Prelude
    BY <2>1, <1>10 DEF Verdict
  <2>2. CASE Len(buf) >= Prelude /\ Len(buf) < l
    BY <2>2, <1>3, <1>4, <1>8, <1>10, StateIs DEF Verdict
  <2>3. CASE Len(buf) >= l
    BY <2>3, <1>3, <1>8, <1>9, <1>10 DEF Verdict
  <2> QED BY <2>1, <2>2, <2>3, <1>2, <1>4, StateIs
<1>12. ASSUME eof PROVE Verdict # "incomplete"
  <2>1. Len(buf) >= l
    <3>1. Len(wire) = 0
      BY <1>12 DEF DecoderInv, EndInv
    <3>2. Len(Rest) = Len(buf) /\ 0 + l <= Len(Rest)
      BY <3>1, <1>1, StateIs DEF Stands
    <3> QED BY <3>2, <1>2, StateIs
  <2>2. ~(Len(buf) < l) /\ ~(Len(buf) < Prelude)
    BY <2>1, <1>2, <1>4, StateIs
  <2>3. ~PreludeRefused /\ ~FrameRefused /\ Claimed.total = l
    BY <2>1, <1>3, <1>8, <1>9
  <2> QED BY <2>2, <2>3, <1>10 DEF Verdict
<1>13. Verdict = "complete" => Len(buf) >= Prelude
  BY <1>4, <1>10, StateIs DEF Verdict
<1> QED BY <1>3, <1>8, <1>11, <1>12, <1>13

\* Decode takes the first frame out of the body.
LEMMA DecodeDecodes ==
    ASSUME DecoderInv, Decode, NEW k, k = buf[1].frame
    PROVE  buf' \in Seq(Bytes) /\ Len(buf') <= Len(buf)
           /\ Decodes(Rest, Rest', sent, Len(events), whole, k)
<1> DEFINE e == sent[k].size
<1>1. /\ Verdict = "complete" /\ wire' = wire
      /\ buf' = SubSeq(buf, Claimed.total + 1, Len(buf))
  BY DEF Decode, upstreamVars
<1>2. /\ k \in Len(events) + 1 .. Len(sent) /\ Claimed.total = e
      /\ e \in 0 .. Len(buf) /\ Stands(Rest, k, e, 0)
  BY <1>1, CompleteIs
<1> HIDE DEF e
<1>3. buf' = SubSeq(buf, e + 1, Len(buf))
  BY <1>1, <1>2
<1>4. buf' \in Seq(Bytes) /\ Follows(Rest, Rest', e)
  BY <1>1, <1>2, <1>3, StateIs, DecodeFollows DEF Rest
<1>5. Len(buf') <= Len(buf)
  BY <1>2, <1>3, StateIs, SubSeqIs
<1>6. Rest' \in Seq(Bytes)
  BY <1>1, <1>4, StateIs, ConcatIs DEF Rest
<1> QED BY <1>2, <1>4, <1>5, <1>6, StateIs DEF Decodes, e

\* What an event is, when there is one.
LEMMA ParseEventIs ==
    ASSUME NEW f, ParseEvent(f) # "error"
    PROVE  ParseEvent(f) \in Events
<1> DEFINE type == Header(f, ":event-type")
<1>1. CASE IsException(f)
  BY <1>1 DEF ParseEvent, Events
<1>2. CASE ~IsException(f) /\ type \in Typed
  <2>1. ParseEvent(f) = IF f.payload = "broken" THEN "error" ELSE type
    BY <1>2, TypesAssumption DEF ParseEvent
  <2> QED BY <2>1, <1>2 DEF Events
<1>3. CASE ~IsException(f) /\ type \notin Typed /\ type \in Ignored \cup {""}
  BY <1>3 DEF ParseEvent, Events
<1>4. CASE ~IsException(f) /\ type \notin Typed /\ type \notin Ignored \cup {""}
  BY <1>4 DEF ParseEvent, Events
<1> QED BY <1>1, <1>2, <1>3, <1>4

\* A frame is decoded.
LEMMA DecodeKeeps ==
    ASSUME DecoderInv, Decode
    PROVE  DecoderInv'
<1> DEFINE k == buf[1].frame
           d == Len(events)
<1>1. /\ sent' = sent /\ closed' = closed /\ wire' = wire /\ whole' = whole
      /\ damaged' = damaged /\ failed' = failed /\ eof' = eof /\ pc = "next"
      /\ Verdict = "complete"
      /\ \/ pc' = "done" /\ outcome' = "refused" /\ events' = events
         \/ /\ ParseEvent(Claimed) # "error" /\ pc' = pc /\ outcome' = outcome
            /\ events' = Append(events, ParseEvent(Claimed))
  BY DEF Decode, Stop, upstreamVars
<1>2. /\ buf' \in Seq(Bytes) /\ Len(buf') <= Len(buf)
      /\ Decodes(Rest, Rest', sent, d, whole, k)
  BY DecodeDecodes
<1>3. /\ Places(Rest', sent, d) /\ Places(Rest', sent, k) /\ Sorted(Rest')
      /\ Intact(Rest, sent, d, whole) => Intact(Rest', sent, k, whole)
      /\ k <= whole /\ Spoiler(Rest, sent, whole) => Spoiler(Rest', sent, whole)
      /\ Gapless(Rest, sent) => Gapless(Rest', sent)
      /\ EndsFrame(Rest, sent) => EndsFrame(Rest', sent)
  <2> DEFINE q == Rest
             r == Rest'
  <2>1. Decodes(q, r, sent, d, whole, k)
    BY <1>2
  <2> HIDE DEF q, r, d, k
  <2>2. /\ Places(r, sent, d) /\ Places(r, sent, k) /\ Sorted(r)
        /\ Intact(q, sent, d, whole) => Intact(r, sent, k, whole)
        /\ k <= whole /\ Spoiler(q, sent, whole) => Spoiler(r, sent, whole)
        /\ Gapless(q, sent) => Gapless(r, sent)
        /\ EndsFrame(q, sent) => EndsFrame(r, sent)
    BY <2>1, Decoded
  <2> QED BY <2>2 DEF q, r
<1>4. ASSUME pc' # "done"
      PROVE  /\ ParseEvent(Claimed) \in Events /\ k = d + 1 /\ d < whole
             /\ events' = Append(events, ParseEvent(Claimed))
  BY <1>1, <1>4, NextFrame, ParseEventIs
<1>5. events \in Seq(Events) /\ d \in Nat /\ whole \in Nat /\ d <= whole
  BY StateIs DEF DecoderInv, TypeOK
<1>6. /\ events' \in Seq(Events) /\ Len(events') <= whole
      /\ pc' # "done" => Len(events') = k /\ k <= whole
      /\ pc' = "done" => events' = events
  <2>1. CASE pc' = "done"
    BY <2>1, <1>1, <1>5
  <2>2. CASE pc' # "done"
    <3>1. events' \in Seq(Events) /\ Len(events') = d + 1
      BY <2>2, <1>4, <1>5
    <3> QED BY <3>1, <2>2, <1>4, <1>5
  <2> QED BY <2>1, <2>2
<1>7. TypeOK'
  <2>1. Len(buf') <= MaxMessage + Chunk
    BY <1>2, StateIs, DecoderAssumption DEF DecoderInv, TypeOK
  <2> QED BY <1>1, <1>2, <1>6, <2>1 DEF DecoderInv, TypeOK
<1>8. EndInv'
  BY <1>1 DEF DecoderInv, EndInv
<1>9. PlacesInv' /\ SortedInv'
  <2>1. Places(Rest', sent, Len(events'))
    BY <1>3, <1>6
  <2> QED BY <2>1, <1>1, <1>3 DEF PlacesInv, SortedInv
<1>10. WholeInv'
  <2>1. \A j \in 1 .. whole : Sound(sent[j])
    BY StateIs
  <2>2. pc' # "done" => Intact(Rest', sent, Len(events'), whole)
    BY <1>1, <1>3, <1>6 DEF DecoderInv, BodyInv, WholeInv
  <2> QED BY <2>1, <2>2, <1>1, <1>6 DEF WholeInv
<1>11. SpoiledInv' /\ GaplessInv' /\ EndsFrameInv'
  BY <1>1, <1>3, <1>6 DEF DecoderInv, BodyInv, SpoiledInv, GaplessInv, EndsFrameInv
<1> QED BY <1>7, <1>8, <1>9, <1>10, <1>11 DEF DecoderInv, BodyInv

-----------------------------------------------------------------------------
(* The specification.                                                       *)

\* Every step keeps the invariant.
LEMMA StepKeeps == DecoderInv /\ [Next]_vars => DecoderInv'
<1> SUFFICES ASSUME DecoderInv, [Next]_vars
             PROVE  DecoderInv'
  OBVIOUS
<1>1. ASSUME NEW f \in Frames, Send(f) PROVE DecoderInv'
  BY <1>1, SendKeeps
<1>2. CASE CloseBody
  BY <1>2, CloseBodyKeeps
<1>3. ASSUME NEW n \in 0 .. Len(wire), Cut(n) PROVE DecoderInv'
  BY <1>3, CutKeeps
<1>4. ASSUME NEW i \in 1 .. Len(wire), Damage(i) PROVE DecoderInv'
  BY <1>4, DamageKeeps
<1>5. CASE Decode
  BY <1>5, DecodeKeeps
<1>6. CASE Refuse \/ NeedsMore \/ EndOfInput
  BY <1>6, JudgeKeeps
<1>7. ASSUME NEW n \in 0 .. Len(wire), n <= Chunk, Read(n) \/ ReadFails(n)
      PROVE  DecoderInv'
  BY <1>7, ReadKeeps
<1>8. CASE UNCHANGED vars
  <2>1. /\ sent' = sent /\ closed' = closed /\ wire' = wire /\ whole' = whole
        /\ damaged' = damaged /\ buf' = buf /\ failed' = failed /\ eof' = eof /\ pc' = pc
        /\ events' = events /\ outcome' = outcome
    BY <1>8 DEF vars, upstreamVars, readerVars
  <2>2. Rest' = Rest
    BY <2>1 DEF Rest
  <2>3. BodyInv'
    BY <2>1, <2>2, BodyKept DEF DecoderInv
  <2>4. TypeOK' /\ EndInv'
    BY <2>1 DEF DecoderInv, TypeOK, EndInv
  <2> QED BY <2>3, <2>4 DEF DecoderInv
<1> QED BY <1>1, <1>2, <1>3, <1>4, <1>5, <1>6, <1>7, <1>8 DEF Next, Upstream, Reader

\* What kirogo holds of a body is of the right type, and never more than the
\* largest frame and one read.
THEOREM TypeCorrect == Spec => []TypeOK
<1>1. DecoderInv => TypeOK
  BY DEF DecoderInv
<1> QED BY <1>1, InitInv, StepKeeps, PTL DEF Spec

-----------------------------------------------------------------------------
(* The channel.                                                             *)

\* The events that the first w of the frames s make.
EventsOf(s, w) == [j \in 1 .. w |-> ParseEvent(s[j])]

\* They are events, one of each frame.
LEMMA EventsOfIs ==
    ASSUME NEW s, NEW w \in Nat, \A j \in 1 .. w : Sound(s[j])
    PROVE  /\ EventsOf(s, w) \in Seq(Events) /\ Len(EventsOf(s, w)) = w
           /\ \A j \in 1 .. w : EventsOf(s, w)[j] = ParseEvent(s[j])
<1>1. \A j \in 1 .. w : ParseEvent(s[j]) \in Events
  BY ParseEventIs DEF Sound
<1>2. EventsOf(s, w) \in [1 .. w -> Events]
  BY <1>1 DEF EventsOf
<1>3. EventsOf(s, w) \in Seq(Events) /\ Len(EventsOf(s, w)) = w
  BY <1>2, LenIs
<1> QED BY <1>3 DEF EventsOf

\* Fewer of them are their beginning.
LEMMA EventsOfFewer ==
    ASSUME NEW s, NEW z, NEW w \in Nat, NEW v \in 0 .. w, \A j \in 1 .. w : Sound(s[j]),
           \A j \in 1 .. v : z[j] = s[j]
    PROVE  EventsOf(z, v) = SubSeq(EventsOf(s, w), 1, v)
<1> DEFINE a == EventsOf(s, w)
           b == EventsOf(z, v)
           c == SubSeq(a, 1, v)
<1>1. /\ v \in Nat /\ 1 .. v \subseteq 1 .. w /\ \A j \in 1 .. v : Sound(z[j])
  OBVIOUS
<1>2. a \in Seq(Events) /\ Len(a) = w /\ \A j \in 1 .. w : a[j] = ParseEvent(s[j])
  BY EventsOfIs
<1>3. b \in Seq(Events) /\ Len(b) = v /\ \A j \in 1 .. v : b[j] = ParseEvent(z[j])
  BY <1>1, EventsOfIs
<1> HIDE DEF a, b
<1>4. c \in Seq(Events) /\ Len(c) = v /\ \A j \in 1 .. v : c[j] = a[j]
  BY <1>2, SubSeqIs
<1> HIDE DEF c
<1>5. \A j \in 1 .. Len(b) : b[j] = c[j]
  BY <1>1, <1>2, <1>3, <1>4
<1>6. b = c
  BY <1>3, <1>4, <1>5, SameSeq
<1> QED BY <1>6 DEF a, b, c

\* One more of them comes behind them.
LEMMA EventsOfMore ==
    ASSUME NEW s, NEW z, NEW w \in Nat, \A j \in 1 .. w : Sound(s[j]),
           \A j \in 1 .. w : z[j] = s[j], Sound(z[w + 1])
    PROVE  /\ ParseEvent(z[w + 1]) \in Events
           /\ EventsOf(z, w + 1) = Append(EventsOf(s, w), ParseEvent(z[w + 1]))
<1> DEFINE a == EventsOf(s, w)
           b == EventsOf(z, w + 1)
           event == ParseEvent(z[w + 1])
           c == Append(a, event)
<1>1. event \in Events
  BY ParseEventIs DEF Sound
<1>2. w + 1 \in Nat /\ \A j \in 1 .. w + 1 : j \in 1 .. w \/ j = w + 1
  OBVIOUS
<1>3. a \in Seq(Events) /\ Len(a) = w /\ \A j \in 1 .. w : a[j] = ParseEvent(s[j])
  BY EventsOfIs
<1>4. \A j \in 1 .. w + 1 : Sound(z[j])
  BY <1>2
<1>5. b \in Seq(Events) /\ Len(b) = w + 1 /\ \A j \in 1 .. w + 1 : b[j] = ParseEvent(z[j])
  BY <1>2, <1>4, EventsOfIs
<1> HIDE DEF a, b
<1>6. c \in Seq(Events) /\ Len(c) = w + 1 /\ c[w + 1] = event /\ \A j \in 1 .. w : c[j] = a[j]
  BY <1>1, <1>3
<1> HIDE DEF c
<1>7. \A j \in 1 .. Len(b) : b[j] = c[j]
  BY <1>2, <1>3, <1>5, <1>6
<1>8. b = c
  BY <1>5, <1>6, <1>7, SameSeq
<1> QED BY <1>1, <1>8 DEF a, b, c

\* The events that came out are those of the first frames.
EventsInv == events = EventsOf(sent, Len(events))
ChannelInv == DecoderInv /\ EventsInv

\* What the channel takes for written.
Written == EventsOf(sent, whole)

\* What upstream writes and the wire spoils leaves alone what came out.
LEMMA EventsStay ==
    ASSUME EventsInv, Len(events) \in Nat, events' = events,
           \A j \in 1 .. Len(events) : sent'[j] = sent[j]
    PROVE  EventsInv'
<1>1. EventsOf(sent', Len(events)) = EventsOf(sent, Len(events))
  BY DEF EventsOf
<1> QED BY <1>1 DEF EventsInv

\* Upstream writes a frame: a sound one behind sound ones is written to the
\* channel, one that is not sound spoils it, and what follows such a one is nothing.
LEMMA SendStep ==
    ASSUME ChannelInv, NEW f \in Frames, Send(f)
    PROVE  EventsInv' /\ [Channel!Next]_(Channel!vars)
<1>1. /\ sent' = Append(sent, f) /\ events' = events /\ pc' = pc /\ outcome' = outcome
      /\ whole' = IF whole = Len(sent) /\ Sound(f) THEN whole + 1 ELSE whole
  BY DEF Send, readerVars
<1>2. /\ whole \in Nat /\ Len(sent) \in Nat /\ whole <= Len(sent) /\ sent \in Seq(Frames)
      /\ Len(sent') = Len(sent) + 1 /\ sent'[Len(sent) + 1] = f
      /\ \A j \in 1 .. Len(sent) : sent'[j] = sent[j]
      /\ \A j \in 1 .. whole : Sound(sent[j])
      /\ Len(events) \in Nat /\ Len(events) <= whole
  BY <1>1, StateIs DEF ChannelInv
<1>3. /\ \A j \in 1 .. whole : sent'[j] = sent[j]
      /\ \A j \in 1 .. Len(events) : sent'[j] = sent[j]
  BY <1>2
<1>4. EventsInv'
  BY <1>1, <1>2, <1>3, EventsStay DEF ChannelInv
<1>5. CASE whole = Len(sent) /\ Sound(f)
  <2>1. /\ whole' = whole + 1 /\ ~(whole < Len(sent)) /\ ~(whole' < Len(sent'))
        /\ Sound(sent'[whole + 1])
    BY <1>1, <1>2, <1>5
  <2>2. \E event \in Events : Written' = Append(Written, event)
    BY <1>2, <1>3, <2>1, EventsOfMore DEF Written
  <2>3. Channel!Write
    BY <1>1, <2>1, <2>2 DEF Channel!Write, Written, EventsOf
  <2> QED BY <1>4, <2>3 DEF Channel!Next
<1>6. CASE whole = Len(sent) /\ ~Sound(f)
  <2>1. whole' = whole /\ whole' < Len(sent') /\ whole \in 0 .. whole
    BY <1>1, <1>2, <1>6
  <2>2. Written' = SubSeq(Written, 1, whole)
    BY <1>2, <1>3, <2>1, EventsOfFewer DEF Written
  <2>3. Len(Written) = whole /\ whole \in Len(events) .. Len(Written)
    BY <1>2, EventsOfIs DEF Written
  <2>4. Channel!Spoil
    BY <1>1, <2>1, <2>2, <2>3 DEF Channel!Spoil, Written, EventsOf
  <2> QED BY <1>4, <2>4 DEF Channel!Next
<1>7. CASE whole < Len(sent)
  <2>1. whole' = whole /\ whole' < Len(sent')
    BY <1>1, <1>2, <1>7
  <2>2. Written' = Written
    BY <1>3, <2>1 DEF Written, EventsOf
  <2>3. UNCHANGED Channel!vars
    BY <1>1, <1>7, <2>1, <2>2 DEF Channel!vars, Written, EventsOf
  <2> QED BY <1>4, <2>3
<1> QED BY <1>2, <1>5, <1>6, <1>7

\* The wire damages a byte, or ends: the channel loses what is not whole any more.
LEMMA SpoilStep ==
    ASSUME ChannelInv, \/ \E n \in 0 .. Len(wire) : Cut(n)
                       \/ \E i \in 1 .. Len(wire) : Damage(i)
    PROVE  EventsInv' /\ Channel!Spoil
<1>1. events' = events /\ pc' = pc /\ outcome' = outcome
  BY DEF Cut, Damage, readerVars
<1>2. /\ DecoderInv' /\ Len(events) <= whole' /\ whole' <= whole
      /\ \A j \in 1 .. whole' : sent'[j] = sent[j]
  BY CutKeeps, DamageKeeps DEF ChannelInv
<1>3. /\ whole \in Nat /\ whole' \in Nat /\ Len(events) \in Nat
      /\ \A j \in 1 .. whole : Sound(sent[j])
  <2>1. whole \in Nat /\ Len(events) \in Nat /\ \A j \in 1 .. whole : Sound(sent[j])
    BY StateIs DEF ChannelInv
  <2>2. whole' \in 0 .. Len(sent') /\ Len(sent') \in Nat
    BY <1>2 DEF DecoderInv, TypeOK
  <2> QED BY <2>1, <2>2
<1>4. whole' \in 0 .. whole /\ \A j \in 1 .. Len(events) : j \in 1 .. whole'
  BY <1>2, <1>3
<1>5. EventsInv'
  BY <1>1, <1>2, <1>3, <1>4, EventsStay DEF ChannelInv
<1>6. Written' = SubSeq(Written, 1, whole')
  BY <1>2, <1>3, <1>4, EventsOfFewer DEF Written
<1>7. whole' \in Len(events) .. Len(Written)
  <2>1. Len(Written) = whole
    BY <1>3, EventsOfIs DEF Written
  <2> QED BY <2>1, <1>2, <1>3
<1>8. (whole' < Len(sent')) \in BOOLEAN
  OBVIOUS
<1>9. Channel!Spoil
  BY <1>1, <1>6, <1>7, <1>8 DEF Channel!Spoil, Written, EventsOf
<1> QED BY <1>5, <1>9

\* Where no whole frame is left, something that is not whole is, or nothing.
LEMMA NothingWhole ==
    ASSUME ChannelInv, pc = "next", ~(Len(events) < whole)
    PROVE  /\ events = Written
           /\ whole < Len(sent) <=> Rest # <<>>
           /\ Rest = <<>> => Verdict = "incomplete"
<1>1. /\ Len(events) = whole /\ whole \in Nat /\ whole <= Len(sent) /\ Len(sent) \in Nat
      /\ Rest \in Seq(Bytes) /\ Places(Rest, sent, Len(events))
  BY StateIs DEF ChannelInv
<1>2. events = Written
  BY <1>1 DEF ChannelInv, EventsInv, Written
<1>3. ASSUME whole < Len(sent) PROVE Rest # <<>>
  <2>1. PICK i \in 1 .. Len(Rest) : Rest[i].frame = whole + 1
    BY <1>3 DEF ChannelInv, DecoderInv, BodyInv, SpoiledInv, Spoiler, Present
  <2> QED BY <2>1
<1>4. ASSUME Rest # <<>> PROVE whole < Len(sent)
  <2>1. 1 \in 1 .. Len(Rest)
    BY <1>1, <1>4
  <2>2. Rest[1].frame \in Len(events) + 1 .. Len(sent)
    BY <1>1, <2>1 DEF Places
  <2> QED BY <1>1, <2>2
<1>5. ASSUME Rest = <<>> PROVE Verdict = "incomplete"
  <2>1. Len(buf) < Prelude
    <3>1. Len(Rest) = 0
      BY <1>5
    <3> QED BY <3>1, StateIs, DecoderAssumption DEF ChannelInv
  <2>2. ~failed
    BY DEF ChannelInv, DecoderInv, EndInv
  <2> QED BY <2>1, <2>2 DEF Verdict
<1> QED BY <1>2, <1>3, <1>4, <1>5

\* A frame is decoded: its event is the next one of the channel, or the channel
\* ends behind all of its events.
LEMMA DecodeStep ==
    ASSUME ChannelInv, Decode
    PROVE  EventsInv' /\ Channel!Next
<1> DEFINE d == Len(events)
           event == ParseEvent(Claimed)
<1>1. /\ sent' = sent /\ whole' = whole /\ pc = "next" /\ Verdict = "complete"
      /\ \/ event = "error" /\ pc' = "done" /\ outcome' = "refused" /\ events' = events
         \/ event # "error" /\ pc' = pc /\ outcome' = outcome /\ events' = Append(events, event)
  BY DEF Decode, Stop, upstreamVars
<1>2. /\ d \in Nat /\ whole \in Nat /\ d <= whole /\ \A j \in 1 .. whole : Sound(sent[j])
  BY StateIs DEF ChannelInv
<1>3. Written' = Written
  BY <1>1 DEF Written, EventsOf
<1>4. CASE event = "error"
  <2>1. ~(d < whole)
    BY <1>1, <1>4, WholeAccepted DEF ChannelInv
  <2>2. events = Written /\ whole < Len(sent)
    BY <2>1, <1>1, NothingWhole
  <2>3. EventsInv'
    BY <1>1, <1>2, <1>4, EventsStay DEF ChannelInv
  <2>4. Channel!Finish
    BY <1>1, <1>3, <1>4, <2>2 DEF Channel!Finish, Written, EventsOf
  <2> QED BY <2>3, <2>4 DEF Channel!Next
<1>5. CASE event # "error"
  <2>1. buf[1].frame = d + 1 /\ d < whole
    BY <1>1, <1>5, NextFrame DEF ChannelInv
  <2>2. event = ParseEvent(sent[d + 1]) /\ d + 1 \in 1 .. whole
    BY <1>2, <2>1 DEF Claimed
  <2>3. events' = Append(events, event) /\ Len(events') = d + 1
    BY <1>1, <1>5 DEF ChannelInv, DecoderInv, TypeOK
  <2>4. EventsOf(sent, d + 1) = Append(EventsOf(sent, d), event)
    <3>1. \A j \in 1 .. d : Sound(sent[j])
      BY <1>2
    <3>2. Sound(sent[d + 1])
      BY <1>2, <2>2
    <3> QED BY <3>1, <3>2, <1>2, <2>2, EventsOfMore
  <2>5. EventsInv'
    BY <1>1, <2>3, <2>4 DEF ChannelInv, EventsInv
  <2>6. d < Len(Written) /\ event = Written[d + 1]
    BY <1>2, <2>1, <2>2, EventsOfIs DEF Written
  <2>7. Channel!Deliver
    BY <1>1, <1>3, <1>5, <2>3, <2>6 DEF Channel!Deliver, Written, EventsOf
  <2> QED BY <2>5, <2>7 DEF Channel!Next
<1> QED BY <1>4, <1>5

\* The Reader stops: the channel ends, and only cleanly where nothing is left.
LEMMA StopStep ==
    ASSUME ChannelInv, Refuse \/ EndOfInput
    PROVE  EventsInv' /\ Channel!Next
<1>1. /\ sent' = sent /\ whole' = whole /\ events' = events /\ pc = "next" /\ pc' = "done"
      /\ \/ Verdict = "refused" /\ outcome' = "refused"
         \/ /\ Verdict = "incomplete" /\ eof
            /\ outcome' = IF buf = <<>> THEN "end" ELSE "refused"
  BY DEF Refuse, EndOfInput, Stop, upstreamVars
<1>2. Written' = Written
  BY <1>1 DEF Written, EventsOf
<1>3. EventsInv'
  BY <1>1, StateIs, EventsStay DEF ChannelInv
<1>4. ~(Len(events) < whole)
  BY <1>1, WholeAccepted DEF ChannelInv
<1>5. /\ events = Written
      /\ whole < Len(sent) <=> Rest # <<>>
      /\ Rest = <<>> => Verdict = "incomplete"
  BY <1>1, <1>4, NothingWhole
<1>6. eof => (Rest = <<>> <=> buf = <<>>)
  <2>1. eof => wire = <<>>
    BY DEF ChannelInv, DecoderInv, EndInv
  <2>2. buf \in Seq(Bytes)
    BY StateIs DEF ChannelInv
  <2> QED BY <2>1, <2>2 DEF Rest
<1>7. outcome' = IF whole < Len(sent) THEN "refused" ELSE "end"
  BY <1>1, <1>5, <1>6
<1>8. Channel!Finish
  BY <1>1, <1>2, <1>5, <1>7 DEF Channel!Finish, Written, EventsOf
<1> QED BY <1>3, <1>8 DEF Channel!Next

\* The rest of the steps move bytes, or fail.
LEMMA MoveStep ==
    ASSUME ChannelInv, \/ CloseBody \/ NeedsMore \/ UNCHANGED vars
                       \/ \E n \in 0 .. Len(wire) : Read(n) \/ ReadFails(n)
    PROVE  EventsInv' /\ [Channel!Next]_(Channel!vars)
<1>1. /\ sent' = sent /\ whole' = whole /\ events' = events
      /\ \/ pc' = "done" /\ pc = "read" /\ outcome' = "failed"
         \/ pc' # "done" /\ pc # "done"
         \/ pc' = pc /\ outcome' = outcome
  BY DEF CloseBody, NeedsMore, vars, upstreamVars, readerVars, Read, ReadFails, Take, Stop
<1>2. Written' = Written
  BY <1>1 DEF Written, EventsOf
<1>3. EventsInv'
  BY <1>1, StateIs, EventsStay DEF ChannelInv
<1>4. CASE pc' = "done" /\ pc = "read" /\ outcome' = "failed"
  <2>1. Channel!Fail
    BY <1>1, <1>2, <1>4 DEF Channel!Fail, Written, EventsOf
  <2> QED BY <1>3, <2>1 DEF Channel!Next
<1>5. CASE (pc' # "done" /\ pc # "done") \/ (pc' = pc /\ outcome' = outcome)
  <2>1. UNCHANGED Channel!vars
    BY <1>1, <1>2, <1>5 DEF Channel!vars, Written, EventsOf
  <2> QED BY <1>3, <2>1
<1> QED BY <1>1, <1>4, <1>5

\* A session may take the Reader for a channel: whatever the wire does to a body
\* and wherever it cuts it, the events come out in order, none is made up, and no
\* end is clean that leaves something behind.
THEOREM ReaderIsAChannel == Spec => ImplementsChannel
<1>1. Init => ChannelInv /\ Channel!Init
  <2> SUFFICES ASSUME Init PROVE ChannelInv /\ Channel!Init
    OBVIOUS
  <2>1. sent = <<>> /\ events = <<>> /\ whole = 0 /\ pc = "next"
    BY DEF Init
  <2>2. EventsOf(sent, 0) = <<>> /\ Len(events) = 0 /\ Len(sent) = 0
    BY <2>1 DEF EventsOf
  <2>3. ChannelInv
    BY <2>1, <2>2, InitInv DEF ChannelInv, EventsInv
  <2>4. Channel!Init
    BY <2>1, <2>2 DEF Channel!Init, EventsOf
  <2> QED BY <2>3, <2>4
<1>2. ChannelInv /\ [Next]_vars => ChannelInv' /\ [Channel!Next]_(Channel!vars)
  <2> SUFFICES ASSUME ChannelInv, [Next]_vars
               PROVE  EventsInv' /\ [Channel!Next]_(Channel!vars)
    BY StepKeeps DEF ChannelInv
  <2>1. ASSUME NEW f \in Frames, Send(f)
        PROVE  EventsInv' /\ [Channel!Next]_(Channel!vars)
    BY <2>1, SendStep
  <2>2. CASE \/ \E n \in 0 .. Len(wire) : Cut(n)
             \/ \E i \in 1 .. Len(wire) : Damage(i)
    BY <2>2, SpoilStep DEF Channel!Next
  <2>3. CASE Decode
    BY <2>3, DecodeStep
  <2>4. CASE Refuse \/ EndOfInput
    BY <2>4, StopStep
  <2>5. CASE \/ CloseBody \/ NeedsMore \/ UNCHANGED vars
             \/ \E n \in 0 .. Len(wire) : Read(n) \/ ReadFails(n)
    BY <2>5, MoveStep
  <2> QED BY <2>1, <2>2, <2>3, <2>4, <2>5 DEF Next, Upstream, Reader
<1> QED BY <1>1, <1>2, PTL DEF Spec, ImplementsChannel, Channel!Spec
=============================================================================
