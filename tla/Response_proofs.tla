-------------------------- MODULE Response_proofs --------------------------
(***************************************************************************)
(* Response for any events, any number of them and any ceilings: what the  *)
(* client is told is well formed, complete and within its max_tokens.      *)
(***************************************************************************)
EXTENDS Response, SequenceTheorems, FiniteSetTheorems, TLAPS

-----------------------------------------------------------------------------
(* Induction and recursion. The library states induction for an operator,   *)
(* which the provers cannot instantiate; a least counterexample does the    *)
(* same with a set.                                                         *)

\* A set of natural numbers has a least element.
LEMMA LeastOf ==
  ASSUME NEW S, S \subseteq Nat, S # {}
  PROVE  \E n \in S : \A m \in S : n <= m
<1>1. IsWellFoundedOn(OpToRel(<, Nat), Nat)
  BY NatLessThanWellFounded
<1>2. PICK n \in S : \A m \in S : ~ (<<m, n>> \in OpToRel(<, Nat))
  BY <1>1, WFMin
<1>3. \A m \in S : ~ (m < n)
  BY <1>2 DEF OpToRel
<1> QED
  BY <1>3

\* A bounded one has a greatest element, and Max is it.
LEMMA GreatestOf ==
  ASSUME NEW S, S \subseteq Nat, S # {}, NEW b \in Nat, \A m \in S : m <= b
  PROVE  Max(S) \in S /\ \A m \in S : m <= Max(S)
<1> DEFINE room == {b - m : m \in S}
<1>1. room \subseteq Nat /\ room # {}
  <2>1. \A m \in S : b - m \in Nat
    OBVIOUS
  <2>2. PICK m \in S : TRUE
    OBVIOUS
  <2>3. b - m \in room
    OBVIOUS
  <2> QED
    BY <2>1, <2>3
<1>2. PICK r \in room : \A s \in room : r <= s
  BY <1>1, LeastOf
<1>3. PICK n \in S : r = b - n
  OBVIOUS
<1>4. ASSUME NEW m \in S PROVE n >= m
  <2>1. b - m \in room
    OBVIOUS
  <2>2. b - n <= b - m
    BY <2>1, <1>2, <1>3
  <2> QED
    BY <2>2
<1>5. \A m \in S : n >= m
  BY <1>4
<1>6. Max(S) \in S /\ \A m \in S : Max(S) >= m
  BY <1>5 DEF Max
<1> QED
  BY <1>6

\* f begins with b and takes N steps, the nth of them step[n].
Follows(f, S, N, step, b) ==
    /\ f \in [0 .. N -> S]
    /\ f[0] = b
    /\ \A n \in 1 .. N : f[n] = step[n][f[n - 1]]

\* A function that follows given steps exists, however many there are.
LEMMA RecursionExists ==
  ASSUME NEW S, NEW N \in Nat, NEW step \in [1 .. N -> [S -> S]], NEW b \in S
  PROVE  \E f : Follows(f, S, N, step, b)
<1> DEFINE bad == {k \in 0 .. N : ~\E f : Follows(f, S, k, step, b)}
<1>1. SUFFICES ASSUME bad # {} PROVE FALSE
  <2>1. N \in 0 .. N
    OBVIOUS
  <2> QED
    BY <2>1
<1>2. PICK k \in bad : \A m \in bad : k <= m
  <2>1. bad \subseteq Nat
    OBVIOUS
  <2> HIDE DEF bad
  <2> QED
    BY <2>1, <1>1, LeastOf
<1>3. k \in 0 .. N
  OBVIOUS
<1>4. k # 0
  <2>1. Follows([n \in 0 .. 0 |-> b], S, 0, step, b)
    BY DEF Follows
  <2> QED
    BY <2>1
<1>5. k - 1 \in 0 .. N /\ k - 1 \notin bad
  <2>1. k - 1 \in 0 .. N
    BY <1>3, <1>4
  <2>2. k - 1 \in bad => k <= k - 1
    BY <1>2
  <2> QED
    BY <2>1, <2>2
<1>6. PICK f : Follows(f, S, k - 1, step, b)
  BY <1>5
<1> DEFINE g == [n \in 0 .. k |-> IF n = k THEN step[k][f[k - 1]] ELSE f[n]]
<1>7. g \in [0 .. k -> S]
  BY <1>3, <1>4, <1>6 DEF Follows
<1>8. g[0] = b
  BY <1>3, <1>4, <1>6 DEF Follows
<1>9. ASSUME NEW n \in 1 .. k PROVE g[n] = step[n][g[n - 1]]
  BY <1>3, <1>4, <1>6 DEF Follows
<1>10. Follows(g, S, k, step, b)
  BY <1>7, <1>8, <1>9 DEF Follows
<1> QED
  BY <1>10

\* Two recursions that take the same steps agree as far as both go.
InStep(f, g, N) ==
    /\ f[0] = g[0]
    /\ \A n \in 1 .. N : f[n - 1] = g[n - 1] => f[n] = g[n]

\* Two functions that keep in step are the same.
LEMMA RecursionUnique ==
  ASSUME NEW N \in Nat, NEW f, NEW g, InStep(f, g, N)
  PROVE  \A n \in 0 .. N : f[n] = g[n]
<1> DEFINE bad == {n \in 0 .. N : f[n] # g[n]}
<1>1. SUFFICES ASSUME bad # {} PROVE FALSE
  OBVIOUS
<1>2. PICK k \in bad : \A m \in bad : k <= m
  <2>1. bad \subseteq Nat
    OBVIOUS
  <2> HIDE DEF bad
  <2> QED
    BY <2>1, <1>1, LeastOf
<1>3. k \in 1 .. N
  BY DEF InStep
<1>4. k - 1 \in 0 .. N /\ k - 1 \notin bad
  <2>1. k - 1 \in bad => k <= k - 1
    BY <1>2
  <2> QED
    BY <2>1, <1>3
<1> QED
  BY <1>3, <1>4 DEF InStep

-----------------------------------------------------------------------------
(* Sequences put one after the other.                                       *)

\* Nothing, put together, is nothing.
LEMMA FlattenEmpty == FlattenSeq(<<>>) = <<>>
BY DEF FlattenSeq

\* The beginnings of what FlattenSeq computes.
Flattens(f, ss, S) ==
    /\ f \in [1 .. Len(ss) -> Seq(S)]
    /\ \A i \in 1 .. Len(ss) : f[i] = IF i = 1 THEN ss[i] ELSE f[i - 1] \o ss[i]

\* FlattenSeq is the last of its own beginnings.
LEMMA FlattenDef ==
  ASSUME NEW S, NEW ss \in Seq(Seq(S)), ss # <<>>
  PROVE  \E f : Flattens(f, ss, S) /\ FlattenSeq(ss) = f[Len(ss)]
<1> DEFINE N == Len(ss)
           Def(f) == [i \in 1 .. N |-> IF i = 1 THEN ss[i] ELSE f[i - 1] \o ss[i]]
           step == [n \in 1 .. N |-> [s \in Seq(S) |-> s \o ss[n]]]
           rec == CHOOSE f : f = Def(f)
<1>1. N \in Nat \ {0} /\ \A n \in 1 .. N : ss[n] \in Seq(S)
  OBVIOUS
<1>2. step \in [1 .. N -> [Seq(S) -> Seq(S)]]
  OBVIOUS
<1>3. PICK h : Follows(h, Seq(S), N, step, <<>>)
  <2> HIDE DEF step, N
  <2>1. <<>> \in Seq(S)
    OBVIOUS
  <2> QED
    BY <1>1, <1>2, <2>1, RecursionExists
<1> DEFINE f == [i \in 1 .. N |-> h[i]]
<1> HIDE DEF N
<1>4. ASSUME NEW i \in 1 .. N
      PROVE  f[i] \in Seq(S) /\ f[i] = IF i = 1 THEN ss[i] ELSE f[i - 1] \o ss[i]
  <2>1. i \in 0 .. N /\ i - 1 \in 0 .. N
    BY <1>1
  <2>2. h[i] = h[i - 1] \o ss[i] /\ h[i] \in Seq(S) /\ h[i - 1] \in Seq(S)
    BY <1>1, <1>3, <2>1 DEF Follows
  <2>3. f[i] = h[i]
    OBVIOUS
  <2>4. i # 1 => f[i - 1] = h[i - 1]
    BY <1>1
  <2> HIDE DEF f
  <2>5. CASE i = 1
    <3>1. h[0] \o ss[i] = ss[i]
      BY <1>1, <1>3 DEF Follows
    <3>2. h[i - 1] = h[0]
      BY <2>5
    <3> QED
      BY <2>2, <2>5, <3>1, <3>2, <2>3
  <2>6. CASE i # 1
    BY <2>2, <2>6, <2>3, <2>4
  <2> QED
    BY <2>5, <2>6
<1> HIDE DEF f
<1>5. f = Def(f)
  <2>1. f = [i \in 1 .. N |-> f[i]]
    BY DEF f
  <2> QED
    BY <2>1, <1>4
<1>6. rec = Def(rec)
  <2> HIDE DEF Def
  <2> QED
    BY <1>5
<1>7. FlattenSeq(ss) = rec[N]
  BY <1>1 DEF FlattenSeq, N
<1> HIDE DEF rec
<1>8. ASSUME NEW i \in 1 .. N PROVE rec[i] = f[i]
  <2> DEFINE bad == {n \in 1 .. N : rec[n] # f[n]}
  <2>1. SUFFICES ASSUME bad # {} PROVE FALSE
    OBVIOUS
  <2>2. PICK k \in bad : \A m \in bad : k <= m
    <3>1. bad \subseteq Nat
      OBVIOUS
    <3> HIDE DEF bad
    <3> QED
      BY <3>1, <2>1, LeastOf
  <2>3. k \in 1 .. N
    OBVIOUS
  <2>4. rec[k] = (IF k = 1 THEN ss[k] ELSE rec[k - 1] \o ss[k])
    BY <2>3, <1>6
  <2>5. f[k] = (IF k = 1 THEN ss[k] ELSE f[k - 1] \o ss[k])
    BY <2>3, <1>4
  <2>6. k # 1 => rec[k - 1] = f[k - 1]
    <3>1. SUFFICES ASSUME k # 1 PROVE rec[k - 1] = f[k - 1]
      OBVIOUS
    <3>2. k - 1 \in 1 .. N
      BY <2>3, <1>1, <3>1
    <3>3. k - 1 \in bad => k <= k - 1
      BY <2>2
    <3> QED
      BY <3>2, <3>3, <2>3
  <2> QED
    BY <2>4, <2>5, <2>6
<1>9. f \in [1 .. N -> Seq(S)]
  BY <1>4 DEF f
<1> QED
  <2>1. FlattenSeq(ss) = f[N]
    BY <1>1, <1>7, <1>8
  <2>2. Flattens(f, ss, S)
    BY <1>4, <1>9 DEF N, Flattens
  <2> QED
    BY <2>1, <2>2 DEF N

\* One sequence more.
LEMMA FlattenAppend ==
  ASSUME NEW S, NEW ss \in Seq(Seq(S)), NEW s \in Seq(S)
  PROVE  /\ FlattenSeq(ss) \in Seq(S)
         /\ FlattenSeq(Append(ss, s)) = FlattenSeq(ss) \o s
<1> DEFINE tt == Append(ss, s)
           N  == Len(ss)
<1>1. /\ tt \in Seq(Seq(S)) /\ tt # <<>> /\ Len(tt) = N + 1 /\ N \in Nat
      /\ tt[N + 1] = s /\ \A i \in 1 .. N : tt[i] = ss[i]
  <2> DEFINE T == Seq(S)
  <2>1. ss \in Seq(T) /\ s \in T
    OBVIOUS
  <2> HIDE DEF T
  <2>2. tt \in Seq(T) /\ tt # <<>> /\ Len(tt) = N + 1 /\ N \in Nat
        /\ tt[N + 1] = s /\ \A i \in 1 .. N : tt[i] = ss[i]
    BY <2>1
  <2> QED
    BY <2>2 DEF T
<1> HIDE DEF tt
<1>2. PICK g : Flattens(g, tt, S) /\ FlattenSeq(tt) = g[Len(tt)]
  BY <1>1, FlattenDef
<1>3. CASE ss = <<>>
  <2>1. N = 0
    BY <1>3
  <2>2. FlattenSeq(tt) = s
    BY <1>1, <1>2, <2>1 DEF Flattens
  <2>3. FlattenSeq(ss) = <<>>
    BY <1>3, FlattenEmpty
  <2> QED
    BY <2>2, <2>3 DEF tt
<1>4. CASE ss # <<>>
  <2>1. PICK f : Flattens(f, ss, S) /\ FlattenSeq(ss) = f[N]
    BY <1>4, FlattenDef
  <2>2. N \in Nat \ {0}
    BY <1>4
  <2> DEFINE bad == {n \in 1 .. N : f[n] # g[n]}
  <2>3. bad = {}
    <3>1. SUFFICES ASSUME bad # {} PROVE FALSE
      OBVIOUS
    <3>2. PICK k \in bad : \A m \in bad : k <= m
      <4>1. bad \subseteq Nat
        OBVIOUS
      <4> HIDE DEF bad
      <4> QED
        BY <4>1, <3>1, LeastOf
    <3>3. k \in 1 .. N
      OBVIOUS
    <3> HIDE DEF N
    <3>4. k \in 1 .. Len(tt) /\ tt[k] = ss[k]
      BY <3>3, <1>1
    <3>5. k # 1 => f[k - 1] = g[k - 1]
      <4>1. SUFFICES ASSUME k # 1 PROVE f[k - 1] = g[k - 1]
        OBVIOUS
      <4>2. k - 1 \in 1 .. N
        BY <3>3, <2>2, <4>1
      <4>3. k - 1 \in bad => k <= k - 1
        BY <3>2
      <4> QED
        BY <4>2, <4>3, <3>3
    <3>6. f[k] = (IF k = 1 THEN ss[k] ELSE f[k - 1] \o ss[k])
      BY <3>3, <2>1 DEF Flattens, N
    <3>7. g[k] = (IF k = 1 THEN tt[k] ELSE g[k - 1] \o tt[k])
      BY <3>4, <1>2 DEF Flattens
    <3> QED
      BY <3>4, <3>5, <3>6, <3>7
  <2>4. f[N] = g[N]
    <3>1. N \in 1 .. N
      BY <2>2
    <3>2. N \notin bad
      BY <2>3
    <3> QED
      BY <3>1, <3>2
  <2> HIDE DEF N
  <2>5. N + 1 \in 1 .. Len(tt) /\ N + 1 # 1 /\ (N + 1) - 1 = N
    BY <1>1, <2>2
  <2>6. g[N + 1] = g[N] \o tt[N + 1]
    BY <2>5, <1>2 DEF Flattens
  <2>7. FlattenSeq(tt) = FlattenSeq(ss) \o s
    BY <1>1, <1>2, <2>1, <2>4, <2>6
  <2>8. FlattenSeq(ss) \in Seq(S)
    BY <2>1, <2>2 DEF Flattens, N
  <2> QED
    BY <2>7, <2>8 DEF tt
<1> QED
  BY <1>3, <1>4

-----------------------------------------------------------------------------
(* The runes sent: a frame more adds its own.                               *)

Objects  == {<<>>, <<"head", "tail">>}
CallSet  == [id : STRING, arguments : Objects]
Types == {"start", "delta", "stop", "end", "error"}
Whats == {"text", "thinking", "redacted", "tool", "signature", "error", "message"}
FrameSet == [type : Types, index : Nat, what : Whats, n : Nat, calls : Seq(CallSet)]

Runes(f, what) == IF f.type = "delta" /\ f.what = what THEN f.n ELSE 0

\* The beginnings of the sum that Sent computes.
Sums(f, frames, what) ==
    /\ f \in [0 .. Len(frames) -> Nat]
    /\ f[0] = 0
    /\ \A n \in 1 .. Len(frames) : f[n] = f[n - 1] + Runes(frames[n], what)

\* Sent is the last of its running sums.
LEMMA SentDef ==
  ASSUME NEW frames \in Seq(FrameSet), NEW what
  PROVE  \E f : Sums(f, frames, what) /\ Sent(frames, what) = f[Len(frames)]
<1> DEFINE N == Len(frames)
           Def(f) == [n \in 0 .. N |-> IF n = 0 THEN 0 ELSE f[n - 1] + Runes(frames[n], what)]
           step == [n \in 1 .. N |-> [x \in Nat |-> x + Runes(frames[n], what)]]
           rec == CHOOSE f : f = Def(f)
<1>1. N \in Nat
  OBVIOUS
<1>2. \A n \in 1 .. N : Runes(frames[n], what) \in Nat
  <2>1. \A n \in 1 .. N : frames[n] \in FrameSet
    OBVIOUS
  <2>2. \A f \in FrameSet : Runes(f, what) \in Nat
    BY DEF Runes, FrameSet
  <2> QED
    BY <2>1, <2>2
<1>3. Sent(frames, what) = rec[N]
  BY DEF Sent, Runes
<1> HIDE DEF N
<1>4. step \in [1 .. N -> [Nat -> Nat]]
  BY <1>2
<1>5. PICK h : Follows(h, Nat, N, step, 0)
  <2> HIDE DEF step
  <2> QED
    BY <1>1, <1>4, RecursionExists
<1>6. ASSUME NEW n \in 1 .. N PROVE h[n] = h[n - 1] + Runes(frames[n], what)
  <2>1. n - 1 \in 0 .. N
    BY <1>1
  <2> QED
    BY <1>5, <2>1 DEF Follows
<1>7. h \in [0 .. N -> Nat] /\ h[0] = 0
  BY <1>5 DEF Follows
<1> HIDE DEF step
<1>8. h = Def(h)
  <2>1. ASSUME NEW n \in 0 .. N PROVE h[n] = Def(h)[n]
    <3>1. n # 0 => n \in 1 .. N
      BY <1>1
    <3> QED
      BY <1>6, <1>7, <3>1
  <2>2. h = [n \in 0 .. N |-> h[n]]
    BY <1>7
  <2> QED
    BY <2>1, <2>2
<1>9. rec = Def(rec)
  <2> HIDE DEF Def
  <2> QED
    BY <1>8
<1> HIDE DEF rec
<1>10. rec[0] = h[0]
  <2>1. 0 \in 0 .. N
    BY <1>1
  <2> QED
    BY <2>1, <1>7, <1>9
<1>11. ASSUME NEW n \in 1 .. N, rec[n - 1] = h[n - 1] PROVE rec[n] = h[n]
  <2>1. n \in 0 .. N /\ n # 0
    BY <1>1
  <2>2. rec[n] = rec[n - 1] + Runes(frames[n], what)
    BY <2>1, <1>9
  <2> QED
    BY <2>2, <1>6, <1>11
<1> HIDE DEF Def
<1>12. \A n \in 0 .. N : rec[n] = h[n]
  BY <1>1, <1>10, <1>11, RecursionUnique, SMTT(30) DEF InStep
<1>13. Sent(frames, what) = h[N]
  BY <1>1, <1>3, <1>12
<1>14. Sums(h, frames, what)
  BY <1>6, <1>7 DEF Sums, N
<1> QED
  BY <1>13, <1>14 DEF N

\* Nothing was sent in no frame.
LEMMA SentEmpty == ASSUME NEW what PROVE Sent(<<>>, what) = 0
<1>1. <<>> \in Seq(FrameSet) /\ Len(<<>>) = 0
  OBVIOUS
<1>2. PICK f : Sums(f, <<>>, what) /\ Sent(<<>>, what) = f[Len(<<>>)]
  BY <1>1, SentDef
<1> QED
  BY <1>1, <1>2 DEF Sums

\* A frame more adds the runes it carries.
LEMMA SentAppend ==
  ASSUME NEW frames \in Seq(FrameSet), NEW f \in FrameSet, NEW what
  PROVE  /\ Sent(frames, what) \in Nat
         /\ Sent(Append(frames, f), what) = Sent(frames, what) + Runes(f, what)
<1> DEFINE more == Append(frames, f)
           N    == Len(frames)
<1>1. /\ more \in Seq(FrameSet) /\ Len(more) = N + 1 /\ N \in Nat
      /\ more[N + 1] = f /\ \A n \in 1 .. N : more[n] = frames[n]
  OBVIOUS
<1> HIDE DEF more
<1>2. PICK g : Sums(g, frames, what) /\ Sent(frames, what) = g[N]
  BY SentDef
<1>3. PICK h : Sums(h, more, what) /\ Sent(more, what) = h[Len(more)]
  BY <1>1, SentDef
<1>4. h[0] = g[0]
  BY <1>2, <1>3 DEF Sums
<1>5. ASSUME NEW n \in 1 .. N, h[n - 1] = g[n - 1] PROVE h[n] = g[n]
  <2>1. n \in 1 .. Len(more)
    BY <1>1
  <2>2. h[n] = h[n - 1] + Runes(more[n], what)
    BY <2>1, <1>3 DEF Sums
  <2>3. g[n] = g[n - 1] + Runes(frames[n], what)
    BY <1>2 DEF Sums
  <2> QED
    BY <2>2, <2>3, <1>1, <1>5
<1> HIDE DEF N
<1>6. h[N] = g[N]
  <2>1. \A n \in 1 .. N : h[n - 1] = g[n - 1] => h[n] = g[n]
    BY <1>5
  <2>2. N \in Nat
    BY <1>1
  <2>3. \A n \in 0 .. N : h[n] = g[n]
    BY <2>2, <1>4, <2>1, RecursionUnique, SMTT(30) DEF InStep
  <2> QED
    BY <2>2, <2>3
<1>7. h[N + 1] = h[N] + Runes(f, what)
  <2>1. N + 1 \in 1 .. Len(more) /\ (N + 1) - 1 = N
    BY <1>1
  <2> QED
    BY <2>1, <1>1, <1>3 DEF Sums
<1>8. g[N] \in Nat
  BY <1>1, <1>2 DEF Sums, N
<1> QED
  BY <1>1, <1>2, <1>3, <1>6, <1>7, <1>8 DEF more

-----------------------------------------------------------------------------
(* The frames. A frame more changes nothing about those before it.          *)

At(frames, i, types) == {j \in 1 .. i - 1 : frames[j].type \in types}

\* WellFormedStream's demand on one frame.
LegalAt(frames, i) ==
    LET f       == frames[i]
        starts  == At(frames, i, {"start"})
        stops   == At(frames, i, {"stop"})
        current == frames[Max(starts)]
    IN  IF f.type \in {"delta", "stop"}
           THEN /\ Cardinality(starts) = Cardinality(stops) + 1
                /\ f.index = current.index
                /\ Belongs(f, current.what)
           ELSE /\ Cardinality(starts) = Cardinality(stops)
                /\ f.type = "start" => f.index = Cardinality(starts)

Legal(frames) == \A i \in DOMAIN frames : LegalAt(frames, i)

\* The frames of some types before a place are finitely many; the last is one of them.
LEMMA AtFacts ==
  ASSUME NEW frames \in Seq(FrameSet), NEW i \in 1 .. Len(frames) + 1, NEW types
  PROVE  /\ IsFiniteSet(At(frames, i, types)) /\ Cardinality(At(frames, i, types)) \in Nat
         /\ Cardinality(At(frames, i, types)) # 0 =>
               /\ Max(At(frames, i, types)) \in At(frames, i, types)
               /\ \A j \in At(frames, i, types) : j <= Max(At(frames, i, types))
<1> DEFINE S == At(frames, i, types)
<1>1. i \in Nat /\ S \subseteq 1 .. i - 1 /\ S \subseteq Nat /\ \A m \in S : m <= i
  BY DEF At
<1>2. IsFiniteSet(S)
  BY <1>1, FS_Interval, FS_Subset, 1 \in Int, i - 1 \in Int
<1>3. Cardinality(S) \in Nat /\ (Cardinality(S) # 0 => S # {})
  BY <1>2, FS_CardinalityType, FS_EmptySet
<1> HIDE DEF S
<1>4. S # {} => Max(S) \in S /\ \A j \in S : j <= Max(S)
  BY <1>1, GreatestOf
<1> QED
  BY <1>2, <1>3, <1>4 DEF S

\* more is frames with f behind them, at place n.
Grown(frames, f, more, n) ==
    /\ frames \in Seq(FrameSet) /\ f \in FrameSet
    /\ more = Append(frames, f)
    /\ n = Len(frames) + 1

\* What a frame more makes of the frames, index by index.
LEMMA GrownFacts ==
  ASSUME NEW frames, NEW f, NEW more, NEW n, Grown(frames, f, more, n)
  PROVE  /\ more \in Seq(FrameSet) /\ Len(more) = n /\ n \in Nat \ {0} /\ more[n] = f
         /\ DOMAIN more = 1 .. n /\ DOMAIN frames = 1 .. n - 1
         /\ \A j \in 1 .. n - 1 : more[j] = frames[j]
BY DEF Grown

\* The frames before a place are the same with one more behind them.
LEMMA AtKeeps ==
  ASSUME NEW frames, NEW f, NEW more, NEW n, Grown(frames, f, more, n),
         NEW i \in 1 .. n, NEW types
  PROVE  At(more, i, types) = At(frames, i, types)
BY GrownFacts DEF At

\* Behind a frame of one of the types there is one more of them.
LEMMA AtNext ==
  ASSUME NEW frames, NEW f, NEW more, NEW n, Grown(frames, f, more, n), NEW types
  PROVE  /\ At(more, n + 1, types) = At(frames, n, types) \cup (IF f.type \in types THEN {n} ELSE {})
         /\ Cardinality(At(more, n + 1, types)) =
               Cardinality(At(frames, n, types)) + (IF f.type \in types THEN 1 ELSE 0)
<1>1. /\ n \in Nat \ {0} /\ more[n] = f /\ frames \in Seq(FrameSet) /\ n = Len(frames) + 1
      /\ \A j \in 1 .. n - 1 : more[j] = frames[j]
  BY GrownFacts DEF Grown
<1>2. At(more, n + 1, types) = At(frames, n, types) \cup (IF f.type \in types THEN {n} ELSE {})
  BY <1>1 DEF At
<1>3. n \in 1 .. Len(frames) + 1
  BY <1>1
<1>4. IsFiniteSet(At(frames, n, types)) /\ Cardinality(At(frames, n, types)) \in Nat
  BY <1>1, <1>3, AtFacts
<1>5. n \notin At(frames, n, types)
  BY <1>1 DEF At
<1>6. Cardinality(At(frames, n, types) \cup {n}) = Cardinality(At(frames, n, types)) + 1
  BY <1>4, <1>5, FS_AddElement
<1>7. Cardinality(At(more, n + 1, types)) =
         Cardinality(At(frames, n, types)) + (IF f.type \in types THEN 1 ELSE 0)
  <2>1. CASE f.type \in types
    BY <2>1, <1>2, <1>6
  <2>2. CASE f.type \notin types
    <3>1. At(more, n + 1, types) = At(frames, n, types)
      BY <2>2, <1>2
    <3> QED
      BY <3>1, <2>2, <1>4
  <2> QED
    BY <2>1, <2>2
<1> QED
  BY <1>2, <1>7

\* What makes the next frame legal, from the frames so far.
LEMMA LegalAppend ==
  ASSUME NEW frames, NEW f, NEW more, NEW n, Grown(frames, f, more, n),
         Legal(frames), LegalAt(more, n)
  PROVE  Legal(more)
<1>1. /\ n \in Nat \ {0} /\ DOMAIN more = 1 .. n /\ DOMAIN frames = 1 .. n - 1
      /\ frames \in Seq(FrameSet) /\ n = Len(frames) + 1
      /\ \A j \in 1 .. n - 1 : more[j] = frames[j]
  BY GrownFacts DEF Grown
<1>2. SUFFICES ASSUME NEW i \in 1 .. n - 1 PROVE LegalAt(more, i)
  BY <1>1 DEF Legal
<1> DEFINE starts == At(frames, i, {"start"})
           stops  == At(frames, i, {"stop"})
<1>3. LegalAt(frames, i)
  BY <1>1 DEF Legal
<1>4. i \in 1 .. n /\ i \in 1 .. Len(frames) + 1 /\ more[i] = frames[i]
  BY <1>1
<1>5. At(more, i, {"start"}) = starts /\ At(more, i, {"stop"}) = stops
  BY <1>4, AtKeeps
<1>6. Cardinality(starts) \in Nat /\ Cardinality(stops) \in Nat
      /\ (Cardinality(starts) # 0 => Max(starts) \in starts)
  BY <1>1, <1>4, AtFacts
<1>7. \A j \in starts : j \in 1 .. n - 1 /\ more[j] = frames[j]
  BY <1>1 DEF At
<1> HIDE DEF starts, stops
<1>8. CASE frames[i].type \in {"delta", "stop"}
  <2>1. /\ Cardinality(starts) = Cardinality(stops) + 1
        /\ frames[i].index = frames[Max(starts)].index
        /\ Belongs(frames[i], frames[Max(starts)].what)
    BY <1>3, <1>8 DEF LegalAt, starts, stops
  <2>2. more[Max(starts)] = frames[Max(starts)]
    BY <2>1, <1>6, <1>7
  <2> QED
    BY <1>4, <1>5, <1>8, <2>1, <2>2 DEF LegalAt
<1>9. CASE frames[i].type \notin {"delta", "stop"}
  BY <1>3, <1>4, <1>5, <1>9 DEF LegalAt, starts, stops
<1> QED
  BY <1>8, <1>9

-----------------------------------------------------------------------------
(* The writer.                                                              *)

OpenKinds == {"none", "text", "thinking", "redacted", "tool"}
WriterSet == [open : OpenKinds, index : Nat, pending : Nat, sent : BOOLEAN, frames : Seq(FrameSet)]

\* What is open is the block started last, and index counts those closed.
Balanced(frames, open, index) ==
    LET n      == Len(frames) + 1
        starts == At(frames, n, {"start"})
    IN  /\ Cardinality(At(frames, n, {"stop"})) = index
        /\ open = "none" => Cardinality(starts) = index
        /\ open # "none" => /\ Cardinality(starts) = index + 1
                            /\ frames[Max(starts)].index = index
                            /\ frames[Max(starts)].what = open

\* The signature is sent at most once, and sent knows whether it was.
Signed(frames, sent) ==
    /\ \A i, j \in DOMAIN frames :
          frames[i].what = "signature" /\ frames[j].what = "signature" => i = j
    /\ \A i \in DOMAIN frames : frames[i].what = "signature" => sent

Unfinished(frames) == \A i \in DOMAIN frames : frames[i].type \in {"start", "delta", "stop"}

WriterInv(b) ==
    /\ b \in WriterSet
    /\ Signed(b.frames, b.sent)
    /\ Unfinished(b.frames)
    /\ surface \in {"openai", "anthropic"}
    /\ surface = "anthropic" => Legal(b.frames) /\ Balanced(b.frames, b.open, b.index)
    /\ surface = "openai" => b.open = "none"

\* One frame more, and the signature only if it was not sent yet.
Puts(b, d, f) ==
    /\ d \in WriterSet /\ f \in FrameSet
    /\ d.frames = Append(b.frames, f)
    /\ IF f.what = "signature" THEN ~b.sent /\ d.sent ELSE b.sent => d.sent

\* A frame sent leaves the signature unique and the stream without an end.
LEMMA PutsSigned ==
  ASSUME NEW b, NEW d, NEW f, WriterInv(b), Puts(b, d, f), f.type \in {"start", "delta", "stop"}
  PROVE  Signed(d.frames, d.sent) /\ Unfinished(d.frames)
<1> DEFINE n == Len(b.frames) + 1
<1>1. b.frames \in Seq(FrameSet) /\ f \in FrameSet /\ b.sent \in BOOLEAN /\ d.sent \in BOOLEAN
  BY DEF WriterInv, WriterSet, Puts
<1>2. /\ DOMAIN d.frames = 1 .. n /\ DOMAIN b.frames = 1 .. n - 1 /\ n \in Nat
      /\ d.frames[n] = f /\ \A j \in 1 .. n - 1 : d.frames[j] = b.frames[j]
  BY <1>1 DEF Puts
<1>3. Unfinished(d.frames)
  BY <1>2 DEF WriterInv, Unfinished
<1>4. \A i \in 1 .. n - 1 : d.frames[i].what = "signature" => b.sent
  BY <1>2 DEF WriterInv, Signed
<1>5. \A i \in 1 .. n : d.frames[i].what = "signature" => d.sent
  BY <1>2, <1>4 DEF Puts
<1>6. \A i, j \in 1 .. n :
         d.frames[i].what = "signature" /\ d.frames[j].what = "signature" => i = j
  <2>1. ASSUME NEW i \in 1 .. n, NEW j \in 1 .. n,
               d.frames[i].what = "signature", d.frames[j].what = "signature"
        PROVE  i = j
    <3>1. CASE i = n \/ j = n
      <4>1. d.frames[n].what = "signature"
        BY <2>1, <3>1
      <4>2. ~b.sent
        BY <4>1, <1>2 DEF Puts
      <4> QED
        BY <4>2, <1>2, <1>4, <2>1, <3>1
    <3>2. CASE i # n /\ j # n
      <4>1. i \in 1 .. n - 1 /\ j \in 1 .. n - 1
        BY <3>2, <1>2
      <4> QED
        BY <4>1, <1>2, <2>1 DEF WriterInv, Signed
    <3> QED
      BY <3>1, <3>2
  <2> QED
    BY <2>1
<1> QED
  BY <1>2, <1>3, <1>5, <1>6 DEF Signed

\* A delta goes to the open block.
LEMMA PutDelta ==
  ASSUME NEW b, NEW d, NEW f, WriterInv(b), Puts(b, d, f), f.type = "delta",
         f.index = b.index, d.open = b.open, d.index = b.index,
         surface = "anthropic" => b.open # "none" /\ Belongs(f, b.open)
  PROVE  WriterInv(d)
<1> DEFINE n == Len(b.frames) + 1
<1>1. b.frames \in Seq(FrameSet) /\ f \in FrameSet /\ b.index \in Nat
  BY DEF WriterInv, WriterSet, Puts
<1>2. Signed(d.frames, d.sent) /\ Unfinished(d.frames)
  BY PutsSigned
<1>3. ASSUME surface = "anthropic" PROVE Legal(d.frames) /\ Balanced(d.frames, d.open, d.index)
  <2> DEFINE starts == At(b.frames, n, {"start"})
             stops  == At(b.frames, n, {"stop"})
  <2>1. Grown(b.frames, f, d.frames, n)
    BY <1>1 DEF Puts, Grown
  <2>2. Len(d.frames) = n /\ d.frames[n] = f
        /\ n \in Nat \ {0} /\ \A j \in 1 .. n - 1 : d.frames[j] = b.frames[j]
    BY <2>1, GrownFacts
  <2>3. /\ Cardinality(stops) = b.index /\ Cardinality(starts) = b.index + 1
        /\ b.frames[Max(starts)].index = b.index /\ b.frames[Max(starts)].what = b.open
    BY <1>3 DEF WriterInv, Balanced
  <2>4. At(d.frames, n, {"start"}) = starts /\ At(d.frames, n, {"stop"}) = stops
    <3>1. n \in 1 .. n
      BY <2>2
    <3> HIDE DEF n
    <3> QED
      BY <2>1, <3>1, AtKeeps
  <2>5. At(d.frames, n + 1, {"start"}) = starts /\ At(d.frames, n + 1, {"stop"}) = stops
    <3>1. At(d.frames, n + 1, {"start"}) = starts \cup (IF f.type \in {"start"} THEN {n} ELSE {})
      BY <2>1, AtNext
    <3>2. At(d.frames, n + 1, {"stop"}) = stops \cup (IF f.type \in {"stop"} THEN {n} ELSE {})
      BY <2>1, AtNext
    <3> QED
      BY <3>1, <3>2
  <2>6. Max(starts) \in starts /\ d.frames[Max(starts)] = b.frames[Max(starts)]
    <3>1. n \in 1 .. Len(b.frames) + 1
      BY <2>2
    <3>2. Max(starts) \in starts
      BY <1>1, <2>3, <3>1, AtFacts
    <3>3. \A j \in starts : j \in 1 .. n - 1
      BY DEF At
    <3> QED
      BY <3>2, <3>3, <2>2
  <2> HIDE DEF starts, stops
  <2>7. LegalAt(d.frames, n)
    BY <1>3, <2>2, <2>3, <2>4, <2>6 DEF LegalAt
  <2>8. Legal(d.frames)
    <3> HIDE DEF n
    <3>1. Legal(b.frames)
      BY <1>3 DEF WriterInv
    <3> QED
      BY <2>1, <2>7, <3>1, LegalAppend
  <2>9. Balanced(d.frames, d.open, d.index)
    BY <1>1, <1>3, <2>2, <2>3, <2>5, <2>6 DEF Balanced
  <2> QED
    BY <2>8, <2>9
<1> QED
  BY <1>2, <1>3 DEF WriterInv, Puts

\* A block starts when none is open.
LEMMA PutStart ==
  ASSUME NEW b, NEW d, NEW f, WriterInv(b), Puts(b, d, f), f.type = "start",
         b.open = "none", f.index = b.index, d.index = b.index,
         surface = "anthropic", d.open = f.what, d.open # "none"
  PROVE  WriterInv(d)
<1> DEFINE n == Len(b.frames) + 1
           starts == At(b.frames, n, {"start"})
           stops  == At(b.frames, n, {"stop"})
<1>1. b.frames \in Seq(FrameSet) /\ f \in FrameSet /\ b.index \in Nat
  BY DEF WriterInv, WriterSet, Puts
<1>2. Signed(d.frames, d.sent) /\ Unfinished(d.frames)
  BY PutsSigned
<1>3. Grown(b.frames, f, d.frames, n)
  BY <1>1 DEF Puts, Grown
<1>4. Len(d.frames) = n /\ d.frames[n] = f
      /\ n \in Nat \ {0} /\ \A j \in 1 .. n - 1 : d.frames[j] = b.frames[j]
  BY <1>3, GrownFacts, SMTT(30)
<1>5. Cardinality(stops) = b.index /\ Cardinality(starts) = b.index
  BY DEF WriterInv, Balanced
<1>6. At(d.frames, n, {"start"}) = starts /\ At(d.frames, n, {"stop"}) = stops
  <2>1. n \in 1 .. n
    BY <1>4
  <2> HIDE DEF n
  <2> QED
    BY <1>3, <2>1, AtKeeps
<1>7. /\ At(d.frames, n + 1, {"start"}) = starts \cup {n}
      /\ Cardinality(At(d.frames, n + 1, {"start"})) = b.index + 1
      /\ Cardinality(At(d.frames, n + 1, {"stop"})) = b.index
  <2>1. At(d.frames, n + 1, {"start"}) = starts \cup (IF f.type \in {"start"} THEN {n} ELSE {})
        /\ Cardinality(At(d.frames, n + 1, {"start"})) =
              Cardinality(starts) + (IF f.type \in {"start"} THEN 1 ELSE 0)
    BY <1>3, AtNext
  <2>2. Cardinality(At(d.frames, n + 1, {"stop"})) =
           Cardinality(stops) + (IF f.type \in {"stop"} THEN 1 ELSE 0)
    BY <1>3, AtNext
  <2> QED
    BY <2>1, <2>2, <1>5, <1>1
<1>8. Max(starts \cup {n}) = n
  <2>1. \A j \in starts \cup {n} : j \in Nat /\ j <= n
    BY <1>4 DEF At
  <2> DEFINE S == starts \cup {n}
  <2>2. n \in S
    OBVIOUS
  <2> HIDE DEF S
  <2>3. Max(S) \in S /\ \A j \in S : j <= Max(S)
    <3>1. S \subseteq Nat /\ S # {} /\ n \in Nat /\ \A j \in S : j <= n
      BY <2>1, <2>2, <1>4 DEF S
    <3> QED
      BY <3>1, GreatestOf
  <2> QED
    <3>1. Max(S) \in Nat /\ Max(S) <= n /\ n <= Max(S)
      BY <2>1, <2>2, <2>3 DEF S
    <3>2. Max(S) = n
      BY <3>1, <1>4
    <3> QED
      BY <3>2 DEF S
<1> HIDE DEF starts, stops
<1>9. LegalAt(d.frames, n)
  BY <1>4, <1>5, <1>6 DEF LegalAt
<1>10. Legal(d.frames)
  <2> HIDE DEF n
  <2>1. Legal(b.frames)
    BY DEF WriterInv
  <2> QED
    BY <1>3, <1>9, <2>1, LegalAppend
<1>11. Balanced(d.frames, d.open, d.index)
  BY <1>1, <1>4, <1>7, <1>8 DEF Balanced
<1> QED
  BY <1>2, <1>10, <1>11 DEF WriterInv, Puts

\* And stops with its own kind.
LEMMA PutStop ==
  ASSUME NEW b, NEW d, NEW f, WriterInv(b), Puts(b, d, f), f.type = "stop",
         b.open # "none", f.what = b.open, f.index = b.index, d.index = b.index + 1,
         d.open = "none", surface = "anthropic"
  PROVE  WriterInv(d)
<1> DEFINE n == Len(b.frames) + 1
           starts == At(b.frames, n, {"start"})
           stops  == At(b.frames, n, {"stop"})
<1>1. b.frames \in Seq(FrameSet) /\ f \in FrameSet /\ b.index \in Nat
  BY DEF WriterInv, WriterSet, Puts
<1>2. Signed(d.frames, d.sent) /\ Unfinished(d.frames)
  BY PutsSigned
<1>3. Grown(b.frames, f, d.frames, n)
  BY <1>1 DEF Puts, Grown
<1>4. Len(d.frames) = n /\ d.frames[n] = f
      /\ n \in Nat \ {0} /\ \A j \in 1 .. n - 1 : d.frames[j] = b.frames[j]
  BY <1>3, GrownFacts
<1>5. /\ Cardinality(stops) = b.index /\ Cardinality(starts) = b.index + 1
      /\ b.frames[Max(starts)].index = b.index /\ b.frames[Max(starts)].what = b.open
  BY DEF WriterInv, Balanced
<1>6. At(d.frames, n, {"start"}) = starts /\ At(d.frames, n, {"stop"}) = stops
  <2>1. n \in 1 .. n
    BY <1>4
  <2> HIDE DEF n
  <2> QED
    BY <1>3, <2>1, AtKeeps
<1>7. /\ Cardinality(At(d.frames, n + 1, {"start"})) = b.index + 1
      /\ Cardinality(At(d.frames, n + 1, {"stop"})) = b.index + 1
  <2>1. Cardinality(At(d.frames, n + 1, {"start"})) =
           Cardinality(starts) + (IF f.type \in {"start"} THEN 1 ELSE 0)
    BY <1>3, AtNext
  <2>2. Cardinality(At(d.frames, n + 1, {"stop"})) =
           Cardinality(stops) + (IF f.type \in {"stop"} THEN 1 ELSE 0)
    BY <1>3, AtNext
  <2> QED
    BY <2>1, <2>2, <1>5, <1>1
<1>8. Max(starts) \in starts /\ d.frames[Max(starts)] = b.frames[Max(starts)]
  <2>1. n \in 1 .. Len(b.frames) + 1
    BY <1>4
  <2>2. Max(starts) \in starts
    BY <1>1, <1>5, <2>1, AtFacts
  <2>3. \A j \in starts : j \in 1 .. n - 1
    BY DEF At
  <2> QED
    BY <2>2, <2>3, <1>4
<1> HIDE DEF starts, stops
<1>9. LegalAt(d.frames, n)
  BY <1>4, <1>5, <1>6, <1>8 DEF LegalAt, Belongs
<1>10. Legal(d.frames)
  <2> HIDE DEF n
  <2>1. Legal(b.frames)
    BY DEF WriterInv
  <2> QED
    BY <1>3, <1>9, <2>1, LegalAppend
<1>11. Balanced(d.frames, d.open, d.index)
  BY <1>1, <1>4, <1>7 DEF Balanced
<1> QED
  BY <1>2, <1>10, <1>11 DEF WriterInv, Puts

-----------------------------------------------------------------------------
(* What the writer's operators send.                                        *)

\* The calls in these frames, in order.
Delivered(frames) == FlattenSeq([i \in DOMAIN frames |-> frames[i].calls])

\* A frame more delivers its calls behind those before it.
LEMMA DeliveredAppend ==
  ASSUME NEW frames \in Seq(FrameSet), NEW f \in FrameSet
  PROVE  /\ Delivered(frames) \in Seq(CallSet)
         /\ Delivered(Append(frames, f)) = Delivered(frames) \o f.calls
<1> DEFINE more == Append(frames, f)
           ss   == [i \in DOMAIN frames |-> frames[i].calls]
           tt   == [i \in DOMAIN more |-> more[i].calls]
           n    == Len(frames) + 1
           T    == Seq(CallSet)
<1>1. /\ DOMAIN more = 1 .. n /\ DOMAIN frames = 1 .. n - 1 /\ n \in Nat \ {0} /\ more[n] = f
      /\ \A j \in 1 .. n - 1 : more[j] = frames[j]
  OBVIOUS
<1>2. f.calls \in T /\ \A i \in 1 .. n - 1 : frames[i].calls \in T
  <2>1. \A g \in FrameSet : g.calls \in T
    BY DEF FrameSet
  <2>2. \A i \in 1 .. n - 1 : frames[i] \in FrameSet
    OBVIOUS
  <2> QED
    BY <2>1, <2>2
<1> HIDE DEF n, more, T
<1>3. ss \in Seq(T) /\ Len(ss) = n - 1
  BY <1>1, <1>2
<1> DEFINE uu == Append(ss, f.calls)
<1>4. tt = uu
  <2>1. tt \in Seq(T) /\ Len(tt) = n
    BY <1>1, <1>2
  <2>2. uu \in Seq(T) /\ Len(uu) = n /\ uu[n] = f.calls /\ \A i \in 1 .. n - 1 : uu[i] = ss[i]
    BY <1>1, <1>2, <1>3
  <2>3. ASSUME NEW i \in 1 .. n PROVE tt[i] = uu[i]
    <3>1. CASE i = n
      BY <3>1, <2>2, <1>1
    <3>2. CASE i # n
      <4>1. i \in 1 .. n - 1
        BY <3>2, <1>1
      <4> QED
        BY <4>1, <2>2, <1>1
    <3> QED
      BY <3>1, <3>2
  <2> HIDE DEF tt, uu
  <2> QED
    BY <2>1, <2>2, <2>3, SeqEqual
<1>5. FlattenSeq(ss) \in Seq(CallSet) /\ FlattenSeq(uu) = FlattenSeq(ss) \o f.calls
  <2> HIDE DEF ss
  <2> QED
    BY <1>2, <1>3, FlattenAppend DEF T
<1> QED
  BY <1>4, <1>5 DEF Delivered, more

\* What Frame makes is a frame.
LEMMA FrameFields ==
  ASSUME NEW type \in Types, NEW index \in Nat, NEW what \in Whats, NEW n \in Nat
  PROVE  /\ Frame(type, index, what, n, <<>>) \in FrameSet
         /\ \A calls \in Seq(CallSet) : Frame(type, index, what, n, calls) \in FrameSet
<1>1. <<>> \in Seq(CallSet)
  OBVIOUS
<1>2. \A calls \in Seq(CallSet) : Frame(type, index, what, n, calls) \in FrameSet
  <2> DEFINE T == Seq(CallSet)
  <2> HIDE DEF T
  <2>1. \A calls \in T : Frame(type, index, what, n, calls) \in
           [type : Types, index : Nat, what : Whats, n : Nat, calls : T]
    BY DEF Frame
  <2> QED
    BY <2>1 DEF FrameSet, T
<1> QED
  BY <1>1, <1>2

\* b with one frame more.
LEMMA AppendFields ==
  ASSUME NEW b \in WriterSet, NEW f \in FrameSet
  PROVE  LET d == [b EXCEPT !.frames = Append(@, f)] IN
         /\ d \in WriterSet /\ d.frames = Append(b.frames, f) /\ d.open = b.open
         /\ d.index = b.index /\ d.pending = b.pending /\ d.sent = b.sent
<1> DEFINE T == Seq(FrameSet)
<1>1. b.frames \in T /\ Append(b.frames, f) \in T
  BY DEF WriterSet
<1> DEFINE fs == Append(b.frames, f)
           d  == [b EXCEPT !.frames = fs]
<1>2. b \in [open : OpenKinds, index : Nat, pending : Nat, sent : BOOLEAN, frames : T]
  BY DEF WriterSet
<1> HIDE DEF T, fs
<1>3. d \in [open : OpenKinds, index : Nat, pending : Nat, sent : BOOLEAN, frames : T]
  BY <1>1, <1>2 DEF fs
<1>4. /\ d.frames = fs /\ d.open = b.open
      /\ d.index = b.index /\ d.pending = b.pending /\ d.sent = b.sent
  BY <1>2
<1> QED
  BY <1>3, <1>4 DEF T, WriterSet, fs

\* From b to d this many runes of text and of reasoning were sent, and these calls.
Effect(b, d, text, thinking, calls) ==
    /\ Sent(d.frames, "text") = Sent(b.frames, "text") + text
    /\ Sent(d.frames, "thinking") = Sent(b.frames, "thinking") + thinking
    /\ Delivered(d.frames) = Delivered(b.frames) \o calls

\* Sending a frame has the effect of what the frame carries.
LEMMA PutEffect ==
  ASSUME NEW b, NEW d, NEW f, WriterInv(b), Puts(b, d, f)
  PROVE  Effect(b, d, Runes(f, "text"), Runes(f, "thinking"), f.calls)
<1>1. b.frames \in Seq(FrameSet) /\ f \in FrameSet /\ d.frames = Append(b.frames, f)
  BY DEF WriterInv, WriterSet, Puts
<1> QED
  BY <1>1, SentAppend, DeliveredAppend DEF Effect

Quiet(b, d) == Effect(b, d, 0, 0, <<>>)

\* What was sent so far is counted in natural numbers and calls.
LEMMA EffectTypes ==
  ASSUME NEW b, WriterInv(b)
  PROVE  /\ Sent(b.frames, "text") \in Nat /\ Sent(b.frames, "thinking") \in Nat
         /\ Delivered(b.frames) \in Seq(CallSet)
<1>1. b.frames \in Seq(FrameSet)
  BY DEF WriterInv, WriterSet
<1>2. Frame("stop", 0, "text", 0, <<>>) \in FrameSet
  BY FrameFields DEF Types, Whats
<1> QED
  BY <1>1, <1>2, SentAppend, DeliveredAppend

\* A quiet step leaves what the client counts as it was.
LEMMA QuietIs ==
  ASSUME NEW b, NEW d, WriterInv(b)
  PROVE  Quiet(b, d) <=> /\ Sent(d.frames, "text") = Sent(b.frames, "text")
                         /\ Sent(d.frames, "thinking") = Sent(b.frames, "thinking")
                         /\ Delivered(d.frames) = Delivered(b.frames)
<1>1. /\ Sent(b.frames, "text") \in Nat /\ Sent(b.frames, "thinking") \in Nat
      /\ Delivered(b.frames) \in Seq(CallSet)
  BY EffectTypes
<1>2. Delivered(b.frames) \o <<>> = Delivered(b.frames)
  BY <1>1, ConcatEmptySeq
<1> QED
  BY <1>1, <1>2 DEF Quiet, Effect

\* What comes before or after a quiet step has the effect of both.
LEMMA EffectAfterQuiet ==
  ASSUME NEW a, NEW b, NEW d, NEW text, NEW thinking, NEW calls,
         WriterInv(a), Quiet(a, b), Effect(b, d, text, thinking, calls)
  PROVE  Effect(a, d, text, thinking, calls)
BY QuietIs DEF Effect

\* A quiet step adds nothing to the effect before it.
LEMMA QuietAfterEffect ==
  ASSUME NEW a, NEW b, NEW d, NEW text, NEW thinking, NEW calls,
         WriterInv(b), Effect(a, b, text, thinking, calls), Quiet(b, d)
  PROVE  Effect(a, d, text, thinking, calls)
BY QuietIs DEF Effect

\* Calls sent one step after the other are delivered in that order.
LEMMA EffectAfterEffect ==
  ASSUME NEW a, NEW b, NEW d, NEW s \in Seq(CallSet), NEW t \in Seq(CallSet),
         WriterInv(a), Effect(a, b, 0, 0, s), Effect(b, d, 0, 0, t)
  PROVE  Effect(a, d, 0, 0, s \o t)
<1> DEFINE x == Delivered(a.frames)
<1>1. /\ Sent(a.frames, "text") \in Nat /\ Sent(a.frames, "thinking") \in Nat
      /\ x \in Seq(CallSet)
  BY EffectTypes
<1>2. Delivered(d.frames) = (x \o s) \o t
  BY DEF Effect
<1> HIDE DEF x
<1>3. (x \o s) \o t = x \o (s \o t)
  BY <1>1, ConcatAssociative, SMTT(30)
<1> QED
  BY <1>1, <1>2, <1>3 DEF Effect, x

-----------------------------------------------------------------------------

\* Neither runes nor calls.
Silent(f) == Runes(f, "text") = 0 /\ Runes(f, "thinking") = 0 /\ f.calls = <<>>

\* A frame that carries neither text nor calls is quiet.
LEMMA PutQuiet ==
  ASSUME NEW b, NEW d, NEW f, WriterInv(b), Puts(b, d, f), Silent(f)
  PROVE  Quiet(b, d)
BY PutEffect DEF Silent, Quiet

\* Start opens a block of the kind where none is open.
LEMMA StartWriter ==
  ASSUME NEW b, NEW kind, WriterInv(b), b.open = "none", surface = "anthropic",
         kind \in OpenKinds \ {"none"}
  PROVE  /\ WriterInv(Start(b, kind)) /\ Quiet(b, Start(b, kind))
         /\ Start(b, kind).open = kind /\ Start(b, kind).index = b.index
<1> DEFINE f == Frame("start", b.index, kind, 0, <<>>)
           d == Start(b, kind)
<1>1. b \in WriterSet
  BY DEF WriterInv
<1>2. f \in FrameSet /\ f.type = "start" /\ f.what = kind /\ f.what # "signature"
      /\ f.index = b.index /\ Silent(f)
  <2>1. b.index \in Nat /\ kind \in Whats /\ kind # "signature"
    BY <1>1 DEF WriterSet, OpenKinds, Whats
  <2>2. f \in FrameSet
    BY <2>1, FrameFields DEF Types
  <2> QED
    BY <2>1, <2>2 DEF Frame, Silent, Runes
<1> HIDE DEF f
<1>3. /\ d \in WriterSet /\ d.frames = Append(b.frames, f) /\ d.open = kind
      /\ d.index = b.index /\ d.sent = b.sent
  <2> DEFINE s == [b EXCEPT !.frames = Append(@, f)]
  <2>1. s \in WriterSet /\ s.frames = Append(b.frames, f) /\ s.index = b.index /\ s.sent = b.sent
    BY <1>1, <1>2, AppendFields
  <2>2. d = [s EXCEPT !.open = kind]
    BY DEF Start, Send, f
  <2> HIDE DEF d, s
  <2> QED
    BY <2>1, <2>2 DEF WriterSet
<1> HIDE DEF d
<1>4. Puts(b, d, f)
  BY <1>2, <1>3 DEF Puts
<1>5. d.open # "none"
  BY <1>3 DEF OpenKinds
<1>6. WriterInv(d)
  BY <1>2, <1>3, <1>4, <1>5, PutStart
<1>7. Quiet(b, d)
  BY <1>2, <1>4, PutQuiet
<1> QED
  BY <1>3, <1>6, <1>7 DEF d

\* closeCurrent leaves a writer in order, with no block open, and sends no text.
LEMMA CloseCurrentWriter ==
  ASSUME NEW b, WriterInv(b)
  PROVE  /\ WriterInv(CloseCurrent(b)) /\ Quiet(b, CloseCurrent(b))
         /\ CloseCurrent(b).open = "none"
<1>1. b \in WriterSet /\ b.index \in Nat /\ b.pending \in Nat /\ b.sent \in BOOLEAN
      /\ b.open \in OpenKinds
  BY DEF WriterInv, WriterSet
<1>2. CASE b.open = "none"
  <2>1. CloseCurrent(b) = b
    BY <1>2 DEF CloseCurrent
  <2> QED
    BY <1>2, <2>1, QuietIs
<1>3. CASE b.open # "none"
  <2>1. surface = "anthropic"
    BY <1>3 DEF WriterInv
  <2> DEFINE flush == b.open \in {"thinking", "redacted"} /\ b.pending # 0 /\ ~b.sent
             g == Frame("delta", b.index, "signature", b.pending, <<>>)
             signed == IF flush THEN [b EXCEPT !.frames = Append(@, g)] ELSE b
             s == IF flush THEN [signed EXCEPT !.sent = TRUE] ELSE b
             f == Frame("stop", b.index, b.open, 0, <<>>)
             t == [signed EXCEPT !.frames = Append(@, f)]
             z == t.sent \/ flush
             d == [t EXCEPT !.open = "none", !.index = @ + 1, !.sent = z]
  <2>2. /\ WriterInv(s) /\ Quiet(b, s) /\ signed \in WriterSet /\ s.frames = signed.frames
        /\ s.open = b.open /\ s.index = b.index /\ s.sent = (b.sent \/ flush)
        /\ signed.index = b.index /\ signed.open = b.open /\ signed.sent = b.sent
    <3>1. CASE flush
      <4>1. g \in FrameSet /\ g.type = "delta" /\ g.what = "signature" /\ g.index = b.index
            /\ Silent(g)
        <5>1. g \in FrameSet
          BY <1>1, FrameFields DEF Types, Whats
        <5> QED
          BY <5>1 DEF Frame, Silent, Runes
      <4> HIDE DEF g
      <4>2. /\ signed \in WriterSet /\ signed.frames = Append(b.frames, g)
            /\ signed.open = b.open /\ signed.index = b.index /\ signed.sent = b.sent
        BY <1>1, <3>1, <4>1, AppendFields
      <4>3. s = [signed EXCEPT !.sent = TRUE]
        BY <3>1
      <4> HIDE DEF s, signed
      <4>4. /\ s \in WriterSet /\ s.frames = signed.frames /\ s.open = signed.open
            /\ s.index = signed.index /\ s.sent = TRUE
        BY <4>2, <4>3 DEF WriterSet
      <4>5. Puts(b, s, g)
        BY <3>1, <4>1, <4>2, <4>4 DEF Puts
      <4>6. Belongs(g, b.open)
        BY <3>1, <4>1 DEF Belongs
      <4>7. WriterInv(s)
        BY <1>3, <4>1, <4>2, <4>4, <4>5, <4>6, PutDelta
      <4>8. Quiet(b, s)
        BY <4>1, <4>5, PutQuiet
      <4>9. s.sent = (b.sent \/ flush)
        BY <3>1, <4>4
      <4> QED
        BY <4>2, <4>4, <4>7, <4>8, <4>9
    <3>2. CASE ~flush
      <4>1. s = b /\ signed = b
        BY <3>2
      <4>2. b.sent = (b.sent \/ flush)
        BY <1>1, <3>2
      <4> HIDE DEF s, signed, flush
      <4> QED
        BY <1>1, <4>1, <4>2, QuietIs
    <3> QED
      BY <3>1, <3>2
  <2>3. CloseCurrent(b) = d
    BY <1>3 DEF CloseCurrent, Send
  <2>4. f \in FrameSet /\ f.type = "stop" /\ f.what = b.open /\ f.what # "signature"
        /\ f.index = b.index /\ Silent(f)
    <3>1. f \in FrameSet /\ b.open # "signature"
      BY <1>1, <1>3, FrameFields DEF Types, Whats, OpenKinds
    <3> QED
      BY <3>1 DEF Frame, Silent, Runes
  <2> HIDE DEF f, s, signed, flush
  <2>5. /\ t \in WriterSet /\ t.frames = Append(signed.frames, f) /\ t.open = b.open
        /\ t.index = b.index /\ t.sent = b.sent
    BY <2>2, <2>4, AppendFields
  <2> HIDE DEF t
  <2>6. z \in BOOLEAN /\ (s.sent => z)
    BY <2>2, <2>5
  <2> HIDE DEF z
  <2>7. /\ d \in WriterSet /\ d.frames = t.frames /\ d.open = "none"
        /\ d.index = b.index + 1 /\ d.sent = z
    <3> DEFINE T == Seq(FrameSet)
               S == [open : OpenKinds, index : Nat, pending : Nat, sent : BOOLEAN, frames : T]
               k == t.index + 1
    <3>1. t \in S
      BY <2>5 DEF WriterSet
    <3> HIDE DEF T
    <3>2. k \in Nat /\ "none" \in OpenKinds
      BY <1>1, <2>5 DEF OpenKinds
    <3>3. k = b.index + 1
      BY <2>5
    <3> HIDE DEF k
    <3>4. d = [t EXCEPT !.open = "none", !.index = k, !.sent = z]
      BY DEF k
    <3> HIDE DEF d
    <3>5. d \in S /\ d.frames = t.frames /\ d.open = "none" /\ d.index = k /\ d.sent = z
      BY <2>6, <3>1, <3>2, <3>4
    <3> QED
      BY <3>3, <3>5 DEF WriterSet, T
  <2> HIDE DEF d
  <2>8. Puts(s, d, f)
    BY <2>2, <2>4, <2>5, <2>6, <2>7 DEF Puts
  <2>9. WriterInv(d)
    BY <1>3, <2>1, <2>2, <2>4, <2>7, <2>8, PutStop
  <2>10. Quiet(s, d)
    BY <2>2, <2>4, <2>8, PutQuiet
  <2>11. Quiet(b, d)
    BY <2>2, <2>10, QuietIs
  <2> QED
    BY <2>3, <2>7, <2>9, <2>11
<1> QED
  BY <1>2, <1>3

\* ensure leaves a block of the kind open, and sends no text.
LEMMA EnsureWriter ==
  ASSUME NEW b, NEW kind, WriterInv(b), surface = "anthropic", kind \in OpenKinds \ {"none"}
  PROVE  /\ WriterInv(Ensure(b, kind)) /\ Quiet(b, Ensure(b, kind))
         /\ Ensure(b, kind).open = kind
<1>1. CASE b.open = kind
  <2>1. Ensure(b, kind) = b
    BY <1>1 DEF Ensure
  <2> QED
    BY <1>1, <2>1, QuietIs
<1>2. CASE b.open # kind
  <2> DEFINE a == CloseCurrent(b)
  <2>1. Ensure(b, kind) = Start(a, kind)
    BY <1>2 DEF Ensure
  <2>2. WriterInv(a) /\ Quiet(b, a) /\ a.open = "none"
    BY CloseCurrentWriter
  <2> HIDE DEF a
  <2>3. WriterInv(Start(a, kind)) /\ Quiet(a, Start(a, kind)) /\ Start(a, kind).open = kind
    BY <2>2, StartWriter
  <2>4. Quiet(b, Start(a, kind))
    BY <2>2, <2>3, QuietIs
  <2> QED
    BY <2>1, <2>3, <2>4
<1> QED
  BY <1>1, <1>2

\* A delta frame to the open block, whatever it carries.
LEMMA SendDelta ==
  ASSUME NEW b, WriterInv(b), NEW what, NEW n \in Nat,
         what \in {"text", "thinking", "redacted", "tool"},
         surface = "anthropic" => b.open = what
  PROVE  /\ WriterInv(Send(b, "delta", what, n)) /\ Send(b, "delta", what, n).open = b.open
         /\ Effect(b, Send(b, "delta", what, n), IF what = "text" THEN n ELSE 0,
                   IF what = "thinking" THEN n ELSE 0, <<>>)
<1> DEFINE f == Frame("delta", b.index, what, n, <<>>)
           d == Send(b, "delta", what, n)
<1>1. b \in WriterSet /\ b.index \in Nat
  BY DEF WriterInv, WriterSet
<1>2. /\ f \in FrameSet /\ f.type = "delta" /\ f.what = what /\ f.what # "signature"
      /\ f.index = b.index /\ f.n = n /\ f.calls = <<>>
  <2>1. f \in FrameSet
    BY <1>1, FrameFields DEF Types, Whats
  <2> QED
    BY <2>1 DEF Frame
<1>3. d = [b EXCEPT !.frames = Append(@, f)]
  BY DEF Send
<1> HIDE DEF d, f
<1>4. /\ d \in WriterSet /\ d.frames = Append(b.frames, f) /\ d.open = b.open
      /\ d.index = b.index /\ d.sent = b.sent
  BY <1>1, <1>2, <1>3, AppendFields
<1>5. Puts(b, d, f)
  BY <1>2, <1>4 DEF Puts
<1>6. WriterInv(d)
  BY <1>2, <1>4, <1>5, PutDelta DEF Belongs
<1>7. Runes(f, "text") = (IF what = "text" THEN n ELSE 0)
      /\ Runes(f, "thinking") = (IF what = "thinking" THEN n ELSE 0)
  BY <1>2 DEF Runes
<1>8. Effect(b, d, IF what = "text" THEN n ELSE 0, IF what = "thinking" THEN n ELSE 0, <<>>)
  BY <1>2, <1>5, <1>7, PutEffect
<1> QED
  BY <1>4, <1>6, <1>8 DEF d

\* A delta sends its runes under its kind, and nothing else.
LEMMA DeltaWriter ==
  ASSUME NEW b, WriterInv(b), NEW kind, NEW n \in Nat, kind \in {"text", "thinking"}
  PROVE  /\ WriterInv(Delta(b, kind, n))
         /\ Delta(b, kind, n).open \in {b.open, kind}
         /\ Effect(b, Delta(b, kind, n), IF kind = "text" THEN n ELSE 0,
                   IF kind = "thinking" THEN n ELSE 0, <<>>)
<1>1. CASE n = 0
  <2>1. Delta(b, kind, n) = b
    BY <1>1 DEF Delta
  <2>2. Quiet(b, b)
    BY QuietIs
  <2> QED
    BY <1>1, <2>1, <2>2 DEF Quiet
<1>2. CASE n # 0
  <2> DEFINE a == IF surface = "anthropic" THEN Ensure(b, kind) ELSE b
  <2>1. Delta(b, kind, n) = Send(a, "delta", kind, n)
    BY <1>2 DEF Delta
  <2>2. WriterInv(a) /\ Quiet(b, a) /\ a.open \in {b.open, kind}
        /\ (surface = "anthropic" => a.open = kind)
    <3>1. kind \in OpenKinds \ {"none"}
      BY DEF OpenKinds
    <3> QED
      BY <3>1, EnsureWriter, QuietIs
  <2> HIDE DEF a
  <2> DEFINE d == Send(a, "delta", kind, n)
  <2>3. WriterInv(d) /\ d.open = a.open
        /\ Effect(a, d, IF kind = "text" THEN n ELSE 0, IF kind = "thinking" THEN n ELSE 0, <<>>)
    BY <2>2, SendDelta
  <2> HIDE DEF d
  <2>4. Effect(b, d, IF kind = "text" THEN n ELSE 0, IF kind = "thinking" THEN n ELSE 0, <<>>)
    BY <2>2, <2>3, EffectAfterQuiet
  <2> QED
    BY <2>1, <2>2, <2>3, <2>4 DEF d
<1> QED
  BY <1>1, <1>2

\* A signature leaves a writer in order, and sends no text.
LEMMA SignatureWriter ==
  ASSUME NEW b, WriterInv(b), NEW n \in Nat
  PROVE  /\ WriterInv(Signature(b, n)) /\ Quiet(b, Signature(b, n))
         /\ Signature(b, n).open = b.open
<1>1. b \in WriterSet /\ b.index \in Nat /\ b.sent \in BOOLEAN
  BY DEF WriterInv, WriterSet
<1>2. CASE b.sent
  <2>1. Signature(b, n) = b
    BY <1>2 DEF Signature
  <2> QED
    BY <2>1, QuietIs
<1>3. CASE ~b.sent /\ (surface = "openai" \/ b.open = "thinking")
  <2> DEFINE f == Frame("delta", b.index, "signature", n, <<>>)
             s == [b EXCEPT !.frames = Append(@, f)]
             d == [s EXCEPT !.pending = n, !.sent = TRUE]
  <2>1. Signature(b, n) = d
    BY <1>3 DEF Signature, Send
  <2>2. f \in FrameSet /\ f.type = "delta" /\ f.what = "signature" /\ f.index = b.index /\ Silent(f)
    <3>1. f \in FrameSet
      BY <1>1, FrameFields DEF Types, Whats
    <3> QED
      BY <3>1 DEF Frame, Silent, Runes
  <2> HIDE DEF f
  <2>3. /\ s \in WriterSet /\ s.frames = Append(b.frames, f) /\ s.open = b.open /\ s.index = b.index
    BY <1>1, <2>2, AppendFields
  <2> HIDE DEF s
  <2>4. /\ d \in WriterSet /\ d.frames = s.frames /\ d.open = s.open /\ d.index = s.index
        /\ d.sent = TRUE
    BY <2>3 DEF WriterSet
  <2> HIDE DEF d
  <2>5. Puts(b, d, f)
    BY <1>3, <2>2, <2>3, <2>4 DEF Puts
  <2>6. surface = "anthropic" => b.open # "none" /\ Belongs(f, b.open)
    BY <1>3, <2>2 DEF Belongs
  <2>7. WriterInv(d)
    BY <2>2, <2>3, <2>4, <2>5, <2>6, PutDelta
  <2>8. Quiet(b, d)
    BY <2>2, <2>5, PutQuiet
  <2> QED
    BY <2>1, <2>3, <2>4, <2>7, <2>8
<1>4. CASE ~b.sent /\ ~(surface = "openai" \/ b.open = "thinking")
  <2> DEFINE d == [b EXCEPT !.pending = n]
  <2>1. Signature(b, n) = d
    BY <1>4 DEF Signature
  <2>2. /\ d \in WriterSet /\ d.frames = b.frames /\ d.open = b.open /\ d.index = b.index
        /\ d.sent = b.sent
    BY <1>1 DEF WriterSet
  <2> HIDE DEF d
  <2>3. WriterInv(d)
    BY <2>2 DEF WriterInv
  <2>4. Quiet(b, d)
    BY <2>2, QuietIs
  <2> QED
    BY <2>1, <2>2, <2>3, <2>4
<1> QED
  BY <1>1, <1>2, <1>3, <1>4

\* A redacted block leaves a writer in order with no block open, and sends no text.
LEMMA RedactedWriter ==
  ASSUME NEW b, WriterInv(b)
  PROVE  /\ WriterInv(RedactedThinking(b)) /\ Quiet(b, RedactedThinking(b))
         /\ RedactedThinking(b).open = "none"
<1>1. CASE surface = "openai"
  <2> DEFINE d == Send(b, "delta", "redacted", 0)
  <2>1. RedactedThinking(b) = d
    BY <1>1 DEF RedactedThinking
  <2>2. WriterInv(d) /\ d.open = b.open /\ Effect(b, d, 0, 0, <<>>)
    BY <1>1, SendDelta
  <2> HIDE DEF d
  <2> QED
    BY <1>1, <2>1, <2>2 DEF Quiet, WriterInv
<1>2. CASE surface # "openai"
  <2>1. surface = "anthropic" /\ "redacted" \in OpenKinds \ {"none"}
    BY <1>2 DEF WriterInv, OpenKinds
  <2> DEFINE a == CloseCurrent(b)
             s == Start(a, "redacted")
  <2>2. RedactedThinking(b) = CloseCurrent(s)
    BY <1>2 DEF RedactedThinking
  <2>3. WriterInv(a) /\ Quiet(b, a) /\ a.open = "none"
    BY CloseCurrentWriter
  <2> HIDE DEF a
  <2>4. WriterInv(s) /\ Quiet(a, s)
    BY <2>1, <2>3, StartWriter
  <2> HIDE DEF s
  <2>5. WriterInv(CloseCurrent(s)) /\ Quiet(s, CloseCurrent(s)) /\ CloseCurrent(s).open = "none"
    BY <2>4, CloseCurrentWriter
  <2>6. Quiet(b, CloseCurrent(s))
    BY <2>3, <2>4, <2>5, QuietIs
  <2> QED
    BY <2>2, <2>5, <2>6
<1> QED
  BY <1>1, <1>2

\* The calls of one frame, in a tool block or, on the OpenAI surface, anywhere.
LEMMA SendCallsWriter ==
  ASSUME NEW b, WriterInv(b), NEW calls \in Seq(CallSet), surface = "anthropic" => b.open = "tool"
  PROVE  /\ WriterInv(SendCalls(b, "delta", calls))
         /\ Effect(b, SendCalls(b, "delta", calls), 0, 0, calls)
<1> DEFINE f == Frame("delta", b.index, "tool", 0, calls)
           d == SendCalls(b, "delta", calls)
<1>1. b \in WriterSet /\ b.index \in Nat
  BY DEF WriterInv, WriterSet
<1>2. /\ f \in FrameSet /\ f.type = "delta" /\ f.what = "tool" /\ f.index = b.index
      /\ f.calls = calls /\ Runes(f, "text") = 0 /\ Runes(f, "thinking") = 0
  <2>1. f \in FrameSet
    BY <1>1, FrameFields DEF Types, Whats
  <2> QED
    BY <2>1 DEF Frame, Runes
<1>3. d = [b EXCEPT !.frames = Append(@, f)]
  BY DEF SendCalls
<1> HIDE DEF d, f
<1>4. /\ d \in WriterSet /\ d.frames = Append(b.frames, f) /\ d.open = b.open
      /\ d.index = b.index /\ d.sent = b.sent
  BY <1>1, <1>2, <1>3, AppendFields
<1>5. Puts(b, d, f)
  BY <1>2, <1>4 DEF Puts
<1>6. WriterInv(d)
  BY <1>2, <1>4, <1>5, PutDelta DEF Belongs
<1>7. Effect(b, d, 0, 0, calls)
  BY <1>2, <1>5, PutEffect
<1> QED
  BY <1>6, <1>7 DEF d

Block(a, call) == CloseCurrent(SendCalls(Start(CloseCurrent(a), "tool"), "delta", <<call>>))

\* A call's block delivers that call.
LEMMA BlockWriter ==
  ASSUME NEW a, WriterInv(a), surface = "anthropic", NEW call \in CallSet
  PROVE  WriterInv(Block(a, call)) /\ Effect(a, Block(a, call), 0, 0, <<call>>)
<1> DEFINE closed  == CloseCurrent(a)
           started == Start(closed, "tool")
           sent    == SendCalls(started, "delta", <<call>>)
<1>1. WriterInv(closed) /\ Quiet(a, closed) /\ closed.open = "none"
  BY CloseCurrentWriter
<1>2. WriterInv(started) /\ Quiet(closed, started) /\ started.open = "tool"
  <2>1. "tool" \in OpenKinds \ {"none"}
    BY DEF OpenKinds
  <2> HIDE DEF closed
  <2> QED
    BY <1>1, <2>1, StartWriter
<1>3. WriterInv(sent) /\ Effect(started, sent, 0, 0, <<call>>)
  <2>1. <<call>> \in Seq(CallSet)
    OBVIOUS
  <2> HIDE DEF started
  <2> QED
    BY <1>2, <2>1, SendCallsWriter
<1>4. Block(a, call) = CloseCurrent(sent)
  BY DEF Block
<1> HIDE DEF closed, started, sent
<1>5. WriterInv(CloseCurrent(sent)) /\ Quiet(sent, CloseCurrent(sent))
  BY <1>3, CloseCurrentWriter
<1>6. Effect(closed, sent, 0, 0, <<call>>)
  BY <1>1, <1>2, <1>3, EffectAfterQuiet
<1>7. Effect(a, sent, 0, 0, <<call>>)
  BY <1>1, <1>6, EffectAfterQuiet
<1>8. Effect(a, CloseCurrent(sent), 0, 0, <<call>>)
  BY <1>3, <1>5, <1>7, QuietAfterEffect
<1> QED
  BY <1>4, <1>5, <1>8

\* All the blocks of ToolCalls, by recursion over the calls.
LEMMA BlocksWriter ==
  ASSUME NEW b, WriterInv(b), surface = "anthropic", NEW calls \in Seq(CallSet)
  PROVE  WriterInv(ToolCalls(b, calls)) /\ Effect(b, ToolCalls(b, calls), 0, 0, calls)
<1> DEFINE N == Len(calls)
           Good == {a \in WriterSet : WriterInv(a)}
           Def(f) == [n \in 0 .. N |-> IF n = 0 THEN b ELSE Block(f[n - 1], calls[n])]
           step == [n \in 1 .. N |-> [a \in Good |-> Block(a, calls[n])]]
           after == CHOOSE f : f = Def(f)
<1>1. N \in Nat /\ \A n \in 1 .. N : calls[n] \in CallSet
  OBVIOUS
<1>2. b \in Good /\ \A a \in Good : WriterInv(a)
  BY DEF WriterInv
<1>3. ToolCalls(b, calls) = after[N]
  BY DEF ToolCalls, Block
<1> HIDE DEF N
<1>4. ASSUME NEW n \in 1 .. N, NEW a \in Good PROVE Block(a, calls[n]) \in Good
  <2>1. WriterInv(a) /\ calls[n] \in CallSet
    BY <1>1
  <2>2. WriterInv(Block(a, calls[n]))
    BY <2>1, BlockWriter
  <2> QED
    BY <2>2 DEF WriterInv
<1> HIDE DEF Good
<1>5. step \in [1 .. N -> [Good -> Good]]
  BY <1>4
<1>6. PICK h : Follows(h, Good, N, step, b)
  <2> HIDE DEF step
  <2> QED
    BY <1>1, <1>2, <1>5, RecursionExists
<1>7. h \in [0 .. N -> Good] /\ h[0] = b
  BY <1>6 DEF Follows
<1>8. ASSUME NEW n \in 1 .. N PROVE h[n - 1] \in Good /\ h[n] = Block(h[n - 1], calls[n])
  <2>1. n - 1 \in 0 .. N
    BY <1>1
  <2>2. h[n - 1] \in Good
    BY <1>7, <2>1
  <2> QED
    BY <1>6, <2>2 DEF Follows
<1>9. h = Def(h)
  <2>1. ASSUME NEW n \in 0 .. N PROVE h[n] = Def(h)[n]
    <3>1. n # 0 => n \in 1 .. N
      BY <1>1
    <3> QED
      BY <1>7, <1>8, <3>1
  <2>2. h = [n \in 0 .. N |-> h[n]]
    BY <1>7
  <2> QED
    BY <2>1, <2>2
<1>10. after = Def(after)
  <2> HIDE DEF Def
  <2> QED
    BY <1>9
<1> HIDE DEF after
<1>11. after[N] = h[N]
  <2>1. after[0] = h[0]
    BY <1>1, <1>7, <1>10
  <2>2. \A n \in 1 .. N : after[n - 1] = h[n - 1] => after[n] = h[n]
    <3>1. ASSUME NEW n \in 1 .. N, after[n - 1] = h[n - 1] PROVE after[n] = h[n]
      <4>1. n \in 0 .. N /\ n # 0
        BY <1>1
      <4>2. after[n] = Block(after[n - 1], calls[n])
        BY <1>10, <4>1
      <4> QED
        BY <1>8, <3>1, <4>2
    <3> QED
      BY <3>1
  <2> HIDE DEF Def
  <2>3. N \in Nat
    BY <1>1
  <2>4. \A n \in 0 .. N : after[n] = h[n]
    BY <2>1, <2>2, <2>3, RecursionUnique, SMTT(30) DEF InStep
  <2> QED
    BY <2>3, <2>4
<1> HIDE DEF Def, step
<1> DEFINE E(n) == Effect(b, h[n], 0, 0, SubSeq(calls, 1, n))
           bad == {n \in 0 .. N : ~E(n)}
<1>12. bad = {}
  <2>1. SUFFICES ASSUME bad # {} PROVE FALSE
    OBVIOUS
  <2>2. PICK k \in bad : \A m \in bad : k <= m
    <3>1. bad \subseteq Nat
      OBVIOUS
    <3> HIDE DEF bad
    <3> QED
      BY <3>1, <2>1, LeastOf
  <2>3. k \in 0 .. N /\ ~E(k)
    OBVIOUS
  <2>4. CASE k = 0
    <3>1. SubSeq(calls, 1, k) = <<>> /\ h[k] = b
      BY <1>7, <2>4, SubSeqEmpty
    <3>2. Quiet(b, b)
      BY QuietIs
    <3> QED
      BY <2>3, <3>1, <3>2 DEF Quiet
  <2>5. CASE k # 0
    <3>1. k \in 1 .. N /\ k - 1 \in 0 .. N
      BY <2>3, <2>5, <1>1
    <3>2. k - 1 \notin bad
      <4>1. k - 1 \in bad => k <= k - 1
        BY <2>2
      <4> QED
        BY <4>1, <3>1
    <3>3. E(k - 1)
      BY <3>1, <3>2
    <3> HIDE DEF bad
    <3>4. Effect(h[k - 1], h[k], 0, 0, <<calls[k]>>)
      <4>1. WriterInv(h[k - 1]) /\ calls[k] \in CallSet
        BY <1>1, <1>2, <1>8, <3>1
      <4>2. h[k] = Block(h[k - 1], calls[k])
        BY <1>8, <3>1
      <4> QED
        BY <4>1, <4>2, BlockWriter
    <3>5. SubSeq(calls, 1, k) = SubSeq(calls, 1, k - 1) \o <<calls[k]>>
      <4>1. 1 \in 1 .. Len(calls) /\ k \in 1 .. Len(calls)
        BY <3>1 DEF N
      <4> QED
        BY <4>1, SubSeqRecursiveSecond
    <3>6. SubSeq(calls, 1, k - 1) \in Seq(CallSet) /\ <<calls[k]>> \in Seq(CallSet)
      <4>1. 1 \in Int /\ k - 1 \in Int /\ \A m \in 1 .. k - 1 : calls[m] \in CallSet
        BY <1>1, <3>1
      <4> QED
        BY <4>1, <1>1, <3>1, SubSeqProperties
    <3>7. E(k)
      <4>1. WriterInv(b) /\ Effect(b, h[k - 1], 0, 0, SubSeq(calls, 1, k - 1))
        BY <3>3
      <4> QED
        BY <3>4, <3>5, <3>6, <4>1, EffectAfterEffect
    <3> QED
      BY <2>3, <3>7
  <2> QED
    BY <2>4, <2>5
<1>13. N \in 0 .. N
  BY <1>1
<1>14. E(N)
  BY <1>12, <1>13
<1> HIDE DEF bad
<1>15. SubSeq(calls, 1, N) = calls
  BY SubSeqFull DEF N
<1> QED
  BY <1>2, <1>3, <1>7, <1>11, <1>13, <1>14, <1>15

\* The calls are delivered in order on either surface.
LEMMA ToolCallsWriter ==
  ASSUME NEW b, WriterInv(b), NEW calls \in Seq(CallSet)
  PROVE  WriterInv(ToolCalls(b, calls)) /\ Effect(b, ToolCalls(b, calls), 0, 0, calls)
<1>1. CASE surface = "anthropic"
  BY <1>1, BlocksWriter
<1>2. CASE surface # "anthropic" /\ calls = <<>>
  <2>1. ToolCalls(b, calls) = b
    BY <1>2 DEF ToolCalls
  <2>2. Quiet(b, b)
    BY QuietIs
  <2> QED
    BY <1>2, <2>1, <2>2 DEF Quiet
<1>3. CASE surface # "anthropic" /\ calls # <<>>
  <2>1. ToolCalls(b, calls) = SendCalls(b, "delta", calls)
    BY <1>3 DEF ToolCalls
  <2> QED
    BY <1>3, <2>1, SendCallsWriter
<1> QED
  BY <1>1, <1>2, <1>3

-----------------------------------------------------------------------------
(* The ceiling.                                                             *)

Estimates(runes) == Corrected(Estimate(runes))

\* The corrected estimate never falls when runes are added.
LEMMA EstimateGrows ==
  ASSUME NEW a \in Nat, NEW b \in Nat, a <= b
  PROVE  Estimates(a) \in Nat /\ Estimates(a) <= Estimates(b)
<1>1. Estimate(a) \in Nat /\ Estimate(b) \in Nat /\ Estimate(a) <= Estimate(b)
  BY DEF Estimate
<1> QED
  BY <1>1 DEF Estimates, Corrected

\* More runes never need fewer tokens.
LEMMA TokensGrow ==
  ASSUME NEW a \in Nat, NEW b \in Nat, NEW x \in Nat, NEW y \in Nat, a <= b, x <= y
  PROVE  Tokens(a, x) \in Nat /\ Tokens(a, x) <= Tokens(b, y)
<1>1. Tokens(a, x) = Estimates(a) + Estimates(x) /\ Tokens(b, y) = Estimates(b) + Estimates(y)
  BY DEF Tokens, Estimates
<1>2. Estimates(a) \in Nat /\ Estimates(a) <= Estimates(b) /\ Estimates(b) \in Nat
      /\ Estimates(x) \in Nat /\ Estimates(x) <= Estimates(y) /\ Estimates(y) \in Nat
  BY EstimateGrows
<1> QED
  BY <1>1, <1>2

\* No runes need no tokens.
LEMMA TokensOfNothing == Tokens(0, 0) = 0
BY DEF Tokens, Estimate, Corrected

\* The tokens after n more runes of one kind.
After(content, reasoning, kind, n) ==
    Tokens(IF kind = "content" THEN content + n ELSE content,
           IF kind = "reasoning" THEN reasoning + n ELSE reasoning)

\* t is as much of these runes as the ceiling admits.
IsTake(l, exhausted, content, reasoning, kind, runes, t) ==
    /\ t \in 0 .. runes
    /\ l = 0 => t = runes
    /\ l # 0 /\ exhausted => t = 0
    /\ l # 0 /\ ~exhausted =>
          /\ t = 0 \/ After(content, reasoning, kind, t) <= l
          /\ \A n \in 0 .. runes : After(content, reasoning, kind, n) <= l => n <= t

\* Take admits the most that fits under the ceiling.
LEMMA TakeIs ==
  ASSUME limit \in Nat, c.content \in Nat, c.reasoning \in Nat, NEW kind, NEW runes \in Nat,
         kind \in {"content", "reasoning"}
  PROVE  IsTake(limit, c.exhausted, c.content, c.reasoning, kind, runes,
                Take(runes, kind = "reasoning"))
<1> DEFINE Fit(n) == After(c.content, c.reasoning, kind, n) <= limit
           S == {n \in 0 .. runes : n = 0 \/ Fit(n)}
<1>1. CASE limit = 0
  BY <1>1 DEF Take, IsTake
<1>2. CASE limit # 0 /\ c.exhausted
  BY <1>2 DEF Take, IsTake
<1>3. CASE limit # 0 /\ ~c.exhausted
  <2>1. Take(runes, kind = "reasoning") = Max(S)
    <3>1. CASE kind = "reasoning"
      BY <1>3, <3>1 DEF Take, After
    <3>2. CASE kind = "content"
      BY <1>3, <3>2 DEF Take, After
    <3> QED
      BY <3>1, <3>2
  <2>2. S \subseteq Nat /\ 0 \in S /\ \A n \in S : n <= runes
    OBVIOUS
  <2> HIDE DEF S
  <2>3. Max(S) \in S /\ \A n \in S : n <= Max(S)
    BY <2>2, GreatestOf
  <2>4. Max(S) \in 0 .. runes /\ (Max(S) = 0 \/ Fit(Max(S)))
    BY <2>3 DEF S
  <2>5. \A n \in 0 .. runes : Fit(n) => n <= Max(S)
    BY <2>3 DEF S
  <2> QED
    BY <1>3, <2>1, <2>4, <2>5 DEF IsTake
<1> QED
  BY <1>1, <1>2, <1>3

-----------------------------------------------------------------------------

FlowOf(events) ==
    FlattenSeq([i \in DOMAIN events |-> [k \in 1 .. events[i].runes |-> events[i].kind]])
CountIn(flow, kind, n) == Cardinality({k \in 1 .. n : flow[k] = kind})

Burst(e) == [k \in 1 .. e.runes |-> e.kind]

\* The fields of an event.
LEMMA EventFacts ==
  ASSUME NEW e \in Events
  PROVE  /\ e.kind \in EventKinds /\ e.runes \in Nat /\ e.signature \in BOOLEAN
         /\ e.redacted \in BOOLEAN /\ e.id \in STRING /\ e.piece \in STRING /\ e.reason \in STRING
BY ResponseAssumption DEF ResponseAssumption

\* An event more puts its burst behind the flow.
LEMMA FlowAppend ==
  ASSUME NEW events \in Seq(Events), NEW e \in Events
  PROVE  /\ FlowOf(events) \in Seq(EventKinds) /\ Burst(e) \in Seq(EventKinds)
         /\ FlowOf(Append(events, e)) = FlowOf(events) \o Burst(e)
<1> DEFINE more == Append(events, e)
           ss   == [i \in DOMAIN events |-> Burst(events[i])]
           tt   == [i \in DOMAIN more |-> Burst(more[i])]
           n    == Len(events) + 1
           T    == Seq(EventKinds)
<1>1. /\ DOMAIN more = 1 .. n /\ DOMAIN events = 1 .. n - 1 /\ n \in Nat \ {0} /\ more[n] = e
      /\ \A j \in 1 .. n - 1 : more[j] = events[j] /\ events[j] \in Events
  OBVIOUS
<1>2. \A x \in Events : Burst(x) \in T
  BY EventFacts DEF Burst
<1> HIDE DEF n, more, T
<1>3. ss \in Seq(T) /\ Len(ss) = n - 1 /\ Burst(e) \in T
  BY <1>1, <1>2
<1> DEFINE uu == Append(ss, Burst(e))
<1>4. tt = uu
  <2>1. tt \in Seq(T) /\ Len(tt) = n
    BY <1>1, <1>2
  <2>2. uu \in Seq(T) /\ Len(uu) = n /\ uu[n] = Burst(e) /\ \A i \in 1 .. n - 1 : uu[i] = ss[i]
    BY <1>1, <1>2, <1>3
  <2>3. ASSUME NEW i \in 1 .. n PROVE tt[i] = uu[i]
    <3>1. CASE i = n
      BY <3>1, <2>2, <1>1
    <3>2. CASE i # n
      <4>1. i \in 1 .. n - 1
        BY <3>2, <1>1
      <4> QED
        BY <4>1, <2>2, <1>1
    <3> QED
      BY <3>1, <3>2
  <2> HIDE DEF tt, uu
  <2> QED
    BY <2>1, <2>2, <2>3, SeqEqual
<1>5. FlattenSeq(ss) \in Seq(EventKinds) /\ FlattenSeq(uu) = FlattenSeq(ss) \o Burst(e)
  <2> HIDE DEF ss
  <2> QED
    BY <1>2, <1>3, FlattenAppend DEF T
<1>6. FlowOf(events) = FlattenSeq(ss) /\ FlowOf(more) = FlattenSeq(tt)
  BY DEF FlowOf, Burst
<1> QED
  BY <1>3, <1>4, <1>5, <1>6 DEF more, T

\* A count grows by one where the flow has the kind, and never falls.
LEMMA CountFacts ==
  ASSUME NEW flow, NEW kind, NEW n \in Nat
  PROVE  /\ CountIn(flow, kind, n) \in Nat /\ CountIn(flow, kind, 0) = 0
         /\ CountIn(flow, kind, n + 1) =
               CountIn(flow, kind, n) + (IF flow[n + 1] = kind THEN 1 ELSE 0)
         /\ \A m \in 0 .. n : CountIn(flow, kind, m) <= CountIn(flow, kind, n)
<1> DEFINE S(m) == {k \in 1 .. m : flow[k] = kind}
<1>1. \A m \in Nat : IsFiniteSet(S(m)) /\ Cardinality(S(m)) \in Nat
  <2>1. ASSUME NEW m \in Nat PROVE IsFiniteSet(S(m)) /\ Cardinality(S(m)) \in Nat
    <3>1. IsFiniteSet(1 .. m) /\ S(m) \in SUBSET (1 .. m)
      BY FS_Interval, 1 \in Int, m \in Int
    <3> HIDE DEF S
    <3> QED
      BY <3>1, FS_Subset, FS_CardinalityType
  <2> QED
    BY <2>1
<1>2. S(0) = {} /\ Cardinality(S(0)) = 0
  BY FS_EmptySet
<1>3. Cardinality(S(n + 1)) = Cardinality(S(n)) + (IF flow[n + 1] = kind THEN 1 ELSE 0)
  <2>1. CASE flow[n + 1] = kind
    <3>1. S(n + 1) = S(n) \cup {n + 1} /\ n + 1 \notin S(n)
      BY <2>1
    <3>2. IsFiniteSet(S(n))
      BY <1>1
    <3> HIDE DEF S
    <3>3. Cardinality(S(n) \cup {n + 1}) = Cardinality(S(n)) + 1
      BY <3>1, <3>2, FS_AddElement
    <3> QED
      BY <2>1, <3>1, <3>3
  <2>2. CASE flow[n + 1] # kind
    <3>1. S(n + 1) = S(n)
      BY <2>2
    <3>2. Cardinality(S(n)) \in Nat
      BY <1>1
    <3> HIDE DEF S
    <3> QED
      BY <2>2, <3>1, <3>2
  <2> QED
    BY <2>1, <2>2
<1>4. ASSUME NEW m \in 0 .. n PROVE Cardinality(S(m)) <= Cardinality(S(n))
  <2>1. S(m) \in SUBSET S(n) /\ IsFiniteSet(S(n))
    BY <1>1
  <2> HIDE DEF S
  <2> QED
    BY <2>1, FS_Subset
<1> QED
  BY <1>1, <1>2, <1>3, <1>4 DEF CountIn

\* A count grows by one where the flow has the kind.
LEMMA CountStep ==
  ASSUME NEW flow, NEW kind, NEW n \in Nat
  PROVE  CountIn(flow, kind, n + 1) = CountIn(flow, kind, n) + (IF flow[n + 1] = kind THEN 1 ELSE 0)
BY CountFacts

\* A count never falls.
LEMMA CountGrows ==
  ASSUME NEW flow, NEW kind, NEW n \in Nat, NEW m \in 0 .. n
  PROVE  /\ CountIn(flow, kind, m) \in Nat /\ CountIn(flow, kind, n) \in Nat
         /\ CountIn(flow, kind, m) <= CountIn(flow, kind, n)
<1>1. m \in Nat
  OBVIOUS
<1> QED
  BY <1>1, CountFacts

\* A burst behind the flow leaves the counts before it and adds to those of its kind.
LEMMA CountBurst ==
  ASSUME NEW flow \in Seq(EventKinds), NEW e \in Events, NEW kind
  PROVE  /\ \A n \in 0 .. Len(flow) :
               CountIn(flow \o Burst(e), kind, n) = CountIn(flow, kind, n)
         /\ \A k \in 0 .. e.runes :
               CountIn(flow \o Burst(e), kind, Len(flow) + k) =
                  CountIn(flow, kind, Len(flow)) + (IF e.kind = kind THEN k ELSE 0)
<1> DEFINE more == flow \o Burst(e)
           L    == Len(flow)
<1>1. e.runes \in Nat /\ e.kind \in EventKinds /\ L \in Nat /\ Burst(e) \in Seq(EventKinds)
      /\ Len(Burst(e)) = e.runes /\ \A k \in 1 .. e.runes : Burst(e)[k] = e.kind
  <2>1. e.runes \in Nat /\ e.kind \in EventKinds
    BY EventFacts
  <2> QED
    BY <2>1 DEF Burst
<1>2. /\ \A n \in 1 .. L : more[n] = flow[n]
      /\ \A k \in 1 .. e.runes : more[L + k] = e.kind
  BY <1>1
<1> HIDE DEF more
<1>3. ASSUME NEW n \in 0 .. L PROVE CountIn(more, kind, n) = CountIn(flow, kind, n)
  <2>1. {k \in 1 .. n : more[k] = kind} = {k \in 1 .. n : flow[k] = kind}
    BY <1>1, <1>2
  <2> QED
    BY <2>1 DEF CountIn
<1> HIDE DEF L
<1> DEFINE G(k) == CountIn(more, kind, L + k) =
                      CountIn(flow, kind, L) + (IF e.kind = kind THEN k ELSE 0)
           bad == {k \in 0 .. e.runes : ~G(k)}
<1>4. bad = {}
  <2>1. SUFFICES ASSUME bad # {} PROVE FALSE
    OBVIOUS
  <2>2. PICK k \in bad : \A m \in bad : k <= m
    <3>1. bad \subseteq Nat
      BY <1>1
    <3> HIDE DEF bad
    <3> QED
      BY <3>1, <2>1, LeastOf
  <2>3. k \in 0 .. e.runes /\ ~G(k)
    OBVIOUS
  <2>4. CountIn(flow, kind, L) \in Nat
    BY <1>1, CountFacts
  <2>5. CASE k = 0
    <3>1. L + k = L /\ L \in 0 .. L
      BY <1>1, <2>5
    <3>2. CountIn(more, kind, L + k) = CountIn(flow, kind, L)
      BY <1>3, <3>1
    <3> QED
      BY <2>3, <2>4, <2>5, <3>2
  <2>6. CASE k # 0
    <3>1. k - 1 \in 0 .. e.runes /\ k \in 1 .. e.runes
      BY <2>3, <2>6, <1>1
    <3>2. k - 1 \notin bad
      <4>1. k - 1 \in bad => k <= k - 1
        BY <2>2
      <4> QED
        BY <4>1, <3>1
    <3>3. G(k - 1)
      BY <3>1, <3>2
    <3> HIDE DEF bad
    <3>4. PICK m \in Nat : m = L + (k - 1) /\ m + 1 = L + k
      BY <1>1, <3>1
    <3>5. CountIn(more, kind, m + 1) = CountIn(more, kind, m) + (IF more[m + 1] = kind THEN 1 ELSE 0)
      BY <3>4, CountStep
    <3>6. more[L + k] = e.kind
      BY <1>2, <3>1
    <3> QED
      BY <2>3, <2>4, <3>1, <3>3, <3>4, <3>5, <3>6
  <2> QED
    BY <2>5, <2>6
<1> QED
  BY <1>3, <1>4 DEF more, L

-----------------------------------------------------------------------------
(* Where the output is cut.                                                 *)

Fits(l, flow, n) ==
    l = 0 \/ Tokens(CountIn(flow, "content", n), CountIn(flow, "reasoning", n)) <= l

\* The first cut runes of the output are what was collected, and no more would fit.
IsCut(l, flow, cut, content, reasoning, exhausted) ==
    /\ l \in Nat /\ flow \in Seq(EventKinds)
    /\ cut \in 0 .. Len(flow)
    /\ content = CountIn(flow, "content", cut)
    /\ reasoning = CountIn(flow, "reasoning", cut)
    /\ exhausted \in BOOLEAN /\ (exhausted <=> cut < Len(flow))
    /\ Fits(l, flow, cut)
    /\ cut < Len(flow) => ~Fits(l, flow, cut + 1)

\* Runes behind a cut do not move it.
LEMMA CutStays ==
  ASSUME NEW l, NEW flow, NEW cut, NEW content, NEW reasoning,
         IsCut(l, flow, cut, content, reasoning, TRUE), NEW e \in Events
  PROVE  IsCut(l, flow \o Burst(e), cut, content, reasoning, TRUE)
<1> DEFINE more == flow \o Burst(e)
           L    == Len(flow)
<1>1. /\ l \in Nat /\ flow \in Seq(EventKinds) /\ cut \in 0 .. L /\ cut < L /\ L \in Nat
      /\ content = CountIn(flow, "content", cut) /\ reasoning = CountIn(flow, "reasoning", cut)
      /\ Fits(l, flow, cut) /\ ~Fits(l, flow, cut + 1)
  BY DEF IsCut
<1>2. e.runes \in Nat /\ Burst(e) \in Seq(EventKinds)
  BY EventFacts DEF Burst
<1>3. more \in Seq(EventKinds) /\ Len(more) \in Nat /\ L <= Len(more)
  BY <1>1, <1>2
<1> HIDE DEF more
<1>4. ASSUME NEW n \in 0 .. L
      PROVE  /\ CountIn(more, "content", n) = CountIn(flow, "content", n)
             /\ CountIn(more, "reasoning", n) = CountIn(flow, "reasoning", n)
  BY <1>1, CountBurst DEF more
<1>5. cut \in 0 .. L /\ cut + 1 \in 0 .. L
  BY <1>1
<1> HIDE DEF L
<1>6. Fits(l, more, cut) /\ ~Fits(l, more, cut + 1)
  BY <1>1, <1>4, <1>5 DEF Fits
<1>7. cut \in 0 .. Len(more) /\ cut < Len(more)
  BY <1>1, <1>3
<1> QED
  BY <1>1, <1>3, <1>4, <1>5, <1>6, <1>7 DEF IsCut, more

\* Runes that are not counted are let through.
LEMMA CutPasses ==
  ASSUME NEW l, NEW flow, NEW cut, NEW content, NEW reasoning,
         IsCut(l, flow, cut, content, reasoning, FALSE), NEW e \in Events,
         e.kind \notin {"content", "reasoning"}
  PROVE  IsCut(l, flow \o Burst(e), Len(flow \o Burst(e)), content, reasoning, FALSE)
<1> DEFINE more == flow \o Burst(e)
           L    == Len(flow)
           M    == Len(more)
<1>1. /\ l \in Nat /\ flow \in Seq(EventKinds) /\ cut = L /\ L \in Nat
      /\ content = CountIn(flow, "content", cut) /\ reasoning = CountIn(flow, "reasoning", cut)
      /\ Fits(l, flow, cut)
  BY DEF IsCut
<1>2. e.runes \in Nat /\ Burst(e) \in Seq(EventKinds) /\ Len(Burst(e)) = e.runes
  BY EventFacts DEF Burst
<1>3. more \in Seq(EventKinds) /\ M = L + e.runes /\ M \in Nat
  BY <1>1, <1>2
<1> HIDE DEF more, M
<1>4. ASSUME NEW kind \in {"content", "reasoning"}
      PROVE  CountIn(more, kind, M) = CountIn(flow, kind, L)
  <2>1. e.runes \in 0 .. e.runes /\ e.kind # kind
    BY <1>2
  <2>2. CountIn(more, kind, Len(flow) + e.runes) = CountIn(flow, kind, Len(flow)) + 0
    BY <1>1, <2>1, CountBurst DEF more
  <2>3. CountIn(flow, kind, L) \in Nat
    BY <1>1, CountFacts
  <2> QED
    BY <1>3, <2>2, <2>3
<1> HIDE DEF L
<1>5. Fits(l, more, M)
  BY <1>1, <1>4 DEF Fits
<1>6. M \in 0 .. M /\ ~(M < M)
  BY <1>3
<1>7. content = CountIn(more, "content", M) /\ reasoning = CountIn(more, "reasoning", M)
  BY <1>1, <1>4
<1>8. M = Len(more)
  BY DEF M
<1> QED
  BY <1>1, <1>3, <1>5, <1>6, <1>7, <1>8 DEF IsCut, more

\* What t runes of this chunk make of the counters.
IsMove(e, content, reasoning, t, x, y, z) ==
    /\ e.kind \in {"content", "reasoning"}
    /\ x = IF e.kind = "content" THEN content + t ELSE content
    /\ y = IF e.kind = "reasoning" THEN reasoning + t ELSE reasoning
    /\ z \in BOOLEAN /\ (z <=> t < e.runes)

\* What is taken of a chunk moves the cut to the last rune that fits.
LEMMA CutMoves ==
  ASSUME NEW l, NEW flow, NEW cut, NEW content, NEW reasoning,
         IsCut(l, flow, cut, content, reasoning, FALSE), NEW e \in Events, NEW t,
         IsTake(l, FALSE, content, reasoning, e.kind, e.runes, t),
         NEW x, NEW y, NEW z, IsMove(e, content, reasoning, t, x, y, z)
  PROVE  IsCut(l, flow \o Burst(e), Len(flow) + t, x, y, z)
<1> DEFINE more == flow \o Burst(e)
           L    == Len(flow)
           Content(n) == IF e.kind = "content" THEN content + n ELSE content
           Reasoning(n) == IF e.kind = "reasoning" THEN reasoning + n ELSE reasoning
<1>1. /\ l \in Nat /\ flow \in Seq(EventKinds) /\ cut = L /\ L \in Nat
      /\ content = CountIn(flow, "content", L) /\ reasoning = CountIn(flow, "reasoning", L)
      /\ Fits(l, flow, L)
  BY DEF IsCut
<1>2. /\ e.kind \in {"content", "reasoning"} /\ z \in BOOLEAN /\ (z <=> t < e.runes)
      /\ x = Content(t) /\ y = Reasoning(t)
  BY DEF IsMove
<1>3. e.runes \in Nat /\ Burst(e) \in Seq(EventKinds) /\ Len(Burst(e)) = e.runes
  BY EventFacts DEF Burst
<1>4. more \in Seq(EventKinds) /\ Len(more) = L + e.runes
  BY <1>1, <1>3
<1> HIDE DEF more
<1>5. content \in Nat /\ reasoning \in Nat
  BY <1>1, CountFacts
<1>6. ASSUME NEW n \in 0 .. e.runes
      PROVE  /\ CountIn(more, "content", L + n) = Content(n)
             /\ CountIn(more, "reasoning", L + n) = Reasoning(n)
  <2>1. e.kind \in {"content", "reasoning"}
    BY <1>2
  <2>2. /\ CountIn(more, "content", L + n) = content + (IF e.kind = "content" THEN n ELSE 0)
        /\ CountIn(more, "reasoning", L + n) = reasoning + (IF e.kind = "reasoning" THEN n ELSE 0)
    BY <1>1, CountBurst DEF more
  <2> QED
    BY <2>1, <2>2, <1>5
<1>7. ASSUME NEW n \in 0 .. e.runes
      PROVE  Fits(l, more, L + n) <=> l = 0 \/ After(content, reasoning, e.kind, n) <= l
  BY <1>2, <1>6 DEF Fits, After
<1>8. t \in 0 .. e.runes /\ t \in Nat /\ L + t \in 0 .. Len(more)
  BY <1>1, <1>3, <1>4 DEF IsTake
<1>9. (t < e.runes) <=> L + t < Len(more)
  BY <1>1, <1>3, <1>4, <1>8
<1>10. Fits(l, more, L + t)
  <2>1. CASE t = 0
    <3>1. L + t = L /\ Content(0) = content /\ Reasoning(0) = reasoning
      BY <2>1, <1>1, <1>5
    <3>2. CountIn(more, "content", L + t) = content /\ CountIn(more, "reasoning", L + t) = reasoning
      BY <2>1, <3>1, <1>6, <1>8
    <3> QED
      BY <3>2, <1>1 DEF Fits
  <2>2. CASE t # 0
    <3>1. l = 0 \/ After(content, reasoning, e.kind, t) <= l
      BY <2>2, <1>1 DEF IsTake
    <3> QED
      BY <3>1, <1>7, <1>8
  <2> QED
    BY <2>1, <2>2
<1>11. ASSUME L + t < Len(more) PROVE ~Fits(l, more, (L + t) + 1)
  <2>1. t < e.runes /\ t + 1 \in 0 .. e.runes /\ ~(t + 1 <= t)
    BY <1>3, <1>8, <1>9, <1>11
  <2>2. l # 0 /\ ~(After(content, reasoning, e.kind, t + 1) <= l)
    BY <2>1, <1>1 DEF IsTake
  <2>3. ~Fits(l, more, L + (t + 1))
    BY <2>1, <2>2, <1>7
  <2>4. L + (t + 1) = (L + t) + 1
    BY <1>1, <1>8
  <2> QED
    BY <2>3, <2>4
<1>12. x = CountIn(more, "content", L + t) /\ y = CountIn(more, "reasoning", L + t)
  BY <1>2, <1>6, <1>8
<1> HIDE DEF Content, Reasoning, L
<1>13. IsCut(l, more, L + t, x, y, z)
  BY <1>2, <1>1, <1>4, <1>8, <1>9, <1>10, <1>11, <1>12 DEF IsCut
<1> QED
  BY <1>13 DEF L, more

\* With nothing read, nothing is cut.
LEMMA CutOfNothing ==
  ASSUME NEW l \in Nat
  PROVE  IsCut(l, FlowOf(<<>>), 0, 0, 0, FALSE)
<1>1. FlowOf(<<>>) = <<>>
  <2>1. [i \in DOMAIN <<>> |-> [k \in 1 .. <<>>[i].runes |-> <<>>[i].kind]] = <<>>
    OBVIOUS
  <2> QED
    BY <2>1, FlattenEmpty DEF FlowOf
<1>2. CountIn(<<>>, "content", 0) = 0 /\ CountIn(<<>>, "reasoning", 0) = 0
  BY CountFacts, 0 \in Nat
<1>3. Fits(l, <<>>, 0)
  BY <1>2, TokensOfNothing DEF Fits
<1>4. <<>> \in Seq(EventKinds) /\ Len(<<>>) = 0 /\ 0 \in 0 .. 0
  OBVIOUS
<1> DEFINE nothing == <<>>
<1>5. nothing \in Seq(EventKinds) /\ Len(nothing) = 0 /\ nothing = <<>>
  BY <1>4
<1> HIDE DEF nothing
<1>6. IsCut(l, nothing, 0, 0, 0, FALSE)
  BY <1>2, <1>3, <1>5 DEF IsCut
<1> QED
  BY <1>1, <1>5, <1>6

\* The cut is where CeilingMet puts it: at the longest beginning that fits.
LEMMA CutIsLongest ==
  ASSUME NEW l, NEW flow, NEW cut, NEW content, NEW reasoning, NEW exhausted,
         IsCut(l, flow, cut, content, reasoning, exhausted), NEW fitting,
         fitting = {n \in 0 .. Len(flow) : Fits(l, flow, n)}
  PROVE  Max({n \in fitting : \A m \in 0 .. n : m \in fitting}) = cut
<1> DEFINE S == {n \in fitting : \A m \in 0 .. n : m \in fitting}
           C(n) == CountIn(flow, "content", n)
           R(n) == CountIn(flow, "reasoning", n)
<1>1. /\ l \in Nat /\ cut \in 0 .. Len(flow) /\ Len(flow) \in Nat /\ cut \in Nat
      /\ Fits(l, flow, cut) /\ (cut < Len(flow) => ~Fits(l, flow, cut + 1))
  BY DEF IsCut
<1>2. ASSUME NEW m \in 0 .. cut PROVE Fits(l, flow, m)
  <2>1. m \in Nat /\ C(m) \in Nat /\ R(m) \in Nat /\ C(cut) \in Nat /\ R(cut) \in Nat
        /\ C(m) <= C(cut) /\ R(m) <= R(cut)
    BY <1>1, CountGrows
  <2>2. /\ Tokens(C(m), R(m)) \in Nat /\ Tokens(C(cut), R(cut)) \in Nat
        /\ Tokens(C(m), R(m)) <= Tokens(C(cut), R(cut))
    <3> HIDE DEF C, R
    <3> QED
      BY <2>1, TokensGrow, SMTT(30)
  <2>3. l = 0 \/ Tokens(C(cut), R(cut)) <= l
    BY <1>1 DEF Fits
  <2>4. l = 0 \/ Tokens(C(m), R(m)) <= l
    <3> HIDE DEF C, R
    <3> QED
      BY <1>1, <2>2, <2>3
  <2> QED
    BY <2>4 DEF Fits
<1>3. cut \in S
  BY <1>1, <1>2
<1>4. ASSUME NEW n \in S PROVE n <= cut
  <2>1. n \in 0 .. Len(flow) /\ \A m \in 0 .. n : Fits(l, flow, m)
    OBVIOUS
  <2>2. ASSUME ~(n <= cut) PROVE FALSE
    <3>1. cut + 1 \in 0 .. n /\ cut < Len(flow)
      BY <2>1, <2>2, <1>1
    <3> QED
      BY <2>1, <3>1, <1>1
  <2> QED
    BY <2>2
<1>5. S \subseteq Nat /\ S # {} /\ \A n \in S : n <= cut
  BY <1>3, <1>4
<1> HIDE DEF S
<1>6. Max(S) \in S /\ \A n \in S : n <= Max(S)
  BY <1>1, <1>5, GreatestOf
<1>7. Max(S) = cut
  <2>1. Max(S) \in Nat /\ cut <= Max(S) /\ Max(S) <= cut
    BY <1>3, <1>5, <1>6
  <2> QED
    BY <1>1, <2>1
<1> QED
  BY <1>7 DEF S

-----------------------------------------------------------------------------
(* The fragments of tool calls among the events.                            *)

NamesIn(events, i, id) == events[i].kind = "tool" /\ events[i].id = id
BeginsIn(events, i) ==
    /\ events[i].id # Blank /\ NamesIn(events, i, events[i].id)
    /\ ~\E j \in 1 .. i - 1 : NamesIn(events, j, events[i].id)
BegunBy(events, i) == {j \in 1 .. i : BeginsIn(events, j)}
OwnerIn(events, i) ==
    IF events[i].id # Blank THEN events[i].id
    ELSE IF BegunBy(events, i) = {} THEN Blank ELSE events[Max(BegunBy(events, i))].id
FragmentIn(events, id, i) ==
    IF events[i].kind = "tool" /\ OwnerIn(events, i) = id THEN <<events[i].piece>> ELSE <<>>
Pieces(events, id) == FlattenSeq([i \in DOMAIN events |-> FragmentIn(events, id, i)])
BegunIds(events) == {events[i].id : i \in {j \in DOMAIN events : BeginsIn(events, j)}}
LastBegun(events) ==
    IF BegunBy(events, Len(events)) = {} THEN Blank ELSE events[Max(BegunBy(events, Len(events)))].id

\* more is events with e behind them, at place n.
Longer(events, e, more, n) ==
    /\ events \in Seq(Events) /\ e \in Events
    /\ more = Append(events, e)
    /\ n = Len(events) + 1

\* What an event more makes of the events, index by index.
LEMMA LongerFacts ==
  ASSUME NEW events, NEW e, NEW more, NEW n, Longer(events, e, more, n)
  PROVE  /\ more \in Seq(Events) /\ Len(more) = n /\ n \in Nat \ {0} /\ more[n] = e
         /\ Len(events) = n - 1
         /\ DOMAIN more = 1 .. n /\ DOMAIN events = 1 .. n - 1
         /\ \A j \in 1 .. n - 1 : more[j] = events[j]
BY DEF Longer

\* The call begun last was begun.
LEMMA BegunMax ==
  ASSUME NEW events, NEW i \in Nat, BegunBy(events, i) # {}
  PROVE  /\ Max(BegunBy(events, i)) \in 1 .. i /\ BeginsIn(events, Max(BegunBy(events, i)))
         /\ \A j \in BegunBy(events, i) : j <= Max(BegunBy(events, i))
<1> DEFINE S == BegunBy(events, i)
<1>1. S \subseteq Nat /\ S # {} /\ \A j \in S : j <= i
  BY DEF BegunBy
<1> HIDE DEF S
<1>2. Max(S) \in S /\ \A j \in S : j <= Max(S)
  BY <1>1, GreatestOf
<1> QED
  BY <1>2 DEF S, BegunBy

\* What an event means for the calls depends on those before it only.
LEMMA LongerKeeps ==
  ASSUME NEW events, NEW e, NEW more, NEW n, Longer(events, e, more, n), NEW i \in 1 .. n - 1
  PROVE  /\ \A id : NamesIn(more, i, id) <=> NamesIn(events, i, id)
         /\ BeginsIn(more, i) <=> BeginsIn(events, i)
         /\ BegunBy(more, i) = BegunBy(events, i)
         /\ OwnerIn(more, i) = OwnerIn(events, i)
         /\ \A id : FragmentIn(more, id, i) = FragmentIn(events, id, i)
<1>1. /\ n \in Nat \ {0} /\ \A j \in 1 .. n - 1 : more[j] = events[j]
  BY LongerFacts
<1>2. \A j \in 1 .. n - 1 : \A id : NamesIn(more, j, id) <=> NamesIn(events, j, id)
  BY <1>1 DEF NamesIn
<1>3. \A j \in 1 .. n - 1 : BeginsIn(more, j) <=> BeginsIn(events, j)
  <2>1. SUFFICES ASSUME NEW j \in 1 .. n - 1 PROVE BeginsIn(more, j) <=> BeginsIn(events, j)
    OBVIOUS
  <2>2. more[j] = events[j] /\ \A k \in 1 .. j - 1 : k \in 1 .. n - 1
    BY <1>1
  <2>3. \A k \in 1 .. j - 1 : NamesIn(more, k, events[j].id) <=> NamesIn(events, k, events[j].id)
    BY <1>2, <2>2
  <2>4. NamesIn(more, j, events[j].id) <=> NamesIn(events, j, events[j].id)
    BY <1>2
  <2> QED
    BY <2>2, <2>3, <2>4 DEF BeginsIn
<1>4. BegunBy(more, i) = BegunBy(events, i)
  BY <1>1, <1>3 DEF BegunBy
<1>5. OwnerIn(more, i) = OwnerIn(events, i)
  <2>1. CASE BegunBy(events, i) = {}
    BY <2>1, <1>1, <1>4 DEF OwnerIn
  <2>2. CASE BegunBy(events, i) # {}
    <3>1. Max(BegunBy(events, i)) \in 1 .. n - 1
      BY <2>2, <1>1, BegunMax
    <3> QED
      BY <3>1, <1>1, <1>4 DEF OwnerIn
  <2> QED
    BY <2>1, <2>2
<1>6. \A id : FragmentIn(more, id, i) = FragmentIn(events, id, i)
  BY <1>1, <1>5 DEF FragmentIn
<1> QED
  BY <1>2, <1>3, <1>4, <1>5, <1>6

\* An event more adds itself to those that begin a call, if it does.
LEMMA LongerBegun ==
  ASSUME NEW events, NEW e, NEW more, NEW n, Longer(events, e, more, n)
  PROVE  BegunBy(more, n) =
            BegunBy(events, n - 1) \cup (IF BeginsIn(more, n) THEN {n} ELSE {})
<1>1. n \in Nat \ {0}
  BY LongerFacts
<1>2. \A j \in 1 .. n - 1 : BeginsIn(more, j) <=> BeginsIn(events, j)
  BY LongerKeeps
<1> QED
  BY <1>1, <1>2 DEF BegunBy

\* A fragment begins a call if no call was begun under its id.
LEMMA LongerBegins ==
  ASSUME NEW events, NEW e, NEW more, NEW n, Longer(events, e, more, n)
  PROVE  BeginsIn(more, n) <=> e.kind = "tool" /\ e.id # Blank /\ e.id \notin BegunIds(events)
<1>1. /\ n \in Nat \ {0} /\ more[n] = e /\ DOMAIN events = 1 .. n - 1
      /\ \A j \in 1 .. n - 1 : more[j] = events[j]
  BY LongerFacts
<1>2. \A j \in 1 .. n - 1 : \A id : NamesIn(more, j, id) <=> NamesIn(events, j, id)
  BY LongerKeeps
<1>3. ASSUME e.id \in BegunIds(events) PROVE \E j \in 1 .. n - 1 : NamesIn(events, j, e.id)
  BY <1>1, <1>3 DEF BegunIds, BeginsIn
<1>4. ASSUME e.id # Blank, \E j \in 1 .. n - 1 : NamesIn(events, j, e.id)
      PROVE  e.id \in BegunIds(events)
  <2> DEFINE S == {j \in 1 .. n - 1 : NamesIn(events, j, e.id)}
  <2>1. S \subseteq Nat /\ S # {}
    <3>1. PICK j \in 1 .. n - 1 : NamesIn(events, j, e.id)
      BY <1>4
    <3>2. j \in S
      BY <3>1
    <3>3. 1 .. n - 1 \subseteq Nat
      BY <1>1
    <3> QED
      BY <3>2, <3>3
  <2>2. PICK j \in S : \A m \in S : j <= m
    <3> HIDE DEF S
    <3> QED
      BY <2>1, LeastOf
  <2>3. j \in 1 .. n - 1 /\ NamesIn(events, j, e.id) /\ events[j].id = e.id
    BY DEF NamesIn
  <2>4. ~\E m \in 1 .. j - 1 : NamesIn(events, m, e.id)
    <3>1. SUFFICES ASSUME NEW m \in 1 .. j - 1, NamesIn(events, m, e.id) PROVE FALSE
      OBVIOUS
    <3>2. m \in S
      BY <3>1, <2>3, <1>1
    <3> QED
      BY <3>2, <2>2, <2>3
  <2>5. BeginsIn(events, j)
    BY <1>4, <2>3, <2>4 DEF BeginsIn
  <2> QED
    BY <1>1, <2>3, <2>5 DEF BegunIds
<1>5. (\E j \in 1 .. n - 1 : NamesIn(more, j, e.id)) <=> \E j \in 1 .. n - 1 : NamesIn(events, j, e.id)
  BY <1>2
<1>6. NamesIn(more, n, e.id) <=> e.kind = "tool"
  BY <1>1 DEF NamesIn
<1> QED
  BY <1>1, <1>3, <1>4, <1>5, <1>6 DEF BeginsIn

\* An event more adds its id to those begun, if it begins one.
LEMMA LongerIds ==
  ASSUME NEW events, NEW e, NEW more, NEW n, Longer(events, e, more, n)
  PROVE  BegunIds(more) = BegunIds(events) \cup (IF BeginsIn(more, n) THEN {e.id} ELSE {})
<1>1. /\ n \in Nat \ {0} /\ more[n] = e /\ DOMAIN events = 1 .. n - 1 /\ DOMAIN more = 1 .. n
      /\ \A j \in 1 .. n - 1 : more[j] = events[j]
  BY LongerFacts
<1>2. \A j \in 1 .. n - 1 : BeginsIn(more, j) <=> BeginsIn(events, j)
  BY LongerKeeps
<1>3. ASSUME NEW id \in BegunIds(more)
      PROVE  id \in BegunIds(events) \cup (IF BeginsIn(more, n) THEN {e.id} ELSE {})
  <2>1. PICK i \in 1 .. n : BeginsIn(more, i) /\ id = more[i].id
    BY <1>1 DEF BegunIds
  <2>2. CASE i = n
    BY <2>1, <2>2, <1>1
  <2>3. CASE i # n
    <3>1. i \in 1 .. n - 1
      BY <2>1, <2>3, <1>1
    <3> QED
      BY <2>1, <3>1, <1>1, <1>2 DEF BegunIds
  <2> QED
    BY <2>2, <2>3
<1>4. ASSUME NEW id \in BegunIds(events) PROVE id \in BegunIds(more)
  <2>1. PICK i \in 1 .. n - 1 : BeginsIn(events, i) /\ id = events[i].id
    BY <1>1 DEF BegunIds
  <2>2. i \in 1 .. n /\ BeginsIn(more, i) /\ id = more[i].id
    BY <2>1, <1>1, <1>2
  <2> QED
    BY <2>2, <1>1 DEF BegunIds
<1>5. BeginsIn(more, n) => e.id \in BegunIds(more)
  <2>1. n \in 1 .. n
    BY <1>1
  <2> QED
    BY <2>1, <1>1 DEF BegunIds
<1> QED
  BY <1>3, <1>4, <1>5

\* The call begun last, and the owner of the newest fragment.
LEMMA LongerOwner ==
  ASSUME NEW events, NEW e, NEW more, NEW n, Longer(events, e, more, n)
  PROVE  /\ LastBegun(more) = IF BeginsIn(more, n) THEN e.id ELSE LastBegun(events)
         /\ OwnerIn(more, n) = IF e.id # Blank THEN e.id ELSE LastBegun(events)
<1>1. /\ n \in Nat \ {0} /\ n - 1 \in Nat /\ more[n] = e /\ Len(events) = n - 1 /\ Len(more) = n
      /\ \A j \in 1 .. n - 1 : more[j] = events[j]
  BY LongerFacts
<1>2. BegunBy(more, n) = BegunBy(events, n - 1) \cup (IF BeginsIn(more, n) THEN {n} ELSE {})
  BY LongerBegun
<1>3. CASE BeginsIn(more, n)
  <2>1. n \in BegunBy(more, n) /\ BegunBy(more, n) # {}
    BY <1>2, <1>3
  <2>2. Max(BegunBy(more, n)) \in 1 .. n /\ n <= Max(BegunBy(more, n))
    BY <2>1, <1>1, BegunMax
  <2>3. Max(BegunBy(more, n)) = n
    BY <2>2, <1>1
  <2>4. e.id # Blank
    BY <1>1, <1>3 DEF BeginsIn
  <2> QED
    BY <1>1, <1>3, <2>1, <2>3, <2>4 DEF LastBegun, OwnerIn
<1>4. CASE ~BeginsIn(more, n)
  <2>1. BegunBy(more, n) = BegunBy(events, n - 1)
    BY <1>2, <1>4
  <2>2. CASE BegunBy(events, n - 1) = {}
    BY <1>1, <1>4, <2>1, <2>2 DEF LastBegun, OwnerIn
  <2>3. CASE BegunBy(events, n - 1) # {}
    <3>1. Max(BegunBy(events, n - 1)) \in 1 .. n - 1
      BY <2>3, <1>1, BegunMax
    <3>2. more[Max(BegunBy(events, n - 1))] = events[Max(BegunBy(events, n - 1))]
      BY <3>1, <1>1
    <3> QED
      BY <1>1, <1>4, <2>1, <2>3, <3>2 DEF LastBegun, OwnerIn
  <2> QED
    BY <2>2, <2>3
<1> QED
  BY <1>3, <1>4

\* A fragment more is put behind those of the call it belongs to.
LEMMA PiecesAppend ==
  ASSUME NEW events, NEW e, NEW more, NEW n, Longer(events, e, more, n), NEW id
  PROVE  /\ Pieces(events, id) \in Seq(STRING) /\ FragmentIn(more, id, n) \in Seq(STRING)
         /\ Pieces(more, id) = Pieces(events, id) \o FragmentIn(more, id, n)
<1> DEFINE ss == [i \in DOMAIN events |-> FragmentIn(events, id, i)]
           tt == [i \in DOMAIN more |-> FragmentIn(more, id, i)]
           T  == Seq(STRING)
<1>1. /\ DOMAIN more = 1 .. n /\ DOMAIN events = 1 .. n - 1 /\ n \in Nat \ {0} /\ more \in Seq(Events)
      /\ \A i \in 1 .. n : more[i] \in Events
  <2>1. more \in Seq(Events) /\ DOMAIN more = 1 .. n /\ DOMAIN events = 1 .. n - 1 /\ n \in Nat \ {0}
    BY LongerFacts
  <2> QED
    BY <2>1
<1>2. \A i \in 1 .. n - 1 : FragmentIn(more, id, i) = FragmentIn(events, id, i)
  BY LongerKeeps
<1>3. \A i \in 1 .. n : FragmentIn(more, id, i) \in T
  <2>1. \A i \in 1 .. n : <<more[i].piece>> \in T
    <3>1. \A i \in 1 .. n : more[i].piece \in STRING
      BY <1>1, EventFacts
    <3> QED
      BY <3>1
  <2>2. <<>> \in T
    OBVIOUS
  <2> HIDE DEF T
  <2> QED
    BY <2>1, <2>2 DEF FragmentIn
<1> HIDE DEF T
<1>4. ss \in Seq(T) /\ Len(ss) = n - 1
  BY <1>1, <1>2, <1>3
<1>5. n \in 1 .. n
  BY <1>1
<1> DEFINE g  == FragmentIn(more, id, n)
           uu == Append(ss, g)
<1>6. g \in T
  BY <1>3, <1>5
<1>7. tt = uu
  <2>1. tt \in Seq(T) /\ Len(tt) = n
    BY <1>1, <1>3
  <2> HIDE DEF g
  <2>2. uu \in Seq(T) /\ Len(uu) = n /\ uu[n] = g /\ \A i \in 1 .. n - 1 : uu[i] = ss[i]
    BY <1>1, <1>4, <1>6
  <2>3. ASSUME NEW i \in 1 .. n PROVE tt[i] = uu[i]
    <3>1. CASE i = n
      BY <3>1, <2>2, <1>1 DEF g
    <3>2. CASE i # n
      <4>1. i \in 1 .. n - 1
        BY <3>2, <1>1
      <4> QED
        BY <4>1, <2>2, <1>1, <1>2
    <3> QED
      BY <3>1, <3>2
  <2> HIDE DEF tt, uu
  <2> QED
    BY <2>1, <2>2, <2>3, SeqEqual
<1> HIDE DEF g
<1>8. FlattenSeq(ss) \in Seq(STRING) /\ FlattenSeq(uu) = FlattenSeq(ss) \o g
  <2> HIDE DEF ss
  <2> QED
    BY <1>4, <1>6, FlattenAppend DEF T
<1>9. Pieces(events, id) = FlattenSeq(ss) /\ Pieces(more, id) = FlattenSeq(tt)
  BY DEF Pieces
<1> QED
  BY <1>6, <1>7, <1>8, <1>9 DEF g, T

-----------------------------------------------------------------------------
(* The accumulator.                                                         *)

ToolSet == [id : STRING, input : Seq(STRING)]

\* The accumulator holds the calls begun, each once, with its fragments, the one
\* begun last at the end.
ToolsInv(tools, events) ==
    /\ tools \in Seq(ToolSet)
    /\ \A k \in DOMAIN tools : tools[k].id # Blank /\ tools[k].input = Pieces(events, tools[k].id)
    /\ \A k, m \in DOMAIN tools : tools[k].id = tools[m].id => k = m
    /\ \A id : id \in BegunIds(events) <=> \E k \in DOMAIN tools : tools[k].id = id
    /\ LastBegun(events) = IF tools = <<>> THEN Blank ELSE tools[Len(tools)].id
    /\ \A id : id # Blank /\ id \notin BegunIds(events) => Pieces(events, id) = <<>>

\* An event that is no fragment of a call, or that belongs to none, changes nothing.
LEMMA ToolsStay ==
  ASSUME NEW tools, NEW events, NEW e, NEW more, NEW n, Longer(events, e, more, n),
         ToolsInv(tools, events), e.kind # "tool" \/ OwnerIn(more, n) = Blank
  PROVE  ToolsInv(tools, more)
<1>1. more[n] = e
  BY LongerFacts
<1>2. \A id : id # Blank => FragmentIn(more, id, n) = <<>>
  BY <1>1 DEF FragmentIn
<1>3. ~BeginsIn(more, n)
  BY <1>1 DEF BeginsIn, NamesIn, OwnerIn
<1>4. BegunIds(more) = BegunIds(events) /\ LastBegun(more) = LastBegun(events)
  BY <1>3, LongerIds, LongerOwner
<1>5. ASSUME NEW id, id # Blank PROVE Pieces(more, id) = Pieces(events, id)
  <2>1. Pieces(more, id) = Pieces(events, id) \o <<>> /\ Pieces(events, id) \in Seq(STRING)
    BY <1>2, <1>5, PiecesAppend
  <2> QED
    BY <2>1, ConcatEmptySeq
<1>6. \A k \in DOMAIN tools : tools[k].id # Blank /\ tools[k].input = Pieces(more, tools[k].id)
  BY <1>5 DEF ToolsInv
<1>7. \A id : id # Blank /\ id \notin BegunIds(more) => Pieces(more, id) = <<>>
  BY <1>4, <1>5 DEF ToolsInv
<1> QED
  BY <1>4, <1>6, <1>7 DEF ToolsInv

\* longer is tools with this piece behind those of call m.
Extended(longer, tools, m, piece) ==
    longer = [i \in DOMAIN tools |->
                 IF i = m THEN [tools[i] EXCEPT !.input = Append(@, piece)] ELSE tools[i]]

\* A fragment of a call that was begun extends it.
LEMMA ToolsExtend ==
  ASSUME NEW tools, NEW events, NEW e, NEW more, NEW n, Longer(events, e, more, n),
         ToolsInv(tools, events), e.kind = "tool",
         NEW m, m \in DOMAIN tools, OwnerIn(more, n) = tools[m].id, ~BeginsIn(more, n),
         NEW longer, Extended(longer, tools, m, e.piece)
  PROVE  ToolsInv(longer, more)
<1> DEFINE T == Seq(STRING)
           N == Len(tools)
<1>1. more[n] = e /\ e \in Events /\ e.piece \in STRING
  BY LongerFacts, EventFacts DEF Longer
<1>2. N \in Nat /\ DOMAIN tools = 1 .. N /\ \A i \in 1 .. N : tools[i] \in [id : STRING, input : T]
  <2>1. tools \in Seq(ToolSet)
    BY DEF ToolsInv
  <2>2. N \in Nat /\ DOMAIN tools = 1 .. N /\ \A i \in 1 .. N : tools[i] \in ToolSet
    BY <2>1
  <2> QED
    BY <2>2 DEF ToolSet
<1>3. \A s \in T : Append(s, e.piece) \in T /\ Append(s, e.piece) = s \o <<e.piece>>
  BY <1>1
<1> HIDE DEF T, N
<1>4. longer \in [1 .. N -> [id : STRING, input : T]]
  BY <1>2, <1>3 DEF Extended
<1>5. \A i \in 1 .. N : longer[i].id = tools[i].id
                        /\ longer[i].input = IF i = m THEN Append(tools[i].input, e.piece)
                                             ELSE tools[i].input
  BY <1>2 DEF Extended
<1>6. longer \in Seq(ToolSet) /\ Len(longer) = N /\ DOMAIN longer = 1 .. N
  <2>1. longer \in [1 .. N -> ToolSet]
    BY <1>4 DEF ToolSet, T
  <2> QED
    BY <1>2, <2>1
<1>7. BegunIds(more) = BegunIds(events) /\ LastBegun(more) = LastBegun(events)
  BY LongerIds, LongerOwner
<1>8. tools[m].id # Blank
  BY DEF ToolsInv
<1>9. ASSUME NEW id
      PROVE  Pieces(events, id) \in T /\
             Pieces(more, id) = Pieces(events, id) \o IF id = tools[m].id THEN <<e.piece>> ELSE <<>>
  BY <1>1, PiecesAppend DEF FragmentIn, T
<1>10. Pieces(more, tools[m].id) = Pieces(events, tools[m].id) \o <<e.piece>>
  BY <1>9
<1>11. ASSUME NEW id, id # tools[m].id PROVE Pieces(more, id) = Pieces(events, id)
  BY <1>9, <1>11, ConcatEmptySeq DEF T
<1>12. ASSUME NEW i \in 1 .. N
       PROVE  longer[i].id # Blank /\ longer[i].input = Pieces(more, longer[i].id)
  <2>1. tools[i].id # Blank /\ tools[i].input = Pieces(events, tools[i].id) /\ tools[i].input \in T
    BY <1>2 DEF ToolsInv
  <2>2. CASE i = m
    <3>1. Append(tools[i].input, e.piece) = tools[i].input \o <<e.piece>>
      BY <1>3, <2>1
    <3> QED
      BY <1>5, <1>10, <2>1, <2>2, <3>1
  <2>3. CASE i # m
    <3>1. tools[i].id # tools[m].id
      BY <1>2, <2>3 DEF ToolsInv
    <3> QED
      BY <1>5, <1>11, <2>1, <2>3, <3>1
  <2> QED
    BY <2>2, <2>3
<1>13. \A i, j \in 1 .. N : longer[i].id = longer[j].id => i = j
  BY <1>2, <1>5 DEF ToolsInv
<1>14. \A id : id \in BegunIds(more) <=> \E k \in 1 .. N : longer[k].id = id
  BY <1>2, <1>5, <1>7 DEF ToolsInv
<1>15. LastBegun(more) = IF longer = <<>> THEN Blank ELSE longer[Len(longer)].id
  <2>1. N \in 1 .. N /\ tools # <<>> /\ longer # <<>>
    BY <1>2, <1>6 DEF N
  <2> QED
    BY <1>5, <1>6, <1>7, <2>1 DEF ToolsInv, N
<1>16. \A id : id # Blank /\ id \notin BegunIds(more) => Pieces(more, id) = <<>>
  <2>1. tools[m].id \in BegunIds(events)
    BY DEF ToolsInv
  <2> QED
    BY <1>7, <1>11, <2>1 DEF ToolsInv
<1> QED
  BY <1>6, <1>12, <1>13, <1>14, <1>15, <1>16 DEF ToolsInv

\* A fragment under a new id begins a call.
LEMMA ToolsBegin ==
  ASSUME NEW tools, NEW events, NEW e, NEW more, NEW n, Longer(events, e, more, n),
         ToolsInv(tools, events), BeginsIn(more, n), NEW longer,
         longer = Append(tools, [id |-> e.id, input |-> <<e.piece>>])
  PROVE  ToolsInv(longer, more)
<1> DEFINE T == Seq(STRING)
           N == Len(tools)
           new == [id |-> e.id, input |-> <<e.piece>>]
<1>1. /\ more[n] = e /\ e \in Events /\ e.piece \in STRING /\ e.id \in STRING
      /\ e.kind = "tool" /\ e.id # Blank /\ e.id \notin BegunIds(events)
  <2>1. more[n] = e /\ e \in Events
    BY LongerFacts DEF Longer
  <2>2. e.kind = "tool" /\ e.id # Blank /\ e.id \notin BegunIds(events)
    BY LongerBegins
  <2> QED
    BY <2>1, <2>2, EventFacts
<1>2. N \in Nat /\ DOMAIN tools = 1 .. N /\ tools \in Seq(ToolSet)
  BY DEF ToolsInv
<1>3. new \in ToolSet
  BY <1>1 DEF ToolSet
<1>4. <<e.piece>> \in T /\ <<>> \o <<e.piece>> = <<e.piece>>
  BY <1>1
<1>5. new.id = e.id /\ new.input = <<e.piece>>
  OBVIOUS
<1> HIDE DEF new
<1>6. /\ longer \in Seq(ToolSet) /\ Len(longer) = N + 1 /\ DOMAIN longer = 1 .. N + 1
      /\ longer[N + 1] = new /\ \A i \in 1 .. N : longer[i] = tools[i]
  BY <1>2, <1>3 DEF new
<1> HIDE DEF N, T
<1>7. /\ BegunIds(more) = BegunIds(events) \cup {e.id} /\ LastBegun(more) = e.id
      /\ OwnerIn(more, n) = e.id
  BY <1>1, LongerIds, LongerOwner
<1>8. ASSUME NEW id
      PROVE  Pieces(events, id) \in T /\
             Pieces(more, id) = Pieces(events, id) \o IF id = e.id THEN <<e.piece>> ELSE <<>>
  BY <1>1, <1>7, PiecesAppend DEF FragmentIn, T
<1>9. ASSUME NEW id, id # e.id PROVE Pieces(more, id) = Pieces(events, id)
  BY <1>8, <1>9, ConcatEmptySeq DEF T
<1>10. Pieces(more, e.id) = <<e.piece>>
  <2>1. Pieces(events, e.id) = <<>>
    BY <1>1 DEF ToolsInv
  <2> QED
    BY <1>4, <1>8, <2>1
<1>11. \A i \in 1 .. N : tools[i].id \in BegunIds(events) /\ tools[i].id # e.id
  BY <1>1, <1>2 DEF ToolsInv
<1>12. \A i \in 1 .. N + 1 : i = N + 1 \/ i \in 1 .. N
  BY <1>2
<1>13. ASSUME NEW i \in 1 .. N + 1
       PROVE  longer[i].id # Blank /\ longer[i].input = Pieces(more, longer[i].id)
  <2>1. CASE i = N + 1
    BY <2>1, <1>1, <1>5, <1>6, <1>10
  <2>2. CASE i \in 1 .. N
    <3>1. tools[i].id # Blank /\ tools[i].input = Pieces(events, tools[i].id)
      BY <2>2, <1>2 DEF ToolsInv
    <3>2. longer[i] = tools[i] /\ tools[i].id # e.id
      BY <2>2, <1>6, <1>11
    <3> QED
      BY <3>1, <3>2, <1>9
  <2> QED
    BY <2>1, <2>2, <1>12
<1>14. \A i, j \in 1 .. N + 1 : longer[i].id = longer[j].id => i = j
  <2>1. \A i, j \in 1 .. N : longer[i].id = longer[j].id => i = j
    BY <1>2, <1>6 DEF ToolsInv
  <2>2. \A i \in 1 .. N : longer[i].id # longer[N + 1].id
    BY <1>5, <1>6, <1>11
  <2> QED
    BY <1>12, <2>1, <2>2
<1>15. \A id : id \in BegunIds(more) <=> \E k \in 1 .. N + 1 : longer[k].id = id
  <2>1. \A id : id \in BegunIds(events) <=> \E k \in 1 .. N : longer[k].id = id
    BY <1>2, <1>6 DEF ToolsInv
  <2>2. N + 1 \in 1 .. N + 1 /\ longer[N + 1].id = e.id /\ \A k \in 1 .. N : k \in 1 .. N + 1
    BY <1>2, <1>5, <1>6
  <2> QED
    BY <1>7, <1>12, <2>1, <2>2
<1>16. LastBegun(more) = IF longer = <<>> THEN Blank ELSE longer[Len(longer)].id
  <2>1. longer # <<>>
    BY <1>2, <1>6
  <2> QED
    BY <1>5, <1>6, <1>7, <2>1
<1>17. \A id : id # Blank /\ id \notin BegunIds(more) => Pieces(more, id) = <<>>
  BY <1>7, <1>9 DEF ToolsInv
<1> QED
  BY <1>6, <1>13, <1>14, <1>15, <1>16, <1>17 DEF ToolsInv

\* The accumulator keeps its promise.
LEMMA AddKeepsTools ==
  ASSUME NEW tools, NEW events, NEW e, NEW more, NEW n, Longer(events, e, more, n),
         ToolsInv(tools, events), e.kind = "tool"
  PROVE  ToolsInv(Add(tools, e), more)
<1> DEFINE mine == {i \in DOMAIN tools : IF e.id = Blank THEN i = Len(tools) ELSE tools[i].id = e.id}
           longer == [i \in DOMAIN tools |->
                         IF i \in mine THEN [tools[i] EXCEPT !.input = Append(@, e.piece)]
                         ELSE tools[i]]
<1>1. tools \in Seq(ToolSet) /\ more[n] = e
  BY LongerFacts DEF ToolsInv
<1>2. Add(tools, e) = IF mine # {} THEN longer
                      ELSE IF e.id = Blank THEN tools
                      ELSE Append(tools, [id |-> e.id, input |-> <<e.piece>>])
  BY DEF Add
<1>3. OwnerIn(more, n) = IF e.id # Blank THEN e.id ELSE LastBegun(events)
  BY LongerOwner
<1>4. BeginsIn(more, n) <=> e.id # Blank /\ e.id \notin BegunIds(events)
  BY LongerBegins
<1>5. CASE mine # {}
  <2>1. PICK m : m \in mine
    BY <1>5
  <2>2. m \in DOMAIN tools /\ (IF e.id = Blank THEN m = Len(tools) ELSE tools[m].id = e.id)
    BY <2>1
  <2>3. mine = {m}
    BY <2>2 DEF ToolsInv
  <2>4. OwnerIn(more, n) = tools[m].id /\ ~BeginsIn(more, n)
    <3>1. CASE e.id = Blank
      <4>1. m = Len(tools) /\ tools # <<>>
        BY <1>1, <2>2, <3>1
      <4> QED
        BY <1>3, <1>4, <3>1, <4>1 DEF ToolsInv
    <3>2. CASE e.id # Blank
      BY <1>3, <1>4, <2>2, <3>2 DEF ToolsInv
    <3> QED
      BY <3>1, <3>2
  <2> HIDE DEF mine
  <2>5. ToolsInv(longer, more)
    <3> DEFINE ll == longer
    <3>1. Extended(ll, tools, m, e.piece)
      BY <2>3 DEF Extended
    <3> HIDE DEF ll
    <3>2. ToolsInv(ll, more)
      BY <2>2, <2>4, <3>1, ToolsExtend
    <3> QED
      BY <3>2 DEF ll
  <2> QED
    BY <1>2, <1>5, <2>5
<1>6. CASE mine = {} /\ e.id = Blank
  <2>1. tools = <<>>
    <3>1. SUFFICES ASSUME tools # <<>> PROVE FALSE
      OBVIOUS
    <3>2. Len(tools) \in DOMAIN tools
      BY <1>1, <3>1
    <3>3. Len(tools) \in mine
      BY <1>6, <3>2
    <3> QED
      BY <1>6, <3>3
  <2>2. OwnerIn(more, n) = Blank
    BY <1>3, <1>6, <2>1 DEF ToolsInv
  <2>3. ToolsInv(tools, more)
    BY <2>2, ToolsStay
  <2> QED
    BY <1>2, <1>6, <2>3
<1>7. CASE mine = {} /\ e.id # Blank
  <2>1. \A k \in DOMAIN tools : tools[k].id # e.id
    BY <1>7
  <2>2. BeginsIn(more, n)
    BY <1>4, <1>7, <2>1 DEF ToolsInv
  <2> DEFINE ll == Append(tools, [id |-> e.id, input |-> <<e.piece>>])
  <2>3. ToolsInv(ll, more)
    BY <2>2, ToolsBegin
  <2> QED
    BY <1>2, <1>7, <2>3
<1> QED
  BY <1>5, <1>6, <1>7

-----------------------------------------------------------------------------
(* The calls the client gets.                                               *)

\* f is a member of x that is kept; f and g are two of them.
From(f, x, keep, n) == \E i \in 1 .. n : i \in keep /\ f = x[i]
Apart(f, g, x, keep, n) ==
    \E i, m \in 1 .. n : i # m /\ i \in keep /\ m \in keep /\ f = x[i] /\ g = x[m]

\* F has the members of x that are kept, and each in one place only.
Kept(F, x, keep, n) ==
    /\ \A k \in DOMAIN F : From(F[k], x, keep, n)
    /\ \A i \in 1 .. n : i \in keep => \E k \in DOMAIN F : F[k] = x[i]
    /\ \A j, k \in DOMAIN F : j # k => Apart(F[j], F[k], x, keep, n)

Options(x, keep, n) == [i \in 1 .. n |-> IF i \in keep THEN <<x[i]>> ELSE <<>>]

\* One more member of x takes nothing away and is apart from the others.
LEMMA FromGrows ==
  ASSUME NEW f, NEW x, NEW keep, NEW n \in Nat
  PROVE  /\ From(f, x, keep, n) => From(f, x, keep, n + 1)
         /\ n + 1 \in keep => From(x[n + 1], x, keep, n + 1)
         /\ n + 1 \in keep /\ From(f, x, keep, n) =>
               Apart(f, x[n + 1], x, keep, n + 1) /\ Apart(x[n + 1], f, x, keep, n + 1)
<1>1. \A i \in 1 .. n : i \in 1 .. n + 1 /\ i # n + 1
  OBVIOUS
<1>2. n + 1 \in 1 .. n + 1
  OBVIOUS
<1> QED
  BY <1>1, <1>2 DEF From, Apart

\* So do two.
LEMMA ApartGrows ==
  ASSUME NEW f, NEW g, NEW x, NEW keep, NEW n \in Nat, Apart(f, g, x, keep, n)
  PROVE  Apart(f, g, x, keep, n + 1)
<1>1. \A i \in 1 .. n : i \in 1 .. n + 1
  OBVIOUS
<1> QED
  BY <1>1 DEF Apart

\* One member more is behind the others, if it is kept.
LEMMA KeptNext ==
  ASSUME NEW S, NEW F \in Seq(S), NEW x, NEW keep, NEW n \in Nat,
         Kept(F, x, keep, n), x[n + 1] \in S,
         NEW G, G = F \o (IF n + 1 \in keep THEN <<x[n + 1]>> ELSE <<>>)
  PROVE  Kept(G, x, keep, n + 1)
<1>1. \A i \in 1 .. n + 1 : i = n + 1 \/ i \in 1 .. n
  OBVIOUS
<1>2. /\ \A k \in DOMAIN F : From(F[k], x, keep, n) /\ From(F[k], x, keep, n + 1)
      /\ \A i \in 1 .. n : i \in keep => \E k \in DOMAIN F : F[k] = x[i]
      /\ \A j, k \in DOMAIN F : j # k => Apart(F[j], F[k], x, keep, n + 1)
  BY FromGrows, ApartGrows DEF Kept
<1>3. CASE n + 1 \notin keep
  <2>1. G = F
    BY <1>3, ConcatEmptySeq
  <2>2. \A i \in 1 .. n + 1 : i \in keep => \E k \in DOMAIN F : F[k] = x[i]
    BY <1>1, <1>2, <1>3
  <2> QED
    BY <1>2, <2>1, <2>2 DEF Kept
<1>4. CASE n + 1 \in keep
  <2> DEFINE L == Len(F)
             y == x[n + 1]
  <2>1. G = Append(F, y)
    BY <1>4
  <2>2. /\ DOMAIN G = 1 .. L + 1 /\ DOMAIN F = 1 .. L /\ G[L + 1] = y /\ L \in Nat
        /\ \A k \in 1 .. L : G[k] = F[k]
    BY <2>1
  <2>3. L + 1 \in 1 .. L + 1 /\ \A k \in 1 .. L : k \in 1 .. L + 1
    BY <2>2
  <2>4. \A k \in 1 .. L + 1 : k = L + 1 \/ k \in 1 .. L
    BY <2>2
  <2>5. From(y, x, keep, n + 1)
        /\ \A k \in 1 .. L : Apart(F[k], y, x, keep, n + 1) /\ Apart(y, F[k], x, keep, n + 1)
    BY <1>2, <1>4, <2>2, FromGrows
  <2> HIDE DEF L, y
  <2>6. \A k \in 1 .. L + 1 : From(G[k], x, keep, n + 1)
    BY <1>2, <2>2, <2>4, <2>5
  <2>7. \A i \in 1 .. n + 1 : i \in keep => \E k \in 1 .. L + 1 : G[k] = x[i]
    <3>1. SUFFICES ASSUME NEW i \in 1 .. n + 1, i \in keep PROVE \E k \in 1 .. L + 1 : G[k] = x[i]
      OBVIOUS
    <3>2. CASE i = n + 1
      BY <2>2, <2>3, <3>2 DEF y
    <3>3. CASE i \in 1 .. n
      <4>1. PICK k \in 1 .. L : F[k] = x[i]
        BY <1>2, <2>2, <3>1, <3>3
      <4> QED
        BY <4>1, <2>2, <2>3
    <3> QED
      BY <1>1, <3>2, <3>3
  <2>8. \A j, k \in 1 .. L + 1 : j # k => Apart(G[j], G[k], x, keep, n + 1)
    BY <1>2, <2>2, <2>4, <2>5
  <2> QED
    BY <2>2, <2>6, <2>7, <2>8 DEF Kept
<1> QED
  BY <1>3, <1>4

\* So the optional members, put one after the other, are those kept.
LEMMA FlattenOptions ==
  ASSUME NEW S, NEW N \in Nat, NEW x \in [1 .. N -> S], NEW keep, keep \subseteq 1 .. N
  PROVE  /\ FlattenSeq(Options(x, keep, N)) \in Seq(S)
         /\ Kept(FlattenSeq(Options(x, keep, N)), x, keep, N)
<1> DEFINE T == Seq(S)
           G(n) == /\ Options(x, keep, n) \in Seq(T) /\ FlattenSeq(Options(x, keep, n)) \in T
                   /\ Kept(FlattenSeq(Options(x, keep, n)), x, keep, n)
           bad == {n \in 0 .. N : ~G(n)}
<1>1. bad = {}
  <2>1. SUFFICES ASSUME bad # {} PROVE FALSE
    OBVIOUS
  <2>2. PICK n \in bad : \A m \in bad : n <= m
    <3>1. bad \subseteq Nat
      OBVIOUS
    <3> HIDE DEF bad
    <3> QED
      BY <3>1, <2>1, LeastOf
  <2>3. n \in 0 .. N /\ ~G(n)
    OBVIOUS
  <2>4. CASE n = 0
    <3>1. Options(x, keep, 0) = <<>>
      BY DEF Options
    <3>2. <<>> \in Seq(T) /\ <<>> \in T
      OBVIOUS
    <3>3. Kept(<<>>, x, keep, 0)
      BY DEF Kept
    <3>4. G(0)
      BY <3>1, <3>2, <3>3, FlattenEmpty
    <3> QED
      BY <2>3, <2>4, <3>4
  <2>5. CASE n # 0
    <3>1. PICK m \in Nat : n = m + 1 /\ m \in 0 .. N /\ n \in 1 .. N /\ ~(n <= m)
      BY <2>3, <2>5
    <3>2. G(m)
      BY <3>1, <2>2
    <3> DEFINE s == IF n \in keep THEN <<x[n]>> ELSE <<>>
               F == FlattenSeq(Options(x, keep, m))
    <3>3. x[n] \in S /\ s \in T
      BY <3>1
    <3>4. Options(x, keep, n) = Append(Options(x, keep, m), s)
      <4> DEFINE u == Options(x, keep, n)
                 v == Append(Options(x, keep, m), s)
      <4>1. Options(x, keep, m) \in Seq(T) /\ Len(Options(x, keep, m)) = m
            /\ \A i \in 1 .. m : Options(x, keep, m)[i] = IF i \in keep THEN <<x[i]>> ELSE <<>>
        BY <3>1, <3>2 DEF Options
      <4>2. \A i \in 1 .. n : (IF i \in keep THEN <<x[i]>> ELSE <<>>) \in T
        BY <3>1
      <4> HIDE DEF T
      <4>3. u \in Seq(T) /\ Len(u) = n /\ \A i \in 1 .. n : u[i] = IF i \in keep THEN <<x[i]>> ELSE <<>>
        BY <4>2, <3>1 DEF Options
      <4>4. v \in Seq(T) /\ Len(v) = n /\ v[n] = s /\ \A i \in 1 .. m : v[i] = Options(x, keep, m)[i]
        BY <4>1, <3>1, <3>3
      <4> HIDE DEF u, v
      <4>5. \A i \in 1 .. n : u[i] = v[i]
        BY <4>1, <4>3, <4>4, <3>1
      <4>6. u = v
        BY <4>3, <4>4, <4>5, SeqEqual
      <4> QED
        BY <4>6 DEF u, v
    <3>5. FlattenSeq(Options(x, keep, n)) = F \o s /\ Options(x, keep, n) \in Seq(T)
      <4>1. Options(x, keep, m) \in Seq(Seq(S)) /\ s \in Seq(S)
        BY <3>2, <3>3
      <4> HIDE DEF s
      <4>2. FlattenSeq(Append(Options(x, keep, m), s)) = F \o s
        BY <4>1, FlattenAppend
      <4>3. Append(Options(x, keep, m), s) \in Seq(T)
        BY <4>1
      <4> QED
        BY <3>4, <4>2, <4>3
    <3>6. F \in Seq(S) /\ Kept(F, x, keep, m)
      BY <3>2
    <3> HIDE DEF F
    <3>7. F \o s \in T
      BY <3>3, <3>6
    <3>8. Kept(F \o s, x, keep, n)
      <4>1. F \o s = F \o (IF m + 1 \in keep THEN <<x[m + 1]>> ELSE <<>>)
        BY <3>1
      <4> DEFINE H == F \o s
      <4> HIDE DEF H
      <4>2. Kept(H, x, keep, m + 1)
        BY <3>1, <3>3, <3>6, <4>1, KeptNext DEF H
      <4> QED
        BY <3>1, <4>2 DEF H
    <3> QED
      BY <2>3, <3>5, <3>7, <3>8
  <2> QED
    BY <2>4, <2>5
<1>2. N \in 0 .. N
  OBVIOUS
<1> QED
  BY <1>1, <1>2

\* The arguments of a call are whole, or the empty object.
LEMMA ArgumentsType == ASSUME NEW input PROVE Arguments(input) \in Objects
BY DEF Arguments, Objects

\* CallsAreWhole's demand on the calls delivered.
CallsDue(calls, events) ==
    /\ \A i \in DOMAIN calls :
          calls[i].id \in BegunIds(events) /\ calls[i].arguments = Arguments(Pieces(events, calls[i].id))
    /\ \A i, j \in DOMAIN calls : i # j => calls[i].arguments # calls[j].arguments
    /\ \A id \in BegunIds(events) :
          \E i \in DOMAIN calls : calls[i].arguments = Arguments(Pieces(events, id))

\* What finish makes of the accumulator is what the client is due.
LEMMA FinishedIsDue ==
  ASSUME NEW tools, NEW events, ToolsInv(tools, events)
  PROVE  Finished(tools) \in Seq(CallSet) /\ CallsDue(Finished(tools), events)
<1> DEFINE calls == [i \in DOMAIN tools |->
                        [id |-> tools[i].id, arguments |-> Arguments(tools[i].input)]]
           N     == Len(tools)
           keep  == {i \in 1 .. N :
                        ~\E j \in 1 .. i - 1 : calls[j].arguments = calls[i].arguments}
           F     == FlattenSeq(Options(calls, keep, N))
<1>1. N \in Nat /\ DOMAIN tools = 1 .. N /\ \A i \in 1 .. N : tools[i] \in ToolSet
  <2>1. tools \in Seq(ToolSet)
    BY DEF ToolsInv
  <2> QED
    BY <2>1
<1>2. calls \in [1 .. N -> CallSet] /\ keep \subseteq 1 .. N
  <2>1. \A i \in 1 .. N : Arguments(tools[i].input) \in Objects /\ tools[i].id \in STRING
    BY <1>1, ArgumentsType DEF ToolSet
  <2>2. calls \in [1 .. N -> CallSet]
    BY <1>1, <2>1 DEF CallSet
  <2> QED
    BY <1>1, <2>2
<1>3. Finished(tools) = F
  <2>1. DOMAIN calls = 1 .. N
    BY <1>1
  <2>2. Finished(tools) = FlattenSeq([i \in DOMAIN calls |->
           IF \E j \in 1 .. i - 1 : calls[j].arguments = calls[i].arguments THEN <<>>
           ELSE <<calls[i]>>])
    BY DEF Finished
  <2> HIDE DEF calls
  <2>3. [i \in DOMAIN calls |->
           IF \E j \in 1 .. i - 1 : calls[j].arguments = calls[i].arguments THEN <<>>
           ELSE <<calls[i]>>] = Options(calls, keep, N)
    BY <1>1, <2>1 DEF Options
  <2> QED
    BY <2>2, <2>3
<1>4. \A i \in 1 .. N : /\ calls[i].id = tools[i].id
                        /\ calls[i].arguments = Arguments(tools[i].input)
  BY <1>1
<1>5. \A i \in 1 .. N : i \in keep <=> ~\E j \in 1 .. i - 1 : calls[j].arguments = calls[i].arguments
  BY <1>1
<1> HIDE DEF N, calls, keep
<1>6. F \in Seq(CallSet) /\ Kept(F, calls, keep, N)
  BY <1>1, <1>2, FlattenOptions
<1> HIDE DEF F
<1>7. \A i \in 1 .. N : calls[i].id \in BegunIds(events)
                        /\ calls[i].arguments = Arguments(Pieces(events, calls[i].id))
  BY <1>1, <1>4 DEF ToolsInv
<1>8. \A i \in DOMAIN F : F[i].id \in BegunIds(events)
                          /\ F[i].arguments = Arguments(Pieces(events, F[i].id))
  BY <1>6, <1>7 DEF Kept, From
<1>9. ASSUME NEW i \in DOMAIN F, NEW j \in DOMAIN F, i # j PROVE F[i].arguments # F[j].arguments
  <2>1. PICK k \in 1 .. N, m \in 1 .. N :
           k # m /\ k \in keep /\ m \in keep /\ F[i] = calls[k] /\ F[j] = calls[m]
    BY <1>6, <1>9 DEF Kept, Apart
  <2>2. k \in 1 .. m - 1 \/ m \in 1 .. k - 1
    BY <1>1, <2>1
  <2> QED
    BY <1>5, <2>1, <2>2
<1>10. ASSUME NEW id \in BegunIds(events)
       PROVE  \E i \in DOMAIN F : F[i].arguments = Arguments(Pieces(events, id))
  <2>1. PICK k \in 1 .. N : tools[k].id = id
    BY <1>1 DEF ToolsInv
  <2>2. calls[k].arguments = Arguments(Pieces(events, id))
    BY <1>4, <1>7, <2>1
  <2> DEFINE same == {m \in 1 .. N : calls[m].arguments = calls[k].arguments}
  <2>3. same \subseteq Nat /\ k \in same
    BY <1>1
  <2>4. PICK m \in same : \A q \in same : m <= q
    <3> HIDE DEF same
    <3> QED
      BY <2>3, LeastOf
  <2>5. m \in 1 .. N /\ calls[m].arguments = calls[k].arguments
    OBVIOUS
  <2>6. m \in keep
    <3>1. SUFFICES ASSUME NEW q \in 1 .. m - 1, calls[q].arguments = calls[m].arguments PROVE FALSE
      BY <1>5, <2>5
    <3>2. q \in same /\ ~(m <= q)
      BY <1>1, <2>5, <3>1
    <3> QED
      BY <2>4, <3>2
  <2>7. PICK i \in DOMAIN F : F[i] = calls[m]
    BY <1>6, <2>5, <2>6 DEF Kept
  <2> QED
    BY <2>2, <2>5, <2>7
<1>11. CallsDue(F, events)
  BY <1>8, <1>9, <1>10 DEF CallsDue
<1> QED
  BY <1>3, <1>6, <1>11

-----------------------------------------------------------------------------
(* One event.                                                               *)

Growing == {"none", "text", "thinking"}

\* The writer's answer to an event: what is admitted of its text, and nothing else.
LEMMA EmitWriter ==
  ASSUME WriterInv(w), w.open \in Growing, NEW e \in Events, Len(seen) \in Nat,
         e.kind \in {"content", "reasoning"} => Admitted(e) \in Nat
  PROVE  /\ WriterInv(Emit(e)) /\ Emit(e).open \in Growing
         /\ Effect(w, Emit(e), IF e.kind = "content" THEN Admitted(e) ELSE 0,
                   IF e.kind = "reasoning" THEN Admitted(e) ELSE 0, <<>>)
<1> DEFINE A == Admitted(e)
<1>1. CASE e.kind = "content"
  <2>1. Emit(e) = Delta(w, "text", A)
    BY <1>1 DEF Emit
  <2>2. A \in Nat
    BY <1>1
  <2> HIDE DEF A
  <2> DEFINE d == Delta(w, "text", A)
  <2>3. WriterInv(d) /\ d.open \in {w.open, "text"} /\ Effect(w, d, A, 0, <<>>)
    BY <2>2, DeltaWriter
  <2> HIDE DEF d
  <2>4. d.open \in Growing
    BY <2>3 DEF Growing
  <2> QED
    BY <1>1, <2>1, <2>3, <2>4 DEF A, d
<1>2. CASE e.kind = "reasoning"
  <2> DEFINE n       == Len(seen) + 1
             thought == Delta(w, "thinking", A)
             signed  == IF e.signature THEN Signature(thought, n) ELSE thought
             d       == IF e.redacted THEN RedactedThinking(signed) ELSE signed
  <2>1. Emit(e) = d
    BY <1>2 DEF Emit
  <2>2. A \in Nat /\ n \in Nat
    BY <1>2
  <2> HIDE DEF A, n
  <2>3. WriterInv(thought) /\ thought.open \in {w.open, "thinking"} /\ Effect(w, thought, 0, A, <<>>)
    BY <2>2, DeltaWriter
  <2> HIDE DEF thought
  <2>4. WriterInv(signed) /\ Quiet(thought, signed) /\ signed.open = thought.open
    BY <2>2, <2>3, SignatureWriter, QuietIs
  <2> HIDE DEF signed
  <2>5. WriterInv(d) /\ Quiet(signed, d) /\ d.open \in {"none", signed.open}
    BY <2>4, RedactedWriter, QuietIs
  <2> HIDE DEF d
  <2>6. Effect(w, d, 0, A, <<>>)
    <3>1. Effect(w, signed, 0, A, <<>>)
      BY <2>3, <2>4, QuietAfterEffect
    <3> QED
      BY <2>4, <2>5, <3>1, QuietAfterEffect
  <2>7. d.open \in Growing
    BY <2>3, <2>4, <2>5 DEF Growing
  <2> QED
    BY <1>2, <2>1, <2>5, <2>6, <2>7 DEF A
<1>3. CASE e.kind \notin {"content", "reasoning"}
  <2>1. Emit(e) = w
    BY <1>3 DEF Emit
  <2>2. Quiet(w, w)
    BY QuietIs
  <2> QED
    BY <1>3, <2>1, <2>2 DEF Quiet
<1> QED
  BY <1>1, <1>2, <1>3

CollectedSet ==
    [content : Nat, reasoning : Nat, exhausted : BOOLEAN, signature : Nat, redacted : BOOLEAN,
     tools : Seq(ToolSet), accounted : BOOLEAN, reason : {Blank} \cup {e.reason : e \in Events},
     exception : BOOLEAN]

\* The collector's.
LEMMA CollectFacts ==
  ASSUME c \in CollectedSet, NEW e \in Events, Len(seen) \in Nat,
         e.kind \in {"content", "reasoning"} => Admitted(e) \in Nat,
         e.kind = "tool" => Add(c.tools, e) \in Seq(ToolSet)
  PROVE  /\ Collect(e) \in CollectedSet
         /\ Collect(e).content = IF e.kind = "content" THEN c.content + Admitted(e) ELSE c.content
         /\ Collect(e).reasoning =
               IF e.kind = "reasoning" THEN c.reasoning + Admitted(e) ELSE c.reasoning
         /\ Collect(e).exhausted <=>
               c.exhausted \/ (e.kind \in {"content", "reasoning"} /\ Admitted(e) < e.runes)
         /\ Collect(e).tools = IF e.kind = "tool" THEN Add(c.tools, e) ELSE c.tools
         /\ Collect(e).signature \in {c.signature, Len(seen) + 1}
<1> DEFINE A == Admitted(e)
           T == Seq(ToolSet)
           R == {Blank} \cup {x.reason : x \in Events}
           S == [content : Nat, reasoning : Nat, exhausted : BOOLEAN, signature : Nat,
                 redacted : BOOLEAN, tools : T, accounted : BOOLEAN, reason : R, exception : BOOLEAN]
           n == Len(seen) + 1
           full == c.exhausted \/ A < e.runes
           text == [c EXCEPT !.exhausted = full]
           added == Add(c.tools, e)
<1>1. c \in S /\ CollectedSet = S
  BY DEF CollectedSet
<1>2. n \in Nat /\ e.reason \in R /\ e.redacted \in BOOLEAN /\ e.signature \in BOOLEAN
      /\ e.kind \in EventKinds
  BY EventFacts
<1>3. full \in BOOLEAN
  OBVIOUS
<1>4. e.kind = "tool" => added \in T
  OBVIOUS
<1>5. Collect(e) =
        CASE e.kind = "content"   -> [text EXCEPT !.content = @ + A]
          [] e.kind = "reasoning" -> [text EXCEPT !.reasoning = @ + A,
                                                  !.signature = IF e.signature THEN n ELSE @,
                                                  !.redacted = @ \/ e.redacted]
          [] e.kind = "tool"      -> [c EXCEPT !.tools = added]
          [] e.kind = "accounting" -> [c EXCEPT !.accounted = TRUE]
          [] e.kind = "stop"      -> [c EXCEPT !.reason = e.reason]
          [] e.kind = "exception" -> [c EXCEPT !.exception = TRUE]
  BY DEF Collect
<1>6. e.kind \in {"content", "reasoning"} => A \in Nat
  OBVIOUS
<1>7. full <=> c.exhausted \/ A < e.runes
  OBVIOUS
<1> HIDE DEF A, T, R, n, full, added
<1>8. /\ text \in S /\ text.content = c.content /\ text.reasoning = c.reasoning
      /\ text.exhausted = full /\ text.tools = c.tools /\ text.signature = c.signature
  BY <1>1, <1>3
<1> HIDE DEF text
<1>9. CASE e.kind = "content"
  <2> DEFINE k == text.content + A
             d == [text EXCEPT !.content = k]
  <2>1. k \in Nat /\ k = c.content + A
    BY <1>1, <1>6, <1>8, <1>9
  <2>2. Collect(e) = d
    BY <1>5, <1>9
  <2> HIDE DEF k
  <2>3. /\ d \in S /\ d.content = k /\ d.reasoning = text.reasoning /\ d.exhausted = text.exhausted
        /\ d.tools = text.tools /\ d.signature = text.signature
    BY <1>8, <2>1
  <2> HIDE DEF d, S
  <2> QED
    BY <1>1, <1>7, <1>8, <1>9, <2>1, <2>2, <2>3 DEF A
<1>10. CASE e.kind = "reasoning"
  <2> DEFINE k == text.reasoning + A
             s == IF e.signature THEN n ELSE text.signature
             z == text.redacted \/ e.redacted
             d == [text EXCEPT !.reasoning = k, !.signature = s, !.redacted = z]
  <2>1. k \in Nat /\ k = c.reasoning + A /\ s \in Nat /\ s \in {c.signature, n} /\ z \in BOOLEAN
    BY <1>1, <1>2, <1>6, <1>8, <1>10
  <2>2. Collect(e) = d
    BY <1>5, <1>10
  <2> HIDE DEF k, s, z
  <2>3. /\ d \in S /\ d.content = text.content /\ d.reasoning = k /\ d.exhausted = text.exhausted
        /\ d.tools = text.tools /\ d.signature = s
    BY <1>8, <2>1
  <2> HIDE DEF d, S
  <2> QED
    BY <1>1, <1>7, <1>8, <1>10, <2>1, <2>2, <2>3 DEF A, n
<1>11. CASE e.kind = "tool"
  <2> DEFINE d == [c EXCEPT !.tools = added]
  <2>1. Collect(e) = d
    BY <1>5, <1>11
  <2>2. /\ d \in S /\ d.content = c.content /\ d.reasoning = c.reasoning
        /\ d.exhausted = c.exhausted /\ d.tools = added /\ d.signature = c.signature
    BY <1>1, <1>4, <1>11
  <2> HIDE DEF d, S
  <2> QED
    BY <1>1, <1>11, <2>1, <2>2 DEF added
<1>12. CASE e.kind \in {"accounting", "stop", "exception"}
  <2> DEFINE d == Collect(e)
  <2>1. \/ d = [c EXCEPT !.accounted = TRUE]
        \/ d = [c EXCEPT !.reason = e.reason]
        \/ d = [c EXCEPT !.exception = TRUE]
    BY <1>5, <1>12
  <2> HIDE DEF d
  <2>2. /\ d \in S /\ d.content = c.content /\ d.reasoning = c.reasoning
        /\ d.exhausted = c.exhausted /\ d.tools = c.tools /\ d.signature = c.signature
    BY <1>1, <1>2, <2>1
  <2> HIDE DEF S
  <2> QED
    BY <1>1, <1>12, <2>2 DEF d
<1> QED
  BY <1>2, <1>9, <1>10, <1>11, <1>12 DEF EventKinds

\* Some cut of these events' output is what was collected.
Cut(l, events, content, reasoning, exhausted) ==
    \E cut \in Nat : IsCut(l, FlowOf(events), cut, content, reasoning, exhausted)

\* Every event leaves the cut where the ceiling puts it.
LEMMA CutStep ==
  ASSUME NEW l, NEW events \in Seq(Events), NEW content, NEW reasoning, NEW exhausted,
         Cut(l, events, content, reasoning, exhausted), NEW e \in Events, NEW t,
         e.kind \in {"content", "reasoning"} =>
            IsTake(l, exhausted, content, reasoning, e.kind, e.runes, t),
         NEW x, x = IF e.kind = "content" THEN content + t ELSE content,
         NEW y, y = IF e.kind = "reasoning" THEN reasoning + t ELSE reasoning,
         NEW z \in BOOLEAN,
         z <=> exhausted \/ (e.kind \in {"content", "reasoning"} /\ t < e.runes)
  PROVE  Cut(l, Append(events, e), x, y, z)
<1> DEFINE flow == FlowOf(events)
           more == flow \o Burst(e)
<1>1. FlowOf(Append(events, e)) = more /\ more \in Seq(EventKinds) /\ flow \in Seq(EventKinds)
  BY FlowAppend
<1>2. PICK cut \in Nat : IsCut(l, flow, cut, content, reasoning, exhausted)
  BY DEF Cut
<1> HIDE DEF flow
<1>3. /\ exhausted \in BOOLEAN /\ l \in Nat /\ content \in Nat /\ reasoning \in Nat
      /\ (exhausted => l # 0)
  <2>1. /\ exhausted \in BOOLEAN /\ l \in Nat /\ (exhausted <=> cut < Len(flow))
        /\ (cut < Len(flow) => ~Fits(l, flow, cut + 1))
        /\ content = CountIn(flow, "content", cut) /\ reasoning = CountIn(flow, "reasoning", cut)
    BY <1>2 DEF IsCut
  <2>2. content \in Nat /\ reasoning \in Nat
    BY <2>1, CountFacts
  <2>3. exhausted => l # 0
    BY <2>1 DEF Fits
  <2> QED
    BY <2>1, <2>2, <2>3
<1>4. CASE exhausted
  <2>1. z = TRUE /\ exhausted = TRUE
    BY <1>3, <1>4
  <2>2. e.kind \in {"content", "reasoning"} => t = 0
    BY <1>3, <1>4 DEF IsTake
  <2>3. IsCut(l, more, cut, content, reasoning, TRUE)
    BY <1>2, <2>1, CutStays
  <2>4. x = content /\ y = reasoning
    BY <1>3, <2>2
  <2> HIDE DEF more
  <2> QED
    BY <1>1, <2>1, <2>3, <2>4 DEF Cut
<1>5. CASE ~exhausted /\ e.kind \notin {"content", "reasoning"}
  <2>1. z = FALSE /\ exhausted = FALSE
    BY <1>3, <1>5
  <2>2. IsCut(l, more, Len(more), content, reasoning, FALSE)
    BY <1>2, <1>5, <2>1, CutPasses
  <2>3. Len(more) \in Nat
    BY <1>1
  <2> HIDE DEF more
  <2> QED
    BY <1>1, <1>5, <2>1, <2>2, <2>3 DEF Cut
<1>6. CASE ~exhausted /\ e.kind \in {"content", "reasoning"}
  <2>1. exhausted = FALSE /\ (z <=> t < e.runes)
    BY <1>3, <1>6
  <2>2. IsTake(l, FALSE, content, reasoning, e.kind, e.runes, t)
    BY <1>6, <2>1
  <2>3. IsCut(l, more, Len(flow) + t, x, y, z)
    <3>1. IsCut(l, flow, cut, content, reasoning, FALSE)
      BY <1>2, <2>1
    <3>2. IsMove(e, content, reasoning, t, x, y, z)
      BY <1>6, <2>1 DEF IsMove
    <3> QED
      BY <2>2, <3>1, <3>2, CutMoves
  <2>4. Len(flow) + t \in Nat
    BY <1>1, <2>2 DEF IsTake
  <2> HIDE DEF more
  <2> QED
    BY <1>1, <2>1, <2>3, <2>4 DEF Cut
<1> QED
  BY <1>4, <1>5, <1>6

-----------------------------------------------------------------------------
(* The whole stream.                                                        *)

\* WellFormedStream, of these frames: legal, one signature at most, and the one end
\* last, if the answer is done.
Formed(s, frames, p) ==
    /\ s = "anthropic" => Legal(frames)
    /\ \A i, j \in DOMAIN frames :
          frames[i].what = "signature" /\ frames[j].what = "signature" => i = j
    /\ \A i \in DOMAIN frames :
          frames[i].type \in {"end", "error"} <=> (p = "done" /\ i = Len(frames))
    /\ p = "done" => frames # <<>>

\* A writer that is not done has formed frames.
LEMMA WriterForms ==
  ASSUME NEW b, WriterInv(b), NEW p, p # "done"
  PROVE  Formed(surface, b.frames, p)
BY DEF WriterInv, Signed, Unfinished, Formed

\* What closes the stream: the open block's stop, then the end or the error.
LEMMA FinishWriter ==
  ASSUME NEW b, WriterInv(b), NEW type \in {"end", "error"}, NEW what \in {"error", "message"},
         NEW d, d = Send(CloseCurrent(b), type, what, 0)
  PROVE  /\ d \in WriterSet /\ d.open = "none" /\ Quiet(b, d)
         /\ Formed(surface, d.frames, "done")
<1> DEFINE a == CloseCurrent(b)
           f == Frame(type, a.index, what, 0, <<>>)
<1>1. WriterInv(a) /\ Quiet(b, a) /\ a.open = "none"
  BY CloseCurrentWriter
<1>2. d = [a EXCEPT !.frames = Append(@, f)]
  BY DEF Send
<1> HIDE DEF a
<1>3. a \in WriterSet /\ a.index \in Nat /\ a.frames \in Seq(FrameSet)
  BY <1>1 DEF WriterInv, WriterSet
<1>4. f \in FrameSet /\ f.type = type /\ f.what # "signature" /\ Silent(f)
  <2>1. f \in FrameSet
    BY <1>3, FrameFields DEF Types, Whats
  <2> QED
    BY <2>1 DEF Frame, Silent, Runes
<1> HIDE DEF f
<1>5. /\ d \in WriterSet /\ d.frames = Append(a.frames, f) /\ d.open = a.open /\ d.sent = a.sent
  <2> DEFINE g == [a EXCEPT !.frames = Append(@, f)]
  <2>1. g \in WriterSet /\ g.frames = Append(a.frames, f) /\ g.open = a.open /\ g.sent = a.sent
    BY <1>3, <1>4, AppendFields
  <2> QED
    BY <1>2, <2>1
<1>6. Quiet(b, d)
  <2>1. Puts(a, d, f)
    BY <1>4, <1>5 DEF Puts
  <2>2. Quiet(a, d)
    BY <1>1, <1>4, <2>1, PutQuiet
  <2> QED
    BY <1>1, <2>2, QuietIs
<1> DEFINE n == Len(a.frames) + 1
<1>7. Grown(a.frames, f, d.frames, n)
  BY <1>3, <1>4, <1>5 DEF Grown
<1>8. /\ Len(d.frames) = n /\ d.frames[n] = f /\ DOMAIN d.frames = 1 .. n
      /\ DOMAIN a.frames = 1 .. n - 1 /\ n \in Nat \ {0}
      /\ \A j \in 1 .. n - 1 : d.frames[j] = a.frames[j]
  BY <1>7, GrownFacts
<1>9. ASSUME surface = "anthropic" PROVE Legal(d.frames)
  <2>1. Legal(a.frames) /\ Balanced(a.frames, a.open, a.index)
    BY <1>1, <1>9 DEF WriterInv
  <2>2. Cardinality(At(a.frames, n, {"start"})) = Cardinality(At(a.frames, n, {"stop"}))
    BY <1>1, <2>1 DEF Balanced
  <2>3. n \in 1 .. n
    BY <1>8
  <2> HIDE DEF n
  <2>4. At(d.frames, n, {"start"}) = At(a.frames, n, {"start"})
        /\ At(d.frames, n, {"stop"}) = At(a.frames, n, {"stop"})
    BY <1>7, <2>3, AtKeeps
  <2>5. LegalAt(d.frames, n)
    BY <1>4, <1>8, <2>2, <2>4 DEF LegalAt
  <2> QED
    BY <1>7, <2>1, <2>5, LegalAppend
<1> HIDE DEF n
<1>10. \A i \in 1 .. n : i = n \/ i \in 1 .. n - 1
  BY <1>8
<1>11. /\ \A i, j \in 1 .. n - 1 :
             a.frames[i].what = "signature" /\ a.frames[j].what = "signature" => i = j
       /\ \A i \in 1 .. n - 1 : a.frames[i].type \in {"start", "delta", "stop"}
  BY <1>1, <1>8 DEF WriterInv, Signed, Unfinished
<1>12. \A i, j \in 1 .. n :
          d.frames[i].what = "signature" /\ d.frames[j].what = "signature" => i = j
  BY <1>4, <1>8, <1>10, <1>11
<1>13. \A i \in 1 .. n : d.frames[i].type \in {"end", "error"} <=> i = n
  <2>1. \A i \in 1 .. n - 1 : d.frames[i].type \notin {"end", "error"} /\ i # n
    BY <1>8, <1>11, SMTT(30)
  <2>2. d.frames[n].type \in {"end", "error"}
    BY <1>4, <1>8
  <2> QED
    BY <1>10, <2>1, <2>2
<1>14. d.frames # <<>>
  BY <1>8
<1>15. Formed(surface, d.frames, "done")
  BY <1>8, <1>9, <1>12, <1>13, <1>14 DEF Formed
<1> QED
  BY <1>1, <1>5, <1>6, <1>15

\* A set whose members are all the same has one at most.
LEMMA OneAtMost ==
  ASSUME NEW S, \A x, y \in S : x = y
  PROVE  Cardinality(S) <= 1
<1>1. CASE S = {}
  BY <1>1, FS_EmptySet
<1>2. CASE S # {}
  <2>1. PICK x : x \in S
    BY <1>2
  <2>2. S = {x}
    BY <2>1
  <2> QED
    BY <2>2, FS_Singleton
<1> QED
  BY <1>1, <1>2

\* Formed is what WellFormedStream asks.
LEMMA FormedIsWellFormed ==
  ASSUME w.frames \in Seq(FrameSet), Formed(surface, w.frames, pc)
  PROVE  WellFormedStream
<1> DEFINE n == Len(w.frames)
           S == {i \in DOMAIN w.frames : w.frames[i].what = "signature"}
           E == {i \in DOMAIN w.frames : w.frames[i].type \in {"end", "error"}}
<1>1. n \in Nat /\ DOMAIN w.frames = 1 .. n
  OBVIOUS
<1>2. Cardinality(S) <= 1
  <2>1. \A x, y \in S : x = y
    BY DEF Formed
  <2> HIDE DEF S
  <2> QED
    BY <2>1, OneAtMost
<1>3. E = IF pc = "done" THEN {n} ELSE {}
  <2>1. CASE pc = "done"
    <3>1. n \in 1 .. n
      BY <1>1, <2>1 DEF Formed
    <3> QED
      BY <1>1, <2>1, <3>1 DEF Formed
  <2>2. CASE pc # "done"
    BY <2>2 DEF Formed
  <2> QED
    BY <2>1, <2>2
<1>4. ASSUME surface = "anthropic", NEW i \in DOMAIN w.frames
      PROVE  LET f       == w.frames[i]
                 starts  == Before(i, {"start"})
                 stops   == Before(i, {"stop"})
                 current == w.frames[Max(starts)]
             IN  IF f.type \in {"delta", "stop"}
                    THEN /\ Cardinality(starts) = Cardinality(stops) + 1
                         /\ f.index = current.index
                         /\ Belongs(f, current.what)
                    ELSE /\ Cardinality(starts) = Cardinality(stops)
                         /\ f.type = "start" => f.index = Cardinality(starts)
  <2>1. LegalAt(w.frames, i)
    BY <1>4 DEF Formed, Legal
  <2>2. \A types : Before(i, types) = At(w.frames, i, types)
    BY DEF Before, At
  <2> QED
    BY <2>1, <2>2 DEF LegalAt
<1> HIDE DEF S, E
<1> QED
  BY <1>2, <1>3, <1>4 DEF WellFormedStream, S, E, n

\* The invariant. CeilingMet and CallsAreWhole follow from its cut and its tools.
IInv ==
    /\ TypeOK
    /\ c \in CollectedSet
    /\ w \in WriterSet
    /\ pc # "done" => WriterInv(w) /\ reason = "none" /\ Delivered(w.frames) = <<>>
    /\ Formed(surface, w.frames, pc)
    /\ StreamedIsCollected
    /\ Cut(limit, seen, c.content, c.reasoning, c.exhausted)
    /\ ToolsInv(c.tools, seen)
    /\ reason # "none" => Delivered(w.frames) = Finished(c.tools)

\* It begins so.
LEMMA InitInv == Init => IInv
<1> SUFFICES ASSUME Init PROVE IInv
  OBVIOUS
<1>1. /\ surface \in Surfaces /\ limit \in Limits /\ mayCallTools \in BOOLEAN /\ seen = <<>>
      /\ c = Nothing /\ w = Idle /\ pc = "reading" /\ end = "none" /\ reason = "none"
      /\ surface \in {"openai", "anthropic"} /\ limit \in Nat /\ MaxEvents \in Nat
  BY ResponseAssumption DEF Init, ResponseAssumption
<1>2. c \in CollectedSet /\ c.content = 0 /\ c.reasoning = 0 /\ c.signature = 0
      /\ c.exhausted = FALSE /\ c.tools = <<>>
  <2>1. <<>> \in Seq(ToolSet)
    OBVIOUS
  <2> QED
    BY <1>1, <2>1 DEF Nothing, CollectedSet
<1>3. w \in WriterSet /\ w.frames = <<>> /\ w.open = "none" /\ w.index = 0 /\ w.sent = FALSE
  <2>1. <<>> \in Seq(FrameSet)
    OBVIOUS
  <2> QED
    BY <1>1, <2>1 DEF Idle, WriterSet, OpenKinds
<1>4. TypeOK
  <2>1. seen \in Seq(Events) /\ Len(seen) = 0
    BY <1>1
  <2> QED
    BY <1>1, <1>2, <1>3, <2>1 DEF TypeOK
<1>5. WriterInv(w)
  <2>1. \A types : At(w.frames, 1, types) = {}
    BY DEF At
  <2>2. Cardinality({}) = 0
    BY FS_EmptySet
  <2>3. Len(w.frames) + 1 = 1 /\ DOMAIN w.frames = {}
    BY <1>3
  <2>4. Balanced(w.frames, w.open, w.index)
    BY <1>3, <2>1, <2>2, <2>3 DEF Balanced
  <2>5. Legal(w.frames) /\ Signed(w.frames, w.sent) /\ Unfinished(w.frames)
    BY <2>3 DEF Legal, Signed, Unfinished
  <2> QED
    BY <1>1, <1>3, <2>4, <2>5 DEF WriterInv
<1>6. Delivered(w.frames) = <<>>
  <2>1. [i \in DOMAIN <<>> |-> <<>>[i].calls] = <<>>
    OBVIOUS
  <2> QED
    BY <1>3, <2>1, FlattenEmpty DEF Delivered
<1>7. Formed(surface, w.frames, pc)
  BY <1>1, <1>5, WriterForms
<1>8. StreamedIsCollected
  BY <1>2, <1>3, SentEmpty DEF StreamedIsCollected
<1>9. Cut(limit, seen, c.content, c.reasoning, c.exhausted)
  BY <1>1, <1>2, CutOfNothing DEF Cut
<1>10. ToolsInv(c.tools, seen)
  <2> DEFINE none == <<>>
  <2>1. c.tools = none /\ seen = none /\ none \in Seq(ToolSet) /\ Len(none) = 0 /\ DOMAIN none = {}
    BY <1>1, <1>2
  <2>2. Pieces(none, Blank) = <<>> /\ \A id : Pieces(none, id) = <<>>
    <3>1. ASSUME NEW id PROVE [i \in DOMAIN <<>> |-> FragmentIn(<<>>, id, i)] = <<>>
      OBVIOUS
    <3> QED
      BY <3>1, FlattenEmpty DEF Pieces
  <2> HIDE DEF none
  <2>3. BegunIds(none) = {}
    BY <2>1 DEF BegunIds
  <2>4. LastBegun(none) = Blank
    BY <2>1 DEF LastBegun, BegunBy
  <2>5. none = <<>>
    BY DEF none
  <2> QED
    BY <2>1, <2>2, <2>3, <2>4, <2>5 DEF ToolsInv
<1> QED
  BY <1>1, <1>2, <1>3, <1>4, <1>5, <1>6, <1>7, <1>8, <1>9, <1>10 DEF IInv

\* What the invariant says of the constants and the types.
LEMMA InvFacts ==
  ASSUME IInv
  PROVE  /\ limit \in Nat /\ seen \in Seq(Events) /\ Len(seen) \in Nat
         /\ surface \in {"openai", "anthropic"}
         /\ c \in CollectedSet /\ w \in WriterSet /\ w.frames \in Seq(FrameSet)
         /\ c.content \in Nat /\ c.reasoning \in Nat /\ c.exhausted \in BOOLEAN
         /\ w.open \in Growing
<1>1. TypeOK /\ c \in CollectedSet /\ w \in WriterSet
  BY DEF IInv
<1>2. seen \in Seq(Events) /\ limit \in Limits /\ surface \in Surfaces /\ w.open \in Growing
  BY <1>1 DEF TypeOK, Growing
<1>3. limit \in Nat /\ surface \in {"openai", "anthropic"}
  BY <1>2, ResponseAssumption DEF ResponseAssumption
<1>4. w.frames \in Seq(FrameSet)
  BY <1>1 DEF WriterSet
<1>5. c.content \in Nat /\ c.reasoning \in Nat /\ c.exhausted \in BOOLEAN
  BY <1>1 DEF CollectedSet
<1> QED
  BY <1>1, <1>2, <1>3, <1>4, <1>5

\* A step that changes neither the writer nor the collector keeps the invariant.
LEMMA QuietStep ==
  ASSUME IInv, UNCHANGED <<request, seen, c, w, reason>>,
         pc # "done", pc' # "done", pc' \in {"reading", "closing"},
         end' \in {"none", "clean", "failed", "released"}
  PROVE  IInv'
<1>1. /\ surface' = surface /\ limit' = limit /\ mayCallTools' = mayCallTools
      /\ seen' = seen /\ c' = c /\ w' = w /\ reason' = reason
  BY DEF request
<1>2. TypeOK'
  BY <1>1 DEF IInv, TypeOK
<1>3. WriterInv(w) /\ reason = "none" /\ Delivered(w.frames) = <<>>
  BY DEF IInv
<1>4. WriterInv(w)'
  BY <1>1, <1>3 DEF WriterInv
<1>5. Formed(surface, w.frames, pc')
  BY <1>3, WriterForms
<1>6. StreamedIsCollected'
  BY <1>1 DEF IInv, StreamedIsCollected
<1>7. Cut(limit, seen, c.content, c.reasoning, c.exhausted) /\ ToolsInv(c.tools, seen)
      /\ c \in CollectedSet /\ w \in WriterSet
  BY DEF IInv
<1> QED
  BY <1>1, <1>2, <1>3, <1>4, <1>5, <1>6, <1>7 DEF IInv

\* So does an event.
LEMMA TakeEventInv ==
  ASSUME IInv, NEW e \in Events, TakeEvent(e)
  PROVE  IInv'
<1>1. /\ limit \in Nat /\ seen \in Seq(Events) /\ Len(seen) \in Nat
      /\ c \in CollectedSet /\ w \in WriterSet /\ w.frames \in Seq(FrameSet)
      /\ c.content \in Nat /\ c.reasoning \in Nat /\ c.exhausted \in BOOLEAN
      /\ w.open \in Growing
  BY InvFacts
<1>2. /\ pc = "reading" /\ Len(seen) < MaxEvents /\ seen' = Append(seen, e)
      /\ c' = Collect(e) /\ w' = Emit(e)
      /\ pc' \in {"reading", "closing"} /\ (end' = end \/ end' = "released")
      /\ surface' = surface /\ limit' = limit /\ mayCallTools' = mayCallTools /\ reason' = reason
  BY DEF TakeEvent, request
<1>3. WriterInv(w) /\ reason = "none" /\ Delivered(w.frames) = <<>>
  BY <1>2 DEF IInv
<1>4. /\ Cut(limit, seen, c.content, c.reasoning, c.exhausted) /\ ToolsInv(c.tools, seen)
      /\ StreamedIsCollected /\ TypeOK
  BY DEF IInv
<1> DEFINE A == Admitted(e)
           n == Len(seen) + 1
<1>5. e.kind \in {"content", "reasoning"} =>
         /\ IsTake(limit, c.exhausted, c.content, c.reasoning, e.kind, e.runes, A)
         /\ A \in Nat
  <2>1. SUFFICES ASSUME e.kind \in {"content", "reasoning"}
                 PROVE  /\ IsTake(limit, c.exhausted, c.content, c.reasoning, e.kind, e.runes, A)
                        /\ A \in Nat
    OBVIOUS
  <2>2. e.runes \in Nat
    BY EventFacts
  <2>3. A = Take(e.runes, e.kind = "reasoning")
    BY DEF Admitted
  <2> HIDE DEF A
  <2>4. IsTake(limit, c.exhausted, c.content, c.reasoning, e.kind, e.runes, A)
    BY <1>1, <2>1, <2>2, <2>3, TakeIs
  <2>5. A \in Nat
    BY <2>2, <2>4 DEF IsTake
  <2> QED
    BY <2>4, <2>5
<1>6. Longer(seen, e, seen', n)
  BY <1>1, <1>2 DEF Longer
<1>7. e.kind = "tool" => ToolsInv(Add(c.tools, e), seen') /\ Add(c.tools, e) \in Seq(ToolSet)
  <2>1. SUFFICES ASSUME e.kind = "tool"
                 PROVE  ToolsInv(Add(c.tools, e), seen') /\ Add(c.tools, e) \in Seq(ToolSet)
    OBVIOUS
  <2>2. ToolsInv(Add(c.tools, e), seen')
    BY <1>4, <1>6, <2>1, AddKeepsTools
  <2> QED
    BY <2>2 DEF ToolsInv
<1>8. /\ c' \in CollectedSet
      /\ c'.content = IF e.kind = "content" THEN c.content + A ELSE c.content
      /\ c'.reasoning = IF e.kind = "reasoning" THEN c.reasoning + A ELSE c.reasoning
      /\ c'.exhausted <=> c.exhausted \/ (e.kind \in {"content", "reasoning"} /\ A < e.runes)
      /\ c'.tools = IF e.kind = "tool" THEN Add(c.tools, e) ELSE c.tools
      /\ c'.signature \in {c.signature, n}
  BY <1>1, <1>2, <1>5, <1>7, CollectFacts
<1>9. /\ WriterInv(Emit(e)) /\ Emit(e).open \in Growing
      /\ Effect(w, Emit(e), IF e.kind = "content" THEN A ELSE 0,
                IF e.kind = "reasoning" THEN A ELSE 0, <<>>)
  BY <1>1, <1>3, <1>5, EmitWriter
<1>10. ToolsInv(c'.tools, seen')
  <2>1. CASE e.kind = "tool"
    BY <2>1, <1>7, <1>8
  <2>2. CASE e.kind # "tool"
    <3>1. ToolsInv(c.tools, seen')
      BY <2>2, <1>4, <1>6, ToolsStay
    <3> QED
      BY <2>2, <3>1, <1>8
  <2> QED
    BY <2>1, <2>2
<1> HIDE DEF A
<1>11. Cut(limit, Append(seen, e), c'.content, c'.reasoning, c'.exhausted)
  <2>1. c'.exhausted \in BOOLEAN
    BY <1>8 DEF CollectedSet
  <2> DEFINE x == c'.content
             y == c'.reasoning
             z == c'.exhausted
  <2>2. /\ x = IF e.kind = "content" THEN c.content + A ELSE c.content
        /\ y = IF e.kind = "reasoning" THEN c.reasoning + A ELSE c.reasoning
        /\ z \in BOOLEAN
        /\ z <=> c.exhausted \/ (e.kind \in {"content", "reasoning"} /\ A < e.runes)
    BY <1>8, <2>1
  <2> HIDE DEF x, y, z
  <2>3. Cut(limit, Append(seen, e), x, y, z)
    BY <1>1, <1>4, <1>5, <2>2, CutStep
  <2> QED
    BY <2>3 DEF x, y, z
<1>12. w'.open \in Growing /\ WriterInv(Emit(e)) /\ w' \in WriterSet /\ w'.frames \in Seq(FrameSet)
  BY <1>2, <1>9 DEF WriterInv, WriterSet
<1>13. WriterInv(w)'
  BY <1>2, <1>9 DEF WriterInv
<1>14. Formed(surface, w'.frames, pc')
  <2>1. pc' # "done"
    BY <1>2
  <2> QED
    BY <1>2, <1>9, <2>1, WriterForms
<1>15. Delivered(w'.frames) = <<>>
  <2>1. Delivered(w'.frames) = <<>> \o <<>>
    BY <1>2, <1>3, <1>9 DEF Effect
  <2> QED
    BY <2>1
<1>16. StreamedIsCollected'
  <2>1. Sent(w'.frames, "text") = c.content + (IF e.kind = "content" THEN A ELSE 0)
        /\ Sent(w'.frames, "thinking") = c.reasoning + (IF e.kind = "reasoning" THEN A ELSE 0)
    BY <1>2, <1>4, <1>9 DEF Effect, StreamedIsCollected
  <2>2. Sent(w'.frames, "text") = c'.content /\ Sent(w'.frames, "thinking") = c'.reasoning
    BY <1>1, <1>8, <2>1
  <2> QED
    BY <2>2 DEF StreamedIsCollected
<1>17. TypeOK'
  <2>1. seen' \in Seq(Events) /\ Len(seen') = n /\ n \in Nat /\ n <= MaxEvents
    BY <1>1, <1>2, ResponseAssumption DEF ResponseAssumption
  <2>2. c'.content \in Nat /\ c'.reasoning \in Nat /\ c'.signature \in Nat
    BY <1>8 DEF CollectedSet
  <2>3. c'.signature \in 0 .. Len(seen')
    BY <1>4, <1>8, <2>1, <2>2 DEF TypeOK
  <2>4. w'.open \in {"none", "text", "thinking"} /\ w'.index \in Nat
    BY <1>12 DEF Growing, WriterSet
  <2>5. pc' \in {"reading", "closing", "done"} /\ end' \in {"none", "clean", "failed", "released"}
    BY <1>2, <1>4 DEF TypeOK
  <2> HIDE DEF n
  <2> QED
    BY <1>2, <1>4, <2>1, <2>2, <2>3, <2>4, <2>5 DEF TypeOK
<1>18. pc' # "done" /\ reason' = "none"
  BY <1>2, <1>3
<1> QED
  BY <1>2, <1>8, <1>10, <1>11, <1>12, <1>13, <1>14, <1>15, <1>16, <1>17, <1>18 DEF IInv

\* And the end of the stream, for the writer it leaves and the reason it gives.
LEMMA DoneInv ==
  ASSUME IInv, pc # "done", pc' = "done", UNCHANGED <<request, seen, c, end>>,
         w' \in WriterSet, w'.open = "none", Formed(surface, w'.frames, "done"),
         Sent(w'.frames, "text") = Sent(w.frames, "text"),
         Sent(w'.frames, "thinking") = Sent(w.frames, "thinking"),
         reason' \in {"none", "end_turn", "max_tokens", "tool_use", "stop_sequence",
                      "content_filter"},
         reason' # "none" => Delivered(w'.frames) = Finished(c.tools)
  PROVE  IInv'
<1>1. /\ surface' = surface /\ limit' = limit /\ mayCallTools' = mayCallTools
      /\ seen' = seen /\ c' = c /\ end' = end
  BY DEF request
<1>2. TypeOK'
  <2>1. w'.index \in Nat
    BY DEF WriterSet
  <2> QED
    BY <1>1, <2>1 DEF IInv, TypeOK
<1>3. StreamedIsCollected'
  BY <1>1 DEF IInv, StreamedIsCollected
<1>4. Cut(limit, seen, c.content, c.reasoning, c.exhausted) /\ ToolsInv(c.tools, seen)
      /\ c \in CollectedSet
  BY DEF IInv
<1> QED
  BY <1>1, <1>2, <1>3, <1>4 DEF IInv

\* No step breaks it.
LEMMA NextInv == IInv /\ [Next]_vars => IInv'
<1> SUFFICES ASSUME IInv, [Next]_vars PROVE IInv'
  OBVIOUS
<1>1. ASSUME NEW e \in Events, TakeEvent(e) PROVE IInv'
  BY <1>1, TakeEventInv
<1>2. CASE EndOfStream
  BY <1>2, QuietStep DEF EndOfStream, request
<1>3. CASE StreamBreaks
  BY <1>3, QuietStep DEF StreamBreaks, request
<1>4. CASE Fail
  <2> DEFINE d == Send(CloseCurrent(w), "error", "error", 0)
  <2>1. pc = "closing" /\ pc' = "done" /\ w' = d /\ UNCHANGED <<request, seen, c, end, reason>>
    BY <1>4 DEF Fail, request
  <2>2. WriterInv(w) /\ reason = "none"
    BY <2>1 DEF IInv
  <2>3. d \in WriterSet /\ d.open = "none" /\ Quiet(w, d) /\ Formed(surface, d.frames, "done")
    BY <2>2, FinishWriter
  <2> HIDE DEF d
  <2>4. Sent(d.frames, "text") = Sent(w.frames, "text")
        /\ Sent(d.frames, "thinking") = Sent(w.frames, "thinking")
    BY <2>2, <2>3, QuietIs
  <2> QED
    BY <2>1, <2>2, <2>3, <2>4, DoneInv DEF request
<1>5. CASE Complete
  <2> DEFINE calls == Finished(c.tools)
             b == ToolCalls(w, calls)
             d == Send(CloseCurrent(b), "end", "message", 0)
  <2>1. /\ pc = "closing" /\ pc' = "done" /\ w' = d /\ UNCHANGED <<request, seen, c, end>>
        /\ reason' = IF end = "failed" /\ c.content > 0 THEN "max_tokens" ELSE StopReasonFor
    BY <1>5 DEF Complete, request
  <2>2. WriterInv(w) /\ Delivered(w.frames) = <<>> /\ ToolsInv(c.tools, seen)
    BY <2>1 DEF IInv
  <2>3. calls \in Seq(CallSet)
    BY <2>2, FinishedIsDue
  <2> HIDE DEF calls
  <2>4. WriterInv(b) /\ Effect(w, b, 0, 0, calls)
    BY <2>2, <2>3, ToolCallsWriter
  <2> HIDE DEF b
  <2>5. d \in WriterSet /\ d.open = "none" /\ Quiet(b, d) /\ Formed(surface, d.frames, "done")
    BY <2>4, FinishWriter
  <2> HIDE DEF d
  <2>6. Effect(w, d, 0, 0, calls)
    BY <2>4, <2>5, QuietAfterEffect
  <2>7. Sent(d.frames, "text") = Sent(w.frames, "text")
        /\ Sent(d.frames, "thinking") = Sent(w.frames, "thinking")
    BY <2>2, <2>6, EffectTypes DEF Effect
  <2>8. Delivered(d.frames) = calls
    <3>1. Delivered(d.frames) = <<>> \o calls
      BY <2>2, <2>6 DEF Effect
    <3> QED
      BY <2>3, <3>1
  <2>9. reason' \in {"end_turn", "max_tokens", "tool_use", "stop_sequence", "content_filter"}
    <3>1. StopReasonFor \in {"end_turn", "max_tokens", "tool_use", "stop_sequence", "content_filter"}
      BY DEF StopReasonFor
    <3> QED
      BY <2>1, <3>1
  <2> QED
    BY <2>1, <2>5, <2>7, <2>8, <2>9, DoneInv DEF request, calls
<1>6. CASE UNCHANGED vars
  <2>1. /\ surface' = surface /\ limit' = limit /\ mayCallTools' = mayCallTools
        /\ seen' = seen /\ c' = c /\ w' = w /\ pc' = pc /\ end' = end /\ reason' = reason
    BY <1>6 DEF vars, request
  <2>2. TypeOK' /\ StreamedIsCollected'
    BY <2>1 DEF IInv, TypeOK, StreamedIsCollected
  <2>3. WriterInv(w) => WriterInv(w)'
    BY <2>1 DEF WriterInv
  <2> QED
    BY <2>1, <2>2, <2>3 DEF IInv
<1> QED
  BY <1>1, <1>2, <1>3, <1>4, <1>5, <1>6 DEF Next

\* So it holds throughout.
LEMMA Invariance == Spec => []IInv
<1> QED
  BY InitInv, NextInv, PTL DEF Spec

\* CeilingMet follows from the cut.
LEMMA InvCeiling == IInv => CeilingMet
<1> SUFFICES ASSUME IInv PROVE CeilingMet
  OBVIOUS
<1> DEFINE fitting == {n \in 0 .. Len(Flow) :
              limit = 0 \/ Tokens(Count("content", n), Count("reasoning", n)) <= limit}
           longest == Max({n \in fitting : \A m \in 0 .. n : m \in fitting})
<1>1. PICK cut \in Nat : IsCut(limit, FlowOf(seen), cut, c.content, c.reasoning, c.exhausted)
  BY DEF IInv, Cut
<1>2. Flow = FlowOf(seen)
  BY DEF Flow, FlowOf
<1>3. \A kind, n : Count(kind, n) = CountIn(FlowOf(seen), kind, n)
  BY <1>2 DEF Count, CountIn
<1>4. fitting = {n \in 0 .. Len(FlowOf(seen)) : Fits(limit, FlowOf(seen), n)}
  BY <1>2, <1>3 DEF Fits
<1>5. CeilingMet <=> /\ c.content = Count("content", longest)
                     /\ c.reasoning = Count("reasoning", longest)
                     /\ c.exhausted <=> longest < Len(Flow)
  BY DEF CeilingMet
<1> HIDE DEF fitting
<1>6. longest = cut
  BY <1>1, <1>4, CutIsLongest, SMTT(30)
<1> HIDE DEF longest
<1>7. /\ c.content = CountIn(FlowOf(seen), "content", cut)
      /\ c.reasoning = CountIn(FlowOf(seen), "reasoning", cut)
      /\ c.exhausted <=> cut < Len(FlowOf(seen))
  BY <1>1 DEF IsCut
<1> QED
  BY <1>2, <1>3, <1>5, <1>6, <1>7

\* CallsAreWhole follows from the accumulator and what is made of it.
LEMMA InvCalls == IInv => CallsAreWhole
<1> SUFFICES ASSUME IInv, reason # "none" PROVE CallsAreWhole
  BY DEF CallsAreWhole
<1> DEFINE calls == Delivered(w.frames)
<1>1. calls = Finished(c.tools) /\ ToolsInv(c.tools, seen)
  BY DEF IInv
<1>2. CallsDue(calls, seen)
  BY <1>1, FinishedIsDue
<1>3. \A i : (Begins(i) <=> BeginsIn(seen, i)) /\ Owner(i) = OwnerIn(seen, i)
  <2>1. \A i, id : Names(i, id) <=> NamesIn(seen, i, id)
    BY DEF Names, NamesIn
  <2>2. \A i : Begins(i) <=> BeginsIn(seen, i)
    BY <2>1 DEF Begins, BeginsIn
  <2>3. \A i : {j \in 1 .. i : Begins(j)} = BegunBy(seen, i)
    BY <2>2 DEF BegunBy
  <2>4. \A i : Owner(i) = OwnerIn(seen, i)
    BY <2>3 DEF Owner, OwnerIn
  <2> QED
    BY <2>2, <2>4
<1> DEFINE fragment(id, i) ==
              IF seen[i].kind = "tool" /\ Owner(i) = id THEN <<seen[i].piece>> ELSE <<>>
           owed(id) == Arguments(FlattenSeq([i \in DOMAIN seen |-> fragment(id, i)]))
           begun == {seen[i].id : i \in {j \in DOMAIN seen : Begins(j)}}
<1>4. \A id : owed(id) = Arguments(Pieces(seen, id))
  <2>1. \A id, i : fragment(id, i) = FragmentIn(seen, id, i)
    BY <1>3 DEF FragmentIn
  <2> HIDE DEF fragment
  <2>2. ASSUME NEW id
        PROVE  [i \in DOMAIN seen |-> fragment(id, i)] = [i \in DOMAIN seen |-> FragmentIn(seen, id, i)]
    BY <2>1
  <2> QED
    BY <2>2 DEF Pieces
<1>5. begun = BegunIds(seen)
  BY <1>3 DEF BegunIds
<1>6. CallsAreWhole <=>
         /\ \A i \in DOMAIN calls : calls[i].id \in begun /\ calls[i].arguments = owed(calls[i].id)
         /\ \A i, j \in DOMAIN calls : i # j => calls[i].arguments # calls[j].arguments
         /\ \A id \in begun : \E i \in DOMAIN calls : calls[i].arguments = owed(id)
  BY DEF CallsAreWhole, Delivered
<1> HIDE DEF calls, owed, begun
<1> QED
  BY <1>2, <1>4, <1>5, <1>6 DEF CallsDue

-----------------------------------------------------------------------------
(* The theorems.                                                            *)

\* The state keeps its types: no block that cannot grow is open between two events.
THEOREM TypeCorrect == Spec => []TypeOK
<1>1. IInv => TypeOK
  BY DEF IInv
<1> QED
  BY <1>1, Invariance, PTL

\* The client can attribute every delta: blocks are numbered in order, one is open at
\* a time, the signature comes once, and one end or error closes the stream
\* (anthropic_stream.go), whatever upstream sent.
THEOREM StreamIsWellFormed == Spec => []WellFormedStream
<1>1. IInv => WellFormedStream
  <2> SUFFICES ASSUME IInv PROVE WellFormedStream
    OBVIOUS
  <2>1. w.frames \in Seq(FrameSet) /\ Formed(surface, w.frames, pc)
    BY InvFacts DEF IInv
  <2> QED
    BY <2>1, FormedIsWellFormed
<1> QED
  BY <1>1, Invariance, PTL

\* What was sent is what the tokens are counted from (stream_core.go:466-469).
THEOREM StreamIsCollected == Spec => []StreamedIsCollected
<1>1. IInv => StreamedIsCollected
  BY DEF IInv
<1> QED
  BY <1>1, Invariance, PTL

\* The client gets the longest beginning of the output its max_tokens allows, for
\* any chunks and any ceiling.
THEOREM CeilingIsMet == Spec => []CeilingMet
<1> QED
  BY InvCeiling, Invariance, PTL

\* Every call begun reaches the client with exactly its own fragments, in any
\* interleaving of any number of calls.
THEOREM CallsArriveWhole == Spec => []CallsAreWhole
<1> QED
  BY InvCalls, Invariance, PTL

=============================================================================
