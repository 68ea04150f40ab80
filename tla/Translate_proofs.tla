--------------------------- MODULE Translate_proofs ---------------------------
(***************************************************************************)
(* Translate for any conversation, of any number of turns: what is sent    *)
(* upstream alternates, begins with the prompt, answers calls with results *)
(* and loses nothing.                                                      *)
(***************************************************************************)
EXTENDS Translate, SequenceTheorems, FiniteSetTheorems, TLAPS

-----------------------------------------------------------------------------
(* Induction and recursion. The library states induction for an operator,   *)
(* which the provers cannot instantiate; here it is stated for a set.       *)

\* A set of natural numbers has a least element.
LEMMA LeastOf ==
  ASSUME NEW S, S \subseteq Nat, S # {}
  PROVE  \E n \in S : \A m \in S : n <= m
<1>1. IsWellFoundedOn(OpToRel(<, Nat), Nat)
  BY NatLessThanWellFounded
<1>2. PICK n \in S : \A m \in S : ~ (<<m, n>> \in OpToRel(<, Nat))
  BY <1>1, WFMin
<1>3. \A m \in S : ~ (m < n)
  BY <1>2 DEF OpToRel
<1> QED
  BY <1>3

\* A set that has 0 and the next of each of its members has all numbers.
LEMMA UpTo ==
  ASSUME NEW N \in Nat, NEW Good, 0 \in Good, \A n \in 1 .. N : n - 1 \in Good => n \in Good
  PROVE  \A n \in 0 .. N : n \in Good
<1> DEFINE bad == {n \in 0 .. N : n \notin Good}
<1>1. SUFFICES ASSUME bad # {} PROVE FALSE
  OBVIOUS
<1>2. PICK k \in bad : \A m \in bad : k <= m
  <2>1. bad \subseteq Nat
    OBVIOUS
  <2> HIDE DEF bad
  <2> QED
    BY <2>1, <1>1, LeastOf
<1>3. k \in 1 .. N /\ k \notin Good
  OBVIOUS
<1>4. k - 1 \in 0 .. N /\ k - 1 \notin bad
  <2>1. k - 1 \in bad => k <= k - 1
    BY <1>2
  <2> QED
    BY <2>1, <1>3
<1> QED
  BY <1>3, <1>4

\* A set that has the empty sequence and, with a sequence, all that are one element
\* longer, has all sequences.
LEMMA SeqInduction ==
  ASSUME NEW T, NEW Good, <<>> \in Good,
         \A s \in Seq(T), x \in T : s \in Good => Append(s, x) \in Good
  PROVE  \A s \in Seq(T) : s \in Good
<1> SUFFICES ASSUME NEW s \in Seq(T) PROVE s \in Good
  OBVIOUS
<1> DEFINE N == Len(s)
           front(n) == [i \in 1 .. n |-> s[i]]
           long == {n \in 0 .. N : front(n) \in Good}
<1>1. N \in Nat /\ s = front(N) /\ \A n \in 1 .. N : s[n] \in T
  OBVIOUS
<1>2. 0 \in long
  <2>1. front(0) = <<>>
    OBVIOUS
  <2> QED
    BY <1>1, <2>1
<1> HIDE DEF N
<1>3. ASSUME NEW n \in 0 .. N PROVE front(n) \in Seq(T) /\ Len(front(n)) = n /\ \A i \in 1 .. n : front(n)[i] = s[i]
  <2>1. n \in Nat /\ \A i \in 1 .. n : s[i] \in T
    BY <1>1
  <2> QED
    BY <2>1
<1>4. ASSUME NEW n \in 1 .. N, n - 1 \in long PROVE n \in long
  <2>1. n \in 0 .. N /\ n - 1 \in 0 .. N /\ s[n] \in T /\ n \in Nat /\ n - 1 \in Nat
    BY <1>1
  <2> HIDE DEF front
  <2>2. front(n) = Append(front(n - 1), s[n])
    <3> DEFINE u == front(n)
               v == Append(front(n - 1), s[n])
    <3>1. u \in Seq(T) /\ Len(u) = n /\ \A i \in 1 .. n : u[i] = s[i]
      BY <1>3, <2>1
    <3>2. v \in Seq(T) /\ Len(v) = n /\ v[n] = s[n] /\ \A i \in 1 .. n - 1 : v[i] = s[i]
      BY <1>3, <2>1
    <3> HIDE DEF u, v
    <3>3. \A i \in 1 .. n : u[i] = v[i]
      BY <3>1, <3>2
    <3>4. u = v
      BY <3>1, <3>2, <3>3, SeqEqual
    <3> QED
      BY <3>4 DEF u, v
  <2>3. front(n - 1) \in Good
    BY <1>4
  <2>4. front(n - 1) \in Seq(T)
    BY <1>3, <2>1
  <2>5. front(n) \in Good
    BY <2>1, <2>2, <2>3, <2>4
  <2> QED
    BY <2>1, <2>5
<1>5. N \in long
  <2> HIDE DEF long
  <2>1. \A n \in 0 .. N : n \in long
    BY <1>1, <1>2, <1>4, UpTo
  <2> QED
    BY <1>1, <2>1
<1> QED
  BY <1>1, <1>5

\* f begins with b and takes N steps, the nth of them step[n].
Follows(f, S, N, step, b) ==
    /\ f \in [0 .. N -> S]
    /\ f[0] = b
    /\ \A n \in 1 .. N : f[n] = step[n][f[n - 1]]

\* A function that follows given steps exists, however many there are.
LEMMA RecursionExists ==
  ASSUME NEW S, NEW N \in Nat, NEW step \in [1 .. N -> [S -> S]], NEW b \in S
  PROVE  \E f : Follows(f, S, N, step, b)
<1> DEFINE Good == {k \in 0 .. N : \E f : Follows(f, S, k, step, b)}
<1>1. 0 \in Good
  <2>1. Follows([n \in 0 .. 0 |-> b], S, 0, step, b)
    BY DEF Follows
  <2> QED
    BY <2>1
<1>2. ASSUME NEW k \in 1 .. N, k - 1 \in Good PROVE k \in Good
  <2>1. PICK f : Follows(f, S, k - 1, step, b)
    BY <1>2
  <2> DEFINE g == [n \in 0 .. k |-> IF n = k THEN step[k][f[k - 1]] ELSE f[n]]
  <2>2. g \in [0 .. k -> S]
    BY <2>1 DEF Follows
  <2>3. g[0] = b
    BY <2>1 DEF Follows
  <2>4. ASSUME NEW n \in 1 .. k PROVE g[n] = step[n][g[n - 1]]
    BY <2>1 DEF Follows
  <2>5. Follows(g, S, k, step, b)
    BY <2>2, <2>3, <2>4 DEF Follows
  <2> QED
    BY <2>5
<1> HIDE DEF Good
<1>3. \A k \in 0 .. N : k \in Good
  BY <1>1, <1>2, UpTo
<1>4. N \in Good
  BY <1>3
<1> QED
  BY <1>4 DEF Good

\* Two functions that keep in step.
InStep(f, g, N) ==
    /\ f[0] = g[0]
    /\ \A n \in 1 .. N : f[n - 1] = g[n - 1] => f[n] = g[n]

\* They are the same.
LEMMA RecursionUnique ==
  ASSUME NEW N \in Nat, NEW f, NEW g, InStep(f, g, N)
  PROVE  \A n \in 0 .. N : f[n] = g[n]
<1> DEFINE Good == {n \in 0 .. N : f[n] = g[n]}
<1>1. 0 \in Good /\ \A n \in 1 .. N : n - 1 \in Good => n \in Good
  BY DEF InStep
<1> HIDE DEF Good
<1>2. \A n \in 0 .. N : n \in Good
  BY <1>1, UpTo
<1> QED
  BY <1>2 DEF Good

-----------------------------------------------------------------------------
(* Sequences put one after the other.                                       *)

\* Nothing, put together, is nothing.
LEMMA FlattenEmpty == FlattenSeq(<<>>) = <<>>
BY DEF FlattenSeq

\* The beginnings of what FlattenSeq computes.
Flattens(f, ss, S) ==
    /\ f \in [1 .. Len(ss) -> Seq(S)]
    /\ \A i \in 1 .. Len(ss) : f[i] = IF i = 1 THEN ss[i] ELSE f[i - 1] \o ss[i]

\* FlattenSeq is the last of its own beginnings.
LEMMA FlattenDef ==
  ASSUME NEW S, NEW ss \in Seq(Seq(S)), ss # <<>>
  PROVE  \E f : Flattens(f, ss, S) /\ FlattenSeq(ss) = f[Len(ss)]
<1> DEFINE N == Len(ss)
           Def(f) == [i \in 1 .. N |-> IF i = 1 THEN ss[i] ELSE f[i - 1] \o ss[i]]
           step == [n \in 1 .. N |-> [s \in Seq(S) |-> s \o ss[n]]]
           rec == CHOOSE f : f = Def(f)
<1>1. N \in Nat \ {0} /\ \A n \in 1 .. N : ss[n] \in Seq(S)
  OBVIOUS
<1>2. step \in [1 .. N -> [Seq(S) -> Seq(S)]]
  OBVIOUS
<1>3. PICK h : Follows(h, Seq(S), N, step, <<>>)
  <2> HIDE DEF step, N
  <2>1. <<>> \in Seq(S)
    OBVIOUS
  <2> QED
    BY <1>1, <1>2, <2>1, RecursionExists
<1> DEFINE f == [i \in 1 .. N |-> h[i]]
<1> HIDE DEF N
<1>4. ASSUME NEW i \in 1 .. N
      PROVE  f[i] \in Seq(S) /\ f[i] = IF i = 1 THEN ss[i] ELSE f[i - 1] \o ss[i]
  <2>1. i \in 0 .. N /\ i - 1 \in 0 .. N
    BY <1>1
  <2>2. h[i] = h[i - 1] \o ss[i] /\ h[i] \in Seq(S) /\ h[i - 1] \in Seq(S)
    BY <1>1, <1>3, <2>1 DEF Follows
  <2>3. f[i] = h[i]
    OBVIOUS
  <2>4. i # 1 => f[i - 1] = h[i - 1]
    BY <1>1
  <2> HIDE DEF f
  <2>5. CASE i = 1
    <3>1. h[0] \o ss[i] = ss[i]
      BY <1>1, <1>3 DEF Follows
    <3>2. h[i - 1] = h[0]
      BY <2>5
    <3> QED
      BY <2>2, <2>5, <3>1, <3>2, <2>3
  <2>6. CASE i # 1
    BY <2>2, <2>6, <2>3, <2>4
  <2> QED
    BY <2>5, <2>6
<1> HIDE DEF f
<1>5. f = Def(f)
  <2>1. f = [i \in 1 .. N |-> f[i]]
    BY DEF f
  <2> QED
    BY <2>1, <1>4
<1>6. rec = Def(rec)
  <2> HIDE DEF Def
  <2> QED
    BY <1>5
<1>7. FlattenSeq(ss) = rec[N]
  BY <1>1 DEF FlattenSeq, N
<1> HIDE DEF rec
<1>8. ASSUME NEW i \in 1 .. N PROVE rec[i] = f[i]
  <2> DEFINE bad == {n \in 1 .. N : rec[n] # f[n]}
  <2>1. SUFFICES ASSUME bad # {} PROVE FALSE
    OBVIOUS
  <2>2. PICK k \in bad : \A m \in bad : k <= m
    <3>1. bad \subseteq Nat
      OBVIOUS
    <3> HIDE DEF bad
    <3> QED
      BY <3>1, <2>1, LeastOf
  <2>3. k \in 1 .. N
    OBVIOUS
  <2>4. rec[k] = (IF k = 1 THEN ss[k] ELSE rec[k - 1] \o ss[k])
    BY <2>3, <1>6
  <2>5. f[k] = (IF k = 1 THEN ss[k] ELSE f[k - 1] \o ss[k])
    BY <2>3, <1>4
  <2>6. k # 1 => rec[k - 1] = f[k - 1]
    <3>1. SUFFICES ASSUME k # 1 PROVE rec[k - 1] = f[k - 1]
      OBVIOUS
    <3>2. k - 1 \in 1 .. N
      BY <2>3, <1>1, <3>1
    <3>3. k - 1 \in bad => k <= k - 1
      BY <2>2
    <3> QED
      BY <3>2, <3>3, <2>3
  <2> QED
    BY <2>4, <2>5, <2>6
<1>9. f \in [1 .. N -> Seq(S)]
  BY <1>4 DEF f
<1> QED
  <2>1. FlattenSeq(ss) = f[N]
    BY <1>1, <1>7, <1>8
  <2>2. Flattens(f, ss, S)
    BY <1>4, <1>9 DEF N, Flattens
  <2> QED
    BY <2>1, <2>2 DEF N

\* One sequence more.
LEMMA FlattenAppend ==
  ASSUME NEW S, NEW ss \in Seq(Seq(S)), NEW s \in Seq(S)
  PROVE  /\ FlattenSeq(ss) \in Seq(S)
         /\ FlattenSeq(Append(ss, s)) = FlattenSeq(ss) \o s
<1> DEFINE tt == Append(ss, s)
           N  == Len(ss)
<1>1. /\ tt \in Seq(Seq(S)) /\ tt # <<>> /\ Len(tt) = N + 1 /\ N \in Nat
      /\ tt[N + 1] = s /\ \A i \in 1 .. N : tt[i] = ss[i]
  <2> DEFINE T == Seq(S)
  <2>1. ss \in Seq(T) /\ s \in T
    OBVIOUS
  <2> HIDE DEF T
  <2>2. tt \in Seq(T) /\ tt # <<>> /\ Len(tt) = N + 1 /\ N \in Nat
        /\ tt[N + 1] = s /\ \A i \in 1 .. N : tt[i] = ss[i]
    BY <2>1
  <2> QED
    BY <2>2 DEF T
<1> HIDE DEF tt
<1>2. PICK g : Flattens(g, tt, S) /\ FlattenSeq(tt) = g[Len(tt)]
  BY <1>1, FlattenDef
<1>3. CASE ss = <<>>
  <2>1. N = 0
    BY <1>3
  <2>2. FlattenSeq(tt) = s
    BY <1>1, <1>2, <2>1 DEF Flattens
  <2>3. FlattenSeq(ss) = <<>>
    BY <1>3, FlattenEmpty
  <2> QED
    BY <2>2, <2>3 DEF tt
<1>4. CASE ss # <<>>
  <2>1. PICK f : Flattens(f, ss, S) /\ FlattenSeq(ss) = f[N]
    BY <1>4, FlattenDef
  <2>2. N \in Nat \ {0}
    BY <1>4
  <2> DEFINE bad == {n \in 1 .. N : f[n] # g[n]}
  <2>3. bad = {}
    <3>1. SUFFICES ASSUME bad # {} PROVE FALSE
      OBVIOUS
    <3>2. PICK k \in bad : \A m \in bad : k <= m
      <4>1. bad \subseteq Nat
        OBVIOUS
      <4> HIDE DEF bad
      <4> QED
        BY <4>1, <3>1, LeastOf
    <3>3. k \in 1 .. N
      OBVIOUS
    <3> HIDE DEF N
    <3>4. k \in 1 .. Len(tt) /\ tt[k] = ss[k]
      BY <3>3, <1>1
    <3>5. k # 1 => f[k - 1] = g[k - 1]
      <4>1. SUFFICES ASSUME k # 1 PROVE f[k - 1] = g[k - 1]
        OBVIOUS
      <4>2. k - 1 \in 1 .. N
        BY <3>3, <2>2, <4>1
      <4>3. k - 1 \in bad => k <= k - 1
        BY <3>2
      <4> QED
        BY <4>2, <4>3, <3>3
    <3>6. f[k] = (IF k = 1 THEN ss[k] ELSE f[k - 1] \o ss[k])
      BY <3>3, <2>1 DEF Flattens, N
    <3>7. g[k] = (IF k = 1 THEN tt[k] ELSE g[k - 1] \o tt[k])
      BY <3>4, <1>2 DEF Flattens
    <3> QED
      BY <3>4, <3>5, <3>6, <3>7
  <2>4. f[N] = g[N]
    <3>1. N \in 1 .. N
      BY <2>2
    <3>2. N \notin bad
      BY <2>3
    <3> QED
      BY <3>1, <3>2
  <2> HIDE DEF N
  <2>5. N + 1 \in 1 .. Len(tt) /\ N + 1 # 1 /\ (N + 1) - 1 = N
    BY <1>1, <2>2
  <2>6. g[N + 1] = g[N] \o tt[N + 1]
    BY <2>5, <1>2 DEF Flattens
  <2>7. FlattenSeq(tt) = FlattenSeq(ss) \o s
    BY <1>1, <1>2, <2>1, <2>4, <2>6
  <2>8. FlattenSeq(ss) \in Seq(S)
    BY <2>1, <2>2 DEF Flattens, N
  <2> QED
    BY <2>7, <2>8 DEF tt
<1> QED
  BY <1>3, <1>4


\* What two sequences put together hold.
LEMMA JoinedRange ==
  ASSUME NEW S, NEW s \in Seq(S), NEW t \in Seq(S)
  PROVE  s \o t \in Seq(S) /\ ToSet(s \o t) = ToSet(s) \cup ToSet(t)
<1> DEFINE u == s \o t
           m == Len(s)
           n == Len(t)
<1>1. /\ u \in Seq(S) /\ Len(u) = m + n /\ m \in Nat /\ n \in Nat
      /\ \A i \in 1 .. m + n : u[i] = IF i <= m THEN s[i] ELSE t[i - m]
  BY ConcatProperties
<1>2. DOMAIN u = 1 .. m + n /\ DOMAIN s = 1 .. m /\ DOMAIN t = 1 .. n
  BY <1>1
<1> HIDE DEF u, m, n
<1>3. ASSUME NEW i \in 1 .. m PROVE i \in 1 .. m + n /\ u[i] = s[i]
  BY <1>1
<1>4. ASSUME NEW i \in 1 .. n PROVE m + i \in 1 .. m + n /\ u[m + i] = t[i]
  BY <1>1
<1>5. ASSUME NEW i \in 1 .. m + n
      PROVE  (\E k \in 1 .. m : u[i] = s[k]) \/ (\E k \in 1 .. n : u[i] = t[k])
  <2>1. CASE i <= m
    <3>1. i \in 1 .. m /\ u[i] = s[i]
      BY <1>1, <2>1
    <3> QED
      BY <3>1
  <2>2. CASE ~ (i <= m)
    <3>1. i - m \in 1 .. n /\ u[i] = t[i - m]
      BY <1>1, <2>2
    <3> QED
      BY <3>1
  <2> QED
    BY <2>1, <2>2
<1>6. \A e : (\E i \in 1 .. m + n : e = u[i])
              <=> (\E k \in 1 .. m : e = s[k]) \/ (\E k \in 1 .. n : e = t[k])
  <2> TAKE e
  <2>1. ASSUME NEW i \in 1 .. m + n, e = u[i]
        PROVE  (\E k \in 1 .. m : e = s[k]) \/ (\E k \in 1 .. n : e = t[k])
    BY <1>5, <2>1
  <2>2. ASSUME NEW k \in 1 .. m, e = s[k] PROVE \E i \in 1 .. m + n : e = u[i]
    BY <1>3, <2>2
  <2>3. ASSUME NEW k \in 1 .. n, e = t[k] PROVE \E i \in 1 .. m + n : e = u[i]
    BY <1>4, <2>3
  <2> QED
    BY <2>1, <2>2, <2>3
<1>7. \A e : e \in ToSet(u) <=> e \in ToSet(s) \cup ToSet(t)
  BY <1>2, <1>6 DEF ToSet
<1> QED
  BY <1>1, <1>7 DEF u


\* What a sequence of sequences put together holds.
LEMMA FlattenRange ==
  ASSUME NEW S, NEW ss \in Seq(Seq(S))
  PROVE  /\ FlattenSeq(ss) \in Seq(S)
         /\ ToSet(FlattenSeq(ss)) = UNION {ToSet(ss[i]) : i \in DOMAIN ss}
<1> DEFINE Holds(s) == ToSet(FlattenSeq(s)) = UNION {ToSet(s[i]) : i \in DOMAIN s}
           T == Seq(S)
           Good == {s \in Seq(T) : FlattenSeq(s) \in Seq(S) /\ Holds(s)}
<1>1. <<>> \in Good
  <2>1. FlattenSeq(<<>>) = <<>> /\ <<>> \in Seq(T) /\ <<>> \in Seq(S)
    BY FlattenEmpty
  <2>2. Holds(<<>>)
    BY <2>1 DEF ToSet
  <2> QED
    BY <2>1, <2>2
<1>2. ASSUME NEW s \in Seq(T), NEW x \in T, s \in Good PROVE Append(s, x) \in Good
  <2>1. FlattenSeq(s) \in Seq(S) /\ x \in Seq(S) /\ Holds(s)
    BY <1>2
  <2>2. FlattenSeq(Append(s, x)) = FlattenSeq(s) \o x
    BY FlattenAppend
  <2>3. FlattenSeq(s) \o x \in Seq(S) /\ ToSet(FlattenSeq(s) \o x) = ToSet(FlattenSeq(s)) \cup ToSet(x)
    BY <2>1, JoinedRange
  <2>4. UNION {ToSet(Append(s, x)[i]) : i \in DOMAIN Append(s, x)}
          = (UNION {ToSet(s[i]) : i \in DOMAIN s}) \cup ToSet(x)
    <3> DEFINE u == Append(s, x)
               n == Len(s)
    <3>1. DOMAIN u = 1 .. n + 1 /\ DOMAIN s = 1 .. n /\ n \in Nat /\ u[n + 1] = x
          /\ \A i \in 1 .. n : u[i] = s[i]
      <4> HIDE DEF T
      <4> QED
        OBVIOUS
    <3> HIDE DEF u, n
    <3>2. \A i \in 1 .. n : i \in 1 .. n + 1
      BY <3>1
    <3>3. \A i \in 1 .. n + 1 : i = n + 1 \/ i \in 1 .. n
      BY <3>1
    <3>4. n + 1 \in 1 .. n + 1
      BY <3>1
    <3>5. \A e : (\E i \in DOMAIN u : e \in ToSet(u[i]))
                  <=> (\E i \in DOMAIN s : e \in ToSet(s[i])) \/ e \in ToSet(x)
      BY <3>1, <3>2, <3>3, <3>4, Zenon
    <3>6. UNION {ToSet(u[i]) : i \in DOMAIN u} = (UNION {ToSet(s[i]) : i \in DOMAIN s}) \cup ToSet(x)
      BY <3>5, Zenon
    <3> QED
      BY <3>6 DEF u
  <2>5. Append(s, x) \in Seq(T)
    <3> HIDE DEF T
    <3> QED
      OBVIOUS
  <2> QED
    BY <2>1, <2>2, <2>3, <2>4, <2>5
<1>3. \A s \in Seq(T) : s \in Good
  <2> HIDE DEF Good, T
  <2> QED
    BY <1>1, <1>2, SeqInduction
<1> QED
  BY <1>3

\* A function applied to each element of a sequence one element longer.
LEMMA MapAppend ==
  ASSUME NEW S, NEW T, NEW f \in [S -> T], NEW s \in Seq(S), NEW x \in S
  PROVE  /\ [i \in DOMAIN s |-> f[s[i]]] \in Seq(T)
         /\ [i \in DOMAIN Append(s, x) |-> f[Append(s, x)[i]]]
              = Append([i \in DOMAIN s |-> f[s[i]]], f[x])
<1> DEFINE u == Append(s, x)
           n == Len(s)
           fs == [i \in DOMAIN s |-> f[s[i]]]
           fu == [i \in DOMAIN u |-> f[u[i]]]
<1>1. /\ DOMAIN u = 1 .. n + 1 /\ DOMAIN s = 1 .. n /\ n \in Nat /\ u[n + 1] = x
      /\ \A i \in 1 .. n : u[i] = s[i] /\ s[i] \in S
  OBVIOUS
<1> HIDE DEF u, n
<1>2. fs \in Seq(T) /\ Len(fs) = n /\ \A i \in 1 .. n : fs[i] = f[s[i]]
  BY <1>1
<1>3. fu \in Seq(T) /\ Len(fu) = n + 1 /\ \A i \in 1 .. n + 1 : fu[i] = f[u[i]]
  <2>1. \A i \in 1 .. n + 1 : u[i] \in S
    <3>1. \A i \in 1 .. n + 1 : i = n + 1 \/ i \in 1 .. n
      BY <1>1
    <3> QED
      BY <1>1, <3>1
  <2> QED
    BY <1>1, <2>1
<1> HIDE DEF fs, fu
<1> DEFINE v == Append(fs, f[x])
<1>4. v \in Seq(T) /\ Len(v) = n + 1 /\ v[n + 1] = f[x] /\ \A i \in 1 .. n : v[i] = fs[i]
  BY <1>2
<1> HIDE DEF v
<1>5. \A i \in 1 .. n + 1 : fu[i] = v[i]
  <2>1. \A i \in 1 .. n + 1 : i = n + 1 \/ i \in 1 .. n
    BY <1>1
  <2> QED
    BY <1>1, <1>2, <1>3, <1>4, <2>1
<1>6. fu = v
  BY <1>3, <1>4, <1>5, SeqEqual
<1> QED
  BY <1>2, <1>6 DEF fs, fu, v, u

\* What a function makes of each element, put together.
Spread(f, s) == FlattenSeq([i \in DOMAIN s |-> f[s[i]]])

\* f gives every element of S a sequence over T.
Spreads(f, S, T) == f \in [S -> Seq(T)]

\* One element more, and what it is spread to comes last.
LEMMA SpreadAppend ==
  ASSUME NEW S, NEW T, NEW f, Spreads(f, S, T), NEW s \in Seq(S), NEW x \in S
  PROVE  /\ Spread(f, s) \in Seq(T)
         /\ Spread(f, Append(s, x)) = Spread(f, s) \o f[x]
<1> DEFINE R == Seq(T)
           fs == [i \in DOMAIN s |-> f[s[i]]]
<1>1. f \in [S -> R] /\ f[x] \in R
  BY DEF Spreads
<1> HIDE DEF R
<1>2. /\ fs \in Seq(R)
      /\ [i \in DOMAIN Append(s, x) |-> f[Append(s, x)[i]]] = Append(fs, f[x])
  <2>1. [i \in DOMAIN s |-> f[s[i]]] \in Seq(R)
    BY <1>1, MapAppend
  <2>2. [i \in DOMAIN Append(s, x) |-> f[Append(s, x)[i]]] = Append([i \in DOMAIN s |-> f[s[i]]], f[x])
    BY <1>1, MapAppend
  <2> QED
    BY <2>1, <2>2
<1> HIDE DEF fs
<1>3. fs \in Seq(Seq(T)) /\ f[x] \in Seq(T)
  BY <1>1, <1>2 DEF R
<1>4. FlattenSeq(fs) \in Seq(T) /\ FlattenSeq(Append(fs, f[x])) = FlattenSeq(fs) \o f[x]
  BY <1>3, FlattenAppend
<1> QED
  BY <1>2, <1>4 DEF Spread, fs

\* Nothing is spread to nothing.
LEMMA SpreadEmpty == ASSUME NEW f PROVE Spread(f, <<>>) = <<>>
<1>1. [i \in DOMAIN <<>> |-> f[<<>>[i]]] = <<>>
  OBVIOUS
<1> QED
  BY <1>1, FlattenEmpty DEF Spread

\* What it holds.
LEMMA SpreadRange ==
  ASSUME NEW S, NEW T, NEW f, Spreads(f, S, T), NEW s \in Seq(S)
  PROVE  /\ Spread(f, s) \in Seq(T)
         /\ \A e : e \in ToSet(Spread(f, s)) <=> \E x \in ToSet(s) : e \in ToSet(f[x])
<1> DEFINE fs == [i \in DOMAIN s |-> f[s[i]]]
           R == Seq(T)
<1>1. fs \in Seq(R)
  <2>1. f \in [S -> R]
    BY DEF Spreads
  <2> HIDE DEF R
  <2> QED
    BY <2>1
<1>2. \A i \in DOMAIN s : fs[i] = f[s[i]]
  OBVIOUS
<1>3. DOMAIN fs = DOMAIN s
  OBVIOUS
<1> HIDE DEF fs
<1>4. FlattenSeq(fs) \in Seq(T) /\ ToSet(FlattenSeq(fs)) = UNION {ToSet(fs[i]) : i \in DOMAIN fs}
  BY <1>1, FlattenRange
<1>5. \A e : (\E i \in DOMAIN s : e \in ToSet(f[s[i]])) <=> \E x \in ToSet(s) : e \in ToSet(f[x])
  BY Zenon DEF ToSet
<1>6. Spread(f, s) = FlattenSeq(fs)
  BY DEF Spread, fs
<1>7. \A e : e \in UNION {ToSet(fs[i]) : i \in DOMAIN fs} <=> \E i \in DOMAIN s : e \in ToSet(f[s[i]])
  BY <1>2, <1>3, Zenon
<1> QED
  BY <1>4, <1>5, <1>6, <1>7

\* The filter, with one element more.
OnlyMap(T, S) == [x \in T |-> IF x \in S THEN <<x>> ELSE <<>>]

\* A filter spreads each element to itself or to nothing.
LEMMA OnlySpread ==
  ASSUME NEW T, NEW S, NEW s \in Seq(T)
  PROVE  Only(s, S) = Spread(OnlyMap(T, S), s)
<1>1. \A i \in DOMAIN s : s[i] \in T
  OBVIOUS
<1>2. [i \in DOMAIN s |-> IF s[i] \in S THEN <<s[i]>> ELSE <<>>]
        = [i \in DOMAIN s |-> OnlyMap(T, S)[s[i]]]
  BY <1>1 DEF OnlyMap
<1> QED
  BY <1>2 DEF Only, Spread

\* The filter's map is one of sequences.
LEMMA OnlyMapType == ASSUME NEW T, NEW S PROVE Spreads(OnlyMap(T, S), T, T)
BY DEF OnlyMap, Spreads

\* A filter keeps one element more, or leaves it out.
LEMMA OnlyAppend ==
  ASSUME NEW T, NEW S, NEW s \in Seq(T), NEW x \in T
  PROVE  /\ Only(s, S) \in Seq(T)
         /\ x \in S => Only(Append(s, x), S) = Append(Only(s, S), x)
         /\ x \notin S => Only(Append(s, x), S) = Only(s, S)
<1> DEFINE f == OnlyMap(T, S)
           o == Only(s, S)
<1>1. Spreads(f, T, T)
  BY OnlyMapType
<1>2. (x \in S => f[x] = <<x>>) /\ (x \notin S => f[x] = <<>>)
  BY DEF OnlyMap
<1>3. o = Spread(f, s) /\ Only(Append(s, x), S) = Spread(f, Append(s, x))
  <2>1. Append(s, x) \in Seq(T)
    OBVIOUS
  <2> QED
    BY <2>1, OnlySpread
<1> HIDE DEF f, o
<1>4. o \in Seq(T) /\ Only(Append(s, x), S) = o \o f[x]
  <2>1. Spread(f, s) \in Seq(T) /\ Spread(f, Append(s, x)) = Spread(f, s) \o f[x]
    BY <1>1, SpreadAppend
  <2> QED
    BY <1>3, <2>1
<1>5. o \o <<x>> = Append(o, x) /\ o \o <<>> = o
  BY <1>4
<1> QED
  BY <1>2, <1>4, <1>5 DEF o

\* There is nothing to keep of nothing.
LEMMA OnlyEmpty == ASSUME NEW S PROVE Only(<<>>, S) = <<>>
<1>1. <<>> \in Seq({})
  OBVIOUS
<1>2. Only(<<>>, S) = Spread(OnlyMap({}, S), <<>>)
  BY <1>1, OnlySpread
<1> QED
  BY <1>2, SpreadEmpty

\* It keeps what is in the set, and only that.
LEMMA OnlyRange ==
  ASSUME NEW T, NEW S, NEW s \in Seq(T)
  PROVE  Only(s, S) \in Seq(T) /\ ToSet(Only(s, S)) = ToSet(s) \cap S
<1> DEFINE f == OnlyMap(T, S)
<1>1. Spreads(f, T, T)
  BY OnlyMapType
<1>2. \A x \in T : \A e : e \in ToSet(f[x]) <=> e = x /\ x \in S
  BY DEF OnlyMap, ToSet
<1>3. Only(s, S) = Spread(f, s)
  BY OnlySpread
<1>4. \A x \in ToSet(s) : x \in T
  BY DEF ToSet
<1> HIDE DEF f
<1>5. Spread(f, s) \in Seq(T) /\ \A e : e \in ToSet(Spread(f, s)) <=> \E x \in ToSet(s) : e \in ToSet(f[x])
  BY <1>1, SpreadRange
<1>6. \A e : e \in ToSet(Spread(f, s)) <=> e \in ToSet(s) \cap S
  <2>1. \A e : (\E x \in ToSet(s) : e \in ToSet(f[x])) <=> e \in ToSet(s) /\ e \in S
    BY <1>2, <1>4, Zenon
  <2> QED
    BY <1>5, <2>1
<1> QED
  BY <1>3, <1>5, <1>6

\* With nothing to leave out, it keeps everything.
LEMMA OnlyAll ==
  ASSUME NEW T, NEW S, NEW s \in Seq(T), T \subseteq S
  PROVE  Only(s, S) = s
<1> DEFINE Good == {t \in Seq(T) : Only(t, S) = t}
<1>1. <<>> \in Good
  BY OnlyEmpty
<1>2. \A t \in Seq(T), x \in T : t \in Good => Append(t, x) \in Good
  BY OnlyAppend
<1> HIDE DEF Good
<1>3. s \in Good
  BY <1>1, <1>2, SeqInduction
<1> QED
  BY <1>3 DEF Good

\* p and q are two parts of t, also when each element is spread out.
Halves(f, t, p, q) ==
    /\ Len(p) + Len(q) = Len(t)
    /\ Len(Spread(f, p)) + Len(Spread(f, q)) = Len(Spread(f, t))

\* Lengths add up.
LEMMA SpreadLength ==
  ASSUME NEW T, NEW E, NEW f, Spreads(f, T, E), NEW t \in Seq(T), NEW x \in T
  PROVE  /\ Append(t, x) \in Seq(T) /\ Len(Append(t, x)) = Len(t) + 1 /\ Len(t) \in Nat
         /\ Len(Spread(f, Append(t, x))) = Len(Spread(f, t)) + Len(f[x])
         /\ Len(Spread(f, t)) \in Nat /\ Len(f[x]) \in Nat
<1>1. Spread(f, t) \in Seq(E) /\ Spread(f, Append(t, x)) = Spread(f, t) \o f[x]
  BY SpreadAppend
<1>2. f[x] \in Seq(E)
  BY DEF Spreads
<1> QED
  BY <1>1, <1>2

\* A new element goes to one part or to the other.
LEMMA HalvesAppend ==
  ASSUME NEW T, NEW E, NEW f, Spreads(f, T, E), NEW t \in Seq(T), NEW p \in Seq(T), NEW q \in Seq(T),
         NEW x \in T, Halves(f, t, p, q)
  PROVE  Halves(f, Append(t, x), Append(p, x), q) /\ Halves(f, Append(t, x), p, Append(q, x))
<1> DEFINE Grown(s) ==
             /\ Len(Append(s, x)) = Len(s) + 1 /\ Len(s) \in Nat
             /\ Len(Spread(f, Append(s, x))) = Len(Spread(f, s)) + Len(f[x])
             /\ Len(Spread(f, s)) \in Nat /\ Len(f[x]) \in Nat
<1>1. Grown(t) /\ Grown(p) /\ Grown(q)
  BY SpreadLength
<1>2. Len(Append(p, x)) + Len(q) = Len(Append(t, x)) /\ Len(p) + Len(Append(q, x)) = Len(Append(t, x))
  BY <1>1 DEF Halves
<1>3. /\ Len(Spread(f, Append(p, x))) + Len(Spread(f, q)) = Len(Spread(f, Append(t, x)))
      /\ Len(Spread(f, p)) + Len(Spread(f, Append(q, x))) = Len(Spread(f, Append(t, x)))
  <2> DEFINE w(s) == Len(Spread(f, s))
             k == Len(f[x])
  <2>1. /\ w(Append(t, x)) = w(t) + k /\ w(Append(p, x)) = w(p) + k /\ w(Append(q, x)) = w(q) + k
        /\ w(t) \in Nat /\ w(p) \in Nat /\ w(q) \in Nat /\ k \in Nat
    BY <1>1
  <2>2. w(p) + w(q) = w(t)
    BY DEF Halves
  <2> HIDE DEF k, w, Grown
  <2>3. w(Append(p, x)) + w(q) = w(Append(t, x)) /\ w(p) + w(Append(q, x)) = w(Append(t, x))
    BY <2>1, <2>2
  <2> QED
    BY <2>3 DEF w
<1> QED
  BY <1>2, <1>3 DEF Halves

\* A sequence is as long as the two parts a set splits it into.
LEMMA OnlySplits ==
  ASSUME NEW T, NEW S, NEW R, \A x \in T : x \in S <=> x \notin R, NEW s \in Seq(T),
         NEW E, NEW f, Spreads(f, T, E)
  PROVE  Halves(f, s, Only(s, S), Only(s, R))
<1> DEFINE Good == {t \in Seq(T) : Halves(f, t, Only(t, S), Only(t, R))}
<1>1. <<>> \in Good
  <2>1. Only(<<>>, S) = <<>> /\ Only(<<>>, R) = <<>> /\ Spread(f, <<>>) = <<>>
    BY OnlyEmpty, SpreadEmpty
  <2>2. Halves(f, <<>>, <<>>, <<>>)
    BY <2>1 DEF Halves
  <2> QED
    BY <2>1, <2>2
<1>2. ASSUME NEW t \in Seq(T), NEW x \in T, t \in Good PROVE Append(t, x) \in Good
  <2>1. Only(t, S) \in Seq(T) /\ Only(t, R) \in Seq(T)
    BY OnlyRange
  <2>2. Halves(f, t, Only(t, S), Only(t, R))
    BY <1>2
  <2>3. /\ Halves(f, Append(t, x), Append(Only(t, S), x), Only(t, R))
        /\ Halves(f, Append(t, x), Only(t, S), Append(Only(t, R), x))
    BY <2>1, <2>2, HalvesAppend
  <2>4. /\ x \in S => Only(Append(t, x), S) = Append(Only(t, S), x)
        /\ x \notin S => Only(Append(t, x), S) = Only(t, S)
    BY OnlyAppend
  <2>5. /\ x \in R => Only(Append(t, x), R) = Append(Only(t, R), x)
        /\ x \notin R => Only(Append(t, x), R) = Only(t, R)
    BY OnlyAppend
  <2>6. Halves(f, Append(t, x), Only(Append(t, x), S), Only(Append(t, x), R))
    BY <2>3, <2>4, <2>5
  <2>7. Append(t, x) \in Seq(T)
    OBVIOUS
  <2> QED
    BY <2>6, <2>7
<1>3. s \in Good
  <2>1. \A t \in Seq(T), x \in T : t \in Good => Append(t, x) \in Good
    BY <1>2
  <2> HIDE DEF Good
  <2> QED
    BY <1>1, <2>1, SeqInduction
<1> QED
  BY <1>3

-----------------------------------------------------------------------------
(* The messages of the intermediate representation.                         *)

Ids      == STRING \cup {NoId, "own"}
AtomSet  == [what : {"text", "call", "result", "image", "placeholder", "docs"},
             turn : Nat, id : Ids]
ResultSet == [atom : AtomSet, images : Seq(AtomSet)]
ReasoningSet == {Reasoning(n, thoughts) : n \in Nat, thoughts \in Seq({"signed", "unsigned", "redacted"})}
Roles    == {"user", "assistant"}
MessageSet == [role : Roles, content : Seq(AtomSet), calls : Seq(AtomSet),
               results : Seq(ResultSet), images : Seq(AtomSet), reasoning : ReasoningSet]

\* What Atom makes is an atom.
LEMMA AtomType ==
  ASSUME NEW what \in {"text", "call", "result", "image", "placeholder", "docs"},
         NEW n \in Nat, NEW id \in Ids
  PROVE  Atom(what, n, id) \in AtomSet
BY DEF Atom, AtomSet

\* What identifiers there are.
LEMMA IdTypes == NoId \in Ids /\ "own" \in Ids /\ \A id \in STRING : id \in Ids
BY DEF Ids

\* The atoms that no turn brings are atoms too.
LEMMA PlaceholderType == Placeholder \in AtomSet /\ Docs \in AtomSet
BY AtomType, IdTypes DEF Placeholder, Docs

\* A message may carry no reasoning.
LEMMA NoReasoningType == NoReasoning \in ReasoningSet
<1>1. <<>> \in Seq({"signed", "unsigned", "redacted"})
  OBVIOUS
<1>2. \A n \in Nat, thoughts \in Seq({"signed", "unsigned", "redacted"}) :
        Reasoning(n, thoughts) \in ReasoningSet
  BY DEF ReasoningSet
<1>3. Reasoning(0, <<>>) \in ReasoningSet
  BY <1>1, <1>2
<1> QED
  BY <1>3 DEF NoReasoning

\* A message with nothing but a content is a message.
LEMMA FillerType ==
  ASSUME NEW role \in Roles, NEW content \in Seq(AtomSet)
  PROVE  Filler(role, content) \in MessageSet
BY NoReasoningType DEF Filler, MessageSet

\* What a turn holds.
LEMMA TextOfType ==
  ASSUME NEW n \in Nat, NEW t
  PROVE  TextOf(n, t) \in Seq(AtomSet)
<1>1. Atom("text", n, NoId) \in AtomSet
  BY AtomType, IdTypes
<1> QED
  BY <1>1 DEF TextOf

\* A picture is one atom or none.
LEMMA PictureType ==
  ASSUME NEW n \in Nat, NEW id \in Ids, NEW present
  PROVE  Picture(n, id, present) \in Seq(AtomSet)
<1>1. Atom("image", n, id) \in AtomSet
  BY AtomType
<1> QED
  BY <1>1 DEF Picture

\* The fields of a turn that are sequences.
LEMMA TurnFields ==
  ASSUME NEW t \in Turns
  PROVE  /\ t.role \in {"system", "user", "assistant", "tool"}
         /\ t.calls \in Seq(STRING) /\ t.results \in Seq(Results)
         /\ t.thoughts \in Seq({"signed", "unsigned", "redacted"})
BY DEF Turns

\* The calls of a turn, one atom each.
LEMMA CallsOfType ==
  ASSUME NEW n \in Nat, NEW t \in Turns
  PROVE  /\ CallsOf(n, t) \in Seq(AtomSet) /\ Len(CallsOf(n, t)) = Len(t.calls)
         /\ DOMAIN CallsOf(n, t) = DOMAIN t.calls
         /\ \A i \in DOMAIN t.calls : CallsOf(n, t)[i] = Atom("call", n, t.calls[i])
<1>1. t.calls \in Seq(STRING)
  BY TurnFields
<1> DEFINE c == t.calls
<1> HIDE DEF c
<1>2. c \in Seq(STRING) /\ \A i \in DOMAIN c : c[i] \in STRING
  BY <1>1 DEF c
<1>3. \A i \in DOMAIN c : Atom("call", n, c[i]) \in AtomSet
  BY <1>2, AtomType, IdTypes
<1>4. [i \in DOMAIN c |-> Atom("call", n, c[i])] \in Seq(AtomSet)
      /\ Len([i \in DOMAIN c |-> Atom("call", n, c[i])]) = Len(c)
  BY <1>2, <1>3
<1> QED
  BY <1>4 DEF CallsOf, c

\* The results of a turn, one each, with their pictures.
LEMMA ResultsOfType ==
  ASSUME NEW n \in Nat, NEW t \in Turns
  PROVE  /\ ResultsOf(n, t) \in Seq(ResultSet) /\ Len(ResultsOf(n, t)) = Len(t.results)
         /\ \A i \in DOMAIN t.results : ResultsOf(n, t)[i] =
              [atom |-> Atom("result", n, t.results[i].id),
               images |-> Picture(n, t.results[i].id, t.results[i].image)]
<1>1. t.results \in Seq(Results)
  BY TurnFields
<1> DEFINE c == t.results
           r(i) == [atom |-> Atom("result", n, c[i].id),
                    images |-> Picture(n, c[i].id, c[i].image)]
<1> HIDE DEF c
<1>2. c \in Seq(Results) /\ \A i \in DOMAIN c : c[i].id \in STRING
  <2>1. \A x \in Results : x.id \in STRING
    BY DEF Results
  <2>2. \A i \in DOMAIN c : c[i] \in Results
    BY <1>1 DEF c
  <2> QED
    BY <1>1, <2>1, <2>2 DEF c
<1>3. \A i \in DOMAIN c : r(i) \in ResultSet
  BY <1>2, AtomType, IdTypes, PictureType DEF ResultSet
<1>4. [i \in DOMAIN c |-> r(i)] \in Seq(ResultSet) /\ Len([i \in DOMAIN c |-> r(i)]) = Len(c)
  <2> HIDE DEF r
  <2> QED
    BY <1>2, <1>3
<1> QED
  BY <1>4 DEF ResultsOf, c

\* A turn becomes a message.
LEMMA MessageType ==
  ASSUME NEW n \in Nat, NEW t \in Turns
  PROVE  Message(n, t) \in MessageSet
<1>1. TextOf(n, t) \in Seq(AtomSet) /\ CallsOf(n, t) \in Seq(AtomSet)
      /\ ResultsOf(n, t) \in Seq(ResultSet) /\ Picture(n, "own", t.image) \in Seq(AtomSet)
  BY TextOfType, CallsOfType, ResultsOfType, PictureType, IdTypes
<1>2. Reasoning(n, t.thoughts) \in ReasoningSet
  BY TurnFields DEF ReasoningSet
<1> QED
  BY <1>1, <1>2, NoReasoningType DEF Message, MessageSet, Roles

-----------------------------------------------------------------------------
(* MergeAdjacent, a message at a time.                                      *)

\* Two messages of one side become one with the pieces of both.
LEMMA JoinedType ==
  ASSUME NEW a \in MessageSet, NEW b \in MessageSet
  PROVE  /\ Joined(a, b) \in MessageSet
         /\ Joined(a, b).role = a.role
         /\ Joined(a, b).content = a.content \o b.content
         /\ Joined(a, b).calls = a.calls \o b.calls
         /\ Joined(a, b).results = a.results \o b.results
         /\ Joined(a, b).images = a.images \o b.images
<1>1. /\ a.content \o b.content \in Seq(AtomSet) /\ a.calls \o b.calls \in Seq(AtomSet)
      /\ a.results \o b.results \in Seq(ResultSet) /\ a.images \o b.images \in Seq(AtomSet)
      /\ a.reasoning \in ReasoningSet /\ b.reasoning \in ReasoningSet /\ a.role \in Roles
  BY DEF MessageSet
<1> DEFINE r == IF b.reasoning = NoReasoning THEN a.reasoning ELSE b.reasoning
<1>2. r \in ReasoningSet
  BY <1>1
<1> HIDE DEF r
<1>3. Joined(a, b) = [a EXCEPT !.content = @ \o b.content, !.calls = @ \o b.calls,
                               !.results = @ \o b.results, !.images = @ \o b.images,
                               !.reasoning = r]
  BY DEF Joined, r
<1>4. Joined(a, b) = [role |-> a.role, content |-> a.content \o b.content,
                      calls |-> a.calls \o b.calls, results |-> a.results \o b.results,
                      images |-> a.images \o b.images, reasoning |-> r]
  BY <1>3 DEF MessageSet
<1> DEFINE c == a.content \o b.content
           d == a.calls \o b.calls
           e == a.results \o b.results
           i == a.images \o b.images
<1>5. c \in Seq(AtomSet) /\ d \in Seq(AtomSet) /\ e \in Seq(ResultSet) /\ i \in Seq(AtomSet)
  BY <1>1
<1>6. Joined(a, b) = [role |-> a.role, content |-> c, calls |-> d, results |-> e, images |-> i,
                      reasoning |-> r]
  BY <1>4
<1> HIDE DEF c, d, e, i
<1>7. /\ Joined(a, b) \in MessageSet /\ Joined(a, b).role = a.role /\ Joined(a, b).content = c
      /\ Joined(a, b).calls = d /\ Joined(a, b).results = e /\ Joined(a, b).images = i
  BY <1>1, <1>2, <1>5, <1>6 DEF MessageSet
<1> QED
  BY <1>7 DEF c, d, e, i

\* One merging step keeps a sequence of messages.
LEMMA MergedType ==
  ASSUME NEW out \in Seq(MessageSet), NEW m \in MessageSet
  PROVE  Merged(out, m) \in Seq(MessageSet)
<1>1. CASE out # <<>> /\ Last(out).role = m.role
  <2>1. Len(out) \in 1 .. Len(out) /\ out[Len(out)] \in MessageSet
    BY <1>1
  <2>2. Joined(out[Len(out)], m) \in MessageSet
    BY <2>1, JoinedType
  <2> QED
    BY <1>1, <2>1, <2>2 DEF Merged
<1>2. CASE ~ (out # <<>> /\ Last(out).role = m.role)
  BY <1>2 DEF Merged
<1> QED
  BY <1>1, <1>2

\* The beginnings of what MergeAdjacent computes.
Merges(f, s) ==
    /\ f \in [0 .. Len(s) -> Seq(MessageSet)]
    /\ f[0] = <<>>
    /\ \A n \in 1 .. Len(s) : f[n] = Merged(f[n - 1], s[n])

\* MergeAdjacent is computed a message at a time.
LEMMA MergeDef ==
  ASSUME NEW s \in Seq(MessageSet)
  PROVE  \E f : Merges(f, s) /\ MergeAdjacent(s) = f[Len(s)]
<1> DEFINE N == Len(s)
           T == Seq(MessageSet)
           Def(f) == [n \in 0 .. N |-> IF n = 0 THEN <<>> ELSE Merged(f[n - 1], s[n])]
           step == [n \in 1 .. N |-> [a \in T |-> Merged(a, s[n])]]
           rec == CHOOSE f : f = Def(f)
<1>1. N \in Nat /\ (\A n \in 1 .. N : s[n] \in MessageSet) /\ <<>> \in T
  OBVIOUS
<1>2. MergeAdjacent(s) = rec[N]
  BY DEF MergeAdjacent
<1> HIDE DEF N
<1>3. \A n \in 1 .. N, a \in T : Merged(a, s[n]) \in T
  BY <1>1, MergedType
<1> HIDE DEF T
<1>4. step \in [1 .. N -> [T -> T]]
  BY <1>3
<1>5. PICK h : Follows(h, T, N, step, <<>>)
  <2> HIDE DEF step
  <2> QED
    BY <1>1, <1>4, RecursionExists
<1>6. h \in [0 .. N -> T] /\ h[0] = <<>>
  BY <1>5 DEF Follows
<1>7. ASSUME NEW n \in 1 .. N PROVE h[n] = Merged(h[n - 1], s[n])
  <2>1. n - 1 \in 0 .. N
    BY <1>1
  <2>2. h[n - 1] \in T
    BY <1>6, <2>1
  <2> QED
    BY <1>5, <2>2 DEF Follows
<1>8. h = Def(h)
  <2>1. ASSUME NEW n \in 0 .. N PROVE h[n] = Def(h)[n]
    <3>1. n # 0 => n \in 1 .. N
      BY <1>1
    <3> QED
      BY <1>6, <1>7, <3>1
  <2>2. h = [n \in 0 .. N |-> h[n]]
    BY <1>6
  <2> QED
    BY <2>1, <2>2
<1>9. rec = Def(rec)
  <2> HIDE DEF Def
  <2> QED
    BY <1>8
<1> HIDE DEF rec
<1>10. rec[N] = h[N]
  <2>1. rec[0] = h[0]
    BY <1>1, <1>6, <1>9
  <2>2. ASSUME NEW n \in 1 .. N, rec[n - 1] = h[n - 1] PROVE rec[n] = h[n]
    <3>1. n \in 0 .. N /\ n # 0
      BY <1>1
    <3>2. rec[n] = Merged(rec[n - 1], s[n])
      BY <1>9, <3>1
    <3> QED
      BY <1>7, <2>2, <3>2
  <2> HIDE DEF Def, step
  <2>3. InStep(rec, h, N)
    BY <2>1, <2>2 DEF InStep
  <2>4. \A n \in 0 .. N : rec[n] = h[n]
    BY <1>1, <2>3, RecursionUnique
  <2> QED
    BY <1>1, <2>4
<1>11. Merges(h, s)
  BY <1>6, <1>7 DEF Merges, N, T
<1> QED
  BY <1>2, <1>10, <1>11 DEF N

\* A message more is merged into what there is.
LEMMA MergeAppend ==
  ASSUME NEW s \in Seq(MessageSet), NEW m \in MessageSet
  PROVE  /\ MergeAdjacent(s) \in Seq(MessageSet)
         /\ MergeAdjacent(Append(s, m)) = Merged(MergeAdjacent(s), m)
<1> DEFINE u == Append(s, m)
           N == Len(s)
<1>1. /\ u \in Seq(MessageSet) /\ Len(u) = N + 1 /\ N \in Nat /\ u[N + 1] = m
      /\ \A n \in 1 .. N : u[n] = s[n]
  OBVIOUS
<1> HIDE DEF u
<1>2. PICK f : Merges(f, s) /\ MergeAdjacent(s) = f[N]
  BY MergeDef
<1>3. PICK g : Merges(g, u) /\ MergeAdjacent(u) = g[Len(u)]
  BY <1>1, MergeDef
<1> HIDE DEF N
<1>4. f[N] \in Seq(MessageSet)
  BY <1>1, <1>2 DEF Merges, N
<1>5. f[0] = g[0]
  BY <1>2, <1>3 DEF Merges
<1>6. ASSUME NEW n \in 1 .. N, f[n - 1] = g[n - 1] PROVE f[n] = g[n]
  <2>1. n \in 1 .. Len(u)
    BY <1>1
  <2> QED
    BY <2>1, <1>1, <1>2, <1>3, <1>6 DEF Merges, N
<1>7. f[N] = g[N]
  <2>1. InStep(f, g, N)
    BY <1>5, <1>6 DEF InStep
  <2>2. \A n \in 0 .. N : f[n] = g[n]
    BY <1>1, <2>1, RecursionUnique
  <2> QED
    BY <1>1, <2>2
<1>8. g[N + 1] = Merged(g[N], m)
  <2>1. N + 1 \in 1 .. Len(u) /\ (N + 1) - 1 = N
    BY <1>1
  <2> QED
    BY <2>1, <1>1, <1>3 DEF Merges
<1> QED
  BY <1>1, <1>2, <1>3, <1>4, <1>7, <1>8 DEF u

\* There is nothing to merge in nothing.
LEMMA MergeEmpty == MergeAdjacent(<<>>) = <<>>
<1>1. <<>> \in Seq(MessageSet) /\ Len(<<>>) = 0
  OBVIOUS
<1>2. PICK f : Merges(f, <<>>) /\ MergeAdjacent(<<>>) = f[0]
  BY <1>1, MergeDef
<1> QED
  BY <1>2 DEF Merges

-----------------------------------------------------------------------------
(* EnsureAlternating, a message at a time.                                  *)

\* One alternating step keeps a sequence of messages.
LEMMA AlternatedType ==
  ASSUME NEW out \in Seq(MessageSet), NEW m \in MessageSet
  PROVE  Alternated(out, m) \in Seq(MessageSet)
<1>1. <<Placeholder>> \in Seq(AtomSet) /\ "assistant" \in Roles
  BY PlaceholderType DEF Roles
<1> DEFINE f == Filler("assistant", <<Placeholder>>)
<1>2. f \in MessageSet
  BY <1>1, FillerType
<1> HIDE DEF f
<1>3. out \o <<f, m>> \in Seq(MessageSet) /\ Append(out, m) \in Seq(MessageSet)
  BY <1>2
<1> QED
  BY <1>3 DEF Alternated, f

\* The beginnings of what EnsureAlternating computes.
Alternations(f, s) ==
    /\ f \in [0 .. Len(s) -> Seq(MessageSet)]
    /\ f[0] = <<>>
    /\ \A n \in 1 .. Len(s) : f[n] = Alternated(f[n - 1], s[n])

\* EnsureAlternating is computed a message at a time.
LEMMA AlternatingDef ==
  ASSUME NEW s \in Seq(MessageSet)
  PROVE  \E f : Alternations(f, s) /\ EnsureAlternating(s) = f[Len(s)]
<1> DEFINE N == Len(s)
           T == Seq(MessageSet)
           Def(f) == [n \in 0 .. N |-> IF n = 0 THEN <<>> ELSE Alternated(f[n - 1], s[n])]
           step == [n \in 1 .. N |-> [a \in T |-> Alternated(a, s[n])]]
           rec == CHOOSE f : f = Def(f)
<1>1. N \in Nat /\ (\A n \in 1 .. N : s[n] \in MessageSet) /\ <<>> \in T
  OBVIOUS
<1>2. EnsureAlternating(s) = rec[N]
  BY DEF EnsureAlternating
<1> HIDE DEF N
<1>3. \A n \in 1 .. N, a \in T : Alternated(a, s[n]) \in T
  BY <1>1, AlternatedType
<1> HIDE DEF T
<1>4. step \in [1 .. N -> [T -> T]]
  BY <1>3
<1>5. PICK h : Follows(h, T, N, step, <<>>)
  <2> HIDE DEF step
  <2> QED
    BY <1>1, <1>4, RecursionExists
<1>6. h \in [0 .. N -> T] /\ h[0] = <<>>
  BY <1>5 DEF Follows
<1>7. ASSUME NEW n \in 1 .. N PROVE h[n] = Alternated(h[n - 1], s[n])
  <2>1. n - 1 \in 0 .. N
    BY <1>1
  <2>2. h[n - 1] \in T
    BY <1>6, <2>1
  <2> QED
    BY <1>5, <2>2 DEF Follows
<1>8. h = Def(h)
  <2>1. ASSUME NEW n \in 0 .. N PROVE h[n] = Def(h)[n]
    <3>1. n # 0 => n \in 1 .. N
      BY <1>1
    <3> QED
      BY <1>6, <1>7, <3>1
  <2>2. h = [n \in 0 .. N |-> h[n]]
    BY <1>6
  <2> QED
    BY <2>1, <2>2
<1>9. rec = Def(rec)
  <2> HIDE DEF Def
  <2> QED
    BY <1>8
<1> HIDE DEF rec
<1>10. rec[N] = h[N]
  <2>1. rec[0] = h[0]
    BY <1>1, <1>6, <1>9
  <2>2. ASSUME NEW n \in 1 .. N, rec[n - 1] = h[n - 1] PROVE rec[n] = h[n]
    <3>1. n \in 0 .. N /\ n # 0
      BY <1>1
    <3>2. rec[n] = Alternated(rec[n - 1], s[n])
      BY <1>9, <3>1
    <3> QED
      BY <1>7, <2>2, <3>2
  <2> HIDE DEF Def, step
  <2>3. InStep(rec, h, N)
    BY <2>1, <2>2 DEF InStep
  <2>4. \A n \in 0 .. N : rec[n] = h[n]
    BY <1>1, <2>3, RecursionUnique
  <2> QED
    BY <1>1, <2>4
<1>11. Alternations(h, s)
  BY <1>6, <1>7 DEF Alternations, N, T
<1> QED
  BY <1>2, <1>10, <1>11 DEF N

\* A message more is put after what there is.
LEMMA AlternatingAppend ==
  ASSUME NEW s \in Seq(MessageSet), NEW m \in MessageSet
  PROVE  /\ EnsureAlternating(s) \in Seq(MessageSet)
         /\ EnsureAlternating(Append(s, m)) = Alternated(EnsureAlternating(s), m)
<1> DEFINE u == Append(s, m)
           N == Len(s)
<1>1. /\ u \in Seq(MessageSet) /\ Len(u) = N + 1 /\ N \in Nat /\ u[N + 1] = m
      /\ \A n \in 1 .. N : u[n] = s[n]
  OBVIOUS
<1> HIDE DEF u
<1>2. PICK f : Alternations(f, s) /\ EnsureAlternating(s) = f[N]
  BY AlternatingDef
<1>3. PICK g : Alternations(g, u) /\ EnsureAlternating(u) = g[Len(u)]
  BY <1>1, AlternatingDef
<1> HIDE DEF N
<1>4. f[N] \in Seq(MessageSet)
  BY <1>1, <1>2 DEF Alternations, N
<1>5. f[0] = g[0]
  BY <1>2, <1>3 DEF Alternations
<1>6. ASSUME NEW n \in 1 .. N, f[n - 1] = g[n - 1] PROVE f[n] = g[n]
  <2>1. n \in 1 .. Len(u)
    BY <1>1
  <2> QED
    BY <2>1, <1>1, <1>2, <1>3, <1>6 DEF Alternations, N
<1>7. f[N] = g[N]
  <2>1. InStep(f, g, N)
    BY <1>5, <1>6 DEF InStep
  <2>2. \A n \in 0 .. N : f[n] = g[n]
    BY <1>1, <2>1, RecursionUnique
  <2> QED
    BY <1>1, <2>2
<1>8. g[N + 1] = Alternated(g[N], m)
  <2>1. N + 1 \in 1 .. Len(u) /\ (N + 1) - 1 = N
    BY <1>1
  <2> QED
    BY <2>1, <1>1, <1>3 DEF Alternations
<1> QED
  BY <1>1, <1>2, <1>3, <1>4, <1>7, <1>8 DEF u

\* There is nothing to alternate in nothing.
LEMMA AlternatingEmpty == EnsureAlternating(<<>>) = <<>>
<1>1. <<>> \in Seq(MessageSet) /\ Len(<<>>) = 0
  OBVIOUS
<1>2. PICK f : Alternations(f, <<>>) /\ EnsureAlternating(<<>>) = f[0]
  BY <1>1, AlternatingDef
<1> QED
  BY <1>2 DEF Alternations

-----------------------------------------------------------------------------
(* Taken, a turn at a time.                                                 *)

AccSet == [messages : Seq(MessageSet), pending : Seq(ResultSet), system : Seq(AtomSet)]

\* The turn that pending results get of their own, and a user's turn with them.
ResultsTurn(pending)    == [Filler("user", <<>>) EXCEPT !.results = pending]
UserTurn(n, t, pending) == [Message(n, t) EXCEPT !.results = pending]

\* What the conversion has so far, field by field,
LEMMA AccType ==
  ASSUME NEW m \in Seq(MessageSet), NEW p \in Seq(ResultSet), NEW s \in Seq(AtomSet)
  PROVE  [messages |-> m, pending |-> p, system |-> s] \in AccSet
BY DEF AccSet

\* and the fields of it.
LEMMA AccFields ==
  ASSUME NEW acc \in AccSet
  PROVE  /\ acc.messages \in Seq(MessageSet) /\ acc.pending \in Seq(ResultSet)
         /\ acc.system \in Seq(AtomSet)
         /\ acc = [messages |-> acc.messages, pending |-> acc.pending, system |-> acc.system]
BY DEF AccSet

\* The conversion starts well typed.
LEMMA NothingTakenType == NothingTaken \in AccSet
<1>1. <<>> \in Seq(MessageSet) /\ <<>> \in Seq(ResultSet) /\ <<>> \in Seq(AtomSet)
  OBVIOUS
<1> QED
  BY <1>1 DEF NothingTaken, AccSet

\* A turn of its own holds the pending results and nothing else.
LEMMA ResultsTurnIs ==
  ASSUME NEW pending \in Seq(ResultSet)
  PROVE  /\ ResultsTurn(pending) \in MessageSet
         /\ ResultsTurn(pending) = [role |-> "user", content |-> <<>>, calls |-> <<>>,
              results |-> pending, images |-> <<>>, reasoning |-> NoReasoning]
<1>1. ResultsTurn(pending) = [role |-> "user", content |-> <<>>, calls |-> <<>>,
        results |-> pending, images |-> <<>>, reasoning |-> NoReasoning]
  BY DEF ResultsTurn, Filler
<1> QED
  BY <1>1, NoReasoningType DEF MessageSet, Roles

\* The message of a turn, field by field.
LEMMA MessageIs ==
  ASSUME NEW n \in Nat, NEW t \in Turns
  PROVE  /\ Message(n, t) \in MessageSet
         /\ Message(n, t).role = (IF t.role = "assistant" THEN "assistant" ELSE "user")
         /\ Message(n, t).content = TextOf(n, t) /\ Message(n, t).calls = CallsOf(n, t)
         /\ Message(n, t).results = ResultsOf(n, t)
         /\ Message(n, t).images = Picture(n, "own", t.image)
<1>1. Message(n, t) \in MessageSet
  BY MessageType
<1> QED
  BY <1>1 DEF Message

\* The user's message takes the pending results and is the turn's otherwise.
LEMMA UserTurnIs ==
  ASSUME NEW n \in Nat, NEW t \in Turns, NEW pending \in Seq(ResultSet)
  PROVE  /\ UserTurn(n, t, pending) \in MessageSet
         /\ UserTurn(n, t, pending).role = (IF t.role = "assistant" THEN "assistant" ELSE "user")
         /\ UserTurn(n, t, pending).content = TextOf(n, t)
         /\ UserTurn(n, t, pending).calls = CallsOf(n, t)
         /\ UserTurn(n, t, pending).results = pending
         /\ UserTurn(n, t, pending).images = Picture(n, "own", t.image)
<1> DEFINE m == Message(n, t)
<1>1. m \in MessageSet
  BY MessageIs
<1> HIDE DEF m
<1>2. /\ [m EXCEPT !.results = pending] \in MessageSet
      /\ [m EXCEPT !.results = pending].role = m.role
      /\ [m EXCEPT !.results = pending].content = m.content
      /\ [m EXCEPT !.results = pending].calls = m.calls
      /\ [m EXCEPT !.results = pending].results = pending
      /\ [m EXCEPT !.results = pending].images = m.images
  BY <1>1 DEF MessageSet
<1> QED
  BY <1>2, MessageIs DEF UserTurn, m

\* What is taken of a turn of each role.
LEMMA FlushIs ==
  ASSUME NEW acc \in AccSet
  PROVE  FlushPending(acc) =
           [messages |-> IF acc.pending = <<>> THEN acc.messages
                         ELSE Append(acc.messages, ResultsTurn(acc.pending)),
            pending |-> <<>>, system |-> acc.system]
<1>1. CASE acc.pending = <<>>
  BY <1>1 DEF FlushPending, AccSet
<1>2. CASE acc.pending # <<>>
  <2>1. FlushPending(acc) = [acc EXCEPT !.messages = Append(@, ResultsTurn(acc.pending)), !.pending = <<>>]
    BY <1>2 DEF FlushPending, ResultsTurn
  <2> HIDE DEF ResultsTurn
  <2> QED
    BY <1>2, <2>1 DEF AccSet
<1> QED
  BY <1>1, <1>2

\* A flush keeps the types.
LEMMA FlushType ==
  ASSUME NEW acc \in AccSet
  PROVE  FlushPending(acc) \in AccSet
<1> DEFINE m == IF acc.pending = <<>> THEN acc.messages
                ELSE Append(acc.messages, ResultsTurn(acc.pending))
<1>1. acc.messages \in Seq(MessageSet) /\ acc.pending \in Seq(ResultSet) /\ acc.system \in Seq(AtomSet)
  BY AccFields
<1>2. ResultsTurn(acc.pending) \in MessageSet
  BY <1>1, ResultsTurnIs
<1>3. m \in Seq(MessageSet) /\ <<>> \in Seq(ResultSet)
  BY <1>1, <1>2
<1>4. FlushPending(acc) = [messages |-> m, pending |-> <<>>, system |-> acc.system]
  BY FlushIs
<1> HIDE DEF m
<1> QED
  BY <1>1, <1>3, <1>4, AccType

\* What a turn of each role does to the conversion.
LEMMA TakeTurnIs ==
  ASSUME NEW acc \in AccSet, NEW n \in Nat, NEW t \in Turns
  PROVE  /\ t.role = "system" => TakeTurn(acc, n, t) =
              [messages |-> acc.messages, pending |-> acc.pending,
               system |-> acc.system \o TextOf(n, t)]
         /\ t.role = "tool" => TakeTurn(acc, n, t) =
              [messages |-> acc.messages, pending |-> acc.pending \o ResultsOf(n, t),
               system |-> acc.system]
         /\ t.role = "assistant" => TakeTurn(acc, n, t) =
              [messages |-> Append(FlushPending(acc).messages, Message(n, t)),
               pending |-> <<>>, system |-> acc.system]
         /\ t.role = "user" => TakeTurn(acc, n, t) =
              [messages |-> Append(acc.messages, UserTurn(n, t, acc.pending)),
               pending |-> <<>>, system |-> acc.system]
<1>1. CASE t.role = "system"
  BY <1>1 DEF TakeTurn, AccSet
<1>2. CASE t.role = "tool"
  BY <1>2 DEF TakeTurn, AccSet
<1>3. CASE t.role = "assistant"
  <2>1. TakeTurn(acc, n, t) = [FlushPending(acc) EXCEPT !.messages = Append(@, Message(n, t))]
    BY <1>3 DEF TakeTurn
  <2>2. FlushPending(acc) = [messages |-> FlushPending(acc).messages, pending |-> <<>>,
                             system |-> acc.system]
    BY FlushIs
  <2> DEFINE f == FlushPending(acc).messages
  <2>3. TakeTurn(acc, n, t) = [messages |-> Append(f, Message(n, t)), pending |-> <<>>, system |-> acc.system]
    <3> HIDE DEF f
    <3> DEFINE r == FlushPending(acc)
    <3>1. r = [messages |-> f, pending |-> <<>>, system |-> acc.system]
      BY <2>2 DEF f
    <3> HIDE DEF r
    <3> DEFINE m == Message(n, t)
               s == acc.system
    <3> HIDE DEF m, s
    <3>2. [r EXCEPT !.messages = Append(@, m)] = [messages |-> Append(f, m), pending |-> <<>>, system |-> s]
      BY <3>1, SMTT(30) DEF s
    <3> QED
      BY <2>1, <3>2 DEF r, m, s
  <2> QED
    BY <1>3, <2>3
<1>4. CASE t.role = "user"
  <2>1. TakeTurn(acc, n, t) = [acc EXCEPT !.messages = Append(@, UserTurn(n, t, acc.pending)), !.pending = <<>>]
    BY <1>4 DEF TakeTurn, UserTurn
  <2> QED
    BY <1>4, <2>1 DEF AccSet
<1> QED
  BY <1>1, <1>2, <1>3, <1>4, TurnFields

\* A turn taken keeps the types.
LEMMA TakeTurnType ==
  ASSUME NEW acc \in AccSet, NEW n \in Nat, NEW t \in Turns
  PROVE  TakeTurn(acc, n, t) \in AccSet
<1>1. acc.messages \in Seq(MessageSet) /\ acc.pending \in Seq(ResultSet) /\ acc.system \in Seq(AtomSet)
  BY DEF AccSet
<1>2. /\ acc.system \o TextOf(n, t) \in Seq(AtomSet)
      /\ acc.pending \o ResultsOf(n, t) \in Seq(ResultSet)
  <2>1. TextOf(n, t) \in Seq(AtomSet) /\ ResultsOf(n, t) \in Seq(ResultSet)
    BY TextOfType, ResultsOfType
  <2> QED
    BY <1>1, <2>1
<1>3. FlushPending(acc).messages \in Seq(MessageSet)
  BY FlushType DEF AccSet
<1>4. Message(n, t) \in MessageSet /\ UserTurn(n, t, acc.pending) \in MessageSet
  BY <1>1, MessageIs, UserTurnIs
<1>5. /\ Append(FlushPending(acc).messages, Message(n, t)) \in Seq(MessageSet)
      /\ Append(acc.messages, UserTurn(n, t, acc.pending)) \in Seq(MessageSet)
  BY <1>1, <1>3, <1>4
<1>6. <<>> \in Seq(ResultSet)
  OBVIOUS
<1> QED
  <2>1. CASE t.role = "system"
    <3>1. [messages |-> acc.messages, pending |-> acc.pending, system |-> acc.system \o TextOf(n, t)] \in AccSet
      BY <1>1, <1>2, AccType
    <3> QED
      BY <2>1, <3>1, TakeTurnIs, Zenon
  <2>2. CASE t.role = "tool"
    <3>1. [messages |-> acc.messages, pending |-> acc.pending \o ResultsOf(n, t), system |-> acc.system] \in AccSet
      BY <1>1, <1>2, AccType
    <3> QED
      BY <2>2, <3>1, TakeTurnIs, Zenon
  <2>3. CASE t.role = "assistant"
    <3>1. [messages |-> Append(FlushPending(acc).messages, Message(n, t)), pending |-> <<>>,
           system |-> acc.system] \in AccSet
      BY <1>1, <1>5, <1>6, AccType
    <3> QED
      BY <2>3, <3>1, TakeTurnIs, Zenon
  <2>4. CASE t.role = "user"
    <3>1. [messages |-> Append(acc.messages, UserTurn(n, t, acc.pending)), pending |-> <<>>,
           system |-> acc.system] \in AccSet
      BY <1>1, <1>5, <1>6, AccType
    <3> QED
      BY <2>4, <3>1, TakeTurnIs, Zenon
  <2> QED
    BY <2>1, <2>2, <2>3, <2>4, TurnFields

\* The beginnings of what Taken computes.
Takes(f, s) ==
    /\ f \in [0 .. Len(s) -> AccSet]
    /\ f[0] = NothingTaken
    /\ \A n \in 1 .. Len(s) : f[n] = TakeTurn(f[n - 1], n, s[n])

\* Taken is computed a turn at a time.
LEMMA TakeDef ==
  ASSUME NEW s \in Seq(Turns)
  PROVE  \E f : Takes(f, s) /\ Taken(s) = f[Len(s)]
<1> DEFINE N == Len(s)
           T == AccSet
           Def(f) == [n \in 0 .. N |-> IF n = 0 THEN NothingTaken ELSE TakeTurn(f[n - 1], n, s[n])]
           step == [n \in 1 .. N |-> [a \in T |-> TakeTurn(a, n, s[n])]]
           rec == CHOOSE f : f = Def(f)
<1>1. N \in Nat /\ (\A n \in 1 .. N : s[n] \in Turns) /\ NothingTaken \in T
  BY NothingTakenType
<1>2. Taken(s) = rec[N]
  BY DEF Taken
<1> HIDE DEF N
<1>3. \A n \in 1 .. N, a \in T : TakeTurn(a, n, s[n]) \in T
  BY <1>1, TakeTurnType
<1> HIDE DEF T
<1>4. step \in [1 .. N -> [T -> T]]
  BY <1>3
<1>5. PICK h : Follows(h, T, N, step, NothingTaken)
  <2> HIDE DEF step
  <2> QED
    BY <1>1, <1>4, RecursionExists
<1>6. h \in [0 .. N -> T] /\ h[0] = NothingTaken
  BY <1>5 DEF Follows
<1>7. ASSUME NEW n \in 1 .. N PROVE h[n] = TakeTurn(h[n - 1], n, s[n])
  <2>1. n - 1 \in 0 .. N
    BY <1>1
  <2>2. h[n - 1] \in T
    BY <1>6, <2>1
  <2> QED
    BY <1>5, <2>2 DEF Follows
<1>8. h = Def(h)
  <2>1. ASSUME NEW n \in 0 .. N PROVE h[n] = Def(h)[n]
    <3>1. n # 0 => n \in 1 .. N
      BY <1>1
    <3> QED
      BY <1>6, <1>7, <3>1
  <2>2. h = [n \in 0 .. N |-> h[n]]
    BY <1>6
  <2> QED
    BY <2>1, <2>2
<1>9. rec = Def(rec)
  <2> HIDE DEF Def
  <2> QED
    BY <1>8
<1> HIDE DEF rec
<1>10. rec[N] = h[N]
  <2>1. rec[0] = h[0]
    BY <1>1, <1>6, <1>9
  <2>2. ASSUME NEW n \in 1 .. N, rec[n - 1] = h[n - 1] PROVE rec[n] = h[n]
    <3>1. n \in 0 .. N /\ n # 0
      BY <1>1
    <3>2. rec[n] = TakeTurn(rec[n - 1], n, s[n])
      BY <1>9, <3>1
    <3> QED
      BY <1>7, <2>2, <3>2
  <2> HIDE DEF Def, step
  <2>3. InStep(rec, h, N)
    BY <2>1, <2>2 DEF InStep
  <2>4. \A n \in 0 .. N : rec[n] = h[n]
    BY <1>1, <2>3, RecursionUnique
  <2> QED
    BY <1>1, <2>4
<1>11. Takes(h, s)
  BY <1>6, <1>7 DEF Takes, N, T
<1> QED
  BY <1>2, <1>10, <1>11 DEF N

\* A turn more is put after what there is.
LEMMA TakeAppend ==
  ASSUME NEW s \in Seq(Turns), NEW m \in Turns
  PROVE  /\ Taken(s) \in AccSet
         /\ Taken(Append(s, m)) = TakeTurn(Taken(s), Len(s) + 1, m)
<1> DEFINE u == Append(s, m)
           N == Len(s)
<1>1. /\ u \in Seq(Turns) /\ Len(u) = N + 1 /\ N \in Nat /\ u[N + 1] = m
      /\ \A n \in 1 .. N : u[n] = s[n]
  OBVIOUS
<1> HIDE DEF u
<1>2. PICK f : Takes(f, s) /\ Taken(s) = f[N]
  BY TakeDef
<1>3. PICK g : Takes(g, u) /\ Taken(u) = g[Len(u)]
  BY <1>1, TakeDef
<1> HIDE DEF N
<1>4. f[N] \in AccSet
  BY <1>1, <1>2 DEF Takes, N
<1>5. f[0] = g[0]
  BY <1>2, <1>3 DEF Takes
<1>6. ASSUME NEW n \in 1 .. N, f[n - 1] = g[n - 1] PROVE f[n] = g[n]
  <2>1. n \in 1 .. Len(u)
    BY <1>1
  <2> QED
    BY <2>1, <1>1, <1>2, <1>3, <1>6 DEF Takes, N
<1>7. f[N] = g[N]
  <2>1. InStep(f, g, N)
    BY <1>5, <1>6 DEF InStep
  <2>2. \A n \in 0 .. N : f[n] = g[n]
    BY <1>1, <2>1, RecursionUnique
  <2> QED
    BY <1>1, <2>2
<1>8. g[N + 1] = TakeTurn(g[N], N + 1, m)
  <2>1. N + 1 \in 1 .. Len(u) /\ (N + 1) - 1 = N
    BY <1>1
  <2> QED
    BY <2>1, <1>1, <1>3 DEF Takes
<1> QED
  BY <1>1, <1>2, <1>3, <1>4, <1>7, <1>8 DEF u

\* No turn, nothing taken.
LEMMA TakeNothing == Taken(<<>>) = NothingTaken
<1>1. <<>> \in Seq(Turns) /\ Len(<<>>) = 0
  OBVIOUS
<1>2. PICK f : Takes(f, <<>>) /\ Taken(<<>>) = f[0]
  BY <1>1, TakeDef
<1> QED
  BY <1>2 DEF Takes

-----------------------------------------------------------------------------
(* What merging a message does, and that turns alternate after it.          *)

\* How out, with m merged, is made: its last message at k is base joined with m, those
\* before are out's.
MergesInto(out, m, new, k, base) ==
    /\ new \in Seq(MessageSet) /\ Len(new) = k /\ k \in Nat \ {0}
    /\ \A i \in 1 .. k - 1 : i \in DOMAIN out /\ new[i] = out[i]
    /\ base \in MessageSet
    /\ \/ k = Len(out) /\ base = out[k]
       \/ k = Len(out) + 1 /\ base = Filler(m.role, <<>>) /\ (k > 1 => out[k - 1].role # m.role)
    /\ base.role = m.role /\ new[k].role = m.role
    /\ new[k].content = base.content \o m.content
    /\ new[k].calls = base.calls \o m.calls
    /\ new[k].results = base.results \o m.results
    /\ new[k].images = base.images \o m.images

\* A message with nothing in it.
LEMMA EmptyFiller ==
  ASSUME NEW role \in Roles
  PROVE  /\ Filler(role, <<>>) \in MessageSet
         /\ Filler(role, <<>>).role = role /\ Filler(role, <<>>).content = <<>>
         /\ Filler(role, <<>>).calls = <<>> /\ Filler(role, <<>>).results = <<>>
         /\ Filler(role, <<>>).images = <<>>
<1>1. <<>> \in Seq(AtomSet)
  OBVIOUS
<1> QED
  BY <1>1, FillerType DEF Filler

\* The types of a message's fields.
LEMMA MessageFields ==
  ASSUME NEW m \in MessageSet
  PROVE  /\ m.role \in Roles /\ m.content \in Seq(AtomSet) /\ m.calls \in Seq(AtomSet)
         /\ m.results \in Seq(ResultSet) /\ m.images \in Seq(AtomSet)
         /\ m.reasoning \in ReasoningSet
BY DEF MessageSet

\* A merging step ends in the new message alone, or in it joined to the last.
LEMMA MergedIs ==
  ASSUME NEW out \in Seq(MessageSet), NEW m \in MessageSet
  PROVE  \E k, base : MergesInto(out, m, Merged(out, m), k, base)
<1> DEFINE n == Len(out)
<1>1. n \in Nat /\ \A i \in 1 .. n : out[i] \in MessageSet
  OBVIOUS
<1>2. CASE out # <<>> /\ Last(out).role = m.role
  <2> DEFINE j == Joined(out[n], m)
             new == [out EXCEPT ![n] = j]
  <2>1. n \in 1 .. n /\ n # 0 /\ out[n] \in MessageSet /\ out[n].role = m.role
    BY <1>2 DEF Last
  <2>2. Merged(out, m) = new
    BY <1>2 DEF Merged
  <2>3. j \in MessageSet /\ j.role = out[n].role /\ j.content = out[n].content \o m.content
        /\ j.calls = out[n].calls \o m.calls /\ j.results = out[n].results \o m.results
        /\ j.images = out[n].images \o m.images
    BY <2>1, JoinedType
  <2> HIDE DEF j
  <2>4. new \in Seq(MessageSet) /\ Len(new) = n /\ new[n] = j /\ \A i \in 1 .. n - 1 : new[i] = out[i]
    BY <2>1, <2>3
  <2>5. \A i \in 1 .. n - 1 : i \in DOMAIN out
    BY <1>1
  <2> HIDE DEF new
  <2>6. MergesInto(out, m, new, n, out[n])
    BY <1>1, <2>1, <2>3, <2>4, <2>5 DEF MergesInto
  <2> QED
    BY <2>2, <2>6
<1>3. CASE ~ (out # <<>> /\ Last(out).role = m.role)
  <2> DEFINE new == Append(out, m)
             f == Filler(m.role, <<>>)
  <2>1. Merged(out, m) = new
    BY <1>3 DEF Merged
  <2>2. /\ new \in Seq(MessageSet) /\ Len(new) = n + 1 /\ new[n + 1] = m
        /\ \A i \in 1 .. n : i \in DOMAIN out /\ new[i] = out[i]
    OBVIOUS
  <2>3. n + 1 > 1 => out[(n + 1) - 1].role # m.role
    BY <1>1, <1>3 DEF Last
  <2>4. f \in MessageSet /\ f.role = m.role /\ f.content = <<>> /\ f.calls = <<>>
        /\ f.results = <<>> /\ f.images = <<>>
    BY EmptyFiller, MessageFields
  <2>5. <<>> \o m.content = m.content /\ <<>> \o m.calls = m.calls
        /\ <<>> \o m.results = m.results /\ <<>> \o m.images = m.images
    BY MessageFields
  <2> HIDE DEF new, f
  <2>6. /\ new[n + 1].content = f.content \o m.content /\ new[n + 1].calls = f.calls \o m.calls
        /\ new[n + 1].results = f.results \o m.results /\ new[n + 1].images = f.images \o m.images
    BY <2>2, <2>4, <2>5
  <2>7. n + 1 \in Nat \ {0} /\ (n + 1) - 1 = n
    BY <1>1
  <2>8. MergesInto(out, m, new, n + 1, f)
    BY <2>2, <2>3, <2>4, <2>6, <2>7 DEF MergesInto, f
  <2> QED
    BY <2>1, <2>8
<1> QED
  BY <1>2, <1>3

\* No two turns of one side follow each other.
Alternating(s) == \A i \in 1 .. Len(s) : i > 1 => s[i].role # s[i - 1].role

\* A merging step leaves no two of one side together,
LEMMA MergedAlternates ==
  ASSUME NEW out \in Seq(MessageSet), NEW m \in MessageSet, Alternating(out)
  PROVE  Alternating(Merged(out, m))
<1> DEFINE new == Merged(out, m)
<1>1. PICK k, base : MergesInto(out, m, new, k, base)
  BY MergedIs
<1> HIDE DEF new
<1>2. Len(new) = k /\ k \in Nat /\ (\A i \in 1 .. k - 1 : i \in DOMAIN out /\ new[i] = out[i])
      /\ new[k].role = m.role
  BY <1>1 DEF MergesInto
<1>3. ASSUME NEW i \in 1 .. Len(new), i > 1 PROVE new[i].role # new[i - 1].role
  <2>1. i - 1 \in 1 .. k - 1 /\ i \in Nat
    BY <1>2, <1>3
  <2>2. CASE i < k
    <3>1. i \in 1 .. k - 1
      BY <1>2, <1>3, <2>2
    <3>2. new[i] = out[i] /\ new[i - 1] = out[i - 1] /\ i \in 1 .. Len(out)
      BY <1>2, <2>1, <3>1
    <3> QED
      BY <1>3, <3>2 DEF Alternating
  <2>3. CASE i = k
    <3>1. new[i - 1] = out[i - 1] /\ new[i].role = m.role
      BY <1>2, <2>1, <2>3
    <3>2. CASE k = Len(out) /\ base = out[k]
      <4>1. out[k].role = m.role
        BY <1>1, <3>2 DEF MergesInto
      <4>2. out[k].role # out[k - 1].role
        BY <1>2, <1>3, <2>3, <3>2 DEF Alternating
      <4> QED
        BY <2>3, <3>1, <4>1, <4>2
    <3>3. CASE k > 1 => out[k - 1].role # m.role
      BY <1>3, <2>3, <3>1, <3>3
    <3> QED
      BY <1>1, <3>2, <3>3 DEF MergesInto
  <2> QED
    BY <1>2, <2>1, <2>2, <2>3
<1> QED
  BY <1>3 DEF Alternating, new

\* so what is merged alternates.
LEMMA MergeAlternates ==
  ASSUME NEW s \in Seq(MessageSet)
  PROVE  MergeAdjacent(s) \in Seq(MessageSet) /\ Alternating(MergeAdjacent(s))
<1> DEFINE Good == {t \in Seq(MessageSet) : /\ MergeAdjacent(t) \in Seq(MessageSet)
                                            /\ Alternating(MergeAdjacent(t))}
<1>1. <<>> \in Good
  <2>1. Alternating(<<>>)
    BY DEF Alternating
  <2>2. <<>> \in Seq(MessageSet)
    OBVIOUS
  <2>3. MergeAdjacent(<<>>) \in Seq(MessageSet) /\ Alternating(MergeAdjacent(<<>>))
    BY <2>1, <2>2, MergeEmpty
  <2> QED
    BY <2>2, <2>3
<1>2. ASSUME NEW t \in Seq(MessageSet), NEW x \in MessageSet, t \in Good PROVE Append(t, x) \in Good
  <2>1. MergeAdjacent(Append(t, x)) = Merged(MergeAdjacent(t), x)
    BY MergeAppend
  <2>2. MergeAdjacent(t) \in Seq(MessageSet) /\ Alternating(MergeAdjacent(t))
    BY <1>2
  <2>3. Alternating(Merged(MergeAdjacent(t), x)) /\ Merged(MergeAdjacent(t), x) \in Seq(MessageSet)
    BY <2>2, MergedAlternates, MergedType
  <2>4. Append(t, x) \in Seq(MessageSet)
    OBVIOUS
  <2> QED
    BY <2>1, <2>3, <2>4
<1>3. s \in Good
  <2>1. \A t \in Seq(MessageSet), x \in MessageSet : t \in Good => Append(t, x) \in Good
    BY <1>2
  <2> HIDE DEF Good
  <2> QED
    BY <1>1, <2>1, SeqInduction
<1> QED
  BY <1>3

\* What alternates already is left as it is.
LEMMA AlternatingStays ==
  ASSUME NEW s \in Seq(MessageSet), Alternating(s)
  PROVE  EnsureAlternating(s) = s
<1> DEFINE Good == {t \in Seq(MessageSet) : Alternating(t) => EnsureAlternating(t) = t}
<1>1. <<>> \in Good
  BY AlternatingEmpty
<1>2. ASSUME NEW t \in Seq(MessageSet), NEW x \in MessageSet, t \in Good PROVE Append(t, x) \in Good
  <2> DEFINE u == Append(t, x)
             n == Len(t)
  <2>1. u \in Seq(MessageSet) /\ Len(u) = n + 1 /\ n \in Nat /\ u[n + 1] = x /\ \A i \in 1 .. n : u[i] = t[i]
    OBVIOUS
  <2>2. EnsureAlternating(u) = Alternated(EnsureAlternating(t), x)
    BY AlternatingAppend
  <2>3. ASSUME Alternating(u) PROVE EnsureAlternating(u) = u
    <3> HIDE DEF u
    <3>1. Alternating(t)
      <4>1. \A i \in 1 .. n : i > 1 => i \in 1 .. n + 1 /\ i - 1 \in 1 .. n
        BY <2>1
      <4> QED
        BY <4>1, <2>1, <2>3 DEF Alternating
    <3>2. EnsureAlternating(t) = t
      BY <1>2, <3>1
    <3>3. t # <<>> => Last(t).role # x.role
      <4>1. SUFFICES ASSUME t # <<>> PROVE Last(t).role # x.role
        OBVIOUS
      <4>2. n \in 1 .. n /\ n + 1 > 1 /\ n + 1 \in 1 .. n + 1 /\ (n + 1) - 1 = n
        BY <4>1
      <4>3. u[n + 1].role # u[n].role
        BY <4>2, <2>1, <2>3 DEF Alternating
      <4> QED
        BY <4>2, <4>3, <2>1 DEF Last
    <3>4. Alternated(t, x) = Append(t, x)
      BY <3>3 DEF Alternated
    <3> QED
      BY <2>2, <3>2, <3>4 DEF u
  <2> QED
    BY <2>1, <2>3
<1>3. s \in Good
  <2>1. \A t \in Seq(MessageSet), x \in MessageSet : t \in Good => Append(t, x) \in Good
    BY <1>2
  <2> HIDE DEF Good
  <2> QED
    BY <1>1, <2>1, SeqInduction
<1> QED
  BY <1>3

\* What alternates from a user's turn has it at every odd place.
LEMMA AlternatesFromUser ==
  ASSUME NEW s, Len(s) \in Nat, \A i \in 1 .. Len(s) : s[i].role \in Roles, Alternating(s),
         s[1].role = "user"
  PROVE  \A i \in 1 .. Len(s) : s[i].role = IF i % 2 = 1 THEN "user" ELSE "assistant"
<1> DEFINE N == Len(s)
           R(i) == s[i].role = IF i % 2 = 1 THEN "user" ELSE "assistant"
           Good == {i \in 0 .. N : i > 0 => R(i)}
<1>1. 0 \in Good
  OBVIOUS
<1>2. ASSUME NEW i \in 1 .. N, i - 1 \in Good PROVE i \in Good
  <2>1. i \in 0 .. N
    OBVIOUS
  <2>2. CASE i = 1
    BY <2>1, <2>2
  <2>3. CASE i # 1
    <3>1. i - 1 \in 1 .. N /\ R(i - 1) /\ i > 1
      BY <1>2, <2>3
    <3>2. s[i].role # s[i - 1].role /\ s[i].role \in {"user", "assistant"} /\ s[i - 1].role \in {"user", "assistant"}
      BY <3>1 DEF Alternating, Roles
    <3>3. (i % 2 = 1) <=> ~ ((i - 1) % 2 = 1)
      <4>1. i \in Int
        OBVIOUS
      <4> QED
        BY <4>1, SMTT(20)
    <3>4. R(i)
      BY <3>1, <3>2, <3>3
    <3> QED
      BY <2>1, <3>4
  <2> QED
    BY <2>2, <2>3
<1> HIDE DEF Good
<1>3. \A i \in 0 .. N : i \in Good
  BY <1>1, <1>2, UpTo
<1>4. \A i \in 1 .. N : i \in 0 .. N /\ i > 0
  OBVIOUS
<1> QED
  BY <1>3, <1>4 DEF Good

-----------------------------------------------------------------------------
(* The tool rules, message by message.                                      *)

ImageMap == [r \in ResultSet |-> r.images]

\* The atoms of some results, one each.
LEMMA AtomsOfIs ==
  ASSUME NEW results \in Seq(ResultSet)
  PROVE  /\ AtomsOf(results) \in Seq(AtomSet) /\ Len(AtomsOf(results)) = Len(results)
         /\ \A a : a \in ToSet(AtomsOf(results)) <=> \E r \in ToSet(results) : a = r.atom
<1>1. \A i \in DOMAIN results : results[i].atom \in AtomSet
  <2>1. \A r \in ResultSet : r.atom \in AtomSet
    BY DEF ResultSet
  <2> QED
    BY <2>1
<1>2. AtomsOf(results) \in Seq(AtomSet) /\ Len(AtomsOf(results)) = Len(results)
  BY <1>1 DEF AtomsOf
<1>3. DOMAIN AtomsOf(results) = DOMAIN results
      /\ \A i \in DOMAIN results : AtomsOf(results)[i] = results[i].atom
  BY DEF AtomsOf
<1>4. \A a : a \in ToSet(AtomsOf(results)) <=> \E r \in ToSet(results) : a = r.atom
  BY <1>3, Zenon DEF ToSet
<1> QED
  BY <1>2, <1>4

\* The pictures of each result are a sequence.
LEMMA ImageMapType == Spreads(ImageMap, ResultSet, AtomSet)
BY DEF ImageMap, ResultSet, Spreads

\* The pictures of some results are those of each.
LEMMA ImagesInIs ==
  ASSUME NEW results \in Seq(ResultSet)
  PROVE  /\ ImagesIn(results) = Spread(ImageMap, results)
         /\ ImagesIn(results) \in Seq(AtomSet)
         /\ \A a : a \in ToSet(ImagesIn(results)) <=> \E r \in ToSet(results) : a \in ToSet(r.images)
<1>1. \A i \in DOMAIN results : results[i] \in ResultSet
  OBVIOUS
<1>2. [i \in DOMAIN results |-> results[i].images] = [i \in DOMAIN results |-> ImageMap[results[i]]]
  BY <1>1 DEF ImageMap
<1>3. ImagesIn(results) = Spread(ImageMap, results)
  BY <1>2 DEF ImagesIn, Spread
<1>4. /\ Spread(ImageMap, results) \in Seq(AtomSet)
      /\ \A a : a \in ToSet(Spread(ImageMap, results)) <=> \E r \in ToSet(results) : a \in ToSet(ImageMap[r])
  BY ImageMapType, SpreadRange
<1>5. \A r \in ToSet(results) : ImageMap[r] = r.images
  BY <1>1 DEF ToSet, ImageMap
<1> QED
  BY <1>3, <1>4, <1>5

\* Rules 6 and 7 for one message.
Textual(m) ==
    [m EXCEPT !.content = @ \o m.calls \o AtomsOf(m.results),
              !.images = @ \o ImagesIn(m.results), !.calls = <<>>, !.results = <<>>]
Valid(messages, i) ==
    IF i > 1 /\ messages[i - 1].role = "assistant"
       THEN {c.id : c \in ToSet(messages[i - 1].calls)} \ {NoId} ELSE {}
Kept(messages, i) == {r \in ToSet(messages[i].results) : r.atom.id \in Valid(messages, i)}
Orphans(messages, i) == Only(messages[i].results, ToSet(messages[i].results) \ Kept(messages, i))
Inlined(messages, i) ==
    [messages[i] EXCEPT !.content = @ \o AtomsOf(Orphans(messages, i)),
                        !.images = @ \o ImagesIn(Orphans(messages, i)),
                        !.results = Only(@, Kept(messages, i))]

\* Rules 6 and 7 without tools: calls and results become text.
LEMMA TextualIs ==
  ASSUME NEW m \in MessageSet
  PROVE  /\ Textual(m) \in MessageSet /\ Textual(m).role = m.role
         /\ Textual(m).content = m.content \o m.calls \o AtomsOf(m.results)
         /\ Textual(m).images = m.images \o ImagesIn(m.results)
         /\ Textual(m).calls = <<>> /\ Textual(m).results = <<>>
<1> DEFINE c == m.content \o m.calls \o AtomsOf(m.results)
           i == m.images \o ImagesIn(m.results)
<1>1. /\ m.role \in Roles /\ m.content \in Seq(AtomSet) /\ m.calls \in Seq(AtomSet)
      /\ m.images \in Seq(AtomSet) /\ m.reasoning \in ReasoningSet
      /\ AtomsOf(m.results) \in Seq(AtomSet) /\ ImagesIn(m.results) \in Seq(AtomSet)
  BY MessageFields, AtomsOfIs, ImagesInIs
<1>2. c \in Seq(AtomSet) /\ i \in Seq(AtomSet) /\ <<>> \in Seq(AtomSet) /\ <<>> \in Seq(ResultSet)
  BY <1>1
<1>3. Textual(m) = [m EXCEPT !.content = c, !.images = i, !.calls = <<>>, !.results = <<>>]
  BY DEF Textual
<1> HIDE DEF c, i
<1>4. /\ Textual(m) \in MessageSet /\ Textual(m).role = m.role
      /\ Textual(m).content = c /\ Textual(m).images = i
      /\ Textual(m).calls = <<>> /\ Textual(m).results = <<>>
  BY <1>2, <1>3 DEF MessageSet
<1> QED
  BY <1>4 DEF c, i

\* Rule 7 with tools: the results that answer nothing become text.
LEMMA InlinedIs ==
  ASSUME NEW messages \in Seq(MessageSet), NEW i \in DOMAIN messages
  PROVE  /\ Inlined(messages, i) \in MessageSet
         /\ Inlined(messages, i).role = messages[i].role
         /\ Inlined(messages, i).content = messages[i].content \o AtomsOf(Orphans(messages, i))
         /\ Inlined(messages, i).images = messages[i].images \o ImagesIn(Orphans(messages, i))
         /\ Inlined(messages, i).calls = messages[i].calls
         /\ Inlined(messages, i).results = Only(messages[i].results, Kept(messages, i))
         /\ Orphans(messages, i) \in Seq(ResultSet)
         /\ ToSet(Orphans(messages, i)) = ToSet(messages[i].results) \ Kept(messages, i)
         /\ Only(messages[i].results, Kept(messages, i)) \in Seq(ResultSet)
         /\ ToSet(Only(messages[i].results, Kept(messages, i))) = Kept(messages, i)
<1> DEFINE m == messages[i]
           o == Orphans(messages, i)
           kept == Kept(messages, i)
           c == m.content \o AtomsOf(o)
           d == m.images \o ImagesIn(o)
           r == Only(m.results, kept)
<1>1. m \in MessageSet
  OBVIOUS
<1>2. Inlined(messages, i) = [m EXCEPT !.content = c, !.images = d, !.results = r]
  BY DEF Inlined
<1>3. kept \subseteq ToSet(m.results) /\ o = Only(m.results, ToSet(m.results) \ kept)
  BY DEF Kept, Orphans
<1> HIDE DEF m, kept, o
<1>4. /\ m.role \in Roles /\ m.content \in Seq(AtomSet) /\ m.calls \in Seq(AtomSet)
      /\ m.images \in Seq(AtomSet) /\ m.reasoning \in ReasoningSet /\ m.results \in Seq(ResultSet)
  BY <1>1, MessageFields
<1> DEFINE rest == ToSet(m.results) \ kept
<1> HIDE DEF rest
<1>5. /\ o \in Seq(ResultSet) /\ ToSet(o) = ToSet(m.results) \cap rest
      /\ r \in Seq(ResultSet) /\ ToSet(r) = ToSet(m.results) \cap kept
  <2>1. o = Only(m.results, rest)
    BY <1>3 DEF rest
  <2> QED
    BY <1>4, <2>1, OnlyRange
<1>6. c \in Seq(AtomSet) /\ d \in Seq(AtomSet)
  BY <1>4, <1>5, AtomsOfIs, ImagesInIs
<1> HIDE DEF c, d, r
<1>7. /\ Inlined(messages, i) \in MessageSet /\ Inlined(messages, i).role = m.role
      /\ Inlined(messages, i).content = c /\ Inlined(messages, i).images = d
      /\ Inlined(messages, i).calls = m.calls /\ Inlined(messages, i).results = r
  BY <1>1, <1>2, <1>5, <1>6 DEF MessageSet
<1>8. ToSet(o) = ToSet(m.results) \ kept /\ ToSet(r) = kept
  BY <1>3, <1>5 DEF rest
<1> QED
  BY <1>5, <1>7, <1>8 DEF m, c, d, r, kept, o

\* The message that the tool rules make of the ith merged one.
Ruled(merged, i) == IF setting.tools = {} THEN Textual(merged[i]) ELSE Inlined(merged, i)

\* The tool rules turn each merged message into one of the same side.
LEMMA ToolRulesAre ==
  ASSUME NEW messages \in Seq(MessageSet)
  PROVE  /\ MergeAdjacent(messages) \in Seq(MessageSet)
         /\ ToolRules(messages) \in Seq(MessageSet)
         /\ Len(ToolRules(messages)) = Len(MergeAdjacent(messages))
         /\ \A i \in DOMAIN MergeAdjacent(messages) :
               /\ ToolRules(messages)[i] = Ruled(MergeAdjacent(messages), i)
               /\ ToolRules(messages)[i].role = MergeAdjacent(messages)[i].role
         /\ Alternating(ToolRules(messages))
<1> DEFINE U == MergeAdjacent(messages)
           R == ToolRules(messages)
<1>1. U \in Seq(MessageSet) /\ Alternating(U)
  BY MergeAlternates
<1>2. R = [i \in DOMAIN U |-> Ruled(U, i)]
  <2>1. CASE setting.tools = {}
    <3>1. R = ToolContentToText(U)
      BY <2>1 DEF ToolRules
    <3> QED
      BY <2>1, <3>1 DEF ToolContentToText, Ruled, Textual
  <2>2. CASE setting.tools # {}
    <3>1. R = InlineOrphanedToolResults(U)
      BY <2>2 DEF ToolRules
    <3>2. InlineOrphanedToolResults(U) = [i \in DOMAIN U |-> Inlined(U, i)]
      BY Zenon DEF InlineOrphanedToolResults, Inlined, Orphans, Kept, Valid
    <3> QED
      BY <2>2, <3>1, <3>2 DEF Ruled
  <2> QED
    BY <2>1, <2>2
<1> HIDE DEF U, R
<1>3. ASSUME NEW i \in DOMAIN U PROVE Ruled(U, i) \in MessageSet /\ Ruled(U, i).role = U[i].role
  <2>1. U[i] \in MessageSet
    BY <1>1
  <2> QED
    BY <1>1, <2>1, TextualIs, InlinedIs DEF Ruled
<1>4. R \in Seq(MessageSet) /\ Len(R) = Len(U) /\ \A i \in DOMAIN U : R[i] = Ruled(U, i)
  BY <1>1, <1>2, <1>3
<1>5. Alternating(R)
  <2>1. \A i \in 1 .. Len(U) : i > 1 => i - 1 \in 1 .. Len(U)
    BY <1>1
  <2>2. DOMAIN U = 1 .. Len(U)
    BY <1>1
  <2> QED
    BY <1>1, <1>3, <1>4, <2>1, <2>2 DEF Alternating
<1> QED
  BY <1>1, <1>3, <1>4, <1>5 DEF U, R

-----------------------------------------------------------------------------
(* Build, from the ruled messages to the entries.                           *)

Converted(in) == in.messages \in Seq(MessageSet) /\ in.system \in Seq(AtomSet)

Prompt(in) == in.system \o IF "wordy" \in setting.tools THEN <<Docs>> ELSE <<>>
First(in)  == EnsureFirstIsUser(ToolRules(in.messages))
Placed(in) ==
    IF setting.field THEN First(in)
    ELSE [First(in) EXCEPT ![1].content = JoinSystemPromptInto(Prompt(in), @)]
Closed(in) ==
    IF Last(Placed(in)).role = "assistant"
       THEN Append(Placed(in), Filler("user", <<Placeholder>>)) ELSE Placed(in)

\* How far EnsureFirstIsUser moves the messages.
Shift(in) ==
    IF ToolRules(in.messages) = <<>> \/ ToolRules(in.messages)[1].role = "user" THEN 0 ELSE 1

\* The message that EnsureFirstIsUser puts first.
LEMMA PlaceholderFiller ==
  /\ Filler("user", <<Placeholder>>) \in MessageSet
  /\ Filler("user", <<Placeholder>>).role = "user"
  /\ Filler("user", <<Placeholder>>).content = <<Placeholder>>
  /\ Filler("user", <<Placeholder>>).calls = <<>>
  /\ Filler("user", <<Placeholder>>).results = <<>>
  /\ Filler("user", <<Placeholder>>).images = <<>>
<1>1. <<Placeholder>> \in Seq(AtomSet) /\ "user" \in Roles
  BY PlaceholderType DEF Roles
<1> QED
  BY <1>1, FillerType DEF Filler

\* The prompt is a sequence of atoms.
LEMMA PromptType ==
  ASSUME NEW in, Converted(in)
  PROVE  Prompt(in) \in Seq(AtomSet)
<1>1. <<Docs>> \in Seq(AtomSet) /\ <<>> \in Seq(AtomSet)
  BY PlaceholderType
<1> QED
  BY <1>1 DEF Prompt, Converted

\* EnsureFirstIsUser makes the first turn a user's, and moves the others by at most one.
LEMMA FirstIs ==
  ASSUME NEW in, Converted(in)
  PROVE  /\ First(in) \in Seq(MessageSet) /\ Alternating(First(in))
         /\ First(in) # <<>> => First(in)[1].role = "user"
         /\ Shift(in) \in {0, 1}
         /\ Len(First(in)) = Len(ToolRules(in.messages)) + Shift(in)
         /\ \A i \in DOMAIN ToolRules(in.messages) : First(in)[i + Shift(in)] = ToolRules(in.messages)[i]
         /\ Shift(in) = 1 => First(in)[1] = Filler("user", <<Placeholder>>)
         /\ First(in) = <<>> <=> ToolRules(in.messages) = <<>>
<1> DEFINE R == ToolRules(in.messages)
           n == Len(R)
           f == Filler("user", <<Placeholder>>)
<1>1. R \in Seq(MessageSet) /\ Alternating(R) /\ n \in Nat /\ \A i \in 1 .. n : R[i] \in MessageSet
  BY ToolRulesAre DEF Converted
<1>2. f \in MessageSet /\ f.role = "user"
  BY PlaceholderFiller
<1>3. CASE R = <<>> \/ R[1].role = "user"
  BY <1>1, <1>3 DEF First, Shift, EnsureFirstIsUser
<1>4. CASE ~ (R = <<>> \/ R[1].role = "user")
  <2> DEFINE g == <<f>> \o R
  <2>1. First(in) = g /\ Shift(in) = 1
    BY <1>4 DEF First, Shift, EnsureFirstIsUser
  <2> HIDE DEF f, R
  <2>2. g \in Seq(MessageSet) /\ Len(g) = n + 1 /\ g[1] = f /\ \A i \in 1 .. n : g[i + 1] = R[i]
    BY <1>1, <1>2
  <2>3. DOMAIN R = 1 .. n /\ n # 0
    BY <1>1, <1>4
  <2> HIDE DEF g
  <2>4. Alternating(g)
    <3>1. ASSUME NEW i \in 1 .. n + 1, i > 1 PROVE g[i].role # g[i - 1].role
      <4>1. i - 1 \in 1 .. n /\ (i - 1) + 1 = i
        BY <3>1, <1>1
      <4>2. g[i] = R[i - 1]
        BY <4>1, <2>2
      <4>3. CASE i = 2
        <5>1. R[1].role # "user" /\ g[i] = R[1] /\ g[i - 1] = f
          BY <4>2, <4>3, <1>4, <2>2
        <5> QED
          BY <5>1, <1>2
      <4>4. CASE i # 2
        <5>1. (i - 1) - 1 \in 1 .. n /\ i - 1 > 1 /\ ((i - 1) - 1) + 1 = i - 1
          BY <4>1, <4>4, <1>1
        <5>2. g[i - 1] = R[(i - 1) - 1]
          BY <5>1, <2>2
        <5>3. R[i - 1].role # R[(i - 1) - 1].role
          BY <5>1, <4>1, <1>1 DEF Alternating
        <5> QED
          BY <4>2, <5>2, <5>3
      <4> QED
        BY <4>3, <4>4
    <3> QED
      BY <3>1, <2>2 DEF Alternating
  <2> QED
    BY <1>2, <1>4, <2>1, <2>2, <2>3, <2>4 DEF R, f
<1> QED
  BY <1>3, <1>4

\* The content of the first turn, with the prompt.
FirstContent(in) ==
    IF setting.field THEN First(in)[1].content
    ELSE JoinSystemPromptInto(Prompt(in), First(in)[1].content)

\* The first content is a sequence of atoms.
LEMMA FirstContentType ==
  ASSUME NEW in, Converted(in), First(in) # <<>>
  PROVE  FirstContent(in) \in Seq(AtomSet)
<1>1. First(in)[1] \in MessageSet
  <2>1. First(in) \in Seq(MessageSet) /\ First(in) # <<>>
    BY FirstIs
  <2> QED
    BY <2>1
<1>2. First(in)[1].content \in Seq(AtomSet) /\ Prompt(in) \in Seq(AtomSet)
  BY <1>1, MessageFields, PromptType
<1>3. Prompt(in) \o First(in)[1].content \in Seq(AtomSet)
  BY <1>2
<1> QED
  BY <1>2, <1>3 DEF FirstContent, JoinSystemPromptInto

\* The prompt changes the content of the first turn and nothing else.
LEMMA PlacedIs ==
  ASSUME NEW in, Converted(in), First(in) # <<>>
  PROVE  /\ Placed(in) \in Seq(MessageSet) /\ Len(Placed(in)) = Len(First(in))
         /\ \A i \in 1 .. Len(First(in)) : Placed(in)[i].role = First(in)[i].role
         /\ \A i \in 2 .. Len(First(in)) : Placed(in)[i] = First(in)[i]
         /\ Placed(in)[1].content = FirstContent(in)
         /\ Placed(in)[1].calls = First(in)[1].calls
         /\ Placed(in)[1].results = First(in)[1].results
         /\ Placed(in)[1].images = First(in)[1].images
<1> DEFINE s == First(in)
           n == Len(s)
           c == FirstContent(in)
<1>1. s \in Seq(MessageSet) /\ 1 \in 1 .. n /\ n \in Nat /\ s[1] \in MessageSet
  <2>1. s \in Seq(MessageSet) /\ s # <<>>
    BY FirstIs
  <2> HIDE DEF s
  <2> QED
    BY <2>1
<1>2. c \in Seq(AtomSet)
  BY FirstContentType
<1>3. CASE setting.field
  BY <1>1, <1>3 DEF Placed, FirstContent
<1>4. CASE ~ setting.field
  <2> DEFINE m == [s[1] EXCEPT !.content = c]
  <2>1. Placed(in) = [s EXCEPT ![1] = m]
    BY <1>4 DEF Placed, FirstContent
  <2> HIDE DEF s, c
  <2>2. m \in MessageSet /\ m.content = c /\ m.calls = s[1].calls /\ m.results = s[1].results
        /\ m.images = s[1].images /\ m.role = s[1].role
    BY <1>1, <1>2 DEF MessageSet
  <2> HIDE DEF m
  <2>3. DEFINE p == [s EXCEPT ![1] = m]
  <2>4. p \in Seq(MessageSet) /\ Len(p) = n /\ p[1] = m /\ \A i \in 1 .. n : i # 1 => p[i] = s[i]
    BY <1>1, <2>2
  <2> HIDE DEF p
  <2>5. \A i \in 1 .. n : p[i].role = s[i].role
    BY <2>2, <2>4
  <2>6. \A i \in 2 .. n : i \in 1 .. n /\ i # 1
    BY <1>1
  <2>7. \A i \in 2 .. n : p[i] = s[i]
    BY <2>4, <2>6
  <2> QED
    BY <2>1, <2>2, <2>4, <2>5, <2>7 DEF s, c, p
<1> QED
  BY <1>3, <1>4

\* After a last turn that is the assistant's comes a user's; nothing else changes.
LEMMA ClosedIs ==
  ASSUME NEW in, Converted(in), First(in) # <<>>
  PROVE  /\ Closed(in) \in Seq(MessageSet)
         /\ \A i \in 1 .. Len(First(in)) : Closed(in)[i] = Placed(in)[i]
         /\ \/ Len(Closed(in)) = Len(First(in))
            \/ /\ Len(Closed(in)) = Len(First(in)) + 1
               /\ Closed(in)[Len(First(in)) + 1] = Filler("user", <<Placeholder>>)
         /\ \A i \in 1 .. Len(Closed(in)) :
               Closed(in)[i].role = IF i % 2 = 1 THEN "user" ELSE "assistant"
         /\ Len(Closed(in)) % 2 = 1
<1> DEFINE s == Placed(in)
           c == Closed(in)
           n == Len(First(in))
           f == Filler("user", <<Placeholder>>)
<1>1. s \in Seq(MessageSet) /\ Len(s) = n /\ n \in Nat \ {0}
      /\ \A i \in 1 .. n : s[i].role = First(in)[i].role
  <2>1. First(in) \in Seq(MessageSet)
    BY FirstIs
  <2> QED
    BY <2>1, PlacedIs
<1>2. \A i \in 1 .. n : s[i].role = IF i % 2 = 1 THEN "user" ELSE "assistant"
  <2>1. /\ First(in) \in Seq(MessageSet) /\ Alternating(First(in))
        /\ First(in)[1].role = "user"
    BY FirstIs
  <2>2. \A i \in 1 .. n : First(in)[i].role \in Roles
    <3>1. \A i \in 1 .. n : First(in)[i] \in MessageSet
      BY <2>1
    <3> QED
      BY <3>1, MessageFields
  <2>3. \A i \in 1 .. n : First(in)[i].role = IF i % 2 = 1 THEN "user" ELSE "assistant"
    BY <1>1, <2>1, <2>2, AlternatesFromUser
  <2> QED
    BY <1>1, <2>3
<1>3. f \in MessageSet /\ f.role = "user"
  BY PlaceholderFiller
<1> HIDE DEF s, f
<1>4. Last(s) = s[n] /\ n \in 1 .. n
  BY <1>1 DEF Last
<1> HIDE DEF n
<1>5. CASE s[n].role = "assistant"
  <2>1. c = Append(s, f)
    BY <1>4, <1>5 DEF Closed, s, f
  <2>2. n % 2 = 0 /\ (n + 1) % 2 = 1
    <3>1. n % 2 # 1
      BY <1>2, <1>4, <1>5
    <3> QED
      BY <3>1, <1>1
  <2> HIDE DEF c
  <2>3. c \in Seq(MessageSet) /\ Len(c) = n + 1 /\ c[n + 1] = f /\ \A i \in 1 .. n : c[i] = s[i]
    BY <1>1, <1>3, <2>1
  <2>4. \A i \in 1 .. n + 1 : i = n + 1 \/ i \in 1 .. n
    BY <1>1
  <2>5. \A i \in 1 .. n + 1 : c[i].role = IF i % 2 = 1 THEN "user" ELSE "assistant"
    BY <1>2, <1>3, <2>2, <2>3, <2>4
  <2> QED
    BY <2>2, <2>3, <2>5 DEF c, s, f, n
<1>6. CASE s[n].role # "assistant"
  <2>1. c = s
    BY <1>4, <1>6 DEF Closed, s
  <2>2. n % 2 = 1
    BY <1>2, <1>4, <1>6
  <2> QED
    BY <1>1, <1>2, <2>1, <2>2 DEF c, s, n
<1> QED
  BY <1>5, <1>6

\* The request that Build makes.
LEMMA BuildIs ==
  ASSUME NEW in, Converted(in)
  PROVE  \/ Build(in) = Refused
         \/ /\ First(in) # <<>>
            /\ Build(in) = [sent |-> TRUE, system |-> IF setting.field THEN Prompt(in) ELSE <<>>,
                            entries |-> [i \in DOMAIN Closed(in) |-> Entry(Closed(in)[i])]]
<1> DEFINE r == [sent |-> TRUE, system |-> IF setting.field THEN Prompt(in) ELSE <<>>,
                 entries |-> [i \in DOMAIN Closed(in) |-> Entry(Closed(in)[i])]]
<1>1. EnsureAlternating(EnsureFirstIsUser(ToolRules(in.messages))) = First(in)
  <2>1. First(in) \in Seq(MessageSet) /\ Alternating(First(in))
    BY FirstIs
  <2> QED
    BY <2>1, AlternatingStays DEF First
<1>2. Build(in) = IF "overlong" \in setting.tools \/ First(in) = <<>> THEN Refused ELSE r
  <2> DEFINE M == EnsureAlternating(EnsureFirstIsUser(ToolRules(in.messages)))
             placed == IF setting.field THEN M
                       ELSE [M EXCEPT ![1].content = JoinSystemPromptInto(Prompt(in), @)]
             closed == IF Last(placed).role = "assistant"
                         THEN Append(placed, Filler("user", <<Placeholder>>)) ELSE placed
  <2>1. Build(in) = IF "overlong" \in setting.tools \/ M = <<>> THEN Refused
                    ELSE [sent |-> TRUE, system |-> IF setting.field THEN Prompt(in) ELSE <<>>,
                          entries |-> [i \in DOMAIN closed |-> Entry(closed[i])]]
    BY DEF Build, Prompt
  <2>2. placed = Placed(in)
    BY <1>1 DEF Placed
  <2> HIDE DEF placed
  <2>3. closed = Closed(in)
    BY <2>2 DEF Closed
  <2> HIDE DEF closed
  <2> QED
    BY <1>1, <2>1, <2>3
<1> QED
  BY <1>2

\* What Build sends has the shape its types promise and alternates.
Shaped(r) ==
    \A i \in DOMAIN r.entries :
        LET e == r.entries[i] IN
        /\ e.content # <<>>
        /\ e.role = "user" => e.calls = <<>> /\ e.reasoning = NoReasoning
        /\ e.role = "assistant" => e.results = <<>> /\ e.images = <<>>

Alternate(r) ==
    r.sent =>
        /\ Len(r.entries) % 2 = 1
        /\ \A i \in DOMAIN r.entries :
              r.entries[i].role = IF i % 2 = 1 THEN "user" ELSE "assistant"

\* What formatting a message keeps of it, by side.
LEMMA EntryIs ==
  ASSUME NEW m
  PROVE  /\ Entry(m).role = m.role
         /\ Entry(m).content = IF m.content = <<>> THEN <<Placeholder>> ELSE m.content
         /\ m.role = "user" => /\ Entry(m).calls = <<>> /\ Entry(m).reasoning = NoReasoning
                               /\ Entry(m).results = AtomsOf(m.results)
                               /\ Entry(m).images = m.images \o ImagesIn(m.results)
         /\ m.role # "user" => /\ Entry(m).calls = m.calls
                               /\ Entry(m).results = <<>> /\ Entry(m).images = <<>>
BY DEF Entry

\* The entries of a request, one for each message.
LEMMA EntriesAre ==
  ASSUME NEW in, Converted(in), Build(in) # Refused
  PROVE  /\ First(in) # <<>>
         /\ Build(in).sent = TRUE
         /\ Build(in).system = IF setting.field THEN Prompt(in) ELSE <<>>
         /\ DOMAIN Build(in).entries = 1 .. Len(Closed(in))
         /\ Len(Build(in).entries) = Len(Closed(in)) /\ Len(Closed(in)) \in Nat
         /\ \A i \in 1 .. Len(Closed(in)) : Build(in).entries[i] = Entry(Closed(in)[i])
<1> DEFINE c == Closed(in)
           e == [i \in DOMAIN c |-> Entry(c[i])]
<1>1. First(in) # <<>> /\ Build(in) = [sent |-> TRUE,
        system |-> IF setting.field THEN Prompt(in) ELSE <<>>, entries |-> e]
  BY BuildIs
<1>2. c \in Seq(MessageSet)
  BY <1>1, ClosedIs
<1> HIDE DEF c
<1>3. Len(e) = Len(c) /\ Len(c) \in Nat /\ DOMAIN e = 1 .. Len(c)
      /\ \A i \in 1 .. Len(c) : e[i] = Entry(c[i])
  BY <1>2
<1> HIDE DEF e
<1> QED
  BY <1>1, <1>3 DEF c

\* Whatever was converted, the request has its shape and alternates.
LEMMA BuildShape ==
  ASSUME NEW in, Converted(in)
  PROVE  Shaped(Build(in)) /\ Alternate(Build(in))
<1>1. CASE Build(in) = Refused
  BY <1>1 DEF Refused, Shaped, Alternate
<1>2. CASE Build(in) # Refused
  <2> DEFINE r == Build(in)
             c == Closed(in)
  <2>1. /\ First(in) # <<>> /\ DOMAIN r.entries = 1 .. Len(c) /\ Len(r.entries) = Len(c)
        /\ \A i \in 1 .. Len(c) : r.entries[i] = Entry(c[i])
    BY <1>2, EntriesAre
  <2>2. /\ \A i \in 1 .. Len(c) : c[i].role = IF i % 2 = 1 THEN "user" ELSE "assistant"
        /\ Len(c) % 2 = 1
    BY <2>1, ClosedIs
  <2> HIDE DEF r, c
  <2>3. Alternate(r)
    <3>1. \A i \in 1 .. Len(c) : r.entries[i].role = IF i % 2 = 1 THEN "user" ELSE "assistant"
      <4>1. \A i \in 1 .. Len(c) : Entry(c[i]).role = c[i].role
        BY EntryIs
      <4> QED
        BY <4>1, <2>1, <2>2
    <3>2. Len(r.entries) % 2 = 1
      BY <2>1, <2>2
    <3> QED
      BY <3>1, <3>2, <2>1 DEF Alternate
  <2>4. ASSUME NEW i \in DOMAIN r.entries
        PROVE  /\ r.entries[i].content # <<>>
               /\ r.entries[i].role = "user" => r.entries[i].calls = <<>> /\ r.entries[i].reasoning = NoReasoning
               /\ r.entries[i].role = "assistant" => r.entries[i].results = <<>> /\ r.entries[i].images = <<>>
    <3>1. r.entries[i] = Entry(c[i])
      BY <2>1
    <3> DEFINE e == Entry(c[i])
    <3>2. <<Placeholder>> # <<>>
      OBVIOUS
    <3>3. e.content # <<>>
      BY <3>2, EntryIs
    <3>4. e.role = c[i].role
      BY EntryIs
    <3>5. c[i].role = "user" => e.calls = <<>> /\ e.reasoning = NoReasoning
      BY EntryIs
    <3>6. c[i].role # "user" => e.results = <<>> /\ e.images = <<>>
      BY EntryIs
    <3> HIDE DEF e
    <3>7. r.entries[i] = e
      BY <3>1 DEF e
    <3> QED
      BY <3>3, <3>4, <3>5, <3>6, <3>7
  <2>5. Shaped(r)
    BY <2>4 DEF Shaped
  <2> QED
    BY <2>3, <2>5 DEF r
<1> QED
  BY <1>1, <1>2

-----------------------------------------------------------------------------
(* The conversation.                                                        *)

Surface(s) == IF s.surface = "openai" THEN OpenAITurns ELSE AnthropicTurns
Speech ==
    /\ setting \in Settings
    /\ turns \in Seq(Surface(setting)) /\ Len(turns) <= MaxTurns

\* Each surface speaks turns.
LEMMA SurfaceTurns ==
  ASSUME NEW s, NEW c \in Seq(Surface(s))
  PROVE  c \in Seq(Turns)
<1>1. Surface(s) \subseteq Turns
  BY TurnsAssumption DEF Surface
<1> QED
  BY <1>1

\* Both converters give Build messages of the intermediate representation.
LEMMA OpenAIConverted ==
  ASSUME NEW c \in Seq(Turns)
  PROVE  Converted(FromOpenAI(c)) /\ Taken(c) \in AccSet
<1>1. Taken(c) \in AccSet
  <2>1. CASE c = <<>>
    BY <2>1, TakeNothing, NothingTakenType
  <2>2. PICK f : Takes(f, c) /\ Taken(c) = f[Len(c)]
    BY TakeDef
  <2>3. Len(c) \in 0 .. Len(c)
    OBVIOUS
  <2> QED
    BY <2>2, <2>3 DEF Takes
<1> QED
  BY <1>1, FlushType, AccFields DEF FromOpenAI, Converted

\* The Anthropic surface converts each turn to a message.
LEMMA AnthropicConverted ==
  ASSUME NEW c \in Seq(Turns)
  PROVE  /\ Converted(FromAnthropic(c))
         /\ FromAnthropic(c).messages = [n \in DOMAIN c |-> Message(n, c[n])]
<1>1. \A n \in DOMAIN c : Message(n, c[n]) \in MessageSet
  BY MessageIs
<1>2. [n \in DOMAIN c |-> Message(n, c[n])] \in Seq(MessageSet)
  BY <1>1
<1>3. Atom("text", 0, NoId) \in AtomSet
  BY AtomType, IdTypes
<1> DEFINE m == [n \in DOMAIN c |-> Message(n, c[n])]
           s == IF setting.system THEN <<Atom("text", 0, NoId)>> ELSE <<>>
<1>4. s \in Seq(AtomSet)
  BY <1>3
<1>5. FromAnthropic(c) = [messages |-> m, system |-> s]
  BY DEF FromAnthropic
<1> HIDE DEF m, s
<1>6. FromAnthropic(c).messages = m /\ FromAnthropic(c).system = s
  BY <1>5
<1> QED
  BY <1>2, <1>4, <1>6 DEF Converted, m

\* A step keeps the setting and adds turns of its surface.
LEMMA SpeechStep == Speech /\ [Next]_vars => Speech'
<1> SUFFICES ASSUME Speech, [Next]_vars PROVE Speech'
  OBVIOUS
<1>1. turns \in Seq(Surface(setting)) /\ Len(turns) \in Nat /\ MaxTurns \in Nat
  BY TurnsAssumption DEF Speech
<1>2. ASSUME NEW t \in Surface(setting), turns' = Append(turns, t), Len(turns) < MaxTurns,
             setting' = setting
      PROVE  Speech'
  <2>1. turns' \in Seq(Surface(setting)) /\ Len(turns') = Len(turns) + 1
    BY <1>1, <1>2
  <2>2. Len(turns') <= MaxTurns
    BY <1>1, <1>2, <2>1
  <2>3. Surface(setting') = Surface(setting)
    BY <1>2
  <2> QED
    BY <1>2, <2>1, <2>2, <2>3 DEF Speech
<1>3. CASE SendOpenAI
  <2>1. PICK t \in OpenAITurns : turns' = Append(turns, t)
    BY <1>3 DEF SendOpenAI
  <2>2. setting' = setting /\ Surface(setting) = OpenAITurns /\ Len(turns) < MaxTurns
    BY <1>3 DEF SendOpenAI, Surface
  <2> QED
    BY <1>2, <2>1, <2>2
<1>4. CASE SendAnthropic
  <2>1. PICK t \in AnthropicTurns : turns' = Append(turns, t)
    BY <1>4 DEF SendAnthropic
  <2>2. setting' = setting /\ Surface(setting) = AnthropicTurns /\ Len(turns) < MaxTurns
    BY <1>4 DEF SendAnthropic, Surface
  <2> QED
    BY <1>2, <2>1, <2>2
<1>5. CASE UNCHANGED vars
  BY <1>5 DEF vars, Speech
<1> QED
  BY <1>3, <1>4, <1>5 DEF Next

\* The conversation begins with no turn.
LEMMA SpeechInit == Init => Speech
<1>1. <<>> \in Seq(Surface(setting)) /\ Len(<<>>) = 0
  OBVIOUS
<1> QED
  BY <1>1, TurnsAssumption DEF Init, Speech

\* The request is one that Build made of the conversation.
LEMMA RequestIs ==
  ASSUME Speech, Next
  PROVE  /\ setting' = setting
         /\ \/ setting.surface = "openai" /\ request' = Build(FromOpenAI(turns'))
            \/ setting.surface = "anthropic" /\ request' = Build(FromAnthropic(turns'))
BY DEF Next, SendOpenAI, SendAnthropic

\* The invariant of both: the conversation is its surface's, and what Build made of it
\* has the shape of its types and alternates.
WellShaped == Speech /\ Shaped(request) /\ Alternate(request)

LEMMA ShapeInvariance == Spec => []WellShaped
<1>1. Init => WellShaped
  <2>1. Init => Shaped(request) /\ Alternate(request)
    BY DEF Init, Refused, Shaped, Alternate
  <2> QED
    BY <2>1, SpeechInit DEF WellShaped
<1>2. WellShaped /\ [Next]_vars => WellShaped'
  <2> SUFFICES ASSUME WellShaped, [Next]_vars PROVE WellShaped'
    OBVIOUS
  <2>1. Speech /\ Speech'
    BY SpeechStep DEF WellShaped
  <2>2. CASE Next
    <3>1. turns' \in Seq(Turns)
      BY <2>1, SurfaceTurns DEF Speech
    <3>2. Converted(FromOpenAI(turns')) /\ Converted(FromAnthropic(turns'))
      BY <3>1, OpenAIConverted, AnthropicConverted
    <3>3. Shaped(request') /\ Alternate(request')
      BY <2>1, <2>2, <3>2, RequestIs, BuildShape
    <3> QED
      BY <2>1, <3>3 DEF WellShaped, Shaped, Alternate
  <2>3. CASE UNCHANGED vars
    BY <2>1, <2>3 DEF WellShaped, vars, Shaped, Alternate
  <2> QED
    BY <2>2, <2>3
<1> QED
  BY <1>1, <1>2, PTL DEF Spec

\* Every request has the shape its types promise: no content is empty, and no entry
\* carries what its side cannot (rule 1: nonEmptyContent, historyEntry, userInputMessage).
THEOREM TypeCorrect == Spec => []TypeOK
<1>1. WellShaped => TypeOK
  BY DEF WellShaped, Speech, Shaped, TypeOK
<1> QED
  BY <1>1, ShapeInvariance, PTL

\* Every request starts with the user, alternates and ends with the user, however many
\* turns of whatever sides the client sends (invariants.go, rules 2, 3, 5 and 12).
THEOREM SidesAlternate == Spec => []Alternates
<1>1. WellShaped => Alternates
  BY DEF WellShaped, Alternate, Alternates
<1> QED
  BY <1>1, ShapeInvariance, PTL

-----------------------------------------------------------------------------
(* What a message carries upstream: what has a place of the turns in it.  *)

Cargo(m, tools) ==
    m.content \o AtomsOf(m.results)
      \o (IF m.role = "assistant" \/ tools = {} THEN m.calls ELSE <<>>)
      \o (IF m.role # "assistant" THEN m.images \o ImagesIn(m.results) ELSE <<>>)
CargoMap(tools) == [m \in MessageSet |-> Cargo(m, tools)]
Load(messages, tools) == Spread(CargoMap(tools), messages)

\* Results that wait for a user's turn.
Bag(pending) == AtomsOf(pending) \o ImagesIn(pending)

\* Two sequences put together, in numbers and in elements.
Adds(s, t, u) == Len(s) = Len(t) + Len(u) /\ ToSet(s) = ToSet(t) \cup ToSet(u)

\* Putting together adds.
LEMMA ConcatAdds ==
  ASSUME NEW S, NEW s \in Seq(S), NEW t \in Seq(S)
  PROVE  s \o t \in Seq(S) /\ Adds(s \o t, s, t)
<1>1. Len(s \o t) = Len(s) + Len(t)
  OBVIOUS
<1> QED
  BY <1>1, JoinedRange DEF Adds

\* Nothing adds nothing.
LEMMA EmptyAdds ==
  ASSUME NEW S, NEW s \in Seq(S)
  PROVE  Adds(s, s, <<>>) /\ Adds(s, <<>>, s)
<1>1. Len(<<>>) = 0 /\ ToSet(<<>>) = {} /\ Len(s) \in Nat
  BY DEF ToSet
<1> QED
  BY <1>1 DEF Adds

\* Nothing and nothing is nothing.
LEMMA NothingAdds == Adds(<<>>, <<>>, <<>>)
<1>1. <<>> \in Seq({})
  OBVIOUS
<1> QED
  BY <1>1, EmptyAdds

\* Adding pairwise.
LEMMA AddsPairs ==
  ASSUME NEW S, NEW a \in Seq(S), NEW a1 \in Seq(S), NEW a2 \in Seq(S),
         NEW b \in Seq(S), NEW b1 \in Seq(S), NEW b2 \in Seq(S),
         Adds(a, a1, a2), Adds(b, b1, b2)
  PROVE  /\ Adds(a \o b, a1 \o b1, a2 \o b2)
         /\ a \o b \in Seq(S) /\ a1 \o b1 \in Seq(S) /\ a2 \o b2 \in Seq(S)
<1>1. Adds(a \o b, a, b) /\ Adds(a1 \o b1, a1, b1) /\ Adds(a2 \o b2, a2, b2)
  BY ConcatAdds
<1>2. Len(a1) \in Nat /\ Len(a2) \in Nat /\ Len(b1) \in Nat /\ Len(b2) \in Nat
  OBVIOUS
<1>3. Len(a \o b) = Len(a1 \o b1) + Len(a2 \o b2)
  <2> DEFINE p == Len(a \o b)
             q == Len(a1 \o b1)
             r == Len(a2 \o b2)
  <2>1. p = Len(a) + Len(b) /\ q = Len(a1) + Len(b1) /\ r = Len(a2) + Len(b2)
        /\ Len(a) = Len(a1) + Len(a2) /\ Len(b) = Len(b1) + Len(b2)
    BY <1>1 DEF Adds
  <2> HIDE DEF p, q, r
  <2>2. p = q + r
    BY <1>2, <2>1
  <2> QED
    BY <2>2 DEF p, q, r
<1>4. ToSet(a \o b) = ToSet(a1 \o b1) \cup ToSet(a2 \o b2)
  BY <1>1, Zenon DEF Adds
<1>5. a \o b \in Seq(S) /\ a1 \o b1 \in Seq(S) /\ a2 \o b2 \in Seq(S)
  BY ConcatAdds
<1> QED
  BY <1>3, <1>4, <1>5 DEF Adds

\* The atoms of two sequences of results add up.
LEMMA AtomsAppend ==
  ASSUME NEW r \in Seq(ResultSet), NEW s \in Seq(ResultSet)
  PROVE  /\ r \o s \in Seq(ResultSet)
         /\ Adds(AtomsOf(r \o s), AtomsOf(r), AtomsOf(s))
<1>1. r \o s \in Seq(ResultSet) /\ Len(r \o s) = Len(r) + Len(s) /\ ToSet(r \o s) = ToSet(r) \cup ToSet(s)
  BY ConcatAdds DEF Adds
<1>2. Len(AtomsOf(r \o s)) = Len(AtomsOf(r)) + Len(AtomsOf(s))
  BY <1>1, AtomsOfIs
<1>3. /\ \A a : a \in ToSet(AtomsOf(r \o s)) <=> \E e \in ToSet(r \o s) : a = e.atom
      /\ \A a : a \in ToSet(AtomsOf(r)) <=> \E e \in ToSet(r) : a = e.atom
      /\ \A a : a \in ToSet(AtomsOf(s)) <=> \E e \in ToSet(s) : a = e.atom
  BY <1>1, AtomsOfIs
<1>4. ToSet(AtomsOf(r \o s)) = ToSet(AtomsOf(r)) \cup ToSet(AtomsOf(s))
  BY <1>1, <1>3, Zenon
<1> QED
  BY <1>1, <1>2, <1>4 DEF Adds

\* Spread out, two sequences are one after the other.
LEMMA SpreadConcat ==
  ASSUME NEW S, NEW T, NEW f, Spreads(f, S, T), NEW s \in Seq(S), NEW t \in Seq(S)
  PROVE  Spread(f, s) \in Seq(T) /\ Spread(f, s \o t) = Spread(f, s) \o Spread(f, t)
<1> DEFINE Good == {u \in Seq(S) : Spread(f, s \o u) = Spread(f, s) \o Spread(f, u)}
<1>1. Spread(f, s) \in Seq(T)
  BY SpreadRange
<1>2. <<>> \in Good
  <2>1. s \o <<>> = s /\ Spread(f, s) \o <<>> = Spread(f, s) /\ <<>> \in Seq(S)
    BY <1>1
  <2>2. Spread(f, s \o <<>>) = Spread(f, s) \o Spread(f, <<>>)
    BY <2>1, SpreadEmpty
  <2> QED
    BY <2>1, <2>2
<1>3. ASSUME NEW u \in Seq(S), NEW x \in S, u \in Good PROVE Append(u, x) \in Good
  <2>1. s \o Append(u, x) = Append(s \o u, x) /\ s \o u \in Seq(S) /\ Append(u, x) \in Seq(S)
    OBVIOUS
  <2>2. Spread(f, Append(s \o u, x)) = Spread(f, s \o u) \o f[x] /\ Spread(f, s \o u) \in Seq(T)
    <3> DEFINE w == s \o u
    <3> HIDE DEF w
    <3>1. w \in Seq(S)
      BY <2>1 DEF w
    <3>2. Spread(f, Append(w, x)) = Spread(f, w) \o f[x] /\ Spread(f, w) \in Seq(T)
      BY <3>1, SpreadAppend
    <3> QED
      BY <3>2 DEF w
  <2>3. Spread(f, Append(u, x)) = Spread(f, u) \o f[x] /\ Spread(f, u) \in Seq(T)
    BY SpreadAppend
  <2>4. f[x] \in Seq(T)
    BY DEF Spreads
  <2>5. Spread(f, s \o u) = Spread(f, s) \o Spread(f, u)
    BY <1>3
  <2>6. (Spread(f, s) \o Spread(f, u)) \o f[x] = Spread(f, s) \o (Spread(f, u) \o f[x])
    <3> DEFINE a == Spread(f, s)
               b == Spread(f, u)
               d == f[x]
    <3>1. a \in Seq(T) /\ b \in Seq(T) /\ d \in Seq(T)
      BY <1>1, <2>3, <2>4
    <3> HIDE DEF a, b, d
    <3>2. (a \o b) \o d = a \o (b \o d)
      BY <3>1, ConcatAssociative
    <3> QED
      BY <3>2 DEF a, b, d
  <2>7. Spread(f, s \o Append(u, x)) = Spread(f, s) \o Spread(f, Append(u, x))
    BY <2>1, <2>2, <2>3, <2>5, <2>6
  <2> QED
    BY <2>1, <2>7
<1>4. t \in Good
  <2>1. \A u \in Seq(S), x \in S : u \in Good => Append(u, x) \in Good
    BY <1>3
  <2> HIDE DEF Good
  <2> QED
    BY <1>2, <2>1, SeqInduction
<1> QED
  BY <1>1, <1>4

\* So do their pictures.
LEMMA ImagesAppend ==
  ASSUME NEW r \in Seq(ResultSet), NEW s \in Seq(ResultSet)
  PROVE  Adds(ImagesIn(r \o s), ImagesIn(r), ImagesIn(s))
<1>1. r \o s \in Seq(ResultSet)
  OBVIOUS
<1>2. ImagesIn(r \o s) = Spread(ImageMap, r \o s) /\ ImagesIn(r) = Spread(ImageMap, r)
      /\ ImagesIn(s) = Spread(ImageMap, s) /\ ImagesIn(r) \in Seq(AtomSet) /\ ImagesIn(s) \in Seq(AtomSet)
  BY <1>1, ImagesInIs
<1>3. Spread(ImageMap, r \o s) = Spread(ImageMap, r) \o Spread(ImageMap, s)
  BY ImageMapType, SpreadConcat
<1>4. Adds(ImagesIn(r) \o ImagesIn(s), ImagesIn(r), ImagesIn(s))
  BY <1>2, ConcatAdds
<1> QED
  BY <1>2, <1>3, <1>4

\* The cargo of a message and its four parts are sequences of atoms.
LEMMA CargoType ==
  ASSUME NEW m \in MessageSet, NEW tools
  PROVE  /\ Cargo(m, tools) \in Seq(AtomSet)
         /\ m.content \in Seq(AtomSet) /\ AtomsOf(m.results) \in Seq(AtomSet)
         /\ (IF m.role = "assistant" \/ tools = {} THEN m.calls ELSE <<>>) \in Seq(AtomSet)
         /\ (IF m.role # "assistant" THEN m.images \o ImagesIn(m.results) ELSE <<>>) \in Seq(AtomSet)
<1>1. /\ m.content \in Seq(AtomSet) /\ m.calls \in Seq(AtomSet) /\ m.images \in Seq(AtomSet)
      /\ AtomsOf(m.results) \in Seq(AtomSet) /\ ImagesIn(m.results) \in Seq(AtomSet)
  BY MessageFields, AtomsOfIs, ImagesInIs
<1> DEFINE p == IF m.role = "assistant" \/ tools = {} THEN m.calls ELSE <<>>
           q == IF m.role # "assistant" THEN m.images \o ImagesIn(m.results) ELSE <<>>
<1>2. p \in Seq(AtomSet)
  BY <1>1
<1>3. q \in Seq(AtomSet)
  BY <1>1
<1> HIDE DEF p, q
<1>4. m.content \o AtomsOf(m.results) \o p \o q \in Seq(AtomSet)
  BY <1>1, <1>2, <1>3
<1> QED
  BY <1>1, <1>2, <1>3, <1>4 DEF Cargo, p, q

\* A message that joins two of one side carries what both carry.
LEMMA CargoAdds ==
  ASSUME NEW a \in MessageSet, NEW b \in MessageSet, NEW m \in MessageSet, NEW tools,
         m.role = a.role, b.role = a.role, m.content = a.content \o b.content,
         m.calls = a.calls \o b.calls, m.results = a.results \o b.results,
         m.images = a.images \o b.images
  PROVE  Adds(Cargo(m, tools), Cargo(a, tools), Cargo(b, tools))
<1> DEFINE calls(x) == IF x.role = "assistant" \/ tools = {} THEN x.calls ELSE <<>>
           images(x) == IF x.role # "assistant" THEN x.images \o ImagesIn(x.results) ELSE <<>>
<1>1. ASSUME NEW x \in MessageSet
      PROVE  /\ x.content \in Seq(AtomSet) /\ AtomsOf(x.results) \in Seq(AtomSet)
             /\ calls(x) \in Seq(AtomSet) /\ images(x) \in Seq(AtomSet)
             /\ Cargo(x, tools) = x.content \o AtomsOf(x.results) \o calls(x) \o images(x)
  BY CargoType DEF Cargo
<1>2. /\ a.results \in Seq(ResultSet) /\ b.results \in Seq(ResultSet) /\ a.calls \in Seq(AtomSet)
      /\ b.calls \in Seq(AtomSet) /\ a.images \in Seq(AtomSet) /\ b.images \in Seq(AtomSet)
      /\ ImagesIn(a.results) \in Seq(AtomSet) /\ ImagesIn(b.results) \in Seq(AtomSet)
      /\ ImagesIn(m.results) \in Seq(AtomSet) /\ m.images \in Seq(AtomSet)
  BY MessageFields, ImagesInIs
<1>3. Adds(m.content, a.content, b.content)
  BY <1>1, ConcatAdds
<1>4. Adds(AtomsOf(m.results), AtomsOf(a.results), AtomsOf(b.results))
  BY <1>2, AtomsAppend
<1>5. Adds(calls(m), calls(a), calls(b))
  <2>1. Adds(m.calls, a.calls, b.calls)
    BY <1>2, ConcatAdds
  <2>2. Adds(<<>>, <<>>, <<>>)
    BY NothingAdds
  <2> QED
    BY <2>1, <2>2
<1>6. Adds(images(m), images(a), images(b))
  <2>1. Adds(m.images, a.images, b.images)
    BY <1>2, ConcatAdds
  <2>2. Adds(ImagesIn(m.results), ImagesIn(a.results), ImagesIn(b.results))
    BY <1>2, ImagesAppend
  <2>3. Adds(m.images \o ImagesIn(m.results), a.images \o ImagesIn(a.results), b.images \o ImagesIn(b.results))
    BY <1>2, <2>1, <2>2, AddsPairs
  <2>4. Adds(<<>>, <<>>, <<>>)
    BY NothingAdds
  <2> QED
    BY <2>3, <2>4
<1> HIDE DEF calls, images
<1>7. Adds(m.content \o AtomsOf(m.results), a.content \o AtomsOf(a.results), b.content \o AtomsOf(b.results))
  BY <1>1, <1>3, <1>4, AddsPairs
<1>8. /\ m.content \o AtomsOf(m.results) \in Seq(AtomSet)
      /\ a.content \o AtomsOf(a.results) \in Seq(AtomSet)
      /\ b.content \o AtomsOf(b.results) \in Seq(AtomSet)
  <2>1. ASSUME NEW x \in MessageSet PROVE x.content \o AtomsOf(x.results) \in Seq(AtomSet)
    <3> DEFINE p == x.content
               q == AtomsOf(x.results)
    <3>1. p \in Seq(AtomSet) /\ q \in Seq(AtomSet)
      BY <1>1
    <3> HIDE DEF p, q
    <3>2. p \o q \in Seq(AtomSet)
      BY <3>1
    <3> QED
      BY <3>2 DEF p, q
  <2> QED
    BY <2>1
<1>9. Adds((m.content \o AtomsOf(m.results)) \o calls(m), (a.content \o AtomsOf(a.results)) \o calls(a),
           (b.content \o AtomsOf(b.results)) \o calls(b))
  BY <1>1, <1>5, <1>7, <1>8, AddsPairs
<1>10. ASSUME NEW x \in MessageSet PROVE (x.content \o AtomsOf(x.results)) \o calls(x) \in Seq(AtomSet)
  <2> DEFINE p == x.content
             q == AtomsOf(x.results)
             r == calls(x)
  <2>1. p \in Seq(AtomSet) /\ q \in Seq(AtomSet) /\ r \in Seq(AtomSet)
    BY <1>1
  <2> HIDE DEF p, q, r
  <2>2. (p \o q) \o r \in Seq(AtomSet)
    BY <2>1
  <2> QED
    BY <2>2 DEF p, q, r
<1>11. Adds(((m.content \o AtomsOf(m.results)) \o calls(m)) \o images(m),
            ((a.content \o AtomsOf(a.results)) \o calls(a)) \o images(a),
            ((b.content \o AtomsOf(b.results)) \o calls(b)) \o images(b))
  BY <1>1, <1>6, <1>9, <1>10, AddsPairs
<1> QED
  BY <1>1, <1>11

\* So is that of each message.
LEMMA CargoMapType ==
  ASSUME NEW tools
  PROVE  /\ Spreads(CargoMap(tools), MessageSet, AtomSet)
         /\ \A m \in MessageSet : CargoMap(tools)[m] = Cargo(m, tools)
BY CargoType DEF CargoMap, Spreads

\* A sequence is its front and its last element.
IsFront(front, s, k, T) ==
    /\ front \in Seq(T) /\ Len(front) = k - 1 /\ s = Append(front, s[k]) /\ s[k] \in T
    /\ \A i \in 1 .. k - 1 : front[i] = s[i]

\* A sequence that is not empty has a front.
LEMMA FrontIs ==
  ASSUME NEW T, NEW s \in Seq(T), NEW k \in Nat \ {0}, Len(s) = k
  PROVE  \E front : IsFront(front, s, k, T)
<1> DEFINE front == [i \in 1 .. k - 1 |-> s[i]]
<1>1. k - 1 \in Nat /\ s[k] \in T /\ \A i \in 1 .. k - 1 : s[i] \in T
  OBVIOUS
<1>2. front \in Seq(T) /\ Len(front) = k - 1 /\ \A i \in 1 .. k - 1 : front[i] = s[i]
  BY <1>1
<1> HIDE DEF front
<1> DEFINE v == Append(front, s[k])
<1>3. v \in Seq(T) /\ Len(v) = k /\ v[k] = s[k] /\ \A i \in 1 .. k - 1 : v[i] = front[i]
  BY <1>1, <1>2
<1> HIDE DEF v
<1>4. \A i \in 1 .. k : s[i] = v[i]
  <2>1. \A i \in 1 .. k : i = k \/ i \in 1 .. k - 1
    OBVIOUS
  <2> QED
    BY <1>2, <1>3, <2>1
<1>5. s = v
  BY <1>3, <1>4, SeqEqual
<1>6. IsFront(front, s, k, T)
  BY <1>1, <1>2, <1>5 DEF v, IsFront
<1> QED
  BY <1>6

\* No results, no atoms.
LEMMA EmptyAtoms == AtomsOf(<<>>) = <<>> /\ ImagesIn(<<>>) = <<>>
<1>1. AtomsOf(<<>>) = <<>>
  BY DEF AtomsOf
<1>2. <<>> \in Seq(ResultSet)
  OBVIOUS
<1>3. ImagesIn(<<>>) = <<>>
  BY <1>2, ImagesInIs, SpreadEmpty
<1> QED
  BY <1>1, <1>3

\* An empty message has no cargo.
LEMMA EmptyFillerCargo ==
  ASSUME NEW role \in Roles, NEW tools
  PROVE  Cargo(Filler(role, <<>>), tools) = <<>>
<1> DEFINE f == Filler(role, <<>>)
<1>1. f.content = <<>> /\ f.calls = <<>> /\ f.results = <<>> /\ f.images = <<>>
  BY EmptyFiller
<1> HIDE DEF f
<1>2. AtomsOf(<<>>) = <<>> /\ ImagesIn(<<>>) = <<>>
  BY EmptyAtoms
<1>3. <<>> \o <<>> = <<>>
  OBVIOUS
<1> QED
  BY <1>1, <1>2, <1>3 DEF Cargo, f

\* One message more loads its cargo.
LEMMA LoadAppend ==
  ASSUME NEW s \in Seq(MessageSet), NEW m \in MessageSet, NEW tools
  PROVE  /\ Load(s, tools) \in Seq(AtomSet) /\ Cargo(m, tools) \in Seq(AtomSet)
         /\ Load(Append(s, m), tools) = Load(s, tools) \o Cargo(m, tools)
<1>1. ASSUME NEW f, Spreads(f, MessageSet, AtomSet)
      PROVE  Spread(f, s) \in Seq(AtomSet) /\ Spread(f, Append(s, m)) = Spread(f, s) \o f[m]
  BY <1>1, SpreadAppend
<1>2. /\ Spreads(CargoMap(tools), MessageSet, AtomSet) /\ CargoMap(tools)[m] = Cargo(m, tools)
      /\ Cargo(m, tools) \in Seq(AtomSet)
  BY CargoMapType, CargoType
<1> QED
  BY <1>1, <1>2 DEF Load

\* Merging a message adds what it carries.
LEMMA LoadMerged ==
  ASSUME NEW out \in Seq(MessageSet), NEW m \in MessageSet, NEW tools
  PROVE  /\ Load(out, tools) \in Seq(AtomSet) /\ Load(Merged(out, m), tools) \in Seq(AtomSet)
         /\ Adds(Load(Merged(out, m), tools), Load(out, tools), Cargo(m, tools))
<1> DEFINE new == Merged(out, m)
           L(s) == Load(s, tools)
           C(x) == Cargo(x, tools)
<1>1. PICK k, base : MergesInto(out, m, new, k, base)
  BY MergedIs
<1>2. ASSUME NEW s \in Seq(MessageSet), NEW x \in MessageSet
      PROVE  L(s) \in Seq(AtomSet) /\ L(Append(s, x)) = L(s) \o C(x) /\ C(x) \in Seq(AtomSet)
  BY LoadAppend
<1> HIDE DEF new, L
<1>3. new \in Seq(MessageSet) /\ Len(new) = k /\ k \in Nat \ {0} /\ base \in MessageSet
  BY <1>1 DEF MergesInto
<1>4. PICK front : IsFront(front, new, k, MessageSet)
  BY <1>3, FrontIs
<1>5. /\ front \in Seq(MessageSet)
      /\ Len(front) = k - 1 /\ new = Append(front, new[k]) /\ new[k] \in MessageSet
      /\ \A i \in 1 .. k - 1 : front[i] = new[i]
  BY <1>4 DEF IsFront
<1>6. Adds(C(new[k]), C(base), C(m))
  BY <1>1, <1>5, CargoAdds DEF MergesInto
<1>7. L(out) = L(front) \o C(base)
  <2>1. CASE k = Len(out) /\ base = out[k]
    <3>1. PICK old : IsFront(old, out, k, MessageSet)
      BY <1>3, <2>1, FrontIs
    <3>2. /\ old \in Seq(MessageSet) /\ Len(old) = k - 1 /\ out = Append(old, out[k])
          /\ \A i \in 1 .. k - 1 : old[i] = out[i]
      BY <3>1 DEF IsFront
    <3>3. \A i \in 1 .. Len(front) : front[i] = old[i]
      BY <1>1, <1>5, <3>2 DEF MergesInto
    <3>4. front = old
      BY <1>5, <3>2, <3>3, SeqEqual
    <3> QED
      BY <1>2, <1>3, <2>1, <3>2, <3>4
  <2>2. CASE k = Len(out) + 1 /\ base = Filler(m.role, <<>>)
    <3>1. Len(front) = Len(out) /\ \A i \in 1 .. Len(front) : front[i] = out[i]
      BY <1>1, <1>5, <2>2 DEF MergesInto
    <3>2. front = out
      BY <1>5, <3>1, SeqEqual
    <3>3. C(base) = <<>>
      BY <2>2, MessageFields, EmptyFillerCargo
    <3>4. L(front) \o <<>> = L(front)
      BY <1>2, <1>5
    <3> QED
      BY <3>2, <3>3, <3>4
  <2> QED
    BY <1>1, <2>1, <2>2 DEF MergesInto
<1>8. L(new) = L(front) \o C(new[k])
  BY <1>2, <1>5
<1>9. /\ L(front) \in Seq(AtomSet) /\ C(base) \in Seq(AtomSet) /\ C(m) \in Seq(AtomSet)
      /\ C(new[k]) \in Seq(AtomSet) /\ <<>> \in Seq(AtomSet)
  BY <1>2, <1>3, <1>5
<1> HIDE DEF C
<1>10. Adds(L(new), L(out), C(m)) /\ L(new) \in Seq(AtomSet) /\ L(out) \in Seq(AtomSet)
  <2> DEFINE f == L(front)
             x == C(new[k])
             b == C(base)
             d == C(m)
  <2>1. Adds(f, f, <<>>)
    BY <1>9, EmptyAdds
  <2>2. f \in Seq(AtomSet) /\ x \in Seq(AtomSet) /\ b \in Seq(AtomSet) /\ d \in Seq(AtomSet)
        /\ Adds(x, b, d) /\ <<>> \in Seq(AtomSet) /\ L(new) = f \o x /\ L(out) = f \o b
    BY <1>6, <1>7, <1>8, <1>9
  <2> HIDE DEF f, x, b, d
  <2>3. Adds(f \o x, f \o b, <<>> \o d) /\ f \o x \in Seq(AtomSet) /\ f \o b \in Seq(AtomSet)
    BY <2>1, <2>2, AddsPairs
  <2>4. <<>> \o d = d
    BY <2>2
  <2> QED
    BY <2>2, <2>3, <2>4 DEF d
<1> QED
  BY <1>10 DEF new, L, C

-----------------------------------------------------------------------------
(* What has a place of a conversation.                                      *)

FittingTurn(n, t, tools) ==
    TextOf(n, t) \o AtomsOf(ResultsOf(n, t))
      \o (IF t.role = "assistant" \/ tools = {} THEN CallsOf(n, t) ELSE <<>>)
      \o (IF t.role # "assistant" THEN Picture(n, "own", t.image) \o ImagesIn(ResultsOf(n, t))
          ELSE <<>>)
FittingBy(c, tools) == FlattenSeq([n \in DOMAIN c |-> FittingTurn(n, c[n], tools)])

\* What has a place of a turn is the cargo of its message.
LEMMA FittingTurnIs ==
  ASSUME NEW n \in Nat, NEW t \in Turns, NEW tools
  PROVE  FittingTurn(n, t, tools) = Cargo(Message(n, t), tools)
<1> DEFINE m == Message(n, t)
<1>1. /\ m.content = TextOf(n, t) /\ m.calls = CallsOf(n, t) /\ m.results = ResultsOf(n, t)
      /\ m.images = Picture(n, "own", t.image) /\ (m.role = "assistant" <=> t.role = "assistant")
  BY MessageIs
<1> HIDE DEF m
<1>2. FittingTurn(n, t, tools) = Cargo(m, tools)
  BY <1>1 DEF FittingTurn, Cargo
<1> QED
  BY <1>2 DEF m

\* One turn more adds what has a place of it.
LEMMA FittingAppend ==
  ASSUME NEW c \in Seq(Turns), NEW t \in Turns, NEW tools
  PROVE  /\ FittingBy(c, tools) \in Seq(AtomSet)
         /\ FittingBy(Append(c, t), tools) \in Seq(AtomSet)
         /\ Adds(FittingBy(Append(c, t), tools), FittingBy(c, tools), FittingTurn(Len(c) + 1, t, tools))
<1> DEFINE u == Append(c, t)
           N == Len(c)
           o(n, x) == FittingTurn(n, x, tools)
           oc == [n \in DOMAIN c |-> o(n, c[n])]
           ou == [n \in DOMAIN u |-> o(n, u[n])]
           R == Seq(AtomSet)
<1>1. /\ DOMAIN u = 1 .. N + 1 /\ DOMAIN c = 1 .. N /\ N \in Nat /\ u[N + 1] = t
      /\ \A n \in 1 .. N : u[n] = c[n] /\ c[n] \in Turns
  OBVIOUS
<1>2. \A n \in Nat, x \in Turns : o(n, x) \in R
  BY FittingTurnIs, MessageType, CargoType
<1> HIDE DEF u, N, o, R
<1>3. oc \in Seq(R) /\ Len(oc) = N /\ \A n \in 1 .. N : oc[n] = o(n, c[n])
  BY <1>1, <1>2
<1>4. ou \in Seq(R) /\ Len(ou) = N + 1 /\ \A n \in 1 .. N + 1 : ou[n] = o(n, u[n])
  <2>1. \A n \in 1 .. N + 1 : u[n] \in Turns /\ n \in Nat
    <3>1. \A n \in 1 .. N + 1 : n = N + 1 \/ n \in 1 .. N
      BY <1>1
    <3> QED
      BY <1>1, <3>1
  <2>2. \A n \in 1 .. N + 1 : o(n, u[n]) \in R
    BY <1>2, <2>1
  <2> QED
    BY <1>1, <2>2
<1> HIDE DEF oc, ou
<1>5. o(N + 1, t) \in R
  BY <1>1, <1>2
<1>6. ou = Append(oc, o(N + 1, t))
  <2> DEFINE v == Append(oc, o(N + 1, t))
  <2>1. v \in Seq(R) /\ Len(v) = N + 1 /\ v[N + 1] = o(N + 1, t) /\ \A n \in 1 .. N : v[n] = oc[n]
    BY <1>1, <1>3, <1>5
  <2> HIDE DEF v
  <2>2. \A n \in 1 .. N + 1 : ou[n] = v[n]
    <3>1. \A n \in 1 .. N + 1 : n = N + 1 \/ n \in 1 .. N
      BY <1>1
    <3> QED
      BY <1>1, <1>3, <1>4, <2>1, <3>1
  <2>3. ou = v
    BY <1>4, <2>1, <2>2, SeqEqual
  <2> QED
    BY <2>3 DEF v
<1>7. oc \in Seq(Seq(AtomSet)) /\ o(N + 1, t) \in Seq(AtomSet)
  BY <1>3, <1>5 DEF R
<1>8. FlattenSeq(oc) \in Seq(AtomSet) /\ FlattenSeq(ou) = FlattenSeq(oc) \o o(N + 1, t)
  BY <1>6, <1>7, FlattenAppend
<1>9. FlattenSeq(ou) \in Seq(AtomSet) /\ Adds(FlattenSeq(ou), FlattenSeq(oc), o(N + 1, t))
  BY <1>7, <1>8, ConcatAdds
<1> QED
  BY <1>8, <1>9 DEF FittingBy, oc, ou, o, u, N

\* The parts of a turn, each of its own kind.
OfKind(n, what) == {a \in AtomSet : a.turn = n /\ a.what = what}

LEMMA PartKinds ==
  ASSUME NEW n \in Nat, NEW t \in Turns
  PROVE  /\ TextOf(n, t) \in Seq(AtomSet) /\ ToSet(TextOf(n, t)) \subseteq OfKind(n, "text")
         /\ AtomsOf(ResultsOf(n, t)) \in Seq(AtomSet)
         /\ ToSet(AtomsOf(ResultsOf(n, t))) \subseteq OfKind(n, "result")
         /\ CallsOf(n, t) \in Seq(AtomSet) /\ ToSet(CallsOf(n, t)) \subseteq OfKind(n, "call")
         /\ Picture(n, "own", t.image) \o ImagesIn(ResultsOf(n, t)) \in Seq(AtomSet)
         /\ ToSet(Picture(n, "own", t.image) \o ImagesIn(ResultsOf(n, t))) \subseteq OfKind(n, "image")
<1> DEFINE T == OfKind(n, "text")
           R == OfKind(n, "result")
           C == OfKind(n, "call")
           P == OfKind(n, "image")
<1>1. \A id \in Ids : /\ Atom("text", n, id) \in T /\ Atom("result", n, id) \in R
                      /\ Atom("call", n, id) \in C /\ Atom("image", n, id) \in P
  BY AtomType DEF Atom, OfKind
<1>2. ASSUME NEW S, NEW s \in Seq(S) PROVE ToSet(s) \subseteq S
  BY DEF ToSet
<1> HIDE DEF T, R, C, P
<1>3. TextOf(n, t) \in Seq(T)
  <2>1. Atom("text", n, NoId) \in T
    BY <1>1, IdTypes
  <2> QED
    BY <2>1 DEF TextOf
<1>4. ASSUME NEW id \in Ids, NEW present PROVE Picture(n, id, present) \in Seq(P)
  <2>1. Atom("image", n, id) \in P
    BY <1>1, <1>4
  <2> QED
    BY <2>1 DEF Picture
<1>5. CallsOf(n, t) \in Seq(C)
  <2> DEFINE k == t.calls
  <2>1. k \in Seq(STRING)
    BY TurnFields
  <2> HIDE DEF k
  <2>2. \A i \in DOMAIN k : Atom("call", n, k[i]) \in C
    <3>1. \A i \in DOMAIN k : k[i] \in STRING
      BY <2>1
    <3> QED
      BY <1>1, <3>1, IdTypes
  <2>3. [i \in DOMAIN k |-> Atom("call", n, k[i])] \in Seq(C)
    BY <2>1, <2>2
  <2> QED
    BY <2>3 DEF CallsOf, k
<1> DEFINE rs == ResultsOf(n, t)
<1>6. rs \in Seq(ResultSet) /\ \A r \in ToSet(rs) : r.atom \in R /\ r.images \in Seq(P)
  <2>1. rs \in Seq(ResultSet) /\ Len(rs) = Len(t.results)
        /\ \A i \in DOMAIN t.results : rs[i] =
             [atom |-> Atom("result", n, t.results[i].id),
              images |-> Picture(n, t.results[i].id, t.results[i].image)]
    BY ResultsOfType
  <2>2. t.results \in Seq(Results)
    BY TurnFields
  <2>3. \A x \in Results : x.id \in Ids
    BY IdTypes DEF Results
  <2> HIDE DEF rs
  <2> DEFINE k == t.results
  <2> HIDE DEF k
  <2>4. \A i \in DOMAIN k : k[i].id \in Ids
    BY <2>2, <2>3 DEF k
  <2>5. DOMAIN rs = DOMAIN k
    BY <2>1, <2>2 DEF k
  <2>6. ASSUME NEW i \in DOMAIN k PROVE rs[i].atom \in R /\ rs[i].images \in Seq(P)
    <3>1. rs[i] = [atom |-> Atom("result", n, k[i].id), images |-> Picture(n, k[i].id, k[i].image)]
      BY <2>1 DEF k
    <3>2. Atom("result", n, k[i].id) \in R
      BY <1>1, <2>4
    <3>3. Picture(n, k[i].id, k[i].image) \in Seq(P)
      BY <1>4, <2>4
    <3> QED
      BY <3>1, <3>2, <3>3
  <2> QED
    BY <2>1, <2>5, <2>6 DEF ToSet
<1> HIDE DEF rs
<1>7. ToSet(AtomsOf(rs)) \subseteq R
  BY <1>6, AtomsOfIs
<1>8. ToSet(ImagesIn(rs)) \subseteq P
  BY <1>2, <1>6, ImagesInIs
<1>9. /\ TextOf(n, t) \in Seq(AtomSet) /\ AtomsOf(rs) \in Seq(AtomSet) /\ ImagesIn(rs) \in Seq(AtomSet)
      /\ CallsOf(n, t) \in Seq(AtomSet) /\ Picture(n, "own", t.image) \in Seq(AtomSet)
  BY <1>6, TextOfType, CallsOfType, PictureType, IdTypes, AtomsOfIs, ImagesInIs
<1>10. ToSet(Picture(n, "own", t.image)) \subseteq P
  BY <1>2, <1>4, IdTypes
<1>11. /\ Picture(n, "own", t.image) \o ImagesIn(rs) \in Seq(AtomSet)
       /\ ToSet(Picture(n, "own", t.image) \o ImagesIn(rs)) \subseteq P
  BY <1>8, <1>9, <1>10, JoinedRange
<1>12. ToSet(TextOf(n, t)) \subseteq T /\ ToSet(CallsOf(n, t)) \subseteq C
  BY <1>2, <1>3, <1>5
<1> QED
  BY <1>7, <1>9, <1>11, <1>12 DEF T, R, C, P, rs

\* What has a place of a turn is its text and its results, and what a message of
\* its side carries.
LEMMA TurnKinds ==
  ASSUME NEW n \in Nat, NEW t \in Turns, NEW tools
  PROVE  \A a \in ToSet(FittingTurn(n, t, tools)) :
            \/ a \in OfKind(n, "text") \cup OfKind(n, "result")
            \/ (t.role = "assistant" \/ tools = {}) /\ a \in OfKind(n, "call")
            \/ t.role # "assistant" /\ a \in OfKind(n, "image")
<1> DEFINE x == TextOf(n, t)
           r == AtomsOf(ResultsOf(n, t))
           p == IF t.role = "assistant" \/ tools = {} THEN CallsOf(n, t) ELSE <<>>
           i == Picture(n, "own", t.image) \o ImagesIn(ResultsOf(n, t))
           q == IF t.role # "assistant" THEN i ELSE <<>>
<1>1. FittingTurn(n, t, tools) = ((x \o r) \o p) \o q
  BY DEF FittingTurn
<1>2. ToSet(<<>>) = {} /\ <<>> \in Seq(AtomSet)
  BY DEF ToSet
<1>3. /\ x \in Seq(AtomSet) /\ r \in Seq(AtomSet) /\ ToSet(x) \subseteq OfKind(n, "text")
      /\ ToSet(r) \subseteq OfKind(n, "result")
  BY PartKinds
<1>4. i \in Seq(AtomSet) /\ ToSet(i) \subseteq OfKind(n, "image")
  BY PartKinds
<1> HIDE DEF x, r, i
<1>5. p \in Seq(AtomSet) /\ \A a \in ToSet(p) :
        (t.role = "assistant" \/ tools = {}) /\ a \in OfKind(n, "call")
  BY <1>2, PartKinds
<1>6. q \in Seq(AtomSet) /\ \A a \in ToSet(q) : t.role # "assistant" /\ a \in OfKind(n, "image")
  BY <1>2, <1>4
<1> HIDE DEF p, q
<1>7. x \o r \in Seq(AtomSet) /\ ToSet(x \o r) = ToSet(x) \cup ToSet(r)
  BY <1>3, JoinedRange
<1> DEFINE v == x \o r
<1> HIDE DEF v
<1>8. v \o p \in Seq(AtomSet) /\ ToSet(v \o p) = ToSet(v) \cup ToSet(p)
  <2>1. v \in Seq(AtomSet)
    BY <1>7 DEF v
  <2> QED
    BY <1>5, <2>1, JoinedRange
<1> DEFINE y == v \o p
<1> HIDE DEF y
<1>9. ToSet(y \o q) = ToSet(y) \cup ToSet(q)
  <2>1. y \in Seq(AtomSet)
    BY <1>8 DEF y
  <2> QED
    BY <1>6, <2>1, JoinedRange
<1>10. ToSet(FittingTurn(n, t, tools)) = ((ToSet(x) \cup ToSet(r)) \cup ToSet(p)) \cup ToSet(q)
  BY <1>1, <1>7, <1>8, <1>9 DEF v, y
<1> QED
  BY <1>3, <1>5, <1>6, <1>10

\* Every piece of a turn that has a place is that turn's.
LEMMA TurnPieces ==
  ASSUME NEW n \in Nat, NEW t \in Turns, NEW tools
  PROVE  \A a \in ToSet(FittingTurn(n, t, tools)) : a.turn = n /\ a.what # "placeholder"
BY TurnKinds DEF OfKind

\* What has no place of a turn is of a kind that nothing with a place is.
MisfitsOf(n, t, tools) ==
    IF t.role = "assistant" THEN Picture(n, "own", t.image) \o ImagesIn(ResultsOf(n, t))
    ELSE IF tools # {} THEN CallsOf(n, t)
    ELSE <<>>

LEMMA MisfitsStay ==
  ASSUME NEW c \in Seq(Turns), NEW tools, NEW n \in DOMAIN c
  PROVE  ToSet(MisfitsOf(n, c[n], tools)) \cap ToSet(FittingBy(c, tools)) = {}
<1> SUFFICES ASSUME NEW a, a \in ToSet(MisfitsOf(n, c[n], tools)), a \in ToSet(FittingBy(c, tools))
             PROVE  FALSE
  OBVIOUS
<1>1. n \in Nat /\ c[n] \in Turns /\ \A m \in DOMAIN c : m \in Nat /\ c[m] \in Turns
  OBVIOUS
<1>2. \/ c[n].role = "assistant" /\ a \in OfKind(n, "image")
      \/ c[n].role # "assistant" /\ tools # {} /\ a \in OfKind(n, "call")
  <2>1. ToSet(<<>>) = {}
    BY DEF ToSet
  <2>2. /\ ToSet(CallsOf(n, c[n])) \subseteq OfKind(n, "call")
        /\ ToSet(Picture(n, "own", c[n].image) \o ImagesIn(ResultsOf(n, c[n]))) \subseteq OfKind(n, "image")
    BY <1>1, PartKinds
  <2> QED
    BY <2>1, <2>2 DEF MisfitsOf
<1>3. PICK m \in DOMAIN c : a \in ToSet(FittingTurn(m, c[m], tools))
  <2> DEFINE o(m) == FittingTurn(m, c[m], tools)
             ss == [m \in DOMAIN c |-> o(m)]
  <2>1. \A m \in DOMAIN c : o(m) \in Seq(AtomSet)
    BY <1>1, FittingTurnIs, MessageType, CargoType
  <2>2. FittingBy(c, tools) = FlattenSeq(ss)
    BY DEF FittingBy
  <2> HIDE DEF o
  <2>3. ss \in Seq(Seq(AtomSet)) /\ DOMAIN ss = DOMAIN c /\ \A m \in DOMAIN c : ss[m] = o(m)
    BY <2>1
  <2> HIDE DEF ss
  <2>4. ToSet(FlattenSeq(ss)) = UNION {ToSet(ss[i]) : i \in DOMAIN ss}
    BY <2>3, FlattenRange
  <2>5. PICK m \in DOMAIN c : a \in ToSet(ss[m])
    BY <2>2, <2>3, <2>4
  <2> QED
    BY <2>3, <2>5 DEF o
<1>4. a.turn = m /\ a.turn = n
  BY <1>1, <1>2, <1>3, TurnPieces DEF OfKind
<1>5. \/ a \in OfKind(n, "text") \cup OfKind(n, "result")
      \/ (c[n].role = "assistant" \/ tools = {}) /\ a \in OfKind(n, "call")
      \/ c[n].role # "assistant" /\ a \in OfKind(n, "image")
  BY <1>1, <1>3, <1>4, TurnKinds
<1> QED
  BY <1>2, <1>5 DEF OfKind

\* A turn that is read by FromOpenAI, by its side.
LEMMA SystemFitting ==
  ASSUME NEW n \in Nat, NEW t \in Turns, NEW tools,
         t.role = "system", t.calls = <<>>, t.results = <<>>, ~t.image
  PROVE  FittingTurn(n, t, tools) = TextOf(n, t)
<1>1. CallsOf(n, t) = <<>> /\ ResultsOf(n, t) = <<>> /\ Picture(n, "own", t.image) = <<>>
  BY DEF CallsOf, ResultsOf, Picture
<1>2. AtomsOf(<<>>) = <<>> /\ ImagesIn(<<>>) = <<>>
  BY EmptyAtoms
<1>3. TextOf(n, t) \in Seq(AtomSet)
  BY TextOfType
<1>4. FittingTurn(n, t, tools) = ((TextOf(n, t) \o <<>>) \o <<>>) \o (<<>> \o <<>>)
  BY <1>1, <1>2 DEF FittingTurn
<1> QED
  BY <1>3, <1>4

\* A tool's turn is its results, and all of them have a place.
LEMMA ToolFitting ==
  ASSUME NEW n \in Nat, NEW t \in Turns, NEW tools,
         t.role = "tool", t.calls = <<>>, ~t.text, ~t.image
  PROVE  FittingTurn(n, t, tools) = Bag(ResultsOf(n, t))
<1> DEFINE a == AtomsOf(ResultsOf(n, t))
           i == ImagesIn(ResultsOf(n, t))
<1>1. CallsOf(n, t) = <<>> /\ TextOf(n, t) = <<>> /\ Picture(n, "own", t.image) = <<>>
  BY DEF CallsOf, TextOf, Picture
<1>2. a \in Seq(AtomSet) /\ i \in Seq(AtomSet)
  BY ResultsOfType, AtomsOfIs, ImagesInIs
<1>3. FittingTurn(n, t, tools) = ((<<>> \o a) \o <<>>) \o (<<>> \o i)
  BY <1>1 DEF FittingTurn
<1> HIDE DEF a, i
<1>4. FittingTurn(n, t, tools) = a \o i
  BY <1>2, <1>3
<1> QED
  BY <1>4 DEF Bag, a, i

\* What waits is a sequence of atoms.
LEMMA BagIs ==
  ASSUME NEW p \in Seq(ResultSet)
  PROVE  Bag(p) \in Seq(AtomSet)
BY AtomsOfIs, ImagesInIs DEF Bag

\* Nothing waits where no result does.
LEMMA BagOfNothing == Bag(<<>>) = <<>>
<1>1. <<>> \o <<>> = <<>>
  OBVIOUS
<1> QED
  BY <1>1, EmptyAtoms DEF Bag

\* More results wait beside those that did.
LEMMA BagAdds ==
  ASSUME NEW p \in Seq(ResultSet), NEW q \in Seq(ResultSet)
  PROVE  p \o q \in Seq(ResultSet) /\ Adds(Bag(p \o q), Bag(p), Bag(q))
<1>1. p \o q \in Seq(ResultSet) /\ Adds(AtomsOf(p \o q), AtomsOf(p), AtomsOf(q))
  BY AtomsAppend
<1>2. Adds(ImagesIn(p \o q), ImagesIn(p), ImagesIn(q))
  BY ImagesAppend
<1>3. ASSUME NEW r \in Seq(ResultSet) PROVE AtomsOf(r) \in Seq(AtomSet) /\ ImagesIn(r) \in Seq(AtomSet)
  BY AtomsOfIs, ImagesInIs
<1> DEFINE r == p \o q
<1> HIDE DEF r
<1>4. r \in Seq(ResultSet)
  BY <1>1 DEF r
<1>5. Adds(AtomsOf(r) \o ImagesIn(r), AtomsOf(p) \o ImagesIn(p), AtomsOf(q) \o ImagesIn(q))
  BY <1>1, <1>2, <1>3, <1>4, AddsPairs DEF r
<1> QED
  BY <1>1, <1>5 DEF Bag, r

\* The turn that pending results get of their own carries them.
LEMMA ResultsTurnCargo ==
  ASSUME NEW p \in Seq(ResultSet), NEW tools
  PROVE  Cargo(ResultsTurn(p), tools) = Bag(p)
<1> DEFINE m == ResultsTurn(p)
           a == AtomsOf(p)
           i == ImagesIn(p)
<1>1. m.role = "user" /\ m.content = <<>> /\ m.calls = <<>> /\ m.results = p /\ m.images = <<>>
  BY ResultsTurnIs
<1>2. a \in Seq(AtomSet) /\ i \in Seq(AtomSet)
  BY AtomsOfIs, ImagesInIs
<1> HIDE DEF m
<1>3. Cargo(m, tools) = ((<<>> \o a) \o <<>>) \o (<<>> \o i)
  BY <1>1 DEF Cargo
<1> HIDE DEF a, i
<1>4. Cargo(m, tools) = a \o i
  BY <1>2, <1>3
<1> QED
  BY <1>4 DEF Bag, a, i, m

\* The message m is turn n, with the results that waited for it.
Side(t) == IF t.role = "assistant" THEN "assistant" ELSE "user"
Says(m, n, t, pending) ==
    /\ m \in MessageSet /\ m.role = Side(t)
    /\ m.content = TextOf(n, t) /\ m.calls = CallsOf(n, t)
    /\ m.images = Picture(n, "own", t.image)
    /\ m.results = pending \o ResultsOf(n, t)
    /\ pending # <<>> => m.role = "user"

\* A message carries its turn and what waited for it.
LEMMA SaysCargo ==
  ASSUME NEW n \in Nat, NEW t \in Turns, NEW pending \in Seq(ResultSet), NEW m, NEW tools,
         Says(m, n, t, pending)
  PROVE  Adds(Cargo(m, tools), Bag(pending), FittingTurn(n, t, tools))
<1> DEFINE b == Message(n, t)
<1>1. /\ b \in MessageSet /\ b.role = Side(t) /\ b.content = TextOf(n, t) /\ b.calls = CallsOf(n, t)
      /\ b.results = ResultsOf(n, t) /\ b.images = Picture(n, "own", t.image)
  BY MessageIs DEF Side
<1>2. FittingTurn(n, t, tools) = Cargo(b, tools)
  BY FittingTurnIs
<1> HIDE DEF b
<1>3. /\ m \in MessageSet /\ m.role = b.role /\ m.content = b.content /\ m.calls = b.calls
      /\ m.images = b.images /\ m.results = pending \o b.results
  BY <1>1 DEF Says
<1>4. /\ b.content \in Seq(AtomSet) /\ b.calls \in Seq(AtomSet) /\ b.images \in Seq(AtomSet)
      /\ b.results \in Seq(ResultSet) /\ b.role \in Roles
  BY <1>1, MessageFields
<1>5. /\ b.content = <<>> \o b.content /\ b.calls = <<>> \o b.calls /\ b.images = <<>> \o b.images
  BY <1>4
<1>6. CASE pending = <<>>
  <2> DEFINE a == Filler(b.role, <<>>)
  <2>1. /\ a \in MessageSet /\ a.role = b.role /\ a.content = <<>> /\ a.calls = <<>>
        /\ a.results = <<>> /\ a.images = <<>>
    BY <1>4, EmptyFiller
  <2>2. Cargo(a, tools) = Bag(pending)
    BY <1>4, <1>6, EmptyFillerCargo, BagOfNothing
  <2> HIDE DEF a
  <2>3. Adds(Cargo(m, tools), Cargo(a, tools), Cargo(b, tools))
    BY <1>1, <1>3, <1>5, <1>6, <2>1, CargoAdds
  <2> QED
    BY <1>2, <2>2, <2>3
<1>7. CASE pending # <<>>
  <2> DEFINE a == ResultsTurn(pending)
  <2>1. /\ a \in MessageSet /\ a.role = "user" /\ a.content = <<>> /\ a.calls = <<>>
        /\ a.results = pending /\ a.images = <<>>
    BY ResultsTurnIs
  <2>2. Cargo(a, tools) = Bag(pending)
    BY ResultsTurnCargo
  <2>3. m.role = "user"
    BY <1>7 DEF Says
  <2> HIDE DEF a
  <2>4. Adds(Cargo(m, tools), Cargo(a, tools), Cargo(b, tools))
    BY <1>1, <1>3, <1>5, <2>1, <2>3, CargoAdds
  <2> QED
    BY <1>2, <2>2, <2>4
<1> QED
  BY <1>6, <1>7

-----------------------------------------------------------------------------
(* The books: what has a place of the turns so far is in the merged messages *)
(* U, in the results P that wait, or in the system prompt S.                *)

Balance(fitting, load, bag, S) ==
    /\ Len(fitting) = (Len(load) + Len(bag)) + Len(S)
    /\ ToSet(fitting) = (ToSet(load) \cup ToSet(bag)) \cup ToSet(S)

PiecesOf(c, atoms) == \A a \in atoms : a.turn \in 1 .. Len(c) /\ a.what # "placeholder"

\* No message has a piece older than one in a message before it, nor has P.
InOrder(U, P, tools) ==
    /\ \A i, j \in DOMAIN U : i < j =>
          \A a \in ToSet(Cargo(U[i], tools)), b \in ToSet(Cargo(U[j], tools)) : a.turn <= b.turn
    /\ \A i \in DOMAIN U : \A a \in ToSet(Cargo(U[i], tools)), b \in ToSet(Bag(P)) : a.turn <= b.turn

Books(c, U, P, S, tools) ==
    /\ c \in Seq(Turns) /\ U \in Seq(MessageSet) /\ P \in Seq(ResultSet) /\ S \in Seq(AtomSet)
    /\ Balance(FittingBy(c, tools), Load(U, tools), Bag(P), S)
    /\ PiecesOf(c, ToSet(FittingBy(c, tools)))
    /\ \A a \in ToSet(S) : a.turn \in 1 .. Len(c) /\ c[a.turn].role = "system"
    /\ InOrder(U, P, tools)

\* The sums that the books are made of.
LEMMA Sums ==
  ASSUME NEW o \in Nat, NEW l \in Nat, NEW b \in Nat, NEW s \in Nat, NEW p \in Nat, NEW x \in Nat,
         NEW y \in Nat, NEW z \in Nat, o = (l + b) + s
  PROVE  /\ p = o + x /\ z = l + y /\ y = b + x => p = (z + 0) + s
         /\ p = o + x /\ z = b + x => p = (l + z) + s
         /\ p = o + x /\ z = s + x => p = (l + b) + z
         /\ z = l + b => o = (z + 0) + s
OBVIOUS

\* The same for sets.
LEMMA Unions ==
  ASSUME NEW o, NEW l, NEW b, NEW s, NEW p, NEW x, NEW y, NEW z, o = (l \cup b) \cup s
  PROVE  /\ p = o \cup x /\ z = l \cup y /\ y = b \cup x => p = (z \cup {}) \cup s
         /\ p = o \cup x /\ z = b \cup x => p = (l \cup z) \cup s
         /\ p = o \cup x /\ z = s \cup x => p = (l \cup b) \cup z
         /\ z = l \cup b => o = (z \cup {}) \cup s
OBVIOUS

Accounts(o, l, b, s, p, x, y, z) ==
    /\ o \in Seq(AtomSet) /\ l \in Seq(AtomSet) /\ b \in Seq(AtomSet) /\ s \in Seq(AtomSet)
    /\ p \in Seq(AtomSet) /\ x \in Seq(AtomSet) /\ y \in Seq(AtomSet) /\ z \in Seq(AtomSet)
    /\ Balance(o, l, b, s)

\* The four ways in which a step keeps the balance.
LEMMA BalanceKept ==
  ASSUME NEW o, NEW l, NEW b, NEW s, NEW p, NEW x, NEW y, NEW z, Accounts(o, l, b, s, p, x, y, z)
  PROVE  /\ Adds(p, o, x) /\ Adds(z, l, y) /\ Adds(y, b, x) => Balance(p, z, <<>>, s)
         /\ Adds(p, o, x) /\ Adds(z, b, x) => Balance(p, l, z, s)
         /\ Adds(p, o, x) /\ Adds(z, s, x) => Balance(p, l, b, z)
         /\ Adds(z, l, b) => Balance(o, z, <<>>, s)
<1>1. /\ Len(o) \in Nat /\ Len(l) \in Nat /\ Len(b) \in Nat /\ Len(s) \in Nat /\ Len(p) \in Nat
      /\ Len(x) \in Nat /\ Len(y) \in Nat /\ Len(z) \in Nat
  BY DEF Accounts
<1>2. Len(<<>>) = 0 /\ ToSet(<<>>) = {}
  BY DEF ToSet
<1>3. Len(o) = (Len(l) + Len(b)) + Len(s) /\ ToSet(o) = (ToSet(l) \cup ToSet(b)) \cup ToSet(s)
  BY DEF Accounts, Balance
<1> DEFINE on == Len(o)
           ln == Len(l)
           bn == Len(b)
           sn == Len(s)
           pn == Len(p)
           xn == Len(x)
           yn == Len(y)
           zn == Len(z)
<1>4. /\ on \in Nat /\ ln \in Nat /\ bn \in Nat /\ sn \in Nat /\ pn \in Nat
      /\ xn \in Nat /\ yn \in Nat /\ zn \in Nat /\ on = (ln + bn) + sn
  BY <1>1, <1>3
<1> HIDE DEF on, ln, bn, sn, pn, xn, yn, zn
<1>5. /\ pn = on + xn /\ zn = ln + yn /\ yn = bn + xn => pn = (zn + 0) + sn
      /\ pn = on + xn /\ zn = bn + xn => pn = (ln + zn) + sn
      /\ pn = on + xn /\ zn = sn + xn => pn = (ln + bn) + zn
      /\ zn = ln + bn => on = (zn + 0) + sn
  BY <1>4, Sums
<1> DEFINE T(q) == ToSet(q)
<1>6. /\ T(p) = T(o) \cup T(x) /\ T(z) = T(l) \cup T(y) /\ T(y) = T(b) \cup T(x) => T(p) = (T(z) \cup {}) \cup T(s)
      /\ T(p) = T(o) \cup T(x) /\ T(z) = T(b) \cup T(x) => T(p) = (T(l) \cup T(z)) \cup T(s)
      /\ T(p) = T(o) \cup T(x) /\ T(z) = T(s) \cup T(x) => T(p) = (T(l) \cup T(b)) \cup T(z)
      /\ T(z) = T(l) \cup T(b) => T(o) = (T(z) \cup {}) \cup T(s)
  BY <1>3, Unions
<1> QED
  BY <1>2, <1>5, <1>6, Zenon DEF Adds, Balance, T, on, ln, bn, sn, pn, xn, yn, zn

\* What messages carry is what each carries.
LEMMA LoadRange ==
  ASSUME NEW U \in Seq(MessageSet), NEW tools
  PROVE  /\ Load(U, tools) \in Seq(AtomSet)
         /\ \A a : a \in ToSet(Load(U, tools)) <=> \E i \in DOMAIN U : a \in ToSet(Cargo(U[i], tools))
<1> DEFINE f == CargoMap(tools)
<1>1. Spreads(f, MessageSet, AtomSet) /\ \A m \in MessageSet : f[m] = Cargo(m, tools)
  BY CargoMapType
<1> HIDE DEF f
<1>2. /\ Spread(f, U) \in Seq(AtomSet)
      /\ \A a : a \in ToSet(Spread(f, U)) <=> \E m \in ToSet(U) : a \in ToSet(f[m])
  BY <1>1, SpreadRange
<1>3. \A m : m \in ToSet(U) <=> \E i \in DOMAIN U : m = U[i]
  BY DEF ToSet
<1>4. \A i \in DOMAIN U : U[i] \in MessageSet
  OBVIOUS
<1> QED
  BY <1>1, <1>2, <1>3, <1>4 DEF Load, f

\* The pieces of a conversation stay its pieces.
LEMMA PiecesAppend ==
  ASSUME NEW c \in Seq(Turns), NEW t \in Turns, NEW tools, PiecesOf(c, ToSet(FittingBy(c, tools)))
  PROVE  /\ PiecesOf(Append(c, t), ToSet(FittingBy(Append(c, t), tools)))
         /\ Append(c, t) \in Seq(Turns) /\ Len(Append(c, t)) = Len(c) + 1 /\ Len(c) \in Nat
         /\ Append(c, t)[Len(c) + 1] = t /\ \A i \in 1 .. Len(c) : Append(c, t)[i] = c[i]
<1> DEFINE u == Append(c, t)
           n == Len(c) + 1
<1>1. /\ u \in Seq(Turns) /\ Len(u) = Len(c) + 1 /\ Len(c) \in Nat /\ u[Len(c) + 1] = t
      /\ \A i \in 1 .. Len(c) : u[i] = c[i]
  OBVIOUS
<1>2. ToSet(FittingBy(u, tools)) = ToSet(FittingBy(c, tools)) \cup ToSet(FittingTurn(n, t, tools))
  BY FittingAppend DEF Adds
<1>3. \A a \in ToSet(FittingTurn(n, t, tools)) : a.turn = n /\ a.what # "placeholder"
  BY <1>1, TurnPieces
<1> HIDE DEF u
<1>4. n \in 1 .. Len(u) /\ \A i \in 1 .. Len(c) : i \in 1 .. Len(u)
  BY <1>1
<1>5. PiecesOf(u, ToSet(FittingBy(u, tools)))
  BY <1>2, <1>3, <1>4 DEF PiecesOf
<1> QED
  BY <1>1, <1>5 DEF u

\* The last message, with m merged in, has nothing that is older than what stands before it.
LEMMA OrderMerged ==
  ASSUME NEW U \in Seq(MessageSet), NEW m \in MessageSet, NEW P, NEW tools, InOrder(U, P, tools),
         \A i \in DOMAIN U : \A a \in ToSet(Cargo(U[i], tools)), b \in ToSet(Cargo(m, tools)) : a.turn <= b.turn
  PROVE  InOrder(Merged(U, m), <<>>, tools)
<1> DEFINE new == Merged(U, m)
           C(x) == ToSet(Cargo(x, tools))
<1>1. PICK k, base : MergesInto(U, m, new, k, base)
  BY MergedIs
<1> HIDE DEF new
<1>2. /\ new \in Seq(MessageSet) /\ Len(new) = k /\ k \in Nat \ {0} /\ base \in MessageSet /\ new[k] \in MessageSet
      /\ \A i \in 1 .. k - 1 : i \in DOMAIN U /\ new[i] = U[i]
  <2>1. \A s \in Seq(MessageSet) : Len(s) \in Nat \ {0} => s[Len(s)] \in MessageSet
    OBVIOUS
  <2> QED
    BY <1>1, <2>1 DEF MergesInto
<1>3. C(new[k]) = C(base) \cup C(m)
  <2>1. Adds(Cargo(new[k], tools), Cargo(base, tools), Cargo(m, tools))
    BY <1>1, <1>2, CargoAdds DEF MergesInto
  <2> QED
    BY <2>1 DEF Adds
<1>4. ASSUME NEW i \in DOMAIN U, i < k, NEW a \in C(U[i]), NEW b \in C(base) PROVE a.turn <= b.turn
  <2>1. CASE k = Len(U) /\ base = U[k]
    <3>1. k \in DOMAIN U
      BY <1>2, <2>1
    <3> QED
      BY <1>4, <2>1, <3>1 DEF InOrder
  <2>2. CASE base = Filler(m.role, <<>>)
    <3>1. C(base) = {}
      <4>1. Cargo(base, tools) = <<>>
        BY <2>2, MessageFields, EmptyFillerCargo
      <4> QED
        BY <4>1 DEF ToSet
    <3> QED
      BY <1>4, <3>1
  <2> QED
    BY <1>1, <2>1, <2>2 DEF MergesInto
<1>5. ASSUME NEW i \in DOMAIN new, NEW j \in DOMAIN new, i < j, NEW a \in C(new[i]), NEW b \in C(new[j])
      PROVE  a.turn <= b.turn
  <2>1. i \in 1 .. k - 1 /\ j \in 1 .. k /\ i < k
    BY <1>2, <1>5
  <2>2. new[i] = U[i] /\ i \in DOMAIN U
    BY <1>2, <2>1
  <2>3. CASE j = k
    <3>1. b \in C(base) \/ b \in C(m)
      BY <1>3, <1>5, <2>3
    <3>2. a \in C(U[i])
      BY <1>5, <2>2
    <3> HIDE DEF C
    <3>3. CASE b \in C(base)
      BY <1>4, <2>1, <2>2, <3>2, <3>3
    <3>4. CASE b \in C(m)
      BY <2>2, <3>2, <3>4 DEF C
    <3> QED
      BY <3>1, <3>3, <3>4
  <2>4. CASE j # k
    <3>1. j \in 1 .. k - 1
      BY <1>2, <2>1, <2>4
    <3>2. new[j] = U[j] /\ j \in DOMAIN U
      BY <1>2, <3>1
    <3> QED
      BY <1>5, <2>2, <3>2 DEF InOrder
  <2> QED
    BY <2>3, <2>4
<1>6. ToSet(Bag(<<>>)) = {}
  BY BagOfNothing DEF ToSet
<1> QED
  BY <1>5, <1>6 DEF InOrder, new
\* The books of no turn are balanced.
LEMMA BooksStart == ASSUME NEW tools PROVE Books(<<>>, <<>>, <<>>, <<>>, tools)
<1>1. /\ <<>> \in Seq(Turns) /\ <<>> \in Seq(MessageSet) /\ <<>> \in Seq(ResultSet) /\ <<>> \in Seq(AtomSet)
      /\ ToSet(<<>>) = {} /\ Len(<<>>) = 0
  BY DEF ToSet
<1>2. FittingBy(<<>>, tools) = <<>>
  BY FlattenEmpty DEF FittingBy
<1>3. Load(<<>>, tools) = <<>>
  BY SpreadEmpty DEF Load
<1>4. Balance(<<>>, <<>>, <<>>, <<>>)
  BY <1>1 DEF Balance
<1>5. InOrder(<<>>, <<>>, tools)
  BY DEF InOrder
<1> QED
  BY <1>1, <1>2, <1>3, <1>4, <1>5, BagOfNothing DEF Books, PiecesOf

\* What the books say of pieces.
LEMMA BooksPieces ==
  ASSUME NEW c, NEW U, NEW P, NEW S, NEW tools, Books(c, U, P, S, tools)
  PROVE  /\ c \in Seq(Turns) /\ U \in Seq(MessageSet) /\ P \in Seq(ResultSet) /\ S \in Seq(AtomSet)
         /\ FittingBy(c, tools) \in Seq(AtomSet) /\ Load(U, tools) \in Seq(AtomSet) /\ Bag(P) \in Seq(AtomSet)
         /\ \A i \in DOMAIN U : \A a \in ToSet(Cargo(U[i], tools)) :
               a \in ToSet(FittingBy(c, tools)) /\ a.turn \in 1 .. Len(c) /\ a.what # "placeholder"
         /\ \A a \in ToSet(Bag(P)) \cup ToSet(S) : a.turn \in 1 .. Len(c) /\ a.what # "placeholder"
<1>1. c \in Seq(Turns) /\ U \in Seq(MessageSet) /\ P \in Seq(ResultSet) /\ S \in Seq(AtomSet)
  BY DEF Books
<1>2. FittingBy(c, tools) \in Seq(AtomSet)
  <2>1. \E t : t \in Turns \/ c = <<>>
    BY <1>1
  <2>2. CASE c = <<>>
    <3>1. FittingBy(c, tools) = <<>>
      BY <2>2, FlattenEmpty DEF FittingBy
    <3> QED
      BY <3>1
  <2>3. CASE c # <<>>
    <3>1. c[1] \in Turns
      BY <1>1, <2>3
    <3> QED
      BY <1>1, <3>1, FittingAppend
  <2> QED
    BY <2>2, <2>3
<1>3. /\ Load(U, tools) \in Seq(AtomSet) /\ Bag(P) \in Seq(AtomSet)
      /\ \A a : a \in ToSet(Load(U, tools)) <=> \E i \in DOMAIN U : a \in ToSet(Cargo(U[i], tools))
  BY <1>1, LoadRange, BagIs
<1>4. ToSet(FittingBy(c, tools)) = (ToSet(Load(U, tools)) \cup ToSet(Bag(P))) \cup ToSet(S)
  BY DEF Books, Balance
<1>5. \A a \in ToSet(FittingBy(c, tools)) : a.turn \in 1 .. Len(c) /\ a.what # "placeholder"
  BY DEF Books, PiecesOf
<1> QED
  BY <1>1, <1>2, <1>3, <1>4, <1>5

\* A system turn is booked to the prompt,
LEMMA BooksSystem ==
  ASSUME NEW c, NEW U, NEW P, NEW S, NEW tools, Books(c, U, P, S, tools), NEW t \in Turns,
         t.role = "system", t.calls = <<>>, t.results = <<>>, ~t.image
  PROVE  Books(Append(c, t), U, P, S \o TextOf(Len(c) + 1, t), tools)
<1> DEFINE n == Len(c) + 1
           u == Append(c, t)
           x == TextOf(n, t)
           z == S \o x
<1>1. /\ c \in Seq(Turns) /\ U \in Seq(MessageSet) /\ P \in Seq(ResultSet) /\ S \in Seq(AtomSet)
      /\ FittingBy(c, tools) \in Seq(AtomSet) /\ Load(U, tools) \in Seq(AtomSet) /\ Bag(P) \in Seq(AtomSet)
      /\ Balance(FittingBy(c, tools), Load(U, tools), Bag(P), S) /\ PiecesOf(c, ToSet(FittingBy(c, tools)))
      /\ InOrder(U, P, tools)
  BY BooksPieces DEF Books
<1>2. /\ u \in Seq(Turns) /\ Len(u) = Len(c) + 1 /\ Len(c) \in Nat /\ u[n] = t
      /\ (\A i \in 1 .. Len(c) : u[i] = c[i]) /\ PiecesOf(u, ToSet(FittingBy(u, tools)))
  BY <1>1, PiecesAppend
<1>3. /\ FittingBy(u, tools) \in Seq(AtomSet) /\ Adds(FittingBy(u, tools), FittingBy(c, tools), FittingTurn(n, t, tools))
  BY <1>1, FittingAppend
<1>4. n \in Nat /\ n \in 1 .. Len(u) /\ \A i \in 1 .. Len(c) : i \in 1 .. Len(u)
  BY <1>2
<1>5. FittingTurn(n, t, tools) = x /\ x \in Seq(AtomSet)
  BY <1>4, SystemFitting, TextOfType
<1>6. z \in Seq(AtomSet) /\ Adds(z, S, x)
  BY <1>1, <1>5, ConcatAdds
<1>7. \A a \in ToSet(x) : a.turn = n
  BY <1>4, <1>5, TurnPieces
<1> HIDE DEF u, x, z, n
<1>8. Balance(FittingBy(u, tools), Load(U, tools), Bag(P), z)
  <2> DEFINE o == FittingBy(c, tools)
             p == FittingBy(u, tools)
             b == Bag(P)
             l == Load(U, tools)
  <2>1. Accounts(o, l, b, S, p, x, x, z) /\ Adds(p, o, x) /\ Adds(z, S, x)
    BY <1>1, <1>3, <1>5, <1>6 DEF Accounts
  <2> HIDE DEF o, p, b, l
  <2>2. Balance(p, l, b, z)
    BY <2>1, BalanceKept
  <2> QED
    BY <2>2 DEF p, l, b
<1>9. \A a \in ToSet(z) : a.turn \in 1 .. Len(u) /\ u[a.turn].role = "system"
  <2>1. ToSet(z) = ToSet(S) \cup ToSet(x)
    BY <1>6 DEF Adds
  <2>2. \A a \in ToSet(S) : a.turn \in 1 .. Len(c) /\ c[a.turn].role = "system"
    BY DEF Books
  <2> QED
    BY <1>2, <1>4, <1>7, <2>1, <2>2
<1> QED
  BY <1>1, <1>2, <1>6, <1>8, <1>9 DEF Books, u, x, z, n

\* a tool's turn to what waits,
LEMMA BooksTool ==
  ASSUME NEW c, NEW U, NEW P, NEW S, NEW tools, Books(c, U, P, S, tools), NEW t \in Turns,
         t.role = "tool", t.calls = <<>>, ~t.text, ~t.image
  PROVE  Books(Append(c, t), U, P \o ResultsOf(Len(c) + 1, t), S, tools)
<1> DEFINE n == Len(c) + 1
           u == Append(c, t)
           r == ResultsOf(n, t)
           q == P \o r
<1>1. /\ c \in Seq(Turns) /\ U \in Seq(MessageSet) /\ P \in Seq(ResultSet) /\ S \in Seq(AtomSet)
      /\ FittingBy(c, tools) \in Seq(AtomSet) /\ Load(U, tools) \in Seq(AtomSet) /\ Bag(P) \in Seq(AtomSet)
      /\ Balance(FittingBy(c, tools), Load(U, tools), Bag(P), S) /\ PiecesOf(c, ToSet(FittingBy(c, tools)))
      /\ InOrder(U, P, tools)
  BY BooksPieces DEF Books
<1>2. /\ u \in Seq(Turns) /\ Len(u) = Len(c) + 1 /\ Len(c) \in Nat /\ u[n] = t
      /\ (\A i \in 1 .. Len(c) : u[i] = c[i]) /\ PiecesOf(u, ToSet(FittingBy(u, tools)))
  BY <1>1, PiecesAppend
<1>3. /\ FittingBy(u, tools) \in Seq(AtomSet) /\ Adds(FittingBy(u, tools), FittingBy(c, tools), FittingTurn(n, t, tools))
  BY <1>1, FittingAppend
<1>4. n \in Nat /\ n \in 1 .. Len(u) /\ \A i \in 1 .. Len(c) : i \in 1 .. Len(u)
  BY <1>2
<1>5. FittingTurn(n, t, tools) = Bag(r) /\ r \in Seq(ResultSet)
  BY <1>4, ToolFitting, ResultsOfType
<1>6. q \in Seq(ResultSet) /\ Adds(Bag(q), Bag(P), Bag(r)) /\ Bag(q) \in Seq(AtomSet) /\ Bag(r) \in Seq(AtomSet)
  BY <1>1, <1>5, BagAdds, BagIs
<1>7. \A a \in ToSet(Bag(r)) : a.turn = n
  BY <1>4, <1>5, TurnPieces
<1>8. \A i \in DOMAIN U : \A a \in ToSet(Cargo(U[i], tools)) : a.turn \in 1 .. Len(c)
  BY BooksPieces
<1>9. \A a \in ToSet(S) : a.turn \in 1 .. Len(c) /\ c[a.turn].role = "system"
  BY DEF Books
<1> HIDE DEF u, r, q
<1>10. Balance(FittingBy(u, tools), Load(U, tools), Bag(q), S)
  <2> DEFINE o == FittingBy(c, tools)
             p == FittingBy(u, tools)
             b == Bag(P)
             l == Load(U, tools)
             k == Bag(q)
             x == Bag(r)
  <2>1. Accounts(o, l, b, S, p, x, x, k) /\ Adds(p, o, x) /\ Adds(k, b, x)
    BY <1>1, <1>3, <1>5, <1>6 DEF Accounts
  <2> HIDE DEF o, p, b, l, k, x
  <2>2. Balance(p, l, k, S)
    BY <2>1, BalanceKept
  <2> QED
    BY <2>2 DEF p, l, k
<1>11. InOrder(U, q, tools)
  <2>1. ToSet(Bag(q)) = ToSet(Bag(P)) \cup ToSet(Bag(r))
    BY <1>6 DEF Adds
  <2>2. \A k \in 1 .. Len(c) : k <= n
    BY <1>2
  <2> HIDE DEF n
  <2>3. \A i \in DOMAIN U : \A a \in ToSet(Cargo(U[i], tools)), b \in ToSet(Bag(q)) : a.turn <= b.turn
    BY <1>1, <1>7, <1>8, <2>1, <2>2 DEF InOrder
  <2> QED
    BY <1>1, <2>3 DEF InOrder
<1>12. \A a \in ToSet(S) : a.turn \in 1 .. Len(u) /\ u[a.turn].role = "system"
  BY <1>2, <1>4, <1>9
<1> QED
  BY <1>1, <1>2, <1>6, <1>10, <1>11, <1>12 DEF Books, u, r, q, n

\* The messages once the results that wait are a turn of their own.
Flushed(U, P) == IF P = <<>> THEN U ELSE Merged(U, ResultsTurn(P))

\* a flush moves what waits to the messages,
LEMMA BooksFlush ==
  ASSUME NEW c, NEW U, NEW P, NEW S, NEW tools, Books(c, U, P, S, tools)
  PROVE  Books(c, Flushed(U, P), <<>>, S, tools)
<1>1. CASE P = <<>>
  BY <1>1 DEF Flushed
<1>2. CASE P # <<>>
  <2> DEFINE m == ResultsTurn(P)
             z == Merged(U, m)
  <2>1. /\ c \in Seq(Turns) /\ U \in Seq(MessageSet) /\ P \in Seq(ResultSet) /\ S \in Seq(AtomSet)
        /\ FittingBy(c, tools) \in Seq(AtomSet) /\ Load(U, tools) \in Seq(AtomSet) /\ Bag(P) \in Seq(AtomSet)
        /\ Balance(FittingBy(c, tools), Load(U, tools), Bag(P), S) /\ PiecesOf(c, ToSet(FittingBy(c, tools)))
        /\ InOrder(U, P, tools)
    BY BooksPieces DEF Books
  <2>2. m \in MessageSet /\ Cargo(m, tools) = Bag(P)
    BY <2>1, ResultsTurnIs, ResultsTurnCargo
  <2>3. Flushed(U, P) = z
    BY <1>2 DEF Flushed
  <2> HIDE DEF m
  <2>4. Adds(Load(z, tools), Load(U, tools), Bag(P)) /\ Load(z, tools) \in Seq(AtomSet) /\ z \in Seq(MessageSet)
    BY <2>1, <2>2, LoadMerged, MergedType
  <2>5. InOrder(z, <<>>, tools)
    <3>1. \A i \in DOMAIN U : \A a \in ToSet(Cargo(U[i], tools)), b \in ToSet(Cargo(m, tools)) : a.turn <= b.turn
      BY <2>1, <2>2 DEF InOrder
    <3> QED
      BY <2>1, <2>2, <3>1, OrderMerged
  <2> HIDE DEF z
  <2>6. Balance(FittingBy(c, tools), Load(z, tools), Bag(<<>>), S)
    <3> DEFINE o == FittingBy(c, tools)
               b == Bag(P)
               l == Load(U, tools)
               k == Load(z, tools)
    <3>1. Accounts(o, l, b, S, o, o, o, k) /\ Adds(k, l, b)
      BY <2>1, <2>4 DEF Accounts
    <3> HIDE DEF o, b, l, k
    <3>2. Balance(o, k, <<>>, S)
      BY <3>1, BalanceKept
    <3> QED
      BY <3>2, BagOfNothing DEF o, k
  <2>7. <<>> \in Seq(ResultSet)
    OBVIOUS
  <2> QED
    BY <2>1, <2>3, <2>4, <2>5, <2>6, <2>7 DEF Books
<1> QED
  BY <1>1, <1>2

\* and so does a turn that is said, with its own pieces.
LEMMA BooksSays ==
  ASSUME NEW c, NEW U, NEW P, NEW S, NEW tools, Books(c, U, P, S, tools), NEW t \in Turns,
         NEW m, Says(m, Len(c) + 1, t, P)
  PROVE  Books(Append(c, t), Merged(U, m), <<>>, S, tools)
<1> DEFINE n == Len(c) + 1
           u == Append(c, t)
           x == FittingTurn(n, t, tools)
           y == Cargo(m, tools)
           z == Merged(U, m)
<1>1. /\ c \in Seq(Turns) /\ U \in Seq(MessageSet) /\ P \in Seq(ResultSet) /\ S \in Seq(AtomSet)
      /\ FittingBy(c, tools) \in Seq(AtomSet) /\ Load(U, tools) \in Seq(AtomSet) /\ Bag(P) \in Seq(AtomSet)
      /\ Balance(FittingBy(c, tools), Load(U, tools), Bag(P), S) /\ PiecesOf(c, ToSet(FittingBy(c, tools)))
      /\ InOrder(U, P, tools)
  BY BooksPieces DEF Books
<1>2. /\ u \in Seq(Turns) /\ Len(u) = Len(c) + 1 /\ Len(c) \in Nat /\ u[n] = t
      /\ (\A i \in 1 .. Len(c) : u[i] = c[i]) /\ PiecesOf(u, ToSet(FittingBy(u, tools)))
  BY <1>1, PiecesAppend
<1>3. /\ FittingBy(u, tools) \in Seq(AtomSet) /\ Adds(FittingBy(u, tools), FittingBy(c, tools), x)
  BY <1>1, FittingAppend
<1>4. n \in Nat /\ n \in 1 .. Len(u) /\ \A i \in 1 .. Len(c) : i \in 1 .. Len(u)
  BY <1>2
<1>5. x \in Seq(AtomSet) /\ m \in MessageSet /\ y \in Seq(AtomSet) /\ Adds(y, Bag(P), x)
  <2>1. x \in Seq(AtomSet)
    BY <1>4, FittingTurnIs, MessageIs, CargoType
  <2>2. Adds(y, Bag(P), x) /\ m \in MessageSet
    BY <1>1, <1>4, SaysCargo DEF Says
  <2> QED
    BY <2>1, <2>2, CargoType
<1>6. \A a \in ToSet(x) : a.turn = n
  BY <1>4, TurnPieces
<1>7. \A i \in DOMAIN U : \A a \in ToSet(Cargo(U[i], tools)) : a.turn \in 1 .. Len(c)
  BY BooksPieces
<1>8. \A a \in ToSet(S) : a.turn \in 1 .. Len(c) /\ c[a.turn].role = "system"
  BY DEF Books
<1>9. Adds(Load(z, tools), Load(U, tools), y) /\ Load(z, tools) \in Seq(AtomSet) /\ z \in Seq(MessageSet)
  BY <1>1, <1>5, LoadMerged, MergedType
<1>10. InOrder(z, <<>>, tools)
  <2>1. ToSet(y) = ToSet(Bag(P)) \cup ToSet(x)
    BY <1>5 DEF Adds
  <2>2. \A k \in 1 .. Len(c) : k <= n
    BY <1>2
  <2> HIDE DEF n, y, x, z
  <2>3. \A i \in DOMAIN U : \A a \in ToSet(Cargo(U[i], tools)), b \in ToSet(y) : a.turn <= b.turn
    BY <1>1, <1>6, <1>7, <2>1, <2>2 DEF InOrder
  <2> QED
    BY <1>1, <1>5, <2>3, OrderMerged DEF y, z
<1> HIDE DEF u, x, y, z, n
<1>11. Balance(FittingBy(u, tools), Load(z, tools), Bag(<<>>), S)
  <2> DEFINE o == FittingBy(c, tools)
             p == FittingBy(u, tools)
             b == Bag(P)
             l == Load(U, tools)
             k == Load(z, tools)
  <2>1. Accounts(o, l, b, S, p, x, y, k) /\ Adds(p, o, x) /\ Adds(k, l, y) /\ Adds(y, b, x)
    BY <1>1, <1>3, <1>5, <1>9 DEF Accounts
  <2> HIDE DEF o, p, b, l, k
  <2>2. Balance(p, k, <<>>, S)
    BY <2>1, BalanceKept
  <2> QED
    BY <2>2, BagOfNothing DEF p, k
<1>12. \A a \in ToSet(S) : a.turn \in 1 .. Len(u) /\ u[a.turn].role = "system"
  BY <1>2, <1>4, <1>8
<1>13. <<>> \in Seq(ResultSet)
  OBVIOUS
<1> QED
  BY <1>1, <1>2, <1>9, <1>10, <1>11, <1>12, <1>13 DEF Books, u, z, n
-----------------------------------------------------------------------------
(* How a turn more changes the merged messages U, the results P that wait   *)
(* and the system prompt S, on either surface.                              *)

Silent(t) ==
    t.calls = <<>> /\ ~t.image
    /\ (t.role = "system" => t.results = <<>>) /\ (t.role = "tool" => ~t.text /\ t.results # <<>>)
Entered(n, t, U, P, S, U2, P2, S2) ==
    \/ t.role = "system" /\ Silent(t) /\ U2 = U /\ P2 = P /\ S2 = S \o TextOf(n, t)
    \/ t.role = "tool" /\ Silent(t) /\ U2 = U /\ P2 = P \o ResultsOf(n, t) /\ S2 = S
    \/ /\ t.role = "assistant" /\ P2 = <<>> /\ S2 = S
       /\ \E m : Says(m, n, t, <<>>) /\ U2 = Merged(Flushed(U, P), m)
    \/ /\ t.role = "user" /\ P2 = <<>> /\ S2 = S
       /\ \E m : Says(m, n, t, P) /\ U2 = Merged(U, m)

\* Whichever way a turn is entered, the books stay balanced.
LEMMA BooksEntered ==
  ASSUME NEW c, NEW U, NEW P, NEW S, NEW tools, Books(c, U, P, S, tools), NEW t \in Turns,
         NEW U2, NEW P2, NEW S2, Entered(Len(c) + 1, t, U, P, S, U2, P2, S2)
  PROVE  Books(Append(c, t), U2, P2, S2, tools)
<1> DEFINE n == Len(c) + 1
<1>1. CASE t.role = "system" /\ Silent(t) /\ U2 = U /\ P2 = P /\ S2 = S \o TextOf(n, t)
  BY <1>1, BooksSystem DEF Silent
<1>2. CASE t.role = "tool" /\ Silent(t) /\ U2 = U /\ P2 = P \o ResultsOf(n, t) /\ S2 = S
  BY <1>2, BooksTool DEF Silent
<1>3. CASE t.role = "assistant" /\ P2 = <<>> /\ S2 = S
           /\ \E m : Says(m, n, t, <<>>) /\ U2 = Merged(Flushed(U, P), m)
  <2>1. PICK m : Says(m, n, t, <<>>) /\ U2 = Merged(Flushed(U, P), m)
    BY <1>3
  <2>2. Books(c, Flushed(U, P), <<>>, S, tools)
    BY BooksFlush
  <2> DEFINE F == Flushed(U, P)
  <2> HIDE DEF F
  <2>3. Books(Append(c, t), Merged(F, m), <<>>, S, tools)
    BY <2>1, <2>2, BooksSays DEF F
  <2> QED
    BY <1>3, <2>1, <2>3 DEF F
<1>4. CASE t.role = "user" /\ P2 = <<>> /\ S2 = S /\ \E m : Says(m, n, t, P) /\ U2 = Merged(U, m)
  BY <1>4, BooksSays
<1> QED
  BY <1>1, <1>2, <1>3, <1>4, Zenon DEF Entered

\* Both sides of a message and of its turn.
LEMMA MessageSays ==
  ASSUME NEW n \in Nat, NEW t \in Turns
  PROVE  Says(Message(n, t), n, t, <<>>)
<1> DEFINE m == Message(n, t)
           r == ResultsOf(n, t)
<1>1. /\ m \in MessageSet /\ m.role = Side(t) /\ m.content = TextOf(n, t) /\ m.calls = CallsOf(n, t)
      /\ m.results = r /\ m.images = Picture(n, "own", t.image)
  BY MessageIs DEF Side
<1>2. r \in Seq(ResultSet)
  BY ResultsOfType
<1> HIDE DEF m, r
<1>3. <<>> \o r = r
  BY <1>2
<1>4. Says(m, n, t, <<>>)
  BY <1>1, <1>3 DEF Says, r
<1> QED
  BY <1>4 DEF m

\* A user's turn says itself and what waited.
LEMMA UserTurnSays ==
  ASSUME NEW n \in Nat, NEW t \in Turns, t.role = "user", t.results = <<>>, NEW P \in Seq(ResultSet)
  PROVE  Says(UserTurn(n, t, P), n, t, P)
<1> DEFINE m == UserTurn(n, t, P)
<1>1. /\ m \in MessageSet /\ m.role = "user" /\ m.content = TextOf(n, t) /\ m.calls = CallsOf(n, t)
      /\ m.results = P /\ m.images = Picture(n, "own", t.image)
  BY UserTurnIs
<1>2. ResultsOf(n, t) = <<>>
  BY DEF ResultsOf
<1>3. P \o <<>> = P
  OBVIOUS
<1> HIDE DEF m
<1>4. Says(m, n, t, P)
  BY <1>1, <1>2, <1>3 DEF Says, Side
<1> QED
  BY <1>4 DEF m

MergedOf(c) == MergeAdjacent(Taken(c).messages)

\* convertOpenAIMessages enters each turn in one of these ways.
LEMMA OpenAIEntered ==
  ASSUME NEW c \in Seq(OpenAITurns), NEW t \in OpenAITurns
  PROVE  /\ c \in Seq(Turns) /\ t \in Turns
         /\ Entered(Len(c) + 1, t, MergedOf(c), Taken(c).pending, Taken(c).system,
                    MergedOf(Append(c, t)), Taken(Append(c, t)).pending, Taken(Append(c, t)).system)
<1> DEFINE n == Len(c) + 1
           acc == Taken(c)
           new == Taken(Append(c, t))
           M == acc.messages
           P == acc.pending
           S == acc.system
<1>1. c \in Seq(Turns) /\ t \in Turns /\ n \in Nat
  BY TurnsAssumption
<1>2. /\ t.role # "assistant" => t.calls = <<>>
      /\ t.role # "tool" => t.results = <<>>
      /\ t.role = "tool" => ~t.text /\ Len(t.results) = 1
      /\ t.role \in {"system", "tool"} => ~t.image
  BY TurnsAssumption
<1>3. acc \in AccSet /\ new = TakeTurn(acc, n, t)
  BY <1>1, TakeAppend
<1> HIDE DEF acc, new
<1>4. M \in Seq(MessageSet) /\ P \in Seq(ResultSet) /\ S \in Seq(AtomSet)
  BY <1>3, AccFields
<1> HIDE DEF n
<1>5. CASE t.role = "system"
  <2>1. new.messages = M /\ new.pending = P /\ new.system = S \o TextOf(n, t)
    <3>1. new = [messages |-> M, pending |-> P, system |-> S \o TextOf(n, t)]
      BY <1>1, <1>3, <1>5, TakeTurnIs, Zenon
    <3> QED
      BY <3>1
  <2>2. Silent(t)
    BY <1>2, <1>5 DEF Silent
  <2> QED
    BY <1>1, <1>5, <2>1, <2>2 DEF Entered, MergedOf, acc, new, n
<1>6. CASE t.role = "tool"
  <2>1. new.messages = M /\ new.pending = P \o ResultsOf(n, t) /\ new.system = S
    <3>1. new = [messages |-> M, pending |-> P \o ResultsOf(n, t), system |-> S]
      BY <1>1, <1>3, <1>6, TakeTurnIs, Zenon
    <3> QED
      BY <3>1
  <2>2. Silent(t)
    <3>1. t.results # <<>>
      <4>1. Len(t.results) = 1 /\ 0 # 1
        BY <1>2, <1>6
      <4>2. Len(<<>>) = 0
        OBVIOUS
      <4> QED
        BY <4>1, <4>2
    <3>2. t.calls = <<>> /\ ~t.image /\ ~t.text
      BY <1>2, <1>6
    <3> QED
      BY <1>6, <3>1, <3>2 DEF Silent
  <2> QED
    BY <1>1, <1>6, <2>1, <2>2 DEF Entered, MergedOf, acc, new, n
<1>7. CASE t.role = "assistant"
  <2> DEFINE m == Message(n, t)
             F == FlushPending(acc).messages
  <2>1. new.messages = Append(F, m) /\ new.pending = <<>> /\ new.system = S
    <3>1. new = [messages |-> Append(F, m), pending |-> <<>>, system |-> S]
      BY <1>1, <1>3, <1>7, TakeTurnIs, Zenon
    <3> QED
      BY <3>1
  <2>2. m \in MessageSet /\ Says(m, n, t, <<>>)
    BY <1>1, MessageIs, MessageSays
  <2>3. F = IF P = <<>> THEN M ELSE Append(M, ResultsTurn(P))
    <3>1. FlushPending(acc) = [messages |-> IF P = <<>> THEN M ELSE Append(M, ResultsTurn(P)),
                               pending |-> <<>>, system |-> S]
      BY <1>3, FlushIs, Zenon
    <3> QED
      BY <3>1
  <2>4. ResultsTurn(P) \in MessageSet
    BY <1>4, ResultsTurnIs
  <2>5. F \in Seq(MessageSet) /\ MergeAdjacent(F) = Flushed(MergeAdjacent(M), P)
    BY <1>4, <2>3, <2>4, MergeAppend DEF Flushed
  <2> HIDE DEF m, F
  <2>6. MergeAdjacent(Append(F, m)) = Merged(MergeAdjacent(F), m)
    BY <2>2, <2>5, MergeAppend
  <2>7. MergedOf(Append(c, t)) = Merged(Flushed(MergedOf(c), P), m)
    BY <2>1, <2>5, <2>6 DEF MergedOf, acc, new
  <2> QED
    BY <1>1, <1>7, <2>1, <2>2, <2>7 DEF Entered, acc, new, n
<1>8. CASE t.role = "user"
  <2> DEFINE m == UserTurn(n, t, P)
  <2>1. new.messages = Append(M, m) /\ new.pending = <<>> /\ new.system = S
    BY <1>1, <1>3, <1>8, TakeTurnIs
  <2>2. m \in MessageSet /\ Says(m, n, t, P)
    BY <1>1, <1>2, <1>4, <1>8, UserTurnIs, UserTurnSays
  <2> HIDE DEF m
  <2>3. MergeAdjacent(Append(M, m)) = Merged(MergeAdjacent(M), m)
    BY <1>4, <2>2, MergeAppend
  <2>4. MergedOf(Append(c, t)) = Merged(MergedOf(c), m)
    BY <2>1, <2>3 DEF MergedOf, acc, new
  <2> QED
    BY <1>1, <1>8, <2>1, <2>2, <2>4 DEF Entered, acc, new, n
<1> QED
  BY <1>1, <1>5, <1>6, <1>7, <1>8, TurnFields

\* The messages that FromAnthropic makes.
Messages(c) == [n \in DOMAIN c |-> Message(n, c[n])]

\* So does the Anthropic conversion, where nothing waits.
LEMMA AnthropicEntered ==
  ASSUME NEW c \in Seq(AnthropicTurns), NEW t \in AnthropicTurns
  PROVE  /\ c \in Seq(Turns) /\ t \in Turns
         /\ Entered(Len(c) + 1, t, MergeAdjacent(Messages(c)), <<>>, <<>>,
                    MergeAdjacent(Messages(Append(c, t))), <<>>, <<>>)
<1> DEFINE n == Len(c) + 1
           u == Append(c, t)
           m == Message(n, t)
           A == Messages(c)
           B == Messages(u)
<1>1. c \in Seq(Turns) /\ t \in Turns /\ n \in Nat /\ t.role \in {"user", "assistant"}
  BY TurnsAssumption
<1>2. /\ u \in Seq(Turns) /\ Len(u) = Len(c) + 1 /\ Len(c) \in Nat /\ u[Len(c) + 1] = t
      /\ DOMAIN u = 1 .. Len(c) + 1 /\ DOMAIN c = 1 .. Len(c)
      /\ \A i \in 1 .. Len(c) : u[i] = c[i] /\ c[i] \in Turns
  BY <1>1
<1>3. m \in MessageSet /\ Says(m, n, t, <<>>)
  BY <1>1, MessageIs, MessageSays
<1>4. A \in Seq(MessageSet) /\ Len(A) = Len(c) /\ \A i \in 1 .. Len(c) : A[i] = Message(i, c[i])
  <2>1. \A i \in 1 .. Len(c) : Message(i, c[i]) \in MessageSet
    BY <1>2, MessageIs
  <2> QED
    BY <1>2, <2>1 DEF Messages
<1> HIDE DEF u
<1>5. B \in Seq(MessageSet) /\ Len(B) = Len(c) + 1 /\ \A i \in 1 .. Len(c) + 1 : B[i] = Message(i, u[i])
  <2>1. \A i \in 1 .. Len(c) + 1 : u[i] \in Turns /\ i \in Nat
    BY <1>2
  <2>2. \A i \in 1 .. Len(c) + 1 : Message(i, u[i]) \in MessageSet
    BY <2>1, MessageIs
  <2> QED
    BY <1>2, <2>2 DEF Messages
<1> HIDE DEF m, A, B
<1>6. B = Append(A, m)
  <2> DEFINE v == Append(A, m)
  <2>1. v \in Seq(MessageSet) /\ Len(v) = Len(c) + 1 /\ v[Len(c) + 1] = m /\ \A i \in 1 .. Len(c) : v[i] = A[i]
    BY <1>2, <1>3, <1>4
  <2> HIDE DEF v
  <2>2. \A i \in 1 .. Len(c) + 1 : B[i] = v[i]
    <3>1. \A i \in 1 .. Len(c) + 1 : i = Len(c) + 1 \/ i \in 1 .. Len(c)
      BY <1>2
    <3> QED
      BY <1>2, <1>4, <1>5, <2>1, <3>1 DEF m
  <2>3. B = v
    BY <1>5, <2>1, <2>2, SeqEqual
  <2> QED
    BY <2>3 DEF v
<1>7. MergeAdjacent(B) = Merged(MergeAdjacent(A), m)
  BY <1>3, <1>4, <1>6, MergeAppend
<1>8. Flushed(MergeAdjacent(A), <<>>) = MergeAdjacent(A)
  BY DEF Flushed
<1> QED
  BY <1>1, <1>3, <1>7, <1>8 DEF Entered, A, B, u
-----------------------------------------------------------------------------
(* Which calls a turn can answer: the client's view, and the merged one.    *)

Calling(c, n, id) ==
    \E a \in 1 .. n - 1 :
       /\ c[a].role = "assistant" /\ id \in ToSet(c[a].calls)
       /\ ~\E j, k \in a + 1 .. n - 1 :
             j < k /\ c[k].role = "assistant" /\ c[j].role \in {"user", "tool"}

\* The call is the assistant's, and nobody has spoken since.
Fresh(c, id) ==
    \E a \in 1 .. Len(c) :
       /\ c[a].role = "assistant" /\ id \in ToSet(c[a].calls)
       /\ \A j \in a + 1 .. Len(c) : c[j].role \notin {"user", "tool"}

\* How one turn more moves the calls that results may answer.
LEMMA CallingAppend ==
  ASSUME NEW c \in Seq(Turns), NEW t \in Turns, NEW id
  PROVE  LET u == Append(c, t)
             n == Len(c) + 1
         IN  /\ \A k \in 1 .. n : Calling(u, k, id) <=> Calling(c, k, id)
             /\ t.role = "system" => /\ Calling(u, n + 1, id) <=> Calling(c, n, id)
                                     /\ Fresh(u, id) <=> Fresh(c, id)
             /\ t.role \in {"user", "tool"} => /\ Calling(u, n + 1, id) <=> Calling(c, n, id)
                                               /\ ~Fresh(u, id)
             /\ t.role = "assistant" =>
                   /\ Calling(u, n + 1, id) <=> id \in ToSet(t.calls) \/ Fresh(c, id)
                   /\ Fresh(u, id) <=> id \in ToSet(t.calls) \/ Fresh(c, id)
<1> DEFINE u == Append(c, t)
           n == Len(c) + 1
           Asks(a) == u[a].role = "assistant" /\ id \in ToSet(u[a].calls)
           Speaks(j) == u[j].role \in {"user", "tool"}
           Over(a, m) == \E j, k \in a + 1 .. m : j < k /\ u[k].role = "assistant" /\ Speaks(j)
<1>1. /\ Len(u) = n /\ n \in Nat \ {0} /\ u[n] = t /\ Len(c) = n - 1
      /\ \A i \in 1 .. n - 1 : u[i] = c[i]
  OBVIOUS
<1> HIDE DEF u, n
<1>2. \A m \in 1 .. n + 1 : Calling(u, m, id) <=> \E a \in 1 .. m - 1 : Asks(a) /\ ~Over(a, m - 1)
  BY DEF Calling
<1>3. \A m \in 1 .. n : Calling(c, m, id) <=> \E a \in 1 .. m - 1 : Asks(a) /\ ~Over(a, m - 1)
  <2>1. ASSUME NEW m \in 1 .. n
        PROVE  Calling(c, m, id) <=> \E a \in 1 .. m - 1 : Asks(a) /\ ~Over(a, m - 1)
    <3>1. \A i \in 1 .. m - 1 : u[i] = c[i]
      BY <1>1
    <3>2. \A a \in 1 .. m - 1 : \A j \in a + 1 .. m - 1 : j \in 1 .. m - 1
      BY <1>1
    <3> QED
      BY <3>1, <3>2 DEF Calling
  <2> QED
    BY <2>1
<1>4. Fresh(u, id) <=> \E a \in 1 .. n : Asks(a) /\ \A j \in a + 1 .. n : ~Speaks(j)
  BY <1>1 DEF Fresh
<1>5. Fresh(c, id) <=> \E a \in 1 .. n - 1 : Asks(a) /\ \A j \in a + 1 .. n - 1 : ~Speaks(j)
  <2>1. \A a \in 1 .. n - 1 : \A j \in a + 1 .. n - 1 : j \in 1 .. n - 1
    BY <1>1
  <2> QED
    BY <1>1, <2>1, SMTT(30) DEF Fresh
<1>6. \A k \in 1 .. n : Calling(u, k, id) <=> Calling(c, k, id)
  <2>1. \A k \in 1 .. n : k \in 1 .. n + 1
    BY <1>1
  <2> QED
    BY <1>2, <1>3, <2>1
<1>7. /\ Calling(u, n + 1, id) <=> \E a \in 1 .. n : Asks(a) /\ ~Over(a, n)
      /\ Calling(c, n, id) <=> \E a \in 1 .. n - 1 : Asks(a) /\ ~Over(a, n - 1)
  <2>1. n + 1 \in 1 .. n + 1 /\ n \in 1 .. n /\ (n + 1) - 1 = n
    BY <1>1
  <2> QED
    BY <1>2, <1>3, <2>1
<1>8. /\ \A a \in 1 .. n : a = n \/ a \in 1 .. n - 1
      /\ \A a \in 1 .. n - 1 : a \in 1 .. n
      /\ n \in 1 .. n /\ ~(n \in 1 .. n - 1)
  BY <1>1
<1>9. /\ \A a \in 1 .. n - 1 : \A j \in a + 1 .. n : j = n \/ j \in a + 1 .. n - 1
      /\ \A a \in 1 .. n - 1 : \A j \in a + 1 .. n - 1 : j \in a + 1 .. n /\ j < n
      /\ \A a \in 1 .. n - 1 : n \in a + 1 .. n
      /\ \A j \in n + 1 .. n : FALSE
  BY <1>1
<1>10. CASE t.role # "assistant"
  <2>1. ~Asks(n)
    BY <1>1, <1>10
  <2>2. ASSUME NEW a \in 1 .. n - 1 PROVE Over(a, n) <=> Over(a, n - 1)
    BY <1>1, <1>9, <1>10
  <2> HIDE DEF Asks, Over
  <2>3. Calling(u, n + 1, id) <=> Calling(c, n, id)
    BY <1>7, <1>8, <2>1, <2>2
  <2>4. CASE t.role = "system"
    <3>1. ~Speaks(n)
      BY <1>1, <2>4
    <3> HIDE DEF Speaks
    <3>2. \A a \in 1 .. n - 1 : (\A j \in a + 1 .. n : ~Speaks(j)) <=> (\A j \in a + 1 .. n - 1 : ~Speaks(j))
      BY <1>9, <3>1
    <3>3. Fresh(u, id) <=> Fresh(c, id)
      BY <1>4, <1>5, <1>8, <2>1, <3>2
    <3> QED
      BY <1>6, <2>3, <2>4, <3>3 DEF u, n
  <2>5. CASE t.role \in {"user", "tool"}
    <3>1. Speaks(n)
      BY <1>1, <2>5
    <3> HIDE DEF Speaks
    <3>2. ~Fresh(u, id)
      BY <1>4, <1>8, <1>9, <2>1, <3>1
    <3> QED
      BY <1>6, <2>3, <2>5, <3>2 DEF u, n
  <2> QED
    BY <1>6, <1>10, <2>4, <2>5, TurnFields DEF u, n
<1>11. CASE t.role = "assistant"
  <2>1. Asks(n) <=> id \in ToSet(t.calls)
    BY <1>1, <1>11
  <2>2. ~Speaks(n)
    BY <1>1, <1>11
  <2>3. ASSUME NEW a \in 1 .. n - 1
        PROVE  (\A j \in a + 1 .. n - 1 : ~Speaks(j)) <=> ~Over(a, n)
    <3> USE DEF Over
    <3> HIDE DEF Speaks
    <3>1. ASSUME \A j \in a + 1 .. n - 1 : ~Speaks(j) PROVE ~Over(a, n)
      BY <1>9, <2>2, <3>1
    <3>2. ASSUME ~Over(a, n), NEW j \in a + 1 .. n - 1 PROVE ~Speaks(j)
      BY <1>1, <1>9, <1>11, <3>2
    <3> QED
      BY <3>1, <3>2
  <2>4. ~Over(n, n)
    BY <1>9
  <2> HIDE DEF Asks, Over
  <2>5. \A a \in 1 .. n - 1 : (\A j \in a + 1 .. n : ~Speaks(j)) <=> (\A j \in a + 1 .. n - 1 : ~Speaks(j))
    <3> HIDE DEF Speaks
    <3> QED
      BY <1>9, <2>2
  <2> HIDE DEF Speaks
  <2>6. Calling(u, n + 1, id) <=> id \in ToSet(t.calls) \/ Fresh(c, id)
    BY <1>5, <1>7, <1>8, <2>1, <2>3, <2>4
  <2>7. Fresh(u, id) <=> id \in ToSet(t.calls) \/ Fresh(c, id)
    BY <1>4, <1>5, <1>8, <1>9, <2>1, <2>5
  <2> QED
    BY <1>6, <1>11, <2>6, <2>7 DEF u, n
<1> QED
  BY <1>10, <1>11
\* The ids of the calls that a message with results of the user's at i answers, and
\* those that a result to come answers; those of an assistant that still has the word.
IdsOf(calls)      == {x.id : x \in ToSet(calls)}
CallsBefore(U, i) == IF i > 1 /\ U[i - 1].role = "assistant" THEN IdsOf(U[i - 1].calls) ELSE {}
Called(U) ==
    IF U = <<>> THEN {}
    ELSE IF U[Len(U)].role = "assistant" THEN IdsOf(U[Len(U)].calls) ELSE CallsBefore(U, Len(U))
Just(U, P) ==
    IF P = <<>> /\ U # <<>> /\ U[Len(U)].role = "assistant" THEN IdsOf(U[Len(U)].calls) ELSE {}

\* The identifiers of two sequences of calls are those of both.
LEMMA IdsOfAppend ==
  ASSUME NEW r \in Seq(AtomSet), NEW s \in Seq(AtomSet)
  PROVE  IdsOf(r \o s) = IdsOf(r) \cup IdsOf(s)
BY JoinedRange DEF IdsOf

\* The identifiers of a turn's calls are the turn's.
LEMMA IdsOfCalls ==
  ASSUME NEW n \in Nat, NEW t \in Turns
  PROVE  IdsOf(CallsOf(n, t)) = ToSet(t.calls)
<1> DEFINE k == t.calls
           s == CallsOf(n, t)
<1>1. DOMAIN s = DOMAIN k /\ \A i \in DOMAIN k : s[i] = Atom("call", n, k[i])
  BY CallsOfType
<1>2. \A x : Atom("call", n, x).id = x
  BY DEF Atom
<1> HIDE DEF k, s
<1>3. \A i \in DOMAIN k : s[i].id = k[i]
  BY <1>1, <1>2
<1>4. ToSet(s) = {s[i] : i \in DOMAIN k} /\ ToSet(k) = {k[i] : i \in DOMAIN k}
  BY <1>1 DEF ToSet
<1>5. {x.id : x \in ToSet(s)} = ToSet(k)
  BY <1>3, <1>4
<1> QED
  BY <1>5 DEF IdsOf, s, k

\* No calls, no identifiers.
LEMMA NoIds == IdsOf(<<>>) = {} /\ ToSet(<<>>) = {}
BY DEF IdsOf, ToSet

\* How merging m changes which calls can be answered.
LEMMA MergedCalls ==
  ASSUME NEW U \in Seq(MessageSet), NEW m \in MessageSet, NEW new, NEW k, NEW base,
         MergesInto(U, m, new, k, base), Alternating(U)
  PROVE  /\ \A i \in 1 .. k : CallsBefore(new, i) = CallsBefore(U, i)
         /\ m.role = "user" => /\ CallsBefore(U, k) = Called(U) /\ Called(new) = Called(U)
                               /\ Just(new, <<>>) = {}
         /\ m.role = "assistant" => /\ Called(new) = Just(U, <<>>) \cup IdsOf(m.calls)
                                    /\ Just(new, <<>>) = Just(U, <<>>) \cup IdsOf(m.calls)
<1>1. /\ new \in Seq(MessageSet) /\ Len(new) = k /\ k \in Nat \ {0} /\ base \in MessageSet
      /\ (\A i \in 1 .. k - 1 : i \in DOMAIN U /\ new[i] = U[i]) /\ new[k].role = m.role
      /\ base.role = m.role /\ new[k].calls = base.calls \o m.calls
  BY DEF MergesInto
<1>2. new # <<>> /\ Len(U) \in Nat /\ (U = <<>> <=> Len(U) = 0)
  BY <1>1
<1>3. ASSUME NEW i \in 1 .. k PROVE CallsBefore(new, i) = CallsBefore(U, i)
  <2>1. i > 1 => i - 1 \in 1 .. k - 1
    BY <1>1
  <2> QED
    BY <1>1, <2>1 DEF CallsBefore
<1>4. k \in 1 .. k
  BY <1>1
<1>5. ASSUME m.role = "user"
      PROVE  CallsBefore(U, k) = Called(U) /\ Called(new) = Called(U) /\ Just(new, <<>>) = {}
  <2>1. CallsBefore(U, k) = Called(U)
    <3>1. CASE k = Len(U) /\ base = U[k]
      BY <1>1, <1>2, <1>5, <3>1 DEF Called
    <3>2. CASE k = Len(U) + 1 /\ (k > 1 => U[k - 1].role # m.role)
      <4>1. CASE k = 1
        BY <1>2, <3>2, <4>1 DEF Called, CallsBefore
      <4>2. CASE k # 1
        <5>1. k > 1 /\ k - 1 = Len(U) /\ U # <<>> /\ U[Len(U)] \in MessageSet
          BY <1>1, <1>2, <3>2, <4>2
        <5>2. U[Len(U)].role = "assistant"
          BY <1>5, <3>2, <5>1, MessageFields DEF Roles
        <5> QED
          BY <5>1, <5>2 DEF Called, CallsBefore
      <4> QED
        BY <4>1, <4>2
    <3> QED
      BY <3>1, <3>2 DEF MergesInto
  <2>2. Called(new) = CallsBefore(new, k)
    BY <1>1, <1>2, <1>5 DEF Called
  <2>3. Just(new, <<>>) = {}
    BY <1>1, <1>5 DEF Just
  <2> QED
    BY <1>3, <1>4, <2>1, <2>2, <2>3
<1>6. ASSUME m.role = "assistant"
      PROVE  /\ Called(new) = Just(U, <<>>) \cup IdsOf(m.calls)
             /\ Just(new, <<>>) = Just(U, <<>>) \cup IdsOf(m.calls)
  <2>1. IdsOf(new[k].calls) = IdsOf(base.calls) \cup IdsOf(m.calls)
    BY <1>1, MessageFields, IdsOfAppend
  <2>2. IdsOf(base.calls) = Just(U, <<>>)
    <3>1. CASE k = Len(U) /\ base = U[k]
      BY <1>1, <1>2, <1>6, <3>1 DEF Just
    <3>2. CASE k = Len(U) + 1 /\ base = Filler(m.role, <<>>) /\ (k > 1 => U[k - 1].role # m.role)
      <4>1. base.calls = <<>>
        BY <3>2, MessageFields, EmptyFiller
      <4>2. U # <<>> => k > 1 /\ k - 1 = Len(U)
        BY <1>2, <3>2
      <4>3. Just(U, <<>>) = {}
        BY <1>6, <3>2, <4>2 DEF Just
      <4> QED
        BY <4>1, <4>3, NoIds
    <3> QED
      BY <3>1, <3>2 DEF MergesInto
  <2>3. Called(new) = IdsOf(new[k].calls) /\ Just(new, <<>>) = IdsOf(new[k].calls)
    BY <1>1, <1>2, <1>6 DEF Called, Just
  <2> QED
    BY <2>1, <2>2, <2>3
<1> QED
  BY <1>3, <1>5, <1>6

\* r is a result of a turn of that side, and answers one of those calls if its turn does.
ResultOf(c, r, role, calls) ==
    /\ r.atom.turn \in 1 .. Len(c) /\ Side(c[r.atom.turn]) = role
    /\ role = "user" => (r.atom.id \in calls <=> Calling(c, r.atom.turn, r.atom.id))

Answering(c, U, P) ==
    /\ c \in Seq(Turns) /\ U \in Seq(MessageSet) /\ P \in Seq(ResultSet) /\ Alternating(U)
    /\ \A id : Calling(c, Len(c) + 1, id) <=> id \in Called(U)
    /\ \A id : Fresh(c, id) <=> id \in Just(U, P)
    /\ \A i \in DOMAIN U : \A r \in ToSet(U[i].results) : ResultOf(c, r, U[i].role, CallsBefore(U, i))
    /\ \A r \in ToSet(P) : ResultOf(c, r, "user", Called(U))
    /\ \A n \in 1 .. Len(c) : \A r \in ToSet(ResultsOf(n, c[n])) :
          (\E i \in DOMAIN U : r \in ToSet(U[i].results)) \/ r \in ToSet(P)

\* No turn, nothing to answer.
LEMMA AnsweringStart == Answering(<<>>, <<>>, <<>>)
<1>1. <<>> \in Seq(Turns) /\ <<>> \in Seq(MessageSet) /\ <<>> \in Seq(ResultSet) /\ Len(<<>>) = 0
  OBVIOUS
<1>2. Called(<<>>) = {} /\ Just(<<>>, <<>>) = {}
  BY DEF Called, Just
<1>3. \A id : ~Calling(<<>>, 1, id) /\ ~Fresh(<<>>, id)
  BY <1>1 DEF Calling, Fresh
<1>4. Alternating(<<>>)
  BY <1>1 DEF Alternating
<1> QED
  BY <1>1, <1>2, <1>3, <1>4, NoIds DEF Answering

\* Nothing of this changes for the turns before.
LEMMA ResultOfAppend ==
  ASSUME NEW c \in Seq(Turns), NEW t \in Turns, NEW r, NEW role, NEW calls, ResultOf(c, r, role, calls)
  PROVE  ResultOf(Append(c, t), r, role, calls)
<1> DEFINE u == Append(c, t)
           n == r.atom.turn
<1>1. Len(u) = Len(c) + 1 /\ Len(c) \in Nat /\ \A i \in 1 .. Len(c) : u[i] = c[i]
  OBVIOUS
<1>2. n \in 1 .. Len(c)
  BY DEF ResultOf
<1>3. n \in 1 .. Len(c) + 1
  BY <1>1, <1>2
<1>4. Calling(u, n, r.atom.id) <=> Calling(c, n, r.atom.id)
  BY <1>3, CallingAppend
<1> HIDE DEF u
<1> QED
  BY <1>1, <1>2, <1>3, <1>4 DEF ResultOf, u

\* The results of the turn more itself.
LEMMA ResultOfTurn ==
  ASSUME NEW c \in Seq(Turns), NEW t \in Turns, NEW calls,
         Side(t) = "user" => \A id : Calling(c, Len(c) + 1, id) <=> id \in calls
  PROVE  \A r \in ToSet(ResultsOf(Len(c) + 1, t)) : ResultOf(Append(c, t), r, Side(t), calls)
<1> DEFINE u == Append(c, t)
           n == Len(c) + 1
<1>1. Len(u) = n /\ n \in Nat /\ n \in 1 .. n /\ u[n] = t
  OBVIOUS
<1>2. \A id : Calling(u, n, id) <=> Calling(c, n, id)
  BY <1>1, CallingAppend
<1> HIDE DEF u, n
<1>3. ASSUME NEW r \in ToSet(ResultsOf(n, t)) PROVE r.atom.turn = n
  <2>1. PICK i \in DOMAIN ResultsOf(n, t) : r = ResultsOf(n, t)[i]
    BY DEF ToSet
  <2>2. DOMAIN ResultsOf(n, t) = DOMAIN t.results
    BY DEF ResultsOf
  <2>3. r = [atom |-> Atom("result", n, t.results[i].id),
             images |-> Picture(n, t.results[i].id, t.results[i].image)]
    BY <1>1, <2>1, <2>2, ResultsOfType
  <2> QED
    BY <2>3 DEF Atom
<1>4. Side(t) = "user" => \A id : Calling(u, n, id) <=> id \in calls
  BY <1>2 DEF n
<1> QED
  BY <1>1, <1>3, <1>4 DEF ResultOf, u, n
ResultsOfAll(c, U) ==
    \A i \in DOMAIN U : \A r \in ToSet(U[i].results) : ResultOf(c, r, U[i].role, CallsBefore(U, i))
ResultsOfOne(c, m, calls) == \A r \in ToSet(m.results) : ResultOf(c, r, m.role, calls)
NoneLost(U, m, new) ==
    \A r : (\E i \in DOMAIN U : r \in ToSet(U[i].results)) \/ r \in ToSet(m.results)
             => \E i \in DOMAIN new : r \in ToSet(new[i].results)

\* A merging step keeps every result after the calls it follows.
LEMMA ResultsMerged ==
  ASSUME NEW c, NEW U \in Seq(MessageSet), NEW m \in MessageSet, NEW new, NEW k, NEW base,
         MergesInto(U, m, new, k, base), Alternating(U),
         ResultsOfAll(c, U), ResultsOfOne(c, m, CallsBefore(U, k))
  PROVE  ResultsOfAll(c, new) /\ NoneLost(U, m, new)
<1>1. /\ new \in Seq(MessageSet) /\ Len(new) = k /\ k \in Nat \ {0} /\ base \in MessageSet
      /\ (\A i \in 1 .. k - 1 : i \in DOMAIN U /\ new[i] = U[i]) /\ new[k].role = m.role
      /\ base.role = m.role /\ new[k].results = base.results \o m.results
  BY DEF MergesInto
<1>2. \A i \in 1 .. k : CallsBefore(new, i) = CallsBefore(U, i)
  BY MergedCalls
<1>3. ToSet(new[k].results) = ToSet(base.results) \cup ToSet(m.results)
  BY <1>1, MessageFields, JoinedRange
<1>4. /\ DOMAIN new = 1 .. k /\ k \in 1 .. k /\ \A i \in 1 .. k : i = k \/ i \in 1 .. k - 1
      /\ \A i \in 1 .. k - 1 : i \in 1 .. k
  BY <1>1
<1>5. \A r \in ToSet(base.results) : k \in DOMAIN U /\ U[k] = base
  <2>1. CASE k = Len(U) /\ base = U[k]
    BY <1>1, <2>1
  <2>2. CASE base = Filler(m.role, <<>>)
    <3>1. base.results = <<>>
      BY <2>2, MessageFields, EmptyFiller
    <3> QED
      BY <3>1, NoIds
  <2> QED
    BY <2>1, <2>2 DEF MergesInto
<1>6. ASSUME NEW i \in DOMAIN new, NEW r \in ToSet(new[i].results)
      PROVE  ResultOf(c, r, new[i].role, CallsBefore(new, i))
  <2>1. CASE i \in 1 .. k - 1
    <3>1. i \in DOMAIN U /\ new[i] = U[i] /\ CallsBefore(new, i) = CallsBefore(U, i)
      BY <1>1, <1>2, <1>4, <2>1
    <3> QED
      BY <1>6, <3>1 DEF ResultsOfAll
  <2>2. CASE i = k
    <3>1. CallsBefore(new, i) = CallsBefore(U, k) /\ new[i].role = m.role
      BY <1>1, <1>2, <1>4, <2>2
    <3>2. CASE r \in ToSet(base.results)
      <4>1. k \in DOMAIN U /\ U[k] = base
        BY <1>5, <3>2
      <4>2. ResultOf(c, r, base.role, CallsBefore(U, k))
        BY <3>2, <4>1 DEF ResultsOfAll
      <4> QED
        BY <1>1, <3>1, <4>2
    <3>3. CASE r \in ToSet(m.results)
      BY <3>1, <3>3 DEF ResultsOfOne
    <3> QED
      BY <1>3, <1>6, <2>2, <3>2, <3>3
  <2> QED
    BY <1>4, <1>6, <2>1, <2>2
<1>7. ASSUME NEW r, (\E i \in DOMAIN U : r \in ToSet(U[i].results)) \/ r \in ToSet(m.results)
      PROVE  \E i \in DOMAIN new : r \in ToSet(new[i].results)
  <2>1. CASE r \in ToSet(m.results)
    BY <1>3, <1>4, <2>1
  <2>2. ASSUME NEW i \in DOMAIN U, r \in ToSet(U[i].results)
        PROVE  \E j \in DOMAIN new : r \in ToSet(new[j].results)
    <3>1. i \in 1 .. k - 1 \/ (i = k /\ k = Len(U) /\ base = U[k])
      <4>1. CASE k = Len(U) /\ base = U[k]
        BY <1>1, <4>1
      <4>2. CASE k = Len(U) + 1
        BY <1>1, <4>2
      <4> QED
        BY <4>1, <4>2 DEF MergesInto
    <3>2. CASE i \in 1 .. k - 1
      BY <1>1, <1>4, <2>2, <3>2
    <3>3. CASE i = k /\ base = U[k]
      BY <1>3, <1>4, <2>2, <3>3
    <3> QED
      BY <3>1, <3>2, <3>3
  <2> QED
    BY <1>7, <2>1, <2>2
<1> QED
  BY <1>6, <1>7 DEF ResultsOfAll, NoneLost

\* So does a flush,
LEMMA AnsweringFlush ==
  ASSUME NEW c, NEW U, NEW P, Answering(c, U, P)
  PROVE  Answering(c, Flushed(U, P), <<>>)
<1>1. CASE P = <<>>
  BY <1>1 DEF Flushed
<1>2. CASE P # <<>>
  <2> DEFINE m == ResultsTurn(P)
             new == Merged(U, m)
  <2>1. c \in Seq(Turns) /\ U \in Seq(MessageSet) /\ P \in Seq(ResultSet) /\ Alternating(U)
    BY DEF Answering
  <2>2. m \in MessageSet /\ m.role = "user" /\ m.results = P
    BY <2>1, ResultsTurnIs
  <2> HIDE DEF m
  <2>3. PICK k, base : MergesInto(U, m, new, k, base)
    BY <2>1, <2>2, MergedIs
  <2>4. new \in Seq(MessageSet) /\ Alternating(new)
    BY <2>1, <2>2, MergedType, MergedAlternates
  <2> HIDE DEF new
  <2>5. CallsBefore(U, k) = Called(U) /\ Called(new) = Called(U) /\ Just(new, <<>>) = {}
    BY <2>1, <2>2, <2>3, MergedCalls
  <2>6. Just(U, P) = {}
    BY <1>2 DEF Just
  <2>7. ResultsOfAll(c, U)
    BY DEF Answering, ResultsOfAll
  <2>8. ResultsOfOne(c, m, CallsBefore(U, k))
    BY <2>2, <2>5 DEF Answering, ResultsOfOne
  <2>9. ResultsOfAll(c, new) /\ NoneLost(U, m, new)
    BY <2>1, <2>2, <2>3, <2>7, <2>8, ResultsMerged
  <2>10. /\ \A id : Calling(c, Len(c) + 1, id) <=> id \in Called(new)
         /\ \A id : Fresh(c, id) <=> id \in Just(new, <<>>)
    BY <2>5, <2>6 DEF Answering
  <2>11. \A n \in 1 .. Len(c) : \A r \in ToSet(ResultsOf(n, c[n])) :
           \E i \in DOMAIN new : r \in ToSet(new[i].results)
    BY <2>2, <2>9 DEF Answering, NoneLost
  <2>12. <<>> \in Seq(ResultSet)
    OBVIOUS
  <2>13. Answering(c, new, <<>>)
    BY <2>1, <2>4, <2>9, <2>10, <2>11, <2>12, NoIds DEF Answering, ResultsOfAll
  <2> QED
    BY <1>2, <2>13 DEF Flushed, new, m
<1> QED
  BY <1>1, <1>2

\* a turn that is said,
LEMMA AnsweringSays ==
  ASSUME NEW c, NEW U, NEW P, Answering(c, U, P), NEW t \in Turns, t.role \in {"user", "assistant"},
         NEW m, Says(m, Len(c) + 1, t, P)
  PROVE  Answering(Append(c, t), Merged(U, m), <<>>)
<1> DEFINE new == Merged(U, m)
           u == Append(c, t)
           n == Len(c) + 1
           R == ResultsOf(n, t)
<1>1. c \in Seq(Turns) /\ U \in Seq(MessageSet) /\ P \in Seq(ResultSet) /\ Alternating(U)
  BY DEF Answering
<1>2. /\ m \in MessageSet /\ m.role = Side(t) /\ m.calls = CallsOf(n, t) /\ m.results = P \o R
      /\ (P # <<>> => m.role = "user")
  BY DEF Says
<1>3. /\ u \in Seq(Turns) /\ Len(u) = n /\ n \in Nat /\ u[n] = t /\ n \in 1 .. n
      /\ \A i \in 1 .. Len(c) : u[i] = c[i]
  BY <1>1
<1>4. \A i \in 1 .. n : i = n \/ i \in 1 .. Len(c)
  BY <1>1
<1>5. R \in Seq(ResultSet) /\ IdsOf(m.calls) = ToSet(t.calls)
  BY <1>2, <1>3, ResultsOfType, IdsOfCalls
<1>6. ToSet(m.results) = ToSet(P) \cup ToSet(R)
  <2> HIDE DEF R
  <2> QED
    BY <1>1, <1>2, <1>5, JoinedRange
<1>7. PICK k, base : MergesInto(U, m, new, k, base)
  BY <1>1, <1>2, MergedIs
<1>8. new \in Seq(MessageSet) /\ Alternating(new)
  BY <1>1, <1>2, MergedType, MergedAlternates
<1> HIDE DEF new
<1>9. /\ m.role = "user" => /\ CallsBefore(U, k) = Called(U) /\ Called(new) = Called(U)
                            /\ Just(new, <<>>) = {}
      /\ m.role = "assistant" => /\ Called(new) = Just(U, <<>>) \cup IdsOf(m.calls)
                                 /\ Just(new, <<>>) = Just(U, <<>>) \cup IdsOf(m.calls)
  BY <1>1, <1>2, <1>7, MergedCalls
<1>10. /\ \A id : Calling(c, n, id) <=> id \in Called(U)
       /\ \A id : Fresh(c, id) <=> id \in Just(U, P)
  BY DEF Answering
<1>11. /\ m.role = "user" => t.role = "user"
       /\ m.role = "assistant" => t.role = "assistant" /\ P = <<>>
       /\ m.role \in {"user", "assistant"}
  BY <1>2 DEF Side
<1>12. ASSUME NEW id
       PROVE  /\ Calling(u, n + 1, id) <=> id \in Called(new)
              /\ Fresh(u, id) <=> id \in Just(new, <<>>)
  <2>1. /\ t.role = "user" => /\ Calling(u, n + 1, id) <=> Calling(c, n, id)
                              /\ ~Fresh(u, id)
        /\ t.role = "assistant" => /\ Calling(u, n + 1, id) <=> id \in ToSet(t.calls) \/ Fresh(c, id)
                                   /\ Fresh(u, id) <=> id \in ToSet(t.calls) \/ Fresh(c, id)
    BY <1>1, CallingAppend
  <2> HIDE DEF u, n
  <2> QED
    BY <1>5, <1>9, <1>10, <1>11, <2>1
<1>13. ResultsOfAll(u, U)
  <2>1. \A i \in DOMAIN U : \A r \in ToSet(U[i].results) : ResultOf(c, r, U[i].role, CallsBefore(U, i))
    BY DEF Answering
  <2> QED
    BY <1>1, <2>1, ResultOfAppend DEF ResultsOfAll
<1>14. ResultsOfOne(u, m, CallsBefore(U, k))
  <2>1. \A r \in ToSet(R) : ResultOf(u, r, m.role, CallsBefore(U, k))
    <3>1. Side(t) = "user" => \A id : Calling(c, n, id) <=> id \in CallsBefore(U, k)
      BY <1>2, <1>9, <1>10
    <3> QED
      BY <1>1, <1>2, <3>1, ResultOfTurn
  <2>2. ASSUME NEW r \in ToSet(P) PROVE ResultOf(u, r, m.role, CallsBefore(U, k))
    <3>1. P # <<>>
      BY <2>2, NoIds
    <3>2. ResultOf(c, r, "user", Called(U))
      BY <2>2 DEF Answering
    <3>3. ResultOf(u, r, "user", Called(U))
      BY <1>1, <3>2, ResultOfAppend
    <3> QED
      BY <1>2, <1>9, <3>1, <3>3
  <2> QED
    BY <1>6, <2>1, <2>2 DEF ResultsOfOne
<1> HIDE DEF u
<1>15. ResultsOfAll(u, new) /\ NoneLost(U, m, new)
  BY <1>1, <1>2, <1>7, <1>13, <1>14, ResultsMerged
<1>16. \A i \in 1 .. n : \A r \in ToSet(ResultsOf(i, u[i])) :
         \E j \in DOMAIN new : r \in ToSet(new[j].results)
  <2>1. ASSUME NEW i \in 1 .. Len(c), NEW r \in ToSet(ResultsOf(i, u[i]))
        PROVE  \E j \in DOMAIN new : r \in ToSet(new[j].results)
    <3>1. (\E j \in DOMAIN U : r \in ToSet(U[j].results)) \/ r \in ToSet(P)
      BY <1>3, <2>1 DEF Answering
    <3> QED
      BY <1>6, <1>15, <3>1 DEF NoneLost
  <2>2. \A r \in ToSet(ResultsOf(n, u[n])) : \E j \in DOMAIN new : r \in ToSet(new[j].results)
    BY <1>3, <1>6, <1>15 DEF NoneLost
  <2> HIDE DEF n
  <2> QED
    BY <1>4, <2>1, <2>2
<1>17. <<>> \in Seq(ResultSet)
  OBVIOUS
<1>18. Answering(u, new, <<>>)
  BY <1>3, <1>8, <1>12, <1>15, <1>16, <1>17, NoIds DEF Answering, ResultsOfAll
<1> QED
  BY <1>18 DEF u, new

\* a system turn,
LEMMA AnsweringSystem ==
  ASSUME NEW c, NEW U, NEW P, Answering(c, U, P), NEW t \in Turns, t.role = "system", t.results = <<>>
  PROVE  Answering(Append(c, t), U, P)
<1> DEFINE u == Append(c, t)
           n == Len(c) + 1
<1>1. c \in Seq(Turns) /\ U \in Seq(MessageSet) /\ P \in Seq(ResultSet) /\ Alternating(U)
  BY DEF Answering
<1>2. /\ u \in Seq(Turns) /\ Len(u) = n /\ n \in Nat /\ u[n] = t
      /\ \A i \in 1 .. Len(c) : u[i] = c[i]
  BY <1>1
<1>3. \A i \in 1 .. n : i = n \/ i \in 1 .. Len(c)
  BY <1>1
<1>4. \A id : (Calling(u, n + 1, id) <=> Calling(c, n, id)) /\ (Fresh(u, id) <=> Fresh(c, id))
  BY <1>1, CallingAppend
<1>5. \A i \in DOMAIN U : \A r \in ToSet(U[i].results) : ResultOf(u, r, U[i].role, CallsBefore(U, i))
  <2>1. \A i \in DOMAIN U : \A r \in ToSet(U[i].results) : ResultOf(c, r, U[i].role, CallsBefore(U, i))
    BY DEF Answering
  <2> QED
    BY <1>1, <2>1, ResultOfAppend
<1>6. \A r \in ToSet(P) : ResultOf(u, r, "user", Called(U))
  <2>1. \A r \in ToSet(P) : ResultOf(c, r, "user", Called(U))
    BY DEF Answering
  <2> QED
    BY <1>1, <2>1, ResultOfAppend
<1>7. ToSet(ResultsOf(n, t)) = {}
  BY DEF ResultsOf, ToSet
<1> HIDE DEF u
<1>8. \A i \in 1 .. n : \A r \in ToSet(ResultsOf(i, u[i])) :
        (\E j \in DOMAIN U : r \in ToSet(U[j].results)) \/ r \in ToSet(P)
  BY <1>2, <1>3, <1>7 DEF Answering
<1>9. /\ \A id : Calling(u, n + 1, id) <=> id \in Called(U)
      /\ \A id : Fresh(u, id) <=> id \in Just(U, P)
  BY <1>4 DEF Answering
<1>10. Answering(u, U, P)
  BY <1>1, <1>2, <1>5, <1>6, <1>8, <1>9 DEF Answering
<1> QED
  BY <1>10 DEF u

\* and a tool's.
LEMMA AnsweringTool ==
  ASSUME NEW c, NEW U, NEW P, Answering(c, U, P), NEW t \in Turns, t.role = "tool", t.results # <<>>
  PROVE  Answering(Append(c, t), U, P \o ResultsOf(Len(c) + 1, t))
<1> DEFINE u == Append(c, t)
           n == Len(c) + 1
           R == ResultsOf(n, t)
           Q == P \o R
<1>1. c \in Seq(Turns) /\ U \in Seq(MessageSet) /\ P \in Seq(ResultSet) /\ Alternating(U)
  BY DEF Answering
<1>2. /\ u \in Seq(Turns) /\ Len(u) = n /\ n \in Nat /\ u[n] = t
      /\ \A i \in 1 .. Len(c) : u[i] = c[i]
  BY <1>1
<1>3. \A i \in 1 .. n : i = n \/ i \in 1 .. Len(c)
  BY <1>1
<1>4. \A id : (Calling(u, n + 1, id) <=> Calling(c, n, id)) /\ ~Fresh(u, id)
  BY <1>1, CallingAppend
<1>5. \A i \in DOMAIN U : \A r \in ToSet(U[i].results) : ResultOf(u, r, U[i].role, CallsBefore(U, i))
  <2>1. \A i \in DOMAIN U : \A r \in ToSet(U[i].results) : ResultOf(c, r, U[i].role, CallsBefore(U, i))
    BY DEF Answering
  <2> QED
    BY <1>1, <2>1, ResultOfAppend
<1>6. R \in Seq(ResultSet) /\ Len(R) = Len(t.results) /\ Len(t.results) # 0
  <2>1. t.results \in Seq(Results)
    BY TurnFields
  <2>2. Len(t.results) # 0
    BY <2>1
  <2> QED
    BY <1>2, <2>2, ResultsOfType
<1>7. Q \in Seq(ResultSet) /\ ToSet(Q) = ToSet(P) \cup ToSet(R) /\ Q # <<>>
  <2> HIDE DEF R
  <2>1. Len(Q) = Len(P) + Len(R)
    BY <1>1, <1>6, ConcatAdds DEF Adds
  <2>2. Len(Q) # 0
    BY <1>1, <1>6, <2>1
  <2> QED
    BY <1>1, <1>6, <2>2, JoinedRange
<1>8. \A r \in ToSet(Q) : ResultOf(u, r, "user", Called(U))
  <2>1. \A r \in ToSet(P) : ResultOf(u, r, "user", Called(U))
    <3>1. \A r \in ToSet(P) : ResultOf(c, r, "user", Called(U))
      BY DEF Answering
    <3> QED
      BY <1>1, <3>1, ResultOfAppend
  <2>2. \A r \in ToSet(R) : ResultOf(u, r, "user", Called(U))
    <3>1. Side(t) = "user"
      BY DEF Side
    <3>2. \A id : Calling(c, n, id) <=> id \in Called(U)
      BY DEF Answering
    <3> QED
      BY <1>1, <3>1, <3>2, ResultOfTurn
  <2> QED
    BY <1>7, <2>1, <2>2
<1> HIDE DEF u, Q
<1>9. \A i \in 1 .. n : \A r \in ToSet(ResultsOf(i, u[i])) :
        (\E j \in DOMAIN U : r \in ToSet(U[j].results)) \/ r \in ToSet(Q)
  <2>1. \A r \in ToSet(ResultsOf(n, u[n])) : r \in ToSet(Q)
    BY <1>2, <1>7
  <2>2. \A i \in 1 .. Len(c) : \A r \in ToSet(ResultsOf(i, u[i])) :
          (\E j \in DOMAIN U : r \in ToSet(U[j].results)) \/ r \in ToSet(P)
    BY <1>2 DEF Answering
  <2> HIDE DEF n, R
  <2> QED
    BY <1>3, <1>7, <2>1, <2>2
<1>10. Just(U, Q) = {}
  BY <1>7 DEF Just
<1>11. /\ \A id : Calling(u, n + 1, id) <=> id \in Called(U)
       /\ \A id : Fresh(u, id) <=> id \in Just(U, Q)
  BY <1>4, <1>10 DEF Answering
<1>12. Answering(u, U, Q)
  BY <1>1, <1>2, <1>5, <1>7, <1>8, <1>9, <1>11 DEF Answering
<1> QED
  BY <1>12 DEF u, Q
\* Whichever way a turn is entered, results follow the calls they answer.
LEMMA AnsweringEntered ==
  ASSUME NEW c, NEW U, NEW P, NEW S, Answering(c, U, P), NEW t \in Turns,
         NEW U2, NEW P2, NEW S2, Entered(Len(c) + 1, t, U, P, S, U2, P2, S2)
  PROVE  Answering(Append(c, t), U2, P2)
<1> DEFINE n == Len(c) + 1
<1>1. CASE t.role = "system" /\ Silent(t) /\ U2 = U /\ P2 = P /\ S2 = S \o TextOf(n, t)
  BY <1>1, AnsweringSystem DEF Silent
<1>2. CASE t.role = "tool" /\ Silent(t) /\ U2 = U /\ P2 = P \o ResultsOf(n, t) /\ S2 = S
  BY <1>2, AnsweringTool DEF Silent
<1>3. CASE t.role = "assistant" /\ P2 = <<>> /\ S2 = S
           /\ \E m : Says(m, n, t, <<>>) /\ U2 = Merged(Flushed(U, P), m)
  <2>1. PICK m : Says(m, n, t, <<>>) /\ U2 = Merged(Flushed(U, P), m)
    BY <1>3
  <2>2. Answering(c, Flushed(U, P), <<>>)
    BY AnsweringFlush
  <2> DEFINE F == Flushed(U, P)
  <2> HIDE DEF F
  <2>3. Answering(Append(c, t), Merged(F, m), <<>>)
    BY <1>3, <2>1, <2>2, AnsweringSays DEF F
  <2> QED
    BY <1>3, <2>1, <2>3 DEF F
<1>4. CASE t.role = "user" /\ P2 = <<>> /\ S2 = S /\ \E m : Says(m, n, t, P) /\ U2 = Merged(U, m)
  BY <1>4, AnsweringSays
<1> QED
  BY <1>1, <1>2, <1>3, <1>4, Zenon DEF Entered

\* The system turns of a conversation, in order.
SystemTurn(n, t) == IF t.role = "system" THEN TextOf(n, t) ELSE <<>>
SystemOf(c) == FlattenSeq([n \in DOMAIN c |-> SystemTurn(n, c[n])])

\* The system turns of one turn more.
LEMMA SystemAppend ==
  ASSUME NEW c \in Seq(Turns), NEW t \in Turns
  PROVE  /\ SystemOf(c) \in Seq(AtomSet)
         /\ SystemOf(Append(c, t)) = SystemOf(c) \o SystemTurn(Len(c) + 1, t)
<1> DEFINE u == Append(c, t)
           N == Len(c)
           o(n, x) == SystemTurn(n, x)
           oc == [n \in DOMAIN c |-> o(n, c[n])]
           ou == [n \in DOMAIN u |-> o(n, u[n])]
           R == Seq(AtomSet)
<1>1. /\ DOMAIN u = 1 .. N + 1 /\ DOMAIN c = 1 .. N /\ N \in Nat /\ u[N + 1] = t
      /\ \A n \in 1 .. N : u[n] = c[n] /\ c[n] \in Turns
  OBVIOUS
<1>2. \A n \in Nat, x \in Turns : o(n, x) \in R
  <2>1. <<>> \in Seq(AtomSet)
    OBVIOUS
  <2> QED
    BY <2>1, TextOfType DEF SystemTurn
<1> HIDE DEF u, N, o, R
<1>3. oc \in Seq(R) /\ Len(oc) = N /\ \A n \in 1 .. N : oc[n] = o(n, c[n])
  BY <1>1, <1>2
<1>4. ou \in Seq(R) /\ Len(ou) = N + 1 /\ \A n \in 1 .. N + 1 : ou[n] = o(n, u[n])
  <2>1. \A n \in 1 .. N + 1 : u[n] \in Turns /\ n \in Nat
    <3>1. \A n \in 1 .. N + 1 : n = N + 1 \/ n \in 1 .. N
      BY <1>1
    <3> QED
      BY <1>1, <3>1
  <2>2. \A n \in 1 .. N + 1 : o(n, u[n]) \in R
    BY <1>2, <2>1
  <2> QED
    BY <1>1, <2>2
<1> HIDE DEF oc, ou
<1>5. o(N + 1, t) \in R
  BY <1>1, <1>2
<1>6. ou = Append(oc, o(N + 1, t))
  <2> DEFINE v == Append(oc, o(N + 1, t))
  <2>1. v \in Seq(R) /\ Len(v) = N + 1 /\ v[N + 1] = o(N + 1, t) /\ \A n \in 1 .. N : v[n] = oc[n]
    BY <1>1, <1>3, <1>5
  <2> HIDE DEF v
  <2>2. \A n \in 1 .. N + 1 : ou[n] = v[n]
    <3>1. \A n \in 1 .. N + 1 : n = N + 1 \/ n \in 1 .. N
      BY <1>1
    <3> QED
      BY <1>1, <1>3, <1>4, <2>1, <3>1
  <2>3. ou = v
    BY <1>4, <2>1, <2>2, SeqEqual
  <2> QED
    BY <2>3 DEF v
<1>7. oc \in Seq(Seq(AtomSet)) /\ o(N + 1, t) \in Seq(AtomSet)
  BY <1>3, <1>5 DEF R
<1>8. FlattenSeq(oc) \in Seq(AtomSet) /\ FlattenSeq(ou) = FlattenSeq(oc) \o o(N + 1, t)
  BY <1>6, <1>7, FlattenAppend
<1> QED
  BY <1>8 DEF SystemOf, oc, ou, o, u, N

\* The system prompt is the conversation's system turns.
LEMMA SystemEntered ==
  ASSUME NEW c \in Seq(Turns), NEW U, NEW P, NEW S, S = SystemOf(c), NEW t \in Turns,
         NEW U2, NEW P2, NEW S2, Entered(Len(c) + 1, t, U, P, S, U2, P2, S2)
  PROVE  S2 = SystemOf(Append(c, t))
<1>1. /\ SystemOf(c) \in Seq(AtomSet)
      /\ SystemOf(Append(c, t)) = SystemOf(c) \o SystemTurn(Len(c) + 1, t)
  BY SystemAppend
<1>2. SystemOf(c) \o <<>> = SystemOf(c)
  BY <1>1
<1>3. CASE t.role = "system"
  BY <1>1, <1>3 DEF Entered, SystemTurn
<1>4. CASE t.role # "system"
  BY <1>1, <1>2, <1>4 DEF Entered, SystemTurn
<1> QED
  BY <1>3, <1>4

\* All that the merged messages owe to the conversation.
Ledger(c, U, P, S, tools) ==
    Books(c, U, P, S, tools) /\ Answering(c, U, P) /\ S = SystemOf(c)

\* The ledger of no turn is kept,
LEMMA LedgerStart == ASSUME NEW tools PROVE Ledger(<<>>, <<>>, <<>>, <<>>, tools)
<1>1. SystemOf(<<>>) = <<>>
  BY FlattenEmpty DEF SystemOf
<1> QED
  BY <1>1, BooksStart, AnsweringStart DEF Ledger

\* and stays kept with one turn more.
LEMMA LedgerEntered ==
  ASSUME NEW c, NEW U, NEW P, NEW S, NEW tools, Ledger(c, U, P, S, tools), NEW t \in Turns,
         NEW U2, NEW P2, NEW S2, Entered(Len(c) + 1, t, U, P, S, U2, P2, S2)
  PROVE  Ledger(Append(c, t), U2, P2, S2, tools)
<1>1. c \in Seq(Turns)
  BY DEF Ledger, Books
<1>2. Books(Append(c, t), U2, P2, S2, tools)
  BY BooksEntered DEF Ledger
<1>3. Answering(Append(c, t), U2, P2)
  BY AnsweringEntered DEF Ledger
<1>4. S2 = SystemOf(Append(c, t))
  BY <1>1, SystemEntered DEF Ledger
<1> QED
  BY <1>2, <1>3, <1>4 DEF Ledger

\* So it is kept for every conversation of the OpenAI surface
LEMMA OpenAILedger ==
  ASSUME NEW c \in Seq(OpenAITurns), NEW tools
  PROVE  /\ Ledger(c, MergeAdjacent(FromOpenAI(c).messages), <<>>, FromOpenAI(c).system, tools)
         /\ Converted(FromOpenAI(c))
<1> DEFINE Holds(s) == Ledger(s, MergedOf(s), Taken(s).pending, Taken(s).system, tools)
           Good == {s \in Seq(OpenAITurns) : Holds(s)}
<1>1. <<>> \in Good
  <2>1. Taken(<<>>).messages = <<>> /\ Taken(<<>>).pending = <<>> /\ Taken(<<>>).system = <<>>
    BY TakeNothing DEF NothingTaken
  <2>2. MergedOf(<<>>) = <<>>
    BY <2>1, MergeEmpty DEF MergedOf
  <2>3. <<>> \in Seq(OpenAITurns)
    OBVIOUS
  <2> QED
    BY <2>1, <2>2, <2>3, LedgerStart
<1>2. ASSUME NEW s \in Seq(OpenAITurns), NEW t \in OpenAITurns, s \in Good PROVE Append(s, t) \in Good
  <2>1. /\ t \in Turns
        /\ Entered(Len(s) + 1, t, MergedOf(s), Taken(s).pending, Taken(s).system,
                   MergedOf(Append(s, t)), Taken(Append(s, t)).pending, Taken(Append(s, t)).system)
    BY OpenAIEntered
  <2>2. Holds(Append(s, t))
    BY <1>2, <2>1, LedgerEntered
  <2>3. Append(s, t) \in Seq(OpenAITurns)
    OBVIOUS
  <2> QED
    BY <2>2, <2>3
<1>3. Holds(c)
  <2>1. \A s \in Seq(OpenAITurns), t \in OpenAITurns : s \in Good => Append(s, t) \in Good
    BY <1>2
  <2>2. \A s \in Seq(OpenAITurns) : s \in Good
    <3> HIDE DEF Good
    <3> QED
      BY <1>1, <2>1, SeqInduction
  <2> QED
    BY <2>2
<1> DEFINE acc == Taken(c)
           M == acc.messages
           P == acc.pending
           S == acc.system
<1>4. c \in Seq(Turns)
  BY TurnsAssumption
<1>5. acc \in AccSet /\ Converted(FromOpenAI(c))
  BY <1>4, OpenAIConverted
<1>6. M \in Seq(MessageSet) /\ P \in Seq(ResultSet)
  BY <1>5, AccFields
<1>7. FromOpenAI(c) = [messages |-> IF P = <<>> THEN M ELSE Append(M, ResultsTurn(P)),
                       pending |-> <<>>, system |-> S]
  BY <1>5, FlushIs, Zenon DEF FromOpenAI
<1>8. Ledger(c, MergeAdjacent(M), P, S, tools)
  BY <1>3 DEF MergedOf
<1> HIDE DEF acc, Holds
<1> DEFINE F == IF P = <<>> THEN M ELSE Append(M, ResultsTurn(P))
<1>9. FromOpenAI(c).messages = F /\ FromOpenAI(c).system = S
  BY <1>7
<1>10. MergeAdjacent(F) = Flushed(MergeAdjacent(M), P)
  BY <1>6, ResultsTurnIs, MergeAppend DEF Flushed
<1>11. Ledger(c, Flushed(MergeAdjacent(M), P), <<>>, S, tools)
  BY <1>8, BooksFlush, AnsweringFlush DEF Ledger
<1> QED
  BY <1>5, <1>9, <1>10, <1>11

\* and for every one of the Anthropic surface.
LEMMA AnthropicLedger ==
  ASSUME NEW c \in Seq(AnthropicTurns), NEW tools
  PROVE  /\ Ledger(c, MergeAdjacent(FromAnthropic(c).messages), <<>>, <<>>, tools)
         /\ Converted(FromAnthropic(c))
<1> DEFINE Holds(s) == Ledger(s, MergeAdjacent(Messages(s)), <<>>, <<>>, tools)
           Good == {s \in Seq(AnthropicTurns) : Holds(s)}
<1>1. <<>> \in Good
  <2>1. Messages(<<>>) = <<>>
    BY DEF Messages
  <2>2. <<>> \in Seq(AnthropicTurns)
    OBVIOUS
  <2> QED
    BY <2>1, <2>2, MergeEmpty, LedgerStart
<1>2. ASSUME NEW s \in Seq(AnthropicTurns), NEW t \in AnthropicTurns, s \in Good PROVE Append(s, t) \in Good
  <2>1. /\ t \in Turns
        /\ Entered(Len(s) + 1, t, MergeAdjacent(Messages(s)), <<>>, <<>>,
                   MergeAdjacent(Messages(Append(s, t))), <<>>, <<>>)
    BY AnthropicEntered
  <2>2. Holds(Append(s, t))
    BY <1>2, <2>1, LedgerEntered
  <2>3. Append(s, t) \in Seq(AnthropicTurns)
    OBVIOUS
  <2> QED
    BY <2>2, <2>3
<1>3. Holds(c)
  <2>1. \A s \in Seq(AnthropicTurns), t \in AnthropicTurns : s \in Good => Append(s, t) \in Good
    BY <1>2
  <2>2. \A s \in Seq(AnthropicTurns) : s \in Good
    <3> HIDE DEF Good
    <3> QED
      BY <1>1, <2>1, SeqInduction
  <2> QED
    BY <2>2
<1>4. c \in Seq(Turns)
  BY TurnsAssumption
<1>5. Converted(FromAnthropic(c)) /\ FromAnthropic(c).messages = Messages(c)
  BY <1>4, AnthropicConverted DEF Messages
<1> QED
  BY <1>3, <1>5
-----------------------------------------------------------------------------
(* What Build makes of it: the prompt.                                      *)

Clear(atoms) == \A a \in ToSet(atoms) : a.what # "placeholder"

\* Two sequences without a placeholder have none together.
LEMMA ClearConcat ==
  ASSUME NEW s \in Seq(AtomSet), NEW t \in Seq(AtomSet), Clear(s), Clear(t)
  PROVE  s \o t \in Seq(AtomSet) /\ Clear(s \o t)
BY JoinedRange DEF Clear

\* Neither nothing nor the tools' documentation has one.
LEMMA ClearNothing == Clear(<<>>) /\ Clear(<<Docs>>)
<1>1. Docs.what = "docs"
  BY DEF Docs, Atom
<1>2. ToSet(<<Docs>>) = {Docs} /\ ToSet(<<>>) = {}
  BY DEF ToSet
<1> QED
  BY <1>1, <1>2 DEF Clear

\* What is clear does not hold Placeholder.
LEMMA ClearHasNone ==
  ASSUME NEW s, Clear(s)
  PROVE  Placeholder \notin ToSet(s)
<1>1. Placeholder.what = "placeholder"
  BY DEF Placeholder, Atom
<1> QED
  BY <1>1 DEF Clear

\* Three sequences put together,
LEMMA Three ==
  ASSUME NEW S, NEW a \in Seq(S), NEW b \in Seq(S), NEW c \in Seq(S)
  PROVE  /\ (a \o b) \o c \in Seq(S)
         /\ ToSet((a \o b) \o c) = (ToSet(a) \cup ToSet(b)) \cup ToSet(c)
         /\ Len((a \o b) \o c) = (Len(a) + Len(b)) + Len(c)
<1> DEFINE w == a \o b
<1>1. w \in Seq(S) /\ ToSet(w) = ToSet(a) \cup ToSet(b) /\ Len(w) = Len(a) + Len(b)
  BY ConcatAdds DEF Adds
<1> HIDE DEF w
<1>2. w \o c \in Seq(S) /\ ToSet(w \o c) = ToSet(w) \cup ToSet(c) /\ Len(w \o c) = Len(w) + Len(c)
  BY <1>1, ConcatAdds DEF Adds
<1> QED
  BY <1>1, <1>2 DEF w

\* and four.
LEMMA Four ==
  ASSUME NEW S, NEW a \in Seq(S), NEW b \in Seq(S), NEW c \in Seq(S), NEW d \in Seq(S)
  PROVE  /\ ((a \o b) \o c) \o d \in Seq(S)
         /\ ToSet(((a \o b) \o c) \o d) = ((ToSet(a) \cup ToSet(b)) \cup ToSet(c)) \cup ToSet(d)
         /\ Len(((a \o b) \o c) \o d) = ((Len(a) + Len(b)) + Len(c)) + Len(d)
<1> DEFINE w == (a \o b) \o c
<1>1. /\ w \in Seq(S) /\ ToSet(w) = (ToSet(a) \cup ToSet(b)) \cup ToSet(c)
      /\ Len(w) = (Len(a) + Len(b)) + Len(c)
  BY Three
<1> HIDE DEF w
<1>2. w \o d \in Seq(S) /\ Adds(w \o d, w, d)
  BY <1>1, ConcatAdds
<1>3. ToSet(w \o d) = ToSet(w) \cup ToSet(d) /\ Len(w \o d) = Len(w) + Len(d)
  BY <1>2, Zenon DEF Adds
<1> QED
  BY <1>1, <1>2, <1>3, Zenon DEF w

\* The parts of a message are in its cargo.
LEMMA CargoRange ==
  ASSUME NEW m \in MessageSet, NEW tools
  PROVE  /\ ToSet(m.content) \subseteq ToSet(Cargo(m, tools))
         /\ ToSet(AtomsOf(m.results)) \subseteq ToSet(Cargo(m, tools))
         /\ m.role = "assistant" \/ tools = {} => ToSet(m.calls) \subseteq ToSet(Cargo(m, tools))
<1> DEFINE a == m.content
           b == AtomsOf(m.results)
           p == IF m.role = "assistant" \/ tools = {} THEN m.calls ELSE <<>>
           q == IF m.role # "assistant" THEN m.images \o ImagesIn(m.results) ELSE <<>>
           d == m.calls
           C == Cargo(m, tools)
<1>1. a \in Seq(AtomSet) /\ b \in Seq(AtomSet) /\ p \in Seq(AtomSet) /\ q \in Seq(AtomSet)
  BY CargoType
<1>2. C = ((a \o b) \o p) \o q
  BY DEF Cargo
<1>3. m.role = "assistant" \/ tools = {} => p = d
  OBVIOUS
<1> HIDE DEF a, b, p, q, d, C
<1>4. ToSet(C) = ((ToSet(a) \cup ToSet(b)) \cup ToSet(p)) \cup ToSet(q)
  BY <1>1, <1>2, Four
<1>5. ToSet(a) \subseteq ToSet(C) /\ ToSet(b) \subseteq ToSet(C) /\ ToSet(p) \subseteq ToSet(C)
  BY <1>4
<1> QED
  BY <1>3, <1>5 DEF a, b, d, C

\* What the tool rules make text of was in the message.
LEMMA RuledContent ==
  ASSUME NEW U \in Seq(MessageSet), NEW i \in DOMAIN U
  PROVE  /\ Ruled(U, i) \in MessageSet /\ Ruled(U, i).role = U[i].role
         /\ ToSet(Ruled(U, i).content) \subseteq ToSet(Cargo(U[i], setting.tools))
<1> DEFINE m == U[i]
           C == ToSet(Cargo(m, setting.tools))
<1>1. m \in MessageSet
  OBVIOUS
<1>2. /\ m.content \in Seq(AtomSet) /\ m.calls \in Seq(AtomSet) /\ m.results \in Seq(ResultSet)
      /\ AtomsOf(m.results) \in Seq(AtomSet)
  BY <1>1, MessageFields, AtomsOfIs
<1>3. CASE setting.tools = {}
  <2>1. Ruled(U, i) = Textual(m)
    BY <1>3 DEF Ruled
  <2>2. /\ Textual(m) \in MessageSet /\ Textual(m).role = m.role
        /\ Textual(m).content = m.content \o m.calls \o AtomsOf(m.results)
    BY <1>1, TextualIs
  <2> DEFINE a == m.content
             b == m.calls
             d == AtomsOf(m.results)
  <2>3. ToSet(a) \subseteq C /\ ToSet(b) \subseteq C /\ ToSet(d) \subseteq C
    BY <1>1, <1>3, CargoRange
  <2>4. a \in Seq(AtomSet) /\ b \in Seq(AtomSet) /\ d \in Seq(AtomSet)
    BY <1>2
  <2> HIDE DEF a, b, d, C
  <2>5. ToSet((a \o b) \o d) = (ToSet(a) \cup ToSet(b)) \cup ToSet(d)
    BY <2>4, Three
  <2>6. ToSet((a \o b) \o d) \subseteq C
    BY <2>3, <2>5
  <2> QED
    BY <2>1, <2>2, <2>6 DEF a, b, d, C
<1>4. CASE setting.tools # {}
  <2> DEFINE o == Orphans(U, i)
  <2>1. Ruled(U, i) = Inlined(U, i)
    BY <1>4 DEF Ruled
  <2>2. /\ Inlined(U, i) \in MessageSet /\ Inlined(U, i).role = m.role
        /\ Inlined(U, i).content = m.content \o AtomsOf(o)
        /\ o \in Seq(ResultSet) /\ ToSet(o) = ToSet(m.results) \ Kept(U, i)
    BY InlinedIs
  <2> HIDE DEF o
  <2>3. AtomsOf(o) \in Seq(AtomSet) /\ ToSet(AtomsOf(o)) \subseteq ToSet(AtomsOf(m.results))
    BY <1>2, <2>2, AtomsOfIs
  <2>4. ToSet(m.content) \subseteq C /\ ToSet(AtomsOf(m.results)) \subseteq C
    BY <1>1, CargoRange
  <2>5. ToSet(m.content \o AtomsOf(o)) = ToSet(m.content) \cup ToSet(AtomsOf(o))
    BY <1>2, <2>3, JoinedRange
  <2> HIDE DEF C
  <2>6. ToSet(m.content \o AtomsOf(o)) \subseteq C
    BY <2>3, <2>4, <2>5
  <2> QED
    BY <2>1, <2>2, <2>6 DEF C
<1> QED
  BY <1>3, <1>4

\* What stands in the messages that are sent: each is a merged one after the tool
\* rules, or one that Build put there.
MergedIn(in) == MergeAdjacent(in.messages)

\* Each message of the first turns comes from a merged one by the tool rules.
LEMMA FirstMessages ==
  ASSUME NEW in, Converted(in)
  PROVE  /\ MergedIn(in) \in Seq(MessageSet) /\ Len(First(in)) \in Nat
         /\ Shift(in) \in {0, 1} /\ Len(First(in)) = Len(MergedIn(in)) + Shift(in)
         /\ Shift(in) = 1 => First(in)[1] = Filler("user", <<Placeholder>>)
         /\ \A i \in 1 .. Len(First(in)) : i > Shift(in) =>
               i - Shift(in) \in DOMAIN MergedIn(in) /\ First(in)[i] = Ruled(MergedIn(in), i - Shift(in))
<1> DEFINE U == MergedIn(in)
           R == ToolRules(in.messages)
           F == First(in)
           d == Shift(in)
<1>1. /\ U \in Seq(MessageSet) /\ R \in Seq(MessageSet) /\ Len(R) = Len(U)
      /\ \A i \in DOMAIN U : R[i] = Ruled(U, i)
  BY ToolRulesAre DEF Converted, MergedIn
<1>2. /\ F \in Seq(MessageSet) /\ d \in {0, 1} /\ Len(F) = Len(R) + d
      /\ \A i \in DOMAIN R : F[i + d] = R[i]
      /\ d = 1 => F[1] = Filler("user", <<Placeholder>>)
  BY FirstIs
<1>3. DOMAIN U = 1 .. Len(U) /\ DOMAIN R = 1 .. Len(R) /\ Len(F) \in Nat /\ Len(U) \in Nat
  BY <1>1, <1>2
<1> HIDE DEF U, R, F, d
<1>4. ASSUME NEW i \in 1 .. Len(F), i > d PROVE i - d \in DOMAIN U /\ F[i] = Ruled(U, i - d)
  <2>1. i - d \in 1 .. Len(U) /\ (i - d) + d = i
    BY <1>1, <1>2, <1>3, <1>4
  <2>2. F[(i - d) + d] = R[i - d] /\ R[i - d] = Ruled(U, i - d)
    BY <1>1, <1>2, <1>3, <2>1
  <2> QED
    BY <1>3, <2>1, <2>2
<1> QED
  BY <1>1, <1>2, <1>3, <1>4 DEF U, R, F, d
\* A content is a placeholder on its own, or has none.
Alone(s) == s = <<Placeholder>> \/ Clear(s)

\* So no content mixes a placeholder with anything else.
LEMMA FirstAlone ==
  ASSUME NEW in, Converted(in), First(in) # <<>>,
         \A i \in DOMAIN MergedIn(in) : Clear(Cargo(MergedIn(in)[i], setting.tools))
  PROVE  \A i \in 1 .. Len(First(in)) : First(in)[i] \in MessageSet /\ Alone(First(in)[i].content)
<1> DEFINE U == MergedIn(in)
           F == First(in)
           d == Shift(in)
<1>1. F \in Seq(MessageSet) /\ Len(F) \in Nat
  BY FirstIs, FirstMessages
<1>2. /\ U \in Seq(MessageSet) /\ d \in {0, 1} /\ (d = 1 => F[1] = Filler("user", <<Placeholder>>))
      /\ \A i \in 1 .. Len(F) : i > d => i - d \in DOMAIN U /\ F[i] = Ruled(U, i - d)
  BY FirstMessages
<1>3. \A i \in DOMAIN U : Clear(Cargo(U[i], setting.tools))
  OBVIOUS
<1> HIDE DEF U, F, d
<1>4. ASSUME NEW i \in 1 .. Len(F) PROVE F[i] \in MessageSet /\ Alone(F[i].content)
  <2>1. F[i] \in MessageSet
    BY <1>1
  <2>2. CASE i > d
    <3>1. i - d \in DOMAIN U /\ F[i] = Ruled(U, i - d)
      BY <1>2, <2>2
    <3> DEFINE j == i - d
    <3> HIDE DEF j
    <3>2. ToSet(Ruled(U, j).content) \subseteq ToSet(Cargo(U[j], setting.tools)) /\ Clear(Cargo(U[j], setting.tools))
      BY <1>2, <1>3, <3>1, RuledContent DEF j
    <3>3. Clear(F[i].content)
      BY <3>1, <3>2 DEF Clear, j
    <3> QED
      BY <2>1, <3>3 DEF Alone
  <2>3. CASE ~(i > d)
    <3>1. i = 1 /\ d = 1
      BY <1>1, <1>2, <2>3
    <3>2. F[i].content = <<Placeholder>>
      BY <1>2, <3>1, PlaceholderFiller
    <3> QED
      BY <2>1, <3>2 DEF Alone
  <2> QED
    BY <2>2, <2>3
<1> QED
  BY <1>4 DEF F

\* The prompt stands at the head of the first content, or takes a placeholder's place.
LEMMA FirstContentIs ==
  ASSUME NEW in, Converted(in), First(in) # <<>>, Alone(First(in)[1].content), Clear(Prompt(in))
  PROVE  /\ FirstContent(in) \in Seq(AtomSet) /\ Alone(FirstContent(in))
         /\ ~setting.field => \/ FirstContent(in) = Prompt(in)
                              \/ FirstContent(in) = Prompt(in) \o First(in)[1].content
         /\ Prompt(in) \in Seq(AtomSet) /\ First(in)[1].content \in Seq(AtomSet)
<1> DEFINE p == Prompt(in)
           s == First(in)[1].content
           f == FirstContent(in)
<1>1. f \in Seq(AtomSet) /\ p \in Seq(AtomSet)
  BY FirstContentType, PromptType
<1>2. s \in Seq(AtomSet)
  <2>1. First(in) \in Seq(MessageSet) /\ First(in) # <<>>
    BY FirstIs
  <2>2. First(in)[1] \in MessageSet
    BY <2>1
  <2> QED
    BY <2>2, MessageFields
<1>3. /\ setting.field => f = s
      /\ ~setting.field => f = IF p # <<>> /\ s = <<Placeholder>> THEN p ELSE p \o s
  BY DEF FirstContent, JoinSystemPromptInto
<1>4. Alone(s) /\ Clear(p)
  OBVIOUS
<1> HIDE DEF p, s, f
<1>5. CASE setting.field
  BY <1>1, <1>2, <1>3, <1>4, <1>5 DEF p, s, f
<1>6. CASE ~setting.field
  <2>1. CASE p # <<>> /\ s = <<Placeholder>>
    <3>1. f = p /\ Alone(f)
      BY <1>3, <1>4, <1>6, <2>1 DEF Alone
    <3> QED
      BY <1>1, <1>2, <1>6, <3>1 DEF p, s, f
  <2>2. CASE ~(p # <<>> /\ s = <<Placeholder>>)
    <3>1. f = p \o s
      BY <1>3, <1>6, <2>2
    <3>2. CASE s = <<Placeholder>>
      <4>1. p = <<>> /\ p \o s = s
        BY <1>2, <2>2, <3>2
      <4>2. Alone(f)
        BY <1>4, <3>1, <4>1
      <4> QED
        BY <1>1, <1>2, <1>6, <3>1, <4>2 DEF p, s, f
    <3>3. CASE s # <<Placeholder>>
      <4>1. Clear(p \o s)
        BY <1>1, <1>2, <1>4, <3>3, ClearConcat DEF Alone
      <4>2. Alone(f)
        BY <3>1, <4>1 DEF Alone
      <4> QED
        BY <1>1, <1>2, <1>6, <3>1, <4>2 DEF p, s, f
    <3> QED
      BY <3>2, <3>3
  <2> QED
    BY <2>1, <2>2
<1> QED
  BY <1>5, <1>6

\* What comes first is a prefix.
LEMMA PrefixIs ==
  ASSUME NEW S, NEW p \in Seq(S), NEW s \in Seq(S)
  PROVE  IsPrefix(p, p \o s) /\ IsPrefix(p, p)
<1> DEFINE w == p \o s
<1>1. w \in Seq(S) /\ Len(w) = Len(p) + Len(s) /\ \A i \in 1 .. Len(p) : w[i] = p[i]
  OBVIOUS
<1>2. Len(p) \in Nat /\ Len(s) \in Nat
  OBVIOUS
<1> HIDE DEF w
<1>3. SubSeq(p, 1, Len(p)) = SubSeq(w, 1, Len(p))
  <2> DEFINE a == SubSeq(p, 1, Len(p))
             b == SubSeq(w, 1, Len(p))
  <2>1. \A i \in 1 .. Len(p) : i \in 1 .. Len(w)
    BY <1>1, <1>2
  <2>2. a \in Seq(S) /\ Len(a) = Len(p) /\ \A i \in 1 .. Len(p) : a[i] = p[i]
    BY <1>2
  <2>3. b \in Seq(S) /\ Len(b) = Len(p) /\ \A i \in 1 .. Len(p) : b[i] = w[i]
    BY <1>1, <1>2
  <2> HIDE DEF a, b
  <2>4. a = b
    BY <1>1, <2>2, <2>3, SeqEqual
  <2> QED
    BY <2>4 DEF a, b
<1>4. Len(p) <= Len(w)
  BY <1>1, <1>2
<1>5. IsPrefix(p, w)
  BY <1>3, <1>4 DEF IsPrefix
<1>6. IsPrefix(p, p)
  BY <1>2 DEF IsPrefix
<1> QED
  BY <1>5, <1>6 DEF w

PromptFirst(r, prompt, field) ==
    r.sent =>
        /\ IF field THEN r.system = prompt ELSE IsPrefix(prompt, r.entries[1].content)
        /\ \A i \in DOMAIN r.entries :
              Placeholder \in ToSet(r.entries[i].content) => r.entries[i].content = <<Placeholder>>

\* Whatever was converted, the request begins with the prompt.
LEMMA BuildPrompt ==
  ASSUME NEW in, Converted(in), Clear(in.system),
         \A i \in DOMAIN MergedIn(in) : Clear(Cargo(MergedIn(in)[i], setting.tools))
  PROVE  PromptFirst(Build(in), Prompt(in), setting.field)
<1> DEFINE r == Build(in)
           p == Prompt(in)
           F == First(in)
           C == Closed(in)
<1>1. CASE r = Refused
  BY <1>1 DEF Refused, PromptFirst
<1>2. CASE r # Refused
  <2>1. /\ F # <<>> /\ r.system = (IF setting.field THEN p ELSE <<>>)
        /\ DOMAIN r.entries = 1 .. Len(C) /\ Len(C) \in Nat /\ \A i \in 1 .. Len(C) : r.entries[i] = Entry(C[i])
    BY <1>2, EntriesAre
  <2>2. Clear(p)
    <3>1. <<Docs>> \in Seq(AtomSet) /\ <<>> \in Seq(AtomSet) /\ in.system \in Seq(AtomSet)
      BY PlaceholderType DEF Converted
    <3>2. Clear(in.system \o <<Docs>>) /\ Clear(in.system \o <<>>)
      BY <3>1, ClearNothing, ClearConcat
    <3> QED
      BY <3>2 DEF Prompt
  <2>3. \A i \in 1 .. Len(F) : F[i] \in MessageSet /\ Alone(F[i].content)
    BY <2>1, FirstAlone
  <2>4. Len(F) \in Nat /\ 1 \in 1 .. Len(F)
    <3>1. F \in Seq(MessageSet)
      BY FirstIs
    <3> HIDE DEF F
    <3> QED
      BY <2>1, <3>1
  <2>5. /\ FirstContent(in) \in Seq(AtomSet) /\ Alone(FirstContent(in))
        /\ ~setting.field => \/ FirstContent(in) = p
                             \/ FirstContent(in) = p \o F[1].content
        /\ p \in Seq(AtomSet) /\ F[1].content \in Seq(AtomSet)
    BY <2>1, <2>2, <2>3, <2>4, FirstContentIs
  <2>6. /\ \A i \in 2 .. Len(F) : Placed(in)[i] = F[i]
        /\ Placed(in)[1].content = FirstContent(in)
    BY <2>1, PlacedIs
  <2>7. /\ \A i \in 1 .. Len(F) : C[i] = Placed(in)[i]
        /\ \/ Len(C) = Len(F)
           \/ Len(C) = Len(F) + 1 /\ C[Len(F) + 1] = Filler("user", <<Placeholder>>)
    BY <2>1, ClosedIs
  <2> HIDE DEF r, p, F, C
  <2>8. ASSUME NEW i \in 1 .. Len(C) PROVE Alone(C[i].content)
    <3>1. CASE i \in 1 .. Len(F)
      <4>1. CASE i = 1
        BY <2>5, <2>6, <2>7, <3>1, <4>1
      <4>2. CASE i # 1
        <5>1. i \in 2 .. Len(F)
          BY <2>4, <3>1, <4>2
        <5> QED
          BY <2>3, <2>6, <2>7, <3>1, <5>1
      <4> QED
        BY <4>1, <4>2
    <3>2. CASE i \notin 1 .. Len(F)
      <4>1. C[i] = Filler("user", <<Placeholder>>)
        BY <2>4, <2>7, <2>8, <3>2
      <4> QED
        BY <4>1, PlaceholderFiller DEF Alone
    <3> QED
      BY <3>1, <3>2
  <2>9. ASSUME NEW i \in 1 .. Len(C), Placeholder \in ToSet(r.entries[i].content)
        PROVE  r.entries[i].content = <<Placeholder>>
    <3>1. r.entries[i].content = IF C[i].content = <<>> THEN <<Placeholder>> ELSE C[i].content
      BY <2>1, EntryIs
    <3>2. CASE C[i].content = <<>>
      BY <3>1, <3>2
    <3>3. CASE C[i].content # <<>>
      <4>1. ~Clear(C[i].content)
        BY <2>9, <3>1, <3>3, ClearHasNone
      <4> QED
        BY <2>8, <3>1, <3>3, <4>1 DEF Alone
    <3> QED
      BY <3>2, <3>3
  <2>10. ASSUME ~setting.field PROVE IsPrefix(p, r.entries[1].content)
    <3>1. 1 \in 1 .. Len(C) /\ C[1].content = FirstContent(in)
      BY <2>1, <2>4, <2>6, <2>7
    <3> DEFINE f == FirstContent(in)
    <3>2. r.entries[1].content = IF f = <<>> THEN <<Placeholder>> ELSE f
      BY <2>1, <3>1, EntryIs
    <3> HIDE DEF f
    <3>3. f = p \/ f = p \o F[1].content
      BY <2>5, <2>10 DEF f
    <3>4. CASE f = <<>>
      <4>1. p = <<>>
        <5>1. CASE f = p \o F[1].content
          BY <2>5, <3>4, <5>1
        <5> QED
          BY <3>3, <3>4, <5>1
      <4>2. r.entries[1].content = <<>> \o <<Placeholder>> /\ <<Placeholder>> \in Seq(AtomSet) /\ <<>> \in Seq(AtomSet)
        BY <3>2, <3>4, PlaceholderType
      <4> QED
        BY <4>1, <4>2, PrefixIs
    <3>5. CASE f # <<>>
      <4>1. r.entries[1].content = f
        BY <3>2, <3>5
      <4> QED
        BY <2>5, <3>3, <4>1, PrefixIs
    <3> QED
      BY <3>4, <3>5
  <2> QED
    BY <2>1, <2>9, <2>10 DEF PromptFirst, r, p
<1> QED
  BY <1>1, <1>2

-----------------------------------------------------------------------------
(* The system prompt of a conversation.                                     *)

SystemText(c, s) ==
    IF s.surface = "anthropic" THEN IF s.system THEN <<Atom("text", 0, NoId)>> ELSE <<>>
    ELSE SystemOf(c)
PromptOf(c, s) == SystemText(c, s) \o IF "wordy" \in s.tools THEN <<Docs>> ELSE <<>>

\* What the ledger says of the pieces is what BuildPrompt asks.
LEMMA LedgerClear ==
  ASSUME NEW c, NEW U, NEW P, NEW S, NEW tools, Ledger(c, U, P, S, tools)
  PROVE  Clear(S) /\ \A i \in DOMAIN U : Clear(Cargo(U[i], tools))
<1>1. Books(c, U, P, S, tools)
  BY DEF Ledger
<1>2. /\ \A i \in DOMAIN U : \A a \in ToSet(Cargo(U[i], tools)) : a.what # "placeholder"
      /\ \A a \in ToSet(Bag(P)) \cup ToSet(S) : a.what # "placeholder"
  BY <1>1, BooksPieces
<1> QED
  BY <1>2 DEF Clear

\* On the OpenAI surface the prompt is the system turns,
LEMMA OpenAIPrompt ==
  ASSUME NEW c \in Seq(OpenAITurns), setting.surface = "openai"
  PROVE  PromptFirst(Build(FromOpenAI(c)), PromptOf(c, setting), setting.field)
<1> DEFINE in == FromOpenAI(c)
<1>1. Ledger(c, MergedIn(in), <<>>, in.system, setting.tools) /\ Converted(in)
  BY OpenAILedger DEF MergedIn
<1>2. in.system = SystemOf(c)
  BY <1>1 DEF Ledger
<1>3. Clear(in.system) /\ \A i \in DOMAIN MergedIn(in) : Clear(Cargo(MergedIn(in)[i], setting.tools))
  BY <1>1, LedgerClear
<1> HIDE DEF in
<1>4. PromptFirst(Build(in), Prompt(in), setting.field)
  BY <1>1, <1>3, BuildPrompt
<1>5. Prompt(in) = PromptOf(c, setting)
  BY <1>2 DEF Prompt, PromptOf, SystemText
<1> QED
  BY <1>4, <1>5 DEF in

\* on the Anthropic surface the setting's.
LEMMA AnthropicPrompt ==
  ASSUME NEW c \in Seq(AnthropicTurns), setting.surface = "anthropic"
  PROVE  PromptFirst(Build(FromAnthropic(c)), PromptOf(c, setting), setting.field)
<1> DEFINE in == FromAnthropic(c)
<1>1. Ledger(c, MergedIn(in), <<>>, <<>>, setting.tools) /\ Converted(in)
  BY AnthropicLedger DEF MergedIn
<1>2. in.system = IF setting.system THEN <<Atom("text", 0, NoId)>> ELSE <<>>
  BY DEF FromAnthropic
<1>3. \A i \in DOMAIN MergedIn(in) : Clear(Cargo(MergedIn(in)[i], setting.tools))
  BY <1>1, LedgerClear
<1> HIDE DEF in
<1>4. Clear(in.system)
  <2>1. ToSet(<<Atom("text", 0, NoId)>>) = {Atom("text", 0, NoId)} /\ ToSet(<<>>) = {}
    BY DEF ToSet
  <2>2. Atom("text", 0, NoId).what # "placeholder"
    BY DEF Atom
  <2>3. CASE setting.system
    BY <1>2, <2>1, <2>2, <2>3 DEF Clear
  <2>4. CASE ~setting.system
    BY <1>2, <2>1, <2>4 DEF Clear
  <2> QED
    BY <2>3, <2>4
<1>5. PromptFirst(Build(in), Prompt(in), setting.field)
  BY <1>1, <1>3, <1>4, BuildPrompt
<1>6. Prompt(in) = PromptOf(c, setting)
  BY <1>2 DEF Prompt, PromptOf, SystemText
<1> QED
  BY <1>5, <1>6 DEF in

\* The request is made of a conversation of the surface's turns.
LEMMA Requested ==
  ASSUME Speech, Speech', Next
  PROVE  /\ setting' = setting
         /\ \/ setting.surface = "openai" /\ turns' \in Seq(OpenAITurns)
                /\ request' = Build(FromOpenAI(turns'))
            \/ setting.surface = "anthropic" /\ turns' \in Seq(AnthropicTurns)
                /\ request' = Build(FromAnthropic(turns'))
<1>1. /\ setting' = setting
      /\ \/ setting.surface = "openai" /\ request' = Build(FromOpenAI(turns'))
         \/ setting.surface = "anthropic" /\ request' = Build(FromAnthropic(turns'))
  BY RequestIs
<1>2. \/ setting'.surface = "openai" /\ turns' \in Seq(OpenAITurns)
      \/ setting'.surface = "anthropic" /\ turns' \in Seq(AnthropicTurns)
  BY SettingsAssumption DEF Speech, Surface
<1> QED
  BY <1>1, <1>2

\* The instructions of every conversation stand at the head of what is sent and are
\* never mixed with a placeholder (JoinSystemPromptInto, invariants.go:623-626).
Prompted == Speech /\ PromptFirst(request, PromptOf(turns, setting), setting.field)

THEOREM PromptLeads == Spec => []PromptComesFirst
<1>1. Init => Prompted
  <2>1. Init => PromptFirst(request, PromptOf(turns, setting), setting.field)
    BY DEF Init, Refused, PromptFirst
  <2> QED
    BY <2>1, SpeechInit DEF Prompted
<1>2. Prompted /\ [Next]_vars => Prompted'
  <2> SUFFICES ASSUME Prompted, [Next]_vars PROVE Prompted'
    OBVIOUS
  <2>1. Speech /\ Speech'
    BY SpeechStep DEF Prompted
  <2>2. CASE Next
    <3>1. /\ setting' = setting
          /\ \/ setting.surface = "openai" /\ turns' \in Seq(OpenAITurns)
                 /\ request' = Build(FromOpenAI(turns'))
             \/ setting.surface = "anthropic" /\ turns' \in Seq(AnthropicTurns)
                 /\ request' = Build(FromAnthropic(turns'))
      BY <2>1, <2>2, Requested
    <3>2. PromptFirst(request', PromptOf(turns', setting), setting.field)
      BY <3>1, OpenAIPrompt, AnthropicPrompt
    <3> QED
      BY <2>1, <3>1, <3>2 DEF Prompted, PromptFirst, PromptOf, SystemText, SystemOf
  <2>3. CASE UNCHANGED vars
    BY <2>1, <2>3 DEF Prompted, vars, PromptFirst, PromptOf, SystemText, SystemOf
  <2> QED
    BY <2>2, <2>3
<1>3. Prompted => PromptComesFirst
  <2> SUFFICES ASSUME Prompted PROVE PromptComesFirst
    OBVIOUS
  <2> DEFINE system == IF setting.surface = "anthropic" THEN FromAnthropic(turns).system
                       ELSE FlattenSeq([n \in DOMAIN turns |->
                              IF turns[n].role = "system" THEN TextOf(n, turns[n]) ELSE <<>>])
             prompt == system \o IF "wordy" \in setting.tools THEN <<Docs>> ELSE <<>>
  <2>1. FromAnthropic(turns).system = IF setting.system THEN <<Atom("text", 0, NoId)>> ELSE <<>>
    BY DEF FromAnthropic
  <2>2. SystemOf(turns) = FlattenSeq([n \in DOMAIN turns |->
          IF turns[n].role = "system" THEN TextOf(n, turns[n]) ELSE <<>>])
    BY DEF SystemOf, SystemTurn
  <2>3. system = SystemText(turns, setting)
    BY <2>1, <2>2 DEF SystemText
  <2>4. prompt = PromptOf(turns, setting)
    BY <2>3 DEF PromptOf
  <2> HIDE DEF prompt
  <2>5. PromptFirst(request, prompt, setting.field)
    BY <2>4 DEF Prompted
  <2>6. PromptComesFirst <=> PromptFirst(request, prompt, setting.field)
    BY DEF PromptComesFirst, PromptFirst, prompt
  <2> QED
    BY <2>5, <2>6
<1> QED
  BY <1>1, <1>2, <1>3, PTL DEF Spec

-----------------------------------------------------------------------------
(* What the turns contributed to a text (OfTurns).                          *)

Turned == {a \in AtomSet : a.turn > 0}
TurnedMap == OnlyMap(AtomSet, Turned)
AllTurned(s) == \A a \in ToSet(s) : a.turn > 0

\* What the turns brought, kept in order.
LEMMA OfTurnsIs ==
  ASSUME NEW s \in Seq(AtomSet)
  PROVE  /\ OfTurns(s) = Spread(TurnedMap, s)
         /\ OfTurns(s) \in Seq(AtomSet)
         /\ \A a : a \in ToSet(OfTurns(s)) <=> a \in ToSet(s) /\ a.turn > 0
         /\ AllTurned(s) => OfTurns(s) = s
<1> DEFINE Those == {a \in ToSet(s) : a.turn > 0}
<1>1. \A i \in DOMAIN s : s[i] \in AtomSet /\ s[i] \in ToSet(s)
  BY DEF ToSet
<1>2. \A i \in DOMAIN s : s[i] \in Those <=> s[i] \in Turned
  BY <1>1 DEF Turned
<1> HIDE DEF Those
<1>3. Only(s, Those) = Only(s, Turned)
  BY <1>2 DEF Only
<1>4. OfTurns(s) = Only(s, Those)
  BY DEF OfTurns, Those
<1>5. Only(s, Turned) = Spread(TurnedMap, s)
  BY OnlySpread DEF TurnedMap
<1>6. Only(s, Those) \in Seq(AtomSet) /\ ToSet(Only(s, Those)) = ToSet(s) \cap Those
  BY OnlyRange
<1>7. \A a : a \in ToSet(s) \cap Those <=> a \in ToSet(s) /\ a.turn > 0
  BY DEF Those
<1>8. ASSUME AllTurned(s) PROVE Only(s, Those) = s
  <2>1. ToSet(s) \subseteq Those
    BY <1>8 DEF AllTurned, Those
  <2> DEFINE T == ToSet(s)
  <2>2. s \in Seq(T)
    BY <1>1
  <2> HIDE DEF T
  <2> QED
    BY <2>1, <2>2, OnlyAll DEF T
<1> QED
  BY <1>3, <1>4, <1>5, <1>6, <1>7, <1>8

\* Putting together keeps what the turns brought.
LEMMA OfTurnsConcat ==
  ASSUME NEW s \in Seq(AtomSet), NEW t \in Seq(AtomSet)
  PROVE  s \o t \in Seq(AtomSet) /\ OfTurns(s \o t) = OfTurns(s) \o OfTurns(t)
<1>1. Spreads(TurnedMap, AtomSet, AtomSet)
  BY OnlyMapType DEF TurnedMap
<1>2. s \o t \in Seq(AtomSet)
  OBVIOUS
<1>3. Spread(TurnedMap, s \o t) = Spread(TurnedMap, s) \o Spread(TurnedMap, t)
  <2>1. ASSUME NEW B, Spreads(TurnedMap, AtomSet, B)
        PROVE  Spread(TurnedMap, s \o t) = Spread(TurnedMap, s) \o Spread(TurnedMap, t)
    BY <2>1, SpreadConcat
  <2> QED
    BY <1>1, <2>1
<1> DEFINE w == s \o t
<1> HIDE DEF w
<1>4. w \in Seq(AtomSet)
  BY <1>2 DEF w
<1>5. OfTurns(w) = Spread(TurnedMap, w) /\ OfTurns(s) = Spread(TurnedMap, s) /\ OfTurns(t) = Spread(TurnedMap, t)
  BY <1>4, OfTurnsIs
<1> QED
  BY <1>2, <1>3, <1>5 DEF w

\* What Build puts there itself, or takes from the system field, is no turn's.
LEMMA OfNoTurn ==
  /\ OfTurns(<<>>) = <<>> /\ OfTurns(<<Placeholder>>) = <<>> /\ OfTurns(<<Docs>>) = <<>>
  /\ OfTurns(<<Atom("text", 0, NoId)>>) = <<>>
<1>1. ASSUME NEW s \in Seq(AtomSet), \A a \in ToSet(s) : a.turn = 0
      PROVE  OfTurns(s) = <<>>
  <2>1. OfTurns(s) \in Seq(AtomSet) /\ \A a : a \in ToSet(OfTurns(s)) <=> a \in ToSet(s) /\ a.turn > 0
    BY OfTurnsIs
  <2>2. \A a : a \notin ToSet(OfTurns(s))
    <3>1. \A a \in ToSet(s) : ~(a.turn > 0)
      BY <1>1
    <3> QED
      BY <2>1, <3>1
  <2> DEFINE w == OfTurns(s)
  <2> HIDE DEF w
  <2>3. w \in Seq(AtomSet) /\ \A i \in DOMAIN w : FALSE
    BY <2>1, <2>2 DEF w, ToSet
  <2>4. w = <<>>
    <3>1. Len(w) = 0
      <4>1. Len(w) \in Nat /\ (Len(w) > 0 => 1 \in DOMAIN w)
        BY <2>3
      <4> QED
        BY <2>3, <4>1
    <3> QED
      BY <2>3, <3>1
  <2> QED
    BY <2>4 DEF w
<1>2. ASSUME NEW a \in AtomSet, a.turn = 0 PROVE OfTurns(<<a>>) = <<>>
  <2>1. <<a>> \in Seq(AtomSet) /\ ToSet(<<a>>) = {a}
    BY <1>2 DEF ToSet
  <2> QED
    BY <1>1, <1>2, <2>1
<1>3. <<>> \in Seq(AtomSet) /\ ToSet(<<>>) = {}
  BY DEF ToSet
<1>4. Atom("text", 0, NoId) \in AtomSet /\ Placeholder \in AtomSet /\ Docs \in AtomSet
  BY AtomType, IdTypes, PlaceholderType
<1>5. Atom("text", 0, NoId).turn = 0 /\ Placeholder.turn = 0 /\ Docs.turn = 0
  BY DEF Atom, Placeholder, Docs
<1> QED
  BY <1>1, <1>2, <1>3, <1>4, <1>5

-----------------------------------------------------------------------------
(* What an entry holds of the turns.                                        *)

PiecesIn(e) == OfTurns(e.content \o e.calls \o e.results \o e.images)
Same(s, t) == Len(s) = Len(t) /\ ToSet(s) = ToSet(t)

OfFour(a, b, c, d) ==
    OfTurns(((a \o b) \o c) \o d) = ((OfTurns(a) \o OfTurns(b)) \o OfTurns(c)) \o OfTurns(d)

\* The same for four parts.
LEMMA OfTurnsFour ==
  ASSUME NEW a \in Seq(AtomSet), NEW b \in Seq(AtomSet), NEW c \in Seq(AtomSet), NEW d \in Seq(AtomSet)
  PROVE  /\ OfFour(a, b, c, d)
         /\ ((a \o b) \o c) \o d \in Seq(AtomSet)
         /\ OfTurns(a) \in Seq(AtomSet) /\ OfTurns(b) \in Seq(AtomSet)
         /\ OfTurns(c) \in Seq(AtomSet) /\ OfTurns(d) \in Seq(AtomSet)
<1> DEFINE v == a \o b
           w == v \o c
<1>1. v \in Seq(AtomSet) /\ OfTurns(v) = OfTurns(a) \o OfTurns(b)
  BY OfTurnsConcat
<1> HIDE DEF v
<1>2. w \in Seq(AtomSet) /\ OfTurns(w) = OfTurns(v) \o OfTurns(c)
  BY <1>1, OfTurnsConcat
<1> HIDE DEF w
<1>3. OfTurns(w \o d) = OfTurns(w) \o OfTurns(d) /\ w \o d \in Seq(AtomSet)
  BY <1>2, OfTurnsConcat
<1> QED
  BY <1>1, <1>2, <1>3, OfTurnsIs DEF w, v, OfFour

\* An entry holds the message, but for what its side cannot carry.
Carried(m) ==
    ((OfTurns(m.content) \o OfTurns(IF m.role = "user" THEN <<>> ELSE m.calls))
        \o OfTurns(IF m.role = "user" THEN AtomsOf(m.results) ELSE <<>>))
       \o OfTurns(IF m.role = "user" THEN m.images \o ImagesIn(m.results) ELSE <<>>)

\* Formatting loses nothing that the side can carry.
LEMMA EntryCarries ==
  ASSUME NEW m \in MessageSet
  PROVE  PiecesIn(Entry(m)) = Carried(m)
<1> DEFINE e == Entry(m)
           a == e.content
           b == IF m.role = "user" THEN <<>> ELSE m.calls
           c == IF m.role = "user" THEN AtomsOf(m.results) ELSE <<>>
           d == IF m.role = "user" THEN m.images \o ImagesIn(m.results) ELSE <<>>
<1>1. /\ m.content \in Seq(AtomSet) /\ m.calls \in Seq(AtomSet) /\ m.images \in Seq(AtomSet)
      /\ AtomsOf(m.results) \in Seq(AtomSet) /\ ImagesIn(m.results) \in Seq(AtomSet)
      /\ <<Placeholder>> \in Seq(AtomSet)
  BY MessageFields, AtomsOfIs, ImagesInIs, PlaceholderType
<1>2. a = IF m.content = <<>> THEN <<Placeholder>> ELSE m.content
  BY EntryIs
<1>3. a \in Seq(AtomSet) /\ OfTurns(a) = OfTurns(m.content)
  <2>1. OfTurns(<<Placeholder>>) = OfTurns(<<>>)
    BY OfNoTurn
  <2> HIDE DEF a
  <2>2. CASE m.content = <<>>
    BY <1>1, <1>2, <2>1, <2>2
  <2>3. CASE m.content # <<>>
    BY <1>1, <1>2, <2>3
  <2> QED
    BY <2>2, <2>3
<1>4. e.calls = b /\ e.results = c /\ e.images = d
  BY EntryIs
<1>5. b \in Seq(AtomSet) /\ c \in Seq(AtomSet) /\ d \in Seq(AtomSet)
  BY <1>1
<1>6. PiecesIn(e) = OfTurns(((a \o b) \o c) \o d)
  BY <1>4 DEF PiecesIn
<1>7. Carried(m) = ((OfTurns(m.content) \o OfTurns(b)) \o OfTurns(c)) \o OfTurns(d)
  BY DEF Carried
<1> HIDE DEF e, a, b, c, d
<1>8. a \in Seq(AtomSet) /\ b \in Seq(AtomSet) /\ c \in Seq(AtomSet) /\ d \in Seq(AtomSet)
  BY <1>3, <1>5
<1>9. OfFour(a, b, c, d)
  BY <1>8, OfTurnsFour
<1> QED
  BY <1>3, <1>6, <1>7, <1>9 DEF e, OfFour

\* Kept and inlined results are together the message's.
LEMMA ResultsSplit ==
  ASSUME NEW U \in Seq(MessageSet), NEW i \in DOMAIN U
  PROVE  LET r == U[i].results
             o == Orphans(U, i)
             k == Only(r, Kept(U, i))
         IN  /\ Adds(AtomsOf(r), AtomsOf(o), AtomsOf(k)) /\ Adds(ImagesIn(r), ImagesIn(o), ImagesIn(k))
             /\ r \in Seq(ResultSet) /\ o \in Seq(ResultSet) /\ k \in Seq(ResultSet)
             /\ Kept(U, i) = {} => o = r
<1> DEFINE r == U[i].results
           K == Kept(U, i)
           S == ToSet(r) \ K
           R == ResultSet \ S
           o == Only(r, S)
           k == Only(r, K)
<1>1. U[i] \in MessageSet
  OBVIOUS
<1>2. r \in Seq(ResultSet)
  BY <1>1, MessageFields
<1>3. K \subseteq ToSet(r)
  BY DEF Kept
<1> HIDE DEF r, K
<1>4. \A j \in DOMAIN r : r[j] \in ToSet(r) /\ r[j] \in ResultSet
  BY <1>2 DEF ToSet
<1>5. \A j \in DOMAIN r : r[j] \in K <=> r[j] \in R
  BY <1>4
<1>6. \A x \in ResultSet : x \in S <=> x \notin R
  BY <1>2 DEF ToSet
<1> HIDE DEF S, R
<1>7. Only(r, K) = Only(r, R)
  BY <1>5 DEF Only
<1>8. Halves(ImageMap, r, Only(r, S), Only(r, R))
  BY <1>2, <1>6, ImageMapType, OnlySplits
<1>9. o \in Seq(ResultSet) /\ ToSet(o) = ToSet(r) \cap S /\ k \in Seq(ResultSet) /\ ToSet(k) = ToSet(r) \cap K
  BY <1>2, OnlyRange
<1>10. ToSet(r) = ToSet(o) \cup ToSet(k)
  BY <1>9 DEF S
<1>11. Len(o) + Len(k) = Len(r) /\ Len(Spread(ImageMap, o)) + Len(Spread(ImageMap, k)) = Len(Spread(ImageMap, r))
  BY <1>7, <1>8 DEF Halves
<1>12. K = {} => o = r
  <2>1. ASSUME K = {} PROVE o = r
    <3> DEFINE T == ToSet(r)
    <3>1. S = T
      BY <2>1 DEF S
    <3>2. r \in Seq(T)
      BY <1>2, <1>4
    <3> HIDE DEF T
    <3> QED
      BY <3>1, <3>2, OnlyAll
  <2> QED
    BY <2>1
<1>13. Orphans(U, i) = o
  BY DEF Orphans, o, S, r, K
<1> HIDE DEF o, k
<1>14. Adds(AtomsOf(r), AtomsOf(o), AtomsOf(k))
  <2>1. Len(AtomsOf(r)) = Len(AtomsOf(o)) + Len(AtomsOf(k))
    BY <1>2, <1>9, <1>11, AtomsOfIs
  <2>2. ToSet(AtomsOf(r)) = ToSet(AtomsOf(o)) \cup ToSet(AtomsOf(k))
    <3>1. /\ \A a : a \in ToSet(AtomsOf(r)) <=> \E e \in ToSet(r) : a = e.atom
          /\ \A a : a \in ToSet(AtomsOf(o)) <=> \E e \in ToSet(o) : a = e.atom
          /\ \A a : a \in ToSet(AtomsOf(k)) <=> \E e \in ToSet(k) : a = e.atom
      BY <1>2, <1>9, AtomsOfIs
    <3>2. \A a : a \in ToSet(AtomsOf(r)) <=> a \in ToSet(AtomsOf(o)) \/ a \in ToSet(AtomsOf(k))
      BY <1>10, <3>1, Zenon
    <3> QED
      BY <3>2
  <2> QED
    BY <2>1, <2>2 DEF Adds
<1>15. Adds(ImagesIn(r), ImagesIn(o), ImagesIn(k))
  <2>1. Len(ImagesIn(r)) = Len(ImagesIn(o)) + Len(ImagesIn(k))
    BY <1>2, <1>9, <1>11, ImagesInIs
  <2>2. ToSet(ImagesIn(r)) = ToSet(ImagesIn(o)) \cup ToSet(ImagesIn(k))
    <3>1. /\ \A a : a \in ToSet(ImagesIn(r)) <=> \E e \in ToSet(r) : a \in ToSet(e.images)
          /\ \A a : a \in ToSet(ImagesIn(o)) <=> \E e \in ToSet(o) : a \in ToSet(e.images)
          /\ \A a : a \in ToSet(ImagesIn(k)) <=> \E e \in ToSet(k) : a \in ToSet(e.images)
      BY <1>2, <1>9, ImagesInIs
    <3>2. \A a : a \in ToSet(ImagesIn(r)) <=> a \in ToSet(ImagesIn(o)) \/ a \in ToSet(ImagesIn(k))
      BY <1>10, <3>1, Zenon
    <3> QED
      BY <3>2
  <2> QED
    BY <2>1, <2>2 DEF Adds
<1> QED
  BY <1>2, <1>9, <1>12, <1>13, <1>14, <1>15 DEF r, k, K

\* The parts of a message, and of what has a place of it.
Parts(x, a, b, c, d) ==
    /\ Len(x) = ((Len(a) + Len(b)) + Len(c)) + Len(d)
    /\ ToSet(x) = ((ToSet(a) \cup ToSet(b)) \cup ToSet(c)) \cup ToSet(d)

\* Four parts are the parts of the whole.
LEMMA PartsOfFour ==
  ASSUME NEW a \in Seq(AtomSet), NEW b \in Seq(AtomSet), NEW c \in Seq(AtomSet), NEW d \in Seq(AtomSet)
  PROVE  Parts(((a \o b) \o c) \o d, a, b, c, d)
BY Four DEF Parts

\* The parts of a message's cargo,
LEMMA CargoParts ==
  ASSUME NEW m \in MessageSet, NEW tools
  PROVE  Parts(Cargo(m, tools), m.content, AtomsOf(m.results),
               IF m.role = "assistant" \/ tools = {} THEN m.calls ELSE <<>>,
               IF m.role # "assistant" THEN m.images \o ImagesIn(m.results) ELSE <<>>)
<1> DEFINE a == m.content
           b == AtomsOf(m.results)
           p == IF m.role = "assistant" \/ tools = {} THEN m.calls ELSE <<>>
           q == IF m.role # "assistant" THEN m.images \o ImagesIn(m.results) ELSE <<>>
<1>1. a \in Seq(AtomSet) /\ b \in Seq(AtomSet) /\ p \in Seq(AtomSet) /\ q \in Seq(AtomSet)
  BY CargoType
<1>2. Cargo(m, tools) = ((a \o b) \o p) \o q
  BY DEF Cargo
<1> HIDE DEF a, b, p, q
<1>3. Parts(((a \o b) \o p) \o q, a, b, p, q)
  BY <1>1, PartsOfFour
<1>4. Parts(Cargo(m, tools), a, b, p, q)
  BY <1>2, <1>3
<1> QED
  BY <1>4 DEF a, b, p, q

\* and of what an entry carries for it.
LEMMA CarriedParts ==
  ASSUME NEW m \in MessageSet, AllTurned(m.content),
         m.role = "user" => AllTurned(AtomsOf(m.results)) /\ AllTurned(m.images \o ImagesIn(m.results)),
         m.role # "user" => AllTurned(m.calls)
  PROVE  Parts(Carried(m), m.content, IF m.role = "user" THEN <<>> ELSE m.calls,
               IF m.role = "user" THEN AtomsOf(m.results) ELSE <<>>,
               IF m.role = "user" THEN m.images \o ImagesIn(m.results) ELSE <<>>)
<1> DEFINE a == m.content
           b == IF m.role = "user" THEN <<>> ELSE m.calls
           c == IF m.role = "user" THEN AtomsOf(m.results) ELSE <<>>
           d == IF m.role = "user" THEN m.images \o ImagesIn(m.results) ELSE <<>>
<1>1. /\ m.content \in Seq(AtomSet) /\ m.calls \in Seq(AtomSet) /\ m.images \in Seq(AtomSet)
      /\ AtomsOf(m.results) \in Seq(AtomSet) /\ ImagesIn(m.results) \in Seq(AtomSet)
  BY MessageFields, AtomsOfIs, ImagesInIs
<1>2. a \in Seq(AtomSet) /\ b \in Seq(AtomSet) /\ c \in Seq(AtomSet) /\ d \in Seq(AtomSet)
  BY <1>1
<1>3. AllTurned(<<>>)
  BY NoIds DEF AllTurned
<1>4. AllTurned(a) /\ AllTurned(b) /\ AllTurned(c) /\ AllTurned(d)
  BY <1>3
<1>5. Carried(m) = ((OfTurns(a) \o OfTurns(b)) \o OfTurns(c)) \o OfTurns(d)
  BY DEF Carried
<1> HIDE DEF a, b, c, d
<1>6. OfTurns(a) = a /\ OfTurns(b) = b /\ OfTurns(c) = c /\ OfTurns(d) = d
  BY <1>2, <1>4, OfTurnsIs
<1>7. Parts(((a \o b) \o c) \o d, a, b, c, d)
  BY <1>2, PartsOfFour
<1>8. Parts(Carried(m), a, b, c, d)
  BY <1>5, <1>6, <1>7
<1> QED
  BY <1>8 DEF a, b, c, d

\* The same pieces, grouped as each of the rules does.
LEMMA TextualSame ==
  ASSUME NEW c \in Seq(AtomSet), NEW k \in Seq(AtomSet), NEW a \in Seq(AtomSet), NEW p \in Seq(AtomSet),
         NEW x, NEW y, NEW w, w = (c \o k) \o a, Parts(x, w, <<>>, <<>>, p), Parts(y, c, a, k, p)
  PROVE  Same(x, y)
<1>1. Len(w) = (Len(c) + Len(k)) + Len(a) /\ ToSet(w) = (ToSet(c) \cup ToSet(k)) \cup ToSet(a)
  BY Three
<1>2. Len(<<>>) = 0 /\ ToSet(<<>>) = {}
  BY NoIds
<1>3. Len(c) \in Nat /\ Len(k) \in Nat /\ Len(a) \in Nat /\ Len(p) \in Nat
  OBVIOUS
<1>4. Len(x) = ((Len(w) + 0) + 0) + Len(p) /\ Len(y) = ((Len(c) + Len(a)) + Len(k)) + Len(p)
  BY <1>2 DEF Parts
<1>5. Len(x) = Len(y)
  BY <1>1, <1>3, <1>4
<1>6. /\ ToSet(x) = ((ToSet(w) \cup {}) \cup {}) \cup ToSet(p)
      /\ ToSet(y) = ((ToSet(c) \cup ToSet(a)) \cup ToSet(k)) \cup ToSet(p)
  BY <1>2 DEF Parts
<1>7. ToSet(x) = ToSet(y)
  BY <1>1, <1>6
<1> QED
  BY <1>5, <1>7 DEF Same

\* Content and results side by side are the same as results inlined in the content.
LEMMA SpokenSame ==
  ASSUME NEW c \in Seq(AtomSet), NEW a \in Seq(AtomSet), NEW k \in Seq(AtomSet),
         NEW x, NEW y, NEW w, w = c \o a, Parts(x, w, k, <<>>, <<>>), Parts(y, c, a, k, <<>>)
  PROVE  Same(x, y)
<1>1. Len(w) = Len(c) + Len(a) /\ ToSet(w) = ToSet(c) \cup ToSet(a)
  BY ConcatAdds DEF Adds
<1>2. Len(<<>>) = 0 /\ ToSet(<<>>) = {}
  BY NoIds
<1>3. Len(c) \in Nat /\ Len(k) \in Nat /\ Len(a) \in Nat
  OBVIOUS
<1>4. Len(x) = ((Len(w) + Len(k)) + 0) + 0 /\ Len(y) = ((Len(c) + Len(a)) + Len(k)) + 0
  BY <1>2 DEF Parts
<1>5. Len(x) = Len(y)
  BY <1>1, <1>3, <1>4
<1>6. /\ ToSet(x) = ((ToSet(w) \cup ToSet(k)) \cup {}) \cup {}
      /\ ToSet(y) = ((ToSet(c) \cup ToSet(a)) \cup ToSet(k)) \cup {}
  BY <1>2 DEF Parts
<1>7. ToSet(x) = ToSet(y)
  BY <1>1, <1>6
<1> QED
  BY <1>5, <1>7 DEF Same

\* o and k are the two parts of a, u and v those of g.
LEMMA InlinedSame ==
  ASSUME NEW c \in Seq(AtomSet), NEW a \in Seq(AtomSet), NEW o \in Seq(AtomSet), NEW k \in Seq(AtomSet),
         NEW i \in Seq(AtomSet), NEW g \in Seq(AtomSet), NEW u \in Seq(AtomSet), NEW v \in Seq(AtomSet),
         Adds(a, o, k), Adds(g, u, v), NEW x, NEW y,
         Parts(x, c \o o, <<>>, k, (i \o u) \o v), Parts(y, c, a, <<>>, i \o g)
  PROVE  Same(x, y)
<1> DEFINE w == c \o o
           p == (i \o u) \o v
           q == i \o g
<1>1. /\ Len(w) = Len(c) + Len(o) /\ Len(q) = Len(i) + Len(g)
      /\ ToSet(w) = ToSet(c) \cup ToSet(o) /\ ToSet(q) = ToSet(i) \cup ToSet(g)
  <2>1. Adds(w, c, o) /\ Adds(q, i, g)
    BY ConcatAdds
  <2> HIDE DEF w, q
  <2> QED
    BY <2>1, Zenon DEF Adds
<1>2. Len(p) = (Len(i) + Len(u)) + Len(v) /\ ToSet(p) = (ToSet(i) \cup ToSet(u)) \cup ToSet(v)
  BY Three
<1>3. Len(<<>>) = 0 /\ ToSet(<<>>) = {}
  BY NoIds
<1> HIDE DEF w, p, q
<1>4. /\ Len(c) \in Nat /\ Len(o) \in Nat /\ Len(k) \in Nat /\ Len(i) \in Nat
      /\ Len(u) \in Nat /\ Len(v) \in Nat
  OBVIOUS
<1>5. /\ Len(a) = Len(o) + Len(k) /\ Len(g) = Len(u) + Len(v)
      /\ ToSet(a) = ToSet(o) \cup ToSet(k) /\ ToSet(g) = ToSet(u) \cup ToSet(v)
  BY DEF Adds
<1>6. Parts(x, w, <<>>, k, p) /\ Parts(y, c, a, <<>>, q)
  BY DEF w, p, q
<1>7. Len(x) = ((Len(w) + 0) + Len(k)) + Len(p) /\ Len(y) = ((Len(c) + Len(a)) + 0) + Len(q)
  BY <1>3, <1>6 DEF Parts
<1>8. Len(x) = Len(y)
  <2> DEFINE lc == Len(c)
             lo == Len(o)
             lk == Len(k)
             li == Len(i)
             lu == Len(u)
             lv == Len(v)
  <2>1. lc \in Nat /\ lo \in Nat /\ lk \in Nat /\ li \in Nat /\ lu \in Nat /\ lv \in Nat
    BY <1>4
  <2>2. /\ Len(x) = ((Len(w) + 0) + lk) + Len(p) /\ Len(w) = lc + lo /\ Len(p) = (li + lu) + lv
        /\ Len(y) = ((lc + Len(a)) + 0) + Len(q) /\ Len(a) = lo + lk /\ Len(q) = li + Len(g)
        /\ Len(g) = lu + lv
    BY <1>1, <1>2, <1>5, <1>7
  <2> HIDE DEF lc, lo, lk, li, lu, lv
  <2>3. Len(x) = ((((lc + lo) + 0) + lk) + ((li + lu) + lv))
    BY <2>2
  <2>4. Len(y) = ((lc + (lo + lk)) + 0) + (li + (lu + lv))
    BY <2>2
  <2> QED
    BY <2>1, <2>3, <2>4
<1>9. /\ ToSet(x) = ((ToSet(w) \cup {}) \cup ToSet(k)) \cup ToSet(p)
      /\ ToSet(y) = ((ToSet(c) \cup ToSet(a)) \cup {}) \cup ToSet(q)
  BY <1>3, <1>6 DEF Parts
<1>10. ToSet(x) = ToSet(y)
  BY <1>1, <1>2, <1>5, <1>9
<1> QED
  BY <1>8, <1>10 DEF Same

\* A request without tools sends what a message holds, as text (rule 6).
LEMMA TextualCarries ==
  ASSUME NEW m \in MessageSet, AllTurned(Cargo(m, {}))
  PROVE  Same(Carried(Textual(m)), Cargo(m, {}))
<1> DEFINE n == Textual(m)
           c == m.content
           k == m.calls
           a == AtomsOf(m.results)
           i == m.images \o ImagesIn(m.results)
           p == IF m.role = "user" THEN i ELSE <<>>
           C == Cargo(m, {})
           w == (c \o k) \o a
<1>1. c \in Seq(AtomSet) /\ k \in Seq(AtomSet) /\ a \in Seq(AtomSet) /\ i \in Seq(AtomSet) /\ m.role \in Roles
  BY MessageFields, AtomsOfIs, ImagesInIs
<1>2. n \in MessageSet /\ n.role = m.role /\ n.content = w /\ n.images = i /\ n.calls = <<>> /\ n.results = <<>>
  BY TextualIs
<1>3. AtomsOf(n.results) = <<>> /\ n.images \o ImagesIn(n.results) = i
  <2>1. ImagesIn(n.results) = <<>> /\ AtomsOf(n.results) = <<>>
    BY <1>2, EmptyAtoms
  <2> HIDE DEF i, n
  <2>2. i \o <<>> = i
    BY <1>1
  <2> QED
    BY <1>2, <2>1, <2>2
<1>4. Parts(C, c, a, k, p)
  <2>1. Parts(C, m.content, AtomsOf(m.results),
               IF m.role = "assistant" \/ {} = {} THEN m.calls ELSE <<>>,
               IF m.role # "assistant" THEN m.images \o ImagesIn(m.results) ELSE <<>>)
    BY CargoParts
  <2>2. m.role # "assistant" <=> m.role = "user"
    BY <1>1 DEF Roles
  <2>3. p = IF m.role # "assistant" THEN m.images \o ImagesIn(m.results) ELSE <<>>
    BY <2>2
  <2> HIDE DEF C, p
  <2> QED
    BY <2>1, <2>3
<1> HIDE DEF C, c, k, a, i, n
<1>5. w \in Seq(AtomSet) /\ ToSet(w) = (ToSet(c) \cup ToSet(k)) \cup ToSet(a)
  BY <1>1, Three
<1> HIDE DEF w
<1>6. p \in Seq(AtomSet)
  BY <1>1
<1>7. AllTurned(w) /\ AllTurned(p) /\ AllTurned(<<>>)
  <2>1. ToSet(C) = ((ToSet(c) \cup ToSet(a)) \cup ToSet(k)) \cup ToSet(p)
    BY <1>4 DEF Parts
  <2>2. AllTurned(C)
    BY DEF C
  <2> QED
    BY <1>5, <2>1, <2>2, NoIds DEF AllTurned
<1>8. Parts(Carried(n), w, <<>>, <<>>, p)
  <2>1. AllTurned(n.content) /\ AllTurned(n.calls) /\ AllTurned(AtomsOf(n.results))
    BY <1>2, <1>3, <1>7
  <2>2. n.role = "user" => AllTurned(n.images \o ImagesIn(n.results))
    BY <1>2, <1>3, <1>7
  <2>3. Parts(Carried(n), n.content, IF n.role = "user" THEN <<>> ELSE n.calls,
               IF n.role = "user" THEN AtomsOf(n.results) ELSE <<>>,
               IF n.role = "user" THEN n.images \o ImagesIn(n.results) ELSE <<>>)
    BY <1>2, <2>1, <2>2, CarriedParts
  <2>4. /\ (IF n.role = "user" THEN <<>> ELSE n.calls) = <<>>
        /\ (IF n.role = "user" THEN AtomsOf(n.results) ELSE <<>>) = <<>>
        /\ (IF n.role = "user" THEN n.images \o ImagesIn(n.results) ELSE <<>>) = p
    BY <1>2, <1>3
  <2> HIDE DEF p
  <2> QED
    BY <1>2, <2>3, <2>4
<1> HIDE DEF p
<1>9. w = (c \o k) \o a
  BY DEF w
<1>10. Same(Carried(n), C)
  BY <1>1, <1>4, <1>6, <1>8, <1>9, TextualSame
<1> QED
  BY <1>10 DEF n, C

\* A request with tools sends results, calls and images as such, or as text (rule 7).
LEMMA InlinedCarries ==
  ASSUME NEW U \in Seq(MessageSet), Alternating(U), NEW j \in DOMAIN U, NEW tools, tools # {},
         AllTurned(Cargo(U[j], tools))
  PROVE  Same(Carried(Inlined(U, j)), Cargo(U[j], tools))
<1> DEFINE m == U[j]
           n == Inlined(U, j)
           r == m.results
           ro == Orphans(U, j)
           rk == Only(r, Kept(U, j))
           c == m.content
           d == m.calls
           a == AtomsOf(r)
           o == AtomsOf(ro)
           k == AtomsOf(rk)
           i == m.images
           g == ImagesIn(r)
           u == ImagesIn(ro)
           v == ImagesIn(rk)
           C == Cargo(m, tools)
<1>1. m \in MessageSet
  OBVIOUS
<1>2. /\ Adds(a, o, k) /\ Adds(g, u, v)
      /\ r \in Seq(ResultSet) /\ ro \in Seq(ResultSet) /\ rk \in Seq(ResultSet)
      /\ Kept(U, j) = {} => ro = r
  BY ResultsSplit
<1>3. /\ c \in Seq(AtomSet) /\ d \in Seq(AtomSet) /\ a \in Seq(AtomSet) /\ o \in Seq(AtomSet)
      /\ k \in Seq(AtomSet) /\ i \in Seq(AtomSet) /\ g \in Seq(AtomSet) /\ u \in Seq(AtomSet)
      /\ v \in Seq(AtomSet) /\ m.role \in Roles
  BY <1>1, <1>2, MessageFields, AtomsOfIs, ImagesInIs
<1>4. /\ n \in MessageSet /\ n.role = m.role /\ n.content = c \o o /\ n.images = i \o u
      /\ n.calls = d /\ n.results = rk
  BY InlinedIs
<1>5. Parts(C, c, a, IF m.role = "assistant" THEN d ELSE <<>>, IF m.role # "assistant" THEN i \o g ELSE <<>>)
  <2>1. Parts(C, m.content, AtomsOf(m.results),
               IF m.role = "assistant" \/ tools = {} THEN m.calls ELSE <<>>,
               IF m.role # "assistant" THEN m.images \o ImagesIn(m.results) ELSE <<>>)
    BY <1>1, CargoParts
  <2>2. (IF m.role = "assistant" \/ tools = {} THEN m.calls ELSE <<>>) = IF m.role = "assistant" THEN d ELSE <<>>
    OBVIOUS
  <2> HIDE DEF C
  <2> QED
    BY <2>1, <2>2
<1>6. AllTurned(C)
  OBVIOUS
<1>7. AtomsOf(n.results) = k /\ ImagesIn(n.results) = v
  BY <1>4
<1>8. m.role = "assistant" => Kept(U, j) = {}
  <2>1. ASSUME m.role = "assistant" PROVE Kept(U, j) = {}
    <3>1. j \in 1 .. Len(U)
      OBVIOUS
    <3>2. j > 1 => U[j - 1].role # "assistant"
      BY <2>1, <3>1 DEF Alternating
    <3> QED
      BY <3>2 DEF Kept, Valid
  <2> QED
    BY <2>1
<1>9. Kept(U, j) = {} => o = a
  BY <1>2
<1>10. m.role # "assistant" <=> m.role = "user"
  BY <1>3 DEF Roles
<1> HIDE DEF m, n, ro, rk, r, c, d, a, o, k, i, g, u, v, C
<1>11. CASE m.role = "user"
  <2> DEFINE w == c \o o
             p == (i \o u) \o v
             q == i \o g
  <2>1. Parts(C, c, a, <<>>, q)
    <3>1. m.role # "assistant"
      BY <1>10, <1>11
    <3> HIDE DEF q
    <3> QED
      BY <1>5, <3>1 DEF q
  <2>2. /\ w \in Seq(AtomSet) /\ ToSet(w) = ToSet(c) \cup ToSet(o)
        /\ q \in Seq(AtomSet) /\ ToSet(q) = ToSet(i) \cup ToSet(g)
    <3>1. w \in Seq(AtomSet) /\ q \in Seq(AtomSet) /\ Adds(w, c, o) /\ Adds(q, i, g)
      BY <1>3, ConcatAdds
    <3> HIDE DEF w, q
    <3> QED
      BY <3>1, Zenon DEF Adds
  <2>3. p \in Seq(AtomSet) /\ ToSet(p) = (ToSet(i) \cup ToSet(u)) \cup ToSet(v)
    BY <1>3, Three
  <2>4. n.content = w /\ n.images \o ImagesIn(n.results) = p
    BY <1>4, <1>7
  <2> HIDE DEF w, p, q
  <2>5. ToSet(a) = ToSet(o) \cup ToSet(k) /\ ToSet(g) = ToSet(u) \cup ToSet(v)
    BY <1>2 DEF Adds
  <2>6. AllTurned(w) /\ AllTurned(k) /\ AllTurned(p)
    <3>1. ToSet(C) = ((ToSet(c) \cup ToSet(a)) \cup ToSet(<<>>)) \cup ToSet(q)
      BY <2>1 DEF Parts
    <3>2. ToSet(w) \subseteq ToSet(C) /\ ToSet(k) \subseteq ToSet(C) /\ ToSet(p) \subseteq ToSet(C)
      BY <2>2, <2>3, <2>5, <3>1
    <3> QED
      BY <1>6, <3>2 DEF AllTurned
  <2>7. Parts(Carried(n), w, <<>>, k, p)
    <3>1. Parts(Carried(n), n.content, IF n.role = "user" THEN <<>> ELSE n.calls,
               IF n.role = "user" THEN AtomsOf(n.results) ELSE <<>>,
               IF n.role = "user" THEN n.images \o ImagesIn(n.results) ELSE <<>>)
      <4>1. AllTurned(n.content) /\ AllTurned(AtomsOf(n.results)) /\ AllTurned(n.images \o ImagesIn(n.results))
        BY <1>7, <2>4, <2>6
      <4>2. n \in MessageSet /\ n.role = "user"
        BY <1>4, <1>11
      <4> QED
        BY <4>1, <4>2, CarriedParts
    <3>2. n.role = "user"
      BY <1>4, <1>11
    <3> QED
      BY <1>7, <2>4, <3>1, <3>2
  <2>8. Parts(Carried(n), c \o o, <<>>, k, (i \o u) \o v) /\ Parts(C, c, a, <<>>, i \o g)
    BY <2>1, <2>7 DEF w, p, q
  <2>9. Same(Carried(n), C)
    BY <1>2, <1>3, <2>8, InlinedSame
  <2> QED
    BY <2>9 DEF n, C, m
<1>12. CASE m.role # "user"
  <2>1. m.role = "assistant"
    BY <1>10, <1>12
  <2>2. o = a
    BY <1>8, <1>9, <2>1
  <2>3. Parts(C, c, a, d, <<>>)
    BY <1>5, <2>1
  <2> DEFINE w == c \o a
  <2>4. ToSet(w) = ToSet(c) \cup ToSet(a)
    <3>1. Adds(w, c, a)
      BY <1>3, ConcatAdds
    <3> HIDE DEF w
    <3> QED
      BY <3>1, Zenon DEF Adds
  <2>5. n.content = w
    BY <1>4, <2>2
  <2>6. w = c \o a
    OBVIOUS
  <2> HIDE DEF w
  <2>7. AllTurned(w) /\ AllTurned(d)
    <3>1. ToSet(C) = ((ToSet(c) \cup ToSet(a)) \cup ToSet(d)) \cup ToSet(<<>>)
      BY <2>3 DEF Parts
    <3>2. ToSet(w) \subseteq ToSet(C) /\ ToSet(d) \subseteq ToSet(C)
      BY <2>4, <3>1
    <3> QED
      BY <1>6, <3>2 DEF AllTurned
  <2>8. Parts(Carried(n), w, d, <<>>, <<>>)
    <3>1. n \in MessageSet /\ n.role # "user" /\ AllTurned(n.content) /\ AllTurned(n.calls)
      BY <1>4, <1>12, <2>5, <2>7
    <3>2. Parts(Carried(n), n.content, IF n.role = "user" THEN <<>> ELSE n.calls,
               IF n.role = "user" THEN AtomsOf(n.results) ELSE <<>>,
               IF n.role = "user" THEN n.images \o ImagesIn(n.results) ELSE <<>>)
      BY <3>1, CarriedParts
    <3> QED
      BY <1>4, <2>5, <3>1, <3>2
  <2>9. Same(Carried(n), C)
    BY <1>3, <2>3, <2>6, <2>8, SpokenSame
  <2> QED
    BY <2>9 DEF n, C, m
<1> QED
  BY <1>11, <1>12

\* The tool rules keep the cargo of every message.
LEMMA RuledCarries ==
  ASSUME NEW U \in Seq(MessageSet), Alternating(U), NEW j \in DOMAIN U,
         AllTurned(Cargo(U[j], setting.tools))
  PROVE  /\ Ruled(U, j) \in MessageSet
         /\ Same(Carried(Ruled(U, j)), Cargo(U[j], setting.tools))
<1>1. U[j] \in MessageSet
  OBVIOUS
<1>2. CASE setting.tools = {}
  BY <1>1, <1>2, TextualCarries, RuledContent DEF Ruled
<1>3. CASE setting.tools # {}
  BY <1>3, InlinedCarries, RuledContent DEF Ruled
<1> QED
  BY <1>2, <1>3

-----------------------------------------------------------------------------
(* What the messages hold together, through the other rules of Build.       *)

CarriedMap == [m \in MessageSet |-> Carried(m)]
Freight(messages) == Spread(CarriedMap, messages)

\* What is carried for a message is a sequence of atoms.
LEMMA CarriedType ==
  /\ Spreads(CarriedMap, MessageSet, AtomSet)
  /\ \A m \in MessageSet : CarriedMap[m] = Carried(m) /\ Carried(m) \in Seq(AtomSet)
<1>1. ASSUME NEW m \in MessageSet PROVE Carried(m) \in Seq(AtomSet)
  <2> DEFINE a == m.content
             b == IF m.role = "user" THEN <<>> ELSE m.calls
             c == IF m.role = "user" THEN AtomsOf(m.results) ELSE <<>>
             d == IF m.role = "user" THEN m.images \o ImagesIn(m.results) ELSE <<>>
  <2>1. /\ m.content \in Seq(AtomSet) /\ m.calls \in Seq(AtomSet) /\ m.images \in Seq(AtomSet)
        /\ AtomsOf(m.results) \in Seq(AtomSet) /\ ImagesIn(m.results) \in Seq(AtomSet)
    BY <1>1, MessageFields, AtomsOfIs, ImagesInIs
  <2>2. a \in Seq(AtomSet) /\ b \in Seq(AtomSet) /\ c \in Seq(AtomSet) /\ d \in Seq(AtomSet)
    BY <2>1
  <2>3. Carried(m) = ((OfTurns(a) \o OfTurns(b)) \o OfTurns(c)) \o OfTurns(d)
    BY DEF Carried
  <2> HIDE DEF a, b, c, d
  <2>4. OfTurns(a) \in Seq(AtomSet) /\ OfTurns(b) \in Seq(AtomSet) /\ OfTurns(c) \in Seq(AtomSet) /\ OfTurns(d) \in Seq(AtomSet)
    BY <2>2, OfTurnsIs
  <2> QED
    BY <2>3, <2>4
<1> QED
  BY <1>1 DEF CarriedMap, Spreads

\* One message more adds what is carried for it.
LEMMA FreightAppend ==
  ASSUME NEW s \in Seq(MessageSet), NEW m \in MessageSet
  PROVE  Freight(s) \in Seq(AtomSet) /\ Freight(Append(s, m)) = Freight(s) \o Carried(m)
<1>1. Spreads(CarriedMap, MessageSet, AtomSet) /\ CarriedMap[m] = Carried(m)
  BY CarriedType
<1>2. Spread(CarriedMap, s) \in Seq(AtomSet)
      /\ Spread(CarriedMap, Append(s, m)) = Spread(CarriedMap, s) \o CarriedMap[m]
  BY <1>1, SpreadAppend
<1> QED
  BY <1>1, <1>2 DEF Freight

\* Messages put together carry what both do.
LEMMA FreightConcat ==
  ASSUME NEW s \in Seq(MessageSet), NEW t \in Seq(MessageSet)
  PROVE  Freight(s) \in Seq(AtomSet) /\ Freight(s \o t) = Freight(s) \o Freight(t)
BY CarriedType, SpreadConcat DEF Freight

\* One message carries its own.
LEMMA FreightOne ==
  ASSUME NEW m \in MessageSet
  PROVE  <<m>> \in Seq(MessageSet) /\ Freight(<<m>>) = Carried(m)
<1>1. <<>> \in Seq(MessageSet) /\ Append(<<>>, m) = <<m>> /\ <<m>> \in Seq(MessageSet)
  OBVIOUS
<1>2. Freight(<<>>) = <<>>
  BY SpreadEmpty DEF Freight
<1>3. Freight(Append(<<>>, m)) = <<>> \o Carried(m)
  BY <1>1, <1>2, FreightAppend
<1>4. Carried(m) \in Seq(AtomSet)
  BY CarriedType
<1> QED
  BY <1>1, <1>3, <1>4

\* A placeholder's turn carries nothing.
LEMMA FillerCarries == Carried(Filler("user", <<Placeholder>>)) = <<>>
<1> DEFINE f == Filler("user", <<Placeholder>>)
<1>1. /\ f.role = "user" /\ f.content = <<Placeholder>> /\ f.results = <<>> /\ f.images = <<>>
  BY PlaceholderFiller
<1>2. AtomsOf(f.results) = <<>> /\ ImagesIn(f.results) = <<>>
  BY <1>1, EmptyAtoms
<1> HIDE DEF f
<1>3. OfTurns(f.content) = <<>> /\ OfTurns(<<>>) = <<>>
  BY <1>1, OfNoTurn
<1>4. <<>> \o <<>> = <<>>
  OBVIOUS
<1>5. Carried(f) = ((OfTurns(f.content) \o OfTurns(<<>>)) \o OfTurns(<<>>)) \o OfTurns(<<>> \o <<>>)
  BY <1>1, <1>2 DEF Carried
<1>6. Carried(f) = <<>>
  BY <1>3, <1>4, <1>5
<1> QED
  BY <1>6 DEF f

\* Two ways to spread a sequence give the same pieces if they do of each element.
LEMMA SpreadSame ==
  ASSUME NEW T, NEW E, NEW f, NEW g, Spreads(f, T, E), Spreads(g, T, E),
         \A x \in T : Same(f[x], g[x]), NEW s \in Seq(T)
  PROVE  Same(Spread(f, s), Spread(g, s))
<1> DEFINE Good == {t \in Seq(T) : Len(Spread(f, t)) = Len(Spread(g, t))}
<1>1. <<>> \in Good
  BY SpreadEmpty
<1>2. ASSUME NEW t \in Seq(T), NEW x \in T, t \in Good PROVE Append(t, x) \in Good
  <2>1. Append(t, x) \in Seq(T) /\ Len(Spread(f, Append(t, x))) = Len(Spread(f, t)) + Len(f[x])
    BY SpreadLength
  <2>2. Len(Spread(g, Append(t, x))) = Len(Spread(g, t)) + Len(g[x])
    BY SpreadLength
  <2>3. Len(Spread(f, t)) = Len(Spread(g, t))
    BY <1>2
  <2>4. Len(f[x]) = Len(g[x])
    BY DEF Same
  <2> QED
    BY <2>1, <2>2, <2>3, <2>4
<1>3. s \in Good
  <2> HIDE DEF Good
  <2> QED
    BY <1>1, <1>2, SeqInduction
<1>4. ToSet(Spread(f, s)) = ToSet(Spread(g, s))
  <2>1. \A e : e \in ToSet(Spread(f, s)) <=> \E x \in ToSet(s) : e \in ToSet(f[x])
    BY SpreadRange
  <2>2. \A e : e \in ToSet(Spread(g, s)) <=> \E x \in ToSet(s) : e \in ToSet(g[x])
    BY SpreadRange
  <2>3. \A x \in ToSet(s) : ToSet(f[x]) = ToSet(g[x])
    <3>1. \A x \in ToSet(s) : x \in T
      BY DEF ToSet
    <3> QED
      BY <3>1, Zenon DEF Same
  <2>4. \A e : e \in ToSet(Spread(f, s)) <=> e \in ToSet(Spread(g, s))
    BY <2>1, <2>2, <2>3, Zenon
  <2> QED
    BY <2>4
<1> QED
  BY <1>3, <1>4 DEF Same

\* The tool rules lose nothing and add nothing.
LEMMA RulesCarry ==
  ASSUME NEW messages \in Seq(MessageSet),
         \A i \in DOMAIN MergeAdjacent(messages) : AllTurned(Cargo(MergeAdjacent(messages)[i], setting.tools))
  PROVE  Same(Freight(ToolRules(messages)), Load(MergeAdjacent(messages), setting.tools))
<1> DEFINE U == MergeAdjacent(messages)
           R == ToolRules(messages)
           N == Len(U)
           I == 1 .. N
           idx == [i \in I |-> i]
           f == [i \in I |-> Carried(R[i])]
           g == [i \in I |-> Cargo(U[i], setting.tools)]
<1>1. /\ U \in Seq(MessageSet) /\ R \in Seq(MessageSet) /\ Len(R) = Len(U) /\ Alternating(U)
      /\ \A i \in DOMAIN U : R[i] = Ruled(U, i)
  BY ToolRulesAre, MergeAlternates
<1>2. \A i \in DOMAIN U : AllTurned(Cargo(U[i], setting.tools))
  OBVIOUS
<1> HIDE DEF U, R
<1>3. N \in Nat /\ DOMAIN U = I /\ DOMAIN R = I
  BY <1>1
<1>4. \A i \in I : U[i] \in MessageSet /\ R[i] \in MessageSet
  BY <1>1, <1>3
<1>5. \A i \in I : Same(Carried(R[i]), Cargo(U[i], setting.tools))
  BY <1>1, <1>2, <1>3, RuledCarries
<1>6. Spreads(f, I, AtomSet) /\ Spreads(g, I, AtomSet)
  <2>1. \A i \in I : Carried(R[i]) \in Seq(AtomSet)
    BY <1>4, CarriedType
  <2>2. \A i \in I : Cargo(U[i], setting.tools) \in Seq(AtomSet)
    BY <1>4, CargoType
  <2> QED
    BY <2>1, <2>2 DEF Spreads
<1>7. \A i \in I : Same(f[i], g[i])
  BY <1>5
<1>8. idx \in Seq(I) /\ DOMAIN idx = I /\ \A i \in I : idx[i] = i
  BY <1>3
<1>9. Freight(R) = Spread(f, idx)
  <2>1. \A i \in I : CarriedMap[R[i]] = f[idx[i]]
    BY <1>4, <1>8, CarriedType
  <2>2. [i \in DOMAIN R |-> CarriedMap[R[i]]] = [i \in DOMAIN idx |-> f[idx[i]]]
    BY <1>3, <1>8, <2>1
  <2> QED
    BY <2>2 DEF Freight, Spread
<1>10. Load(U, setting.tools) = Spread(g, idx)
  <2>1. \A i \in I : CargoMap(setting.tools)[U[i]] = g[idx[i]]
    BY <1>4, <1>8, CargoMapType
  <2>2. [i \in DOMAIN U |-> CargoMap(setting.tools)[U[i]]] = [i \in DOMAIN idx |-> g[idx[i]]]
    BY <1>3, <1>8, <2>1
  <2> QED
    BY <2>2 DEF Load, Spread
<1> HIDE DEF I, idx, f, g
<1>11. Same(Spread(f, idx), Spread(g, idx))
  BY <1>6, <1>7, <1>8, SpreadSame
<1> QED
  BY <1>9, <1>10, <1>11 DEF U, R

\* Nor does rule 3, nor the turn that closes the history.
LEMMA FirstCarries ==
  ASSUME NEW in, Converted(in)
  PROVE  Freight(First(in)) = Freight(ToolRules(in.messages))
<1> DEFINE R == ToolRules(in.messages)
           f == Filler("user", <<Placeholder>>)
<1>1. R \in Seq(MessageSet)
  BY ToolRulesAre DEF Converted
<1>2. First(in) = R \/ First(in) = <<f>> \o R
  BY DEF First, EnsureFirstIsUser
<1>3. f \in MessageSet /\ Carried(f) = <<>>
  BY PlaceholderFiller, FillerCarries
<1> HIDE DEF R, f
<1>4. <<f>> \in Seq(MessageSet) /\ Freight(<<f>>) = <<>>
  BY <1>3, FreightOne
<1> DEFINE h == <<f>>
<1> HIDE DEF h
<1>5. Freight(h \o R) = Freight(h) \o Freight(R) /\ Freight(R) \in Seq(AtomSet)
  BY <1>1, <1>4, FreightConcat DEF h
<1>6. Freight(h) \o Freight(R) = Freight(R)
  BY <1>4, <1>5 DEF h
<1> QED
  BY <1>2, <1>5, <1>6 DEF h, R

\* The closing turn adds no freight.
LEMMA ClosedCarries ==
  ASSUME NEW in, Converted(in), First(in) # <<>>
  PROVE  Freight(Closed(in)) = Freight(Placed(in)) /\ Freight(Placed(in)) \in Seq(AtomSet)
<1> DEFINE P == Placed(in)
           f == Filler("user", <<Placeholder>>)
<1>1. P \in Seq(MessageSet)
  BY PlacedIs
<1>2. f \in MessageSet /\ Carried(f) = <<>>
  BY PlaceholderFiller, FillerCarries
<1>3. Closed(in) = P \/ Closed(in) = Append(P, f)
  BY DEF Closed
<1> HIDE DEF P, f
<1>4. Freight(P) \in Seq(AtomSet) /\ Freight(Append(P, f)) = Freight(P) \o <<>>
  BY <1>1, <1>2, FreightAppend
<1>5. Freight(P) \o <<>> = Freight(P)
  BY <1>4
<1> QED
  BY <1>3, <1>4, <1>5 DEF P

\* Two messages that only differ in content.
LEMMA ContentAdds ==
  ASSUME NEW m \in MessageSet, NEW n \in MessageSet, n.role = m.role, n.calls = m.calls,
         n.results = m.results, n.images = m.images,
         NEW x \in Seq(AtomSet), Adds(OfTurns(n.content), x, OfTurns(m.content))
  PROVE  Adds(Carried(n), x, Carried(m))
<1> DEFINE b == IF m.role = "user" THEN <<>> ELSE m.calls
           c == IF m.role = "user" THEN AtomsOf(m.results) ELSE <<>>
           d == IF m.role = "user" THEN m.images \o ImagesIn(m.results) ELSE <<>>
           p == OfTurns(m.content)
           q == OfTurns(n.content)
           r == OfTurns(b)
           s == OfTurns(c)
           t == OfTurns(d)
<1>1. /\ m.content \in Seq(AtomSet) /\ m.calls \in Seq(AtomSet) /\ m.images \in Seq(AtomSet)
      /\ AtomsOf(m.results) \in Seq(AtomSet) /\ ImagesIn(m.results) \in Seq(AtomSet)
      /\ n.content \in Seq(AtomSet)
  BY MessageFields, AtomsOfIs, ImagesInIs
<1>2. b \in Seq(AtomSet) /\ c \in Seq(AtomSet) /\ d \in Seq(AtomSet)
  BY <1>1
<1>3. Carried(m) = ((p \o r) \o s) \o t /\ Carried(n) = ((q \o r) \o s) \o t
  BY DEF Carried
<1> HIDE DEF b, c, d
<1>4. p \in Seq(AtomSet) /\ q \in Seq(AtomSet) /\ r \in Seq(AtomSet) /\ s \in Seq(AtomSet) /\ t \in Seq(AtomSet)
  BY <1>1, <1>2, OfTurnsIs
<1> HIDE DEF p, q, r, s, t
<1>5. Parts(((p \o r) \o s) \o t, p, r, s, t) /\ Parts(((q \o r) \o s) \o t, q, r, s, t)
  BY <1>4, PartsOfFour
<1>6. Parts(Carried(m), p, r, s, t) /\ Parts(Carried(n), q, r, s, t)
  BY <1>3, <1>5
<1>7. Len(q) = Len(x) + Len(p) /\ ToSet(q) = ToSet(x) \cup ToSet(p)
  BY DEF Adds, p, q
<1>8. /\ Len(Carried(m)) = ((Len(p) + Len(r)) + Len(s)) + Len(t)
      /\ Len(Carried(n)) = ((Len(q) + Len(r)) + Len(s)) + Len(t)
      /\ ToSet(Carried(m)) = ((ToSet(p) \cup ToSet(r)) \cup ToSet(s)) \cup ToSet(t)
      /\ ToSet(Carried(n)) = ((ToSet(q) \cup ToSet(r)) \cup ToSet(s)) \cup ToSet(t)
  BY <1>6 DEF Parts
<1>9. Len(Carried(n)) = Len(x) + Len(Carried(m))
  <2> DEFINE lx == Len(x)
             lp == Len(p)
             lr == Len(r)
             ls == Len(s)
             lt == Len(t)
  <2>1. lx \in Nat /\ lp \in Nat /\ lr \in Nat /\ ls \in Nat /\ lt \in Nat
    BY <1>4
  <2>2. Len(Carried(n)) = (((lx + lp) + lr) + ls) + lt /\ Len(Carried(m)) = ((lp + lr) + ls) + lt
    BY <1>7, <1>8
  <2> HIDE DEF lx, lp, lr, ls, lt
  <2>3. Len(Carried(n)) = lx + Len(Carried(m))
    BY <2>1, <2>2
  <2> QED
    BY <2>3 DEF lx
<1>10. ToSet(Carried(n)) = ToSet(x) \cup ToSet(Carried(m))
  BY <1>7, <1>8
<1> QED
  BY <1>9, <1>10 DEF Adds

\* What the prompt adds to the messages, if it has no field of its own.
Inlay(in) == IF setting.field THEN <<>> ELSE OfTurns(Prompt(in))

\* JoinSystemPromptInto adds the prompt to the first content and loses nothing of it.
LEMMA FirstContentAdds ==
  ASSUME NEW in, Converted(in), First(in) # <<>>
  PROVE  /\ Inlay(in) \in Seq(AtomSet)
         /\ Adds(OfTurns(FirstContent(in)), Inlay(in), OfTurns(First(in)[1].content))
<1> DEFINE p == Prompt(in)
           s == First(in)[1].content
           f == FirstContent(in)
<1>1. p \in Seq(AtomSet) /\ OfTurns(p) \in Seq(AtomSet)
  BY PromptType, OfTurnsIs
<1>2. s \in Seq(AtomSet) /\ OfTurns(s) \in Seq(AtomSet)
  <2>1. First(in) \in Seq(MessageSet) /\ First(in) # <<>>
    BY FirstIs
  <2>2. First(in)[1] \in MessageSet
    BY <2>1
  <2> QED
    BY <2>2, MessageFields, OfTurnsIs
<1>3. /\ setting.field => f = s
      /\ ~setting.field => f = IF p # <<>> /\ s = <<Placeholder>> THEN p ELSE p \o s
  BY DEF FirstContent, JoinSystemPromptInto
<1>4. Inlay(in) = IF setting.field THEN <<>> ELSE OfTurns(p)
  BY DEF Inlay
<1> HIDE DEF p, s, f
<1>5. CASE setting.field
  <2>1. Adds(OfTurns(s), <<>>, OfTurns(s))
    BY <1>2, EmptyAdds
  <2>2. Inlay(in) = <<>> /\ f = s /\ <<>> \in Seq(AtomSet)
    BY <1>3, <1>4, <1>5
  <2> QED
    BY <2>1, <2>2 DEF f, s
<1>6. CASE ~setting.field
  <2>1. Inlay(in) = OfTurns(p)
    BY <1>4, <1>6
  <2>2. CASE p # <<>> /\ s = <<Placeholder>>
    <3>1. f = p /\ OfTurns(s) = <<>>
      BY <1>3, <1>6, <2>2, OfNoTurn
    <3>2. Adds(OfTurns(p), OfTurns(p), <<>>)
      BY <1>1, EmptyAdds
    <3> QED
      BY <1>1, <2>1, <3>1, <3>2 DEF f, s
  <2>3. CASE ~(p # <<>> /\ s = <<Placeholder>>)
    <3>1. f = p \o s
      BY <1>3, <1>6, <2>3
    <3>2. OfTurns(p \o s) = OfTurns(p) \o OfTurns(s)
      BY <1>1, <1>2, OfTurnsConcat
    <3>3. Adds(OfTurns(p) \o OfTurns(s), OfTurns(p), OfTurns(s))
      BY <1>1, <1>2, ConcatAdds
    <3> QED
      BY <1>1, <2>1, <3>1, <3>2, <3>3 DEF f, s
  <2> QED
    BY <2>2, <2>3
<1> QED
  BY <1>5, <1>6

\* A sequence with a head before it.
LEMMA Headed ==
  ASSUME NEW T, NEW h \in T, NEW r \in Seq(T)
  PROVE  /\ <<h>> \o r \in Seq(T) /\ Len(<<h>> \o r) = Len(r) + 1
         /\ \A i \in 1 .. Len(r) + 1 : (<<h>> \o r)[i] = IF i = 1 THEN h ELSE r[i - 1]
<1>1. <<h>> \in Seq(T) /\ Len(<<h>>) = 1 /\ <<h>>[1] = h /\ Len(r) \in Nat
  OBVIOUS
<1> DEFINE s == <<h>>
<1> HIDE DEF s
<1>2. s \in Seq(T) /\ Len(s) = 1 /\ s[1] = h
  BY <1>1 DEF s
<1>3. /\ s \o r \in Seq(T) /\ Len(s \o r) = Len(s) + Len(r)
      /\ \A i \in 1 .. Len(s) + Len(r) : (s \o r)[i] = IF i <= Len(s) THEN s[i] ELSE r[i - Len(s)]
  BY <1>2, ConcatProperties
<1> DEFINE w == s \o r
<1>4. \A i \in 1 .. Len(r) + 1 : w[i] = IF i = 1 THEN s[1] ELSE r[i - 1]
  <2> HIDE DEF w
  <2>1. \A i \in 1 .. 1 + Len(r) : w[i] = IF i <= 1 THEN s[i] ELSE r[i - 1]
    BY <1>2, <1>3 DEF w
  <2> QED
    BY <1>1, <2>1
<1>5. Len(s \o r) = Len(r) + 1
  BY <1>1, <1>2, <1>3
<1> QED
  BY <1>2, <1>3, <1>4, <1>5 DEF s

\* So the prompt is all that placing it adds to the freight.
LEMMA PlacedCarries ==
  ASSUME NEW in, Converted(in), First(in) # <<>>
  PROVE  Adds(Freight(Placed(in)), Inlay(in), Freight(First(in)))
<1> DEFINE P == Placed(in)
           F == First(in)
           x == Inlay(in)
           N == Len(F)
           rest == [i \in 1 .. N - 1 |-> F[i + 1]]
           p == P[1]
           f == F[1]
<1>1. F \in Seq(MessageSet) /\ F # <<>>
  BY FirstIs
<1>2. /\ P \in Seq(MessageSet) /\ Len(P) = Len(F)
      /\ p.role = f.role /\ p.calls = f.calls /\ p.results = f.results /\ p.images = f.images
      /\ p.content = FirstContent(in)
      /\ \A i \in 2 .. Len(F) : P[i] = F[i]
  <2>1. N \in Nat /\ 1 \in 1 .. N
    <3> HIDE DEF F
    <3> QED
      BY <1>1
  <2> QED
    BY <2>1, PlacedIs
<1>3. x \in Seq(AtomSet) /\ Adds(OfTurns(FirstContent(in)), x, OfTurns(f.content))
  BY FirstContentAdds
<1> HIDE DEF P, F, x
<1>4. N \in Nat /\ N >= 1 /\ DOMAIN F = 1 .. N /\ DOMAIN P = 1 .. N
  BY <1>1, <1>2
<1>5. f \in MessageSet /\ p \in MessageSet /\ rest \in Seq(MessageSet) /\ Len(rest) = N - 1
      /\ \A i \in 1 .. N - 1 : rest[i] = F[i + 1]
  <2>1. \A i \in 1 .. N - 1 : F[i + 1] \in MessageSet
    BY <1>1, <1>4
  <2>2. f \in MessageSet /\ p \in MessageSet
    BY <1>1, <1>2, <1>4
  <2> QED
    BY <1>4, <2>1, <2>2
<1> HIDE DEF rest, p, f
<1>6. Adds(Carried(p), x, Carried(f))
  BY <1>2, <1>3, <1>5, ContentAdds
<1>7. /\ <<f>> \o rest \in Seq(MessageSet) /\ Len(<<f>> \o rest) = N
      /\ \A i \in 1 .. N : (<<f>> \o rest)[i] = IF i = 1 THEN f ELSE rest[i - 1]
  <2>1. Len(rest) + 1 = N
    BY <1>4, <1>5
  <2> QED
    BY <1>5, <2>1, Headed
<1>8. /\ <<p>> \o rest \in Seq(MessageSet) /\ Len(<<p>> \o rest) = N
      /\ \A i \in 1 .. N : (<<p>> \o rest)[i] = IF i = 1 THEN p ELSE rest[i - 1]
  <2>1. Len(rest) + 1 = N
    BY <1>4, <1>5
  <2> QED
    BY <1>5, <2>1, Headed
<1> DEFINE v == <<f>> \o rest
           w == <<p>> \o rest
<1>9. v = F
  <2>1. \A i \in 1 .. N : v[i] = F[i]
    <3> SUFFICES ASSUME NEW i \in 1 .. N PROVE v[i] = F[i]
      OBVIOUS
    <3>1. CASE i = 1
      BY <1>7, <3>1 DEF f
    <3>2. CASE i # 1
      <4>1. i - 1 \in 1 .. N - 1 /\ (i - 1) + 1 = i
        BY <1>4, <3>2
      <4> HIDE DEF v
      <4> QED
        BY <1>5, <1>7, <3>2, <4>1 DEF v
    <3> QED
      BY <3>1, <3>2
  <2>2. v \in Seq(MessageSet) /\ Len(v) = N
    BY <1>7
  <2> HIDE DEF v
  <2> QED
    BY <1>1, <2>1, <2>2, SeqEqual
<1>10. w = P
  <2>1. \A i \in 1 .. N : w[i] = P[i]
    <3> SUFFICES ASSUME NEW i \in 1 .. N PROVE w[i] = P[i]
      OBVIOUS
    <3>1. CASE i = 1
      BY <1>8, <3>1 DEF p
    <3>2. CASE i # 1
      <4>1. i - 1 \in 1 .. N - 1 /\ (i - 1) + 1 = i /\ i \in 2 .. Len(F)
        BY <1>4, <3>2
      <4> HIDE DEF w
      <4> QED
        BY <1>2, <1>5, <1>8, <3>2, <4>1 DEF w
    <3> QED
      BY <3>1, <3>2
  <2>2. w \in Seq(MessageSet) /\ Len(w) = N /\ Len(P) = N
    BY <1>2, <1>8
  <2> HIDE DEF w
  <2> QED
    BY <1>2, <2>1, <2>2, SeqEqual
<1>11. /\ <<f>> \in Seq(MessageSet) /\ Freight(<<f>>) = Carried(f)
       /\ <<p>> \in Seq(MessageSet) /\ Freight(<<p>>) = Carried(p)
  BY <1>5, FreightOne
<1>12. Freight(v) = Carried(f) \o Freight(rest) /\ Freight(w) = Carried(p) \o Freight(rest)
       /\ Freight(rest) \in Seq(AtomSet)
  BY <1>5, <1>11, FreightConcat
<1>13. Carried(f) \in Seq(AtomSet) /\ Carried(p) \in Seq(AtomSet)
  BY <1>5, CarriedType
<1> HIDE DEF v, w
<1> DEFINE a == Carried(p)
           b == Carried(f)
           c == Freight(rest)
           s == Freight(w)
           t == Freight(v)
<1>14. Adds(s, a, c) /\ Adds(t, b, c) /\ Adds(a, x, b)
  BY <1>6, <1>12, <1>13, ConcatAdds
<1>15. Len(a) \in Nat /\ Len(b) \in Nat /\ Len(c) \in Nat /\ Len(x) \in Nat
  BY <1>3, <1>12, <1>13
<1> HIDE DEF a, b, c, s, t
<1>16. Len(s) = Len(x) + Len(t)
  <2>1. Len(s) = Len(a) + Len(c) /\ Len(t) = Len(b) + Len(c) /\ Len(a) = Len(x) + Len(b)
    BY <1>14 DEF Adds
  <2> QED
    BY <1>15, <2>1
<1>17. ToSet(s) = ToSet(x) \cup ToSet(t)
  BY <1>14, Zenon DEF Adds
<1> QED
  BY <1>9, <1>10, <1>16, <1>17 DEF Adds, s, t, P, F, x

\* What arrives upstream of the turns.
Arrived(r) == OfTurns(r.system) \o FlattenSeq([i \in DOMAIN r.entries |-> PiecesIn(r.entries[i])])
Spoken(r, c, i) == {a \in ToSet(PiecesIn(r.entries[i])) : c[a.turn].role # "system"}
Delivered(r, c, tools) ==
    r.sent =>
        /\ Len(Arrived(r)) = Len(FittingBy(c, tools))
        /\ ToSet(FittingBy(c, tools)) = ToSet(Arrived(r))
        /\ \A i, j \in DOMAIN r.entries : i < j =>
              \A a \in Spoken(r, c, i), b \in Spoken(r, c, j) : a.turn <= b.turn

\* The converted conversation, with nothing waiting and S its system prompt.
Booked(in, c, S) ==
    /\ Converted(in) /\ Ledger(c, MergedIn(in), <<>>, S, setting.tools)
    /\ S \in Seq(AtomSet) /\ OfTurns(in.system) = S

\* What the ledger says of the messages that Build starts from.
LEMMA BookedPieces ==
  ASSUME NEW in, NEW c, NEW S, Booked(in, c, S)
  PROVE  /\ OfTurns(Prompt(in)) = S /\ MergedIn(in) \in Seq(MessageSet) /\ Alternating(MergedIn(in))
         /\ FittingBy(c, setting.tools) \in Seq(AtomSet) /\ Load(MergedIn(in), setting.tools) \in Seq(AtomSet)
         /\ \A i \in DOMAIN MergedIn(in) : AllTurned(Cargo(MergedIn(in)[i], setting.tools))
         /\ Adds(FittingBy(c, setting.tools), S, Load(MergedIn(in), setting.tools))
         /\ \A a \in ToSet(S) : c[a.turn].role = "system"
<1> DEFINE U == MergedIn(in)
           tools == setting.tools
           o == FittingBy(c, tools)
           l == Load(U, tools)
<1>1. Books(c, U, <<>>, S, tools)
  BY DEF Booked, Ledger
<1>2. U \in Seq(MessageSet) /\ Alternating(U)
  BY MergeAlternates DEF Booked, Converted, MergedIn
<1>3. o \in Seq(AtomSet) /\ l \in Seq(AtomSet) /\ c \in Seq(Turns) /\ S \in Seq(AtomSet)
      /\ \A i \in DOMAIN U : \A a \in ToSet(Cargo(U[i], tools)) : a.turn \in 1 .. Len(c)
  BY <1>1, BooksPieces
<1>4. \A i \in DOMAIN U : AllTurned(Cargo(U[i], tools))
  BY <1>3 DEF AllTurned
<1>5. Balance(o, l, <<>>, S) /\ \A a \in ToSet(S) : c[a.turn].role = "system"
  BY <1>1, BagOfNothing DEF Books
<1> HIDE DEF o, l
<1>6. Adds(o, S, l)
  <2>1. Len(o) = (Len(l) + 0) + Len(S) /\ ToSet(o) = (ToSet(l) \cup {}) \cup ToSet(S)
    BY <1>5, NoIds DEF Balance
  <2>2. Len(l) \in Nat /\ Len(S) \in Nat
    BY <1>3
  <2>3. Len(o) = Len(S) + Len(l)
    BY <2>1, <2>2
  <2>4. ToSet(o) = ToSet(S) \cup ToSet(l)
    BY <2>1
  <2> QED
    BY <2>3, <2>4 DEF Adds
<1>7. OfTurns(Prompt(in)) = S
  <2>1. in.system \in Seq(AtomSet) /\ OfTurns(in.system) = S
    BY DEF Booked, Converted
  <2>2. <<Docs>> \in Seq(AtomSet) /\ <<>> \in Seq(AtomSet)
    BY PlaceholderType
  <2>3. OfTurns(in.system \o <<Docs>>) = S \o <<>> /\ OfTurns(in.system \o <<>>) = S \o <<>>
    BY <2>1, <2>2, OfTurnsConcat, OfNoTurn
  <2>4. S \o <<>> = S
    BY <1>3
  <2> QED
    BY <2>3, <2>4 DEF Prompt
<1> QED
  BY <1>2, <1>3, <1>4, <1>5, <1>6, <1>7 DEF o, l

\* The head of what is sent holds the prompt and what it held before.
LEMMA HeadCarries ==
  ASSUME NEW in, Converted(in), First(in) # <<>>
  PROVE  Adds(Carried(Placed(in)[1]), Inlay(in), Carried(First(in)[1]))
<1> DEFINE P == Placed(in)
           F == First(in)
           x == Inlay(in)
           p == P[1]
           f == F[1]
<1>1. F \in Seq(MessageSet) /\ F # <<>>
  BY FirstIs
<1>2. 1 \in 1 .. Len(F) /\ 1 \in DOMAIN F
  <2> HIDE DEF F
  <2> QED
    BY <1>1
<1>3. /\ P \in Seq(MessageSet) /\ Len(P) = Len(F)
      /\ p.role = f.role /\ p.calls = f.calls /\ p.results = f.results /\ p.images = f.images
      /\ p.content = FirstContent(in)
  BY <1>2, PlacedIs
<1>4. x \in Seq(AtomSet) /\ Adds(OfTurns(FirstContent(in)), x, OfTurns(f.content))
  BY FirstContentAdds
<1> HIDE DEF P, F, x
<1>5. f \in MessageSet /\ p \in MessageSet
  BY <1>1, <1>2, <1>3
<1> HIDE DEF p, f
<1>6. Adds(Carried(p), x, Carried(f))
  BY <1>3, <1>4, <1>5, ContentAdds
<1> QED
  BY <1>6 DEF p, f, P, F, x

\* Where a piece that is sent comes from.
LEMMA PieceFrom ==
  ASSUME NEW in, NEW c, NEW S, Booked(in, c, S), First(in) # <<>>,
         NEW i \in 1 .. Len(Closed(in)), NEW a \in ToSet(Carried(Closed(in)[i]))
  PROVE  \/ a \in ToSet(S)
         \/ /\ i > Shift(in) /\ i - Shift(in) \in DOMAIN MergedIn(in)
            /\ a \in ToSet(Cargo(MergedIn(in)[i - Shift(in)], setting.tools))
<1> DEFINE C == Closed(in)
           P == Placed(in)
           F == First(in)
           U == MergedIn(in)
           d == Shift(in)
           x == Inlay(in)
           f == Filler("user", <<Placeholder>>)
<1>1. Converted(in)
  BY DEF Booked
<1>2. /\ \A k \in 1 .. Len(F) : C[k] = P[k]
      /\ (Len(C) = Len(F) \/ (Len(C) = Len(F) + 1 /\ C[Len(F) + 1] = f))
  BY <1>1, ClosedIs
<1>3. \A k \in 2 .. Len(F) : P[k] = F[k]
  BY <1>1, PlacedIs
<1>4. /\ U \in Seq(MessageSet) /\ Len(F) \in Nat /\ d \in {0, 1} /\ (d = 1 => F[1] = f)
      /\ \A k \in 1 .. Len(F) : k > d => k - d \in DOMAIN U /\ F[k] = Ruled(U, k - d)
  BY <1>1, FirstMessages
<1>5. ToSet(Carried(f)) = {}
  BY FillerCarries, NoIds
<1>6. Adds(Carried(P[1]), x, Carried(F[1]))
  BY <1>1, HeadCarries
<1>7. OfTurns(Prompt(in)) = S /\ Alternating(U) /\ \A k \in DOMAIN U : AllTurned(Cargo(U[k], setting.tools))
  BY BookedPieces
<1>8. ToSet(x) \subseteq ToSet(S)
  BY <1>7, NoIds DEF Inlay
<1> HIDE DEF C, P, F, U, d, x, f
<1>9. ASSUME NEW k \in 1 .. Len(F), NEW e \in ToSet(Carried(F[k]))
      PROVE  k > d /\ k - d \in DOMAIN U /\ e \in ToSet(Cargo(U[k - d], setting.tools))
  <2>1. CASE k > d
    <3> DEFINE j == k - d
    <3>1. j \in DOMAIN U /\ F[k] = Ruled(U, j)
      BY <1>4, <2>1
    <3> HIDE DEF j
    <3>2. Same(Carried(Ruled(U, j)), Cargo(U[j], setting.tools))
      BY <1>4, <1>7, <3>1, RuledCarries
    <3>3. e \in ToSet(Cargo(U[j], setting.tools))
      BY <1>9, <3>1, <3>2, Zenon DEF Same
    <3> QED
      BY <2>1, <3>1, <3>3 DEF j
  <2>2. CASE ~(k > d)
    <3>1. k = 1 /\ d = 1
      BY <1>4, <2>2
    <3> QED
      BY <1>4, <1>5, <1>9, <3>1
  <2> QED
    BY <2>1, <2>2
<1>10. i \in 1 .. Len(C) /\ a \in ToSet(Carried(C[i]))
  BY DEF C
<1>11. CASE i \in 1 .. Len(F)
  <2>1. CASE i = 1
    <3>1. a \in ToSet(x) \/ a \in ToSet(Carried(F[1]))
      <4>1. C[1] = P[1]
        BY <1>2, <1>11, <2>1
      <4>2. ToSet(Carried(P[1])) = ToSet(x) \cup ToSet(Carried(F[1]))
        BY <1>6, Zenon DEF Adds
      <4> QED
        BY <1>10, <2>1, <4>1, <4>2
    <3> QED
      BY <1>8, <1>9, <1>11, <2>1, <3>1 DEF d, U
  <2>2. CASE i # 1
    <3>1. i \in 2 .. Len(F)
      BY <1>4, <1>11, <2>2
    <3>2. C[i] = F[i]
      BY <1>2, <1>3, <1>11, <3>1
    <3> QED
      BY <1>9, <1>10, <1>11, <3>2 DEF d, U
  <2> QED
    BY <2>1, <2>2
<1>12. CASE i \notin 1 .. Len(F)
  <2>1. C[i] = f
    BY <1>2, <1>4, <1>10, <1>12
  <2> QED
    BY <1>5, <1>10, <2>1
<1> QED
  BY <1>11, <1>12

\* Whatever the ledger has, the request delivers.
LEMMA BuildDelivers ==
  ASSUME NEW in, NEW c, NEW S, Booked(in, c, S)
  PROVE  Delivered(Build(in), c, setting.tools)
<1> DEFINE r == Build(in)
           C == Closed(in)
           U == MergedIn(in)
           tools == setting.tools
           d == Shift(in)
<1>1. CASE r = Refused
  BY <1>1 DEF Refused, Delivered
<1>2. CASE r # Refused
  <2>1. Converted(in)
    BY DEF Booked
  <2>2. /\ First(in) # <<>> /\ r.system = (IF setting.field THEN Prompt(in) ELSE <<>>)
        /\ DOMAIN r.entries = 1 .. Len(C) /\ Len(C) \in Nat /\ \A i \in 1 .. Len(C) : r.entries[i] = Entry(C[i])
    BY <1>2, <2>1, EntriesAre
  <2>3. C \in Seq(MessageSet)
    BY <2>1, <2>2, ClosedIs
  <2>4. /\ OfTurns(Prompt(in)) = S /\ U \in Seq(MessageSet)
        /\ FittingBy(c, tools) \in Seq(AtomSet) /\ Load(U, tools) \in Seq(AtomSet)
        /\ Adds(FittingBy(c, tools), S, Load(U, tools))
        /\ \A a \in ToSet(S) : c[a.turn].role = "system"
    BY BookedPieces
  <2>5. Same(Freight(First(in)), Load(U, tools))
    <3>1. \A i \in DOMAIN MergedIn(in) : AllTurned(Cargo(MergedIn(in)[i], setting.tools))
      BY BookedPieces
    <3>2. Same(Freight(ToolRules(in.messages)), Load(MergedIn(in), setting.tools))
      BY <2>1, <3>1, RulesCarry DEF Converted, MergedIn
    <3> QED
      BY <2>1, <3>2, FirstCarries
  <2>6. Freight(C) = Freight(Placed(in)) /\ Freight(C) \in Seq(AtomSet) /\ Adds(Freight(C), Inlay(in), Freight(First(in)))
    BY <2>1, <2>2, ClosedCarries, PlacedCarries
  <2>7. Inlay(in) = (IF setting.field THEN <<>> ELSE S)
        /\ OfTurns(r.system) = (IF setting.field THEN S ELSE <<>>)
    BY <2>2, <2>4, OfNoTurn DEF Inlay
  <2>8. S \in Seq(AtomSet)
    BY DEF Booked
  <2> HIDE DEF r, C, U, tools, d
  <2>9. \A i \in 1 .. Len(C) : C[i] \in MessageSet /\ PiecesIn(r.entries[i]) = Carried(C[i])
    BY <2>2, <2>3, EntryCarries
  <2>10. Arrived(r) = OfTurns(r.system) \o Freight(C)
    <3>1. DOMAIN C = 1 .. Len(C)
      BY <2>3
    <3>2. \A i \in 1 .. Len(C) : PiecesIn(r.entries[i]) = CarriedMap[C[i]]
      BY <2>9, CarriedType
    <3>3. [i \in DOMAIN r.entries |-> PiecesIn(r.entries[i])] = [i \in DOMAIN C |-> CarriedMap[C[i]]]
      BY <2>2, <3>1, <3>2
    <3> QED
      BY <3>3 DEF Arrived, Freight, Spread
  <2>11. Adds(Arrived(r), S, Freight(First(in)))
    <3> DEFINE s == OfTurns(r.system)
               x == Inlay(in)
               f == Freight(C)
               g == Freight(First(in))
    <3>1. s \in Seq(AtomSet) /\ f \in Seq(AtomSet)
      BY <2>6, <2>7, <2>8
    <3>2. Adds(s \o f, s, f)
      BY <3>1, ConcatAdds
    <3>3. Adds(f, x, g)
      BY <2>6
    <3>4. s = (IF setting.field THEN S ELSE <<>>) /\ x = (IF setting.field THEN <<>> ELSE S)
      BY <2>7
    <3>5. Arrived(r) = s \o f
      BY <2>10
    <3> HIDE DEF s, x, f, g
    <3> DEFINE w == s \o f
    <3> HIDE DEF w
    <3>6. Adds(w, s, f)
      BY <3>2 DEF w
    <3>7. Len(w) = Len(s) + Len(f) /\ ToSet(w) = ToSet(s) \cup ToSet(f)
          /\ Len(f) = Len(x) + Len(g) /\ ToSet(f) = ToSet(x) \cup ToSet(g)
      BY <3>3, <3>6, Zenon DEF Adds
    <3>8. (s = S /\ x = <<>>) \/ (s = <<>> /\ x = S)
      BY <3>4
    <3>9. Len(S) \in Nat /\ Len(<<>>) = 0 /\ ToSet(<<>>) = {} /\ Len(f) \in Nat
      BY <2>8, <3>1, NoIds
    <3>10. Len(g) \in Nat
      <4>1. Same(g, Load(MergedIn(in), setting.tools))
        BY <2>5 DEF U, tools, g
      <4>2. Len(Load(U, tools)) \in Nat
        BY <2>4
      <4> QED
        BY <4>1, <4>2 DEF Same, U, tools
    <3>11. Len(w) = Len(S) + Len(g)
      BY <3>7, <3>8, <3>9, <3>10
    <3>12. ToSet(w) = ToSet(S) \cup ToSet(g)
      BY <3>7, <3>8, <3>9
    <3> QED
      BY <3>5, <3>11, <3>12 DEF Adds, w, g
  <2>12. Len(Arrived(r)) = Len(FittingBy(c, tools)) /\ ToSet(Arrived(r)) = ToSet(FittingBy(c, tools))
    <3>1. Len(Arrived(r)) = Len(S) + Len(Freight(First(in))) /\ Len(FittingBy(c, tools)) = Len(S) + Len(Load(U, tools))
          /\ Len(Freight(First(in))) = Len(Load(U, tools))
      BY <2>4, <2>5, <2>11 DEF Adds, Same
    <3>2. ToSet(Arrived(r)) = ToSet(S) \cup ToSet(Freight(First(in)))
          /\ ToSet(FittingBy(c, tools)) = ToSet(S) \cup ToSet(Load(U, tools))
          /\ ToSet(Freight(First(in))) = ToSet(Load(U, tools))
      BY <2>4, <2>5, <2>11, Zenon DEF Adds, Same
    <3> QED
      BY <3>1, <3>2
  <2>13. ASSUME NEW i \in 1 .. Len(C), NEW a \in Spoken(r, c, i)
         PROVE  i > d /\ i - d \in DOMAIN U /\ a \in ToSet(Cargo(U[i - d], tools))
    <3>1. a \in ToSet(Carried(C[i])) /\ c[a.turn].role # "system"
      BY <2>9, <2>13 DEF Spoken
    <3>2. a \notin ToSet(S)
      BY <2>4, <3>1
    <3> QED
      BY <2>2, <3>1, <3>2, PieceFrom DEF C, d, U, tools
  <2>14. ASSUME NEW i \in 1 .. Len(C), NEW j \in 1 .. Len(C), i < j,
                NEW a \in Spoken(r, c, i), NEW b \in Spoken(r, c, j)
         PROVE  a.turn <= b.turn
    <3>1. i - d \in DOMAIN U /\ a \in ToSet(Cargo(U[i - d], tools))
      BY <2>13
    <3>2. j - d \in DOMAIN U /\ b \in ToSet(Cargo(U[j - d], tools))
      BY <2>13
    <3>3. d \in {0, 1}
      BY <2>1, FirstMessages DEF d
    <3>4. i - d < j - d
      BY <2>2, <2>14, <3>3
    <3>5. InOrder(U, <<>>, tools)
      BY DEF Booked, Ledger, Books, U, tools
    <3> DEFINE k == i - d
               l == j - d
    <3> HIDE DEF k, l
    <3>6. k < l /\ k \in DOMAIN U /\ l \in DOMAIN U /\ a \in ToSet(Cargo(U[k], tools)) /\ b \in ToSet(Cargo(U[l], tools))
      BY <3>1, <3>2, <3>4 DEF k, l
    <3> QED
      BY <3>5, <3>6, Zenon DEF InOrder
  <2>15. \A i, j \in DOMAIN r.entries : i < j =>
           \A a \in Spoken(r, c, i), b \in Spoken(r, c, j) : a.turn <= b.turn
    BY <2>2, <2>14
  <2> QED
    BY <2>12, <2>15 DEF Delivered, r, tools
<1> QED
  BY <1>1, <1>2

\* Both surfaces' conversations are booked.
LEMMA OpenAIBooked ==
  ASSUME NEW c \in Seq(OpenAITurns)
  PROVE  Booked(FromOpenAI(c), c, FromOpenAI(c).system)
<1> DEFINE in == FromOpenAI(c)
<1>1. Ledger(c, MergedIn(in), <<>>, in.system, setting.tools) /\ Converted(in)
  BY OpenAILedger DEF MergedIn
<1> HIDE DEF in
<1>2. Books(c, MergedIn(in), <<>>, in.system, setting.tools)
  BY <1>1 DEF Ledger
<1>3. in.system \in Seq(AtomSet) /\ \A a \in ToSet(Bag(<<>>)) \cup ToSet(in.system) : a.turn \in 1 .. Len(c)
      /\ c \in Seq(Turns)
  BY <1>2, BooksPieces
<1>4. AllTurned(in.system)
  BY <1>3 DEF AllTurned
<1>5. OfTurns(in.system) = in.system
  BY <1>3, <1>4, OfTurnsIs
<1> QED
  BY <1>1, <1>3, <1>5 DEF Booked, in

\* The Anthropic conversion is booked, with an empty system prompt.
LEMMA AnthropicBooked ==
  ASSUME NEW c \in Seq(AnthropicTurns)
  PROVE  Booked(FromAnthropic(c), c, <<>>)
<1> DEFINE in == FromAnthropic(c)
<1>1. Ledger(c, MergedIn(in), <<>>, <<>>, setting.tools) /\ Converted(in)
  BY AnthropicLedger DEF MergedIn
<1>2. in.system = IF setting.system THEN <<Atom("text", 0, NoId)>> ELSE <<>>
  BY DEF FromAnthropic
<1> HIDE DEF in
<1>3. OfTurns(in.system) = <<>>
  BY <1>2, OfNoTurn
<1>4. <<>> \in Seq(AtomSet)
  OBVIOUS
<1> QED
  BY <1>1, <1>3, <1>4 DEF Booked, in

\* Of every conversation, the pieces that have a place arrive exactly once and in
\* order, through merging, the tool rules and the prompt (invariants.go, rules 3 and
\* 5 to 7), and the others never.
Delivering == Speech /\ Delivered(request, turns, setting.tools)

THEOREM FittingPiecesArrive == Spec => []FittingArriveOnce
<1>1. Init => Delivering
  <2>1. Init => Delivered(request, turns, setting.tools)
    BY DEF Init, Refused, Delivered
  <2> QED
    BY <2>1, SpeechInit DEF Delivering
<1>2. Delivering /\ [Next]_vars => Delivering'
  <2> SUFFICES ASSUME Delivering, [Next]_vars PROVE Delivering'
    OBVIOUS
  <2>1. Speech /\ Speech'
    BY SpeechStep DEF Delivering
  <2>2. CASE Next
    <3>1. /\ setting' = setting
          /\ \/ setting.surface = "openai" /\ turns' \in Seq(OpenAITurns)
                 /\ request' = Build(FromOpenAI(turns'))
             \/ setting.surface = "anthropic" /\ turns' \in Seq(AnthropicTurns)
                 /\ request' = Build(FromAnthropic(turns'))
      BY <2>1, <2>2, Requested
    <3>2. Delivered(request', turns', setting.tools)
      BY <3>1, OpenAIBooked, BuildDelivers, AnthropicBooked
    <3>3. Delivered(request', turns', setting'.tools)
      BY <3>1, <3>2
    <3>4. Delivered(request, turns, setting.tools)'
      BY <3>3 DEF Delivered, Arrived, Spoken, PiecesIn, FittingBy
    <3> QED
      BY <2>1, <3>4 DEF Delivering
  <2>3. CASE UNCHANGED vars
    BY <2>1, <2>3 DEF Delivering, vars, Delivered, Arrived, Spoken, PiecesIn, FittingBy
  <2> QED
    BY <2>2, <2>3
<1>3. Delivering => FittingArriveOnce
  <2> SUFFICES ASSUME Delivering, request.sent PROVE FittingArriveOnce
    BY DEF FittingArriveOnce
  <2> DEFINE fitting == FlattenSeq([n \in DOMAIN turns |-> Fitting(n)])
             arrived == OfTurns(request.system)
                          \o FlattenSeq([i \in DOMAIN request.entries |-> Pieces(i)])
             spoken(i) == {a \in ToSet(Pieces(i)) : turns[a.turn].role # "system"}
  <2>1. \A i : Pieces(i) = PiecesIn(request.entries[i])
    BY DEF Pieces, PiecesIn
  <2>2. \A n : Fitting(n) = FittingTurn(n, turns[n], setting.tools)
    BY DEF Fitting, FittingTurn
  <2>3. fitting = FittingBy(turns, setting.tools)
    BY <2>2 DEF FittingBy
  <2>4. arrived = Arrived(request)
    BY <2>1 DEF Arrived
  <2>5. \A i : spoken(i) = Spoken(request, turns, i)
    BY <2>1 DEF Spoken
  <2> HIDE DEF fitting, arrived
  <2>6. Len(arrived) = Len(fitting) /\ ToSet(fitting) = ToSet(arrived)
    BY <2>3, <2>4 DEF Delivering, Delivered
  <2>7. \A i, j \in DOMAIN request.entries : i < j =>
           \A a \in spoken(i), b \in spoken(j) : a.turn <= b.turn
    <3> HIDE DEF spoken
    <3> QED
      BY <2>5 DEF Delivering, Delivered
  <2>8. \A n \in DOMAIN turns : ToSet(Misfits(n)) \cap ToSet(arrived) = {}
    <3>1. turns \in Seq(Turns)
      BY SurfaceTurns DEF Delivering, Speech
    <3>2. \A n : Misfits(n) = MisfitsOf(n, turns[n], setting.tools)
      BY DEF Misfits, MisfitsOf
    <3> QED
      BY <2>3, <2>6, <3>1, <3>2, MisfitsStay
  <2> QED
    BY <2>6, <2>7, <2>8 DEF FittingArriveOnce, fitting, arrived
<1> QED
  BY <1>1, <1>2, <1>3, PTL DEF Spec

-----------------------------------------------------------------------------
(* Results and the calls they answer.                                       *)

\* What becomes of the results of message j: those that are kept go with an entry of
\* the user's.
Sent(in, i, a) ==
    LET U == MergedIn(in)
        j == i - Shift(in)
    IN  /\ setting.tools # {} /\ i > Shift(in) /\ j \in DOMAIN U /\ U[j].role = "user"
        /\ \E x \in Kept(U, j) : a = x.atom

\* What each message that is sent comes from.
LEMMA ClosedMessage ==
  ASSUME NEW in, Converted(in), First(in) # <<>>, NEW i \in 1 .. Len(Closed(in))
  PROVE  LET m == Closed(in)[i]
             U == MergedIn(in)
             j == i - Shift(in)
         IN  \/ /\ i > Shift(in) /\ j \in DOMAIN U /\ m.role = Ruled(U, j).role
                /\ m.calls = Ruled(U, j).calls /\ m.results = Ruled(U, j).results
             \/ (i <= Shift(in) \/ j \notin DOMAIN U) /\ m.results = <<>>
<1> DEFINE C == Closed(in)
           P == Placed(in)
           F == First(in)
           U == MergedIn(in)
           d == Shift(in)
           f == Filler("user", <<Placeholder>>)
           j == i - d
<1>1. /\ \A k \in 1 .. Len(F) : C[k] = P[k]
      /\ (Len(C) = Len(F) \/ (Len(C) = Len(F) + 1 /\ C[Len(F) + 1] = f))
  BY ClosedIs
<1>2. /\ \A k \in 1 .. Len(F) : P[k].role = F[k].role
      /\ \A k \in 2 .. Len(F) : P[k] = F[k]
      /\ P[1].calls = F[1].calls /\ P[1].results = F[1].results
  BY PlacedIs
<1>3. /\ U \in Seq(MessageSet) /\ Len(F) \in Nat /\ d \in {0, 1} /\ (d = 1 => F[1] = f)
      /\ Len(F) = Len(U) + d
      /\ \A k \in 1 .. Len(F) : k > d => k - d \in DOMAIN U /\ F[k] = Ruled(U, k - d)
  BY FirstMessages
<1>4. f.results = <<>>
  BY PlaceholderFiller
<1>5. i \in 1 .. Len(C)
  OBVIOUS
<1> HIDE DEF C, P, F, U, d, f
<1>6. DOMAIN U = 1 .. Len(U) /\ Len(U) \in Nat
  BY <1>3
<1>7. CASE i \in 1 .. Len(F)
  <2>1. C[i].role = F[i].role /\ C[i].calls = F[i].calls /\ C[i].results = F[i].results
    <3>1. C[i] = P[i]
      BY <1>1, <1>7
    <3>2. CASE i = 1
      BY <1>2, <1>7, <3>1, <3>2
    <3>3. CASE i # 1
      <4>1. i \in 2 .. Len(F)
        BY <1>3, <1>7, <3>3
      <4> QED
        BY <1>2, <3>1, <4>1
    <3> QED
      BY <3>2, <3>3
  <2>2. CASE i > d
    <3>1. j \in DOMAIN U /\ F[i] = Ruled(U, j)
      BY <1>3, <1>7, <2>2
    <3> QED
      BY <2>1, <2>2, <3>1 DEF C, U, d
  <2>3. CASE ~(i > d)
    <3>1. i = 1 /\ d = 1 /\ i <= d
      BY <1>3, <1>7, <2>3
    <3>2. C[i].results = <<>>
      BY <1>3, <1>4, <2>1, <3>1
    <3> QED
      BY <3>1, <3>2 DEF C, d
  <2> QED
    BY <2>2, <2>3
<1>8. CASE i \notin 1 .. Len(F)
  <2>1. C[i] = f /\ i = Len(F) + 1
    BY <1>1, <1>3, <1>5, <1>8
  <2>2. j \notin DOMAIN U
    BY <1>3, <1>6, <2>1
  <2>3. C[i].results = <<>>
    BY <1>4, <2>1
  <2> QED
    BY <2>2, <2>3 DEF C, U, d
<1> QED
  BY <1>7, <1>8

\* The results of an entry are those that the tool rules left it.
LEMMA EntryResults ==
  ASSUME NEW in, Converted(in), Build(in) # Refused, NEW i \in DOMAIN Build(in).entries
  PROVE  /\ \A a : a \in ToSet(Build(in).entries[i].results) <=> Sent(in, i, a)
         /\ setting.tools # {} /\ i > Shift(in) /\ i - Shift(in) \in DOMAIN MergedIn(in)
              /\ MergedIn(in)[i - Shift(in)].role = "assistant"
            => Build(in).entries[i].calls = MergedIn(in)[i - Shift(in)].calls
<1> DEFINE m == Closed(in)[i]
           U == MergedIn(in)
           d == Shift(in)
           j == i - d
           e == Build(in).entries[i]
           n == Ruled(U, j)
<1>1. First(in) # <<>> /\ i \in 1 .. Len(Closed(in)) /\ e = Entry(m)
  BY EntriesAre
<1>2. \/ i > d /\ j \in DOMAIN U /\ m.role = n.role /\ m.calls = n.calls /\ m.results = n.results
      \/ (i <= d \/ j \notin DOMAIN U) /\ m.results = <<>>
  BY <1>1, ClosedMessage
<1>3. /\ m.role = "user" => e.results = AtomsOf(m.results)
      /\ m.role # "user" => e.results = <<>> /\ e.calls = m.calls
  BY <1>1, EntryIs
<1>4. U \in Seq(MessageSet) /\ d \in {0, 1}
  BY FirstMessages
<1>5. i \in Nat
  <2>1. Closed(in) \in Seq(MessageSet)
    BY <1>1, ClosedIs
  <2> QED
    BY <1>1, <2>1
<1>6. \A a : Sent(in, i, a) <=>
        /\ setting.tools # {} /\ i > d /\ j \in DOMAIN U /\ U[j].role = "user"
        /\ \E x \in Kept(U, j) : a = x.atom
  BY DEF Sent
<1>7. j \in DOMAIN U =>
        /\ n.role = U[j].role /\ U[j].role \in Roles
        /\ setting.tools = {} => n.results = <<>>
        /\ setting.tools # {} => /\ n.calls = U[j].calls /\ n.results \in Seq(ResultSet)
                                 /\ ToSet(n.results) = Kept(U, j)
  <2> SUFFICES ASSUME j \in DOMAIN U
               PROVE /\ n.role = U[j].role /\ U[j].role \in Roles
                     /\ setting.tools = {} => n.results = <<>>
                     /\ setting.tools # {} => /\ n.calls = U[j].calls /\ n.results \in Seq(ResultSet)
                                              /\ ToSet(n.results) = Kept(U, j)
    OBVIOUS
  <2> HIDE DEF U, j
  <2>1. U[j] \in MessageSet /\ U[j].role \in Roles
    BY <1>4, MessageFields
  <2>2. n.role = U[j].role
    BY <1>4, RuledContent
  <2>3. setting.tools = {} => n.results = <<>>
    BY <2>1, TextualIs DEF Ruled
  <2>4. setting.tools # {} => /\ n.calls = U[j].calls /\ n.results \in Seq(ResultSet)
                              /\ ToSet(n.results) = Kept(U, j)
    BY <1>4, InlinedIs DEF Ruled
  <2> QED
    BY <2>1, <2>2, <2>3, <2>4
<1> HIDE DEF m, U, d, j, e, n
<1>8. ASSUME i > d, j \in DOMAIN U, setting.tools # {}, U[j].role = "assistant"
      PROVE  e.calls = U[j].calls
  <2>1. m.role = n.role /\ m.calls = n.calls /\ n.role = "assistant"
    BY <1>2, <1>4, <1>5, <1>7, <1>8
  <2> QED
    BY <1>3, <1>7, <1>8, <2>1
<1>9. ToSet(<<>>) = {} /\ AtomsOf(<<>>) = <<>>
  BY NoIds, EmptyAtoms
<1>10. ASSUME NEW a PROVE a \in ToSet(e.results) <=> Sent(in, i, a)
  <2>1. CASE i > d /\ j \in DOMAIN U /\ setting.tools # {} /\ U[j].role = "user"
    <3>1. m.role = "user" /\ m.results = n.results
      BY <1>2, <1>4, <1>5, <1>7, <2>1
    <3>2. n.results \in Seq(ResultSet) /\ ToSet(n.results) = Kept(U, j)
      BY <1>7, <2>1
    <3>3. e.results = AtomsOf(n.results)
      BY <1>3, <3>1
    <3>4. a \in ToSet(AtomsOf(n.results)) <=> \E x \in ToSet(n.results) : a = x.atom
      BY <3>2, AtomsOfIs
    <3> QED
      BY <1>6, <2>1, <3>2, <3>3, <3>4
  <2>2. CASE ~(i > d /\ j \in DOMAIN U /\ setting.tools # {} /\ U[j].role = "user")
    <3>1. ~Sent(in, i, a)
      BY <1>6, <2>2
    <3>2. m.results = <<>> \/ m.role # "user"
      <4>1. CASE m.results = <<>>
        BY <4>1
      <4>2. CASE i > d /\ j \in DOMAIN U /\ m.role = n.role /\ m.results = n.results
        BY <1>7, <2>2, <4>2
      <4> QED
        BY <1>2, <4>1, <4>2
    <3>3. e.results = <<>>
      BY <1>3, <1>9, <3>2
    <3> QED
      BY <1>9, <3>1, <3>3
  <2> QED
    BY <2>1, <2>2
<1> QED
  BY <1>8, <1>10 DEF U, d, j, e

\* Rule 7 as the client sees it.
AnswersIn(c, n, id) == id # NoId /\ Side(c[n]) = "user" /\ Calling(c, n, id)
ResultsSent(r) == UNION {ToSet(r.entries[i].results) : i \in DOMAIN r.entries}
Answered(r, c, tools) ==
    r.sent =>
        /\ \A i \in DOMAIN r.entries : \A x \in ToSet(r.entries[i].results) :
              i > 1 /\ x.id \in {y.id : y \in ToSet(r.entries[i - 1].calls)}
        /\ \A n \in DOMAIN c : \A x \in ToSet(ResultsOf(n, c[n])) :
              x.atom \in ResultsSent(r) <=> tools # {} /\ AnswersIn(c, n, x.atom.id)

\* The calls that a result may answer are those just before it.
LEMMA ValidIs ==
  ASSUME NEW U, NEW i
  PROVE  Valid(U, i) = CallsBefore(U, i) \ {NoId}
BY DEF Valid, CallsBefore, IdsOf

\* The results of a turn bear its number.
LEMMA ResultAtom ==
  ASSUME NEW n \in Nat, NEW t \in Turns, NEW x \in ToSet(ResultsOf(n, t))
  PROVE  x.atom.turn = n
<1>1. PICK i \in DOMAIN ResultsOf(n, t) : x = ResultsOf(n, t)[i]
  BY DEF ToSet
<1>2. i \in DOMAIN t.results
  BY <1>1 DEF ResultsOf
<1>3. x = [atom |-> Atom("result", n, t.results[i].id),
           images |-> Picture(n, t.results[i].id, t.results[i].image)]
  BY <1>1, <1>2, ResultsOfType
<1>4. x.atom = Atom("result", n, t.results[i].id)
  BY <1>3
<1> QED
  BY <1>4 DEF Atom

\* Each result that is sent is of a user's message and is one of those kept there.
LEMMA SentIs ==
  ASSUME NEW in, NEW c, NEW S, Booked(in, c, S), NEW i, NEW a, Sent(in, i, a)
  PROVE  /\ a.turn \in 1 .. Len(c) /\ AnswersIn(c, a.turn, a.id)
         /\ a.id \in CallsBefore(MergedIn(in), i - Shift(in))
<1> DEFINE U == MergedIn(in)
           j == i - Shift(in)
<1>1. j \in DOMAIN U /\ U[j].role = "user"
  BY DEF Sent
<1>2. PICK x \in Kept(U, j) : a = x.atom
  BY DEF Sent
<1>3. Answering(c, U, <<>>)
  BY DEF Booked, Ledger
<1> HIDE DEF U, j
<1>4. x \in ToSet(U[j].results) /\ x.atom.id \in Valid(U, j)
  BY <1>2 DEF Kept
<1>5. ResultOf(c, x, "user", CallsBefore(U, j))
  BY <1>1, <1>3, <1>4, Zenon DEF Answering
<1>6. x.atom.id \in CallsBefore(U, j) /\ x.atom.id # NoId
  BY <1>4, ValidIs
<1>7. /\ x.atom.turn \in 1 .. Len(c) /\ Side(c[x.atom.turn]) = "user"
      /\ Calling(c, x.atom.turn, x.atom.id)
  BY <1>5, <1>6 DEF ResultOf
<1> QED
  BY <1>2, <1>6, <1>7 DEF AnswersIn, U, j

\* A result that answers a call is sent as one.
LEMMA AnswerIsSent ==
  ASSUME NEW in, NEW c, NEW S, Booked(in, c, S), setting.tools # {},
         NEW n \in 1 .. Len(c), NEW x \in ToSet(ResultsOf(n, c[n])), AnswersIn(c, n, x.atom.id)
  PROVE  \E j \in DOMAIN MergedIn(in) : Sent(in, j + Shift(in), x.atom)
<1> DEFINE U == MergedIn(in)
           d == Shift(in)
<1>1. Answering(c, U, <<>>) /\ Converted(in)
  BY DEF Booked, Ledger
<1>2. U \in Seq(MessageSet) /\ d \in {0, 1}
  BY <1>1, FirstMessages
<1>3. c \in Seq(Turns) /\ c[n] \in Turns /\ n \in Nat
  BY <1>1 DEF Answering
<1>4. x.atom.turn = n
  BY <1>3, ResultAtom
<1> HIDE DEF U, d
<1>5. \E i \in DOMAIN U : x \in ToSet(U[i].results)
  <2>1. (\E i \in DOMAIN U : x \in ToSet(U[i].results)) \/ x \in ToSet(<<>>)
    BY <1>1 DEF Answering
  <2> QED
    BY <2>1, NoIds
<1>6. PICK j \in DOMAIN U : x \in ToSet(U[j].results)
  BY <1>5
<1>7. ResultOf(c, x, U[j].role, CallsBefore(U, j))
  BY <1>1, <1>6, Zenon DEF Answering
<1>8. U[j].role = "user"
  BY <1>4, <1>7 DEF ResultOf, AnswersIn
<1>9. x.atom.id \in CallsBefore(U, j) /\ x.atom.id # NoId
  BY <1>4, <1>7, <1>8 DEF ResultOf, AnswersIn
<1>10. x \in Kept(U, j)
  BY <1>6, <1>9, ValidIs DEF Kept
<1>11. (j + d) - d = j /\ j + d > d
  BY <1>2, <1>6
<1>12. Sent(in, j + d, x.atom)
  BY <1>8, <1>10, <1>11 DEF Sent, U, d
<1> QED
  BY <1>12 DEF U, d

\* Whatever the ledger has, results answer calls, and all that answer one are there.
LEMMA BuildAnswers ==
  ASSUME NEW in, NEW c, NEW S, Booked(in, c, S)
  PROVE  Answered(Build(in), c, setting.tools)
<1> DEFINE r == Build(in)
           U == MergedIn(in)
           d == Shift(in)
<1>1. CASE r = Refused
  BY <1>1 DEF Refused, Answered
<1>2. CASE r # Refused
  <2>1. Converted(in) /\ c \in Seq(Turns)
    BY DEF Booked, Ledger, Books
  <2>2. /\ First(in) # <<>> /\ Len(Closed(in)) \in Nat /\ DOMAIN r.entries = 1 .. Len(Closed(in))
    BY <1>2, <2>1, EntriesAre
  <2>3. U \in Seq(MessageSet) /\ d \in {0, 1} /\ Len(First(in)) = Len(U) + d /\ Alternating(U)
    BY <2>1, FirstMessages, MergeAlternates DEF Converted, MergedIn
  <2>4. Len(First(in)) <= Len(Closed(in))
    <3>1. Len(First(in)) \in Nat
      BY <2>1, FirstMessages
    <3> QED
      BY <2>1, <2>2, <3>1, ClosedIs
  <2>5. \A i \in DOMAIN r.entries : \A a : a \in ToSet(r.entries[i].results) <=> Sent(in, i, a)
    BY <1>2, <2>1, EntryResults
  <2>6. \A i \in DOMAIN r.entries :
          setting.tools # {} /\ i > d /\ i - d \in DOMAIN U /\ U[i - d].role = "assistant"
            => r.entries[i].calls = U[i - d].calls
    BY <1>2, <2>1, EntryResults
  <2> HIDE DEF r, U, d
  <2>7. DOMAIN U = 1 .. Len(U) /\ Len(U) \in Nat
    BY <2>3
  <2>8. ASSUME NEW i \in DOMAIN r.entries, NEW x \in ToSet(r.entries[i].results)
        PROVE  i > 1 /\ x.id \in {y.id : y \in ToSet(r.entries[i - 1].calls)}
    <3>1. Sent(in, i, x)
      BY <2>5, <2>8
    <3> DEFINE j == i - d
    <3>2. x.id \in CallsBefore(U, j)
      BY <3>1, SentIs DEF U, d
    <3>3. j \in DOMAIN U /\ setting.tools # {}
      BY <3>1 DEF Sent, U, d
    <3> HIDE DEF j
    <3>4. j > 1 /\ U[j - 1].role = "assistant" /\ x.id \in IdsOf(U[j - 1].calls)
      BY <3>2 DEF CallsBefore
    <3>5. i \in Nat /\ j = i - d
      BY <2>2, <2>8 DEF j
    <3>6. i > 1 /\ (i - 1) - d = j - 1 /\ j - 1 \in DOMAIN U /\ i - 1 > d /\ i - 1 \in DOMAIN r.entries
      BY <2>2, <2>3, <2>7, <2>8, <3>3, <3>4, <3>5
    <3>7. r.entries[i - 1].calls = U[j - 1].calls
      BY <2>6, <3>3, <3>4, <3>6
    <3> QED
      BY <3>4, <3>6, <3>7 DEF IdsOf
  <2>9. ASSUME NEW n \in DOMAIN c, NEW x \in ToSet(ResultsOf(n, c[n]))
        PROVE  x.atom \in ResultsSent(r) <=> setting.tools # {} /\ AnswersIn(c, n, x.atom.id)
    <3>1. n \in Nat /\ c[n] \in Turns /\ n \in 1 .. Len(c)
      BY <2>1
    <3>2. x.atom.turn = n
      BY <2>9, <3>1, ResultAtom
    <3>3. ASSUME x.atom \in ResultsSent(r) PROVE setting.tools # {} /\ AnswersIn(c, n, x.atom.id)
      <4>1. PICK i \in DOMAIN r.entries : x.atom \in ToSet(r.entries[i].results)
        BY <3>3 DEF ResultsSent
      <4>2. Sent(in, i, x.atom)
        BY <2>5, <4>1
      <4>3. AnswersIn(c, x.atom.turn, x.atom.id)
        BY <4>2, SentIs
      <4> QED
        BY <3>2, <4>2, <4>3 DEF Sent
    <3>4. ASSUME setting.tools # {}, AnswersIn(c, n, x.atom.id) PROVE x.atom \in ResultsSent(r)
      <4>1. PICK j \in DOMAIN U : Sent(in, j + d, x.atom)
        BY <2>9, <3>1, <3>4, AnswerIsSent DEF U, d
      <4>2. j + d \in DOMAIN r.entries
        BY <2>2, <2>3, <2>4, <2>7, <4>1
      <4>3. x.atom \in ToSet(r.entries[j + d].results)
        BY <2>5, <4>1, <4>2
      <4> QED
        BY <4>2, <4>3 DEF ResultsSent
    <3> QED
      BY <3>3, <3>4
  <2> QED
    BY <2>8, <2>9 DEF Answered, r
<1> QED
  BY <1>1, <1>2

\* A result of any conversation is sent as one exactly if it answers a call, and then
\* right after the entry that makes it (rule 7: inlineOrphanedToolResults and the order
\* of the rules, invariants.go:94-99).
AnswersKept == Speech /\ Answered(request, turns, setting.tools)

THEOREM ResultsAnswerCalls == Spec => []AnswersStayResults
<1>1. Init => AnswersKept
  <2>1. Init => Answered(request, turns, setting.tools)
    BY DEF Init, Refused, Answered
  <2> QED
    BY <2>1, SpeechInit DEF AnswersKept
<1>2. AnswersKept /\ [Next]_vars => AnswersKept'
  <2> SUFFICES ASSUME AnswersKept, [Next]_vars PROVE AnswersKept'
    OBVIOUS
  <2>1. Speech /\ Speech'
    BY SpeechStep DEF AnswersKept
  <2>2. CASE Next
    <3>1. /\ setting' = setting
          /\ \/ setting.surface = "openai" /\ turns' \in Seq(OpenAITurns)
                 /\ request' = Build(FromOpenAI(turns'))
             \/ setting.surface = "anthropic" /\ turns' \in Seq(AnthropicTurns)
                 /\ request' = Build(FromAnthropic(turns'))
      BY <2>1, <2>2, Requested
    <3>2. Answered(request', turns', setting.tools)
      BY <3>1, OpenAIBooked, BuildAnswers, AnthropicBooked
    <3>3. Answered(request', turns', setting'.tools)
      BY <3>1, <3>2
    <3>4. Answered(request, turns, setting.tools)'
      BY <3>3 DEF Answered, ResultsSent, AnswersIn, Calling
    <3> QED
      BY <2>1, <3>4 DEF AnswersKept
  <2>3. CASE UNCHANGED vars
    BY <2>1, <2>3 DEF AnswersKept, vars, Answered, ResultsSent, AnswersIn, Calling
  <2> QED
    BY <2>2, <2>3
<1>3. AnswersKept => AnswersStayResults
  <2> SUFFICES ASSUME AnswersKept, request.sent PROVE AnswersStayResults
    BY DEF AnswersStayResults
  <2> DEFINE kept == UNION {ToSet(request.entries[i].results) : i \in DOMAIN request.entries}
  <2>1. kept = ResultsSent(request)
    BY DEF ResultsSent
  <2>2. \A n, id : Answers(n, id) <=> AnswersIn(turns, n, id)
    BY DEF Answers, AnswersIn, ClientSide, Side, Calling
  <2> HIDE DEF kept
  <2>3. \A i \in DOMAIN request.entries : \A r \in ToSet(request.entries[i].results) :
          i > 1 /\ r.id \in {c.id : c \in ToSet(request.entries[i - 1].calls)}
    BY DEF AnswersKept, Answered
  <2>4. \A n \in DOMAIN turns : \A r \in ToSet(ResultsOf(n, turns[n])) :
          r.atom \in kept <=> setting.tools # {} /\ Answers(n, r.atom.id)
    BY <2>1, <2>2 DEF AnswersKept, Answered
  <2> QED
    BY <2>3, <2>4 DEF AnswersStayResults, kept
<1> QED
  BY <1>1, <1>2, <1>3, PTL DEF Spec
=============================================================================
