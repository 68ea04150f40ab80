------------------------- MODULE ModelResolve_proofs -------------------------
(***************************************************************************)
(* ModelResolve for any lists, names and refreshes: an effort is sent only *)
(* to a model that offers it. If the backend's ids are in normal form, a   *)
(* call gives what the lists agree on; if they are ordinary in all ways,   *)
(* what is advertised is served. The code takes the ids as they come.      *)
(***************************************************************************)
EXTENDS ModelResolve, FiniteSetTheorems, SequenceTheorems, TLAPS

-----------------------------------------------------------------------------
(* Sets of natural numbers.                                                 *)

\* Min is the least element.
LEMMA LeastOf ==
  ASSUME NEW S, S \subseteq Nat, S # {}
  PROVE  Min(S) \in S /\ \A m \in S : Min(S) <= m
<1>1. IsWellFoundedOn(OpToRel(<, Nat), Nat)
  BY NatLessThanWellFounded
<1>2. PICK n \in S : \A m \in S : ~ (<<m, n>> \in OpToRel(<, Nat))
  BY <1>1, WFMin
<1>3. \A m \in S : ~ (m < n)
  BY <1>2 DEF OpToRel
<1>4. \A m \in S : n <= m
  BY <1>3
<1> QED
  BY <1>4 DEF Min

\* Max of two numbers is the greater of them.
LEMMA GreaterOf ==
  ASSUME NEW a \in Nat, NEW b \in Nat
  PROVE  Max({a, b}) \in {a, b} /\ Max({a, b}) >= a /\ Max({a, b}) >= b
<1>1. \E x \in {a, b} : \A y \in {a, b} : x >= y
  OBVIOUS
<1> QED
  BY <1>1 DEF Max

-----------------------------------------------------------------------------
(* Efforts.                                                                 *)

\* The levels kirogo knows, in their order.
LEMMA RankIs ==
    /\ DOMAIN EffortRank = 1 .. 6
    /\ ValidEfforts = {EffortRank[n] : n \in 1 .. 6}
<1>1. DOMAIN EffortRank = 1 .. 6
  BY DEF EffortRank
<1> QED
  BY <1>1 DEF ValidEfforts, Range

\* None of them is the empty one.
LEMMA EffortsAreSome == NoEffort \notin ValidEfforts
<1>1. /\ EffortRank[1] = "none" /\ EffortRank[2] = "low" /\ EffortRank[3] = "medium"
      /\ EffortRank[4] = "high" /\ EffortRank[5] = "xhigh" /\ EffortRank[6] = "max"
  BY DEF EffortRank
<1>2. ASSUME NEW n \in 1 .. 6
      PROVE  EffortRank[n] \in {"none", "low", "medium", "high", "xhigh", "max"}
  <2>1. n = 1 \/ n = 2 \/ n = 3 \/ n = 4 \/ n = 5 \/ n = 6
    OBVIOUS
  <2> QED
    BY <2>1, <1>1
<1>3. NoEffort \notin {"none", "low", "medium", "high", "xhigh", "max"}
  BY Zenon DEF NoEffort
<1> QED
  BY <1>2, <1>3, RankIs

\* The least level of a model is one it offers.
LEMMA LeastIsOffered ==
  ASSUME NEW model, LeastLevel(model) # NoEffort
  PROVE  Allows(model, LeastLevel(model))
<1> DEFINE offered == {n \in DOMAIN EffortRank : Allows(model, EffortRank[n])}
<1>1. offered # {} /\ LeastLevel(model) = EffortRank[Min(offered)]
  BY DEF LeastLevel
<1>2. offered \subseteq Nat
  BY RankIs
<1>3. Min(offered) \in offered
  BY <1>1, <1>2, LeastOf
<1> QED
  BY <1>1, <1>3

\* A model as a list holds it.
IsModel(model) == model.levels \in Seq(STRING \ {NoEffort})

\* What is sent is a level the model offers.
LEMMA EffortIsOffered ==
  ASSUME NEW id, NEW model, IsModel(model), NEW wanted,
         ResolveEffort(id, model, wanted) # NoEffort
  PROVE  Allows(model, ResolveEffort(id, model, wanted))
<1> DEFINE levels == Append(wanted, model.default)
           means == {n \in DOMAIN levels : Allows(model, levels[n]) \/ levels[n] \in ValidEfforts}
           level == levels[Min(means)]
<1>1. model.levels # <<>>
  BY DEF ResolveEffort
<1>2. \/ ResolveEffort(id, model, wanted) = LeastLevel(model)
      \/ Allows(model, ResolveEffort(id, model, wanted))
      \/ ResolveEffort(id, model, wanted) = Last(model.levels)
  BY DEF ResolveEffort
<1>3. Allows(model, Last(model.levels))
  <2>1. Len(model.levels) \in DOMAIN model.levels
    BY <1>1 DEF IsModel
  <2> QED
    BY <2>1 DEF Allows, Range, Last
<1> QED
  BY <1>2, <1>3, LeastIsOffered

\* A wanted level that the model offers is sent as it is.
LEMMA EffortIsWanted ==
  ASSUME NEW id, NEW model, IsModel(model), NEW S, NEW wanted \in Seq(S), wanted # <<>>,
         id # AutoModelID, Allows(model, wanted[1])
  PROVE  ResolveEffort(id, model, wanted) = wanted[1]
<1> DEFINE levels == Append(wanted, model.default)
           means == {n \in DOMAIN levels : Allows(model, levels[n]) \/ levels[n] \in ValidEfforts}
<1>1. model.levels # <<>>
  BY DEF Allows, Range
<1>2. levels[1] = wanted[1] /\ DOMAIN levels = 1 .. Len(wanted) + 1
  <2>1. Len(wanted) \in Nat \ {0} /\ 1 \in 1 .. Len(wanted)
    OBVIOUS
  <2> QED
    BY <2>1
<1>3. 1 \in means /\ means \subseteq Nat /\ \A n \in means : n >= 1
  BY <1>2
<1> HIDE DEF means
<1>4. Min(means) = 1
  <2>1. Min(means) \in means /\ \A m \in means : Min(means) <= m
    BY <1>3, LeastOf
  <2>2. Min(means) \in Nat /\ Min(means) >= 1 /\ Min(means) <= 1
    BY <2>1, <1>3
  <2> QED
    BY <2>2
<1> HIDE DEF levels
<1>5. means # {} /\ Allows(model, levels[Min(means)])
  BY <1>2, <1>3, <1>4
<1> QED
  BY <1>1, <1>2, <1>4, <1>5 DEF ResolveEffort, means, levels

-----------------------------------------------------------------------------
(* The fuzzy correction.                                                    *)

\* The ids of the lists, and the sets of them that a list may hold.
IsId(id) == id \in Seq(STRING) /\ id # <<>>
Ids(S) == IsFiniteSet(S) /\ \A id \in S : IsId(id)

\* What the assumption says of one list.
LEMMA ListFacts ==
  ASSUME NEW list \in Lists
  PROVE  /\ Ids(DOMAIN list)
         /\ \A id \in DOMAIN list : IsModel(list[id])
BY ResolveAssumption DEF ResolveAssumption, Ids, IsId, IsModel

\* The components of a version are numbers, and none behind the end of the id counts.
LEMMA ComponentIs ==
  ASSUME NEW id, IsId(id), NEW n \in Nat \ {0}
  PROVE  /\ Component(id, n) \in Nat
         /\ n > Len(id) => Component(id, n) = 0
<1> DEFINE IsVersion(from) ==
              \A m \in from .. Len(id) : id[m] \in (IF (m - from) % 2 = 0 THEN Number ELSE {"."})
           starts == {m \in 1 .. Len(id) : (Len(id) - m) % 2 = 0 /\ IsVersion(m)}
           start == VersionStart(id)
           at == start + 2 * (n - 1)
<1>1. Len(id) \in Nat
  BY DEF IsId
<1>2. start = IF starts = {} THEN Len(id) + 1 ELSE Min(starts)
  BY DEF VersionStart
<1>3. starts \subseteq Nat
  BY <1>1
<1>4. starts # {} => Min(starts) \in starts
  <2> HIDE DEF starts
  <2> QED
    BY <1>3, LeastOf
<1>5. start \in Nat /\ start >= 1 /\ (start <= Len(id) => IsVersion(start))
  <2>1. CASE starts = {}
    BY <1>1, <1>2, <2>1
  <2>2. CASE starts # {}
    <3>1. start \in starts
      BY <1>2, <1>4, <2>2
    <3> HIDE DEF start, IsVersion
    <3> QED
      BY <3>1, <1>1
  <2> QED
    BY <2>1, <2>2
<1>6. Component(id, n) = IF at > Len(id) THEN 0 ELSE Value[id[at]]
  BY DEF Component
<1> HIDE DEF start
<1>7. at \in Nat /\ at >= start /\ at > n - 1 /\ at - start = 2 * (n - 1)
  BY <1>5
<1>8. (2 * (n - 1)) % 2 = 0
  OBVIOUS
<1>9. at <= Len(id) => id[at] \in Number
  <2>1. SUFFICES ASSUME at <= Len(id) PROVE id[at] \in Number
    OBVIOUS
  <2>2. at \in start .. Len(id) /\ start <= Len(id)
    BY <1>1, <1>5, <1>7, <2>1
  <2>3. (at - start) % 2 = 0
    BY <1>7, <1>8
  <2> QED
    BY <1>5, <2>2, <2>3
<1>10. \A number \in Number : Value[number] \in Nat
  BY ResolveAssumption DEF ResolveAssumption
<1> HIDE DEF at
<1> QED
  BY <1>1, <1>6, <1>7, <1>9, <1>10

\* An id is newer than another where the first component that differs is greater.
LEMMA NewerIs ==
  ASSUME NEW a, NEW b, IsId(a), IsId(b)
  PROVE  NewerThan(a, b) <=> \E n \in Nat \ {0} :
                                /\ Component(a, n) > Component(b, n)
                                /\ \A m \in 1 .. n - 1 : Component(a, m) = Component(b, m)
<1> DEFINE length == Max({Len(a), Len(b)})
<1>1. Len(a) \in Nat /\ Len(b) \in Nat
  BY DEF IsId
<1>2. length \in Nat /\ length >= Len(a) /\ length >= Len(b)
  BY <1>1, GreaterOf
<1>3. NewerThan(a, b) <=> \E n \in 1 .. length :
                             /\ Component(a, n) > Component(b, n)
                             /\ \A m \in 1 .. n - 1 : Component(a, m) = Component(b, m)
  BY DEF NewerThan
<1> HIDE DEF length
<1>4. ASSUME NEW n \in Nat \ {0}, Component(a, n) > Component(b, n) PROVE n \in 1 .. length
  <2>1. SUFFICES ASSUME n > length PROVE FALSE
    BY <1>2
  <2>2. Component(a, n) = 0 /\ Component(b, n) = 0
    BY <1>1, <1>2, <2>1, ComponentIs
  <2> QED
    BY <1>4, <2>2
<1> QED
  BY <1>2, <1>3, <1>4

\* Newer is an order: nothing is newer than itself, and newer than newer is newer.
LEMMA NewerIsOrder ==
  ASSUME NEW a, NEW b, NEW d, IsId(a), IsId(b), IsId(d)
  PROVE  /\ ~NewerThan(a, a)
         /\ NewerThan(a, b) /\ NewerThan(b, d) => NewerThan(a, d)
<1>1. \A n \in Nat \ {0} :
         Component(a, n) \in Nat /\ Component(b, n) \in Nat /\ Component(d, n) \in Nat
  BY ComponentIs
<1>2. ~NewerThan(a, a)
  BY <1>1, NewerIs
<1>3. ASSUME NewerThan(a, b), NewerThan(b, d) PROVE NewerThan(a, d)
  <2>1. PICK n \in Nat \ {0} : /\ Component(a, n) > Component(b, n)
                               /\ \A m \in 1 .. n - 1 : Component(a, m) = Component(b, m)
    BY <1>3, NewerIs
  <2>2. PICK k \in Nat \ {0} : /\ Component(b, k) > Component(d, k)
                               /\ \A m \in 1 .. k - 1 : Component(b, m) = Component(d, m)
    BY <1>3, NewerIs
  <2> SUFFICES \E l \in Nat \ {0} : /\ Component(a, l) > Component(d, l)
                                    /\ \A m \in 1 .. l - 1 : Component(a, m) = Component(d, m)
    BY NewerIs
  <2>3. CASE n <= k
    <3>1. Component(b, n) >= Component(d, n)
      <4>1. n = k \/ n \in 1 .. k - 1
        BY <2>3
      <4> QED
        BY <4>1, <2>2, <1>1
    <3>2. Component(a, n) > Component(d, n)
      BY <3>1, <2>1, <1>1
    <3>3. \A m \in 1 .. n - 1 : m \in 1 .. k - 1
      BY <2>3
    <3>4. \A m \in 1 .. n - 1 : Component(a, m) = Component(d, m)
      BY <3>3, <2>1, <2>2
    <3> QED
      BY <3>2, <3>4
  <2>4. CASE k < n
    <3>1. k \in 1 .. n - 1 /\ \A m \in 1 .. k - 1 : m \in 1 .. n - 1
      BY <2>4
    <3>2. Component(a, k) > Component(d, k)
      BY <3>1, <2>1, <2>2
    <3>3. \A m \in 1 .. k - 1 : Component(a, m) = Component(d, m)
      BY <3>1, <2>1, <2>2
    <3> QED
      BY <3>2, <3>3
  <2> QED
    BY <2>3, <2>4
<1> QED
  BY <1>2, <1>3

\* One of the ids has no newer one.
Newest(S) == \E id \in S : \A other \in S : ~NewerThan(other, id)

\* That is so of any ids there are.
LEMMA NewestExists ==
  ASSUME NEW S, Ids(S), S # {}
  PROVE  Newest(S)
<1> DEFINE Old(n) == \E T \in SUBSET S : T # {} /\ Cardinality(T) = n /\ ~Newest(T)
           bad == {n \in Nat : Old(n)}
<1>1. SUFFICES ASSUME ~Newest(S) PROVE FALSE
  OBVIOUS
<1>2. Cardinality(S) \in bad
  <2>1. Cardinality(S) \in Nat
    BY FS_CardinalityType DEF Ids
  <2> QED
    BY <1>1, <2>1
<1>3. PICK k \in bad : \A m \in bad : k <= m
  <2>1. bad \subseteq Nat
    OBVIOUS
  <2> HIDE DEF bad
  <2> QED
    BY <1>2, <2>1, LeastOf
<1>4. PICK T \in SUBSET S : T # {} /\ Cardinality(T) = k /\ ~Newest(T)
  BY <1>3
<1>5. PICK x \in T : TRUE
  BY <1>4
<1> DEFINE U == T \ {x}
<1>6. IsFiniteSet(T) /\ IsFiniteSet(U) /\ U \in SUBSET S
  BY FS_Subset DEF Ids
<1>7. Cardinality(U) = k - 1 /\ Cardinality(U) \in Nat
  BY <1>4, <1>5, <1>6, FS_RemoveElement, FS_CardinalityType
<1>8. ASSUME U # {} PROVE Newest(U)
  <2>1. SUFFICES ASSUME ~Newest(U) PROVE FALSE
    OBVIOUS
  <2>2. k - 1 \in bad
    BY <1>6, <1>7, <1>8, <2>1
  <2>3. k <= k - 1 /\ k \in Nat
    BY <2>2, <1>3
  <2> QED
    BY <2>3
<1>9. \A a, b, d \in S : /\ ~NewerThan(a, a)
                         /\ NewerThan(a, b) /\ NewerThan(b, d) => NewerThan(a, d)
  BY NewerIsOrder DEF Ids
<1>10. CASE U = {}
  <2>1. T = {x} /\ x \in S
    BY <1>5, <1>10
  <2>2. Newest(T)
    BY <2>1, <1>9 DEF Newest
  <2> QED
    BY <2>2, <1>4
<1>11. CASE U # {}
  <2>1. PICK m \in U : \A other \in U : ~NewerThan(other, m)
    BY <1>8, <1>11 DEF Newest
  <2>2. x \in S /\ m \in S /\ T = U \cup {x} /\ U \subseteq S
    BY <1>5
  <2> HIDE DEF U
  <2>3. CASE NewerThan(x, m)
    <3>1. \A other \in T : ~NewerThan(other, x)
      BY <2>1, <2>2, <2>3, <1>9
    <3> QED
      BY <3>1, <1>4 DEF Newest
  <2>4. CASE ~NewerThan(x, m)
    <3>1. \A other \in T : ~NewerThan(other, m)
      BY <2>1, <2>2, <2>4
    <3> QED
      BY <3>1, <2>2, <1>4 DEF Newest
  <2> QED
    BY <2>3, <2>4
<1> QED
  BY <1>10, <1>11

\* A name is corrected to one of the ids it was compared with, and only if it is
\* none of them itself.
LEMMA CorrectedIsAnId ==
  ASSUME NEW name, NEW S, Ids(S), AutoCorrect(name, S) # Uncorrected
  PROVE  AutoCorrect(name, S) \in S /\ name \notin S
<1> DEFINE matches == {id \in S : PartOf(name, id)}
<1>1. /\ matches # {} /\ name \notin S
      /\ AutoCorrect(name, S) =
            CHOOSE id \in matches : \A other \in matches : ~NewerThan(other, id)
  BY DEF AutoCorrect
<1>2. Ids(matches) /\ matches \subseteq S
  BY FS_Subset DEF Ids
<1> HIDE DEF matches
<1>3. Newest(matches)
  BY <1>1, <1>2, NewestExists
<1> QED
  BY <1>1, <1>2, <1>3 DEF Newest

-----------------------------------------------------------------------------
(* What one list makes of a call.                                           *)

\* The candidates of a call: the name as it is, or without its suffix and then as
\* it is, if it has a suffix and is not an id.
Single(a) == <<Candidate(a.name, NoEffort)>>
Shortened(a) ==
    Candidate(SplitEffortSuffix(a.name).name, SplitEffortSuffix(a.name).effort)
Double(a) == <<Shortened(a), Candidate(a.name, SplitEffortSuffix(a.name).effort)>>
HasSuffix(a) == SplitEffortSuffix(a.name).effort # NoEffort
IsWhole(a, list) == ApplyAlias(a.name) \in DOMAIN list

Tried(a, list, cs) ==
    \/ cs = Single(a) /\ (IsWhole(a, list) \/ ~HasSuffix(a))
    \/ cs = Double(a) /\ ~IsWhole(a, list) /\ HasSuffix(a)

\* What the kth candidate is looked up as, and what that is corrected to.
Named(cs, k) == NormalizeModelName(cs[k].name)
Better(cs, k, list) == AutoCorrect(Named(cs, k), DOMAIN list)

\* Without a suffix the name is not shortened.
LEMMA NoSuffixIsSingle ==
  ASSUME NEW a, ~HasSuffix(a)
  PROVE  <<Shortened(a)>> = Single(a)
BY EffortsAreSome DEF HasSuffix, Shortened, Single, SplitEffortSuffix

\* There are one or two candidates.
LEMMA TriedIs ==
  ASSUME NEW a, NEW cs, cs \in {Single(a), Double(a)}
  PROVE  /\ Len(cs) \in 1 .. 2 /\ DOMAIN cs = 1 .. Len(cs)
         /\ cs = Single(a) => Len(cs) = 1 /\ cs[1] = Candidate(a.name, NoEffort)
         /\ cs = Double(a) => Len(cs) = 2 /\ cs[1] = Shortened(a)
                              /\ cs[2] = Candidate(a.name, SplitEffortSuffix(a.name).effort)
BY DEF Single, Double

\* AtOnce takes the first candidate that is in the list, or else the first that is
\* corrected, or else passes the first on.
Exactly(a, list, cs, k) ==
    /\ k \in DOMAIN cs /\ Named(cs, k) \in DOMAIN list
    /\ \A j \in 1 .. k - 1 : Named(cs, j) \notin DOMAIN list
    /\ AtOnce(a, list) = Found(a, list, Named(cs, k), cs[k])
Fuzzily(a, list, cs, k) ==
    /\ k \in DOMAIN cs /\ Better(cs, k, list) # Uncorrected
    /\ \A j \in DOMAIN cs : Named(cs, j) \notin DOMAIN list
    /\ \A j \in 1 .. k - 1 : Better(cs, j, list) = Uncorrected
    /\ AtOnce(a, list) = Found(a, list, Better(cs, k, list), cs[k])
Neither(a, list, cs) ==
    /\ \A j \in DOMAIN cs :
          Named(cs, j) \notin DOMAIN list /\ Better(cs, j, list) = Uncorrected
    /\ AtOnce(a, list) = PassThrough(Named(cs, 1))

\* Which of the three it is.
LEMMA AtOnceIs ==
  ASSUME NEW a, NEW list, NEW cs, Tried(a, list, cs)
  PROVE  \/ \E k \in DOMAIN cs : Exactly(a, list, cs, k)
         \/ \E k \in DOMAIN cs : Fuzzily(a, list, cs, k)
         \/ Neither(a, list, cs)
<1> DEFINE split == SplitEffortSuffix(a.name)
           whole == ApplyAlias(a.name) \in DOMAIN list \/ split.effort = NoEffort
           tried == IF whole THEN <<Candidate(a.name, NoEffort)>>
                    ELSE <<Candidate(split.name, split.effort), Candidate(a.name, split.effort)>>
           id == [n \in DOMAIN tried |-> NormalizeModelName(tried[n].name)]
           better == [n \in DOMAIN tried |-> AutoCorrect(id[n], DOMAIN list)]
           exact == {n \in DOMAIN tried : id[n] \in DOMAIN list}
           fuzzy == {n \in DOMAIN tried : better[n] # Uncorrected}
<1>1. tried = cs
  BY DEF Tried, Single, Double, Shortened, HasSuffix, IsWhole
<1>2. AtOnce(a, list) =
         IF exact # {} THEN Found(a, list, id[Min(exact)], tried[Min(exact)])
         ELSE IF fuzzy # {} THEN Found(a, list, better[Min(fuzzy)], tried[Min(fuzzy)])
         ELSE PassThrough(id[1])
  BY DEF AtOnce
<1> HIDE DEF tried
<1>3. cs \in {Single(a), Double(a)}
  BY DEF Tried
<1>4. Len(cs) \in 1 .. 2 /\ DOMAIN cs = 1 .. Len(cs)
  BY <1>3, TriedIs
<1>5. \A n \in DOMAIN cs : id[n] = Named(cs, n) /\ better[n] = Better(cs, n, list)
  BY <1>1 DEF Named, Better
<1> HIDE DEF id, better
<1>6. /\ exact = {n \in DOMAIN cs : Named(cs, n) \in DOMAIN list}
      /\ fuzzy = {n \in DOMAIN cs : Better(cs, n, list) # Uncorrected}
  BY <1>1, <1>5
<1>7. exact \subseteq Nat /\ fuzzy \subseteq Nat
  BY <1>4, <1>6
<1> HIDE DEF exact, fuzzy
<1>8. CASE exact # {}
  <2> DEFINE k == Min(exact)
  <2>1. k \in exact /\ \A m \in exact : k <= m
    BY <1>7, <1>8, LeastOf
  <2>2. AtOnce(a, list) = Found(a, list, id[k], tried[k])
    BY <1>2, <1>8
  <2> HIDE DEF k
  <2>3. k \in DOMAIN cs /\ Named(cs, k) \in DOMAIN list
    BY <2>1, <1>6
  <2>4. \A j \in 1 .. k - 1 : j \in DOMAIN cs /\ j < k
    BY <2>3, <1>4
  <2>5. \A j \in 1 .. k - 1 : Named(cs, j) \notin DOMAIN list
    <3>1. \A j \in 1 .. k - 1 : j \notin exact
      BY <2>1, <2>3, <1>4
    <3> QED
      BY <3>1, <2>4, <1>6
  <2> QED
    BY <2>2, <2>3, <2>5, <1>1, <1>5 DEF Exactly
<1>9. CASE exact = {} /\ fuzzy # {}
  <2> DEFINE k == Min(fuzzy)
  <2>1. k \in fuzzy /\ \A m \in fuzzy : k <= m
    BY <1>7, <1>9, LeastOf
  <2>2. AtOnce(a, list) = Found(a, list, better[k], tried[k])
    BY <1>2, <1>9
  <2> HIDE DEF k
  <2>3. k \in DOMAIN cs /\ Better(cs, k, list) # Uncorrected
    BY <2>1, <1>6
  <2>4. \A j \in 1 .. k - 1 : j \in DOMAIN cs /\ j < k
    BY <2>3, <1>4
  <2>5. \A j \in 1 .. k - 1 : Better(cs, j, list) = Uncorrected
    <3>1. \A j \in 1 .. k - 1 : j \notin fuzzy
      BY <2>1, <2>3, <1>4
    <3> QED
      BY <3>1, <2>4, <1>6
  <2>6. \A j \in DOMAIN cs : Named(cs, j) \notin DOMAIN list
    BY <1>6, <1>9
  <2> QED
    BY <2>2, <2>3, <2>5, <2>6, <1>1, <1>5 DEF Fuzzily
<1>10. CASE exact = {} /\ fuzzy = {}
  <2>1. AtOnce(a, list) = PassThrough(id[1])
    BY <1>2, <1>10
  <2>2. id[1] = Named(cs, 1)
    BY <1>4, <1>5
  <2> QED
    BY <2>1, <2>2, <1>6, <1>10 DEF Neither
<1> QED
  BY <1>8, <1>9, <1>10

\* A model that AtOnce knows is in the list.
LEMMA KnownIsListed ==
  ASSUME NEW a, NEW list \in Lists, NEW cs, Tried(a, list, cs), AtOnce(a, list).known
  PROVE  AtOnce(a, list).id \in DOMAIN list
<1>1. \A x, y : ~PassThrough(x).known /\ \A c \in {y} : Found(a, list, x, c).id = x
  BY DEF PassThrough, Found
<1>2. \A k : Fuzzily(a, list, cs, k) => Better(cs, k, list) \in DOMAIN list
  BY ListFacts, CorrectedIsAnId DEF Fuzzily, Better
<1>3. ~Neither(a, list, cs)
  BY <1>1 DEF Neither
<1>4. CASE \E k \in DOMAIN cs : Exactly(a, list, cs, k)
  BY <1>4, <1>1 DEF Exactly
<1>5. CASE \E k \in DOMAIN cs : Fuzzily(a, list, cs, k)
  BY <1>5, <1>1, <1>2 DEF Fuzzily
<1> QED
  BY <1>3, <1>4, <1>5, AtOnceIs

-----------------------------------------------------------------------------
(* The invariant: what a call has found out so far, from lists that were    *)
(* current while it ran.                                                    *)

Candidates(a, lists, cs) ==
    \/ cs = Single(a) /\ ~HasSuffix(a)
    \/ cs = Single(a) /\ HasSuffix(a) /\ \E list \in lists : IsWhole(a, list)
    \/ cs = Double(a) /\ HasSuffix(a) /\ \E list \in lists : ~IsWhole(a, list)

\* A list did not have the kth candidate; and the ids taken from one had nothing to
\* correct it to, or what they had was gone from another.
Missed(cs, k, lists) == \E list \in lists : Named(cs, k) \notin DOMAIN list
Unhelped(cs, k, lists, ids) ==
    \/ AutoCorrect(Named(cs, k), ids) = Uncorrected
    \/ \E list \in lists : AutoCorrect(Named(cs, k), ids) \notin DOMAIN list

\* Where the resolution of a call comes from.
FoundAt(a, lists, cs, res, k) ==
    /\ k \in DOMAIN cs
    /\ \A j \in 1 .. k - 1 : Missed(cs, j, lists)
    /\ \E list \in lists : /\ Named(cs, k) \in DOMAIN list
                           /\ res = Found(a, list, Named(cs, k), cs[k])
CorrectedAt(a, lists, cs, res, k, ids) ==
    /\ k \in DOMAIN cs /\ AutoCorrect(Named(cs, k), ids) # Uncorrected
    /\ \A j \in 1 .. k - 1 : Unhelped(cs, j, lists, ids)
    /\ \E list \in lists : /\ AutoCorrect(Named(cs, k), ids) \in DOMAIN list
                           /\ res = Found(a, list, AutoCorrect(Named(cs, k), ids), cs[k])
PassedOn(lists, cs, res, ids) ==
    /\ \A j \in DOMAIN cs : Unhelped(cs, j, lists, ids)
    /\ res = PassThrough(Named(cs, 1))
Answered(a, lists, cs, res) ==
    \/ \E k \in DOMAIN cs : FoundAt(a, lists, cs, res, k)
    \/ /\ \A j \in DOMAIN cs : Missed(cs, j, lists)
       /\ \E base \in lists :
             \/ \E k \in DOMAIN cs : CorrectedAt(a, lists, cs, res, k, DOMAIN base)
             \/ PassedOn(lists, cs, res, DOMAIN base)

Typed ==
    /\ current \in Lists /\ seen \subseteq Lists /\ ask \in Asks
    /\ swaps \in 0 .. MaxSwaps
    /\ pc \in {"idle", "full", "exact", "ids", "correct", "pass", "done"}
    /\ i \in 1 .. 2

\* The steps of the call, by where it is.
Progress ==
    /\ pc # "idle" => current \in seen
    /\ pc # "done" => result = NoResult
    /\ pc = "idle" => cands = <<>> /\ i = 1
    /\ pc = "full" => HasSuffix(ask) /\ cands = <<Shortened(ask)>> /\ i = 1
    /\ pc \in {"exact", "ids", "correct", "pass", "done"} => Candidates(ask, seen, cands)
    /\ pc = "exact" => i \in DOMAIN cands /\ \A j \in 1 .. i - 1 : Missed(cands, j, seen)
    /\ pc \in {"ids", "correct", "pass"} => \A j \in DOMAIN cands : Missed(cands, j, seen)
    /\ pc = "ids" => i = 1
    /\ pc = "correct" =>
          /\ i \in DOMAIN cands
          /\ \E base \in seen : available = DOMAIN base
          /\ \A j \in 1 .. i - 1 : Unhelped(cands, j, seen, available)
    /\ pc = "pass" =>
          \E base \in seen : \A j \in DOMAIN cands : Unhelped(cands, j, seen, DOMAIN base)
    /\ pc = "done" => Answered(ask, seen, cands, result)

IInv == Typed /\ Progress

\* The candidates are one or two, of the two kinds.
LEMMA CandidatesAre ==
  ASSUME NEW a, NEW lists, NEW cs, Candidates(a, lists, cs)
  PROVE  /\ cs \in {Single(a), Double(a)}
         /\ Len(cs) \in 1 .. 2 /\ DOMAIN cs = 1 .. Len(cs)
         /\ Len(cs) <= 2 /\ \A k \in DOMAIN cs : ~(k < Len(cs)) => k = Len(cs)
<1>1. cs \in {Single(a), Double(a)}
  BY DEF Candidates
<1> DEFINE length == Len(cs)
<1>2. length \in 1 .. 2 /\ DOMAIN cs = 1 .. length
  BY <1>1, TriedIs
<1> HIDE DEF length
<1>3. length <= 2 /\ \A k \in 1 .. length : ~(k < length) => k = length
  BY <1>2
<1> QED
  BY <1>1, <1>2, <1>3 DEF length

\* What was found out stays true of more lists.
LEMMA MoreLists ==
  ASSUME NEW a, NEW lists, NEW more, lists \subseteq more, NEW cs
  PROVE  /\ Candidates(a, lists, cs) => Candidates(a, more, cs)
         /\ \A j : Missed(cs, j, lists) => Missed(cs, j, more)
         /\ \A j, ids : Unhelped(cs, j, lists, ids) => Unhelped(cs, j, more, ids)
         /\ \A res : Answered(a, lists, cs, res) => Answered(a, more, cs, res)
<1>1. /\ Candidates(a, lists, cs) => Candidates(a, more, cs)
      /\ \A j : Missed(cs, j, lists) => Missed(cs, j, more)
      /\ \A j, ids : Unhelped(cs, j, lists, ids) => Unhelped(cs, j, more, ids)
  BY DEF Candidates, Missed, Unhelped
<1>2. ASSUME NEW res, Answered(a, lists, cs, res) PROVE Answered(a, more, cs, res)
  <2>1. CASE \E k \in DOMAIN cs : FoundAt(a, lists, cs, res, k)
    <3>1. PICK k \in DOMAIN cs : FoundAt(a, lists, cs, res, k)
      BY <2>1
    <3>2. FoundAt(a, more, cs, res, k)
      BY <3>1, <1>1 DEF FoundAt
    <3> QED
      BY <3>2 DEF Answered
  <2>2. CASE ~\E k \in DOMAIN cs : FoundAt(a, lists, cs, res, k)
    <3>1. /\ \A j \in DOMAIN cs : Missed(cs, j, more)
          /\ \E base \in lists :
                \/ \E k \in DOMAIN cs : CorrectedAt(a, lists, cs, res, k, DOMAIN base)
                \/ PassedOn(lists, cs, res, DOMAIN base)
      BY <2>2, <1>1, <1>2 DEF Answered
    <3>2. \A k, ids : CorrectedAt(a, lists, cs, res, k, ids) => CorrectedAt(a, more, cs, res, k, ids)
      BY <1>1 DEF CorrectedAt
    <3>3. \A ids : PassedOn(lists, cs, res, ids) => PassedOn(more, cs, res, ids)
      BY <1>1 DEF PassedOn
    <3> QED
      BY <3>1, <3>2, <3>3 DEF Answered
  <2> QED
    BY <2>1, <2>2
<1> QED
  BY <1>1, <1>2

\* Two elements, one put behind the other.
LEMMA AppendToOne ==
  ASSUME NEW x, NEW y
  PROVE  Append(<<x>>, y) = <<x, y>>
<1>1. <<x>> \in Seq({x, y}) /\ <<x, y>> \in Seq({x, y})
  OBVIOUS
<1>2. Append(<<x>>, y) \in Seq({x, y}) /\ Len(Append(<<x>>, y)) = 2
      /\ Append(<<x>>, y)[1] = x /\ Append(<<x>>, y)[2] = y
  BY <1>1
<1>3. ASSUME NEW k \in 1 .. 2 PROVE Append(<<x>>, y)[k] = <<x, y>>[k]
  <2>1. k = 1 \/ k = 2
    OBVIOUS
  <2> QED
    BY <2>1, <1>2
<1>4. Len(<<x, y>>) = 2
  OBVIOUS
<1> QED
  BY <1>1, <1>2, <1>3, <1>4, SeqEqual

\* A call begins with nothing found out.
LEMMA InitInv == Init => IInv
BY ResolveAssumption DEF Init, IInv, Typed, Progress, ResolveAssumption

\* A step of the call, or a refresh, keeps the invariant.
LEMMA NextInv == IInv /\ [Next]_vars => IInv'
<1> SUFFICES ASSUME IInv, [Next]_vars PROVE IInv'
  OBVIOUS
<1> USE DEF IInv, Typed
<1>1. CASE Call
  <2>1. /\ pc = "idle" /\ seen' = {current} /\ cands' = <<Shortened(ask)>>
        /\ pc' = IF HasSuffix(ask) THEN "full" ELSE "exact"
        /\ UNCHANGED <<current, swaps, ask, i, available, result>>
    BY <1>1 DEF Call, Shortened, HasSuffix
  <2>2. i = 1 /\ result = NoResult
    BY <2>1 DEF Progress
  <2>3. ~HasSuffix(ask) => cands' = Single(ask)
    BY <2>1, NoSuffixIsSingle
  <2>4. ~HasSuffix(ask) => Candidates(ask, seen, cands)' /\ 1 \in DOMAIN cands'
    BY <2>1, <2>3, TriedIs DEF Candidates
  <2> QED
    BY <2>1, <2>2, <2>4 DEF Progress
<1>2. CASE LookupFull
  <2>1. /\ pc = "full" /\ pc' = "exact" /\ cands = <<Shortened(ask)>> /\ HasSuffix(ask) /\ i = 1
        /\ cands' = IF IsWhole(ask, current) THEN Single(ask)
                    ELSE Append(cands, Candidate(ask.name, cands[1].effort))
        /\ current \in seen /\ result = NoResult
        /\ UNCHANGED <<current, swaps, seen, ask, i, available, result>>
    BY <1>2 DEF LookupFull, Progress, Single, IsWhole
  <2>2. Append(cands, Candidate(ask.name, cands[1].effort)) = Double(ask)
    <3>1. cands[1] = Shortened(ask) /\ Shortened(ask).effort = SplitEffortSuffix(ask.name).effort
      BY <2>1 DEF Shortened, Candidate
    <3> QED
      BY <2>1, <3>1, AppendToOne DEF Double
  <2>3. Candidates(ask, seen, cands)' /\ 1 \in DOMAIN cands'
    BY <2>1, <2>2, TriedIs DEF Candidates
  <2> QED
    BY <2>1, <2>3 DEF Progress
<1>3. CASE LookupExact
  <2> DEFINE id == Named(cands, i)
  <2>1. /\ pc = "exact" /\ i \in DOMAIN cands /\ current \in seen /\ result = NoResult
        /\ Candidates(ask, seen, cands) /\ \A j \in 1 .. i - 1 : Missed(cands, j, seen)
        /\ UNCHANGED <<current, swaps, seen, ask, cands, available>>
    BY <1>3 DEF LookupExact, Progress
  <2>2. Len(cands) \in 1 .. 2 /\ DOMAIN cands = 1 .. Len(cands)
    BY <2>1, CandidatesAre
  <2>3. CASE id \in DOMAIN current
    <3>1. pc' = "done" /\ i' = i /\ result' = Found(ask, current, id, cands[i])
      BY <1>3, <2>3 DEF LookupExact, Return, Named
    <3>2. FoundAt(ask, seen, cands, result', i)
      BY <2>1, <2>3, <3>1 DEF FoundAt
    <3>3. Answered(ask, seen, cands, result')
      BY <2>1, <3>2 DEF Answered
    <3> QED
      BY <2>1, <3>1, <3>3 DEF Progress
  <2>4. CASE id \notin DOMAIN current
    <3>1. /\ IF i < Len(cands) THEN i' = i + 1 /\ pc' = pc ELSE i' = 1 /\ pc' = "ids"
          /\ result' = result
      BY <1>3, <2>4 DEF LookupExact, NextCandidate, Named
    <3>2. Missed(cands, i, seen)
      BY <2>1, <2>4 DEF Missed
    <3>3. \A j \in 1 .. i : Missed(cands, j, seen)
      BY <2>1, <2>2, <3>2
    <3>4. CASE i < Len(cands)
      <4>1. i' = i + 1 /\ pc' = pc /\ i' \in DOMAIN cands /\ i' - 1 = i /\ i' \in 1 .. 2
        BY <3>1, <3>4, <2>2
      <4> QED
        BY <2>1, <3>1, <3>3, <4>1 DEF Progress
    <3>5. CASE ~(i < Len(cands))
      <4>1. i' = 1 /\ pc' = "ids" /\ i = Len(cands)
        BY <3>1, <3>5, <2>1, CandidatesAre
      <4>2. DOMAIN cands = 1 .. i
        BY <4>1, <2>2
      <4> QED
        BY <2>1, <3>1, <3>3, <4>1, <4>2 DEF Progress
    <3> QED
      BY <3>4, <3>5
  <2> QED
    BY <2>3, <2>4
<1>4. CASE TakeIDs
  <2>1. /\ pc = "ids" /\ pc' = "correct" /\ available' = DOMAIN current /\ current \in seen
        /\ i = 1 /\ Candidates(ask, seen, cands) /\ \A j \in DOMAIN cands : Missed(cands, j, seen)
        /\ result = NoResult
        /\ UNCHANGED <<current, swaps, seen, ask, cands, i, result>>
    BY <1>4 DEF TakeIDs, Progress
  <2>2. 1 \in DOMAIN cands
    BY <2>1, CandidatesAre
  <2> QED
    BY <2>1, <2>2 DEF Progress
<1>5. CASE LookupCorrected
  <2> DEFINE id == AutoCorrect(Named(cands, i), available)
  <2>1. /\ pc = "correct" /\ i \in DOMAIN cands /\ current \in seen /\ result = NoResult
        /\ Candidates(ask, seen, cands) /\ \A j \in DOMAIN cands : Missed(cands, j, seen)
        /\ \E base \in seen : available = DOMAIN base
        /\ \A j \in 1 .. i - 1 : Unhelped(cands, j, seen, available)
        /\ UNCHANGED <<current, swaps, seen, ask, cands, available>>
    BY <1>5 DEF LookupCorrected, Progress
  <2>2. Len(cands) \in 1 .. 2 /\ DOMAIN cands = 1 .. Len(cands)
    BY <2>1, CandidatesAre
  <2>3. CASE id # Uncorrected /\ id \in DOMAIN current
    <3>1. pc' = "done" /\ i' = i /\ result' = Found(ask, current, id, cands[i])
      BY <1>5, <2>3 DEF LookupCorrected, Return, Named
    <3>2. CorrectedAt(ask, seen, cands, result', i, available)
      BY <2>1, <2>3, <3>1 DEF CorrectedAt
    <3>3. Answered(ask, seen, cands, result')
      BY <2>1, <3>2 DEF Answered
    <3> QED
      BY <2>1, <3>1, <3>3 DEF Progress
  <2>4. CASE ~(id # Uncorrected /\ id \in DOMAIN current)
    <3>1. /\ IF i < Len(cands) THEN i' = i + 1 /\ pc' = pc ELSE i' = 1 /\ pc' = "pass"
          /\ result' = result
      BY <1>5, <2>4 DEF LookupCorrected, NextCandidate, Named
    <3>2. Unhelped(cands, i, seen, available)
      BY <2>1, <2>4 DEF Unhelped
    <3>3. \A j \in 1 .. i : Unhelped(cands, j, seen, available)
      BY <2>1, <2>2, <3>2
    <3>4. CASE i < Len(cands)
      <4>1. i' = i + 1 /\ pc' = pc /\ i' \in DOMAIN cands /\ i' - 1 = i /\ i' \in 1 .. 2
        BY <3>1, <3>4, <2>2
      <4> QED
        BY <2>1, <3>1, <3>3, <4>1 DEF Progress
    <3>5. CASE ~(i < Len(cands))
      <4>1. i' = 1 /\ pc' = "pass" /\ i = Len(cands)
        BY <3>1, <3>5, <2>1, CandidatesAre
      <4>2. DOMAIN cands = 1 .. i
        BY <4>1, <2>2
      <4> QED
        BY <2>1, <3>1, <3>3, <4>1, <4>2 DEF Progress
    <3> QED
      BY <3>4, <3>5
  <2> QED
    BY <2>3, <2>4
<1>6. CASE Pass
  <2>1. /\ pc = "pass" /\ pc' = "done" /\ i' = i /\ current \in seen
        /\ result' = PassThrough(Named(cands, 1))
        /\ Candidates(ask, seen, cands) /\ \A j \in DOMAIN cands : Missed(cands, j, seen)
        /\ \E base \in seen : \A j \in DOMAIN cands : Unhelped(cands, j, seen, DOMAIN base)
        /\ UNCHANGED <<current, swaps, seen, ask, cands, available>>
    BY <1>6 DEF Pass, Return, Progress, Named
  <2>2. Answered(ask, seen, cands, result')
    BY <2>1 DEF Answered, PassedOn
  <2> QED
    BY <2>1, <2>2 DEF Progress
<1>7. CASE Swap
  <2>1. /\ pc \notin {"idle", "done"} /\ swaps < MaxSwaps /\ swaps' = swaps + 1
        /\ current' \in Lists /\ seen' = seen \cup {current'}
        /\ pc' = pc /\ i' = i /\ ask' = ask /\ cands' = cands /\ available' = available
        /\ result' = result
    BY <1>7 DEF Swap, callVars
  <2>2. swaps' \in 0 .. MaxSwaps /\ seen \subseteq seen' /\ current' \in seen' /\ seen' \subseteq Lists
    BY <2>1, ResolveAssumption DEF ResolveAssumption
  <2>3. /\ Candidates(ask, seen, cands) => Candidates(ask, seen', cands)
        /\ \A j : Missed(cands, j, seen) => Missed(cands, j, seen')
        /\ \A j, ids : Unhelped(cands, j, seen, ids) => Unhelped(cands, j, seen', ids)
    BY <2>2, MoreLists
  <2>4. Progress'
    BY <2>1, <2>2, <2>3 DEF Progress
  <2> QED
    BY <2>1, <2>2, <2>4
<1>8. CASE UNCHANGED vars
  BY <1>8 DEF vars, callVars, Progress
<1> QED
  BY <1>1, <1>2, <1>3, <1>4, <1>5, <1>6, <1>7, <1>8 DEF Next

\* So it holds throughout.
LEMMA Invariance == Spec => []IInv
<1> QED
  BY InitInv, NextInv, PTL DEF Spec

-----------------------------------------------------------------------------
(* Types and efforts.                                                       *)

\* A resolution with an effort is a model of a current list that offers it.
Offered(lists, res) ==
    res.effort # NoEffort =>
        \E list \in lists : res.id \in DOMAIN list /\ Allows(list[res.id], res.effort)

\* What was found is offered; a name that was passed on has no effort.
LEMMA AnswerIsOffered ==
  ASSUME NEW a, NEW lists \in SUBSET Lists, NEW cs, NEW res, Answered(a, lists, cs, res)
  PROVE  Offered(lists, res)
<1>1. ASSUME NEW list \in lists, NEW id \in DOMAIN list, NEW cand, res = Found(a, list, id, cand)
      PROVE  Offered(lists, res)
  <2>1. res.id = id /\ res.effort = ResolveEffort(id, list[id], Wanted(a, cand.effort))
    BY <1>1 DEF Found
  <2>2. IsModel(list[id])
    BY ListFacts
  <2>3. res.effort # NoEffort => Allows(list[id], res.effort)
    BY <2>1, <2>2, EffortIsOffered
  <2> QED
    BY <2>1, <2>3 DEF Offered
<1>2. CASE \E k \in DOMAIN cs : FoundAt(a, lists, cs, res, k)
  BY <1>1, <1>2 DEF FoundAt
<1>3. CASE \E k, ids : CorrectedAt(a, lists, cs, res, k, ids)
  BY <1>1, <1>3 DEF CorrectedAt
<1>4. CASE \E ids : PassedOn(lists, cs, res, ids)
  BY <1>4 DEF PassedOn, PassThrough, Offered
<1> QED
  BY <1>2, <1>3, <1>4 DEF Answered

\* The invariant gives the types.
LEMMA InvTypes == IInv => TypeOK
<1> SUFFICES ASSUME IInv PROVE TypeOK
  OBVIOUS
<1>1. Len(cands) <= 2
  <2>1. CASE pc = "idle"
    BY <2>1 DEF IInv, Progress
  <2>2. CASE pc = "full"
    BY <2>2 DEF IInv, Progress
  <2>3. CASE pc \notin {"idle", "full"}
    <3>1. Candidates(ask, seen, cands)
      BY <2>3 DEF IInv, Typed, Progress
    <3> QED
      BY <3>1, CandidatesAre
  <2> QED
    BY <2>1, <2>2, <2>3
<1>2. Offered(seen, result)
  <2>1. CASE pc = "done"
    BY <2>1, AnswerIsOffered DEF IInv, Typed, Progress
  <2>2. CASE pc # "done"
    BY <2>2 DEF IInv, Progress, NoResult, PassThrough, Offered
  <2> QED
    BY <2>1, <2>2
<1> QED
  BY <1>1, <1>2 DEF IInv, Typed, TypeOK, Offered

-----------------------------------------------------------------------------
(* What several lists agree on.                                             *)

Agree(a, lists) == \A one, other \in lists : AtOnce(a, one) = AtOnce(a, other)

\* An id that is whole in one of the lists, and so in all of them.
LEMMA AllWhole ==
  ASSUME IdsAreNormal, NEW a, NEW lists \in SUBSET Lists, Agree(a, lists),
         HasSuffix(a), NEW list \in lists, IsWhole(a, list), NEW other \in lists
  PROVE  IsWhole(a, other)
<1> DEFINE name == ApplyAlias(a.name)
<1>1. Tried(a, list, Single(a))
  BY DEF Tried
<1>2. Named(Single(a), 1) = name
  BY DEF Named, Single, Candidate, IdsAreNormal, IsWhole
<1>3. AtOnce(a, list).known /\ AtOnce(a, list).id = name
  <2>1. DOMAIN Single(a) = 1 .. 1
    BY DEF Single
  <2>2. Exactly(a, list, Single(a), 1)
    <3>1. ~\E k \in DOMAIN Single(a) : Fuzzily(a, list, Single(a), k)
      BY <1>2, <2>1 DEF Fuzzily, IsWhole
    <3>2. ~Neither(a, list, Single(a))
      BY <1>2, <2>1 DEF Neither, IsWhole
    <3>3. PICK k \in DOMAIN Single(a) : Exactly(a, list, Single(a), k)
      BY <3>1, <3>2, <1>1, AtOnceIs
    <3>4. k = 1
      BY <2>1
    <3> QED
      BY <3>3, <3>4
  <2> QED
    BY <2>2, <1>2 DEF Exactly, Found
<1>4. \E cs : Tried(a, other, cs)
  BY DEF Tried
<1>5. AtOnce(a, other) = AtOnce(a, list)
  BY DEF Agree
<1>6. name \in DOMAIN other
  BY <1>3, <1>4, <1>5, KnownIsListed
<1> QED
  BY <1>6 DEF IsWhole

\* So the candidates of the call are those of every list.
LEMMA CandidatesAgree ==
  ASSUME IdsAreNormal, NEW a, NEW lists \in SUBSET Lists, Agree(a, lists),
         NEW cs, Candidates(a, lists, cs), NEW list \in lists
  PROVE  Tried(a, list, cs)
<1>1. CASE ~HasSuffix(a)
  BY <1>1 DEF Candidates, Tried
<1>2. CASE HasSuffix(a) /\ cs = Single(a) /\ \E other \in lists : IsWhole(a, other)
  BY <1>2, AllWhole DEF Tried
<1>3. CASE HasSuffix(a) /\ cs = Double(a) /\ \E other \in lists : ~IsWhole(a, other)
  BY <1>3, AllWhole DEF Tried
<1> QED
  BY <1>1, <1>2, <1>3 DEF Candidates

\* Found depends on a candidate's effort only, which is the same for both.
LEMMA EitherCandidate ==
  ASSUME NEW a, NEW cs \in {Single(a), Double(a)}, NEW j \in DOMAIN cs, NEW k \in DOMAIN cs,
         NEW list, NEW id
  PROVE  Found(a, list, id, cs[j]) = Found(a, list, id, cs[k])
<1>1. cs[j].effort = cs[k].effort
  <2>1. j \in 1 .. Len(cs) /\ k \in 1 .. Len(cs) /\ Len(cs) \in 1 .. 2
    BY TriedIs
  <2>2. CASE cs = Single(a)
    BY <2>1, <2>2, TriedIs
  <2>3. CASE cs = Double(a)
    <3>1. cs[1].effort = cs[2].effort /\ Len(cs) = 2
      <4>1. Len(cs) = 2 /\ cs[1] = Shortened(a)
            /\ cs[2] = Candidate(a.name, SplitEffortSuffix(a.name).effort)
        BY <2>3, TriedIs
      <4> QED
        BY <4>1 DEF Shortened, Candidate
    <3>2. j \in {1, 2} /\ k \in {1, 2}
      BY <2>1, <3>1
    <3> QED
      BY <3>1, <3>2
  <2> QED
    BY <2>2, <2>3
<1> QED
  BY <1>1 DEF Found

\* A list that knows what all agree on knows it by the name of the candidate that
\* is in it first, and the others have it too.
LEMMA AgreedIsListed ==
  ASSUME NEW a, NEW lists \in SUBSET Lists, Agree(a, lists), NEW cs,
         \A list \in lists : Tried(a, list, cs), NEW one \in lists, AtOnce(a, one).known
  PROVE  \A list \in lists : AtOnce(a, one).id \in DOMAIN list
<1>1. ASSUME NEW list \in lists PROVE AtOnce(a, one).id \in DOMAIN list
  <2>1. AtOnce(a, list) = AtOnce(a, one)
    BY DEF Agree
  <2> QED
    BY <2>1, KnownIsListed
<1> QED
  BY <1>1

\* What was found in one list is what that list makes of the call.
LEMMA FoundAgrees ==
  ASSUME NEW a, NEW lists \in SUBSET Lists, Agree(a, lists), NEW cs,
         \A list \in lists : Tried(a, list, cs),
         NEW res, NEW k, FoundAt(a, lists, cs, res, k)
  PROVE  \E list \in lists : res = AtOnce(a, list)
<1>1. PICK list \in lists : /\ Named(cs, k) \in DOMAIN list
                            /\ res = Found(a, list, Named(cs, k), cs[k])
  BY DEF FoundAt
<1>2. k \in DOMAIN cs /\ DOMAIN cs = 1 .. Len(cs) /\ Len(cs) \in 1 .. 2
  BY TriedIs DEF FoundAt, Tried
<1>3. PICK j \in DOMAIN cs : Exactly(a, list, cs, j)
  <2>1. ~Neither(a, list, cs) /\ ~\E j \in DOMAIN cs : Fuzzily(a, list, cs, j)
    BY <1>1, <1>2 DEF Neither, Fuzzily
  <2> QED
    BY <2>1, AtOnceIs
<1>4. j = k
  <2>1. ~(k < j)
    <3>1. SUFFICES ASSUME k < j PROVE FALSE
      OBVIOUS
    <3>2. k \in 1 .. j - 1
      BY <3>1, <1>2, <1>3
    <3> QED
      BY <3>2, <1>1, <1>3 DEF Exactly
  <2>2. ~(j < k)
    <3>1. SUFFICES ASSUME j < k PROVE FALSE
      OBVIOUS
    <3>2. j \in 1 .. k - 1
      BY <3>1, <1>2, <1>3
    <3>3. PICK other \in lists : Named(cs, j) \notin DOMAIN other
      BY <3>2 DEF FoundAt, Missed
    <3>4. AtOnce(a, list).known /\ AtOnce(a, list).id = Named(cs, j)
      BY <1>3 DEF Exactly, Found
    <3> QED
      BY <3>3, <3>4, AgreedIsListed
  <2> QED
    BY <2>1, <2>2, <1>2, <1>3
<1> QED
  BY <1>1, <1>3, <1>4 DEF Exactly

\* If every candidate was missed somewhere, no list has any.
LEMMA MissedByAll ==
  ASSUME NEW a, NEW lists \in SUBSET Lists, Agree(a, lists), NEW cs,
         \A list \in lists : Tried(a, list, cs),
         \A j \in DOMAIN cs : Missed(cs, j, lists), NEW list \in lists
  PROVE  ~\E k \in DOMAIN cs : Exactly(a, list, cs, k)
<1>1. SUFFICES ASSUME NEW k \in DOMAIN cs, Exactly(a, list, cs, k) PROVE FALSE
  OBVIOUS
<1>2. AtOnce(a, list).known /\ AtOnce(a, list).id = Named(cs, k)
  BY <1>1 DEF Exactly, Found
<1>3. PICK other \in lists : Named(cs, k) \notin DOMAIN other
  BY DEF Missed
<1> QED
  BY <1>2, <1>3, AgreedIsListed

\* What the ids of one list were corrected to is what the lists agree on, also if it
\* is taken from another list.
LEMMA CorrectedAgrees ==
  ASSUME NEW a, NEW lists \in SUBSET Lists, Agree(a, lists), NEW cs,
         \A list \in lists : Tried(a, list, cs),
         \A j \in DOMAIN cs : Missed(cs, j, lists), NEW base \in lists,
         NEW res, NEW k, CorrectedAt(a, lists, cs, res, k, DOMAIN base)
  PROVE  \E list \in lists : res = AtOnce(a, list)
<1> DEFINE id == AutoCorrect(Named(cs, k), DOMAIN base)
<1>1. PICK list \in lists : id \in DOMAIN list /\ res = Found(a, list, id, cs[k])
  BY DEF CorrectedAt
<1>2. k \in DOMAIN cs /\ DOMAIN cs = 1 .. Len(cs) /\ Len(cs) \in 1 .. 2 /\ id # Uncorrected
  BY TriedIs DEF CorrectedAt, Tried
<1>3. \A l \in lists : \/ \E j \in DOMAIN cs : Fuzzily(a, l, cs, j)
                       \/ Neither(a, l, cs)
  BY MissedByAll, AtOnceIs
<1>4. PICK j \in DOMAIN cs : Fuzzily(a, base, cs, j)
  BY <1>2, <1>3 DEF Neither, Better
<1>5. j = k
  <2>1. ~(k < j)
    <3>1. SUFFICES ASSUME k < j PROVE FALSE
      OBVIOUS
    <3>2. k \in 1 .. j - 1
      BY <3>1, <1>2, <1>4
    <3> QED
      BY <3>2, <1>2, <1>4 DEF Fuzzily, Better
  <2>2. ~(j < k)
    <3>1. SUFFICES ASSUME j < k PROVE FALSE
      OBVIOUS
    <3>2. j \in 1 .. k - 1
      BY <3>1, <1>2, <1>4
    <3>3. Unhelped(cs, j, lists, DOMAIN base)
      BY <3>2 DEF CorrectedAt
    <3>4. PICK other \in lists : Better(cs, j, base) \notin DOMAIN other
      BY <3>3, <1>4 DEF Unhelped, Fuzzily, Better
    <3>5. AtOnce(a, base).known /\ AtOnce(a, base).id = Better(cs, j, base)
      BY <1>4 DEF Fuzzily, Found
    <3> QED
      BY <3>4, <3>5, AgreedIsListed
  <2> QED
    BY <2>1, <2>2, <1>2, <1>4
<1>6. AtOnce(a, base).known /\ AtOnce(a, base).id = id
  BY <1>4, <1>5 DEF Fuzzily, Found, Better
<1>7. AtOnce(a, list) = AtOnce(a, base)
  BY DEF Agree
<1>8. PICK l \in DOMAIN cs : Fuzzily(a, list, cs, l)
  BY <1>3, <1>6, <1>7 DEF Neither, PassThrough
<1>9. Better(cs, l, list) = id
  BY <1>6, <1>7, <1>8 DEF Fuzzily, Found
<1>10. AtOnce(a, list) = Found(a, list, id, cs[l])
  BY <1>8, <1>9 DEF Fuzzily
<1>11. cs \in {Single(a), Double(a)}
  BY DEF Tried
<1> HIDE DEF id
<1>12. Found(a, list, id, cs[l]) = Found(a, list, id, cs[k])
  BY <1>2, <1>8, <1>11, EitherCandidate
<1> QED
  BY <1>1, <1>10, <1>12

\* A name is passed on only if the lists agree that it must be.
LEMMA PassedAgrees ==
  ASSUME NEW a, NEW lists \in SUBSET Lists, Agree(a, lists), NEW cs,
         \A list \in lists : Tried(a, list, cs),
         \A j \in DOMAIN cs : Missed(cs, j, lists), NEW base \in lists,
         NEW res, PassedOn(lists, cs, res, DOMAIN base)
  PROVE  \E list \in lists : res = AtOnce(a, list)
<1>1. ~\E j \in DOMAIN cs : Fuzzily(a, base, cs, j)
  <2>1. SUFFICES ASSUME NEW j \in DOMAIN cs, Fuzzily(a, base, cs, j) PROVE FALSE
    OBVIOUS
  <2>2. AtOnce(a, base).known /\ AtOnce(a, base).id = Better(cs, j, base)
    BY <2>1 DEF Fuzzily, Found
  <2>3. PICK other \in lists : Better(cs, j, base) \notin DOMAIN other
    BY <2>1 DEF PassedOn, Unhelped, Fuzzily, Better
  <2> QED
    BY <2>2, <2>3, AgreedIsListed
<1>2. Neither(a, base, cs)
  BY <1>1, MissedByAll, AtOnceIs
<1> QED
  BY <1>2 DEF Neither, PassedOn

\* The resolution is what the lists agree on.
LEMMA InvAgrees == IdsAreNormal /\ IInv => AgreesWithLists
<1> SUFFICES ASSUME IdsAreNormal, IInv, pc = "done", Agree(ask, seen), NEW list \in seen
             PROVE  result = AtOnce(ask, list)
  BY DEF AgreesWithLists, Agree
<1>1. seen \in SUBSET Lists /\ Candidates(ask, seen, cands) /\ Answered(ask, seen, cands, result)
  BY DEF IInv, Typed, Progress
<1>2. \A l \in seen : Tried(ask, l, cands)
  BY <1>1, CandidatesAgree
<1>3. \E l \in seen : result = AtOnce(ask, l)
  <2>1. CASE \E k \in DOMAIN cands : FoundAt(ask, seen, cands, result, k)
    BY <1>1, <1>2, <2>1, FoundAgrees
  <2>2. CASE ~\E k \in DOMAIN cands : FoundAt(ask, seen, cands, result, k)
    <3>1. \A j \in DOMAIN cands : Missed(cands, j, seen)
      BY <1>1, <2>2 DEF Answered
    <3>2. PICK base \in seen :
             \/ \E k \in DOMAIN cands : CorrectedAt(ask, seen, cands, result, k, DOMAIN base)
             \/ PassedOn(seen, cands, result, DOMAIN base)
      BY <1>1, <2>2 DEF Answered
    <3>3. CASE \E k \in DOMAIN cands : CorrectedAt(ask, seen, cands, result, k, DOMAIN base)
      BY <1>1, <1>2, <3>1, <3>3, CorrectedAgrees
    <3>4. CASE PassedOn(seen, cands, result, DOMAIN base)
      BY <1>1, <1>2, <3>1, <3>4, PassedAgrees
    <3> QED
      BY <3>2, <3>3, <3>4
  <2> QED
    BY <2>1, <2>2
<1> QED
  BY <1>3 DEF Agree

-----------------------------------------------------------------------------
(* What is advertised.                                                      *)

\* An entry of the listing is a model under its name, or one of its variants.
Plain(list, entry) ==
    /\ entry.id \in DOMAIN list /\ entry.effort = NoEffort
    /\ entry.name = IF entry.id = Aliases[2] THEN Aliases[1] ELSE entry.id
Variant(list, entry) ==
    /\ entry.id \in DOMAIN list /\ entry.id # AutoModelID
    /\ entry.effort \in ValidEfforts /\ Allows(list[entry.id], entry.effort)
    /\ entry.name = entry.id \o <<":", entry.effort>>

\* The one alias stands for auto.
LEMMA AliasIs ==
    /\ Aliases[2] = AutoModelID
    /\ Len(Aliases[1]) = 3 /\ Aliases[1][2] = "-"
BY DEF Aliases, AutoModelID

\* There are no other entries.
LEMMA AdvertisedIs ==
  ASSUME NEW list, NEW entry \in Advertised(list, TRUE)
  PROVE  Plain(list, entry) \/ Variant(list, entry)
<1> DEFINE name(id) == IF id = Aliases[2] THEN Aliases[1] ELSE id
           plain(id) == [name |-> name(id), id |-> id, effort |-> NoEffort]
           levels(id) == IF TRUE /\ id # AutoModelID THEN Range(list[id].levels) \cap ValidEfforts ELSE {}
           variant(id, level) == [name |-> name(id) \o <<":", level>>, id |-> id, effort |-> level]
<1>1. PICK id \in DOMAIN list :
         entry \in {plain(id)} \cup {variant(id, level) : level \in levels(id)}
  BY DEF Advertised
<1>2. CASE entry = plain(id)
  BY <1>2 DEF Plain
<1>3. CASE \E level \in levels(id) : entry = variant(id, level)
  <2>1. PICK level \in levels(id) : entry = variant(id, level)
    BY <1>3
  <2>2. id # AutoModelID /\ level \in ValidEfforts /\ Allows(list[id], level)
    BY <2>1 DEF Allows
  <2>3. entry.id = id /\ entry.effort = level /\ entry.name = id \o <<":", level>>
    BY <2>1, <2>2, AliasIs
  <2> HIDE DEF variant
  <2> QED
    BY <2>2, <2>3 DEF Variant
<1> QED
  BY <1>1, <1>2, <1>3

\* A sequence and two elements more.
LEMMA TwoMore ==
  ASSUME NEW S, NEW s \in Seq(S), NEW x \in S, NEW y \in S
  PROVE  LET all == s \o <<x, y>> IN
         /\ Len(all) = Len(s) + 2
         /\ all[Len(s) + 1] = x /\ all[Len(s) + 2] = y
         /\ SubSeq(all, 1, Len(s)) = s
<1> DEFINE n == Len(s)
           end == <<x, y>>
           all == s \o end
<1>1. n \in Nat
  OBVIOUS
<1>2. end \in Seq(S) /\ Len(end) = 2 /\ end[1] = x /\ end[2] = y
  OBVIOUS
<1> HIDE DEF end
<1>3. /\ all \in Seq(S) /\ Len(all) = n + 2
      /\ \A k \in 1 .. n + 2 : all[k] = IF k <= n THEN s[k] ELSE end[k - n]
  <2>1. /\ all \in Seq(S) /\ Len(all) = Len(s) + Len(end)
        /\ \A k \in 1 .. Len(s) + Len(end) : all[k] = IF k <= Len(s) THEN s[k] ELSE end[k - Len(s)]
    <3>1. end \in Seq(S)
      BY <1>2
    <3> QED
      BY <3>1, ConcatProperties, Zenon
  <2> QED
    BY <1>2, <2>1
<1> HIDE DEF all
<1>4. all[n + 1] = x /\ all[n + 2] = y
  <2>1. n + 1 \in 1 .. n + 2 /\ n + 2 \in 1 .. n + 2 /\ (n + 1) - n = 1 /\ (n + 2) - n = 2
        /\ ~(n + 1 <= n) /\ ~(n + 2 <= n)
    BY <1>1
  <2> QED
    BY <1>2, <1>3, <2>1
<1>5. \A k \in 1 .. n : all[k] = s[k] /\ all[k] \in S
  <2>1. \A k \in 1 .. n : k \in 1 .. n + 2 /\ k <= n /\ s[k] \in S
    BY <1>1
  <2> QED
    BY <1>3, <2>1
<1>6. SubSeq(all, 1, n) = s
  <2> DEFINE part == SubSeq(all, 1, n)
  <2>1. /\ part \in Seq(S)
        /\ Len(part) = IF 1 <= n THEN n - 1 + 1 ELSE 0
        /\ \A k \in 1 .. n - 1 + 1 : part[k] = all[1 + k - 1]
    BY <1>1, <1>5, SubSeqProperties
  <2> HIDE DEF part
  <2>2. Len(part) = n /\ n - 1 + 1 = n /\ \A k \in 1 .. n : 1 + k - 1 = k
    BY <1>1, <2>1
  <2>3. part \in Seq(S) /\ \A k \in 1 .. Len(part) : part[k] = s[k]
    BY <1>5, <2>1, <2>2
  <2> QED
    BY <2>2, <2>3, SeqEqual DEF part
<1> QED
  BY <1>3, <1>4, <1>6 DEF all, end

\* A name that is made of an id and an effort, and one that is read as that.
MadeOf(name, id, level) ==
    IsId(id) /\ level \in ValidEfforts /\ name = id \o <<":", level>>
ReadAs(name, id, level) ==
    /\ SplitEffortSuffix(name) = [name |-> id, effort |-> level]
    /\ Len(name) > 2 /\ name[Len(name) - 1] = ":" /\ name[Len(name)] = level

\* The name of a variant splits into the id and the effort it was made of.
LEMMA VariantSplits ==
  ASSUME NEW id, NEW level, NEW name, MadeOf(name, id, level)
  PROVE  ReadAs(name, id, level)
<1> DEFINE n == Len(id)
           Atom == STRING \cup {":", level}
<1>1. id \in Seq(STRING) /\ n \in Nat \ {0}
  BY DEF IsId, MadeOf
<1>2. id \in Seq(Atom) /\ ":" \in Atom /\ level \in Atom
  BY <1>1
<1> HIDE DEF Atom
<1>3. Len(name) = n + 2 /\ name[n + 1] = ":" /\ name[n + 2] = level /\ SubSeq(name, 1, n) = id
  BY <1>2, TwoMore DEF MadeOf
<1>4. Len(name) - 1 = n + 1 /\ Len(name) - 2 = n /\ Len(name) > 2
  BY <1>1, <1>3
<1> QED
  BY <1>3, <1>4 DEF SplitEffortSuffix, ReadAs, MadeOf

\* A model that every list advertises under the name asked for is found under it.
LEMMA PlainIsServed ==
  ASSUME IdsAreOrdinary, NEW a, NEW lists \in SUBSET Lists, lists # {}, NEW entry,
         entry.name = a.name, \A list \in lists : Plain(list, entry),
         NEW cs, Candidates(a, lists, cs), NEW res, Answered(a, lists, cs, res)
  PROVE  res.known /\ res.id = entry.id
<1>1. PICK one \in lists : TRUE
  OBVIOUS
<1>2. ApplyAlias(a.name) = entry.id
  BY <1>1, AliasIs DEF ApplyAlias, Plain, IdsAreOrdinary, IdsAreNormal
<1>3. \A list \in lists : entry.id \in DOMAIN list
  BY DEF Plain
<1>4. cs = Single(a)
  BY <1>2, <1>3 DEF Candidates, IsWhole
<1>5. Named(cs, 1) = entry.id /\ DOMAIN cs = 1 .. 1
  BY <1>1, <1>2, <1>3, <1>4 DEF Named, Single, Candidate, IdsAreOrdinary, IdsAreNormal
<1>6. ~Missed(cs, 1, lists) /\ 1 \in DOMAIN cs
  BY <1>3, <1>5 DEF Missed
<1>7. PICK k \in DOMAIN cs : FoundAt(a, lists, cs, res, k)
  BY <1>6 DEF Answered
<1>8. k = 1
  BY <1>5
<1> QED
  BY <1>5, <1>7, <1>8 DEF FoundAt, Found

\* A variant that every list advertises is the model it is a variant of, with its effort.
LEMMA VariantIsServed ==
  ASSUME IdsAreOrdinary, NEW a \in Asks, NEW lists \in SUBSET Lists, lists # {}, NEW entry,
         entry.name = a.name, \A list \in lists : Variant(list, entry),
         NEW cs, Candidates(a, lists, cs), NEW res, Answered(a, lists, cs, res)
  PROVE  res.known /\ res.id = entry.id /\ res.effort = entry.effort
<1>1. PICK one \in lists : TRUE
  OBVIOUS
<1> DEFINE id == entry.id
           level == entry.effort
<1>2. /\ level \in ValidEfforts /\ id # AutoModelID /\ a.name = id \o <<":", level>>
      /\ \A list \in lists : id \in DOMAIN list /\ Allows(list[id], level)
  BY <1>1 DEF Variant
<1>3. IsId(id) /\ id # Aliases[1] /\ NormalizeModelName(id) = id
  BY <1>1, <1>2, ListFacts DEF IdsAreOrdinary, IdsAreNormal, Ids
<1> HIDE DEF id, level
<1>4. /\ SplitEffortSuffix(a.name) = [name |-> id, effort |-> level]
      /\ Len(a.name) > 2 /\ a.name[Len(a.name) - 1] = ":" /\ a.name[Len(a.name)] = level
  <2>1. MadeOf(a.name, id, level)
    BY <1>2, <1>3 DEF MadeOf
  <2>2. ReadAs(a.name, id, level)
    BY <2>1, VariantSplits
  <2> QED
    BY <2>2 DEF ReadAs
<1>5. HasSuffix(a)
  BY <1>2, <1>4, EffortsAreSome DEF HasSuffix
<1>6. a.name # Aliases[1]
  <2>1. a.name = Aliases[1] => Len(a.name) - 1 = 2 /\ a.name[2] = "-"
    BY AliasIs
  <2> QED
    BY <2>1, <1>4
<1>7. \A list \in lists : ~IsWhole(a, list)
  BY <1>2, <1>4, <1>6 DEF IsWhole, ApplyAlias, IdsAreOrdinary, IdsAreNormal
<1>8. cs = Double(a)
  BY <1>5, <1>7 DEF Candidates
<1>9. DOMAIN cs = 1 .. 2 /\ cs[1] = [name |-> id, effort |-> level]
  <2>1. DOMAIN cs = 1 .. 2 /\ cs[1] = Shortened(a)
    BY <1>8, TriedIs
  <2> QED
    BY <2>1, <1>3, <1>4 DEF Shortened, Candidate, ApplyAlias
<1>10. Named(cs, 1) = id /\ 1 \in DOMAIN cs
  BY <1>3, <1>9 DEF Named
<1>11. ~Missed(cs, 1, lists)
  BY <1>2, <1>10 DEF Missed
<1>12. PICK k \in DOMAIN cs : FoundAt(a, lists, cs, res, k)
  BY <1>10, <1>11 DEF Answered
<1>13. k = 1
  <2>1. SUFFICES ASSUME k = 2 PROVE FALSE
    BY <1>9
  <2>2. 1 \in 1 .. k - 1
    BY <2>1
  <2> QED
    BY <2>2, <1>11, <1>12 DEF FoundAt
<1>14. PICK list \in lists : res = Found(a, list, id, cs[1])
  BY <1>10, <1>12, <1>13 DEF FoundAt
<1>15. PICK S : Wanted(a, level) \in Seq(S)
  <2>1. CASE a.disable
    <3>1. Wanted(a, level) = <<level, "none", NoEffort>>
      BY <2>1 DEF Wanted
    <3>2. Wanted(a, level) \in Seq({level, "none", NoEffort})
      BY <3>1
    <3> QED
      BY <3>2
  <2>2. CASE ~a.disable
    <3>1. Wanted(a, level) = <<level, a.effort, a.operator>>
      BY <2>2 DEF Wanted
    <3>2. Wanted(a, level) \in Seq({level, a.effort, a.operator})
      BY <3>1
    <3> QED
      BY <3>2
  <2> QED
    BY <2>1, <2>2
<1>16. Wanted(a, level) # <<>> /\ Wanted(a, level)[1] = level
  BY DEF Wanted
<1>17. ResolveEffort(id, list[id], Wanted(a, level)) = level
  <2>1. IsModel(list[id]) /\ Allows(list[id], level)
    BY <1>2, ListFacts DEF IsModel
  <2> QED
    BY <2>1, <1>2, <1>15, <1>16, EffortIsWanted
<1> QED
  BY <1>9, <1>14, <1>17 DEF Found, id, level

\* What all lists of a call advertise under the name asked for is what it gets.
LEMMA InvServed == IdsAreOrdinary /\ IInv => AdvertisedIsServed
<1> SUFFICES ASSUME IdsAreOrdinary, IInv, pc = "done", NEW entry, entry.name = ask.name,
                    \A list \in seen : entry \in Advertised(list, TRUE)
             PROVE  /\ result.known /\ result.id = entry.id
                    /\ entry.effort # NoEffort => result.effort = entry.effort
  BY DEF AdvertisedIsServed
<1>1. /\ seen \in SUBSET Lists /\ ask \in Asks /\ current \in seen
      /\ Candidates(ask, seen, cands) /\ Answered(ask, seen, cands, result)
  BY DEF IInv, Typed, Progress
<1>2. \A list \in seen : Plain(list, entry) \/ Variant(list, entry)
  BY AdvertisedIs
<1>3. CASE entry.effort = NoEffort
  <2>1. \A list \in seen : Plain(list, entry)
    BY <1>2, <1>3, EffortsAreSome DEF Variant
  <2> QED
    BY <1>1, <1>3, <2>1, PlainIsServed
<1>4. CASE entry.effort # NoEffort
  <2>1. \A list \in seen : Variant(list, entry)
    BY <1>2, <1>4 DEF Plain
  <2> QED
    BY <1>1, <1>4, <2>1, VariantIsServed
<1> QED
  BY <1>3, <1>4

-----------------------------------------------------------------------------
(* The theorems.                                                            *)

\* The state keeps its types, and an effort is only sent to a model that advertised
\* it in a list that was current during the call (resolve.go:313-345, effort.go:169-212).
THEOREM TypeCorrect == Spec => []TypeOK
<1> QED
  BY InvTypes, Invariance, PTL

\* A call that saw several lists gives what they agree on (resolve.go:293-345), for
\* any number of refreshes between its look-ups, provided that the backend lists its
\* ids in normal form: one that it does not is not found under its own name, so two
\* lists may agree by accident.
THEOREM ListsAreFollowed ==
  ASSUME IdsAreNormal
  PROVE  Spec => []AgreesWithLists
<1>1. IInv => AgreesWithLists
  BY InvAgrees
<1> QED
  BY <1>1, Invariance, PTL

\* What /v1/models advertises all the time resolves to its own model, with the effort
\* it names (Listing and Resolve), provided that the backend's ids are ordinary: nothing
\* in the code ensures it, and other ids are advertised and not served.
THEOREM ListingIsServed ==
  ASSUME IdsAreOrdinary
  PROVE  Spec => []AdvertisedIsServed
<1>1. IInv => AdvertisedIsServed
  BY InvServed
<1> QED
  BY <1>1, Invariance, PTL

=============================================================================
