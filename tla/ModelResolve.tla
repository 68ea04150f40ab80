----------------------------- MODULE ModelResolve -----------------------------
(***************************************************************************)
(* internal/catalog: Resolve turns the name a client sends into a model id *)
(* and a reasoning effort. It asks the catalog several times, each time    *)
(* under a read lock of its own, while a refresh may replace the list.     *)
(*                                                                         *)
(* A name is the sequence of the words, numbers and marks it is written    *)
(* with: claude-opus-4.5 is <<"claude", "-", "opus", "-", "4", ".", "5">>.  *)
(* It is in lower case and without blanks, and no atom is part of another. *)
(***************************************************************************)
EXTENDS Integers, FiniteSets, SequencesExt

CONSTANTS
    Lists,          \* model lists the catalog may hold: id -> effort support
    Asks,           \* calls: a name, the request's effort, the operator's
    Value,          \* the numbers, with their values
    Digits,         \* how many digits each is written with
    MaxSwaps        \* bound: refreshes during a call

Marks == {"-", ".", ":"}
Number == DOMAIN Value
Minor == {number \in Number : Digits[number] <= 2}
Dates == {number \in Number : Digits[number] = 8}
Family == {"haiku", "sonnet", "opus"}
AutoModelID == <<"auto">>
Aliases == << <<"auto", "-", "kiro">>, AutoModelID >>          \* the one alias

EffortRank == <<"none", "low", "medium", "high", "xhigh", "max">>
ValidEfforts == Range(EffortRank)

\* No effort, or none asked for: the empty string.
NoEffort == ""

\* An entry without an id is not taken into the catalog, an empty level not into an
\* entry.
ResolveAssumption ==
    /\ Value \in [Number -> Nat] /\ Digits \in [Number -> Nat \ {0}]
    /\ \A list \in Lists :
          /\ IsFiniteSet(DOMAIN list)
          /\ \A id \in DOMAIN list :
                /\ id \in Seq(STRING) /\ id # <<>>
                /\ list[id].levels \in Seq(STRING \ {NoEffort}) /\ list[id].default \in STRING
    /\ \A a \in Asks :
          /\ a.name \in Seq(STRING) /\ a.name # <<>>
          /\ a.effort \in STRING /\ a.operator \in STRING /\ a.disable \in BOOLEAN
    /\ MaxSwaps \in Nat

ASSUME ResolveAssumption

VARIABLES
    current,        \* the list the catalog holds
    swaps,          \* refreshes so far
    seen,           \* history: the lists that were current during the call
    ask,            \* what the call was asked
    pc,             \* what it looks up next
    cands,          \* candidates, in order
    i,              \* the candidate being looked at
    available,      \* the ids taken for the fuzzy correction
    result          \* the Resolution

callVars == <<ask, pc, cands, i, available, result>>
vars == <<current, swaps, seen, callVars>>

-----------------------------------------------------------------------------
(* Names: SplitEffortSuffix, applyAlias, NormalizeModelName.                *)

\* A variant that knows one of the two marks only.
SplitEffortSuffix_DashOnly(name) ==
    LET n == Len(name) IN
    IF n > 2 /\ name[n] \in ValidEfforts /\ name[n - 1] = "-"
       THEN [name |-> SubSeq(name, 1, n - 2), effort |-> name[n]]
       ELSE [name |-> name, effort |-> NoEffort]

\* model:level or model-level, if there is such a level.
SplitEffortSuffix(name) ==
    LET n == Len(name) IN
    IF n > 2 /\ name[n] \in ValidEfforts /\ name[n - 1] \in {"-", ":"}
       THEN [name |-> SubSeq(name, 1, n - 2), effort |-> name[n]]
       ELSE [name |-> name, effort |-> NoEffort]

ApplyAlias(name) == IF name = Aliases[1] THEN Aliases[2] ELSE name

\* A pattern is a sequence of sets of atoms; the last may be followed by an end.
Begins(name, pattern) ==
    Len(name) >= Len(pattern) /\ \A n \in DOMAIN pattern : name[n] \in pattern[n]
Fits(name, pattern) == Len(name) = Len(pattern) /\ Begins(name, pattern)
FitsUpTo(name, pattern, end) ==
    Fits(name, pattern) \/ Fits(name, pattern \o << {"-"}, end >>)

PatternStandard ==
    << {"claude"}, {"-"}, Family, {"-"}, Number, {"-"}, Minor >>
PatternNoMinor == << {"claude"}, {"-"}, Family, {"-"}, Number >>
PatternLegacy ==
    << {"claude"}, {"-"}, Number, {"-"}, Number, {"-"}, Family >>
PatternInverted ==
    << {"claude"}, {"-"}, Number, {"."}, Number, {"-"}, Family, {"-"} >>
PatternsDotWithDate ==
    { << {"claude"}, {"-"} >> \o version \o << Family >> \o minor \o << {"-"}, Dates >> :
        version \in { <<>>, << Number, {"."}, Number, {"-"} >> },
        minor   \in { <<>>, << {"-"}, Number, {"."}, Number >> } }

\* The first pattern that matches decides.
NormalizeModelName(name) ==
    LET bare == IF Last(name) = "[1m]" THEN Front(name) ELSE name
        build == Number \cup {"latest"}
    IN
    CASE FitsUpTo(bare, PatternStandard, build) ->
            SubSeq(bare, 1, 5) \o <<".", bare[7]>>
      [] ~FitsUpTo(bare, PatternStandard, build) ->
            IF FitsUpTo(bare, PatternNoMinor, Dates) THEN SubSeq(bare, 1, 5)
            ELSE IF FitsUpTo(bare, PatternLegacy, build)
            THEN SubSeq(bare, 1, 3) \o <<".", bare[5], "-", bare[7]>>
            ELSE IF \E pattern \in PatternsDotWithDate : Fits(bare, pattern)
            THEN SubSeq(bare, 1, Len(bare) - 2)
            ELSE IF Begins(bare, PatternInverted) /\ Len(bare) > Len(PatternInverted)
            THEN <<"claude", "-", bare[7], "-", bare[3], ".", bare[5]>>
            ELSE bare

-----------------------------------------------------------------------------
(* autoCorrect.                                                             *)

\* Where the trailing version of an id begins: numbers separated by dots.
VersionStart(id) ==
    LET IsVersion(from) ==
            \A n \in from .. Len(id) :
                id[n] \in (IF (n - from) % 2 = 0 THEN Number ELSE {"."})
        starts == {n \in 1 .. Len(id) : (Len(id) - n) % 2 = 0 /\ IsVersion(n)}
    IN  IF starts = {} THEN Len(id) + 1 ELSE Min(starts)

BaseOf(id) == SubSeq(id, 1, VersionStart(id) - 1)

\* A component that is missing counts as zero.
Component(id, n) ==
    LET at == VersionStart(id) + 2 * (n - 1) IN
    IF at > Len(id) THEN 0 ELSE Value[id[at]]

NewerThan(a, b) ==
    \E n \in 1 .. Max({Len(a), Len(b)}) :
        /\ Component(a, n) > Component(b, n)
        /\ \A m \in 1 .. n - 1 : Component(a, m) = Component(b, m)

PartOf(name, id) ==
    \E skip \in 0 .. Len(id) - Len(name) : SubSeq(id, skip + 1, skip + Len(name)) = name
\* A name of less than three characters is too short; a word has as many at least.
TooShort(name) ==
    LET Single == Marks \cup {number \in Number : Digits[number] = 1} IN
    \/ Len(name) = 1 /\ name[1] \in Marks \cup Minor
    \/ Len(name) = 2 /\ \A n \in 1 .. 2 : name[n] \in Single

Uncorrected == <<>>

\* The one id the name is part of, or the newest version of the one model.
AutoCorrect(name, ids) ==
    LET matches == {id \in ids : PartOf(name, id)} IN
    IF \/ name = AutoModelID \/ name \in ids \/ TooShort(name) \/ matches = {}
       \/ \E a, b \in matches : BaseOf(a) # BaseOf(b) /\ matches # {a}
    THEN Uncorrected
    ELSE CHOOSE id \in matches : \A other \in matches : ~NewerThan(other, id)

-----------------------------------------------------------------------------
(* ResolveEffort.                                                           *)

Allows(model, level) == level \in Range(model.levels)

LeastLevel(model) ==
    LET offered == {n \in DOMAIN EffortRank : Allows(model, EffortRank[n])}
    IN  IF offered = {} THEN NoEffort ELSE EffortRank[Min(offered)]

\* A variant that sends what is wanted whether the model offers it or not.
ResolveEffort_NoClamp(id, model, wanted) ==
    LET levels == Append(wanted, model.default)
        said   == {n \in DOMAIN levels : levels[n] # NoEffort}
    IN  IF id = AutoModelID \/ model.levels = <<>> \/ said = {} THEN NoEffort ELSE levels[Min(said)]

\* The first of the wanted levels that means something: as it is if the model
\* offers it; the least one instead of none; else the model's default.
ResolveEffort(id, model, wanted) ==
    LET levels == Append(wanted, model.default)
        means  == {n \in DOMAIN levels :
                      Allows(model, levels[n]) \/ levels[n] \in ValidEfforts}
        level  == levels[Min(means)]
    IN
    IF id = AutoModelID \/ model.levels = <<>> \/ means = {} THEN NoEffort
    ELSE IF Allows(model, level) THEN level
    ELSE IF level = "none" THEN LeastLevel(model)
    ELSE IF Allows(model, model.default) THEN model.default
    ELSE Last(model.levels)

\* Where a request turns reasoning off, that stands for the operator's level too.
Wanted(a, suffix) ==
    IF a.disable THEN <<suffix, "none", NoEffort>> ELSE <<suffix, a.effort, a.operator>>

Candidate(name, effort) == [name |-> ApplyAlias(name), effort |-> effort]

\* A model found in a list, and one that is not in any.
Found(a, list, id, cand) ==
    [id |-> id, effort |-> ResolveEffort(id, list[id], Wanted(a, cand.effort)),
     known |-> TRUE]
PassThrough(name) == [id |-> name, effort |-> NoEffort, known |-> FALSE]
NoResult == PassThrough(<<>>)

-----------------------------------------------------------------------------
(* Resolve, one look at the catalog at a time.                              *)

Init ==
    /\ current \in Lists
    /\ swaps = 0
    /\ seen = {}
    /\ pc = "idle"
    /\ ask \in Asks
    /\ cands = <<>> /\ i = 1
    /\ available = {}
    /\ result = NoResult

Call ==
    /\ pc = "idle"
    /\ seen' = {current}
    /\ LET split == SplitEffortSuffix(ask.name) IN
          /\ cands' = <<Candidate(split.name, split.effort)>>
          /\ pc' = IF split.effort = NoEffort THEN "exact" ELSE "full"
    /\ UNCHANGED <<current, swaps, ask, i, available, result>>

\* A variant in which the effort reading of a name always stands.
LookupFull_NeverWins ==
    /\ pc = "full"
    /\ pc' = "exact"
    /\ cands' = Append(cands, Candidate(ask.name, cands[1].effort))
    /\ UNCHANGED <<current, swaps, seen, ask, i, available, result>>

\* A model whose id ends like an effort wins over the effort reading.
LookupFull ==
    /\ pc = "full"
    /\ pc' = "exact"
    /\ cands' = IF ApplyAlias(ask.name) \in DOMAIN current
                THEN <<Candidate(ask.name, NoEffort)>>
                ELSE Append(cands, Candidate(ask.name, cands[1].effort))
    /\ UNCHANGED <<current, swaps, seen, ask, i, available, result>>

Return(resolution) ==
    /\ pc' = "done"
    /\ result' = resolution
    /\ UNCHANGED i

NextCandidate(otherwise) ==
    /\ IF i < Len(cands) THEN i' = i + 1 /\ UNCHANGED pc
                         ELSE i' = 1 /\ pc' = otherwise
    /\ UNCHANGED result

LookupExact ==
    /\ pc = "exact"
    /\ LET id == NormalizeModelName(cands[i].name) IN
          IF id \in DOMAIN current
             THEN Return(Found(ask, current, id, cands[i]))
             ELSE NextCandidate("ids")
    /\ UNCHANGED <<current, swaps, seen, ask, cands, available>>

TakeIDs ==
    /\ pc = "ids"
    /\ available' = DOMAIN current
    /\ pc' = "correct"
    /\ UNCHANGED <<current, swaps, seen, ask, cands, i, result>>

\* The corrected id is looked up again; it may be gone by now.
LookupCorrected ==
    /\ pc = "correct"
    /\ LET id == AutoCorrect(NormalizeModelName(cands[i].name), available) IN
          IF id # Uncorrected /\ id \in DOMAIN current
             THEN Return(Found(ask, current, id, cands[i]))
             ELSE NextCandidate("pass")
    /\ UNCHANGED <<current, swaps, seen, ask, cands, available>>

\* The backend decides. With no entry there is no place to put an effort.
Pass ==
    /\ pc = "pass"
    /\ Return(PassThrough(NormalizeModelName(cands[1].name)))
    /\ UNCHANGED <<current, swaps, seen, ask, cands, available>>

\* Another request's refresh replaces the list.
Swap ==
    /\ pc \notin {"idle", "done"}
    /\ swaps < MaxSwaps
    /\ swaps' = swaps + 1
    /\ current' \in Lists
    /\ seen' = seen \cup {current'}
    /\ UNCHANGED callVars

Next == Call \/ LookupFull \/ LookupExact \/ TakeIDs \/ LookupCorrected \/ Pass \/ Swap

Spec == Init /\ [][Next]_vars

-----------------------------------------------------------------------------
(* Properties.                                                              *)

\* The types; and an effort is only sent to a model that advertised it in a
\* list that was current during the call: any other is refused by the backend.
TypeOK ==
    /\ current \in Lists /\ seen \subseteq Lists /\ ask \in Asks
    /\ swaps \in 0 .. MaxSwaps
    /\ pc \in {"idle", "full", "exact", "ids", "correct", "pass", "done"}
    /\ i \in 1 .. 2 /\ Len(cands) <= 2
    /\ result.effort # NoEffort =>
          \E list \in seen : /\ result.id \in DOMAIN list
                             /\ Allows(list[result.id], result.effort)

\* What the next two properties suppose of the backend's ids, which nothing in the
\* code ensures: they are in the form NormalizeModelName produces ...
IdsAreNormal ==
    \A list \in Lists : \A id \in DOMAIN list : NormalizeModelName(id) = id

\* ... and, for the second of them, none is kirogo's own alias, and none reads like
\* the variant of another that Listing advertises.
IdsAreOrdinary ==
    /\ IdsAreNormal
    /\ \A list \in Lists : \A id \in DOMAIN list :
          /\ id # Aliases[1]
          /\ Len(id) > 2 /\ id[Len(id) - 1] = ":" => id[Len(id)] \notin ValidEfforts

\* What one list alone makes of a call, as resolve.go:257-270 describes it: the
\* name as it is, without its suffix, or corrected, in this order.
AtOnce(a, list) ==
    LET split  == SplitEffortSuffix(a.name)
        whole  == ApplyAlias(a.name) \in DOMAIN list \/ split.effort = NoEffort
        tried  == IF whole THEN <<Candidate(a.name, NoEffort)>>
                  ELSE <<Candidate(split.name, split.effort), Candidate(a.name, split.effort)>>
        id     == [n \in DOMAIN tried |-> NormalizeModelName(tried[n].name)]
        better == [n \in DOMAIN tried |-> AutoCorrect(id[n], DOMAIN list)]
        exact  == {n \in DOMAIN tried : id[n] \in DOMAIN list}
        fuzzy  == {n \in DOMAIN tried : better[n] # Uncorrected}
    IN  IF exact # {} THEN Found(a, list, id[Min(exact)], tried[Min(exact)])
        ELSE IF fuzzy # {} THEN Found(a, list, better[Min(fuzzy)], tried[Min(fuzzy)])
        ELSE PassThrough(id[1])

\* A call that several lists were current in gives what they agree on: taking
\* one look-up from each does not make up an answer (resolve.go:293-345).
AgreesWithLists ==
    pc = "done" /\ (\A one, other \in seen : AtOnce(ask, one) = AtOnce(ask, other))
        => \A list \in seen : result = AtOnce(ask, list)

\* What /v1/models offers: every id, the automatic model under its alias, and a
\* variant for each effort (Listing).
Advertised(list, exposeVariants) ==
    UNION { LET name == IF id = Aliases[2] THEN Aliases[1] ELSE id IN
            {[name |-> name, id |-> id, effort |-> NoEffort]} \cup
            {[name |-> name \o <<":", level>>, id |-> id, effort |-> level] :
                level \in IF exposeVariants /\ id # AutoModelID
                          THEN Range(list[id].levels) \cap ValidEfforts ELSE {}} :
            id \in DOMAIN list }

\* A name that is advertised all the time gets its own model with the effort it
\* names, whatever else the lists hold: not another one that is called alike, or
\* the same model with an effort taken out of its name.
AdvertisedIsServed ==
    pc = "done" =>
        \A entry \in UNION {Advertised(list, TRUE) : list \in seen} :
            entry.name = ask.name /\ (\A list \in seen : entry \in Advertised(list, TRUE))
                => /\ result.known /\ result.id = entry.id
                   /\ entry.effort # NoEffort => result.effort = entry.effort
=============================================================================
