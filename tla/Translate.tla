------------------------------- MODULE Translate -------------------------------
(***************************************************************************)
(* internal/translate: the request kirogo sends upstream for a client's    *)
(* conversation (FromOpenAI or FromAnthropic, then Build).                 *)
(*                                                                         *)
(* A client sends its whole conversation each time, one turn longer: turns *)
(* is that conversation, request what Build made of it last.               *)
(*                                                                         *)
(* Text is a sequence of atoms, each a piece the client sent: turn n's     *)
(* text, a call, a result, an image. An atom in a text is that piece       *)
(* rendered as text. Strings that consist of blanks, payload sizes, tool   *)
(* schemas, model and conversation ids are left out.                       *)
(***************************************************************************)
EXTENDS Integers, SequencesExt

CONSTANTS
    Settings,           \* see SettingsAssumption
    OpenAITurns,        \* the turns a client sends, of either surface: see
    AnthropicTurns,     \* TurnsAssumption
    MaxTurns            \* bound: turns in a conversation

\* field: cfg.SystemPromptAsField. system: the system field of an Anthropic
\* request. tools: the declared ones, "wordy" if the description is over the
\* limit, "overlong" if the name is.
ASSUME SettingsAssumption ==
    Settings \subseteq [surface : {"openai", "anthropic"}, field : BOOLEAN,
                        system : BOOLEAN, tools : SUBSET {"plain", "wordy", "overlong"}]

\* A turn as its converter reads it. A role that is unknown is the user's. OpenAI has
\* one result in each tool turn, calls only on the assistant's side, and nothing but
\* text is read of a system turn.
Results == [id : STRING, image : BOOLEAN]
Turns   == [role : {"system", "user", "assistant", "tool"}, text : BOOLEAN,
            calls : Seq(STRING), results : Seq(Results), image : BOOLEAN,
            thoughts : Seq({"signed", "unsigned", "redacted"})]
ASSUME TurnsAssumption ==
    /\ OpenAITurns \subseteq Turns /\ AnthropicTurns \subseteq Turns
    /\ \A t \in AnthropicTurns : t.role \in {"user", "assistant"}
    /\ \A t \in OpenAITurns :
          /\ t.role # "assistant" => t.calls = <<>>
          /\ IF t.role = "tool" THEN Len(t.results) = 1 ELSE t.results = <<>>
          /\ t.role = "tool" => ~t.text
          /\ t.role \in {"system", "tool"} => ~t.image
    /\ MaxTurns \in Nat

VARIABLES
    setting,        \* what does not change between the requests
    turns,          \* the client's conversation
    request         \* what is sent upstream, or Refused

vars == <<setting, turns, request>>

-----------------------------------------------------------------------------
(* The intermediate representation.                                         *)

Atom(what, n, id) == [what |-> what, turn |-> n, id |-> id]
NoId == ""
Placeholder == Atom("placeholder", 0, NoId)
Docs        == Atom("docs", 0, NoId)

\* The elements of a sequence that are in a set.
Only(s, S) == FlattenSeq([i \in DOMAIN s |-> IF s[i] \in S THEN <<s[i]>> ELSE <<>>])

TextOf(n, t)  == IF t.text THEN <<Atom("text", n, NoId)>> ELSE <<>>
CallsOf(n, t) == [i \in DOMAIN t.calls |-> Atom("call", n, t.calls[i])]
Picture(n, id, present) == IF present THEN <<Atom("image", n, id)>> ELSE <<>>

\* A result, with the images the tool returned.
ResultsOf(n, t) ==
    [i \in DOMAIN t.results |->
        [atom   |-> Atom("result", n, t.results[i].id),
         images |-> Picture(n, t.results[i].id, t.results[i].image)]]

\* The thinking blocks of turn n: their texts run together, the last signature
\* stays. nil if there are none.
Reasoning(n, thoughts) ==
    LET those(kinds) == {i \in DOMAIN thoughts : thoughts[i] \in kinds}
        signed == those({"signed"})
    IN  [turn      |-> IF thoughts = <<>> THEN 0 ELSE n,
         text      |-> those({"signed", "unsigned"}),
         signature |-> IF signed = {} THEN 0 ELSE Max(signed),
         redacted  |-> those({"redacted"}) # {}]

NoReasoning == Reasoning(0, <<>>)

Message(n, t) ==
    [role      |-> IF t.role = "assistant" THEN "assistant" ELSE "user",
     content   |-> TextOf(n, t),
     calls     |-> CallsOf(n, t),
     results   |-> ResultsOf(n, t),
     images    |-> Picture(n, "own", t.image),
     reasoning |-> IF t.role = "assistant" THEN Reasoning(n, t.thoughts) ELSE NoReasoning]

Filler(role, content) ==
    [role |-> role, content |-> content, calls |-> <<>>, results |-> <<>>,
     images |-> <<>>, reasoning |-> NoReasoning]

-----------------------------------------------------------------------------
(* FromOpenAI and FromAnthropic.                                            *)

\* Tool results with no user turn after them get one of their own.
FlushPending(acc) ==
    IF acc.pending = <<>> THEN acc
    ELSE [acc EXCEPT !.messages = Append(@, [Filler("user", <<>>) EXCEPT !.results = acc.pending]),
                     !.pending = <<>>]

TakeTurn(acc, n, t) ==
    CASE t.role = "system" -> [acc EXCEPT !.system = @ \o TextOf(n, t)]
      [] t.role = "tool" -> [acc EXCEPT !.pending = @ \o ResultsOf(n, t)]
      [] t.role = "assistant" ->
            [FlushPending(acc) EXCEPT !.messages = Append(@, Message(n, t))]
      [] t.role = "user" ->
            [acc EXCEPT !.messages = Append(@, [Message(n, t) EXCEPT !.results = acc.pending]),
                        !.pending = <<>>]

NothingTaken == [messages |-> <<>>, pending |-> <<>>, system |-> <<>>]

Taken(client) ==
    LET taken[n \in 0 .. Len(client)] ==
            IF n = 0 THEN NothingTaken ELSE TakeTurn(taken[n - 1], n, client[n])
    IN  taken[Len(client)]

FromOpenAI(client) == FlushPending(Taken(client))

\* Results on an assistant turn and calls on a user turn are kept.
FromAnthropic(client) ==
    [messages |-> [n \in DOMAIN client |-> Message(n, client[n])],
     system   |-> IF setting.system THEN <<Atom("text", 0, NoId)>> ELSE <<>>]

-----------------------------------------------------------------------------
(* The rules of Build.                                                      *)

\* A variant that keeps only the first turn's images.
Joined_DropsImages(a, b) ==
    [a EXCEPT !.content = @ \o b.content, !.calls = @ \o b.calls, !.results = @ \o b.results,
              !.reasoning = IF b.reasoning = NoReasoning THEN @ ELSE b.reasoning]

\* Two turns of one side as one. The later reasoning stays.
Joined(a, b) ==
    [a EXCEPT !.content = @ \o b.content, !.calls = @ \o b.calls, !.results = @ \o b.results,
              !.images = @ \o b.images,
              !.reasoning = IF b.reasoning = NoReasoning THEN @ ELSE b.reasoning]

\* Rule 5, one turn after the other.
Merged(out, m) ==
    IF out # <<>> /\ Last(out).role = m.role THEN [out EXCEPT ![Len(out)] = Joined(@, m)]
    ELSE Append(out, m)

MergeAdjacent(messages) ==
    LET out[n \in 0 .. Len(messages)] ==
            IF n = 0 THEN <<>> ELSE Merged(out[n - 1], messages[n])
    IN  out[Len(messages)]

AtomsOf(results)  == [i \in DOMAIN results |-> results[i].atom]
ImagesIn(results) == FlattenSeq([i \in DOMAIN results |-> results[i].images])

\* Rule 6, for a request that declares no tools. The images stay images.
ToolContentToText(messages) ==
    [i \in DOMAIN messages |->
        LET m == messages[i] IN
        [m EXCEPT !.content = @ \o m.calls \o AtomsOf(m.results),
                  !.images = @ \o ImagesIn(m.results),
                  !.calls = <<>>, !.results = <<>>]]

\* Rule 7: a result that does not answer a call of the assistant turn before it
\* becomes text, and its images the turn's.
InlineOrphanedToolResults(messages) ==
    [i \in DOMAIN messages |->
        LET m == messages[i]
            valid == IF i > 1 /\ messages[i - 1].role = "assistant"
                        THEN {c.id : c \in ToSet(messages[i - 1].calls)} \ {NoId} ELSE {}
            kept    == {r \in ToSet(m.results) : r.atom.id \in valid}
            orphans == Only(m.results, ToSet(m.results) \ kept)
        IN  [m EXCEPT !.content = @ \o AtomsOf(orphans),
                      !.images = @ \o ImagesIn(orphans),
                      !.results = Only(@, kept)]]

\* Variants of the next two: the order of the rules swapped, and no rule 3.
ToolRules_BeforeMerging(messages) ==
    MergeAdjacent(IF setting.tools = {} THEN ToolContentToText(messages)
                  ELSE InlineOrphanedToolResults(messages))

EnsureFirstIsUser_Never(messages) == messages

\* Turns are merged before the tool rules look for the turn a result answers.
ToolRules(messages) ==
    LET merged == MergeAdjacent(messages) IN
    IF setting.tools = {} THEN ToolContentToText(merged)
    ELSE InlineOrphanedToolResults(merged)

\* Rule 3.
EnsureFirstIsUser(messages) ==
    IF messages = <<>> \/ messages[1].role = "user" THEN messages
    ELSE <<Filler("user", <<Placeholder>>)>> \o messages

\* Rule 2. (Rule 4, normalizeRoles, has nothing to do: both surfaces know two roles.)
Alternated(out, m) ==
    IF out # <<>> /\ Last(out).role = "user" /\ m.role = "user"
       THEN out \o <<Filler("assistant", <<Placeholder>>), m>>
       ELSE Append(out, m)

EnsureAlternating(messages) ==
    LET out[n \in 0 .. Len(messages)] ==
            IF n = 0 THEN <<>> ELSE Alternated(out[n - 1], messages[n])
    IN  out[Len(messages)]

\* What reasoningContent sends: nothing of unsigned reasoning, and only the redacted
\* part if there is one. (Its check of the model never applies: no converter sets it.)
Sendable(r) ==
    IF r.redacted THEN [r EXCEPT !.text = {}, !.signature = 0]
    ELSE IF r.signature = 0 THEN NoReasoning
    ELSE r

\* A variant that sends empty content as it is.
Entry_KeepsEmpty(m) ==
    LET user == m.role = "user" IN
    [role      |-> m.role,
     content   |-> m.content,
     calls     |-> IF user THEN <<>> ELSE m.calls,
     results   |-> IF user THEN AtomsOf(m.results) ELSE <<>>,
     images    |-> IF user THEN m.images \o ImagesIn(m.results) ELSE <<>>,
     reasoning |-> IF user THEN NoReasoning ELSE Sendable(m.reasoning)]

\* Rule 1, and what an entry of each side can carry: no images on an assistant's,
\* no calls on a user's.
Entry(m) ==
    LET user == m.role = "user" IN
    [role      |-> m.role,
     content   |-> IF m.content = <<>> THEN <<Placeholder>> ELSE m.content,
     calls     |-> IF user THEN <<>> ELSE m.calls,
     results   |-> IF user THEN AtomsOf(m.results) ELSE <<>>,
     images    |-> IF user THEN m.images \o ImagesIn(m.results) ELSE <<>>,
     reasoning |-> IF user THEN NoReasoning ELSE Sendable(m.reasoning)]

\* A variant that puts the prompt before a placeholder.
JoinSystemPromptInto_KeepsPlaceholder(prompt, content) == prompt \o content

\* The system prompt takes the place of a placeholder.
JoinSystemPromptInto(prompt, content) ==
    IF prompt # <<>> /\ content = <<Placeholder>> THEN prompt ELSE prompt \o content

Refused == [sent |-> FALSE, system |-> <<>>, entries |-> <<>>]

\* entries is the history and, last, the current turn: always the user's.
Build(in) ==
    LET prompt   == in.system \o IF "wordy" \in setting.tools THEN <<Docs>> ELSE <<>>
        messages == EnsureAlternating(EnsureFirstIsUser(ToolRules(in.messages)))
        placed   == IF setting.field THEN messages
                    ELSE [messages EXCEPT ![1].content = JoinSystemPromptInto(prompt, @)]
        closed   == IF Last(placed).role = "assistant"
                       THEN Append(placed, Filler("user", <<Placeholder>>)) ELSE placed
    IN  IF "overlong" \in setting.tools \/ messages = <<>> THEN Refused
        ELSE [sent    |-> TRUE,
              system  |-> IF setting.field THEN prompt ELSE <<>>,
              entries |-> [i \in DOMAIN closed |-> Entry(closed[i])]]

-----------------------------------------------------------------------------

Init ==
    /\ setting \in Settings
    /\ turns = <<>>
    /\ request = Refused

\* The client sends its conversation with one more turn.
SendOpenAI ==
    /\ setting.surface = "openai"
    /\ Len(turns) < MaxTurns
    /\ \E t \in OpenAITurns : turns' = Append(turns, t)
    /\ request' = Build(FromOpenAI(turns'))
    /\ UNCHANGED setting

SendAnthropic ==
    /\ setting.surface = "anthropic"
    /\ Len(turns) < MaxTurns
    /\ \E t \in AnthropicTurns : turns' = Append(turns, t)
    /\ request' = Build(FromAnthropic(turns'))
    /\ UNCHANGED setting

Next == SendOpenAI \/ SendAnthropic

Spec == Init /\ [][Next]_vars

-----------------------------------------------------------------------------
(* Properties.                                                              *)

\* What goes upstream has the shape its types promise: every content says
\* something, an assistant's entry carries no results and a user's no calls.
TypeOK ==
    /\ setting \in Settings
    /\ Len(turns) <= MaxTurns
    /\ \A i \in DOMAIN request.entries :
          LET e == request.entries[i] IN
          /\ e.content # <<>>
          /\ e.role = "user" => e.calls = <<>> /\ e.reasoning = NoReasoning
          /\ e.role = "assistant" => e.results = <<>> /\ e.images = <<>>

\* The backend accepts history that starts with the user, alternates and ends
\* with the user (rules 2, 3, 5, 12), whatever order the client's turns came in.
Alternates ==
    request.sent =>
        /\ Len(request.entries) % 2 = 1
        /\ \A i \in DOMAIN request.entries :
              request.entries[i].role = IF i % 2 = 1 THEN "user" ELSE "assistant"

\* The client's own view of rule 7: turn n answers a call if an assistant turn
\* before it made the call and the assistant has not spoken again after a user.
ClientSide(n) == IF turns[n].role = "assistant" THEN "assistant" ELSE "user"
Answers(n, id) ==
    /\ id # NoId
    /\ ClientSide(n) = "user"
    /\ \E a \in 1 .. n - 1 :
          /\ turns[a].role = "assistant" /\ id \in ToSet(turns[a].calls)
          /\ ~\E j, k \in a + 1 .. n - 1 :
                /\ j < k /\ turns[k].role = "assistant"
                /\ turns[j].role \in {"user", "tool"}

\* A result is sent as one exactly if it answers a call, so that the entry
\* before the one that carries it makes that call: also when calls and results
\* are spread over several turns (invariants.go:94-99, 110-111).
AnswersStayResults ==
    request.sent =>
        LET kept == UNION {ToSet(request.entries[i].results) : i \in DOMAIN request.entries}
        IN  /\ \A i \in DOMAIN request.entries : \A r \in ToSet(request.entries[i].results) :
                  i > 1 /\ r.id \in {c.id : c \in ToSet(request.entries[i - 1].calls)}
            /\ \A n \in DOMAIN turns : \A r \in ToSet(ResultsOf(n, turns[n])) :
                  r.atom \in kept <=> setting.tools # {} /\ Answers(n, r.atom.id)

\* The pieces of turn n that have a place upstream: an entry of the user's side has
\* none for calls, though without tools they are turned to text, and one of the
\* assistant's none for images, nor for those of a result that is turned to text.
Fitting(n) ==
    LET t == turns[n] IN
    TextOf(n, t) \o AtomsOf(ResultsOf(n, t))
      \o (IF t.role = "assistant" \/ setting.tools = {} THEN CallsOf(n, t) ELSE <<>>)
      \o (IF t.role # "assistant" THEN Picture(n, "own", t.image) \o ImagesIn(ResultsOf(n, t))
          ELSE <<>>)

\* The other ones.
Misfits(n) ==
    LET t == turns[n] IN
    IF t.role = "assistant" THEN Picture(n, "own", t.image) \o ImagesIn(ResultsOf(n, t))
    ELSE IF setting.tools # {} THEN CallsOf(n, t)
    ELSE <<>>

OfTurns(atoms) == Only(atoms, {a \in ToSet(atoms) : a.turn > 0})
Pieces(i) ==
    LET e == request.entries[i] IN OfTurns(e.content \o e.calls \o e.results \o e.images)

\* The pieces that have a place arrive exactly once, as themselves or as text,
\* through merging, inlining and the system prompt (rules 5, 6 and 7), and no entry
\* holds a piece older than one in an entry before it. The others never arrive, and
\* nobody is told: images and result images of an assistant's turn, and calls of a
\* user's turn when tools are declared, although anthropic.go:127-134 speaks of
\* keeping these turns' results and calls so that nothing is lost.
FittingArriveOnce ==
    request.sent =>
        LET fitting == FlattenSeq([n \in DOMAIN turns |-> Fitting(n)])
            arrived == OfTurns(request.system)
                          \o FlattenSeq([i \in DOMAIN request.entries |-> Pieces(i)])
            spoken(i) == {a \in ToSet(Pieces(i)) : turns[a.turn].role # "system"}
        IN  /\ Len(arrived) = Len(fitting)
            /\ ToSet(fitting) = ToSet(arrived)
            /\ \A n \in DOMAIN turns : ToSet(Misfits(n)) \cap ToSet(arrived) = {}
            /\ \A i, j \in DOMAIN request.entries : i < j =>
                  \A a \in spoken(i), b \in spoken(j) : a.turn <= b.turn

\* The system turns, in order, and the relocated documentation stand at the head
\* of the first turn, or alone in the field, and a placeholder stands alone: it
\* never follows the instructions (invariants.go:623-626).
PromptComesFirst ==
    request.sent =>
        LET system == IF setting.surface = "anthropic" THEN FromAnthropic(turns).system
                      ELSE FlattenSeq([n \in DOMAIN turns |->
                              IF turns[n].role = "system" THEN TextOf(n, turns[n]) ELSE <<>>])
            prompt == system \o IF "wordy" \in setting.tools THEN <<Docs>> ELSE <<>>
        IN  /\ IF setting.field THEN request.system = prompt
               ELSE IsPrefix(prompt, request.entries[1].content)
            /\ \A i \in DOMAIN request.entries :
                  Placeholder \in ToSet(request.entries[i].content)
                     => request.entries[i].content = <<Placeholder>>
=============================================================================
