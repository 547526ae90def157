-------------------------------- MODULE Verdict --------------------------------
(***************************************************************************)
(* From what the reviewer's process did to what becomes of its answer:     *)
(* reviewer.py (the child's exit, its envelope, the class of a failure),   *)
(* schema.py (the JSON object in the response, its fields), and the line   *)
(* orchestrate.run journals when no lesson comes of it.                    *)
(*                                                                         *)
(* A text is a sequence of tokens: braces, quotes, backslashes, newlines,  *)
(* fences and everything else ("x").  JSON keeps its braces, its strings   *)
(* and their escapes; commas, colons and names of members are left out,    *)
(* so that an object holds nothing but strings and objects.  What an       *)
(* object that was found says is an input of its own.                      *)
(***************************************************************************)
EXTENDS Integers, Sequences, SequencesExt

CONSTANTS
  Inputs,    \* cases of what the process does and what the object in its response says
  MaxTokens, \* bound: tokens of a response
  None       \* no reason given, nothing there

ASSUME ConstantsAssumption == MaxTokens \in Nat /\ MaxTokens >= 2

VARIABLES
  child, answer, \* inputs
  pc,            \* next step
  text,          \* the response
  found,         \* the object in it
  verdict,       \* what review returns
  journal        \* diagnostics.jsonl

vars == <<child, answer, pc, text, found, verdict, journal>>

-----------------------------------------------------------------------------
(* JSON by its grammar: the words of n tokens.                             *)

Blank == {"n"}

\* Inside a string: plain tokens, and a backslash with an escaped one.
Inside(plain, escaped, max) ==
  LET words[n \in 0 .. max] ==
        IF n = 0 THEN {<<>>}
        ELSE {Append(w, c) : w \in words[n - 1], c \in plain}
               \cup (IF n = 1 THEN {} ELSE {w \o <<"b", c>> : w \in words[n - 2], c \in escaped})
  IN words

\* Between braces: loose tokens, strings and objects.
Content(plain, escaped, loose, max) ==
  LET inside == Inside(plain, escaped, max)
      words[n \in 0 .. max] ==
        IF n = 0 THEN {<<>>}
        ELSE {w \o <<c>> : w \in words[n - 1], c \in loose}
               \cup (UNION {{w \o <<"q">> \o s \o <<"q">> : w \in words[n - k - 2], s \in inside[k]}
                              : k \in 0 .. n - 2})
               \cup (UNION {{w \o <<"{">> \o o \o <<"}">> : w \in words[n - k - 2], o \in words[k]}
                              : k \in 0 .. n - 2})
  IN words

Braced(words) == {<<"{">> \o w \o <<"}">> : w \in words}

\* JSON objects and strings; and what the scanner is to take for an object.
JsonObjects ==
  UNION {Braced(Content({"{", "}", "x", "f"}, {"q", "b"}, Blank, MaxTokens - 2)[n])
           : n \in 0 .. MaxTokens - 2}

JsonStrings ==
  UNION {{<<"q">> \o w \o <<"q">> : w \in Inside({"{", "}", "x", "f"}, {"q", "b"}, MaxTokens - 2)[n]}
           : n \in 0 .. MaxTokens - 2}

Balanced ==
  UNION {Braced(Content({"{", "}", "x", "f", "n"}, {"{", "}", "q", "b", "x", "f", "n"},
                        {"x", "f", "n", "b"}, MaxTokens - 2)[n]) : n \in 0 .. MaxTokens - 2}

-----------------------------------------------------------------------------
(* schema.extract_json.                                                    *)

Strip(t) ==
  LET ink == {i \in DOMAIN t : t[i] \notin Blank} IN
  IF ink = {} THEN <<>>
  ELSE SubSeq(t, CHOOSE i \in ink : \A j \in ink : i <= j, CHOOSE i \in ink : \A j \in ink : j <= i)

\* json.loads.
Loads(t) ==
  IF Strip(t) \in JsonObjects THEN "object"
  ELSE IF Strip(t) \in JsonStrings THEN "string" ELSE "invalid"

\* str.find and str.rfind; 0 where there is none.
Find(t, c) ==
  IF \E i \in DOMAIN t : t[i] = c
    THEN CHOOSE i \in DOMAIN t : t[i] = c /\ \A j \in 1 .. i - 1 : t[j] # c ELSE 0
RFind(t, c) ==
  IF \E i \in DOMAIN t : t[i] = c
    THEN CHOOSE i \in DOMAIN t : t[i] = c /\ \A j \in i + 1 .. Len(t) : t[j] # c ELSE 0

\* The body of a fence the text starts with.
StripCodeFence(t) ==
  LET newline == Find(t, "n")
      closing == RFind(t, "f")
  IN IF t[1] = "f" /\ newline # 0 /\ closing > newline
       THEN Strip(SubSeq(t, newline + 1, closing - 1)) ELSE None

\* Mutant: braces in strings count.
ScanPlainly(s, c) ==
  IF s.end # 0 THEN s
  ELSE LET d == CASE c = "{" -> s.depth + 1 [] c = "}" -> s.depth - 1 [] OTHER -> s.depth IN
       [s EXCEPT !.at = @ + 1, !.depth = d, !.end = IF c = "}" /\ d = 0 THEN s.at ELSE 0]

\* Mutant: an escape is not over after one character.
ScanEscaping(s, c) ==
  IF s.end # 0 THEN s
  ELSE LET next == [s EXCEPT !.at = @ + 1] IN
    IF s.string
      THEN IF c = "b" THEN [next EXCEPT !.escaped = TRUE]
           ELSE IF c = "q" /\ ~s.escaped THEN [next EXCEPT !.string = FALSE] ELSE next
    ELSE CASE c = "q" -> [next EXCEPT !.string = TRUE]
           [] c = "{" -> [next EXCEPT !.depth = @ + 1]
           [] c = "}" -> [next EXCEPT !.depth = @ - 1, !.end = IF s.depth = 1 THEN s.at ELSE 0]
           [] OTHER   -> next

\* One character of _first_balanced_object.
Scan(s, c) ==
  IF s.end # 0 THEN s
  ELSE LET next == [s EXCEPT !.at = @ + 1] IN
    IF s.string
      THEN IF s.escaped THEN [next EXCEPT !.escaped = FALSE]
           ELSE IF c = "b" THEN [next EXCEPT !.escaped = TRUE]
           ELSE IF c = "q" THEN [next EXCEPT !.string = FALSE] ELSE next
    ELSE CASE c = "q" -> [next EXCEPT !.string = TRUE]
           [] c = "{" -> [next EXCEPT !.depth = @ + 1]
           [] c = "}" -> [next EXCEPT !.depth = @ - 1, !.end = IF s.depth = 1 THEN s.at ELSE 0]
           [] OTHER   -> next

\* Its state after each character from the first brace on.
Scanned(t, start) ==
  LET after[i \in start - 1 .. Len(t)] ==
        IF i < start THEN [at |-> start, depth |-> 0, string |-> FALSE, escaped |-> FALSE, end |-> 0]
        ELSE Scan(after[i - 1], t[i])
  IN after

FirstBalancedObject(t) ==
  LET start == Find(t, "{")
      end   == Scanned(t, start)[Len(t)].end
  IN IF start = 0 \/ end = 0 THEN None ELSE SubSeq(t, start, end)

\* The texts extract_json parses, in its order, up to the first that is JSON.
Attempts(t) ==
  <<t>> \o (IF StripCodeFence(t) = None THEN <<>> ELSE <<StripCodeFence(t)>>)
        \o (IF FirstBalancedObject(t) = None THEN <<>> ELSE <<FirstBalancedObject(t)>>)

\* Mutant: the first JSON value will do.
ExtractValue(response) ==
  LET t    == Strip(response)
      json == {i \in DOMAIN Attempts(t) : Loads(Attempts(t)[i]) # "invalid"}
  IN IF t = <<>> THEN [error |-> "empty_response", object |-> None]
     ELSE IF json = {} THEN [error |-> "not_json", object |-> None]
     ELSE [error |-> None, object |-> Strip(Attempts(t)[Min(json)])]

ExtractJson(response) ==
  LET t     == Strip(response)
      json  == {i \in DOMAIN Attempts(t) : Loads(Attempts(t)[i]) # "invalid"}
      value == Attempts(t)[Min(json)]
  IN IF t = <<>> THEN [error |-> "empty_response", object |-> None]
     ELSE IF json = {} THEN [error |-> "not_json", object |-> None]
     ELSE IF Loads(value) = "object" THEN [error |-> None, object |-> Strip(value)]
     ELSE [error |-> "not_an_object", object |-> None]

-----------------------------------------------------------------------------
(* schema.validate, with the bounds of reviewer/schema.json.               *)

Required == <<"signal_type", "evidence_summary", "lesson", "applicability", "counterexample",
              "destination_scope", "destination_kind", "owner_query", "confidence">>
Enums    == {"signal_type", "destination_scope", "destination_kind", "confidence"}

MinLength(f) == IF f = "lesson" THEN 12 ELSE 1
MaxLength(f) == CASE f = "evidence_summary" -> 600
                  [] f = "lesson" -> 400
                  [] f \in {"applicability", "counterexample"} -> 300
                  [] f = "owner_query" -> 200
                  [] OTHER -> 10000

\* A value is absent, no string, a word (in the enum, `low', or neither), or a
\* text of some length with blanks around it, which strip takes off.
Absent     == [type |-> "absent", word |-> None, length |-> 0, blanks |-> 0]
Other      == [type |-> "other", word |-> None, length |-> 0, blanks |-> 0]
Word(w)    == [type |-> "string", word |-> w, length |-> 8, blanks |-> 0]
Text(n, k) == [type |-> "string", word |-> None, length |-> n, blanks |-> k]

\* The words the enum of a field lists; `low' is one of confidence alone.
Listed(f) == IF f = "confidence" THEN {"listed", "low"} ELSE {"listed"}

\* The checks of one required field, in their order; None where it passes.
CheckField(f, v) ==
  CASE v.type = "absent" -> "missing_field"
    [] v.type = "other" -> "bad_type"
    [] v.type = "string" /\ f \in Enums /\ v.word \notin Listed(f) -> "bad_enum"
    [] v.type = "string" /\ v.length < MinLength(f) -> "too_short"
    [] v.type = "string" /\ v.length > MaxLength(f) -> "too_long"
    [] OTHER -> None

\* The error of the first required field that has one; None where none has.
FieldError(a) ==
  LET bad == {i \in DOMAIN Required : CheckField(Required[i], a.fields[Required[i]]) # None}
      first == Required[CHOOSE i \in bad : \A j \in bad : i <= j]
  IN IF bad = {} THEN None ELSE CheckField(first, a.fields[first])

Discard(reason) == [decision |-> "discard", reason |-> reason]
Propose         == [decision |-> "propose", reason |-> None]
SchemaError(e)  == [decision |-> "error", reason |-> e]

\* Categories of schema.json a reviewer gives for a discard.
Categories == {"no_durable_lesson", "one_off_instruction", "common_practice", "inferred_not_stated",
               "unverified_outcome", "already_covered", "transient_state", "other"}

\* Mutant: a discard is to give a category.
ValidateReasoned(a) ==
  IF a.unknown THEN SchemaError("unknown_field")
  ELSE IF a.decision \notin {"discard", "propose"} THEN SchemaError("bad_decision")
  ELSE IF a.decision = "discard"
    THEN IF a.reason \in Categories THEN Discard(a.reason) ELSE SchemaError("bad_enum")
  ELSE IF FieldError(a) # None THEN SchemaError(FieldError(a))
  ELSE IF a.fields["confidence"].word = "low" THEN SchemaError("low_confidence")
  ELSE Propose

Validate(a) ==
  IF a.unknown THEN SchemaError("unknown_field")
  ELSE IF a.decision \notin {"discard", "propose"} THEN SchemaError("bad_decision")
  ELSE IF a.decision = "discard"
    THEN Discard(IF a.reason \in Categories THEN a.reason ELSE None)
  ELSE IF FieldError(a) # None THEN SchemaError(FieldError(a))
  ELSE IF a.fields["confidence"].word = "low" THEN SchemaError("low_confidence")
  ELSE Propose

-----------------------------------------------------------------------------
(* reviewer.py.                                                            *)

\* What prevents a child from running, or from ending in time.
NoExit == {"missing_prompt", "timeout", "cli_not_found", "spawn_failed"}

\* Standard output is a bare text or the envelope of --output-format json, with
\* what it says of a provider error (its status, the class its phrases give) and
\* the first of its keys that holds a string, the response.
Outputs == {"bare", "envelope"}

StatusClass(status) ==
  CASE status \in {401, 403} -> "unauthenticated"
    [] status = 429 -> "rate_limited"
    [] status \in {500, 502} -> "provider_error"
    [] status \in {503, 529} -> "overloaded"
    [] OTHER -> None

\* What phrases in the output of a failure give, and redact.error_class.
PhraseClasses == {"usage_limited", "rate_limited", "overloaded", "model_unavailable",
                  "unauthenticated", "provider_error"}
ErrorClasses  == {"interrupted", "timeout", "command_not_found", "file_not_found",
                  "permission_denied", "network", "not_found_remote", "unauthorized",
                  "syntax_error", "type_error", "assertion_failed", "conflict", "nonzero_exit",
                  "other"}

\* _failure_class: the status, else the phrases, else redact.error_class.
FailureClass(c) ==
  IF c.out = "envelope" /\ StatusClass(c.status) # None THEN StatusClass(c.status)
  ELSE IF c.phrase # None THEN c.phrase ELSE c.message

EnvelopeFailureClass(c) ==
  IF StatusClass(c.status) # None THEN StatusClass(c.status)
  ELSE IF c.phrase # None THEN c.phrase ELSE "reviewer_error"

\* Bare text is left to the schema layer, bare JSON is not.
BareFailure(t) ==
  IF Strip(t) = <<>> THEN "empty_output"
  ELSE IF Loads(t) # "invalid" THEN "unrecognized_envelope" ELSE None

\* Mutant: an error inside an envelope that arrived well is taken for the text.
FailureTrusting(c) ==
  IF c.exit \in NoExit THEN c.exit
  ELSE IF c.exit = "failed" THEN FailureClass(c)
  ELSE IF c.out = "bare" THEN BareFailure(c.text)
  ELSE IF c.key = None THEN "unrecognized_envelope" ELSE None

\* invoke and _response_text: the class of ReviewUnavailable, None if there is a
\* response.
Failure(c) ==
  IF c.exit \in NoExit THEN c.exit
  ELSE IF c.exit = "failed" THEN FailureClass(c)
  ELSE IF c.out = "bare" THEN BareFailure(c.text)
  ELSE IF c.error THEN EnvelopeFailureClass(c)
  ELSE IF c.key = None THEN "unrecognized_envelope" ELSE None

-----------------------------------------------------------------------------
(* What a case of Inputs is.  `unlisted', `later' and `made_up' stand for   *)
(* whatever no enum lists.                                                 *)

Token == {"{", "}", "q", "b", "n", "f", "x"}
Words == {"listed", "low", "unlisted"}

Child == [exit : NoExit \cup {"well", "failed"}, out : Outputs, text : Seq(Token),
          key : {None, "result", "text", "content"}, error : BOOLEAN,
          status : {None} \cup Int, phrase : {None} \cup PhraseClasses, message : ErrorClasses]

FieldValue == {Absent, Other} \cup {Word(w) : w \in Words}
                \cup [type : {"string"}, word : {None}, length : Nat, blanks : Nat]

Answer == [decision : {None, "propose", "discard", "later"}, unknown : BOOLEAN,
           reason : {None, "made_up"} \cup Categories, fields : [Range(Required) -> FieldValue]]

\* The reasons of ReviewUnavailable and of SchemaError.
FailureReasons == NoExit \cup ErrorClasses \cup PhraseClasses
                    \cup {"reviewer_error", "empty_output", "unrecognized_envelope"}
FieldErrors    == {"missing_field", "bad_type", "bad_enum", "too_short", "too_long"}
SchemaReasons  == FieldErrors \cup {"empty_response", "not_json", "not_an_object", "unknown_field",
                                    "bad_decision", "low_confidence"}

ASSUME InputsAssumption ==
  \A i \in DOMAIN Inputs : Inputs[i] \subseteq [child : Child, answer : Answer]

ASSUME LengthAssumption ==
  \A i \in DOMAIN Inputs : \A input \in Inputs[i] : Len(input.child.text) <= MaxTokens

ASSUME NoneIsNothingElse ==
  /\ None \notin FailureReasons \cup SchemaReasons \cup Categories \cup Words
  /\ None \notin JsonObjects

-----------------------------------------------------------------------------

Line(stage, reason) == [stage |-> stage, reason |-> reason]

Init ==
  /\ \E i \in DOMAIN Inputs : \E input \in Inputs[i] : child = input.child /\ answer = input.answer
  /\ pc = "invoke"
  /\ text = <<>> /\ found = None /\ verdict = None
  /\ journal = <<>>

Goto(from, to) == pc = from /\ pc' = to

Respond ==
  /\ Goto("invoke", "extract")
  /\ Failure(child) = None
  /\ text' = child.text
  /\ UNCHANGED <<child, answer, found, verdict, journal>>

\* A reviewer that could not be consulted is a discard, with the class.
Unavailable ==
  /\ Goto("invoke", "decide")
  /\ Failure(child) # None
  /\ verdict' = Discard(Failure(child))
  /\ journal' = Append(journal, Line("reviewer", Failure(child)))
  /\ UNCHANGED <<child, answer, text, found>>

Extract ==
  /\ Goto("extract", "validate")
  /\ ExtractJson(text).error = None
  /\ found' = ExtractJson(text).object
  /\ UNCHANGED <<child, answer, text, verdict, journal>>

SchemaFails(error) ==
  /\ verdict' = Discard(error)
  /\ journal' = Append(journal, Line("reviewer_schema", error))
  /\ UNCHANGED <<child, answer, text, found>>

ExtractFails ==
  /\ Goto("extract", "decide")
  /\ ExtractJson(text).error # None
  /\ SchemaFails(ExtractJson(text).error)

Accept ==
  /\ Goto("validate", "decide")
  /\ Validate(answer).decision # "error"
  /\ verdict' = Validate(answer)
  /\ UNCHANGED <<child, answer, text, found, journal>>

Reject ==
  /\ Goto("validate", "decide")
  /\ Validate(answer).decision = "error"
  /\ SchemaFails(Validate(answer).reason)

\* run, for a result that is no proposal; what a proposal leads to is in Review
\* and Lifecycle.
NoLesson ==
  /\ Goto("decide", "done")
  /\ verdict.decision # "propose"
  /\ journal' = Append(journal, Line("review_outcome",
                  IF verdict.reason = None THEN "reviewer_discarded" ELSE verdict.reason))
  /\ UNCHANGED <<child, answer, text, found, verdict>>

Next == Respond \/ Unavailable \/ Extract \/ ExtractFails \/ Accept \/ Reject \/ NoLesson

Spec == Init /\ [][Next]_vars

-----------------------------------------------------------------------------

Lines == [stage : {"reviewer"}, reason : FailureReasons]
           \cup [stage : {"reviewer_schema"}, reason : SchemaReasons]
           \cup [stage : {"review_outcome"},
                 reason : FailureReasons \cup SchemaReasons \cup Categories \cup {"reviewer_discarded"}]

\* Every variable keeps its type: review returns a discard or a proposal and
\* nothing else, and a review writes at most two lines.
TypeOK ==
  /\ pc \in {"invoke", "extract", "validate", "decide", "done"}
  /\ found \in JsonObjects \cup {None}
  /\ (pc \in {"invoke", "extract"} => found = None) /\ (pc = "validate" => found # None)
  /\ IF pc \in {"decide", "done"} THEN verdict.decision \in {"discard", "propose"}
                                  ELSE verdict = None
  /\ Len(journal) <= 2 /\ \A i \in DOMAIN journal : journal[i] \in Lines

Extracted == pc \in {"validate", "decide", "done"} /\ text # <<>>

Tokens(t) == {t[i] : i \in DOMAIN t}

\* extract_json recovers the object from the wrappings models use: prose before
\* it that holds no brace, and no fence or quote at its start, with anything
\* after it; or a fence around it, labelled with anything.
WrappedObjectRecovered ==
  Extracted =>
    \A i, j \in DOMAIN text : SubSeq(text, i, j) \in JsonObjects =>
      LET before == SubSeq(text, 1, i - 1)
          after  == SubSeq(text, j + 1, Len(text))
          prose  == text[1] \notin {"q", "f", "n"} /\ "{" \notin Tokens(before)
          fence  == /\ text[1] = "f" /\ i > 1 /\ text[i - 1] = "n" /\ after = <<"f">>
                    /\ "n" \notin Tokens(SubSeq(text, 1, i - 2))
      IN prose \/ fence => found = SubSeq(text, i, j)

\* What is read as the reviewer's answer is a whole object of the response: the
\* one that opens at its first brace, or the one that fills its fence; never
\* one in a string or inside another.
AnswerIsWhole ==
  found # None =>
    LET t == Strip(text) IN
    \E i, j \in DOMAIN t :
      /\ found = SubSeq(t, i, j)
      /\ \/ "{" \notin Tokens(SubSeq(t, 1, i - 1))
         \/ LET after == Strip(SubSeq(t, j + 1, Len(t))) IN
            /\ t[1] = "f" /\ Tokens(SubSeq(t, Find(t, "n") + 1, i - 1)) \subseteq Blank
            /\ after # <<>> /\ after[1] = "f" /\ "f" \notin Tokens(Tail(after))

ExtractionIsRight == AnswerIsWhole /\ WrappedObjectRecovered

\* The scanner takes exactly the objects of the grammar: whatever braces and
\* escapes the strings of an object hold, its end is the brace that closes it.
ScannerFollowsGrammar ==
  Extracted /\ Find(text, "{") # 0 =>
    LET rest == SubSeq(text, Find(text, "{"), Len(text))
        ends == {k \in DOMAIN rest : SubSeq(rest, 1, k) \in Balanced}
    IN FirstBalancedObject(text) =
         IF ends = {} THEN None ELSE SubSeq(rest, 1, CHOOSE k \in ends : TRUE)

\* Every required field is there, a string of the contract once its blanks are off,
\* no other field is, and the confidence is enough.
Complete(a) ==
  /\ a.decision = "propose" /\ ~a.unknown
  /\ \A i \in DOMAIN Required :
       LET f == Required[i]
           v == a.fields[f]
       IN /\ v.type = "string"
          /\ IF f \in Enums THEN v.word = "listed"
             ELSE MinLength(f) <= v.length /\ v.length <= MaxLength(f)

\* A lesson is proposed by a reviewer that ran to its end, was not stopped by its
\* provider and answered with a complete object (spec 0001, 7.4), and by no other.
ProposalIsEarned ==
  verdict # None =>
    (verdict.decision = "propose" <=>
       /\ child.exit = "well" /\ ~(child.out = "envelope" /\ child.error)
       /\ found # None /\ Complete(answer))

\* A line that says the reviewer declined was written for a reviewer that did:
\* no failure is journaled under one of its categories -- but `other', which is
\* redact.error_class's word for what it cannot classify, too.  And a reviewer
\* that declined does not have its decision turned into a schema failure by the
\* way it explained itself (docstring of validate) -- unless its answer also has
\* a field of its own, which is looked at before the decision.
DeclinesRecorded ==
  LET declined == found # None /\ answer.decision = "discard"
  IN \A i \in DOMAIN journal :
       /\ /\ journal[i].stage = "review_outcome"
          /\ journal[i].reason \in (Categories \ {"other"}) \cup {"reviewer_discarded"}
          => declined
       /\ declined /\ ~answer.unknown => journal[i].stage # "reviewer_schema"
=============================================================================
