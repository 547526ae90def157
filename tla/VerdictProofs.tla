---------------------------- MODULE VerdictProofs ----------------------------
(***************************************************************************)
(* Theorems about Verdict, for every value of its constants: any response, *)
(* any answer and any way the reviewer's process may end.                  *)
(*                                                                         *)
(* Grounds says at each step which of the reasons for a verdict applies    *)
(* and which line was written for it.                                      *)
(*                                                                         *)
(* That the object found is the right one, and that the scanner ends where *)
(* the grammar says, are facts about every text.  They come from Reading,  *)
(* which says what was found in which text, and from lemmas about the      *)
(* grammar and the scanner by induction on the length of a piece; a piece  *)
(* of a text is what lies between two of its places.                       *)
(***************************************************************************)
EXTENDS Verdict, SequenceTheorems, WellFoundedInduction, TLAPS

-----------------------------------------------------------------------------
(* The inductive invariant.                                                *)

\* The four ways to a verdict, and the lines review has written by then.
Unreached(lines) ==
  /\ found = None
  /\ \E r \in FailureReasons : verdict = Discard(r) /\ lines = <<Line("reviewer", r)>>

Unreadable(lines) ==
  /\ found = None
  /\ \E e \in SchemaReasons : verdict = Discard(e) /\ lines = <<Line("reviewer_schema", e)>>

Read == found \in JsonObjects /\ Failure(child) = None

Refused(lines) ==
  /\ Read /\ Validate(answer).decision = "error"
  /\ \E e \in SchemaReasons : verdict = Discard(e) /\ lines = <<Line("reviewer_schema", e)>>

Accepted(lines) ==
  /\ Read /\ Validate(answer).decision # "error"
  /\ verdict = Validate(answer) /\ lines = <<>>

Outcome(lines) ==
  Unreached(lines) \/ Unreadable(lines) \/ Refused(lines) \/ Accepted(lines)

OutcomeLine == Line("review_outcome",
                 IF verdict.reason = None THEN "reviewer_discarded" ELSE verdict.reason)

Grounds ==
  /\ child \in Child /\ answer \in Answer
  /\ pc \in {"invoke", "extract", "validate", "decide", "done"}
  /\ pc \in {"invoke", "extract", "validate"} => verdict = None /\ journal = <<>>
  /\ pc \in {"invoke", "extract"} => found = None
  /\ pc = "extract" => Failure(child) = None
  /\ pc = "validate" => Read
  /\ pc = "decide" => Outcome(journal)
  /\ pc = "done" => /\ verdict.decision # "propose"
                    /\ \E lines : Outcome(lines) /\ journal = Append(lines, OutcomeLine)

-----------------------------------------------------------------------------
(* The classes of failure.                                                 *)

LEMMA NoneIsNoReason ==
  /\ None \notin FailureReasons /\ None \notin SchemaReasons
  /\ None \notin JsonObjects /\ None \notin Categories
BY NoneIsNothingElse

\* A failure has a class, and where there is none the reviewer ran to its end.
LEMMA FailureClassified ==
  ASSUME NEW c \in Child
  PROVE  /\ Failure(c) \in FailureReasons \cup {None}
         /\ Failure(c) = None => c.exit = "well" /\ ~ (c.out = "envelope" /\ c.error)
<1>1. StatusClass(c.status) \in PhraseClasses \cup {None}
  BY DEF StatusClass, PhraseClasses
<1>2. FailureClass(c) \in FailureReasons
  BY <1>1 DEF FailureClass, FailureReasons, Child
<1>3. EnvelopeFailureClass(c) \in FailureReasons
  BY <1>1 DEF EnvelopeFailureClass, FailureReasons, Child
<1>4. BareFailure(c.text) \in FailureReasons \cup {None}
  BY DEF BareFailure, FailureReasons
<1>5. c.exit \in NoExit \cup {"well", "failed"} /\ NoExit \subseteq FailureReasons
  BY DEF Child, FailureReasons
<1>6. "unrecognized_envelope" \in FailureReasons
  BY DEF FailureReasons
<1>7. CASE c.exit \in NoExit
  BY <1>5, <1>7, NoneIsNoReason DEF Failure
<1>8. CASE c.exit = "failed"
  BY <1>2, <1>8, NoneIsNoReason DEF Failure, NoExit
<1>9. CASE c.exit = "well"
  <2>1. ~ (c.exit \in NoExit) /\ c.exit # "failed"
    BY <1>9 DEF NoExit
  <2>2. c.out \in {"bare", "envelope"}
    BY DEF Child, Outputs
  <2> QED
    BY <1>3, <1>4, <1>6, <1>9, <2>1, <2>2, NoneIsNoReason DEF Failure
<1> QED
  BY <1>5, <1>7, <1>8, <1>9

\* extract_json gives an object or says why it does not.
LEMMA ExtractionClassified ==
  ASSUME NEW t
  PROVE  IF ExtractJson(t).error = None THEN ExtractJson(t).object \in JsonObjects
         ELSE ExtractJson(t).error \in SchemaReasons
<1> DEFINE attempts == Attempts(Strip(t))
           json     == {i \in DOMAIN attempts : Loads(attempts[i]) # "invalid"}
           value    == attempts[Min(json)]
<1>1. \A u : Loads(u) = "object" => Strip(u) \in JsonObjects
  BY DEF Loads
<1>2. ExtractJson(t) =
        IF Strip(t) = <<>> THEN [error |-> "empty_response", object |-> None]
        ELSE IF json = {} THEN [error |-> "not_json", object |-> None]
        ELSE IF Loads(value) = "object" THEN [error |-> None, object |-> Strip(value)]
        ELSE [error |-> "not_an_object", object |-> None]
  BY DEF ExtractJson
<1>3. {"empty_response", "not_json", "not_an_object"} \subseteq SchemaReasons
  BY DEF SchemaReasons
<1> HIDE DEF json, value
<1> QED
  BY <1>1, <1>2, <1>3, NoneIsNoReason

-----------------------------------------------------------------------------
(* The fields of a proposal.                                               *)

LEMMA LeastExists ==
  ASSUME NEW S \in SUBSET Nat, S # {}
  PROVE  \E i \in S : \A j \in S : i <= j
<1> DEFINE Below == OpToRel(<, Nat)
<1>1. IsWellFoundedOn(Below, Nat)
  BY NatLessThanWellFounded
<1>2. PICK i \in S : \A j \in S : ~ (<<j, i>> \in Below)
  <2> HIDE DEF Below
  <2> QED BY <1>1, WFMin
<1>3. \A j \in S : ~ (j < i)
  BY <1>2 DEF OpToRel
<1> HIDE DEF Below
<1> QED
  BY <1>3

LEMMA RequiredFields ==
  /\ DOMAIN Required = 1 .. 9 /\ Required[9] = "confidence"
  /\ \A i \in DOMAIN Required : Required[i] \in Range(Required)
BY DEF Required, Range

\* No error is reported exactly when every required field passes.
LEMMA FirstError ==
  ASSUME NEW a
  PROVE  /\ FieldError(a) = None <=>
              \A i \in DOMAIN Required : CheckField(Required[i], a.fields[Required[i]]) = None
         /\ FieldError(a) \in FieldErrors \cup {None}
<1> DEFINE bad   == {i \in DOMAIN Required : CheckField(Required[i], a.fields[Required[i]]) # None}
           first == CHOOSE i \in bad : \A j \in bad : i <= j
<1>1. FieldError(a) = IF bad = {} THEN None
                      ELSE CheckField(Required[first], a.fields[Required[first]])
  BY DEF FieldError
<1>2. \A f, v : CheckField(f, v) \in FieldErrors \cup {None}
  BY DEF CheckField, FieldErrors
<1>3. bad # {} => first \in bad
  <2>1. bad \subseteq Nat
    BY RequiredFields
  <2> HIDE DEF bad
  <2> QED BY <2>1, LeastExists
<1>4. bad # {} => CheckField(Required[first], a.fields[Required[first]]) # None
  BY <1>3
<1> HIDE DEF first
<1> QED
  BY <1>1, <1>2, <1>4

Passes(f, v) ==
  /\ v.type = "string"
  /\ IF f \in Enums THEN v.word \in Listed(f) ELSE MinLength(f) <= v.length /\ v.length <= MaxLength(f)

LEMMA FieldPasses ==
  ASSUME NEW f \in Range(Required), NEW v \in FieldValue
  PROVE  CheckField(f, v) = None <=> Passes(f, v)
<1>1. None \notin FieldErrors
  BY NoneIsNoReason DEF SchemaReasons
<1>2. v.type \in {"absent", "other", "string"} /\ v.length \in Nat
  BY DEF FieldValue, Absent, Other, Word
<1>3. CASE v.type # "string"
  BY <1>1, <1>2, <1>3 DEF CheckField, Passes, FieldErrors
<1>4. CASE v.type = "string" /\ f \in Enums
  <2>1. None \notin Listed(f)
    BY NoneIsNothingElse DEF Listed, Words
  <2>2. v.word # None => v.length = 8
    BY <1>4 DEF FieldValue, Absent, Other, Word
  <2>3. MinLength(f) = 1 /\ MaxLength(f) = 10000
    BY <1>4 DEF Enums, MinLength, MaxLength
  <2> QED
    BY <1>1, <1>4, <2>1, <2>2, <2>3 DEF CheckField, Passes, FieldErrors
<1>5. CASE v.type = "string" /\ f \notin Enums
  <2>1. MinLength(f) \in Nat /\ MaxLength(f) \in Nat
    BY DEF MinLength, MaxLength
  <2> QED
    BY <1>1, <1>2, <1>5, <2>1 DEF CheckField, Passes, FieldErrors
<1> QED
  BY <1>3, <1>4, <1>5

\* validate proposes what is complete, and nothing else.
LEMMA ProposesComplete ==
  ASSUME NEW a \in Answer
  PROVE  /\ Validate(a).decision = "propose" <=> Complete(a)
         /\ Validate(a).decision \in {"discard", "propose", "error"}
         /\ Validate(a).decision = "discard" => Validate(a).reason \in Categories \cup {None}
         /\ Validate(a).decision = "error" => Validate(a).reason \in SchemaReasons
         /\ ~ a.unknown => (Validate(a).decision = "discard" <=> a.decision = "discard")
         /\ Validate(a).decision = "discard" => a.decision = "discard"
<1> DEFINE c == a.fields["confidence"]
<1>1. \A i \in DOMAIN Required : a.fields[Required[i]] \in FieldValue
  BY RequiredFields DEF Answer
<1>2. FieldError(a) = None <=> \A i \in DOMAIN Required : Passes(Required[i], a.fields[Required[i]])
  BY <1>1, FirstError, FieldPasses, RequiredFields
<1>3. Complete(a) <=> /\ a.decision = "propose" /\ ~ a.unknown
                      /\ FieldError(a) = None /\ c.word # "low"
  <2>1. ASSUME NEW i \in DOMAIN Required
        PROVE  LET f == Required[i]
                   v == a.fields[f]
               IN /\ (v.type = "string" /\ IF f \in Enums THEN v.word = "listed"
                                           ELSE MinLength(f) <= v.length /\ v.length <= MaxLength(f))
                       <=> Passes(f, v) /\ (f = "confidence" => c.word # "low")
    BY DEF Passes, Listed, Enums
  <2>2. Required[9] = "confidence" /\ 9 \in DOMAIN Required
    BY RequiredFields
  <2> QED
    BY <1>2, <2>1, <2>2 DEF Complete
<1>4. FieldError(a) \in FieldErrors \cup {None}
  BY FirstError
<1>5. {"unknown_field", "bad_decision", "low_confidence"} \cup FieldErrors \subseteq SchemaReasons
  BY DEF SchemaReasons
<1> HIDE DEF c
<1>6. Validate(a) =
        IF a.unknown THEN SchemaError("unknown_field")
        ELSE IF a.decision \notin {"discard", "propose"} THEN SchemaError("bad_decision")
        ELSE IF a.decision = "discard"
          THEN Discard(IF a.reason \in Categories THEN a.reason ELSE None)
        ELSE IF FieldError(a) # None THEN SchemaError(FieldError(a))
        ELSE IF c.word = "low" THEN SchemaError("low_confidence")
        ELSE Propose
  BY DEF Validate, c
<1>7. a.unknown \in BOOLEAN
  BY DEF Answer
<1> QED
  BY <1>3, <1>4, <1>5, <1>6, <1>7 DEF SchemaError, Discard, Propose

-----------------------------------------------------------------------------
(* Grounds.                                                                *)

LEMMA InitGrounds == Init => Grounds
BY InputsAssumption DEF Init, Grounds

LEMMA GroundsNext == Grounds /\ [Next]_vars => Grounds'
<1> SUFFICES ASSUME Grounds, [Next]_vars
             PROVE  Grounds'
  OBVIOUS
<1>1. CASE Respond
  BY <1>1 DEF Respond, Goto, Grounds
<1>2. CASE Unavailable
  <2>1. Failure(child) \in FailureReasons
    BY <1>2, FailureClassified DEF Unavailable, Grounds
  <2>2. journal' = <<Line("reviewer", Failure(child))>>
    BY <1>2 DEF Unavailable, Goto, Grounds
  <2>3. Unreached(journal)'
    BY <1>2, <2>1, <2>2 DEF Unavailable, Goto, Grounds, Unreached
  <2> QED
    BY <1>2, <2>3 DEF Unavailable, Goto, Grounds, Outcome
<1>3. CASE Extract
  <2>1. Read'
    BY <1>3, ExtractionClassified DEF Extract, Goto, Grounds, Read
  <2> QED
    BY <1>3, <2>1 DEF Extract, Goto, Grounds
<1>4. CASE ExtractFails
  <2>1. ExtractJson(text).error \in SchemaReasons
    BY <1>4, ExtractionClassified DEF ExtractFails
  <2>2. journal' = <<Line("reviewer_schema", ExtractJson(text).error)>>
    BY <1>4 DEF ExtractFails, SchemaFails, Goto, Grounds
  <2>3. Unreadable(journal)'
    BY <1>4, <2>1, <2>2 DEF ExtractFails, SchemaFails, Goto, Grounds, Unreadable
  <2> QED
    BY <1>4, <2>3 DEF ExtractFails, SchemaFails, Goto, Grounds, Outcome
<1>5. CASE Accept
  <2>1. Accepted(journal)'
    BY <1>5 DEF Accept, Goto, Grounds, Accepted, Read
  <2> QED
    BY <1>5, <2>1 DEF Accept, Goto, Grounds, Outcome
<1>6. CASE Reject
  <2>1. Validate(answer).reason \in SchemaReasons
    BY <1>6, ProposesComplete DEF Reject, Grounds
  <2>2. journal' = <<Line("reviewer_schema", Validate(answer).reason)>>
    BY <1>6 DEF Reject, SchemaFails, Goto, Grounds
  <2>3. Refused(journal)'
    BY <1>6, <2>1, <2>2 DEF Reject, SchemaFails, Goto, Grounds, Refused, Read
  <2> QED
    BY <1>6, <2>3 DEF Reject, SchemaFails, Goto, Grounds, Outcome
<1>7. CASE NoLesson
  <2>1. \A lines : Outcome(lines)' <=> Outcome(lines)
    BY <1>7 DEF NoLesson, Outcome, Unreached, Unreadable, Refused, Accepted, Read
  <2>2. journal' = Append(journal, OutcomeLine) /\ OutcomeLine' = OutcomeLine
    BY <1>7 DEF NoLesson, OutcomeLine
  <2> QED
    BY <1>7, <2>1, <2>2 DEF NoLesson, Goto, Grounds
<1>8. CASE UNCHANGED vars
  BY <1>8 DEF vars, Grounds, OutcomeLine, Outcome, Unreached, Unreadable, Refused, Accepted, Read
<1> QED
  BY <1>1, <1>2, <1>3, <1>4, <1>5, <1>6, <1>7, <1>8 DEF Next

LEMMA AlwaysGrounds == Spec => []Grounds
BY InitGrounds, GroundsNext, PTL DEF Spec

\* A review writes the line of its verdict, if that has one, and the outcome's.
LEMMA Written ==
  ASSUME Grounds
  PROVE  \E lines :
           /\ lines = <<>> \/ \E x \in Lines : lines = <<x>>
           /\ pc \in {"decide", "done"} => Outcome(lines)
           /\ \/ pc # "done" /\ journal = lines
              \/ pc = "done" /\ verdict.decision # "propose" /\ journal = Append(lines, OutcomeLine)
<1>1. ASSUME NEW lines, Outcome(lines)
      PROVE  lines = <<>> \/ \E x \in Lines : lines = <<x>>
  <2>1. /\ \A r \in FailureReasons : Line("reviewer", r) \in Lines
        /\ \A e \in SchemaReasons : Line("reviewer_schema", e) \in Lines
    BY DEF Line, Lines
  <2> QED
    BY <1>1, <2>1 DEF Outcome, Unreached, Unreadable, Refused, Accepted
<1>2. CASE pc \in {"invoke", "extract", "validate"}
  BY <1>2 DEF Grounds
<1>3. CASE pc = "decide"
  BY <1>1, <1>3 DEF Grounds
<1>4. CASE pc = "done"
  BY <1>1, <1>4 DEF Grounds
<1> QED
  BY <1>2, <1>3, <1>4 DEF Grounds

\* What a verdict that is no proposal gives as its reason.
LEMMA ReasonOfDiscard ==
  ASSUME Grounds, NEW lines, Outcome(lines)
  PROVE  /\ verdict.decision \in {"discard", "propose"}
         /\ verdict.decision = "discard" =>
              /\ OutcomeLine \in Lines
              /\ \/ verdict.reason \in FailureReasons \cup SchemaReasons
                 \/ Accepted(lines) /\ verdict.reason \in Categories \cup {None}
<1>1. CASE Accepted(lines)
  <2>1. verdict = Validate(answer) /\ verdict.decision \in {"discard", "propose"}
    BY <1>1, ProposesComplete DEF Accepted, Grounds
  <2>2. verdict.decision = "discard" => verdict.reason \in Categories \cup {None}
    BY <2>1, ProposesComplete DEF Grounds
  <2> QED
    BY <1>1, <2>1, <2>2 DEF OutcomeLine, Line, Lines
<1>2. CASE ~ Accepted(lines)
  <2>1. PICK r \in FailureReasons \cup SchemaReasons : verdict = Discard(r)
    BY <1>2 DEF Outcome, Unreached, Unreadable, Refused
  <2>2. r # None
    BY NoneIsNoReason
  <2> QED
    BY <2>1, <2>2 DEF Discard, OutcomeLine, Line, Lines
<1> QED
  BY <1>1, <1>2

\* Every variable keeps its type: whatever the process did and printed, review
\* returns a discard or a proposal, and at most two lines are written, each with
\* a reason of its stage.
THEOREM TypesKept == Spec => []TypeOK
<1>1. ASSUME Grounds
      PROVE  TypeOK
  <2>1. PICK lines :
           /\ lines = <<>> \/ \E x \in Lines : lines = <<x>>
           /\ pc \in {"decide", "done"} => Outcome(lines)
           /\ \/ pc # "done" /\ journal = lines
              \/ pc = "done" /\ verdict.decision # "propose" /\ journal = Append(lines, OutcomeLine)
    BY <1>1, Written
  <2>2. lines \in Seq(Lines) /\ Len(lines) <= 1
    <3>1. CASE lines = <<>>
      BY <3>1
    <3>2. ASSUME NEW x \in Lines, lines = <<x>>
          PROVE  lines \in Seq(Lines) /\ Len(lines) <= 1
      BY <3>2
    <3> QED
      BY <2>1, <3>1, <3>2
  <2>3. Len(journal) <= 2 /\ \A i \in DOMAIN journal : journal[i] \in Lines
    <3>1. CASE pc # "done"
      BY <2>1, <2>2, <3>1
    <3>2. CASE pc = "done"
      <4>1. OutcomeLine \in Lines
        BY <1>1, <2>1, <3>2, ReasonOfDiscard
      <4> QED
        BY <2>1, <2>2, <3>2, <4>1, AppendProperties
    <3> QED
      BY <3>1, <3>2
  <2>4. found \in JsonObjects \cup {None} /\ (pc = "validate" => found # None)
    <3>1. pc \in {"decide", "done"} => found \in JsonObjects \cup {None}
      BY <2>1 DEF Outcome, Unreached, Unreadable, Refused, Accepted, Read
    <3>2. pc = "validate" => found \in JsonObjects
      BY <1>1 DEF Grounds, Read
    <3> QED
      BY <1>1, <3>1, <3>2, NoneIsNoReason DEF Grounds
  <2>5. pc \in {"decide", "done"} => verdict.decision \in {"discard", "propose"}
    BY <1>1, <2>1, ReasonOfDiscard
  <2> QED
    BY <1>1, <2>3, <2>4, <2>5 DEF Grounds, TypeOK
<1> QED
  BY <1>1, AlwaysGrounds, PTL

\* A lesson is proposed exactly when the reviewer ran to its end, its provider
\* did not stop it, and what it answered is a complete object: neither a failure
\* that looks like an answer (reviewer.py:198) nor an answer short of one field
\* becomes a proposal, and no complete one is dropped.
THEOREM ProposalsEarned == Spec => []ProposalIsEarned
<1>1. ASSUME Grounds
      PROVE  ProposalIsEarned
  <2> SUFFICES ASSUME verdict # None
               PROVE  verdict.decision = "propose" <=>
                        /\ child.exit = "well" /\ ~ (child.out = "envelope" /\ child.error)
                        /\ found # None /\ Complete(answer)
    BY DEF ProposalIsEarned
  <2>1. PICK lines : Outcome(lines)
    BY <1>1 DEF Grounds
  <2>2. CASE Read
    <3>1. child.exit = "well" /\ ~ (child.out = "envelope" /\ child.error) /\ found # None
      BY <1>1, <2>2, FailureClassified, NoneIsNoReason DEF Read, Grounds
    <3>2. verdict.decision = "propose" <=> Validate(answer).decision = "propose"
      BY <2>1, <2>2, NoneIsNoReason
      DEF Outcome, Unreached, Unreadable, Refused, Accepted, Read, Discard
    <3> QED
      BY <1>1, <3>1, <3>2, ProposesComplete DEF Grounds
  <2>3. CASE ~ Read
    BY <2>1, <2>3 DEF Outcome, Unreached, Unreadable, Refused, Accepted, Discard
  <2> QED
    BY <2>2, <2>3
<1> QED
  BY <1>1, AlwaysGrounds, PTL

\* No failure, of the process, of the envelope or of the contract, is journaled
\* as a decline; and a decline that names any reason, or none, is not journaled
\* as a failure (docstring of validate).
THEOREM DeclinesTold == Spec => []DeclinesRecorded
<1>1. ASSUME Grounds
      PROVE  DeclinesRecorded
  <2> DEFINE declined == found # None /\ answer.decision = "discard"
             Declining == (Categories \ {"other"}) \cup {"reviewer_discarded"}
             Right(x) == /\ x.stage = "review_outcome" /\ x.reason \in Declining => declined
                         /\ declined /\ ~ answer.unknown => x.stage # "reviewer_schema"
  <2>1. PICK lines :
           /\ lines = <<>> \/ \E x \in Lines : lines = <<x>>
           /\ pc \in {"decide", "done"} => Outcome(lines)
           /\ \/ pc # "done" /\ journal = lines
              \/ pc = "done" /\ verdict.decision # "propose" /\ journal = Append(lines, OutcomeLine)
    BY <1>1, Written
  <2>2. ASSUME NEW x, lines = <<x>>
        PROVE  Right(x)
    <3>1. Outcome(lines)
      BY <1>1, <2>1, <2>2 DEF Grounds
    <3>2. CASE Unreached(lines)
      BY <2>2, <3>2 DEF Unreached, Line
    <3>3. CASE Unreadable(lines)
      BY <2>2, <3>3 DEF Unreadable, Line
    <3>4. CASE Refused(lines)
      <4>1. x.stage = "reviewer_schema"
        BY <2>2, <3>4 DEF Refused, Line
      <4>2. declined => answer.unknown
        BY <1>1, <3>4, ProposesComplete DEF Refused, Grounds, Answer
      <4> QED
        BY <4>1, <4>2
    <3>5. lines # <<>>
      BY <2>2
    <3> QED
      BY <3>1, <3>2, <3>3, <3>4, <3>5 DEF Outcome, Accepted
  <2>3. ASSUME pc = "done"
        PROVE  Right(OutcomeLine)
    <3>1. verdict.decision = "discard" /\ Outcome(lines)
      BY <1>1, <2>1, <2>3, ReasonOfDiscard
    <3>2. OutcomeLine.stage = "review_outcome"
      BY DEF OutcomeLine, Line
    <3>3. CASE Accepted(lines)
      <4>1. found # None /\ Validate(answer).decision = "discard"
        BY <3>1, <3>3, NoneIsNoReason DEF Accepted, Read
      <4> QED
        BY <1>1, <3>2, <4>1, ProposesComplete DEF Grounds
    <3>4. CASE ~ Accepted(lines)
      <4>1. verdict.reason \in FailureReasons \cup SchemaReasons
        BY <1>1, <3>1, <3>4, ReasonOfDiscard
      <4>2. OutcomeLine.reason = verdict.reason
        BY <4>1, NoneIsNoReason DEF OutcomeLine, Line
      <4>3. (FailureReasons \cup SchemaReasons) \cap Declining = {}
        BY DEF FailureReasons, SchemaReasons, FieldErrors, Categories, NoExit, ErrorClasses,
               PhraseClasses
      <4> QED
        BY <3>2, <4>1, <4>2, <4>3
    <3> QED
      BY <3>3, <3>4
  <2> HIDE DEF Right
  <2>4. \A i \in DOMAIN journal : Right(journal[i])
    <3>1. CASE pc # "done"
      BY <2>1, <2>2, <3>1
    <3>2. CASE pc = "done"
      BY <2>1, <2>2, <2>3, <3>2
    <3> QED
      BY <3>1, <3>2
  <2> QED
    BY <2>4 DEF DeclinesRecorded, Right
<1> QED
  BY <1>1, AlwaysGrounds, PTL

-----------------------------------------------------------------------------
(* Texts, and the pieces of one.                                           *)

Texts == Seq(Token)

\* Induction over the naturals for a set: the theorems of the library are about an
\* operator, which the provers cannot instantiate.
LEMMA Induction ==
  ASSUME NEW T, \A n \in Nat : (\A m \in 0 .. n - 1 : m \in T) => n \in T
  PROVE  Nat \subseteq T
<1> DEFINE Less == {ss \in Nat \X Nat : ss[1] < ss[2]}
<1> SUFFICES ASSUME Nat \ T # {} PROVE FALSE
  OBVIOUS
<1>1. IsWellFoundedOn(Less, Nat)
  BY NatLessThanWellFounded DEF OpToRel
<1>2. PICK n \in Nat \ T : \A m \in Nat \ T : ~ (<<m, n>> \in Less)
  <2> HIDE DEF Less
  <2> QED BY <1>1, WFMin
<1>3. ASSUME NEW m \in 0 .. n - 1 PROVE m \in T
  <2>1. m \in Nat /\ m < n
    OBVIOUS
  <2>2. <<m, n>> \in Less
    BY <2>1
  <2> HIDE DEF Less
  <2> QED
    BY <1>2, <2>1, <2>2
<1> QED
  BY <1>2, <1>3

\* The tokens of t after the a-th up to the b-th.
Piece(t, a, b) == SubSeq(t, a + 1, b)

LEMMA PieceIs ==
  ASSUME NEW t \in Texts, NEW a \in Nat, NEW b \in Nat, a <= b, b <= Len(t)
  PROVE  /\ Piece(t, a, b) \in Texts /\ Len(Piece(t, a, b)) = b - a
         /\ \A i \in 1 .. b - a : Piece(t, a, b)[i] = t[a + i]
<1>1. a + 1 \in Int /\ b \in Int /\ \A i \in a + 1 .. b : t[i] \in Token
  BY ElementOfSeq, LenProperties DEF Texts
<1>2. /\ SubSeq(t, a + 1, b) \in Texts
      /\ Len(SubSeq(t, a + 1, b)) = IF a + 1 <= b THEN b - (a + 1) + 1 ELSE 0
      /\ \A i \in 1 .. b - (a + 1) + 1 : SubSeq(t, a + 1, b)[i] = t[a + 1 + i - 1]
  BY <1>1, SubSeqProperties DEF Texts
<1> QED
  BY <1>2 DEF Piece

LEMMA SameText ==
  ASSUME NEW p \in Texts, NEW q \in Texts, Len(p) = Len(q), \A i \in 1 .. Len(p) : p[i] = q[i]
  PROVE  p = q
  BY SeqEqual DEF Texts

LEMMA Joined ==
  ASSUME NEW t \in Texts, NEW a \in Nat, NEW m \in Nat, NEW b \in Nat, a <= m, m <= b, b <= Len(t)
  PROVE  Piece(t, a, m) \o Piece(t, m, b) = Piece(t, a, b)
<1> DEFINE w == Piece(t, a, m)
           v == Piece(t, m, b)
           p == Piece(t, a, b)
<1>1. Len(t) \in Nat /\ a <= b /\ m <= Len(t)
  BY LenProperties DEF Texts
<1>2. w \in Texts /\ Len(w) = m - a /\ \A i \in 1 .. m - a : w[i] = t[a + i]
  BY <1>1, PieceIs
<1>3. v \in Texts /\ Len(v) = b - m /\ \A i \in 1 .. b - m : v[i] = t[m + i]
  BY <1>1, PieceIs
<1>4. p \in Texts /\ Len(p) = b - a /\ \A i \in 1 .. b - a : p[i] = t[a + i]
  BY <1>1, PieceIs
<1> HIDE DEF w, v, p
<1>5. /\ w \o v \in Texts /\ Len(w \o v) = Len(w) + Len(v)
      /\ \A i \in 1 .. Len(w) + Len(v) : (w \o v)[i] = IF i <= Len(w) THEN w[i] ELSE v[i - Len(w)]
  BY <1>2, <1>3, ConcatProperties DEF Texts
<1> DEFINE u == w \o v
<1>6. u \in Texts /\ Len(u) = b - a
      /\ \A i \in 1 .. b - a : u[i] = IF i <= m - a THEN w[i] ELSE v[i - (m - a)]
  BY <1>2, <1>3, <1>5
<1> HIDE DEF u
<1>7. ASSUME NEW i \in 1 .. b - a PROVE u[i] = p[i]
  <2>1. CASE i <= m - a
    <3>1. i \in 1 .. m - a
      BY <2>1
    <3> QED
      BY <1>2, <1>4, <1>6, <2>1, <3>1
  <2>2. CASE ~ (i <= m - a)
    <3>1. i - (m - a) \in 1 .. b - m /\ m + (i - (m - a)) = a + i
      BY <2>2
    <3> QED
      BY <1>3, <1>4, <1>6, <2>2, <3>1
  <2> QED
    BY <2>1, <2>2
<1>8. u = p
  BY <1>4, <1>6, <1>7, SameText
<1> QED
  BY <1>8 DEF u, w, v, p

LEMMA Single ==
  ASSUME NEW S, NEW r \in Seq(S), Len(r) = 1
  PROVE  r = <<r[1]>>
  OBVIOUS

LEMMA OneToken ==
  ASSUME NEW t \in Texts, NEW a \in Nat, a < Len(t)
  PROVE  Piece(t, a, a + 1) = <<t[a + 1]>> /\ t[a + 1] \in Token
<1>b. PICK b : b = a + 1
  OBVIOUS
<1>1. Len(t) \in Nat /\ b \in 1 .. Len(t) /\ b \in Nat /\ a <= b /\ b <= Len(t) /\ b - a = 1
  BY <1>b, LenProperties DEF Texts
<1>p. PICK p : p = Piece(t, a, b)
  OBVIOUS
<1>2. p \in Texts /\ Len(p) = b - a /\ \A i \in 1 .. b - a : p[i] = t[a + i]
  BY <1>1, <1>p, PieceIs
<1>4. Len(p) = 1 /\ p[1] = t[a + 1]
  BY <1>1, <1>2
<1>5. p = <<p[1]>>
  BY <1>2, <1>4, Single DEF Texts
<1>3. t[b] \in Token
  BY <1>1, ElementOfSeq DEF Texts
<1> QED
  BY <1>3, <1>4, <1>5, <1>b, <1>p

\* One text and then another, hidden from the provers, which take a joined text
\* apart by its positions.
Then(w, v) == w \o v
One(c) == <<c>>

\* A piece that is one text and another is cut where the first ends.
LEMMA Cut ==
  ASSUME NEW t \in Texts, NEW a \in Nat, NEW b \in Nat, a <= b, b <= Len(t),
         NEW w \in Texts, NEW v \in Texts, Piece(t, a, b) = Then(w, v),
         NEW m, m = a + Len(w)
  PROVE  /\ m \in Nat /\ a <= m /\ m <= b /\ Len(v) = b - m
         /\ w = Piece(t, a, m) /\ v = Piece(t, m, b)
<1>1. Len(t) \in Nat /\ Len(w) \in Nat /\ Len(v) \in Nat
  BY LenProperties DEF Texts
<1>2. Len(Piece(t, a, b)) = b - a /\ \A i \in 1 .. b - a : Piece(t, a, b)[i] = t[a + i]
  BY PieceIs
<1> DEFINE p == Piece(t, a, b)
<1>0. p = w \o v
  BY DEF Then
<1>3. /\ Len(w \o v) = Len(w) + Len(v)
      /\ \A i \in 1 .. Len(w) + Len(v) : (w \o v)[i] = IF i <= Len(w) THEN w[i] ELSE v[i - Len(w)]
  BY ConcatProperties DEF Texts
<1>4. b - a = Len(w) + Len(v)
  BY <1>0, <1>2, <1>3
<1>5. m \in Nat /\ a <= m /\ m <= b /\ Len(v) = b - m /\ Len(w) = m - a /\ m <= Len(t)
  BY <1>1, <1>4
<1>6. \A i \in 1 .. b - a : t[a + i] = IF i <= Len(w) THEN w[i] ELSE v[i - Len(w)]
  BY <1>0, <1>2, <1>3, <1>4
<1>7. w = Piece(t, a, m)
  <2>1. /\ Piece(t, a, m) \in Texts /\ Len(Piece(t, a, m)) = m - a
        /\ \A i \in 1 .. m - a : Piece(t, a, m)[i] = t[a + i]
    BY <1>5, PieceIs
  <2>2. ASSUME NEW i \in 1 .. Len(w) PROVE w[i] = Piece(t, a, m)[i]
    <3>1. i \in 1 .. b - a /\ i \in 1 .. m - a /\ i <= Len(w)
      BY <1>1, <1>5
    <3> QED
      BY <1>6, <2>1, <3>1
  <2> QED
    BY <1>5, <2>1, <2>2, SameText
<1>8. v = Piece(t, m, b)
  <2>1. /\ Piece(t, m, b) \in Texts /\ Len(Piece(t, m, b)) = b - m
        /\ \A i \in 1 .. b - m : Piece(t, m, b)[i] = t[m + i]
    BY <1>5, PieceIs
  <2>2. ASSUME NEW i \in 1 .. Len(v) PROVE v[i] = Piece(t, m, b)[i]
    <3>1. PICK j : j = i + Len(w)
      OBVIOUS
    <3>2. j \in 1 .. b - a /\ ~ (j <= Len(w)) /\ j - Len(w) = i /\ a + j = m + i /\ i \in 1 .. b - m
      BY <1>1, <1>5, <3>1
    <3> QED
      BY <1>6, <2>1, <3>2
  <2> QED
    BY <1>5, <2>1, <2>2, SameText
<1> QED
  BY <1>5, <1>7, <1>8

LEMMA OneLong ==
  ASSUME NEW c \in Token
  PROVE  One(c) \in Texts /\ 0 < Len(One(c)) /\ Len(One(c)) < 2 /\ One(c)[1] = c
  BY DEF Texts, One

LEMMA CutOne ==
  ASSUME NEW t \in Texts, NEW a \in Nat, NEW b \in Nat, a <= b, b <= Len(t),
         NEW w \in Texts, NEW v \in Texts, 0 < Len(v) /\ Len(v) < 2, Piece(t, a, b) = Then(w, v)
  PROVE  a < b /\ b - 1 \in Nat /\ w = Piece(t, a, b - 1) /\ Len(w) = b - 1 - a /\ t[b] = v[1]
<1>m. PICK m : m = a + Len(w)
  OBVIOUS
<1>1. /\ m \in Nat /\ a <= m /\ m <= b /\ Len(v) = b - m
      /\ w = Piece(t, a, m) /\ v = Piece(t, m, b)
  BY <1>m, Cut
<1>2. m = b - 1 /\ Len(w) \in Nat
  <2>1. 0 < b - m /\ b - m < 2
    BY <1>1
  <2>2. Len(w) \in Nat
    BY LenProperties DEF Texts
  <2> QED
    BY <1>1, <2>1, <2>2
<1>3. v[1] = t[b]
  <2>1. /\ 1 \in 1 .. b - m /\ m + 1 = b
        /\ \A i \in 1 .. b - m : Piece(t, m, b)[i] = t[m + i]
    BY <1>1, <1>2, PieceIs
  <2> QED
    BY <1>1, <2>1
<1>4. Len(w) = b - 1 - a /\ a < b
  BY <1>1, <1>2, <1>m
<1> QED
  BY <1>1, <1>2, <1>3, <1>4

LEMMA CutLast ==
  ASSUME NEW t \in Texts, NEW a \in Nat, NEW b \in Nat, a <= b, b <= Len(t),
         NEW w \in Texts, NEW c \in Token, Piece(t, a, b) = Then(w, One(c))
  PROVE  a < b /\ b - 1 \in Nat /\ w = Piece(t, a, b - 1) /\ Len(w) = b - 1 - a /\ t[b] = c
<1>1. PICK v \in Texts : v = One(c) /\ 0 < Len(v) /\ Len(v) < 2 /\ v[1] = c
  BY OneLong
<1>2. Piece(t, a, b) = Then(w, v)
  BY <1>1
<1> QED
  BY <1>1, <1>2, CutOne

-----------------------------------------------------------------------------
(* The words of the grammar.                                               *)

\* Inside a string: the words of n tokens, from those that are shorter.
InsideStep(plain, escaped, words, n) ==
  IF n = 0 THEN {<<>>}
  ELSE {Append(w, c) : w \in words[n - 1], c \in plain}
         \cup (IF n = 1 THEN {} ELSE {w \o <<"b", c>> : w \in words[n - 2], c \in escaped})

LEMMA InsideExists ==
  ASSUME NEW plain, NEW escaped, NEW max \in Nat
  PROVE  \E words : words = [n \in 0 .. max |-> InsideStep(plain, escaped, words, n)]
<1> DEFINE Found(k) == \E f : f = [n \in 0 .. k |-> InsideStep(plain, escaped, f, n)]
           T == {k \in Nat : Found(k)}
<1>1. ASSUME NEW k \in Nat, \A m \in 0 .. k - 1 : m \in T PROVE k \in T
  <2>1. CASE k = 0
    <3> DEFINE f == [n \in 0 .. 0 |-> {<<>>}]
    <3>1. f = [n \in 0 .. 0 |-> InsideStep(plain, escaped, f, n)]
      BY DEF InsideStep
    <3> QED
      BY <2>1, <3>1
  <2>2. CASE k # 0
    <3>1. k - 1 \in 0 .. k - 1
      BY <2>2
    <3>2. PICK f : f = [n \in 0 .. k - 1 |-> InsideStep(plain, escaped, f, n)]
      BY <1>1, <3>1
    <3> DEFINE g == [n \in 0 .. k |-> IF n < k THEN f[n] ELSE InsideStep(plain, escaped, f, k)]
    <3>3. \A n \in 0 .. k - 1 : g[n] = f[n]
      OBVIOUS
    <3>4. ASSUME NEW n \in 0 .. k PROVE InsideStep(plain, escaped, g, n) = InsideStep(plain, escaped, f, n)
      <4>1. n # 0 => n - 1 \in 0 .. k - 1
        OBVIOUS
      <4>2. n # 0 /\ n # 1 => n - 2 \in 0 .. k - 1
        OBVIOUS
      <4> HIDE DEF g
      <4>3. n # 0 => g[n - 1] = f[n - 1]
        BY <3>3, <4>1
      <4>4. n # 0 /\ n # 1 => g[n - 2] = f[n - 2]
        BY <3>3, <4>2
      <4>5. CASE n = 0
        BY <4>5 DEF InsideStep
      <4>6. CASE n = 1
        <5>1. g[n - 1] = f[n - 1]
          BY <4>3, <4>6
        <5> QED
          BY <4>6, <5>1 DEF InsideStep
      <4>7. CASE n # 0 /\ n # 1
        <5>1. g[n - 1] = f[n - 1] /\ g[n - 2] = f[n - 2]
          BY <4>3, <4>4, <4>7
        <5> QED
          BY <4>7, <5>1 DEF InsideStep
      <4> QED
        BY <4>5, <4>6, <4>7
    <3>5. ASSUME NEW n \in 0 .. k PROVE g[n] = InsideStep(plain, escaped, f, n)
      <4>1. CASE n < k
        <5>1. n \in 0 .. k - 1
          BY <4>1
        <5>2. f[n] = InsideStep(plain, escaped, f, n)
          BY <3>2, <5>1
        <5> QED
          BY <3>3, <5>1, <5>2
      <4>2. CASE ~ (n < k)
        <5>1. n = k
          BY <4>2
        <5> QED
          BY <5>1
      <4> QED
        BY <4>1, <4>2
    <3>6. \A n \in 0 .. k : g[n] = InsideStep(plain, escaped, g, n)
      BY <3>4, <3>5
    <3>7. g = [n \in 0 .. k |-> InsideStep(plain, escaped, g, n)]
      <4>1. \E h : g = [n \in 0 .. k |-> h[n]]
        <5>1. g = [n \in 0 .. k |-> g[n]]
          OBVIOUS
        <5> QED
          BY <5>1
      <4> HIDE DEF g
      <4> QED
        BY <3>6, <4>1
    <3>8. Found(k)
      <4> HIDE DEF g
      <4> QED
        BY <3>7
    <3> QED
      BY <3>8
  <2> QED
    BY <2>1, <2>2
<1>2. max \in T
  <2> HIDE DEF T
  <2> QED
    BY <1>1, Induction
<1> QED
  BY <1>2

LEMMA InsideIs ==
  ASSUME NEW plain, NEW escaped, NEW max \in Nat
  PROVE  \A n \in 0 .. max :
           Inside(plain, escaped, max)[n] = InsideStep(plain, escaped, Inside(plain, escaped, max), n)
<1> DEFINE W == Inside(plain, escaped, max)
<1>1. W = CHOOSE words : words = [n \in 0 .. max |-> InsideStep(plain, escaped, words, n)]
  BY DEF Inside, InsideStep
<1>2. W = [n \in 0 .. max |-> InsideStep(plain, escaped, W, n)]
  <2> HIDE DEF W
  <2> QED
    BY <1>1, InsideExists
<1> QED
  <2> HIDE DEF W
  <2>1. \A n \in 0 .. max : W[n] = InsideStep(plain, escaped, W, n)
    BY <1>2
  <2> QED
    BY <2>1 DEF W

\* Between braces: the words of n tokens, from those that are shorter.
ContentStep(loose, inside, words, n) ==
  IF n = 0 THEN {<<>>}
  ELSE {w \o <<c>> : w \in words[n - 1], c \in loose}
         \cup (UNION {{w \o <<"q">> \o s \o <<"q">> : w \in words[n - k - 2], s \in inside[k]}
                        : k \in 0 .. n - 2})
         \cup (UNION {{w \o <<"{">> \o o \o <<"}">> : w \in words[n - k - 2], o \in words[k]}
                        : k \in 0 .. n - 2})

Loosely(words, loose, n) == {w \o <<c>> : w \in words[n - 1], c \in loose}
Strings(words, inside, n) ==
  UNION {{w \o <<"q">> \o s \o <<"q">> : w \in words[n - k - 2], s \in inside[k]} : k \in 0 .. n - 2}
Objects(words, n) ==
  UNION {{w \o <<"{">> \o o \o <<"}">> : w \in words[n - k - 2], o \in words[k]} : k \in 0 .. n - 2}

LEMMA ContentStepIs ==
  ASSUME NEW loose, NEW inside, NEW words, NEW n
  PROVE  ContentStep(loose, inside, words, n) =
           IF n = 0 THEN {<<>>}
           ELSE Loosely(words, loose, n) \cup Strings(words, inside, n) \cup Objects(words, n)
<1> DEFINE loosely == {w \o <<c>> : w \in words[n - 1], c \in loose}
           strings == UNION {{w \o <<"q">> \o s \o <<"q">> : w \in words[n - k - 2], s \in inside[k]}
                               : k \in 0 .. n - 2}
           objects == UNION {{w \o <<"{">> \o o \o <<"}">> : w \in words[n - k - 2], o \in words[k]}
                               : k \in 0 .. n - 2}
<1>1. ContentStep(loose, inside, words, n) =
        IF n = 0 THEN {<<>>} ELSE loosely \cup strings \cup objects
  BY DEF ContentStep
<1>2. strings = Strings(words, inside, n)
  BY DEF Strings
<1>3. objects = Objects(words, n)
  BY DEF Objects
<1> HIDE DEF loosely, strings, objects
<1>4. loosely = Loosely(words, loose, n)
  BY DEF Loosely, loosely
<1> QED
  BY <1>1, <1>2, <1>3, <1>4

LEMMA ContentFromShorter ==
  ASSUME NEW loose, NEW inside, NEW f, NEW g, NEW n \in Nat, \A m \in 0 .. n - 1 : g[m] = f[m]
  PROVE  ContentStep(loose, inside, g, n) = ContentStep(loose, inside, f, n)
<1>1. ASSUME NEW k \in 0 .. n - 2 PROVE g[k] = f[k] /\ g[n - k - 2] = f[n - k - 2]
  <2>1. k \in 0 .. n - 1 /\ n - k - 2 \in 0 .. n - 1
    OBVIOUS
  <2> QED
    BY <2>1
<1>2. Strings(g, inside, n) = Strings(f, inside, n)
  <2> DEFINE Made(A, B) == {w \o <<"q">> \o s \o <<"q">> : w \in A, s \in B}
             G(k) == Made(g[n - k - 2], inside[k])
             F(k) == Made(f[n - k - 2], inside[k])
  <2>1. \A k \in 0 .. n - 2 : G(k) = F(k)
    <3> HIDE DEF Made
    <3> QED
      BY <1>1
  <2>2. Strings(g, inside, n) = UNION {G(k) : k \in 0 .. n - 2}
    BY DEF Strings
  <2>3. Strings(f, inside, n) = UNION {F(k) : k \in 0 .. n - 2}
    BY DEF Strings
  <2> HIDE DEF G, F
  <2> QED
    BY <2>1, <2>2, <2>3
<1>3. Objects(g, n) = Objects(f, n)
  <2> DEFINE Made(A, B) == {w \o <<"{">> \o o \o <<"}">> : w \in A, o \in B}
             G(k) == Made(g[n - k - 2], g[k])
             F(k) == Made(f[n - k - 2], f[k])
  <2>1. \A k \in 0 .. n - 2 : G(k) = F(k)
    <3> HIDE DEF Made
    <3> QED
      BY <1>1
  <2>2. Objects(g, n) = UNION {G(k) : k \in 0 .. n - 2}
    BY DEF Objects
  <2>3. Objects(f, n) = UNION {F(k) : k \in 0 .. n - 2}
    BY DEF Objects
  <2> HIDE DEF G, F
  <2> QED
    BY <2>1, <2>2, <2>3
<1>4. CASE n = 0
  BY <1>4 DEF ContentStep
<1>5. CASE n # 0
  <2>1. n - 1 \in 0 .. n - 1
    BY <1>5
  <2>2. g[n - 1] = f[n - 1]
    BY <2>1
  <2> DEFINE Made(A) == {w \o <<c>> : w \in A, c \in loose}
  <2>3. Loosely(g, loose, n) = Made(g[n - 1]) /\ Loosely(f, loose, n) = Made(f[n - 1])
    BY DEF Loosely
  <2> HIDE DEF Made
  <2>4. Loosely(g, loose, n) = Loosely(f, loose, n)
    BY <2>2, <2>3
  <2> QED
    BY <1>2, <1>3, <1>5, <2>4, ContentStepIs
<1> QED
  BY <1>4, <1>5

LEMMA ContentExists ==
  ASSUME NEW loose, NEW inside, NEW max \in Nat
  PROVE  \E words : words = [n \in 0 .. max |-> ContentStep(loose, inside, words, n)]
<1> DEFINE Found(k) == \E f : f = [n \in 0 .. k |-> ContentStep(loose, inside, f, n)]
           T == {k \in Nat : Found(k)}
<1>1. ASSUME NEW k \in Nat, \A m \in 0 .. k - 1 : m \in T PROVE k \in T
  <2>1. CASE k = 0
    <3> DEFINE f == [n \in 0 .. 0 |-> {<<>>}]
    <3>1. f = [n \in 0 .. 0 |-> ContentStep(loose, inside, f, n)]
      BY DEF ContentStep
    <3> QED
      BY <2>1, <3>1
  <2>2. CASE k # 0
    <3>1. k - 1 \in 0 .. k - 1
      BY <2>2
    <3>2. PICK f : f = [n \in 0 .. k - 1 |-> ContentStep(loose, inside, f, n)]
      BY <1>1, <3>1
    <3> DEFINE g == [n \in 0 .. k |-> IF n < k THEN f[n] ELSE ContentStep(loose, inside, f, k)]
    <3>3. \A n \in 0 .. k - 1 : g[n] = f[n]
      OBVIOUS
    <3>4. ASSUME NEW n \in 0 .. k PROVE ContentStep(loose, inside, g, n) = ContentStep(loose, inside, f, n)
      <4> HIDE DEF g
      <4>1. \A m \in 0 .. n - 1 : g[m] = f[m]
        BY <3>3
      <4> QED
        BY <4>1, ContentFromShorter
    <3>5. ASSUME NEW n \in 0 .. k PROVE g[n] = ContentStep(loose, inside, f, n)
      <4>1. CASE n < k
        <5>1. n \in 0 .. k - 1
          BY <4>1
        <5>2. f[n] = ContentStep(loose, inside, f, n)
          BY <3>2, <5>1
        <5> QED
          BY <3>3, <5>1, <5>2
      <4>2. CASE ~ (n < k)
        <5>1. n = k
          BY <4>2
        <5> QED
          BY <5>1
      <4> QED
        BY <4>1, <4>2
    <3>6. \A n \in 0 .. k : g[n] = ContentStep(loose, inside, g, n)
      BY <3>4, <3>5
    <3>7. g = [n \in 0 .. k |-> ContentStep(loose, inside, g, n)]
      <4>1. \E h : g = [n \in 0 .. k |-> h[n]]
        <5>1. g = [n \in 0 .. k |-> g[n]]
          OBVIOUS
        <5> QED
          BY <5>1
      <4> HIDE DEF g
      <4> QED
        BY <3>6, <4>1
    <3>8. Found(k)
      <4> HIDE DEF g
      <4> QED
        BY <3>7
    <3> QED
      BY <3>8
  <2> QED
    BY <2>1, <2>2
<1>2. max \in T
  <2> HIDE DEF T
  <2> QED
    BY <1>1, Induction
<1> QED
  BY <1>2

LEMMA ContentIs ==
  ASSUME NEW plain, NEW escaped, NEW loose, NEW max \in Nat
  PROVE  \A n \in 0 .. max :
           Content(plain, escaped, loose, max)[n] =
             ContentStep(loose, Inside(plain, escaped, max), Content(plain, escaped, loose, max), n)
<1> DEFINE W == Content(plain, escaped, loose, max)
           inside == Inside(plain, escaped, max)
<1>1. W = CHOOSE words : words = [n \in 0 .. max |-> ContentStep(loose, inside, words, n)]
  BY DEF Content, ContentStep
<1>2. W = [n \in 0 .. max |-> ContentStep(loose, inside, W, n)]
  <2> HIDE DEF W, inside
  <2> QED
    BY <1>1, ContentExists
<1> QED
  <2> HIDE DEF W
  <2>1. \A n \in 0 .. max : W[n] = ContentStep(loose, inside, W, n)
    BY <1>2
  <2> QED
    BY <2>1 DEF W

\* What the scanner relies on: tokens that open or close nothing.
Grammar(plain, escaped, loose) ==
  /\ plain \subseteq Token \ {"q", "b"} /\ escaped \subseteq Token
  /\ loose \subseteq Token \ {"{", "}", "q"}

LEMMA TokensAre ==
  /\ "{" \in Token /\ "}" \in Token /\ "q" \in Token /\ "b" \in Token
  /\ "n" \in Token /\ "f" \in Token /\ "x" \in Token
BY DEF Token

LEMMA OneIs ==
  ASSUME NEW c \in Token
  PROVE  One(c) \in Texts /\ Len(One(c)) = 1
BY OneLong DEF One, Texts

LEMMA ThenIs ==
  ASSUME NEW w \in Texts, NEW v \in Texts
  PROVE  Then(w, v) \in Texts /\ Len(Then(w, v)) = Len(w) + Len(v)
BY ConcatProperties DEF Texts, Then

LEMMA EmptyIs == <<>> \in Texts /\ Len(<<>>) = 0
BY DEF Texts

LEMMA JoinedUp ==
  ASSUME NEW w, NEW s, NEW c, NEW d
  PROVE  /\ w \o <<c>> = Then(w, One(c))
         /\ <<c>> \o w \o <<d>> = Then(Then(One(c), w), One(d))
         /\ w \o <<c>> \o s \o <<d>> = Then(Then(Then(w, One(c)), s), One(d))
BY DEF Then, One

LEMMA Pair ==
  ASSUME NEW S, NEW c \in S, NEW d \in S
  PROVE  <<c, d>> \in Seq(S) /\ <<c>> \in Seq(S) /\ <<d>> \in Seq(S) /\ <<c, d>> = <<c>> \o <<d>>
<1>1. <<c, d>> \in Seq(S) /\ <<c>> \in Seq(S) /\ <<d>> \in Seq(S)
  OBVIOUS
<1>2. <<c, d>> = Append(<<c>>, d)
  OBVIOUS
<1>3. Append(<<c>>, d) = <<c>> \o <<d>>
  BY <1>1, AppendIsConcat
<1> QED
  BY <1>1, <1>2, <1>3

LEMMA TwoMore ==
  ASSUME NEW w \in Texts, NEW c \in Token, NEW d \in Token
  PROVE  w \o <<c, d>> = Then(Then(w, One(c)), One(d))
<1>1. <<c>> \in Seq(Token) /\ <<d>> \in Seq(Token) /\ <<c, d>> = <<c>> \o <<d>>
  BY Pair
<1>3. w \o (<<c>> \o <<d>>) = (w \o <<c>>) \o <<d>>
  BY <1>1, ConcatAssociative DEF Texts
<1> QED
  BY <1>1, <1>3 DEF Then, One

LEMMA AppendIs ==
  ASSUME NEW w \in Texts, NEW c \in Token
  PROVE  Append(w, c) = Then(w, One(c))
<1>1. Append(w, c) = w \o <<c>>
  BY AppendIsConcat DEF Texts
<1> QED
  BY <1>1 DEF Then, One

LEMMA OneMore ==
  ASSUME NEW w \in Texts, NEW c \in Token
  PROVE  Then(w, One(c)) \in Texts /\ Len(Then(w, One(c))) = Len(w) + 1
<1>1. PICK u : u = One(c)
  OBVIOUS
<1>2. u \in Texts /\ Len(u) = 1
  BY <1>1, OneIs
<1>3. Then(w, u) \in Texts /\ Len(Then(w, u)) = Len(w) + Len(u)
  BY <1>2, ThenIs
<1> QED
  BY <1>1, <1>2, <1>3

Around(v, l, w, r) == Then(Then(Then(v, One(l)), w), One(r))

Plain(v, c) == Append(v, c)
Escape(v, c) == v \o <<"b", c>>

LEMMA InsideStepHas ==
  ASSUME NEW plain, NEW escaped, NEW words, NEW n \in Nat, NEW w
  PROVE  w \in InsideStep(plain, escaped, words, n) <=>
           \/ n = 0 /\ w = <<>>
           \/ n # 0 /\ \E v \in words[n - 1], c \in plain : w = Plain(v, c)
           \/ n # 0 /\ n # 1 /\ \E v \in words[n - 2], c \in escaped : w = Escape(v, c)
<1> DEFINE plainly == {Plain(v, c) : v \in words[n - 1], c \in plain}
           escaping == {Escape(v, c) : v \in words[n - 2], c \in escaped}
<1>1. InsideStep(plain, escaped, words, n) =
        IF n = 0 THEN {<<>>} ELSE plainly \cup (IF n = 1 THEN {} ELSE escaping)
  BY DEF InsideStep, Plain, Escape
<1>2. w \in plainly <=> \E v \in words[n - 1], c \in plain : w = Plain(v, c)
  OBVIOUS
<1>3. w \in escaping <=> \E v \in words[n - 2], c \in escaped : w = Escape(v, c)
  OBVIOUS
<1> HIDE DEF plainly, escaping
<1>4. w \in InsideStep(plain, escaped, words, n) <=>
           \/ n = 0 /\ w = <<>>
           \/ n # 0 /\ w \in plainly
           \/ n # 0 /\ n # 1 /\ w \in escaping
  BY <1>1
<1> QED
  BY <1>2, <1>3, <1>4, Zenon

LEMMA InsideWords ==
  ASSUME NEW plain, NEW escaped, NEW loose, Grammar(plain, escaped, loose), NEW max \in Nat
  PROVE  \A n \in 0 .. max : \A w \in Inside(plain, escaped, max)[n] : w \in Texts /\ Len(w) = n
<1> DEFINE I == Inside(plain, escaped, max)
           Typed(n) == \A w \in I[n] : w \in Texts /\ Len(w) = n
           T == {n \in Nat : n <= max => Typed(n)}
<1>i. \A n \in 0 .. max : I[n] = InsideStep(plain, escaped, I, n)
  BY InsideIs
<1>g. plain \subseteq Token /\ escaped \subseteq Token /\ "b" \in Token
  BY TokensAre DEF Grammar
<1> HIDE DEF I
<1>1. ASSUME NEW n \in Nat, \A m \in 0 .. n - 1 : m \in T PROVE n \in T
  <2>1. SUFFICES ASSUME n <= max, NEW w \in I[n] PROVE w \in Texts /\ Len(w) = n
    OBVIOUS
  <2>2. w \in InsideStep(plain, escaped, I, n)
    BY <1>i, <2>1
  <2>3. CASE n # 0 /\ \E v \in I[n - 1], c \in plain : w = Plain(v, c)
    <3>1. PICK v \in I[n - 1], c \in plain : w = Plain(v, c)
      BY <2>3
    <3>2. n - 1 \in 0 .. n - 1
      BY <2>3
    <3>3. v \in Texts /\ Len(v) = n - 1
      BY <1>1, <2>1, <3>2
    <3>4. w = Then(v, One(c)) /\ c \in Token
      BY <1>g, <3>1, <3>3, AppendIs DEF Plain
    <3> QED
      BY <3>3, <3>4, OneMore
  <2>4. CASE n # 0 /\ n # 1 /\ \E v \in I[n - 2], c \in escaped : w = Escape(v, c)
    <3>1. PICK v \in I[n - 2], c \in escaped : w = Escape(v, c)
      BY <2>4
    <3>2. n - 2 \in 0 .. n - 1
      BY <2>4
    <3>3. v \in Texts /\ Len(v) = n - 2
      BY <1>1, <2>1, <3>2
    <3>4. w = Then(Then(v, One("b")), One(c)) /\ c \in Token
      BY <1>g, <3>1, <3>3, TwoMore DEF Escape
    <3>5. Then(v, One("b")) \in Texts /\ Len(Then(v, One("b"))) = n - 1
      BY <1>g, <3>3, OneMore
    <3> QED
      BY <3>4, <3>5, OneMore
  <2>5. w \in InsideStep(plain, escaped, I, n) <=>
           \/ n = 0 /\ w = <<>>
           \/ n # 0 /\ \E v \in I[n - 1], c \in plain : w = Plain(v, c)
           \/ n # 0 /\ n # 1 /\ \E v \in I[n - 2], c \in escaped : w = Escape(v, c)
    BY InsideStepHas
  <2>6. CASE n = 0 /\ w = <<>>
    BY <2>6, EmptyIs
  <2> QED
    BY <2>2, <2>3, <2>4, <2>5, <2>6, Zenon
<1>2. Nat \subseteq T
  <2> HIDE DEF T
  <2> QED
    BY <1>1, Induction
<1> QED
  BY <1>2 DEF I

LEMMA InsideCases ==
  ASSUME NEW plain, NEW escaped, NEW loose, Grammar(plain, escaped, loose), NEW max \in Nat,
         NEW n \in 0 .. max, NEW w
  PROVE  w \in Inside(plain, escaped, max)[n] <=>
           \/ n = 0 /\ w = <<>>
           \/ n # 0 /\ \E v \in Inside(plain, escaped, max)[n - 1], c \in plain : w = Then(v, One(c))
           \/ n # 0 /\ n # 1 /\ \E v \in Inside(plain, escaped, max)[n - 2], c \in escaped :
                                   w = Then(Then(v, One("b")), One(c))
<1> DEFINE I == Inside(plain, escaped, max)
<1>i. I[n] = InsideStep(plain, escaped, I, n)
  BY InsideIs
<1>t. \A m \in 0 .. max : \A v \in I[m] : v \in Texts
  BY InsideWords
<1>g. plain \subseteq Token /\ escaped \subseteq Token /\ "b" \in Token
  BY TokensAre DEF Grammar
<1> HIDE DEF I
<1>1. w \in I[n] <=> \/ n = 0 /\ w = <<>>
                     \/ n # 0 /\ \E v \in I[n - 1], c \in plain : w = Plain(v, c)
                     \/ n # 0 /\ n # 1 /\ \E v \in I[n - 2], c \in escaped : w = Escape(v, c)
  <2>1. w \in InsideStep(plain, escaped, I, n) <=>
           \/ n = 0 /\ w = <<>>
           \/ n # 0 /\ \E v \in I[n - 1], c \in plain : w = Plain(v, c)
           \/ n # 0 /\ n # 1 /\ \E v \in I[n - 2], c \in escaped : w = Escape(v, c)
    BY InsideStepHas
  <2> QED
    BY <1>i, <2>1, Zenon
<1>2. ASSUME n # 0, NEW v \in I[n - 1], NEW c \in plain PROVE Plain(v, c) = Then(v, One(c))
  <2>1. n - 1 \in 0 .. max
    BY <1>2
  <2> QED
    BY <1>g, <1>t, <2>1, AppendIs DEF Plain
<1>3. ASSUME n # 0, n # 1, NEW v \in I[n - 2], NEW c \in escaped
      PROVE  Escape(v, c) = Then(Then(v, One("b")), One(c))
  <2>1. n - 2 \in 0 .. max
    BY <1>3
  <2> QED
    BY <1>g, <1>t, <2>1, TwoMore DEF Escape
<1>4. w \in I[n] <=> \/ n = 0 /\ w = <<>>
                     \/ n # 0 /\ \E v \in I[n - 1], c \in plain : w = Then(v, One(c))
                     \/ n # 0 /\ n # 1 /\ \E v \in I[n - 2], c \in escaped :
                                             w = Then(Then(v, One("b")), One(c))
  BY <1>1, <1>2, <1>3
<1> QED
  BY <1>4 DEF I

\* The four shapes of a word between braces.
Shaped(loose, I, C, n, w) ==
  \/ n = 0 /\ w = <<>>
  \/ n # 0 /\ \E v \in C[n - 1], c \in loose : w = Then(v, One(c))
  \/ \E k \in 0 .. n - 2 : \E v \in C[n - k - 2], s \in I[k] : w = Around(v, "q", s, "q")
  \/ \E k \in 0 .. n - 2 : \E v \in C[n - k - 2], o \in C[k] : w = Around(v, "{", o, "}")

LEMMA ContentCases ==
  ASSUME NEW plain, NEW escaped, NEW loose, NEW max \in Nat, NEW n \in 0 .. max, NEW w
  PROVE  w \in Content(plain, escaped, loose, max)[n] <=>
           Shaped(loose, Inside(plain, escaped, max), Content(plain, escaped, loose, max), n, w)
<1> DEFINE I == Inside(plain, escaped, max)
           C == Content(plain, escaped, loose, max)
<1>i. C[n] = ContentStep(loose, I, C, n)
  BY ContentIs
<1> HIDE DEF I, C
<1>1. w \in C[n] <=> \/ n = 0 /\ w = <<>>
                     \/ n # 0 /\ (w \in Loosely(C, loose, n) \/ w \in Strings(C, I, n) \/ w \in Objects(C, n))
  BY <1>i, ContentStepIs
<1>2. w \in Loosely(C, loose, n) <=> \E v \in C[n - 1], c \in loose : w = Then(v, One(c))
  BY DEF Loosely, Then, One
<1>3. w \in Strings(C, I, n) <=> \E k \in 0 .. n - 2 : \E v \in C[n - k - 2], s \in I[k] :
                                    w = Around(v, "q", s, "q")
  <2> DEFINE H(k) == {Around(v, "q", s, "q") : v \in C[n - k - 2], s \in I[k]}
  <2>1. Strings(C, I, n) = UNION {H(k) : k \in 0 .. n - 2}
    BY DEF Strings, Around, Then, One
  <2>2. \A k : w \in H(k) <=> \E v \in C[n - k - 2], s \in I[k] : w = Around(v, "q", s, "q")
    OBVIOUS
  <2>3. w \in Strings(C, I, n) <=> \E k \in 0 .. n - 2 : w \in H(k)
    <3> HIDE DEF H
    <3> QED
      BY <2>1
  <2> HIDE DEF H
  <2> QED
    BY <2>2, <2>3
<1>4. w \in Objects(C, n) <=> \E k \in 0 .. n - 2 : \E v \in C[n - k - 2], o \in C[k] :
                                 w = Around(v, "{", o, "}")
  <2> DEFINE H(k) == {Around(v, "{", o, "}") : v \in C[n - k - 2], o \in C[k]}
  <2>1. Objects(C, n) = UNION {H(k) : k \in 0 .. n - 2}
    BY DEF Objects, Around, Then, One
  <2>2. \A k : w \in H(k) <=> \E v \in C[n - k - 2], o \in C[k] : w = Around(v, "{", o, "}")
    OBVIOUS
  <2>3. w \in Objects(C, n) <=> \E k \in 0 .. n - 2 : w \in H(k)
    <3> HIDE DEF H
    <3> QED
      BY <2>1
  <2> HIDE DEF H
  <2> QED
    BY <2>2, <2>3
<1>5. n = 0 => 0 .. n - 2 = {}
  OBVIOUS
<1> QED
  BY <1>1, <1>2, <1>3, <1>4, <1>5 DEF I, C, Shaped

-----------------------------------------------------------------------------
(* The pieces of a text that are words.                                    *)

LEMMA JoinLast ==
  ASSUME NEW t \in Texts, NEW a \in Nat, NEW b \in Nat, a < b, b <= Len(t)
  PROVE  Piece(t, a, b) = Then(Piece(t, a, b - 1), One(t[b]))
<1>1. PICK m : m = b - 1
  OBVIOUS
<1>2. Len(t) \in Nat /\ m \in Nat /\ a <= m /\ m <= b /\ m < Len(t) /\ m + 1 = b
  BY <1>1, LenProperties DEF Texts
<1>3. Piece(t, a, m) \o Piece(t, m, b) = Piece(t, a, b)
  BY <1>2, Joined
<1>4. Piece(t, m, b) = <<t[b]>>
  <2>1. Piece(t, m, m + 1) = <<t[m + 1]>>
    BY <1>2, OneToken
  <2> QED
    BY <1>2, <2>1
<1> QED
  BY <1>1, <1>3, <1>4 DEF Then, One

LEMMA CutAround ==
  ASSUME NEW t \in Texts, NEW a \in Nat, NEW b \in Nat, a <= b, b <= Len(t),
         NEW v \in Texts, NEW w \in Texts, NEW l \in Token, NEW r \in Token,
         Piece(t, a, b) = Around(v, l, w, r)
  PROVE  \E m \in a .. b - 2 :
           /\ Len(v) = m - a /\ Len(w) = b - 2 - m
           /\ v = Piece(t, a, m) /\ t[m + 1] = l /\ w = Piece(t, m + 1, b - 1) /\ t[b] = r
<1>m. PICK m : m = a + Len(v)
  OBVIOUS
<1>1. PICK vl : vl = Then(v, One(l))
  OBVIOUS
<1>2. vl \in Texts /\ Len(vl) = Len(v) + 1
  BY <1>1, OneMore
<1>3. PICK vlw : vlw = Then(vl, w)
  OBVIOUS
<1>4. vlw \in Texts
  BY <1>2, <1>3, ThenIs
<1>5. Piece(t, a, b) = Then(vlw, One(r))
  BY <1>1, <1>3 DEF Around
<1>6. PICK c : c = b - 1
  OBVIOUS
<1>7. a < b /\ c \in Nat /\ vlw = Piece(t, a, c) /\ t[b] = r
  BY <1>4, <1>5, <1>6, CutLast
<1>8. /\ Len(t) \in Nat /\ Len(v) \in Nat /\ Len(vl) \in Nat /\ Len(w) \in Nat
      /\ a <= c /\ c <= Len(t)
  BY <1>2, <1>6, <1>7, LenProperties DEF Texts
<1>9. PICK k : k = a + Len(vl)
  OBVIOUS
<1>10. k \in Nat /\ a <= k /\ k <= c /\ Len(w) = c - k /\ vl = Piece(t, a, k) /\ w = Piece(t, k, c)
  <2>1. Piece(t, a, c) = Then(vl, w) /\ c \in Nat /\ a <= c /\ c <= Len(t) /\ vl \in Texts
    BY <1>2, <1>3, <1>7, <1>8
  <2> QED
    <3>1. k \in Nat /\ a <= k /\ k <= c /\ vl = Piece(t, a, k) /\ w = Piece(t, k, c)
      BY <1>9, <2>1, Cut
    <3>2. Len(Piece(t, k, c)) = c - k
      BY <2>1, <3>1, PieceIs
    <3> QED
      BY <3>1, <3>2
<1>11. k = m + 1 /\ m \in Nat
  BY <1>2, <1>8, <1>9, <1>m
<1>12. a < k /\ v = Piece(t, a, k - 1) /\ t[k] = l
  <2>1. Piece(t, a, k) = Then(v, One(l)) /\ k \in Nat /\ a <= k /\ k <= Len(t)
    BY <1>1, <1>7, <1>8, <1>10
  <2> QED
    BY <2>1, CutLast
<1>13. m \in a .. b - 2 /\ Len(w) = b - 2 - m /\ k - 1 = m /\ Len(v) = m - a
  <2>1. a < k /\ k = m + 1 /\ k <= c /\ c = b - 1 /\ Len(w) = c - k /\ m \in Nat
    BY <1>6, <1>10, <1>11, <1>12
  <2>2. m = a + Len(v) /\ Len(v) \in Nat
    BY <1>8, <1>m
  <2> QED
    BY <2>1, <2>2
<1>14. v = Piece(t, a, m) /\ t[m + 1] = l /\ w = Piece(t, m + 1, b - 1) /\ t[b] = r
  BY <1>6, <1>7, <1>10, <1>11, <1>12, <1>13
<1> QED
  BY <1>13, <1>14

LEMMA JoinAround ==
  ASSUME NEW t \in Texts, NEW a \in Nat, NEW m \in Nat, NEW b \in Nat, a <= m, m + 2 <= b, b <= Len(t)
  PROVE  Piece(t, a, b) = Around(Piece(t, a, m), t[m + 1], Piece(t, m + 1, b - 1), t[b])
<1>1. PICK k, c : k = m + 1 /\ c = b - 1
  OBVIOUS
<1>2. /\ Len(t) \in Nat /\ k \in Nat /\ c \in Nat /\ k - 1 = m
      /\ a < k /\ a <= k /\ k <= c /\ c <= Len(t) /\ k <= Len(t) /\ a < b
  BY <1>1, LenProperties DEF Texts
<1>3. Piece(t, a, b) = Then(Piece(t, a, b - 1), One(t[b]))
  BY <1>2, JoinLast
<1>4. Piece(t, a, c) = Then(Piece(t, a, k), Piece(t, k, c))
  BY <1>2, Joined DEF Then
<1>5. Piece(t, a, k) = Then(Piece(t, a, k - 1), One(t[k]))
  BY <1>2, JoinLast
<1> QED
  BY <1>1, <1>2, <1>3, <1>4, <1>5 DEF Around

LEMMA PlaceBefore ==
  ASSUME NEW t \in Texts, NEW a \in Nat, NEW b \in Nat, a + 1 < b, b <= Len(t), NEW d, d = b - 1
  PROVE  d \in Nat /\ a < d /\ a <= d /\ d <= Len(t) /\ d - 1 = b - 2
<1>1. PICK l \in Nat : l = Len(t)
  BY LenProperties DEF Texts
<1>2. d \in Nat /\ a < d /\ a <= d /\ d <= l /\ d - 1 = b - 2
  BY <1>1
<1> QED
  BY <1>1, <1>2

\* A piece inside a string, from its end.
LEMMA InsideAt ==
  ASSUME NEW plain, NEW escaped, NEW loose, Grammar(plain, escaped, loose), NEW max \in Nat,
         NEW t \in Texts, NEW a \in Nat, NEW b \in Nat, a <= b, b <= Len(t), b - a <= max
  PROVE  LET I == Inside(plain, escaped, max)
         IN Piece(t, a, b) \in I[b - a] <=>
              \/ a = b
              \/ a < b /\ t[b] \in plain /\ Piece(t, a, b - 1) \in I[b - 1 - a]
              \/ a + 1 < b /\ t[b - 1] = "b" /\ t[b] \in escaped /\ Piece(t, a, b - 2) \in I[b - 2 - a]
<1> DEFINE I == Inside(plain, escaped, max)
<1>n. PICK n : n = b - a
  OBVIOUS
<1>p. PICK p : p = Piece(t, a, b)
  OBVIOUS
<1>0. n \in 0 .. max /\ n \in Nat /\ Len(t) \in Nat /\ p \in Texts /\ Len(p) = n
  <2>1. n \in 0 .. max /\ n \in Nat
    BY <1>n
  <2>2. Len(t) \in Nat
    BY LenProperties DEF Texts
  <2>3. p \in Texts /\ Len(p) = b - a
    BY <1>p, PieceIs
  <2> QED
    BY <1>n, <2>1, <2>2, <2>3
<1>g. plain \subseteq Token /\ escaped \subseteq Token /\ "b" \in Token
  BY TokensAre DEF Grammar
<1>t. \A k \in 0 .. max : \A w \in I[k] : w \in Texts /\ Len(w) = k
  BY InsideWords
<1>1. p \in I[n] <=>
        \/ n = 0 /\ p = <<>>
        \/ n # 0 /\ \E v \in I[n - 1], c \in plain : p = Then(v, One(c))
        \/ n # 0 /\ n # 1 /\ \E v \in I[n - 2], c \in escaped : p = Then(Then(v, One("b")), One(c))
  <2>1. n \in 0 .. max
    BY <1>0
  <2> QED
    BY <2>1, InsideCases
<1> HIDE DEF I
<1>2. n = 0 /\ p = <<>> <=> a = b
  BY <1>0, <1>n, EmptySeq DEF Texts
<1>3. (n # 0 /\ \E v \in I[n - 1], c \in plain : p = Then(v, One(c)))
        <=> a < b /\ t[b] \in plain /\ Piece(t, a, b - 1) \in I[b - 1 - a]
  <2>1. ASSUME n # 0, NEW v \in I[n - 1], NEW c \in plain, p = Then(v, One(c))
        PROVE  a < b /\ t[b] \in plain /\ Piece(t, a, b - 1) \in I[b - 1 - a]
    <3>1. n - 1 \in 0 .. max /\ n - 1 = b - 1 - a
      BY <1>0, <1>n, <2>1
    <3>2. v \in Texts /\ c \in Token
      BY <1>g, <1>t, <3>1
    <3>4. Piece(t, a, b) = Then(v, One(c))
      BY <1>p, <2>1
    <3>3. a < b /\ v = Piece(t, a, b - 1) /\ t[b] = c
      BY <3>2, <3>4, CutLast
    <3> QED
      BY <3>1, <3>3
  <2>2. ASSUME a < b, t[b] \in plain, Piece(t, a, b - 1) \in I[b - 1 - a]
        PROVE  n # 0 /\ \E v \in I[n - 1], c \in plain : p = Then(v, One(c))
    <3>1. n # 0 /\ n - 1 = b - 1 - a
      BY <1>n, <2>2
    <3>2. p = Then(Piece(t, a, b - 1), One(t[b]))
      BY <1>p, <2>2, JoinLast
    <3> QED
      BY <2>2, <3>1, <3>2
  <2> QED
    BY <2>1, <2>2
<1>4. (n # 0 /\ n # 1 /\ \E v \in I[n - 2], c \in escaped : p = Then(Then(v, One("b")), One(c)))
        <=> a + 1 < b /\ t[b - 1] = "b" /\ t[b] \in escaped /\ Piece(t, a, b - 2) \in I[b - 2 - a]
  <2>1. ASSUME n # 0, n # 1, NEW v \in I[n - 2], NEW c \in escaped, p = Then(Then(v, One("b")), One(c))
        PROVE  a + 1 < b /\ t[b - 1] = "b" /\ t[b] \in escaped /\ Piece(t, a, b - 2) \in I[b - 2 - a]
    <3>1. n - 2 \in 0 .. max /\ n - 2 = b - 2 - a /\ a + 1 < b
      BY <1>0, <1>n, <2>1
    <3>2. v \in Texts /\ c \in Token /\ Then(v, One("b")) \in Texts
      BY <1>g, <1>t, <3>1, OneMore
    <3>8. Piece(t, a, b) = Then(Then(v, One("b")), One(c))
      BY <1>p, <2>1
    <3>10. PICK w \in Texts : w = Then(v, One("b"))
      BY <3>2
    <3>11. c \in Token /\ Piece(t, a, b) = Then(w, One(c))
      BY <3>2, <3>8, <3>10
    <3>12. b - 1 \in Nat /\ w = Piece(t, a, b - 1) /\ t[b] = c
      BY <3>11, CutLast
    <3>3. Then(v, One("b")) = Piece(t, a, b - 1) /\ t[b] = c
      BY <3>10, <3>12
    <3>4. PICK d : d = b - 1
      OBVIOUS
    <3>9. d \in Nat /\ a <= d /\ d <= Len(t)
      BY <3>1, <3>4, PlaceBefore
    <3>5. d \in Nat /\ a <= d /\ d <= Len(t) /\ Piece(t, a, d) = Then(v, One("b"))
      BY <3>3, <3>4, <3>9
    <3>6. v = Piece(t, a, d - 1) /\ t[d] = "b"
      BY <1>g, <3>2, <3>5, CutLast
    <3>7. d - 1 = b - 2
      BY <3>4
    <3> QED
      BY <3>1, <3>3, <3>4, <3>6, <3>7
  <2>2. ASSUME a + 1 < b, t[b - 1] = "b", t[b] \in escaped, Piece(t, a, b - 2) \in I[b - 2 - a]
        PROVE  n # 0 /\ n # 1 /\ \E v \in I[n - 2], c \in escaped : p = Then(Then(v, One("b")), One(c))
    <3>1. n # 0 /\ n # 1 /\ n - 2 = b - 2 - a /\ a < b
      BY <1>n, <2>2
    <3>2. p = Then(Piece(t, a, b - 1), One(t[b]))
      BY <1>p, <3>1, JoinLast
    <3>4. PICK d : d = b - 1
      OBVIOUS
    <3>5. d \in Nat /\ a < d /\ d <= Len(t) /\ d - 1 = b - 2
      BY <2>2, <3>4, PlaceBefore
    <3>6. Piece(t, a, d) = Then(Piece(t, a, d - 1), One(t[d]))
      BY <3>5, JoinLast
    <3>7. p = Then(Then(Piece(t, a, b - 2), One("b")), One(t[b]))
      BY <2>2, <3>2, <3>4, <3>5, <3>6
    <3> QED
      BY <2>2, <3>1, <3>7
  <2> QED
    BY <2>1, <2>2
<1> QED
  BY <1>1, <1>2, <1>3, <1>4, <1>n, <1>p DEF I

LEMMA AroundLength ==
  ASSUME NEW v \in Texts, NEW w \in Texts, NEW l \in Token, NEW r \in Token
  PROVE  Around(v, l, w, r) \in Texts /\ Len(Around(v, l, w, r)) = Len(v) + Len(w) + 2
<1>1. PICK vl : vl = Then(v, One(l))
  OBVIOUS
<1>2. vl \in Texts /\ Len(vl) = Len(v) + 1
  BY <1>1, OneMore
<1>3. PICK vlw : vlw = Then(vl, w)
  OBVIOUS
<1>4. vlw \in Texts /\ Len(vlw) = Len(vl) + Len(w)
  BY <1>2, <1>3, ThenIs
<1>5. Then(vlw, One(r)) \in Texts /\ Len(Then(vlw, One(r))) = Len(vlw) + 1
  BY <1>4, OneMore
<1>6. Around(v, l, w, r) = Then(vlw, One(r))
  BY <1>1, <1>3 DEF Around
<1>7. Len(v) \in Nat /\ Len(w) \in Nat
  BY LenProperties DEF Texts
<1> QED
  BY <1>2, <1>4, <1>5, <1>6, <1>7

LEMMA ContentWords ==
  ASSUME NEW plain, NEW escaped, NEW loose, Grammar(plain, escaped, loose), NEW max \in Nat
  PROVE  \A n \in 0 .. max : \A w \in Content(plain, escaped, loose, max)[n] : w \in Texts /\ Len(w) = n
<1> DEFINE I == Inside(plain, escaped, max)
           C == Content(plain, escaped, loose, max)
           Typed(n) == \A w \in C[n] : w \in Texts /\ Len(w) = n
           T == {n \in Nat : n <= max => Typed(n)}
<1>i. \A k \in 0 .. max : \A s \in I[k] : s \in Texts /\ Len(s) = k
  BY InsideWords
<1>g. loose \subseteq Token
  BY DEF Grammar
<1>1. ASSUME NEW n \in Nat, \A m \in 0 .. n - 1 : m \in T PROVE n \in T
  <2>1. SUFFICES ASSUME n <= max, NEW w \in C[n] PROVE w \in Texts /\ Len(w) = n
    OBVIOUS
  <2>2. n \in 0 .. max
    BY <2>1
  <2>3. \/ n = 0 /\ w = <<>>
        \/ n # 0 /\ \E v \in C[n - 1], c \in loose : w = Then(v, One(c))
        \/ \E k \in 0 .. n - 2 : \E v \in C[n - k - 2], s \in I[k] : w = Around(v, "q", s, "q")
        \/ \E k \in 0 .. n - 2 : \E v \in C[n - k - 2], o \in C[k] : w = Around(v, "{", o, "}")
    <3>1. Shaped(loose, I, C, n, w)
      BY <2>1, <2>2, ContentCases
    <3> HIDE DEF I, C
    <3> QED
      BY <3>1 DEF Shaped
  <2> HIDE DEF I, C
  <2>s. ASSUME NEW m \in 0 .. n - 1, NEW v \in C[m] PROVE v \in Texts /\ Len(v) = m
    <3>1. m \in T
      BY <1>1
    <3> QED
      BY <2>1, <2>s, <3>1
  <2>4. CASE n = 0 /\ w = <<>>
    BY <2>4, EmptyIs
  <2>5. CASE n # 0 /\ \E v \in C[n - 1], c \in loose : w = Then(v, One(c))
    <3>1. PICK v \in C[n - 1], c \in loose : w = Then(v, One(c))
      BY <2>5
    <3>2. n - 1 \in 0 .. n - 1
      BY <2>5
    <3>3. v \in Texts /\ Len(v) = n - 1
      BY <2>s, <3>2
    <3> QED
      BY <1>g, <3>1, <3>3, OneMore
  <2>6. ASSUME NEW k \in 0 .. n - 2, NEW v \in C[n - k - 2], NEW s \in Texts, Len(s) = k,
               NEW l \in Token, NEW r \in Token, w = Around(v, l, s, r)
        PROVE  w \in Texts /\ Len(w) = n
    <3>1. n - k - 2 \in 0 .. n - 1
      OBVIOUS
    <3>2. v \in Texts /\ Len(v) = n - k - 2
      BY <2>s, <3>1
    <3>3. Around(v, l, s, r) \in Texts /\ Len(Around(v, l, s, r)) = Len(v) + Len(s) + 2
      BY <3>2, AroundLength
    <3> QED
      BY <2>6, <3>2, <3>3
  <2>7. CASE \E k \in 0 .. n - 2 : \E v \in C[n - k - 2], s \in I[k] : w = Around(v, "q", s, "q")
    <3>1. PICK k \in 0 .. n - 2 : \E v \in C[n - k - 2], s \in I[k] : w = Around(v, "q", s, "q")
      BY <2>7
    <3>2. PICK v \in C[n - k - 2], s \in I[k] : w = Around(v, "q", s, "q")
      BY <3>1
    <3>3. k \in 0 .. max
      BY <2>2
    <3>4. s \in Texts /\ Len(s) = k
      BY <1>i, <3>3
    <3> QED
      BY <2>6, <3>2, <3>4, TokensAre
  <2>8. CASE \E k \in 0 .. n - 2 : \E v \in C[n - k - 2], o \in C[k] : w = Around(v, "{", o, "}")
    <3>1. PICK k \in 0 .. n - 2 : \E v \in C[n - k - 2], o \in C[k] : w = Around(v, "{", o, "}")
      BY <2>8
    <3>2. PICK v \in C[n - k - 2], o \in C[k] : w = Around(v, "{", o, "}")
      BY <3>1
    <3>3. k \in 0 .. n - 1
      OBVIOUS
    <3>4. o \in Texts /\ Len(o) = k
      BY <2>s, <3>3
    <3> QED
      BY <2>6, <3>2, <3>4, TokensAre
  <2> QED
    BY <2>3, <2>4, <2>5, <2>7, <2>8
<1>2. Nat \subseteq T
  <2> HIDE DEF T
  <2> QED
    BY <1>1, Induction
<1> QED
  BY <1>2

Worded(S, max) == \A k \in 0 .. max : \A w \in S[k] : w \in Texts /\ Len(w) = k

\* A piece is a word, a token, a word and a token; and where they are.
Surrounded(S, R, n, p, l, r) ==
  \E k \in 0 .. n - 2 : \E v \in S[n - k - 2], w \in R[k] : p = Around(v, l, w, r)
SurroundedAt(S, R, t, a, b, l, r) ==
  \E m \in a .. b - 2 : /\ t[m + 1] = l /\ t[b] = r
                        /\ Piece(t, a, m) \in S[m - a] /\ Piece(t, m + 1, b - 1) \in R[b - 2 - m]

LEMMA AroundAt ==
  ASSUME NEW max \in Nat, NEW S, NEW R, Worded(S, max), Worded(R, max), NEW l \in Token, NEW r \in Token,
         NEW t \in Texts, NEW a \in Nat, NEW b \in Nat, a <= b, b <= Len(t), NEW n \in 0 .. max, n = b - a
  PROVE  Surrounded(S, R, n, Piece(t, a, b), l, r) <=> SurroundedAt(S, R, t, a, b, l, r)
<1>1. ASSUME NEW k \in 0 .. n - 2, NEW v \in S[n - k - 2], NEW w \in R[k], Piece(t, a, b) = Around(v, l, w, r)
      PROVE  \E m \in a .. b - 2 : /\ t[m + 1] = l /\ t[b] = r
                                   /\ Piece(t, a, m) \in S[m - a] /\ Piece(t, m + 1, b - 1) \in R[b - 2 - m]
  <2>1. k \in 0 .. max /\ n - k - 2 \in 0 .. max
    OBVIOUS
  <2>2. w \in Texts /\ Len(w) = k
    BY <2>1 DEF Worded
  <2>3. v \in Texts /\ Len(v) = n - k - 2
    BY <2>1 DEF Worded
  <2>5. v \in Texts /\ w \in Texts
    BY <2>2, <2>3
  <2>6. PICK m \in a .. b - 2 :
           /\ Len(v) = m - a /\ Len(w) = b - 2 - m
           /\ v = Piece(t, a, m) /\ t[m + 1] = l /\ w = Piece(t, m + 1, b - 1) /\ t[b] = r
    <3>1. Piece(t, a, b) = Around(v, l, w, r)
      BY <1>1
    <3> QED
      BY <2>5, <3>1, CutAround
  <2>7. m - a = n - k - 2 /\ b - 2 - m = k
    BY <2>2, <2>3, <2>6
  <2> QED
    BY <2>6, <2>7
<1>2. ASSUME NEW m \in a .. b - 2, t[m + 1] = l, t[b] = r,
             Piece(t, a, m) \in S[m - a], Piece(t, m + 1, b - 1) \in R[b - 2 - m]
      PROVE  \E k \in 0 .. n - 2 : \E v \in S[n - k - 2], w \in R[k] : Piece(t, a, b) = Around(v, l, w, r)
  <2>1. PICK k : k = b - 2 - m
    OBVIOUS
  <2>2. k \in 0 .. n - 2 /\ n - k - 2 = m - a /\ m \in Nat /\ a <= m /\ m + 2 <= b
    BY <2>1
  <2>3. Piece(t, a, b) = Around(Piece(t, a, m), t[m + 1], Piece(t, m + 1, b - 1), t[b])
    BY <2>2, JoinAround
  <2> QED
    BY <1>2, <2>1, <2>2, <2>3
<1>3. Surrounded(S, R, n, Piece(t, a, b), l, r) => SurroundedAt(S, R, t, a, b, l, r)
  BY <1>1 DEF Surrounded, SurroundedAt
<1>4. SurroundedAt(S, R, t, a, b, l, r) => Surrounded(S, R, n, Piece(t, a, b), l, r)
  BY <1>2 DEF Surrounded, SurroundedAt
<1> QED
  BY <1>3, <1>4

\* A piece between braces, from its end.
LEMMA ContentAt ==
  ASSUME NEW plain, NEW escaped, NEW loose, Grammar(plain, escaped, loose), NEW max \in Nat,
         NEW t \in Texts, NEW a \in Nat, NEW b \in Nat, a <= b, b <= Len(t), b - a <= max
  PROVE  LET I == Inside(plain, escaped, max)
             C == Content(plain, escaped, loose, max)
         IN Piece(t, a, b) \in C[b - a] <=>
              \/ a = b
              \/ a < b /\ t[b] \in loose /\ Piece(t, a, b - 1) \in C[b - 1 - a]
              \/ SurroundedAt(C, I, t, a, b, "q", "q")
              \/ SurroundedAt(C, C, t, a, b, "{", "}")
<1> DEFINE I == Inside(plain, escaped, max)
           C == Content(plain, escaped, loose, max)
<1>n. PICK n : n = b - a
  OBVIOUS
<1>p. PICK p : p = Piece(t, a, b)
  OBVIOUS
<1>0. n \in 0 .. max /\ n \in Nat /\ Len(t) \in Nat /\ p \in Texts /\ Len(p) = n
  <2>1. n \in 0 .. max /\ n \in Nat
    BY <1>n
  <2>2. Len(t) \in Nat
    BY LenProperties DEF Texts
  <2>3. p \in Texts /\ Len(p) = b - a
    BY <1>p, PieceIs
  <2> QED
    BY <1>n, <2>1, <2>2, <2>3
<1>g. loose \subseteq Token /\ "q" \in Token /\ "{" \in Token /\ "}" \in Token
  BY TokensAre DEF Grammar
<1>t. Worded(I, max) /\ Worded(C, max)
  BY InsideWords, ContentWords DEF Worded
<1>1. p \in C[n] <=>
        \/ n = 0 /\ p = <<>>
        \/ n # 0 /\ \E v \in C[n - 1], c \in loose : p = Then(v, One(c))
        \/ Surrounded(C, I, n, p, "q", "q")
        \/ Surrounded(C, C, n, p, "{", "}")
  <2>1. n \in 0 .. max
    BY <1>0
  <2>2. p \in C[n] <=> Shaped(loose, I, C, n, p)
    BY <2>1, ContentCases
  <2> HIDE DEF I, C
  <2> QED
    BY <2>2 DEF Shaped, Surrounded
<1> HIDE DEF I, C
<1>2. n = 0 /\ p = <<>> <=> a = b
  BY <1>0, <1>n, EmptySeq DEF Texts
<1>3. (n # 0 /\ \E v \in C[n - 1], c \in loose : p = Then(v, One(c)))
        <=> a < b /\ t[b] \in loose /\ Piece(t, a, b - 1) \in C[b - 1 - a]
  <2>1. ASSUME n # 0, NEW v \in C[n - 1], NEW c \in loose, p = Then(v, One(c))
        PROVE  a < b /\ t[b] \in loose /\ Piece(t, a, b - 1) \in C[b - 1 - a]
    <3>1. n - 1 \in 0 .. max /\ n - 1 = b - 1 - a
      BY <1>0, <1>n, <2>1
    <3>2. v \in Texts /\ c \in Token
      BY <1>g, <1>t, <3>1 DEF Worded
    <3>3. Piece(t, a, b) = Then(v, One(c))
      BY <1>p, <2>1
    <3>4. a < b /\ v = Piece(t, a, b - 1) /\ t[b] = c
      BY <3>2, <3>3, CutLast
    <3> QED
      BY <3>1, <3>4
  <2>2. ASSUME a < b, t[b] \in loose, Piece(t, a, b - 1) \in C[b - 1 - a]
        PROVE  n # 0 /\ \E v \in C[n - 1], c \in loose : p = Then(v, One(c))
    <3>1. n # 0 /\ n - 1 = b - 1 - a
      BY <1>n, <2>2
    <3>2. p = Then(Piece(t, a, b - 1), One(t[b]))
      BY <1>p, <2>2, JoinLast
    <3> QED
      BY <2>2, <3>1, <3>2
  <2> QED
    BY <2>1, <2>2
<1>4. Surrounded(C, I, n, Piece(t, a, b), "q", "q") <=> SurroundedAt(C, I, t, a, b, "q", "q")
  <2>1. n \in 0 .. max
    BY <1>0
  <2> QED
    BY <1>g, <1>n, <1>t, <2>1, AroundAt
<1>5. Surrounded(C, C, n, Piece(t, a, b), "{", "}") <=> SurroundedAt(C, C, t, a, b, "{", "}")
  <2>1. n \in 0 .. max
    BY <1>0
  <2> QED
    BY <1>g, <1>n, <1>t, <2>1, AroundAt
<1> QED
  BY <1>1, <1>2, <1>3, <1>4, <1>5, <1>n, <1>p DEF I, C

-----------------------------------------------------------------------------
(* The scanner.                                                            *)

\* Its state after the i-th token: outside a string at some depth, in one, after a
\* backslash in one, and when an object has ended.
States == [at : Int, depth : Int, string : BOOLEAN, escaped : BOOLEAN, end : Int]

Going(s, i, d)    == s \in States /\ s.at = i + 1 /\ s.depth = d /\ s.end = 0
Outside(s, i, d)  == Going(s, i, d) /\ ~ s.string /\ ~ s.escaped
InString(s, i, d) == Going(s, i, d) /\ s.string /\ ~ s.escaped
Escaped(s, i, d)  == Going(s, i, d) /\ s.string /\ s.escaped
Ended(s, i)       == s \in States /\ s.end = i /\ i # 0

ScanStep(t, start, after, i) ==
  IF i < start THEN [at |-> start, depth |-> 0, string |-> FALSE, escaped |-> FALSE, end |-> 0]
  ELSE Scan(after[i - 1], t[i])

LEMMA ScannedExists ==
  ASSUME NEW t, NEW start \in Nat \ {0}, NEW last \in Nat, start - 1 <= last
  PROVE  \E after : after = [i \in start - 1 .. last |-> ScanStep(t, start, after, i)]
<1> DEFINE Found(k) == \E f : f = [i \in start - 1 .. start - 1 + k |-> ScanStep(t, start, f, i)]
           T == {k \in Nat : Found(k)}
<1>1. ASSUME NEW k \in Nat, \A m \in 0 .. k - 1 : m \in T PROVE k \in T
  <2>1. CASE k = 0
    <3> DEFINE f == [i \in start - 1 .. start - 1 + k |-> ScanStep(t, start, <<>>, i)]
    <3>1. ASSUME NEW i \in start - 1 .. start - 1 + k
          PROVE  ScanStep(t, start, <<>>, i) = ScanStep(t, start, f, i)
      <4>1. i < start
        BY <2>1
      <4> QED
        BY <4>1 DEF ScanStep
    <3>2. f = [i \in start - 1 .. start - 1 + k |-> ScanStep(t, start, f, i)]
      <4> HIDE DEF f
      <4>1. f = [i \in start - 1 .. start - 1 + k |-> ScanStep(t, start, <<>>, i)]
        BY DEF f
      <4> QED
        BY <3>1, <4>1
    <3>3. Found(k)
      <4> HIDE DEF f
      <4> QED
        BY <3>2
    <3> QED
      BY <3>3
  <2>2. CASE k # 0
    <3>1. k - 1 \in 0 .. k - 1
      BY <2>2
    <3>b. PICK b : b = start - 1 + k
      OBVIOUS
    <3>0. b \in Nat /\ start <= b /\ b - 1 = start - 1 + (k - 1)
      BY <2>2, <3>b
    <3>2. PICK f : f = [i \in start - 1 .. b - 1 |-> ScanStep(t, start, f, i)]
      <4>1. Found(k - 1)
        BY <1>1, <3>1
      <4> QED
        BY <3>0, <4>1
    <3> DEFINE g == [i \in start - 1 .. b |-> IF i < b THEN f[i] ELSE ScanStep(t, start, f, b)]
    <3>3. \A i \in start - 1 .. b - 1 : g[i] = f[i]
      BY <3>0
    <3>4. ASSUME NEW i \in start - 1 .. b PROVE ScanStep(t, start, g, i) = ScanStep(t, start, f, i)
      <4> HIDE DEF g
      <4>1. CASE i < start
        BY <4>1 DEF ScanStep
      <4>2. CASE ~ (i < start)
        <5>1. i - 1 \in start - 1 .. b - 1
          BY <3>0, <4>2
        <5>2. g[i - 1] = f[i - 1]
          BY <3>3, <5>1
        <5> QED
          BY <4>2, <5>2 DEF ScanStep
      <4> QED
        BY <4>1, <4>2
    <3>5. ASSUME NEW i \in start - 1 .. b PROVE g[i] = ScanStep(t, start, f, i)
      <4>1. CASE i < b
        <5>1. i \in start - 1 .. b - 1
          BY <3>0, <4>1
        <5>2. f[i] = ScanStep(t, start, f, i)
          BY <3>2, <5>1
        <5> QED
          BY <3>3, <5>1, <5>2
      <4>2. CASE ~ (i < b)
        <5>1. i = b
          BY <3>0, <4>2
        <5> QED
          BY <5>1
      <4> QED
        BY <4>1, <4>2
    <3>6. \A i \in start - 1 .. b : g[i] = ScanStep(t, start, g, i)
      BY <3>4, <3>5
    <3>7. g = [i \in start - 1 .. b |-> ScanStep(t, start, g, i)]
      <4>1. g = [i \in start - 1 .. b |-> g[i]]
        OBVIOUS
      <4> HIDE DEF g
      <4> QED
        BY <3>6, <4>1
    <3>8. Found(k)
      <4> HIDE DEF g
      <4> QED
        BY <3>7, <3>b
    <3> QED
      BY <3>8
  <2> QED
    BY <2>1, <2>2
<1>2. Nat \subseteq T
  <2> HIDE DEF T
  <2> QED
    BY <1>1, Induction
<1>3. PICK k \in Nat : k = last - (start - 1)
  OBVIOUS
<1>4. start - 1 + k = last
  BY <1>3
<1>5. Found(k)
  BY <1>2
<1> QED
  BY <1>4, <1>5

LEMMA ScannedIs ==
  ASSUME NEW t \in Texts, NEW start \in Nat \ {0}, start <= Len(t)
  PROVE  \A i \in start - 1 .. Len(t) : Scanned(t, start)[i] = ScanStep(t, start, Scanned(t, start), i)
<1> DEFINE S == Scanned(t, start)
<1>0. Len(t) \in Nat /\ start - 1 <= Len(t)
  BY LenProperties DEF Texts
<1>1. S = CHOOSE after : after = [i \in start - 1 .. Len(t) |-> ScanStep(t, start, after, i)]
  BY DEF Scanned, ScanStep
<1>2. S = [i \in start - 1 .. Len(t) |-> ScanStep(t, start, S, i)]
  <2> HIDE DEF S
  <2> QED
    BY <1>0, <1>1, ScannedExists
<1> QED
  <2> HIDE DEF S
  <2>1. \A i \in start - 1 .. Len(t) : S[i] = ScanStep(t, start, S, i)
    BY <1>2
  <2> QED
    BY <2>1 DEF S

LEMMA FieldsChange ==
  ASSUME NEW s \in States, NEW q \in BOOLEAN, NEW n \in Int, NEW m \in Int
  PROVE  /\ [s EXCEPT !.at = n] \in States /\ [s EXCEPT !.escaped = q] \in States
         /\ [s EXCEPT !.string = q] \in States /\ [s EXCEPT !.depth = n] \in States
         /\ [s EXCEPT !.depth = n, !.end = m] \in States
<1>1. /\ [s EXCEPT !.at = n] \in States /\ [s EXCEPT !.escaped = q] \in States
      /\ [s EXCEPT !.string = q] \in States /\ [s EXCEPT !.depth = n] \in States
  BY DEF States
<1>2. \A r \in States : [r EXCEPT !.end = m] \in States
  BY DEF States
<1>3. [s EXCEPT !.depth = n, !.end = m] = [[s EXCEPT !.depth = n] EXCEPT !.end = m]
  OBVIOUS
<1> QED
  BY <1>1, <1>2, <1>3

\* What the i-th token makes of the state.
Moves(s, r, i, d, c) ==
  /\ Escaped(s, i - 1, d) => InString(r, i, d)
  /\ InString(s, i - 1, d) => IF c = "b" THEN Escaped(r, i, d)
                              ELSE IF c = "q" THEN Outside(r, i, d) ELSE InString(r, i, d)
  /\ Outside(s, i - 1, d) => IF c = "q" THEN InString(r, i, d)
                             ELSE IF c = "{" THEN Outside(r, i, d + 1)
                             ELSE IF c = "}" THEN (IF d = 1 THEN Ended(r, i) ELSE Outside(r, i, d - 1))
                             ELSE Outside(r, i, d)
  /\ \A k : Ended(s, k) => Ended(r, k)

LEMMA ScanIs ==
  ASSUME NEW s \in States, NEW i \in Nat \ {0}, NEW d \in Int, NEW c \in Token
  PROVE  Moves(s, Scan(s, c), i, d, c)
<1> DEFINE next == [s EXCEPT !.at = @ + 1]
<1>0. /\ next \in States /\ next.at = s.at + 1 /\ next.depth = s.depth
      /\ next.string = s.string /\ next.escaped = s.escaped /\ next.end = s.end
  <2>1. s.at + 1 \in Int
    BY DEF States
  <2>2. next \in States
    BY <2>1, FieldsChange
  <2> QED
    BY <2>2 DEF States
<1>1. ASSUME Escaped(s, i - 1, d) PROVE InString(Scan(s, c), i, d)
  <2>1. s.end = 0 /\ s.string /\ s.escaped /\ s.at = i /\ s.depth = d
    BY <1>1 DEF Escaped, Going
  <2>2. Scan(s, c) = [next EXCEPT !.escaped = FALSE]
    BY <2>1 DEF Scan
  <2> HIDE DEF next
  <2>3. [next EXCEPT !.escaped = FALSE] \in States
    BY <1>0, FieldsChange
  <2> QED
    BY <1>0, <2>1, <2>2, <2>3 DEF InString, Going, States
<1>2. ASSUME InString(s, i - 1, d)
      PROVE  IF c = "b" THEN Escaped(Scan(s, c), i, d)
             ELSE IF c = "q" THEN Outside(Scan(s, c), i, d) ELSE InString(Scan(s, c), i, d)
  <2>1. s.end = 0 /\ s.string /\ ~ s.escaped /\ s.at = i /\ s.depth = d
    BY <1>2 DEF InString, Going
  <2>2. Scan(s, c) = IF c = "b" THEN [next EXCEPT !.escaped = TRUE]
                     ELSE IF c = "q" THEN [next EXCEPT !.string = FALSE] ELSE next
    BY <2>1 DEF Scan
  <2> HIDE DEF next
  <2>3. [next EXCEPT !.escaped = TRUE] \in States /\ [next EXCEPT !.string = FALSE] \in States
    BY <1>0, FieldsChange
  <2>4. CASE c = "b"
    BY <1>0, <2>1, <2>2, <2>3, <2>4 DEF Escaped, Going, States
  <2>5. CASE c = "q"
    BY <1>0, <2>1, <2>2, <2>3, <2>5 DEF Outside, Going, States
  <2>6. CASE c # "b" /\ c # "q"
    BY <1>0, <2>1, <2>2, <2>3, <2>6 DEF InString, Going
  <2> QED
    BY <2>4, <2>5, <2>6
<1>3. ASSUME Outside(s, i - 1, d)
      PROVE  IF c = "q" THEN InString(Scan(s, c), i, d)
             ELSE IF c = "{" THEN Outside(Scan(s, c), i, d + 1)
             ELSE IF c = "}" THEN (IF d = 1 THEN Ended(Scan(s, c), i) ELSE Outside(Scan(s, c), i, d - 1))
             ELSE Outside(Scan(s, c), i, d)
  <2>1. s.end = 0 /\ ~ s.string /\ ~ s.escaped /\ s.at = i /\ s.depth = d
    BY <1>3 DEF Outside, Going
  <2> DEFINE e == IF s.depth = 1 THEN s.at ELSE 0
  <2>2. Scan(s, c) = CASE c = "q" -> [next EXCEPT !.string = TRUE]
                       [] c = "{" -> [next EXCEPT !.depth = @ + 1]
                       [] c = "}" -> [next EXCEPT !.depth = @ - 1, !.end = e]
                       [] OTHER   -> next
    BY <2>1 DEF Scan
  <2>3. e = IF d = 1 THEN i ELSE 0
    BY <2>1
  <2> HIDE DEF next, e
  <2>4. CASE c = "q"
    <3>1. [next EXCEPT !.string = TRUE] \in States
      BY <1>0, FieldsChange
    <3> QED
      BY <1>0, <2>1, <2>2, <2>4, <3>1 DEF InString, Going, States
  <2>5. CASE c = "{"
    <3>1. next.depth + 1 \in Int
      BY <1>0 DEF States
    <3>2. [next EXCEPT !.depth = @ + 1] \in States
      BY <1>0, <3>1, FieldsChange
    <3> QED
      BY <1>0, <2>1, <2>2, <2>5, <3>2 DEF Outside, Going, States
  <2>6. CASE c = "}"
    <3>1. next.depth - 1 \in Int /\ e \in Int
      BY <1>0, <2>3 DEF States
    <3>2. [next EXCEPT !.depth = @ - 1, !.end = e] \in States
      BY <1>0, <3>1, FieldsChange
    <3>3. Scan(s, c) = [next EXCEPT !.depth = @ - 1, !.end = e]
      BY <2>2, <2>6
    <3>4. CASE d = 1
      BY <1>0, <2>1, <2>3, <2>6, <3>2, <3>3, <3>4 DEF Ended, States
    <3>5. CASE d # 1
      BY <1>0, <2>1, <2>3, <2>6, <3>2, <3>3, <3>5 DEF Outside, Going, States
    <3> QED
      BY <2>6, <3>4, <3>5
  <2>7. CASE c \notin {"q", "{", "}"}
    BY <1>0, <2>1, <2>2, <2>7 DEF Outside, Going
  <2> QED
    BY <2>4, <2>5, <2>6, <2>7
<1>4. ASSUME NEW k, Ended(s, k) PROVE Ended(Scan(s, c), k)
  BY <1>4 DEF Scan, Ended
<1> QED
  BY <1>1, <1>2, <1>3, <1>4 DEF Moves

LEMMA ScanNext ==
  ASSUME NEW t \in Texts, NEW start \in Nat \ {0}, start <= Len(t)
  PROVE  /\ Outside(Scanned(t, start)[start - 1], start - 1, 0)
         /\ \A i \in start .. Len(t) : Scanned(t, start)[i] = Scan(Scanned(t, start)[i - 1], t[i])
         /\ \A i \in start .. Len(t) : t[i] \in Token
<1>0. Len(t) \in Nat /\ start - 1 \in start - 1 .. Len(t)
  BY LenProperties DEF Texts
<1>1. \A i \in start - 1 .. Len(t) : Scanned(t, start)[i] = ScanStep(t, start, Scanned(t, start), i)
  BY ScannedIs
<1>2. Scanned(t, start)[start - 1] = [at |-> start, depth |-> 0, string |-> FALSE, escaped |-> FALSE, end |-> 0]
  <2>1. Scanned(t, start)[start - 1] = ScanStep(t, start, Scanned(t, start), start - 1)
    BY <1>0, <1>1
  <2>2. start - 1 < start
    OBVIOUS
  <2> QED
    BY <2>1, <2>2 DEF ScanStep
<1>3. Outside(Scanned(t, start)[start - 1], start - 1, 0)
  BY <1>2 DEF Outside, Going, States
<1>4. ASSUME NEW i \in start .. Len(t) PROVE Scanned(t, start)[i] = Scan(Scanned(t, start)[i - 1], t[i])
  <2>1. i \in start - 1 .. Len(t) /\ ~ (i < start)
    BY <1>0
  <2>2. Scanned(t, start)[i] = ScanStep(t, start, Scanned(t, start), i)
    BY <1>1, <2>1
  <2> QED
    BY <2>1, <2>2 DEF ScanStep
<1>5. \A i \in start .. Len(t) : t[i] \in Token
  BY <1>0, ElementOfSeq DEF Texts
<1> QED
  BY <1>3, <1>4, <1>5

LEMMA ScanMoves ==
  ASSUME NEW t \in Texts, NEW start \in Nat \ {0}, start <= Len(t), NEW i \in start .. Len(t), NEW d \in Int,
         Scanned(t, start)[i - 1] \in States
  PROVE  Moves(Scanned(t, start)[i - 1], Scanned(t, start)[i], i, d, t[i])
<1>1. Scanned(t, start)[i] = Scan(Scanned(t, start)[i - 1], t[i]) /\ t[i] \in Token
  BY ScanNext
<1>2. i \in Nat \ {0}
  BY LenProperties DEF Texts
<1>3. Moves(Scanned(t, start)[i - 1], Scan(Scanned(t, start)[i - 1], t[i]), i, d, t[i])
  BY <1>1, <1>2, ScanIs
<1> QED
  BY <1>1, <1>3

\* The scanner goes on, or has ended at a token it has read.
Reached(s, i, start) ==
  \/ \E d \in Int : Outside(s, i, d) \/ InString(s, i, d) \/ Escaped(s, i, d)
  \/ \E k \in start .. i : Ended(s, k)

LEMMA AlwaysReached ==
  ASSUME NEW t \in Texts, NEW start \in Nat \ {0}, start <= Len(t)
  PROVE  \A i \in start - 1 .. Len(t) : Reached(Scanned(t, start)[i], i, start)
<1> DEFINE S == Scanned(t, start)
           T == {n \in Nat : start - 1 + n <= Len(t) => Reached(S[start - 1 + n], start - 1 + n, start)}
<1>0. Len(t) \in Nat
  BY LenProperties DEF Texts
<1>n. /\ Outside(S[start - 1], start - 1, 0)
      /\ \A i \in start .. Len(t), d \in Int : S[i - 1] \in States => Moves(S[i - 1], S[i], i, d, t[i])
  BY ScanNext, ScanMoves
<1> HIDE DEF S
<1>1. ASSUME NEW n \in Nat, \A m \in 0 .. n - 1 : m \in T PROVE n \in T
  <2> SUFFICES ASSUME start - 1 + n <= Len(t) PROVE Reached(S[start - 1 + n], start - 1 + n, start)
    OBVIOUS
  <2>1. CASE n = 0
    BY <1>n, <2>1 DEF Reached
  <2>2. CASE n # 0
    <3>1. PICK i : i = start - 1 + n
      OBVIOUS
    <3>2. i \in start .. Len(t) /\ i - 1 = start - 1 + (n - 1) /\ n - 1 \in 0 .. n - 1 /\ i \in Nat \ {0}
      BY <2>2, <3>1
    <3>3. Reached(S[i - 1], i - 1, start)
      <4>1. n - 1 \in T /\ start - 1 + (n - 1) <= Len(t)
        BY <1>0, <1>1, <3>2
      <4>2. Reached(S[start - 1 + (n - 1)], start - 1 + (n - 1), start)
        BY <4>1
      <4> HIDE DEF T
      <4> QED
        BY <3>2, <4>2
    <3>5. S[i - 1] \in States
      BY <3>3 DEF Reached, Outside, InString, Escaped, Ended, Going
    <3>4. \A d \in Int : Moves(S[i - 1], S[i], i, d, t[i])
      BY <1>n, <3>2, <3>5
    <3>6. ASSUME NEW k \in start .. i - 1, Ended(S[i - 1], k) PROVE Reached(S[i], i, start)
      <4>0. Moves(S[i - 1], S[i], i, 0, t[i])
        BY <3>4
      <4>1. Ended(S[i], k)
        BY <3>6, <4>0 DEF Moves
      <4>2. k \in start .. i
        BY <3>2
      <4> QED
        BY <4>1, <4>2 DEF Reached
    <3>7. ASSUME NEW d \in Int, Outside(S[i - 1], i - 1, d) PROVE Reached(S[i], i, start)
      <4>1. \/ InString(S[i], i, d) \/ Outside(S[i], i, d + 1) \/ Ended(S[i], i)
            \/ Outside(S[i], i, d - 1) \/ Outside(S[i], i, d)
        BY <3>4, <3>7 DEF Moves
      <4>2. d + 1 \in Int /\ d - 1 \in Int /\ i \in start .. i
        BY <3>2
      <4> QED
        BY <4>1, <4>2 DEF Reached
    <3>8. ASSUME NEW d \in Int, InString(S[i - 1], i - 1, d) PROVE Reached(S[i], i, start)
      <4>1. Escaped(S[i], i, d) \/ Outside(S[i], i, d) \/ InString(S[i], i, d)
        BY <3>4, <3>8 DEF Moves
      <4> QED
        BY <4>1 DEF Reached
    <3>9. ASSUME NEW d \in Int, Escaped(S[i - 1], i - 1, d) PROVE Reached(S[i], i, start)
      <4>1. InString(S[i], i, d)
        BY <3>4, <3>9 DEF Moves
      <4> QED
        BY <4>1 DEF Reached
    <3> QED
      BY <3>1, <3>3, <3>6, <3>7, <3>8, <3>9 DEF Reached
  <2> QED
    BY <2>1, <2>2
<1>2. Nat \subseteq T
  <2> HIDE DEF T
  <2> QED
    BY <1>1, Induction
<1>3. ASSUME NEW i \in start - 1 .. Len(t) PROVE Reached(S[i], i, start)
  <2>1. PICK n : n = i - (start - 1)
    OBVIOUS
  <2>2. n \in Nat /\ start - 1 + n = i /\ i <= Len(t)
    BY <1>0, <2>1
  <2>3. n \in T
    BY <1>2, <2>2
  <2> QED
    BY <2>2, <2>3
<1> QED
  BY <1>3 DEF S

LEMMA ScanInside ==
  ASSUME NEW plain, NEW escaped, NEW loose, Grammar(plain, escaped, loose), NEW max \in Nat,
         NEW t \in Texts, NEW start \in Nat \ {0}, start <= Len(t),
         NEW a \in Nat, start <= a, NEW d \in Int, InString(Scanned(t, start)[a], a, d)
  PROVE  \A b \in a .. Len(t) :
           b - a <= max /\ Piece(t, a, b) \in Inside(plain, escaped, max)[b - a]
             => InString(Scanned(t, start)[b], b, d)
<1> DEFINE S == Scanned(t, start)
           I == Inside(plain, escaped, max)
           T == {n \in Nat : \A b \in a .. Len(t) :
                    b - a = n /\ b - a <= max /\ Piece(t, a, b) \in I[b - a] => InString(S[b], b, d)}
<1>0. Len(t) \in Nat
  BY LenProperties DEF Texts
<1>n. \A i \in start .. Len(t) : S[i - 1] \in States => Moves(S[i - 1], S[i], i, d, t[i])
  BY ScanMoves
<1>g. plain \subseteq Token \ {"q", "b"}
  BY DEF Grammar
<1>i. ASSUME NEW b \in a .. Len(t), b - a <= max, Piece(t, a, b) \in I[b - a]
      PROVE  \/ a = b
             \/ a < b /\ t[b] \in plain /\ Piece(t, a, b - 1) \in I[b - 1 - a]
             \/ a + 1 < b /\ t[b - 1] = "b" /\ t[b] \in escaped /\ Piece(t, a, b - 2) \in I[b - 2 - a]
  <2>1. b \in Nat /\ a <= b /\ b <= Len(t)
    BY <1>0
  <2> QED
    BY <1>i, <2>1, InsideAt
<1>a. InString(S[a], a, d)
  OBVIOUS
<1> HIDE DEF S, I
<1>1. ASSUME NEW n \in Nat, \A m \in 0 .. n - 1 : m \in T PROVE n \in T
  <2>1. SUFFICES ASSUME NEW b \in a .. Len(t), b - a = n, b - a <= max, Piece(t, a, b) \in I[b - a]
                 PROVE  InString(S[b], b, d)
    OBVIOUS
  <2>2. b \in Nat /\ a <= b /\ b <= Len(t)
    BY <1>0
  <2>3. CASE a = b
    BY <1>a, <2>3
  <2>4. CASE a < b /\ t[b] \in plain /\ Piece(t, a, b - 1) \in I[b - 1 - a]
    <3>1. PICK c : c = b - 1
      OBVIOUS
    <3>2. /\ c \in a .. Len(t) /\ c - a \in 0 .. n - 1 /\ c - a <= max /\ b \in start .. Len(t)
          /\ b \in Nat \ {0} /\ b - 1 - a = c - a
      BY <1>0, <2>1, <2>2, <2>4, <3>1
    <3>3. InString(S[c], c, d)
      <4>1. c - a \in T
        BY <1>1, <3>2
      <4>2. Piece(t, a, c) \in I[c - a]
        BY <2>4, <3>1, <3>2
      <4> QED
        BY <3>2, <4>1, <4>2
    <3>4. S[c] \in States
      BY <3>3 DEF InString, Going
    <3>5. Moves(S[b - 1], S[b], b, d, t[b])
      BY <1>n, <3>1, <3>2, <3>4
    <3>6. InString(S[b - 1], b - 1, d) /\ t[b] # "b" /\ t[b] # "q"
      BY <1>g, <2>4, <3>1, <3>3
    <3> QED
      BY <3>5, <3>6 DEF Moves
  <2>5. CASE a + 1 < b /\ t[b - 1] = "b" /\ t[b] \in escaped /\ Piece(t, a, b - 2) \in I[b - 2 - a]
    <3>1. PICK c, e : c = b - 2 /\ e = b - 1
      OBVIOUS
    <3>0. a + 1 < b
      BY <2>5
    <3>2. /\ c \in a .. Len(t) /\ c - a \in 0 .. n - 1 /\ c - a <= max /\ b \in start .. Len(t)
          /\ e \in start .. Len(t) /\ e - 1 = c /\ b - 1 = e
          /\ b - 2 - a = c - a
      BY <1>0, <2>1, <2>2, <3>0, <3>1
    <3>3. InString(S[c], c, d)
      <4>1. c - a \in T
        BY <1>1, <3>2
      <4>2. Piece(t, a, c) \in I[c - a]
        BY <2>5, <3>1, <3>2
      <4> QED
        BY <3>2, <4>1, <4>2
    <3>4. S[c] \in States
      BY <3>3 DEF InString, Going
    <3>5. Moves(S[e - 1], S[e], e, d, t[e])
      BY <1>n, <3>2, <3>4
    <3>6. Escaped(S[e], e, d)
      <4>1. t[e] = "b" /\ InString(S[e - 1], e - 1, d)
        BY <2>5, <3>1, <3>2, <3>3
      <4> QED
        BY <3>5, <4>1 DEF Moves
    <3>7. S[b - 1] \in States /\ Escaped(S[b - 1], b - 1, d)
      BY <3>2, <3>6 DEF Escaped, Going
    <3>8. Moves(S[b - 1], S[b], b, d, t[b])
      BY <1>n, <3>2, <3>7
    <3> QED
      BY <3>7, <3>8 DEF Moves
  <2> QED
    BY <1>i, <2>1, <2>3, <2>4, <2>5
<1>2. Nat \subseteq T
  <2> HIDE DEF T
  <2> QED
    BY <1>1, Induction
<1>3. ASSUME NEW b \in a .. Len(t), b - a <= max, Piece(t, a, b) \in I[b - a] PROVE InString(S[b], b, d)
  <2>1. b - a \in Nat
    OBVIOUS
  <2>2. b - a \in T
    BY <1>2, <2>1
  <2> QED
    BY <1>3, <2>2
<1> QED
  BY <1>3 DEF S, I

LEMMA ScanContent ==
  ASSUME NEW plain, NEW escaped, NEW loose, Grammar(plain, escaped, loose), NEW max \in Nat,
         NEW t \in Texts, NEW start \in Nat \ {0}, start <= Len(t)
  PROVE  \A a, b \in start .. Len(t) : \A d \in Nat \ {0} :
           (/\ a <= b /\ b - a <= max /\ Piece(t, a, b) \in Content(plain, escaped, loose, max)[b - a]
            /\ Outside(Scanned(t, start)[a], a, d))
             => Outside(Scanned(t, start)[b], b, d)
<1> DEFINE S == Scanned(t, start)
           I == Inside(plain, escaped, max)
           C == Content(plain, escaped, loose, max)
           Kept(a, b, d) == b - a <= max /\ Piece(t, a, b) \in C[b - a] /\ Outside(S[a], a, d)
                              => Outside(S[b], b, d)
           T == {n \in Nat : \A a, b \in start .. Len(t) : \A d \in Nat \ {0} : a <= b /\ b - a = n => Kept(a, b, d)}
<1>0. Len(t) \in Nat
  BY LenProperties DEF Texts
<1>n. \A i \in start .. Len(t), d \in Int : S[i - 1] \in States => Moves(S[i - 1], S[i], i, d, t[i])
  BY ScanMoves
<1>g. loose \subseteq Token \ {"{", "}", "q"}
  BY DEF Grammar
<1>s. ASSUME NEW a \in start .. Len(t), NEW b \in a .. Len(t), NEW d \in Int,
             b - a <= max, Piece(t, a, b) \in I[b - a], InString(S[a], a, d)
      PROVE  InString(S[b], b, d)
  <2>1. a \in Nat /\ start <= a
    BY <1>0
  <2> QED
    BY <1>s, <2>1, ScanInside
<1>c. ASSUME NEW a \in start .. Len(t), NEW b \in start .. Len(t), a <= b, b - a <= max, Piece(t, a, b) \in C[b - a]
      PROVE  \/ a = b
             \/ a < b /\ t[b] \in loose /\ Piece(t, a, b - 1) \in C[b - 1 - a]
             \/ SurroundedAt(C, I, t, a, b, "q", "q")
             \/ SurroundedAt(C, C, t, a, b, "{", "}")
  <2>1. a \in Nat /\ b \in Nat /\ b <= Len(t)
    BY <1>0
  <2> QED
    BY <1>c, <2>1, ContentAt
<1> HIDE DEF S, I, C
<1>1. ASSUME NEW n \in Nat, \A m \in 0 .. n - 1 : m \in T PROVE n \in T
  <2>1. SUFFICES ASSUME NEW a \in start .. Len(t), NEW b \in start .. Len(t), NEW d \in Nat \ {0},
                        a <= b, b - a = n, b - a <= max, Piece(t, a, b) \in C[b - a], Outside(S[a], a, d)
                 PROVE  Outside(S[b], b, d)
    OBVIOUS
  <2>h. ASSUME NEW x \in start .. Len(t), NEW y \in start .. Len(t), NEW e \in Nat \ {0},
               x <= y, y - x < n, Piece(t, x, y) \in C[y - x], Outside(S[x], x, e)
        PROVE  Outside(S[y], y, e)
    <3>1. y - x \in 0 .. n - 1 /\ y - x <= max
      BY <1>0, <2>1, <2>h
    <3>2. y - x \in T
      BY <1>1, <3>1
    <3>3. Kept(x, y, e)
      BY <2>h, <3>2
    <3> QED
      BY <2>h, <3>1, <3>3
  <2> HIDE DEF T
  <2>2. CASE a = b
    BY <2>1, <2>2
  <2>3. CASE a < b /\ t[b] \in loose /\ Piece(t, a, b - 1) \in C[b - 1 - a]
    <3>1. PICK c : c = b - 1
      OBVIOUS
    <3>2. c \in start .. Len(t) /\ a <= c /\ c - a < n /\ b - 1 - a = c - a
      BY <1>0, <2>1, <2>3, <3>1
    <3>3. Outside(S[c], c, d)
      <4>1. Piece(t, a, c) \in C[c - a]
        BY <2>3, <3>1, <3>2
      <4> QED
        BY <2>1, <2>h, <3>2, <4>1
    <3>4. S[b - 1] \in States /\ Outside(S[b - 1], b - 1, d) /\ d \in Int
      BY <3>1, <3>3 DEF Outside, Going
    <3>5. Moves(S[b - 1], S[b], b, d, t[b])
      BY <1>n, <3>4
    <3>6. t[b] \notin {"q", "{", "}"}
      BY <1>g, <2>3
    <3> QED
      BY <3>4, <3>5, <3>6 DEF Moves
  <2>4. CASE SurroundedAt(C, I, t, a, b, "q", "q")
    <3>1. PICK m \in a .. b - 2 : /\ t[m + 1] = "q" /\ t[b] = "q"
                                  /\ Piece(t, a, m) \in C[m - a] /\ Piece(t, m + 1, b - 1) \in I[b - 2 - m]
      BY <2>4 DEF SurroundedAt
    <3>2. PICK k, c : k = m + 1 /\ c = b - 1
      OBVIOUS
    <3>3. /\ m \in start .. Len(t) /\ a <= m /\ m - a < n /\ k \in start .. Len(t) /\ c \in k .. Len(t)
          /\ k - 1 = m /\ c - k <= max /\ c - k = b - 2 - m /\ d \in Int
      BY <1>0, <2>1, <3>2
    <3>4. Outside(S[m], m, d)
      BY <2>1, <2>h, <3>1, <3>3
    <3>5. InString(S[k], k, d)
      <4>1. S[k - 1] \in States /\ Outside(S[k - 1], k - 1, d)
        BY <3>3, <3>4 DEF Outside, Going
      <4>2. Moves(S[k - 1], S[k], k, d, t[k])
        BY <1>n, <3>3, <4>1
      <4>3. t[k] = "q"
        BY <3>1, <3>2
      <4> QED
        BY <4>1, <4>2, <4>3 DEF Moves
    <3>6. InString(S[c], c, d)
      <4>1. Piece(t, k, c) \in I[c - k]
        BY <3>1, <3>2, <3>3
      <4> QED
        BY <1>s, <3>3, <3>5, <4>1
    <3>7. S[b - 1] \in States /\ InString(S[b - 1], b - 1, d)
      BY <3>2, <3>6 DEF InString, Going
    <3>8. Moves(S[b - 1], S[b], b, d, t[b])
      BY <1>n, <3>3, <3>7
    <3>9. t[b] # "b" /\ t[b] = "q"
      BY <3>1
    <3> QED
      BY <3>7, <3>8, <3>9 DEF Moves
  <2>5. CASE SurroundedAt(C, C, t, a, b, "{", "}")
    <3>1. PICK m \in a .. b - 2 : /\ t[m + 1] = "{" /\ t[b] = "}"
                                  /\ Piece(t, a, m) \in C[m - a] /\ Piece(t, m + 1, b - 1) \in C[b - 2 - m]
      BY <2>5 DEF SurroundedAt
    <3>2. PICK k, c, e : k = m + 1 /\ c = b - 1 /\ e = d + 1
      OBVIOUS
    <3>3. /\ m \in start .. Len(t) /\ a <= m /\ m - a < n /\ k \in start .. Len(t) /\ c \in start .. Len(t)
          /\ k <= c /\ c - k < n /\ k - 1 = m /\ c - k = b - 2 - m /\ d \in Int
          /\ e \in Nat \ {0} /\ e # 1 /\ e \in Int /\ e - 1 = d
      BY <1>0, <2>1, <3>2
    <3>4. Outside(S[m], m, d)
      BY <2>1, <2>h, <3>1, <3>3
    <3>5. Outside(S[k], k, e)
      <4>1. S[k - 1] \in States /\ Outside(S[k - 1], k - 1, d)
        BY <3>3, <3>4 DEF Outside, Going
      <4>2. Moves(S[k - 1], S[k], k, d, t[k])
        BY <1>n, <3>3, <4>1
      <4>3. t[k] = "{" /\ t[k] # "q"
        BY <3>1, <3>2
      <4> QED
        BY <3>2, <4>1, <4>2, <4>3 DEF Moves
    <3>6. Outside(S[c], c, e)
      <4>1. Piece(t, k, c) \in C[c - k]
        BY <3>1, <3>2, <3>3
      <4> QED
        BY <2>h, <3>3, <3>5, <4>1
    <3>7. S[b - 1] \in States /\ Outside(S[b - 1], b - 1, e)
      BY <3>2, <3>6 DEF Outside, Going
    <3>8. Moves(S[b - 1], S[b], b, e, t[b])
      BY <1>n, <3>3, <3>7
    <3>9. t[b] # "q" /\ t[b] # "{" /\ t[b] = "}"
      BY <3>1
    <3>10. Outside(S[b], b, e - 1)
      BY <3>3, <3>7, <3>8, <3>9 DEF Moves
    <3> QED
      BY <3>3, <3>10
  <2> QED
    BY <1>c, <2>1, <2>2, <2>3, <2>4, <2>5
<1>2. Nat \subseteq T
  <2> HIDE DEF T
  <2> QED
    BY <1>1, Induction
<1>3. ASSUME NEW a \in start .. Len(t), NEW b \in start .. Len(t), NEW d \in Nat \ {0},
             a <= b, b - a <= max, Piece(t, a, b) \in C[b - a], Outside(S[a], a, d)
      PROVE  Outside(S[b], b, d)
  <2>1. b - a \in Nat
    BY <1>0, <1>3
  <2>2. b - a \in T
    BY <1>2, <2>1
  <2>3. Kept(a, b, d)
    BY <1>3, <2>2
  <2> QED
    BY <1>3, <2>3
<1>4. \A a, b \in start .. Len(t) : \A d \in Nat \ {0} :
        a <= b /\ b - a <= max /\ Piece(t, a, b) \in C[b - a] /\ Outside(S[a], a, d) => Outside(S[b], b, d)
  BY <1>3
<1> QED
  BY <1>4 DEF S, C

-----------------------------------------------------------------------------
(* Objects.                                                                *)

Enclosed(w) == <<"{">> \o w \o <<"}">>

LEMMA EnclosedIs ==
  ASSUME NEW w
  PROVE  Enclosed(w) = Around(<<>>, "{", w, "}")
<1>1. <<"{">> \in Texts
  BY OneIs, TokensAre DEF One
<1>2. <<>> \o <<"{">> = <<"{">>
  BY <1>1, ConcatEmptySeq DEF Texts
<1>3. Enclosed(w) = Then(Then(One("{"), w), One("}"))
  BY DEF Enclosed, Then, One
<1>4. Then(<<>>, One("{")) = One("{")
  BY <1>2 DEF Then, One
<1> QED
  BY <1>3, <1>4 DEF Around

\* A piece is a word in braces when its ends are the braces and a word is between.
LEMMA BracedAt ==
  ASSUME NEW max \in Nat, NEW C, Worded(C, max),
         NEW t \in Texts, NEW a \in Nat, NEW b \in Nat, a <= b, b <= Len(t)
  PROVE  (\E n \in 0 .. max : Piece(t, a, b) \in Braced(C[n])) <=>
           /\ a + 2 <= b /\ b - a - 2 <= max /\ t[a + 1] = "{" /\ t[b] = "}"
           /\ Piece(t, a + 1, b - 1) \in C[b - a - 2]
<1>1. \A W, p : p \in Braced(W) <=> \E w \in W : p = Enclosed(w)
  <2>1. \A W : Braced(W) = {Enclosed(w) : w \in W}
    BY DEF Braced, Enclosed
  <2> QED
    BY <2>1
<1>2. ASSUME NEW n \in 0 .. max, Piece(t, a, b) \in Braced(C[n])
      PROVE  /\ a + 2 <= b /\ b - a - 2 <= max /\ t[a + 1] = "{" /\ t[b] = "}"
             /\ Piece(t, a + 1, b - 1) \in C[b - a - 2]
  <2>1. PICK w \in C[n] : Piece(t, a, b) = Around(<<>>, "{", w, "}")
    BY <1>1, <1>2, EnclosedIs
  <2>2. w \in Texts /\ Len(w) = n
    BY DEF Worded
  <2>3. PICK v : v = <<>>
    OBVIOUS
  <2>4. v \in Texts /\ Len(v) = 0
    BY <2>3, EmptyIs
  <2>5. Piece(t, a, b) = Around(v, "{", w, "}") /\ v \in Texts /\ w \in Texts
    BY <2>1, <2>2, <2>3, <2>4
  <2>6. PICK m \in a .. b - 2 :
           /\ Len(v) = m - a /\ Len(w) = b - 2 - m
           /\ v = Piece(t, a, m) /\ t[m + 1] = "{" /\ w = Piece(t, m + 1, b - 1) /\ t[b] = "}"
    <3>1. PICK l \in Token, r \in Token : l = "{" /\ r = "}"
      BY TokensAre
    <3>2. Piece(t, a, b) = Around(v, l, w, r)
      BY <2>5, <3>1
    <3>3. v \in Texts /\ w \in Texts
      BY <2>5
    <3>4. \E m \in a .. b - 2 :
             /\ Len(v) = m - a /\ Len(w) = b - 2 - m
             /\ v = Piece(t, a, m) /\ t[m + 1] = l /\ w = Piece(t, m + 1, b - 1) /\ t[b] = r
      BY <3>2, <3>3, CutAround
    <3> QED
      BY <3>1, <3>4
  <2>7. m = a /\ a + 2 <= b /\ b - a - 2 = n /\ n <= max
    <3>1. m - a = 0 /\ b - 2 - m = n
      BY <2>2, <2>4, <2>6
    <3> QED
      BY <3>1
  <2> QED
    BY <2>6, <2>7
<1>3. ASSUME a + 2 <= b, b - a - 2 <= max, t[a + 1] = "{", t[b] = "}", Piece(t, a + 1, b - 1) \in C[b - a - 2]
      PROVE  \E n \in 0 .. max : Piece(t, a, b) \in Braced(C[n])
  <2>0. a + 2 <= b /\ b - a - 2 <= max
    BY <1>3
  <2>1. b - a - 2 \in 0 .. max
    BY <2>0
  <2>2. Piece(t, a, b) = Around(Piece(t, a, a), t[a + 1], Piece(t, a + 1, b - 1), t[b])
    BY <2>0, JoinAround
  <2>3. Piece(t, a, a) = <<>>
    <3>1. a <= Len(t)
      BY LenProperties DEF Texts
    <3>2. Piece(t, a, a) \in Texts /\ Len(Piece(t, a, a)) = a - a
      BY <3>1, PieceIs
    <3>3. Len(Piece(t, a, a)) = 0
      BY <3>2
    <3> QED
      BY <3>2, <3>3, EmptySeq DEF Texts
  <2>4. Piece(t, a, b) = Enclosed(Piece(t, a + 1, b - 1))
    BY <1>3, <2>2, <2>3, EnclosedIs
  <2>5. Piece(t, a + 1, b - 1) \in C[b - a - 2]
    BY <1>3
  <2>6. \E n \in 0 .. max : Enclosed(Piece(t, a + 1, b - 1)) \in Braced(C[n])
    BY <1>1, <2>1, <2>5
  <2> QED
    BY <2>4, <2>6
<1> QED
  BY <1>2, <1>3

\* Where an object has ended the scanner stays.
LEMMA EndedStays ==
  ASSUME NEW t \in Texts, NEW start \in Nat \ {0}, start <= Len(t), NEW j \in start .. Len(t),
         Ended(Scanned(t, start)[j], j)
  PROVE  Ended(Scanned(t, start)[Len(t)], j)
<1> DEFINE S == Scanned(t, start)
<1>0. Len(t) \in Nat
  BY LenProperties DEF Texts
<1>1. j \in Nat /\ j <= Len(t)
  BY <1>0
<1>n. \A i \in start .. Len(t), d \in Int : S[i - 1] \in States => Moves(S[i - 1], S[i], i, d, t[i])
  BY <1>0, ScanMoves
<1>5. Ended(S[j], j)
  OBVIOUS
<1> HIDE DEF S
<1> DEFINE T == {n \in Nat : j + n <= Len(t) => Ended(S[j + n], j)}
<1>6. ASSUME NEW n \in Nat, \A m \in 0 .. n - 1 : m \in T PROVE n \in T
  <2> SUFFICES ASSUME j + n <= Len(t) PROVE Ended(S[j + n], j)
    OBVIOUS
  <2>1. CASE n = 0
    <3>1. j + n = j
      BY <1>1, <2>1
    <3> QED
      BY <1>5, <3>1
  <2>2. CASE n # 0
    <3>1. PICK i : i = j + n
      OBVIOUS
    <3>2. i \in start .. Len(t) /\ i - 1 = j + (n - 1) /\ n - 1 \in 0 .. n - 1 /\ j + (n - 1) <= Len(t)
      BY <1>0, <1>1, <2>2, <3>1
    <3>3. Ended(S[j + (n - 1)], j)
      BY <1>6, <3>2
    <3> HIDE DEF T
    <3>4. Ended(S[i - 1], j)
      BY <3>2, <3>3
    <3>5. S[i - 1] \in States
      BY <3>4 DEF Ended
    <3>6. Moves(S[i - 1], S[i], i, 0, t[i])
      BY <1>n, <3>2, <3>5
    <3> QED
      BY <3>1, <3>4, <3>6 DEF Moves
  <2> QED
    BY <2>1, <2>2
<1>7. Nat \subseteq T
  <2> HIDE DEF T
  <2> QED
    BY <1>6, Induction
<1>8. Ended(S[Len(t)], j)
  <2>1. PICK n : n = Len(t) - j
    OBVIOUS
  <2>2. n \in Nat /\ j + n = Len(t) /\ j + n <= Len(t)
    BY <1>0, <1>1, <2>1
  <2>3. n \in T
    BY <1>7, <2>2
  <2> QED
    BY <2>2, <2>3
<1> QED
  BY <1>8 DEF S

\* An object at the first brace of what is scanned is where the scanner ends.
LEMMA ScanObject ==
  ASSUME NEW plain, NEW escaped, NEW loose, Grammar(plain, escaped, loose), NEW max \in Nat,
         NEW t \in Texts, NEW start \in Nat \ {0}, NEW j \in start .. Len(t),
         \E n \in 0 .. max : Piece(t, start - 1, j) \in Braced(Content(plain, escaped, loose, max)[n])
  PROVE  Scanned(t, start)[Len(t)].end = j
<1> DEFINE S == Scanned(t, start)
           C == Content(plain, escaped, loose, max)
<1>0. Len(t) \in Nat /\ start <= Len(t)
  BY LenProperties DEF Texts
<1>a. PICK a, c : a = start - 1 /\ c = j - 1
  OBVIOUS
<1>1. a \in Nat /\ a + 1 = start /\ j \in Nat /\ a <= j /\ j <= Len(t)
  BY <1>0, <1>a
<1>w. Worded(C, max)
  BY ContentWords DEF Worded
<1>n. \A i \in start .. Len(t), d \in Int : S[i - 1] \in States => Moves(S[i - 1], S[i], i, d, t[i])
  BY <1>0, ScanMoves
<1>o. Outside(S[start - 1], start - 1, 0)
  BY <1>0, ScanNext
<1>2. /\ a + 2 <= j /\ j - a - 2 <= max /\ t[a + 1] = "{" /\ t[j] = "}"
      /\ Piece(t, a + 1, j - 1) \in C[j - a - 2]
  <2>1. \E n \in 0 .. max : Piece(t, a, j) \in Braced(C[n])
    BY <1>a
  <2> HIDE DEF C
  <2> QED
    BY <1>1, <1>w, <2>1, BracedAt
<1>c. \A x, y \in start .. Len(t) : \A d \in Nat \ {0} :
        x <= y /\ y - x <= max /\ Piece(t, x, y) \in C[y - x] /\ Outside(S[x], x, d) => Outside(S[y], y, d)
  BY <1>0, ScanContent
<1> HIDE DEF S, C
<1>3. Outside(S[start], start, 1)
  <2>1. S[start - 1] \in States
    BY <1>o DEF Outside, Going
  <2>2. start \in start .. Len(t) /\ 0 \in Int
    BY <1>0
  <2>3. Moves(S[start - 1], S[start], start, 0, t[start])
    BY <1>n, <2>1, <2>2
  <2>4. t[start] = "{" /\ t[start] # "q"
    BY <1>1, <1>2
  <2>5. Outside(S[start], start, 0 + 1)
    BY <1>o, <2>3, <2>4 DEF Moves
  <2> QED
    BY <2>5
<1>4. Outside(S[c], c, 1)
  <2>1. start \in start .. Len(t) /\ c \in start .. Len(t) /\ start <= c /\ c - start <= max /\ c - start = j - a - 2
    <3>1. a + 2 <= j /\ j - a - 2 <= max
      BY <1>2
    <3> QED
      BY <1>0, <1>a, <1>1, <3>1
  <2>2. Piece(t, start, c) \in C[c - start]
    BY <1>1, <1>2, <1>a, <2>1
  <2> QED
    BY <1>3, <1>c, <2>1, <2>2
<1>5. Ended(S[j], j)
  <2>1. S[j - 1] \in States /\ Outside(S[j - 1], j - 1, 1)
    BY <1>4, <1>a DEF Outside, Going
  <2>2. Moves(S[j - 1], S[j], j, 1, t[j])
    BY <1>n, <2>1
  <2>3. t[j] = "}" /\ t[j] # "q" /\ t[j] # "{"
    BY <1>2
  <2> QED
    BY <2>1, <2>2, <2>3 DEF Moves
<1>8. Ended(S[Len(t)], j)
  BY <1>0, <1>5, EndedStays DEF S
<1> QED
  BY <1>8 DEF S, Ended

LEMMA GreatestExists ==
  ASSUME NEW n \in Nat, NEW S \in SUBSET (1 .. n), S # {}
  PROVE  \E i \in S : \A j \in S : j <= i
<1> DEFINE R == {k \in Nat : \E i \in S : k = n - i}
<1>1. R # {} /\ R \in SUBSET Nat
  <2>1. PICK i \in S : TRUE
    OBVIOUS
  <2>2. n - i \in Nat
    OBVIOUS
  <2> QED
    BY <2>2
<1>2. PICK k \in R : \A m \in R : k <= m
  <2> HIDE DEF R
  <2> QED
    BY <1>1, LeastExists
<1>3. PICK i \in S : k = n - i
  BY <1>2
<1>4. ASSUME NEW j \in S PROVE j <= i
  <2>1. n - j \in R
    OBVIOUS
  <2>2. k <= n - j
    BY <1>2, <2>1
  <2>3. i \in Nat /\ j \in Nat
    OBVIOUS
  <2> QED
    BY <1>3, <2>2, <2>3
<1> QED
  BY <1>4

-----------------------------------------------------------------------------
(* What is found in a text.                                                *)

LEMMA Places ==
  ASSUME NEW t \in Texts
  PROVE  Len(t) \in Nat /\ DOMAIN t = 1 .. Len(t) /\ \A i \in 1 .. Len(t) : t[i] \in Token
BY LenProperties, ElementOfSeq DEF Texts

LEMMA Whole ==
  ASSUME NEW t \in Texts
  PROVE  Piece(t, 0, Len(t)) = t
<1>1. PICK z, l : z = 0 /\ l = Len(t)
  OBVIOUS
<1>2. z \in Nat /\ l \in Nat /\ z <= l /\ l <= Len(t) /\ l - z = l
  BY <1>1, Places
<1>3. PICK p : p = Piece(t, z, l)
  OBVIOUS
<1>4. p \in Texts /\ Len(p) = Len(t) /\ \A i \in 1 .. Len(t) : p[i] = t[i]
  <2>1. p \in Texts /\ Len(p) = l - z /\ \A i \in 1 .. l - z : p[i] = t[z + i]
    BY <1>2, <1>3, PieceIs
  <2>2. \A i \in 1 .. l : z + i = i
    BY <1>1
  <2> QED
    BY <1>1, <1>2, <2>1, <2>2
<1>5. p = t
  BY <1>4, SameText
<1> QED
  BY <1>1, <1>3, <1>5

LEMMA PieceOfPiece ==
  ASSUME NEW t \in Texts, NEW a \in Nat, NEW b \in Nat, a <= b, b <= Len(t),
         NEW c \in Nat, NEW d \in Nat, c <= d, d <= b - a
  PROVE  Piece(Piece(t, a, b), c, d) = Piece(t, a + c, a + d)
<1>1. PICK p : p = Piece(t, a, b)
  OBVIOUS
<1>2. p \in Texts /\ Len(p) = b - a /\ \A i \in 1 .. b - a : p[i] = t[a + i]
  BY <1>1, PieceIs
<1>3. PICK q : q = Piece(p, c, d)
  OBVIOUS
<1>4. q \in Texts /\ Len(q) = d - c /\ \A i \in 1 .. d - c : q[i] = p[c + i]
  BY <1>2, <1>3, PieceIs
<1>5. PICK x, y : x = a + c /\ y = a + d
  OBVIOUS
<1>6. x \in Nat /\ y \in Nat /\ x <= y /\ y <= Len(t) /\ y - x = d - c /\ Len(t) \in Nat
  BY <1>5, Places
<1>7. PICK r : r = Piece(t, x, y)
  OBVIOUS
<1>8. r \in Texts /\ Len(r) = y - x /\ \A i \in 1 .. y - x : r[i] = t[x + i]
  BY <1>6, <1>7, PieceIs
<1>9. ASSUME NEW i \in 1 .. Len(q) PROVE q[i] = r[i]
  <2>1. i \in 1 .. d - c /\ i \in 1 .. y - x /\ c + i \in 1 .. b - a /\ a + (c + i) = x + i
    BY <1>4, <1>5, <1>6
  <2> QED
    BY <1>2, <1>4, <1>8, <2>1
<1>10. q = r
  BY <1>4, <1>6, <1>8, <1>9, SameText
<1> QED
  BY <1>1, <1>3, <1>5, <1>7, <1>10

LEMMA SubSeqIs ==
  ASSUME NEW t, NEW i \in Int, NEW j
  PROVE  SubSeq(t, i, j) = Piece(t, i - 1, j)
<1>1. i - 1 + 1 = i
  OBVIOUS
<1> QED
  BY <1>1 DEF Piece

\* The ink of a text runs from a to b.
Inked(t, a, b) ==
  /\ a \in 1 .. Len(t) /\ b \in 1 .. Len(t) /\ a <= b /\ t[a] \notin Blank /\ t[b] \notin Blank
  /\ \A k \in 1 .. a - 1 : t[k] \in Blank
  /\ \A k \in b + 1 .. Len(t) : t[k] \in Blank

LEMMA StripIs ==
  ASSUME NEW t \in Texts
  PROVE  \/ Strip(t) = <<>> /\ \A i \in 1 .. Len(t) : t[i] \in Blank
         \/ \E a, b \in 1 .. Len(t) : Inked(t, a, b) /\ Strip(t) = Piece(t, a - 1, b)
<1> DEFINE ink == {i \in DOMAIN t : t[i] \notin Blank}
           a == CHOOSE i \in ink : \A j \in ink : i <= j
           b == CHOOSE i \in ink : \A j \in ink : j <= i
<1>1. Strip(t) = IF ink = {} THEN <<>> ELSE SubSeq(t, a, b)
  BY DEF Strip
<1>2. Len(t) \in Nat /\ DOMAIN t = 1 .. Len(t)
  BY Places
<1>3. ink \in SUBSET Nat /\ ink \in SUBSET (1 .. Len(t)) /\ \A i \in 1 .. Len(t) : i \in ink <=> t[i] \notin Blank
  BY <1>2
<1>4. CASE ink = {}
  BY <1>1, <1>3, <1>4
<1>5. CASE ink # {}
  <2>1. a \in ink /\ \A j \in ink : a <= j
    <3>1. \E i \in ink : \A j \in ink : i <= j
      <4> HIDE DEF ink
      <4> QED
        BY <1>3, <1>5, LeastExists
    <3> HIDE DEF ink
    <3> QED
      BY <3>1
  <2>2. b \in ink /\ \A j \in ink : j <= b
    <3>1. \E i \in ink : \A j \in ink : j <= i
      <4> HIDE DEF ink
      <4> QED
        BY <1>2, <1>3, <1>5, GreatestExists
    <3> HIDE DEF ink
    <3> QED
      BY <3>1
  <2> HIDE DEF a, b, ink
  <2>3. a \in 1 .. Len(t) /\ b \in 1 .. Len(t) /\ a <= b /\ t[a] \notin Blank /\ t[b] \notin Blank
    BY <1>3, <2>1, <2>2
  <2>4. ASSUME NEW k \in 1 .. a - 1 PROVE t[k] \in Blank
    <3>1. k \in 1 .. Len(t) /\ ~ (a <= k)
      BY <1>2, <2>3
    <3> QED
      BY <1>3, <2>1, <3>1
  <2>5. ASSUME NEW k \in b + 1 .. Len(t) PROVE t[k] \in Blank
    <3>1. k \in 1 .. Len(t) /\ ~ (k <= b)
      BY <1>2, <2>3
    <3> QED
      BY <1>3, <2>2, <3>1
  <2>6. Strip(t) = Piece(t, a - 1, b)
    <3>1. a \in Int
      BY <2>3
    <3>2. Strip(t) = SubSeq(t, a, b)
      BY <1>1, <1>5
    <3> QED
      BY <3>1, <3>2, SubSeqIs
  <2>7. Inked(t, a, b)
    BY <2>3, <2>4, <2>5 DEF Inked
  <2> QED
    BY <2>3, <2>6, <2>7
<1> QED
  BY <1>4, <1>5

LEMMA InkOnce ==
  ASSUME NEW t \in Texts, NEW a, NEW b, Inked(t, a, b)
  PROVE  Strip(t) = Piece(t, a - 1, b)
<1>0. Len(t) \in Nat
  BY Places
<1>1. a \in 1 .. Len(t) /\ b \in 1 .. Len(t) /\ t[a] \notin Blank /\ t[b] \notin Blank
  BY DEF Inked
<1>2. PICK c, d \in 1 .. Len(t) : Inked(t, c, d) /\ Strip(t) = Piece(t, c - 1, d)
  BY <1>1, StripIs
<1>3. t[c] \notin Blank /\ t[d] \notin Blank
  BY <1>2 DEF Inked
<1>4. ~ (c < a) /\ ~ (a < c)
  <2>1. c < a => c \in 1 .. a - 1
    BY <1>0, <1>1, <1>2
  <2>2. a < c => a \in 1 .. c - 1
    BY <1>0, <1>1, <1>2
  <2> QED
    BY <1>1, <1>2, <1>3, <2>1, <2>2 DEF Inked
<1>5. ~ (d < b) /\ ~ (b < d)
  <2>1. d < b => b \in d + 1 .. Len(t)
    BY <1>0, <1>1, <1>2
  <2>2. b < d => d \in b + 1 .. Len(t)
    BY <1>0, <1>1, <1>2
  <2> QED
    BY <1>1, <1>2, <1>3, <2>1, <2>2 DEF Inked
<1>6. a = c /\ b = d
  BY <1>0, <1>1, <1>2, <1>4, <1>5
<1> QED
  BY <1>2, <1>6

LEMMA Stripped ==
  ASSUME NEW t \in Texts, NEW a \in Nat, NEW b \in Nat, a < b, b <= Len(t),
         t[a + 1] \notin Blank, t[b] \notin Blank
  PROVE  Strip(Piece(t, a, b)) = Piece(t, a, b)
<1>1. PICK p, n : p = Piece(t, a, b) /\ n = b - a
  OBVIOUS
<1>2. p \in Texts /\ Len(p) = n /\ \A i \in 1 .. n : p[i] = t[a + i]
  <2>1. p \in Texts /\ Len(p) = b - a /\ \A i \in 1 .. b - a : p[i] = t[a + i]
    <3>1. p = Piece(t, a, b) /\ a <= b
      BY <1>1
    <3> QED
      BY <3>1, PieceIs
  <2> QED
    BY <1>1, <2>1
<1>3. n \in 1 .. n /\ 1 \in 1 .. n /\ n \in Nat /\ a + n = b
  BY <1>1
<1>4. p[1] \notin Blank /\ p[n] \notin Blank
  BY <1>2, <1>3
<1>5. Inked(p, 1, n)
  <2>1. 1 .. 1 - 1 = {} /\ n + 1 .. n = {}
    BY <1>3
  <2> QED
    BY <1>2, <1>3, <1>4, <2>1 DEF Inked
<1>6. Strip(p) = Piece(p, 1 - 1, n)
  BY <1>2, <1>5, InkOnce
<1>7. Strip(p) = Piece(p, 0, Len(p))
  BY <1>2, <1>6
<1> QED
  BY <1>1, <1>2, <1>7, Whole

LEMMA FindIs ==
  ASSUME NEW t \in Texts, NEW c
  PROVE  \/ Find(t, c) = 0 /\ \A i \in 1 .. Len(t) : t[i] # c
         \/ /\ Find(t, c) \in 1 .. Len(t) /\ t[Find(t, c)] = c
            /\ \A j \in 1 .. Find(t, c) - 1 : t[j] # c
<1> DEFINE at == {i \in DOMAIN t : t[i] = c}
           Fits(i) == t[i] = c /\ \A j \in 1 .. i - 1 : t[j] # c
<1>1. Len(t) \in Nat /\ DOMAIN t = 1 .. Len(t)
  BY Places
<1>2. Find(t, c) = IF \E i \in DOMAIN t : t[i] = c THEN CHOOSE i \in DOMAIN t : Fits(i) ELSE 0
  BY DEF Find
<1>3. CASE \E i \in DOMAIN t : t[i] = c
  <2>1. at # {} /\ at \in SUBSET Nat
    BY <1>1, <1>3
  <2>2. PICK i \in at : \A j \in at : i <= j
    <3> HIDE DEF at
    <3> QED
      BY <2>1, LeastExists
  <2>3. i \in 1 .. Len(t) /\ t[i] = c
    BY <1>1
  <2>4. ASSUME NEW j \in 1 .. i - 1 PROVE t[j] # c
    <3>1. j \in 1 .. Len(t) /\ ~ (i <= j)
      BY <1>1, <2>3
    <3> QED
      BY <1>1, <2>2, <3>1
  <2>5. \E k \in DOMAIN t : Fits(k)
    BY <1>1, <2>3, <2>4
  <2> HIDE DEF Fits
  <2>6. Find(t, c) \in DOMAIN t /\ Fits(Find(t, c))
    BY <1>2, <1>3, <2>5
  <2> QED
    BY <1>1, <2>6 DEF Fits
<1>4. CASE ~ (\E i \in DOMAIN t : t[i] = c)
  BY <1>1, <1>2, <1>4
<1> QED
  BY <1>3, <1>4

LEMMA FoundOnce ==
  ASSUME NEW t \in Texts, NEW c, NEW i \in 1 .. Len(t), t[i] = c, \A j \in 1 .. i - 1 : t[j] # c
  PROVE  Find(t, c) = i
<1>0. Len(t) \in Nat
  BY Places
<1>1. /\ Find(t, c) \in 1 .. Len(t) /\ t[Find(t, c)] = c
      /\ \A j \in 1 .. Find(t, c) - 1 : t[j] # c
  BY FindIs
<1>2. PICK k : k = Find(t, c)
  OBVIOUS
<1>3. k \in 1 .. Len(t) /\ t[k] = c /\ \A j \in 1 .. k - 1 : t[j] # c
  BY <1>1, <1>2
<1>4. k < i => k \in 1 .. i - 1
  BY <1>0, <1>3
<1>5. i < k => i \in 1 .. k - 1
  BY <1>0, <1>3
<1>6. ~ (k < i) /\ ~ (i < k)
  BY <1>3, <1>4, <1>5
<1>7. k = i
  BY <1>0, <1>3, <1>6
<1> QED
  BY <1>2, <1>7

LEMMA RFindIs ==
  ASSUME NEW t \in Texts, NEW c
  PROVE  \/ RFind(t, c) = 0 /\ \A i \in 1 .. Len(t) : t[i] # c
         \/ /\ RFind(t, c) \in 1 .. Len(t) /\ t[RFind(t, c)] = c
            /\ \A j \in RFind(t, c) + 1 .. Len(t) : t[j] # c
<1> DEFINE at == {i \in DOMAIN t : t[i] = c}
           Fits(i) == t[i] = c /\ \A j \in i + 1 .. Len(t) : t[j] # c
<1>1. Len(t) \in Nat /\ DOMAIN t = 1 .. Len(t)
  BY Places
<1>2. RFind(t, c) = IF \E i \in DOMAIN t : t[i] = c THEN CHOOSE i \in DOMAIN t : Fits(i) ELSE 0
  BY DEF RFind
<1>3. CASE \E i \in DOMAIN t : t[i] = c
  <2>1. at # {} /\ at \in SUBSET (1 .. Len(t))
    BY <1>1, <1>3
  <2>2. PICK i \in at : \A j \in at : j <= i
    <3> HIDE DEF at
    <3> QED
      BY <1>1, <2>1, GreatestExists
  <2>3. i \in 1 .. Len(t) /\ t[i] = c
    BY <1>1
  <2>4. ASSUME NEW j \in i + 1 .. Len(t) PROVE t[j] # c
    <3>1. j \in 1 .. Len(t) /\ ~ (j <= i)
      BY <1>1, <2>3
    <3> QED
      BY <1>1, <2>2, <3>1
  <2>5. \E k \in DOMAIN t : Fits(k)
    BY <1>1, <2>3, <2>4
  <2> HIDE DEF Fits
  <2>6. RFind(t, c) \in DOMAIN t /\ Fits(RFind(t, c))
    BY <1>2, <1>3, <2>5
  <2> QED
    BY <1>1, <2>6 DEF Fits
<1>4. CASE ~ (\E i \in DOMAIN t : t[i] = c)
  BY <1>1, <1>2, <1>4
<1> QED
  BY <1>3, <1>4

-----------------------------------------------------------------------------
(* JSON in a text.                                                         *)

Plainly  == {"{", "}", "x", "f"}
Escapes  == {"q", "b"}
JsonWords == Content(Plainly, Escapes, Blank, MaxTokens - 2)

LEMMA JsonGrammar ==
  /\ Grammar(Plainly, Escapes, Blank)
  /\ MaxTokens - 2 \in Nat
  /\ \A p : p \in JsonObjects <=> \E n \in 0 .. MaxTokens - 2 : p \in Braced(JsonWords[n])
<1>1. Grammar(Plainly, Escapes, Blank)
  BY DEF Grammar, Plainly, Escapes, Blank, Token
<1>2. MaxTokens - 2 \in Nat
  BY ConstantsAssumption
<1>3. JsonObjects = UNION {Braced(JsonWords[n]) : n \in 0 .. MaxTokens - 2}
  BY DEF JsonObjects, JsonWords, Plainly, Escapes
<1>4. \A p : p \in JsonObjects <=> \E n \in 0 .. MaxTokens - 2 : p \in Braced(JsonWords[n])
  BY <1>3
<1> QED
  BY <1>1, <1>2, <1>4

LEMMA ObjectAt ==
  ASSUME NEW t \in Texts, NEW a \in Nat, NEW b \in Nat, a <= b, b <= Len(t), Piece(t, a, b) \in JsonObjects
  PROVE  a + 2 <= b /\ t[a + 1] = "{" /\ t[b] = "}" /\ Scanned(t, a + 1)[Len(t)].end = b
<1>m. PICK max : max = MaxTokens - 2
  OBVIOUS
<1>g. Grammar(Plainly, Escapes, Blank) /\ max \in Nat
  BY <1>m, JsonGrammar
<1>w. PICK C : C = JsonWords
  OBVIOUS
<1>1. \E n \in 0 .. max : Piece(t, a, b) \in Braced(C[n])
  BY <1>m, <1>w, JsonGrammar
<1>2. Worded(C, max)
  BY <1>g, <1>m, <1>w, ContentWords DEF Worded, JsonWords
<1>e. /\ a + 2 <= b /\ b - a - 2 <= max /\ t[a + 1] = "{" /\ t[b] = "}"
      /\ Piece(t, a + 1, b - 1) \in C[b - a - 2]
  BY <1>1, <1>2, <1>g, BracedAt
<1>3. a + 2 <= b /\ t[a + 1] = "{" /\ t[b] = "}"
  BY <1>e
<1>4. PICK start : start = a + 1
  OBVIOUS
<1>a. a + 2 <= b
  BY <1>3
<1>l. Len(t) \in Nat
  BY Places
<1>5. start \in Nat \ {0} /\ b \in start .. Len(t) /\ start - 1 = a
  BY <1>a, <1>4, <1>l
<1>6. \E n \in 0 .. max : Piece(t, start - 1, b) \in Braced(Content(Plainly, Escapes, Blank, max)[n])
  BY <1>1, <1>5, <1>m, <1>w DEF JsonWords
<1>7. Scanned(t, start)[Len(t)].end = b
  BY <1>5, <1>6, <1>g, ScanObject
<1> QED
  BY <1>3, <1>4, <1>7

LEMMA ObjectWhole ==
  ASSUME NEW t \in Texts, t \in JsonObjects
  PROVE  /\ 2 <= Len(t) /\ t[1] = "{" /\ t[Len(t)] = "}"
         /\ Scanned(t, 1)[Len(t)].end = Len(t)
<1>1. PICK z, l : z = 0 /\ l = Len(t)
  OBVIOUS
<1>2. z \in Nat /\ l \in Nat /\ z <= l /\ l <= Len(t) /\ z + 1 = 1 /\ z + 2 = 2
  BY <1>1, Places
<1>3. Piece(t, z, l) \in JsonObjects
  BY <1>1, Whole
<1>4. z + 2 <= l /\ t[z + 1] = "{" /\ t[l] = "}" /\ Scanned(t, z + 1)[Len(t)].end = l
  BY <1>2, <1>3, ObjectAt
<1> QED
  BY <1>1, <1>2, <1>4

LEMMA StringFirst ==
  ASSUME NEW p \in JsonStrings
  PROVE  p[1] = "q"
<1> DEFINE I == Inside(Plainly, Escapes, MaxTokens - 2)
<1>1. PICK n \in 0 .. MaxTokens - 2 : p \in {<<"q">> \o w \o <<"q">> : w \in I[n]}
  BY DEF JsonStrings, Plainly, Escapes
<1>2. PICK w \in I[n] : p = <<"q">> \o w \o <<"q">>
  BY <1>1
<1>3. w \in Texts
  BY JsonGrammar, InsideWords
<1> HIDE DEF I
<1>4. p = Then(Then(One("q"), w), One("q"))
  BY <1>2 DEF Then, One
<1>q. One("q") \in Texts /\ Len(One("q")) = 1
  BY OneIs, TokensAre
<1>5. Then(One("q"), w) \in Texts
  BY <1>3, <1>q, ThenIs
<1>6. PICK u : u = Then(One("q"), w)
  OBVIOUS
<1>7. u \in Texts /\ Len(u) >= 1 /\ u[1] = "q"
  <2>1. PICK o : o = One("q")
    OBVIOUS
  <2>2. o \in Texts /\ Len(o) = 1 /\ o[1] = "q"
    BY <1>q, <2>1, OneLong, TokensAre DEF One
  <2>3. Len(w) \in Nat
    BY <1>3, Places
  <2>4. \A i \in 1 .. Len(o) + Len(w) : (o \o w)[i] = IF i <= Len(o) THEN o[i] ELSE w[i - Len(o)]
    BY <1>3, <2>2, ConcatProperties DEF Texts
  <2>5. Len(Then(o, w)) = Len(o) + Len(w)
    BY <1>3, <2>2, ThenIs
  <2>6. 1 \in 1 .. Len(o) + Len(w) /\ 1 <= Len(o)
    BY <2>2, <2>3
  <2>7. (o \o w)[1] = "q"
    BY <2>2, <2>4, <2>6
  <2>8. u = o \o w
    BY <1>6, <2>1 DEF Then
  <2>9. u[1] = "q"
    BY <2>7, <2>8
  <2>10. u = Then(o, w)
    BY <1>6, <2>1
  <2> QED
    BY <1>5, <1>6, <2>2, <2>3, <2>5, <2>9, <2>10
<1>8. p = u \o <<"q">>
  BY <1>4, <1>6 DEF Then, One
<1> DEFINE v == <<"q">>
<1>9. v \in Texts /\ Len(v) = 1
  BY <1>q DEF One
<1>10. p = u \o v
  BY <1>8
<1> HIDE DEF v
<1>11. \A i \in 1 .. Len(u) + Len(v) : (u \o v)[i] = IF i <= Len(u) THEN u[i] ELSE v[i - Len(u)]
  BY <1>7, <1>9, ConcatProperties DEF Texts
<1>12. 1 \in 1 .. Len(u) + Len(v) /\ 1 <= Len(u)
  BY <1>7, <1>9, Places
<1> QED
  BY <1>7, <1>10, <1>11, <1>12

LEMMA Before ==
  ASSUME NEW n \in Nat, NEW i \in 1 .. n, NEW j \in 1 .. n, i <= j
  PROVE  /\ \E a \in Nat : a = i - 1 /\ a + 1 = i
         /\ i - 1 \in Nat /\ j \in Nat /\ i - 1 <= j /\ i - 1 < j /\ j <= n /\ i # 0 /\ j # 0 /\ i \in Int
  OBVIOUS

LEMMA FirstObject ==
  ASSUME NEW t \in Texts, NEW i \in 1 .. Len(t), NEW j \in 1 .. Len(t), Find(t, "{") = i, i <= j,
         Piece(t, i - 1, j) \in JsonObjects
  PROVE  FirstBalancedObject(t) = Piece(t, i - 1, j)
<1>l. Len(t) \in Nat
  BY Places
<1>1. PICK a \in Nat : a = i - 1 /\ a + 1 = i
  BY <1>l, Before
<1>2. a \in Nat /\ j \in Nat /\ a <= j /\ j <= Len(t) /\ a + 1 = i /\ i # 0 /\ j # 0 /\ i \in Int
  BY <1>1, <1>l, Before
<1>3. Scanned(t, a + 1)[Len(t)].end = j
  BY <1>1, <1>2, ObjectAt
<1>4. FirstBalancedObject(t) = SubSeq(t, i, j)
  BY <1>2, <1>3 DEF FirstBalancedObject
<1> QED
  BY <1>2, <1>4, SubSeqIs

LEMMA BalancedIs ==
  ASSUME NEW t \in Texts, FirstBalancedObject(t) # None
  PROVE  /\ Find(t, "{") \in 1 .. Len(t)
         /\ \E e \in Find(t, "{") .. Len(t) : FirstBalancedObject(t) = Piece(t, Find(t, "{") - 1, e)
<1> DEFINE start == Find(t, "{")
           end   == Scanned(t, start)[Len(t)].end
<1>1. FirstBalancedObject(t) = IF start = 0 \/ end = 0 THEN None ELSE SubSeq(t, start, end)
  BY DEF FirstBalancedObject
<1>2. start # 0 /\ end # 0 /\ FirstBalancedObject(t) = SubSeq(t, start, end)
  BY <1>1
<1>3. start \in 1 .. Len(t) /\ Len(t) \in Nat /\ start \in Int
  <2>1. start \in 1 .. Len(t) /\ Len(t) \in Nat
    BY <1>2, FindIs, Places
  <2> HIDE DEF start
  <2> QED
    BY <2>1
<1>s. PICK s : s = Scanned(t, start)[Len(t)]
  OBVIOUS
<1>4. Reached(s, Len(t), start)
  <2> HIDE DEF start
  <2>1. start \in Nat \ {0} /\ start <= Len(t) /\ Len(t) \in start - 1 .. Len(t)
    BY <1>3
  <2> QED
    BY <1>s, <2>1, AlwaysReached
<1>5. s.end # 0
  BY <1>2, <1>s
<1>6. \E k \in start .. Len(t) : Ended(s, k)
  <2> HIDE DEF start
  <2> QED
    BY <1>4, <1>5 DEF Reached, Outside, InString, Escaped, Going
<1>7. end \in start .. Len(t)
  <2> HIDE DEF start
  <2>1. s.end \in start .. Len(t)
    BY <1>6 DEF Ended
  <2> QED
    BY <1>s, <2>1
<1>8. FirstBalancedObject(t) = Piece(t, start - 1, end)
  <2> HIDE DEF start, end
  <2> QED
    BY <1>2, <1>3, SubSeqIs
<1> HIDE DEF end
<1> QED
  BY <1>3, <1>7, <1>8

LEMMA FenceIs ==
  ASSUME NEW t \in Texts
  PROVE  LET newline == Find(t, "n")
             closing == RFind(t, "f")
         IN StripCodeFence(t) = IF t[1] = "f" /\ newline # 0 /\ closing > newline
                                  THEN Strip(Piece(t, newline, closing - 1)) ELSE None
<1>1. Find(t, "n") \in Int
  BY FindIs, Places
<1>2. SubSeq(t, Find(t, "n") + 1, RFind(t, "f") - 1) = Piece(t, Find(t, "n"), RFind(t, "f") - 1)
  BY DEF Piece
<1> QED
  BY <1>2 DEF StripCodeFence

-----------------------------------------------------------------------------
(* The texts that are parsed.                                              *)

LEMMA TokensOf ==
  ASSUME NEW t \in Texts, NEW a \in Nat, NEW b \in Nat, a <= b, b <= Len(t)
  PROVE  Tokens(Piece(t, a, b)) = {t[k] : k \in a + 1 .. b}
<1>1. PICK p, n : p = Piece(t, a, b) /\ n = b - a
  OBVIOUS
<1>2. p \in Texts /\ Len(p) = n /\ \A i \in 1 .. n : p[i] = t[a + i]
  BY <1>1, PieceIs
<1>3. DOMAIN p = 1 .. n
  BY <1>2, Places
<1>4. ASSUME NEW k \in a + 1 .. b PROVE \E i \in 1 .. n : p[i] = t[k]
  <2>1. k - a \in 1 .. n /\ a + (k - a) = k
    BY <1>1
  <2> QED
    BY <1>2, <2>1
<1>5. ASSUME NEW i \in 1 .. n PROVE \E k \in a + 1 .. b : p[i] = t[k]
  <2>1. a + i \in a + 1 .. b
    BY <1>1
  <2> QED
    BY <1>2, <2>1
<1>6. Tokens(p) = {p[i] : i \in 1 .. n}
  BY <1>3 DEF Tokens
<1> DEFINE L == {p[i] : i \in 1 .. n}
           R == {t[k] : k \in a + 1 .. b}
<1>7. L = R
  <2>1. L \subseteq R
    BY <1>5
  <2>2. R \subseteq L
    BY <1>4
  <2> HIDE DEF L, R
  <2> QED
    BY <2>1, <2>2
<1> QED
  BY <1>1, <1>6, <1>7

LEMMA TokensBefore ==
  ASSUME NEW t \in Texts, NEW i \in 1 .. Len(t)
  PROVE  Tokens(SubSeq(t, 1, i - 1)) = {t[k] : k \in 1 .. i - 1}
<1>1. PICK a, b : a = 0 /\ b = i - 1
  OBVIOUS
<1>2. a \in Nat /\ b \in Nat /\ a <= b /\ b <= Len(t) /\ a + 1 = 1
  BY <1>1, Places
<1>3. Tokens(Piece(t, a, b)) = {t[k] : k \in a + 1 .. b}
  BY <1>2, TokensOf
<1>4. Piece(t, a, b) = SubSeq(t, 1, i - 1)
  BY <1>1, <1>2 DEF Piece
<1> QED
  BY <1>1, <1>2, <1>3, <1>4

LEMMA OneMoreOf ==
  ASSUME NEW S, NEW w \in Seq(S), NEW e \in S
  PROVE  /\ w \o <<e>> \in Seq(S) /\ Len(w \o <<e>>) = Len(w) + 1
         /\ (w \o <<e>>)[Len(w) + 1] = e /\ \A i \in 1 .. Len(w) : (w \o <<e>>)[i] = w[i]
<1>1. Append(w, e) = w \o <<e>>
  BY AppendIsConcat
<1>2. /\ Append(w, e) \in Seq(S) /\ Len(Append(w, e)) = Len(w) + 1
      /\ Append(w, e)[Len(w) + 1] = e /\ \A i \in 1 .. Len(w) : Append(w, e)[i] = w[i]
  BY AppendProperties
<1> QED
  BY <1>1, <1>2

LEMMA AttemptsAre ==
  ASSUME NEW t, NEW f, NEW o, f = StripCodeFence(t), o = FirstBalancedObject(t)
  PROVE  /\ Attempts(t)[1] = t
         /\ DOMAIN Attempts(t) = 1 .. IF f = None THEN (IF o = None THEN 1 ELSE 2)
                                                   ELSE (IF o = None THEN 2 ELSE 3)
         /\ f # None => Attempts(t)[2] = f
         /\ o # None => Attempts(t)[IF f = None THEN 2 ELSE 3] = o
<1> DEFINE S == {t, f, o}
<1>s. t \in S /\ f \in S /\ o \in S
  OBVIOUS
<1> HIDE DEF S
<1>1. PICK w \in Seq(S) : w = <<t>> /\ Len(w) = 1 /\ w[1] = t
  <2>1. \A x \in S : <<x>> \in Seq(S) /\ Len(<<x>>) = 1 /\ <<x>>[1] = x
    OBVIOUS
  <2> QED
    BY <1>s, <2>1
<1>2. PICK v \in Seq(S) : /\ v = w \o (IF f = None THEN <<>> ELSE <<f>>)
                          /\ Len(v) = IF f = None THEN 1 ELSE 2
                          /\ v[1] = t /\ (f # None => v[2] = f)
  <2>1. CASE f = None
    BY <1>1, <2>1, ConcatEmptySeq
  <2>2. CASE f # None
    <3>1. PICK x : x = w \o <<f>>
      OBVIOUS
    <3>2. x \in Seq(S) /\ Len(x) = Len(w) + 1 /\ x[Len(w) + 1] = f /\ \A i \in 1 .. Len(w) : x[i] = w[i]
      BY <1>s, <3>1, OneMoreOf
    <3>3. Len(x) = 2 /\ x[1] = t /\ x[2] = f
      BY <1>1, <3>2
    <3> QED
      BY <2>2, <3>1, <3>2, <3>3
  <2> QED
    BY <2>1, <2>2
<1>3. PICK A \in Seq(S) : /\ A = v \o (IF o = None THEN <<>> ELSE <<o>>)
                          /\ Len(A) = IF o = None THEN Len(v) ELSE Len(v) + 1
                          /\ \A i \in 1 .. Len(v) : A[i] = v[i]
                          /\ o # None => A[Len(v) + 1] = o
  <2>1. CASE o = None
    BY <2>1, ConcatEmptySeq
  <2>2. CASE o # None
    BY <1>s, <2>2, OneMoreOf
  <2> QED
    BY <2>1, <2>2
<1>4. A = Attempts(t)
  BY <1>1, <1>2, <1>3 DEF Attempts
<1>5. DOMAIN A = 1 .. Len(A)
  BY LenProperties
<1>6. A[1] = t /\ (f # None => A[2] = f) /\ (o # None => A[IF f = None THEN 2 ELSE 3] = o)
      /\ Len(A) = IF f = None THEN (IF o = None THEN 1 ELSE 2) ELSE (IF o = None THEN 2 ELSE 3)
  <2>1. CASE f = None
    <3>1. Len(v) = 1 /\ v[1] = t
      BY <1>2, <2>1
    <3>2. A[1] = t /\ Len(A) = (IF o = None THEN 1 ELSE 2) /\ (o # None => A[2] = o)
      BY <1>3, <3>1
    <3> QED
      BY <2>1, <3>2
  <2>2. CASE f # None
    BY <1>2, <1>3, <2>2
  <2> QED
    BY <2>1, <2>2
<1> QED
  BY <1>4, <1>5, <1>6

LEMMA LoadsIs ==
  ASSUME NEW t
  PROVE  /\ Loads(t) \in {"object", "string", "invalid"}
         /\ Loads(t) = "object" <=> Strip(t) \in JsonObjects
         /\ Loads(t) = "string" => Strip(t) \in JsonStrings
BY DEF Loads

\* The first text that is JSON decides.
LEMMA FirstJson ==
  ASSUME NEW r, NEW A, A = Attempts(Strip(r)), Strip(r) # <<>>, DOMAIN A \in SUBSET Nat,
         NEW m \in DOMAIN A, Loads(A[m]) = "object",
         \A k \in DOMAIN A : k < m => Loads(A[k]) = "invalid"
  PROVE  ExtractJson(r).object = Strip(A[m])
<1> DEFINE json == {i \in DOMAIN A : Loads(A[i]) # "invalid"}
<1>1. m \in json
  OBVIOUS
<1>2. \A k \in json : m <= k
  <2> SUFFICES ASSUME NEW k \in json PROVE m <= k
    OBVIOUS
  <2>1. k \in DOMAIN A /\ ~ (k < m)
    OBVIOUS
  <2>2. k \in Nat /\ m \in Nat
    OBVIOUS
  <2> QED
    BY <2>1, <2>2
<1>3. \A k \in json : k \in Nat
  OBVIOUS
<1>4. ExtractJson(r) =
        IF json = {} THEN [error |-> "not_json", object |-> None]
        ELSE IF Loads(A[Min(json)]) = "object" THEN [error |-> None, object |-> Strip(A[Min(json)])]
        ELSE [error |-> "not_an_object", object |-> None]
  BY DEF ExtractJson
<1> HIDE DEF json
<1>5. Min(json) \in json /\ \A k \in json : Min(json) <= k
  BY <1>1, <1>2 DEF Min
<1>6. Min(json) = m
  BY <1>1, <1>2, <1>3, <1>5
<1> QED
  BY <1>1, <1>4, <1>6

LEMMA FoundFrom ==
  ASSUME NEW r, NEW A, A = Attempts(Strip(r)), DOMAIN A \in SUBSET Nat, ExtractJson(r).object # None
  PROVE  /\ Strip(r) # <<>>
         /\ \E m \in DOMAIN A : Loads(A[m]) = "object" /\ ExtractJson(r).object = Strip(A[m])
<1> DEFINE json == {i \in DOMAIN A : Loads(A[i]) # "invalid"}
<1>1. ExtractJson(r) =
        IF Strip(r) = <<>> THEN [error |-> "empty_response", object |-> None]
        ELSE IF json = {} THEN [error |-> "not_json", object |-> None]
        ELSE IF Loads(A[Min(json)]) = "object" THEN [error |-> None, object |-> Strip(A[Min(json)])]
        ELSE [error |-> "not_an_object", object |-> None]
  BY DEF ExtractJson
<1>2. json \in SUBSET Nat /\ json \subseteq DOMAIN A
  OBVIOUS
<1> HIDE DEF json
<1>3. /\ Strip(r) # <<>> /\ json # {} /\ Loads(A[Min(json)]) = "object"
      /\ ExtractJson(r).object = Strip(A[Min(json)])
  BY <1>1
<1>4. Min(json) \in json
  BY <1>2, <1>3, LeastExists DEF Min
<1> QED
  BY <1>2, <1>3, <1>4

-----------------------------------------------------------------------------
(* What is extracted.                                                      *)

LEMMA ObjectIn ==
  ASSUME NEW x \in Texts, NEW i \in 1 .. Len(x), NEW j \in 1 .. Len(x), SubSeq(x, i, j) \in JsonObjects
  PROVE  /\ i < j /\ x[i] = "{" /\ x[j] = "}" /\ i - 1 \in Nat
         /\ SubSeq(x, i, j) = Piece(x, i - 1, j) /\ Strip(SubSeq(x, i, j)) = SubSeq(x, i, j)
<1>0. Len(x) \in Nat /\ i \in Int /\ j \in Int /\ \A k \in i .. j : x[k] \in Token
  BY Places
<1>1. i <= j
  <2> SUFFICES ASSUME ~ (i <= j) PROVE FALSE
    OBVIOUS
  <2>1. PICK p : p = SubSeq(x, i, j)
    OBVIOUS
  <2>2. p \in Texts /\ Len(p) = IF i <= j THEN j - i + 1 ELSE 0
    BY <1>0, <2>1, SubSeqProperties DEF Texts
  <2>3. Len(p) = 0
    BY <2>2
  <2>4. 2 <= Len(p)
    BY <2>1, <2>2, ObjectWhole
  <2> QED
    BY <2>3, <2>4
<1>2. PICK a \in Nat : a = i - 1 /\ a + 1 = i
  BY <1>0, <1>1, Before
<1>3. a <= j /\ j <= Len(x) /\ j \in Nat
  BY <1>0, <1>1, <1>2
<1>4. SubSeq(x, i, j) = Piece(x, a, j)
  BY <1>2 DEF Piece
<1>p. Piece(x, a, j) \in JsonObjects
  BY <1>4
<1>q. a + 2 <= j /\ x[a + 1] = "{" /\ x[j] = "}"
  BY <1>3, <1>p, ObjectAt
<1>5. a + 2 <= j /\ x[i] = "{" /\ x[j] = "}"
  BY <1>2, <1>q
<1>6. a < j /\ i < j
  <2>1. a + 2 <= j
    BY <1>5
  <2> QED
    BY <1>2, <1>3, <2>1
<1>7. x[a + 1] \notin Blank /\ x[j] \notin Blank
  BY <1>2, <1>5 DEF Blank
<1>8. Strip(Piece(x, a, j)) = Piece(x, a, j)
  BY <1>3, <1>6, <1>7, Stripped
<1> QED
  BY <1>2, <1>4, <1>5, <1>6, <1>8

\* An object with prose before it, and one in a fence.
InProse(x, i, j, o) ==
  /\ o = SubSeq(x, i, j) /\ o \in JsonObjects
  /\ x[1] \notin {"q", "f", "n"} /\ \A k \in 1 .. i - 1 : x[k] # "{"

InFence(x, i, j, o) ==
  /\ o = SubSeq(x, i, j) /\ o \in JsonObjects
  /\ x[1] = "f" /\ i > 1 /\ x[i - 1] = "n" /\ \A k \in 1 .. i - 2 : x[k] # "n"
  /\ Len(x) = j + 1 /\ x[j + 1] = "f"

LEMMA FirstPlace ==
  ASSUME NEW x \in Texts, NEW i \in 1 .. Len(x)
  PROVE  Len(x) \in Nat /\ 1 \in 1 .. Len(x) /\ 1 <= Len(x)
<1>1. PICK n \in Nat : n = Len(x)
  BY Places
<1>2. 1 \in 1 .. n
  BY <1>1
<1> QED
  BY <1>1, <1>2

LEMMA FirstBraceTaken ==
  ASSUME NEW x \in Texts, NEW i \in 1 .. Len(x), NEW j \in 1 .. Len(x), NEW o, InProse(x, i, j, o)
  PROVE  ExtractJson(x).object = o
<1>o. /\ i < j /\ x[i] = "{" /\ x[j] = "}" /\ o = Piece(x, i - 1, j) /\ Strip(o) = o
      /\ o \in JsonObjects
  BY ObjectIn DEF InProse
<1>x. x[1] \notin Blank /\ x[1] # "q" /\ x[1] # "f" /\ \A k \in 1 .. i - 1 : x[k] # "{"
  BY DEF InProse, Blank
<1>l. Len(x) \in Nat /\ 1 \in 1 .. Len(x)
  BY FirstPlace
<1>1. PICK b \in 1 .. Len(x) : Inked(x, 1, b) /\ Strip(x) = Piece(x, 0, b)
  <2>1. x[1] \notin Blank
    BY <1>x
  <2>2. PICK a, b \in 1 .. Len(x) : Inked(x, a, b) /\ Strip(x) = Piece(x, a - 1, b)
    BY <1>l, <2>1, StripIs
  <2>3. ~ (1 \in 1 .. a - 1)
    BY <2>1, <2>2 DEF Inked
  <2>4. a = 1
    BY <1>l, <2>3
  <2>5. a - 1 = 0
    BY <2>4
  <2> QED
    BY <2>2, <2>4, <2>5
<1>z. PICK z : z = 0
  OBVIOUS
<1>2. j <= b
  <2>1. x[j] \notin Blank
    BY <1>o DEF Blank
  <2>2. ~ (j \in b + 1 .. Len(x))
    BY <1>1, <2>1 DEF Inked
  <2> QED
    BY <1>l, <2>2
<1>b. z \in Nat /\ b \in Nat /\ z <= b /\ z < b /\ b <= Len(x) /\ b - z = b /\ z + 1 = 1
  BY <1>l, <1>z
<1>3. PICK t : t = Piece(x, z, b)
  OBVIOUS
<1>4. t \in Texts /\ Len(t) = b /\ \A k \in 1 .. b : t[k] = x[k]
  <2>1. t \in Texts /\ Len(t) = b - z /\ \A k \in 1 .. b - z : t[k] = x[z + k]
    BY <1>b, <1>3, PieceIs
  <2>2. \A k \in 1 .. b : z + k = k
    BY <1>z
  <2> QED
    BY <1>b, <2>1, <2>2
<1>t. 1 \in 1 .. b /\ t[1] = x[1]
  <2>1. 1 \in 1 .. b
    BY <1>l
  <2> QED
    BY <1>4, <2>1
<1>5. Strip(x) = t /\ Strip(t) = t
  <2>1. x[z + 1] \notin Blank /\ x[b] \notin Blank
    BY <1>1, <1>b DEF Inked
  <2>2. Strip(Piece(x, z, b)) = Piece(x, z, b)
    BY <1>b, <2>1, Stripped
  <2> QED
    BY <1>1, <1>3, <1>z, <2>2
<1>6. i \in 1 .. b /\ j \in 1 .. b /\ i \in 1 .. Len(t) /\ j \in 1 .. Len(t) /\ i <= j
  <2>1. i < j /\ Len(t) = b
    BY <1>4, <1>o
  <2> QED
    BY <1>2, <1>l, <2>1
<1>7. Find(t, "{") = i
  <2>1. t[i] = "{" /\ \A k \in 1 .. i - 1 : t[k] # "{"
    <3>1. \A k \in 1 .. i - 1 : k \in 1 .. b
      BY <1>6
    <3> QED
      BY <1>4, <1>6, <1>o, <1>x, <3>1
  <2> QED
    BY <1>4, <1>6, <2>1, FoundOnce
<1>8. Piece(t, i - 1, j) = o
  <2>1. PICK a \in Nat : a = i - 1 /\ a + 1 = i
    BY <1>l, <1>6, Before
  <2>2. a <= j /\ j <= b - z /\ j \in Nat /\ z + a = a /\ z + j = j
    BY <1>2, <1>6, <1>b, <1>z, <2>1
  <2>3. Piece(Piece(x, z, b), a, j) = Piece(x, z + a, z + j)
    BY <1>b, <2>2, PieceOfPiece
  <2> QED
    BY <1>3, <1>o, <2>1, <2>2, <2>3
<1>9. FirstBalancedObject(t) = o
  <2>1. Piece(t, i - 1, j) \in JsonObjects /\ t \in Texts
    BY <1>4, <1>8, <1>o
  <2>2. FirstBalancedObject(t) = Piece(t, i - 1, j)
    BY <1>6, <1>7, <2>1, FirstObject
  <2> QED
    BY <1>8, <2>2
<1>10. StripCodeFence(t) = None
  <2>1. t[1] # "f"
    BY <1>t, <1>x
  <2> QED
    BY <1>4, <2>1, FenceIs
<1>11. o # None
  BY <1>o, NoneIsNothingElse
<1>12. Attempts(t)[1] = t /\ DOMAIN Attempts(t) = 1 .. 2 /\ Attempts(t)[2] = o
  BY <1>9, <1>10, <1>11, AttemptsAre
<1>13. PICK A : A = Attempts(t)
  OBVIOUS
<1>14. A = Attempts(Strip(x)) /\ DOMAIN A \in SUBSET Nat /\ 1 \in DOMAIN A /\ 2 \in DOMAIN A
       /\ \A k \in DOMAIN A : (k < 2 => k = 1) /\ ~ (k < 1)
  BY <1>5, <1>12, <1>13
<1>15. Strip(x) # <<>>
  <2>1. Len(<<>>) = 0
    BY EmptyIs
  <2> QED
    BY <1>4, <1>5, <1>b, <1>z, <2>1
<1>16. CASE Loads(t) = "object"
  <2>1. ExtractJson(x).object = Strip(A[1])
    BY <1>12, <1>13, <1>14, <1>15, <1>16, FirstJson
  <2>2. t \in JsonObjects
    BY <1>5, <1>16, LoadsIs
  <2>3. t[1] = "{" /\ Scanned(t, 1)[Len(t)].end = Len(t)
    BY <1>4, <2>2, ObjectWhole
  <2>4. i = 1
    <3>1. ~ (1 \in 1 .. i - 1)
      BY <1>t, <1>x, <2>3
    <3> QED
      BY <1>6, <3>1
  <2>5. Scanned(t, i)[Len(t)].end = j
    <3>1. PICK a \in Nat : a = i - 1 /\ a + 1 = i
      BY <1>l, <1>6, Before
    <3>2. a <= j /\ j <= Len(t) /\ j \in Nat
      BY <1>4, <1>6, <3>1
    <3>3. Piece(t, a, j) = Piece(t, i - 1, j)
      BY <3>1
    <3>4. Piece(t, a, j) \in JsonObjects
      BY <1>8, <1>o, <3>3
    <3>5. Scanned(t, a + 1)[Len(t)].end = j
      BY <1>4, <3>2, <3>4, ObjectAt
    <3> QED
      BY <3>1, <3>5
  <2>6. j = Len(t)
    BY <2>3, <2>4, <2>5
  <2>7. i - 1 = 0
    BY <2>4
  <2>8. o = t
    BY <1>4, <1>8, <2>6, <2>7, Whole
  <2> QED
    BY <1>5, <1>12, <1>13, <2>1, <2>8
<1>17. CASE Loads(t) # "object"
  <2>1. Loads(t) = "invalid"
    <3>1. Loads(t) = "string" => t[1] = "q"
      BY <1>5, LoadsIs, StringFirst
    <3>2. t[1] # "q"
      BY <1>t, <1>x
    <3> QED
      BY <1>17, <3>1, <3>2, LoadsIs
  <2>2. Loads(o) = "object"
    BY <1>o, LoadsIs
  <2>3. ExtractJson(x).object = Strip(A[2])
    BY <1>12, <1>13, <1>14, <1>15, <2>1, <2>2, FirstJson
  <2> QED
    BY <1>12, <1>13, <1>o, <2>3
<1> QED
  BY <1>16, <1>17

LEMMA FenceTaken ==
  ASSUME NEW x \in Texts, NEW i \in 1 .. Len(x), NEW j \in 1 .. Len(x), NEW o, InFence(x, i, j, o)
  PROVE  ExtractJson(x).object = o
<1>o. /\ i < j /\ x[i] = "{" /\ x[j] = "}" /\ o = Piece(x, i - 1, j) /\ Strip(o) = o
      /\ o \in JsonObjects
  BY ObjectIn DEF InFence
<1>x. /\ x[1] = "f" /\ i > 1 /\ x[i - 1] = "n" /\ \A k \in 1 .. i - 2 : x[k] # "n"
      /\ Len(x) = j + 1 /\ x[j + 1] = "f"
  BY DEF InFence
<1>l. Len(x) \in Nat /\ 1 \in 1 .. Len(x) /\ j + 1 \in 1 .. Len(x)
  <2>1. Len(x) \in Nat /\ Len(x) = j + 1
    BY <1>x, Places
  <2> QED
    BY <2>1
<1>z. PICK z, b, e : z = 0 /\ b = Len(x) /\ e = i - 1
  OBVIOUS
<1>b. z \in Nat /\ b \in Nat /\ z < b /\ b <= Len(x) /\ z + 1 = 1 /\ e \in 1 .. Len(x) /\ e - 1 = i - 2 /\ e < j + 1
  <2>1. i > 1 /\ i < j /\ Len(x) = j + 1
    BY <1>o, <1>x
  <2> QED
    BY <1>l, <1>z, <2>1
<1>1. Strip(x) = x
  <2>1. x[z + 1] \notin Blank /\ x[b] \notin Blank
    BY <1>b, <1>x, <1>z DEF Blank
  <2>2. Strip(Piece(x, z, b)) = Piece(x, z, b)
    BY <1>b, <2>1, Stripped
  <2> QED
    BY <1>z, <2>2, Whole
<1>2. Find(x, "n") = e
  <2>1. x[e] = "n" /\ \A k \in 1 .. e - 1 : x[k] # "n"
    BY <1>b, <1>x, <1>z
  <2> QED
    BY <1>b, <2>1, FoundOnce
<1>3. RFind(x, "f") = j + 1
  <2>1. PICK r : r = RFind(x, "f")
    OBVIOUS
  <2>2. r \in 1 .. Len(x) /\ \A k \in r + 1 .. Len(x) : x[k] # "f"
    BY <1>l, <1>x, <2>1, RFindIs
  <2>3. ~ (Len(x) \in r + 1 .. Len(x))
    BY <1>x, <2>2
  <2>4. r = j + 1
    BY <1>l, <1>x, <2>2, <2>3
  <2> QED
    BY <2>1, <2>4
<1>4. StripCodeFence(x) = o
  <2>1. e # 0 /\ j + 1 > e /\ j + 1 - 1 = j
    BY <1>b
  <2>2. StripCodeFence(x) = Strip(Piece(x, e, j))
    BY <1>2, <1>3, <1>x, <2>1, FenceIs
  <2> QED
    BY <1>o, <1>z, <2>2
<1>5. o # None
  BY <1>o, NoneIsNothingElse
<1>6. PICK A : A = Attempts(x)
  OBVIOUS
<1>7. A[1] = x /\ A[2] = o /\ (DOMAIN A = 1 .. 2 \/ DOMAIN A = 1 .. 3)
  <2>1. /\ Attempts(x)[1] = x
        /\ DOMAIN Attempts(x) = 1 .. IF o = None THEN (IF FirstBalancedObject(x) = None THEN 1 ELSE 2)
                                                  ELSE (IF FirstBalancedObject(x) = None THEN 2 ELSE 3)
        /\ o # None => Attempts(x)[2] = o
    BY <1>4, AttemptsAre
  <2> QED
    BY <1>5, <1>6, <2>1
<1>8. DOMAIN A \in SUBSET Nat /\ 2 \in DOMAIN A /\ \A k \in DOMAIN A : k < 2 => k = 1
  BY <1>7
<1>9. Strip(x) # <<>> /\ A = Attempts(Strip(x))
  <2>1. Len(<<>>) = 0
    BY EmptyIs
  <2> QED
    BY <1>1, <1>6, <1>b, <1>z, <2>1
<1>10. Loads(x) = "invalid"
  <2>1. Loads(x) = "string" => x[1] = "q"
    BY <1>1, LoadsIs, StringFirst
  <2>2. Loads(x) = "object" => x[1] = "{"
    BY <1>1, LoadsIs, ObjectWhole
  <2> QED
    BY <1>x, <2>1, <2>2, LoadsIs
<1>11. Loads(o) = "object"
  BY <1>o, LoadsIs
<1>12. ExtractJson(x).object = Strip(A[2])
  BY <1>7, <1>8, <1>9, <1>10, <1>11, FirstJson
<1> QED
  BY <1>7, <1>12, <1>o

\* An object of t that nothing before it opens, or that fills the fence.
Unopened(t, i) == "{" \notin Tokens(SubSeq(t, 1, i - 1))

Fenced(t, i, j) ==
  LET after == Strip(SubSeq(t, j + 1, Len(t))) IN
  /\ t[1] = "f" /\ Tokens(SubSeq(t, Find(t, "n") + 1, i - 1)) \subseteq Blank
  /\ after # <<>> /\ after[1] = "f" /\ "f" \notin Tokens(Tail(after))

WholeIn(t, o) == \E i, j \in DOMAIN t : o = SubSeq(t, i, j) /\ (Unopened(t, i) \/ Fenced(t, i, j))

LEMMA UnopenedIs ==
  ASSUME NEW t \in Texts, NEW i \in 1 .. Len(t), \A k \in 1 .. i - 1 : t[k] # "{"
  PROVE  Unopened(t, i)
<1>1. Tokens(SubSeq(t, 1, i - 1)) = {t[k] : k \in 1 .. i - 1}
  BY TokensBefore
<1> QED
  BY <1>1 DEF Unopened

LEMMA TextWhole ==
  ASSUME NEW t \in Texts, t \in JsonObjects
  PROVE  WholeIn(t, t)
<1>1. PICK i, j : i = 1 /\ j = Len(t)
  OBVIOUS
<1>2. i \in 1 .. Len(t) /\ j \in 1 .. Len(t) /\ DOMAIN t = 1 .. Len(t) /\ i - 1 = 0 /\ i \in Int
  <2>1. Len(t) \in Nat /\ 2 <= Len(t) /\ DOMAIN t = 1 .. Len(t)
    BY ObjectWhole, Places
  <2> QED
    BY <1>1, <2>1
<1>3. t = SubSeq(t, i, j)
  <2>1. SubSeq(t, i, j) = Piece(t, i - 1, j)
    BY <1>2, SubSeqIs
  <2> QED
    BY <1>1, <1>2, <2>1, Whole
<1>4. Unopened(t, i)
  <2>1. 1 .. i - 1 = {}
    BY <1>1
  <2>2. \A k \in 1 .. i - 1 : t[k] # "{"
    BY <2>1
  <2> QED
    BY <1>2, <2>2, UnopenedIs
<1> QED
  BY <1>2, <1>3, <1>4 DEF WholeIn

LEMMA BalancedWhole ==
  ASSUME NEW t \in Texts, FirstBalancedObject(t) # None, Strip(FirstBalancedObject(t)) \in JsonObjects
  PROVE  WholeIn(t, Strip(FirstBalancedObject(t)))
<1>1. PICK i : i = Find(t, "{")
  OBVIOUS
<1>2. i \in 1 .. Len(t) /\ \E e \in i .. Len(t) : FirstBalancedObject(t) = Piece(t, i - 1, e)
  BY <1>1, BalancedIs
<1>3. PICK e \in i .. Len(t) : FirstBalancedObject(t) = Piece(t, i - 1, e)
  BY <1>2
<1>4. Len(t) \in Nat /\ DOMAIN t = 1 .. Len(t)
  BY Places
<1>5. t[i] = "{" /\ \A k \in 1 .. i - 1 : t[k] # "{"
  <2>0. i # 0
    BY <1>2
  <2>1. Find(t, "{") # 0
    BY <1>1, <2>0
  <2>2. t[Find(t, "{")] = "{" /\ \A k \in 1 .. Find(t, "{") - 1 : t[k] # "{"
    BY <2>1, FindIs
  <2> QED
    BY <1>1, <2>2
<1>6. PICK a, n, o : a = i - 1 /\ n = e - a /\ o = Piece(t, a, e)
  OBVIOUS
<1>7. a \in Nat /\ e \in Nat /\ a <= e /\ e <= Len(t) /\ n \in Nat /\ 1 \in 1 .. n /\ a + 1 = i
  BY <1>2, <1>4, <1>6
<1>8. o \in Texts /\ Len(o) = n /\ \A k \in 1 .. n : o[k] = t[a + k]
  <2>1. /\ Piece(t, a, e) \in Texts /\ Len(Piece(t, a, e)) = e - a
        /\ \A k \in 1 .. e - a : Piece(t, a, e)[k] = t[a + k]
    BY <1>7, PieceIs
  <2> QED
    BY <1>6, <2>1
<1>9. o[1] \notin Blank
  BY <1>5, <1>7, <1>8 DEF Blank
<1>10. PICK b \in 1 .. n : Strip(o) = Piece(o, 0, b)
  <2>1. 1 \in 1 .. Len(o)
    BY <1>7, <1>8
  <2>2. PICK c, d \in 1 .. Len(o) : Inked(o, c, d) /\ Strip(o) = Piece(o, c - 1, d)
    BY <1>8, <1>9, <2>1, StripIs
  <2>3. ~ (1 \in 1 .. c - 1)
    BY <1>9, <2>2 DEF Inked
  <2>4. c - 1 = 0
    <3>1. c \in 1 .. n
      BY <1>8, <2>2
    <3> QED
      BY <2>3, <3>1
  <2>5. d \in 1 .. n
    BY <1>8, <2>2
  <2> QED
    BY <2>2, <2>4, <2>5
<1>11. PICK z, j : z = 0 /\ j = a + b
  OBVIOUS
<1>12. z \in Nat /\ b \in Nat /\ z <= b /\ b <= e - a /\ a + z = i - 1 /\ j \in 1 .. Len(t) /\ i \in Int
  BY <1>2, <1>4, <1>6, <1>7, <1>11
<1>13. Strip(o) = SubSeq(t, i, j)
  <2>1. Piece(Piece(t, a, e), z, b) = Piece(t, a + z, a + b)
    <3>1. z \in Nat /\ b \in Nat /\ z <= b /\ b <= e - a
      BY <1>12
    <3>2. a \in Nat /\ e \in Nat /\ a <= e /\ e <= Len(t)
      BY <1>7
    <3> QED
      BY <3>1, <3>2, PieceOfPiece
  <2>2. Strip(o) = Piece(t, i - 1, j)
    BY <1>6, <1>10, <1>11, <1>12, <2>1
  <2> QED
    BY <1>12, <2>2, SubSeqIs
<1>14. Unopened(t, i)
  BY <1>2, <1>5, UnopenedIs
<1>15. FirstBalancedObject(t) = o
  BY <1>3, <1>6
<1> QED
  BY <1>2, <1>4, <1>12, <1>13, <1>14, <1>15 DEF WholeIn

\* What is between the end of the object and the fence that closes it is blank.
LEMMA AfterFence ==
  ASSUME NEW t \in Texts, NEW j \in Nat, NEW c \in 1 .. Len(t), j < c, t[c] = "f",
         \A k \in j + 1 .. c - 1 : t[k] \in Blank, \A k \in c + 1 .. Len(t) : t[k] # "f"
  PROVE  LET after == Strip(SubSeq(t, j + 1, Len(t)))
         IN after # <<>> /\ after[1] = "f" /\ "f" \notin Tokens(Tail(after))
<1>1. PICK n, r, m : n = Len(t) - j /\ r = Piece(t, j, Len(t)) /\ m = c - j
  OBVIOUS
<1>2. Len(t) \in Nat /\ n \in Nat /\ m \in 1 .. n /\ j + m = c /\ j <= Len(t) /\ Len(t) <= Len(t)
  <2>1. Len(t) \in Nat
    BY Places
  <2> QED
    BY <1>1, <2>1
<1>3. r \in Texts /\ Len(r) = n /\ \A k \in 1 .. n : r[k] = t[j + k]
  BY <1>1, <1>2, PieceIs
<1>4. r[m] = "f" /\ r[m] \notin Blank
  BY <1>2, <1>3 DEF Blank
<1>5. ASSUME NEW k \in 1 .. m - 1 PROVE r[k] \in Blank
  <2>1. k \in 1 .. n /\ j + k \in j + 1 .. c - 1
    BY <1>1, <1>2
  <2> QED
    BY <1>3, <2>1
<1>6. ASSUME NEW k \in m + 1 .. n PROVE r[k] # "f"
  <2>1. k \in 1 .. n /\ j + k \in c + 1 .. Len(t)
    BY <1>1, <1>2
  <2> QED
    BY <1>3, <2>1
<1>7. PICK b \in m .. n : Inked(r, m, b) /\ Strip(r) = Piece(r, m - 1, b)
  <2>1. PICK a, b \in 1 .. Len(r) : Inked(r, a, b) /\ Strip(r) = Piece(r, a - 1, b)
    BY <1>2, <1>3, <1>4, StripIs
  <2>2. a \in 1 .. n /\ b \in 1 .. n /\ a <= b
    BY <1>3, <2>1 DEF Inked
  <2>3. ~ (m \in 1 .. a - 1) /\ ~ (a \in 1 .. m - 1)
    BY <1>4, <1>5, <2>1 DEF Inked
  <2>4. a = m
    BY <1>2, <2>2, <2>3
  <2>5. b \in m .. n
    BY <1>2, <2>2, <2>4
  <2> QED
    BY <2>1, <2>4, <2>5
<1>8. PICK p, u, l : p = Strip(r) /\ u = m - 1 /\ l = b - u
  OBVIOUS
<1>9. u \in Nat /\ b \in Nat /\ u <= b /\ b <= n /\ l \in Nat /\ 1 \in 1 .. l /\ u + 1 = m
  BY <1>2, <1>8
<1>10. p \in Texts /\ Len(p) = l /\ \A k \in 1 .. l : p[k] = r[u + k]
  <2>1. p = Piece(r, u, b)
    BY <1>7, <1>8
  <2>2. u \in Nat /\ b \in Nat /\ u <= b /\ b <= Len(r)
    BY <1>3, <1>9
  <2>3. /\ Piece(r, u, b) \in Texts /\ Len(Piece(r, u, b)) = b - u
        /\ \A k \in 1 .. b - u : Piece(r, u, b)[k] = r[u + k]
    BY <1>3, <2>2, PieceIs
  <2> QED
    BY <1>8, <2>1, <2>3
<1>11. p[1] = "f"
  BY <1>4, <1>9, <1>10
<1>12. p # <<>>
  BY <1>9, <1>10, EmptyIs
<1>13. "f" \notin Tokens(Tail(p))
  <2>1. PICK q : q = Tail(p)
    OBVIOUS
  <2>2. q \in Texts /\ Len(q) = Len(p) - 1 /\ \A k \in 1 .. Len(p) - 1 : q[k] = p[k + 1]
    BY <1>10, <1>12, <2>1, HeadTailProperties DEF Texts
  <2>3. DOMAIN q = 1 .. l - 1
    BY <1>10, <2>2, Places
  <2>4. ASSUME NEW k \in DOMAIN q PROVE q[k] # "f"
    <3>0. k \in 1 .. l - 1 /\ l = b - u /\ u = m - 1 /\ b <= n /\ b \in Nat
      BY <1>8, <1>9, <2>3
    <3>1. k \in 1 .. l - 1 /\ k + 1 \in 1 .. l /\ u + (k + 1) \in m + 1 .. n
      BY <1>2, <3>0
    <3> QED
      BY <1>6, <1>10, <2>2, <3>1
  <2> QED
    BY <2>1, <2>4 DEF Tokens
<1>14. SubSeq(t, j + 1, Len(t)) = r
  BY <1>1 DEF Piece
<1> QED
  BY <1>8, <1>11, <1>12, <1>13, <1>14

LEMMA FenceWhole ==
  ASSUME NEW t \in Texts, StripCodeFence(t) # None, Strip(StripCodeFence(t)) \in JsonObjects
  PROVE  WholeIn(t, Strip(StripCodeFence(t)))
<1>1. PICK n, c : n = Find(t, "n") /\ c = RFind(t, "f")
  OBVIOUS
<1>2. t[1] = "f" /\ n # 0 /\ c > n /\ StripCodeFence(t) = Strip(Piece(t, n, c - 1))
  BY <1>1, FenceIs
<1>3. Len(t) \in Nat /\ DOMAIN t = 1 .. Len(t)
  BY Places
<1>4. n \in 1 .. Len(t)
  BY <1>1, <1>2, FindIs
<1>5. c \in 1 .. Len(t) /\ t[c] = "f" /\ \A k \in c + 1 .. Len(t) : t[k] # "f"
  <2>1. c # 0
    BY <1>2, <1>4
  <2> QED
    BY <1>1, <2>1, RFindIs
<1>6. PICK e, l, p : e = c - 1 /\ l = e - n /\ p = Piece(t, n, e)
  OBVIOUS
<1>7. n \in Nat /\ e \in Nat /\ n <= e /\ e <= Len(t) /\ l \in Nat
  BY <1>2, <1>3, <1>4, <1>5, <1>6
<1>8. p \in Texts /\ Len(p) = l /\ \A k \in 1 .. l : p[k] = t[n + k]
  <2>1. /\ Piece(t, n, e) \in Texts /\ Len(Piece(t, n, e)) = e - n
        /\ \A k \in 1 .. e - n : Piece(t, n, e)[k] = t[n + k]
    BY <1>7, PieceIs
  <2> QED
    BY <1>6, <2>1
<1>9. StripCodeFence(t) = Strip(p)
  BY <1>2, <1>6
<1>10. PICK a, b \in 1 .. l : Inked(p, a, b) /\ Strip(p) = Piece(p, a - 1, b)
  <2>1. Strip(p) # <<>>
    <3> SUFFICES ASSUME Strip(p) = <<>> PROVE FALSE
      OBVIOUS
    <3>1. PICK v \in Texts : v = <<>> /\ Len(v) = 0
      BY EmptyIs
    <3>2. Strip(v) = v
      <4>1. ~ \E x \in 1 .. Len(v) : TRUE
        BY <3>1
      <4> QED
        BY <3>1, <4>1, StripIs
    <3>3. v \in JsonObjects
      BY <1>9, <3>1, <3>2
    <3>4. 2 <= Len(v)
      BY <3>3, ObjectWhole
    <3> QED
      BY <3>1, <3>4
  <2> QED
    BY <1>8, <2>1, StripIs
<1>11. PICK i, j, u : i = n + a /\ j = n + b /\ u = a - 1
  OBVIOUS
<1>12. a <= b /\ p[a] \notin Blank /\ p[b] \notin Blank
       /\ (\A k \in 1 .. a - 1 : p[k] \in Blank) /\ (\A k \in b + 1 .. Len(p) : p[k] \in Blank)
  BY <1>10 DEF Inked
<1>13. /\ u \in Nat /\ b \in Nat /\ u < b /\ u <= b /\ b <= l /\ u + 1 = a /\ n + u = i - 1
       /\ i \in 1 .. Len(t) /\ j \in 1 .. Len(t) /\ i \in Int /\ j \in Nat /\ j < c
  <2>1. a <= b /\ a \in 1 .. l /\ b \in 1 .. l
    BY <1>12
  <2>2. n \in Nat /\ e \in Nat /\ e <= Len(t) /\ l = e - n /\ Len(t) \in Nat
    BY <1>3, <1>6, <1>7
  <2>3. /\ u \in Nat /\ b \in Nat /\ u < b /\ u <= b /\ b <= l /\ u + 1 = a /\ n + u = i - 1
    BY <1>11, <2>1, <2>2
  <2>4. i \in Int /\ j \in Nat /\ 1 <= i /\ i <= Len(t) /\ 1 <= j /\ j <= e
    BY <1>11, <2>1, <2>2
  <2>5. i \in 1 .. Len(t) /\ j \in 1 .. Len(t)
    BY <2>2, <2>4
  <2>6. j < c
    <3>1. e = c - 1 /\ c \in Int
      BY <1>5, <1>6
    <3> QED
      BY <2>2, <2>4, <3>1
  <2> QED
    BY <2>3, <2>4, <2>5, <2>6
<1>14. Strip(StripCodeFence(t)) = SubSeq(t, i, j)
  <2>1. Strip(Piece(p, u, b)) = Piece(p, u, b)
    BY <1>8, <1>12, <1>13, Stripped
  <2>2. Piece(Piece(t, n, e), u, b) = Piece(t, n + u, n + b)
    BY <1>6, <1>7, <1>13, PieceOfPiece
  <2>3. Strip(StripCodeFence(t)) = Piece(t, i - 1, j)
    BY <1>6, <1>9, <1>10, <1>11, <1>13, <2>1, <2>2
  <2> QED
    BY <1>13, <2>3, SubSeqIs
<1>15. Tokens(SubSeq(t, n + 1, i - 1)) \subseteq Blank
  <2>1. PICK f : f = i - 1
    OBVIOUS
  <2>2. f \in Nat /\ n <= f /\ f <= Len(t) /\ f = n + u
    BY <1>3, <1>7, <1>13, <2>1
  <2>3. Tokens(Piece(t, n, f)) = {t[k] : k \in n + 1 .. f}
    BY <1>7, <2>2, TokensOf
  <2>4. ASSUME NEW k \in n + 1 .. f PROVE t[k] \in Blank
    <3>1. k - n \in 1 .. a - 1 /\ k - n \in 1 .. l /\ n + (k - n) = k
      BY <1>7, <1>11, <1>13, <2>2
    <3> QED
      BY <1>8, <1>12, <3>1
  <2>5. Tokens(Piece(t, n, f)) \subseteq Blank
    BY <2>3, <2>4
  <2> QED
    BY <2>1, <2>5 DEF Piece
<1>16. \A k \in j + 1 .. c - 1 : t[k] \in Blank
  <2> SUFFICES ASSUME NEW k \in j + 1 .. c - 1 PROVE t[k] \in Blank
    OBVIOUS
  <2>1. k - n \in b + 1 .. l /\ k - n \in 1 .. l /\ n + (k - n) = k
    BY <1>5, <1>6, <1>7, <1>11, <1>13
  <2> QED
    BY <1>8, <1>12, <2>1
<1>17. Fenced(t, i, j)
  <2>1. LET after == Strip(SubSeq(t, j + 1, Len(t)))
        IN after # <<>> /\ after[1] = "f" /\ "f" \notin Tokens(Tail(after))
    BY <1>5, <1>13, <1>16, AfterFence
  <2> QED
    BY <1>1, <1>2, <1>15, <2>1 DEF Fenced
<1> QED
  BY <1>3, <1>13, <1>14, <1>17 DEF WholeIn

LEMMA StripOnce ==
  ASSUME NEW x \in Texts
  PROVE  Strip(x) \in Texts /\ Strip(Strip(x)) = Strip(x)
<1>1. PICK v \in Texts : v = <<>> /\ Len(v) = 0
  BY EmptyIs
<1>2. CASE Strip(x) = <<>>
  <2>1. ~ \E k \in 1 .. Len(v) : TRUE
    BY <1>1
  <2>2. Strip(v) = v
    BY <1>1, <2>1, StripIs
  <2> QED
    BY <1>1, <1>2, <2>2
<1>3. CASE Strip(x) # <<>>
  <2>1. PICK a, b \in 1 .. Len(x) : Inked(x, a, b) /\ Strip(x) = Piece(x, a - 1, b)
    BY <1>3, StripIs
  <2>2. a <= b /\ x[a] \notin Blank /\ x[b] \notin Blank /\ Len(x) \in Nat
    BY <2>1, Places DEF Inked
  <2>3. PICK u \in Nat : u = a - 1 /\ u + 1 = a
    BY <2>2, Before
  <2>4. u < b /\ u <= b /\ b <= Len(x) /\ b \in Nat
    <3>1. a <= b
      BY <2>2
    <3> QED
      BY <2>2, <2>3, <3>1
  <2>5. Piece(x, u, b) \in Texts /\ Strip(Piece(x, u, b)) = Piece(x, u, b)
    <3>1. x[u + 1] \notin Blank /\ x[b] \notin Blank
      BY <2>2, <2>3
    <3>2. Piece(x, u, b) \in Texts
      BY <2>4, PieceIs
    <3>3. Strip(Piece(x, u, b)) = Piece(x, u, b)
      BY <2>4, <3>1, Stripped
    <3> QED
      BY <3>2, <3>3
  <2> QED
    BY <2>1, <2>3, <2>5
<1> QED
  BY <1>2, <1>3

LEMMA ObjectTaken ==
  ASSUME NEW x \in Texts, ExtractJson(x).object # None
  PROVE  WholeIn(Strip(x), ExtractJson(x).object)
<1>1. PICK t, f, o, A : t = Strip(x) /\ f = StripCodeFence(t) /\ o = FirstBalancedObject(t) /\ A = Attempts(t)
  OBVIOUS
<1>2. t \in Texts /\ Strip(t) = t
  BY <1>1, StripOnce
<1>3. /\ A[1] = t
      /\ DOMAIN A = 1 .. IF f = None THEN (IF o = None THEN 1 ELSE 2) ELSE (IF o = None THEN 2 ELSE 3)
      /\ f # None => A[2] = f
      /\ o # None => A[IF f = None THEN 2 ELSE 3] = o
  BY <1>1, AttemptsAre
<1>4. DOMAIN A \in SUBSET Nat
  BY <1>3
<1>5. PICK m \in DOMAIN A : Loads(A[m]) = "object" /\ ExtractJson(x).object = Strip(A[m])
  BY <1>1, <1>4, FoundFrom
<1>6. Strip(A[m]) \in JsonObjects
  BY <1>5, LoadsIs
<1>7. A[m] = t \/ (f # None /\ A[m] = f) \/ (o # None /\ A[m] = o)
  BY <1>3
<1>8. CASE A[m] = t
  BY <1>1, <1>2, <1>5, <1>6, <1>8, TextWhole
<1>9. CASE f # None /\ A[m] = f
  BY <1>1, <1>2, <1>5, <1>6, <1>9, FenceWhole
<1>10. CASE o # None /\ A[m] = o
  BY <1>1, <1>2, <1>5, <1>6, <1>10, BalancedWhole
<1> QED
  BY <1>7, <1>8, <1>9, <1>10

\* What the two wrappings come to.
LEMMA ProseIs ==
  ASSUME NEW x \in Texts, NEW i \in 1 .. Len(x), NEW j \in 1 .. Len(x), SubSeq(x, i, j) \in JsonObjects,
         x[1] \notin {"q", "f", "n"}, "{" \notin Tokens(SubSeq(x, 1, i - 1))
  PROVE  InProse(x, i, j, SubSeq(x, i, j))
<1>1. Tokens(SubSeq(x, 1, i - 1)) = {x[k] : k \in 1 .. i - 1}
  BY TokensBefore
<1>2. \A k \in 1 .. i - 1 : x[k] # "{"
  BY <1>1
<1> QED
  BY <1>2 DEF InProse

LEMMA FencedIs ==
  ASSUME NEW x \in Texts, NEW i \in 1 .. Len(x), NEW j \in 1 .. Len(x), SubSeq(x, i, j) \in JsonObjects,
         x[1] = "f", i > 1, x[i - 1] = "n", SubSeq(x, j + 1, Len(x)) = <<"f">>,
         "n" \notin Tokens(SubSeq(x, 1, i - 2))
  PROVE  InFence(x, i, j, SubSeq(x, i, j))
<1>1. PICK h : h = i - 1
  OBVIOUS
<1>2. h \in 1 .. Len(x) /\ h - 1 = i - 2
  <2>1. Len(x) \in Nat
    BY Places
  <2> QED
    BY <1>1, <2>1
<1>3. Tokens(SubSeq(x, 1, h - 1)) = {x[k] : k \in 1 .. h - 1}
  BY <1>2, TokensBefore
<1>4. \A k \in 1 .. i - 2 : x[k] # "n"
  BY <1>2, <1>3
<1>5. PICK l, o : l = Len(x) /\ o = One("f")
  OBVIOUS
<1>6. j \in Nat /\ l \in Nat /\ j <= l /\ l <= Len(x)
  <2>1. Len(x) \in Nat
    BY Places
  <2> QED
    BY <1>5, <2>1
<1>7. Piece(x, j, l) = o
  BY <1>5 DEF Piece, One
<1>8. Len(o) = l - j /\ \A k \in 1 .. l - j : o[k] = x[j + k]
  BY <1>6, <1>7, PieceIs
<1>9. o \in Texts /\ 0 < Len(o) /\ Len(o) < 2 /\ o[1] = "f"
  BY <1>5, OneLong, TokensAre
<1>10. l = j + 1 /\ 1 \in 1 .. l - j
  <2>1. 0 < l - j /\ l - j < 2
    BY <1>8, <1>9
  <2> QED
    BY <1>6, <2>1
<1>11. x[j + 1] = "f"
  BY <1>8, <1>9, <1>10
<1> QED
  BY <1>4, <1>5, <1>10, <1>11 DEF InFence

-----------------------------------------------------------------------------
(* What was found.                                                         *)

Reading ==
  /\ child.text \in Texts /\ text \in Texts
  /\ pc \in {"invoke", "extract", "validate", "decide", "done"}
  /\ pc = "invoke" => text = <<>>
  /\ pc \in {"invoke", "extract"} => found = None
  /\ found # None => found = ExtractJson(text).object
  /\ Extracted => found = ExtractJson(text).object

LEMMA InitReading == Init => Reading
<1> SUFFICES ASSUME Init PROVE Reading
  OBVIOUS
<1>1. \A c \in Child : c.text \in Texts
  BY DEF Child, Texts
<1>2. child \in Child
  BY InputsAssumption DEF Init
<1>3. <<>> \in Texts
  BY EmptyIs
<1> QED
  BY <1>1, <1>2, <1>3 DEF Init, Reading, Extracted

LEMMA ReadingNext == Reading /\ [Next]_vars => Reading'
<1> SUFFICES ASSUME Reading, [Next]_vars
             PROVE  Reading'
  OBVIOUS
<1>o. ExtractJson(text).error # None => ExtractJson(text).object = None
  BY DEF ExtractJson
<1>1. CASE Respond
  BY <1>1 DEF Respond, Goto, Reading, Extracted
<1>2. CASE Unavailable
  BY <1>2 DEF Unavailable, Goto, Reading, Extracted
<1>3. CASE Extract
  BY <1>3 DEF Extract, Goto, Reading, Extracted
<1>4. CASE ExtractFails
  BY <1>4, <1>o DEF ExtractFails, SchemaFails, Goto, Reading, Extracted
<1>5. CASE Accept
  BY <1>5 DEF Accept, Goto, Reading, Extracted
<1>6. CASE Reject
  BY <1>6 DEF Reject, SchemaFails, Goto, Reading, Extracted
<1>7. CASE NoLesson
  BY <1>7 DEF NoLesson, Goto, Reading, Extracted
<1>8. CASE UNCHANGED vars
  BY <1>8 DEF vars, Reading, Extracted
<1> QED
  BY <1>1, <1>2, <1>3, <1>4, <1>5, <1>6, <1>7, <1>8 DEF Next

\* The object that becomes the answer is the right one, in every response: it is
\* recovered from the prose or the fence around it (docstring of extract_json),
\* and it is a whole object of the response, never one in a string or inside
\* another, whatever braces and escapes its strings hold.
THEOREM ExtractionRight == Spec => []ExtractionIsRight
<1>1. ASSUME Reading
      PROVE  ExtractionIsRight
  <2>1. AnswerIsWhole
    <3> SUFFICES ASSUME found # None
                 PROVE  WholeIn(Strip(text), found)
      BY DEF AnswerIsWhole, WholeIn, Unopened, Fenced
    <3> QED
      BY <1>1, ObjectTaken DEF Reading
  <2>2. WrappedObjectRecovered
    <3> SUFFICES ASSUME Extracted, NEW i \in DOMAIN text, NEW j \in DOMAIN text,
                        SubSeq(text, i, j) \in JsonObjects,
                        \/ /\ text[1] \notin {"q", "f", "n"}
                           /\ "{" \notin Tokens(SubSeq(text, 1, i - 1))
                        \/ /\ text[1] = "f" /\ i > 1 /\ text[i - 1] = "n"
                           /\ SubSeq(text, j + 1, Len(text)) = <<"f">>
                           /\ "n" \notin Tokens(SubSeq(text, 1, i - 2))
                 PROVE  found = SubSeq(text, i, j)
      BY DEF WrappedObjectRecovered
    <3>1. text \in Texts /\ found = ExtractJson(text).object
      BY <1>1 DEF Reading
    <3>2. i \in 1 .. Len(text) /\ j \in 1 .. Len(text)
      BY <3>1, Places
    <3>3. InProse(text, i, j, SubSeq(text, i, j)) \/ InFence(text, i, j, SubSeq(text, i, j))
      BY <3>1, <3>2, ProseIs, FencedIs
    <3> QED
      BY <3>1, <3>2, <3>3, FirstBraceTaken, FenceTaken
  <2> QED
    BY <2>1, <2>2 DEF ExtractionIsRight
<1> QED
  BY <1>1, InitReading, ReadingNext, PTL DEF Spec

-----------------------------------------------------------------------------
(* What the scanner read, from where it stands.                            *)

Out(s) == ~ s.string /\ ~ s.escaped
In(s)  == s.string /\ ~ s.escaped
Esc(s) == s.string /\ s.escaped

\* The ways it goes on without an end.
Looses(s, r, c)  == Out(s) /\ Out(r) /\ r.depth = s.depth /\ c \notin {"q", "{", "}"}
Quotes(s, r, c)  == Out(s) /\ In(r) /\ r.depth = s.depth /\ c = "q"
Opens(s, r, c)   == Out(s) /\ Out(r) /\ r.depth = s.depth + 1 /\ c = "{"
Closes(s, r, c)  == Out(s) /\ Out(r) /\ r.depth = s.depth - 1 /\ c = "}" /\ s.depth # 1
Slashes(s, r, c) == In(s) /\ Esc(r) /\ r.depth = s.depth /\ c = "b"
Unquotes(s, r, c) == In(s) /\ Out(r) /\ r.depth = s.depth /\ c = "q"
Plains(s, r, c)  == In(s) /\ In(r) /\ r.depth = s.depth /\ c \notin {"b", "q"}
Escapees(s, r, c) == Esc(s) /\ In(r) /\ r.depth = s.depth

Steps(s, r, c) ==
  \/ Looses(s, r, c) \/ Quotes(s, r, c) \/ Opens(s, r, c) \/ Closes(s, r, c)
  \/ Slashes(s, r, c) \/ Unquotes(s, r, c) \/ Plains(s, r, c) \/ Escapees(s, r, c)

LEMMA MovesSteps ==
  ASSUME NEW s, NEW r, NEW i \in Nat, NEW d \in Int, NEW c, Moves(s, r, i, d, c),
         Outside(s, i - 1, d) \/ InString(s, i - 1, d) \/ Escaped(s, i - 1, d)
  PROVE  \/ Steps(s, r, c) /\ s.depth \in Int /\ r.depth \in Int /\ s.end = 0 /\ r.end = 0
         \/ Outside(s, i - 1, d) /\ d = 1 /\ c = "}" /\ Ended(r, i)
<1>1. CASE Outside(s, i - 1, d)
  <2>1. Out(s) /\ s.depth = d /\ s.end = 0
    BY <1>1 DEF Outside, Going, Out
  <2>2. CASE c = "q"
    <3>1. InString(r, i, d)
      BY <1>1, <2>2 DEF Moves
    <3>2. In(r) /\ r.depth = d /\ r.end = 0
      BY <3>1 DEF InString, Going, In
    <3> QED
      BY <2>1, <2>2, <3>2 DEF Steps, Quotes
  <2>3. CASE c = "{"
    <3>1. Outside(r, i, d + 1)
      BY <1>1, <2>3 DEF Moves
    <3>2. Out(r) /\ r.depth = d + 1 /\ r.end = 0
      BY <3>1 DEF Outside, Going, Out
    <3>3. r.depth = s.depth + 1
      BY <2>1, <3>2
    <3>4. Opens(s, r, c)
      BY <2>1, <2>3, <3>2, <3>3 DEF Opens
    <3> QED
      BY <2>1, <3>2, <3>4 DEF Steps
  <2>4. CASE c = "}" /\ d = 1
    BY <1>1, <2>4 DEF Moves
  <2>5. CASE c = "}" /\ d # 1
    <3>1. Outside(r, i, d - 1)
      BY <1>1, <2>5 DEF Moves
    <3>2. Out(r) /\ r.depth = d - 1 /\ r.end = 0
      BY <3>1 DEF Outside, Going, Out
    <3>3. r.depth = s.depth - 1
      BY <2>1, <3>2
    <3>4. Closes(s, r, c)
      BY <2>1, <2>5, <3>2, <3>3 DEF Closes
    <3> QED
      BY <2>1, <3>2, <3>4 DEF Steps
  <2>6. CASE c \notin {"q", "{", "}"}
    <3>1. Outside(r, i, d)
      BY <1>1, <2>6 DEF Moves
    <3>2. Out(r) /\ r.depth = d /\ r.end = 0
      BY <3>1 DEF Outside, Going, Out
    <3> QED
      BY <2>1, <2>6, <3>2 DEF Steps, Looses
  <2> QED
    BY <2>2, <2>3, <2>4, <2>5, <2>6
<1>2. CASE InString(s, i - 1, d)
  <2>1. In(s) /\ s.depth = d /\ s.end = 0
    BY <1>2 DEF InString, Going, In
  <2>2. CASE c = "b"
    <3>1. Escaped(r, i, d)
      BY <1>2, <2>2 DEF Moves
    <3>2. Esc(r) /\ r.depth = d /\ r.end = 0
      BY <3>1 DEF Escaped, Going, Esc
    <3> QED
      BY <2>1, <2>2, <3>2 DEF Steps, Slashes
  <2>3. CASE c = "q"
    <3>1. Outside(r, i, d)
      BY <1>2, <2>3 DEF Moves
    <3>2. Out(r) /\ r.depth = d /\ r.end = 0
      BY <3>1 DEF Outside, Going, Out
    <3> QED
      BY <2>1, <2>3, <3>2 DEF Steps, Unquotes
  <2>4. CASE c \notin {"b", "q"}
    <3>1. InString(r, i, d)
      BY <1>2, <2>4 DEF Moves
    <3>2. In(r) /\ r.depth = d /\ r.end = 0
      BY <3>1 DEF InString, Going, In
    <3> QED
      BY <2>1, <2>4, <3>2 DEF Steps, Plains
  <2> QED
    BY <2>2, <2>3, <2>4
<1>3. CASE Escaped(s, i - 1, d)
  <2>1. Esc(s) /\ s.depth = d /\ s.end = 0
    BY <1>3 DEF Escaped, Going, Esc
  <2>2. InString(r, i, d)
    BY <1>3 DEF Moves
  <2>3. In(r) /\ r.depth = d /\ r.end = 0
    BY <2>2 DEF InString, Going, In
  <2> QED
    BY <2>1, <2>3 DEF Steps, Escapees
<1> QED
  BY <1>1, <1>2, <1>3

LEMMA ScanSteps ==
  ASSUME NEW t \in Texts, NEW start \in Nat \ {0}, start <= Len(t), NEW i \in start .. Len(t),
         Scanned(t, start)[i - 1].end = 0
  PROVE  LET S == Scanned(t, start) IN
         \/ Steps(S[i - 1], S[i], t[i]) /\ S[i - 1].depth \in Int /\ S[i].depth \in Int /\ S[i].end = 0
         \/ Outside(S[i - 1], i - 1, 1) /\ t[i] = "}" /\ Ended(S[i], i)
<1> DEFINE S == Scanned(t, start)
<1>0. Len(t) \in Nat /\ i - 1 \in start - 1 .. Len(t) /\ i \in Nat
  BY Places
<1>1. Reached(S[i - 1], i - 1, start)
  BY <1>0, AlwaysReached
<1>m. \A d \in Int : S[i - 1] \in States => Moves(S[i - 1], S[i], i, d, t[i])
  BY ScanMoves
<1>e. S[i - 1].end = 0
  OBVIOUS
<1> HIDE DEF S
<1>2. PICK d \in Int : Outside(S[i - 1], i - 1, d) \/ InString(S[i - 1], i - 1, d) \/ Escaped(S[i - 1], i - 1, d)
  <2>1. ASSUME NEW k \in start .. i - 1 PROVE ~ Ended(S[i - 1], k)
    BY <1>e DEF Ended
  <2> QED
    BY <1>1, <2>1 DEF Reached
<1>3. S[i - 1] \in States
  BY <1>2 DEF Outside, InString, Escaped, Going
<1>4. Moves(S[i - 1], S[i], i, d, t[i])
  BY <1>m, <1>3
<1>5. \/ Steps(S[i - 1], S[i], t[i]) /\ S[i - 1].depth \in Int /\ S[i].depth \in Int /\ S[i].end = 0
      \/ Outside(S[i - 1], i - 1, 1) /\ t[i] = "}" /\ Ended(S[i], i)
  <2>1. \/ Steps(S[i - 1], S[i], t[i]) /\ S[i - 1].depth \in Int /\ S[i].depth \in Int /\ S[i].end = 0
        \/ Outside(S[i - 1], i - 1, d) /\ d = 1 /\ t[i] = "}" /\ Ended(S[i], i)
    BY <1>0, <1>2, <1>4, MovesSteps
  <2> QED
    BY <2>1
<1> QED
  BY <1>5 DEF S

LEMMA StepsAre ==
  ASSUME NEW s, NEW r, NEW c, Steps(s, r, c)
  PROVE  /\ In(r) /\ ~ Out(s) => ((In(s) /\ c \notin {"b", "q"}) \/ Esc(s)) /\ r.depth = s.depth
         /\ Esc(r) => In(s) /\ c = "b" /\ r.depth = s.depth
         /\ Out(s) /\ ~ Out(r) => In(r) /\ c = "q" /\ r.depth = s.depth
         /\ Out(r) => Looses(s, r, c) \/ Opens(s, r, c) \/ Closes(s, r, c) \/ Unquotes(s, r, c)
         /\ r.depth = s.depth \/ Opens(s, r, c) \/ Closes(s, r, c)
         /\ Out(s) \/ In(s) \/ Esc(s)
<1> USE DEF Out, In, Esc
<1>1. CASE Looses(s, r, c)
  BY <1>1 DEF Looses
<1>2. CASE Quotes(s, r, c)
  BY <1>2 DEF Quotes
<1>3. CASE Opens(s, r, c)
  <2>1. Out(s) /\ Out(r)
    BY <1>3 DEF Opens
  <2> QED
    BY <1>3, <2>1
<1>4. CASE Closes(s, r, c)
  <2>1. Out(s) /\ Out(r)
    BY <1>4 DEF Closes
  <2> QED
    BY <1>4, <2>1
<1>5. CASE Slashes(s, r, c)
  BY <1>5 DEF Slashes
<1>6. CASE Unquotes(s, r, c)
  <2>1. In(s) /\ Out(r) /\ r.depth = s.depth
    BY <1>6 DEF Unquotes
  <2> QED
    BY <1>6, <2>1
<1>7. CASE Plains(s, r, c)
  BY <1>7 DEF Plains
<1>8. CASE Escapees(s, r, c)
  BY <1>8 DEF Escapees
<1> QED
  BY <1>1, <1>2, <1>3, <1>4, <1>5, <1>6, <1>7, <1>8 DEF Steps

\* States after each of the tokens of t from one place to another, without an end.
Run(S, t, lo, hi) ==
  \A i \in lo + 1 .. hi : Steps(S[i - 1], S[i], t[i]) /\ S[i - 1].depth \in Int /\ S[i].depth \in Int

\* A grammar that leaves out no token it could have.
Full(plain, escaped, loose) ==
  plain = Token \ {"q", "b"} /\ escaped = Token /\ loose = Token \ {"{", "}", "q"}

LEMMA FullGrammar ==
  ASSUME NEW plain, NEW escaped, NEW loose, Full(plain, escaped, loose)
  PROVE  Grammar(plain, escaped, loose)
BY DEF Full, Grammar

\* What is read without leaving a string is a word of its inside.
LEMMA RunInside ==
  ASSUME NEW plain, NEW escaped, NEW loose, Full(plain, escaped, loose), NEW max \in Nat,
         NEW t \in Texts, NEW S, NEW a \in Nat, NEW hi \in Nat, hi <= Len(t), Run(S, t, a, hi), In(S[a])
  PROVE  \A b \in a .. hi :
           b - a <= max /\ In(S[b]) /\ (\A i \in a .. b : ~ Out(S[i]))
             => Piece(t, a, b) \in Inside(plain, escaped, max)[b - a] /\ S[b].depth = S[a].depth
<1> DEFINE I == Inside(plain, escaped, max)
           Reads(b) == b - a <= max /\ In(S[b]) /\ (\A i \in a .. b : ~ Out(S[i]))
           Fits(b) == Piece(t, a, b) \in I[b - a] /\ S[b].depth = S[a].depth
           T == {n \in Nat : \A b \in a .. hi : b - a = n /\ Reads(b) => Fits(b)}
<1>g. plain = Token \ {"q", "b"} /\ escaped = Token
  BY DEF Full
<1>l. Len(t) \in Nat /\ \A i \in 1 .. Len(t) : t[i] \in Token
  BY Places
<1>i. ASSUME NEW b \in Nat, a <= b, b <= Len(t), b - a <= max,
             \/ a = b
             \/ a < b /\ t[b] \in plain /\ Piece(t, a, b - 1) \in I[b - 1 - a]
             \/ a + 1 < b /\ t[b - 1] = "b" /\ t[b] \in escaped /\ Piece(t, a, b - 2) \in I[b - 2 - a]
      PROVE  Piece(t, a, b) \in I[b - a]
  BY <1>i, FullGrammar, InsideAt
<1>r. \A i \in a + 1 .. hi : Steps(S[i - 1], S[i], t[i])
  BY DEF Run
<1>e. \A s : In(s) => ~ Esc(s)
  BY DEF In, Esc
<1> HIDE DEF I
<1>1. ASSUME NEW n \in Nat, \A m \in 0 .. n - 1 : m \in T PROVE n \in T
  <2>1. SUFFICES ASSUME NEW b \in a .. hi, b - a = n, Reads(b) PROVE Fits(b)
    OBVIOUS
  <2>2. b \in Nat /\ a <= b /\ b <= Len(t) /\ b <= hi /\ b - a <= max
    BY <2>1
  <2>h. ASSUME NEW c \in a .. hi, c < b, In(S[c]) PROVE Fits(c)
    <3>1. c - a \in 0 .. n - 1 /\ c - a <= max /\ \A i \in a .. c : i \in a .. b
      BY <2>1, <2>2, <2>h
    <3>2. Reads(c)
      BY <2>1, <2>h, <3>1
    <3> QED
      BY <1>1, <3>1, <3>2
  <2>o. \A i \in a .. b : ~ Out(S[i])
    BY <2>1
  <2>b. In(S[b])
    BY <2>1
  <2> HIDE DEF T, Reads
  <2>3. CASE a = b
    BY <1>i, <2>2, <2>3
  <2>4. CASE a # b
    <3>1. PICK c : c = b - 1
      OBVIOUS
    <3>2. c \in a .. hi /\ c \in a .. b /\ c < b /\ b \in a + 1 .. hi /\ b \in 1 .. Len(t) /\ a < b /\ c \in Nat
      BY <1>l, <2>2, <2>4, <3>1
    <3>3. Steps(S[c], S[b], t[b]) /\ ~ Out(S[c])
      BY <1>r, <2>o, <3>1, <3>2
    <3>4. CASE In(S[c]) /\ t[b] \notin {"b", "q"} /\ S[b].depth = S[c].depth
      <4>1. Piece(t, a, c) \in I[c - a] /\ S[c].depth = S[a].depth
        BY <2>h, <3>2, <3>4
      <4>2. t[b] \in plain
        BY <1>g, <1>l, <3>2, <3>4
      <4>3. Piece(t, a, b) \in I[b - a]
        BY <1>i, <2>2, <3>1, <3>2, <4>1, <4>2
      <4> QED
        BY <3>4, <4>1, <4>3
    <3>5. CASE Esc(S[c]) /\ S[b].depth = S[c].depth
      <4>1. c # a
        BY <1>e, <3>5
      <4>2. PICK e : e = c - 1
        OBVIOUS
      <4>3. e \in a .. hi /\ e < b /\ c \in a + 1 .. hi /\ a + 1 < b /\ b - 2 = e
        BY <3>1, <3>2, <4>1, <4>2
      <4>4. Steps(S[e], S[c], t[c])
        BY <1>r, <4>2, <4>3
      <4>5. In(S[e]) /\ t[c] = "b" /\ S[c].depth = S[e].depth
        BY <3>5, <4>4, StepsAre
      <4>6. Piece(t, a, e) \in I[e - a] /\ S[e].depth = S[a].depth
        BY <2>h, <4>3, <4>5
      <4>7. t[b - 1] = "b" /\ t[b] \in escaped /\ Piece(t, a, b - 2) \in I[b - 2 - a]
        BY <1>g, <1>l, <3>1, <3>2, <4>3, <4>5, <4>6
      <4>8. Piece(t, a, b) \in I[b - a]
        BY <1>i, <2>2, <4>3, <4>7
      <4> QED
        BY <3>5, <4>5, <4>6, <4>8
    <3> QED
      BY <2>b, <3>3, <3>4, <3>5, StepsAre
  <2> QED
    BY <2>3, <2>4
<1>2. Nat \subseteq T
  <2> HIDE DEF T
  <2> QED
    BY <1>1, Induction
<1>3. ASSUME NEW b \in a .. hi, Reads(b) PROVE Fits(b)
  <2>1. b - a \in Nat
    OBVIOUS
  <2>2. b - a \in T
    BY <1>2, <2>1
  <2> HIDE DEF Reads, Fits
  <2> QED
    BY <1>3, <2>2
<1> QED
  BY <1>3 DEF I

\* The last place before b that has a property.
LEMMA LastWhere ==
  ASSUME NEW a \in Nat \ {0}, NEW b \in Nat, a < b, NEW K \in SUBSET (a .. b - 1), a \in K, b - 1 \notin K
  PROVE  \E k \in K : /\ k \in a .. b - 2 /\ \A i \in k + 1 .. b - 1 : i \notin K
<1>1. PICK n : n = b - 1
  OBVIOUS
<1>2. n \in Nat /\ K \in SUBSET (1 .. n) /\ K # {}
  BY <1>1
<1>3. PICK k \in K : \A j \in K : j <= k
  BY <1>2, GreatestExists
<1>4. k \in a .. b - 1 /\ k # b - 1
  OBVIOUS
<1>5. k \in a .. b - 2
  BY <1>4
<1>6. ASSUME NEW i \in k + 1 .. b - 1 PROVE i \notin K
  <2>1. ~ (i <= k)
    BY <1>4
  <2> QED
    BY <1>3, <2>1
<1> QED
  BY <1>5, <1>6

\* What is read between two places outside strings, at one depth and never below
\* it, is a word of the content of an object.
LEMMA RunContent ==
  ASSUME NEW plain, NEW escaped, NEW loose, Full(plain, escaped, loose), NEW max \in Nat,
         NEW t \in Texts, NEW S, NEW lo \in Nat \ {0}, NEW hi \in Nat, hi <= Len(t), Run(S, t, lo, hi)
  PROVE  \A a, b \in lo .. hi :
           (/\ a <= b /\ b - a <= max /\ Out(S[a]) /\ Out(S[b]) /\ S[a].depth = S[b].depth
            /\ S[a].depth \in Int /\ \A i \in a .. b : S[i].depth \in Int /\ S[i].depth >= S[a].depth)
             => Piece(t, a, b) \in Content(plain, escaped, loose, max)[b - a]
<1> DEFINE I == Inside(plain, escaped, max)
           C == Content(plain, escaped, loose, max)
           Reads(a, b) == /\ a <= b /\ b - a <= max /\ Out(S[a]) /\ Out(S[b]) /\ S[a].depth = S[b].depth
                         /\ S[a].depth \in Int
                         /\ \A i \in a .. b : S[i].depth \in Int /\ S[i].depth >= S[a].depth
           Fits(a, b) == Piece(t, a, b) \in C[b - a]
           T == {n \in Nat : \A a, b \in lo .. hi : b - a = n /\ Reads(a, b) => Fits(a, b)}
<1>g. loose = Token \ {"q", "{", "}"}
  BY DEF Full
<1>l. Len(t) \in Nat /\ \A i \in 1 .. Len(t) : t[i] \in Token
  BY Places
<1>c. ASSUME NEW a \in Nat, NEW b \in Nat, a <= b, b <= Len(t), b - a <= max,
             \/ a = b
             \/ a < b /\ t[b] \in loose /\ Piece(t, a, b - 1) \in C[b - 1 - a]
             \/ SurroundedAt(C, I, t, a, b, "q", "q")
             \/ SurroundedAt(C, C, t, a, b, "{", "}")
      PROVE  Piece(t, a, b) \in C[b - a]
  BY <1>c, FullGrammar, ContentAt
<1>s. ASSUME NEW a \in lo .. hi, NEW b \in a .. hi, b - a <= max, In(S[a]), In(S[b]),
             \A i \in a .. b : ~ Out(S[i])
      PROVE  Piece(t, a, b) \in I[b - a] /\ S[b].depth = S[a].depth
  <2>1. a \in Nat
    OBVIOUS
  <2>2. Run(S, t, a, hi)
    <3>1. \A i \in a + 1 .. hi : i \in lo + 1 .. hi
      OBVIOUS
    <3> QED
      BY <3>1 DEF Run
  <2> QED
    BY <1>s, <2>1, <2>2, RunInside
<1>r. \A i \in lo + 1 .. hi : Steps(S[i - 1], S[i], t[i])
  BY DEF Run
<1>e. \A s : (Out(s) => ~ In(s)) /\ (In(s) => ~ Out(s)) /\ (Out(s) => ~ Esc(s))
  BY DEF In, Out, Esc
<1> HIDE DEF I, C
<1>1. ASSUME NEW n \in Nat, \A m \in 0 .. n - 1 : m \in T PROVE n \in T
  <2>1. SUFFICES ASSUME NEW a \in lo .. hi, NEW b \in lo .. hi, b - a = n, Reads(a, b) PROVE Fits(a, b)
    OBVIOUS
  <2>2. a \in Nat \ {0} /\ b \in Nat /\ a <= b /\ b <= Len(t) /\ b <= hi /\ b - a <= max /\ lo <= a /\ n <= max
    BY <2>1
  <2>h. ASSUME NEW x \in lo .. hi, NEW y \in lo .. hi, y - x < n, Reads(x, y) PROVE Fits(x, y)
    <3>1. y - x \in 0 .. n - 1
      BY <2>h
    <3> QED
      BY <1>1, <2>h, <3>1
  <2>p. PICK D : D = S[a].depth
    OBVIOUS
  <2>d. /\ D \in Int /\ Out(S[a]) /\ Out(S[b]) /\ S[a].depth = D /\ S[b].depth = D
        /\ \A i \in a .. b : S[i].depth \in Int /\ S[i].depth >= D
    BY <2>1, <2>p
  \* A shorter piece at the same depth, or one deeper.
  <2>i. ASSUME NEW x \in a .. b, NEW y \in x .. b, y - x < n, Out(S[x]), Out(S[y]), S[x].depth = S[y].depth,
               \A i \in x .. y : S[i].depth >= S[x].depth
        PROVE  Piece(t, x, y) \in C[y - x]
    <3>1. /\ x \in lo .. hi /\ y \in lo .. hi /\ x <= y /\ y - x <= max /\ S[x].depth \in Int
          /\ \A i \in x .. y : i \in a .. b
      <4>1. y - x < n /\ n <= max
        BY <2>2, <2>i
      <4>2. x \in lo .. hi /\ y \in lo .. hi /\ x <= y /\ \A i \in x .. y : i \in a .. b
        BY <2>2
      <4>3. S[x].depth \in Int
        BY <2>d
      <4>4. y - x <= max
        BY <4>1, <4>2
      <4> QED
        BY <4>2, <4>3, <4>4
    <3>2. Reads(x, y)
      BY <2>d, <2>i, <3>1
    <3> QED
      BY <2>h, <2>i, <3>1, <3>2
  <2> HIDE DEF T, Reads
  <2>3. CASE a = b
    BY <1>c, <2>2, <2>3
  <2>4. CASE a # b
    <3>1. PICK c : c = b - 1
      OBVIOUS
    <3>2. /\ c \in a .. b /\ c \in Nat /\ c < b /\ a < b /\ b \in lo + 1 .. hi /\ b \in 1 .. Len(t)
          /\ a \in a .. b /\ c \in a .. b - 1 /\ a \in a .. b - 1
      BY <1>l, <2>2, <2>4, <3>1
    <3>3. Steps(S[c], S[b], t[b])
      BY <1>r, <3>1, <3>2
    <3>4. CASE Looses(S[c], S[b], t[b])
      <4>1. Out(S[c]) /\ S[c].depth = D /\ t[b] \notin {"q", "{", "}"}
        BY <2>d, <3>4 DEF Looses
      <4>2. c \in a .. b /\ c - a < n /\ \A i \in a .. c : i \in a .. b
        BY <2>1, <2>2, <3>1, <3>2
      <4>3. Piece(t, a, c) \in C[c - a]
        BY <2>d, <2>i, <3>2, <4>1, <4>2
      <4>4. t[b] \in loose /\ Piece(t, a, b - 1) \in C[b - 1 - a]
        BY <1>g, <1>l, <3>1, <3>2, <4>1, <4>3
      <4> QED
        BY <1>c, <2>2, <3>2, <4>4
    <3>5. CASE Opens(S[c], S[b], t[b])
      <4>1. S[b].depth = S[c].depth + 1
        BY <3>5 DEF Opens
      <4>2. S[c].depth \in Int /\ S[c].depth >= D /\ S[b].depth = D
        BY <2>d, <3>2
      <4> QED
        BY <2>d, <4>1, <4>2
    <3>6. CASE Closes(S[c], S[b], t[b])
      <4> DEFINE K == {i \in a .. b - 1 : S[i].depth = D}
      <4>1. Out(S[c]) /\ S[b].depth = S[c].depth - 1 /\ t[b] = "}"
        BY <3>6 DEF Closes
      <4>2. S[c].depth = D + 1
        <5>1. PICK u, v : u = S[c].depth /\ v = S[b].depth
          OBVIOUS
        <5>2. u \in Int /\ v = D /\ D \in Int
          BY <2>d, <3>2, <5>1
        <5>3. v = u - 1
          BY <4>1, <5>1
        <5>4. u = D + 1
          BY <5>2, <5>3
        <5> QED
          BY <5>1, <5>4
      <4>3. D + 1 # D
        BY <2>d
      <4>4. a \in K /\ b - 1 \notin K /\ K \in SUBSET (a .. b - 1)
        BY <2>d, <3>1, <3>2, <4>2, <4>3
      <4>5. PICK k \in K : k \in a .. b - 2 /\ \A i \in k + 1 .. b - 1 : i \notin K
        <5> HIDE DEF K
        <5> QED
          BY <2>2, <3>2, <4>4, LastWhere
      <4>6. S[k].depth = D /\ \A i \in k + 1 .. b - 1 : S[i].depth # D
        <5>1. \A i \in k + 1 .. b - 1 : i \in a .. b - 1
          BY <4>5, <3>2
        <5> QED
          BY <4>5, <5>1
      <4> HIDE DEF K
      <4>7. PICK e : e = k + 1
        OBVIOUS
      <4>8. /\ k \in a .. b /\ e \in a .. b /\ k \in Nat /\ e \in Nat /\ e - 1 = k /\ e \in lo + 1 .. hi
            /\ e \in k + 1 .. b - 1 /\ e <= c /\ c - e < n /\ k - a < n /\ c \in e .. b /\ k \in a .. b - 2
            /\ b - 2 - k = c - e /\ e # k
        BY <2>1, <2>2, <3>1, <3>2, <4>5, <4>7
      <4>9. Opens(S[k], S[e], t[e])
        <5>1. Steps(S[k], S[e], t[e])
          BY <1>r, <4>8
        <5>2. S[e].depth # D /\ S[e].depth \in Int /\ S[e].depth >= D
          BY <2>d, <4>6, <4>8
        <5>3. ~ Closes(S[k], S[e], t[e])
          <6> SUFFICES ASSUME Closes(S[k], S[e], t[e]) PROVE FALSE
            OBVIOUS
          <6>1. S[e].depth = S[k].depth - 1
            BY DEF Closes
          <6>2. S[e].depth = D - 1
            BY <4>6, <6>1
          <6> QED
            BY <2>d, <5>2, <6>2
        <5> QED
          BY <4>6, <5>1, <5>2, <5>3, StepsAre
      <4>10. Out(S[k]) /\ Out(S[e]) /\ S[e].depth = D + 1 /\ t[e] = "{"
        BY <4>6, <4>9 DEF Opens
      <4>11. Piece(t, a, k) \in C[k - a]
        <5>1. \A i \in a .. k : i \in a .. b
          BY <4>8
        <5>2. \A i \in a .. k : S[i].depth >= S[a].depth
          BY <2>d, <5>1
        <5>3. k \in a .. b /\ a \in a .. b /\ k - a < n
          BY <3>2, <4>8
        <5> QED
          BY <2>d, <2>i, <4>6, <4>10, <5>2, <5>3
      <4>12. Piece(t, e, c) \in C[c - e]
        <5>1. ASSUME NEW i \in e .. c PROVE S[i].depth >= S[e].depth
          <6>1. i \in a .. b /\ i \in k + 1 .. b - 1
            BY <3>1, <3>2, <4>7, <4>8
          <6>2. S[i].depth \in Int /\ S[i].depth >= D /\ S[i].depth # D
            BY <2>d, <4>6, <6>1
          <6>3. S[i].depth >= D + 1
            BY <2>d, <6>2
          <6> QED
            BY <4>10, <6>3
        <5>2. S[e].depth = S[c].depth
          BY <4>2, <4>10
        <5> QED
          BY <2>i, <4>1, <4>8, <4>10, <5>1, <5>2
      <4>13. SurroundedAt(C, C, t, a, b, "{", "}")
        <5>1. t[k + 1] = "{" /\ t[b] = "}"
          BY <4>1, <4>7, <4>10
        <5>2. Piece(t, k + 1, b - 1) \in C[b - 2 - k]
          BY <3>1, <4>7, <4>8, <4>12
        <5> QED
          BY <4>8, <4>11, <5>1, <5>2 DEF SurroundedAt
      <4> QED
        BY <1>c, <2>2, <4>13
    <3>7. CASE Unquotes(S[c], S[b], t[b])
      <4> DEFINE K == {i \in a .. b - 1 : Out(S[i])}
      <4>1. In(S[c]) /\ S[c].depth = D /\ t[b] = "q"
        BY <2>d, <3>7 DEF Unquotes
      <4>4. a \in K /\ b - 1 \notin K /\ K \in SUBSET (a .. b - 1)
        BY <1>e, <2>d, <3>1, <3>2, <4>1
      <4>5. PICK k \in K : k \in a .. b - 2 /\ \A i \in k + 1 .. b - 1 : i \notin K
        <5> HIDE DEF K
        <5> QED
          BY <2>2, <3>2, <4>4, LastWhere
      <4>6. Out(S[k]) /\ \A i \in k + 1 .. b - 1 : ~ Out(S[i])
        <5>1. \A i \in k + 1 .. b - 1 : i \in a .. b - 1
          BY <4>5, <3>2
        <5> QED
          BY <4>5, <5>1
      <4> HIDE DEF K
      <4>7. PICK e : e = k + 1
        OBVIOUS
      <4>8. /\ k \in a .. b /\ e \in a .. b /\ k \in Nat /\ e \in Nat /\ e - 1 = k /\ e \in lo + 1 .. hi
            /\ e \in k + 1 .. b - 1 /\ e <= c /\ c - e <= max /\ k - a < n /\ c \in e .. hi /\ k \in a .. b - 2
            /\ b - 2 - k = c - e /\ e \in lo .. hi
        BY <2>1, <2>2, <3>1, <3>2, <4>5, <4>7
      <4>9. In(S[e]) /\ t[e] = "q" /\ S[e].depth = S[k].depth
        <5>1. Steps(S[k], S[e], t[e]) /\ Out(S[k]) /\ ~ Out(S[e])
          BY <1>r, <4>6, <4>8
        <5> QED
          BY <5>1, StepsAre
      <4>10. Piece(t, e, c) \in I[c - e] /\ S[c].depth = S[e].depth
        <5>1. \A i \in e .. c : i \in k + 1 .. b - 1
          BY <3>1, <3>2, <4>7, <4>8
        <5>2. \A i \in e .. c : ~ Out(S[i])
          BY <4>6, <5>1
        <5> QED
          BY <1>s, <4>1, <4>8, <4>9, <5>2
      <4>11. Piece(t, a, k) \in C[k - a]
        <5>1. \A i \in a .. k : i \in a .. b
          BY <4>8
        <5>2. \A i \in a .. k : S[i].depth >= S[a].depth
          BY <2>d, <5>1
        <5>3. k \in a .. b /\ a \in a .. b /\ k - a < n
          BY <3>2, <4>8
        <5>4. S[k].depth = D
          BY <4>1, <4>9, <4>10
        <5> QED
          BY <2>d, <2>i, <4>6, <5>2, <5>3, <5>4
      <4>13. SurroundedAt(C, I, t, a, b, "q", "q")
        <5>1. t[k + 1] = "q" /\ t[b] = "q"
          BY <4>1, <4>7, <4>9
        <5>2. Piece(t, k + 1, b - 1) \in I[b - 2 - k]
          BY <3>1, <4>7, <4>8, <4>10
        <5> QED
          BY <4>8, <4>11, <5>1, <5>2 DEF SurroundedAt
      <4> QED
        BY <1>c, <2>2, <4>13
    <3> QED
      BY <2>d, <3>3, <3>4, <3>5, <3>6, <3>7, StepsAre
  <2> QED
    BY <2>3, <2>4
<1>2. Nat \subseteq T
  <2> HIDE DEF T
  <2> QED
    BY <1>1, Induction
<1>3. ASSUME NEW a \in lo .. hi, NEW b \in lo .. hi, Reads(a, b) PROVE Fits(a, b)
  <2>1. b - a \in Nat
    BY <1>3
  <2>2. b - a \in T
    BY <1>2, <2>1
  <2> HIDE DEF Reads, Fits
  <2> QED
    BY <1>3, <2>2
<1>4. \A a, b \in lo .. hi : Reads(a, b) => Fits(a, b)
  BY <1>3
<1> QED
  BY <1>4 DEF C

\* Between its first brace and its end the scanner is inside an object.
BraceAt(t, start) == t[start] = "{"

LEMMA DepthPositive ==
  ASSUME NEW t \in Texts, NEW start \in Nat \ {0}, start <= Len(t), BraceAt(t, start)
  PROVE  \A i \in start .. Len(t) :
           Scanned(t, start)[i].end = 0
             => /\ Scanned(t, start)[i].depth \in Nat /\ Scanned(t, start)[i].depth >= 1
                /\ \A k \in start .. i : Scanned(t, start)[k].end = 0
<1> DEFINE S == Scanned(t, start)
           Deep(i) == S[i].depth \in Nat /\ S[i].depth >= 1 /\ \A k \in start .. i : S[k].end = 0
           T == {n \in Nat : \A i \in start .. Len(t) : i - start = n /\ S[i].end = 0 => Deep(i)}
<1>0. Len(t) \in Nat /\ start \in start .. Len(t)
  BY Places
<1>o. Outside(S[start - 1], start - 1, 0)
  BY <1>0, ScanNext
<1>m. S[start - 1] \in States => Moves(S[start - 1], S[start], start, 0, t[start])
  BY <1>0, ScanMoves
<1>t. ASSUME NEW i \in start .. Len(t), S[i - 1].end = 0
      PROVE  \/ Steps(S[i - 1], S[i], t[i]) /\ S[i - 1].depth \in Int /\ S[i].depth \in Int /\ S[i].end = 0
             \/ Outside(S[i - 1], i - 1, 1) /\ t[i] = "}" /\ Ended(S[i], i)
  BY <1>t, ScanSteps
<1>e. ASSUME NEW i \in start .. Len(t), i # start, S[i - 1].end # 0
      PROVE  S[i].end # 0
  <2>1. PICK c : c = i - 1
    OBVIOUS
  <2>2. c \in start .. Len(t) /\ c \in start - 1 .. Len(t) /\ i \in start .. Len(t) /\ c = i - 1
    BY <1>0, <1>e, <2>1
  <2>3. Reached(S[c], c, start)
    BY <2>2, AlwaysReached
  <2>m. \A d \in Int : S[i - 1] \in States => Moves(S[i - 1], S[i], i, d, t[i])
    BY ScanMoves
  <2> HIDE DEF S
  <2>4. PICK k \in start .. c : Ended(S[c], k)
    <3>1. S[c].end # 0
      BY <1>e, <2>1
    <3> QED
      BY <2>3, <3>1 DEF Reached, Outside, InString, Escaped, Going
  <2>5. S[i - 1] \in States /\ Ended(S[i - 1], k)
    BY <2>2, <2>4 DEF Ended
  <2>6. Moves(S[i - 1], S[i], i, 0, t[i])
    BY <2>5, <2>m
  <2>7. Ended(S[i], k)
    BY <2>5, <2>6 DEF Moves
  <2> QED
    BY <2>7 DEF Ended
<1>s. t[start] = "{" /\ t[start] # "q"
  BY DEF BraceAt
<1> HIDE DEF S
<1>f. Outside(S[start], start, 1)
  <2>1. S[start - 1] \in States
    BY <1>o DEF Outside, Going
  <2>2. Outside(S[start], start, 0 + 1)
    BY <1>0, <1>m, <1>o, <1>s, <2>1 DEF Moves
  <2> QED
    BY <2>2
<1>1. ASSUME NEW n \in Nat, \A m \in 0 .. n - 1 : m \in T PROVE n \in T
  <2>1. SUFFICES ASSUME NEW i \in start .. Len(t), i - start = n, S[i].end = 0 PROVE Deep(i)
    OBVIOUS
  <2>2. CASE i = start
    <3>1. S[i].depth = 1 /\ \A k \in start .. i : k = i
      BY <1>f, <2>2 DEF Outside, Going
    <3> QED
      BY <2>1, <3>1
  <2>3. CASE i # start
    <3>1. PICK c : c = i - 1
      OBVIOUS
    <3>2. c \in start .. Len(t) /\ c - start \in 0 .. n - 1 /\ \A k \in start .. i : k = i \/ k \in start .. c
      BY <1>0, <2>1, <2>3, <3>1
    <3>3. S[c].end = 0 /\ S[i - 1].end = 0
      BY <1>e, <2>1, <2>3, <3>1
    <3>4. Deep(c)
      BY <1>1, <3>2, <3>3
    <3> HIDE DEF T
    <3>5. ~ Ended(S[i], i)
      BY <2>1 DEF Ended
    <3>6. Steps(S[c], S[i], t[i]) /\ S[i].depth \in Int
      BY <1>t, <3>1, <3>3, <3>5
    <3>7. S[i].depth \in Nat /\ S[i].depth >= 1
      <4>1. PICK u, v : u = S[c].depth /\ v = S[i].depth
        OBVIOUS
      <4>2. u \in Nat /\ u >= 1 /\ v \in Int
        BY <3>4, <3>6, <4>1
      <4>3. v = u \/ v = u + 1 \/ (v = u - 1 /\ u # 1)
        BY <3>6, <4>1, StepsAre DEF Opens, Closes
      <4>4. v \in Nat /\ v >= 1
        BY <4>2, <4>3
      <4> QED
        BY <4>1, <4>4
    <3> QED
      BY <2>1, <3>2, <3>4, <3>7
  <2> QED
    BY <2>2, <2>3
<1>2. Nat \subseteq T
  <2> HIDE DEF T
  <2> QED
    BY <1>1, Induction
<1>3. ASSUME NEW i \in start .. Len(t), S[i].end = 0 PROVE Deep(i)
  <2>1. i - start \in Nat
    OBVIOUS
  <2>2. i - start \in T
    BY <1>2, <2>1
  <2> HIDE DEF Deep
  <2> QED
    BY <1>3, <2>2
<1> QED
  BY <1>3 DEF S

LEMMA StartsOut ==
  ASSUME NEW t \in Texts, NEW start \in Nat \ {0}, start <= Len(t), BraceAt(t, start)
  PROVE  Outside(Scanned(t, start)[start], start, 1)
<1> DEFINE S == Scanned(t, start)
<1>0. Len(t) \in Nat /\ start \in start .. Len(t)
  BY Places
<1>o. Outside(S[start - 1], start - 1, 0)
  BY <1>0, ScanNext
<1>m. S[start - 1] \in States => Moves(S[start - 1], S[start], start, 0, t[start])
  BY <1>0, ScanMoves
<1>s. t[start] = "{" /\ t[start] # "q"
  BY DEF BraceAt
<1> HIDE DEF S
<1>1. S[start - 1] \in States
  BY <1>o DEF Outside, Going
<1>2. Outside(S[start], start, 0 + 1)
  BY <1>m, <1>o, <1>s, <1>1 DEF Moves
<1> QED
  BY <1>2 DEF S

\* Where the scanner ends.
LEMMA EndIs ==
  ASSUME NEW t \in Texts, NEW start \in Nat \ {0}, start <= Len(t), BraceAt(t, start),
         Scanned(t, start)[Len(t)].end # 0
  PROVE  \E e \in start + 1 .. Len(t) :
           /\ Scanned(t, start)[Len(t)].end = e /\ t[e] = "}"
           /\ Outside(Scanned(t, start)[e - 1], e - 1, 1)
<1> DEFINE S == Scanned(t, start)
           K == {k \in start .. Len(t) : S[k].end # 0}
<1>0. Len(t) \in Nat /\ start \in start .. Len(t) /\ Len(t) \in start .. Len(t)
  BY Places
<1>1. S[start].end = 0
  <2>1. Outside(S[start], start, 1)
    BY StartsOut
  <2> HIDE DEF S
  <2> QED
    BY <2>1 DEF Outside, Going
<1>2. Len(t) \in K /\ K \in SUBSET Nat
  BY <1>0
<1>3. PICK e \in K : \A k \in K : e <= k
  <2> HIDE DEF K
  <2> QED
    BY <1>2, LeastExists
<1>4. e \in start .. Len(t) /\ S[e].end # 0
  OBVIOUS
<1>5. PICK c : c = e - 1
  OBVIOUS
<1>6. e # start
  BY <1>1, <1>4
<1>7. e \in start + 1 .. Len(t) /\ c \in start .. Len(t) /\ ~ (e <= c)
  BY <1>0, <1>4, <1>5, <1>6
<1>8. S[e - 1].end = 0
  <2>1. S[c].end = 0
    BY <1>3, <1>7
  <2> QED
    BY <1>5, <2>1
<1>9. \/ Steps(S[e - 1], S[e], t[e]) /\ S[e - 1].depth \in Int /\ S[e].depth \in Int /\ S[e].end = 0
      \/ Outside(S[e - 1], e - 1, 1) /\ t[e] = "}" /\ Ended(S[e], e)
  BY <1>4, <1>8, ScanSteps
<1>10. Outside(S[e - 1], e - 1, 1) /\ t[e] = "}" /\ Ended(S[e], e)
  BY <1>4, <1>9
<1>11. Ended(S[Len(t)], e)
  BY <1>4, <1>10, EndedStays
<1> HIDE DEF K
<1> QED
  BY <1>7, <1>10, <1>11 DEF Ended

\* What it takes for an object is one of the grammar.
EndsAt(t, start, e, max) == Scanned(t, start)[Len(t)].end = e /\ e - start - 1 <= max

LEMMA EndsObject ==
  ASSUME NEW plain, NEW escaped, NEW loose, Full(plain, escaped, loose), NEW max \in Nat,
         NEW t \in Texts, NEW start \in Nat \ {0}, start <= Len(t), BraceAt(t, start),
         NEW e \in start + 1 .. Len(t), EndsAt(t, start, e, max)
  PROVE  \E n \in 0 .. max : Piece(t, start - 1, e) \in Braced(Content(plain, escaped, loose, max)[n])
<1> DEFINE S == Scanned(t, start)
           C == Content(plain, escaped, loose, max)
<1>0. Len(t) \in Nat /\ start \in Nat /\ e \in Nat
  BY Places
<1>x. S[Len(t)].end = e /\ e - start - 1 <= max
  BY DEF EndsAt
<1>1. PICK c, a : c = e - 1 /\ a = start - 1
  OBVIOUS
<1>2. c \in start .. Len(t) /\ a \in Nat /\ a <= e /\ e <= Len(t) /\ c \in Nat /\ a + 1 = start
  BY <1>0, <1>1
<1>3. t[e] = "}" /\ Outside(S[c], c, 1)
  <2>1. S[Len(t)].end # 0
    <3>1. e # 0
      BY <1>0
    <3> QED
      BY <1>x, <3>1
  <2>2. PICK f \in start + 1 .. Len(t) :
           /\ S[Len(t)].end = f /\ t[f] = "}" /\ Outside(S[f - 1], f - 1, 1)
    BY <2>1, EndIs
  <2>3. f = e
    BY <1>x, <2>2
  <2> QED
    BY <1>1, <2>2, <2>3
<1>4. Outside(S[start], start, 1)
  BY StartsOut
<1>5. \A i \in start .. c : S[i].end = 0 /\ S[i].depth \in Int /\ S[i].depth >= 1
  <2>d. \A i \in start .. Len(t) :
           S[i].end = 0
             => S[i].depth \in Nat /\ S[i].depth >= 1 /\ \A k \in start .. i : S[k].end = 0
    BY DepthPositive
  <2> HIDE DEF S
  <2>1. S[c].end = 0
    BY <1>3 DEF Outside, Going
  <2>2. \A i \in start .. c : i \in start .. Len(t)
    BY <1>2
  <2> QED
    BY <1>2, <2>1, <2>2, <2>d
<1>6. Run(S, t, start, c)
  <2> SUFFICES ASSUME NEW i \in start + 1 .. c
               PROVE  Steps(S[i - 1], S[i], t[i]) /\ S[i - 1].depth \in Int /\ S[i].depth \in Int
    BY DEF Run
  <2>1. i \in start .. c /\ i - 1 \in start .. c /\ i \in start .. Len(t) /\ i # 0
    BY <1>2
  <2>2. S[i - 1].end = 0 /\ S[i].end = 0
    BY <1>5, <2>1
  <2>3. \/ Steps(S[i - 1], S[i], t[i]) /\ S[i - 1].depth \in Int /\ S[i].depth \in Int /\ S[i].end = 0
        \/ Outside(S[i - 1], i - 1, 1) /\ t[i] = "}" /\ Ended(S[i], i)
    BY <2>1, <2>2, ScanSteps
  <2> HIDE DEF S
  <2>4. ~ Ended(S[i], i)
    BY <2>1, <2>2 DEF Ended
  <2> QED
    BY <2>3, <2>4
<1>r. \A x, y \in start .. c :
        (/\ x <= y /\ y - x <= max /\ Out(S[x]) /\ Out(S[y]) /\ S[x].depth = S[y].depth
         /\ S[x].depth \in Int /\ \A i \in x .. y : S[i].depth \in Int /\ S[i].depth >= S[x].depth)
          => Piece(t, x, y) \in C[y - x]
  <2>1. c <= Len(t) /\ start \in Nat \ {0}
    BY <1>2
  <2> HIDE DEF S
  <2> QED
    BY <1>2, <1>6, <2>1, RunContent
<1>w. Worded(C, max)
  BY FullGrammar, ContentWords DEF Worded
<1>s. t[start] = "{"
  BY DEF BraceAt
<1> HIDE DEF S, C
<1>7. Piece(t, start, c) \in C[c - start]
  <2>1. Out(S[start]) /\ Out(S[c]) /\ S[start].depth = 1 /\ S[c].depth = 1
    BY <1>3, <1>4 DEF Outside, Going, Out
  <2>2. start \in start .. c /\ c \in start .. c /\ start <= c /\ c - start <= max
    <3>1. e - start - 1 <= max
      BY <1>x
    <3> QED
      BY <1>0, <1>1, <1>2, <3>1
  <2>3. S[start].depth = S[c].depth /\ S[start].depth \in Int
        /\ \A i \in start .. c : S[i].depth \in Int /\ S[i].depth >= S[start].depth
    BY <1>5, <2>1
  <2> QED
    BY <1>r, <2>1, <2>2, <2>3
<1>8. a + 2 <= e /\ e - a - 2 <= max /\ e - a - 2 = c - start
  <2>1. e - start - 1 <= max
    BY <1>x
  <2> QED
    BY <1>0, <1>1, <2>1
<1>9. t[a + 1] = "{" /\ Piece(t, a + 1, e - 1) \in C[e - a - 2]
  BY <1>1, <1>2, <1>7, <1>8, <1>s
<1>10. \E n \in 0 .. max : Piece(t, a, e) \in Braced(C[n])
  <2>1. /\ a + 2 <= e /\ e - a - 2 <= max /\ t[a + 1] = "{" /\ t[e] = "}"
        /\ Piece(t, a + 1, e - 1) \in C[e - a - 2]
    BY <1>3, <1>8, <1>9
  <2>2. a \in Nat /\ e \in Nat /\ a <= e /\ e <= Len(t)
    BY <1>0, <1>2
  <2> QED
    BY <1>w, <2>1, <2>2, BracedAt
<1> QED
  BY <1>1, <1>10 DEF C

-----------------------------------------------------------------------------
(* The scanner and the grammar.                                            *)

Unquoted == {"{", "}", "x", "f", "n"}
Unbraced == {"x", "f", "n", "b"}
Backslashed == {"{", "}", "q", "b", "x", "f", "n"}
ScanWords == Content(Unquoted, Backslashed, Unbraced, MaxTokens - 2)

LEMMA BalancedGrammar ==
  /\ Full(Unquoted, Backslashed, Unbraced)
  /\ MaxTokens - 2 \in Nat
  /\ \A p : p \in Balanced <=> \E n \in 0 .. MaxTokens - 2 : p \in Braced(ScanWords[n])
<1>1. Full(Unquoted, Backslashed, Unbraced)
  BY DEF Full, Unquoted, Backslashed, Unbraced, Token
<1>2. MaxTokens - 2 \in Nat
  BY ConstantsAssumption
<1>3. Balanced = UNION {Braced(ScanWords[n]) : n \in 0 .. MaxTokens - 2}
  BY DEF Balanced, ScanWords, Unquoted, Backslashed, Unbraced
<1>4. \A p : p \in Balanced <=> \E n \in 0 .. MaxTokens - 2 : p \in Braced(ScanWords[n])
  BY <1>3
<1> QED
  BY <1>1, <1>2, <1>4

\* The scanner ends exactly where an object of its grammar does.
LEMMA ScannerEnds ==
  ASSUME NEW t \in Texts, NEW max, max = MaxTokens - 2, NEW start \in Nat \ {0}, start <= Len(t),
         BraceAt(t, start), Len(t) <= max + 2
  PROVE  /\ \A e \in start .. Len(t) : Piece(t, start - 1, e) \in Balanced <=> Scanned(t, start)[Len(t)].end = e
         /\ Scanned(t, start)[Len(t)].end # 0 => Scanned(t, start)[Len(t)].end \in start .. Len(t)
<1>g. Full(Unquoted, Backslashed, Unbraced) /\ Grammar(Unquoted, Backslashed, Unbraced) /\ max \in Nat
  BY BalancedGrammar, FullGrammar
<1>b. \A p : p \in Balanced <=> \E n \in 0 .. max : p \in Braced(Content(Unquoted, Backslashed, Unbraced, max)[n])
  BY BalancedGrammar DEF ScanWords
<1>l. Len(t) \in Nat
  BY Places
<1>1. ASSUME NEW e \in start .. Len(t), Piece(t, start - 1, e) \in Balanced
      PROVE  Scanned(t, start)[Len(t)].end = e
  <2>1. \E n \in 0 .. max : Piece(t, start - 1, e) \in Braced(Content(Unquoted, Backslashed, Unbraced, max)[n])
    BY <1>1, <1>b
  <2> QED
    BY <1>g, <2>1, ScanObject
<1>2. ASSUME Scanned(t, start)[Len(t)].end # 0
      PROVE  \E e \in start + 1 .. Len(t) :
               Scanned(t, start)[Len(t)].end = e /\ Piece(t, start - 1, e) \in Balanced
  <2>1. PICK e \in start + 1 .. Len(t) : Scanned(t, start)[Len(t)].end = e
    BY <1>2, EndIs
  <2>2. e - start - 1 <= max
    <3>1. e <= max + 2 /\ e \in Nat
      BY <1>g, <1>l
    <3> QED
      BY <1>g, <3>1
  <2>3. EndsAt(t, start, e, max)
    BY <2>1, <2>2 DEF EndsAt
  <2>4. \E n \in 0 .. max : Piece(t, start - 1, e) \in Braced(Content(Unquoted, Backslashed, Unbraced, max)[n])
    BY <1>g, <2>3, EndsObject
  <2> QED
    BY <1>b, <2>1, <2>4
<1>p. PICK s : s = Scanned(t, start)[Len(t)].end
  OBVIOUS
<1>3. s # 0 => \E e \in start + 1 .. Len(t) : s = e /\ Piece(t, start - 1, e) \in Balanced
  BY <1>2, <1>p
<1>4. ASSUME NEW e \in start .. Len(t), s = e PROVE Piece(t, start - 1, e) \in Balanced
  <2>1. s # 0
    BY <1>4
  <2> QED
    BY <1>3, <1>4, <2>1
<1>5. s # 0 => s \in start .. Len(t)
  BY <1>3, <1>l
<1> QED
  BY <1>1, <1>4, <1>5, <1>p

\* Of the pieces of a text from a place on, where a set of words holds one at most.
Marks(t, start, words, s) ==
  /\ \A e \in start .. Len(t) : Piece(t, start - 1, e) \in words <=> s = e
  /\ s # 0 => s \in start .. Len(t)

LEMMA MarkedPiece ==
  ASSUME NEW t \in Texts, NEW start \in Nat \ {0}, start <= Len(t), NEW words, NEW s,
         Marks(t, start, words, s)
  PROVE  LET rest == SubSeq(t, start, Len(t))
             ends == {k \in DOMAIN rest : SubSeq(rest, 1, k) \in words}
         IN (IF s = 0 THEN None ELSE SubSeq(t, start, s))
              = IF ends = {} THEN None ELSE SubSeq(rest, 1, CHOOSE k \in ends : TRUE)
<1>1. PICK l : l = Len(t)
  OBVIOUS
<1>2. l \in Nat /\ start \in Nat /\ start \in 1 .. l /\ l <= Len(t)
  <2>1. Len(t) \in Nat
    BY Places
  <2> QED
    BY <1>1, <2>1
<1>3. PICK a : a = start - 1
  OBVIOUS
<1>4. a \in Nat /\ a <= l /\ a + 1 = start
  BY <1>2, <1>3
<1>5. PICK z : z = 0
  OBVIOUS
<1>6. z \in Nat /\ z + 1 = 1 /\ a + z = a /\ \A k \in 1 .. l - a : k \in Nat /\ z <= k
  BY <1>4, <1>5
<1>7. PICK rest : rest = SubSeq(t, start, Len(t))
  OBVIOUS
<1>8. rest = Piece(t, a, l)
  BY <1>1, <1>4, <1>7 DEF Piece
<1>9. DOMAIN rest = 1 .. l - a
  <2>1. rest \in Texts /\ Len(rest) = l - a
    BY <1>2, <1>4, <1>8, PieceIs
  <2> QED
    BY <2>1, Places
<1>10. ASSUME NEW k \in 1 .. l - a
       PROVE  SubSeq(rest, 1, k) = Piece(t, start - 1, a + k) /\ a + k \in start .. l
  <2>1. k \in Nat /\ z <= k /\ k <= l - a
    BY <1>6
  <2>2. Piece(Piece(t, a, l), z, k) = Piece(t, a + z, a + k)
    BY <1>2, <1>4, <1>6, <2>1, PieceOfPiece
  <2>3. a + k \in start .. l
    BY <1>2, <1>4, <2>1
  <2>4. SubSeq(rest, 1, k) = Piece(rest, z, k)
    BY <1>6 DEF Piece
  <2> QED
    BY <1>3, <1>6, <1>8, <2>2, <2>3, <2>4
<1> DEFINE ends == {k \in 1 .. l - a : SubSeq(rest, 1, k) \in words}
<1>11. \A k \in 1 .. l - a : k \in ends <=> s = a + k
  BY <1>1, <1>10 DEF Marks
<1>12. ends \subseteq 1 .. l - a
  OBVIOUS
<1>13. ends = {k \in DOMAIN rest : SubSeq(rest, 1, k) \in words}
  BY <1>9
<1> HIDE DEF ends
<1>14. s # 0 => s \in start .. l
  BY <1>1 DEF Marks
<1>15. CASE ends = {}
  <2>1. s = 0
    <3> SUFFICES ASSUME s # 0 PROVE FALSE
      OBVIOUS
    <3>1. s \in start .. l
      BY <1>14
    <3>2. s - a \in 1 .. l - a /\ a + (s - a) = s
      BY <1>2, <1>4, <3>1
    <3>3. s - a \in ends
      BY <1>11, <3>2
    <3> QED
      BY <1>15, <3>3
  <2> QED
    BY <1>7, <1>13, <1>15, <2>1
<1>16. CASE ends # {}
  <2>1. PICK k : k = CHOOSE i \in ends : TRUE
    OBVIOUS
  <2>2. k \in ends
    BY <1>16, <2>1
  <2>3. k \in 1 .. l - a
    BY <1>12, <2>2
  <2>4. s = a + k
    BY <1>11, <2>2, <2>3
  <2>5. SubSeq(rest, 1, k) = Piece(t, start - 1, s) /\ s \in start .. l
    BY <1>10, <2>3, <2>4
  <2>6. s # 0
    BY <1>2, <2>5
  <2>7. SubSeq(t, start, s) = SubSeq(rest, 1, k)
    BY <1>3, <1>4, <2>5 DEF Piece
  <2> QED
    BY <1>7, <1>13, <1>16, <2>1, <2>6, <2>7
<1> QED
  BY <1>15, <1>16

\* A text a response may be, and its first brace.
Fitting(t) == Len(t) <= MaxTokens
First(t, start) == start = Find(t, "{") /\ start # 0

LEMMA FittingIs ==
  ASSUME NEW t \in Texts, Fitting(t), NEW max, max = MaxTokens - 2
  PROVE  Len(t) <= max + 2
<1>1. Len(t) \in Nat /\ MaxTokens \in Nat
  BY Places, ConstantsAssumption
<1>2. PICK len, bound : len = Len(t) /\ bound = MaxTokens
  OBVIOUS
<1>3. len \in Nat /\ bound \in Nat /\ len <= bound /\ max = bound - 2
  BY <1>1, <1>2 DEF Fitting
<1>4. len <= max + 2
  BY <1>3
<1> QED
  BY <1>2, <1>4

LEMMA ScannerRight ==
  ASSUME NEW t \in Texts, Fitting(t), NEW start, First(t, start)
  PROVE  LET rest == SubSeq(t, start, Len(t))
             ends == {k \in DOMAIN rest : SubSeq(rest, 1, k) \in Balanced}
         IN FirstBalancedObject(t) =
              IF ends = {} THEN None ELSE SubSeq(rest, 1, CHOOSE k \in ends : TRUE)
<1>1. start \in 1 .. Len(t) /\ t[start] = "{"
  BY FindIs DEF First
<1>2. BraceAt(t, start)
  BY <1>1 DEF BraceAt
<1>3. start \in Nat \ {0} /\ start <= Len(t)
  <2>1. Len(t) \in Nat
    BY Places
  <2>2. start \in 1 .. Len(t)
    BY <1>1
  <2> QED
    BY <2>1, <2>2
<1>4. PICK max : max = MaxTokens - 2
  OBVIOUS
<1>5. Len(t) <= max + 2
  BY <1>4, FittingIs
<1>6. PICK s : s = Scanned(t, start)[Len(t)].end
  OBVIOUS
<1>7. Marks(t, start, Balanced, s)
  BY <1>2, <1>3, <1>4, <1>5, <1>6, ScannerEnds DEF Marks
<1>8. FirstBalancedObject(t) = IF s = 0 THEN None ELSE SubSeq(t, start, s)
  BY <1>6 DEF FirstBalancedObject, First
<1>9. LET rest == SubSeq(t, start, Len(t))
          ends == {k \in DOMAIN rest : SubSeq(rest, 1, k) \in Balanced}
      IN (IF s = 0 THEN None ELSE SubSeq(t, start, s))
           = IF ends = {} THEN None ELSE SubSeq(rest, 1, CHOOSE k \in ends : TRUE)
  BY <1>3, <1>7, MarkedPiece
<1> QED
  BY <1>8, <1>9

\* The texts of a review are no longer than MaxTokens.
Short == Len(child.text) <= MaxTokens /\ (text # <<>> => Len(text) <= MaxTokens)

LEMMA InitShort == Init => Short
BY LengthAssumption DEF Init, Short

LEMMA ShortNext == Short /\ [Next]_vars => Short'
BY DEF Short, Next, Respond, Unavailable, Extract, ExtractFails, Accept, Reject, NoLesson, SchemaFails, Goto, vars

\* What the scanner takes for the first object is what the grammar says it is, in
\* every response: whatever braces, quotes and escapes there are, it ends at the
\* brace that closes the first one, and finds nothing only where nothing closes.
THEOREM ScannerFollows == Spec => []ScannerFollowsGrammar
<1>1. ASSUME Reading, Short
      PROVE  ScannerFollowsGrammar
  <2> SUFFICES ASSUME Extracted, Find(text, "{") # 0
               PROVE  LET rest == SubSeq(text, Find(text, "{"), Len(text))
                          ends == {k \in DOMAIN rest : SubSeq(rest, 1, k) \in Balanced}
                      IN FirstBalancedObject(text) =
                           IF ends = {} THEN None ELSE SubSeq(rest, 1, CHOOSE k \in ends : TRUE)
    BY DEF ScannerFollowsGrammar
  <2>1. text \in Texts /\ Fitting(text)
    BY <1>1 DEF Reading, Short, Extracted, Fitting
  <2> QED
    BY <2>1, ScannerRight DEF First
<1> QED
  BY <1>1, InitReading, ReadingNext, InitShort, ShortNext, PTL DEF Spec
=============================================================================
