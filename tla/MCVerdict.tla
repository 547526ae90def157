------------------------------ MODULE MCVerdict ------------------------------
(* Verdict on short responses and answers near the schema's bounds:         *)
(* verdict*.cfg instantiate it.                                             *)
EXTENDS Verdict

Reviewed(t) == [exit |-> "well", out |-> "envelope", text |-> t, key |-> "result", error |-> FALSE,
                   status |-> None, phrase |-> None, message |-> "other"]

\* An answer that can be proposed.
Filled == [f \in {Required[i] : i \in DOMAIN Required} |->
             IF f \in Enums THEN Word("listed") ELSE Text(MinLength(f), 0)]
Proposal == [decision |-> "propose", unknown |-> FALSE, reason |-> None, fields |-> Filled]

\* Every value near a bound, alone and next to one of another field.
Values(f) ==
  {Absent, Other} \cup
    (IF f \in Enums THEN {Word("listed"), Word("unlisted")} \cup {Word(w) : w \in Listed(f)}
     ELSE {Text(0, 3), Text(MinLength(f) - 1, 1), Text(MinLength(f), 0),
           Text(MaxLength(f), 2), Text(MaxLength(f) + 1, 0)})

Answers ==
  UNION {UNION {{[Proposal EXCEPT !.fields[f] = v, !.fields[g] = w] : v \in Values(f), w \in Values(g)}
                  : g \in DOMAIN Filled} : f \in DOMAIN Filled}
  \cup [decision : {"propose", "discard", "later", None}, unknown : BOOLEAN,
        reason : {"already_covered", "other", "made_up", None},
        fields : {Filled, [f \in DOMAIN Filled |-> Absent]}]

\* Prose around an object, and fences.
Prose(n) == {<<>> \o t : t \in [1 .. n -> {"{", "}", "q", "b", "x"}]}
Fence(n) == {<<"f">> \o t : t \in [1 .. n -> {"{", "}", "q", "f", "n"}]}

Object == <<"{", "q", "x", "q", "}">>

Failed == [exit : NoExit \cup {"well", "failed"}, out : Outputs, text : {<<"n">>, <<"x">>, Object, <<"x">> \o Object},
           key : {"result", None}, error : BOOLEAN, status : {None, 429, 418},
           phrase : {None, "overloaded"}, message : {"other", "interrupted"}]

Instances ==
  [n \in 1 .. MaxTokens - 1 |-> {[child |-> Reviewed(t), answer |-> Proposal] : t \in Prose(n)}]
    \o [n \in 1 .. MaxTokens - 1 |-> {[child |-> Reviewed(t), answer |-> Proposal] : t \in Fence(n)}]
    \o <<{[child |-> Reviewed(Object), answer |-> a] : a \in Answers},
         {[child |-> c, answer |-> Proposal] : c \in Failed}>>
=============================================================================
