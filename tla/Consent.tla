-------------------------------- MODULE Consent --------------------------------
(***************************************************************************)
(* What one-time authorizations promise: whatever is done to a proposal or *)
(* a mutation was typed by the user as that operation on it, an apply with *)
(* the hash prefix that was displayed; each typed command is acted on at   *)
(* most once; and it may also lapse unused.                                *)
(***************************************************************************)
EXTENDS Sequences

CONSTANTS Nonces, Operations, ProposalIds, Sessions, None

VARIABLES
  granted,  \* typed commands that may still be acted on
  done      \* what was acted on, in order

vars == <<granted, done>>

Grant == [nonce : Nonces, op : Operations, id : ProposalIds,
          prefix : {"right", "wrong", None}, session : Sessions]

Verified(a) == a.op = "apply" => a.prefix = "right"

Init == granted = {} /\ done = <<>>

Type(a) ==
  /\ \A b \in granted : b.nonce # a.nonce
  /\ \A i \in DOMAIN done : done[i].nonce # a.nonce
  /\ granted' = granted \cup {a}
  /\ UNCHANGED done

Lapse(a) ==
  /\ a \in granted
  /\ granted' = granted \ {a}
  /\ UNCHANGED done

Act(a) ==
  /\ a \in granted /\ Verified(a)
  /\ granted' = granted \ {a}
  /\ done' = Append(done, a)

Next == \E a \in Grant : Type(a) \/ Lapse(a) \/ Act(a)

Spec == Init /\ [][Next]_vars
=============================================================================
