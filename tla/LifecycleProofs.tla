--------------------------- MODULE LifecycleProofs ---------------------------
(***************************************************************************)
(* Theorems about Lifecycle, for every value of its constants.             *)
(*                                                                         *)
(* The invariants are proved in layers, each from those before it: Typed   *)
(* (what a process holds at each step), Exclusive (the flock), Spent (an   *)
(* authorization is in one place), Barred (what was rejected cannot be     *)
(* loaded), Kept (fingerprints.json and the user's verdicts).              *)
(***************************************************************************)
EXTENDS Lifecycle, SequenceTheorems, TLAPS

-----------------------------------------------------------------------------
(* Inductive invariants.                                                   *)

VerdictSteps == {"list", "claim", "lock", "load", "install", "invalidate", "fpread",
                 "fpwrite", "drop"}
OfferSteps   == {"candidate", "status", "store"}

Shared ==
  /\ auths \subseteq Grants /\ candidates \subseteq Answers
  /\ proposals \in [ProposalIds -> Fingerprint \cup {None}]
  /\ live \subseteq {i \in ProposalIds : proposals[i] # None}
  /\ installed \subseteq ProposalIds
  /\ fingerprints \in [Fingerprint -> Statuses] /\ verdicts \in [Fingerprint -> Statuses]
  /\ lock \in Procs \cup {None}
  /\ typed \subseteq Nonces /\ commands \in 0 .. MaxCommands /\ faults \in 0 .. MaxFaults
  /\ acts \in Seq(Grants)
  /\ declined \subseteq ProposalIds /\ lifted \subseteq Fingerprint /\ raced \in BOOLEAN

Locals ==
  /\ pc \in [Procs -> Steps]
  /\ cmd \in [Procs -> Arguments \cup {None}]
  /\ todo \in [Procs -> SUBSET Grants]
  /\ claimed \in [Procs -> Grants \cup {None}]
  /\ view \in [Procs -> [Fingerprint -> Statuses] \cup {None}]
  /\ before \in [Procs -> Begun \cup {None}]

\* At which step an operation can be, with which arguments, and what it holds.
At(p) ==
  /\ pc[p] = "idle" => cmd[p] = None /\ before[p] = None
  /\ pc[p] # "idle" => cmd[p] \in Arguments /\ before[p] \in Begun
  /\ pc[p] \in VerdictSteps =>
       /\ cmd[p].op \in Operations
       /\ cmd[p].id \in ProposalIds /\ proposals[cmd[p].id] # None
       /\ cmd[p].session \in Sessions
       /\ (cmd[p].op = "apply") = (cmd[p].prefix # None)
  /\ pc[p] \in OfferSteps => cmd[p].op \in {"stage", "review"} /\ cmd[p].fp \in Fingerprint
  /\ pc[p] = "candidate" => cmd[p].op = "stage"
  /\ pc[p] \in {"status", "store"} /\ cmd[p].op = "review" => cmd[p].fp \in Answers
  /\ pc[p] \in {"lock", "install"} => cmd[p].op \in {"apply", "rollback"}
  /\ pc[p] \in {"load", "fpread", "fpwrite"} => cmd[p].op \in {"apply", "reject"}
  /\ pc[p] = "invalidate" => cmd[p].op = "apply"
  /\ pc[p] = "drop" => cmd[p].op = "reject"
  /\ claimed[p] # None <=> \/ pc[p] \in {"lock", "load", "install"}
                           \/ pc[p] \in {"fpread", "fpwrite"} /\ cmd[p].op = "reject"
  /\ pc[p] = "fpwrite" => view[p] \in [Fingerprint -> Statuses]

Typed == Shared /\ Locals /\ \A p \in Procs : At(p)

\* A command has the flock from its acquisition to its exit; a reject never.
Holding(p) ==
  pc[p] \in {"load", "install", "invalidate", "fpread", "fpwrite"} /\ cmd[p].op # "reject"

Exclusive == \A p \in Procs : lock = p <=> Holding(p)

\* A declined proposal has no record left that an apply begun since could load.
Barred ==
  /\ \A i \in declined : i \notin live /\ proposals[i] # None
  /\ \A p \in Procs : pc[p] # "idle" => before[p].declined \subseteq declined
  /\ DeclinedNotInstalled

\* The authorizations that may still be acted on.
Granted == auths \cup ({claimed[p] : p \in Procs} \ {None})

\* An authorization lies in authorizations/ or with the one process that unlinked it,
\* a command that it was typed for.
Spent ==
  /\ \A a \in Granted : a.nonce \in typed
  /\ \A i \in DOMAIN acts : acts[i].nonce \in typed
  /\ \A p \in Procs : claimed[p] # None =>
       /\ Matches(claimed[p], cmd[p])
       /\ claimed[p] \notin auths
       /\ \A q \in Procs \ {p} : claimed[q] # claimed[p]
  /\ \A p \in Procs : pc[p] = "claim" => \A a \in todo[p] : Matches(a, cmd[p])
  /\ \A p \in Procs : pc[p] = "install" => PrefixHolds(cmd[p])

\* Unless a reject overlapped another writer, one process at a time is between its read
\* of fingerprints.json and its write, and what it read is what the user decided.
Kept ==
  ~raced =>
    /\ fingerprints = verdicts
    /\ \A p \in Procs : Writing(p) => view[p] = fingerprints
    /\ \A p \in Procs, q \in Procs : Writing(p) /\ Writing(q) => p = q

\* A rejection seen at the beginning stands, or was lifted.
Remembered ==
  \A p \in Procs : pc[p] # "idle" =>
    \A f \in Fingerprint :
      before[p].verdicts[f] = "rejected" => verdicts[f] = "rejected" \/ f \in lifted

-----------------------------------------------------------------------------
(* Lemmas about single steps.                                              *)

\* The steps with which a process ends and that change nothing but its locals.
Leaving(p) ==
  NoAuthorization(p) \/ LoadFails(p) \/ InstallRefused(p) \/ Duplicate(p) \/ StageRefused(p)
  \/ Kill(p)

LEMMA LeavingChanges ==
  ASSUME NEW p \in Procs, Leaving(p), faults \in 0 .. MaxFaults
  PROVE  /\ Exit(p) /\ pc[p] # "idle"
         /\ UNCHANGED <<auths, records, fingerprints, typed, commands, acts, verdicts, declined,
                        lifted, raced>>
         /\ faults' \in 0 .. MaxFaults
  BY ConstantsAssumption
     DEF Leaving, NoAuthorization, LoadFails, InstallRefused, Duplicate, StageRefused, Kill,
         bounds, Fault

\* Exit keeps the types of the locals, and the flock is held or free.
LEMMA ExitTyped ==
  ASSUME Typed, NEW p \in Procs, Exit(p),
         \A i \in ProposalIds : proposals[i] # None => proposals'[i] # None
  PROVE  Locals' /\ lock' \in Procs \cup {None} /\ \A q \in Procs : At(q)'
<1>1. Locals'
  BY DEF Typed, Locals, Exit, Steps
<1>2. lock' \in Procs \cup {None}
  BY DEF Typed, Shared, Exit
<1>3. ASSUME NEW q \in Procs PROVE At(q)'
  <2>1. CASE q = p
    <3>1. pc'[q] = "idle" /\ cmd'[q] = None /\ before'[q] = None /\ claimed'[q] = None
      BY <2>1 DEF Typed, Locals, Exit
    <3> QED BY <3>1 DEF At, VerdictSteps, OfferSteps
  <2>2. CASE q # p
    <3>1. /\ pc'[q] = pc[q] /\ cmd'[q] = cmd[q] /\ before'[q] = before[q]
          /\ claimed'[q] = claimed[q] /\ view'[q] = view[q] /\ At(q)
      BY <2>2 DEF Typed, Locals, Exit
    <3> QED BY <3>1 DEF At
  <2> QED BY <2>1, <2>2
<1> QED BY <1>1, <1>2, <1>3

-----------------------------------------------------------------------------
(* Layer 1: types.                                                         *)

LEMMA TypedInit ==
  Init => Typed
<1> SUFFICES ASSUME Init PROVE Typed OBVIOUS
<1> USE ConstantsAssumption DEF Init
<1>1. Shared
  <2>1. acts \in Seq(Grants)
    <3>1. <<>> \in Seq(Grants)
      OBVIOUS
    <3> QED BY <3>1
  <2>2. fingerprints \in [Fingerprint -> Statuses]
    BY DEF Statuses
  <2>3. /\ candidates \subseteq Answers /\ lock = None /\ commands = 0 /\ faults = 0
        /\ verdicts = fingerprints /\ raced = FALSE
    OBVIOUS
  <2>4. proposals \in [ProposalIds -> Fingerprint \cup {None}]
    OBVIOUS
  <2>5. /\ auths = {} /\ live = {} /\ installed = {} /\ typed = {} /\ declined = {}
        /\ lifted = {}
    OBVIOUS
  <2> HIDE DEF Init
  <2>6. auths \subseteq Grants /\ installed \subseteq ProposalIds /\ typed \subseteq Nonces
    BY <2>5
  <2>7. live \subseteq {i \in ProposalIds : proposals[i] # None}
    BY <2>5
  <2>8. commands \in 0 .. MaxCommands /\ faults \in 0 .. MaxFaults
    BY <2>3
  <2>9. declined \subseteq ProposalIds /\ lifted \subseteq Fingerprint /\ raced \in BOOLEAN
    BY <2>5, <2>3
  <2>a. lock \in Procs \cup {None}
    BY <2>3
  <2>b. verdicts \in [Fingerprint -> Statuses]
    BY <2>3, <2>2
  <2> QED BY <2>1, <2>2, <2>3, <2>4, <2>6, <2>7, <2>8, <2>9, <2>a, <2>b DEF Shared
<1>2. Locals
  BY DEF Locals, Steps
<1>3. \A p \in Procs : At(p)
  BY DEF At, VerdictSteps, OfferSteps
<1> QED BY <1>1, <1>2, <1>3 DEF Typed

\* Beginning a command or a review.
LEMMA BeginTyped ==
  ASSUME Typed, NEW p \in Procs, NEW a \in Arguments, NEW s \in {"list", "candidate", "status"},
         Begin(p, a, s),
         IF s = "list"
           THEN /\ a.op \in Operations /\ a.id \in ProposalIds /\ proposals[a.id] # None
                /\ a.session \in Sessions /\ (a.op = "apply") = (a.prefix # None)
           ELSE /\ a.op = (IF s = "candidate" THEN "stage" ELSE "review")
                /\ a.fp \in Fingerprint /\ (s = "status" => a.fp \in Answers)
  PROVE  Typed'
<1> USE DEF Begin, Goto, records
<1>1. Shared'
  BY ConstantsAssumption DEF Typed, Shared
<1>2. Locals'
  BY DEF Typed, Shared, Locals, Steps, Begun
<1>3. ASSUME NEW q \in Procs PROVE At(q)'
  <2>1. CASE q = p
    <3>1. pc'[q] = s /\ cmd'[q] = a /\ claimed'[q] = None /\ claimed[q] = None
      BY <2>1 DEF Typed, Locals, At
    <3>2. before'[q] = [verdicts |-> verdicts, declined |-> declined]
      BY <2>1 DEF Typed, Locals
    <3> QED BY <3>1, <3>2 DEF At, VerdictSteps, OfferSteps, Typed, Shared, Begun
  <2>2. CASE q # p
    <3>1. /\ pc'[q] = pc[q] /\ cmd'[q] = cmd[q] /\ before'[q] = before[q]
          /\ claimed'[q] = claimed[q] /\ view'[q] = view[q] /\ At(q)
      BY <2>2 DEF Typed, Locals
    <3> QED BY <3>1 DEF At
  <2> QED BY <2>1, <2>2
<1> QED BY <1>1, <1>2, <1>3 DEF Typed

\* What a step of p leaves alone.
OthersKept(p) ==
  \A q \in Procs \ {p} :
    /\ pc'[q] = pc[q] /\ cmd'[q] = cmd[q] /\ before'[q] = before[q]
    /\ todo'[q] = todo[q] /\ claimed'[q] = claimed[q] /\ view'[q] = view[q]

LEMMA StepTyped ==
  ASSUME Typed, Shared', Locals', NEW p \in Procs, At(p)', OthersKept(p),
         \A i \in ProposalIds : proposals[i] # None => proposals'[i] # None
  PROVE  Typed'
<1>1. ASSUME NEW q \in Procs, q # p PROVE At(q)'
  <2>1. /\ pc'[q] = pc[q] /\ cmd'[q] = cmd[q] /\ before'[q] = before[q]
        /\ claimed'[q] = claimed[q] /\ view'[q] = view[q] /\ At(q)
    BY <1>1 DEF Typed, OthersKept
  <2> QED BY <2>1 DEF At
<1> QED BY <1>1 DEF Typed

\* The steps of a process that goes on.
Walking(p) ==
  \/ List(p) \/ (\E a \in todo[p] : Claim(p, a) \/ ClaimLost(p, a))
  \/ Acquire(p) \/ Load(p) \/ Install(p) \/ Invalidate(p) \/ ReadFingerprints(p)
  \/ WriteRejected(p) \/ ReadCandidate(p) \/ CheckStatus(p)

LEMMA WalkingKept ==
  ASSUME Locals, NEW p \in Procs, Walking(p)
  PROVE  OthersKept(p)
<1> USE DEF Locals, OthersKept, Goto, locals, history
<1>1. CASE List(p) BY <1>1 DEF List
<1>2. ASSUME NEW a \in todo[p], Claim(p, a) \/ ClaimLost(p, a) PROVE OthersKept(p)
  BY <1>2 DEF Claim, ClaimLost
<1>3. CASE Acquire(p) \/ Load(p) \/ Install(p) BY <1>3 DEF Acquire, Load, Install
<1>4. CASE Invalidate(p) \/ ReadFingerprints(p) BY <1>4 DEF Invalidate, ReadFingerprints
<1>5. CASE WriteRejected(p) BY <1>5 DEF WriteRejected
<1>6. CASE ReadCandidate(p) \/ CheckStatus(p) BY <1>6 DEF ReadCandidate, CheckStatus
<1> QED BY <1>1, <1>2, <1>3, <1>4, <1>5, <1>6 DEF Walking

LEMMA WalkingTyped ==
  ASSUME Typed, NEW p \in Procs, Walking(p)
  PROVE  Typed'
<1>p. OthersKept(p) /\ At(p)
  BY WalkingKept DEF Typed
<1> USE DEF Goto, records, bounds, history, locals
<1>1. CASE List(p)
  <2> USE <1>1 DEF List
  <2>1. Shared'
    BY DEF Typed, Shared
  <2>2. Locals'
    BY DEF Typed, Shared, Locals, Steps
  <2>3. At(p)'
    BY <1>p DEF At, Typed, Locals, VerdictSteps, OfferSteps
  <2> QED BY <2>1, <2>2, <2>3, <1>p, StepTyped
<1>2. ASSUME NEW a \in todo[p], Claim(p, a) PROVE Typed'
  <2> USE <1>2 DEF Claim, AfterClaim
  <2>0. a \in Grants /\ a # None
    BY NoneIsNoRecord DEF Typed, Locals
  <2>1. Shared'
    BY DEF Typed, Shared
  <2>2. Locals'
    BY <2>0 DEF Typed, Shared, Locals, Steps
  <2>3. At(p)'
    BY <2>0, <1>p, ConstantsAssumption DEF At, Typed, Locals, VerdictSteps, OfferSteps
  <2> QED BY <2>1, <2>2, <2>3, <1>p, StepTyped
<1>3. ASSUME NEW a \in todo[p], ClaimLost(p, a) PROVE Typed'
  <2> USE <1>3 DEF ClaimLost
  <2>1. Shared'
    BY DEF Typed, Shared
  <2>2. Locals'
    BY DEF Typed, Shared, Locals, Steps
  <2>3. At(p)'
    BY <1>p DEF At, Typed, Locals
  <2> QED BY <2>1, <2>2, <2>3, <1>p, StepTyped
<1>4. CASE Acquire(p)
  <2> USE <1>4 DEF Acquire
  <2>1. Shared'
    BY DEF Typed, Shared
  <2>2. Locals'
    BY DEF Typed, Locals, Steps
  <2>3. At(p)'
    BY <1>p DEF At, Typed, Locals, VerdictSteps, OfferSteps
  <2> QED BY <2>1, <2>2, <2>3, <1>p, StepTyped
<1>5. CASE Load(p)
  <2> USE <1>5 DEF Load
  <2>1. Shared'
    BY DEF Typed, Shared
  <2>2. Locals'
    BY DEF Typed, Locals, Steps
  <2>3. At(p)'
    BY <1>p DEF At, Typed, Locals, VerdictSteps, OfferSteps
  <2> QED BY <2>1, <2>2, <2>3, <1>p, StepTyped
<1>6. CASE Install(p)
  <2> USE <1>6 DEF Install
  <2>1. Deed(p) \in Grants
    BY <1>p, ConstantsAssumption, NoneIsNoRecord
       DEF At, Typed, Locals, Deed, Grants, Arguments, VerdictSteps, Prefixes
  <2>2. Shared'
    BY <2>1, <1>p, AppendProperties DEF Typed, Shared, At, VerdictSteps
  <2>3. Locals'
    BY DEF Typed, Locals, Steps
  <2>4. At(p)'
    BY <1>p DEF At, Typed, Locals, VerdictSteps, OfferSteps
  <2> QED BY <2>2, <2>3, <2>4, <1>p, StepTyped
<1>7. CASE Invalidate(p)
  <2> USE <1>7 DEF Invalidate
  <2>1. Shared'
    BY DEF Typed, Shared
  <2>2. Locals'
    BY DEF Typed, Locals, Steps
  <2>3. At(p)'
    BY <1>p DEF At, Typed, Locals, VerdictSteps, OfferSteps
  <2> QED BY <2>1, <2>2, <2>3, <1>p, StepTyped
<1>8. CASE ReadFingerprints(p)
  <2> USE <1>8 DEF ReadFingerprints
  <2>0. raced' \in BOOLEAN
    BY DEF Typed, Shared
  <2>1. Shared'
    BY <2>0 DEF Typed, Shared
  <2>2. Locals'
    BY DEF Typed, Locals, Steps, Shared
  <2>3. At(p)'
    BY <1>p DEF At, Typed, Locals, VerdictSteps, OfferSteps, Shared
  <2> QED BY <2>1, <2>2, <2>3, <1>p, StepTyped
<1>9. CASE WriteRejected(p)
  <2> USE <1>9 DEF WriteRejected, Record
  <2>0. Deed(p) \in Grants
    BY <1>p, ConstantsAssumption, NoneIsNoRecord
       DEF At, Typed, Locals, Deed, Grants, Arguments, VerdictSteps, Prefixes
  <2>1. fingerprints' \in [Fingerprint -> Statuses] /\ verdicts' \in [Fingerprint -> Statuses]
    BY <1>p DEF Typed, Shared, At, VerdictSteps, Statuses
  <2>2. Shared'
    BY <2>0, <2>1, AppendProperties DEF Typed, Shared
  <2>3. Locals'
    BY DEF Typed, Locals, Steps
  <2>4. At(p)'
    BY <1>p DEF At, Typed, Locals, VerdictSteps, OfferSteps
  <2> QED BY <2>2, <2>3, <2>4, <1>p, StepTyped
<1>a. CASE ReadCandidate(p)
  <2> USE <1>a DEF ReadCandidate
  <2>1. Shared'
    BY DEF Typed, Shared
  <2>2. cmd[p] \in Arguments /\ cmd[p].fp \in Fingerprint /\ candidates \subseteq Lessons \X Places
    BY <1>p, ConstantsAssumption DEF At, Typed, Shared, OfferSteps
  <2>3. /\ cmd'[p] \in Arguments /\ cmd'[p].op = "stage" /\ cmd'[p].fp \in Fingerprint
        /\ cmd' \in [Procs -> Arguments \cup {None}]
    BY SMTT(60), <1>p, <2>2 DEF Typed, Locals, Arguments, Fingerprint, At
  <2>4. Locals'
    BY <2>3 DEF Typed, Locals, Steps
  <2>5. At(p)'
    BY <1>p, <2>3 DEF At, Typed, Locals, VerdictSteps, OfferSteps
  <2> QED BY <2>1, <2>4, <2>5, <1>p, StepTyped
<1>b. CASE CheckStatus(p)
  <2> USE <1>b DEF CheckStatus
  <2>1. Shared'
    BY DEF Typed, Shared
  <2>2. Locals'
    BY DEF Typed, Locals, Steps
  <2>3. At(p)'
    BY <1>p DEF At, Typed, Locals, VerdictSteps, OfferSteps
  <2> QED BY <2>1, <2>2, <2>3, <1>p, StepTyped
<1> QED BY <1>1, <1>2, <1>3, <1>4, <1>5, <1>6, <1>7, <1>8, <1>9, <1>a, <1>b DEF Walking

\* The steps of a process that ends.
Ending(p) ==
  \/ Leaving(p) \/ Restore(p) \/ WriteAccepted(p) \/ Drop(p)
  \/ (\E i \in ProposalIds : StoreProposal(p, i)) \/ StoreCandidate(p)

LEMMA EndingTyped ==
  ASSUME Typed, NEW p \in Procs, Ending(p)
  PROVE  Exit(p) /\ Typed'
<1> USE DEF records, bounds
<1>s. ASSUME Exit(p), \A i \in ProposalIds : proposals[i] # None => proposals'[i] # None,
             lock' \in Procs \cup {None} => Shared'
      PROVE  Exit(p) /\ Typed'
  BY <1>s, ExitTyped DEF Typed
<1>p. At(p)
  BY DEF Typed
<1>1. CASE Leaving(p)
  <2>1. /\ Exit(p)
        /\ UNCHANGED <<auths, records, fingerprints, typed, commands, acts, verdicts, declined,
                       lifted, raced>>
        /\ faults' \in 0 .. MaxFaults
    BY <1>1, LeavingChanges DEF Typed, Shared
  <2>2. lock' \in Procs \cup {None} => Shared'
    BY <2>1 DEF Typed, Shared
  <2> QED BY <2>1, <2>2, <1>s
<1>2. CASE Restore(p)
  <2> USE <1>2 DEF Restore
  <2>1. Deed(p) \in Grants
    BY <1>p, ConstantsAssumption, NoneIsNoRecord
       DEF At, Typed, Locals, Deed, Grants, Arguments, VerdictSteps, Prefixes
  <2>2. lock' \in Procs \cup {None} => Shared'
    BY <2>1, AppendProperties DEF Typed, Shared
  <2> QED BY <2>2, <1>s
<1>3. CASE WriteAccepted(p)
  <2> USE <1>3 DEF WriteAccepted, Record
  <2>1. /\ fingerprints' \in [Fingerprint -> Statuses] /\ verdicts' \in [Fingerprint -> Statuses]
        /\ lifted' \subseteq Fingerprint
    BY <1>p DEF Typed, Shared, At, VerdictSteps, Statuses
  <2>2. lock' \in Procs \cup {None} => Shared'
    BY <2>1 DEF Typed, Shared
  <2> QED BY <2>2, <1>s
<1>4. CASE Drop(p)
  <2> USE <1>4 DEF Drop
  <2>1. lock' \in Procs \cup {None} => Shared'
    BY <1>p DEF Typed, Shared, At, VerdictSteps
  <2> QED BY <2>1, <1>s
<1>5. ASSUME NEW i \in ProposalIds, StoreProposal(p, i) PROVE Exit(p) /\ Typed'
  <2> USE <1>5 DEF StoreProposal
  <2>1. cmd[p].fp \in Fingerprint /\ cmd[p].fp # None
    BY <1>p, NoneIsNoRecord DEF At, OfferSteps
  <2>2. /\ proposals' \in [ProposalIds -> Fingerprint \cup {None}]
        /\ \A j \in ProposalIds : proposals[j] # None => proposals'[j] # None
        /\ live' \subseteq {j \in ProposalIds : proposals'[j] # None}
    BY <2>1 DEF Typed, Shared
  <2>3. lock' \in Procs \cup {None} => Shared'
    BY <2>2 DEF Typed, Shared
  <2> QED BY <2>2, <2>3, <1>s
<1>6. CASE StoreCandidate(p)
  <2> USE <1>6 DEF StoreCandidate
  <2>1. lock' \in Procs \cup {None} => Shared'
    BY <1>p DEF Typed, Shared, At, OfferSteps
  <2> QED BY <2>1, <1>s
<1> QED BY <1>1, <1>2, <1>3, <1>4, <1>5, <1>6 DEF Ending

\* The steps of no process.
Expiring ==
  \/ \E a \in auths : ExpireAuthorization(a)
  \/ \E i \in live : ExpireProposal(i)
  \/ \E c \in candidates : ExpireCandidate(c)

LEMMA NextCases ==
  ASSUME Next
  PROVE  User \/ Expiring \/ \E p \in Procs : Start(p) \/ Walking(p) \/ Ending(p)
  BY DEF Next, Environment, Expiring, Consume, Carry, Present, Walking, Ending, Leaving

LEMMA StartTyped ==
  ASSUME Typed, NEW p \in Procs, Start(p)
  PROVE  Typed'
<1>1. ASSUME NEW op \in Operations, NEW i \in ProposalIds, NEW x \in Prefixes \cup {None},
             NEW s \in Sessions, NEW told \in PassSession, StartVerdict(p, op, i, x, s, told)
      PROVE  Typed'
  <2> DEFINE a == [op |-> op, id |-> i, prefix |-> x, session |-> s, told |-> told,
                   from |-> None, fp |-> None]
  <2>1. a \in Arguments
    BY ConstantsAssumption DEF Arguments, Work
  <2>2. Begin(p, a, "list") /\ proposals[i] # None /\ (op = "apply") = (x # None)
    BY <1>1 DEF StartVerdict
  <2>3. /\ a.op \in Operations /\ a.id \in ProposalIds /\ proposals[a.id] # None
        /\ a.session \in Sessions /\ (a.op = "apply") = (a.prefix # None)
    BY <2>2
  <2> HIDE DEF a
  <2> QED BY <2>1, <2>2, <2>3, BeginTyped
<1>2. ASSUME NEW c \in Answers \cup {None}, NEW place \in Places, StartStage(p, c, place)
      PROVE  Typed'
  <2> DEFINE a == [op |-> "stage", id |-> None, prefix |-> None, session |-> None,
                   told |-> FALSE, from |-> c, fp |-> <<NoLesson, place>>]
  <2>1. a \in Arguments /\ a.fp \in Fingerprint /\ a.op = "stage"
    BY DEF Arguments, Work, Fingerprint
  <2>2. Begin(p, a, "candidate")
    BY <1>2 DEF StartStage, Offer
  <2> HIDE DEF a
  <2> QED BY <2>1, <2>2, BeginTyped
<1>3. ASSUME NEW answer \in Answers, StartReview(p, answer)
      PROVE  Typed'
  <2> DEFINE a == [op |-> "review", id |-> None, prefix |-> None, session |-> None,
                   told |-> FALSE, from |-> None, fp |-> answer]
  <2>1. a \in Arguments /\ a.fp \in Fingerprint /\ a.op = "review" /\ a.fp \in Answers
    BY ConstantsAssumption DEF Arguments, Work, Fingerprint
  <2>2. Begin(p, a, "status")
    BY <1>3 DEF StartReview, Offer
  <2> HIDE DEF a
  <2> QED BY <2>1, <2>2, BeginTyped
<1> QED BY <1>1, <1>2, <1>3 DEF Start

\* What the user's typing and the clock leave alone.
LEMMA OutsideTyped ==
  ASSUME Typed, User \/ Expiring
  PROVE  Typed' /\ UNCHANGED <<pc, locals, lock, before, proposals, fingerprints, verdicts,
                               acts, declined, lifted, raced>>
<1> DEFINE Same == UNCHANGED <<pc, locals, lock, before, proposals, fingerprints, verdicts,
                               acts, declined, lifted, raced>>
<1>s. ASSUME Shared', Same PROVE Typed' /\ Same
  BY <1>s DEF Typed, Locals, At, locals
<1> USE DEF records, history, locals, bounds
<1>1. ASSUME NEW n \in Nonces, NEW op \in Operations, NEW i \in ProposalIds,
             NEW x \in Prefixes \cup {None}, NEW s \in Sessions, TypeCommand(n, op, i, x, s)
      PROVE  Typed' /\ Same
  <2>1. [nonce |-> n, op |-> op, id |-> i, prefix |-> x, session |-> s] \in Grants
    BY DEF Grants
  <2>2. Shared' /\ Same
    BY <1>1, <2>1 DEF TypeCommand, Typed, Shared
  <2> QED BY <2>2, <1>s
<1>2. CASE Expiring
  <2>1. Shared' /\ Same
    BY <1>2, ConstantsAssumption
       DEF Expiring, ExpireAuthorization, ExpireProposal, ExpireCandidate, Fault, Typed, Shared
  <2> QED BY <2>1, <1>s
<1> QED BY <1>1, <1>2 DEF User

LEMMA TypedNext ==
  ASSUME Typed, [Next]_vars
  PROVE  Typed'
<1>1. CASE Next
  BY <1>1, NextCases, OutsideTyped, StartTyped, WalkingTyped, EndingTyped
<1>2. CASE UNCHANGED vars
  BY <1>2 DEF vars, Typed, Shared, Locals, At
<1> QED BY <1>1, <1>2

LEMMA AlwaysTyped ==
  Spec => []Typed
<1>1. Init => Typed
  BY TypedInit
<1>2. Typed /\ [Next]_vars => Typed'
  BY TypedNext
<1> QED BY <1>1, <1>2, PTL DEF Spec

-----------------------------------------------------------------------------
(* Layer 2: the flock.                                                     *)

LEMMA ExclusiveNext ==
  ASSUME Typed, Exclusive, [Next]_vars
  PROVE  Exclusive'
<1>t. Typed'
  BY TypedNext
<1>n. None \notin Procs
  BY ConstantsAssumption
<1> USE DEF records, history, locals, bounds, Goto
<1>1. CASE User \/ Expiring
  BY <1>1, OutsideTyped DEF Exclusive, Holding
<1>2. ASSUME NEW p \in Procs, Start(p) PROVE Exclusive'
  <2>1. /\ lock' = lock /\ pc[p] = "idle" /\ pc'[p] \in {"list", "candidate", "status"}
        /\ \A q \in Procs \ {p} : pc'[q] = pc[q] /\ cmd'[q] = cmd[q]
    BY <1>2 DEF Start, StartVerdict, StartStage, StartReview, Offer, Begin, Typed, Locals
  <2> QED BY <2>1 DEF Exclusive, Holding
<1>3. ASSUME NEW p \in Procs, Walking(p) PROVE Exclusive'
  <2>1. OthersKept(p) /\ At(p)
    BY <1>3, WalkingKept DEF Typed
  <2>2. CASE Acquire(p)
    BY <2>1, <2>2, <1>n DEF Acquire, Exclusive, Holding, OthersKept, At, Typed, Locals, VerdictSteps
  <2>3. CASE ~Acquire(p)
    <3>1. lock' = lock /\ (Holding(p) <=> Holding(p)')
      <4>1. CASE List(p) BY <4>1, <2>1 DEF List, Holding, Typed, Locals
      <4>2. ASSUME NEW a \in todo[p], Claim(p, a) \/ ClaimLost(p, a)
            PROVE  lock' = lock /\ (Holding(p) <=> Holding(p)')
        BY <4>2 DEF Claim, ClaimLost, AfterClaim, Holding, Typed, Locals
      <4>3. CASE Load(p) BY <4>3 DEF Load, Holding, Typed, Locals
      <4>4. CASE Install(p) BY <4>4 DEF Install, Holding, Typed, Locals
      <4>5. CASE Invalidate(p) BY <4>5 DEF Invalidate, Holding, Typed, Locals
      <4>6. CASE ReadFingerprints(p) BY <4>6 DEF ReadFingerprints, Holding, Typed, Locals
      <4>7. CASE WriteRejected(p) BY <4>7 DEF WriteRejected, Holding, Typed, Locals
      <4>8. CASE ReadCandidate(p) BY <4>8 DEF ReadCandidate, Holding, Typed, Locals
      <4>9. CASE CheckStatus(p) BY <4>9 DEF CheckStatus, Holding, Typed, Locals
      <4> QED
        BY <1>3, <2>3, <4>1, <4>2, <4>3, <4>4, <4>5, <4>6, <4>7, <4>8, <4>9 DEF Walking
    <3> QED BY <3>1, <2>1 DEF Exclusive, Holding, OthersKept
  <2> QED BY <2>2, <2>3
<1>4. ASSUME NEW p \in Procs, Ending(p) PROVE Exclusive'
  <2>1. Exit(p)
    BY <1>4, EndingTyped
  <2> QED BY <2>1, <1>n DEF Exit, Exclusive, Holding, Typed, Locals
<1>5. CASE UNCHANGED vars
  BY <1>5 DEF vars, Exclusive, Holding
<1> QED BY <1>1, <1>2, <1>3, <1>4, <1>5, NextCases

\* Every variable keeps its type; the flock is held by a command that is at a step of an
\* apply or a rollback, and whoever ends it, by returning, failing or dying, leaves it free.
THEOREM TypesKept ==
  Spec => []TypeOK
<1>1. Init => Typed /\ Exclusive
  BY TypedInit, ConstantsAssumption DEF Init, Exclusive, Holding
<1>2. Typed /\ Exclusive /\ [Next]_vars => Typed' /\ Exclusive'
  BY TypedNext, ExclusiveNext
<1>3. Typed /\ Exclusive => TypeOK
  <2> SUFFICES ASSUME Typed, Exclusive PROVE TypeOK OBVIOUS
  <2>1. ASSUME lock # None PROVE cmd[lock] # None /\ cmd[lock].op \in {"apply", "rollback"}
    <3>1. lock \in Procs /\ Holding(lock) /\ At(lock)
      BY <2>1 DEF Typed, Shared, Exclusive
    <3> QED BY <3>1, NoneIsNoRecord DEF At, Holding, VerdictSteps
  <2>2. \A p \in Procs : At(p)
    BY DEF Typed
  <2> QED BY <2>1, <2>2 DEF Typed, Shared, Locals, TypeOK, At
<1> QED BY <1>1, <1>2, <1>3, PTL DEF Spec

-----------------------------------------------------------------------------
(* Layer 3: what was rejected cannot be loaded.                            *)

LEMMA BarredNext ==
  ASSUME Typed, Barred, [Next]_vars
  PROVE  Barred'
<1>t. Typed'
  BY TypedNext
<1> USE DEF records, history, locals, bounds, Goto
<1>1. CASE User
  BY <1>1, OutsideTyped DEF User, TypeCommand, Barred, DeclinedNotInstalled
<1>2. CASE Expiring
  <2>1. live' \subseteq live
    BY <1>2 DEF Expiring, ExpireAuthorization, ExpireProposal, ExpireCandidate
  <2> QED BY <1>2, <2>1, OutsideTyped DEF Barred, DeclinedNotInstalled, locals
<1>3. ASSUME NEW p \in Procs, Start(p) PROVE Barred'
  <2>1. /\ UNCHANGED <<proposals, live, declined>> /\ pc[p] = "idle"
        /\ pc'[p] \in {"list", "candidate", "status"} /\ before'[p].declined = declined
        /\ \A q \in Procs \ {p} : pc'[q] = pc[q] /\ cmd'[q] = cmd[q] /\ before'[q] = before[q]
    BY <1>3 DEF Start, StartVerdict, StartStage, StartReview, Offer, Begin, Typed, Locals
  <2> QED BY <2>1 DEF Barred, DeclinedNotInstalled
<1>4. ASSUME NEW p \in Procs, Walking(p) PROVE Barred'
  <2>1. OthersKept(p)
    BY <1>4, WalkingKept DEF Typed
  <2>2. /\ UNCHANGED <<proposals, declined, before>> /\ live' \subseteq live /\ pc[p] # "idle"
    BY <1>4 DEF Walking, List, Claim, ClaimLost, Acquire, Load, Install, Invalidate,
                ReadFingerprints, WriteRejected, ReadCandidate, CheckStatus
  <2>3. pc'[p] = "install" /\ cmd'[p].op = "apply" =>
          pc[p] = "load" /\ cmd'[p] = cmd[p] /\ cmd[p].id \in live
    <3>1. CASE Acquire(p) BY <3>1 DEF Acquire, Typed, Locals
    <3>2. CASE Load(p) BY <3>2 DEF Load, Typed, Locals
    <3>3. CASE ~(Acquire(p) \/ Load(p))
      <4>1. pc'[p] # "install"
        BY <1>4, <3>3 DEF Walking, List, Claim, ClaimLost, AfterClaim, Install, Invalidate,
             ReadFingerprints, WriteRejected, ReadCandidate, CheckStatus, Typed, Locals
      <4> QED BY <4>1
    <3> QED BY <3>1, <3>2, <3>3
  <2> QED BY <2>1, <2>2, <2>3 DEF Barred, DeclinedNotInstalled, OthersKept
<1>5. ASSUME NEW p \in Procs, Ending(p) PROVE Barred'
  <2>1. /\ pc'[p] = "idle" /\ before' = [before EXCEPT ![p] = None]
        /\ \A q \in Procs \ {p} : pc'[q] = pc[q] /\ cmd'[q] = cmd[q] /\ before'[q] = before[q]
    BY <1>5, EndingTyped DEF Exit, Typed, Locals
  <2>2. declined \subseteq declined' /\ \A i \in declined' : i \notin live' /\ proposals'[i] # None
    <3>1. CASE Drop(p)
      BY <3>1 DEF Drop, Barred, Typed, At, VerdictSteps
    <3>2. ASSUME NEW i \in ProposalIds, StoreProposal(p, i)
          PROVE  /\ declined \subseteq declined'
                 /\ \A j \in declined' : j \notin live' /\ proposals'[j] # None
      BY <3>2 DEF StoreProposal, Barred, Typed, Shared
    <3>3. CASE ~Drop(p) /\ ~\E i \in ProposalIds : StoreProposal(p, i)
      <4>1. UNCHANGED <<live, declined, proposals>>
        BY <3>3, <1>5, LeavingChanges
           DEF Ending, Restore, WriteAccepted, StoreCandidate, Typed, Shared
      <4> QED BY <4>1 DEF Barred
    <3> QED BY <3>1, <3>2, <3>3
  <2> QED BY <2>1, <2>2 DEF Barred, DeclinedNotInstalled
<1>6. CASE UNCHANGED vars
  BY <1>6 DEF vars, Barred, DeclinedNotInstalled
<1> QED BY <1>1, <1>2, <1>3, <1>4, <1>5, <1>6, NextCases

\* Whatever was running, staged or killed meanwhile, an apply that the user starts after a
\* reject was reported ("target is unchanged", commands.py:312) is stopped at the load:
\* Drop unlinks the record before it reports, and no later step brings the record back.
THEOREM NeverInstalledOnceDeclined ==
  Spec => []DeclinedNotInstalled
<1>1. Init => Typed /\ Barred
  BY TypedInit DEF Init, Barred, DeclinedNotInstalled
<1>2. Typed /\ Barred /\ [Next]_vars => Typed' /\ Barred'
  BY TypedNext, BarredNext
<1>3. Barred => DeclinedNotInstalled
  BY DEF Barred
<1> QED BY <1>1, <1>2, <1>3, PTL DEF Spec

-----------------------------------------------------------------------------
(* Layer 4: authorizations.                                                *)

\* What was spent is exactly what the authorization says.
LEMMA DeedIsTheGrant ==
  ASSUME Typed, Spent, NEW p \in Procs, claimed[p] # None, pc[p] \in VerdictSteps
  PROVE  Deed(p) = claimed[p]
<1>1. claimed[p] \in Grants /\ Matches(claimed[p], cmd[p]) /\ cmd[p] \in Arguments
  BY DEF Typed, Locals, Spent, At, VerdictSteps
<1> QED BY <1>1 DEF Matches, Deed, Grants, Arguments

\* What a step does to the authorizations: nothing, or one is typed, spent or lost.
Typing(a) == a \in Grants /\ a.nonce \notin typed /\ Granted' = Granted \cup {a} /\ acts' = acts
Losing(a) == a \in Granted /\ Granted' = Granted \ {a} /\ acts' = acts
Spending(a) ==
  /\ a \in Granted /\ (a.op = "apply" => a.prefix = "right")
  /\ Granted' = Granted \ {a} /\ acts' = Append(acts, a)

Accounting ==
  \/ Granted' = Granted /\ acts' = acts
  \/ \E a \in Grants : Typing(a) \/ Losing(a) \/ Spending(a)

\* A process lets go of the authorization it claimed.
LEMMA Released ==
  ASSUME Typed, Spent, NEW p \in Procs, claimed[p] # None, auths' = auths,
         claimed' = [claimed EXCEPT ![p] = None]
  PROVE  claimed[p] \in Granted /\ claimed[p] \in Grants /\ Granted' = Granted \ {claimed[p]}
<1>1. claimed[p] \in Granted /\ claimed[p] \in Grants
  BY DEF Granted, Typed, Locals
<1>2. ASSUME NEW a \in Granted, a # claimed[p] PROVE a \in Granted'
  BY <1>2 DEF Granted, Typed, Locals
<1>3. ASSUME NEW a \in Granted' PROVE a \in Granted /\ a # claimed[p]
  BY <1>3 DEF Granted, Typed, Locals, Spent
<1> QED BY <1>1, <1>2, <1>3

\* A process that holds none keeps holding none.
LEMMA NothingReleased ==
  ASSUME Typed, NEW p \in Procs, claimed[p] = None, auths' = auths,
         claimed' = [claimed EXCEPT ![p] = None]
  PROVE  claimed' = claimed /\ Granted' = Granted
  BY DEF Granted, Typed, Locals

LEMMA StartAccounting ==
  ASSUME Typed, Spent, NEW p \in Procs, Start(p)
  PROVE  Spent' /\ Accounting
<1>1. /\ UNCHANGED <<auths, claimed, todo, typed, acts>>
      /\ pc[p] = "idle" /\ pc'[p] \in {"list", "candidate", "status"}
      /\ \A q \in Procs \ {p} : pc'[q] = pc[q] /\ cmd'[q] = cmd[q]
  BY DEF Start, StartVerdict, StartStage, StartReview, Offer, Begin, Goto, Typed, Locals
<1>2. claimed[p] = None
  BY <1>1 DEF Typed, At
<1> QED BY <1>1, <1>2 DEF Spent, Accounting, Granted

LEMMA OutsideAccounting ==
  ASSUME Typed, Spent, User \/ Expiring
  PROVE  Spent' /\ Accounting
<1>s. UNCHANGED <<pc, cmd, todo, claimed, acts>>
  BY OutsideTyped DEF locals
<1>1. ASSUME NEW n \in Nonces, NEW op \in Operations, NEW i \in ProposalIds,
             NEW x \in Prefixes \cup {None}, NEW s \in Sessions, TypeCommand(n, op, i, x, s)
      PROVE  Spent' /\ Accounting
  <2> DEFINE a == [nonce |-> n, op |-> op, id |-> i, prefix |-> x, session |-> s]
  <2>1. a \in Grants /\ a.nonce = n
    BY DEF Grants
  <2>2. n \notin typed /\ auths' = auths \cup {a} /\ typed' = typed \cup {n}
    BY <1>1 DEF TypeCommand
  <2> HIDE DEF a
  <2>3. Granted' = Granted \cup {a}
    BY <2>1, <2>2, <1>s, NoneIsNoRecord DEF Granted
  <2>4. Accounting
    BY <2>1, <2>2, <2>3, <1>s DEF Accounting, Typing
  <2>5. a \notin Granted
    BY <2>1, <2>2 DEF Spent
  <2>6. \A p \in Procs : claimed[p] # None => claimed[p] # a
    BY <2>5 DEF Granted
  <2> QED BY <2>1, <2>2, <2>3, <2>4, <2>6, <1>s DEF Spent
<1>2. ASSUME NEW a \in auths, ExpireAuthorization(a) PROVE Spent' /\ Accounting
  <2>1. auths' = auths \ {a} /\ typed' = typed /\ a \in Grants
    BY <1>2 DEF ExpireAuthorization, Typed, Shared
  <2>2. \A p \in Procs : claimed[p] # a
    BY NoneIsNoRecord, <2>1 DEF Spent
  <2>3. Granted' = Granted \ {a} /\ a \in Granted
    BY <2>1, <2>2, <1>s, NoneIsNoRecord DEF Granted
  <2> QED BY <2>1, <2>3, <1>s DEF Spent, Accounting, Losing
<1>3. CASE \/ \E i \in live : ExpireProposal(i)
           \/ \E c \in candidates : ExpireCandidate(c)
  <2>1. auths' = auths /\ typed' = typed
    BY <1>3 DEF ExpireProposal, ExpireCandidate
  <2> QED BY <2>1, <1>s DEF Spent, Accounting, Granted
<1> QED BY <1>1, <1>2, <1>3 DEF User, Expiring

LEMMA WalkingAccounting ==
  ASSUME Typed, Spent, NEW p \in Procs, Walking(p)
  PROVE  Spent' /\ Accounting
<1>o. OthersKept(p) /\ At(p)
  BY WalkingKept DEF Typed
<1> USE DEF Goto, records, bounds, history, locals
<1>1. CASE List(p)
  <2>1. /\ UNCHANGED <<auths, claimed, typed, acts, cmd>> /\ pc'[p] = "claim"
        /\ todo'[p] = {a \in auths : Matches(a, cmd[p])}
    BY <1>1 DEF List, Typed, Locals
  <2> QED BY <2>1, <1>o DEF Spent, Accounting, Granted, OthersKept
<1>2. ASSUME NEW a \in todo[p], Claim(p, a) PROVE Spent' /\ Accounting
  <2>1. /\ pc[p] = "claim" /\ a \in auths /\ auths' = auths \ {a} /\ claimed'[p] = a
        /\ pc'[p] \in {"load", "lock"} /\ cmd' = cmd
        /\ UNCHANGED <<typed, acts>> /\ claimed[p] = None /\ claimed' = [claimed EXCEPT ![p] = a]
    BY <1>2, <1>o DEF Claim, AfterClaim, Typed, Locals, At
  <2>2. a \in Grants /\ a # None /\ Matches(a, cmd[p])
    BY <2>1, NoneIsNoRecord DEF Spent, Typed, Shared
  <2>3. \A q \in Procs : claimed[q] # a
    BY <2>1, <2>2 DEF Spent
  <2>4. Granted' = Granted
    BY <2>1, <2>2, <2>3 DEF Granted, Typed, Locals
  <2> QED BY <2>1, <2>2, <2>3, <2>4, <1>o DEF Spent, Accounting, OthersKept
<1>3. ASSUME NEW a \in todo[p], ClaimLost(p, a) PROVE Spent' /\ Accounting
  <2>1. /\ UNCHANGED <<auths, claimed, typed, acts, cmd, pc>> /\ todo'[p] \subseteq todo[p]
    BY <1>3 DEF ClaimLost, Typed, Locals
  <2> QED BY <2>1, <1>o DEF Spent, Accounting, Granted, OthersKept
<1>4. CASE Acquire(p)
  <2>1. /\ UNCHANGED <<auths, claimed, typed, acts, cmd>> /\ pc'[p] # "claim"
        /\ (pc'[p] = "install" => cmd[p].op # "apply")
    BY <1>4 DEF Acquire, Typed, Locals
  <2> QED BY <2>1, <1>o DEF Spent, Accounting, Granted, OthersKept, PrefixHolds
<1>5. CASE Load(p)
  <2>1. /\ UNCHANGED <<auths, claimed, typed, acts, cmd>> /\ pc'[p] # "claim"
        /\ PrefixHolds(cmd[p])
    BY <1>5 DEF Load, Typed, Locals
  <2> QED BY <2>1, <1>o DEF Spent, Accounting, Granted, OthersKept
<1>6. CASE Install(p) \/ WriteRejected(p)
  <2>1. /\ UNCHANGED <<auths, typed, cmd>> /\ pc'[p] \in {"invalidate", "drop"}
        /\ claimed' = [claimed EXCEPT ![p] = None] /\ acts' = Append(acts, Deed(p))
        /\ claimed[p] # None /\ pc[p] \in VerdictSteps
        /\ (cmd[p].op = "apply" => PrefixHolds(cmd[p]))
    BY <1>6, <1>o DEF Install, WriteRejected, Typed, Locals, At, VerdictSteps, Spent
  <2>2. Deed(p) = claimed[p] /\ Matches(claimed[p], cmd[p])
    BY <2>1, DeedIsTheGrant DEF Spent
  <2>3. claimed[p] \in Granted /\ claimed[p] \in Grants /\ Granted' = Granted \ {claimed[p]}
    BY <2>1, Released
  <2>4. Spending(claimed[p])
    BY <2>1, <2>2, <2>3 DEF Spending, Matches, PrefixHolds
  <2>5. \A i \in DOMAIN acts' : acts'[i].nonce \in typed
    BY <2>1, <2>2, <2>3, AppendProperties DEF Spent, Typed, Shared
  <2> QED BY <2>1, <2>3, <2>4, <2>5, <1>o DEF Spent, Accounting, OthersKept, Typed, Locals
<1>7. CASE Invalidate(p) \/ ReadFingerprints(p) \/ CheckStatus(p)
  <2>1. /\ UNCHANGED <<auths, claimed, typed, acts, cmd>> /\ pc'[p] \notin {"claim", "install"}
    BY <1>7 DEF Invalidate, ReadFingerprints, CheckStatus, Typed, Locals
  <2> QED BY <2>1, <1>o DEF Spent, Accounting, Granted, OthersKept
<1>8. CASE ReadCandidate(p)
  <2>1. /\ UNCHANGED <<auths, claimed, typed, acts>> /\ pc'[p] = "status" /\ claimed[p] = None
    BY <1>8, <1>o DEF ReadCandidate, Typed, Locals, At
  <2> QED BY <2>1, <1>o DEF Spent, Accounting, Granted, OthersKept
<1> QED BY <1>1, <1>2, <1>3, <1>4, <1>5, <1>6, <1>7, <1>8 DEF Walking

LEMMA EndingAccounting ==
  ASSUME Typed, Spent, NEW p \in Procs, Ending(p)
  PROVE  Spent' /\ Accounting
<1>1. /\ auths' = auths /\ typed' = typed /\ pc'[p] = "idle"
      /\ claimed' = [claimed EXCEPT ![p] = None]
      /\ \A q \in Procs \ {p} : /\ pc'[q] = pc[q] /\ cmd'[q] = cmd[q] /\ todo'[q] = todo[q]
                                /\ claimed'[q] = claimed[q]
      /\ claimed'[p] = None
  <2>1. Exit(p) /\ auths' = auths /\ typed' = typed
    BY EndingTyped, LeavingChanges
       DEF Ending, Restore, WriteAccepted, Drop, StoreProposal, StoreCandidate, records, bounds,
           Typed, Shared
  <2> QED BY <2>1 DEF Exit, Typed, Locals
<1>2. CASE Restore(p)
  <2>1. /\ acts' = Append(acts, Deed(p)) /\ claimed[p] # None /\ pc[p] \in VerdictSteps
        /\ cmd[p].op = "rollback"
    BY <1>2 DEF Restore, Typed, At, VerdictSteps
  <2>2. Deed(p) = claimed[p] /\ Matches(claimed[p], cmd[p])
    BY <2>1, DeedIsTheGrant DEF Spent
  <2>3. claimed[p] \in Granted /\ claimed[p] \in Grants /\ Granted' = Granted \ {claimed[p]}
    BY <1>1, <2>1, Released
  <2>4. Spending(claimed[p])
    BY <2>1, <2>2, <2>3 DEF Spending, Matches
  <2>5. \A i \in DOMAIN acts' : acts'[i].nonce \in typed
    BY <2>1, <2>2, <2>3, AppendProperties DEF Spent, Typed, Shared
  <2> QED BY <1>1, <2>3, <2>4, <2>5 DEF Spent, Accounting
<1>3. CASE ~Restore(p)
  <2>1. acts' = acts
    BY <1>3, LeavingChanges
       DEF Ending, WriteAccepted, Drop, StoreProposal, StoreCandidate, Typed, Shared
  <2>2. CASE claimed[p] = None
    <3>1. claimed' = claimed /\ Granted' = Granted
      BY <1>1, <2>2, NothingReleased
    <3> QED BY <1>1, <2>1, <3>1 DEF Spent, Accounting
  <2>3. CASE claimed[p] # None
    <3>1. claimed[p] \in Granted /\ claimed[p] \in Grants /\ Granted' = Granted \ {claimed[p]}
      BY <1>1, <2>3, Released
    <3> QED BY <1>1, <2>1, <3>1 DEF Spent, Accounting, Losing
  <2> QED BY <2>2, <2>3
<1> QED BY <1>2, <1>3

LEMMA SpentNext ==
  ASSUME Typed, Spent, [Next]_vars
  PROVE  Spent' /\ Accounting
<1>1. CASE UNCHANGED vars
  BY <1>1 DEF vars, Spent, Granted, Accounting
<1> QED
  BY <1>1, NextCases, StartAccounting, OutsideAccounting, WalkingAccounting, EndingAccounting

\* Whatever is done was typed, as that operation on that id, with the right prefix and in
\* the session; one typed command is acted on at most once, however many commands list it,
\* however their claims interleave (authz.consume) and wherever one is killed: every step
\* of the commands maps to a step of Consent or to none.
THEOREM ConsentImplemented ==
  Spec => ImplementsConsent
<1>1. Init => Typed /\ Spent
  BY TypedInit DEF Init, Spent, Granted
<1>2. Typed /\ Spent /\ [Next]_vars => Typed' /\ Spent'
  BY TypedNext, SpentNext
<1>3. Init => Word!Init
  BY DEF Init, Word!Init
<1>4. Typed /\ Spent /\ [Next]_vars => [Word!Next]_(Word!vars)
  <2> SUFFICES ASSUME Typed, Spent, [Next]_vars PROVE [Word!Next]_(Word!vars) OBVIOUS
  <2>1. CASE Granted' = Granted /\ acts' = acts
    BY <2>1 DEF Granted, Word!vars
  <2>2. ASSUME NEW a \in Grants, Typing(a) \/ Losing(a) \/ Spending(a)
        PROVE  Word!Next
    <3>1. a \in Word!Grant
      BY DEF Grants, Word!Grant, Prefixes
    <3>2. CASE Typing(a)
      <4>1. Word!Type(a)
        BY <3>2 DEF Typing, Spent, Granted, Word!Type
      <4> QED BY <3>1, <4>1 DEF Word!Next
    <3>3. CASE Losing(a)
      <4>1. Word!Lapse(a)
        BY <3>3 DEF Losing, Granted, Word!Lapse
      <4> QED BY <3>1, <4>1 DEF Word!Next
    <3>4. CASE Spending(a)
      <4>1. Word!Act(a)
        BY <3>4 DEF Spending, Granted, Word!Act, Word!Verified
      <4> QED BY <3>1, <4>1 DEF Word!Next
    <3> QED BY <2>2, <3>2, <3>3, <3>4
  <2> QED BY <2>1, <2>2, SpentNext DEF Accounting
<1> QED BY <1>1, <1>2, <1>3, <1>4, PTL DEF Spec, ImplementsConsent, Word!Spec

-----------------------------------------------------------------------------
(* Layer 5: the fingerprints of earlier verdicts.                          *)

\* The steps that leave fingerprints.json and the verdicts alone, and after which no
\* process is writing that was not.
Quiet ==
  /\ UNCHANGED <<fingerprints, verdicts, lifted, raced>>
  /\ \A q \in Procs : Writing(q)' => Writing(q) /\ view'[q] = view[q]

LEMMA QuietSteps ==
  ASSUME Typed, NEW p \in Procs, Start(p) \/ Walking(p) \/ Ending(p),
         ~ReadFingerprints(p), ~WriteRejected(p), ~WriteAccepted(p)
  PROVE  Quiet
<1> USE DEF Quiet, Goto, Writing, records, locals, bounds, history
<1>1. CASE Start(p)
  BY <1>1 DEF Start, StartVerdict, StartStage, StartReview, Offer, Begin, Typed, Locals
<1>2. CASE Walking(p)
  <2>1. OthersKept(p)
    BY <1>2, WalkingKept DEF Typed
  <2>2. /\ UNCHANGED <<fingerprints, verdicts, lifted, raced, view>>
        /\ (pc'[p] = "fpwrite" => pc[p] = "fpwrite")
    BY <1>2 DEF Walking, List, Claim, ClaimLost, AfterClaim, Acquire, Load, Install, Invalidate,
                ReadCandidate, CheckStatus, Typed, Locals
  <2> QED BY <2>1, <2>2 DEF OthersKept
<1>3. CASE Ending(p)
  <2>1. Exit(p)
    BY <1>3, EndingTyped
  <2>2. UNCHANGED <<fingerprints, verdicts, lifted, raced>>
    BY <1>3, LeavingChanges DEF Ending, Restore, Drop, StoreProposal, StoreCandidate, Typed, Shared
  <2> QED BY <2>1, <2>2 DEF Exit, Typed, Locals
<1> QED BY <1>1, <1>2, <1>3

LEMMA KeptNext ==
  ASSUME Typed, Exclusive, Kept, [Next]_vars
  PROVE  Kept'
<1>1. CASE Quiet
  BY <1>1 DEF Quiet, Kept
<1>2. ASSUME NEW p \in Procs, ReadFingerprints(p) PROVE Kept'
  <2>1. At(p) /\ OthersKept(p)
    BY <1>2, WalkingKept DEF Walking, Typed
  <2>2. /\ UNCHANGED <<fingerprints, verdicts>> /\ view'[p] = fingerprints
        /\ pc[p] = "fpread" /\ pc'[p] = "fpwrite"
        /\ (~raced' => ~raced /\ \A q \in Procs \ {p} :
                         Writing(q) => cmd[p].op # "reject" /\ cmd[q].op # "reject")
    BY <1>2 DEF ReadFingerprints, Goto, Typed, Locals
  <2>3. ASSUME ~raced', NEW q \in Procs, q # p PROVE ~Writing(q)
    <3>1. ASSUME Writing(q) PROVE FALSE
      <4>1. Holding(p) /\ Holding(q)
        BY <2>2, <2>3, <3>1 DEF Holding, Writing
      <4> QED BY <4>1, <2>3 DEF Exclusive
    <3> QED BY <3>1
  <2> QED BY <2>1, <2>2, <2>3 DEF Kept, Writing, OthersKept
<1>3. ASSUME NEW p \in Procs, WriteRejected(p) \/ WriteAccepted(p) PROVE Kept'
  <2>1. /\ pc[p] = "fpwrite" /\ pc'[p] # "fpwrite" /\ raced' = raced
        /\ \A q \in Procs \ {p} : pc'[q] = pc[q]
    BY <1>3 DEF WriteRejected, WriteAccepted, Exit, Goto, Typed, Locals
  <2>2. \E f, decided : /\ fingerprints' = [view[p] EXCEPT ![f] = decided]
                        /\ verdicts' = [verdicts EXCEPT ![f] = decided]
    BY <1>3 DEF WriteRejected, WriteAccepted, Record
  <2>3. ~raced' => fingerprints' = verdicts'
    BY <2>1, <2>2 DEF Kept, Writing
  <2>4. ~raced' => \A q \in Procs : ~Writing(q)'
    BY <2>1 DEF Kept, Writing
  <2> QED BY <2>3, <2>4 DEF Kept
<1>4. CASE User \/ Expiring
  BY <1>4, OutsideTyped DEF locals, Kept, Writing
<1>5. CASE UNCHANGED vars
  BY <1>5 DEF vars, Kept, Writing
<1> QED BY <1>1, <1>2, <1>3, <1>4, <1>5, NextCases, QuietSteps

LEMMA RememberedNext ==
  ASSUME Typed, Remembered, [Next]_vars
  PROVE  Remembered'
<1>1. CASE User \/ Expiring
  BY <1>1, OutsideTyped DEF Remembered
<1>2. ASSUME NEW p \in Procs, Start(p) PROVE Remembered'
  <2>1. /\ UNCHANGED <<verdicts, lifted>> /\ before'[p].verdicts = verdicts
        /\ \A q \in Procs \ {p} : pc'[q] = pc[q] /\ before'[q] = before[q]
    BY <1>2 DEF Start, StartVerdict, StartStage, StartReview, Offer, Begin, Goto, Typed, Locals
  <2> QED BY <2>1 DEF Remembered
<1>3. ASSUME NEW p \in Procs, Walking(p) \/ Ending(p) PROVE Remembered'
  <2>1. \A q \in Procs : pc'[q] # "idle" => before'[q] = before[q] /\ pc[q] # "idle"
    <3>1. CASE Walking(p)
      <4>1. before' = before /\ pc[p] # "idle" /\ OthersKept(p)
        BY <3>1, WalkingKept
           DEF Walking, List, Claim, ClaimLost, Acquire, Load, Install, Invalidate,
               ReadFingerprints, WriteRejected, ReadCandidate, CheckStatus, Goto, history, Typed
      <4> QED BY <4>1 DEF OthersKept
    <3>2. CASE Ending(p)
      BY <3>2, EndingTyped DEF Exit, Typed, Locals
    <3> QED BY <1>3, <3>1, <3>2
  <2>2. ASSUME NEW f \in Fingerprint, verdicts[f] = "rejected" \/ f \in lifted
        PROVE  verdicts'[f] = "rejected" \/ f \in lifted'
    <3>1. CASE Quiet
      BY <2>2, <3>1 DEF Quiet
    <3>2. CASE WriteRejected(p)
      BY <2>2, <3>2 DEF WriteRejected, Record, Typed, Shared
    <3>3. CASE WriteAccepted(p)
      BY <2>2, <3>3 DEF WriteAccepted, Record, Typed, Shared
    <3>4. CASE ReadFingerprints(p)
      BY <2>2, <3>4 DEF ReadFingerprints
    <3> QED BY <1>3, <3>1, <3>2, <3>3, <3>4, QuietSteps
  <2> QED BY <2>1, <2>2 DEF Remembered
<1>4. CASE UNCHANGED vars
  BY <1>4 DEF vars, Remembered
<1> QED BY <1>1, <1>2, <1>3, <1>4, NextCases

LEMMA OfferedNext ==
  ASSUME Typed, Kept, Remembered, DeclinedNotOffered, [Next]_vars
  PROVE  DeclinedNotOffered'
<1> SUFFICES ASSUME NEW p \in Procs, pc'[p] = "store", ~raced',
                    before'[p].verdicts[cmd'[p].fp] = "rejected"
             PROVE  cmd'[p].fp \in lifted'
  BY DEF DeclinedNotOffered
<1>1. (~raced' => ~raced) /\ lifted \subseteq lifted'
  <2>1. CASE User \/ Expiring \/ UNCHANGED vars
    BY <2>1, OutsideTyped DEF vars
  <2>2. ASSUME NEW q \in Procs, Start(q) \/ Walking(q) \/ Ending(q)
        PROVE  (~raced' => ~raced) /\ lifted \subseteq lifted'
    BY <2>2, QuietSteps DEF Quiet, ReadFingerprints, WriteRejected, WriteAccepted
  <2> QED BY <2>1, <2>2, NextCases
<1>2. CASE pc[p] = "store" /\ cmd'[p] = cmd[p] /\ before'[p] = before[p]
  BY <1>1, <1>2 DEF DeclinedNotOffered
<1>3. CASE CheckStatus(p)
  <2>1. /\ pc[p] = "status" /\ cmd' = cmd /\ before' = before /\ verdicts' = verdicts
        /\ fingerprints[cmd[p].fp] # "rejected"
    BY <1>3 DEF CheckStatus, Goto, locals, history, Suppresses
  <2>2. cmd[p].fp \in Fingerprint
    BY <2>1 DEF Typed, At, OfferSteps
  <2>3. fingerprints = verdicts
    BY <1>1 DEF Kept
  <2> QED BY <1>1, <2>1, <2>2, <2>3 DEF Remembered
<1>4. (pc[p] = "store" /\ cmd'[p] = cmd[p] /\ before'[p] = before[p]) \/ CheckStatus(p)
  <2>1. CASE User \/ Expiring \/ UNCHANGED vars
    BY <2>1, OutsideTyped DEF vars, locals
  <2>2. ASSUME NEW q \in Procs, Start(q)
        PROVE  pc[p] = "store" /\ cmd'[p] = cmd[p] /\ before'[p] = before[p]
    BY <2>2 DEF Start, StartVerdict, StartStage, StartReview, Offer, Begin, Goto, Typed, Locals
  <2>3. ASSUME NEW q \in Procs, Walking(q), ~CheckStatus(p)
        PROVE  pc[p] = "store" /\ cmd'[p] = cmd[p] /\ before'[p] = before[p]
    <3>1. OthersKept(q)
      BY <2>3, WalkingKept DEF Typed
    <3>2. q # p
      BY <2>3 DEF Walking, List, Claim, ClaimLost, AfterClaim, Acquire, Load, Install, Invalidate,
                  ReadFingerprints, WriteRejected, ReadCandidate, Goto, Typed, Locals
    <3> QED BY <3>1, <3>2 DEF OthersKept
  <2>4. ASSUME NEW q \in Procs, Ending(q)
        PROVE  pc[p] = "store" /\ cmd'[p] = cmd[p] /\ before'[p] = before[p]
    BY <2>4, EndingTyped DEF Exit, Typed, Locals
  <2> QED BY <2>1, <2>2, <2>3, <2>4, NextCases
<1> QED BY <1>2, <1>3, <1>4

\* The flock, which a reject does not take, suffices for the fingerprints of applies:
\* unless a reject was between its read and its write of fingerprints.json while another
\* command was (journal.record_fingerprint), no verdict of the user is lost.
THEOREM NoVerdictLost ==
  Spec => []VerdictsKept
<1>1. Init => Typed /\ Exclusive /\ Kept
  BY TypedInit, ConstantsAssumption DEF Init, Exclusive, Holding, Kept, Writing
<1>2. Typed /\ Exclusive /\ Kept /\ [Next]_vars => Typed' /\ Exclusive' /\ Kept'
  BY TypedNext, ExclusiveNext, KeptNext
<1>3. Typed /\ Kept => VerdictsKept
  BY DEF Kept, VerdictsKept
<1> QED BY <1>1, <1>2, <1>3, PTL DEF Spec

\* And then neither a stage nor a review offers a fingerprint that was rejected before it
\* began, whatever was decided between its check and its store, unless an apply of another
\* proposal with that fingerprint has lifted the rejection.
THEOREM DeclinedStaysDeclined ==
  Spec => []DeclinedNotOffered
<1> DEFINE I == Typed /\ Exclusive /\ Kept /\ Remembered /\ DeclinedNotOffered
<1>1. Init => I
  BY TypedInit, ConstantsAssumption
     DEF Init, Exclusive, Holding, Kept, Writing, Remembered, DeclinedNotOffered
<1>2. I /\ [Next]_vars => I'
  BY TypedNext, ExclusiveNext, KeptNext, RememberedNext, OfferedNext
<1>3. I => DeclinedNotOffered
  OBVIOUS
<1> QED BY <1>1, <1>2, <1>3, PTL DEF Spec
=============================================================================
