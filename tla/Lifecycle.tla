------------------------------- MODULE Lifecycle -------------------------------
(***************************************************************************)
(* From a lesson to the user's verdict on it: authorizations (authz.py),   *)
(* the commands that spend them (commands.py), proposals (proposals.py),   *)
(* the fingerprints of earlier verdicts (journal.py), and the two places   *)
(* that consult those: staging and the review (orchestrate.py).            *)
(*                                                                         *)
(* A process of Procs is one `si' command or one review, and may run       *)
(* several.  Only apply and rollback take the `mutate' flock.  What module *)
(* Mutate does step by step is here the one step in which the bytes land   *)
(* or are refused.  A mutation bears the id of the proposal it installed.  *)
(*                                                                         *)
(* proposals.fingerprint digests the lesson with the scope and the kind of *)
(* a file: it is abstracted to a pair of a lesson and a place.             *)
(***************************************************************************)
EXTENDS Naturals, Sequences

CONSTANTS
  Procs,        \* concurrent commands and reviews
  Nonces,       \* authorizations (uuids, never reused)
  ProposalIds,  \* proposals (uuids, never reused)
  Sessions,     \* session ids
  Lessons,      \* what a candidate teaches
  NoLesson,     \* candidate.get('lesson', ''): no candidate, or an expired one
  Places,       \* a scope and a kind of artifact
  Answers,      \* what the reviewer proposes: lessons, each for a place
  None,         \* nothing there
  Operations,   \* authz.OPERATIONS, those enabled
  PassSession,  \* is --session-id passed?  The skills never do
  Misroutes,    \* may a lesson be staged elsewhere than the reviewer suggested?
  MaxCommands,  \* bound: commands and reviews started
  MaxFaults     \* bound: processes killed and records expired

ASSUME ConstantsAssumption ==
  /\ NoLesson \notin Lessons /\ Answers \subseteq Lessons \X Places
  /\ None \notin Procs \cup Nonces \cup ProposalIds \cup Sessions \cup {"right", "wrong"}
  /\ Operations \subseteq {"apply", "reject", "rollback"}
  /\ PassSession \subseteq BOOLEAN /\ Misroutes \in BOOLEAN
  /\ MaxCommands \in Nat /\ MaxFaults \in Nat

VARIABLES
  auths,        \* the records in authorizations/
  candidates,   \* the live records in candidates/
  proposals,    \* what was staged under each id
  live,         \* ids whose record is still in proposals/
  installed,    \* ids whose bytes were installed and journaled
  fingerprints, \* fingerprints.json
  lock,         \* holder of the `mutate' flock
  pc, cmd,      \* each process: next step, arguments
  todo,         \* each process: the authorizations it listed and has not tried
  claimed,      \* each process: the authorization it deleted
  view,         \* each process: the fingerprints it read
  typed,        \* nonces used
  commands, faults,
  acts,         \* history: what was done, and on whose word
  verdicts,     \* history: the last verdict on each fingerprint
  declined,     \* history: proposals whose reject was reported
  before,       \* history: `verdicts' and `declined' when each process began
  lifted,       \* history: fingerprints accepted at some time
  raced         \* history: a reject and another command wrote fingerprints at once

vars == <<auths, candidates, proposals, live, installed, fingerprints, lock, pc, cmd,
          todo, claimed, view, typed, commands, faults, acts, verdicts, declined, before,
          lifted, raced>>

records == <<candidates, proposals, live, installed>>
locals  == <<cmd, todo, claimed, view>>
bounds  == <<typed, commands, faults>>
history == <<acts, verdicts, declined, before, lifted, raced>>

-----------------------------------------------------------------------------

Fingerprint == (Lessons \cup {NoLesson}) \X Places
Statuses    == {"unseen", "accepted", "rejected"}
Prefixes    == {"right", "wrong"}
Grants      == [nonce : Nonces, op : Operations, id : ProposalIds,
                prefix : Prefixes \cup {None}, session : Sessions]
Work        == Operations \cup {"stage", "review"}
Steps       == {"idle", "list", "claim", "lock", "load", "install", "invalidate",
                "fpread", "fpwrite", "drop", "candidate", "status", "store"}

\* Arguments of a process.  A review has the lesson and the place its reviewer
\* answered, a stage the candidate it names (or none) and the place of its target.
Arguments == [op : Work, id : ProposalIds \cup {None}, prefix : Prefixes \cup {None},
              session : Sessions \cup {None}, told : BOOLEAN,
              from : Answers \cup {None}, fp : Fingerprint \cup {None}]

Begun == [verdicts : [Fingerprint -> Statuses], declined : SUBSET ProposalIds]

ASSUME NoneIsNoRecord == None \notin Grants \cup Fingerprint \cup Arguments

\* Earlier sessions may have left candidates.
Init ==
  /\ auths = {}
  /\ candidates \in SUBSET Answers
  /\ proposals = [i \in ProposalIds |-> None]
  /\ live = {} /\ installed = {}
  /\ fingerprints = [f \in Fingerprint |-> "unseen"]
  /\ lock = None
  /\ pc = [p \in Procs |-> "idle"]
  /\ cmd = [p \in Procs |-> None]
  /\ todo = [p \in Procs |-> {}]
  /\ claimed = [p \in Procs |-> None]
  /\ view = [p \in Procs |-> None]
  /\ typed = {} /\ commands = 0 /\ faults = 0
  /\ acts = <<>>
  /\ verdicts = fingerprints
  /\ declined = {} /\ lifted = {} /\ raced = FALSE
  /\ before = [p \in Procs |-> None]

Goto(p, from, to) == pc[p] = from /\ pc' = [pc EXCEPT ![p] = to]

\* Mutant: the flock stays with a command that is gone.
ExitLocked(p) ==
  /\ pc' = [pc EXCEPT ![p] = "idle"]
  /\ cmd' = [cmd EXCEPT ![p] = None]
  /\ todo' = [todo EXCEPT ![p] = {}]
  /\ claimed' = [claimed EXCEPT ![p] = None]
  /\ view' = [view EXCEPT ![p] = None]
  /\ before' = [before EXCEPT ![p] = None]
  /\ lock' = lock

\* A command returns, fails or is killed: its locals go, and the flock with them.
Exit(p) ==
  /\ pc' = [pc EXCEPT ![p] = "idle"]
  /\ cmd' = [cmd EXCEPT ![p] = None]
  /\ todo' = [todo EXCEPT ![p] = {}]
  /\ claimed' = [claimed EXCEPT ![p] = None]
  /\ view' = [view EXCEPT ![p] = None]
  /\ before' = [before EXCEPT ![p] = None]
  /\ lock' = IF lock = p THEN None ELSE lock

-----------------------------------------------------------------------------
(* The user types a command, and Claude runs one.                          *)

\* capture_expansion, grant: only proposals that were presented are typed.
TypeCommand(n, op, i, x, s) ==
  /\ n \notin typed
  /\ proposals[i] # None
  /\ (op = "apply") = (x # None)
  /\ auths' = auths \cup {[nonce |-> n, op |-> op, id |-> i, prefix |-> x, session |-> s]}
  /\ typed' = typed \cup {n}
  /\ UNCHANGED <<records, fingerprints, lock, pc, locals, commands, faults, history>>

Begin(p, arguments, first) ==
  /\ commands < MaxCommands
  /\ Goto(p, "idle", first)
  /\ commands' = commands + 1
  /\ cmd' = [cmd EXCEPT ![p] = arguments]
  /\ before' = [before EXCEPT ![p] = [verdicts |-> verdicts, declined |-> declined]]
  /\ UNCHANGED <<auths, records, fingerprints, lock, todo, claimed, view, typed, faults,
                 acts, verdicts, declined, lifted, raced>>

\* apply-proposal, reject-proposal or rollback-mutation, run in session s with
\* whatever arguments.
StartVerdict(p, op, i, x, s, told) ==
  /\ proposals[i] # None
  /\ (op = "apply") = (x # None)
  /\ Begin(p, [op |-> op, id |-> i, prefix |-> x, session |-> s, told |-> told,
               from |-> None, fp |-> None], "list")

-----------------------------------------------------------------------------
(* authz.consume.                                                          *)

Matches(a, c) ==
  /\ a.op = c.op
  /\ c.told => a.session = c.session
  /\ a.id = c.id
  /\ a.prefix = c.prefix

List(p) ==
  /\ Goto(p, "list", "claim")
  /\ todo' = [todo EXCEPT ![p] = {a \in auths : Matches(a, cmd[p])}]
  /\ UNCHANGED <<auths, records, fingerprints, lock, cmd, claimed, view, bounds, history>>

AfterClaim(op) == IF op = "reject" THEN "load" ELSE "lock"

\* Mutant: what the unlink returned is not looked at.
ClaimUnchecked(p, a) ==
  /\ a \in todo[p]
  /\ Goto(p, "claim", AfterClaim(cmd[p].op))
  /\ auths' = auths \ {a}
  /\ claimed' = [claimed EXCEPT ![p] = a]
  /\ todo' = [todo EXCEPT ![p] = {}]
  /\ UNCHANGED <<records, fingerprints, lock, cmd, view, bounds, history>>

\* The record is unlinked: the command goes ahead.
Claim(p, a) ==
  /\ a \in todo[p] /\ a \in auths
  /\ Goto(p, "claim", AfterClaim(cmd[p].op))
  /\ auths' = auths \ {a}
  /\ claimed' = [claimed EXCEPT ![p] = a]
  /\ todo' = [todo EXCEPT ![p] = {}]
  /\ UNCHANGED <<records, fingerprints, lock, cmd, view, bounds, history>>

\* Another process claimed it, or it is gone: on to the next.
ClaimLost(p, a) ==
  /\ pc[p] = "claim" /\ a \in todo[p] /\ a \notin auths
  /\ todo' = [todo EXCEPT ![p] = @ \ {a}]
  /\ UNCHANGED <<auths, records, fingerprints, lock, pc, cmd, claimed, view, bounds, history>>

NoAuthorization(p) ==
  /\ pc[p] = "claim" /\ todo[p] = {}
  /\ Exit(p)
  /\ UNCHANGED <<auths, records, fingerprints, bounds, acts, verdicts, declined, lifted, raced>>

-----------------------------------------------------------------------------
(* Apply, reject and rollback, from the claim on.                          *)

\* What was done, and the authorization that was spent on it.  A command that
\* was not told its session acts for the one the authorization names.
Deed(p) == [nonce |-> claimed[p].nonce, op |-> cmd[p].op, id |-> cmd[p].id,
            prefix |-> cmd[p].prefix,
            session |-> IF cmd[p].told THEN cmd[p].session ELSE claimed[p].session]

\* Mutant: the flock does not exclude.
AcquireShared(p) ==
  /\ Goto(p, "lock", IF cmd[p].op = "apply" THEN "load" ELSE "install")
  /\ lock' = p
  /\ UNCHANGED <<auths, records, fingerprints, locals, bounds, history>>

Acquire(p) ==
  /\ lock = None
  /\ Goto(p, "lock", IF cmd[p].op = "apply" THEN "load" ELSE "install")
  /\ lock' = p
  /\ UNCHANGED <<auths, records, fingerprints, locals, bounds, history>>

\* verify_hash_prefix: only an apply carries a prefix.
PrefixHolds(c) == c.op = "apply" => c.prefix = "right"

Load(p) ==
  /\ Goto(p, "load", IF cmd[p].op = "apply" THEN "install" ELSE "fpread")
  /\ cmd[p].id \in live /\ PrefixHolds(cmd[p])
  /\ UNCHANGED <<auths, records, fingerprints, lock, locals, bounds, history>>

\* unknown_or_expired_proposal, hash_mismatch.
LoadFails(p) ==
  /\ pc[p] = "load" /\ (cmd[p].id \notin live \/ ~PrefixHolds(cmd[p]))
  /\ Exit(p)
  /\ UNCHANGED <<auths, records, fingerprints, bounds, acts, verdicts, declined, lifted, raced>>

\* The bytes land and are journaled; the authorization has been acted on.
Install(p) ==
  /\ Goto(p, "install", "invalidate")
  /\ cmd[p].op = "apply"
  /\ installed' = installed \cup {cmd[p].id}
  /\ acts' = Append(acts, Deed(p))
  /\ claimed' = [claimed EXCEPT ![p] = None]
  /\ UNCHANGED <<auths, candidates, proposals, live, fingerprints, lock, cmd, todo, view,
                 bounds, verdicts, declined, before, lifted, raced>>

\* The backup is restored and the mutation counts as undone.
Restore(p) ==
  /\ pc[p] = "install" /\ cmd[p].op = "rollback" /\ cmd[p].id \in installed
  /\ installed' = installed \ {cmd[p].id}
  /\ acts' = Append(acts, Deed(p))
  /\ Exit(p)
  /\ UNCHANGED <<auths, candidates, proposals, live, fingerprints, bounds, verdicts,
                 declined, lifted, raced>>

\* Any refusal or failure that leaves the target alone: see module Mutate.
InstallRefused(p) ==
  /\ pc[p] = "install"
  /\ Exit(p)
  /\ UNCHANGED <<auths, records, fingerprints, bounds, acts, verdicts, declined, lifted, raced>>

Invalidate(p) ==
  /\ Goto(p, "invalidate", "fpread")
  /\ live' = live \ {cmd[p].id}
  /\ UNCHANGED <<auths, candidates, proposals, installed, fingerprints, lock, locals, bounds,
                 history>>

Writing(p) == pc[p] = "fpwrite"

\* record_fingerprint reads the whole file.
ReadFingerprints(p) ==
  /\ Goto(p, "fpread", "fpwrite")
  /\ view' = [view EXCEPT ![p] = fingerprints]
  /\ raced' = (raced \/ \E q \in Procs \ {p} :
                          Writing(q) /\ "reject" \in {cmd[p].op, cmd[q].op})
  /\ UNCHANGED <<auths, records, fingerprints, lock, cmd, todo, claimed, bounds, acts,
                 verdicts, declined, before, lifted>>

\* And writes it back whole.  What the user decided goes into `verdicts',
\* whichever copy of the file ends up on disk.
Record(p, f, decided) ==
  /\ fingerprints' = [view[p] EXCEPT ![f] = decided]
  /\ verdicts' = [verdicts EXCEPT ![f] = decided]

WriteAccepted(p) ==
  LET f == proposals[cmd[p].id] IN
  /\ pc[p] = "fpwrite" /\ cmd[p].op = "apply"
  /\ Record(p, f, "accepted")
  /\ lifted' = lifted \cup {f}
  /\ Exit(p)
  /\ UNCHANGED <<auths, records, bounds, acts, declined, raced>>

WriteRejected(p) ==
  LET f == proposals[cmd[p].id] IN
  /\ Goto(p, "fpwrite", "drop")
  /\ cmd[p].op = "reject"
  /\ Record(p, f, "rejected")
  /\ acts' = Append(acts, Deed(p))
  /\ claimed' = [claimed EXCEPT ![p] = None]
  /\ UNCHANGED <<auths, records, lock, cmd, todo, view, bounds, declined, before, lifted, raced>>

\* Mutant: the record of a rejected proposal is left for its TTL.
DropNot(p) ==
  /\ pc[p] = "drop"
  /\ live' = live
  /\ declined' = declined \cup {cmd[p].id}
  /\ Exit(p)
  /\ UNCHANGED <<auths, candidates, proposals, installed, fingerprints, bounds, acts, verdicts,
                 lifted, raced>>

\* reject_proposal invalidates last, and then reports.
Drop(p) ==
  /\ pc[p] = "drop"
  /\ live' = live \ {cmd[p].id}
  /\ declined' = declined \cup {cmd[p].id}
  /\ Exit(p)
  /\ UNCHANGED <<auths, candidates, proposals, installed, fingerprints, bounds, acts, verdicts,
                 lifted, raced>>

-----------------------------------------------------------------------------
(* Offering a lesson: stage-proposal, and the review that finds it.        *)

Offer(p, w, c, f, first) ==
  Begin(p, [op |-> w, id |-> None, prefix |-> None, session |-> None,
            told |-> FALSE, from |-> c, fp |-> f], first)

StartStage(p, c, place) ==
  /\ c \in candidates \cup {None}
  /\ c # None => Misroutes \/ place = c[2]
  /\ Offer(p, "stage", c, <<NoLesson, place>>, "candidate")

\* The reviewer proposes a lesson for a place.
StartReview(p, answer) == Offer(p, "review", None, answer, "status")

\* stage_proposal: a candidate that has expired is read as {}.
ReadCandidate(p) ==
  /\ Goto(p, "candidate", "status")
  /\ cmd' = IF cmd[p].from \in candidates
              THEN [cmd EXCEPT ![p].fp[1] = cmd[p].from[1]] ELSE cmd
  /\ UNCHANGED <<auths, records, fingerprints, lock, todo, claimed, view, bounds, history>>

\* Mutant: the review does not mind a rejection.
SuppressesAccepted(op, status) ==
  IF op = "stage" THEN status = "rejected" ELSE status = "accepted"

\* A stage stops at a rejected fingerprint, a review at any that is known.
Suppresses(op, status) == IF op = "stage" THEN status = "rejected" ELSE status # "unseen"

CheckStatus(p) ==
  /\ Goto(p, "status", "store")
  /\ ~Suppresses(cmd[p].op, fingerprints[cmd[p].fp])
  /\ UNCHANGED <<auths, records, fingerprints, lock, locals, bounds, history>>

\* duplicate_of_rejected_proposal, or a `duplicate' outcome.
Duplicate(p) ==
  /\ pc[p] = "status" /\ Suppresses(cmd[p].op, fingerprints[cmd[p].fp])
  /\ Exit(p)
  /\ UNCHANGED <<auths, records, fingerprints, bounds, acts, verdicts, declined, lifted, raced>>

StoreProposal(p, i) ==
  /\ pc[p] = "store" /\ cmd[p].op = "stage" /\ proposals[i] = None
  /\ proposals' = [proposals EXCEPT ![i] = cmd[p].fp]
  /\ live' = live \cup {i}
  /\ Exit(p)
  /\ UNCHANGED <<auths, candidates, installed, fingerprints, bounds, acts, verdicts, declined,
                 lifted, raced>>

\* empty_content, path_rejected, no_change.
StageRefused(p) ==
  /\ pc[p] = "store" /\ cmd[p].op = "stage"
  /\ Exit(p)
  /\ UNCHANGED <<auths, records, fingerprints, bounds, acts, verdicts, declined, lifted, raced>>

StoreCandidate(p) ==
  /\ pc[p] = "store" /\ cmd[p].op = "review"
  /\ candidates' = candidates \cup {cmd[p].fp}
  /\ Exit(p)
  /\ UNCHANGED <<auths, proposals, live, installed, fingerprints, bounds, acts, verdicts,
                 declined, lifted, raced>>

-----------------------------------------------------------------------------
(* Time and failure.                                                       *)

Fault == faults < MaxFaults /\ faults' = faults + 1

ExpireAuthorization(a) ==
  /\ Fault
  /\ auths' = auths \ {a}
  /\ UNCHANGED <<records, fingerprints, lock, pc, locals, typed, commands, history>>

ExpireProposal(i) ==
  /\ Fault
  /\ live' = live \ {i}
  /\ UNCHANGED <<auths, candidates, proposals, installed, fingerprints, lock, pc, locals,
                 typed, commands, history>>

ExpireCandidate(c) ==
  /\ Fault
  /\ candidates' = candidates \ {c}
  /\ UNCHANGED <<auths, proposals, live, installed, fingerprints, lock, pc, locals, typed,
                 commands, history>>

Kill(p) ==
  /\ Fault /\ pc[p] # "idle"
  /\ Exit(p)
  /\ UNCHANGED <<auths, records, fingerprints, typed, commands, acts, verdicts, declined,
                 lifted, raced>>

-----------------------------------------------------------------------------

User ==
  \/ \E n \in Nonces, op \in Operations, i \in ProposalIds, x \in Prefixes \cup {None},
       s \in Sessions : TypeCommand(n, op, i, x, s)

Start(p) ==
  \/ \E op \in Operations, i \in ProposalIds, x \in Prefixes \cup {None},
       s \in Sessions, told \in PassSession : StartVerdict(p, op, i, x, s, told)
  \/ \E c \in Answers \cup {None}, place \in Places : StartStage(p, c, place)
  \/ \E answer \in Answers : StartReview(p, answer)

Consume(p) ==
  \/ List(p)
  \/ \E a \in todo[p] : Claim(p, a) \/ ClaimLost(p, a)
  \/ NoAuthorization(p)

Carry(p) ==
  \/ Acquire(p) \/ Load(p) \/ LoadFails(p)
  \/ Install(p) \/ Restore(p) \/ InstallRefused(p) \/ Invalidate(p)
  \/ ReadFingerprints(p) \/ WriteAccepted(p) \/ WriteRejected(p) \/ Drop(p)

Present(p) ==
  \/ ReadCandidate(p) \/ CheckStatus(p) \/ Duplicate(p)
  \/ \E i \in ProposalIds : StoreProposal(p, i)
  \/ StageRefused(p) \/ StoreCandidate(p)

Environment ==
  \/ \E a \in auths : ExpireAuthorization(a)
  \/ \E i \in live : ExpireProposal(i)
  \/ \E c \in candidates : ExpireCandidate(c)
  \/ \E p \in Procs : Kill(p)

Next == User \/ Environment \/ \E p \in Procs : Start(p) \/ Consume(p) \/ Carry(p) \/ Present(p)

Spec == Init /\ [][Next]_vars

-----------------------------------------------------------------------------

\* Every variable keeps its type; who holds the flock is at a step of an apply
\* or a rollback, and a process has arguments exactly while it runs.
TypeOK ==
  /\ auths \subseteq Grants
  /\ candidates \subseteq Answers
  /\ proposals \in [ProposalIds -> Fingerprint \cup {None}]
  /\ live \subseteq {i \in ProposalIds : proposals[i] # None}
  /\ installed \subseteq ProposalIds
  /\ fingerprints \in [Fingerprint -> Statuses] /\ verdicts \in [Fingerprint -> Statuses]
  /\ lock # None => cmd[lock] # None /\ cmd[lock].op \in {"apply", "rollback"}
  /\ pc \in [Procs -> Steps]
  /\ \A p \in Procs :
       /\ IF pc[p] = "idle" THEN cmd[p] = None /\ before[p] = None
                            ELSE cmd[p] \in Arguments /\ before[p] \in Begun
       /\ todo[p] \subseteq Grants
       /\ claimed[p] \in Grants \cup {None}
       /\ view[p] \in [Fingerprint -> Statuses] \cup {None}
  /\ typed \subseteq Nonces /\ commands \in 0 .. MaxCommands /\ faults \in 0 .. MaxFaults
  /\ acts \in Seq(Grants)
  /\ declined \subseteq ProposalIds /\ lifted \subseteq Fingerprint /\ raced \in BOOLEAN

\* authz.consume: an authorization that was claimed may still be acted on, once.
Word == INSTANCE Consent WITH
          granted <- auths \cup ({claimed[p] : p \in Procs} \ {None}),
          done    <- acts

\* Whatever is done was typed as that operation on that id, an apply with the
\* right prefix, and in the session the command was told of; one typed command
\* is acted on at most once, whoever else lists it, and however it is killed.
ImplementsConsent == Word!Spec

\* An apply that began after a reject of its proposal was reported ("target is
\* unchanged", commands.py:312) never reaches the install.
DeclinedNotInstalled ==
  \A p \in Procs : pc[p] = "install" /\ cmd[p].op = "apply" => cmd[p].id \notin before[p].declined

\* As long as no reject overlapped another writer of fingerprints.json, every
\* verdict of the user is in it: the flock is enough for applies.
VerdictsKept == raced \/ fingerprints = verdicts

\* And then a fingerprint rejected before a stage or a review began is offered
\* by neither, unless the user accepted it from another proposal.
DeclinedNotOffered ==
  \A p \in Procs : pc[p] = "store" /\ ~raced =>
    (before[p].verdicts[cmd[p].fp] = "rejected" => cmd[p].fp \in lifted)

\* What skills/reject/SKILL.md says: a lesson that was rejected is not proposed
\* again, for whatever place.
LessonNotReoffered ==
  \A p \in Procs : pc[p] = "store" /\ ~raced =>
    \A f \in Fingerprint :
      f[1] = cmd[p].fp[1] /\ f[1] # NoLesson /\ before[p].verdicts[f] = "rejected" => f \in lifted
=============================================================================
