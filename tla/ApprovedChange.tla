---------------------------- MODULE ApprovedChange ----------------------------
(***************************************************************************)
(* What applying and rolling back promise, with no locks, markers, backups *)
(* or crashes: in one step, exactly the staged bytes replace exactly the   *)
(* bytes they were staged against, or a recorded change is undone by       *)
(* putting back what it replaced, once.  Everything else that happens to a *)
(* target is someone else's edit.                                          *)
(***************************************************************************)
CONSTANTS Targets, Contents, Absent, ProposalIds, Fingerprints, MutIds, None

VARIABLES
  file,    \* content of each target
  staged,  \* what was approved under each proposal id
  ledger   \* the changes made

vars == <<file, staged, ledger>>

FileState == Contents \cup {Absent}

Init ==
  /\ file \in [Targets -> FileState]
  /\ staged = [i \in ProposalIds |-> None]
  /\ ledger = {}

Stage(i, t, c, f) ==
  /\ staged[i] = None
  /\ staged' = [staged EXCEPT ![i] = [target |-> t, pre |-> file[t], post |-> c, fp |-> f]]
  /\ UNCHANGED <<file, ledger>>

Edit(t, c) ==
  /\ file' = [file EXCEPT ![t] = c]
  /\ UNCHANGED <<staged, ledger>>

\* A change c replaces its preimage with its post-image and is recorded.
Make(c) ==
  /\ \A d \in ledger : d.id # c.id
  /\ file[c.target] = c.pre
  /\ file' = [file EXCEPT ![c.target] = c.post]
  /\ ledger' = ledger \cup {c}
  /\ UNCHANGED staged

Install(i, m) ==
  /\ staged[i] # None
  /\ Make([id |-> m, op |-> "apply", pid |-> i, target |-> staged[i].target,
           pre |-> staged[i].pre, post |-> staged[i].post, undoes |-> 0])

Undo(a, m) ==
  /\ a.op = "apply"
  /\ \A c \in ledger : c.undoes # a.id
  /\ Make([id |-> m, op |-> "rollback", pid |-> a.pid, target |-> a.target,
           pre |-> a.post, post |-> a.pre, undoes |-> a.id])

Next ==
  \/ \E i \in ProposalIds, t \in Targets, c \in Contents, f \in Fingerprints :
       Stage(i, t, c, f)
  \/ \E t \in Targets, c \in FileState : Edit(t, c)
  \/ \E m \in MutIds : (\E i \in ProposalIds : Install(i, m)) \/ (\E a \in ledger : Undo(a, m))

Spec == Init /\ [][Next]_vars
=============================================================================
