# self-improve: TLA+ models, model checking and proofs

The plugin (`src/plugin`) watches the turns of a Claude Code session, has a
second model review the ones that may hold a lesson, puts a candidate lesson in
front of the user, and, when the user approves an exact diff, installs it in an
instruction file (`CLAUDE.md`, a rule, a skill). Everything runs as short-lived
processes: hooks that Claude Code starts at its events (several at once) and
`si` commands that skills start. They share one directory of small JSON files
and, for installing only, one `flock`. Whatever can go wrong between them, goes
wrong through those files.

## The system

| Component (src/plugin/selfimprove) | State | Operations | Talks to |
|---|---|---|---|
| Mutation protocol, `mutate.py` | the target file, `inflight.json`, `backups/` | `apply_proposal`, `rollback_mutation`, `reconcile` | lock, proposals, journal, paths |
| Lock, `locking.py` | `locks/mutate.lock` | `state_lock` | mutate |
| Proposals, `proposals.py` | `proposals/` | `stage`, `load`, `invalidate` | store, allowlist, journal |
| Journal, `journal.py` | `mutations.jsonl`, `fingerprints.json`, `diagnostics.jsonl` | `mutation`, `find_mutation`, `record_fingerprint`, `diagnostic` | mutate, orchestrate, commands |
| Authorizations, `authz.py` | `authorizations/` | `grant` from a typed command, `consume` | commands |
| Gate, `gate.py` | `counters.json` | `suppressed`, `evaluate`, `note_review`, `note_awaiting_presentation`, `clear_awaiting_presentation` | capture, store |
| Orchestration, `orchestrate.py` | `candidates/`, `pending.json` | `run`, `pending_candidates`, `drop_pending` | gate, evidence, reviewer, journal |
| Capture, `capture.py` | `turns/<session>/` | `record_prompt`, `record_tool_failure`, `record_tool_success`, `discard_turn` | store, redact |
| Store, `store.py` | all collections | `write_record`, `read_record`, `delete_record`, `list_records`, `sweep` | paths |
| Files, `paths.py` | the file system | `atomic_write`, `fsync_dir`, `ensure_dir` | |
| Commands, `commands.py` | none of their own | the hooks and `si` commands | all of the above |
| Reviewer, `reviewer.py` | none | one bounded call of the `claude` CLI | schema |
| Pure parts: `allowlist.py`, `schema.py`, `evidence.py`, `redact.py`, `markers.py`, `owners.py` | none | path admission, extraction of the candidate, selection of evidence, text | |

### What is hard in it

- **Concurrency.** Only apply and rollback take the flock. The hooks of
  parallel tool calls, the Stop hooks of several sessions (which run in the
  background for up to 300 s), `show-candidate` and `reject-proposal` do not:
  `counters.json`, `pending.json`, `fingerprints.json` and turn files are read
  whole and written whole. Other programs edit the target files at any moment.
- **Failure.** Any process can be killed between any two steps (hook timeout,
  session exit). `inflight.json` and `reconcile` exist for this case.
  `atomic_write` can fail before or after its rename.
- **Time.** Records expire; the daily limit resets at midnight; a cooldown
  bounds reviews.
- **Long sequences.** Applies, outside edits and rollbacks can make an old
  preimage current again; a spent proposal must stay spent and an undone
  mutation must stay undone.

### What makes each component correct

- *Mutation protocol*: exactly the approved bytes replace exactly the bytes
  they were approved against; whatever a mutation left in a target can be
  explained by the journal or by a standing marker; a mutation is undone once
  and a proposal installed once; the backup behind a journaled mutation is
  usable; every command ends.
- *Gate and orchestration*: the daily ceiling holds; a session that was woken
  for a candidate is not reviewed again before it reads it; a candidate whose
  wake is lost is still surfaced; the files never refer to what does not exist.
- *Authorizations, proposals, fingerprints*: whatever is done was typed by the
  user as that operation on that id, and one typed command is acted on once; a
  proposal that was rejected is not installed; a rejected lesson is not proposed
  again.
- *Allowlist and owners*: bytes land at the path the user was shown and inside
  an allowed root, whatever was linked meanwhile; the rules and skills that
  `find-owners` lists can be staged.
- *Reviewer and schema*: the answer is found in whatever the model wraps it in;
  only a complete answer of a reviewer that succeeded is proposed; a decline and
  a failure are not taken for each other.
- *Capture and store*: no event of a turn is lost; the sweep deletes only what
  has expired; no captured prompt outlives its turn.
- *Files*: a reader sees the old or the new content; after a power loss also.

`PROJECT.json` lists the hazards at their lines, with the properties that cover
them.

## Modules

| Module | What it is |
|---|---|
| `Mutate` | apply, rollback and reconcile, step by step |
| `ApprovedChange` | what they promise: one atomic step per change |
| `Review` | gate counters, review pipeline, pending queue, presentation |
| `Capture` | turn files: hooks, the review's load and discard, the sweep |
| `Lifecycle` | authorizations, `si` commands, proposals and fingerprints |
| `Consent` | what they promise: each deed was typed, and is done once |
| `Destination` | path admission, owner listing, and where the bytes land |
| `Durable` | what a power loss leaves of an apply |
| `Verdict` | from the reviewer's process to a verdict and its journal line |
| `MutateProofs`, `ApprovalProofs`, `LifecycleProofs`, `ReviewProofs`, `CaptureProofs`, `DurableProofs`, `VerdictProofs`, `DestinationProofs` | theorems about these modules for every value of their constants |
| `MCMutate`, `MCReview`, `MCCapture`, `MCLifecycle`, `MCDestination`, `MCVerdict` | small sets and symmetry for the configurations |

The modules look at one system at different grains. `Lifecycle` has `Mutate`'s
steps as the one step in which the bytes land or are refused; `Durable` has the
one apply that `Mutate`'s flock admits, and splits each of its writes;
`Destination` has the paths of stage, apply and rollback and leaves the bytes
out; `Review` has as one choice, `Invoke`, what `Verdict` follows from exit code
to verdict, and what `Lifecycle` checks against the fingerprints.

The operators whose comment says *Mutant* are wrong on purpose: each is what a
plausible mistake in one definition would make of it, and the property named
beside it in `PROJECT.json` fails when it takes that definition's place.

### Mutate

A process of `Procs` is an `apply-proposal` or `rollback-mutation` command; it
may run several times, up to `MaxCommands` in all. `pc` names the step of
`mutate.py` it is about to take:

    lock -> reconcile -> (unmark) -> load -> check -> backup -> mark -> install
         -> verify -> journal -> clear -> invalidate -> fpread -> fpwrite

A rollback has no `backup` and ends at `clear`. One action stands for each
effect on disk and for each read whose answer another process may change before
it is used; `Leave` is every return or exception, and releases the flock as the
`finally` clauses do. `Crash` ends a command before any step and releases the
flock, as the kernel does. `Stage`, `Expire` and `Edit` are everybody else.

| Variable | Code |
|---|---|
| `file` | the target files |
| `marker` | `inflight.json` |
| `journal` | the lines of `mutations.jsonl` |
| `backups` | `backups/<mutation id>/` |
| `proposals`, `live` | what was staged, and which records are still there |
| `fingerprints`, `view` | `fingerprints.json`, and a command's copy of it |
| `lock` | the `mutate` flock |
| `cmd`, `job` | a command's arguments, and the record it loaded |
| `writer`, `landed` | history, for the properties only |

A digest is the content it is of. Contents, targets and ids are model values.
`hash_mismatch`, `path_rejected`, `target_moved` and `staged_content_corrupt`
depend on data that is not kept, so `Refuse` may refuse a command at will.

Four constants choose an environment, so that each property is checked where it
holds and shown to fail where it does not: `CrashOps` (which commands may be
killed), `RaceEdits` (whether others edit a target between a command's
comparison and its verification), `LateErrors` (whether `atomic_write` raises
after its rename), and `StageContents`, `EditContents` (who writes what).

Removing the command's own marker is taken not to fail (`_clear_inflight`
ignores an `OSError`). Here processes are killed but the machine keeps its power;
`Durable` is about the other case.

### Review

A process of `Reviews` is one Stop hook or one `si improve`, from the event to
its exit; a process of `Shows` is one `si show-candidate --id`. Every read and
every write of `counters.json` and `pending.json` is a step of its own, and
`cview`, `qview` hold the copy that will be written back.

| Variable | Code |
|---|---|
| `counters` | `counters.json`: day, count, last review, awaiting flags |
| `pending` | `pending.json`, oldest first |
| `live` | candidates whose record exists and has not expired |
| `turns` | turn files |
| `event`, `shown`, `seen` | a process's arguments, and the flag it read |
| `billed`, `stored`, `woken`, `presented`, `evicted`, `lifted`, `amid` | history |

A turn offers the gate the user's own words, inferred evidence, or a direct
request: the three cases the limits tell apart. A turn with no signal, and a
suppressor that depends on the environment (`disabled`, the reviewer's own
session, `stop_hook_active`, work in flight), is `NoSignal`. The reviewer's
answer and the fingerprint lookup are one choice, `Invoke`. The list that
SessionStart shows is not filtered by working directory and is not cut to five.

Nothing keeps Stop hooks and shows apart, and `Together` only bounds how many run
at a time, as `MaxFaults` bounds kills and expiries together. `amid` holds the reviews that were noted, queued or flagged while
another process was midway: past the limits and not counted yet, or with a copy of
the same file that it would write back. `lifted` holds the candidates whose flag the
code took down for another reason than that they were asked for: a new day's record,
a newer candidate of the session, or the showing of another one
(`clear_awaiting_presentation` clears the session's flag whatever it names). Three
properties exempt exactly these; what goes wrong has to have gone wrong at that very
step, and later overlaps and kills cost nothing.

### Capture

One session. A process of `Hooks` is one capture hook, of `Reviews` a Stop hook
or an `improve`, of `Sweeps` a SessionEnd hook. Loading a turn and writing or
discarding it are separate steps; a process that is killed is one that takes no
further step.

| Variable | Code |
|---|---|
| `files` | `turns/<session>/<turn>.json`: turn id, last prompt, kept text, events, creation, expiry |
| `ids` | whether events carry a `prompt_id` (`Turns`) or not (`FALLBACK_TURN`) |
| `arg`, `held`, `todo` | a process's event, the record it loaded, the files a sweep has yet to see |
| `due`, `evicted`, `expired`, `reviewed`, `overtaken`, `last` | history |

An event and a kept text are named for the hook that recorded them. The code does
lose events (parallel tool calls, a write during a review, a record renewed under the
sweep), and on a rolling turn a hook that loaded it before the last prompt was written
brings an earlier prompt back. `overtaken` holds the processes that changed a file at
a moment when another had read it, or found it missing, and was about to change it;
`NothingLost`, `PromptKept` and `ReviewLeavesNoPrompt` exempt the event, the prompt or
the review that was overtaken, and nothing else that met it. `last` is the last prompt
written to each turn. `PairingExact` has no exemption: a stale copy written back is
still the result of one chain of hooks. The sweep unlinks what it read as expired, and
what it read as nothing although it had listed it, whatever is there by then. A directory pruned between a hook's
`makedirs` and `mkstemp` is the joint step `PruneUnder`. Turns begun in the same
second, which `list_records` orders by name, are taken to be apart.

### Lifecycle

A process of `Procs` is one `si` command (`stage`, `apply-proposal`,
`reject-proposal`, `rollback-mutation`) or one review, and may run several. The
user types authorizations at any moment; records expire; a process may be killed
at any step.

| Variable | Code |
|---|---|
| `auths` | `authorizations/` |
| `todo`, `claimed` | in `consume`: the records listed and not yet tried, and the one that was unlinked |
| `candidates` | live records of `candidates/` |
| `proposals`, `live` | what was staged, and which records are still there |
| `installed` | proposals whose bytes landed and were journaled |
| `fingerprints`, `view` | `fingerprints.json`, and a process's copy of it |
| `lock`, `pc`, `cmd` | the flock, a process's next step and its arguments |
| `acts`, `verdicts`, `declined`, `before`, `lifted`, `raced` | history |

A fingerprint, the digest of lesson, scope and kind of file, is a pair of a
lesson and a place. Of a digest prefix in an `apply` only whether it is right is
kept. `PassSession` says whether `--session-id` is passed (the skills never
do), `Misroutes` whether a lesson may be staged for another place than the
reviewer's.

`Consent` has two variables, what the user granted and what was done on it, and
one step, in which a granted deed is done and its grant is gone.
`Lifecycle` implements it with `granted` being the records in
`authorizations/` and those a process has unlinked and not yet acted on.

### Destination

A path is the sequence of its names, absolute and normalized; `fs` says of each
node whether it is a file, a directory, a link or nothing. `Real` is
`os.path.realpath`: it follows the first link in the path (`Follow`) until there
is none, `MaxLinks` times at most, and leaves a path alone whose links lead round
in a circle. `Resolve` is
`allowlist.resolve`, `ListedArtifacts` and `ListedClaudeMd` are what
`owners.discover` finds, and the commands are staging, apply and rollback, each
in a check and a write. `Relink` and `Delete` are everybody else: they turn
entries into links, across the roots and out of them, and remove directories,
between commands (`RaceLinks = FALSE`; the code cannot notice a link made between
its check and its rename).

`resolve` looks for links below the root on the *real* path, where `realpath` has left
none; what it refuses is a target that is itself a link, and one that leads out of the
roots. Spec 0001, section 8.1, has it refuse "any symlinked component between an
allowed root and the target" (docs/specs/0001-hermes-style-experiential-learning-mvp.md:371),
and the code does not: a target below a directory that was linked to another allowed
one is accepted, as the path it leads to. That path is what is shown, staged and
written (`LandsWhereChecked`).

| Variable | Code |
|---|---|
| `fs` | the file system |
| `shown` | the staged proposal: the destination in the diff the user approves |
| `mutated` | the path in the journal |
| `op`, `held` | the command at work and the path it resolved |

### Durable

One apply at a time, and `reconcile` before each. `atomic_write` is four steps,
temporary file, sync, rename, directory sync. `seen` is what a process reads, and
`maybe` holds, for each path, everything it may hold after a power loss: a rename
or an unlink is certain once its directory was synced, data once the file was.
The disk may write anything back early (`WriteBack`); `PowerLoss` picks one
outcome for each path. Of `mutations.jsonl` the first `safe` lines are certain,
and a line appended to a torn one is `Garbage`. `DirSync` says whether directories
can be synced at all.

### Verdict

A review from the child process on: `invoke` (exit code, timeout, envelope, the
class of a failure), `extract_json` with its three parses and the brace scanner,
`validate`, and the journal line. A text is a sequence of tokens, `{`, `}`,
quote, backslash, newline, code fence and anything else; JSON keeps strings,
escapes and nesting and loses commas, colons and member names. What the object
that was found *says* is a second input: per field its type, its length with
and without blanks, and whether an enumeration lists it. Every value that
an enumeration does not list is one stand-in (`unlisted`, `later`, `made_up`).
`Balanced` and `JsonObjects` are the grammar, against which the scanner is checked.

| Variable | Code |
|---|---|
| `child`, `answer` | inputs: the process's outcome, and what its object says |
| `text`, `found` | the response, and the object `extract_json` returns |
| `verdict` | what `review` returns |
| `journal` | the lines of `diagnostics.jsonl` |

## Runs

Passing runs explore their whole state space.

| Run | Shows | Bounds |
|---|---|---|
| `mutate_crash` | with applies killed anywhere, and edits outside the check-to-verify window, two concurrent commands implement `ApprovedChange`; each change lands on its preimage and is undone once, its backup is usable, the journal is true, what landed is journaled or marked, and a proposal is installed once unless something was killed | 2 processes, 4 commands, 1 target, 2 proposals, 1 edit, 1 kill |
| `mutate_live` | with any command killed, edits at any moment and writes that fail after their rename: every command ends, only approved or restored bytes land, on one target, and nobody works over another's marker | 2 processes, 3 commands, 2 targets, 1 proposal, 1 edit, 1 kill |
| `review_overlap` | two sessions, one process after another or two overlapping at every read and write, with a kill or an expired candidate: the files refer only to stored candidates, each in its own session; the ceiling, the queue and the guard hold (with no overlap nothing is exempt), and when processes overlap they lose only what was noted, queued or flagged amid another | 2 reviews, 1 show, queue of 1, 3 clock values of a 2-tick day, 1 kill or expiry |
| `capture_overlap` | hooks of two turns or of one rolling turn, a review and a sweep overlapping at every read and write: transitions stay verified; only the last prompt is kept and only if marked, no event is lost and no reviewed prompt stays, but for those that were overtaken | 3 hooks, 1 review, 1 sweep, 2 turns, cap of 2 events |
| `lifecycle` | commands and reviews overlapping implement `Consent`; an apply that begins after a reject was reported does not install; while no reject overlaps another writer of `fingerprints.json`, every verdict is kept, and what was rejected is offered by no later stage or review | 2 processes, 4 commands, 2 typed authorizations, 2 proposals, 1 lesson and the empty one, 1 place, 1 kill or expiry |
| `destination` | whatever was linked between the commands, an apply writes where the user was shown, a rollback where it checked, and both inside an allowed root; resolution accepts its own results; rules and skills that are listed can be staged, and so can a `CLAUDE.md` but for the cases below | a home, a checkout and a directory outside both, 18 nodes; 8 links, two of which make a circle, and 3 removals; 2 of them made, 3 followed |
| `durable` | no file that `atomic_write` writes is ever torn; a mutation that may survive has its marker and a whole backup; power losses alone leave nothing that reconcile cannot decide | 3 applies, 1 kill, 2 power losses |
| `verdict` | the scanner follows the grammar, the object in a wrapped response is found and is whole, a proposal is exactly a complete answer of a reviewer that succeeded, and declines and failures are journaled as what they are | every response of up to 6 tokens of prose or fences, every pair of field values at their bounds, every combination of failures |

Why the bounds are enough: the interesting history of the mutation protocol is
apply, then rollback or a second apply, with a third command whose reconcile
meets what the first two left; a fourth is needed to undo twice (apply, rollback,
apply of the same content from another proposal, rollback of the first). One kill
leaves a marker and one edit makes it unrecognizable. Two processes are one
inside the lock and one waiting. In the review pipeline two writers are what it takes to lose an update, a queue of one
overflows with two candidates, and three clock values with a cooldown of two reach a
second day with the cooldown both running and over; the theorems of `ReviewProofs` are about any number. A turn needs a failure, another event and a
success to exercise pairing and a cap of two; with three hooks two can overlap on
one turn while the third works on the other. In `Lifecycle` two commands are what
it takes to race for an authorization or for `fingerprints.json`, and four make
the longest story: staged, rejected, offered again by a stage or a review, and
applied. Two changes make a link that is replaced by another, one beneath another, or a circle,
and no path without a circle has more than two links to follow. In `Durable` the third apply meets the
marker that the second, or the recovery after the first loss, left. Six tokens
hold a nested object in a fence, an escaped quote or a brace in a string.

The violation runs check one statement of the code's comments or tests each,
and find it refuted:

| Run | What happens |
|---|---|
| `mutate_rollback_twice` | a killed rollback is reconciled without `rolls_back` and can be repeated |
| `review_ceiling` | two Stop hooks pass the daily limit before either is noted |
| `lifecycle_reoffered` | a rejected lesson staged for another scope or kind of file has another fingerprint, and is offered again |
| `destination_listed` | a `CLAUDE.md` that is a link is listed as an owner, without the round trip through `resolve` that rules and skills make, and refused when it is staged |

The constants of the passing runs show more limits. On instances of this size TLC
finds that

- with `LateErrors = TRUE`, `LastWriterAccounted`, `ProposalInstalledOnce` and
  `RollbackUndoesOnce` fail: `fsync_dir` opens the directory unguarded after the
  rename, and an `OSError` there is taken for a write that did not happen; the change
  is neither journaled nor marked, and its proposal stays;
- with `RaceEdits = TRUE`, `LandsOnPreimage` and `BackupRecoverable` fail: an edit
  between the hash and the rename is overwritten; and so do `ProposalInstalledOnce`
  and `RollbackUndoesOnce`: when others put the old bytes back before the
  verification, it fails, and the next reconcile takes the change for one that was
  not made;
- with killed rollbacks, `JournalTruthful` and `RollbackUndoesOnce` fail: reconcile
  journals without `rolls_back`;
- with `EditContents` and `StageContents` not disjoint, `JournalTruthful` fails:
  reconcile journals a killed apply that wrote nothing when somebody else wrote the
  same bytes;
- with `DirSync = FALSE`, `ReconcileDecides` fails, and only `WholeVersions` and
  `BackupWhole` remain.

Other limits of the code that the models show, and that their properties name as
conditions:

- A killed apply is reconciled as installed without invalidating its proposal, so
  it can be applied again once its preimage is back (`crashes = 0` in
  `ProposalInstalledOnce`).
- The first review of a day writes a fresh `counters.json`, and with it drops the
  awaiting flags of all sessions; showing an older candidate again takes down the
  flag of a newer one (`lifted`). Of two overlapping reviews one may pass the limit
  uncounted, or lose its queue entry or its flag (`amid`).
- An event, or an unmarked prompt, that is written to a turn while another process is
  about to write or delete that turn is lost (`overtaken`).
- A `CLAUDE.md` is listed without being resolved. It is refused when it is a link or a
  directory, and when it lies below a `./.claude` that leads elsewhere or in a project
  inside `~/.claude` (`ListedAccepted` names these).
- `improve` does not discard a turn whose record no prompt hook began.
- The session an authorization was typed in is compared only when `--session-id`
  is passed.
- `reject-proposal` takes no lock: when it overlaps an apply or another reject
  one of the two verdicts may be lost from `fingerprints.json` (`raced`).
- A command killed between rename and directory sync is journaled by the next
  reconcile as installed, without a sync, and its marker is removed. After a power
  loss the preimage may be back. If a later command got as far as its own marker
  in between, reconcile finds neither of that marker's digests and answers `unreconciled_target`, although
  nobody edited the file (`kills = 0` in `ReconcileDecides`).
- The journal line is not synced: after a power loss it may be missing or torn,
  and a line appended to a torn one cannot be read. The entry of a backup's
  directory in `backups/` is not synced either (`BackupWhole` allows for it), and a
  killed `atomic_write` leaves its `.si-tmp-` file.
- A project whose rules are linked to the home directory's is staged as a change of
  the home directory; resolution is by real path.
- A decline with a field that the contract does not know is an `unknown_field`
  failure, because fields are checked before the decision; `redact.error_class`
  and the reviewer share the reason `other`. `DeclinesRecorded` exempts both.
- Output that is no UTF-8, or is nested too deeply for `json.loads`, raises what
  `invoke` does not catch; the dispatcher records it and the hook exits, which is
  a killed process to `Review` and `Capture`.

`CHECK_DEADLOCK FALSE` is in every configuration: commands, edits and clock
ticks are bounded, and when they are used up nothing is left to do.

### Fairness

`FairSpec` has weak fairness of `Step(p)` for each process: the operating system
runs a started command, and no step waits for anything but the flock, which its
holder's own steps release. Nothing is assumed of starts, kills, edits or
expiry. Weak fairness suffices although `flock` does not queue fairly because
the number of commands is bounded. `Step` includes `Acquire`.

## Proofs

TLC explores one small instance of each module; the theorems hold for any numbers
of processes, targets, contents, records, turns, sessions, edits, kills and power
losses. Each is `Spec => []P` (or `Spec => P`, for an action property or an
abstract specification) for a property `P` that a run checks on its instance. Where
the code's guarantee depends on the environment the theorem has a hypothesis, and
that hypothesis is the only one: an environment constant of the model that the
code does not control.

| Module, theorem | Property | Hypothesis |
|---|---|---|
| `MutateProofs` | | |
| `TypeCorrect` | `TypeOK` | |
| `MarkerExclusion` | `MarkerIsOwn` | |
| `ApprovedBytes` | `LandsApprovedBytes` | |
| `Accountability` | `LastWriterAccounted` | no write fails after its rename |
| `PreimageSafety` | `LandsOnPreimage` | nobody edits a target within a command's window |
| `ApprovalProofs` | | |
| `Recoverability` | `BackupRecoverable` | no edits in the window |
| `Truthfulness` | `JournalTruthful` | no rollback is killed; others do not write the bytes of a proposal |
| `UndoneOnce` | `RollbackUndoesOnce` | no edits in the window, no write fails after its rename, no rollback is killed |
| `InstalledOnce` | `ProposalInstalledOnce` | no edits in the window, no write fails after its rename |
| `ApprovedImplemented` | `ImplementsApproved` | all of the above |
| `LifecycleProofs` | | |
| `TypesKept` | `TypeOK` | |
| `NeverInstalledOnceDeclined` | `DeclinedNotInstalled` | |
| `ConsentImplemented` | `ImplementsConsent` | |
| `NoVerdictLost` | `VerdictsKept` | |
| `DeclinedStaysDeclined` | `DeclinedNotOffered` | |
| `ReviewProofs` | | |
| `TypesKept` | `TypeOK` | |
| `NothingDangles` | `ReferencesStored` | |
| `NoCandidateLost` | `WokenStaysQueued` | |
| `CeilingHolds` | `CeilingUnlessAmid` | |
| `GuardHolds` | `NotReviewedWhileAwaiting` | |
| `CaptureProofs` | | |
| `TypesKept` | `TypeOK` | |
| `TransitionsVerified` | `PairingExact` | |
| `OnlyMarkedPromptsKept` | `PromptKept` | |
| `NoEventLost` | `NothingLost` | |
| `NoPromptLeft` | `ReviewLeavesNoPrompt` | |
| `DurableProofs` | | |
| `TypesKept` | `TypeOK` | |
| `VersionsWhole` | `WholeVersions` | |
| `BackupsWhole` | `BackupWhole` | |
| `ReconcileCanDecide` | `ReconcileDecides` | directories can be synced |
| `VerdictProofs` | | |
| `TypesKept` | `TypeOK` | |
| `ProposalsEarned` | `ProposalIsEarned` | |
| `DeclinesTold` | `DeclinesRecorded` | |
| `ExtractionRight` | `ExtractionIsRight` | |
| `ScannerFollows` | `ScannerFollowsGrammar` | |
| `DestinationProofs` | | |
| `TypesKept` | `TypeOK` | |
| `ResolutionIdempotent` | `ResolveIdempotent` | |
| `ListedCanBeStaged` | `ListedAccepted` | |
| `AllowedHeld` | `HeldIsAllowed` | nobody links between a command's check and its write |
| `LandsChecked` | `LandsWhereChecked` | nobody links between a command's check and its write |

The hypotheses are needed: *Runs* says how each property fails without them. The
runs that check these properties satisfy the hypotheses, so none is empty. A
theorem with no hypothesis may still have a condition inside its property, where
what matters is whether something happened (`overtaken`, `amid`, `lifted`, `raced`,
`crashes = 0`, `kills = 0`) rather than whether it can.

The theorems rest on the constants' assumptions and on nothing else; TLC
evaluates them in every run of the module. `ConstantsAssumption` says that sets
that stand for different things are apart and bounds are numbers (of `Review`
also that a limit or a queue is not zero); `NoneIsNoRecord`, `NamesDistinct` and
`NoneIsNothingElse` say that `None` and the other special values are no value of
the data; `InputsAssumption` of `Verdict` is the type of its inputs, and its
`LengthAssumption` says that `MaxTokens`, which the grammar is cut off at and which may
be any number, is the length of the longest response. The `InputsAssumption` of
`Destination` also says that the tree is one: what is there lies in a directory that
is there. Its `LiteralsAreNames` says of five literals that they are strings, which
the provers do not know.

### The inductive invariants

Few of the properties are inductive as they stand. Each module builds its invariant in layers; every layer has a lemma
that each action preserves it, from the earlier ones.

*Mutate.* `Shape`: types, what a process holds at each step, and that a record it
works from is *justified*, an apply's by the staged proposal, a rollback's by a
journal line: this carries the approved bytes from `load` to `install` across
other processes' steps. `Exclusion`: the flock's holder is the one process past
`lock`, and the marker is none or its own; neither holds alone, because a kill
leaves a marker and releases the flock, and only `reconcile` restores both.
`Fresh`: mutation ids are used once. `Accounted`: a marker may be removed only when
the target's last writer is journaled or is not the marker's owner; the step that
needs it is `ReconcileNotInstalled`, where the file holds the preimage, so the
marked mutation, which changes something, was not the last writer. `PreimageHeld`:
from the comparison to the rename the preimage stands.

`ApprovalProofs` adds: `Numbered` and `Kinds`, which id and which content goes with
which operation; `BackedUp`: there is a backup before there is a marker that
mentions it; `Truthful`: a marker that `reconcile` may take for an installed change
is one of a change that landed; `PostHeld`: what was written is there when it is
verified; `Undone`: an undoing is journaled before another rollback can look for
it; `Once`: a proposal is invalidated before another apply can load it. From these
each step maps to one of `ApprovedChange` or to none: `Install` is the abstract
install or undoing, `Edit` the outside edit, and the rest, kills and `reconcile`
included, stutter.

*Lifecycle.* `Typed` and `Exclusive` (the flock). `Spent`: an authorization lies in
`authorizations/` or with the one process that unlinked it, a command it was typed
for. It makes a claim exclusive although `consume` lists first and unlinks later, and it is the invariant under the refinement of `Consent`. `Barred`:
what was rejected has no record an apply begun since could load. `Kept`: unless a
reject overlapped another writer, `fingerprints.json` and any copy about to be
written back say what the user decided. `Remembered`: a rejection that stood when a
process began still stands or was lifted since.

*Review.* `Typed`; `Referring`: whoever a session awaits, in the counters or in any
copy of them that may still be written back, is a stored candidate of that session,
so no stale copy can make the files dangle. The other three say the same of what
must not be lost: that it is in the file *and in every copy* of the file that may
still be written back. `Listed` has it of the queue: whoever was not queued amid
another is in whatever copy was read since. `Counted`: the count of each record, and
of each copy of one, covers its day's automatic reviews that were not noted amid
another, and while an automatic review is past the limits there are fewer of these
than the limit (`BelowLimit`), so adding it keeps the day within it. `Watching`: a
candidate that still waits for its user, and whose flag was put up amid nothing, is
the one its session awaits in the counters and in every copy, and a review of its
session at the check has found it and will stop (`Heeds`).

*Capture.* `Typed` says that every event in a file or in a process's hands was
recorded by a hook that is over. `Prompts` and `Paired` are about one record at a time:
a stale copy that is written back is still one chain of hooks, so that a kept text is
its own record's and marked, and pairing, survive any overlap. `Owned` says of which
turn a record is, including one that was loaded because its own turn had none.
`Lossless`: an event that is not gone in one of the ways the property names is in the
file, and a process that is about to change a file knows the events in it. `LastKept`
says the same of the last prompt of a turn. `TextGone`: a text that was discarded by a
review that was not overtaken is in no file and in no hook's hands, so it cannot come
back.

*Durable.* `Typed` has the torn-write half: a rename follows a sync, so no version
that may survive is torn. `Backed`: from the sync on a mutation's backup is whole,
and before that nothing of the mutation may survive; `Marked`: from the sync of its
entry to its removal the marker is what survives; `Decided`: without kills, whichever
marker survives, the target is at that mutation's preimage or its post-image.

*Verdict.* `Grounds`: which of four ways led to the verdict (the process failed,
nothing readable, not valid, valid), and which line each has written. The lemmas say
that a failure always has a class and a class of its own kind (`FailureClassified`),
and that `validate` proposes exactly what is complete (`ProposesComplete`). `Reading`
says what was found in which text; the rest is facts about every text, in four steps.
Every word of the grammar is a piece of the text between two places, and what it is
made of are pieces too (`InsideAt`, `ContentAt`, `BracedAt`). The scanner's state at a
place is one of four, outside or in a string, after a backslash, or ended (`Reached`),
and over a word of the grammar it comes back to the depth it had (`ScanObject`): so an
object of the grammar ends where the scanner does. The other way, between two places
of one depth with none lower in between there is a word (`RunContent`): split it
where the depth was last the lowest. So the scanner ends only at an object
(`EndsObject`). A JSON object's grammar is a smaller one over the same pieces, so the
scanner finds it too, and of the three texts that are parsed each is one in which an
object that is JSON is whole.

*Destination.* `Tree`: nothing stands on what is not a directory; a write keeps it
because it makes the parents, another's change because it removes what is below.
`Checked`: what a command holds is what `resolve` returned and would return again.
It is kept because `resolve` is idempotent, which is a lemma about `realpath`
(`RealProperties`): what it returns has no links or is the path itself. `RealJoin`,
that a name which is no link lies where its directory leads, is the other half, by
induction over the links followed; from it a `CLAUDE.md` that is listed is accepted.

Where a proof needs the greatest or least of a set of numbers, or an induction over
a bounded range, it takes a minimal element (`WFMin` of `WellFoundedInduction`): the
induction theorems of the library have an operator as a parameter, which the provers
cannot instantiate.

### Model-checked only

- `CommandsFinish`: liveness under fairness, and the `ENABLED` in it, are beyond the
  provers.
- The violation runs: their properties are false.

## Plan

The models are complete for what the code keeps as state, and every property of a
passing run is a theorem but for `CommandsFinish`. What may follow:

1. The proofs of `Verdict` fix the alphabet of tokens and the shape of an object
   (strings and objects); commas, colons and member names would be a grammar of its own.
2. `owners.py` past what is listed: headings and ranking, if they ever decide more
   than the order in which owners are shown.

## Not modelled

- `redact.py` and `markers.py` transform and classify text by regular expressions;
  they keep no state, and what matters of a marked prompt is the flag `Capture` has.
- `evidence.py` selects the last 40 events for the prompt, while the gate looks at
  all of them; the bundle is text.
- `hookio.py`, `config.py` and the dispatcher read input and environment and print
  output. The exit of a hook that raises is a killed process in the models.
- Of `owners.py` only what is listed is modelled, not headings or ranking; of
  `reviewer.py` not the command line and environment of the child; of `store.py`
  not the checks of field names.
- The skills are instructions to a model: what they make it run is modelled, what
  it writes is an input.
- `docs/case-study` holds the prompts of other projects, which this one does not run.
