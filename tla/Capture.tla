------------------------------- MODULE Capture -------------------------------
(***************************************************************************)
(* The turn files of one session: the hooks that append to them            *)
(* (capture.py), the reviews that load and discard them (orchestrate.run), *)
(* and the sweep of SessionEnd (store.sweep).                              *)
(*                                                                         *)
(* A process of Hooks is one UserPromptSubmit, PostToolUseFailure or       *)
(* PostToolUse hook, one of Reviews a Stop hook or an `si improve' (which  *)
(* knows the session and not the turn), and one of Sweeps a SessionEnd     *)
(* hook.  Each runs once, and may stop for good (be killed) anywhere.      *)
(* Nothing is locked.                                                      *)
(*                                                                         *)
(* An event is named for the hook that recorded it.  A prompt's text is    *)
(* named for its hook too.                                                 *)
(***************************************************************************)
EXTENDS Naturals, FiniteSets, Sequences

CONSTANTS
  Hooks, Reviews, Sweeps,
  Turns,      \* the turn ids events carry
  Fallback,   \* FALLBACK_TURN, for events that carry none
  Signatures, \* normalized operations
  None,       \* nothing there
  MaxEvents   \* config.MAX_EVENTS_PER_TURN

ASSUME ConstantsAssumption ==
  /\ MaxEvents \in Nat \ {0}
  /\ None \notin Hooks \cup Turns \cup {Fallback} /\ Fallback \notin Turns
  /\ Hooks \cap Reviews = {} /\ Hooks \cap Sweeps = {} /\ Reviews \cap Sweeps = {}

VARIABLES
  ids,       \* the turn ids this version's events carry
  files,     \* turns/<session>/<turn>.json
  pc,        \* each process: its next step
  arg,       \* each hook or review: what its event says; each sweep: a file
  held,      \* each hook or review: the record it loaded
  todo,      \* each sweep: the files it has yet to look at
  due,       \* history: hooks that had something to record
  evicted,   \* history: hooks whose event the cap dropped
  expired,   \* history: hooks whose event expired with its turn
  reviewed,  \* history: hooks whose event some review loaded
  overtaken, \* history: processes that changed a file another was about to change
  last       \* history: the hook of the last prompt written to each turn

vars == <<ids, files, pc, arg, held, todo, due, evicted, expired, reviewed, overtaken, last>>

history == <<due, evicted, expired, reviewed, overtaken, last>>

-----------------------------------------------------------------------------

Procs   == Hooks \cup Reviews \cup Sweeps
Ids     == Turns \cup {Fallback}
Kinds   == {"prompt", "marked", "failure", "success"}  \* a marked prompt is kept

Event  == [hook : Hooks, resolved : BOOLEAN, claims : SUBSET Hooks]

\* A turn record: id and markers are there once a prompt was recorded.
Record == [id : Ids \cup {None}, markers : Hooks \cup {None}, text : Hooks \cup {None},
           events : Seq(Event), born : Nat, fresh : BOOLEAN]

ASSUME NoneIsNoRecord == None \notin Record

Missing == [id |-> None, markers |-> None, text |-> None, events |-> <<>>, born |-> 0,
            fresh |-> TRUE]

Elems(q) == {q[i] : i \in 1 .. Len(q)}
Recorded(r) == {e.hook : e \in Elems(r.events)}

Kind(h) == arg[h].kind
IsPrompt(h) == Kind(h) \in {"prompt", "marked"}

Goto(p, from, to) == pc[p] = from /\ pc' = [pc EXCEPT ![p] = to]

\* Mutant: the turn that was loaded is not passed on.
OwnTurn(r) == arg[r].id

\* The loaded record's id, or the event's own.
DiscardedTurn(r) == IF held[r].id # None THEN held[r].id ELSE arg[r].id

\* Who has read a turn file and has yet to change it, and which.
Acting(p) == pc[p] \in {"write", "discard", "unlink"}
Target(p) == IF p \in Reviews THEN DiscardedTurn(p) ELSE arg[p].id

\* Another process is about to change the file that p changes: it has read it (or
\* found it missing), and does not know of p's change.
Contended(p) == \E q \in Procs \ {p} : Acting(q) /\ Target(q) = Target(p)

Overtake(p) == overtaken' = IF Contended(p) THEN overtaken \cup {p} ELSE overtaken

-----------------------------------------------------------------------------

\* Older versions send no prompt_id: all their turns are one rolling turn.
Init ==
  /\ ids \in {Turns, {Fallback}}
  /\ files = [t \in Ids |-> None]
  /\ pc = [p \in Procs |-> "idle"]
  /\ arg = [p \in Procs |-> None]
  /\ held = [p \in Hooks \cup Reviews |-> Missing]
  /\ todo = [w \in Sweeps |-> {}]
  /\ due = {} /\ evicted = {} /\ expired = {} /\ reviewed = {} /\ overtaken = {}
  /\ last = [t \in Ids |-> None]

-----------------------------------------------------------------------------
(* Loading: capture.load_turn and store.list_records.                      *)

Live(t) == files[t] # None /\ files[t].fresh

\* The session's most recent turn (turns begun within one second, which
\* list_records orders by name, are taken to be apart).
Latest(t) == \A u \in Ids : Live(u) => files[u].born <= files[t].born

\* The clock of created_at: later than any record still around.
Newest ==
  LET B == {0} \cup {files[u].born : u \in {v \in Ids : files[v] # None}}
               \cup {held[p].born : p \in Hooks \cup Reviews}
  IN  CHOOSE b \in B : \A c \in B : c <= b

\* An event that carries no turn id falls back to the latest turn.
Loaded(t) ==
  IF Live(t) THEN files[t]
  ELSE IF t = Fallback /\ \E u \in Ids : Live(u)
  THEN files[CHOOSE u \in Ids : Live(u) /\ Latest(u)]
  ELSE Missing

-----------------------------------------------------------------------------
(* Hooks: capture.record_prompt, record_tool_failure, record_tool_success. *)

StartHook(h, k, s, t) ==
  /\ Goto(h, "idle", "load")
  /\ arg' = [arg EXCEPT ![h] = [kind |-> k, sig |-> s, id |-> t]]
  /\ UNCHANGED <<ids, files, held, todo, history>>

\* The failures a success resolves.
Prior(h, r) ==
  {e \in Elems(r.events) : /\ Kind(e.hook) = "failure"
                           /\ arg[e.hook].sig = arg[h].sig
                           /\ ~ e.resolved}

\* A success with no prior failure records nothing.
LoadTurn(h) ==
  LET r      == Loaded(arg[h].id)
      record == Kind(h) # "success" \/ Prior(h, r) # {}
  IN  /\ pc[h] = "load"
      /\ Goto(h, "load", IF record THEN "write" ELSE "done")
      /\ held' = [held EXCEPT ![h] = r]
      /\ due' = IF record THEN due \cup {h} ELSE due
      /\ UNCHANGED <<ids, files, arg, todo, evicted, expired, reviewed, overtaken, last>>

\* Mutant: the failures stay unresolved.
Unresolved(h, r) == r.events

Resolved(h, r) ==
  LET mark(e) == [e EXCEPT !.resolved = e.resolved \/ (Kind(h) = "success" /\ e \in Prior(h, r))]
  IN  [i \in 1 .. Len(r.events) |-> mark(r.events[i])]

NewEvent(h, r) ==
  [hook |-> h, resolved |-> FALSE,
   claims |-> IF Kind(h) = "success" THEN {e.hook : e \in Prior(h, r)} ELSE {}]

\* Mutant: no cap.
Uncapped(q) == q

Capped(q) == IF Len(q) > MaxEvents THEN SubSeq(q, Len(q) - MaxEvents + 1, Len(q)) ELSE q

\* Mutant: an unmarked prompt leaves an earlier one's text in place.
TextStays(h, r) == IF Kind(h) = "marked" THEN h ELSE r.text

\* The text of a prompt is kept if it is marked; any other prompt removes it.
TextAfter(h, r) ==
  IF Kind(h) = "marked" THEN h ELSE IF Kind(h) = "prompt" THEN None ELSE r.text

Saved(h, r) ==
  [id      |-> IF IsPrompt(h) THEN arg[h].id ELSE r.id,
   markers |-> IF IsPrompt(h) THEN h ELSE r.markers,
   text    |-> TextAfter(h, r),
   events  |-> Capped(Append(Resolved(h, r), NewEvent(h, r))),
   born    |-> IF r = Missing THEN Newest + 1 ELSE r.born,
   fresh   |-> TRUE]

\* atomic_write, which makes the session's directory first.
WriteTurn(h) ==
  LET r == Saved(h, held[h]) IN
    /\ Goto(h, "write", "done")
    /\ files' = [files EXCEPT ![arg[h].id] = r]
    /\ evicted' = evicted \cup (Recorded(held[h]) \ Recorded(r))
    /\ held' = [held EXCEPT ![h] = Missing]
    /\ last' = IF IsPrompt(h) THEN [last EXCEPT ![arg[h].id] = h] ELSE last
    /\ Overtake(h)
    /\ UNCHANGED <<ids, arg, todo, due, expired, reviewed>>

-----------------------------------------------------------------------------
(* Reviews: orchestrate.run, as far as it touches the turn.                *)

StartReview(r, t) ==
  /\ Goto(r, "idle", "load")
  /\ arg' = [arg EXCEPT ![r] = [id |-> t]]
  /\ UNCHANGED <<ids, files, held, todo, history>>

LoadReviewed(r) ==
  LET f == Loaded(arg[r].id) IN
    /\ Goto(r, "load", "discard")
    /\ held' = [held EXCEPT ![r] = f]
    /\ reviewed' = reviewed \cup Recorded(f)
    /\ UNCHANGED <<ids, files, arg, todo, due, evicted, expired, overtaken, last>>

\* discard_turn, minutes later when a reviewer was called.
DiscardTurn(r) ==
  /\ Goto(r, "discard", "done")
  /\ files' = [files EXCEPT ![DiscardedTurn(r)] = None]
  /\ held' = [held EXCEPT ![r] = [Missing EXCEPT !.id = held[r].id, !.text = held[r].text]]
  /\ Overtake(r)
  /\ UNCHANGED <<ids, arg, todo, due, evicted, expired, reviewed, last>>

-----------------------------------------------------------------------------
(* Expiry, and the sweep.                                                  *)

\* TURN_TTL after the last write.
Expire(t) ==
  /\ Live(t)
  /\ files' = [files EXCEPT ![t].fresh = FALSE]
  /\ expired' = expired \cup Recorded(files[t])
  /\ UNCHANGED <<ids, pc, arg, held, todo, due, evicted, reviewed, overtaken, last>>

StartSweep(w) ==
  /\ Goto(w, "idle", "walk")
  /\ arg' = [arg EXCEPT ![w] = [id |-> None]]
  /\ todo' = [todo EXCEPT ![w] = {t \in Ids : files[t] # None}]
  /\ UNCHANGED <<ids, files, held, history>>

\* Mutant: whatever the sweep finds is removed.
Present(t) == files[t] # None

\* Read as nothing, though the walk has listed it, or expired.
Stale(t) == files[t] = None \/ ~ files[t].fresh

\* A record is read ...
LookAt(w, t) ==
  /\ t \in todo[w]
  /\ Goto(w, "walk", IF Stale(t) THEN "unlink" ELSE "walk")
  /\ todo' = [todo EXCEPT ![w] = @ \ {t}]
  /\ arg' = [arg EXCEPT ![w] = [id |-> IF Stale(t) THEN t ELSE None]]
  /\ UNCHANGED <<ids, files, held, history>>

\* ... and its path unlinked, whatever is there by then.
Unlink(w) ==
  /\ Goto(w, "unlink", "walk")
  /\ files' = [files EXCEPT ![arg[w].id] = None]
  /\ arg' = [arg EXCEPT ![w] = [id |-> None]]
  /\ UNCHANGED <<ids, held, todo, history>>

\* _prune_empty_dirs, a session's directory being there or not.
Prune(w) ==
  /\ Goto(w, "walk", "done")
  /\ todo[w] = {}
  /\ UNCHANGED <<ids, files, arg, held, todo, history>>

\* An empty directory is removed between a hook's makedirs and its mkstemp: the
\* hook fails open.
PruneUnder(w, h) ==
  /\ pc[w] = "walk" /\ todo[w] = {}
  /\ pc[h] = "write"
  /\ \A t \in Ids : files[t] = None
  /\ pc' = [pc EXCEPT ![w] = "done", ![h] = "done"]
  /\ held' = [held EXCEPT ![h] = Missing]
  /\ overtaken' = overtaken \cup {h}
  /\ UNCHANGED <<ids, files, arg, todo, due, evicted, expired, reviewed, last>>

-----------------------------------------------------------------------------

HookStep(h) == LoadTurn(h) \/ WriteTurn(h)

SweepStep(w) == (\E t \in Ids : LookAt(w, t)) \/ Unlink(w) \/ Prune(w)
                \/ (\E h \in Hooks : PruneUnder(w, h))

Next ==
  \/ \E h \in Hooks : (\E k \in Kinds, s \in Signatures, t \in ids : StartHook(h, k, s, t))
                       \/ HookStep(h)
  \/ \E r \in Reviews : (\E t \in ids \cup {Fallback} : StartReview(r, t))
                         \/ LoadReviewed(r) \/ DiscardTurn(r)
  \/ \E w \in Sweeps : StartSweep(w) \/ SweepStep(w)
  \/ \E t \in Ids : Expire(t)

Spec == Init /\ [][Next]_vars

-----------------------------------------------------------------------------
(* Properties.                                                             *)

\* Every variable stays within its type.
TypeOK ==
  /\ ids \in {Turns, {Fallback}}
  /\ files \in [Ids -> Record \cup {None}]
  /\ \A t \in Ids : files[t] # None => Len(files[t].events) \in 1 .. MaxEvents
  /\ pc \in [Procs -> {"idle", "load", "write", "discard", "walk", "unlink", "done"}]
  /\ held \in [Hooks \cup Reviews -> Record]
  /\ todo \in [Sweeps -> SUBSET Ids]
  /\ due \subseteq Hooks
  /\ evicted \subseteq due /\ expired \subseteq due /\ reviewed \subseteq due
  /\ overtaken \subseteq Hooks \cup Reviews
  /\ last \in [Ids -> Hooks \cup {None}]

\* A transition the reviewer is told of is verified, whatever overlapped and
\* whatever the cap dropped: a success claims failures of its own signature, no
\* failure is claimed by two, and a failure is marked resolved exactly when a
\* success of the same record claims it (record_tool_success, _append).
PairingExact ==
  \A t \in Ids : files[t] # None =>
    LET E == Elems(files[t].events) IN
      /\ \A e \in E : Kind(e.hook) = "success" =>
           /\ e.claims # {}
           /\ \A f \in e.claims : Kind(f) = "failure" /\ arg[f].sig = arg[e.hook].sig
      /\ \A d, e \in E : d # e => d.claims \cap e.claims = {}
      /\ \A e \in E : e.resolved <=> \E s \in E : e.hook \in s.claims

\* A turn file holds a prompt's text only if that prompt was marked and is the
\* last one written to the turn -- the rolling turn of older versions too
\* (record_prompt; spec section 5.1, "must not append raw prompts").  Only if the
\* last one was written while another process was about to change the file can
\* that process bring the text of an earlier marked prompt back.
PromptKept ==
  \A t \in Ids : files[t] # None /\ files[t].text # None =>
    /\ files[t].text = files[t].markers /\ Kind(files[t].text) = "marked"
    /\ files[t].text = last[t] \/ last[t] \in overtaken

\* No event is lost but in one way: an event that a hook wrote is in a file, or was
\* loaded by a review, dropped by the cap, or expired, unless at the very moment
\* it was written another process was about to change the file (or had removed
\* its directory).  Whatever else overlaps, and whatever a stale copy brings back
\* or a sweep unlinks, costs nothing.
NothingLost ==
  \A h \in due : pc[h] = "done" =>
    \/ h \in evicted \cup expired \cup reviewed \cup overtaken
    \/ \E t \in Ids : files[t] # None /\ h \in Recorded(files[t])

\* "Passing it matters ... deleting by the event's own identifier would leave the
\* file, and its prompt, on disk" (capture.py:76-78): once a review is over, no
\* file holds the prompt it loaded, unless a hook was about to write the file back
\* when the review deleted it.
ReviewLeavesNoPrompt ==
  \A r \in Reviews : pc[r] = "done" /\ held[r].text # None =>
    \/ r \in overtaken
    \/ \A t \in Ids : files[t] # None => files[t].text # held[r].text
=============================================================================
