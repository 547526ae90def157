-------------------------------- MODULE Review --------------------------------
(***************************************************************************)
(* From a finished turn to a candidate lesson in front of the user: the    *)
(* gate's counters (gate.py), the review pipeline and its pending queue    *)
(* (orchestrate.py), and the commands that run them (commands.py).         *)
(*                                                                         *)
(* A process of Reviews is one Stop hook or one `si improve'; a process of *)
(* Shows is one `si show-candidate --id'.  Each runs once.  counters.json  *)
(* and pending.json are read whole and written whole, with no lock: a read *)
(* and the write that follows it are separate steps.                       *)
(*                                                                         *)
(* A review makes at most one candidate, which bears the review's name.    *)
(***************************************************************************)
EXTENDS Integers, FiniteSets, Sequences

CONSTANTS
  Reviews,    \* Stop hooks and improve commands
  Shows,      \* show-candidate commands
  Sessions,   \* session ids
  None,       \* nothing there
  Limit,      \* config.DAILY_REVIEW_LIMIT
  Cooldown,   \* config.COOLDOWN_SECONDS
  DayLength,  \* seconds in a day
  QueueMax,   \* entries pending.json keeps
  MaxTime,    \* bound: the clock
  MaxFaults,  \* bound: kills and expiries
  Together    \* bound: processes at a time

ASSUME ConstantsAssumption ==
  /\ None \notin Reviews \cup Shows \cup Sessions
  /\ Reviews \cap Shows = {}
  /\ Limit \in Nat \ {0} /\ Cooldown \in Nat /\ DayLength \in Nat \ {0} /\ QueueMax \in Nat \ {0}
  /\ MaxTime \in Nat /\ MaxFaults \in Nat
  /\ Together \in Nat \ {0}

VARIABLES
  now,        \* the clock
  counters,   \* counters.json
  pending,    \* pending.json: candidates, oldest first
  live,       \* candidates with an unexpired record in candidates/
  turns,      \* turns whose file is still in turns/
  pc,         \* each process: its next step
  event,      \* each review: its session and what the turn holds
  shown,      \* each show: the candidate asked for
  seen,       \* each review: the candidate it found its session awaiting
  cview,      \* each process: the counters it read and has yet to write
  qview,      \* each process: the queue it read and has yet to write
  faults,     \* how many were killed or have expired
  billed,     \* history: reviews that went ahead, with the day they were noted
  stored,     \* history: candidates ever stored
  woken,      \* history: candidates whose review told its session
  presented,  \* history: candidates shown
  evicted,    \* history: candidates pushed out of a full queue
  lifted,     \* history: candidates whose session's flag another event took down
  amid        \* history: reviews that were noted, queued or flagged amid another
              \*   process's reading and writing of the same file

vars == <<now, counters, pending, live, turns, pc, event, shown, seen, cview, qview,
          faults, billed, stored, woken, presented, evicted, lifted, amid>>

history == <<billed, stored, woken, presented, evicted, lifted, amid>>
args    == <<event, shown>>
views   == <<cview, qview>>

-----------------------------------------------------------------------------

Procs   == Reviews \cup Shows
Day(t)  == t \div DayLength
NoDay   == -1
Never   == -1

\* What a turn offers the gate: the user's own words (a retention or a
\* correction marker), evidence inferred from tool events, or a direct request.
Signals == {"directive", "inferred", "forced"}

Counters == [day : {NoDay} \cup Nat, count : Nat, last : {Never} \cup Nat,
             awaiting : [Sessions -> Reviews \cup {None}]]

Steps == {"idle", "done", "awaited", "record", "unawait", "unawaiting", "limits",
          "note", "noting", "invoke", "store", "queue", "queueing", "discard",
          "discardlast", "await", "awaiting", "wake",
          "show", "clear", "clearing", "drop", "dropping"}

Running == {p \in Procs : pc[p] \notin {"idle", "done"}}

SessionOf(c) == event[c].session

\* The process table holds no more than the bound.
Room == Cardinality(Running) < Together

Goto(p, from, to) == pc[p] = from /\ pc' = [pc EXCEPT ![p] = to]

\* gate._read_counters, and store.read_path on pending.json.
ReadCounters(p) == cview' = [cview EXCEPT ![p] = counters] /\ UNCHANGED qview
ReadQueue(p)    == qview' = [qview EXCEPT ![p] = pending]  /\ UNCHANGED cview
Forget(p)       == cview' = [cview EXCEPT ![p] = None] /\ qview' = [qview EXCEPT ![p] = <<>>]

\* At these steps a process holds a copy of counters.json to write back, or one of
\* pending.json; at these a review is past the check for a waiting candidate and
\* yet to be noted.
Copying == {"noting", "unawaiting", "awaiting", "clearing"}
Listing == {"queueing", "dropping"}
Checked == {"record", "unawait", "unawaiting", "limits", "note", "noting"}

Others(r, steps) == {q \in Procs \ {r} : pc[q] \in steps}

\* r is noted, queued or flagged while others are midway.
Amid(r, what, others) ==
  amid' = IF others = {} THEN amid ELSE [amid EXCEPT ![what] = @ \cup {r}]

\* The candidates some session awaits.
Flags(k) == {k.awaiting[s] : s \in Sessions} \ {None}

Lift(old, new) == lifted' = lifted \cup (Flags(old) \ Flags(new))

-----------------------------------------------------------------------------

Init ==
  /\ now = 0
  /\ counters = [day |-> NoDay, count |-> 0, last |-> Never,
                 awaiting |-> [s \in Sessions |-> None]]
  /\ pending = <<>>
  /\ live = {} /\ turns = {}
  /\ pc = [p \in Procs |-> "idle"]
  /\ event = [r \in Reviews |-> None]
  /\ shown = [x \in Shows |-> None]
  /\ seen = [r \in Reviews |-> None]
  /\ cview = [p \in Procs |-> None]
  /\ qview = [p \in Procs |-> <<>>]
  /\ faults = 0
  /\ billed = {} /\ stored = {} /\ woken = {} /\ presented = {} /\ evicted = {} /\ lifted = {}
  /\ amid = [what \in {"noted", "queued", "flagged"} |-> {}]

-----------------------------------------------------------------------------
(* The gate: gate.evaluate and gate.suppressed.                            *)

\* A turn ends, or the user asks for a review of it.
Stop(r, s, k) ==
  /\ Goto(r, "idle", "awaited")
  /\ Room
  /\ event' = [event EXCEPT ![r] = [session |-> s, signal |-> k]]
  /\ turns' = turns \cup {r}
  /\ UNCHANGED <<now, counters, pending, live, shown, seen, views, faults, history>>

\* No signal in the turn, or a suppressor that is not modelled (disabled, the
\* reviewer's own session, stop_hook_active, work in flight).
NoSignal(r) ==
  /\ pc[r] \in {"awaited", "limits"}
  /\ event[r].signal # "forced" \/ pc[r] = "awaited"
  /\ pc' = [pc EXCEPT ![r] = "discardlast"]
  /\ UNCHANGED <<now, counters, pending, live, turns, args, seen, views, faults, history>>

ReadAwaited(r) ==
  LET c == counters.awaiting[SessionOf(r)] IN
    /\ Goto(r, "awaited", IF c = None THEN "limits" ELSE "record")
    /\ seen' = [seen EXCEPT ![r] = c]
    /\ UNCHANGED <<now, counters, pending, live, turns, args, views, faults, history>>

\* candidate_awaiting_presentation.
StillAwaiting(r) ==
  /\ Goto(r, "record", "discardlast")
  /\ seen[r] \in live
  /\ UNCHANGED <<now, counters, pending, live, turns, args, seen, views, faults, history>>

\* The flag is stale.
NotAwaiting(r) ==
  /\ Goto(r, "record", "unawait")
  /\ seen[r] \notin live
  /\ UNCHANGED <<now, counters, pending, live, turns, args, seen, views, faults, history>>

\* clear_awaiting_presentation pops the session's flag, whatever it now is,
\* and writes only when there was one.
ReadToClear(p, s, from, write, skip) ==
  /\ Goto(p, from, IF counters.awaiting[s] = None THEN skip ELSE write)
  /\ IF counters.awaiting[s] = None THEN UNCHANGED views ELSE ReadCounters(p)
  /\ UNCHANGED <<now, counters, pending, live, turns, args, seen, faults, history>>

WriteCleared(p, s, from, to) ==
  /\ Goto(p, from, to)
  /\ counters' = [cview[p] EXCEPT !.awaiting[s] = None]
  /\ IF p \in Shows THEN Lift(cview[p], counters') ELSE UNCHANGED lifted
  /\ Forget(p)
  /\ UNCHANGED <<now, pending, live, turns, args, seen, faults, billed, stored, woken, presented,
                 evicted, amid>>

\* Mutant: one review too many.
LimitPassed == counters.day = Day(now) /\ counters.count > Limit

LimitReached == counters.day = Day(now) /\ counters.count >= Limit
Cooling      == counters.last # Never /\ now - counters.last < Cooldown

\* A direct request passes both limits; the user's own words pass the cooldown.
Passes(signal) ==
  \/ signal = "forced"
  \/ ~ LimitReached /\ (Cooling => signal = "directive")

PassLimits(r) ==
  /\ Goto(r, "limits", "note")
  /\ Passes(event[r].signal)
  /\ UNCHANGED <<now, counters, pending, live, turns, args, seen, views, faults, history>>

Limited(r) ==
  /\ Goto(r, "limits", "discardlast")
  /\ ~ Passes(event[r].signal)
  /\ UNCHANGED <<now, counters, pending, live, turns, args, seen, views, faults, history>>

-----------------------------------------------------------------------------
(* The review: orchestrate.run.                                            *)

\* gate.note_review.
ReadToNote(r) ==
  /\ Goto(r, "note", "noting")
  /\ ReadCounters(r)
  /\ UNCHANGED <<now, counters, pending, live, turns, args, seen, faults, history>>

\* On a new day the record starts afresh, its `awaiting' included.
Noted(c) ==
  LET d == IF c.day = Day(now) THEN c
           ELSE [c EXCEPT !.day = Day(now), !.count = 0,
                          !.awaiting = [s \in Sessions |-> None]]
  IN  [d EXCEPT !.count = d.count + 1, !.last = now]

WriteNoted(r) ==
  /\ Goto(r, "noting", "invoke")
  /\ counters' = Noted(cview[r])
  /\ Forget(r)
  /\ billed' = billed \cup {[review |-> r, day |-> Day(now)]}
  /\ Lift(cview[r], counters')
  /\ Amid(r, "noted", Others(r, Copying \cup {"note"}))
  /\ UNCHANGED <<now, pending, live, turns, args, seen, faults, stored, woken, presented,
                 evicted>>

\* reviewer.review: a call that is paid for and ends in a proposal, a decline, a
\* failure or a timeout; a lesson seen before counts as a decline.
Invoke(r, lesson) ==
  /\ Goto(r, "invoke", IF lesson THEN "store" ELSE "discardlast")
  /\ UNCHANGED <<now, counters, pending, live, turns, args, seen, views, faults, history>>

\* Mutant: the candidate is queued and announced without its record.
StoreCandidateNot(r) ==
  /\ Goto(r, "store", "queue")
  /\ UNCHANGED <<now, counters, pending, live, turns, args, seen, views, faults, history>>

StoreCandidate(r) ==
  /\ Goto(r, "store", "queue")
  /\ live' = live \cup {r}
  /\ stored' = stored \cup {r}
  /\ UNCHANGED <<now, counters, pending, turns, args, seen, views, faults, billed, woken,
                 presented, evicted, lifted, amid>>

\* _add_pending.
ReadToQueue(r) ==
  /\ Goto(r, "queue", "queueing")
  /\ ReadQueue(r)
  /\ UNCHANGED <<now, counters, pending, live, turns, args, seen, faults, history>>

\* Mutant: the filter is inverted.
Only(q, c) == SelectSeq(q, LAMBDA d : d = c)

\* Mutant: no cap.
Whole(q) == q

Without(q, c) ==
  LET kept[n \in 0 .. Len(q)] ==
        IF n = 0 THEN <<>>
        ELSE IF q[n] = c THEN kept[n - 1] ELSE Append(kept[n - 1], q[n])
  IN  kept[Len(q)]

Newest(q)     == IF Len(q) > QueueMax THEN SubSeq(q, Len(q) - QueueMax + 1, Len(q)) ELSE q
Queued(q)     == {q[i] : i \in 1 .. Len(q)}

WriteQueued(r) ==
  LET q == Append(Without(qview[r], r), r) IN
    /\ Goto(r, "queueing", "discard")
    /\ pending' = Newest(q)
    /\ evicted' = evicted \cup (Queued(q) \ Queued(Newest(q)))
    /\ Amid(r, "queued", Others(r, Listing))
    /\ Forget(r)
    /\ UNCHANGED <<now, counters, live, turns, args, seen, faults, billed, stored, woken,
                   presented, lifted>>

\* capture.discard_turn, once on every way out.
DiscardTurn(r) ==
  /\ \/ Goto(r, "discard", "await")
     \/ Goto(r, "discardlast", "done")
  /\ turns' = turns \ {r}
  /\ UNCHANGED <<now, counters, pending, live, args, seen, views, faults, history>>

\* gate.note_awaiting_presentation.
ReadToAwait(r) ==
  /\ Goto(r, "await", "awaiting")
  /\ ReadCounters(r)
  /\ UNCHANGED <<now, counters, pending, live, turns, args, seen, faults, history>>

\* Mutant: the session's flag is not set.
WriteAwaitingNot(r) ==
  /\ Goto(r, "awaiting", "wake")
  /\ Forget(r)
  /\ UNCHANGED <<now, counters, pending, live, turns, args, seen, faults, history>>

WriteAwaiting(r) ==
  /\ Goto(r, "awaiting", "wake")
  /\ counters' = [cview[r] EXCEPT !.awaiting[SessionOf(r)] = r]
  /\ Lift(cview[r], counters')
  /\ Amid(r, "flagged", Others(r, Copying) \cup
                        {q \in Reviews \cap Others(r, Checked) : SessionOf(q) = SessionOf(r)})
  /\ Forget(r)
  /\ UNCHANGED <<now, pending, live, turns, args, seen, faults, billed, stored, woken, presented,
                 evicted>>

\* Exit 2 wakes the session; improve prints the candidate instead.
Wake(r) ==
  /\ Goto(r, "wake", "done")
  /\ woken' = woken \cup {r}
  /\ UNCHANGED <<now, counters, pending, live, turns, args, seen, views, faults, billed,
                 stored, presented, evicted, lifted, amid>>

-----------------------------------------------------------------------------
(* Presenting a candidate: commands.show_candidate.                        *)

\* The candidates a wake message, improve or SessionStart has named.
Askable == woken \cup Queued(pending)

Show(x, c) ==
  /\ Goto(x, "idle", "show")
  /\ Room
  /\ shown' = [shown EXCEPT ![x] = c]
  /\ UNCHANGED <<now, counters, pending, live, turns, event, seen, views, faults, history>>

ReadCandidate(x) ==
  /\ Goto(x, "show", IF shown[x] \in live THEN "clear" ELSE "done")
  /\ UNCHANGED <<now, counters, pending, live, turns, args, seen, views, faults, history>>

\* orchestrate.drop_pending, then the record is printed.
ReadToDrop(x) ==
  /\ Goto(x, "drop", "dropping")
  /\ ReadQueue(x)
  /\ UNCHANGED <<now, counters, pending, live, turns, args, seen, faults, history>>

WriteDropped(x) ==
  /\ Goto(x, "dropping", "done")
  /\ pending' = Without(qview[x], shown[x])
  /\ presented' = presented \cup {shown[x]}
  /\ Forget(x)
  /\ UNCHANGED <<now, counters, live, turns, args, seen, faults, billed, stored, woken,
                 evicted, lifted, amid>>

-----------------------------------------------------------------------------
(* Time, expiry and kills.                                                 *)

Tick ==
  /\ now < MaxTime
  /\ now' = now + 1
  /\ UNCHANGED <<counters, pending, live, turns, pc, args, seen, views, faults, history>>

\* CANDIDATE_TTL has passed: the record is read as None, or swept.
Expire(c) ==
  /\ faults < MaxFaults
  /\ c \in live
  /\ faults' = faults + 1
  /\ live' = live \ {c}
  /\ UNCHANGED <<now, counters, pending, turns, pc, args, seen, views, history>>

\* The session exits or the hook's timeout ends the process.
Kill(p) ==
  /\ faults < MaxFaults
  /\ p \in Running
  /\ faults' = faults + 1
  /\ pc' = [pc EXCEPT ![p] = "done"]
  /\ Forget(p)
  /\ UNCHANGED <<now, counters, pending, live, turns, args, seen, history>>

-----------------------------------------------------------------------------

ReviewStep(r) ==
  \/ NoSignal(r) \/ ReadAwaited(r) \/ StillAwaiting(r) \/ NotAwaiting(r)
  \/ ReadToClear(r, SessionOf(r), "unawait", "unawaiting", "limits")
  \/ WriteCleared(r, SessionOf(r), "unawaiting", "limits")
  \/ PassLimits(r) \/ Limited(r)
  \/ ReadToNote(r) \/ WriteNoted(r)
  \/ \E lesson \in BOOLEAN : Invoke(r, lesson)
  \/ StoreCandidate(r) \/ ReadToQueue(r) \/ WriteQueued(r) \/ DiscardTurn(r)
  \/ ReadToAwait(r) \/ WriteAwaiting(r) \/ Wake(r)

ShowStep(x) ==
  \/ ReadCandidate(x)
  \/ ReadToClear(x, SessionOf(shown[x]), "clear", "clearing", "drop")
  \/ WriteCleared(x, SessionOf(shown[x]), "clearing", "drop")
  \/ ReadToDrop(x) \/ WriteDropped(x)

Next ==
  \/ \E r \in Reviews : (\E s \in Sessions, k \in Signals : Stop(r, s, k)) \/ ReviewStep(r)
  \/ \E x \in Shows : (\E c \in Askable : Show(x, c)) \/ ShowStep(x)
  \/ Tick
  \/ \E c \in Reviews : Expire(c)
  \/ \E p \in Procs : Kill(p)

Spec == Init /\ [][Next]_vars

-----------------------------------------------------------------------------
(* Properties.                                                             *)

\* Every variable stays within its type.
TypeOK ==
  /\ now \in 0 .. MaxTime
  /\ counters \in Counters
  /\ pending \in Seq(Reviews) /\ Len(pending) <= QueueMax
  /\ live \subseteq stored
  /\ turns \subseteq Reviews
  /\ pc \in [Procs -> Steps]
  /\ event \in [Reviews -> [session : Sessions, signal : Signals] \cup {None}]
  /\ shown \in [Shows -> Reviews \cup {None}]
  /\ seen \in [Reviews -> Reviews \cup {None}]
  /\ cview \in [Procs -> Counters \cup {None}]
  /\ qview \in [Procs -> Seq(Reviews)]
  /\ faults \in 0 .. MaxFaults
  /\ billed \subseteq [review : Reviews, day : Nat]
  /\ stored \subseteq Reviews
  /\ woken \subseteq stored /\ presented \subseteq stored /\ evicted \subseteq stored
  /\ lifted \subseteq Reviews
  /\ amid \in [{"noted", "queued", "flagged"} -> SUBSET Reviews]

Automatic(b) == event[b.review].signal # "forced"

\* "The real spending ceiling, and nothing automatic passes it" (gate.py:156):
\* the reviews noted on one day that nobody asked for stay within the limit.  The
\* code keeps this only while hooks take turns.
DailyCeiling ==
  \A d \in Day(0) .. Day(now) :
    Cardinality({b \in billed : b.day = d /\ Automatic(b)}) <= Limit

\* What the code keeps of the ceiling when hooks overlap: each review beyond the
\* day's limit was itself noted while another had passed the limits and was not
\* counted yet, or while another was rewriting the counters.
CeilingUnlessAmid ==
  \A d \in Day(0) .. Day(now) :
    Cardinality({b \in billed : b.day = d /\ Automatic(b) /\ b.review \notin amid["noted"]}) <= Limit

\* c still waits for its user: nobody asked for it, no other event took its flag
\* down (another candidate of its session, shown or announced, or a new day), and
\* the flag was not put up amid a review or a rewriting of the counters.
Guarded(c) ==
  /\ \A x \in Shows : shown[x] # c
  /\ c \notin lifted \cup amid["flagged"]

\* "The real recursion guard" (gate.py:71): no review, not even a forced one, goes
\* ahead in a session that was woken for a candidate that still waits for its user.
NotReviewedWhileAwaiting ==
  [][\A b \in billed' \ billed :
       ~ \E c \in woken \cap live : Guarded(c) /\ SessionOf(c) = SessionOf(b.review)]_vars

\* "A wake that never lands ... must still leave something for the next SessionStart"
\* (orchestrate.py:128-129): until it is shown, expires or is pushed out by newer
\* ones, a candidate whose session is being told of it is in the queue, unless it
\* was queued while another process was rewriting the queue.
WokenStaysQueued ==
  \A c \in live \ (presented \cup evicted \cup amid["queued"]) :
    c \in woken \/ pc[c] \in {"discard", "await", "awaiting", "wake"} => c \in Queued(pending)

\* What the two files refer to exists: a queued candidate was stored first, and
\* a session awaits only a candidate of its own that was stored and queued --
\* whichever stale copy was last written back.
ReferencesStored ==
  /\ Queued(pending) \subseteq stored
  /\ \A s \in Sessions : counters.awaiting[s] # None =>
       /\ counters.awaiting[s] \in stored
       /\ SessionOf(counters.awaiting[s]) = s
       /\ counters.awaiting[s] \notin turns
=============================================================================
